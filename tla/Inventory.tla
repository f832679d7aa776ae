------------------------------ MODULE Inventory ------------------------------
(***************************************************************************)
(* The providers of the snapshot (crates/substrate packages.rs,            *)
(* listeners.rs, ai.rs, ai_models.rs, network_hosts.rs): the parsers of    *)
(* the tools' output, and the collection itself, which asks the host one   *)
(* question after another while processes come and go, packages are        *)
(* upgraded and files appear and vanish.                                   *)
(*                                                                         *)
(* A line of output is a record of the fields its parser tells apart.      *)
(***************************************************************************)
EXTENDS Integers, FiniteSets, SequencesExt

CONSTANTS
  Absent,      \* no value
  Os,          \* the platforms tried, of "linux", "windows", "macos"
  Pids, Names, \* processes
  Ports,
  RuntimeOf,   \* process name -> the AI runtime whose name it contains
  PortRuntime, \* port -> the AI runtime it is known for
  Libs,        \* package -> version -> the libraries it provides
  Roots,       \* the model directories, in the order they are walked
  Tree,        \* directory -> its entries
  Kind,        \* entry -> "dir", "symlink", "model" or "other"
  MaxDepth, MaxFiles,
  Width, MaxHosts, \* bits of an address; the most a range may expand to
  Sample,      \* bytes of a file's head and tail that are read
  Lines,       \* bound: the inputs of the parsers
  Weights,     \* bound: the contents of a model file
  MaxChurn     \* bound: changes of the host

ASSUME ReaderAssumption ==
  /\ {Width, MaxHosts, Sample} \subseteq Nat /\ Absent \notin {"", "installed"}
  /\ \A ls \in Lines : ls \in Seq(ToSet(ls)) /\ \A k \in 1..Len(ls) : ls[k].value # Absent
  /\ \A w \in Weights : w \in Seq(ToSet(w))
ASSUME WalkAssumption == {MaxDepth, MaxFiles} \subseteq Nat /\ Roots \in Seq(DOMAIN Tree)

VARIABLES
  given,  \* the input of a pure function: [kind, ...]
  sys,    \* the host: [os, procs: pid -> name, socks, pkgs: package -> version, files]
  col,    \* the collection: [pc, listeners, probing, packages, unread, frames, roots, left, models, skipped]
  witnessed, \* what happened meanwhile: [served, rebound, upgraded, gone]
  churn   \* changes of the host so far

inventoryVars == <<given, sys, col, witnessed, churn>>

-----------------------------------------------------------------------------
(* Packages. *)

Package(name, version, source) == [name |-> name, version |-> version, source |-> source]

NoParagraph == [out |-> <<>>, name |-> Absent, version |-> Absent, installed |-> FALSE]
OrEmpty(v) == IF v = Absent THEN "" ELSE v

\* Mutant: a paragraph that is not installed leaves its fields to the next one.
PushDpkgKeeps(st) ==
  IF st.installed /\ st.name # Absent
  THEN [NoParagraph EXCEPT !.out = Append(st.out, Package(st.name, OrEmpty(st.version), "dpkg"))]
  ELSE st

PushDpkg(st) ==
  [NoParagraph EXCEPT !.out =
     IF st.installed /\ st.name # Absent
     THEN Append(st.out, Package(st.name, OrEmpty(st.version), "dpkg")) ELSE st.out]

DpkgLine(st, l) ==
  CASE l.field = "blank"   -> PushDpkg(st)
    [] l.field = "Package" -> [st EXCEPT !.name = l.value]
    [] l.field = "Version" -> [st EXCEPT !.version = l.value]
    [] l.field = "Status"  -> [st EXCEPT !.installed = (l.value = "installed")]
    [] OTHER -> st

\* parse_dpkg_status: the last paragraph may not end with a blank line.
ParseDpkgStatus(lines) ==
  LET st[i \in 0..Len(lines)] == IF i = 0 THEN NoParagraph ELSE DpkgLine(st[i - 1], lines[i])
  IN  PushDpkg(st[Len(lines)]).out

PushReg(st) ==
  [NoParagraph EXCEPT !.out = IF st.name # Absent
     THEN Append(st.out, Package(st.name, OrEmpty(st.version), "registry")) ELSE st.out]

\* reg_value: the whole token is the name, and there is data.
RegValue(l, name) == IF l.field = name /\ l.value # "" THEN l.value ELSE Absent

RegLine(st, l) ==
  IF l.field = "HKEY" THEN PushReg(st)
  ELSE IF RegValue(l, "DisplayName") # Absent THEN [st EXCEPT !.name = RegValue(l, "DisplayName")]
  ELSE IF RegValue(l, "DisplayVersion") # Absent THEN [st EXCEPT !.version = RegValue(l, "DisplayVersion")]
  ELSE st

\* parse_reg_uninstall: every key begins a block.
ParseRegUninstall(lines) ==
  LET st[i \in 0..Len(lines)] == IF i = 0 THEN NoParagraph ELSE RegLine(st[i - 1], lines[i])
  IN  PushReg(st[Len(lines)]).out

\* rpm and brew list a package per line; a line without a version is skipped.
ParseLinewise(lines, source) ==
  {Package(l.name, l.version, source) : l \in {l \in lines : l.name # "" /\ l.version # Absent}}

\* The shared libraries by the package that provides them; two architectures of
\* a package are merged.
LibrariesOf(pkgs) == [p \in DOMAIN pkgs |-> IF pkgs[p] = Absent THEN {} ELSE Libs[p][pkgs[p]]]

-----------------------------------------------------------------------------
(* Listeners, runtimes, ranges, fingerprints. *)

\* parse_addr_port: a wildcard is every IPv4 address; without a port there is nothing.
ParseAddrPort(f) == IF f.port = Absent THEN Absent
                    ELSE [addr |-> IF f.addr = "*" THEN "0.0.0.0" ELSE f.addr, port |-> f.port]

\* parse_ss, parse_netstat, parse_lsof: netstat knows no names.
ParseListeners(rows, os) ==
  {[addr |-> ParseAddrPort(r).addr, port |-> r.port, pid |-> r.pid,
    process |-> IF os = "windows" THEN Absent ELSE r.process]
     : r \in {r \in rows : r.listening /\ ParseAddrPort(r) # Absent}}

\* match_runtime: by name, else by a port that is nobody else's.
MatchRuntime(process, port) ==
  IF process \in DOMAIN RuntimeOf THEN RuntimeOf[process]
  ELSE IF port \in DOMAIN PortRuntime THEN PortRuntime[port] ELSE Absent

IsExposed(addr) == addr \notin {"127.0.0.1", "::1", "localhost"}

Classify(listeners) ==
  {[runtime |-> MatchRuntime(l.process, l.port), process |-> l.process, pid |-> l.pid,
    port |-> l.port, exposed |-> IsExposed(l.addr), version |-> Absent, models |-> Absent]
     : l \in {l \in listeners : MatchRuntime(l.process, l.port) # Absent}}

\* The number of addresses that k bits tell apart.
AddressCount[k \in 0..Width] == IF k = 0 THEN 1 ELSE 2 * AddressCount[k - 1]

\* expand_cidr: the host bits are masked off; a range that is too large is refused.
ExpandCidr(base, prefix) ==
  LET count == IF prefix > Width THEN 0 ELSE AddressCount[Width - prefix]
  IN  IF prefix > Width \/ count > MaxHosts THEN {}
      ELSE {(base - (base % count) + i) % AddressCount[Width] : i \in 0..(count - 1)}

Sized(n) == IF n < Sample THEN n ELSE Sample

\* fingerprint: the size, the head and the tail, as an injective hash.
Fingerprint(content) ==
  LET n == Len(content)
  IN  <<n, SubSeq(content, 1, Sized(n)),
        IF n > Sample THEN SubSeq(content, n - Sample + 1, n) ELSE <<>>>>

-----------------------------------------------------------------------------
(* The collection: StubSnapshot::with_all_providers. *)

Goes(pc) == [col EXCEPT !.pc = pc]
Rows == {[addr |-> s.addr, port |-> s.port, pid |-> s.pid, listening |-> TRUE,
          process |-> sys.procs[s.pid]] : s \in sys.socks}

\* The tool is run; it may fail, and it does not show everything to everyone.
ListListeners ==
  /\ col.pc = "listeners"
  /\ \E shown \in SUBSET Rows :
       col' = [Goes(IF sys.os = "windows" THEN "tasklist" ELSE "classify") EXCEPT
                 !.listeners = ParseListeners(shown, sys.os)]
  /\ UNCHANGED <<given, sys, witnessed, churn>>

\* tasklist is a second call: it names what runs under the pid by now.
NameProcesses ==
  /\ col.pc = "tasklist"
  /\ \E fails \in BOOLEAN :
       col' = [Goes("classify") EXCEPT
                 !.listeners = IF fails THEN @ ELSE {[l EXCEPT !.process = sys.procs[l.pid]] : l \in @}]
  /\ UNCHANGED <<given, sys, witnessed, churn>>

ClassifyListeners ==
  /\ col.pc = "classify"
  /\ col' = [Goes("probe") EXCEPT !.probing = Classify(col.listeners)]
  /\ UNCHANGED <<given, sys, witnessed, churn>>

\* Who answers on the loopback at the port, if anyone does.
Answering(port) ==
  {sys.procs[s.pid] : s \in {s \in sys.socks : s.port = port /\ s.addr \in {"*", "127.0.0.1"}}}

\* http_get_json: the runtime is asked for its version and then, in a second
\* connection, for its models; what does not answer in time leaves nothing.
ProbeVersion ==
  /\ col.pc = "probe"
  /\ \E r \in col.probing :
       /\ r.runtime = "Ollama" /\ r.version = Absent
       /\ \E by \in Answering(r.port) \cup {"nobody"} :
            col' = [col EXCEPT !.probing = (@ \ {r}) \cup {[r EXCEPT !.version = by]}]
  /\ UNCHANGED <<given, sys, witnessed, churn>>

ProbeModels ==
  /\ col.pc = "probe"
  /\ \E r \in col.probing :
       /\ r.runtime = "Ollama" /\ r.version # Absent /\ r.models = Absent
       /\ \E by \in Answering(r.port) \cup {"nobody"} :
            col' = [col EXCEPT !.probing = (@ \ {r}) \cup {[r EXCEPT !.models = by]}]
  /\ UNCHANGED <<given, sys, witnessed, churn>>

ProbesDone ==
  /\ col.pc = "probe" /\ \A r \in col.probing : r.runtime = "Ollama" => r.models # Absent
  /\ col' = Goes("packages")
  /\ UNCHANGED <<given, sys, witnessed, churn>>

\* The list of packages; a tool that fails lists none.  On Linux the libraries are
\* read afterwards, from a file for every package.
ListPackages ==
  /\ col.pc = "packages"
  /\ \E fails \in BOOLEAN :
       LET lines == {[name |-> p, version |-> sys.pkgs[p]] : p \in DOMAIN sys.pkgs}
           listed == IF fails THEN {} ELSE ParseLinewise(lines, sys.os)
       IN  col' = [Goes("libraries") EXCEPT
                     !.packages = {[name |-> p.name, version |-> p.version, libs |-> {}] : p \in listed},
                     !.unread = IF sys.os = "linux" THEN {p.name : p \in listed} ELSE {}]
  /\ UNCHANGED <<given, sys, witnessed, churn>>

\* Mutant: the libraries of a file are given to every package.
AttachLibrariesAll ==
  /\ col.pc = "libraries"
  /\ \E n \in col.unread : \E libs \in {{}, LibrariesOf(sys.pkgs)[n]} :
       col' = [col EXCEPT !.unread = @ \ {n}, !.packages = {[p EXCEPT !.libs = libs] : p \in @}]
  /\ UNCHANGED <<given, sys, witnessed, churn>>

\* One file of libraries is read, as it is by now or not at all, and joined to the
\* package by its name (the one call of rpm is these steps with nothing between).
AttachLibraries ==
  /\ col.pc = "libraries"
  /\ \E n \in col.unread : \E libs \in {{}, LibrariesOf(sys.pkgs)[n]} :
       col' = [col EXCEPT !.unread = @ \ {n},
                          !.packages = {IF p.name = n THEN [p EXCEPT !.libs = libs] ELSE p : p \in @}]
  /\ UNCHANGED <<given, sys, witnessed, churn>>

LibrariesDone ==
  /\ col.pc = "libraries" /\ col.unread = {}
  /\ col' = Goes("walk")
  /\ UNCHANGED <<given, sys, witnessed, churn>>

\* The entries a directory has now; it may be unreadable.
Entries(d) == {e \in Tree[d] : Kind[e] \in {"dir", "symlink"} \/ e \in sys.files}

\* Opening a directory at a depth.
Opened(d, depth) ==
  {[entries |-> Entries(d), depth |-> depth, readable |-> TRUE],
   [entries |-> {}, depth |-> depth, readable |-> FALSE]}

Enter(c, frame) == [c EXCEPT !.frames = <<frame>> \o @, !.skipped = @ \/ ~frame.readable]

WalkRoot ==
  /\ col.pc = "walk" /\ col.frames = <<>> /\ col.roots # <<>> /\ col.left > 0
  /\ \E f \in Opened(Head(col.roots), 0) : col' = Enter([col EXCEPT !.roots = Tail(@)], f)
  /\ UNCHANGED <<given, sys, witnessed, churn>>

Descends(depth) == depth + 1 <= MaxDepth

Found(c, e) == [c EXCEPT !.models = Append(@, e), !.left = @ - 1]

\* The walk without one entry of the directory it is in.
Without(e) ==
  LET top == Head(col.frames)
  IN  [col EXCEPT !.frames = <<[top EXCEPT !.entries = @ \ {e}]>> \o Tail(@)]

\* The entries come in any order; a file that is gone by now is skipped, and a
\* link is not followed.
WalkEntry ==
  /\ col.pc = "walk" /\ col.frames # <<>> /\ col.left > 0
  /\ \E e \in Head(col.frames).entries :
       LET rest == Without(e)
           depth == Head(col.frames).depth
       IN  \/ /\ Kind[e] = "dir" /\ Descends(depth)
              /\ \E f \in Opened(e, depth + 1) : col' = Enter(rest, f)
           \/ /\ Kind[e] = "dir" /\ ~Descends(depth) /\ col' = rest
           \/ /\ Kind[e] = "model" /\ e \in sys.files /\ col' = Found(rest, e)
           \/ /\ Kind[e] = "symlink" \/ Kind[e] = "other" \/ (Kind[e] = "model" /\ e \notin sys.files)
              /\ col' = rest
  /\ UNCHANGED <<given, sys, witnessed, churn>>

WalkUp ==
  /\ col.pc = "walk" /\ col.frames # <<>> /\ (Head(col.frames).entries = {} \/ col.left = 0)
  /\ col' = [col EXCEPT !.frames = Tail(@)]
  /\ UNCHANGED <<given, sys, witnessed, churn>>

WalkEnds ==
  /\ col.pc = "walk" /\ col.frames = <<>> /\ (col.roots = <<>> \/ col.left = 0)
  /\ col' = Goes("done")
  /\ UNCHANGED <<given, sys, witnessed, churn>>

-----------------------------------------------------------------------------
(* The host, meanwhile. *)

\* Who has a port, and under which name.
Server(h, t) == {<<s.pid, h.procs[s.pid]>> : s \in {s \in h.socks : s.port = t}}

\* While the listeners are asked about, a port may pass to someone else; between
\* the list of packages and the file of one, that package may be upgraded.
Changes(h) ==
  /\ churn < MaxChurn /\ churn' = churn + 1 /\ col.pc # "done"
  /\ sys' = h
  /\ witnessed' = [served |-> witnessed.served \cup {<<s.port, s.pid, h.procs[s.pid]>> : s \in h.socks},
                   rebound |-> witnessed.rebound \cup
                     {t \in Ports : col.pc \in {"tasklist", "classify", "probe"} /\ Server(h, t) # Server(sys, t)},
                   upgraded |-> witnessed.upgraded \cup {p \in col.unread : h.pkgs[p] # sys.pkgs[p]},
                   gone |-> witnessed.gone \cup (sys.files \ h.files) \cup (h.files \ sys.files)]
  /\ UNCHANGED <<given, col>>

\* A process ends, and another is given its pid.
PidReused == \E p \in Pids, n \in Names :
  Changes([sys EXCEPT !.procs[p] = n, !.socks = {s \in @ : s.pid # p}])
Binds == \E p \in Pids, a \in {"*", "127.0.0.1"}, t \in Ports :
  /\ ~\E s \in sys.socks : s.port = t
  /\ Changes([sys EXCEPT !.socks = @ \cup {[addr |-> a, port |-> t, pid |-> p]}])
PackageChanges == \E p \in DOMAIN Libs : \E v \in DOMAIN Libs[p] \cup {Absent} :
  Changes([sys EXCEPT !.pkgs[p] = v])
FileChanges == \E e \in {e \in DOMAIN Kind : Kind[e] = "model"} :
  Changes([sys EXCEPT !.files = IF e \in @ THEN @ \ {e} ELSE @ \cup {e}])

\* The inputs of the pure functions; with one of them nothing is collected.
NoInput == [kind |-> "none"]
GivenInputs ==
  {[kind |-> "lines", lines |-> ls] : ls \in Lines}
  \cup {[kind |-> "range", base |-> b, prefix |-> p] : b \in 0..(AddressCount[Width] - 1), p \in 0..(Width + 1)}
  \cup {[kind |-> "contents", a |-> x, b |-> y] : x, y \in Weights}

StartingHost == [os |-> Absent, procs |-> [p \in Pids |-> CHOOSE n \in Names : TRUE], socks |-> {},
           pkgs |-> [p \in DOMAIN Libs |-> CHOOSE v \in DOMAIN Libs[p] : TRUE], files |-> {}]

InventoryInit ==
  /\ \/ given = NoInput /\ \E o \in Os, fs \in SUBSET {e \in DOMAIN Kind : Kind[e] = "model"} :
                              sys = [StartingHost EXCEPT !.os = o, !.files = fs]
     \/ given \in GivenInputs /\ sys = StartingHost
  /\ churn = 0
  /\ col = [pc |-> "listeners", listeners |-> {}, probing |-> {}, packages |-> {}, unread |-> {},
            frames |-> <<>>, roots |-> Roots, left |-> MaxFiles, models |-> <<>>, skipped |-> FALSE]
  /\ witnessed = [served |-> {}, rebound |-> {}, upgraded |-> {}, gone |-> {}]

InventoryNext ==
  /\ given = NoInput
  /\ \/ ListListeners \/ NameProcesses \/ ClassifyListeners \/ ProbeVersion \/ ProbeModels
     \/ ProbesDone \/ ListPackages \/ AttachLibraries \/ LibrariesDone \/ WalkRoot \/ WalkEntry \/ WalkUp \/ WalkEnds
     \/ PidReused \/ Binds \/ PackageChanges \/ FileChanges

InventorySpec == InventoryInit /\ [][InventoryNext]_inventoryVars

-----------------------------------------------------------------------------
(* Properties. *)

\* The lines between line e and the separator before it.
Block(lines, sep, e) == {k \in 1..(e - 1) : \A j \in k..(e - 1) : lines[j].field # sep}
Ends(lines, sep) == {e \in 1..(Len(lines) + 1) : e = Len(lines) + 1 \/ lines[e].field = sep}

\* The lines that give a field, and the last value they give it.
Gives(lines, field) == {k \in 1..Len(lines) : lines[k].field = field}
LastValue(lines, K) ==
  IF K = {} THEN Absent ELSE lines[CHOOSE k \in K : \A j \in K : j <= k].value

\* What f gives for the numbers of a set, listed in their order.
ListsInOrder(out, S, f) ==
  /\ Len(out) = Cardinality(S)
  /\ \A e \in S : out[Cardinality({x \in S : x <= e})] = f[e]

\* Name, version and state of a package are those of one paragraph: what the
\* parser keeps from line to line never crosses into the next one, installed
\* or not.
ParagraphsApart ==
  given.kind = "lines" =>
    LET Value(e, field) == LastValue(given.lines, Block(given.lines, "blank", e) \cap Gives(given.lines, field))
        ends == Ends(given.lines, "blank")
    IN  ListsInOrder(ParseDpkgStatus(given.lines),
          {e \in ends : Value(e, "Status") = "installed" /\ Value(e, "Package") # Absent},
          [e \in ends |-> Package(Value(e, "Package"), OrEmpty(Value(e, "Version")), "dpkg")])

\* So it is with the keys of the registry; a value without data is none.
KeysApart ==
  given.kind = "lines" =>
    LET data == {k \in 1..Len(given.lines) : given.lines[k].value # ""}
        Value(e, field) == LastValue(given.lines, Block(given.lines, "HKEY", e) \cap Gives(given.lines, field) \cap data)
        ends == Ends(given.lines, "HKEY")
    IN  ListsInOrder(ParseRegUninstall(given.lines), {e \in ends : Value(e, "DisplayName") # Absent},
          [e \in ends |-> Package(Value(e, "DisplayName"), OrEmpty(Value(e, "DisplayVersion")), "registry")])

\* A sweep visits the addresses of the range and no other.
CidrExact ==
  given.kind = "range" =>
    LET count == AddressCount[Width - given.prefix]
        inside == {a \in 0..(AddressCount[Width] - 1) : a \div count = given.base \div count}
    IN  ExpandCidr(given.base, given.prefix) =
          IF given.prefix > Width \/ count > MaxHosts THEN {} ELSE inside

\* A change is seen in a file of up to two samples, wherever it is.
ChangeSeen ==
  given.kind = "contents" =>
    (Len(given.a) <= 2 * Sample /\ given.a # given.b => Fingerprint(given.a) # Fingerprint(given.b))

\* The process a listener is said to belong to served its port under that pid,
\* even where a second tool names it, unless the port changed hands before that.
ListenerNamed ==
  \A l \in col.listeners : l.process # Absent =>
    <<l.port, l.pid, l.process>> \in witnessed.served \/ l.port \in witnessed.rebound

\* The name, the version and the models of a runtime, asked for one after the
\* other, are those of one process, unless its port changed hands meanwhile.
RuntimeWhole ==
  \A r \in col.probing : r.port \notin witnessed.rebound =>
    \A x, y \in {r.process, r.version, r.models} \ {Absent, "nobody"} : x = y

\* The libraries that confirm a flaw's reach are those of the version listed,
\* unless the package was upgraded between the two readings.
LibrariesProvided ==
  \A p \in col.packages : p.libs \in {{}, Libs[p.name][p.version]} \/ p.name \in witnessed.upgraded

\* The walk lists no more files than its bound.
WalkBounded == Len(col.models) <= MaxFiles

\* The ways of n directories down from a directory, by no link.
Paths(d, n) == {p \in [1..n -> DOMAIN Tree] :
                 p[1] = d /\ \A i \in 1..(n - 1) : p[i + 1] \in Tree[p[i]] /\ Kind[p[i + 1]] = "dir"}

\* What lies in a directory at a depth and below it, no deeper than the bound.
Below(d, depth) ==
  UNION {UNION {Tree[p[n]] : p \in Paths(d, n)} : n \in 1..(MaxDepth + 1 - depth)}

\* A walk that did not reach its bound has found every model file that was there
\* all the time, no deeper than the bound and behind no link.
AllFound ==
  col.pc = "done" /\ col.left > 0 /\ ~col.skipped =>
    \A d \in ToSet(Roots) : (Below(d, 0) \cap sys.files) \ witnessed.gone \subseteq ToSet(col.models)

\* What a reader makes of the text or the range it is given is what it says: a
\* package takes nothing from its neighbours, a key nothing from keys like it, a
\* range is its addresses, and a file that changed has another fingerprint.
ReadersExact == ParagraphsApart /\ KeysApart /\ CidrExact /\ ChangeSeen

\* On a host that changes while it is looked at, what a snapshot joins from
\* several readings belonged together, unless that very thing changed between
\* them; and a walk within its bounds misses nothing that was there.
SnapshotTrue == ListenerNamed /\ RuntimeWhole /\ LibrariesProvided /\ WalkBounded /\ AllFound
=============================================================================
