----------------------------- MODULE Monitors ------------------------------
(***************************************************************************)
(* The activity monitors: procmon, netmon, filemon, aiusage and libload    *)
(* (crates/modules), at their end of the event bus                         *)
(* (crates/substrate/src/lib.rs).  A monitor is one task that takes the    *)
(* bus's events one at a time; the bus is a broadcast channel of BusCap    *)
(* events, so a monitor that falls behind loses the oldest of its backlog. *)
(* The monitors share nothing else, and one of them is looked at at a time.*)
(*                                                                         *)
(* An image, a command line, an address and a path are kept as what the    *)
(* rules tell apart: see the operators that take them.  An event carries   *)
(* `n', its number on the host, `origin', the process it is about, and     *)
(* `runs', what that process was running, for the properties; no handler   *)
(* reads them.                                                             *)
(***************************************************************************)
EXTENDS Integers, SequencesExt, FiniteSetsExt, Collections

CONSTANTS Monitor,     \* the monitors looked at
          BusCap,      \* the capacity of the broadcast channel
          MaxTracked,  \* MAX_PENDING of procmon, MAX_TRACKED of aiusage
          None         \* no value

ShortLived == 1        \* SHORT_LIVED_MS, in the model's unit of time

ASSUME BusSizes == BusCap \in Nat \ {0} /\ MaxTracked \in Nat \ {0}

VARIABLES monitor,   \* which monitor this is
          backlog,   \* the events it has not received
          lagged,    \* whether it has lost events
          table,     \* pending of procmon, pid_tools of aiusage
          seen,      \* libload's reported paths
          records,   \* what it has emitted, in order
          handled,   \* the events it has received, in order
          stopped    \* stop has been called and the task has left its loop

monVars == <<monitor, backlog, lagged, table, seen, records, handled, stopped>>

Informational == 1
Medium == 3
High == 4

\* What the rules know of an image: whether its base name is in LOLBINS, whether
\* its directory is in SUSPICIOUS_PATHS, whether it is in INTERPRETERS, and the
\* tool of the CATALOG it is.
Image == [lolbin : BOOLEAN, suspiciousDir : BOOLEAN, interpreter : BOOLEAN,
          tool : STRING \cup {None}]

\* And of a command line: whether it holds one of SUSPICIOUS_CMDLINE, and the tool
\* it runs.
Cmdline == [abuse : BOOLEAN, tool : STRING \cup {None}]

\* tx.send: the subscriber's oldest event makes room for the new one.
Publish(e) ==
  IF stopped THEN UNCHANGED <<backlog, lagged>>
  ELSE /\ backlog' = Append(IF Len(backlog) = BusCap THEN Tail(backlog) ELSE backlog, e)
       /\ lagged' = (lagged \/ Len(backlog) = BusCap)

-----------------------------------------------------------------------------
(* The rules.  An assessment is the set of rules that hit. *)

RuleSeverity(r) ==
  CASE r \in {"lolbin_in_suspicious_path", "lolbin_suspicious_cmdline",
              "suspicious_port_to_external", "write_to_system_dir",
              "write_to_persistence_location", "write_to_sensitive_config"} -> High
    [] r \in {"lolbin", "suspicious_path", "short_lived_suspicious",
              "suspicious_port", "read_of_sensitive_file"} -> Medium
    [] OTHER -> Informational

Severity(rules) == Max({RuleSeverity(r) : r \in rules} \cup {Informational})

\* procmon: an image by its base name and its directory, with the command line
\* and the trust the backend may have added.
AssessCtx(image, cmdline, trusted) ==
  LET odd == image.suspiciousDir /\ trusted # TRUE
  IN {r \in {"lolbin", "suspicious_path", "lolbin_in_suspicious_path",
             "lolbin_suspicious_cmdline"} :
        CASE r = "lolbin"                    -> image.lolbin
          [] r = "suspicious_path"           -> odd
          [] r = "lolbin_in_suspicious_path" -> image.lolbin /\ odd
          [] OTHER -> image.lolbin /\ cmdline # None /\ cmdline.abuse}

Assess(image) == AssessCtx(image, None, None)

AssessLifecycle(image, lifetime) ==
  IF Severity(Assess(image)) > Informational /\ lifetime < ShortLived
  THEN {"short_lived_suspicious"} ELSE {}

\* netmon: everything that is not private, loopback, link-local or unspecified;
\* an address that does not parse is not external.
IsExternal(addr) == addr = "public"

AssessConnect(addr, port) ==
  (IF port = "suspicious" THEN {"suspicious_port"} ELSE {}) \cup
  (IF port = "suspicious" /\ IsExternal(addr) THEN {"suspicious_port_to_external"}
   ELSE {})

\* filemon: a path is the set of the table entries it contains and its extension;
\* the entries of Windows are written with slashes.
SystemDirs == {"/windows/system32/", "/program files/", "/usr/bin/", "/usr/sbin/", "/bin/", "/sbin/"}
Persistence == {"/start menu/programs/startup/", "/system32/tasks/",
                "/etc/cron", "/etc/systemd/", "/etc/init.d/", "/etc/rc.local"}
SensitiveConfig == {"/etc/", ".ssh/", "/system32/config/", "/drivers/etc/hosts"}
SensitiveRead == {"/etc/shadow", ".ssh/id_", "/system32/config/sam", "/etc/sudoers"}

\* Mutant: a list that forgets a directory some rules are about.
WatchForgets ==
  {"/windows/system32/", "/program files/", "/start menu/programs/startup/", "/system32/tasks/",
   "/system32/config/", "/drivers/etc/hosts", "/usr/bin/", "/usr/sbin/", "/bin/", "/sbin/", "/etc/",
   "/etc/cron", "/etc/systemd/", "/etc/init.d/", "/etc/rc.local"}

\* The default policy lists by itself what the rules list again.
Watch ==
  {"/windows/system32/", "/program files/", "/start menu/programs/startup/", "/system32/tasks/",
   "/system32/config/", "/drivers/etc/hosts", "/usr/bin/", "/usr/sbin/", "/bin/", "/sbin/", "/etc/",
   ".ssh/", "/etc/cron", "/etc/systemd/", "/etc/init.d/", "/etc/rc.local"}
Ignore == {"/appdata/local/temp/", "/tmp/", "/temp/", "/ebwebview/", "/cache/", "/logfiles/",
           "/proc/", "/sys/", "/dev/"}
IgnoreExt == {".log", ".etl"}

\* An entry contains its own parts: /etc/cron is under /etc/.
Fragments(path) ==
  path.has \cup (IF path.has \cap {"/etc/cron", "/etc/systemd/", "/etc/init.d/", "/etc/rc.local",
                                   "/etc/shadow", "/etc/sudoers"} # {}
                 THEN {"/etc/"} ELSE {})
           \cup (IF ".ssh/id_" \in path.has THEN {".ssh/"} ELSE {})
           \cup (IF "/system32/config/sam" \in path.has THEN {"/system32/config/"} ELSE {})
           \cup (IF "/usr/bin/" \in path.has THEN {"/bin/"} ELSE {})
           \cup (IF "/usr/sbin/" \in path.has THEN {"/sbin/"} ELSE {})
           \cup (IF "/appdata/local/temp/" \in path.has THEN {"/temp/"} ELSE {})

\* FilePolicy::considers: watched, and then not ignored; an ignored extension
\* counts only at the end of the path.
Considers(path) ==
  /\ Fragments(path) \cap Watch # {}
  /\ Fragments(path) \cap Ignore = {} /\ path.ext \notin IgnoreExt

AssessFile(path, write) ==
  {r \in {"write_to_system_dir", "write_to_persistence_location",
          "write_to_sensitive_config", "read_of_sensitive_file"} :
     CASE r = "write_to_system_dir" -> write /\ Fragments(path) \cap SystemDirs # {}
       [] r = "write_to_persistence_location" ->
            write /\ Fragments(path) \cap Persistence # {}
       [] r = "write_to_sensitive_config" ->
            write /\ Fragments(path) \cap SensitiveConfig # {}
       [] OTHER -> ~write /\ Fragments(path) \cap SensitiveRead # {}}

\* aiusage: the tool an image's base name is in the catalogue, the interpreters,
\* and the first argument of a command line that is in the catalogue.
MatchTool(image) == image.tool
IsInterpreter(image) == image.interpreter
MatchToolInCmdline(cmdline) == IF cmdline = None THEN None ELSE cmdline.tool

\* An address that does not parse has no scope; loopback never counts as private.
ClassifyScope(addr) ==
  CASE addr = "unparsable"  -> None
    [] addr = "loopback"    -> "loopback"
    [] IsExternal(addr)     -> "external"
    [] OTHER                -> "private"

-----------------------------------------------------------------------------
(* The bounded tables by pid: at the cap, the entry with the lowest time goes. *)

Oldest(t) == {p \in DOMAIN t : \A q \in DOMAIN t : t[p].ts <= t[q].ts}
Forget(t, p) == Restrict(t, DOMAIN t \ {p})
EmitRecord(rec) == records' = Append(records, rec)

\* Mutant: a pid keeps its first entry.
RememberFirst(p, v) ==
  \E old \in IF p \notin DOMAIN table /\ Cardinality(DOMAIN table) >= MaxTracked
             THEN Oldest(table) ELSE {None} :
     table' = Forget(table, old) @@ (p :> v)

Remember(p, v) ==
  \E old \in IF p \notin DOMAIN table /\ Cardinality(DOMAIN table) >= MaxTracked
             THEN Oldest(table) ELSE {None} :
     table' = Put(Forget(table, old), p, v)

\* procmon
ProcExec(e) ==
  /\ EmitRecord([n |-> e.n, kind |-> "exec", pid |-> e.pid,
           severity |-> Severity(AssessCtx(e.image, e.cmdline, e.trusted))])
  /\ Remember(e.pid, [image |-> e.image, ts |-> e.ts, n |-> e.n, origin |-> e.origin])
  /\ UNCHANGED seen

\* The exec on record names the image; without one the lifetime is unknown.
ProcExit(e) ==
  /\ LET x == table[e.pid]
         lifetime == Max({e.ts - x.ts, 0})
     IN EmitRecord(IF e.pid \in DOMAIN table
             THEN [n |-> e.n, kind |-> "exit", pid |-> e.pid, exec |-> x.n,
                   of |-> x.origin, lifetime |-> lifetime,
                   severity |-> Max({Severity(Assess(x.image)),
                                     Severity(AssessLifecycle(x.image, lifetime))})]
             ELSE [n |-> e.n, kind |-> "exit", pid |-> e.pid, exec |-> None,
                   of |-> None, lifetime |-> None,
                   severity |-> Severity(Assess(e.image))])
  /\ table' = Forget(table, e.pid)
  /\ UNCHANGED seen

\* netmon reports every connection.
NetConnect(e) ==
  /\ EmitRecord([n |-> e.n, kind |-> "connect", pid |-> e.pid,
           severity |-> Severity(AssessConnect(e.addr, e.port))])
  /\ UNCHANGED <<table, seen>>

\* filemon filters, then assesses, and reports what is flagged.
FileActivity(e) ==
  LET rules == AssessFile(e.path, e.kind = "write")
  IN /\ IF Considers(e.path) /\ rules # {}
        THEN EmitRecord([n |-> e.n, kind |-> e.kind, pid |-> e.pid,
                   severity |-> Severity(rules)])
        ELSE UNCHANGED records
     /\ UNCHANGED <<table, seen>>

\* aiusage: an interpreter that runs a tool is remembered; any other exec
\* clears what the pid stood for.
AiExec(e) ==
  LET tool == IF IsInterpreter(e.image) THEN MatchToolInCmdline(e.cmdline) ELSE None
  IN /\ IF tool # None
        THEN Remember(e.pid, [tool |-> tool, ts |-> e.ts])
        ELSE table' = Forget(table, e.pid)
     /\ UNCHANGED <<records, seen>>

AiExit(e) == table' = Forget(table, e.pid) /\ UNCHANGED <<records, seen>>

\* The tool a connection belongs to, by its own name or by its interpreter's.
Attribution(e) ==
  CASE MatchTool(e.image) # None -> [tool |-> MatchTool(e.image), via |-> "comm"]
    [] IsInterpreter(e.image) /\ MatchTool(e.image) = None /\ e.pid \in DOMAIN table
         -> [tool |-> table[e.pid].tool, via |-> "cmdline"]
    [] OTHER -> None

AiConnect(e) ==
  /\ IF Attribution(e) = None \/ ClassifyScope(e.addr) = None THEN UNCHANGED records
     ELSE EmitRecord([n |-> e.n, kind |-> "connect", pid |-> e.pid, of |-> e.origin,
                tool |-> Attribution(e).tool, via |-> Attribution(e).via,
                scope |-> ClassifyScope(e.addr), runs |-> e.runs,
                severity |-> Informational])
  /\ UNCHANGED <<table, seen>>

\* libload reports a library at its first read-open of the run.
LibOpen(e) ==
  /\ IF e.path.lib /\ e.path \notin seen
     THEN /\ EmitRecord([n |-> e.n, kind |-> "load", path |-> e.path,
                   severity |-> Informational])
          /\ seen' = seen \cup {e.path}
     ELSE UNCHANGED <<records, seen>>
  /\ UNCHANGED table

-----------------------------------------------------------------------------
(* The task of a monitor. *)

Handles(m) ==
  CASE m = "procmon" -> {"exec", "exit"}
    [] m = "netmon"  -> {"connect"}
    [] m = "filemon" -> {"open", "write"}
    [] m = "aiusage" -> {"exec", "exit", "connect"}
    [] m = "libload" -> {"open"}

ProcMon(e) == \/ e.kind = "exec" /\ ProcExec(e)
              \/ e.kind = "exit" /\ ProcExit(e)
NetMon(e) == e.kind = "connect" /\ NetConnect(e)
FileMon(e) == e.kind \in {"open", "write"} /\ FileActivity(e)
AiUsage(e) == \/ e.kind = "exec" /\ AiExec(e)
              \/ e.kind = "exit" /\ AiExit(e)
              \/ e.kind = "connect" /\ AiConnect(e)
LibLoad(e) == e.kind = "open" /\ LibOpen(e)

HandleEvent(e) ==
  \/ monitor = "procmon" /\ ProcMon(e)
  \/ monitor = "netmon"  /\ NetMon(e)
  \/ monitor = "filemon" /\ FileMon(e)
  \/ monitor = "aiusage" /\ AiUsage(e)
  \/ monitor = "libload" /\ LibLoad(e)
  \/ e.kind \notin Handles(monitor) /\ UNCHANGED <<records, table, seen>>

Receive ==
  /\ ~stopped /\ backlog # <<>>
  /\ HandleEvent(Head(backlog))
  /\ backlog' = Tail(backlog)
  /\ handled' = Append(handled, Head(backlog))
  /\ UNCHANGED <<monitor, lagged, stopped>>

\* The stop arm of the select wins over whatever is still in the backlog.
StopMonitor ==
  /\ ~stopped /\ stopped' = TRUE
  /\ backlog' = <<>>
  /\ UNCHANGED <<monitor, lagged, table, seen, records, handled>>

MonitorInit ==
  /\ monitor \in Monitor
  /\ backlog = <<>> /\ lagged = FALSE /\ table = <<>> /\ seen = {}
  /\ records = <<>> /\ handled = <<>> /\ stopped = FALSE

MonitorNext == Receive \/ StopMonitor

-----------------------------------------------------------------------------
(* Properties. *)

Seen(k) == {i \in 1..Len(handled) : handled[i].kind = k}

\* Neither table grows past its cap.
TableBounded == Cardinality(DOMAIN table) <= MaxTracked

\* However events are lost, one exec accounts for at most one exit, and never
\* with a negative lifetime.
ExecUsedOnce ==
  monitor = "procmon" =>
    \A i, j \in 1..Len(records) :
      records[i].kind = "exit" /\ records[i].exec # None =>
        /\ records[i].lifetime >= 0
        /\ records[j].kind = "exit" /\ records[j].exec = records[i].exec => i = j

\* An exit finds the last exec of its pid whenever fewer than MaxTracked other
\* execs were received after it or bear no earlier time: eviction only takes
\* the oldest, whatever was lost and however the clock was stepped.
RecentExitCorrelated ==
  monitor = "procmon" =>
    \A i \in Seen("exec"), j \in Seen("exit") :
      LET x == handled[i]
          others == {k \in Seen("exec") : k < j /\ k # i /\ (k > i \/ handled[k].ts >= x.ts)}
      IN (/\ i < j /\ handled[j].pid = x.pid
          /\ \A k \in (i + 1)..(j - 1) : handled[k].pid # x.pid
          /\ Cardinality(others) < MaxTracked)
         => \E r \in 1..Len(records) :
              records[r].n = handled[j].n /\ records[r].exec = x.n

\* A connection is put down to a tool by its interpreter only when the last the
\* monitor heard of the pid, before the connection, was that interpreter
\* starting that tool: no exit and no other exec in between.
AttributedToLastExec ==
  monitor = "aiusage" =>
    \A r \in 1..Len(records) : records[r].via = "cmdline" =>
      \E j \in Seen("connect"), i \in Seen("exec") :
        /\ handled[j].n = records[r].n /\ i < j
        /\ handled[i].pid = records[r].pid
        /\ MatchToolInCmdline(handled[i].cmdline) = records[r].tool
        /\ \A k \in (i + 1)..(j - 1) :
             handled[k].pid = handled[i].pid => handled[k].kind = "connect"

\* libload reports every library it heard of, once.
LibraryOnce ==
  monitor = "libload" =>
    \A i \in Seen("open") : handled[i].path.lib =>
      Cardinality({r \in 1..Len(records) : records[r].path = handled[i].path}) = 1

\* filemon reports whatever a rule flags unless it is ignored: the watch list
\* hides no path that a rule is about.
FlaggedReported ==
  monitor = "filemon" =>
    \A i \in Seen("open") \cup Seen("write") :
      LET e == handled[i]
      IN (/\ AssessFile(e.path, e.kind = "write") # {}
          /\ Fragments(e.path) \cap Ignore = {} /\ e.path.ext \notin IgnoreExt)
         => \E r \in 1..Len(records) : records[r].n = e.n
=============================================================================
