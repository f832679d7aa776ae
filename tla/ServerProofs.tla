---------------------------- MODULE ServerProofs ----------------------------
(***************************************************************************)
(* Theorems about the server and the control channel: the trust of the     *)
(* channel, for every set of files, contents, loaders and clients, the     *)
(* threat feed, for every sequence of releases and set of installers, the  *)
(* frames of the stream, for every payload and size, the session of the    *)
(* issuer and the agent's gates, the store of ingest, for every set of     *)
(* runs, and the comparisons of versions, for strings of any length.       *)
(***************************************************************************)
EXTENDS Session, Trust, Feed, Framing, Ingest, SequenceFacts, SequenceTheorems,
        FiniteSetTheorems

(***************************************************************************)
(* Trust.                                                                  *)
(***************************************************************************)

\* What a file may hold, and the files a store is loaded from.
Content(f) == Seq(HeldBy(f)) \cup {Missing, Oversized}
FileSet(s) == ToSet(FilesOf(s))

DiskTyped ==
  /\ disk = [f \in Files |-> disk[f]] /\ \A f \in Files : disk[f] \in Content(f)
  /\ writing # Nothing =>
       /\ writing = [file |-> writing.file, rest |-> writing.rest]
       /\ writing.file \in Files /\ writing.rest # << >>
       /\ writing.rest \in Seq(HeldBy(writing.file))
       /\ disk[writing.file] \in Seq(HeldBy(writing.file))

MemoryTyped ==
  /\ live = [tls |-> live.tls, keys |-> live.keys]
  /\ \E S : loading \in [Loaders -> S]
  /\ \E S : conns \in [Clients -> S]
  /\ \E S : listed \in [Stores -> S]
  /\ \A s \in Stores : DOMAIN listed[s] = FileSet(s)

\* What is on disk has been listed for every store it belongs to.
Behind == \A s \in Stores : \A f \in FileSet(s) : Objects(disk[f]) \subseteq listed[s][f]

\* A reload has read, of its files, the ones it has not left, and what it has read was
\* there since it began, as is what is on the disk d.
Job(j, d) ==
  /\ j = [store |-> j.store, left |-> j.left, got |-> j.got, listed |-> j.listed]
  /\ j.store \in Stores /\ j.left \in Seq(FileSet(j.store))
  /\ DOMAIN j.listed = FileSet(j.store)
  /\ DOMAIN j.got \cup ToSet(j.left) = FileSet(j.store)
  /\ \A f \in DOMAIN j.got : j.got[f] \in Content(f) /\ Objects(j.got[f]) \subseteq j.listed[f]
  /\ \A f \in FileSet(j.store) : Objects(d[f]) \subseteq j.listed[f]

Jobs == \A t \in Loaders : loading[t] # Nothing => Job(loading[t], disk)

\* A reload that is the only one of its store has read what is listed of the store.
Only(t) ==
  /\ \A u \in Loaders \ {t} : loading[u] = Nothing \/ loading[u].store # loading[t].store
  /\ \A f \in DOMAIN loading[t].got :
       Objects(loading[t].got[f]) \subseteq listed[loading[t].store][f]

Alone == \A t \in Loaders : loading[t] # Nothing /\ loading[t].store \notin overlaid => Only(t)

InForce == NeverDisarmed /\ StaleNeverReturns /\ DOMAIN live.keys = ToSet(TrustFiles)

\* A connection that was taken would be admitted by the files if its configuration does.
Taken ==
  \A c \in Clients :
    conns[c].pc = "taken" /\ conns[c].alone
      /\ ClientAccepted(conns[c].cfg.roots, conns[c].cfg.crls, c) => conns[c].could

Met == Taken /\ ServedWasTrusted /\ \A c \in Clients : "pc" \in DOMAIN conns[c]

TrustInv == DiskTyped /\ MemoryTyped /\ Behind /\ Jobs /\ Alone /\ InForce /\ Met

\* The elements of two sequences, one after the other.
LEMMA ToSetConcat ==
  ASSUME NEW S, NEW a \in Seq(S), NEW b \in Seq(S)
  PROVE  ToSet(a \o b) = ToSet(a) \cup ToSet(b)
<1>1. /\ Len(a) \in Nat /\ Len(b) \in Nat /\ a \o b \in Seq(S)
      /\ Len(a \o b) = Len(a) + Len(b)
      /\ DOMAIN a = 1..Len(a) /\ DOMAIN b = 1..Len(b) /\ DOMAIN (a \o b) = 1..(Len(a) + Len(b))
  OBVIOUS
<1>2. \A i \in 1..(Len(a) + Len(b)) :
        (a \o b)[i] = IF i <= Len(a) THEN a[i] ELSE b[i - Len(a)]
  BY <1>1
<1>3. ASSUME NEW x \in ToSet(a \o b) PROVE x \in ToSet(a) \cup ToSet(b)
  <2>1. PICK i \in 1..(Len(a) + Len(b)) : x = (a \o b)[i]
    BY <1>1, <1>3 DEF ToSet
  <2>2. i \in 1..Len(a) \/ i - Len(a) \in 1..Len(b)
    BY <1>1
  <2> QED
    BY <1>1, <1>2, <2>1, <2>2 DEF ToSet
<1>4. ASSUME NEW x \in ToSet(a) PROVE x \in ToSet(a \o b)
  <2>1. PICK i \in 1..Len(a) : x = a[i]
    BY <1>1, <1>4 DEF ToSet
  <2>2. i \in 1..(Len(a) + Len(b)) /\ (a \o b)[i] = x
    BY <1>1, <1>2, <2>1
  <2> QED
    BY <1>1, <2>2 DEF ToSet
<1>5. ASSUME NEW x \in ToSet(b) PROVE x \in ToSet(a \o b)
  <2>1. PICK i \in 1..Len(b) : x = b[i]
    BY <1>1, <1>5 DEF ToSet
  <2>2. i + Len(a) \in 1..(Len(a) + Len(b)) /\ (a \o b)[i + Len(a)] = x
    BY <1>1, <1>2, <2>1
  <2> QED
    BY <1>1, <2>2 DEF ToSet
<1> QED
  BY <1>3, <1>4, <1>5

\* The elements of a sequence, those of its tail and its head.
LEMMA ToSetTail ==
  ASSUME NEW S, NEW a \in Seq(S), a # << >>
  PROVE  /\ Head(a) \in S /\ Tail(a) \in Seq(S) /\ Len(a) \in Nat \ {0}
         /\ ToSet(a) = {Head(a)} \cup ToSet(Tail(a)) /\ ToSet(a) \subseteq S
<1>1. /\ Len(a) \in Nat \ {0} /\ Head(a) = a[1] /\ Tail(a) \in Seq(S) /\ a[1] \in S
      /\ Len(Tail(a)) = Len(a) - 1 /\ DOMAIN a = 1..Len(a)
      /\ DOMAIN Tail(a) = 1..(Len(a) - 1)
      /\ \A i \in 1..(Len(a) - 1) : Tail(a)[i] = a[i + 1]
      /\ \A i \in 1..Len(a) : a[i] \in S
  OBVIOUS
<1>2. \A i \in 1..Len(a) : i = 1 \/ i - 1 \in 1..(Len(a) - 1)
  BY <1>1
<1>3. \A i \in 1..(Len(a) - 1) : i + 1 \in 1..Len(a)
  BY <1>1
<1>4. \A i \in 1..Len(a) : i # 1 => a[i] = Tail(a)[i - 1]
  BY <1>1, <1>2
<1>5. 1 \in 1..Len(a)
  BY <1>1
<1>6. ToSet(a) \subseteq {Head(a)} \cup ToSet(Tail(a))
  <2> SUFFICES ASSUME NEW x \in ToSet(a), x # Head(a) PROVE x \in ToSet(Tail(a))
    OBVIOUS
  <2>1. PICK i \in 1..Len(a) : x = a[i]
    BY <1>1 DEF ToSet
  <2>2. i - 1 \in DOMAIN Tail(a) /\ x = Tail(a)[i - 1]
    BY <1>1, <1>2, <1>4, <2>1
  <2> QED
    BY <2>2 DEF ToSet
<1>7. {Head(a)} \cup ToSet(Tail(a)) \subseteq ToSet(a)
  BY <1>1, <1>3, <1>5 DEF ToSet
<1> QED
  BY <1>1, <1>6, <1>7 DEF ToSet

\* A sequence with an element has a set with one.
LEMMA ToSetNonempty ==
  ASSUME NEW S, NEW a \in Seq(S), a # << >>
  PROVE  ToSet(a) # {}
<1>1. 1 \in DOMAIN a
  OBVIOUS
<1> QED
  BY <1>1 DEF ToSet

\* What is appended joins the set.
LEMMA ToSetAppend ==
  ASSUME NEW S, NEW a \in Seq(S), NEW x \in S
  PROVE  Append(a, x) \in Seq(S) /\ ToSet(Append(a, x)) = ToSet(a) \cup {x}
<1>1. /\ Len(a) \in Nat /\ Append(a, x) \in Seq(S) /\ DOMAIN a = 1..Len(a)
      /\ DOMAIN Append(a, x) = 1..(Len(a) + 1)
      /\ \A i \in 1..Len(a) : Append(a, x)[i] = a[i]
      /\ Append(a, x)[Len(a) + 1] = x
  OBVIOUS
<1>2. \A i \in 1..(Len(a) + 1) : i \in 1..Len(a) \/ i = Len(a) + 1
  BY <1>1
<1>3. Len(a) + 1 \in 1..(Len(a) + 1) /\ \A i \in 1..Len(a) : i \in 1..(Len(a) + 1)
  BY <1>1
<1> QED
  BY <1>1, <1>2, <1>3 DEF ToSet

\* The files of the stores.
LEMMA FileFacts ==
  /\ \A s \in Stores : FilesOf(s) \in Seq(Files) /\ FilesOf(s) \in Seq(FileSet(s))
                       /\ FileSet(s) \subseteq Files
  /\ FileSet("keys") = ToSet(TrustFiles)
  /\ ToSet(TlsFiles.ca) \subseteq FileSet("tls") /\ ToSet(TlsFiles.crl) \subseteq FileSet("tls")
  /\ TlsFiles.chain \in FileSet("tls") /\ TlsFiles.key \in FileSet("tls")
<1>1. /\ TlsFiles.ca \in Seq(Files) /\ TlsFiles.crl \in Seq(Files) /\ TrustFiles \in Seq(Files)
  BY TrustAssumption
<1>2. TlsFiles.chain \in Files /\ TlsFiles.key \in Files
  BY DEF Files
<1> DEFINE two == <<TlsFiles.chain, TlsFiles.key>>
<1>3. two \in Seq(Files) /\ ToSet(two) = {TlsFiles.chain, TlsFiles.key}
  <2>1. DOMAIN two = {1, 2} /\ two[1] = TlsFiles.chain /\ two[2] = TlsFiles.key
    OBVIOUS
  <2>2. two \in Seq(Files)
    BY <1>2
  <2> HIDE DEF two
  <2>3. ToSet(two) = {two[1], two[2]}
    BY <2>1 DEF ToSet
  <2> QED
    BY <2>1, <2>2, <2>3
<1> HIDE DEF two
<1>4. /\ TlsFiles.ca \o TlsFiles.crl \in Seq(Files)
      /\ (TlsFiles.ca \o TlsFiles.crl) \o two \in Seq(Files)
      /\ ToSet((TlsFiles.ca \o TlsFiles.crl) \o two) =
           ToSet(TlsFiles.ca) \cup ToSet(TlsFiles.crl) \cup ToSet(two)
  <2>1. TlsFiles.ca \o TlsFiles.crl \in Seq(Files)
    BY <1>1
  <2>2. ToSet(TlsFiles.ca \o TlsFiles.crl) = ToSet(TlsFiles.ca) \cup ToSet(TlsFiles.crl)
    BY <1>1, ToSetConcat
  <2> DEFINE one == TlsFiles.ca \o TlsFiles.crl
  <2>3. one \in Seq(Files) /\ ToSet(one) = ToSet(TlsFiles.ca) \cup ToSet(TlsFiles.crl)
    BY <2>1, <2>2
  <2> HIDE DEF one
  <2>4. one \o two \in Seq(Files) /\ ToSet(one \o two) = ToSet(one) \cup ToSet(two)
    BY <1>3, <2>3, ToSetConcat
  <2> QED
    BY <2>1, <2>3, <2>4 DEF one
<1>5. FilesOf("tls") = (TlsFiles.ca \o TlsFiles.crl) \o two
  BY DEF FilesOf, two
<1>6. FilesOf("keys") = TrustFiles
  BY DEF FilesOf
<1>7. \A s \in Stores : FilesOf(s) \in Seq(Files)
  BY <1>1, <1>4, <1>5, <1>6 DEF Stores
<1>8. ASSUME NEW q \in Seq(Files) PROVE q \in Seq(ToSet(q)) /\ ToSet(q) \subseteq Files
  <2>1. Len(q) \in Nat /\ DOMAIN q = 1..Len(q) /\ \A i \in 1..Len(q) : q[i] \in ToSet(q) /\ q[i] \in Files
    BY DEF ToSet
  <2> QED
    BY <2>1, SMTT(30) DEF ToSet
<1>9. /\ FileSet("keys") = ToSet(TrustFiles)
      /\ FileSet("tls") = ToSet(TlsFiles.ca) \cup ToSet(TlsFiles.crl) \cup {TlsFiles.chain, TlsFiles.key}
  BY <1>3, <1>4, <1>5, <1>6 DEF FileSet
<1> QED
  BY <1>7, <1>8, <1>9 DEF FileSet

\* What a file that loads holds: objects that parse, in a sequence.
LEMMA LoadedFacts ==
  ASSUME NEW f \in Files, NEW c \in Content(f), Parsed(c) # Err
  PROVE  /\ Parsed(c) = c /\ c \in Seq(HeldBy(f)) /\ Objects(c) = ToSet(c) /\ Bad \notin ToSet(c)
         /\ c # << >> => ToSet(c) # {}
<1>1. Parsed(c) = c /\ c # Missing /\ c # Oversized /\ Bad \notin ToSet(c)
  BY DEF Parsed
<1>2. c \in Seq(HeldBy(f))
  BY <1>1 DEF Content
<1>3. c # << >> => ToSet(c) # {}
  BY <1>2, ToSetNonempty
<1> QED
  BY <1>1, <1>2, <1>3 DEF Objects

\* The objects of some files that parse.
Sound(got, paths) == (UNION {Objects(got[p]) : p \in ToSet(paths)}) \ {Bad}

\* Every object of every one of some files, none of which is empty.
LEMMA LoadAllFacts ==
  ASSUME NEW got, NEW paths, ToSet(paths) \subseteq Files,
         \A p \in ToSet(paths) : got[p] \in Content(p),
         LoadAll(got, paths) # Err
  PROVE  /\ LoadAll(got, paths) \subseteq Sound(got, paths)
         /\ ToSet(paths) # {} => LoadAll(got, paths) # {}
<1>1. /\ LoadAll(got, paths) = UNION {ToSet(got[p]) : p \in ToSet(paths)}
      /\ \A p \in ToSet(paths) : LoadSome(got[p]) # Err
  BY DEF LoadAll
<1>2. ASSUME NEW p \in ToSet(paths)
      PROVE  Objects(got[p]) = ToSet(got[p]) /\ Bad \notin ToSet(got[p]) /\ ToSet(got[p]) # {}
  <2>1. Parsed(got[p]) # Err /\ Parsed(got[p]) # << >>
    BY <1>1 DEF LoadSome
  <2>2. got[p] \in Content(p) /\ p \in Files
    OBVIOUS
  <2>3. /\ Parsed(got[p]) = got[p] /\ Objects(got[p]) = ToSet(got[p]) /\ Bad \notin ToSet(got[p])
        /\ got[p] # << >> => ToSet(got[p]) # {}
    BY <2>1, <2>2, LoadedFacts
  <2> QED
    BY <2>1, <2>3
<1>3. ASSUME NEW x \in LoadAll(got, paths)
      PROVE  x \in Sound(got, paths)
  <2>1. PICK p \in ToSet(paths) : x \in ToSet(got[p])
    BY <1>1, <1>3
  <2>2. x \in Objects(got[p]) /\ x # Bad
    BY <1>2, <2>1
  <2> QED
    BY <2>1, <2>2 DEF Sound
<1>4. ASSUME NEW p \in ToSet(paths) PROVE LoadAll(got, paths) # {}
  <2>1. PICK x : x \in ToSet(got[p])
    BY <1>2
  <2>2. x \in UNION {ToSet(got[q]) : q \in ToSet(paths)}
    BY <2>1
  <2> QED
    BY <1>1, <2>2
<1>5. LoadAll(got, paths) \subseteq Sound(got, paths)
  BY <1>3
<1>6. ToSet(paths) # {} => LoadAll(got, paths) # {}
  BY <1>4
<1> QED
  BY <1>5, <1>6

\* A configuration that is built has trust anchors, revocation lists where they are
\* asked for, and nothing that is not in the files.
LEMMA BuildTlsFacts ==
  ASSUME NEW got, \A f \in FileSet("tls") : got[f] \in Content(f), BuildTls(got) # Err
  PROVE  /\ BuildTls(got).roots # {} /\ (TlsFiles.crl # << >> => BuildTls(got).crls # {})
         /\ BuildTls(got).roots \subseteq Sound(got, TlsFiles.ca)
         /\ BuildTls(got).crls \subseteq Sound(got, TlsFiles.crl)
<1> DEFINE roots == LoadAll(got, TlsFiles.ca)
           crls == LoadAll(got, TlsFiles.crl)
           leaf == Head(LoadSome(got[TlsFiles.chain]))
<1>1. /\ roots # Err /\ crls # Err /\ roots # {}
      /\ BuildTls(got) = [roots |-> roots, leaf |-> leaf, crls |-> crls]
  BY DEF BuildTls
<1>2. /\ ToSet(TlsFiles.ca) \subseteq Files /\ ToSet(TlsFiles.crl) \subseteq Files
      /\ ToSet(TlsFiles.ca) \subseteq FileSet("tls") /\ ToSet(TlsFiles.crl) \subseteq FileSet("tls")
  BY FileFacts DEF Stores
<1>3. TlsFiles.crl # << >> => ToSet(TlsFiles.crl) # {}
  <2>1. TlsFiles.crl \in Seq(Files)
    BY TrustAssumption
  <2> QED
    BY <2>1, ToSetNonempty
<1>4. roots \subseteq Sound(got, TlsFiles.ca)
  BY <1>1, <1>2, LoadAllFacts
<1>5. /\ crls \subseteq Sound(got, TlsFiles.crl)
      /\ TlsFiles.crl # << >> => crls # {}
  BY <1>1, <1>2, <1>3, LoadAllFacts
<1>6. BuildTls(got).roots = roots /\ BuildTls(got).crls = crls
  BY <1>1
<1> QED
  BY <1>1, <1>4, <1>5, <1>6

\* The keys that are loaded are those in the files, an actor's in its own.
LEMMA BuildKeysFacts ==
  ASSUME NEW got, \A f \in FileSet("keys") : got[f] \in Content(f), BuildKeys(got) # Err
  PROVE  /\ DOMAIN BuildKeys(got) = ToSet(TrustFiles)
         /\ \A p \in ToSet(TrustFiles) : BuildKeys(got)[p] \subseteq Objects(got[p])
<1>1. BuildKeys(got) = [p \in ToSet(TrustFiles) |-> Objects(got[p])]
  BY DEF BuildKeys
<1> QED
  BY <1>1

\* The first state.
LEMMA TrustInitInv == TrustInit => TrustInv
<1> SUFFICES ASSUME TrustInit PROVE TrustInv
  OBVIOUS
<1>1. /\ disk = [f \in Files |-> Contents[f][1]] /\ writing = Nothing
      /\ live = [tls |-> BuildTls(disk), keys |-> BuildKeys(disk)]
      /\ loading = [t \in Loaders |-> Nothing]
      /\ listed = [s \in Stores |-> OnDisk(s)] /\ overlaid = {}
  BY DEF TrustInit
<1>2. \A f \in Files : disk[f] \in Content(f)
  BY <1>1, TrustAssumption DEF Content
<1>3. BuildTls(disk) # Err /\ BuildKeys(disk) # Err
  BY <1>1, TrustAssumption
<1>4. DiskTyped
  BY <1>1, <1>2 DEF DiskTyped
<1>5. \A s \in Stores : listed[s] = [f \in FileSet(s) |-> Objects(disk[f])]
  BY <1>1 DEF OnDisk, FileSet
<1>6. MemoryTyped
  <2>1. live = [tls |-> live.tls, keys |-> live.keys]
    BY <1>1
  <2>2. \E S : loading \in [Loaders -> S]
    <3>1. loading \in [Loaders -> {Nothing}]
      BY <1>1
    <3> QED
      BY <3>1
  <2>3. \E S : conns \in [Clients -> S]
    <3> DEFINE r == [pc |-> "none", cfg |-> Nothing, could |-> FALSE, alone |-> TRUE]
    <3>1. conns = [c \in Clients |-> r]
      BY DEF TrustInit
    <3> HIDE DEF r
    <3>2. conns \in [Clients -> {r}]
      BY <3>1
    <3> QED
      BY <3>2
  <2>4. \E S : listed \in [Stores -> S]
    <3>1. listed \in [Stores -> {OnDisk(s) : s \in Stores}]
      BY <1>1
    <3> QED
      BY <3>1
  <2> QED
    BY <1>5, <2>1, <2>2, <2>3, <2>4 DEF MemoryTyped
<1>7. Behind /\ Jobs /\ Alone
  <2>1. Behind
    BY <1>5 DEF Behind
  <2>2. \A t \in Loaders : loading[t] = Nothing
    BY <1>1
  <2> QED
    BY <2>1, <2>2 DEF Jobs, Alone
<1>8. InForce
  <2>1. \A s \in Stores : FileSet(s) \subseteq Files
    BY FileFacts
  <2>2. /\ \A f \in FileSet("tls") : disk[f] \in Content(f)
        /\ \A f \in FileSet("keys") : disk[f] \in Content(f)
    BY <1>2, <2>1 DEF Stores
  <2>3. live.tls = BuildTls(disk) /\ live.keys = BuildKeys(disk)
    BY <1>1
  <2>4. /\ live.tls.roots # {} /\ (TlsFiles.crl # << >> => live.tls.crls # {})
        /\ live.tls.roots \subseteq Sound(disk, TlsFiles.ca)
        /\ live.tls.crls \subseteq Sound(disk, TlsFiles.crl)
    BY <1>3, <2>2, <2>3, BuildTlsFacts
  <2>5. /\ DOMAIN live.keys = ToSet(TrustFiles)
        /\ \A p \in ToSet(TrustFiles) : live.keys[p] \subseteq Objects(disk[p])
    BY <1>3, <2>2, <2>3, BuildKeysFacts
  <2>6. /\ \A p \in ToSet(TlsFiles.ca) : listed["tls"][p] = Objects(disk[p])
        /\ \A p \in ToSet(TlsFiles.crl) : listed["tls"][p] = Objects(disk[p])
        /\ \A p \in ToSet(TrustFiles) : listed["keys"][p] = Objects(disk[p])
    BY <1>5, FileFacts DEF Stores
  <2>7. /\ Listed("tls", TlsFiles.ca) = Sound(disk, TlsFiles.ca)
        /\ Listed("tls", TlsFiles.crl) = Sound(disk, TlsFiles.crl)
    BY <2>6 DEF Listed, Sound
  <2> QED
    BY <1>3, <2>3, <2>4, <2>5, <2>6, <2>7 DEF InForce, NeverDisarmed, StaleNeverReturns
<1>9. Met
  <2>1. \A c \in Clients : conns[c].pc = "none" /\ "pc" \in DOMAIN conns[c]
    BY DEF TrustInit
  <2> QED
    BY <2>1 DEF Met, Taken, ServedWasTrusted
<1> QED
  BY <1>4, <1>6, <1>7, <1>8, <1>9 DEF TrustInv

\* What was listed stays listed: what is in force goes on being backed by the files.
LEMMA ForceStays ==
  ASSUME InForce, live' = live, overlaid \subseteq overlaid',
         \A s \in Stores : \A f \in FileSet(s) : listed[s][f] \subseteq listed'[s][f]
  PROVE  InForce'
<1>1. /\ \A p \in ToSet(TlsFiles.ca) : listed["tls"][p] \subseteq listed'["tls"][p]
      /\ \A p \in ToSet(TlsFiles.crl) : listed["tls"][p] \subseteq listed'["tls"][p]
      /\ \A p \in ToSet(TrustFiles) : listed["keys"][p] \subseteq listed'["keys"][p]
  BY FileFacts DEF Stores
<1>2. \A x \in Listed("tls", TlsFiles.ca) : x \in Listed("tls", TlsFiles.ca)'
  BY <1>1 DEF Listed
<1>3. \A x \in Listed("tls", TlsFiles.crl) : x \in Listed("tls", TlsFiles.crl)'
  BY <1>1 DEF Listed
<1>4. NeverDisarmed'
  BY DEF InForce, NeverDisarmed
<1>5. StaleNeverReturns'
  BY <1>1, <1>2, <1>3 DEF InForce, StaleNeverReturns
<1> QED
  BY <1>4, <1>5 DEF InForce

\* Ops empty a file, or take it away.
LEMMA RewriteBeginsInv ==
  ASSUME TrustInv, RewriteBegins PROVE TrustInv'
<1>1. UNCHANGED <<live, loading, conns, listed, overlaid>>
  BY DEF RewriteBegins
<1>2a. PICK f \in Files : \E i \in DOMAIN Contents[f] :
         IF Contents[f][i] = Missing \/ Contents[f][i] = Oversized \/ Contents[f][i] = <<>>
         THEN disk' = [disk EXCEPT ![f] = Contents[f][i]] /\ writing' = Nothing
         ELSE disk' = [disk EXCEPT ![f] = <<>>] /\ writing' = [file |-> f, rest |-> Contents[f][i]]
  BY DEF RewriteBegins
<1>2b. PICK i \in DOMAIN Contents[f] :
         IF Contents[f][i] = Missing \/ Contents[f][i] = Oversized \/ Contents[f][i] = <<>>
         THEN disk' = [disk EXCEPT ![f] = Contents[f][i]] /\ writing' = Nothing
         ELSE disk' = [disk EXCEPT ![f] = <<>>] /\ writing' = [file |-> f, rest |-> Contents[f][i]]
  BY <1>2a
<1> DEFINE c == Contents[f][i]
<1>2. IF c = Missing \/ c = Oversized \/ c = <<>>
      THEN disk' = [disk EXCEPT ![f] = c] /\ writing' = Nothing
      ELSE disk' = [disk EXCEPT ![f] = <<>>] /\ writing' = [file |-> f, rest |-> c]
  BY <1>2b
<1>3. /\ c \in {Missing, Oversized} \/ c \in Seq(HeldBy(f))
      /\ Missing \notin Seq(HeldBy(f)) /\ Oversized \notin Seq(HeldBy(f))
      /\ << >> \in Seq(HeldBy(f))
  BY TrustAssumption
<1>4. /\ disk = [g \in Files |-> disk[g]] /\ \A g \in Files : disk[g] \in Content(g)
  BY DEF TrustInv, DiskTyped
<1>5. \E d : /\ disk' = [disk EXCEPT ![f] = d] /\ d \in Content(f) /\ Objects(d) = {}
             /\ writing' = Nothing \/ (writing' = [file |-> f, rest |-> c] /\ d = << >>
                                       /\ c # << >> /\ c \in Seq(HeldBy(f)))
  <2>1. Objects(<< >>) = {}
    <3>1. << >> # Missing /\ << >> # Oversized
      BY <1>3
    <3>2. ToSet(<< >>) = {}
      BY DEF ToSet
    <3> QED
      BY <3>1, <3>2 DEF Objects
  <2>2. Objects(Missing) = {} /\ Objects(Oversized) = {}
    BY DEF Objects
  <2>3. CASE c = Missing \/ c = Oversized \/ c = << >>
    <3>1. disk' = [disk EXCEPT ![f] = c] /\ writing' = Nothing
      BY <1>2, <2>3
    <3>2. c \in Content(f) /\ Objects(c) = {}
      BY <1>3, <2>1, <2>2, <2>3 DEF Content
    <3> QED
      BY <3>1, <3>2
  <2>4. CASE ~(c = Missing \/ c = Oversized \/ c = << >>)
    <3>1. disk' = [disk EXCEPT ![f] = << >>] /\ writing' = [file |-> f, rest |-> c]
      BY <1>2, <2>4
    <3>2. << >> \in Content(f) /\ c \in Seq(HeldBy(f)) /\ c # << >>
      BY <1>3, <2>4 DEF Content
    <3> QED
      BY <2>1, <3>1, <3>2
  <2> QED
    BY <2>3, <2>4
<1> HIDE DEF c
<1>6. PICK d : /\ disk' = [disk EXCEPT ![f] = d] /\ d \in Content(f) /\ Objects(d) = {}
               /\ writing' = Nothing \/ (writing' = [file |-> f, rest |-> c] /\ d = << >>
                                         /\ c # << >> /\ c \in Seq(HeldBy(f)))
  BY <1>5
<1>7. /\ disk' = [g \in Files |-> disk'[g]]
      /\ disk'[f] = d /\ \A g \in Files : g # f => disk'[g] = disk[g]
  BY <1>4, <1>6
<1>8. DiskTyped'
  <2>1. \A g \in Files : disk'[g] \in Content(g)
    BY <1>4, <1>6, <1>7
  <2>2. CASE writing' = Nothing
    BY <1>7, <2>1, <2>2 DEF DiskTyped
  <2>3. CASE writing' # Nothing
    <3>1. /\ writing' = [file |-> f, rest |-> c] /\ d = << >> /\ c # << >> /\ c \in Seq(HeldBy(f))
      BY <1>6, <2>3
    <3>2. writing'.file = f /\ writing'.rest = c
      BY <3>1
    <3> QED
      BY <1>3, <1>7, <2>1, <3>1, <3>2 DEF DiskTyped
  <2> QED
    BY <2>2, <2>3
<1>9. \A g \in Files : Objects(disk'[g]) \subseteq Objects(disk[g])
  BY <1>6, <1>7
<1>10. \A s \in Stores : FileSet(s) \subseteq Files
  BY FileFacts
<1>11. Behind' /\ MemoryTyped' /\ Alone'
  BY <1>1, <1>9, <1>10 DEF TrustInv, Behind, MemoryTyped, Alone, Only
<1>12. Jobs'
  <2> SUFFICES ASSUME NEW t \in Loaders, loading'[t] # Nothing PROVE Job(loading'[t], disk')
    BY DEF Jobs
  <2>1. Job(loading[t], disk) /\ loading[t].store \in Stores
    BY <1>1 DEF TrustInv, Jobs, Job
  <2>2. \A g \in FileSet(loading[t].store) : Objects(disk'[g]) \subseteq loading[t].listed[g]
    BY <1>9, <1>10, <2>1 DEF Job
  <2> QED
    BY <1>1, <2>1, <2>2 DEF Job
<1>13. InForce'
  BY <1>1, ForceStays DEF TrustInv
<1>14. Met'
  BY <1>1 DEF TrustInv, Met, Taken, ServedWasTrusted
<1> QED
  BY <1>8, <1>11, <1>12, <1>13, <1>14 DEF TrustInv
\* A file that is listed with one more object.
LEMMA ListingFacts ==
  ASSUME NEW l, NEW f, NEW o
  PROVE  /\ DOMAIN Listing(l, f, o) = DOMAIN l
         /\ \A g \in DOMAIN l : l[g] \subseteq Listing(l, f, o)[g]
         /\ f \in DOMAIN l => o \in Listing(l, f, o)[f]
BY DEF Listing

\* What is left as it is needs no more than what it rests on: a job of which more is
\* listed, on a disk that holds no more than is listed.
LEMMA JobStays ==
  ASSUME NEW j, NEW k, NEW d, NEW e, Job(j, d),
         k = [store |-> j.store, left |-> j.left, got |-> j.got, listed |-> k.listed],
         DOMAIN k.listed = DOMAIN j.listed,
         \A f \in FileSet(j.store) : j.listed[f] \subseteq k.listed[f],
         \A f \in FileSet(j.store) : Objects(e[f]) \subseteq k.listed[f]
  PROVE  Job(k, e)
<1>1. k.store = j.store /\ k.left = j.left /\ k.got = j.got
  OBVIOUS
<1>2. DOMAIN j.got \subseteq FileSet(j.store)
  BY DEF Job
<1> QED
  BY <1>1, <1>2 DEF Job

\* Ops write the next object: it is listed for whoever may meet it.
LEMMA RewriteGoesOnInv ==
  ASSUME TrustInv, RewriteGoesOn PROVE TrustInv'
<1> DEFINE f == writing.file
           o == Head(writing.rest)
<1>1. /\ writing # Nothing /\ UNCHANGED <<live, conns, overlaid>>
      /\ disk' = [disk EXCEPT ![f] = Append(@, o)]
      /\ listed' = [s \in Stores |-> Listing(listed[s], f, o)]
      /\ loading' = [t \in Loaders |-> IF loading[t] = Nothing THEN Nothing
                       ELSE [loading[t] EXCEPT !.listed = Listing(@, f, o)]]
      /\ writing' = IF Len(writing.rest) = 1 THEN Nothing ELSE [writing EXCEPT !.rest = Tail(@)]
  BY DEF RewriteGoesOn
<1>2. /\ disk = [g \in Files |-> disk[g]] /\ \A g \in Files : disk[g] \in Content(g)
      /\ writing = [file |-> f, rest |-> writing.rest]
      /\ f \in Files /\ writing.rest # << >> /\ writing.rest \in Seq(HeldBy(f))
      /\ disk[f] \in Seq(HeldBy(f))
  BY <1>1 DEF TrustInv, DiskTyped
<1>3. /\ o \in HeldBy(f) /\ Tail(writing.rest) \in Seq(HeldBy(f))
      /\ Len(writing.rest) # 1 => Tail(writing.rest) # << >>
  <2> DEFINE r == writing.rest
  <2>1. r \in Seq(HeldBy(f)) /\ r # << >>
    BY <1>2
  <2> HIDE DEF f, r
  <2>2. Head(r) \in HeldBy(f) /\ Tail(r) \in Seq(HeldBy(f)) /\ Len(r) \in Nat \ {0}
    BY <2>1, ToSetTail
  <2>3. Len(Tail(r)) = Len(r) - 1 /\ Len(<< >>) = 0
    BY <2>1
  <2>3a. Len(r) # 1 => Len(Tail(r)) # 0
    BY <2>2, <2>3
  <2>4. Len(r) # 1 => Tail(r) # << >>
    BY <2>3, <2>3a, Zenon
  <2> QED
    BY <2>2, <2>4 DEF r
<1>4. Append(disk[f], o) \in Seq(HeldBy(f)) /\ ToSet(Append(disk[f], o)) = ToSet(disk[f]) \cup {o}
  BY <1>2, <1>3, ToSetAppend
<1> HIDE DEF f, o
<1>5. Missing \notin Seq(HeldBy(f)) /\ Oversized \notin Seq(HeldBy(f))
  BY <1>2, TrustAssumption
<1>6. /\ disk' = [g \in Files |-> disk'[g]] /\ disk'[f] = Append(disk[f], o)
      /\ \A g \in Files : g # f => disk'[g] = disk[g]
  BY <1>1, <1>2
<1>7. Objects(disk'[f]) = Objects(disk[f]) \cup {o}
  <2>1. Objects(disk[f]) = ToSet(disk[f])
    BY <1>2, <1>5 DEF Objects
  <2>2. Objects(disk'[f]) = ToSet(disk'[f])
    BY <1>4, <1>5, <1>6 DEF Objects
  <2> QED
    BY <1>4, <1>6, <2>1, <2>2
<1>8. DiskTyped'
  <2>1. \A g \in Files : disk'[g] \in Content(g)
    BY <1>2, <1>4, <1>6 DEF Content
  <2>2. CASE Len(writing.rest) = 1
    <3>1. writing' = Nothing
      BY <1>1, <2>2
    <3> QED
      BY <1>6, <2>1, <3>1 DEF DiskTyped
  <2>3. CASE Len(writing.rest) # 1
    <3>1. writing' = [file |-> f, rest |-> Tail(writing.rest)]
      <4> DEFINE r == writing.rest
      <4>1. writing' = [writing EXCEPT !.rest = Tail(r)] /\ writing = [file |-> f, rest |-> r]
        BY <1>1, <1>2, <2>3
      <4> HIDE DEF r
      <4>2. writing' = [file |-> f, rest |-> Tail(r)]
        BY <4>1
      <4> QED
        BY <4>2 DEF r
    <3>2. writing'.file = f /\ writing'.rest = Tail(writing.rest)
      BY <3>1
    <3> QED
      BY <1>2, <1>3, <1>4, <1>6, <2>1, <2>3, <3>1, <3>2 DEF DiskTyped
  <2> QED
    BY <2>2, <2>3
<1>9. \A s \in Stores : FileSet(s) \subseteq Files /\ DOMAIN listed[s] = FileSet(s)
  BY FileFacts DEF TrustInv, MemoryTyped
<1>10. \A s \in Stores : listed'[s] = Listing(listed[s], f, o)
  BY <1>1
<1>11. /\ \A s \in Stores : DOMAIN listed'[s] = FileSet(s)
       /\ \A s \in Stores : \A g \in FileSet(s) : listed[s][g] \subseteq listed'[s][g]
       /\ \A s \in Stores : f \in FileSet(s) => o \in listed'[s][f]
  BY <1>9, <1>10, ListingFacts
<1>12. \A t \in Loaders : loading'[t] = IF loading[t] = Nothing THEN Nothing
                            ELSE [loading[t] EXCEPT !.listed = Listing(@, f, o)]
  BY <1>1
<1>13. MemoryTyped'
  <2>1. \E S : listed' \in [Stores -> S]
    <3>1. listed' \in [Stores -> {Listing(listed[s], f, o) : s \in Stores}]
      BY <1>1
    <3> QED
      BY <3>1
  <2>2. \E S : loading' \in [Loaders -> S]
    <3> DEFINE g(t) == IF loading[t] = Nothing THEN Nothing
                       ELSE [loading[t] EXCEPT !.listed = Listing(@, f, o)]
    <3>1. loading' = [t \in Loaders |-> g(t)]
      BY <1>1
    <3> HIDE DEF g
    <3>2. loading' \in [Loaders -> {g(t) : t \in Loaders}]
      BY <3>1
    <3> QED
      BY <3>2
  <2> QED
    BY <1>1, <1>11, <2>1, <2>2 DEF TrustInv, MemoryTyped
<1>14. Behind'
  <2> SUFFICES ASSUME NEW s \in Stores, NEW g \in FileSet(s)
               PROVE  Objects(disk'[g]) \subseteq listed'[s][g]
    BY DEF Behind
  <2>1. Objects(disk[g]) \subseteq listed[s][g] /\ g \in Files
    BY <1>9 DEF TrustInv, Behind
  <2>2. CASE g = f
    BY <1>7, <1>11, <2>1, <2>2
  <2>3. CASE g # f
    BY <1>6, <1>11, <2>1, <2>3
  <2> QED
    BY <2>2, <2>3
<1>15. ASSUME NEW t \in Loaders, loading'[t] # Nothing
       PROVE  /\ loading[t] # Nothing /\ Job(loading[t], disk) /\ Job(loading'[t], disk')
              /\ loading'[t].store = loading[t].store /\ loading'[t].got = loading[t].got
  <2>1. loading[t] # Nothing /\ loading'[t] = [loading[t] EXCEPT !.listed = Listing(@, f, o)]
    BY <1>12, <1>15
  <2>2. Job(loading[t], disk)
    BY <2>1 DEF TrustInv, Jobs
  <2> DEFINE j == loading[t]
             k == loading'[t]
  <2>3. /\ j = [store |-> j.store, left |-> j.left, got |-> j.got, listed |-> j.listed]
        /\ DOMAIN j.listed = FileSet(j.store) /\ j.store \in Stores
        /\ \A g \in FileSet(j.store) : Objects(disk[g]) \subseteq j.listed[g]
    BY <2>2 DEF Job
  <2>4. /\ k = [store |-> j.store, left |-> j.left, got |-> j.got, listed |-> Listing(j.listed, f, o)]
    BY <2>1, <2>3
  <2>5. /\ k.listed = Listing(j.listed, f, o) /\ k.store = j.store /\ k.got = j.got
        /\ k = [store |-> j.store, left |-> j.left, got |-> j.got, listed |-> k.listed]
    BY <2>4
  <2>6. /\ DOMAIN k.listed = DOMAIN j.listed
        /\ \A g \in FileSet(j.store) : j.listed[g] \subseteq k.listed[g]
        /\ f \in FileSet(j.store) => o \in k.listed[f]
    BY <2>3, <2>5, ListingFacts
  <2>7. \A g \in FileSet(j.store) : Objects(disk'[g]) \subseteq k.listed[g]
    BY <1>6, <1>7, <1>9, <2>3, <2>6
  <2> HIDE DEF j, k
  <2>8. Job(j, disk)
    BY <2>2 DEF j
  <2>9. Job(k, disk')
    BY <2>5, <2>6, <2>7, <2>8, JobStays
  <2> QED
    BY <2>1, <2>2, <2>5, <2>9 DEF j, k
<1>16. Jobs'
  BY <1>15 DEF Jobs
<1>17. Alone'
  <2> SUFFICES ASSUME NEW t \in Loaders, loading'[t] # Nothing, loading'[t].store \notin overlaid'
               PROVE  Only(t)'
    BY DEF Alone
  <2>1. loading[t] # Nothing /\ loading[t].store \notin overlaid /\ Job(loading[t], disk)
    BY <1>1, <1>15
  <2>1a. Only(t) /\ loading[t].store \in Stores
    BY <2>1 DEF TrustInv, Alone, Job
  <2>1b. DOMAIN loading[t].got \subseteq FileSet(loading[t].store)
    BY <2>1 DEF Job
  <2>2. ASSUME NEW u \in Loaders, loading'[u] # Nothing
        PROVE  loading[u] # Nothing /\ loading'[u].store = loading[u].store
    BY <1>15, <2>2
  <2>3. \A u \in Loaders \ {t} : loading'[u] = Nothing \/ loading'[u].store # loading'[t].store
    BY <1>15, <2>1a, <2>2 DEF Only
  <2>4. loading'[t].store = loading[t].store /\ loading'[t].got = loading[t].got
    BY <1>15
  <2> QED
    BY <1>11, <2>1a, <2>1b, <2>3, <2>4 DEF Only
<1>18. InForce'
  BY <1>1, <1>11, ForceStays DEF TrustInv
<1>19. Met'
  BY <1>1 DEF TrustInv, Met, Taken, ServedWasTrusted
<1> QED
  BY <1>8, <1>13, <1>14, <1>16, <1>17, <1>18, <1>19 DEF TrustInv
\* What only the jobs differ in.
LEMMA JobsMove ==
  ASSUME TrustInv, UNCHANGED <<disk, writing, live, conns, listed>>, overlaid \subseteq overlaid',
         \E S : loading' \in [Loaders -> S], Jobs', Alone'
  PROVE  TrustInv'
<1>1. DiskTyped' /\ MemoryTyped' /\ Behind'
  BY DEF TrustInv, DiskTyped, MemoryTyped, Behind
<1>2. InForce'
  BY ForceStays DEF TrustInv
<1>3. Met'
  BY DEF TrustInv, Met, Taken, ServedWasTrusted
<1> QED
  BY <1>1, <1>2, <1>3 DEF TrustInv

\* A map that one entry is changed in.
LEMMA OneChanged ==
  ASSUME NEW D, NEW S, NEW g \in [D -> S], NEW t \in D, NEW x
  PROVE  /\ \E T : [g EXCEPT ![t] = x] \in [D -> T]
         /\ [g EXCEPT ![t] = x][t] = x
         /\ \A u \in D : u # t => [g EXCEPT ![t] = x][u] = g[u]
<1>1. [g EXCEPT ![t] = x] \in [D -> S \cup {x}]
  OBVIOUS
<1>2. \E T : [g EXCEPT ![t] = x] \in [D -> T]
  BY <1>1
<1> QED
  BY <1>2

\* A reload starts: it has read nothing, and two of a store are noted.
LEMMA ReloadBeginsInv ==
  ASSUME TrustInv, NEW t \in Loaders, ReloadBegins(t) PROVE TrustInv'
<1>1. loading[t] = Nothing /\ UNCHANGED <<disk, writing, live, conns, listed>>
  BY DEF ReloadBegins
<1>2. PICK s \in Stores :
        /\ loading' = [loading EXCEPT ![t] =
             [store |-> s, left |-> FilesOf(s), got |-> [f \in {} |-> Nothing], listed |-> OnDisk(s)]]
        /\ overlaid' = IF \E u \in Loaders : loading[u] # Nothing /\ loading[u].store = s
                       THEN overlaid \cup {s} ELSE overlaid
  BY DEF ReloadBegins
<1> DEFINE k == [store |-> s, left |-> FilesOf(s), got |-> [f \in {} |-> Nothing], listed |-> OnDisk(s)]
<1>3. /\ k = [store |-> k.store, left |-> k.left, got |-> k.got, listed |-> k.listed]
      /\ k.store = s /\ k.left = FilesOf(s) /\ DOMAIN k.got = {} /\ k.listed = OnDisk(s)
  OBVIOUS
<1>4. loading' = [loading EXCEPT ![t] = k]
  BY <1>2
<1> HIDE DEF k
<1>5. PICK S : loading \in [Loaders -> S]
  BY DEF TrustInv, MemoryTyped
<1>6. /\ \E T : loading' \in [Loaders -> T]
      /\ loading'[t] = k /\ \A u \in Loaders : u # t => loading'[u] = loading[u]
  <2>1. loading' = [loading EXCEPT ![t] = k] /\ loading \in [Loaders -> S]
    BY <1>4, <1>5
  <2> HIDE <1>2
  <2> QED
    BY <2>1, OneChanged
<1>7. Job(k, disk)
  <2>1. OnDisk(s) = [f \in FileSet(s) |-> Objects(disk[f])]
    BY DEF OnDisk, FileSet
  <2>2. FilesOf(s) \in Seq(FileSet(s)) /\ FileSet(s) = ToSet(FilesOf(s))
    BY FileFacts DEF FileSet
  <2> QED
    BY <1>3, <2>1, <2>2 DEF Job
<1>8. Jobs'
  <2> SUFFICES ASSUME NEW u \in Loaders, loading'[u] # Nothing PROVE Job(loading'[u], disk')
    BY DEF Jobs
  <2>1. u # t => Job(loading[u], disk)
    BY <1>6 DEF TrustInv, Jobs
  <2> QED
    BY <1>1, <1>6, <1>7, <2>1
<1>9. overlaid \subseteq overlaid'
  BY <1>2
<1>10. Alone'
  <2> SUFFICES ASSUME NEW u \in Loaders, loading'[u] # Nothing, loading'[u].store \notin overlaid'
               PROVE  Only(u)'
    BY DEF Alone
  <2>1. CASE u = t
    <3>1. \A v \in Loaders : loading[v] = Nothing \/ loading[v].store # s
      BY <1>2, <1>3, <1>6, <2>1
    <3>2. \A v \in Loaders \ {u} : loading'[v] = Nothing \/ loading'[v].store # loading'[u].store
      BY <1>3, <1>6, <2>1, <3>1
    <3>3. DOMAIN loading'[u].got = {}
      BY <1>3, <1>6, <2>1
    <3> QED
      BY <3>2, <3>3 DEF Only
  <2>2. CASE u # t
    <3>1. loading'[u] = loading[u] /\ loading[u] # Nothing /\ loading[u].store \notin overlaid
      BY <1>6, <1>9, <2>2
    <3>2. Only(u)
      BY <3>1 DEF TrustInv, Alone
    <3>3. loading[u].store # s
      BY <1>2, <3>1
    <3>4. \A v \in Loaders \ {u} : loading'[v] = Nothing \/ loading'[v].store # loading'[u].store
      BY <1>3, <1>6, <3>1, <3>2, <3>3 DEF Only
    <3> QED
      BY <1>1, <3>1, <3>2, <3>4 DEF Only
  <2> QED
    BY <2>1, <2>2
<1> QED
  BY <1>1, <1>6, <1>8, <1>9, <1>10, JobsMove

\* A reload reads a file: what is in it is listed for the reload and for the store.
LEMMA ReadFileInv ==
  ASSUME TrustInv, NEW t \in Loaders, ReadFile(t) PROVE TrustInv'
<1> DEFINE j == loading[t]
           f == Head(j.left)
           k == [store |-> j.store, left |-> Tail(j.left), got |-> Put(j.got, f, disk[f]), listed |-> j.listed]
<1>1. /\ j # Nothing /\ j.left # << >> /\ UNCHANGED <<disk, writing, live, conns, listed, overlaid>>
      /\ loading' = [loading EXCEPT ![t].left = Tail(@), ![t].got = Put(@, f, disk[f])]
  BY DEF ReadFile
<1>2. Job(j, disk)
  BY <1>1 DEF TrustInv, Jobs
<1>3. j = [store |-> j.store, left |-> j.left, got |-> j.got, listed |-> j.listed]
  BY <1>2 DEF Job
<1>4. PICK S : loading \in [Loaders -> S]
  BY DEF TrustInv, MemoryTyped
<1>5. loading' = [loading EXCEPT ![t] = k]
  <2> DEFINE a == j.store
             b == Tail(j.left)
             g == Put(j.got, f, disk[f])
             l == j.listed
  <2>1. loading' = [loading EXCEPT ![t] = [[loading[t] EXCEPT !.left = b] EXCEPT !.got = g]]
    BY <1>1, <1>4
  <2>2. [[j EXCEPT !.left = b] EXCEPT !.got = g] = k
    <3> DEFINE c == j.left
               e == j.got
    <3>1. j = [store |-> a, left |-> c, got |-> e, listed |-> l]
      BY <1>3
    <3> HIDE DEF a, b, c, e, g, l, j
    <3>2a. [j EXCEPT !.left = b] = [store |-> a, left |-> b, got |-> e, listed |-> l]
      BY <3>1
    <3> DEFINE m == [j EXCEPT !.left = b]
    <3>2b. m = [store |-> a, left |-> b, got |-> e, listed |-> l]
      BY <3>2a
    <3> HIDE DEF m
    <3>2c. [m EXCEPT !.got = g] = [store |-> a, left |-> b, got |-> g, listed |-> l]
      BY <3>2b
    <3>2. [[j EXCEPT !.left = b] EXCEPT !.got = g] = [store |-> a, left |-> b, got |-> g, listed |-> l]
      BY <3>2c DEF m
    <3> QED
      BY <3>2 DEF a, b, g, l
  <2> QED
    BY <2>1, <2>2
<1>6. k.store = j.store /\ k.left = Tail(j.left) /\ k.got = Put(j.got, f, disk[f]) /\ k.listed = j.listed
  OBVIOUS
<1>7. k = [store |-> k.store, left |-> k.left, got |-> k.got, listed |-> k.listed]
  OBVIOUS
<1> HIDE DEF k, f, j
<1>8. /\ \E T : loading' \in [Loaders -> T]
      /\ loading'[t] = k /\ \A u \in Loaders : u # t => loading'[u] = loading[u]
  BY <1>4, <1>5, OneChanged
<1>9. /\ j.store \in Stores /\ j.left \in Seq(FileSet(j.store)) /\ DOMAIN j.listed = FileSet(j.store)
      /\ DOMAIN j.got \cup ToSet(j.left) = FileSet(j.store)
      /\ \A g \in DOMAIN j.got : j.got[g] \in Content(g) /\ Objects(j.got[g]) \subseteq j.listed[g]
      /\ \A g \in FileSet(j.store) : Objects(disk[g]) \subseteq j.listed[g]
  BY <1>2 DEF Job
<1>10. /\ f \in FileSet(j.store) /\ Tail(j.left) \in Seq(FileSet(j.store))
       /\ ToSet(j.left) = {f} \cup ToSet(Tail(j.left))
  BY <1>1, <1>9, ToSetTail DEF f
<1>11. f \in Files /\ disk[f] \in Content(f)
  BY <1>9, <1>10, FileFacts DEF TrustInv, DiskTyped
<1>12. /\ DOMAIN k.got = {f} \cup DOMAIN j.got /\ k.got[f] = disk[f]
       /\ \A y \in DOMAIN j.got : y # f => k.got[y] = j.got[y]
  <2> DEFINE e == j.got
             x == disk[f]
  <2>1. k.got = Put(e, f, x)
    BY <1>6
  <2> HIDE DEF e, x
  <2>2. /\ DOMAIN k.got = {f} \cup DOMAIN e /\ k.got[f] = x
        /\ \A y \in DOMAIN e : y # f => k.got[y] = e[y]
    BY <2>1 DEF Put
  <2> QED
    BY <2>2 DEF e, x
<1>13. Job(k, disk)
  <2>1. DOMAIN k.got \cup ToSet(k.left) = FileSet(k.store)
    BY <1>6, <1>9, <1>10, <1>12
  <2>2. \A g \in DOMAIN k.got : k.got[g] \in Content(g) /\ Objects(k.got[g]) \subseteq k.listed[g]
    BY <1>6, <1>9, <1>10, <1>11, <1>12
  <2> QED
    BY <1>6, <1>7, <1>9, <1>10, <2>1, <2>2 DEF Job
<1>14. Jobs'
  <2> SUFFICES ASSUME NEW u \in Loaders, loading'[u] # Nothing PROVE Job(loading'[u], disk')
    BY DEF Jobs
  <2>1. u # t => Job(loading[u], disk)
    BY <1>8 DEF TrustInv, Jobs
  <2> QED
    BY <1>1, <1>8, <1>13, <2>1
<1>15. ASSUME NEW u \in Loaders, loading'[u] # Nothing
       PROVE  loading[u] # Nothing /\ loading'[u].store = loading[u].store
  <2>1. CASE u = t
    BY <1>1, <1>6, <1>8, <2>1 DEF j
  <2>2. CASE u # t
    BY <1>8, <1>15, <2>2
  <2> QED
    BY <2>1, <2>2
<1>16. Alone'
  <2> SUFFICES ASSUME NEW u \in Loaders, loading'[u] # Nothing, loading'[u].store \notin overlaid'
               PROVE  Only(u)'
    BY DEF Alone
  <2>1a. loading[u] # Nothing /\ loading'[u].store = loading[u].store
    BY <1>15
  <2>1. loading[u] # Nothing /\ loading'[u].store = loading[u].store /\ loading[u].store \notin overlaid
    BY <1>1, <2>1a
  <2>2. Only(u)
    BY <2>1 DEF TrustInv, Alone
  <2>3. \A v \in Loaders \ {u} : loading'[v] = Nothing \/ loading'[v].store # loading'[u].store
    BY <1>15, <2>1, <2>2 DEF Only
  <2>4. \A g \in DOMAIN loading'[u].got :
          Objects(loading'[u].got[g]) \subseteq listed[loading[u].store][g]
    <3>1. CASE u # t
      BY <1>8, <2>2, <3>1 DEF Only
    <3>2. CASE u = t
      <4>1. Objects(disk[f]) \subseteq listed[j.store][f]
        BY <1>9, <1>10 DEF TrustInv, Behind
      <4>2. \A g \in DOMAIN j.got : Objects(j.got[g]) \subseteq listed[j.store][g]
        BY <2>2, <3>2 DEF Only, j
      <4>3. loading'[u] = k /\ loading[u] = j
        BY <1>8, <3>2 DEF j
      <4> QED
        BY <1>12, <4>1, <4>2, <4>3
    <3> QED
      BY <3>1, <3>2
  <2> QED
    BY <1>1, <2>1, <2>3, <2>4 DEF Only
<1> QED
  BY <1>1, <1>8, <1>14, <1>16, JobsMove

\* A reload that fails is gone.
LEMMA ReloadFailsInv ==
  ASSUME TrustInv, NEW t \in Loaders, ReloadFails(t) PROVE TrustInv'
<1>1. /\ UNCHANGED <<disk, writing, live, conns, listed, overlaid>>
      /\ loading' = [loading EXCEPT ![t] = Nothing]
  BY DEF ReloadFails
<1>2. PICK S : loading \in [Loaders -> S]
  BY DEF TrustInv, MemoryTyped
<1>3. /\ \E T : loading' \in [Loaders -> T]
      /\ loading'[t] = Nothing /\ \A u \in Loaders : u # t => loading'[u] = loading[u]
  BY <1>1, <1>2, OneChanged, SMTT(30)
<1>4. Jobs'
  BY <1>1, <1>3 DEF TrustInv, Jobs
<1>5. Alone'
  <2> SUFFICES ASSUME NEW u \in Loaders, loading'[u] # Nothing, loading'[u].store \notin overlaid'
               PROVE  Only(u)'
    BY DEF Alone
  <2>1. loading'[u] = loading[u] /\ loading[u] # Nothing /\ loading[u].store \notin overlaid
    BY <1>1, <1>3
  <2>2. Only(u)
    BY <2>1 DEF TrustInv, Alone
  <2> QED
    BY <1>1, <1>3, <2>1, <2>2 DEF Only
<1> QED
  BY <1>1, <1>3, <1>4, <1>5, JobsMove
\* A reload that has read all its files puts in force what they held, which was listed
\* since it began and, if it was alone, since the one before it.
LEMMA SwapInv ==
  ASSUME TrustInv, NEW t \in Loaders, Swap(t) PROVE TrustInv'
<1> DEFINE j == loading[t]
           s == j.store
           fresh == Build(s, j.got)
<1>1. /\ j # Nothing /\ j.left = << >> /\ UNCHANGED <<disk, writing, conns, overlaid>> /\ fresh # Err
      /\ live' = [live EXCEPT ![s] = fresh] /\ listed' = [listed EXCEPT ![s] = Since(t)]
      /\ loading' = [loading EXCEPT ![t] = Nothing]
  BY DEF Swap, Loaded
<1>2. Job(j, disk)
  BY <1>1 DEF TrustInv, Jobs
<1>3. /\ s \in Stores /\ DOMAIN j.listed = FileSet(s) /\ DOMAIN j.got = FileSet(s)
      /\ \A f \in FileSet(s) : j.got[f] \in Content(f) /\ Objects(j.got[f]) \subseteq j.listed[f]
      /\ \A f \in FileSet(s) : Objects(disk[f]) \subseteq j.listed[f]
  <2>1. ToSet(<< >>) = {}
    BY DEF ToSet
  <2> QED
    BY <1>1, <1>2, <2>1 DEF Job
<1>4. Since(t) = [f \in FileSet(s) |-> j.listed[f] \cap listed[s][f]]
  BY <1>3 DEF Since
<1> HIDE DEF fresh
<1>5. PICK S : loading \in [Loaders -> S]
  BY DEF TrustInv, MemoryTyped
<1>6. /\ \E T : loading' \in [Loaders -> T]
      /\ loading'[t] = Nothing /\ \A u \in Loaders : u # t => loading'[u] = loading[u]
  <2>1. loading' = [loading EXCEPT ![t] = Nothing]
    BY <1>1
  <2>2. loading' \in [Loaders -> S \cup {Nothing}]
    BY <1>5, <2>1
  <2>3. loading'[t] = Nothing /\ \A u \in Loaders : u # t => loading'[u] = loading[u]
    BY <1>5, <2>1
  <2> QED
    BY <2>2, <2>3
<1>7. PICK R : listed \in [Stores -> R]
  BY DEF TrustInv, MemoryTyped
<1>8. /\ \E T : listed' \in [Stores -> T]
      /\ listed'[s] = Since(t) /\ \A r \in Stores : r # s => listed'[r] = listed[r]
  <2> HIDE DEF s, j
  <2> DEFINE x == Since(t)
  <2>1. listed' = [listed EXCEPT ![s] = x] /\ s \in Stores
    BY <1>1, <1>3
  <2> HIDE DEF x
  <2>2. listed' \in [Stores -> R \cup {x}]
    BY <1>7, <2>1
  <2>3. listed'[s] = x /\ \A r \in Stores : r # s => listed'[r] = listed[r]
    BY <1>7, <2>1
  <2> QED
    BY <2>2, <2>3 DEF x
<1>9. /\ live = [tls |-> live.tls, keys |-> live.keys]
      /\ \A r \in Stores : DOMAIN listed[r] = FileSet(r)
  BY DEF TrustInv, MemoryTyped
<1>10. /\ live' = [tls |-> live'.tls, keys |-> live'.keys]
       /\ s = "tls" => live'.tls = fresh /\ live'.keys = live.keys
       /\ s = "keys" => live'.keys = fresh /\ live'.tls = live.tls
  <2> DEFINE a == live.tls
             b == live.keys
  <2>1. live = [tls |-> a, keys |-> b] /\ live' = [live EXCEPT ![s] = fresh]
    BY <1>1, <1>9
  <2>2. s = "tls" \/ s = "keys"
    BY <1>3 DEF Stores
  <2> HIDE DEF a, b, s, j
  <2>3. s = "tls" => live' = [tls |-> fresh, keys |-> b]
    BY <2>1
  <2>4. s = "keys" => live' = [tls |-> a, keys |-> fresh]
    BY <2>1
  <2> QED
    BY <2>2, <2>3, <2>4 DEF a, b
<1> HIDE DEF j, s
<1>11. MemoryTyped'
  <2>1. \A r \in Stores : DOMAIN listed'[r] = FileSet(r)
    BY <1>4, <1>8, <1>9
  <2> QED
    BY <1>1, <1>6, <1>8, <1>10, <2>1 DEF TrustInv, MemoryTyped
<1>12. DiskTyped'
  BY <1>1 DEF TrustInv, DiskTyped
<1>13. Behind'
  <2> SUFFICES ASSUME NEW r \in Stores, NEW f \in FileSet(r)
               PROVE  Objects(disk[f]) \subseteq listed'[r][f]
    BY <1>1 DEF Behind
  <2>1. Objects(disk[f]) \subseteq listed[r][f]
    BY DEF TrustInv, Behind
  <2>2. CASE r = s
    <3>1. listed'[r][f] = j.listed[f] \cap listed[s][f]
      BY <1>4, <1>8, <2>2
    <3> QED
      BY <1>3, <2>1, <2>2, <3>1
  <2>3. CASE r # s
    BY <1>8, <2>1, <2>3
  <2> QED
    BY <2>2, <2>3
<1>14. Jobs'
  BY <1>1, <1>6 DEF TrustInv, Jobs
<1>15. Alone'
  <2> SUFFICES ASSUME NEW u \in Loaders, loading'[u] # Nothing, loading'[u].store \notin overlaid'
               PROVE  Only(u)'
    BY DEF Alone
  <2>1. u # t /\ loading'[u] = loading[u] /\ loading[u] # Nothing /\ loading[u].store \notin overlaid
    BY <1>1, <1>6
  <2>2. Only(u) /\ loading[u].store \in Stores
    BY <2>1 DEF TrustInv, Alone, Jobs, Job
  <2>3. loading[u].store # s
    BY <1>1, <2>1, <2>2 DEF Only, s, j
  <2>4. listed'[loading[u].store] = listed[loading[u].store]
    BY <1>8, <2>2, <2>3
  <2>5. \A v \in Loaders \ {u} : loading'[v] = Nothing \/ loading'[v].store # loading'[u].store
    BY <1>6, <2>1, <2>2 DEF Only
  <2> QED
    BY <2>1, <2>2, <2>4, <2>5 DEF Only
<1>16. s \notin overlaid => \A f \in FileSet(s) : Objects(j.got[f]) \subseteq listed'[s][f]
  <2> SUFFICES ASSUME s \notin overlaid, NEW f \in FileSet(s) PROVE Objects(j.got[f]) \subseteq listed'[s][f]
    OBVIOUS
  <2>1. Only(t)
    BY <1>1 DEF TrustInv, Alone, s, j
  <2>2. Objects(j.got[f]) \subseteq listed[s][f]
    BY <1>3, <2>1 DEF Only, s, j
  <2>3. listed'[s][f] = j.listed[f] \cap listed[s][f]
    BY <1>4, <1>8
  <2> QED
    BY <1>3, <2>2, <2>3
<1>17. InForce'
  <2>1. CASE s = "tls"
    <3>1. fresh = BuildTls(j.got)
      BY <2>1 DEF fresh, Build
    <3>2. /\ fresh.roots # {} /\ (TlsFiles.crl # << >> => fresh.crls # {})
          /\ fresh.roots \subseteq Sound(j.got, TlsFiles.ca)
          /\ fresh.crls \subseteq Sound(j.got, TlsFiles.crl)
      BY <1>1, <1>3, <2>1, <3>1, BuildTlsFacts
    <3>3. live'.tls = fresh /\ live'.keys = live.keys
      BY <1>10, <2>1
    <3>4. NeverDisarmed'
      BY <1>1, <3>2, <3>3 DEF TrustInv, InForce, NeverDisarmed
    <3>5. listed'["keys"] = listed["keys"]
      BY <1>8, <2>1 DEF Stores
    <3>6. "tls" \notin overlaid => /\ Sound(j.got, TlsFiles.ca) \subseteq Listed("tls", TlsFiles.ca)'
                                   /\ Sound(j.got, TlsFiles.crl) \subseteq Listed("tls", TlsFiles.crl)'
      <4> SUFFICES ASSUME "tls" \notin overlaid
                   PROVE  /\ Sound(j.got, TlsFiles.ca) \subseteq Listed("tls", TlsFiles.ca)'
                          /\ Sound(j.got, TlsFiles.crl) \subseteq Listed("tls", TlsFiles.crl)'
        OBVIOUS
      <4>1. /\ \A p \in ToSet(TlsFiles.ca) : Objects(j.got[p]) \subseteq listed'["tls"][p]
            /\ \A p \in ToSet(TlsFiles.crl) : Objects(j.got[p]) \subseteq listed'["tls"][p]
        BY <1>16, <2>1, FileFacts
      <4>2. ASSUME NEW x \in Sound(j.got, TlsFiles.ca) PROVE x \in Listed("tls", TlsFiles.ca)'
        BY <4>1 DEF Sound, Listed
      <4>3. ASSUME NEW x \in Sound(j.got, TlsFiles.crl) PROVE x \in Listed("tls", TlsFiles.crl)'
        BY <4>1 DEF Sound, Listed
      <4> QED
        BY <4>2, <4>3
    <3>7. StaleNeverReturns'
      <4>1. "keys" \notin overlaid' => \A a \in DOMAIN live'.keys : live'.keys[a] \subseteq listed'["keys"][a]
        BY <1>1, <3>3, <3>5 DEF TrustInv, InForce, StaleNeverReturns
      <4>2. "tls" \notin overlaid' => /\ live'.tls.roots \subseteq Listed("tls", TlsFiles.ca)'
                                      /\ live'.tls.crls \subseteq Listed("tls", TlsFiles.crl)'
        <5> HIDE DEF Sound, Listed
        <5> QED
          BY <1>1, <3>2, <3>3, <3>6
      <4> QED
        BY <4>1, <4>2 DEF StaleNeverReturns
    <3> QED
      BY <3>3, <3>4, <3>7 DEF TrustInv, InForce
  <2>2. CASE s = "keys"
    <3>1. fresh = BuildKeys(j.got)
      BY <2>2 DEF fresh, Build
    <3>2. /\ DOMAIN fresh = ToSet(TrustFiles)
          /\ \A p \in ToSet(TrustFiles) : fresh[p] \subseteq Objects(j.got[p])
      BY <1>1, <1>3, <2>2, <3>1, BuildKeysFacts
    <3>3. live'.keys = fresh /\ live'.tls = live.tls
      BY <1>10, <2>2
    <3>4. NeverDisarmed'
      BY <1>1, <3>3 DEF TrustInv, InForce, NeverDisarmed
    <3>5. listed'["tls"] = listed["tls"]
      BY <1>8, <2>2 DEF Stores
    <3>6. /\ Listed("tls", TlsFiles.ca)' = Listed("tls", TlsFiles.ca)
          /\ Listed("tls", TlsFiles.crl)' = Listed("tls", TlsFiles.crl)
      BY <3>5 DEF Listed
    <3>7. "keys" \notin overlaid' => \A a \in DOMAIN live'.keys : live'.keys[a] \subseteq listed'["keys"][a]
      <4>1. "keys" \notin overlaid => \A p \in ToSet(TrustFiles) : Objects(j.got[p]) \subseteq listed'["keys"][p]
        BY <1>16, <2>2, FileFacts
      <4> QED
        BY <1>1, <3>2, <3>3, <4>1
    <3>8. StaleNeverReturns'
      BY <1>1, <3>3, <3>6, <3>7 DEF TrustInv, InForce, StaleNeverReturns
    <3> QED
      BY <3>2, <3>3, <3>4, <3>8 DEF TrustInv, InForce
  <2> QED
    BY <1>3, <2>1, <2>2 DEF Stores
<1>18. Met'
  BY <1>1 DEF TrustInv, Met, Taken, ServedWasTrusted
<1> QED
  BY <1>11, <1>12, <1>13, <1>14, <1>15, <1>17, <1>18 DEF TrustInv

\* What only the connections differ in.
LEMMA ConnsMove ==
  ASSUME TrustInv, UNCHANGED <<disk, writing, live, loading, listed, overlaid>>,
         \E S : conns' \in [Clients -> S], Met'
  PROVE  TrustInv'
<1>1. DiskTyped' /\ MemoryTyped' /\ Behind'
  BY DEF TrustInv, DiskTyped, MemoryTyped, Behind
<1>2. Jobs' /\ Alone'
  BY DEF TrustInv, Jobs, Alone, Only
<1>3. InForce'
  BY ForceStays DEF TrustInv
<1> QED
  BY <1>1, <1>2, <1>3 DEF TrustInv

\* A connection takes the configuration in force: who that would accept, the files would.
LEMMA TakeConfigInv ==
  ASSUME TrustInv, NEW c \in Clients, TakeConfig(c) PROVE TrustInv'
<1> DEFINE a == "tls" \notin overlaid
           b == Admissible(c)
           k == [pc |-> "taken", cfg |-> live.tls, alone |-> a, could |-> b]
<1>1. /\ UNCHANGED <<disk, writing, live, loading, listed, overlaid>>
      /\ conns' = [conns EXCEPT ![c] = k]
  BY DEF TakeConfig
<1>2. ASSUME a, ClientAccepted(live.tls.roots, live.tls.crls, c) PROVE b
  <2>1. /\ live.tls.roots \subseteq Listed("tls", TlsFiles.ca)
        /\ live.tls.crls \subseteq Listed("tls", TlsFiles.crl)
    BY <1>2 DEF TrustInv, InForce, StaleNeverReturns
  <2> QED
    BY <1>2, <2>1 DEF ClientAccepted, Admissible
<1> HIDE DEF a, b
<1>3. k.pc = "taken" /\ k.cfg = live.tls /\ "pc" \in DOMAIN k
  OBVIOUS
<1>4. (k.alone <=> a) /\ (k.could <=> b)
  BY Zenon
<1> HIDE DEF k
<1>5. PICK S : conns \in [Clients -> S]
  BY DEF TrustInv, MemoryTyped
<1>6. /\ \E T : conns' \in [Clients -> T]
      /\ conns'[c] = k /\ \A d \in Clients : d # c => conns'[d] = conns[d]
  BY <1>1, <1>5, OneChanged
<1>7. Met'
  <2>1. ASSUME NEW d \in Clients, conns'[d].pc = "taken", conns'[d].alone,
               ClientAccepted(conns'[d].cfg.roots, conns'[d].cfg.crls, d)
        PROVE  conns'[d].could
    <3>1. CASE d = c
      BY <1>2, <1>3, <1>4, <1>6, <2>1, <3>1, Zenon
    <3>2. CASE d # c
      BY <1>6, <2>1, <3>2, Zenon DEF TrustInv, Met, Taken
    <3> QED
      BY <3>1, <3>2
  <2>2. ASSUME NEW d \in Clients, conns'[d].pc = "served", conns'[d].alone
        PROVE  conns'[d].could
    <3>1. d # c
      BY <1>3, <1>6, <2>2
    <3> QED
      BY <1>6, <2>2, <3>1, Zenon DEF TrustInv, Met, ServedWasTrusted
  <2>3. ASSUME NEW d \in Clients PROVE "pc" \in DOMAIN conns'[d]
    BY <1>3, <1>6 DEF TrustInv, Met
  <2> QED
    BY <2>1, <2>2, <2>3, Zenon DEF Met, Taken, ServedWasTrusted
<1> QED
  BY <1>1, <1>6, <1>7, ConnsMove

\* The handshake serves the client only if the configuration it took accepts it.
LEMMA HandshakesInv ==
  ASSUME TrustInv, NEW c \in Clients, Handshakes(c) PROVE TrustInv'
<1> DEFINE ok == ClientAccepted(conns[c].cfg.roots, conns[c].cfg.crls, c)
           to == IF ok THEN "served" ELSE "refused"
           k == [conns[c] EXCEPT !.cfg = Nothing, !.pc = to]
<1>1. /\ UNCHANGED <<disk, writing, live, loading, listed, overlaid>> /\ conns[c].pc = "taken"
      /\ conns' = [conns EXCEPT ![c] = k]
  BY DEF Handshakes
<1>2. PICK S : conns \in [Clients -> S]
  BY DEF TrustInv, MemoryTyped
<1>3. to = "served" => ok
  OBVIOUS
<1>3a. to # "taken"
  OBVIOUS
<1> HIDE DEF ok, to
<1>4. /\ k.pc = to /\ DOMAIN k = DOMAIN conns[c]
      /\ k.alone = conns[c].alone /\ k.could = conns[c].could
  <2>1. "pc" \in DOMAIN conns[c]
    BY DEF TrustInv, Met
  <2> QED
    BY <2>1
<1> HIDE DEF k
<1>5. /\ \E T : conns' \in [Clients -> T]
      /\ conns'[c] = k /\ \A d \in Clients : d # c => conns'[d] = conns[d]
  BY <1>1, <1>2, OneChanged, SMTT(30)
<1>6. Met'
  <2>1. ASSUME NEW d \in Clients, conns'[d].pc = "taken", conns'[d].alone,
               ClientAccepted(conns'[d].cfg.roots, conns'[d].cfg.crls, d)
        PROVE  conns'[d].could
    <3>1. d # c
      BY <1>3a, <1>4, <1>5, <2>1
    <3> QED
      BY <1>5, <2>1, <3>1, Zenon DEF TrustInv, Met, Taken
  <2>2. ASSUME NEW d \in Clients, conns'[d].pc = "served", conns'[d].alone
        PROVE  conns'[d].could
    <3>1. CASE d = c
      <4>1. ok
        BY <1>3, <1>4, <1>5, <2>2, <3>1
      <4>2. conns[c].alone /\ (conns[c].could => conns'[d].could)
        BY <1>4, <1>5, <2>2, <3>1, Zenon
      <4> QED
        BY <1>1, <4>1, <4>2, Zenon DEF TrustInv, Met, Taken, ok
    <3>2. CASE d # c
      BY <1>5, <2>2, <3>2, Zenon DEF TrustInv, Met, ServedWasTrusted
    <3> QED
      BY <3>1, <3>2
  <2>3. ASSUME NEW d \in Clients PROVE "pc" \in DOMAIN conns'[d]
    BY <1>4, <1>5 DEF TrustInv, Met
  <2> QED
    BY <2>1, <2>2, <2>3, Zenon DEF Met, Taken, ServedWasTrusted
<1> QED
  BY <1>1, <1>5, <1>6, ConnsMove

\* The invariant that every step of ops, of reloads and of connections keeps.
THEOREM TrustInvariance == TrustSpec => []TrustInv
<1>1. TrustInit => TrustInv
  BY TrustInitInv
<1>2. TrustInv /\ [TrustNext]_trustVars => TrustInv'
  <2> SUFFICES ASSUME TrustInv, [TrustNext]_trustVars PROVE TrustInv'
    OBVIOUS
  <2>1. CASE RewriteBegins
    BY <2>1, RewriteBeginsInv
  <2>2. CASE RewriteGoesOn
    BY <2>2, RewriteGoesOnInv
  <2>3. ASSUME NEW t \in Loaders, ReloadBegins(t) \/ ReadFile(t) \/ Swap(t) \/ ReloadFails(t)
        PROVE  TrustInv'
    BY <2>3, ReloadBeginsInv, ReadFileInv, SwapInv, ReloadFailsInv
  <2>4. ASSUME NEW c \in Clients, TakeConfig(c) \/ Handshakes(c) PROVE TrustInv'
    BY <2>4, TakeConfigInv, HandshakesInv
  <2>5. CASE UNCHANGED trustVars
    <3>1. UNCHANGED <<disk, writing, live, loading, conns, listed, overlaid>>
      BY <2>5 DEF trustVars
    <3>2. Jobs' /\ Alone'
      BY <3>1 DEF TrustInv, Jobs, Alone, Only
    <3>3. \E S : loading' \in [Loaders -> S]
      BY <3>1 DEF TrustInv, MemoryTyped
    <3> QED
      BY <3>1, <3>2, <3>3, JobsMove
  <2> QED
    BY <2>1, <2>2, <2>3, <2>4, <2>5 DEF TrustNext
<1> QED
  BY <1>1, <1>2, PTL DEF TrustSpec

\* Whatever reloads meet, the channel stays guarded, and by what ops have put in
\* place: a failed load disarms nothing, what was withdrawn does not come back by
\* itself, and nobody is served whom the files could not admit.
THEOREM ChannelAlwaysGuarded == TrustSpec => []TrustKept
<1>1. TrustInv => TrustKept
  BY DEF TrustInv, InForce, Met, TrustKept
<1> QED
  BY <1>1, TrustInvariance, PTL
(***************************************************************************)
(* The feed.                                                               *)
(***************************************************************************)

Active(p) == inst[p].pc \notin {"idle", "connected"}

FeedTyped ==
  /\ dir = [manifest |-> dir.manifest, sig |-> dir.sig, files |-> dir.files]
  /\ \E S : inst \in [Installers -> S]
  /\ \A p \in Installers : DOMAIN inst[p] = {"pc", "manifest", "todo", "staging", "clean"}

\* The signature in the directory is one of a release, and so is what is being written.
Signed ==
  /\ \E i \in DOMAIN Releases : dir.sig = <<Releases[i].key, Releases[i].manifest>>
  /\ publishing # Empty => \E i \in DOMAIN Releases : publishing.release = Releases[i]

\* A manifest a trusted publisher has signed, and files that are the ones it lists.
Good(man) == \E i \in DOMAIN Releases : Releases[i].key \in TrustedKeys /\ man = Releases[i].manifest
Exact(files, man) == {<<n, files[n]>> : n \in DOMAIN files} = ToSet(man.entries)

\* How far a clean installation has come with the directory as it is.
Progress(p) ==
  LET man == inst[p].manifest
      todo == inst[p].todo
      staging == inst[p].staging
      entries == ToSet(man.entries)
  IN  /\ inst[p].pc \in {"verify", "stage", "removing", "stranded", "removed", "swapped"} => Good(man)
      /\ inst[p].pc \in {"verify", "stage"} => todo \in Seq(entries)
      /\ inst[p].pc = "verify" => \A e \in entries : e \in ToSet(todo) \/ Matches(e)
      /\ inst[p].pc = "stage" =>
           /\ \A e \in entries : Matches(e)
           /\ staging = [n \in DOMAIN staging |-> staging[n]]
           /\ \A n \in DOMAIN staging : <<n, staging[n]>> \in entries
           /\ \A e \in entries : e \in ToSet(todo) \/ (e[1] \in DOMAIN staging /\ staging[e[1]] = e[2])
      /\ inst[p].pc \in {"removing", "stranded", "removed"} => staging # Empty /\ Exact(staging, man)
      /\ inst[p].pc = "swapped" => content # Empty /\ Exact(content, man)

\* An installation that is clean is the only one.
Lonely(p) == \A q \in Installers \ {p} : ~Active(q)
Undisturbed == \A p \in Installers : Active(p) /\ inst[p].clean => Lonely(p) /\ Progress(p)

\* While an installation has its hands on the content, the content is suspect.
Hands == {"removing", "stranded", "removed", "swapped"}
Marked == \A p \in Installers : inst[p].pc \in Hands => suspect

\* A load that nothing has disturbed reads the content of the version it is stamped
\* with, and has of it what it no longer looks for.
OfOneVersion ==
  LET got == load.got IN
  /\ content # Empty /\ Exact(content, load.manifest)
  /\ load.todo \in Seq(ToSet(Required))
  /\ \A n \in DOMAIN got : n \in ToSet(Required) /\ n \in DOMAIN content /\ got[n] = content[n]
  /\ \A n \in ToSet(Required) : n \in ToSet(load.todo) \/ n \in DOMAIN got

LoadTyped ==
  load = [pc |-> load.pc, manifest |-> load.manifest, todo |-> load.todo, got |-> load.got, clean |-> load.clean]

Loading ==
  /\ LoadTyped
  /\ load.pc = "idle" => DOMAIN load.got = {}
  /\ load.clean /\ load.pc \in {"reading", "nvd"} => OfOneVersion
  /\ load.pc = "nvd" => load.todo = << >>
  /\ LoadedWhole

FeedInv == FeedTyped /\ Signed /\ Undisturbed /\ Marked /\ MarkerTrue /\ Loading

\* What is known of a manifest that a trusted publisher has signed.
LEMMA GoodFacts ==
  ASSUME NEW man, Good(man)
  PROVE  /\ man.entries \in Seq(ToSet(man.entries)) /\ ToSet(man.entries) \subseteq Admitted
         /\ \A e \in ToSet(man.entries) : e = <<e[1], e[2]>>
         /\ Empty \notin [{e[1] : e \in ToSet(man.entries)} -> {e[2] : e \in ToSet(man.entries)}]
<1>1. PICK i \in DOMAIN Releases : Releases[i].key \in TrustedKeys /\ man = Releases[i].manifest
  BY DEF Good
<1>2. ToSet(man.entries) \subseteq Admitted
  <2>1. i \in {j \in DOMAIN Releases : Releases[j].key \in TrustedKeys}
    BY <1>1
  <2> QED
    BY <1>1, <2>1 DEF Admitted
<1> QED
  BY <1>1, <1>2, FeedAssumption

\* Files that are exactly those listed are a directory.
LEMMA ExactFacts ==
  ASSUME NEW man, NEW files, Good(man), files = [n \in DOMAIN files |-> files[n]],
         \A n \in DOMAIN files : <<n, files[n]>> \in ToSet(man.entries),
         \A e \in ToSet(man.entries) : e[1] \in DOMAIN files /\ files[e[1]] = e[2]
  PROVE  files # Empty /\ Exact(files, man)
<1> DEFINE E == ToSet(man.entries)
<1>1. /\ \A e \in E : e = <<e[1], e[2]>>
      /\ Empty \notin [{e[1] : e \in E} -> {e[2] : e \in E}]
  BY GoodFacts
<1>2. /\ \A n \in DOMAIN files : <<n, files[n]>> \in E
      /\ \A e \in E : e[1] \in DOMAIN files /\ files[e[1]] = e[2]
  OBVIOUS
<1> HIDE DEF E
<1>3. DOMAIN files = {e[1] : e \in E}
  <2>1. \A n \in DOMAIN files : <<n, files[n]>>[1] = n
    OBVIOUS
  <2> QED
    BY <1>2, <2>1
<1>4. \A n \in DOMAIN files : files[n] \in {e[2] : e \in E}
  <2>1. \A n \in DOMAIN files : <<n, files[n]>>[2] = files[n]
    OBVIOUS
  <2> QED
    BY <1>2, <2>1
<1>5. files \in [{e[1] : e \in E} -> {e[2] : e \in E}]
  BY <1>3, <1>4
<1>6. {<<n, files[n]>> : n \in DOMAIN files} = E
  <2>1. \A e \in E : e \in {<<n, files[n]>> : n \in DOMAIN files}
    BY <1>1, <1>2
  <2> QED
    BY <1>2, <2>1
<1> QED
  BY <1>1, <1>5, <1>6 DEF Exact, E

\* What was learnt about the content stays true while nobody touches it.
LEMMA ContentStays ==
  ASSUME FeedInv, UNCHANGED <<content, marker>>, suspect' = suspect PROVE MarkerTrue'
BY DEF FeedInv, MarkerTrue

\* A load that does nothing stays sound while nobody touches the content, ...
LEMMA LoadStays ==
  ASSUME FeedInv, UNCHANGED <<load, content>> PROVE Loading'
BY DEF FeedInv, Loading, LoadTyped, OfOneVersion, LoadedWhole, Obtained

\* ... and one under which somebody does is no longer relied on.
LEMMA UnsettledStays ==
  ASSUME FeedInv, load' = Unsettled PROVE Loading'
<1> DEFINE pc == load.pc
           m == load.manifest
           todo == load.todo
           got == load.got
           c == load.clean
<1>1. load = [pc |-> pc, manifest |-> m, todo |-> todo, got |-> got, clean |-> c]
  BY DEF FeedInv, Loading, LoadTyped
<1>2. CASE pc \in {"reading", "nvd"}
  <2>1. load' = [load EXCEPT !.clean = FALSE]
    BY <1>2 DEF Unsettled
  <2>2. pc = "nvd" => todo = << >>
    BY DEF FeedInv, Loading
  <2>3. pc # "idle"
    BY <1>2
  <2> HIDE DEF pc, m, todo, got, c
  <2>4. load' = [pc |-> pc, manifest |-> m, todo |-> todo, got |-> got, clean |-> FALSE]
    BY <1>1, <2>1
  <2>5. load'.pc = pc /\ load'.todo = todo /\ load'.clean = FALSE
    BY <2>4
  <2>6. LoadTyped'
    BY <2>4 DEF LoadTyped
  <2> QED
    BY <2>2, <2>3, <2>5, <2>6 DEF Loading, LoadedWhole
<1>3. CASE pc \notin {"reading", "nvd"}
  <2>1. load' = load
    BY <1>3 DEF Unsettled
  <2> QED
    BY <1>3, <2>1 DEF FeedInv, Loading, LoadTyped, LoadedWhole, Obtained
<1> QED
  BY <1>2, <1>3

\* A load that has not begun, or has failed.
LEMMA UnloadedFacts ==
  /\ Unloaded.pc = "idle" /\ DOMAIN Unloaded.got = {} /\ Unloaded.clean = FALSE
  /\ Unloaded = [pc |-> Unloaded.pc, manifest |-> Unloaded.manifest, todo |-> Unloaded.todo,
                 got |-> Unloaded.got, clean |-> Unloaded.clean]
BY DEF Unloaded, NoFiles

\* The first state.
LEMMA FeedInitInv == FeedInit => FeedInv
<1> SUFFICES ASSUME FeedInit PROVE FeedInv
  OBVIOUS
<1>1. \A p \in Installers : inst[p] = Idle
  BY DEF FeedInit
<1>2. Idle.pc = "idle" /\ DOMAIN Idle = {"pc", "manifest", "todo", "staging", "clean"}
  BY DEF Idle
<1>3. FeedTyped
  <2>1. inst \in [Installers -> {Idle}]
    BY DEF FeedInit
  <2>2. \E S : inst \in [Installers -> S]
    BY <2>1
  <2>3. dir = [manifest |-> dir.manifest, sig |-> dir.sig, files |-> dir.files]
    BY DEF FeedInit
  <2> QED
    BY <1>1, <1>2, <2>2, <2>3 DEF FeedTyped
<1>4. Signed
  <2>1. dir.sig = <<Releases[1].key, Releases[1].manifest>> /\ publishing = Empty
    BY DEF FeedInit
  <2> QED
    BY <2>1, FeedAssumption DEF Signed
<1>5. Undisturbed /\ Marked
  BY <1>1, <1>2 DEF Undisturbed, Marked, Hands, Active
<1>6. MarkerTrue
  BY DEF FeedInit, MarkerTrue
<1>7. Loading
  <2>1. load = Unloaded
    BY DEF FeedInit
  <2> QED
    BY <2>1, UnloadedFacts DEF Loading, LoadTyped, LoadedWhole
<1> QED
  BY <1>3, <1>4, <1>5, <1>6, <1>7 DEF FeedInv

\* Whoever is at work when the directory is written is no longer clean.
LEMMA DisturbedInv ==
  ASSUME FeedInv, inst' = Disturbed, UNCHANGED suspect
  PROVE  /\ Undisturbed' /\ Marked' /\ (\E S : inst' \in [Installers -> S])
         /\ \A p \in Installers : DOMAIN inst'[p] = {"pc", "manifest", "todo", "staging", "clean"}
<1> DEFINE g(p) == IF inst[p].pc \in {"idle", "connected"} THEN inst[p] ELSE [inst[p] EXCEPT !.clean = FALSE]
<1>1. inst' = [p \in Installers |-> g(p)]
  BY DEF Disturbed
<1>2. \A p \in Installers : DOMAIN inst[p] = {"pc", "manifest", "todo", "staging", "clean"}
  BY DEF FeedInv, FeedTyped
<1>3. ASSUME NEW p \in Installers
      PROVE  /\ DOMAIN g(p) = {"pc", "manifest", "todo", "staging", "clean"} /\ g(p).pc = inst[p].pc
             /\ g(p).pc \notin {"idle", "connected"} => ~g(p).clean
  <2>1. CASE inst[p].pc \in {"idle", "connected"}
    BY <1>2, <2>1
  <2>2. CASE inst[p].pc \notin {"idle", "connected"}
    <3>1. g(p) = [inst[p] EXCEPT !.clean = FALSE]
      BY <2>2
    <3>2. "clean" \in DOMAIN inst[p]
      BY <1>2
    <3> HIDE DEF g
    <3>3. DOMAIN g(p) = DOMAIN inst[p] /\ g(p).pc = inst[p].pc
      BY <3>1
    <3>4. g(p).clean = FALSE
      BY <3>1, <3>2
    <3> QED
      BY <1>2, <3>3, <3>4
  <2> QED
    BY <2>1, <2>2
<1> HIDE DEF g
<1>4. \A p \in Installers : inst'[p] = g(p)
  BY <1>1
<1>5. inst' \in [Installers -> {g(p) : p \in Installers}]
  BY <1>1
<1>6. Undisturbed'
  BY <1>3, <1>4 DEF Undisturbed, Active
<1>7. Marked'
  BY <1>3, <1>4 DEF FeedInv, Marked
<1> QED
  BY <1>3, <1>4, <1>5, <1>6, <1>7
\* A publisher starts, and writes a file, the manifest, the signature.
LEMMA PublishInv ==
  ASSUME FeedInv, PublishBegins \/ PublishFile \/ PublishManifest \/ PublishSignature PROVE FeedInv'
<1>1. UNCHANGED <<content, marker, load, suspect>>
  BY DEF PublishBegins, PublishFile, PublishManifest, PublishSignature
<1>2. MarkerTrue' /\ Loading'
  BY <1>1, ContentStays, LoadStays
<1>3. CASE PublishBegins
  <2>1. UNCHANGED <<dir, inst>>
    BY <1>3 DEF PublishBegins
  <2>2. FeedTyped' /\ Marked'
    BY <1>1, <2>1 DEF FeedInv, FeedTyped, Marked
  <2>3. Undisturbed'
    BY <1>1, <2>1 DEF FeedInv, Undisturbed, Active, Lonely, Progress, Matches
  <2>4. Signed'
    <3>1. PICK i \in DOMAIN Releases :
            publishing' = [todo |-> SetToSeq(DOMAIN Releases[i].files), release |-> Releases[i]]
      BY <1>3 DEF PublishBegins
    <3>2. publishing'.release = Releases[i]
      BY <3>1
    <3> QED
      BY <2>1, <3>2 DEF FeedInv, Signed
  <2> QED
    BY <1>2, <2>2, <2>3, <2>4 DEF FeedInv
<1>4. CASE PublishFile \/ PublishManifest \/ PublishSignature
  <2>1. inst' = Disturbed /\ publishing # Empty
    BY <1>4 DEF PublishFile, PublishManifest, PublishSignature
  <2>2. /\ Undisturbed' /\ Marked' /\ (\E S : inst' \in [Installers -> S])
        /\ \A p \in Installers : DOMAIN inst'[p] = {"pc", "manifest", "todo", "staging", "clean"}
    BY <1>1, <2>1, DisturbedInv
  <2> DEFINE m == dir.manifest
             s == dir.sig
             f == dir.files
  <2>3. dir = [manifest |-> m, sig |-> s, files |-> f]
    BY DEF FeedInv, FeedTyped
  <2>4. PICK i \in DOMAIN Releases : publishing.release = Releases[i]
    BY <2>1 DEF FeedInv, Signed
  <2>5. PICK j \in DOMAIN Releases : s = <<Releases[j].key, Releases[j].manifest>>
    BY DEF FeedInv, Signed
  <2>6. CASE PublishFile
    <3>1. \E x : dir' = [dir EXCEPT !.files = x]
      BY <2>6 DEF PublishFile
    <3>2. publishing' = [publishing EXCEPT !.todo = Tail(@)]
      BY <2>6 DEF PublishFile
    <3>3. publishing'.release = Releases[i]
      BY <2>4, <3>2
    <3> HIDE DEF m, s, f
    <3>4. PICK x : dir' = [manifest |-> m, sig |-> s, files |-> x]
      BY <2>3, <3>1
    <3>5. dir'.sig = s /\ dir' = [manifest |-> dir'.manifest, sig |-> dir'.sig, files |-> dir'.files]
      BY <3>4
    <3> QED
      BY <1>2, <2>2, <2>5, <3>3, <3>5 DEF FeedInv, FeedTyped, Signed
  <2>7. CASE PublishManifest
    <3>1. \E x : dir' = [dir EXCEPT !.manifest = x]
      BY <2>7 DEF PublishManifest
    <3>2. publishing' = publishing
      BY <2>7 DEF PublishManifest
    <3> HIDE DEF m, s, f
    <3>3. PICK x : dir' = [manifest |-> x, sig |-> s, files |-> f]
      BY <2>3, <3>1
    <3>4. dir'.sig = s /\ dir' = [manifest |-> dir'.manifest, sig |-> dir'.sig, files |-> dir'.files]
      BY <3>3
    <3> QED
      BY <1>2, <2>2, <2>4, <2>5, <3>2, <3>4 DEF FeedInv, FeedTyped, Signed
  <2>8. CASE PublishSignature
    <3>1. dir' = [dir EXCEPT !.sig = <<publishing.release.key, m>>] /\ m = publishing.release.manifest
      BY <2>8 DEF PublishSignature
    <3>2. publishing' = Empty
      BY <2>8 DEF PublishSignature
    <3>3. <<publishing.release.key, m>> = <<Releases[i].key, Releases[i].manifest>>
      BY <2>4, <3>1
    <3> DEFINE x == <<publishing.release.key, m>>
    <3> HIDE DEF m, s, f, x
    <3>4. dir' = [manifest |-> m, sig |-> x, files |-> f]
      BY <2>3, <3>1 DEF x
    <3>5. dir'.sig = x /\ dir' = [manifest |-> dir'.manifest, sig |-> dir'.sig, files |-> dir'.files]
      BY <3>4
    <3>6. dir'.sig = <<Releases[i].key, Releases[i].manifest>>
      BY <3>3, <3>5 DEF x
    <3> QED
      BY <1>2, <2>2, <3>2, <3>5, <3>6 DEF FeedInv, FeedTyped, Signed
  <2> QED
    BY <1>4, <2>6, <2>7, <2>8
<1> QED
  BY <1>3, <1>4

\* A step of one installer that leaves the directory alone: the others are idle, or
\* not clean, and stay so.
LEMMA InstallersMove ==
  ASSUME FeedInv, NEW p \in Installers, NEW x, NEW T, UNCHANGED <<dir, publishing>>,
         inst' \in [Installers -> T], inst'[p] = x,
         DOMAIN x = {"pc", "manifest", "todo", "staging", "clean"},
         \A q \in Installers \ {p} :
           \/ inst'[q] = inst[q]
           \/ /\ Active(p) /\ DOMAIN inst'[q] = {"pc", "manifest", "todo", "staging", "clean"}
              /\ inst[q].pc = "removing" /\ inst'[q].pc = "stranded" /\ inst'[q].clean = inst[q].clean,
         x.pc \notin {"idle", "connected"} => Active(p) /\ (x.clean => inst[p].clean),
         x.pc \notin {"idle", "connected"} /\ x.clean => Progress(p)',
         ~Active(p) => UNCHANGED content,
         x.pc \in Hands => suspect',
         suspect /\ ~suspect' => Active(p) /\ inst[p].clean,
         MarkerTrue', Loading'
  PROVE  FeedInv'
<1>1. \A q \in Installers : q # p => (inst'[q].pc \in {"idle", "connected"} <=> inst[q].pc \in {"idle", "connected"})
  OBVIOUS
<1>2. ASSUME NEW q \in Installers, q # p, inst[q].clean, Active(q) PROVE inst'[q] = inst[q]
  <2>1. ~Active(p)
    BY <1>2 DEF FeedInv, Undisturbed, Lonely
  <2> QED
    BY <1>2, <2>1
<1>3. FeedTyped' /\ Signed'
  <2>1. FeedTyped'
    <3>1. \A q \in Installers : DOMAIN inst'[q] = {"pc", "manifest", "todo", "staging", "clean"}
      BY DEF FeedInv, FeedTyped
    <3> QED
      BY <3>1 DEF FeedInv, FeedTyped
  <2>2. Signed'
    BY DEF FeedInv, Signed
  <2> QED
    BY <2>1, <2>2
<1>4. Undisturbed'
  <2> SUFFICES ASSUME NEW q \in Installers, Active(q)', inst'[q].clean PROVE (Lonely(q) /\ Progress(q))'
    BY DEF Undisturbed
  <2>1. CASE q = p
    <3>1. x.pc \notin {"idle", "connected"} /\ x.clean
      BY <2>1 DEF Active
    <3>2. Active(p) /\ inst[p].clean /\ Progress(p)'
      BY <3>1
    <3>3. Lonely(p)
      BY <3>2 DEF FeedInv, Undisturbed
    <3>4. Lonely(p)'
      BY <1>1, <3>3 DEF Lonely, Active
    <3> QED
      BY <2>1, <3>2, <3>4
  <2>2. CASE q # p
    <3>1. inst'[q] = inst[q] /\ Active(q) /\ inst[q].clean
      <4>1. Active(q)
        BY <1>1, <2>2 DEF Active
      <4>2. inst[q].clean
        BY <2>2
      <4> QED
        BY <1>2, <2>2, <4>1, <4>2
    <3>2. Lonely(q) /\ Progress(q)
      BY <3>1 DEF FeedInv, Undisturbed
    <3>3. ~Active(p)
      BY <2>2, <3>2 DEF Lonely
    <3>4. content' = content /\ inst'[p].pc \in {"idle", "connected"}
      BY <3>3
    <3>5. Lonely(q)'
      BY <1>1, <3>2, <3>4 DEF Lonely, Active
    <3>6. Progress(q)'
      BY <3>1, <3>2, <3>4 DEF Progress, Matches
    <3> QED
      BY <3>5, <3>6
  <2> QED
    BY <2>1, <2>2
<1>5. Marked'
  <2> SUFFICES ASSUME NEW q \in Installers, inst'[q].pc \in Hands, ~suspect' PROVE FALSE
    BY DEF Marked
  <2>1. q # p
    OBVIOUS
  <2>2. inst[q].pc \in Hands /\ Active(q)
    BY <2>1 DEF Active, Hands
  <2>3. suspect
    BY <2>2 DEF FeedInv, Marked
  <2>4. Lonely(p)
    BY <2>3 DEF FeedInv, Undisturbed
  <2> QED
    BY <2>1, <2>2, <2>4 DEF Lonely
<1> QED
  BY <1>3, <1>4, <1>5 DEF FeedInv

\* A step of one installer that changes nothing but how far it has come.
LEMMA InstallerMoves ==
  ASSUME FeedInv, NEW p \in Installers, NEW x, UNCHANGED <<dir, publishing, content, load>>,
         inst' = [inst EXCEPT ![p] = x],
         DOMAIN x = {"pc", "manifest", "todo", "staging", "clean"},
         x.pc \notin {"idle", "connected"} => Active(p) /\ (x.clean => inst[p].clean),
         x.pc \notin {"idle", "connected"} /\ x.clean /\ inst'[p] = x => Progress(p)',
         x.pc \in Hands => suspect',
         suspect /\ ~suspect' => Active(p) /\ inst[p].clean,
         MarkerTrue'
  PROVE  FeedInv'
<1>1. PICK S : inst \in [Installers -> S]
  BY DEF FeedInv, FeedTyped
<1>2. /\ \E T : inst' \in [Installers -> T]
      /\ inst'[p] = x /\ \A q \in Installers : q # p => inst'[q] = inst[q]
  <2>1. inst' = [inst EXCEPT ![p] = x]
    OBVIOUS
  <2> QED
    BY ONLY <1>1, <2>1, p \in Installers, OneChanged
<1>4. Loading'
  BY LoadStays
<1>5. PICK T : inst' \in [Installers -> T]
  BY <1>2
<1> QED
  BY <1>2, <1>4, <1>5, InstallersMove

\* Giving up.
LEMMA FailsInv ==
  ASSUME FeedInv, NEW p \in Installers, Fails(p), UNCHANGED <<dir, publishing, load, content, marker, suspect>>
  PROVE  FeedInv'
<1>1. Idle.pc = "idle" /\ DOMAIN Idle = {"pc", "manifest", "todo", "staging", "clean"}
  BY DEF Idle
<1>2. inst' = [inst EXCEPT ![p] = Idle]
  BY DEF Fails
<1>3. MarkerTrue'
  BY ContentStays
<1> DEFINE x == Idle
<1> HIDE DEF x
<1>4. /\ inst' = [inst EXCEPT ![p] = x] /\ x.pc = "idle"
      /\ DOMAIN x = {"pc", "manifest", "todo", "staging", "clean"}
  BY <1>1, <1>2 DEF x
<1> QED
  BY <1>3, <1>4, InstallerMoves DEF Hands
\* The live source has shown its entitlement.
LEMMA ConnectInv ==
  ASSUME FeedInv, NEW p \in Installers, Connect(p) PROVE FeedInv'
<1>1. /\ UNCHANGED <<dir, publishing, content, marker, load, suspect>>
      /\ inst' = [inst EXCEPT ![p].pc = "connected"]
  BY DEF Connect
<1>2. PICK S : inst \in [Installers -> S]
  BY DEF FeedInv, FeedTyped
<1>3. DOMAIN inst[p] = {"pc", "manifest", "todo", "staging", "clean"}
  BY DEF FeedInv, FeedTyped
<1>4. PICK x : x = [inst[p] EXCEPT !.pc = "connected"]
  OBVIOUS
<1>5. inst' = [inst EXCEPT ![p] = x]
  BY <1>1, <1>2, <1>4
<1>6. x.pc = "connected" /\ DOMAIN x = {"pc", "manifest", "todo", "staging", "clean"}
  BY <1>3, <1>4
<1>7. MarkerTrue'
  BY <1>1, ContentStays
<1> QED
  BY <1>1, <1>5, <1>6, <1>7, InstallerMoves DEF Hands

\* An installation starts; it is clean if it is the only one, and the others no longer are.
LEMMA FetchInv ==
  ASSUME FeedInv, NEW p \in Installers, Fetch(p) PROVE FeedInv'
<1> DEFINE others == {q \in Installers \ {p} : inst[q].pc \notin {"idle", "connected"}}
           b == others = {} /\ publishing = Empty
           x == [Idle EXCEPT !.pc = "manifest", !.clean = b]
           g(q) == IF q = p THEN x ELSE IF q \in others THEN [inst[q] EXCEPT !.clean = FALSE] ELSE inst[q]
<1>1. /\ UNCHANGED <<dir, publishing, content, marker, load, suspect>>
      /\ inst' = [q \in Installers |-> g(q)]
  BY DEF Fetch
<1>2. \A q \in Installers : DOMAIN inst[q] = {"pc", "manifest", "todo", "staging", "clean"}
  BY DEF FeedInv, FeedTyped
<1>3. b => \A q \in Installers \ {p} : ~Active(q)
  BY DEF Active
<1>4. DOMAIN x = {"pc", "manifest", "todo", "staging", "clean"} /\ x.pc = "manifest" /\ (x.clean <=> b)
  <2> DEFINE e == Empty
  <2> HIDE DEF b
  <2>1. Idle = [pc |-> "idle", manifest |-> e, todo |-> << >>, staging |-> << >>, clean |-> TRUE]
    BY DEF Idle
  <2> HIDE DEF e
  <2>2. DOMAIN Idle = {"pc", "manifest", "todo", "staging", "clean"}
    BY <2>1
  <2>3. DOMAIN x = DOMAIN Idle /\ x.pc = "manifest"
    BY <2>2
  <2>4. x.clean = b
    BY <2>2
  <2> QED
    BY <2>2, <2>3, <2>4
<1> HIDE DEF x, b
<1>5. ASSUME NEW q \in Installers, q # p
      PROVE  /\ DOMAIN g(q) = {"pc", "manifest", "todo", "staging", "clean"} /\ g(q).pc = inst[q].pc
             /\ g(q).pc \notin {"idle", "connected"} => ~g(q).clean
  <2>1. CASE q \in others
    <3>1. g(q) = [inst[q] EXCEPT !.clean = FALSE]
      BY <1>5, <2>1
    <3>2. "clean" \in DOMAIN inst[q]
      BY <1>2
    <3> HIDE DEF g
    <3>3. DOMAIN g(q) = DOMAIN inst[q] /\ g(q).pc = inst[q].pc /\ g(q).clean = FALSE
      BY <3>1, <3>2
    <3> QED
      BY <1>2, <3>3
  <2>2. CASE q \notin others
    BY <1>2, <1>5, <2>2
  <2> QED
    BY <2>1, <2>2
<1>6. g(p) = x
  OBVIOUS
<1> HIDE DEF g, others
<1>7. \A q \in Installers : inst'[q] = g(q)
  BY <1>1
<1>8. inst' \in [Installers -> {g(q) : q \in Installers}]
  BY <1>1
<1>9. FeedTyped'
  <2>1. \E S : inst' \in [Installers -> S]
    BY <1>8
  <2>2. \A q \in Installers : DOMAIN inst'[q] = {"pc", "manifest", "todo", "staging", "clean"}
    BY <1>4, <1>5, <1>6, <1>7
  <2> QED
    BY <1>1, <2>1, <2>2 DEF FeedInv, FeedTyped
<1>10. Undisturbed'
  <2> SUFFICES ASSUME NEW q \in Installers, Active(q)', inst'[q].clean PROVE (Lonely(q) /\ Progress(q))'
    BY DEF Undisturbed
  <2>1. q = p
    BY <1>5, <1>7 DEF Active
  <2>2. b
    BY <1>4, <1>6, <1>7, <2>1
  <2>3. Lonely(p)'
    <3>1. \A r \in Installers \ {p} : inst'[r].pc = inst[r].pc
      BY <1>5, <1>7
    <3> QED
      BY <1>3, <2>2, <3>1 DEF Lonely, Active
  <2>4. Progress(p)'
    <3>1. inst'[p].pc = "manifest"
      BY <1>4, <1>6, <1>7
    <3> QED
      BY <3>1 DEF Progress
  <2> QED
    BY <2>1, <2>3, <2>4
<1>11. Marked'
  <2>1. \A q \in Installers : inst'[q].pc = inst[q].pc \/ inst'[q].pc = "manifest"
    BY <1>4, <1>5, <1>6, <1>7
  <2> QED
    BY <1>1, <2>1 DEF FeedInv, Marked, Hands
<1>12. Signed' /\ MarkerTrue' /\ Loading'
  <2>1. Signed'
    BY <1>1 DEF FeedInv, Signed
  <2> QED
    BY <1>1, <2>1, ContentStays, LoadStays
<1> QED
  BY <1>9, <1>10, <1>11, <1>12 DEF FeedInv

\* The manifest is read.
LEMMA ReadManifestInv ==
  ASSUME FeedInv, NEW p \in Installers, ReadManifest(p) PROVE FeedInv'
<1>1. /\ UNCHANGED <<dir, publishing, content, marker, load, suspect>> /\ inst[p].pc = "manifest"
      /\ inst' = [inst EXCEPT ![p].pc = "signature", ![p].manifest = dir.manifest]
  BY DEF ReadManifest
<1>2. PICK S : inst \in [Installers -> S]
  BY DEF FeedInv, FeedTyped
<1>3. DOMAIN inst[p] = {"pc", "manifest", "todo", "staging", "clean"}
  BY DEF FeedInv, FeedTyped
<1>4. PICK x : x = [[inst[p] EXCEPT !.pc = "signature"] EXCEPT !.manifest = dir.manifest]
  OBVIOUS
<1>5. inst' = [inst EXCEPT ![p] = x]
  BY <1>1, <1>2, <1>4
<1>6. /\ DOMAIN x = {"pc", "manifest", "todo", "staging", "clean"}
      /\ x.pc = "signature" /\ x.clean = inst[p].clean
  BY <1>3, <1>4
<1>7. MarkerTrue'
  BY <1>1, ContentStays
<1>8. Active(p)
  BY <1>1 DEF Active
<1>9. ASSUME inst'[p] = x PROVE Progress(p)'
  BY <1>6, <1>9 DEF Progress
<1> QED
  BY <1>1, <1>5, <1>6, <1>7, <1>8, <1>9, InstallerMoves DEF Hands
\* What is known of an installation at work: its record, and its progress if it is clean.
LEMMA AtWork ==
  ASSUME FeedInv, NEW p \in Installers, Active(p)
  PROVE  /\ \E S : inst \in [Installers -> S]
         /\ DOMAIN inst[p] = {"pc", "manifest", "todo", "staging", "clean"}
         /\ inst[p].clean => Progress(p)
BY DEF FeedInv, FeedTyped, Undisturbed

\* The signature is verified over the manifest that was read.
LEMMA ReadSignatureInv ==
  ASSUME FeedInv, NEW p \in Installers, ReadSignature(p) PROVE FeedInv'
<1> DEFINE man == inst[p].manifest
<1>1. /\ UNCHANGED <<dir, publishing, content, marker, load, suspect>> /\ inst[p].pc = "signature"
      /\ IF VerifyManifest(man, dir.sig) /\ WellFormed(man.entries)
         THEN inst' = [inst EXCEPT ![p].pc = "verify", ![p].todo = man.entries]
         ELSE Fails(p)
  BY DEF ReadSignature
<1>2. CASE Fails(p)
  BY <1>1, <1>2, FailsInv
<1>3. CASE ~Fails(p)
  <2>1. VerifyManifest(man, dir.sig) /\ inst' = [inst EXCEPT ![p].pc = "verify", ![p].todo = man.entries]
    BY <1>1, <1>3
  <2>2. Active(p)
    BY <1>1 DEF Active
  <2>3. PICK S : inst \in [Installers -> S]
    BY <2>2, AtWork
  <2>4. DOMAIN inst[p] = {"pc", "manifest", "todo", "staging", "clean"}
    BY <2>2, AtWork
  <2>5. PICK x : x = [[inst[p] EXCEPT !.pc = "verify"] EXCEPT !.todo = man.entries]
    OBVIOUS
  <2>6. inst' = [inst EXCEPT ![p] = x]
    BY <2>1, <2>3, <2>5
  <2>7. /\ DOMAIN x = {"pc", "manifest", "todo", "staging", "clean"}
        /\ x.pc = "verify" /\ x.clean = inst[p].clean /\ x.manifest = man /\ x.todo = man.entries
    BY <2>4, <2>5
  <2>8. MarkerTrue'
    BY <1>1, ContentStays
  <2>9. Good(man)
    <3>1. PICK i \in DOMAIN Releases : dir.sig = <<Releases[i].key, Releases[i].manifest>>
      BY DEF FeedInv, Signed
    <3>2. dir.sig[1] = Releases[i].key /\ dir.sig[2] = Releases[i].manifest
      BY <3>1
    <3> QED
      BY <2>1, <3>2 DEF VerifyManifest, Good
  <2> HIDE DEF man
  <2>10. ASSUME inst'[p] = x PROVE Progress(p)'
    BY <2>7, <2>9, <2>10, GoodFacts DEF Progress
  <2> QED
    BY <1>1, <2>2, <2>6, <2>7, <2>8, <2>10, InstallerMoves DEF Hands
<1> QED
  BY <1>2, <1>3

\* One entry is found as the manifest has it.
LEMMA VerifyEntryInv ==
  ASSUME FeedInv, NEW p \in Installers, VerifyEntry(p) PROVE FeedInv'
<1> DEFINE todo == inst[p].todo
           man == inst[p].manifest
<1>1. /\ UNCHANGED <<dir, publishing, content, marker, load, suspect>>
      /\ inst[p].pc = "verify" /\ todo # << >>
      /\ IF Matches(Head(todo)) THEN inst' = [inst EXCEPT ![p].todo = Tail(@)] ELSE Fails(p)
  BY DEF VerifyEntry
<1>2. CASE Fails(p)
  BY <1>1, <1>2, FailsInv
<1>3. CASE ~Fails(p)
  <2>1. Matches(Head(todo)) /\ inst' = [inst EXCEPT ![p].todo = Tail(@)]
    BY <1>1, <1>3
  <2>2. Active(p)
    BY <1>1 DEF Active
  <2>3. PICK S : inst \in [Installers -> S]
    BY <2>2, AtWork
  <2>4. DOMAIN inst[p] = {"pc", "manifest", "todo", "staging", "clean"}
    BY <2>2, AtWork
  <2>5. PICK x : x = [inst[p] EXCEPT !.todo = Tail(todo)]
    OBVIOUS
  <2>6. inst' = [inst EXCEPT ![p] = x]
    BY <2>1, <2>3, <2>5
  <2>7. /\ DOMAIN x = {"pc", "manifest", "todo", "staging", "clean"}
        /\ x.pc = "verify" /\ x.clean = inst[p].clean /\ x.manifest = man /\ x.todo = Tail(todo)
    BY <1>1, <2>4, <2>5
  <2>8. MarkerTrue'
    BY <1>1, ContentStays
  <2>9. ASSUME inst'[p] = x, x.clean PROVE Progress(p)'
    <3>1. Progress(p)
      BY <2>2, <2>7, <2>9, AtWork
    <3>2. /\ Good(man) /\ todo \in Seq(ToSet(man.entries))
          /\ \A e \in ToSet(man.entries) : e \in ToSet(todo) \/ Matches(e)
      BY <1>1, <3>1 DEF Progress
    <3> HIDE DEF todo, man
    <3>3. Tail(todo) \in Seq(ToSet(man.entries)) /\ ToSet(todo) = {Head(todo)} \cup ToSet(Tail(todo))
      BY <1>1, <3>2, ToSetTail
    <3>4. \A e \in ToSet(man.entries) : e \in ToSet(Tail(todo)) \/ Matches(e)
      BY <2>1, <3>2, <3>3
    <3> QED
      BY <1>1, <2>7, <2>9, <3>2, <3>3, <3>4 DEF Progress, Matches
  <2> QED
    BY <1>1, <2>2, <2>6, <2>7, <2>8, <2>9, InstallerMoves DEF Hands
<1> QED
  BY <1>2, <1>3

\* Every entry has been found, and a directory is set up to copy them to.
LEMMA VerifiedInv ==
  ASSUME FeedInv, NEW p \in Installers, Verified(p) PROVE FeedInv'
<1> DEFINE man == inst[p].manifest
<1>1. /\ UNCHANGED <<dir, publishing, content, marker, load, suspect>>
      /\ inst[p].pc = "verify" /\ inst[p].todo = << >>
      /\ inst' = [inst EXCEPT ![p].pc = "stage", ![p].todo = man.entries, ![p].staging = NoFiles]
  BY DEF Verified
<1>2. Active(p)
  BY <1>1 DEF Active
<1>3. PICK S : inst \in [Installers -> S]
  BY <1>2, AtWork
<1>4. DOMAIN inst[p] = {"pc", "manifest", "todo", "staging", "clean"}
  BY <1>2, AtWork
<1>5. PICK x : x = [[[inst[p] EXCEPT !.pc = "stage"] EXCEPT !.todo = man.entries] EXCEPT !.staging = NoFiles]
  OBVIOUS
<1>6. inst' = [inst EXCEPT ![p] = x]
  BY <1>1, <1>3, <1>5
<1>7. /\ DOMAIN x = {"pc", "manifest", "todo", "staging", "clean"}
      /\ x.pc = "stage" /\ x.clean = inst[p].clean /\ x.manifest = man /\ x.todo = man.entries
      /\ x.staging = NoFiles
  BY <1>4, <1>5
<1>8. MarkerTrue'
  BY <1>1, ContentStays
<1>9. ASSUME inst'[p] = x, x.clean PROVE Progress(p)'
  <2>1. Progress(p)
    BY <1>2, <1>7, <1>9, AtWork
  <2>2. ToSet(<< >>) = {}
    BY DEF ToSet
  <2>3. Good(man) /\ \A e \in ToSet(man.entries) : Matches(e)
    BY <1>1, <2>1, <2>2 DEF Progress
  <2> HIDE DEF man
  <2>4. man.entries \in Seq(ToSet(man.entries))
    BY <2>3, GoodFacts
  <2>5. DOMAIN NoFiles = {} /\ NoFiles = [n \in DOMAIN NoFiles |-> NoFiles[n]]
    BY DEF NoFiles
  <2> QED
    BY <1>1, <1>7, <1>9, <2>3, <2>4, <2>5 DEF Progress, Matches
<1>10. /\ UNCHANGED <<dir, publishing, content, load>> /\ suspect' = suspect
       /\ DOMAIN x = {"pc", "manifest", "todo", "staging", "clean"}
       /\ x.pc = "stage" /\ x.clean = inst[p].clean
  BY <1>1, <1>7
<1> QED
  BY <1>2, <1>6, <1>8, <1>9, <1>10, InstallerMoves DEF Hands

\* One file is copied: in a clean installation, the one that was verified.
LEMMA StageEntryInv ==
  ASSUME FeedInv, NEW p \in Installers, StageEntry(p) PROVE FeedInv'
<1> DEFINE todo == inst[p].todo
           man == inst[p].manifest
           h == Head(todo)
           n == h[1]
           v == dir.files[n]
           staging == inst[p].staging
<1>1. /\ UNCHANGED <<dir, publishing, content, marker, load, suspect>>
      /\ inst[p].pc = "stage" /\ todo # << >>
      /\ IF n \in DOMAIN dir.files
         THEN inst' = [inst EXCEPT ![p].todo = Tail(@), ![p].staging = Put(@, n, v)]
         ELSE Fails(p)
  BY DEF StageEntry
<1>2. CASE Fails(p)
  BY <1>1, <1>2, FailsInv
<1>3. CASE ~Fails(p)
  <2>1. n \in DOMAIN dir.files /\ inst' = [inst EXCEPT ![p].todo = Tail(@), ![p].staging = Put(@, n, v)]
    BY <1>1, <1>3
  <2>2. Active(p)
    BY <1>1 DEF Active
  <2>3. PICK S : inst \in [Installers -> S]
    BY <2>2, AtWork
  <2>4. DOMAIN inst[p] = {"pc", "manifest", "todo", "staging", "clean"}
    BY <2>2, AtWork
  <2>5. PICK x : x = [[inst[p] EXCEPT !.todo = Tail(todo)] EXCEPT !.staging = Put(staging, n, v)]
    OBVIOUS
  <2>6. inst' = [inst EXCEPT ![p] = x]
    BY <2>1, <2>3, <2>5
  <2>7. /\ DOMAIN x = {"pc", "manifest", "todo", "staging", "clean"}
        /\ x.pc = "stage" /\ x.clean = inst[p].clean /\ x.manifest = man /\ x.todo = Tail(todo)
        /\ x.staging = Put(staging, n, v)
    BY <1>1, <2>4, <2>5
  <2>8. MarkerTrue'
    BY <1>1, ContentStays
  <2>9. ASSUME inst'[p] = x, x.clean PROVE Progress(p)'
    <3>1. Progress(p)
      BY <2>2, <2>7, <2>9, AtWork
    <3> DEFINE entries == ToSet(man.entries)
    <3>2. /\ Good(man) /\ todo \in Seq(entries)
          /\ \A e \in entries : Matches(e)
          /\ staging = [m \in DOMAIN staging |-> staging[m]]
          /\ \A m \in DOMAIN staging : <<m, staging[m]>> \in entries
          /\ \A e \in entries : e \in ToSet(todo) \/ (e[1] \in DOMAIN staging /\ staging[e[1]] = e[2])
      BY <1>1, <3>1 DEF Progress
    <3>3. \A e \in entries : e = <<e[1], e[2]>>
      BY <3>2, GoodFacts
    <3> HIDE DEF todo, man, staging, entries
    <3>4. Tail(todo) \in Seq(entries) /\ ToSet(todo) = {h} \cup ToSet(Tail(todo)) /\ h \in entries
      BY <1>1, <3>2, ToSetTail
    <3>5. h[2] = v
      BY <3>2, <3>4 DEF Matches
    <3>6. h = <<n, v>>
      BY <3>3, <3>4, <3>5
    <3>7. \A e \in entries : e[1] = n => e[2] = v
      BY <3>2 DEF Matches
    <3> DEFINE y == Put(staging, n, v)
    <3>8. /\ DOMAIN y = {n} \cup DOMAIN staging /\ y[n] = v
          /\ \A m \in DOMAIN staging : m # n => y[m] = staging[m]
          /\ y = [m \in DOMAIN y |-> y[m]]
      BY DEF Put
    <3> HIDE DEF y, n, v, h
    <3>9. \A m \in DOMAIN y : <<m, y[m]>> \in entries
      <4> SUFFICES ASSUME NEW m \in DOMAIN y PROVE <<m, y[m]>> \in entries
        OBVIOUS
      <4>1. CASE m = n
        BY <3>4, <3>6, <3>8, <4>1
      <4>2. CASE m # n
        <5>1. m \in DOMAIN staging /\ y[m] = staging[m]
          BY <3>8, <4>2
        <5> QED
          BY <3>2, <5>1
      <4> QED
        BY <4>1, <4>2
    <3>10. \A e \in entries : e \in ToSet(Tail(todo)) \/ (e[1] \in DOMAIN y /\ y[e[1]] = e[2])
      <4> SUFFICES ASSUME NEW e \in entries, e \notin ToSet(Tail(todo))
                   PROVE  e[1] \in DOMAIN y /\ y[e[1]] = e[2]
        OBVIOUS
      <4>1. CASE e[1] = n
        BY <3>7, <3>8, <4>1
      <4>2. CASE e[1] # n
        <5>1. e # h
          BY <4>2 DEF n
        <5>2. e[1] \in DOMAIN staging /\ staging[e[1]] = e[2]
          BY <3>2, <3>4, <5>1
        <5> QED
          BY <3>8, <4>2, <5>2
      <4> QED
        BY <4>1, <4>2
    <3>11. x.staging = y
      BY <2>7 DEF y
    <3> QED
      BY <1>1, <2>7, <2>9, <3>2, <3>4, <3>8, <3>9, <3>10, <3>11, ZenonT(40) DEF Progress, Matches, entries
  <2> QED
    BY <1>1, <2>2, <2>6, <2>7, <2>8, <2>9, InstallerMoves DEF Hands
<1> QED
  BY <1>2, <1>3
\* The old content goes, file by file and then altogether; what was copied is what the
\* manifest lists.
LEMMA RemoveInv ==
  ASSUME FeedInv, NEW p \in Installers, RemoveFile(p) \/ RemoveOld(p) PROVE FeedInv'
<1> DEFINE man == inst[p].manifest
           staging == inst[p].staging
<1>1. /\ UNCHANGED <<dir, publishing>> /\ suspect' /\ load' = Unsettled
      /\ inst[p].pc \in {"removing", "stranded"} \/ (inst[p].pc = "stage" /\ inst[p].todo = << >>)
  BY DEF RemoveFile, RemoveOld
<1>2. PICK next \in {"removing", "removed"} : inst' = [inst EXCEPT ![p].pc = next]
  BY DEF RemoveFile, RemoveOld
<1>3. Active(p)
  BY <1>1 DEF Active
<1>4. PICK S : inst \in [Installers -> S]
  BY <1>3, AtWork
<1>5. DOMAIN inst[p] = {"pc", "manifest", "todo", "staging", "clean"}
  BY <1>3, AtWork
<1>6. PICK x : x = [inst[p] EXCEPT !.pc = next]
  OBVIOUS
<1>7. inst' = [inst EXCEPT ![p] = x]
  BY <1>2, <1>4, <1>6
<1>8. /\ DOMAIN x = {"pc", "manifest", "todo", "staging", "clean"}
      /\ x.pc = next /\ x.clean = inst[p].clean /\ x.manifest = man /\ x.staging = staging
  BY <1>5, <1>6
<1>9. \E T : inst' \in [Installers -> T]
  <2> HIDE DEF man, staging
  <2>1. inst' \in [Installers -> S \cup {x}]
    BY <1>4, <1>7
  <2> QED BY <2>1
<1>10. inst'[p] = x /\ \A q \in Installers \ {p} : inst'[q] = inst[q]
  BY <1>4, <1>7
<1>11. MarkerTrue' /\ Loading'
  BY <1>1, UnsettledStays DEF MarkerTrue
<1>12. ASSUME x.clean PROVE Progress(p)'
  <2>1. Progress(p)
    BY <1>3, <1>8, <1>12, AtWork
  <2>2. Good(man) /\ staging # Empty /\ Exact(staging, man)
    <3>1. CASE inst[p].pc \in {"removing", "stranded"}
      BY <2>1, <3>1 DEF Progress
    <3>2. CASE inst[p].pc = "stage" /\ inst[p].todo = << >>
      <4>1. ToSet(<< >>) = {}
        BY DEF ToSet
      <4>2. /\ Good(man) /\ staging = [n \in DOMAIN staging |-> staging[n]]
            /\ \A n \in DOMAIN staging : <<n, staging[n]>> \in ToSet(man.entries)
            /\ \A e \in ToSet(man.entries) : e[1] \in DOMAIN staging /\ staging[e[1]] = e[2]
        BY <2>1, <3>2, <4>1 DEF Progress
      <4> HIDE DEF man, staging
      <4> QED
        BY <4>2, ExactFacts
    <3> QED
      BY <1>1, <3>1, <3>2
  <2> HIDE DEF man, staging
  <2> QED
    BY <1>2, <1>8, <1>10, <2>2 DEF Progress
<1>13. PICK T : inst' \in [Installers -> T]
  BY <1>9
<1>14. /\ DOMAIN x = {"pc", "manifest", "todo", "staging", "clean"} /\ x.clean = inst[p].clean
  BY <1>8
<1> QED
  BY <1>1, <1>3, <1>10, <1>11, <1>12, <1>13, <1>14, InstallersMove

\* The copy becomes the content, if nothing has taken its place.
LEMMA SwapInInv ==
  ASSUME FeedInv, NEW p \in Installers, SwapIn(p) PROVE FeedInv'
<1> DEFINE man == inst[p].manifest
           staging == inst[p].staging
           g(q) == IF q = p THEN [inst[q] EXCEPT !.pc = "swapped", !.staging = << >>]
                   ELSE IF inst[q].pc = "removing" THEN [inst[q] EXCEPT !.pc = "stranded"] ELSE inst[q]
<1>1. /\ UNCHANGED <<dir, publishing, marker, suspect>> /\ inst[p].pc = "removed"
      /\ \/ /\ content' = staging /\ load' = Unsettled /\ inst' = [q \in Installers |-> g(q)]
         \/ Fails(p) /\ UNCHANGED <<content, load>>
  BY DEF SwapIn
<1>2. CASE Fails(p) /\ UNCHANGED <<content, load>>
  BY <1>1, <1>2, FailsInv
<1>3. CASE content' = staging /\ load' = Unsettled /\ inst' = [q \in Installers |-> g(q)]
  <2>1. Active(p) /\ suspect
    BY <1>1 DEF Active, FeedInv, Marked, Hands
  <2>2. \A q \in Installers : DOMAIN inst[q] = {"pc", "manifest", "todo", "staging", "clean"}
    BY DEF FeedInv, FeedTyped
  <2>3. PICK x : x = [inst[p] EXCEPT !.pc = "swapped", !.staging = << >>]
    OBVIOUS
  <2>4. g(p) = x
    BY <2>3
  <2>5. /\ DOMAIN x = {"pc", "manifest", "todo", "staging", "clean"}
        /\ x.pc = "swapped" /\ x.clean = inst[p].clean /\ x.manifest = man
    BY <2>2, <2>3
  <2>6. ASSUME NEW q \in Installers \ {p}
        PROVE  \/ g(q) = inst[q]
               \/ /\ DOMAIN g(q) = {"pc", "manifest", "todo", "staging", "clean"}
                  /\ inst[q].pc = "removing" /\ g(q).pc = "stranded" /\ g(q).clean = inst[q].clean
    <3>1. CASE inst[q].pc = "removing"
      <4>1. g(q) = [inst[q] EXCEPT !.pc = "stranded"]
        BY <3>1
      <4>2. "pc" \in DOMAIN inst[q] /\ DOMAIN inst[q] = {"pc", "manifest", "todo", "staging", "clean"}
        BY <2>2
      <4> HIDE DEF g
      <4>3. DOMAIN g(q) = DOMAIN inst[q] /\ g(q).pc = "stranded" /\ g(q).clean = inst[q].clean
        BY <4>1, <4>2
      <4> QED
        BY <3>1, <4>2, <4>3
    <3>2. CASE inst[q].pc # "removing"
      BY <3>2
    <3> QED
      BY <3>1, <3>2
  <2> HIDE DEF g
  <2>7. inst' \in [Installers -> {g(q) : q \in Installers}] /\ \A q \in Installers : inst'[q] = g(q)
    BY <1>3
  <2>8. MarkerTrue' /\ Loading'
    BY <1>1, <1>3, <2>1, UnsettledStays DEF MarkerTrue
  <2>9. ASSUME x.clean PROVE Progress(p)'
    <3>1. Progress(p)
      BY <2>1, <2>5, <2>9, AtWork
    <3>2. Good(man) /\ staging # Empty /\ Exact(staging, man)
      BY <1>1, <3>1 DEF Progress
    <3>3. inst'[p] = x
      BY <2>4, <2>7
    <3> HIDE DEF man, staging
    <3>4. content' # Empty /\ Exact(content', man)
      BY <1>3, <3>2
    <3> QED
      BY <2>5, <3>2, <3>3, <3>4 DEF Progress
  <2>10. PICK T : inst' \in [Installers -> T]
    BY <2>7
  <2>11. inst'[p] = x /\ suspect'
    BY <1>1, <2>1, <2>4, <2>7
  <2>12. \A q \in Installers \ {p} :
           \/ inst'[q] = inst[q]
           \/ /\ Active(p) /\ DOMAIN inst'[q] = {"pc", "manifest", "todo", "staging", "clean"}
              /\ inst[q].pc = "removing" /\ inst'[q].pc = "stranded" /\ inst'[q].clean = inst[q].clean
    BY <2>1, <2>6, <2>7
  <2>13. DOMAIN x = {"pc", "manifest", "todo", "staging", "clean"} /\ x.clean = inst[p].clean
    BY <2>5
  <2> QED
    BY <1>1, <2>1, <2>8, <2>9, <2>10, <2>11, <2>12, <2>13, InstallersMove
<1> QED
  BY <1>1, <1>2, <1>3

\* The marker is written: after a clean installation it names the content.
LEMMA CommitInv ==
  ASSUME FeedInv, NEW p \in Installers, Commit(p) PROVE FeedInv'
<1>1. /\ UNCHANGED <<dir, publishing, content, load>> /\ inst[p].pc = "swapped"
      /\ inst' = [inst EXCEPT ![p] = Idle] /\ marker' = inst[p].manifest
      /\ suspect' = ~inst[p].clean
  BY DEF Commit, Fails
<1>2. Idle.pc = "idle" /\ DOMAIN Idle = {"pc", "manifest", "todo", "staging", "clean"}
  BY DEF Idle
<1>3. Active(p)
  BY <1>1 DEF Active
<1>4. ~suspect' => inst[p].clean
  BY <1>1
<1>5. MarkerTrue'
  <2> SUFFICES ASSUME ~suspect', marker' # Empty
               PROVE  content' # Empty /\ {<<n, content'[n]>> : n \in DOMAIN content'} = ToSet(marker'.entries)
    BY DEF MarkerTrue
  <2>1. Progress(p)
    BY <1>3, <1>4, AtWork
  <2>2. content # Empty /\ Exact(content, inst[p].manifest)
    BY <1>1, <2>1 DEF Progress
  <2> QED
    BY <1>1, <2>2 DEF Exact
<1>6. PICK x : x = Idle
  OBVIOUS
<1>7. /\ inst' = [inst EXCEPT ![p] = x] /\ x.pc = "idle"
      /\ DOMAIN x = {"pc", "manifest", "todo", "staging", "clean"}
  BY <1>1, <1>2, <1>6
<1>8. UNCHANGED <<dir, publishing, content, load>>
  BY <1>1
<1> QED
  BY <1>3, <1>4, <1>5, <1>7, <1>8, InstallerMoves DEF Hands

\* The files a load requires.
LEMMA RequiredFacts ==
  /\ Required \in Seq(ToSet(Required)) /\ ToSet(Required) = {"osv", "epss", "kev"}
  /\ ToSet(Required) \subseteq KnownContent
<1> DEFINE S == {"osv", "epss", "kev"}
<1>1. Required = <<"osv", "epss", "kev">> /\ DOMAIN Required = 1..3
  BY DEF Required
<1>2. ToSet(Required) = S
  <2>1. Required[1] = "osv" /\ Required[2] = "epss" /\ Required[3] = "kev"
    BY <1>1
  <2>2. 1..3 = {1, 2, 3}
    OBVIOUS
  <2> QED
    BY <1>1, <2>1, <2>2 DEF ToSet
<1>3. Required \in Seq(S)
  <2>1. "osv" \in S /\ "epss" \in S /\ "kev" \in S
    OBVIOUS
  <2> HIDE DEF S
  <2> QED
    BY <1>1, <2>1
<1> QED
  BY <1>2, <1>3 DEF KnownContent

\* What a load that nothing disturbed has read of a version, and of its snapshot if
\* there is one, is all the evidence of the version.
LEMMA WholeEvidence ==
  ASSUME NEW got, NEW man, content # Empty, Exact(content, man),
         \A n \in DOMAIN got : n \in KnownContent /\ n \in DOMAIN content /\ got[n] = content[n],
         \A n \in ToSet(Required) : n \in DOMAIN got,
         Present("nvd") => "nvd" \in DOMAIN got
  PROVE  {<<n, got[n]>> : n \in DOMAIN got} = Evidence(man)
<1> DEFINE O == {<<n, got[n]>> : n \in DOMAIN got}
           E == ToSet(man.entries)
<1>1. E = {<<n, content[n]>> : n \in DOMAIN content}
  BY DEF Exact
<1> HIDE DEF E
<1>2. ASSUME NEW e \in O PROVE e \in Evidence(man)
  <2>1. PICK n \in DOMAIN got : e = <<n, got[n]>>
    BY <1>2
  <2>2. e = <<n, content[n]>> /\ n \in DOMAIN content /\ e[1] \in KnownContent
    BY <2>1
  <2> QED
    BY <1>1, <2>2 DEF Evidence, E
<1>3. ASSUME NEW e \in Evidence(man) PROVE e \in O
  <2>1. e \in E /\ e[1] \in KnownContent
    BY DEF Evidence, E
  <2>2. PICK n \in DOMAIN content : e = <<n, content[n]>>
    BY <1>1, <2>1
  <2>3. n \in KnownContent
    BY <2>1, <2>2
  <2>4. n = "nvd" \/ n \in ToSet(Required)
    <3>1. ToSet(Required) = {"osv", "epss", "kev"}
      BY RequiredFacts
    <3> QED
      BY <2>3, <3>1 DEF KnownContent
  <2>5. n \in DOMAIN got
    BY <2>4 DEF Present
  <2> QED
    BY <2>2, <2>5
<1> QED
  BY <1>2, <1>3

\* A load starts.
LEMMA LoadBeginsInv ==
  ASSUME FeedInv, LoadBegins PROVE Loading'
<1> DEFINE got == load.got
           b == ~suspect
           m == marker
<1>1. /\ UNCHANGED content /\ m # Empty /\ load.pc = "idle"
      /\ load' = [load EXCEPT !.pc = "reading", !.manifest = m, !.todo = Required, !.clean = b]
  BY DEF LoadBegins
<1>2. LoadTyped /\ DOMAIN got = {}
  BY <1>1 DEF FeedInv, Loading
<1>3. b => content # Empty /\ Exact(content, m)
  BY <1>1 DEF FeedInv, MarkerTrue, Exact
<1>4. PICK pc, man, todo, c : load = [pc |-> pc, manifest |-> man, todo |-> todo, got |-> got, clean |-> c]
  BY <1>2 DEF LoadTyped
<1> HIDE DEF b, got, m
<1>5. load' = [pc |-> "reading", manifest |-> m, todo |-> Required, got |-> got, clean |-> b]
  BY <1>1, <1>4
<1>6. load'.pc = "reading" /\ load'.manifest = m /\ load'.todo = Required /\ load'.got = got /\ load'.clean = b
  BY <1>5
<1>7. LoadTyped'
  BY <1>5 DEF LoadTyped
<1>8. b => OfOneVersion'
  BY <1>1, <1>2, <1>3, <1>6, RequiredFacts DEF OfOneVersion, Exact
<1> QED
  BY <1>6, <1>7, <1>8 DEF Loading, LoadedWhole

\* A required file is read.
LEMMA LoadFileInv ==
  ASSUME FeedInv, LoadFile PROVE Loading'
<1> DEFINE pc == load.pc
           m == load.manifest
           todo == load.todo
           got == load.got
           c == load.clean
           n == Head(todo)
           x == content[n]
           more == Put(got, n, x)
           rest == Tail(todo)
<1>1. /\ UNCHANGED content /\ pc = "reading" /\ todo # << >>
      /\ load' = IF Present(n) /\ x # Garbled THEN [load EXCEPT !.todo = rest, !.got = more] ELSE Unloaded
  BY DEF LoadFile
<1>2. LoadTyped /\ (c => OfOneVersion)
  BY <1>1 DEF FeedInv, Loading
<1>3. CASE load' = Unloaded
  BY <1>3, UnloadedFacts DEF Loading, LoadTyped, LoadedWhole
<1>4. CASE Present(n) /\ load' = [load EXCEPT !.todo = rest, !.got = more]
  <2>1. load = [pc |-> pc, manifest |-> m, todo |-> todo, got |-> got, clean |-> c]
    BY <1>2 DEF LoadTyped
  <2>2. /\ DOMAIN more = {n} \cup DOMAIN got /\ more[n] = x
        /\ \A k \in DOMAIN got : k # n => more[k] = got[k]
    BY DEF Put
  <2>3. c => /\ content # Empty /\ Exact(content, m) /\ todo \in Seq(ToSet(Required))
             /\ \A k \in DOMAIN got : k \in ToSet(Required) /\ k \in DOMAIN content /\ got[k] = content[k]
             /\ \A k \in ToSet(Required) : k \in ToSet(todo) \/ k \in DOMAIN got
    BY <1>2 DEF OfOneVersion
  <2>4. n \in DOMAIN content
    BY <1>4 DEF Present
  <2> HIDE DEF pc, m, got, c, x, more
  <2>5. c => n \in ToSet(Required) /\ rest \in Seq(ToSet(Required)) /\ ToSet(todo) = {n} \cup ToSet(rest)
    <3> HIDE DEF todo
    <3> QED
      BY <1>1, <2>3, ToSetTail
  <2> HIDE DEF todo, n, rest
  <2>6. load' = [pc |-> pc, manifest |-> m, todo |-> rest, got |-> more, clean |-> c]
    BY <1>4, <2>1
  <2>7. load'.pc = pc /\ load'.manifest = m /\ load'.todo = rest /\ load'.got = more /\ load'.clean = c
    BY <2>6
  <2>8. LoadTyped'
    BY <2>6 DEF LoadTyped
  <2>9. ASSUME c PROVE OfOneVersion'
    <3>1. \A k \in DOMAIN more : k \in ToSet(Required) /\ k \in DOMAIN content /\ more[k] = content[k]
      BY <2>2, <2>3, <2>4, <2>5, <2>9 DEF x
    <3>2. \A k \in ToSet(Required) : k \in ToSet(rest) \/ k \in DOMAIN more
      BY <2>2, <2>3, <2>5, <2>9
    <3> QED
      BY <1>1, <2>3, <2>5, <2>7, <2>9, <3>1, <3>2 DEF OfOneVersion, Exact
  <2> QED
    BY <1>1, <2>7, <2>8, <2>9 DEF Loading, LoadedWhole
<1> QED
  BY <1>1, <1>3, <1>4

\* The required files have been read: there is a snapshot, or the load has succeeded.
LEMMA LoadEndsInv ==
  ASSUME FeedInv, LoadEnds PROVE Loading'
<1> DEFINE m == load.manifest
           got == load.got
           c == load.clean
           next == IF Present("nvd") THEN "nvd" ELSE "done"
<1>1. UNCHANGED content /\ load.pc = "reading" /\ load.todo = << >> /\ load' = [load EXCEPT !.pc = next]
  BY DEF LoadEnds
<1>2. LoadTyped /\ (c => OfOneVersion)
  BY <1>1 DEF FeedInv, Loading
<1>3. next \in {"nvd", "done"} /\ (next = "done" => ~Present("nvd"))
  OBVIOUS
<1>4. PICK pc : load = [pc |-> pc, manifest |-> m, todo |-> << >>, got |-> got, clean |-> c]
  BY <1>1, <1>2 DEF LoadTyped
<1>5. c => /\ content # Empty /\ Exact(content, m)
           /\ \A n \in DOMAIN got : n \in KnownContent /\ n \in DOMAIN content /\ got[n] = content[n]
           /\ \A n \in ToSet(Required) : n \in DOMAIN got
  <2>1. ToSet(<< >>) = {}
    BY DEF ToSet
  <2> QED
    BY <1>1, <1>2, <2>1, RequiredFacts DEF OfOneVersion
<1> HIDE DEF m, got, c, next
<1>6. load' = [pc |-> next, manifest |-> m, todo |-> << >>, got |-> got, clean |-> c]
  BY <1>1, <1>4
<1>7. load'.pc = next /\ load'.manifest = m /\ load'.todo = << >> /\ load'.got = got /\ load'.clean = c
  BY <1>6
<1>8. LoadTyped'
  BY <1>6 DEF LoadTyped
<1>9. ASSUME c PROVE OfOneVersion'
  <2>1. OfOneVersion
    BY <1>2, <1>9 DEF c
  <2>2. load'.manifest = load.manifest /\ load'.todo = load.todo /\ load'.got = load.got
    BY <1>1, <1>7 DEF m, got
  <2> QED
    BY <1>1, <2>1, <2>2 DEF OfOneVersion, Exact
<1>10. LoadedWhole'
  <2> SUFFICES ASSUME next = "done", c PROVE {<<n, got[n]>> : n \in DOMAIN got} = Evidence(m)
    BY <1>7 DEF LoadedWhole, Obtained, Evidence
  <2> QED
    BY <1>3, <1>5, WholeEvidence
<1> QED
  BY <1>3, <1>7, <1>8, <1>9, <1>10 DEF Loading

\* The snapshot is read as well.
LEMMA LoadNvdInv ==
  ASSUME FeedInv, LoadNvd PROVE Loading'
<1> DEFINE m == load.manifest
           got == load.got
           c == load.clean
           x == content["nvd"]
           more == Put(got, "nvd", x)
<1>1. /\ load.pc = "nvd"
      /\ load' = IF Present("nvd") /\ x # Garbled THEN [load EXCEPT !.pc = "done", !.got = more] ELSE Unloaded
  BY DEF LoadNvd
<1>2. LoadTyped /\ (c => OfOneVersion) /\ load.todo = << >>
  BY <1>1 DEF FeedInv, Loading
<1>3. CASE load' = Unloaded
  BY <1>3, UnloadedFacts DEF Loading, LoadTyped, LoadedWhole
<1>4. CASE Present("nvd") /\ load' = [load EXCEPT !.pc = "done", !.got = more]
  <2>1. PICK pc : load = [pc |-> pc, manifest |-> m, todo |-> << >>, got |-> got, clean |-> c]
    BY <1>2 DEF LoadTyped
  <2>2. /\ DOMAIN more = {"nvd"} \cup DOMAIN got /\ more["nvd"] = x
        /\ \A k \in DOMAIN got : k # "nvd" => more[k] = got[k]
    BY DEF Put
  <2>3. c => /\ content # Empty /\ Exact(content, m)
             /\ \A n \in DOMAIN got : n \in KnownContent /\ n \in DOMAIN content /\ got[n] = content[n]
             /\ \A n \in ToSet(Required) : n \in DOMAIN got
    <3>1. ToSet(<< >>) = {}
      BY DEF ToSet
    <3> QED
      BY <1>2, <3>1, RequiredFacts DEF OfOneVersion
  <2>4. "nvd" \in DOMAIN content /\ "nvd" \in KnownContent
    BY <1>4 DEF Present, KnownContent
  <2> HIDE DEF m, got, c, more
  <2>5. load' = [pc |-> "done", manifest |-> m, todo |-> << >>, got |-> more, clean |-> c]
    BY <1>4, <2>1
  <2>6. load'.pc = "done" /\ load'.manifest = m /\ load'.got = more /\ load'.clean = c
    BY <2>5
  <2>7. LoadTyped'
    BY <2>5 DEF LoadTyped
  <2>8. LoadedWhole'
    <3> SUFFICES ASSUME c PROVE {<<n, more[n]>> : n \in DOMAIN more} = Evidence(m)
      BY <2>6 DEF LoadedWhole, Obtained, Evidence
    <3>1. \A n \in DOMAIN more : n \in KnownContent /\ n \in DOMAIN content /\ more[n] = content[n]
      BY <2>2, <2>3, <2>4
    <3>2. (\A n \in ToSet(Required) : n \in DOMAIN more) /\ "nvd" \in DOMAIN more
      BY <2>2, <2>3
    <3> QED
      BY <2>3, <3>1, <3>2, WholeEvidence
  <2> QED
    BY <2>6, <2>7, <2>8 DEF Loading
<1> QED
  BY <1>1, <1>3, <1>4

\* A load leaves the rest alone.
LEMMA LoadInv ==
  ASSUME FeedInv, LoadBegins \/ LoadFile \/ LoadEnds \/ LoadNvd PROVE FeedInv'
<1>1. UNCHANGED <<dir, publishing, content, marker, inst, suspect>>
  BY DEF LoadBegins, LoadFile, LoadEnds, LoadNvd
<1>2. FeedTyped' /\ Signed' /\ Marked' /\ MarkerTrue'
  BY <1>1, ContentStays DEF FeedInv, FeedTyped, Signed, Marked
<1>3. Undisturbed'
  BY <1>1 DEF FeedInv, Undisturbed, Active, Lonely, Progress, Matches, Exact
<1>4. Loading'
  BY LoadBeginsInv, LoadFileInv, LoadEndsInv, LoadNvdInv
<1> QED
  BY <1>2, <1>3, <1>4 DEF FeedInv

\* The invariant that publishers, installers, crashes and loads keep between them.
THEOREM FeedInvariance == FeedSpec => []FeedInv
<1>1. FeedInit => FeedInv
  BY FeedInitInv
<1>2. FeedInv /\ [FeedNext]_feedVars => FeedInv'
  <2> SUFFICES ASSUME FeedInv, [FeedNext]_feedVars PROVE FeedInv'
    OBVIOUS
  <2>1. CASE PublishBegins \/ PublishFile \/ PublishManifest \/ PublishSignature
    BY <2>1, PublishInv
  <2>2. ASSUME NEW p \in Installers,
               \/ Connect(p) \/ Fetch(p) \/ ReadManifest(p) \/ ReadSignature(p) \/ VerifyEntry(p) \/ Verified(p)
               \/ StageEntry(p) \/ RemoveFile(p) \/ RemoveOld(p) \/ SwapIn(p) \/ Commit(p)
        PROVE  FeedInv'
    BY <2>2, ConnectInv, FetchInv, ReadManifestInv, ReadSignatureInv, VerifyEntryInv, VerifiedInv,
       StageEntryInv, RemoveInv, SwapInInv, CommitInv
  <2>3. ASSUME NEW p \in Installers, RemoveFails(p) \/ Interrupted(p) PROVE FeedInv'
    BY <2>3, FailsInv DEF RemoveFails, Interrupted
  <2>4. CASE LoadBegins \/ LoadFile \/ LoadEnds \/ LoadNvd
    BY <2>4, LoadInv
  <2>5. CASE UNCHANGED feedVars
    <3>1. UNCHANGED <<dir, publishing, content, marker, inst, load, suspect>>
      BY <2>5 DEF feedVars
    <3>2. FeedTyped' /\ Signed' /\ Marked' /\ MarkerTrue' /\ Loading'
      BY <3>1, ContentStays, LoadStays DEF FeedInv, FeedTyped, Signed, Marked
    <3>3. Undisturbed'
      BY <3>1 DEF FeedInv, Undisturbed, Active, Lonely, Progress, Matches
    <3> QED
      BY <3>2, <3>3 DEF FeedInv
  <2> QED
    BY <2>1, <2>2, <2>3, <2>4, <2>5 DEF FeedNext
<1> QED
  BY <1>1, <1>2, PTL DEF FeedSpec

\* Through publishing, installing, crashing and loading at once: what an undisturbed
\* installation puts in the store is signed by a trusted publisher, the marker names
\* the content, and a load beside which nothing was installed has the whole evidence of
\* the version it is stamped with.
THEOREM FeedAlwaysKept == FeedSpec => []FeedKept
<1>1. FeedInv => FeedKept
  <2> SUFFICES ASSUME FeedInv PROVE FeedKept
    OBVIOUS
  <2>1. NothingUnverified
    <3> SUFFICES ASSUME NEW p \in Installers, inst[p].clean, inst[p].pc \in {"removing", "removed", "swapped"},
                        NEW files, files = IF inst[p].pc = "swapped" THEN content ELSE inst[p].staging,
                        NEW n \in DOMAIN files
                 PROVE  <<n, files[n]>> \in Admitted
      BY DEF NothingUnverified
    <3>1. Active(p)
      BY DEF Active
    <3>2. Progress(p)
      BY <3>1, AtWork
    <3>3. Good(inst[p].manifest) /\ Exact(files, inst[p].manifest)
      BY <3>2 DEF Progress
    <3>4. ToSet(inst[p].manifest.entries) \subseteq Admitted
      BY <3>3, GoodFacts
    <3> QED
      BY <3>3, <3>4 DEF Exact
  <2>2. LoadedWhole
    BY DEF FeedInv, Loading
  <2> QED
    BY <2>1, <2>2 DEF FeedInv, FeedKept
<1> QED
  BY <1>1, FeedInvariance, PTL
(***************************************************************************)
(* Frames.                                                                 *)
(***************************************************************************)

Bytes == Seq(Nat)

\* A stream carries these payloads: it can be cut, at these places, into their frames.
Cut(off, s, q) ==
  /\ off \in [1..(Len(q) + 1) -> Nat]
  /\ off[1] = 0 /\ off[Len(q) + 1] = Len(s)
  /\ \A j, k \in 1..(Len(q) + 1) : j <= k => off[j] <= off[k]
  /\ \A k \in 1..Len(q) : off[k + 1] = off[k] + Len(q[k]) + 2
  /\ \A k \in 1..Len(q) : \A i \in 1..(Len(q[k]) + 2) : s[off[k] + i] = EncodeFrame(q[k])[i]

Carries(s, q) == \E off : Cut(off, s, q)

FramingTyped ==
  /\ wire \in Bytes /\ inbuf \in Bytes /\ sent \in Seq(Bytes) /\ received \in Seq(Bytes)
  /\ \A i \in 1..Len(received) : Len(received[i]) <= MaxFrame

\* What was sent is what has been received and what the stream carries.
Flow ==
  ~spoilt => \E q \in Seq(Bytes) : /\ sent = received \o q /\ Carries(inbuf \o wire, q)
                                   /\ \A i \in 1..Len(q) : Len(q[i]) <= MaxFrame

Ended == rState = "none" /\ carrier = "tls" => ~wOpen

FramingInv == FramingTyped /\ Flow /\ Ended /\ EndAfterAll /\ NeverRefused

\* A frame is the length of the payload, in two digits, and the payload.
LEMMA EncodeFacts ==
  ASSUME NEW p \in Bytes
  PROVE  /\ EncodeFrame(p) \in Bytes /\ Len(EncodeFrame(p)) = Len(p) + 2 /\ Len(p) \in Nat
         /\ EncodeFrame(p)[1] * Base + EncodeFrame(p)[2] = Len(p)
         /\ \A i \in 1..Len(p) : EncodeFrame(p)[i + 2] = p[i]
<1> DEFINE a == Len(p) \div Base
           b == Len(p) % Base
<1>1. Len(p) \in Nat /\ Base \in Nat \ {0}
  BY FramingAssumption DEF Bytes
<1>2. a \in Nat /\ b \in Nat /\ a * Base + b = Len(p)
  BY <1>1
<1>3. EncodeFrame(p) = <<a, b>> \o p
  BY DEF EncodeFrame
<1> HIDE DEF a, b
<1>4. <<a, b>> \in Seq(Nat) /\ Len(<<a, b>>) = 2 /\ <<a, b>>[1] = a /\ <<a, b>>[2] = b
  BY <1>2
<1> DEFINE h == <<a, b>>
<1>5. h \in Seq(Nat) /\ Len(h) = 2 /\ h[1] = a /\ h[2] = b
  BY <1>4
<1> HIDE DEF h
<1>6. /\ h \o p \in Seq(Nat) /\ Len(h \o p) = Len(p) + 2
      /\ \A i \in 1..(Len(h) + Len(p)) : (h \o p)[i] = IF i <= Len(h) THEN h[i] ELSE p[i - Len(h)]
  <2>1. p \in Seq(Nat)
    BY DEF Bytes
  <2>2. h \o p \in Seq(Nat) /\ Len(h \o p) = Len(h) + Len(p)
    BY <1>5, <2>1, ConcatProperties
  <2>3. \A i \in 1..(Len(h) + Len(p)) : (h \o p)[i] = IF i <= Len(h) THEN h[i] ELSE p[i - Len(h)]
    BY <1>5, <2>1, ConcatProperties
  <2> QED
    BY <1>1, <1>5, <2>2, <2>3
<1>7. /\ (h \o p)[1] = a /\ (h \o p)[2] = b
      /\ \A i \in 1..Len(p) : (h \o p)[i + 2] = p[i]
  BY <1>1, <1>5, <1>6
<1> QED
  BY <1>1, <1>2, <1>3, <1>6, <1>7 DEF h, Bytes

\* Nothing is carried by nothing, and by nothing else.
LEMMA CarriesNone ==
  ASSUME NEW s \in Bytes
  PROVE  Carries(s, << >>) <=> s = << >>
<1>1. ASSUME Carries(s, << >>) PROVE s = << >>
  <2>1. Len(s) = 0
    BY <1>1 DEF Carries, Cut
  <2> QED
    BY <2>1 DEF Bytes
<1>2. ASSUME s = << >> PROVE Carries(s, << >>)
  <2> DEFINE off == [k \in 1..1 |-> 0]
  <2>1. Cut(off, s, << >>)
    BY <1>2 DEF Cut
  <2> QED
    BY <2>1 DEF Carries
<1> QED
  BY <1>1, <1>2

\* A frame that is put on the stream.
LEMMA CarriesMore ==
  ASSUME NEW s \in Bytes, NEW q \in Seq(Bytes), NEW p \in Bytes, Carries(s, q)
  PROVE  Carries(s \o EncodeFrame(p), Append(q, p))
<1> DEFINE e == EncodeFrame(p)
           n == Len(q)
           r == Append(q, p)
           t == s \o e
<1>1. /\ e \in Bytes /\ Len(e) = Len(p) + 2 /\ Len(p) \in Nat
  BY EncodeFacts
<1>2. /\ n \in Nat /\ Len(s) \in Nat /\ Len(r) = n + 1 /\ r[n + 1] = p
      /\ \A k \in 1..n : r[k] = q[k] /\ q[k] \in Bytes
  BY DEF Bytes
<1>3. PICK off : Cut(off, s, q)
  BY DEF Carries
<1>4. /\ off \in [1..(n + 1) -> Nat] /\ off[1] = 0 /\ off[n + 1] = Len(s)
      /\ \A j, k \in 1..(n + 1) : j <= k => off[j] <= off[k]
      /\ \A k \in 1..n : off[k + 1] = off[k] + Len(q[k]) + 2
      /\ \A k \in 1..n : \A i \in 1..(Len(q[k]) + 2) : s[off[k] + i] = EncodeFrame(q[k])[i]
  BY <1>3 DEF Cut
<1>5. /\ Len(t) = Len(s) + Len(e)
      /\ \A i \in 1..(Len(s) + Len(e)) : t[i] = IF i <= Len(s) THEN s[i] ELSE e[i - Len(s)]
  BY <1>1, ConcatProperties DEF Bytes
<1> DEFINE up == [k \in 1..(n + 2) |-> IF k <= n + 1 THEN off[k] ELSE Len(s) + Len(p) + 2]
<1>6. /\ \A k \in 1..(n + 1) : up[k] = off[k] /\ off[k] \in Nat
      /\ up[n + 2] = Len(s) + Len(p) + 2
      /\ up \in [1..(n + 2) -> Nat]
  <2> HIDE DEF e, n, r, t
  <2>1. \A k \in 1..(n + 1) : k \in 1..(n + 2) /\ k <= n + 1 /\ off[k] \in Nat
    BY <1>2, <1>4
  <2>2. n + 2 \in 1..(n + 2) /\ ~(n + 2 <= n + 1) /\ Len(s) + Len(p) + 2 \in Nat
    BY <1>1, <1>2
  <2>3. \A k \in 1..(n + 2) : k <= n + 1 => k \in 1..(n + 1)
    BY <1>2
  <2> QED
    BY <2>1, <2>2, <2>3
<1> HIDE DEF e, n, r, t, up
<1>7. \A k \in 1..(n + 1) : off[k] <= Len(s)
  BY <1>2, <1>4
<1>8. \A j, k \in 1..(n + 2) : j <= k => up[j] <= up[k]
  <2> SUFFICES ASSUME NEW j \in 1..(n + 2), NEW k \in 1..(n + 2), j <= k PROVE up[j] <= up[k]
    OBVIOUS
  <2>1. CASE k = n + 2 /\ j = n + 2
    BY <1>1, <1>2, <1>6, <2>1
  <2>2. CASE k = n + 2 /\ j # n + 2
    <3>1. j \in 1..(n + 1)
      BY <1>2, <2>2
    <3>2. up[j] = off[j] /\ off[j] <= Len(s) /\ off[j] \in Nat
      BY <1>6, <1>7, <3>1
    <3> QED
      BY <1>1, <1>2, <1>6, <2>2, <3>2
  <2>3. CASE k # n + 2
    <3>1. j \in 1..(n + 1) /\ k \in 1..(n + 1)
      BY <1>2, <2>3
    <3> QED
      BY <1>4, <1>6, <3>1
  <2> QED
    BY <2>1, <2>2, <2>3
<1>9. \A k \in 1..(n + 1) : up[k + 1] = up[k] + Len(r[k]) + 2
  <2> SUFFICES ASSUME NEW k \in 1..(n + 1) PROVE up[k + 1] = up[k] + Len(r[k]) + 2
    OBVIOUS
  <2>1. CASE k = n + 1
    <3>1. up[k] = Len(s) /\ r[k] = p /\ k + 1 = n + 2
      BY <1>2, <1>4, <1>6, <2>1
    <3> QED
      BY <1>1, <1>2, <1>6, <3>1
  <2>2. CASE k # n + 1
    <3>1. k \in 1..n /\ k + 1 \in 1..(n + 1)
      BY <1>2, <2>2
    <3> QED
      BY <1>2, <1>4, <1>6, <3>1
  <2> QED
    BY <2>1, <2>2
<1>10. ASSUME NEW k \in 1..(n + 1), NEW i \in 1..(Len(r[k]) + 2)
       PROVE  t[up[k] + i] = EncodeFrame(r[k])[i]
  <2>1. CASE k = n + 1
    <3>1. up[k] = Len(s) /\ r[k] = p
      BY <1>2, <1>4, <1>6, <2>1
    <3>2. Len(s) + i \in 1..(Len(s) + Len(e)) /\ ~(Len(s) + i <= Len(s)) /\ (Len(s) + i) - Len(s) = i
      BY <1>1, <1>2, <3>1
    <3>3. t[Len(s) + i] = e[i]
      BY <1>5, <3>2
    <3> QED
      BY <3>1, <3>3 DEF e
  <2>2. CASE k # n + 1
    <3>1. k \in 1..n /\ k + 1 \in 1..(n + 1)
      BY <1>2, <2>2
    <3>2. r[k] = q[k] /\ up[k] = off[k] /\ off[k] \in Nat /\ Len(q[k]) \in Nat
      <4>1. k \in 1..(n + 1)
        BY <1>2, <3>1
      <4>2. r[k] = q[k] /\ up[k] = off[k] /\ off[k] \in Nat
        BY <1>2, <1>6, <3>1, <4>1
      <4>3. q[k] \in Bytes
        BY <1>2, <3>1
      <4>4. Len(q[k]) \in Nat
        BY <4>3 DEF Bytes
      <4> QED
        BY <4>2, <4>4
    <3>3. off[k] + Len(q[k]) + 2 <= Len(s)
      BY <1>4, <1>7, <3>1
    <3>4. i \in 1..(Len(q[k]) + 2) /\ off[k] + i \in 1..(Len(s) + Len(e)) /\ off[k] + i <= Len(s)
      <4>1. i \in 1..(Len(q[k]) + 2)
        BY <3>2
      <4> DEFINE o == off[k]
                 l == Len(q[k])
                 m == Len(s)
                 z == Len(e)
      <4>2. o \in Nat /\ l \in Nat /\ m \in Nat /\ z \in Nat /\ o + l + 2 <= m /\ i \in 1..(l + 2)
        BY <1>1, <1>2, <3>2, <3>3, <4>1
      <4> HIDE DEF o, l, m, z
      <4>3. o + i \in 1..(m + z) /\ o + i <= m
        BY <4>2
      <4> QED
        BY <4>1, <4>3 DEF o, l, m, z
    <3>5. t[off[k] + i] = s[off[k] + i]
      BY <1>5, <3>4
    <3> QED
      BY <1>4, <3>1, <3>2, <3>4, <3>5
  <2> QED
    BY <2>1, <2>2
<1>11. Cut(up, t, r)
  <2>1. Len(r) + 1 = n + 2 /\ Len(r) = n + 1
    BY <1>2
  <2>2. up[1] = 0 /\ up[n + 2] = Len(t)
    BY <1>1, <1>2, <1>4, <1>5, <1>6
  <2> QED
    BY <1>6, <1>8, <1>9, <1>10, <2>1, <2>2 DEF Cut
<1>12. Carries(t, r)
  BY <1>11 DEF Carries
<1> QED
  BY <1>12 DEF t, r, e
\* The first frame of a stream, and the stream after it.
LEMMA CarriesFirst ==
  ASSUME NEW s \in Bytes, NEW q \in Seq(Bytes), q # << >>, Carries(s, q), NEW l, l = Len(Head(q))
  PROVE  /\ l \in Nat /\ l + 2 <= Len(s) /\ s[1] * Base + s[2] = l
         /\ \A i \in 1..l : s[i + 2] = Head(q)[i]
         /\ Carries(SubSeq(s, l + 3, Len(s)), Tail(q))
<1> DEFINE n == Len(q)
           p == Head(q)
           e == EncodeFrame(p)
           r == Tail(q)
           u == SubSeq(s, l + 3, Len(s))
           z == Len(s)
<1>1. /\ n \in Nat \ {0} /\ p = q[1] /\ p \in Bytes /\ r \in Seq(Bytes) /\ Len(r) = n - 1
      /\ \A k \in 1..(n - 1) : r[k] = q[k + 1]
  <2>1. p \in Bytes /\ r \in Seq(Bytes) /\ Len(r) = n - 1 /\ \A k \in 1..Len(r) : r[k] = q[k + 1]
    BY HeadTailProperties
  <2>2. n \in Nat \ {0} /\ p = q[1]
    OBVIOUS
  <2> QED
    BY <2>1, <2>2
<1>2. PICK off : Cut(off, s, q)
  BY DEF Carries
<1>3. /\ off \in [1..(n + 1) -> Nat] /\ off[1] = 0 /\ off[n + 1] = z
      /\ \A j, k \in 1..(n + 1) : j <= k => off[j] <= off[k]
      /\ \A k \in 1..n : off[k + 1] = off[k] + Len(q[k]) + 2
      /\ \A k \in 1..n : \A i \in 1..(Len(q[k]) + 2) : s[off[k] + i] = EncodeFrame(q[k])[i]
  BY <1>2 DEF Cut
<1>4. /\ e \in Bytes /\ Len(e) = l + 2 /\ l \in Nat /\ e[1] * Base + e[2] = l
      /\ \A i \in 1..l : e[i + 2] = p[i]
  BY <1>1, EncodeFacts
<1>5. z \in Nat /\ \A i \in 1..z : s[i] \in Nat
  BY DEF Bytes
<1> HIDE DEF n, p, e, r, u, z
<1>6. off[2] = l + 2 /\ l + 2 <= z
  <2>1. 1 \in 1..n /\ 2 \in 1..(n + 1) /\ n + 1 \in 1..(n + 1) /\ 2 <= n + 1
    BY <1>1
  <2>2. off[1 + 1] = off[1] + Len(q[1]) + 2
    BY <1>3, <2>1
  <2>3. off[2] = l + 2
    BY <1>1, <1>3, <1>4, <2>2 DEF p
  <2>4. off[2] <= off[n + 1]
    BY <1>3, <2>1
  <2> QED
    BY <1>3, <2>3, <2>4
<1>7. \A i \in 1..(l + 2) : s[i] = e[i]
  <2>1. 1 \in 1..n /\ Len(q[1]) = l
    BY <1>1 DEF p
  <2>2. \A i \in 1..(l + 2) : s[off[1] + i] = EncodeFrame(q[1])[i]
    BY <1>3, <2>1
  <2>3. \A i \in 1..(l + 2) : off[1] + i = i
    BY <1>3, <1>4
  <2> QED
    BY <1>1, <2>2, <2>3 DEF e
<1>8. s[1] * Base + s[2] = l /\ \A i \in 1..l : s[i + 2] = p[i]
  <2>1. 1 \in 1..(l + 2) /\ 2 \in 1..(l + 2) /\ \A i \in 1..l : i + 2 \in 1..(l + 2)
    BY <1>4
  <2>2. s[1] = e[1] /\ s[2] = e[2] /\ \A i \in 1..l : s[i + 2] = e[i + 2]
    BY <1>7, <2>1
  <2> QED
    BY <1>4, <2>2
<1>9. /\ Len(u) = z - l - 2
      /\ \A i \in 1..(z - l - 2) : u[i] = s[l + 2 + i]
  <2>1. l + 3 \in Int /\ z \in Int /\ \A i \in (l + 3)..z : s[i] \in Nat
    BY <1>4, <1>5
  <2>2. /\ Len(u) = IF l + 3 <= z THEN z - (l + 3) + 1 ELSE 0
        /\ \A i \in 1..(z - (l + 3) + 1) : u[i] = s[(l + 3) + i - 1]
    <3> DEFINE m == l + 3
    <3>1. m \in Int /\ z \in Int /\ (\A i \in m..z : s[i] \in Nat) /\ u = SubSeq(s, m, z)
      BY <2>1 DEF u, z
    <3> HIDE DEF m
    <3>2. /\ Len(u) = IF m <= z THEN z - m + 1 ELSE 0
          /\ \A i \in 1..(z - m + 1) : u[i] = s[m + i - 1]
      BY <3>1, SubSeqProperties
    <3> QED
      BY <3>2 DEF m
  <2>3. z - (l + 3) + 1 = z - l - 2 /\ \A i \in 1..(z - l - 2) : (l + 3) + i - 1 = l + 2 + i
    BY <1>4, <1>5
  <2> QED
    BY <1>4, <1>5, <1>6, <2>2, <2>3
<1> DEFINE lo == [k \in 1..n |-> off[k + 1] - (l + 2)]
<1>10. /\ \A k \in 1..n : k + 1 \in 1..(n + 1) /\ off[k + 1] \in Nat /\ l + 2 <= off[k + 1]
  <2> SUFFICES ASSUME NEW k \in 1..n
               PROVE  k + 1 \in 1..(n + 1) /\ off[k + 1] \in Nat /\ l + 2 <= off[k + 1]
    OBVIOUS
  <2>1. k + 1 \in 1..(n + 1) /\ 2 \in 1..(n + 1) /\ 2 <= k + 1
    BY <1>1
  <2> QED
    BY <1>3, <1>6, <2>1
<1>11. /\ lo \in [1..n -> Nat] /\ \A k \in 1..n : lo[k] = off[k + 1] - (l + 2)
  BY <1>4, <1>10
<1> HIDE DEF lo
<1>12. lo[1] = 0 /\ lo[n] = Len(u)
  <2>1. 1 \in 1..n /\ n \in 1..n /\ 1 + 1 = 2
    BY <1>1
  <2>2. lo[1] = off[2] - (l + 2) /\ lo[n] = off[n + 1] - (l + 2)
    BY <1>11, <2>1
  <2>3. lo[1] = 0
    BY <1>4, <1>6, <2>2
  <2>4. lo[n] = z - (l + 2) /\ Len(u) = z - l - 2
    BY <1>3, <1>9, <2>2
  <2> QED
    BY <1>4, <1>5, <2>3, <2>4
<1>13. \A j, k \in 1..n : j <= k => lo[j] <= lo[k]
  <2> SUFFICES ASSUME NEW j \in 1..n, NEW k \in 1..n, j <= k PROVE lo[j] <= lo[k]
    OBVIOUS
  <2>1. j + 1 <= k + 1 /\ j + 1 \in 1..(n + 1) /\ k + 1 \in 1..(n + 1)
    BY <1>1
  <2>2. off[j + 1] <= off[k + 1]
    BY <1>3, <2>1
  <2> QED
    BY <1>4, <1>10, <1>11, <2>2
<1>14. \A k \in 1..(n - 1) : lo[k + 1] = lo[k] + Len(r[k]) + 2
  <2> SUFFICES ASSUME NEW k \in 1..(n - 1) PROVE lo[k + 1] = lo[k] + Len(r[k]) + 2
    OBVIOUS
  <2>1. k \in 1..n /\ k + 1 \in 1..n
    BY <1>1
  <2>2. off[(k + 1) + 1] = off[k + 1] + Len(q[k + 1]) + 2
    BY <1>3, <2>1
  <2>3. Len(r[k]) = Len(q[k + 1]) /\ Len(r[k]) \in Nat
    BY <1>1, SMTT(30) DEF Bytes
  <2>4. lo[k + 1] = off[(k + 1) + 1] - (l + 2) /\ lo[k] = off[k + 1] - (l + 2)
    BY <1>11, <2>1
  <2>5. off[k + 1] \in Nat /\ l \in Nat
    BY <1>4, <1>10, <2>1
  <2> QED
    BY <2>2, <2>3, <2>4, <2>5
<1>15. ASSUME NEW k \in 1..(n - 1), NEW i \in 1..(Len(r[k]) + 2)
       PROVE  u[lo[k] + i] = EncodeFrame(r[k])[i]
  <2>1. k \in 1..n /\ k + 1 \in 1..n /\ (k + 1) + 1 \in 1..(n + 1)
    BY <1>1
  <2>2. r[k] = q[k + 1] /\ Len(r[k]) \in Nat
    BY <1>1 DEF Bytes
  <2> DEFINE o == off[k + 1]
             m == Len(r[k])
  <2>3. o \in Nat /\ l + 2 <= o /\ lo[k] = o - (l + 2) /\ o + m + 2 <= z
    <3>1. off[(k + 1) + 1] = o + m + 2
      BY <1>3, <2>1, <2>2
    <3>2. off[(k + 1) + 1] <= off[n + 1]
      <4>1. n + 1 \in 1..(n + 1) /\ (k + 1) + 1 <= n + 1
        BY <1>1
      <4> QED
        BY <1>3, <2>1, <4>1
    <3> QED
      BY <1>3, <1>10, <1>11, <2>1, <3>1, <3>2
  <2>4. s[o + i] = EncodeFrame(r[k])[i]
    BY <1>3, <2>1, <2>2
  <2> HIDE DEF o, m
  <2>5. i \in 1..(m + 2) /\ m \in Nat
    BY <2>2 DEF m
  <2>6. lo[k] + i \in 1..(z - l - 2) /\ l + 2 + (lo[k] + i) = o + i
    <3> DEFINE x == lo[k]
               h == l
    <3>1. /\ x = o - (h + 2) /\ z \in Nat /\ h \in Nat /\ o \in Nat /\ m \in Nat /\ i \in 1..(m + 2)
          /\ h + 2 <= o /\ o + m + 2 <= z
      BY <1>4, <1>5, <2>3, <2>5
    <3> HIDE DEF x, h
    <3>2. x + i \in 1..(z - h - 2) /\ h + 2 + (x + i) = o + i
      BY <3>1
    <3> QED
      BY <3>2 DEF x, h
  <2> QED
    BY <1>9, <2>4, <2>6
<1>16. Cut(lo, u, r)
  <2>1. Len(r) + 1 = n /\ Len(r) = n - 1
    BY <1>1
  <2> QED
    BY <1>11, <1>12, <1>13, <1>14, <1>15, <2>1 DEF Cut
<1>17. Carries(u, r)
  BY <1>16 DEF Carries
<1> QED
  BY <1>4, <1>6, <1>8, <1>17 DEF z, u, r, p

\* What a buffer is decoded to.
LEMMA DecodeFacts ==
  ASSUME NEW buf \in Bytes, NEW l, l = buf[1] * Base + buf[2]
  PROVE  /\ DecodeFrame(buf).is \in {"frame", "partial", "error"}
         /\ DecodeFrame(buf).is = "frame" =>
              /\ l \in Nat /\ l <= MaxFrame /\ l + 2 <= Len(buf)
              /\ DecodeFrame(buf).payload = SubSeq(buf, 3, l + 2)
              /\ DecodeFrame(buf).rest = SubSeq(buf, l + 3, Len(buf))
         /\ DecodeFrame(buf).is # "frame" => DecodeFrame(buf).rest = buf
         /\ DecodeFrame(buf).is = "partial" => Len(buf) < 2 \/ Len(buf) < l + 2
<1>1. Len(buf) \in Nat /\ Base \in Nat /\ MaxFrame \in Nat
  BY FramingAssumption DEF Bytes
<1>2. CASE Len(buf) < 2
  <2>1. DecodeFrame(buf) = [is |-> "partial", rest |-> buf]
    BY <1>2 DEF DecodeFrame, Prefix
  <2> QED
    BY <1>2, <2>1
<1>3. CASE ~(Len(buf) < 2)
  <2>0. buf[1] \in Nat /\ buf[2] \in Nat
    BY <1>1, <1>3 DEF Bytes
  <2>1. l \in Nat
    BY <1>1, <2>0
  <2>2. DecodeFrame(buf) =
          IF l > MaxFrame THEN [is |-> "error", rest |-> buf]
          ELSE IF Len(buf) < 2 + l THEN [is |-> "partial", rest |-> buf]
          ELSE [is |-> "frame", payload |-> SubSeq(buf, 2 + 1, 2 + l),
                rest |-> SubSeq(buf, 2 + l + 1, Len(buf))]
    BY <1>3 DEF DecodeFrame, Prefix
  <2>3. 2 + 1 = 3 /\ 2 + l = l + 2 /\ 2 + l + 1 = l + 3
    BY <2>1
  <2>4. CASE l > MaxFrame
    <3>1. DecodeFrame(buf) = [is |-> "error", rest |-> buf]
      BY <2>2, <2>4
    <3> QED
      BY <3>1
  <2>5. CASE ~(l > MaxFrame) /\ Len(buf) < 2 + l
    <3>1. DecodeFrame(buf) = [is |-> "partial", rest |-> buf]
      BY <2>2, <2>5
    <3> QED
      BY <2>3, <2>5, <3>1
  <2>6. CASE ~(l > MaxFrame) /\ ~(Len(buf) < 2 + l)
    <3>1. DecodeFrame(buf) = [is |-> "frame", payload |-> SubSeq(buf, 3, l + 2),
                              rest |-> SubSeq(buf, l + 3, Len(buf))]
      BY <2>2, <2>3, <2>6
    <3>2. /\ DecodeFrame(buf).is = "frame" /\ DecodeFrame(buf).payload = SubSeq(buf, 3, l + 2)
          /\ DecodeFrame(buf).rest = SubSeq(buf, l + 3, Len(buf))
      <4> DEFINE a == SubSeq(buf, 3, l + 2)
                 b == SubSeq(buf, l + 3, Len(buf))
                 d == DecodeFrame(buf)
      <4>1. d = [is |-> "frame", payload |-> a, rest |-> b]
        BY <3>1
      <4> HIDE DEF a, b, d
      <4>2. d.is = "frame" /\ d.payload = a /\ d.rest = b
        BY <4>1
      <4> QED
        BY <4>2 DEF a, b, d
    <3>3. l <= MaxFrame /\ l + 2 <= Len(buf)
      BY <1>1, <2>1, <2>6
    <3> QED
      BY <2>1, <3>2, <3>3
  <2> QED
    BY <2>4, <2>5, <2>6
<1> QED
  BY <1>2, <1>3
\* A part of a string of bytes.
LEMMA PartFacts ==
  ASSUME NEW s \in Bytes, NEW m \in Nat \ {0}, NEW n \in Nat, n <= Len(s), m <= n + 1
  PROVE  /\ SubSeq(s, m, n) \in Bytes /\ Len(SubSeq(s, m, n)) = n - m + 1
         /\ \A i \in 1..(n - m + 1) : SubSeq(s, m, n)[i] = s[m + i - 1]
<1>1. \A i \in m..n : s[i] \in Nat
  BY DEF Bytes
<1>2. m \in Int /\ n \in Int
  OBVIOUS
<1>3. /\ SubSeq(s, m, n) \in Seq(Nat)
      /\ Len(SubSeq(s, m, n)) = IF m <= n THEN n - m + 1 ELSE 0
      /\ \A i \in 1..(n - m + 1) : SubSeq(s, m, n)[i] = s[m + i - 1]
  BY <1>1, <1>2, SubSeqProperties
<1> QED
  BY <1>3 DEF Bytes

\* A frame that is decoded from the front of a stream is the first one it carries.
LEMMA DecodeFirst ==
  ASSUME NEW b \in Bytes, NEW w \in Bytes, NEW q \in Seq(Bytes), Carries(b \o w, q),
         DecodeFrame(b).is = "frame"
  PROVE  /\ q # << >> /\ DecodeFrame(b).payload = Head(q)
         /\ DecodeFrame(b).rest \in Bytes /\ Carries(DecodeFrame(b).rest \o w, Tail(q))
<1> DEFINE l == b[1] * Base + b[2]
           s == b \o w
           y == Len(b)
           z == Len(w)
<1>1. /\ l \in Nat /\ l + 2 <= y /\ DecodeFrame(b).payload = SubSeq(b, 3, l + 2)
      /\ DecodeFrame(b).rest = SubSeq(b, l + 3, y)
  BY DecodeFacts
<1>2. /\ y \in Nat /\ z \in Nat /\ s \in Bytes /\ Len(s) = y + z
      /\ \A i \in 1..(y + z) : s[i] = IF i <= y THEN b[i] ELSE w[i - y]
  BY ConcatProperties DEF Bytes
<1>3. q # << >>
  <2> SUFFICES ASSUME q = << >> PROVE FALSE
    OBVIOUS
  <2>1. s = << >>
    BY <1>2, CarriesNone
  <2>2. Len(s) = 0
    BY <2>1
  <2> HIDE DEF s, l
  <2> QED
    BY <1>1, <1>2, <2>2
<1> DEFINE m == Len(Head(q))
<1>4. /\ m \in Nat /\ m + 2 <= Len(s) /\ s[1] * Base + s[2] = m
      /\ \A i \in 1..m : s[i + 2] = Head(q)[i]
      /\ Carries(SubSeq(s, m + 3, Len(s)), Tail(q))
  BY <1>2, <1>3, CarriesFirst
<1>5. m = l
  <2>1. s[1] = b[1] /\ s[2] = b[2]
    <3>1. 1 \in 1..(y + z) /\ 2 \in 1..(y + z) /\ 1 <= y /\ 2 <= y
      BY <1>1, <1>2
    <3> QED
      BY <1>2, <3>1
  <2> QED
    BY <1>4, <2>1
<1>6. Head(q) \in Bytes
  BY <1>3, HeadTailProperties
<1> HIDE DEF l, s, y, z, m
<1>7. DecodeFrame(b).payload = Head(q)
  <2> DEFINE p == SubSeq(b, 3, l + 2)
  <2>1. p \in Bytes /\ Len(p) = (l + 2) - 3 + 1 /\ \A i \in 1..((l + 2) - 3 + 1) : p[i] = b[3 + i - 1]
    <3>1. 3 \in Nat \ {0} /\ l + 2 \in Nat /\ l + 2 <= Len(b) /\ 3 <= (l + 2) + 1
      BY <1>1 DEF y
    <3> QED
      BY <3>1, PartFacts
  <2>2. (l + 2) - 3 + 1 = l
    BY <1>1
  <2> HIDE DEF p
  <2>3. \A i \in 1..l : p[i] = Head(q)[i]
    <3> SUFFICES ASSUME NEW i \in 1..l PROVE p[i] = Head(q)[i]
      OBVIOUS
    <3>1. 3 + i - 1 = i + 2 /\ i + 2 \in 1..(y + z) /\ i + 2 <= y
      BY <1>1, <1>2
    <3>2. p[i] = b[i + 2] /\ s[i + 2] = b[i + 2]
      BY <1>2, <2>1, <2>2, <3>1
    <3> QED
      BY <1>4, <1>5, <3>2
  <2>4. Len(p) = Len(Head(q)) /\ Len(p) = l
    BY <1>5, <2>1, <2>2 DEF m
  <2>5. p = Head(q)
    BY <1>6, <2>1, <2>3, <2>4, SeqEqual DEF Bytes
  <2> QED
    BY <1>1, <2>5 DEF p
<1> DEFINE rest == SubSeq(b, l + 3, y)
           u == SubSeq(s, l + 3, Len(s))
<1>8. /\ rest \in Bytes /\ Len(rest) = y - (l + 3) + 1
      /\ \A i \in 1..(y - (l + 3) + 1) : rest[i] = b[(l + 3) + i - 1]
  <2>1. l + 3 \in Nat \ {0} /\ y \in Nat /\ y <= Len(b) /\ l + 3 <= y + 1
    BY <1>1, <1>2 DEF y
  <2> QED
    BY <2>1, PartFacts
<1>9. /\ u \in Bytes /\ Len(u) = (y + z) - (l + 3) + 1
      /\ \A i \in 1..((y + z) - (l + 3) + 1) : u[i] = s[(l + 3) + i - 1]
  <2>1. l + 3 \in Nat \ {0} /\ y + z \in Nat /\ y + z <= Len(s) /\ l + 3 <= (y + z) + 1 /\ Len(s) = y + z
    BY <1>1, <1>2
  <2> DEFINE a == l + 3
             d == y + z
             t == SubSeq(s, a, d)
  <2>2. a \in Nat \ {0} /\ d \in Nat /\ d <= Len(s) /\ a <= d + 1
    BY <2>1
  <2>3. s \in Bytes
    BY <1>2
  <2>4. u = t
    BY <2>1
  <2> HIDE DEF a, d
  <2>5. t \in Bytes /\ Len(t) = d - a + 1 /\ \A i \in 1..(d - a + 1) : t[i] = s[a + i - 1]
    BY <2>2, <2>3, PartFacts
  <2> HIDE DEF t, u
  <2> QED
    BY <2>4, <2>5 DEF a, d
<1> HIDE DEF rest, u
<1>10. /\ rest \o w \in Bytes /\ Len(rest \o w) = Len(rest) + z
       /\ \A i \in 1..(Len(rest) + z) : (rest \o w)[i] = IF i <= Len(rest) THEN rest[i] ELSE w[i - Len(rest)]
  BY <1>8, ConcatProperties DEF Bytes, z
<1>11. rest \o w = u
  <2> DEFINE v == rest \o w
             k == y - l - 2
  <2>1. k \in Nat /\ Len(rest) = k /\ Len(v) = k + z /\ Len(u) = k + z
    BY <1>1, <1>2, <1>8, <1>9, <1>10
  <2>2. \A i \in 1..(k + z) : u[i] = s[l + 2 + i]
    <3>1. (y + z) - (l + 3) + 1 = k + z /\ \A i \in 1..(k + z) : (l + 3) + i - 1 = l + 2 + i
      BY <1>1, <1>2
    <3> QED
      BY <1>9, <3>1
  <2>3. \A i \in 1..k : rest[i] = b[l + 2 + i]
    <3>1. y - (l + 3) + 1 = k /\ \A i \in 1..k : (l + 3) + i - 1 = l + 2 + i
      BY <1>1, <1>2
    <3> QED
      BY <1>8, <3>1
  <2>4. \A i \in 1..(k + z) : v[i] = IF i <= k THEN rest[i] ELSE w[i - k]
    BY <1>10, <2>1
  <2>5. ASSUME NEW i \in 1..(k + z) PROVE v[i] = u[i]
    <3>1. l + 2 + i \in 1..(y + z)
      BY <1>1, <1>2
    <3>2. CASE i <= k
      <4>1. i \in 1..k /\ l + 2 + i <= y
        BY <1>1, <1>2, <2>1, <3>2
      <4> QED
        BY <1>2, <2>2, <2>3, <2>4, <3>1, <3>2, <4>1
    <3>3. CASE ~(i <= k)
      <4>1. ~(l + 2 + i <= y) /\ (l + 2 + i) - y = i - k
        BY <1>1, <1>2, <2>1, <3>3
      <4>2. s[l + 2 + i] = w[i - k]
        BY <1>2, <3>1, <4>1
      <4> QED
        BY <2>2, <2>4, <3>3, <4>2
    <3> QED
      BY <3>2, <3>3
  <2>6. v \in Seq(Nat) /\ u \in Seq(Nat) /\ Len(v) = Len(u) /\ \A i \in 1..Len(v) : v[i] = u[i]
    BY <1>9, <1>10, <2>1, <2>5 DEF Bytes
  <2> HIDE DEF v
  <2>7. v = u
    BY <2>6, SeqEqual
  <2> QED
    BY <2>7 DEF v
<1>12. Carries(u, Tail(q))
  BY <1>4, <1>5 DEF u
<1> QED
  BY <1>1, <1>3, <1>7, <1>8, <1>11, <1>12 DEF rest

\* A stream that is no whole frame carries nothing.
LEMMA DecodeNone ==
  ASSUME NEW b \in Bytes, NEW q \in Seq(Bytes), Carries(b, q), DecodeFrame(b).is = "partial"
  PROVE  q = << >>
<1> SUFFICES ASSUME q # << >> PROVE FALSE
  OBVIOUS
<1> DEFINE l == b[1] * Base + b[2]
           m == Len(Head(q))
<1>1. Len(b) < 2 \/ Len(b) < l + 2
  BY DecodeFacts
<1>2. m \in Nat /\ m + 2 <= Len(b) /\ l = m
  BY CarriesFirst
<1>3. Len(b) \in Nat
  BY DEF Bytes
<1> HIDE DEF l, m
<1> QED
  BY <1>1, <1>2, <1>3

\* The first of what is to come, moved to what has come.
LEMMA Shift ==
  ASSUME NEW S, NEW a \in Seq(S), NEW q \in Seq(S), q # << >>
  PROVE  a \o q = Append(a, Head(q)) \o Tail(q)
<1> DEFINE h == Head(q)
           r == Tail(q)
           c == Append(a, h)
<1>1. h \in S /\ h = q[1] /\ r \in Seq(S) /\ Len(r) = Len(q) - 1 /\ \A i \in 1..Len(r) : r[i] = q[i + 1]
  BY HeadTailProperties
<1>2. /\ c \in Seq(S) /\ Len(c) = Len(a) + 1 /\ \A i \in 1..Len(a) : c[i] = a[i]
      /\ c[Len(a) + 1] = h
  BY <1>1, AppendProperties
<1> HIDE DEF h, r, c
<1>3. Len(q) \in Nat \ {0} /\ Len(a) \in Nat
  OBVIOUS
<1>4. /\ a \o q \in Seq(S) /\ Len(a \o q) = Len(a) + Len(q)
      /\ \A i \in 1..(Len(a) + Len(q)) : (a \o q)[i] = IF i <= Len(a) THEN a[i] ELSE q[i - Len(a)]
  BY ConcatProperties
<1>5. /\ c \o r \in Seq(S) /\ Len(c \o r) = Len(a) + Len(q)
      /\ \A i \in 1..(Len(a) + Len(q)) :
           (c \o r)[i] = IF i <= Len(a) + 1 THEN c[i] ELSE r[i - (Len(a) + 1)]
  <2>1. /\ c \o r \in Seq(S) /\ Len(c \o r) = Len(c) + Len(r)
        /\ \A i \in 1..(Len(c) + Len(r)) : (c \o r)[i] = IF i <= Len(c) THEN c[i] ELSE r[i - Len(c)]
    BY <1>1, <1>2, ConcatProperties
  <2>2. Len(c) + Len(r) = Len(a) + Len(q)
    BY <1>1, <1>2, <1>3
  <2> QED
    BY <1>2, <2>1, <2>2
<1>6. ASSUME NEW i \in 1..(Len(a) + Len(q)) PROVE (a \o q)[i] = (c \o r)[i]
  <2>1. CASE i <= Len(a)
    <3>1. i \in 1..Len(a) /\ i <= Len(a) + 1
      BY <1>3, <2>1
    <3> QED
      BY <1>2, <1>4, <1>5, <2>1, <3>1
  <2>2. CASE i = Len(a) + 1
    <3>1. ~(i <= Len(a)) /\ i - Len(a) = 1 /\ i <= Len(a) + 1
      BY <1>3, <2>2
    <3> QED
      BY <1>1, <1>2, <1>4, <1>5, <2>2, <3>1
  <2>3. CASE i > Len(a) + 1
    <3>1. ~(i <= Len(a)) /\ ~(i <= Len(a) + 1) /\ i - (Len(a) + 1) \in 1..Len(r)
          /\ (i - (Len(a) + 1)) + 1 = i - Len(a)
      BY <1>1, <1>3, <2>3
    <3>2. r[i - (Len(a) + 1)] = q[i - Len(a)]
      BY <1>1, <3>1
    <3> QED
      BY <1>4, <1>5, <3>1, <3>2
  <2>4. i <= Len(a) \/ i = Len(a) + 1 \/ i > Len(a) + 1
    BY <1>3
  <2> QED
    BY <2>1, <2>2, <2>3, <2>4
<1>7. a \o q = c \o r
  BY <1>4, <1>5, <1>6, SeqEqual
<1> QED
  BY <1>7 DEF h, r, c

\* A payload that is sent is the last of what is to come.
LEMMA SentLast ==
  ASSUME NEW a \in Seq(Bytes), NEW q \in Seq(Bytes), NEW p \in Bytes
  PROVE  Append(a \o q, p) = a \o Append(q, p)
<1>1. a \o q \in Seq(Bytes) /\ <<p>> \in Seq(Bytes)
  BY ConcatProperties
<1>2. Append(a \o q, p) = (a \o q) \o <<p>> /\ Append(q, p) = q \o <<p>>
  BY <1>1, AppendIsConcat
<1> QED
  BY <1>1, <1>2, ConcatAssociative

\* A stream of frames that are not too long is not refused.
LEMMA DecodeError ==
  ASSUME NEW b \in Bytes, NEW w \in Bytes, NEW q \in Seq(Bytes), Carries(b \o w, q),
         \A i \in 1..Len(q) : Len(q[i]) <= MaxFrame
  PROVE  DecodeFrame(b).is # "error"
<1> SUFFICES ASSUME DecodeFrame(b).is = "error" PROVE FALSE
  OBVIOUS
<1> DEFINE l == b[1] * Base + b[2]
           s == b \o w
           y == Len(b)
           z == Len(w)
<1>1. y >= 2 /\ l > MaxFrame
  BY DEF DecodeFrame, Prefix
<1>2. /\ y \in Nat /\ z \in Nat /\ s \in Bytes /\ Len(s) = y + z
      /\ \A i \in 1..(y + z) : s[i] = IF i <= y THEN b[i] ELSE w[i - y]
  BY ConcatProperties DEF Bytes
<1>3. q # << >>
  <2> SUFFICES ASSUME q = << >> PROVE FALSE
    OBVIOUS
  <2>1. s = << >>
    BY <1>2, CarriesNone
  <2>2. Len(s) = 0
    BY <2>1
  <2> HIDE DEF s, l
  <2> QED
    BY <1>1, <1>2, <2>2
<1>4. s[1] * Base + s[2] = Len(Head(q)) /\ Len(Head(q)) \in Nat
  BY <1>2, <1>3, CarriesFirst
<1>5. s[1] = b[1] /\ s[2] = b[2]
  <2>1. 1 \in 1..(y + z) /\ 2 \in 1..(y + z) /\ 1 <= y /\ 2 <= y
    BY <1>1, <1>2
  <2> QED
    BY <1>2, <2>1
<1>6. Len(Head(q)) <= MaxFrame
  BY <1>3
<1>7. l = Len(Head(q)) /\ MaxFrame \in Nat
  BY <1>4, <1>5, FramingAssumption
<1> HIDE DEF l, s
<1> QED
  BY <1>1, <1>4, <1>6, <1>7

\* What reading one frame off the front of the stream leaves.
LEMMA Delivered ==
  ASSUME FramingInv, NEW b \in Bytes, NEW w \in Bytes, b \o w = inbuf \o wire,
         wire' = w, inbuf' = DecodeFrame(b).rest, sent' = sent, spoilt' = spoilt,
         received' = IF DecodeFrame(b).is = "frame"
                     THEN Append(received, DecodeFrame(b).payload) ELSE received,
         rState' = "error" => DecodeFrame(b).is = "error"
  PROVE  FramingTyped' /\ Flow' /\ NeverRefused'
<1> DEFINE d == DecodeFrame(b)
           l == b[1] * Base + b[2]
<1>1. /\ d.is \in {"frame", "partial", "error"}
      /\ d.is = "frame" =>
           /\ l \in Nat /\ l <= MaxFrame /\ l + 2 <= Len(b)
           /\ d.payload = SubSeq(b, 3, l + 2) /\ d.rest = SubSeq(b, l + 3, Len(b))
      /\ d.is # "frame" => d.rest = b
  BY DecodeFacts
<1>2. inbuf' = d.rest /\ (rState' = "error" => d.is = "error")
      /\ received' = IF d.is = "frame" THEN Append(received, d.payload) ELSE received
  OBVIOUS
<1>3. /\ wire \in Bytes /\ inbuf \in Bytes /\ sent \in Seq(Bytes) /\ received \in Seq(Bytes)
      /\ \A i \in 1..Len(received) : Len(received[i]) <= MaxFrame
  BY DEF FramingInv, FramingTyped
<1>4. ASSUME ~spoilt, NEW q \in Seq(Bytes), Carries(inbuf \o wire, q)
      PROVE  d.is = "frame" => /\ q # << >> /\ d.payload = Head(q) /\ d.rest \in Bytes
                               /\ Carries(d.rest \o w, Tail(q))
  <2>1. Carries(b \o w, q)
    BY <1>4
  <2> QED
    BY <2>1, DecodeFirst
<1>5. NeverRefused'
  <2> SUFFICES ASSUME d.is = "error", ~spoilt PROVE FALSE
    BY <1>2 DEF NeverRefused
  <2>1. PICK q \in Seq(Bytes) : /\ Carries(inbuf \o wire, q)
                                /\ \A i \in 1..Len(q) : Len(q[i]) <= MaxFrame
    BY DEF FramingInv, Flow
  <2>2. Carries(b \o w, q)
    BY <2>1
  <2> QED
    BY <2>1, <2>2, DecodeError
<1> HIDE DEF d, l
<1>6. CASE d.is # "frame"
  <2>1. received' = received /\ inbuf' = b /\ inbuf' \o wire' = inbuf \o wire
    BY <1>1, <1>2, <1>6
  <2>2. FramingTyped'
    BY <1>3, <2>1 DEF FramingTyped
  <2>3. Flow'
    BY <2>1 DEF FramingInv, Flow
  <2> QED
    BY <1>5, <2>2, <2>3
<1>7. CASE d.is = "frame"
  <2>1. received' = Append(received, d.payload)
    BY <1>2, <1>7
  <2>2. d.payload \in Bytes /\ Len(d.payload) <= MaxFrame
    <3>1. 3 \in Nat \ {0} /\ l + 2 \in Nat /\ l + 2 <= Len(b) /\ 3 <= (l + 2) + 1
      BY <1>1, <1>7
    <3>2. SubSeq(b, 3, l + 2) \in Bytes /\ Len(SubSeq(b, 3, l + 2)) = (l + 2) - 3 + 1
      BY <3>1, PartFacts
    <3>3. (l + 2) - 3 + 1 = l
      BY <1>1, <1>7
    <3> QED
      BY <1>1, <1>7, <3>2, <3>3
  <2>3. d.rest \in Bytes
    <3>1. l + 3 \in Nat \ {0} /\ Len(b) \in Nat /\ Len(b) <= Len(b) /\ l + 3 <= Len(b) + 1
      BY <1>1, <1>7, SMTT(30) DEF Bytes
    <3> QED
      BY <1>1, <1>7, <3>1, PartFacts
  <2>4. /\ received' \in Seq(Bytes) /\ Len(received') = Len(received) + 1
        /\ \A i \in 1..Len(received) : received'[i] = received[i]
        /\ received'[Len(received) + 1] = d.payload
    BY <1>3, <2>1, <2>2, AppendProperties
  <2>5. FramingTyped'
    <3>1. \A i \in 1..Len(received') : Len(received'[i]) <= MaxFrame
      <4> SUFFICES ASSUME NEW i \in 1..Len(received') PROVE Len(received'[i]) <= MaxFrame
        OBVIOUS
      <4>1. i \in 1..Len(received) \/ i = Len(received) + 1
        BY <1>3, <2>4
      <4> QED
        BY <1>3, <2>2, <2>4, <4>1
    <3> QED
      BY <1>2, <1>3, <2>3, <2>4, <3>1 DEF FramingTyped
  <2>6. Flow'
    <3> SUFFICES ASSUME ~spoilt
                 PROVE  \E r \in Seq(Bytes) :
                          /\ sent' = received' \o r /\ Carries(inbuf' \o wire', r)
                          /\ \A i \in 1..Len(r) : Len(r[i]) <= MaxFrame
      BY DEF Flow
    <3>1. PICK q \in Seq(Bytes) : /\ sent = received \o q /\ Carries(inbuf \o wire, q)
                                  /\ \A i \in 1..Len(q) : Len(q[i]) <= MaxFrame
      BY DEF FramingInv, Flow
    <3>2. q # << >> /\ d.payload = Head(q) /\ Carries(d.rest \o w, Tail(q))
      BY <1>4, <1>7, <3>1
    <3>3. sent' = received' \o Tail(q)
      BY <1>3, <2>1, <3>1, <3>2, Shift, SMTT(30)
    <3>4. /\ Tail(q) \in Seq(Bytes) /\ Len(Tail(q)) = Len(q) - 1 /\ Len(q) \in Nat
          /\ \A i \in 1..Len(Tail(q)) : Tail(q)[i] = q[i + 1]
      BY <3>2, HeadTailProperties
    <3>5. \A i \in 1..Len(Tail(q)) : Len(Tail(q)[i]) <= MaxFrame
      <4> SUFFICES ASSUME NEW i \in 1..Len(Tail(q)) PROVE Len(Tail(q)[i]) <= MaxFrame
        OBVIOUS
      <4>1. i + 1 \in 1..Len(q)
        BY <3>4
      <4> QED
        BY <3>1, <3>4, <4>1
    <3> QED
      BY <1>2, <3>2, <3>3, <3>4, <3>5
  <2> QED
    BY <1>5, <2>5, <2>6
<1> QED
  BY <1>6, <1>7

\* Payloads and noise are bytes.
LEMMA Sendable == Payloads \subseteq Bytes /\ Noise \subseteq Bytes
<1>1. Base \in Nat \ {0}
  BY FramingAssumption
<1>2. 0..(Base - 1) \subseteq Nat
  BY <1>1
<1>3. ASSUME NEW s \in Seq(0..(Base - 1)) PROVE s \in Bytes
  BY <1>2, SeqMonotonic DEF Bytes
<1> QED
  BY <1>3, FramingAssumption

\* A frame that is sent is the last one the stream carries.
LEMMA SendStep ==
  ASSUME FramingInv, SendFrame
  PROVE  FramingInv'
<1>1. PICK p \in Payloads : /\ Len(p) <= MaxFrame /\ wire' = wire \o EncodeFrame(p)
                            /\ sent' = Append(sent, p)
  BY DEF SendFrame
<1>2. UNCHANGED <<inbuf, received, carrier, wOpen, rState, spoilt>> /\ wOpen
  BY DEF SendFrame
<1>3. /\ wire \in Bytes /\ inbuf \in Bytes /\ sent \in Seq(Bytes) /\ received \in Seq(Bytes)
      /\ \A i \in 1..Len(received) : Len(received[i]) <= MaxFrame
  BY DEF FramingInv, FramingTyped
<1>4. p \in Bytes
  BY <1>1, Sendable
<1>5. EncodeFrame(p) \in Bytes
  BY <1>4, EncodeFacts
<1>6. wire' \in Bytes /\ sent' \in Seq(Bytes)
  BY <1>1, <1>3, <1>4, <1>5, ConcatProperties, AppendProperties DEF Bytes
<1>7. FramingTyped'
  BY <1>2, <1>3, <1>6 DEF FramingTyped
<1>8. Flow'
  <2> SUFFICES ASSUME ~spoilt
               PROVE  \E r \in Seq(Bytes) :
                        /\ sent' = received' \o r /\ Carries(inbuf' \o wire', r)
                        /\ \A i \in 1..Len(r) : Len(r[i]) <= MaxFrame
    BY <1>2 DEF Flow
  <2>1. PICK q \in Seq(Bytes) : /\ sent = received \o q /\ Carries(inbuf \o wire, q)
                                /\ \A i \in 1..Len(q) : Len(q[i]) <= MaxFrame
    BY DEF FramingInv, Flow
  <2> DEFINE r == Append(q, p)
             e == EncodeFrame(p)
  <2>2. sent' = received' \o r
    <3>0. received \in Seq(Bytes) /\ q \in Seq(Bytes) /\ p \in Bytes
      BY <1>3, <1>4
    <3>1. Append(received \o q, p) = received \o Append(q, p)
      BY <3>0, SentLast
    <3> QED
      BY <1>1, <1>2, <2>1, <3>1
  <2>3. inbuf \o wire \in Bytes
    BY <1>3, ConcatProperties DEF Bytes
  <2>4. Carries((inbuf \o wire) \o e, r)
    BY <1>4, <2>1, <2>3, CarriesMore
  <2>5. (inbuf \o wire) \o e = inbuf' \o wire'
    <3>1. inbuf \in Seq(Nat) /\ wire \in Seq(Nat) /\ e \in Seq(Nat) /\ wire' = wire \o e /\ inbuf' = inbuf
      BY <1>1, <1>2, <1>3, <1>5 DEF Bytes
    <3> HIDE DEF e
    <3>2. (inbuf \o wire) \o e = inbuf \o (wire \o e)
      BY <3>1, ConcatAssociative, SMTT(30)
    <3> QED
      BY <3>1, <3>2
  <2>6. /\ r \in Seq(Bytes) /\ Len(r) = Len(q) + 1 /\ Len(q) \in Nat /\ r[Len(q) + 1] = p
        /\ \A i \in 1..Len(q) : r[i] = q[i]
    BY <1>4, AppendProperties
  <2> HIDE DEF r, e
  <2>7. \A i \in 1..Len(r) : Len(r[i]) <= MaxFrame
    <3> SUFFICES ASSUME NEW i \in 1..Len(r) PROVE Len(r[i]) <= MaxFrame
      OBVIOUS
    <3>1. i \in 1..Len(q) \/ i = Len(q) + 1
      BY <2>6
    <3> QED
      BY <1>1, <2>1, <2>6, <3>1
  <2> QED
    BY <2>2, <2>4, <2>5, <2>6, <2>7
<1> QED
  BY <1>2, <1>7, <1>8 DEF FramingInv, Ended, EndAfterAll, NeverRefused

\* The bytes a read takes are the bytes the stream gives up.
LEMMA ChunkStep ==
  ASSUME FramingInv, ReadChunk
  PROVE  FramingInv'
<1>1. PICK n \in 1..Len(wire) : /\ inbuf' = inbuf \o SubSeq(wire, 1, n)
                                /\ wire' = SubSeq(wire, n + 1, Len(wire))
  BY DEF ReadChunk
<1>2. UNCHANGED <<sent, received, carrier, wOpen, spoilt>> /\ rState' = "open"
  BY DEF ReadChunk
<1>3. /\ wire \in Bytes /\ inbuf \in Bytes /\ sent \in Seq(Bytes) /\ received \in Seq(Bytes)
      /\ \A i \in 1..Len(received) : Len(received[i]) <= MaxFrame
  BY DEF FramingInv, FramingTyped
<1> DEFINE a == SubSeq(wire, 1, n)
           c == SubSeq(wire, n + 1, Len(wire))
<1>4. a \in Bytes /\ c \in Bytes
  <2>1. /\ 1 \in Nat \ {0} /\ n \in Nat /\ n <= Len(wire) /\ 1 <= n + 1
        /\ n + 1 \in Nat \ {0} /\ Len(wire) \in Nat /\ Len(wire) <= Len(wire) /\ n + 1 <= Len(wire) + 1
    BY <1>3 DEF Bytes
  <2> QED
    BY <1>3, <2>1, PartFacts
<1>5. a \o c = wire
  <2>1. wire \in Seq(Nat) /\ Len(wire) \in Nat
    BY <1>3 DEF Bytes
  <2>2. /\ 1 \in 1..(Len(wire) + 1) /\ n \in (1 - 1)..Len(wire) /\ Len(wire) \in n..Len(wire)
    BY <2>1
  <2>3. a \o c = SubSeq(wire, 1, Len(wire))
    BY <2>1, <2>2, ConcatAdjacentSubSeq
  <2> QED
    BY <2>1, <2>3, SubSeqFull
<1> HIDE DEF a, c
<1>6. inbuf' = inbuf \o a /\ wire' = c
  BY <1>1 DEF a, c
<1>7. inbuf' \in Bytes /\ inbuf' \o wire' = inbuf \o wire
  <2>1. inbuf \in Seq(Nat) /\ a \in Seq(Nat) /\ c \in Seq(Nat)
    BY <1>3, <1>4 DEF Bytes
  <2>2. inbuf \o a \in Seq(Nat)
    BY <2>1, ConcatProperties
  <2>3. (inbuf \o a) \o c = inbuf \o (a \o c)
    BY <2>1, ConcatAssociative, SMTT(30)
  <2> QED
    BY <1>5, <1>6, <2>2, <2>3 DEF Bytes
<1>8. FramingTyped'
  BY <1>2, <1>3, <1>4, <1>6, <1>7 DEF FramingTyped
<1>9. Flow'
  BY <1>2, <1>7 DEF FramingInv, Flow
<1> QED
  BY <1>2, <1>8, <1>9 DEF FramingInv, Ended, EndAfterAll, NeverRefused

\* What holds of the stream: what was sent is what was received and the frames that
\* the bytes between the two ends can be cut into.
THEOREM FramingInvariance == FramingSpec => []FramingInv
<1>1. FramingInit => FramingInv
  <2> SUFFICES ASSUME FramingInit PROVE FramingInv
    OBVIOUS
  <2>1. << >> \in Bytes /\ << >> \in Seq(Bytes) /\ << >> \o << >> = << >> /\ Len(<< >>) = 0
    BY EmptySeq, ConcatEmptySeq DEF Bytes
  <2>2. FramingTyped
    BY <2>1 DEF FramingInit, FramingTyped
  <2>3. Carries(<< >>, << >>)
    BY <2>1, CarriesNone
  <2>4. Flow
    <3>1. sent = received \o << >> /\ Carries(inbuf \o wire, << >>)
      BY <2>1, <2>3 DEF FramingInit
    <3>2. \A i \in 1..Len(<< >>) : Len(<< >>[i]) <= MaxFrame
      BY <2>1
    <3> QED
      BY <2>1, <3>1, <3>2 DEF Flow
  <2> QED
    BY <2>2, <2>4 DEF FramingInit, FramingInv, Ended, EndAfterAll, NeverRefused
<1>2. FramingInv /\ [FramingNext]_frameVars => FramingInv'
  <2> SUFFICES ASSUME FramingInv, [FramingNext]_frameVars PROVE FramingInv'
    OBVIOUS
  <2>0. /\ wire \in Bytes /\ inbuf \in Bytes /\ sent \in Seq(Bytes) /\ received \in Seq(Bytes)
        /\ \A i \in 1..Len(received) : Len(received[i]) <= MaxFrame
    BY DEF FramingInv, FramingTyped
  <2>1. CASE SendFrame
    BY <2>1, SendStep
  <2>2. CASE SendRefused
    <3>1. UNCHANGED frameVars
      BY <2>2 DEF SendRefused, frameVars
    <3> QED
      BY <3>1 DEF FramingInv, FramingTyped, Flow, Ended, EndAfterAll, NeverRefused, frameVars
  <2>3. CASE PutNoise
    <3>1. UNCHANGED <<inbuf, sent, received, carrier, wOpen, rState>> /\ spoilt' = TRUE
      BY <2>3 DEF PutNoise
    <3>2. PICK n \in Noise : wire' = wire \o n
      BY <2>3 DEF PutNoise
    <3>3. n \in Bytes
      BY Sendable
    <3>4. wire' \in Bytes
      BY <2>0, <3>2, <3>3, ConcatProperties DEF Bytes
    <3>5. FramingTyped'
      BY <2>0, <3>1, <3>4 DEF FramingTyped
    <3> QED
      BY <3>1, <3>5 DEF FramingInv, Flow, Ended, EndAfterAll, NeverRefused
  <2>4. CASE CloseWriter
    <3>1. UNCHANGED <<wire, inbuf, sent, received, carrier, rState, spoilt>> /\ wOpen /\ wOpen' = FALSE
      BY <2>4 DEF CloseWriter
    <3> QED
      BY <3>1 DEF FramingInv, FramingTyped, Flow, Ended, EndAfterAll, NeverRefused
  <2>5. CASE DropReader
    <3>1. UNCHANGED <<wire, inbuf, sent, received, carrier, wOpen, spoilt>> /\ rState' = "gone"
      BY <2>5 DEF DropReader
    <3> QED
      BY <3>1 DEF FramingInv, FramingTyped, Flow, Ended, EndAfterAll, NeverRefused
  <2>6. CASE RecvDuplex
    <3> DEFINE b == inbuf \o wire
               d == DecodeFrame(b)
               x == IF d.is = "partial" THEN [d EXCEPT !.is = "none"] ELSE d
    <3>1. /\ carrier = "duplex" /\ wire' = << >> /\ UNCHANGED <<sent, carrier, wOpen, spoilt>>
          /\ inbuf' = x.rest /\ rState' = x.is
          /\ received' = IF x.is = "frame" THEN Append(received, x.payload) ELSE received
      BY <2>6 DEF RecvDuplex, Deliver
    <3>2. b \in Bytes /\ << >> \in Bytes /\ b \o << >> = b
      BY <2>0, ConcatProperties, ConcatEmptySeq, EmptySeq DEF Bytes
    <3>3. x.rest = d.rest /\ (x.is = "frame" <=> d.is = "frame") /\ (x.is = "error" => d.is = "error")
          /\ (d.is = "frame" => x = d)
      <4>1. d.is = "partial" => d = [is |-> "partial", rest |-> b]
        BY DEF DecodeFrame, Prefix
      <4> HIDE DEF d, b
      <4>2. CASE d.is = "partial"
        <5>1. x = [is |-> "none", rest |-> b] /\ d = [is |-> "partial", rest |-> b]
          BY <4>1, <4>2
        <5> HIDE DEF x
        <5> QED
          BY <5>1
      <4>3. CASE d.is # "partial"
        <5>1. x = d
          BY <4>3
        <5> QED
          BY <5>1
      <4> QED
        BY <4>2, <4>3
    <3>4. received' = IF d.is = "frame" THEN Append(received, d.payload) ELSE received
      BY <3>1, <3>3
    <3>5. inbuf' = d.rest /\ (rState' = "error" => d.is = "error")
      BY <3>1, <3>3
    <3> HIDE DEF x
    <3>6. FramingTyped' /\ Flow' /\ NeverRefused'
      BY <3>1, <3>2, <3>4, <3>5, Delivered
    <3>7. Ended' /\ EndAfterAll'
      BY <3>1 DEF Ended, EndAfterAll
    <3> QED
      BY <3>6, <3>7 DEF FramingInv
  <2>7. CASE RecvBuffered
    <3> DEFINE d == DecodeFrame(inbuf)
    <3>1. /\ carrier = "tls" /\ d.is # "partial" /\ UNCHANGED <<wire, sent, carrier, wOpen, spoilt>>
          /\ inbuf' = d.rest /\ rState' = d.is
          /\ received' = IF d.is = "frame" THEN Append(received, d.payload) ELSE received
      BY <2>7 DEF RecvBuffered, Deliver
    <3>2. FramingTyped' /\ Flow' /\ NeverRefused'
      BY <2>0, <3>1, Delivered
    <3>3. d.is \in {"frame", "partial", "error"}
      BY <2>0, DecodeFacts
    <3> HIDE DEF d
    <3>4. Ended' /\ EndAfterAll'
      BY <3>1, <3>3 DEF Ended, EndAfterAll
    <3> QED
      BY <3>2, <3>4 DEF FramingInv
  <2>8. CASE ReadChunk
    BY <2>8, ChunkStep
  <2>9. CASE RecvEnd
    <3>1. /\ UNCHANGED <<wire, inbuf, sent, received, carrier, wOpen, spoilt>> /\ ~wOpen
          /\ rState' = "none" /\ DecodeFrame(inbuf).is = "partial" /\ wire = << >>
      BY <2>9 DEF RecvEnd
    <3>2. ~spoilt => received = sent
      <4> SUFFICES ASSUME ~spoilt PROVE received = sent
        OBVIOUS
      <4>1. PICK q \in Seq(Bytes) : sent = received \o q /\ Carries(inbuf \o wire, q)
        BY DEF FramingInv, Flow
      <4>2. inbuf \o wire = inbuf
        BY <2>0, <3>1, ConcatEmptySeq DEF Bytes
      <4>3. q = << >>
        BY <2>0, <3>1, <4>1, <4>2, DecodeNone
      <4> QED
        BY <2>0, <4>1, <4>3, ConcatEmptySeq
    <3>3. FramingTyped' /\ Flow'
      BY <3>1 DEF FramingInv, FramingTyped, Flow
    <3> QED
      BY <3>1, <3>2, <3>3 DEF FramingInv, Ended, EndAfterAll, NeverRefused
  <2>10. CASE UNCHANGED frameVars
    BY <2>10 DEF FramingInv, FramingTyped, Flow, Ended, EndAfterAll, NeverRefused, frameVars
  <2> QED
    BY <2>1, <2>2, <2>3, <2>4, <2>5, <2>6, <2>7, <2>8, <2>9, <2>10 DEF FramingNext
<1> QED
  BY <1>1, <1>2, PTL DEF FramingSpec

\* However the bytes are cut into reads, over either carrier: what was received is the
\* first part of what was sent, payload by payload; the end of a stream is reported
\* when all of it was received; and no stream is refused that nobody spoilt.
THEOREM StreamAlwaysWhole == FramingSpec => []StreamWhole
<1>1. FramingInv => StreamWhole
  <2> SUFFICES ASSUME FramingInv PROVE StreamWhole
    OBVIOUS
  <2>1. received \in Seq(Bytes) /\ \A i \in 1..Len(received) : Len(received[i]) <= MaxFrame
    BY DEF FramingInv, FramingTyped
  <2>2. DOMAIN received = 1..Len(received)
    BY <2>1
  <2>3. ~spoilt => IsPrefix(received, sent)
    <3> SUFFICES ASSUME ~spoilt PROVE IsPrefix(received, sent)
      OBVIOUS
    <3>1. PICK q \in Seq(Bytes) : sent = received \o q
      BY DEF FramingInv, Flow
    <3>2. Len(sent) = Len(received) + Len(q) /\ Len(received) \in Nat /\ Len(q) \in Nat
      BY <2>1, <3>1, ConcatProperties
    <3>3. SubSeq(received, 1, Len(received)) = SubSeq(sent, 1, Len(received))
      <4>1. CASE Len(received) = 0
        <5>1. 1 \in Int /\ 0 \in Int /\ 0 < 1
          OBVIOUS
        <5> QED
          BY <4>1, <5>1, SubSeqEmpty
      <4>2. CASE Len(received) # 0
        <5>1. 1 \in 1..Len(received) /\ Len(received) \in 1..Len(received)
          BY <3>2, <4>2
        <5> QED
          BY <2>1, <3>1, <5>1, SubSeqOfConcat1
      <4> QED
        BY <4>1, <4>2
    <3>4. Len(received) <= Len(sent)
      BY <3>2
    <3> QED
      BY <3>3, <3>4 DEF IsPrefix
  <2> QED
    BY <2>1, <2>2, <2>3 DEF FramingInv, StreamWhole, FramesWhole
<1> QED
  BY <1>1, FramingInvariance, PTL

(***************************************************************************)
(* The issuer's session, for any number of connections, sequence numbers   *)
(* and frames in flight, with or without tampering.                        *)
(*                                                                         *)
(* The argument: an authentic command frame can only carry a token the     *)
(* issuer signed, and an authentic result frame only an answer the agent   *)
(* gave.  A token whose command was carried out is either of an earlier    *)
(* session, and sessions never come back, or at most the guard's mark.     *)
(***************************************************************************)


\* The frames on the stream that verify are copies of what was really signed.
Genuine ==
  /\ \A i \in DOMAIN toAgent :
       toAgent[i].authentic => toAgent[i].token \in signed
  /\ \A i \in DOMAIN toIssuer :
       toIssuer[i].authentic =>
         <<toIssuer[i].token, toIssuer[i].outcome>> \in answered

\* Only tokens of sessions up to the current one are signed, and only signed
\* tokens wait for a result.
Issued ==
  /\ outstanding \subseteq signed
  /\ \A t \in signed : t[1] <= conn

\* What was carried out can no longer be admitted.
Spent ==
  \A t \in Token :
    runs[t] > 0 => \/ t[1] < conn
                   \/ t[1] = conn /\ t[2] <= hwm

\* The agent answers "Applied" only for what it has carried out.
AnsweredHonestly ==
  \A t \in Token : <<t, "Applied">> \in answered => runs[t] > 0

SessionInv ==
  /\ TypeOK
  /\ Genuine
  /\ Issued
  /\ Spent
  /\ AnsweredHonestly
  /\ AtMostOnce
  /\ NotBricked
  /\ BelievedAnswered

-----------------------------------------------------------------------------
(* Sequences of frames. *)

\* A stream without frames.
LEMMA EmptyStream ==
  << >> \in Seq(Command) /\ << >> \in Seq(Result) /\ DOMAIN << >> = {}
  OBVIOUS

\* Taking the head of a stream leaves elements that were there before.
LEMMA TailElements ==
  ASSUME NEW S, NEW s \in Seq(S), s # << >>
  PROVE  /\ Head(s) = s[1] /\ 1 \in DOMAIN s /\ s[1] \in S
         /\ Tail(s) \in Seq(S)
         /\ \A i \in DOMAIN Tail(s) : i + 1 \in DOMAIN s /\ Tail(s)[i] = s[i + 1]
  OBVIOUS

\* Appending to a stream adds the new element and nothing else.
LEMMA AppendElements ==
  ASSUME NEW S, NEW s \in Seq(S), NEW e \in S
  PROVE  /\ Append(s, e) \in Seq(S)
         /\ \A i \in DOMAIN Append(s, e) :
              Append(s, e)[i] = e \/ (i \in DOMAIN s /\ Append(s, e)[i] = s[i])
  OBVIOUS

-----------------------------------------------------------------------------

\* The channel starts within the invariant.
LEMMA InitInv == Init => SessionInv
<1> SUFFICES ASSUME Init PROVE SessionInv
  OBVIOUS
<1> USE DEF Init
<1>1. TypeOK
  <2>1. runs \in [Token -> 0..MaxRuns]
    BY BoundsAreNat
  <2>2. conn \in 0..MaxConn /\ hwm \in 0..MaxSeq
    BY BoundsAreNat
  <2>3. open \in BOOLEAN /\ ~ open
    BY Zenon
  <2>4. toAgent \in Seq(Command) /\ toIssuer \in Seq(Result)
    BY EmptyStream
  <2> QED
    BY <2>1, <2>2, <2>3, <2>4 DEF TypeOK
<1>2. Genuine
  BY EmptyStream DEF Genuine
<1>3. Issued /\ Spent /\ AnsweredHonestly /\ AtMostOnce /\ NotBricked
      /\ BelievedAnswered
  BY DEF Issued, Spent, AnsweredHonestly, AtMostOnce, NotBricked, BelievedAnswered
<1> QED
  BY <1>1, <1>2, <1>3 DEF SessionInv

\* A new connection: every signed token is of an earlier session from now on.
LEMMA AcceptConnInv == SessionInv /\ AcceptConn => SessionInv'
  BY BoundsAreNat
  DEF AcceptConn, SessionInv, TypeOK, Genuine, Issued, Spent, AnsweredHonestly,
      AtMostOnce, NotBricked, BelievedAnswered, Token

\* A lost connection takes the frames with it.
LEMMA DisconnectInv == SessionInv /\ Disconnect => SessionInv'
<1> SUFFICES ASSUME SessionInv, Disconnect PROVE SessionInv'
  OBVIOUS
<1> USE DEF SessionInv, Disconnect
<1>1. TypeOK'
  BY EmptyStream DEF TypeOK
<1>2. Genuine'
  BY EmptyStream DEF Genuine
<1>3. Issued' /\ Spent' /\ AnsweredHonestly' /\ AtMostOnce' /\ NotBricked'
      /\ BelievedAnswered'
  BY DEF Issued, Spent, AnsweredHonestly, AtMostOnce, NotBricked, BelievedAnswered
<1> QED
  BY <1>1, <1>2, <1>3

\* A new command and the re-sending of an old one put a signed token on the
\* stream.
LEMMA IssueInv ==
  ASSUME SessionInv, NEW token \in Token, Issue(token),
         token[1] <= conn,
         \/ signed' = signed \cup {token}
         \/ signed' = signed /\ token \in signed
  PROVE  SessionInv'
<1> DEFINE c == [token |-> token, authentic |-> TRUE]
<1>1. c \in Command /\ toAgent \in Seq(Command)
  BY DEF SessionInv, TypeOK, Command
<1>2. toAgent' = Append(toAgent, c)
  BY DEF Issue
<1>3. /\ toAgent' \in Seq(Command)
      /\ \A i \in DOMAIN toAgent' :
           toAgent'[i] = c \/ (i \in DOMAIN toAgent /\ toAgent'[i] = toAgent[i])
  BY <1>1, <1>2, AppendElements
<1>4. signed \subseteq signed' /\ token \in signed' /\ signed' \subseteq Token
  BY DEF SessionInv, TypeOK
<1>5. TypeOK'
  BY <1>3, <1>4 DEF SessionInv, TypeOK, Issue
<1>6. Genuine'
  BY <1>3, <1>4 DEF SessionInv, Genuine, Issue
<1>7. Issued'
  BY <1>4 DEF SessionInv, Issued, Issue
<1>8. Spent' /\ AnsweredHonestly' /\ AtMostOnce' /\ NotBricked' /\ BelievedAnswered'
  BY <1>4 DEF SessionInv, Spent, AnsweredHonestly, AtMostOnce, NotBricked,
              BelievedAnswered, Issue
<1> QED
  BY <1>5, <1>6, <1>7, <1>8 DEF SessionInv

\* A new command is signed for the current session.
LEMMA SendInv == SessionInv /\ SendCommand => SessionInv'
<1> SUFFICES ASSUME SessionInv, NEW seq \in 1..MaxSeq,
                    signed' = signed \cup {<<conn, seq>>}, Issue(<<conn, seq>>)
             PROVE  SessionInv'
  BY DEF SendCommand
<1>1. conn \in 1..MaxConn
  BY BoundsAreNat DEF SessionInv, TypeOK, Issue
<1>2. <<conn, seq>> \in Token
  BY <1>1 DEF Token
<1>3. <<conn, seq>>[1] <= conn
  BY <1>1
<1> QED
  BY <1>2, <1>3, IssueInv

\* A re-sent command was signed before.
LEMMA ResendInv == SessionInv /\ Resend => SessionInv'
<1> SUFFICES ASSUME SessionInv, NEW token \in outstanding, Issue(token),
                    signed' = signed
             PROVE  SessionInv'
  BY DEF Resend
<1>1. token \in signed /\ token \in Token /\ token[1] <= conn
  BY DEF SessionInv, TypeOK, Issued
<1> QED
  BY <1>1, IssueInv

\* The issuer accepts only an answer to a token it waits for.
LEMMA AwaitInv == SessionInv /\ AwaitResult => SessionInv'
<1> SUFFICES ASSUME SessionInv, AwaitResult PROVE SessionInv'
  OBVIOUS
<1> DEFINE r == Head(toIssuer)
<1>1. toIssuer # << >> /\ toIssuer' = Tail(toIssuer)
  BY DEF AwaitResult
<1>2. /\ r = toIssuer[1] /\ 1 \in DOMAIN toIssuer /\ r \in Result
      /\ toIssuer' \in Seq(Result)
      /\ \A i \in DOMAIN toIssuer' :
           i + 1 \in DOMAIN toIssuer /\ toIssuer'[i] = toIssuer[i + 1]
  BY <1>1, TailElements DEF SessionInv, TypeOK
<1>3. r.authentic => <<r.token, r.outcome>> \in answered
  BY <1>2 DEF SessionInv, Genuine
<1>4. Genuine'
  BY <1>2 DEF SessionInv, Genuine, AwaitResult
<1>5. \/ /\ outstanding' = outstanding \ {r.token}
         /\ believed' = believed \cup {<<r.token, r.outcome>>}
         /\ r.token \in outstanding /\ r.authentic
      \/ UNCHANGED <<outstanding, believed>>
  BY DEF AwaitResult, Accepts
<1>6. TypeOK'
  BY <1>2, <1>5 DEF SessionInv, TypeOK, AwaitResult, Result
<1>7. Issued' /\ Spent' /\ AnsweredHonestly' /\ AtMostOnce' /\ NotBricked'
  BY <1>5 DEF SessionInv, Issued, Spent, AnsweredHonestly, AtMostOnce,
              NotBricked, AwaitResult
<1>8. BelievedAnswered'
  BY <1>3, <1>5 DEF SessionInv, BelievedAnswered, Issued, AwaitResult
<1> QED
  BY <1>4, <1>6, <1>7, <1>8 DEF SessionInv

\* The guard's mark moves to a signed number above every spent one.
LEMMA ServeInv == SessionInv /\ ServeOne => SessionInv'
<1> SUFFICES ASSUME SessionInv, ServeOne PROVE SessionInv'
  OBVIOUS
<1> DEFINE c == Head(toAgent)
<1>1. toAgent # << >> /\ toAgent' = Tail(toAgent)
  BY DEF ServeOne
<1>2. /\ c = toAgent[1] /\ 1 \in DOMAIN toAgent /\ c \in Command
      /\ toAgent' \in Seq(Command)
      /\ \A i \in DOMAIN toAgent' :
           i + 1 \in DOMAIN toAgent /\ toAgent'[i] = toAgent[i + 1]
  BY <1>1, TailElements DEF SessionInv, TypeOK
<1>3. c.token \in Token /\ (c.authentic => c.token \in signed)
  BY <1>2 DEF SessionInv, Genuine, Command
<1>4. PICK outcome \in {"Applied", "Rejected"} :
        /\ Respond(c.token, outcome)
        /\ \/ /\ outcome = "Rejected"
              /\ UNCHANGED <<hwm, runs>>
           \/ /\ outcome = "Rejected"
              /\ c.authentic /\ Admits(c.token) /\ hwm' = c.token[2]
              /\ UNCHANGED runs
           \/ /\ outcome = "Applied"
              /\ c.authentic /\ Admits(c.token) /\ hwm' = c.token[2]
              /\ runs[c.token] < MaxRuns
              /\ runs' = [runs EXCEPT ![c.token] = @ + 1]
  BY DEF ServeOne, Passes
<1> DEFINE e == [token |-> c.token, outcome |-> outcome, authentic |-> TRUE]
<1>5. UNCHANGED <<conn, open, signed, outstanding, believed>>
  BY DEF ServeOne
<1>6. /\ toIssuer' = Append(toIssuer, e)
      /\ answered' = answered \cup {<<c.token, outcome>>}
  BY <1>4 DEF Respond
<1>7. e \in Result /\ toIssuer \in Seq(Result)
  BY <1>3, <1>4 DEF SessionInv, TypeOK, Result
<1>8. /\ toIssuer' \in Seq(Result)
      /\ \A i \in DOMAIN toIssuer' :
           toIssuer'[i] = e \/ (i \in DOMAIN toIssuer /\ toIssuer'[i] = toIssuer[i])
  BY <1>6, <1>7, AppendElements
<1> HIDE DEF c, e
<1>9. c.token[1] \in 1..MaxConn /\ c.token[2] \in 1..MaxSeq
      /\ c.token = <<c.token[1], c.token[2]>>
  BY <1>3 DEF Token
<1>10. hwm' \in 0..MaxSeq
  BY <1>4, <1>9, BoundsAreNat DEF SessionInv, TypeOK
<1>11. runs' \in [Token -> 0..MaxRuns]
  BY <1>3, <1>4, BoundsAreNat DEF SessionInv, TypeOK
<1>12. TypeOK'
  <2>1. answered' \subseteq Token \X {"Applied", "Rejected"}
    BY <1>3, <1>4, <1>6 DEF SessionInv, TypeOK
  <2> QED
    BY <2>1, <1>2, <1>5, <1>8, <1>10, <1>11 DEF SessionInv, TypeOK
<1>13. Genuine'
  <2>1. \A i \in DOMAIN toIssuer' : toIssuer'[i].authentic =>
          <<toIssuer'[i].token, toIssuer'[i].outcome>> \in answered'
    BY <1>6, <1>8 DEF SessionInv, Genuine, e
  <2> QED
    BY <2>1, <1>2, <1>5 DEF SessionInv, Genuine
<1>14. Issued' /\ BelievedAnswered'
  BY <1>5, <1>6 DEF SessionInv, Issued, BelievedAnswered
<1>15. NotBricked'
  BY <1>3, <1>4, <1>5, <1>9 DEF SessionInv, NotBricked, Admits
<1>16. c.authentic /\ Admits(c.token) => runs[c.token] = 0
  BY <1>3, <1>9, BoundsAreNat, SMTT(30) DEF SessionInv, TypeOK, Spent, Admits
<1>17. Spent' /\ AtMostOnce'
  <2> SUFFICES ASSUME NEW t \in Token
               PROVE  /\ runs'[t] <= 1
                      /\ runs'[t] > 0 => t \in signed'
                      /\ runs'[t] > 0 => \/ t[1] < conn'
                                         \/ t[1] = conn' /\ t[2] <= hwm'
    BY DEF Spent, AtMostOnce
  <2>1. t[1] \in 1..MaxConn /\ t[2] \in 1..MaxSeq
    BY DEF Token
  <2>2. /\ runs[t] \in 0..MaxRuns /\ runs[t] <= 1
        /\ runs[t] > 0 => t \in signed
        /\ runs[t] > 0 => t[1] < conn \/ (t[1] = conn /\ t[2] <= hwm)
    BY DEF SessionInv, TypeOK, Spent, AtMostOnce
  <2>3. hwm <= hwm'
    BY <1>4, <1>9, BoundsAreNat DEF SessionInv, TypeOK, Admits
  <2>4. CASE t = c.token /\ c.authentic /\ Admits(c.token)
    <3>1. runs'[t] \in {0, 1}
      BY <2>4, <1>3, <1>4, <1>16 DEF SessionInv, TypeOK
    <3>2. hwm' = t[2] \/ hwm' = hwm
      BY <2>4, <1>4
    <3>3. runs'[t] > 0 => hwm' = t[2]
      BY <2>4, <1>4, <1>16
    <3> QED
      BY <2>4, <3>1, <3>3, <1>3, <1>5, <2>1 DEF Admits
  <2>5. CASE ~ (t = c.token /\ c.authentic /\ Admits(c.token))
    <3>1. runs'[t] = runs[t]
      BY <2>5, <1>4 DEF SessionInv, TypeOK
    <3> QED
      BY <3>1, <2>1, <2>2, <2>3, <1>5, <1>10, BoundsAreNat
      DEF SessionInv, TypeOK
  <2> QED
    BY <2>4, <2>5
<1>18. AnsweredHonestly'
  <2> SUFFICES ASSUME NEW t \in Token, <<t, "Applied">> \in answered'
               PROVE  runs'[t] > 0
    BY DEF AnsweredHonestly
  <2>1. runs[t] \in Nat /\ runs[c.token] \in Nat
    BY <1>3 DEF SessionInv, TypeOK
  <2>2. runs'[t] = runs[t] \/ (t = c.token /\ runs'[t] = runs[t] + 1)
    BY <1>4, <1>3 DEF SessionInv, TypeOK
  <2>3. CASE <<t, "Applied">> \in answered
    BY <2>1, <2>2, <2>3 DEF SessionInv, AnsweredHonestly
  <2>4. CASE t = c.token /\ outcome = "Applied"
    <3>1. runs' = [runs EXCEPT ![c.token] = @ + 1]
      BY <2>4, <1>4
    <3> QED
      BY <3>1, <2>1, <2>4, <1>3 DEF SessionInv, TypeOK
  <2> QED
    BY <2>3, <2>4, <1>6
<1> QED
  BY <1>12, <1>13, <1>14, <1>15, <1>17, <1>18 DEF SessionInv

\* What is replayed was signed before.
LEMMA ReplayInv == SessionInv /\ Replay => SessionInv'
<1> SUFFICES ASSUME SessionInv, Replay PROVE SessionInv'
  OBVIOUS
<1> USE DEF SessionInv
<1>1. UNCHANGED <<conn, open, hwm, signed, outstanding, runs, answered, believed>>
  BY DEF Replay
<1>2. Issued' /\ Spent' /\ AnsweredHonestly' /\ AtMostOnce' /\ NotBricked'
      /\ BelievedAnswered'
  BY <1>1 DEF Issued, Spent, AnsweredHonestly, AtMostOnce, NotBricked,
              BelievedAnswered
<1>3. CASE \E token \in signed :
             /\ toAgent' = Append(toAgent, [token |-> token, authentic |-> TRUE])
             /\ UNCHANGED toIssuer
  <2>1. PICK token \in signed :
          /\ toAgent' = Append(toAgent, [token |-> token, authentic |-> TRUE])
          /\ UNCHANGED toIssuer
    BY <1>3
  <2> DEFINE c == [token |-> token, authentic |-> TRUE]
  <2>2. c \in Command /\ toAgent \in Seq(Command)
    BY DEF TypeOK, Command
  <2>3. /\ toAgent' \in Seq(Command)
        /\ \A i \in DOMAIN toAgent' :
             toAgent'[i] = c \/ (i \in DOMAIN toAgent /\ toAgent'[i] = toAgent[i])
    BY <2>1, <2>2, AppendElements
  <2> QED
    BY <1>1, <1>2, <2>1, <2>3 DEF TypeOK, Genuine
<1>4. CASE \E a \in answered :
             /\ toIssuer' = Append(toIssuer, [token |-> a[1], outcome |-> a[2],
                                              authentic |-> TRUE])
             /\ UNCHANGED toAgent
  <2>1. PICK a \in answered :
          /\ toIssuer' = Append(toIssuer, [token |-> a[1], outcome |-> a[2],
                                           authentic |-> TRUE])
          /\ UNCHANGED toAgent
    BY <1>4
  <2> DEFINE e == [token |-> a[1], outcome |-> a[2], authentic |-> TRUE]
  <2>2. a \in Token \X {"Applied", "Rejected"}
    BY DEF TypeOK
  <2>3. a = <<a[1], a[2]>> /\ a[1] \in Token /\ a[2] \in {"Applied", "Rejected"}
    BY <2>2
  <2>4. e \in Result /\ toIssuer \in Seq(Result)
    BY <2>3 DEF TypeOK, Result
  <2>5. /\ toIssuer' \in Seq(Result)
        /\ \A i \in DOMAIN toIssuer' :
             toIssuer'[i] = e \/ (i \in DOMAIN toIssuer /\ toIssuer'[i] = toIssuer[i])
    BY <2>1, <2>4, AppendElements
  <2>6. <<e.token, e.outcome>> \in answered
    BY <2>3
  <2> HIDE DEF e
  <2>7. Genuine'
    BY <1>1, <2>1, <2>5, <2>6 DEF Genuine
  <2>8. TypeOK'
    BY <1>1, <2>1, <2>5 DEF TypeOK
  <2> QED
    BY <1>2, <2>7, <2>8
<1> QED
  BY <1>3, <1>4 DEF Replay

\* What is forged does not verify.
LEMMA ForgeInv == SessionInv /\ Forge => SessionInv'
<1> SUFFICES ASSUME SessionInv, Forge PROVE SessionInv'
  OBVIOUS
<1> USE DEF SessionInv
<1>1. UNCHANGED <<conn, open, hwm, signed, outstanding, runs, answered, believed>>
  BY DEF Forge
<1>2. Issued' /\ Spent' /\ AnsweredHonestly' /\ AtMostOnce' /\ NotBricked'
      /\ BelievedAnswered'
  BY <1>1 DEF Issued, Spent, AnsweredHonestly, AtMostOnce, NotBricked,
              BelievedAnswered
<1>3. PICK token \in Token :
        \/ /\ toAgent' = Append(toAgent, [token |-> token, authentic |-> FALSE])
           /\ UNCHANGED toIssuer
        \/ /\ toIssuer' = Append(toIssuer, [token |-> token, outcome |-> "Applied",
                                            authentic |-> FALSE])
           /\ UNCHANGED toAgent
  BY DEF Forge
<1> DEFINE c == [token |-> token, authentic |-> FALSE]
           e == [token |-> token, outcome |-> "Applied", authentic |-> FALSE]
<1>4. c \in Command /\ e \in Result /\ toAgent \in Seq(Command)
      /\ toIssuer \in Seq(Result)
  BY DEF TypeOK, Command, Result
<1>5. CASE toAgent' = Append(toAgent, c) /\ UNCHANGED toIssuer
  <2>1. /\ toAgent' \in Seq(Command)
        /\ \A i \in DOMAIN toAgent' :
             toAgent'[i] = c \/ (i \in DOMAIN toAgent /\ toAgent'[i] = toAgent[i])
    BY <1>4, <1>5, AppendElements
  <2> QED
    BY <1>1, <1>2, <1>5, <2>1 DEF TypeOK, Genuine
<1>6. CASE toIssuer' = Append(toIssuer, e) /\ UNCHANGED toAgent
  <2>1. /\ toIssuer' \in Seq(Result)
        /\ \A i \in DOMAIN toIssuer' :
             toIssuer'[i] = e \/ (i \in DOMAIN toIssuer /\ toIssuer'[i] = toIssuer[i])
    BY <1>4, <1>6, AppendElements
  <2> QED
    BY <1>1, <1>2, <1>6, <2>1 DEF TypeOK, Genuine
<1> QED
  BY <1>3, <1>5, <1>6

-----------------------------------------------------------------------------

\* The invariant holds in every reachable state of the channel.
THEOREM ChannelInvariant == Spec => []SessionInv
<1>1. SessionInv /\ [Next]_vars => SessionInv'
  <2> SUFFICES ASSUME SessionInv, [Next]_vars PROVE SessionInv'
    OBVIOUS
  <2>1. CASE UNCHANGED vars
    BY <2>1 DEF vars, SessionInv, TypeOK, Genuine, Issued, Spent,
                AnsweredHonestly, AtMostOnce, NotBricked, BelievedAnswered
  <2>2. CASE Next
    BY <2>2, AcceptConnInv, DisconnectInv, SendInv, ResendInv, AwaitInv, ServeInv,
       ReplayInv, ForgeInv DEF Next
  <2> QED
    BY <2>1, <2>2
<1> QED
  BY <1>1, InitInv, PTL DEF Spec

\* Replayed, re-sent or forged frames never run a command a second time, nor one
\* that was not signed (ReplayGuard::admit behind authenticate_and_authorize).
THEOREM CommandsRunAtMostOnce == Spec => []AtMostOnce
  BY ChannelInvariant, PTL DEF SessionInv

\* Only the issuer's own commands move the guard's mark (dispatch_fresh).
THEOREM SessionNotBricked == Spec => []NotBricked
  BY ChannelInvariant, PTL DEF SessionInv

\* An accepted "Applied" means exactly one run (ResultCorrelator::accept).
THEOREM AppliedIsTrue == Spec => []BelievedApplied
<1>1. SessionInv => BelievedApplied
  <2> SUFFICES ASSUME SessionInv, NEW t \in Token, <<t, "Applied">> \in believed
               PROVE  runs[t] = 1
    BY DEF BelievedApplied
  <2>1. runs[t] \in Nat /\ runs[t] <= 1
    BY DEF SessionInv, TypeOK, AtMostOnce
  <2>2. runs[t] > 0
    BY DEF SessionInv, BelievedAnswered, AnsweredHonestly
  <2> QED
    BY <2>1, <2>2
<1> QED
  BY <1>1, ChannelInvariant, PTL

\* The issuer accepts only what the agent answered to a signed command.
THEOREM AcceptedIsGenuine == Spec => []BelievedAnswered
  BY ChannelInvariant, PTL DEF SessionInv

\* Both together: what the issuer believes is genuine, and "Applied" is true.
THEOREM BeliefsAreTrue == Spec => []BelievedTrue
  BY AppliedIsTrue, AcceptedIsGenuine, PTL DEF BelievedTrue

\* Every variable keeps its type, over any number of connections and commands.
THEOREM SessionTypeCorrect == Spec => []TypeOK
  BY ChannelInvariant, PTL DEF SessionInv

(***************************************************************************)
(* Ingest: the store, whatever the programs score with and however their   *)
(* runs interleave and fail.                                               *)
(***************************************************************************)

IsFinding(f) ==
  DOMAIN f = {"id", "key", "r", "decision", "sla", "status", "first", "last", "closed"}

IsRun(x) == DOMAIN x = {"pc", "flags", "batch", "prior", "time", "report", "merged", "temp"}
IsStore(x) == DOMAIN x = {"whole", "findings"} /\ x.whole

\* A finding that was stamped by reconcile.
Stamped(f) == IsFinding(f) /\ f.first # Unset

\* What may come after the stored finding p: a finding first seen when p was, with the
\* operator's decision in force, and visible if p was closed.
After(p, f) ==
  /\ f.first = p.first
  /\ p.status \in {"Accepted", "Suppressed"} => f.status = p.status
  /\ p.status = "Closed" => f.status # "Open"

\* A store that may follow the stored one.
Follows(stored, m) ==
  \A i \in DOMAIN stored : i \in DOMAIN m /\ (m[i] = stored[i] \/ After(stored[i], m[i]))

\* Findings that were computed from what is stored.
BasedOn(stored, findings) ==
  \A f \in findings : f.id \in DOMAIN stored => After(stored[f.id], f)

RunsTyped ==
  /\ run = [r \in Runs |-> run[r]]
  /\ \A r \in Runs : IsRun(run[r])
  /\ \A i \in DOMAIN decided : decided[i] \in {"Accepted", "Suppressed", "Closed"}

\* Everything that is stored or on its way to the store has been stamped.
AllStamped ==
  /\ IsStore(store)
  /\ \A i \in DOMAIN store.findings : Stamped(store.findings[i])
  /\ \A r \in Runs :
       /\ run[r].pc \in {"read", "loaded"} => run[r].time # Unset
       /\ run[r].pc = "computed" => \A f \in run[r].report.findings : Stamped(f)
       /\ run[r].pc \in {"merged", "writing", "written"} =>
            \A i \in DOMAIN run[r].merged : Stamped(run[r].merged[i])
       /\ run[r].pc = "written" => run[r].temp = "whole"

\* While no run has been overtaken, what every run holds was made from the store as it is.
UpToDate(stored) ==
  \A r \in Runs :
    /\ run[r].pc = "loaded" => run[r].prior = stored
    /\ run[r].pc = "computed" => BasedOn(stored, run[r].report.findings)
    /\ run[r].pc \in {"merged", "writing", "written"} => Follows(stored, run[r].merged)

NotRaced ==
  ~raced => UpToDate(store.findings) /\ DOMAIN decided \subseteq DOMAIN store.findings

\* A run that is about to write its outputs has stored its findings, if it has a store.
Published(r) == r \in persisted \/ ~Stored(r)
OutputOrder ==
  /\ outputs = [findings |-> outputs.findings, items |-> outputs.items]
  /\ \A r \in Runs : run[r].pc \in {"stored", "half"} => Published(r)
  /\ \A r \in {outputs.findings, outputs.items} \ {Unset} :
       r \in Runs /\ run[r].pc # "idle" /\ Published(r)

IngestInv == RunsTyped /\ AllStamped /\ NotRaced /\ OutputOrder /\ DecisionStands

-----------------------------------------------------------------------------
(* Findings. *)

\* weighted_finding and Engine::run make findings.
LEMMA WeightedIsFinding ==
  ASSUME NEW h, NEW v, NEW c, NEW l, NEW w, NEW k, NEW ctx
  PROVE  IsFinding(WeightedFinding(h, v, c, l, w, k, ctx))
  BY DEF WeightedFinding, NewFinding, IsFinding

\* Engine::run makes findings.
LEMMA EngineFinds ==
  ASSUME NEW ds, NEW enr, NEW ctx, NEW reach, NEW f \in EngineRun(ds, enr, ctx, reach)
  PROVE  IsFinding(f)
<1>1. \E i, k, r, d, s : f = NewFinding(i, k, r, d, s)
  BY DEF EngineRun
<1> QED BY <1>1 DEF NewFinding, IsFinding

\* So do the mappers of activity and of posture.
LEMMA AggregateFinds ==
  ASSUME NEW b, NEW class, NEW ctx, NEW key, NEW ident, NEW f \in Aggregate(b, class, ctx, key, ident)
  PROVE  IsFinding(f)
<1>1. \E h, v, c, l, w, k, x : f = WeightedFinding(h, v, c, l, w, k, x)
  BY DEF Aggregate
<1> QED BY <1>1, WeightedIsFinding

\* So does a posture envelope.
LEMMA FailingFinds ==
  ASSUME NEW e, NEW ctx, NEW f \in Failing(e, ctx)
  PROVE  IsFinding(f)
<1>1. \E h, v, c, l, w, k, x : f = WeightedFinding(h, v, c, l, w, k, x)
  BY DEF Failing
<1> QED BY <1>1, WeightedIsFinding

\* And so do the envelopes of a batch.
LEMMA PostureFinds ==
  ASSUME NEW S, NEW ctx, NEW f \in UNION {Failing(e, ctx) : e \in S}
  PROVE  IsFinding(f)
<1>1. PICK e \in S : f \in Failing(e, ctx)
  OBVIOUS
<1> QED BY <1>1, FailingFinds

\* Every mapper of run_all_ingest makes findings.
LEMMA MappedFinds ==
  ASSUME NEW b, NEW in, NEW m \in DOMAIN Mapped(b, in), NEW f \in Mapped(b, in)[m]
  PROVE  IsFinding(f)
<1>1. CASE f \in VulnFindings(b, in)
  BY <1>1, EngineFinds DEF VulnFindings
<1>2. CASE f \in ProcessFindings(b, in.ctx)
  BY <1>2, AggregateFinds DEF ProcessFindings
<1>3. CASE f \in NetworkFindings(b, in.ctx)
  BY <1>3, AggregateFinds DEF NetworkFindings
<1>4. CASE f \in FileActivityFindings(b, in.ctx)
  BY <1>4, AggregateFinds DEF FileActivityFindings
<1>5. CASE f \in CorrelationFindings(b, in.ctx)
  BY <1>5, AggregateFinds DEF CorrelationFindings
<1>6. CASE f \in ComplianceFindings(b, in.ctx)
  BY <1>6, PostureFinds DEF ComplianceFindings
<1>7. CASE f \in DriftFindings(b, in.ctx)
  BY <1>7, PostureFinds DEF DriftFindings
<1>8. CASE f \in FimFindings(b, in.ctx)
  BY <1>8, PostureFinds DEF FimFindings
<1>9. f \in VulnFindings(b, in) \/ f \in ProcessFindings(b, in.ctx) \/ f \in NetworkFindings(b, in.ctx)
      \/ f \in FileActivityFindings(b, in.ctx) \/ f \in CorrelationFindings(b, in.ctx)
      \/ f \in ComplianceFindings(b, in.ctx) \/ f \in DriftFindings(b, in.ctx)
      \/ f \in FimFindings(b, in.ctx)
  BY DEF Mapped
<1> QED BY <1>1, <1>2, <1>3, <1>4, <1>5, <1>6, <1>7, <1>8, <1>9

\* reconcile stamps a finding, keeps the time a stored one was first seen, and does not
\* open what was closed.
LEMMA ReconcileKeeps ==
  ASSUME NEW prior, NEW fresh, NEW now, now # Unset, \A f \in fresh : IsFinding(f),
         NEW f \in Reconcile(prior, fresh, now)
  PROVE  /\ Stamped(f)
         /\ f.id \in DOMAIN prior /\ prior[f.id].first # Unset => f.first = prior[f.id].first
         /\ f.id \in DOMAIN prior /\ prior[f.id].status = "Closed" => f.status # "Open"
<1>1. PICK g \in fresh :
        f = [g EXCEPT !.first = IF g.id \in DOMAIN prior /\ prior[g.id].first # Unset
                                THEN prior[g.id].first ELSE now,
                      !.last = now,
                      !.status = IF @ = "Open" /\ g.id \in DOMAIN prior
                                    /\ prior[g.id].status = "Closed" THEN "Reopened" ELSE @]
  BY Zenon DEF Reconcile
<1>2. IsFinding(g)
  OBVIOUS
<1>3. /\ f.id = g.id
      /\ f.first = IF g.id \in DOMAIN prior /\ prior[g.id].first # Unset
                   THEN prior[g.id].first ELSE now
      /\ f.status = IF g.status = "Open" /\ g.id \in DOMAIN prior
                       /\ prior[g.id].status = "Closed" THEN "Reopened" ELSE g.status
      /\ IsFinding(f)
  BY <1>1, <1>2 DEF IsFinding
<1> QED BY <1>3 DEF Stamped

\* carry_forward_ops_states keeps all that, and the operator's decision.
LEMMA CarryKeeps ==
  ASSUME NEW prior, NEW findings, NEW f \in CarryForward(prior, findings),
         \A g \in findings : Stamped(g)
  PROVE  /\ Stamped(f)
         /\ f.id \in DOMAIN prior /\ prior[f.id].status \in {"Accepted", "Suppressed"} =>
              f.status = prior[f.id].status
         /\ \E g \in findings : f.id = g.id /\ f.first = g.first
               /\ \/ f.status = g.status
                  \/ f.id \in DOMAIN prior /\ prior[f.id].status \in {"Accepted", "Suppressed"}
<1>1. PICK g \in findings :
        f = IF g.id \in DOMAIN prior /\ prior[g.id].status \in {"Accepted", "Suppressed"}
            THEN [g EXCEPT !.status = prior[g.id].status] ELSE g
  BY Zenon DEF CarryForward
<1>2. Stamped(g)
  OBVIOUS
<1>3. CASE g.id \in DOMAIN prior /\ prior[g.id].status \in {"Accepted", "Suppressed"}
  <2>1. f = [g EXCEPT !.status = prior[g.id].status]
    BY <1>1, <1>3
  <2>2. f.id = g.id /\ f.first = g.first /\ f.status = prior[g.id].status /\ IsFinding(f)
    BY <2>1, <1>2 DEF Stamped, IsFinding
  <2> QED BY <2>2, <1>2, <1>3 DEF Stamped
<1>4. CASE ~(g.id \in DOMAIN prior /\ prior[g.id].status \in {"Accepted", "Suppressed"})
  <2>1. f = g
    BY <1>1, <1>4
  <2> QED BY <2>1, <1>2, <1>4
<1> QED BY <1>3, <1>4

\* What a run computes is stamped, and made from what it has loaded.
LEMMA ComputedFrom ==
  ASSUME NEW b, NEW in, NEW prior, NEW now, now # Unset,
         NEW rep, rep = RunAllIngest(b, in, prior, now)
  PROVE  /\ \A f \in CarryForward(prior, rep.findings) : Stamped(f)
         /\ (\A i \in DOMAIN prior : prior[i].first # Unset) =>
              BasedOn(prior, CarryForward(prior, rep.findings))
<1> DEFINE M == Mapped(b, in)
           found == Reconciled(prior, M, now)
<1>1. rep.findings = found
  BY DEF RunAllIngest, Report
<1>2. ASSUME NEW g \in found
      PROVE  /\ Stamped(g)
             /\ g.id \in DOMAIN prior /\ prior[g.id].first # Unset => g.first = prior[g.id].first
             /\ g.id \in DOMAIN prior /\ prior[g.id].status = "Closed" => g.status # "Open"
  <2>1. PICK m \in DOMAIN M : g \in Reconcile(prior, M[m], now)
    BY <1>2 DEF Reconciled
  <2>2. \A f \in M[m] : IsFinding(f)
    BY MappedFinds
  <2> HIDE DEF M, found
  <2> QED BY <2>1, <2>2, ReconcileKeeps
<1> HIDE DEF M, found
<1>3. ASSUME NEW f \in CarryForward(prior, found)
      PROVE  /\ Stamped(f)
             /\ (\A i \in DOMAIN prior : prior[i].first # Unset) /\ f.id \in DOMAIN prior =>
                  After(prior[f.id], f)
  <2>1. /\ Stamped(f)
        /\ f.id \in DOMAIN prior /\ prior[f.id].status \in {"Accepted", "Suppressed"} =>
             f.status = prior[f.id].status
        /\ \E g \in found : f.id = g.id /\ f.first = g.first
               /\ \/ f.status = g.status
                  \/ f.id \in DOMAIN prior /\ prior[f.id].status \in {"Accepted", "Suppressed"}
    BY <1>2, <1>3, CarryKeeps
  <2>2. PICK g \in found : f.id = g.id /\ f.first = g.first
               /\ \/ f.status = g.status
                  \/ f.id \in DOMAIN prior /\ prior[f.id].status \in {"Accepted", "Suppressed"}
    BY <2>1
  <2> QED BY <2>1, <2>2, <1>2 DEF After
<1> QED BY <1>1, <1>3 DEF BasedOn

\* The findings of a report are merged into a store that may follow the stored one.
LEMMA MergedFollows ==
  ASSUME NEW stored, NEW findings, \A f \in findings : Stamped(f),
         \A i \in DOMAIN stored : Stamped(stored[i])
  PROVE  /\ \A i \in DOMAIN Merged(stored, findings) : Stamped(Merged(stored, findings)[i])
         /\ BasedOn(stored, findings) => Follows(stored, Merged(stored, findings))
<1> DEFINE found == ById(findings)
<1>1. ASSUME NEW i \in DOMAIN found
      PROVE  found[i] \in findings /\ found[i].id = i
  <2>1. \E f \in findings : f.id = i
    BY <1>1 DEF ById
  <2>2. found[i] = CHOOSE f \in findings : f.id = i
    BY <1>1 DEF ById
  <2> QED BY <2>1, <2>2
<1> HIDE DEF found
<1>2. Merged(stored, findings) = [i \in DOMAIN found \cup DOMAIN stored |->
         IF i \in DOMAIN found THEN found[i] ELSE stored[i]]
  BY DEF Merged, found
<1>3. \A i \in DOMAIN Merged(stored, findings) : Stamped(Merged(stored, findings)[i])
  BY <1>1, <1>2
<1>4. ASSUME BasedOn(stored, findings), NEW i \in DOMAIN stored
      PROVE  i \in DOMAIN Merged(stored, findings)
             /\ (Merged(stored, findings)[i] = stored[i] \/ After(stored[i], Merged(stored, findings)[i]))
  BY <1>1, <1>2, <1>4 DEF BasedOn
<1> QED BY <1>3, <1>4 DEF Follows

-----------------------------------------------------------------------------
(* The steps of a run. *)

\* What a step that changes one run, and not the store, must show of that run.
RunOk(r, x) ==
  /\ IsRun(x)
  /\ x.pc \in {"read", "loaded"} => x.time # Unset
  /\ x.pc = "computed" => \A f \in x.report.findings : Stamped(f)
  /\ x.pc \in {"merged", "writing", "written"} => \A i \in DOMAIN x.merged : Stamped(x.merged[i])
  /\ x.pc = "written" => x.temp = "whole"
  /\ ~raced =>
       /\ x.pc = "loaded" => x.prior = store.findings
       /\ x.pc = "computed" => BasedOn(store.findings, x.report.findings)
       /\ x.pc \in {"merged", "writing", "written"} => Follows(store.findings, x.merged)
  /\ x.pc \in {"stored", "half"} => r \in persisted \/ "--store" \notin x.flags
  /\ run[r].pc # "idle" => x.pc # "idle" /\ x.flags = run[r].flags

\* A step of one run that keeps the store keeps the invariant, if the run it leaves is
\* as it must be and its outputs are written from a run whose findings are stored.
LEMMA RunSteps ==
  ASSUME IngestInv, NEW r \in Runs, NEW x, RunOk(r, x), run' = [run EXCEPT ![r] = x],
         UNCHANGED <<store, persisted, decided, raced>>,
         \/ UNCHANGED outputs
         \/ /\ run[r].pc \in {"stored", "half"}
            /\ outputs' = [outputs EXCEPT !.findings = r] \/ outputs' = [outputs EXCEPT !.items = r]
  PROVE  IngestInv'
<1>1. /\ run' = [q \in Runs |-> run'[q]] /\ run'[r] = x
      /\ \A q \in Runs \ {r} : run'[q] = run[q]
  BY DEF IngestInv, RunsTyped
<1>2. RunsTyped'
  BY <1>1 DEF IngestInv, RunsTyped, RunOk
<1>3. AllStamped'
  BY <1>1 DEF IngestInv, AllStamped, RunOk
<1>4. NotRaced'
  BY <1>1 DEF IngestInv, NotRaced, UpToDate, RunOk
<1>5. OutputOrder'
  <2>1. ASSUME NEW q \in Runs, Published(q), run[q].pc # "idle"
        PROVE  Published(q)' /\ run'[q].pc # "idle"
    BY <1>1, <2>1 DEF Published, Stored, RunOk
  <2>2. ASSUME NEW q \in Runs, run'[q].pc \in {"stored", "half"}
        PROVE  Published(q)'
    <3>1. CASE q = r
      BY <1>1, <2>2, <3>1 DEF Published, Stored, RunOk
    <3>2. CASE q # r
      <4>1. run'[q] = run[q] /\ Published(q)
        BY <1>1, <2>2, <3>2 DEF IngestInv, OutputOrder
      <4> QED BY <4>1 DEF Published, Stored
    <3> QED BY <3>1, <3>2
  <2>3. CASE UNCHANGED outputs
    <3>1. outputs' = [findings |-> outputs'.findings, items |-> outputs'.items]
      BY <2>3 DEF IngestInv, OutputOrder
    <3>2. \A q \in {outputs.findings, outputs.items} \ {Unset} :
            q \in Runs /\ run'[q].pc # "idle" /\ Published(q)'
      BY <2>1 DEF IngestInv, OutputOrder
    <3> QED BY <2>2, <2>3, <3>1, <3>2 DEF OutputOrder
  <2>4. CASE /\ run[r].pc \in {"stored", "half"}
             /\ outputs' = [outputs EXCEPT !.findings = r] \/ outputs' = [outputs EXCEPT !.items = r]
    <3>1. /\ outputs' = [findings |-> outputs'.findings, items |-> outputs'.items]
          /\ {outputs'.findings, outputs'.items} \subseteq {outputs.findings, outputs.items, r}
      BY <2>4 DEF IngestInv, OutputOrder
    <3>2. \A q \in {outputs.findings, outputs.items} \ {Unset} :
            q \in Runs /\ run'[q].pc # "idle" /\ Published(q)'
      BY <2>1 DEF IngestInv, OutputOrder
    <3>3. Published(r)' /\ run'[r].pc # "idle"
      BY <2>1, <2>4 DEF IngestInv, OutputOrder
    <3> QED BY <2>2, <3>1, <3>2, <3>3 DEF OutputOrder
  <2> QED BY <2>3, <2>4
<1>6. DecisionStands'
  BY DEF IngestInv, DecisionStands
<1> QED BY <1>2, <1>3, <1>4, <1>5, <1>6 DEF IngestInv

\* A run that has forgotten what it held.
LEMMA RunAtOk ==
  ASSUME NEW r \in Runs, NEW pc, NEW flags, pc \in {"failed", "done", "half", "stored"},
         run[r].pc # "idle" => flags = run[r].flags,
         pc \in {"stored", "half"} => r \in persisted \/ "--store" \notin flags
  PROVE  RunOk(r, RunAt(pc, flags))
<1>1. RunAt(pc, flags).pc = pc /\ RunAt(pc, flags).flags = flags /\ IsRun(RunAt(pc, flags))
  BY DEF RunAt, IsRun
<1> QED BY <1>1 DEF RunOk

\* A run that reads its batch starts at a time that is set.
LEMMA ReadBatchInv == ASSUME IngestInv, NEW r \in Runs, ReadBatch(r) PROVE IngestInv'
<1>1. PICK flags :
        run' = [run EXCEPT ![r] = [RunAt("read", flags) EXCEPT
                 !.batch = UNION {Emitted(h) : h \in Hosts},
                 !.time = Cardinality({q \in Runs : run[q].pc # "idle"}) + 1]]
  BY DEF ReadBatch
<1> DEFINE now == Cardinality({q \in Runs : run[q].pc # "idle"}) + 1
           x == [RunAt("read", flags) EXCEPT !.batch = UNION {Emitted(h) : h \in Hosts}, !.time = now]
<1>2. now # Unset
  <2>1. {q \in Runs : run[q].pc # "idle"} \subseteq Runs
    OBVIOUS
  <2>2. IsFiniteSet({q \in Runs : run[q].pc # "idle"})
    BY <2>1, FS_Subset, IngestAssumption
  <2>3. Cardinality({q \in Runs : run[q].pc # "idle"}) \in Nat
    BY <2>2, FS_CardinalityType
  <2>4. now \in Nat
    BY <2>3
  <2> QED BY <2>4, IngestAssumption
<1>3. run' = [run EXCEPT ![r] = x]
  BY <1>1
<1>4. x.pc = "read" /\ x.time = now /\ IsRun(x)
  BY DEF RunAt, IsRun
<1> HIDE DEF now, x
<1>5. RunOk(r, x)
  BY <1>2, <1>4 DEF RunOk, ReadBatch
<1> QED BY <1>3, <1>5, RunSteps DEF ReadBatch

\* torda-ingest gives up before it has touched anything.
LEMMA MalformedInv == ASSUME IngestInv, NEW r \in Runs, Malformed(r) PROVE IngestInv'
<1>1. RunOk(r, RunAt("failed", {"--store"}))
  BY RunAtOk DEF Malformed
<1> QED BY <1>1, RunSteps DEF Malformed

\* What a run loads is the store as it is.
LEMMA LoadPriorInv == ASSUME IngestInv, NEW r \in Runs, LoadPrior(r) PROVE IngestInv'
<1> DEFINE x == [run[r] EXCEPT !.pc = "loaded", !.prior = store.findings]
<1>1. IsRun(run[r]) /\ run = [q \in Runs |-> run[q]]
  BY DEF IngestInv, RunsTyped
<1>2. run' = [run EXCEPT ![r] = x]
  BY <1>1 DEF LoadPrior
<1>3. x.pc = "loaded" /\ x.prior = store.findings /\ x.time = run[r].time /\ x.flags = run[r].flags /\ IsRun(x)
  BY <1>1 DEF IsRun
<1>4. run[r].pc = "read" /\ run[r].time # Unset
  BY DEF LoadPrior, IngestInv, AllStamped
<1> HIDE DEF x
<1>5. RunOk(r, x)
  BY <1>3, <1>4 DEF RunOk
<1> QED BY <1>2, <1>5, RunSteps DEF LoadPrior

\* What Computed leaves of the run.
LEMMA ComputedOk ==
  ASSUME IngestInv, NEW r \in Runs, NEW prior, NEW pc, run[r].pc \in {"read", "loaded"},
         Computed(r, prior, pc), pc \in {"computed", "stored"},
         pc = "computed" /\ ~raced => prior = store.findings,
         pc = "stored" => ~Stored(r)
  PROVE  \E x : RunOk(r, x) /\ run' = [run EXCEPT ![r] = x]
<1> DEFINE rep == RunAllIngest(run[r].batch, InputsOf(r), prior, run[r].time)
           found == CarryForward(prior, rep.findings)
           x == [RunAt(pc, run[r].flags) EXCEPT !.report = [rep EXCEPT !.findings = found]]
<1>1. run' = [run EXCEPT ![r] = x]
  BY DEF Computed
<1>2. run[r].time # Unset
  BY DEF IngestInv, AllStamped
<1>3. /\ \A f \in found : Stamped(f)
      /\ (\A i \in DOMAIN prior : prior[i].first # Unset) => BasedOn(prior, found)
  BY <1>2, ComputedFrom
<1>4. [rep EXCEPT !.findings = found].findings = found
  BY DEF RunAllIngest, Report
<1> HIDE DEF found, rep
<1>5. x.pc = pc /\ x.flags = run[r].flags /\ x.report.findings = found /\ IsRun(x)
  BY <1>4 DEF RunAt, IsRun
<1>6. ~raced /\ pc = "computed" => BasedOn(store.findings, found)
  <2>1. \A i \in DOMAIN store.findings : store.findings[i].first # Unset
    BY DEF IngestInv, AllStamped, Stamped
  <2> QED BY <2>1, <1>3
<1> HIDE DEF x
<1>7. RunOk(r, x)
  BY <1>3, <1>5, <1>6 DEF RunOk, Stored
<1> QED BY <1>1, <1>7

\* compute with a store: from what was loaded.
LEMMA ComputeInv == ASSUME IngestInv, NEW r \in Runs, Compute(r) PROVE IngestInv'
<1>1. ~raced => run[r].prior = store.findings
  BY DEF IngestInv, NotRaced, UpToDate, Compute
<1>2. \E x : RunOk(r, x) /\ run' = [run EXCEPT ![r] = x]
  BY <1>1, ComputedOk DEF Compute
<1> QED BY <1>2, RunSteps DEF Compute

\* compute without a store: the run may publish what nothing keeps.
LEMMA ComputeStorelessInv == ASSUME IngestInv, NEW r \in Runs, ComputeStoreless(r) PROVE IngestInv'
<1>1. \E x : RunOk(r, x) /\ run' = [run EXCEPT ![r] = x]
  BY ComputedOk DEF ComputeStoreless
<1> QED BY <1>1, RunSteps DEF ComputeStoreless

\* upsert: what is merged is made from the second load, and follows it.
LEMMA MergeStoredInv == ASSUME IngestInv, NEW r \in Runs, MergeStored(r) PROVE IngestInv'
<1> DEFINE m == Merged(store.findings, run[r].report.findings)
           x == [RunAt("merged", run[r].flags) EXCEPT !.merged = m]
<1>1. run' = [run EXCEPT ![r] = x]
  BY DEF MergeStored, IngestInv, RunsTyped
<1>2. /\ \A f \in run[r].report.findings : Stamped(f)
      /\ \A i \in DOMAIN store.findings : Stamped(store.findings[i])
      /\ ~raced => BasedOn(store.findings, run[r].report.findings)
  BY DEF MergeStored, IngestInv, AllStamped, NotRaced, UpToDate
<1>3. /\ \A i \in DOMAIN m : Stamped(m[i])
      /\ ~raced => Follows(store.findings, m)
  BY <1>2, MergedFollows
<1> HIDE DEF m
<1>4. x.pc = "merged" /\ x.flags = run[r].flags /\ x.merged = m /\ IsRun(x)
  BY DEF RunAt, IsRun
<1> HIDE DEF x
<1>5. RunOk(r, x)
  BY <1>3, <1>4 DEF RunOk
<1> QED BY <1>1, <1>5, RunSteps DEF MergeStored

\* The temporary file is written.
LEMMA WriteTempInv == ASSUME IngestInv, NEW r \in Runs, WriteTemp(r) PROVE IngestInv'
<1> DEFINE x == [run[r] EXCEPT !.pc = "writing", !.temp = "part"]
<1>1. IsRun(run[r]) /\ run = [q \in Runs |-> run[q]]
  BY DEF IngestInv, RunsTyped
<1>2. run' = [run EXCEPT ![r] = x]
  BY <1>1 DEF WriteTemp
<1>3. x.pc = "writing" /\ x.merged = run[r].merged /\ x.flags = run[r].flags /\ IsRun(x)
  BY <1>1 DEF IsRun
<1>4. /\ run[r].pc = "merged" /\ \A i \in DOMAIN run[r].merged : Stamped(run[r].merged[i])
      /\ ~raced => Follows(store.findings, run[r].merged)
  BY DEF WriteTemp, IngestInv, AllStamped, NotRaced, UpToDate
<1> HIDE DEF x
<1>5. RunOk(r, x)
  BY <1>3, <1>4 DEF RunOk
<1> QED BY <1>2, <1>5, RunSteps DEF WriteTemp

\* The temporary file holds what was merged.
LEMMA SyncTempInv == ASSUME IngestInv, NEW r \in Runs, SyncTemp(r) PROVE IngestInv'
<1> DEFINE x == [run[r] EXCEPT !.pc = "written", !.temp = "whole"]
<1>1. IsRun(run[r]) /\ run = [q \in Runs |-> run[q]]
  BY DEF IngestInv, RunsTyped
<1>2. run' = [run EXCEPT ![r] = x]
  BY <1>1 DEF SyncTemp
<1>3. /\ x.pc = "written" /\ x.temp = "whole" /\ x.merged = run[r].merged /\ x.flags = run[r].flags
      /\ IsRun(x)
  BY <1>1 DEF IsRun
<1>4. /\ run[r].pc = "writing" /\ \A i \in DOMAIN run[r].merged : Stamped(run[r].merged[i])
      /\ ~raced => Follows(store.findings, run[r].merged)
  BY DEF SyncTemp, IngestInv, AllStamped, NotRaced, UpToDate
<1> HIDE DEF x
<1>5. RunOk(r, x)
  BY <1>3, <1>4 DEF RunOk
<1> QED BY <1>2, <1>5, RunSteps DEF SyncTemp

\* The first output is of a run whose findings are stored.
LEMMA WriteFindingsInv == ASSUME IngestInv, NEW r \in Runs, WriteFindings(r) PROVE IngestInv'
<1>1. run' = [run EXCEPT ![r] = RunAt("half", run[r].flags)]
  BY DEF WriteFindings, IngestInv, RunsTyped
<1>2. r \in persisted \/ "--store" \notin run[r].flags
  BY DEF WriteFindings, IngestInv, OutputOrder, Published, Stored
<1>3. RunOk(r, RunAt("half", run[r].flags))
  BY <1>2, RunAtOk
<1> QED BY <1>1, <1>3, RunSteps DEF WriteFindings

\* So is the second.
LEMMA WriteRemediationInv == ASSUME IngestInv, NEW r \in Runs, WriteRemediation(r) PROVE IngestInv'
<1>1. run' = [run EXCEPT ![r] = RunAt("done", run[r].flags)]
  BY DEF WriteRemediation, IngestInv, RunsTyped
<1>2. RunOk(r, RunAt("done", run[r].flags))
  BY RunAtOk
<1> QED BY <1>1, <1>2, RunSteps DEF WriteRemediation

\* A run that dies leaves the store as it is.
LEMMA FailInv == ASSUME IngestInv, NEW r \in Runs, Fail(r) PROVE IngestInv'
<1>1. run' = [run EXCEPT ![r] = RunAt("failed", run[r].flags)]
  BY DEF Fail, IngestInv, RunsTyped
<1>2. RunOk(r, RunAt("failed", run[r].flags))
  BY RunAtOk
<1> QED BY <1>1, <1>2, RunSteps DEF Fail

\* The rename puts a store in place that follows the stored one, if no run was overtaken.
LEMMA RenameTempInv == ASSUME IngestInv, NEW r \in Runs, RenameTemp(r) PROVE IngestInv'
<1> DEFINE pc == IF Program[r] = "torda-ingest" THEN "done" ELSE "stored"
           x == RunAt(pc, run[r].flags)
           m == run[r].merged
<1>1. /\ run' = [q \in Runs |-> run'[q]] /\ run'[r] = x
      /\ \A q \in Runs \ {r} : run'[q] = run[q]
  BY DEF IngestInv, RunsTyped, RenameTemp
<1>2. x.pc = pc /\ x.flags = run[r].flags /\ IsRun(x)
  BY DEF RunAt, IsRun
<1>3. pc \in {"done", "stored"}
  OBVIOUS
<1> HIDE DEF x, pc
<1>4. IsStore(store') /\ store'.findings = m
  <2>1. run[r].temp = "whole"
    BY DEF IngestInv, AllStamped, RenameTemp
  <2> QED BY <2>1 DEF RenameTemp, IsStore
<1>5. /\ \A i \in DOMAIN m : Stamped(m[i])
      /\ ~raced => Follows(store.findings, m)
  BY DEF IngestInv, AllStamped, NotRaced, UpToDate, RenameTemp
<1> HIDE DEF m
<1>6. RunsTyped'
  BY <1>1, <1>2 DEF IngestInv, RunsTyped, RenameTemp
<1>7. AllStamped'
  BY <1>1, <1>2, <1>3, <1>4, <1>5 DEF IngestInv, AllStamped
<1>8. ASSUME ~raced'
      PROVE  ~raced /\ \A q \in Runs : run'[q].pc \notin Between
  BY <1>1, <1>2, <1>3, <1>8 DEF RenameTemp, Overwrites, Between
<1>9. NotRaced'
  BY <1>4, <1>5, <1>8 DEF IngestInv, NotRaced, UpToDate, Between, Follows, RenameTemp
<1>10. OutputOrder'
  <2>1. ASSUME NEW q \in Runs, Published(q), run[q].pc # "idle"
        PROVE  Published(q)' /\ run'[q].pc # "idle"
    BY <1>1, <1>2, <1>3, <2>1 DEF Published, Stored, RenameTemp
  <2>2. \A q \in Runs : run'[q].pc \in {"stored", "half"} => Published(q)'
    BY <1>1, <2>1 DEF IngestInv, OutputOrder, Published, RenameTemp
  <2>3. \A q \in {outputs.findings, outputs.items} \ {Unset} :
          q \in Runs /\ run'[q].pc # "idle" /\ Published(q)'
    BY <2>1 DEF IngestInv, OutputOrder
  <2> QED BY <2>2, <2>3 DEF IngestInv, OutputOrder, RenameTemp
<1>11. DecisionStands'
  <2>1. SUFFICES ASSUME ~raced', NEW i \in DOMAIN decided, decided[i] # "Closed"
                 PROVE  m[i].status = decided[i]
    BY <1>4 DEF DecisionStands, RenameTemp
  <2>2. i \in DOMAIN store.findings /\ store.findings[i].status = decided[i]
    BY <1>8, <2>1 DEF IngestInv, NotRaced, DecisionStands
  <2>3. decided[i] \in {"Accepted", "Suppressed"}
    BY <2>1 DEF IngestInv, RunsTyped
  <2> QED BY <2>2, <2>3, <1>5, <1>8, <2>1 DEF Follows, After
<1> QED BY <1>6, <1>7, <1>9, <1>10, <1>11 DEF IngestInv

-----------------------------------------------------------------------------
(* Around the runs. *)

\* The hosts are not part of the store.
LEMMA HostChangesInv == ASSUME IngestInv, HostChanges PROVE IngestInv'
  BY DEF IngestInv, HostChanges, RunsTyped, AllStamped, NotRaced, UpToDate, OutputOrder, Published,
         Stored, DecisionStands

\* A decision changes the status of a stored finding, and overtakes the runs that have
\* loaded the store.
LEMMA DecisionChanges ==
  ASSUME IngestInv, NEW i \in DOMAIN store.findings, NEW status, Decision(i, status)
  PROVE  /\ IsStore(store')
         /\ DOMAIN store'.findings = DOMAIN store.findings
         /\ Stamped(store'.findings[i]) /\ store'.findings[i].status = status
         /\ store'.findings[i].first = store.findings[i].first
         /\ \A j \in DOMAIN store.findings \ {i} : store'.findings[j] = store.findings[j]
<1> DEFINE p == store.findings[i]
           n == [p EXCEPT !.status = status, !.closed = IF status = "Closed" THEN 1 ELSE @]
<1>1. IsStore(store) /\ Stamped(p)
  BY DEF IngestInv, AllStamped
<1>2. IsFinding(n) /\ n.status = status /\ n.first = p.first
  BY <1>1 DEF Stamped, IsFinding
<1>3. store' = [store EXCEPT !.findings = [store.findings EXCEPT ![i] = n]]
  BY <1>1 DEF Decision, Stamped, IsFinding
<1> HIDE DEF p, n
<1>4. IsStore(store') /\ store'.findings = [store.findings EXCEPT ![i] = n]
  <2> DEFINE F == [store.findings EXCEPT ![i] = n]
  <2>1. store' = [store EXCEPT !.findings = F]
    BY <1>3
  <2> HIDE DEF F
  <2>2. IsStore(store') /\ store'.findings = F
    BY <1>1, <2>1 DEF IsStore
  <2> QED BY <2>2 DEF F
<1> QED BY <1>1, <1>2, <1>4 DEF Stamped, p

\* A decision is in force, and the runs it overtakes are known.
LEMMA DecisionInv ==
  ASSUME IngestInv, NEW i \in DOMAIN store.findings,
         NEW status \in {"Accepted", "Suppressed", "Closed"}, Decision(i, status)
  PROVE  IngestInv'
<1>1. /\ IsStore(store')
      /\ DOMAIN store'.findings = DOMAIN store.findings
      /\ Stamped(store'.findings[i]) /\ store'.findings[i].status = status
      /\ \A j \in DOMAIN store.findings \ {i} : store'.findings[j] = store.findings[j]
  BY DecisionChanges
<1>2. UNCHANGED <<run, outputs, persisted>> /\ decided' = Put(decided, i, status)
  BY DEF Decision
<1>3. OutputOrder'
  BY <1>2 DEF IngestInv, OutputOrder, Published, Stored
<1>4. AllStamped'
  BY <1>1, <1>2 DEF IngestInv, AllStamped
<1>5. ASSUME ~raced'
      PROVE  ~raced /\ \A q \in Runs : run[q].pc \notin Between
  BY <1>5 DEF Decision
<1>6. /\ DOMAIN decided' = {i} \cup DOMAIN decided /\ decided'[i] = status
      /\ \A j \in DOMAIN decided \ {i} : decided'[j] = decided[j]
  BY <1>2 DEF Put
<1>9. RunsTyped'
  BY <1>2, <1>6 DEF IngestInv, RunsTyped
<1>7. NotRaced'
  BY <1>1, <1>2, <1>5, <1>6 DEF IngestInv, NotRaced, UpToDate, Between
<1>8. DecisionStands'
  <2>1. SUFFICES ASSUME ~raced', NEW j \in DOMAIN decided', decided'[j] # "Closed"
                 PROVE  store'.findings[j].status = decided'[j]
    BY DEF DecisionStands
  <2>2. CASE j = i
    BY <1>1, <1>6, <2>2
  <2>3. CASE j # i
    BY <1>1, <1>5, <1>6, <2>1, <2>3 DEF IngestInv, NotRaced, DecisionStands
  <2> QED BY <2>2, <2>3
<1> QED BY <1>3, <1>4, <1>7, <1>8, <1>9 DEF IngestInv

-----------------------------------------------------------------------------
\* An empty store and no run.
LEMMA IngestInvInit == IngestInit => IngestInv
<1> SUFFICES ASSUME IngestInit PROVE IngestInv
  OBVIOUS
<1>1. \A r \in Runs : run[r].pc = "idle" /\ IsRun(run[r])
  BY DEF IngestInit, RunAt, IsRun
<1>2. RunsTyped
  BY <1>1 DEF IngestInit, RunsTyped, NoFindings
<1>3. store.findings = NoFindings /\ DOMAIN store.findings = {} /\ DOMAIN decided = {}
  BY DEF IngestInit, NoFindings
<1>4. AllStamped
  BY <1>1, <1>3 DEF IngestInit, AllStamped, IsStore
<1>5. NotRaced /\ DecisionStands
  BY <1>1, <1>3 DEF NotRaced, UpToDate, DecisionStands
<1>6. OutputOrder
  BY <1>1 DEF IngestInit, OutputOrder
<1> QED BY <1>2, <1>4, <1>5, <1>6 DEF IngestInv

\* One case for each action.
LEMMA IngestInvNext == IngestInv /\ [IngestNext]_ingestVars => IngestInv'
<1> SUFFICES ASSUME IngestInv, [IngestNext]_ingestVars PROVE IngestInv'
  OBVIOUS
<1>1. CASE UNCHANGED ingestVars
  BY <1>1 DEF ingestVars, IngestInv, RunsTyped, AllStamped, NotRaced, UpToDate, OutputOrder, Published,
         Stored, DecisionStands
<1>2. ASSUME NEW r \in Runs,
             \/ ReadBatch(r) \/ Malformed(r) \/ LoadPrior(r) \/ Compute(r)
             \/ ComputeStoreless(r) \/ MergeStored(r)
             \/ WriteTemp(r) \/ SyncTemp(r) \/ RenameTemp(r) \/ WriteFindings(r) \/ WriteRemediation(r) \/ Fail(r)
      PROVE  IngestInv'
  BY <1>2, ReadBatchInv, MalformedInv, LoadPriorInv, ComputeInv, ComputeStorelessInv,
     MergeStoredInv, WriteTempInv, SyncTempInv, RenameTempInv, WriteFindingsInv, WriteRemediationInv, FailInv
<1>3. CASE HostChanges
  BY <1>3, HostChangesInv
<1>4. CASE OperatorDecides
  BY <1>4, DecisionInv DEF OperatorDecides
<1>5. CASE RemediationCloses
  BY <1>5, DecisionInv DEF RemediationCloses
<1> QED BY <1>1, <1>2, <1>3, <1>4, <1>5 DEF IngestNext

\* Everything stored is stamped, every run that was not overtaken holds what was made
\* from the store as it is, and outputs come from stored runs.
THEOREM IngestInvariance == IngestSpec => []IngestInv
  BY IngestInvInit, IngestInvNext, PTL DEF IngestSpec

\* write_atomic and carry_forward_ops_states: for every set of runs, hosts, flags and
\* feeds the store is whole at every step, the operator's decision is in force unless a
\* run was overtaken, and nothing is published that the store does not have.
THEOREM StoreAlwaysKept == IngestSpec => []StoreKept
<1>1. IngestInv => StoreKept
  <2> SUFFICES ASSUME IngestInv PROVE StoreKept
    OBVIOUS
  <2>1. NeverTorn
    BY DEF IngestInv, AllStamped, IsStore, NeverTorn
  <2>2. DecisionStands
    BY DEF IngestInv
  <2>3. OutputsPersisted
    BY DEF IngestInv, OutputOrder, OutputsPersisted, Published
  <2> QED BY <2>1, <2>2, <2>3 DEF StoreKept
<1> QED BY <1>1, IngestInvariance, PTL


\* What one step may do to the store.
StoreStep ==
  ~raced' => \A i \in DOMAIN store.findings :
               /\ i \in DOMAIN store'.findings
               /\ store'.findings[i].first = store.findings[i].first
               /\ store.findings[i].status = "Closed" /\ store'.findings[i] # store.findings[i] =>
                    store'.findings[i].status # "Open"

\* Only the rename and the operator change the store.
LEMMA StoreSteps == IngestInv /\ [IngestNext]_ingestVars => StoreStep
<1> SUFFICES ASSUME IngestInv, [IngestNext]_ingestVars PROVE StoreStep
  OBVIOUS
<1>1. CASE UNCHANGED store
  BY <1>1 DEF StoreStep
<1>2. ASSUME NEW r \in Runs, RenameTemp(r)
      PROVE  StoreStep
  <2>1. ~raced' => Follows(store.findings, run[r].merged)
    BY <1>2 DEF RenameTemp, IngestInv, NotRaced, UpToDate
  <2>2. store'.findings = run[r].merged
    BY <1>2 DEF RenameTemp
  <2> QED BY <2>1, <2>2 DEF StoreStep, Follows, After
<1>3. ASSUME NEW i \in DOMAIN store.findings, NEW status \in {"Accepted", "Suppressed", "Closed"},
             Decision(i, status)
      PROVE  StoreStep
  BY <1>3, DecisionChanges DEF StoreStep
<1>4. ASSUME NEW r \in Runs,
             \/ ReadBatch(r) \/ Malformed(r) \/ LoadPrior(r) \/ Compute(r)
             \/ ComputeStoreless(r) \/ MergeStored(r)
             \/ WriteTemp(r) \/ SyncTemp(r) \/ WriteFindings(r) \/ WriteRemediation(r) \/ Fail(r)
      PROVE  UNCHANGED store
  BY <1>4 DEF ReadBatch, Malformed, LoadPrior, Compute, ComputeStoreless, MergeStored, WriteTemp,
     SyncTemp, WriteFindings, WriteRemediation, Fail
<1>5. CASE OperatorDecides
  BY <1>3, <1>5 DEF OperatorDecides
<1>6. CASE RemediationCloses
  BY <1>3, <1>6 DEF RemediationCloses
<1>7. HostChanges \/ UNCHANGED ingestVars => UNCHANGED store
  BY DEF HostChanges, ingestVars
<1> QED BY <1>1, <1>2, <1>4, <1>5, <1>6, <1>7 DEF IngestNext

\* reconcile and upsert: no step drops a stored finding, changes the time it was first
\* seen or brings a closed one back as merely open, unless a run was overtaken.
THEOREM HistoryAlwaysKept == IngestSpec => HistoryKept
<1>1. IngestInv /\ [IngestNext]_ingestVars =>
        /\ [~raced' => \A i \in DOMAIN store.findings :
                  /\ i \in DOMAIN store'.findings
                  /\ store'.findings[i].first = store.findings[i].first]_ingestVars
        /\ [~raced' => \A i \in DOMAIN store.findings \cap DOMAIN store'.findings :
                  store.findings[i].status = "Closed" /\ store'.findings[i] # store.findings[i] =>
                    store'.findings[i].status # "Open"]_ingestVars
  BY StoreSteps DEF StoreStep
<1> QED BY <1>1, IngestInvariance, PTL DEF IngestSpec, HistoryKept, Remembered, RegressionVisible

(***************************************************************************)
(* Ingest: what the findings of a batch mean.                              *)
(***************************************************************************)

Sources == {"dpkg", "rpm", "homebrew", "registry"}
ChainRules == {"suspicious_process_suspicious_connection",
               "suspicious_process_wrote_file_and_connected",
               "suspicious_process_read_sensitive_and_connected"}

\* The last of a set of positions.
LEMMA LastOfPositions ==
  ASSUME NEW n \in Nat, NEW K, K \subseteq 1..n, K # {}
  PROVE  LastIndex(K) \in K /\ \A l \in K : l <= LastIndex(K)
<1> DEFINE T == {n - k : k \in K}
<1>0. \A k \in K : k \in Nat /\ n - k \in Nat
  <2> TAKE k \in K
  <2>1. k \in 1..n
    OBVIOUS
  <2> QED BY <2>1
<1>1. T \subseteq Nat /\ T # {}
  BY <1>0
<1>2. PICK m \in T : \A x \in T : m <= x
  BY <1>1, LeastNat
<1>3. PICK k \in K : m = n - k
  BY <1>2
<1>4. \A l \in K : l <= k
  <2> TAKE l \in K
  <2>1. m <= n - l
    BY <1>2
  <2>2. l \in Nat /\ k \in Nat
    BY <1>0
  <2> QED BY <1>3, <2>1, <2>2
<1> QED BY <1>3, <1>4 DEF LastIndex

-----------------------------------------------------------------------------
(* The evidence. *)

Maturities == {"None", "Poc", "Functional", "Weaponized", "InTheWild"}
IsEvidence(e) ==
  e.cvss \in Nat /\ e.epss \in Nat /\ e.maturity \in Maturities /\ e.vex \in {"Affected", "Unknown", "NotAffected"}
IsContext(ctx) ==
  /\ ctx.internet_facing \in BOOLEAN /\ ctx.compensating_controls \in BOOLEAN
  /\ ctx.criticality \in {"CrownJewel", "High", "Normal", "Low"}

\* The flaw the fixtures say is out of reach.
Unreachable == <<"", "CVE-2024-2961">>

\* parse_cvss gives scores and known labels.
LEMMA CvssTyped ==
  ASSUME NEW records, records \in Seq(ToSet(records)), \A r \in ToSet(records) : r.score \in Nat,
         NEW v \in DOMAIN ParseCvss(records)
  PROVE  ParseCvss(records)[v].score \in Nat /\ ParseCvss(records)[v].maturity \in Maturities
<1> DEFINE K == {k \in DOMAIN records : records[k].id = v[2]}
<1>1. PICK r \in ToSet(records) : v = <<"", r.id>>
  BY DEF ParseCvss
<1>2. PICK k \in DOMAIN records : r = records[k]
  BY DEF ToSet
<1>3. k \in K
  BY <1>1, <1>2
<1>4. Len(records) \in Nat /\ DOMAIN records = 1..Len(records) /\ K \subseteq 1..Len(records)
  OBVIOUS
<1> DEFINE last == LastIndex(K)
<1>5. last \in K
  <2> HIDE DEF K
  <2> QED BY <1>3, <1>4, LastOfPositions
<1>6. ParseCvss(records)[v] = [score |-> records[last].score, maturity |-> ParseMaturity(records[last].maturity)]
  BY DEF ParseCvss
<1>7. records[last].score \in Nat
  BY <1>5 DEF ToSet
<1> HIDE DEF last
<1> QED BY <1>6, <1>7 DEF ParseMaturity, Maturities

\* parse_epss gives probabilities.
LEMMA EpssTyped ==
  ASSUME NEW v \in DOMAIN ParseEpss(EpssLines)
  PROVE  ParseEpss(EpssLines)[v] \in Nat
<1> DEFINE K == {k \in DOMAIN EpssLines : EpssLines[k].kind = "row" /\ EpssLines[k].cve = v[2]}
<1>0. /\ EpssLines \in Seq(ToSet(EpssLines))
      /\ \A l \in ToSet(EpssLines) : l.kind = "row" => l.epss \in Nat
  BY EvidenceAssumption
<1>1. PICK l \in ToSet(EpssLines) : v = <<"", l.cve>> /\ l.kind = "row"
  BY DEF ParseEpss
<1>2. PICK k \in DOMAIN EpssLines : l = EpssLines[k]
  BY DEF ToSet
<1>3. k \in K
  BY <1>1, <1>2
<1>4. Len(EpssLines) \in Nat /\ DOMAIN EpssLines = 1..Len(EpssLines) /\ K \subseteq 1..Len(EpssLines)
  BY <1>0
<1> DEFINE last == LastIndex(K)
<1>5. last \in K
  <2> HIDE DEF K
  <2> QED BY <1>3, <1>4, LastOfPositions
<1>6. ParseEpss(EpssLines)[v] = EpssLines[last].epss
  BY DEF ParseEpss
<1>7. EpssLines[last].epss \in Nat
  BY <1>0, <1>5 DEF ToSet
<1> HIDE DEF last
<1> QED BY <1>6, <1>7

\* The evidence of either program is in range, and one flaw at most is out of reach.
LEMMA EvidenceTyped ==
  ASSUME NEW program, NEW flags, NEW v
  PROVE  /\ IsContext(Inputs(program, flags).ctx)
         /\ IsEvidence(LookUp(Inputs(program, flags).enrichment, v))
         /\ LookUp(Inputs(program, flags).enrichment, v).vex = "NotAffected" => v = Unreachable
<1> DEFINE in == Inputs(program, flags)
           Fits(e) == IsEvidence(LookUp(e, v)) /\ (LookUp(e, v).vex = "NotAffected" => v = Unreachable)
<1>1. IsContext(in.ctx)
  BY DEF Inputs, Fixtures, DefaultAssetCtx, IsContext
<1>2. in.enrichment \in {DefaultEnrichment, BundledEnrichment, NoFlaws}
  BY DEF Inputs, Fixtures
<1>3. ASSUME NEW e, v \notin DOMAIN e PROVE Fits(e)
  BY <1>3 DEF LookUp, UnknownEnrichment, IsEvidence, Maturities
<1>4. Fits(NoFlaws)
  <2>1. v \notin DOMAIN NoFlaws
    BY DEF NoFlaws
  <2> QED BY <2>1, <1>3
<1>5. Fits(DefaultEnrichment)
  <2>1. CASE v \notin DOMAIN DefaultEnrichment
    BY <2>1, <1>3
  <2>2. CASE v \in DOMAIN DefaultEnrichment
    <3>1. v \in {<<"", "CVE-2022-3602">>, <<"", "CVE-2024-6387">>, <<"", "CVE-2024-2961">>}
      BY <2>2 DEF DefaultEnrichment
    <3>2. CASE v = <<"", "CVE-2022-3602">>
      <4>1. DefaultEnrichment[v] = [cvss |-> 75, epss |-> 4, kev |-> FALSE, maturity |-> "Functional", vex |-> "Affected"]
        BY <3>2 DEF DefaultEnrichment
      <4> QED BY <2>2, <4>1 DEF LookUp, IsEvidence, Maturities
    <3>3. CASE v = <<"", "CVE-2024-6387">>
      <4>1. DefaultEnrichment[v] = [cvss |-> 81, epss |-> 6, kev |-> TRUE, maturity |-> "Weaponized", vex |-> "Affected"]
        BY <3>3 DEF DefaultEnrichment
      <4> QED BY <2>2, <4>1 DEF LookUp, IsEvidence, Maturities
    <3>4. CASE v = <<"", "CVE-2024-2961">>
      <4>1. DefaultEnrichment[v] = [cvss |-> 90, epss |-> 5, kev |-> FALSE, maturity |-> "Functional", vex |-> "NotAffected"]
        BY <3>4 DEF DefaultEnrichment
      <4>2. LookUp(DefaultEnrichment, v) = DefaultEnrichment[v]
        BY <2>2 DEF LookUp
      <4>3. IsEvidence(DefaultEnrichment[v])
        BY <4>1 DEF IsEvidence, Maturities
      <4> QED BY <3>4, <4>2, <4>3 DEF Unreachable
    <3> QED BY <3>1, <3>2, <3>3, <3>4
  <2> QED BY <2>1, <2>2
<1>6. Fits(BundledEnrichment)
  <2>1. CASE v \notin DOMAIN BundledEnrichment
    BY <2>1, <1>3
  <2>2. CASE v \in DOMAIN BundledEnrichment
    <3> DEFINE nvd == ParseCvss(LoadNvdSource(Nvd))
               osv == ParseCvss(LoadOsvSource(Osv))
               epss == ParseEpss(EpssLines)
               kev == {<<"", x>> : x \in Kev}
               rated == IF v \in DOMAIN nvd THEN nvd[v]
                        ELSE IF v \in DOMAIN osv THEN osv[v] ELSE [score |-> 0, maturity |-> "None"]
    <3>1. BundledEnrichment[v] =
            [cvss |-> rated.score, epss |-> IF v \in DOMAIN epss THEN epss[v] ELSE 0, kev |-> v \in kev,
             maturity |-> IF v \in kev THEN "Weaponized" ELSE rated.maturity, vex |-> "Affected"]
      BY <2>2 DEF BundledEnrichment
    <3>2. v \in DOMAIN nvd => nvd[v].score \in Nat /\ nvd[v].maturity \in Maturities
      BY EvidenceAssumption, CvssTyped DEF LoadNvdSource
    <3>3. v \in DOMAIN osv => osv[v].score \in Nat /\ osv[v].maturity \in Maturities
      BY EvidenceAssumption, CvssTyped DEF LoadOsvSource
    <3>4. v \in DOMAIN epss => epss[v] \in Nat
      BY EpssTyped
    <3> HIDE DEF nvd, osv, epss, kev
    <3>5. rated.score \in Nat /\ rated.maturity \in Maturities
      BY <3>2, <3>3 DEF Maturities
    <3> HIDE DEF rated
    <3> QED BY <2>2, <3>1, <3>4, <3>5 DEF LookUp, IsEvidence, Maturities
  <2> QED BY <2>1, <2>2
<1> HIDE DEF in, Fits
<1>7. Fits(in.enrichment)
  BY <1>2, <1>4, <1>5, <1>6
<1> QED BY <1>1, <1>7 DEF in, Fits
-----------------------------------------------------------------------------
(* Scores. *)

\* The factors of a score are positive numbers.
LEMMA FactorsTyped ==
  ASSUME NEW ctx, IsContext(ctx)
  PROVE  ExposureFactor(ctx) \in {4, 7, 8, 14} /\ CriticalityWeight(ctx.criticality) \in {5, 9, 12, 15}
<1>1. 14 \div 2 = 7 /\ 8 \div 2 = 4 /\ 14 \div 1 = 14 /\ 8 \div 1 = 8
  OBVIOUS
<1>2. ExposureFactor(ctx) \in {4, 7, 8, 14}
  BY <1>1 DEF ExposureFactor, IsContext
<1> QED BY <1>2 DEF CriticalityWeight, IsContext

\* Products of numbers are numbers.
LEMMA ProductTyped ==
  ASSUME NEW x \in Nat, NEW y \in Nat
  PROVE  x * y \in Nat
  OBVIOUS

\* The score of a flaw does not fall as its reach grows.
LEMMA ScoreGrows ==
  ASSUME NEW enr, IsEvidence(enr), NEW ctx, IsContext(ctx), NEW g \in {0, 3, 10}, NEW h \in {0, 3, 10}, g <= h
  PROVE  RecomputeScore(enr, ctx, g) <= RecomputeScore(enr, ctx, h)
<1> DEFINE l == AtMost(AtLeast(enr.epss, ExploitMaturityWeight(enr.maturity)), 10)
           A == AtMost(enr.cvss, 100) * (40 + 6 * l) * ExposureFactor(ctx) * CriticalityWeight(ctx.criticality)
           Score(x) == AtMost((x + 50000) \div 100000, 100)
<1>1. l \in Nat
  <2>1. ExploitMaturityWeight(enr.maturity) \in Nat
    BY DEF ExploitMaturityWeight, IsEvidence, Maturities
  <2>2. enr.epss \in Nat
    BY DEF IsEvidence
  <2> QED BY <2>1, <2>2 DEF AtMost, AtLeast
<1>2. AtMost(enr.cvss, 100) \in Nat
  <2>1. enr.cvss \in Nat
    BY DEF IsEvidence
  <2> QED BY <2>1 DEF AtMost
<1>3. ExposureFactor(ctx) \in Nat /\ CriticalityWeight(ctx.criticality) \in Nat
  BY FactorsTyped
<1>4. A \in Nat
  <2> HIDE DEF l
  <2>1. 40 + 6 * l \in Nat
    BY <1>1
  <2>2. AtMost(enr.cvss, 100) * (40 + 6 * l) \in Nat
    BY <1>2, <2>1, ProductTyped
  <2>3. AtMost(enr.cvss, 100) * (40 + 6 * l) * ExposureFactor(ctx) \in Nat
    BY <1>3, <2>2, ProductTyped
  <2> QED BY <1>3, <2>3, ProductTyped
<1>5. RecomputeScore(enr, ctx, g) = Score(A * g) /\ RecomputeScore(enr, ctx, h) = Score(A * h)
  BY DEF RecomputeScore
<1> HIDE DEF A
<1>6. A * g \in Nat /\ A * h \in Nat /\ A * g <= A * h
  BY <1>4
<1>7. \A x, y \in Nat : x <= y => Score(x) <= Score(y)
  BY DEF AtMost
<1> HIDE DEF Score
<1> QED BY <1>5, <1>6, <1>7

\* What Engine::run makes of a detection.
Scored(c, enrichment, ctx, reach) ==
  LET enr == LookUp(enrichment, VulnOf(c.id))
      g == EffectiveReach(c.id, enr.vex, reach)
      r == RecomputeScore(enr, ctx, g)
  IN  NewFinding(c.id, c.key, r, Decide(r, enr.kev, g), IF enr.vex = "NotAffected" THEN "Suppressed" ELSE "Open")

\* Its parts.
LEMMA ScoredParts ==
  ASSUME NEW c, NEW enrichment, NEW ctx, NEW reach
  PROVE  LET f == Scored(c, enrichment, ctx, reach)
             enr == LookUp(enrichment, VulnOf(c.id))
         IN  /\ f.id = c.id
             /\ f.r = RecomputeScore(enr, ctx, EffectiveReach(c.id, enr.vex, reach))
             /\ f.status = IF enr.vex = "NotAffected" THEN "Suppressed" ELSE "Open"
  BY DEF Scored, NewFinding

\* Engine::run scores the correlated detections.
LEMMA EngineScores ==
  ASSUME NEW D, NEW enrichment, NEW ctx, NEW reach
  PROVE  EngineRun(D, enrichment, ctx, reach) = {Scored(c, enrichment, ctx, reach) : c \in Correlate(D)}
  BY DEF EngineRun, Scored

\* What was seen at run time raises the reach of a flaw.
LEMMA ReachRaised ==
  ASSUME NEW i, NEW vex \in {"Affected", "Unknown", "NotAffected"}, NEW reach
  PROVE  /\ EffectiveReach(i, vex, reach) \in {0, 3, 10} /\ EffectiveReach(i, vex, NoReachability) \in {0, 3, 10}
         /\ EffectiveReach(i, vex, NoReachability) <= EffectiveReach(i, vex, reach)
<1>1. EffectiveReach(i, vex, NoReachability) = ReachGate(vex)
  BY DEF EffectiveReach, NoReachability, HasData
<1>2. ReachGate(vex) \in {0, 3, 10}
  BY DEF ReachGate
<1>3. EffectiveReach(i, vex, reach) \in {10, ReachGate(vex)}
  BY DEF EffectiveReach
<1> QED BY <1>1, <1>2, <1>3

\* Seeing a library loaded lowers no score and leaves every status.
LEMMA SightRaises ==
  ASSUME NEW D, NEW program, NEW flags, NEW reach,
         NEW f \in EngineRun(D, Inputs(program, flags).enrichment, Inputs(program, flags).ctx, reach)
  PROVE  \E g \in EngineRun(D, Inputs(program, flags).enrichment, Inputs(program, flags).ctx, NoReachability) :
           g.id = f.id /\ g.r <= f.r /\ g.status = f.status
<1> DEFINE en == Inputs(program, flags).enrichment
           ctx == Inputs(program, flags).ctx
<1>0. IsContext(ctx) /\ \A v : IsEvidence(LookUp(en, v))
  BY EvidenceTyped
<1> HIDE DEF en, ctx
<1>1. PICK c \in Correlate(D) : f = Scored(c, en, ctx, reach)
  BY EngineScores DEF en, ctx
<1> DEFINE g == Scored(c, en, ctx, NoReachability)
           enr == LookUp(en, VulnOf(c.id))
<1>2. g \in EngineRun(D, en, ctx, NoReachability)
  BY EngineScores
<1>3. /\ g.id = c.id /\ f.id = c.id /\ g.status = f.status
      /\ g.r = RecomputeScore(enr, ctx, EffectiveReach(c.id, enr.vex, NoReachability))
      /\ f.r = RecomputeScore(enr, ctx, EffectiveReach(c.id, enr.vex, reach))
  BY <1>1, ScoredParts
<1>4. IsEvidence(enr)
  BY <1>0
<1> HIDE DEF g, enr
<1>5. g.r <= f.r
  <2>1. enr.vex \in {"Affected", "Unknown", "NotAffected"}
    BY <1>4 DEF IsEvidence
  <2> DEFINE lo == EffectiveReach(c.id, enr.vex, NoReachability)
             hi == EffectiveReach(c.id, enr.vex, reach)
  <2>2. lo \in {0, 3, 10} /\ hi \in {0, 3, 10} /\ lo <= hi
    BY <2>1, ReachRaised
  <2> HIDE DEF lo, hi
  <2>3. RecomputeScore(enr, ctx, lo) <= RecomputeScore(enr, ctx, hi)
    BY <1>0, <1>4, <2>2, ScoreGrows
  <2> QED BY <1>3, <2>3 DEF lo, hi
<1> QED BY <1>2, <1>3, <1>5 DEF en, ctx
-----------------------------------------------------------------------------
(* Activity. *)

\* A finding of a thing seen in a batch, scored with one of the weights.
Weighed(f, b, class, ctx, ident, W) ==
  \E h : \E w \in Things(b, class), x \in W :
    /\ f.id = FindingIdFor(h, ident[w][1], ident[w][2], ident[w][3])
    /\ f.r = RecomputeComplianceScore(x, ctx) /\ f.status = "Open"
Weights(b, class) == UNION {{RuleWeight(class, r) : r \in e.body.rules} : e \in Flagged(b, class)}

\* A finding of activity: its identity, and its score from a weight of its class.
LEMMA AggregateParts ==
  ASSUME NEW b, NEW class, NEW ctx, NEW key, NEW ident, NEW f \in Aggregate(b, class, ctx, key, ident),
         NEW W, W \subseteq 1..100, Weights(b, class) \subseteq W
  PROVE  Weighed(f, b, class, ctx, ident, W)
<1> DEFINE same(p) == {e \in Flagged(b, class) : e.host = p[1] /\ e.body.what = p[2]}
           weights(p) == UNION {{RuleWeight(class, r) : r \in e.body.rules} : e \in same(p)}
<1>1. PICK p \in {<<e.host, e.body.what>> : e \in Flagged(b, class)} :
        f = WeightedFinding(p[1], ident[p[2]][1], ident[p[2]][2], ident[p[2]][3],
                            CHOOSE w \in weights(p) : \A v \in weights(p) : v <= w, key, ctx)
  BY DEF Aggregate
<1>2. PICK e \in Flagged(b, class) : p = <<e.host, e.body.what>>
  BY <1>1
<1>3. e \in same(p) /\ p[2] \in Things(b, class) /\ e.body.rules # {}
  BY <1>2 DEF Things, Flagged
<1>4. weights(p) # {} /\ weights(p) \subseteq W
  <2>1. weights(p) \subseteq Weights(b, class)
    BY DEF Weights
  <2> QED BY <1>3, <2>1
<1> DEFINE x == LastIndex(weights(p))
<1>5. x \in W
  <2> DEFINE K == weights(p)
  <2>1. K # {} /\ K \subseteq 1..100 /\ K \subseteq W
    BY <1>4
  <2> HIDE DEF K
  <2>2. LastIndex(K) \in K
    BY <2>1, LastOfPositions
  <2> QED BY <2>1, <2>2 DEF K
<1>6. f = WeightedFinding(p[1], ident[p[2]][1], ident[p[2]][2], ident[p[2]][3], x, key, ctx)
  BY <1>1 DEF LastIndex
<1> HIDE DEF x
<1>7. /\ f.id = FindingIdFor(p[1], ident[p[2]][1], ident[p[2]][2], ident[p[2]][3])
      /\ f.r = RecomputeComplianceScore(x, ctx) /\ f.status = "Open"
  BY <1>6 DEF WeightedFinding, NewFinding
<1> HIDE DEF same, weights
<1> DEFINE h == p[1]
           w == p[2]
<1>8. /\ w \in Things(b, class)
      /\ f.id = FindingIdFor(h, ident[w][1], ident[w][2], ident[w][3])
  BY <1>3, <1>7
<1> HIDE DEF h, w
<1> QED BY <1>5, <1>7, <1>8 DEF Weighed

\* The weights of the policy.
LEMMA WeightsKnown ==
  ASSUME NEW r
  PROVE  /\ RuleWeight("process", r) \in {30, 40, 50, 70}
         /\ RuleWeight("network", r) \in {30, 40, 70}
         /\ RuleWeight("file", r) \in {30, 50, 80}
         /\ RuleWeight("correlation", r) \in {30, 90, 95}
         /\ r \in ChainRules => RuleWeight("correlation", r) \in {90, 95}
<1>1. /\ RuleWeight("process", r) = ProcessWeight(r) /\ RuleWeight("network", r) = NetworkWeight(r)
      /\ RuleWeight("file", r) = FileWeight(r) /\ RuleWeight("correlation", r) = CorrelationWeight(r)
  BY DEF RuleWeight
<1> QED BY <1>1 DEF ProcessWeight, NetworkWeight, FileWeight, CorrelationWeight, ChainRules

\* Twenty points of weight are told apart below the highest score.
LEMMA WeightTells ==
  ASSUME NEW ctx, IsContext(ctx), NEW x \in 90..100, NEW y \in 0..70
  PROVE  RecomputeComplianceScore(x, ctx) > RecomputeComplianceScore(y, ctx)
         \/ RecomputeComplianceScore(y, ctx) = 100
<1> DEFINE E == ExposureFactor(ctx)
           C == CriticalityWeight(ctx.criticality)
           Score(w) == AtMost((w * E * C + 50) \div 100, 100)
<1>1. E \in {4, 7, 8, 14} /\ C \in {5, 9, 12, 15}
  BY FactorsTyped
<1>2. RecomputeComplianceScore(x, ctx) = Score(x) /\ RecomputeComplianceScore(y, ctx) = Score(y)
  BY DEF RecomputeComplianceScore, AtMost
<1> HIDE DEF E, C
<1>3. ASSUME NEW k \in Nat, k >= 20
      PROVE  /\ x * k \in Nat /\ y * k \in Nat /\ y * k + 20 * k <= x * k
  BY <1>3
<1>4. PICK k \in Nat : k = E * C /\ k >= 20 /\ x * E * C = x * k /\ y * E * C = y * k
  BY <1>1
<1>5. \A a, c \in Nat : a + 400 <= c =>
        AtMost((c + 50) \div 100, 100) > AtMost((a + 50) \div 100, 100) \/ AtMost((a + 50) \div 100, 100) = 100
  BY DEF AtMost
<1>6. x * k \in Nat /\ y * k \in Nat /\ y * k + 400 <= x * k
  <2>1. x * k \in Nat /\ y * k \in Nat /\ y * k + 20 * k <= x * k
    BY <1>3, <1>4
  <2> DEFINE a == x * k
             c == y * k
  <2>2. a \in Nat /\ c \in Nat /\ c + 20 * k <= a
    BY <2>1
  <2> HIDE DEF a, c
  <2>3. c + 400 <= a
    BY <1>4, <2>2
  <2> QED BY <2>2, <2>3 DEF a, c
<1> QED BY <1>2, <1>4, <1>5, <1>6

-----------------------------------------------------------------------------
(* Batches. *)

PostureLocations == {"/etc/ssh/sshd_config", "package-manager", "/etc/login.defs", "packages", "filesystem"}
ControlIds == {"sshd-root-login-disabled", "telnet-not-installed", "password-max-days"}
DriftIds == {"openssl-pinned", "telnet-absent"}
WatchIds == {"fim-sshd-config", "fim-passwd"}

\* What the records of a batch say, whatever the hosts were like.
BodyFits(c) ==
  /\ c.class = "sbom" => \A x \in c.comps : x.source \in Sources
  /\ c.class = "correlation" => (Unset \notin ToSet(c.what) => c.rules \subseteq ChainRules)
  /\ c.class \in {"compliance", "drift", "fim"} => \A r \in c.records : r.location \in PostureLocations
  /\ c.class = "compliance" => \A r \in c.records : r.id \in ControlIds
  /\ c.class = "drift" => \A r \in c.records : r.id \in DriftIds
  /\ c.class = "fim" => \A r \in c.records : r.id \in WatchIds
BatchFits(b) == \A e \in b : BodyFits(e.body)

\* The controls an organisation has left on are built-in ones.
LEMMA ControlsKnown ==
  ASSUME NEW c \in ApplyOverrides(BuiltinControls, Overrides)
  PROVE  c.id \in ControlIds /\ c.location \in PostureLocations
<1>1. PICK d \in BuiltinControls : c = d \/ c = [d EXCEPT !.weight = Overrides[d.id].weight]
  BY DEF ApplyOverrides
<1>2. d.id \in ControlIds /\ d.location \in PostureLocations
  BY DEF BuiltinControls, Rule, ControlIds, PostureLocations
<1>3. \E i, t, s, l, w, k : d = Rule(i, t, s, l, w, k)
  BY DEF BuiltinControls
<1>4. c.id = d.id /\ c.location = d.location
  BY <1>1, <1>3 DEF Rule
<1> QED BY <1>2, <1>4

\* The posture records of a host.
LEMMA PostureFits ==
  ASSUME NEW snapshot, NEW c \in Posture(snapshot)
  PROVE  BodyFits(c)
<1>1. CASE c = [class |-> "compliance",
                records |-> ToRecords(Evaluate(ApplyOverrides(BuiltinControls, Overrides), snapshot), Reported)]
  <2> DEFINE S == ApplyOverrides(BuiltinControls, Overrides)
  <2>1. c.class = "compliance" /\ c.records = ToRecords(Evaluate(S, snapshot), Reported)
    BY <1>1
  <2>2. ASSUME NEW r \in ToRecords(Evaluate(S, snapshot), Reported)
        PROVE  r.id \in ControlIds /\ r.location \in PostureLocations
    <3> HIDE DEF S
    <3>1. PICK x \in Evaluate(S, snapshot) : r.id = x.id /\ r.location = x.location
      BY <2>2 DEF ToRecords
    <3>2. PICK d \in S : x.id = d.id /\ x.location = d.location
      BY <3>1 DEF Evaluate
    <3> QED BY <3>1, <3>2, ControlsKnown DEF S
  <2> HIDE DEF S
  <2> QED BY <2>1, <2>2 DEF BodyFits
<1>2. CASE c = [class |-> "drift", records |-> DetectDrift(BuiltinBaseline, snapshot)]
  <2>1. c.class = "drift" /\ c.records = DetectDrift(BuiltinBaseline, snapshot)
    BY <1>2
  <2>2. ASSUME NEW r \in DetectDrift(BuiltinBaseline, snapshot)
        PROVE  r.id \in DriftIds /\ r.location \in PostureLocations
    <3>1. PICK d \in BuiltinBaseline : r.id = d.entry.id /\ r.location = d.entry.location
      BY <2>2 DEF DetectDrift
    <3> QED BY <3>1 DEF BuiltinBaseline, Rule, DriftIds, PostureLocations
  <2> QED BY <2>1, <2>2 DEF BodyFits
<1>3. CASE c = [class |-> "fim", records |-> CheckIntegrity(BuiltinWatchlist, snapshot)]
  <2>1. c.class = "fim" /\ c.records = CheckIntegrity(BuiltinWatchlist, snapshot)
    BY <1>3
  <2>2. ASSUME NEW r \in CheckIntegrity(BuiltinWatchlist, snapshot)
        PROVE  r.id \in WatchIds /\ r.location \in PostureLocations
    <3>1. PICK d \in BuiltinWatchlist : r.id = d.id /\ r.location = "filesystem"
      BY <2>2 DEF CheckIntegrity
    <3> QED BY <3>1 DEF BuiltinWatchlist, WatchIds, PostureLocations
  <2> QED BY <2>1, <2>2 DEF BodyFits
<1> QED BY <1>1, <1>2, <1>3 DEF Posture

\* What a host emits fits.
LEMMA EmittedFits ==
  ASSUME NEW h \in Hosts, current \in [Hosts -> Conditions]
  PROVE  BatchFits(Emitted(h))
<1> DEFINE c == Host[current[h]]
<1> SUFFICES ASSUME NEW e \in Emitted(h) PROVE BodyFits(e.body)
  BY DEF BatchFits
<1>1. c # Unset /\ c \in {Host[k] : k \in Conditions} \ {Unset}
  BY DEF Emitted
<1>2. PICK y \in {[class |-> "sbom", os |-> c.os, comps |-> c.comps]}
               \cup {[class |-> "load", lib |-> l] : l \in c.loads}
               \cup c.acts \cup Posture(c.snapshot) : e = [host |-> h, body |-> y]
  BY <1>1 DEF Emitted
<1>3. /\ \A x \in c.comps : x.source \in Sources
      /\ \A a \in c.acts :
         /\ a.class \in {"process", "network", "file", "correlation"}
         /\ a.class = "correlation" /\ Unset \notin ToSet(a.what) => a.rules \subseteq ChainRules
  BY <1>1, HostAssumption DEF Sources, ChainRules
<1> HIDE DEF c
<1>4. CASE y = [class |-> "sbom", os |-> c.os, comps |-> c.comps]
  <2>1. y.class = "sbom" /\ y.comps = c.comps
    BY <1>4
  <2> QED BY <2>1, <1>3, <1>2 DEF BodyFits
<1>5. CASE y \in {[class |-> "load", lib |-> l] : l \in c.loads}
  <2>1. y.class = "load"
    BY <1>5
  <2> QED BY <2>1, <1>2 DEF BodyFits
<1>6. CASE y \in c.acts
  BY <1>2, <1>3, <1>6 DEF BodyFits
<1>7. CASE y \in Posture(c.snapshot)
  BY <1>2, <1>7, PostureFits
<1> QED BY <1>2, <1>4, <1>5, <1>6, <1>7
-----------------------------------------------------------------------------
(* Identities. *)

\* What the identities of a mapper's findings have in common.
OfMapper(m, i) ==
  /\ m = "vuln" => i[2][1] = "" /\ i[4] \in Sources
  /\ m = "process" => i[2][1] = "process"
  /\ m = "network" => i[2][1] = "network"
  /\ m = "file" => i[2][1] = "file"
  /\ m = "correlation" => i[2][1] = "correlation"
  /\ m \in {"compliance", "drift", "fim"} => i[2][1] = "" /\ i[4] \in PostureLocations
  /\ m = "compliance" => i[2][2] \in ControlIds
  /\ m = "drift" => i[2][2] \in DriftIds
  /\ m = "fim" => i[2][2] \in WatchIds

\* The parts of an identity.
LEMMA IdentityParts ==
  ASSUME NEW i, NEW h, NEW v, NEW c, NEW l, i = FindingIdFor(h, v, c, l)
  PROVE  i[2] = v /\ i[4] = l
  BY DEF FindingIdFor

Mappers == {"vuln", "process", "network", "file", "correlation", "compliance", "drift", "fim"}

\* No identity is of two mappers.
LEMMA MappersApart ==
  ASSUME NEW m \in Mappers, NEW n \in Mappers, NEW i, OfMapper(m, i), OfMapper(n, i)
  PROVE  m = n
<1>1. Sources \cap PostureLocations = {}
  BY DEF Sources, PostureLocations
<1>2. ControlIds \cap DriftIds = {} /\ ControlIds \cap WatchIds = {} /\ DriftIds \cap WatchIds = {}
  BY DEF ControlIds, DriftIds, WatchIds
<1> QED BY <1>1, <1>2 DEF OfMapper, Mappers

\* The detections of an inventory are all equally sure, so correlate keeps some of them.
LEMMA CorrelateKeeps ==
  ASSUME NEW D, \A d \in D : d.confidence = 95, NEW c \in Correlate(D)
  PROVE  c \in D
<1>1. PICK i \in {d.id : d \in D} :
        c = CHOOSE d \in D : d.id = i /\ \A e \in D : e.id = i => e.confidence <= d.confidence
  BY DEF Correlate
<1>2. PICK d \in D : d.id = i
  BY <1>1
<1>3. \A e \in D : e.id = i => e.confidence <= d.confidence
  BY 95 <= 95
<1> QED BY <1>1, <1>2, <1>3

\* The flaws that are found in a batch are of components.
LEMMA VulnIdentity ==
  ASSUME NEW b, BatchFits(b), NEW in, NEW f \in VulnFindings(b, in)
  PROVE  OfMapper("vuln", f.id)
<1> DEFINE D == DetectionsFromSbom(b, in.feed)
<1>1. ASSUME NEW d \in D
      PROVE  d.confidence = 95 /\ OfMapper("vuln", d.id)
  <2> DEFINE Hit(e, c, h) == [id |-> FindingIdFor(e.host, <<"", h.vuln>>, c.name, c.source),
                              key |-> h.key, confidence |-> 95]
             Hits(e, c) == HitsFor(in.feed, c.source, e.body.os, c.name, c.version)
             Comps(e) == {{Hit(e, c, h) : h \in Hits(e, c)} : c \in e.body.comps}
  <2>0. D = UNION {UNION Comps(e) : e \in Of(b, "sbom")}
    BY DEF DetectionsFromSbom
  <2>1. PICK e \in Of(b, "sbom") : d \in UNION Comps(e)
    <3> HIDE DEF Comps, D
    <3> QED BY <1>1, <2>0
  <2>2. PICK c \in e.body.comps : d \in {Hit(e, c, h) : h \in Hits(e, c)}
    <3> HIDE DEF Hit, Hits
    <3> QED BY <2>1
  <2>3. PICK h \in HitsFor(in.feed, c.source, e.body.os, c.name, c.version) :
            d = [id |-> FindingIdFor(e.host, <<"", h.vuln>>, c.name, c.source), key |-> h.key, confidence |-> 95]
    BY <2>2
  <2>4. d.confidence = 95 /\ d.id = FindingIdFor(e.host, <<"", h.vuln>>, c.name, c.source)
    BY <2>3
  <2>5. c.source \in Sources
    BY <2>1, <2>2 DEF Of, BatchFits, BodyFits
  <2>6. d.id[2][1] = "" /\ d.id[4] \in Sources
    <3> DEFINE v == <<"", h.vuln>>
               i == d.id
               host == e.host
               name == c.name
               l == c.source
    <3>1. i = FindingIdFor(host, v, name, l) /\ v[1] = ""
      BY <2>4
    <3>2. l \in Sources
      BY <2>5
    <3>3. i[2][1] = "" /\ i[4] \in Sources
      <4> HIDE DEF v, i, host, name, l, D, Hit, Hits, Comps
      <4>1. i[2] = v /\ i[4] = l
        BY <3>1 DEF FindingIdFor
      <4> QED BY <3>1, <3>2, <4>1
    <3> QED BY <3>3
  <2> QED BY <2>4, <2>6 DEF OfMapper
<1> HIDE DEF D
<1> DEFINE reach == RuntimeReachability(b)
<1> HIDE DEF reach
<1>2. PICK c \in Correlate(D) : f = Scored(c, in.enrichment, in.ctx, reach)
  BY EngineScores DEF VulnFindings, D, reach
<1>3. f.id = c.id
  BY <1>2, ScoredParts
<1>4. c \in D
  BY <1>1, CorrelateKeeps
<1> QED BY <1>1, <1>3, <1>4

\* The activity that is found in a batch.
LEMMA ProcessIdentity ==
  ASSUME NEW b, NEW ctx, NEW f \in ProcessFindings(b, ctx)
  PROVE  /\ OfMapper("process", f.id) /\ f.status = "Open"
         /\ \E x \in 0..70 : f.r = RecomputeComplianceScore(x, ctx)
<1> DEFINE ident == [w \in Things(b, "process") |-> <<<<"process", w[1]>>, w[1], "process">>]
           W == {30, 40, 50, 70}
<1>1. W \subseteq 1..100 /\ W \subseteq 0..70 /\ Weights(b, "process") \subseteq W
  BY WeightsKnown DEF Weights
<1>2. f \in Aggregate(b, "process", ctx, <<"triage-suspicious-process">>, ident)
  BY DEF ProcessFindings
<1> HIDE DEF W, ident
<1>3. Weighed(f, b, "process", ctx, ident, W)
  <2> DEFINE key == <<"triage-suspicious-process">>
  <2> HIDE DEF key
  <2>1. f \in Aggregate(b, "process", ctx, key, ident)
    BY <1>2 DEF key
  <2> QED BY <1>1, <2>1, AggregateParts
<1>4. PICK h : \E w \in Things(b, "process"), x \in W :
           /\ f.id = FindingIdFor(h, ident[w][1], ident[w][2], ident[w][3])
           /\ f.r = RecomputeComplianceScore(x, ctx) /\ f.status = "Open"
  BY <1>3 DEF Weighed
<1>5. PICK w \in Things(b, "process"), x \in W :
           /\ f.id = FindingIdFor(h, ident[w][1], ident[w][2], ident[w][3])
           /\ f.r = RecomputeComplianceScore(x, ctx) /\ f.status = "Open"
  BY <1>4
<1>6. ident[w][1] = <<"process", w[1]>>
  BY <1>5 DEF ident
<1>7. f.id[2] = <<"process", w[1]>>
  BY <1>5, <1>6, IdentityParts
<1> QED BY <1>1, <1>5, <1>7 DEF OfMapper

\* So with connections.
LEMMA NetworkIdentity ==
  ASSUME NEW b, NEW ctx, NEW f \in NetworkFindings(b, ctx)
  PROVE  /\ OfMapper("network", f.id) /\ f.status = "Open"
         /\ \E x \in 0..70 : f.r = RecomputeComplianceScore(x, ctx)
<1> DEFINE ident == [w \in Things(b, "network") |-> <<<<"network", w[1]>>, w[1], "network">>]
           W == {30, 40, 70}
<1>1. W \subseteq 1..100 /\ W \subseteq 0..70 /\ Weights(b, "network") \subseteq W
  BY WeightsKnown DEF Weights
<1>2. f \in Aggregate(b, "network", ctx, <<"triage-suspicious-connection">>, ident)
  BY DEF NetworkFindings
<1> HIDE DEF W, ident
<1>3. Weighed(f, b, "network", ctx, ident, W)
  <2> DEFINE key == <<"triage-suspicious-connection">>
  <2> HIDE DEF key
  <2>1. f \in Aggregate(b, "network", ctx, key, ident)
    BY <1>2 DEF key
  <2> QED BY <1>1, <2>1, AggregateParts
<1>4. PICK h : \E w \in Things(b, "network"), x \in W :
           /\ f.id = FindingIdFor(h, ident[w][1], ident[w][2], ident[w][3])
           /\ f.r = RecomputeComplianceScore(x, ctx) /\ f.status = "Open"
  BY <1>3 DEF Weighed
<1>5. PICK w \in Things(b, "network"), x \in W :
           /\ f.id = FindingIdFor(h, ident[w][1], ident[w][2], ident[w][3])
           /\ f.r = RecomputeComplianceScore(x, ctx) /\ f.status = "Open"
  BY <1>4
<1>6. ident[w][1] = <<"network", w[1]>>
  BY <1>5 DEF ident
<1>7. f.id[2] = <<"network", w[1]>>
  BY <1>5, <1>6, IdentityParts
<1> QED BY <1>1, <1>5, <1>7 DEF OfMapper

\* So with files.
LEMMA FileIdentity ==
  ASSUME NEW b, NEW ctx, NEW f \in FileActivityFindings(b, ctx)
  PROVE  OfMapper("file", f.id) /\ f.status = "Open"
<1> DEFINE ident == [w \in Things(b, "file") |-> <<<<"file", w[1]>>, w[1], w[1]>>]
           W == {30, 50, 80}
<1>1. W \subseteq 1..100 /\ Weights(b, "file") \subseteq W
  BY WeightsKnown DEF Weights
<1>2. f \in Aggregate(b, "file", ctx, <<"triage-suspicious-file-activity">>, ident)
  BY DEF FileActivityFindings
<1> HIDE DEF W, ident
<1>3. Weighed(f, b, "file", ctx, ident, W)
  <2> DEFINE key == <<"triage-suspicious-file-activity">>
  <2> HIDE DEF key
  <2>1. f \in Aggregate(b, "file", ctx, key, ident)
    BY <1>2 DEF key
  <2> QED BY <1>1, <2>1, AggregateParts
<1>4. PICK h : \E w \in Things(b, "file"), x \in W :
           /\ f.id = FindingIdFor(h, ident[w][1], ident[w][2], ident[w][3])
           /\ f.r = RecomputeComplianceScore(x, ctx) /\ f.status = "Open"
  BY <1>3 DEF Weighed
<1>5. PICK w \in Things(b, "file"), x \in W :
           /\ f.id = FindingIdFor(h, ident[w][1], ident[w][2], ident[w][3])
           /\ f.r = RecomputeComplianceScore(x, ctx) /\ f.status = "Open"
  BY <1>4
<1>6. ident[w][1] = <<"file", w[1]>>
  BY <1>5 DEF ident
<1>7. f.id[2] = <<"file", w[1]>>
  BY <1>5, <1>6, IdentityParts
<1> QED BY <1>1, <1>5, <1>7 DEF OfMapper

\* So with chains, and those that end in a connection weigh most.
LEMMA ChainIdentity ==
  ASSUME NEW b, BatchFits(b), NEW ctx, NEW f \in CorrelationFindings(b, ctx)
  PROVE  /\ OfMapper("correlation", f.id) /\ f.status = "Open"
         /\ \E x \in 90..100 : f.r = RecomputeComplianceScore(x, ctx)
<1> DEFINE ident == [w \in Things(b, "correlation") |-> <<<<"correlation", w[1], w[2]>>, w[1], "correlation">>]
           W == {90, 95}
<1>0. ASSUME NEW e \in Flagged(b, "correlation"), NEW r \in e.body.rules
      PROVE  RuleWeight("correlation", r) \in W
  <2>1. e \in b /\ e.body.class = "correlation" /\ Unset \notin ToSet(e.body.what)
    BY <1>0 DEF Flagged, Of
  <2>2. r \in ChainRules
    BY <1>0, <2>1 DEF BatchFits, BodyFits
  <2> QED BY <2>2, WeightsKnown
<1>1. W \subseteq 1..100 /\ W \subseteq 90..100 /\ Weights(b, "correlation") \subseteq W
  BY <1>0 DEF Weights
<1>2. f \in Aggregate(b, "correlation", ctx, <<"triage-attack-chain">>, ident)
  BY DEF CorrelationFindings
<1> HIDE DEF W, ident
<1>3. Weighed(f, b, "correlation", ctx, ident, W)
  <2> DEFINE key == <<"triage-attack-chain">>
  <2> HIDE DEF key
  <2>1. f \in Aggregate(b, "correlation", ctx, key, ident)
    BY <1>2 DEF key
  <2> QED BY <1>1, <2>1, AggregateParts
<1>4. PICK h : \E w \in Things(b, "correlation"), x \in W :
           /\ f.id = FindingIdFor(h, ident[w][1], ident[w][2], ident[w][3])
           /\ f.r = RecomputeComplianceScore(x, ctx) /\ f.status = "Open"
  BY <1>3 DEF Weighed
<1>5. PICK w \in Things(b, "correlation"), x \in W :
           /\ f.id = FindingIdFor(h, ident[w][1], ident[w][2], ident[w][3])
           /\ f.r = RecomputeComplianceScore(x, ctx) /\ f.status = "Open"
  BY <1>4
<1>6. ident[w][1] = <<"correlation", w[1], w[2]>>
  BY <1>5 DEF ident
<1>7. f.id[2] = <<"correlation", w[1], w[2]>>
  BY <1>5, <1>6, IdentityParts
<1>8. f.id[2][1] = "correlation"
  BY <1>7
<1> QED BY <1>1, <1>5, <1>8 DEF OfMapper

\* The posture that fails in a batch.
LEMMA PostureIdentity ==
  ASSUME NEW b, BatchFits(b), NEW ctx, NEW class \in {"compliance", "drift", "fim"},
         NEW f \in UNION {Failing(e, ctx) : e \in Of(b, class)}
  PROVE  OfMapper(class, f.id)
<1>1. PICK e \in Of(b, class) : f \in Failing(e, ctx)
  OBVIOUS
<1>2. PICK r \in e.body.records :
        f = WeightedFinding(e.host, <<"", r.id>>, r.subject, r.location, r.weight, r.key, ctx)
  BY <1>1 DEF Failing
<1>3. f.id = FindingIdFor(e.host, <<"", r.id>>, r.subject, r.location)
  BY <1>2 DEF WeightedFinding, NewFinding
<1>4. f.id[2][1] = "" /\ f.id[2][2] = r.id /\ f.id[4] = r.location
  <2> DEFINE v == <<"", r.id>>
             i == f.id
             host == e.host
             name == r.subject
             l == r.location
  <2>1. i = FindingIdFor(host, v, name, l) /\ v[1] = "" /\ v[2] = r.id
    BY <1>3
  <2>2. i[2] = v /\ i[4] = l
    <3> HIDE DEF v, i, host, name, l
    <3> QED BY <2>1, IdentityParts
  <2>3. i[2][1] = "" /\ i[2][2] = r.id /\ i[4] = l
    <3> HIDE DEF v, i, l
    <3> QED BY <2>1, <2>2
  <2> QED BY <2>3
<1>5. e.body.class = class /\ BodyFits(e.body)
  BY <1>1 DEF Of, BatchFits
<1>6. /\ r.location \in PostureLocations
      /\ class = "compliance" => r.id \in ControlIds
      /\ class = "drift" => r.id \in DriftIds
      /\ class = "fim" => r.id \in WatchIds
  BY <1>5 DEF BodyFits
<1> QED BY <1>4, <1>6 DEF OfMapper

\* Every mapper has identities of its own.
LEMMA MapperIdentity ==
  ASSUME NEW b, BatchFits(b), NEW in, NEW m \in DOMAIN Mapped(b, in), NEW f \in Mapped(b, in)[m]
  PROVE  m \in Mappers /\ OfMapper(m, f.id)
<1>1. m \in Mappers
  BY DEF Mapped, Mappers
<1>2. CASE m = "vuln"
  <2>1. f \in VulnFindings(b, in)
    BY <1>2 DEF Mapped
  <2> QED BY <1>1, <1>2, <2>1, VulnIdentity
<1>3. CASE m = "process"
  <2>1. f \in ProcessFindings(b, in.ctx)
    BY <1>3 DEF Mapped
  <2> QED BY <1>1, <1>3, <2>1, ProcessIdentity
<1>4. CASE m = "network"
  <2>1. f \in NetworkFindings(b, in.ctx)
    BY <1>4 DEF Mapped
  <2> QED BY <1>1, <1>4, <2>1, NetworkIdentity
<1>5. CASE m = "file"
  <2>1. f \in FileActivityFindings(b, in.ctx)
    BY <1>5 DEF Mapped
  <2> QED BY <1>1, <1>5, <2>1, FileIdentity
<1>6. CASE m = "correlation"
  <2>1. f \in CorrelationFindings(b, in.ctx)
    BY <1>6 DEF Mapped
  <2> QED BY <1>1, <1>6, <2>1, ChainIdentity
<1>7. CASE m = "compliance"
  <2>1. f \in UNION {Failing(e, in.ctx) : e \in Of(b, "compliance")}
    BY <1>7 DEF Mapped, ComplianceFindings
  <2> QED BY <1>1, <1>7, <2>1, PostureIdentity
<1>8. CASE m = "drift"
  <2>1. f \in UNION {Failing(e, in.ctx) : e \in Of(b, "drift")}
    BY <1>8 DEF Mapped, DriftFindings
  <2> QED BY <1>1, <1>8, <2>1, PostureIdentity
<1>9. CASE m = "fim"
  <2>1. f \in UNION {Failing(e, in.ctx) : e \in Of(b, "fim")}
    BY <1>9 DEF Mapped, FimFindings
  <2> QED BY <1>1, <1>9, <2>1, PostureIdentity
<1> QED BY <1>1, <1>2, <1>3, <1>4, <1>5, <1>6, <1>7, <1>8, <1>9 DEF Mappers
-----------------------------------------------------------------------------
(* What a report lists. *)

\* No finding of activity or posture is of the flaw that is out of reach.
LEMMA OnlyFlawsUnreachable ==
  ASSUME NEW m \in Mappers, NEW i, OfMapper(m, i), VulnOf(i) = Unreachable
  PROVE  m = "vuln"
<1>1. i[2] = Unreachable
  BY DEF VulnOf
<1>2. Unreachable[1] = "" /\ Unreachable[2] = "CVE-2024-2961"
  BY DEF Unreachable
<1>3. Unreachable[2] \notin ControlIds \cup DriftIds \cup WatchIds
  BY <1>2 DEF ControlIds, DriftIds, WatchIds
<1> QED BY <1>1, <1>2, <1>3 DEF OfMapper, Mappers

\* A finding of a flaw the feed says cannot be reached is suppressed.
LEMMA UnreachableSuppressed ==
  ASSUME NEW b, BatchFits(b), NEW program, NEW flags,
         NEW m \in DOMAIN Mapped(b, Inputs(program, flags)), NEW f \in Mapped(b, Inputs(program, flags))[m],
         LookUp(Inputs(program, flags).enrichment, VulnOf(f.id)).vex = "NotAffected"
  PROVE  f.status = "Suppressed"
<1> DEFINE in == Inputs(program, flags)
<1>1. m \in Mappers /\ OfMapper(m, f.id)
  BY MapperIdentity
<1>2. VulnOf(f.id) = Unreachable
  BY EvidenceTyped
<1>3. m = "vuln"
  BY <1>1, <1>2, OnlyFlawsUnreachable
<1> HIDE DEF in
<1>4. f \in VulnFindings(b, in)
  BY <1>3 DEF Mapped, in
<1> DEFINE reach == RuntimeReachability(b)
           D == DetectionsFromSbom(b, in.feed)
<1>5. f \in EngineRun(D, in.enrichment, in.ctx, reach)
  BY <1>4 DEF VulnFindings
<1> HIDE DEF reach, D
<1>6. PICK c \in Correlate(D) : f = Scored(c, in.enrichment, in.ctx, reach)
  BY <1>5, EngineScores
<1>7. /\ f.id = c.id
      /\ f.status = IF LookUp(in.enrichment, VulnOf(c.id)).vex = "NotAffected" THEN "Suppressed" ELSE "Open"
  BY <1>6, ScoredParts
<1> QED BY <1>7 DEF in

\* reconcile leaves a suppressed finding as it is.
LEMMA ReconcileLeaves ==
  ASSUME NEW prior, NEW fresh, NEW now, \A f \in fresh : IsFinding(f),
         NEW f \in Reconcile(prior, fresh, now)
  PROVE  \E g \in fresh : f.id = g.id /\ (g.status = "Suppressed" => f.status = "Suppressed")
<1>1. PICK g \in fresh :
        f = [g EXCEPT !.first = IF g.id \in DOMAIN prior /\ prior[g.id].first # Unset
                                THEN prior[g.id].first ELSE now,
                      !.last = now,
                      !.status = IF @ = "Open" /\ g.id \in DOMAIN prior
                                    /\ prior[g.id].status = "Closed" THEN "Reopened" ELSE @]
  BY Zenon DEF Reconcile
<1>2. IsFinding(g)
  OBVIOUS
<1>3. /\ f.id = g.id
      /\ f.status = IF g.status = "Open" /\ g.id \in DOMAIN prior
                       /\ prior[g.id].status = "Closed" THEN "Reopened" ELSE g.status
  BY <1>1, <1>2 DEF IsFinding
<1> QED BY <1>3

\* The items of a report close no flaw the feed says cannot be reached.
LEMMA ItemsReachable ==
  ASSUME NEW b, BatchFits(b), NEW program, NEW flags, NEW prior, NEW now,
         NEW item \in RunAllIngest(b, Inputs(program, flags), prior, now).items, NEW v \in item.closes
  PROVE  LookUp(Inputs(program, flags).enrichment, v).vex # "NotAffected"
<1> DEFINE in == Inputs(program, flags)
           M == Mapped(b, in)
           found == Reconciled(prior, M, now)
<1>1. item \in GroupByFix(Actionable(found))
  BY DEF RunAllIngest, Report
<1>2. PICK k \in {f.key : f \in Actionable(found)} :
        item.closes = {VulnOf(f.id) : f \in {f \in Actionable(found) : f.key = k}}
  <2> HIDE DEF found
  <2> QED BY <1>1 DEF GroupByFix
<1>3. PICK f \in Actionable(found) : v = VulnOf(f.id)
  BY <1>2
<1>4. f \in found /\ f.status # "Suppressed"
  BY <1>3 DEF Actionable
<1>5. PICK m \in DOMAIN M : f \in Reconcile(prior, M[m], now)
  BY <1>4 DEF Reconciled
<1>6. \A g \in M[m] : IsFinding(g)
  BY MappedFinds
<1>7. PICK g \in M[m] : f.id = g.id /\ (g.status = "Suppressed" => f.status = "Suppressed")
  <2> HIDE DEF M, found
  <2> QED BY <1>5, <1>6, ReconcileLeaves
<1>8. LookUp(in.enrichment, VulnOf(g.id)).vex = "NotAffected" => g.status = "Suppressed"
  BY UnreachableSuppressed
<1> HIDE DEF in, M, found
<1>9. LookUp(in.enrichment, v).vex # "NotAffected"
  BY <1>3, <1>4, <1>7, <1>8
<1> QED BY <1>9 DEF in

-----------------------------------------------------------------------------
(* The runs. *)

\* What a run has read fits, and what it is about to publish can be reached.
RunFits(r) ==
  /\ run[r].pc \in {"read", "loaded"} => BatchFits(run[r].batch)
  /\ \A item \in run[r].report.items : \A v \in item.closes :
       LookUp(InputsOf(r).enrichment, v).vex # "NotAffected"
RiskInv == current \in [Hosts -> Conditions] /\ \A r \in Runs : RunFits(r)

\* A run that has forgotten its report.
LEMMA ForgetfulFits ==
  ASSUME NEW r \in Runs, NEW pc, NEW flags, pc \notin {"read", "loaded"}, run'[r] = RunAt(pc, flags)
  PROVE  RunFits(r)'
  BY DEF RunFits, RunAt

\* What is computed from a batch that fits.
LEMMA ComputedFits ==
  ASSUME RunsTyped, RiskInv, NEW r \in Runs, NEW prior, NEW pc, pc \notin {"read", "loaded"},
         run[r].pc \in {"read", "loaded"}, Computed(r, prior, pc)
  PROVE  /\ RunFits(r)' /\ \A q \in Runs \ {r} : run'[q] = run[q]
<1> DEFINE rep == RunAllIngest(run[r].batch, InputsOf(r), prior, run[r].time)
           cf == CarryForward(prior, rep.findings)
           new == [RunAt(pc, run[r].flags) EXCEPT !.report = [rep EXCEPT !.findings = cf]]
<1>1. run' = [run EXCEPT ![r] = new]
  BY DEF Computed
<1>2. DOMAIN rep = {"findings", "items"}
  BY DEF RunAllIngest, Report
<1> HIDE DEF rep, cf
<1>3. new.pc = pc /\ new.flags = run[r].flags /\ new.report.items = rep.items
  BY <1>2 DEF RunAt
<1> HIDE DEF new
<1>4. run'[r] = new /\ \A q \in Runs \ {r} : run'[q] = run[q]
  BY <1>1 DEF RunsTyped
<1>5. BatchFits(run[r].batch)
  BY DEF RiskInv, RunFits
<1>6. \A item \in rep.items : \A v \in item.closes : LookUp(InputsOf(r).enrichment, v).vex # "NotAffected"
  BY <1>5, ItemsReachable DEF InputsOf, rep
<1>7. InputsOf(r)' = InputsOf(r)
  BY <1>3, <1>4 DEF InputsOf
<1> QED BY <1>3, <1>4, <1>6, <1>7 DEF RunFits

\* Every step of a run keeps its batch and its report right.
LEMMA RunStepFits ==
  ASSUME RunsTyped, RiskInv, NEW r \in Runs,
         \/ ReadBatch(r) \/ Malformed(r) \/ LoadPrior(r) \/ Compute(r)
         \/ ComputeStoreless(r) \/ MergeStored(r)
         \/ WriteTemp(r) \/ SyncTemp(r) \/ RenameTemp(r) \/ WriteFindings(r) \/ WriteRemediation(r) \/ Fail(r)
  PROVE  RunFits(r)' /\ (\A q \in Runs \ {r} : run'[q] = run[q]) /\ UNCHANGED current
<1>0. run = [q \in Runs |-> run[q]] /\ IsRun(run[r]) /\ RunFits(r)
  BY DEF RunsTyped, RiskInv
<1>1. CASE ReadBatch(r)
  <2>1. PICK flags : run' = [run EXCEPT ![r] = [RunAt("read", flags) EXCEPT
                 !.batch = UNION {Emitted(h) : h \in Hosts},
                 !.time = Cardinality({q \in Runs : run[q].pc # "idle"}) + 1]]
    BY <1>1 DEF ReadBatch
  <2> DEFINE n == Cardinality({q \in Runs : run[q].pc # "idle"}) + 1
             all == UNION {Emitted(h) : h \in Hosts}
             new == [RunAt("read", flags) EXCEPT !.batch = all, !.time = n]
  <2>2. BatchFits(all)
    BY EmittedFits DEF RiskInv, BatchFits
  <2>3. run' = [run EXCEPT ![r] = new]
    BY <2>1
  <2> HIDE DEF n, all
  <2>4. new.batch = all /\ new.report.items = {}
    BY DEF RunAt
  <2> HIDE DEF new
  <2>5. run'[r] = new /\ \A q \in Runs \ {r} : run'[q] = run[q]
    BY <1>0, <2>3
  <2>6. UNCHANGED current
    BY <1>1 DEF ReadBatch
  <2> QED BY <2>2, <2>4, <2>5, <2>6 DEF RunFits
<1>2. CASE LoadPrior(r)
  <2>1. run' = [run EXCEPT ![r].pc = "loaded", ![r].prior = store.findings] /\ UNCHANGED current /\ run[r].pc = "read"
    BY <1>2 DEF LoadPrior
  <2>2. /\ run'[r].batch = run[r].batch /\ run'[r].report = run[r].report /\ run'[r].flags = run[r].flags
        /\ \A q \in Runs \ {r} : run'[q] = run[q]
    BY <1>0, <2>1 DEF IsRun
  <2>3. InputsOf(r)' = InputsOf(r)
    BY <2>2 DEF InputsOf
  <2> QED BY <1>0, <2>1, <2>2, <2>3 DEF RunFits
<1>3. CASE Compute(r)
  BY <1>3, ComputedFits DEF Compute
<1>4. CASE ComputeStoreless(r)
  BY <1>4, ComputedFits DEF ComputeStoreless
<1>5. CASE MergeStored(r)
  <2> DEFINE m == Merged(store.findings, run[r].report.findings)
             new == [RunAt("merged", run[r].flags) EXCEPT !.merged = m]
  <2>1. run' = [run EXCEPT ![r] = new] /\ UNCHANGED current
    BY <1>5 DEF MergeStored
  <2> HIDE DEF m
  <2>2. new.pc = "merged" /\ new.report.items = {}
    BY DEF RunAt
  <2> HIDE DEF new
  <2>3. run'[r] = new /\ \A q \in Runs \ {r} : run'[q] = run[q]
    BY <1>0, <2>1
  <2> QED BY <2>1, <2>2, <2>3 DEF RunFits
<1>6. CASE WriteTemp(r) \/ SyncTemp(r)
  <2>1. PICK pc \in {"writing", "written"}, temp \in {"part", "whole"} : run' = [run EXCEPT ![r].pc = pc, ![r].temp = temp]
    BY <1>6 DEF WriteTemp, SyncTemp
  <2>1a. UNCHANGED current
    BY <1>6 DEF WriteTemp, SyncTemp
  <2>2. /\ run'[r].pc = pc /\ run'[r].report = run[r].report /\ run'[r].flags = run[r].flags
        /\ \A q \in Runs \ {r} : run'[q] = run[q]
    BY <1>0, <2>1 DEF IsRun
  <2>3. InputsOf(r)' = InputsOf(r)
    BY <2>2 DEF InputsOf
  <2> QED BY <1>0, <2>1, <2>1a, <2>2, <2>3 DEF RunFits
<1>7. ASSUME NEW pc, pc \notin {"read", "loaded"}, NEW flags, run' = [run EXCEPT ![r] = RunAt(pc, flags)]
      PROVE  RunFits(r)' /\ (\A q \in Runs \ {r} : run'[q] = run[q])
  <2>1. run'[r] = RunAt(pc, flags) /\ \A q \in Runs \ {r} : run'[q] = run[q]
    BY <1>0, <1>7
  <2> QED BY <1>7, <2>1, ForgetfulFits
<1>8. CASE Malformed(r)
  BY <1>8, <1>7 DEF Malformed
<1>9. CASE RenameTemp(r)
  <2> DEFINE pc == IF Program[r] = "torda-ingest" THEN "done" ELSE "stored"
  <2>1. run' = [run EXCEPT ![r] = RunAt(pc, run[r].flags)] /\ pc \notin {"read", "loaded"} /\ UNCHANGED current
    BY <1>9 DEF RenameTemp
  <2> HIDE DEF pc
  <2> QED BY <2>1, <1>7
<1>10. CASE WriteFindings(r)
  BY <1>10, <1>7 DEF WriteFindings
<1>11. CASE WriteRemediation(r)
  BY <1>11, <1>7 DEF WriteRemediation
<1>12. CASE Fail(r)
  BY <1>12, <1>7 DEF Fail
<1> QED BY <1>1, <1>2, <1>3, <1>4, <1>5, <1>6, <1>8, <1>9, <1>10, <1>11, <1>12

\* Every step keeps the runs right.
LEMMA RiskKept ==
  ASSUME RunsTyped, RiskInv, [IngestNext]_ingestVars
  PROVE  RiskInv'
<1>1. CASE UNCHANGED <<run, current>>
  BY <1>1 DEF RiskInv, RunFits, InputsOf
<1>2. ASSUME NEW r \in Runs, RunFits(r)', \A q \in Runs \ {r} : run'[q] = run[q], UNCHANGED current
      PROVE  RiskInv'
  <2>1. \A q \in Runs \ {r} : RunFits(q)'
    BY <1>2 DEF RiskInv, RunFits, InputsOf
  <2> QED BY <1>2, <2>1 DEF RiskInv
<1>3. CASE HostChanges
  <2>1. current' \in [Hosts -> Conditions] /\ UNCHANGED run
    BY <1>3 DEF HostChanges, RiskInv
  <2> QED BY <2>1 DEF RiskInv, RunFits, InputsOf
<1>4. CASE OperatorDecides \/ RemediationCloses
  <2>1. UNCHANGED <<run, current>>
    BY <1>4 DEF OperatorDecides, RemediationCloses, Decision
  <2> QED BY <1>1, <2>1
<1>5. CASE \E r \in Runs :
         \/ ReadBatch(r) \/ Malformed(r) \/ LoadPrior(r) \/ Compute(r)
         \/ ComputeStoreless(r) \/ MergeStored(r)
         \/ WriteTemp(r) \/ SyncTemp(r) \/ RenameTemp(r) \/ WriteFindings(r) \/ WriteRemediation(r) \/ Fail(r)
  BY <1>5, <1>2, RunStepFits
<1>6. CASE UNCHANGED ingestVars
  BY <1>6, <1>1 DEF ingestVars
<1> QED BY <1>3, <1>4, <1>5, <1>6 DEF IngestNext

\* What is known of the runs says all of RiskRanked.
LEMMA RiskFollows ==
  ASSUME RiskInv
  PROVE  RiskRanked
<1>1. FeedSuppressedNotListed
  BY DEF RiskInv, RunFits, FeedSuppressedNotListed
<1> DEFINE Read == {r \in Runs : run[r].pc = "read"}
<1>2. ASSUME NEW B \in Fresh
      PROVE  \E r \in Runs : B[1] = run[r].batch /\ B[2] = Inputs(Program[r], run[r].flags) /\ BatchFits(B[1])
  BY <1>2 DEF Fresh, InputsOf, RiskInv, RunFits
<1>3. NoDoubleCount
  <2> SUFFICES ASSUME NEW B \in Fresh, NEW m \in DOMAIN Mapped(B[1], B[2]), NEW n \in DOMAIN Mapped(B[1], B[2]),
                      NEW f \in Mapped(B[1], B[2])[m], NEW g \in Mapped(B[1], B[2])[n], f.id = g.id
               PROVE  m = n
    BY DEF NoDoubleCount
  <2>1. BatchFits(B[1])
    BY <1>2
  <2> DEFINE b == B[1]
             in == B[2]
  <2> HIDE DEF b, in
  <2>2. m \in Mappers /\ OfMapper(m, f.id)
    BY <2>1, MapperIdentity DEF b, in
  <2>3. n \in Mappers /\ OfMapper(n, g.id)
    BY <2>1, MapperIdentity
  <2> QED BY <2>2, <2>3, MappersApart
<1>4. UpgradeOnly
  <2> SUFFICES ASSUME NEW B \in Fresh, NEW f \in VulnFindings(B[1], B[2])
               PROVE  \E g \in EngineRun(DetectionsFromSbom(B[1], B[2].feed), B[2].enrichment, B[2].ctx, NoReachability) :
                        g.id = f.id /\ g.r <= f.r /\ g.status = f.status
    BY DEF UpgradeOnly
  <2>1. PICK r \in Runs : B[2] = Inputs(Program[r], run[r].flags)
    BY <1>2
  <2>2. f \in EngineRun(DetectionsFromSbom(B[1], B[2].feed), B[2].enrichment, B[2].ctx, RuntimeReachability(B[1]))
    BY DEF VulnFindings
  <2> QED BY <2>1, <2>2, SightRaises
<1>5. ChainRanksHigher
  <2> SUFFICES ASSUME NEW B \in Fresh, NEW c \in CorrelationFindings(B[1], B[2].ctx),
                      NEW f \in ProcessFindings(B[1], B[2].ctx) \cup NetworkFindings(B[1], B[2].ctx)
               PROVE  c.r > f.r \/ f.r = 100
    BY DEF ChainRanksHigher
  <2>1. IsContext(B[2].ctx) /\ BatchFits(B[1])
    BY <1>2, EvidenceTyped
  <2>2. PICK x \in 90..100 : c.r = RecomputeComplianceScore(x, B[2].ctx)
    BY <2>1, ChainIdentity
  <2>3. PICK y \in 0..70 : f.r = RecomputeComplianceScore(y, B[2].ctx)
    BY ProcessIdentity, NetworkIdentity
  <2> QED BY <2>1, <2>2, <2>3, WeightTells
<1> QED BY <1>1, <1>3, <1>4, <1>5 DEF RiskRanked

\* RiskRanked (run_all_ingest and its mappers): whatever the hosts hold and however the
\* runs interleave, no two mappers score one thing, no fix is asked for a flaw the feed
\* says cannot be reached, sight of a library lowers no score, and a chain outranks its
\* halves.
THEOREM RiskAlwaysRanked == IngestSpec => []RiskRanked
<1>1. IngestInit => RiskInv
  <2> SUFFICES ASSUME IngestInit, NEW r \in Runs PROVE RunFits(r)
    BY DEF IngestInit, RiskInv
  <2>1. run[r] = RunAt("idle", {})
    BY DEF IngestInit
  <2> QED BY <2>1 DEF RunFits, RunAt
<1>2. IngestInv /\ RiskInv /\ [IngestNext]_ingestVars => RiskInv'
  BY RiskKept DEF IngestInv
<1>3. RiskInv => RiskRanked
  BY RiskFollows
<1> QED BY <1>1, <1>2, <1>3, IngestInvariance, PTL DEF IngestSpec
(***************************************************************************)
(* Versions: the comparisons are orders.                                   *)
(***************************************************************************)

\* What a comparison answers.
Told == {-1, 0, 1}

\* Of three comparisons, the first with the second, the second with the third and the
\* first with the third: they can be those of an order.
Chained(x, y, z) == x <= 0 /\ y <= 0 => z <= 0 /\ (z = 0 <=> x = 0 /\ y = 0)

\* Numbers are ordered.
LEMMA SgnOrders ==
  ASSUME NEW m \in Int, NEW n \in Int, NEW o \in Int
  PROVE  /\ Sgn(m - n) \in Told /\ Sgn(n - m) = -Sgn(m - n)
         /\ Chained(Sgn(m - n), Sgn(n - o), Sgn(m - o))
         /\ Sgn(m - n) = 0 <=> m = n
  BY DEF Sgn, Told, Chained

\* One order after another.
LEMMA ThenOrders ==
  ASSUME NEW x \in Told, NEW y \in Told, NEW z \in Told,
         NEW u \in Told, NEW v \in Told, NEW w \in Told,
         Chained(x, y, z), Chained(u, v, w)
  PROVE  Chained(Then(x, u), Then(y, v), Then(z, w))
  BY DEF Then, Told, Chained

\* Both ways round.
LEMMA ThenTurns ==
  ASSUME NEW x \in Told, NEW u \in Told
  PROVE  Then(x, u) \in Told /\ Then(-x, -u) = -Then(x, u)
  BY DEF Then, Told

\* The first comparison that tells.
LEMMA FirstTells ==
  ASSUME NEW n \in Nat, NEW c \in [1..n -> Told]
  PROVE  \/ FirstNonzero(c) = 0 /\ \A k \in 1..n : c[k] = 0
         \/ \E k \in 1..n : FirstNonzero(c) = c[k] /\ c[k] # 0 /\ \A l \in 1..(k - 1) : c[l] = 0
<1> DEFINE D == {k \in DOMAIN c : c[k] # 0}
<1>1. CASE D = {}
  BY <1>1 DEF FirstNonzero
<1>2. CASE D # {}
  <2> DEFINE k == CHOOSE k \in D : \A l \in D : k <= l
  <2>1. D \subseteq Nat
    OBVIOUS
  <2>2. \E m \in D : \A l \in D : m <= l
    BY <1>2, <2>1, LeastNat
  <2>3. k \in D /\ \A l \in D : k <= l
    BY <2>2
  <2>4. FirstNonzero(c) = c[k]
    BY <1>2 DEF FirstNonzero
  <2> HIDE DEF k
  <2>5. \A l \in 1..(k - 1) : c[l] = 0
    BY <2>3
  <2> QED BY <2>3, <2>4, <2>5
<1> QED BY <1>1, <1>2

\* Such comparisons, place by place, are an order.
LEMMA FirstOrders ==
  ASSUME NEW n \in Nat, NEW c \in [1..n -> Told], NEW d \in [1..n -> Told], NEW e \in [1..n -> Told],
         \A k \in 1..n : Chained(c[k], d[k], e[k])
  PROVE  Chained(FirstNonzero(c), FirstNonzero(d), FirstNonzero(e))
<1> DEFINE x == FirstNonzero(c)
           y == FirstNonzero(d)
           z == FirstNonzero(e)
<1>1. \/ x = 0 /\ \A k \in 1..n : c[k] = 0
      \/ \E k \in 1..n : x = c[k] /\ c[k] # 0 /\ \A l \in 1..(k - 1) : c[l] = 0
  BY FirstTells
<1>2. \/ y = 0 /\ \A k \in 1..n : d[k] = 0
      \/ \E k \in 1..n : y = d[k] /\ d[k] # 0 /\ \A l \in 1..(k - 1) : d[l] = 0
  BY FirstTells
<1>3. \/ z = 0 /\ \A k \in 1..n : e[k] = 0
      \/ \E k \in 1..n : z = e[k] /\ e[k] # 0 /\ \A l \in 1..(k - 1) : e[l] = 0
  BY FirstTells
<1> HIDE DEF x, y, z
<1>4. x \in Told /\ y \in Told /\ z \in Told
  BY <1>1, <1>2, <1>3 DEF Told
<1> SUFFICES ASSUME x <= 0, y <= 0 PROVE z <= 0 /\ (z = 0 <=> x = 0 /\ y = 0)
  BY DEF Chained, x, y, z
<1>5. \A k \in 1..n : c[k] <= 0 /\ d[k] <= 0 => e[k] <= 0 /\ (e[k] = 0 <=> c[k] = 0 /\ d[k] = 0)
  BY DEF Chained
<1>6. CASE x = 0 /\ y = 0
  <2>1. \A k \in 1..n : e[k] = 0
    BY <1>1, <1>2, <1>5, <1>6 DEF Told
  <2> QED BY <1>3, <1>6, <2>1
<1>7. CASE ~(x = 0 /\ y = 0)
  <2>1. PICK k \in 1..n : /\ c[k] <= 0 /\ d[k] <= 0 /\ (c[k] # 0 \/ d[k] # 0)
                          /\ \A l \in 1..(k - 1) : c[l] = 0 /\ d[l] = 0
    <3>1. CASE x = 0
      BY <1>1, <1>2, <1>7, <3>1
    <3>2. CASE y = 0
      BY <1>1, <1>2, <1>7, <3>2
    <3>3. CASE x # 0 /\ y # 0
      <4>1. PICK i \in 1..n : x = c[i] /\ c[i] # 0 /\ \A l \in 1..(i - 1) : c[l] = 0
        BY <1>1, <3>3
      <4>2. PICK j \in 1..n : y = d[j] /\ d[j] # 0 /\ \A l \in 1..(j - 1) : d[l] = 0
        BY <1>2, <3>3
      <4>3. CASE i <= j
        <5>1. d[i] <= 0
          BY <4>2, <4>3
        <5> QED BY <4>1, <4>2, <4>3, <5>1
      <4>4. CASE j < i
        <5>1. c[j] <= 0
          BY <4>1, <4>4
        <5> QED BY <4>1, <4>2, <4>4, <5>1
      <4> QED BY <4>3, <4>4
    <3> QED BY <3>1, <3>2, <3>3
  <2>2. e[k] < 0
    <3>1. e[k] <= 0 /\ e[k] # 0
      BY <1>5, <2>1
    <3>2. e[k] \in Told
      OBVIOUS
    <3> QED BY <3>1, <3>2 DEF Told
  <2>3. \A l \in 1..(k - 1) : e[l] = 0
    <3> TAKE l \in 1..(k - 1)
    <3>1. l \in 1..n /\ c[l] = 0 /\ d[l] = 0
      BY <2>1
    <3> QED BY <1>5, <3>1
  <2>4. PICK m \in 1..n : z = e[m] /\ e[m] # 0 /\ \A l \in 1..(m - 1) : e[l] = 0
    BY <1>3, <2>2
  <2>5. m = k
    BY <2>2, <2>3, <2>4
  <2>6. z <= 0 /\ z # 0
    BY <1>4, <2>2, <2>4, <2>5 DEF Told
  <2> QED BY <1>7, <2>6
<1> QED BY <1>6, <1>7

\* Both ways round.
LEMMA FirstTurns ==
  ASSUME NEW n \in Nat, NEW c \in [1..n -> Told], NEW d \in [1..n -> Told],
         \A k \in 1..n : d[k] = -c[k]
  PROVE  FirstNonzero(c) \in Told /\ FirstNonzero(d) = -FirstNonzero(c)
<1>1. \/ FirstNonzero(c) = 0 /\ \A k \in 1..n : c[k] = 0
      \/ \E k \in 1..n : FirstNonzero(c) = c[k] /\ c[k] # 0 /\ \A l \in 1..(k - 1) : c[l] = 0
  BY FirstTells
<1>2. \/ FirstNonzero(d) = 0 /\ \A k \in 1..n : d[k] = 0
      \/ \E k \in 1..n : FirstNonzero(d) = d[k] /\ d[k] # 0 /\ \A l \in 1..(k - 1) : d[l] = 0
  BY FirstTells
<1>3. CASE \A k \in 1..n : c[k] = 0
  <2>1. \A k \in 1..n : d[k] = 0
    BY <1>3
  <2> QED BY <1>1, <1>2, <1>3, <2>1 DEF Told
<1>4. CASE ~\A k \in 1..n : c[k] = 0
  <2>1. PICK i \in 1..n : FirstNonzero(c) = c[i] /\ c[i] # 0 /\ \A l \in 1..(i - 1) : c[l] = 0
    BY <1>1, <1>4
  <2>2. \A k \in 1..n : c[k] \in Told
    OBVIOUS
  <2>3. d[i] # 0
    BY <2>1, <2>2 DEF Told
  <2>4. PICK j \in 1..n : FirstNonzero(d) = d[j] /\ d[j] # 0 /\ \A l \in 1..(j - 1) : d[l] = 0
    BY <1>2, <2>3
  <2>5. c[j] # 0
    BY <2>4
  <2>6. i = j
    BY <2>1, <2>3, <2>4, <2>5
  <2> QED BY <2>1, <2>4, <2>6
<1> QED BY <1>3, <1>4

\* More places, of which the next one tells if any does.
Extended(m, n, c, d, x) ==
  /\ m \in Nat /\ n \in Nat /\ m <= n
  /\ c \in [1..m -> Told] /\ d \in [1..n -> Told] /\ x \in Told
  /\ \A k \in 1..m : d[k] = c[k]
  /\ (m < n => d[m + 1] = x) /\ (m = n => x = 0)
  /\ x = 0 => \A k \in (m + 1)..n : d[k] = 0

\* Then the places before decide, and the next one when they do not.
LEMMA FirstExtended ==
  ASSUME NEW m, NEW n, NEW c, NEW d, NEW x, Extended(m, n, c, d, x)
  PROVE  FirstNonzero(d) = Then(FirstNonzero(c), x)
<1> USE DEF Extended
<1>1. \/ FirstNonzero(c) = 0 /\ \A k \in 1..m : c[k] = 0
      \/ \E k \in 1..m : FirstNonzero(c) = c[k] /\ c[k] # 0 /\ \A l \in 1..(k - 1) : c[l] = 0
  BY FirstTells
<1>2. \/ FirstNonzero(d) = 0 /\ \A k \in 1..n : d[k] = 0
      \/ \E k \in 1..n : FirstNonzero(d) = d[k] /\ d[k] # 0 /\ \A l \in 1..(k - 1) : d[l] = 0
  BY FirstTells
<1>3. CASE \E k \in 1..m : c[k] # 0
  <2>1. PICK i \in 1..m : FirstNonzero(c) = c[i] /\ c[i] # 0 /\ \A l \in 1..(i - 1) : c[l] = 0
    BY <1>1, <1>3
  <2>2. i \in 1..n /\ d[i] # 0
    BY <2>1
  <2>3. PICK j \in 1..n : FirstNonzero(d) = d[j] /\ d[j] # 0 /\ \A l \in 1..(j - 1) : d[l] = 0
    BY <1>2, <2>2
  <2>4. \A l \in 1..(i - 1) : d[l] = 0
    BY <2>1
  <2>5. i = j
    BY <2>2, <2>3, <2>4
  <2> QED BY <2>1, <2>3, <2>5 DEF Then
<1>4. CASE \A k \in 1..m : c[k] = 0
  <2>1. \A k \in 1..m : d[k] = 0
    BY <1>4
  <2>2. FirstNonzero(c) = 0
    BY <1>1, <1>4
  <2>3. CASE x = 0
    <3>1. \A k \in 1..n : d[k] = 0
      BY <2>1, <2>3
    <3> QED BY <1>2, <2>2, <2>3, <3>1 DEF Then
  <2>4. CASE x # 0
    <3>1. m + 1 \in 1..n /\ d[m + 1] = x
      BY <2>4
    <3>2. PICK j \in 1..n : FirstNonzero(d) = d[j] /\ d[j] # 0 /\ \A l \in 1..(j - 1) : d[l] = 0
      BY <1>2, <2>4, <3>1
    <3>3. j = m + 1
      BY <2>1, <2>4, <3>1, <3>2
    <3> QED BY <2>2, <3>1, <3>2, <3>3 DEF Then
  <2> QED BY <2>3, <2>4
<1> QED BY <1>3, <1>4

-----------------------------------------------------------------------------
(* Versions: strings of characters in use. *)

Strings == Seq(DOMAIN Rank)

\* Characters have their code points.
LEMMA CodePoints ==
  ASSUME NEW s \in Strings, NEW k \in 1..Len(s)
  PROVE  s[k] \in DOMAIN Rank /\ Rank[s[k]] \in Nat /\ Rank[s[k]] > 0
<1>1. s[k] \in DOMAIN Rank
  BY DEF Strings
<1> DEFINE c == s[k]
<1>2. c \in DOMAIN Rank
  BY <1>1
<1> HIDE DEF c
<1>3. Rank[c] \in 1..255
  BY <1>2, RankAssumption
<1>4. \A r \in 1..255 : r \in Nat /\ r > 0
  OBVIOUS
<1> QED BY <1>1, <1>3, <1>4 DEF c

\* Where a run ends.
LEMMA RunEnds ==
  ASSUME NEW s \in Strings, NEW i \in Cursors(s), NEW S
  PROVE  /\ RunEnd(s, i, S) \in Cursors(s) /\ i <= RunEnd(s, i, S)
         /\ \A l \in i..(RunEnd(s, i, S) - 1) : s[l] \in S
         /\ ~At(s, RunEnd(s, i, S), S)
         /\ i < RunEnd(s, i, S) <=> At(s, i, S)
<1>0. Len(s) \in Nat /\ i \in Nat /\ i <= Len(s) + 1
  BY DEF Strings, Cursors
<1> DEFINE T == {k \in i..(Len(s) + 1) : k = Len(s) + 1 \/ s[k] \notin S}
           Ends(k) == /\ \A l \in i..(k - 1) : s[l] \in S
                      /\ k = Len(s) + 1 \/ s[k] \notin S
           k == RunEnd(s, i, S)
<1>1. T \subseteq Nat /\ T # {}
  BY <1>0
<1>2. PICK m \in T : \A n \in T : m <= n
  BY <1>1, LeastNat
<1>3. m \in i..(Len(s) + 1) /\ Ends(m)
  BY <1>0, <1>2
<1>4. k = CHOOSE e \in i..(Len(s) + 1) : Ends(e)
  BY DEF RunEnd
<1>5. k \in i..(Len(s) + 1) /\ Ends(k)
  <2> HIDE DEF Ends, k
  <2> QED BY <1>3, <1>4
<1> HIDE DEF k
<1>6. k \in Cursors(s) /\ i <= k /\ \A l \in i..(k - 1) : s[l] \in S
  BY <1>0, <1>5 DEF Cursors
<1>7. ~At(s, k, S)
  BY <1>0, <1>5 DEF At
<1>8. i < k <=> At(s, i, S)
  <2>1. i < k => i \in i..(k - 1) /\ i <= Len(s)
    BY <1>0, <1>5
  <2>2. i < k \/ i = k
    BY <1>0, <1>5
  <2> QED BY <1>6, <1>7, <2>1, <2>2 DEF At
<1> QED BY <1>6, <1>7, <1>8 DEF k

\* Parts of strings are strings.
LEMMA PartOfString ==
  ASSUME NEW s \in Strings, NEW i \in Int, NEW j \in Int, 1 <= i, j <= Len(s)
  PROVE  SubSeq(s, i, j) \in Strings
<1>1. Len(s) \in Nat
  BY DEF Strings
<1>2. \A k \in i..j : s[k] \in DOMAIN Rank
  BY <1>1 DEF Strings
<1> QED BY <1>2, SubSeqProperties DEF Strings

\* Without zeros too.
LEMMA NoZerosString ==
  ASSUME NEW s \in Strings
  PROVE  NoZeros(s) \in Strings
<1>1. Len(s) \in Nat /\ 1 \in Cursors(s)
  BY DEF Strings, Cursors
<1>2. RunEnd(s, 1, {"0"}) \in Cursors(s)
  BY <1>1, RunEnds
<1> QED BY <1>1, <1>2, PartOfString DEF NoZeros, Cursors

\* Numbers are ordered.
LEMMA NumberOrders ==
  ASSUME NEW s \in Strings, NEW t \in Strings, NEW u \in Strings
  PROVE  /\ Number(s, t) \in Told /\ Number(t, s) = -Number(s, t)
         /\ Chained(Number(s, t), Number(t, u), Number(s, u))
<1>0. Len(s) \in Int /\ Len(t) \in Int /\ Len(u) \in Int
  BY DEF Strings
<1> DEFINE C(a, b) == [k \in 1..Len(a) |-> Sgn(Rank[a[k]] - Rank[b[k]])]
<1>1. ASSUME NEW a \in Strings, NEW b \in Strings, Len(a) = Len(b)
      PROVE  /\ \A k \in 1..Len(a) : Rank[a[k]] \in Int /\ Rank[b[k]] \in Int
             /\ C(a, b) \in [1..Len(a) -> Told] /\ FirstDiff(a, b) = FirstNonzero(C(a, b))
  <2>2. \A k \in 1..Len(a) : Rank[a[k]] \in Int /\ Rank[b[k]] \in Int
    BY <1>1, CodePoints
  <2>3. \A k \in 1..Len(a) : Sgn(Rank[a[k]] - Rank[b[k]]) \in Told
    BY <2>2, SgnOrders
  <2> QED BY <2>2, <2>3 DEF FirstDiff
<1> HIDE DEF C
<1>2. Sgn(Len(s) - Len(t)) \in Told /\ Sgn(Len(t) - Len(u)) \in Told /\ Sgn(Len(s) - Len(u)) \in Told
  BY <1>0, SgnOrders
<1>3. Number(s, t) \in Told /\ Number(t, s) = -Number(s, t)
  <2>1. CASE Len(s) = Len(t)
    <3>1. \A k \in 1..Len(s) : C(t, s)[k] = -C(s, t)[k]
      BY <1>1, <2>1, SgnOrders DEF C
    <3>2. FirstNonzero(C(s, t)) \in Told /\ FirstNonzero(C(t, s)) = -FirstNonzero(C(s, t))
      <4>1. Len(s) \in Nat
        BY DEF Strings
      <4> QED BY <1>1, <2>1, <3>1, <4>1, FirstTurns
    <3>3. Number(s, t) = FirstDiff(s, t) /\ Number(t, s) = FirstDiff(t, s)
      BY <1>0, <2>1 DEF Number, Then, Sgn
    <3> QED BY <1>1, <2>1, <3>2, <3>3
  <2>2. CASE Len(s) # Len(t)
    <3>1. Sgn(Len(s) - Len(t)) # 0 /\ Sgn(Len(t) - Len(s)) = -Sgn(Len(s) - Len(t)) /\ Sgn(Len(t) - Len(s)) # 0
      BY <1>0, <2>2 DEF Sgn
    <3> QED BY <1>2, <3>1 DEF Number, Then
  <2> QED BY <2>1, <2>2
<1>4. Chained(Number(s, t), Number(t, u), Number(s, u))
  <2>1. CASE Len(s) = Len(t) /\ Len(t) = Len(u)
    <3>1. \A k \in 1..Len(s) : Chained(C(s, t)[k], C(t, u)[k], C(s, u)[k])
      BY <1>1, <2>1, SgnOrders DEF C
    <3>2. Chained(FirstNonzero(C(s, t)), FirstNonzero(C(t, u)), FirstNonzero(C(s, u)))
      <4>1. Len(s) \in Nat
        BY DEF Strings
      <4>2. C(s, t) \in [1..Len(s) -> Told] /\ C(t, u) \in [1..Len(s) -> Told] /\ C(s, u) \in [1..Len(s) -> Told]
        BY <1>1, <2>1
      <4> QED BY <3>1, <4>1, <4>2, FirstOrders
    <3>3. Number(s, t) = FirstDiff(s, t) /\ Number(t, u) = FirstDiff(t, u) /\ Number(s, u) = FirstDiff(s, u)
      BY <1>0, <2>1 DEF Number, Then, Sgn
    <3> QED BY <1>1, <2>1, <3>2, <3>3
  <2>2. CASE ~(Len(s) = Len(t) /\ Len(t) = Len(u))
    <3> DEFINE x == FirstDiff(s, t)
               y == FirstDiff(t, u)
               z == FirstDiff(s, u)
    <3>1. /\ Len(s) = Len(t) => x \in Told
          /\ Len(t) = Len(u) => y \in Told
      <4>1. ASSUME NEW a \in Strings, NEW b \in Strings, Len(a) = Len(b) PROVE FirstDiff(a, b) \in Told
        <5>1. C(a, b) \in [1..Len(a) -> Told] /\ Len(a) \in Nat /\ FirstDiff(a, b) = FirstNonzero(C(a, b))
          BY <1>1, <4>1 DEF Strings
        <5> QED BY <5>1, FirstTells DEF Told
      <4> QED BY <4>1
    <3> HIDE DEF x, y, z
    <3>2. Chained(Then(Sgn(Len(s) - Len(t)), x), Then(Sgn(Len(t) - Len(u)), y), Then(Sgn(Len(s) - Len(u)), z))
      BY <1>0, <2>2, <3>1 DEF Chained, Then, Sgn, Told
    <3> QED BY <3>2 DEF Number, x, y, z
  <2> QED BY <2>1, <2>2
<1> QED BY <1>3, <1>4

\* Texts are ordered: a text that has ended is a text that goes on with a character
\* before all others.
LEMMA TextOrders ==
  ASSUME NEW s \in Strings, NEW t \in Strings, NEW u \in Strings
  PROVE  /\ Text(s, t) \in Told /\ Text(t, s) = -Text(s, t)
         /\ Chained(Text(s, t), Text(t, u), Text(s, u))
<1>0. Len(s) \in Nat /\ Len(t) \in Nat /\ Len(u) \in Nat
  BY DEF Strings
<1> DEFINE n == Len(s) + Len(t) + Len(u)
           P(a) == [k \in 1..n |-> IF k <= Len(a) THEN Rank[a[k]] ELSE 0]
           C(f, g) == [k \in 1..n |-> Sgn(f[k] - g[k])]
<1>1. n \in Nat /\ Len(s) <= n /\ Len(t) <= n /\ Len(u) <= n
  BY <1>0
<1> HIDE DEF n
<1>2. ASSUME NEW a \in Strings, Len(a) <= n
      PROVE  P(a) \in [1..n -> Nat] /\ \A k \in 1..n : P(a)[k] = 0 <=> k > Len(a)
  <2>0. Len(a) \in Nat
    BY DEF Strings
  <2>1. ASSUME NEW k \in 1..n PROVE P(a)[k] \in Nat /\ (P(a)[k] = 0 <=> k > Len(a))
    <3>1. CASE k <= Len(a)
      <4>1. k \in 1..Len(a)
        BY <1>1, <2>0, <3>1
      <4>2. Rank[a[k]] \in Nat /\ Rank[a[k]] > 0
        BY <4>1, CodePoints
      <4>3. P(a)[k] = Rank[a[k]]
        BY <3>1
      <4> QED BY <1>1, <2>0, <3>1, <4>2, <4>3
    <3>2. CASE k > Len(a)
      <4>1. P(a)[k] = 0
        BY <1>1, <2>0, <3>2
      <4> QED BY <3>2, <4>1
    <3> QED BY <1>1, <2>0, <3>1, <3>2
  <2>2. P(a) = [k \in 1..n |-> P(a)[k]]
    OBVIOUS
  <2> HIDE DEF P
  <2> QED BY <2>1, <2>2
<1>3. ASSUME NEW f \in [1..n -> Nat], NEW g \in [1..n -> Nat], NEW h \in [1..n -> Nat]
      PROVE  /\ C(f, g) \in [1..n -> Told] /\ \A k \in 1..n : C(g, f)[k] = -C(f, g)[k]
             /\ \A k \in 1..n : Chained(C(f, g)[k], C(g, h)[k], C(f, h)[k])
  <2>1. \A k \in 1..n : f[k] \in Int /\ g[k] \in Int /\ h[k] \in Int
    OBVIOUS
  <2> QED BY <2>1, SgnOrders
<1>4. ASSUME NEW a \in Strings, NEW b \in Strings, Len(a) <= n, Len(b) <= n
      PROVE  Text(a, b) = FirstNonzero(C(P(a), P(b)))
  <2>0. Len(a) \in Nat /\ Len(b) \in Nat
    BY DEF Strings
  <2> DEFINE m == IF Len(a) < Len(b) THEN Len(a) ELSE Len(b)
             v == SubSeq(a, 1, m)
             w == SubSeq(b, 1, m)
             c == [k \in 1..m |-> Sgn(Rank[a[k]] - Rank[b[k]])]
             d == C(P(a), P(b))
             x == Sgn(Len(a) - Len(b))
  <2>1. m \in Nat /\ m <= Len(a) /\ m <= Len(b) /\ m <= n
    BY <1>1, <1>4, <2>0
  <2>2. Len(v) = m /\ \A k \in 1..m : v[k] = a[k] /\ w[k] = b[k]
    <3> HIDE DEF m
    <3> QED BY <2>0, <2>1 DEF Strings
  <2>3. Text(a, b) = Then(FirstDiff(v, w), x)
    BY DEF Text
  <2>4. FirstDiff(v, w) = FirstNonzero(c)
    <3> HIDE DEF m, v, w
    <3>1. [k \in 1..Len(v) |-> Sgn(Rank[v[k]] - Rank[w[k]])] = c
      BY <2>2
    <3> QED BY <3>1 DEF FirstDiff
  <2>5. \A k \in 1..n : d[k] = Sgn(P(a)[k] - P(b)[k])
    OBVIOUS
  <2>6. \A k \in 1..m : P(a)[k] = Rank[a[k]] /\ P(b)[k] = Rank[b[k]]
    <3> HIDE DEF m
    <3> QED BY <1>1, <2>0, <2>1
  <2>7. \A k \in 1..m : d[k] = c[k]
    <3>1. \A k \in 1..m : k \in 1..n
      BY <1>1, <2>1
    <3> HIDE DEF m, d, P
    <3> QED BY <2>5, <2>6, <3>1
  <2>8. d \in [1..n -> Told]
    <3>1. P(a) \in [1..n -> Nat] /\ P(b) \in [1..n -> Nat]
      BY <1>2, <1>4
    <3> HIDE DEF P, C
    <3> QED BY <1>3, <3>1
  <2>9. c \in [1..m -> Told]
    <3>1. \A k \in 1..m : k \in 1..n /\ c[k] \in Told
      <4> HIDE DEF m, c, d
      <4> QED BY <1>1, <2>1, <2>7, <2>8
    <3> HIDE DEF m
    <3> QED BY <3>1
  <2>10. x \in Told /\ (m = n => x = 0)
    BY <1>1, <1>4, <2>0 DEF Sgn, Told
  <2> DEFINE f == P(a)
             g == P(b)
  <2>11. /\ f \in [1..n -> Nat] /\ g \in [1..n -> Nat]
         /\ \A k \in 1..n : (f[k] = 0 <=> k > Len(a)) /\ (g[k] = 0 <=> k > Len(b)) /\ d[k] = Sgn(f[k] - g[k])
    BY <1>2, <1>4, <2>5
  <2> HIDE DEF f, g, d, c, v, w
  <2>12. m < n => d[m + 1] = x
    <3> SUFFICES ASSUME m < n PROVE d[m + 1] = x
      OBVIOUS
    <3>1. m + 1 \in 1..n
      BY <1>1, <2>1
    <3> DEFINE i == f[m + 1]
               j == g[m + 1]
    <3>2. i \in Nat /\ j \in Nat /\ (i = 0 <=> m + 1 > Len(a)) /\ (j = 0 <=> m + 1 > Len(b)) /\ d[m + 1] = Sgn(i - j)
      BY <2>11, <3>1
    <3> HIDE DEF i, j
    <3> QED BY <2>0, <3>2 DEF Sgn
  <2>13. x = 0 => \A k \in (m + 1)..n : d[k] = 0
    <3> SUFFICES ASSUME x = 0, NEW k \in (m + 1)..n PROVE d[k] = 0
      OBVIOUS
    <3>1. Len(a) = Len(b) /\ k \in 1..n /\ k > Len(a) /\ k > Len(b)
      BY <1>1, <2>0 DEF Sgn
    <3>2. f[k] = 0 /\ g[k] = 0
      BY <2>11, <3>1
    <3> QED BY <2>11, <3>1, <3>2 DEF Sgn
  <2> HIDE DEF m, x
  <2>14. FirstNonzero(d) = Then(FirstNonzero(c), x)
    <3>1. Extended(m, n, c, d, x)
      BY <1>1, <2>1, <2>7, <2>8, <2>9, <2>10, <2>12, <2>13 DEF Extended
    <3> QED BY <3>1, FirstExtended
  <2> QED BY <2>3, <2>4, <2>14 DEF d
<1> DEFINE f == P(s)
           g == P(t)
           h == P(u)
<1>5. f \in [1..n -> Nat] /\ g \in [1..n -> Nat] /\ h \in [1..n -> Nat]
  BY <1>1, <1>2
<1>6. /\ Text(s, t) = FirstNonzero(C(f, g)) /\ Text(t, s) = FirstNonzero(C(g, f))
      /\ Text(t, u) = FirstNonzero(C(g, h)) /\ Text(s, u) = FirstNonzero(C(f, h))
  BY <1>1, <1>4
<1> HIDE DEF f, g, h, C
<1>7. FirstNonzero(C(f, g)) \in Told /\ FirstNonzero(C(g, f)) = -FirstNonzero(C(f, g))
  BY <1>1, <1>3, <1>5, FirstTurns
<1>8. Chained(FirstNonzero(C(f, g)), FirstNonzero(C(g, h)), FirstNonzero(C(f, h)))
  BY <1>1, <1>3, <1>5, FirstOrders
<1> QED BY <1>6, <1>7, <1>8

-----------------------------------------------------------------------------
(* Versions: two cursors. *)

\* A cursor that moves forward.
Moves(m, n) == m \in [1..n -> 1..n] /\ \A i \in 1..n : i <= m[i]

\* What is here, for every place of the two.
Table(here, m, n) == here \in [(1..m) \X (1..n) -> Told]

\* What a walk says at a place: what is here, or what it says at the next.
Steps(w, here, ma, mb, m, n) ==
  \A i \in 1..m, j \in 1..n :
    w[<<i, j>>] = IF here[<<i, j>>] = 0 /\ (ma[i] # i \/ mb[j] # j)
                  THEN w[<<ma[i], mb[j]>>] ELSE here[<<i, j>>]

\* The same the other way round, and of three.
Turned(back, here, m, n) == \A i \in 1..m, j \in 1..n : back[<<j, i>>] = -here[<<i, j>>]
ChainedTables(ab, bc, ac, m, n, o) ==
  \A i \in 1..m, j \in 1..n, k \in 1..o : Chained(ab[<<i, j>>], bc[<<j, k>>], ac[<<i, k>>])

\* One step of a walk from what is known of the next.
StepOf(here, ma, mb, f, p) ==
  LET q == <<ma[p[1]], mb[p[2]]>> IN IF here[p] = 0 /\ q # p THEN f[q] ELSE here[p]

\* The function a walk is defined by exists: its values follow from the ends backwards.
LEMMA WalkDefined ==
  ASSUME NEW m \in Nat, NEW n \in Nat, NEW ma, NEW mb, Moves(ma, m), Moves(mb, n),
         NEW here
  PROVE  Steps(Walk(here, ma, mb), here, ma, mb, m, n)
<1> DEFINE P == (1..m) \X (1..n)
           S(f, p) == StepOf(here, ma, mb, f, p)
           Left(p) == m + n - p[1] - p[2]
           Right(f, t) == f \in [P -> {f[p] : p \in P}] /\ \A p \in P : Left(p) < t => f[p] = S(f, p)
           Made == {t \in 0..(m + n + 1) : \E f : Right(f, t)}
<1>1. ASSUME NEW p \in P
      PROVE  /\ p = <<p[1], p[2]>> /\ p[1] \in 1..m /\ p[2] \in 1..n
             /\ Left(p) \in 0..(m + n)
             /\ <<ma[p[1]], mb[p[2]]>> \in P
             /\ <<ma[p[1]], mb[p[2]]>> # p => Left(<<ma[p[1]], mb[p[2]]>>) < Left(p)
  <2>1. p = <<p[1], p[2]>> /\ p[1] \in 1..m /\ p[2] \in 1..n
    OBVIOUS
  <2> DEFINE i == p[1]
             j == p[2]
             k == ma[i]
             l == mb[j]
  <2>2. k \in 1..m /\ l \in 1..n /\ i <= k /\ j <= l
    BY <2>1 DEF Moves
  <2>3. <<k, l>> # p => k # i \/ l # j
    BY <2>1
  <2>4. <<k, l>>[1] = k /\ <<k, l>>[2] = l
    OBVIOUS
  <2> HIDE DEF k, l
  <2> QED BY <2>1, <2>2, <2>3, <2>4 DEF k, l
<1>2. 0 \in Made
  <2>1. Right([p \in P |-> 0], 0)
    BY <1>1
  <2> HIDE DEF Right
  <2> QED BY <2>1
<1>3. ASSUME NEW t \in 0..(m + n + 1), t \in Made, t < m + n + 1
      PROVE  t + 1 \in Made
  <2>1. PICK f : Right(f, t)
    BY <1>3
  <2> DEFINE g == [p \in P |-> S(f, p)]
  <2>2. \A p \in P : g[p] = S(f, p)
    OBVIOUS
  <2>3. ASSUME NEW p \in P, Left(p) < t + 1 PROVE S(g, p) = S(f, p)
    <3> DEFINE q == <<ma[p[1]], mb[p[2]]>>
    <3>1. q \in P /\ (q # p => Left(q) < Left(p))
      BY <1>1
    <3>2. Left(q) \in Int /\ Left(p) \in Int
      BY <1>1, <3>1
    <3> HIDE DEF g, Left, q
    <3>3. q # p => Left(q) < t
      BY <2>3, <3>1, <3>2
    <3>4. q # p => f[q] = S(f, q)
      BY <2>1, <3>1, <3>3
    <3>5. q # p => g[q] = f[q]
      BY <2>2, <3>1, <3>4
    <3> QED BY <3>5 DEF StepOf, q
  <2>4. \A p \in P : Left(p) < t + 1 => g[p] = S(g, p)
    BY <2>2, <2>3
  <2>5. g \in [P -> {g[p] : p \in P}]
    OBVIOUS
  <2>6. Right(g, t + 1)
    BY <2>4, <2>5
  <2> HIDE DEF Right, g
  <2> QED BY <1>3, <2>6
<1>4. m + n + 1 \in Made
  <2>1. \A t \in 0..(m + n + 1) : t \in Made /\ t < m + n + 1 => t + 1 \in Made
    BY <1>3
  <2> DEFINE N == m + n + 1
  <2>2. N \in Nat
    OBVIOUS
  <2>3. 0 \in Made /\ \A t \in 0..N : t \in Made /\ t < N => t + 1 \in Made
    BY <1>2, <2>1
  <2>4. N \in Made
    <3> HIDE DEF Made, N
    <3>1. \A t \in 0..N : t \in Made
      BY <2>2, <2>3, UpTo
    <3> QED BY <2>2, <3>1
  <2> QED BY <2>4
<1>5. PICK f : Right(f, m + n + 1)
  BY <1>4
<1>6. \A p \in P : f[p] = S(f, p)
  BY <1>1, <1>5
<1>7. f = [p \in P |-> S(f, p)]
  <2>1. f = [p \in P |-> f[p]]
    BY <1>5
  <2> HIDE DEF S, P
  <2> QED BY <1>6, <2>1
<1> DEFINE w == Walk(here, ma, mb)
<1>8. w = [p \in P |-> S(w, p)]
  <2>1. DOMAIN ma = 1..m /\ DOMAIN mb = 1..n
    BY DEF Moves
  <2>2. w = CHOOSE h : h = [p \in P |-> S(h, p)]
    BY <2>1 DEF Walk, StepOf
  <2> HIDE DEF w, S, P
  <2> QED BY <1>7, <2>2
<1>9. ASSUME NEW i \in 1..m, NEW j \in 1..n
      PROVE  w[<<i, j>>] = IF here[<<i, j>>] = 0 /\ (ma[i] # i \/ mb[j] # j)
                           THEN w[<<ma[i], mb[j]>>] ELSE here[<<i, j>>]
  <2>1. <<i, j>> \in P
    OBVIOUS
  <2>2. w[<<i, j>>] = S(w, <<i, j>>)
    <3> HIDE DEF w, S, P
    <3> QED BY <1>8, <2>1
  <2> HIDE DEF w
  <2> QED BY <2>2 DEF StepOf
<1> QED BY <1>9 DEF Steps

\* The answer of a walk, and both ways round.
LEMMA WalkTurns ==
  ASSUME NEW m \in Nat, NEW n \in Nat, NEW ma, NEW mb, Moves(ma, m), Moves(mb, n),
         NEW here, NEW back, Table(here, m, n), Turned(back, here, m, n),
         NEW i \in 1..m, NEW j \in 1..n
  PROVE  /\ Walk(here, ma, mb)[<<i, j>>] \in Told
         /\ Walk(back, mb, ma)[<<j, i>>] = -Walk(here, ma, mb)[<<i, j>>]
<1> DEFINE v == Walk(here, ma, mb)
           w == Walk(back, mb, ma)
           Wrong(k, l) == ~(v[<<k, l>>] \in Told /\ w[<<l, k>>] = -v[<<k, l>>])
           T == {t \in Nat : \E k \in 1..m, l \in 1..n : t = m + n - k - l /\ Wrong(k, l)}
<1>1. Steps(v, here, ma, mb, m, n) /\ Steps(w, back, mb, ma, n, m)
  BY WalkDefined
<1> HIDE DEF v, w
<1>2. ASSUME NEW k \in 1..m, NEW l \in 1..n, Wrong(k, l)
      PROVE  m + n - k - l \in T
  <2> HIDE DEF Wrong
  <2>1. m + n - k - l \in Nat
    OBVIOUS
  <2> QED BY <1>2, <2>1
<1>3. ASSUME T # {} PROVE FALSE
  <2>1. PICK t \in T : \A u \in T : t <= u
    <3>1. T \subseteq Nat
      OBVIOUS
    <3> HIDE DEF T
    <3> QED BY <1>3, <3>1, LeastNat
  <2>2. PICK k \in 1..m, l \in 1..n : t = m + n - k - l /\ Wrong(k, l)
    OBVIOUS
  <2> DEFINE p == here[<<k, l>>]
             q == back[<<l, k>>]
             k1 == ma[k]
             l1 == mb[l]
             e == v[<<k, l>>]
             f == w[<<l, k>>]
  <2>3. p \in Told /\ q = -p
    BY DEF Table, Turned
  <2>4. e = (IF p = 0 /\ (k1 # k \/ l1 # l) THEN v[<<k1, l1>>] ELSE p)
    BY <1>1 DEF Steps
  <2>5. f = (IF q = 0 /\ (l1 # l \/ k1 # k) THEN w[<<l1, k1>>] ELSE q)
    BY <1>1 DEF Steps
  <2>6. k1 \in 1..m /\ l1 \in 1..n /\ k <= k1 /\ l <= l1
    BY DEF Moves
  <2>7. ~(e \in Told /\ f = -e)
    BY <2>2
  <2> HIDE DEF p, q, k1, l1, e, f
  <2>8. p = 0 /\ q = 0 /\ (k1 # k \/ l1 # l)
    BY <2>3, <2>4, <2>5, <2>7 DEF Told
  <2>9. Wrong(k1, l1)
    BY <2>4, <2>5, <2>7, <2>8
  <2> HIDE DEF Wrong, T
  <2>10. m + n - k1 - l1 \in T
    BY <1>2, <2>6, <2>9
  <2>11. m + n - k1 - l1 < t
    BY <2>2, <2>6, <2>8
  <2>12. t <= m + n - k1 - l1
    BY <2>1, <2>10
  <2> QED BY <2>2, <2>6, <2>11, <2>12
<1>4. ~Wrong(i, j)
  <2> HIDE DEF Wrong, T
  <2> QED BY <1>2, <1>3
<1> QED BY <1>4 DEF v, w

\* Three walks are those of an order if their steps are.
LEMMA WalkOrders ==
  ASSUME NEW m \in Nat, NEW n \in Nat, NEW o \in Nat, NEW ma, NEW mb, NEW mc,
         Moves(ma, m), Moves(mb, n), Moves(mc, o),
         NEW ab, NEW bc, NEW ac, Table(ab, m, n), Table(bc, n, o), Table(ac, m, o),
         ChainedTables(ab, bc, ac, m, n, o),
         NEW i \in 1..m, NEW j \in 1..n, NEW k \in 1..o
  PROVE  Chained(Walk(ab, ma, mb)[<<i, j>>], Walk(bc, mb, mc)[<<j, k>>], Walk(ac, ma, mc)[<<i, k>>])
<1> DEFINE u == Walk(ab, ma, mb)
           v == Walk(bc, mb, mc)
           w == Walk(ac, ma, mc)
           Wrong(x, y, z) == ~Chained(u[<<x, y>>], v[<<y, z>>], w[<<x, z>>])
           T == {t \in Nat : \E x \in 1..m, y \in 1..n, z \in 1..o : t = m + n + o - x - y - z /\ Wrong(x, y, z)}
<1>1. Steps(u, ab, ma, mb, m, n) /\ Steps(v, bc, mb, mc, n, o) /\ Steps(w, ac, ma, mc, m, o)
  BY WalkDefined
<1> HIDE DEF u, v, w
<1>0. ASSUME NEW x \in 1..m, NEW y \in 1..n, NEW z \in 1..o, Wrong(x, y, z)
      PROVE  m + n + o - x - y - z \in T
  <2> HIDE DEF Wrong
  <2>1. m + n + o - x - y - z \in Nat
    OBVIOUS
  <2> QED BY <1>0, <2>1
<1>2. ASSUME T # {} PROVE FALSE
  <2>1. PICK t \in T : \A s \in T : t <= s
    <3>1. T \subseteq Nat
      OBVIOUS
    <3> HIDE DEF T
    <3> QED BY <1>2, <3>1, LeastNat
  <2>2. PICK x \in 1..m, y \in 1..n, z \in 1..o : t = m + n + o - x - y - z /\ Wrong(x, y, z)
    OBVIOUS
  <2> DEFINE p == ab[<<x, y>>]
             q == bc[<<y, z>>]
             r == ac[<<x, z>>]
             x1 == ma[x]
             y1 == mb[y]
             z1 == mc[z]
  <2>3. p \in Told /\ q \in Told /\ r \in Told /\ Chained(p, q, r)
    BY DEF Table, ChainedTables
  <2>4. /\ u[<<x, y>>] = IF p = 0 /\ (x1 # x \/ y1 # y) THEN u[<<x1, y1>>] ELSE p
        /\ v[<<y, z>>] = IF q = 0 /\ (y1 # y \/ z1 # z) THEN v[<<y1, z1>>] ELSE q
        /\ w[<<x, z>>] = IF r = 0 /\ (x1 # x \/ z1 # z) THEN w[<<x1, z1>>] ELSE r
    BY <1>1 DEF Steps
  <2>5. x1 \in 1..m /\ y1 \in 1..n /\ z1 \in 1..o /\ x <= x1 /\ y <= y1 /\ z <= z1
    BY DEF Moves
  <2>6. ~Chained(u[<<x, y>>], v[<<y, z>>], w[<<x, z>>])
    BY <2>2
  <2> HIDE DEF p, q, r, x1, y1, z1
  <2> DEFINE e == u[<<x, y>>]
             f == v[<<y, z>>]
             g == w[<<x, z>>]
  <2>7. (p # 0 => e = p) /\ (q # 0 => f = q) /\ (r # 0 => g = r)
    BY <2>4
  <2>8. p = 0 /\ q = 0 /\ r = 0
    <3>1. ~Chained(e, f, g)
      BY <2>6
    <3> HIDE DEF e, f, g
    <3> QED BY <2>3, <2>7, <3>1 DEF Told, Chained
  <2>9. ~(x1 = x /\ y1 = y /\ z1 = z)
    BY <2>4, <2>6, <2>8 DEF Chained
  <2>10. e = u[<<x1, y1>>] /\ f = v[<<y1, z1>>] /\ g = w[<<x1, z1>>]
    BY <2>4, <2>8
  <2>11. Wrong(x1, y1, z1)
    BY <2>6, <2>10
  <2> HIDE DEF Wrong, T
  <2>12. m + n + o - x1 - y1 - z1 \in T
    BY <1>0, <2>5, <2>11
  <2>13. m + n + o - x1 - y1 - z1 < t
    BY <2>2, <2>5, <2>9
  <2>14. t <= m + n + o - x1 - y1 - z1
    BY <2>1, <2>12
  <2> QED BY <2>2, <2>5, <2>13, <2>14
<1>3. ~Wrong(i, j, k)
  <2> HIDE DEF Wrong, T
  <2> QED BY <1>0, <1>2
<1> QED BY <1>3 DEF u, v, w

-----------------------------------------------------------------------------
(* Versions: dpkg. *)

\* The cursors.
LEMMA CursorsOf ==
  ASSUME NEW s \in Strings
  PROVE  Len(s) \in Nat /\ Len(s) + 1 \in Nat /\ Cursors(s) = 1..(Len(s) + 1) /\ 1 \in Cursors(s)
  BY DEF Strings, Cursors

\* A run is a string.
LEMMA RunString ==
  ASSUME NEW s \in Strings, NEW i \in Cursors(s), NEW S
  PROVE  SubSeq(s, i, RunEnd(s, i, S) - 1) \in Strings
<1>1. RunEnd(s, i, S) \in Cursors(s)
  BY RunEnds
<1>2. Len(s) \in Nat /\ i \in Int /\ 1 <= i /\ RunEnd(s, i, S) - 1 \in Int /\ RunEnd(s, i, S) - 1 <= Len(s)
  BY <1>1, CursorsOf
<1> QED BY <1>2, PartOfString

\* A cursor moves forward.
LEMMA DpkgMovesForward ==
  ASSUME NEW s \in Strings
  PROVE  Moves(DpkgMoves(s), Len(s) + 1)
<1>1. Len(s) \in Nat /\ Cursors(s) = 1..(Len(s) + 1)
  BY CursorsOf
<1>2. ASSUME NEW i \in Cursors(s) PROVE DpkgMoves(s)[i] \in Cursors(s) /\ i <= DpkgMoves(s)[i]
  <2>1. CASE At(s, i, DOMAIN Rank \ Digit)
    BY <1>1, <2>1 DEF DpkgMoves, At
  <2>2. CASE ~At(s, i, DOMAIN Rank \ Digit)
    BY <2>2, RunEnds DEF DpkgMoves
  <2> QED BY <2>1, <2>2
<1>3. DpkgMoves(s) = [i \in Cursors(s) |-> DpkgMoves(s)[i]]
  BY DEF DpkgMoves
<1> QED BY <1>1, <1>2, <1>3 DEF Moves

\* The weight of what is here tells digits and the end from everything else.
LEMMA DpkgWeight ==
  ASSUME NEW s \in Strings, NEW i \in Cursors(s)
  PROVE  DpkgOrder(s, i) \in Int /\ (DpkgOrder(s, i) # 0 <=> At(s, i, DOMAIN Rank \ Digit))
<1>1. CASE i > Len(s)
  BY <1>1, CursorsOf DEF DpkgOrder, At
<1>2. CASE i <= Len(s)
  <2>1. i \in 1..Len(s)
    BY <1>2, CursorsOf
  <2>2. s[i] \in DOMAIN Rank /\ Rank[s[i]] \in Nat /\ Rank[s[i]] > 0
    BY <2>1, CodePoints
  <2>3. ~(i > Len(s))
    BY <1>2, CursorsOf
  <2> QED BY <1>2, <2>2, <2>3 DEF DpkgOrder, At
<1> QED BY <1>1, <1>2, CursorsOf

\* What is here is ordered.
LEMMA DpkgStepOrders ==
  ASSUME NEW s \in Strings, NEW t \in Strings, NEW u \in Strings,
         NEW i \in Cursors(s), NEW j \in Cursors(t), NEW k \in Cursors(u)
  PROVE  /\ DpkgStep(s, i, t, j) \in Told /\ DpkgStep(t, j, s, i) = -DpkgStep(s, i, t, j)
         /\ Chained(DpkgStep(s, i, t, j), DpkgStep(t, j, u, k), DpkgStep(s, i, u, k))
<1> DEFINE R(a, l) == NoZeros(SubSeq(a, l, RunEnd(a, l, Digit) - 1))
           x == DpkgOrder(s, i)
           y == DpkgOrder(t, j)
           z == DpkgOrder(u, k)
           d == R(s, i)
           e == R(t, j)
           f == R(u, k)
<1>1. x \in Int /\ y \in Int /\ z \in Int
  BY DpkgWeight
<1>2. d \in Strings /\ e \in Strings /\ f \in Strings
  BY RunString, NoZerosString
<1>3. /\ DpkgStep(s, i, t, j) = IF x # 0 \/ y # 0 THEN Sgn(x - y) ELSE Number(d, e)
      /\ DpkgStep(t, j, s, i) = IF y # 0 \/ x # 0 THEN Sgn(y - x) ELSE Number(e, d)
      /\ DpkgStep(t, j, u, k) = IF y # 0 \/ z # 0 THEN Sgn(y - z) ELSE Number(e, f)
      /\ DpkgStep(s, i, u, k) = IF x # 0 \/ z # 0 THEN Sgn(x - z) ELSE Number(d, f)
  BY DpkgWeight DEF DpkgStep
<1> HIDE DEF x, y, z, d, e, f
<1>4. /\ Number(d, e) \in Told /\ Number(e, f) \in Told /\ Number(d, f) \in Told
      /\ Number(e, d) = -Number(d, e) /\ Chained(Number(d, e), Number(e, f), Number(d, f))
  BY <1>2, NumberOrders
<1> DEFINE l == Number(d, e)
           m == Number(e, f)
           n == Number(d, f)
           o == Number(e, d)
<1> HIDE DEF l, m, n, o
<1>5. DpkgStep(s, i, t, j) \in Told /\ DpkgStep(t, j, s, i) = -DpkgStep(s, i, t, j)
  BY <1>1, <1>3, <1>4 DEF Told, Sgn, l, o
<1>6. Chained(IF x # 0 \/ y # 0 THEN Sgn(x - y) ELSE l, IF y # 0 \/ z # 0 THEN Sgn(y - z) ELSE m,
              IF x # 0 \/ z # 0 THEN Sgn(x - z) ELSE n)
  <2>1. l \in Told /\ m \in Told /\ n \in Told /\ Chained(l, m, n)
    BY <1>4 DEF l, m, n
  <2> QED BY <1>1, <2>1 DEF Told, Sgn, Chained
<1> QED BY <1>3, <1>5, <1>6 DEF l, m, n

\* verrevcmp is an order.
LEMMA VerrevcmpOrders ==
  ASSUME NEW s \in Strings, NEW t \in Strings, NEW u \in Strings
  PROVE  /\ DpkgVerrevcmp(s, t) \in Told /\ DpkgVerrevcmp(t, s) = -DpkgVerrevcmp(s, t)
         /\ Chained(DpkgVerrevcmp(s, t), DpkgVerrevcmp(t, u), DpkgVerrevcmp(s, u))
<1>1. ASSUME NEW a \in Strings, NEW b \in Strings
      PROVE  /\ Table(DpkgHere(a, b), Len(a) + 1, Len(b) + 1)
             /\ \A i \in Cursors(a), j \in Cursors(b) : DpkgHere(a, b)[<<i, j>>] = DpkgStep(a, i, b, j)
  <2>1. \A p \in Cursors(a) \X Cursors(b) : DpkgStep(a, p[1], b, p[2]) \in Told
    BY DpkgStepOrders
  <2> QED BY <2>1, CursorsOf DEF Table, DpkgHere
<1> DEFINE l == Len(s) + 1
           m == Len(t) + 1
           n == Len(u) + 1
<1>2. /\ l \in Nat /\ m \in Nat /\ n \in Nat
      /\ 1..l = Cursors(s) /\ 1..m = Cursors(t) /\ 1..n = Cursors(u)
      /\ 1 \in 1..l /\ 1 \in 1..m /\ 1 \in 1..n
  BY CursorsOf
<1>3. Moves(DpkgMoves(s), l) /\ Moves(DpkgMoves(t), m) /\ Moves(DpkgMoves(u), n)
  BY DpkgMovesForward
<1>4. Table(DpkgHere(s, t), l, m) /\ Table(DpkgHere(t, u), m, n) /\ Table(DpkgHere(s, u), l, n)
  BY <1>1
<1> HIDE DEF l, m, n
<1>5. Turned(DpkgHere(t, s), DpkgHere(s, t), l, m)
  <2>1. ASSUME NEW i \in Cursors(s), NEW j \in Cursors(t)
        PROVE  DpkgHere(t, s)[<<j, i>>] = -DpkgHere(s, t)[<<i, j>>]
    <3>1. DpkgHere(t, s)[<<j, i>>] = DpkgStep(t, j, s, i) /\ DpkgHere(s, t)[<<i, j>>] = DpkgStep(s, i, t, j)
      BY <1>1
    <3> QED BY <3>1, DpkgStepOrders
  <2> QED BY <1>2, <2>1 DEF Turned
<1>6. ChainedTables(DpkgHere(s, t), DpkgHere(t, u), DpkgHere(s, u), l, m, n)
  <2>1. ASSUME NEW i \in Cursors(s), NEW j \in Cursors(t), NEW k \in Cursors(u)
        PROVE  Chained(DpkgHere(s, t)[<<i, j>>], DpkgHere(t, u)[<<j, k>>], DpkgHere(s, u)[<<i, k>>])
    <3>1. /\ DpkgHere(s, t)[<<i, j>>] = DpkgStep(s, i, t, j) /\ DpkgHere(t, u)[<<j, k>>] = DpkgStep(t, j, u, k)
          /\ DpkgHere(s, u)[<<i, k>>] = DpkgStep(s, i, u, k)
      BY <1>1
    <3> QED BY <3>1, DpkgStepOrders
  <2> QED BY <1>2, <2>1 DEF ChainedTables
<1>7. DpkgVerrevcmp(s, t) \in Told /\ DpkgVerrevcmp(t, s) = -DpkgVerrevcmp(s, t)
  BY <1>2, <1>3, <1>4, <1>5, WalkTurns DEF DpkgVerrevcmp
<1>8. Chained(DpkgVerrevcmp(s, t), DpkgVerrevcmp(t, u), DpkgVerrevcmp(s, u))
  BY <1>2, <1>3, <1>4, <1>6, WalkOrders DEF DpkgVerrevcmp
<1> QED BY <1>7, <1>8

\* The epoch and what is after it are strings.
LEMMA EpochStrings ==
  ASSUME NEW v \in Strings
  PROVE  EpochNumber(Epoch(v)) \in Strings /\ Epoch(v)[2] \in Strings
<1> DEFINE k == RunEnd(v, 1, Digit)
<1>1. Len(v) \in Nat /\ 1 \in Cursors(v) /\ k \in Cursors(v)
  BY CursorsOf, RunEnds
<1>2. <<>> \in Strings
  BY DEF Strings
<1> HIDE DEF k
<1>3. SubSeq(v, 1, k - 1) \in Strings /\ SubSeq(v, k + 1, Len(v)) \in Strings
  BY <1>1, PartOfString DEF Cursors
<1>4. Epoch(v)[1] \in Strings /\ Epoch(v)[2] \in Strings
  <2>1. \/ Epoch(v) = <<SubSeq(v, 1, k - 1), SubSeq(v, k + 1, Len(v))>>
        \/ Epoch(v) = <<<<>>, v>>
    BY DEF Epoch, k
  <2> DEFINE x == SubSeq(v, 1, k - 1)
             y == SubSeq(v, k + 1, Len(v))
             e == <<>>
             p == Epoch(v)
  <2>2. x \in Strings /\ y \in Strings /\ e \in Strings /\ (p = <<x, y>> \/ p = <<e, v>>)
    BY <1>2, <1>3, <2>1
  <2> HIDE DEF x, y, e, p
  <2>3. p[1] \in Strings /\ p[2] \in Strings
    BY <2>2
  <2> QED BY <2>3 DEF p
<1> QED BY <1>2, <1>4, NoZerosString DEF EpochNumber

\* So are the parts of a version.
LEMMA SplitParts ==
  ASSUME NEW v \in Strings
  PROVE  DpkgSplit(v)[1] \in Strings /\ DpkgSplit(v)[2] \in Strings /\ DpkgSplit(v)[3] \in Strings
<1> DEFINE rest == Epoch(v)[2]
           D == {k \in 1..Len(rest) : rest[k] = "-"}
           d == IF D = {} THEN Len(rest) + 1 ELSE CHOOSE k \in D : \A l \in D : l <= k
<1>1. rest \in Strings /\ EpochNumber(Epoch(v)) \in Strings
  BY EpochStrings
<1>2. Len(rest) \in Nat
  BY <1>1, CursorsOf
<1>3. d \in 1..(Len(rest) + 1)
  <2>1. CASE D = {}
    <3> HIDE DEF rest
    <3> QED BY <1>2, <2>1
  <2>2. CASE D # {}
    <3> DEFINE T == {Len(rest) - k : k \in D}
    <3>0. \A k \in D : k \in Nat /\ k <= Len(rest) /\ Len(rest) - k \in Nat
      <4> HIDE DEF rest
      <4> QED BY <1>2
    <3>1. T \subseteq Nat /\ T # {}
      <4> HIDE DEF D
      <4> QED BY <2>2, <3>0
    <3>2. PICK m \in T : \A n \in T : m <= n
      <4> HIDE DEF T
      <4> QED BY <3>1, LeastNat
    <3>3. PICK k \in D : m = Len(rest) - k
      OBVIOUS
    <3>4. \A l \in D : l <= k
      <4> TAKE l \in D
      <4>1. Len(rest) - l \in T
        OBVIOUS
      <4>2. Len(rest) - k <= Len(rest) - l
        BY <3>2, <3>3, <4>1
      <4> HIDE DEF D, rest, T
      <4> QED BY <1>2, <3>0, <4>2
    <3>5. d \in D
      <4> HIDE DEF D
      <4> QED BY <2>2, <3>4
    <3>6. \A l \in D : l \in 1..(Len(rest) + 1)
      <4> HIDE DEF rest
      <4> QED BY <1>2
    <3> HIDE DEF d, D
    <3> QED BY <3>5, <3>6
  <2> QED BY <2>1, <2>2
<1>4. DpkgSplit(v) = <<EpochNumber(Epoch(v)), SubSeq(rest, 1, d - 1), SubSeq(rest, d + 1, Len(rest))>>
  BY DEF DpkgSplit, DpkgParts, LastDash
<1> HIDE DEF rest, d
<1>5. SubSeq(rest, 1, d - 1) \in Strings /\ SubSeq(rest, d + 1, Len(rest)) \in Strings
  BY <1>1, <1>2, <1>3, PartOfString
<1> DEFINE x == EpochNumber(Epoch(v))
           y == SubSeq(rest, 1, d - 1)
           z == SubSeq(rest, d + 1, Len(rest))
           p == DpkgSplit(v)
<1>6. x \in Strings /\ y \in Strings /\ z \in Strings /\ p = <<x, y, z>>
  BY <1>1, <1>4, <1>5
<1> HIDE DEF x, y, z, p
<1>7. p[1] \in Strings /\ p[2] \in Strings /\ p[3] \in Strings
  BY <1>6
<1> QED BY <1>7 DEF p

\* dpkg_compare (version.rs): whatever the versions, the comparison answers, answers the
\* opposite the other way round, and is transitive: a version is never both before and
\* after another, and equal versions compare alike with every third.
THEOREM DpkgIsTotalOrder ==
  ASSUME NEW a \in Strings, NEW b \in Strings, NEW c \in Strings
  PROVE  /\ DpkgCompare(a, b) \in Told /\ DpkgCompare(b, a) = -DpkgCompare(a, b)
         /\ Chained(DpkgCompare(a, b), DpkgCompare(b, c), DpkgCompare(a, c))
<1> DEFINE x == DpkgSplit(a)
           y == DpkgSplit(b)
           z == DpkgSplit(c)
           N(p, q) == Number(p[1], q[1])
           U(p, q) == DpkgVerrevcmp(p[2], q[2])
           R(p, q) == DpkgVerrevcmp(p[3], q[3])
           IsSplit(p) == p[1] \in Strings /\ p[2] \in Strings /\ p[3] \in Strings
<1>1. IsSplit(x) /\ IsSplit(y) /\ IsSplit(z)
  BY SplitParts
<1>2. /\ DpkgCompare(a, b) = Then(N(x, y), Then(U(x, y), R(x, y)))
      /\ DpkgCompare(b, a) = Then(N(y, x), Then(U(y, x), R(y, x)))
      /\ DpkgCompare(b, c) = Then(N(y, z), Then(U(y, z), R(y, z)))
      /\ DpkgCompare(a, c) = Then(N(x, z), Then(U(x, z), R(x, z)))
  BY DEF DpkgCompare, CmpParts
<1> HIDE DEF x, y, z
<1>3. ASSUME NEW p, NEW q, NEW r, IsSplit(p), IsSplit(q), IsSplit(r)
      PROVE  /\ N(p, q) \in Told /\ N(q, p) = -N(p, q) /\ Chained(N(p, q), N(q, r), N(p, r))
             /\ U(p, q) \in Told /\ U(q, p) = -U(p, q) /\ Chained(U(p, q), U(q, r), U(p, r))
             /\ R(p, q) \in Told /\ R(q, p) = -R(p, q) /\ Chained(R(p, q), R(q, r), R(p, r))
  BY <1>3, NumberOrders, VerrevcmpOrders
<1> HIDE DEF N, U, R, IsSplit
<1> DEFINE W(p, q) == Then(U(p, q), R(p, q))
<1>4. ASSUME NEW p, NEW q, NEW r, IsSplit(p), IsSplit(q), IsSplit(r)
      PROVE  W(p, q) \in Told /\ W(q, p) = -W(p, q) /\ Chained(W(p, q), W(q, r), W(p, r))
  <2>1. U(p, q) \in Told /\ U(q, r) \in Told /\ U(p, r) \in Told /\ U(q, p) = -U(p, q)
    BY <1>3, <1>4
  <2>2. R(p, q) \in Told /\ R(q, r) \in Told /\ R(p, r) \in Told /\ R(q, p) = -R(p, q)
    BY <1>3, <1>4
  <2>3. Chained(U(p, q), U(q, r), U(p, r)) /\ Chained(R(p, q), R(q, r), R(p, r))
    BY <1>3, <1>4
  <2>4. W(p, q) \in Told /\ W(q, p) = -W(p, q)
    BY <2>1, <2>2, ThenTurns
  <2>5. Chained(W(p, q), W(q, r), W(p, r))
    BY <2>1, <2>2, <2>3, ThenOrders
  <2> QED BY <2>4, <2>5
<1> HIDE DEF W
<1>5. /\ N(x, y) \in Told /\ N(y, z) \in Told /\ N(x, z) \in Told /\ N(y, x) = -N(x, y)
      /\ W(x, y) \in Told /\ W(y, z) \in Told /\ W(x, z) \in Told /\ W(y, x) = -W(x, y)
      /\ Chained(N(x, y), N(y, z), N(x, z)) /\ Chained(W(x, y), W(y, z), W(x, z))
  BY <1>1, <1>3, <1>4
<1>6. Then(N(x, y), W(x, y)) \in Told /\ Then(N(y, x), W(y, x)) = -Then(N(x, y), W(x, y))
  BY <1>5, ThenTurns
<1>7. Chained(Then(N(x, y), W(x, y)), Then(N(y, z), W(y, z)), Then(N(x, z), W(x, z)))
  BY <1>5, ThenOrders
<1> QED BY <1>2, <1>6, <1>7 DEF W

-----------------------------------------------------------------------------
(* Versions: rpm. *)

\* A cursor that has passed the separators, and what it is at: a tilde, the end, a
\* caret, letters or digits.
Landed(s, i) == i \in Cursors(s) /\ (i <= Len(s) => s[i] \in Digit \cup Letter \cup {"~", "^"})
RpmKind(s, i) ==
  IF i > Len(s) THEN 0
  ELSE IF s[i] = "~" THEN -1 ELSE IF s[i] = "^" THEN 1 ELSE IF s[i] \in Digit THEN 3 ELSE 2

\* Skipping lands.
LEMMA SkipLands ==
  ASSUME NEW s \in Strings, NEW i \in Cursors(s)
  PROVE  Landed(s, Skip(s, i)) /\ Skip(s, i) \in Cursors(s) /\ i <= Skip(s, i)
<1> DEFINE S == DOMAIN Rank \ (Digit \cup Letter \cup {"~", "^"})
           k == Skip(s, i)
<1>1. k \in Cursors(s) /\ i <= k /\ ~At(s, k, S)
  BY RunEnds DEF Skip
<1> HIDE DEF k
<1>2. ASSUME k <= Len(s) PROVE s[k] \in Digit \cup Letter \cup {"~", "^"}
  <2>1. k \in 1..Len(s)
    BY <1>1, <1>2, CursorsOf
  <2>2. s[k] \in DOMAIN Rank
    BY <2>1, CodePoints
  <2> QED BY <1>1, <1>2, <2>2 DEF At
<1> QED BY <1>1, <1>2 DEF Landed, k

\* A cursor moves forward.
LEMMA RpmMovesForward ==
  ASSUME NEW s \in Strings
  PROVE  Moves(RpmMoves(s), Len(s) + 1)
<1>1. Len(s) \in Nat /\ Cursors(s) = 1..(Len(s) + 1)
  BY CursorsOf
<1>2. ASSUME NEW i \in Cursors(s) PROVE RpmMove(s, i) \in Cursors(s) /\ i <= RpmMove(s, i)
  <2>1. RunEnd(s, i, SegmentKind(s, i)) \in Cursors(s) /\ i <= RunEnd(s, i, SegmentKind(s, i))
    BY RunEnds
  <2> QED BY <1>1, <2>1 DEF RpmMove
<1>3. ASSUME NEW i \in Cursors(s) PROVE RpmMoves(s)[i] \in Cursors(s) /\ i <= RpmMoves(s)[i]
  <2> DEFINE k == Skip(s, i)
             l == RpmMove(s, k)
  <2>1. k \in Cursors(s) /\ i <= k
    BY SkipLands
  <2>2. RpmMoves(s)[i] = l
    BY DEF RpmMoves
  <2> HIDE DEF k
  <2>3. l \in Cursors(s) /\ k <= l
    BY <1>2, <2>1
  <2> HIDE DEF l
  <2> QED BY <1>1, <2>1, <2>2, <2>3
<1>4. RpmMoves(s) = [i \in Cursors(s) |-> RpmMoves(s)[i]]
  BY DEF RpmMoves
<1> QED BY <1>1, <1>3, <1>4 DEF Moves

\* What is compared: the kinds, and within a kind the runs.
LEMMA RpmStepKinds ==
  ASSUME NEW s \in Strings, NEW t \in Strings, NEW i, NEW j, Landed(s, i), Landed(t, j)
  PROVE  RpmStep(s, i, t, j) =
           IF RpmKind(s, i) # RpmKind(t, j) THEN Sgn(RpmKind(s, i) - RpmKind(t, j))
           ELSE IF RpmKind(s, i) = 3 THEN Number(NoZeros(Segment(s, i, Digit)), NoZeros(Segment(t, j, Digit)))
           ELSE IF RpmKind(s, i) = 2 THEN Text(Segment(s, i, Letter), Segment(t, j, Letter)) ELSE 0
<1>0. i \in Cursors(s) /\ j \in Cursors(t) /\ Len(s) \in Nat /\ Len(t) \in Nat /\ i \in Nat /\ j \in Nat
  BY CursorsOf DEF Landed
<1> DEFINE A(c) == At(s, i, {c})
           B(c) == At(t, j, {c})
           x == RpmKind(s, i)
           y == RpmKind(t, j)
<1>1. /\ x \in {-1, 0, 1, 2, 3} /\ (A("~") <=> x = -1) /\ (i > Len(s) <=> x = 0) /\ (A("^") <=> x = 1)
      /\ (x = 2 => s[i] \in Letter /\ s[i] \notin Digit) /\ (x = 3 => s[i] \in Digit)
  BY <1>0 DEF RpmKind, At, Landed
<1>2. /\ y \in {-1, 0, 1, 2, 3} /\ (B("~") <=> y = -1) /\ (j > Len(t) <=> y = 0) /\ (B("^") <=> y = 1)
      /\ (y = 2 => t[j] \in Letter /\ t[j] \notin Digit) /\ (y = 3 => t[j] \in Digit)
  BY <1>0 DEF RpmKind, At, Landed
<1>3. CASE x \in {2, 3} /\ y \in {2, 3}
  <2> DEFINE S == SegmentKind(s, i)
  <2>1. S = IF x = 3 THEN Digit ELSE Letter
    BY <1>1, <1>3 DEF SegmentKind
  <2>2. RpmStep(s, i, t, j) = CmpSegment(S, Segment(s, i, S), Segment(t, j, S))
    BY <1>1, <1>2, <1>3 DEF RpmStep
  <2>3. Digit \cap Letter = {}
    <3> SUFFICES ASSUME NEW c \in Digit, c \in Letter PROVE FALSE
      OBVIOUS
    <3>1. c \in DOMAIN Rank /\ Rank[c] \in 48..57 /\ (Rank[c] \in 65..90 \/ Rank[c] \in 97..122)
      BY DEF Digit, Letter
    <3> DEFINE r == Rank[c]
    <3>2. r \in 48..57 /\ (r \in 65..90 \/ r \in 97..122)
      BY <3>1
    <3> HIDE DEF r
    <3> QED BY <3>2
  <2>4. Segment(t, j, S) = <<>> <=> ~At(t, j, S)
    <3> DEFINE e == RunEnd(t, j, S)
    <3>1. e \in Cursors(t) /\ j <= e /\ (j < e <=> At(t, j, S))
      BY <1>0, RunEnds
    <3> HIDE DEF e
    <3>2. e \in Nat /\ e <= Len(t) + 1 /\ j >= 1
      BY <1>0, <3>1, CursorsOf
    <3>3. Len(SubSeq(t, j, e - 1)) = IF j <= e - 1 THEN e - j ELSE 0
      <4>1. \A k \in j..(e - 1) : t[k] \in DOMAIN Rank
        BY <1>0, <3>2, CodePoints
      <4> QED BY <1>0, <3>2, <4>1, SubSeqProperties
    <3> DEFINE w == SubSeq(t, j, e - 1)
    <3>4. ~(j < e) => w = <<>>
      BY <1>0, <3>2, SubSeqEmpty
    <3>5. j < e => Len(w) # 0
      BY <1>0, <3>2, <3>3
    <3>6. j < e => w # <<>>
      <4> HIDE DEF w
      <4> QED BY <3>5
    <3> QED BY <3>1, <3>4, <3>6 DEF Segment, e
  <2>5. j <= Len(t)
    BY <1>0, <1>2, <1>3
  <2>6. Digit # Letter \/ Digit = {}
    BY <2>3
  <2>7. CASE x = y
    <3>1. At(t, j, S)
      BY <1>2, <1>3, <2>1, <2>5, <2>7 DEF At
    <3>2. RpmStep(s, i, t, j) = IF S = Digit THEN Number(NoZeros(Segment(s, i, S)), NoZeros(Segment(t, j, S)))
                                ELSE Text(Segment(s, i, S), Segment(t, j, S))
      <4> HIDE DEF S
      <4> QED BY <2>2, <2>4, <3>1 DEF CmpSegment
    <3>3. x = 2 => Letter # Digit
      BY <1>1
    <3> HIDE DEF x, y, S
    <3> QED BY <1>3, <2>1, <2>7, <3>2, <3>3 DEF x, y
  <2>8. CASE x # y
    <3>1. ~At(t, j, S)
      BY <1>2, <1>3, <2>1, <2>3, <2>8 DEF At
    <3>2. RpmStep(s, i, t, j) = IF S = Digit THEN 1 ELSE -1
      <4> HIDE DEF S
      <4> QED BY <2>2, <2>4, <3>1 DEF CmpSegment
    <3>3. x = 2 => Letter # Digit
      BY <1>1
    <3> HIDE DEF x, y, S
    <3>4. RpmStep(s, i, t, j) = Sgn(x - y)
      BY <1>3, <2>1, <2>8, <3>2, <3>3 DEF Sgn
    <3> QED BY <2>8, <3>4 DEF x, y
  <2> QED BY <2>7, <2>8
<1>4. CASE ~(x \in {2, 3} /\ y \in {2, 3})
  <2>1. RpmStep(s, i, t, j) =
          IF A("~") \/ B("~") THEN IF ~A("~") THEN 1 ELSE IF ~B("~") THEN -1 ELSE 0
          ELSE IF A("^") \/ B("^")
          THEN IF ~A("^") THEN -Caret(i > Len(s)) ELSE IF ~B("^") THEN Caret(j > Len(t)) ELSE 0
          ELSE IF i > Len(s) \/ j > Len(t) THEN IF ~(j > Len(t)) THEN -1 ELSE IF ~(i > Len(s)) THEN 1 ELSE 0
          ELSE RpmStep(s, i, t, j)
    BY DEF RpmStep
  <2> DEFINE z == RpmStep(s, i, t, j)
  <2> HIDE DEF A, B, x, y, z
  <2>2. z = IF x = -1 \/ y = -1 THEN IF x # -1 THEN 1 ELSE IF y # -1 THEN -1 ELSE 0
            ELSE IF x = 1 \/ y = 1
            THEN IF x # 1 THEN -Caret(x = 0) ELSE IF y # 1 THEN Caret(y = 0) ELSE 0
            ELSE IF x = 0 \/ y = 0 THEN IF y # 0 THEN -1 ELSE IF x # 0 THEN 1 ELSE 0
            ELSE z
    BY <1>1, <1>2, <2>1 DEF z
  <2>3. z = IF x # y THEN Sgn(x - y) ELSE 0
    BY <1>1, <1>2, <1>4, <2>2 DEF Caret, Sgn
  <2>4. x = y => x # 3 /\ x # 2
    BY <1>4
  <2> QED BY <2>3, <2>4 DEF x, y, z
<1> QED BY <1>3, <1>4

\* What is here is ordered.
LEMMA RpmStepOrders ==
  ASSUME NEW s \in Strings, NEW t \in Strings, NEW u \in Strings,
         NEW i, NEW j, NEW k, Landed(s, i), Landed(t, j), Landed(u, k)
  PROVE  /\ RpmStep(s, i, t, j) \in Told /\ RpmStep(t, j, s, i) = -RpmStep(s, i, t, j)
         /\ Chained(RpmStep(s, i, t, j), RpmStep(t, j, u, k), RpmStep(s, i, u, k))
<1> DEFINE G(a, l) == NoZeros(Segment(a, l, Digit))
           L(a, l) == Segment(a, l, Letter)
           x == RpmKind(s, i)
           y == RpmKind(t, j)
           z == RpmKind(u, k)
           D(a, l, b, m) == Number(G(a, l), G(b, m))
           W(a, l, b, m) == Text(L(a, l), L(b, m))
<1>0. i \in Cursors(s) /\ j \in Cursors(t) /\ k \in Cursors(u)
  BY DEF Landed
<1>1. x \in Int /\ y \in Int /\ z \in Int
  BY DEF RpmKind
<1>2. /\ G(s, i) \in Strings /\ G(t, j) \in Strings /\ G(u, k) \in Strings
      /\ L(s, i) \in Strings /\ L(t, j) \in Strings /\ L(u, k) \in Strings
  BY <1>0, RunString, NoZerosString DEF Segment
<1>3. /\ RpmStep(s, i, t, j) = IF x # y THEN Sgn(x - y) ELSE IF x = 3 THEN D(s, i, t, j) ELSE IF x = 2 THEN W(s, i, t, j) ELSE 0
      /\ RpmStep(t, j, s, i) = IF y # x THEN Sgn(y - x) ELSE IF y = 3 THEN D(t, j, s, i) ELSE IF y = 2 THEN W(t, j, s, i) ELSE 0
      /\ RpmStep(t, j, u, k) = IF y # z THEN Sgn(y - z) ELSE IF y = 3 THEN D(t, j, u, k) ELSE IF y = 2 THEN W(t, j, u, k) ELSE 0
      /\ RpmStep(s, i, u, k) = IF x # z THEN Sgn(x - z) ELSE IF x = 3 THEN D(s, i, u, k) ELSE IF x = 2 THEN W(s, i, u, k) ELSE 0
  BY RpmStepKinds
<1> HIDE DEF x, y, z, G, L
<1>4. /\ D(s, i, t, j) \in Told /\ D(t, j, u, k) \in Told /\ D(s, i, u, k) \in Told
      /\ D(t, j, s, i) = -D(s, i, t, j) /\ Chained(D(s, i, t, j), D(t, j, u, k), D(s, i, u, k))
  BY <1>2, NumberOrders
<1>5. /\ W(s, i, t, j) \in Told /\ W(t, j, u, k) \in Told /\ W(s, i, u, k) \in Told
      /\ W(t, j, s, i) = -W(s, i, t, j) /\ Chained(W(s, i, t, j), W(t, j, u, k), W(s, i, u, k))
  BY <1>2, TextOrders
<1> HIDE DEF D, W
<1> DEFINE d1 == D(s, i, t, j)
           d2 == D(t, j, u, k)
           d3 == D(s, i, u, k)
           d4 == D(t, j, s, i)
           w1 == W(s, i, t, j)
           w2 == W(t, j, u, k)
           w3 == W(s, i, u, k)
           w4 == W(t, j, s, i)
           K(p, q, d, w) == IF p # q THEN Sgn(p - q) ELSE IF p = 3 THEN d ELSE IF p = 2 THEN w ELSE 0
<1>6. d1 \in Told /\ d2 \in Told /\ d3 \in Told /\ d4 = -d1 /\ Chained(d1, d2, d3)
  BY <1>4
<1>7. w1 \in Told /\ w2 \in Told /\ w3 \in Told /\ w4 = -w1 /\ Chained(w1, w2, w3)
  BY <1>5
<1>8. /\ RpmStep(s, i, t, j) = K(x, y, d1, w1) /\ RpmStep(t, j, s, i) = K(y, x, d4, w4)
      /\ RpmStep(t, j, u, k) = K(y, z, d2, w2) /\ RpmStep(s, i, u, k) = K(x, z, d3, w3)
  BY <1>3
<1> HIDE DEF d1, d2, d3, d4, w1, w2, w3, w4
<1>9. K(x, y, d1, w1) \in Told /\ K(y, x, d4, w4) = -K(x, y, d1, w1)
  BY <1>1, <1>6, <1>7 DEF Told, Sgn
<1>10. Chained(K(x, y, d1, w1), K(y, z, d2, w2), K(x, z, d3, w3))
  <2>1. CASE x = y /\ y = z
    <3>1. Chained(0, 0, 0)
      BY DEF Chained
    <3> QED BY <1>6, <1>7, <2>1, <3>1
  <2>2. CASE ~(x = y /\ y = z)
    BY <1>1, <1>6, <1>7, <2>2 DEF Told, Sgn, Chained
  <2> QED BY <2>1, <2>2
<1> HIDE DEF K
<1> QED BY <1>8, <1>9, <1>10

\* rpmvercmp is an order.
LEMMA RpmvercmpOrders ==
  ASSUME NEW s \in Strings, NEW t \in Strings, NEW u \in Strings
  PROVE  /\ Rpmvercmp(s, t) \in Told /\ Rpmvercmp(t, s) = -Rpmvercmp(s, t)
         /\ Chained(Rpmvercmp(s, t), Rpmvercmp(t, u), Rpmvercmp(s, u))
<1>1. ASSUME NEW a \in Strings, NEW b \in Strings
      PROVE  /\ Table(RpmHere(a, b), Len(a) + 1, Len(b) + 1)
             /\ \A i \in Cursors(a), j \in Cursors(b) :
                  RpmHere(a, b)[<<i, j>>] = RpmStep(a, Skip(a, i), b, Skip(b, j))
  <2>1. ASSUME NEW i \in Cursors(a), NEW j \in Cursors(b) PROVE RpmStep(a, Skip(a, i), b, Skip(b, j)) \in Told
    <3>1. Landed(a, Skip(a, i)) /\ Landed(b, Skip(b, j))
      BY SkipLands
    <3> QED BY <3>1, RpmStepOrders
  <2>2. \A p \in Cursors(a) \X Cursors(b) : RpmStep(a, Skip(a, p[1]), b, Skip(b, p[2])) \in Told
    BY <2>1
  <2> QED BY <2>2, CursorsOf DEF Table, RpmHere
<1>2. ASSUME NEW a \in Strings, NEW b \in Strings, NEW c \in Strings
      PROVE  /\ Turned(RpmHere(b, a), RpmHere(a, b), Len(a) + 1, Len(b) + 1)
             /\ ChainedTables(RpmHere(a, b), RpmHere(b, c), RpmHere(a, c), Len(a) + 1, Len(b) + 1, Len(c) + 1)
  <2>1. ASSUME NEW i \in Cursors(a), NEW j \in Cursors(b), NEW k \in Cursors(c)
        PROVE  /\ RpmHere(b, a)[<<j, i>>] = -RpmHere(a, b)[<<i, j>>]
               /\ Chained(RpmHere(a, b)[<<i, j>>], RpmHere(b, c)[<<j, k>>], RpmHere(a, c)[<<i, k>>])
    <3> DEFINE x == Skip(a, i)
               y == Skip(b, j)
               z == Skip(c, k)
    <3>1. /\ RpmHere(a, b)[<<i, j>>] = RpmStep(a, x, b, y) /\ RpmHere(b, a)[<<j, i>>] = RpmStep(b, y, a, x)
          /\ RpmHere(b, c)[<<j, k>>] = RpmStep(b, y, c, z) /\ RpmHere(a, c)[<<i, k>>] = RpmStep(a, x, c, z)
      BY <1>1
    <3>2. Landed(a, x) /\ Landed(b, y) /\ Landed(c, z)
      BY SkipLands
    <3> HIDE DEF x, y, z
    <3> QED BY <3>1, <3>2, RpmStepOrders
  <2>2. 1..(Len(a) + 1) = Cursors(a) /\ 1..(Len(b) + 1) = Cursors(b) /\ 1..(Len(c) + 1) = Cursors(c) /\ 1 \in Cursors(c)
    BY CursorsOf
  <2> QED BY <2>1, <2>2 DEF Turned, ChainedTables
<1> DEFINE W(a, b) == Walk(RpmHere(a, b), RpmMoves(a), RpmMoves(b))[<<1, 1>>]
<1>3. ASSUME NEW a \in Strings, NEW b \in Strings, NEW c \in Strings
      PROVE  W(a, b) \in Told /\ W(b, a) = -W(a, b) /\ Chained(W(a, b), W(b, c), W(a, c))
  <2> DEFINE l == Len(a) + 1
             m == Len(b) + 1
             n == Len(c) + 1
  <2>1. l \in Nat /\ m \in Nat /\ n \in Nat /\ 1 \in 1..l /\ 1 \in 1..m /\ 1 \in 1..n
    BY CursorsOf
  <2>2. Moves(RpmMoves(a), l) /\ Moves(RpmMoves(b), m) /\ Moves(RpmMoves(c), n)
    BY RpmMovesForward
  <2>3. Table(RpmHere(a, b), l, m) /\ Table(RpmHere(b, c), m, n) /\ Table(RpmHere(a, c), l, n)
    BY <1>1
  <2>4. /\ Turned(RpmHere(b, a), RpmHere(a, b), l, m)
        /\ ChainedTables(RpmHere(a, b), RpmHere(b, c), RpmHere(a, c), l, m, n)
    BY <1>2
  <2> HIDE DEF l, m, n
  <2>5. W(a, b) \in Told /\ W(b, a) = -W(a, b)
    BY <2>1, <2>2, <2>3, <2>4, WalkTurns
  <2>6. Chained(W(a, b), W(b, c), W(a, c))
    BY <2>1, <2>2, <2>3, <2>4, WalkOrders
  <2> QED BY <2>5, <2>6
<1>4. \A a, b \in Strings : Rpmvercmp(a, b) = IF a = b THEN 0 ELSE W(a, b)
  BY DEF Rpmvercmp
<1> HIDE DEF W
<1>5. \A a, b \in Strings : Rpmvercmp(a, b) = W(a, b)
  <2>1. ASSUME NEW a \in Strings PROVE W(a, a) = 0
    BY <1>3 DEF Told
  <2> QED BY <1>4, <2>1
<1> QED BY <1>3, <1>5

\* rpm_compare (version.rs): whatever the versions, with tildes, carets and separators
\* anywhere, the comparison answers, answers the opposite the other way round, and is
\* transitive.
THEOREM RpmIsTotalOrder ==
  ASSUME NEW a \in Strings, NEW b \in Strings, NEW c \in Strings
  PROVE  /\ RpmCompare(a, b) \in Told /\ RpmCompare(b, a) = -RpmCompare(a, b)
         /\ Chained(RpmCompare(a, b), RpmCompare(b, c), RpmCompare(a, c))
<1> DEFINE N(p, q) == Number(EpochNumber(Epoch(p)), EpochNumber(Epoch(q)))
           W(p, q) == Rpmvercmp(Epoch(p)[2], Epoch(q)[2])
<1>1. /\ N(a, b) \in Told /\ N(b, c) \in Told /\ N(a, c) \in Told /\ N(b, a) = -N(a, b)
      /\ Chained(N(a, b), N(b, c), N(a, c))
  BY EpochStrings, NumberOrders
<1>2. /\ W(a, b) \in Told /\ W(b, c) \in Told /\ W(a, c) \in Told /\ W(b, a) = -W(a, b)
      /\ Chained(W(a, b), W(b, c), W(a, c))
  BY EpochStrings, RpmvercmpOrders
<1>3. \A p, q : RpmCompare(p, q) = Then(N(p, q), W(p, q))
  BY DEF RpmCompare, CmpEpochs
<1> HIDE DEF N, W
<1>4. Then(N(a, b), W(a, b)) \in Told /\ Then(N(b, a), W(b, a)) = -Then(N(a, b), W(a, b))
  BY <1>1, <1>2, ThenTurns
<1>5. Chained(Then(N(a, b), W(a, b)), Then(N(b, c), W(b, c)), Then(N(a, c), W(a, c)))
  BY <1>1, <1>2, ThenOrders
<1> QED BY <1>3, <1>4, <1>5

-----------------------------------------------------------------------------
(* Versions: semantic versions. *)

\* What is before a character is a string.
LEMMA BeforeString ==
  ASSUME NEW s \in Strings, NEW c
  PROVE  Before(s, c) \in Strings
<1>1. 1 \in Cursors(s)
  BY CursorsOf
<1> QED BY <1>1, RunString DEF Before

\* The parts of a string, from a position on: the first and the parts of the rest.
PartsFrom(f, s, c, i) ==
  LET k == RunEnd(s, i, DOMAIN Rank \ {c})
  IN  <<SubSeq(s, i, k - 1)>> \o IF k > Len(s) THEN <<>> ELSE f[k + 1]

\* They are strings.
LEMMA SplitStrings ==
  ASSUME NEW s \in Strings, NEW c
  PROVE  Split(s, c) \in Seq(Strings)
<1> DEFINE n == Len(s) + 1
           E(i) == RunEnd(s, i, DOMAIN Rank \ {c})
           S(f, i) == PartsFrom(f, s, c, i)
           Right(f, t) == f \in [1..n -> {f[i] : i \in 1..n}] /\ \A i \in 1..n : n - i < t => f[i] = S(f, i)
           Made == {t \in 0..n : \E f : Right(f, t)}
<1>1. n \in Nat /\ Len(s) \in Nat /\ Len(s) < n /\ Cursors(s) = 1..n /\ 1 \in 1..n
  BY CursorsOf
<1>2. ASSUME NEW i \in 1..n
      PROVE  /\ E(i) \in 1..n /\ i <= E(i) /\ SubSeq(s, i, E(i) - 1) \in Strings
             /\ ~(E(i) > Len(s)) => E(i) + 1 \in 1..n
  <2>1. E(i) \in 1..n /\ i <= E(i) /\ SubSeq(s, i, E(i) - 1) \in Strings
    BY <1>1, RunEnds, RunString
  <2> HIDE DEF E
  <2> QED BY <1>1, <2>1
<1>3. \A f, i : S(f, i) = <<SubSeq(s, i, E(i) - 1)>> \o IF E(i) > Len(s) THEN <<>> ELSE f[E(i) + 1]
  BY DEF PartsFrom
<1> HIDE DEF n, S, E
<1>4. 0 \in Made
  <2>1. Right([i \in 1..n |-> 0], 0)
    BY <1>1
  <2> HIDE DEF Right
  <2> QED BY <1>1, <2>1
<1>5. ASSUME NEW t \in 0..n, t \in Made, t < n
      PROVE  t + 1 \in Made
  <2>1. PICK f : Right(f, t)
    BY <1>5
  <2> DEFINE g == [i \in 1..n |-> S(f, i)]
  <2>2. ASSUME NEW i \in 1..n, n - i < t + 1 PROVE S(g, i) = S(f, i)
    <3>1. CASE E(i) > Len(s)
      BY <1>3, <3>1
    <3>2. CASE ~(E(i) > Len(s))
      <4> DEFINE j == E(i) + 1
      <4>1. j \in 1..n /\ n - j < t
        BY <1>1, <1>2, <2>2, <3>2
      <4> HIDE DEF j
      <4>2. g[j] = S(f, j) /\ f[j] = S(f, j)
        BY <2>1, <4>1
      <4> HIDE DEF g
      <4>3. g[j] = f[j]
        BY <4>2
      <4> QED BY <1>3, <3>2, <4>3 DEF j
    <3> QED BY <3>1, <3>2
  <2>3. Right(g, t + 1)
    BY <2>2
  <2>4. t + 1 \in 0..n
    BY <1>1, <1>5
  <2> HIDE DEF Right, g
  <2> QED BY <2>3, <2>4
<1>6. n \in Made
  <2>1. \A t \in 0..n : t \in Made /\ t < n => t + 1 \in Made
    BY <1>5
  <2> HIDE DEF Made
  <2>2. \A t \in 0..n : t \in Made
    BY <1>1, <1>4, <2>1, UpTo
  <2> QED BY <1>1, <2>2
<1>7. PICK f : Right(f, n)
  BY <1>6
<1>8. f = [i \in 1..n |-> S(f, i)]
  <2>1. \A i \in 1..n : f[i] = S(f, i)
    BY <1>1, <1>7
  <2>2. f = [i \in 1..n |-> f[i]]
    BY <1>7
  <2> QED BY <2>1, <2>2
<1> DEFINE h == CHOOSE g : g = [i \in 1..n |-> S(g, i)]
<1>9. h = [i \in 1..n |-> S(h, i)]
  BY <1>8
<1>10. Split(s, c) = h[1]
  BY DEF Split, PartsFrom, n, S
<1> HIDE DEF h
<1>11. \A i \in 1..n : h[i] = <<SubSeq(s, i, E(i) - 1)>> \o IF E(i) > Len(s) THEN <<>> ELSE h[E(i) + 1]
  BY <1>3, <1>9
<1> DEFINE T == {t \in Nat : \E i \in 1..n : t = n - i /\ h[i] \notin Seq(Strings)}
<1>12. ASSUME T # {} PROVE FALSE
  <2>1. PICK t \in T : \A u \in T : t <= u
    <3>1. T \subseteq Nat
      OBVIOUS
    <3> HIDE DEF T
    <3> QED BY <1>12, <3>1, LeastNat
  <2>2. PICK i \in 1..n : t = n - i /\ h[i] \notin Seq(Strings)
    OBVIOUS
  <2> DEFINE x == SubSeq(s, i, E(i) - 1)
             y == IF E(i) > Len(s) THEN <<>> ELSE h[E(i) + 1]
  <2>3. x \in Strings /\ h[i] = <<x>> \o y
    BY <1>2, <1>11
  <2>4. y \in Seq(Strings)
    <3>1. CASE E(i) > Len(s)
      BY <3>1
    <3>2. CASE ~(E(i) > Len(s))
      <4> DEFINE j == E(i) + 1
      <4>1. j \in 1..n /\ j > i
        BY <1>1, <1>2, <3>2
      <4>2. y = h[j]
        BY <3>2
      <4> HIDE DEF j, y
      <4>3. n - j \in Nat /\ n - j < t
        BY <1>1, <2>2, <4>1
      <4>4. n - j \notin T
        <5> HIDE DEF T
        <5> QED BY <1>1, <2>1, <2>2, <4>1, <4>3
      <4> QED BY <4>1, <4>2, <4>3, <4>4
    <3> QED BY <3>1, <3>2
  <2> HIDE DEF x, y
  <2>5. <<x>> \o y \in Seq(Strings)
    BY <2>3, <2>4
  <2> QED BY <2>2, <2>3, <2>5
<1>13. h[1] \in Seq(Strings)
  <2>1. n - 1 \in Nat /\ 1 \in 1..n
    BY <1>1
  <2> QED BY <1>12, <2>1
<1> QED BY <1>10, <1>13

\* The parts of a semantic version are strings.
LEMMA SemverParts ==
  ASSUME NEW a \in Strings
  PROVE  /\ SemverPre(Unprefixed(a)) \in Seq(Strings)
         /\ \A k \in 1..3 : CoreNumber(SemverCore(Unprefixed(a)), k) \in Strings
<1> DEFINE v == Unprefixed(a)
           w == Before(v, "+")
           d == Len(Before(w, "-")) + 1
<1>1. v \in Strings
  <2>1. CASE a # <<>> /\ a[1] = "v"
    BY <2>1 DEF Unprefixed, Strings
  <2>2. CASE ~(a # <<>> /\ a[1] = "v")
    BY <2>2 DEF Unprefixed
  <2> QED BY <2>1, <2>2
<1> HIDE DEF v
<1>2. w \in Strings /\ Before(w, "-") \in Strings
  BY <1>1, BeforeString
<1>3. SemverPre(v) \in Seq(Strings)
  <2>1. SemverPre(v) = IF d > Len(w) THEN <<>> ELSE Split(SubSeq(w, d + 1, Len(w)), ".")
    BY DEF SemverPre
  <2>2. d \in Nat /\ Len(w) \in Nat
    BY <1>2, CursorsOf
  <2> HIDE DEF w, d
  <2>3. SubSeq(w, d + 1, Len(w)) \in Strings
    BY <1>2, <2>2, PartOfString
  <2>4. Split(SubSeq(w, d + 1, Len(w)), ".") \in Seq(Strings)
    BY <2>3, SplitStrings
  <2> QED BY <2>1, <2>4
<1>4. SemverCore(v) \in Seq(Strings)
  BY <1>2, SplitStrings DEF SemverCore
<1>5. ASSUME NEW k \in 1..3 PROVE CoreNumber(SemverCore(v), k) \in Strings
  <2>1. <<>> \in Strings
    BY DEF Strings
  <2>2. CASE k <= Len(SemverCore(v))
    <3>1. SemverCore(v)[k] \in Strings
      BY <1>4, <2>2
    <3> QED BY <2>2, <3>1, NoZerosString DEF CoreNumber
  <2>3. CASE ~(k <= Len(SemverCore(v)))
    BY <2>1, <2>3 DEF CoreNumber
  <2> QED BY <2>2, <2>3
<1> QED BY <1>3, <1>5 DEF v

\* Identifiers are ordered.
LEMMA PreIdOrders ==
  ASSUME NEW x \in Strings, NEW y \in Strings, NEW z \in Strings
  PROVE  /\ CmpPreId(x, y) \in Told /\ CmpPreId(y, x) = -CmpPreId(x, y)
         /\ Chained(CmpPreId(x, y), CmpPreId(y, z), CmpPreId(x, z))
<1> DEFINE N(p, q) == Number(NoZeros(p), NoZeros(q))
<1>1. /\ N(x, y) \in Told /\ N(y, z) \in Told /\ N(x, z) \in Told /\ N(y, x) = -N(x, y)
      /\ Chained(N(x, y), N(y, z), N(x, z))
  BY NoZerosString, NumberOrders
<1>2. /\ Text(x, y) \in Told /\ Text(y, z) \in Told /\ Text(x, z) \in Told /\ Text(y, x) = -Text(x, y)
      /\ Chained(Text(x, y), Text(y, z), Text(x, z))
  BY TextOrders
<1>3. \A p, q : CmpPreId(p, q) = IF IsNumber(p) THEN IF IsNumber(q) THEN N(p, q) ELSE -1
                                 ELSE IF IsNumber(q) THEN 1 ELSE Text(p, q)
  BY DEF CmpPreId
<1> HIDE DEF N
<1>4. CmpPreId(x, y) \in Told /\ CmpPreId(y, x) = -CmpPreId(x, y)
  BY <1>1, <1>2, <1>3 DEF Told
<1>5. Chained(CmpPreId(x, y), CmpPreId(y, z), CmpPreId(x, z))
  <2> DEFINE A == IsNumber(x)
             B == IsNumber(y)
             D == IsNumber(z)
             m1 == N(x, y)
             m2 == N(y, z)
             m3 == N(x, z)
             w1 == Text(x, y)
             w2 == Text(y, z)
             w3 == Text(x, z)
             c == IF A THEN IF B THEN m1 ELSE -1 ELSE IF B THEN 1 ELSE w1
             d == IF B THEN IF D THEN m2 ELSE -1 ELSE IF D THEN 1 ELSE w2
             e == IF A THEN IF D THEN m3 ELSE -1 ELSE IF D THEN 1 ELSE w3
  <2>1. CmpPreId(x, y) = c /\ CmpPreId(y, z) = d /\ CmpPreId(x, z) = e
    BY <1>3
  <2>2. m1 \in Told /\ m2 \in Told /\ m3 \in Told /\ Chained(m1, m2, m3)
    BY <1>1
  <2>3. w1 \in Told /\ w2 \in Told /\ w3 \in Told /\ Chained(w1, w2, w3)
    BY <1>2
  <2>4. Chained(c, d, e)
    <3> HIDE DEF A, B, D, m1, m2, m3, w1, w2, w3
    <3>1. CASE A
      BY <2>2, <2>3, <3>1 DEF Told, Chained
    <3>2. CASE ~A
      BY <2>2, <2>3, <3>2 DEF Told, Chained
    <3> QED BY <3>1, <3>2
  <2> HIDE DEF c, d, e
  <2> QED BY <2>1, <2>4
<1> QED BY <1>4, <1>5

\* Pre-releases are ordered.
LEMMA PreOrders ==
  ASSUME NEW p \in Seq(Strings), NEW q \in Seq(Strings), NEW r \in Seq(Strings)
  PROVE  /\ CmpPre(p, q) \in Told /\ CmpPre(q, p) = -CmpPre(p, q)
         /\ Chained(CmpPre(p, q), CmpPre(q, r), CmpPre(p, r))
<1>0. Len(p) \in Nat /\ Len(q) \in Nat /\ Len(r) \in Nat
  OBVIOUS
<1> DEFINE n == Len(p) + Len(q) + Len(r)
           K(x, y, k) == IF k <= Len(x) THEN IF k <= Len(y) THEN CmpPreId(x[k], y[k]) ELSE 1
                         ELSE IF k <= Len(y) THEN -1 ELSE 0
           C(x, y) == [k \in 1..n |-> K(x, y, k)]
<1>1. n \in Nat /\ Len(p) <= n /\ Len(q) <= n /\ Len(r) <= n
  BY <1>0
<1> HIDE DEF n
<1>2. ASSUME NEW x \in Seq(Strings), NEW y \in Seq(Strings), NEW z \in Seq(Strings), NEW k \in 1..n
      PROVE  /\ K(x, y, k) \in Told /\ K(y, x, k) = -K(x, y, k)
             /\ Chained(K(x, y, k), K(y, z, k), K(x, z, k))
  <2> DEFINE A == k <= Len(x)
             B == k <= Len(y)
             D == k <= Len(z)
             c == CmpPreId(x[k], y[k])
             d == CmpPreId(y[k], z[k])
             e == CmpPreId(x[k], z[k])
             b == CmpPreId(y[k], x[k])
  <2>1. k \in Nat /\ k >= 1 /\ Len(x) \in Nat /\ Len(y) \in Nat /\ Len(z) \in Nat
    BY <1>1
  <2>2. (A => x[k] \in Strings) /\ (B => y[k] \in Strings) /\ (D => z[k] \in Strings)
    BY <2>1
  <2>3. /\ A /\ B => c \in Told /\ b = -c
        /\ B /\ D => d \in Told
        /\ A /\ D => e \in Told
        /\ A /\ B /\ D => Chained(c, d, e)
    BY <2>2, PreIdOrders
  <2>4. /\ K(x, y, k) = IF A THEN IF B THEN c ELSE 1 ELSE IF B THEN -1 ELSE 0
        /\ K(y, x, k) = IF B THEN IF A THEN b ELSE 1 ELSE IF A THEN -1 ELSE 0
        /\ K(y, z, k) = IF B THEN IF D THEN d ELSE 1 ELSE IF D THEN -1 ELSE 0
        /\ K(x, z, k) = IF A THEN IF D THEN e ELSE 1 ELSE IF D THEN -1 ELSE 0
    OBVIOUS
  <2> HIDE DEF A, B, D, b, c, d, e, K
  <2>5. K(x, y, k) \in Told /\ K(y, x, k) = -K(x, y, k)
    BY <2>3, <2>4 DEF Told
  <2>6. Chained(K(x, y, k), K(y, z, k), K(x, z, k))
    <3>1. CASE A /\ B /\ D
      BY <2>3, <2>4, <3>1
    <3>2. CASE ~(A /\ B /\ D)
      <4> DEFINE f == K(x, y, k)
                 g == K(y, z, k)
                 h == K(x, z, k)
      <4>1. /\ f = IF A THEN IF B THEN c ELSE 1 ELSE IF B THEN -1 ELSE 0
            /\ g = IF B THEN IF D THEN d ELSE 1 ELSE IF D THEN -1 ELSE 0
            /\ h = IF A THEN IF D THEN e ELSE 1 ELSE IF D THEN -1 ELSE 0
        BY <2>4
      <4> HIDE DEF f, g, h
      <4>2. Chained(f, g, h)
        BY <2>3, <3>2, <4>1 DEF Told, Chained
      <4> QED BY <4>2 DEF f, g, h
    <3> QED BY <3>1, <3>2
  <2> QED BY <2>5, <2>6
<1>3. ASSUME NEW x \in Seq(Strings), NEW y \in Seq(Strings), x # <<>>, y # <<>>, Len(x) <= n, Len(y) <= n
      PROVE  CmpPre(x, y) = FirstNonzero(C(x, y))
  <2>0. Len(x) \in Nat /\ Len(y) \in Nat
    OBVIOUS
  <2> DEFINE m == IF Len(x) < Len(y) THEN Len(x) ELSE Len(y)
             c == [k \in 1..m |-> CmpPreId(x[k], y[k])]
             d == C(x, y)
             e == Sgn(Len(x) - Len(y))
  <2>1. m \in Nat /\ m <= Len(x) /\ m <= Len(y) /\ m <= n
    BY <1>1, <1>3, <2>0
  <2>2. CmpPre(x, y) = Then(FirstNonzero(c), e)
    BY <1>3 DEF CmpPre
  <2>3. \A k \in 1..n : d[k] = K(x, y, k)
    OBVIOUS
  <2>4. d \in [1..n -> Told]
    <3>1. \A k \in 1..n : K(x, y, k) \in Told
      BY <1>2
    <3> HIDE DEF K
    <3> QED BY <3>1
  <2> HIDE DEF d
  <2>5. \A k \in 1..m : k \in 1..n /\ d[k] = c[k]
    <3> TAKE k \in 1..m
    <3>1. k \in 1..n /\ k <= Len(x) /\ k <= Len(y)
      <4> HIDE DEF m
      <4> QED BY <1>1, <2>0, <2>1
    <3> QED BY <2>3, <3>1
  <2>6. c \in [1..m -> Told]
    <3>1. \A k \in 1..m : c[k] \in Told
      <4> HIDE DEF c, m
      <4> QED BY <2>4, <2>5
    <3> HIDE DEF m
    <3> QED BY <3>1
  <2> HIDE DEF c
  <2>7. e \in Told /\ (m = n => e = 0)
    BY <1>1, <1>3, <2>0 DEF Sgn, Told
  <2>8. m < n => d[m + 1] = e
    <3> SUFFICES ASSUME m < n PROVE d[m + 1] = e
      OBVIOUS
    <3>1. m + 1 \in 1..n
      BY <1>1, <2>1
    <3>2. d[m + 1] = K(x, y, m + 1)
      BY <2>3, <3>1
    <3>3. ~(m + 1 <= Len(x) /\ m + 1 <= Len(y))
      BY <2>0
    <3>4. d[m + 1] = IF m + 1 <= Len(x) THEN 1 ELSE IF m + 1 <= Len(y) THEN -1 ELSE 0
      <4> HIDE DEF m
      <4> QED BY <3>2, <3>3
    <3> QED BY <2>0, <3>4 DEF Sgn
  <2>9. e = 0 => \A k \in (m + 1)..n : d[k] = 0
    <3> SUFFICES ASSUME e = 0, NEW k \in (m + 1)..n PROVE d[k] = 0
      OBVIOUS
    <3>1. k \in 1..n /\ ~(k <= Len(x)) /\ ~(k <= Len(y))
      BY <1>1, <2>0 DEF Sgn
    <3> QED BY <2>3, <3>1
  <2> HIDE DEF m, e
  <2>10. FirstNonzero(d) = Then(FirstNonzero(c), e)
    <3>1. \A k \in 1..m : d[k] = c[k]
      BY <2>5
    <3> HIDE DEF K, C
    <3>2. Extended(m, n, c, d, e)
      BY <1>1, <2>1, <2>4, <2>6, <2>7, <2>8, <2>9, <3>1 DEF Extended
    <3> QED BY <3>2, FirstExtended
  <2> QED BY <2>2, <2>10 DEF d
<1>4. ASSUME NEW x \in Seq(Strings), NEW y \in Seq(Strings), NEW z \in Seq(Strings)
      PROVE  /\ C(x, y) \in [1..n -> Told] /\ \A k \in 1..n : C(y, x)[k] = -C(x, y)[k]
             /\ \A k \in 1..n : Chained(C(x, y)[k], C(y, z)[k], C(x, z)[k])
  <2>1. \A k \in 1..n : /\ K(x, y, k) \in Told /\ K(y, x, k) = -K(x, y, k)
                        /\ Chained(K(x, y, k), K(y, z, k), K(x, z, k))
    BY <1>2
  <2> HIDE DEF K
  <2> QED BY <2>1
<1> HIDE DEF C
<1>5. \A x \in Seq(Strings) : x = <<>> <=> Len(x) = 0
  OBVIOUS
<1>6. \A x, y \in Seq(Strings) : x = <<>> \/ y = <<>> => CmpPre(x, y) = Sgn(Len(y) - Len(x))
  BY DEF CmpPre
<1>7. CmpPre(p, q) \in Told /\ CmpPre(q, p) = -CmpPre(p, q)
  <2>1. CASE p = <<>> \/ q = <<>>
    <3>1. CmpPre(p, q) = Sgn(Len(q) - Len(p)) /\ CmpPre(q, p) = Sgn(Len(p) - Len(q))
      BY <1>6, <2>1
    <3> QED BY <1>0, <3>1 DEF Sgn, Told
  <2>2. CASE p # <<>> /\ q # <<>>
    <3>1. CmpPre(p, q) = FirstNonzero(C(p, q)) /\ CmpPre(q, p) = FirstNonzero(C(q, p))
      BY <1>1, <1>3, <2>2
    <3>2. C(p, q) \in [1..n -> Told] /\ C(q, p) \in [1..n -> Told] /\ \A k \in 1..n : C(q, p)[k] = -C(p, q)[k]
      BY <1>4
    <3> QED BY <1>1, <3>1, <3>2, FirstTurns
  <2> QED BY <2>1, <2>2
<1>8. Chained(CmpPre(p, q), CmpPre(q, r), CmpPre(p, r))
  <2>1. CASE p # <<>> /\ q # <<>> /\ r # <<>>
    <3>1. /\ CmpPre(p, q) = FirstNonzero(C(p, q)) /\ CmpPre(q, r) = FirstNonzero(C(q, r))
          /\ CmpPre(p, r) = FirstNonzero(C(p, r))
      BY <1>1, <1>3, <2>1
    <3>2. /\ C(p, q) \in [1..n -> Told] /\ C(q, r) \in [1..n -> Told] /\ C(p, r) \in [1..n -> Told]
          /\ \A k \in 1..n : Chained(C(p, q)[k], C(q, r)[k], C(p, r)[k])
      BY <1>4
    <3>3. Chained(FirstNonzero(C(p, q)), FirstNonzero(C(q, r)), FirstNonzero(C(p, r)))
      BY <1>1, <3>2, FirstOrders
    <3> QED BY <3>1, <3>3
  <2>2. CASE p = <<>>
    <3>1. CmpPre(p, q) = Sgn(Len(q) - Len(p)) /\ CmpPre(p, r) = Sgn(Len(r) - Len(p)) /\ Len(p) = 0
      BY <1>5, <1>6, <2>2
    <3>2. CASE q = <<>>
      <4>1. CmpPre(q, r) = Sgn(Len(r) - Len(q)) /\ Len(q) = 0
        BY <1>5, <1>6, <3>2
      <4> QED BY <1>0, <3>1, <4>1 DEF Sgn, Chained
    <3>3. CASE q # <<>>
      <4>1. CmpPre(p, q) = 1
        BY <1>0, <1>5, <3>1, <3>3 DEF Sgn
      <4> QED BY <4>1 DEF Chained
    <3> QED BY <3>2, <3>3
  <2>3. CASE p # <<>> /\ q = <<>>
    <3>0. CmpPre(p, q) = Sgn(Len(q) - Len(p)) /\ CmpPre(q, r) = Sgn(Len(r) - Len(q)) /\ Len(q) = 0 /\ Len(p) # 0
      BY <1>5, <1>6, <2>3
    <3>1. CmpPre(p, q) = -1 /\ CmpPre(q, r) = Sgn(Len(r) - Len(q)) /\ Len(q) = 0
      BY <1>0, <3>0 DEF Sgn
    <3>2. CASE r = <<>>
      <4>0. CmpPre(p, r) = Sgn(Len(r) - Len(p)) /\ Len(r) = 0
        BY <1>5, <1>6, <3>2
      <4>1. CmpPre(p, r) = -1
        BY <1>0, <3>0, <4>0 DEF Sgn
      <4>2. CmpPre(q, r) = 0
        BY <1>0, <1>5, <3>1, <3>2 DEF Sgn
      <4> QED BY <3>1, <4>1, <4>2 DEF Chained
    <3>3. CASE r # <<>>
      <4>1. CmpPre(q, r) = 1
        BY <1>0, <1>5, <3>1, <3>3 DEF Sgn
      <4> QED BY <4>1 DEF Chained
    <3> QED BY <3>2, <3>3
  <2>4. CASE p # <<>> /\ q # <<>> /\ r = <<>>
    <3>0. /\ CmpPre(q, r) = Sgn(Len(r) - Len(q)) /\ CmpPre(p, r) = Sgn(Len(r) - Len(p))
          /\ Len(r) = 0 /\ Len(p) # 0 /\ Len(q) # 0
      BY <1>5, <1>6, <2>4
    <3>1. CmpPre(q, r) = -1 /\ CmpPre(p, r) = -1
      BY <1>0, <3>0 DEF Sgn
    <3> QED BY <3>1 DEF Chained
  <2> QED BY <2>1, <2>2, <2>3, <2>4
<1> QED BY <1>7, <1>8

\* semver_compare (version.rs): on versions that parse, the comparison answers, answers
\* the opposite the other way round, and is transitive, with and without a pre-release.
THEOREM SemverIsTotalOrder ==
  ASSUME NEW a \in Strings, NEW b \in Strings, NEW c \in Strings,
         ParseSemver(a).parses, ParseSemver(b).parses, ParseSemver(c).parses
  PROVE  /\ SemverCompare(a, b) \in Told /\ SemverCompare(b, a) = -SemverCompare(a, b)
         /\ Chained(SemverCompare(a, b), SemverCompare(b, c), SemverCompare(a, c))
<1> DEFINE N(p, q) == [k \in 1..3 |-> Number(ParseSemver(p).core[k], ParseSemver(q).core[k])]
           F(p, q) == FirstNonzero(N(p, q))
           R(p, q) == CmpPre(ParseSemver(p).pre, ParseSemver(q).pre)
<1>0. ASSUME NEW p \in Strings
      PROVE  /\ ParseSemver(p).pre \in Seq(Strings)
             /\ \A k \in 1..3 : ParseSemver(p).core[k] \in Strings
  BY SemverParts DEF ParseSemver
<1>1. ASSUME NEW p \in Strings, NEW q \in Strings, NEW r \in Strings
      PROVE  F(p, q) \in Told /\ F(q, p) = -F(p, q) /\ Chained(F(p, q), F(q, r), F(p, r))
  <2>1. ASSUME NEW x \in Strings, NEW y \in Strings, NEW z \in Strings
        PROVE  /\ N(x, y) \in [1..3 -> Told]
               /\ \A k \in 1..3 : N(y, x)[k] = -N(x, y)[k] /\ Chained(N(x, y)[k], N(y, z)[k], N(x, z)[k])
    <3> DEFINE G(v, k) == ParseSemver(v).core[k]
    <3>1. \A k \in 1..3 : G(x, k) \in Strings /\ G(y, k) \in Strings /\ G(z, k) \in Strings
      BY <1>0
    <3> HIDE DEF G
    <3>2. \A k \in 1..3 : /\ Number(G(x, k), G(y, k)) \in Told
                          /\ Number(G(y, k), G(x, k)) = -Number(G(x, k), G(y, k))
                          /\ Chained(Number(G(x, k), G(y, k)), Number(G(y, k), G(z, k)), Number(G(x, k), G(z, k)))
      BY <3>1, NumberOrders
    <3> QED BY <3>2 DEF G
  <2> HIDE DEF N
  <2>2. /\ N(p, q) \in [1..3 -> Told] /\ N(q, p) \in [1..3 -> Told] /\ N(q, r) \in [1..3 -> Told]
        /\ N(p, r) \in [1..3 -> Told]
        /\ \A k \in 1..3 : N(q, p)[k] = -N(p, q)[k]
        /\ \A k \in 1..3 : Chained(N(p, q)[k], N(q, r)[k], N(p, r)[k])
    BY <2>1
  <2>3. F(p, q) \in Told /\ F(q, p) = -F(p, q)
    BY <2>2, FirstTurns
  <2>4. Chained(F(p, q), F(q, r), F(p, r))
    BY <2>2, FirstOrders
  <2> QED BY <2>3, <2>4
<1>2. ASSUME NEW p \in Strings, NEW q \in Strings, NEW r \in Strings
      PROVE  R(p, q) \in Told /\ R(q, p) = -R(p, q) /\ Chained(R(p, q), R(q, r), R(p, r))
  BY <1>0, PreOrders
<1>3. /\ SemverCompare(a, b) = Then(F(a, b), R(a, b)) /\ SemverCompare(b, a) = Then(F(b, a), R(b, a))
      /\ SemverCompare(b, c) = Then(F(b, c), R(b, c)) /\ SemverCompare(a, c) = Then(F(a, c), R(a, c))
  BY DEF SemverCompare, CmpSemver
<1> HIDE DEF F, R
<1>4. Then(F(a, b), R(a, b)) \in Told /\ Then(F(b, a), R(b, a)) = -Then(F(a, b), R(a, b))
  BY <1>1, <1>2, ThenTurns
<1>5. Chained(Then(F(a, b), R(a, b)), Then(F(b, c), R(b, c)), Then(F(a, c), R(a, c)))
  BY <1>1, <1>2, ThenOrders
<1> QED BY <1>3, <1>4, <1>5
=============================================================================
