----------------------------- MODULE CorrProofs -----------------------------
(***************************************************************************)
(* Theorems about the correlation task, for every set of pids, images and  *)
(* events, and every window and cap.                                       *)
(***************************************************************************)
EXTENDS Corr, SequenceFacts, SequenceTheorems, FiniteSetTheorems

Tracker == [Pid -> ChainState \cup {None}]

\* A chain that was reported of a process keeps quiet for its window: as long as it is
\* latched one of its halves is no older than the report, and otherwise the report is
\* a window old.
Latched ==
  \A p \in Pid, j \in Join :
    IF chain[p] # None /\ j \in chain[p].fired
    THEN \E k \in Parts(j) : chain[p].half[k] # NoHalf /\ chain[p].half[k] <= quiet[p][j]
    ELSE quiet[p][j] = ChainWindow

-----------------------------------------------------------------------------
(* Sizes. *)

\* The windows and the caps are positive, and the grace is within the chain window.
LEMMA Numbers ==
  /\ Grace \in Nat \ {0} /\ ChainWindow \in Nat \ {0} /\ Grace <= ChainWindow
  /\ MaxTracked \in Nat \ {0} /\ MaxExited \in Nat \ {0} /\ MaxPending \in Nat \ {0}
  /\ MaxChain \in Nat \ {0}
  BY Sizes

\* A set of pids has a size, and a part of it no larger one.
LEMMA CapPart ==
  ASSUME NEW S \in SUBSET Pid, NEW T \in SUBSET S
  PROVE  /\ IsFiniteSet(S) /\ IsFiniteSet(T) /\ Cardinality(S) \in Nat /\ Cardinality(T) \in Nat
         /\ Cardinality(T) <= Cardinality(S) /\ (Cardinality(S) = Cardinality(T) => S = T)
<1>1. IsFiniteSet(S)
  BY SetsApart, FS_Subset
<1>2. IsFiniteSet(T) /\ Cardinality(T) <= Cardinality(S) /\ (Cardinality(S) = Cardinality(T) => S = T)
  BY <1>1, FS_Subset
<1> QED
  BY <1>1, <1>2, FS_CardinalityType

\* A table that has room, or in which one makes way, keeps its cap.
LEMMA CapAdd ==
  ASSUME NEW S \in SUBSET Pid, NEW p \in Pid, NEW n \in Nat, Cardinality(S) <= n,
         p \in S \/ Cardinality(S) < n
  PROVE  Cardinality(S \cup {p}) <= n
<1>1. IsFiniteSet(S) /\ Cardinality(S) \in Nat
  BY CapPart
<1>2. Cardinality(S \cup {p}) = IF p \in S THEN Cardinality(S) ELSE Cardinality(S) + 1
  BY <1>1, FS_AddElement
<1> QED
  BY <1>1, <1>2

\* One in, one out: the cap still holds.
LEMMA CapSwap ==
  ASSUME NEW S \in SUBSET Pid, NEW p \in Pid, NEW v \in S, NEW n \in Nat, Cardinality(S) <= n
  PROVE  Cardinality((S \ {v}) \cup {p}) <= n
<1>1. IsFiniteSet(S) /\ Cardinality(S) \in Nat
  BY CapPart
<1>2. Cardinality(S \ {v}) = Cardinality(S) - 1
  BY <1>1, FS_RemoveElement
<1>3. S \ {v} \in SUBSET Pid /\ Cardinality(S \ {v}) < n /\ Cardinality(S \ {v}) <= n
  BY <1>1, <1>2
<1> QED
  BY <1>3, CapAdd

-----------------------------------------------------------------------------
(* The chain tracker. *)

\* Each chain joins some of the three kinds of half.
LEMMA Kinds ==
  /\ Kind = {"connect", "write", "read"} /\ Join = {"triple", "exfil"}
  /\ \A j \in Join : Parts(j) \subseteq Kind /\ Parts(j) # {}
  BY DEF Kind, Join, Parts

\* Who makes way for an entry of p.
LEMMA EvictFacts ==
  ASSUME NEW c \in Tracker, NEW p \in Pid, NEW d \in EvictOldestChain(c, p),
         Cardinality(Entries(c)) <= MaxChain
  PROVE  /\ d \in Tracker /\ d[p] = c[p]
         /\ \A q \in Pid : d[q] = c[q] \/ d[q] = None
         /\ Cardinality(Entries(d) \cup {p}) <= MaxChain
         /\ \/ d = c
            \/ c[p] = None /\ Cardinality(Entries(c)) = MaxChain
<1>1. Entries(c) \in SUBSET Pid /\ Cardinality(Entries(c)) \in Nat /\ MaxChain \in Nat
  <2>1. Entries(c) \in SUBSET Pid
    BY DEF Entries
  <2> QED
    BY <2>1, CapPart, Numbers
<1>2. CASE c[p] # None \/ Cardinality(Entries(c)) < MaxChain
  <2>1. d = c
    BY <1>2 DEF EvictOldestChain
  <2>2. p \in Entries(c) \/ Cardinality(Entries(c)) < MaxChain
    BY <1>2 DEF Entries
  <2>3. Cardinality(Entries(c) \cup {p}) <= MaxChain
    BY <1>1, <2>2, CapAdd
  <2> QED
    BY <2>1, <2>3
<1>3. CASE ~(c[p] # None \/ Cardinality(Entries(c)) < MaxChain)
  <2>1. PICK q \in Entries(c) : d = [c EXCEPT ![q] = None]
    BY <1>3 DEF EvictOldestChain
  <2>2. q \in Pid /\ c[q] # None /\ q # p
    BY <1>3, <2>1 DEF Entries
  <2>3. \A r \in Pid : d[r] = IF r = q THEN None ELSE c[r]
    BY <2>1, <2>2 DEF Tracker
  <2>4. d \in Tracker
    BY <2>1, <2>2 DEF Tracker
  <2>5. Entries(d) = Entries(c) \ {q}
    BY <2>3 DEF Entries
  <2>6. Cardinality((Entries(c) \ {q}) \cup {p}) <= MaxChain
    BY <1>1, <2>1, CapSwap
  <2>7. Cardinality(Entries(c)) = MaxChain
    BY <1>1, <1>3
  <2> QED
    BY <1>3, <2>2, <2>3, <2>4, <2>5, <2>6, <2>7
<1> QED
  BY <1>2, <1>3

\* The entry of p once halves of these kinds are recorded over an old one.
Halves(old, kinds) == [k \in Kind |-> IF k \in kinds THEN 0 ELSE old.half[k]]
Now(old, kinds) ==
  {j \in Join \ old.fired : /\ Parts(j) \cap kinds # {}
                            /\ \A k \in Parts(j) : IsFresh(Halves(old, kinds)[k])}
Entry(old, kinds) ==
  [half |-> Halves(old, kinds), fired |-> old.fired \cup Now(old, kinds), of |-> old.of]

\* Recording halves makes them new and fires only what had not fired.
LEMMA EntryFacts ==
  ASSUME NEW old \in ChainState, NEW kinds \in SUBSET Kind
  PROVE  /\ Entry(old, kinds) \in ChainState
         /\ Entry(old, kinds).of = old.of
         /\ Entry(old, kinds).fired = old.fired \cup Now(old, kinds)
         /\ \A k \in Kind : Entry(old, kinds).half[k] = IF k \in kinds THEN 0 ELSE old.half[k]
         /\ Now(old, kinds) \subseteq Join \ old.fired
<1>1. old.half \in [Kind -> Age \cup {NoHalf}] /\ old.fired \in SUBSET Join /\ old.of \in {0, 1}
  BY DEF ChainState
<1>2. 0 \in Age
  BY Numbers DEF Age
<1>3. Halves(old, kinds) \in [Kind -> Age \cup {NoHalf}]
  BY <1>1, <1>2 DEF Halves
<1>4. Now(old, kinds) \subseteq Join \ old.fired
  BY DEF Now
<1>5. old.fired \cup Now(old, kinds) \in SUBSET Join
  BY <1>1, <1>4
<1>6. Entry(old, kinds) \in ChainState
  BY <1>1, <1>3, <1>5 DEF Entry, ChainState
<1>7. \A k \in Kind : Halves(old, kinds)[k] = IF k \in kinds THEN 0 ELSE old.half[k]
  BY DEF Halves
<1> QED
  BY <1>4, <1>6, <1>7 DEF Entry

\* What Record does.
LEMMA RecordFacts ==
  ASSUME NEW c \in Tracker, NEW p \in Pid, NEW kinds \in SUBSET Kind, Record(c, p, kinds),
         Cardinality(Entries(c)) <= MaxChain, gen' \in [Pid -> {0, 1}]
  PROVE  \E d \in EvictOldestChain(c, p), old \in ChainState :
           /\ old = IF c[p] = None THEN NewChain(p) ELSE c[p]
           /\ chain' = [d EXCEPT ![p] = Entry(old, kinds)]
           /\ joined' = {<<p, j>> : j \in Now(old, kinds)}
           /\ quiet' = Hush(d, joined')
<1>1. PICK d \in EvictOldestChain(c, p) :
        LET old == IF d[p] = None THEN NewChain(p) ELSE d[p]
            cs  == [old EXCEPT !.half = [k \in Kind |-> IF k \in kinds THEN 0 ELSE @[k]]]
            now == Fires(cs, kinds)
        IN  /\ chain' = [d EXCEPT ![p] = [cs EXCEPT !.fired = @ \cup now]]
            /\ joined' = {<<p, j>> : j \in now}
            /\ quiet' = Hush(d, joined')
  BY DEF Record
<1>2. d \in Tracker /\ d[p] = c[p]
  BY EvictFacts
<1> DEFINE old == IF d[p] = None THEN NewChain(p) ELSE d[p]
           cs == [old EXCEPT !.half = [k \in Kind |-> IF k \in kinds THEN 0 ELSE @[k]]]
           now == Fires(cs, kinds)
<1>3. /\ chain' = [d EXCEPT ![p] = [cs EXCEPT !.fired = @ \cup now]]
      /\ joined' = {<<p, j>> : j \in now} /\ quiet' = Hush(d, joined')
  BY <1>1
<1>4. old \in ChainState
  <2>1. NewChain(p) \in ChainState
    BY DEF NewChain, ChainState
  <2> QED
    BY <1>2, <2>1 DEF Tracker
<1>5. old = IF c[p] = None THEN NewChain(p) ELSE c[p]
  BY <1>2
<1> HIDE DEF old
<1>6. old = [half |-> old.half, fired |-> old.fired, of |-> old.of]
  BY <1>4 DEF ChainState
<1>7. cs = [half |-> Halves(old, kinds), fired |-> old.fired, of |-> old.of]
  BY <1>6 DEF Halves
<1> HIDE DEF cs
<1>8. cs.half = Halves(old, kinds) /\ cs.fired = old.fired /\ cs.of = old.of
  BY <1>7
<1>9. now = Now(old, kinds)
  BY <1>8 DEF Fires, Now
<1> HIDE DEF now
<1>10. [cs EXCEPT !.fired = @ \cup now] = Entry(old, kinds)
  <2> DEFINE f == cs.fired \cup now
             h == Halves(old, kinds)
             o == old.of
  <2>1. f = old.fired \cup Now(old, kinds)
    BY <1>8, <1>9
  <2>2. cs = [half |-> h, fired |-> old.fired, of |-> o]
    BY <1>7
  <2> HIDE DEF f, h, o
  <2>3. [cs EXCEPT !.fired = f] = [half |-> h, fired |-> f, of |-> o]
    BY <2>2
  <2>4. Entry(old, kinds) = [half |-> h, fired |-> f, of |-> o]
    BY <2>1 DEF Entry, h, o
  <2> QED
    BY <2>3, <2>4 DEF f
<1> QED
  BY <1>3, <1>4, <1>5, <1>9, <1>10

\* What a step may do to a half, and when it may report a chain.
HalfStep ==
  \A p \in Entries(chain) : \A k \in Kind :
    IsFresh(chain[p].half[k]) =>
      \/ chain'[p] # None /\ chain'[p].half[k] \in
           {0, chain[p].half[k], chain[p].half[k] + 1}
      \/ gen'[p] # gen[p]
      \/ /\ Cardinality(Entries(chain)) = MaxChain
         /\ \E q \in Pid : chain[q] = None /\ chain'[q] # None

OnceStep ==
  \A p \in Pid, j \in Join : <<p, j>> \in joined' =>
    quiet[p][j] >= ChainWindow \/ gen'[p] # gen[p]

\* What every step keeps of the chains.
ChainTyped ==
  /\ chain \in Tracker /\ Cardinality(Entries(chain)) <= MaxChain
  /\ joined \subseteq Pid \X Join /\ quiet \in [Pid -> [Join -> Age]]

ChainKept ==
  /\ ChainTyped' /\ OneInstance' /\ JoinNotMissed' /\ Latched'
  /\ HalfStep /\ OnceStep

\* The tracker a step starts from: the one there is, without the entry of a pid that
\* is taken over.
Starts(c, p) ==
  /\ c \in Tracker /\ gen' \in [Pid -> {0, 1}]
  /\ \A q \in Pid \ {p} : c[q] = chain[q] /\ gen'[q] = gen[q]
  /\ \/ c[p] = chain[p] /\ gen'[p] = gen[p]
     \/ c[p] = None /\ gen'[p] # gen[p]

ChainInv == ChainTyped /\ OneInstance /\ JoinNotMissed /\ Latched

\* An age or none.
LEMMA AgeFacts ==
  /\ Age = 0..ChainWindow /\ NoHalf \notin Age /\ NoHalf < 0 /\ NoHalf \in Int
  /\ \A a \in Age \cup {NoHalf} : a \in Int /\ (IsFresh(a) <=> a \in Age /\ a # ChainWindow)
  BY Numbers DEF Age, NoHalf, IsFresh

\* A tracker without some of its entries.
LEMMA FewerEntries ==
  ASSUME ChainTyped, NEW c, NEW p \in Pid, Starts(c, p)
  PROVE  /\ Cardinality(Entries(c)) <= MaxChain
         /\ Cardinality(Entries(c)) = MaxChain => /\ Cardinality(Entries(chain)) = MaxChain
                                                  /\ chain[p] # None => c[p] # None
<1>1. Entries(chain) \in SUBSET Pid /\ Entries(c) \in SUBSET Entries(chain)
  BY DEF Entries, Starts
<1>2. /\ Cardinality(Entries(c)) \in Nat /\ Cardinality(Entries(chain)) \in Nat
      /\ Cardinality(Entries(c)) <= Cardinality(Entries(chain))
      /\ Cardinality(Entries(chain)) = Cardinality(Entries(c)) => Entries(chain) = Entries(c)
  BY <1>1, CapPart
<1>3. Cardinality(Entries(chain)) <= MaxChain /\ MaxChain \in Nat
  BY Numbers DEF ChainTyped
<1>4. Entries(chain) = Entries(c) => (chain[p] # None => c[p] # None)
  BY DEF Entries
<1> QED
  BY <1>2, <1>3, <1>4

\* The time since a chain fired is an age, or the whole window.
LEMMA HushTyped ==
  ASSUME ChainTyped, NEW d, NEW now
  PROVE  Hush(d, now) \in [Pid -> [Join -> Age]]
<1>1. \A p \in Pid, j \in Join : quiet[p][j] \in Age
  BY DEF ChainTyped
<1>2. 0 \in Age /\ ChainWindow \in Age
  BY Numbers DEF Age
<1> QED
  BY <1>1, <1>2 DEF Hush

\* Nothing is recorded: entries go only when their pid is taken over.
LEMMA NothingMoves ==
  ASSUME ChainInv, NEW c, NEW p \in Pid, Starts(c, p), RecordNothing(c)
  PROVE  ChainKept
<1>1. chain' = c /\ joined' = {} /\ quiet' = Hush(c, {})
  BY DEF RecordNothing
<1>2. /\ c \in Tracker /\ \A q \in Pid \ {p} : c[q] = chain[q] /\ gen'[q] = gen[q]
      /\ \/ c[p] = chain[p] /\ gen'[p] = gen[p]
         \/ c[p] = None /\ gen'[p] # gen[p]
  BY DEF Starts
<1>3. ChainTyped'
  <2>1. Cardinality(Entries(c)) <= MaxChain
    BY FewerEntries DEF ChainInv
  <2>2. Hush(c, {}) \in [Pid -> [Join -> Age]]
    BY HushTyped DEF ChainInv
  <2> QED
    BY <1>1, <1>2, <2>1, <2>2 DEF ChainTyped
<1>4. \A q \in Pid : c[q] # None => c[q] = chain[q] /\ gen'[q] = gen[q]
  BY <1>2
<1>5. OneInstance'
  BY <1>1, <1>4 DEF ChainInv, OneInstance, Entries
<1>6. JoinNotMissed'
  BY <1>1, <1>4 DEF ChainInv, JoinNotMissed, Entries
<1>7. \A q \in Pid, j \in Join :
        quiet'[q][j] = IF chain[q] # None /\ c[q] = None THEN ChainWindow ELSE quiet[q][j]
  BY <1>1 DEF Hush
<1>8. Latched'
  <2> SUFFICES ASSUME NEW q \in Pid, NEW j \in Join
               PROVE  IF c[q] # None /\ j \in c[q].fired
                      THEN \E k \in Parts(j) : c[q].half[k] # NoHalf /\ c[q].half[k] <= quiet'[q][j]
                      ELSE quiet'[q][j] = ChainWindow
    BY <1>1 DEF Latched
  <2>1. IF chain[q] # None /\ j \in chain[q].fired
        THEN \E k \in Parts(j) : chain[q].half[k] # NoHalf /\ chain[q].half[k] <= quiet[q][j]
        ELSE quiet[q][j] = ChainWindow
    BY DEF ChainInv, Latched
  <2>2. CASE c[q] = None
    BY <1>7, <2>1, <2>2
  <2>3. CASE c[q] # None
    <3>1. c[q] = chain[q] /\ quiet'[q][j] = quiet[q][j]
      BY <1>4, <1>7, <2>3
    <3> QED
      BY <2>1, <3>1
  <2> QED
    BY <2>2, <2>3
<1>9. HalfStep
  <2> SUFFICES ASSUME NEW q \in Entries(chain), NEW k \in Kind
               PROVE  \/ chain'[q] # None /\ chain'[q].half[k] = chain[q].half[k]
                      \/ gen'[q] # gen[q]
    BY DEF HalfStep
  <2> QED
    BY <1>1, <1>2 DEF Entries
<1>10. OnceStep
  BY <1>1 DEF OnceStep
<1> QED
  BY <1>3, <1>5, <1>6, <1>8, <1>9, <1>10 DEF ChainKept

\* Halves are recorded for p: chains that they complete are reported, and at the cap
\* the oldest entry makes way.
LEMMA RecordMoves ==
  ASSUME ChainInv, NEW c, NEW p \in Pid, Starts(c, p), NEW kinds \in SUBSET Kind,
         Record(c, p, kinds)
  PROVE  ChainKept
<1>1. /\ c \in Tracker /\ gen' \in [Pid -> {0, 1}]
      /\ \A q \in Pid \ {p} : c[q] = chain[q] /\ gen'[q] = gen[q]
      /\ \/ c[p] = chain[p] /\ gen'[p] = gen[p]
         \/ c[p] = None /\ gen'[p] # gen[p]
  BY DEF Starts
<1>2. Cardinality(Entries(c)) <= MaxChain
  BY FewerEntries DEF ChainInv
<1>3. PICK d \in EvictOldestChain(c, p) : \E old \in ChainState :
        /\ old = IF c[p] = None THEN NewChain(p) ELSE c[p]
        /\ chain' = [d EXCEPT ![p] = Entry(old, kinds)]
        /\ joined' = {<<p, j>> : j \in Now(old, kinds)}
        /\ quiet' = Hush(d, joined')
  BY <1>1, <1>2, RecordFacts
<1>4. PICK old \in ChainState :
        /\ old = IF c[p] = None THEN NewChain(p) ELSE c[p]
        /\ chain' = [d EXCEPT ![p] = Entry(old, kinds)]
        /\ joined' = {<<p, j>> : j \in Now(old, kinds)}
        /\ quiet' = Hush(d, joined')
  BY <1>3
<1> DEFINE e == Entry(old, kinds)
           now == Now(old, kinds)
<1>5. /\ e \in ChainState /\ e.of = old.of /\ e.fired = old.fired \cup now
      /\ \A k \in Kind : e.half[k] = IF k \in kinds THEN 0 ELSE old.half[k]
      /\ now \subseteq Join \ old.fired
  BY EntryFacts
<1>6. /\ d \in Tracker /\ d[p] = c[p]
      /\ \A q \in Pid : d[q] = c[q] \/ d[q] = None
      /\ Cardinality(Entries(d) \cup {p}) <= MaxChain
      /\ \/ d = c
         \/ c[p] = None /\ Cardinality(Entries(c)) = MaxChain
  BY <1>1, <1>2, EvictFacts
<1>7. chain' = [d EXCEPT ![p] = e] /\ joined' = {<<p, j>> : j \in now} /\ quiet' = Hush(d, joined')
  BY <1>4
<1>8. \A j \in now : Parts(j) \cap kinds # {}
  BY DEF Now
<1>9. ASSUME NEW j \in Join \ old.fired, Parts(j) \cap kinds # {},
             \A k \in Parts(j) : IsFresh(e.half[k])
      PROVE  j \in now
  <2>1. e.half = Halves(old, kinds)
    BY DEF Entry
  <2> QED
    BY <1>9, <2>1 DEF Now
<1> HIDE DEF e, now
<1>10. chain' \in Tracker /\ \A q \in Pid : chain'[q] = IF q = p THEN e ELSE d[q]
  BY <1>5, <1>6, <1>7 DEF Tracker
<1>11. e # None
  BY <1>5, SetsApart
<1>12. ChainTyped'
  <2>1. Entries(chain') = Entries(d) \cup {p}
    BY <1>10, <1>11 DEF Entries
  <2>2. quiet' \in [Pid -> [Join -> Age]]
    BY <1>7, HushTyped DEF ChainInv
  <2>3. joined' \subseteq Pid \X Join
    BY <1>5, <1>7
  <2> QED
    BY <1>6, <1>10, <2>1, <2>2, <2>3 DEF ChainTyped
<1>13. c[p] = None => /\ old.fired = {} /\ old.of = gen'[p] /\ \A k \in Kind : old.half[k] = NoHalf
  BY <1>4 DEF NewChain
<1>14. c[p] # None => old = c[p] /\ c[p] = chain[p] /\ gen'[p] = gen[p]
  BY <1>1, <1>4
<1>15. \A q \in Pid \ {p} : d[q] # None => d[q] = chain[q] /\ gen'[q] = gen[q]
  BY <1>1, <1>6
<1>16. OneInstance'
  <2> SUFFICES ASSUME NEW q \in Pid, chain'[q] # None PROVE chain'[q].of = gen'[q]
    BY DEF OneInstance, Entries
  <2>1. \A r \in Pid : chain[r] # None => chain[r].of = gen[r]
    BY DEF ChainInv, OneInstance, Entries
  <2>2. CASE q = p
    BY <1>5, <1>10, <1>13, <1>14, <2>1, <2>2
  <2>3. CASE q # p
    BY <1>10, <1>15, <2>1, <2>3
  <2> QED
    BY <2>2, <2>3
<1>17. JoinNotMissed'
  <2> SUFFICES ASSUME NEW q \in Pid, chain'[q] # None, NEW j \in Join,
                      \A k \in Parts(j) : IsFresh(chain'[q].half[k])
               PROVE  j \in chain'[q].fired
    BY DEF JoinNotMissed, Entries
  <2>1. \A r \in Pid : chain[r] # None /\ (\A k \in Parts(j) : IsFresh(chain[r].half[k])) => j \in chain[r].fired
    BY DEF ChainInv, JoinNotMissed, Entries
  <2>2. CASE q # p
    BY <1>10, <1>15, <2>1, <2>2
  <2>3. CASE q = p
    <3>1. chain'[q] = e /\ \A k \in Parts(j) : IsFresh(e.half[k])
      BY <1>10, <2>3
    <3>2. CASE Parts(j) \cap kinds # {}
      BY <1>5, <1>9, <3>1, <3>2
    <3>3. CASE Parts(j) \cap kinds = {}
      <4>1. \A k \in Parts(j) : k \in Kind /\ e.half[k] = old.half[k]
        BY <1>5, <3>3, Kinds
      <4>2. Parts(j) # {}
        BY Kinds
      <4>3. c[p] # None
        BY <1>13, <3>1, <4>1, <4>2 DEF IsFresh
      <4>4. j \in old.fired
        BY <1>14, <2>1, <3>1, <4>1, <4>3
      <4> QED
        BY <1>5, <3>1, <4>4
    <3> QED
      BY <3>2, <3>3
  <2> QED
    BY <2>2, <2>3
<1>18. \A q \in Pid, j \in Join :
         quiet'[q][j] = IF q = p /\ j \in now THEN 0
                        ELSE IF chain[q] # None /\ d[q] = None THEN ChainWindow ELSE quiet[q][j]
  BY <1>7 DEF Hush
<1>19. \A q \in Pid, j \in Join : quiet[q][j] \in Age
  BY DEF ChainInv, ChainTyped
<1>20. \A q \in Pid, j \in Join :
         IF chain[q] # None /\ j \in chain[q].fired
         THEN \E k \in Parts(j) : chain[q].half[k] # NoHalf /\ chain[q].half[k] <= quiet[q][j]
         ELSE quiet[q][j] = ChainWindow
  BY DEF ChainInv, Latched
<1>21. Latched'
  <2> SUFFICES ASSUME NEW q \in Pid, NEW j \in Join
               PROVE  IF chain'[q] # None /\ j \in chain'[q].fired
                      THEN \E k \in Parts(j) : chain'[q].half[k] # NoHalf /\ chain'[q].half[k] <= quiet'[q][j]
                      ELSE quiet'[q][j] = ChainWindow
    BY DEF Latched
  <2>1. CASE q # p
    <3>1. chain'[q] = d[q]
      BY <1>10, <2>1
    <3>2. CASE d[q] = None
      BY <1>18, <1>20, <2>1, <3>1, <3>2
    <3>3. CASE d[q] # None
      <4>1. d[q] = chain[q] /\ quiet'[q][j] = quiet[q][j]
        BY <1>15, <1>18, <2>1, <3>3
      <4> QED
        BY <1>20, <3>1, <4>1
    <3> QED
      BY <3>2, <3>3
  <2>2. CASE q = p
    <3>1. chain'[q] = e
      BY <1>10, <2>2
    <3>2. CASE j \in now
      <4>1. PICK k \in Parts(j) : k \in kinds
        BY <1>8, <3>2
      <4>2. e.half[k] = 0 /\ quiet'[q][j] = 0 /\ 0 # NoHalf /\ 0 <= 0
        BY <1>5, <1>18, <2>2, <3>2, <4>1 DEF NoHalf
      <4> QED
        BY <1>5, <1>11, <3>1, <3>2, <4>2
    <3>3. CASE j \notin now /\ j \in old.fired
      <4>1. c[p] # None
        BY <1>13, <3>3
      <4>2. quiet'[q][j] = quiet[q][j] /\ old = chain[p]
        BY <1>6, <1>14, <1>18, <2>2, <3>3, <4>1
      <4>3. PICK k \in Parts(j) : old.half[k] # NoHalf /\ old.half[k] <= quiet[q][j]
        BY <1>14, <1>20, <2>2, <3>3, <4>1, <4>2
      <4>4. e.half[k] = 0 \/ e.half[k] = old.half[k]
        BY <1>5, Kinds
      <4>5. 0 <= quiet[q][j] /\ 0 # NoHalf
        BY <1>19, AgeFacts
      <4>6. e.half[k] # NoHalf /\ e.half[k] <= quiet[q][j]
        BY <4>3, <4>4, <4>5
      <4> QED
        BY <1>5, <1>11, <3>1, <3>3, <4>2, <4>6
    <3>4. CASE j \notin now /\ j \notin old.fired
      <4>1. j \notin chain'[q].fired
        BY <1>5, <3>1, <3>4
      <4>2. CASE c[p] = None
        <5>1. d[q] = None
          BY <1>6, <2>2, <4>2
        <5> QED
          BY <1>18, <1>20, <2>2, <3>4, <4>1, <5>1
      <4>3. CASE c[p] # None
        <5>1. d[q] # None /\ old = chain[q]
          BY <1>6, <1>14, <2>2, <4>3
        <5> QED
          BY <1>18, <1>20, <2>2, <3>4, <4>1, <5>1
      <4> QED
        BY <4>2, <4>3
    <3> QED
      BY <3>2, <3>3, <3>4
  <2> QED
    BY <2>1, <2>2
<1>22. HalfStep
  <2> SUFFICES ASSUME NEW q \in Pid, chain[q] # None, NEW k \in Kind
               PROVE  \/ chain'[q] # None /\ chain'[q].half[k] \in {0, chain[q].half[k]}
                      \/ gen'[q] # gen[q]
                      \/ /\ Cardinality(Entries(chain)) = MaxChain
                         /\ \E r \in Pid : chain[r] = None /\ chain'[r] # None
    BY DEF HalfStep, Entries
  <2>1. CASE q = p
    <3>1. CASE c[p] # None
      <4>1. chain'[q] = e /\ old = chain[q]
        BY <1>10, <1>14, <2>1, <3>1
      <4> QED
        BY <1>5, <1>11, <4>1
    <3>2. CASE c[p] = None
      BY <1>1, <2>1, <3>2
    <3> QED
      BY <3>1, <3>2
  <2>2. CASE q # p
    <3>1. chain'[q] = d[q] /\ c[q] = chain[q]
      BY <1>1, <1>10, <2>2
    <3>2. CASE d[q] # None
      BY <1>15, <2>2, <3>1, <3>2
    <3>3. CASE d[q] = None
      <4>1. c[p] = None /\ Cardinality(Entries(c)) = MaxChain
        BY <1>6, <3>1, <3>3
      <4>2. Cardinality(Entries(chain)) = MaxChain /\ chain[p] = None
        BY <4>1, FewerEntries DEF ChainInv
      <4>3. chain'[p] # None
        BY <1>10, <1>11
      <4> QED
        BY <4>2, <4>3
    <3> QED
      BY <3>2, <3>3
  <2> QED
    BY <2>1, <2>2
<1>23. OnceStep
  <2> SUFFICES ASSUME NEW q \in Pid, NEW j \in Join, <<q, j>> \in joined', gen'[q] = gen[q]
               PROVE  quiet[q][j] >= ChainWindow
    BY DEF OnceStep
  <2>1. q = p /\ j \in now
    BY <1>7
  <2>2. c[p] = chain[p] /\ j \notin old.fired
    BY <1>1, <1>5, <2>1
  <2>3. chain[p] # None => j \notin chain[p].fired
    BY <1>14, <2>2
  <2>4. quiet[q][j] = ChainWindow
    BY <1>20, <2>1, <2>3
  <2> QED
    BY <2>4, Numbers
<1> QED
  BY <1>12, <1>16, <1>17, <1>21, <1>22, <1>23 DEF ChainKept

\* The chains are left alone.
LEMMA SameChains ==
  ASSUME ChainInv, UNCHANGED <<chain, gen, quiet>>, joined' = {}
  PROVE  ChainKept
<1>1. ChainTyped' /\ OneInstance' /\ JoinNotMissed' /\ Latched'
  BY DEF ChainInv, ChainTyped, OneInstance, JoinNotMissed, Latched
<1>2. HalfStep /\ OnceStep
  BY DEF HalfStep, OnceStep, Entries
<1> QED
  BY <1>1, <1>2 DEF ChainKept

\* A unit of time keeps ages ages, in their order.
LEMMA OlderFacts ==
  ASSUME NEW w \in Nat \ {0}, NEW a \in 0..w
  PROVE  /\ Older(a, w) \in 0..w /\ (Older(a, w) # w => a # w) /\ Older(NoHalf, w) = NoHalf
         /\ Older(a, w) \in {a, a + 1} /\ (a = w => Older(a, w) = w)
         /\ \A b \in 0..w : a <= b => Older(a, w) <= Older(b, w)
  BY DEF Older, NoHalf

\* Time passes: halves and reports age together.
LEMMA PassMoves ==
  ASSUME ChainInv, Pass
  PROVE  ChainKept
<1>1. /\ chain' = [p \in Pid |-> IF chain[p] = None THEN None
                     ELSE [chain[p] EXCEPT !.half = [k \in Kind |-> Older(@[k], ChainWindow)]]]
      /\ quiet' = [p \in Pid |-> [j \in Join |-> Older(quiet[p][j], ChainWindow)]]
      /\ joined' = {} /\ gen' = gen
  BY DEF Pass
<1>2. chain \in Tracker /\ Cardinality(Entries(chain)) <= MaxChain /\ quiet \in [Pid -> [Join -> Age]]
  BY DEF ChainInv, ChainTyped
<1>3. \A a \in Age : /\ Older(a, ChainWindow) \in Age
                     /\ (Older(a, ChainWindow) # ChainWindow => a # ChainWindow)
                     /\ Older(a, ChainWindow) \in {a, a + 1}
                     /\ (a = ChainWindow => Older(a, ChainWindow) = ChainWindow)
                     /\ \A b \in Age : a <= b => Older(a, ChainWindow) <= Older(b, ChainWindow)
  BY OlderFacts, Numbers DEF Age
<1>4. Older(NoHalf, ChainWindow) = NoHalf /\ NoHalf \notin Age
  BY AgeFacts DEF Older
<1>5. ASSUME NEW p \in Pid, chain[p] # None
      PROVE  /\ chain'[p] \in ChainState /\ chain'[p].fired = chain[p].fired /\ chain'[p].of = chain[p].of
             /\ \A k \in Kind : /\ chain'[p].half[k] = Older(chain[p].half[k], ChainWindow)
                                /\ chain[p].half[k] \in Age \cup {NoHalf}
  <2> DEFINE x == chain[p]
             h == [k \in Kind |-> Older(x.half[k], ChainWindow)]
  <2>1. x \in ChainState /\ chain'[p] = [x EXCEPT !.half = h]
    BY <1>1, <1>2, <1>5 DEF Tracker
  <2>2. x.half \in [Kind -> Age \cup {NoHalf}] /\ x.fired \in SUBSET Join /\ x.of \in {0, 1}
        /\ x = [half |-> x.half, fired |-> x.fired, of |-> x.of]
    BY <2>1 DEF ChainState
  <2> HIDE DEF x
  <2>3. h \in [Kind -> Age \cup {NoHalf}] /\ \A k \in Kind : h[k] = Older(x.half[k], ChainWindow)
    BY <1>3, <1>4, <2>2
  <2> HIDE DEF h
  <2>4. chain'[p] = [half |-> h, fired |-> x.fired, of |-> x.of]
    BY <2>1, <2>2
  <2>5. chain'[p] \in ChainState
    BY <2>2, <2>3, <2>4 DEF ChainState
  <2>6. chain'[p].half = h /\ chain'[p].fired = x.fired /\ chain'[p].of = x.of
    BY <2>4
  <2> QED
    BY <2>2, <2>3, <2>5, <2>6 DEF x
<1>6. \A p \in Pid : (chain[p] = None <=> chain'[p] = None)
  BY <1>1, <1>5, SetsApart
<1>7. ChainTyped'
  <2>1. chain' \in Tracker
    BY <1>1, <1>5, <1>6 DEF Tracker
  <2>2. Entries(chain') = Entries(chain)
    BY <1>6 DEF Entries
  <2>3. quiet' \in [Pid -> [Join -> Age]]
    BY <1>1, <1>2, <1>3
  <2> QED
    BY <1>1, <1>2, <2>1, <2>2, <2>3 DEF ChainTyped
<1>8. OneInstance'
  BY <1>1, <1>5, <1>6 DEF ChainInv, OneInstance, Entries
<1>9. \A a \in Age \cup {NoHalf} : IsFresh(Older(a, ChainWindow)) => IsFresh(a)
  BY <1>3, <1>4, AgeFacts
<1>10. JoinNotMissed'
  <2> SUFFICES ASSUME NEW p \in Pid, chain'[p] # None, NEW j \in Join,
                      \A k \in Parts(j) : IsFresh(chain'[p].half[k])
               PROVE  j \in chain'[p].fired
    BY DEF JoinNotMissed, Entries
  <2>1. chain[p] # None
    BY <1>6
  <2>2. \A k \in Parts(j) : IsFresh(chain[p].half[k])
    BY <1>5, <1>9, <2>1, Kinds
  <2>3. j \in chain[p].fired
    BY <2>1, <2>2 DEF ChainInv, JoinNotMissed, Entries
  <2> QED
    BY <1>5, <2>1, <2>3
<1>11. Latched'
  <2> SUFFICES ASSUME NEW p \in Pid, NEW j \in Join
               PROVE  IF chain'[p] # None /\ j \in chain'[p].fired
                      THEN \E k \in Parts(j) : chain'[p].half[k] # NoHalf /\ chain'[p].half[k] <= quiet'[p][j]
                      ELSE quiet'[p][j] = ChainWindow
    BY DEF Latched
  <2>1. IF chain[p] # None /\ j \in chain[p].fired
        THEN \E k \in Parts(j) : chain[p].half[k] # NoHalf /\ chain[p].half[k] <= quiet[p][j]
        ELSE quiet[p][j] = ChainWindow
    BY DEF ChainInv, Latched
  <2>2. quiet[p][j] \in Age /\ quiet'[p][j] = Older(quiet[p][j], ChainWindow)
    BY <1>1, <1>2
  <2>3. CASE chain[p] # None /\ j \in chain[p].fired
    <3>1. PICK k \in Parts(j) : chain[p].half[k] # NoHalf /\ chain[p].half[k] <= quiet[p][j]
      BY <2>1, <2>3
    <3>2. chain[p].half[k] \in Age /\ chain'[p].half[k] = Older(chain[p].half[k], ChainWindow)
      BY <1>5, <2>3, <3>1, Kinds
    <3>3. chain'[p].half[k] # NoHalf /\ chain'[p].half[k] <= quiet'[p][j]
      BY <1>3, <1>4, <2>2, <3>1, <3>2
    <3> QED
      BY <1>5, <1>6, <2>3, <3>3
  <2>4. CASE ~(chain[p] # None /\ j \in chain[p].fired)
    <3>1. ~(chain'[p] # None /\ j \in chain'[p].fired)
      BY <1>5, <1>6, <2>4
    <3> QED
      BY <1>3, <2>1, <2>2, <2>4, <3>1
  <2> QED
    BY <2>3, <2>4
<1>12. HalfStep
  <2> SUFFICES ASSUME NEW p \in Pid, chain[p] # None, NEW k \in Kind, IsFresh(chain[p].half[k])
               PROVE  chain'[p] # None /\ chain'[p].half[k] \in {chain[p].half[k], chain[p].half[k] + 1}
    BY DEF HalfStep, Entries
  <2>1. chain[p].half[k] \in Age
    BY <1>5 DEF IsFresh
  <2> QED
    BY <1>3, <1>5, <1>6, <2>1
<1>13. OnceStep
  BY <1>1 DEF OnceStep
<1> QED
  BY <1>7, <1>8, <1>10, <1>11, <1>12, <1>13 DEF ChainKept

\* The timer takes only entries of which no half is fresh, and whose reports are a
\* window old.
LEMMA FlushMoves ==
  ASSUME ChainInv, FlushTick
  PROVE  ChainKept
<1>1. /\ chain' = [p \in Pid |-> IF chain[p] # None /\ Purged(p) THEN None ELSE chain[p]]
      /\ joined' = {} /\ gen' = gen /\ quiet' = quiet
  BY DEF FlushTick
<1>2. chain \in Tracker /\ Cardinality(Entries(chain)) <= MaxChain /\ quiet \in [Pid -> [Join -> Age]]
  BY DEF ChainInv, ChainTyped
<1>3. \A p \in Pid : chain'[p] = chain[p] \/ (chain'[p] = None /\ chain[p] # None /\ IsExpired(chain[p]))
  BY <1>1 DEF Purged
<1>4. ChainTyped'
  <2>1. chain' \in Tracker
    BY <1>1, <1>2 DEF Tracker
  <2>2. Entries(chain) \in SUBSET Pid /\ Entries(chain') \in SUBSET Entries(chain)
    BY <1>3 DEF Entries
  <2>3. Cardinality(Entries(chain')) <= MaxChain
    BY <1>2, <2>2, CapPart, Numbers
  <2> QED
    BY <1>1, <1>2, <2>1, <2>3 DEF ChainTyped
<1>5. OneInstance'
  BY <1>1, <1>3 DEF ChainInv, OneInstance, Entries
<1>6. JoinNotMissed'
  BY <1>3 DEF ChainInv, JoinNotMissed, Entries
<1>7. Latched'
  <2> SUFFICES ASSUME NEW p \in Pid, NEW j \in Join
               PROVE  IF chain'[p] # None /\ j \in chain'[p].fired
                      THEN \E k \in Parts(j) : chain'[p].half[k] # NoHalf /\ chain'[p].half[k] <= quiet[p][j]
                      ELSE quiet[p][j] = ChainWindow
    BY <1>1 DEF Latched
  <2>1. IF chain[p] # None /\ j \in chain[p].fired
        THEN \E k \in Parts(j) : chain[p].half[k] # NoHalf /\ chain[p].half[k] <= quiet[p][j]
        ELSE quiet[p][j] = ChainWindow
    BY DEF ChainInv, Latched
  <2>2. CASE chain'[p] = chain[p]
    BY <2>1, <2>2
  <2>3. CASE chain'[p] = None /\ chain[p] # None /\ IsExpired(chain[p])
    <3>1. CASE j \in chain[p].fired
      <4>1. PICK k \in Parts(j) : chain[p].half[k] # NoHalf /\ chain[p].half[k] <= quiet[p][j]
        BY <2>1, <2>3, <3>1
      <4>2. k \in Kind
        BY Kinds
      <4>3. chain[p].half[k] \in Age \cup {NoHalf}
        BY <1>2, <2>3, <4>2 DEF Tracker, ChainState
      <4>4. ~IsFresh(chain[p].half[k])
        BY <2>3, <4>2 DEF IsExpired
      <4>5. chain[p].half[k] = ChainWindow
        BY <4>1, <4>3, <4>4, AgeFacts
      <4>6. quiet[p][j] \in Age
        BY <1>2
      <4>7. quiet[p][j] = ChainWindow
        BY <4>1, <4>5, <4>6, Numbers DEF Age
      <4> QED
        BY <2>3, <4>7
    <3>2. CASE j \notin chain[p].fired
      BY <2>1, <2>3, <3>2
    <3> QED
      BY <3>1, <3>2
  <2> QED
    BY <1>3, <2>2, <2>3
<1>8. HalfStep
  BY <1>3 DEF HalfStep, Entries, IsExpired
<1>9. OnceStep
  BY <1>1 DEF OnceStep
<1> QED
  BY <1>4, <1>5, <1>6, <1>7, <1>8, <1>9 DEF ChainKept

-----------------------------------------------------------------------------
(* The contexts. *)

InRing(s, p) == \E i \in 1..Len(s) : s[i] = p
Once(s) == \A i, j \in 1..Len(s) : s[i] = s[j] => i = j

\* A pid is taken out of the ring.
LEMMA Without ==
  ASSUME NEW s \in Seq(Pid), NEW p \in Pid, Once(s), NEW t, t = Filter(s, Pid \ {p})
  PROVE  /\ t \in Seq(Pid) /\ Once(t) /\ Len(t) <= Len(s) /\ (InRing(s, p) => Len(t) < Len(s))
         /\ \A q \in Pid : InRing(t, q) <=> q # p /\ InRing(s, q)
<1>1. /\ t \in Seq(Pid) /\ Len(t) <= Len(s)
      /\ \E pos \in [1..Len(t) -> 1..Len(s)] : Embeds(pos, t, s, Len(s), Pid \ {p})
  BY FilterFacts
<1>2. PICK pos \in [1..Len(t) -> 1..Len(s)] : Embeds(pos, t, s, Len(s), Pid \ {p})
  BY <1>1
<1>3. /\ \A k \in 1..Len(t) : t[k] = s[pos[k]] /\ s[pos[k]] \in Pid \ {p}
      /\ \A k, l \in 1..Len(t) : k < l => pos[k] < pos[l]
      /\ \A i \in 1..Len(s) : s[i] \in Pid \ {p} => \E k \in 1..Len(t) : pos[k] = i
  BY <1>2 DEF Embeds
<1>4. Len(s) \in Nat /\ Len(t) \in Nat /\ \A i \in 1..Len(s) : s[i] \in Pid
  BY <1>1
<1>5. \A k, l \in 1..Len(t) : pos[k] = pos[l] => k = l
  <2> SUFFICES ASSUME NEW k \in 1..Len(t), NEW l \in 1..Len(t), pos[k] = pos[l], k # l PROVE FALSE
    OBVIOUS
  <2>1. k < l \/ l < k
    BY <1>4
  <2> DEFINE x == pos[k]
             y == pos[l]
  <2>2. x \in 1..Len(s) /\ y \in 1..Len(s) /\ x = y
    BY <1>2
  <2>3. x < y \/ y < x
    BY <1>3, <2>1
  <2> HIDE DEF x, y
  <2> QED
    BY <2>2, <2>3
<1>6. Once(t)
  <2> SUFFICES ASSUME NEW k \in 1..Len(t), NEW l \in 1..Len(t), t[k] = t[l] PROVE k = l
    BY DEF Once
  <2>1. pos[k] \in 1..Len(s) /\ pos[l] \in 1..Len(s) /\ s[pos[k]] = s[pos[l]]
    BY <1>2, <1>3
  <2>2. pos[k] = pos[l]
    BY <2>1 DEF Once
  <2> QED
    BY <1>5, <2>2
<1>7. ASSUME NEW q \in Pid PROVE InRing(t, q) <=> q # p /\ InRing(s, q)
  <2>1. ASSUME InRing(t, q) PROVE q # p /\ InRing(s, q)
    <3>1. PICK k \in 1..Len(t) : t[k] = q
      BY <2>1 DEF InRing
    <3>2. pos[k] \in 1..Len(s) /\ s[pos[k]] = q /\ q # p
      BY <1>2, <1>3, <3>1
    <3> QED
      BY <3>2 DEF InRing
  <2>2. ASSUME q # p, InRing(s, q) PROVE InRing(t, q)
    <3>1. PICK i \in 1..Len(s) : s[i] = q
      BY <2>2 DEF InRing
    <3>2. PICK k \in 1..Len(t) : pos[k] = i
      BY <1>3, <2>2, <3>1
    <3>3. t[k] = q
      BY <1>3, <3>1, <3>2
    <3> QED
      BY <3>3 DEF InRing
  <2> QED
    BY <2>1, <2>2
<1>8. ASSUME InRing(s, p) PROVE Len(t) < Len(s)
  <2>1. PICK i \in 1..Len(s) : s[i] = p
    BY <1>8 DEF InRing
  <2> DEFINE S == 1..Len(t)
             T == (1..Len(s)) \ {i}
  <2>2. pos \in [S -> T]
    <3>1. \A k \in 1..Len(t) : pos[k] # i
      BY <1>3, <2>1
    <3> QED
      BY <1>2, <3>1
  <2>3. pos \in Injection(S, T)
    BY <1>5, <2>2 DEF Injection, IsInjective
  <2>4. IsFiniteSet(1..Len(s)) /\ Cardinality(1..Len(s)) = Len(s) /\ Cardinality(1..Len(t)) = Len(t)
    <3>1. 1 \in Int /\ Len(s) \in Int /\ Len(t) \in Int
      BY <1>4
    <3>2. /\ IsFiniteSet(1..Len(s)) /\ Cardinality(1..Len(s)) = IF 1 > Len(s) THEN 0 ELSE Len(s) - 1 + 1
          /\ Cardinality(1..Len(t)) = IF 1 > Len(t) THEN 0 ELSE Len(t) - 1 + 1
      BY <3>1, FS_Interval
    <3> QED
      BY <1>4, <3>2
  <2>5. IsFiniteSet(T) /\ Cardinality(T) = Len(s) - 1
    BY <2>1, <2>4, FS_RemoveElement
  <2>6. Cardinality(S) <= Cardinality(T)
    <3> HIDE DEF S, T
    <3> QED
      BY <2>3, <2>5, FS_Injection
  <2> QED
    BY <1>4, <2>4, <2>5, <2>6
<1> QED
  BY <1>1, <1>6, <1>7, <1>8

MapTyped ==
  /\ map \in [Pid -> ProcContext \cup {None}]
  /\ order \in Seq(Pid) /\ Len(order) <= MaxTracked /\ Once(order)
  /\ \A p \in Pid : map[p] # None <=> InRing(order, p)

Kept == {p \in Pid : exited[p] # None}

ExitedTyped ==
  /\ exited \in [Pid -> [ctx : ProcContext, age : 0..Retention] \cup {None}]
  /\ Cardinality(Kept) <= MaxExited

\* A context that is added puts out the oldest at the cap.
LEMMA TrackFacts ==
  ASSUME MapTyped, NEW p \in Pid, NEW ctx \in ProcContext, Track(p, ctx)
  PROVE  /\ MapTyped' /\ map'[p] = ctx
         /\ \A q \in Pid \ {p} : map'[q] = map[q] \/ map'[q] = None
<1> DEFINE others == Filter(order, Pid \ {p})
           full == map[p] = None /\ Len(others) >= MaxTracked
           rest == IF full THEN Tail(others) ELSE others
<1>1. /\ order' = Append(rest, p)
      /\ map' = [q \in Pid |-> IF q = p THEN ctx
                               ELSE IF full /\ q = Head(others) THEN None ELSE map[q]]
  BY DEF Track
<1>2. /\ map \in [Pid -> ProcContext \cup {None}] /\ order \in Seq(Pid) /\ Len(order) <= MaxTracked
      /\ Once(order) /\ \A q \in Pid : map[q] # None <=> InRing(order, q)
  BY DEF MapTyped
<1>3. /\ others \in Seq(Pid) /\ Once(others) /\ Len(others) <= Len(order)
      /\ (InRing(order, p) => Len(others) < Len(order))
      /\ \A q \in Pid : InRing(others, q) <=> q # p /\ InRing(order, q)
  BY <1>2, Without
<1> HIDE DEF others
<1>4. Len(others) \in Nat /\ Len(order) \in Nat /\ MaxTracked \in Nat \ {0}
  BY <1>2, <1>3, Numbers
<1>5. /\ rest \in Seq(Pid) /\ Once(rest) /\ Len(rest) < MaxTracked /\ Len(rest) \in Nat
      /\ \A q \in Pid : InRing(rest, q) <=> InRing(others, q) /\ ~(full /\ q = Head(others))
  <2>1. CASE ~full
    <3>1. Len(others) < MaxTracked
      BY <1>2, <1>3, <1>4, <2>1
    <3> QED
      BY <1>3, <1>4, <2>1, <3>1
  <2>2. CASE full
    <3>1. Len(others) = MaxTracked /\ others # << >> /\ Len(others) # 0
      BY <1>2, <1>3, <1>4, <2>2
    <3>2. /\ Tail(others) \in Seq(Pid) /\ Len(Tail(others)) = Len(others) - 1
          /\ \A i \in 1..Len(Tail(others)) : Tail(others)[i] = others[i + 1]
          /\ Head(others) = others[1]
      BY <1>3, <3>1, HeadTailProperties
    <3> DEFINE r == Tail(others)
    <3>3. r \in Seq(Pid) /\ Len(r) = Len(others) - 1 /\ \A i \in 1..Len(r) : r[i] = others[i + 1]
      BY <3>2
    <3> HIDE DEF r
    <3>4. Once(r)
      <4> SUFFICES ASSUME NEW i \in 1..Len(r), NEW j \in 1..Len(r), r[i] = r[j] PROVE i = j
        BY DEF Once
      <4>1. i + 1 \in 1..Len(others) /\ j + 1 \in 1..Len(others) /\ others[i + 1] = others[j + 1]
        BY <1>4, <3>3
      <4>2. i + 1 = j + 1
        BY <1>3, <4>1 DEF Once
      <4> QED
        BY <3>3, <4>2
    <3>5. ASSUME NEW q \in Pid PROVE InRing(r, q) <=> InRing(others, q) /\ q # others[1]
      <4>1. ASSUME InRing(r, q) PROVE InRing(others, q) /\ q # others[1]
        <5>1. PICK i \in 1..Len(r) : r[i] = q
          BY <4>1 DEF InRing
        <5>2. i + 1 \in 1..Len(others) /\ 1 \in 1..Len(others) /\ others[i + 1] = q /\ i + 1 # 1
          BY <1>4, <3>1, <3>3, <5>1
        <5> QED
          BY <1>3, <5>2 DEF InRing, Once
      <4>2. ASSUME InRing(others, q), q # others[1] PROVE InRing(r, q)
        <5>1. PICK i \in 1..Len(others) : others[i] = q
          BY <4>2 DEF InRing
        <5>2. i # 1
          BY <4>2, <5>1
        <5>3. i - 1 \in 1..Len(r) /\ (i - 1) + 1 = i
          BY <1>4, <3>3, <5>2
        <5>4. r[i - 1] = q
          BY <3>3, <5>1, <5>3
        <5> QED
          BY <5>3, <5>4 DEF InRing
      <4> QED
        BY <4>1, <4>2
    <3>6. rest = r
      BY <2>2 DEF r
    <3>7. Len(r) < MaxTracked /\ Len(r) \in Nat
      BY <1>4, <3>1, <3>3
    <3> QED
      BY <2>2, <3>2, <3>3, <3>4, <3>5, <3>6, <3>7
  <2> QED
    BY <2>1, <2>2
<1> HIDE DEF full, rest
<1>6. \A q \in Pid : InRing(rest, q) <=> q # p /\ map[q] # None /\ ~(full /\ q = Head(others))
  BY <1>2, <1>3, <1>5
<1> DEFINE o == Append(rest, p)
<1>7. /\ o \in Seq(Pid) /\ Len(o) = Len(rest) + 1 /\ \A i \in 1..Len(rest) : o[i] = rest[i]
      /\ o[Len(rest) + 1] = p
  BY <1>5, AppendProperties
<1>8. order' = o
  BY <1>1
<1> HIDE DEF o
<1>9. ~InRing(rest, p)
  BY <1>6
<1>10. Once(o)
  <2> SUFFICES ASSUME NEW i \in 1..Len(o), NEW j \in 1..Len(o), o[i] = o[j] PROVE i = j
    BY DEF Once
  <2>1. /\ i \in 1..Len(rest) \/ i = Len(rest) + 1
        /\ j \in 1..Len(rest) \/ j = Len(rest) + 1
    BY <1>5, <1>7
  <2>2. \A n \in 1..Len(rest) : rest[n] # p
    BY <1>9 DEF InRing
  <2> QED
    BY <1>5, <1>7, <2>1, <2>2 DEF Once
<1>11. \A q \in Pid : InRing(o, q) <=> q = p \/ InRing(rest, q)
  <2> SUFFICES ASSUME NEW q \in Pid PROVE InRing(o, q) <=> q = p \/ InRing(rest, q)
    OBVIOUS
  <2>1. \A i \in 1..Len(o) : i \in 1..Len(rest) \/ i = Len(rest) + 1
    BY <1>5, <1>7
  <2>2. Len(rest) + 1 \in 1..Len(o) /\ \A i \in 1..Len(rest) : i \in 1..Len(o)
    BY <1>5, <1>7
  <2> QED
    BY <1>7, <2>1, <2>2 DEF InRing
<1>12. \A q \in Pid : map'[q] = IF q = p THEN ctx ELSE IF full /\ q = Head(others) THEN None ELSE map[q]
  BY <1>1 DEF full, others
<1>13. map' \in [Pid -> ProcContext \cup {None}]
  BY <1>1, <1>2 DEF full, others
<1>14. ctx # None
  BY SetsApart
<1>15. Len(o) <= MaxTracked
  BY <1>4, <1>5, <1>7
<1>16. \A q \in Pid : map'[q] # None <=> InRing(o, q)
  BY <1>6, <1>11, <1>12, <1>14
<1> QED
  BY <1>7, <1>8, <1>10, <1>12, <1>13, <1>15, <1>16 DEF MapTyped

ContextInv == MapTyped /\ ExitedTyped /\ OneContext

\* A process that starts takes over its pid from whoever had it.
LEMMA ExecContexts ==
  ASSUME ContextInv, NEW p \in Pid, NEW ctx \in ProcContext, ForgetExited(p), Track(p, ctx)
  PROVE  ContextInv'
<1>1. MapTyped' /\ \A q \in Pid \ {p} : map'[q] = map[q] \/ map'[q] = None
  BY TrackFacts DEF ContextInv
<1>2. exited \in [Pid -> [ctx : ProcContext, age : 0..Retention] \cup {None}] /\ Cardinality(Kept) <= MaxExited
  BY DEF ContextInv, ExitedTyped
<1>3. exited' = [exited EXCEPT ![p] = None]
  BY DEF ForgetExited
<1>4. \A q \in Pid : exited'[q] = IF q = p THEN None ELSE exited[q]
  BY <1>2, <1>3
<1>5. ExitedTyped'
  <2>1. Kept \in SUBSET Pid /\ Kept' \in SUBSET Kept
    BY <1>4 DEF Kept
  <2>2. Cardinality(Kept') <= MaxExited
    BY <1>2, <2>1, CapPart, Numbers
  <2>3. exited' \in [Pid -> [ctx : ProcContext, age : 0..Retention] \cup {None}]
    BY <1>2, <1>3
  <2> QED
    BY <2>2, <2>3 DEF ExitedTyped
<1>6. OneContext'
  BY <1>1, <1>4 DEF ContextInv, OneContext
<1> QED
  BY <1>1, <1>5, <1>6 DEF ContextInv

\* A process that ends leaves its context behind.
LEMMA ExitContexts ==
  ASSUME ContextInv, NEW p \in Pid, HandleExit(p)
  PROVE  ContextInv'
<1> DEFINE full == exited[p] = None /\ Cardinality(Kept) >= MaxExited
           new == [ctx |-> map[p], age |-> 0]
<1>1. /\ map[p] # None /\ map' = [map EXCEPT ![p] = None] /\ order' = Filter(order, Pid \ {p})
      /\ \E v \in Pid : /\ IF full THEN v \in Kept ELSE v = p
                        /\ exited' = [exited EXCEPT ![v] = None, ![p] = new]
  BY DEF HandleExit, Kept
<1>2. PICK v \in Pid : /\ IF full THEN v \in Kept ELSE v = p
                       /\ exited' = [exited EXCEPT ![v] = None, ![p] = new]
  BY <1>1
<1>3. /\ map \in [Pid -> ProcContext \cup {None}] /\ order \in Seq(Pid) /\ Len(order) <= MaxTracked
      /\ Once(order) /\ \A q \in Pid : map[q] # None <=> InRing(order, q)
  BY DEF ContextInv, MapTyped
<1>4. exited \in [Pid -> [ctx : ProcContext, age : 0..Retention] \cup {None}] /\ Cardinality(Kept) <= MaxExited
  BY DEF ContextInv, ExitedTyped
<1>5. MapTyped'
  <2>1. /\ order' \in Seq(Pid) /\ Once(order') /\ Len(order') <= Len(order)
        /\ \A q \in Pid : InRing(order', q) <=> q # p /\ InRing(order, q)
    BY <1>1, <1>3, Without
  <2>2. map' \in [Pid -> ProcContext \cup {None}] /\ \A q \in Pid : map'[q] = IF q = p THEN None ELSE map[q]
    BY <1>1, <1>3
  <2>3. Len(order') <= MaxTracked
    <3>1. Len(order') \in Nat /\ Len(order) \in Nat /\ MaxTracked \in Nat
      BY <1>3, <2>1, Numbers
    <3> QED
      BY <1>3, <2>1, <3>1
  <2>4. \A q \in Pid : map'[q] # None <=> InRing(order', q)
    BY <1>3, <2>1, <2>2
  <2> QED
    BY <2>1, <2>2, <2>3, <2>4 DEF MapTyped
<1>6. new \in [ctx : ProcContext, age : 0..Retention]
  <2>1. map[p] \in ProcContext
    BY <1>1, <1>3
  <2>2. 0 \in 0..Retention
    BY Numbers DEF Retention
  <2> QED
    BY <2>1, <2>2
<1> HIDE DEF new
<1>7. /\ exited' \in [Pid -> [ctx : ProcContext, age : 0..Retention] \cup {None}]
      /\ \A q \in Pid : exited'[q] = IF q = p THEN new ELSE IF q = v THEN None ELSE exited[q]
  BY <1>2, <1>4, <1>6
<1>8. Cardinality(Kept') <= MaxExited
  <2>0. Kept \in SUBSET Pid
    BY DEF Kept
  <2>1. CASE full
    <3>1. v \in Kept
      BY <1>2, <2>1
    <3>2. Kept' \in SUBSET ((Kept \ {v}) \cup {p})
      BY <1>7 DEF Kept
    <3>3. Cardinality((Kept \ {v}) \cup {p}) <= MaxExited
      BY <1>4, <2>0, <3>1, CapSwap, Numbers
    <3>4. (Kept \ {v}) \cup {p} \in SUBSET Pid
      BY <2>0
    <3> QED
      BY <3>2, <3>3, <3>4, CapPart, Numbers
  <2>2. CASE ~full
    <3>1. Kept' \in SUBSET (Kept \cup {p})
      BY <1>7 DEF Kept
    <3>2. p \in Kept \/ Cardinality(Kept) < MaxExited
      <4>1. Cardinality(Kept) \in Nat /\ MaxExited \in Nat
        BY <2>0, CapPart, Numbers
      <4> QED
        BY <2>2, <4>1 DEF Kept
    <3>3. Cardinality(Kept \cup {p}) <= MaxExited
      BY <1>4, <2>0, <3>2, CapAdd, Numbers
    <3>4. Kept \cup {p} \in SUBSET Pid
      BY <2>0
    <3> QED
      BY <3>1, <3>3, <3>4, CapPart, Numbers
  <2> QED
    BY <2>1, <2>2
<1>9. OneContext'
  <2>1. \A q \in Pid : map'[q] = IF q = p THEN None ELSE map[q]
    BY <1>1, <1>3
  <2> QED
    BY <1>7, <2>1 DEF ContextInv, OneContext
<1> QED
  BY <1>5, <1>7, <1>8, <1>9 DEF ContextInv, ExitedTyped

\* Contexts that are kept age, and go when they are too old.
LEMMA AgeContexts ==
  ASSUME ContextInv, UNCHANGED <<map, order>>,
         exited' \in [Pid -> [ctx : ProcContext, age : 0..Retention] \cup {None}],
         \A p \in Pid : exited[p] = None => exited'[p] = None
  PROVE  ContextInv'
<1>1. MapTyped'
  BY DEF ContextInv, MapTyped
<1>2. Kept \in SUBSET Pid /\ Kept' \in SUBSET Kept
  BY DEF Kept
<1>3. Cardinality(Kept) <= MaxExited
  BY DEF ContextInv, ExitedTyped
<1>4. Cardinality(Kept') <= MaxExited
  BY <1>2, <1>3, CapPart, Numbers
<1>5. OneContext'
  BY DEF ContextInv, OneContext
<1> QED
  BY <1>1, <1>4, <1>5 DEF ContextInv, ExitedTyped

\* Time ages the retained contexts and touches no live one.
LEMMA PassContexts ==
  ASSUME ContextInv, Pass
  PROVE  ContextInv'
<1>1. /\ UNCHANGED <<map, order>>
      /\ exited' = [p \in Pid |-> IF exited[p] = None THEN None
                      ELSE [exited[p] EXCEPT !.age = Older(@, Retention)]]
  BY DEF Pass
<1>2. ExitedTyped
  BY DEF ContextInv
<1>3. ASSUME NEW p \in Pid, exited[p] # None
      PROVE  exited'[p] \in [ctx : ProcContext, age : 0..Retention]
  <2> DEFINE x == exited[p]
             a == Older(x.age, Retention)
  <2>1. x \in [ctx : ProcContext, age : 0..Retention]
    BY <1>2, <1>3 DEF ExitedTyped
  <2>2. exited'[p] = [x EXCEPT !.age = a]
    BY <1>1, <1>3
  <2> HIDE DEF x
  <2>3. a \in 0..Retention
    <3>1. x.age \in 0..ChainWindow /\ ChainWindow \in Nat \ {0}
      BY <2>1, Numbers DEF Retention
    <3> QED
      BY <3>1, OlderFacts DEF Retention
  <2> HIDE DEF a
  <2> QED
    BY <2>1, <2>2, <2>3
<1>4. exited' \in [Pid -> [ctx : ProcContext, age : 0..Retention] \cup {None}]
  BY <1>1, <1>3
<1> QED
  BY <1>1, <1>4, AgeContexts

\* The grace timer purges retained contexts and touches no live one.
LEMMA FlushContexts ==
  ASSUME ContextInv, FlushTick
  PROVE  ContextInv'
<1>1. /\ UNCHANGED <<map, order>>
      /\ exited' = [p \in Pid |-> IF exited[p] # None /\ exited[p].age >= Retention
                                  THEN None ELSE exited[p]]
  BY DEF FlushTick
<1>2. exited' \in [Pid -> [ctx : ProcContext, age : 0..Retention] \cup {None}]
  BY <1>1 DEF ContextInv, ExitedTyped
<1> QED
  BY <1>1, <1>2, AgeContexts

-----------------------------------------------------------------------------
(* The buffers. *)

PendingTyped ==
  /\ pending \in [Kind -> Seq(Item)]
  /\ \A k \in Kind : pending[k] \in Seq(Waiting(k)) /\ Len(pending[k]) <= MaxPending

\* What waits is an item.
LEMMA WaitingItems ==
  ASSUME NEW k PROVE Waiting(k) \subseteq Item /\ \A s \in Seq(Waiting(k)) : s \in Seq(Item)
<1>1. Waiting(k) \subseteq Item
  BY DEF Waiting
<1> QED
  BY <1>1

\* What is filtered out of a buffer leaves a buffer.
LEMMA FilterPending ==
  ASSUME PendingTyped, NEW S, pending' = [k \in Kind |-> Filter(pending[k], S)]
  PROVE  PendingTyped'
<1>1. ASSUME NEW k \in Kind
      PROVE  /\ Filter(pending[k], S) \in Seq(Waiting(k)) /\ Filter(pending[k], S) \in Seq(Item)
             /\ Len(Filter(pending[k], S)) <= MaxPending
  <2>1. pending[k] \in Seq(Waiting(k)) /\ Len(pending[k]) <= MaxPending
    BY DEF PendingTyped
  <2>2. Filter(pending[k], S) \in Seq(Waiting(k)) /\ Len(Filter(pending[k], S)) <= Len(pending[k])
    BY <2>1, FilterFacts
  <2>3. Len(pending[k]) \in Nat /\ Len(Filter(pending[k], S)) \in Nat /\ MaxPending \in Nat
    BY <2>1, <2>2, Numbers
  <2> QED
    BY <2>1, <2>2, <2>3, WaitingItems
<1> QED
  BY <1>1 DEF PendingTyped

\* The oldest makes way at the cap.
LEMMA BufferFacts ==
  ASSUME PendingTyped, NEW e \in Event, Buffer(e)
  PROVE  PendingTyped'
<1> DEFINE s == pending[e.kind]
           r == IF Len(s) >= MaxPending THEN Tail(s) ELSE s
           i == [ev |-> e, age |-> 0]
           W == Waiting(e.kind)
<1>1. e.kind \in Kind
  BY DEF Event
<1>2. pending' = [pending EXCEPT ![e.kind] = Append(r, i)]
  BY DEF Buffer
<1>3. s \in Seq(W) /\ Len(s) <= MaxPending /\ Len(s) \in Nat /\ MaxPending \in Nat \ {0}
  BY <1>1, Numbers DEF PendingTyped
<1>4. i \in W
  BY Numbers DEF Item, Waiting
<1> HIDE DEF i, s, W
<1>5. r \in Seq(W) /\ Len(r) < MaxPending /\ Len(r) \in Nat
  <2>1. CASE Len(s) >= MaxPending
    <3>1. Len(s) # 0 /\ s # << >>
      BY <1>3, <2>1
    <3>2. Tail(s) \in Seq(W) /\ Len(Tail(s)) = Len(s) - 1
      BY <1>3, <3>1, HeadTailProperties
    <3>3. r = Tail(s)
      BY <2>1
    <3> HIDE DEF r
    <3> QED
      BY <1>3, <3>1, <3>2, <3>3
  <2>2. CASE ~(Len(s) >= MaxPending)
    BY <1>3, <2>2
  <2> QED
    BY <2>1, <2>2
<1> HIDE DEF r
<1>6. Append(r, i) \in Seq(W) /\ Len(Append(r, i)) = Len(r) + 1
  BY <1>4, <1>5, AppendProperties
<1>7. Len(Append(r, i)) <= MaxPending
  BY <1>3, <1>5, <1>6
<1>8. Append(r, i) \in Seq(Item)
  BY <1>6, WaitingItems DEF W
<1> QED
  BY <1>1, <1>2, <1>6, <1>7, <1>8 DEF PendingTyped, W

\* Time ages what waits and drops none of it.
LEMMA PassPending ==
  ASSUME PendingTyped, Pass
  PROVE  PendingTyped'
<1>1. pending' = [k \in Kind |-> [i \in DOMAIN pending[k] |->
                    [pending[k][i] EXCEPT !.age = Older(@, Grace)]]]
  BY DEF Pass
<1>2. ASSUME NEW k \in Kind PROVE pending'[k] \in Seq(Waiting(k)) /\ Len(pending'[k]) <= MaxPending
  <2> DEFINE s == pending[k]
  <2>1. s \in Seq(Waiting(k)) /\ Len(s) <= MaxPending /\ Len(s) \in Nat /\ DOMAIN s = 1..Len(s)
    BY DEF PendingTyped
  <2>2. pending'[k] = [i \in 1..Len(s) |-> [s[i] EXCEPT !.age = Older(@, Grace)]]
    BY <1>1, <2>1
  <2> HIDE DEF s
  <2>3. ASSUME NEW i \in 1..Len(s) PROVE [s[i] EXCEPT !.age = Older(@, Grace)] \in Waiting(k)
    <3> DEFINE x == s[i]
               a == Older(x.age, Grace)
    <3>1. x \in Waiting(k)
      BY <2>1
    <3> HIDE DEF x
    <3>2. x.age \in 0..Grace
      BY <3>1 DEF Item, Waiting
    <3>3. a \in 0..Grace
      BY <3>2, OlderFacts, Numbers
    <3> HIDE DEF a
    <3>4. [x EXCEPT !.age = a] \in Waiting(k)
      BY <3>1, <3>3 DEF Item, Waiting
    <3> QED
      BY <3>4 DEF x, a
  <2>4. pending'[k] \in [1..Len(s) -> Waiting(k)]
    BY <2>2, <2>3
  <2>5. pending'[k] \in Seq(Waiting(k)) /\ Len(pending'[k]) = Len(s)
    BY <2>1, <2>4, SeqDef
  <2> QED
    BY <2>1, <2>5
<1>3. \A k \in Kind : pending'[k] \in Seq(Item)
  BY <1>2, WaitingItems
<1>4. pending' \in [Kind -> Seq(Item)]
  BY <1>1, <1>3
<1> QED
  BY <1>2, <1>4 DEF PendingTyped

-----------------------------------------------------------------------------
(* Every step. *)

\* The inductive invariant: what each of the three parts of the state needs.
CorrIInv ==
  /\ running \in BOOLEAN /\ gen \in [Pid -> {0, 1}]
  /\ ContextInv /\ PendingTyped /\ ChainInv

\* What a step leaves: the invariant, and the two action properties.
CorrKept == CorrIInv' /\ HalfStep /\ OnceStep

\* The parts of a step together are the step.
LEMMA Together ==
  ASSUME running' \in BOOLEAN, gen' \in [Pid -> {0, 1}], ContextInv', PendingTyped', ChainKept
  PROVE  CorrKept
  BY DEF CorrKept, CorrIInv, ChainKept, ChainInv

\* An untouched table stays as it is.
LEMMA SameContexts ==
  ASSUME ContextInv, UNCHANGED contexts
  PROVE  ContextInv'
<1>1. map' = map /\ order' = order /\ exited' = exited
  BY DEF contexts
<1> QED
  BY <1>1 DEF ContextInv, MapTyped, ExitedTyped, OneContext, Once, InRing, Kept

\* The task that leaves the pids to their holders begins with its own trackers.
LEMMA StartsHere ==
  ASSUME CorrIInv, gen' = gen, NEW p \in Pid
  PROVE  Starts(chain, p)
  BY DEF CorrIInv, ChainInv, ChainTyped, Starts

\* An event is attributed and its half recorded, or it is buffered.
LEMMA JoinOrBufferKeeps ==
  ASSUME CorrIInv, NEW e \in Event, JoinOrBuffer(e)
  PROVE  CorrKept
<1>1. ContextInv /\ PendingTyped /\ ChainInv /\ running \in BOOLEAN /\ gen \in [Pid -> {0, 1}]
  BY DEF CorrIInv
<1>2. UNCHANGED running /\ UNCHANGED contexts /\ gen' = gen
  BY DEF JoinOrBuffer
<1>3. e.pid \in Pid /\ {e.kind} \in SUBSET Kind
  BY DEF Event
<1>4. Starts(chain, e.pid)
  BY <1>2, <1>3, StartsHere
<1>5. PendingTyped'
  <2>1. pending' = pending \/ Buffer(e)
    BY DEF JoinOrBuffer
  <2>2. CASE pending' = pending
    BY <1>1, <2>2 DEF PendingTyped
  <2> QED
    BY <1>1, <2>1, <2>2, BufferFacts
<1>6. ChainKept
  <2>1. Record(chain, e.pid, {e.kind}) \/ RecordNothing(chain)
    BY DEF JoinOrBuffer
  <2>2. CASE Record(chain, e.pid, {e.kind})
    BY <1>1, <1>3, <1>4, <2>2, RecordMoves
  <2> QED
    BY <1>1, <1>3, <1>4, <2>1, <2>2, NothingMoves
<1>7. ContextInv'
  BY <1>1, <1>2, SameContexts
<1> QED
  BY <1>1, <1>2, <1>5, <1>6, <1>7, Together

\* An exec takes the pid over: its context replaces the old one, the tracker of
\* the old holder goes, and the events that waited for it are attributed.
LEMMA HandleExecKeeps ==
  ASSUME CorrIInv, NEW x \in Exec, HandleExec(x)
  PROVE  CorrKept
<1> DEFINE p == x.pid
           ctx == [image |-> x.image, susp |-> x.image \in SuspImage \/ Inherited(x)]
           c == ForgetChain(p)
           kinds == {k \in Kind : \E i \in DOMAIN pending[k] :
                       /\ pending[k][i].ev.pid = p
                       /\ GivesHalf(pending[k][i].ev, ctx)}
<1>1. ContextInv /\ PendingTyped /\ ChainInv /\ running \in BOOLEAN /\ gen \in [Pid -> {0, 1}]
  BY DEF CorrIInv
<1>2. p \in Pid /\ x.image \in Image
  BY DEF Exec
<1>3. gen' = [gen EXCEPT ![p] = 1 - @] /\ ForgetExited(p) /\ Track(p, ctx) /\ Drain(p, ctx)
      /\ running' = running
  BY DEF HandleExec
<1>4. gen' \in [Pid -> {0, 1}] /\ gen'[p] # gen[p] /\ \A q \in Pid \ {p} : gen'[q] = gen[q]
  <2>1. gen[p] \in {0, 1}
    BY <1>1, <1>2
  <2>2. 1 - gen[p] \in {0, 1} /\ 1 - gen[p] # gen[p]
    BY <2>1
  <2> HIDE DEF p
  <2> QED
    BY <1>1, <1>2, <1>3, <2>2
<1>5. ctx \in ProcContext
  <2>1. Inherited(x) \in BOOLEAN
    BY DEF Inherited
  <2>2. (x.image \in SuspImage \/ Inherited(x)) \in BOOLEAN
    BY <2>1
  <2> QED
    BY <1>2, <2>2 DEF ProcContext
<1>6. pending' = [k \in Kind |-> NotOfPid(pending[k], p)]
  BY <1>3 DEF Drain
<1>7. Record(c, p, kinds) \/ RecordNothing(c)
  BY <1>3 DEF Drain
<1> HIDE DEF p, ctx, kinds
<1>8. c \in Tracker /\ c[p] = None /\ \A q \in Pid \ {p} : c[q] = chain[q]
  BY <1>1, <1>2 DEF ForgetChain, ChainInv, ChainTyped, Tracker
<1> HIDE DEF c
<1>9. Starts(c, p)
  BY <1>4, <1>8 DEF Starts
<1>10. ChainKept
  <2>1. kinds \in SUBSET Kind
    BY DEF kinds
  <2>2. CASE Record(c, p, kinds)
    BY <1>1, <1>2, <1>9, <2>1, <2>2, RecordMoves
  <2> QED
    BY <1>1, <1>2, <1>7, <1>9, <2>2, NothingMoves
<1>11. ContextInv'
  BY <1>1, <1>2, <1>3, <1>5, ExecContexts
<1>12. PendingTyped'
  <2> DEFINE S == {i \in Item : i.ev.pid # p}
  <2>1. pending' = [k \in Kind |-> Filter(pending[k], S)]
    BY <1>6 DEF NotOfPid
  <2> HIDE DEF S
  <2> QED
    BY <1>1, <2>1, FilterPending
<1> QED
  BY <1>1, <1>3, <1>4, <1>10, <1>11, <1>12, Together

\* An exit moves the context and touches nothing else.
LEMMA HandleExitKeeps ==
  ASSUME CorrIInv, NEW p \in Pid, HandleExit(p)
  PROVE  CorrKept
<1>1. ContextInv /\ PendingTyped /\ ChainInv /\ running \in BOOLEAN /\ gen \in [Pid -> {0, 1}]
  BY DEF CorrIInv
<1>2. UNCHANGED <<chain, gen, quiet>> /\ joined' = {} /\ pending' = pending /\ running' = running
  BY DEF HandleExit, ChainAtExit
<1>3. PendingTyped'
  BY <1>1, <1>2 DEF PendingTyped
<1> QED
  BY <1>1, <1>2, <1>3, ExitContexts, SameChains, Together

\* Time passes for every table at once.
LEMMA PassKeeps ==
  ASSUME CorrIInv, Pass
  PROVE  CorrKept
<1>1. ContextInv /\ PendingTyped /\ ChainInv /\ running \in BOOLEAN /\ gen \in [Pid -> {0, 1}]
  BY DEF CorrIInv
<1>2. running' = running /\ gen' = gen
  BY DEF Pass
<1> QED
  BY <1>1, <1>2, PassContexts, PassPending, PassMoves, Together

\* The grace timer drops what is past its window.
LEMMA FlushTickKeeps ==
  ASSUME CorrIInv, FlushTick
  PROVE  CorrKept
<1> DEFINE S == {i \in Item : InTime(i)}
<1>1. ContextInv /\ PendingTyped /\ ChainInv /\ running \in BOOLEAN /\ gen \in [Pid -> {0, 1}]
  BY DEF CorrIInv
<1>2. running' = running /\ gen' = gen /\ pending' = [k \in Kind |-> Filter(pending[k], S)]
  BY DEF FlushTick, KeepInTime
<1> HIDE DEF S
<1>3. PendingTyped'
  BY <1>1, <1>2, FilterPending
<1> QED
  BY <1>1, <1>2, <1>3, FlushContexts, FlushMoves, Together

\* The task ends with its two event buffers empty.
LEMMA ShutdownKeeps ==
  ASSUME CorrIInv, Shutdown
  PROVE  CorrKept
<1>1. ContextInv /\ PendingTyped /\ ChainInv /\ running \in BOOLEAN /\ gen \in [Pid -> {0, 1}]
  BY DEF CorrIInv
<1>2. /\ running' = FALSE /\ UNCHANGED contexts /\ UNCHANGED <<chain, gen, quiet>> /\ joined' = {}
      /\ pending' = [pending EXCEPT !["connect"] = << >>, !["write"] = << >>]
  BY DEF Shutdown
<1>3. PendingTyped'
  <2>1. << >> \in Seq(Item) /\ Len(<< >>) = 0 /\ \A k : << >> \in Seq(Waiting(k))
    OBVIOUS
  <2>2. \A k \in Kind : pending'[k] = << >> \/ pending'[k] = pending[k]
    BY <1>1, <1>2 DEF PendingTyped
  <2>3. \A k \in Kind : pending'[k] \in Seq(Waiting(k)) /\ Len(pending'[k]) <= MaxPending
    <3> SUFFICES ASSUME NEW k \in Kind PROVE pending'[k] \in Seq(Waiting(k)) /\ Len(pending'[k]) <= MaxPending
      OBVIOUS
    <3>1. CASE pending'[k] = << >>
      <4>1. 0 <= MaxPending
        BY Numbers
      <4> QED
        BY <2>1, <3>1, <4>1
    <3>2. CASE pending'[k] = pending[k]
      BY <1>1, <3>2 DEF PendingTyped
    <3> QED
      BY <2>2, <3>1, <3>2
  <2>4. pending' \in [Kind -> Seq(Item)]
    BY <1>1, <1>2, <2>1 DEF PendingTyped
  <2> QED
    BY <2>3, <2>4 DEF PendingTyped
<1> QED
  BY <1>1, <1>2, <1>3, SameContexts, SameChains, Together

\* Nothing has happened yet: every table is empty.
LEMMA CorrStart ==
  ASSUME Init
  PROVE  CorrIInv
<1>1. /\ running = TRUE /\ map = [p \in Pid |-> None] /\ order = << >> /\ exited = [p \in Pid |-> None]
      /\ pending = [k \in Kind |-> << >>] /\ chain = [p \in Pid |-> None] /\ joined = {}
      /\ gen = [p \in Pid |-> 0] /\ quiet = [p \in Pid |-> [j \in Join |-> ChainWindow]]
  BY DEF Init
<1>2. Cardinality({}) = 0
  BY FS_EmptySet
<1>3. MapTyped
  BY <1>1, Numbers DEF MapTyped, Once, InRing
<1>4. ExitedTyped
  <2>1. Kept = {}
    BY <1>1 DEF Kept
  <2> QED
    BY <1>1, <1>2, <2>1, Numbers DEF ExitedTyped
<1>5. PendingTyped
  BY <1>1, Numbers DEF PendingTyped
<1>6. ChainTyped
  <2>1. Entries(chain) = {}
    BY <1>1 DEF Entries
  <2>2. quiet \in [Pid -> [Join -> Age]]
    BY <1>1, Numbers DEF Age
  <2>3. chain \in Tracker /\ joined \subseteq Pid \X Join
    BY <1>1 DEF Tracker
  <2>4. Cardinality(Entries(chain)) <= MaxChain
    BY <1>2, <2>1, Numbers
  <2> QED
    BY <2>2, <2>3, <2>4 DEF ChainTyped
<1>7. OneInstance /\ JoinNotMissed /\ Latched /\ OneContext
  BY <1>1 DEF OneInstance, JoinNotMissed, Latched, OneContext, Entries
<1> QED
  BY <1>1, <1>3, <1>4, <1>5, <1>6, <1>7 DEF CorrIInv, ContextInv, ChainInv

\* Every action, and a step of nobody.
LEMMA CorrMoves ==
  ASSUME CorrIInv, Next
  PROVE  CorrKept
<1>1. ASSUME NEW e \in Events, HandleConnect(e) \/ HandleFileWrite(e) \/ HandleFileOpen(e)
      PROVE  CorrKept
  <2>1. e \in Event /\ JoinOrBuffer(e)
    BY <1>1, Sensors DEF HandleConnect, HandleFileWrite, HandleFileOpen
  <2> QED
    BY <2>1, JoinOrBufferKeeps
<1>2. ASSUME NEW x \in Execs, HandleExec(x)
      PROVE  CorrKept
  <2>1. x \in Exec
    BY Sensors
  <2> QED
    BY <1>2, <2>1, HandleExecKeeps
<1>3. ASSUME NEW p \in Pid, HandleExit(p)
      PROVE  CorrKept
  BY <1>3, HandleExitKeeps
<1> QED
  BY <1>1, <1>2, <1>3, PassKeeps, FlushTickKeeps, ShutdownKeeps DEF Next

\* A step of nobody changes nothing.
LEMMA CorrRests ==
  ASSUME CorrIInv, UNCHANGED vars
  PROVE  CorrIInv'
<1>1. UNCHANGED contexts /\ UNCHANGED <<running, pending, chain, joined, gen, quiet>>
  BY DEF vars
<1>2. ContextInv'
  BY <1>1, SameContexts DEF CorrIInv
<1> QED
  BY <1>1, <1>2 DEF CorrIInv, PendingTyped, ChainInv, ChainTyped, OneInstance, JoinNotMissed,
                    Latched, Entries

\* The three parts say all that the checked invariants say.
LEMMA CorrImplied ==
  ASSUME CorrIInv
  PROVE  CorrInv /\ JoinNotMissed
<1>1. ContextInv /\ PendingTyped /\ ChainInv /\ running \in BOOLEAN /\ gen \in [Pid -> {0, 1}]
  BY DEF CorrIInv
<1>2. MapTyped /\ ExitedTyped /\ OneContext /\ ChainTyped /\ OneInstance /\ JoinNotMissed
  BY <1>1 DEF ContextInv, ChainInv
<1>3. \A p \in Pid : map[p] # None <=> \E i \in DOMAIN order : order[i] = p
  <2>1. order \in Seq(Pid) /\ DOMAIN order = 1..Len(order)
    BY <1>2 DEF MapTyped
  <2> QED
    BY <1>2, <2>1 DEF MapTyped, InRing
<1>4. /\ map \in [Pid -> ProcContext \cup {None}] /\ order \in Seq(Pid) /\ Len(order) <= MaxTracked
      /\ exited \in [Pid -> [ctx : ProcContext, age : 0..Retention] \cup {None}]
      /\ Cardinality({p \in Pid : exited[p] # None}) <= MaxExited
  BY <1>2 DEF MapTyped, ExitedTyped, Kept
<1>5. \A k \in Kind : pending[k] \in Seq(Waiting(k)) /\ Len(pending[k]) <= MaxPending
  BY <1>1 DEF PendingTyped
<1>6. /\ chain \in [Pid -> ChainState \cup {None}] /\ Cardinality(Entries(chain)) <= MaxChain
      /\ joined \subseteq Pid \X Join /\ quiet \in [Pid -> [Join -> Age]]
  BY <1>2 DEF ChainTyped, Tracker
<1>7. TypeOK
  BY <1>1, <1>3, <1>4, <1>5, <1>6 DEF TypeOK
<1> QED
  BY <1>2, <1>7 DEF CorrInv

\* The inductive invariant holds for every set of pids, images and events and
\* for every window and cap.
THEOREM CorrInvariance == Spec => []CorrIInv
<1>1. Init => CorrIInv
  BY CorrStart
<1>2. CorrIInv /\ [Next]_vars => CorrIInv'
  BY CorrMoves, CorrRests DEF CorrKept
<1> QED
  BY <1>1, <1>2, PTL DEF Spec

\* The tables of the task keep their caps and agree, a pid has one context at
\* most, and no tracker outlives the exec it began under.
THEOREM CorrTablesAgree == Spec => []CorrInv
<1>1. CorrIInv => CorrInv
  BY CorrImplied
<1> QED
  BY <1>1, CorrInvariance, PTL

\* Two halves of a chain that are inside the window at once have fired, in
\* whichever order and by whichever handler they were recorded.
THEOREM CorrJoinNotMissed == Spec => []JoinNotMissed
<1>1. CorrIInv => JoinNotMissed
  BY CorrImplied
<1> QED
  BY <1>1, CorrInvariance, PTL

\* A half inside its window is only lost to a takeover of its pid or to a new
\* tracker in a full table.
THEOREM CorrHalfKept == Spec => HalfKept
<1>1. CorrIInv /\ [Next]_vars => [HalfStep]_vars
  BY CorrMoves DEF CorrKept
<1>2. [][HalfStep]_vars => HalfKept
  BY DEF HalfStep, HalfKept
<1> QED
  BY <1>1, <1>2, CorrInvariance, PTL DEF Spec

\* A kind of chain fires again for a process only a window after it fired, or
\* once its tracker was evicted.
THEOREM CorrOncePerWindow == Spec => OncePerWindow
<1>1. CorrIInv /\ [Next]_vars => [OnceStep]_vars
  BY CorrMoves DEF CorrKept
<1>2. [][OnceStep]_vars => OncePerWindow
  BY DEF OnceStep, OncePerWindow
<1> QED
  BY <1>1, <1>2, CorrInvariance, PTL DEF Spec

-----------------------------------------------------------------------------
(* Counting events. *)

\* The places of an event.
Places(s, e) == {i \in 1..Len(s) : s[i].ev = e}
PlacesIn(s, e, S) == {i \in Places(s, e) : s[i] \in S}

\* An event has finitely many places in a sequence, and Count counts them.
LEMMA CountFacts ==
  ASSUME NEW A, NEW s \in Seq(A), NEW e
  PROVE  /\ IsFiniteSet(Places(s, e)) /\ Count(s, e) = Cardinality(Places(s, e))
         /\ Count(s, e) \in Nat
<1>1. Len(s) \in Nat /\ DOMAIN s = 1..Len(s)
  OBVIOUS
<1>2. Places(s, e) \in SUBSET (1..Len(s))
  BY DEF Places
<1>3. IsFiniteSet(1..Len(s))
  BY <1>1, FS_Interval
<1>4. IsFiniteSet(Places(s, e))
  BY <1>2, <1>3, FS_Subset
<1>5. Count(s, e) = Cardinality(Places(s, e))
  BY <1>1 DEF Count, Places
<1> QED
  BY <1>4, <1>5, FS_CardinalityType

\* An event that is nowhere counts nothing.
LEMMA CountNone ==
  ASSUME NEW A, NEW s \in Seq(A), NEW e, \A i \in 1..Len(s) : s[i].ev # e
  PROVE  Count(s, e) = 0
<1>1. Places(s, e) = {}
  BY DEF Places
<1> QED
  BY <1>1, CountFacts, FS_EmptySet

\* Sequences with the same events count the same.
SameEvents(a, b) == Len(a) = Len(b) /\ \A i \in 1..Len(a) : a[i].ev = b[i].ev

\* Only the events matter to the count.
LEMMA SameCount ==
  ASSUME NEW A, NEW a \in Seq(A), NEW B, NEW b \in Seq(B), SameEvents(a, b), NEW e
  PROVE  Count(a, e) = Count(b, e)
<1>1. Places(a, e) = Places(b, e)
  BY DEF SameEvents, Places
<1>2. Count(a, e) = Cardinality(Places(a, e)) /\ Count(b, e) = Cardinality(Places(b, e))
  BY CountFacts
<1> QED
  BY <1>1, <1>2

\* A one-to-one map onto a finite set does not change its size.
LEMMA OneToOne ==
  ASSUME NEW S, NEW T, NEW f \in [S -> T], IsFiniteSet(S),
         \A x, y \in S : f[x] = f[y] => x = y, \A y \in T : \E x \in S : f[x] = y
  PROVE  IsFiniteSet(T) /\ Cardinality(T) = Cardinality(S)
<1>1. f \in Bijection(S, T)
  BY DEF Bijection, Injection, Surjection, IsInjective
<1>2. ExistsBijection(S, T)
  BY <1>1 DEF ExistsBijection
<1> QED
  BY <1>2, FS_Bijection

\* One sequence after the other counts both.
LEMMA CountConcat ==
  ASSUME NEW A, NEW a \in Seq(A), NEW b \in Seq(A), NEW e
  PROVE  Count(a \o b, e) = Count(a, e) + Count(b, e)
<1> DEFINE m == Len(a)
           n == Len(b)
           P == Places(a, e)
           Q == Places(b, e)
           R == {i \in (m + 1)..(m + n) : b[i - m].ev = e}
<1>1. m \in Nat /\ n \in Nat
  OBVIOUS
<1>2. a \o b \in Seq(A) /\ Len(a \o b) = m + n
      /\ \A i \in 1..(m + n) : (a \o b)[i] = IF i <= m THEN a[i] ELSE b[i - m]
  BY ConcatProperties
<1>3. P = {i \in 1..m : a[i].ev = e} /\ Q = {i \in 1..n : b[i].ev = e}
  BY DEF Places
<1>4. IsFiniteSet(P) /\ IsFiniteSet(Q) /\ Count(a, e) = Cardinality(P) /\ Count(b, e) = Cardinality(Q)
  BY CountFacts
<1>5. Count(a \o b, e) = Cardinality(Places(a \o b, e))
  BY <1>2, CountFacts
<1> HIDE DEF m, n, P, Q
<1>6. Places(a \o b, e) = P \cup R
  <2>1. Places(a \o b, e) = {i \in 1..(m + n) : (a \o b)[i].ev = e}
    BY <1>2 DEF Places
  <2>2. \A i \in 1..(m + n) : (a \o b)[i].ev = e <=> i \in P \cup R
    <3> SUFFICES ASSUME NEW i \in 1..(m + n) PROVE (a \o b)[i].ev = e <=> i \in P \cup R
      OBVIOUS
    <3>1. CASE i <= m
      <4>1. i \in 1..m /\ i \notin R /\ (a \o b)[i] = a[i]
        BY <1>1, <1>2, <3>1
      <4> QED
        BY <1>3, <4>1
    <3>2. CASE ~(i <= m)
      <4>1. i \in (m + 1)..(m + n) /\ i \notin 1..m /\ (a \o b)[i] = b[i - m]
        BY <1>1, <1>2, <3>2
      <4> QED
        BY <1>3, <4>1
    <3> QED
      BY <3>1, <3>2
  <2>3. P \cup R \subseteq 1..(m + n)
    BY <1>1, <1>3
  <2> HIDE DEF R
  <2> QED
    BY <2>1, <2>2, <2>3
<1>7. P \cap R = {}
  BY <1>1, <1>3
<1>8. IsFiniteSet(R) /\ Cardinality(R) = Cardinality(Q)
  <2> DEFINE f == [j \in Q |-> j + m]
  <2>1. \A j \in Q : j \in 1..n /\ b[j].ev = e /\ j \in Int
    BY <1>1, <1>3
  <2>2. \A j \in Q : j + m \in R
    <3> SUFFICES ASSUME NEW j \in Q PROVE j + m \in R
      OBVIOUS
    <3>1. j + m \in (m + 1)..(m + n) /\ (j + m) - m = j
      BY <1>1, <2>1
    <3> QED
      BY <2>1, <3>1
  <2>3. \A i \in R : i - m \in Q /\ (i - m) + m = i
    <3> SUFFICES ASSUME NEW i \in R PROVE i - m \in Q /\ (i - m) + m = i
      OBVIOUS
    <3>1. i - m \in 1..n /\ (i - m) + m = i
      BY <1>1
    <3> QED
      BY <1>3, <3>1
  <2> HIDE DEF R
  <2>4. f \in [Q -> R]
    BY <2>2
  <2>5. \A x, y \in Q : f[x] = f[y] => x = y
    BY <1>1, <2>1
  <2>6. \A y \in R : \E x \in Q : f[x] = y
    BY <2>3
  <2> HIDE DEF f
  <2> QED
    BY <1>4, <2>4, <2>5, <2>6, OneToOne
<1> HIDE DEF R
<1>9. Cardinality(P \cup R) = Cardinality(P) + Cardinality(R) - Cardinality({})
  BY <1>4, <1>7, <1>8, FS_Union
<1>10. Cardinality({}) = 0 /\ Cardinality(P) \in Nat /\ Cardinality(R) \in Nat
  BY <1>4, <1>8, FS_EmptySet, FS_CardinalityType
<1> QED
  BY <1>4, <1>5, <1>6, <1>8, <1>9, <1>10

\* What a filter keeps of an event is what there is of it in the set.
LEMMA CountFilter ==
  ASSUME NEW A, NEW s \in Seq(A), NEW S, NEW e
  PROVE  /\ IsFiniteSet(PlacesIn(s, e, S))
         /\ Count(Filter(s, S), e) = Cardinality(PlacesIn(s, e, S))
<1> DEFINE t == Filter(s, S)
           P == {i \in Places(s, e) : s[i] \in S}
           Q == Places(t, e)
<1>1. t \in Seq(A) /\ \E pos \in [1..Len(t) -> 1..Len(s)] : Embeds(pos, t, s, Len(s), S)
  BY FilterFacts
<1> HIDE DEF t
<1>2. PICK pos \in [1..Len(t) -> 1..Len(s)] : Embeds(pos, t, s, Len(s), S)
  BY <1>1
<1>3. /\ \A k \in 1..Len(t) : t[k] = s[pos[k]] /\ s[pos[k]] \in S
      /\ \A k, l \in 1..Len(t) : k < l => pos[k] < pos[l]
      /\ \A i \in 1..Len(s) : s[i] \in S => \E k \in 1..Len(t) : pos[k] = i
  BY <1>2 DEF Embeds
<1>4. Len(t) \in Nat /\ Len(s) \in Nat
  BY <1>1
<1>5. IsFiniteSet(Q) /\ Count(t, e) = Cardinality(Q)
  BY <1>1, CountFacts
<1> DEFINE f == [k \in Q |-> pos[k]]
<1>6. \A k \in Q : k \in 1..Len(t) /\ t[k].ev = e
  BY DEF Places
<1>7. \A i \in P : i \in 1..Len(s) /\ s[i].ev = e /\ s[i] \in S
  BY DEF Places
<1>8. f \in [Q -> P]
  <2>1. \A k \in Q : pos[k] \in P
    BY <1>2, <1>3, <1>6 DEF Places
  <2> QED
    BY <2>1
<1>9. \A x, y \in Q : f[x] = f[y] => x = y
  <2> SUFFICES ASSUME NEW x \in Q, NEW y \in Q, pos[x] = pos[y] PROVE x = y
    OBVIOUS
  <2>1. x \in 1..Len(t) /\ y \in 1..Len(t)
    BY <1>6
  <2>2. pos[x] \in Int /\ pos[y] \in Int
    BY <1>2, <1>4, <2>1
  <2>3. ~(x < y) /\ ~(y < x)
    BY <1>3, <2>1, <2>2
  <2> QED
    BY <1>4, <2>1, <2>3
<1>10. \A y \in P : \E x \in Q : f[x] = y
  <2> SUFFICES ASSUME NEW y \in P PROVE \E x \in Q : pos[x] = y
    OBVIOUS
  <2>1. PICK k \in 1..Len(t) : pos[k] = y
    BY <1>3, <1>7
  <2>2. t[k].ev = e
    BY <1>3, <1>7, <2>1
  <2>3. k \in Q
    BY <2>2 DEF Places
  <2> QED
    BY <2>1, <2>3
<1> HIDE DEF f, P, Q
<1>11. IsFiniteSet(P) /\ Cardinality(P) = Cardinality(Q)
  BY <1>5, <1>8, <1>9, <1>10, OneToOne
<1> QED
  BY <1>5, <1>11 DEF t, P, PlacesIn

\* Every event is in the part kept or in the part left, as often as in the whole.
LEMMA CountSplit ==
  ASSUME NEW A, NEW s \in Seq(A), NEW S, NEW R, A \subseteq S \cup R, A \cap S \cap R = {}, NEW e
  PROVE  Count(s, e) = Count(Filter(s, S), e) + Count(Filter(s, R), e)
<1> DEFINE P == PlacesIn(s, e, S)
           Q == PlacesIn(s, e, R)
<1>1. /\ IsFiniteSet(P) /\ Count(Filter(s, S), e) = Cardinality(P)
      /\ IsFiniteSet(Q) /\ Count(Filter(s, R), e) = Cardinality(Q)
  BY CountFilter
<1>2. \A i \in Places(s, e) : s[i] \in A
  BY DEF Places
<1>3. Places(s, e) = P \cup Q /\ P \cap Q = {}
  BY <1>2 DEF PlacesIn
<1>4. Count(s, e) = Cardinality(Places(s, e))
  BY CountFacts
<1> HIDE DEF P, Q
<1>5. Cardinality(P \cup Q) = Cardinality(P) + Cardinality(Q) - Cardinality({})
  BY <1>1, <1>3, FS_Union
<1>6. Cardinality({}) = 0 /\ Cardinality(P) \in Nat /\ Cardinality(Q) \in Nat
  BY <1>1, FS_EmptySet, FS_CardinalityType
<1> QED
  BY <1>1, <1>3, <1>4, <1>5, <1>6

-----------------------------------------------------------------------------
(* Reports. *)

Report == [ev : Event, attributed : BOOLEAN, image : Image \cup {Unknown}]

\* What a step does to the events of a kind, as ReportedOnce says it.
ReportStep(k) ==
  \/ /\ EventsOf(pending'[k]) = EventsOf(pending[k])
     /\ Len(sent') = 1 /\ sent'[1].attributed /\ gen' = gen
     /\ sent'[1].ev \in Events /\ sent'[1].ev.kind = k
  \/ /\ sent' = << >>
     /\ \E e \in Events :
          /\ e.kind = k
          /\ EventsOf(pending'[k]) =
               EventsOf(Append(IF Len(pending[k]) = MaxPending
                               THEN Tail(pending[k]) ELSE pending[k], [ev |-> e]))
  \/ \A e \in Events : e.kind = k =>
       Count(pending[k], e) = Count(pending'[k], e) + Count(sent', e)

ReportsKept == \A k \in {"connect", "write"} : ReportStep(k)

\* A step that leaves the events of the buffers and reports none.
LEMMA QuietStep ==
  ASSUME PendingTyped, PendingTyped', sent' = << >>, NEW k \in Kind, SameEvents(pending'[k], pending[k])
  PROVE  ReportStep(k)
<1>1. pending[k] \in Seq(Item) /\ pending'[k] \in Seq(Item)
  BY DEF PendingTyped
<1>2. ASSUME NEW e \in Events PROVE Count(pending[k], e) = Count(pending'[k], e) + Count(sent', e)
  <2>1. Count(pending'[k], e) = Count(pending[k], e)
    BY <1>1, SameCount
  <2>2. << >> \in Seq(Item) /\ \A i \in 1..Len(<< >>) : FALSE
    OBVIOUS
  <2>3. Count(<< >>, e) = 0
    BY <2>2, CountNone
  <2>4. Count(pending[k], e) \in Nat
    BY <1>1, CountFacts
  <2> QED
    BY <2>1, <2>3, <2>4
<1> QED
  BY <1>2 DEF ReportStep

\* A step that reports what it takes out of the buffers, connects first.
LEMMA TakenReported ==
  ASSUME NEW a \in Seq(Report), NEW b \in Seq(Report), sent' = a \o b,
         NEW c \in Seq(Waiting("connect")), NEW w \in Seq(Waiting("write")),
         SameEvents(a, c), SameEvents(b, w),
         \A e : Count(pending["connect"], e) = Count(pending'["connect"], e) + Count(c, e),
         \A e : Count(pending["write"], e) = Count(pending'["write"], e) + Count(w, e)
  PROVE  ReportsKept
<1>1. ASSUME NEW e \in Events
      PROVE  Count(sent', e) = Count(c, e) + Count(w, e) /\ Count(c, e) \in Nat /\ Count(w, e) \in Nat
  <2>1. Count(a \o b, e) = Count(a, e) + Count(b, e)
    BY CountConcat
  <2>2. Count(a, e) = Count(c, e)
    BY SameCount
  <2>3. Count(b, e) = Count(w, e)
    BY SameCount
  <2> QED
    BY <2>1, <2>2, <2>3, CountFacts
<1>2. ASSUME NEW e \in Events, e.kind = "connect" PROVE Count(w, e) = 0
  <2>1. \A i \in 1..Len(w) : w[i].ev.kind = "write"
    BY DEF Waiting
  <2>2. \A i \in 1..Len(w) : w[i].ev # e
    BY <1>2, <2>1
  <2> QED
    BY <2>2, CountNone
<1>3. ASSUME NEW e \in Events, e.kind = "write" PROVE Count(c, e) = 0
  <2>1. \A i \in 1..Len(c) : c[i].ev.kind = "connect"
    BY DEF Waiting
  <2>2. \A i \in 1..Len(c) : c[i].ev # e
    BY <1>3, <2>1
  <2> QED
    BY <2>2, CountNone
<1>4. ReportStep("connect")
  <2>1. ASSUME NEW e \in Events, e.kind = "connect" PROVE Count(sent', e) = Count(c, e)
    BY <1>1, <1>2, <2>1
  <2> QED
    BY <2>1 DEF ReportStep
<1>5. ReportStep("write")
  <2>1. ASSUME NEW e \in Events, e.kind = "write" PROVE Count(sent', e) = Count(w, e)
    BY <1>1, <1>3, <2>1
  <2> QED
    BY <2>1 DEF ReportStep
<1> QED
  BY <1>4, <1>5 DEF ReportsKept

\* The reports of what is taken: un-attributed at the timer and at the end.
LEMMA UnsentFacts ==
  ASSUME NEW s \in Seq(Item)
  PROVE  Unsent(s) \in Seq(Report) /\ SameEvents(Unsent(s), s)
<1>1. Len(s) \in Nat /\ DOMAIN s = 1..Len(s)
  OBVIOUS
<1>2. ASSUME NEW i \in 1..Len(s)
      PROVE  Unattributed(s[i].ev) \in Report /\ Unattributed(s[i].ev).ev = s[i].ev
  <2>1. s[i] \in Item
    OBVIOUS
  <2>2. s[i].ev \in Event
    BY <2>1 DEF Item
  <2>3. s[i].ev.comm \in Image \cup {Unknown}
    BY <2>2 DEF Event
  <2> QED
    BY <2>2, <2>3 DEF Unattributed, Report
<1>3. Unsent(s) = [i \in 1..Len(s) |-> Unattributed(s[i].ev)]
  BY <1>1 DEF Unsent
<1>4. Unsent(s) \in [1..Len(s) -> Report]
  BY <1>2, <1>3
<1>5. Unsent(s) \in Seq(Report) /\ Len(Unsent(s)) = Len(s)
  BY <1>1, <1>4, SeqDef
<1>6. \A i \in 1..Len(s) : Unsent(s)[i].ev = s[i].ev
  BY <1>2, <1>3
<1> QED
  BY <1>5, <1>6 DEF SameEvents

\* The reports at an exec: attributed to the new process.
LEMMA DrainedFacts ==
  ASSUME NEW s \in Seq(Item), NEW ctx \in ProcContext, NEW t,
         t = [i \in 1..Len(s) |-> Attributed(s[i].ev, ctx)]
  PROVE  t \in Seq(Report) /\ SameEvents(t, s)
<1>1. Len(s) \in Nat
  OBVIOUS
<1>2. ASSUME NEW i \in 1..Len(s)
      PROVE  Attributed(s[i].ev, ctx) \in Report /\ Attributed(s[i].ev, ctx).ev = s[i].ev
  <2>1. s[i] \in Item /\ ctx.image \in Image \cup {Unknown}
    BY DEF ProcContext
  <2>2. s[i].ev \in Event
    BY <2>1 DEF Item
  <2> QED
    BY <2>1, <2>2 DEF Attributed, Report
<1>3. t \in [1..Len(s) -> Report]
  BY <1>2
<1>4. t \in Seq(Report) /\ Len(t) = Len(s)
  BY <1>1, <1>3, SeqDef
<1>5. \A i \in 1..Len(s) : t[i].ev = s[i].ev
  BY <1>2
<1> QED
  BY <1>4, <1>5 DEF SameEvents

\* A buffer split in two: what S takes is reported, and R is left.
SplitBy(k, S, R) ==
  /\ Filter(pending[k], S) \in Seq(Waiting(k)) /\ Filter(pending[k], S) \in Seq(Item)
  /\ \A e : Count(pending[k], e) = Count(Filter(pending[k], R), e) + Count(Filter(pending[k], S), e)

\* What is taken out and what is left are the buffer.
LEMMA BufferSplit ==
  ASSUME PendingTyped, NEW k \in Kind, NEW S, NEW R, Item \subseteq S \cup R, Item \cap S \cap R = {}
  PROVE  SplitBy(k, S, R)
<1>1. pending[k] \in Seq(Waiting(k)) /\ pending[k] \in Seq(Item)
  BY DEF PendingTyped
<1>2. Filter(pending[k], S) \in Seq(Waiting(k)) /\ Filter(pending[k], S) \in Seq(Item)
  BY <1>1, FilterFacts
<1>3. ASSUME NEW e
      PROVE  Count(pending[k], e) = Count(Filter(pending[k], R), e) + Count(Filter(pending[k], S), e)
  <2>1. Item \subseteq R \cup S /\ Item \cap R \cap S = {}
    OBVIOUS
  <2> QED
    BY <1>1, <2>1, CountSplit
<1> QED
  BY <1>2, <1>3 DEF SplitBy

\* An event of a known process is reported at once; the others stay as they were.
LEMMA AttributedReports ==
  ASSUME PendingTyped, NEW e \in Events, NEW who, pending' = pending, gen' = gen,
         sent' = IF Emits(e) THEN <<Attributed(e, who)>> ELSE << >>
  PROVE  ReportsKept
<1> SUFFICES ASSUME NEW k \in {"connect", "write"} PROVE ReportStep(k)
  BY DEF ReportsKept
<1>1. k \in Kind /\ pending[k] \in Seq(Item)
  BY DEF Kind, PendingTyped
<1>2. PendingTyped' /\ SameEvents(pending'[k], pending[k])
  BY DEF PendingTyped, SameEvents
<1>3. CASE e.kind = k
  <2>1. Emits(e)
    BY <1>3 DEF Emits
  <2>2. sent' = <<Attributed(e, who)>>
    BY <2>1
  <2>3. Attributed(e, who).ev = e /\ Attributed(e, who).attributed
    BY DEF Attributed
  <2>4. Len(sent') = 1 /\ sent'[1] = Attributed(e, who)
    BY <2>2
  <2>5. Len(sent') = 1 /\ sent'[1].attributed /\ sent'[1].ev = e
    BY <2>3, <2>4
  <2> QED
    BY <1>3, <2>5 DEF ReportStep
<1>4. CASE e.kind # k /\ Emits(e)
  <2> DEFINE r == Attributed(e, who)
  <2>1. r.ev = e
    BY DEF Attributed
  <2> HIDE DEF r
  <2>2. sent' = <<r>>
    BY <1>4 DEF r
  <2>3. <<r>> \in Seq({r}) /\ Len(<<r>>) = 1 /\ <<r>>[1] = r
    OBVIOUS
  <2>4. ASSUME NEW f \in Events, f.kind = k
        PROVE  Count(pending[k], f) = Count(pending'[k], f) + Count(sent', f)
    <3>1. \A i \in 1..Len(<<r>>) : <<r>>[i].ev # f
      BY <1>4, <2>1, <2>3, <2>4
    <3>2. Count(<<r>>, f) = 0
      BY <2>3, <3>1, CountNone
    <3>3. Count(pending[k], f) \in Nat
      BY <1>1, CountFacts
    <3> QED
      BY <2>2, <3>2, <3>3
  <2> QED
    BY <2>4 DEF ReportStep
<1>5. CASE ~ Emits(e)
  BY <1>1, <1>2, <1>5, QuietStep
<1> QED
  BY <1>3, <1>4, <1>5

\* An event of an unknown process is buffered, and only its buffer changes.
LEMMA BufferedReports ==
  ASSUME PendingTyped, NEW e \in Events, Buffer(e), sent' = << >>
  PROVE  ReportsKept
<1> SUFFICES ASSUME NEW k \in {"connect", "write"} PROVE ReportStep(k)
  BY DEF ReportsKept
<1>1. k \in Kind /\ pending[k] \in Seq(Item) /\ Len(pending[k]) <= MaxPending
  BY DEF Kind, PendingTyped
<1>2. e \in Event
  BY Sensors
<1>3. PendingTyped'
  BY <1>2, BufferFacts
<1>4. CASE e.kind = k
  <2> DEFINE s == pending[k]
             r == IF Len(s) = MaxPending THEN Tail(s) ELSE s
             i == [ev |-> e, age |-> 0]
             j == [ev |-> e]
  <2>1. Len(s) >= MaxPending <=> Len(s) = MaxPending
    BY <1>1, Numbers
  <2>2. pending'[k] = Append(r, i)
    BY <1>1, <1>4, <2>1 DEF Buffer, PendingTyped
  <2>3. r \in Seq(Item)
    <3>1. Len(s) = MaxPending => s # << >>
      BY <1>1, Numbers
    <3> QED
      BY <1>1, <3>1, HeadTailProperties
  <2>4. i.ev = e /\ j.ev = e
    OBVIOUS
  <2> HIDE DEF r, i, j
  <2>5. EventsOf(Append(r, i)) = EventsOf(Append(r, j))
    <3> DEFINE A == Item \cup {i, j}
               n == Len(r)
    <3>1. r \in Seq(A) /\ i \in A /\ j \in A /\ n \in Nat
      BY <2>3
    <3>2. /\ Append(r, i) \in Seq(A) /\ Len(Append(r, i)) = n + 1
          /\ \A l \in 1..n : Append(r, i)[l] = r[l]
          /\ Append(r, i)[n + 1] = i
      BY <3>1, AppendProperties
    <3>3. /\ Append(r, j) \in Seq(A) /\ Len(Append(r, j)) = n + 1
          /\ \A l \in 1..n : Append(r, j)[l] = r[l]
          /\ Append(r, j)[n + 1] = j
      BY <3>1, AppendProperties
    <3> HIDE DEF A, n
    <3>4. DOMAIN Append(r, i) = 1..(n + 1) /\ DOMAIN Append(r, j) = 1..(n + 1)
      BY <3>2, <3>3
    <3>5. \A l \in 1..(n + 1) : Append(r, i)[l].ev = Append(r, j)[l].ev
      <4> SUFFICES ASSUME NEW l \in 1..(n + 1) PROVE Append(r, i)[l].ev = Append(r, j)[l].ev
        OBVIOUS
      <4>1. l \in 1..n \/ l = n + 1
        BY <3>1
      <4> QED
        BY <2>4, <3>2, <3>3, <4>1
    <3> QED
      BY <3>4, <3>5 DEF EventsOf
  <2>6. EventsOf(pending'[k]) = EventsOf(Append(r, j))
    BY <2>2, <2>5
  <2> QED
    BY <1>4, <2>6 DEF ReportStep, r, j
<1>5. CASE e.kind # k
  <2>1. pending'[k] = pending[k]
    BY <1>1, <1>5 DEF Buffer, PendingTyped
  <2>2. SameEvents(pending'[k], pending[k])
    BY <2>1 DEF SameEvents
  <2> QED
    BY <1>1, <1>3, <2>2, QuietStep
<1> QED
  BY <1>4, <1>5

\* An exec reports what waited for it.
LEMMA ExecReports ==
  ASSUME CorrIInv, NEW x \in Exec, HandleExec(x)
  PROVE  ReportsKept
<1> DEFINE p == x.pid
           ctx == [image |-> x.image, susp |-> x.image \in SuspImage \/ Inherited(x)]
           S == {i \in Item : i.ev.pid = p}
           R == {i \in Item : i.ev.pid # p}
           c == Filter(pending["connect"], S)
           w == Filter(pending["write"], S)
           a == [i \in 1..Len(c) |-> Attributed(c[i].ev, ctx)]
           b == [i \in 1..Len(w) |-> Attributed(w[i].ev, ctx)]
<1>1. Drain(p, ctx) /\ PendingTyped
  BY DEF HandleExec, CorrIInv
<1>2. ctx \in ProcContext
  <2>1. x.image \in Image
    BY DEF Exec
  <2>2. (x.image \in SuspImage \/ Inherited(x)) \in BOOLEAN
    BY DEF Inherited
  <2> QED
    BY <2>1, <2>2 DEF ProcContext
<1> HIDE DEF ctx, p
<1>3. pending' = [k \in Kind |-> Filter(pending[k], R)] /\ sent' = a \o b
  BY <1>1 DEF Drain, OfPid, NotOfPid
<1>4. Item \subseteq S \cup R /\ Item \cap S \cap R = {}
  OBVIOUS
<1>5. "connect" \in Kind /\ "write" \in Kind
  BY DEF Kind
<1> HIDE DEF S, R
<1>6. /\ c \in Seq(Waiting("connect")) /\ c \in Seq(Item)
      /\ \A e : Count(pending["connect"], e) = Count(Filter(pending["connect"], R), e) + Count(c, e)
  <2>1. SplitBy("connect", S, R)
    BY <1>1, <1>4, <1>5, BufferSplit
  <2> QED
    BY <2>1 DEF SplitBy
<1>7. /\ w \in Seq(Waiting("write")) /\ w \in Seq(Item)
      /\ \A e : Count(pending["write"], e) = Count(Filter(pending["write"], R), e) + Count(w, e)
  <2>1. SplitBy("write", S, R)
    BY <1>1, <1>4, <1>5, BufferSplit
  <2> QED
    BY <2>1 DEF SplitBy
<1>8. /\ pending'["connect"] = Filter(pending["connect"], R)
      /\ pending'["write"] = Filter(pending["write"], R)
  BY <1>3, <1>5
<1> HIDE DEF c, w
<1>9. a \in Seq(Report) /\ SameEvents(a, c)
  BY <1>2, <1>6, DrainedFacts
<1>10. b \in Seq(Report) /\ SameEvents(b, w)
  BY <1>2, <1>7, DrainedFacts
<1> HIDE DEF a, b
<1> QED
  BY <1>3, <1>6, <1>7, <1>8, <1>9, <1>10, TakenReported

\* The grace timer reports what is overdue.
LEMMA FlushReports ==
  ASSUME CorrIInv, FlushTick
  PROVE  ReportsKept
<1> DEFINE S == {i \in Item : Overdue(i)}
           R == {i \in Item : InTime(i)}
           c == Filter(pending["connect"], S)
           w == Filter(pending["write"], S)
           a == Unsent(c)
           b == Unsent(w)
<1>1. PendingTyped
  BY DEF CorrIInv
<1>2. pending' = [k \in Kind |-> Filter(pending[k], R)] /\ sent' = a \o b
  BY DEF FlushTick, KeepInTime
<1>3. Item \subseteq S \cup R /\ Item \cap S \cap R = {}
  BY DEF InTime
<1>4. "connect" \in Kind /\ "write" \in Kind
  BY DEF Kind
<1> HIDE DEF S, R
<1>5. /\ c \in Seq(Waiting("connect")) /\ c \in Seq(Item)
      /\ \A e : Count(pending["connect"], e) = Count(Filter(pending["connect"], R), e) + Count(c, e)
  <2>1. SplitBy("connect", S, R)
    BY <1>1, <1>3, <1>4, BufferSplit
  <2> QED
    BY <2>1 DEF SplitBy
<1>6. /\ w \in Seq(Waiting("write")) /\ w \in Seq(Item)
      /\ \A e : Count(pending["write"], e) = Count(Filter(pending["write"], R), e) + Count(w, e)
  <2>1. SplitBy("write", S, R)
    BY <1>1, <1>3, <1>4, BufferSplit
  <2> QED
    BY <2>1 DEF SplitBy
<1>7. /\ pending'["connect"] = Filter(pending["connect"], R)
      /\ pending'["write"] = Filter(pending["write"], R)
  BY <1>2, <1>4
<1> HIDE DEF c, w
<1>8. a \in Seq(Report) /\ SameEvents(a, c) /\ b \in Seq(Report) /\ SameEvents(b, w)
  BY <1>5, <1>6, UnsentFacts
<1> HIDE DEF a, b
<1> QED
  BY <1>2, <1>5, <1>6, <1>7, <1>8, TakenReported

\* The end reports all that waits.
LEMMA ShutdownReports ==
  ASSUME CorrIInv, Shutdown
  PROVE  ReportsKept
<1> DEFINE c == pending["connect"]
           w == pending["write"]
           a == Unsent(c)
           b == Unsent(w)
<1>1. "connect" \in Kind /\ "write" \in Kind
  BY DEF Kind
<1>2. /\ pending' = [pending EXCEPT !["connect"] = << >>, !["write"] = << >>]
      /\ sent' = a \o b /\ pending \in [Kind -> Seq(Item)]
  BY DEF Shutdown, CorrIInv, PendingTyped
<1>3. pending'["connect"] = << >> /\ pending'["write"] = << >>
  BY <1>1, <1>2
<1>4. c \in Seq(Waiting("connect")) /\ w \in Seq(Waiting("write")) /\ c \in Seq(Item) /\ w \in Seq(Item)
  BY <1>1 DEF CorrIInv, PendingTyped
<1>5. ASSUME NEW e
      PROVE  Count(c, e) = Count(<< >>, e) + Count(c, e) /\ Count(w, e) = Count(<< >>, e) + Count(w, e)
  <2>1. << >> \in Seq(Item) /\ \A i \in 1..Len(<< >>) : FALSE
    OBVIOUS
  <2>2. Count(<< >>, e) = 0
    BY <2>1, CountNone
  <2>3. Count(c, e) \in Nat /\ Count(w, e) \in Nat
    BY <1>4, CountFacts
  <2> QED
    BY <2>2, <2>3
<1>6. /\ \A e : Count(pending["connect"], e) = Count(pending'["connect"], e) + Count(c, e)
      /\ \A e : Count(pending["write"], e) = Count(pending'["write"], e) + Count(w, e)
  BY <1>3, <1>5
<1> HIDE DEF c, w
<1>7. a \in Seq(Report) /\ SameEvents(a, c) /\ b \in Seq(Report) /\ SameEvents(b, w)
  BY <1>4, UnsentFacts
<1> HIDE DEF a, b
<1> QED
  BY <1>2, <1>4, <1>6, <1>7, TakenReported

\* An exit and the passing of time report nothing and take nothing.
LEMMA SilentReports ==
  ASSUME CorrIInv, Pass \/ \E p \in Pid : HandleExit(p)
  PROVE  ReportsKept
<1>1. PendingTyped
  BY DEF CorrIInv
<1>2. sent' = << >>
  BY DEF Pass, HandleExit
<1>3. PendingTyped' /\ \A k \in Kind : SameEvents(pending'[k], pending[k])
  <2>1. CASE Pass
    <3>1. pending' = [k \in Kind |-> [i \in DOMAIN pending[k] |->
                        [pending[k][i] EXCEPT !.age = Older(@, Grace)]]]
      BY <2>1 DEF Pass
    <3>2. PendingTyped'
      BY <1>1, <2>1, PassPending
    <3>3. ASSUME NEW k \in Kind PROVE SameEvents(pending'[k], pending[k])
      <4> DEFINE s == pending[k]
                 t == pending'[k]
      <4>1. s \in Seq(Item) /\ t \in Seq(Item) /\ DOMAIN s = 1..Len(s) /\ DOMAIN t = 1..Len(t)
            /\ Len(s) \in Nat /\ Len(t) \in Nat
        BY <1>1, <3>2 DEF PendingTyped
      <4>2. t = [i \in DOMAIN s |-> [s[i] EXCEPT !.age = Older(@, Grace)]]
        BY <3>1
      <4> HIDE DEF s, t
      <4>3. DOMAIN t = DOMAIN s
        BY <4>2
      <4>4. Len(t) = Len(s)
        <5> DEFINE m == Len(s)
                   n == Len(t)
        <5>1. m \in Nat /\ n \in Nat /\ 1..m = 1..n
          BY <4>1, <4>3
        <5> HIDE DEF m, n
        <5>2. m < n => n \in 1..n /\ n \notin 1..m
          BY <5>1
        <5>3. n < m => m \in 1..m /\ m \notin 1..n
          BY <5>1
        <5>4. m = n
          BY <5>1, <5>2, <5>3
        <5> QED
          BY <5>4 DEF m, n
      <4>5. ASSUME NEW i \in 1..Len(s) PROVE t[i].ev = s[i].ev
        <5>1. t[i] = [s[i] EXCEPT !.age = Older(@, Grace)]
          BY <4>1, <4>2
        <5>2. s[i] \in Item
          BY <4>1
        <5> QED
          BY <5>1, <5>2 DEF Item
      <4> QED
        BY <4>4, <4>5 DEF SameEvents, s, t
    <3> QED
      BY <3>2, <3>3
  <2>2. CASE \E p \in Pid : HandleExit(p)
    <3>1. pending' = pending
      BY <2>2 DEF HandleExit
    <3> QED
      BY <1>1, <3>1 DEF PendingTyped, SameEvents
  <2> QED
    BY <2>1, <2>2
<1> QED
  BY <1>1, <1>2, <1>3, QuietStep DEF ReportsKept, Kind

\* Every action.
LEMMA StepReports ==
  ASSUME CorrIInv, Next
  PROVE  ReportsKept
<1>1. ASSUME NEW e \in Events, HandleConnect(e) \/ HandleFileWrite(e) \/ HandleFileOpen(e)
      PROVE  ReportsKept
  <2>1. JoinOrBuffer(e) /\ PendingTyped
    BY <1>1 DEF HandleConnect, HandleFileWrite, HandleFileOpen, CorrIInv
  <2>2. gen' = gen
    BY <2>1 DEF JoinOrBuffer
  <2> DEFINE who == ResolveInstance(Context(e.pid), e.comm)
  <2>3. \/ pending' = pending /\ sent' = IF Emits(e) THEN <<Attributed(e, who)>> ELSE << >>
        \/ Buffer(e) /\ sent' = << >>
    BY <2>1 DEF JoinOrBuffer
  <2> HIDE DEF who
  <2>4. CASE Buffer(e) /\ sent' = << >>
    BY <2>1, <2>4, BufferedReports
  <2>5. CASE pending' = pending /\ sent' = IF Emits(e) THEN <<Attributed(e, who)>> ELSE << >>
    BY <2>1, <2>2, <2>5, AttributedReports
  <2> QED
    BY <2>3, <2>4, <2>5
<1>2. ASSUME NEW x \in Execs, HandleExec(x)
      PROVE  ReportsKept
  <2>1. x \in Exec
    BY Sensors
  <2> QED
    BY <1>2, <2>1, ExecReports
<1>3. ASSUME NEW p \in Pid, HandleExit(p)
      PROVE  ReportsKept
  BY <1>3, SilentReports
<1> QED
  BY <1>1, <1>2, <1>3, SilentReports, FlushReports, ShutdownReports DEF Next

\* No event is lost in silence and none reported twice, and no chain is reported
\* twice within a window, however events, execs, exits and ticks follow each other.
THEOREM CorrNoDuplicates == Spec => NoDuplicates
<1>1. CorrIInv /\ [Next]_vars => [ReportsKept]_vars
  BY StepReports
<1>2. [][ReportsKept]_vars => ReportedOnce
  BY DEF ReportsKept, ReportStep, ReportedOnce
<1>3. Spec => ReportedOnce
  BY <1>1, <1>2, CorrInvariance, PTL DEF Spec
<1> QED
  BY <1>3, CorrOncePerWindow DEF NoDuplicates
=============================================================================
