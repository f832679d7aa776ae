-------------------------------- MODULE Corr --------------------------------
(***************************************************************************)
(* The correlation module (crates/modules/corr/src/lib.rs): one task that  *)
(* joins process, connection and file events by pid.  Events come from     *)
(* sensors that are drained separately, so they arrive in any order, late  *)
(* (after the exit of their process) or early (before its exec), and an    *)
(* overrun of the bus loses some.                                          *)
(*                                                                         *)
(* The task handles one event or one timer tick at a time, and each is an  *)
(* action.  Instants are kept as ages, which Pass advances up to the       *)
(* longest window they are compared with.  Of severities the model keeps   *)
(* whether they are above Informational, of paths and addresses whether    *)
(* filemon and netmon find them suspicious.  A path the policy does not    *)
(* consider, a read that is not sensitive and a malformed event change     *)
(* nothing and have no action.  A comm matches an image when it is its     *)
(* name; Unknown is an event without one.                                  *)
(*                                                                         *)
(* sent and joined are the records the last step emitted; gen and quiet    *)
(* only observe: the parity of the execs of a pid (a tracker notes the one *)
(* it began under), and the time since a chain of its process fired.       *)
(***************************************************************************)
EXTENDS Integers, Sequences, FiniteSets, Collections

CONSTANTS Pid, Image,
          SuspImage,    \* images procmon::assess finds suspicious
          SuspComm,     \* the same for a bare comm
          Unknown,      \* no comm
          None,         \* no map entry, no parent
          Execs,        \* the ProcessExec events that may happen
          Events,       \* the other events that may happen
          Grace,        \* GRACE
          ChainWindow,  \* CHAIN_WINDOW
          MaxTracked,   \* MAX_TRACKED
          MaxExited,    \* MAX_RECENTLY_EXITED
          MaxPending,   \* MAX_PENDING_CONNECTS, _FILE_WRITES, _FILE_READS
          MaxChain      \* MAX_CHAIN_TRACKED

Kind == {"connect", "write", "read"}
Exec == [pid : Pid, image : Image, ppid : Pid \cup {None}]
Event == [kind : Kind, pid : Pid, comm : Image \cup {Unknown}, susp : BOOLEAN]

ASSUME Sensors == /\ Execs \subseteq Exec /\ Events \subseteq Event
                  /\ \A e \in Events : e.kind = "read" => e.susp
ASSUME Sizes == /\ {Grace, ChainWindow} \subseteq Nat \ {0}
                /\ Grace <= ChainWindow
                /\ {MaxTracked, MaxExited, MaxPending, MaxChain} \subseteq Nat \ {0}

\* EXITED_RETENTION is pinned to CHAIN_WINDOW.
Retention == ChainWindow

ProcContext == [image : Image \cup {Unknown}, susp : BOOLEAN]

\* The two chains and the halves they join.
Join == {"triple", "exfil"}
Parts(j) == IF j = "triple" THEN {"write", "connect"} ELSE {"read", "connect"}

NoHalf == -1
Age == 0..ChainWindow
ChainState == [half : [Kind -> Age \cup {NoHalf}], fired : SUBSET Join,
               of : {0, 1}]

\* A pid is a 32-bit number; the sentinels are no values.
ASSUME SetsApart == /\ IsFiniteSet(Pid) /\ None \notin Pid /\ Unknown \notin Image
                    /\ None \notin ProcContext /\ None \notin ChainState

\* An event that waits.
Item == [ev : Event, age : 0..Grace]

VARIABLES running,   \* the task
          map,       \* contexts of live processes
          order,     \* the pids of map by exec_ts, the order of their ring
          exited,    \* recently_exited
          pending,   \* events waiting for their exec, oldest first, per kind
          chain,     \* the chain trackers
          sent,      \* the component records of the last step
          joined,    \* the chain records of the last step
          gen,       \* parity of the execs seen of a pid
          quiet      \* time since a chain fired for the process

contexts == <<map, order, exited>>
vars == <<running, contexts, pending, chain, sent, joined, gen, quiet>>

-----------------------------------------------------------------------------
(* Attribution. *)

Known(p) == map[p] # None \/ (exited[p] # None /\ exited[p].age < Retention)

Context(p) == IF map[p] # None THEN map[p] ELSE exited[p].ctx

SameInstance(ctx, comm) == comm \in {Unknown, ctx.image}

\* A comm that does not match the context is assessed by itself.
ResolveInstance(ctx, comm) ==
  IF SameInstance(ctx, comm) THEN ctx
  ELSE [image |-> comm, susp |-> comm \in SuspComm]

\* A component record; un-attributed ones bear the comm of the event.
Attributed(e, who) == [ev |-> e, attributed |-> TRUE, image |-> who.image]
Unattributed(e) == [ev |-> e, attributed |-> FALSE, image |-> e.comm]

\* Whether the event yields a half: both sides suspicious, and for a read the
\* file alone.
GivesHalf(e, who) == e.susp /\ (e.kind = "read" \/ who.susp)

-----------------------------------------------------------------------------
(* The chain tracker. *)

Entries(c) == {p \in Pid : c[p] # None}

\* oldest_stamp, as the age of the oldest half.
OldestHalf(cs) ==
  CHOOSE a \in Age \cup {NoHalf} :
    /\ \E k \in Kind : cs.half[k] = a
    /\ \A k \in Kind : cs.half[k] <= a

IsFresh(age) == age # NoHalf /\ age < ChainWindow

IsExpired(cs) == \A k \in Kind : ~ IsFresh(cs.half[k])

NewChain(p) == [half |-> [k \in Kind |-> NoHalf], fired |-> {}, of |-> gen'[p]]

\* Room for a new entry of p: the oldest makes way at the cap.
EvictOldestChain(c, p) ==
  IF c[p] # None \/ Cardinality(Entries(c)) < MaxChain THEN {c}
  ELSE {[c EXCEPT ![q] = None] : q \in
          {v \in Entries(c) : \A w \in Entries(c) :
                                OldestHalf(c[w]) <= OldestHalf(c[v])}}

\* Mutant: only a connect completes a chain.
FiresOnConnect(cs, kinds) ==
  {j \in Join \ cs.fired : /\ "connect" \in kinds
                           /\ \A k \in Parts(j) : IsFresh(cs.half[k])}

\* maybe_fire_chain and maybe_fire_exfil after halves of `kinds` were recorded.
Fires(cs, kinds) ==
  {j \in Join \ cs.fired : /\ Parts(j) \cap kinds # {}
                           /\ \A k \in Parts(j) : IsFresh(cs.half[k])}

\* The time since a chain fired, when the chains `now` fire and only the entries
\* of d are left: an entry that is evicted or superseded takes its latches along.
Hush(d, now) ==
  [p \in Pid |-> [j \in Join |->
     IF <<p, j>> \in now THEN 0
     ELSE IF chain[p] # None /\ d[p] = None THEN ChainWindow
     ELSE quiet[p][j]]]

\* record_connect_and_maybe_chain, record_file_and_maybe_chain and
\* record_read_and_maybe_exfil over the tracker c.
Record(c, p, kinds) ==
  \E d \in EvictOldestChain(c, p) :
    LET old == IF d[p] = None THEN NewChain(p) ELSE d[p]
        cs  == [old EXCEPT !.half =
                  [k \in Kind |-> IF k \in kinds THEN 0 ELSE @[k]]]
        now == Fires(cs, kinds)
    IN  /\ chain' = [d EXCEPT ![p] = [cs EXCEPT !.fired = @ \cup now]]
        /\ joined' = {<<p, j>> : j \in now}
        /\ quiet' = Hush(d, joined')

RecordNothing(c) == chain' = c /\ joined' = {} /\ quiet' = Hush(c, {})

-----------------------------------------------------------------------------
(* Events. *)

Emits(e) == e.kind # "read"

\* Into the buffer of its kind, whose oldest makes way at the cap.
Buffer(e) ==
  pending' = [pending EXCEPT ![e.kind] =
                Append(IF Len(@) >= MaxPending THEN Tail(@) ELSE @,
                       [ev |-> e, age |-> 0])]

\* Attributed when the process is known, else kept for its exec.
JoinOrBuffer(e) ==
  /\ running
  /\ UNCHANGED <<running, contexts, gen>>
  /\ \/ /\ Known(e.pid)
        /\ LET who == ResolveInstance(Context(e.pid), e.comm)
           IN  /\ sent' = IF Emits(e) THEN <<Attributed(e, who)>> ELSE << >>
               /\ IF GivesHalf(e, who) THEN Record(chain, e.pid, {e.kind})
                                       ELSE RecordNothing(chain)
        /\ UNCHANGED pending
     \/ /\ ~ Known(e.pid)
        /\ Buffer(e)
        /\ sent' = << >>
        /\ RecordNothing(chain)

HandleConnect(e) == e.kind = "connect" /\ JoinOrBuffer(e)
HandleFileWrite(e) == e.kind = "write" /\ JoinOrBuffer(e)
HandleFileOpen(e) == e.kind = "read" /\ JoinOrBuffer(e)

\* The verdict of the parent counts, known or retained, whatever its age.
Inherited(x) ==
  /\ x.ppid # None
  /\ \/ map[x.ppid] # None /\ map[x.ppid].susp
     \/ map[x.ppid] = None /\ exited'[x.ppid] # None /\ exited'[x.ppid].ctx.susp

OfPid(s, p) == Filter(s, {i \in Item : i.ev.pid = p})
NotOfPid(s, p) == Filter(s, {i \in Item : i.ev.pid # p})

\* The new context, in place of the oldest at the cap.
Track(p, ctx) ==
  LET others == Filter(order, Pid \ {p})
      full   == map[p] = None /\ Len(others) >= MaxTracked
  IN  /\ order' = Append(IF full THEN Tail(others) ELSE others, p)
      /\ map' = [q \in Pid |-> IF q = p THEN ctx
                               ELSE IF full /\ q = Head(others) THEN None
                               ELSE map[q]]

\* Mutant: the tracker of the old holder of the pid is kept.
ForgetNoChain(p) == chain
ForgetChain(p) == [chain EXCEPT ![p] = None]
ForgetExited(p) == exited' = [exited EXCEPT ![p] = None]

\* The buffered events of the pid are attributed to the new process, connects
\* first, and their halves recorded.
Drain(p, ctx) ==
  LET recs(k) == [i \in 1..Len(OfPid(pending[k], p)) |->
                    Attributed(OfPid(pending[k], p)[i].ev, ctx)]
      kinds == {k \in Kind : \E i \in DOMAIN pending[k] :
                  /\ pending[k][i].ev.pid = p
                  /\ GivesHalf(pending[k][i].ev, ctx)}
  IN  /\ pending' = [k \in Kind |-> NotOfPid(pending[k], p)]
      /\ sent' = recs("connect") \o recs("write")
      /\ IF kinds # {} THEN Record(ForgetChain(p), p, kinds)
                       ELSE RecordNothing(ForgetChain(p))

HandleExec(x) ==
  /\ running
  /\ gen' = [gen EXCEPT ![x.pid] = 1 - @]
  /\ ForgetExited(x.pid)
  /\ LET ctx == [image |-> x.image,
                 susp |-> x.image \in SuspImage \/ Inherited(x)]
     IN  Track(x.pid, ctx) /\ Drain(x.pid, ctx)
  /\ UNCHANGED running

\* Mutant: the tracker is dropped with its process.
ChainAtExitDropped(p) == chain' = [chain EXCEPT ![p] = None]

ChainAtExit(p) == UNCHANGED chain

\* handle_exit: the context is kept for late events, at the cap in place of the
\* one that has been kept longest.
HandleExit(p) ==
  /\ running /\ map[p] # None
  /\ map' = [map EXCEPT ![p] = None]
  /\ order' = Filter(order, Pid \ {p})
  /\ LET kept == {q \in Pid : exited[q] # None}
         full == exited[p] = None /\ Cardinality(kept) >= MaxExited
     IN  \E v \in IF full THEN {q \in kept : \A r \in kept :
                                  exited[r].age <= exited[q].age}
                          ELSE {p} :
           exited' = [exited EXCEPT ![v] = None,
                                    ![p] = [ctx |-> map[p], age |-> 0]]
  /\ ChainAtExit(p)
  /\ sent' = << >> /\ joined' = {}
  /\ UNCHANGED <<running, pending, gen, quiet>>

-----------------------------------------------------------------------------
(* Time, and the end. *)

Older(age, limit) == IF age = NoHalf \/ age >= limit THEN age ELSE age + 1

\* external: a unit of time passes.
Pass ==
  /\ exited' = [p \in Pid |-> IF exited[p] = None THEN None
                  ELSE [exited[p] EXCEPT !.age = Older(@, Retention)]]
  /\ pending' = [k \in Kind |-> [i \in DOMAIN pending[k] |->
                   [pending[k][i] EXCEPT !.age = Older(@, Grace)]]]
  /\ chain' = [p \in Pid |-> IF chain[p] = None THEN None
                 ELSE [chain[p] EXCEPT !.half =
                         [k \in Kind |-> Older(@[k], ChainWindow)]]]
  /\ quiet' = [p \in Pid |-> [j \in Join |-> Older(quiet[p][j], ChainWindow)]]
  /\ sent' = << >> /\ joined' = {}
  /\ running
  /\ UNCHANGED <<running, map, order, gen>>

Overdue(i) == i.age >= Grace
InTime(i) == ~ Overdue(i)
Unsent(s) == [i \in DOMAIN s |-> Unattributed(s[i].ev)]

\* Mutant: overdue events stay in the buffer.
KeepOverdue == UNCHANGED pending

KeepInTime == pending' = [k \in Kind |-> Filter(pending[k], {i \in Item : InTime(i)})]

\* Mutant: one aged half is enough.
ExpiredByOne(p) == \E k \in Kind : chain[p].half[k] = ChainWindow

Purged(p) == IsExpired(chain[p])

\* The grace timer: overdue events are emitted without attribution, overdue
\* reads are forgotten, contexts and trackers past their windows purged.
FlushTick ==
  /\ running
  /\ sent' = Unsent(Filter(pending["connect"], {i \in Item : Overdue(i)}))
               \o Unsent(Filter(pending["write"], {i \in Item : Overdue(i)}))
  /\ KeepInTime
  /\ exited' = [p \in Pid |-> IF exited[p] # None /\ exited[p].age >= Retention
                              THEN None ELSE exited[p]]
  /\ chain' = [p \in Pid |-> IF chain[p] # None /\ Purged(p)
                             THEN None ELSE chain[p]]
  /\ joined' = {}
  /\ UNCHANGED <<running, map, order, gen, quiet>>

\* Stopped, or the bus is gone: what is buffered is emitted, and the task ends.
Shutdown ==
  /\ running
  /\ running' = FALSE
  /\ sent' = Unsent(pending["connect"]) \o Unsent(pending["write"])
  /\ pending' = [pending EXCEPT !["connect"] = << >>, !["write"] = << >>]
  /\ joined' = {}
  /\ UNCHANGED <<contexts, chain, gen, quiet>>

Init ==
  /\ running = TRUE
  /\ map = [p \in Pid |-> None] /\ order = << >>
  /\ exited = [p \in Pid |-> None]
  /\ pending = [k \in Kind |-> << >>]
  /\ chain = [p \in Pid |-> None]
  /\ sent = << >> /\ joined = {}
  /\ gen = [p \in Pid |-> 0]
  /\ quiet = [p \in Pid |-> [j \in Join |-> ChainWindow]]

Next ==
  \/ \E e \in Events : HandleConnect(e) \/ HandleFileWrite(e) \/ HandleFileOpen(e)
  \/ \E x \in Execs : HandleExec(x)
  \/ \E p \in Pid : HandleExit(p)
  \/ Pass \/ FlushTick \/ Shutdown

Spec == Init /\ [][Next]_vars

\* The grace timer goes on ticking; nothing is assumed of the sensors.
FairSpec == Spec /\ WF_vars(FlushTick)

-----------------------------------------------------------------------------
(* Properties. *)

Waiting(k) == {i \in Item : i.ev.kind = k}

\* Every variable has its type, the four tables keep their caps, and the
\* contexts are those that are ordered.
TypeOK ==
  /\ running \in BOOLEAN
  /\ map \in [Pid -> ProcContext \cup {None}]
  /\ order \in Seq(Pid) /\ Len(order) <= MaxTracked
  /\ \A p \in Pid : map[p] # None <=> \E i \in DOMAIN order : order[i] = p
  /\ exited \in [Pid -> [ctx : ProcContext, age : 0..Retention] \cup {None}]
  /\ Cardinality({p \in Pid : exited[p] # None}) <= MaxExited
  /\ \A k \in Kind : /\ pending[k] \in Seq(Waiting(k))
                     /\ Len(pending[k]) <= MaxPending
  /\ chain \in [Pid -> ChainState \cup {None}]
  /\ Cardinality(Entries(chain)) <= MaxChain
  /\ joined \subseteq Pid \X Join
  /\ gen \in [Pid -> {0, 1}] /\ quiet \in [Pid -> [Join -> Age]]

\* pid reuse: a pid has one context at most, so a late event is never credited
\* to a process that the present holder of its pid has superseded.
OneContext == \A p \in Pid : map[p] = None \/ exited[p] = None

\* A tracker never outlives the exec it began under: halves recorded before a
\* pid is taken over are never joined with later ones.
OneInstance == \A p \in Entries(chain) : chain[p].of = gen[p]

\* Whichever half comes last completes the chain: two halves that are both
\* inside the window have fired.
JoinNotMissed ==
  \A p \in Entries(chain) : \A j \in Join :
    (\A k \in Parts(j) : IsFresh(chain[p].half[k])) => j \in chain[p].fired

\* A half stays available for as long as its window, whatever happens to its
\* process, unless the pid is taken over or the table is full.
HalfKept ==
  [][\A p \in Entries(chain) : \A k \in Kind :
       IsFresh(chain[p].half[k]) =>
         \/ chain'[p] # None /\ chain'[p].half[k] \in
              {0, chain[p].half[k], chain[p].half[k] + 1}
         \/ gen'[p] # gen[p]
         \/ /\ Cardinality(Entries(chain)) = MaxChain
            /\ \E q \in Pid : chain[q] = None /\ chain'[q] # None]_vars

\* However often a process writes, reads and connects, each kind of chain is
\* reported once per window, as long as its tracker is not evicted.
OncePerWindow ==
  [][\A p \in Pid, j \in Join : <<p, j>> \in joined' =>
       quiet[p][j] >= ChainWindow \/ gen'[p] # gen[p]]_vars

Count(s, e) == Cardinality({i \in DOMAIN s : s[i].ev = e})
EventsOf(s) == [i \in DOMAIN s |-> s[i].ev]

\* Nothing is lost in silence and nothing reported twice: a connect or write is
\* reported at once (and then attributed), or is buffered (the oldest making way
\* only at the cap), and leaves the buffer exactly as it is reported.
ReportedOnce ==
  [][\A k \in {"connect", "write"} :
       \/ /\ EventsOf(pending'[k]) = EventsOf(pending[k])
          /\ Len(sent') = 1 /\ sent'[1].attributed /\ gen' = gen
          /\ sent'[1].ev \in Events /\ sent'[1].ev.kind = k
       \/ /\ sent' = << >>
          /\ \E e \in Events :
               /\ e.kind = k
               /\ EventsOf(pending'[k]) =
                    EventsOf(Append(IF Len(pending[k]) = MaxPending
                                    THEN Tail(pending[k]) ELSE pending[k], [ev |-> e]))
       \/ \A e \in Events : e.kind = k =>
            Count(pending[k], e) = Count(pending'[k], e) + Count(sent', e)
    ]_vars

\* An event whose exec does not come is flushed: no buffer keeps overdue events.
OverdueFlushed ==
  []<>(~ running \/ \A k \in Kind : \A i \in DOMAIN pending[k] : InTime(pending[k][i]))

\* The tables are within their caps and agree with each other, and what is kept
\* of a pid, its context and its half-built chains, is of its present holder.
CorrInv == TypeOK /\ OneContext /\ OneInstance

\* Neither an event nor a chain is reported twice, and no event is lost.
NoDuplicates == ReportedOnce /\ OncePerWindow
=============================================================================
