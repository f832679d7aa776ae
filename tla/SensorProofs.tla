---------------------------- MODULE SensorProofs ----------------------------
(***************************************************************************)
(* Theorems about what the agent collects: the monitors above either       *)
(* backend of the event bus, for every set of processes, programs and      *)
(* files, every clock and every capacity, however many calls are made and  *)
(* whichever records are lost; the file the events are written to; and the *)
(* inventory, whatever the host holds, however it changes meanwhile.       *)
(***************************************************************************)
EXTENDS Etw, EventFile, Inventory, SequenceFacts, FiniteSetTheorems

(***************************************************************************)
(* Queues of events.                                                       *)
(***************************************************************************)

EventFields == {"n", "kind", "pid", "origin", "image", "cmdline", "trusted", "addr",
                "port", "path", "ts", "runs"}
IsEvent(e) == DOMAIN e = EventFields /\ e.n \in Nat /\ e.ts \in Nat

\* The events that reach the monitors which follow processes or connections.
Expected(m, e) ==
  m \in {"procmon", "netmon", "aiusage"} => e.kind \in Handles(m) /\ e.pid \in Pid

\* A queue of events of a host that has made n calls, for the monitor m.
IsSeq(s) == s \in Seq(Range(s))
Queue(s, n, m) ==
  /\ IsSeq(s)
  /\ \A i \in 1..Len(s) : IsEvent(s[i]) /\ s[i].n <= n /\ Expected(m, s[i])

\* Events in the order they were made, and one queue's before the other's.
InOrder(s) == \A i, j \in 1..Len(s) : i < j => s[i].n < s[j].n
Before(s, t) == \A i \in 1..Len(s), j \in 1..Len(t) : s[i].n < t[j].n

\* The empty sequence is one.
LEMMA NoneYet == IsSeq(<<>>) /\ Len(<<>>) = 0 /\ \A i \in 1..Len(<<>>) : FALSE
  BY DEF IsSeq, Range

\* What is appended comes last, and nothing else changes.
LEMMA Grown ==
  ASSUME NEW s, IsSeq(s), NEW e
  PROVE  /\ IsSeq(Append(s, e)) /\ Len(s) \in Nat /\ Len(Append(s, e)) = Len(s) + 1
         /\ \A i \in 1..Len(s) : Append(s, e)[i] = s[i]
         /\ Append(s, e)[Len(s) + 1] = e
<1> DEFINE S == Range(s) \cup {e}
           t == Append(s, e)
<1>1. s \in Seq(S)
  BY DEF IsSeq
<1>2. t \in Seq(S) /\ Len(t) = Len(s) + 1 /\ Len(s) \in Nat
  BY <1>1
<1>3. (\A i \in 1..Len(s) : t[i] = s[i]) /\ t[Len(s) + 1] = e
  BY <1>1
<1>4. t \in Seq(Range(t))
  <2> HIDE DEF t
  <2>1. DOMAIN t = 1..Len(t) /\ Len(t) \in Nat /\ t = [i \in 1..Len(t) |-> t[i]]
    BY <1>2
  <2>2. t \in [1..Len(t) -> Range(t)]
    BY <2>1 DEF Range
  <2> QED
    BY <2>1, <2>2
<1> QED
  BY <1>2, <1>3, <1>4 DEF IsSeq

\* What is left of a sequence without its head, in the same order.
LEMMA Shrunk ==
  ASSUME NEW s, IsSeq(s), s # <<>>
  PROVE  /\ IsSeq(Tail(s)) /\ Len(s) \in Nat /\ Len(s) >= 1 /\ Len(Tail(s)) = Len(s) - 1
         /\ Head(s) = s[1] /\ \A i \in 1..Len(Tail(s)) : Tail(s)[i] = s[i + 1]
<1> DEFINE t == Tail(s)
<1>1. /\ t \in Seq(Range(s)) /\ Len(s) \in Nat /\ Len(s) >= 1 /\ Len(t) = Len(s) - 1
      /\ Head(s) = s[1] /\ \A i \in 1..Len(t) : t[i] = s[i + 1]
  BY DEF IsSeq
<1>2. t \in Seq(Range(t))
  <2> HIDE DEF t
  <2>1. DOMAIN t = 1..Len(t) /\ Len(t) \in Nat /\ t = [i \in 1..Len(t) |-> t[i]]
    BY <1>1
  <2>2. t \in [1..Len(t) -> Range(t)]
    BY <2>1 DEF Range
  <2> QED
    BY <2>1, <2>2
<1> QED
  BY <1>1, <1>2 DEF IsSeq

\* A queue stays one as the host goes on.
LEMMA QueueLater ==
  ASSUME NEW s, NEW n \in Nat, NEW m, Queue(s, n, m), NEW k \in Nat, n <= k
  PROVE  Queue(s, k, m)
  BY DEF Queue, IsEvent

\* A queue stays one when an event joins it.
LEMMA QueueJoined ==
  ASSUME NEW s, NEW n, NEW m, Queue(s, n, m), NEW e, IsEvent(e), e.n <= n, Expected(m, e)
  PROVE  Queue(Append(s, e), n, m)
  BY Grown DEF Queue

\* A queue stays one when its head is taken, which was an event.
LEMMA QueueTaken ==
  ASSUME NEW s, NEW n, NEW m, Queue(s, n, m), s # <<>>
  PROVE  /\ Queue(Tail(s), n, m)
         /\ IsEvent(Head(s)) /\ Head(s).n <= n /\ Expected(m, Head(s))
<1>0. IsSeq(s)
  BY DEF Queue
<1>1. /\ IsSeq(Tail(s)) /\ Len(s) \in Nat /\ Len(s) >= 1 /\ Len(Tail(s)) = Len(s) - 1
      /\ Head(s) = s[1] /\ \A i \in 1..Len(Tail(s)) : Tail(s)[i] = s[i + 1]
  BY <1>0, Shrunk
<1> QED
  BY <1>1 DEF Queue

\* An event that is newer than those of a queue joins it in order.
LEMMA OrderGrown ==
  ASSUME NEW s, IsSeq(s), NEW e, \A i \in 1..Len(s) : s[i].n < e.n
  PROVE  /\ InOrder(s) => InOrder(Append(s, e))
         /\ \A t : Before(t, s) /\ (\A i \in 1..Len(t) : t[i].n < e.n) => Before(t, Append(s, e))
         /\ \A t : Before(s, t) /\ (\A j \in 1..Len(t) : e.n < t[j].n) => Before(Append(s, e), t)
<1> DEFINE u == Append(s, e)
<1>1. /\ Len(s) \in Nat /\ Len(u) = Len(s) + 1
      /\ \A i \in 1..Len(s) : u[i] = s[i]
      /\ u[Len(s) + 1] = e
  BY Grown
<1> HIDE DEF u
<1>2. InOrder(s) => InOrder(u)
  BY <1>1 DEF InOrder
<1>3. ASSUME NEW t, Before(t, s), \A i \in 1..Len(t) : t[i].n < e.n
      PROVE  Before(t, u)
  BY <1>1, <1>3 DEF Before
<1>4. ASSUME NEW t, Before(s, t), \A j \in 1..Len(t) : e.n < t[j].n
      PROVE  Before(u, t)
  BY <1>1, <1>4 DEF Before
<1> QED
  BY <1>2, <1>3, <1>4 DEF u

\* Without its head a queue is in order as it was, and its head was before it.
LEMMA OrderShrunk ==
  ASSUME NEW s, IsSeq(s), s # <<>>
  PROVE  /\ InOrder(s) => InOrder(Tail(s)) /\ \A j \in 1..Len(Tail(s)) : Head(s).n < Tail(s)[j].n
         /\ \A t : Before(t, s) => Before(t, Tail(s)) /\ \A i \in 1..Len(t) : t[i].n < Head(s).n
         /\ \A t : Before(s, t) => Before(Tail(s), t) /\ \A j \in 1..Len(t) : Head(s).n < t[j].n
<1> DEFINE u == Tail(s)
<1>1. /\ Len(s) \in Nat /\ Len(s) >= 1 /\ Len(u) = Len(s) - 1
      /\ Head(s) = s[1] /\ \A i \in 1..Len(u) : u[i] = s[i + 1]
  BY Shrunk
<1> HIDE DEF u
<1>2. ASSUME InOrder(s)
      PROVE  InOrder(u) /\ \A j \in 1..Len(u) : Head(s).n < u[j].n
  <2>1. \A j \in 1..Len(u) : 1 \in 1..Len(s) /\ j + 1 \in 1..Len(s) /\ 1 < j + 1
    BY <1>1
  <2>2. \A j \in 1..Len(u) : Head(s).n < u[j].n
    BY <1>1, <1>2, <2>1 DEF InOrder
  <2>3. ASSUME NEW i \in 1..Len(u), NEW j \in 1..Len(u), i < j
        PROVE  u[i].n < u[j].n
    BY <1>1, <1>2, <2>1, <2>3 DEF InOrder
  <2> QED
    BY <2>2, <2>3 DEF InOrder
<1>3. ASSUME NEW t, Before(t, s)
      PROVE  Before(t, u) /\ \A i \in 1..Len(t) : t[i].n < Head(s).n
  BY <1>1, <1>3 DEF Before
<1>4. ASSUME NEW t, Before(s, t)
      PROVE  Before(u, t) /\ \A j \in 1..Len(t) : Head(s).n < t[j].n
  BY <1>1, <1>4, SMTT(30) DEF Before
<1> QED
  BY <1>2, <1>3, <1>4 DEF u

(***************************************************************************)
(* From the tracepoint or the session to the monitor: what is in flight is *)
(* in the order it was made, where it comes through one ring.              *)
(***************************************************************************)

\* What has been received, what the bus holds and what a ring holds.
Stream(h, b, q) == /\ InOrder(h) /\ InOrder(b) /\ InOrder(q)
                   /\ Before(h, b) /\ Before(h, q) /\ Before(b, q)

\* A new event joins the stream at its end, one is lost, one moves from the ring to
\* the bus or from the bus to the monitor, and the backlog is given up.
LEMMA StreamSteps ==
  ASSUME NEW h, NEW b, NEW q, IsSeq(h), IsSeq(b), IsSeq(q), Stream(h, b, q)
  PROVE  /\ \A e : /\ \A i \in 1..Len(h) : h[i].n < e.n
                   /\ \A i \in 1..Len(b) : b[i].n < e.n
                   /\ \A i \in 1..Len(q) : q[i].n < e.n
                   => Stream(h, b, Append(q, e))
         /\ \A e : /\ \A i \in 1..Len(h) : h[i].n < e.n
                   /\ \A i \in 1..Len(b) : b[i].n < e.n
                   /\ q = <<>>
                   => Stream(h, Append(b, e), q)
         /\ \A e : q # <<>> /\ e.n = Head(q).n => Stream(h, Append(b, e), Tail(q))
         /\ b # <<>> => Stream(h, Tail(b), q) /\ Stream(Append(h, Head(b)), Tail(b), q)
         /\ Stream(h, <<>>, q)
<1> USE DEF Stream
<1>0. Len(<<>>) = 0 /\ \A i \in 1..Len(<<>>) : FALSE
  BY NoneYet
<1>1. ASSUME NEW e, \A i \in 1..Len(h) : h[i].n < e.n, \A i \in 1..Len(b) : b[i].n < e.n,
             \A i \in 1..Len(q) : q[i].n < e.n
      PROVE  Stream(h, b, Append(q, e))
  BY <1>1, OrderGrown
<1>2. ASSUME NEW e, \A i \in 1..Len(h) : h[i].n < e.n, \A i \in 1..Len(b) : b[i].n < e.n, q = <<>>
      PROVE  Stream(h, Append(b, e), q)
  <2>1. \A j \in 1..Len(q) : e.n < q[j].n
    BY <1>0, <1>2
  <2> QED
    BY <1>2, <2>1, OrderGrown
<1>3. ASSUME NEW e, q # <<>>, e.n = Head(q).n
      PROVE  Stream(h, Append(b, e), Tail(q))
  <2>1. /\ InOrder(Tail(q)) /\ \A j \in 1..Len(Tail(q)) : e.n < Tail(q)[j].n
        /\ Before(h, Tail(q)) /\ \A i \in 1..Len(h) : h[i].n < e.n
        /\ Before(b, Tail(q)) /\ \A i \in 1..Len(b) : b[i].n < e.n
    BY <1>3, OrderShrunk
  <2> QED
    BY <2>1, OrderGrown
<1>4. ASSUME b # <<>>
      PROVE  Stream(h, Tail(b), q) /\ Stream(Append(h, Head(b)), Tail(b), q)
  <2>1. /\ InOrder(Tail(b)) /\ \A j \in 1..Len(Tail(b)) : Head(b).n < Tail(b)[j].n
        /\ Before(h, Tail(b)) /\ \A i \in 1..Len(h) : h[i].n < Head(b).n
        /\ Before(Tail(b), q) /\ \A j \in 1..Len(q) : Head(b).n < q[j].n
    BY <1>4, OrderShrunk
  <2> QED
    BY <2>1, OrderGrown
<1>5. Stream(h, <<>>, q)
  BY <1>0 DEF InOrder, Before
<1> QED
  BY <1>1, <1>2, <1>3, <1>4, <1>5

RingOf(m) == IF m = "procmon" THEN "EVENTS" ELSE "NET_EVENTS"

\* The types of what the backends and the monitors share.
SensorTypes ==
  /\ ops \in Nat /\ dropped \in Nat /\ lagged \in BOOLEAN /\ stopped \in BOOLEAN
  /\ rings = [r \in Ring |-> rings[r]] /\ proc = [p \in Pid |-> proc[p]] /\ life \in [Pid -> Nat]
  /\ Queue(handled, ops, monitor) /\ Queue(backlog, ops, monitor)
  /\ \A r \in Ring : Queue(rings[r], ops, monitor)
  /\ monitor \in Monitor /\ Len(backlog) <= BusCap

\* procmon and netmon are each fed by one ring, and netmon and procmon hear of
\* nothing else; the other backends have no rings.
OneStream ==
  /\ backend # "ebpf" => \A r \in Ring : rings[r] = <<>>
  /\ monitor \in {"procmon", "netmon"} =>
       /\ \A r \in Ring \ {RingOf(monitor)} : rings[r] = <<>>
       /\ Stream(handled, backlog, rings[RingOf(monitor)])

\* The event e is new: it is of the call that is being made.
NewEvent(e) ==
  /\ IsEvent(e) /\ e.n = ops + 1 /\ ops' = ops + 1 /\ Expected(monitor, e)

\* What a step of a backend does to the events in flight.
Silent == UNCHANGED <<backlog, lagged, rings, handled>> /\ ops' \in {ops, ops + 1}
Submits(r, e) ==
  /\ NewEvent(e) /\ (monitor \in {"procmon", "netmon"} => r = RingOf(monitor))
  /\ rings' = [rings EXCEPT ![r] = Append(rings[r], e)]
  /\ UNCHANGED <<backlog, lagged, handled>>
Reports(e) == NewEvent(e) /\ Publish(e) /\ UNCHANGED <<rings, handled>>

\* The record of a tracepoint is an event of its call, and so is one of the session.
LEMMA RecordFacts ==
  ASSUME ops \in Nat, NEW k, NEW p, NEW g
  PROVE  /\ IsEvent(Record(k, p, g)) /\ Record(k, p, g).n = ops + 1 /\ Record(k, p, g).kind = k
         /\ Record(k, p, g).pid = p /\ Record(k, p, g).origin = life[p]
         /\ IsEvent(EtwRecord(k, p)) /\ EtwRecord(k, p).n = ops + 1 /\ EtwRecord(k, p).kind = k
         /\ EtwRecord(k, p).pid = p /\ EtwRecord(k, p).origin = life[p]
         /\ EtwRecord(k, p).runs = None /\ EtwRecord(k, p).path = None
  BY DEF Record, EtwRecord, IsEvent, EventFields

\* The events of the session, as they are published.
StartEvent(p, u, c, t) ==
  [EtwRecord("exec", p) EXCEPT !.image = u, !.cmdline = c, !.ts = t, !.origin = ops + 1]
StopEvent(p, u, t) == [EtwRecord("exit", p) EXCEPT !.image = u, !.ts = t]
ConnectEvent(p, a, o, c) == [EtwRecord("connect", p) EXCEPT !.addr = a, !.port = o, !.runs = c]
FileEvent(k, p, a) == [EtwRecord(k, p) EXCEPT !.path = a]
WriteEvent(p, a, c) == [EtwRecord("write", p) EXCEPT !.path = a, !.runs = c]

\* What of each of them is known.
LEMMA StartFacts ==
  ASSUME ops \in Nat, NEW p, NEW u, NEW c, NEW t \in Nat
  PROVE  LET e == StartEvent(p, u, c, t)
         IN  /\ IsEvent(e) /\ e.n = ops + 1 /\ e.kind = "exec" /\ e.pid = p /\ e.origin = ops + 1
  BY DEF StartEvent, EtwRecord, IsEvent, EventFields

\* The same of a stop.
LEMMA StopFacts ==
  ASSUME ops \in Nat, NEW p, NEW u, NEW t \in Nat
  PROVE  LET e == StopEvent(p, u, t)
         IN  /\ IsEvent(e) /\ e.n = ops + 1 /\ e.kind = "exit" /\ e.pid = p /\ e.origin = life[p]
  BY DEF StopEvent, EtwRecord, IsEvent, EventFields

\* The same of a connection.
LEMMA ConnectFacts ==
  ASSUME ops \in Nat, NEW p, NEW a, NEW o, NEW c
  PROVE  LET e == ConnectEvent(p, a, o, c)
         IN  IsEvent(e) /\ e.n = ops + 1 /\ e.kind = "connect" /\ e.pid = p
  BY DEF ConnectEvent, EtwRecord, IsEvent, EventFields

\* The same of a create.
LEMMA FileFacts ==
  ASSUME ops \in Nat, NEW k, NEW p, NEW a
  PROVE  LET e == FileEvent(k, p, a)
         IN  IsEvent(e) /\ e.n = ops + 1 /\ e.runs = None
  BY DEF FileEvent, EtwRecord, IsEvent, EventFields

\* The same of a write.
LEMMA WriteFacts ==
  ASSUME ops \in Nat, NEW p, NEW a, NEW c
  PROVE  LET e == WriteEvent(p, a, c)
         IN  IsEvent(e) /\ e.n = ops + 1 /\ e.path = a /\ e.runs = c
  BY DEF WriteEvent, EtwRecord, IsEvent, EventFields

\* An event keeps the other fields when one is filled in.
LEMMA Amended ==
  ASSUME NEW e, IsEvent(e), NEW f, f \in EventFields, NEW v, f = "n" => v \in Nat, f = "ts" => v \in Nat
  PROVE  /\ IsEvent([e EXCEPT ![f] = v]) /\ [e EXCEPT ![f] = v][f] = v
         /\ \A k \in EventFields \ {f} : [e EXCEPT ![f] = v][k] = e[k]
  BY DEF IsEvent, EventFields

\* submit either drops the record or puts it in its ring.
LEMMA SubmitShape ==
  ASSUME NEW r, NEW e, Submit(r, e), NewEvent(e), UNCHANGED monVars,
         monitor \in {"procmon", "netmon"} => r = RingOf(monitor)
  PROVE  Silent \/ Submits(r, e)
  BY DEF Submit, Silent, Submits, NewEvent, monVars

\* What each step of the tracepoints does to the events in flight.
LEMMA EbpfShape ==
  ASSUME SensorTypes, EbpfNext
  PROVE  \/ Silent \/ (\E r \in Ring : \E e : Submits(r, e)) \/ \E r \in Ring : Drain(r)
<1> USE DEF SensorTypes, Call
<1>0. /\ {"EVENTS", "NET_EVENTS", "FILE_EVENTS", "WRITE_EVENTS"} \subseteq Ring
      /\ monitor = "procmon" => Handles(monitor) = {"exec", "exit"} /\ RingOf(monitor) = "EVENTS"
      /\ monitor = "netmon" => Handles(monitor) = {"connect"} /\ RingOf(monitor) = "NET_EVENTS"
      /\ monitor = "aiusage" => Handles(monitor) = {"exec", "exit", "connect"}
  BY DEF Ring, Handles, RingOf
<1>1. ASSUME NEW p \in Pid, NEW q \in Pid, Fork(p, q) PROVE Silent
  BY <1>1 DEF Fork, Silent, monVars
<1>2. ASSUME NEW p \in Pid, NEW g, Exec(p, g) PROVE Silent \/ \E r \in Ring : \E e : Submits(r, e)
  <2> DEFINE e == [Record("exec", p, g.image) EXCEPT !.origin = ops + 1]
  <2>1. IsEvent(e) /\ e.n = ops + 1 /\ e.kind = "exec" /\ e.pid = p
    BY RecordFacts DEF IsEvent, EventFields
  <2>2. NewEvent(e)
    BY <1>2, <2>1 DEF NewEvent, Exec, Expected
  <2>3. Submit("EVENTS", e) /\ UNCHANGED monVars /\ "exec" \in Handles(monitor)
    BY <1>2 DEF Exec
  <2> HIDE DEF e
  <2>4. Silent \/ Submits("EVENTS", e)
    BY <1>0, <2>2, <2>3, SubmitShape
  <2> QED
    BY <1>0, <2>4
<1>3. ASSUME NEW p \in Pid, Exit(p) PROVE Silent \/ \E r \in Ring : \E e : Submits(r, e)
  <2> DEFINE e == Record("exit", p, proc[p].image)
  <2>2. NewEvent(e)
    BY <1>3, RecordFacts DEF NewEvent, Exit, Expected
  <2>3. Submit("EVENTS", e) /\ UNCHANGED monVars /\ "exit" \in Handles(monitor)
    BY <1>3 DEF Exit
  <2> HIDE DEF e
  <2>4. Silent \/ Submits("EVENTS", e)
    BY <1>0, <2>2, <2>3, SubmitShape
  <2> QED
    BY <1>0, <2>4
<1>4. ASSUME NEW p \in Pid, NEW d, Connect(p, d)
      PROVE  Silent \/ \E r \in Ring : \E e : Submits(r, e)
  <2>1. CASE d.addr = "v6"
    BY <1>4, <2>1 DEF Connect, Silent, monVars
  <2>2. CASE d.addr # "v6"
    <3> DEFINE e == [Record("connect", p, proc[p].image) EXCEPT !.addr = d.addr, !.port = d.port]
    <3>1. IsEvent(e) /\ e.n = ops + 1 /\ e.kind = "connect" /\ e.pid = p
      BY RecordFacts DEF IsEvent, EventFields
    <3>2. NewEvent(e)
      BY <1>4, <3>1 DEF NewEvent, Connect, Expected
    <3>3. Submit("NET_EVENTS", e) /\ UNCHANGED monVars /\ "connect" \in Handles(monitor)
      BY <1>4, <2>2 DEF Connect
    <3> HIDE DEF e
    <3>4. Silent \/ Submits("NET_EVENTS", e)
      BY <1>0, <3>2, <3>3, SubmitShape
    <3> QED
      BY <1>0, <3>4
  <2> QED
    BY <2>1, <2>2
<1>5. ASSUME NEW p \in Pid, NEW o, OpenAt(p, o)
      PROVE  Silent \/ \E r \in Ring : \E e : Submits(r, e)
  <2>1. CASE o.path = None
    BY <1>5, <2>1 DEF OpenAt, Silent, monVars
  <2>2. CASE o.path # None
    <3> DEFINE e == [Record(o.kind, p, proc[p].image) EXCEPT !.path = o.path]
    <3>1. IsEvent(e) /\ e.n = ops + 1
      BY RecordFacts DEF IsEvent, EventFields
    <3>0. UNCHANGED monVars /\ monitor \notin {"procmon", "netmon", "aiusage"}
      BY <1>0, <1>5 DEF OpenAt
    <3>2. NewEvent(e)
      BY <1>5, <3>0, <3>1 DEF NewEvent, OpenAt, Expected
    <3>3. Submit("FILE_EVENTS", e)
      BY <1>5, <2>2 DEF OpenAt
    <3> HIDE DEF e
    <3>4. Silent \/ Submits("FILE_EVENTS", e)
      BY <3>0, <3>2, <3>3, SubmitShape
    <3> QED
      BY <1>0, <3>4
  <2> QED
    BY <2>1, <2>2
<1>6. ASSUME NEW p \in Pid, Write(p)
      PROVE  Silent \/ \E r \in Ring : \E e : Submits(r, e)
  <2>1. CASE p \in writeSeen
    BY <1>6, <2>1 DEF Write, Silent, monVars
  <2>2. CASE p \notin writeSeen
    <3> DEFINE e == Record("write", p, proc[p].image)
    <3>0. UNCHANGED monVars /\ monitor \notin {"procmon", "netmon", "aiusage"}
      BY <1>0, <1>6 DEF Write
    <3>2. NewEvent(e)
      BY <1>6, <3>0, RecordFacts DEF NewEvent, Write, Expected
    <3>3. Submit("WRITE_EVENTS", e)
      BY <1>6, <2>2 DEF Write
    <3> HIDE DEF e
    <3>4. Silent \/ Submits("WRITE_EVENTS", e)
      BY <3>0, <3>2, <3>3, SubmitShape
    <3> QED
      BY <1>0, <3>4
  <2> QED
    BY <2>1, <2>2
<1>7. ASSUME StopPolling PROVE Silent
  BY <1>7 DEF StopPolling, Silent, monVars, kernel
<1> QED
  BY <1>1, <1>2, <1>3, <1>4, <1>5, <1>6, <1>7 DEF EbpfNext

\* What each record of the session does to the events in flight.
LEMMA EtwShape ==
  ASSUME SensorTypes, EtwNext
  PROVE  Silent \/ \E e : Reports(e)
<1> USE DEF SensorTypes, EtwCall
<1>0. /\ monitor = "procmon" => Handles(monitor) = {"exec", "exit"}
      /\ monitor = "netmon" => Handles(monitor) = {"connect"}
      /\ monitor = "aiusage" => Handles(monitor) = {"exec", "exit", "connect"}
      /\ Time[monitor] \subseteq Nat
  BY Clock DEF Handles
<1>t. ops \in Nat
  OBVIOUS
<1>1. ASSUME NEW p \in Pid, NEW g, Start(p, g) PROVE Silent \/ \E e : Reports(e)
  <2>1. PICK c \in {None, g.cmdline}, t \in Time[monitor] :
          Observed("start", /\ Publish(StartEvent(p, g.image, c, t))
                            /\ UNCHANGED <<cache, order>>)
    BY <1>1 DEF Start, StartEvent
  <2> DEFINE e == StartEvent(p, g.image, c, t)
  <2>2. IsEvent(e) /\ e.n = ops + 1 /\ e.kind = "exec" /\ e.pid = p
    BY <1>0, <1>t, StartFacts
  <2>3. NewEvent(e) /\ UNCHANGED <<rings, handled>> /\ ops' = ops + 1
    BY <1>1, <2>2 DEF NewEvent, Start, Expected
  <2>4. Publish(e) \/ UNCHANGED <<backlog, lagged>>
    BY <2>1 DEF Observed
  <2> QED
    BY <2>3, <2>4 DEF Silent, Reports
<1>2. ASSUME NEW p \in Pid, StopProcess(p) PROVE Silent \/ \E e : Reports(e)
  <2>1. PICK t \in Time[monitor] :
          Observed("stop", /\ Publish(StopEvent(p, proc[p].image, t))
                           /\ UNCHANGED <<cache, order>>)
    BY <1>2 DEF StopProcess, StopEvent
  <2> DEFINE e == StopEvent(p, proc[p].image, t)
  <2>2. IsEvent(e) /\ e.n = ops + 1 /\ e.kind = "exit" /\ e.pid = p
    BY <1>0, <1>t, StopFacts
  <2>3. NewEvent(e) /\ UNCHANGED <<rings, handled>> /\ ops' = ops + 1
    BY <1>2, <2>2 DEF NewEvent, StopProcess, Expected
  <2>4. Publish(e) \/ UNCHANGED <<backlog, lagged>>
    BY <2>1 DEF Observed
  <2> QED
    BY <2>3, <2>4 DEF Silent, Reports
<1>3. ASSUME NEW p \in Pid, NEW d, ConnectAttempt(p, d) PROVE Silent \/ \E e : Reports(e)
  <2> DEFINE e == ConnectEvent(p, d.addr, d.port, proc[p].cmdline)
  <2>2. IsEvent(e) /\ e.n = ops + 1 /\ e.kind = "connect" /\ e.pid = p
    BY <1>0, <1>t, ConnectFacts
  <2>3. NewEvent(e) /\ UNCHANGED <<rings, handled>> /\ ops' = ops + 1
    BY <1>3, <2>2 DEF NewEvent, ConnectAttempt, Expected
  <2>4. Publish(e) \/ UNCHANGED <<backlog, lagged>>
    BY <1>3 DEF ConnectAttempt, Observed, ConnectEvent
  <2> QED
    BY <2>3, <2>4 DEF Silent, Reports
<1>4. ASSUME NEW fo, NEW o, CreateFile(fo, o) PROVE Silent \/ \E e : Reports(e)
  <2> DEFINE e == FileEvent(o.kind, AnyPid, o.path)
  <2>2. IsEvent(e) /\ e.n = ops + 1
    BY <1>0, <1>t, FileFacts
  <2>0. monitor \notin {"procmon", "netmon", "aiusage"}
    BY <1>0, <1>4, SMTT(30) DEF CreateFile
  <2>3. NewEvent(e) /\ UNCHANGED <<rings, handled>> /\ ops' = ops + 1
    BY <1>4, <2>0, <2>2 DEF NewEvent, CreateFile, Expected
  <2>4. Publish(e) \/ UNCHANGED <<backlog, lagged>>
    BY <1>4 DEF CreateFile, Observed, FileEvent
  <2> QED
    BY <2>3, <2>4 DEF Silent, Reports
<1>5. ASSUME NEW fo, CloseFile(fo) PROVE Silent
  BY <1>5 DEF CloseFile, Observed, Silent
<1>6. ASSUME NEW fo, WriteFile(fo) PROVE Silent \/ \E e : Reports(e)
  <2> DEFINE e == WriteEvent(AnyPid, cache[fo], file[fo])
  <2>2. IsEvent(e) /\ e.n = ops + 1
    BY <1>0, <1>t, WriteFacts
  <2>0. monitor \notin {"procmon", "netmon", "aiusage"}
    BY <1>0, <1>6 DEF WriteFile
  <2>3. NewEvent(e) /\ UNCHANGED <<rings, handled>> /\ ops' = ops + 1
    BY <1>6, <2>0, <2>2 DEF NewEvent, WriteFile, Expected
  <2>4. Publish(e) \/ UNCHANGED <<backlog, lagged>>
    BY <1>6 DEF WriteFile, Observed, WriteEvent
  <2> QED
    BY <2>3, <2>4 DEF Silent, Reports
<1> QED
  BY <1>1, <1>2, <1>3, <1>4, <1>5, <1>6 DEF EtwNext

\* What a drain thread publishes is the record at the head of its ring, but for its
\* image, command line, path and time.
LEMMA DrainEvent ==
  ASSUME NEW r, NEW h, IsEvent(h), NEW t \in Nat
  PROVE  LET e == [Enrich(r, h) EXCEPT !.ts = t]
         IN  /\ IsEvent(e) /\ e.n = h.n /\ e.kind = h.kind /\ e.pid = h.pid /\ e.origin = h.origin
<1> DEFINE g == Enrich(r, h)
           e == [g EXCEPT !.ts = t]
<1>1. IsEvent(g) /\ g.n = h.n /\ g.kind = h.kind /\ g.pid = h.pid /\ g.origin = h.origin
  BY DEF Enrich, EnrichProcExec, EnrichWrite, IsEvent, EventFields
<1> HIDE DEF g
<1>2. IsEvent(e) /\ e.n = g.n /\ e.kind = g.kind /\ e.pid = g.pid /\ e.origin = g.origin
  BY <1>1 DEF IsEvent, EventFields
<1> QED
  BY <1>1, <1>2 DEF g

\* tx.send: the event joins the backlog, at whose capacity the oldest is lost.
LEMMA PublishShape ==
  ASSUME NEW e, Publish(e), IsSeq(backlog), Len(backlog) <= BusCap, lagged \in BOOLEAN
  PROVE  \/ stopped /\ UNCHANGED <<backlog, lagged>>
         \/ /\ backlog' = Append(backlog, e) /\ Len(backlog') <= BusCap /\ UNCHANGED lagged
         \/ /\ backlog # <<>> /\ backlog' = Append(Tail(backlog), e) /\ Len(backlog') <= BusCap
            /\ lagged' = TRUE
<1>0. BusCap \in Nat /\ BusCap > 0 /\ Len(backlog) \in Nat
  BY BusSizes, Grown
<1>1. CASE stopped
  BY <1>1 DEF Publish
<1>2. CASE ~stopped /\ Len(backlog) # BusCap
  BY <1>0, <1>2, Grown DEF Publish
<1>3. CASE ~stopped /\ Len(backlog) = BusCap
  <2>1. backlog # <<>>
    BY <1>0, <1>3, NoneYet
  <2>2. IsSeq(Tail(backlog)) /\ Len(Tail(backlog)) = Len(backlog) - 1
    BY <2>1, Shrunk
  <2>3. backlog' = Append(Tail(backlog), e) /\ lagged' = TRUE
    BY <1>3 DEF Publish
  <2>4. Len(backlog') = BusCap
    BY <1>0, <1>3, <2>2, <2>3, Grown
  <2>5. Len(backlog') <= BusCap
    BY <1>0, <2>4
  <2> QED
    BY <2>1, <2>3, <2>5
<1> QED
  BY <1>1, <1>2, <1>3

\* The types of what is in flight, and its order.
InFlight ==
  /\ Queue(handled, ops, monitor) /\ Queue(backlog, ops, monitor)
  /\ rings = [r \in Ring |-> rings[r]] /\ \A r \in Ring : Queue(rings[r], ops, monitor)
  /\ Len(backlog) <= BusCap /\ OneStream

\* A step that moves no event.
LEMMA SilentInFlight ==
  ASSUME SensorTypes, InFlight, Silent, UNCHANGED <<monitor, backend>> PROVE InFlight'
<1>1. ops \in Nat /\ ops' \in Nat /\ ops <= ops'
  BY DEF SensorTypes, Silent
<1>2. /\ Queue(handled, ops', monitor) /\ Queue(backlog, ops', monitor)
      /\ \A r \in Ring : Queue(rings[r], ops', monitor)
  BY <1>1, QueueLater DEF InFlight
<1> QED
  BY <1>2 DEF InFlight, Silent, OneStream, Stream

\* A record that joins its ring.
LEMMA SubmitsInFlight ==
  ASSUME SensorTypes, InFlight, backend = "ebpf", UNCHANGED <<monitor, backend>>,
         NEW q \in Ring, NEW e, Submits(q, e)
  PROVE  InFlight'
<1>0. ops \in Nat /\ ops' = ops + 1 /\ e.n = ops + 1 /\ IsEvent(e) /\ Expected(monitor, e)
  BY DEF SensorTypes, Submits, NewEvent
<1>1. rings' = [rings EXCEPT ![q] = Append(rings[q], e)] /\ UNCHANGED <<handled, backlog>>
  BY DEF Submits
<1>a. ops' \in Nat /\ ops <= ops' /\ e.n <= ops'
  BY <1>0
<1>b. /\ Queue(handled, ops', monitor) /\ Queue(backlog, ops', monitor)
      /\ \A r \in Ring : Queue(rings[r], ops', monitor)
  BY <1>0, <1>a, QueueLater DEF InFlight
<1>2. Queue(Append(rings[q], e), ops', monitor)
  BY <1>0, <1>a, <1>b, QueueJoined
<1>3. rings'[q] = Append(rings[q], e) /\ (\A r \in Ring \ {q} : rings'[r] = rings[r])
      /\ rings' = [r \in Ring |-> rings'[r]]
  BY <1>1 DEF InFlight
<1>4. \A r \in Ring : Queue(rings'[r], ops', monitor)
  BY <1>b, <1>2, <1>3
<1>5. ASSUME monitor \in {"procmon", "netmon"}
      PROVE  /\ \A r \in Ring \ {RingOf(monitor)} : rings'[r] = <<>>
             /\ Stream(handled, backlog, rings'[RingOf(monitor)])
  <2>1. q = RingOf(monitor) /\ Stream(handled, backlog, rings[q])
    BY <1>5 DEF Submits, InFlight, OneStream
  <2>2. /\ \A i \in 1..Len(handled) : handled[i].n < e.n
        /\ \A i \in 1..Len(backlog) : backlog[i].n < e.n
        /\ \A i \in 1..Len(rings[q]) : rings[q][i].n < e.n
    BY <1>0 DEF InFlight, Queue, IsEvent
  <2>3. IsSeq(handled) /\ IsSeq(backlog) /\ IsSeq(rings[q])
    BY DEF InFlight, Queue
  <2>4. Stream(handled, backlog, Append(rings[q], e))
    BY <2>1, <2>2, <2>3, StreamSteps
  <2> QED
    BY <1>3, <1>5, <2>1, <2>4 DEF InFlight, OneStream
<1> QED
  BY <1>1, <1>b, <1>3, <1>4, <1>5 DEF InFlight, OneStream

\* An event that reaches the bus: new, with nothing in the ring it comes through, or
\* the head of that ring.
LEMMA ReportsInFlight ==
  ASSUME SensorTypes, InFlight, backend # "ebpf", UNCHANGED <<monitor, backend>>,
         NEW e, Reports(e)
  PROVE  InFlight'
<1>0. /\ ops \in Nat /\ ops' = ops + 1 /\ e.n = ops + 1 /\ IsEvent(e) /\ Expected(monitor, e)
      /\ UNCHANGED <<handled, rings>> /\ Publish(e)
  BY DEF SensorTypes, Reports, NewEvent
<1>1. IsSeq(handled) /\ IsSeq(backlog) /\ \A r \in Ring : IsSeq(rings[r]) /\ rings[r] = <<>>
  BY DEF InFlight, Queue, OneStream
<1>a. ops' \in Nat /\ ops <= ops' /\ e.n <= ops'
  BY <1>0
<1>2. /\ Queue(handled, ops', monitor) /\ Queue(backlog, ops', monitor)
      /\ \A r \in Ring : Queue(rings[r], ops', monitor)
  BY <1>0, <1>a, QueueLater DEF InFlight
<1>3. Len(backlog') <= BusCap /\ \E b : /\ b = backlog \/ (backlog # <<>> /\ b = Tail(backlog))
                                        /\ backlog' \in {b, Append(b, e)}
  BY <1>0, <1>1, PublishShape DEF InFlight, SensorTypes
<1>4. PICK b : /\ b = backlog \/ (backlog # <<>> /\ b = Tail(backlog))
               /\ backlog' \in {b, Append(b, e)}
  BY <1>3
<1>5. Queue(b, ops', monitor) /\ Queue(backlog', ops', monitor) /\ IsSeq(b)
  <2>1. Queue(b, ops', monitor)
    BY <1>2, <1>4, QueueTaken
  <2>2. Queue(Append(b, e), ops', monitor)
    BY <1>0, <1>a, <2>1, QueueJoined
  <2> QED
    BY <1>4, <2>1, <2>2 DEF Queue
<1>6. ASSUME monitor \in {"procmon", "netmon"}
      PROVE  Stream(handled, backlog', rings[RingOf(monitor)])
  <2> DEFINE q == rings[RingOf(monitor)]
  <2>0. RingOf(monitor) \in Ring
    BY DEF RingOf, Ring
  <2>1. Stream(handled, backlog, q) /\ IsSeq(q) /\ q = <<>>
    BY <1>1, <1>6, <2>0 DEF InFlight, OneStream
  <2> HIDE DEF q
  <2>2. Stream(handled, b, q)
    BY <1>1, <1>4, <2>1, StreamSteps
  <2>3. /\ \A i \in 1..Len(handled) : handled[i].n < e.n
        /\ \A i \in 1..Len(backlog) : backlog[i].n < e.n
    BY <1>0 DEF InFlight, Queue, IsEvent
  <2>4. \A i \in 1..Len(b) : b[i].n < e.n
    BY <1>1, <1>4, <2>3, Shrunk
  <2>5. Stream(handled, Append(b, e), q)
    BY <1>1, <1>5, <2>1, <2>2, <2>3, <2>4, StreamSteps
  <2> QED
    BY <1>4, <2>2, <2>5 DEF q
<1> QED
  BY <1>0, <1>2, <1>3, <1>5, <1>6 DEF InFlight, OneStream

\* A drain thread takes the head of its ring.
LEMMA DrainInFlight ==
  ASSUME SensorTypes, InFlight, backend = "ebpf", UNCHANGED backend, NEW r \in Ring, Drain(r)
  PROVE  InFlight'
<1>0. /\ ops \in Nat /\ ops' = ops /\ UNCHANGED <<handled, monitor>> /\ rings[r] # <<>>
      /\ rings' = [rings EXCEPT ![r] = Tail(rings[r])]
  BY DEF SensorTypes, Drain, kernel
<1>1. IsSeq(handled) /\ IsSeq(backlog) /\ \A q \in Ring : IsSeq(rings[q])
  BY DEF InFlight, Queue
<1>2. PICK t \in Stamp(r) : Publish([Enrich(r, Head(rings[r])) EXCEPT !.ts = t])
  BY DEF Drain
<1>3. t \in Nat
  BY Clock DEF Stamp, SensorTypes
<1> DEFINE h == Head(rings[r])
           e == [Enrich(r, h) EXCEPT !.ts = t]
<1>4. /\ Queue(Tail(rings[r]), ops, monitor)
      /\ IsEvent(h) /\ h.n <= ops /\ Expected(monitor, h)
  BY <1>0, QueueTaken DEF InFlight
<1>5. IsEvent(e) /\ e.n = h.n /\ e.kind = h.kind /\ e.pid = h.pid
  BY <1>3, <1>4, DrainEvent
<1>6. Publish(e)
  BY <1>2
<1> HIDE DEF h, e
<1>7. Len(backlog') <= BusCap /\ \E b : /\ b = backlog \/ (backlog # <<>> /\ b = Tail(backlog))
                                        /\ backlog' \in {b, Append(b, e)}
  BY <1>6, <1>1, PublishShape DEF InFlight, SensorTypes
<1>8. PICK b : /\ b = backlog \/ (backlog # <<>> /\ b = Tail(backlog))
               /\ backlog' \in {b, Append(b, e)}
  BY <1>7
<1>9. Queue(b, ops, monitor) /\ Queue(backlog', ops, monitor) /\ IsSeq(b)
  <2>1. Queue(b, ops, monitor)
    BY <1>8, QueueTaken DEF InFlight
  <2>2. Queue(Append(b, e), ops, monitor)
    BY <1>4, <1>5, <2>1, QueueJoined DEF Expected
  <2> QED
    BY <1>8, <2>1, <2>2 DEF Queue
<1>10. rings'[r] = Tail(rings[r]) /\ (\A q \in Ring \ {r} : rings'[q] = rings[q])
       /\ rings' = [q \in Ring |-> rings'[q]]
  BY <1>0 DEF InFlight
<1>11. \A q \in Ring : Queue(rings'[q], ops, monitor)
  BY <1>4, <1>10 DEF InFlight
<1>12. ASSUME monitor \in {"procmon", "netmon"}
       PROVE  /\ \A q \in Ring \ {RingOf(monitor)} : rings'[q] = <<>>
              /\ Stream(handled, backlog', rings'[RingOf(monitor)])
  <2>1. r = RingOf(monitor) /\ Stream(handled, backlog, rings[r])
    BY <1>0, <1>12 DEF InFlight, OneStream
  <2>2. Stream(handled, b, rings[r])
    BY <1>1, <1>8, <2>1, StreamSteps
  <2>3. Stream(handled, Append(b, e), Tail(rings[r]))
    BY <1>0, <1>1, <1>5, <1>9, <2>2, StreamSteps DEF h
  <2>4. IsSeq(Tail(rings[r])) /\ Stream(handled, b, Tail(rings[r]))
    <3>1. IsSeq(Tail(rings[r])) /\ InOrder(Tail(rings[r])) /\ Before(handled, Tail(rings[r]))
          /\ Before(b, Tail(rings[r]))
      BY <1>0, <1>1, <2>2, OrderShrunk, Shrunk DEF Stream
    <3> QED
      BY <2>2, <3>1 DEF Stream
  <2> QED
    BY <1>8, <1>10, <1>12, <2>1, <2>3, <2>4 DEF InFlight, OneStream
<1> QED
  BY <1>0, <1>7, <1>9, <1>10, <1>11, <1>12 DEF InFlight, OneStream

\* The monitor takes the oldest event of its backlog, or gives the backlog up.
LEMMA MonitorInFlight ==
  ASSUME SensorTypes, InFlight, MonitorNext, UNCHANGED <<ebpfVars, backend>> PROVE InFlight'
<1>0. ops \in Nat /\ UNCHANGED <<monitor, rings, ops, backend>>
  BY DEF SensorTypes, MonitorNext, Receive, StopMonitor, ebpfVars, kernel
<1>1. IsSeq(handled) /\ IsSeq(backlog) /\ \A q \in Ring : IsSeq(rings[q])
  BY DEF InFlight, Queue
<1>2. RingOf(monitor) \in Ring
  BY DEF RingOf, Ring
<1>3. CASE Receive
  <2>0. backlog # <<>> /\ backlog' = Tail(backlog) /\ handled' = Append(handled, Head(backlog))
    BY <1>3 DEF Receive
  <2>1. /\ Queue(Tail(backlog), ops, monitor) /\ IsEvent(Head(backlog)) /\ Head(backlog).n <= ops
        /\ Expected(monitor, Head(backlog))
    BY <2>0, QueueTaken DEF InFlight
  <2>2. Queue(Append(handled, Head(backlog)), ops, monitor)
    BY <2>1, QueueJoined DEF InFlight
  <2>3. Len(Tail(backlog)) <= BusCap
    BY <1>1, <2>0, Shrunk, BusSizes DEF InFlight
  <2>4. monitor \in {"procmon", "netmon"} =>
          Stream(Append(handled, Head(backlog)), Tail(backlog), rings[RingOf(monitor)])
    BY <1>1, <1>2, <2>0, StreamSteps DEF InFlight, OneStream
  <2> QED
    BY <1>0, <2>0, <2>1, <2>2, <2>3, <2>4 DEF InFlight, OneStream
<1>4. CASE StopMonitor
  <2>0. backlog' = <<>> /\ UNCHANGED handled
    BY <1>4 DEF StopMonitor
  <2>1. Queue(<<>>, ops, monitor) /\ Len(<<>>) <= BusCap
    BY NoneYet, BusSizes DEF Queue
  <2>2. monitor \in {"procmon", "netmon"} => Stream(handled, <<>>, rings[RingOf(monitor)])
    BY <1>1, <1>2, StreamSteps DEF InFlight, OneStream
  <2> QED
    BY <1>0, <2>0, <2>1, <2>2 DEF InFlight, OneStream
<1> QED
  BY <1>3, <1>4 DEF MonitorNext

\* The types and the order of what is in flight are kept by every step.
LEMMA InFlightKept ==
  ASSUME SensorTypes, InFlight, [SensorsNext]_sensorVars PROVE InFlight'
<1>1. CASE backend = "ebpf" /\ EbpfNext /\ UNCHANGED backend
  <2>1. CASE Silent
    BY <1>1, <2>1, SilentInFlight DEF EbpfNext, Fork, Exec, Exit, Connect, OpenAt, Write, Call, Drain,
       StopPolling, monVars
  <2>2. CASE \E r \in Ring : \E e : Submits(r, e)
    BY <1>1, <2>2, SubmitsInFlight DEF EbpfNext, Fork, Exec, Exit, Connect, OpenAt, Write, Call, Drain,
       StopPolling, monVars
  <2>3. CASE \E r \in Ring : Drain(r)
    BY <1>1, <2>3, DrainInFlight
  <2> QED
    BY <1>1, <2>1, <2>2, <2>3, EbpfShape
<1>2. CASE backend = "etw" /\ EtwNext /\ UNCHANGED backend
  <2>0. UNCHANGED monitor
    BY <1>2 DEF EtwNext, Start, StopProcess, ConnectAttempt, CreateFile, CloseFile, WriteFile, EtwCall
  <2> QED
    BY <1>2, <2>0, EtwShape, SilentInFlight, ReportsInFlight
<1>3. CASE MonitorNext /\ UNCHANGED <<ebpfVars, backend, etwVars>>
  BY <1>3, MonitorInFlight
<1>4. CASE UNCHANGED sensorVars
  BY <1>4 DEF sensorVars, monVars, ebpfVars, kernel, etwVars, InFlight, OneStream, Stream
<1> QED
  BY <1>1, <1>2, <1>3, <1>4 DEF SensorsNext

\* So are the other types.
LEMMA TypesKept ==
  ASSUME SensorTypes, InFlight', [SensorsNext]_sensorVars PROVE SensorTypes'
<1> DEFINE Typed == /\ ops' \in Nat /\ dropped' \in Nat /\ UNCHANGED monitor
                    /\ proc' = [p \in Pid |-> proc'[p]] /\ life' \in [Pid -> Nat]
<1>0. /\ ops \in Nat /\ dropped \in Nat /\ life \in [Pid -> Nat] /\ proc = [p \in Pid |-> proc[p]]
      /\ ops + 1 \in Nat
  BY DEF SensorTypes
<1>1. ASSUME EbpfNext PROVE Typed
  <2>1. ASSUME NEW p \in Pid, NEW q \in Pid, Fork(p, q) PROVE Typed
    BY <1>0, <2>1 DEF Fork, Call, monVars
  <2>2. ASSUME NEW p \in Pid, NEW g, Exec(p, g) PROVE Typed
    <3>1. dropped' \in {dropped, dropped + 1}
      BY <2>2 DEF Exec, Submit
    <3>2. /\ ops' = ops + 1 /\ UNCHANGED monitor
          /\ proc' = [proc EXCEPT ![p] = g] /\ life' = [life EXCEPT ![p] = ops + 1]
      BY <2>2 DEF Exec, Call, monVars
    <3> QED
      BY <1>0, <3>1, <3>2
  <2>3. ASSUME NEW p \in Pid, Exit(p) PROVE Typed
    BY <1>0, <2>3 DEF Exit, Call, Submit, monVars
  <2>4. ASSUME NEW p \in Pid, NEW d, Connect(p, d) PROVE Typed
    BY <1>0, <2>4 DEF Connect, Call, Submit, monVars
  <2>5. ASSUME NEW p \in Pid, NEW o, OpenAt(p, o) PROVE Typed
    BY <1>0, <2>5 DEF OpenAt, Call, Submit, monVars
  <2>6. ASSUME NEW p \in Pid, Write(p) PROVE Typed
    BY <1>0, <2>6 DEF Write, Call, Submit, monVars
  <2>7. ASSUME NEW r \in Ring, Drain(r) PROVE Typed
    BY <1>0, <2>7 DEF Drain, kernel
  <2>8. ASSUME StopPolling PROVE Typed
    BY <1>0, <2>8 DEF StopPolling, kernel, monVars
  <2> HIDE DEF Typed
  <2> QED
    BY <1>1, <2>1, <2>2, <2>3, <2>4, <2>5, <2>6, <2>7, <2>8 DEF EbpfNext
<1>2. ASSUME EtwNext PROVE Typed
  <2>1. ASSUME NEW p \in Pid, NEW g, Start(p, g) PROVE Typed
    BY <1>0, <2>1 DEF Start, EtwCall
  <2>2. ASSUME NEW p \in Pid, StopProcess(p) PROVE Typed
    BY <1>0, <2>2 DEF StopProcess, EtwCall
  <2>3. ASSUME NEW p \in Pid, NEW d, ConnectAttempt(p, d) PROVE Typed
    BY <1>0, <2>3 DEF ConnectAttempt, EtwCall
  <2>4. ASSUME NEW f, NEW o, CreateFile(f, o) PROVE Typed
    BY <1>0, <2>4 DEF CreateFile, EtwCall
  <2>5. ASSUME NEW f, CloseFile(f) \/ WriteFile(f) PROVE Typed
    BY <1>0, <2>5 DEF CloseFile, WriteFile, EtwCall
  <2> HIDE DEF Typed
  <2> QED
    BY <1>2, <2>1, <2>2, <2>3, <2>4, <2>5 DEF EtwNext
<1>4. ASSUME MonitorNext, UNCHANGED ebpfVars PROVE Typed
  BY <1>0, <1>4 DEF MonitorNext, Receive, StopMonitor, ebpfVars, kernel
<1>5. ASSUME UNCHANGED sensorVars PROVE Typed
  BY <1>0, <1>5 DEF sensorVars, monVars, ebpfVars, kernel
<1> HIDE DEF Typed
<1>6. Typed
  BY <1>1, <1>2, <1>4, <1>5 DEF SensorsNext
<1>3. lagged' \in BOOLEAN /\ stopped' \in BOOLEAN
  <2>0. lagged \in BOOLEAN /\ stopped \in BOOLEAN
    BY DEF SensorTypes
  <2>1. CASE UNCHANGED <<lagged, stopped>>
    BY <2>0, <2>1
  <2>2. CASE stopped' = TRUE /\ UNCHANGED lagged
    BY <2>0, <2>2
  <2>3. CASE \E e : Publish(e) /\ UNCHANGED stopped
    BY <2>0, <2>3 DEF Publish
  <2> QED
    BY <2>1, <2>2, <2>3 DEF SensorsNext, EbpfNext, Fork, Exec, Exit, Connect, OpenAt, Write, Call, Drain,
     StopPolling, EtwNext, Start, StopProcess, ConnectAttempt, CreateFile, CloseFile, WriteFile,
     EtwCall, Observed, MonitorNext, Receive, StopMonitor, sensorVars, monVars
<1> QED
  BY <1>0, <1>3, <1>6 DEF SensorTypes, InFlight, Typed

\* They hold at the start.
LEMMA InFlightInit == SensorsInit => SensorTypes /\ InFlight
<1> SUFFICES ASSUME SensorsInit PROVE SensorTypes /\ InFlight
  OBVIOUS
<1> USE DEF SensorsInit, MonitorInit, EbpfInit, EtwInit
<1>1. \A n, m : Queue(<<>>, n, m)
  BY NoneYet DEF Queue
<1>2. /\ rings = [r \in Ring |-> <<>>] /\ \A r \in Ring : rings[r] = <<>>
      /\ handled = <<>> /\ backlog = <<>> /\ Len(backlog) <= BusCap
  BY NoneYet, BusSizes
<1>3. Stream(<<>>, <<>>, <<>>) /\ RingOf(monitor) \in Ring
  BY NoneYet DEF Stream, InOrder, Before, RingOf, Ring
<1>4. InFlight
  BY <1>1, <1>2, <1>3 DEF InFlight, OneStream
<1>5. ops \in Nat /\ dropped \in Nat /\ life \in [Pid -> Nat] /\ monitor \in Monitor
      /\ lagged \in BOOLEAN /\ stopped \in BOOLEAN
  OBVIOUS
<1>6. proc = [p \in Pid |-> proc[p]]
  OBVIOUS
<1> QED
  BY <1>4, <1>5, <1>6 DEF SensorTypes, InFlight

(***************************************************************************)
(* What a monitor reports of what it has received.                         *)
(***************************************************************************)

\* Only the monitor itself changes what it keeps.
LEMMA OnlyReceive ==
  ASSUME [SensorsNext]_sensorVars
  PROVE  \/ UNCHANGED <<monitor, handled, records, table, seen>>
         \/ Receive /\ UNCHANGED <<ebpfVars, backend, etwVars>>
<1>1. EbpfNext => UNCHANGED <<monitor, handled, records, table, seen>>
  BY DEF EbpfNext, Fork, Exec, Exit, Connect, OpenAt, Write, Call, Drain, StopPolling, monVars
<1>2. EtwNext => UNCHANGED <<monitor, handled, records, table, seen>>
  BY DEF EtwNext, Start, StopProcess, ConnectAttempt, CreateFile, CloseFile, WriteFile, EtwCall
<1>3. StopMonitor => UNCHANGED <<monitor, handled, records, table, seen>>
  BY DEF StopMonitor
<1> QED
  BY <1>1, <1>2, <1>3 DEF SensorsNext, MonitorNext, sensorVars, monVars

\* The handler of a monitor is the arm of its name, or ignores the event.
LEMMA Dispatched ==
  ASSUME NEW e, HandleEvent(e)
  PROVE  /\ monitor = "procmon" /\ e.kind \in Handles(monitor) => ProcMon(e)
         /\ monitor = "netmon" /\ e.kind \in Handles(monitor) => NetMon(e)
         /\ monitor = "aiusage" /\ e.kind \in Handles(monitor) => AiUsage(e)
         /\ monitor = "filemon" =>
              FileMon(e) \/ (e.kind \notin {"open", "write"} /\ UNCHANGED <<records, table, seen>>)
         /\ monitor = "libload" =>
              LibLoad(e) \/ (e.kind # "open" /\ UNCHANGED <<records, table, seen>>)
  BY DEF HandleEvent, Handles

\* A handler emits one record or none.
LEMMA OneRecord ==
  ASSUME NEW e, HandleEvent(e)
  PROVE  UNCHANGED records \/ \E x : records' = Append(records, x)
  BY DEF HandleEvent, ProcMon, ProcExec, ProcExit, NetMon, NetConnect, FileMon, FileActivity, AiUsage,
     AiExec, AiExit, AiConnect, LibLoad, LibOpen, EmitRecord

\* netmon has a record for each connection it has heard of.
NetTrue(h, r) == Len(r) = Len(h) /\ \A i \in 1..Len(h) : r[i].n = h[i].n

\* libload has one record for each path it has seen, and has seen every library.
LibTrue(h, r, s) ==
  /\ \A i \in 1..Len(r) : r[i].path \in s
  /\ \A i, j \in 1..Len(r) : r[i].path = r[j].path => i = j
  /\ \A p \in s : \E i \in 1..Len(r) : r[i].path = p
  /\ \A i \in 1..Len(h) : h[i].kind = "open" /\ h[i].path.lib => h[i].path \in s

\* filemon has a record for each event that a rule flags and that is not ignored.
Flagged(e) ==
  /\ e.kind \in {"open", "write"} /\ AssessFile(e.path, e.kind = "write") # {}
  /\ Fragments(e.path) \cap Ignore = {} /\ e.path.ext \notin IgnoreExt
FileTrue(h, r) == \A i \in 1..Len(h) : Flagged(h[i]) => \E k \in 1..Len(r) : r[k].n = h[i].n

\* What netmon, libload and filemon have reported.
Reported ==
  /\ IsSeq(records)
  /\ monitor = "netmon" => NetTrue(handled, records)
  /\ monitor = "libload" => LibTrue(handled, records, seen)
  /\ monitor = "filemon" => FileTrue(handled, records)

\* A path that a rule is about is on the watch list: what is sensitive to read lies
\* under a sensitive directory.
LEMMA FlaggedConsidered ==
  ASSUME NEW e, Flagged(e) PROVE Considers(e.path)
<1> DEFINE F == Fragments(e.path)
<1>1. F \cap SensitiveRead # {} => F \cap SensitiveConfig # {}
  BY DEF Fragments, SensitiveRead, SensitiveConfig
<1>3. SystemDirs \subseteq Watch /\ Persistence \subseteq Watch /\ SensitiveConfig \subseteq Watch
  BY DEF SystemDirs, Persistence, SensitiveConfig, Watch
<1>4. AssessFile(e.path, e.kind = "write") # {} =>
        F \cap SystemDirs # {} \/ F \cap Persistence # {} \/ F \cap SensitiveConfig # {} \/ F \cap SensitiveRead # {}
  BY DEF AssessFile
<1>2. AssessFile(e.path, e.kind = "write") # {} => F \cap Watch # {}
  BY <1>1, <1>3, <1>4
<1> QED
  BY <1>2 DEF Flagged, Considers

\* The three records of what was reported, one event later.
LEMMA NetReported ==
  ASSUME NEW h, NEW r, IsSeq(h), IsSeq(r), NetTrue(h, r), NEW e, NEW x, x.n = e.n
  PROVE  NetTrue(Append(h, e), Append(r, x))
  BY Grown DEF NetTrue

\* A library that was not seen is reported, once.
LEMMA LibReported ==
  ASSUME NEW h, NEW r, NEW s, IsSeq(h), IsSeq(r), LibTrue(h, r, s), NEW e, NEW x
  PROVE  /\ (e.kind = "open" /\ e.path.lib => e.path \in s) => LibTrue(Append(h, e), r, s)
         /\ x.path = e.path /\ e.path \notin s =>
              LibTrue(Append(h, e), Append(r, x), s \cup {e.path})
<1> DEFINE g == Append(h, e)
           q == Append(r, x)
<1>1. /\ Len(h) \in Nat /\ Len(g) = Len(h) + 1
      /\ \A i \in 1..Len(h) : g[i] = h[i]
      /\ g[Len(h) + 1] = e
  BY Grown
<1>2. /\ Len(r) \in Nat /\ Len(q) = Len(r) + 1
      /\ \A i \in 1..Len(r) : q[i] = r[i]
      /\ q[Len(r) + 1] = x
  BY Grown
<1> HIDE DEF g, q
<1>3. ASSUME e.kind = "open" /\ e.path.lib => e.path \in s PROVE LibTrue(g, r, s)
  BY <1>1, <1>3 DEF LibTrue
<1>4. ASSUME x.path = e.path, e.path \notin s PROVE LibTrue(g, q, s \cup {e.path})
  <2> DEFINE s2 == s \cup {e.path}
  <2>1. \A i \in 1..Len(q) : i \in 1..Len(r) \/ (i = Len(r) + 1 /\ q[i] = x)
    BY <1>2
  <2>2. \A i \in 1..Len(q) : q[i].path \in s2
    BY <1>2, <1>4, <2>1 DEF LibTrue
  <2>3. \A i, j \in 1..Len(q) : q[i].path = q[j].path => i = j
    BY <1>2, <1>4, <2>1 DEF LibTrue
  <2>4. \A p \in s2 : \E i \in 1..Len(q) : q[i].path = p
    <3>1. ASSUME NEW p \in s PROVE \E i \in 1..Len(q) : q[i].path = p
      <4>1. PICK i \in 1..Len(r) : r[i].path = p
        BY DEF LibTrue
      <4> QED
        BY <1>2, <4>1
    <3>2. Len(r) + 1 \in 1..Len(q)
      BY <1>2
    <3> QED
      BY <1>2, <1>4, <3>1, <3>2
  <2>5. \A i \in 1..Len(g) : g[i].kind = "open" /\ g[i].path.lib => g[i].path \in s2
    <3>1. \A i \in 1..Len(g) : i \in 1..Len(h) \/ g[i] = e
      BY <1>1
    <3> QED
      BY <1>1, <3>1 DEF LibTrue
  <2> QED
    BY <2>2, <2>3, <2>4, <2>5 DEF LibTrue
<1> QED
  BY <1>3, <1>4 DEF g, q

\* What is flagged is reported.
LEMMA FileReported ==
  ASSUME NEW h, NEW r, IsSeq(h), IsSeq(r), FileTrue(h, r), NEW e, NEW x
  PROVE  /\ ~Flagged(e) => FileTrue(Append(h, e), r)
         /\ x.n = e.n => FileTrue(Append(h, e), Append(r, x))
         /\ FileTrue(h, Append(r, x))
<1> DEFINE g == Append(h, e)
           q == Append(r, x)
<1>1. /\ Len(h) \in Nat /\ Len(g) = Len(h) + 1
      /\ \A i \in 1..Len(h) : g[i] = h[i]
      /\ g[Len(h) + 1] = e
  BY Grown
<1>2. /\ Len(r) \in Nat /\ Len(q) = Len(r) + 1
      /\ \A i \in 1..Len(r) : q[i] = r[i]
      /\ q[Len(r) + 1] = x
  BY Grown
<1> HIDE DEF g, q
<1>3. \A i \in 1..Len(g) : i \in 1..Len(h) \/ g[i] = e
  BY <1>1
<1>4. ASSUME NEW k, \E i \in 1..Len(r) : r[i].n = k PROVE \E i \in 1..Len(q) : q[i].n = k
  <2>1. PICK i \in 1..Len(r) : r[i].n = k
    BY <1>4
  <2> QED
    BY <1>2, <2>1
<1>5. ~Flagged(e) => FileTrue(g, r)
  BY <1>1, <1>3 DEF FileTrue
<1>6. FileTrue(h, q)
  BY <1>4 DEF FileTrue
<1>7. ASSUME x.n = e.n PROVE FileTrue(g, q)
  <2>1. Len(r) + 1 \in 1..Len(q) /\ q[Len(r) + 1].n = e.n
    BY <1>2, <1>7
  <2> QED
    BY <1>1, <1>3, <1>6, <2>1 DEF FileTrue
<1> QED
  BY <1>5, <1>6, <1>7 DEF g, q

\* Nothing that was reported is lost, and nothing reported twice.
LEMMA ReportedKept ==
  ASSUME SensorTypes, InFlight, Reported, [SensorsNext]_sensorVars PROVE Reported'
<1>1. CASE UNCHANGED <<monitor, handled, records, table, seen>>
  BY <1>1 DEF Reported
<1>2. CASE Receive
  <2> DEFINE e == Head(backlog)
  <2>0. /\ backlog # <<>> /\ HandleEvent(e) /\ handled' = Append(handled, e) /\ UNCHANGED monitor
        /\ IsSeq(handled) /\ IsSeq(records)
    BY <1>2 DEF Receive, InFlight, Queue, Reported
  <2>1. Expected(monitor, e)
    BY <2>0, QueueTaken DEF InFlight
  <2> HIDE DEF e
  <2>2. IsSeq(records')
    <3>1. UNCHANGED records \/ \E x : records' = Append(records, x)
      BY <2>0, OneRecord
    <3>2. CASE UNCHANGED records
      BY <2>0, <3>2
    <3>3. ASSUME NEW x, records' = Append(records, x) PROVE IsSeq(records')
      BY <2>0, <3>3, Grown
    <3> QED
      BY <3>1, <3>2, <3>3
  <2>3. ASSUME monitor = "netmon" PROVE NetTrue(handled', records')
    <3>1. NetMon(e)
      BY <2>0, <2>1, <2>3, Dispatched DEF Expected
    <3> DEFINE x == [n |-> e.n, kind |-> "connect", pid |-> e.pid,
                     severity |-> Severity(AssessConnect(e.addr, e.port))]
    <3>2. records' = Append(records, x) /\ x.n = e.n
      BY <3>1 DEF NetMon, NetConnect, EmitRecord
    <3> HIDE DEF x
    <3> QED
      BY <2>0, <2>3, <3>2, NetReported DEF Reported
  <2>4. ASSUME monitor = "libload" PROVE LibTrue(handled', records', seen')
    <3>0. LibTrue(handled, records, seen)
      BY <2>4 DEF Reported
    <3>1. CASE e.kind # "open" /\ UNCHANGED <<records, table, seen>>
      BY <2>0, <3>0, <3>1, LibReported
    <3>2. CASE LibLoad(e) /\ e.path.lib /\ e.path \notin seen
      <4> DEFINE x == [n |-> e.n, kind |-> "load", path |-> e.path, severity |-> Informational]
      <4>1. records' = Append(records, x) /\ seen' = seen \cup {e.path} /\ x.path = e.path
        BY <3>2 DEF LibLoad, LibOpen, EmitRecord
      <4> HIDE DEF x
      <4> QED
        BY <2>0, <3>0, <3>2, <4>1, LibReported
    <3>3. CASE LibLoad(e) /\ ~(e.path.lib /\ e.path \notin seen)
      <4>1. UNCHANGED <<records, seen>>
        BY <3>3 DEF LibLoad, LibOpen
      <4> QED
        BY <2>0, <3>0, <3>3, <4>1, LibReported
    <3> QED
      BY <2>0, <2>4, <3>1, <3>2, <3>3, Dispatched
  <2>5. ASSUME monitor = "filemon" PROVE FileTrue(handled', records')
    <3>0. FileTrue(handled, records)
      BY <2>5 DEF Reported
    <3>1. CASE ~Flagged(e) /\ UNCHANGED records
      BY <2>0, <3>0, <3>1, FileReported
    <3>2. CASE \E x : records' = Append(records, x) /\ x.n = e.n
      BY <2>0, <3>0, <3>2, FileReported
    <3>3. UNCHANGED records => ~Flagged(e) \/ \E x : records' = Append(records, x) /\ x.n = e.n
      <4>1. CASE FileMon(e) /\ Flagged(e)
        <5> DEFINE x == [n |-> e.n, kind |-> e.kind, pid |-> e.pid,
                         severity |-> Severity(AssessFile(e.path, e.kind = "write"))]
        <5>1. records' = Append(records, x) /\ x.n = e.n
          BY <4>1, FlaggedConsidered DEF FileMon, FileActivity, EmitRecord, Flagged
        <5> QED
          BY <5>1
      <4>2. CASE e.kind \notin {"open", "write"}
        BY <4>2 DEF Flagged
      <4> QED
        BY <2>0, <2>5, <4>1, <4>2, Dispatched
    <3>4. UNCHANGED records \/ \E x : records' = Append(records, x) /\ x.n = e.n
      <4>1. CASE FileMon(e)
        <5> DEFINE x == [n |-> e.n, kind |-> e.kind, pid |-> e.pid,
                         severity |-> Severity(AssessFile(e.path, e.kind = "write"))]
        <5>1. UNCHANGED records \/ (records' = Append(records, x) /\ x.n = e.n)
          BY <4>1 DEF FileMon, FileActivity, EmitRecord
        <5> QED
          BY <5>1
      <4> QED
        BY <2>0, <2>5, <4>1, Dispatched
    <3> QED
      BY <3>1, <3>2, <3>3, <3>4
  <2> QED
    BY <2>0, <2>2, <2>3, <2>4, <2>5 DEF Reported
<1> QED
  BY <1>1, <1>2, OnlyReceive

\* At the start there is nothing to report.
LEMMA ReportedInit == SensorsInit => Reported
  BY NoneYet DEF SensorsInit, MonitorInit, Reported, NetTrue, LibTrue, FileTrue

\* A set in which exactly one number has a property has one element.
LEMMA ExactlyOne ==
  ASSUME NEW S, NEW k \in S, \A i \in S : i = k PROVE Cardinality(S) = 1
<1>1. S = {k}
  OBVIOUS
<1> QED
  BY <1>1, FS_Singleton

\* What netmon, libload and filemon promise follows.
LEMMA ReportedEnough == SensorTypes /\ InFlight /\ Reported => EventsReported
<1> SUFFICES ASSUME SensorTypes, InFlight, Reported PROVE EventsReported
  OBVIOUS
<1>1. ASSUME monitor = "libload", NEW i \in Seen("open"), handled[i].path.lib
      PROVE  Cardinality({r \in 1..Len(records) : records[r].path = handled[i].path}) = 1
  <2>1. PICK k \in 1..Len(records) : records[k].path = handled[i].path
    BY <1>1 DEF Reported, LibTrue, Seen
  <2>2. \A j \in 1..Len(records) : records[j].path = handled[i].path => j = k
    BY <1>1, <2>1 DEF Reported, LibTrue
  <2> QED
    BY <2>1, <2>2, ExactlyOne
<1>2. FlaggedReported
  BY DEF FlaggedReported, Reported, FileTrue, Flagged, Seen
<1>3. ConnectsInOrder
  BY DEF ConnectsInOrder, Reported, NetTrue, InFlight, OneStream, Stream, InOrder
<1> QED
  BY <1>1, <1>2, <1>3 DEF EventsReported, LibraryOnce

\* EventsReported, for every set of programs, destinations, files and capacities: libload
\* reports each library it hears of once, filemon's watch list hides nothing that a rule
\* flags, and netmon's records are in the order the connections were made, however the
\* drain threads are scheduled.
THEOREM EverythingReported == SensorsSpec => []EventsReported
<1>1. SensorsInit => SensorTypes /\ InFlight /\ Reported
  BY InFlightInit, ReportedInit
<1>2. SensorTypes /\ InFlight /\ Reported /\ [SensorsNext]_sensorVars
        => (SensorTypes /\ InFlight /\ Reported)'
  BY InFlightKept, TypesKept, ReportedKept
<1>3. SensorTypes /\ InFlight /\ Reported => EventsReported
  BY ReportedEnough
<1> QED
  BY <1>1, <1>2, <1>3, PTL DEF SensorsSpec
(***************************************************************************)
(* The file name cache.                                                    *)
(***************************************************************************)

\* What maps one to one into a finite set is no larger.
LEMMA NoLarger ==
  ASSUME NEW S, NEW T, IsFiniteSet(T), NEW f \in [S -> T],
         \A x, y \in S : f[x] = f[y] => x = y
  PROVE  IsFiniteSet(S) /\ Cardinality(S) <= Cardinality(T)
<1>1. f \in Injection(S, T)
  BY DEF Injection, IsInjective
<1> QED
  BY <1>1, FS_Injection

\* What is forgotten is gone, and nothing else changes.
LEMMA Forgotten ==
  ASSUME NEW t, NEW p
  PROVE  /\ DOMAIN Forget(t, p) = DOMAIN t \ {p}
         /\ \A q \in DOMAIN t \ {p} : Forget(t, p)[q] = t[q]
  BY DEF Forget, Restrict

\* What is put in is there, and nothing else changes.
LEMMA Kept ==
  ASSUME NEW t, NEW p, NEW v
  PROVE  /\ DOMAIN Put(t, p, v) = DOMAIN t \cup {p}
         /\ Put(t, p, v)[p] = v
         /\ \A q \in DOMAIN t \ {p} : Put(t, p, v)[q] = t[q]
  BY DEF Put

\* Each key of the map has a token in the deque.
Tokens(D, o) == \A k \in D : \E i \in 1..Len(o) : o[i] = k
Bounded(D, n) == IsFiniteSet(D) /\ Cardinality(D) \in Nat /\ Cardinality(D) <= n

\* A key that joins has a token at the end of the deque.
LEMMA TokenAdded ==
  ASSUME NEW D, NEW o, IsSeq(o), Tokens(D, o), NEW k
  PROVE  Tokens(D \cup {k}, Append(o, k))
<1> DEFINE u == Append(o, k)
<1>1. /\ Len(o) \in Nat /\ Len(u) = Len(o) + 1
      /\ \A i \in 1..Len(o) : u[i] = o[i]
      /\ u[Len(o) + 1] = k
  BY Grown
<1> HIDE DEF u
<1>2. \A i \in 1..Len(o) : i \in 1..Len(u)
  BY <1>1
<1>3. Len(o) + 1 \in 1..Len(u)
  BY <1>1
<1>4. \A x \in D : \E i \in 1..Len(u) : u[i] = x
  BY <1>1, <1>2 DEF Tokens
<1> QED
  BY <1>1, <1>3, <1>4 DEF Tokens, u

\* Eviction takes one key, and leaves every other a token.
LEMMA EvictedFacts ==
  ASSUME NEW m, NEW o, IsSeq(o), Tokens(DOMAIN m, o), DOMAIN m # {}
  PROVE  \E k \in DOMAIN m :
           /\ Evicted(m, o).map = Forget(m, k)
           /\ IsSeq(Evicted(m, o).order) /\ Len(Evicted(m, o).order) <= Len(o)
           /\ Tokens(DOMAIN m \ {k}, Evicted(m, o).order)
<1> DEFINE live == {j \in 1..Len(o) : o[j] \in DOMAIN m} \cup {Len(o) + 1}
           i == Min(live)
           u == SubSeq(o, i + 1, Len(o))
<1>1. o \in Seq(Range(o)) /\ Len(o) \in Nat
  BY DEF IsSeq
<1>2. live \subseteq Nat /\ live # {}
  BY <1>1
<1>3. i \in live /\ \A j \in live : i <= j
  BY <1>2, LeastNat DEF Min
<1>4. PICK w \in 1..Len(o) : o[w] \in DOMAIN m
  BY DEF Tokens
<1>5. i \in 1..Len(o) /\ o[i] \in DOMAIN m
  BY <1>1, <1>3, <1>4
<1>a. Evicted(m, o) = [map |-> IF i > Len(o) THEN m ELSE Forget(m, o[i]), order |-> u]
  BY DEF Evicted
<1> HIDE DEF i, live
<1>b. ~(i > Len(o))
  BY <1>1, <1>5
<1>6. Evicted(m, o).map = Forget(m, o[i]) /\ Evicted(m, o).order = u
  <2> HIDE DEF u
  <2> QED
    BY <1>a, <1>b
<1>7. /\ u \in Seq(Range(o)) /\ Len(u) = Len(o) - i
      /\ \A j \in 1..Len(u) : u[j] = o[i + j]
  BY <1>1, <1>5
<1>8. IsSeq(u) /\ Len(u) <= Len(o)
  <2> HIDE DEF u
  <2>1. DOMAIN u = 1..Len(u) /\ Len(u) \in Nat /\ u = [j \in 1..Len(u) |-> u[j]]
    BY <1>7
  <2>2. u \in [1..Len(u) -> Range(u)]
    BY <2>1 DEF Range
  <2>3. Len(o) - i <= Len(o)
    BY <1>1, <1>5
  <2> QED
    BY <1>7, <2>1, <2>2, <2>3 DEF IsSeq
<1>9. ASSUME NEW k \in DOMAIN m \ {o[i]} PROVE \E j \in 1..Len(u) : u[j] = k
  <2>1. PICK j \in 1..Len(o) : o[j] = k
    BY DEF Tokens
  <2>2. j > i
    <3>1. j \in live /\ j # i
      BY <2>1 DEF live
    <3> QED
      BY <1>1, <1>3, <1>5, <3>1
  <2>3. j - i \in 1..Len(u) /\ i + (j - i) = j
    BY <1>1, <1>5, <1>7, <2>2
  <2> QED
    BY <1>7, <2>1, <2>3
<1> HIDE DEF u
<1> QED
  BY <1>5, <1>6, <1>8, <1>9 DEF Tokens

\* Compaction keeps the last token of each key, so it keeps no more than there are keys.
LEMMA CompactedFacts ==
  ASSUME NEW m, NEW o, IsSeq(o), Tokens(DOMAIN m, o), NEW n \in Nat, Bounded(DOMAIN m, n)
  PROVE  /\ IsSeq(Compacted(m, o)) /\ Len(Compacted(m, o)) <= n
         /\ Tokens(DOMAIN m, Compacted(m, o))
<1> DEFINE keep == {i \in 1..Len(o) : /\ o[i] \in DOMAIN m
                                      /\ \A j \in (i + 1)..Len(o) : o[j] # o[i]}
           s == [i \in 1..Len(o) |-> i]
           pos == Filter(s, keep)
           u == [k \in 1..Len(pos) |-> o[pos[k]]]
<1>0. Len(o) \in Nat
  BY DEF IsSeq
<1>1. s \in Seq(Nat) /\ Len(s) = Len(o) /\ \A i \in 1..Len(o) : s[i] = i
  BY <1>0
<1> HIDE DEF s
<1>2. /\ pos \in Seq(Nat)
      /\ \E f \in [1..Len(pos) -> 1..Len(s)] : Embeds(f, pos, s, Len(s), keep)
  BY <1>1, FilterFacts
<1>3. PICK f \in [1..Len(pos) -> 1..Len(s)] : Embeds(f, pos, s, Len(s), keep)
  BY <1>2
<1> HIDE DEF pos
<1>4. \A k \in 1..Len(pos) : pos[k] = f[k] /\ pos[k] \in keep
  BY <1>1, <1>3 DEF Embeds
<1>5. \A k, l \in 1..Len(pos) : k < l => pos[k] < pos[l]
  BY <1>3, <1>4 DEF Embeds
<1>6. ASSUME NEW i \in keep PROVE \E k \in 1..Len(pos) : pos[k] = i
  <2>1. i \in 1..Len(s) /\ s[i] \in keep
    BY <1>1
  <2> HIDE DEF keep
  <2>2. PICK k \in 1..Len(pos) : f[k] = i
    BY <1>3, <2>1 DEF Embeds
  <2> QED
    BY <1>4, <2>2
<1>7. Compacted(m, o) = u
  BY DEF Compacted, pos, s
<1>8. Len(pos) \in Nat /\ DOMAIN u = 1..Len(pos) /\ \A k \in 1..Len(pos) : u[k] = o[pos[k]]
  BY <1>2
<1>9. Len(u) = Len(pos) /\ IsSeq(u)
  <2>1. u \in [1..Len(pos) -> Range(u)]
    BY <1>8 DEF Range
  <2> HIDE DEF u
  <2>2. u \in Seq(Range(u))
    BY <1>8, <2>1
  <2> QED
    BY <1>8, <2>2 DEF IsSeq
<1> HIDE DEF u
<1>10. Len(u) <= n
  <2>1. u \in [1..Len(pos) -> DOMAIN m]
    <3>1. \A k \in 1..Len(pos) : u[k] \in DOMAIN m
      BY <1>4, <1>8
    <3> QED
      BY <1>8, <3>1 DEF u
  <2>2. ASSUME NEW k \in 1..Len(pos), NEW l \in 1..Len(pos), u[k] = u[l], k < l PROVE FALSE
    <3>1. pos[k] < pos[l] /\ pos[k] \in keep /\ pos[l] \in keep
      BY <1>4, <1>5, <2>2
    <3>2. pos[l] \in (pos[k] + 1)..Len(o)
      BY <1>0, <3>1
    <3> QED
      BY <1>8, <2>2, <3>1, <3>2
  <2>3. \A k, l \in 1..Len(pos) : u[k] = u[l] => k = l
    BY <1>8, <2>2
  <2>4. Cardinality(1..Len(pos)) <= Cardinality(DOMAIN m)
    BY <2>1, <2>3, NoLarger DEF Bounded
  <2>5. Cardinality(1..Len(pos)) = Len(pos)
    <3>1. 1 \in Int /\ Len(pos) \in Int
      BY <1>8
    <3>2. Cardinality(1..Len(pos)) = IF 1 > Len(pos) THEN 0 ELSE Len(pos) - 1 + 1
      BY <3>1, FS_Interval
    <3> QED
      BY <1>8, <3>2
  <2> QED
    BY <1>8, <1>9, <2>4, <2>5 DEF Bounded
<1>11. ASSUME NEW k \in DOMAIN m PROVE \E j \in 1..Len(u) : u[j] = k
  <2> DEFINE back == {b \in 0..Len(o) : Len(o) - b \in 1..Len(o) /\ o[Len(o) - b] = k}
  <2>1. PICK i \in 1..Len(o) : o[i] = k
    BY DEF Tokens
  <2>2. Len(o) - i \in back /\ back \subseteq Nat
    BY <1>0, <2>1
  <2>3. PICK b \in back : \A c \in back : b <= c
    BY <2>2, LeastNat
  <2>4. Len(o) - b \in 1..Len(o) /\ o[Len(o) - b] = k
    OBVIOUS
  <2>5. ASSUME NEW j \in ((Len(o) - b) + 1)..Len(o), o[j] = k PROVE FALSE
    <3>1. Len(o) - j \in back
      BY <1>0, <2>4, <2>5
    <3>2. b \in Int /\ j \in Int /\ j >= (Len(o) - b) + 1
      BY <1>0, <2>4
    <3>3. b <= Len(o) - j
      <4> HIDE DEF back
      <4> QED
        BY <2>3, <3>1
    <3> QED
      BY <1>0, <3>2, <3>3
  <2>6. Len(o) - b \in keep
    BY <2>4, <2>5
  <2>7. PICK j \in 1..Len(pos) : pos[j] = Len(o) - b
    BY <1>6, <2>6
  <2> QED
    BY <1>8, <1>9, <2>4, <2>7
<1> QED
  BY <1>7, <1>9, <1>10, <1>11 DEF Tokens

\* The cache and its deque.
CacheOk(c, o) ==
  /\ Bounded(DOMAIN c, CacheCap) /\ IsSeq(o) /\ Len(o) <= OrderCap /\ Tokens(DOMAIN c, o)

\* insert: the bounds hold, the key has the path, and no other key has a new one.
LEMMA Inserted ==
  ASSUME CacheOk(cache, order), NEW fo, NEW path, InsertFile(fo, path)
  PROVE  /\ CacheOk(cache', order')
         /\ fo \in DOMAIN cache' /\ cache'[fo] = path
         /\ \A k \in DOMAIN cache' \ {fo} : k \in DOMAIN cache /\ cache'[k] = cache[k]
<1> DEFINE full == fo \notin DOMAIN cache /\ Cardinality(DOMAIN cache) >= CacheCap
           room == IF full THEN Evicted(cache, order) ELSE [map |-> cache, order |-> order]
           c == room.map
           o == room.order
           m == Put(c, fo, path)
           u == Append(o, fo)
<1>0. CacheCap \in Nat /\ CacheCap >= 1 /\ CacheCap <= OrderCap /\ OrderCap \in Nat
  BY CacheSize DEF OrderCap
<1>1. cache' = m /\ order' = IF Len(u) > OrderCap THEN Compacted(m, u) ELSE u
  BY DEF InsertFile
<1>2. /\ IsFiniteSet(DOMAIN c) /\ Cardinality(DOMAIN c) \in Nat
      /\ Cardinality(DOMAIN c \cup {fo}) <= CacheCap
      /\ DOMAIN c \subseteq DOMAIN cache /\ \A k \in DOMAIN c : c[k] = cache[k]
      /\ IsSeq(o) /\ Len(o) <= OrderCap /\ Tokens(DOMAIN c, o)
  <2>0. /\ IsFiniteSet(DOMAIN cache) /\ Cardinality(DOMAIN cache) \in Nat
        /\ Cardinality(DOMAIN cache) <= CacheCap
        /\ IsSeq(order) /\ Len(order) <= OrderCap /\ Tokens(DOMAIN cache, order)
        /\ Len(order) \in Nat
    BY Grown DEF CacheOk, Bounded
  <2>1. CASE full
    <3>1. DOMAIN cache # {}
      BY <1>0, <2>1, FS_EmptySet
    <3>2. PICK k \in DOMAIN cache :
            /\ Evicted(cache, order).map = Forget(cache, k)
            /\ IsSeq(Evicted(cache, order).order) /\ Len(Evicted(cache, order).order) <= Len(order)
            /\ Tokens(DOMAIN cache \ {k}, Evicted(cache, order).order)
      BY <2>0, <3>1, EvictedFacts
    <3>3. c = Forget(cache, k) /\ o = Evicted(cache, order).order
      BY <2>1, <3>2
    <3> HIDE DEF c, o
    <3>4. DOMAIN c = DOMAIN cache \ {k} /\ \A q \in DOMAIN cache \ {k} : c[q] = cache[q]
      BY <3>3, Forgotten
    <3>5. IsFiniteSet(DOMAIN c) /\ Cardinality(DOMAIN c) = Cardinality(DOMAIN cache) - 1
      BY <2>0, <3>4, FS_RemoveElement
    <3>6. Cardinality(DOMAIN c \cup {fo}) <= Cardinality(DOMAIN c) + 1
      <4>1. Cardinality(DOMAIN c \cup {fo}) =
              IF fo \in DOMAIN c THEN Cardinality(DOMAIN c) ELSE Cardinality(DOMAIN c) + 1
        BY <3>5, FS_AddElement
      <4> QED
        BY <2>0, <3>5, <4>1
    <3>7. Cardinality(DOMAIN c) \in Nat
      BY <3>5, FS_CardinalityType
    <3>8. Cardinality(DOMAIN c \cup {fo}) \in Nat
      BY <3>5, FS_AddElement, FS_CardinalityType
    <3>9. Len(o) <= OrderCap
      <4>1. Len(o) \in Nat
        BY <3>2, <3>3, Grown
      <4> QED
        BY <1>0, <2>0, <3>2, <3>3, <4>1
    <3>10. Cardinality(DOMAIN c \cup {fo}) <= CacheCap
      BY <1>0, <2>0, <3>5, <3>6, <3>7, <3>8
    <3> QED
      BY <3>2, <3>3, <3>4, <3>5, <3>7, <3>9, <3>10
  <2>2. CASE ~full
    <3>1. c = cache /\ o = order
      BY <2>2
    <3>2. Cardinality(DOMAIN cache \cup {fo}) =
              IF fo \in DOMAIN cache THEN Cardinality(DOMAIN cache) ELSE Cardinality(DOMAIN cache) + 1
      BY <2>0, FS_AddElement
    <3>3. Cardinality(DOMAIN cache \cup {fo}) <= CacheCap
      BY <1>0, <2>0, <2>2, <3>2
    <3> QED
      BY <2>0, <3>1, <3>3
  <2> QED
    BY <2>1, <2>2
<1> HIDE DEF full, room, c, o
<1>3. DOMAIN m = DOMAIN c \cup {fo} /\ m[fo] = path /\ \A k \in DOMAIN c \ {fo} : m[k] = c[k]
  BY DEF Put
<1>4. Bounded(DOMAIN m, CacheCap)
  BY <1>2, <1>3, FS_AddElement, FS_CardinalityType, SMTT(30) DEF Bounded
<1>5. IsSeq(u) /\ Tokens(DOMAIN m, u) /\ Len(u) \in Nat
  <2>1. IsSeq(u)
    BY <1>2, Grown
  <2>2. Tokens(DOMAIN m, u)
    BY <1>2, <1>3, TokenAdded
  <2>3. Len(u) \in Nat
    BY <2>1, Grown
  <2> QED
    BY <2>1, <2>2, <2>3
<1> HIDE DEF m, u
<1>6. IsSeq(order') /\ Len(order') <= OrderCap /\ Tokens(DOMAIN m, order')
  <2>1. CASE Len(u) > OrderCap
    <3>1. IsSeq(Compacted(m, u)) /\ Len(Compacted(m, u)) <= CacheCap /\ Tokens(DOMAIN m, Compacted(m, u))
      BY <1>0, <1>4, <1>5, CompactedFacts
    <3>2. Len(Compacted(m, u)) \in Nat
      BY <3>1, Grown
    <3> QED
      BY <1>0, <1>1, <2>1, <3>1, <3>2
  <2>2. CASE ~(Len(u) > OrderCap)
    BY <1>0, <1>1, <1>5, <2>2
  <2> QED
    BY <2>1, <2>2
<1>7. CacheOk(cache', order')
  BY <1>1, <1>4, <1>6 DEF CacheOk
<1> QED
  BY <1>1, <1>2, <1>3, <1>7

\* remove: the bounds hold, the key is gone, and no other key has a new path.
LEMMA Removed ==
  ASSUME CacheOk(cache, order), NEW fo, RemoveFile(fo)
  PROVE  /\ CacheOk(cache', order')
         /\ \A k \in DOMAIN cache' : k \in DOMAIN cache /\ k # fo /\ cache'[k] = cache[k]
<1>1. /\ cache' = Forget(cache, fo) /\ order' = order
      /\ DOMAIN cache' = DOMAIN cache \ {fo} /\ \A k \in DOMAIN cache \ {fo} : cache'[k] = cache[k]
  BY Forgotten DEF RemoveFile
<1>2. IsFiniteSet(DOMAIN cache) /\ Cardinality(DOMAIN cache) \in Nat /\ Cardinality(DOMAIN cache) <= CacheCap
  BY DEF CacheOk, Bounded
<1>3. IsFiniteSet(DOMAIN cache') /\ Cardinality(DOMAIN cache') <= Cardinality(DOMAIN cache)
  BY <1>1, <1>2, FS_Subset
<1>4. Cardinality(DOMAIN cache') \in Nat
  BY <1>3, FS_CardinalityType
<1>5. Bounded(DOMAIN cache', CacheCap)
  BY <1>2, <1>3, <1>4, CacheSize DEF Bounded
<1> QED
  BY <1>1, <1>5 DEF CacheOk, Tokens
\* A write that is reported under the path of the file it went to.
TrueWrite(e) == e.kind = "write" /\ e.runs # None => e.path = e.runs
TrueWrites(s) == \A i \in 1..Len(s) : TrueWrite(s[i])

\* The cache is bounded; and unless a create was lost, it names no open file wrongly, nor
\* does any write that was reported.
CacheInv ==
  /\ CacheOk(cache, order)
  /\ file = [fo \in Object |-> file[fo]]
  /\ backend = "etw" /\ "create" \notin misses =>
       /\ \A fo \in Object : fo \in DOMAIN cache /\ file[fo] # None => cache[fo] = file[fo]
       /\ TrueWrites(handled) /\ TrueWrites(backlog)

\* What the session's callbacks do to the cache, the open files and the backlog.
LEMMA EtwCache ==
  ASSUME SensorTypes, CacheInv, EtwNext, backend = "etw"
  PROVE  /\ CacheOk(cache', order') /\ file' = [fo \in Object |-> file'[fo]]
         /\ misses \subseteq misses'
         /\ "create" \notin misses' =>
              /\ \A fo \in Object : fo \in DOMAIN cache' /\ file'[fo] # None => cache'[fo] = file'[fo]
              /\ UNCHANGED backlog \/ \E e : TrueWrite(e) /\ Publish(e)
<1> DEFINE Named == \A fo \in Object : fo \in DOMAIN cache /\ file[fo] # None => cache[fo] = file[fo]
           Sends == UNCHANGED backlog \/ \E e : TrueWrite(e) /\ Publish(e)
           Goal == /\ CacheOk(cache', order') /\ file' = [fo \in Object |-> file'[fo]]
                   /\ misses \subseteq misses' /\ ("create" \notin misses' => Named' /\ Sends)
<1>0. /\ CacheOk(cache, order) /\ file = [fo \in Object |-> file[fo]]
      /\ "create" \notin misses => Named
  BY DEF CacheInv
<1>t. ops \in Nat /\ Time[monitor] \subseteq Nat
  BY Clock DEF SensorTypes
<1>s. ASSUME UNCHANGED <<cache, order, file>>, misses \subseteq misses', Sends PROVE Goal
  BY <1>0, <1>s
<1> HIDE DEF Goal
<1>1. ASSUME NEW p \in Pid, NEW g, Start(p, g) PROVE Goal
  <2>1. PICK c \in {None, g.cmdline}, t \in Time[monitor] :
          Observed("start", /\ Publish(StartEvent(p, g.image, c, t))
                            /\ UNCHANGED <<cache, order>>)
    BY <1>1 DEF Start, StartEvent
  <2>2. TrueWrite(StartEvent(p, g.image, c, t))
    BY <1>t, StartFacts DEF TrueWrite
  <2>3. UNCHANGED <<cache, order, file>> /\ misses \subseteq misses'
    BY <1>1, <2>1 DEF Start, Observed
  <2>4. Sends
    BY <2>1, <2>2 DEF Observed
  <2> QED
    BY <1>s, <2>3, <2>4
<1>2. ASSUME NEW p \in Pid, StopProcess(p) PROVE Goal
  <2>1. PICK t \in Time[monitor] :
          Observed("stop", /\ Publish(StopEvent(p, proc[p].image, t))
                           /\ UNCHANGED <<cache, order>>)
    BY <1>2 DEF StopProcess, StopEvent
  <2>2. TrueWrite(StopEvent(p, proc[p].image, t))
    BY <1>t, StopFacts DEF TrueWrite
  <2>3. UNCHANGED <<cache, order, file>> /\ misses \subseteq misses'
    BY <1>2, <2>1 DEF StopProcess, Observed
  <2>4. Sends
    BY <2>1, <2>2 DEF Observed
  <2> QED
    BY <1>s, <2>3, <2>4
<1>3. ASSUME NEW p \in Pid, NEW d, ConnectAttempt(p, d) PROVE Goal
  <2>1. Observed("connect", /\ Publish(ConnectEvent(p, d.addr, d.port, proc[p].cmdline))
                            /\ UNCHANGED <<cache, order>>)
    BY <1>3 DEF ConnectAttempt, ConnectEvent
  <2>2. TrueWrite(ConnectEvent(p, d.addr, d.port, proc[p].cmdline))
    BY <1>t, ConnectFacts DEF TrueWrite
  <2>3. UNCHANGED <<cache, order, file>> /\ misses \subseteq misses'
    BY <1>3, <2>1 DEF ConnectAttempt, Observed
  <2>4. Sends
    BY <2>1, <2>2 DEF Observed
  <2> QED
    BY <1>s, <2>3, <2>4
<1>4. ASSUME NEW fo \in Object, NEW o, CreateFile(fo, o) PROVE Goal
  <2>1. \/ Observed("create", InsertFile(fo, o.path) /\ Publish(FileEvent(o.kind, AnyPid, o.path)))
        \/ /\ Publish(FileEvent(o.kind, AnyPid, o.path))
           /\ misses' = misses \cup {"create"} /\ UNCHANGED <<cache, order>>
    BY <1>4 DEF CreateFile, FileEvent
  <2>2. TrueWrite(FileEvent(o.kind, AnyPid, o.path))
    BY <1>t, FileFacts DEF TrueWrite
  <2>3. file' = [file EXCEPT ![fo] = o.path]
    BY <1>4 DEF CreateFile
  <2>4. /\ file' = [k \in Object |-> file'[k]] /\ file'[fo] = o.path
        /\ \A k \in Object \ {fo} : file'[k] = file[k]
    BY <1>0, <2>3
  <2>5. CASE InsertFile(fo, o.path) /\ Publish(FileEvent(o.kind, AnyPid, o.path)) /\ UNCHANGED misses
    <3>1. /\ CacheOk(cache', order') /\ cache'[fo] = o.path
          /\ \A k \in DOMAIN cache' \ {fo} : k \in DOMAIN cache /\ cache'[k] = cache[k]
      BY <1>0, <2>5, Inserted
    <3>2. "create" \notin misses' => Named'
      BY <1>0, <2>4, <2>5, <3>1
    <3>3. Sends
      BY <2>2, <2>5
    <3> QED
      BY <2>4, <2>5, <3>1, <3>2, <3>3 DEF Goal
  <2>6. CASE misses' = misses \cup {"create"} /\ UNCHANGED <<backlog, lagged, cache, order>>
    BY <1>0, <2>4, <2>6 DEF Goal
  <2>7. CASE /\ Publish(FileEvent(o.kind, AnyPid, o.path))
             /\ misses' = misses \cup {"create"} /\ UNCHANGED <<cache, order>>
    <3>1. Sends
      BY <2>2, <2>7
    <3> QED
      BY <1>0, <2>4, <2>7, <3>1 DEF Goal
  <2> QED
    BY <2>1, <2>5, <2>6, <2>7 DEF Observed
<1>5. ASSUME NEW fo \in Object, CloseFile(fo) PROVE Goal
  <2>1. Observed("close", RemoveFile(fo) /\ UNCHANGED <<backlog, lagged>>)
    BY <1>5 DEF CloseFile
  <2>2. file' = [file EXCEPT ![fo] = None]
    BY <1>5 DEF CloseFile
  <2>3. /\ file' = [k \in Object |-> file'[k]] /\ file'[fo] = None
        /\ \A k \in Object \ {fo} : file'[k] = file[k]
    BY <1>0, <2>2
  <2>4. UNCHANGED backlog /\ misses \subseteq misses'
    BY <2>1 DEF Observed
  <2>5. /\ CacheOk(cache', order')
        /\ \A k \in DOMAIN cache' : k \in DOMAIN cache /\ cache'[k] = cache[k]
    <3>1. RemoveFile(fo) \/ UNCHANGED <<cache, order>>
      BY <2>1 DEF Observed
    <3>2. CASE RemoveFile(fo)
      BY <1>0, <3>2, Removed
    <3>3. CASE UNCHANGED <<cache, order>>
      BY <1>0, <3>3
    <3> QED
      BY <3>1, <3>2, <3>3
  <2>6. "create" \notin misses' => Named'
    BY <1>0, <2>3, <2>4, <2>5
  <2> QED
    BY <2>3, <2>4, <2>5, <2>6 DEF Goal
<1>6. ASSUME NEW fo \in Object, WriteFile(fo) PROVE Goal
  <2>1. Observed("write",
          /\ IF fo \in DOMAIN cache THEN Publish(WriteEvent(AnyPid, cache[fo], file[fo]))
             ELSE UNCHANGED <<backlog, lagged>>
          /\ UNCHANGED <<cache, order>>)
    BY <1>6 DEF WriteFile, WriteEvent
  <2>2. UNCHANGED <<cache, order, file>> /\ misses \subseteq misses' /\ file[fo] # None
    BY <1>6, <2>1 DEF WriteFile, Observed
  <2>3. ASSUME "create" \notin misses' PROVE Sends
    <3>1. fo \in DOMAIN cache => TrueWrite(WriteEvent(AnyPid, cache[fo], file[fo]))
      BY <1>0, <1>t, <2>2, <2>3, WriteFacts DEF TrueWrite
    <3> QED
      BY <2>1, <3>1 DEF Observed
  <2>4. "create" \notin misses' => Named'
    BY <1>0, <2>2
  <2> QED
    BY <1>0, <2>2, <2>3, <2>4 DEF Goal
<1> QED
  BY <1>1, <1>2, <1>3, <1>4, <1>5, <1>6 DEF EtwNext, Goal

\* An event that is published joins the backlog, and one that is received leaves it.
LEMMA TrueWritesMove ==
  ASSUME NEW s, IsSeq(s), TrueWrites(s)
  PROVE  /\ \A e : TrueWrite(e) => TrueWrites(Append(s, e))
         /\ s # <<>> => TrueWrites(Tail(s)) /\ TrueWrite(Head(s))
<1>1. ASSUME NEW e, TrueWrite(e) PROVE TrueWrites(Append(s, e))
  <2> DEFINE u == Append(s, e)
  <2>1. /\ Len(s) \in Nat /\ Len(u) = Len(s) + 1
        /\ \A i \in 1..Len(s) : u[i] = s[i]
        /\ u[Len(s) + 1] = e
    BY Grown
  <2> HIDE DEF u
  <2>2. TrueWrites(u)
    BY <1>1, <2>1 DEF TrueWrites
  <2> QED
    BY <2>2 DEF u
<1>2. ASSUME s # <<>> PROVE TrueWrites(Tail(s)) /\ TrueWrite(Head(s))
  <2>1. /\ Len(s) \in Nat /\ Len(s) >= 1 /\ Len(Tail(s)) = Len(s) - 1
        /\ Head(s) = s[1] /\ \A i \in 1..Len(Tail(s)) : Tail(s)[i] = s[i + 1]
    BY <1>2, Shrunk
  <2> QED
    BY <2>1 DEF TrueWrites
<1> QED
  BY <1>1, <1>2

\* Every step keeps it.
LEMMA CacheInvKept ==
  ASSUME SensorTypes, InFlight, CacheInv, [SensorsNext]_sensorVars PROVE CacheInv'
<1>0. IsSeq(handled) /\ IsSeq(backlog) /\ Len(backlog) <= BusCap /\ lagged \in BOOLEAN
  BY DEF InFlight, Queue, SensorTypes
<1>1. CASE backend = "ebpf" /\ EbpfNext /\ UNCHANGED <<backend, etwVars>>
  BY <1>1 DEF CacheInv, etwVars
<1>2. CASE backend = "etw" /\ EtwNext /\ UNCHANGED backend
  <2>1. /\ CacheOk(cache', order') /\ file' = [fo \in Object |-> file'[fo]]
        /\ misses \subseteq misses'
        /\ "create" \notin misses' =>
              /\ \A fo \in Object : fo \in DOMAIN cache' /\ file'[fo] # None => cache'[fo] = file'[fo]
              /\ UNCHANGED backlog \/ \E e : TrueWrite(e) /\ Publish(e)
    BY <1>2, EtwCache
  <2>2. UNCHANGED handled
    BY <1>2 DEF EtwNext, Start, StopProcess, ConnectAttempt, CreateFile, CloseFile, WriteFile, EtwCall
  <2>3. ASSUME "create" \notin misses' PROVE TrueWrites(handled) /\ TrueWrites(backlog')
    <3>1. TrueWrites(handled) /\ TrueWrites(backlog)
      BY <1>2, <2>1, <2>3 DEF CacheInv
    <3>2. ASSUME NEW e, TrueWrite(e), Publish(e) PROVE TrueWrites(backlog')
      <4>1. \/ UNCHANGED backlog
            \/ backlog' = Append(backlog, e)
            \/ backlog # <<>> /\ backlog' = Append(Tail(backlog), e)
        BY <1>0, <3>2, PublishShape
      <4>2. CASE UNCHANGED backlog
        BY <3>1, <4>2
      <4>3. CASE backlog' = Append(backlog, e)
        BY <1>0, <3>1, <3>2, <4>3, TrueWritesMove
      <4>4. CASE backlog # <<>> /\ backlog' = Append(Tail(backlog), e)
        <5>1. IsSeq(Tail(backlog)) /\ TrueWrites(Tail(backlog))
          BY <1>0, <3>1, <4>4, TrueWritesMove, Shrunk
        <5> QED
          BY <3>2, <4>4, <5>1, TrueWritesMove
      <4> QED
        BY <4>1, <4>2, <4>3, <4>4
    <3> QED
      BY <2>1, <2>3, <3>1, <3>2
  <2> QED
    BY <2>1, <2>2, <2>3 DEF CacheInv
<1>3. CASE MonitorNext /\ UNCHANGED <<ebpfVars, backend, etwVars>>
  <2>0. UNCHANGED <<backend, file, cache, order, misses>>
    BY <1>3 DEF etwVars
  <2>1. ASSUME TrueWrites(handled), TrueWrites(backlog) PROVE TrueWrites(handled') /\ TrueWrites(backlog')
    <3>1. CASE Receive
      <4>1. TrueWrites(Tail(backlog)) /\ TrueWrite(Head(backlog))
        BY <1>0, <2>1, <3>1, TrueWritesMove DEF Receive
      <4> QED
        BY <1>0, <2>1, <3>1, <4>1, TrueWritesMove DEF Receive
    <3>2. CASE StopMonitor
      BY <2>1, <3>2, NoneYet DEF StopMonitor, TrueWrites
    <3> QED
      BY <1>3, <3>1, <3>2 DEF MonitorNext
  <2> QED
    BY <2>0, <2>1 DEF CacheInv
<1>4. CASE UNCHANGED sensorVars
  BY <1>4 DEF sensorVars, monVars, etwVars, CacheInv
<1> QED
  BY <1>1, <1>2, <1>3, <1>4 DEF SensorsNext

\* At the start the cache is empty.
LEMMA CacheInvInit == SensorsInit => CacheInv
<1> SUFFICES ASSUME SensorsInit PROVE CacheInv
  OBVIOUS
<1>1. cache = <<>> /\ order = <<>> /\ handled = <<>> /\ backlog = <<>> /\ file = [fo \in Object |-> None]
  BY DEF SensorsInit, EtwInit, MonitorInit
<1>2. DOMAIN cache = {}
  BY <1>1
<1>3. IsFiniteSet({}) /\ Cardinality({}) = 0
  BY FS_EmptySet
<1>4. 0 <= CacheCap /\ 0 <= OrderCap
  BY CacheSize DEF OrderCap
<1>5. CacheOk(cache, order)
  BY <1>1, <1>2, <1>3, <1>4, NoneYet DEF CacheOk, Bounded, Tokens
<1> QED
  BY <1>1, <1>2, <1>5, NoneYet DEF CacheInv, TrueWrites

\* CacheSound, for every number of file objects and every capacity: the cache and its deque
\* stay within their bounds and every remembered path can still be evicted; and unless a
\* create was lost, a write is reported under the path of the file it went to.
THEOREM CacheIsSound == SensorsSpec => []CacheSound
<1>1. SensorsInit => SensorTypes /\ InFlight /\ CacheInv
  BY InFlightInit, CacheInvInit
<1>2. SensorTypes /\ InFlight /\ CacheInv /\ [SensorsNext]_sensorVars
        => (SensorTypes /\ InFlight /\ CacheInv)'
  BY InFlightKept, TypesKept, CacheInvKept
<1>3. CacheInv => CacheSound
  <2> SUFFICES ASSUME CacheInv PROVE CacheSound
    OBVIOUS
  <2>1. order \in Seq(Range(order))
    BY DEF CacheInv, CacheOk, IsSeq
  <2>2. DOMAIN order = 1..Len(order)
    BY <2>1
  <2>3. DOMAIN cache \subseteq Range(order)
    BY <2>2 DEF CacheInv, CacheOk, Tokens, Range
  <2>4. CacheBounded
    BY <2>3 DEF CacheBounded, CacheInv, CacheOk, Bounded
  <2>5. WritePathTrue
    BY DEF WritePathTrue, CacheInv, TrueWrites, TrueWrite
  <2> QED
    BY <2>4, <2>5 DEF CacheSound
<1> QED
  BY <1>1, <1>2, <1>3, PTL DEF SensorsSpec
(***************************************************************************)
(* The tables by pid.                                                      *)
(***************************************************************************)

\* A table of procmon or aiusage.
Holding(t) ==
  Bounded(DOMAIN t, MaxTracked) /\ DOMAIN t \subseteq Pid /\ \A p \in DOMAIN t : t[p].ts \in Nat

\* Which entry makes room for one of p, if any.
Victims(t, p) ==
  IF p \notin DOMAIN t /\ Cardinality(DOMAIN t) >= MaxTracked THEN Oldest(t) ELSE {None}

\* A table with a new entry: the bound holds, and what is missing from it was the oldest.
LEMMA Remembered ==
  ASSUME NEW t, Holding(t), NEW p \in Pid, NEW v, v.ts \in Nat, NEW old \in Victims(t, p)
  PROVE  LET u == Put(Forget(t, old), p, v)
         IN  /\ Holding(u) /\ p \in DOMAIN u /\ u[p] = v
             /\ \A q \in DOMAIN u \ {p} : q \in DOMAIN t /\ u[q] = t[q]
             /\ \A q \in DOMAIN t \ DOMAIN u : q \in Oldest(t) /\ Cardinality(DOMAIN u) >= MaxTracked
<1> DEFINE c == Forget(t, old)
           u == Put(c, p, v)
<1>0. /\ IsFiniteSet(DOMAIN t) /\ Cardinality(DOMAIN t) \in Nat /\ Cardinality(DOMAIN t) <= MaxTracked
      /\ MaxTracked \in Nat /\ DOMAIN t \subseteq Pid /\ \A q \in DOMAIN t : t[q].ts \in Nat
  BY BusSizes DEF Holding, Bounded
<1>1. DOMAIN c = DOMAIN t \ {old} /\ \A q \in DOMAIN t \ {old} : c[q] = t[q]
  BY Forgotten
<1> HIDE DEF c
<1>2. DOMAIN u = DOMAIN c \cup {p} /\ u[p] = v /\ \A q \in DOMAIN c \ {p} : u[q] = c[q]
  BY DEF Put
<1> HIDE DEF u
<1>3. IsFiniteSet(DOMAIN c) /\ Cardinality(DOMAIN c) = IF old \in DOMAIN t THEN Cardinality(DOMAIN t) - 1
                                                      ELSE Cardinality(DOMAIN t)
  BY <1>0, <1>1, FS_RemoveElement
<1>4. IsFiniteSet(DOMAIN u) /\ Cardinality(DOMAIN u) = IF p \in DOMAIN c THEN Cardinality(DOMAIN c)
                                                      ELSE Cardinality(DOMAIN c) + 1
  BY <1>2, <1>3, FS_AddElement
<1>5. Cardinality(DOMAIN c) \in Nat /\ Cardinality(DOMAIN u) \in Nat
  BY <1>3, <1>4, FS_CardinalityType
<1>6. \A q \in DOMAIN u \ {p} : q \in DOMAIN t /\ u[q] = t[q]
  BY <1>1, <1>2
<1>7. CASE p \notin DOMAIN t /\ Cardinality(DOMAIN t) >= MaxTracked
  <2>1. old \in Oldest(t) /\ old \in DOMAIN t
    BY <1>7 DEF Victims, Oldest
  <2>2. p \notin DOMAIN c
    BY <1>1, <1>7
  <2>3. Cardinality(DOMAIN u) = Cardinality(DOMAIN t)
    BY <1>0, <1>3, <1>4, <2>1, <2>2
  <2>4. \A q \in DOMAIN t \ DOMAIN u : q = old
    BY <1>1, <1>2
  <2>5. Cardinality(DOMAIN u) >= MaxTracked /\ Cardinality(DOMAIN u) <= MaxTracked
    BY <1>0, <1>7, <2>3
  <2>6. Holding(u)
    BY <1>0, <1>2, <1>4, <1>5, <1>6, <2>5 DEF Holding, Bounded
  <2> QED
    BY <1>2, <1>6, <2>1, <2>4, <2>5, <2>6 DEF u, c
<1>8. CASE ~(p \notin DOMAIN t /\ Cardinality(DOMAIN t) >= MaxTracked)
  <2>1. old = None /\ old \notin DOMAIN t
    BY <1>0, <1>8, NoPid DEF Victims
  <2>2. DOMAIN c = DOMAIN t
    BY <1>1, <2>1
  <2>3. Cardinality(DOMAIN u) <= MaxTracked
    BY <1>0, <1>4, <1>8, <2>2
  <2>4. Holding(u)
    BY <1>0, <1>2, <1>4, <1>5, <1>6, <2>3 DEF Holding, Bounded
  <2>5. DOMAIN t \ DOMAIN u = {}
    BY <1>2, <2>2
  <2> QED
    BY <1>2, <1>6, <2>4, <2>5 DEF u, c
<1> QED
  BY <1>7, <1>8

\* A table without an entry.
LEMMA ForgottenHolding ==
  ASSUME NEW t, Holding(t), NEW p PROVE Holding(Forget(t, p))
<1> DEFINE u == Forget(t, p)
<1>0. /\ IsFiniteSet(DOMAIN t) /\ Cardinality(DOMAIN t) \in Nat /\ Cardinality(DOMAIN t) <= MaxTracked
      /\ MaxTracked \in Nat /\ DOMAIN t \subseteq Pid /\ \A q \in DOMAIN t : t[q].ts \in Nat
  BY BusSizes DEF Holding, Bounded
<1>1. DOMAIN u = DOMAIN t \ {p} /\ \A q \in DOMAIN t \ {p} : u[q] = t[q]
  BY Forgotten
<1> HIDE DEF u
<1>2. IsFiniteSet(DOMAIN u) /\ Cardinality(DOMAIN u) <= Cardinality(DOMAIN t)
  BY <1>0, <1>1, FS_Subset
<1>3. Cardinality(DOMAIN u) \in Nat
  BY <1>2, FS_CardinalityType
<1>4. Cardinality(DOMAIN u) <= MaxTracked
  BY <1>0, <1>2, <1>3
<1>5. Holding(u)
  BY <1>0, <1>1, <1>2, <1>3, <1>4 DEF Holding, Bounded
<1> QED
  BY <1>5 DEF u

(***************************************************************************)
(* procmon: what it has heard, its records and its table.                  *)
(***************************************************************************)

\* Event i is the last of its pid before j.
LastOf(h, i, j) == i < j /\ \A k \in (i + 1)..(j - 1) : h[k].pid # h[i].pid

\* The execs before j that could have taken the place of the exec i.
Others(h, i, j) ==
  {k \in 1..Len(h) : h[k].kind = "exec" /\ k < j /\ k # i /\ (k > i \/ h[k].ts >= h[i].ts)}

\* The entry of a pid is its last event, an exec.
EntryOf(h, t, p, i) ==
  /\ h[i].kind = "exec" /\ h[i].pid = p /\ LastOf(h, i, Len(h) + 1)
  /\ t[p].n = h[i].n /\ t[p].ts = h[i].ts /\ t[p].origin = h[i].origin
TableTrue(h, t) == \A p \in DOMAIN t : \E i \in 1..Len(h) : EntryOf(h, t, p, i)

\* The last exec of a pid is on record, or MaxTracked others could have replaced it.
TableFull(h, t) ==
  \A i \in 1..Len(h) : h[i].kind = "exec" /\ LastOf(h, i, Len(h) + 1) =>
    h[i].pid \in DOMAIN t \/ Cardinality(Others(h, i, Len(h) + 1)) >= MaxTracked

\* One record for each event.
Agree(h, r) == Len(r) = Len(h) /\ \A i \in 1..Len(h) : r[i].n = h[i].n /\ r[i].kind = h[i].kind

\* An exit finds the last exec of its pid unless that could have been replaced.
Correlated(h, r) ==
  \A i, j \in 1..Len(h) :
    /\ h[i].kind = "exec" /\ h[j].kind = "exit" /\ h[i].pid = h[j].pid
    /\ LastOf(h, i, j) /\ Cardinality(Others(h, i, j)) < MaxTracked
    => r[j].exec = h[i].n

\* An exit that found an exec found the last event of its pid.
FoundExec(h, r, j) ==
  /\ r[j].lifetime >= 0
  /\ \E i \in 1..Len(h) : /\ h[i].kind = "exec" /\ h[i].pid = h[j].pid /\ LastOf(h, i, j)
                          /\ r[j].exec = h[i].n /\ r[j].of = h[i].origin
Sound(h, r) ==
  \A j \in 1..Len(h) : h[j].kind = "exit" => (r[j].exec = None /\ r[j].of = None) \/ FoundExec(h, r, j)

\* An event later, what was said of the earlier ones is the same.
LEMMA Earlier ==
  ASSUME NEW h, IsSeq(h), NEW e, NEW i \in 1..Len(h), NEW j \in 1..(Len(h) + 1)
  PROVE  /\ LastOf(Append(h, e), i, j) <=> LastOf(h, i, j)
         /\ Others(Append(h, e), i, j) = Others(h, i, j)
<1> DEFINE g == Append(h, e)
<1>1. /\ Len(h) \in Nat /\ Len(g) = Len(h) + 1
      /\ \A k \in 1..Len(h) : g[k] = h[k]
      /\ g[Len(h) + 1] = e
  BY Grown
<1> HIDE DEF g
<1>2. \A k \in (i + 1)..(j - 1) : k \in 1..Len(h)
  BY <1>1
<1>3. LastOf(g, i, j) <=> LastOf(h, i, j)
  BY <1>1, <1>2 DEF LastOf
<1>4. \A k \in 1..Len(g) : k < j => k \in 1..Len(h)
  BY <1>1
<1>5. \A k \in 1..Len(h) : k \in 1..Len(g)
  BY <1>1
<1>6. Others(g, i, j) = Others(h, i, j)
  BY <1>1, <1>4, <1>5 DEF Others
<1> QED
  BY <1>3, <1>6 DEF g

\* The last events of the pids after e: those of the other pids.
LEMMA Later ==
  ASSUME NEW h, IsSeq(h), NEW e, NEW i \in 1..Len(h)
  PROVE  LastOf(Append(h, e), i, Len(h) + 2)
           <=> h[i].pid # e.pid /\ LastOf(h, i, Len(h) + 1)
<1> DEFINE g == Append(h, e)
<1>1. /\ Len(h) \in Nat /\ Len(g) = Len(h) + 1
      /\ \A k \in 1..Len(h) : g[k] = h[k]
      /\ g[Len(h) + 1] = e
  BY Grown
<1> HIDE DEF g
<1>2. /\ \A k \in (i + 1)..((Len(h) + 2) - 1) : k \in (i + 1)..((Len(h) + 1) - 1) \/ k = Len(h) + 1
      /\ \A k \in (i + 1)..((Len(h) + 1) - 1) : k \in 1..Len(h) /\ k \in (i + 1)..((Len(h) + 2) - 1)
      /\ Len(h) + 1 \in (i + 1)..((Len(h) + 2) - 1) /\ i < Len(h) + 1 /\ i < Len(h) + 2
  BY <1>1
<1>3. LastOf(g, i, Len(h) + 2) <=> h[i].pid # e.pid /\ LastOf(h, i, Len(h) + 1)
  BY <1>1, <1>2 DEF LastOf
<1> QED
  BY <1>3 DEF g

\* A pid has one last event.
LEMMA OneLast ==
  ASSUME NEW h, NEW n \in Nat, NEW i \in 1..n, NEW j \in 1..n, h[i].pid = h[j].pid,
         LastOf(h, i, n + 1), LastOf(h, j, n + 1)
  PROVE  i = j
<1>1. i < j => j \in (i + 1)..((n + 1) - 1)
  OBVIOUS
<1>2. j < i => i \in (j + 1)..((n + 1) - 1)
  OBVIOUS
<1> QED
  BY <1>1, <1>2 DEF LastOf

\* The execs that could have replaced one are finitely many, and never fewer later.
LEMMA OthersGrow ==
  ASSUME NEW h, IsSeq(h), NEW e, NEW i \in 1..Len(h)
  PROVE  /\ IsFiniteSet(Others(h, i, Len(h) + 1)) /\ IsFiniteSet(Others(Append(h, e), i, Len(h) + 2))
         /\ Cardinality(Others(h, i, Len(h) + 1)) \in Nat
         /\ Cardinality(Others(Append(h, e), i, Len(h) + 2)) \in Nat
         /\ Cardinality(Others(h, i, Len(h) + 1)) <= Cardinality(Others(Append(h, e), i, Len(h) + 2))
<1> DEFINE g == Append(h, e)
           A == Others(h, i, Len(h) + 1)
           B == Others(g, i, Len(h) + 2)
<1>1. /\ Len(h) \in Nat /\ Len(g) = Len(h) + 1 /\ Len(g) \in Nat
      /\ \A k \in 1..Len(h) : g[k] = h[k]
  BY Grown
<1> HIDE DEF g
<1>2. \A k \in 1..Len(h) : k \in 1..Len(g) /\ k < Len(h) + 2
  BY <1>1
<1>3. A \subseteq B /\ B \subseteq 1..Len(g)
  BY <1>1, <1>2 DEF Others
<1>4. IsFiniteSet(1..Len(g))
  <2>1. 1 \in Int /\ Len(g) \in Int
    BY <1>1
  <2> QED
    BY <2>1, FS_Interval
<1> HIDE DEF A, B
<1>5. IsFiniteSet(B)
  BY <1>3, <1>4, FS_Subset
<1>6. IsFiniteSet(A) /\ Cardinality(A) <= Cardinality(B)
  BY <1>3, <1>5, FS_Subset
<1>7. Cardinality(A) \in Nat /\ Cardinality(B) \in Nat
  BY <1>5, <1>6, FS_CardinalityType
<1> QED
  BY <1>5, <1>6, <1>7 DEF A, B, g
\* The table still says what was heard last, after an event that changes the entry of its
\* own pid.
LEMMA TableTrueKept ==
  ASSUME NEW h, IsSeq(h), NEW t, TableTrue(h, t), NEW e, NEW u,
         \A q \in DOMAIN u \ {e.pid} : q \in DOMAIN t /\ u[q] = t[q],
         e.pid \in DOMAIN u =>
           e.kind = "exec" /\ u[e.pid].n = e.n /\ u[e.pid].ts = e.ts /\ u[e.pid].origin = e.origin
  PROVE  TableTrue(Append(h, e), u)
<1> DEFINE g == Append(h, e)
<1>1. /\ Len(h) \in Nat /\ Len(g) = Len(h) + 1
      /\ \A k \in 1..Len(h) : g[k] = h[k]
      /\ g[Len(h) + 1] = e
  BY Grown
<1>2. ASSUME NEW q \in DOMAIN u, q # e.pid PROVE \E i \in 1..Len(g) : EntryOf(g, u, q, i)
  <2>1. q \in DOMAIN t /\ u[q] = t[q]
    BY <1>2
  <2>2. PICK i \in 1..Len(h) : EntryOf(h, t, q, i)
    BY <2>1 DEF TableTrue
  <2>3. LastOf(g, i, Len(h) + 2)
    BY <1>2, <2>2, Later DEF EntryOf
  <2> HIDE DEF g
  <2>4. i \in 1..Len(g) /\ g[i] = h[i] /\ Len(g) + 1 = Len(h) + 2
    BY <1>1
  <2> QED
    BY <2>1, <2>2, <2>3, <2>4 DEF EntryOf
<1>3. ASSUME e.pid \in DOMAIN u PROVE \E i \in 1..Len(g) : EntryOf(g, u, e.pid, i)
  <2> HIDE DEF g
  <2>1. /\ Len(g) \in 1..Len(g) /\ g[Len(g)] = e /\ Len(g) < Len(g) + 1
        /\ \A k \in (Len(g) + 1)..((Len(g) + 1) - 1) : FALSE
    BY <1>1
  <2>2. EntryOf(g, u, e.pid, Len(g))
    BY <1>3, <2>1 DEF EntryOf, LastOf
  <2> QED
    BY <2>1, <2>2
<1> QED
  BY <1>2, <1>3 DEF TableTrue

\* The exec of an entry that is evicted could have been replaced by that of each entry that
\* is left: they are no older, or came later.
LEMMA EvictedReplaced ==
  ASSUME NEW h, IsSeq(h), NEW t, TableTrue(h, t), NEW e, NEW u, TableTrue(Append(h, e), u),
         \A q \in DOMAIN u \ {e.pid} : q \in DOMAIN t /\ u[q] = t[q],
         e.kind = "exec",
         NEW i \in 1..Len(h), h[i].kind = "exec", LastOf(h, i, Len(h) + 1), h[i].pid # e.pid,
         h[i].pid \in Oldest(t), h[i].pid \notin DOMAIN u
  PROVE  Cardinality(Others(Append(h, e), i, Len(h) + 2)) >= Cardinality(DOMAIN u)
<1> DEFINE g == Append(h, e)
           B == Others(g, i, Len(h) + 2)
           f == [q \in DOMAIN u |-> CHOOSE k \in 1..Len(g) : EntryOf(g, u, q, k)]
<1>1. /\ Len(h) \in Nat /\ Len(g) = Len(h) + 1
      /\ \A k \in 1..Len(h) : g[k] = h[k]
      /\ g[Len(h) + 1] = e
  BY Grown
<1>2. IsFiniteSet(B) /\ Cardinality(B) \in Nat
  BY OthersGrow
<1>a. TableTrue(g, u)
  OBVIOUS
<1> HIDE DEF g
<1>3. \A q \in DOMAIN u : f[q] \in 1..Len(g) /\ EntryOf(g, u, q, f[q])
  BY <1>a DEF TableTrue
<1>4. t[h[i].pid].ts = h[i].ts /\ h[i].pid \in DOMAIN t
  <2>1. h[i].pid \in DOMAIN t
    BY DEF Oldest
  <2>2. PICK k \in 1..Len(h) : EntryOf(h, t, h[i].pid, k)
    BY <2>1 DEF TableTrue
  <2>3. k = i
    BY <1>1, <2>2, OneLast DEF EntryOf
  <2> QED
    BY <2>1, <2>2, <2>3 DEF EntryOf
<1>5. ASSUME NEW q \in DOMAIN u PROVE f[q] \in B
  <2> DEFINE k == f[q]
  <2>1. k \in 1..Len(g) /\ EntryOf(g, u, q, k)
    BY <1>3
  <2> HIDE DEF k
  <2>2. g[k].pid = q /\ q # h[i].pid /\ g[i] = h[i] /\ k # i
    BY <1>1, <2>1 DEF EntryOf
  <2>3. k < Len(h) + 2
    BY <1>1, <2>1
  <2>4. k > i \/ g[k].ts >= g[i].ts
    <3>1. CASE k = Len(h) + 1
      BY <1>1, <3>1
    <3>2. CASE k # Len(h) + 1
      <4>1. k \in 1..Len(h)
        BY <1>1, <2>1, <3>2
      <4>2. CASE q = e.pid
        <5>1. LastOf(g, k, Len(h) + 2)
          <6>1. Len(g) + 1 = Len(h) + 2
            BY <1>1
          <6> QED
            BY <2>1, <6>1 DEF EntryOf
        <5>2. h[k].pid # e.pid
          BY <4>1, <5>1, Later DEF g
        <5> QED
          BY <1>1, <2>2, <4>1, <4>2, <5>2
      <4>3. CASE q # e.pid
        <5>1. q \in DOMAIN t /\ u[q] = t[q]
          BY <4>3
        <5>2. t[h[i].pid].ts <= t[q].ts
          BY <5>1 DEF Oldest
        <5>3. u[q].ts = g[k].ts
          BY <2>1 DEF EntryOf
        <5>4. h[i].ts <= g[k].ts
          BY <1>4, <5>1, <5>2, <5>3
        <5> QED
          BY <2>2, <5>4
      <4> QED
        BY <4>2, <4>3
    <3> QED
      BY <3>1, <3>2
  <2>5. g[k].kind = "exec"
    BY <2>1 DEF EntryOf
  <2>6. k \in B
    BY <2>1, <2>2, <2>3, <2>4, <2>5 DEF Others
  <2> QED
    BY <2>6 DEF k
<1>6. \A x, y \in DOMAIN u : f[x] = f[y] => x = y
  <2>1. \A x \in DOMAIN u : g[f[x]].pid = x
    BY <1>3 DEF EntryOf
  <2> HIDE DEF f
  <2> QED
    BY <2>1
<1>7. f \in [DOMAIN u -> B]
  BY <1>5
<1> HIDE DEF f, B
<1>8. IsFiniteSet(DOMAIN u) /\ Cardinality(DOMAIN u) <= Cardinality(B)
  BY <1>2, <1>6, <1>7, NoLarger
<1>9. Cardinality(DOMAIN u) \in Nat
  BY <1>8, FS_CardinalityType
<1> QED
  BY <1>2, <1>8, <1>9 DEF B, g

\* The last exec of a pid that no longer is in the table could have been replaced.
LEMMA TableFullKept ==
  ASSUME NEW h, IsSeq(h), NEW t, TableTrue(h, t), TableFull(h, t),
         NEW e, NEW u, TableTrue(Append(h, e), u), Holding(u),
         \A q \in DOMAIN u \ {e.pid} : q \in DOMAIN t /\ u[q] = t[q],
         e.kind = "exec" => e.pid \in DOMAIN u,
         \A q \in (DOMAIN t \ DOMAIN u) \ {e.pid} :
           e.kind = "exec" /\ q \in Oldest(t) /\ Cardinality(DOMAIN u) >= MaxTracked
  PROVE  TableFull(Append(h, e), u)
<1> DEFINE g == Append(h, e)
<1>1. /\ Len(h) \in Nat /\ Len(g) = Len(h) + 1
      /\ \A k \in 1..Len(h) : g[k] = h[k]
      /\ g[Len(h) + 1] = e
  BY Grown
<1>m. MaxTracked \in Nat
  BY BusSizes
<1>2. ASSUME NEW i \in 1..Len(h), h[i].kind = "exec", LastOf(g, i, Len(h) + 2), h[i].pid \notin DOMAIN u
      PROVE  Cardinality(Others(g, i, Len(h) + 2)) >= MaxTracked
  <2>1. h[i].pid # e.pid /\ LastOf(h, i, Len(h) + 1)
    BY <1>2, Later
  <2>2. CASE h[i].pid \in DOMAIN t
    <3>1. e.kind = "exec" /\ h[i].pid \in Oldest(t) /\ Cardinality(DOMAIN u) >= MaxTracked
      BY <1>2, <2>1, <2>2
    <3>2. Cardinality(Others(g, i, Len(h) + 2)) >= Cardinality(DOMAIN u)
      BY <1>2, <2>1, <3>1, EvictedReplaced
    <3>3. Cardinality(Others(g, i, Len(h) + 2)) \in Nat /\ Cardinality(DOMAIN u) \in Nat
      BY OthersGrow DEF Holding, Bounded
    <3> QED
      BY <1>m, <3>1, <3>2, <3>3
  <2>3. CASE h[i].pid \notin DOMAIN t
    <3>1. Cardinality(Others(h, i, Len(h) + 1)) >= MaxTracked
      BY <1>2, <2>1, <2>3 DEF TableFull
    <3>2. /\ Cardinality(Others(h, i, Len(h) + 1)) \in Nat
          /\ Cardinality(Others(g, i, Len(h) + 2)) \in Nat
          /\ Cardinality(Others(h, i, Len(h) + 1)) <= Cardinality(Others(g, i, Len(h) + 2))
      BY OthersGrow
    <3> QED
      BY <1>m, <3>1, <3>2
  <2> QED
    BY <2>2, <2>3
<1>3. \A i \in 1..Len(g) : i \in 1..Len(h) \/ g[i] = e
  BY <1>1
<1> HIDE DEF g
<1>4. Len(g) + 1 = Len(h) + 2
  BY <1>1
<1> QED
  BY <1>1, <1>2, <1>3, <1>4 DEF TableFull, g

\* The records of the earlier events stay as good as they were, and that of e is as good.
LEMMA PastKept ==
  ASSUME NEW h, IsSeq(h), NEW r, IsSeq(r), Agree(h, r), Correlated(h, r), Sound(h, r),
         NEW e, NEW x, x.n = e.n, x.kind = e.kind,
         e.kind = "exit" => \A i \in 1..Len(h) :
           /\ h[i].kind = "exec" /\ h[i].pid = e.pid /\ LastOf(h, i, Len(h) + 1)
           /\ Cardinality(Others(h, i, Len(h) + 1)) < MaxTracked
           => x.exec = h[i].n,
         e.kind = "exit" =>
           \/ x.exec = None /\ x.of = None
           \/ /\ x.lifetime >= 0
              /\ \E i \in 1..Len(h) : /\ h[i].kind = "exec" /\ h[i].pid = e.pid
                                      /\ LastOf(h, i, Len(h) + 1)
                                      /\ x.exec = h[i].n /\ x.of = h[i].origin
  PROVE  /\ Agree(Append(h, e), Append(r, x)) /\ Correlated(Append(h, e), Append(r, x))
         /\ Sound(Append(h, e), Append(r, x))
<1> DEFINE g == Append(h, e)
           q == Append(r, x)
<1>1. /\ Len(h) \in Nat /\ Len(g) = Len(h) + 1
      /\ \A k \in 1..Len(h) : g[k] = h[k]
      /\ g[Len(h) + 1] = e
  BY Grown
<1>2. /\ Len(r) = Len(h) /\ Len(q) = Len(r) + 1
      /\ \A k \in 1..Len(r) : q[k] = r[k]
      /\ q[Len(r) + 1] = x
  BY Grown DEF Agree
<1>3. \A i \in 1..Len(h), j \in 1..(Len(h) + 1) :
        (LastOf(g, i, j) <=> LastOf(h, i, j)) /\ Others(g, i, j) = Others(h, i, j)
  BY Earlier
<1> HIDE DEF g, q
<1>4. \A k \in 1..Len(g) : k \in 1..Len(h) \/ k = Len(h) + 1
  BY <1>1
<1>5. \A k \in 1..Len(h) : k \in 1..Len(g) /\ k \in 1..(Len(h) + 1) /\ g[k] = h[k] /\ q[k] = r[k]
  BY <1>1, <1>2
<1>6. Agree(g, q)
  BY <1>1, <1>2, <1>4, <1>5 DEF Agree
<1>7. ASSUME NEW i \in 1..Len(g), NEW j \in 1..Len(g),
             g[i].kind = "exec", g[j].kind = "exit", g[i].pid = g[j].pid,
             LastOf(g, i, j), Cardinality(Others(g, i, j)) < MaxTracked
      PROVE  q[j].exec = g[i].n
  <2>0. i \in 1..Len(h)
    BY <1>1, <1>4, <1>7 DEF LastOf
  <2>1. CASE j \in 1..Len(h)
    BY <1>3, <1>5, <1>7, <2>0, <2>1 DEF Correlated
  <2>2. CASE j = Len(h) + 1
    <3>1. j \in 1..(Len(h) + 1) /\ g[j] = e /\ q[j] = x
      BY <1>1, <1>2, <2>2
    <3> QED
      BY <1>3, <1>5, <1>7, <2>0, <2>2, <3>1
  <2> QED
    BY <1>4, <2>1, <2>2
<1>8. ASSUME NEW j \in 1..Len(g), g[j].kind = "exit"
      PROVE  (q[j].exec = None /\ q[j].of = None) \/ FoundExec(g, q, j)
  <2>1. CASE j \in 1..Len(h)
    <3>1. (r[j].exec = None /\ r[j].of = None) \/ FoundExec(h, r, j)
      BY <1>5, <1>8, <2>1 DEF Sound
    <3>2. ASSUME FoundExec(h, r, j) PROVE FoundExec(g, q, j)
      <4>1. PICK i \in 1..Len(h) : /\ h[i].kind = "exec" /\ h[i].pid = h[j].pid /\ LastOf(h, i, j)
                                   /\ r[j].exec = h[i].n /\ r[j].of = h[i].origin
        BY <3>2 DEF FoundExec
      <4>2. LastOf(g, i, j) /\ i \in 1..Len(g) /\ g[i] = h[i] /\ g[j] = h[j] /\ q[j] = r[j]
        BY <1>3, <1>5, <2>1, <4>1
      <4> QED
        BY <3>2, <4>1, <4>2 DEF FoundExec
    <3> QED
      BY <1>5, <2>1, <3>1, <3>2
  <2>2. CASE j = Len(h) + 1
    <3>1. j \in 1..(Len(h) + 1) /\ g[j] = e /\ q[j] = x
      BY <1>1, <1>2, <2>2
    <3>2. CASE x.exec = None /\ x.of = None
      BY <3>1, <3>2
    <3>3. CASE /\ x.lifetime >= 0
               /\ \E i \in 1..Len(h) : /\ h[i].kind = "exec" /\ h[i].pid = e.pid
                                       /\ LastOf(h, i, Len(h) + 1)
                                       /\ x.exec = h[i].n /\ x.of = h[i].origin
      <4>1. PICK i \in 1..Len(h) : /\ h[i].kind = "exec" /\ h[i].pid = e.pid
                                   /\ LastOf(h, i, Len(h) + 1)
                                   /\ x.exec = h[i].n /\ x.of = h[i].origin
        BY <3>3
      <4>2. LastOf(g, i, j) /\ i \in 1..Len(g) /\ g[i] = h[i]
        BY <1>3, <1>5, <2>2, <3>1, <4>1
      <4> QED
        BY <3>1, <3>3, <4>1, <4>2 DEF FoundExec
    <3> QED
      BY <1>8, <3>1, <3>2, <3>3
  <2> QED
    BY <1>4, <2>1, <2>2
<1> QED
  BY <1>6, <1>7, <1>8 DEF Correlated, Sound, g, q
\* The ledger of procmon.
Ledger(h, r, t) ==
  /\ Holding(t) /\ TableTrue(h, t) /\ TableFull(h, t)
  /\ Agree(h, r) /\ Correlated(h, r) /\ Sound(h, r)

\* An exec: the entry of its pid is new, at the cap in the place of the oldest.
LEMMA ExecLedger ==
  ASSUME IsSeq(handled), IsSeq(records), Ledger(handled, records, table),
         NEW e, e.kind = "exec", e.pid \in Pid, e.ts \in Nat, ProcExec(e)
  PROVE  Ledger(Append(handled, e), records', table')
<1> DEFINE v == [image |-> e.image, ts |-> e.ts, n |-> e.n, origin |-> e.origin]
           x == [n |-> e.n, kind |-> "exec", pid |-> e.pid,
                 severity |-> Severity(AssessCtx(e.image, e.cmdline, e.trusted))]
<1>1. records' = Append(records, x) /\ x.n = e.n /\ x.kind = e.kind
  BY DEF ProcExec, EmitRecord
<1>2. PICK old \in Victims(table, e.pid) : table' = Put(Forget(table, old), e.pid, v)
  BY DEF ProcExec, Remember, Victims
<1>3. v.ts = e.ts /\ v.n = e.n /\ v.origin = e.origin
  OBVIOUS
<1> HIDE DEF v, x
<1>4. /\ Holding(table') /\ e.pid \in DOMAIN table' /\ table'[e.pid] = v
      /\ \A q \in DOMAIN table' \ {e.pid} : q \in DOMAIN table /\ table'[q] = table[q]
      /\ \A q \in DOMAIN table \ DOMAIN table' :
           q \in Oldest(table) /\ Cardinality(DOMAIN table') >= MaxTracked
  <2>1. Holding(table) /\ v.ts \in Nat
    BY <1>3 DEF Ledger
  <2> QED
    BY <1>2, <2>1, Remembered
<1>5. TableTrue(handled, table) /\ TableFull(handled, table)
  BY DEF Ledger
<1>6. TableTrue(Append(handled, e), table')
  BY <1>3, <1>4, <1>5, TableTrueKept
<1>7. TableFull(Append(handled, e), table')
  BY <1>4, <1>5, <1>6, TableFullKept
<1>8. /\ Agree(Append(handled, e), Append(records, x)) /\ Correlated(Append(handled, e), Append(records, x))
      /\ Sound(Append(handled, e), Append(records, x))
  BY <1>1, PastKept DEF Ledger
<1> QED
  BY <1>1, <1>4, <1>6, <1>7, <1>8 DEF Ledger

\* The greater of two numbers is no less than either.
LEMMA MaxOfTwo ==
  ASSUME NEW a \in Int PROVE Max({a, 0}) >= 0
<1> DEFINE S == {a, 0}
<1>1. \E x \in S : \A y \in S : x >= y
  <2>1. CASE a >= 0
    BY <2>1
  <2>2. CASE ~(a >= 0)
    BY <2>2
  <2> QED
    BY <2>1, <2>2
<1>2. Max(S) \in S /\ \A y \in S : Max(S) >= y
  BY <1>1 DEF Max
<1> QED
  BY <1>2

\* An exit: its record says what the entry of its pid says, and the entry goes.
LEMMA ExitLedger ==
  ASSUME IsSeq(handled), IsSeq(records), Ledger(handled, records, table),
         NEW e, e.kind = "exit", e.pid \in Pid, e.ts \in Nat, ProcExit(e)
  PROVE  Ledger(Append(handled, e), records', table')
<1>1. /\ Holding(table) /\ TableTrue(handled, table) /\ TableFull(handled, table)
      /\ Agree(handled, records) /\ Correlated(handled, records) /\ Sound(handled, records)
  BY DEF Ledger
<1>2. table' = Forget(table, e.pid)
  BY DEF ProcExit
<1>3. DOMAIN table' = DOMAIN table \ {e.pid} /\ \A q \in DOMAIN table \ {e.pid} : table'[q] = table[q]
  BY <1>2, Forgotten
<1>4. Holding(table')
  BY <1>1, <1>2, ForgottenHolding
<1>5. TableTrue(Append(handled, e), table')
  BY <1>1, <1>3, TableTrueKept
<1>6. TableFull(Append(handled, e), table')
  BY <1>1, <1>3, <1>4, <1>5, TableFullKept
<1>7. ASSUME e.pid \in DOMAIN table
      PROVE  \E x : /\ records' = Append(records, x) /\ x.n = e.n /\ x.kind = e.kind /\ x.lifetime >= 0
                    /\ x.exec = table[e.pid].n /\ x.of = table[e.pid].origin
  <2> DEFINE y == table[e.pid]
             lifetime == Max({e.ts - y.ts, 0})
             x == [n |-> e.n, kind |-> "exit", pid |-> e.pid, exec |-> y.n,
                   of |-> y.origin, lifetime |-> lifetime,
                   severity |-> Max({Severity(Assess(y.image)),
                                     Severity(AssessLifecycle(y.image, lifetime))})]
  <2>1. records' = Append(records, x)
    BY <1>7 DEF ProcExit, EmitRecord
  <2>2. y.ts \in Nat
    BY <1>1, <1>7 DEF Holding
  <2> HIDE DEF y
  <2>3. e.ts - y.ts \in Int
    BY <2>2
  <2>4. lifetime >= 0
    BY <2>3, MaxOfTwo
  <2> HIDE DEF lifetime
  <2>5. x.n = e.n /\ x.kind = e.kind /\ x.lifetime >= 0 /\ x.exec = y.n /\ x.of = y.origin
    BY <2>4
  <2> QED
    BY <2>1, <2>5 DEF y
<1>8. ASSUME e.pid \notin DOMAIN table
      PROVE  \E x : /\ records' = Append(records, x) /\ x.n = e.n /\ x.kind = e.kind
                    /\ x.exec = None /\ x.of = None
  <2> DEFINE x == [n |-> e.n, kind |-> "exit", pid |-> e.pid, exec |-> None,
                   of |-> None, lifetime |-> None, severity |-> Severity(Assess(e.image))]
  <2>1. records' = Append(records, x)
    BY <1>8 DEF ProcExit, EmitRecord
  <2>2. x.n = e.n /\ x.kind = e.kind /\ x.exec = None /\ x.of = None
    OBVIOUS
  <2> QED
    BY <2>1, <2>2
<1> DEFINE Past(r) == /\ Agree(Append(handled, e), r) /\ Correlated(Append(handled, e), r)
                      /\ Sound(Append(handled, e), r)
<1>9. CASE e.pid \in DOMAIN table
  <2>1. PICK x : /\ records' = Append(records, x) /\ x.n = e.n /\ x.kind = e.kind /\ x.lifetime >= 0
                 /\ x.exec = table[e.pid].n /\ x.of = table[e.pid].origin
    BY <1>7, <1>9
  <2>2. PICK i \in 1..Len(handled) : EntryOf(handled, table, e.pid, i)
    BY <1>1, <1>9 DEF TableTrue
  <2>3. /\ handled[i].kind = "exec" /\ handled[i].pid = e.pid /\ LastOf(handled, i, Len(handled) + 1)
        /\ x.exec = handled[i].n /\ x.of = handled[i].origin
    BY <2>1, <2>2 DEF EntryOf
  <2>4. \A k \in 1..Len(handled) :
          handled[k].pid = e.pid /\ LastOf(handled, k, Len(handled) + 1) => x.exec = handled[k].n
    <3>1. Len(handled) \in Nat
      BY Grown
    <3> QED
      BY <2>3, <3>1, OneLast
  <2>5. Past(Append(records, x))
    BY <1>1, <2>1, <2>3, <2>4, PastKept
  <2> QED
    BY <1>4, <1>5, <1>6, <2>1, <2>5 DEF Ledger
<1>10. CASE e.pid \notin DOMAIN table
  <2>1. PICK x : /\ records' = Append(records, x) /\ x.n = e.n /\ x.kind = e.kind
                 /\ x.exec = None /\ x.of = None
    BY <1>8, <1>10
  <2>2. ASSUME NEW i \in 1..Len(handled), handled[i].kind = "exec", handled[i].pid = e.pid,
               LastOf(handled, i, Len(handled) + 1),
               Cardinality(Others(handled, i, Len(handled) + 1)) < MaxTracked
        PROVE  FALSE
    <3>1. Cardinality(Others(handled, i, Len(handled) + 1)) >= MaxTracked
      BY <1>1, <1>10, <2>2 DEF TableFull
    <3>2. Cardinality(Others(handled, i, Len(handled) + 1)) \in Nat
      BY OthersGrow
    <3> QED
      BY <2>2, <3>1, <3>2, BusSizes
  <2>5. Past(Append(records, x))
    BY <1>1, <2>1, <2>2, PastKept
  <2> QED
    BY <1>4, <1>5, <1>6, <2>1, <2>5 DEF Ledger
<1> QED
  BY <1>9, <1>10

(***************************************************************************)
(* aiusage: the table names the tool the last exec of a pid started.       *)
(***************************************************************************)

\* Of the events after i and before j, those of the pid are connections.
OnlyConnects(h, i, j) == \A k \in (i + 1)..(j - 1) : h[k].pid = h[i].pid => h[k].kind = "connect"
ToolOf(h, t, p, i) ==
  /\ h[i].kind = "exec" /\ h[i].pid = p /\ MatchToolInCmdline(h[i].cmdline) = t[p].tool
  /\ OnlyConnects(h, i, Len(h) + 1)
ToolsTrue(h, t) == \A p \in DOMAIN t : \E i \in 1..Len(h) : ToolOf(h, t, p, i)

\* A connection that is put down to an interpreter's tool.
Attributed(h, x) ==
  \E j, i \in 1..Len(h) :
    /\ h[j].kind = "connect" /\ h[i].kind = "exec" /\ h[j].n = x.n /\ i < j
    /\ h[i].pid = x.pid /\ MatchToolInCmdline(h[i].cmdline) = x.tool /\ OnlyConnects(h, i, j)
AllAttributed(h, r) == \A k \in 1..Len(r) : r[k].via = "cmdline" => Attributed(h, r[k])

\* An event later, a connection belongs where it did.
LEMMA AttributedLater ==
  ASSUME NEW h, IsSeq(h), NEW e, NEW x, Attributed(h, x) PROVE Attributed(Append(h, e), x)
<1> DEFINE g == Append(h, e)
<1>1. /\ Len(h) \in Nat /\ Len(g) = Len(h) + 1
      /\ \A k \in 1..Len(h) : g[k] = h[k]
  BY Grown
<1> HIDE DEF g
<1>2. PICK j \in 1..Len(h), i \in 1..Len(h) :
        /\ h[j].kind = "connect" /\ h[i].kind = "exec" /\ h[j].n = x.n /\ i < j
        /\ h[i].pid = x.pid /\ MatchToolInCmdline(h[i].cmdline) = x.tool /\ OnlyConnects(h, i, j)
  BY DEF Attributed
<1>3. i \in 1..Len(g) /\ j \in 1..Len(g) /\ g[i] = h[i] /\ g[j] = h[j]
  BY <1>1
<1>4. \A k \in (i + 1)..(j - 1) : g[k] = h[k]
  BY <1>1
<1>5. OnlyConnects(g, i, j)
  BY <1>2, <1>3, <1>4 DEF OnlyConnects
<1>6. Attributed(g, x)
  BY <1>2, <1>3, <1>5 DEF Attributed
<1> QED
  BY <1>6 DEF g

\* The table after an event that changes the entry of its own pid, if it is not a
\* connection.
LEMMA ToolsKept ==
  ASSUME NEW h, IsSeq(h), NEW t, ToolsTrue(h, t), NEW e, NEW u,
         \A q \in DOMAIN u : q # e.pid \/ e.kind = "connect" => q \in DOMAIN t /\ u[q] = t[q],
         e.pid \in DOMAIN u /\ e.kind # "connect" =>
           e.kind = "exec" /\ MatchToolInCmdline(e.cmdline) = u[e.pid].tool
  PROVE  ToolsTrue(Append(h, e), u)
<1> DEFINE g == Append(h, e)
<1>1. /\ Len(h) \in Nat /\ Len(g) = Len(h) + 1
      /\ \A k \in 1..Len(h) : g[k] = h[k]
      /\ g[Len(h) + 1] = e
  BY Grown
<1> HIDE DEF g
<1>2. ASSUME NEW q \in DOMAIN u, q # e.pid \/ e.kind = "connect"
      PROVE  \E i \in 1..Len(g) : ToolOf(g, u, q, i)
  <2>1. q \in DOMAIN t /\ u[q] = t[q]
    BY <1>2
  <2>2. PICK i \in 1..Len(h) : ToolOf(h, t, q, i)
    BY <2>1 DEF ToolsTrue
  <2>3. i \in 1..Len(g) /\ g[i] = h[i]
    BY <1>1
  <2>4. \A k \in (i + 1)..((Len(g) + 1) - 1) :
          (k \in (i + 1)..((Len(h) + 1) - 1) /\ g[k] = h[k]) \/ g[k] = e
    BY <1>1
  <2>5. OnlyConnects(g, i, Len(g) + 1)
    BY <1>2, <2>2, <2>3, <2>4 DEF OnlyConnects, ToolOf
  <2>6. ToolOf(g, u, q, i)
    BY <2>1, <2>2, <2>3, <2>5 DEF ToolOf
  <2> QED
    BY <2>3, <2>6
<1>3. ASSUME e.pid \in DOMAIN u, e.kind # "connect" PROVE \E i \in 1..Len(g) : ToolOf(g, u, e.pid, i)
  <2>1. /\ Len(g) \in 1..Len(g) /\ g[Len(g)] = e
        /\ \A k \in (Len(g) + 1)..((Len(g) + 1) - 1) : FALSE
    BY <1>1
  <2>2. ToolOf(g, u, e.pid, Len(g))
    BY <1>3, <2>1 DEF ToolOf, OnlyConnects
  <2> QED
    BY <2>1, <2>2
<1> QED
  BY <1>2, <1>3 DEF ToolsTrue, g

\* The ledger of aiusage.
AiLedger(h, r, t) == Holding(t) /\ ToolsTrue(h, t) /\ AllAttributed(h, r)

\* A connection of a pid with an entry is put down to its tool.
LEMMA NewAttributed ==
  ASSUME NEW h, IsSeq(h), NEW t, ToolsTrue(h, t), NEW e, e.kind = "connect", e.pid \in DOMAIN t,
         NEW x, x.n = e.n, x.pid = e.pid, x.tool = t[e.pid].tool
  PROVE  Attributed(Append(h, e), x)
<1> DEFINE g == Append(h, e)
<1>1. /\ Len(h) \in Nat /\ Len(g) = Len(h) + 1
      /\ \A k \in 1..Len(h) : g[k] = h[k]
      /\ g[Len(h) + 1] = e
  BY Grown
<1> HIDE DEF g
<1>2. PICK i \in 1..Len(h) : ToolOf(h, t, e.pid, i)
  BY DEF ToolsTrue
<1>3. /\ i \in 1..Len(g) /\ g[i] = h[i] /\ Len(g) \in 1..Len(g) /\ g[Len(g)] = e /\ i < Len(g)
      /\ \A k \in (i + 1)..(Len(g) - 1) : k \in (i + 1)..((Len(h) + 1) - 1) /\ g[k] = h[k]
  BY <1>1
<1>4. OnlyConnects(g, i, Len(g))
  BY <1>2, <1>3 DEF OnlyConnects, ToolOf
<1>5. Attributed(g, x)
  BY <1>2, <1>3, <1>4 DEF Attributed, ToolOf
<1> QED
  BY <1>5 DEF g

\* Every event that aiusage handles keeps its ledger.
LEMMA AiKept ==
  ASSUME IsSeq(handled), IsSeq(records), AiLedger(handled, records, table),
         NEW e, e.pid \in Pid, e.ts \in Nat, AiUsage(e)
  PROVE  AiLedger(Append(handled, e), records', table')
<1>0. Holding(table) /\ ToolsTrue(handled, table) /\ AllAttributed(handled, records)
  BY DEF AiLedger
<1>1. \A x : Attributed(handled, x) => Attributed(Append(handled, e), x)
  BY AttributedLater
<1>2. AllAttributed(Append(handled, e), records)
  BY <1>0, <1>1 DEF AllAttributed
<1>3. ASSUME e.kind # "connect", table' = Forget(table, e.pid), UNCHANGED records
      PROVE  AiLedger(Append(handled, e), records', table')
  <2>1. DOMAIN table' = DOMAIN table \ {e.pid} /\ \A q \in DOMAIN table \ {e.pid} : table'[q] = table[q]
    BY <1>3, Forgotten
  <2>2. Holding(table')
    BY <1>0, <1>3, ForgottenHolding
  <2>3. ToolsTrue(Append(handled, e), table')
    BY <1>0, <1>3, <2>1, ToolsKept
  <2> QED
    BY <1>2, <1>3, <2>2, <2>3 DEF AiLedger
<1>4. CASE e.kind = "exit" /\ AiExit(e)
  BY <1>3, <1>4 DEF AiExit
<1>5. CASE e.kind = "exec" /\ AiExec(e)
  <2> DEFINE tool == IF IsInterpreter(e.image) THEN MatchToolInCmdline(e.cmdline) ELSE None
             v == [tool |-> tool, ts |-> e.ts]
  <2>1. CASE tool = None
    BY <1>3, <1>5, <2>1 DEF AiExec
  <2>2. CASE tool # None
    <3>1. tool = MatchToolInCmdline(e.cmdline)
      BY <2>2
    <3>2. Remember(e.pid, v) /\ UNCHANGED records
      BY <1>5, <2>2 DEF AiExec
    <3>3. PICK old \in Victims(table, e.pid) : table' = Put(Forget(table, old), e.pid, v)
      BY <3>2 DEF Remember, Victims
    <3>4. v.ts = e.ts /\ v.tool = tool /\ v.ts \in Nat
      OBVIOUS
    <3> HIDE DEF v, tool
    <3>5. /\ Holding(table') /\ e.pid \in DOMAIN table' /\ table'[e.pid] = v
          /\ \A q \in DOMAIN table' \ {e.pid} : q \in DOMAIN table /\ table'[q] = table[q]
      BY <1>0, <3>3, <3>4, Remembered
    <3>6. ToolsTrue(Append(handled, e), table')
      BY <1>0, <1>5, <3>1, <3>4, <3>5, ToolsKept
    <3> QED
      BY <1>2, <3>2, <3>5, <3>6 DEF AiLedger
  <2> QED
    BY <2>1, <2>2
<1>6. CASE e.kind = "connect" /\ AiConnect(e)
  <2>1. UNCHANGED table
    BY <1>6 DEF AiConnect
  <2>2. ToolsTrue(Append(handled, e), table)
    BY <1>0, <1>6, ToolsKept
  <2>3. AllAttributed(Append(handled, e), records')
    <3>1. CASE Attribution(e) = None \/ ClassifyScope(e.addr) = None
      BY <1>2, <1>6, <3>1 DEF AiConnect
    <3>2. CASE Attribution(e) # None /\ ClassifyScope(e.addr) # None
      <4> DEFINE a == Attribution(e)
                 x == [n |-> e.n, kind |-> "connect", pid |-> e.pid, of |-> e.origin,
                       tool |-> a.tool, via |-> a.via,
                       scope |-> ClassifyScope(e.addr), runs |-> e.runs, severity |-> Informational]
      <4>1. records' = Append(records, x)
        BY <1>6, <3>2 DEF AiConnect, EmitRecord
      <4>2. a.via = "cmdline" => e.pid \in DOMAIN table /\ a.tool = table[e.pid].tool
        BY <3>2 DEF Attribution
      <4> HIDE DEF a
      <4>3. x.n = e.n /\ x.pid = e.pid /\ x.tool = a.tool /\ x.via = a.via
        OBVIOUS
      <4> HIDE DEF x
      <4>4. x.via = "cmdline" => Attributed(Append(handled, e), x)
        BY <1>0, <1>6, <4>2, <4>3, NewAttributed
      <4>5. /\ Len(records) \in Nat /\ Len(records') = Len(records) + 1
            /\ \A i \in 1..Len(records) : records'[i] = records[i]
            /\ records'[Len(records) + 1] = x
        BY <4>1, Grown
      <4> QED
        BY <1>2, <4>4, <4>5 DEF AllAttributed
    <3> QED
      BY <3>1, <3>2
  <2> QED
    BY <1>0, <2>1, <2>2, <2>3 DEF AiLedger
<1> QED
  BY <1>4, <1>5, <1>6 DEF AiUsage
(***************************************************************************)
(* The tables of both, step by step.                                       *)
(***************************************************************************)

LedgerInv ==
  /\ Holding(table)
  /\ monitor = "procmon" => Ledger(handled, records, table)
  /\ monitor = "aiusage" => AiLedger(handled, records, table)

\* Every step keeps the tables and the records right.
LEMMA LedgerKept ==
  ASSUME SensorTypes, InFlight, Reported, LedgerInv, [SensorsNext]_sensorVars PROVE LedgerInv'
<1>1. CASE UNCHANGED <<monitor, handled, records, table, seen>>
  BY <1>1 DEF LedgerInv
<1>2. CASE Receive
  <2> DEFINE e == Head(backlog)
  <2>0. /\ backlog # <<>> /\ HandleEvent(e) /\ handled' = Append(handled, e) /\ UNCHANGED monitor
        /\ IsSeq(handled) /\ IsSeq(records)
    BY <1>2 DEF Receive, InFlight, Queue, Reported
  <2>1. Expected(monitor, e) /\ IsEvent(e)
    BY <2>0, QueueTaken DEF InFlight
  <2> HIDE DEF e
  <2>2. e.ts \in Nat
    BY <2>1 DEF IsEvent
  <2>3. ASSUME monitor = "procmon" PROVE Ledger(handled', records', table')
    <3>1. ProcMon(e) /\ e.pid \in Pid
      BY <2>0, <2>1, <2>3, Dispatched DEF Expected
    <3>2. Ledger(handled, records, table)
      BY <2>3 DEF LedgerInv
    <3>3. CASE e.kind = "exec" /\ ProcExec(e)
      BY <2>0, <2>2, <3>1, <3>2, <3>3, ExecLedger
    <3>4. CASE e.kind = "exit" /\ ProcExit(e)
      BY <2>0, <2>2, <3>1, <3>2, <3>4, ExitLedger
    <3> QED
      BY <3>1, <3>3, <3>4 DEF ProcMon
  <2>4. ASSUME monitor = "aiusage" PROVE AiLedger(handled', records', table')
    <3>1. AiUsage(e) /\ e.pid \in Pid
      BY <2>0, <2>1, <2>4, Dispatched DEF Expected
    <3>2. AiLedger(handled, records, table)
      BY <2>4 DEF LedgerInv
    <3> QED
      BY <2>0, <2>2, <3>1, <3>2, AiKept
  <2>5. monitor \notin {"procmon", "aiusage"} => UNCHANGED table
    BY <2>0 DEF HandleEvent, NetMon, NetConnect, FileMon, FileActivity, LibLoad, LibOpen
  <2> QED
    BY <2>0, <2>3, <2>4, <2>5 DEF LedgerInv, Ledger, AiLedger
<1> QED
  BY <1>1, <1>2, OnlyReceive

\* At the start the tables are empty.
LEMMA LedgerInit == SensorsInit => LedgerInv
<1> SUFFICES ASSUME SensorsInit PROVE LedgerInv
  OBVIOUS
<1>1. table = <<>> /\ handled = <<>> /\ records = <<>>
  BY DEF SensorsInit, MonitorInit
<1>2. DOMAIN table = {}
  BY <1>1
<1>3. Holding(table)
  BY <1>2, FS_EmptySet, BusSizes DEF Holding, Bounded
<1>4. Ledger(handled, records, table) /\ AiLedger(handled, records, table)
  BY <1>1, <1>2, <1>3, NoneYet DEF Ledger, AiLedger, TableTrue, TableFull, Agree, Correlated, Sound,
     ToolsTrue, AllAttributed
<1> QED
  BY <1>3, <1>4 DEF LedgerInv

(***************************************************************************)
(* While nothing is lost: a pid's events come as its processes made them.  *)
(***************************************************************************)

\* What of an event the drain threads leave alone.
Id(e) == [n |-> e.n, kind |-> e.kind, pid |-> e.pid, origin |-> e.origin]
Ids(s) == {Id(s[i]) : i \in 1..Len(s)}

\* Everything procmon has heard or will hear.
Trace == Ids(handled) \cup Ids(backlog) \cup Ids(rings["EVENTS"])

\* An exec and the exit that is next are of one process; and a pid whose last event is an
\* exec still stands for the process of that exec.
OwnPairs(T) ==
  \A x, y \in T :
    /\ x.kind = "exec" /\ y.kind = "exit" /\ x.pid = y.pid /\ x.n < y.n
    /\ \A z \in T : z.pid = x.pid => ~(x.n < z.n /\ z.n < y.n)
    => x.origin = y.origin
Alive(T, pr, li) ==
  \A x \in T :
    x.kind = "exec" /\ (\A z \in T : z.pid = x.pid => z.n <= x.n) =>
      pr[x.pid] # None /\ li[x.pid] = x.origin
Made(T, n) == \A x \in T : x.n \in Nat /\ x.n <= n /\ x.pid \in Pid

\* A new event is after all the others.
LEMMA PairsGrow ==
  ASSUME NEW T, NEW n \in Nat, Made(T, n), OwnPairs(T), NEW e, e.n = n + 1,
         e.kind = "exit" =>
           \A x \in T : /\ x.kind = "exec" /\ x.pid = e.pid
                        /\ \A z \in T : z.pid = x.pid => z.n <= x.n
                        => x.origin = e.origin
  PROVE  OwnPairs(T \cup {e})
<1> SUFFICES ASSUME NEW x \in T \cup {e}, NEW y \in T \cup {e},
                    x.kind = "exec", y.kind = "exit", x.pid = y.pid, x.n < y.n,
                    \A z \in T \cup {e} : z.pid = x.pid => ~(x.n < z.n /\ z.n < y.n)
             PROVE  x.origin = y.origin
  BY DEF OwnPairs
<1>0. \A z \in T : z.n \in Nat /\ z.n <= n /\ z.n < e.n
  BY DEF Made
<1>1. x \in T
  BY <1>0
<1>2. CASE y \in T
  BY <1>1, <1>2 DEF OwnPairs
<1>3. CASE y = e
  <2>1. \A z \in T : z.pid = x.pid => z.n <= x.n
    BY <1>0, <1>1, <1>3
  <2> QED
    BY <1>1, <1>3, <2>1
<1> QED
  BY <1>2, <1>3

\* An exec: the pid stands for the new process.
LEMMA TraceExec ==
  ASSUME NEW T, NEW n \in Nat, Made(T, n), OwnPairs(T), NEW pr, NEW li, Alive(T, pr, li),
         NEW e, e.n = n + 1, e.kind = "exec", NEW pr2, NEW li2,
         pr2[e.pid] # None, li2[e.pid] = e.origin,
         \A q \in Pid \ {e.pid} : pr2[q] = pr[q] /\ li2[q] = li[q]
  PROVE  OwnPairs(T \cup {e}) /\ Alive(T \cup {e}, pr2, li2)
<1>1. OwnPairs(T \cup {e})
  BY PairsGrow
<1>2. ASSUME NEW x \in T \cup {e}, x.kind = "exec", \A z \in T \cup {e} : z.pid = x.pid => z.n <= x.n
      PROVE  pr2[x.pid] # None /\ li2[x.pid] = x.origin
  <2>1. CASE x = e
    BY <2>1
  <2>2. CASE x \in T /\ x # e
    <3>1. x.n \in Nat /\ x.n <= n /\ x.pid \in Pid
      BY <2>2 DEF Made
    <3>2. x.pid # e.pid
      BY <1>2, <3>1
    <3>3. pr[x.pid] # None /\ li[x.pid] = x.origin
      BY <1>2, <2>2 DEF Alive
    <3> QED
      BY <3>1, <3>2, <3>3
  <2> QED
    BY <2>1, <2>2
<1> QED
  BY <1>1, <1>2 DEF Alive

\* An exit, which is of the process its pid stands for.
LEMMA TraceExit ==
  ASSUME NEW T, NEW n \in Nat, Made(T, n), OwnPairs(T), NEW pr, NEW li, Alive(T, pr, li),
         NEW e, e.n = n + 1, e.kind = "exit", e.origin = li[e.pid], NEW pr2,
         \A q \in Pid \ {e.pid} : pr2[q] = pr[q]
  PROVE  OwnPairs(T \cup {e}) /\ Alive(T \cup {e}, pr2, li)
<1>1. OwnPairs(T \cup {e})
  BY PairsGrow DEF Alive
<1>2. ASSUME NEW x \in T \cup {e}, x.kind = "exec", \A z \in T \cup {e} : z.pid = x.pid => z.n <= x.n
      PROVE  pr2[x.pid] # None /\ li[x.pid] = x.origin
  <2>1. x \in T /\ x.n \in Nat /\ x.n <= n /\ x.pid \in Pid
    BY <1>2 DEF Made
  <2>2. x.pid # e.pid
    BY <1>2, <2>1
  <2>3. pr[x.pid] # None /\ li[x.pid] = x.origin
    BY <1>2, <2>1 DEF Alive
  <2> QED
    BY <2>1, <2>2, <2>3
<1> QED
  BY <1>1, <1>2 DEF Alive

\* A fork, which no event tells of: the pid was free.
LEMMA TraceFork ==
  ASSUME NEW T, NEW n, Made(T, n), NEW pr, NEW li, Alive(T, pr, li), NEW q, pr[q] = None,
         NEW pr2, NEW li2, \A p \in Pid \ {q} : pr2[p] = pr[p] /\ li2[p] = li[p]
  PROVE  Alive(T, pr2, li2)
  BY DEF Alive, Made

\* What is in a queue, an event more or less.
LEMMA IdsMove ==
  ASSUME NEW s, IsSeq(s)
  PROVE  /\ \A e : Ids(Append(s, e)) = Ids(s) \cup {Id(e)}
         /\ s # <<>> => Ids(s) = {Id(Head(s))} \cup Ids(Tail(s))
<1>1. ASSUME NEW e PROVE Ids(Append(s, e)) = Ids(s) \cup {Id(e)}
  <2> DEFINE u == Append(s, e)
  <2>1. /\ Len(s) \in Nat /\ Len(u) = Len(s) + 1
        /\ \A i \in 1..Len(s) : u[i] = s[i]
        /\ u[Len(s) + 1] = e
    BY Grown
  <2> HIDE DEF u
  <2>2. \A i \in 1..Len(u) : i \in 1..Len(s) \/ u[i] = e
    BY <2>1
  <2>3. (\A i \in 1..Len(s) : i \in 1..Len(u)) /\ Len(s) + 1 \in 1..Len(u)
    BY <2>1
  <2>4. Ids(u) = Ids(s) \cup {Id(e)}
    BY <2>1, <2>2, <2>3 DEF Ids
  <2> QED
    BY <2>4 DEF u
<1>2. ASSUME s # <<>> PROVE Ids(s) = {Id(Head(s))} \cup Ids(Tail(s))
  <2> DEFINE u == Tail(s)
  <2>1. /\ Len(s) \in Nat /\ Len(s) >= 1 /\ Len(u) = Len(s) - 1
        /\ Head(s) = s[1] /\ \A i \in 1..Len(u) : u[i] = s[i + 1]
    BY <1>2, Shrunk
  <2> HIDE DEF u
  <2>2. /\ \A i \in 1..Len(s) : i = 1 \/ (i - 1 \in 1..Len(u) /\ s[i] = u[i - 1])
        /\ \A i \in 1..Len(u) : i + 1 \in 1..Len(s)
        /\ 1 \in 1..Len(s)
    BY <2>1
  <2>3. Ids(s) \subseteq {Id(Head(s))} \cup Ids(u)
    BY <2>1, <2>2 DEF Ids
  <2>4. {Id(Head(s))} \cup Ids(u) \subseteq Ids(s)
    BY <2>1, <2>2 DEF Ids
  <2> QED
    BY <2>3, <2>4 DEF u
<1> QED
  BY <1>1, <1>2

\* What procmon has heard is in order, so the same holds of it by position.
PairsOf(h) ==
  \A i, j \in 1..Len(h) :
    h[i].kind = "exec" /\ h[j].kind = "exit" /\ h[i].pid = h[j].pid /\ LastOf(h, i, j)
      => h[i].origin = h[j].origin

\* Because what is still to come was made later than all it has heard.
LEMMA PairsByPosition ==
  ASSUME NEW h, NEW b, NEW q, IsSeq(h), Stream(h, b, q),
         \A i \in 1..Len(h) : h[i].n \in Nat, \A i \in 1..Len(b) : b[i].n \in Nat,
         \A i \in 1..Len(q) : q[i].n \in Nat,
         OwnPairs(Ids(h) \cup Ids(b) \cup Ids(q))
  PROVE  PairsOf(h)
<1> SUFFICES ASSUME NEW i \in 1..Len(h), NEW j \in 1..Len(h),
                    h[i].kind = "exec", h[j].kind = "exit", h[i].pid = h[j].pid, LastOf(h, i, j)
             PROVE  h[i].origin = h[j].origin
  BY DEF PairsOf
<1> DEFINE x == Id(h[i])
           y == Id(h[j])
           T == Ids(h) \cup Ids(b) \cup Ids(q)
<1>0. Len(h) \in Nat
  BY Grown
<1>1. x \in T /\ y \in T
  BY DEF Ids
<1>2. /\ x.kind = "exec" /\ y.kind = "exit" /\ x.pid = y.pid /\ x.pid = h[i].pid /\ x.n = h[i].n
      /\ y.n = h[j].n /\ x.origin = h[i].origin /\ y.origin = h[j].origin
  BY DEF Id
<1>3. x.n < y.n
  BY <1>0, <1>2 DEF LastOf, Stream, InOrder
<1>4. ASSUME NEW z \in T, z.pid = x.pid, x.n < z.n, z.n < y.n PROVE FALSE
  <2>1. CASE z \in Ids(h)
    <3>1. PICK k \in 1..Len(h) : z = Id(h[k])
      BY <2>1 DEF Ids
    <3>2. z.n = h[k].n /\ z.pid = h[k].pid
      BY <3>1 DEF Id
    <3>3. i < k /\ k < j
      <4>1. h[i].n \in Nat /\ h[k].n \in Nat /\ h[j].n \in Nat /\ h[i].n < h[k].n /\ h[k].n < h[j].n
        BY <1>2, <1>4, <3>2
      <4>2. ~(k < i) /\ k # i /\ ~(j < k) /\ k # j
        BY <4>1 DEF Stream, InOrder
      <4> QED
        BY <1>0, <4>2
    <3>4. k \in (i + 1)..(j - 1)
      BY <1>0, <3>3
    <3> QED
      BY <1>2, <1>4, <3>2, <3>4 DEF LastOf
  <2>2. CASE z \in Ids(b)
    <3>1. PICK k \in 1..Len(b) : z = Id(b[k])
      BY <2>2 DEF Ids
    <3>2. z.n = b[k].n /\ h[j].n < b[k].n
      BY <3>1 DEF Id, Stream, Before
    <3> QED
      BY <1>2, <1>4, <3>2
  <2>3. CASE z \in Ids(q)
    <3>1. PICK k \in 1..Len(q) : z = Id(q[k])
      BY <2>3 DEF Ids
    <3>2. z.n = q[k].n /\ h[j].n < q[k].n
      BY <3>1 DEF Id, Stream, Before
    <3> QED
      BY <1>2, <1>4, <3>2
  <2> QED
    BY <2>1, <2>2, <2>3
<1> HIDE DEF x, y, T
<1>5. x.origin = y.origin
  BY <1>1, <1>2, <1>3, <1>4 DEF OwnPairs, T
<1> QED
  BY <1>2, <1>5
\* What is lost stays lost.
LEMMA LossesStay ==
  ASSUME SensorTypes, [SensorsNext]_sensorVars, Lossless' PROVE Lossless
<1>0. dropped \in Nat /\ lagged \in BOOLEAN
  BY DEF SensorTypes
<1>1. dropped' = dropped \/ dropped' = dropped + 1
  BY DEF SensorsNext, EbpfNext, Fork, Exec, Exit, Connect, OpenAt, Write, Call, Drain, StopPolling, Submit,
     EtwNext, Start, StopProcess, ConnectAttempt, CreateFile, CloseFile, WriteFile, EtwCall, sensorVars,
     ebpfVars
<1>2. misses \subseteq misses'
  BY DEF SensorsNext, EtwNext, Start, StopProcess, ConnectAttempt, CreateFile, CloseFile, WriteFile, Observed,
     sensorVars, etwVars
<1>3. lagged => lagged'
  <2>1. UNCHANGED lagged \/ \E e : Publish(e)
    BY DEF SensorsNext, EbpfNext, Fork, Exec, Exit, Connect, OpenAt, Write, Call, Drain, StopPolling,
       EtwNext, Start, StopProcess, ConnectAttempt, CreateFile, CloseFile, WriteFile, EtwCall, Observed,
       MonitorNext, Receive, StopMonitor, sensorVars, monVars
  <2> QED
    BY <1>0, <2>1 DEF Publish
<1> QED
  BY <1>0, <1>1, <1>2, <1>3 DEF Lossless

OwnTrace == OwnPairs(Trace) /\ Alive(Trace, proc, life)

\* What procmon has heard and will hear are events of pids, made by now.
LEMMA TraceMade ==
  ASSUME InFlight, monitor = "procmon" PROVE Made(Trace, ops)
<1>1. ASSUME NEW s, Queue(s, ops, monitor), NEW x \in Ids(s)
      PROVE  x.n \in Nat /\ x.n <= ops /\ x.pid \in Pid
  <2>1. PICK i \in 1..Len(s) : x = Id(s[i])
    BY DEF Ids
  <2>2. IsEvent(s[i]) /\ s[i].n <= ops /\ Expected(monitor, s[i])
    BY <1>1 DEF Queue
  <2> QED
    BY <2>1, <2>2 DEF Id, IsEvent, Expected
<1>2. "EVENTS" \in Ring
  BY DEF Ring
<1> QED
  BY <1>1, <1>2 DEF Trace, InFlight, Made

\* The tracepoints: an event joins the ring unless it is dropped, and reaches the bus
\* unless the monitor lags.
LEMMA EbpfTrace ==
  ASSUME SensorTypes, InFlight, monitor = "procmon", ~stopped, OwnTrace, EbpfNext, Lossless, Lossless'
  PROVE  OwnTrace'
<1>0. /\ ops \in Nat /\ life \in [Pid -> Nat] /\ proc = [p \in Pid |-> proc[p]]
      /\ IsSeq(backlog) /\ IsSeq(handled) /\ "EVENTS" \in Ring /\ IsSeq(rings["EVENTS"])
      /\ rings = [r \in Ring |-> rings[r]] /\ Len(backlog) <= BusCap /\ lagged \in BOOLEAN
      /\ dropped = 0 /\ dropped' = 0 /\ lagged' = FALSE
  BY DEF SensorTypes, InFlight, Queue, Ring, Lossless
<1>m. Made(Trace, ops) /\ OwnPairs(Trace) /\ Alive(Trace, proc, life)
  BY TraceMade DEF OwnTrace
<1>h. Handles(monitor) = {"exec", "exit"}
  BY DEF Handles
<1>s. ASSUME NEW e, Submit("EVENTS", e), UNCHANGED monVars PROVE Trace' = Trace \cup {Id(e)}
  <2>1. rings' = [rings EXCEPT !["EVENTS"] = Append(rings["EVENTS"], e)]
    BY <1>0, <1>s DEF Submit
  <2>2. rings'["EVENTS"] = Append(rings["EVENTS"], e)
    BY <1>0, <2>1
  <2>3. Ids(Append(rings["EVENTS"], e)) = Ids(rings["EVENTS"]) \cup {Id(e)}
    BY <1>0, IdsMove
  <2> QED
    BY <1>s, <2>2, <2>3 DEF Trace, monVars
<1>1. ASSUME NEW p \in Pid, NEW q \in Pid, Fork(p, q) PROVE OwnTrace'
  <2>1. /\ Trace' = Trace /\ proc[q] = None
        /\ \A x \in Pid \ {q} : proc'[x] = proc[x] /\ life'[x] = life[x]
    BY <1>0, <1>1 DEF Fork, Call, monVars, Trace, Running
  <2> QED
    BY <1>m, <2>1, TraceFork DEF OwnTrace
<1>2. ASSUME NEW p \in Pid, NEW g \in Program[monitor], Exec(p, g) PROVE OwnTrace'
  <2> DEFINE e == [Record("exec", p, g.image) EXCEPT !.origin = ops + 1]
  <2>1. e.n = ops + 1 /\ e.kind = "exec" /\ e.pid = p /\ e.origin = ops + 1
    BY <1>0, RecordFacts DEF IsEvent, EventFields
  <2>2. Submit("EVENTS", e) /\ UNCHANGED monVars
    BY <1>2 DEF Exec, Call
  <2> HIDE DEF e
  <2>3. Trace' = Trace \cup {Id(e)}
    BY <1>s, <2>2
  <2>4. /\ Id(e).n = ops + 1 /\ Id(e).kind = "exec" /\ Id(e).pid = p /\ Id(e).origin = ops + 1
    BY <2>1 DEF Id
  <2>5. g # None
    BY Programs DEF SensorTypes
  <2>6. /\ proc'[p] = g /\ life'[p] = ops + 1
        /\ \A x \in Pid \ {p} : proc'[x] = proc[x] /\ life'[x] = life[x]
    BY <1>0, <1>2 DEF Exec
  <2>7. OwnPairs(Trace \cup {Id(e)}) /\ Alive(Trace \cup {Id(e)}, proc', life')
    <3> DEFINE x == Id(e)
    <3> HIDE DEF x
    <3>1. /\ x.n = ops + 1 /\ x.kind = "exec" /\ proc'[x.pid] # None /\ life'[x.pid] = x.origin
          /\ \A q \in Pid \ {x.pid} : proc'[q] = proc[q] /\ life'[q] = life[q]
      BY <2>4, <2>5, <2>6 DEF x
    <3>2. OwnPairs(Trace \cup {x}) /\ Alive(Trace \cup {x}, proc', life')
      <4>1. ops \in Nat
        BY <1>0
      <4> QED
        BY <1>m, <3>1, <4>1, TraceExec, SMTT(30)
    <3> QED
      BY <3>2 DEF x
  <2> QED
    BY <2>3, <2>7 DEF OwnTrace
<1>3. ASSUME NEW p \in Pid, Exit(p) PROVE OwnTrace'
  <2> DEFINE e == Record("exit", p, proc[p].image)
  <2>1. e.n = ops + 1 /\ e.kind = "exit" /\ e.pid = p /\ e.origin = life[p]
    BY <1>0, RecordFacts
  <2>2. Submit("EVENTS", e) /\ UNCHANGED <<monVars, life>>
    BY <1>3 DEF Exit, Call
  <2> HIDE DEF e
  <2>3. Trace' = Trace \cup {Id(e)}
    BY <1>s, <2>2
  <2>4. Id(e).n = ops + 1 /\ Id(e).kind = "exit" /\ Id(e).pid = p /\ Id(e).origin = life[p]
    BY <2>1 DEF Id
  <2>5. \A x \in Pid \ {p} : proc'[x] = proc[x]
    BY <1>0, <1>3 DEF Exit
  <2>6. OwnPairs(Trace \cup {Id(e)}) /\ Alive(Trace \cup {Id(e)}, proc', life)
    <3> DEFINE z == Id(e)
    <3> HIDE DEF z
    <3>1. z.n = ops + 1 /\ z.kind = "exit" /\ z.pid = p /\ z.origin = life[z.pid]
      BY <2>4 DEF z
    <3>2. \A x \in Pid \ {z.pid} : proc'[x] = proc[x]
      BY <2>5, <3>1
    <3>3. ops \in Nat /\ Made(Trace, ops) /\ OwnPairs(Trace) /\ Alive(Trace, proc, life)
      BY <1>0, <1>m
    <3>4. OwnPairs(Trace \cup {z}) /\ Alive(Trace \cup {z}, proc', life)
      BY <3>1, <3>2, <3>3, TraceExit
    <3> QED
      BY <3>4 DEF z
  <2> QED
    BY <2>2, <2>3, <2>6 DEF OwnTrace
<1>4. ASSUME NEW r \in Ring, Drain(r) PROVE OwnTrace'
  <2>0. /\ rings[r] # <<>> /\ rings' = [rings EXCEPT ![r] = Tail(rings[r])]
        /\ UNCHANGED <<handled, proc, life>>
    BY <1>4 DEF Drain, kernel
  <2>1. r = "EVENTS"
    BY <2>0 DEF InFlight, OneStream, RingOf
  <2> DEFINE q == rings["EVENTS"]
             h == Head(q)
  <2>2. PICK t \in Stamp(r) : Publish([Enrich(r, h) EXCEPT !.ts = t])
    BY <1>4, <2>1 DEF Drain
  <2> DEFINE e == [Enrich(r, h) EXCEPT !.ts = t]
  <2>3. t \in Nat
    BY Clock DEF Stamp, SensorTypes
  <2>4. IsEvent(h)
    BY <2>0, <2>1, QueueTaken DEF InFlight
  <2>5. IsEvent(e) /\ e.n = h.n /\ e.kind = h.kind /\ e.pid = h.pid /\ e.origin = h.origin
    <3> HIDE DEF h
    <3> QED
      BY <2>3, <2>4, DrainEvent
  <2>6. Publish(e)
    BY <2>2
  <2>7. Ids(q) = {Id(h)} \cup Ids(Tail(q))
    BY <1>0, <2>0, <2>1, IdsMove
  <2> HIDE DEF q, h, e
  <2>8. Id(e) = Id(h)
    BY <2>5 DEF Id
  <2>9. backlog' = Append(backlog, e)
    BY <1>0, <2>6, PublishShape
  <2>10. Ids(backlog') = Ids(backlog) \cup {Id(e)}
    BY <1>0, <2>9, IdsMove
  <2>11. rings'["EVENTS"] = Tail(q)
    BY <1>0, <2>0, <2>1 DEF q
  <2>12. Trace' = Trace
    BY <2>0, <2>7, <2>8, <2>10, <2>11 DEF Trace, q
  <2> QED
    BY <1>m, <2>0, <2>12 DEF OwnTrace
<1>5. ASSUME StopPolling PROVE OwnTrace'
  BY <1>m, <1>5 DEF StopPolling, kernel, monVars, Trace, OwnTrace
<1>6. ASSUME NEW p, NEW d, Connect(p, d) \/ OpenAt(p, d) \/ Write(p) PROVE FALSE
  BY <1>h, <1>6 DEF Connect, OpenAt, Write, Call
<1> QED
  BY <1>1, <1>2, <1>3, <1>4, <1>5, <1>6 DEF EbpfNext

\* The session's records: an event reaches the bus unless it is lost or the monitor lags.
LEMMA EtwTrace ==
  ASSUME SensorTypes, InFlight, monitor = "procmon", ~stopped, OwnTrace, EtwNext, Lossless, Lossless'
  PROVE  OwnTrace'
<1>0. /\ ops \in Nat /\ life \in [Pid -> Nat] /\ proc = [p \in Pid |-> proc[p]]
      /\ IsSeq(backlog) /\ IsSeq(handled) /\ Len(backlog) <= BusCap /\ lagged \in BOOLEAN
      /\ misses' = {} /\ lagged' = FALSE
  BY DEF SensorTypes, InFlight, Queue, Lossless
<1>m. Made(Trace, ops) /\ OwnPairs(Trace) /\ Alive(Trace, proc, life)
  BY TraceMade DEF OwnTrace
<1>h. Handles(monitor) = {"exec", "exit"} /\ Time[monitor] \subseteq Nat
  BY Clock DEF Handles, SensorTypes
<1>s. ASSUME NEW e, Publish(e), UNCHANGED <<rings, handled>> PROVE Trace' = Trace \cup {Id(e)}
  <2>1. backlog' = Append(backlog, e)
    BY <1>0, <1>s, PublishShape
  <2>2. Ids(backlog') = Ids(backlog) \cup {Id(e)}
    BY <1>0, <2>1, IdsMove
  <2> QED
    BY <1>s, <2>2 DEF Trace
<1>1. ASSUME NEW p \in Pid, NEW g \in Program[monitor], Start(p, g) PROVE OwnTrace'
  <2>1. PICK c \in {None, g.cmdline}, t \in Time[monitor] :
          Observed("start", /\ Publish(StartEvent(p, g.image, c, t))
                            /\ UNCHANGED <<cache, order>>)
    BY <1>1 DEF Start, StartEvent
  <2> DEFINE e == StartEvent(p, g.image, c, t)
  <2>2. e.n = ops + 1 /\ e.kind = "exec" /\ e.pid = p /\ e.origin = ops + 1
    BY <1>0, <1>h, StartFacts
  <2>3. Publish(e)
    BY <1>0, <2>1 DEF Observed
  <2> HIDE DEF e
  <2>4. Trace' = Trace \cup {Id(e)}
    BY <1>1, <1>s, <2>3 DEF Start, EtwCall
  <2>5. Id(e).n = ops + 1 /\ Id(e).kind = "exec" /\ Id(e).pid = p /\ Id(e).origin = ops + 1
    BY <2>2 DEF Id
  <2>6. g # None
    BY Programs DEF SensorTypes
  <2>7. /\ proc'[p] = g /\ life'[p] = ops + 1
        /\ \A x \in Pid \ {p} : proc'[x] = proc[x] /\ life'[x] = life[x]
    BY <1>0, <1>1 DEF Start
  <2>8. OwnPairs(Trace \cup {Id(e)}) /\ Alive(Trace \cup {Id(e)}, proc', life')
    <3> DEFINE x == Id(e)
    <3> HIDE DEF x
    <3>1. /\ x.n = ops + 1 /\ x.kind = "exec" /\ proc'[x.pid] # None /\ life'[x.pid] = x.origin
          /\ \A q \in Pid \ {x.pid} : proc'[q] = proc[q] /\ life'[q] = life[q]
      BY <2>5, <2>6, <2>7 DEF x
    <3>2. OwnPairs(Trace \cup {x}) /\ Alive(Trace \cup {x}, proc', life')
      <4>1. ops \in Nat
        BY <1>0
      <4> QED
        BY <1>m, <3>1, <4>1, TraceExec, SMTT(30)
    <3> QED
      BY <3>2 DEF x
  <2> QED
    BY <2>4, <2>8 DEF OwnTrace
<1>2. ASSUME NEW p \in Pid, StopProcess(p) PROVE OwnTrace'
  <2>1. PICK t \in Time[monitor] :
          Observed("stop", /\ Publish(StopEvent(p, proc[p].image, t))
                           /\ UNCHANGED <<cache, order>>)
    BY <1>2 DEF StopProcess, StopEvent
  <2> DEFINE e == StopEvent(p, proc[p].image, t)
  <2>2. e.n = ops + 1 /\ e.kind = "exit" /\ e.pid = p /\ e.origin = life[p]
    BY <1>0, <1>h, StopFacts
  <2>3. Publish(e)
    BY <1>0, <2>1 DEF Observed
  <2> HIDE DEF e
  <2>4. Trace' = Trace \cup {Id(e)}
    BY <1>2, <1>s, <2>3 DEF StopProcess, EtwCall
  <2>5. Id(e).n = ops + 1 /\ Id(e).kind = "exit" /\ Id(e).pid = p /\ Id(e).origin = life[p]
    BY <2>2 DEF Id
  <2>6. \A x \in Pid \ {p} : proc'[x] = proc[x]
    BY <1>0, <1>2 DEF StopProcess
  <2>7. OwnPairs(Trace \cup {Id(e)}) /\ Alive(Trace \cup {Id(e)}, proc', life)
    BY <1>0, <1>m, <2>5, <2>6, TraceExit
  <2> QED
    BY <1>2, <2>4, <2>7 DEF OwnTrace, StopProcess
<1>3. ASSUME NEW p, NEW d, ConnectAttempt(p, d) \/ CreateFile(p, d) \/ CloseFile(p) \/ WriteFile(p)
      PROVE  FALSE
  BY <1>h, <1>3 DEF ConnectAttempt, CreateFile, CloseFile, WriteFile, EtwCall
<1> QED
  BY <1>1, <1>2, <1>3 DEF EtwNext

\* While nothing is lost: an exec and the exit of its pid that is heard next are of one
\* process, and as long as the monitor runs so are those on their way.
LosslessInv ==
  monitor = "procmon" /\ Lossless => PairsOf(handled) /\ (~stopped => OwnTrace)

\* Every step keeps it.
LEMMA LosslessKept ==
  ASSUME SensorTypes, InFlight, LosslessInv, InFlight', [SensorsNext]_sensorVars PROVE LosslessInv'
<1> SUFFICES ASSUME monitor' = "procmon", Lossless' PROVE PairsOf(handled') /\ (~stopped' => OwnTrace')
  BY DEF LosslessInv
<1>0. Lossless
  BY LossesStay
<1>1. monitor = "procmon"
  BY OnlyReceive DEF Receive
<1>2. PairsOf(handled) /\ (~stopped => OwnTrace)
  BY <1>0, <1>1 DEF LosslessInv
<1>3. CASE EbpfNext /\ ~stopped
  <2>1. UNCHANGED <<handled, stopped>>
    BY <1>3 DEF EbpfNext, Fork, Exec, Exit, Connect, OpenAt, Write, Call, Drain, StopPolling, monVars
  <2> QED
    BY <1>0, <1>1, <1>2, <1>3, <2>1, EbpfTrace
<1>4. CASE EtwNext /\ ~stopped
  <2>1. UNCHANGED <<handled, stopped>>
    BY <1>4 DEF EtwNext, Start, StopProcess, ConnectAttempt, CreateFile, CloseFile, WriteFile, EtwCall
  <2> QED
    BY <1>0, <1>1, <1>2, <1>4, <2>1, EtwTrace
<1>5. CASE Receive /\ UNCHANGED <<ebpfVars, backend, etwVars>>
  <2>0. /\ ~stopped /\ UNCHANGED <<proc, life, rings, stopped>> /\ backlog # <<>>
        /\ backlog' = Tail(backlog) /\ handled' = Append(handled, Head(backlog))
    BY <1>5 DEF Receive, ebpfVars, kernel
  <2>1. IsSeq(backlog) /\ IsSeq(handled)
    BY DEF InFlight, Queue
  <2>2. Ids(backlog) = {Id(Head(backlog))} \cup Ids(Tail(backlog))
    BY <2>0, <2>1, IdsMove
  <2>3. Ids(handled') = Ids(handled) \cup {Id(Head(backlog))}
    BY <2>0, <2>1, IdsMove
  <2>4. Trace' = Trace
    BY <2>0, <2>2, <2>3 DEF Trace
  <2>5. OwnTrace'
    BY <1>2, <2>0, <2>4 DEF OwnTrace
  <2>6. /\ IsSeq(handled') /\ Stream(handled', backlog', rings'["EVENTS"])
        /\ \A i \in 1..Len(handled') : handled'[i].n \in Nat
        /\ \A i \in 1..Len(backlog') : backlog'[i].n \in Nat
        /\ \A i \in 1..Len(rings'["EVENTS"]) : rings'["EVENTS"][i].n \in Nat
    <3>1. RingOf(monitor') = "EVENTS" /\ "EVENTS" \in Ring
      BY DEF RingOf, Ring
    <3> QED
      BY <3>1 DEF InFlight, OneStream, Queue, IsEvent
  <2>7. PairsOf(handled')
    BY <2>5, <2>6, PairsByPosition DEF OwnTrace, Trace
  <2> QED
    BY <2>5, <2>7
<1>6. CASE StopMonitor
  BY <1>2, <1>6 DEF StopMonitor
<1>7. CASE UNCHANGED sensorVars
  BY <1>2, <1>7 DEF sensorVars, monVars, ebpfVars, kernel, OwnTrace, Trace
<1> QED
  BY <1>3, <1>4, <1>5, <1>6, <1>7 DEF SensorsNext, MonitorNext

\* At the start nothing has happened.
LEMMA LosslessInit == SensorsInit => LosslessInv
<1> SUFFICES ASSUME SensorsInit PROVE LosslessInv
  OBVIOUS
<1>1. handled = <<>> /\ backlog = <<>> /\ "EVENTS" \in Ring /\ rings["EVENTS"] = <<>>
  BY DEF SensorsInit, MonitorInit, EbpfInit, Ring
<1>2. Trace = {}
  BY <1>1, NoneYet DEF Trace, Ids
<1> QED
  BY <1>1, <1>2, NoneYet DEF LosslessInv, PairsOf, OwnTrace, OwnPairs, Alive

(***************************************************************************)
(* What the ledgers say.                                                   *)
(***************************************************************************)

\* One exec accounts for one exit: between two exits of a pid with nothing heard of it
\* before the second but the exec, the exec came after the first.
LEMMA UsedOnce ==
  ASSUME SensorTypes, InFlight, LedgerInv PROVE ExecUsedOnce
<1> SUFFICES ASSUME monitor = "procmon", NEW i \in 1..Len(records), NEW j \in 1..Len(records),
                    records[i].kind = "exit", records[i].exec # None
             PROVE  /\ records[i].lifetime >= 0
                    /\ records[j].kind = "exit" /\ records[j].exec = records[i].exec => i = j
  BY DEF ExecUsedOnce
<1>0. /\ Agree(handled, records) /\ Sound(handled, records) /\ InOrder(handled) /\ Len(handled) \in Nat
      /\ \A k \in 1..Len(handled) : handled[k].n \in Nat
  BY Grown DEF LedgerInv, Ledger, InFlight, OneStream, Stream, Queue, IsEvent
<1>1. i \in 1..Len(handled) /\ j \in 1..Len(handled) /\ handled[i].kind = "exit"
  BY <1>0 DEF Agree
<1>2. FoundExec(handled, records, i)
  BY <1>0, <1>1 DEF Sound
<1>3. ASSUME records[j].kind = "exit", records[j].exec = records[i].exec PROVE i = j
  <2>1. FoundExec(handled, records, j)
    <3>1. handled[j].kind = "exit" /\ records[j].exec # None
      BY <1>0, <1>1, <1>3 DEF Agree
    <3> QED
      BY <1>0, <1>1, <3>1 DEF Sound
  <2>2. PICK a \in 1..Len(handled) : /\ handled[a].pid = handled[i].pid /\ LastOf(handled, a, i)
                                     /\ records[i].exec = handled[a].n
    BY <1>2 DEF FoundExec
  <2>3. PICK b \in 1..Len(handled) : /\ handled[b].pid = handled[j].pid /\ LastOf(handled, b, j)
                                     /\ records[j].exec = handled[b].n
    BY <2>1 DEF FoundExec
  <2>4. a = b
    <3>1. handled[a].n = handled[b].n /\ handled[a].n \in Nat
      BY <1>0, <1>3, <2>2, <2>3
    <3>2. ~(a < b) /\ ~(b < a)
      BY <1>0, <3>1 DEF InOrder
    <3> QED
      BY <3>2
  <2>5. i < j => i \in (a + 1)..(j - 1)
    BY <2>2 DEF LastOf
  <2>6. j < i => j \in (a + 1)..(i - 1)
    BY <2>3, <2>4 DEF LastOf
  <2>7. ~(i < j) /\ ~(j < i)
    BY <2>2, <2>3, <2>4, <2>5, <2>6 DEF LastOf
  <2> QED
    BY <1>1, <2>7
<1> QED
  BY <1>2, <1>3 DEF FoundExec

\* The rest of what procmon and aiusage promise.
LEMMA LedgerEnough ==
  ASSUME SensorTypes, InFlight, LedgerInv, LosslessInv
  PROVE  TableBounded /\ RecentExitCorrelated /\ AttributedToLastExec /\ OwnExec
<1>1. TableBounded
  BY DEF LedgerInv, Holding, Bounded, TableBounded
<1>2. RecentExitCorrelated
  <2> SUFFICES ASSUME monitor = "procmon", NEW i \in Seen("exec"), NEW j \in Seen("exit"),
                      i < j, handled[j].pid = handled[i].pid,
                      \A k \in (i + 1)..(j - 1) : handled[k].pid # handled[i].pid,
                      Cardinality({k \in Seen("exec") : k < j /\ k # i
                                     /\ (k > i \/ handled[k].ts >= handled[i].ts)}) < MaxTracked
               PROVE  \E r \in 1..Len(records) :
                        records[r].n = handled[j].n /\ records[r].exec = handled[i].n
    BY DEF RecentExitCorrelated
  <2>1. Agree(handled, records) /\ Correlated(handled, records)
    BY DEF LedgerInv, Ledger
  <2>2. LastOf(handled, i, j)
    BY DEF LastOf
  <2>3. Others(handled, i, j) = {k \in Seen("exec") : k < j /\ k # i
                                     /\ (k > i \/ handled[k].ts >= handled[i].ts)}
    BY DEF Others, Seen
  <2>4. /\ i \in 1..Len(handled) /\ j \in 1..Len(handled) /\ handled[i].kind = "exec"
        /\ handled[j].kind = "exit"
    BY DEF Seen
  <2>5. records[j].exec = handled[i].n
    BY <2>1, <2>2, <2>3, <2>4 DEF Correlated
  <2> QED
    BY <2>1, <2>4, <2>5 DEF Agree
<1>3. AttributedToLastExec
  <2> SUFFICES ASSUME monitor = "aiusage", NEW r \in 1..Len(records), records[r].via = "cmdline"
               PROVE  \E j \in Seen("connect"), i \in Seen("exec") :
                        /\ handled[j].n = records[r].n /\ i < j
                        /\ handled[i].pid = records[r].pid
                        /\ MatchToolInCmdline(handled[i].cmdline) = records[r].tool
                        /\ \A k \in (i + 1)..(j - 1) :
                             handled[k].pid = handled[i].pid => handled[k].kind = "connect"
    BY DEF AttributedToLastExec
  <2>1. Attributed(handled, records[r])
    BY DEF LedgerInv, AiLedger, AllAttributed
  <2> QED
    BY <2>1 DEF Attributed, OnlyConnects, Seen
<1>4. OwnExec
  <2> SUFFICES ASSUME monitor = "procmon", Lossless, NEW r \in 1..Len(records),
                      records[r].kind = "exit", records[r].of # None
               PROVE  \E i \in 1..Len(handled) :
                        handled[i].n = records[r].n /\ handled[i].origin = records[r].of
    BY DEF OwnExec
  <2>1. Agree(handled, records) /\ Sound(handled, records) /\ PairsOf(handled)
    BY DEF LedgerInv, Ledger, LosslessInv
  <2>2. r \in 1..Len(handled) /\ handled[r].kind = "exit" /\ handled[r].n = records[r].n
    BY <2>1 DEF Agree
  <2>3. PICK i \in 1..Len(handled) : /\ handled[i].kind = "exec" /\ handled[i].pid = handled[r].pid
                                     /\ LastOf(handled, i, r) /\ records[r].of = handled[i].origin
    BY <2>1, <2>2 DEF Sound, FoundExec
  <2>4. handled[i].origin = handled[r].origin
    BY <2>1, <2>2, <2>3 DEF PairsOf
  <2> QED
    BY <2>2, <2>3, <2>4
<1> QED
  BY <1>1, <1>2, <1>3, <1>4

\* ExecMatched, for every set of pids and programs, every clock and every capacity: the tables
\* of procmon and aiusage stay bounded; an exec accounts for one exit at most; an exit finds
\* the last exec of its pid unless MaxTracked others could have taken its place; a connection
\* is put down to a tool only by the exec that was the last heard of its pid; and while
\* nothing is lost no exit is put down to another process that had the pid.
THEOREM ExecsMatched == SensorsSpec => []ExecMatched
<1> DEFINE Inv == SensorTypes /\ InFlight /\ Reported /\ LedgerInv /\ LosslessInv
<1>1. SensorsInit => Inv
  BY InFlightInit, ReportedInit, LedgerInit, LosslessInit
<1>2. Inv /\ [SensorsNext]_sensorVars => Inv'
  BY InFlightKept, TypesKept, ReportedKept, LedgerKept, LosslessKept
<1>3. Inv => ExecMatched
  BY UsedOnce, LedgerEnough DEF ExecMatched
<1> QED
  BY <1>1, <1>2, <1>3, PTL DEF SensorsSpec
(***************************************************************************)
(* The event file.                                                         *)
(***************************************************************************)

\* The functions by which SizeOf is defined, up to n.
Sums(F, s, n) == F = [i \in 0..n |-> IF i = 0 THEN 0 ELSE F[i - 1] + LineSize[s[i]]]

\* Lines that were emitted.
Line == 1..Len(LineSize)

\* There is one: each of its values is made from the one before.
LEMMA SumsExist ==
  ASSUME NEW s \in Seq(Line)
  PROVE  \E F : Sums(F, s, Len(s))
<1> DEFINE Summed == {n \in 0..Len(s) : \E F : Sums(F, s, n)}
<1>0. Len(s) \in Nat
  OBVIOUS
<1>1. 0 \in Summed
  <2>1. Sums([i \in 0..0 |-> 0], s, 0)
    BY DEF Sums
  <2> QED BY <1>0, <2>1
<1>2. ASSUME NEW n \in 0..Len(s), n \in Summed, n < Len(s)
      PROVE  n + 1 \in Summed
  <2>1. PICK F : Sums(F, s, n)
    BY <1>2
  <2> DEFINE G == [i \in 0..(n + 1) |-> IF i = n + 1 THEN F[n] + LineSize[s[n + 1]] ELSE F[i]]
  <2>2. \A i \in 0..n : G[i] = F[i]
    BY <1>0
  <2>3. \A i \in 0..n : F[i] = IF i = 0 THEN 0 ELSE F[i - 1] + LineSize[s[i]]
    BY <2>1 DEF Sums
  <2>4. G[n + 1] = F[n] + LineSize[s[n + 1]] /\ n + 1 # 0
    BY <1>0
  <2>5. G = [i \in 0..(n + 1) |-> G[i]]
    OBVIOUS
  <2> HIDE DEF G
  <2>6. ASSUME NEW i \in 0..(n + 1)
        PROVE  G[i] = IF i = 0 THEN 0 ELSE G[i - 1] + LineSize[s[i]]
    <3>1. CASE i = n + 1
      BY <1>0, <2>2, <2>4, <3>1
    <3>2. CASE i \in 0..n
      <4>1. i # 0 => i - 1 \in 0..n
        BY <1>0, <3>2
      <4> QED BY <2>2, <2>3, <3>2, <4>1
    <3> QED BY <1>0, <3>1, <3>2
  <2>7. Sums(G, s, n + 1)
    BY <2>5, <2>6 DEF Sums
  <2>8. n + 1 \in 0..Len(s)
    BY <1>0, <1>2
  <2> QED BY <2>7, <2>8
<1>3. \A i \in 0..Len(s) : i \in Summed /\ i < Len(s) => i + 1 \in Summed
  BY <1>2
<1>4. Len(s) \in Summed
  <2> HIDE DEF Summed
  <2>1. \A i \in 0..Len(s) : i \in Summed
    BY <1>0, <1>1, <1>3, UpTo
  <2> QED BY <1>0, <2>1
<1> QED BY <1>4

\* So SizeOf is the last value of such a function.
LEMMA SizeOfSums ==
  ASSUME NEW s \in Seq(Line)
  PROVE  \E F : Sums(F, s, Len(s)) /\ SizeOf(s) = F[Len(s)]
<1> DEFINE S == CHOOSE F : F = [i \in 0..Len(s) |-> IF i = 0 THEN 0 ELSE F[i - 1] + LineSize[s[i]]]
<1>1. SizeOf(s) = S[Len(s)]
  BY DEF SizeOf
<1>2. \E F : F = [i \in 0..Len(s) |-> IF i = 0 THEN 0 ELSE F[i - 1] + LineSize[s[i]]]
  BY SumsExist DEF Sums
<1>3. S = [i \in 0..Len(s) |-> IF i = 0 THEN 0 ELSE S[i - 1] + LineSize[s[i]]]
  BY <1>2
<1> HIDE DEF S
<1> QED BY <1>1, <1>3 DEF Sums

\* bytes_written counts what the file holds: a line adds its size, and a size is positive.
LEMMA SizeOfAppend ==
  ASSUME NEW s \in Seq(Line), NEW l \in Line
  PROVE  SizeOf(Append(s, l)) = SizeOf(s) + LineSize[l]
<1> DEFINE t == Append(s, l)
<1>1. t \in Seq(Line) /\ Len(t) = Len(s) + 1 /\ Len(s) \in Nat /\ t[Len(s) + 1] = l
      /\ \A i \in 1..Len(s) : t[i] = s[i]
  OBVIOUS
<1> HIDE DEF t
<1>2. PICK F : Sums(F, s, Len(s)) /\ SizeOf(s) = F[Len(s)]
  BY SizeOfSums
<1>3. PICK G : Sums(G, t, Len(t)) /\ SizeOf(t) = G[Len(t)]
  BY <1>1, SizeOfSums
<1>4. /\ \A i \in 0..Len(s) : F[i] = IF i = 0 THEN 0 ELSE F[i - 1] + LineSize[s[i]]
      /\ \A i \in 0..(Len(s) + 1) : G[i] = IF i = 0 THEN 0 ELSE G[i - 1] + LineSize[t[i]]
  BY <1>1, <1>2, <1>3 DEF Sums
<1> DEFINE Same == {i \in 0..Len(s) : F[i] = G[i]}
<1>5. 0 \in Same
  BY <1>1, <1>4
<1>6. ASSUME NEW i \in 0..Len(s), i \in Same, i < Len(s)
      PROVE  i + 1 \in Same
  <2>1. i + 1 \in 1..Len(s) /\ i + 1 \in 0..(Len(s) + 1) /\ (i + 1) - 1 = i /\ i + 1 # 0
    BY <1>1, <1>6
  <2>2. F[i + 1] = F[i] + LineSize[s[i + 1]] /\ G[i + 1] = G[i] + LineSize[t[i + 1]]
    BY <1>4, <2>1
  <2> QED BY <1>1, <1>6, <2>1, <2>2
<1>7. Len(s) \in Same
  <2>1. \A i \in 0..Len(s) : i \in Same /\ i < Len(s) => i + 1 \in Same
    BY <1>6
  <2> HIDE DEF Same
  <2>2. Len(s) \in Nat
    BY <1>1
  <2>3. \A i \in 0..Len(s) : i \in Same
    BY <1>5, <2>1, <2>2, UpTo
  <2> QED BY <2>2, <2>3
<1>8. F[Len(s)] = G[Len(s)]
  BY <1>7
<1>9. G[Len(s) + 1] = G[Len(s)] + LineSize[l]
  <2>1. Len(s) + 1 \in 0..(Len(s) + 1) /\ Len(s) + 1 # 0 /\ (Len(s) + 1) - 1 = Len(s)
    BY <1>1
  <2> QED BY <1>1, <1>4, <2>1
<1>10. SizeOf(t) = SizeOf(s) + LineSize[l]
  BY <1>1, <1>2, <1>3, <1>8, <1>9
<1> QED BY <1>10 DEF t

\* An empty file has no bytes.
LEMMA SizeOfEmpty == SizeOf(<< >>) = 0
<1>1. << >> \in Seq(Line) /\ Len(<< >>) = 0
  OBVIOUS
<1>2. PICK F : Sums(F, << >>, Len(<< >>)) /\ SizeOf(<< >>) = F[Len(<< >>)]
  BY <1>1, SizeOfSums
<1> QED BY <1>1, <1>2 DEF Sums

-----------------------------------------------------------------------------
\* Lines in the order they were emitted.
Sorted(s) == \A j, k \in DOMAIN s : j < k => s[j] < s[k]
Older(s, t) == \A x \in ToSet(s), y \in ToSet(t) : x < y

\* Lines in order after lines in order that are older are in order.
LEMMA JoinedLines ==
  ASSUME NEW s \in Seq(Line), NEW t \in Seq(Line)
  PROVE  /\ s \o t \in Seq(Line) /\ ToSet(s \o t) = ToSet(s) \cup ToSet(t)
         /\ Sorted(s) /\ Sorted(t) /\ Older(s, t) => Sorted(s \o t)
<1>0. Len(s) \in Nat /\ Len(t) \in Nat /\ DOMAIN s = 1..Len(s) /\ DOMAIN t = 1..Len(t)
  OBVIOUS
<1> DEFINE u == s \o t
<1>1. /\ u \in Seq(Line) /\ Len(u) = Len(s) + Len(t) /\ DOMAIN u = 1..(Len(s) + Len(t))
      /\ \A i \in 1..Len(s) : u[i] = s[i]
      /\ \A i \in 1..(Len(s) + Len(t)) : i > Len(s) => u[i] = t[i - Len(s)]
  OBVIOUS
<1> HIDE DEF u
<1>2. ToSet(u) = ToSet(s) \cup ToSet(t)
  <2>1. ASSUME NEW i \in DOMAIN u
        PROVE  u[i] \in ToSet(s) \cup ToSet(t)
    <3>1. CASE i \in 1..Len(s)
      BY <1>0, <1>1, <3>1 DEF ToSet
    <3>2. CASE i > Len(s)
      <4>1. i - Len(s) \in 1..Len(t)
        BY <1>0, <1>1, <3>2
      <4> QED BY <1>0, <1>1, <3>2, <4>1 DEF ToSet
    <3> QED BY <1>0, <1>1, <3>1, <3>2
  <2>2. ASSUME NEW i \in DOMAIN s
        PROVE  s[i] \in ToSet(u)
    BY <1>0, <1>1 DEF ToSet
  <2>3. ASSUME NEW i \in DOMAIN t
        PROVE  t[i] \in ToSet(u)
    <3>1. Len(s) + i \in DOMAIN u /\ Len(s) + i > Len(s) /\ (Len(s) + i) - Len(s) = i
      BY <1>0, <1>1
    <3>2. u[Len(s) + i] = t[i]
      BY <1>1, <3>1
    <3> QED BY <3>1, <3>2 DEF ToSet
  <2> QED BY <2>1, <2>2, <2>3 DEF ToSet
<1>3. ASSUME Sorted(s), Sorted(t), Older(s, t), NEW j \in DOMAIN u, NEW k \in DOMAIN u, j < k
      PROVE  u[j] < u[k]
  <2>1. CASE k \in 1..Len(s)
    BY <1>0, <1>1, <1>3, <2>1 DEF Sorted
  <2>2. CASE j \in 1..Len(s) /\ k > Len(s)
    <3>1. k - Len(s) \in 1..Len(t)
      BY <1>0, <1>1, <2>2
    <3>2. u[j] \in ToSet(s) /\ u[k] \in ToSet(t)
      BY <1>0, <1>1, <2>2, <3>1 DEF ToSet
    <3> QED BY <1>3, <3>2 DEF Older
  <2>3. CASE j > Len(s)
    <3>1. j - Len(s) \in 1..Len(t) /\ k - Len(s) \in 1..Len(t) /\ j - Len(s) < k - Len(s) /\ k > Len(s)
      BY <1>0, <1>1, <1>3, <2>3
    <3> QED BY <1>0, <1>1, <1>3, <2>3, <3>1 DEF Sorted
  <2> QED BY <1>0, <1>1, <1>3, <2>1, <2>2, <2>3
<1>4. Sorted(s) /\ Sorted(t) /\ Older(s, t) => Sorted(u)
  BY <1>3 DEF Sorted
<1> QED BY <1>1, <1>2, <1>4 DEF u

\* A file of lines is not the absence of one.
LEMMA LinesAreNumbers ==
  ASSUME NEW s \in Seq(Line)
  PROVE  s \in Seq(Nat)
<1>1. s \in [1..Len(s) -> Line] /\ Len(s) \in Nat
  OBVIOUS
<1>2. s \in [1..Len(s) -> Nat]
  BY <1>1 DEF Line
<1> QED BY <1>1, <1>2

\* A line alone is in order.
LEMMA OneLine ==
  ASSUME NEW l \in Line
  PROVE  <<l>> \in Seq(Line) /\ Sorted(<<l>>) /\ ToSet(<<l>>) = {l}
<1>1. <<l>> \in Seq(Line) /\ DOMAIN <<l>> = {1} /\ <<l>>[1] = l
  OBVIOUS
<1> QED BY <1>1 DEF Sorted, ToSet

\* So is no line.
LEMMA NoLines == << >> \in Seq(Line) /\ Sorted(<< >>) /\ ToSet(<< >>) = {}
<1>1. << >> \in Seq(Line) /\ DOMAIN << >> = {}
  OBVIOUS
<1> QED BY <1>1 DEF Sorted, ToSet
-----------------------------------------------------------------------------
(* The files d, as a roll leaves them. *)

Held(d, i) == IF d.disk[i] = NoFile THEN << >> ELSE d.disk[i]

IsDisk(d) == d.disk = [i \in Slot |-> d.disk[i]]

\* Each file is in order, and a higher roll has the older lines.
Neat(d) ==
  /\ IsDisk(d)
  /\ \A i \in Slot : Held(d, i) \in Seq(Line) /\ Sorted(Held(d, i))
  /\ \A i, j \in Slot : i < j => Older(Held(d, j), Held(d, i))

\* The writer's file is there, and no newer one.
Writable(d) ==
  /\ d.handle \in Slot /\ d.disk[d.handle] # NoFile
  /\ \A j \in Slot : j < d.handle => d.disk[j] = NoFile

\* No line on disk is newer than n.
UpToLine(d, n) == \A i \in Slot : \A x \in ToSet(Held(d, i)) : x <= n

\* The lines on disk.
Stored(d) == UNION {ToSet(Held(d, i)) : i \in Slot}

\* Of the lines up to n that are not older than all of S, only those in gone are missing.
Gapless(S, n, gone) == \A x \in S : \A y \in x..n : y \in S \cup gone

\* The slots, of which the base is one.
LEMMA Rolls == MaxRolls \in Nat /\ Slot = 0..MaxRolls /\ 0 \in Slot /\ Slot \subseteq Nat
  BY FileSizes DEF Slot

\* The lines on disk are numbers of lines.
LEMMA StoredLines ==
  ASSUME NEW d, Neat(d)
  PROVE  Stored(d) \subseteq Line /\ Stored(d) \subseteq Nat
<1>1. \A i \in Slot : ToSet(Held(d, i)) \subseteq Line
  BY DEF Neat, ToSet
<1>2. Stored(d) \subseteq Line
  BY <1>1 DEF Stored
<1> QED BY <1>2 DEF Line

\* What is in each slot after a rename.
LEMMA RenamedHeld ==
  ASSUME NEW d, IsDisk(d), NEW i \in Slot, i + 1 \in Slot, d.disk[i] # NoFile
  PROVE  /\ IsDisk(Renamed(d, i))
         /\ Renamed(d, i).disk[i] = NoFile /\ Renamed(d, i).disk[i + 1] = d.disk[i]
         /\ \A j \in Slot \ {i, i + 1} : Renamed(d, i).disk[j] = d.disk[j]
         /\ Held(Renamed(d, i), i) = << >> /\ Held(Renamed(d, i), i + 1) = Held(d, i)
         /\ \A j \in Slot \ {i, i + 1} : Held(Renamed(d, i), j) = Held(d, j)
         /\ Renamed(d, i).handle = IF d.handle = i THEN i + 1
                                   ELSE IF d.handle = i + 1 THEN Unlinked ELSE d.handle
<1> DEFINE e == Renamed(d, i)
<1>0. i \in Nat /\ i # i + 1
  BY Rolls
<1>1. e = [disk |-> [d.disk EXCEPT ![i + 1] = d.disk[i], ![i] = NoFile],
           handle |-> IF d.handle = i THEN i + 1 ELSE IF d.handle = i + 1 THEN Unlinked ELSE d.handle]
  BY DEF Renamed
<1> HIDE DEF e
<1>2. IsDisk(e) /\ e.disk[i] = NoFile /\ e.disk[i + 1] = d.disk[i]
  BY <1>0, <1>1 DEF IsDisk
<1>3. \A j \in Slot \ {i, i + 1} : e.disk[j] = d.disk[j]
  BY <1>1 DEF IsDisk
<1>4. Held(e, i) = << >> /\ Held(e, i + 1) = Held(d, i) /\ \A j \in Slot \ {i, i + 1} : Held(e, j) = Held(d, j)
  BY <1>2, <1>3 DEF Held
<1>5. e.handle = IF d.handle = i THEN i + 1 ELSE IF d.handle = i + 1 THEN Unlinked ELSE d.handle
  BY <1>1
<1> QED BY <1>2, <1>3, <1>4, <1>5 DEF e

\* A rename keeps the order.
LEMMA RenameNeat ==
  ASSUME NEW d, Neat(d), NEW i \in Slot, i + 1 \in Slot, d.disk[i] # NoFile
  PROVE  Neat(Renamed(d, i))
<1> DEFINE e == Renamed(d, i)
<1>0. i \in Nat /\ IsDisk(d)
  BY Rolls DEF Neat
<1>1. /\ IsDisk(e) /\ Held(e, i) = << >> /\ Held(e, i + 1) = Held(d, i)
      /\ \A j \in Slot \ {i, i + 1} : Held(e, j) = Held(d, j)
  BY <1>0, RenamedHeld
<1> HIDE DEF e
<1>2. \A j \in Slot : Held(e, j) \in Seq(Line) /\ Sorted(Held(e, j))
  BY <1>1, NoLines DEF Neat
<1>3. ASSUME NEW j \in Slot, NEW k \in Slot, j < k
      PROVE  Older(Held(e, k), Held(e, j))
  <2>0. j \in Nat /\ k \in Nat
    BY Rolls
  <2>1. CASE j = i \/ k = i
    BY <1>1, <2>1, NoLines DEF Older
  <2>2. CASE j = i + 1 /\ k # i
    <3>1. i < k /\ k \notin {i, i + 1}
      BY <1>0, <1>3, <2>0, <2>2
    <3>2. Older(Held(d, k), Held(d, i))
      BY <3>1 DEF Neat
    <3> QED BY <1>1, <2>2, <3>1, <3>2
  <2>3. CASE k = i + 1 /\ j # i
    <3>1. j < i /\ j \notin {i, i + 1}
      BY <1>0, <1>3, <2>0, <2>3
    <3>2. Older(Held(d, i), Held(d, j))
      BY <3>1 DEF Neat
    <3> QED BY <1>1, <2>3, <3>1, <3>2
  <2>4. CASE j \notin {i, i + 1} /\ k \notin {i, i + 1}
    BY <1>1, <1>3, <2>4 DEF Neat
  <2> QED BY <2>1, <2>2, <2>3, <2>4
<1>4. Neat(e)
  BY <1>1, <1>2, <1>3 DEF Neat
<1> QED BY <1>4 DEF e

\* The writer keeps its file, as no newer file can be moved over it.
LEMMA RenameWritable ==
  ASSUME NEW d, IsDisk(d), Writable(d), NEW i \in Slot, i + 1 \in Slot, d.disk[i] # NoFile
  PROVE  /\ Writable(Renamed(d, i))
         /\ Held(Renamed(d, i), Renamed(d, i).handle) = Held(d, d.handle)
<1> DEFINE e == Renamed(d, i)
           h == d.handle
<1>0. /\ h \in Slot /\ h \in Nat /\ i \in Nat /\ d.disk[h] # NoFile
      /\ \A j \in Slot : j < h => d.disk[j] = NoFile
  BY Rolls DEF Writable
<1>1. h <= i
  BY <1>0
<1>2. /\ e.disk[i] = NoFile /\ e.disk[i + 1] = d.disk[i] /\ (\A j \in Slot \ {i, i + 1} : e.disk[j] = d.disk[j])
      /\ Held(e, i + 1) = Held(d, i) /\ (\A j \in Slot \ {i, i + 1} : Held(e, j) = Held(d, j))
      /\ e.handle = IF h = i THEN i + 1 ELSE IF h = i + 1 THEN Unlinked ELSE h
  BY RenamedHeld
<1> HIDE DEF e, h
<1>3. CASE h = i
  <2>1. e.handle = i + 1 /\ e.disk[i + 1] # NoFile /\ Held(e, e.handle) = Held(d, h)
    BY <1>0, <1>2, <1>3
  <2>2. ASSUME NEW j \in Slot, j < i + 1
        PROVE  e.disk[j] = NoFile
    <3>1. j = i \/ (j < h /\ j \notin {i, i + 1})
      BY <1>0, <1>3, <2>2, Rolls
    <3> QED BY <1>0, <1>2, <3>1
  <2>3. Writable(e)
    BY <2>1, <2>2 DEF Writable
  <2> QED BY <2>1, <2>3 DEF e, h
<1>4. CASE h < i
  <2>1. h \notin {i, i + 1} /\ e.handle = h /\ e.disk[h] # NoFile /\ Held(e, e.handle) = Held(d, h)
    BY <1>0, <1>2, <1>4
  <2>2. ASSUME NEW j \in Slot, j < h
        PROVE  e.disk[j] = NoFile
    <3>1. j \notin {i, i + 1}
      BY <1>0, <1>4, <2>2, Rolls
    <3> QED BY <1>0, <1>2, <2>2, <3>1
  <2>3. Writable(e)
    BY <1>0, <2>1, <2>2 DEF Writable
  <2> QED BY <2>1, <2>3 DEF e, h
<1> QED BY <1>0, <1>1, <1>3, <1>4

\* Which lines a rename leaves: all, but those of a file that had the name.
LEMMA RenameStored ==
  ASSUME NEW d, IsDisk(d), NEW i \in Slot, i + 1 \in Slot, d.disk[i] # NoFile
  PROVE  /\ Stored(Renamed(d, i)) \subseteq Stored(d)
         /\ \A x \in Stored(d) : x \in Stored(Renamed(d, i)) \/ x \in ToSet(Held(d, i + 1))
         /\ \A x \in Stored(Renamed(d, i)) : \E j \in Slot \ {i + 1} : x \in ToSet(Held(d, j))
<1> DEFINE e == Renamed(d, i)
<1>0. i # i + 1
  BY Rolls
<1>1. /\ Held(e, i) = << >> /\ Held(e, i + 1) = Held(d, i)
      /\ \A j \in Slot \ {i, i + 1} : Held(e, j) = Held(d, j)
  BY RenamedHeld
<1> HIDE DEF e
<1>2. ASSUME NEW x \in Stored(e)
      PROVE  \E j \in Slot \ {i + 1} : x \in ToSet(Held(d, j))
  <2>1. PICK j \in Slot : x \in ToSet(Held(e, j))
    BY DEF Stored
  <2>2. j # i
    BY <1>1, <2>1, NoLines
  <2>3. CASE j = i + 1
    BY <1>0, <1>1, <2>1, <2>3
  <2>4. CASE j # i + 1
    BY <1>1, <2>1, <2>2, <2>4
  <2> QED BY <2>3, <2>4
<1>3. ASSUME NEW x \in Stored(d), x \notin ToSet(Held(d, i + 1))
      PROVE  x \in Stored(e)
  <2>1. PICK j \in Slot : x \in ToSet(Held(d, j))
    BY DEF Stored
  <2>2. j # i + 1
    BY <1>3, <2>1
  <2>3. \E k \in Slot : x \in ToSet(Held(e, k))
    BY <1>1, <2>1, <2>2
  <2> QED BY <2>3 DEF Stored
<1>4. Stored(e) \subseteq Stored(d)
  BY <1>2 DEF Stored
<1> QED BY <1>2, <1>3, <1>4 DEF e

\* When the name is free, or is the last, a rename loses nothing but the oldest lines.
LEMMA RenameGapless ==
  ASSUME NEW d, Neat(d), NEW i \in Slot, i + 1 \in Slot, d.disk[i] # NoFile,
         i + 1 < MaxRolls => d.disk[i + 1] = NoFile,
         NEW n, NEW gone, Gapless(Stored(d), n, gone)
  PROVE  Gapless(Stored(Renamed(d, i)), n, gone)
<1> DEFINE e == Renamed(d, i)
<1>0. IsDisk(d) /\ i \in Nat
  BY Rolls DEF Neat
<1>1. /\ Stored(e) \subseteq Stored(d)
      /\ \A x \in Stored(d) : x \in Stored(e) \/ x \in ToSet(Held(d, i + 1))
      /\ \A x \in Stored(e) : \E j \in Slot \ {i + 1} : x \in ToSet(Held(d, j))
  BY <1>0, RenameStored
<1> HIDE DEF e
<1>2. Stored(d) \subseteq Nat
  BY StoredLines
<1>3. ASSUME NEW x \in Stored(e), NEW y \in ToSet(Held(d, i + 1))
      PROVE  y < x
  <2>1. Held(d, i + 1) # << >>
    BY <1>3, NoLines
  <2>2. i + 1 = MaxRolls
    BY <1>0, <2>1, Rolls DEF Held
  <2>3. PICK j \in Slot \ {i + 1} : x \in ToSet(Held(d, j))
    BY <1>1, <1>3
  <2>4. j < i + 1
    BY <2>2, <2>3, Rolls
  <2>5. Older(Held(d, i + 1), Held(d, j))
    BY <2>3, <2>4 DEF Neat
  <2> QED BY <1>3, <2>3, <2>5 DEF Older
<1>4. ASSUME NEW x \in Stored(e), NEW y \in x..n
      PROVE  y \in Stored(e) \cup gone
  <2>1. y \in Stored(d) \cup gone
    BY <1>1, <1>4 DEF Gapless
  <2>2. x \in Nat /\ x <= y
    BY <1>1, <1>2, <1>4
  <2>3. y \notin ToSet(Held(d, i + 1))
    BY <1>3, <1>4, <2>2
  <2> QED BY <1>1, <2>1, <2>3
<1>5. Gapless(Stored(e), n, gone)
  BY <1>4 DEF Gapless
<1> QED BY <1>5 DEF e

-----------------------------------------------------------------------------
(* The file that is open. *)

\* What a flush writes is at the end of the writer's file.
LEMMA FlushedHeld ==
  ASSUME NEW d, Neat(d), Writable(d), NEW ls \in Seq(Line)
  PROVE  /\ IsDisk(Flushed(d, ls)) /\ Writable(Flushed(d, ls)) /\ Flushed(d, ls).handle = d.handle
         /\ Held(Flushed(d, ls), d.handle) = Held(d, d.handle) \o ls
         /\ \A i \in Slot \ {d.handle} : Held(Flushed(d, ls), i) = Held(d, i)
<1> DEFINE h == d.handle
           s == Held(d, h)
           f == Flushed(d, ls)
<1>1. h \in Slot /\ h # Unlinked /\ d.disk[h] # NoFile /\ s = d.disk[h] /\ IsDisk(d) /\ s \in Seq(Line)
  BY Rolls DEF Writable, Unlinked, Held, Neat
<1>2. s \o ls \in Seq(Line)
  BY <1>1, JoinedLines
<1>3. s \o ls \in Seq(Nat)
  BY <1>2, LinesAreNumbers
<1>4. s \o ls # NoFile
  BY <1>3, FileSizes
<1>5. f = [disk |-> [d.disk EXCEPT ![h] = d.disk[h] \o ls], handle |-> h]
  BY <1>1 DEF Flushed
<1> HIDE DEF f, s, h
<1>6. f.handle = h /\ f.disk[h] = s \o ls /\ IsDisk(f) /\ \A i \in Slot \ {h} : f.disk[i] = d.disk[i]
  BY <1>1, <1>5 DEF IsDisk
<1>7. Held(f, h) = s \o ls /\ \A i \in Slot \ {h} : Held(f, i) = Held(d, i)
  BY <1>4, <1>6 DEF Held
<1>8. Writable(f)
  <2>1. \A j \in Slot : j < h => j # h /\ d.disk[j] = NoFile
    BY <1>1, Rolls DEF Writable, h
  <2> QED BY <1>1, <1>4, <1>6, <2>1 DEF Writable
<1> QED BY <1>6, <1>7, <1>8 DEF f, s, h

\* Lines that are newer than all on disk may be written.
LEMMA FlushNeat ==
  ASSUME NEW d, Neat(d), Writable(d), NEW ls \in Seq(Line), Sorted(ls),
         \A i \in Slot : Older(Held(d, i), ls)
  PROVE  Neat(Flushed(d, ls))
<1> DEFINE h == d.handle
           f == Flushed(d, ls)
<1>1. /\ IsDisk(f) /\ h \in Slot /\ Held(f, h) = Held(d, h) \o ls
      /\ \A i \in Slot \ {h} : Held(f, i) = Held(d, i)
  BY FlushedHeld DEF Writable
<1> HIDE DEF f
<1>2. /\ Held(f, h) \in Seq(Line) /\ Sorted(Held(f, h))
      /\ ToSet(Held(f, h)) = ToSet(Held(d, h)) \cup ToSet(ls)
  BY <1>1, JoinedLines DEF Neat
<1>3. \A j \in Slot : j < h => Held(d, j) = << >>
  BY DEF Writable, Held
<1> HIDE DEF h
<1>4. ASSUME NEW i \in Slot, NEW j \in Slot, i < j
      PROVE  Older(Held(f, j), Held(f, i))
  <2>1. CASE j = h
    <3>1. i # h /\ Held(f, i) = << >>
      BY <1>1, <1>3, <1>4, <2>1, Rolls
    <3> QED BY <3>1, NoLines DEF Older
  <2>2. CASE i = h /\ j # h
    <3>1. Older(Held(d, j), Held(d, h)) /\ Older(Held(d, j), ls) /\ Held(f, j) = Held(d, j)
      BY <1>1, <1>4, <2>2 DEF Neat
    <3> QED BY <1>2, <2>2, <3>1 DEF Older
  <2>3. CASE i # h /\ j # h
    BY <1>1, <1>4, <2>3 DEF Neat
  <2> QED BY <2>1, <2>2, <2>3
<1>5. \A i \in Slot : Held(f, i) \in Seq(Line) /\ Sorted(Held(f, i))
  BY <1>1, <1>2 DEF Neat
<1>6. Neat(f)
  BY <1>1, <1>4, <1>5 DEF Neat
<1> QED BY <1>6 DEF f

\* And then no line is newer than they are.
LEMMA FlushUpTo ==
  ASSUME NEW d, Neat(d), Writable(d), NEW ls \in Seq(Line), NEW n, UpToLine(d, n),
         \A x \in ToSet(ls) : x <= n
  PROVE  UpToLine(Flushed(d, ls), n)
<1> DEFINE h == d.handle
           f == Flushed(d, ls)
<1>1. /\ h \in Slot /\ Held(f, h) = Held(d, h) \o ls
      /\ \A i \in Slot \ {h} : Held(f, i) = Held(d, i)
  BY FlushedHeld DEF Writable
<1> HIDE DEF f
<1>2. ToSet(Held(f, h)) = ToSet(Held(d, h)) \cup ToSet(ls)
  BY <1>1, JoinedLines DEF Neat
<1>3. \A i \in Slot : \A x \in ToSet(Held(f, i)) : x <= n
  <2> HIDE DEF h
  <2> QED BY <1>1, <1>2 DEF UpToLine
<1> QED BY <1>3 DEF UpToLine, f

\* A fresh base file.
LEMMA ReopenedHeld ==
  ASSUME NEW d, IsDisk(d)
  PROVE  /\ IsDisk(Reopened(d)) /\ Writable(Reopened(d)) /\ Reopened(d).handle = 0
         /\ Held(Reopened(d), 0) = << >>
         /\ \A i \in Slot \ {0} : Held(Reopened(d), i) = Held(d, i)
<1> DEFINE e == Reopened(d)
<1>1. e.handle = 0 /\ e.disk[0] = << >> /\ IsDisk(e) /\ \A i \in Slot \ {0} : e.disk[i] = d.disk[i]
  BY Rolls DEF Reopened, IsDisk
<1>2. << >> # NoFile
  <2>1. << >> \in Seq(Nat)
    OBVIOUS
  <2> QED BY <2>1, FileSizes
<1> HIDE DEF e
<1>3. Writable(e)
  BY <1>1, <1>2, Rolls DEF Writable
<1>4. Held(e, 0) = << >> /\ \A i \in Slot \ {0} : Held(e, i) = Held(d, i)
  BY <1>1, <1>2 DEF Held
<1> QED BY <1>1, <1>3, <1>4 DEF e

\* A fresh base keeps the order.
LEMMA ReopenNeat ==
  ASSUME NEW d, Neat(d)
  PROVE  Neat(Reopened(d))
<1> DEFINE e == Reopened(d)
<1>1. IsDisk(e) /\ Held(e, 0) = << >> /\ \A i \in Slot \ {0} : Held(e, i) = Held(d, i)
  BY ReopenedHeld DEF Neat
<1> HIDE DEF e
<1>2. ASSUME NEW i \in Slot, NEW j \in Slot, i < j
      PROVE  Older(Held(e, j), Held(e, i))
  BY <1>1, <1>2, NoLines DEF Neat, Older
<1>3. \A i \in Slot : Held(e, i) \in Seq(Line) /\ Sorted(Held(e, i))
  BY <1>1, NoLines DEF Neat
<1>4. Neat(e)
  BY <1>1, <1>2, <1>3 DEF Neat
<1> QED BY <1>4 DEF e

\* And has no newer line.
LEMMA ReopenUpTo ==
  ASSUME NEW d, IsDisk(d), NEW n, UpToLine(d, n)
  PROVE  UpToLine(Reopened(d), n)
  BY ReopenedHeld, NoLines DEF UpToLine

\* What a flush adds to the lines on disk.
LEMMA FlushStored ==
  ASSUME NEW d, Neat(d), Writable(d), NEW ls \in Seq(Line)
  PROVE  Stored(Flushed(d, ls)) = Stored(d) \cup ToSet(ls)
<1> DEFINE h == d.handle
           f == Flushed(d, ls)
<1>1. /\ h \in Slot /\ Held(f, h) = Held(d, h) \o ls
      /\ \A i \in Slot \ {h} : Held(f, i) = Held(d, i)
  BY FlushedHeld DEF Writable
<1>2. ToSet(Held(f, h)) = ToSet(Held(d, h)) \cup ToSet(ls)
  BY <1>1, JoinedLines DEF Neat
<1> HIDE DEF f, h
<1>3. Stored(f) = Stored(d) \cup ToSet(ls)
  BY <1>1, <1>2 DEF Stored
<1> QED BY <1>3 DEF f

\* A fresh base takes the lines of what had its name.
LEMMA ReopenStored ==
  ASSUME NEW d, IsDisk(d)
  PROVE  /\ d.disk[0] = NoFile => Stored(Reopened(d)) = Stored(d)
         /\ MaxRolls = 0 => Stored(Reopened(d)) = {}
<1> DEFINE e == Reopened(d)
<1>1. Held(e, 0) = << >> /\ \A i \in Slot \ {0} : Held(e, i) = Held(d, i)
  BY ReopenedHeld
<1> HIDE DEF e
<1>2. ASSUME d.disk[0] = NoFile
      PROVE  Stored(e) = Stored(d)
  <2>1. \A i \in Slot : Held(e, i) = Held(d, i)
    BY <1>1, <1>2 DEF Held
  <2> QED BY <2>1 DEF Stored
<1>3. ASSUME MaxRolls = 0
      PROVE  Stored(e) = {}
  <2>1. Slot = {0}
    BY <1>3 DEF Slot
  <2> QED BY <1>1, <2>1, NoLines DEF Stored
<1> QED BY <1>2, <1>3 DEF e

\* The next line is added, or reported as dropped, or both.
LEMMA GapNext ==
  ASSUME NEW S \in SUBSET Nat, NEW n \in Nat, NEW gone, Gapless(S, n, gone),
         NEW T, S \subseteq T, T \subseteq S \cup {n + 1},
         NEW more, gone \subseteq more, n + 1 \in T \cup more
  PROVE  Gapless(T, n + 1, more)
<1>1. ASSUME NEW x \in T, NEW y \in x..(n + 1)
      PROVE  y \in T \cup more
  <2>0. x \in Nat
    OBVIOUS
  <2>1. CASE y = n + 1
    BY <2>1
  <2>2. CASE y # n + 1
    <3>1. x # n + 1 /\ y \in x..n
      BY <1>1, <2>0, <2>2
    <3>2. x \in S
      BY <3>1
    <3> QED BY <3>1, <3>2 DEF Gapless
  <2> QED BY <2>1, <2>2
<1> QED BY <1>1 DEF Gapless

\* Lines go that were reported.
LEMMA GapLost ==
  ASSUME NEW S, NEW n, NEW gone, Gapless(S, n, gone), NEW T, T \subseteq S, S \ T \subseteq gone
  PROVE  Gapless(T, n, gone)
  BY DEF Gapless

-----------------------------------------------------------------------------
(* b is bytes_written, while no write has failed. *)

Fits(d, b) ==
  /\ b \in Nat /\ b = SizeOf(Held(d, d.handle)) /\ (b = 0 => Held(d, d.handle) = << >>)
  /\ RotateBytes > 0 => \A i \in Slot : SizeOf(Held(d, i)) <= RotateBytes \/ Len(Held(d, i)) = 1

\* A line is written that fits, or to an empty file.
LEMMA SizedAppend ==
  ASSUME NEW d, NEW b, Neat(d), Writable(d), Fits(d, b), NEW l \in Line,
         RotateBytes > 0 /\ b > 0 => b + LineSize[l] <= RotateBytes
  PROVE  Fits(Flushed(d, <<l>>), b + LineSize[l])
<1> DEFINE f == Flushed(d, <<l>>)
           h == d.handle
           s == Held(d, h)
<1>1. <<l>> \in Seq(Line)
  BY OneLine
<1>2. h \in Slot /\ s \in Seq(Line)
  BY DEF Writable, Neat
<1>3. f.handle = h /\ Held(f, h) = s \o <<l>> /\ \A i \in Slot \ {h} : Held(f, i) = Held(d, i)
  BY <1>1, FlushedHeld
<1>4. b = SizeOf(s) /\ b \in Nat /\ (b = 0 => s = << >>)
  BY DEF Fits
<1> HIDE DEF f, s, h
<1>5. s \o <<l>> = Append(s, l) /\ Len(Append(s, l)) = Len(s) + 1
  BY <1>2
<1>6. SizeOf(Held(f, h)) = b + LineSize[l] /\ Len(Held(f, h)) = Len(s) + 1
  BY <1>2, <1>3, <1>4, <1>5, SizeOfAppend
<1>7. LineSize[l] \in Nat \ {0} /\ b + LineSize[l] \in Nat /\ b + LineSize[l] # 0
  <2>1. LineSize[l] \in Nat \ {0}
    BY FileSizes DEF Line
  <2> QED BY <1>4, <2>1
<1>8. ASSUME RotateBytes > 0
      PROVE  SizeOf(Held(f, h)) <= RotateBytes \/ Len(Held(f, h)) = 1
  <2>1. CASE b = 0
    <3>1. Len(s) = 0
      BY <1>4, <2>1
    <3> QED BY <1>6, <3>1
  <2>2. CASE b # 0
    <3>1. b > 0
      BY <1>4, <2>2
    <3> QED BY <1>6, <1>8, <3>1
  <2> QED BY <2>1, <2>2
<1>9. RotateBytes > 0 => \A i \in Slot : SizeOf(Held(f, i)) <= RotateBytes \/ Len(Held(f, i)) = 1
  BY <1>3, <1>8 DEF Fits
<1>10. Fits(f, b + LineSize[l])
  BY <1>3, <1>6, <1>7, <1>9 DEF Fits
<1> QED BY <1>10 DEF f

\* Files that are moved keep their size.
LEMMA SizedMoved ==
  ASSUME NEW d, NEW e, NEW b, Fits(d, b), Held(e, e.handle) = Held(d, d.handle),
         \A i \in Slot : Held(e, i) = << >> \/ \E j \in Slot : Held(e, i) = Held(d, j)
  PROVE  Fits(e, b)
<1>1. RotateBytes \in Nat
  BY FileSizes
<1>2. ASSUME RotateBytes > 0, NEW i \in Slot
      PROVE  SizeOf(Held(e, i)) <= RotateBytes \/ Len(Held(e, i)) = 1
  BY <1>1, <1>2, SizeOfEmpty DEF Fits
<1> QED BY <1>2 DEF Fits

\* A fresh base has no bytes.
LEMMA SizedReopen ==
  ASSUME NEW d, NEW b, IsDisk(d), Fits(d, b)
  PROVE  Fits(Reopened(d), 0)
<1> DEFINE e == Reopened(d)
<1>1. e.handle = 0 /\ Held(e, 0) = << >> /\ \A i \in Slot \ {0} : Held(e, i) = Held(d, i)
  BY ReopenedHeld
<1>2. RotateBytes \in Nat
  BY FileSizes
<1> HIDE DEF e
<1>3. RotateBytes > 0 => \A i \in Slot : SizeOf(Held(e, i)) <= RotateBytes \/ Len(Held(e, i)) = 1
  BY <1>1, <1>2, SizeOfEmpty DEF Fits
<1>4. Fits(e, 0)
  BY <1>1, <1>3, SizeOfEmpty DEF Fits
<1> QED BY <1>4 DEF e

-----------------------------------------------------------------------------
(* The invariant. *)

\* Lines that may be written after those on d, of which n is the last that was emitted.
Pending(d, ls, n) ==
  /\ ls \in Seq(Line) /\ Sorted(ls) /\ \A x \in ToSet(ls) : x <= n
  /\ \A i \in Slot : Older(Held(d, i), ls)

Tidy(d, ls, n) == Neat(d) /\ Writable(d) /\ UpToLine(d, n) /\ Pending(d, ls, n)

\* The last line that was written or dropped.
Done == IF stage = "idle" THEN emitted ELSE emitted - 1

Calls ==
  /\ emitted \in 0..Len(LineSize) /\ (stage # "idle" => emitted > 0)
  /\ stage \in {"idle", "flush", "rename", "open", "write"}
  /\ stage = "rename" => source \in 0..(MaxRolls - 1)
  /\ stage \in {"rename", "open"} => buffer = << >>

\* The name the next rename takes is free, or the last.
Freed ==
  "rename" \notin failed => /\ stage = "rename" /\ source + 1 < MaxRolls => disk[source + 1] = NoFile
                            /\ stage = "open" /\ MaxRolls > 0 => disk[0] = NoFile

Measured ==
  "write" \notin failed => /\ buffer = << >> /\ Fits(Here, bytes)
                           /\ stage = "write" => ~WouldExceed(emitted)

Complete ==
  /\ ToSet(buffer) \subseteq lostLines
  /\ "rename" \notin failed => Gapless(Stored(Here) \cup ToSet(buffer), Done, lostLines)

Ended == stage = "idle" /\ emitted > 0 => emitted \in Stored(Here) \cup lostLines

FileInv == Calls /\ Tidy(Here, buffer, Done) /\ Freed /\ Measured /\ Complete /\ Ended

\* What holds of the files d holds when they are what is on disk.
LEMMA Becomes ==
  ASSUME NEW d, Become(d)
  PROVE  /\ \A ls, n : Tidy(d, ls, n) => Tidy(Here', ls, n)
         /\ \A b : Fits(d, b) => Fits(Here', b)
         /\ Stored(Here') = Stored(d)
         /\ \A i : disk'[i] = d.disk[i]
<1>1. Here'.disk = d.disk /\ Here'.handle = d.handle
  BY DEF Become, Here
<1> DEFINE e == Here'
<1> HIDE DEF e
<1>2. \A i : Held(e, i) = Held(d, i)
  BY <1>1 DEF Held, e
<1>3. ASSUME NEW ls, NEW n, Tidy(d, ls, n)
      PROVE  Tidy(e, ls, n)
  <2>1. Neat(e)
    BY <1>1, <1>2, <1>3 DEF Tidy, Neat, IsDisk, e
  <2>2. Writable(e)
    BY <1>1, <1>3 DEF Tidy, Writable, e
  <2>3. UpToLine(e, n) /\ Pending(e, ls, n)
    BY <1>2, <1>3 DEF Tidy, UpToLine, Pending
  <2> QED BY <2>1, <2>2, <2>3 DEF Tidy
<1>4. ASSUME NEW b, Fits(d, b)
      PROVE  Fits(e, b)
  BY <1>1, <1>2, <1>4 DEF Fits, e
<1>5. Stored(e) = Stored(d)
  BY <1>2 DEF Stored
<1>6. \A i : disk'[i] = d.disk[i]
  BY DEF Become
<1> QED BY <1>3, <1>4, <1>5, <1>6 DEF e

\* Nothing is written: the files are what they were.
LEMMA Stays ==
  ASSUME UNCHANGED <<disk, handle>>
  PROVE  Become(Here)
  BY DEF Become, Here

\* A new line is newer than what is held, and may be held.
LEMMA PendingAppend ==
  ASSUME NEW d, NEW ls, NEW n \in Nat, Tidy(d, ls, n), NEW l \in Line, l = n + 1
  PROVE  Tidy(d, Append(ls, l), l)
<1>1. ls \in Seq(Line) /\ Sorted(ls) /\ (\A x \in ToSet(ls) : x <= n) /\ \A i \in Slot : Older(Held(d, i), ls)
  BY DEF Tidy, Pending
<1>2. <<l>> \in Seq(Line) /\ Sorted(<<l>>) /\ ToSet(<<l>>) = {l}
  BY OneLine
<1>3. Append(ls, l) = ls \o <<l>>
  BY <1>1
<1>4. \A s \in Seq(Line) : \A x \in ToSet(s) : x \in Nat
  BY DEF Line, ToSet
<1>5. Older(ls, <<l>>)
  BY <1>1, <1>2, <1>4 DEF Older
<1> DEFINE a == Append(ls, l)
<1>6. a \in Seq(Line) /\ Sorted(a) /\ ToSet(a) = ToSet(ls) \cup {l}
  BY <1>1, <1>2, <1>3, <1>5, JoinedLines
<1> HIDE DEF a
<1>7. UpToLine(d, n) /\ \A i \in Slot : Held(d, i) \in Seq(Line)
  BY DEF Tidy, Neat
<1>8. ASSUME NEW i \in Slot, NEW x \in ToSet(Held(d, i))
      PROVE  x < l /\ x <= l
  <2>1. x <= n /\ x \in Nat
    BY <1>4, <1>7 DEF UpToLine
  <2> QED BY <2>1
<1>9. UpToLine(d, l) /\ \A i \in Slot : Older(Held(d, i), a)
  BY <1>1, <1>6, <1>8 DEF UpToLine, Older
<1>10. \A x \in ToSet(a) : x <= l
  BY <1>1, <1>4, <1>6
<1>11. Tidy(d, a, l)
  BY <1>6, <1>9, <1>10 DEF Tidy, Pending
<1> QED BY <1>11 DEF a

\* What is held may be flushed.
LEMMA TidyFlush ==
  ASSUME NEW d, NEW ls, NEW n, Tidy(d, ls, n)
  PROVE  Tidy(Flushed(d, ls), << >>, n)
<1>1. Neat(Flushed(d, ls)) /\ Writable(Flushed(d, ls)) /\ UpToLine(Flushed(d, ls), n)
  BY FlushNeat, FlushUpTo, FlushedHeld DEF Tidy, Pending
<1> QED BY <1>1, NoLines DEF Tidy, Pending, Older

\* It may also be dropped.
LEMMA TidyLater ==
  ASSUME NEW d, NEW ls, NEW n \in Nat, Tidy(d, ls, n)
  PROVE  Tidy(d, ls, n + 1)
<1>1. \A i \in Slot : Held(d, i) \in Seq(Line)
  BY DEF Tidy, Neat
<1>2. \A s \in Seq(Line) : \A x \in ToSet(s) : x \in Nat /\ (x <= n => x <= n + 1)
  BY DEF Line, ToSet
<1>3. UpToLine(d, n + 1)
  BY <1>1, <1>2 DEF Tidy, UpToLine
<1>4. Pending(d, ls, n + 1)
  BY <1>2 DEF Tidy, Pending
<1> QED BY <1>3, <1>4 DEF Tidy

\* A rename leaves tidy files.
LEMMA TidyRename ==
  ASSUME NEW d, NEW n, Tidy(d, << >>, n), NEW i \in Slot, i + 1 \in Slot, d.disk[i] # NoFile
  PROVE  Tidy(Renamed(d, i), << >>, n)
<1> DEFINE e == Renamed(d, i)
<1>1. IsDisk(d) /\ Neat(d) /\ Writable(d) /\ UpToLine(d, n)
  BY DEF Tidy, Neat
<1>2. Neat(e) /\ Writable(e)
  BY <1>1, RenameNeat, RenameWritable
<1>3. Stored(e) \subseteq Stored(d)
  BY <1>1, RenameStored
<1> HIDE DEF e
<1>4. UpToLine(e, n)
  BY <1>1, <1>3 DEF UpToLine, Stored
<1>5. Tidy(e, << >>, n)
  BY <1>2, <1>4, NoLines DEF Tidy, Pending, Older
<1> QED BY <1>5 DEF e

\* So does a reopening.
LEMMA TidyReopen ==
  ASSUME NEW d, NEW n, NEW ls, Tidy(d, ls, n)
  PROVE  Tidy(Reopened(d), << >>, n)
<1>1. Neat(d) /\ IsDisk(d) /\ UpToLine(d, n)
  BY DEF Tidy, Neat
<1>2. Neat(Reopened(d)) /\ UpToLine(Reopened(d), n) /\ Writable(Reopened(d))
  BY <1>1, ReopenNeat, ReopenUpTo, ReopenedHeld
<1> QED BY <1>2, NoLines DEF Tidy, Pending, Older

\* What the invariant says of the line that is being written.
LEMMA LineUnderWay ==
  ASSUME FileInv, stage # "idle"
  PROVE  /\ emitted \in Line /\ Done \in Nat /\ emitted = Done + 1 /\ emitted \in 0..Len(LineSize)
         /\ Stored(Here) \cup ToSet(buffer) \subseteq Nat
<1>1. emitted \in Line /\ emitted \in Nat /\ emitted > 0 /\ emitted \in 0..Len(LineSize)
  BY FileSizes DEF FileInv, Calls, Line
<1>2. Stored(Here) \subseteq Nat
  BY StoredLines DEF FileInv, Tidy
<1>3. ToSet(buffer) \subseteq Nat
  BY DEF FileInv, Tidy, Pending, ToSet, Line
<1> QED BY <1>1, <1>2, <1>3 DEF Done

\* Any call that fails and is reported: nothing on disk changes.
LEMMA ReportInv ==
  ASSUME FileInv, stage # "idle", Report, UNCHANGED <<disk, handle, buffer, bytes, emitted>>,
         failed \subseteq failed'
  PROVE  FileInv'
<1>0. /\ emitted \in Line /\ Done \in Nat /\ emitted = Done + 1 /\ emitted \in 0..Len(LineSize)
      /\ Stored(Here) \cup ToSet(buffer) \subseteq Nat
  BY LineUnderWay
<1>1. Done' = emitted /\ stage' = "idle" /\ lostLines' = lostLines \cup {emitted} /\ buffer' = buffer
  BY DEF Report, Done
<1>2. Become(Here)
  BY Stays
<1>3. Tidy(Here, buffer, Done)
  BY DEF FileInv
<1>4. Tidy(Here, buffer, emitted)
  BY <1>0, <1>3, TidyLater
<1>5. Tidy(Here', buffer', Done')
  BY <1>1, <1>2, <1>4, Becomes
<1>6. Calls'
  BY <1>0, <1>1 DEF Calls
<1>7. Freed'
  BY <1>1 DEF Freed
<1>8. Measured'
  BY <1>1, <1>2, Becomes DEF Measured, FileInv
<1>9. Stored(Here') = Stored(Here)
  BY <1>2, Becomes
<1>10. Complete'
  <2>1. ToSet(buffer') \subseteq lostLines'
    BY <1>1 DEF FileInv, Complete
  <2>2. ASSUME "rename" \notin failed'
        PROVE  Gapless(Stored(Here) \cup ToSet(buffer), emitted, lostLines')
    <3>1. Gapless(Stored(Here) \cup ToSet(buffer), Done, lostLines)
      BY <2>2 DEF FileInv, Complete
    <3> QED BY <1>0, <1>1, <3>1, GapNext
  <2> QED BY <1>1, <1>9, <2>1, <2>2 DEF Complete
<1>11. Ended'
  BY <1>1 DEF Ended
<1> QED BY <1>5, <1>6, <1>7, <1>8, <1>10, <1>11 DEF FileInv

\* emit: the line is to be written.
LEMMA EmitInv == ASSUME FileInv, EmitLine PROVE FileInv'
<1>1. /\ stage = "idle" /\ emitted' = emitted + 1 /\ stage' \in {"flush", "write"}
      /\ stage' = "write" => ~WouldExceed(emitted + 1)
      /\ UNCHANGED <<disk, handle, buffer, bytes, lostLines, failed>>
  BY DEF EmitLine, Succeed
<1>2. emitted \in Nat /\ emitted' \in 0..Len(LineSize) /\ emitted' > 0
  BY FileSizes DEF FileInv, Calls, EmitLine
<1>3. Done' = Done
  BY <1>1, <1>2 DEF Done
<1>4. Become(Here)
  BY <1>1, Stays
<1>5. Tidy(Here', buffer', Done') /\ Stored(Here') = Stored(Here)
  BY <1>1, <1>3, <1>4, Becomes DEF FileInv
<1>6. Calls' /\ Freed' /\ Ended'
  BY <1>1, <1>2 DEF Calls, Freed, Ended
<1>7. Complete'
  BY <1>1, <1>3, <1>5 DEF FileInv, Complete
<1>8. Measured'
  BY <1>1, <1>4, Becomes DEF FileInv, Measured, WouldExceed
<1> QED BY <1>5, <1>6, <1>7, <1>8 DEF FileInv

\* roll: the flush.
LEMMA FlushOldInv == ASSUME FileInv, FlushOld PROVE FileInv'
<1>1. CASE Fail("flush") /\ Report /\ UNCHANGED <<disk, handle, buffer>>
  BY <1>1, ReportInv DEF FlushOld, Fail
<1>2. CASE /\ Become(Flushed(Here, buffer)) /\ buffer' = << >>
           /\ stage' = IF MaxRolls > 0 THEN "rename" ELSE "open"
           /\ source' = MaxRolls - 1
           /\ Succeed /\ UNCHANGED lostLines
  <2> DEFINE f == Flushed(Here, buffer)
  <2>0. /\ stage = "flush" /\ UNCHANGED <<bytes, emitted, lostLines, failed>>
        /\ stage' \in {"rename", "open"} /\ MaxRolls \in Nat
    BY <1>2, Rolls DEF FlushOld, Succeed
  <2>1. Tidy(Here, buffer, Done) /\ Neat(Here) /\ Writable(Here) /\ buffer \in Seq(Line)
    BY DEF FileInv, Tidy, Pending
  <2>2. Tidy(f, << >>, Done) /\ Stored(f) = Stored(Here) \cup ToSet(buffer)
    BY <2>1, TidyFlush, FlushStored
  <2>3. Done' = Done
    BY <2>0 DEF Done
  <2>4. Tidy(Here', buffer', Done') /\ Stored(Here') = Stored(f)
    BY <1>2, <2>2, <2>3, Becomes
  <2>5. Calls' /\ Ended'
    <3>1. stage' = "rename" => source' \in 0..(MaxRolls - 1)
      BY <1>2, Rolls
    <3> QED BY <1>2, <2>0, <3>1 DEF FileInv, Calls, Ended
  <2>6. Freed'
    <3>1. ~(source' + 1 < MaxRolls) /\ (stage' = "open" => ~(MaxRolls > 0))
      BY <1>2, Rolls
    <3> QED BY <3>1 DEF Freed
  <2>7. Complete'
    <3>1. Stored(Here') \cup ToSet(buffer') = Stored(Here) \cup ToSet(buffer) /\ ToSet(buffer') = {}
      BY <1>2, <2>2, <2>4, NoLines
    <3> QED BY <2>0, <2>3, <3>1 DEF FileInv, Complete
  <2>8. Measured'
    <3>1. SUFFICES ASSUME "write" \notin failed
                   PROVE  Fits(Here', bytes)
      BY <1>2, <2>0 DEF Measured
    <3>2. buffer = << >> /\ Fits(Here, bytes)
      BY <3>1 DEF FileInv, Measured
    <3>3. /\ f.handle = handle /\ Held(f, handle) = Held(Here, handle) \o << >>
          /\ \A i \in Slot \ {handle} : Held(f, i) = Held(Here, i)
      BY <2>1, <3>2, FlushedHeld DEF Here
    <3>4. handle \in Slot /\ Held(Here, handle) \in Seq(Line) /\ Here.handle = handle
      BY <2>1 DEF Neat, Writable, Here
    <3> HIDE DEF f
    <3>5. Held(f, handle) = Held(Here, handle)
      BY <3>3, <3>4
    <3>6. \A i \in Slot : Held(f, i) = Held(Here, i)
      BY <3>3, <3>5
    <3>7. Fits(f, bytes)
      BY <3>2, <3>3, <3>4, <3>6, SizedMoved
    <3> QED BY <1>2, <3>7, Becomes DEF f
  <2> QED BY <2>4, <2>5, <2>6, <2>7, <2>8 DEF FileInv
<1> QED BY <1>1, <1>2 DEF FlushOld

\* roll: a rename, which frees the name for the next.
LEMMA RenameInv == ASSUME FileInv, RenameRoll PROVE FileInv'
<1> DEFINE i == source
           d == Here
<1>0. /\ stage = "rename" /\ UNCHANGED <<buffer, bytes, emitted, lostLines>> /\ buffer = << >>
      /\ i \in 0..(MaxRolls - 1) /\ MaxRolls \in Nat
      /\ \/ i > 0 /\ source' = i - 1 /\ stage' = "rename"
         \/ i = 0 /\ stage' = "open" /\ source' = i
  <2>1. stage = "rename" /\ UNCHANGED <<buffer, bytes, emitted, lostLines>> /\ (IF i > 0 THEN source' = i - 1 /\ UNCHANGED stage ELSE stage' = "open" /\ source' = i)
    BY DEF RenameRoll, RenameSlot
  <2>2. i \in 0..(MaxRolls - 1) /\ MaxRolls \in Nat /\ buffer = << >>
    BY <2>1, Rolls DEF FileInv, Calls
  <2>3. ~(i > 0) => i = 0
    BY <2>2
  <2> QED BY <2>1, <2>2, <2>3
<1>1. i \in Slot /\ i + 1 \in Slot /\ i \in Nat
  BY <1>0, Rolls
<1>2. Tidy(d, << >>, Done) /\ Neat(d) /\ IsDisk(d) /\ Writable(d)
  BY <1>0 DEF FileInv, Tidy, Neat
<1>3. Done' = Done
  BY <1>0 DEF Done
<1>4. Calls'
  BY <1>0 DEF FileInv, Calls
<1>5. Ended'
  BY <1>0 DEF Ended
<1>6. ToSet(buffer') = {} /\ ToSet(buffer) = {}
  BY <1>0, NoLines
\* Whatever became of the rename, given what it is to leave.
<1>7. ASSUME NEW e, Become(e), Tidy(e, << >>, Done), failed \subseteq failed',
             \A b : Fits(d, b) => Fits(e, b),
             "rename" \notin failed' => e.disk[i] = NoFile /\ Gapless(Stored(e), Done, lostLines)
      PROVE  FileInv'
  <2>1. Tidy(Here', buffer', Done') /\ Stored(Here') = Stored(e) /\ disk'[i] = e.disk[i]
    BY <1>0, <1>3, <1>7, Becomes
  <2>2. Complete'
    BY <1>0, <1>3, <1>6, <1>7, <2>1 DEF Complete
  <2>3. Measured'
    BY <1>0, <1>7, Becomes DEF FileInv, Measured
  <2>4. Freed'
    <3>1. SUFFICES ASSUME "rename" \notin failed'
                   PROVE  /\ stage' = "rename" => disk'[source' + 1] = NoFile
                          /\ stage' = "open" => disk'[0] = NoFile
      BY DEF Freed
    <3>2. (stage' = "rename" => source' + 1 = i) /\ (stage' = "open" => i = 0)
      BY <1>0, <1>1
    <3> QED BY <1>7, <2>1, <3>1, <3>2
  <2> QED BY <1>4, <1>5, <2>1, <2>2, <2>3, <2>4 DEF FileInv
<1>8. "rename" \notin failed => /\ Gapless(Stored(d), Done, lostLines)
                                /\ i + 1 < MaxRolls => d.disk[i + 1] = NoFile
  <2>1. ASSUME "rename" \notin failed
        PROVE  Gapless(Stored(d), Done, lostLines)
    BY <1>6, <2>1 DEF FileInv, Complete
  <2>2. d.disk = disk
    BY DEF Here
  <2> QED BY <1>0, <2>1, <2>2 DEF FileInv, Freed
<1>9. CASE disk[i] # NoFile /\ Become(Renamed(Here, i)) /\ Succeed
  <2> DEFINE e == Renamed(d, i)
  <2>1. d.disk[i] # NoFile /\ failed' = failed
    BY <1>9 DEF Here, Succeed
  <2>2. Tidy(e, << >>, Done)
    BY <1>1, <1>2, <2>1, TidyRename
  <2>3. "rename" \notin failed' => e.disk[i] = NoFile /\ Gapless(Stored(e), Done, lostLines)
    BY <1>1, <1>2, <1>8, <2>1, RenameGapless, RenamedHeld
  <2>4. Held(e, e.handle) = Held(d, d.handle)
    BY <1>1, <1>2, <2>1, RenameWritable
  <2>5. \A k \in Slot : Held(e, k) = << >> \/ \E j \in Slot : Held(e, k) = Held(d, j)
    <3>1. /\ Held(e, i) = << >> /\ Held(e, i + 1) = Held(d, i)
          /\ \A j \in Slot \ {i, i + 1} : Held(e, j) = Held(d, j)
      BY <1>1, <1>2, <2>1, RenamedHeld
    <3> HIDE DEF e, d
    <3> QED BY <1>1, <3>1
  <2>6. \A b : Fits(d, b) => Fits(e, b)
    BY <2>4, <2>5, SizedMoved
  <2> HIDE DEF e
  <2>7. Become(e)
    BY <1>9 DEF e
  <2> QED BY <1>7, <2>1, <2>2, <2>3, <2>6, <2>7
<1>10. CASE disk[i] = NoFile /\ Succeed /\ UNCHANGED <<disk, handle>>
  <2>1. Become(d) /\ d.disk[i] = NoFile /\ failed' = failed
    BY <1>10, Stays DEF Here, Succeed
  <2> HIDE DEF d
  <2> QED BY <1>2, <1>7, <1>8, <2>1
<1>11. CASE disk[i] # NoFile /\ Fail("rename") /\ UNCHANGED <<disk, handle>>
  <2>1. Become(d) /\ failed \subseteq failed' /\ "rename" \in failed'
    BY <1>11, Stays DEF Fail
  <2> HIDE DEF d
  <2> QED BY <1>2, <1>7, <2>1
<1> QED BY <1>9, <1>10, <1>11 DEF RenameRoll, RenameSlot

\* roll: the fresh base.
LEMMA ReopenInv == ASSUME FileInv, Reopen PROVE FileInv'
<1>1. CASE Fail("open") /\ Report /\ UNCHANGED <<disk, handle, buffer, bytes>>
  BY <1>1, ReportInv DEF Reopen, Fail
<1>2. CASE /\ Become(Reopened(Here)) /\ buffer' = << >> /\ bytes' = 0
           /\ stage' = "write"
           /\ Succeed /\ UNCHANGED <<source, lostLines>>
  <2> DEFINE e == Reopened(Here)
  <2>0. stage = "open" /\ emitted' = emitted /\ failed' = failed /\ lostLines' = lostLines /\ buffer = << >>
    BY <1>2 DEF Reopen, Succeed, FileInv, Calls
  <2>1. Tidy(Here, << >>, Done) /\ IsDisk(Here)
    BY <2>0 DEF FileInv, Tidy, Neat
  <2>2. Tidy(e, << >>, Done)
    BY <2>1, TidyReopen
  <2>3. Done' = Done
    BY <1>2, <2>0 DEF Done
  <2>4. Tidy(Here', buffer', Done') /\ Stored(Here') = Stored(e)
    BY <1>2, <2>2, <2>3, Becomes
  <2>5. Calls' /\ Freed' /\ Ended'
    BY <1>2, <2>0 DEF FileInv, Calls, Freed, Ended
  <2>6. Measured'
    <3>1. ASSUME "write" \notin failed
          PROVE  Fits(Here', 0)
      <4>1. Fits(Here, bytes)
        BY <3>1 DEF FileInv, Measured
      <4>2. Fits(e, 0)
        BY <2>1, <4>1, SizedReopen
      <4> QED BY <1>2, <4>2, Becomes
    <3>2. ~WouldExceed(emitted)'
      BY <1>2 DEF WouldExceed
    <3> QED BY <1>2, <2>0, <3>1, <3>2 DEF Measured
  <2>7. Complete'
    <3>1. ToSet(buffer') = {} /\ ToSet(buffer) = {}
      BY <1>2, <2>0, NoLines
    <3>2. ASSUME "rename" \notin failed
          PROVE  Gapless(Stored(e), Done, lostLines)
      <4>1. Gapless(Stored(Here), Done, lostLines) /\ (MaxRolls > 0 => Here.disk[0] = NoFile)
        BY <2>0, <3>1, <3>2 DEF FileInv, Complete, Freed, Here
      <4>2. CASE MaxRolls > 0
        BY <2>1, <4>1, <4>2, ReopenStored
      <4>3. CASE MaxRolls = 0
        <5>1. Stored(e) = {}
          BY <2>1, <4>3, ReopenStored
        <5> QED BY <5>1 DEF Gapless
      <4> QED BY <4>2, <4>3, Rolls
    <3> QED BY <2>0, <2>3, <2>4, <3>1, <3>2 DEF Complete
  <2> QED BY <2>4, <2>5, <2>6, <2>7 DEF FileInv
<1> QED BY <1>1, <1>2 DEF Reopen

\* write_line: the line fits, or the file is empty.
LEMMA WriteInv == ASSUME FileInv, WriteLine PROVE FileInv'
<1> DEFINE l == emitted
<1>0. /\ stage = "write" /\ emitted' = emitted
      /\ l \in Line /\ Done \in Nat /\ l = Done + 1 /\ l \in 0..Len(LineSize)
      /\ Stored(Here) \cup ToSet(buffer) \subseteq Nat
  BY LineUnderWay DEF WriteLine
<1>1. Tidy(Here, buffer, Done) /\ Neat(Here) /\ Writable(Here) /\ buffer \in Seq(Line)
  BY DEF FileInv, Tidy, Pending
<1>2. Tidy(Here, Append(buffer, l), l)
  BY <1>0, <1>1, PendingAppend
<1>3. Append(buffer, l) \in Seq(Line) /\ ToSet(Append(buffer, l)) = ToSet(buffer) \cup {l}
  <2>1. Append(buffer, l) = buffer \o <<l>> /\ <<l>> \in Seq(Line) /\ ToSet(<<l>>) = {l}
    BY <1>0, <1>1, OneLine
  <2> QED BY <1>1, <2>1, JoinedLines
<1>4. ASSUME "rename" \notin failed, NEW more, lostLines \subseteq more
      PROVE  Gapless(Stored(Here) \cup ToSet(buffer) \cup {l}, l, more)
  <2>1. Gapless(Stored(Here) \cup ToSet(buffer), Done, lostLines)
    BY <1>4 DEF FileInv, Complete
  <2> QED BY <1>0, <1>4, <2>1, GapNext
<1>5. stage' = "idle"
  BY DEF WriteLine, Report
<1>6. Done' = l
  BY <1>0, <1>5 DEF Done
<1>7. Freed'
  BY <1>5 DEF Freed
<1>8. Calls'
  BY <1>0, <1>5 DEF Calls
<1>9. CASE /\ Become(Flushed(Here, Append(buffer, emitted)))
           /\ buffer' = << >> /\ bytes' = bytes + LineSize[emitted]
           /\ stage' = "idle"
           /\ Succeed /\ UNCHANGED <<source, lostLines>>
  <2> DEFINE f == Flushed(Here, Append(buffer, l))
  <2>1. Tidy(f, << >>, l) /\ Stored(f) = Stored(Here) \cup ToSet(buffer) \cup {l}
    <3>1. Tidy(f, << >>, l)
      BY <1>2, TidyFlush
    <3>2. Stored(f) = Stored(Here) \cup ToSet(Append(buffer, l))
      BY <1>1, <1>3, FlushStored
    <3> HIDE DEF f
    <3> QED BY <1>3, <3>1, <3>2
  <2>2. Tidy(Here', buffer', Done') /\ Stored(Here') = Stored(f)
    BY <1>6, <1>9, <2>1, Becomes
  <2>3. failed' = failed /\ lostLines' = lostLines /\ ToSet(buffer') = {}
    BY <1>9, NoLines DEF Succeed
  <2>4. Complete'
    BY <1>4, <1>6, <2>1, <2>2, <2>3 DEF Complete
  <2>5. Ended'
    BY <1>0, <2>1, <2>2 DEF Ended
  <2>6. Measured'
    <3>1. SUFFICES ASSUME "write" \notin failed
                   PROVE  Fits(Here', bytes + LineSize[l])
      BY <1>5, <1>9, <2>3 DEF Measured
    <3>2. buffer = << >> /\ Fits(Here, bytes) /\ ~WouldExceed(l) /\ Append(buffer, l) = <<l>>
      BY <1>0, <3>1 DEF FileInv, Measured
    <3>3. RotateBytes > 0 /\ bytes > 0 => bytes + LineSize[l] <= RotateBytes
      <4>1. LineSize[l] \in Nat /\ RotateBytes \in Nat /\ bytes \in Nat
        BY <1>0, <3>2, FileSizes DEF Line, Fits
      <4> QED BY <3>2, <4>1 DEF WouldExceed
    <3>4. Fits(Flushed(Here, <<l>>), bytes + LineSize[l])
      BY <1>0, <1>1, <3>2, <3>3, SizedAppend
    <3> QED BY <1>9, <3>2, <3>4, Becomes
  <2> QED BY <1>7, <1>8, <2>2, <2>4, <2>5, <2>6 DEF FileInv
<1>10. CASE /\ Fail("write") /\ Report
            /\ buffer' = Append(buffer, emitted)
            /\ UNCHANGED <<disk, handle, bytes>>
  <2>1. Become(Here) /\ lostLines' = lostLines \cup {l} /\ failed' = failed \cup {"write"}
    BY <1>10, Stays DEF Report, Fail
  <2>2. Tidy(Here', buffer', Done') /\ Stored(Here') = Stored(Here)
    BY <1>2, <1>6, <1>10, <2>1, Becomes
  <2>3. Complete'
    <3>1. ToSet(buffer') \subseteq lostLines'
      BY <1>3, <1>10, <2>1 DEF FileInv, Complete
    <3>2. Stored(Here') \cup ToSet(buffer') = Stored(Here) \cup ToSet(buffer) \cup {l}
      BY <1>3, <1>10, <2>2
    <3> QED BY <1>4, <1>6, <2>1, <3>1, <3>2 DEF Complete
  <2>4. Ended' /\ Measured'
    BY <1>0, <2>1 DEF Ended, Measured
  <2> QED BY <1>7, <1>8, <2>2, <2>3, <2>4 DEF FileInv
<1> QED BY <1>9, <1>10 DEF WriteLine

\* A crash, and FileEmitter::new: what is on disk is as it was, and the writer has the base.
LEMMA RestartInv == ASSUME FileInv, Restart PROVE FileInv'
<1>0. /\ stage' = "idle" /\ emitted' = emitted /\ buffer' = << >> /\ failed' = failed
      /\ lostLines' = lostLines \cup UnderWay /\ handle' = 0
  BY DEF Restart, Succeed
<1>1. Neat(Here) /\ Writable(Here) /\ UpToLine(Here, Done) /\ IsDisk(Here)
  BY DEF FileInv, Tidy, Neat
<1>2. 0 \in Slot /\ disk = [i \in Slot |-> disk[i]] /\ Here.disk = disk /\ Here'.disk = disk' /\ Here'.handle = 0
  BY <1>1, Rolls DEF IsDisk, Here, Restart
<1>3. Held(Here, 0) = File(0) /\ disk' = [disk EXCEPT ![0] = File(0)] /\ bytes' = SizeOf(Held(Here, 0))
  BY <1>2 DEF Restart, Open, Held, File
<1>4. File(0) \in Seq(Line)
  BY <1>1, <1>2, <1>3 DEF Neat
<1>5. File(0) # NoFile
  BY <1>4, LinesAreNumbers, FileSizes
<1> DEFINE d == Here
           e == Here'
<1>13. Here.handle = handle /\ handle \in Slot /\ \A j \in Slot : j < handle => disk[j] = NoFile
  BY <1>1 DEF Writable, Here
<1> HIDE DEF d, e
<1>6. e.disk[0] = File(0) /\ (\A i \in Slot \ {0} : e.disk[i] = d.disk[i]) /\ IsDisk(e) /\ e.handle = 0
  BY <1>2, <1>3 DEF IsDisk, d, e
<1>7. \A i \in Slot : Held(e, i) = Held(d, i)
  BY <1>3, <1>5, <1>6 DEF Held, d
<1>8. Stored(e) = Stored(d)
  BY <1>7 DEF Stored
<1>9. Done' = emitted /\ emitted \in Nat /\ (Done = emitted \/ (Done \in Nat /\ emitted = Done + 1 /\ stage # "idle"))
  <2>1. emitted \in 0..Len(LineSize) /\ Len(LineSize) \in Nat /\ (stage # "idle" => emitted > 0)
    BY FileSizes DEF FileInv, Calls
  <2> QED BY <1>0, <2>1 DEF Done
<1>10. Tidy(e, << >>, Done')
  <2>1. Neat(e)
    BY <1>1, <1>6, <1>7 DEF Neat, d
  <2>2. Writable(e)
    BY <1>5, <1>6, Rolls DEF Writable
  <2>3. Tidy(e, << >>, Done)
    BY <1>1, <1>7, <2>1, <2>2, NoLines DEF Tidy, Pending, Older, UpToLine, d
  <2> QED BY <1>9, <2>3, TidyLater
<1>11. Complete'
  <2>1. ToSet(buffer') = {}
    BY <1>0, NoLines
  <2>2. ASSUME "rename" \notin failed
        PROVE  Gapless(Stored(d), emitted, lostLines')
    <3>1. Gapless(Stored(d) \cup ToSet(buffer), Done, lostLines) /\ ToSet(buffer) \subseteq lostLines
      BY <2>2 DEF FileInv, Complete, d
    <3>2. Gapless(Stored(d), Done, lostLines)
      BY <3>1, GapLost
    <3>3. CASE Done = emitted
      BY <1>0, <3>2, <3>3 DEF Gapless
    <3>4. CASE Done \in Nat /\ emitted = Done + 1 /\ stage # "idle"
      <4>1. Stored(d) \subseteq Nat /\ emitted \in lostLines' /\ lostLines \subseteq lostLines'
        BY <1>0, <1>1, <3>4, StoredLines DEF UnderWay, d
      <4> QED BY <3>2, <3>4, <4>1, GapNext
    <3> QED BY <1>9, <3>3, <3>4
  <2>3. "rename" \notin failed' => Gapless(Stored(e) \cup ToSet(buffer'), Done', lostLines')
    BY <1>0, <1>8, <1>9, <2>1, <2>2
  <2> QED BY <2>1, <2>3 DEF Complete, e
<1>12. Measured'
  <2>1. SUFFICES ASSUME "write" \notin failed
                 PROVE  Fits(e, bytes')
    BY <1>0 DEF Measured, e
  <2>2. Fits(d, bytes) /\ d.handle = handle
    BY <1>13, <2>1 DEF FileInv, Measured, d
  <2>3. bytes' = SizeOf(Held(e, 0)) /\ Held(e, 0) = Held(d, 0)
    BY <1>2, <1>3, <1>7 DEF d
  <2>4. bytes' \in Nat /\ (bytes' = 0 => Held(e, 0) = << >>)
    <3>1. CASE handle = 0
      BY <2>2, <2>3, <3>1 DEF Fits
    <3>2. CASE handle # 0
      <4>1. 0 < handle
        BY <1>13, <3>2, Rolls
      <4>2. disk[0] = NoFile
        BY <1>2, <1>13, <4>1
      <4>3. Held(d, 0) = << >>
        BY <1>2, <4>2 DEF Held, d
      <4> QED BY <2>3, <4>3, SizeOfEmpty
    <3> QED BY <3>1, <3>2
  <2> QED BY <1>6, <1>7, <2>2, <2>3, <2>4 DEF Fits
<1>14. Calls' /\ Freed'
  BY <1>0 DEF FileInv, Calls, Freed
<1>15. Ended'
  BY <1>0, <1>8 DEF FileInv, Ended, UnderWay, d, e
<1> QED BY <1>0, <1>10, <1>11, <1>12, <1>14, <1>15 DEF FileInv, e

\* An empty base and no roll.
LEMMA FileInvInit == FileInit => FileInv
<1> SUFFICES ASSUME FileInit PROVE FileInv
  OBVIOUS
<1>1. << >> # NoFile
  <2>1. << >> \in Seq(Nat)
    OBVIOUS
  <2> QED BY <2>1, FileSizes
<1>2. Here.disk = disk /\ Here.handle = 0 /\ 0 \in Slot
  BY Rolls DEF Here, FileInit
<1>3. \A i \in Slot : Held(Here, i) = << >>
  BY <1>2 DEF Held, FileInit
<1>4. Neat(Here) /\ UpToLine(Here, 0) /\ Pending(Here, << >>, 0)
  BY <1>2, <1>3, NoLines DEF Neat, IsDisk, FileInit, Older, UpToLine, Pending
<1>5. Writable(Here)
  BY <1>1, <1>2, Rolls DEF Writable, FileInit
<1>6. Fits(Here, 0)
  <2>1. RotateBytes \in Nat
    BY FileSizes
  <2> QED BY <1>2, <1>3, <2>1, SizeOfEmpty DEF Fits
<1>7. Stored(Here) \cup ToSet(buffer) = {} /\ ToSet(buffer) = {}
  BY <1>3, NoLines DEF Stored, FileInit
<1>8. Complete
  BY <1>7 DEF Complete, Gapless
<1>9. Calls /\ Freed /\ Ended /\ Done = 0
  BY FileSizes DEF Calls, Freed, Ended, Done, FileInit
<1>10. Measured
  BY <1>6 DEF Measured, FileInit
<1> QED BY <1>4, <1>5, <1>8, <1>9, <1>10 DEF FileInv, Tidy, FileInit

\* One case for each call, and the restart.
LEMMA FileInvNext == FileInv /\ [FileNext]_fileVars => FileInv'
<1> SUFFICES ASSUME FileInv, [FileNext]_fileVars PROVE FileInv'
  OBVIOUS
<1>1. CASE UNCHANGED fileVars
  <2>1. Become(Here) /\ Done' = Done
    BY <1>1, Stays DEF fileVars, Done
  <2>2. Tidy(Here', buffer', Done') /\ Stored(Here') = Stored(Here)
    BY <1>1, <2>1, Becomes DEF FileInv, fileVars
  <2>3. Measured'
    BY <1>1, <2>1, Becomes DEF FileInv, fileVars, Measured, WouldExceed
  <2>4. Calls' /\ Freed' /\ Complete' /\ Ended'
    BY <1>1, <2>1, <2>2 DEF FileInv, fileVars, Calls, Freed, Complete, Ended
  <2> QED BY <2>2, <2>3, <2>4 DEF FileInv
<1> QED BY <1>1, EmitInv, FlushOldInv, RenameInv, ReopenInv, WriteInv, RestartInv DEF FileNext

\* At every call of a rotation and after every failure and crash: the files are in order, the
\* writer has the newest of them and what is buffered is newer still; the name the next rename
\* takes is free; the count is the size of the writer's file; and what is missing was reported.
THEOREM FileInvariance == FileSpec => []FileInv
  BY FileInvInit, FileInvNext, PTL DEF FileSpec

\* This is what a reader of the files relies on.
LEMMA FileInvKeeps == FileInv => FileKept
<1> SUFFICES ASSUME FileInv PROVE FileKept
  OBVIOUS
<1>1. \A i : File(i) = Held(Here, i)
  BY DEF File, Held, Here
<1>2. Neat(Here)
  BY DEF FileInv, Tidy
<1>3. LinesInOrder
  <2>1. \A i \in Slot : Sorted(File(i))
    BY <1>1, <1>2 DEF Neat
  <2>2. \A i, j \in Slot : i < j => Older(File(j), File(i))
    BY <1>1, <1>2 DEF Neat
  <2> QED BY <2>1, <2>2 DEF LinesInOrder, Sorted, Older
<1>4. OnDisk = Stored(Here) /\ Stored(Here) \subseteq Nat
  BY <1>1, <1>2, StoredLines DEF OnDisk, Stored
<1>5. OnlyOldestDropped
  <2>1. SUFFICES ASSUME "rename" \notin failed, NEW l \in 1..emitted,
                        l \notin OnDisk \cup lostLines \cup UnderWay, NEW kept \in OnDisk
                 PROVE  l < kept
    BY DEF OnlyOldestDropped
  <2>2. emitted \in Nat /\ l \in Nat /\ kept \in Nat
    BY <1>4, FileSizes DEF FileInv, Calls
  <2>3. l <= Done
    BY <2>1, <2>2 DEF UnderWay, Done
  <2>4. Gapless(Stored(Here) \cup ToSet(buffer), Done, lostLines) /\ ToSet(buffer) \subseteq lostLines
    BY <2>1 DEF FileInv, Complete
  <2>5. ASSUME kept <= l PROVE FALSE
    <3>1. l \in kept..Done
      BY <2>2, <2>3, <2>5 DEF Done
    <3> QED BY <1>4, <2>1, <2>4, <3>1 DEF Gapless
  <2> QED BY <2>2, <2>5
<1>6. LastLineKept
  BY <1>4 DEF FileInv, Ended, LastLineKept, UnderWay
<1>7. FilesBounded
  BY <1>1 DEF FileInv, Measured, Fits, FilesBounded
<1> QED BY <1>3, <1>5, <1>6, <1>7 DEF FileKept

\* FileEmitter: for every sequence of lines, limit and number of rolls, whichever call of a
\* rotation or a write fails and at whichever of them the agent crashes, no line is stored
\* twice or out of order, the last line is on disk or reported, a line is missing only if it was
\* reported, cut off by a crash or older than all that is kept (unless a rename failed), and
\* no file exceeds the limit (unless a write failed).
THEOREM FileAlwaysKept == FileSpec => []FileKept
  BY FileInvariance, FileInvKeeps, PTL

-----------------------------------------------------------------------------
(***************************************************************************)
(* The snapshot: what is joined belongs together, and the walk.            *)
(***************************************************************************)

IsHost(h) ==
  /\ DOMAIN h = {"os", "procs", "socks", "pkgs", "files"}
  /\ DOMAIN h.pkgs = DOMAIN Libs
  /\ \A s \in h.socks : s.pid \in Pids /\ s.port \in Ports
  /\ \A s, u \in h.socks : s.port = u.port => s = u
  /\ h.files \subseteq {e \in DOMAIN Kind : Kind[e] = "model"}

IsListener(l) == DOMAIN l = {"addr", "port", "pid", "process"} /\ l.pid \in Pids /\ l.port \in Ports
IsRuntime(r) == DOMAIN r = {"runtime", "process", "pid", "port", "exposed", "version", "models"} /\ r.port \in Ports
IsPackage(p) == DOMAIN p = {"name", "version", "libs"} /\ p.name \in DOMAIN Libs
IsFrame(f) == DOMAIN f = {"entries", "depth", "readable"} /\ f.depth \in Nat

CollectionTyped ==
  /\ DOMAIN col = {"pc", "listeners", "probing", "packages", "unread", "frames", "roots", "left", "models", "skipped"}
  /\ \A l \in col.listeners : IsListener(l)
  /\ \A p \in col.packages : IsPackage(p)
  /\ col.frames \in Seq(ToSet(col.frames)) /\ \A f \in ToSet(col.frames) : IsFrame(f)
  /\ col.roots \in Seq(ToSet(col.roots)) /\ col.models \in Seq(ToSet(col.models))
  /\ col.left \in Nat /\ Len(col.models) + col.left = MaxFiles

\* Every socket now open has been witnessed.
WitnessedNow ==
  /\ DOMAIN witnessed = {"served", "rebound", "upgraded", "gone"}
  /\ \A s \in sys.socks : <<s.port, s.pid, sys.procs[s.pid]>> \in witnessed.served

\* The port passed to someone else, or it is still the pid's; and what was answered so
\* far is the name of what runs there.
Moved(port) == port \in witnessed.rebound
Keeps(port, pid) == Server(sys, port) = {<<pid, sys.procs[pid]>>}
Holds(l) == Moved(l.port) \/ (Keeps(l.port, l.pid) /\ l.process \in {Absent, sys.procs[l.pid]})
Answers(r) ==
  Moved(r.port) \/ (Keeps(r.port, r.pid) /\ {r.process, r.version, r.models} \subseteq {Absent, "nobody", sys.procs[r.pid]})

ListenersHeld == col.pc \in {"tasklist", "classify"} => \A l \in col.listeners : Holds(l)
RuntimesHeld == col.pc = "probe" => \A r \in col.probing : IsRuntime(r) /\ Answers(r)

\* A package whose file of libraries is still to be read has the version listed.
PackagesCurrent ==
  col.pc = "libraries" =>
    \A p \in col.packages : p.name \in col.unread =>
      p.name \in witnessed.upgraded \/ (sys.pkgs[p.name] = p.version /\ p.version # Absent)

\* What the walk will still come to by the entries of a directory it is in.
Due(f) == f.entries \cup UNION {Below(x, f.depth + 1) : x \in {x \in f.entries : Kind[x] = "dir"}}

\* What the walk has found or will still come to.
Covers(c) ==
  ToSet(c.models) \cup (UNION {Due(f) : f \in ToSet(c.frames)}) \cup (UNION {Below(d, 0) : d \in ToSet(c.roots)})

\* The files a walk must find.
Wanted == {e \in sys.files \ witnessed.gone : \E d \in ToSet(Roots) : e \in Below(d, 0)}

NothingMissed == ~col.skipped /\ col.left > 0 => Wanted \subseteq Covers(col)

WalkEnded == col.pc = "done" => col.frames = << >> /\ (col.roots = << >> \/ col.left = 0)

SnapshotInv ==
  /\ IsHost(sys) /\ CollectionTyped /\ WitnessedNow
  /\ ListenersHeld /\ RuntimesHeld /\ PackagesCurrent
  /\ ListenerNamed /\ RuntimeWhole /\ LibrariesProvided /\ NothingMissed /\ WalkEnded

-----------------------------------------------------------------------------
\* A sequence with an element put before it.
LEMMA ConsSet ==
  ASSUME NEW s, s \in Seq(ToSet(s)), NEW f
  PROVE  LET t == <<f>> \o s IN t \in Seq(ToSet(t)) /\ ToSet(t) = {f} \cup ToSet(s)
<1> DEFINE t == <<f>> \o s
<1>1. Len(t) = Len(s) + 1 /\ DOMAIN t = 1..(Len(s) + 1) /\ DOMAIN s = 1..Len(s) /\ Len(s) \in Nat
      /\ t[1] = f /\ \A i \in 1..Len(s) : t[i + 1] = s[i]
  <2>1. <<f>> \in Seq({f} \cup ToSet(s)) /\ s \in Seq({f} \cup ToSet(s)) /\ Len(<<f>>) = 1
    BY SMTT(30) DEF ToSet
  <2>2. t \in Seq({f} \cup ToSet(s)) /\ Len(t) = Len(s) + 1
    BY <2>1
  <2> QED BY <2>1, <2>2
<1>2. t \in Seq({f} \cup ToSet(s))
  BY SMTT(30) DEF ToSet
<1> HIDE DEF t
<1>3. ToSet(t) \subseteq {f} \cup ToSet(s)
  <2> SUFFICES ASSUME NEW i \in 1..(Len(s) + 1) PROVE t[i] \in {f} \cup ToSet(s)
    BY <1>1 DEF ToSet
  <2>1. CASE i = 1
    BY <1>1, <2>1
  <2>2. CASE i - 1 \in 1..Len(s)
    <3>1. t[(i - 1) + 1] = s[i - 1] /\ (i - 1) + 1 = i
      BY <1>1, <2>2
    <3> QED BY <1>1, <2>2, <3>1 DEF ToSet
  <2> QED BY <1>1, <2>1, <2>2
<1>4. {f} \cup ToSet(s) \subseteq ToSet(t)
  <2>1. f \in ToSet(t)
    <3>1. 1 \in DOMAIN t /\ t[1] = f
      BY <1>1
    <3> QED BY <3>1 DEF ToSet
  <2>2. ASSUME NEW i \in 1..Len(s) PROVE s[i] \in ToSet(t)
    <3>1. i + 1 \in 1..(Len(s) + 1) /\ t[i + 1] = s[i]
      BY <1>1
    <3> QED BY <1>1, <3>1 DEF ToSet
  <2> QED BY <1>1, <2>1, <2>2 DEF ToSet
<1>5. ToSet(t) = {f} \cup ToSet(s)
  BY <1>3, <1>4
<1> QED BY <1>2, <1>5 DEF t

\* The first element and the others.
LEMMA HeadTail ==
  ASSUME NEW s, s \in Seq(ToSet(s)), s # << >>
  PROVE  /\ Tail(s) \in Seq(ToSet(Tail(s))) /\ Head(s) = s[1] /\ Head(s) \in ToSet(s)
         /\ ToSet(s) = {Head(s)} \cup ToSet(Tail(s))
<1> DEFINE t == Tail(s)
<1>1. /\ Len(s) \in Nat /\ Len(s) >= 1 /\ DOMAIN s = 1..Len(s) /\ Head(s) = s[1]
      /\ t \in Seq(ToSet(s)) /\ Len(t) = Len(s) - 1 /\ DOMAIN t = 1..(Len(s) - 1)
      /\ \A i \in 1..(Len(s) - 1) : t[i] = s[i + 1]
  OBVIOUS
<1> HIDE DEF t
<1>2. t \in Seq(ToSet(t))
  <2>1. \A i \in 1..Len(t) : t[i] \in ToSet(t)
    BY <1>1 DEF ToSet
  <2> QED BY <1>1, <2>1
<1>3. Head(s) \in ToSet(s)
  BY <1>1 DEF ToSet
<1>4. ASSUME NEW i \in 1..Len(s) PROVE s[i] \in {Head(s)} \cup ToSet(t)
  <2>1. CASE i = 1
    BY <1>1, <2>1
  <2>2. CASE i - 1 \in 1..(Len(s) - 1)
    <3>1. t[i - 1] = s[(i - 1) + 1] /\ (i - 1) + 1 = i
      BY <1>1, <2>2
    <3> QED BY <1>1, <2>2, <3>1 DEF ToSet
  <2> QED BY <1>1, <2>1, <2>2
<1>5. ASSUME NEW i \in 1..(Len(s) - 1) PROVE t[i] \in ToSet(s)
  <2>1. i + 1 \in 1..Len(s) /\ t[i] = s[i + 1]
    BY <1>1
  <2> QED BY <1>1, <2>1 DEF ToSet
<1>6. ToSet(s) \subseteq {Head(s)} \cup ToSet(t)
  BY <1>1, <1>4 DEF ToSet
<1>7. ToSet(t) \subseteq ToSet(s)
  BY <1>1, <1>5 DEF ToSet
<1> QED BY <1>1, <1>2, <1>3, <1>6, <1>7 DEF t

\* An element added at the end.
LEMMA AppendSet ==
  ASSUME NEW s, s \in Seq(ToSet(s)), NEW e
  PROVE  LET t == Append(s, e)
         IN  t \in Seq(ToSet(t)) /\ ToSet(t) = ToSet(s) \cup {e} /\ Len(t) = Len(s) + 1
<1> DEFINE t == Append(s, e)
<1>1. /\ Len(s) \in Nat /\ DOMAIN s = 1..Len(s) /\ Len(t) = Len(s) + 1 /\ DOMAIN t = 1..(Len(s) + 1)
      /\ t[Len(s) + 1] = e /\ \A i \in 1..Len(s) : t[i] = s[i]
  <2>1. s \in Seq(ToSet(s) \cup {e})
    OBVIOUS
  <2> QED BY <2>1
<1>2. t \in Seq(ToSet(s) \cup {e})
  OBVIOUS
<1> HIDE DEF t
<1>3. ToSet(t) \subseteq ToSet(s) \cup {e}
  BY <1>1 DEF ToSet
<1>4. ToSet(s) \cup {e} \subseteq ToSet(t)
  BY <1>1 DEF ToSet
<1>5. ToSet(t) = ToSet(s) \cup {e}
  BY <1>3, <1>4
<1> QED BY <1>1, <1>2, <1>5 DEF t

\* No sequence.
LEMMA EmptySet == << >> \in Seq(ToSet(<< >>)) /\ ToSet(<< >>) = {}
  BY DEF ToSet

-----------------------------------------------------------------------------
\* What lies below a directory is in it or below one of its directories.
LEMMA BelowStep ==
  ASSUME NEW d, NEW k \in Nat, NEW e \in Below(d, k)
  PROVE  k <= MaxDepth /\ (e \in Tree[d] \/ \E x \in Tree[d] : Kind[x] = "dir" /\ e \in Below(x, k + 1))
<1>0. MaxDepth \in Nat
  BY WalkAssumption
<1>1. PICK n \in 1..(MaxDepth + 1 - k) : \E p \in Paths(d, n) : e \in Tree[p[n]]
  BY DEF Below
<1>2. PICK p \in Paths(d, n) : e \in Tree[p[n]]
  BY <1>1
<1>3. /\ p \in [1..n -> DOMAIN Tree] /\ p[1] = d
      /\ \A i \in 1..(n - 1) : p[i + 1] \in Tree[p[i]] /\ Kind[p[i + 1]] = "dir"
  BY <1>2 DEF Paths
<1>4. n \in Nat /\ n >= 1 /\ n <= MaxDepth + 1 - k /\ k <= MaxDepth
  BY <1>0, <1>1
<1>5. CASE n = 1
  BY <1>2, <1>3, <1>4, <1>5
<1>6. CASE n > 1
  <2> DEFINE q == [i \in 1..(n - 1) |-> p[i + 1]]
  <2>1. \A i \in 1..(n - 1) : i + 1 \in 1..n /\ q[i] = p[i + 1]
    BY <1>4
  <2>2. q \in [1..(n - 1) -> DOMAIN Tree]
    BY <1>3, <1>4
  <2> HIDE DEF q
  <2>3. q[1] = p[2] /\ p[2] \in Tree[d] /\ Kind[p[2]] = "dir"
    <3>1. 1 \in 1..(n - 1) /\ 1 + 1 = 2
      BY <1>4, <1>6
    <3>2. p[1 + 1] \in Tree[p[1]] /\ Kind[p[1 + 1]] = "dir"
      BY <1>3, <3>1
    <3> QED BY <1>3, <2>1, <3>1, <3>2
  <2>4. ASSUME NEW i \in 1..((n - 1) - 1)
        PROVE  q[i + 1] \in Tree[q[i]] /\ Kind[q[i + 1]] = "dir"
    <3>1. i \in 1..(n - 1) /\ i + 1 \in 1..(n - 1)
      BY <1>4
    <3>2. p[(i + 1) + 1] \in Tree[p[i + 1]] /\ Kind[p[(i + 1) + 1]] = "dir"
      BY <1>3, <3>1
    <3> QED BY <2>1, <3>1, <3>2
  <2>5. q[n - 1] = p[n]
    <3>1. n - 1 \in 1..(n - 1) /\ (n - 1) + 1 = n
      BY <1>4, <1>6
    <3> QED BY <2>1, <3>1
  <2>6. q \in Paths(p[2], n - 1)
    BY <2>2, <2>3, <2>4 DEF Paths
  <2>7. n - 1 \in 1..(MaxDepth + 1 - (k + 1))
    BY <1>0, <1>4, <1>6
  <2>8. e \in Below(p[2], k + 1)
    BY <1>2, <2>5, <2>6, <2>7 DEF Below
  <2> QED BY <1>4, <2>3, <2>8
<1> QED BY <1>4, <1>5, <1>6

\* A directory that was opened leads to every file now in it or below it.
LEMMA OpenedLeads ==
  ASSUME NEW d, NEW k \in Nat, NEW f \in Opened(d, k), f.readable,
         NEW e \in Below(d, k), e \in sys.files
  PROVE  e \in Due(f)
<1>1. f = [entries |-> Entries(d), depth |-> k, readable |-> TRUE]
  BY DEF Opened
<1>2. f.entries = Entries(d) /\ f.depth = k
  BY <1>1
<1>3. CASE e \in Tree[d]
  BY <1>2, <1>3 DEF Entries, Due
<1>4. CASE \E x \in Tree[d] : Kind[x] = "dir" /\ e \in Below(x, k + 1)
  <2>1. PICK x \in Tree[d] : Kind[x] = "dir" /\ e \in Below(x, k + 1)
    BY <1>4
  <2>2. x \in f.entries
    BY <1>2, <2>1 DEF Entries
  <2>3. e \in Below(x, f.depth + 1)
    BY <1>2, <2>1
  <2> QED BY <2>1, <2>2, <2>3 DEF Due
<1> QED BY <1>3, <1>4, BelowStep

\* What is opened is a frame.
LEMMA OpenedFrame ==
  ASSUME NEW d, NEW k \in Nat, NEW f \in Opened(d, k)
  PROVE  IsFrame(f) /\ f.depth = k
<1>1. CASE f = [entries |-> Entries(d), depth |-> k, readable |-> TRUE]
  BY <1>1 DEF IsFrame
<1>2. CASE f = [entries |-> {}, depth |-> k, readable |-> FALSE]
  BY <1>2 DEF IsFrame
<1> QED BY <1>1, <1>2 DEF Opened

-----------------------------------------------------------------------------
\* The collection begins with nothing found and everything to walk.
LEMMA SnapshotBegins ==
  ASSUME InventoryInit
  PROVE  SnapshotInv
<1>0. MaxFiles \in Nat /\ Roots \in Seq(DOMAIN Tree)
  BY WalkAssumption
<1>1. col = [pc |-> "listeners", listeners |-> {}, probing |-> {}, packages |-> {}, unread |-> {},
             frames |-> << >>, roots |-> Roots, left |-> MaxFiles, models |-> << >>, skipped |-> FALSE]
  BY DEF InventoryInit
<1>2. /\ DOMAIN sys = {"os", "procs", "socks", "pkgs", "files"} /\ sys.socks = {}
      /\ DOMAIN sys.pkgs = DOMAIN Libs
      /\ sys.files \subseteq {e \in DOMAIN Kind : Kind[e] = "model"}
  <2>1. /\ DOMAIN StartingHost = {"os", "procs", "socks", "pkgs", "files"}
        /\ StartingHost.socks = {} /\ StartingHost.files = {}
        /\ DOMAIN StartingHost.pkgs = DOMAIN Libs
    BY DEF StartingHost
  <2>2. CASE sys = StartingHost
    BY <2>1, <2>2
  <2>3. CASE \E o \in Os, fs \in SUBSET {e \in DOMAIN Kind : Kind[e] = "model"} :
               sys = [StartingHost EXCEPT !.os = o, !.files = fs]
    BY <2>1, <2>3
  <2> QED BY <2>2, <2>3 DEF InventoryInit
<1>3. IsHost(sys)
  BY <1>2 DEF IsHost
<1>4. Roots \in Seq(ToSet(Roots))
  BY <1>0 DEF ToSet
<1>5. CollectionTyped
  BY <1>0, <1>1, <1>4, EmptySet DEF CollectionTyped
<1>6. WitnessedNow
  <2>1. witnessed = [served |-> {}, rebound |-> {}, upgraded |-> {}, gone |-> {}]
    BY DEF InventoryInit
  <2> QED BY <1>2, <2>1 DEF WitnessedNow
<1>7. /\ ListenerNamed /\ RuntimeWhole /\ LibrariesProvided /\ WalkEnded
      /\ ListenersHeld /\ RuntimesHeld /\ PackagesCurrent
  BY <1>1 DEF ListenerNamed, RuntimeWhole, LibrariesProvided, WalkEnded, ListenersHeld, RuntimesHeld, PackagesCurrent
<1>8. NothingMissed
  <2>1. col.roots = Roots
    BY <1>1
  <2> QED BY <2>1 DEF NothingMissed, Wanted, Covers
<1> QED BY <1>3, <1>5, <1>6, <1>7, <1>8 DEF SnapshotInv

-----------------------------------------------------------------------------
\* Whatever changes on the host is witnessed, and a file that comes or goes is no
\* longer one the walk must find.
LEMMA ChangesKeeps ==
  ASSUME SnapshotInv, NEW h, IsHost(h), h.os = sys.os, Changes(h)
  PROVE  SnapshotInv'
<1>1. sys' = h /\ col' = col
  BY DEF Changes
<1>2. /\ DOMAIN witnessed' = {"served", "rebound", "upgraded", "gone"}
      /\ witnessed'.served = witnessed.served \cup {<<s.port, s.pid, h.procs[s.pid]>> : s \in h.socks}
      /\ witnessed'.rebound = witnessed.rebound \cup
           {t \in Ports : col.pc \in {"tasklist", "classify", "probe"} /\ Server(h, t) # Server(sys, t)}
      /\ witnessed'.upgraded = witnessed.upgraded \cup {p \in col.unread : h.pkgs[p] # sys.pkgs[p]}
      /\ witnessed'.gone = witnessed.gone \cup (sys.files \ h.files) \cup (h.files \ sys.files)
  BY DEF Changes
<1>3. IsHost(sys)' /\ CollectionTyped'
  BY <1>1 DEF SnapshotInv, CollectionTyped, IsHost
<1>4. WitnessedNow'
  BY <1>1, <1>2 DEF WitnessedNow, IsHost
<1>5. WalkEnded'
  BY <1>1 DEF SnapshotInv, WalkEnded
<1>6. ListenerNamed'
  BY <1>1, <1>2 DEF SnapshotInv, ListenerNamed
<1>7. LibrariesProvided'
  BY <1>1, <1>2 DEF SnapshotInv, LibrariesProvided
<1>10. RuntimeWhole'
  BY <1>1, <1>2 DEF SnapshotInv, RuntimeWhole
<1>11. ASSUME col.pc \in {"tasklist", "classify", "probe"}, NEW t \in Ports, NEW pid
       PROVE  /\ Moved(t) => Moved(t)'
              /\ Keeps(t, pid) => Moved(t)' \/ (Keeps(t, pid)' /\ h.procs[pid] = sys.procs[pid])
  <2>1. Moved(t) => Moved(t)'
    BY <1>2 DEF Moved
  <2>2. ASSUME Keeps(t, pid), ~Moved(t)' PROVE Keeps(t, pid)' /\ h.procs[pid] = sys.procs[pid]
    <3>1. Server(h, t) = Server(sys, t)
      BY <1>2, <1>11, <2>2 DEF Moved
    <3>2. Server(h, t) = {<<pid, sys.procs[pid]>>}
      BY <2>2, <3>1 DEF Keeps
    <3>3. PICK s \in h.socks : <<pid, sys.procs[pid]>> = <<s.pid, h.procs[s.pid]>>
      BY <3>2 DEF Server
    <3>4. h.procs[pid] = sys.procs[pid]
      BY <3>3
    <3>5. Server(h, t) = {<<pid, h.procs[pid]>>}
      BY <3>2, <3>4
    <3>6. Server(sys, t)' = Server(h, t)
      BY <1>1 DEF Server
    <3> QED BY <1>1, <3>4, <3>5, <3>6 DEF Keeps
  <2> QED BY <2>1, <2>2
<1>12. ListenersHeld'
  <2>1. SUFFICES ASSUME col.pc \in {"tasklist", "classify"}, NEW l \in col.listeners PROVE Holds(l)'
    BY <1>1 DEF ListenersHeld
  <2>2. Holds(l) /\ l.port \in Ports
    BY <2>1 DEF SnapshotInv, ListenersHeld, CollectionTyped, IsListener
  <2>3. (Moved(l.port) => Moved(l.port)') /\ (Keeps(l.port, l.pid) => Moved(l.port)' \/ (Keeps(l.port, l.pid)' /\ h.procs[l.pid] = sys.procs[l.pid]))
    BY <1>11, <2>1, <2>2
  <2> QED BY <1>1, <2>2, <2>3 DEF Holds
<1>13. RuntimesHeld'
  <2>1. SUFFICES ASSUME col.pc = "probe", NEW r \in col.probing PROVE IsRuntime(r) /\ Answers(r)'
    BY <1>1 DEF RuntimesHeld
  <2>2. IsRuntime(r) /\ Answers(r) /\ r.port \in Ports
    BY <2>1 DEF SnapshotInv, RuntimesHeld, IsRuntime
  <2>3. (Moved(r.port) => Moved(r.port)') /\ (Keeps(r.port, r.pid) => Moved(r.port)' \/ (Keeps(r.port, r.pid)' /\ h.procs[r.pid] = sys.procs[r.pid]))
    BY <1>11, <2>1, <2>2
  <2> QED BY <1>1, <2>2, <2>3 DEF Answers
<1>14. PackagesCurrent'
  BY <1>1, <1>2 DEF SnapshotInv, PackagesCurrent
<1>8. Wanted' \subseteq Wanted
  BY <1>1, <1>2 DEF Wanted
<1>9. NothingMissed'
  <2>1. Covers(col') = Covers(col)
    BY <1>1
  <2>2. NothingMissed' = (~col'.skipped /\ col'.left > 0 => Wanted' \subseteq Covers(col'))
    BY DEF NothingMissed, Covers, Due
  <2>3. NothingMissed
    BY DEF SnapshotInv
  <2> QED BY <1>1, <1>8, <2>1, <2>3 DEF NothingMissed
<1> QED BY <1>3, <1>4, <1>5, <1>6, <1>7, <1>9, <1>10, <1>12, <1>13, <1>14 DEF SnapshotInv

\* The host's own steps are such changes.
LEMMA HostKeeps ==
  ASSUME SnapshotInv, PidReused \/ Binds \/ PackageChanges \/ FileChanges
  PROVE  SnapshotInv'
<1>0. IsHost(sys)
  BY DEF SnapshotInv
<1>1. CASE PidReused
  <2>1. PICK p \in Pids, n \in Names :
          Changes([sys EXCEPT !.procs[p] = n, !.socks = {s \in @ : s.pid # p}])
    BY <1>1 DEF PidReused
  <2> DEFINE h == [sys EXCEPT !.procs[p] = n, !.socks = {s \in @ : s.pid # p}]
  <2>2. IsHost(h) /\ h.os = sys.os
    BY <1>0 DEF IsHost
  <2> HIDE DEF h
  <2>3. Changes(h)
    BY <2>1 DEF h
  <2> QED BY <2>2, <2>3, ChangesKeeps
<1>2. CASE Binds
  <2>1. PICK p \in Pids, a \in {"*", "127.0.0.1"}, t \in Ports :
          /\ ~\E s \in sys.socks : s.port = t
          /\ Changes([sys EXCEPT !.socks = @ \cup {[addr |-> a, port |-> t, pid |-> p]}])
    BY <1>2 DEF Binds
  <2> DEFINE h == [sys EXCEPT !.socks = @ \cup {[addr |-> a, port |-> t, pid |-> p]}]
  <2>2. IsHost(h) /\ h.os = sys.os
    BY <1>0, <2>1 DEF IsHost
  <2> HIDE DEF h
  <2>3. Changes(h)
    BY <2>1 DEF h
  <2> QED BY <2>2, <2>3, ChangesKeeps
<1>3. CASE PackageChanges
  <2>1. PICK p \in DOMAIN Libs : \E v \in DOMAIN Libs[p] \cup {Absent} :
          Changes([sys EXCEPT !.pkgs[p] = v])
    BY <1>3 DEF PackageChanges
  <2>2. PICK v \in DOMAIN Libs[p] \cup {Absent} : Changes([sys EXCEPT !.pkgs[p] = v])
    BY <2>1
  <2> DEFINE h == [sys EXCEPT !.pkgs[p] = v]
  <2>3. IsHost(h) /\ h.os = sys.os
    BY <1>0 DEF IsHost
  <2> HIDE DEF h
  <2>4. Changes(h)
    BY <2>2 DEF h
  <2> QED BY <2>3, <2>4, ChangesKeeps
<1>4. CASE FileChanges
  <2>1. PICK e \in {e \in DOMAIN Kind : Kind[e] = "model"} :
          Changes([sys EXCEPT !.files = IF e \in @ THEN @ \ {e} ELSE @ \cup {e}])
    BY <1>4 DEF FileChanges
  <2> DEFINE h == [sys EXCEPT !.files = IF e \in @ THEN @ \ {e} ELSE @ \cup {e}]
  <2>2. IsHost(h) /\ h.os = sys.os
    BY <1>0 DEF IsHost
  <2> HIDE DEF h
  <2>3. Changes(h)
    BY <2>1 DEF h
  <2> QED BY <2>2, <2>3, ChangesKeeps
<1> QED BY <1>1, <1>2, <1>3, <1>4

-----------------------------------------------------------------------------
\* A step of the collection that leaves the walk alone.
LEMMA WalkAside ==
  ASSUME SnapshotInv, UNCHANGED <<sys, witnessed>>, DOMAIN col' = DOMAIN col,
         col'.frames = col.frames, col'.roots = col.roots, col'.left = col.left,
         col'.models = col.models, col'.skipped = col.skipped, col'.pc # "done",
         \A l \in col'.listeners : IsListener(l), \A p \in col'.packages : IsPackage(p),
         ListenerNamed', RuntimeWhole', LibrariesProvided', ListenersHeld', RuntimesHeld', PackagesCurrent'
  PROVE  SnapshotInv'
<1>1. IsHost(sys)' /\ WitnessedNow'
  BY DEF SnapshotInv, IsHost, WitnessedNow
<1>2. CollectionTyped'
  BY DEF SnapshotInv, CollectionTyped
<1>3. WalkEnded'
  BY DEF WalkEnded
<1>4. NothingMissed'
  BY DEF SnapshotInv, NothingMissed, Wanted, Covers
<1> QED BY <1>1, <1>2, <1>3, <1>4 DEF SnapshotInv

\* A listener is named by the call that shows it; the socket is open at that time.
LEMMA ListListenersKeeps ==
  ASSUME SnapshotInv, ListListeners
  PROVE  SnapshotInv'
<1>1. PICK shown \in SUBSET Rows :
        col' = [Goes(IF sys.os = "windows" THEN "tasklist" ELSE "classify") EXCEPT
                  !.listeners = ParseListeners(shown, sys.os)]
  BY DEF ListListeners
<1>2. DOMAIN col = {"pc", "listeners", "probing", "packages", "unread", "frames", "roots", "left", "models", "skipped"}
  BY DEF SnapshotInv, CollectionTyped
<1>3. /\ DOMAIN col' = DOMAIN col /\ col'.frames = col.frames /\ col'.roots = col.roots
      /\ col'.left = col.left /\ col'.models = col.models /\ col'.skipped = col.skipped
      /\ col'.packages = col.packages /\ col'.probing = col.probing /\ col'.pc = IF sys.os = "windows" THEN "tasklist" ELSE "classify"
      /\ col'.listeners = ParseListeners(shown, sys.os)
  BY <1>1, <1>2 DEF Goes
<1>4. UNCHANGED <<sys, witnessed>>
  BY DEF ListListeners
<1>5. ASSUME NEW l \in col'.listeners
      PROVE  /\ IsListener(l) /\ Holds(l)
             /\ l.process # Absent => <<l.port, l.pid, l.process>> \in witnessed.served
  <2>1. PICK r \in shown : l = [addr |-> ParseAddrPort(r).addr, port |-> r.port, pid |-> r.pid,
                                process |-> IF sys.os = "windows" THEN Absent ELSE r.process]
    BY <1>3, <1>5 DEF ParseListeners
  <2>2. PICK s \in sys.socks : r = [addr |-> s.addr, port |-> s.port, pid |-> s.pid, listening |-> TRUE,
                                    process |-> sys.procs[s.pid]]
    BY <2>1 DEF Rows
  <2>3. r.port = s.port /\ r.pid = s.pid /\ r.process = sys.procs[s.pid]
    BY <2>2
  <2>4. /\ DOMAIN l = {"addr", "port", "pid", "process"} /\ l.port = s.port /\ l.pid = s.pid
        /\ l.process = IF sys.os = "windows" THEN Absent ELSE sys.procs[s.pid]
    BY <2>1, <2>3
  <2>5. s.pid \in Pids /\ s.port \in Ports /\ <<s.port, s.pid, sys.procs[s.pid]>> \in witnessed.served
    BY DEF SnapshotInv, IsHost, WitnessedNow
  <2>6. Keeps(s.port, s.pid)
    <3>1. {u \in sys.socks : u.port = s.port} = {s}
      BY DEF SnapshotInv, IsHost
    <3> QED BY <3>1 DEF Keeps, Server
  <2>7. Holds(l)
    BY <2>4, <2>6 DEF Holds
  <2> QED BY <2>4, <2>5, <2>7 DEF IsListener
<1>6. ListenerNamed'
  BY <1>4, <1>5 DEF ListenerNamed
<1>7. col'.pc # "done"
  BY <1>3
<1>8. LibrariesProvided' /\ \A p \in col'.packages : IsPackage(p)
  BY <1>3, <1>4 DEF SnapshotInv, LibrariesProvided, CollectionTyped
<1>9. RuntimesHeld' /\ PackagesCurrent' /\ RuntimeWhole'
  BY <1>3, <1>4 DEF SnapshotInv, RuntimesHeld, PackagesCurrent, RuntimeWhole
<1>10. ListenersHeld'
  BY <1>4, <1>5 DEF ListenersHeld, Holds, Moved, Keeps, Server
<1> QED BY <1>3, <1>4, <1>5, <1>6, <1>7, <1>8, <1>9, <1>10, WalkAside

\* tasklist names what runs under the pid at the time of the second call.
LEMMA NameProcessesKeeps ==
  ASSUME SnapshotInv, NameProcesses
  PROVE  SnapshotInv'
<1>1. PICK fails \in BOOLEAN :
        col' = [Goes("classify") EXCEPT
                  !.listeners = IF fails THEN @ ELSE {[l EXCEPT !.process = sys.procs[l.pid]] : l \in @}]
  BY DEF NameProcesses
<1>2. /\ DOMAIN col = {"pc", "listeners", "probing", "packages", "unread", "frames", "roots", "left", "models", "skipped"}
      /\ \A l \in col.listeners : IsListener(l)
  BY DEF SnapshotInv, CollectionTyped
<1>3. /\ DOMAIN col' = DOMAIN col /\ col'.frames = col.frames /\ col'.roots = col.roots
      /\ col'.left = col.left /\ col'.models = col.models /\ col'.skipped = col.skipped
      /\ col'.packages = col.packages /\ col'.probing = col.probing /\ col'.pc = "classify"
      /\ (\/ col'.listeners = col.listeners
          \/ col'.listeners = {[l EXCEPT !.process = sys.procs[l.pid]] : l \in col.listeners})
  BY <1>1, <1>2 DEF Goes
<1>4. UNCHANGED <<sys, witnessed>> /\ col.pc = "tasklist"
  BY DEF NameProcesses
<1>5. ASSUME NEW l \in col'.listeners
      PROVE  /\ IsListener(l) /\ Holds(l)
             /\ l.process # Absent => <<l.port, l.pid, l.process>> \in witnessed.served \/ Moved(l.port)
  <2>1. CASE l \in col.listeners
    BY <1>2, <1>4, <2>1 DEF SnapshotInv, ListenerNamed, ListenersHeld, Moved
  <2>2. CASE \E k \in col.listeners : l = [k EXCEPT !.process = sys.procs[k.pid]]
    <3>1. PICK k \in col.listeners : l = [k EXCEPT !.process = sys.procs[k.pid]]
      BY <2>2
    <3>2. IsListener(k) /\ Holds(k)
      BY <1>2, <1>4 DEF SnapshotInv, ListenersHeld
    <3>3. DOMAIN l = DOMAIN k /\ l.pid = k.pid /\ l.port = k.port /\ l.process = sys.procs[k.pid]
      BY <3>1, <3>2 DEF IsListener
    <3>4. ASSUME Keeps(k.port, k.pid) PROVE <<k.port, k.pid, sys.procs[k.pid]>> \in witnessed.served
      <4>0. <<k.pid, sys.procs[k.pid]>> \in Server(sys, k.port)
        BY <3>4 DEF Keeps
      <4>1. PICK s \in sys.socks : s.port = k.port /\ <<k.pid, sys.procs[k.pid]>> = <<s.pid, sys.procs[s.pid]>>
        BY <4>0 DEF Server
      <4>2. s.pid = k.pid
        BY <4>1
      <4> QED BY <4>1, <4>2 DEF SnapshotInv, WitnessedNow
    <3>5. Holds(l)
      BY <3>2, <3>3 DEF Holds
    <3>6. Moved(k.port) \/ Keeps(k.port, k.pid)
      BY <3>2 DEF Holds
    <3> QED BY <3>2, <3>3, <3>4, <3>5, <3>6 DEF IsListener
  <2> QED BY <1>3, <1>5, <2>1, <2>2
<1>6. ListenerNamed'
  BY <1>4, <1>5 DEF ListenerNamed, Moved
<1>7. col'.pc # "done"
  BY <1>3
<1>8. LibrariesProvided' /\ \A p \in col'.packages : IsPackage(p)
  BY <1>3, <1>4 DEF SnapshotInv, LibrariesProvided, CollectionTyped
<1>9. RuntimesHeld' /\ PackagesCurrent' /\ RuntimeWhole'
  BY <1>3, <1>4 DEF SnapshotInv, RuntimesHeld, PackagesCurrent, RuntimeWhole
<1>10. ListenersHeld'
  BY <1>4, <1>5 DEF ListenersHeld, Holds, Moved, Keeps, Server
<1> QED BY <1>3, <1>4, <1>5, <1>6, <1>7, <1>8, <1>9, <1>10, WalkAside

\* The runtimes are the listeners that match one; nothing has been asked yet.
LEMMA ClassifyKeeps ==
  ASSUME SnapshotInv, ClassifyListeners
  PROVE  SnapshotInv'
<1>1. DOMAIN col = {"pc", "listeners", "probing", "packages", "unread", "frames", "roots", "left", "models", "skipped"}
  BY DEF SnapshotInv, CollectionTyped
<1>2. /\ DOMAIN col' = DOMAIN col /\ col'.frames = col.frames /\ col'.roots = col.roots
      /\ col'.left = col.left /\ col'.models = col.models /\ col'.skipped = col.skipped
      /\ col'.packages = col.packages /\ col'.listeners = col.listeners
      /\ col'.probing = Classify(col.listeners)
      /\ col.pc = "classify" /\ col'.pc = "probe" /\ UNCHANGED <<sys, witnessed>>
  BY <1>1 DEF ClassifyListeners, Goes
<1>3. ListenerNamed' /\ LibrariesProvided' /\ ListenersHeld' /\ PackagesCurrent' /\ col'.pc # "done"
  BY <1>2 DEF SnapshotInv, ListenerNamed, LibrariesProvided, ListenersHeld, PackagesCurrent
<1>4. (\A l \in col'.listeners : IsListener(l)) /\ \A p \in col'.packages : IsPackage(p)
  BY <1>2 DEF SnapshotInv, CollectionTyped
<1>5. ASSUME NEW r \in Classify(col.listeners) PROVE IsRuntime(r) /\ Answers(r)
  <2>1. PICK l \in col.listeners :
          r = [runtime |-> MatchRuntime(l.process, l.port), process |-> l.process, pid |-> l.pid,
               port |-> l.port, exposed |-> IsExposed(l.addr), version |-> Absent, models |-> Absent]
    BY DEF Classify
  <2>2. l.port \in Ports /\ Holds(l)
    BY <1>2 DEF SnapshotInv, CollectionTyped, IsListener, ListenersHeld
  <2>3. /\ DOMAIN r = {"runtime", "process", "pid", "port", "exposed", "version", "models"}
        /\ r.process = l.process /\ r.pid = l.pid /\ r.port = l.port /\ r.version = Absent /\ r.models = Absent
    BY <2>1
  <2> QED BY <2>2, <2>3 DEF IsRuntime, Answers, Holds
<1>6. RuntimesHeld'
  BY <1>2, <1>5 DEF RuntimesHeld, Answers, Moved, Keeps, Server
<1>7. RuntimeWhole'
  BY <1>2, <1>5 DEF RuntimeWhole, Answers, Moved
<1> QED BY <1>2, <1>3, <1>4, <1>6, <1>7, WalkAside

\* Whoever answers on a port that is still the pid's is what runs under the pid.
LEMMA ProbeKeeps ==
  ASSUME SnapshotInv, ProbeVersion \/ ProbeModels
  PROVE  SnapshotInv'
<1>1. DOMAIN col = {"pc", "listeners", "probing", "packages", "unread", "frames", "roots", "left", "models", "skipped"}
  BY DEF SnapshotInv, CollectionTyped
<1>2. PICK r \in col.probing : \E by \in Answering(r.port) \cup {"nobody"} :
        \/ col' = [col EXCEPT !.probing = (@ \ {r}) \cup {[r EXCEPT !.version = by]}]
        \/ col' = [col EXCEPT !.probing = (@ \ {r}) \cup {[r EXCEPT !.models = by]}]
  BY DEF ProbeVersion, ProbeModels
<1>3. PICK by \in Answering(r.port) \cup {"nobody"} :
        \/ col' = [col EXCEPT !.probing = (@ \ {r}) \cup {[r EXCEPT !.version = by]}]
        \/ col' = [col EXCEPT !.probing = (@ \ {r}) \cup {[r EXCEPT !.models = by]}]
  BY <1>2
<1>4. PICK q \in {[r EXCEPT !.version = by], [r EXCEPT !.models = by]} :
        col' = [col EXCEPT !.probing = (@ \ {r}) \cup {q}]
  BY <1>3
<1>5. col.pc = "probe" /\ UNCHANGED <<sys, witnessed>>
  BY DEF ProbeVersion, ProbeModels
<1>6. /\ DOMAIN col' = DOMAIN col /\ col'.frames = col.frames /\ col'.roots = col.roots
      /\ col'.left = col.left /\ col'.models = col.models /\ col'.skipped = col.skipped
      /\ col'.packages = col.packages /\ col'.listeners = col.listeners
      /\ col'.probing = (col.probing \ {r}) \cup {q} /\ col'.pc = "probe"
  BY <1>1, <1>4, <1>5
<1>7. ListenerNamed' /\ LibrariesProvided' /\ ListenersHeld' /\ PackagesCurrent' /\ col'.pc # "done"
  BY <1>5, <1>6 DEF SnapshotInv, ListenerNamed, LibrariesProvided, ListenersHeld, PackagesCurrent
<1>8. (\A l \in col'.listeners : IsListener(l)) /\ \A p \in col'.packages : IsPackage(p)
  BY <1>6 DEF SnapshotInv, CollectionTyped
<1>9. IsRuntime(r) /\ Answers(r)
  BY <1>5 DEF SnapshotInv, RuntimesHeld
<1>10. Keeps(r.port, r.pid) => by \in {"nobody", sys.procs[r.pid]}
  <2>1. SUFFICES ASSUME Keeps(r.port, r.pid), by # "nobody" PROVE by = sys.procs[r.pid]
    OBVIOUS
  <2>2. PICK s \in sys.socks : s.port = r.port /\ by = sys.procs[s.pid]
    BY <2>1 DEF Answering
  <2>3. <<s.pid, sys.procs[s.pid]>> \in Server(sys, r.port)
    BY <2>2 DEF Server
  <2>4. <<s.pid, sys.procs[s.pid]>> = <<r.pid, sys.procs[r.pid]>>
    BY <2>1, <2>3 DEF Keeps
  <2> QED BY <2>2, <2>4
<1>11. IsRuntime(q) /\ Answers(q)
  <2>1. /\ DOMAIN q = DOMAIN r /\ q.port = r.port /\ q.pid = r.pid /\ q.process = r.process
        /\ q.version \in {r.version, by} /\ q.models \in {r.models, by}
    BY <1>9 DEF IsRuntime
  <2> QED BY <1>9, <1>10, <2>1 DEF IsRuntime, Answers
<1>12. \A x \in col'.probing : IsRuntime(x) /\ Answers(x)
  BY <1>5, <1>6, <1>11 DEF SnapshotInv, RuntimesHeld
<1>13. RuntimesHeld'
  BY <1>5, <1>12 DEF RuntimesHeld, Answers, Moved, Keeps, Server
<1>14. RuntimeWhole'
  BY <1>5, <1>12 DEF RuntimeWhole, Answers, Moved
<1> QED BY <1>5, <1>6, <1>7, <1>8, <1>13, <1>14, WalkAside

\* The probes done, the packages are next.
LEMMA ProbesDoneKeeps ==
  ASSUME SnapshotInv, ProbesDone
  PROVE  SnapshotInv'
<1>1. DOMAIN col = {"pc", "listeners", "probing", "packages", "unread", "frames", "roots", "left", "models", "skipped"}
  BY DEF SnapshotInv, CollectionTyped
<1>2. /\ DOMAIN col' = DOMAIN col /\ col'.frames = col.frames /\ col'.roots = col.roots
      /\ col'.left = col.left /\ col'.models = col.models /\ col'.skipped = col.skipped
      /\ col'.packages = col.packages /\ col'.listeners = col.listeners /\ col'.probing = col.probing
      /\ col'.pc = "packages" /\ UNCHANGED <<sys, witnessed>>
  BY <1>1 DEF ProbesDone, Goes
<1>3. /\ ListenerNamed' /\ RuntimeWhole' /\ LibrariesProvided' /\ col'.pc # "done"
      /\ ListenersHeld' /\ RuntimesHeld' /\ PackagesCurrent'
  BY <1>2 DEF SnapshotInv, ListenerNamed, RuntimeWhole, LibrariesProvided, ListenersHeld, RuntimesHeld,
     PackagesCurrent
<1>4. (\A l \in col'.listeners : IsListener(l)) /\ \A p \in col'.packages : IsPackage(p)
  BY <1>2 DEF SnapshotInv, CollectionTyped
<1> QED BY <1>2, <1>3, <1>4, WalkAside

\* The packages are listed, with the versions they have now and without their libraries.
LEMMA ListPackagesKeeps ==
  ASSUME SnapshotInv, ListPackages
  PROVE  SnapshotInv'
<1> DEFINE lines == {[name |-> p, version |-> sys.pkgs[p]] : p \in DOMAIN sys.pkgs}
<1>1. DOMAIN col = {"pc", "listeners", "probing", "packages", "unread", "frames", "roots", "left", "models", "skipped"}
  BY DEF SnapshotInv, CollectionTyped
<1>2. PICK listed \in {{}, ParseLinewise(lines, sys.os)} :
        col' = [Goes("libraries") EXCEPT
                  !.packages = {[name |-> p.name, version |-> p.version, libs |-> {}] : p \in listed},
                  !.unread = IF sys.os = "linux" THEN {p.name : p \in listed} ELSE {}]
  BY DEF ListPackages
<1>3. /\ DOMAIN col' = DOMAIN col /\ col'.frames = col.frames /\ col'.roots = col.roots
      /\ col'.left = col.left /\ col'.models = col.models /\ col'.skipped = col.skipped
      /\ col'.listeners = col.listeners /\ col'.probing = col.probing /\ col'.pc = "libraries"
      /\ col'.packages = {[name |-> p.name, version |-> p.version, libs |-> {}] : p \in listed}
  BY <1>1, <1>2 DEF Goes
<1>4. UNCHANGED <<sys, witnessed>>
  BY DEF ListPackages
<1>5. ASSUME NEW p \in col'.packages
      PROVE  IsPackage(p) /\ p.libs = {} /\ sys.pkgs[p.name] = p.version /\ p.version # Absent
  <2>1. PICK q \in listed : p = [name |-> q.name, version |-> q.version, libs |-> {}]
    BY <1>3, <1>5
  <2>2. PICK l \in lines : q = Package(l.name, l.version, sys.os) /\ l.version # Absent
    BY <1>2, <2>1 DEF ParseLinewise
  <2>3. PICK n \in DOMAIN sys.pkgs : l = [name |-> n, version |-> sys.pkgs[n]]
    BY <2>2
  <2>4. q.name = n /\ q.version = sys.pkgs[n] /\ sys.pkgs[n] # Absent /\ n \in DOMAIN Libs
    BY <2>2, <2>3 DEF Package, SnapshotInv, IsHost
  <2> QED BY <2>1, <2>4 DEF IsPackage
<1>6. LibrariesProvided' /\ PackagesCurrent'
  BY <1>4, <1>5 DEF LibrariesProvided, PackagesCurrent
<1>7. /\ ListenerNamed' /\ RuntimeWhole' /\ ListenersHeld' /\ RuntimesHeld'
      /\ col'.pc # "done" /\ \A l \in col'.listeners : IsListener(l)
  BY <1>3, <1>4 DEF SnapshotInv, ListenerNamed, RuntimeWhole, ListenersHeld, RuntimesHeld, CollectionTyped
<1> QED BY <1>3, <1>4, <1>5, <1>6, <1>7, WalkAside

\* A file of libraries is joined to the package of its name; they are those of the
\* version listed, unless the package was upgraded since.
LEMMA AttachLibrariesKeeps ==
  ASSUME SnapshotInv, AttachLibraries
  PROVE  SnapshotInv'
<1>1. /\ DOMAIN col = {"pc", "listeners", "probing", "packages", "unread", "frames", "roots", "left", "models", "skipped"}
      /\ \A p \in col.packages : IsPackage(p)
  BY DEF SnapshotInv, CollectionTyped
<1>2. PICK n \in col.unread : \E libs \in {{}, LibrariesOf(sys.pkgs)[n]} :
        col' = [col EXCEPT !.unread = @ \ {n},
                           !.packages = {IF p.name = n THEN [p EXCEPT !.libs = libs] ELSE p : p \in @}]
  BY DEF AttachLibraries
<1>3. PICK libs \in {{}, LibrariesOf(sys.pkgs)[n]} :
        col' = [col EXCEPT !.unread = @ \ {n},
                           !.packages = {IF p.name = n THEN [p EXCEPT !.libs = libs] ELSE p : p \in @}]
  BY <1>2
<1>4. UNCHANGED <<sys, witnessed>> /\ col.pc = "libraries"
  BY DEF AttachLibraries
<1>5. /\ DOMAIN col' = DOMAIN col /\ col'.frames = col.frames /\ col'.roots = col.roots
      /\ col'.left = col.left /\ col'.models = col.models /\ col'.skipped = col.skipped
      /\ col'.listeners = col.listeners /\ col'.probing = col.probing /\ col'.pc = "libraries"
      /\ col'.unread = col.unread \ {n}
      /\ col'.packages = {IF p.name = n THEN [p EXCEPT !.libs = libs] ELSE p : p \in col.packages}
  BY <1>1, <1>3, <1>4
<1>6. ASSUME NEW p \in col'.packages
      PROVE  /\ IsPackage(p) /\ (p.libs \in {{}, Libs[p.name][p.version]} \/ p.name \in witnessed.upgraded)
             /\ p.name \in col'.unread =>
                  p.name \in witnessed.upgraded \/ (sys.pkgs[p.name] = p.version /\ p.version # Absent)
  <2>1. PICK q \in col.packages : p = IF q.name = n THEN [q EXCEPT !.libs = libs] ELSE q
    BY <1>5, <1>6
  <2>2. /\ IsPackage(q) /\ (q.libs \in {{}, Libs[q.name][q.version]} \/ q.name \in witnessed.upgraded)
        /\ q.name \in col.unread =>
             q.name \in witnessed.upgraded \/ (sys.pkgs[q.name] = q.version /\ q.version # Absent)
    BY <1>1, <1>4 DEF SnapshotInv, LibrariesProvided, PackagesCurrent
  <2>3. CASE q.name # n
    BY <1>5, <2>1, <2>2, <2>3
  <2>4. CASE q.name = n
    <3>1. DOMAIN p = DOMAIN q /\ p.name = n /\ p.version = q.version /\ p.libs = libs
      BY <2>1, <2>2, <2>4 DEF IsPackage
    <3>2. n \notin col'.unread
      BY <1>5
    <3>3. n \in DOMAIN sys.pkgs
      BY <2>2, <2>4 DEF SnapshotInv, IsHost, IsPackage
    <3>4. sys.pkgs[n] = q.version /\ q.version # Absent => LibrariesOf(sys.pkgs)[n] = Libs[n][q.version]
      BY <3>3 DEF LibrariesOf
    <3> QED BY <1>3, <2>2, <2>4, <3>1, <3>2, <3>4 DEF IsPackage
  <2> QED BY <2>3, <2>4
<1>7. LibrariesProvided' /\ PackagesCurrent'
  BY <1>4, <1>6 DEF LibrariesProvided, PackagesCurrent
<1>8. /\ ListenerNamed' /\ RuntimeWhole' /\ ListenersHeld' /\ RuntimesHeld'
      /\ col'.pc # "done" /\ \A l \in col'.listeners : IsListener(l)
  BY <1>4, <1>5 DEF SnapshotInv, ListenerNamed, RuntimeWhole, ListenersHeld, RuntimesHeld, CollectionTyped
<1> QED BY <1>4, <1>5, <1>6, <1>7, <1>8, WalkAside

\* All files read, the walk is next.
LEMMA LibrariesDoneKeeps ==
  ASSUME SnapshotInv, LibrariesDone
  PROVE  SnapshotInv'
<1>1. DOMAIN col = {"pc", "listeners", "probing", "packages", "unread", "frames", "roots", "left", "models", "skipped"}
  BY DEF SnapshotInv, CollectionTyped
<1>2. /\ DOMAIN col' = DOMAIN col /\ col'.frames = col.frames /\ col'.roots = col.roots
      /\ col'.left = col.left /\ col'.models = col.models /\ col'.skipped = col.skipped
      /\ col'.packages = col.packages /\ col'.listeners = col.listeners /\ col'.probing = col.probing
      /\ col'.pc = "walk" /\ UNCHANGED <<sys, witnessed>>
  BY <1>1 DEF LibrariesDone, Goes
<1>3. /\ ListenerNamed' /\ RuntimeWhole' /\ LibrariesProvided' /\ col'.pc # "done"
      /\ ListenersHeld' /\ RuntimesHeld' /\ PackagesCurrent'
  BY <1>2 DEF SnapshotInv, ListenerNamed, RuntimeWhole, LibrariesProvided, ListenersHeld, RuntimesHeld,
     PackagesCurrent
<1>4. (\A l \in col'.listeners : IsListener(l)) /\ \A p \in col'.packages : IsPackage(p)
  BY <1>2 DEF SnapshotInv, CollectionTyped
<1> QED BY <1>2, <1>3, <1>4, WalkAside

-----------------------------------------------------------------------------
\* A step of the walk, which leaves the rest of the collection alone.
LEMMA WalkStep ==
  ASSUME SnapshotInv, UNCHANGED <<sys, witnessed>>, DOMAIN col' = DOMAIN col,
         col'.listeners = col.listeners, col'.packages = col.packages, col'.probing = col.probing, col'.pc \in {"walk", "done"},
         col'.frames \in Seq(ToSet(col'.frames)), \A f \in ToSet(col'.frames) : IsFrame(f),
         col'.roots \in Seq(ToSet(col'.roots)), col'.models \in Seq(ToSet(col'.models)),
         col'.left \in Nat, Len(col'.models) + col'.left = MaxFiles,
         ~col'.skipped /\ col'.left > 0 =>
           ~col.skipped /\ col.left > 0 /\ Wanted \cap Covers(col) \subseteq Covers(col'),
         WalkEnded'
  PROVE  SnapshotInv'
<1>1. IsHost(sys)' /\ WitnessedNow'
  BY DEF SnapshotInv, IsHost, WitnessedNow
<1>2. CollectionTyped'
  BY DEF SnapshotInv, CollectionTyped
<1>3. /\ ListenerNamed' /\ RuntimeWhole' /\ LibrariesProvided'
      /\ ListenersHeld' /\ RuntimesHeld' /\ PackagesCurrent'
  BY DEF SnapshotInv, ListenerNamed, RuntimeWhole, LibrariesProvided, ListenersHeld, RuntimesHeld, PackagesCurrent
<1>4. NothingMissed'
  <2>1. Wanted' = Wanted
    BY DEF Wanted
  <2>2. NothingMissed
    BY DEF SnapshotInv
  <2> QED BY <2>1, <2>2 DEF NothingMissed
<1> QED BY <1>1, <1>2, <1>3, <1>4 DEF SnapshotInv

\* The next root is opened, and leads to what lies below it.
LEMMA WalkRootKeeps ==
  ASSUME SnapshotInv, WalkRoot
  PROVE  SnapshotInv'
<1>1. PICK f \in Opened(Head(col.roots), 0) : col' = Enter([col EXCEPT !.roots = Tail(@)], f)
  BY DEF WalkRoot
<1>2. CollectionTyped
  BY DEF SnapshotInv
<1>3. UNCHANGED <<sys, witnessed>> /\ col.pc = "walk" /\ col.frames = << >> /\ col.roots # << >> /\ col.left > 0
  BY DEF WalkRoot
<1>4. /\ DOMAIN col' = DOMAIN col /\ col'.listeners = col.listeners /\ col'.packages = col.packages /\ col'.probing = col.probing
      /\ col'.pc = "walk" /\ col'.frames = <<f>> \o col.frames /\ col'.roots = Tail(col.roots)
      /\ col'.models = col.models /\ col'.left = col.left
      /\ col'.skipped = (col.skipped \/ ~f.readable)
  BY <1>1, <1>2, <1>3 DEF CollectionTyped, Enter
<1>5. IsFrame(f)
  BY OpenedFrame
<1>6. col'.frames \in Seq(ToSet(col'.frames)) /\ ToSet(col'.frames) = {f} \cup ToSet(col.frames)
  BY <1>2, <1>4, ConsSet DEF CollectionTyped
<1>7. /\ col'.roots \in Seq(ToSet(col'.roots))
      /\ ToSet(col.roots) = {Head(col.roots)} \cup ToSet(col'.roots)
  BY <1>2, <1>3, <1>4, HeadTail DEF CollectionTyped
<1>8. ASSUME ~col'.skipped
      PROVE  ~col.skipped /\ Wanted \cap Covers(col) \subseteq Covers(col')
  <2>1. ~col.skipped /\ f.readable
    BY <1>4, <1>8
  <2>2. ASSUME NEW e \in Wanted, e \in Covers(col)
        PROVE  e \in Covers(col')
    <3>1. CASE e \in ToSet(col.models) \/ \E g \in ToSet(col.frames) : e \in Due(g)
      BY <1>4, <1>6, <3>1 DEF Covers
    <3>2. CASE e \in Below(Head(col.roots), 0)
      <4>1. e \in Due(f)
        BY <2>1, <3>2, OpenedLeads DEF Wanted
      <4> QED BY <1>6, <4>1 DEF Covers
    <3>3. CASE \E d \in ToSet(col'.roots) : e \in Below(d, 0)
      BY <3>3 DEF Covers
    <3> QED BY <1>7, <2>2, <3>1, <3>2, <3>3 DEF Covers
  <2> QED BY <2>1, <2>2
<1>9. WalkEnded'
  BY <1>4 DEF WalkEnded
<1>10. \A g \in ToSet(col'.frames) : IsFrame(g)
  BY <1>2, <1>5, <1>6 DEF CollectionTyped
<1>11. /\ col'.models \in Seq(ToSet(col'.models)) /\ col'.left \in Nat
       /\ Len(col'.models) + col'.left = MaxFiles
  BY <1>2, <1>4 DEF CollectionTyped
<1> QED BY <1>3, <1>4, <1>6, <1>7, <1>8, <1>9, <1>10, <1>11, WalkStep

\* Taking an entry gives up only that entry and what lies below it.
LEMMA WithoutFacts ==
  ASSUME CollectionTyped, col.frames # << >>, NEW e \in Head(col.frames).entries
  PROVE  LET c == Without(e)
             k == Head(col.frames).depth
         IN  /\ DOMAIN c = DOMAIN col /\ c.listeners = col.listeners /\ c.packages = col.packages /\ c.probing = col.probing
             /\ c.pc = col.pc /\ c.roots = col.roots /\ c.models = col.models
             /\ c.left = col.left /\ c.skipped = col.skipped /\ k \in Nat
             /\ c.frames \in Seq(ToSet(c.frames)) /\ \A f \in ToSet(c.frames) : IsFrame(f)
             /\ \A x \in Covers(col) : x \in Covers(c) \/ x = e \/ (Kind[e] = "dir" /\ x \in Below(e, k + 1))
<1> DEFINE c == Without(e)
           k == Head(col.frames).depth
           g == [Head(col.frames) EXCEPT !.entries = Head(col.frames).entries \ {e}]
<1>1. /\ Tail(col.frames) \in Seq(ToSet(Tail(col.frames))) /\ Head(col.frames) = col.frames[1]
      /\ Head(col.frames) \in ToSet(col.frames)
      /\ ToSet(col.frames) = {Head(col.frames)} \cup ToSet(Tail(col.frames))
  BY HeadTail DEF CollectionTyped
<1>2. IsFrame(Head(col.frames)) /\ k \in Nat
  BY <1>1 DEF CollectionTyped, IsFrame
<1>3. IsFrame(g) /\ g.entries = Head(col.frames).entries \ {e} /\ g.depth = k
  BY <1>1, <1>2 DEF IsFrame
<1>4. /\ DOMAIN c = DOMAIN col /\ c.listeners = col.listeners /\ c.packages = col.packages /\ c.probing = col.probing
      /\ c.pc = col.pc /\ c.roots = col.roots /\ c.models = col.models
      /\ c.left = col.left /\ c.skipped = col.skipped /\ c.frames = <<g>> \o Tail(col.frames)
  <2>1. c = [col EXCEPT !.frames = <<g>> \o Tail(col.frames)]
    BY DEF Without
  <2> HIDE DEF c, g
  <2> QED BY <2>1 DEF CollectionTyped
<1> HIDE DEF c, g
<1>5. c.frames \in Seq(ToSet(c.frames)) /\ ToSet(c.frames) = {g} \cup ToSet(Tail(col.frames))
  BY <1>1, <1>4, ConsSet
<1>6. \A f \in ToSet(c.frames) : IsFrame(f)
  BY <1>1, <1>3, <1>5 DEF CollectionTyped
<1>7. ASSUME NEW x \in Covers(col)
      PROVE  x \in Covers(c) \/ x = e \/ (Kind[e] = "dir" /\ x \in Below(e, k + 1))
  <2>1. CASE x \in ToSet(col.models) \/ (\E d \in ToSet(col.roots) : x \in Below(d, 0))
             \/ \E f \in ToSet(Tail(col.frames)) : x \in Due(f)
    BY <1>4, <1>5, <2>1 DEF Covers
  <2>2. CASE x \in Due(Head(col.frames))
    <3>1. x = e \/ (Kind[e] = "dir" /\ x \in Below(e, k + 1)) \/ x \in Due(g)
      BY <1>3, <2>2 DEF Due
    <3>2. x \in Due(g) => x \in Covers(c)
      BY <1>5 DEF Covers
    <3> QED BY <3>1, <3>2
  <2> QED BY <1>1, <2>1, <2>2 DEF Covers
<1> QED BY <1>2, <1>4, <1>5, <1>6, <1>7 DEF c

\* Every kind of entry is followed, listed or rightly passed over.
LEMMA WalkEntryKeeps ==
  ASSUME SnapshotInv, WalkEntry
  PROVE  SnapshotInv'
<1> DEFINE k == Head(col.frames).depth
<1>1. PICK e \in Head(col.frames).entries :
        \/ /\ Kind[e] = "dir" /\ Descends(k)
           /\ \E f \in Opened(e, k + 1) : col' = Enter(Without(e), f)
        \/ Kind[e] = "dir" /\ ~Descends(k) /\ col' = Without(e)
        \/ Kind[e] = "model" /\ e \in sys.files /\ col' = Found(Without(e), e)
        \/ /\ Kind[e] = "symlink" \/ Kind[e] = "other" \/ (Kind[e] = "model" /\ e \notin sys.files)
           /\ col' = Without(e)
  BY DEF WalkEntry
<1>2. CollectionTyped /\ col.frames # << >> /\ col.pc = "walk" /\ col.left > 0 /\ UNCHANGED <<sys, witnessed>>
  BY DEF SnapshotInv, WalkEntry
<1> DEFINE c == Without(e)
<1>3. /\ DOMAIN c = DOMAIN col /\ c.listeners = col.listeners /\ c.packages = col.packages /\ c.probing = col.probing
      /\ c.pc = col.pc /\ c.roots = col.roots /\ c.models = col.models
      /\ c.left = col.left /\ c.skipped = col.skipped /\ k \in Nat
      /\ c.frames \in Seq(ToSet(c.frames)) /\ \A f \in ToSet(c.frames) : IsFrame(f)
      /\ \A x \in Covers(col) : x \in Covers(c) \/ x = e \/ (Kind[e] = "dir" /\ x \in Below(e, k + 1))
  BY <1>2, WithoutFacts
<1>4. /\ DOMAIN col = {"pc", "listeners", "probing", "packages", "unread", "frames", "roots", "left", "models", "skipped"}
      /\ col.roots \in Seq(ToSet(col.roots)) /\ col.models \in Seq(ToSet(col.models))
      /\ col.left \in Nat /\ Len(col.models) + col.left = MaxFiles
  BY <1>2 DEF CollectionTyped
<1>5. \A x \in Wanted : x \in sys.files /\ Kind[x] = "model"
  BY DEF SnapshotInv, IsHost, Wanted
<1> HIDE DEF c, k
<1>6. CASE /\ Kind[e] = "dir" /\ Descends(k)
           /\ \E f \in Opened(e, k + 1) : col' = Enter(c, f)
  <2>1. PICK f \in Opened(e, k + 1) : col' = Enter(c, f)
    BY <1>6
  <2>2. /\ DOMAIN col' = DOMAIN col /\ col'.listeners = col.listeners /\ col'.packages = col.packages /\ col'.probing = col.probing
        /\ col'.pc = "walk" /\ col'.frames = <<f>> \o c.frames /\ col'.roots = col.roots
        /\ col'.models = col.models /\ col'.left = col.left /\ col'.skipped = (col.skipped \/ ~f.readable)
    BY <1>2, <1>3, <1>4, <2>1 DEF Enter
  <2>3. k + 1 \in Nat
    BY <1>3
  <2>4. IsFrame(f)
    BY <2>3, OpenedFrame
  <2>5. col'.frames \in Seq(ToSet(col'.frames)) /\ ToSet(col'.frames) = {f} \cup ToSet(c.frames)
    BY <1>3, <2>2, ConsSet
  <2>6. ASSUME ~col'.skipped
        PROVE  ~col.skipped /\ Wanted \cap Covers(col) \subseteq Covers(col')
    <3>1. ~col.skipped /\ f.readable
      BY <2>2, <2>6
    <3>2. ASSUME NEW x \in Wanted, x \in Covers(col)
          PROVE  x \in Covers(col')
      <4>1. x # e
        BY <1>5, <1>6
      <4>2. CASE x \in Covers(c)
        BY <1>3, <2>2, <2>5, <4>2 DEF Covers
      <4>3. CASE x \in Below(e, k + 1)
        <5>1. x \in Due(f)
          BY <1>5, <2>3, <3>1, <4>3, OpenedLeads
        <5> QED BY <2>5, <5>1 DEF Covers
      <4> QED BY <1>3, <3>2, <4>1, <4>2, <4>3
    <3> QED BY <3>1, <3>2
  <2>7. WalkEnded'
    BY <2>2 DEF WalkEnded
  <2>8. \A g \in ToSet(col'.frames) : IsFrame(g)
    BY <1>3, <2>4, <2>5
  <2> QED BY <1>2, <1>4, <2>2, <2>5, <2>6, <2>7, <2>8, WalkStep
<1>7. CASE /\ Kind[e] = "model" /\ e \in sys.files /\ col' = Found(c, e)
  <2>1. /\ DOMAIN col' = DOMAIN col /\ col'.listeners = col.listeners /\ col'.packages = col.packages /\ col'.probing = col.probing
        /\ col'.pc = "walk" /\ col'.frames = c.frames /\ col'.roots = col.roots
        /\ col'.models = Append(col.models, e) /\ col'.left = col.left - 1 /\ col'.skipped = col.skipped
    BY <1>2, <1>3, <1>4, <1>7 DEF Found
  <2>2. /\ col'.models \in Seq(ToSet(col'.models)) /\ ToSet(col'.models) = ToSet(col.models) \cup {e}
        /\ Len(col'.models) = Len(col.models) + 1 /\ Len(col.models) \in Nat
    BY <1>4, <2>1, AppendSet
  <2>3. col'.left \in Nat /\ Len(col'.models) + col'.left = MaxFiles /\ (col'.left > 0 => col.left > 0)
    BY <1>2, <1>4, <2>1, <2>2
  <2>4. ASSUME NEW x \in Wanted, x \in Covers(col)
        PROVE  x \in Covers(col')
    <3>1. CASE x = e
      BY <2>2, <3>1 DEF Covers
    <3>2. CASE x \in Covers(c)
      BY <1>3, <2>1, <2>2, <3>2 DEF Covers
    <3> QED BY <1>3, <1>7, <2>4, <3>1, <3>2
  <2>5. WalkEnded'
    BY <2>1 DEF WalkEnded
  <2>6. /\ col'.frames \in Seq(ToSet(col'.frames)) /\ \A f \in ToSet(col'.frames) : IsFrame(f)
        /\ col'.roots \in Seq(ToSet(col'.roots))
    BY <1>3, <1>4, <2>1
  <2>7. ~col'.skipped /\ col'.left > 0 =>
          ~col.skipped /\ col.left > 0 /\ Wanted \cap Covers(col) \subseteq Covers(col')
    BY <2>1, <2>3, <2>4
  <2> QED BY <1>2, <2>1, <2>2, <2>3, <2>5, <2>6, <2>7, WalkStep
<1>8. CASE /\ col' = c
           /\ \/ Kind[e] = "dir" /\ ~Descends(k)
              \/ Kind[e] = "symlink" \/ Kind[e] = "other" \/ (Kind[e] = "model" /\ e \notin sys.files)
  <2>1. /\ DOMAIN col' = DOMAIN col /\ col'.listeners = col.listeners /\ col'.packages = col.packages /\ col'.probing = col.probing
        /\ col'.pc = "walk" /\ col'.frames = c.frames /\ col'.roots = col.roots
        /\ col'.models = col.models /\ col'.left = col.left /\ col'.skipped = col.skipped
    BY <1>2, <1>3, <1>8
  <2>2. ASSUME NEW x \in Wanted, x \in Covers(col)
        PROVE  x \in Covers(col')
    <3>1. x # e
      BY <1>5, <1>8
    <3>2. CASE Kind[e] = "dir" /\ x \in Below(e, k + 1)
      <4>1. ~Descends(k)
        BY <1>8, <3>2
      <4>2. k + 1 \in Nat /\ k + 1 <= MaxDepth
        BY <1>3, <3>2, BelowStep
      <4> QED BY <4>1, <4>2 DEF Descends
    <3> QED BY <1>3, <1>8, <2>2, <3>1, <3>2
  <2>3. WalkEnded'
    BY <2>1 DEF WalkEnded
  <2>4. /\ col'.frames \in Seq(ToSet(col'.frames)) /\ \A f \in ToSet(col'.frames) : IsFrame(f)
        /\ col'.roots \in Seq(ToSet(col'.roots)) /\ col'.models \in Seq(ToSet(col'.models))
        /\ col'.left \in Nat /\ Len(col'.models) + col'.left = MaxFiles
    BY <1>3, <1>4, <2>1
  <2>5. ~col'.skipped /\ col'.left > 0 =>
          ~col.skipped /\ col.left > 0 /\ Wanted \cap Covers(col) \subseteq Covers(col')
    BY <2>1, <2>2
  <2> QED BY <1>2, <2>1, <2>3, <2>4, <2>5, WalkStep
<1> QED BY <1>1, <1>6, <1>7, <1>8 DEF c

\* A directory is left when it leads to nothing more, or the bound is reached.
LEMMA WalkUpKeeps ==
  ASSUME SnapshotInv, WalkUp
  PROVE  SnapshotInv'
<1>1. /\ CollectionTyped /\ col.frames # << >> /\ col.pc = "walk" /\ UNCHANGED <<sys, witnessed>>
      /\ col' = [col EXCEPT !.frames = Tail(@)]
      /\ (Head(col.frames).entries = {} \/ col.left = 0)
  BY DEF SnapshotInv, WalkUp
<1>2. /\ DOMAIN col' = DOMAIN col /\ col'.listeners = col.listeners /\ col'.packages = col.packages /\ col'.probing = col.probing
      /\ col'.pc = "walk" /\ col'.frames = Tail(col.frames) /\ col'.roots = col.roots
      /\ col'.models = col.models /\ col'.left = col.left /\ col'.skipped = col.skipped
  BY <1>1 DEF CollectionTyped
<1>3. /\ col'.frames \in Seq(ToSet(col'.frames))
      /\ ToSet(col.frames) = {Head(col.frames)} \cup ToSet(col'.frames)
  BY <1>1, <1>2, HeadTail DEF CollectionTyped
<1>4. /\ \A f \in ToSet(col'.frames) : IsFrame(f)
      /\ col'.roots \in Seq(ToSet(col'.roots)) /\ col'.models \in Seq(ToSet(col'.models))
      /\ col'.left \in Nat /\ Len(col'.models) + col'.left = MaxFiles
  BY <1>1, <1>2, <1>3 DEF CollectionTyped
<1>5. ASSUME col'.left > 0 PROVE Covers(col) \subseteq Covers(col')
  <2>1. Head(col.frames).entries = {}
    BY <1>1, <1>2, <1>4, <1>5
  <2>2. Due(Head(col.frames)) = {}
    BY <2>1 DEF Due
  <2> QED BY <1>2, <1>3, <2>2 DEF Covers
<1>6. WalkEnded'
  BY <1>2 DEF WalkEnded
<1>7. ~col'.skipped /\ col'.left > 0 =>
        ~col.skipped /\ col.left > 0 /\ Wanted \cap Covers(col) \subseteq Covers(col')
  BY <1>2, <1>5
<1> QED BY <1>1, <1>2, <1>3, <1>4, <1>6, <1>7, WalkStep

\* The walk ends with no directory open and no root left, or at the bound.
LEMMA WalkEndsKeeps ==
  ASSUME SnapshotInv, WalkEnds
  PROVE  SnapshotInv'
<1>1. /\ CollectionTyped /\ col.frames = << >> /\ UNCHANGED <<sys, witnessed>> /\ col' = Goes("done")
      /\ (col.roots = << >> \/ col.left = 0)
  BY DEF SnapshotInv, WalkEnds
<1>2. /\ DOMAIN col' = DOMAIN col /\ col'.listeners = col.listeners /\ col'.packages = col.packages /\ col'.probing = col.probing
      /\ col'.pc = "done" /\ col'.frames = col.frames /\ col'.roots = col.roots
      /\ col'.models = col.models /\ col'.left = col.left /\ col'.skipped = col.skipped
  BY <1>1 DEF CollectionTyped, Goes
<1>3. /\ col'.frames \in Seq(ToSet(col'.frames)) /\ \A f \in ToSet(col'.frames) : IsFrame(f)
      /\ col'.roots \in Seq(ToSet(col'.roots)) /\ col'.models \in Seq(ToSet(col'.models))
      /\ col'.left \in Nat /\ Len(col'.models) + col'.left = MaxFiles
  BY <1>1, <1>2 DEF CollectionTyped
<1>4. Covers(col') = Covers(col)
  BY <1>2 DEF Covers
<1>5. WalkEnded'
  BY <1>1, <1>2 DEF WalkEnded
<1> QED BY <1>1, <1>2, <1>3, <1>4, <1>5, WalkStep

-----------------------------------------------------------------------------
\* The collection on a host that changes keeps SnapshotInv.
THEOREM SnapshotInvariance == InventorySpec => []SnapshotInv
<1>1. InventoryInit => SnapshotInv
  BY SnapshotBegins
<1>2. SnapshotInv /\ [InventoryNext]_inventoryVars => SnapshotInv'
  <2> SUFFICES ASSUME SnapshotInv, [InventoryNext]_inventoryVars PROVE SnapshotInv'
    OBVIOUS
  <2>1. CASE InventoryNext
    BY <2>1, ListListenersKeeps, NameProcessesKeeps, ClassifyKeeps, ProbeKeeps, ProbesDoneKeeps, ListPackagesKeeps, AttachLibrariesKeeps,
       LibrariesDoneKeeps, WalkRootKeeps, WalkEntryKeeps, WalkUpKeeps, WalkEndsKeeps, HostKeeps DEF InventoryNext
  <2>2. CASE UNCHANGED inventoryVars
    <3>1. sys' = sys /\ col' = col /\ witnessed' = witnessed
      BY <2>2 DEF inventoryVars
    <3>2. (ListenersHeld /\ RuntimesHeld /\ PackagesCurrent)' = (ListenersHeld /\ RuntimesHeld /\ PackagesCurrent)
      BY <3>1 DEF ListenersHeld, RuntimesHeld, PackagesCurrent, Holds, Answers, Moved, Keeps, Server
    <3> QED BY <3>1, <3>2 DEF SnapshotInv, IsHost, CollectionTyped, WitnessedNow, ListenerNamed,
         RuntimeWhole, LibrariesProvided, NothingMissed, Wanted, Covers, WalkEnded
  <2> QED BY <2>1, <2>2
<1> QED BY <1>1, <1>2, PTL DEF InventorySpec

\* SnapshotTrue (with_all_providers, walk): on a host that changes while it is looked
\* at, a listener is named after the process that served its port, a runtime's version
\* and models are that process's, a package's libraries are those of the version listed,
\* each unless the port or the package changed between the readings joined; and a walk
\* that was refused nothing and stayed below its bound has found every model file that
\* was there throughout, for any tree, roots and bounds.
THEOREM SnapshotAlwaysTrue == InventorySpec => []SnapshotTrue
<1>1. SnapshotInv => SnapshotTrue
  <2> SUFFICES ASSUME SnapshotInv PROVE SnapshotTrue
    OBVIOUS
  <2>1. ListenerNamed /\ RuntimeWhole /\ LibrariesProvided /\ CollectionTyped
    BY DEF SnapshotInv
  <2>2. WalkBounded
    <3>1. Len(col.models) \in Nat
      BY <2>1 DEF CollectionTyped
    <3> QED BY <2>1, <3>1 DEF CollectionTyped, WalkBounded
  <2>3. ASSUME col.pc = "done", col.left > 0, ~col.skipped, NEW d \in ToSet(Roots),
               NEW e \in (Below(d, 0) \cap sys.files) \ witnessed.gone
        PROVE  e \in ToSet(col.models)
    <3>1. col.frames = << >> /\ col.roots = << >>
      BY <2>1, <2>3 DEF SnapshotInv, WalkEnded, CollectionTyped
    <3>2. e \in Covers(col)
      BY <2>3 DEF SnapshotInv, NothingMissed, Wanted
    <3> QED BY <3>1, <3>2, EmptySet DEF Covers
  <2>4. AllFound
    BY <2>3 DEF AllFound
  <2> QED BY <2>1, <2>2, <2>4 DEF SnapshotTrue
<1> QED BY <1>1, SnapshotInvariance, PTL

-----------------------------------------------------------------------------
(***************************************************************************)
(* The readers.                                                            *)
(***************************************************************************)

\* One more element at the end of a list, for a number above all the others.
LEMMA ListsOneMore ==
  ASSUME NEW T, NEW out \in Seq(T), NEW i \in Nat, NEW S, S \subseteq 1..i, NEW f, ListsInOrder(out, S, f),
         f[i + 1] \in T
  PROVE  Append(out, f[i + 1]) \in Seq(T) /\ ListsInOrder(Append(out, f[i + 1]), S \cup {i + 1}, f)
<1> DEFINE more == Append(out, f[i + 1])
           R == S \cup {i + 1}
<1>1. IsFiniteSet(S) /\ Cardinality(S) \in Nat /\ i + 1 \notin S /\ i + 1 \in Nat
  <2>1. IsFiniteSet(1..i)
    BY FS_Interval
  <2>2. IsFiniteSet(S)
    BY <2>1, FS_Subset
  <2> QED BY <2>2, FS_CardinalityType
<1>2. Cardinality(R) = Cardinality(S) + 1
  <2>1. Cardinality(S \cup {i + 1}) = IF i + 1 \in S THEN Cardinality(S) ELSE Cardinality(S) + 1
    BY <1>1, FS_AddElement
  <2> QED BY <1>1, <2>1
<1>3. /\ Len(out) = Cardinality(S) /\ more \in Seq(T) /\ Len(more) = Len(out) + 1 /\ more[Len(out) + 1] = f[i + 1]
      /\ \A k \in 1..Len(out) : more[k] = out[k]
  BY DEF ListsInOrder
<1> HIDE DEF more
<1>4. ASSUME NEW e \in R PROVE more[Cardinality({x \in R : x <= e})] = f[e]
  <2>1. CASE e = i + 1
    <3>1. \A x \in R : x <= e
      BY <2>1
    <3> HIDE DEF R
    <3>2. Cardinality({x \in R : x <= e}) = Len(out) + 1
      BY <1>2, <1>3, <3>1
    <3> QED BY <1>3, <2>1, <3>2
  <2>2. CASE e \in S
    <3> DEFINE below == {x \in S : x <= e}
    <3>1. {x \in R : x <= e} = below
      BY <2>2
    <3>2. below \subseteq S /\ e \in below
      BY <2>2
    <3>3. IsFiniteSet(below) /\ Cardinality(below) <= Cardinality(S) /\ Cardinality(below) \in Nat
      BY <1>1, <3>2, FS_Subset, FS_CardinalityType
    <3>4. Cardinality(below) # 0
      BY <3>2, <3>3, FS_EmptySet
    <3>5. Cardinality(below) \in 1..Len(out)
      BY <1>3, <3>3, <3>4
    <3>6. out[Cardinality(below)] = f[e]
      BY <2>2 DEF ListsInOrder
    <3> HIDE DEF below
    <3> QED BY <1>3, <3>1, <3>5, <3>6
  <2> QED BY <2>1, <2>2
<1>5. ListsInOrder(more, R, f)
  <2> HIDE DEF R
  <2> QED BY <1>2, <1>3, <1>4 DEF ListsInOrder
<1> QED BY <1>3, <1>5 DEF more

\* Nothing is listed for no numbers.
LEMMA ListsNothing ==
  ASSUME NEW f PROVE ListsInOrder(<< >>, {}, f)
<1>1. Cardinality({}) = 0 /\ Len(<< >>) = 0
  BY FS_EmptySet
<1> QED BY <1>1 DEF ListsInOrder

\* The last value given on the lines K between line e and the separator before it.
LastIn(lines, sep, e, K) == LastValue(lines, Block(lines, sep, e) \cap K)

\* The last value of a field between a separator and a line, line by line: a
\* separator forgets it, a line that gives it replaces it, another leaves it.
LEMMA LastValueSteps ==
  ASSUME NEW lines, Len(lines) \in Nat, NEW i \in 0..Len(lines), NEW sep, NEW K, K \subseteq 1..Len(lines)
  PROVE  /\ i = 0 => LastIn(lines, sep, i + 1, K) = Absent
         /\ i > 0 /\ lines[i].field = sep => LastIn(lines, sep, i + 1, K) = Absent
         /\ i > 0 /\ lines[i].field # sep /\ i \in K =>
              LastIn(lines, sep, i + 1, K) = lines[i].value
         /\ i > 0 /\ lines[i].field # sep /\ i \notin K =>
              LastIn(lines, sep, i + 1, K) = LastIn(lines, sep, i, K)
<1> DEFINE B(e) == Block(lines, sep, e)
<1>0. i \in Int /\ (i + 1) - 1 = i
  OBVIOUS
<1>1. i = 0 => B(i + 1) = {}
  BY <1>0 DEF Block
<1>2. ASSUME i > 0, lines[i].field = sep PROVE B(i + 1) = {}
  <2> SUFFICES ASSUME NEW k \in B(i + 1) PROVE FALSE
    OBVIOUS
  <2>1. k \in 1..i /\ \A j \in k..i : lines[j].field # sep
    BY <1>0 DEF Block
  <2> QED BY <1>0, <1>2, <2>1
<1>3. ASSUME i > 0, lines[i].field # sep PROVE B(i + 1) = B(i) \cup {i}
  <2>1. ASSUME NEW k \in B(i + 1) PROVE k \in B(i) \cup {i}
    BY <1>0, <2>1 DEF Block
  <2>2. ASSUME NEW k \in B(i) PROVE k \in B(i + 1)
    <3>1. k \in 1..(i - 1) /\ \A j \in k..(i - 1) : lines[j].field # sep
      BY <2>2 DEF Block
    <3>2. \A j \in k..i : lines[j].field # sep
      BY <1>0, <1>3, <3>1
    <3> QED BY <1>0, <3>1, <3>2 DEF Block
  <2>3. i \in B(i + 1)
    BY <1>0, <1>3 DEF Block
  <2> QED BY <2>1, <2>2, <2>3
<1>4. LastValue(lines, {}) = Absent
  BY DEF LastValue
<1>5. ASSUME i > 0, i \in K, lines[i].field # sep
      PROVE  LastValue(lines, B(i + 1) \cap K) = lines[i].value
  <2> DEFINE M == B(i + 1) \cap K
  <2>1. i \in M /\ \A j \in M : j <= i /\ j \in Int
    BY <1>0, <1>3, <1>5 DEF Block
  <2> HIDE DEF M
  <2>2. \A k \in M : (\A j \in M : j <= k) => k = i
    BY <1>0, <2>1
  <2>3. (CHOOSE k \in M : \A j \in M : j <= k) = i
    BY <2>1, <2>2
  <2>4. LastValue(lines, M) = lines[i].value
    BY <2>1, <2>3 DEF LastValue
  <2> QED BY <2>4 DEF M
<1>6. ASSUME i > 0, i \notin K, lines[i].field # sep
      PROVE  B(i + 1) \cap K = B(i) \cap K
  BY <1>3, <1>6
<1>7. i = 0 => B(i + 1) \cap K = {}
  BY <1>1
<1>8. i > 0 /\ lines[i].field = sep => B(i + 1) \cap K = {}
  BY <1>2
<1> HIDE DEF B
<1>9. /\ i = 0 => LastValue(lines, B(i + 1) \cap K) = Absent
      /\ i > 0 /\ lines[i].field = sep => LastValue(lines, B(i + 1) \cap K) = Absent
      /\ i > 0 /\ lines[i].field # sep /\ i \in K => LastValue(lines, B(i + 1) \cap K) = lines[i].value
      /\ i > 0 /\ lines[i].field # sep /\ i \notin K =>
           LastValue(lines, B(i + 1) \cap K) = LastValue(lines, B(i) \cap K)
  BY <1>4, <1>5, <1>6, <1>7, <1>8
<1> QED BY <1>9 DEF B, LastIn

-----------------------------------------------------------------------------
\* The packages of the paragraphs that have ended by line i, and what is kept of the
\* one that has not.
IsParagraph(st) == DOMAIN st = {"out", "name", "version", "installed"}
DpkgValue(lines, e, field) == LastValue(lines, Block(lines, "blank", e) \cap Gives(lines, field))
DpkgOk(lines, e) == DpkgValue(lines, e, "Status") = "installed" /\ DpkgValue(lines, e, "Package") # Absent
DpkgOf(lines) ==
  [e \in 1..(Len(lines) + 1) |->
     Package(DpkgValue(lines, e, "Package"), OrEmpty(DpkgValue(lines, e, "Version")), "dpkg")]
DpkgEnded(lines, i) == {e \in 1..i : lines[e].field = "blank" /\ DpkgOk(lines, e)}
DpkgAt(lines, i, st) ==
  /\ IsParagraph(st) /\ st.out \in Seq(Range(DpkgOf(lines)))
  /\ ListsInOrder(st.out, DpkgEnded(lines, i), DpkgOf(lines))
  /\ st.name = DpkgValue(lines, i + 1, "Package") /\ st.version = DpkgValue(lines, i + 1, "Version")
  /\ st.installed = (DpkgValue(lines, i + 1, "Status") = "installed")

\* What a push makes of the state.
LEMMA PushDpkgFacts ==
  ASSUME NEW st
  PROVE  /\ IsParagraph(PushDpkg(st)) /\ PushDpkg(st).name = Absent /\ PushDpkg(st).version = Absent
         /\ PushDpkg(st).installed = FALSE
         /\ PushDpkg(st).out = IF st.installed /\ st.name # Absent
                               THEN Append(st.out, Package(st.name, OrEmpty(st.version), "dpkg")) ELSE st.out
<1> DEFINE o == IF st.installed /\ st.name # Absent
                THEN Append(st.out, Package(st.name, OrEmpty(st.version), "dpkg")) ELSE st.out
<1>1. PushDpkg(st) = [NoParagraph EXCEPT !.out = o]
  BY DEF PushDpkg
<1> HIDE DEF o
<1>2. PushDpkg(st) = [out |-> o, name |-> Absent, version |-> Absent, installed |-> FALSE]
  BY <1>1 DEF NoParagraph
<1>3. /\ IsParagraph(PushDpkg(st)) /\ PushDpkg(st).name = Absent /\ PushDpkg(st).version = Absent
      /\ PushDpkg(st).installed = FALSE /\ PushDpkg(st).out = o
  BY <1>2 DEF IsParagraph
<1> QED BY <1>3 DEF o

\* The paragraph that ends at line i + 1 is listed after those before it, if it is installed.
LEMMA DpkgPushed ==
  ASSUME NEW lines, Len(lines) \in Nat, NEW i \in 0..Len(lines), NEW st, DpkgAt(lines, i, st)
  PROVE  LET S == DpkgEnded(lines, i) \cup {e \in {i + 1} : DpkgOk(lines, e)}
         IN  PushDpkg(st).out \in Seq(Range(DpkgOf(lines))) /\ ListsInOrder(PushDpkg(st).out, S, DpkgOf(lines))
<1> DEFINE f == DpkgOf(lines)
           T == Range(f)
           ended == DpkgEnded(lines, i)
<1>1. /\ st.out \in Seq(T) /\ ListsInOrder(st.out, ended, f)
      /\ st.name = DpkgValue(lines, i + 1, "Package") /\ st.version = DpkgValue(lines, i + 1, "Version")
      /\ st.installed = (DpkgValue(lines, i + 1, "Status") = "installed")
  BY DEF DpkgAt
<1>2. ended \subseteq 1..i /\ i \in Nat /\ i + 1 \in 1..(Len(lines) + 1)
  BY DEF DpkgEnded
<1>3. f[i + 1] = Package(st.name, OrEmpty(st.version), "dpkg")
  BY <1>1, <1>2 DEF DpkgOf
<1>4. f[i + 1] \in T
  BY <1>2 DEF DpkgOf, Range
<1>5. st.installed /\ st.name # Absent <=> DpkgOk(lines, i + 1)
  BY <1>1 DEF DpkgOk
<1> HIDE DEF f, T, ended
<1>6. CASE DpkgOk(lines, i + 1)
  <2>1. PushDpkg(st).out = Append(st.out, f[i + 1])
    BY <1>3, <1>5, <1>6, PushDpkgFacts
  <2>2. Append(st.out, f[i + 1]) \in Seq(T) /\ ListsInOrder(Append(st.out, f[i + 1]), ended \cup {i + 1}, f)
    BY <1>1, <1>2, <1>4, ListsOneMore
  <2>3. {e \in {i + 1} : DpkgOk(lines, e)} = {i + 1}
    BY <1>6
  <2> QED BY <2>1, <2>2, <2>3 DEF f, T, ended
<1>7. CASE ~DpkgOk(lines, i + 1)
  <2>1. PushDpkg(st).out = st.out
    BY <1>5, <1>7, PushDpkgFacts
  <2>2. ended \cup {e \in {i + 1} : DpkgOk(lines, e)} = ended
    BY <1>7
  <2> QED BY <1>1, <2>1, <2>2 DEF f, T, ended
<1> QED BY <1>6, <1>7

\* The kept values, line by line.
LEMMA DpkgValueSteps ==
  ASSUME NEW lines, Len(lines) \in Nat, NEW i \in 0..Len(lines), NEW field, field # "blank"
  PROVE  /\ i = 0 => DpkgValue(lines, i + 1, field) = Absent
         /\ i > 0 /\ lines[i].field = "blank" => DpkgValue(lines, i + 1, field) = Absent
         /\ i > 0 /\ lines[i].field = field => DpkgValue(lines, i + 1, field) = lines[i].value
         /\ i > 0 /\ lines[i].field \notin {field, "blank"} =>
              DpkgValue(lines, i + 1, field) = DpkgValue(lines, i, field)
<1> DEFINE K == Gives(lines, field)
<1>1. K \subseteq 1..Len(lines) /\ (i > 0 => (i \in K <=> lines[i].field = field))
  BY DEF Gives
<1> HIDE DEF K
<1>2. i = 0 => LastIn(lines, "blank", i + 1, K) = Absent
  BY <1>1, LastValueSteps
<1>3. i > 0 /\ lines[i].field = "blank" => LastIn(lines, "blank", i + 1, K) = Absent
  BY <1>1, LastValueSteps
<1>4. i > 0 /\ lines[i].field # "blank" /\ i \in K =>
        LastIn(lines, "blank", i + 1, K) = lines[i].value
  BY <1>1, LastValueSteps
<1>5. i > 0 /\ lines[i].field # "blank" /\ i \notin K =>
        LastIn(lines, "blank", i + 1, K) = LastIn(lines, "blank", i, K)
  BY <1>1, LastValueSteps
<1> QED BY <1>1, <1>2, <1>3, <1>4, <1>5 DEF DpkgValue, LastIn, K

\* A line keeps the parser's state what it stands for.
LEMMA DpkgLineKeeps ==
  ASSUME NEW lines, Len(lines) \in Nat, NEW i \in 0..Len(lines), i < Len(lines), NEW st, DpkgAt(lines, i, st)
  PROVE  DpkgAt(lines, i + 1, DpkgLine(st, lines[i + 1]))
<1> DEFINE l == lines[i + 1]
           j == i + 1
           next == DpkgLine(st, l)
           ended == DpkgEnded(lines, i)
<1>1. j \in 0..Len(lines) /\ j > 0 /\ j \in 1..j /\ i \in Nat
  OBVIOUS
<1>2. Absent # "installed"
  BY ReaderAssumption
<1>3. /\ IsParagraph(st) /\ st.out \in Seq(Range(DpkgOf(lines))) /\ ListsInOrder(st.out, ended, DpkgOf(lines))
      /\ st.name = DpkgValue(lines, j, "Package") /\ st.version = DpkgValue(lines, j, "Version")
      /\ st.installed = (DpkgValue(lines, j, "Status") = "installed")
  BY DEF DpkgAt
<1>4. CASE l.field = "blank"
  <2>1. next = PushDpkg(st)
    BY <1>4 DEF DpkgLine
  <2>2. DpkgEnded(lines, j) = ended \cup {e \in {j} : DpkgOk(lines, e)}
    BY <1>1, <1>4 DEF DpkgEnded
  <2>3. /\ DpkgValue(lines, j + 1, "Package") = Absent /\ DpkgValue(lines, j + 1, "Version") = Absent
        /\ DpkgValue(lines, j + 1, "Status") = Absent
    BY <1>1, <1>4, DpkgValueSteps
  <2>4. /\ next.out \in Seq(Range(DpkgOf(lines)))
        /\ ListsInOrder(next.out, DpkgEnded(lines, j), DpkgOf(lines))
    BY <2>1, <2>2, DpkgPushed
  <2>5. IsParagraph(next) /\ next.name = Absent /\ next.version = Absent /\ next.installed = FALSE
    BY <2>1, PushDpkgFacts
  <2> HIDE DEF next, j
  <2> QED BY <1>2, <2>3, <2>4, <2>5 DEF DpkgAt, next, j
<1>5. CASE l.field # "blank"
  <2>1. DpkgEnded(lines, j) = ended
    BY <1>1, <1>5 DEF DpkgEnded
  <2>2. \A field \in {"Package", "Version", "Status"} :
          DpkgValue(lines, j + 1, field) = IF l.field = field THEN l.value ELSE DpkgValue(lines, j, field)
    <3>1. ASSUME NEW field, field # "blank"
          PROVE  DpkgValue(lines, j + 1, field) = IF l.field = field THEN l.value ELSE DpkgValue(lines, j, field)
      BY <1>1, <1>5, <3>1, DpkgValueSteps
    <3> QED BY <3>1
  <2>3. /\ IsParagraph(next) /\ next.out = st.out
        /\ next.name = IF l.field = "Package" THEN l.value ELSE st.name
        /\ next.version = IF l.field = "Version" THEN l.value ELSE st.version
        /\ next.installed = IF l.field = "Status" THEN (l.value = "installed") ELSE st.installed
    <3>1. CASE l.field = "Package"
      <4>1. next = [st EXCEPT !.name = l.value]
        BY <3>1 DEF DpkgLine
      <4> QED BY <1>3, <3>1, <4>1 DEF IsParagraph
    <3>2. CASE l.field = "Version"
      <4>1. next = [st EXCEPT !.version = l.value]
        BY <3>2 DEF DpkgLine
      <4> QED BY <1>3, <3>2, <4>1 DEF IsParagraph
    <3>3. CASE l.field = "Status"
      <4>1. next = [st EXCEPT !.installed = (l.value = "installed")]
        BY <3>3 DEF DpkgLine
      <4> QED BY <1>3, <3>3, <4>1 DEF IsParagraph
    <3>4. CASE l.field \notin {"Package", "Version", "Status"}
      <4>1. next = st
        BY <1>5, <3>4 DEF DpkgLine
      <4> QED BY <1>3, <3>4, <4>1
    <3> QED BY <3>1, <3>2, <3>3, <3>4
  <2>4. /\ next.name = DpkgValue(lines, j + 1, "Package") /\ next.version = DpkgValue(lines, j + 1, "Version")
    BY <1>3, <2>2, <2>3
  <2>5. next.installed = (DpkgValue(lines, j + 1, "Status") = "installed")
    BY <1>3, <2>2, <2>3
  <2> HIDE DEF next, j
  <2> QED BY <1>3, <2>1, <2>3, <2>4, <2>5 DEF DpkgAt, next, j
<1> QED BY <1>4, <1>5

\* The states by which ParseDpkgStatus is defined.
DpkgRun(F, lines, n) ==
  F = [i \in 0..n |-> IF i = 0 THEN NoParagraph ELSE DpkgLine(F[i - 1], lines[i])]

\* There are such states, one made from the one before.
LEMMA DpkgRunExists ==
  ASSUME NEW lines, Len(lines) \in Nat
  PROVE  \E F : DpkgRun(F, lines, Len(lines))
<1> DEFINE N == Len(lines)
           T == {n \in 0..N : \E F : DpkgRun(F, lines, n)}
<1>0. N \in Nat
  OBVIOUS
<1>1. 0 \in T
  <2>1. DpkgRun([i \in 0..0 |-> NoParagraph], lines, 0)
    BY DEF DpkgRun
  <2> QED BY <1>0, <2>1
<1> HIDE DEF N
<1>2. ASSUME NEW n \in 0..N, n \in T, n < N PROVE n + 1 \in T
  <2>1. PICK F : DpkgRun(F, lines, n)
    BY <1>2
  <2> DEFINE G == [i \in 0..(n + 1) |-> IF i = n + 1 THEN DpkgLine(F[n], lines[n + 1]) ELSE F[i]]
  <2>2. \A i \in 0..n : G[i] = F[i]
    BY <1>0
  <2>3. \A i \in 0..n : F[i] = IF i = 0 THEN NoParagraph ELSE DpkgLine(F[i - 1], lines[i])
    BY <2>1 DEF DpkgRun
  <2>4. G[n + 1] = DpkgLine(F[n], lines[n + 1]) /\ n + 1 # 0
    BY <1>0
  <2>5. G = [i \in 0..(n + 1) |-> G[i]]
    OBVIOUS
  <2> HIDE DEF G
  <2>6. ASSUME NEW i \in 0..(n + 1)
        PROVE  G[i] = IF i = 0 THEN NoParagraph ELSE DpkgLine(G[i - 1], lines[i])
    <3>1. CASE i = n + 1
      <4>1. i - 1 = n /\ n \in 0..n /\ i # 0
        BY <1>0, <3>1
      <4> QED BY <2>2, <2>4, <3>1, <4>1
    <3>2. CASE i \in 0..n
      <4>1. i # 0 => i - 1 \in 0..n
        BY <1>0, <3>2
      <4> QED BY <2>2, <2>3, <3>2, <4>1
    <3> QED BY <1>0, <3>1, <3>2
  <2>7. DpkgRun(G, lines, n + 1)
    BY <2>5, <2>6 DEF DpkgRun
  <2>8. n + 1 \in 0..N
    BY <1>0, <1>2
  <2> QED BY <2>7, <2>8
<1>3. \A i \in 0..N : i \in T /\ i < N => i + 1 \in T
  BY <1>2
<1>4. N \in T
  <2> HIDE DEF T
  <2>1. \A i \in 0..N : i \in T
    BY <1>0, <1>1, <1>3, UpTo
  <2> QED BY <1>0, <2>1
<1> QED BY <1>4 DEF N

\* The parser's last state.
LEMMA DpkgParsed ==
  ASSUME NEW lines, Len(lines) \in Nat
  PROVE  \E st : DpkgAt(lines, Len(lines), st) /\ ParseDpkgStatus(lines) = PushDpkg(st).out
<1> DEFINE N == Len(lines)
           S == CHOOSE F : F = [i \in 0..N |-> IF i = 0 THEN NoParagraph ELSE DpkgLine(F[i - 1], lines[i])]
<1>0. N \in Nat
  OBVIOUS
<1>1. ParseDpkgStatus(lines) = PushDpkg(S[N]).out
  BY DEF ParseDpkgStatus
<1>2. \E F : F = [i \in 0..N |-> IF i = 0 THEN NoParagraph ELSE DpkgLine(F[i - 1], lines[i])]
  BY DpkgRunExists DEF DpkgRun
<1>3. S = [i \in 0..N |-> IF i = 0 THEN NoParagraph ELSE DpkgLine(S[i - 1], lines[i])]
  BY <1>2
<1> HIDE DEF S, N
<1>4. \A i \in 0..N : S[i] = IF i = 0 THEN NoParagraph ELSE DpkgLine(S[i - 1], lines[i])
  BY <1>3
<1> DEFINE T == {i \in 0..N : DpkgAt(lines, i, S[i])}
<1>5. 0 \in T
  <2>0. 0 \in 0..N
    BY <1>0
  <2>1. S[0] = [out |-> << >>, name |-> Absent, version |-> Absent, installed |-> FALSE]
    <3>1. S[0] = NoParagraph
      BY <1>4, <2>0
    <3> QED BY <3>1 DEF NoParagraph
  <2>2. /\ IsParagraph(S[0]) /\ S[0].out = << >> /\ S[0].name = Absent /\ S[0].version = Absent
        /\ S[0].installed = FALSE
    BY <2>1 DEF IsParagraph
  <2>3. DpkgEnded(lines, 0) = {}
    BY DEF DpkgEnded
  <2>4. /\ DpkgValue(lines, 0 + 1, "Package") = Absent /\ DpkgValue(lines, 0 + 1, "Version") = Absent
        /\ DpkgValue(lines, 0 + 1, "Status") = Absent
    BY <1>0, <2>0, DpkgValueSteps DEF N
  <2>5. ListsInOrder(S[0].out, DpkgEnded(lines, 0), DpkgOf(lines))
    BY <2>2, <2>3, ListsNothing
  <2>6. Absent # "installed"
    BY ReaderAssumption
  <2>7. DpkgAt(lines, 0, S[0])
    <3>1. << >> \in Seq(Range(DpkgOf(lines)))
      OBVIOUS
    <3>2. S[0].installed = (DpkgValue(lines, 0 + 1, "Status") = "installed")
      BY <2>2, <2>4, <2>6
    <3> QED BY <2>2, <2>4, <2>5, <3>1, <3>2 DEF DpkgAt
  <2> QED BY <1>0, <2>7
<1>6. ASSUME NEW i \in 0..N, i \in T, i < N PROVE i + 1 \in T
  <2>1. i + 1 \in 0..N /\ i + 1 # 0 /\ (i + 1) - 1 = i
    BY <1>0, <1>6
  <2>2. S[i + 1] = DpkgLine(S[i], lines[i + 1])
    BY <1>4, <2>1
  <2>3. DpkgAt(lines, i, S[i])
    BY <1>6
  <2>4. DpkgAt(lines, i + 1, S[i + 1])
    BY <1>0, <1>6, <2>2, <2>3, DpkgLineKeeps DEF N
  <2> QED BY <2>1, <2>4
<1>7. N \in T
  <2>1. \A i \in 0..N : i \in T /\ i < N => i + 1 \in T
    BY <1>6
  <2> HIDE DEF T
  <2>2. \A i \in 0..N : i \in T
    BY <1>0, <1>5, <2>1, UpTo
  <2> QED BY <1>0, <2>2
<1> QED BY <1>1, <1>7 DEF N

\* Every installed paragraph, and nothing else, is listed, from its own lines alone.
LEMMA DpkgExact ==
  ASSUME NEW lines, Len(lines) \in Nat
  PROVE  LET ends == Ends(lines, "blank")
         IN  ListsInOrder(ParseDpkgStatus(lines), {e \in ends : DpkgOk(lines, e)},
               [e \in ends |-> Package(DpkgValue(lines, e, "Package"),
                                       OrEmpty(DpkgValue(lines, e, "Version")), "dpkg")])
<1> DEFINE N == Len(lines)
           ends == Ends(lines, "blank")
           g == [e \in ends |-> Package(DpkgValue(lines, e, "Package"),
                                        OrEmpty(DpkgValue(lines, e, "Version")), "dpkg")]
<1>1. PICK st : DpkgAt(lines, N, st) /\ ParseDpkgStatus(lines) = PushDpkg(st).out
  BY DpkgParsed
<1>2. N \in 0..N /\ N \in Nat
  OBVIOUS
<1> DEFINE out == ParseDpkgStatus(lines)
<1>3. ListsInOrder(out, DpkgEnded(lines, N) \cup {e \in {N + 1} : DpkgOk(lines, e)}, DpkgOf(lines))
  BY <1>1, <1>2, DpkgPushed
<1>4. DpkgEnded(lines, N) \cup {e \in {N + 1} : DpkgOk(lines, e)} = {e \in ends : DpkgOk(lines, e)}
  BY <1>2 DEF DpkgEnded, Ends
<1>5. \A e \in ends : g[e] = DpkgOf(lines)[e]
  BY <1>2 DEF DpkgOf, Ends
<1> DEFINE S == {e \in ends : DpkgOk(lines, e)}
<1>6. S \subseteq ends /\ ListsInOrder(out, S, DpkgOf(lines))
  BY <1>3, <1>4
<1> HIDE DEF S, g, out, ends
<1>7. ListsInOrder(out, S, g)
  BY <1>5, <1>6 DEF ListsInOrder
<1> QED BY <1>7 DEF S, g, out, ends

-----------------------------------------------------------------------------
\* The packages of the keys that have ended by line i, and what is kept of the one
\* that has not.
Data(lines) == {k \in 1..Len(lines) : lines[k].value # ""}
KeyValue(lines, e, field) == LastValue(lines, Block(lines, "HKEY", e) \cap Gives(lines, field) \cap Data(lines))
KeyOk(lines, e) == KeyValue(lines, e, "DisplayName") # Absent
KeyOf(lines) ==
  [e \in 1..(Len(lines) + 1) |->
     Package(KeyValue(lines, e, "DisplayName"), OrEmpty(KeyValue(lines, e, "DisplayVersion")), "registry")]
KeyEnded(lines, i) == {e \in 1..i : lines[e].field = "HKEY" /\ KeyOk(lines, e)}
KeyAt(lines, i, st) ==
  /\ IsParagraph(st) /\ st.out \in Seq(Range(KeyOf(lines)))
  /\ ListsInOrder(st.out, KeyEnded(lines, i), KeyOf(lines))
  /\ st.name = KeyValue(lines, i + 1, "DisplayName") /\ st.version = KeyValue(lines, i + 1, "DisplayVersion")

\* What a push makes of the state.
LEMMA PushRegFacts ==
  ASSUME NEW st
  PROVE  /\ IsParagraph(PushReg(st)) /\ PushReg(st).name = Absent /\ PushReg(st).version = Absent
         /\ PushReg(st).out = IF st.name # Absent
                              THEN Append(st.out, Package(st.name, OrEmpty(st.version), "registry")) ELSE st.out
<1> DEFINE o == IF st.name # Absent
                THEN Append(st.out, Package(st.name, OrEmpty(st.version), "registry")) ELSE st.out
<1>1. PushReg(st) = [NoParagraph EXCEPT !.out = o]
  BY DEF PushReg
<1> HIDE DEF o
<1>2. PushReg(st) = [out |-> o, name |-> Absent, version |-> Absent, installed |-> FALSE]
  BY <1>1 DEF NoParagraph
<1>3. /\ IsParagraph(PushReg(st)) /\ PushReg(st).name = Absent /\ PushReg(st).version = Absent /\ PushReg(st).out = o
  BY <1>2 DEF IsParagraph
<1> QED BY <1>3 DEF o

\* The key that ends at line i + 1 is listed after those before it, if it has a name.
LEMMA KeyPushed ==
  ASSUME NEW lines, Len(lines) \in Nat, NEW i \in 0..Len(lines), NEW st, KeyAt(lines, i, st)
  PROVE  LET S == KeyEnded(lines, i) \cup {e \in {i + 1} : KeyOk(lines, e)}
         IN  PushReg(st).out \in Seq(Range(KeyOf(lines))) /\ ListsInOrder(PushReg(st).out, S, KeyOf(lines))
<1> DEFINE f == KeyOf(lines)
           T == Range(f)
           ended == KeyEnded(lines, i)
<1>1. /\ st.out \in Seq(T) /\ ListsInOrder(st.out, ended, f)
      /\ st.name = KeyValue(lines, i + 1, "DisplayName") /\ st.version = KeyValue(lines, i + 1, "DisplayVersion")
  BY DEF KeyAt
<1>2. ended \subseteq 1..i /\ i \in Nat /\ i + 1 \in 1..(Len(lines) + 1)
  BY DEF KeyEnded
<1>3. f[i + 1] = Package(st.name, OrEmpty(st.version), "registry")
  BY <1>1, <1>2 DEF KeyOf
<1>4. f[i + 1] \in T
  BY <1>2 DEF KeyOf, Range
<1>5. st.name # Absent <=> KeyOk(lines, i + 1)
  BY <1>1 DEF KeyOk
<1> HIDE DEF f, T, ended
<1>6. CASE KeyOk(lines, i + 1)
  <2>1. PushReg(st).out = Append(st.out, f[i + 1])
    BY <1>3, <1>5, <1>6, PushRegFacts
  <2>2. Append(st.out, f[i + 1]) \in Seq(T) /\ ListsInOrder(Append(st.out, f[i + 1]), ended \cup {i + 1}, f)
    BY <1>1, <1>2, <1>4, ListsOneMore
  <2>3. {e \in {i + 1} : KeyOk(lines, e)} = {i + 1}
    BY <1>6
  <2> QED BY <2>1, <2>2, <2>3 DEF f, T, ended
<1>7. CASE ~KeyOk(lines, i + 1)
  <2>1. PushReg(st).out = st.out
    BY <1>5, <1>7, PushRegFacts
  <2>2. ended \cup {e \in {i + 1} : KeyOk(lines, e)} = ended
    BY <1>7
  <2> QED BY <1>1, <2>1, <2>2 DEF f, T, ended
<1> QED BY <1>6, <1>7

\* The kept values, line by line.
LEMMA KeyValueSteps ==
  ASSUME NEW lines, Len(lines) \in Nat, NEW i \in 0..Len(lines), NEW field, field # "HKEY"
  PROVE  /\ i = 0 => KeyValue(lines, i + 1, field) = Absent
         /\ i > 0 /\ lines[i].field = "HKEY" => KeyValue(lines, i + 1, field) = Absent
         /\ i > 0 /\ lines[i].field = field /\ lines[i].value # "" =>
              KeyValue(lines, i + 1, field) = lines[i].value
         /\ i > 0 /\ lines[i].field # "HKEY" /\ (lines[i].field # field \/ lines[i].value = "") =>
              KeyValue(lines, i + 1, field) = KeyValue(lines, i, field)
<1> DEFINE K == Gives(lines, field) \cap Data(lines)
<1>0. \A e : KeyValue(lines, e, field) = LastIn(lines, "HKEY", e, K)
  <2> SUFFICES ASSUME NEW e PROVE KeyValue(lines, e, field) = LastIn(lines, "HKEY", e, K)
    OBVIOUS
  <2>1. (Block(lines, "HKEY", e) \cap Gives(lines, field)) \cap Data(lines) = Block(lines, "HKEY", e) \cap K
    OBVIOUS
  <2> QED BY <2>1 DEF KeyValue, LastIn
<1>1. K \subseteq 1..Len(lines)
  BY DEF Gives
<1>2. i > 0 => (i \in K <=> lines[i].field = field /\ lines[i].value # "")
  <2>1. i > 0 => i \in 1..Len(lines)
    OBVIOUS
  <2> QED BY <2>1 DEF Gives, Data
<1> HIDE DEF K
<1>3. i = 0 => LastIn(lines, "HKEY", i + 1, K) = Absent
  BY <1>1, LastValueSteps
<1>4. i > 0 /\ lines[i].field = "HKEY" => LastIn(lines, "HKEY", i + 1, K) = Absent
  BY <1>1, LastValueSteps
<1>5. i > 0 /\ lines[i].field # "HKEY" /\ i \in K =>
        LastIn(lines, "HKEY", i + 1, K) = lines[i].value
  BY <1>1, LastValueSteps
<1>6. i > 0 /\ lines[i].field # "HKEY" /\ i \notin K =>
        LastIn(lines, "HKEY", i + 1, K) = LastIn(lines, "HKEY", i, K)
  BY <1>1, LastValueSteps
<1>7. /\ KeyValue(lines, i + 1, field) = LastIn(lines, "HKEY", i + 1, K)
      /\ KeyValue(lines, i, field) = LastIn(lines, "HKEY", i, K)
  BY <1>0
<1> QED BY <1>2, <1>3, <1>4, <1>5, <1>6, <1>7

\* A line keeps the parser's state what it stands for.
LEMMA RegLineKeeps ==
  ASSUME NEW lines, Len(lines) \in Nat, NEW i \in 0..Len(lines), i < Len(lines), NEW st, KeyAt(lines, i, st),
         lines[i + 1].value # Absent
  PROVE  KeyAt(lines, i + 1, RegLine(st, lines[i + 1]))
<1> DEFINE l == lines[i + 1]
           j == i + 1
           next == RegLine(st, l)
           ended == KeyEnded(lines, i)
<1>1. j \in 0..Len(lines) /\ j > 0 /\ j \in 1..j /\ i \in Nat
  OBVIOUS
<1>2. /\ IsParagraph(st) /\ st.out \in Seq(Range(KeyOf(lines))) /\ ListsInOrder(st.out, ended, KeyOf(lines))
      /\ st.name = KeyValue(lines, j, "DisplayName") /\ st.version = KeyValue(lines, j, "DisplayVersion")
  BY DEF KeyAt
<1>3. CASE l.field = "HKEY"
  <2>1. next = PushReg(st)
    BY <1>3 DEF RegLine
  <2>2. KeyEnded(lines, j) = ended \cup {e \in {j} : KeyOk(lines, e)}
    BY <1>1, <1>3 DEF KeyEnded
  <2>3. KeyValue(lines, j + 1, "DisplayName") = Absent /\ KeyValue(lines, j + 1, "DisplayVersion") = Absent
    BY <1>1, <1>3, KeyValueSteps
  <2>4. /\ next.out \in Seq(Range(KeyOf(lines)))
        /\ ListsInOrder(next.out, KeyEnded(lines, j), KeyOf(lines))
    BY <2>1, <2>2, KeyPushed
  <2>5. IsParagraph(next) /\ next.name = Absent /\ next.version = Absent
    BY <2>1, PushRegFacts
  <2> HIDE DEF next, j
  <2> QED BY <2>3, <2>4, <2>5 DEF KeyAt, next, j
<1>4. CASE l.field # "HKEY"
  <2>1. KeyEnded(lines, j) = ended
    BY <1>1, <1>4 DEF KeyEnded
  <2>2. \A field \in {"DisplayName", "DisplayVersion"} :
          KeyValue(lines, j + 1, field) =
            IF l.field = field /\ l.value # "" THEN l.value ELSE KeyValue(lines, j, field)
    <3>1. ASSUME NEW field, field # "HKEY"
          PROVE  KeyValue(lines, j + 1, field) =
                   IF l.field = field /\ l.value # "" THEN l.value ELSE KeyValue(lines, j, field)
      BY <1>1, <1>4, <3>1, KeyValueSteps
    <3> QED BY <3>1
  <2>3. \A field \in {"DisplayName", "DisplayVersion"} :
          /\ RegValue(l, field) # Absent <=> l.field = field /\ l.value # ""
          /\ RegValue(l, field) # Absent => RegValue(l, field) = l.value
    BY DEF RegValue
  <2>4. /\ IsParagraph(next) /\ next.out = st.out
        /\ next.name = IF l.field = "DisplayName" /\ l.value # "" THEN l.value ELSE st.name
        /\ next.version = IF l.field = "DisplayVersion" /\ l.value # "" THEN l.value ELSE st.version
    <3>1. CASE l.field = "DisplayName" /\ l.value # ""
      <4>1. next = [st EXCEPT !.name = l.value]
        BY <2>3, <3>1 DEF RegLine
      <4> QED BY <1>2, <3>1, <4>1 DEF IsParagraph
    <3>2. CASE l.field = "DisplayVersion" /\ l.value # ""
      <4>1. next = [st EXCEPT !.version = l.value]
        BY <2>3, <3>2 DEF RegLine
      <4> QED BY <1>2, <3>2, <4>1 DEF IsParagraph
    <3>3. CASE l.field \notin {"DisplayName", "DisplayVersion"} \/ l.value = ""
      <4>1. next = st
        BY <1>4, <2>3, <3>3 DEF RegLine
      <4> QED BY <1>2, <3>3, <4>1
    <3> QED BY <3>1, <3>2, <3>3
  <2>5. next.name = KeyValue(lines, j + 1, "DisplayName") /\ next.version = KeyValue(lines, j + 1, "DisplayVersion")
    BY <1>2, <2>2, <2>4
  <2> HIDE DEF next, j
  <2> QED BY <1>2, <2>1, <2>4, <2>5 DEF KeyAt, next, j
<1> QED BY <1>3, <1>4

\* The states by which ParseRegUninstall is defined.
RegRun(F, lines, n) ==
  F = [i \in 0..n |-> IF i = 0 THEN NoParagraph ELSE RegLine(F[i - 1], lines[i])]

\* There are such states, one made from the one before.
LEMMA RegRunExists ==
  ASSUME NEW lines, Len(lines) \in Nat
  PROVE  \E F : RegRun(F, lines, Len(lines))
<1> DEFINE N == Len(lines)
           T == {n \in 0..N : \E F : RegRun(F, lines, n)}
<1>0. N \in Nat
  OBVIOUS
<1>1. 0 \in T
  <2>1. RegRun([i \in 0..0 |-> NoParagraph], lines, 0)
    BY DEF RegRun
  <2> QED BY <1>0, <2>1
<1> HIDE DEF N
<1>2. ASSUME NEW n \in 0..N, n \in T, n < N PROVE n + 1 \in T
  <2>1. PICK F : RegRun(F, lines, n)
    BY <1>2
  <2> DEFINE G == [i \in 0..(n + 1) |-> IF i = n + 1 THEN RegLine(F[n], lines[n + 1]) ELSE F[i]]
  <2>2. \A i \in 0..n : G[i] = F[i]
    BY <1>0
  <2>3. \A i \in 0..n : F[i] = IF i = 0 THEN NoParagraph ELSE RegLine(F[i - 1], lines[i])
    BY <2>1 DEF RegRun
  <2>4. G[n + 1] = RegLine(F[n], lines[n + 1]) /\ n + 1 # 0
    BY <1>0
  <2>5. G = [i \in 0..(n + 1) |-> G[i]]
    OBVIOUS
  <2> HIDE DEF G
  <2>6. ASSUME NEW i \in 0..(n + 1)
        PROVE  G[i] = IF i = 0 THEN NoParagraph ELSE RegLine(G[i - 1], lines[i])
    <3>1. CASE i = n + 1
      <4>1. i - 1 = n /\ n \in 0..n /\ i # 0
        BY <1>0, <3>1
      <4> QED BY <2>2, <2>4, <3>1, <4>1
    <3>2. CASE i \in 0..n
      <4>1. i # 0 => i - 1 \in 0..n
        BY <1>0, <3>2
      <4> QED BY <2>2, <2>3, <3>2, <4>1
    <3> QED BY <1>0, <3>1, <3>2
  <2>7. RegRun(G, lines, n + 1)
    BY <2>5, <2>6 DEF RegRun
  <2>8. n + 1 \in 0..N
    BY <1>0, <1>2
  <2> QED BY <2>7, <2>8
<1>3. \A i \in 0..N : i \in T /\ i < N => i + 1 \in T
  BY <1>2
<1>4. N \in T
  <2> HIDE DEF T
  <2>1. \A i \in 0..N : i \in T
    BY <1>0, <1>1, <1>3, UpTo
  <2> QED BY <1>0, <2>1
<1> QED BY <1>4 DEF N

\* The parser's last state.
LEMMA RegParsed ==
  ASSUME NEW lines, Len(lines) \in Nat, \A k \in 1..Len(lines) : lines[k].value # Absent
  PROVE  \E st : KeyAt(lines, Len(lines), st) /\ ParseRegUninstall(lines) = PushReg(st).out
<1> DEFINE N == Len(lines)
           S == CHOOSE F : F = [i \in 0..N |-> IF i = 0 THEN NoParagraph ELSE RegLine(F[i - 1], lines[i])]
<1>0. N \in Nat
  OBVIOUS
<1>1. ParseRegUninstall(lines) = PushReg(S[N]).out
  BY DEF ParseRegUninstall
<1>2. \E F : F = [i \in 0..N |-> IF i = 0 THEN NoParagraph ELSE RegLine(F[i - 1], lines[i])]
  BY RegRunExists DEF RegRun
<1>3. S = [i \in 0..N |-> IF i = 0 THEN NoParagraph ELSE RegLine(S[i - 1], lines[i])]
  BY <1>2
<1> HIDE DEF S, N
<1>4. \A i \in 0..N : S[i] = IF i = 0 THEN NoParagraph ELSE RegLine(S[i - 1], lines[i])
  BY <1>3
<1> DEFINE T == {i \in 0..N : KeyAt(lines, i, S[i])}
<1>5. 0 \in T
  <2>0. 0 \in 0..N
    BY <1>0
  <2>1. S[0] = [out |-> << >>, name |-> Absent, version |-> Absent, installed |-> FALSE]
    <3>1. S[0] = NoParagraph
      BY <1>4, <2>0
    <3> QED BY <3>1 DEF NoParagraph
  <2>2. /\ IsParagraph(S[0]) /\ S[0].out = << >> /\ S[0].name = Absent /\ S[0].version = Absent
    BY <2>1 DEF IsParagraph
  <2>3. KeyEnded(lines, 0) = {}
    BY DEF KeyEnded
  <2>4. /\ KeyValue(lines, 0 + 1, "DisplayName") = Absent /\ KeyValue(lines, 0 + 1, "DisplayVersion") = Absent
    BY <1>0, <2>0, KeyValueSteps DEF N
  <2>5. ListsInOrder(S[0].out, KeyEnded(lines, 0), KeyOf(lines))
    BY <2>2, <2>3, ListsNothing
  <2>7. KeyAt(lines, 0, S[0])
    <3>1. << >> \in Seq(Range(KeyOf(lines)))
      OBVIOUS
    <3> QED BY <2>2, <2>4, <2>5, <3>1 DEF KeyAt
  <2> QED BY <1>0, <2>7
<1>6. ASSUME NEW i \in 0..N, i \in T, i < N PROVE i + 1 \in T
  <2>1. i + 1 \in 0..N /\ i + 1 # 0 /\ (i + 1) - 1 = i
    BY <1>0, <1>6
  <2>2. S[i + 1] = RegLine(S[i], lines[i + 1])
    BY <1>4, <2>1
  <2>3. KeyAt(lines, i, S[i])
    BY <1>6
  <2>4. lines[i + 1].value # Absent
    BY <1>0, <2>1 DEF N
  <2>5. KeyAt(lines, i + 1, S[i + 1])
    BY <1>0, <1>6, <2>2, <2>3, <2>4, RegLineKeeps DEF N
  <2> QED BY <2>1, <2>5
<1>7. N \in T
  <2>1. \A i \in 0..N : i \in T /\ i < N => i + 1 \in T
    BY <1>6
  <2> HIDE DEF T
  <2>2. \A i \in 0..N : i \in T
    BY <1>0, <1>5, <2>1, UpTo
  <2> QED BY <1>0, <2>2
<1> QED BY <1>1, <1>7 DEF N

\* Every key with a name, and nothing else, is listed, from its own lines alone.
LEMMA RegExact ==
  ASSUME NEW lines, Len(lines) \in Nat, \A k \in 1..Len(lines) : lines[k].value # Absent
  PROVE  LET ends == Ends(lines, "HKEY")
         IN  ListsInOrder(ParseRegUninstall(lines), {e \in ends : KeyOk(lines, e)},
               [e \in ends |-> Package(KeyValue(lines, e, "DisplayName"),
                                       OrEmpty(KeyValue(lines, e, "DisplayVersion")), "registry")])
<1> DEFINE N == Len(lines)
           ends == Ends(lines, "HKEY")
           g == [e \in ends |-> Package(KeyValue(lines, e, "DisplayName"),
                                        OrEmpty(KeyValue(lines, e, "DisplayVersion")), "registry")]
<1>1. PICK st : KeyAt(lines, N, st) /\ ParseRegUninstall(lines) = PushReg(st).out
  BY RegParsed
<1>2. N \in 0..N /\ N \in Nat
  OBVIOUS
<1> DEFINE out == ParseRegUninstall(lines)
<1>3. ListsInOrder(out, KeyEnded(lines, N) \cup {e \in {N + 1} : KeyOk(lines, e)}, KeyOf(lines))
  BY <1>1, <1>2, KeyPushed
<1>4. KeyEnded(lines, N) \cup {e \in {N + 1} : KeyOk(lines, e)} = {e \in ends : KeyOk(lines, e)}
  BY <1>2 DEF KeyEnded, Ends
<1>5. \A e \in ends : g[e] = KeyOf(lines)[e]
  BY <1>2 DEF KeyOf, Ends
<1> DEFINE S == {e \in ends : KeyOk(lines, e)}
<1>6. S \subseteq ends /\ ListsInOrder(out, S, KeyOf(lines))
  BY <1>3, <1>4
<1> HIDE DEF S, g, out, ends
<1>7. ListsInOrder(out, S, g)
  BY <1>5, <1>6 DEF ListsInOrder
<1> QED BY <1>7 DEF S, g, out, ends

-----------------------------------------------------------------------------
\* The numbers by which AddressCount is defined.
Doubles(F, n) == F = [k \in 0..n |-> IF k = 0 THEN 1 ELSE 2 * F[k - 1]]

\* There are such numbers.
LEMMA DoublesExist == \E F : Doubles(F, Width)
<1> DEFINE T == {n \in 0..Width : \E F : Doubles(F, n)}
<1>0. Width \in Nat
  BY ReaderAssumption
<1>1. 0 \in T
  <2>1. Doubles([k \in 0..0 |-> 1], 0)
    BY DEF Doubles
  <2> QED BY <1>0, <2>1
<1>2. ASSUME NEW n \in 0..Width, n \in T, n < Width PROVE n + 1 \in T
  <2>1. PICK F : Doubles(F, n)
    BY <1>2
  <2> DEFINE G == [k \in 0..(n + 1) |-> IF k = n + 1 THEN 2 * F[n] ELSE F[k]]
  <2>2. \A k \in 0..n : G[k] = F[k]
    BY <1>0
  <2>3. \A k \in 0..n : F[k] = IF k = 0 THEN 1 ELSE 2 * F[k - 1]
    BY <2>1 DEF Doubles
  <2>4. G[n + 1] = 2 * F[n] /\ n + 1 # 0
    BY <1>0
  <2>5. G = [k \in 0..(n + 1) |-> G[k]]
    OBVIOUS
  <2> HIDE DEF G
  <2>6. ASSUME NEW k \in 0..(n + 1) PROVE G[k] = IF k = 0 THEN 1 ELSE 2 * G[k - 1]
    <3>1. CASE k = n + 1
      <4>1. k - 1 = n /\ n \in 0..n /\ k # 0
        BY <1>0, <3>1
      <4> QED BY <2>2, <2>4, <3>1, <4>1
    <3>2. CASE k \in 0..n
      <4>1. k # 0 => k - 1 \in 0..n
        BY <1>0, <3>2
      <4> QED BY <2>2, <2>3, <3>2, <4>1
    <3> QED BY <1>0, <3>1, <3>2
  <2>7. Doubles(G, n + 1)
    BY <2>5, <2>6 DEF Doubles
  <2>8. n + 1 \in 0..Width
    BY <1>0, <1>2
  <2> QED BY <2>7, <2>8
<1>3. \A i \in 0..Width : i \in T /\ i < Width => i + 1 \in T
  BY <1>2
<1>4. Width \in T
  <2> HIDE DEF T
  <2>1. \A i \in 0..Width : i \in T
    BY <1>0, <1>1, <1>3, UpTo
  <2> QED BY <1>0, <2>1
<1> QED BY <1>4

\* One more bit doubles the number of addresses.
LEMMA AddressCountDoubles ==
  \A k \in 0..Width : AddressCount[k] = IF k = 0 THEN 1 ELSE 2 * AddressCount[k - 1]
<1>1. \E F : F = [k \in 0..Width |-> IF k = 0 THEN 1 ELSE 2 * F[k - 1]]
  BY DoublesExist DEF Doubles
<1>2. AddressCount = CHOOSE F : F = [k \in 0..Width |-> IF k = 0 THEN 1 ELSE 2 * F[k - 1]]
  BY DEF AddressCount
<1>3. AddressCount = [k \in 0..Width |-> IF k = 0 THEN 1 ELSE 2 * AddressCount[k - 1]]
  BY <1>1, <1>2
<1> QED BY <1>3

\* The addresses are those of the prefixes times those of the hosts of each.
LEMMA AddressCountSplits ==
  ASSUME NEW p \in 0..Width
  PROVE  \E q \in Nat : AddressCount[Width] = AddressCount[Width - p] * q /\ AddressCount[Width - p] \in Nat \ {0}
<1>0. Width \in Nat
  BY ReaderAssumption
<1> DEFINE P == {k \in 0..Width : AddressCount[k] \in Nat \ {0}}
<1>1. 0 \in P
  BY <1>0, AddressCountDoubles
<1>2. ASSUME NEW k \in 0..Width, k \in P, k < Width PROVE k + 1 \in P
  <2>1. k + 1 \in 0..Width /\ k + 1 # 0 /\ (k + 1) - 1 = k
    BY <1>0, <1>2
  <2>2. AddressCount[k + 1] = 2 * AddressCount[k]
    BY <2>1, AddressCountDoubles
  <2> QED BY <1>2, <2>1, <2>2
<1>3. \A k \in 0..Width : k \in P
  <2>1. \A k \in 0..Width : k \in P /\ k < Width => k + 1 \in P
    BY <1>2
  <2> HIDE DEF P
  <2> QED BY <1>0, <1>1, <2>1, UpTo
<1> DEFINE T == {k \in 0..Width : \E q \in Nat : AddressCount[Width] = AddressCount[Width - k] * q}
<1>4. 0 \in T
  <2>1. Width - 0 = Width /\ 0 \in 0..Width /\ Width \in 0..Width
    BY <1>0
  <2>2. AddressCount[Width] \in Nat
    BY <1>3, <2>1
  <2>3. AddressCount[Width] = AddressCount[Width - 0] * 1
    BY <2>1, <2>2
  <2> QED BY <2>1, <2>3
<1>5. ASSUME NEW k \in 0..Width, k \in T, k < Width PROVE k + 1 \in T
  <2>1. /\ k + 1 \in 0..Width /\ Width - k \in 0..Width /\ Width - k # 0
        /\ (Width - k) - 1 = Width - (k + 1) /\ Width - (k + 1) \in 0..Width
    BY <1>0, <1>5
  <2>2. PICK q \in Nat : AddressCount[Width] = AddressCount[Width - k] * q
    BY <1>5
  <2>3. AddressCount[Width - k] = 2 * AddressCount[Width - (k + 1)]
    BY <2>1, AddressCountDoubles
  <2>4. AddressCount[Width - (k + 1)] \in Nat
    BY <1>3, <2>1
  <2>5. AddressCount[Width] = AddressCount[Width - (k + 1)] * (2 * q) /\ 2 * q \in Nat
    BY <2>2, <2>3, <2>4
  <2> QED BY <2>1, <2>5
<1>6. \A k \in 0..Width : k \in T
  <2>1. \A k \in 0..Width : k \in T /\ k < Width => k + 1 \in T
    BY <1>5
  <2> HIDE DEF T
  <2> QED BY <1>0, <1>4, <2>1, UpTo
<1>7. Width - p \in 0..Width
  BY <1>0
<1> QED BY <1>3, <1>6, <1>7

\* A number is what it is of the divisor and a rest.
LEMMA Division ==
  ASSUME NEW a \in Nat, NEW c \in Nat, c > 0
  PROVE  a = c * (a \div c) + (a % c) /\ a % c \in Nat /\ a % c < c /\ a \div c \in Nat
  OBVIOUS

\* And there is one such quotient.
LEMMA Quotient ==
  ASSUME NEW q \in Nat, NEW r \in Nat, NEW c \in Nat, r < c
  PROVE  (c * q + r) \div c = q
  OBVIOUS

\* A number below the divisor is its own rest.
LEMMA SmallRest ==
  ASSUME NEW a \in Nat, NEW c \in Nat, a < c
  PROVE  a % c = a
  OBVIOUS

\* What the loop of expand_cidr lists, and the addresses that share the base's prefix.
Expanded(b, c, M) == {(b - (b % c) + i) % M : i \in 0..(c - 1)}
InRange(b, c, M) == {a \in 0..(M - 1) : a \div c = b \div c}

\* The masked base and a host number make exactly the addresses of the range.
LEMMA RangeExactly ==
  ASSUME NEW c \in Nat \ {0}, NEW q \in Nat, NEW M, M = c * q, NEW b \in 0..(M - 1)
  PROVE  Expanded(b, c, M) = InRange(b, c, M)
<1> DEFINE n == b \div c
<1>1. M \in Nat /\ b \in Nat /\ b < M /\ c > 0 /\ c \in Nat
  OBVIOUS
<1>2. b = c * n + (b % c) /\ b % c \in Nat /\ n \in Nat
  BY <1>1, Division
<1> HIDE DEF n
<1>3. b - (b % c) = c * n
  BY <1>2, <1>1
<1>4. c * n + c <= M
  <2>1. n < q
    <3> SUFFICES ASSUME q <= n PROVE FALSE
      BY <1>2
    <3>1. c * q <= c * n
      BY <1>1, <1>2
    <3> QED BY <1>1, <1>2, <3>1
  <2>2. n + 1 <= q
    BY <1>2, <2>1
  <2>3. c * (n + 1) <= c * q
    BY <1>1, <1>2, <2>2
  <2> QED BY <1>1, <1>2, <2>3
<1>5. ASSUME NEW i \in 0..(c - 1)
      PROVE  (b - (b % c) + i) % M = c * n + i /\ c * n + i \in 0..(M - 1) /\ (c * n + i) \div c = n
  <2>1. c * n \in Nat /\ i \in Nat /\ i < c
    BY <1>1, <1>2
  <2>2. c * n + i \in Nat /\ c * n + i < M
    BY <1>1, <1>4, <2>1
  <2>3. (c * n + i) % M = c * n + i
    BY <1>1, <2>2, SmallRest
  <2>4. (c * n + i) \div c = n
    BY <1>1, <1>2, <2>1, Quotient
  <2>5. c * n + i \in 0..(M - 1)
    BY <1>1, <2>2
  <2> QED BY <1>3, <2>3, <2>4, <2>5
<1>6. ASSUME NEW a \in 0..(M - 1), a \div c = n
      PROVE  \E i \in 0..(c - 1) : a = c * n + i
  <2>1. a = c * (a \div c) + (a % c) /\ a % c \in Nat /\ a % c < c
    BY <1>1, Division
  <2>2. a % c \in 0..(c - 1)
    BY <1>1, <2>1
  <2> QED BY <1>6, <2>1, <2>2
<1> DEFINE L == {(b - (b % c) + i) % M : i \in 0..(c - 1)}
           R == {a \in 0..(M - 1) : a \div c = n}
<1>7. ASSUME NEW x \in L PROVE x \in R
  BY <1>5
<1>8. ASSUME NEW x \in R PROVE x \in L
  <2>1. PICK i \in 0..(c - 1) : x = c * n + i
    BY <1>6
  <2>2. x = (b - (b % c) + i) % M
    BY <1>5, <2>1
  <2> QED BY <2>2
<1> HIDE DEF L, R
<1>9. L = R
  BY <1>7, <1>8
<1> QED BY <1>9 DEF L, R, n, Expanded, InRange

-----------------------------------------------------------------------------
\* In a file of two samples at most every byte is in its head or in its tail.
LEMMA FingerprintTells ==
  ASSUME NEW T, NEW a \in Seq(T), NEW b \in Seq(T), Len(a) <= 2 * Sample, Fingerprint(a) = Fingerprint(b)
  PROVE  a = b
<1> DEFINE n == Len(a)
           h == Sized(n)
           end(s) == SubSeq(s, n - Sample + 1, n)
<1>1. Sample \in Nat /\ n \in Nat /\ h \in Nat /\ h <= n /\ h <= Sample /\ (n < Sample => h = n) /\ (n >= Sample => h = Sample)
  <2>1. Sample \in Nat
    BY ReaderAssumption
  <2>2. n \in Nat
    OBVIOUS
  <2> HIDE DEF n
  <2> QED BY <2>1, <2>2 DEF Sized
<1>2. /\ Len(b) = n /\ SubSeq(a, 1, h) = SubSeq(b, 1, h)
      /\ n > Sample => end(a) = end(b)
  BY DEF Fingerprint
<1>3. ASSUME NEW i \in 1..n PROVE a[i] = b[i]
  <2>1. CASE i <= h
    <3>1. SubSeq(a, 1, h)[i] = a[i] /\ SubSeq(b, 1, h)[i] = b[i]
      BY <1>1, <1>2, <2>1
    <3> QED BY <1>2, <3>1
  <2>2. CASE i > h
    <3>1. n > Sample /\ h = Sample /\ i > Sample
      BY <1>1, <2>2
    <3> DEFINE k == i - (n - Sample)
    <3>2. k \in 1..Sample /\ (n - Sample + 1) + k - 1 = i /\ k \in 1..(n - (n - Sample + 1) + 1)
      BY <1>1, <3>1
    <3>3. n - Sample + 1 \in 1..n
      BY <1>1, <3>1
    <3> HIDE DEF k
    <3>4. end(a)[k] = a[(n - Sample + 1) + k - 1]
      BY <1>1, <3>2, <3>3
    <3>5. end(b)[k] = b[(n - Sample + 1) + k - 1]
      BY <1>1, <1>2, <3>2, <3>3
    <3> QED BY <1>2, <3>1, <3>2, <3>4, <3>5
  <2> QED BY <1>1, <2>1, <2>2
<1>4. DOMAIN a = 1..n /\ DOMAIN b = 1..n
  BY <1>2
<1>5. a = [i \in 1..n |-> a[i]] /\ b = [i \in 1..n |-> b[i]]
  BY <1>4
<1> HIDE DEF n
<1> QED BY <1>3, <1>5

\* What is given stays as it was chosen.
GivenInput == given \in GivenInputs \/ given = NoInput

\* Whatever input is given, the reader of its kind makes of it what it says.
LEMMA GivenIsRead ==
  ASSUME GivenInput
  PROVE  ReadersExact
<1>1. /\ given.kind = "lines" => given.lines \in Lines
      /\ given.kind = "range" => given.base \in 0..(AddressCount[Width] - 1) /\ given.prefix \in 0..(Width + 1)
      /\ given.kind = "contents" => given.a \in Weights /\ given.b \in Weights
  <2>1. CASE given = NoInput
    BY <2>1 DEF NoInput
  <2>2. CASE \E ls \in Lines : given = [kind |-> "lines", lines |-> ls]
    BY <2>2
  <2>3. CASE \E b \in 0..(AddressCount[Width] - 1), p \in 0..(Width + 1) :
               given = [kind |-> "range", base |-> b, prefix |-> p]
    BY <2>3
  <2>4. CASE \E x, y \in Weights : given = [kind |-> "contents", a |-> x, b |-> y]
    BY <2>4
  <2> QED BY <2>1, <2>2, <2>3, <2>4 DEF GivenInput, GivenInputs
<1>2. ASSUME given.kind = "lines"
      PROVE  Len(given.lines) \in Nat /\ \A k \in 1..Len(given.lines) : given.lines[k].value # Absent
  <2>1. given.lines \in Lines
    BY <1>1, <1>2
  <2>2. given.lines \in Seq(ToSet(given.lines)) /\ \A k \in 1..Len(given.lines) : given.lines[k].value # Absent
    BY <2>1, ReaderAssumption
  <2> QED BY <2>2
<1>3. ParagraphsApart
  <2> SUFFICES ASSUME given.kind = "lines" PROVE ParagraphsApart
    BY DEF ParagraphsApart
  <2> DEFINE ends == Ends(given.lines, "blank")
  <2>1. ListsInOrder(ParseDpkgStatus(given.lines), {e \in ends : DpkgOk(given.lines, e)},
          [e \in ends |-> Package(DpkgValue(given.lines, e, "Package"),
                                  OrEmpty(DpkgValue(given.lines, e, "Version")), "dpkg")])
    BY <1>2, DpkgExact
  <2> QED BY <2>1 DEF ParagraphsApart, DpkgOk, DpkgValue
<1>4. KeysApart
  <2> SUFFICES ASSUME given.kind = "lines" PROVE KeysApart
    BY DEF KeysApart
  <2> DEFINE ends == Ends(given.lines, "HKEY")
  <2>1. ListsInOrder(ParseRegUninstall(given.lines), {e \in ends : KeyOk(given.lines, e)},
          [e \in ends |-> Package(KeyValue(given.lines, e, "DisplayName"),
                                  OrEmpty(KeyValue(given.lines, e, "DisplayVersion")), "registry")])
    BY <1>2, RegExact
  <2> QED BY <2>1 DEF KeysApart, KeyOk, KeyValue, Data
<1>5. CidrExact
  <2> SUFFICES ASSUME given.kind = "range" PROVE CidrExact
    BY DEF CidrExact
  <2> DEFINE p == given.prefix
             b == given.base
             c == AddressCount[Width - p]
             M == AddressCount[Width]
  <2>1. b \in 0..(M - 1) /\ p \in 0..(Width + 1) /\ Width \in Nat
    BY <1>1, ReaderAssumption
  <2>2. CASE p > Width
    BY <2>2 DEF CidrExact, ExpandCidr
  <2>3. CASE p <= Width /\ c > MaxHosts
    BY <2>3 DEF CidrExact, ExpandCidr
  <2>4. CASE p <= Width /\ ~(c > MaxHosts)
    <3>1. p \in 0..Width
      BY <2>1, <2>4
    <3>2. PICK q \in Nat : M = c * q /\ c \in Nat \ {0}
      BY <3>1, AddressCountSplits
    <3>3. Expanded(b, c, M) = InRange(b, c, M)
      <4> HIDE DEF b, c, M
      <4> QED BY <2>1, <3>2, RangeExactly
    <3>4. ~(p > Width)
      BY <2>1, <2>4
    <3>5. ExpandCidr(b, p) = Expanded(b, c, M)
      BY <2>4, <3>4 DEF ExpandCidr, Expanded
    <3> QED BY <2>4, <3>3, <3>4, <3>5 DEF CidrExact, InRange
  <2>5. p > Width \/ p <= Width
    BY <2>1
  <2> QED BY <2>2, <2>3, <2>4, <2>5
<1>6. ChangeSeen
  <2> SUFFICES ASSUME given.kind = "contents", Len(given.a) <= 2 * Sample, given.a # given.b,
                      Fingerprint(given.a) = Fingerprint(given.b)
               PROVE  FALSE
    BY DEF ChangeSeen
  <2>1. given.a \in Seq(ToSet(given.a)) /\ given.b \in Seq(ToSet(given.b))
    BY <1>1, ReaderAssumption
  <2> DEFINE T == ToSet(given.a) \cup ToSet(given.b)
  <2>2. given.a \in Seq(T) /\ given.b \in Seq(T)
    BY <2>1
  <2> HIDE DEF T
  <2> QED BY <2>2, FingerprintTells
<1> QED BY <1>3, <1>4, <1>5, <1>6 DEF ReadersExact

\* ReadersExact (parse_dpkg_status, parse_reg_uninstall, expand_cidr, fingerprint):
\* for lines of any number, addresses of any width and files of any content, a
\* package takes its name, version and state from its own paragraph or key, a range
\* is expanded to its addresses, and any change to a file of two samples is seen.
THEOREM ReadersAlwaysExact == InventorySpec => []ReadersExact
<1>1. InventoryInit => GivenInput
  BY DEF InventoryInit, GivenInput
<1>2. GivenInput /\ [InventoryNext]_inventoryVars => GivenInput'
  <2> SUFFICES ASSUME GivenInput, [InventoryNext]_inventoryVars PROVE given' = given
    BY DEF GivenInput, GivenInputs, NoInput
  <2>1. CASE InventoryNext
    BY <2>1 DEF InventoryNext, ListListeners, NameProcesses, ClassifyListeners, ProbeVersion, ProbeModels,
       ProbesDone, ListPackages, AttachLibraries, LibrariesDone, WalkRoot, WalkEntry, WalkUp,
       WalkEnds, PidReused, Binds, PackageChanges, FileChanges, Changes
  <2> QED BY <2>1 DEF inventoryVars
<1>3. GivenInput => ReadersExact
  BY GivenIsRead
<1> QED BY <1>1, <1>2, <1>3, PTL DEF InventorySpec
=============================================================================
