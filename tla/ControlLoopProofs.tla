-------------------------- MODULE ControlLoopProofs -------------------------
(***************************************************************************)
(* Theorems about the agent control loop, for every set of commands, roles *)
(* and windows, every length of the session, and any order, loss and       *)
(* duplication of its frames.                                              *)
(***************************************************************************)
EXTENDS ControlLoop, BridgeProofs, SequenceFacts

(***************************************************************************)
(* The queue: what a step does to the commands that are held.              *)
(***************************************************************************)

SeqsOf(s) == {s[i].seq : i \in 1..Len(s)}

\* No two elements of the queue carry the same sequence number.
Once(s) == \A i, j \in 1..Len(s) : s[i].seq = s[j].seq => i = j

Apart(s, t) == SeqsOf(s) \cap SeqsOf(t) = {}

QueuesTyped == pending \in Seq(Pending) /\ batch \in Seq(Pending)

\* HeldOnce, a queue at a time.
HeldApart ==
  /\ Once(batch) /\ Once(pending) /\ Apart(batch, pending)
  /\ \A n \in SeqsOf(batch) \cup SeqsOf(pending) : n <= hwm

\* The elements of a queue have the type of a pending command.
LEMMA QueueTyped ==
  ASSUME NEW s \in Seq(Pending)
  PROVE  /\ Len(s) \in Nat /\ DOMAIN s = 1..Len(s)
         /\ \A i \in 1..Len(s) : /\ s[i] \in Pending
                                 /\ s[i].cmd \in Commands /\ s[i].seq \in SeqNo
<1>1. Len(s) \in Nat /\ DOMAIN s = 1..Len(s) /\ \A i \in 1..Len(s) : s[i] \in Pending
  OBVIOUS
<1> QED
  BY <1>1 DEF Pending

\* What is held is what the batch and the queue hold.
LEMMA HeldSplit ==
  ASSUME QueuesTyped
  PROVE  /\ HeldSeqs = SeqsOf(batch) \cup SeqsOf(pending)
         /\ HeldOnce <=> HeldApart
<1> DEFINE b == Len(batch)
           p == Len(pending)
<1>1. /\ Held \in Seq(Pending) /\ Len(Held) = b + p /\ b \in Nat /\ p \in Nat
      /\ DOMAIN Held = 1..(b + p)
      /\ \A i \in 1..b : Held[i] = batch[i]
      /\ \A i \in 1..p : Held[b + i] = pending[i]
  BY DEF QueuesTyped, Held
<1> HIDE DEF b, p
<1>2. \A i \in 1..(b + p) : i \in 1..b \/ (i - b \in 1..p /\ i = b + (i - b))
  BY <1>1
<1>3. \A i \in 1..b : i \in 1..(b + p)
  BY <1>1
<1>4. \A i \in 1..p : b + i \in 1..(b + p)
  BY <1>1
<1>5. SeqsOf(batch) = {Held[i].seq : i \in 1..b}
  BY <1>1 DEF SeqsOf, b
<1>6. SeqsOf(pending) = {Held[b + i].seq : i \in 1..p}
  BY <1>1 DEF SeqsOf, p
<1>7. HeldSeqs = SeqsOf(batch) \cup SeqsOf(pending)
  <2>1. HeldSeqs = {Held[i].seq : i \in 1..(b + p)}
    BY <1>1 DEF HeldSeqs
  <2>2. ASSUME NEW i \in 1..(b + p)
        PROVE  Held[i].seq \in SeqsOf(batch) \cup SeqsOf(pending)
    <3>1. CASE i \in 1..b
      BY <1>5, <3>1
    <3>2. CASE i - b \in 1..p /\ i = b + (i - b)
      BY <1>6, <3>2
    <3> QED
      BY <1>2, <3>1, <3>2
  <2>3. SeqsOf(batch) \subseteq HeldSeqs
    BY <1>3, <1>5, <2>1
  <2>4. SeqsOf(pending) \subseteq HeldSeqs
    BY <1>4, <1>6, <2>1
  <2> QED
    BY <2>1, <2>2, <2>3, <2>4
<1>8. ASSUME HeldOnce PROVE HeldApart
  <2>1. \A i, j \in 1..(b + p) : Held[i].seq = Held[j].seq => i = j
    BY <1>1, <1>8 DEF HeldOnce
  <2>2. Once(batch)
    BY <1>1, <1>3, <2>1 DEF Once, b
  <2>3. \A i, j \in 1..p : Held[b + i].seq = Held[b + j].seq => i = j
    <3>1. \A i, j \in 1..p : b + i = b + j => i = j
      BY <1>1
    <3> QED
      BY <1>4, <2>1, <3>1
  <2>4. Once(pending)
    BY <1>1, <2>3 DEF Once, p
  <2>5. \A i \in 1..b, j \in 1..p : Held[i].seq # Held[b + j].seq
    <3>1. \A i \in 1..b, j \in 1..p : i # b + j
      BY <1>1
    <3> QED
      BY <1>3, <1>4, <2>1, <3>1
  <2> QED
    BY <1>5, <1>6, <1>7, <1>8, <2>2, <2>4, <2>5 DEF HeldApart, Apart, HeldOnce
<1>9. ASSUME HeldApart PROVE HeldOnce
  <2>1. \A i, j \in 1..b : Held[i].seq = Held[j].seq => i = j
    BY <1>1, <1>9 DEF HeldApart, Once, b
  <2>2. \A i, j \in 1..p : Held[b + i].seq = Held[b + j].seq => i = j
    BY <1>1, <1>9 DEF HeldApart, Once, p
  <2>3. \A i \in 1..b, j \in 1..p : Held[i].seq # Held[b + j].seq
    BY <1>5, <1>6, <1>9 DEF HeldApart, Apart
  <2>4. ASSUME NEW i \in 1..(b + p), NEW j \in 1..(b + p), Held[i].seq = Held[j].seq
        PROVE  i = j
    <3>1. CASE i \in 1..b /\ j \in 1..b
      BY <2>1, <2>4, <3>1
    <3>2. CASE i \in 1..b /\ j - b \in 1..p /\ j = b + (j - b)
      BY <2>3, <2>4, <3>2
    <3>3. CASE j \in 1..b /\ i - b \in 1..p /\ i = b + (i - b)
      BY <2>3, <2>4, <3>3
    <3>4. CASE i - b \in 1..p /\ i = b + (i - b) /\ j - b \in 1..p /\ j = b + (j - b)
      <4>1. i - b = j - b
        BY <2>2, <2>4, <3>4
      <4> QED
        BY <3>4, <4>1
    <3> QED
      BY <1>2, <3>1, <3>2, <3>3, <3>4
  <2> QED
    BY <1>1, <1>7, <1>9, <2>4 DEF HeldOnce, HeldApart
<1> QED
  BY <1>7, <1>8, <1>9

\* What a command that waits for its window is.
Fit(p) == /\ p.cmd.kind \in Execution /\ Authorized(p.cmd)
          /\ p.cmd.schedule \in Schedule

\* The ways a step moves sequence numbers.  A frame that is not authentic or not
\* fresh is ignored; ...
Ignored == /\ hwm' = hwm /\ batch' = batch /\ pending' = pending
           /\ settled' = {}

\* ... a fresh one is answered at once, ...
Answered == \E n \in SeqNo, v \in Verdict :
  /\ n > hwm /\ hwm' = n
  /\ batch' = batch /\ pending' = pending
  /\ settled' = {[seq |-> n, what |-> v]}

\* ... or held, ...
Enqueued == \E c \in Commands, n \in SeqNo :
  /\ n > hwm /\ hwm' = n /\ batch = << >>
  /\ batch' = batch /\ pending' = Append(pending, [cmd |-> c, seq |-> n])
  /\ Fit([cmd |-> c, seq |-> n])
  /\ settled' = {}

\* ... or cancels what is held for its action.
Cancels == \E c \in Commands, n \in SeqNo :
  /\ n > hwm /\ hwm' = n /\ batch = << >>
  /\ batch' = batch /\ Cancel(c, n)

\* A tick takes the queue, ...
Takes == /\ hwm' = hwm /\ batch = << >> /\ batch' = pending
         /\ pending' = << >> /\ settled' = {}

\* ... and each of its iterations settles the first command or puts it back.
Settles == \E v \in Verdict :
  /\ hwm' = hwm /\ batch # << >> /\ batch' = Tail(batch) /\ pending' = pending
  /\ settled' = {[seq |-> Head(batch).seq, what |-> v]}

PutsBack ==
  /\ hwm' = hwm /\ batch # << >> /\ batch' = Tail(batch)
  /\ pending' = Append(pending, Head(batch))
  /\ settled' = {}

QueueMove == \/ Ignored \/ Answered \/ Enqueued \/ Cancels
             \/ Takes \/ Settles \/ PutsBack

\* What Report says in the two forms it is used.
LEMMA Reports ==
  ASSUME NEW n, NEW v
  PROVE  /\ Report({n}, v) => settled' = {[seq |-> n, what |-> v]}
         /\ Report({}, v) => settled' = {}
  BY DEF Report

\* A handler settles its command, holds it, or cancels.
LEMMA HandleMoves ==
  ASSUME NEW c \in Commands, NEW n \in SeqNo, Handle(c, n), Authorized(c)
  PROVE  \/ \E v \in Verdict : Report({n}, v) /\ pending' = pending
         \/ /\ pending' = Append(pending, [cmd |-> c, seq |-> n])
            /\ Fit([cmd |-> c, seq |-> n]) /\ settled' = {}
         \/ Cancel(c, n)
<1>1. CASE HandleDraft(c, n)
  BY <1>1 DEF HandleDraft, DraftAndPreview, Rejected, Verdict
<1>2. CASE HandleFresh(c, n)
  BY <1>2 DEF HandleFresh, Outcome, Verdict
<1>3. CASE HandleAbort(c, n)
  BY <1>3 DEF HandleAbort, Verdict
<1>4. CASE ExecuteFresh(c, n)
  BY <1>4 DEF ExecuteFresh, Outcome, Verdict
<1>5. CASE c.kind \in Execution /\ Enqueue(c, n)
  <2>1. c.schedule \in Schedule
    BY <1>5, CommandsTyped DEF Enqueue, ControlCommand
  <2>2. Fit([cmd |-> c, seq |-> n])
    BY <1>5, <2>1 DEF Fit
  <2> QED
    BY <1>5, <2>2, Reports DEF Enqueue, Rejected, Verdict
<1> QED
  BY <1>1, <1>2, <1>3, <1>4, <1>5 DEF Handle

\* Every step of the loop is one of the moves.
LEMMA LoopMoves ==
  ASSUME LoopTypeOK, LoopNext
  PROVE  QueueMove
<1>1. CASE ServeOne
  <2>1. CASE Rejected /\ Report({}, "refused") /\ UNCHANGED hwm
    BY <1>1, <2>1, Reports DEF ServeOne, Rejected, Ignored, QueueMove
  <2>2. ASSUME NEW c \in Commands, NEW n \in SeqNo, Gated(c, n)
        PROVE  QueueMove
    <3>1. n > hwm /\ hwm' = n /\ batch' = batch /\ batch = << >>
      BY <1>1, <2>2 DEF ServeOne, Gated, Fresh, LoopTypeOK
    <3>2. ASSUME NEW v \in Verdict, Report({n}, v), pending' = pending
          PROVE  QueueMove
      BY <3>1, <3>2, Reports DEF Answered, QueueMove
    <3>3. CASE ~ Authorized(c) /\ Rejected /\ Report({n}, "refused")
      BY <3>2, <3>3 DEF Rejected, Verdict
    <3>4. CASE Authorized(c) /\ Handle(c, n)
      <4>1. CASE /\ pending' = Append(pending, [cmd |-> c, seq |-> n])
                 /\ Fit([cmd |-> c, seq |-> n]) /\ settled' = {}
        BY <3>1, <4>1 DEF Enqueued, QueueMove
      <4>2. CASE Cancel(c, n)
        BY <3>1, <4>2 DEF Cancels, QueueMove
      <4> QED
        BY <3>2, <3>4, <4>1, <4>2, HandleMoves
    <3> QED
      BY <2>2, <3>3, <3>4 DEF Gated
  <2> QED
    BY <1>1, <2>1, <2>2 DEF ServeOne
<1>2. CASE TickBegin
  BY <1>2 DEF TickBegin, Takes, QueueMove, LoopTypeOK
<1>3. CASE TickStep
  <2>1. CASE DropExpired(Head(batch))
    BY <1>3, <2>1, Reports DEF TickStep, DropExpired, Settles, QueueMove, Verdict
  <2>2. CASE KeepEarly(Head(batch))
    BY <1>3, <2>2 DEF TickStep, KeepEarly, PutsBack, QueueMove
  <2>3. CASE Release(Head(batch))
    <3>1. PICK v \in Verdict : Report({Head(batch).seq}, v)
      BY <2>3 DEF Release, Verdict
    <3>2. settled' = {[seq |-> Head(batch).seq, what |-> v]}
      BY <3>1, Reports
    <3> QED
      BY <1>3, <2>3, <3>2 DEF TickStep, Release, Settles, QueueMove
  <2> QED
    BY <1>3, <2>1, <2>2, <2>3 DEF TickStep
<1>4. CASE ClockAdvance
  BY <1>4 DEF ClockAdvance, Ignored, QueueMove
<1> QED
  BY <1>1, <1>2, <1>3, <1>4 DEF LoopNext

AllFit(s) == \A i \in 1..Len(s) : Fit(s[i])

\* A command put at the end of a queue.
LEMMA AppendSeqs ==
  ASSUME NEW s \in Seq(Pending), NEW p \in Pending
  PROVE  /\ Append(s, p) \in Seq(Pending)
         /\ SeqsOf(Append(s, p)) = SeqsOf(s) \cup {p.seq}
         /\ Once(s) /\ p.seq \notin SeqsOf(s) => Once(Append(s, p))
         /\ AllFit(s) /\ Fit(p) => AllFit(Append(s, p))
<1> DEFINE t == Append(s, p)
           n == Len(s)
<1>1. /\ t \in Seq(Pending) /\ n \in Nat /\ Len(t) = n + 1
      /\ \A i \in 1..n : t[i] = s[i]
      /\ t[n + 1] = p
  OBVIOUS
<1> HIDE DEF t, n
<1>2. /\ \A i \in 1..(n + 1) : i \in 1..n \/ i = n + 1
      /\ \A i \in 1..n : i \in 1..(n + 1)
      /\ n + 1 \in 1..(n + 1)
  BY <1>1
<1>3. SeqsOf(s) = {t[i].seq : i \in 1..n}
  BY <1>1 DEF SeqsOf, n
<1>4. SeqsOf(t) = SeqsOf(s) \cup {p.seq}
  <2>1. SeqsOf(t) = {t[i].seq : i \in 1..(n + 1)}
    BY <1>1 DEF SeqsOf
  <2> QED
    BY <1>1, <1>2, <1>3, <2>1
<1>5. ASSUME Once(s), p.seq \notin SeqsOf(s) PROVE Once(t)
  <2>1. \A i, j \in 1..n : t[i].seq = t[j].seq => i = j
    BY <1>1, <1>5 DEF Once, n
  <2>2. \A i \in 1..n : t[i].seq # p.seq
    BY <1>3, <1>5
  <2> QED
    BY <1>1, <1>2, <2>1, <2>2 DEF Once
<1>6. ASSUME AllFit(s), Fit(p) PROVE AllFit(t)
  BY <1>1, <1>2, <1>6 DEF AllFit, n
<1> QED
  BY <1>1, <1>4, <1>5, <1>6 DEF t

\* The first command of a queue, and the others.
LEMMA TailSeqs ==
  ASSUME NEW s \in Seq(Pending), s # << >>
  PROVE  /\ Head(s) \in Pending /\ Tail(s) \in Seq(Pending)
         /\ SeqsOf(s) = {Head(s).seq} \cup SeqsOf(Tail(s))
         /\ Once(s) => Once(Tail(s)) /\ Head(s).seq \notin SeqsOf(Tail(s))
         /\ AllFit(s) => Fit(Head(s)) /\ AllFit(Tail(s))
<1> DEFINE t == Tail(s)
           n == Len(t)
<1>1. /\ t \in Seq(Pending) /\ n \in Nat /\ Len(s) = n + 1
      /\ \A i \in 1..n : t[i] = s[i + 1]
      /\ Head(s) = s[1] /\ Head(s) \in Pending
  OBVIOUS
<1> HIDE DEF t, n
<1>2. /\ \A i \in 1..(n + 1) : i = 1 \/ (i - 1 \in 1..n /\ i = (i - 1) + 1)
      /\ \A i \in 1..n : i + 1 \in 1..(n + 1) /\ i + 1 # 1
      /\ \A i, j \in 1..n : i + 1 = j + 1 => i = j
      /\ 1 \in 1..(n + 1)
  BY <1>1
<1>3. SeqsOf(t) = {s[i + 1].seq : i \in 1..n}
  BY <1>1 DEF SeqsOf, n
<1>4. SeqsOf(s) = {Head(s).seq} \cup SeqsOf(t)
  <2>1. SeqsOf(s) = {s[i].seq : i \in 1..(n + 1)}
    BY <1>1 DEF SeqsOf
  <2>2. ASSUME NEW i \in 1..(n + 1) PROVE s[i].seq \in {Head(s).seq} \cup SeqsOf(t)
    <3>1. CASE i = 1
      BY <1>1, <3>1
    <3>2. CASE i - 1 \in 1..n /\ i = (i - 1) + 1
      BY <1>3, <3>2
    <3> QED
      BY <1>2, <3>1, <3>2
  <2>3. {Head(s).seq} \cup SeqsOf(t) \subseteq SeqsOf(s)
    BY <1>1, <1>2, <1>3, <2>1
  <2> QED
    BY <2>1, <2>2, <2>3
<1>5. ASSUME Once(s) PROVE Once(t) /\ Head(s).seq \notin SeqsOf(t)
  <2>1. \A i, j \in 1..(n + 1) : s[i].seq = s[j].seq => i = j
    BY <1>1, <1>5 DEF Once
  <2>2. \A i, j \in 1..n : s[i + 1].seq = s[j + 1].seq => i = j
    BY <1>2, <2>1
  <2>3. \A i \in 1..n : s[i + 1].seq # s[1].seq
    BY <1>2, <2>1
  <2> QED
    BY <1>1, <1>3, <2>2, <2>3 DEF Once, n
<1>6. ASSUME AllFit(s) PROVE Fit(Head(s)) /\ AllFit(t)
  BY <1>1, <1>2, <1>6 DEF AllFit, n
<1> QED
  BY <1>1, <1>4, <1>5, <1>6 DEF t

\* What Scheduler::cancel retains.
LEMMA FilterSeqs ==
  ASSUME NEW s \in Seq(Pending), NEW S
  PROVE  /\ Filter(s, S) \in Seq(Pending)
         /\ SeqsOf(Filter(s, S)) \subseteq SeqsOf(s)
         /\ \A i \in 1..Len(s) : s[i] \in S => s[i].seq \in SeqsOf(Filter(s, S))
         /\ Once(s) =>
              /\ Once(Filter(s, S))
              /\ \A i \in 1..Len(s) : s[i].seq \in SeqsOf(Filter(s, S)) => s[i] \in S
         /\ AllFit(s) => AllFit(Filter(s, S))
<1> DEFINE t == Filter(s, S)
<1>1. /\ t \in Seq(Pending) /\ Len(s) \in Nat /\ Len(t) \in Nat
      /\ \E pos \in [1..Len(t) -> 1..Len(s)] : Embeds(pos, t, s, Len(s), S)
  BY FilterFacts
<1> HIDE DEF t
<1>2. PICK pos \in [1..Len(t) -> 1..Len(s)] : Embeds(pos, t, s, Len(s), S)
  BY <1>1
<1>3. /\ \A k \in 1..Len(t) : /\ pos[k] \in 1..Len(s)
                              /\ t[k] = s[pos[k]] /\ s[pos[k]] \in S
      /\ \A k, l \in 1..Len(t) : k < l => pos[k] < pos[l]
      /\ \A i \in 1..Len(s) : s[i] \in S => \E k \in 1..Len(t) : pos[k] = i
  BY <1>2 DEF Embeds
<1>4. \A k, l \in 1..Len(t) : pos[k] = pos[l] => k = l
  BY <1>1, <1>3
<1>5. SeqsOf(t) \subseteq SeqsOf(s)
  BY <1>3 DEF SeqsOf
<1>6. \A i \in 1..Len(s) : s[i] \in S => s[i].seq \in SeqsOf(t)
  BY <1>3 DEF SeqsOf
<1>7. ASSUME Once(s)
      PROVE  Once(t) /\ \A i \in 1..Len(s) : s[i].seq \in SeqsOf(t) => s[i] \in S
  <2>1. Once(t)
    BY <1>3, <1>4, <1>7 DEF Once
  <2>2. ASSUME NEW i \in 1..Len(s), s[i].seq \in SeqsOf(t) PROVE s[i] \in S
    <3>1. PICK k \in 1..Len(t) : t[k].seq = s[i].seq
      BY <2>2 DEF SeqsOf
    <3>2. pos[k] = i
      BY <1>3, <1>7, <3>1 DEF Once
    <3> QED
      BY <1>3, <3>2
  <2> QED
    BY <2>1, <2>2
<1>8. ASSUME AllFit(s) PROVE AllFit(t)
  BY <1>3, <1>8 DEF AllFit
<1> QED
  BY <1>1, <1>5, <1>6, <1>7, <1>8 DEF t

\* The invariant of the queue: nothing is held twice, nothing is held whose
\* number the replay guard has not consumed, and whatever is held passed the
\* gates when it came.
QueueInv == /\ hwm \in 0..MaxSeq
            /\ QueuesTyped /\ HeldApart
            /\ AllFit(batch) /\ AllFit(pending)

HeldNow == SeqsOf(batch) \cup SeqsOf(pending)

\* What a step says became of the commands, against what it does to the queue.
Accounts ==
  /\ settled' \subseteq [seq : SeqNo, what : Verdict]
  /\ \A r \in settled' : /\ r.seq > hwm \/ r.seq \in HeldNow
                         /\ r.seq <= hwm' /\ r.seq \notin HeldNow'
  /\ HeldNow \ HeldNow' \subseteq {r.seq : r \in settled'}

\* A number above the replay guard's is not held.
LEMMA FreshIsNotHeld ==
  ASSUME QueueInv, NEW n \in SeqNo, n > hwm
  PROVE  n \notin SeqsOf(batch) /\ n \notin SeqsOf(pending) /\ n \in 0..MaxSeq
  BY BoundsAreNat DEF QueueInv, HeldApart, SeqNo

\* The queue's numbers are below any fresh one.
LEMMA HeldBelow ==
  ASSUME QueueInv, NEW n \in SeqNo, n > hwm
  PROVE  \A m \in SeqsOf(batch) \cup SeqsOf(pending) : m <= n
<1>1. \A m \in SeqsOf(batch) \cup SeqsOf(pending) : m \in SeqNo /\ m <= hwm
  BY QueueTyped DEF QueueInv, QueuesTyped, HeldApart, SeqsOf
<1> QED
  BY <1>1, BoundsAreNat DEF QueueInv, SeqNo

\* The empty queue.
LEMMA EmptyQueue ==
  /\ << >> \in Seq(Pending) /\ SeqsOf(<< >>) = {} /\ Once(<< >>) /\ AllFit(<< >>)
<1>1. /\ << >> \in Seq(Pending) /\ Len(<< >>) = 0
      /\ \A i \in 1..0 : FALSE
  OBVIOUS
<1> QED
  BY <1>1 DEF SeqsOf, Once, AllFit

\* Every move keeps the queue's invariant, and its accounts are right.
LEMMA MovesKeep ==
  ASSUME QueueInv, QueueMove
  PROVE  QueueInv' /\ Accounts
<1>0. /\ pending \in Seq(Pending) /\ batch \in Seq(Pending)
      /\ Once(batch) /\ Once(pending) /\ Apart(batch, pending)
      /\ AllFit(batch) /\ AllFit(pending) /\ hwm \in 0..MaxSeq
  BY DEF QueueInv, QueuesTyped, HeldApart
<1>b. SeqsOf(batch) \subseteq SeqNo /\ SeqsOf(pending) \subseteq SeqNo
  BY <1>0, QueueTyped DEF SeqsOf
<1>h. \A n \in SeqsOf(batch) \cup SeqsOf(pending) : n <= hwm
  BY DEF QueueInv, HeldApart
<1>1. CASE Ignored
  <2>1. SeqsOf(batch)' = SeqsOf(batch) /\ SeqsOf(pending)' = SeqsOf(pending)
    BY <1>1 DEF Ignored, SeqsOf
  <2>2. Accounts
    BY <1>1, <2>1 DEF Ignored, Accounts, HeldNow
  <2>3. /\ batch' \in Seq(Pending) /\ Once(batch') /\ AllFit(batch')
        /\ pending' \in Seq(Pending) /\ Once(pending') /\ AllFit(pending')
        /\ SeqsOf(batch') = SeqsOf(batch) /\ SeqsOf(pending') = SeqsOf(pending)
    BY <1>0, <1>1 DEF Ignored
  <2>4. QueueInv'
    BY <1>0, <1>1, <1>h, <2>3 DEF Ignored, QueueInv, QueuesTyped, HeldApart, Apart
  <2> QED
    BY <2>2, <2>4
<1>2. CASE Answered
  <2>1. PICK n \in SeqNo, v \in Verdict :
          /\ n > hwm /\ hwm' = n
          /\ batch' = batch /\ pending' = pending
          /\ settled' = {[seq |-> n, what |-> v]}
    BY <1>2 DEF Answered
  <2>2. /\ n \notin SeqsOf(batch) /\ n \notin SeqsOf(pending) /\ n \in 0..MaxSeq
        /\ \A m \in SeqsOf(batch) \cup SeqsOf(pending) : m <= n
        /\ n <= n
    BY <2>1, FreshIsNotHeld, HeldBelow DEF SeqNo
  <2>3. SeqsOf(batch') = SeqsOf(batch) /\ SeqsOf(pending') = SeqsOf(pending)
    BY <2>1
  <2>4. Accounts
    BY <2>1, <2>2, <2>3 DEF Accounts, HeldNow
  <2>5. QueueInv'
    BY <1>0, <2>1, <2>2, <2>3 DEF QueueInv, QueuesTyped, HeldApart
  <2> QED
    BY <2>4, <2>5
<1>3. CASE Enqueued
  <2>1. PICK c \in Commands, n \in SeqNo :
          /\ n > hwm /\ hwm' = n
          /\ batch' = batch /\ pending' = Append(pending, [cmd |-> c, seq |-> n])
          /\ Fit([cmd |-> c, seq |-> n])
          /\ settled' = {}
    BY <1>3 DEF Enqueued
  <2> DEFINE p == [cmd |-> c, seq |-> n]
  <2>2. p \in Pending /\ p.seq = n
    BY DEF Pending
  <2>3. /\ n \notin SeqsOf(batch) /\ n \notin SeqsOf(pending) /\ n \in 0..MaxSeq
        /\ \A m \in SeqsOf(batch) \cup SeqsOf(pending) : m <= n
        /\ n <= n
    BY <2>1, FreshIsNotHeld, HeldBelow DEF SeqNo
  <2>e. Fit(p) /\ pending' = Append(pending, p)
    BY <2>1
  <2> HIDE DEF p
  <2>4. /\ pending' \in Seq(Pending) /\ Once(pending') /\ AllFit(pending')
        /\ SeqsOf(pending') = SeqsOf(pending) \cup {n}
    BY <1>0, <2>2, <2>3, <2>e, AppendSeqs
  <2>5. SeqsOf(batch') = SeqsOf(batch)
    BY <2>1
  <2>6. Accounts
    BY <2>1, <2>4, <2>5 DEF Accounts, HeldNow
  <2>7. QueueInv'
    BY <1>0, <2>1, <2>3, <2>4, <2>5 DEF QueueInv, QueuesTyped, HeldApart, Apart
  <2> QED
    BY <2>6, <2>7
<1>4. CASE Cancels
  <2>1. PICK c \in Commands, n \in SeqNo :
          n > hwm /\ hwm' = n /\ batch' = batch /\ Cancel(c, n)
    BY <1>4 DEF Cancels
  <2> DEFINE S == {p \in Pending : p.cmd.action_id # c.action_id}
  <2>2. /\ n \notin SeqsOf(batch) /\ n \notin SeqsOf(pending) /\ n \in 0..MaxSeq
        /\ \A m \in SeqsOf(batch) \cup SeqsOf(pending) : m <= n
        /\ n <= n
    BY <2>1, FreshIsNotHeld, HeldBelow DEF SeqNo
  <2>3. pending' = Filter(pending, S)
    BY <2>1 DEF Cancel
  <2>4. /\ DOMAIN pending = 1..Len(pending)
        /\ \A i \in 1..Len(pending) : pending[i] \in Pending /\ pending[i].seq \in SeqNo
    BY <1>0, QueueTyped
  <2>5. settled' = {[seq |-> n, what |-> "done"]} \cup
           {[seq |-> pending[i].seq, what |-> "refused"] : i \in Cancelled(c)}
    BY <2>1 DEF Cancel
  <2>6. Cancelled(c) = {i \in 1..Len(pending) : pending[i] \notin S}
    BY <2>4 DEF Cancelled
  <2> HIDE DEF S
  <2>7. /\ pending' \in Seq(Pending) /\ Once(pending') /\ AllFit(pending')
        /\ SeqsOf(pending') \subseteq SeqsOf(pending)
        /\ \A i \in 1..Len(pending) :
             pending[i] \in S <=> pending[i].seq \in SeqsOf(pending')
    BY <1>0, <2>3, FilterSeqs
  <2>8. SeqsOf(batch') = SeqsOf(batch)
    BY <2>1
  <2>9. ASSUME NEW r \in settled'
        PROVE  /\ r \in [seq : SeqNo, what : Verdict]
               /\ r.seq > hwm \/ r.seq \in HeldNow
               /\ r.seq <= hwm' /\ r.seq \notin HeldNow'
    <3>1. CASE r = [seq |-> n, what |-> "done"]
      BY <2>1, <2>2, <2>7, <2>8, <3>1 DEF HeldNow, Verdict
    <3>2. CASE \E i \in Cancelled(c) : r = [seq |-> pending[i].seq, what |-> "refused"]
      <4>1. PICK i \in 1..Len(pending) :
              pending[i] \notin S /\ r = [seq |-> pending[i].seq, what |-> "refused"]
        BY <2>6, <3>2
      <4>2. r.seq \in SeqsOf(pending) /\ r.seq \notin SeqsOf(pending')
        BY <2>7, <4>1 DEF SeqsOf
      <4>3. r.seq \notin SeqsOf(batch)
        BY <1>0, <4>2 DEF Apart
      <4>4. r \in [seq : SeqNo, what : Verdict]
        BY <2>4, <4>1 DEF Verdict
      <4> QED
        BY <2>1, <2>2, <2>8, <4>2, <4>3, <4>4 DEF HeldNow
    <3> QED
      BY <2>5, <3>1, <3>2
  <2>10. ASSUME NEW m \in HeldNow \ HeldNow' PROVE m \in {r.seq : r \in settled'}
    <3>1. m \in SeqsOf(pending) /\ m \notin SeqsOf(pending')
      BY <2>8, <2>10 DEF HeldNow
    <3>2. PICK i \in 1..Len(pending) : pending[i].seq = m
      BY <3>1 DEF SeqsOf
    <3>3. i \in Cancelled(c)
      BY <2>6, <2>7, <3>1, <3>2
    <3>4. [seq |-> m, what |-> "refused"] \in settled'
      BY <2>5, <3>2, <3>3
    <3> QED
      BY <3>4
  <2>11. Accounts
    BY <2>9, <2>10 DEF Accounts
  <2>12. QueueInv'
    BY <1>0, <2>1, <2>2, <2>7, <2>8 DEF QueueInv, QueuesTyped, HeldApart, Apart
  <2> QED
    BY <2>11, <2>12
<1>5. CASE Takes
  <2>1. /\ SeqsOf(batch) = {} /\ SeqsOf(pending') = {}
        /\ SeqsOf(batch') = SeqsOf(pending)
        /\ pending' \in Seq(Pending) /\ Once(pending') /\ AllFit(pending')
        /\ batch' \in Seq(Pending) /\ Once(batch') /\ AllFit(batch')
    BY <1>0, <1>5, EmptyQueue DEF Takes
  <2>2. Accounts
    BY <1>5, <2>1 DEF Takes, Accounts, HeldNow
  <2>3. QueueInv'
    BY <1>0, <1>5, <1>h, <2>1 DEF Takes, QueueInv, QueuesTyped, HeldApart, Apart
  <2> QED
    BY <2>2, <2>3
<1>6. CASE Settles
  <2>1. PICK v \in Verdict :
          /\ hwm' = hwm /\ batch # << >> /\ batch' = Tail(batch) /\ pending' = pending
          /\ settled' = {[seq |-> Head(batch).seq, what |-> v]}
    BY <1>6 DEF Settles
  <2> DEFINE n == Head(batch).seq
  <2>2. /\ SeqsOf(batch) = {n} \cup SeqsOf(batch') /\ n \notin SeqsOf(batch')
        /\ batch' \in Seq(Pending) /\ Once(batch') /\ AllFit(batch')
        /\ n \in SeqNo
    BY <1>0, <2>1, TailSeqs DEF Pending
  <2>3. settled' = {[seq |-> n, what |-> v]}
    BY <2>1
  <2> HIDE DEF n
  <2>4. SeqsOf(pending') = SeqsOf(pending) /\ n \notin SeqsOf(pending)
    BY <1>0, <2>1, <2>2 DEF Apart
  <2>5. Accounts
    BY <1>h, <2>1, <2>2, <2>3, <2>4 DEF Accounts, HeldNow
  <2>6. QueueInv'
    BY <1>0, <1>h, <2>1, <2>2, <2>4 DEF QueueInv, QueuesTyped, HeldApart, Apart
  <2> QED
    BY <2>5, <2>6
<1>7. CASE PutsBack
  <2> DEFINE p == Head(batch)
  <2>1. /\ hwm' = hwm /\ batch' = Tail(batch) /\ pending' = Append(pending, p)
        /\ settled' = {} /\ batch # << >>
    BY <1>7 DEF PutsBack
  <2>2. /\ SeqsOf(batch) = {p.seq} \cup SeqsOf(batch') /\ p.seq \notin SeqsOf(batch')
        /\ batch' \in Seq(Pending) /\ Once(batch') /\ AllFit(batch')
        /\ p \in Pending /\ Fit(p)
    BY <1>0, <2>1, TailSeqs
  <2> HIDE DEF p
  <2>3. p.seq \notin SeqsOf(pending)
    BY <1>0, <2>2 DEF Apart
  <2>4. /\ pending' \in Seq(Pending) /\ Once(pending') /\ AllFit(pending')
        /\ SeqsOf(pending') = SeqsOf(pending) \cup {p.seq}
    BY <1>0, <2>1, <2>2, <2>3, AppendSeqs
  <2>5. Accounts
    BY <2>1, <2>2, <2>4 DEF Accounts, HeldNow
  <2>6. QueueInv'
    BY <1>0, <1>h, <2>1, <2>2, <2>4 DEF QueueInv, QueuesTyped, HeldApart, Apart
  <2> QED
    BY <2>5, <2>6
<1> QED
  BY <1>1, <1>2, <1>3, <1>4, <1>5, <1>6, <1>7 DEF QueueMove

(***************************************************************************)
(* The bridge: what a step does to the records and the hosts.              *)
(***************************************************************************)

\* A draft is stored and previewed in one call, under an id that has no record.
Previewed(c) ==
  /\ c.kind = "Draft" /\ AcceptsDraft(c)
  /\ action' = [action EXCEPT ![c.action_id] = c.body]
  /\ applied' = [applied EXCEPT ![c.action_id] = {}]
  /\ SetState(c.action_id, {"Drafted", "DryRun"}, "DryRun", c.actor)
  /\ host' = host /\ ret' = "Ok"

\* Any other command is one call of the bridge.
Carries(c) ==
  \/ c.kind = "Submit" /\ SubmitForApproval(c.action_id, c.actor)
  \/ c.kind = "Approve" /\ Approve(c.action_id, c.actor)
  \/ c.kind = "Reject" /\ Reject(c.action_id, c.actor)
  \/ c.kind = "Abort" /\ Abort(c.action_id, c.actor)
  \/ RunStage(c)

\* Nothing happens to the bridge but the result of the last call.
Untouched == /\ UNCHANGED <<action, state, applied, host, by>>
             /\ ret' \in {"none", "Ok", "Err"}

\* The one error that leaves something changed: some targets are not reverted.
HalfReverted(id) ==
  state[id] \in RollbackFrom /\ state'[id] = "RollbackIncomplete"

\* The parts of a command.
LEMMA CommandParts ==
  ASSUME NEW c \in Commands
  PROVE  /\ c.action_id \in ActionId /\ c.actor \in Actor
         /\ c.kind = "Draft" => c.body \in Drafts
         /\ RoleOf[c.actor] \in Role \cup {"none"}
  BY CommandsTyped, RolesKnown DEF ControlCommand

\* A command that is not a draft is a call of a public method.
LEMMA CarriesIsCall ==
  ASSUME NEW c \in Commands, Carries(c)
  PROVE  Call(c.action_id, c.actor)
  BY DEF Carries, RunStage, Call

\* A call that reports an error has changed nothing, or half reverted its action.
LEMMA ErrorChangesNothing ==
  ASSUME BridgeTypeOK, NEW c \in Commands, Carries(c)
  PROVE  \/ ret' = "Ok"
         \/ ret' = "Err" /\ Untouched
         \/ ret' = "Err" /\ HalfReverted(c.action_id)
<1> DEFINE id == c.action_id
           actor == c.actor
<1>0. id \in ActionId /\ actor \in Actor
  BY CommandParts
<1> HIDE DEF id, actor
<1>1. ASSUME NEW allowed, NEW to, Guarded(id, allowed, to, actor)
      PROVE  ret' = "Ok" \/ (ret' = "Err" /\ Untouched)
  BY <1>1 DEF Guarded, Answer, Refuse, Untouched
<1>2. CASE \/ SubmitForApproval(id, actor) \/ Approve(id, actor)
           \/ Reject(id, actor) \/ Abort(id, actor)
  BY <1>1, <1>2 DEF SubmitForApproval, Approve, Reject, Abort
<1>3. CASE RunCanary(id, actor)
  BY <1>3 DEF RunCanary, CanaryStage, Answer, Refuse, Untouched
<1>4. CASE RunRollout(id, actor)
  BY <1>4 DEF RunRollout, RolloutStage, Answer, Refuse, Untouched
<1>5. CASE RunRollback(id, actor)
  <2>1. CASE state[id] \notin RollbackFrom
    BY <1>5, <2>1 DEF RunRollback, Answer, Refuse, Untouched
  <2>2. CASE state[id] \in RollbackFrom
    <3>1. \/ ret' = "Ok"
          \/ /\ ret' = "Err"
             /\ SetState(id, {"RollbackIncomplete"}, "RollbackIncomplete", actor)
      BY <1>5, <2>2 DEF RunRollback, RollbackStage, Answer
    <3> QED
      BY <1>0, <2>2, <3>1, SetStateEffect DEF HalfReverted, id
  <2> QED
    BY <2>1, <2>2
<1> QED
  BY <1>2, <1>3, <1>4, <1>5 DEF Carries, RunStage, id, actor

\* What the last step says it carried out, when it reports one command.
LEMMA OneCarriedOut ==
  ASSUME NEW n, NEW v, v # "refused", settled' = {[seq |-> n, what |-> v]}
  PROVE  Cardinality(CarriedOut') = 1
<1>1. {x \in settled' : x.what # "refused"} = {[seq |-> n, what |-> v]}
  OBVIOUS
<1>2. CarriedOut' = {n}
  <2> DEFINE rec == [seq |-> n, what |-> v]
  <2>1. rec.seq = n
    OBVIOUS
  <2>2. CarriedOut' = {r.seq : r \in {x \in settled' : x.what # "refused"}}
    BY DEF CarriedOut
  <2>3. {x \in settled' : x.what # "refused"} = {rec}
    BY <1>1
  <2> HIDE DEF rec
  <2> QED
    BY <2>1, <2>2, <2>3
<1> QED
  BY <1>2, FS_Singleton

\* A step touches the bridge only for an authorized command, and says so, except
\* when a rollback has failed again.
Driven ==
  \E c \in Commands :
    /\ Authorized(c)
    /\ Previewed(c) \/ Carries(c)
    /\ Cardinality(CarriedOut') = 1 \/ HalfReverted(c.action_id)

\* What a handler does to the bridge.
LEMMA HandleDrives ==
  ASSUME BridgeTypeOK, NEW c \in Commands, NEW n, Authorized(c), Handle(c, n)
  PROVE  /\ Untouched \/ Driven
         /\ reply' = "Rejected" => \/ Untouched /\ pending' = pending
                                   \/ HalfReverted(c.action_id)
<1> DEFINE Goal == /\ Untouched \/ Driven
                   /\ reply' = "Rejected" => \/ Untouched /\ pending' = pending
                                             \/ HalfReverted(c.action_id)
<1>1. ASSUME Rejected, Report({n}, "refused") PROVE Goal
  BY <1>1 DEF Rejected, Untouched, Answer
<1>2. ASSUME Carries(c), Outcome(n), pending' = pending PROVE Goal
  <2>1. CASE ret' = "Ok"
    <3>1. reply' = "Applied" /\ settled' = {[seq |-> n, what |-> "done"]}
      BY <1>2, <2>1, Reports DEF Outcome
    <3>2. Cardinality(CarriedOut') = 1
      BY <3>1, OneCarriedOut
    <3> QED
      BY <1>2, <3>1, <3>2 DEF Driven
  <2>2. CASE ret' = "Err" /\ Untouched
    BY <1>2, <2>2
  <2>3. CASE ret' = "Err" /\ HalfReverted(c.action_id)
    BY <1>2, <2>3 DEF Driven
  <2> QED
    BY <1>2, <2>1, <2>2, <2>3, ErrorChangesNothing
<1>3. CASE c.kind = "Draft" /\ HandleDraft(c, n)
  <2>1. CASE AcceptsDraft(c) /\ DraftAndPreview(c, n)
    <3>1. Previewed(c) /\ reply' = "Applied"
      BY <1>3, <2>1 DEF DraftAndPreview, Previewed, Answer
    <3>2. Cardinality(CarriedOut') = 1
      BY <2>1, Reports, OneCarriedOut DEF DraftAndPreview
    <3> QED
      BY <3>1, <3>2 DEF Driven
  <2> QED
    BY <1>1, <1>3, <2>1 DEF HandleDraft
<1>4. CASE HandleFresh(c, n)
  BY <1>2, <1>4 DEF HandleFresh, Carries
<1>5. CASE c.kind = "Abort" /\ HandleAbort(c, n)
  <2>0. Carries(c)
    BY <1>5 DEF HandleAbort, Carries
  <2>1. CASE ret' = "Ok" /\ reply' = "Applied" /\ Cancel(c, n)
    <3>1. CarriedOut' = {n}
      <4>1. \A r \in settled' : r.what # "refused" => r.seq = n
        BY <2>1 DEF Cancel
      <4>2. [seq |-> n, what |-> "done"] \in settled'
        BY <2>1 DEF Cancel
      <4> QED
        BY <4>1, <4>2 DEF CarriedOut
    <3>2. Cardinality(CarriedOut') = 1
      BY <3>1, FS_Singleton
    <3> QED
      BY <2>0, <2>1, <3>2 DEF Driven
  <2>2. CASE ret' = "Err" /\ pending' = pending
    <3>1. Untouched
      BY <1>5, <2>2 DEF HandleAbort, Abort, Guarded, Answer, Refuse, Untouched
    <3> QED
      BY <2>2, <3>1
  <2> QED
    BY <1>5, <2>1, <2>2 DEF HandleAbort
<1>6. CASE c.kind \in Execution /\ ExecuteFresh(c, n)
  BY <1>2, <1>6 DEF ExecuteFresh, Carries
<1>7. CASE c.kind \in Execution /\ Enqueue(c, n)
  <2>1. CASE Rejected /\ Report({n}, "refused")
    BY <1>1, <2>1
  <2>2. CASE reply' = "Applied" /\ UNCHANGED bridgeVars
    BY <2>2 DEF bridgeVars, Untouched, BridgeTypeOK
  <2> QED
    BY <1>7, <2>1, <2>2 DEF Enqueue
<1> QED
  BY <1>3, <1>4, <1>5, <1>6, <1>7 DEF Handle

\* What a step of the loop does to the bridge.
LEMMA LoopDrives ==
  ASSUME BridgeTypeOK, QueueInv, LoopNext
  PROVE  /\ Untouched \/ Driven
         /\ reply' = "Rejected" => \/ Untouched /\ pending' = pending
                                   \/ \E id \in ActionId : HalfReverted(id)
<1>0. ret \in {"none", "Ok", "Err"}
  BY DEF BridgeTypeOK
<1>1. CASE ServeOne
  <2>1. CASE Rejected
    BY <2>1 DEF Rejected, Untouched, Answer
  <2>2. ASSUME NEW c \in Commands, NEW n \in SeqNo, Authorized(c), Handle(c, n)
        PROVE  /\ Untouched \/ Driven
               /\ reply' = "Rejected" => \/ Untouched /\ pending' = pending
                                         \/ \E id \in ActionId : HalfReverted(id)
    BY <2>2, HandleDrives, CommandParts
  <2> QED
    BY <1>1, <2>1, <2>2 DEF ServeOne, Gated
<1>2. CASE TickBegin \/ ClockAdvance
  BY <1>0, <1>2 DEF TickBegin, ClockAdvance, bridgeVars, Untouched
<1>3. CASE TickStep
  <2>0. batch # << >> /\ reply' = "none"
    BY <1>3 DEF TickStep
  <2>1. CASE DropExpired(Head(batch)) \/ KeepEarly(Head(batch))
    BY <1>0, <2>0, <2>1 DEF DropExpired, KeepEarly, bridgeVars, Untouched
  <2>2. CASE Release(Head(batch))
    <3> DEFINE c == Head(batch).cmd
               n == Head(batch).seq
    <3>1. c \in Commands /\ Authorized(c)
      BY <2>0, TailSeqs DEF QueueInv, QueuesTyped, Pending, Fit
    <3>2. /\ RunStage(c)
          /\ Report({n}, IF ret' = "Ok" THEN "done"
                         ELSE IF state'[c.action_id] # state[c.action_id] THEN "failed"
                         ELSE "refused")
      BY <2>2 DEF Release
    <3> HIDE DEF c, n
    <3>3. Carries(c)
      BY <3>2 DEF Carries
    <3>4. CASE ret' = "Ok"
      <4>1. settled' = {[seq |-> n, what |-> "done"]}
        BY <3>2, <3>4, Reports
      <4> QED
        BY <2>0, <3>1, <3>3, <4>1, OneCarriedOut DEF Driven
    <3>5. CASE ret' = "Err" /\ HalfReverted(c.action_id)
      BY <2>0, <3>1, <3>3, <3>5 DEF Driven
    <3> QED
      BY <2>0, <3>1, <3>3, <3>4, <3>5, ErrorChangesNothing
  <2> QED
    BY <1>3, <2>1, <2>2 DEF TickStep
<1> QED
  BY <1>1, <1>2, <1>3 DEF LoopNext

\* What Role::permits gives each role.
LEMMA RolesOf ==
  ASSUME NEW c \in Commands, Authorized(c)
  PROVE  /\ c.kind \in {"Draft", "Submit"} \cup Execution
              => RoleOf[c.actor] \in {"Operator", "Admin"}
         /\ c.kind = "Approve" => RoleOf[c.actor] \in {"Approver", "Admin"}
  BY DEF Authorized, Permits, Execution

\* A stored draft, in the record and on the audit trail.
LEMMA PreviewEffect ==
  ASSUME BridgeTypeOK, NEW c \in Commands, Previewed(c)
  PROVE  LET id == c.action_id IN
         /\ id \in ActionId /\ c.actor \in Actor
         /\ state[id] = Absent /\ state'[id] = "DryRun"
         /\ action'[id] = c.body /\ c.body \in Drafts /\ IsScoped(c.body)
         /\ applied'[id] = {} /\ host' = host
         /\ by' \in [ActionId -> [ActionState -> Actor \cup {NoActor}]]
         /\ \A s \in ActionState :
              by'[id][s] = IF s \in {"Drafted", "DryRun"} THEN c.actor ELSE by[id][s]
         /\ \A i \in ActionId : i # id =>
              /\ action'[i] = action[i] /\ state'[i] = state[i]
              /\ applied'[i] = applied[i] /\ by'[i] = by[i]
<1> DEFINE id == c.action_id
<1>0. id \in ActionId /\ c.actor \in Actor /\ c.body \in Drafts
  BY CommandParts DEF Previewed
<1>1. /\ state[id] = Absent /\ IsScoped(c.body) /\ host' = host
      /\ SetState(id, {"Drafted", "DryRun"}, "DryRun", c.actor)
      /\ action' = [action EXCEPT ![id] = c.body]
      /\ applied' = [applied EXCEPT ![id] = {}]
  BY DEF Previewed, AcceptsDraft
<1> HIDE DEF id
<1>2. /\ state'[id] = "DryRun"
      /\ \A s \in ActionState :
           by'[id][s] = IF s \in {"Drafted", "DryRun"} THEN c.actor ELSE by[id][s]
  BY <1>0, <1>1, SetStateEffect
<1>3. action'[id] = c.body /\ applied'[id] = {}
  BY <1>0, <1>1 DEF BridgeTypeOK
<1>4. \A i \in ActionId : i # id =>
        /\ action'[i] = action[i] /\ state'[i] = state[i]
        /\ applied'[i] = applied[i] /\ by'[i] = by[i]
  BY <1>0, <1>1 DEF BridgeTypeOK, SetState
<1>5. by' \in [ActionId -> [ActionState -> Actor \cup {NoActor}]]
  BY <1>0, <1>1 DEF BridgeTypeOK, SetState
<1> QED
  BY <1>0, <1>1, <1>2, <1>3, <1>4, <1>5 DEF id

\* A stored draft keeps the bridge's invariant.
LEMMA PreviewInv ==
  ASSUME BridgeInv, NEW c \in Commands, Previewed(c)
  PROVE  BridgeInv'
<1> DEFINE id == c.action_id
<1>0. BridgeTypeOK /\ GateChain /\ NothingAppliedYet /\ LedgerHonest /\ WithinThreshold
  BY DEF BridgeInv
<1>1. /\ id \in ActionId /\ c.actor \in Actor
      /\ state[id] = Absent /\ state'[id] = "DryRun"
      /\ action'[id] = c.body /\ c.body \in Drafts /\ IsScoped(c.body)
      /\ applied'[id] = {} /\ host' = host
      /\ by' \in [ActionId -> [ActionState -> Actor \cup {NoActor}]]
      /\ \A s \in ActionState :
           by'[id][s] = IF s \in {"Drafted", "DryRun"} THEN c.actor ELSE by[id][s]
      /\ \A i \in ActionId : i # id =>
           /\ action'[i] = action[i] /\ state'[i] = state[i]
           /\ applied'[i] = applied[i] /\ by'[i] = by[i]
  BY <1>0, PreviewEffect
<1>2. /\ action' \in [ActionId -> Drafts \cup {NoDraft}]
      /\ state' \in [ActionId -> ActionState \cup {Absent}]
  BY <1>0, <1>1 DEF Previewed, SetState, BridgeTypeOK, ActionState
<1>3. applied' \in [ActionId -> SUBSET Asset]
  <2>1. applied \in [ActionId -> SUBSET Asset] /\ {} \in SUBSET Asset
    BY <1>0 DEF BridgeTypeOK
  <2>2. applied' = [applied EXCEPT ![id] = {}]
    BY DEF Previewed
  <2> QED
    BY <2>1, <2>2
<1> HIDE DEF id
<1>4. BridgeTypeOK'
  <2>1. host' \in [ActionId -> [Asset -> HostState]] /\ ret' = "Ok"
    BY <1>0, <1>1 DEF BridgeTypeOK, Previewed
  <2>2. \A i \in ActionId : IF state'[i] = Absent
                            THEN action'[i] = NoDraft /\ applied'[i] = {}
                            ELSE action'[i] \in Drafts /\ IsScoped(action'[i])
    BY <1>0, <1>1 DEF BridgeTypeOK, Absent
  <2> QED
    BY <1>1, <1>2, <1>3, <2>1, <2>2 DEF BridgeTypeOK
<1>5. GateChain'
  BY <1>0, <1>1 DEF GateChain, PostApproval, ActionState
<1>6. NothingAppliedYet' /\ LedgerHonest'
  BY <1>0, <1>1 DEF NothingAppliedYet, LedgerHonest
<1>7. WithinThreshold'
  BY <1>0, <1>1 DEF WithinThreshold
<1> QED
  BY <1>4, <1>5, <1>6, <1>7 DEF BridgeInv

\* So does every step of the loop.
LEMMA LoopBridgeInv ==
  ASSUME BridgeInv, Untouched \/ Driven
  PROVE  BridgeInv'
<1>1. CASE Untouched
  <2>1. BridgeTypeOK'
    BY <1>1 DEF Untouched, BridgeInv, BridgeTypeOK
  <2>2. GateChain' /\ NothingAppliedYet' /\ LedgerHonest'
    BY <1>1 DEF Untouched, BridgeInv, GateChain, NothingAppliedYet, LedgerHonest
  <2>3. WithinThreshold'
    BY <1>1 DEF Untouched, BridgeInv, WithinThreshold
  <2> QED
    BY <2>1, <2>2, <2>3 DEF BridgeInv
<1>2. ASSUME NEW c \in Commands, Carries(c) PROVE BridgeInv'
  <2>1. BridgeNext
    BY <1>2, CarriesIsCall, CommandParts DEF BridgeNext
  <2> QED
    BY <2>1, InvStep
<1> QED
  BY <1>1, <1>2, PreviewInv DEF Driven

\* The lifecycle as the loop drives it: the command, the states it may find the
\* action in, the states it enters and the last of them.
Transitions ==
  {<<"Draft", {Absent}, {"Drafted", "DryRun"}, "DryRun">>,
   <<"Submit", {"DryRun"}, {"PendingApproval"}, "PendingApproval">>,
   <<"Approve", {"PendingApproval"}, {"Approved"}, "Approved">>,
   <<"Reject", {"PendingApproval"}, {"Aborted"}, "Aborted">>,
   <<"Abort", {"Approved", "Canary", "CanaryVerify", "Rollout", "Verify"},
     {"Aborted"}, "Aborted">>,
   <<"Canary", {"Approved"}, {"Canary", "CanaryVerify", "Rollout"}, "Rollout">>,
   <<"Canary", {"Approved"}, {"Canary", "CanaryVerify", "RolledBack"}, "RolledBack">>,
   <<"Rollout", {"Rollout"}, {"Verify", "RolledBack"}, "RolledBack">>,
   <<"Rollout", {"Rollout"}, {"Verify", "Closed"}, "Closed">>,
   <<"Rollout", {"Rollout"}, {"Verify"}, "Verify">>,
   <<"Rollback", RollbackFrom, {"RolledBack"}, "RolledBack">>,
   <<"Rollback", RollbackFrom, {"RollbackIncomplete"}, "RollbackIncomplete">>}

Along(t, id, kind, actor) ==
  /\ kind = t[1] /\ state[id] \in t[2] /\ state'[id] = t[4]
  /\ \A s \in ActionState : by'[id][s] = IF s \in t[3] THEN actor ELSE by[id][s]

Moved(id, kind, actor) ==
  \/ state'[id] = state[id] /\ by'[id] = by[id]
  \/ \E t \in Transitions : Along(t, id, kind, actor)

\* A command moves its action along one transition, or not at all, and leaves the
\* other actions alone.
LEMMA DrivenMoves ==
  ASSUME BridgeTypeOK, NEW c \in Commands, Previewed(c) \/ Carries(c)
  PROVE  /\ Moved(c.action_id, c.kind, c.actor)
         /\ \A i \in ActionId : i # c.action_id =>
              /\ action'[i] = action[i] /\ state'[i] = state[i]
              /\ applied'[i] = applied[i] /\ host'[i] = host[i] /\ by'[i] = by[i]
<1> DEFINE id == c.action_id
           actor == c.actor
<1>0. id \in ActionId /\ actor \in Actor
  BY CommandParts
<1>1. CASE Previewed(c)
  <2>1. Along(<<"Draft", {Absent}, {"Drafted", "DryRun"}, "DryRun">>, id, c.kind, actor)
    BY <1>1, PreviewEffect DEF Along, Previewed
  <2>2. Moved(id, c.kind, actor)
    BY <2>1 DEF Moved, Transitions
  <2> QED
    BY <1>1, <2>2, PreviewEffect
<1>2. CASE Carries(c)
  <2>0. \A i \in ActionId : i # id =>
          /\ action'[i] = action[i] /\ state'[i] = state[i]
          /\ applied'[i] = applied[i] /\ host'[i] = host[i] /\ by'[i] = by[i]
    BY <1>0, <1>2, CarriesIsCall, Frame
  <2> HIDE DEF id, actor
  <2>1. ASSUME NEW t \in Transitions, c.kind = t[1], state[id] \in t[2],
               SetState(id, t[3], t[4], actor)
        PROVE  Moved(id, c.kind, actor)
    BY <1>0, <2>1, SetStateEffect DEF Moved, Along
  <2>2. ASSUME Refuse(id) PROVE Moved(id, c.kind, actor)
    BY <2>2 DEF Refuse, Moved
  <2>3. ASSUME NEW t \in Transitions, c.kind = t[1],
               t[3] = {t[4]}, Guarded(id, t[2], t[4], actor)
        PROVE  Moved(id, c.kind, actor)
    BY <2>1, <2>2, <2>3 DEF Guarded
  <2>4. ASSUME c.kind = "Submit", SubmitForApproval(id, actor)
        PROVE  Moved(id, c.kind, actor)
    <3> DEFINE t == <<"Submit", {"DryRun"}, {"PendingApproval"}, "PendingApproval">>
    <3>1. /\ t \in Transitions /\ t[1] = "Submit" /\ t[2] = {"DryRun"}
          /\ t[4] = "PendingApproval" /\ t[3] = {t[4]}
      BY DEF Transitions
    <3> HIDE DEF t
    <3> QED
      BY <2>3, <2>4, <3>1 DEF SubmitForApproval
  <2>5. ASSUME c.kind = "Approve", Approve(id, actor)
        PROVE  Moved(id, c.kind, actor)
    <3> DEFINE t == <<"Approve", {"PendingApproval"}, {"Approved"}, "Approved">>
    <3>1. /\ t \in Transitions /\ t[1] = "Approve" /\ t[2] = {"PendingApproval"}
          /\ t[4] = "Approved" /\ t[3] = {t[4]}
      BY DEF Transitions
    <3> HIDE DEF t
    <3> QED
      BY <2>3, <2>5, <3>1 DEF Approve
  <2>6. ASSUME c.kind = "Reject", Reject(id, actor)
        PROVE  Moved(id, c.kind, actor)
    <3> DEFINE t == <<"Reject", {"PendingApproval"}, {"Aborted"}, "Aborted">>
    <3>1. /\ t \in Transitions /\ t[1] = "Reject" /\ t[2] = {"PendingApproval"}
          /\ t[4] = "Aborted" /\ t[3] = {t[4]}
      BY DEF Transitions
    <3> HIDE DEF t
    <3> QED
      BY <2>3, <2>6, <3>1 DEF Reject
  <2>7. ASSUME c.kind = "Abort", Abort(id, actor)
        PROVE  Moved(id, c.kind, actor)
    <3> DEFINE from == {"Approved", "Canary", "CanaryVerify", "Rollout", "Verify"}
               t == <<"Abort", from, {"Aborted"}, "Aborted">>
    <3>1. /\ t \in Transitions /\ t[1] = "Abort" /\ t[2] = from
          /\ t[4] = "Aborted" /\ t[3] = {t[4]}
      BY DEF Transitions
    <3>2. Guarded(id, from, "Aborted", actor)
      BY <2>7 DEF Abort
    <3> HIDE DEF t, from
    <3> QED
      BY <2>3, <2>7, <3>1, <3>2
  <2>8. ASSUME c.kind = "Canary", RunCanary(id, actor)
        PROVE  Moved(id, c.kind, actor)
    <3>1. \/ Refuse(id)
          \/ /\ state[id] = "Approved"
             /\ \/ SetState(id, {"Canary", "CanaryVerify", "Rollout"}, "Rollout", actor)
                \/ SetState(id, {"Canary", "CanaryVerify", "RolledBack"},
                            "RolledBack", actor)
      BY <2>8 DEF RunCanary, CanaryStage
    <3> QED
      BY <1>0, <2>2, <2>8, <3>1, SetStateEffect DEF Moved, Along, Transitions
  <2>9. ASSUME c.kind = "Rollout", RunRollout(id, actor)
        PROVE  Moved(id, c.kind, actor)
    <3>1. \/ Refuse(id)
          \/ /\ state[id] = "Rollout"
             /\ \/ SetState(id, {"Verify", "RolledBack"}, "RolledBack", actor)
                \/ SetState(id, {"Verify", "Closed"}, "Closed", actor)
                \/ SetState(id, {"Verify"}, "Verify", actor)
      BY <2>9 DEF RunRollout, RolloutStage
    <3> QED
      BY <1>0, <2>2, <2>9, <3>1, SetStateEffect DEF Moved, Along, Transitions
  <2>10. ASSUME c.kind = "Rollback", RunRollback(id, actor)
        PROVE  Moved(id, c.kind, actor)
    <3>1. \/ Refuse(id)
          \/ /\ state[id] \in RollbackFrom
             /\ \/ SetState(id, {"RolledBack"}, "RolledBack", actor)
                \/ SetState(id, {"RollbackIncomplete"}, "RollbackIncomplete", actor)
      BY <2>10 DEF RunRollback, RollbackStage
    <3> QED
      BY <1>0, <2>2, <2>10, <3>1, SetStateEffect DEF Moved, Along, Transitions
  <2>11. Moved(id, c.kind, actor)
    BY <1>2, <2>4, <2>5, <2>6, <2>7, <2>8, <2>9, <2>10
       DEF Carries, RunStage, id, actor
  <2> QED
    BY <2>0, <2>11 DEF id, actor
<1> QED
  BY <1>1, <1>2

\* The states an action may have entered by the time it is in s.
Passed(s) ==
  LET reviewed == {"Drafted", "DryRun"}
      promoted == {"Drafted", "DryRun", "PendingApproval", "Approved", "Canary",
                   "CanaryVerify", "Rollout"}
  IN CASE s = Absent -> {}
       [] s = "DryRun" -> reviewed
       [] s = "PendingApproval" -> reviewed \cup {"PendingApproval"}
       [] s = "Approved" -> reviewed \cup {"PendingApproval", "Approved"}
       [] s = "Rollout" -> promoted
       [] s = "Verify" -> promoted \cup {"Verify"}
       [] s = "Closed" -> promoted \cup {"Verify", "Closed"}
       [] s = "RollbackIncomplete" ->
            promoted \cup {"Verify", "Closed", "RollbackIncomplete"}
       [] OTHER -> ActionState

\* The loop never leaves an action in the states it only passes through, and the
\* trail of an action has no state it has not passed.
PathTaken ==
  \A id \in ActionId :
    /\ state[id] \notin {"Drafted", "Mapped", "Canary", "CanaryVerify"}
    /\ \A s \in ActionState : by[id][s] # NoActor => s \in Passed(state[id])

\* The first half of SeparationOfDuties, which implies the second.
RolesTaken ==
  \A id \in ActionId :
    /\ \A s \in {"Drafted", "DryRun", "PendingApproval", "Canary", "Rollout"} :
         by[id][s] # NoActor => RoleOf[by[id][s]] \in {"Operator", "Admin"}
    /\ by[id]["Approved"] # NoActor =>
         RoleOf[by[id]["Approved"]] \in {"Approver", "Admin"}

\* A transition only enters states that were not entered before, except that a
\* rollback may fail again.
LEMMA AlongEntersNew ==
  ASSUME NEW t \in Transitions, NEW from \in t[2],
         from \notin {"Drafted", "Mapped", "Canary", "CanaryVerify"}
  PROVE  /\ t[3] \cap Passed(from) \subseteq {"RollbackIncomplete"}
         /\ Passed(from) \cap ActionState \subseteq Passed(t[4])
         /\ t[3] \subseteq Passed(t[4])
         /\ t[4] \notin {"Drafted", "Mapped", "Canary", "CanaryVerify", "Absent"}
         /\ from # "Aborted"
  BY DEF Transitions, Passed, RollbackFrom, ActionState, Absent

\* A step touches the trail of an action only along a transition of the lifecycle,
\* for a command that was authorized.
LEMMA TrailStep ==
  ASSUME BridgeTypeOK, Untouched \/ Driven, NEW id \in ActionId
  PROVE  \/ state'[id] = state[id] /\ by'[id] = by[id]
         \/ \E c \in Commands, t \in Transitions :
              Authorized(c) /\ Along(t, id, c.kind, c.actor)
<1>1. CASE Untouched
  BY <1>1 DEF Untouched
<1>2. ASSUME NEW c \in Commands, Authorized(c), Previewed(c) \/ Carries(c)
      PROVE  \/ state'[id] = state[id] /\ by'[id] = by[id]
             \/ \E t \in Transitions : Along(t, id, c.kind, c.actor)
  <2>1. CASE id = c.action_id
    BY <1>2, <2>1, DrivenMoves DEF Moved
  <2>2. CASE id # c.action_id
    BY <1>2, <2>2, DrivenMoves
  <2> QED
    BY <2>1, <2>2
<1> QED
  BY <1>1, <1>2 DEF Driven

\* Every step of the loop keeps the path an action has taken, and enters no state
\* twice.
LEMMA PathStep ==
  ASSUME BridgeTypeOK, PathTaken, Untouched \/ Driven
  PROVE  /\ PathTaken'
         /\ \A id \in ActionId, s \in ActionState \ {"RollbackIncomplete"} :
              by[id][s] # NoActor => by'[id][s] = by[id][s]
<1> SUFFICES ASSUME NEW id \in ActionId
             PROVE  /\ state'[id] \notin {"Drafted", "Mapped", "Canary", "CanaryVerify"}
                    /\ \A s \in ActionState : by'[id][s] # NoActor => s \in Passed(state'[id])
                    /\ \A s \in ActionState \ {"RollbackIncomplete"} :
                         by[id][s] # NoActor => by'[id][s] = by[id][s]
  BY DEF PathTaken
<1>1. /\ state[id] \notin {"Drafted", "Mapped", "Canary", "CanaryVerify"}
      /\ \A s \in ActionState : by[id][s] # NoActor => s \in Passed(state[id])
  BY DEF PathTaken
<1>2. CASE state'[id] = state[id] /\ by'[id] = by[id]
  BY <1>1, <1>2
<1>3. ASSUME NEW c \in Commands, NEW t \in Transitions, Along(t, id, c.kind, c.actor)
      PROVE  /\ state'[id] \notin {"Drafted", "Mapped", "Canary", "CanaryVerify"}
             /\ \A s \in ActionState : by'[id][s] # NoActor => s \in Passed(state'[id])
             /\ \A s \in ActionState \ {"RollbackIncomplete"} :
                  by[id][s] # NoActor => by'[id][s] = by[id][s]
  <2>1. /\ state[id] \in t[2] /\ state'[id] = t[4]
        /\ \A s \in ActionState : by'[id][s] = IF s \in t[3] THEN c.actor ELSE by[id][s]
    BY <1>3 DEF Along
  <2>2. /\ t[3] \cap Passed(state[id]) \subseteq {"RollbackIncomplete"}
        /\ Passed(state[id]) \cap ActionState \subseteq Passed(t[4])
        /\ t[3] \subseteq Passed(t[4])
        /\ t[4] \notin {"Drafted", "Mapped", "Canary", "CanaryVerify"}
    BY <1>1, <2>1, AlongEntersNew
  <2> QED
    BY <1>1, <2>1, <2>2
<1> QED
  BY <1>2, <1>3, TrailStep

\* What each transition stamps, and what its command is.
LEMMA StampedBy ==
  ASSUME NEW t \in Transitions
  PROVE  /\ t[3] \cap {"Drafted", "DryRun", "PendingApproval", "Canary", "Rollout"} # {}
              => t[1] \in {"Draft", "Submit"} \cup Execution
         /\ "Approved" \in t[3] => t[1] = "Approve"
  BY DEF Transitions, Execution

\* Every step of the loop keeps the roles on the trail.
LEMMA RolesStep ==
  ASSUME BridgeTypeOK, RolesTaken, Untouched \/ Driven
  PROVE  RolesTaken'
<1> DEFINE Mine == {"Drafted", "DryRun", "PendingApproval", "Canary", "Rollout"}
<1>0. Mine \subseteq ActionState /\ "Approved" \in ActionState
  BY DEF ActionState
<1> SUFFICES ASSUME NEW id \in ActionId
             PROVE  /\ \A s \in Mine : by'[id][s] # NoActor =>
                         RoleOf[by'[id][s]] \in {"Operator", "Admin"}
                    /\ by'[id]["Approved"] # NoActor =>
                         RoleOf[by'[id]["Approved"]] \in {"Approver", "Admin"}
  BY DEF RolesTaken
<1>1. /\ \A s \in Mine : by[id][s] # NoActor =>
           RoleOf[by[id][s]] \in {"Operator", "Admin"}
      /\ by[id]["Approved"] # NoActor =>
           RoleOf[by[id]["Approved"]] \in {"Approver", "Admin"}
  BY DEF RolesTaken
<1>2. CASE by'[id] = by[id]
  BY <1>1, <1>2
<1>3. ASSUME NEW c \in Commands, NEW t \in Transitions,
             Authorized(c), Along(t, id, c.kind, c.actor)
      PROVE  /\ \A s \in Mine : by'[id][s] # NoActor =>
                  RoleOf[by'[id][s]] \in {"Operator", "Admin"}
             /\ by'[id]["Approved"] # NoActor =>
                  RoleOf[by'[id]["Approved"]] \in {"Approver", "Admin"}
  <2>1. /\ c.kind = t[1]
        /\ \A s \in ActionState : by'[id][s] = IF s \in t[3] THEN c.actor ELSE by[id][s]
    BY <1>3 DEF Along
  <2>2. /\ \A s \in Mine : s \in t[3] => RoleOf[c.actor] \in {"Operator", "Admin"}
        /\ "Approved" \in t[3] => RoleOf[c.actor] \in {"Approver", "Admin"}
    BY <1>3, <2>1, StampedBy, RolesOf
  <2> HIDE DEF Mine
  <2> QED
    BY <1>0, <1>1, <2>1, <2>2
<1> QED
  BY <1>2, <1>3, TrailStep

\* The roles on the trail keep the duties apart: no role but the administrator's
\* may both draft and approve.
LEMMA RolesSeparate ==
  ASSUME RolesTaken
  PROVE  SeparationOfDuties
<1> SUFFICES ASSUME NEW id \in ActionId, by[id]["Approved"] # NoActor,
                    by[id]["Approved"] = by[id]["Drafted"]
             PROVE  RoleOf[by[id]["Approved"]] = "Admin"
  BY DEF RolesTaken, SeparationOfDuties
<1>1. /\ RoleOf[by[id]["Drafted"]] \in {"Operator", "Admin"}
      /\ RoleOf[by[id]["Approved"]] \in {"Approver", "Admin"}
  BY DEF RolesTaken
<1> QED
  BY <1>1

\* LedgerComplete, and what it needs: nothing has run for an action that has no
\* record.
Untried ==
  \A id \in ActionId : state[id] = Absent => \A h \in Asset : host[id][h] = "clean"

\* A stage lists whatever it leaves applied.
LEMMA StageComplete ==
  ASSUME BridgeTypeOK, NEW id \in ActionId, action[id].rollback,
         \A h \in Asset : host[id][h] = "applied" => h \in applied[id],
         NEW stage, NEW ok, NEW live, applied[id] \cup ok \subseteq live,
         \/ ApplyTargets(id, stage, ok)
         \/ \E stuck : ApplyThenRollback(id, stage, ok, live, stuck)
  PROVE  \A h \in Asset : host'[id][h] = "applied" => h \in applied'[id]
<1>1. CASE ApplyTargets(id, stage, ok)
  BY <1>1, ApplyEffect
<1>2. ASSUME NEW stuck, ApplyThenRollback(id, stage, ok, live, stuck)
      PROVE  \A h \in Asset : host'[id][h] = "applied" => h \in applied'[id]
  BY <1>2, RollbackEffect
<1> QED
  BY <1>1, <1>2

\* Every step of the loop keeps the record complete.
LEMMA CompleteStep ==
  ASSUME BridgeTypeOK, PathTaken, LedgerComplete, Untried, Untouched \/ Driven
  PROVE  LedgerComplete' /\ Untried'
<1> DEFINE Listed(id) == state[id] # Absent /\ action[id].rollback =>
                           \A h \in Asset : host[id][h] = "applied" => h \in applied[id]
           Clean(id) == state[id] = Absent => \A h \in Asset : host[id][h] = "clean"
<1>0. \A id \in ActionId : Listed(id) /\ Clean(id)
  BY DEF LedgerComplete, Untried
<1> SUFFICES ASSUME NEW id \in ActionId PROVE Listed(id)' /\ Clean(id)'
  BY DEF LedgerComplete, Untried
<1>1. CASE Untouched
  BY <1>0, <1>1 DEF Untouched
<1>2. ASSUME NEW c \in Commands, Previewed(c) \/ Carries(c), id # c.action_id
      PROVE  Listed(id)' /\ Clean(id)'
  <2>1. /\ action'[id] = action[id] /\ state'[id] = state[id]
        /\ applied'[id] = applied[id] /\ host'[id] = host[id]
    BY <1>2, DrivenMoves
  <2> QED
    BY <1>0, <2>1
<1>3. ASSUME NEW c \in Commands, Previewed(c), id = c.action_id
      PROVE  Listed(id)' /\ Clean(id)'
  <2>1. state[id] = Absent /\ state'[id] = "DryRun" /\ host' = host
    BY <1>3, PreviewEffect
  <2>2. \A h \in Asset : host'[id][h] = "clean"
    BY <1>0, <2>1
  <2> QED
    BY <2>1, <2>2 DEF Absent
<1>4. ASSUME NEW c \in Commands, Carries(c), id = c.action_id
      PROVE  Listed(id)' /\ Clean(id)'
  <2>0. Call(id, c.actor) /\ c.actor \in Actor
    BY <1>4, CarriesIsCall, CommandParts
  <2>1. PathTaken'
    BY <1>4, PathStep
  <2>2. CASE Quiet(id)
    <3>1. state'[id] = Absent => state[id] = Absent
      BY <2>2 DEF Quiet, Absent
    <3>2. state[id] = Absent => state'[id] = Absent
      BY <2>2 DEF Quiet, Absent
    <3> QED
      BY <1>0, <2>2, <3>1, <3>2 DEF Quiet
  <2>3. CASE Authored(id)
    BY <2>1, <2>3 DEF Authored, PathTaken
  <2>4. CASE state[id] = "Approved" /\ CanaryStage(id, c.actor)
    <3>1. PICK ok \in SUBSET Cohort(action[id]) :
            /\ action'[id] = action[id] /\ state'[id] \in {"Rollout", "RolledBack"}
            /\ \/ ApplyTargets(id, Cohort(action[id]), ok)
               \/ \E stuck : ApplyThenRollback(id, Cohort(action[id]), ok,
                                               applied[id] \cup ok, stuck)
      BY <2>0, <2>4, CanaryCases
    <3>2. action[id].rollback =>
            \A h \in Asset : host'[id][h] = "applied" => h \in applied'[id]
      BY <1>0, <2>4, <3>1, StageComplete DEF Absent
    <3> QED
      BY <3>1, <3>2 DEF Absent
  <2>5. CASE state[id] = "Rollout" /\ RolloutStage(id, c.actor)
    <3>1. PICK ok \in SUBSET Remaining(id) :
            /\ action'[id] = action[id] /\ state'[id] \in {"Closed", "Verify", "RolledBack"}
            /\ \/ ApplyTargets(id, Remaining(id), ok)
               \/ \E stuck : ApplyThenRollback(id, Remaining(id), ok,
                                               applied[id] \cup ok, stuck)
      BY <2>0, <2>5, RolloutCases
    <3>2. action[id].rollback =>
            \A h \in Asset : host'[id][h] = "applied" => h \in applied'[id]
      BY <1>0, <2>5, <3>1, StageComplete DEF Absent
    <3> QED
      BY <3>1, <3>2 DEF Absent
  <2>6. CASE state[id] \in RollbackFrom /\ RollbackStage(id, c.actor)
    <3>1. /\ action'[id] = action[id] /\ state'[id] \in {"RolledBack", "RollbackIncomplete"}
          /\ \E stuck : ApplyThenRollback(id, {}, {}, RollbackSet(id), stuck)
      BY <2>0, <2>6, RollbackCases
    <3>2. applied[id] \cup {} \subseteq RollbackSet(id)
      BY DEF RollbackSet
    <3>3. action[id].rollback =>
            \A h \in Asset : host'[id][h] = "applied" => h \in applied'[id]
      BY <1>0, <2>6, <3>1, <3>2, StageComplete DEF Absent, RollbackFrom
    <3> QED
      BY <3>1, <3>3 DEF Absent
  <2> QED
    BY <2>0, <2>2, <2>3, <2>4, <2>5, <2>6, CallCases
<1> QED
  BY <1>1, <1>2, <1>3, <1>4 DEF Driven

\* An aborted action stays aborted, and its hosts stay as they are.
LEMMA AbortedStep ==
  ASSUME BridgeTypeOK, PathTaken, Untouched \/ Driven,
         NEW id \in ActionId, state[id] = "Aborted"
  PROVE  state'[id] = "Aborted" /\ host'[id] = host[id]
<1>1. state'[id] = "Aborted"
  <2>1. ASSUME NEW c \in Commands, NEW t \in Transitions, Along(t, id, c.kind, c.actor)
        PROVE  FALSE
    BY <2>1, AlongEntersNew DEF Along
  <2> QED
    BY <2>1, TrailStep
<1>2. CASE Untouched
  BY <1>1, <1>2 DEF Untouched
<1>3. ASSUME NEW c \in Commands, Previewed(c) \/ Carries(c) PROVE host'[id] = host[id]
  <2>1. CASE id # c.action_id
    BY <1>3, <2>1, DrivenMoves
  <2>2. CASE Previewed(c)
    BY <2>2, PreviewEffect
  <2>3. CASE Carries(c) /\ id = c.action_id
    <3>1. Call(id, c.actor) /\ c.actor \in Actor
      BY <2>3, CarriesIsCall, CommandParts
    <3> QED
      BY <1>1, <3>1, CallCases DEF Quiet, Authored, RollbackFrom
  <2> QED
    BY <1>3, <2>1, <2>2, <2>3
<1> QED
  BY <1>1, <1>2, <1>3 DEF Driven

\* The content of a record is that of its draft.
LEMMA ContentKept ==
  ASSUME BridgeTypeOK, PathTaken, Untouched \/ Driven,
         NEW id \in ActionId, state[id] # Absent
  PROVE  action'[id] = action[id]
<1>1. CASE Untouched
  BY <1>1 DEF Untouched
<1>2. ASSUME NEW c \in Commands, Previewed(c) \/ Carries(c) PROVE action'[id] = action[id]
  <2>1. CASE id # c.action_id
    BY <1>2, <2>1, DrivenMoves
  <2>2. CASE Previewed(c) /\ id = c.action_id
    BY <2>2, PreviewEffect
  <2>3. CASE Carries(c)
    BY <2>3 DEF Carries, RunStage, SubmitForApproval, Approve, Reject, Abort, Guarded,
                Refuse, RunCanary, CanaryStage, RunRollout, RolloutStage, RunRollback,
                RollbackStage
  <2> QED
    BY <1>2, <2>1, <2>2, <2>3
<1> QED
  BY <1>1, <1>2 DEF Driven

-----------------------------------------------------------------------------
(* The inductive invariant of the loop. *)

\* A running tick does not use a time that is still to come.
TickInPast == tickNow # NoTime => tickNow <= clock

LoopInv == /\ LoopTypeOK /\ BridgeInv /\ QueueInv
           /\ PathTaken /\ RolesTaken
           /\ LedgerComplete /\ Untried
           /\ TickInPast

\* An idle loop over an empty bridge satisfies it.
LEMMA LoopInitInv == LoopInit => LoopInv
<1> SUFFICES ASSUME LoopInit PROVE LoopInv
  OBVIOUS
<1>1. BridgeInv /\ BridgeTypeOK
  BY InitInv DEF LoopInit, BridgeInv
<1>2. QueueInv
  <2>1. batch = << >> /\ pending = << >> /\ hwm = 0 /\ 0 \in 0..MaxSeq
    BY BoundsAreNat DEF LoopInit
  <2> QED
    BY <2>1, EmptyQueue DEF QueueInv, QueuesTyped, HeldApart, Apart
<1>3. PathTaken /\ RolesTaken
  BY DEF LoopInit, BridgeInit, PathTaken, RolesTaken, Absent, ActionState
<1>4. LedgerComplete /\ Untried /\ TickInPast
  BY DEF LoopInit, BridgeInit, LedgerComplete, Untried, TickInPast
<1>5. LoopTypeOK
  <2>1. HeldOnce
    BY <1>2, HeldSplit DEF QueueInv
  <2>2. 0 \in Time
    BY BoundsAreNat DEF Time
  <2> QED
    BY <1>1, <1>2, <2>1, <2>2 DEF LoopInit, LoopTypeOK, QueueInv, QueuesTyped
<1> QED
  BY <1>1, <1>2, <1>3, <1>4, <1>5 DEF LoopInv

\* A step keeps the clock, the tick and the answers well typed.
LEMMA ClockStep ==
  ASSUME LoopTypeOK, TickInPast, LoopNext
  PROVE  /\ clock' \in Time /\ tickNow' \in Time \cup {NoTime}
         /\ tickNow' = NoTime <=> batch' = << >>
         /\ reply' \in {"none", "Applied", "Rejected"}
         /\ TickInPast'
<1>0. /\ clock \in Time /\ tickNow \in Time \cup {NoTime}
      /\ tickNow = NoTime <=> batch = << >>
      /\ Time \subseteq Nat /\ NoTime \notin Time
  BY BoundsAreNat, NoTimeIsNone DEF LoopTypeOK, Time
<1>1. CASE ServeOne
  <2>1. UNCHANGED <<batch, tickNow, clock>>
    BY <1>1 DEF ServeOne
  <2>2. reply' \in {"none", "Applied", "Rejected"}
    <3>1. ASSUME NEW c \in Commands, NEW n \in SeqNo, Handle(c, n)
          PROVE  reply' \in {"none", "Applied", "Rejected"}
      BY <3>1 DEF Handle, HandleDraft, DraftAndPreview, Rejected, HandleFresh, Outcome,
                  HandleAbort, ExecuteFresh, Enqueue
    <3> QED
      BY <1>1, <3>1 DEF ServeOne, Gated, Rejected
  <2> QED
    BY <1>0, <2>1, <2>2 DEF TickInPast
<1>2. CASE TickBegin
  <2>1. /\ tickNow' = clock /\ batch' = pending /\ pending # << >>
        /\ clock' = clock /\ reply' = "none" /\ clock <= clock
    BY <1>0, <1>2 DEF TickBegin
  <2> QED
    BY <1>0, <2>1 DEF TickInPast
<1>3. CASE TickStep
  BY <1>0, <1>3 DEF TickStep, TickInPast
<1>4. CASE ClockAdvance
  <2>1. clock' \in Time /\ clock <= clock'
    BY <1>4, BoundsAreNat DEF ClockAdvance, LoopTypeOK, Time
  <2>2. tickNow' = tickNow /\ batch' = batch /\ reply' = "none"
    BY <1>4 DEF ClockAdvance
  <2>3. tickNow # NoTime => tickNow <= clock'
    BY <1>0, <2>1 DEF TickInPast
  <2> QED
    BY <1>0, <2>1, <2>2, <2>3 DEF TickInPast
<1> QED
  BY <1>1, <1>2, <1>3, <1>4 DEF LoopNext

\* Every step of the loop keeps the invariant.
LEMMA LoopInvStep == LoopInv /\ [LoopNext]_vars => LoopInv'
<1> SUFFICES ASSUME LoopInv, [LoopNext]_vars PROVE LoopInv'
  OBVIOUS
<1>0. /\ LoopTypeOK /\ BridgeInv /\ QueueInv /\ PathTaken /\ RolesTaken
      /\ LedgerComplete /\ Untried /\ TickInPast /\ BridgeTypeOK
  BY DEF LoopInv, BridgeInv
<1>1. CASE LoopNext
  <2>1. QueueInv' /\ Accounts
    BY <1>0, <1>1, LoopMoves, MovesKeep
  <2>2. Untouched \/ Driven
    BY <1>0, <1>1, LoopDrives
  <2>3. BridgeInv'
    BY <1>0, <2>2, LoopBridgeInv
  <2>4. PathTaken' /\ RolesTaken' /\ LedgerComplete' /\ Untried'
    BY <1>0, <2>2, PathStep, RolesStep, CompleteStep
  <2>5. /\ clock' \in Time /\ tickNow' \in Time \cup {NoTime}
        /\ tickNow' = NoTime <=> batch' = << >>
        /\ reply' \in {"none", "Applied", "Rejected"}
        /\ TickInPast'
    BY <1>0, <1>1, ClockStep
  <2>6. LoopTypeOK'
    <3>1. HeldOnce'
      <4>1. QueuesTyped' /\ HeldApart'
        BY <2>1 DEF QueueInv
      <4>2. (QueuesTyped => (HeldOnce <=> HeldApart))'
        BY HeldSplit, PTL
      <4> QED
        BY <4>1, <4>2
    <3>2. settled' \subseteq [seq : SeqNo, what : Verdict]
      BY <2>1 DEF Accounts
    <3>3. BridgeTypeOK' /\ QueuesTyped' /\ hwm' \in 0..MaxSeq
      BY <2>1, <2>3 DEF QueueInv, BridgeInv
    <3> QED
      BY <2>5, <3>1, <3>2, <3>3 DEF LoopTypeOK, QueuesTyped
  <2> QED
    BY <2>1, <2>3, <2>4, <2>5, <2>6 DEF LoopInv
<1>2. CASE UNCHANGED vars
  <2>1. /\ UNCHANGED <<action, state, applied, host, by, ret, hwm, pending, batch,
                       tickNow, clock, reply, settled>>
    BY <1>2 DEF vars, bridgeVars, loopVars
  <2>2. Untouched
    BY <1>0, <2>1 DEF Untouched, BridgeTypeOK
  <2>3. BridgeInv' /\ PathTaken' /\ RolesTaken' /\ LedgerComplete' /\ Untried'
    BY <1>0, <2>2, LoopBridgeInv, PathStep, RolesStep, CompleteStep
  <2>4. HeldOnce'
    BY <1>0, <2>1 DEF LoopTypeOK, HeldOnce, HeldSeqs, Held
  <2>5. QueueInv'
    <3>1. /\ Once(batch') /\ AllFit(batch') /\ Once(pending') /\ AllFit(pending')
          /\ SeqsOf(batch') = SeqsOf(batch) /\ SeqsOf(pending') = SeqsOf(pending)
      BY <1>0, <2>1 DEF QueueInv, HeldApart
    <3> QED
      BY <1>0, <2>1, <3>1 DEF QueueInv, QueuesTyped, HeldApart, Apart
  <2>6. TickInPast'
    BY <1>0, <2>1 DEF TickInPast
  <2>7. LoopTypeOK'
    BY <1>0, <2>1, <2>3, <2>4 DEF LoopTypeOK, BridgeInv
  <2> QED
    BY <2>3, <2>5, <2>6, <2>7 DEF LoopInv
<1> QED
  BY <1>1, <1>2

\* The invariant holds in every reachable state of the loop.
THEOREM LoopInvariance == LoopSpec => []LoopInv
  BY LoopInitInv, LoopInvStep, PTL DEF LoopSpec

\* The loop's state is always well typed, a tick runs exactly while it has commands
\* left, and no command is held twice or without having consumed its number.
THEOREM LoopTypeCorrect == LoopSpec => []LoopTypeOK
<1>1. LoopInv => LoopTypeOK
  BY DEF LoopInv
<1> QED
  BY LoopInvariance, <1>1, PTL

\* Four eyes: whoever drafted and drove an action could author it, whoever approved
\* it could approve it, and they are two people unless one is an administrator.
THEOREM DutiesAlwaysSeparate == LoopSpec => []SeparationOfDuties
<1>1. LoopInv => SeparationOfDuties
  BY RolesSeparate DEF LoopInv
<1> QED
  BY LoopInvariance, <1>1, PTL

\* What a record lists was applied and, if it can be reverted, what was applied is
\* listed.
THEOREM LedgerAlwaysExact == LoopSpec => []LedgerExact
<1>1. LoopInv => LedgerExact
  BY DEF LoopInv, BridgeInv, LedgerExact
<1> QED
  BY LoopInvariance, <1>1, PTL

\* What the bridge promises it still promises under the loop, where a draft is
\* stored and previewed in one step: no approval without its gates, and no finished
\* stage outside its author's threshold.
THEOREM LoopKeepsTheGates == LoopSpec => [](ApprovalRequired /\ WithinThreshold)
<1>1. LoopInv => ApprovalRequired /\ WithinThreshold
  BY InvImpliesApproval DEF LoopInv, BridgeInv
<1> QED
  BY LoopInvariance, <1>1, PTL

\* An aborted action stays aborted and its hosts stay as they are, whatever is
\* held, re-sent or scheduled for it.
THEOREM AbortIsFinal == LoopSpec => KillSwitch
<1>1. LoopInv /\ [LoopNext]_vars =>
        [\A id \in ActionId : state[id] = "Aborted" =>
           state'[id] = "Aborted" /\ host'[id] = host[id]]_vars
  <2> SUFFICES ASSUME LoopInv, LoopNext, NEW id \in ActionId, state[id] = "Aborted"
               PROVE  state'[id] = "Aborted" /\ host'[id] = host[id]
    OBVIOUS
  <2>1. BridgeTypeOK /\ PathTaken /\ QueueInv
    BY DEF LoopInv, BridgeInv
  <2> QED
    BY <2>1, LoopDrives, AbortedStep
<1> QED
  BY LoopInvariance, <1>1, PTL DEF LoopSpec, KillSwitch

\* A command answered Rejected has changed nothing, unless it was a rollback that
\* reverted some targets and not others.
THEOREM RejectionIsClean == LoopSpec => RejectedChangesNothing
<1>1. LoopInv /\ [LoopNext]_vars =>
        [reply' = "Rejected" =>
           \/ UNCHANGED <<action, state, applied, host, by, pending>>
           \/ \E id \in ActionId : /\ state[id] \in RollbackFrom
                                   /\ state'[id] = "RollbackIncomplete"]_vars
  <2> SUFFICES ASSUME LoopInv, LoopNext, reply' = "Rejected"
               PROVE  \/ UNCHANGED <<action, state, applied, host, by, pending>>
                      \/ \E id \in ActionId : /\ state[id] \in RollbackFrom
                                              /\ state'[id] = "RollbackIncomplete"
    OBVIOUS
  <2>1. BridgeTypeOK /\ QueueInv
    BY DEF LoopInv, BridgeInv
  <2> QED
    BY <2>1, LoopDrives DEF Untouched, HalfReverted
<1> QED
  BY LoopInvariance, <1>1, PTL DEF LoopSpec, RejectedChangesNothing

-----------------------------------------------------------------------------
(* The order of the queue. *)

Rising(s) == \A i, j \in 1..Len(s) : i < j => s[i].seq < s[j].seq
Below(s, t) == \A i \in 1..Len(s), j \in 1..Len(t) : s[i].seq < t[j].seq

\* Commands are looked at in the order of their numbers: what a tick has put back
\* comes before what it has still to look at.
InOrder == Rising(batch) /\ Rising(pending) /\ Below(pending, batch)

Early(s) == \A i \in 1..Len(s) : tickNow < s[i].cmd.schedule.not_before

\* What a running tick has put back was not due.
KeptEarly == tickNow # NoTime => Early(pending)

\* A higher number put at the end of a queue leaves it in order.
LEMMA AppendRising ==
  ASSUME NEW s \in Seq(Pending), NEW p \in Pending, Rising(s),
         \A i \in 1..Len(s) : s[i].seq < p.seq
  PROVE  Rising(Append(s, p))
<1> DEFINE t == Append(s, p)
           n == Len(s)
<1>1. /\ n \in Nat /\ Len(t) = n + 1
      /\ \A i \in 1..n : t[i] = s[i]
      /\ t[n + 1] = p
  OBVIOUS
<1>2. \A i, j \in 1..n : i < j => t[i].seq < t[j].seq
  BY <1>1 DEF Rising
<1>3. \A i \in 1..n : t[i].seq < t[n + 1].seq
  BY <1>1
<1> HIDE DEF t, n
<1> QED
  BY <1>1, <1>2, <1>3 DEF Rising, t

\* The first command of a queue in order comes before the others.
LEMMA TailRising ==
  ASSUME NEW s \in Seq(Pending), s # << >>, Rising(s)
  PROVE  /\ Rising(Tail(s))
         /\ \A i \in 1..Len(Tail(s)) : Head(s).seq < Tail(s)[i].seq
<1> DEFINE t == Tail(s)
           n == Len(t)
<1>1. /\ n \in Nat /\ Len(s) = n + 1 /\ Head(s) = s[1]
      /\ \A i \in 1..n : t[i] = s[i + 1]
  OBVIOUS
<1> HIDE DEF t, n
<1>2. \A i, j \in 1..(n + 1) : i < j => s[i].seq < s[j].seq
  BY <1>1 DEF Rising
<1>3. /\ \A i \in 1..n : i + 1 \in 1..(n + 1) /\ 1 < i + 1
      /\ \A i, j \in 1..n : i < j => i + 1 < j + 1
      /\ 1 \in 1..(n + 1)
  BY <1>1
<1>4. \A i, j \in 1..n : i < j => t[i].seq < t[j].seq
  BY <1>1, <1>2, <1>3
<1>5. \A i \in 1..n : s[1].seq < t[i].seq
  BY <1>1, <1>2, <1>3
<1> QED
  BY <1>1, <1>4, <1>5 DEF Rising, t, n

\* Scheduler::cancel leaves the others in their order.
LEMMA FilterRising ==
  ASSUME NEW s \in Seq(Pending), NEW S, Rising(s)
  PROVE  Rising(Filter(s, S))
<1> DEFINE t == Filter(s, S)
<1>1. \E pos \in [1..Len(t) -> 1..Len(s)] : Embeds(pos, t, s, Len(s), S)
  BY FilterFacts
<1> HIDE DEF t
<1>2. PICK pos \in [1..Len(t) -> 1..Len(s)] : Embeds(pos, t, s, Len(s), S)
  BY <1>1
<1>3. /\ \A k \in 1..Len(t) : pos[k] \in 1..Len(s) /\ t[k] = s[pos[k]]
      /\ \A k, l \in 1..Len(t) : k < l => pos[k] < pos[l]
  BY <1>2 DEF Embeds
<1> QED
  BY <1>3 DEF Rising, t

\* A step leaves the queue in order.
LEMMA OrderStep ==
  ASSUME QueueInv, InOrder, QueueMove
  PROVE  InOrder'
<1>0. /\ pending \in Seq(Pending) /\ batch \in Seq(Pending)
      /\ Rising(batch) /\ Rising(pending) /\ Below(pending, batch)
  BY DEF QueueInv, QueuesTyped, InOrder
<1>1. Len(<< >>) = 0 /\ 1..0 = {}
  OBVIOUS
<1>2. ASSUME NEW s PROVE Rising(<< >>) /\ Below(s, << >>) /\ Below(<< >>, s)
  BY <1>1 DEF Rising, Below
<1>3. CASE Ignored \/ Answered
  <2>1. batch' = batch /\ pending' = pending
    BY <1>3 DEF Ignored, Answered
  <2>2. Rising(batch') /\ Rising(pending') /\ Below(pending', batch')
    BY <1>0, <2>1
  <2> QED
    BY <2>2 DEF InOrder
<1>4. CASE Enqueued
  <2>1. PICK c \in Commands, n \in SeqNo :
          /\ n > hwm /\ batch = << >>
          /\ batch' = batch /\ pending' = Append(pending, [cmd |-> c, seq |-> n])
    BY <1>4 DEF Enqueued
  <2>2. \A i \in 1..Len(pending) : pending[i].seq < n
    <3>1. \A i \in 1..Len(pending) : pending[i].seq \in SeqNo /\ pending[i].seq <= hwm
      BY <1>0, QueueTyped DEF QueueInv, HeldApart, SeqsOf
    <3> QED
      BY <2>1, <3>1, BoundsAreNat DEF QueueInv, SeqNo
  <2>3. [cmd |-> c, seq |-> n] \in Pending
    BY DEF Pending
  <2>4. Rising(pending')
    BY <1>0, <2>1, <2>2, <2>3, AppendRising
  <2>5. Rising(batch') /\ Below(pending', batch')
    BY <1>2, <2>1
  <2> QED
    BY <2>4, <2>5 DEF InOrder
<1>5. CASE Cancels
  <2>1. PICK S : pending' = Filter(pending, S) /\ batch = << >> /\ batch' = batch
    BY <1>5 DEF Cancels, Cancel
  <2>2. Rising(pending')
    BY <1>0, <2>1, FilterRising
  <2>3. Rising(batch') /\ Below(pending', batch')
    BY <1>2, <2>1
  <2> QED
    BY <2>2, <2>3 DEF InOrder
<1>6. CASE Takes
  <2>1. batch' = pending /\ pending' = << >>
    BY <1>6 DEF Takes
  <2>2. Rising(batch') /\ Rising(pending') /\ Below(pending', batch')
    BY <1>0, <1>2, <2>1
  <2> QED
    BY <2>2 DEF InOrder
<1>7. CASE Settles \/ PutsBack
  <2>1. /\ batch # << >> /\ batch' = Tail(batch)
        /\ pending' = pending \/ pending' = Append(pending, Head(batch))
    BY <1>7 DEF Settles, PutsBack
  <2>2. /\ Rising(Tail(batch)) /\ Head(batch) \in Pending
        /\ \A j \in 1..Len(Tail(batch)) : Head(batch).seq < Tail(batch)[j].seq
    BY <1>0, <2>1, TailRising, TailSeqs
  <2>3. /\ 1 \in 1..Len(batch) /\ Head(batch) = batch[1]
        /\ \A j \in 1..Len(Tail(batch)) : /\ Tail(batch)[j] = batch[j + 1]
                                          /\ j + 1 \in 1..Len(batch)
    BY <1>0, <2>1
  <2>4. \A i \in 1..Len(pending) : pending[i].seq < Head(batch).seq
    BY <1>0, <2>3 DEF Below
  <2>5. Below(pending, Tail(batch))
    BY <1>0, <2>3 DEF Below
  <2>6. CASE pending' = pending
    <3>1. Rising(batch') /\ Rising(pending') /\ Below(pending', batch')
      BY <1>0, <2>1, <2>2, <2>5, <2>6
    <3> QED
      BY <3>1 DEF InOrder
  <2>7. CASE pending' = Append(pending, Head(batch))
    <3>1. Rising(Append(pending, Head(batch)))
      BY <1>0, <2>2, <2>4, AppendRising
    <3>2. Below(Append(pending, Head(batch)), Tail(batch))
      <4>1. /\ Len(Append(pending, Head(batch))) = Len(pending) + 1 /\ Len(pending) \in Nat
            /\ \A i \in 1..Len(pending) : Append(pending, Head(batch))[i] = pending[i]
            /\ Append(pending, Head(batch))[Len(pending) + 1] = Head(batch)
        BY <1>0, <2>2
      <4>2. \A i \in 1..(Len(pending) + 1) : i \in 1..Len(pending) \/ i = Len(pending) + 1
        BY <4>1
      <4> HIDE <1>0
      <4> QED
        BY <2>2, <2>5, <4>1, <4>2 DEF Below
    <3>3. Rising(batch') /\ Rising(pending') /\ Below(pending', batch')
      BY <2>1, <2>2, <2>7, <3>1, <3>2
    <3> QED
      BY <3>3 DEF InOrder
  <2> QED
    BY <2>1, <2>6, <2>7
<1> QED
  BY <1>3, <1>4, <1>5, <1>6, <1>7 DEF QueueMove

\* A step of a running tick puts back only what is not due.
LEMMA EarlyStep ==
  ASSUME LoopTypeOK, QueueInv, KeptEarly, LoopNext, tickNow # NoTime
  PROVE  Early(pending') /\ tickNow' \in {tickNow, NoTime}
<1>0. /\ pending \in Seq(Pending) /\ batch \in Seq(Pending) /\ AllFit(batch)
      /\ Early(pending) /\ tickNow \in Nat
  BY BoundsAreNat DEF QueueInv, QueuesTyped, KeptEarly, LoopTypeOK, Time
<1>1. ~ ServeOne /\ ~ TickBegin
  BY DEF ServeOne, TickBegin
<1>2. CASE ClockAdvance
  BY <1>0, <1>2 DEF ClockAdvance, Early
<1>3. CASE TickStep
  <2>1. batch # << >> /\ tickNow' \in {tickNow, NoTime}
    BY <1>3 DEF TickStep
  <2>2. CASE pending' = pending
    BY <1>0, <2>1, <2>2 DEF Early
  <2>3. CASE KeepEarly(Head(batch))
    <3> DEFINE h == Head(batch)
    <3>1. h \in Pending /\ Fit(h)
      BY <1>0, <2>1, TailSeqs
    <3>2. h.cmd.schedule.not_before \in Nat /\ ~ (h.cmd.schedule.not_before <= tickNow)
      BY <2>3, <3>1 DEF KeepEarly, Opened, Fit, Schedule
    <3>3. tickNow < h.cmd.schedule.not_before
      BY <1>0, <3>2
    <3>4. pending' = Append(pending, h)
      BY <2>3 DEF KeepEarly
    <3> HIDE DEF h
    <3>5. /\ Len(pending') = Len(pending) + 1 /\ Len(pending) \in Nat
          /\ \A i \in 1..Len(pending) : pending'[i] = pending[i]
          /\ pending'[Len(pending) + 1] = h
      BY <1>0, <3>1, <3>4
    <3>6. \A i \in 1..(Len(pending) + 1) : i \in 1..Len(pending) \/ i = Len(pending) + 1
      BY <3>5
    <3>7. \A i \in 1..Len(pending) : tickNow < pending[i].cmd.schedule.not_before
      BY <1>0 DEF Early
    <3>8. \A i \in 1..Len(pending') : tickNow < pending'[i].cmd.schedule.not_before
      BY <3>3, <3>5, <3>6, <3>7
    <3> QED
      BY <2>1, <3>8 DEF Early
  <2> QED
    BY <1>3, <2>2, <2>3 DEF TickStep, DropExpired, Release
<1> QED
  BY <1>1, <1>2, <1>3 DEF LoopNext

Lined == InOrder /\ KeptEarly

\* The queue starts in order and stays so.
LEMMA LinedStep == LoopInv /\ Lined /\ [LoopNext]_vars => Lined'
<1> SUFFICES ASSUME LoopInv, Lined, [LoopNext]_vars PROVE Lined'
  OBVIOUS
<1>0. LoopTypeOK /\ QueueInv /\ InOrder /\ KeptEarly
  BY DEF LoopInv, Lined
<1>1. CASE LoopNext
  <2>1. InOrder'
    BY <1>0, <1>1, LoopMoves, OrderStep
  <2>2. KeptEarly'
    <3>1. CASE tickNow # NoTime
      BY <1>0, <1>1, <3>1, EarlyStep DEF KeptEarly, Early
    <3>2. CASE TickBegin
      <4>1. pending' = << >> /\ Len(<< >>) = 0 /\ 1..0 = {}
        BY <3>2 DEF TickBegin
      <4> QED
        BY <4>1 DEF KeptEarly, Early
    <3>3. CASE tickNow = NoTime /\ ~ TickBegin
      <4>1. tickNow' = NoTime
        BY <1>0, <1>1, <3>3 DEF LoopNext, ServeOne, TickStep, ClockAdvance, LoopTypeOK
      <4> QED
        BY <4>1 DEF KeptEarly
    <3> QED
      BY <3>1, <3>2, <3>3
  <2> QED
    BY <2>1, <2>2 DEF Lined
<1>2. CASE UNCHANGED vars
  <2>1. UNCHANGED <<pending, batch, tickNow>>
    BY <1>2 DEF vars, loopVars
  <2> QED
    BY <1>0, <2>1 DEF Lined, InOrder, KeptEarly, Early, Rising, Below
<1> QED
  BY <1>1, <1>2

\* The queue is always in order.
THEOREM AlwaysLined == LoopSpec => []Lined
<1>1. LoopInit => Lined
  <2>1. Len(<< >>) = 0 /\ 1..0 = {}
    OBVIOUS
  <2> QED
    BY <2>1 DEF LoopInit, Lined, InOrder, KeptEarly, Rising, Below
<1> QED
  BY LoopInvariance, LinedStep, <1>1, PTL DEF LoopSpec

\* A held command is carried out by a tick that has come to it and finds its window
\* open.
LEMMA ReleasedFirst ==
  ASSUME LoopInv, LoopNext, NEW i \in DOMAIN batch, batch[i].seq \in CarriedOut'
  PROVE  /\ i = 1 /\ tickNow \in Nat /\ clock \in Nat /\ tickNow # NoTime
         /\ batch[i].cmd.schedule \in Schedule
         /\ batch[i].cmd.schedule.not_before <= tickNow /\ tickNow <= clock
         /\ tickNow <= batch[i].cmd.schedule.not_after
<1>0. /\ LoopTypeOK /\ TickInPast /\ Once(batch) /\ AllFit(batch)
      /\ batch \in Seq(Pending) /\ DOMAIN batch = 1..Len(batch)
  BY QueueTyped DEF LoopInv, QueueInv, QueuesTyped, HeldApart
<1>1. PICK r : r \in settled' /\ r.what # "refused" /\ r.seq = batch[i].seq
  BY DEF CarriedOut
<1>2. batch # << >> /\ tickNow # NoTime
  BY <1>0 DEF LoopTypeOK
<1>3. TickStep
  <2>1. ~ ServeOne /\ ~ TickBegin
    BY <1>2 DEF ServeOne, TickBegin
  <2>2. ~ ClockAdvance
    BY <1>1 DEF ClockAdvance
  <2> QED
    BY <2>1, <2>2 DEF LoopNext
<1>4. Release(Head(batch)) /\ r.seq = Head(batch).seq
  <2>1. ASSUME NEW v, Report({Head(batch).seq}, v)
        PROVE  r.seq = Head(batch).seq /\ v # "refused"
    <3>1. settled' = {[seq |-> Head(batch).seq, what |-> v]}
      BY <2>1, Reports
    <3> QED
      BY <1>1, <3>1
  <2>2. ~ DropExpired(Head(batch)) /\ ~ KeepEarly(Head(batch))
    BY <1>1, <2>1 DEF DropExpired, KeepEarly
  <2>3. Release(Head(batch))
    BY <1>3, <2>2 DEF TickStep
  <2> QED
    BY <2>1, <2>3 DEF Release
<1>5. Head(batch) = batch[1] /\ 1 \in 1..Len(batch)
  BY <1>0, <1>2
<1>6. i = 1
  BY <1>0, <1>1, <1>4, <1>5 DEF Once
<1>7. batch[i].cmd.schedule.not_before <= tickNow
  BY <1>4, <1>5, <1>6 DEF Release, Opened
<1>8. /\ batch[i].cmd.schedule \in Schedule /\ batch[i].cmd.schedule.not_before \in Nat
      /\ batch[i].cmd.schedule.not_after \in Nat
  BY <1>0 DEF AllFit, Fit, Schedule
<1>9. tickNow \in Nat /\ clock \in Nat /\ tickNow <= clock
  BY <1>0, <1>2, BoundsAreNat DEF LoopTypeOK, Time, TickInPast
<1>10. ~ (tickNow > batch[i].cmd.schedule.not_after)
  BY <1>4, <1>5, <1>6 DEF Release, Expired
<1> QED
  BY <1>2, <1>6, <1>7, <1>8, <1>9, <1>10

\* A scheduled stage is released in its window, no tick leaves behind what was due
\* when it began, and a stage overtakes one signed before it only while that one's
\* window has not opened, through any number of ticks and cancellations.
THEOREM ReleasedInTime == LoopSpec => Timely
<1>1. LoopInv /\ [LoopNext]_vars =>
        [\A i \in DOMAIN batch : batch[i].seq \in CarriedOut' =>
           batch[i].cmd.schedule.not_before <= clock]_vars
  <2> SUFFICES ASSUME LoopInv, LoopNext, NEW i \in DOMAIN batch,
                      batch[i].seq \in CarriedOut'
               PROVE  batch[i].cmd.schedule.not_before <= clock
    OBVIOUS
  <2> QED
    BY ReleasedFirst DEF Schedule
<1>2. LoopInv /\ [LoopNext]_vars =>
        [\A i \in DOMAIN batch : batch[i].seq \in CarriedOut' =>
           tickNow <= batch[i].cmd.schedule.not_after]_vars
  BY ReleasedFirst
<1>3. LoopInv /\ Lined /\ [LoopNext]_vars =>
        [tickNow # NoTime /\ tickNow' = NoTime =>
           \A i \in DOMAIN pending' : tickNow < pending'[i].cmd.schedule.not_before]_vars
  <2> SUFFICES ASSUME LoopInv, Lined, LoopNext, tickNow # NoTime
               PROVE  \A i \in DOMAIN pending' : tickNow < pending'[i].cmd.schedule.not_before
    OBVIOUS
  <2>1. LoopTypeOK /\ QueueInv /\ KeptEarly
    BY DEF LoopInv, Lined
  <2>2. Early(pending')
    BY <2>1, EarlyStep
  <2>3. pending' \in Seq(Pending)
    BY LoopInvStep DEF LoopInv, LoopTypeOK
  <2>4. DOMAIN pending' = 1..Len(pending')
    BY <2>3
  <2> QED
    BY <2>2, <2>4 DEF Early
<1>4. LoopInv /\ Lined /\ [LoopNext]_vars =>
        [\A i \in DOMAIN batch, j \in DOMAIN Held :
           batch[i].seq \in CarriedOut' /\ Held[j].seq < batch[i].seq =>
             tickNow < Held[j].cmd.schedule.not_before]_vars
  <2> SUFFICES ASSUME LoopInv, Lined, LoopNext, NEW i \in DOMAIN batch, NEW j \in DOMAIN Held,
                      batch[i].seq \in CarriedOut', Held[j].seq < batch[i].seq
               PROVE  tickNow < Held[j].cmd.schedule.not_before
    OBVIOUS
  <2>1. i = 1 /\ tickNow # NoTime
    BY ReleasedFirst
  <2>2. /\ batch \in Seq(Pending) /\ pending \in Seq(Pending)
        /\ Rising(batch) /\ Early(pending)
    BY <2>1 DEF LoopInv, LoopTypeOK, Lined, InOrder, KeptEarly
  <2>3. CASE j \in 1..Len(batch)
    <3>1. Held[j] = batch[j] /\ 1 \in 1..Len(batch) /\ j \in Nat /\ (j = 1 \/ 1 < j)
      BY <2>2, <2>3 DEF Held
    <3>2. batch[1].seq \in Nat /\ batch[j].seq \in Nat
      BY <2>2, <2>3, <3>1, QueueTyped, BoundsAreNat DEF SeqNo
    <3>3. j = 1 \/ batch[1].seq < batch[j].seq
      BY <2>2, <2>3, <3>1 DEF Rising
    <3> QED
      BY <2>1, <3>1, <3>2, <3>3
  <2>4. CASE j \notin 1..Len(batch)
    <3>1. \E k \in 1..Len(pending) : Held[j] = pending[k]
      <4>1. /\ DOMAIN Held = 1..(Len(batch) + Len(pending))
            /\ Len(batch) \in Nat /\ Len(pending) \in Nat
            /\ \A k \in 1..Len(pending) : Held[Len(batch) + k] = pending[k]
        BY <2>2 DEF Held
      <4>2. j - Len(batch) \in 1..Len(pending) /\ j = Len(batch) + (j - Len(batch))
        BY <2>4, <4>1
      <4> QED
        BY <4>1, <4>2
    <3> QED
      BY <2>2, <3>1 DEF Early
  <2> QED
    BY <2>3, <2>4
<1>5. LoopSpec => NeverEarly
  BY LoopInvariance, <1>1, PTL DEF LoopSpec, NeverEarly
<1>6. LoopSpec => NeverLate
  BY LoopInvariance, <1>2, PTL DEF LoopSpec, NeverLate
<1>7. LoopSpec => NothingDueLeft
  BY LoopInvariance, AlwaysLined, <1>3, PTL DEF LoopSpec, NothingDueLeft
<1>8. LoopSpec => InTurn
  BY LoopInvariance, AlwaysLined, <1>4, PTL DEF LoopSpec, InTurn
<1> QED
  BY <1>5, <1>6, <1>7, <1>8 DEF Timely

\* A signed command takes effect at most once and is never lost in silence, what was
\* approved is what runs, and no gate of the lifecycle is passed twice.
THEOREM EffectOnce == LoopSpec => OneEffect
<1>1. LoopInv /\ [LoopNext]_vars =>
        [/\ \A r \in settled' : /\ r.seq > hwm \/ r.seq \in HeldSeqs
                                /\ r.seq <= hwm' /\ r.seq \notin HeldSeqs'
         /\ HeldSeqs \ HeldSeqs' \subseteq {r.seq : r \in settled'}
         /\ \/ UNCHANGED <<action, state, applied, host, by>>
            \/ Cardinality(CarriedOut') = 1
            \/ \E id \in ActionId : state[id] \in RollbackFrom
                                    /\ state'[id] = "RollbackIncomplete"]_vars
  <2> SUFFICES ASSUME LoopInv, LoopNext
               PROVE  /\ \A r \in settled' : /\ r.seq > hwm \/ r.seq \in HeldSeqs
                                             /\ r.seq <= hwm' /\ r.seq \notin HeldSeqs'
                      /\ HeldSeqs \ HeldSeqs' \subseteq {r.seq : r \in settled'}
                      /\ \/ UNCHANGED <<action, state, applied, host, by>>
                         \/ Cardinality(CarriedOut') = 1
                         \/ \E id \in ActionId : state[id] \in RollbackFrom
                                                 /\ state'[id] = "RollbackIncomplete"
    OBVIOUS
  <2>1. BridgeTypeOK /\ LoopTypeOK /\ QueueInv
    BY DEF LoopInv, BridgeInv
  <2>2. QueueInv' /\ Accounts
    BY <2>1, LoopMoves, MovesKeep
  <2>3. HeldSeqs = HeldNow
    BY <2>1, HeldSplit DEF QueueInv, HeldNow
  <2>4. HeldSeqs' = HeldNow'
    <3>1. (QueuesTyped => HeldSeqs = SeqsOf(batch) \cup SeqsOf(pending))'
      BY HeldSplit, PTL
    <3> QED
      BY <2>2, <3>1 DEF QueueInv, HeldNow
  <2>5. \/ UNCHANGED <<action, state, applied, host, by>>
        \/ Cardinality(CarriedOut') = 1
        \/ \E id \in ActionId : state[id] \in RollbackFrom
                                /\ state'[id] = "RollbackIncomplete"
    BY <2>1, LoopDrives, CommandParts DEF Untouched, Driven, HalfReverted
  <2> QED
    BY <2>2, <2>3, <2>4, <2>5 DEF Accounts
<1>2. LoopInv /\ [LoopNext]_vars =>
        [\A id \in ActionId :
           /\ state[id] # Absent => action'[id] = action[id]
           /\ \A s \in ActionState \ {"RollbackIncomplete"} :
                by[id][s] # NoActor => by'[id][s] = by[id][s]]_vars
  <2> SUFFICES ASSUME LoopInv, LoopNext
               PROVE  \A id \in ActionId :
                        /\ state[id] # Absent => action'[id] = action[id]
                        /\ \A s \in ActionState \ {"RollbackIncomplete"} :
                             by[id][s] # NoActor => by'[id][s] = by[id][s]
    OBVIOUS
  <2>1. BridgeTypeOK /\ QueueInv /\ PathTaken
    BY DEF LoopInv, BridgeInv
  <2>2. Untouched \/ Driven
    BY <2>1, LoopDrives
  <2> QED
    BY <2>1, <2>2, ContentKept, PathStep
<1>3. LoopSpec => OneEffectPerCommand
  BY LoopInvariance, <1>1, PTL DEF LoopSpec, OneEffectPerCommand
<1>4. LoopSpec => EachGateOnce
  BY LoopInvariance, <1>2, PTL DEF LoopSpec, EachGateOnce
<1> QED
  BY <1>3, <1>4 DEF OneEffect

\* The loop implements the staged-change discipline too: a draft that is previewed
\* in the same step is one step of authoring.
THEOREM LoopRefinesStaged == LoopSpec => ImplementsStaged
<1>1. LoopInit => Staged!StagedInit
  BY DEF LoopInit, BridgeInit, Staged!StagedInit, PhaseOf, Reached, Absent
<1>2. LoopInv /\ [LoopNext]_vars => [Staged!StagedNext]_(Staged!stagedVars)
  <2> SUFFICES ASSUME LoopInv, [LoopNext]_vars
               PROVE  Staged!StagedNext \/ UNCHANGED Staged!stagedVars
    OBVIOUS
  <2>0. BridgeInv /\ BridgeTypeOK /\ QueueInv
    BY DEF LoopInv, BridgeInv
  <2>1. CASE Untouched
    BY <2>1 DEF Untouched, Staged!stagedVars, Reached
  <2>2. ASSUME NEW c \in Commands, Carries(c)
        PROVE  Staged!StagedNext \/ UNCHANGED Staged!stagedVars
    <3>1. \/ Staged!StagedNext
          \/ UNCHANGED <<absPhase, absScope, absPilot, absReach>>
      BY <2>0, <2>2, CarriesIsCall, CommandParts, CallRefines
    <3> QED
      BY <3>1 DEF Staged!stagedVars, absPhase, absScope, absPilot, absReach, ScopeOf, PilotOf
  <2>3. ASSUME NEW c \in Commands, Previewed(c) PROVE Staged!StagedNext
    <3> DEFINE id == c.action_id
    <3>1. /\ id \in ActionId /\ state'[id] = "DryRun"
          /\ action'[id] \in Drafts /\ IsScoped(action'[id]) /\ host' = host
          /\ \A i \in ActionId : i # id =>
               action'[i] = action[i] /\ state'[i] = state[i] /\ host'[i] = host[i]
      BY <2>0, <2>3, PreviewEffect
    <3> HIDE DEF id
    <3>2. /\ absPhase' = [absPhase EXCEPT ![id] = PhaseOf(state'[id])]
          /\ absScope' = [absScope EXCEPT ![id] = ScopeOf(id)']
          /\ absPilot' = [absPilot EXCEPT ![id] = PilotOf(id)']
      BY <3>1, Lift
    <3>3. PhaseOf(state'[id]) = "review" /\ state'[id] # Absent
      BY <3>1 DEF PhaseOf, Absent
    <3>4. /\ Targets(action'[id]) \in SUBSET Asset
          /\ Cohort(action'[id]) \in SUBSET Targets(action'[id])
          /\ Cohort(action'[id]) # {} /\ Targets(action'[id]) # {}
      BY <3>1, CohortFacts
    <3>5. /\ ScopeOf(id)' = Targets(action'[id]) /\ PilotOf(id)' = Cohort(action'[id])
          /\ absReach' = absReach
      BY <3>1, <3>3 DEF ScopeOf, PilotOf, absReach, Reached
    <3>6. Staged!Author(id)
      BY <3>2, <3>3, <3>4, <3>5
         DEF Staged!Author, absPhase, absScope, absPilot, absReach, ScopeOf, PilotOf
    <3> QED
      BY <3>1, <3>6 DEF Staged!StagedNext
  <2>4. CASE LoopNext
    BY <2>0, <2>1, <2>2, <2>3, <2>4, LoopDrives DEF Driven
  <2>5. CASE UNCHANGED vars
    BY <2>5 DEF vars, bridgeVars, Staged!stagedVars, Reached
  <2> QED
    BY <2>4, <2>5
<1> QED
  BY LoopInvariance, <1>1, <1>2, PTL
     DEF LoopSpec, ImplementsStaged, Staged!StagedSpec

\* Under the loop too, no step runs the payload on a new host unless the draft is
\* approved and the host is in its cohort, or among its targets once the canary
\* was promoted.
THEOREM LoopReachIsStaged == LoopSpec => StagedReach
<1> DEFINE Grown(i) ==
      \A h \in Reached(i)' \ Reached(i) :
        /\ by[i]["Approved"] \in Actor
        /\ h \in Targets(action[i])
        /\ h \in Cohort(action[i]) \/ by[i]["Rollout"] \in Actor
<1>1. ASSUME LoopInv, LoopNext, NEW i \in ActionId PROVE Grown(i)
  <2>0. BridgeInv /\ BridgeTypeOK /\ QueueInv
    BY <1>1 DEF LoopInv, BridgeInv
  <2>1. CASE Untouched
    BY <2>1 DEF Untouched, Reached
  <2>2. ASSUME NEW c \in Commands, Previewed(c) PROVE Grown(i)
    BY <2>0, <2>2, PreviewEffect DEF Reached
  <2>3. ASSUME NEW c \in Commands, Carries(c) PROVE Grown(i)
    BY <2>0, <2>3, CarriesIsCall, CommandParts, CallGrows
  <2> QED
    BY <1>1, <2>0, <2>1, <2>2, <2>3, LoopDrives DEF Driven
<1>2. LoopInv /\ [LoopNext]_vars =>
        [\A id \in ActionId :
           \A h \in Reached(id)' \ Reached(id) :
             /\ by[id]["Approved"] \in Actor
             /\ h \in Targets(action[id])
             /\ h \in Cohort(action[id]) \/ by[id]["Rollout"] \in Actor]_bridgeVars
  BY <1>1 DEF vars
<1> QED
  BY LoopInvariance, <1>2, PTL DEF LoopSpec, StagedReach
=============================================================================
