------------------------- MODULE AgentServiceProofs -------------------------
(***************************************************************************)
(* Proofs for the control service, for any peers, frame length, receive    *)
(* window and number of pieces sent.                                       *)
(*                                                                         *)
(* At most one late frame: the thread waits for a frame only after it has  *)
(* seen the flag down, so no frame is late while it waits.                 *)
(* Intact frames: the count of pieces is kept by every read, and starts at *)
(* nothing because a connection that is not served yet cannot have sent.   *)
(***************************************************************************)
EXTENDS AgentService, TLAPS

\* No frame is late before the flag is set, nor while the thread waits for one.
LateShape ==
  /\ ~ flag => late = 0
  /\ pc = "recv" => late = 0

Fresh(p) == sent[p] = 0 /\ wire[p] = 0 /\ handled[p] = 0

\* Connections that are dialled wait in the queue once each; nothing was sent on
\* them, nor on the one that is in its handshake.
Waiting ==
  /\ \A p \in Peer : conn[p] = "out" => Fresh(p) /\ p # cur
  /\ \A i \in DOMAIN queue :
       /\ Fresh(queue[i]) /\ queue[i] # cur
       /\ conn[queue[i]] \in {"dialled", "closed"}
  /\ \A i, j \in DOMAIN queue : queue[i] = queue[j] => i = j
  /\ pc = "handshake" => Fresh(cur) /\ conn[cur] \in {"dialled", "closed"}
  /\ pc \in {"accept", "stopped", "handshake"} => inbuf = 0

ServiceInv ==
  /\ TypeOK
  /\ OneLateFrame
  /\ FramesIntact
  /\ LateShape
  /\ Waiting

-----------------------------------------------------------------------------

\* What Append and Tail do to a queue of peers.
LEMMA QueueElements ==
  ASSUME NEW q \in Seq(Peer), NEW p \in Peer
  PROVE  /\ Append(q, p) \in Seq(Peer)
         /\ DOMAIN q = 1..Len(q) /\ Len(q) \in Nat
         /\ DOMAIN Append(q, p) = 1..(Len(q) + 1)
         /\ Append(q, p)[Len(q) + 1] = p
         /\ \A i \in DOMAIN q : Append(q, p)[i] = q[i]
  OBVIOUS

\* The first connection of a queue, and those behind it.
LEMMA QueueTail ==
  ASSUME NEW q \in Seq(Peer), q # << >>
  PROVE  /\ Tail(q) \in Seq(Peer) /\ 1 \in DOMAIN q
         /\ Head(q) = q[1] /\ Head(q) \in Peer
         /\ \A i \in DOMAIN Tail(q) :
              /\ i \in Nat \ {0} /\ i + 1 \in DOMAIN q
              /\ Tail(q)[i] = q[i + 1]
  OBVIOUS

\* The service starts within the invariant.
LEMMA InitInv == Init => ServiceInv
<1> SUFFICES ASSUME Init PROVE ServiceInv
  OBVIOUS
<1>1. << >> \in Seq(Peer) /\ DOMAIN << >> = {}
  OBVIOUS
<1>2. TypeOK
  <2>1. flag \in BOOLEAN
    BY Zenon DEF Init
  <2> QED
    BY <1>1, <2>1, SizesPositive DEF Init, TypeOK
<1>3. OneLateFrame /\ FramesIntact /\ LateShape
  BY DEF Init, OneLateFrame, FramesIntact, LateShape
<1>4. Waiting
  BY <1>1, NobodyIsNoPeer DEF Init, Waiting, Fresh
<1> QED
  BY <1>2, <1>3, <1>4 DEF ServiceInv

\* A new connection goes to the end of the queue.
LEMMA DialInv == ASSUME ServiceInv, NEW p \in Peer, Dial(p) PROVE ServiceInv'
<1> USE DEF ServiceInv
<1>0. conn \in [Peer -> {"out", "dialled", "open", "closed"}] /\ queue \in Seq(Peer)
  BY DEF TypeOK
<1>1. /\ queue' = Append(queue, p) /\ conn[p] = "out"
      /\ conn' = [conn EXCEPT ![p] = "dialled"]
      /\ UNCHANGED <<pc, cur, inbuf, handled, held, late, sent, wire, unread,
                     flag, owner>>
  BY DEF Dial, thread
<1>2. /\ queue' \in Seq(Peer) /\ DOMAIN queue' = 1..(Len(queue) + 1)
      /\ DOMAIN queue = 1..Len(queue) /\ Len(queue) \in Nat
      /\ queue'[Len(queue) + 1] = p
      /\ \A i \in DOMAIN queue : queue'[i] = queue[i] /\ queue[i] \in Peer
  BY <1>0, <1>1, QueueElements
<1>3. TypeOK'
  BY <1>1, <1>2 DEF TypeOK
<1>4. OneLateFrame' /\ FramesIntact' /\ LateShape'
  BY <1>1 DEF OneLateFrame, FramesIntact, LateShape
<1>5. Fresh(p) /\ p # cur /\ (\A i \in DOMAIN queue : queue[i] # p)
  BY <1>1 DEF Waiting
<1>6. \A i \in DOMAIN queue' : \/ i = Len(queue) + 1 /\ queue'[i] = p
                               \/ i \in DOMAIN queue /\ queue'[i] = queue[i]
  BY <1>2
<1>7. Waiting'
  <2>1. \A q \in Peer : conn'[q] = "out" => Fresh(q)' /\ q # cur'
    BY <1>0, <1>1 DEF Waiting, Fresh
  <2>2. \A i \in DOMAIN queue' :
          /\ Fresh(queue[i])' /\ queue'[i] # cur'
          /\ conn'[queue'[i]] \in {"dialled", "closed"}
    BY <1>0, <1>1, <1>2, <1>5, <1>6 DEF Waiting, Fresh
  <2>3. \A i, j \in DOMAIN queue' : queue'[i] = queue'[j] => i = j
    BY <1>5, <1>6 DEF Waiting
  <2>4. pc' = "handshake" => Fresh(cur)' /\ conn'[cur'] \in {"dialled", "closed"}
    BY <1>0, <1>1, <1>5 DEF Waiting, Fresh, TypeOK
  <2>5. pc' \in {"accept", "stopped", "handshake"} => inbuf' = 0
    BY <1>1 DEF Waiting
  <2> QED
    BY <2>1, <2>2, <2>3, <2>4, <2>5 DEF Waiting, Fresh
<1> QED
  BY <1>3, <1>4, <1>7

\* Only the connection being served sends.
LEMMA SendInv == ASSUME ServiceInv, NEW p \in Peer, SendPiece(p) PROVE ServiceInv'
<1> USE DEF ServiceInv
<1>1. conn[p] = "open" /\ cur = p
  BY DEF SendPiece, TypeOK
<1>2. /\ sent' = [sent EXCEPT ![p] = @ + 1] /\ wire' = [wire EXCEPT ![p] = @ + 1]
      /\ UNCHANGED <<pc, cur, inbuf, handled, held, late, queue, conn, unread,
                     flag, owner>>
  BY DEF SendPiece, thread
<1>3. TypeOK'
  BY <1>2, SMTT(30) DEF TypeOK
<1>4. FramesIntact'
  <2>1. /\ sent[p] \in Nat /\ wire[p] \in Nat /\ inbuf \in Nat
        /\ handled[p] \in Nat /\ FrameLen * handled[p] \in Nat
    BY SizesPositive DEF TypeOK
  <2>2. sent[p] = wire[p] + inbuf + FrameLen * handled[p]
    BY <1>1, NobodyIsNoPeer DEF FramesIntact
  <2>3. sent'[p] = sent[p] + 1 /\ wire'[p] = wire[p] + 1
    BY <1>2 DEF TypeOK
  <2> DEFINE taken == FrameLen * handled[p]
  <2>4. sent[p] + 1 = wire[p] + 1 + inbuf + taken
    <3> HIDE DEF taken
    <3> QED BY <2>1, <2>2 DEF taken
  <2> QED
    BY <1>1, <1>2, <2>3, <2>4 DEF FramesIntact
<1>5. OneLateFrame' /\ LateShape'
  BY <1>2 DEF OneLateFrame, LateShape
<1>6. Waiting'
  <2>1. \A q \in Peer : q # p => (Fresh(q)' <=> Fresh(q))
    BY <1>2 DEF Fresh, TypeOK
  <2>2. \A i \in DOMAIN queue : queue[i] \in Peer /\ queue[i] # p
    BY <1>1 DEF Waiting, TypeOK
  <2> QED
    BY <1>1, <1>2, <2>1, <2>2 DEF Waiting, Fresh
<1> QED
  BY <1>3, <1>4, <1>5, <1>6

\* Reading results, hanging up, and the owner's steps touch no frame.
LEMMA QuietInv ==
  ASSUME ServiceInv,
         \/ \E p \in Peer : ReadResult(p) \/ HangUp(p)
         \/ Shutdown \/ Joined \/ UNCHANGED vars
  PROVE  ServiceInv'
<1> USE DEF ServiceInv
<1>1. UNCHANGED <<thread, queue, sent, wire>>
  BY DEF ReadResult, HangUp, Shutdown, Joined, vars, peers
<1>2. \/ UNCHANGED conn
      \/ \E p \in Peer : /\ conn[p] \in {"dialled", "open"}
                         /\ conn' = [conn EXCEPT ![p] = "closed"]
  BY DEF ReadResult, HangUp, Shutdown, Joined, vars, peers
<1>3. conn' \in [Peer -> {"out", "dialled", "open", "closed"}]
      /\ \A q \in Peer : /\ conn'[q] \in {"out", "open"} => conn'[q] = conn[q]
                         /\ conn[q] \in {"dialled", "closed"} =>
                              conn'[q] \in {"dialled", "closed"}
  BY <1>2 DEF TypeOK
<1>4. unread' \in [Peer -> 0..Window]
  <2>1. CASE UNCHANGED unread
    BY <2>1 DEF TypeOK
  <2>2. CASE \E p \in Peer : ReadResult(p)
    BY <2>2, SizesPositive DEF ReadResult, TypeOK
  <2> QED
    BY <2>1, <2>2 DEF HangUp, Shutdown, Joined, vars, peers
<1>5. /\ flag' \in BOOLEAN /\ owner' \in {"running", "joining", "returned"}
      /\ flag => flag'
  BY Zenon DEF ReadResult, HangUp, Shutdown, Joined, vars, peers, TypeOK
<1>6. TypeOK'
  BY <1>1, <1>3, <1>4, <1>5 DEF TypeOK, thread
<1>7. OneLateFrame' /\ FramesIntact' /\ LateShape'
  BY <1>1, <1>5 DEF OneLateFrame, FramesIntact, LateShape, thread
<1>8. Waiting'
  <2>1. \A i \in DOMAIN queue : queue[i] \in Peer
    BY DEF TypeOK
  <2>2. pc = "handshake" => cur \in Peer
    BY DEF TypeOK
  <2> QED
    BY <1>1, <1>3, <2>1, <2>2 DEF Waiting, Fresh, thread
<1> QED
  BY <1>6, <1>7, <1>8

-----------------------------------------------------------------------------

\* A dropped connection leaves no current connection and an empty buffer.
LEMMA DropInv ==
  ASSUME ServiceInv, Drop, pc \in {"handshake", "serve", "recv", "send"},
         UNCHANGED <<handled, late, queue, sent, wire, unread, flag, owner>>
  PROVE  ServiceInv'
<1> USE DEF ServiceInv
<1>1. cur \in Peer
  BY DEF TypeOK
<1>2. /\ pc' = "accept" /\ cur' = NoPeer /\ inbuf' = 0 /\ held' = 0
      /\ conn' = [conn EXCEPT ![cur] = "closed"]
  BY DEF Drop
<1>3. TypeOK'
  BY <1>1, <1>2 DEF TypeOK
<1>4. OneLateFrame' /\ FramesIntact' /\ LateShape'
  BY <1>2 DEF OneLateFrame, FramesIntact, LateShape
<1>5. Waiting'
  <2>1. \A i \in DOMAIN queue : queue[i] \in Peer
    BY DEF TypeOK
  <2>2. conn \in [Peer -> {"out", "dialled", "open", "closed"}]
    BY DEF TypeOK
  <2> QED
    BY <1>1, <1>2, <2>1, <2>2, NobodyIsNoPeer DEF Waiting, Fresh
<1> QED
  BY <1>3, <1>4, <1>5

\* Taking the next connection, or stopping.
LEMMA AcceptInv == ServiceInv /\ Accept => ServiceInv'
<1> SUFFICES ASSUME ServiceInv, Accept PROVE ServiceInv'
  OBVIOUS
<1> USE DEF ServiceInv
<1>0. UNCHANGED <<inbuf, handled, held, late, conn, sent, wire, unread, flag, owner>>
      /\ pc = "accept" /\ cur = NoPeer /\ inbuf = 0
  BY DEF Accept, Waiting, TypeOK
<1>1. CASE pc' = "stopped" /\ UNCHANGED <<cur, queue>>
  BY <1>0, <1>1 DEF TypeOK, OneLateFrame, FramesIntact, LateShape, Waiting, Fresh
<1>2. CASE /\ queue # << >>
           /\ pc' = "handshake" /\ cur' = Head(queue) /\ queue' = Tail(queue)
  <2>1. /\ queue' \in Seq(Peer) /\ 1 \in DOMAIN queue
        /\ cur' = queue[1] /\ cur' \in Peer
        /\ \A i \in DOMAIN queue' : /\ i \in Nat \ {0} /\ i + 1 \in DOMAIN queue
                                    /\ queue'[i] = queue[i + 1]
    BY <1>2, QueueTail DEF TypeOK
  <2>2. Fresh(cur)' /\ conn'[cur'] \in {"dialled", "closed"}
    BY <1>0, <2>1 DEF Waiting, Fresh
  <2>3. TypeOK'
    BY <1>0, <1>2, <2>1, NobodyIsNoPeer DEF TypeOK
  <2>4. FramesIntact'
    BY <1>0, <2>2, SizesPositive DEF FramesIntact, Fresh
  <2>5. OneLateFrame' /\ LateShape'
    BY <1>0, <1>2 DEF OneLateFrame, LateShape
  <2>6. \A i, j \in DOMAIN queue' : queue'[i] = queue'[j] => i = j
    <3> SUFFICES ASSUME NEW i \in DOMAIN queue', NEW j \in DOMAIN queue',
                        queue'[i] = queue'[j]
                 PROVE  i = j
      OBVIOUS
    <3>1. i + 1 = j + 1
      BY <2>1 DEF Waiting
    <3> QED
      BY <3>1, <2>1
  <2>7. \A i \in DOMAIN queue' :
          /\ Fresh(queue[i])' /\ queue'[i] # cur'
          /\ conn'[queue'[i]] \in {"dialled", "closed"}
    <3> SUFFICES ASSUME NEW i \in DOMAIN queue'
                 PROVE  /\ Fresh(queue[i])' /\ queue'[i] # cur'
                        /\ conn'[queue'[i]] \in {"dialled", "closed"}
      OBVIOUS
    <3>1. i + 1 \in DOMAIN queue /\ queue'[i] = queue[i + 1] /\ i + 1 # 1
      BY <2>1
    <3>2. queue[i + 1] # queue[1]
      BY <3>1, <2>1 DEF Waiting
    <3> QED
      BY <1>0, <2>1, <3>1, <3>2 DEF Waiting, Fresh
  <2>8. \A p \in Peer : conn'[p] = "out" => Fresh(p)' /\ p # cur'
    BY <1>0, <2>2 DEF Waiting, Fresh
  <2>9. Waiting'
    BY <1>0, <2>2, <2>6, <2>7, <2>8 DEF Waiting, Fresh
  <2> QED
    BY <2>3, <2>4, <2>5, <2>9
<1> QED
  BY <1>1, <1>2 DEF Accept

\* A handshake opens the connection or drops it.
LEMMA HandshakeInv == ServiceInv /\ Handshake => ServiceInv'
<1> SUFFICES ASSUME ServiceInv, Handshake PROVE ServiceInv'
  OBVIOUS
<1>1. /\ pc = "handshake"
      /\ UNCHANGED <<handled, late, queue, sent, wire, unread, flag, owner>>
  BY DEF Handshake
<1>2. CASE Drop
  BY <1>1, <1>2, DropInv
<1>3. CASE /\ conn[cur] = "dialled" /\ pc' = "serve"
           /\ conn' = [conn EXCEPT ![cur] = "open"]
           /\ UNCHANGED <<cur, inbuf, held>>
  <2> USE DEF ServiceInv
  <2>1. cur \in Peer /\ conn \in [Peer -> {"out", "dialled", "open", "closed"}]
    BY <1>1 DEF TypeOK
  <2>2. TypeOK'
    BY <1>1, <1>3, <2>1 DEF TypeOK
  <2>3. OneLateFrame' /\ FramesIntact' /\ LateShape'
    BY <1>1, <1>3 DEF OneLateFrame, FramesIntact, LateShape
  <2>4. \A i \in DOMAIN queue : queue[i] \in Peer
    BY DEF TypeOK
  <2>5. Waiting'
    BY <1>1, <1>3, <2>1, <2>4 DEF Waiting, Fresh
  <2> QED
    BY <2>2, <2>3, <2>5
<1> QED
  BY <1>2, <1>3 DEF Handshake

\* The thread waits for a frame only with the flag down.
LEMMA CheckInv == ServiceInv /\ CheckFlag => ServiceInv'
<1> SUFFICES ASSUME ServiceInv, CheckFlag PROVE ServiceInv'
  OBVIOUS
<1>1. /\ pc = "serve"
      /\ UNCHANGED <<handled, late, queue, sent, wire, unread, flag, owner>>
  BY DEF CheckFlag
<1>2. CASE Drop
  BY <1>1, <1>2, DropInv
<1>3. CASE ~ flag /\ pc' = "recv" /\ UNCHANGED <<cur, conn, inbuf, held>>
  BY <1>1, <1>3 DEF ServiceInv, TypeOK, OneLateFrame, FramesIntact, LateShape,
                    Waiting, Fresh
<1> QED
  BY <1>2, <1>3 DEF CheckFlag

\* One whole frame leaves the buffer; it is the first late one if it is late.
LEMMA TakeInv == ServiceInv /\ TakeFrame => ServiceInv'
<1> SUFFICES ASSUME ServiceInv, TakeFrame PROVE ServiceInv'
  OBVIOUS
<1> USE DEF ServiceInv
<1>1. /\ pc = "recv" /\ inbuf >= FrameLen /\ inbuf' = inbuf - FrameLen
      /\ handled' = [handled EXCEPT ![cur] = @ + 1]
      /\ late' = (IF flag THEN late + 1 ELSE late)
      /\ pc' \in {"serve", "send"} /\ held' \in {held, held + 1}
      /\ UNCHANGED <<cur, queue, conn, sent, wire, unread, flag, owner>>
  BY DEF TakeFrame, Whole, peers
<1>2. late = 0 /\ cur \in Peer
  BY <1>1 DEF LateShape, TypeOK
<1>3. TypeOK'
  BY <1>1, <1>2, SizesPositive DEF TypeOK
<1>4. OneLateFrame' /\ LateShape'
  BY <1>1, <1>2 DEF OneLateFrame, LateShape
<1>5. FramesIntact'
  <2>1. /\ sent[cur] \in Nat /\ wire[cur] \in Nat /\ inbuf \in Nat
        /\ handled[cur] \in Nat /\ FrameLen \in Nat
    BY <1>2, SizesPositive DEF TypeOK
  <2>2. sent[cur] = wire[cur] + inbuf + FrameLen * handled[cur]
    BY <1>2, NobodyIsNoPeer DEF FramesIntact
  <2>3. FrameLen * (handled[cur] + 1) = FrameLen * handled[cur] + FrameLen
        /\ FrameLen * handled[cur] \in Nat
    BY <2>1
  <2>4. handled'[cur] = handled[cur] + 1
    BY <1>1, <1>2 DEF TypeOK
  <2> DEFINE old == FrameLen * handled[cur]
  <2>5. sent[cur] = wire[cur] + (inbuf - FrameLen) + (old + FrameLen)
    <3> HIDE DEF old
    <3> QED BY <2>1, <2>2, <2>3 DEF old
  <2> QED
    BY <1>1, <2>3, <2>4, <2>5 DEF FramesIntact
<1>6. Waiting'
  <2>1. \A q \in Peer : q # cur => handled'[q] = handled[q]
    BY <1>1 DEF TypeOK
  <2>2. \A i \in DOMAIN queue : queue[i] \in Peer
    BY DEF TypeOK
  <2> QED
    BY <1>1, <2>1, <2>2 DEF Waiting, Fresh
<1> QED
  BY <1>3, <1>4, <1>5, <1>6

\* Pieces move from the wire to the buffer.
LEMMA ReadInv == ServiceInv /\ ReadMore => ServiceInv'
<1> SUFFICES ASSUME ServiceInv, ReadMore PROVE ServiceInv'
  OBVIOUS
<1> USE DEF ServiceInv
<1>1. PICK n \in 1..wire[cur] :
        /\ pc = "recv" /\ inbuf' = inbuf + n
        /\ wire' = [wire EXCEPT ![cur] = @ - n]
        /\ UNCHANGED <<pc, cur, handled, held, late, queue, conn, sent, unread,
                       flag, owner>>
  BY DEF ReadMore
<1>2. cur \in Peer /\ wire[cur] \in Nat
  BY <1>1 DEF TypeOK
<1>3. TypeOK'
  BY <1>1, <1>2 DEF TypeOK
<1>4. OneLateFrame' /\ LateShape'
  BY <1>1 DEF OneLateFrame, LateShape
<1>5. FramesIntact'
  <2>1. /\ sent[cur] \in Nat /\ inbuf \in Nat /\ n \in Nat
        /\ FrameLen * handled[cur] \in Nat
    BY <1>2, SizesPositive DEF TypeOK
  <2>2. sent[cur] = wire[cur] + inbuf + FrameLen * handled[cur]
    BY <1>2, NobodyIsNoPeer DEF FramesIntact
  <2>3. wire'[cur] = wire[cur] - n
    BY <1>1, <1>2 DEF TypeOK
  <2> DEFINE taken == FrameLen * handled[cur]
  <2>4. sent[cur] = (wire[cur] - n) + (inbuf + n) + taken
    <3> HIDE DEF taken
    <3> QED BY <1>2, <2>1, <2>2 DEF taken
  <2> QED
    BY <1>1, <2>3, <2>4 DEF FramesIntact
<1>6. Waiting'
  <2>1. \A q \in Peer : q # cur => wire'[q] = wire[q]
    BY <1>1 DEF TypeOK
  <2>2. \A i \in DOMAIN queue : queue[i] \in Peer
    BY DEF TypeOK
  <2> QED
    BY <1>1, <2>1, <2>2 DEF Waiting, Fresh
<1> QED
  BY <1>3, <1>4, <1>5, <1>6

\* The other ways a read can end, and the answer.
LEMMA RestInv ==
  ServiceInv /\ (ReadTimeout \/ ReadEnd \/ ReadFault \/ SendResult) => ServiceInv'
<1>1. ASSUME ServiceInv, ReadTimeout PROVE ServiceInv'
  BY <1>1 DEF ReadTimeout, peers, ServiceInv, TypeOK, OneLateFrame, FramesIntact,
              LateShape, Waiting, Fresh
<1>2. ASSUME ServiceInv, ReadEnd \/ ReadFault PROVE ServiceInv'
  BY <1>2, DropInv DEF ReadEnd, ReadFault
<1>3. ASSUME ServiceInv, SendResult PROVE ServiceInv'
  <2>1. pc = "send" /\ UNCHANGED <<handled, late, queue, sent, wire, flag, owner>>
    BY <1>3 DEF SendResult
  <2>2. CASE Drop /\ UNCHANGED unread
    BY <1>3, <2>1, <2>2, DropInv
  <2>3. CASE /\ unread[cur] < Window
             /\ unread' = [unread EXCEPT ![cur] = @ + 1]
             /\ pc' = "serve"
             /\ UNCHANGED <<cur, conn, inbuf, held>>
    <3>1. unread' \in [Peer -> 0..Window]
      BY <1>3, <2>1, <2>3, SizesPositive DEF ServiceInv, TypeOK
    <3>2. TypeOK'
      BY <1>3, <2>1, <2>3, <3>1 DEF ServiceInv, TypeOK
    <3> QED
      BY <1>3, <2>1, <2>3, <3>2 DEF ServiceInv, OneLateFrame, FramesIntact,
                                    LateShape, Waiting, Fresh
  <2> QED
    BY <1>3, <2>2, <2>3 DEF SendResult
<1> QED
  BY <1>1, <1>2, <1>3

-----------------------------------------------------------------------------

\* The invariant holds in every reachable state of the service.
THEOREM ServiceInvariant == Spec => []ServiceInv
<1>1. ServiceInv /\ [Next]_vars => ServiceInv'
  BY DialInv, SendInv, QuietInv, AcceptInv, HandshakeInv, CheckInv, TakeInv,
     ReadInv, RestInv DEF Next, ServiceStep, PeerStep
<1> QED
  BY <1>1, InitInv, PTL DEF Spec

\* However frames are queued and split, at most one is acted on after shutdown
\* was requested (the flag check at the head of serve_connection's loop).
THEOREM ShutdownIsPrompt == Spec => []OneLateFrame
  BY ServiceInvariant, PTL DEF ServiceInv

\* However the bytes of a connection are split and whenever reads time out, they
\* are cut into the frames that were sent (recv_framed and decode_frame).
THEOREM StreamStaysInStep == Spec => []FramesIntact
  BY ServiceInvariant, PTL DEF ServiceInv

\* The service's safety as a whole, its types and the state of its connections
\* included (control_accept_loop and serve_connection).
THEOREM ServiceIsSafe == Spec => []ServiceSafe
  BY ServiceInvariant, PTL DEF ServiceInv, ServiceSafe
=============================================================================
