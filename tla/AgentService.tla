---------------------------- MODULE AgentService ----------------------------
(***************************************************************************)
(* The agent's control service (crates/agent/src/lib.rs): one thread that  *)
(* accepts connections and serves them one after the other, and the owner  *)
(* of its handle, who stops it.  The carrier underneath is                 *)
(* server/transport-tls/src/stream.rs with the framing of                  *)
(* server/transport/src/lib.rs.                                            *)
(*                                                                         *)
(* A frame is FrameLen pieces long and arrives piece by piece; what a      *)
(* frame says is in ControlLoop, here it is answered or ignored, and an    *)
(* answered one may stay held by the scheduler of the connection's loop.   *)
(* Reads time out after CONN_READ_TIMEOUT; no write timeout is set, so a   *)
(* write waits for room in the peer's receive window (Window results).     *)
(* Peers dial, send, read and hang up as they like.                        *)
(***************************************************************************)
EXTENDS Integers, Sequences

CONSTANTS Peer,      \* control-plane clients
          NoPeer,    \* no connection is being served
          FrameLen,  \* pieces a frame arrives in
          Window,    \* results the peer's receive window holds unread
          MaxSent    \* bound: pieces a peer sends

ASSUME SizesPositive ==
  /\ FrameLen \in Nat \ {0} /\ Window \in Nat \ {0}
  /\ MaxSent \in Nat
ASSUME NobodyIsNoPeer == NoPeer \notin Peer

VARIABLES pc,       \* where the service thread is
          flag,     \* shutdown_flag
          owner,    \* the caller of ControlServiceHandle::shutdown
          queue,    \* connections the listener has not accepted yet
          conn,     \* the peer's side of its connection
          cur,      \* the connection being served
          sent,     \* pieces the peer has sent
          wire,     \* pieces not read yet
          inbuf,    \* TlsServerTransport.inbuf, in pieces
          handled,  \* frames of the peer taken by serve_one
          unread,   \* results the peer has not read
          held,     \* commands the scheduler of the connection's loop holds
          late      \* frames taken since the flag was set

thread == <<pc, cur, inbuf, handled, held, late>>
peers  == <<queue, conn, sent, wire, unread>>
vars   == <<thread, peers, flag, owner>>

Init ==
  /\ pc = "accept" /\ cur = NoPeer
  /\ inbuf = 0 /\ held = 0 /\ late = 0
  /\ handled = [p \in Peer |-> 0]
  /\ queue = << >>
  /\ conn = [p \in Peer |-> "out"]
  /\ sent = [p \in Peer |-> 0] /\ wire = [p \in Peer |-> 0]
  /\ unread = [p \in Peer |-> 0]
  /\ flag = FALSE /\ owner = "running"

-----------------------------------------------------------------------------
(* The peers. *)

Dial(p) ==
  /\ conn[p] = "out"
  /\ conn' = [conn EXCEPT ![p] = "dialled"]
  /\ queue' = Append(queue, p)
  /\ UNCHANGED <<thread, sent, wire, unread, flag, owner>>

SendPiece(p) ==
  /\ conn[p] = "open" /\ sent[p] < MaxSent
  /\ sent' = [sent EXCEPT ![p] = @ + 1]
  /\ wire' = [wire EXCEPT ![p] = @ + 1]
  /\ UNCHANGED <<thread, queue, conn, unread, flag, owner>>

ReadResult(p) ==
  /\ unread[p] > 0
  /\ unread' = [unread EXCEPT ![p] = @ - 1]
  /\ UNCHANGED <<thread, queue, conn, sent, wire, flag, owner>>

HangUp(p) ==
  /\ conn[p] \in {"dialled", "open"}
  /\ conn' = [conn EXCEPT ![p] = "closed"]
  /\ UNCHANGED <<thread, queue, sent, wire, unread, flag, owner>>

-----------------------------------------------------------------------------
(* The owner of the handle. *)

\* signal_and_join, by shutdown or by drop: set the flag, then wait.
Shutdown ==
  /\ owner = "running"
  /\ owner' = "joining" /\ flag' = TRUE
  /\ UNCHANGED <<thread, peers>>

Joined ==
  /\ owner = "joining" /\ pc = "stopped"
  /\ owner' = "returned"
  /\ UNCHANGED <<thread, peers, flag>>

-----------------------------------------------------------------------------
(* The service thread. *)

\* The connection and its AgentControlLoop are dropped, held commands too.
Drop ==
  /\ pc' = "accept" /\ cur' = NoPeer
  /\ conn' = [conn EXCEPT ![cur] = "closed"]
  /\ inbuf' = 0 /\ held' = 0

\* control_accept_loop between two connections.
Accept ==
  /\ pc = "accept"
  /\ \/ /\ flag
        /\ pc' = "stopped"
        /\ UNCHANGED <<cur, queue>>
     \/ /\ ~ flag
        /\ queue # << >>
        /\ pc' = "handshake" /\ cur' = Head(queue) /\ queue' = Tail(queue)
  /\ UNCHANGED <<inbuf, handled, held, late, conn, sent, wire, unread, flag, owner>>

\* accept of transport-tls: refused, timed out or broken handshakes drop the
\* connection, any other opens it with a new loop.
Handshake ==
  /\ pc = "handshake"
  /\ \/ Drop
     \/ /\ conn[cur] = "dialled"
        /\ pc' = "serve"
        /\ conn' = [conn EXCEPT ![cur] = "open"]
        /\ UNCHANGED <<cur, inbuf, held>>
  /\ UNCHANGED <<handled, late, queue, sent, wire, unread, flag, owner>>

\* Mutant: the flag is not looked at while a connection is served.
CheckNothing ==
  /\ pc = "serve"
  /\ pc' = "recv"
  /\ UNCHANGED <<cur, inbuf, handled, held, late, peers, flag, owner>>

\* The head of the loop in serve_connection.
CheckFlag ==
  /\ pc = "serve"
  /\ \/ flag /\ Drop
     \/ ~ flag /\ pc' = "recv" /\ UNCHANGED <<cur, conn, inbuf, held>>
  /\ UNCHANGED <<handled, late, queue, sent, wire, unread, flag, owner>>

\* Mutant: only one frame at a time is expected in the buffer.
WholeExactly == inbuf = FrameLen

Whole == inbuf >= FrameLen

\* recv_framed with a whole frame buffered, and what serve_one does with it.
TakeFrame ==
  /\ pc = "recv" /\ Whole
  /\ inbuf' = inbuf - FrameLen
  /\ handled' = [handled EXCEPT ![cur] = @ + 1]
  /\ late' = IF flag THEN late + 1 ELSE late
  /\ \/ pc' = "serve" /\ held' = held
     \/ pc' = "send" /\ held' \in {held, held + 1}
  /\ UNCHANGED <<cur, peers, flag, owner>>

\* recv_framed reading on: some of what has arrived is appended.
ReadMore ==
  /\ pc = "recv" /\ ~ Whole
  /\ \E n \in 1..wire[cur] :
       /\ inbuf' = inbuf + n
       /\ wire' = [wire EXCEPT ![cur] = @ - n]
  /\ UNCHANGED <<pc, cur, handled, held, late, queue, conn, sent, unread, flag, owner>>

\* Mutant: a timeout discards the partial frame.
ReadTimeoutDiscards ==
  /\ pc = "recv" /\ ~ Whole
  /\ wire[cur] = 0 /\ conn[cur] = "open"
  /\ pc' = "serve" /\ inbuf' = 0
  /\ UNCHANGED <<cur, handled, held, late, peers, flag, owner>>

\* Nothing arrived for CONN_READ_TIMEOUT: the partial frame is kept.
ReadTimeout ==
  /\ pc = "recv" /\ ~ Whole
  /\ wire[cur] = 0 /\ conn[cur] = "open"
  /\ pc' = "serve"
  /\ UNCHANGED <<cur, inbuf, handled, held, late, peers, flag, owner>>

\* End of stream, even in the middle of a frame.
ReadEnd ==
  /\ pc = "recv" /\ ~ Whole
  /\ wire[cur] = 0 /\ conn[cur] = "closed"
  /\ Drop
  /\ UNCHANGED <<handled, late, queue, sent, wire, unread, flag, owner>>

\* A read error or a length prefix decode_frame refuses.
ReadFault ==
  /\ pc = "recv" /\ ~ Whole
  /\ Drop
  /\ UNCHANGED <<handled, late, queue, sent, wire, unread, flag, owner>>

\* transport.send: the write waits for room, or fails once the peer is gone.
SendResult ==
  /\ pc = "send"
  /\ \/ /\ conn[cur] = "open" /\ unread[cur] < Window
        /\ unread' = [unread EXCEPT ![cur] = @ + 1]
        /\ pc' = "serve"
        /\ UNCHANGED <<cur, conn, inbuf, held>>
     \/ /\ conn[cur] = "closed"
        /\ Drop
        /\ UNCHANGED unread
  /\ UNCHANGED <<handled, late, queue, sent, wire, flag, owner>>

ServiceStep ==
  \/ Accept \/ Handshake \/ CheckFlag
  \/ TakeFrame \/ ReadMore \/ ReadTimeout \/ ReadEnd \/ ReadFault
  \/ SendResult

PeerStep ==
  \E p \in Peer : Dial(p) \/ SendPiece(p) \/ ReadResult(p) \/ HangUp(p)

Next == ServiceStep \/ PeerStep \/ Shutdown \/ Joined

Spec == Init /\ [][Next]_vars

\* The operating system runs both threads.  Nothing is assumed of the peers.
FairSpec == Spec /\ WF_vars(ServiceStep) /\ WF_vars(Joined)

\* In addition the peers read their results.
ReadingPeersSpec == FairSpec /\ \A p \in Peer : WF_vars(ReadResult(p))

-----------------------------------------------------------------------------
(* Properties. *)

\* Every variable has its type, and a connection is served by being current.
TypeOK ==
  /\ pc \in {"accept", "handshake", "serve", "recv", "send", "stopped"}
  /\ flag \in BOOLEAN /\ owner \in {"running", "joining", "returned"}
  /\ queue \in Seq(Peer) /\ cur \in Peer \cup {NoPeer}
  /\ conn \in [Peer -> {"out", "dialled", "open", "closed"}]
  /\ sent \in [Peer -> Nat] /\ wire \in [Peer -> Nat]
  /\ handled \in [Peer -> Nat] /\ unread \in [Peer -> 0..Window]
  /\ inbuf \in Nat /\ held \in Nat /\ late \in Nat
  /\ cur = NoPeer <=> pc \in {"accept", "stopped"}
  /\ \A p \in Peer : conn[p] = "open" => cur = p

\* The flag is checked before every frame: of everything the peers have queued,
\* at most the one frame already waited for is acted on after shutdown.
OneLateFrame == late <= 1

\* No piece is lost, repeated or moved to another frame by the way the bytes
\* were split or by read timeouts in the middle of a frame (recv_framed keeps
\* inbuf, decode_frame drains exactly one frame).
FramesIntact ==
  cur # NoPeer => sent[cur] = wire[cur] + inbuf + FrameLen * handled[cur]

\* Whatever the peers send and whenever they leave: one late frame at most, and a
\* stream that stays in step.
ServiceSafe == TypeOK /\ OneLateFrame /\ FramesIntact

\* Every frame sent in full is acted on, unless the connection ends first.
FrameIsServed ==
  \A p \in Peer : \A k \in 1..MaxSent :
    sent[p] >= k * FrameLen ~> handled[p] >= k \/ conn[p] = "closed"

\* ControlServiceHandle::shutdown returns.
ShutdownReturns == flag ~> owner = "returned"

-----------------------------------------------------------------------------
(* What comments in the code say and the code does not do. *)

\* AgentControlLoop::tick, "The agent calls this periodically": what is held is
\* released or dropped sooner or later.
HeldIsReleased == held > 0 ~> held = 0
=============================================================================
