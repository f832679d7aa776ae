------------------------------ MODULE Session -------------------------------
(***************************************************************************)
(* The control channel between one issuer and one agent, over any number   *)
(* of connections: ControlPlaneClient and ResultCorrelator                 *)
(* (server/control-server/src/issuer.rs), ReplayGuard                      *)
(* (server/remediation/src/control.rs), the framed mutual-TLS stream       *)
(* (server/transport-tls/src/stream.rs) and the way the agent builds a new *)
(* guard for every connection (crates/agent/src/lib.rs).                   *)
(*                                                                         *)
(* A session id is derived from the TLS handshake, so it is new for every  *)
(* connection: sessions are numbered in the order of the connections.  A   *)
(* stream delivers whole frames in order and is lost with all it carries   *)
(* when the connection ends, for whatever reason (peer closed, I/O error,  *)
(* agent restarted).                                                       *)
(*                                                                         *)
(* What a command does is left to ControlLoop: the bridge either carries   *)
(* it out ("Applied") or a gate behind the guard refuses it ("Rejected").  *)
(* With Hostile, frames that were sent before are put on the stream again  *)
(* and frames with a bad signature are put on it in both directions.       *)
(***************************************************************************)
EXTENDS Integers, Sequences, FiniteSets

CONSTANTS MaxConn,    \* bound: connections in the life of the issuer
          MaxSeq,     \* bound: sequence numbers of a session
          MaxFlight,  \* bound: frames under way in either direction
          MaxRuns,    \* bound of the run counter; a second run is already wrong
          Hostile     \* whether the stream is tampered with

ASSUME BoundsAreNat == /\ MaxConn \in Nat /\ MaxSeq \in Nat
                       /\ MaxFlight \in Nat /\ MaxRuns \in Nat \ {0}
ASSUME HostileIsBool == Hostile \in BOOLEAN

\* The (session, seq) freshness token of a command.
Token == (1..MaxConn) \X (1..MaxSeq)

Command == [token : Token, authentic : BOOLEAN]
Result  == [token : Token, outcome : {"Applied", "Rejected"},
            authentic : BOOLEAN]

VARIABLES conn,         \* session of the latest connection, 0 before the first
          open,         \* whether it is up
          hwm,          \* ReplayGuard.seen of that session
          toAgent,      \* command frames on the stream
          toIssuer,     \* result frames on the stream
          signed,       \* tokens the issuer has signed a command for
          outstanding,  \* ResultCorrelator.outstanding
          runs,         \* how often the command of a token was carried out
          answered,     \* the results the agent has signed
          believed      \* the results the issuer has accepted

vars == <<conn, open, hwm, toAgent, toIssuer, signed, outstanding, runs,
          answered, believed>>

Room == Len(toAgent) + Len(toIssuer) < MaxFlight

-----------------------------------------------------------------------------
(* Connections. *)

\* accept and connect: a new session, and the agent opens it in a new guard.
AcceptConn ==
  /\ ~ open /\ conn < MaxConn
  /\ open' = TRUE
  /\ conn' = conn + 1
  /\ hwm' = 0
  /\ UNCHANGED <<toAgent, toIssuer, signed, outstanding, runs, answered,
                 believed>>

Disconnect ==
  /\ open
  /\ open' = FALSE
  /\ toAgent' = << >> /\ toIssuer' = << >>
  /\ UNCHANGED <<conn, hwm, signed, outstanding, runs, answered, believed>>

-----------------------------------------------------------------------------
(* The issuer. *)

\* send_command: the token is registered before the frame is sent.
Issue(token) ==
  /\ open /\ Room
  /\ outstanding' = outstanding \cup {token}
  /\ toAgent' = Append(toAgent, [token |-> token, authentic |-> TRUE])
  /\ UNCHANGED <<conn, open, hwm, toIssuer, runs, answered, believed>>

\* A new command, signed under the next number of the session.
SendCommand ==
  \E seq \in 1..MaxSeq :
    /\ \A s \in 1..MaxSeq : <<conn, s>> \in signed => s < seq
    /\ signed' = signed \cup {<<conn, seq>>}
    /\ Issue(<<conn, seq>>)

\* A command that has not been answered is sent again as it was signed.
Resend ==
  \E token \in outstanding : Issue(token) /\ UNCHANGED signed

\* Mutant: no check that a result is waited for.
AcceptsUnsolicited(r) == r.authentic

\* ResultCorrelator::accept: outstanding, then authentic.
Accepts(r) == r.token \in outstanding /\ r.authentic

\* await_result.
AwaitResult ==
  LET r == Head(toIssuer)
  IN /\ toIssuer # << >>
     /\ toIssuer' = Tail(toIssuer)
     /\ \/ /\ Accepts(r)
           /\ outstanding' = outstanding \ {r.token}
           /\ believed' = believed \cup {<<r.token, r.outcome>>}
        \/ /\ ~ Accepts(r)
           /\ UNCHANGED <<outstanding, believed>>
     /\ UNCHANGED <<conn, open, hwm, toAgent, signed, runs, answered>>

-----------------------------------------------------------------------------
(* The agent. *)

\* Mutant: a number of any session is compared with the mark.
AdmitsAnySession(token) == token[2] > hwm

\* ReplayGuard::admit: the session is open and the number is new.
Admits(token) == token[1] = conn /\ token[2] > hwm

\* Mutant: the guard is consulted, and moved, before the signature.
PassesUnverified(c) == Admits(c.token)

\* dispatch_fresh: only an authentic command touches the guard.
Passes(c) == c.authentic /\ Admits(c.token)

\* Mutant: a refusal is not answered.
RespondApplied(token, outcome) ==
  /\ toIssuer' = IF outcome = "Rejected" THEN toIssuer
                 ELSE Append(toIssuer, [token |-> token, outcome |-> outcome,
                                        authentic |-> TRUE])
  /\ answered' = answered \cup {<<token, outcome>>}

\* sign_outcome: every command frame is answered, under its own token.
Respond(token, outcome) ==
  /\ toIssuer' = Append(toIssuer, [token |-> token, outcome |-> outcome,
                                   authentic |-> TRUE])
  /\ answered' = answered \cup {<<token, outcome>>}

\* serve_one: only an authentic and fresh command reaches the bridge.
ServeOne ==
  LET c == Head(toAgent)
  IN /\ toAgent # << >>
     /\ toAgent' = Tail(toAgent)
     /\ \/ /\ ~ Passes(c)
           /\ Respond(c.token, "Rejected")
           /\ UNCHANGED <<hwm, runs>>
        \/ /\ Passes(c)
           /\ hwm' = c.token[2]
           /\ \/ /\ runs[c.token] < MaxRuns
                 /\ runs' = [runs EXCEPT ![c.token] = @ + 1]
                 /\ Respond(c.token, "Applied")
              \/ /\ UNCHANGED runs
                 /\ Respond(c.token, "Rejected")
     /\ UNCHANGED <<conn, open, signed, outstanding, believed>>

-----------------------------------------------------------------------------
(* Tampering with the stream. *)

Replay ==
  /\ Hostile /\ open /\ Room
  /\ \/ \E token \in signed :
          /\ toAgent' = Append(toAgent, [token |-> token, authentic |-> TRUE])
          /\ UNCHANGED toIssuer
     \/ \E a \in answered :
          /\ toIssuer' = Append(toIssuer, [token |-> a[1], outcome |-> a[2],
                                           authentic |-> TRUE])
          /\ UNCHANGED toAgent
  /\ UNCHANGED <<conn, open, hwm, signed, outstanding, runs, answered,
                 believed>>

Forge ==
  /\ Hostile /\ open /\ Room
  /\ \E token \in Token :
       \/ /\ toAgent' = Append(toAgent, [token |-> token, authentic |-> FALSE])
          /\ UNCHANGED toIssuer
       \/ /\ toIssuer' = Append(toIssuer, [token |-> token,
                                           outcome |-> "Applied",
                                           authentic |-> FALSE])
          /\ UNCHANGED toAgent
  /\ UNCHANGED <<conn, open, hwm, signed, outstanding, runs, answered,
                 believed>>

-----------------------------------------------------------------------------

Init ==
  /\ conn = 0 /\ open = FALSE /\ hwm = 0
  /\ toAgent = << >> /\ toIssuer = << >>
  /\ signed = {} /\ outstanding = {} /\ answered = {} /\ believed = {}
  /\ runs = [token \in Token |-> 0]

Next ==
  \/ AcceptConn \/ Disconnect
  \/ SendCommand \/ Resend \/ AwaitResult
  \/ ServeOne
  \/ Replay \/ Forge

Spec == Init /\ [][Next]_vars

\* The agent serves what it received and the issuer reads its answers; nobody
\* has to connect, send or stay connected.
FairSpec == Spec /\ WF_vars(ServeOne) /\ WF_vars(AwaitResult)

-----------------------------------------------------------------------------
(* Properties. *)

\* Every part of the channel's state has its type; a session that is open has
\* been numbered by a connection.
TypeOK ==
  /\ conn \in 0..MaxConn /\ open \in BOOLEAN /\ hwm \in 0..MaxSeq
  /\ open => conn > 0
  /\ toAgent \in Seq(Command) /\ toIssuer \in Seq(Result)
  /\ signed \subseteq Token /\ outstanding \subseteq Token
  /\ runs \in [Token -> 0..MaxRuns]
  /\ answered \subseteq Token \X {"Applied", "Rejected"}
  /\ believed \subseteq Token \X {"Applied", "Rejected"}

\* Whatever is re-sent, replayed or forged, on this connection or a later one:
\* a command is carried out only if it was signed, and never twice.
AtMostOnce ==
  \A token \in Token :
    /\ runs[token] <= 1
    /\ runs[token] > 0 => token \in signed

\* Nobody but the issuer can exhaust the numbers of a session: the guard's mark
\* is a number the issuer has signed, so its next one is always admitted
\* (dispatch_fresh, authenticate before mutating freshness).
NotBricked == hwm > 0 => <<conn, hwm>> \in signed

\* What the issuer believes was carried out was carried out.
BelievedApplied ==
  \A token \in Token :
    <<token, "Applied">> \in believed => runs[token] = 1

\* The issuer believes only what the agent answered to a command it issued.
BelievedAnswered == believed \subseteq answered /\
  \A b \in believed : b[1] \in signed

\* Whatever arrives: what the issuer believes is an answer to one of its commands,
\* and what it believes was carried out was, once.
BelievedTrue == BelievedApplied /\ BelievedAnswered

\* A command sent on a connection is answered, or the connection ends.
AnsweredOrCut ==
  \A token \in Token :
    (open /\ token[1] = conn /\ token \in outstanding)
      ~> (token \notin outstanding \/ ~ open)
=============================================================================
