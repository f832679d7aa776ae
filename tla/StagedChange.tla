---------------------------- MODULE StagedChange ----------------------------
(***************************************************************************)
(* What the remediation bridge promises, without its mechanism: a change   *)
(* goes through review, may be cleared, reaches its pilot hosts first, is  *)
(* proven there before it reaches the others, and once ended never spreads *)
(* again.  Reverting (shrinking the reach) is always allowed once cleared. *)
(***************************************************************************)
CONSTANTS Change,   \* the changes under control
          Host      \* where they can be put

VARIABLES phase,    \* how far each change has come
          scope,    \* the hosts its author named
          pilot,    \* those of them that go first
          reach     \* the hosts it is on

stagedVars == <<phase, scope, pilot, reach>>

Phase == {"none", "review", "cleared", "proven", "ended"}

StagedInit ==
  /\ phase = [c \in Change |-> "none"]
  /\ scope = [c \in Change |-> {}]
  /\ pilot = [c \in Change |-> {}]
  /\ reach = [c \in Change |-> {}]

\* A change is authored, or authored anew.
Author(c) ==
  /\ phase' = [phase EXCEPT ![c] = "review"]
  /\ \E s \in SUBSET Host : \E p \in SUBSET s :
       /\ s # {} /\ p # {}
       /\ scope' = [scope EXCEPT ![c] = s]
       /\ pilot' = [pilot EXCEPT ![c] = p]
  /\ UNCHANGED reach

Clear(c) ==
  /\ phase[c] = "review"
  /\ phase' = [phase EXCEPT ![c] = "cleared"]
  /\ UNCHANGED <<scope, pilot, reach>>

\* The pilot: it may reach the pilot hosts only, and proves the change or ends it.
Pilot(c) ==
  /\ phase[c] = "cleared"
  /\ \E p \in {"proven", "ended"}, r \in SUBSET (reach[c] \cup pilot[c]) :
       /\ phase' = [phase EXCEPT ![c] = p]
       /\ reach' = [reach EXCEPT ![c] = r]
  /\ UNCHANGED <<scope, pilot>>

\* The whole scope, once the pilot proved the change.
Spread(c) ==
  /\ phase[c] = "proven"
  /\ \E r \in SUBSET (reach[c] \cup scope[c]) :
       reach' = [reach EXCEPT ![c] = r]
  /\ phase' = [phase EXCEPT ![c] = "ended"]
  /\ UNCHANGED <<scope, pilot>>

\* Stopped at any point, or reverted where it already is.
End(c) ==
  /\ phase[c] # "none"
  /\ phase' = [phase EXCEPT ![c] = "ended"]
  /\ \E r \in SUBSET reach[c] :
       /\ reach' = [reach EXCEPT ![c] = r]
       /\ phase[c] \in {"review", "cleared"} => r = reach[c]
  /\ UNCHANGED <<scope, pilot>>

StagedNext ==
  \E c \in Change : Author(c) \/ Clear(c) \/ Pilot(c) \/ Spread(c) \/ End(c)

StagedSpec == StagedInit /\ [][StagedNext]_stagedVars
=============================================================================
