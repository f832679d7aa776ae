---------------------------- MODULE BridgeProofs ----------------------------
(***************************************************************************)
(* Theorems about the remediation bridge, for every set of actions, hosts, *)
(* actors and drafts.                                                      *)
(***************************************************************************)
EXTENDS Bridge, FiniteSetTheorems, TLAPS

(***************************************************************************)
(* Facts about a drafted action.                                           *)
(***************************************************************************)

\* The cohort of a scoped action is a non-empty part of its targets: the
\* clamp cohort_size.max(1).min(len) never selects nobody.
LEMMA CohortFacts ==
  ASSUME NEW a \in Drafts, IsScoped(a)
  PROVE  /\ Cohort(a) # {}
         /\ Cohort(a) \subseteq Targets(a)
         /\ Targets(a) \subseteq Asset
<1>1. /\ a.asset_ids \in Seq(Asset)
      /\ a.cohort_size \in Nat
  BY DraftsAreActions DEF RemediationAction
<1>2. /\ Len(a.asset_ids) \in Nat \ {0}
      /\ DOMAIN a.asset_ids = 1..Len(a.asset_ids)
      /\ \A i \in DOMAIN a.asset_ids : a.asset_ids[i] \in Asset
  BY <1>1 DEF IsScoped
<1>3. CohortSize(a) \in 1..Len(a.asset_ids)
  BY <1>1, <1>2 DEF CohortSize
<1>4. 1 \in 1..CohortSize(a)
  BY <1>2, <1>3
<1>5. \A i \in 1..CohortSize(a) : i \in DOMAIN a.asset_ids
  BY <1>2, <1>3
<1> QED
  BY <1>2, <1>4, <1>5 DEF Cohort, Targets

\* Part of a finite set of hosts is finite and no larger.
LEMMA HostSets ==
  ASSUME NEW S \in SUBSET Asset, NEW T \in SUBSET S
  PROVE  /\ IsFiniteSet(S) /\ IsFiniteSet(T)
         /\ Cardinality(S) \in Nat /\ Cardinality(T) \in Nat
         /\ Cardinality(T) <= Cardinality(S)
         /\ (S # {} => Cardinality(S) >= 1)
<1>1. IsFiniteSet(S)
  BY AssetsFinite, FS_Subset
<1>2. IsFiniteSet(T) /\ Cardinality(T) <= Cardinality(S)
  BY <1>1, FS_Subset
<1>3. Cardinality(S) \in Nat /\ Cardinality(T) \in Nat
  BY <1>1, <1>2, FS_CardinalityType
<1>4. S # {} => Cardinality(S) # 0
  BY <1>1, FS_EmptySet
<1> QED
  BY <1>1, <1>2, <1>3, <1>4

-----------------------------------------------------------------------------
(* Type correctness. *)

\* An empty bridge is well typed.
LEMMA InitType == BridgeInit => BridgeTypeOK
  BY NothingIsNoDraft
     DEF BridgeInit, BridgeTypeOK, ActionState, HostState, Absent

\* What a stage does to the record and to the hosts is well typed.
LEMMA StageType ==
  ASSUME BridgeTypeOK, NEW id \in ActionId, NEW actor \in Actor,
         state[id] # Absent,
         NEW stage \in SUBSET Asset, NEW ok \in SUBSET Asset,
         NEW live \in SUBSET Asset, NEW stuck \in SUBSET Asset,
         NEW entered \in SUBSET ActionState, NEW to \in ActionState,
         SetState(id, entered, to, actor),
         \/ ApplyTargets(id, stage, ok)
         \/ ApplyThenRollback(id, stage, ok, live, stuck),
         ret' \in {"none", "Ok", "Err"},
         UNCHANGED action
  PROVE  BridgeTypeOK'
<1>1. /\ state' \in [ActionId -> ActionState \cup {Absent}]
      /\ by' \in [ActionId -> [ActionState -> Actor \cup {NoActor}]]
  BY DEF BridgeTypeOK, SetState
<1>2. applied' \in [ActionId -> SUBSET Asset]
  <2>1. applied \in [ActionId -> SUBSET Asset] /\ applied[id] \cup ok \in SUBSET Asset
    BY DEF BridgeTypeOK
  <2>2. \E S \in SUBSET Asset : applied' = [applied EXCEPT ![id] = S]
    BY <2>1 DEF ApplyTargets, ApplyThenRollback
  <2> QED
    BY <2>1, <2>2
<1>3. host' \in [ActionId -> [Asset -> HostState]]
  <2>1. host \in [ActionId -> [Asset -> HostState]]
    BY DEF BridgeTypeOK
  <2>2. CASE ApplyTargets(id, stage, ok)
    BY <2>1, <2>2 DEF ApplyTargets, HostState
  <2>3. CASE ApplyThenRollback(id, stage, ok, live, stuck)
    BY <2>1, <2>3 DEF ApplyThenRollback, HostState
  <2> QED
    BY <2>2, <2>3
<1>4. \A i \in ActionId : i # id =>
        /\ state'[i] = state[i] /\ applied'[i] = applied[i]
        /\ action'[i] = action[i]
  BY DEF BridgeTypeOK, SetState, ApplyTargets, ApplyThenRollback
<1>5. state'[id] # Absent
  BY DEF BridgeTypeOK, SetState, ActionState, Absent
<1> QED
  BY <1>1, <1>2, <1>3, <1>4, <1>5 DEF BridgeTypeOK

\* A guarded transition keeps the types.
LEMMA GuardedType ==
  ASSUME BridgeTypeOK, NEW id \in ActionId, NEW actor \in Actor,
         NEW allowed \in SUBSET ActionState, NEW to \in ActionState,
         Guarded(id, allowed, to, actor)
  PROVE  BridgeTypeOK'
<1>1. CASE Refuse(id)
  BY <1>1 DEF Refuse, Answer, BridgeTypeOK
<1>2. CASE /\ state[id] \in allowed
           /\ SetState(id, {to}, to, actor)
           /\ Answer("Ok")
           /\ UNCHANGED <<action, applied, host>>
  <2>1. state[id] # Absent
    BY <1>2 DEF ActionState, Absent
  <2> QED
    BY <1>2, <2>1 DEF SetState, Answer, BridgeTypeOK, ActionState, Absent
<1> QED
  BY <1>1, <1>2 DEF Guarded

\* So does a draft, stored or refused.
LEMMA DraftType ==
  ASSUME BridgeTypeOK, NEW id \in ActionId, NEW actor \in Actor,
         NEW a \in Drafts, Draft(id, a, actor)
  PROVE  BridgeTypeOK'
<1>1. CASE ~ IsScoped(a)
  BY <1>1 DEF Draft, Store, Answer, BridgeTypeOK
<1>2. CASE IsScoped(a)
  <2>0. /\ action' = [action EXCEPT ![id] = a]
        /\ state' = [state EXCEPT ![id] = "Drafted"]
        /\ host' = host
        /\ Answer("Ok")
    BY <1>2 DEF Draft, Store
  <2>1. /\ action' \in [ActionId -> Drafts \cup {NoDraft}]
        /\ state' \in [ActionId -> ActionState \cup {Absent}]
    BY <2>0 DEF BridgeTypeOK, ActionState
  <2>4. applied' \in [ActionId -> SUBSET Asset]
    <3>1. applied \in [ActionId -> SUBSET Asset] /\ {} \in SUBSET Asset
      BY DEF BridgeTypeOK
    <3>2. applied' = [applied EXCEPT ![id] = {}]
      BY <1>2 DEF Draft, Store
    <3> QED
      BY <3>1, <3>2
  <2>2. by' \in [ActionId -> [ActionState -> Actor \cup {NoActor}]]
    BY <1>2 DEF Draft, Store, BridgeTypeOK
  <2>3. /\ action'[id] = a /\ state'[id] = "Drafted"
        /\ \A i \in ActionId : i # id =>
             /\ action'[i] = action[i] /\ state'[i] = state[i]
             /\ applied'[i] = applied[i]
    BY <1>2 DEF Draft, Store, BridgeTypeOK
  <2> QED
    BY <1>2, <2>0, <2>1, <2>2, <2>3, <2>4 DEF BridgeTypeOK, Answer, Absent
<1> QED
  BY <1>1, <1>2

\* So does a canary.
LEMMA CanaryType ==
  ASSUME BridgeTypeOK, NEW id \in ActionId, NEW actor \in Actor,
         RunCanary(id, actor)
  PROVE  BridgeTypeOK'
<1>1. CASE state[id] # "Approved"
  BY <1>1 DEF RunCanary, Refuse, Answer, BridgeTypeOK
<1>2. CASE state[id] = "Approved"
  <2>1. state[id] # Absent /\ action[id] \in Drafts /\ IsScoped(action[id])
    BY <1>2 DEF BridgeTypeOK, Absent
  <2>0. applied[id] \in SUBSET Asset
    BY DEF BridgeTypeOK
  <2> DEFINE cohort == Cohort(action[id])
  <2>2. cohort \in SUBSET Asset
    BY <2>1, CohortFacts
  <2>3. PICK ok \in SUBSET cohort, stuck \in SUBSET Asset :
          /\ stuck \subseteq applied[id] \cup ok
          /\ \/ /\ SetState(id, {"Canary", "CanaryVerify", "Rollout"},
                             "Rollout", actor)
                /\ ApplyTargets(id, cohort, ok)
             \/ /\ SetState(id, {"Canary", "CanaryVerify", "RolledBack"},
                             "RolledBack", actor)
                /\ ApplyThenRollback(id, cohort, ok, applied[id] \cup ok, stuck)
          /\ Answer("Ok")
          /\ UNCHANGED action
    BY <1>2, <2>0, <2>2 DEF RunCanary, CanaryStage
  <2>4. applied[id] \cup ok \in SUBSET Asset /\ ok \in SUBSET Asset
    BY <2>2, <2>0
  <2>5. ret' \in {"none", "Ok", "Err"}
    BY <2>3 DEF Answer
  <2>6. /\ {"Canary", "CanaryVerify", "Rollout"} \in SUBSET ActionState
        /\ {"Canary", "CanaryVerify", "RolledBack"} \in SUBSET ActionState
        /\ "Rollout" \in ActionState /\ "RolledBack" \in ActionState
    BY DEF ActionState
  <2> HIDE DEF cohort
  <2> QED
    BY <2>1, <2>2, <2>3, <2>4, <2>5, <2>6, StageType
<1> QED
  BY <1>1, <1>2

\* So does a rollout.
LEMMA RolloutType ==
  ASSUME BridgeTypeOK, NEW id \in ActionId, NEW actor \in Actor,
         RunRollout(id, actor)
  PROVE  BridgeTypeOK'
<1>1. CASE state[id] # "Rollout"
  BY <1>1 DEF RunRollout, Refuse, Answer, BridgeTypeOK
<1>2. CASE state[id] = "Rollout"
  <2>1. state[id] # Absent /\ action[id] \in Drafts /\ IsScoped(action[id])
    BY <1>2 DEF BridgeTypeOK, Absent
  <2>0. applied[id] \in SUBSET Asset
    BY DEF BridgeTypeOK
  <2> DEFINE rest == Remaining(id)
  <2>2. rest \in SUBSET Asset
    BY <2>1, CohortFacts DEF Remaining
  <2>3. PICK ok \in SUBSET rest, stuck \in SUBSET Asset :
          /\ stuck \subseteq applied[id] \cup ok
          /\ \/ /\ SetState(id, {"Verify", "RolledBack"}, "RolledBack", actor)
                /\ ApplyThenRollback(id, rest, ok, applied[id] \cup ok, stuck)
             \/ /\ SetState(id, {"Verify", "Closed"}, "Closed", actor)
                /\ ApplyTargets(id, rest, ok)
             \/ /\ SetState(id, {"Verify"}, "Verify", actor)
                /\ ApplyTargets(id, rest, ok)
          /\ Answer("Ok")
          /\ UNCHANGED action
    BY <1>2, <2>0, <2>2 DEF RunRollout, RolloutStage
  <2>4. applied[id] \cup ok \in SUBSET Asset /\ ok \in SUBSET Asset
    BY <2>2, <2>0
  <2>5. ret' \in {"none", "Ok", "Err"}
    BY <2>3 DEF Answer
  <2>6. /\ {"Verify", "RolledBack"} \in SUBSET ActionState
        /\ {"Verify", "Closed"} \in SUBSET ActionState
        /\ {"Verify"} \in SUBSET ActionState
        /\ {"RolledBack", "Closed", "Verify"} \subseteq ActionState
    BY DEF ActionState
  <2> HIDE DEF rest
  <2> QED
    BY <2>1, <2>2, <2>3, <2>4, <2>5, <2>6, StageType
<1> QED
  BY <1>1, <1>2

\* So does an operator rollback.
LEMMA RollbackType ==
  ASSUME BridgeTypeOK, NEW id \in ActionId, NEW actor \in Actor,
         RunRollback(id, actor)
  PROVE  BridgeTypeOK'
<1>1. CASE state[id] \notin RollbackFrom
  BY <1>1 DEF RunRollback, Refuse, Answer, BridgeTypeOK
<1>2. CASE state[id] \in RollbackFrom
  <2>1. state[id] # Absent /\ action[id] \in Drafts /\ IsScoped(action[id])
    BY <1>2 DEF BridgeTypeOK, Absent, RollbackFrom
  <2> DEFINE all == RollbackSet(id)
  <2>2. all \in SUBSET Asset
    BY <2>1, CohortFacts DEF RollbackSet, BridgeTypeOK
  <2>3. PICK stuck \in SUBSET all :
          /\ ApplyThenRollback(id, {}, {}, all, stuck)
          /\ \/ SetState(id, {"RolledBack"}, "RolledBack", actor)
             \/ SetState(id, {"RollbackIncomplete"}, "RollbackIncomplete", actor)
          /\ Answer("Ok") \/ Answer("Err")
          /\ UNCHANGED action
    BY <1>2 DEF RunRollback, RollbackStage
  <2>4. {} \in SUBSET Asset /\ stuck \in SUBSET Asset
    BY <2>2
  <2>5. ret' \in {"none", "Ok", "Err"}
    BY <2>3 DEF Answer
  <2>6. /\ {"RolledBack"} \in SUBSET ActionState
        /\ {"RollbackIncomplete"} \in SUBSET ActionState
        /\ "RolledBack" \in ActionState /\ "RollbackIncomplete" \in ActionState
    BY DEF ActionState
  <2> HIDE DEF all
  <2> QED
    BY <2>1, <2>2, <2>3, <2>4, <2>5, <2>6, StageType
<1> QED
  BY <1>1, <1>2

\* Every public method of the bridge keeps its state well typed.
LEMMA CallType ==
  ASSUME BridgeTypeOK, NEW id \in ActionId, NEW actor \in Actor,
         Call(id, actor)
  PROVE  BridgeTypeOK'
<1>1. CASE \E a \in Drafts : Draft(id, a, actor)
  BY <1>1, DraftType
<1>2. CASE \E allowed \in SUBSET ActionState, to \in ActionState :
             Guarded(id, allowed, to, actor)
  BY <1>2, GuardedType
<1>3. CASE RunCanary(id, actor)
  BY <1>3, CanaryType
<1>4. CASE RunRollout(id, actor)
  BY <1>4, RolloutType
<1>5. CASE RunRollback(id, actor)
  BY <1>5, RollbackType
<1>6. ASSUME \/ MapToItem(id, actor) \/ DryRun(id, actor)
             \/ SubmitForApproval(id, actor) \/ Approve(id, actor)
             \/ Reject(id, actor) \/ Abort(id, actor)
      PROVE  \E allowed \in SUBSET ActionState, to \in ActionState :
               Guarded(id, allowed, to, actor)
  <2>1. /\ {"Drafted"} \in SUBSET ActionState
        /\ {"Drafted", "Mapped"} \in SUBSET ActionState
        /\ {"DryRun"} \in SUBSET ActionState
        /\ {"PendingApproval"} \in SUBSET ActionState
        /\ {"Approved", "Canary", "CanaryVerify", "Rollout", "Verify"}
             \in SUBSET ActionState
        /\ {"Mapped", "DryRun", "PendingApproval", "Approved", "Aborted"}
             \subseteq ActionState
    BY DEF ActionState
  <2> QED
    BY <1>6, <2>1
       DEF MapToItem, DryRun, SubmitForApproval, Approve, Reject, Abort
<1> QED
  BY <1>1, <1>2, <1>3, <1>4, <1>5, <1>6 DEF Call

\* The bridge's state is always well typed, a record is present exactly when
\* its content is, and nothing unscoped is ever stored.
THEOREM TypeCorrect == BridgeSpec => []BridgeTypeOK
<1>1. BridgeTypeOK /\ [BridgeNext]_bridgeVars => BridgeTypeOK'
  <2> SUFFICES ASSUME BridgeTypeOK, [BridgeNext]_bridgeVars
               PROVE  BridgeTypeOK'
    OBVIOUS
  <2>1. CASE BridgeNext
    BY <2>1, CallType DEF BridgeNext
  <2>2. CASE UNCHANGED bridgeVars
    BY <2>2 DEF bridgeVars, BridgeTypeOK
  <2> QED
    BY <2>1, <2>2
<1> QED
  BY InitType, <1>1, PTL DEF BridgeSpec

-----------------------------------------------------------------------------
(* The inductive invariant. *)

\* Nothing is applied before the canary has run.
NothingAppliedYet ==
  \A id \in ActionId :
    state[id] \in {Absent, "Drafted", "Mapped", "DryRun", "PendingApproval",
                  "Approved"} => applied[id] = {}

\* The gates an action has passed by the time it is in each state.
GateChain ==
  \A id \in ActionId :
    /\ state[id] # Absent => by[id]["Drafted"] \in Actor
    /\ state[id] \in {"DryRun", "PendingApproval"} \cup PostApproval =>
         by[id]["DryRun"] \in Actor
    /\ state[id] \in {"PendingApproval"} \cup PostApproval =>
         by[id]["PendingApproval"] \in Actor
    /\ state[id] \in PostApproval => by[id]["Approved"] \in Actor
    /\ state[id] \in {"Rollout", "Verify", "Closed", "RollbackIncomplete"} =>
         by[id]["Rollout"] \in Actor

BridgeInv == /\ BridgeTypeOK
             /\ GateChain
             /\ NothingAppliedYet
             /\ LedgerHonest
             /\ WithinThreshold

\* An empty bridge satisfies the invariant.
LEMMA InitInv == BridgeInit => BridgeInv
<1> SUFFICES ASSUME BridgeInit PROVE BridgeInv
  OBVIOUS
<1>1. BridgeTypeOK
  BY InitType
<1>2. \A id \in ActionId : state[id] = Absent /\ applied[id] = {}
  BY DEF BridgeInit
<1> QED
  BY <1>1, <1>2 DEF BridgeInv, GateChain, NothingAppliedYet, LedgerHonest,
                    WithinThreshold, PostApproval, Absent

\* A call touches one action only.
LEMMA Frame ==
  ASSUME BridgeTypeOK, NEW id \in ActionId, NEW actor \in Actor,
         Call(id, actor), NEW i \in ActionId, i # id
  PROVE  /\ action'[i] = action[i] /\ state'[i] = state[i]
         /\ applied'[i] = applied[i] /\ host'[i] = host[i] /\ by'[i] = by[i]
<1>0. /\ action \in [ActionId -> Drafts \cup {NoDraft}]
      /\ state \in [ActionId -> ActionState \cup {Absent}]
      /\ applied \in [ActionId -> SUBSET Asset]
      /\ host \in [ActionId -> [Asset -> HostState]]
      /\ by \in [ActionId -> [ActionState -> Actor \cup {NoActor}]]
  BY DEF BridgeTypeOK
<1>1. CASE Refuse(id)
  BY <1>1 DEF Refuse
<1>2. CASE \E a \in Drafts : Draft(id, a, actor)
  BY <1>0, <1>2 DEF Draft, Store
<1>3. CASE \E to : SetState(id, {to}, to, actor) /\ UNCHANGED <<action, applied, host>>
  BY <1>0, <1>3 DEF SetState
<1>4. CASE /\ \E entered, to : SetState(id, entered, to, actor)
           /\ \/ \E stage, ok : ApplyTargets(id, stage, ok)
              \/ \E stage, ok, live, stuck :
                   ApplyThenRollback(id, stage, ok, live, stuck)
           /\ UNCHANGED action
  BY <1>0, <1>4 DEF SetState, ApplyTargets, ApplyThenRollback
<1>5. CASE RunCanary(id, actor)
  BY <1>1, <1>4, <1>5 DEF RunCanary, CanaryStage
<1>6. CASE RunRollout(id, actor)
  BY <1>1, <1>4, <1>6 DEF RunRollout, RolloutStage
<1>7. CASE RunRollback(id, actor)
  BY <1>1, <1>4, <1>7 DEF RunRollback, RollbackStage
<1> QED
  BY <1>1, <1>2, <1>3, <1>5, <1>6, <1>7
     DEF Call, MapToItem, DryRun, SubmitForApproval, Approve, Reject, Abort,
         Guarded

\* What SetState leaves in the record and in the audit trail of its action.
LEMMA SetStateEffect ==
  ASSUME BridgeTypeOK, NEW id \in ActionId, NEW entered, NEW to, NEW actor,
         SetState(id, entered, to, actor)
  PROVE  /\ state'[id] = to
         /\ \A s \in ActionState :
              by'[id][s] = IF s \in entered THEN actor ELSE by[id][s]
  BY DEF SetState, BridgeTypeOK

\* A call moves its action along an edge of the lifecycle, and stamps the
\* states it enters: the relation the gate chain is an invariant of.
Edge(id, actor) ==
  \/ state'[id] = state[id] /\ by'[id] = by[id]
  \/ state'[id] = "Drafted" /\ by'[id]["Drafted"] = actor
  \/ \E step \in {<<{"Drafted"}, {"Mapped"}, "Mapped">>,
                  <<{"Drafted", "Mapped"}, {"DryRun"}, "DryRun">>,
                  <<{"DryRun"}, {"PendingApproval"}, "PendingApproval">>,
                  <<{"PendingApproval"}, {"Approved"}, "Approved">>,
                  <<{"PendingApproval"}, {"Aborted"}, "Aborted">>,
                  <<{"Approved", "Canary", "CanaryVerify", "Rollout", "Verify"},
                    {"Aborted"}, "Aborted">>,
                  <<{"Approved"}, {"Canary", "CanaryVerify", "Rollout"},
                    "Rollout">>,
                  <<{"Approved"}, {"Canary", "CanaryVerify", "RolledBack"},
                    "RolledBack">>,
                  <<{"Rollout"}, {"Verify", "RolledBack"}, "RolledBack">>,
                  <<{"Rollout"}, {"Verify", "Closed"}, "Closed">>,
                  <<{"Rollout"}, {"Verify"}, "Verify">>,
                  <<RollbackFrom, {"RolledBack"}, "RolledBack">>,
                  <<RollbackFrom, {"RollbackIncomplete"},
                    "RollbackIncomplete">>} :
       /\ state[id] \in step[1]
       /\ state'[id] = step[3]
       /\ \A s \in ActionState :
            by'[id][s] = IF s \in step[2] THEN actor ELSE by[id][s]

\* Every call follows an edge of the lifecycle.
LEMMA CallEdge ==
  ASSUME BridgeTypeOK, NEW id \in ActionId, NEW actor \in Actor,
         Call(id, actor)
  PROVE  Edge(id, actor)
<1>1. CASE Refuse(id)
  BY <1>1 DEF Refuse, Edge
<1>2. ASSUME NEW a \in Drafts, Draft(id, a, actor) PROVE Edge(id, actor)
  <2>1. CASE ~ IsScoped(a)
    BY <1>2, <2>1 DEF Draft, Store, Edge
  <2>2. CASE IsScoped(a)
    BY <1>2, <2>2 DEF Draft, Store, Edge, BridgeTypeOK, ActionState
  <2> QED
    BY <2>1, <2>2
<1>3. CASE MapToItem(id, actor)
  BY <1>1, <1>3, SetStateEffect DEF MapToItem, Guarded, Edge
<1>4. CASE DryRun(id, actor)
  BY <1>1, <1>4, SetStateEffect DEF DryRun, Guarded, Edge
<1>5. CASE SubmitForApproval(id, actor)
  BY <1>1, <1>5, SetStateEffect DEF SubmitForApproval, Guarded, Edge
<1>6. CASE Approve(id, actor)
  BY <1>1, <1>6, SetStateEffect DEF Approve, Guarded, Edge
<1>7. CASE Reject(id, actor)
  BY <1>1, <1>7, SetStateEffect DEF Reject, Guarded, Edge
<1>8. CASE Abort(id, actor)
  BY <1>1, <1>8, SetStateEffect DEF Abort, Guarded, Edge
<1>9. CASE RunCanary(id, actor)
  <2>1. \/ Refuse(id)
        \/ /\ state[id] = "Approved"
           /\ \/ SetState(id, {"Canary", "CanaryVerify", "Rollout"},
                          "Rollout", actor)
              \/ SetState(id, {"Canary", "CanaryVerify", "RolledBack"},
                          "RolledBack", actor)
    BY <1>9 DEF RunCanary, CanaryStage
  <2> QED
    BY <1>1, <2>1, SetStateEffect DEF Edge
<1>10. CASE RunRollout(id, actor)
  <2>1. \/ Refuse(id)
        \/ /\ state[id] = "Rollout"
           /\ \/ SetState(id, {"Verify", "RolledBack"}, "RolledBack", actor)
              \/ SetState(id, {"Verify", "Closed"}, "Closed", actor)
              \/ SetState(id, {"Verify"}, "Verify", actor)
    BY <1>10 DEF RunRollout, RolloutStage
  <2> QED
    BY <1>1, <2>1, SetStateEffect DEF Edge
<1>11. CASE RunRollback(id, actor)
  BY <1>1, <1>11, SetStateEffect DEF RunRollback, RollbackStage, Edge
<1> QED
  BY <1>2, <1>3, <1>4, <1>5, <1>6, <1>7, <1>8, <1>9, <1>10, <1>11 DEF Call

\* Every call keeps the chain of gates in the audit trail.
LEMMA CallGateChain ==
  ASSUME BridgeTypeOK, GateChain, NEW id \in ActionId, NEW actor \in Actor,
         Call(id, actor)
  PROVE  GateChain'
<1>1. Edge(id, actor)
  BY CallEdge
<1>2. state[id] \in ActionState \cup {Absent}
  BY DEF BridgeTypeOK
<1>3. \A i \in ActionId : i # id => state'[i] = state[i] /\ by'[i] = by[i]
  BY Frame
<1>4. /\ state'[id] # Absent => by'[id]["Drafted"] \in Actor
      /\ state'[id] \in {"DryRun", "PendingApproval"} \cup PostApproval =>
           by'[id]["DryRun"] \in Actor
      /\ state'[id] \in {"PendingApproval"} \cup PostApproval =>
           by'[id]["PendingApproval"] \in Actor
      /\ state'[id] \in PostApproval => by'[id]["Approved"] \in Actor
      /\ state'[id] \in {"Rollout", "Verify", "Closed", "RollbackIncomplete"} =>
           by'[id]["Rollout"] \in Actor
  BY <1>1, <1>2
     DEF GateChain, Edge, PostApproval, RollbackFrom, ActionState, Absent
<1> QED
  BY <1>3, <1>4 DEF GateChain

\* Aborted and RolledBack are final, RollbackIncomplete is only retried.
THEOREM TerminalStatesFinal == BridgeSpec => Final
<1>1. BridgeTypeOK /\ [BridgeNext]_bridgeVars =>
        [\A id \in ActionId :
           /\ state[id] \in {"Aborted", "RolledBack"} =>
                state'[id] \in {state[id], "Drafted"}
           /\ state[id] = "RollbackIncomplete" =>
                state'[id] \in {"RollbackIncomplete", "RolledBack", "Drafted"}
        ]_bridgeVars
  <2> SUFFICES ASSUME BridgeTypeOK, NEW id \in ActionId, NEW actor \in Actor,
                      Call(id, actor), NEW i \in ActionId
               PROVE  /\ state[i] \in {"Aborted", "RolledBack"} =>
                           state'[i] \in {state[i], "Drafted"}
                      /\ state[i] = "RollbackIncomplete" =>
                           state'[i] \in {"RollbackIncomplete", "RolledBack",
                                         "Drafted"}
    BY DEF BridgeNext
  <2>1. CASE i # id
    BY <2>1, Frame
  <2>2. CASE i = id
    <3>1. Edge(id, actor)
      BY CallEdge
    <3> QED
      BY <2>2, <3>1 DEF Edge, RollbackFrom
  <2> QED
    BY <2>1, <2>2
<1> QED
  BY TypeCorrect, <1>1, PTL DEF BridgeSpec, Final

\* The calls that run no payload: they only move the lifecycle.
Quiet(id) ==
  /\ action'[id] = action[id] /\ applied'[id] = applied[id]
  /\ host'[id] = host[id]
  /\ \/ state'[id] = state[id]
     \/ /\ state[id] \in {"Drafted", "Mapped", "DryRun", "PendingApproval"}
        /\ state'[id] \in {"Mapped", "DryRun", "PendingApproval", "Approved"}
     \/ /\ state[id] \in {"PendingApproval", "Approved", "Canary",
                          "CanaryVerify", "Rollout", "Verify"}
        /\ state'[id] = "Aborted"

\* A new draft takes the place of the record; the hosts keep what ran on them.
Authored(id) ==
  /\ state'[id] = "Drafted" /\ applied'[id] = {} /\ host'[id] = host[id]
  /\ action'[id] \in Drafts /\ IsScoped(action'[id])

\* Every call is quiet, a new draft, or one of the three stages.
LEMMA CallCases ==
  ASSUME BridgeTypeOK, NEW id \in ActionId, NEW actor \in Actor,
         Call(id, actor)
  PROVE  \/ Quiet(id)
         \/ Authored(id)
         \/ state[id] = "Approved" /\ CanaryStage(id, actor)
         \/ state[id] = "Rollout" /\ RolloutStage(id, actor)
         \/ state[id] \in RollbackFrom /\ RollbackStage(id, actor)
<1>1. ASSUME Refuse(id) PROVE Quiet(id)
  BY <1>1 DEF Refuse, Quiet
<1>2. ASSUME NEW a \in Drafts, Draft(id, a, actor)
      PROVE  Quiet(id) \/ Authored(id)
  <2>1. CASE ~ IsScoped(a)
    BY <1>2, <2>1 DEF Draft, Store, Quiet
  <2>2. CASE IsScoped(a)
    BY <1>2, <2>2 DEF Draft, Store, BridgeTypeOK, Authored
  <2> QED
    BY <2>1, <2>2
<1>3. ASSUME NEW allowed, NEW to, Guarded(id, allowed, to, actor)
      PROVE  \/ Quiet(id)
             \/ /\ state[id] \in allowed /\ state'[id] = to
                /\ action'[id] = action[id] /\ applied'[id] = applied[id]
                /\ host'[id] = host[id]
  BY <1>1, <1>3, SetStateEffect DEF Guarded
<1>4. CASE MapToItem(id, actor) \/ DryRun(id, actor)
  BY <1>3, <1>4 DEF MapToItem, DryRun, Quiet
<1>5. CASE SubmitForApproval(id, actor) \/ Approve(id, actor)
  BY <1>3, <1>5 DEF SubmitForApproval, Approve, Quiet
<1>6. CASE Reject(id, actor) \/ Abort(id, actor)
  BY <1>3, <1>6 DEF Reject, Abort, Quiet
<1>7. CASE RunCanary(id, actor)
  BY <1>1, <1>7 DEF RunCanary
<1>8. CASE RunRollout(id, actor)
  BY <1>1, <1>8 DEF RunRollout
<1>9. CASE RunRollback(id, actor)
  BY <1>1, <1>9 DEF RunRollback
<1> QED
  BY <1>2, <1>4, <1>5, <1>6, <1>7, <1>8, <1>9 DEF Call

\* What running a payload leaves in the record and on the hosts.
LEMMA ApplyEffect ==
  ASSUME BridgeTypeOK, NEW id \in ActionId, NEW stage, NEW ok,
         ApplyTargets(id, stage, ok)
  PROVE  /\ applied'[id] = applied[id] \cup ok
         /\ \A h \in Asset :
              host'[id][h] = IF h \in ok THEN "applied"
                             ELSE IF h \in stage THEN "failed" ELSE host[id][h]
  BY DEF ApplyTargets, BridgeTypeOK

\* What apply_targets followed by rollback_applied does to one action.
LEMMA RollbackEffect ==
  ASSUME BridgeTypeOK, NEW id \in ActionId, NEW stage, NEW ok, NEW live,
         NEW stuck, ApplyThenRollback(id, stage, ok, live, stuck)
  PROVE  /\ applied'[id] = stuck
         /\ \A h \in Asset :
              host'[id][h] = IF h \in live \ stuck /\ action[id].rollback
                             THEN "clean"
                             ELSE IF h \in ok THEN "applied"
                             ELSE IF h \in stage THEN "failed" ELSE host[id][h]
  BY DEF ApplyThenRollback, BridgeTypeOK

\* The two ways a canary ends.
LEMMA CanaryCases ==
  ASSUME BridgeTypeOK, NEW id \in ActionId, NEW actor \in Actor,
         CanaryStage(id, actor)
  PROVE  \E ok \in SUBSET Cohort(action[id]) :
           /\ action'[id] = action[id]
           /\ \/ /\ state'[id] = "Rollout"
                 /\ ~ ExceedsThreshold(action[id], Cohort(action[id]) \ ok,
                                       Cohort(action[id]))
                 /\ ApplyTargets(id, Cohort(action[id]), ok)
              \/ /\ state'[id] = "RolledBack"
                 /\ \E stuck \in SUBSET (applied[id] \cup ok) :
                      ApplyThenRollback(id, Cohort(action[id]), ok,
                                        applied[id] \cup ok, stuck)
<1>1. PICK ok \in SUBSET Cohort(action[id]) :
        /\ action'[id] = action[id]
        /\ \/ /\ SetState(id, {"Canary", "CanaryVerify", "Rollout"},
                          "Rollout", actor)
              /\ ~ ExceedsThreshold(action[id], Cohort(action[id]) \ ok,
                                    Cohort(action[id]))
              /\ ApplyTargets(id, Cohort(action[id]), ok)
           \/ /\ SetState(id, {"Canary", "CanaryVerify", "RolledBack"},
                          "RolledBack", actor)
              /\ \E stuck \in SUBSET (applied[id] \cup ok) :
                   ApplyThenRollback(id, Cohort(action[id]), ok,
                                     applied[id] \cup ok, stuck)
  BY DEF CanaryStage
<1>2. /\ SetState(id, {"Canary", "CanaryVerify", "Rollout"}, "Rollout", actor)
           => state'[id] = "Rollout"
      /\ SetState(id, {"Canary", "CanaryVerify", "RolledBack"}, "RolledBack",
                  actor) => state'[id] = "RolledBack"
  BY SetStateEffect
<1> WITNESS ok \in SUBSET Cohort(action[id])
<1> QED
  BY <1>1, <1>2

\* The ways a rollout ends: reverted, or kept within its threshold.
LEMMA RolloutCases ==
  ASSUME BridgeTypeOK, NEW id \in ActionId, NEW actor \in Actor,
         RolloutStage(id, actor)
  PROVE  \E ok \in SUBSET Remaining(id) :
           /\ action'[id] = action[id]
           /\ \/ /\ state'[id] \in {"Closed", "Verify"}
                 /\ ~ ExceedsThreshold(action[id], Remaining(id) \ ok,
                                       Remaining(id))
                 /\ ApplyTargets(id, Remaining(id), ok)
              \/ /\ state'[id] = "RolledBack"
                 /\ \E stuck \in SUBSET (applied[id] \cup ok) :
                      ApplyThenRollback(id, Remaining(id), ok,
                                        applied[id] \cup ok, stuck)
<1>1. PICK ok \in SUBSET Remaining(id) :
        /\ action'[id] = action[id]
        /\ \/ /\ \/ SetState(id, {"Verify", "Closed"}, "Closed", actor)
                 \/ SetState(id, {"Verify"}, "Verify", actor)
              /\ ~ ExceedsThreshold(action[id], Remaining(id) \ ok,
                                    Remaining(id))
              /\ ApplyTargets(id, Remaining(id), ok)
           \/ /\ SetState(id, {"Verify", "RolledBack"}, "RolledBack", actor)
              /\ \E stuck \in SUBSET (applied[id] \cup ok) :
                   ApplyThenRollback(id, Remaining(id), ok,
                                     applied[id] \cup ok, stuck)
  BY DEF RolloutStage
<1>2. /\ SetState(id, {"Verify", "Closed"}, "Closed", actor)
           => state'[id] = "Closed"
      /\ SetState(id, {"Verify"}, "Verify", actor) => state'[id] = "Verify"
      /\ SetState(id, {"Verify", "RolledBack"}, "RolledBack", actor)
           => state'[id] = "RolledBack"
  BY SetStateEffect
<1> WITNESS ok \in SUBSET Remaining(id)
<1> QED
  BY <1>1, <1>2

\* What a run of run_rollback does.
LEMMA RollbackCases ==
  ASSUME BridgeTypeOK, NEW id \in ActionId, NEW actor \in Actor,
         RollbackStage(id, actor)
  PROVE  \E stuck \in SUBSET RollbackSet(id) :
           /\ action'[id] = action[id]
           /\ ApplyThenRollback(id, {}, {}, RollbackSet(id), stuck)
           /\ \/ state'[id] = "RolledBack" /\ stuck = {}
              \/ state'[id] = "RollbackIncomplete"
  BY SetStateEffect DEF RollbackStage

\* No call before the canary records a target.
LEMMA CallNothingApplied ==
  ASSUME BridgeTypeOK, NothingAppliedYet, NEW id \in ActionId,
         NEW actor \in Actor, Call(id, actor)
  PROVE  NothingAppliedYet'
<1>1. \A i \in ActionId : i # id =>
        state'[i] = state[i] /\ applied'[i] = applied[i]
  BY Frame
<1>2. state'[id] \in {Absent, "Drafted", "Mapped", "DryRun", "PendingApproval",
                     "Approved"} => applied'[id] = {}
  <2>1. CASE Quiet(id)
    BY <2>1 DEF Quiet, NothingAppliedYet, Absent
  <2>2. CASE Authored(id)
    BY <2>2 DEF Authored
  <2>3. CASE CanaryStage(id, actor)
    BY <2>3, CanaryCases DEF Absent
  <2>4. CASE RolloutStage(id, actor)
    BY <2>4, RolloutCases DEF Absent
  <2>5. CASE RollbackStage(id, actor)
    BY <2>5, RollbackCases DEF Absent
  <2> QED
    BY <2>1, <2>2, <2>3, <2>4, <2>5, CallCases
<1> QED
  BY <1>1, <1>2 DEF NothingAppliedYet

\* What a stage records as applied carries a successful run, provided the stage
\* does not run over targets already recorded.
LEMMA StageHonest ==
  ASSUME BridgeTypeOK, NEW id \in ActionId,
         \A h \in applied[id] : host[id][h] = "applied",
         NEW stage \in SUBSET Asset, NEW ok \in SUBSET stage,
         stage \cap applied[id] = {},
         \/ ApplyTargets(id, stage, ok)
         \/ \E stuck \in SUBSET (applied[id] \cup ok) :
              ApplyThenRollback(id, stage, ok, applied[id] \cup ok, stuck)
  PROVE  \A h \in applied'[id] : host'[id][h] = "applied"
<1>0. applied[id] \in SUBSET Asset
  BY DEF BridgeTypeOK
<1>1. CASE ApplyTargets(id, stage, ok)
  BY <1>0, <1>1, ApplyEffect
<1>2. ASSUME NEW stuck \in SUBSET (applied[id] \cup ok),
             ApplyThenRollback(id, stage, ok, applied[id] \cup ok, stuck)
      PROVE  \A h \in applied'[id] : host'[id][h] = "applied"
  BY <1>0, <1>2, RollbackEffect
<1> QED
  BY <1>1, <1>2

\* Every call keeps the record honest.
LEMMA CallLedger ==
  ASSUME BridgeTypeOK, NothingAppliedYet, LedgerHonest, NEW id \in ActionId,
         NEW actor \in Actor, Call(id, actor)
  PROVE  LedgerHonest'
<1> DEFINE Honest == state[id] # "RollbackIncomplete" =>
                       \A h \in applied[id] : host[id][h] = "applied"
<1>1. \A i \in ActionId : i # id =>
        state'[i] = state[i] /\ applied'[i] = applied[i] /\ host'[i] = host[i]
  BY Frame
<1>2. Honest
  BY DEF LedgerHonest
<1>3. Honest'
  <2>1. CASE Quiet(id)
    BY <1>2, <2>1 DEF Quiet
  <2>2. CASE Authored(id)
    BY <2>2 DEF Authored
  <2>3. CASE state[id] = "Approved" /\ CanaryStage(id, actor)
    <3>1. Cohort(action[id]) \in SUBSET Asset
      BY <2>3, CohortFacts DEF BridgeTypeOK, Absent
    <3>2. applied[id] = {}
      BY <2>3 DEF NothingAppliedYet
    <3>3. /\ \A h \in applied[id] : host[id][h] = "applied"
          /\ Cohort(action[id]) \cap applied[id] = {}
      BY <3>2
    <3> QED
      BY <2>3, <3>1, <3>3, CanaryCases, StageHonest
  <2>4. CASE state[id] = "Rollout" /\ RolloutStage(id, actor)
    <3>1. Remaining(id) \in SUBSET Asset
      BY <2>4, CohortFacts DEF BridgeTypeOK, Absent, Remaining
    <3>2. Remaining(id) \cap applied[id] = {}
      BY DEF Remaining
    <3> QED
      BY <1>2, <2>4, <3>1, <3>2, RolloutCases, StageHonest
  <2>5. CASE RollbackStage(id, actor)
    BY <2>5, RollbackCases, RollbackEffect
  <2> QED
    BY <2>1, <2>2, <2>3, <2>4, <2>5, CallCases
<1> QED
  BY <1>1, <1>3 DEF LedgerHonest

\* A rate within the threshold over the rest is within it over the whole: the
\* targets of a finished rollout that are not applied are those the rollout
\* failed on, and the whole list is no shorter than the rest.
LEMMA ThresholdMonotone ==
  ASSUME NEW t \in Int, NEW f \in Nat, NEW r \in Nat, NEW n \in Nat,
         r <= n, r >= 1, 100 * f <= t * r
  PROVE  100 * f <= t * n
<1>1. t >= 0
  <2>1. SUFFICES ASSUME t < 0 PROVE FALSE
    OBVIOUS
  <2>2. t * r < 0
    BY <2>1
  <2> QED
    BY <2>2
<1>2. PICK d \in Nat : n = r + d
  <2>1. n - r \in Nat /\ n = r + (n - r)
    OBVIOUS
  <2> QED
    BY <2>1
<1>3. t * d >= 0
  BY <1>1
<1>4. t * n = t * r + t * d
  BY <1>2
<1>5. t * r \in Int /\ t * d \in Int
  OBVIOUS
<1> QED
  BY <1>3, <1>4, <1>5

\* Every call keeps the failures within the author's threshold.
LEMMA CallThreshold ==
  ASSUME BridgeTypeOK, NothingAppliedYet, WithinThreshold, NEW id \in ActionId,
         NEW actor \in Actor, Call(id, actor)
  PROVE  WithinThreshold'
<1> DEFINE a == action[id]
           InCohort == /\ applied[id] \subseteq Cohort(a)
                       /\ 100 * Cardinality(Cohort(a) \ applied[id])
                            <= a.failure_threshold * Cardinality(Cohort(a))
           InScope == 100 * Cardinality(Targets(a) \ applied[id])
                        <= a.failure_threshold * Cardinality(Targets(a))
           Within == /\ state[id] = "Rollout" => InCohort
                     /\ state[id] \in {"Verify", "Closed"} => InScope
<1>1. \A i \in ActionId : i # id => /\ state'[i] = state[i]
                                    /\ applied'[i] = applied[i]
                                    /\ action'[i] = action[i]
  BY Frame
<1>2. Within
  BY DEF WithinThreshold
<1>3. Within'
  <2>1. CASE Quiet(id)
    BY <1>2, <2>1 DEF Quiet
  <2>2. CASE Authored(id)
    BY <2>2 DEF Authored
  <2>3. CASE state[id] = "Approved" /\ CanaryStage(id, actor)
    <3>0. a \in Drafts /\ IsScoped(a)
      BY <2>3 DEF BridgeTypeOK, Absent
    <3>1. /\ Cohort(a) \in SUBSET Asset /\ Cohort(a) # {}
          /\ a.failure_threshold \in Int
      BY <3>0, CohortFacts, DraftsAreActions DEF RemediationAction
    <3>2. applied[id] = {}
      BY <2>3 DEF NothingAppliedYet
    <3>3. ASSUME NEW ok \in SUBSET Cohort(a),
                 action'[id] = a, state'[id] = "Rollout",
                 ~ ExceedsThreshold(a, Cohort(a) \ ok, Cohort(a)),
                 ApplyTargets(id, Cohort(a), ok)
          PROVE  InCohort'
      <4>0. applied'[id] = applied[id] \cup ok
        BY <3>3, ApplyEffect
      <4>1. applied'[id] = ok
        BY <3>2, <4>0
      <4>2. 100 * Cardinality(Cohort(a) \ ok)
              <= a.failure_threshold * Cardinality(Cohort(a))
        <5>1. Cardinality(Cohort(a) \ ok) \in Nat /\ Cardinality(Cohort(a)) \in Nat
          BY <3>1, HostSets
        <5> QED
          BY <3>1, <3>3, <5>1 DEF ExceedsThreshold
      <4> QED
        BY <3>3, <4>1, <4>2
    <3> QED
      BY <2>3, <3>3, CanaryCases
  <2>4. CASE state[id] = "Rollout" /\ RolloutStage(id, actor)
    <3>0. a \in Drafts /\ IsScoped(a)
      BY <2>4 DEF BridgeTypeOK, Absent
    <3>1. /\ Targets(a) \in SUBSET Asset /\ Cohort(a) \subseteq Targets(a)
          /\ Cohort(a) # {}
          /\ a.failure_threshold \in Int
      BY <3>0, CohortFacts, DraftsAreActions DEF RemediationAction
    <3>2. ASSUME NEW ok \in SUBSET Remaining(id),
                 action'[id] = a,
                 ~ ExceedsThreshold(a, Remaining(id) \ ok, Remaining(id)),
                 ApplyTargets(id, Remaining(id), ok)
          PROVE  InScope'
      <4> DEFINE left == Remaining(id) \ ok
                 f == Cardinality(left)
                 r == Cardinality(Remaining(id))
                 n == Cardinality(Targets(a))
                 t == a.failure_threshold
      <4>1. Targets(a) \ applied'[id] = left
        BY <3>2, ApplyEffect DEF Remaining
      <4>2. /\ f \in Nat /\ r \in Nat /\ n \in Nat /\ r <= n
            /\ Remaining(id) # {} => r >= 1
        BY <3>1, HostSets DEF Remaining
      <4>3. CASE Remaining(id) # {}
        <5>1. 100 * f <= t * r
          <6>1. ~ (100 * f > t * r)
            BY <3>2, <4>3 DEF ExceedsThreshold
          <6>2. 100 * f \in Int /\ t * r \in Int
            BY <3>1, <4>2
          <6> QED
            BY <6>1, <6>2
        <5> HIDE DEF f, r, n, t
        <5>2. t \in Int
          BY <3>1 DEF t
        <5>3. 100 * f <= t * n
          BY <4>2, <4>3, <5>1, <5>2, ThresholdMonotone
        <5> QED
          BY <3>2, <4>1, <5>3 DEF f, t, n
      <4>4. CASE Remaining(id) = {}
        <5>1. f = 0
          BY <4>4, FS_EmptySet
        <5>2. t >= 0
          BY <3>1, <3>2, <4>4 DEF ExceedsThreshold
        <5> HIDE DEF f, n, t
        <5>3. t * n >= 0 /\ 100 * f = 0
          BY <4>2, <5>1, <5>2, <3>1 DEF t
        <5> QED
          BY <3>2, <4>1, <5>3 DEF f, t, n
      <4> QED
        BY <4>3, <4>4
    <3> QED
      BY <2>4, <3>2, RolloutCases
  <2>5. CASE RollbackStage(id, actor)
    BY <2>5, RollbackCases
  <2> QED
    BY <2>1, <2>2, <2>3, <2>4, <2>5, CallCases
<1> QED
  BY <1>1, <1>3 DEF WithinThreshold

\* The three conjuncts of ApprovalRequired are part of the gate chain.
LEMMA InvImpliesApproval == BridgeInv => ApprovalRequired
  BY DEF BridgeInv, GateChain, ApprovalRequired, PostApproval, Absent

\* Every step of the bridge keeps the invariant.
LEMMA InvStep == BridgeInv /\ [BridgeNext]_bridgeVars => BridgeInv'
<1> SUFFICES ASSUME BridgeInv, [BridgeNext]_bridgeVars PROVE BridgeInv'
  OBVIOUS
<1>0. BridgeTypeOK /\ GateChain /\ NothingAppliedYet /\ LedgerHonest
      /\ WithinThreshold
  BY DEF BridgeInv
<1>1. CASE BridgeNext
  <2>1. PICK id \in ActionId, actor \in Actor : Call(id, actor)
    BY <1>1 DEF BridgeNext
  <2> QED
    BY <1>0, <2>1, CallType, CallGateChain, CallNothingApplied, CallLedger,
       CallThreshold DEF BridgeInv
<1>2. CASE UNCHANGED bridgeVars
  <2>1. BridgeTypeOK'
    BY <1>0, <1>2 DEF bridgeVars, BridgeTypeOK
  <2>2. GateChain' /\ NothingAppliedYet' /\ LedgerHonest'
    BY <1>0, <1>2 DEF bridgeVars, GateChain, NothingAppliedYet, LedgerHonest
  <2>3. WithinThreshold'
    BY <1>0, <1>2 DEF bridgeVars, WithinThreshold
  <2> QED
    BY <2>1, <2>2, <2>3 DEF BridgeInv
<1> QED
  BY <1>1, <1>2

\* The invariant holds in every reachable state of the bridge.
THEOREM Invariance == BridgeSpec => []BridgeInv
  BY InitInv, InvStep, PTL DEF BridgeSpec

\* No action is ever approved, applied or closed without the preview, the
\* submission and the approval of the very draft being carried out.
THEOREM ApprovalAlwaysRequired == BridgeSpec => []ApprovalRequired
  BY Invariance, InvImpliesApproval, PTL

\* The bridge's applied set never lists a host its payload did not succeed on.
THEOREM LedgerAlwaysHonest == BridgeSpec => []LedgerHonest
<1>1. BridgeInv => LedgerHonest
  BY DEF BridgeInv
<1> QED
  BY Invariance, <1>1, PTL

\* The author's failure threshold holds over the whole target list of every
\* finished rollout.
THEOREM ThresholdAlwaysKept == BridgeSpec => []WithinThreshold
<1>1. BridgeInv => WithinThreshold
  BY DEF BridgeInv
<1> QED
  BY Invariance, <1>1, PTL

-----------------------------------------------------------------------------
(* How the reach of an action grows. *)

\* The targets on which a step may newly run the payload.
Frontier(id) ==
  CASE state[id] = "Approved" -> Cohort(action[id])
    [] state[id] = "Rollout" -> Targets(action[id])
    [] OTHER -> {}

\* What a call can do to the set of hosts an action has reached.
LEMMA CallReach ==
  ASSUME BridgeTypeOK, NEW id \in ActionId, NEW actor \in Actor,
         Call(id, actor)
  PROVE  Reached(id)' \subseteq Reached(id) \cup Frontier(id)
<1>1. CASE Quiet(id) \/ Authored(id)
  BY <1>1 DEF Quiet, Authored, Reached
<1>2. ASSUME NEW stage, NEW ok \in SUBSET stage, NEW live, NEW stuck,
             \/ ApplyTargets(id, stage, ok)
             \/ ApplyThenRollback(id, stage, ok, live, stuck)
      PROVE  Reached(id)' \subseteq Reached(id) \cup stage
  BY <1>2, ApplyEffect, RollbackEffect DEF Reached
<1>3. CASE state[id] = "Approved" /\ CanaryStage(id, actor)
  <2>1. Frontier(id) = Cohort(action[id])
    BY <1>3 DEF Frontier
  <2> QED
    BY <1>2, <1>3, <2>1, CanaryCases
<1>4. CASE state[id] = "Rollout" /\ RolloutStage(id, actor)
  <2>1. Frontier(id) = Targets(action[id])
    BY <1>4 DEF Frontier
  <2>2. Reached(id)' \subseteq Reached(id) \cup Remaining(id)
    BY <1>2, <1>4, RolloutCases
  <2> QED
    BY <2>1, <2>2 DEF Remaining
<1>5. CASE RollbackStage(id, actor)
  <2>1. {} \in SUBSET {}
    OBVIOUS
  <2>2. Reached(id)' \subseteq Reached(id) \cup {}
    BY <1>2, <1>5, <2>1, RollbackCases
  <2> QED
    BY <2>2
<1> QED
  BY <1>1, <1>3, <1>4, <1>5, CallCases

\* A call runs the payload on a new host only where its stage may.
LEMMA CallGrows ==
  ASSUME BridgeInv, NEW id \in ActionId, NEW actor \in Actor,
         Call(id, actor), NEW i \in ActionId
  PROVE  \A h \in Reached(i)' \ Reached(i) :
           /\ by[i]["Approved"] \in Actor
           /\ h \in Targets(action[i])
           /\ h \in Cohort(action[i]) \/ by[i]["Rollout"] \in Actor
<1>0. BridgeTypeOK /\ GateChain
  BY DEF BridgeInv
<1>1. CASE i # id
  BY <1>0, <1>1, Frame DEF Reached
<1>2. CASE i = id
  <2>1. Reached(id)' \subseteq Reached(id) \cup Frontier(id)
    BY <1>0, CallReach
  <2>2. CASE state[id] = "Approved"
    <3>1. Frontier(id) = Cohort(action[id])
      BY <2>2 DEF Frontier
    <3>2. Cohort(action[id]) \subseteq Targets(action[id])
      BY <1>0, <2>2, CohortFacts DEF BridgeTypeOK, Absent
    <3>3. by[id]["Approved"] \in Actor
      BY <1>0, <2>2 DEF GateChain, PostApproval
    <3> QED
      BY <1>2, <2>1, <3>1, <3>2, <3>3
  <2>3. CASE state[id] = "Rollout"
    <3>1. Frontier(id) = Targets(action[id])
      BY <2>3 DEF Frontier
    <3>2. by[id]["Approved"] \in Actor /\ by[id]["Rollout"] \in Actor
      BY <1>0, <2>3 DEF GateChain, PostApproval
    <3> QED
      BY <1>2, <2>1, <3>1, <3>2
  <2>4. CASE state[id] \notin {"Approved", "Rollout"}
    BY <1>2, <2>1, <2>4 DEF Frontier
  <2> QED
    BY <2>2, <2>3, <2>4
<1> QED
  BY <1>1, <1>2

\* No step runs the payload on a new host unless the draft is approved and the
\* host is in its canary cohort, or in its target list once the canary was
\* promoted.
THEOREM ReachIsStaged == BridgeSpec => StagedReach
<1>1. BridgeInv /\ [BridgeNext]_bridgeVars =>
        [\A id \in ActionId :
           \A h \in Reached(id)' \ Reached(id) :
             /\ by[id]["Approved"] \in Actor
             /\ h \in Targets(action[id])
             /\ h \in Cohort(action[id]) \/ by[id]["Rollout"] \in Actor]_bridgeVars
  BY CallGrows DEF BridgeNext
<1> QED
  BY Invariance, <1>1, PTL DEF BridgeSpec, StagedReach

-----------------------------------------------------------------------------
(* Refinement of StagedChange. *)

\* The abstract state of one action.
ScopeOf(id) == IF state[id] = Absent THEN {} ELSE Targets(action[id])
PilotOf(id) == IF state[id] = Absent THEN {} ELSE Cohort(action[id])

absPhase == [id \in ActionId |-> PhaseOf(state[id])]
absScope == [id \in ActionId |-> ScopeOf(id)]
absPilot == [id \in ActionId |-> PilotOf(id)]
absReach == [id \in ActionId |-> Reached(id)]

\* A step that changes the abstract state of one action only changes the
\* abstract functions at that action.
LEMMA Lift ==
  ASSUME NEW id \in ActionId,
         \A i \in ActionId : i # id =>
           /\ action'[i] = action[i] /\ state'[i] = state[i]
           /\ host'[i] = host[i]
  PROVE  /\ absPhase' = [absPhase EXCEPT ![id] = PhaseOf(state'[id])]
         /\ absScope' = [absScope EXCEPT ![id] = ScopeOf(id)']
         /\ absPilot' = [absPilot EXCEPT ![id] = PilotOf(id)']
         /\ absReach' = [absReach EXCEPT ![id] = Reached(id)']
  BY DEF absPhase, absScope, absPilot, absReach, ScopeOf, PilotOf, Reached

\* Every call is a step of the staged change, or leaves it as it was.
LEMMA CallRefines ==
  ASSUME BridgeInv, NEW id \in ActionId, NEW actor \in Actor, Call(id, actor)
  PROVE  \/ Staged!StagedNext
         \/ UNCHANGED <<absPhase, absScope, absPilot, absReach>>
<1>0. BridgeTypeOK
  BY DEF BridgeInv
<1>1. /\ absPhase' = [absPhase EXCEPT ![id] = PhaseOf(state'[id])]
      /\ absScope' = [absScope EXCEPT ![id] = ScopeOf(id)']
      /\ absPilot' = [absPilot EXCEPT ![id] = PilotOf(id)']
      /\ absReach' = [absReach EXCEPT ![id] = Reached(id)']
  BY <1>0, Frame, Lift
<1>2. /\ absPhase[id] = PhaseOf(state[id]) /\ absScope[id] = ScopeOf(id)
      /\ absPilot[id] = PilotOf(id) /\ absReach[id] = Reached(id)
  BY DEF absPhase, absScope, absPilot, absReach
<1>3. ASSUME ScopeOf(id)' = ScopeOf(id), PilotOf(id)' = PilotOf(id)
      PROVE  absScope' = absScope /\ absPilot' = absPilot
  BY <1>1, <1>3 DEF absScope, absPilot
<1>4. ASSUME Reached(id)' = Reached(id) PROVE absReach' = absReach
  BY <1>1, <1>4 DEF absReach
<1>5. ASSUME PhaseOf(state'[id]) = PhaseOf(state[id]) PROVE absPhase' = absPhase
  BY <1>1, <1>5 DEF absPhase
<1>6. ASSUME action'[id] = action[id], state[id] # Absent, state'[id] # Absent
      PROVE  ScopeOf(id)' = ScopeOf(id) /\ PilotOf(id)' = PilotOf(id)
  BY <1>6 DEF ScopeOf, PilotOf
<1>7. Reached(id)' \subseteq Reached(id) \cup Frontier(id)
  BY <1>0, CallReach
<1>10. CASE Quiet(id)
  <2>1. Reached(id)' = Reached(id)
    BY <1>10 DEF Quiet, Reached
  <2>2. CASE state'[id] = state[id]
    <3>1. ScopeOf(id)' = ScopeOf(id) /\ PilotOf(id)' = PilotOf(id)
      BY <1>10, <2>2 DEF Quiet, ScopeOf, PilotOf
    <3> QED
      BY <1>3, <1>4, <1>5, <2>1, <2>2, <3>1
  <2>3. CASE /\ state[id] \in {"Drafted", "Mapped", "DryRun", "PendingApproval"}
             /\ state'[id] \in {"Mapped", "DryRun", "PendingApproval"}
    <3>1. PhaseOf(state'[id]) = PhaseOf(state[id])
      BY <2>3 DEF PhaseOf, Absent
    <3>2. ScopeOf(id)' = ScopeOf(id) /\ PilotOf(id)' = PilotOf(id)
      BY <1>6, <1>10, <2>3 DEF Quiet, Absent
    <3> QED
      BY <1>3, <1>4, <1>5, <2>1, <3>1, <3>2
  <2>4. CASE /\ state[id] \in {"Drafted", "Mapped", "DryRun", "PendingApproval"}
             /\ state'[id] = "Approved"
    <3>1. PhaseOf(state[id]) = "review" /\ PhaseOf(state'[id]) = "cleared"
      BY <2>4 DEF PhaseOf, Absent
    <3>2. ScopeOf(id)' = ScopeOf(id) /\ PilotOf(id)' = PilotOf(id)
      BY <1>6, <1>10, <2>4 DEF Quiet, Absent
    <3>3. Staged!Clear(id)
      BY <1>1, <1>2, <1>3, <1>4, <2>1, <3>1, <3>2
         DEF Staged!Clear, absPhase, absScope, absPilot, absReach, ScopeOf,
             PilotOf
    <3> QED
      BY <3>3 DEF Staged!StagedNext
  <2>5. CASE /\ state[id] \in {"PendingApproval", "Approved", "Canary",
                               "CanaryVerify", "Rollout", "Verify"}
             /\ state'[id] = "Aborted"
    <3>1. PhaseOf(state[id]) # "none" /\ PhaseOf(state'[id]) = "ended"
      BY <2>5 DEF PhaseOf, Absent
    <3>2. ScopeOf(id)' = ScopeOf(id) /\ PilotOf(id)' = PilotOf(id)
      BY <1>6, <1>10, <2>5 DEF Quiet, Absent
    <3>3. Staged!End(id)
      <4>1. /\ absReach[id] \in SUBSET absReach[id]
            /\ absReach' = [absReach EXCEPT ![id] = absReach[id]]
        BY <1>1, <1>2, <2>1
      <4> QED
        BY <1>1, <1>2, <1>3, <3>1, <3>2, <4>1
           DEF Staged!End, absPhase, absScope, absPilot, absReach, ScopeOf,
               PilotOf
    <3> QED
      BY <3>3 DEF Staged!StagedNext
  <2> QED
    BY <1>10, <2>2, <2>3, <2>4, <2>5 DEF Quiet
<1>11. CASE Authored(id)
  <2>1. Reached(id)' = Reached(id)
    BY <1>11 DEF Authored, Reached
  <2>2. PhaseOf(state'[id]) = "review"
    BY <1>11 DEF Authored, PhaseOf, Absent
  <2>3. /\ ScopeOf(id)' = Targets(action'[id])
        /\ PilotOf(id)' = Cohort(action'[id])
    BY <1>11 DEF Authored, ScopeOf, PilotOf, Absent
  <2>4. /\ Targets(action'[id]) \in SUBSET Asset
        /\ Cohort(action'[id]) \in SUBSET Targets(action'[id])
        /\ Cohort(action'[id]) # {} /\ Targets(action'[id]) # {}
    BY <1>11, CohortFacts DEF Authored
  <2>5. Staged!Author(id)
    BY <1>1, <1>4, <2>1, <2>2, <2>3, <2>4
       DEF Staged!Author, absPhase, absScope, absPilot, absReach, ScopeOf,
           PilotOf
  <2> QED
    BY <2>5 DEF Staged!StagedNext
<1>12. CASE state[id] = "Approved" /\ CanaryStage(id, actor)
  <2>1. action'[id] = action[id] /\ state'[id] \in {"Rollout", "RolledBack"}
    BY <1>0, <1>12, CanaryCases
  <2>2. /\ PhaseOf(state[id]) = "cleared"
        /\ PhaseOf(state'[id]) \in {"proven", "ended"}
    BY <1>12, <2>1 DEF PhaseOf, Absent
  <2>3. ScopeOf(id)' = ScopeOf(id) /\ PilotOf(id)' = PilotOf(id)
    BY <1>6, <1>12, <2>1 DEF Absent
  <2>4. Reached(id)' \in SUBSET (absReach[id] \cup absPilot[id])
    BY <1>2, <1>7, <1>12 DEF Frontier, PilotOf, Absent
  <2>5. Staged!Pilot(id)
    BY <1>1, <1>2, <1>3, <2>2, <2>3, <2>4
       DEF Staged!Pilot, absPhase, absScope, absPilot, absReach, ScopeOf,
           PilotOf
  <2> QED
    BY <2>5 DEF Staged!StagedNext
<1>13. CASE state[id] = "Rollout" /\ RolloutStage(id, actor)
  <2>1. /\ action'[id] = action[id]
        /\ state'[id] \in {"Closed", "Verify", "RolledBack"}
    BY <1>0, <1>13, RolloutCases
  <2>2. PhaseOf(state[id]) = "proven" /\ PhaseOf(state'[id]) = "ended"
    BY <1>13, <2>1 DEF PhaseOf, Absent
  <2>3. ScopeOf(id)' = ScopeOf(id) /\ PilotOf(id)' = PilotOf(id)
    BY <1>6, <1>13, <2>1 DEF Absent
  <2>4. Reached(id)' \in SUBSET (absReach[id] \cup absScope[id])
    BY <1>2, <1>7, <1>13 DEF Frontier, ScopeOf, Absent
  <2>5. Staged!Spread(id)
    BY <1>1, <1>2, <1>3, <2>2, <2>3, <2>4
       DEF Staged!Spread, absPhase, absScope, absPilot, absReach, ScopeOf,
           PilotOf
  <2> QED
    BY <2>5 DEF Staged!StagedNext
<1>14. CASE state[id] \in RollbackFrom /\ RollbackStage(id, actor)
  <2>1. /\ action'[id] = action[id]
        /\ state'[id] \in {"RolledBack", "RollbackIncomplete"}
    BY <1>0, <1>14, RollbackCases
  <2>2. /\ PhaseOf(state[id]) \in {"proven", "ended"}
        /\ PhaseOf(state'[id]) = "ended"
    BY <1>14, <2>1 DEF RollbackFrom, PhaseOf, Absent
  <2>3. ScopeOf(id)' = ScopeOf(id) /\ PilotOf(id)' = PilotOf(id)
    BY <1>6, <1>14, <2>1 DEF RollbackFrom, Absent
  <2>4. Reached(id)' \in SUBSET absReach[id]
    <3>1. PICK stuck :
            ApplyThenRollback(id, {}, {}, RollbackSet(id), stuck)
      BY <1>0, <1>14, RollbackCases
    <3> QED
      BY <1>0, <1>2, <3>1, RollbackEffect DEF Reached
  <2>5. Staged!End(id)
    BY <1>1, <1>2, <1>3, <2>2, <2>3, <2>4
       DEF Staged!End, absPhase, absScope, absPilot, absReach, ScopeOf,
           PilotOf
  <2> QED
    BY <2>5 DEF Staged!StagedNext
<1> QED
  BY <1>0, <1>10, <1>11, <1>12, <1>13, <1>14, CallCases

\* The bridge implements the staged-change discipline: reviewed, cleared,
\* piloted, spread, ended, and never spread again.
THEOREM BridgeRefinesStaged == BridgeSpec => ImplementsStaged
<1>1. BridgeInit => Staged!StagedInit
  BY DEF BridgeInit, Staged!StagedInit, PhaseOf, Reached, Absent
<1>2. BridgeInv /\ [BridgeNext]_bridgeVars
        => [Staged!StagedNext]_(Staged!stagedVars)
  <2> SUFFICES ASSUME BridgeInv, [BridgeNext]_bridgeVars
               PROVE  Staged!StagedNext \/ UNCHANGED Staged!stagedVars
    OBVIOUS
  <2>1. CASE BridgeNext
    BY <2>1, CallRefines
       DEF BridgeNext, Staged!stagedVars, absPhase, absScope, absPilot,
           absReach, ScopeOf, PilotOf
  <2>2. CASE UNCHANGED bridgeVars
    BY <2>2 DEF bridgeVars, Staged!stagedVars, Reached
  <2> QED
    BY <2>1, <2>2
<1> QED
  BY Invariance, <1>1, <1>2, PTL
     DEF BridgeSpec, ImplementsStaged, Staged!StagedSpec

=============================================================================
