------------------------------- MODULE Bridge -------------------------------
(***************************************************************************)
(* The remediation bridge: server/remediation/src/{action,audit,bridge}.rs.*)
(*                                                                         *)
(* The bridge owns one record per user-authored action (its lifecycle      *)
(* state, the drafted content and the targets its payload was applied to)  *)
(* and every public method is one atomic step: the methods take &mut self  *)
(* and the agent serves all its connections from one thread.               *)
(*                                                                         *)
(* Data kept: the author's ordered target list, the canary cohort size,    *)
(* the failure threshold (here in percent) and whether the action carries  *)
(* a rollback payload.  Payload text, names, reasons and the wording of    *)
(* the audit details are left out.  The same asset is not listed twice.    *)
(*                                                                         *)
(* The audit log is kept as what the properties read from it: `by`, the    *)
(* actor of the latest accepted event that entered each state since the    *)
(* action was last drafted.                                                *)
(*                                                                         *)
(* The executor and the verifier are seams (traits): which targets fail    *)
(* and what the re-score says is chosen freely in each stage.              *)
(***************************************************************************)
EXTENDS Integers, FiniteSets, Sequences

CONSTANTS ActionId,     \* identifiers of remediation actions
          Asset,        \* hosts an action may target
          Actor,        \* names recorded in the audit trail
          Drafts,       \* the contents an author may draft
          NoActor,      \* "nobody", outside Actor
          NoDraft       \* the content of an absent record, outside Drafts

\* RemediationAction, the fields the bridge reads.  failure_threshold is the
\* f32 threshold times 100.
RemediationAction == [asset_ids         : Seq(Asset),
                      cohort_size       : Nat,
                      failure_threshold : Int,
                      rollback          : BOOLEAN]

ASSUME AssetsFinite == IsFiniteSet(Asset)

ASSUME DraftsAreActions ==
  /\ Drafts \subseteq RemediationAction
  /\ \A a \in Drafts : \A i, j \in DOMAIN a.asset_ids :
       a.asset_ids[i] = a.asset_ids[j] => i = j

ASSUME NobodyIsNoActor == NoActor \notin Actor
ASSUME NothingIsNoDraft == NoDraft \notin Drafts

ActionState == {"Drafted", "Mapped", "DryRun", "PendingApproval", "Approved",
                "Canary", "CanaryVerify", "Rollout", "Verify", "Closed",
                "Aborted", "RolledBack", "RollbackIncomplete"}

\* HashMap::get on an id that was never drafted.
Absent == "Absent"

\* What the executor left on one host: its payload never ran or was reverted;
\* its last run succeeded; its last run reported an error, which a timeout or a
\* non-zero exit does after any part of the payload may have taken effect.
HostState == {"clean", "applied", "failed"}

VerifyOutcome == {"Fixed", "NotFixed"}

VARIABLES action,   \* Record.action
          state,    \* Record.state, Absent for an unknown id
          applied,  \* Record.applied, the targets the bridge would roll back
          host,     \* external: the hosts the executor works on
          by,       \* audit trail: who moved the action into a state
          ret       \* the Result of the last call

bridgeVars == <<action, state, applied, host, by, ret>>

-----------------------------------------------------------------------------
(* The drafted content. *)

Targets(a) == {a.asset_ids[i] : i \in DOMAIN a.asset_ids}

\* AssetSelector::is_scoped: there is no default-all selector.
IsScoped(a) == a.asset_ids # << >>

\* cohort_size.max(1).min(asset_ids.len())
CohortSize(a) ==
  LET n == IF a.cohort_size < 1 THEN 1 ELSE a.cohort_size
  IN  IF n < Len(a.asset_ids) THEN n ELSE Len(a.asset_ids)

Cohort(a) == {a.asset_ids[i] : i \in 1..CohortSize(a)}

\* Mutant: the rate is not compared.
NeverExceeds(a, failed, stage) == FALSE

\* failure_rate > threshold, the rate over no target at all being 0.
ExceedsThreshold(a, failed, stage) ==
  IF stage = {}
  THEN 0 > a.failure_threshold
  ELSE 100 * Cardinality(failed) > a.failure_threshold * Cardinality(stage)

-----------------------------------------------------------------------------
(* What the methods share. *)

Answer(result) == ret' = result

\* set_state, and the success branch of guarded: the action enters the states
\* of `entered` one after the other, ends in `to`, and each entry is audited.
SetState(id, entered, to, actor) ==
  /\ state' = [state EXCEPT ![id] = to]
  /\ by' = [by EXCEPT ![id] =
              [s \in ActionState |-> IF s \in entered THEN actor ELSE @[s]]]

\* A known action in the wrong state, or an unknown id.
Refuse(id) ==
  /\ Answer("Err")
  /\ UNCHANGED <<action, state, applied, host, by>>

Guarded(id, allowed, to, actor) ==
  \/ /\ state[id] \in allowed
     /\ SetState(id, {to}, to, actor)
     /\ Answer("Ok")
     /\ UNCHANGED <<action, applied, host>>
  \/ /\ state[id] \notin allowed
     /\ Refuse(id)

\* apply_targets over `stage`, of which exactly `ok` succeeded, when nothing is
\* rolled back afterwards.
ApplyTargets(id, stage, ok) ==
  /\ applied' = [applied EXCEPT ![id] = @ \cup ok]
  /\ host' = [host EXCEPT ![id] =
                [h \in Asset |-> IF h \in ok THEN "applied"
                                 ELSE IF h \in stage THEN "failed" ELSE @[h]]]

\* Mutant: targets whose rollback failed are forgotten.
ApplyThenForget(id, stage, ok, live, stuck) ==
  /\ applied' = [applied EXCEPT ![id] = {}]
  /\ host' = [host EXCEPT ![id] =
                [h \in Asset |->
                   IF h \in live \ stuck /\ action[id].rollback THEN "clean"
                   ELSE IF h \in ok THEN "applied"
                   ELSE IF h \in stage THEN "failed" ELSE @[h]]]

\* apply_targets followed by rollback_applied over `live`, where the rollback
\* of exactly `stuck` failed: those stay in the record.  An action without a
\* rollback payload "rolls back" successfully without changing the host.
ApplyThenRollback(id, stage, ok, live, stuck) ==
  /\ applied' = [applied EXCEPT ![id] = stuck]
  /\ host' = [host EXCEPT ![id] =
                [h \in Asset |->
                   IF h \in live \ stuck /\ action[id].rollback THEN "clean"
                   ELSE IF h \in ok THEN "applied"
                   ELSE IF h \in stage THEN "failed" ELSE @[h]]]

-----------------------------------------------------------------------------
(* The public methods. *)

\* The record of the id, whatever it was, is replaced.
Store(id, a, actor) ==
  /\ action' = [action EXCEPT ![id] = a]
  /\ state' = [state EXCEPT ![id] = "Drafted"]
  /\ applied' = [applied EXCEPT ![id] = {}]
  /\ by' = [by EXCEPT ![id] = [s \in ActionState |->
                                 IF s = "Drafted" THEN actor ELSE NoActor]]
  /\ Answer("Ok")
  /\ UNCHANGED host

\* draft: an unscoped selector is refused and not stored.
Draft(id, a, actor) ==
  \/ /\ ~ IsScoped(a)
     /\ Answer("Err")
     /\ UNCHANGED <<action, state, applied, host, by>>
  \/ /\ IsScoped(a)
     /\ Store(id, a, actor)

MapToItem(id, actor) == Guarded(id, {"Drafted"}, "Mapped", actor)

DryRun(id, actor) == Guarded(id, {"Drafted", "Mapped"}, "DryRun", actor)

SubmitForApproval(id, actor) ==
  Guarded(id, {"DryRun"}, "PendingApproval", actor)

\* Mutant: approved without having been submitted.
ApproveUnsubmitted(id, actor) ==
  Guarded(id, {"DryRun", "PendingApproval"}, "Approved", actor)

Approve(id, actor) == Guarded(id, {"PendingApproval"}, "Approved", actor)

Reject(id, actor) == Guarded(id, {"PendingApproval"}, "Aborted", actor)

\* The kill switch; the applied targets are left as they are.
Abort(id, actor) ==
  Guarded(id, {"Approved", "Canary", "CanaryVerify", "Rollout", "Verify"},
          "Aborted", actor)

\* The canary cohort of an approved action.
CanaryStage(id, actor) ==
  LET cohort == Cohort(action[id])
  IN \E ok \in SUBSET cohort, verdict \in VerifyOutcome :
       LET live   == applied[id] \cup ok
           halted == \/ ExceedsThreshold(action[id], cohort \ ok, cohort)
                     \/ verdict = "NotFixed"
       IN /\ \/ /\ ~ halted
                /\ SetState(id, {"Canary", "CanaryVerify", "Rollout"},
                            "Rollout", actor)
                /\ ApplyTargets(id, cohort, ok)
             \/ /\ halted
                /\ SetState(id, {"Canary", "CanaryVerify", "RolledBack"},
                            "RolledBack", actor)
                /\ \E stuck \in SUBSET live :
                     ApplyThenRollback(id, cohort, ok, live, stuck)
          /\ Answer("Ok")
          /\ UNCHANGED action

RunCanary(id, actor) ==
  \/ state[id] = "Approved" /\ CanaryStage(id, actor)
  \/ state[id] # "Approved" /\ Refuse(id)

\* Every target the canary did not succeed on, including the canary targets
\* that failed within the threshold.
Remaining(id) == Targets(action[id]) \ applied[id]

RolloutStage(id, actor) ==
  \E ok \in SUBSET Remaining(id), verdict \in VerifyOutcome :
    LET rest     == Remaining(id)
        live     == applied[id] \cup ok
        exceeded == ExceedsThreshold(action[id], rest \ ok, rest)
    IN /\ \/ /\ exceeded
             /\ SetState(id, {"Verify", "RolledBack"}, "RolledBack", actor)
             /\ \E stuck \in SUBSET live :
                  ApplyThenRollback(id, rest, ok, live, stuck)
             /\ Answer("Ok")
          \/ /\ ~ exceeded
             /\ verdict = "Fixed"
             /\ SetState(id, {"Verify", "Closed"}, "Closed", actor)
             /\ ApplyTargets(id, rest, ok)
             /\ Answer("Ok")
          \/ /\ ~ exceeded
             /\ verdict = "NotFixed"        \* AppliedUnverified
             /\ SetState(id, {"Verify"}, "Verify", actor)
             /\ ApplyTargets(id, rest, ok)
             /\ Answer("Ok")
       /\ UNCHANGED action

\* Mutant: the rollout does not wait for the canary.
RunRolloutEarly(id, actor) ==
  \/ state[id] \in {"Approved", "Rollout"} /\ RolloutStage(id, actor)
  \/ state[id] \notin {"Approved", "Rollout"} /\ Refuse(id)

RunRollout(id, actor) ==
  \/ state[id] = "Rollout" /\ RolloutStage(id, actor)
  \/ state[id] # "Rollout" /\ Refuse(id)

\* Mutant: an aborted action can be rolled back.
RollbackFromAborted ==
  {"Closed", "Verify", "Rollout", "RollbackIncomplete", "Aborted"}

RollbackFrom == {"Closed", "Verify", "Rollout", "RollbackIncomplete"}

\* The applied set, or every target when it is empty.
RollbackSet(id) ==
  IF applied[id] = {} THEN Targets(action[id]) ELSE applied[id]

RollbackStage(id, actor) ==
  \E stuck \in SUBSET RollbackSet(id) :
    /\ ApplyThenRollback(id, {}, {}, RollbackSet(id), stuck)
    /\ \/ /\ stuck = {}
          /\ SetState(id, {"RolledBack"}, "RolledBack", actor)
          /\ Answer("Ok")
       \/ /\ stuck # {}
          /\ SetState(id, {"RollbackIncomplete"}, "RollbackIncomplete", actor)
          /\ Answer("Err")
    /\ UNCHANGED action

RunRollback(id, actor) ==
  \/ state[id] \in RollbackFrom /\ RollbackStage(id, actor)
  \/ state[id] \notin RollbackFrom /\ Refuse(id)

-----------------------------------------------------------------------------

BridgeInit ==
  /\ action  = [id \in ActionId |-> NoDraft]
  /\ state   = [id \in ActionId |-> Absent]
  /\ applied = [id \in ActionId |-> {}]
  /\ host    = [id \in ActionId |-> [h \in Asset |-> "clean"]]
  /\ by      = [id \in ActionId |-> [s \in ActionState |-> NoActor]]
  /\ ret     = "none"

Call(id, actor) ==
  \/ \E a \in Drafts : Draft(id, a, actor)
  \/ MapToItem(id, actor)
  \/ DryRun(id, actor)
  \/ SubmitForApproval(id, actor)
  \/ Approve(id, actor)
  \/ Reject(id, actor)
  \/ Abort(id, actor)
  \/ RunCanary(id, actor)
  \/ RunRollout(id, actor)
  \/ RunRollback(id, actor)

BridgeNext == \E id \in ActionId, actor \in Actor : Call(id, actor)

BridgeSpec == BridgeInit /\ [][BridgeNext]_bridgeVars

-----------------------------------------------------------------------------
(* Properties. *)

\* Every part of the bridge's state has its type; a record is present exactly
\* when its content is, and only scoped content is stored (Bridge::draft).
BridgeTypeOK ==
  /\ action \in [ActionId -> Drafts \cup {NoDraft}]
  /\ state \in [ActionId -> ActionState \cup {Absent}]
  /\ applied \in [ActionId -> SUBSET Asset]
  /\ host \in [ActionId -> [Asset -> HostState]]
  /\ by \in [ActionId -> [ActionState -> Actor \cup {NoActor}]]
  /\ ret \in {"none", "Ok", "Err"}
  /\ \A id \in ActionId :
       IF state[id] = Absent
       THEN action[id] = NoDraft /\ applied[id] = {}
       ELSE action[id] \in Drafts /\ IsScoped(action[id])

\* The states an action can only be in after its approval.
PostApproval == {"Approved", "Canary", "CanaryVerify", "Rollout", "Verify",
                 "Closed", "RolledBack", "RollbackIncomplete"}

\* Bridge header, "reaching Approved requires a dry-run AND an approval": the
\* audit trail of an action in any post-approval state names who previewed,
\* submitted and approved this very draft, and past the canary who promoted it.
ApprovalRequired ==
  \A id \in ActionId :
    /\ state[id] \in PostApproval =>
         \A gate \in {"Drafted", "DryRun", "PendingApproval", "Approved"} :
           by[id][gate] \in Actor
    /\ state[id] \in {"Rollout", "Verify", "Closed", "RollbackIncomplete"} =>
         by[id]["Rollout"] \in Actor

\* The hosts on which the payload of an action has run and was not reverted.
Reached(id) == {h \in Asset : host[id][h] # "clean"}

\* What a step may never do: run the payload on a host the action has not
\* reached before, unless the current draft is approved, the host is one of
\* its targets, and the host is in the canary cohort or the canary was
\* promoted (run_canary and run_rollout are the only callers of apply).
StagedReach ==
  [][\A id \in ActionId :
       \A h \in Reached(id)' \ Reached(id) :
         /\ by[id]["Approved"] \in Actor
         /\ h \in Targets(action[id])
         /\ h \in Cohort(action[id]) \/ by[id]["Rollout"] \in Actor]_bridgeVars

\* A promoted canary is within the author's failure threshold over the cohort,
\* and a finished rollout is within it over the WHOLE target list, although
\* run_rollout measures its rate over the remaining targets only.
WithinThreshold ==
  \A id \in ActionId :
    LET a == action[id] IN
    /\ state[id] = "Rollout" =>
         /\ applied[id] \subseteq Cohort(a)
         /\ 100 * Cardinality(Cohort(a) \ applied[id])
               <= a.failure_threshold * Cardinality(Cohort(a))
    /\ state[id] \in {"Verify", "Closed"} =>
         100 * Cardinality(Targets(a) \ applied[id])
           <= a.failure_threshold * Cardinality(Targets(a))

\* The record is honest: a target the bridge lists as applied really carries a
\* successful run.  The exception is a failed operator rollback, whose retry set
\* may come from the "roll back every target" fallback of run_rollback.
LedgerHonest ==
  \A id \in ActionId :
    state[id] # "RollbackIncomplete" =>
      \A h \in applied[id] : host[id][h] = "applied"

\* Aborted and RolledBack are final for a draft, and RollbackIncomplete can only
\* be retried: no later call moves such an action forward again, short of
\* replacing the record by a new draft.
Final ==
  [][\A id \in ActionId :
       /\ state[id] \in {"Aborted", "RolledBack"} =>
            state'[id] \in {state[id], "Drafted"}
       /\ state[id] = "RollbackIncomplete" =>
            state'[id] \in {"RollbackIncomplete", "RolledBack", "Drafted"}
    ]_bridgeVars

-----------------------------------------------------------------------------
(* Refinement. *)

PhaseOf(s) ==
  CASE s = Absent -> "none"
    [] s \in {"Drafted", "Mapped", "DryRun", "PendingApproval"} -> "review"
    [] s \in {"Approved", "Canary", "CanaryVerify"} -> "cleared"
    [] s = "Rollout" -> "proven"
    [] OTHER -> "ended"

Staged == INSTANCE StagedChange WITH
            Change <- ActionId,
            Host   <- Asset,
            phase  <- [id \in ActionId |-> PhaseOf(state[id])],
            scope  <- [id \in ActionId |-> IF state[id] = Absent THEN {}
                                           ELSE Targets(action[id])],
            pilot  <- [id \in ActionId |-> IF state[id] = Absent THEN {}
                                           ELSE Cohort(action[id])],
            reach  <- [id \in ActionId |-> Reached(id)]

\* The bridge implements the staged-change discipline.
ImplementsStaged == Staged!StagedSpec
=============================================================================
