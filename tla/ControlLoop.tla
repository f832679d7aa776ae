---------------------------- MODULE ControlLoop -----------------------------
(***************************************************************************)
(* One agent control loop over the bridge: the gates of                    *)
(* server/remediation/src/control.rs, the deferred release of              *)
(* server/remediation/src/scheduler.rs, and AgentControlLoop of            *)
(* server/control-plane/src/lib.rs, which is their only caller.            *)
(*                                                                         *)
(* The loop serves one session.  A frame carries a command, the sequence   *)
(* number it was signed under, and a signature that verifies or does not;  *)
(* the environment delivers any frame at any time, so frames are lost,     *)
(* duplicated and reordered at will.  A command of another session is      *)
(* refused like a stale one, and the undecodable and wrong-direction       *)
(* frames serve_one skips change nothing: neither has an action of its     *)
(* own.                                                                    *)
(*                                                                         *)
(* serve_one and each iteration of the loop in Scheduler::tick are atomic: *)
(* both need &mut self.  A tick takes as long as the stages it runs, so    *)
(* the clock advances between its iterations.                              *)
(*                                                                         *)
(* `settled` is what the answer and the audit trail of the last step say   *)
(* became of the commands that step disposed of, by sequence number.  The  *)
(* audit entries the scheduler writes are in it; `ret` stays that of the   *)
(* last bridge method or gate.                                             *)
(***************************************************************************)
EXTENDS Bridge, Collections

CONSTANTS RoleOf,     \* RolePolicy.roles
          Commands,   \* the commands that are signed and sent
          NoWindow,   \* ControlCommand.schedule = None
          NoTime,     \* no tick is running
          MaxSeq,     \* bound: sequence numbers of the session
          MaxHeld,    \* bound: commands scheduled at the same time
          MaxTime     \* bound: the clock stops here

Role == {"Operator", "Approver", "Responder", "Admin"}

Lifecycle == {"Draft", "Submit", "Approve", "Reject", "Abort"}
Execution == {"Canary", "Rollout", "Rollback"}

Time  == 0..MaxTime
SeqNo == 1..MaxSeq

Schedule == [not_before : Nat, not_after : Nat]

\* A Draft carries the content and the id written inside it.
ControlCommand == [action_id : ActionId,
                   kind      : Lifecycle \cup Execution,
                   actor     : Actor,
                   schedule  : Schedule \cup {NoWindow},
                   body      : Drafts \cup {NoDraft},
                   body_id   : ActionId]

ASSUME RolesKnown == RoleOf \in [Actor -> Role \cup {"none"}]
ASSUME CommandsTyped ==
  /\ Commands \subseteq ControlCommand
  /\ \A c \in Commands : c.kind = "Draft" => c.body \in Drafts
ASSUME BoundsAreNat == MaxSeq \in Nat /\ MaxHeld \in Nat /\ MaxTime \in Nat
ASSUME NoTimeIsNone == NoTime \notin Time /\ NoWindow \notin Schedule

VARIABLES hwm,      \* ReplayGuard.seen of the session
          pending,  \* Scheduler.pending; during a tick, still_pending
          batch,    \* the commands a running tick has still to look at
          tickNow,  \* the time the running tick has read, or NoTime
          clock,    \* external: the injected Clock
          reply,    \* outcome of the CommandResult sent by the last step
          settled   \* what the last step reported about which commands

loopVars == <<hwm, pending, batch, tickNow, clock, reply, settled>>
vars == <<bridgeVars, loopVars>>

Pending == [cmd : Commands, seq : SeqNo]

-----------------------------------------------------------------------------
(* The gates. *)

\* Mutant: an operator may approve.
PermitsOwnApproval(role, kind) ==
  \/ role = "Admin"
  \/ role = "Operator" /\ kind \in {"Draft", "Submit", "Approve"} \cup Execution
  \/ role = "Approver" /\ kind \in {"Approve", "Reject"}
  \/ role = "Responder" /\ kind = "Abort"

\* Role::permits; an actor without a role is denied everything.
Permits(role, kind) ==
  \/ role = "Admin"
  \/ role = "Operator" /\ kind \in {"Draft", "Submit"} \cup Execution
  \/ role = "Approver" /\ kind \in {"Approve", "Reject"}
  \/ role = "Responder" /\ kind = "Abort"

Authorized(c) == Permits(RoleOf[c.actor], c.kind)

\* Mutant: the last number is admitted again.
FreshOrLast(seq) == seq >= hwm

Fresh(seq) == seq > hwm

Verdict == {"done", "failed", "refused"}

Report(seqs, what) == settled' = {[seq |-> s, what |-> what] : s \in seqs}

\* A refusal by a gate: audited, answered, nothing else happens.
Rejected ==
  /\ Answer("Err")
  /\ reply' = "Rejected"
  /\ UNCHANGED <<action, state, applied, host, by, pending>>

-----------------------------------------------------------------------------
(* What an admitted and authorized command does. *)

\* draft and the preview that follows it in the same call.
DraftAndPreview(c, seq) ==
  /\ action' = [action EXCEPT ![c.action_id] = c.body]
  /\ applied' = [applied EXCEPT ![c.action_id] = {}]
  /\ SetState(c.action_id, {"Drafted", "DryRun"}, "DryRun", c.actor)
  /\ Answer("Ok")
  /\ reply' = "Applied"
  /\ Report({seq}, "done")
  /\ UNCHANGED <<host, pending>>

\* The record must be new, the ids must agree, the selector must be scoped.
AcceptsDraft(c) ==
  /\ c.body_id = c.action_id
  /\ state[c.action_id] = Absent
  /\ IsScoped(c.body)

\* handle_draft_fresh.
HandleDraft(c, seq) ==
  \/ AcceptsDraft(c) /\ DraftAndPreview(c, seq)
  \/ ~ AcceptsDraft(c) /\ Rejected /\ Report({seq}, "refused")

\* The answer to a command whose bridge method has been called.
Outcome(seq) ==
  /\ reply' = IF ret' = "Ok" THEN "Applied" ELSE "Rejected"
  /\ Report({seq}, IF ret' = "Ok" THEN "done" ELSE "refused")

\* Submit, Approve and Reject.
HandleFresh(c, seq) ==
  /\ \/ c.kind = "Submit"  /\ SubmitForApproval(c.action_id, c.actor)
     \/ c.kind = "Approve" /\ Approve(c.action_id, c.actor)
     \/ c.kind = "Reject"  /\ Reject(c.action_id, c.actor)
  /\ Outcome(seq)
  /\ UNCHANGED pending

Cancelled(c) == {i \in DOMAIN pending : pending[i].cmd.action_id = c.action_id}

\* Scheduler::cancel: what is held for the action is dropped, and the trail says
\* so.
Cancel(c, seq) ==
  /\ pending' = Filter(pending, {p \in Pending : p.cmd.action_id # c.action_id})
  /\ settled' = {[seq |-> seq, what |-> "done"]} \cup
       {[seq |-> pending[i].seq, what |-> "refused"] : i \in Cancelled(c)}

\* Mutant: a refused abort cancels too.
HandleAbortAlways(c, seq) ==
  /\ Abort(c.action_id, c.actor)
  /\ reply' = IF ret' = "Ok" THEN "Applied" ELSE "Rejected"
  /\ Cancel(c, seq)

\* handle_fresh with an Abort; only one that has applied cancels.
HandleAbort(c, seq) ==
  /\ Abort(c.action_id, c.actor)
  /\ \/ ret' = "Ok" /\ reply' = "Applied" /\ Cancel(c, seq)
     \/ /\ ret' = "Err"
        /\ reply' = "Rejected"
        /\ Report({seq}, "refused")
        /\ UNCHANGED pending

RunStage(c) ==
  \/ c.kind = "Canary"   /\ RunCanary(c.action_id, c.actor)
  \/ c.kind = "Rollout"  /\ RunRollout(c.action_id, c.actor)
  \/ c.kind = "Rollback" /\ RunRollback(c.action_id, c.actor)

\* dispatch_execution_fresh: without a window the stage runs at once.
ExecuteFresh(c, seq) ==
  /\ c.schedule = NoWindow
  /\ RunStage(c)
  /\ Outcome(seq)
  /\ UNCHANGED pending

\* Scheduler::enqueue: with a window the command is held, unless the window is
\* already over.  The action it is for is not looked at.
Enqueue(c, seq) ==
  /\ c.schedule # NoWindow
  /\ Len(pending) < MaxHeld
  /\ \/ /\ clock > c.schedule.not_after
        /\ Rejected
        /\ Report({seq}, "refused")
     \/ /\ clock <= c.schedule.not_after
        /\ pending' = Append(pending, [cmd |-> c, seq |-> seq])
        /\ reply' = "Applied"
        /\ Report({}, "done")
        /\ UNCHANGED bridgeVars

Handle(c, seq) ==
  \/ c.kind = "Draft" /\ HandleDraft(c, seq)
  \/ HandleFresh(c, seq)
  \/ c.kind = "Abort" /\ HandleAbort(c, seq)
  \/ c.kind \in Execution /\ (ExecuteFresh(c, seq) \/ Enqueue(c, seq))

-----------------------------------------------------------------------------
(* The loop. *)

\* The gates behind authentication: freshness, which consumes the sequence
\* number, then authorization, then the command.
Gated(c, seq) ==
  /\ Fresh(seq)
  /\ hwm' = seq
  /\ \/ ~ Authorized(c) /\ Rejected /\ Report({seq}, "refused")
     \/ Authorized(c) /\ Handle(c, seq)

\* AgentControlLoop::serve_one.  A frame that is not authentic or not fresh is
\* refused whatever it says.
ServeOne ==
  /\ tickNow = NoTime
  /\ \/ Rejected /\ Report({}, "refused") /\ UNCHANGED hwm
     \/ \E c \in Commands, seq \in SeqNo : Gated(c, seq)
  /\ UNCHANGED <<batch, tickNow, clock>>

\* Mutant: the queue is copied, not taken.
TickBeginCopy ==
  /\ tickNow = NoTime /\ pending # << >>
  /\ tickNow' = clock /\ batch' = pending
  /\ reply' = "none" /\ settled' = {}
  /\ UNCHANGED <<bridgeVars, hwm, clock, pending>>

\* AgentControlLoop::tick reads the clock once and takes the whole queue.
TickBegin ==
  /\ tickNow = NoTime
  /\ pending # << >>
  /\ tickNow' = clock
  /\ batch' = pending
  /\ pending' = << >>
  /\ reply' = "none" /\ settled' = {}
  /\ UNCHANGED <<bridgeVars, hwm, clock>>

Opened(w)  == w.not_before <= tickNow
Expired(w) == tickNow > w.not_after

\* Mutant: an expired command is kept.
KeepExpired(p) ==
  /\ Expired(p.cmd.schedule)
  /\ pending' = Append(pending, p)
  /\ settled' = {}
  /\ UNCHANGED bridgeVars

DropExpired(p) ==
  /\ Expired(p.cmd.schedule)
  /\ Report({p.seq}, "refused")
  /\ UNCHANGED <<bridgeVars, pending>>

KeepEarly(p) ==
  /\ ~ Expired(p.cmd.schedule) /\ ~ Opened(p.cmd.schedule)
  /\ pending' = Append(pending, p)
  /\ settled' = {}
  /\ UNCHANGED bridgeVars

\* An error that left the action's state as it was is reported as a refusal, an
\* error that changed it as a failed execution.
Release(p) ==
  LET id == p.cmd.action_id
  IN /\ ~ Expired(p.cmd.schedule) /\ Opened(p.cmd.schedule)
     /\ RunStage(p.cmd)
     /\ Report({p.seq}, IF ret' = "Ok" THEN "done"
                        ELSE IF state'[id] # state[id] THEN "failed"
                        ELSE "refused")
     /\ UNCHANGED pending

\* One iteration of the loop in Scheduler::tick.
TickStep ==
  /\ batch # << >>
  /\ batch' = Tail(batch)
  /\ tickNow' = IF Tail(batch) = << >> THEN NoTime ELSE tickNow
  /\ reply' = "none"
  /\ \/ DropExpired(Head(batch))
     \/ KeepEarly(Head(batch))
     \/ Release(Head(batch))
  /\ UNCHANGED <<hwm, clock>>

ClockAdvance ==
  /\ clock < MaxTime
  /\ clock' = clock + 1
  /\ reply' = "none" /\ settled' = {}
  /\ UNCHANGED <<bridgeVars, hwm, pending, batch, tickNow>>

LoopInit ==
  /\ BridgeInit
  /\ hwm = 0
  /\ pending = << >> /\ batch = << >> /\ tickNow = NoTime
  /\ clock = 0
  /\ reply = "none"
  /\ settled = {}

LoopNext ==
  \/ ServeOne
  \/ TickBegin
  \/ TickStep
  \/ ClockAdvance

LoopSpec == LoopInit /\ [][LoopNext]_vars

-----------------------------------------------------------------------------
(* Properties. *)

\* The commands the scheduler holds, a running tick's batch first.
Held == batch \o pending
HeldSeqs == {Held[i].seq : i \in DOMAIN Held}

\* The commands the last step says it carried out, wholly or in part.
CarriedOut == {r.seq : r \in {x \in settled : x.what # "refused"}}

\* The scheduler holds each command once, and only commands whose sequence
\* number the replay guard has consumed.
HeldOnce ==
  /\ \A i, j \in DOMAIN Held : Held[i].seq = Held[j].seq => i = j
  /\ \A s \in HeldSeqs : s <= hwm

\* Every part of the loop's state has its type, and a tick is running exactly
\* while it has commands left to look at, of which none is held twice.
LoopTypeOK ==
  /\ BridgeTypeOK
  /\ hwm \in 0..MaxSeq
  /\ pending \in Seq(Pending) /\ batch \in Seq(Pending)
  /\ tickNow \in Time \cup {NoTime}
  /\ tickNow = NoTime <=> batch = << >>
  /\ clock \in Time
  /\ reply \in {"none", "Applied", "Rejected"}
  /\ settled \subseteq [seq : SeqNo, what : Verdict]
  /\ HeldOnce

\* A signed command takes effect at most once and is never lost in silence: a
\* command is settled only while it is fresh or held and is neither afterwards;
\* what is no longer held was settled; and the bridge, the hosts and the trail
\* change only with a command being carried out, except that a scheduled
\* rollback which fails a second time is reported as refused.
OneEffectPerCommand ==
  [][/\ \A r \in settled' : /\ r.seq > hwm \/ r.seq \in HeldSeqs
                            /\ r.seq <= hwm' /\ r.seq \notin HeldSeqs'
     /\ HeldSeqs \ HeldSeqs' \subseteq {r.seq : r \in settled'}
     /\ \/ UNCHANGED <<action, state, applied, host, by>>
        \/ Cardinality(CarriedOut') = 1
        \/ \E id \in ActionId : state[id] \in RollbackFrom
                                /\ state'[id] = "RollbackIncomplete"
    ]_vars

\* Four eyes (Role::permits and the lifecycle together): whoever drafted and
\* drove an action could author it, whoever approved it could approve it, and
\* the two are different people unless that person is an administrator.
SeparationOfDuties ==
  \A id \in ActionId :
    /\ \A s \in {"Drafted", "DryRun", "PendingApproval", "Canary", "Rollout"} :
         by[id][s] # NoActor => RoleOf[by[id][s]] \in {"Operator", "Admin"}
    /\ by[id]["Approved"] # NoActor =>
         /\ RoleOf[by[id]["Approved"]] \in {"Approver", "Admin"}
         /\ \/ by[id]["Approved"] # by[id]["Drafted"]
            \/ RoleOf[by[id]["Approved"]] = "Admin"

\* What was approved is what runs, once: the content of a record never changes,
\* and no state but RollbackIncomplete is entered twice, whatever is re-sent.
EachGateOnce ==
  [][\A id \in ActionId :
       /\ state[id] # Absent => action'[id] = action[id]
       /\ \A s \in ActionState \ {"RollbackIncomplete"} :
            by[id][s] # NoActor => by'[id][s] = by[id][s]]_vars

\* The record is complete: a host that carries a successful run is listed, so a
\* rollback finds it.  Only an action without a rollback payload escapes.  The
\* bridge alone does not promise this: a second draft would forget the hosts.
LedgerComplete ==
  \A id \in ActionId : state[id] # Absent /\ action[id].rollback =>
    \A h \in Asset : host[id][h] = "applied" => h \in applied[id]

\* The kill switch: an aborted action stays aborted, and nothing held, re-sent
\* or scheduled later touches another host for it.
KillSwitch ==
  [][\A id \in ActionId : state[id] = "Aborted" =>
       state'[id] = "Aborted" /\ host'[id] = host[id]]_vars

\* A rejected command changed nothing, unless it was a rollback that reverted
\* some targets and not others.
RejectedChangesNothing ==
  [][reply' = "Rejected" =>
       \/ UNCHANGED <<action, state, applied, host, by, pending>>
       \/ \E id \in ActionId : /\ state[id] \in RollbackFrom
                               /\ state'[id] = "RollbackIncomplete"]_vars

\* A scheduled stage never starts before the time its window opens.
NeverEarly ==
  [][\A i \in DOMAIN batch : batch[i].seq \in CarriedOut' =>
       batch[i].cmd.schedule.not_before <= clock]_vars

\* Nor is it released by a tick that found the window over when it read the
\* clock; the stages before it in that tick may take longer than its window.
NeverLate ==
  [][\A i \in DOMAIN batch : batch[i].seq \in CarriedOut' =>
       tickNow <= batch[i].cmd.schedule.not_after]_vars

\* What a tick leaves behind when it ends was not due when it began: whatever is
\* held is released or dropped by the first tick after its window has opened.
NothingDueLeft ==
  [][tickNow # NoTime /\ tickNow' = NoTime =>
       \A i \in DOMAIN pending' : tickNow < pending'[i].cmd.schedule.not_before]_vars

\* Through any number of ticks and cancellations, a stage overtakes one that was
\* signed before it only while that one's window has not opened.
InTurn ==
  [][\A i \in DOMAIN batch, j \in DOMAIN Held :
       batch[i].seq \in CarriedOut' /\ Held[j].seq < batch[i].seq =>
         tickNow < Held[j].cmd.schedule.not_before]_vars

\* A signed command takes effect once, and with it each gate of the lifecycle.
OneEffect == OneEffectPerCommand /\ EachGateOnce

\* What the record lists was applied, and what was applied is listed.
LedgerExact == LedgerHonest /\ LedgerComplete

\* A scheduled command runs in its window and in its turn, or is dropped, and no
\* tick passes it by.
Timely == NeverEarly /\ NeverLate /\ NothingDueLeft /\ InTurn

-----------------------------------------------------------------------------
(* What comments in the code say and the code does not do. *)

\* Scheduler::tick, "applied NOTHING and is dropped".
DroppedAppliedNothing ==
  [][\A i \in DOMAIN batch :
       [seq |-> batch[i].seq, what |-> "refused"] \in settled' =>
         UNCHANGED <<applied, host>>]_vars

=============================================================================
