---------------------------- MODULE Supervision -----------------------------
(***************************************************************************)
(* The executors behind the bridge (crates/agent): the dry run, and the    *)
(* real one, which runs a payload under the shell, drains its output on    *)
(* two threads and polls until it has ended or its time is up.             *)
(*                                                                         *)
(* A payload is [out, helper, ends, code]: how many pieces it prints, a    *)
(* process it leaves behind ("none", "group": in the shell's group, or     *)
(* "session": it has left the group), whether it ends by itself, and its   *)
(* exit status.  The two pipes are drained alike, and are one here.        *)
(***************************************************************************)
EXTENDS Naturals, Sequences

CONSTANTS
  HostId,        \* the asset this agent is, or NoHost
  NoHost,
  AllowedMethods,
  Calls,         \* the bridge's calls: [op, method, payload, rollback, target]
  NoPayload,     \* an action without a rollback payload
  ExecTimeout,   \* in polls
  MaxOutput,     \* pieces of output that are kept
  PipeSize,
  MaxCalls       \* bound: calls made

ASSUME SupBounds ==
  ExecTimeout \in Nat /\ MaxOutput \in Nat /\ PipeSize \in Nat /\ MaxCalls \in Nat

VARIABLES
  enabled,  \* the configuration's apply.enabled
  sup,      \* the call under way: [pc, call, deadline, kept], or its absence
  shell,    \* "none", "running", "exited" or "reaped"
  helper,   \* "none", "group", "session" or "gone"
  printed,  \* pieces the payload has printed
  pipe,     \* pieces in the pipe
  waited,   \* the clock, in polls of the call under way
  results,  \* sequence of [call, ok, ran, why] as the calls return; a timeout is told
            \*   from one whose group was left alone, which the caller cannot do
  recorded  \* the targets the dry run has recorded

supVars == <<enabled, sup, shell, helper, printed, pipe, waited, results, recorded>>

Resting == [pc |-> "idle"]
Payload == IF sup.call.op = "apply" THEN sup.call.payload ELSE sup.call.rollback

Returned(call, ok, ran, why) ==
  results' = Append(results, [call |-> call, ok |-> ok, ran |-> ran, why |-> why])

-----------------------------------------------------------------------------
(* The calls. *)

\* permitted and host_targeted: the shell only, if it is allowed, and this host only.
Permitted(c) ==
  /\ c.method = "Shell" /\ c.method \in AllowedMethods
  /\ HostId # NoHost /\ c.target = HostId

CanCall == sup = Resting /\ shell = "none" /\ Len(results) < MaxCalls

\* DryRunExecutor: apply records its target, rollback does nothing.
RunDry(c) ==
  /\ CanCall /\ ~enabled
  /\ recorded' = IF c.op = "apply" THEN recorded \cup {c.target} ELSE recorded
  /\ Returned(c, TRUE, FALSE, "dry-run")
  /\ UNCHANGED <<sup, shell, helper, printed, pipe, waited>>

RefuseCall(c) ==
  /\ CanCall /\ enabled /\ ~Permitted(c)
  /\ Returned(c, FALSE, FALSE, "not permitted")
  /\ UNCHANGED <<sup, shell, helper, printed, pipe, waited, recorded>>

NothingToRollBack(c) ==
  /\ CanCall /\ enabled /\ Permitted(c) /\ c.op = "rollback" /\ c.rollback = NoPayload
  /\ Returned(c, TRUE, FALSE, "nothing")
  /\ UNCHANGED <<sup, shell, helper, printed, pipe, waited, recorded>>

RunsShell(c) == enabled /\ Permitted(c) /\ (c.op = "rollback" => c.rollback # NoPayload)

\* The shell leads a process group of its own.
Spawn(c) ==
  /\ CanCall /\ RunsShell(c)
  /\ sup' = [pc |-> "wait", call |-> c, deadline |-> waited + ExecTimeout, kept |-> 0]
  /\ shell' = "running" /\ helper' = "none" /\ printed' = 0 /\ pipe' = 0
  /\ UNCHANGED <<waited, results, recorded>>

SpawnFails(c) ==
  /\ CanCall /\ RunsShell(c)
  /\ Returned(c, FALSE, FALSE, "spawn failed")
  /\ UNCHANGED <<sup, shell, helper, printed, pipe, waited, recorded>>

-----------------------------------------------------------------------------
(* The payload, and the threads that drain it. *)

ShellPrints ==
  /\ shell = "running" /\ pipe < PipeSize /\ printed < Payload.out
  /\ pipe' = pipe + 1 /\ printed' = printed + 1
  /\ UNCHANGED <<sup, shell, helper, waited, results, recorded>>

ShellForks ==
  /\ shell = "running" /\ helper = "none" /\ Payload.helper # "none"
  /\ helper' = Payload.helper
  /\ UNCHANGED <<sup, shell, printed, pipe, waited, results, recorded>>

ShellExits ==
  /\ shell = "running" /\ Payload.ends /\ printed = Payload.out
  /\ Payload.helper # "none" => helper # "none"
  /\ shell' = "exited"
  /\ UNCHANGED <<sup, helper, printed, pipe, waited, results, recorded>>

HelperEnds ==
  /\ helper \in {"group", "session"} /\ helper' = "gone"
  /\ UNCHANGED <<sup, shell, printed, pipe, waited, results, recorded>>

\* The threads keep at most the cap and one, then read on to nowhere.
Drain ==
  /\ pipe > 0 /\ pipe' = pipe - 1
  /\ sup' = IF sup # Resting /\ sup.kept <= MaxOutput THEN [sup EXCEPT !.kept = @ + 1] ELSE sup
  /\ UNCHANGED <<shell, helper, printed, waited, results, recorded>>

-----------------------------------------------------------------------------
(* The poll loop of run_bounded. *)

\* Mutant: the drain threads are joined.
TryWaitJoins ==
  /\ sup.pc = "wait" /\ shell = "exited" /\ helper \notin {"group", "session"}
  /\ Returned(sup.call, Payload.code = 0, TRUE, "exit")
  /\ shell' = "reaped" /\ sup' = Resting
  /\ UNCHANGED <<helper, printed, pipe, waited, recorded>>

\* try_wait has the status: the verdict is the exit status, whatever is left behind.
TryWait ==
  /\ sup.pc = "wait" /\ shell = "exited"
  /\ Returned(sup.call, Payload.code = 0, TRUE, "exit")
  /\ shell' = "reaped" /\ sup' = Resting
  /\ UNCHANGED <<helper, printed, pipe, waited, recorded>>

StillRunning ==
  /\ sup.pc = "wait" /\ shell = "running" /\ sup' = [sup EXCEPT !.pc = "clock"]
  /\ UNCHANGED <<shell, helper, printed, pipe, waited, results, recorded>>

GiveUp ==
  /\ sup' = [sup EXCEPT !.pc = "kill"]
  /\ UNCHANGED <<shell, helper, printed, pipe, waited, results, recorded>>

\* The shell may have ended since it was asked: it is killed and reported alike.
TimedOut == sup.pc = "clock" /\ waited >= sup.deadline /\ GiveUp

TryWaitFails == sup.pc = "wait" /\ GiveUp

\* Mutant: the kill is sent to the shell, and not to its group.
ShellKilled ==
  shell' = "exited" /\ sup' = [sup EXCEPT !.pc = "killed"] /\ UNCHANGED helper

GroupKilled ==
  /\ shell' = "exited" /\ sup' = [sup EXCEPT !.pc = "killed"]
  /\ helper' = IF helper = "group" THEN "gone" ELSE helper

\* kill_tree runs the kill command on the group, and does not look at its result:
\* it may be missing or fail.
KillGroup ==
  /\ sup.pc = "kill"
  /\ \/ GroupKilled
     \/ sup' = [sup EXCEPT !.pc = "missed"] /\ UNCHANGED <<shell, helper>>
  /\ UNCHANGED <<printed, pipe, waited, results, recorded>>

\* Then it kills and reaps the shell itself, in any case.  The report is "timed out"
\* either way; here the one after a kill that did not work is told apart.
KillChild ==
  /\ sup.pc \in {"killed", "missed"}
  /\ Returned(sup.call, FALSE, TRUE, IF sup.pc = "killed" THEN "timed out" ELSE "group left")
  /\ shell' = "reaped" /\ sup' = Resting
  /\ UNCHANGED <<helper, printed, pipe, waited, recorded>>

\* Sleep for 50 ms, which takes the clock on.
SleepPoll ==
  /\ sup.pc = "clock" /\ waited < sup.deadline
  /\ waited' = waited + 1 /\ sup' = [sup EXCEPT !.pc = "wait"]
  /\ UNCHANGED <<shell, helper, printed, pipe, results, recorded>>

\* The call has returned; what its payload left behind goes on by itself.
NextCall ==
  /\ shell = "reaped" /\ shell' = "none" /\ helper' = "none" /\ pipe' = 0 /\ printed' = 0
  /\ waited' = 0
  /\ UNCHANGED <<sup, results, recorded>>

SupInit ==
  /\ enabled \in BOOLEAN
  /\ sup = Resting /\ shell = "none" /\ helper = "none" /\ printed = 0 /\ pipe = 0 /\ waited = 0
  /\ results = <<>> /\ recorded = {}

Supervise == TryWait \/ StillRunning \/ TimedOut \/ SleepPoll \/ KillGroup \/ KillChild

\* select_executor has chosen the executor when the connection was accepted.
SupNext ==
  /\ UNCHANGED enabled
  /\ \/ \E c \in Calls : RunDry(c) \/ RefuseCall(c) \/ NothingToRollBack(c) \/ Spawn(c) \/ SpawnFails(c)
     \/ ShellPrints \/ ShellForks \/ ShellExits \/ HelperEnds \/ Drain
     \/ Supervise \/ TryWaitFails \/ NextCall

SupSpec == SupInit /\ [][SupNext]_supVars

\* The payload may do nothing for ever; the agent's own threads go on.
SupFairness ==
  WF_supVars(Supervise /\ UNCHANGED enabled) /\ WF_supVars(Drain /\ UNCHANGED enabled)

-----------------------------------------------------------------------------
(* Properties. *)

\* Whatever the sequence of calls, a shell is only ever started for an action on
\* this host by the allowed method, with real execution turned on.
OnlyThisHost ==
  /\ shell # "none" /\ sup # Resting =>
       enabled /\ sup.call.target = HostId /\ sup.call.method = "Shell"
  /\ \A i \in DOMAIN results : results[i].ran => enabled /\ Permitted(results[i].call)

\* When a payload is reported to have timed out, nothing in its process group
\* goes on changing the host, whatever it forked as its time ran out, unless the
\* kill command itself did not work.
TimeoutStopsGroup ==
  shell = "reaped" /\ results[Len(results)].why = "timed out" => helper # "group"

\* However much a payload prints, what is kept of it is what was read, up to the
\* cap and one more, which is how the cut is noticed.
OutputDrained ==
  /\ pipe <= PipeSize /\ pipe <= printed
  /\ sup # Resting =>
       sup.kept = IF printed - pipe <= MaxOutput THEN printed - pipe ELSE MaxOutput + 1

\* Every call returns, whatever the payload does or leaves behind.
CallReturns == (sup # Resting) ~> (sup = Resting)

\* However a payload behaves, it stays on this host, its output is bounded, and
\* a timeout ends it with its group wherever the kill command works.
Contained == OnlyThisHost /\ TimeoutStopsGroup /\ OutputDrained
=============================================================================
