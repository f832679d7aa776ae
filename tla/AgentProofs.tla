----------------------------- MODULE AgentProofs ----------------------------
(***************************************************************************)
(* Theorems about the agent process: the supervision of a payload, for     *)
(* every payload, timeout and size of the pipe and of the cap on output,   *)
(* and the life of the process, for every configuration, set of modules    *)
(* and cost of a refresh.                                                  *)
(***************************************************************************)
EXTENDS Agent, Supervision, SequenceFacts

(***************************************************************************)
(* Supervision.                                                            *)
(***************************************************************************)

Watching == sup # Resting

Phases == {"wait", "clock", "kill", "killed", "missed"}

\* The call under way, while there is one.
SupTyped ==
  /\ enabled \in BOOLEAN
  /\ \/ sup = Resting
     \/ /\ sup \in [pc : Phases, call : Calls, deadline : Nat, kept : Nat]
        /\ enabled /\ Permitted(sup.call)
  /\ shell \in {"none", "running", "exited", "reaped"}
  /\ printed \in Nat /\ pipe \in Nat /\ waited \in Nat
  /\ \E S : results \in Seq(S)

\* A call is watched exactly while its shell has not been reaped.
Reaping == Watching <=> shell \in {"running", "exited"}

\* Once the group has been killed nothing of it is left, and the shell forks no more.
Struck == sup.pc = "killed" => shell = "exited" /\ helper # "group"

SupInv == SupTyped /\ Reaping /\ Struck /\ Contained

\* A watched call is told from none by its phase.
LEMMA WatchingPhase ==
  ASSUME SupTyped
  PROVE  /\ Watching <=> sup.pc \in Phases
         /\ Watching => /\ sup \in [pc : Phases, call : Calls, deadline : Nat,
                                    kept : Nat]
                        /\ enabled /\ Permitted(sup.call)
  BY DEF SupTyped, Watching, Resting, Phases

\* What a call that returns adds to the results.
LEMMA ReturnedFacts ==
  ASSUME SupTyped, NEW r, results' = Append(results, r)
  PROVE  /\ \E S : results' \in Seq(S)
         /\ DOMAIN results' = 1..(Len(results) + 1) /\ Len(results') = Len(results) + 1
         /\ DOMAIN results = 1..Len(results) /\ Len(results) \in Nat
         /\ \A i \in 1..Len(results) : results'[i] = results[i]
         /\ results'[Len(results) + 1] = r
<1>1. PICK S : results \in Seq(S)
  BY DEF SupTyped
<1>2. results \in Seq(S \cup {r}) /\ r \in S \cup {r}
  BY <1>1
<1> QED
  BY <1>2

\* A call that returns keeps the account of what ran.
LEMMA ReturnedHost ==
  ASSUME SupTyped, OnlyThisHost, NEW r, results' = Append(results, r),
         enabled' = enabled, r.ran => enabled /\ Permitted(r.call)
  PROVE  \A i \in DOMAIN results' : results'[i].ran => enabled' /\ Permitted(results'[i].call)
<1>1. /\ DOMAIN results' = 1..(Len(results) + 1) /\ DOMAIN results = 1..Len(results)
      /\ Len(results) \in Nat
      /\ \A i \in 1..Len(results) : results'[i] = results[i]
      /\ results'[Len(results) + 1] = r
  BY ReturnedFacts
<1>2. \A i \in 1..(Len(results) + 1) : i \in 1..Len(results) \/ i = Len(results) + 1
  BY <1>1
<1>3. \A i \in 1..Len(results) : results[i].ran => enabled /\ Permitted(results[i].call)
  BY <1>1 DEF OnlyThisHost
<1> QED
  BY <1>1, <1>2, <1>3

\* The first state satisfies the invariant.
LEMMA SupInitInv == SupInit => SupInv
<1> SUFFICES ASSUME SupInit PROVE SupInv
  OBVIOUS
<1>1. SupTyped /\ Reaping /\ Struck
  <2>1. results \in Seq({})
    BY DEF SupInit
  <2> QED
    BY <2>1 DEF SupInit, SupTyped, Reaping, Struck, Watching, Resting
<1>2. results = << >> /\ DOMAIN results = {}
  BY DEF SupInit
<1>3. Contained
  BY <1>2, SupBounds DEF SupInit, Contained, OnlyThisHost, TimeoutStopsGroup, OutputDrained
<1> QED
  BY <1>1, <1>3 DEF SupInv

\* A call that returns without a shell changes nothing but the results.
LEMMA QuickReturn ==
  ASSUME SupInv, NEW r, ~ r.ran, CanCall, results' = Append(results, r),
         enabled' = enabled,
         UNCHANGED <<sup, shell, helper, printed, pipe, waited>>
  PROVE  SupInv'
<1>0. SupTyped /\ Reaping /\ Struck /\ OnlyThisHost /\ TimeoutStopsGroup /\ OutputDrained
  BY DEF SupInv, Contained
<1>1. SupTyped' /\ Reaping' /\ Struck'
  BY <1>0, ReturnedFacts DEF SupTyped, Reaping, Struck, Watching, Permitted
<1>2. OnlyThisHost'
  <2>1. \A i \in DOMAIN results' : results'[i].ran => enabled' /\ Permitted(results'[i].call)
    BY <1>0, ReturnedHost
  <2> QED
    BY <1>0, <2>1 DEF OnlyThisHost
<1>3. TimeoutStopsGroup' /\ OutputDrained'
  BY <1>0 DEF CanCall, TimeoutStopsGroup, OutputDrained
<1> QED
  BY <1>1, <1>2, <1>3 DEF SupInv, Contained

\* A step of the payload or of its helper, which the agent does not see.
LEMMA PayloadStep ==
  ASSUME SupInv, ShellPrints \/ ShellForks \/ ShellExits \/ HelperEnds, enabled' = enabled
  PROVE  SupInv'
<1>0. SupTyped /\ Reaping /\ Struck /\ OnlyThisHost /\ TimeoutStopsGroup /\ OutputDrained
  BY DEF SupInv, Contained
<1>1. /\ sup' = sup /\ results' = results /\ waited' = waited
      /\ \/ shell' = shell
         \/ shell = "running" /\ shell' = "exited"
      /\ \/ printed' = printed /\ pipe' = pipe
         \/ printed' = printed + 1 /\ pipe' = pipe + 1 /\ pipe < PipeSize
      /\ \/ helper' = helper
         \/ shell = "running" /\ shell' = "running"
         \/ helper' = "gone"
  BY DEF ShellPrints, ShellForks, ShellExits, HelperEnds
<1>2. SupTyped' /\ Reaping' /\ Struck'
  BY <1>0, <1>1 DEF SupTyped, Reaping, Struck, Watching, Permitted
<1>3. OnlyThisHost'
  BY <1>0, <1>1 DEF OnlyThisHost, Permitted, Reaping, Watching
<1>4. TimeoutStopsGroup'
  BY <1>0, <1>1 DEF TimeoutStopsGroup
<1>5. OutputDrained'
  BY <1>0, <1>1, SupBounds DEF OutputDrained, SupTyped
<1> QED
  BY <1>2, <1>3, <1>4, <1>5 DEF SupInv, Contained

\* A watched call ends: its shell is reaped and its result is written.
LEMMA CallEnds ==
  ASSUME SupInv, Watching, NEW r, r.call = sup.call,
         results' = Append(results, r), shell' = "reaped", sup' = Resting,
         enabled' = enabled, UNCHANGED <<printed, pipe, waited>>,
         r.why = "timed out" => helper' # "group"
  PROVE  SupInv'
<1>0. SupTyped /\ Reaping /\ Struck /\ OnlyThisHost /\ TimeoutStopsGroup /\ OutputDrained
  BY DEF SupInv, Contained
<1>1. sup.call \in Calls /\ enabled /\ Permitted(sup.call)
  BY <1>0, WatchingPhase
<1>2. SupTyped' /\ Reaping' /\ Struck'
  BY <1>0, <1>1, ReturnedFacts DEF SupTyped, Reaping, Struck, Watching, Resting
<1>3. OnlyThisHost'
  <2>1. \A i \in DOMAIN results' : results'[i].ran => enabled' /\ Permitted(results'[i].call)
    BY <1>0, <1>1, ReturnedHost
  <2> QED
    BY <2>1 DEF OnlyThisHost
<1>4. TimeoutStopsGroup'
  <2>1. results'[Len(results')] = r
    BY <1>0, ReturnedFacts
  <2> QED
    BY <2>1 DEF TimeoutStopsGroup
<1>5. OutputDrained'
  BY <1>0 DEF OutputDrained
<1> QED
  BY <1>2, <1>3, <1>4, <1>5 DEF SupInv, Contained

\* The drain threads read a piece.
LEMMA DrainStep ==
  ASSUME SupInv, Drain, enabled' = enabled
  PROVE  SupInv'
<1>0. SupTyped /\ Reaping /\ Struck /\ OnlyThisHost /\ TimeoutStopsGroup /\ OutputDrained
  BY DEF SupInv, Contained
<1>1. /\ pipe > 0 /\ pipe' = pipe - 1
      /\ UNCHANGED <<shell, helper, printed, waited, results>>
      /\ sup' = IF sup # Resting /\ sup.kept <= MaxOutput
                THEN [sup EXCEPT !.kept = @ + 1] ELSE sup
  BY DEF Drain
<1>2. CASE ~ Watching
  <2>1. sup' = sup
    BY <1>1, <1>2 DEF Watching
  <2>2. pipe' \in Nat /\ pipe' <= pipe
    BY <1>0, <1>1 DEF SupTyped
  <2>3. SupTyped' /\ Reaping' /\ Struck'
    BY <1>0, <1>1, <2>1, <2>2 DEF SupTyped, Reaping, Struck, Watching, Permitted
  <2>4. OnlyThisHost' /\ TimeoutStopsGroup'
    BY <1>0, <1>1, <2>1 DEF OnlyThisHost, TimeoutStopsGroup, Permitted
  <2>5. OutputDrained'
    BY <1>0, <1>1, <1>2, <2>1, <2>2, SupBounds DEF OutputDrained, Watching, SupTyped
  <2> QED
    BY <2>3, <2>4, <2>5 DEF SupInv, Contained
<1>3. CASE Watching
  <2>0. /\ sup \in [pc : Phases, call : Calls, deadline : Nat, kept : Nat]
        /\ enabled /\ Permitted(sup.call)
    BY <1>0, <1>3, WatchingPhase
  <2>1. /\ sup' \in [pc : Phases, call : Calls, deadline : Nat, kept : Nat]
        /\ sup'.call = sup.call /\ sup'.pc = sup.pc
        /\ sup'.kept = IF sup.kept <= MaxOutput THEN sup.kept + 1 ELSE sup.kept
    BY <1>1, <1>3, <2>0 DEF Watching
  <2>2. sup' # Resting
    BY <2>1 DEF Resting
  <2>3. SupTyped'
    BY <1>0, <1>1, <2>0, <2>1 DEF SupTyped, Permitted
  <2>4. Reaping' /\ Struck'
    BY <1>0, <1>1, <1>3, <2>1, <2>2 DEF Reaping, Struck, Watching
  <2>5. OnlyThisHost' /\ TimeoutStopsGroup'
    BY <1>0, <1>1, <2>0, <2>1 DEF OnlyThisHost, TimeoutStopsGroup, Permitted
  <2>6. OutputDrained'
    <3>1. /\ sup.kept = IF printed - pipe <= MaxOutput THEN printed - pipe ELSE MaxOutput + 1
          /\ pipe <= PipeSize /\ pipe <= printed
      BY <1>0, <1>3 DEF OutputDrained, Watching
    <3>2. pipe \in Nat /\ printed \in Nat
      BY <1>0 DEF SupTyped
    <3>3. sup'.kept = IF printed - pipe' <= MaxOutput THEN printed - pipe' ELSE MaxOutput + 1
      BY <1>1, <2>1, <3>1, <3>2, SupBounds
    <3>4. pipe' <= PipeSize /\ pipe' <= printed'
      BY <1>1, <3>1, <3>2, SupBounds
    <3> QED
      BY <1>1, <3>3, <3>4 DEF OutputDrained
  <2> QED
    BY <2>3, <2>4, <2>5, <2>6 DEF SupInv, Contained
<1> QED
  BY <1>2, <1>3

\* A new shell.
LEMMA SpawnStep ==
  ASSUME SupInv, NEW c \in Calls, Spawn(c), enabled' = enabled
  PROVE  SupInv'
<1>0. SupTyped /\ Reaping /\ Struck /\ OnlyThisHost /\ TimeoutStopsGroup /\ OutputDrained
  BY DEF SupInv, Contained
<1>1. /\ sup' = [pc |-> "wait", call |-> c, deadline |-> waited + ExecTimeout, kept |-> 0]
      /\ shell' = "running" /\ printed' = 0 /\ pipe' = 0
      /\ waited' = waited /\ results' = results /\ enabled /\ Permitted(c)
  BY DEF Spawn, RunsShell
<1>2. /\ sup' \in [pc : Phases, call : Calls, deadline : Nat, kept : Nat]
      /\ sup'.call = c /\ sup'.kept = 0 /\ sup' # Resting /\ sup'.pc = "wait"
  BY <1>0, <1>1, SupBounds DEF SupTyped, Resting, Phases
<1>3. SupTyped' /\ Reaping' /\ Struck'
  BY <1>0, <1>1, <1>2 DEF SupTyped, Reaping, Struck, Watching, Permitted
<1>4. OnlyThisHost' /\ TimeoutStopsGroup'
  BY <1>0, <1>1, <1>2 DEF OnlyThisHost, TimeoutStopsGroup, Permitted
<1>5. OutputDrained'
  BY <1>1, <1>2, SupBounds DEF OutputDrained
<1> QED
  BY <1>3, <1>4, <1>5 DEF SupInv, Contained

\* The poll loop goes round, or gives up.
LEMMA PollStep ==
  ASSUME SupInv, StillRunning \/ SleepPoll \/ TimedOut \/ TryWaitFails, enabled' = enabled
  PROVE  SupInv'
<1>0. SupTyped /\ Reaping /\ Struck /\ OnlyThisHost /\ TimeoutStopsGroup /\ OutputDrained
  BY DEF SupInv, Contained
<1>1. Watching
  BY <1>0, WatchingPhase DEF StillRunning, SleepPoll, TimedOut, TryWaitFails, Phases
<1>2. /\ sup \in [pc : Phases, call : Calls, deadline : Nat, kept : Nat]
      /\ enabled /\ Permitted(sup.call)
  BY <1>0, <1>1, WatchingPhase
<1>3. \E pc \in {"wait", "clock", "kill"} :
        /\ sup' = [sup EXCEPT !.pc = pc]
        /\ UNCHANGED <<shell, helper, printed, pipe, results>>
        /\ waited' \in {waited, waited + 1}
  BY DEF StillRunning, SleepPoll, TimedOut, TryWaitFails, GiveUp
<1>4. /\ sup' \in [pc : Phases, call : Calls, deadline : Nat, kept : Nat]
      /\ sup'.call = sup.call /\ sup'.kept = sup.kept /\ sup' # Resting /\ sup'.pc # "killed"
  BY <1>2, <1>3 DEF Resting, Phases
<1>5. SupTyped'
  BY <1>0, <1>2, <1>3, <1>4 DEF SupTyped, Permitted
<1>6. Reaping' /\ Struck'
  BY <1>0, <1>1, <1>3, <1>4 DEF Reaping, Struck, Watching
<1>7. OnlyThisHost' /\ TimeoutStopsGroup'
  BY <1>0, <1>2, <1>3, <1>4, ZenonT(30) DEF OnlyThisHost, TimeoutStopsGroup, Permitted
<1>8. OutputDrained'
  BY <1>0, <1>1, <1>3, <1>4 DEF OutputDrained, Watching
<1> QED
  BY <1>5, <1>6, <1>7, <1>8 DEF SupInv, Contained

\* The kill command reaches the group, or does not.
LEMMA KillGroupStep ==
  ASSUME SupInv, KillGroup, enabled' = enabled
  PROVE  SupInv'
<1>0. SupTyped /\ Reaping /\ Struck /\ OnlyThisHost /\ TimeoutStopsGroup /\ OutputDrained
  BY DEF SupInv, Contained
<1>1. Watching /\ sup.pc = "kill"
  BY <1>0, WatchingPhase DEF KillGroup, Phases
<1>2. /\ sup \in [pc : Phases, call : Calls, deadline : Nat, kept : Nat]
      /\ enabled /\ Permitted(sup.call)
  BY <1>0, <1>1, WatchingPhase
<1>3. /\ UNCHANGED <<printed, pipe, waited, results>>
      /\ \/ /\ sup' = [sup EXCEPT !.pc = "killed"] /\ shell' = "exited"
            /\ helper' # "group"
         \/ /\ sup' = [sup EXCEPT !.pc = "missed"] /\ shell' = shell
  BY DEF KillGroup, GroupKilled
<1>4. /\ sup' \in [pc : Phases, call : Calls, deadline : Nat, kept : Nat]
      /\ sup'.call = sup.call /\ sup'.kept = sup.kept /\ sup' # Resting
      /\ sup'.pc = "killed" => shell' = "exited" /\ helper' # "group"
  BY <1>2, <1>3 DEF Resting, Phases
<1>5. shell \in {"running", "exited"} /\ shell' \in {"running", "exited"}
  BY <1>0, <1>1, <1>3 DEF Reaping
<1>6. SupTyped'
  BY <1>0, <1>2, <1>3, <1>4, <1>5 DEF SupTyped, Permitted
<1>7. Reaping' /\ Struck'
  BY <1>4, <1>5 DEF Reaping, Struck, Watching
<1>8. OnlyThisHost'
  BY <1>0, <1>2, <1>3, <1>4 DEF OnlyThisHost, Permitted
<1>9. TimeoutStopsGroup'
  BY <1>5 DEF TimeoutStopsGroup
<1>10. OutputDrained'
  BY <1>0, <1>1, <1>3, <1>4 DEF OutputDrained, Watching
<1> QED
  BY <1>6, <1>7, <1>8, <1>9, <1>10 DEF SupInv, Contained

\* The agent forgets what its last call has left behind.
LEMMA NextCallStep ==
  ASSUME SupInv, NextCall, enabled' = enabled
  PROVE  SupInv'
<1>0. SupTyped /\ Reaping /\ Struck /\ OnlyThisHost /\ TimeoutStopsGroup /\ OutputDrained
  BY DEF SupInv, Contained
<1>1. /\ shell = "reaped" /\ shell' = "none" /\ pipe' = 0 /\ printed' = 0 /\ waited' = 0
      /\ sup' = sup /\ results' = results
  BY DEF NextCall
<1>2. sup = Resting
  BY <1>0, <1>1 DEF Reaping, Watching
<1>3. SupTyped' /\ Reaping' /\ Struck'
  BY <1>0, <1>1, <1>2 DEF SupTyped, Reaping, Struck, Watching, Resting
<1>4. OnlyThisHost' /\ TimeoutStopsGroup'
  BY <1>0, <1>1, <1>2 DEF OnlyThisHost, TimeoutStopsGroup, Permitted
<1>5. OutputDrained'
  BY <1>1, <1>2, SupBounds DEF OutputDrained
<1> QED
  BY <1>3, <1>4, <1>5 DEF SupInv, Contained

\* Every step of the supervision keeps the invariant.
LEMMA SupInvStep == SupInv /\ [SupNext]_supVars => SupInv'
<1> SUFFICES ASSUME SupInv, [SupNext]_supVars PROVE SupInv'
  OBVIOUS
<1>0. SupTyped /\ Reaping /\ Struck
  BY DEF SupInv
<1>1. CASE UNCHANGED supVars
  BY <1>1 DEF supVars, SupInv, SupTyped, Reaping, Struck, Watching, Contained, OnlyThisHost,
              TimeoutStopsGroup, OutputDrained, Permitted
<1>2. ASSUME NEW c \in Calls, enabled' = enabled,
             \/ RunDry(c) \/ RefuseCall(c) \/ NothingToRollBack(c) \/ SpawnFails(c)
      PROVE  SupInv'
  <2>1. \E r : ~ r.ran /\ results' = Append(results, r)
    BY <1>2 DEF RunDry, RefuseCall, NothingToRollBack, SpawnFails, Returned
  <2>2. CanCall /\ UNCHANGED <<sup, shell, helper, printed, pipe, waited>>
    BY <1>2 DEF RunDry, RefuseCall, NothingToRollBack, SpawnFails
  <2> QED
    BY <1>2, <2>1, <2>2, QuickReturn
<1>3. ASSUME enabled' = enabled, TryWait PROVE SupInv'
  <2>1. Watching
    BY <1>0, <1>3, WatchingPhase DEF TryWait, Phases
  <2>2. sup.call \in Calls
    BY <1>0, <2>1, WatchingPhase
  <2>3. \E r : /\ r.call = sup.call /\ r.why = "exit"
               /\ results' = Append(results, r)
    BY <1>3 DEF TryWait, Returned
  <2> QED
    BY <1>3, <2>1, <2>3, CallEnds DEF TryWait
<1>4. ASSUME enabled' = enabled, KillChild PROVE SupInv'
  <2>1. Watching
    BY <1>0, <1>4, WatchingPhase DEF KillChild, Phases
  <2>2. \E r : /\ r.call = sup.call /\ results' = Append(results, r)
               /\ r.why = "timed out" => sup.pc = "killed"
    <3> DEFINE why == IF sup.pc = "killed" THEN "timed out" ELSE "group left"
               r == [call |-> sup.call, ok |-> FALSE, ran |-> TRUE, why |-> why]
    <3>1. results' = Append(results, r)
      BY <1>4 DEF KillChild, Returned
    <3>2. why = "timed out" => sup.pc = "killed"
      OBVIOUS
    <3>3. r.call = sup.call /\ r.why = why
      OBVIOUS
    <3> QED
      BY <3>1, <3>2, <3>3
  <2>3. sup.pc = "killed" => helper' # "group"
    BY <1>0, <1>4 DEF KillChild, Struck
  <2> QED
    BY <1>4, <2>1, <2>2, <2>3, CallEnds DEF KillChild
<1> QED
  BY <1>1, <1>2, <1>3, <1>4, SpawnStep, PayloadStep, DrainStep, PollStep, KillGroupStep,
     NextCallStep DEF SupNext, Supervise

\* However a payload behaves and whatever calls come, it runs on this host only and
\* by the allowed method, its output is read to the last piece and kept up to the
\* cap, and a timeout ends it with its group wherever the kill command works.
THEOREM AlwaysContained == SupSpec => []Contained
<1>1. SupInv => Contained
  BY DEF SupInv
<1> QED
  BY SupInitInv, SupInvStep, <1>1, PTL DEF SupSpec
-----------------------------------------------------------------------------
(***************************************************************************)
(* The process.                                                            *)
(***************************************************************************)

\* The phases in which nothing has been started yet, and those after the sink is
\* open and the modules are stopped.
Early == {"load", "control", "substrate", "output", "warmup", "init"}
Late == {"serving", "closing", "done"}

\* The modules registered between two positions.
Registered(i, j) == {modules[k] : k \in i..j}

\* The values of the variables, and the refresh that is running.
Shaped ==
  /\ TypeOK
  /\ launch \in Launches /\ modules \in Seq(Module)
  /\ interval \in [Module -> (Nat \ {0}) \cup {None}]
  /\ due \in [Gated -> Int \cup {None}]
  /\ \E S : last \in [Module -> S]
  /\ busy # Idle =>
       /\ busy = [module |-> busy.module, left |-> busy.left, data |-> busy.data]
       /\ busy.module \in Scheduled
       /\ busy.left \in Nat /\ busy.left <= Cost[busy.module]

\* Which modules run in each phase; only the daemon refreshes, and only modules that
\* run and have an interval.
Staged ==
  /\ phase \in Early => started = {}
  /\ phase = "start" => started = Registered(1, at - 1)
  /\ phase \in {"daemon", "cycle"} => started = Registered(1, Len(modules))
  /\ phase = "stop" => started \subseteq Registered(at, Len(modules))
  /\ phase \in Late => started = {}
  /\ phase # "daemon" => busy = Idle /\ \A m \in Gated : due[m] = None
  /\ \A m \in Scheduled : m \in started /\ interval[m] # None

Bedrock == Shaped /\ Staged

\* What has been decided by each phase.
Cleared ==
  /\ FailClosed
  /\ phase \notin {"load", "failed"} => launch.config # Broken
  /\ phase \notin {"load", "control", "failed", "done"} => (EffectiveControl => control = "up")
  /\ phase \notin {"load", "control", "substrate", "output", "failed"} =>
       ResolveOutput # "fatal"
  /\ control = "down" => phase = "done"
  /\ phase = "done" => control # "up"

\* The usage is a reading of two samples from the end of the warm-up on, and so is
\* that of a heartbeat on its way.
Metered ==
  /\ phase \notin (Early \ {"init"}) \cup {"failed"} => usage \in Samples
  /\ HeartbeatMetered
  /\ busy # Idle /\ busy.module = "health" => busy.data.usage \in Samples

\* A config that loads gives a module an interval of at least one, or none.
LEMMA OverrideFacts ==
  ASSUME launch \in Launches, NEW m \in Module
  PROVE  Override(m) \in (Nat \ {0}) \cup {None}
<1>1. DefaultInterval \in [Gated -> Nat \ {0}]
  BY Shapes
<1>2. \A n \in DOMAIN Config.refresh : Config.refresh[n] \in Nat
  <2>1. CASE launch.config \in {None, Broken}
    BY <2>1 DEF Config, NoConfig
  <2>2. CASE launch.config \notin {None, Broken}
    BY <2>2, Shapes DEF Config
  <2> QED
    BY <2>1, <2>2
<1>3. CASE m \notin Gated
  <2>1. Override(m) = None
    BY <1>3 DEF Override
  <2> QED
    BY <2>1
<1>4. CASE m \in Gated /\ m \notin DOMAIN Config.refresh
  <2>1. Override(m) = DefaultInterval[m]
    BY <1>4 DEF Override
  <2> QED
    BY <1>1, <1>4, <2>1
<1>5. CASE m \in Gated /\ m \in DOMAIN Config.refresh
  <2>1. Override(m) = IF Config.refresh[m] > 0 THEN Config.refresh[m] ELSE None
    BY <1>5 DEF Override
  <2> QED
    BY <1>2, <1>5, <2>1
<1> QED
  BY <1>3, <1>4, <1>5

\* There is a module to refresh next, the soonest due, whenever one is scheduled.
LEMMA SoonestFacts ==
  ASSUME modules \in Seq(Module), due \in [Gated -> Int \cup {None}],
         Scheduled # {}, Scheduled \subseteq Registered(1, Len(modules))
  PROVE  Soonest \in Scheduled /\ \A n \in Scheduled : due[Soonest] <= due[n]
<1> DEFINE N == Len(modules)
           Before(m, n) ==
             \/ due[m] < due[n]
             \/ due[m] = due[n] /\ \E i, j \in 1..N :
                                      i <= j /\ modules[i] = m /\ modules[j] = n
           Best(i, k) == /\ i \in 1..k /\ modules[i] \in Scheduled
                         /\ \A j \in 1..k : modules[j] \in Scheduled =>
                              Before(modules[i], modules[j])
           Good == {k \in 0..N : \/ \A j \in 1..k : modules[j] \notin Scheduled
                                 \/ \E i \in 1..k : Best(i, k)}
<1>0. N \in Nat
  OBVIOUS
<1>1. \A m \in Scheduled : m \in Gated /\ due[m] \in Int
  BY DEF Scheduled
<1>2. 0 \in Good
  BY <1>0
<1>3. ASSUME NEW k \in 0..N, k \in Good, k < N PROVE k + 1 \in Good
  <2> DEFINE m == modules[k + 1]
  <2>0. k + 1 \in 1..N /\ k + 1 \in 0..N /\ \A j \in 1..(k + 1) : j \in 1..k \/ j = k + 1
    BY <1>0, <1>3
  <2>1. CASE m \notin Scheduled
    <3>1. CASE \A j \in 1..k : modules[j] \notin Scheduled
      BY <2>0, <2>1, <3>1
    <3>2. CASE \E i \in 1..k : Best(i, k)
      <4>1. PICK i \in 1..k : Best(i, k)
        BY <3>2
      <4>2. i \in 1..(k + 1)
        BY <4>1, <2>0
      <4>3. Best(i, k + 1)
        BY <2>0, <2>1, <4>1, <4>2
      <4> QED
        BY <2>0, <4>2, <4>3
    <3> QED
      BY <1>3, <3>1, <3>2
  <2>2. CASE m \in Scheduled
    <3>0. Before(m, m)
      BY <2>0, <1>0
    <3>1. CASE \A j \in 1..k : modules[j] \notin Scheduled
      <4>1. Best(k + 1, k + 1)
        <5> HIDE DEF Before
        <5> QED
          BY <2>0, <2>2, <3>0, <3>1
      <4>2. k + 1 \in 1..(k + 1)
        BY <2>0
      <4> QED
        BY <2>0, <4>1, <4>2
    <3>2. CASE \E i \in 1..k : Best(i, k)
      <4>1. PICK i \in 1..k : Best(i, k)
        BY <3>2
      <4>2. modules[i] \in Scheduled /\ i \in 1..(k + 1) /\ i \in 1..N /\ i <= k + 1
        BY <4>1, <2>0, <1>0
      <4>3. CASE due[m] < due[modules[i]]
        <5>1. \A j \in 1..k : modules[j] \in Scheduled => due[m] < due[modules[j]]
          BY <1>1, <2>2, <4>1, <4>2, <4>3
        <5>2. Best(k + 1, k + 1)
          BY <2>0, <2>2, <3>0, <5>1
        <5>3. k + 1 \in 1..(k + 1)
          BY <2>0
        <5> QED
          BY <2>0, <5>2, <5>3
      <4>4. CASE ~(due[m] < due[modules[i]])
        <5>1. Before(modules[i], m)
          BY <1>1, <2>0, <2>2, <4>2, <4>4
        <5>2. Best(i, k + 1)
          <6> HIDE DEF Before
          <6> QED
            BY <2>0, <4>1, <4>2, <5>1
        <5> QED
          BY <2>0, <4>2, <5>2
      <4> QED
        BY <4>3, <4>4
    <3> QED
      BY <1>3, <3>1, <3>2
  <2> QED
    BY <2>1, <2>2
<1>4. N \in Good
  <2> HIDE DEF Good, N
  <2>1. \A i \in 0..N : i \in Good
    BY <1>0, <1>2, <1>3, UpTo
  <2> QED
    BY <1>0, <2>1
<1>5. \E j \in 1..N : modules[j] \in Scheduled
  BY DEF Registered
<1>6. PICK i \in 1..N : Best(i, N)
  BY <1>4, <1>5
<1>7. \A n \in Scheduled : Before(modules[i], n)
  <2> HIDE DEF Before
  <2> QED
    BY <1>6 DEF Registered
<1>8. Soonest \in Scheduled /\ \A n \in Scheduled : Before(Soonest, n)
  <2>1. Soonest = CHOOSE m \in Scheduled : \A n \in Scheduled : Before(m, n)
    BY DEF Soonest
  <2>2. modules[i] \in Scheduled
    BY <1>6
  <2> HIDE DEF Before
  <2> QED
    BY <1>7, <2>1, <2>2
<1> QED
  BY <1>1, <1>8
\* The variables that say how far the process is, and what it has registered.
LEMMA RegisteredFacts ==
  ASSUME modules \in Seq(Module), NEW i \in Nat \ {0}, i <= Len(modules)
  PROVE  /\ modules[i] \in Module /\ Len(modules) \in Nat
         /\ Registered(1, i) = Registered(1, i - 1) \cup {modules[i]}
         /\ Registered(i, Len(modules)) \ {modules[i]} \subseteq Registered(i + 1, Len(modules))
<1>0. Len(modules) \in Nat /\ i \in 1..Len(modules)
  OBVIOUS
<1>1. \A k \in 1..i : k \in 1..(i - 1) \/ k = i
  OBVIOUS
<1>2. i \in 1..i /\ \A k \in 1..(i - 1) : k \in 1..i
  OBVIOUS
<1>3. \A k \in i..Len(modules) : k = i \/ k \in (i + 1)..Len(modules)
  BY <1>0
<1> QED
  BY <1>0, <1>1, <1>2, <1>3 DEF Registered

\* The first state.
LEMMA AgentInit == Init => Bedrock /\ Cleared /\ Metered
<1> SUFFICES ASSUME Init PROVE Bedrock /\ Cleared /\ Metered
  OBVIOUS
<1>1. /\ modules = << >> /\ modules \in Seq(Module) /\ Len(modules) = 0
      /\ interval = [m \in Module |-> None] /\ due = [m \in Gated |-> None]
      /\ last = [m \in Module |-> Nothing] /\ busy = Idle
  BY DEF Init
<1>2. Gated \subseteq Module /\ "health" \in Module
  BY DEF Module, Gated
<1>3. Scheduled = {}
  BY <1>1 DEF Scheduled
<1>4. TypeOK
  BY <1>1, <1>2 DEF Init, TypeOK
<1>5. \E S : last \in [Module -> S]
  <2>1. last \in [Module -> {Nothing}]
    BY <1>1
  <2> QED
    BY <2>1
<1>6. Shaped
  BY <1>1, <1>2, <1>4, <1>5 DEF Init, Shaped
<1>7. Staged
  BY <1>1, <1>3 DEF Init, Staged, Late
<1>8. Cleared
  BY DEF Init, Cleared, FailClosed
<1>9. Metered
  BY <1>1, <1>2 DEF Init, Metered, HeartbeatMetered, Early
<1> QED
  BY <1>6, <1>7, <1>8, <1>9 DEF Bedrock

\* The gate keeps a payload for every module.
LEMMA EmitFacts ==
  ASSUME \E S : last \in [Module -> S], NEW m, NEW data, EmitIfChanged(m, data)
  PROVE  /\ \E S : last' \in [Module -> S]
         /\ \A n \in Module : last'[n] # last[n] => n = m /\ last'[n] = data
<1>1. PICK S : last \in [Module -> S]
  OBVIOUS
<1>2. last' = last \/ last' = [last EXCEPT ![m] = data]
  BY DEF EmitIfChanged
<1>3. last' \in [Module -> S \cup {data}]
  BY <1>1, <1>2
<1> QED
  BY <1>1, <1>2, <1>3

\* A step that moves the process on and leaves what it has registered and scheduled.
LEMMA BootBedrock ==
  ASSUME Bedrock, LoadConfig \/ StartControl \/ BuildSubstrate \/ OpenOutput \/ WarmUp \/ EnterCycle
                  \/ AfterStop \/ ServeUntilSignal \/ CloseControl
                  \/ Poll \/ \E t \in Table : Change(t)
  PROVE  Bedrock'
<1>1. /\ launch' = launch /\ modules' = modules /\ interval' = interval /\ at' = at
      /\ due' = due /\ busy' = busy /\ last' = last /\ started' = started
  BY DEF LoadConfig, StartControl, BuildSubstrate, OpenOutput, WarmUp, EnterCycle,
         AfterStop, ServeUntilSignal, CloseControl, Poll, Change, boot, sched, hostVars
<1>2. TypeOK'
  BY <1>1 DEF Bedrock, Shaped, TypeOK, LoadConfig, StartControl, BuildSubstrate, OpenOutput,
         WarmUp, EnterCycle, AfterStop, ServeUntilSignal, CloseControl, Poll, Change, boot,
         hostVars
<1>3. Shaped'
  BY <1>1, <1>2 DEF Bedrock, Shaped, Scheduled
<1>4. /\ phase = "daemon" <=> phase' = "daemon"
      /\ phase' = "failed" \/ phase' = phase \/ (phase \in Early /\ phase' \in Early)
         \/ (phase = "start" /\ at > Len(modules) /\ phase' = "cycle")
         \/ (phase = "stop" /\ at > Len(modules) /\ phase' \in Late)
         \/ (phase \in Late /\ phase' \in Late)
  BY DEF Early, Late, LoadConfig, StartControl, BuildSubstrate, OpenOutput,
         WarmUp, EnterCycle, AfterStop, ServeUntilSignal, CloseControl, Poll, Change
<1>5. at \in 1..(Len(modules) + 1) /\ Len(modules) \in Nat
  BY DEF Bedrock, Shaped, TypeOK
<1>6. at > Len(modules) => at - 1 = Len(modules) /\ Registered(at, Len(modules)) = {}
  BY <1>5 DEF Registered
<1>7. Staged'
  BY <1>1, <1>4, <1>6 DEF Bedrock, Staged, Scheduled, Registered, Early, Late
<1> QED
  BY <1>3, <1>7 DEF Bedrock

\* The modules are registered and given their intervals.
LEMMA InitAllBedrock ==
  ASSUME Bedrock, InitAll PROVE Bedrock'
<1>1. /\ phase = "init" /\ phase' = "start" /\ at' = 1 /\ modules' \in Registrations
      /\ interval' = [m \in Module |-> Override(m)]
      /\ UNCHANGED <<launch, provider, control, started, due, busy, last, usage, polls>>
  BY DEF InitAll, sched
<1>2. modules' \in Seq(Module) /\ Len(modules') \in Nat
  BY <1>1, Shapes
<1>3. interval' \in [Module -> (Nat \ {0}) \cup {None}]
  BY <1>1, OverrideFacts DEF Bedrock, Shaped
<1>4. Gated \subseteq Module
  BY DEF Module
<1>5. started = {} /\ busy = Idle /\ Scheduled = {} /\ Scheduled' = {}
  BY <1>1 DEF Bedrock, Staged, Early, Scheduled
<1>6. TypeOK'
  BY <1>1, <1>2, <1>3, <1>4 DEF Bedrock, Shaped, TypeOK
<1>7. Shaped'
  BY <1>1, <1>2, <1>3, <1>5, <1>6 DEF Bedrock, Shaped
<1>8. Registered(1, 0)' = {}
  BY DEF Registered
<1>9. Staged'
  BY <1>1, <1>5, <1>8 DEF Bedrock, Staged, Early, Late
<1> QED
  BY <1>7, <1>9 DEF Bedrock

\* A module is started, or its failure ends the process.
LEMMA StartBedrock ==
  ASSUME Bedrock, StartNext PROVE Bedrock'
<1> DEFINE m == modules[at]
           data == Collect(m)
<1>1. /\ phase = "start" /\ at <= Len(modules) /\ EmitIfChanged(m, data)
      /\ \/ phase' = "failed" /\ UNCHANGED <<at, started>>
         \/ phase' = phase /\ at' = at + 1 /\ started' = started \cup {m}
      /\ UNCHANGED <<launch, control, modules, interval, due, busy, usage, polls>>
  BY DEF StartNext, boot, sched
<1> HIDE DEF data
<1>2. modules \in Seq(Module) /\ Len(modules) \in Nat /\ at \in 1..(Len(modules) + 1)
  BY DEF Bedrock, Shaped, TypeOK
<1>3. m \in Module /\ Registered(1, at) = Registered(1, at - 1) \cup {m}
  BY <1>1, <1>2, RegisteredFacts
<1>4. \E S : last' \in [Module -> S]
  BY <1>1, EmitFacts DEF Bedrock, Shaped
<1>5. TypeOK'
  BY <1>1, <1>2, <1>3 DEF Bedrock, Shaped, TypeOK
<1>6. Shaped'
  BY <1>1, <1>4, <1>5 DEF Bedrock, Shaped, Scheduled
<1>7. busy = Idle /\ \A n \in Gated : due[n] = None
  BY <1>1 DEF Bedrock, Staged
<1>8. at' = at + 1 => {modules'[k] : k \in 1..(at' - 1)} = Registered(1, at)
  <2>1. at' = at + 1 => at' - 1 = at
    BY <1>2
  <2> QED
    BY <1>1, <2>1 DEF Registered
<1>9. Staged'
  <2>1. phase' = "start" => started' = {modules'[k] : k \in 1..(at' - 1)}
    BY <1>1, <1>3, <1>8 DEF Bedrock, Staged
  <2>2. \A n \in Gated : due'[n] = None
    BY <1>1, <1>7
  <2> QED
    BY <1>1, <1>7, <2>1, <2>2 DEF Staged, Scheduled, Early, Late, Registered
<1> QED
  BY <1>6, <1>9 DEF Bedrock
\* The daemon schedules the modules that run and have an interval.
LEMMA EnterDaemonBedrock ==
  ASSUME Bedrock, EnterDaemon PROVE Bedrock'
<1>1. /\ phase = "start" /\ at > Len(modules) /\ phase' = "daemon"
      /\ due' = [m \in Gated |-> IF m \in started THEN interval[m] ELSE None]
      /\ UNCHANGED <<launch, control, modules, interval, at, started, busy, last, usage, polls>>
  BY DEF EnterDaemon, boot
<1>2. /\ at - 1 = Len(modules) /\ busy = Idle /\ Gated \subseteq Module
      /\ interval \in [Module -> (Nat \ {0}) \cup {None}]
  BY <1>1 DEF Bedrock, Shaped, TypeOK, Staged, Module
<1>3. due' \in [Gated -> Int \cup {None}]
  BY <1>1, <1>2
<1>4. TypeOK'
  BY <1>1, <1>3 DEF Bedrock, Shaped, TypeOK
<1>5. Shaped'
  BY <1>1, <1>2, <1>3, <1>4 DEF Bedrock, Shaped
<1>6. \A m \in Gated : due'[m] # None => m \in started /\ interval[m] # None
  BY <1>1
<1>7. Staged'
  BY <1>1, <1>2, <1>6 DEF Bedrock, Staged, Scheduled, Early, Late, Registered
<1> QED
  BY <1>5, <1>7 DEF Bedrock

\* In the daemon there is a module to refresh next.
LEMMA DaemonSoonest ==
  ASSUME Bedrock, phase = "daemon", Scheduled # {}
  PROVE  Soonest \in Scheduled /\ \A n \in Scheduled : due[Soonest] <= due[n]
<1>1. Scheduled \subseteq Registered(1, Len(modules))
  BY DEF Bedrock, Staged
<1> QED
  BY <1>1, SoonestFacts DEF Bedrock, Shaped

\* A refresh begins.
LEMMA BeginBedrock ==
  ASSUME Bedrock, BeginRefresh PROVE Bedrock'
<1>1. /\ phase = "daemon" /\ busy = Idle /\ Scheduled # {}
      /\ UNCHANGED <<phase, launch, control, modules, interval, at, started, due, last, polls>>
  BY DEF BeginRefresh, boot
<1>2. Soonest \in Scheduled
  BY <1>1, DaemonSoonest
<1>3. PICK c \in 0..Cost[Soonest] :
        busy' = [module |-> Soonest, left |-> c, data |-> Collect(Soonest)]
  BY DEF BeginRefresh
<1>4. Soonest \in Gated /\ Cost[Soonest] \in Nat
  BY <1>2, Shapes DEF Scheduled
<1>5. /\ busy' = [module |-> busy'.module, left |-> busy'.left, data |-> busy'.data]
      /\ busy'.module = Soonest /\ busy'.left = c
  BY <1>3
<1>6. Scheduled' = Scheduled
  BY <1>1 DEF Scheduled
<1>7. TypeOK'
  BY <1>1 DEF Bedrock, Shaped, TypeOK
<1>8. Shaped'
  <2>1. c \in Nat /\ c <= Cost[Soonest]
    BY <1>4
  <2>2. /\ launch \in Launches /\ modules \in Seq(Module)
        /\ interval \in [Module -> (Nat \ {0}) \cup {None}]
        /\ due \in [Gated -> Int \cup {None}] /\ \E S : last \in [Module -> S]
    BY DEF Bedrock, Shaped
  <2> QED
    BY <1>1, <1>2, <1>5, <1>6, <1>7, <2>1, <2>2 DEF Shaped
<1>9. Staged'
  BY <1>1, <1>6 DEF Bedrock, Staged, Early, Late, Registered
<1> QED
  BY <1>8, <1>9 DEF Bedrock

\* A refresh ends, and its module is due again.
LEMMA FinishBedrock ==
  ASSUME Bedrock, FinishRefresh
  PROVE  /\ Bedrock' /\ Scheduled' = Scheduled /\ busy.module \in Scheduled /\ busy' = Idle
         /\ phase = "daemon"
         /\ due'[busy.module] = interval[busy.module] /\ interval[busy.module] \in Nat \ {0}
         /\ \A m \in Scheduled : m # busy.module => due'[m] = due[m]
<1>1. /\ busy # Idle /\ EmitIfChanged(busy.module, busy.data)
      /\ due' = [due EXCEPT ![busy.module] = interval[busy.module]] /\ busy' = Idle
      /\ UNCHANGED <<phase, launch, control, modules, interval, at, started, polls>>
  BY DEF FinishRefresh, Rescheduled, boot
<1>2. busy.module \in Scheduled /\ Gated \subseteq Module
  BY <1>1 DEF Bedrock, Shaped, Module
<1>3. interval[busy.module] # None /\ interval[busy.module] \in Nat \ {0}
  BY <1>2 DEF Bedrock, Shaped, Staged, Scheduled
<1>4. due' \in [Gated -> Int \cup {None}]
  <2>1. due \in [Gated -> Int \cup {None}] /\ interval[busy.module] \in Int \cup {None}
    BY <1>3 DEF Bedrock, Shaped
  <2> QED
    BY <1>1, <2>1
<1>5. /\ due'[busy.module] = interval[busy.module]
      /\ \A m \in Gated : m # busy.module => due'[m] = due[m]
  BY <1>1, <1>2 DEF Bedrock, Shaped, Scheduled
<1>6. Scheduled' = Scheduled
  BY <1>2, <1>3, <1>5 DEF Scheduled
<1>7. \E S : last' \in [Module -> S]
  BY <1>1, EmitFacts DEF Bedrock, Shaped
<1>8. TypeOK'
  BY <1>1, <1>4 DEF Bedrock, Shaped, TypeOK
<1>9. Shaped'
  BY <1>1, <1>4, <1>7, <1>8 DEF Bedrock, Shaped
<1>10. phase = "daemon"
  BY <1>1 DEF Bedrock, Staged
<1>11. Staged'
  BY <1>1, <1>6, <1>10 DEF Bedrock, Staged, Early, Late, Registered
<1> QED
  BY <1>1, <1>2, <1>3, <1>5, <1>6, <1>9, <1>10, <1>11 DEF Bedrock, Scheduled

\* Time passes for every module that waits.
LEMMA TickBedrock ==
  ASSUME Bedrock, Tick
  PROVE  /\ Bedrock' /\ Scheduled' = Scheduled
         /\ \A m \in Scheduled : due'[m] = due[m] - 1 /\ due[m] \in Int
         /\ busy = Idle <=> busy' = Idle
         /\ busy # Idle => busy'.module = busy.module /\ busy'.left = busy.left - 1
                           /\ busy'.data = busy.data
<1>1. /\ phase = "daemon"
      /\ busy # Idle => busy.left > 0
      /\ due' = [m \in Gated |-> IF due[m] = None THEN None ELSE due[m] - 1]
      /\ busy' = IF busy = Idle THEN Idle ELSE [busy EXCEPT !.left = @ - 1]
      /\ UNCHANGED <<phase, launch, control, modules, interval, at, started, last, polls>>
  BY DEF Tick, boot
<1>2. \A m \in Gated : IF due[m] = None THEN due'[m] = None
                       ELSE due[m] \in Int /\ due'[m] = due[m] - 1 /\ due'[m] # None
  BY <1>1, Shapes DEF Bedrock, Shaped
<1>3. Scheduled' = Scheduled
  BY <1>2 DEF Scheduled
<1>4. due' \in [Gated -> Int \cup {None}]
  BY <1>1, <1>2
<1>5. TypeOK'
  BY <1>1, <1>4 DEF Bedrock, Shaped, TypeOK
<1>6. ASSUME busy # Idle
      PROVE  /\ busy' = [module |-> busy.module, left |-> busy.left - 1, data |-> busy.data]
             /\ busy.module \in Scheduled /\ busy.left - 1 \in Nat
             /\ busy.left - 1 <= Cost[busy.module]
  <2>1. /\ busy = [module |-> busy.module, left |-> busy.left, data |-> busy.data]
        /\ busy.module \in Scheduled /\ busy.left \in Nat /\ busy.left <= Cost[busy.module]
    BY <1>6 DEF Bedrock, Shaped
  <2>2. busy' = [busy EXCEPT !.left = @ - 1] /\ busy.left > 0
    BY <1>1, <1>6
  <2>3. Cost[busy.module] \in Nat
    BY <2>1, Shapes DEF Scheduled
  <2> QED
    BY <2>1, <2>2, <2>3
<1>7. ASSUME busy # Idle
      PROVE  /\ busy'.module = busy.module /\ busy'.left = busy.left - 1
             /\ busy'.data = busy.data
             /\ busy' = [module |-> busy'.module, left |-> busy'.left, data |-> busy'.data]
  BY <1>6, <1>7
<1>8. busy = Idle <=> busy' = Idle
  <2>1. CASE busy = Idle
    BY <1>1, <2>1
  <2>2. CASE busy # Idle
    BY <1>6, <2>2, Shapes DEF Idle, Scheduled
  <2> QED
    BY <2>1, <2>2
<1>9. Shaped'
  BY <1>1, <1>3, <1>4, <1>5, <1>6, <1>7, <1>8 DEF Bedrock, Shaped
<1>10. Staged'
  BY <1>1, <1>3 DEF Bedrock, Staged, Early, Late, Registered
<1> QED
  BY <1>2, <1>3, <1>7, <1>8, <1>9, <1>10 DEF Bedrock, Scheduled

\* The scheduler is dropped, and the modules are stopped in order.
LEMMA StopBedrock ==
  ASSUME Bedrock, Shutdown \/ StopNext PROVE Bedrock'
<1>1. CASE Shutdown
  <2>1. /\ phase \in {"daemon", "cycle"} /\ phase' = "stop" /\ at' = 1
        /\ due' = [m \in Gated |-> None] /\ busy' = busy /\ busy = Idle
        /\ UNCHANGED <<launch, control, modules, interval, started, last, polls>>
    BY <1>1 DEF Shutdown, boot, Bedrock, Staged
  <2>2. due' \in [Gated -> Int \cup {None}] /\ Scheduled' = {}
    BY <2>1 DEF Scheduled
  <2>3. TypeOK'
    BY <2>1, <2>2 DEF Bedrock, Shaped, TypeOK
  <2>4. Shaped'
    BY <2>1, <2>2, <2>3 DEF Bedrock, Shaped
  <2>5. Staged'
    BY <2>1, <2>2 DEF Bedrock, Staged, Early, Late, Registered
  <2> QED
    BY <2>4, <2>5 DEF Bedrock
<1>2. CASE StopNext
  <2>1. /\ phase = "stop" /\ phase' = "stop" /\ at <= Len(modules) /\ at' = at + 1
        /\ started' = started \ {modules[at]}
        /\ UNCHANGED <<launch, control, modules, interval, due, busy, last, polls>>
    BY <1>2 DEF StopNext, boot, sched
  <2>2. modules \in Seq(Module) /\ at \in 1..(Len(modules) + 1)
    BY DEF Bedrock, Shaped, TypeOK
  <2>3. /\ Registered(at, Len(modules)) \ {modules[at]} \subseteq Registered(at + 1, Len(modules))
        /\ Len(modules) \in Nat
    BY <2>1, <2>2, RegisteredFacts
  <2>4. TypeOK'
    BY <2>1, <2>2, <2>3 DEF Bedrock, Shaped, TypeOK
  <2>5. Shaped'
    <3>1. busy = Idle
      BY <2>1 DEF Bedrock, Staged
    <3> QED
      BY <2>1, <2>4, <3>1 DEF Bedrock, Shaped
  <2>6. started' \subseteq {modules'[k] : k \in at'..Len(modules')}
    <3>1. started \subseteq Registered(at, Len(modules))
      BY <2>1 DEF Bedrock, Staged
    <3>2. started' \subseteq Registered(at + 1, Len(modules))
      BY <2>1, <2>3, <3>1
    <3> QED
      BY <2>1, <3>2 DEF Registered
  <2>7. Scheduled' = {}
    BY <2>1 DEF Bedrock, Staged, Scheduled
  <2>8. Staged'
    BY <2>1, <2>6, <2>7 DEF Bedrock, Staged, Early, Late, Registered
  <2> QED
    BY <2>5, <2>8 DEF Bedrock
<1> QED
  BY <1>1, <1>2
\* Every step keeps the shape and the stage of the process.
LEMMA BedrockStep == Bedrock /\ [Next]_vars => Bedrock'
<1> SUFFICES ASSUME Bedrock, [Next]_vars PROVE Bedrock'
  OBVIOUS
<1>1. CASE UNCHANGED vars
  <2>1. /\ UNCHANGED <<phase, launch, control, modules, interval, at, started, due, busy, last,
                       polls>>
    BY <1>1 DEF vars, boot, sched
  <2>2. TypeOK'
    BY <2>1 DEF Bedrock, Shaped, TypeOK
  <2>3. Scheduled' = Scheduled
    BY <2>1 DEF Scheduled
  <2>4. Shaped'
    BY <2>1, <2>2, <2>3 DEF Bedrock, Shaped
  <2>5. Staged'
    BY <2>1, <2>3 DEF Bedrock, Staged, Registered
  <2> QED
    BY <2>4, <2>5 DEF Bedrock
<1> QED
  BY <1>1, BootBedrock, InitAllBedrock, StartBedrock, EnterDaemonBedrock, BeginBedrock,
     FinishBedrock, TickBedrock, StopBedrock DEF Next, Boot, Stop

\* What the configuration asks for does not change once it is read.
LEMMA LaunchFixed ==
  ASSUME [Next]_vars
  PROVE  launch' = launch
  BY DEF Next, Boot, Stop, vars, boot, sched, hostVars, LoadConfig, StartControl, BuildSubstrate,
         OpenOutput, WarmUp, InitAll, StartNext, EnterDaemon, EnterCycle, BeginRefresh,
         FinishRefresh, Tick, Poll, Change, Shutdown, StopNext, AfterStop, ServeUntilSignal,
         CloseControl

\* Every step that starts a module, or moves the process on, has what it needs.
LEMMA ClearedStep == Bedrock /\ Cleared /\ [Next]_vars => Cleared'
<1> SUFFICES ASSUME Bedrock, Cleared, [Next]_vars PROVE Cleared'
  OBVIOUS
<1>0. launch' = launch /\ ResolveOutput' = ResolveOutput /\ EffectiveControl' = EffectiveControl
  <2>1. launch' = launch
    BY LaunchFixed
  <2>2. Config' = Config
    BY <2>1 DEF Config
  <2>3. ResolveOutput' = ResolveOutput
    BY <2>1, <2>2 DEF ResolveOutput
  <2> QED
    BY <2>1, <2>2, <2>3 DEF EffectiveControl
<1>1. CASE LoadConfig \/ StartControl
  <2>1. phase \in {"load", "control"} /\ started = {} /\ started' = {} /\ control' # "down"
    BY <1>1 DEF LoadConfig, StartControl, Bedrock, Staged, Early, boot, Cleared
  <2>2. CASE LoadConfig
    BY <1>0, <2>1, <2>2 DEF LoadConfig, Cleared, FailClosed
  <2>3. CASE StartControl
    BY <1>0, <2>1, <2>3 DEF StartControl, Cleared, FailClosed
  <2> QED
    BY <1>1, <2>2, <2>3
<1>2. CASE BuildSubstrate \/ OpenOutput \/ WarmUp \/ InitAll
  <2>1. /\ phase \in {"substrate", "output", "warmup", "init"} /\ started = {} /\ started' = {}
        /\ control' = control
        /\ phase' \in {"output", "warmup", "init", "start", "failed"}
        /\ phase' = "output" => phase = "substrate"
        /\ phase' \in {"warmup", "init", "start"} =>
             phase \in {"warmup", "init"} \/ ResolveOutput # "fatal"
    BY <1>2 DEF BuildSubstrate, OpenOutput, WarmUp, InitAll, Bedrock, Staged, Early, boot
  <2> QED
    BY <1>0, <2>1 DEF Cleared, FailClosed
<1>3. CASE \/ StartNext \/ EnterDaemon \/ EnterCycle \/ Shutdown \/ StopNext
  <2>1. /\ phase \in {"start", "daemon", "cycle", "stop"} /\ control' = control
        /\ phase' \in {"start", "daemon", "cycle", "stop", "failed"}
    BY <1>3 DEF StartNext, EnterDaemon, EnterCycle, Shutdown, StopNext, boot
  <2> QED
    BY <1>0, <2>1 DEF Cleared, FailClosed
<1>4. CASE AfterStop \/ ServeUntilSignal \/ CloseControl
  <2>1. /\ phase \in {"stop", "serving", "closing"} /\ phase' \in {"serving", "closing", "done"}
        /\ phase' = "done" <=> phase = "closing"
        /\ phase # "closing" => control' = control
        /\ phase = "closing" => control' = IF control = "up" THEN "down" ELSE control
        /\ started' = started
    BY <1>4 DEF AfterStop, ServeUntilSignal, CloseControl, boot
  <2>2. started = {} \/ phase = "stop"
    BY <2>1 DEF Bedrock, Staged, Late
  <2> QED
    BY <1>0, <2>1, <2>2 DEF Cleared, FailClosed
<1>5. CASE BeginRefresh \/ FinishRefresh \/ Tick \/ Poll \/ (\E t \in Table : Change(t))
           \/ UNCHANGED vars
  <2>1. phase' = phase /\ control' = control /\ started' = started
    BY <1>5 DEF BeginRefresh, FinishRefresh, Tick, Poll, Change, vars, boot
  <2> QED
    BY <1>0, <2>1 DEF Cleared, FailClosed
<1> QED
  BY <1>1, <1>2, <1>3, <1>4, <1>5 DEF Next, Boot, Stop

\* A heartbeat carries the usage of the moment it is collected.
LEMMA CollectHealth ==
  Collect("health").usage = usage
<1>1. Collect("health") = HealthCollect
  BY DEF Collect
<1> QED
  BY <1>1 DEF HealthCollect

\* Every heartbeat is collected from the warm-up on, and from a real reading.
LEMMA MeteredStep == Bedrock /\ Metered /\ [Next]_vars => Metered'
<1> SUFFICES ASSUME Bedrock, Metered, [Next]_vars PROVE Metered'
  OBVIOUS
<1>0. "health" \in Module
  BY DEF Module, Gated
<1>1. CASE StartNext
  <2> DEFINE m == modules[at]
             data == Collect(m)
  <2>1. /\ phase = "start" /\ EmitIfChanged(m, data) /\ busy' = busy /\ usage' = usage
        /\ phase' \in {"start", "failed"}
    BY <1>1 DEF StartNext, sched
  <2>2. usage \in Samples
    BY <2>1 DEF Metered, Early
  <2>3. m = "health" => data.usage \in Samples
    BY <2>2, CollectHealth
  <2> HIDE DEF data, m
  <2>4. last'["health"] = last["health"] \/ last'["health"].usage \in Samples
    <3>1. \E S : last \in [Module -> S]
      BY DEF Bedrock, Shaped
    <3>2. \A n \in Module : last'[n] # last[n] => n = m /\ last'[n] = data
      BY <2>1, <3>1, EmitFacts
    <3> QED
      BY <1>0, <2>3, <3>2
  <2> QED
    BY <2>1, <2>2, <2>4 DEF Metered, HeartbeatMetered
<1>2. CASE FinishRefresh
  <2>1. /\ EmitIfChanged(busy.module, busy.data) /\ busy' = Idle /\ usage' = usage
        /\ phase' = phase /\ busy # Idle
    BY <1>2 DEF FinishRefresh
  <2>2. busy'.module # "health"
    BY <2>1, Shapes DEF Idle, Gated
  <2>3. last'["health"] = last["health"] \/ last'["health"].usage \in Samples
    <3>1. \E S : last \in [Module -> S]
      BY DEF Bedrock, Shaped
    <3>2. \A n \in Module : last'[n] # last[n] => n = busy.module /\ last'[n] = busy.data
      BY <2>1, <3>1, EmitFacts
    <3> QED
      BY <1>0, <2>1, <3>2 DEF Metered
  <2> QED
    BY <2>1, <2>2, <2>3 DEF Metered, HeartbeatMetered
<1>3. CASE BeginRefresh
  <2>1. /\ phase = "daemon" /\ phase' = phase /\ usage' = usage /\ last' = last
        /\ busy'.module = Soonest /\ busy'.data = Collect(Soonest)
    BY <1>3 DEF BeginRefresh
  <2>2. usage \in Samples
    BY <2>1 DEF Metered, Early
  <2> QED
    BY <2>1, <2>2, CollectHealth DEF Metered, HeartbeatMetered
<1>4. CASE Tick
  <2>1. phase' = phase /\ usage' = usage /\ last' = last
    BY <1>4 DEF Tick
  <2>2. /\ busy = Idle <=> busy' = Idle
        /\ busy # Idle => busy'.module = busy.module /\ busy'.data = busy.data
    BY <1>4, TickBedrock
  <2> QED
    BY <2>1, <2>2 DEF Metered, HeartbeatMetered
<1>5. CASE WarmUp
  <2>1. /\ phase = "warmup" /\ phase' \in {"warmup", "init"} /\ last' = last /\ busy' = busy
        /\ phase' = "init" => usage' \in Samples
    BY <1>5 DEF WarmUp, sched, Readings
  <2> QED
    BY <2>1 DEF Metered, HeartbeatMetered, Early
<1>6. CASE Poll
  <2>1. phase' = phase /\ usage' \in Samples /\ last' = last /\ busy' = busy
    BY <1>6 DEF Poll, sched
  <2> QED
    BY <2>1 DEF Metered, HeartbeatMetered
<1>7. CASE LoadConfig \/ StartControl \/ BuildSubstrate \/ OpenOutput
  <2>1. /\ phase' \in (Early \ {"init"}) \cup {"failed"} /\ last' = last /\ busy' = busy
    BY <1>7 DEF LoadConfig, StartControl, BuildSubstrate, OpenOutput, sched, Early
  <2> QED
    BY <2>1 DEF Metered, HeartbeatMetered
<1>8. CASE \/ InitAll \/ EnterDaemon \/ EnterCycle \/ Shutdown \/ StopNext \/ AfterStop
           \/ ServeUntilSignal \/ CloseControl \/ (\E t \in Table : Change(t)) \/ UNCHANGED vars
  <2>1. /\ usage' = usage /\ last' = last /\ busy' = busy
        /\ phase' = phase \/ phase \notin (Early \ {"init"}) \cup {"failed"}
    BY <1>8 DEF InitAll, EnterDaemon, EnterCycle, Shutdown, StopNext, AfterStop,
                ServeUntilSignal, CloseControl, Change, vars, sched, Early
  <2> QED
    BY <2>1 DEF Metered, HeartbeatMetered
<1> QED
  BY <1>1, <1>2, <1>3, <1>4, <1>5, <1>6, <1>7, <1>8 DEF Next, Boot, Stop

\* The invariant of the process, but for its schedule.
AgentInv == Bedrock /\ Cleared /\ Metered

\* The invariant holds throughout.
THEOREM AgentInvariance == Spec => []AgentInv
<1>1. Init => AgentInv
  BY AgentInit DEF AgentInv
<1>2. AgentInv /\ [Next]_vars => AgentInv'
  BY BedrockStep, ClearedStep, MeteredStep DEF AgentInv
<1> QED
  BY <1>1, <1>2, PTL DEF Spec

\* However the process is launched and whatever fails on the way, it comes up in full
\* or not at all, its heartbeats carry metered figures, and it goes down in order,
\* the control service last.
THEOREM AlwaysOrderly == Spec => []Orderly
<1>1. AgentInv => Orderly
  <2> SUFFICES ASSUME AgentInv PROVE Orderly
    OBVIOUS
  <2>1. TypeOK /\ FailClosed /\ HeartbeatMetered
    BY DEF AgentInv, Bedrock, Shaped, Cleared, Metered
  <2>2. AllStarted
    BY DEF AgentInv, Bedrock, Staged, AllStarted, Registered
  <2>3. OrderlyEnd
    BY DEF AgentInv, Bedrock, Staged, Cleared, OrderlyEnd, Late
  <2> QED
    BY <2>1, <2>2, <2>3 DEF Orderly
<1> QED
  BY AgentInvariance, <1>1, PTL
-----------------------------------------------------------------------------
(* The schedule. *)

\* The modules that are due after another one, and what the running refresh has taken.
After(m) == {n \in Scheduled : n # busy.module /\ due[n] > due[m]}
Spent == IF busy = Idle THEN 0 ELSE Cost[busy.module] - busy.left

\* A module that waits is overdue by no more than the refreshes that overtook it, each
\* of which is due after it from then on, and what the running one has taken so far.
Slack == \A m \in Scheduled : m # busy.module => due[m] + TotalCost(After(m)) + Spent >= 0

\* The cost of a set of modules grows with the set, one module at a time.
LEMMA CostFacts ==
  ASSUME NEW S, NEW T, S \subseteq T
  PROVE  TotalCost(S) \in Nat /\ TotalCost(S) <= TotalCost(T)
<1>1. \A n \in Gated : CostIn(S, n) \in Nat /\ CostIn(T, n) \in Nat
                       /\ CostIn(S, n) <= CostIn(T, n)
  BY Shapes DEF CostIn
<1> QED
  BY <1>1 DEF TotalCost, Gated

\* A module more costs what it costs.
LEMMA CostAdd ==
  ASSUME NEW S, NEW n \in Gated, n \notin S
  PROVE  TotalCost(S \cup {n}) = TotalCost(S) + Cost[n]
<1>1. \A k \in Gated : CostIn(S, k) \in Nat
  BY Shapes DEF CostIn
<1>2. \A k \in Gated : k # n => CostIn(S \cup {n}, k) = CostIn(S, k)
  BY DEF CostIn
<1>3. CostIn(S \cup {n}, n) = Cost[n] /\ CostIn(S, n) = 0 /\ Cost[n] \in Nat
  BY Shapes DEF CostIn
<1> QED
  BY <1>1, <1>2, <1>3 DEF TotalCost, Gated

\* What the running refresh has taken.
Counted == Spent \in Nat /\ \A m \in Scheduled : due[m] \in Int /\ m \in Gated

\* What the running refresh has taken is a number, and every schedule is of a gated module.
LEMMA SpentNat == Bedrock => Counted
<1> SUFFICES ASSUME Bedrock PROVE Counted
  OBVIOUS
<1>1. \A m \in Gated : Cost[m] \in Nat
  BY Shapes
<1>2. busy # Idle => busy.module \in Gated /\ busy.left \in Nat /\ busy.left <= Cost[busy.module]
  BY DEF Bedrock, Shaped, Scheduled
<1>3. Spent \in Nat
  BY <1>1, <1>2 DEF Spent
<1> QED
  BY <1>3 DEF Bedrock, Shaped, Scheduled, Counted

\* Nothing idle is a module.
LEMMA IdleFacts == Idle.module \notin Gated /\ Idle.module = None
  BY Shapes DEF Idle

\* Every step keeps the slack.
LEMMA SlackStep == Bedrock /\ Slack /\ [Next]_vars => Slack'
<1> SUFFICES ASSUME Bedrock, Slack, [Next]_vars,
                    NEW m \in Scheduled', m # busy'.module
             PROVE  due'[m] + TotalCost(After(m))' + Spent' >= 0
  BY DEF Slack
<1>0. Bedrock'
  BY BedrockStep
<1>1. Spent \in Nat /\ \A n \in Scheduled : due[n] \in Int /\ n \in Gated
  BY SpentNat DEF Counted
<1>2. Spent' \in Nat /\ due'[m] \in Int
  <2>1. Counted'
    BY <1>0, SpentNat, PTL
  <2> QED
    BY <2>1 DEF Counted
<1>3. TotalCost(After(m)) \in Nat
  BY CostFacts
<1>4. TotalCost(After(m))' \in Nat
  <2>1. TotalCost(After(m)') \in Nat
    BY CostFacts
  <2>2. TotalCost(After(m))' = TotalCost(After(m)')
    BY DEF TotalCost, CostIn
  <2> QED
    BY <2>1, <2>2
<1>5. CASE due'[m] >= 0
  BY <1>2, <1>4, <1>5
<1>6. CASE BeginRefresh
  <2>1. /\ phase = "daemon" /\ busy = Idle /\ Scheduled # {} /\ due' = due
        /\ busy'.module = Soonest
    BY <1>6 DEF BeginRefresh
  <2>2. Soonest \in Scheduled /\ \A n \in Scheduled : due[Soonest] <= due[n]
    BY <2>1, DaemonSoonest
  <2>3. Scheduled' = Scheduled /\ m \in Scheduled /\ m # busy.module
    BY <2>1, <1>1, IdleFacts DEF Scheduled
  <2>4. After(m)' = After(m)
    BY <1>1, <2>1, <2>2, <2>3, IdleFacts DEF After
  <2>5. due[m] + TotalCost(After(m)) + Spent >= 0 /\ Spent = 0
    BY <2>1, <2>3 DEF Slack, Spent
  <2>6. TotalCost(After(m))' = TotalCost(After(m))
    BY <2>4 DEF TotalCost, CostIn
  <2> QED
    BY <1>1, <1>2, <1>3, <2>1, <2>3, <2>5, <2>6
<1>7. CASE FinishRefresh
  <2> DEFINE b == busy.module
  <2>1. /\ Scheduled' = Scheduled /\ b \in Scheduled /\ busy' = Idle
        /\ due'[b] = interval[b] /\ interval[b] \in Nat \ {0}
        /\ \A n \in Scheduled : n # b => due'[n] = due[n]
    BY <1>7, FinishBedrock
  <2>2. busy # Idle /\ busy.left = 0
    BY <1>7 DEF FinishRefresh
  <2>3. CASE m = b
    BY <1>5, <2>1, <2>3
  <2>4. CASE m # b /\ due[m] < 0
    <3>1. After(m)' = After(m) \cup {b} /\ b \notin After(m)
      <4>1. \A n \in Scheduled : n # Idle.module
        BY <1>1, IdleFacts
      <4> QED
        BY <1>1, <2>1, <2>4, <4>1 DEF After
    <3>2. b \in Gated /\ Cost[b] \in Nat
      BY <2>1, <1>1, Shapes
    <3>3. TotalCost(After(m))' = TotalCost(After(m)) + Cost[b]
      <4>1. TotalCost(After(m) \cup {b}) = TotalCost(After(m)) + Cost[b]
        BY <3>1, <3>2, CostAdd
      <4>2. TotalCost(After(m))' = TotalCost(After(m) \cup {b})
        BY <3>1 DEF TotalCost, CostIn
      <4> QED
        BY <4>1, <4>2
    <3>4. Spent = Cost[b] /\ Spent' = 0
      BY <2>1, <2>2, <3>2 DEF Spent
    <3>5. due[m] + TotalCost(After(m)) + Spent >= 0 /\ due'[m] = due[m]
      BY <2>1, <2>4 DEF Slack
    <3> QED
      BY <1>1, <1>3, <2>1, <3>2, <3>3, <3>4, <3>5
  <2>5. CASE m # b /\ ~(due[m] < 0)
    BY <1>1, <1>5, <2>1, <2>5
  <2> QED
    BY <2>3, <2>4, <2>5
<1>8. CASE Tick
  <2>1. /\ Scheduled' = Scheduled /\ m \in Scheduled
        /\ \A n \in Scheduled : due'[n] = due[n] - 1 /\ due[n] \in Int
        /\ busy = Idle <=> busy' = Idle
        /\ busy # Idle => busy'.module = busy.module /\ busy'.left = busy.left - 1
    BY <1>8, TickBedrock
  <2>2. CASE busy = Idle
    <3>1. phase = "daemon" /\ Scheduled # {} /\ due[Soonest] > 0
      BY <1>8, <2>2 DEF Tick
    <3>2. Soonest \in Scheduled /\ due[Soonest] <= due[m]
      BY <2>1, <3>1, DaemonSoonest
    <3>3. due'[m] >= 0
      BY <2>1, <3>1, <3>2
    <3> QED
      BY <1>5, <3>3
  <2>3. CASE busy # Idle
    <3>1. m # busy.module
      BY <2>1, <2>3
    <3>2. After(m)' = After(m)
      BY <2>1, <2>3 DEF After
    <3>3. TotalCost(After(m))' = TotalCost(After(m))
      BY <3>2 DEF TotalCost, CostIn
    <3>4. busy.module \in Gated /\ busy.left \in Nat /\ Cost[busy.module] \in Nat
      BY <2>3, Shapes DEF Bedrock, Shaped, Scheduled
    <3>5. Spent' = Spent + 1
      BY <2>1, <2>3, <3>4 DEF Spent
    <3>6. due[m] + TotalCost(After(m)) + Spent >= 0
      BY <2>1, <3>1 DEF Slack
    <3> QED
      BY <1>1, <1>3, <2>1, <3>3, <3>5, <3>6
  <2> QED
    BY <2>2, <2>3
<1>9. CASE EnterDaemon
  <2>1. due' = [n \in Gated |-> IF n \in started THEN interval[n] ELSE None]
    BY <1>9 DEF EnterDaemon
  <2>2. due'[m] # None /\ m \in Gated
    BY DEF Scheduled
  <2>3. due'[m] = interval[m] /\ interval[m] \in Nat
    BY <2>1, <2>2 DEF Bedrock, Shaped, Module
  <2> QED
    BY <1>5, <2>3
<1>10. CASE Shutdown
  <2>1. Scheduled' = {}
    BY <1>10 DEF Shutdown, Scheduled
  <2> QED
    BY <2>1
<1>11. CASE due' = due /\ busy' = busy
  <2>1. Scheduled' = Scheduled
    BY <1>11 DEF Scheduled
  <2>2. After(m)' = After(m) /\ Spent' = Spent
    BY <1>11, <2>1 DEF After, Spent
  <2>3. TotalCost(After(m))' = TotalCost(After(m))
    BY <2>2 DEF TotalCost, CostIn
  <2> QED
    BY <1>11, <2>1, <2>2, <2>3 DEF Slack
<1>12. \/ BeginRefresh \/ FinishRefresh \/ Tick \/ EnterDaemon \/ Shutdown
       \/ due' = due /\ busy' = busy
  BY DEF Next, Boot, Stop, vars, sched, LoadConfig, StartControl, BuildSubstrate, OpenOutput,
         WarmUp, InitAll, StartNext, EnterCycle, Poll, Change, StopNext, AfterStop,
         ServeUntilSignal, CloseControl
<1> QED
  BY <1>6, <1>7, <1>8, <1>9, <1>10, <1>11, <1>12

\* No module of a daemon starves, however many there are, whatever their intervals and
\* however long their refreshes last: one that waits is overdue by at most one refresh
\* of each other module.
THEOREM NobodyStarves == Spec => []NeverStarved
<1>1. Init => Slack
  <2>1. Init => Scheduled = {}
    BY DEF Init, Scheduled
  <2> QED
    BY <2>1 DEF Slack
<1>2. AgentInv /\ Slack => NeverStarved
  <2> SUFFICES ASSUME Bedrock, Slack PROVE NeverStarved
    BY DEF AgentInv
  <2> DEFINE periodic == {m \in Gated \cap started : interval[m] # None}
  <2> SUFFICES ASSUME NEW m \in Scheduled, busy.module # m
               PROVE  due[m] + TotalCost(periodic \ {m}) >= 0
    BY DEF NeverStarved
  <2>1. Spent \in Nat /\ \A n \in Scheduled : due[n] \in Int /\ n \in Gated
    BY SpentNat DEF Counted
  <2>2. Scheduled \subseteq periodic
    BY DEF Bedrock, Staged, Scheduled
  <2>3. due[m] + TotalCost(After(m)) + Spent >= 0
    BY DEF Slack
  <2> HIDE DEF periodic
  <2>4. After(m) \subseteq periodic \ {m}
    BY <2>1, <2>2 DEF After
  <2>5. TotalCost(After(m)) \in Nat /\ TotalCost(periodic \ {m}) \in Nat
    BY CostFacts
  <2>6. CASE busy = Idle
    <3>1. TotalCost(After(m)) <= TotalCost(periodic \ {m})
      BY <2>4, CostFacts
    <3>2. Spent = 0
      BY <2>6 DEF Spent
    <3> QED
      BY <2>1, <2>3, <2>5, <3>1, <3>2
  <2>7. CASE busy # Idle
    <3> DEFINE b == busy.module
    <3>1. b \in Scheduled /\ b \in Gated /\ busy.left \in Nat /\ Cost[b] \in Nat
      BY <2>1, <2>7, Shapes DEF Bedrock, Shaped
    <3>2. After(m) \cup {b} \subseteq periodic \ {m} /\ b \notin After(m)
      BY <2>2, <2>4, <3>1 DEF After
    <3>3. TotalCost(After(m) \cup {b}) = TotalCost(After(m)) + Cost[b]
      BY <3>1, <3>2, CostAdd
    <3>4. TotalCost(After(m) \cup {b}) <= TotalCost(periodic \ {m})
      BY <3>2, CostFacts
    <3>5. Spent = Cost[b] - busy.left
      BY <2>7 DEF Spent
    <3> HIDE DEF b
    <3> QED
      BY <2>1, <2>3, <2>5, <3>1, <3>3, <3>4, <3>5
  <2> QED
    BY <2>6, <2>7
<1>3. AgentInv => Bedrock
  BY DEF AgentInv
<1> QED
  BY AgentInvariance, <1>1, <1>2, <1>3, SlackStep, PTL DEF Spec

\* The intervals are those of the configuration once the modules are registered.
Configured ==
  phase \notin Early \cup {"failed"} => interval = [m \in Module |-> Override(m)]

\* A module that the configuration switches off reports when it is started and never
\* again, for as long as the daemon runs.
THEOREM OffIsOff == Spec => OffStaysOff
<1>1. Init => Configured
  BY DEF Init, Configured, Early
<1>2. Configured /\ [Next]_vars => Configured'
  <2> SUFFICES ASSUME Configured, [Next]_vars PROVE Configured'
    OBVIOUS
  <2>1. launch' = launch
    BY LaunchFixed
  <2>2. Config' = Config
    BY <2>1 DEF Config
  <2>3. \A m : Override(m)' = Override(m)
    BY <2>2 DEF Override
  <2>4. \/ InitAll
        \/ /\ interval' = interval
           /\ phase' \in Early \cup {"failed"} \/ phase \notin Early \cup {"failed"}
    BY DEF Next, Boot, Stop, vars, boot, Early, LoadConfig, StartControl, BuildSubstrate,
           OpenOutput, WarmUp, StartNext, EnterDaemon, EnterCycle, BeginRefresh, FinishRefresh,
           Tick, Poll, Change, Shutdown, StopNext, AfterStop, ServeUntilSignal, CloseControl
  <2>5. CASE InitAll
    BY <2>3, <2>5 DEF InitAll, Configured
  <2>6. CASE /\ interval' = interval
             /\ phase' \in Early \cup {"failed"} \/ phase \notin Early \cup {"failed"}
    BY <2>3, <2>6 DEF Configured
  <2> QED
    BY <2>4, <2>5, <2>6
<1>3. AgentInv /\ Configured /\ [Next]_vars =>
        [\A m \in DOMAIN Config.refresh :
           Config.refresh[m] = 0 /\ phase = "daemon" => last'[m] = last[m]]_vars
  <2> SUFFICES ASSUME Bedrock, Configured, Next,
                      NEW m \in DOMAIN Config.refresh, Config.refresh[m] = 0, phase = "daemon"
               PROVE  last'[m] = last[m]
    BY DEF AgentInv
  <2>1. last' = last \/ FinishRefresh
    BY DEF Next, Boot, Stop, LoadConfig, StartControl, BuildSubstrate, OpenOutput, WarmUp,
           InitAll, StartNext, EnterDaemon, EnterCycle, BeginRefresh, Tick, Poll, Change,
           Shutdown, StopNext, AfterStop, ServeUntilSignal, CloseControl
  <2>2. CASE FinishRefresh
    <3>1. busy.module \in Scheduled
      BY <2>2, FinishBedrock
    <3>2. busy.module \in Gated /\ interval[busy.module] # None
      BY <3>1 DEF Bedrock, Staged, Scheduled
    <3>3. busy.module # m
      <4>1. SUFFICES ASSUME busy.module = m PROVE FALSE
        OBVIOUS
      <4>2. m \in Gated \cap DOMAIN Config.refresh
        BY <3>2, <4>1
      <4>3. Override(m) = IF Config.refresh[m] > 0 THEN Config.refresh[m] ELSE None
        BY <4>2 DEF Override
      <4>4. interval[m] = Override(m)
        BY <4>2 DEF Configured, Early, Module
      <4> QED
        BY <3>2, <4>1, <4>3, <4>4
    <3>4. EmitIfChanged(busy.module, busy.data)
      BY <2>2 DEF FinishRefresh
    <3>5. \E S : last \in [Module -> S]
      BY DEF Bedrock, Shaped
    <3> QED
      BY <3>3, <3>4, <3>5 DEF EmitIfChanged
  <2> QED
    BY <2>1, <2>2
<1> QED
  BY AgentInvariance, <1>1, <1>2, <1>3, PTL DEF Spec, OffStaysOff
=============================================================================
