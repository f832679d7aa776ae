------------------------------- MODULE Agent -------------------------------
(***************************************************************************)
(* The agent process: main (crates/agent/src/main.rs), the module manager, *)
(* its change gate and periodic scheduler (crates/core/src/lib.rs), the    *)
(* resource governor (crates/core/src/resource.rs) and the modules that    *)
(* report from the snapshot provider (crates/modules).                     *)
(*                                                                         *)
(* One thread boots, starts the modules in order, refreshes them until the *)
(* shutdown signal and stops them; the governor's poller, the host that    *)
(* changes and the control service run beside it.  Instants are kept as    *)
(* distances from now, and a refresh may last up to Cost of its module.    *)
(* The content of a table is a set of rows, of which the model keeps what  *)
(* the evaluation of the reading module tells apart, and a payload is what *)
(* it was built from: the gate's hash is taken to be injective.            *)
(*                                                                         *)
(* The event-driven modules do nothing here but run (see Monitors, Corr),  *)
(* and the control service nothing but stand (see AgentService).           *)
(***************************************************************************)
EXTENDS Integers, Sequences

CONSTANTS Launches,        \* how the process may be launched
          Registrations,   \* the module sequences it may register
          Providers,       \* the snapshot providers it may be given
          Contents,        \* what each table of the host may hold
          DefaultInterval, \* DEFAULT_..._INTERVAL of the periodic modules
          Cost,            \* the longest a refresh of a module lasts
          Samples,         \* readings of the process's own usage
          None,            \* no value
          Broken,          \* a config file that does not load
          Fail,            \* a query that fails
          Nothing          \* nothing emitted yet, nothing to emit

Table == {"os_version", "packages", "files", "sshd_config", "login_defs",
          "ai_runtimes", "ai_models", "network_hosts"}

\* The tables StubSnapshot::query answers; any other is an error.
Served == Table \ {"sshd_config", "login_defs"}

Gated == {"asset", "health", "vuln", "compliance", "drift", "fim", "aimodel",
          "netdiscovery"}
Stream == {"procmon", "netmon", "filemon", "libload", "aiusage", "corr"}
Module == Gated \cup Stream \cup {"aidiscovery"}

ASSUME Shapes ==
  /\ \A r \in Registrations : r \in Seq(Module)
  /\ DefaultInterval \in [Gated -> Nat \ {0}] /\ Cost \in [Gated -> Nat]
  /\ DOMAIN Contents = Table /\ \A u \in Samples : {u.cpu, u.mem} \subseteq Nat
  /\ Providers \subseteq {"captured", "live"} /\ None \notin Int \cup Gated
  /\ \A l \in Launches : \/ l.config \in {None, Broken}
                         \/ \A m \in DOMAIN l.config.refresh : l.config.refresh[m] \in Nat

VARIABLES phase,     \* where main stands
          launch,    \* the command line, the environment and the config file
          provider,  \* "captured": StubSnapshot; "live": one that reads the host
          control,   \* the control service: "off", "up" or "down"
          modules,   \* ModuleManager::modules
          at,        \* the module start_all or stop_all has reached
          started,   \* the modules started and not stopped
          interval,  \* refresh_interval of each module, None for never
          due,       \* schedule: time until a module is due, None without entry
          busy,      \* the refresh that is running
          last,      \* ChangeGate::last: the payload last emitted
          usage,     \* ResourceGovernor::last
          polls,     \* polls of the governor made by the phase
          world,     \* the host
          captured   \* the tables StubSnapshot keeps

boot == <<launch, provider, control, modules, interval>>
sched == <<due, busy>>
hostVars == <<world, captured>>
vars == <<phase, boot, at, started, sched, last, usage, polls, hostVars>>

-----------------------------------------------------------------------------
(* Configuration. *)

NoConfig == [control |-> FALSE, daemon |-> FALSE, sink |-> "none", refresh |-> <<>>]
Config == IF launch.config \in {None, Broken} THEN NoConfig ELSE launch.config

EffectiveControl == Config.control

\* --daemon or $TORDA_DAEMON, else the config.
ResolveDaemonMode == IF launch.daemon # None THEN launch.daemon ELSE Config.daemon

\* --output or $TORDA_OUTPUT, else the config; an unusable section is fatal.
ResolveOutput ==
  IF launch.output # None THEN "file"
  ELSE CASE Config.sink \in {"none", "stdout"} -> "stdout"
         [] Config.sink = "file"              -> "file"
         [] OTHER                             -> "fatal"

\* apply_refresh_overrides: 0 is off; only the gated modules have a setter.
Override(m) ==
  CASE m \notin Gated                        -> None
    [] m \in Gated \ DOMAIN Config.refresh   -> DefaultInterval[m]
    [] m \in Gated \cap DOMAIN Config.refresh ->
         IF Config.refresh[m] > 0 THEN Config.refresh[m] ELSE None

-----------------------------------------------------------------------------
(* The governor.  CPU is metered between two samples, so the first reads 0. *)

Readings(n) == IF n = 0 THEN {[u EXCEPT !.cpu = 0] : u \in Samples} ELSE Samples

\* ResourceBudget: a percentage from the environment in (0, 100], else 5.
ParsePct(raw) == IF raw # None /\ raw > 0 /\ raw <= 100 THEN raw ELSE 5
Budget == [cpu |-> ParsePct(launch.cpu), mem |-> ParsePct(launch.mem)]

Decide(u) == IF u.cpu > Budget.cpu \/ u.mem > Budget.mem THEN "throttle" ELSE "run"

-----------------------------------------------------------------------------
(* The modules: what each collects from the tables it reads. *)

Query(t) == IF provider = "live" THEN world[t]
            ELSE IF t \in Served THEN captured[t] ELSE Fail

\* The tables that answered; the others are left out of the evaluation.
Answered(ts) == [t \in {t \in ts : Query(t) # Fail} |-> Query(t)]

AssetCollect ==
  IF Fail \in {Query("os_version"), Query("packages")} THEN Fail
  ELSE <<Query("os_version"), Query("packages")>>
VulnCollect == IF Query("packages") = Fail THEN Fail ELSE <<Query("packages")>>
ComplianceCollect == Answered({"sshd_config", "packages", "login_defs"})
DriftCollect == Answered({"packages"})
FimCollect == Answered({"files"})
AiModelCollect ==
  IF Query("ai_models") \in {Fail, {}} THEN Nothing ELSE <<Query("ai_models")>>
NetDiscoveryCollect ==
  IF Query("network_hosts") \in {Fail, {}} THEN Nothing ELSE <<Query("network_hosts")>>
AiDiscoveryCollect ==
  IF Query("ai_runtimes") = Fail THEN Fail
  ELSE IF Query("ai_runtimes") = {} THEN Nothing ELSE <<Query("ai_runtimes")>>

\* The uptime differs from that of the last heartbeat.
HealthCollect ==
  [uptime |-> IF last["health"] = Nothing THEN 0 ELSE 1 - last["health"].uptime,
   usage  |-> usage, over |-> Decide(usage) = "throttle"]

Collect(m) ==
  CASE m = "asset"        -> AssetCollect
    [] m = "health"       -> HealthCollect
    [] m = "vuln"         -> VulnCollect
    [] m = "compliance"   -> ComplianceCollect
    [] m = "drift"        -> DriftCollect
    [] m = "fim"          -> FimCollect
    [] m = "aimodel"      -> AiModelCollect
    [] m = "netdiscovery" -> NetDiscoveryCollect
    [] m = "aidiscovery"  -> AiDiscoveryCollect
    [] OTHER              -> Nothing

\* Mutant: the gate lets only the first payload through.
EmitOnce(m, data) ==
  last' = IF data \in {Fail, Nothing} \/ last[m] # Nothing THEN last
          ELSE [last EXCEPT ![m] = data]

\* The gate emits what differs from the last payload and remembers it.
EmitIfChanged(m, data) ==
  last' = IF data \in {Fail, Nothing} THEN last ELSE [last EXCEPT ![m] = data]

-----------------------------------------------------------------------------
(* Boot. *)

Idle == [module |-> None, left |-> 0, data |-> Nothing]

\* The host may change before the substrate reads it, so one world is enough.
Init ==
  /\ phase = "load" /\ launch \in Launches /\ provider \in Providers
  /\ control = "off" /\ modules = <<>> /\ at = 1 /\ started = {}
  /\ interval = [m \in Module |-> None] /\ due = [m \in Gated |-> None]
  /\ busy = Idle /\ last = [m \in Module |-> Nothing]
  /\ usage = [cpu |-> 0, mem |-> 0] /\ polls = 0
  /\ world = [t \in Table |-> CHOOSE c \in Contents[t] : TRUE]
  /\ captured = [t \in Table |-> {}]

\* A config that was asked for and does not load ends the process.
LoadConfig ==
  /\ phase = "load"
  /\ phase' = IF launch.config = Broken THEN "failed" ELSE "control"
  /\ UNCHANGED <<boot, at, started, sched, last, usage, polls, hostVars>>

StartControl ==
  /\ phase = "control"
  /\ \/ ~EffectiveControl /\ phase' = "substrate" /\ control' = "off"
     \/ EffectiveControl /\ phase' = "substrate" /\ control' = "up"
     \/ EffectiveControl /\ phase' = "failed" /\ control' = "off"
  /\ UNCHANGED <<launch, provider, modules, interval, at, started, sched, last,
                 usage, polls, hostVars>>

\* StubSnapshot::with_all_providers reads every table once.
BuildSubstrate ==
  /\ phase = "substrate" /\ phase' = "output"
  /\ captured' = [t \in Table |-> IF world[t] = Fail THEN {} ELSE world[t]]
  /\ UNCHANGED <<boot, at, started, sched, last, usage, polls, world>>

\* A sink that cannot be opened, or an invalid section, ends the process.
OpenOutput ==
  /\ phase = "output"
  /\ \/ ResolveOutput # "fatal" /\ phase' = "warmup"
     \/ ResolveOutput # "stdout" /\ phase' = "failed"
  /\ UNCHANGED <<boot, at, started, sched, last, usage, polls, hostVars>>

WarmUp ==
  /\ phase = "warmup"
  /\ usage' \in Readings(polls)
  /\ IF polls = 0 THEN polls' = 1 /\ UNCHANGED phase
                  ELSE polls' = 0 /\ phase' = "init"
  /\ UNCHANGED <<boot, at, started, sched, last, hostVars>>

InitAll ==
  /\ phase = "init" /\ phase' = "start" /\ at' = 1
  /\ modules' \in Registrations
  /\ interval' = [m \in Module |-> Override(m)]
  /\ UNCHANGED <<launch, provider, control, started, sched, last, usage, polls, hostVars>>

\* start_all: the first module that fails ends the process.
StartNext ==
  /\ phase = "start" /\ at <= Len(modules)
  /\ LET m == modules[at]
         data == Collect(m)
     IN  /\ EmitIfChanged(m, data)
         /\ IF data = Fail THEN phase' = "failed" /\ UNCHANGED <<at, started>>
            ELSE at' = at + 1 /\ started' = started \cup {m} /\ UNCHANGED phase
  /\ UNCHANGED <<boot, sched, usage, polls, hostVars>>

\* The daemon builds its schedule; every interval starts now.
EnterDaemon ==
  /\ phase = "start" /\ at > Len(modules) /\ ResolveDaemonMode
  /\ phase' = "daemon"
  /\ due' = [m \in Gated |-> IF m \in started THEN interval[m] ELSE None]
  /\ UNCHANGED <<boot, at, started, busy, last, usage, polls, hostVars>>

EnterCycle ==
  /\ phase = "start" /\ at > Len(modules) /\ ~ResolveDaemonMode
  /\ phase' = "cycle"
  /\ UNCHANGED <<boot, at, started, sched, last, usage, polls, hostVars>>

-----------------------------------------------------------------------------
(* The periodic scheduler. *)

Scheduled == {m \in Gated : due[m] # None}

\* Mutant: the first registered that is due, or the soonest when none is.
FirstDue ==
  LET late == {m \in Scheduled : due[m] <= 0}
  IN  IF late = {} THEN CHOOSE m \in Scheduled : \A n \in Scheduled : due[m] <= due[n]
      ELSE CHOOSE m \in late : \A n \in late : \E i, j \in 1..Len(modules) :
                i <= j /\ modules[i] = m /\ modules[j] = n

\* The soonest due, the first registered among equals.
Soonest ==
  CHOOSE m \in Scheduled : \A n \in Scheduled :
     \/ due[m] < due[n]
     \/ due[m] = due[n] /\ \E i, j \in 1..Len(modules) :
                              i <= j /\ modules[i] = m /\ modules[j] = n

BeginRefresh ==
  /\ phase = "daemon" /\ busy = Idle /\ Scheduled # {}
  /\ due[Soonest] <= 0
  /\ \E c \in 0..Cost[Soonest] :
        busy' = [module |-> Soonest, left |-> c, data |-> Collect(Soonest)]
  /\ UNCHANGED <<phase, boot, at, started, due, last, usage, polls, hostVars>>

\* An error is logged; the module is due again one interval after its end.
Rescheduled(m) == interval[m]

FinishRefresh ==
  /\ busy # Idle /\ busy.left = 0
  /\ EmitIfChanged(busy.module, busy.data)
  /\ due' = [due EXCEPT ![busy.module] = Rescheduled(busy.module)]
  /\ busy' = Idle
  /\ UNCHANGED <<phase, boot, at, started, usage, polls, hostVars>>

\* Time passes while a refresh runs or the scheduler sleeps.
Tick ==
  /\ phase = "daemon" /\ Scheduled # {}
  /\ IF busy = Idle THEN due[Soonest] > 0 ELSE busy.left > 0
  /\ due' = [m \in Gated |-> IF due[m] = None THEN None ELSE due[m] - 1]
  /\ busy' = IF busy = Idle THEN Idle ELSE [busy EXCEPT !.left = @ - 1]
  /\ UNCHANGED <<phase, boot, at, started, last, usage, polls, hostVars>>

-----------------------------------------------------------------------------
(* The poller, the host and the end of the process. *)

\* Four ticks in a cycle, any number in the daemon.
Poll ==
  /\ phase \in {"cycle", "daemon"} /\ polls < 4
  /\ usage' \in Samples
  /\ polls' = IF phase = "daemon" THEN 0 ELSE polls + 1
  /\ UNCHANGED <<phase, boot, at, started, sched, last, hostVars>>

\* The host changes; only where a table is read next does it matter when.
Change(t) ==
  /\ phase \in {"control", "start", "daemon"}
  /\ \E c \in Contents[t] \ {world[t]} : world' = [world EXCEPT ![t] = c]
  /\ UNCHANGED <<phase, boot, at, started, sched, last, usage, polls, captured>>

\* The signal drops the scheduler where it waits, never inside a refresh.
Shutdown ==
  /\ \/ phase = "daemon" /\ busy = Idle
     \/ phase = "cycle" /\ polls = 4
  /\ phase' = "stop" /\ at' = 1
  /\ due' = [m \in Gated |-> None]
  /\ UNCHANGED <<boot, started, busy, last, usage, polls, hostVars>>

\* Mutant: the first module stopped ends the loop.
StopFirst ==
  /\ phase = "stop" /\ at <= Len(modules)
  /\ started' = started \ {modules[at]} /\ at' = Len(modules) + 1
  /\ UNCHANGED <<phase, boot, sched, last, usage, polls, hostVars>>

StopNext ==
  /\ phase = "stop" /\ at <= Len(modules)
  /\ started' = started \ {modules[at]} /\ at' = at + 1
  /\ UNCHANGED <<phase, boot, sched, last, usage, polls, hostVars>>

\* After a cycle the control service is served until the signal.
AfterStop ==
  /\ phase = "stop" /\ at > Len(modules)
  /\ phase' = IF ResolveDaemonMode \/ control = "off" THEN "closing" ELSE "serving"
  /\ UNCHANGED <<boot, at, started, sched, last, usage, polls, hostVars>>

ServeUntilSignal ==
  /\ phase = "serving" /\ phase' = "closing"
  /\ UNCHANGED <<boot, at, started, sched, last, usage, polls, hostVars>>

CloseControl ==
  /\ phase = "closing" /\ phase' = "done"
  /\ control' = IF control = "up" THEN "down" ELSE control
  /\ UNCHANGED <<launch, provider, modules, interval, at, started, sched, last,
                 usage, polls, hostVars>>

Boot == \/ LoadConfig \/ StartControl \/ BuildSubstrate \/ OpenOutput \/ WarmUp
        \/ InitAll \/ StartNext \/ EnterDaemon \/ EnterCycle
Stop == Shutdown \/ StopNext \/ AfterStop \/ ServeUntilSignal \/ CloseControl
Next == \/ Boot \/ BeginRefresh \/ FinishRefresh \/ Tick \/ Poll \/ Stop
        \/ \E t \in Table : Change(t)

Spec == Init /\ [][Next]_vars

\* The main thread runs and time passes; the signal need not come.
FairSpec ==
  /\ Spec
  /\ WF_vars(Boot) /\ WF_vars(BeginRefresh) /\ WF_vars(FinishRefresh)
  /\ WF_vars(Tick) /\ WF_vars(StopNext) /\ WF_vars(AfterStop)
  /\ WF_vars(CloseControl)

-----------------------------------------------------------------------------
(* Properties. *)

TypeOK ==
  /\ phase \in {"load", "control", "substrate", "output", "warmup", "init",
                "start", "daemon", "cycle", "stop", "serving", "closing",
                "done", "failed"}
  /\ control \in {"off", "up", "down"} /\ at \in 1..(Len(modules) + 1)
  /\ started \subseteq Module /\ polls \in 0..4
  /\ \A m \in Gated : interval[m] \in (Nat \ {0}) \cup {None}
  /\ \A m \in Gated : due[m] \in Int \cup {None}

\* What one refresh of each module of a set may last in all.
CostIn(S, m) == IF m \in S THEN Cost[m] ELSE 0
TotalCost(S) ==
  CostIn(S, "asset") + CostIn(S, "health") + CostIn(S, "vuln") + CostIn(S, "compliance")
  + CostIn(S, "drift") + CostIn(S, "fim") + CostIn(S, "aimodel") + CostIn(S, "netdiscovery")

\* No refresh starves (ModuleManager::run_periodic): a module that waits is never
\* overdue by more than one refresh of each other module, however long they last.
NeverStarved ==
  LET periodic == {m \in Gated \cap started : interval[m] # None}
  IN  \A m \in Scheduled :
         \/ busy.module = m
         \/ due[m] + TotalCost(periodic \ {m}) >= 0

\* A module switched off in [refresh] reports at start and never again.
OffStaysOff ==
  [][\A m \in DOMAIN Config.refresh :
        Config.refresh[m] = 0 /\ phase = "daemon" => last'[m] = last[m]]_vars

\* Nothing is collected unless everything that was asked for is in place: the
\* config loaded, the control service up, and the sink usable.
FailClosed ==
  started # {} => /\ launch.config # Broken /\ ResolveOutput # "fatal"
                  /\ EffectiveControl => control = "up"

\* The process ends with every module and the service stopped, the service last.
OrderlyEnd ==
  /\ control = "down" => started = {}
  /\ phase = "done" => started = {} /\ control # "up"

\* The daemon is entered with every registered module running.
AllStarted ==
  phase \in {"daemon", "cycle"} => started = {modules[i] : i \in 1..Len(modules)}

\* "the first Agent Health record carries a real cpu_pct, not a structural zero".
HeartbeatMetered ==
  last["health"] # Nothing => last["health"].usage \in Samples

Refreshing(m) == phase = "daemon" /\ m \in started /\ interval[m] # None

\* A module with an interval is refreshed again and again for as long as the
\* daemon runs, whatever other refreshes cost and however they fail.
RefreshedForever ==
  \A m \in Gated : <>[]Refreshing(m) => []<>(busy.module = m)

\* The report of a module is what it would collect now.
Reported(m) ==
  LET now == Collect(m) IN now \in {Fail, Nothing} \/ last[m] = now

\* The host changes no more.
Settled == <>[][FALSE]_world

\* With a provider that reads the host, a change that lasts is reported.
LiveChangeReported ==
  provider = "live" /\ Settled =>
    \A m \in Gated \ {"health"} : <>[]Refreshing(m) => <>[]Reported(m)

\* The process comes up in full or not at all, reports real figures, and goes down
\* in order.
Orderly == TypeOK /\ FailClosed /\ AllStarted /\ OrderlyEnd /\ HeartbeatMetered

\* Modules are refreshed as configured, and what changes is reported.
Refreshed == OffStaysOff /\ RefreshedForever /\ LiveChangeReported

FileReported == world["files"] # Fail => last["fim"] = [t \in {"files"} |-> world[t]]

\* "so a file changed after boot is now caught" (main, of the periodic refresh).
FileChangeCaught == Settled => (<>[]Refreshing("fim") => <>[]FileReported)
=============================================================================
