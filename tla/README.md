# Torda: a TLA+ verification of the agent and its server

Torda is an endpoint agent (`crates/`) with a server side (`server/`). The agent
observes its host through kernel sensors and periodic snapshots, and writes
records to an event file. The server ingests the records, matches and scores
findings, and keeps them in a store fed by a signed threat feed. An operator may
have a *remediation action* carried out on named hosts: the only path on which
the system changes a host. All three paths are modelled.

## 1. Inventory

| Component | Source | State | Operations | Module |
|---|---|---|---|---|
| Remediation bridge | `server/remediation/src/{action,audit,bridge}.rs` | `actions: id -> Record{action, state, applied}` | draft, map_to_item, dry_run, submit, approve, reject, abort, run_canary, run_rollout, run_rollback | Bridge, StagedChange |
| Gates, replay guard | `server/remediation/src/control.rs` | `seen: session -> seq` | authenticate, admit, authorize, gate_execution, dispatch | ControlLoop, Session |
| Scheduler | `server/remediation/src/scheduler.rs` | `pending` | enqueue, tick, cancel | ControlLoop |
| Control loop | `server/control-plane/src/lib.rs` | guard, scheduler, trust store | serve_one, tick, handlers, reload of keys | ControlLoop, Session, Trust |
| Issuer | `server/control-server/src` | `outstanding` tokens | send_command, await_result, accept | Session |
| Carrier | `server/transport`, `server/transport-tls/src/stream.rs` | `inbuf`, queues | encode/decode frame, send, recv | Framing, AgentService |
| TLS material | `server/transport-tls/src/{certs,lib,reload}.rs` | configuration in force | load, build, reload, accept | Trust |
| Control service | `crates/agent/src/lib.rs` | listener, flag, one bridge | accept loop, serve_connection, shutdown | AgentService |
| Payload executor | `crates/agent/src/apply.rs` | child process, two readers | apply, rollback, run_bounded | Supervision |
| Agent process | `crates/agent/src/{main,lib,sampler}.rs` | mode, modules, control service | boot, warm-up, daemon or one cycle, shutdown | Agent |
| Module core | `crates/core/src` | modules, schedule, `ChangeGate`, governor | init_all, start_all, run_periodic, stop_all, poll | Agent |
| Snapshot modules | `crates/modules/{asset,vuln,health,netdiscovery,aidiscovery,aimodel,compliance,drift,fim}` | last payload | collect, emit once, emit if changed | Agent, Findings |
| Host inventory | `crates/substrate/src/{lib,packages,listeners,ai,ai_models,network_hosts}.rs` | captured tables | readers, collection, query | Inventory, Agent |
| Kernel substrate | `crates/substrate/src/{ebpf,etw}.rs`, `crates/substrate-ebpf*` | rings, WRITE_SEEN, file name cache | probes, pollers, callbacks | Ebpf, Etw |
| Activity monitors | `crates/modules/{procmon,netmon,filemon,aiusage,libload}` | pending execs, pid to tool, seen paths | one handler per event, stop | Monitors |
| Correlation | `crates/modules/corr/src/lib.rs` | contexts, buffers, chain trackers | exec, exit, connect, write, open, grace tick, stop | Corr |
| Event file | `crates/agent/src/emit.rs` | current file, rolls, byte count, buffer | emit, rotate, reopen | EventFile |
| Compliance, drift, FIM | `crates/compliance/src` | baselines | evaluate, compare | Findings |
| Findings engine | `server/findings-engine/src` | none (pure) | correlate, score, decide, carry forward, group | Findings, Ingest |
| Ingest | `server/ingest/src` | findings store, outputs | the two programs, mappers, version matching, verify | Ingest, Versions |
| Threat feed | `crates/feed/src`, `server/feed-live` | content, marker | publish, verify, install, load | Feed |
| Record formats | `crates/ocsf`, `crates/findings` | none | | fields used in Findings, Ingest |
| Demonstration programs, benchmark harness | `*/src/bin/*-demo.rs`, `bench` | | | not modelled |

How they interact: sensors publish on a broadcast bus that the monitors and the
correlation task read, each with its own lag; the manager starts, refreshes and
stops the modules; all records go through the emitter to the event file; a
shipper, which is not part of the repository, takes the file to the server; the
ingest programs share one store file and read the feed's content directory; the
issuer reaches the agent's control service over frames on TLS; the service owns
the bridge, which calls the executor.

### Hard behaviours, and what correctness means there

* **Many methods, one state field** (bridge): no post-approval state without the
  gates of the draft in force; nothing outside the named hosts, nor outside the
  cohort before the canary is promoted; the threshold over the whole list.
* **Partial failure** (bridge, executor, event file, feed): one step of several
  fails, and the record of what happened must stay exact.
* **Delivery** (guard, issuer, carrier): lost, repeated, late and unauthentic
  frames over several connections.
* **Time** (scheduler, manager, executor): windows, intervals shorter than the
  work they repeat, a time limit that races a late answer.
* **Order, age and reuse** (sensors, monitors, correlation): rings drained by
  different threads, lag, tables at their caps, pids and file objects reused.
* **A world that changes while it is read** (inventory, trust files, feed
  directory, findings store): two reads that are joined, a check at one read and
  a use at the next, two writers without a lock.
* **Crashes** (event file, store, feed): what is on disk after a stop between any
  two calls, in the middle of a rotation, a write or a removal too.
* **Threads** (service, executor): shutdown at any point of a frame, a peer that
  does not read, a payload that fills its pipe, a helper that keeps it open.

`PROJECT.json` lists these as hazards, each at its line, with the properties that
would catch it.

## 2. The modules

```
StagedChange                          what a staged change promises (abstract)
   ^ implemented by
Bridge       <-- BridgeProofs         the bridge, every method in every order
   ^ EXTENDS
ControlLoop  <-- MCControlLoop, ControlLoopProofs   gates + scheduler + bridge
Session      <-- ServerProofs         issuer, channel, replay guard
AgentService <-- AgentServiceProofs   service thread, peers, owner, carrier
Agent, Bridge, Supervision <-- MCAgent
Agent, Supervision <-- AgentProofs
Corr         <-- MCCorr, CorrProofs
Monitors <-- Ebpf <-- Etw             sensors and the monitor above them
Etw, EventFile, Inventory <-- MCSensors, SensorProofs
Versions, Findings <-- Ingest
Ingest, Trust, Feed, Framing <-- MCServer
Ingest, Trust, Feed, Framing <-- ServerProofs
Collections <-- ControlLoop, Trust, Feed, Corr, Monitors, Ingest
SequenceFacts                         lemmas used by the proofs
```

MCAgent, MCSensors and MCServer hold several components that share no state. A
behaviour there is one of its `subject`; the others stay as they began, so a run
is the union of its components' state spaces and not their product.

**Bridge.** `action`, `state`, `applied` are the fields of `Record`; `host` is
what the executor left on each host; `by` is the part of the audit trail that
says who moved the action into each state since it was drafted; `ret` the
`Result` of the last call. Each public method is one action, and a stage is one
action with its apply, verify, set_state and automatic rollback in the code's
order. Which hosts fail, which rollbacks fail and what the verifier says is
chosen freely. Thresholds are percentages; `cohort_size` is clamped as
`run_canary` does.

**StagedChange.** A change is authored, cleared, piloted, spread and ended; its
reach grows only to the pilot hosts while cleared and to its scope once proven.
`ImplementsStaged` is the refinement mapping.

**ControlLoop** extends Bridge with one session's `hwm`, the scheduler's
`pending`, the running tick's `batch` and `tickNow`, the clock, and two
observations of the last step (`reply`, `settled`). `ServeOne` takes any command
with any sequence number, so loss, duplication and reordering are in it. A tick
is `TickBegin` and one `TickStep` per held command, because the stages it runs
take time. `serve_one` cannot interleave with a tick (`&mut self`).

**Session** has one issuer and one agent over up to `MaxConn` connections, each
with a new session and guard. `Resend` sends the same signed command again;
`Replay` and `Forge` put old and unauthentic frames on either stream.

**AgentService** has the service thread's program counter, the shutdown flag, the
owner who joins, and per peer what it sent, what is on the wire and what it has
not read. Frames arrive in `FrameLen` pieces in any grouping; a read timeout
keeps `inbuf`; a write waits for room in the peer's window.

**Framing** is the same carrier byte by byte: a length in base `Base` before each
payload, the limit, `decode_frame` on a partial buffer, noise on the wire, and the
ends of the in-memory and of the TLS carrier.

**Trust.** Certificates, revocation lists, keys and signer files are read one at
a time while they are rewritten (a signer file that has gone since the directory was
listed is left out, as `read_dir` leaves it out); the new configuration is swapped in only if all
of it loads and agrees; connections keep the one they took. Two threads may
reload at once. `listed`,
`overlaid`, `alone` and `could` are observations for the properties.

**Agent** follows `main` by `phase`: configuration, control service, substrate,
output, warm-up of the governor, init and start of the modules, then the daemon
loop or one cycle, then stop and join. `BeginRefresh` and `FinishRefresh` are the
manager's schedule, with refreshes that take time; `Collect` is what each module
reads; `EmitOnce` and `EmitIfChanged` are the change gate. `provider` tells the
shipped snapshot, which answers from what it captured, from one that reads the
host.

**Supervision** is `run_bounded`: the shell, a helper that stays in its group or
leaves it, the pipe, the reader, polling, the time limit, and the two gates in front
(enabled, method and host). `kill_tree` is two steps: the external `kill` of the
group, which may be missing or fail without notice (`KillGroup`), and then the kill
of the shell alone (`KillChild`). The code reports both as "timed out"; the model
tells the second one apart, because only the first promises anything of the group.

**EventFile.** A file is a sequence of lines in a slot. `stage` is the call
`write_line` makes next: the flush, one rename after another from the oldest roll to
the base (`RenameRoll`), the open that truncates, the write. Each may fail, and
`Restart`, a crash that loses the buffer, may come between any two. The writer is a
handle that follows its file when it is renamed.

**Monitors** is one of five monitors behind a bounded bus: its table, what it has
received and reported, and the rules as functions of the facts they test.
**Ebpf** puts the probes, rings and pollers below it: `Fork`, `Exec`, `Exit`,
`Connect`, `OpenAt`, `Write` by processes, one `Drain` per ring in any order, with
the enrichment read from the process as it is at that time. **Etw** puts the
Windows callbacks and the file name cache there, and chooses the backend.

**Corr.** `map`, `exited`, `pending` and `chain` are the task's tables; instants
are ages up to the longest window they are compared with. Each handler is an
action with everything it does. Any event may come at any time, again, or never.

**Inventory** has the readers (package paragraphs, registry export, address
ranges, sampled fingerprint) as functions of a `given` input, and the collection
as steps (`pc`) on a host that changes between them: the list of packages and then
one file of libraries at a time, a listener and the name of its process, a runtime's
version and its models, the walk directory by directory. `witnessed` is what a
property may excuse: who served a port, which port changed hands while it was asked
about, which package was upgraded between the list and its file, which file came or
went.

**Versions** has the dpkg, rpm and semantic comparisons and the range test of
advisories; the two loops over a pair of strings are one `Walk` of two cursors over what
a round compares (`DpkgStep`, `RpmStep`) and where it leaves each cursor; **Findings** has matching, compliance, drift and integrity, scores in
integer steps, decisions and grouping, all pure; **Ingest** runs the two programs
step by step (read, correlate, load the store, merge, write and sync the temporary
file, rename it, write the outputs) beside operators, changing hosts and crashes.
What a run renames is its temporary file as it is then, so the store is whole only
if the file was.

**Feed** writes a release file by file, verifies and installs it in the steps of
`store.rs` with a failure or crash between any two, the old content going file by
file, and loads it for the ingest: the required files one after the other, then the
question whether there is an NVD snapshot, then that one. A load is `clean` if the
store was sound when it began and nothing was installed beside it.

Mutants (comment "Mutant:") are the plausible mistakes each property is shown to
catch; no specification uses them.

## 3. The runs

Passing. Grouped properties name their parts in parentheses; each part is a
definition with its own comment.

| Run | Instance | Properties |
|---|---|---|
| `control_loop` | 2 ids (one never drafted), 2 hosts, 5 actors (every role and none), 6 sequence numbers, 2 held, clock 0..2 | LoopTypeOK (with HeldOnce), SeparationOfDuties, LedgerExact (LedgerHonest, LedgerComplete), OneEffect (OneEffectPerCommand, EachGateOnce), KillSwitch, RejectedChangesNothing, Timely (NeverEarly, NeverLate, NothingDueLeft, InTurn) |
| `session` | 2 connections, 2 numbers each, 2 frames under way, tampering | AtMostOnce, NotBricked, BelievedTrue (BelievedApplied, BelievedAnswered), AnsweredOrCut |
| `service` | 2 peers, frames of 2 pieces, window 1, 5 pieces each | ServiceSafe (TypeOK, OneLateFrame, FramesIntact), FrameIsServed, ShutdownReturns |
| `corr` | 2 pids, a suspicious and a harmless image, grace 1, window 2, every table of size 1 | CorrInv (TypeOK, OneContext, OneInstance), JoinNotMissed, HalfKept, NoDuplicates (ReportedOnce, OncePerWindow), OverdueFlushed |
| `agent` | agent: 6 launches, 3 registrations that cover every module, both providers; bridge: 1 action, 3 hosts, 5 drafts; executor: 9 payload calls, 2 in a row, limit 2 polls, pipe of 1, a kill that may fail | Orderly (TypeOK, FailClosed, AllStarted, OrderlyEnd, HeartbeatMetered), NeverStarved, Refreshed (OffStaysOff, RefreshedForever, LiveChangeReported); ApprovalRequired, WithinThreshold, ImplementsStaged; Contained (OnlyThisHost, TimeoutStopsGroup, OutputDrained), CallReturns |
| `sensors` | sensors: 5 monitors, 3 backends, 2 pids, 4 system calls (5 for filemon), rings and bus of 2, tables of 1; file: 8 lines of sizes 1 to 5, limit 4, 3 rolls, 2 faults, 2 crashes; inventory: 3 systems, 2 processes, 2 packages, 3 directories with 2 model files and a link, 2 changes, all inputs of 5 lines | ExecMatched (TableBounded, ExecUsedOnce, RecentExitCorrelated, AttributedToLastExec, OwnExec), EventsReported (LibraryOnce, FlaggedReported, ConnectsInOrder), CacheSound (CacheBounded, WritePathTrue), FileKept (LinesInOrder, OnlyOldestDropped, LastLineKept, FilesBounded), ReadersExact (ParagraphsApart, KeysApart, CidrExact, ChangeSeen), SnapshotTrue (ListenerNamed, RuntimeWhole, LibrariesProvided, WalkBounded, AllFound) |
| `server` | versions: all pairs of strings of up to 3 characters, Linux and semantic; ingest: 2 runs of different programs and 2 sets of options, 1 host in 3 conditions, 1 decision; trust: 2 rewrites, 2 reloads at once, a client; feed: 4 releases, 2 installers (symmetric), 3 installations, 1 fault; frames: 3 sends, 5 payloads up to beyond the limit | VersionsOrdered (DpkgIsOrder, RpmIsOrder, SemverIsOrder, RangeExact), StoreKept (NeverTorn, DecisionStands, OutputsPersisted), HistoryKept (Remembered, RegressionVisible), RiskRanked (NoDoubleCount, FeedSuppressedNotListed, UpgradeOnly, ChainRanksHigher), TrustKept (NeverDisarmed, StaleNeverReturns, ServedWasTrusted), FeedKept (NothingUnverified, MarkerTrue, LoadedWhole), StreamWhole (FramesWhole, EndAfterAll, NeverRefused) |

Why the bounds are enough. Six sequence numbers are the longest straight life of
an action; two held commands are what an order of release or a surviving command
needs; a clock of three values has before, in and after a window. Two connections
let a frame of one session arrive in the next. Frames of two pieces can be cut in
the middle. One action is enough for the bridge because a call touches only its
own id (lemma `Frame`, proved for any ids). Tables of size 1 under two pids reach
every eviction; a window twice the grace has ages at which a half is fresh and a
buffered event overdue. Two refreshes that last as long as their interval starve a
third if the schedule lets them. Two runs, reloads or installers are what
an overlap needs. The event file's lines stay below the limit, reach it, and
exceed it alone, and three rolls with two failing renames leave a gap and fill it.
Versions of three characters hold an epoch, a tilde or a revision beside a digit.
Where the system may stop for good (a stopped task, a bounded channel, a finished
process, all calls made) the configuration turns the deadlock check off; the
control loop can always go on and keeps it.

Violations, each a sentence of the repository that the code does not keep (quoted
in `PROJECT.json` under findings):

| Run | What happens |
|---|---|
| `dropped_but_applied` | `DroppedAppliedNothing`: a scheduled rollback retried from RollbackIncomplete that fails again on one host leaves the state as it was, so `tick` audits it as dropped with nothing applied, though it reverted hosts |
| `shutdown_hangs` | `ShutdownReturns`: no write timeout is set: a peer that does not read blocks the result, the thread and `shutdown` |
| `never_ticked` | `HeldIsReleased`: the agent never calls `AgentControlLoop::tick`; a held command stays held until its connection ends, then vanishes |
| `file_change_missed` | `FileChangeCaught`: the shipped snapshot answers every refresh from what it captured at boot, so a file changed later is never reported |
| `partial_feed` | `NeverPartial`: while a release is installed over another its files are removed one by one; a load that has read the required ones and then finds no NVD snapshot succeeds without it, stamped with a version that has one |

### Seen while modelling, without a run

*Control path.* `tick` reads the clock once, so a command behind a long-running
stage may start after its `not_after` (`scheduler.rs:126-127` says it "NEVER
fires late"); `NeverLate` is about the time the tick has read. A command re-sent
after its answer was lost is refused as stale under the same token, so the issuer
holds a genuine Rejected for a command that ran; `mtls_channel.rs` accepts that. A rollback that fails on one host reverts the others, moves to
RollbackIncomplete and is answered Rejected, which `control-plane/src/lib.rs:415-416`
describes as "The bridge state is unchanged". The automatic rollback of a halted
stage ends in RolledBack, from which `run_rollback` is refused, even when some
hosts did not revert (they stay listed in `applied`, as `LedgerComplete` says). A
call on an unknown id is answered without an audit event. A held command is not
verified again when its key is revoked; `dispatch` verifies an immediate one a second
time, after its number is consumed. The queue of held commands has no cap. One thread serves all connections in turn,
so a silent peer keeps the others waiting. Overlapping reloads can put an older
trust store back in force, and a signer file read in the middle of its rewrite can
be empty, which loads as no keys; `TrustKept` is about reloads that do not overlap.
Nothing in the shipped agent calls `reload_from_dir`. The TLS carrier reports an
end in the middle of a frame as a clean close.

*Executor.* The `kill` of a group is best-effort (`apply.rs:161-176`): if the command
is missing or fails, the shell is killed and the timeout reported all the same, and
what the shell had started goes on. A shell that ends between the last `try_wait` and the deadline is
reported as timed out. A helper that left the group survives a timeout, and a
failed apply may have changed the host, without being listed for a rollback. A
configured limit near the end of the range overflows `Instant::now() + timeout`.

*Agent.* A file that a failed flush left in the writer's buffer may appear later
although its record was counted as dropped, and past the limit, because it was not
counted. A failed rename in a rotation is ignored: of a roll, the next file is renamed
over it; of the base, the open truncates it. Either way lines are lost that are not the
oldest, in silence. `rotate_mb = 0` in the configuration disables rotation, on the
command line it is ignored. The governor's decision is only logged. A module whose
table becomes empty says nothing (netdiscovery, aimodel).

*Sensors.* A context kept since the exit expires while a half that came later is
still in its window (`corr/src/lib.rs:128-134` says the two windows agree). The
drain at an exec attributes buffered events without the comm check of the
module's header. procmon's "a reused pid can never mis-correlate" does not hold
when an exit is lost and the pid is forked anew without an exec. The file name
cache evicts by insertion token, so a path that was refreshed may go before an
older one. ETW connects carry no image, so aiusage attributes none on Windows. The
path of a write is read from `/proc` when the ring is drained, not when it was
made. Sockets and their owners, packages and their libraries, are read by two
calls each: a package upgraded in between is listed in its old version with the
libraries of the new one. The probe of a local model server has a time limit per read and none in
total.

*Server.* The store is loaded, merged and renamed without a lock: of two runs that
overlap the second rename wins, with the findings or the decision of the other
lost; `Remembered` and `DecisionStands` are about runs that do not (`raced`).
Remediation items are grouped before decisions are carried forward, so a
suppressed recurrence still counts. An older batch processed later moves
`last_seen` below `first_seen`. `verify` looks only at the package mapper with the
fixture feed: other findings always verify as fixed, and so does a host that
reports nothing. `torda-ingest` fails a batch on one malformed line,
`findings-from-events` skips it.

*Feed.* A bundle is verified at one read and copied at another. A crash between the
swap of the content and the marker leaves the old marker over new content, and a
load in between cites the wrong snapshot (`crates/feed/src/lib.rs:38-41` says a finding
"always cites which feed snapshot supplied the inputs"); `MarkerTrue` is about a
store no crash or overlap has disturbed since its last clean installation
(`suspect`). A load under way during an installation may also mix files of two
versions (`partial_feed` shows the shorter case). Versions are not monotonic: an older signed bundle installs over a
newer one.

## 4. Fairness

* The control loop has none: `Timely` is about what each tick does and leaves behind,
  however rarely it is called. `never_ticked` shows that the shipped service does not
  call it.
* `Session!FairSpec`: the agent serves frames it received and the issuer reads its
  stream, as `serve_connection` and `await_result` loop on it. Nobody has to
  connect, send or stay.
* `AgentService!FairSpec`: the operating system runs the service thread and the
  joining thread. `ReadingPeersSpec` adds that peers read their results, which the
  code does *not* ensure: the passing run needs it, `shutdown_hangs` drops it.
* `Corr!FairSpec`: the grace timer, an interval in the task's select loop, goes on
  until the task ends. No event has to come.
* `Agent!FairSpec` and `SupFairness`, repeated for the composition in
  `ProcessSpec`: `main` and the manager's task go on, time passes, and the polling
  loop and the reader threads of the executor run. The payload gets no fairness:
  it may print nothing, never end, or leave a helper that keeps the pipe open. No
  signal has to come, and the host has to change for nothing.
* The sensors, the server's programs and the other modules state safety only: a
  ring may never be drained, a run may never finish.

## 5. The proofs

For all values of the constants that satisfy the named assumptions: a finite set
of hosts, drafts that are well-formed actions listing no asset twice, sentinels
outside their sets, natural bounds, a positive frame length and window, trust files
whose first contents load, payloads that are strings of digits, finitely many pids
(they are 32-bit numbers), a grace within the chain window and positive caps, a
clock of natural numbers, lines of a positive size, finitely many runs of the ingest,
hosts whose packages are of the four package managers and whose chains are of the three
rules that end in a connection, scores that are natural numbers, characters whose
code points are bytes other than 0, and, for the inventory, model directories that are
directories and parsed lines whose values are not the sentinel for no value.

* **BridgeProofs.** `BridgeInv` is the type invariant with `GateChain` (in each
  state, who passed the gates before it), `NothingAppliedYet` (before a canary the
  applied set is empty), `LedgerHonest` and `WithinThreshold`. The chain is needed
  because `ApprovalRequired` speaks of post-approval states only while approval is
  reached from PendingApproval; the empty record because the threshold over the
  whole list follows from the two stage rates only if the canary starts from
  nothing. `TypeCorrect`, `ApprovalAlwaysRequired`, `ThresholdAlwaysKept` and
  `LedgerAlwaysHonest` follow, the action properties `TerminalStatesFinal` and
  `ReachIsStaged` use it per step, and `BridgeRefinesStaged` maps every method to a
  step of StagedChange or a stutter.
* **AgentServiceProofs.** The service invariant relates late frames to the program
  counter (none is late while the thread waits at the head of the loop with the
  flag down; after one, the next check ends the connection) and the counters of
  the current connection to those of peers not yet accepted. `ShutdownIsPrompt`,
  `StreamStaysInStep` and `ServiceIsSafe` follow.
* **SequenceFacts** has what the others need of `Filter`, of sequences as sets, and
  of the least number with a property. It is the way to an induction over
  positions: the first position at which a claim fails is named, and the one before
  it contradicts it.
* **ControlLoopProofs** extends the bridge's invariant to the loop. `LoopInv` adds
  `QueueInv` (whatever is held passed the gates, has a consumed number and is held
  once), `PathTaken` (the trail of an action has no state it has not passed),
  `RolesTaken` (every entry was made by somebody whose role permits it) and
  `Untried` (nothing has run for an action without a record), which makes
  `LedgerComplete` inductive here though it is not for the bridge alone: a second
  draft would forget the hosts. Every served or released command is one call of the
  bridge or none, so the gates, the ledger, the refinement of StagedChange and
  `StagedReach` come from the lemmas of BridgeProofs; `KillSwitch`,
  `RejectedChangesNothing` and `OneEffect` are proved per step. `Lined` (what is held is
  in the order of its numbers, what a tick has put back before what it has still to look
  at, and what it has put back was not due) carries `Timely`: `ReleasedInTime`.
* **AgentProofs.** `SupInv` adds to the types `Reaping` (a call is watched exactly
  while its shell has not been reaped) and `Struck` (once the group was killed nothing
  of it is left and nothing forks), and `Contained` is inductive with them.
  `AgentInv` relates `phase` to what is registered, started, scheduled and up;
  `Orderly` and `OffStaysOff` follow. `Slack` makes `NeverStarved` inductive: a
  module that waits is overdue by no more than the refreshes that overtook it, each of
  which is due after it from then on, and what the running one has taken so far.
* **ServerProofs.** *Trust:* `TrustInv` says that what a reload has read was listed
  since it began, that a reload alone on its store has read only what is listed for
  the store, and that a connection already taken could be admitted if its configuration
  admits it; `TrustKept` follows. *Feed:* `FeedInv` has, for each program counter of an
  installer, what is verified, staged or stored (`Progress`), that an
  installation nothing has disturbed is the only one (`Lonely`), that the content is
  suspect while an installation has its hands on it (`Marked`), and that an undisturbed load has read
  from the content its marker names, file by file, all it no longer looks for (`Loading`).
  An installer's step either leaves the content alone or unsettles the load, which is why
  nothing has to be known of loads that overlap one. `FeedKept` follows. *Framing:* `Flow` says that what was sent is what was
  received followed by the payloads into whose frames the bytes under way can be cut
  (`Carries`, by offsets and not by recursion); decoding takes the first of them off
  (`DecodeFirst`), and a partial buffer at the end carries none (`DecodeNone`).
  `StreamWhole` follows for any digits, limit and payloads. *Session:* `SessionInv` adds
  to the types: `Genuine` (an authentic frame on a stream was signed, an authentic
  result answered), `Issued` (tokens belong to sessions that exist), `Spent` (a command
  that ran lies at or below the mark of the current session or in an earlier one) and
  `AnsweredHonestly` (an answer "Applied" means it ran). `Spent` is what makes
  at-most-once inductive across connections. `CommandsRunAtMostOnce`,
  `SessionNotBricked`, `AppliedIsTrue`, `AcceptedIsGenuine`, `BeliefsAreTrue` and
  `SessionTypeCorrect` follow. *Ingest:* `IngestInv` has the findings stamped with the
  host and the flaw they are of (`AllStamped`), that a run which nobody has raced holds
  the store's own content (`NotRaced`), the order of a run's outputs (`OutputOrder`) and
  `DecisionStands`. `NotRaced` is what ties the decision an operator records while a run
  is under way to the store that run will rename into place. `StoreAlwaysKept` and, step
  by step, `HistoryAlwaysKept` follow. `RiskInv` says that the batch a run holds is one
  that hosts can report (`BatchFits`) and that its report closes nothing the feed calls
  unreachable. From the former each mapper's findings have identities of its own
  (`OfMapper`): activity by the class in the flaw's name, posture and packages by where
  they were seen and by which built-in list the rule is in. Nothing else keeps a
  compliance control and a drift entry apart, so it rests on those lists having no
  common name. That the score grows with the reach (`SightRaises`), and that the weights
  of a chain, 90 and more, stay above those of a process or a connection, 70 at most,
  under every context (`WeightTells`), gives `RiskAlwaysRanked`. *Versions:* an order is
  stated as an answer, its opposite the other way round, and `Chained` for three of them.
  Comparisons made one after the other are an order when each of them is (`ThenOrders`),
  so is the first that tells of many (`FirstTells` and what follows from it), and so is a
  walk whose rounds are (`WalkOrders`): at the last place where three walks were not
  chained all three would have gone on, to a place where they are. What is left is each
  comparison by itself: that two runs of digits without leading zeros are ordered by length
  and then by digits, and that a tilde, the end, a caret, letters and digits are ranked
  alike from either side. `DpkgIsTotalOrder`, `RpmIsTotalOrder` and `SemverIsTotalOrder`
  follow, for versions of any length.
* **SensorProofs.** *Monitors and backends:* `SensorTypes` and `InFlight` say that the
  queues between a system call and a monitor are in order and one before the other,
  through rings, pollers, callbacks and the lagging bus. With `Reported` (every handled
  event left what its rule asks for) `EverythingReported` follows. `CacheInv` says that,
  unless a create was lost, the file name cache names no open file wrongly:
  `CacheIsSound`. `LedgerInv` relates the table of pending execs to what was heard: an
  entry is of the last event of its pid, and an eviction is owed to as many other
  pids as the table holds. `LosslessInv` adds that, while no record is lost, an exec and
  the exit heard next are of one process. `ExecsMatched` follows. *Event file:* `FileInv`
  has the order of lines over the slots, the handle and the buffer (`Tidy`); which slots a
  rotation under way has freed, above the one it renames next (`Freed`); the count of bytes
  (`Measured`); and that what is missing is reported, being written or older than all that
  is kept (`Complete`). `Freed` is why a rename that works takes no lines but the oldest,
  and why a crash between two of them costs nothing. `FileAlwaysKept` follows. *Inventory:*
  `SnapshotInv` has that a port is still its process's unless it was seen to pass to
  another (`ListenersHeld`, `RuntimesHeld`), that a package whose file is still to be read
  has the version listed unless it was seen to change (`PackagesCurrent`), and
  `NothingMissed`: every model file that can be reached is listed, has
  gone since, or lies below a directory the walk has still to open (`Covers`).
  Reach is stated by paths, so that a step of the walk takes one directory off a path
  and needs no induction over the tree. `SnapshotAlwaysTrue` follows.
  `ReadersAlwaysExact` follows the parsers line by line: after i lines the fields kept
  are the last ones of the open paragraph and the output lists the closed ones in
  order; the range is exact by division with remainder.
* **CorrProofs.** `CorrIInv` has three parts that no step ties together, so each action
  is three lemmas. `ContextInv`: the ring orders exactly the live contexts and names no
  pid twice, without which an eviction could leave a context behind that nothing
  orders. `PendingTyped`: the buffers. `ChainInv`: the trackers with `OneInstance`,
  `JoinNotMissed` and `Latched`: while a chain is latched one of its halves is no older
  than its report, and otherwise the report is a window old. `Latched` makes
  `OncePerWindow` inductive: it is why the purge of an expired tracker, which forgets
  the latch, cannot let a chain fire twice within a window. `CorrTablesAgree`, `CorrJoinNotMissed`,
  `CorrHalfKept` and `CorrOncePerWindow` follow. `CorrNoDuplicates` adds `ReportedOnce`:
  `CountSplit` says that what a filter keeps and what it leaves are the whole, event by
  event, and each of the three ways out of a buffer (exec, timer, end) is such a split.

What proving changed in the models. Overlapping arms of `CASE` in Agent, which TLC
resolves by order and the semantics does not, were made exclusive; a `could` of Trust
asked for a revocation list even where none is configured; an installer's connection to
the feed was missing from its next-state relation; Corr now says that its set of pids
is finite and its sentinels are apart from the records they stand beside; `Filter`, `Put` and sums
over the fixed set of modules replace library operators that the prover cannot expand. The
parsers of Inventory and the sizes of EventFile are recursive functions instead of folds,
the ingest merges findings by a function, and nested `@`, which the prover resolves to the wrong level,
were written out. The evidence maps of Ingest are functions that take the last
record of an identifier instead of folds, with the same values. The registry property no longer skips a key line without a value. The
loops of Versions are one walk over tables of rounds and moves where each was a recursion
of its own, its folds are the first comparison that tells; digits and letters are known by
their code points and no longer listed, and the limit of u64 is there: an epoch beyond it is
0 and a semantic number beyond it does not parse.

Only model-checked: everything under fairness and whatever uses ENABLED, which are
outside the prover's reach; `VersionsOrdered`, of which the proofs have that each comparison
is a total order, but not that it is the order of the reference keys, whose values are folds
over the string, nor `RangeExact`; and the counterexamples.

## 6. What is not modelled

Cryptography (a signature or digest is what it is of), PEM, TOML and command-line
syntax, payload text, record layouts and audit wording; duplicates in a target
list; several issuers sharing one agent's bridge; panics. Of the network sweep
only the address range: its connecting is I/O. The model server probe and its HTTP
reading are one step that answers or does not. The demonstration programs drive the
components above through one scenario; the benchmark harness and build scripts are
no part of the running system. A restart of the agent loses the bridge: nothing of
it is persisted, so it returns to the initial state of every module; Session has
the part a peer can see, the lost connection.

## 7. What is left

`VersionsOrdered` for all inputs: that the comparisons, total orders by the proofs above,
are those of the reference keys, and with it the range test. The keys would have to be
placed along the string, as the walk's cursors are, and the value of a run of digits
related to its length and first difference.
