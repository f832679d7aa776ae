------------------------------- MODULE Ingest -------------------------------
(***************************************************************************)
(* Ingest (server/ingest): the mappers that turn a batch of records into   *)
(* findings, the store they persist in, the two programs that run them     *)
(* (torda-ingest and findings-from-events) and the verifier a remediation  *)
(* uses.                                                                   *)
(*                                                                         *)
(* A run is one invocation of a program: it loads the store, computes its  *)
(* report, loads the store again, merges, writes a temporary file, renames *)
(* it and writes its outputs.  Runs interleave, and may fail or be killed  *)
(* at any step.  The hosts change between batches, and an operator decides *)
(* on stored findings.                                                     *)
(*                                                                         *)
(* A record's class is the mapper it is for.  The batch is a set: a host   *)
(* sends at most one posture record of a kind in it.                       *)
(***************************************************************************)
EXTENDS Findings, Collections

CONSTANTS
  Runs,        \* the invocations
  Program,     \* run -> "torda-ingest" or "findings-from-events"
  Hosts,
  Conditions,  \* the states a host can be in
  Host,        \* condition -> [os, comps, loads, acts, snapshot], or Unset: no record
  Overrides, Reported, \* the organisation's policy
  Invocations, \* bound: the sets of flags findings-from-events is tried with
  Osv, Nvd,    \* the files of the advisory bundles, each a sequence of records
  EpssLines, Kev, \* the other snapshots of the enrichment
  MaxDecisions \* bound: decisions of the operator

\* A run starts at a time that is set.
ASSUME IngestAssumption == IsFiniteSet(Runs) /\ Unset \notin Nat

\* A component says which package manager it is from; the chains that end in a
\* connection are the three the correlation module knows; evidence is in range.
ASSUME HostAssumption ==
  \A c \in {Host[k] : k \in Conditions} \ {Unset} :
    /\ \A x \in c.comps : x.source \in {"dpkg", "rpm", "homebrew", "registry"}
    /\ \A a \in c.acts :
         /\ a.class \in {"process", "network", "file", "correlation"}
         /\ a.class = "correlation" /\ Unset \notin ToSet(a.what) =>
              a.rules \subseteq {"suspicious_process_suspicious_connection",
                                "suspicious_process_wrote_file_and_connected",
                                "suspicious_process_read_sensitive_and_connected"}
ASSUME EvidenceAssumption ==
  /\ \A records \in {FlattenSeq(Osv), FlattenSeq(Nvd)} :
       /\ records \in Seq(ToSet(records))
       /\ \A r \in ToSet(records) : r.score \in Nat
  /\ EpssLines \in Seq(ToSet(EpssLines))
  /\ \A l \in ToSet(EpssLines) : l.kind = "row" => l.epss \in Nat

VARIABLES
  current,   \* host -> its condition
  store,     \* the store's file: [whole, findings: id -> finding]
  run,       \* run -> [pc, flags, time, batch, prior, report, merged, temp]
  outputs,   \* [findings, items]: the run that wrote each output last
  persisted, \* runs whose findings have reached the store
  decided,   \* id -> the operator's last decision on it
  raced,     \* some run wrote over a store that changed after it had loaded it
  decisions  \* decisions made

ingestVars == <<current, store, run, outputs, persisted, decided, raced, decisions>>

-----------------------------------------------------------------------------
(* What a program scores with: its advisories, its evidence, its asset context. *)

NoFlaws == [v \in {} |-> Unset]

\* The fixtures of torda-ingest and of the verifier; the versions are stand-ins.
DefaultFeed ==
  <<[name |-> "openssl", version |-> <<"1">>, vuln |-> "CVE-2022-3602",
     key |-> <<"upgrade", "openssl", <<"2">>>>],
    [name |-> "openssh-server", version |-> <<"0">>, vuln |-> "CVE-2024-6387",
     key |-> <<"upgrade", "openssh-server", <<"2">>>>],
    [name |-> "glibc", version |-> <<"1">>, vuln |-> "CVE-2024-2961",
     key |-> <<"upgrade", "glibc", <<"2">>>>]>>

DefaultEnrichment ==
  [v \in {<<"", "CVE-2022-3602">>, <<"", "CVE-2024-6387">>, <<"", "CVE-2024-2961">>} |->
     CASE v[2] = "CVE-2022-3602" -> [cvss |-> 75, epss |-> 4, kev |-> FALSE,
                                     maturity |-> "Functional", vex |-> "Affected"]
       [] v[2] = "CVE-2024-6387" -> [cvss |-> 81, epss |-> 6, kev |-> TRUE,
                                     maturity |-> "Weaponized", vex |-> "Affected"]
       [] v[2] = "CVE-2024-2961" -> [cvss |-> 90, epss |-> 5, kev |-> FALSE,
                                     maturity |-> "Functional", vex |-> "NotAffected"]]

Fixtures ==
  [feed |-> [fixture |-> DefaultFeed, osv |-> <<>>, nvd |-> <<>>],
   enrichment |-> DefaultEnrichment,
   ctx |-> [internet_facing |-> TRUE, criticality |-> "High", compensating_controls |-> FALSE]]

\* The records of a bundle's files, in the order of their names.
LoadOsvSource(files) == FlattenSeq(files)
LoadNvdSource(files) == FlattenSeq(files)

\* parse_maturity: a label it does not know counts for nothing.
ParseMaturity(s) ==
  CASE s = "poc" -> "Poc" [] s = "functional" -> "Functional" [] s = "weaponized" -> "Weaponized"
    [] s = "in_the_wild" -> "InTheWild" [] OTHER -> "None"

\* A map that is filled in order keeps what was put last.
LastIndex(K) == CHOOSE k \in K : \A l \in K : l <= k

\* parse_cvss: of two records of a flaw the later counts.
ParseCvss(records) ==
  [v \in {<<"", r.id>> : r \in ToSet(records)} |->
     LET r == records[LastIndex({k \in DOMAIN records : records[k].id = v[2]})]
     IN  [score |-> r.score, maturity |-> ParseMaturity(r.maturity)]]

\* parse_epss: comments and the header are skipped, and so is no row of data.
ParseEpss(lines) ==
  [v \in {<<"", l.cve>> : l \in {l \in ToSet(lines) : l.kind = "row"}} |->
     lines[LastIndex({k \in DOMAIN lines : lines[k].kind = "row" /\ lines[k].cve = v[2]})].epss]

\* BundledEnrichment: the snapshots joined by flaw.  A flaw in none of them has
\* no evidence; one that is known to be exploited is weaponized, whatever its
\* advisory says.
BundledEnrichment ==
  LET nvd  == ParseCvss(LoadNvdSource(Nvd))
      osv  == ParseCvss(LoadOsvSource(Osv))
      Rated(v) == IF v \in DOMAIN nvd THEN nvd[v]
                  ELSE IF v \in DOMAIN osv THEN osv[v] ELSE [score |-> 0, maturity |-> "None"]
      epss == ParseEpss(EpssLines)
      kev  == {<<"", v>> : v \in Kev}
  IN  [v \in DOMAIN nvd \cup DOMAIN osv \cup DOMAIN epss \cup kev |->
         [cvss |-> Rated(v).score,
          epss |-> IF v \in DOMAIN epss THEN epss[v] ELSE 0,
          kev  |-> v \in kev,
          maturity |-> IF v \in kev THEN "Weaponized" ELSE Rated(v).maturity,
          vex |-> "Affected"]]

DefaultAssetCtx == [internet_facing |-> FALSE, criticality |-> "Normal", compensating_controls |-> FALSE]

\* The sources the flags name; one that is not named is empty.
Inputs(program, flags) ==
  IF program = "torda-ingest" THEN Fixtures
  ELSE [feed |-> [fixture |-> <<>>,
                  osv |-> IF "--osv" \in flags THEN LoadOsvSource(Osv) ELSE <<>>,
                  nvd |-> IF "--nvd" \in flags THEN LoadNvdSource(Nvd) ELSE <<>>],
        enrichment |-> IF "--enrich" \in flags THEN BundledEnrichment ELSE NoFlaws,
        ctx |-> DefaultAssetCtx]

-----------------------------------------------------------------------------
(* Records. *)

Posture(snapshot) ==
  {[class |-> "compliance", records |-> ToRecords(Evaluate(ApplyOverrides(BuiltinControls, Overrides), snapshot), Reported)],
   [class |-> "drift",      records |-> DetectDrift(BuiltinBaseline, snapshot)],
   [class |-> "fim",        records |-> CheckIntegrity(BuiltinWatchlist, snapshot)]}

\* What the host's agent has emitted: its inventory, the libraries loaded, the
\* activity that was seen and the posture that was checked.
Emitted(h) ==
  LET c == Host[current[h]]
  IN  IF c = Unset THEN {}
      ELSE {[host |-> h, body |-> b] :
         b \in {[class |-> "sbom", os |-> c.os, comps |-> c.comps]}
               \cup {[class |-> "load", lib |-> l] : l \in c.loads}
               \cup c.acts \cup Posture(c.snapshot)}

-----------------------------------------------------------------------------
(* Mappers: each takes the records of its class. *)

Of(batch, class) == {e \in batch : e.body.class = class}

\* The policy's weight of a detector; one it does not know has the lowest.
ProcessWeight(rule) ==
  CASE rule \in {"lolbin", "suspicious_path"} -> 40 [] rule = "lolbin_in_suspicious_path" -> 70
    [] rule = "short_lived_suspicious" -> 50 [] OTHER -> 30
NetworkWeight(rule) ==
  CASE rule = "suspicious_port" -> 40 [] rule = "suspicious_port_to_external" -> 70 [] OTHER -> 30
FileWeight(rule) ==
  CASE rule \in {"write_to_system_dir", "write_to_persistence_location", "write_to_sensitive_config"} -> 80
    [] rule = "read_of_sensitive_file" -> 50 [] OTHER -> 30

CorrelationWeight(rule) ==
  CASE rule = "suspicious_process_suspicious_connection" -> 90
    [] rule \in {"suspicious_process_wrote_file_and_connected",
                 "suspicious_process_read_sensitive_and_connected"} -> 95
    [] OTHER -> 30

RuleWeight(class, rule) ==
  CASE class = "process" -> ProcessWeight(rule) [] class = "network" -> NetworkWeight(rule)
    [] class = "file" -> FileWeight(rule)       [] OTHER -> CorrelationWeight(rule)

\* flagged_contribution: a record without a detection is no finding, whatever
\* its halves say, and one without a field of its identity is none either.
Flagged(batch, class) == {e \in Of(batch, class) : e.body.rules # {} /\ Unset \notin ToSet(e.body.what)}
Things(batch, class) == {e.body.what : e \in Flagged(batch, class)}

\* aggregate_*_findings: one finding per host and thing, of its strongest rule;
\* ident gives the flaw's name, the component and the location of each thing.
Aggregate(batch, class, ctx, key, ident) ==
  {LET same == {e \in Flagged(batch, class) : e.host = p[1] /\ e.body.what = p[2]}
       weights == UNION {{RuleWeight(class, r) : r \in e.body.rules} : e \in same}
       id == ident[p[2]]
   IN  WeightedFinding(p[1], id[1], id[2], id[3],
                       CHOOSE w \in weights : \A v \in weights : v <= w, key, ctx)
     : p \in {<<e.host, e.body.what>> : e \in Flagged(batch, class)}}

ProcessFindings(batch, ctx) ==
  Aggregate(batch, "process", ctx, <<"triage-suspicious-process">>,
            [w \in Things(batch, "process") |-> <<<<"process", w[1]>>, w[1], "process">>])
NetworkFindings(batch, ctx) ==
  Aggregate(batch, "network", ctx, <<"triage-suspicious-connection">>,
            [w \in Things(batch, "network") |-> <<<<"network", w[1]>>, w[1], "network">>])
FileActivityFindings(batch, ctx) ==
  Aggregate(batch, "file", ctx, <<"triage-suspicious-file-activity">>,
            [w \in Things(batch, "file") |-> <<<<"file", w[1]>>, w[1], w[1]>>])

\* Mutant: the chain is known by its process alone.
CorrelationFindingsByImage(batch, ctx) ==
  Aggregate(batch, "correlation", ctx, <<"triage-attack-chain">>,
            [w \in Things(batch, "correlation") |-> <<<<"process", w[1]>>, w[1], "process">>])

\* The edge from the process to the destination is the identity of the chain.
CorrelationFindings(batch, ctx) ==
  Aggregate(batch, "correlation", ctx, <<"triage-attack-chain">>,
            [w \in Things(batch, "correlation") |->
               <<<<"correlation", w[1], w[2]>>, w[1], "correlation">>])

\* The records of a posture envelope that fail; one that does not parse is left
\* out alone.
Failing(e, ctx) ==
  {WeightedFinding(e.host, <<"", r.id>>, r.subject, r.location, r.weight, r.key, ctx)
     : r \in {r \in e.body.records : r.bad}}

ComplianceFindings(batch, ctx) == UNION {Failing(e, ctx) : e \in Of(batch, "compliance")}
DriftFindings(batch, ctx) == UNION {Failing(e, ctx) : e \in Of(batch, "drift")}
FimFindings(batch, ctx) == UNION {Failing(e, ctx) : e \in Of(batch, "fim")}

\* detections_from_sbom: the agent's word is sure.
DetectionsFromSbom(batch, feed) ==
  UNION {UNION {{[id |-> FindingIdFor(e.host, <<"", h.vuln>>, c.name, c.source),
                  key |-> h.key, confidence |-> 95]
                   : h \in HitsFor(feed, c.source, e.body.os, c.name, c.version)}
                : c \in e.body.comps} : e \in Of(batch, "sbom")}

\* RuntimeReachability: a package is confirmed where one of its libraries was
\* loaded; a host that reported no load gives no evidence.
RuntimeReachability(batch) ==
  LET loaded == {<<e.host, e.body.lib>> : e \in Of(batch, "load")}
  IN  [withData  |-> {l[1] : l \in loaded},
       confirmed |-> UNION {{<<e.host, c.name>> : c \in
                       {c \in e.body.comps : c.name # Unset /\ \E l \in c.libs : <<e.host, l>> \in loaded}}
                     : e \in Of(batch, "sbom")}]

VulnFindings(batch, in) ==
  EngineRun(DetectionsFromSbom(batch, in.feed), in.enrichment, in.ctx, RuntimeReachability(batch))

Actionable(findings) == {f \in findings : f.status # "Suppressed"}

\* run_all_ingest: every mapper reconciles against what is stored, and the
\* fixes are grouped over the union.
Mapped(batch, in) ==
  [vuln |-> VulnFindings(batch, in), process |-> ProcessFindings(batch, in.ctx),
   network |-> NetworkFindings(batch, in.ctx), file |-> FileActivityFindings(batch, in.ctx),
   correlation |-> CorrelationFindings(batch, in.ctx),
   compliance |-> ComplianceFindings(batch, in.ctx), drift |-> DriftFindings(batch, in.ctx),
   fim |-> FimFindings(batch, in.ctx)]

Reconciled(prior, mapped, now) == UNION {Reconcile(prior, mapped[m], now) : m \in DOMAIN mapped}
Report(findings) == [findings |-> findings, items |-> GroupByFix(Actionable(findings))]
RunAllIngest(batch, in, prior, now) == Report(Reconciled(prior, Mapped(batch, in), now))

\* carry_forward_ops_states, after the items have been grouped.
CarryForward(prior, findings) ==
  {IF f.id \in DOMAIN prior /\ prior[f.id].status \in {"Accepted", "Suppressed"}
   THEN [f EXCEPT !.status = prior[f.id].status] ELSE f : f \in findings}

\* EngineVerifier::verify: fixed iff none of the findings is produced again, by
\* the mapper of inventories with the fixtures.
Verify(ids, hosts) ==
  /\ ids # {}
  /\ ids \cap {f.id : f \in UNION {VulnFindings(Emitted(h), Fixtures) : h \in hosts}} = {}

-----------------------------------------------------------------------------
(* The store. *)

NoFindings == [i \in {} |-> Unset]
ById(findings) == [i \in {f.id : f \in findings} |-> CHOOSE f \in findings : f.id = i]

\* upsert: insert or replace; what is stored and not found again is kept.
Merged(stored, findings) ==
  LET found == ById(findings)
  IN  [i \in DOMAIN found \cup DOMAIN stored |->
         IF i \in DOMAIN found THEN found[i] ELSE stored[i]]

\* A store that changes while other runs are between their load and their rename.
Between == {"loaded", "computed", "merged", "writing", "written"}
Overwrites(r) == \E q \in Runs \ {r} : run[q].pc \in Between

\* A run that is at pc and has forgotten what it no longer needs.
RunAt(pc, flags) == [pc |-> pc, flags |-> flags, batch |-> {}, prior |-> NoFindings, time |-> Unset,
                     report |-> [findings |-> {}, items |-> {}], merged |-> NoFindings, temp |-> "none"]
Stored(r) == "--store" \in run[r].flags
InputsOf(r) == Inputs(Program[r], run[r].flags)

\* The events are read; findings-from-events may be given no store.
ReadBatch(r) ==
  /\ run[r].pc = "idle"
  /\ \E flags \in IF Program[r] = "torda-ingest" THEN {{"--store"}} ELSE Invocations :
       run' = [run EXCEPT ![r] = [RunAt("read", flags) EXCEPT
                 !.batch = UNION {Emitted(h) : h \in Hosts},
                 !.time = Cardinality({q \in Runs : run[q].pc # "idle"}) + 1]]
  /\ UNCHANGED <<current, store, outputs, persisted, decided, raced, decisions>>

\* torda-ingest gives up at a line that does not parse; findings-from-events
\* skips the line.
Malformed(r) ==
  /\ Program[r] = "torda-ingest" /\ run[r].pc = "idle"
  /\ run' = [run EXCEPT ![r] = RunAt("failed", {"--store"})]
  /\ UNCHANGED <<current, store, outputs, persisted, decided, raced, decisions>>

LoadPrior(r) ==
  /\ run[r].pc = "read" /\ Stored(r) /\ store.whole
  /\ run' = [run EXCEPT ![r].pc = "loaded", ![r].prior = store.findings]
  /\ UNCHANGED <<current, store, outputs, persisted, decided, raced, decisions>>

Computed(r, prior, pc) ==
  LET rep == RunAllIngest(run[r].batch, InputsOf(r), prior, run[r].time)
  IN  run' = [run EXCEPT ![r] = [RunAt(pc, run[r].flags) EXCEPT
                !.report = [rep EXCEPT !.findings = CarryForward(prior, @)]]]

Compute(r) ==
  /\ run[r].pc = "loaded" /\ Computed(r, run[r].prior, "computed")
  /\ UNCHANGED <<current, store, outputs, persisted, decided, raced, decisions>>

\* Without a store nothing is known from before.
ComputeStoreless(r) ==
  /\ run[r].pc = "read" /\ ~Stored(r) /\ Computed(r, NoFindings, "stored")
  /\ UNCHANGED <<current, store, outputs, persisted, decided, raced, decisions>>

\* upsert loads the store a second time.
MergeStored(r) ==
  /\ run[r].pc = "computed" /\ store.whole
  /\ run' = [run EXCEPT ![r] = [RunAt("merged", @.flags) EXCEPT
               !.merged = Merged(store.findings, run[r].report.findings)]]
  /\ UNCHANGED <<current, store, outputs, persisted, decided, raced, decisions>>

\* Mutant: one write that may be a short one, and no sync.
WriteTempOnce(r) ==
  /\ run[r].pc = "merged" /\ run' = [run EXCEPT ![r].pc = "written", ![r].temp = "part"]
  /\ UNCHANGED <<current, store, outputs, persisted, decided, raced, decisions>>

\* write_atomic: a temporary file that only this run has is created and being
\* written, ...
WriteTemp(r) ==
  /\ run[r].pc = "merged" /\ run' = [run EXCEPT ![r].pc = "writing", ![r].temp = "part"]
  /\ UNCHANGED <<current, store, outputs, persisted, decided, raced, decisions>>

\* ... all of it is written and synced, ...
SyncTemp(r) ==
  /\ run[r].pc = "writing" /\ run' = [run EXCEPT ![r].pc = "written", ![r].temp = "whole"]
  /\ UNCHANGED <<current, store, outputs, persisted, decided, raced, decisions>>

\* ... and the file, whatever is in it, takes the store's name.
RenameTemp(r) ==
  /\ run[r].pc = "written"
  /\ run' = [run EXCEPT ![r] = RunAt(IF Program[r] = "torda-ingest" THEN "done" ELSE "stored", @.flags)]
  /\ store' = [whole |-> run[r].temp = "whole", findings |-> run[r].merged]
  /\ persisted' = persisted \cup {r}
  /\ raced' = (raced \/ Overwrites(r))
  /\ UNCHANGED <<current, outputs, decided, decisions>>

\* The report is on disk; what is still to be written of it is known by the run.
WriteFindings(r) ==
  /\ run[r].pc = "stored" /\ run' = [run EXCEPT ![r] = RunAt("half", @.flags)]
  /\ outputs' = [outputs EXCEPT !.findings = r]
  /\ UNCHANGED <<current, store, persisted, decided, raced, decisions>>

WriteRemediation(r) ==
  /\ run[r].pc = "half" /\ run' = [run EXCEPT ![r] = RunAt("done", @.flags)]
  /\ outputs' = [outputs EXCEPT !.items = r]
  /\ UNCHANGED <<current, store, persisted, decided, raced, decisions>>

\* An I/O error, or the end of the process, at any step.
Fail(r) ==
  /\ run[r].pc \notin {"idle", "done", "failed"}
  /\ run' = [run EXCEPT ![r] = RunAt("failed", @.flags)]
  /\ UNCHANGED <<current, store, outputs, persisted, decided, raced, decisions>>

-----------------------------------------------------------------------------
(* Around the programs. *)

HostChanges ==
  /\ \E h \in Hosts, c \in Conditions : current' = [current EXCEPT ![h] = c]
  /\ UNCHANGED <<store, run, outputs, persisted, decided, raced, decisions>>

Decision(i, status) ==
  /\ decisions < MaxDecisions /\ decisions' = decisions + 1
  /\ store' = [store EXCEPT !.findings[i].status = status,
                            !.findings[i].closed = IF status = "Closed" THEN 1 ELSE @]
  /\ decided' = Put(decided, i, status)
  /\ raced' = (raced \/ \E q \in Runs : run[q].pc \in Between)
  /\ UNCHANGED <<current, run, outputs, persisted>>

OperatorDecides ==
  \E i \in DOMAIN store.findings, status \in {"Accepted", "Suppressed"} : Decision(i, status)

\* A remediation whose verification says fixed closes its finding.
RemediationCloses ==
  \E i \in DOMAIN store.findings :
    /\ store.findings[i].status \notin {"Accepted", "Suppressed", "Closed"}
    /\ Verify({i}, {AssetOf(i)})
    /\ Decision(i, "Closed")

IngestInit ==
  /\ current \in [Hosts -> Conditions]
  /\ store = [whole |-> TRUE, findings |-> NoFindings]
  /\ run = [r \in Runs |-> RunAt("idle", {})]
  /\ outputs = [findings |-> Unset, items |-> Unset]
  /\ persisted = {} /\ decided = NoFindings /\ raced = FALSE /\ decisions = 0

IngestNext ==
  \/ \E r \in Runs :
       \/ ReadBatch(r) \/ Malformed(r) \/ LoadPrior(r) \/ Compute(r)
       \/ ComputeStoreless(r) \/ MergeStored(r)
       \/ WriteTemp(r) \/ SyncTemp(r) \/ RenameTemp(r) \/ WriteFindings(r) \/ WriteRemediation(r) \/ Fail(r)
  \/ HostChanges \/ OperatorDecides \/ RemediationCloses

IngestSpec == IngestInit /\ [][IngestNext]_ingestVars

-----------------------------------------------------------------------------
(* Properties. *)

\* The batches that were just read, each with what its run scores with.
Fresh == {<<run[r].batch, InputsOf(r)>> : r \in {r \in Runs : run[r].pc = "read"}}

\* Whatever fails and whenever, a temporary file half written too, the store can be
\* read again.
NeverTorn == store.whole

\* The operator's acceptance or suppression stands however often the finding
\* recurs, unless a run had loaded the store before the decision.
DecisionStands ==
  ~raced => \A i \in DOMAIN decided :
              decided[i] # "Closed" => store.findings[i].status = decided[i]

\* Nothing stored disappears, and what was stored keeps the time it was first
\* seen, unless runs overlapped.
Remembered ==
  [][~raced' => \A i \in DOMAIN store.findings :
                  /\ i \in DOMAIN store'.findings
                  /\ store'.findings[i].first = store.findings[i].first]_ingestVars

\* A closed finding that is found again is reopened, or hidden by its feed; it
\* never turns up as merely open.
RegressionVisible ==
  [][~raced' => \A i \in DOMAIN store.findings \cap DOMAIN store'.findings :
                  store.findings[i].status = "Closed" /\ store'.findings[i] # store.findings[i] =>
                    store'.findings[i].status # "Open"]_ingestVars

\* A record is scored by one mapper: no two of them produce the same finding.
NoDoubleCount ==
  \A M \in {Mapped(B[1], B[2]) : B \in Fresh} : \A m, n \in DOMAIN M :
    m # n => {f.id : f \in M[m]} \cap {f.id : f \in M[n]} = {}

\* What ops is told to fix is not what the feed says cannot be reached.
FeedSuppressedNotListed ==
  \A r \in Runs : \A item \in run[r].report.items : \A v \in item.closes :
    LookUp(InputsOf(r).enrichment, v).vex # "NotAffected"

\* Seeing a library loaded never lowers a score, and never revives a finding
\* that the feed suppresses.
UpgradeOnly ==
  \A B \in Fresh :
    LET in == B[2]
        blind == EngineRun(DetectionsFromSbom(B[1], in.feed), in.enrichment, in.ctx, NoReachability)
    IN  \A f \in VulnFindings(B[1], in) : \E g \in blind :
          g.id = f.id /\ g.r <= f.r /\ g.status = f.status

\* A process joined to a connection ranks above the two taken alone, unless the
\* asset's exposure has already raised these to the highest score.
ChainRanksHigher ==
  \A B \in Fresh :
    LET ctx == B[2].ctx IN
    \A c \in CorrelationFindings(B[1], ctx) :
      \A f \in ProcessFindings(B[1], ctx) \cup NetworkFindings(B[1], ctx) :
      c.r > f.r \/ f.r = 100

\* The outputs are of runs whose findings have reached the store, if they use one.
OutputsPersisted ==
  \A r \in {outputs.findings, outputs.items} \ {Unset} : r \in persisted \/ ~Stored(r)

\* Runs that interleave and crash leave a store that can be read, and publish nothing
\* that has not reached it; the operators' decisions are in force as long as no run
\* writes over a store that changed after it had loaded it.
StoreKept == NeverTorn /\ DecisionStands /\ OutputsPersisted

\* No run drops a finding it did not see, nor hides one that is back, as long as no
\* two of them overlap.
HistoryKept == Remembered /\ RegressionVisible

\* The scores of a batch: a record counts once, a library seen loaded only raises a
\* score, a joined chain ranks above its parts, and the feed's word that a flaw cannot
\* be reached keeps it off the list of fixes.
RiskRanked == NoDoubleCount /\ FeedSuppressedNotListed /\ UpgradeOnly /\ ChainRanksHigher
=============================================================================
