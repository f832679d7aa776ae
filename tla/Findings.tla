------------------------------ MODULE Findings ------------------------------
(***************************************************************************)
(* The findings engine (server/findings-engine) and the posture checks     *)
(* whose records it scores (crates/compliance).                            *)
(*                                                                         *)
(* Weights and likelihoods are integers: a weight, a score and a CVSS      *)
(* score over 100, the other factors over 10.  A finding's id is the tuple *)
(* of its identity; no name contains the separator finding_id_for puts     *)
(* between the four.                                                       *)
(***************************************************************************)
EXTENDS Versions

CONSTANT Unset  \* a timestamp or an override that is not set

-----------------------------------------------------------------------------
(* Scoring and decision. *)

ExploitMaturityWeight(m) ==
  CASE m = "None" -> 0 [] m = "Poc" -> 4 [] m = "Functional" -> 7
    [] m = "Weaponized" -> 9 [] m = "InTheWild" -> 10

ReachGate(vex) == CASE vex = "Affected" -> 10 [] vex = "Unknown" -> 3 [] vex = "NotAffected" -> 0

CriticalityWeight(c) ==
  CASE c = "CrownJewel" -> 15 [] c = "High" -> 12 [] c = "Normal" -> 9 [] c = "Low" -> 5

ExposureFactor(ctx) ==
  (IF ctx.internet_facing THEN 14 ELSE 8) \div (IF ctx.compensating_controls THEN 2 ELSE 1)

AtMost(n, m) == IF n > m THEN m ELSE n
AtLeast(n, m) == IF n < m THEN m ELSE n

\* recompute_score_with_reach: every factor from the feed and the asset, none
\* from the source's own label; rounded to a whole percentage.
RecomputeScore(enr, ctx, reach) ==
  LET likelihood == AtMost(AtLeast(enr.epss, ExploitMaturityWeight(enr.maturity)), 10)
      raw == AtMost(enr.cvss, 100) * (40 + 6 * likelihood)
             * ExposureFactor(ctx) * CriticalityWeight(ctx.criticality) * reach
  IN  AtMost((raw + 50000) \div 100000, 100)

RecomputeComplianceScore(weight, ctx) ==
  AtMost((AtMost(weight, 100) * ExposureFactor(ctx) * CriticalityWeight(ctx.criticality) + 50)
           \div 100, 100)

\* A known-exploited flaw within reach is acted on whatever its score.
Decide(r, kev, reach) ==
  CASE (kev /\ reach > 0) \/ r >= 70 -> "Act"
    [] ~(kev /\ reach > 0) /\ r \in 40..69 -> "Attend"
    [] ~(kev /\ reach > 0) /\ r \in 20..39 -> "Track"
    [] OTHER -> "Defer"

SlaHours(decision) ==
  CASE decision = "Act" -> 48 [] decision = "Attend" -> 336
    [] decision = "Track" -> 720 [] decision = "Defer" -> 2160

UnknownEnrichment == [cvss |-> 0, epss |-> 0, kev |-> FALSE, maturity |-> "None", vex |-> "Unknown"]

-----------------------------------------------------------------------------
(* Findings. *)

FindingIdFor(host, vuln, component, location) == <<host, vuln, component, location>>
AssetOf(id) == id[1]
VulnOf(id) == id[2]
ComponentOf(id) == id[3]

\* A finding as it is built, before reconcile stamps it.
NewFinding(id, key, r, decision, status) ==
  [id |-> id, key |-> key, r |-> r, decision |-> decision, sla |-> SlaHours(decision),
   status |-> status, first |-> Unset, last |-> Unset, closed |-> Unset]

\* weighted_finding: scored from the policy's weight.
WeightedFinding(host, vuln, component, location, weight, key, ctx) ==
  LET r == RecomputeComplianceScore(weight, ctx)
  IN  NewFinding(FindingIdFor(host, vuln, component, location), key, r,
                 Decide(r, FALSE, 10), "Open")

\* correlate: one finding per identity, with the fix of its surest detection.
\* Detections of one identity come from one advisory, with one fix.
Correlate(detections) ==
  {CHOOSE d \in detections : d.id = i /\ \A e \in detections : e.id = i => e.confidence <= d.confidence
     : i \in {d.id : d \in detections}}

\* The injected sources: enrichment is a function on the flaws it has evidence
\* for; reach tells the hosts with run-time data and what was seen loaded there.
\* There is one asset context, the default: none of the programs has another.
LookUp(enrichment, vuln) ==
  IF vuln \in DOMAIN enrichment THEN enrichment[vuln] ELSE UnknownEnrichment
HasData(reach, host) == host \in reach.withData
Confirmed(reach, id) == <<AssetOf(id), ComponentOf(id)>> \in reach.confirmed
NoReachability == [withData |-> {}, confirmed |-> {}]

\* What was seen loaded at run time raises an unknown reach, and lowers none.
EffectiveReach(id, vex, reach) ==
  IF HasData(reach, AssetOf(id)) /\ Confirmed(reach, id) /\ vex = "Unknown"
  THEN 10 ELSE ReachGate(vex)

\* Engine::run.
EngineRun(detections, enrichment, ctx, reach) ==
  {LET enr == LookUp(enrichment, VulnOf(c.id))
       g == EffectiveReach(c.id, enr.vex, reach)
       r == RecomputeScore(enr, ctx, g)
   IN  NewFinding(c.id, c.key, r, Decide(r, enr.kev, g),
                  IF enr.vex = "NotAffected" THEN "Suppressed" ELSE "Open")
     : c \in Correlate(detections)}

\* Mutant: a closed finding that recurs is open again.
ReconcileOpens(prior, fresh, now) ==
  {[f EXCEPT !.first = IF f.id \in DOMAIN prior /\ prior[f.id].first # Unset
                       THEN prior[f.id].first ELSE now,
             !.last = now]
     : f \in fresh}

\* reconcile: what was seen before keeps the time it was first seen, and what was
\* closed is reopened.
Reconcile(prior, fresh, now) ==
  {[f EXCEPT !.first = IF f.id \in DOMAIN prior /\ prior[f.id].first # Unset
                       THEN prior[f.id].first ELSE now,
             !.last = now,
             !.status = IF @ = "Open" /\ f.id \in DOMAIN prior
                           /\ prior[f.id].status = "Closed" THEN "Reopened" ELSE @]
     : f \in fresh}

\* group_by_fix: one item per fix, as risky as the worst of its findings.
GroupByFix(findings) ==
  {LET members == {f \in findings : f.key = k}
   IN  [key    |-> k,
        risk   |-> CHOOSE n \in {f.r : f \in members} : \A f \in members : f.r <= n,
        closes |-> {VulnOf(f.id) : f \in members},
        assets |-> {AssetOf(f.id) : f \in members}]
     : k \in {f.key : f \in findings}}

-----------------------------------------------------------------------------
(* Posture: a snapshot is a function from the tables that were collected to   *)
(* their rows.  A table that was not collected skips what is checked in it.   *)

Rule(id, table, subject, location, weight, key) ==
  [id |-> id, table |-> table, subject |-> subject, location |-> location,
   weight |-> weight, key |-> key]

BuiltinControls ==
  {Rule("sshd-root-login-disabled", "sshd_config", "sshd_config", "/etc/ssh/sshd_config",
        80, <<"set", "PermitRootLogin=no">>),
   Rule("telnet-not-installed", "packages", "telnet", "package-manager", 60, <<"remove", "telnet">>),
   Rule("password-max-days", "login_defs", "login.defs", "/etc/login.defs",
        50, <<"set", "PASS_MAX_DAYS<=365">>)}

\* apply_overrides: an organisation may turn a control off or weigh it anew.
ApplyOverrides(controls, overrides) ==
  {IF c.id \in DOMAIN overrides /\ overrides[c.id].weight # Unset
   THEN [c EXCEPT !.weight = overrides[c.id].weight] ELSE c
     : c \in {c \in controls : c.id \in DOMAIN overrides => overrides[c.id].enabled}}

ControlPasses(id, rows) ==
  CASE id = "sshd-root-login-disabled" ->
         SelectSeq(rows, LAMBDA r : r.key = "PermitRootLogin" /\ r.value = "no") # <<>>
    [] id = "telnet-not-installed" -> SelectSeq(rows, LAMBDA r : r.name = "telnet") = <<>>
    [] id = "password-max-days" ->
         LET days == SelectSeq(rows, LAMBDA r : r.key = "PASS_MAX_DAYS")
         IN  days # <<>> /\ Head(days).value \in Int /\ Head(days).value <= 365

\* evaluate, and the record of each result.
Evaluate(controls, snapshot) ==
  {[id |-> c.id, subject |-> c.subject, location |-> c.location, weight |-> c.weight,
    key |-> c.key, bad |-> ~ControlPasses(c.id, snapshot[c.table])]
     : c \in {c \in controls : c.table \in DOMAIN snapshot}}

BuiltinBaseline ==
  {[expected |-> "3.0.14", entry |-> Rule("openssl-pinned", "packages", "openssl", "packages", 70,
                                          <<"upgrade", "openssl=3.0.14">>)],
   [expected |-> "absent", entry |-> Rule("telnet-absent", "packages", "telnet", "packages", 60,
                                          <<"remove", "telnet">>)]}

\* A value that differs or is missing, or a package that should not be there.
Drifted(b, rows) ==
  LET matched == SelectSeq(rows, LAMBDA r : r.name = b.entry.subject)
  IN  IF b.expected = "absent" THEN matched # <<>>
      ELSE matched = <<>> \/ Head(matched).version # b.expected

\* detect_drift.
DetectDrift(baseline, snapshot) ==
  {LET e == b.entry
   IN  [id |-> e.id, subject |-> e.subject, location |-> e.location, weight |-> e.weight,
        key |-> e.key, bad |-> Drifted(b, snapshot[e.table])]
     : b \in {b \in baseline : b.entry.table \in DOMAIN snapshot}}

BuiltinWatchlist ==
  {[id |-> "fim-sshd-config", path |-> "/etc/ssh/sshd_config", expected |-> "digest1",
    weight |-> 80, key |-> <<"restore", "/etc/ssh/sshd_config">>],
   [id |-> "fim-passwd", path |-> "/etc/passwd", expected |-> "digest2",
    weight |-> 90, key |-> <<"investigate", "/etc/passwd">>]}

\* A watched file that is not listed, is gone or has another digest.
Tampered(w, rows) ==
  LET matched == SelectSeq(rows, LAMBDA r : r.path = w.path)
  IN  matched = <<>> \/ ~Head(matched).exists \/ Head(matched).sha256 # w.expected

\* check_integrity.
CheckIntegrity(watchlist, snapshot) ==
  {[id |-> w.id, subject |-> w.path, location |-> "filesystem", weight |-> w.weight,
    key |-> w.key, bad |-> Tampered(w, snapshot["files"])]
     : w \in {w \in watchlist : "files" \in DOMAIN snapshot}}

\* The controls of each framework.
Framework(root, telnet, days) ==
  [c \in {"sshd-root-login-disabled", "telnet-not-installed", "password-max-days"} |->
     CASE c = "sshd-root-login-disabled" -> root [] c = "telnet-not-installed" -> telnet
       [] c = "password-max-days" -> days]

AllFrameworks ==
  ("CIS"         :> Framework({"CIS-5.2.8", "CIS-5.2.10"}, {"CIS-2.3.1"}, {"CIS-5.4.1.1"})) @@
  ("NIST 800-53" :> Framework({"AC-6", "AC-17"}, {"CM-7"}, {"IA-5"})) @@
  ("PCI-DSS"     :> Framework({"7.2.1"}, {"2.2.4"}, {"8.3.9"})) @@
  ("HIPAA"       :> Framework({"164.312(a)(1)"}, {"164.312(e)(1)"}, {"164.308(a)(5)"})) @@
  ("SOC 2"       :> Framework({"CC6.1"}, {"CC6.6"}, {"CC6.1"})) @@
  ("ISO 27001"   :> Framework({"A.8.2"}, {"A.8.20"}, {"A.5.17"})) @@
  ("DISA STIG"   :> Framework({"SRG-OS-000480"}, {"SRG-OS-000095"}, {"SRG-OS-000076"}))

\* to_records: what a result counts for, in the frameworks the organisation reports.
ToRecords(results, reported) ==
  {[id |-> x.id, subject |-> x.subject, location |-> x.location, weight |-> x.weight,
    key |-> x.key, bad |-> x.bad,
    frameworks |->
      {<<f, AllFrameworks[f][x.id]>> :
         f \in {f \in reported \cap DOMAIN AllFrameworks : x.id \in DOMAIN AllFrameworks[f]}}]
     : x \in results}
=============================================================================
