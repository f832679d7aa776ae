------------------------------ MODULE MCAgent ------------------------------
(* The agent process, the bridge its control service runs and the executor    *)
(* the bridge calls.                                                          *)
(* Three of the sequences of modules the agent could register, so that every  *)
(* module runs beside two others, and launches that take each way through main. *)
EXTENDS Agent, Bridge, Supervision

CONSTANTS h1, h2, h3

VARIABLE subject  \* they share no state: the other two stay as they began

Launch(config, daemon, output) ==
  [config |-> config, daemon |-> daemon, output |-> output,
   cpu |-> IF daemon # None THEN 200 ELSE 4, mem |-> None]
Conf(serve, daemon, sink, refresh) ==
  [control |-> serve, daemon |-> daemon, sink |-> sink, refresh |-> refresh]

MCLaunches ==
  {Launch(None, None, None), Launch(None, TRUE, "path"), Launch(Broken, TRUE, None),
   Launch(Conf(TRUE, TRUE, "none", [health |-> 0]), None, None),
   Launch(Conf(TRUE, TRUE, "unknown", <<>>), FALSE, None),
   Launch(Conf(TRUE, FALSE, "stdout", <<>>), None, None)}

MCRegistrations ==
  {<<"asset", "health", "fim">>, <<"vuln", "compliance", "netdiscovery">>,
   <<"drift", "aimodel", "aidiscovery", "procmon">>}

MCContents ==
  [t \in Table |->
     CASE t = "packages"      -> {{"p"}, Fail}
       [] t = "files"         -> {{"f"}, {"g"}}
       [] t = "network_hosts" -> {{}, {"h"}}
       [] t \in {"sshd_config", "login_defs"} -> {Fail}
       [] OTHER               -> {{"r"}}]

\* Two refreshes that last as long as their interval beside a third module.
MCInterval == [m \in Gated |-> IF m \in {"health", "vuln", "compliance"} THEN 1 ELSE 2]
MCCost == [m \in Gated |-> IF m \in {"fim", "vuln", "compliance"} THEN 1 ELSE 0]
MCSamples == {[cpu |-> 1, mem |-> 1], [cpu |-> 9, mem |-> 1]}

-----------------------------------------------------------------------------
(* The bridge on one action, three hosts and one caller. *)

Draft3(n, thr, rb) ==
  [asset_ids |-> <<h1, h2, h3>>, cohort_size |-> n, failure_threshold |-> thr, rollback |-> rb]

\* No targets; a cohort of none (raised to one) with zero tolerance; a cohort
\* of two that tolerates half; a cohort larger than the list, no rollback
\* payload, everything may fail; a negative threshold.
MCDrafts ==
  {[asset_ids |-> << >>, cohort_size |-> 1, failure_threshold |-> 0, rollback |-> TRUE],
   Draft3(0, 0, TRUE), Draft3(2, 50, TRUE), Draft3(9, 100, FALSE),
   [asset_ids |-> <<h2, h1>>, cohort_size |-> 1, failure_threshold |-> -1, rollback |-> TRUE]}

-----------------------------------------------------------------------------
(* Payloads that print more than the pipe holds, that leave a helper in their *)
(* group or out of it, and that do not end.                                   *)

Does(out, left, ends, code) == [out |-> out, helper |-> left, ends |-> ends, code |-> code]
Order(op, method, payload, rollback, target) ==
  [op |-> op, method |-> method, payload |-> payload, rollback |-> rollback, target |-> target]
MCCalls ==
  {Order("apply", "Shell", p, NoPayload, t) :
     p \in {Does(4, "group", TRUE, 0), Does(1, "session", TRUE, 1), Does(4, "group", FALSE, 0)},
     t \in {"h1", "h2"}}
  \cup {Order("rollback", "Shell", Does(1, "none", TRUE, 0), r, "h1") :
          r \in {NoPayload, Does(0, "none", TRUE, 0)}}
  \cup {Order("apply", "Ansible", Does(0, "none", TRUE, 0), NoPayload, "h1")}

-----------------------------------------------------------------------------
processVars == <<subject, vars, bridgeVars, supVars>>

AgentRest == launch = Launch(None, None, None) /\ provider = "captured" /\ Init

ProcessInit ==
  /\ BridgeInit
  /\ \/ subject = "agent" /\ enabled = FALSE /\ SupInit /\ Init
     \/ subject = "bridge" /\ enabled = FALSE /\ SupInit /\ AgentRest
     \/ subject = "apply" /\ AgentRest /\ SupInit

OfAgent(A) == subject = "agent" /\ A /\ UNCHANGED <<subject, bridgeVars, supVars>>
OfBridge(A) == subject = "bridge" /\ A /\ UNCHANGED <<subject, vars, supVars>>
OfApply(A) == subject = "apply" /\ A /\ UNCHANGED <<subject, vars, bridgeVars>>

\* The fairness of FairSpec and of SupFairness.
ProcessSpec ==
  /\ ProcessInit
  /\ [][OfAgent(Next) \/ OfBridge(BridgeNext) \/ OfApply(SupNext)]_processVars
  /\ WF_processVars(OfAgent(Boot)) /\ WF_processVars(OfAgent(BeginRefresh))
  /\ WF_processVars(OfAgent(FinishRefresh)) /\ WF_processVars(OfAgent(Tick))
  /\ WF_processVars(OfAgent(StopNext)) /\ WF_processVars(OfAgent(AfterStop))
  /\ WF_processVars(OfAgent(CloseControl))
  /\ WF_processVars(OfApply(Supervise /\ UNCHANGED enabled))
  /\ WF_processVars(OfApply(Drain /\ UNCHANGED enabled))
=============================================================================
