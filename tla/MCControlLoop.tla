--------------------------- MODULE MCControlLoop ----------------------------
(* One control loop, one action that is really drafted and one that is not. *)
EXTENDS ControlLoop

CONSTANTS h1, h2

\* The canary is h1; half of the targets of a stage may fail.
MCDraft == [asset_ids |-> <<h1, h2>>, cohort_size |-> 1,
            failure_threshold |-> 50, rollback |-> TRUE]
MCDrafts == {MCDraft}

MCRoles == [a \in Actor |-> CASE a = "op" -> "Operator"
                              [] a = "ap" -> "Approver"
                              [] a = "re" -> "Responder"
                              [] a = "ad" -> "Admin"
                              [] OTHER -> "none"]

Cmd(id, kind, actor, window) ==
  [action_id |-> id, kind |-> kind, actor |-> actor, schedule |-> window,
   body |-> IF kind = "Draft" THEN MCDraft ELSE NoDraft, body_id |-> id]

Window(from, to) == [not_before |-> from, not_after |-> to]

\* The lifecycle, immediate stages, and commands no gate lets through.
Immediate ==
  {Cmd("a1", k, "op", NoWindow) : k \in {"Draft", "Submit"} \cup Execution}
    \cup {Cmd("a1", k, "ap", NoWindow) : k \in {"Approve", "Reject", "Canary"}}
    \cup {Cmd("a1", "Abort", "re", NoWindow),
          Cmd("a1", "Approve", "nobody", NoWindow),
          Cmd("a1", "Approve", "op", NoWindow),
          [Cmd("a1", "Draft", "op", NoWindow) EXCEPT !.body_id = "a2"]}

\* Stages with a window, one of them for an action that is never drafted.
Scheduled ==
  {Cmd("a1", "Canary", "op", Window(1, 1)), Cmd("a1", "Rollout", "op", Window(0, 1)),
   Cmd("a1", "Rollback", "op", Window(1, 2)), Cmd("a2", "Canary", "op", Window(1, 1))}

\* The administrator takes part.
ByAdmin == {Cmd("a1", k, "ad", NoWindow) : k \in {"Draft", "Approve"}}

\* One straight path to a rollback, which is then retried in a window.
RetryCommands ==
  {Cmd("a1", k, "op", NoWindow) : k \in {"Draft", "Submit"} \cup Execution}
    \cup {Cmd("a1", "Approve", "ap", NoWindow),
          Cmd("a1", "Rollback", "op", Window(1, 2))}

MCCommands == Immediate \cup Scheduled \cup ByAdmin
=============================================================================
