---------------------------- MODULE GauntletSteps ----------------------------
(***************************************************************************)
(* The rows of one Gauntlet workflow and the rules every transaction on    *)
(* them shares: forven/gauntlet/definition.py, models.py, and the helpers  *)
(* of engine.py.  A step is the number of its order_index; the operators   *)
(* take rows, a function from steps to records with a field status.        *)
(***************************************************************************)
EXTENDS Naturals

CONSTANTS Gate,        \* the last step (paper_promotion_gate), hence their number
          DependsOn    \* step -> the steps of its depends_on_json

Steps == 1..Gate

ASSUME StepsAssumption ==
    /\ Gate \in Nat \ {0}
    /\ DependsOn \in [Steps -> SUBSET Steps]
    /\ \A i \in Steps : \A k \in DependsOn[i] : k < i

Terminal == {"passed", "failed_gate", "cancelled"}
Blocked == {"blocked_data", "blocked_runtime", "blocked_operator"}
Retryable == {"blocked_data", "blocked_runtime"}
StepStatus == {"pending", "queued", "running", "passed", "failed_gate", "cancelled"} \cup Blocked
WorkflowStatus == {"pending", "running"} \cup Blocked \cup Terminal

\* _deps_passed
DepsPassed(rows, i) == \A k \in DependsOn[i] : rows[k].status = "passed"

\* _queue_ready_steps
QueueReady(rows) ==
    [i \in Steps |-> IF rows[i].status = "pending" /\ DepsPassed(rows, i)
                     THEN [rows[i] EXCEPT !.status = "queued"] ELSE rows[i]]

\* Mutant: a queued step is taken to be ready.
RunnableIfQueued(rows) == {i \in Steps : rows[i].status = "queued"}

\* The candidates of claim_next_step, which takes the first.
Runnable(rows) ==
    {i \in Steps : rows[i].status \in {"queued", "pending"} /\ DepsPassed(rows, i)}
IsFirst(i, S) == i \in S /\ \A k \in S : i <= k

RunningIn(rows) == {i \in Steps : rows[i].status = "running"}

\* _refresh_workflow_status
Refresh(rows) ==
    LET statuses == {rows[i].status : i \in Steps}
    IN IF statuses \subseteq {"cancelled", "passed"}
       THEN IF "cancelled" \in statuses THEN "cancelled" ELSE "passed"
       ELSE IF "blocked_data" \in statuses THEN "blocked_data"
       ELSE IF "blocked_runtime" \in statuses THEN "blocked_runtime"
       ELSE IF "blocked_operator" \in statuses THEN "blocked_operator"
       ELSE IF "failed_gate" \in statuses THEN "failed_gate"
       ELSE IF "running" \in statuses THEN "running"
       ELSE "pending"

\* The UPDATE of cancel_workflow.
CancelRows(rows) ==
    [i \in Steps |-> IF rows[i].status = "passed" THEN rows[i]
                     ELSE [rows[i] EXCEPT !.status = "cancelled"]]
=============================================================================
