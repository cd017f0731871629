---------------------------- MODULE ToolBoundary ----------------------------
(***************************************************************************)
(* What the agent runtime promises about the side effects of a task's      *)
(* tools, whatever the queue, the process and the operators do.  A tool is *)
(* "idle" when none runs, "executing" while one runs, and "uncertain" once *)
(* one was cut off before its outcome was recorded.  Nothing leaves        *)
(* "uncertain": a tool that may or may not have acted is never run again   *)
(* by the machine, it waits for a person.                                  *)
(***************************************************************************)
CONSTANT Tasks

VARIABLE boundary

Init == boundary = [t \in Tasks |-> "idle"]

Move(t, from, to) ==
    /\ boundary[t] = from
    /\ boundary' = [boundary EXCEPT ![t] = to]

Execute(t) == Move(t, "idle", "executing")

Record(t) == Move(t, "executing", "idle")

\* One event (a crash, a shutdown, the worker's cancellation pass) may cut off
\* the tools of several tasks at once.
CutOff ==
    \E S \in SUBSET Tasks :
        /\ \A t \in S : boundary[t] = "executing"
        /\ boundary' = [t \in Tasks |->
              IF t \in S THEN "uncertain" ELSE boundary[t]]

Next ==
    \/ \E t \in Tasks : Execute(t) \/ Record(t)
    \/ CutOff

Spec == Init /\ [][Next]_boundary
=============================================================================
