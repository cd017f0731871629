---------------------------- MODULE MCAgentTasks ----------------------------
(* Instances of AgentTasks for TLC. *)
EXTENDS AgentTasks, TLC

CONSTANTS developer, tester, k1, q1, q2

\* Two tasks of one agent with the same key, the second from the operator.
TwoTasks == {1, 2}
BothDeveloper == [t \in Tasks |-> developer]
SplitAgents == [t \in Tasks |-> IF t = 1 THEN developer ELSE tester]
NextOwner == [a \in Agents |-> IF tester \in Agents THEN tester ELSE a]
SameKey == [t \in Tasks |-> k1]
NoKeys == [t \in Tasks |-> NoKey]
RequestSymmetry == Permutations(Requests)
=============================================================================
