-------------------------- MODULE MCLivePositions ---------------------------
(* Instances of LivePositions for TLC. *)
EXTENDS LivePositions

CONSTANTS a1, a2

\* Every trade on the master wallet; one trade on each of two books.
OneAccount == [t \in Trades |-> a1]
TwoAccounts == LET first == CHOOSE t \in Trades : TRUE
               IN  [t \in Trades |-> IF t = first THEN a1 ELSE a2]

=============================================================================
