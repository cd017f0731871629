-------------------------- MODULE MCGauntletEngine --------------------------
(* GauntletEngine for TLC: every step depends on the one before it, and    *)
(* drivers are interchangeable.                                            *)
EXTENDS GauntletEngine, TLC

Chain == [i \in 1..Gate |-> IF i = 1 THEN {} ELSE {i - 1}]
DriverSymmetry == Permutations(Drivers)
=============================================================================
