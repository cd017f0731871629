------------------------- MODULE MCGauntletLifecycle -------------------------
(* GauntletLifecycle for TLC.  The runs with operators use a shorter         *)
(* workflow: the quick screen, both gates and walk_forward between them.     *)
EXTENDS GauntletLifecycle

ShortSteps == <<"quick_screen", "quick_screen_gate", "walk_forward", "paper_promotion_gate">>
ShortDependsOn == <<{}, {1}, {2}, {3}>>
=============================================================================
