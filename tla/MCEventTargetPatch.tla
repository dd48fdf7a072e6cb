------------------------- MODULE MCEventTargetPatch -------------------------
(* A small instance of EventTargetPatch: functions are exchangeable, which  *)
(* the checks may use, as all of them are of single states and steps.       *)
EXTENDS EventTargetPatch, TLC

Symmetry == Permutations(Functions)
=============================================================================
