------------------------- MODULE MCTriggerLifecycle -------------------------
(* TriggerLifecycle for TLC: calls and workers are interchangeable where no *)
(* liveness is checked.                                                     *)
EXTENDS TriggerLifecycle, TLC

Symmetry == Permutations(Calls) \cup Permutations(Workers)
=============================================================================
