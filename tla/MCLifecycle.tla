---------------------------- MODULE MCLifecycle -----------------------------
(* Instances of Lifecycle for TLC.                                          *)
EXTENDS Lifecycle, TLC

CONSTANTS house, barn

Alike == Permutations(Nvrs)
=============================================================================
