---------------------------- MODULE MCVideoCache ----------------------------
(* Instances of VideoCache. *)
EXTENDS VideoCache, TLC

Symmetric == Permutations(Callers)
=============================================================================
