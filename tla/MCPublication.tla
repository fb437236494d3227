---------------------------- MODULE MCPublication ----------------------------
(* Publication for TLC: command invocations are interchangeable. *)
EXTENDS Publication, TLC
Symmetry == Permutations(Procs)
=============================================================================
