----------------------------- MODULE MCAttempts -----------------------------
(* Attempts for TLC: attempts, command slots and roots are interchangeable. *)
EXTENDS Attempts, TLC
Symmetry == Permutations(Attempts) \cup Permutations(Procs) \cup Permutations(Roots)
=============================================================================
