---------------------------- MODULE MCLinkScreens ----------------------------
(* Instances of LinkScreens for TLC. *)
EXTENDS LinkScreens, TLC
MCSymmetry == Permutations(Tasks)
=============================================================================
