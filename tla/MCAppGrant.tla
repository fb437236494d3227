----------------------------- MODULE MCAppGrant -----------------------------
(* AppGrant for TLC: two offers that expire one tick apart. *)
EXTENDS AppGrant, TLC
CONSTANTS o1, o2
MCExpiry == o1 :> 1 @@ o2 :> 2
Symmetry == Permutations(Procs)
=============================================================================
