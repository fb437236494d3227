----------------------------- MODULE MCSessions -----------------------------
(* Sessions for TLC: two resolvers, a lasting and a short-lived grant. *)
EXTENDS Sessions
CONSTANTS g1, g2, r1, r2, s1
MCFrom == [g \in Grants |-> 0]
MCUntil == (g1 :> 9) @@ (g2 :> 1)
MCProfile == <<r1, r2>>
=============================================================================
