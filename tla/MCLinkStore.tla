---------------------------- MODULE MCLinkStore ----------------------------
(* Two devices of one application, or one device of each of two, on one relay. *)
EXTENDS LinkStore, TLC
CONSTANTS app1, app2, relay, c1, c2, c3, d1, d2, r1, r2
MCAppOf == [c \in Ceremonies |-> IF c = c3 THEN app2 ELSE app1]
MCRelayOf == [c \in Ceremonies |-> relay]
MCDevOf == [c \in Ceremonies |-> IF c = c2 THEN d2 ELSE d1]
\* The offer's profile, one that keeps authority and key, and two rotations.
MCOffered == [version |-> 1, authority |-> 1, key |-> 1]
MCProfiles == {MCOffered, [MCOffered EXCEPT !.version = 2],
               [MCOffered EXCEPT !.version = 3, !.authority = 2],
               [MCOffered EXCEPT !.version = 4, !.key = 2]}
\* c1 and c2 differ only in their devices, which are never stored.
Symmetry == Permutations(Roots) \cup Permutations({c1, c2})
=============================================================================
