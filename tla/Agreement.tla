----------------------------- MODULE Agreement -----------------------------
(***************************************************************************)
(* What a credential/v2 ceremony promises.  Parties consent to terms, an   *)
(* arbiter decides once (for terms everyone consented to, or against), and *)
(* each party may learn the decision but never another one.                *)
(***************************************************************************)
CONSTANTS Parties, Terms, None, Refused

VARIABLES consents,  \* consents[p]: the terms p's person agreed to
          decision,  \* None, Refused, or the terms accepted
          known      \* known[p]: the decision as p has learned it
vars == <<consents, decision, known>>

Outcomes == Terms \cup {None, Refused}

Init == /\ consents = [p \in Parties |-> {}]
        /\ decision = None
        /\ known = [p \in Parties |-> None]

Consent(p, t) == /\ consents' = [consents EXCEPT ![p] = @ \cup {t}]
                 /\ UNCHANGED <<decision, known>>

Accept(t) == /\ decision = None
             /\ \A p \in Parties : t \in consents[p]
             /\ decision' = t
             /\ UNCHANGED <<consents, known>>

Refuse == decision = None /\ decision' = Refused /\ UNCHANGED <<consents, known>>

Learn(p) == /\ decision # None /\ known[p] = None
            /\ known' = [known EXCEPT ![p] = decision]
            /\ UNCHANGED <<consents, decision>>

Next == \/ \E p \in Parties, t \in Terms : Consent(p, t)
        \/ \E t \in Terms : Accept(t)
        \/ Refuse
        \/ \E p \in Parties : Learn(p)

Spec == Init /\ [][Next]_vars

TypeOK == /\ consents \in [Parties -> SUBSET Terms]
          /\ decision \in Outcomes
          /\ known \in [Parties -> Outcomes]
\* No two parties end with different outcomes.
Consistent == \A p \in Parties : known[p] \in {None, decision}
\* What was accepted is what every party's person agreed to.
Consented == decision \in Terms => \A p \in Parties : decision \in consents[p]
=============================================================================
