----------------------------- MODULE Acceptance -----------------------------
(***************************************************************************)
(* When a grant is accepted: the predicate of                              *)
(* crates/selfsame-app-identity/src/accept.rs with its four callers in     *)
(* path_b.rs, the agreement of resolver closures, and the succession and   *)
(* projection rules.  A grant is a model value.  What its octets decide    *)
(* alone (steps 1-3, 6-8 and 12: size, signature, fields, permissions)     *)
(* holds of every grant here; what depends on time, on what the resolvers  *)
(* served and on the account host is below.  Of a refusal's reason only    *)
(* the fact is kept: every caller in src/ collapses it.                    *)
(***************************************************************************)
EXTENDS Naturals, Integers, Sequences, FiniteSetsExt, SequencesExt

CONSTANTS Grants, From, Until,      \* grants and their validity windows
          Profile,                  \* the declared state resolvers, in order
          MaxClosureAge, PropagationSla, MaxGrantLifetime, Skew,
          Never,                    \* UnixSeconds::MAX as an age
          None

Resolvers == Range(Profile)
MinimumResolverQuorum == 1
Earliest(a, b) == IF a < b THEN a ELSE b

-----------------------------------------------------------------------------
(* Closures: an issuer's history is a sequence of signed operations *)

Ops == [op : {"genesis", "alias", "deactivate"}] \cup [op : {"revoke"}, id : Grants]
Does(history, op) == Contains(history, [op |-> op])
RevokedIn(history) == {g \in Grants : Contains(history, [op |-> "revoke", id |-> g])}

\* replay_resolver_closure, replay_closure: only a verified history that starts
\* with the genesis is an observation.
Replays(history) == history # <<>> /\ history[1] = [op |-> "genesis"]
Observation(r, history, at) ==
  [resolver |-> r, deactivated |-> Does(history, "deactivate"),
   alias |-> Does(history, "alias"), revoked |-> RevokedIn(history), at |-> at]

\* union_resolver_revocations: declared resolvers, each once, enough of them.
Quorum(obs) == /\ \A o \in obs : o.resolver \in Resolvers
               /\ \A o, p \in obs : o.resolver = p.resolver => o = p
               /\ Cardinality(obs) >= MinimumResolverQuorum
UnionRevocations(obs) == UNION {o.revoked : o \in obs}
\* agree_closures: every fact but the revocations is the same.
Agree(obs) == /\ Quorum(obs)
              /\ \A o, p \in obs : o.deactivated = p.deactivated /\ o.alias = p.alias
Agreed(obs) == LET first == CHOOSE o \in obs : TRUE IN
  [deactivated |-> first.deactivated, alias |-> first.alias,
   revoked |-> UnionRevocations(obs), oldest |-> Min({o.at : o \in obs})]
IssuerStateOf(agreed, now) ==
  [deactivated |-> agreed.deactivated, alias |-> agreed.alias, revoked |-> agreed.revoked,
   age |-> IF now >= agreed.oldest THEN now - agreed.oldest ELSE Never]

-----------------------------------------------------------------------------
(* One closure: what a resolver answered, and what may stand in for it *)

Answers == {"closure", "refused", "not-found", "silent"}
\* Only a resolver that said nothing at all counts as unreachable.
OutcomeOf(answer) == CASE answer = "closure" -> "resolved"
                       [] answer = "silent" -> "unreachable"
                       [] OTHER -> "reached"
\* The issuer's own bundled history stands in for nobody who answered, and only
\* where the grant has never been accepted.
BundleIsAdmissible(outcomes, acceptance) == "reached" \notin outcomes /\ acceptance = "first"
\* The first resolver of the profile with a usable closure decides; bundled is
\* a set of at most one history.
ResolveClosure(answers, served, bundled, acceptance) ==
  LET usable == SelectSeq(Profile, LAMBDA r : answers[r] = "closure")
  IN IF usable # <<>> THEN {served[Head(usable)]}
     ELSE IF BundleIsAdmissible({OutcomeOf(answers[r]) : r \in Resolvers}, acceptance)
          THEN {h \in bundled : Replays(h)} ELSE {}

\* issuer_publication_plan: the deterministic identity, the creation first.
IssuerPublicationPlan == <<[op |-> "genesis"], [op |-> "alias"]>>
\* publish_issuer_identity counts a resolver that acknowledged the whole plan;
\* a negative or lost answer does not say the delta was not stored.
MayAcknowledge(held) == held >= Len(IssuerPublicationPlan)
\* complete_approved signs a grant once some resolver acknowledged the plan and
\* the issuer, resolved afresh and never from a bundle, is alive and linked back.
GrantConstructible(acked, answers, served) ==
  /\ acked # {}
  /\ \E h \in ResolveClosure(answers, served, {}, "repeat") :
       Does(h, "alias") /\ ~Does(h, "deactivate")

-----------------------------------------------------------------------------
(* The predicate *)

SessionEstablishmentBound == Earliest(MaxClosureAge, PropagationSla)
StatusUnbounded(g, issuer, bound) == g \notin issuer.revoked
Status(g, issuer, bound) == issuer.age <= bound /\ g \notin issuer.revoked
Validity(g, now, skew) == /\ now + skew >= From[g]
                          /\ now - skew < Until[g]
                          /\ Until[g] - From[g] <= MaxGrantLifetime
Reciprocal(jrd, issuer) == jrd = TRUE /\ issuer.alias
AcceptGrant(g, issuer, now, skew) == /\ ~issuer.deactivated
                                     /\ Status(g, issuer, SessionEstablishmentBound)
                                     /\ Validity(g, now, skew)

\* The challenge a proof answers: bound to the session and to the grant's hash.
MatchesBinding(challenge, s, g) == challenge.session = s /\ challenge.grant = g

VerifySessionEstablishment(g, issuer, jrd, challenge, s, now) ==
  /\ AcceptGrant(g, issuer, now, Skew) /\ Reciprocal(jrd, issuer)
  /\ MatchesBinding(challenge, s, g)
RehydrateVerifiedGrant(g, issuer, jrd, now, skew) ==
  AcceptGrant(g, issuer, now, skew) /\ Reciprocal(jrd, issuer)
VerifyInactiveStaging(g, issuer, now) == AcceptGrant(g, issuer, now, Skew)
\* verify_credential_v2_inactive_staging over the history of one named resolver,
\* stamped with the verifier's own clock.
VerifyStagingOver(g, r, history, now) ==
  /\ Replays(history) /\ Agree({Observation(r, history, now)})
  /\ VerifyInactiveStaging(g, IssuerStateOf(Agreed({Observation(r, history, now)}), now), now)
\* verify_path_b_peer: state of the future is refused, and so is a bundle.
VerifyPathBPeer(g, issuer, jrd, now) ==
  issuer.age >= 0 /\ RehydrateVerifiedGrant(g, issuer, jrd, now, Skew)
\* check_standing: steps 10 to 12.  A deactivated issuer is not looked for.
VerifyStanding(g, issuer, now) ==
  Status(g, issuer, MaxClosureAge) /\ Validity(g, now, Skew)

\* standing_cache_expiry: how long a positive verdict may be reused.
StandingCacheExpiry(g, now) ==
  IF Until[g] <= now THEN None ELSE Earliest(Until[g], now + PropagationSla)

\* verified_revocation_union: the agreed revocations of a live issuer.
RevocationsUsable(obs) == Agree(obs) /\ ~Agreed(obs).deactivated

\* The wallet's cbcl_v2_reload_verify over one fetch of its own, without skew.
ReloadOutcome(g, obs, jrd, now) ==
  IF ~Quorum(obs) THEN "unavailable"
  ELSE IF ~Agree(obs) THEN "refused"
  ELSE LET issuer == IssuerStateOf(Agreed(obs), now) IN
       IF /\ Reciprocal(jrd, issuer) /\ g \notin issuer.revoked
          /\ RehydrateVerifiedGrant(g, issuer, jrd, now, 0)
       THEN "usable" ELSE "revoked"

-----------------------------------------------------------------------------
(* Succession: an identity is deactivated only when nothing outstanding is left *)

GrantStatus(g, history, now) == [revoked |-> g \in RevokedIn(history), expired |-> now >= Until[g]]
MayDeactivateSome(outstanding) == \E st \in outstanding : st.revoked \/ st.expired
MayDeactivateOutgoing(outstanding) ==
  outstanding # None /\ \A st \in outstanding : st.revoked \/ st.expired
=============================================================================
