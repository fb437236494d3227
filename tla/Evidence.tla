------------------------------ MODULE Evidence ------------------------------
(***************************************************************************)
(* What the parties of a first enrolment exchange: the offer               *)
(* (selfsame-app-identity/src/ceremony.rs), the hub's signed statement     *)
(* about it (enrollment.rs), the provider hint beside it                   *)
(* (provider_hint.rs), the device grant (grant.rs) and the bundle that     *)
(* carries it back, each with its constructor and its recogniser, and the  *)
(* wallet's decision over them (authorise.rs).                             *)
(*                                                                         *)
(* A digest of a value is the value: an offer digest is the offer's core,  *)
(* a descriptor digest the relay descriptor, a profile digest the          *)
(* document's place in Docs.                                               *)
(***************************************************************************)
EXTENDS Profiles

CONSTANTS Window,      \* MAX_OFFER_WINDOW_SECONDS = MAX_EVIDENCE_WINDOW_SECONDS
          NoHandoff    \* the caller identity where the platform reports none

ASSUME WindowAssumption == Window \in Nat \ {0}

-----------------------------------------------------------------------------
(* The offer *)

\* recognise_offer, beyond the closed set of members: the two members that name
\* the device's key agree, the permissions are sorted, the window is positive
\* and bounded.
RecognisedOffer(offer) ==
  LET core == offer.core IN
  /\ core.deviceDid = core.deviceKey
  /\ core.permissions # <<>>
  /\ Ascending([i \in DOMAIN core.permissions |-> core.permissions[i][2]])
  /\ core.expires > core.issued /\ core.expires - core.issued <= Window

\* EnrolmentAllocator::new_native: everything comes from the caller's own copy
\* of the profile and the caller's own random values.
Core(id, scope, device, n, issued) ==
  [ceremony |-> id, request |-> id, app |-> Docs[n].app, profile |-> n,
   scope |-> scope, deviceDid |-> device, deviceKey |-> device,
   permissions |-> Docs[n].permissions, issued |-> issued, expires |-> issued + Window]

Hint(core, n) == [app |-> core.app, provider |-> Docs[n].relays[1].operator,
                  descriptor |-> Docs[n].relays[1], offer |-> core]

\* ProviderHint::verify: the hint selects among the profile's relays.
HintVerified(hint, d, core) ==
  /\ hint.app = d.app
  /\ \E i \in DOMAIN d.relays : /\ d.relays[i].operator = hint.provider
                                /\ d.relays[i] = hint.descriptor
  /\ hint.offer = core

-----------------------------------------------------------------------------
(* The hub's statement about an offer *)

Statement(core, hint, binding, returnUri) ==
  [request |-> core.request, ceremony |-> core.ceremony, app |-> core.app,
   profile |-> core.profile, scope |-> core.scope, deviceDigest |-> core.deviceKey,
   permissions |-> core.permissions, provider |-> hint.provider,
   descriptor |-> hint.descriptor, offer |-> core, binding |-> binding,
   returnUri |-> returnUri, issued |-> core.issued, expires |-> core.expires]

\* recognise_platform_binding: an id ends in the origin the statement returns to.
BindingSpelled(id, origin) == id[1] \in {"apple", "web"} => id[Len(id)] = origin

\* recognise_payload: every URI of a statement is on its application's origin.
RecognisedStatement(st) ==
  /\ Sized(st.permissions, 64)
  /\ \A i \in DOMAIN st.permissions : Origin(st.permissions[i]) = Origin(st.app)
  /\ Ascending([i \in DOMAIN st.permissions |-> st.permissions[i][2]])
  /\ st.expires > st.issued /\ st.expires - st.issued <= Window
  /\ Origin(st.returnUri) = Origin(st.app)
  /\ BindingSpelled(st.binding, Origin(st.returnUri))

\* recognise and recognise_unsigned: the statement, and a kid on its origin.
RecognisedEvidence(e) == RecognisedStatement(e.statement) /\ Origin(e.kid) = Origin(e.statement.app)

Declared(d, kid, key) == \E i \in DOMAIN d.keys : d.keys[i].kid = kid /\ d.keys[i].key = key

\* sign_enrollment_profile_bound: the kid is declared by the hub's own profile,
\* and the seed derives the key declared under it.
MaySign(st, kid, key, d) ==
  /\ Recognised(d)
  /\ Declared(d, kid, key)
  /\ RecognisedEvidence([statement |-> st, kid |-> kid, key |-> key])

-----------------------------------------------------------------------------
(* enrollment::verify *)

\* The signature, by a key of the authenticated profile alone.
SignedByProfile(e, d) == Declared(d, e.kid, e.key)

\* What the wallet took from the profile and from the ceremony itself.
StatementObserved(st, n, core, hint) ==
  /\ st.app = Docs[n].app /\ st.profile = n
  /\ Entries(st.permissions) \subseteq Entries(Docs[n].permissions)
  /\ st.provider = hint.provider /\ st.descriptor = hint.descriptor

StatementOfProfile(st, core) == st.app = core.app /\ st.profile = core.profile
\* Every member the statement shares with the offer, the digest included.
StatementOfOffer(st, core) ==
  /\ st.scope = core.scope
  /\ st.deviceDigest = core.deviceKey
  /\ st.permissions = core.permissions
  /\ st.request = core.request /\ st.ceremony = core.ceremony
  /\ st.app = core.app /\ st.profile = core.profile
  /\ st.offer = core
  /\ st.issued = core.issued /\ st.expires = core.expires

InWindow(st, t) == t >= st.issued /\ t < st.expires

\* The binding is declared, and the platform reported it where it must.
CallerMatches(st, d, caller) ==
  \E i \in DOMAIN d.bindings :
    LET b == d.bindings[i] IN
    /\ b.id = st.binding
    /\ caller \in {NoHandoff, b.id}
    /\ b.platform = "android" => caller # NoHandoff
    /\ b.platform = "web" => caller = NoHandoff
    /\ b.platform = "apple" => st.returnUri = b.returnUri

Verified(e, n, core, hint, caller, t) ==
  /\ RecognisedEvidence(e)
  /\ SignedByProfile(e, Docs[n])
  /\ StatementObserved(e.statement, n, core, hint)
  /\ StatementOfOffer(e.statement, core)
  /\ InWindow(e.statement, t)
  /\ CallerMatches(e.statement, Docs[n], caller)

-----------------------------------------------------------------------------
(* authorise::authorise: bound is the profile digest of the ceremony. *)

Authorised(offer, n, bound, caller, t) ==
  /\ Recognised(Docs[n])
  /\ n = bound
  /\ RecognisedOffer(offer)
  /\ offer.core.app = Docs[n].app
  /\ t < offer.core.expires
  /\ offer.hint.app = Docs[n].app /\ offer.hint.offer = offer.core
  /\ Verified(offer.evidence, n, offer.core, offer.hint, caller, t)

\* observation_for_enrolment_offer: a code is the unattributed path, open to the
\* web binding only; the provider must be one the fetched profile declares.
ManualPath(offer, n) ==
  /\ HintVerified(offer.hint, Docs[n], offer.core)
  /\ RecognisedEvidence(offer.evidence)
  /\ offer.evidence.statement.binding[1] = "web"

-----------------------------------------------------------------------------
(* The grant and its bundle *)

\* grant::build and issue, for the account of the offer's scope; the token is
\* drawn for the ceremony.
Grant(offer, n, t) ==
  LET core == offer.core  issuer == <<core.app, core.scope>>  id == <<issuer, "grant", core.ceremony>> IN
  [id |-> id, issuer |-> issuer, token |-> core.ceremony,
   device |-> core.deviceDid, cnf |-> core.deviceKey,
   app |-> core.app, aud |-> core.app, account |-> <<"stable", core.scope>>,
   permissions |-> core.permissions,
   status |-> <<[type |-> "did-crdt", purpose |-> "revocation",
                 id |-> <<issuer, "status", core.ceremony>>, credential |-> id]>>,
   from |-> t, until |-> t + Docs[n].revocation.lifetime]

\* recognise_status: the entry in the issuer's closure agrees with the grant in
\* issuer, token and id; a projection entry may stand beside it.
RecognisedStatus(g) ==
  /\ Len(g.status) \in 1..2
  /\ g.status[1] = [type |-> "did-crdt", purpose |-> "revocation",
                    id |-> <<g.issuer, "status", g.token>>, credential |-> g.id]
  /\ Len(g.status) = 2 => g.status[2].type = "bitstring" /\ g.status[2].purpose = "revocation"

\* grant::recognise, beyond the closed sets of members: one issuer, application
\* and device throughout, never a readable alias, sorted permissions, a window.
RecognisedGrant(g) ==
  /\ g.id = <<g.issuer, "grant", g.token>>
  /\ g.from < g.until
  /\ g.account[1] = "stable"
  /\ g.permissions # <<>> /\ Ascending([i \in DOMAIN g.permissions |-> g.permissions[i][2]])
  /\ g.aud = g.app
  /\ RecognisedStatus(g)
  /\ g.device = g.cnf

\* build_bundle: the identifiers are the offer's.
Bundle(offer, grant) ==
  [ceremony |-> offer.core.ceremony, request |-> offer.core.request, grant |-> grant]

\* bundle_matches_offer.
BundleMatches(bundle, core) ==
  bundle.ceremony = core.ceremony /\ bundle.request = core.request

\* build_offer: the hint is held against the caller's own profile; the evidence
\* is recognised, and not compared with the offer it is put beside.
MayBuildOffer(core, e, n) ==
  /\ Recognised(Docs[n])
  /\ HintVerified(Hint(core, n), Docs[n], core)
  /\ RecognisedEvidence(e)
  /\ RecognisedOffer([core |-> core])
=============================================================================
