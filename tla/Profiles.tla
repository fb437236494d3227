------------------------------ MODULE Profiles ------------------------------
(***************************************************************************)
(* The closed language of application profiles                             *)
(* (selfsame-app-identity/src/profile.rs) and its discovery at the         *)
(* application's own identifier (discovery.rs,                             *)
(* selfsame-app-identity-net/src/profile.rs).                              *)
(*                                                                         *)
(* A document is a record of what the recogniser tells apart.  An origin   *)
(* is a model value; a URI on it is <<origin, name>>.  A list whose order  *)
(* matters is a sequence, and a code point order is an order of numbers.   *)
(* A digest is injective, so that a document stands for its own digest: it *)
(* is named by its position in Docs.                                       *)
(***************************************************************************)
EXTENDS Naturals, Sequences, FiniteSets, Functions

CONSTANT Docs   \* the documents the application's origin may serve, in order

-----------------------------------------------------------------------------
Entries(s) == {s[i] : i \in DOMAIN s}
\* windows(2) refuses an unsorted list and a duplicate alike.
Ascending(s) == \A i, j \in DOMAIN s : i < j => s[i] < s[j]
Origin(uri) == uri[1]
Sized(s, most) == Len(s) \in 1..most

\* allowedPermissions: on the application's origin, sorted, without duplicates.
PermissionsOK(d) ==
  /\ Sized(d.permissions, 64)
  /\ \A i \in DOMAIN d.permissions : Origin(d.permissions[i]) = Origin(d.app)
  /\ Ascending([i \in DOMAIN d.permissions |-> d.permissions[i][2]])

\* enrollment.requestSigningKeys: no kid twice, and no key under two kids.
KeysOK(d) ==
  /\ Sized(d.keys, 64)
  /\ \A i \in DOMAIN d.keys : Origin(d.keys[i].kid) = Origin(d.app)
  /\ IsInjective([i \in DOMAIN d.keys |-> d.keys[i].kid])
  /\ IsInjective([i \in DOMAIN d.keys |-> d.keys[i].key])

\* mobile_binding: the id spells the members it stands for.
AndroidOK(b) == \E c \in b.certificates : b.id = <<"android", b.package, c>>
AppleOK(b, origin) == Origin(b.returnUri) = origin /\ b.id = <<"apple", b.team, b.bundle, origin>>
WebOK(b, origin) == b.origin = origin /\ b.id = <<"web", origin>>
BindingOK(b, origin) == \/ b.platform = "android" /\ AndroidOK(b)
                        \/ b.platform = "apple" /\ AppleOK(b, origin)
                        \/ b.platform = "web" /\ WebOK(b, origin)
BindingsOK(d) ==
  /\ Len(d.bindings) <= 64
  /\ \A i \in DOMAIN d.bindings : BindingOK(d.bindings[i], Origin(d.app))
  /\ IsInjective([i \in DOMAIN d.bindings |-> d.bindings[i].id])

RelaysOK(d) ==
  /\ Sized(d.relays, 16)
  /\ \A i \in DOMAIN d.relays : d.relays[i].weight \in 1..65535 /\ d.relays[i].priority \in 0..65535
  /\ IsInjective([i \in DOMAIN d.relays |-> d.relays[i].operator])
  /\ IsInjective([i \in DOMAIN d.relays |-> d.relays[i].origin])

ResolversOK(d) ==
  /\ Sized(d.resolvers, 64)
  /\ \A i \in DOMAIN d.resolvers : d.resolvers[i].protocol = "did-crdt-service-v1"
  /\ IsInjective([i \in DOMAIN d.resolvers |-> d.resolvers[i].id])

\* Every bound is positive and under its ceiling; the projection is optional.
Within(age, most) == age \in Nat /\ 0 < age /\ age <= most
RevocationOK(r) ==
  /\ Within(r.lifetime, 2592000)
  /\ Within(r.closureAge, 3600)
  /\ Within(r.sla, 300)
  /\ \A age \in r.projection : Within(age, 3600)

\* The optional capabilities come from a vocabulary of one entry.
CapabilitiesOK(d) == d.capabilities \in {<<>>, <<"credential-v2-account-select/v1">>}

\* ApplicationProfile::recognise: canonical octets, then every member.
Recognised(d) ==
  /\ d.canonical
  /\ d.version = 1
  /\ d.audience = d.app
  /\ PermissionsOK(d) /\ KeysOK(d) /\ BindingsOK(d)
  /\ RelaysOK(d) /\ ResolversOK(d) /\ RevocationOK(d.revocation) /\ CapabilitiesOK(d)

-----------------------------------------------------------------------------
(* Discovery *)

\* What dereferencing the identifier may meet, the document apart.
Responses == {"ok", "unreachable", "redirect", "encoded", "otherType", "notFound"}

\* recognise_profile_response: only a plain 200 of the profile media type, whose
\* document names the identifier that was dereferenced.
RecognisedResponse(response, n, app) ==
  /\ response = "ok"
  /\ Recognised(Docs[n])
  /\ Docs[n].app = app
=============================================================================
