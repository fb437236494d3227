------------------------------- MODULE Offers -------------------------------
(***************************************************************************)
(* What the hub checks before there is an offer core                       *)
(* (crates/selfsame-pairing/src/credential_v2.rs, and the allocation that  *)
(* selfsame-beam/src/credential_v2.rs recognises), as pure operators on a  *)
(* profile, a carrier, a request and a snapshot of the account's rooms.    *)
(* A permission, and a room's octets, are their rank in octet order; sizes *)
(* of texts and the members of encodings are left out.                     *)
(***************************************************************************)
EXTENDS Naturals, Sequences, FiniteSets

Ascending(ranks) == \A n \in 1..(Len(ranks) - 1) : ranks[n] < ranks[n + 1]

\* exactly one descriptor of this application's profile has the carrier's origin
SelectsDescriptor(profile, carrier) ==
  /\ profile.application = carrier.application
  /\ Cardinality({n \in DOMAIN profile.relays : profile.relays[n].origin = carrier.origin}) = 1

MaxPermissions == 4
RecognisePermissions(profile, permissions) ==
  /\ Len(permissions) \in 1..MaxPermissions
  /\ \A n \in DOMAIN permissions : permissions[n] \in profile.permissions
  /\ Ascending(permissions)

RecogniseDeviceJwk(jwk) ==
  DOMAIN jwk = {"crv", "kty", "x"} /\ jwk.crv = "Ed25519" /\ jwk.kty = "OKP"

\* recognise_credential_v2_profile: what the hub allocates a carrier from
RecogniseAllocation(profile, carrier, request) ==
  /\ SelectsDescriptor(profile, carrier)
  /\ RecognisePermissions(profile, request.permissions)
  /\ RecogniseDeviceJwk(request.jwk)

-----------------------------------------------------------------------------
(* The locked snapshot: the account's member row and its rooms.            *)

\* the primary key of a row is the length of its room, the room, the handle
PrimaryKey(room) == <<room.length, room.rank>>
KeyBefore(a, b) == a[1] < b[1] \/ (a[1] = b[1] /\ a[2] < b[2])

MaxRows == 256
\* validate_snapshot: rows of this handle and key alone, strictly in the order of
\* their primary keys, and their rooms strictly in the order of their octets.
ValidSnapshot(s) ==
  /\ Len(s.rows) <= MaxRows
  /\ \A n \in DOMAIN s.rows : /\ s.rows[n].handle = s.handle /\ s.rows[n].key = s.key
                              /\ s.rows[n].primary = PrimaryKey(s.rows[n].room)
  /\ \A n \in 1..(Len(s.rows) - 1) : KeyBefore(s.rows[n].primary, s.rows[n + 1].primary)
  /\ Ascending([n \in DOMAIN s.rows |-> s.rows[n].room.rank])

RoomSet(s) == [n \in DOMAIN s.rows |-> s.rows[n].room]
MigrationSnapshot(s) == <<s.handle, s.key, s.rows>>
Transition(s) == [kind |-> "path-a-to-b", handle |-> s.handle, keyDigest |-> s.key,
                  rooms |-> RoomSet(s), roomSet |-> RoomSet(s),
                  snapshot |-> MigrationSnapshot(s)]
ParseTransition(t) ==
  /\ DOMAIN t = {"kind", "handle", "keyDigest", "rooms", "roomSet", "snapshot"}
  /\ t.kind = "path-a-to-b"

-----------------------------------------------------------------------------
(* The core and the keys that may sign for it.                             *)

MinLifetime == 300
MaxLifetime == 600
\* prepare_offer_core refuses everything else.
OfferBuilds(profile, carrier, request, s) ==
  /\ SelectsDescriptor(profile, carrier)
  /\ carrier.allocatorKey = request.jwk.x
  /\ request.lifetime \in MinLifetime..MaxLifetime
  /\ RecognisePermissions(profile, request.permissions)
  /\ ValidSnapshot(s)

\* recognise_prepared_offer: the core that is about to be signed is read again
RecognisePrepared(profile, carrier, request, s) ==
  /\ SelectsDescriptor(profile, carrier)
  /\ RecognisePermissions(profile, request.permissions)
  /\ ParseTransition(Transition(s))

\* the first key of that name is the one that signs
SigningKeyDeclared(keys, kid, key) ==
  \E n \in DOMAIN keys : /\ keys[n] = [kid |-> kid, key |-> key]
                         /\ \A m \in 1..(n - 1) : keys[m].kid # kid

\* replay_carried_resolver_closure: the closure a command carries replays, under
\* the profile's first resolver, to the issuer the command names.
ReplayCarriedClosure(profile, closure, did) == profile.resolvers # <<>> /\ closure = did
=============================================================================
