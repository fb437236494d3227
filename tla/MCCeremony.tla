----------------------------- MODULE MCCeremony -----------------------------
(* Ceremony for TLC: this ceremony and an earlier one of the same account,   *)
(* who joins a room.  A snapshot on which the order of keys and the order   *)
(* of octets disagree builds no offer.                                      *)
EXTENDS Ceremony
CONSTANTS c0, c1, a1, a2, d1, d2, app, origin, handle, key, kid, dev
MCProfile == [application |-> app, relays |-> <<[origin |-> origin]>>, permissions |-> {1, 2},
              keys |-> <<[kid |-> kid, key |-> key]>>, resolvers |-> <<origin>>]
MCCarrier == [application |-> app, origin |-> origin, allocatorKey |-> dev]
MCRequest == [permissions |-> <<1, 2>>, lifetime |-> 600,
              jwk |-> [crv |-> "Ed25519", kty |-> "OKP", x |-> dev]]
MCSigner == [kid |-> kid, key |-> key]
Room(length, rank) == [length |-> length, rank |-> rank]
Rows(rooms) == [handle |-> handle, key |-> key,
                rows |-> [n \in DOMAIN rooms |-> [handle |-> handle, key |-> key, room |-> rooms[n],
                                                 primary |-> PrimaryKey(rooms[n])]]]
MCSnapshotOf == <<Rows(<<Room(1, 1)>>), Rows(<<Room(1, 1), Room(2, 3)>>)>>
ASSUME DisagreementRefused == LET s == Rows(<<Room(1, 4), Room(2, 3)>>) IN
  ~ValidSnapshot(s) /\ ~OfferBuilds(MCProfile, MCCarrier, MCRequest, s)
MCEarlier == [cer |-> c0, account |-> a1, rooms |-> 1]
=============================================================================
