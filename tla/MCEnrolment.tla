---------------------------- MODULE MCEnrolment ----------------------------
(* Enrolment for TLC: a document, a malformed successor and one that replaces *)
(* the signing key; two offers a tick apart on the same account.              *)
EXTENDS Enrolment, TLC
CONSTANTS o1, o2, Site, Play
MCExpiry == o1 :> 2 @@ o2 :> 3
MCScope == o1 :> "account" @@ o2 :> "account"
Relay == [operator |-> "op", origin |-> "relay", weight |-> 1, priority |-> 0]
Good == [canonical |-> TRUE, version |-> 1, app |-> <<Site, "app">>, audience |-> <<Site, "app">>,
  permissions |-> << <<Site, 1>>, <<Site, 2>> >>,
  keys |-> << [kid |-> <<Site, "k1">>, key |-> "key1"] >>,
  bindings |-> << [platform |-> "web", id |-> <<"web", Site>>, origin |-> Site],
                  [platform |-> "android", id |-> <<"android", Play, "cert">>, package |-> Play,
                   certificates |-> {"cert"}] >>,
  relays |-> <<Relay>>,
  resolvers |-> << [id |-> "r", protocol |-> "did-crdt-service-v1"] >>,
  revocation |-> [lifetime |-> 3600, closureAge |-> 60, sla |-> 60, projection |-> {}],
  capabilities |-> <<>>]
Malformed == [Good EXCEPT !.permissions = << <<Site, 2>>, <<Site, 1>> >>]
Rekeyed == [Good EXCEPT !.keys = << [kid |-> <<Site, "k2">>, key |-> "key2"] >>]
MCBindings == o1 :> {<<"web", Site>>} @@ o2 :> {<<"web", Site>>, <<"android", Play, "cert">>}
MCDocs == <<Good, Malformed, Rekeyed>>
=============================================================================
