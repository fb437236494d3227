--------------------------- MODULE MCLivePairing ---------------------------
(* LivePairing for TLC: two invitations, so that one start meets another.  *)
(* The wallet holds one application that lists both origins, or also a     *)
(* second one that lists the first; the application has since kept or      *)
(* rotated its roster.  The second transfer is for another device.         *)
EXTENDS LivePairing
CONSTANTS i1, i2, app, other, op, dev, foreign, acct
Descriptor(i) == [origin |-> i, operator |-> op, digest |-> 1, loopback |-> FALSE]
Both == {Descriptor(i1), Descriptor(i2)}
MCRosters == {[a \in {app} |-> Both],
              [a \in {app, other} |-> IF a = app THEN Both ELSE {Descriptor(i1)}]}
MCCurrent == [relays : {Both, {[d EXCEPT !.digest = 2] : d \in Both}},
              permissions : {{"read"}, {"read", "write"}}]
MCWallet == [application |-> app, origin |-> i1, device |-> dev, account |-> acct,
             permissions |-> <<"read">>]
Transfer(device) ==
  [application |-> app, origin |-> i1, recipient |-> device, scope |-> "read",
   grant |-> [application |-> app, device |-> device, account |-> acct,
              permissions |-> <<"read">>]]
MCTransfers == [i \in {i1, i2} |-> Transfer(IF i = i1 THEN dev ELSE foreign)]
MCPolicy == [forbidden |-> {}, approved |-> {1}, loopback |-> FALSE]
=============================================================================
