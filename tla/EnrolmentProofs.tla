-------------------------- MODULE EnrolmentProofs --------------------------
(***************************************************************************)
(* TLAPS proofs about device-grant issuance and first enrolment, for any   *)
(* offers, documents, keys, bindings, expiries and command invocations and *)
(* any ledger bound.  The first half is about AppGrant by itself.  Every   *)
(* step of an enrolment is a step of AppGrant or leaves it alone, so that  *)
(* what is shown there holds in the second half as well; the rest of the   *)
(* invariant follows the offer from its allocator to the grant in the      *)
(* device's hands.                                                         *)
(***************************************************************************)
EXTENDS Enrolment, TLAPS

-----------------------------------------------------------------------------
(* Issuance: the inductive invariant *)

\* A running command works for an offer and read its instant in the past; one
\* about to write to a slot has read which one.
ProcOK(p) ==
  procs[p].pc # "idle" =>
    /\ procs[p].cer \in Offers
    /\ procs[p].from <= now
    /\ procs[p].pc \in {"announce", "deliver"} => procs[p].did \in Offers

\* p is between the consumption of o's request id and the hold.
Signing(p, o) == procs[p].pc \in {"sign", "ask", "hold"} /\ procs[p].cer = o

\* Something was made of o's request id.
Used(o) == \/ issuance = o
           \/ released[o] > 0
           \/ signatures[o] > 0
           \/ \E p \in Procs : Signing(p, o)

\* What was used is remembered for as long as the offer lives.
Remembered == \A o \in Offers : Used(o) /\ now < Expiry[o] => o \in ledger

\* While o lives, the right to release a bundle for it is in one place: a
\* command on its way to the hold, the pending slot, or spent.
OneToken(o) ==
  /\ \A p, q \in Procs : Signing(p, o) /\ Signing(q, o) => p = q
  /\ \A p \in Procs : Signing(p, o) => issuance # o /\ released[o] = 0
  /\ issuance = o => released[o] = 0

\* Who delivers or records trust has released, and has delivered an enrolment.
DeliveryOK(p) ==
  /\ procs[p].pc \in {"context", "deliver", "trust"} => released[procs[p].cer] > 0
  /\ procs[p].pc \in {"context", "deliver"} => procs[p].kind = "enrol"
  /\ procs[p].pc = "deliver" => procs[p].did = procs[p].cer
  /\ procs[p].pc = "trust" /\ procs[p].kind = "enrol" =>
       <<procs[p].cer, procs[p].cer>> \in bundles

IInv == /\ TypeOK
        /\ \A p \in Procs : ProcOK(p)
        /\ Remembered
        /\ \A o \in Offers : now < Expiry[o] => OneToken(o)
        /\ ReleaseOnce
        /\ \A p \in Procs : DeliveryOK(p)
        /\ DeliveryHonest

-----------------------------------------------------------------------------
(* The Session, the ledger and every command begin empty. *)
LEMMA InitIInv == Init => IInv
<1> SUFFICES ASSUME Init PROVE IInv
  OBVIOUS
<1> USE OfferAssumption DEF Init
<1>1. TypeOK BY DEF TypeOK, ProcState, Steps, Kinds, Idle
<1>2. \A p \in Procs : procs[p].pc = "idle" BY DEF Idle
<1>3. \A o \in Offers : issuance # o /\ released[o] = 0 /\ signatures[o] = 0 OBVIOUS
<1>4. \A o \in Offers : ~Used(o) /\ OneToken(o) BY <1>2, <1>3 DEF Used, OneToken, Signing
<1>5. ReleaseOnce BY <1>3 DEF ReleaseOnce
<1>6. DeliveryHonest BY DEF DeliveryHonest, DeliveredOwn, TrustEarned
<1> QED BY <1>1, <1>2, <1>4, <1>5, <1>6 DEF IInv, ProcOK, DeliveryOK, Remembered

-----------------------------------------------------------------------------
(* What the three updates of a command's record do *)

(* A command that starts has a fresh record stamped with the clock. *)
LEMMA StartIs ==
  ASSUME TypeOK, NEW p \in Procs, NEW step \in Steps, NEW o \in Offers, NEW k \in Kinds,
         Start(p, step, o, k)
  PROVE  /\ procs' \in [Procs -> ProcState]
         /\ \A x \in Procs \ {p} : procs'[x] = procs[x]
         /\ procs'[p].pc = step /\ procs'[p].cer = o /\ procs'[p].kind = k
         /\ procs'[p].from = now
<1> DEFINE q == [Idle EXCEPT !.pc = step, !.cer = o, !.kind = k, !.from = now]
<1>1. q \in ProcState BY DEF TypeOK, ProcState, Idle
<1>2. procs' = [procs EXCEPT ![p] = q] BY DEF Start
<1>3. q.pc = step /\ q.cer = o /\ q.kind = k /\ q.from = now BY DEF Idle
<1> QED BY <1>1, <1>2, <1>3 DEF TypeOK

(* A command that goes on keeps everything but its place. *)
LEMMA GoToIs ==
  ASSUME TypeOK, NEW p \in Procs, NEW step \in Steps, GoTo(p, step)
  PROVE  /\ procs' \in [Procs -> ProcState]
         /\ \A x \in Procs \ {p} : procs'[x] = procs[x]
         /\ procs'[p] = [procs[p] EXCEPT !.pc = step]
<1>1. procs[p] \in ProcState BY DEF TypeOK
<1>2. [procs[p] EXCEPT !.pc = step] \in ProcState BY <1>1 DEF ProcState
<1>3. procs' = [procs EXCEPT ![p] = [procs[p] EXCEPT !.pc = step]] BY DEF GoTo
<1> QED BY <1>2, <1>3 DEF TypeOK

(* A command that ends is idle. *)
LEMMA EndIs ==
  ASSUME TypeOK, NEW p \in Procs, End(p)
  PROVE  /\ procs' \in [Procs -> ProcState]
         /\ \A x \in Procs \ {p} : procs'[x] = procs[x]
         /\ procs'[p].pc = "idle"
<1>1. Idle \in ProcState BY DEF ProcState, Steps, Kinds, Idle
<1>2. procs' = [procs EXCEPT ![p] = Idle] BY DEF End
<1> QED BY <1>1, <1>2 DEF TypeOK, Idle

-----------------------------------------------------------------------------
(* Steps that sign, release and record nothing *)

\* The places a command may go to without having consumed or released.
Quiet == {"idle", "keep", "consume", "read", "announce"}

(* A step that only moves commands to quiet places, empties the pending slot
   or lets time pass keeps the invariant. *)
LEMMA QuietKeeps ==
  ASSUME IInv, TypeOK', issuance' \in {issuance, None}, now <= now',
         UNCHANGED <<ledger, trust, signatures, released, bundles>>,
         \A x \in Procs : \/ procs'[x] = procs[x]
                          \/ procs'[x].pc \in Quiet /\ ProcOK(x)'
  PROVE  IInv'
<1> USE DEF IInv, Quiet
<1>1. \A x \in Procs : ProcOK(x)' BY DEF TypeOK, ProcState, ProcOK
<1>2. \A x \in Procs, o \in Offers : Signing(x, o)' => Signing(x, o) BY DEF Signing
<1>3. \A o \in Offers : Used(o)' => Used(o) BY <1>2, OfferAssumption DEF Used
<1>4. \A o \in Offers : now' < Expiry[o] => now < Expiry[o] BY OfferAssumption DEF TypeOK
<1>5. Remembered' BY <1>3, <1>4 DEF Remembered
<1>6. \A o \in Offers : now' < Expiry[o] => OneToken(o)'
  BY <1>2, <1>4, OfferAssumption DEF OneToken
<1>7. ReleaseOnce' BY DEF ReleaseOnce
<1>8. \A x \in Procs : DeliveryOK(x)' BY DEF DeliveryOK
<1>9. DeliveryHonest' BY DEF DeliveryHonest, DeliveredOwn, TrustEarned
<1> QED BY <1>1, <1>5, <1>6, <1>7, <1>8, <1>9

(* Starting an enrolment, keeping its context, starting a preparation. *)
LEMMA StartingKeeps ==
  ASSUME IInv, NEW p \in Procs, NEW o \in Offers,
         EnrolStart(p, o) \/ HeldPrepare(p, o) \/ EnrolPrepare(p)
  PROVE  IInv'
<1>1. PICK e \in Offers, s \in {"keep", "consume"}, k \in Kinds : Start(p, s, e, k)
  BY DEF IInv, TypeOK, EnrolStart, HeldPrepare, EnrolPrepare, Kinds
<1>2. UNCHANGED <<Session, Stored, now, Effects>>
  BY DEF EnrolStart, HeldPrepare, EnrolPrepare
<1>3. /\ procs' \in [Procs -> ProcState]
      /\ \A x \in Procs \ {p} : procs'[x] = procs[x]
      /\ procs'[p].pc = s /\ procs'[p].cer = e /\ procs'[p].from = now
  BY <1>1, StartIs DEF IInv, Steps
<1>4. TypeOK' BY <1>2, <1>3 DEF IInv, TypeOK, Session, Stored, Effects
<1>5. procs'[p].pc \in Quiet /\ ProcOK(p)' BY <1>2, <1>3 DEF IInv, TypeOK, ProcOK, Quiet
<1>6. now <= now' BY <1>2 DEF IInv, TypeOK
<1> QED BY <1>2, <1>3, <1>4, <1>5, <1>6, QuietKeeps DEF Session, Stored, Effects

(* Steps that end a command and write at most a context, or an issuer. *)
LEMMA EndingKeeps ==
  ASSUME IInv, NEW p \in Procs, EnrolKeep(p) \/ Refused(p)
  PROVE  IInv'
<1>1. End(p) /\ UNCHANGED <<issuance, Stored, now, Effects>>
  BY DEF EnrolKeep, Refused, Session
<1>2. enrolment' \in Offers \cup {None}
  BY DEF IInv, TypeOK, ProcOK, EnrolKeep, Refused, Session
<1>3. /\ procs' \in [Procs -> ProcState]
      /\ \A x \in Procs \ {p} : procs'[x] = procs[x]
      /\ procs'[p].pc = "idle"
  BY <1>1, EndIs DEF IInv
<1>4. TypeOK' BY <1>1, <1>2, <1>3 DEF IInv, TypeOK, Stored, Effects
<1>5. procs'[p].pc \in Quiet /\ ProcOK(p)' BY <1>3 DEF ProcOK, Quiet
<1>6. now <= now' BY <1>1 DEF IInv, TypeOK
<1> QED BY <1>1, <1>3, <1>4, <1>5, <1>6, QuietKeeps DEF Stored, Effects

(* cbcl_enrol_prepare reads the pending issuer and may go on to announce it. *)
LEMMA ReadIssuerKeeps ==
  ASSUME IInv, NEW p \in Procs, ReadIssuer(p)
  PROVE  IInv'
<1>1. UNCHANGED <<Session, Stored, now, Effects>> BY DEF ReadIssuer
<1>2. procs[p] \in ProcState /\ procs[p].cer \in Offers /\ procs[p].from <= now
  BY DEF IInv, TypeOK, ProcOK, ReadIssuer
<1>3. CASE issuance = None
  <2>1. /\ procs' \in [Procs -> ProcState]
        /\ \A x \in Procs \ {p} : procs'[x] = procs[x]
        /\ procs'[p].pc = "idle"
    BY <1>3, EndIs DEF IInv, ReadIssuer
  <2>2. TypeOK' BY <1>1, <2>1 DEF IInv, TypeOK, Session, Stored, Effects
  <2>3. procs'[p].pc \in Quiet /\ ProcOK(p)' BY <2>1 DEF ProcOK, Quiet
  <2> QED BY <1>1, <2>1, <2>2, <2>3, QuietKeeps DEF IInv, TypeOK, Session, Stored, Effects
<1>4. CASE issuance # None
  <2> DEFINE q == [procs[p] EXCEPT !.pc = "announce", !.did = issuance]
  <2>1. procs' = [procs EXCEPT ![p] = q] BY <1>4 DEF ReadIssuer
  <2>2. issuance \in Offers BY <1>4 DEF IInv, TypeOK
  <2>3. q \in ProcState /\ q.pc = "announce" /\ q.did \in Offers
        /\ q.cer = procs[p].cer /\ q.from = procs[p].from
    BY <1>2, <2>2 DEF ProcState, Steps
  <2>4. TypeOK' BY <1>1, <2>1, <2>3 DEF IInv, TypeOK, Session, Stored, Effects
  <2>5. procs'[p].pc \in Quiet /\ ProcOK(p)'
    BY <1>1, <1>2, <2>1, <2>3 DEF IInv, TypeOK, ProcOK, Quiet
  <2>6. \A x \in Procs \ {p} : procs'[x] = procs[x] BY <2>1 DEF IInv, TypeOK
  <2> QED BY <1>1, <2>4, <2>5, <2>6, QuietKeeps DEF IInv, TypeOK, Session, Stored, Effects
<1> QED BY <1>3, <1>4

(* put_announce writes a slot nothing else of the wallet depends on. *)
LEMMA AnnounceKeeps ==
  ASSUME IInv, NEW p \in Procs, Announce(p)
  PROVE  IInv'
<1>1. End(p) /\ UNCHANGED <<Session, Stored, now, signatures, released, bundles>>
  BY DEF Announce
<1>2. <<procs[p].did, procs[p].cer>> \in Offers \X Offers
  BY DEF IInv, TypeOK, ProcOK, Announce
<1>3. announced' \subseteq Offers \X Offers BY <1>2 DEF IInv, TypeOK, Announce
<1>4. /\ procs' \in [Procs -> ProcState]
      /\ \A x \in Procs \ {p} : procs'[x] = procs[x]
      /\ procs'[p].pc = "idle"
  BY <1>1, EndIs DEF IInv
<1>5. TypeOK' BY <1>1, <1>3, <1>4 DEF IInv, TypeOK, Session, Stored
<1>6. procs'[p].pc \in Quiet /\ ProcOK(p)' BY <1>4 DEF ProcOK, Quiet
<1> QED BY <1>1, <1>4, <1>5, <1>6, QuietKeeps DEF IInv, TypeOK, Session, Stored

(* The root comes and goes, the application restarts, time passes. *)
LEMMA WorldKeeps ==
  ASSUME IInv, Forget \/ Create \/ Restart \/ Tick
  PROVE  IInv'
<1>1. Idle \in ProcState /\ Idle.pc = "idle" BY DEF ProcState, Steps, Kinds, Idle
<1>2. \A x \in Procs : procs'[x] = procs[x] \/ procs'[x].pc = "idle"
  BY <1>1 DEF IInv, TypeOK, Forget, Create, Restart, Tick
<1>3. \A x \in Procs : procs'[x] = procs[x] \/ (procs'[x].pc \in Quiet /\ ProcOK(x)')
  BY <1>2 DEF ProcOK, Quiet
<1>4. now <= now' /\ now' \in Nat
  BY DEF IInv, TypeOK, Forget, Create, Restart, Tick
<1>5. TypeOK'
  BY <1>1, <1>4 DEF IInv, TypeOK, Forget, Create, Restart, Tick, Session, Stored, Effects
<1> QED BY <1>3, <1>4, <1>5, QuietKeeps
        DEF Forget, Create, Restart, Tick, Session, Stored, Effects

-----------------------------------------------------------------------------
(* From the request id to the bundle *)

(* replay::consume: an id that is not in the pruned ledger has not been used,
   because the instant it is pruned by lies in the past. *)
LEMMA ConsumeKeeps ==
  ASSUME IInv, NEW p \in Procs, Consume(p)
  PROVE  IInv'
<1> DEFINE o == procs[p].cer
<1>1. /\ procs[p].pc = "consume" /\ o \in Offers /\ procs[p].from <= now
      /\ procs[p] \in ProcState
  BY DEF IInv, TypeOK, ProcOK, Consume
<1>2. UNCHANGED <<Session, hasRoot, trust, now, Effects>> BY DEF Consume
<1>3. CASE End(p)
  <2>1. /\ procs' \in [Procs -> ProcState]
        /\ \A x \in Procs \ {p} : procs'[x] = procs[x]
        /\ procs'[p].pc = "idle"
    BY <1>3, EndIs DEF IInv
  <2>2. \A x \in Offers : x \in ledger /\ now < Expiry[x] => x \in ledger'
    BY <1>1, OfferAssumption DEF IInv, TypeOK, ProcState, Consume, LiveAt
  <2>3. ledger' \subseteq Offers BY <1>1 DEF IInv, TypeOK, Consume, LiveAt
  <2>4. TypeOK' BY <1>2, <2>1, <2>3 DEF IInv, TypeOK, Session, Effects
  <2>5. \A x \in Procs : ProcOK(x)' BY <1>2, <2>1 DEF IInv, ProcOK
  <2>6. \A x \in Procs, e \in Offers : Signing(x, e)' => Signing(x, e) BY <2>1 DEF Signing
  <2>7. Remembered' BY <1>2, <2>2, <2>6 DEF IInv, Remembered, Used, Session, Effects
  <2>8. \A e \in Offers : now' < Expiry[e] => OneToken(e)'
    BY <1>2, <2>6 DEF IInv, OneToken, Session, Effects
  <2>9. ReleaseOnce' /\ DeliveryHonest' /\ \A x \in Procs : DeliveryOK(x)'
    BY <1>2, <2>1 DEF IInv, ReleaseOnce, DeliveryHonest, DeliveredOwn, TrustEarned, DeliveryOK, Effects
  <2> QED BY <2>4, <2>5, <2>7, <2>8, <2>9 DEF IInv
<1>4. CASE GoTo(p, "sign") /\ Recordable(o, procs[p].from)
           /\ ledger' = LiveAt(procs[p].from) \cup {o}
  <2>1. /\ procs' \in [Procs -> ProcState]
        /\ \A x \in Procs \ {p} : procs'[x] = procs[x]
        /\ procs'[p] = [procs[p] EXCEPT !.pc = "sign"]
    BY <1>4, GoToIs DEF IInv, Steps
  <2>2. procs'[p].pc = "sign" /\ procs'[p].cer = o /\ procs'[p].from = procs[p].from
    BY <1>1, <2>1 DEF ProcState
  <2>3. o \in ledger' /\ \A x \in Offers : x \in ledger /\ now < Expiry[x] => x \in ledger'
    BY <1>1, <1>4, OfferAssumption DEF IInv, TypeOK, ProcState, LiveAt
  <2>4. now < Expiry[o] => ~Used(o)
    BY <1>1, <1>4, OfferAssumption
    DEF IInv, TypeOK, ProcState, Remembered, Recordable, LiveAt
  <2>5. TypeOK' BY <1>1, <1>2, <1>4, <2>1 DEF IInv, TypeOK, LiveAt, Session, Effects
  <2>6. \A x \in Procs : ProcOK(x)' BY <1>1, <1>2, <2>1, <2>2 DEF IInv, ProcOK
  <2>7. \A x \in Procs, e \in Offers : Signing(x, e)' <=> Signing(x, e) \/ (x = p /\ e = o)
    BY <1>1, <2>1, <2>2 DEF Signing
  <2>8. Remembered' BY <1>2, <2>3, <2>7 DEF IInv, Remembered, Used, Session, Effects
  <2>9. \A e \in Offers : now' < Expiry[e] => OneToken(e)'
    BY <1>2, <2>4, <2>7 DEF IInv, TypeOK, OneToken, Used, Session, Effects
  <2>10. ReleaseOnce' /\ DeliveryHonest' /\ \A x \in Procs : DeliveryOK(x)'
    BY <1>2, <2>1, <2>2
    DEF IInv, ReleaseOnce, DeliveryHonest, DeliveredOwn, TrustEarned, DeliveryOK, Effects
  <2> QED BY <2>5, <2>6, <2>8, <2>9, <2>10 DEF IInv
<1> QED BY <1>3, <1>4 DEF Consume

(* The signature is made and the authority is asked by the command that holds
   the offer's token; it keeps it. *)
LEMMA SigningKeeps ==
  ASSUME IInv, NEW p \in Procs, SignGrant(p) \/ \E r \in BOOLEAN : Ask(p, r)
  PROVE  IInv'
<1> DEFINE o == procs[p].cer
<1>1. /\ procs[p].pc \in {"sign", "ask"} /\ o \in Offers /\ procs[p].from <= now
      /\ procs[p] \in ProcState
  BY DEF IInv, TypeOK, ProcOK, SignGrant, Ask
<1>2. UNCHANGED <<Session, Stored, now, released, bundles, announced>>
  BY DEF SignGrant, Ask, Effects
<1>3. PICK q \in ProcState : /\ procs' = [procs EXCEPT ![p] = q]
                             /\ q.pc \in {"ask", "hold"} /\ q.cer = o /\ q.from = procs[p].from
  <2>1. CASE SignGrant(p)
    <3>1. procs' = [procs EXCEPT ![p] = [procs[p] EXCEPT !.pc = "ask"]]
      BY <2>1 DEF SignGrant, GoTo
    <3>2. [procs[p] EXCEPT !.pc = "ask"] \in ProcState BY <1>1 DEF ProcState, Steps
    <3> QED BY <1>1, <3>1, <3>2 DEF ProcState
  <2>2. ASSUME NEW r \in BOOLEAN, Ask(p, r)
        PROVE  \E q \in ProcState :
                 /\ procs' = [procs EXCEPT ![p] = q]
                 /\ q.pc \in {"ask", "hold"} /\ q.cer = o /\ q.from = procs[p].from
    <3>1. procs' = [procs EXCEPT ![p] = [procs[p] EXCEPT !.pc = "hold", !.required = r]]
      BY <2>2 DEF Ask
    <3>2. [procs[p] EXCEPT !.pc = "hold", !.required = r] \in ProcState
      BY <1>1 DEF ProcState, Steps
    <3> QED BY <1>1, <3>1, <3>2 DEF ProcState
  <2> QED BY <2>1, <2>2
<1>4. /\ procs' \in [Procs -> ProcState] /\ procs'[p] = q
      /\ \A x \in Procs \ {p} : procs'[x] = procs[x]
  BY <1>3 DEF IInv, TypeOK
<1>5. signatures' \in [Offers -> Nat] /\ \A x \in Offers \ {o} : signatures'[x] = signatures[x]
  BY <1>1 DEF IInv, TypeOK, SignGrant, Ask, Effects
<1>6. TypeOK' BY <1>2, <1>4, <1>5 DEF IInv, TypeOK, Session, Stored
<1>7. \A x \in Procs : ProcOK(x)' BY <1>1, <1>2, <1>3, <1>4 DEF IInv, ProcOK
<1>8. \A x \in Procs, e \in Offers : Signing(x, e)' <=> Signing(x, e)
  BY <1>1, <1>3, <1>4 DEF Signing
<1>9. Used(o) BY <1>1 DEF Used, Signing
<1>10. Remembered' BY <1>2, <1>5, <1>8, <1>9 DEF IInv, Remembered, Used, Session, Stored
<1>11. \A e \in Offers : now' < Expiry[e] => OneToken(e)'
  BY <1>2, <1>8 DEF IInv, OneToken, Session
<1>12. ReleaseOnce' /\ DeliveryHonest' BY <1>2
  DEF IInv, ReleaseOnce, DeliveryHonest, DeliveredOwn, TrustEarned, Stored
<1>13. \A x \in Procs : DeliveryOK(x)' BY <1>2, <1>3, <1>4 DEF IInv, DeliveryOK
<1> QED BY <1>6, <1>7, <1>10, <1>11, <1>12, <1>13 DEF IInv

(* The token moves into the pending slot; what was pending is given up. *)
LEMMA HoldKeeps ==
  ASSUME IInv, NEW p \in Procs, Hold(p)
  PROVE  IInv'
<1> DEFINE o == procs[p].cer
<1>1. procs[p].pc = "hold" /\ o \in Offers /\ procs[p] \in ProcState
  BY DEF IInv, TypeOK, ProcOK, Hold
<1>2. issuance' = o /\ UNCHANGED <<enrolment, Stored, now, Effects>> BY DEF Hold
<1>3. /\ procs' \in [Procs -> ProcState]
      /\ \A x \in Procs \ {p} : procs'[x] = procs[x]
      /\ procs'[p].pc = "idle" \/ procs'[p] = [procs[p] EXCEPT !.pc = "read"]
  BY EndIs, GoToIs DEF IInv, Hold, Steps
<1>4. procs'[p].pc = "idle" \/ (/\ procs'[p].pc = "read" /\ procs'[p].cer = o
                               /\ procs'[p].from = procs[p].from)
  BY <1>1, <1>3 DEF ProcState
<1>5. TypeOK' BY <1>1, <1>2, <1>3 DEF IInv, TypeOK, Stored, Effects
<1>6. \A x \in Procs : ProcOK(x)' BY <1>1, <1>2, <1>3, <1>4 DEF IInv, ProcOK, Stored
<1>7. \A x \in Procs, e \in Offers : Signing(x, e)' <=> Signing(x, e) /\ x # p
  BY <1>1, <1>3, <1>4 DEF Signing
<1>8. Signing(p, o) /\ Used(o) BY <1>1 DEF Used, Signing
<1>9. Remembered' BY <1>2, <1>7, <1>8 DEF IInv, Remembered, Used, Stored, Effects
<1>10. \A e \in Offers : now' < Expiry[e] => OneToken(e)'
  BY <1>1, <1>2, <1>7, <1>8, OfferAssumption DEF IInv, OneToken, Effects
<1>11. ReleaseOnce' /\ DeliveryHonest' BY <1>2
  DEF IInv, ReleaseOnce, DeliveryHonest, DeliveredOwn, TrustEarned, Stored, Effects
<1>12. \A x \in Procs : DeliveryOK(x)' BY <1>2, <1>3, <1>4 DEF IInv, DeliveryOK, Effects
<1> QED BY <1>5, <1>6, <1>9, <1>10, <1>11, <1>12 DEF IInv

(* A timely yes spends the token; any other answer destroys it. *)
LEMMA ConfirmKeeps ==
  ASSUME IInv, NEW p \in Procs, NEW o \in Offers, NEW yes \in BOOLEAN, NEW k \in Kinds,
         Confirm(p, o, yes, k)
  PROVE  IInv'
<1>1. /\ procs[p].pc = "idle" /\ issuance \in Offers /\ issuance' = None
      /\ UNCHANGED <<enrolment, Stored, now, signatures, bundles, announced>>
  BY DEF IInv, TypeOK, Confirm
<1>2. CASE UNCHANGED <<released, procs>>
  <2>1. TypeOK' BY <1>1, <1>2 DEF IInv, TypeOK, Stored
  <2> QED BY <1>1, <1>2, <2>1, QuietKeeps DEF IInv, TypeOK, Stored
<1>3. CASE ~UNCHANGED <<released, procs>>
  <2>1. /\ issuance = o /\ now < Expiry[o]
        /\ released' = [released EXCEPT ![o] = @ + 1]
        /\ Start(p, AfterRelease(k), o, k)
    BY <1>3 DEF Confirm, InTime
  <2>2. AfterRelease(k) \in Steps /\ AfterRelease(k) \in {"context", "trust"}
        /\ (k = "enrol" <=> AfterRelease(k) = "context")
    BY DEF AfterRelease, Steps, Kinds
  <2>3. /\ procs' \in [Procs -> ProcState]
        /\ \A x \in Procs \ {p} : procs'[x] = procs[x]
        /\ procs'[p].pc = AfterRelease(k) /\ procs'[p].cer = o /\ procs'[p].kind = k
        /\ procs'[p].from = now
    BY <2>1, <2>2, StartIs DEF IInv
  <2>4. released[o] = 0 /\ Used(o) BY <2>1 DEF IInv, OneToken, Used
  <2>5. released' \in [Offers -> Nat] /\ released'[o] = 1
        /\ \A x \in Offers \ {o} : released'[x] = released[x]
    BY <2>1, <2>4 DEF IInv, TypeOK
  <2>6. TypeOK' BY <1>1, <2>3, <2>5 DEF IInv, TypeOK, Stored
  <2>7. \A x \in Procs : ProcOK(x)' BY <1>1, <2>2, <2>3 DEF IInv, TypeOK, ProcOK, Stored
  <2>8. \A x \in Procs, e \in Offers : Signing(x, e)' <=> Signing(x, e)
    BY <1>1, <2>2, <2>3 DEF Signing
  <2>9. Remembered'
    BY <1>1, <2>4, <2>5, <2>8, OfferAssumption DEF IInv, Remembered, Used, Stored
  <2>10. \A x \in Procs : ~Signing(x, o) BY <2>1 DEF IInv, OneToken
  <2>11. \A e \in Offers : now' < Expiry[e] => OneToken(e)'
    BY <1>1, <2>5, <2>8, <2>10, OfferAssumption DEF IInv, OneToken
  <2>12. ReleaseOnce' BY <2>5 DEF IInv, ReleaseOnce
  <2>13. \A x \in Offers : released[x] > 0 => released'[x] > 0
    BY <2>4, <2>5
  <2>14. \A x \in Procs : DeliveryOK(x)'
    BY <1>1, <2>2, <2>3, <2>5, <2>13 DEF IInv, ProcOK, DeliveryOK
  <2>15. DeliveryHonest'
    BY <1>1, <2>13 DEF IInv, TypeOK, DeliveryHonest, DeliveredOwn, TrustEarned, Stored
  <2> QED BY <2>6, <2>7, <2>9, <2>11, <2>12, <2>14, <2>15 DEF IInv
<1> QED BY <1>2, <1>3

(* What delivery does not touch: nothing is signed, released or held by it. *)
LEMMA DeliveryKeeps ==
  ASSUME IInv, TypeOK', UNCHANGED <<issuance, ledger, now, signatures, released>>,
         \A x \in Procs : \/ procs'[x] = procs[x]
                          \/ ProcOK(x)' /\ procs'[x].pc \notin {"sign", "ask", "hold"}
  PROVE  /\ \A x \in Procs : ProcOK(x)'
         /\ Remembered'
         /\ \A e \in Offers : now' < Expiry[e] => OneToken(e)'
         /\ ReleaseOnce'
<1>1. \A x \in Procs : ProcOK(x)' BY DEF IInv, ProcOK
<1>2. \A x \in Procs, e \in Offers : Signing(x, e)' => Signing(x, e) BY DEF Signing
<1>3. Remembered' BY <1>2 DEF IInv, Remembered, Used
<1>4. \A e \in Offers : now' < Expiry[e] => OneToken(e)' BY <1>2 DEF IInv, OneToken
<1> QED BY <1>1, <1>3, <1>4 DEF IInv, ReleaseOnce

(* The context is taken; only the command's own ceremony goes on to deliver. *)
LEMMA TakeContextKeeps ==
  ASSUME IInv, NEW p \in Procs, TakeContext(p)
  PROVE  IInv'
<1>1. procs[p].pc = "context" /\ procs[p] \in ProcState /\ procs[p].cer \in Offers
      /\ procs[p].from <= now
  BY DEF IInv, TypeOK, ProcOK, TakeContext
<1>2. enrolment' = None /\ UNCHANGED <<issuance, Stored, now, Effects>> BY DEF TakeContext
<1>3. PICK q \in ProcState :
        /\ procs' = [procs EXCEPT ![p] = q]
        /\ q.pc = "idle" \/ (/\ q.pc = "deliver" /\ q.cer = procs[p].cer /\ q.did = q.cer
                             /\ q.kind = procs[p].kind /\ q.from = procs[p].from)
  <2>1. CASE SameContext(procs[p].cer)
    <3> DEFINE q == [procs[p] EXCEPT !.pc = "deliver", !.did = enrolment]
    <3>1. procs' = [procs EXCEPT ![p] = q] BY <2>1 DEF TakeContext
    <3>2. q \in ProcState BY <1>1 DEF IInv, TypeOK, ProcState, Steps
    <3>3. /\ q.pc = "deliver" /\ q.cer = procs[p].cer /\ q.did = q.cer
          /\ q.kind = procs[p].kind /\ q.from = procs[p].from
      BY <1>1, <2>1 DEF ProcState, SameContext
    <3> QED BY <3>1, <3>2, <3>3
  <2>2. CASE ~SameContext(procs[p].cer)
    <3>1. Idle \in ProcState /\ Idle.pc = "idle" BY DEF ProcState, Steps, Kinds, Idle
    <3> QED BY <2>2, <3>1 DEF TakeContext, End
  <2> QED BY <2>1, <2>2
<1>4. /\ procs' \in [Procs -> ProcState] /\ procs'[p] = q
      /\ \A x \in Procs \ {p} : procs'[x] = procs[x]
  BY <1>3 DEF IInv, TypeOK
<1>5. TypeOK' BY <1>2, <1>4 DEF IInv, TypeOK, Stored, Effects
<1>6. ProcOK(p)' /\ procs'[p].pc \notin {"sign", "ask", "hold"}
  BY <1>1, <1>2, <1>3, <1>4 DEF ProcOK, Stored
<1>7. \A x \in Procs : DeliveryOK(x)'
  BY <1>1, <1>2, <1>3, <1>4 DEF IInv, DeliveryOK, Effects
<1>8. DeliveryHonest'
  BY <1>2 DEF IInv, DeliveryHonest, DeliveredOwn, TrustEarned, Stored, Effects
<1> QED BY <1>2, <1>4, <1>5, <1>6, <1>7, <1>8, DeliveryKeeps DEF IInv, Stored, Effects

(* put_bundle writes the bundle to its own slot, whether or not it is told so. *)
LEMMA DeliverKeeps ==
  ASSUME IInv, NEW p \in Procs, Deliver(p)
  PROVE  IInv'
<1> DEFINE o == procs[p].cer
<1>1. /\ procs[p].pc = "deliver" /\ procs[p] \in ProcState /\ o \in Offers
      /\ procs[p].from <= now /\ procs[p].did = o /\ released[o] > 0
  BY DEF IInv, TypeOK, ProcOK, DeliveryOK, Deliver
<1>2. /\ bundles' = bundles \cup {<<o, o>>}
      /\ UNCHANGED <<Session, Stored, now, signatures, released, announced>>
  BY <1>1 DEF Deliver
<1>3. /\ procs' \in [Procs -> ProcState]
      /\ \A x \in Procs \ {p} : procs'[x] = procs[x]
      /\ procs'[p].pc = "idle" \/ procs'[p] = [procs[p] EXCEPT !.pc = "trust"]
  BY EndIs, GoToIs DEF IInv, Deliver, Steps
<1>4. procs'[p].pc = "idle" \/ (/\ procs'[p].pc = "trust" /\ procs'[p].cer = o
                               /\ procs'[p].kind = procs[p].kind
                               /\ procs'[p].from = procs[p].from)
  BY <1>1, <1>3 DEF ProcState
<1>5. TypeOK' BY <1>1, <1>2, <1>3 DEF IInv, TypeOK, Session, Stored
<1>6. ProcOK(p)' /\ procs'[p].pc \notin {"sign", "ask", "hold"}
  BY <1>1, <1>2, <1>4 DEF ProcOK, Stored
<1>7. \A x \in Procs : DeliveryOK(x)' BY <1>1, <1>2, <1>3, <1>4 DEF IInv, DeliveryOK
<1>8. DeliveryHonest'
  BY <1>1, <1>2 DEF IInv, DeliveryHonest, DeliveredOwn, TrustEarned, Stored
<1> QED BY <1>2, <1>3, <1>5, <1>6, <1>7, <1>8, DeliveryKeeps DEF IInv, Session, Stored

(* Trust is recorded by a command that has released and delivered. *)
LEMMA CommitTrustKeeps ==
  ASSUME IInv, NEW p \in Procs, CommitTrust(p)
  PROVE  IInv'
<1>1. /\ procs[p].pc = "trust" /\ procs[p] \in ProcState /\ procs[p].cer \in Offers
      /\ released[procs[p].cer] > 0
      /\ procs[p].kind = "enrol" => <<procs[p].cer, procs[p].cer>> \in bundles
  BY DEF IInv, TypeOK, ProcOK, DeliveryOK, CommitTrust
<1>2. /\ trust' = trust \cup {<<procs[p].cer, procs[p].kind>>}
      /\ UNCHANGED <<Session, hasRoot, ledger, now, Effects>>
  BY DEF CommitTrust
<1>3. /\ procs' \in [Procs -> ProcState]
      /\ \A x \in Procs \ {p} : procs'[x] = procs[x]
      /\ procs'[p].pc = "idle"
  BY EndIs DEF IInv, CommitTrust
<1>4. <<procs[p].cer, procs[p].kind>> \in Offers \X Kinds BY <1>1 DEF ProcState
<1>5. TypeOK' BY <1>2, <1>3, <1>4 DEF IInv, TypeOK, Session, Effects
<1>6. ProcOK(p)' /\ procs'[p].pc \notin {"sign", "ask", "hold"} BY <1>3 DEF ProcOK
<1>7. \A x \in Procs : DeliveryOK(x)' BY <1>2, <1>3 DEF IInv, DeliveryOK, Effects
<1>8. DeliveryHonest'
  BY <1>1, <1>2 DEF IInv, DeliveryHonest, DeliveredOwn, TrustEarned, Effects
<1> QED BY <1>2, <1>3, <1>5, <1>6, <1>7, <1>8, DeliveryKeeps DEF IInv, Session, Effects

-----------------------------------------------------------------------------
(* The theorems *)

(* Every step of app_grant.rs, and every stutter, keeps the invariant. *)
LEMMA NextIInv == IInv /\ [Next]_vars => IInv'
<1> SUFFICES ASSUME IInv, [Next]_vars PROVE IInv'
  OBVIOUS
<1>1. CASE UNCHANGED vars
  <2>1. TypeOK' BY <1>1 DEF IInv, TypeOK, vars
  <2> QED BY <1>1, <2>1, QuietKeeps DEF IInv, TypeOK, vars
<1>2. CASE Forget \/ Create \/ Restart \/ Tick BY <1>2, WorldKeeps
<1>3. ASSUME NEW p \in Procs, NEW o \in Offers, EnrolStart(p, o) \/ HeldPrepare(p, o)
      PROVE  IInv'
  BY <1>3, StartingKeeps
<1>4. ASSUME NEW p \in Procs, EnrolPrepare(p) PROVE IInv'
  <2>1. enrolment \in Offers BY <1>4 DEF EnrolPrepare, IInv, TypeOK
  <2> QED BY <1>4, <2>1, StartingKeeps
<1>5. ASSUME NEW p \in Procs, EnrolKeep(p) \/ Refused(p) PROVE IInv'
  BY <1>5, EndingKeeps
<1>6. ASSUME NEW p \in Procs, Consume(p) PROVE IInv'
  BY <1>6, ConsumeKeeps
<1>7. ASSUME NEW p \in Procs, SignGrant(p) \/ \E r \in BOOLEAN : Ask(p, r) PROVE IInv'
  BY <1>7, SigningKeeps
<1>8. ASSUME NEW p \in Procs, Hold(p) PROVE IInv'
  BY <1>8, HoldKeeps
<1>9. ASSUME NEW p \in Procs, ReadIssuer(p) PROVE IInv'
  BY <1>9, ReadIssuerKeeps
<1>10. ASSUME NEW p \in Procs, Announce(p) PROVE IInv'
  BY <1>10, AnnounceKeeps
<1>11. ASSUME NEW p \in Procs, NEW o \in Offers, NEW yes \in BOOLEAN, NEW k \in Kinds,
              Confirm(p, o, yes, k)
       PROVE  IInv'
  BY <1>11, ConfirmKeeps
<1>12. ASSUME NEW p \in Procs, TakeContext(p) PROVE IInv'
  BY <1>12, TakeContextKeeps
<1>13. ASSUME NEW p \in Procs, Deliver(p) PROVE IInv'
  BY <1>13, DeliverKeeps
<1>14. ASSUME NEW p \in Procs, CommitTrust(p) PROVE IInv'
  BY <1>14, CommitTrustKeeps
<1> QED BY <1>1, <1>2, <1>3, <1>4, <1>5, <1>6, <1>7, <1>8, <1>9, <1>10, <1>11, <1>12,
           <1>13, <1>14 DEF Next

(* The invariant holds in every reachable state. *)
LEMMA Invariant == Spec => []IInv
BY InitIInv, NextIInv, PTL DEF Spec

(* The Session slots, the ledger and the running commands have their types,
   with any number of offers, commands and ledger entries. *)
THEOREM TypeCorrect == Spec => []TypeOK
<1>1. IInv => TypeOK BY DEF IInv
<1> QED BY <1>1, Invariant, PTL

(* One offer yields at most one bundle, and what was signed is remembered
   until the offer expires, although every command prunes the ledger by an
   instant it read before its awaits. *)
THEOREM RequestConsumedOnce == Spec => []ConsumedOnce
<1>1. IInv => ConsumedOnce
  <2> SUFFICES ASSUME IInv PROVE ConsumedOnce
    OBVIOUS
  <2>1. LedgerRemembers BY DEF IInv, Remembered, Used, LedgerRemembers
  <2> QED BY <2>1 DEF IInv, ConsumedOnce
<1> QED BY <1>1, Invariant, PTL

(* A bundle reaches only its own ceremony's slot, and trust is recorded only
   after the evidence for it exists. *)
THEOREM DeliveryIsHonest == Spec => []DeliveryHonest
<1>1. IInv => DeliveryHonest BY DEF IInv
<1> QED BY <1>1, Invariant, PTL

(* A prompt the person may still answer in time is never displaced by another
   ceremony's grant. *)
THEOREM PromptIsStable == Spec => PromptStable
<1> DEFINE Kept == \A o \in Offers : issuance = o /\ now < Expiry[o] => issuance' \in {o, None}
<1>1. IInv /\ [Next]_vars => [Kept]_vars
  <2> SUFFICES ASSUME IInv, Next, NEW o \in Offers, issuance = o, now < Expiry[o]
               PROVE  issuance' \in {o, None}
    BY DEF vars
  <2>1. ASSUME NEW p \in Procs, Hold(p) PROVE issuance' \in {o, None}
    <3>1. procs[p].from <= now /\ procs[p].from \in Nat /\ now \in Nat /\ Expiry[o] \in Nat
      BY <2>1, OfferAssumption DEF IInv, TypeOK, ProcState, ProcOK, Hold
    <3>2. issuance # None BY OfferAssumption
    <3> QED BY <2>1, <3>1, <3>2 DEF Hold, MayHold, Occupied
  <2>2. ASSUME NEW p \in Procs, NEW x \in Offers, NEW yes \in BOOLEAN, NEW k \in Kinds,
               Confirm(p, x, yes, k)
        PROVE  issuance' \in {o, None}
    BY <2>2 DEF Confirm
  <2>3. CASE UNCHANGED issuance \/ Restart BY <2>3 DEF Restart
  <2> QED BY <2>1, <2>2, <2>3
      DEF Next, EnrolStart, EnrolKeep, HeldPrepare, EnrolPrepare, Consume, SignGrant, Ask,
          ReadIssuer, Announce, TakeContext, Deliver, CommitTrust, Refused, Forget, Create,
          Tick, Session
<1> QED BY <1>1, Invariant, PTL DEF Spec, PromptStable

-----------------------------------------------------------------------------
(* Enrolment: the inductive invariant *)

Allocated(o) == alloc[o].pc # "none"
\* The offer the allocator of o sealed, beside some evidence of the hub's.
Sealed(o) == \E e \in vouched :
  plain[o] = [core |-> CoreOf(o), hint |-> Hint(CoreOf(o), alloc[o].doc), evidence |-> e]
\* The evidence is for this very offer, under a key its document declares.
Vouched(o) == LET core == plain[o].core  e == plain[o].evidence IN
  /\ alloc[o].pc = "sealed" /\ Sealed(o) /\ RecognisedOffer(plain[o])
  /\ Declared(Docs[core.profile], e.kid, e.key)
  /\ StatementOfOffer(e.statement, core)

\* Opened from a code: the document was served when the offer was opened.
OpenedFresh(o) ==
  alloc[o].binding = WebBinding /\ left[content[o].doc] # None =>
    Expiry[o] - Window <= left[content[o].doc]
ContentOK(o) == /\ Vouched(o) /\ content[o].offer = plain[o]
                /\ content[o].doc \in DOMAIN Docs /\ OpenedFresh(o)
                /\ Recognised(Docs[content[o].doc])
\* The grant is the one built from the offer under a recognised document.
GrantOK(o) == Vouched(o) /\ \E n \in DOMAIN Docs, t \in Nat :
  Recognised(Docs[n]) /\ grants[o] = Bundle(plain[o], Grant(plain[o], n, t))

OriginOK ==
  /\ served \in DOMAIN Docs /\ DOMAIN left = DOMAIN Docs
  /\ \A n \in DOMAIN Docs : /\ left[n] # None => left[n] \in Nat
                            /\ n >= served => left[n] = None
AllocOK ==
  /\ DOMAIN alloc = Offers /\ DOMAIN plain = Offers
  /\ \A o \in Offers : /\ DOMAIN alloc[o] = {"pc", "doc", "binding"}
                       /\ Allocated(o) => Expiry[o] - Window <= now
                       /\ alloc[o].pc = "sealed" => Sealed(o)
  /\ mail \subseteq {o \in Offers : alloc[o].pc = "sealed"}
\* The wallet holds what it reviewed of o: kept, or in a running command.
Reviewing(o) ==
  \/ content[o] # None
  \/ enrolment = o
  \/ \E p \in Procs : procs[p].pc \in {"keep", "consume", "sign"} /\ procs[p].cer = o
\* The wallet has signed for o.
Granted(o) ==
  \/ issuance = o
  \/ released[o] > 0
  \/ \E p \in Procs : procs[p].pc \in {"ask", "hold"} /\ procs[p].cer = o
WalletOK ==
  /\ DOMAIN content = Offers /\ DOMAIN grants = Offers
  /\ \A o \in Offers : (Reviewing(o) => ContentOK(o)) /\ (Granted(o) => GrantOK(o))

EInv == /\ IInv /\ OriginOK /\ AllocOK /\ WalletOK
        /\ DOMAIN device = Offers /\ HeldGrantVouched

-----------------------------------------------------------------------------
(* Every step of an enrolment is one of the wallet's, or leaves it alone. *)
LEMMA EnrolmentStep == ASSUME [EnrolmentNext]_allVars PROVE [Next]_vars
<1>1. CASE UNCHANGED allVars BY <1>1 DEF allVars
<1>2. CASE \/ Rotate \/ \E n \in DOMAIN Docs : Reconfigure(n)
           \/ \E o \in Offers : \/ \E n \in DOMAIN Docs, b \in Bindings[o] : Allocate(o, n, b)
                                \/ SignStatement(o)
                                \/ \E e \in vouched : SealOffer(o, e)
                                \/ \E r \in Responses : OpenFails(o, r)
                                \/ \E g \in Offers : Receive(o, g)
  BY <1>2 DEF Rotate, Reconfigure, Allocate, SignStatement, SealOffer, OpenFails, Receive
<1>3. ASSUME NEW o \in Offers, NEW p \in Procs,
             Open(p, o) \/ \E n \in DOMAIN Docs, c \in Callers : HandIn(p, o, n, c)
      PROVE  Next
  BY <1>3 DEF Open, HandIn, Next
<1>4. ASSUME NEW p \in Procs, Reprepare(p) \/ SignHeld(p) PROVE Next
  BY <1>4 DEF Reprepare, SignHeld, Next
<1>5. ASSUME NEW p \in Procs, Inside(p) PROVE Next BY <1>5 DEF Inside, Next
<1>6. CASE WalletRestart \/ Clock BY <1>6 DEF WalletRestart, Clock, Next
<1> QED BY <1>1, <1>2, <1>3, <1>4, <1>5, <1>6 DEF EnrolmentNext

(* Time and released bundles only grow. *)
LEMMA WalletGrows ==
  ASSUME IInv, [Next]_vars
  PROVE  now <= now' /\ \A o \in Offers : released[o] <= released'[o]
<1> USE DEF IInv, TypeOK
<1>1. CASE UNCHANGED <<now, released>> BY <1>1
<1>2. ASSUME NEW p \in Procs, NEW o \in Offers, NEW yes \in BOOLEAN, NEW k \in Kinds,
             Confirm(p, o, yes, k)
      PROVE  now <= now' /\ \A x \in Offers : released[x] <= released'[x]
  BY <1>2 DEF Confirm, Stored
<1>3. CASE Tick BY <1>3 DEF Tick, Effects
<1> QED BY <1>1, <1>2, <1>3
    DEF Next, EnrolStart, EnrolKeep, HeldPrepare, EnrolPrepare, Consume, SignGrant, Ask, Hold,
        ReadIssuer, Announce, TakeContext, Deliver, CommitTrust, Refused, Forget, Create,
        Restart, Effects, vars

(* A document is named by its place, a number. *)
LEMMA PlaceIsNat == DOMAIN Docs = 1..Len(Docs) /\ 1 \in DOMAIN Docs /\ Len(Docs) \in Nat
BY DocsAssumption

(* What an allocator sealed stays sealed, evidence is never withdrawn, and a
   document leaves its origin once. *)
LEMMA Monotone ==
  ASSUME EInv, [EnrolmentNext]_allVars
  PROVE  /\ now <= now' /\ \A o \in Offers : released[o] <= released'[o]
         /\ vouched \subseteq vouched'
         /\ \A o \in Offers : alloc[o].pc = "sealed" => alloc'[o] = alloc[o] /\ plain'[o] = plain[o]
         /\ \A n \in DOMAIN Docs : left'[n] = left[n] \/ (left[n] = None /\ left'[n] = now)
<1>1. now <= now' /\ \A o \in Offers : released[o] <= released'[o]
  BY EnrolmentStep, WalletGrows DEF EInv
<1>2. vouched \subseteq vouched'
  BY DEF EnrolmentNext, Rotate, Reconfigure, Allocate, SignStatement, SealOffer, OpenFails,
         Receive, Open, HandIn, Reprepare, SignHeld, Inside, WalletRestart, Clock, outside, allVars
<1>3. \A o \in Offers : alloc[o].pc = "sealed" => alloc'[o] = alloc[o] /\ plain'[o] = plain[o]
  BY DEF EInv, AllocOK,
         EnrolmentNext, Rotate, Reconfigure, Allocate, SignStatement, SealOffer, OpenFails,
         Receive, Open, HandIn, Reprepare, SignHeld, Inside, WalletRestart, Clock, outside, allVars
<1>4. \A n \in DOMAIN Docs : left'[n] = left[n] \/ (left[n] = None /\ left'[n] = now)
  <2>1. CASE UNCHANGED left BY <2>1
  <2>2. CASE Rotate
    <3>1. served \in DOMAIN Docs /\ served >= served /\ DOMAIN left = DOMAIN Docs
      BY PlaceIsNat DEF EInv, OriginOK
    <3>2. left[served] = None BY <3>1 DEF EInv, OriginOK
    <3> QED BY <2>2, <3>1, <3>2 DEF Rotate
  <2> QED BY <2>1, <2>2
      DEF EnrolmentNext, Reconfigure, Allocate, SignStatement, SealOffer, OpenFails,
          Receive, Open, HandIn, Reprepare, SignHeld, Inside, WalletRestart, Clock, outside, allVars
<1> QED BY <1>1, <1>2, <1>3, <1>4

(* Hence what the wallet holds of an offer stays good for as long as it is held. *)
LEMMA Kept ==
  ASSUME EInv, [EnrolmentNext]_allVars, NEW o \in Offers
  PROVE  /\ Vouched(o) => Vouched(o)'
         /\ ContentOK(o) /\ content'[o] = content[o] => ContentOK(o)'
         /\ GrantOK(o) /\ grants'[o] = grants[o] => GrantOK(o)'
<1>1. ASSUME Vouched(o)
      PROVE  Vouched(o)' /\ alloc'[o] = alloc[o] /\ plain'[o] = plain[o]
  <2>1. alloc[o].pc = "sealed" BY <1>1 DEF Vouched
  <2>2. alloc'[o] = alloc[o] /\ plain'[o] = plain[o] /\ vouched \subseteq vouched'
    BY <2>1, Monotone
  <2>3. Sealed(o)' BY <1>1, <2>2 DEF Vouched, Sealed, CoreOf
  <2> QED BY <1>1, <2>2, <2>3 DEF Vouched
<1>2. ASSUME ContentOK(o), content'[o] = content[o] PROVE ContentOK(o)'
  <2> DEFINE n == content[o].doc
  <2>1. Vouched(o)' /\ alloc'[o] = alloc[o] /\ plain'[o] = plain[o] /\ alloc[o].pc = "sealed"
    BY <1>1, <1>2 DEF ContentOK, Vouched
  <2>2. Expiry[o] - Window <= now BY <2>1 DEF EInv, AllocOK, Allocated
  <2>3. left'[n] = left[n] \/ left'[n] = now BY <1>2, Monotone DEF ContentOK
  <2>4. OpenedFresh(o)' BY <1>2, <2>1, <2>2, <2>3 DEF ContentOK, OpenedFresh
  <2> QED BY <1>2, <2>1, <2>4 DEF ContentOK
<1>3. ASSUME GrantOK(o), grants'[o] = grants[o] PROVE GrantOK(o)'
  BY <1>1, <1>3 DEF GrantOK
<1> QED BY <1>1, <1>2, <1>3

-----------------------------------------------------------------------------
(* Each part of the invariant is kept *)

(* The origin serves a document of Docs, and none after it has left. *)
LEMMA OriginKeeps == ASSUME EInv, [EnrolmentNext]_allVars PROVE OriginOK'
<1> USE PlaceIsNat DEF EInv, OriginOK
<1>1. CASE UNCHANGED <<served, left>> BY <1>1
<1>2. CASE Rotate
  <2>1. served + 1 \in DOMAIN Docs /\ now \in Nat BY <1>2 DEF Rotate, IInv, TypeOK
  <2>2. DOMAIN left' = DOMAIN Docs /\ left'[served] = now
        /\ \A n \in DOMAIN Docs \ {served} : left'[n] = left[n]
    BY <1>2 DEF Rotate
  <2> QED BY <1>2, <2>1, <2>2 DEF Rotate
<1> QED BY <1>1, <1>2
    DEF EnrolmentNext, Reconfigure, Allocate, SignStatement, SealOffer, OpenFails, Receive, Open,
        HandIn, Reprepare, SignHeld, Inside, WalletRestart, Clock, outside, allVars

(* An allocator goes from its statement to the offer it seals beside it. *)
LEMMA AllocKeeps == ASSUME EInv, [EnrolmentNext]_allVars PROVE AllocOK'
<1> USE DEF EInv, AllocOK
<1>1. now <= now' /\ now \in Nat /\ now' \in Nat
  BY Monotone, EnrolmentStep, NextIInv DEF IInv, TypeOK
<1>2. \A o \in Offers : Expiry[o] - Window \in Int BY OfferAssumption, WindowAssumption
<1>3. CASE UNCHANGED <<alloc, plain>> /\ mail' \subseteq mail
  <2>1. \A o \in Offers : Sealed(o) => Sealed(o)' BY <1>3, Monotone DEF Sealed, CoreOf
  <2> QED BY <1>1, <1>2, <1>3, <2>1 DEF Allocated
<1>4. ASSUME NEW o \in Offers, NEW n, NEW b, Allocate(o, n, b) PROVE AllocOK'
  <2>1. /\ UNCHANGED <<now, plain, vouched, mail>> /\ alloc[o].pc = "none"
        /\ now = Expiry[o] - Window
        /\ alloc' = [alloc EXCEPT ![o] = [pc |-> "stated", doc |-> n, binding |-> b]]
    BY <1>4 DEF Allocate, vars
  <2>2. \A x \in Offers : alloc'[x].pc = "sealed" => Sealed(x)' BY <2>1 DEF Sealed, CoreOf
  <2> QED BY <1>1, <2>1, <2>2 DEF Allocated
<1>5. ASSUME NEW o \in Offers, SignStatement(o) PROVE AllocOK'
  <2>1. /\ UNCHANGED <<now, plain, mail>> /\ alloc[o].pc = "stated"
        /\ alloc' = [alloc EXCEPT ![o] = [alloc[o] EXCEPT !.pc = "answered"]]
        /\ vouched \subseteq vouched'
    BY <1>5 DEF SignStatement, vars
  <2>2. \A x \in Offers : alloc'[x].pc = "sealed" => Sealed(x)' BY <2>1 DEF Sealed, CoreOf
  <2> QED BY <1>1, <2>1, <2>2 DEF Allocated
<1>6. ASSUME NEW o \in Offers, NEW e \in vouched, SealOffer(o, e) PROVE AllocOK'
  <2>1. /\ UNCHANGED <<now, vouched>> /\ alloc[o].pc = "answered"
        /\ alloc' = [alloc EXCEPT ![o] = [alloc[o] EXCEPT !.pc = "sealed"]]
        /\ plain' = [plain EXCEPT ![o] = [core |-> CoreOf(o), hint |-> Hint(CoreOf(o), alloc[o].doc),
                                          evidence |-> e]]
        /\ mail' \subseteq mail \cup {o}
    BY <1>6 DEF SealOffer, vars
  <2>2. alloc'[o].pc = "sealed" /\ alloc'[o].doc = alloc[o].doc
        /\ \A x \in Offers \ {o} : alloc'[x] = alloc[x] /\ plain'[x] = plain[x]
    BY <2>1
  <2>3. Sealed(o)' BY <2>1, <2>2 DEF Sealed, CoreOf
  <2>4. \A x \in Offers : alloc'[x].pc = "sealed" => Sealed(x)'
    BY <2>1, <2>2, <2>3 DEF Sealed, CoreOf
  <2>5. DOMAIN alloc' = Offers /\ DOMAIN plain' = Offers
        /\ DOMAIN alloc'[o] = {"pc", "doc", "binding"}
    BY <2>1
  <2> QED BY <1>1, <2>1, <2>2, <2>4, <2>5 DEF Allocated
<1> QED BY <1>3, <1>4, <1>5, <1>6
    DEF EnrolmentNext, Rotate, Reconfigure, OpenFails, Receive, Open,
        HandIn, Reprepare, SignHeld, Inside, WalletRestart, Clock, outside, allVars

(* What grant::build makes of a recognised offer under a recognised document,
   grant::recognise admits. *)
LEMMA GrantRecognised ==
  ASSUME NEW offer, NEW n, NEW t \in Nat, RecognisedOffer(offer), Recognised(Docs[n]),
         NEW g, g = Grant(offer, n, t)
  PROVE  RecognisedGrant(g)
<1> DEFINE core == offer.core
           entry == [type |-> "did-crdt", purpose |-> "revocation",
                     id |-> <<g.issuer, "status", g.token>>, credential |-> g.id]
<1>1. Docs[n].revocation.lifetime \in Nat /\ Docs[n].revocation.lifetime > 0
  <2>1. RevocationOK(Docs[n].revocation) BY DEF Recognised
  <2> QED BY <2>1 DEF RevocationOK, Within
<1>2. g.from = t /\ g.until = t + Docs[n].revocation.lifetime BY DEF Grant
<1>3. g.device = core.deviceDid /\ g.cnf = core.deviceKey /\ g.aud = g.app
  BY DEF Grant
<1>4. g.id = <<g.issuer, "grant", g.token>> /\ g.account = <<"stable", core.scope>>
  BY DEF Grant
<1>5. g.permissions = core.permissions BY DEF Grant
<1>6. g.status = <<entry>> BY DEF Grant
<1>7. RecognisedStatus(g)
  <2>1. Len(g.status) = 1 /\ g.status[1] = entry BY <1>6
  <2> QED BY <2>1 DEF RecognisedStatus
<1>8. g.permissions # <<>> /\ Ascending([i \in DOMAIN g.permissions |-> g.permissions[i][2]])
  BY <1>5 DEF RecognisedOffer
<1>9. g.device = g.cnf BY <1>3 DEF RecognisedOffer
<1>10. g.account[1] = "stable" BY <1>4
<1>11. g.from < g.until BY <1>1, <1>2
<1> QED BY <1>3, <1>4, <1>7, <1>8, <1>9, <1>10, <1>11 DEF RecognisedGrant

(* The wallet's decision accepts only the hub's evidence for this very offer. *)
LEMMA DecisionVouches ==
  ASSUME EInv, NEW o \in Offers, alloc[o].pc = "sealed", NEW n, NEW caller,
         Authorised(plain[o], n, plain[o].core.profile, caller, now)
  PROVE  Vouched(o) /\ Recognised(Docs[n])
<1>1. Sealed(o) BY DEF EInv, AllocOK
<1>2. Verified(plain[o].evidence, n, plain[o].core, plain[o].hint, caller, now)
      /\ n = plain[o].core.profile /\ RecognisedOffer(plain[o]) /\ Recognised(Docs[n])
  BY DEF Authorised
<1> QED BY <1>1, <1>2 DEF Vouched, Verified, SignedByProfile

-----------------------------------------------------------------------------
(* What the wallet holds is vouched for, wherever it holds it *)

(* It is enough to look at the offers a step takes up, and what it makes of them. *)
LEMMA PlacesKeep ==
  ASSUME EInv, [EnrolmentNext]_allVars,
         DOMAIN content' = Offers, DOMAIN grants' = Offers,
         \A o \in Offers :
           /\ Reviewing(o)' => (Reviewing(o) /\ content'[o] = content[o]) \/ ContentOK(o)'
           /\ Granted(o)' => (Granted(o) /\ grants'[o] = grants[o]) \/ GrantOK(o)'
  PROVE  WalletOK'
BY Kept DEF EInv, WalletOK

(* A wallet that only moves on with what it has. *)
LEMMA MovesKeep ==
  ASSUME EInv, [EnrolmentNext]_allVars, UNCHANGED <<content, grants>>,
         \A o \in Offers : (Reviewing(o)' => Reviewing(o)) /\ (Granted(o)' => Granted(o))
  PROVE  WalletOK'
BY PlacesKeep DEF EInv, WalletOK

(* cbcl_enrol_start keeps what it has just reviewed. *)
LEMMA OpenKeeps ==
  ASSUME EInv, [EnrolmentNext]_allVars, NEW p \in Procs, NEW o \in Offers, Open(p, o)
  PROVE  WalletOK'
<1>1. /\ alloc[o].pc = "sealed" /\ Authorised(plain[o], served, plain[o].core.profile, NoHandoff, now)
      /\ content' = [content EXCEPT ![o] = [offer |-> plain[o], doc |-> served, caller |-> NoHandoff]]
      /\ UNCHANGED <<left, alloc, plain, grants>>
  BY DEF EInv, AllocOK, Open, Reviewed, Fetched
<1>2. Start(p, "keep", o, "enrol") /\ UNCHANGED <<enrolment, issuance, released>>
  BY DEF Open, EnrolStart, Session, Effects
<1>3. /\ procs'[p].pc = "keep" /\ procs'[p].cer = o
      /\ \A x \in Procs \ {p} : procs'[x] = procs[x]
  BY <1>2, StartIs DEF EInv, IInv, Steps, Kinds
<1>4. Vouched(o)' /\ Recognised(Docs[served]) BY <1>1, DecisionVouches, Kept
<1>5. served \in DOMAIN Docs /\ left[served] = None BY PlaceIsNat DEF EInv, OriginOK
<1>6. ContentOK(o)'
  <2>1. content'[o] = [offer |-> plain[o], doc |-> served, caller |-> NoHandoff]
    BY <1>1 DEF EInv, WalletOK
  <2> QED BY <1>1, <1>4, <1>5, <2>1 DEF ContentOK, OpenedFresh
<1>7. DOMAIN content' = Offers /\ DOMAIN grants' = Offers
      /\ \A x \in Offers \ {o} : content'[x] = content[x]
  BY <1>1 DEF EInv, WalletOK
<1>8. \A x \in Offers \ {o} : Reviewing(x)' => Reviewing(x)
  BY <1>2, <1>3, <1>7 DEF Reviewing
<1>9. \A x \in Offers : Granted(x)' => Granted(x) BY <1>2, <1>3 DEF Granted
<1> QED BY <1>1, <1>6, <1>7, <1>8, <1>9, PlacesKeep

(* app_grant_prepare takes up what the page hands in. *)
LEMMA HandInKeeps ==
  ASSUME EInv, [EnrolmentNext]_allVars, NEW p \in Procs, NEW o \in Offers,
         NEW n \in DOMAIN Docs, NEW caller, HandIn(p, o, n, caller)
  PROVE  WalletOK'
<1>1. /\ alloc[o].pc = "sealed" /\ alloc[o].binding # WebBinding
      /\ Authorised(plain[o], n, plain[o].core.profile, caller, now)
      /\ content' = [content EXCEPT ![o] = [offer |-> plain[o], doc |-> n, caller |-> caller]]
      /\ UNCHANGED <<left, alloc, plain, grants>>
  BY DEF HandIn
<1>2. Start(p, "consume", o, "held") /\ UNCHANGED <<enrolment, issuance, released>>
  BY DEF HandIn, HeldPrepare, Session, Effects
<1>3. /\ procs'[p].pc = "consume" /\ procs'[p].cer = o
      /\ \A x \in Procs \ {p} : procs'[x] = procs[x]
  BY <1>2, StartIs DEF EInv, IInv, Steps, Kinds
<1>4. Vouched(o)' /\ Recognised(Docs[n]) BY <1>1, DecisionVouches, Kept
<1>5. ContentOK(o)'
  <2>1. content'[o] = [offer |-> plain[o], doc |-> n, caller |-> caller]
    BY <1>1 DEF EInv, WalletOK
  <2> QED BY <1>1, <1>4, <2>1 DEF ContentOK, OpenedFresh
<1>6. DOMAIN content' = Offers /\ DOMAIN grants' = Offers
      /\ \A x \in Offers \ {o} : content'[x] = content[x]
  BY <1>1 DEF EInv, WalletOK
<1>7. \A x \in Offers \ {o} : Reviewing(x)' => Reviewing(x)
  BY <1>2, <1>3, <1>6 DEF Reviewing
<1>8. \A x \in Offers : Granted(x)' => Granted(x) BY <1>2, <1>3 DEF Granted
<1> QED BY <1>1, <1>5, <1>6, <1>7, <1>8, PlacesKeep

(* A command that goes on works for the same offer. *)
LEMMA GoesOn ==
  ASSUME TypeOK, NEW p \in Procs, NEW step \in Steps, GoTo(p, step)
  PROVE  /\ procs'[p].pc = step /\ procs'[p].cer = procs[p].cer
         /\ \A x \in Procs \ {p} : procs'[x] = procs[x]
<1>1. procs[p] \in ProcState BY DEF TypeOK
<1> QED BY <1>1, GoToIs DEF ProcState

(* prepare_issuance signs for the offer it holds. *)
LEMMA SignHeldKeeps ==
  ASSUME EInv, [EnrolmentNext]_allVars, NEW p \in Procs, SignHeld(p)
  PROVE  WalletOK'
<1>1. PICK o \in Offers : procs[p].cer = o BY DEF EInv, IInv, ProcOK, SignHeld, SignGrant
<1>2. /\ procs[p].pc = "sign" /\ GoTo(p, "ask") /\ UNCHANGED <<enrolment, issuance, released>>
      /\ grants' = [grants EXCEPT ![o] = Bundle(content[o].offer,
                                                Grant(content[o].offer, content[o].doc, procs[p].from))]
      /\ UNCHANGED <<alloc, plain, content>>
  BY <1>1 DEF SignHeld, SignGrant, Session
<1>3. ContentOK(o) BY <1>1, <1>2 DEF EInv, WalletOK, Reviewing
<1>4. /\ procs'[p].pc = "ask" /\ procs'[p].cer = o
      /\ \A x \in Procs \ {p} : procs'[x] = procs[x]
  <2>1. TypeOK /\ "ask" \in Steps BY DEF EInv, IInv, Steps
  <2> QED BY <1>1, <1>2, <2>1, GoesOn
<1>5. GrantOK(o)'
  <2>1. Vouched(o)' BY <1>3, Kept DEF ContentOK
  <2>2. grants'[o] = Bundle(plain[o], Grant(plain[o], content[o].doc, procs[p].from))
    BY <1>2, <1>3 DEF EInv, WalletOK, ContentOK
  <2>3. procs[p].from \in Nat BY DEF EInv, IInv, TypeOK, ProcState
  <2>4. content[o].doc \in DOMAIN Docs /\ Recognised(Docs[content[o].doc]) BY <1>3 DEF ContentOK
  <2>5. \E n \in DOMAIN Docs, t \in Nat : Recognised(Docs[n])
          /\ grants'[o] = Bundle(plain'[o], Grant(plain'[o], n, t))
    BY <1>2, <2>2, <2>3, <2>4
  <2> QED BY <2>1, <2>5 DEF GrantOK
<1>6. DOMAIN content' = Offers /\ DOMAIN grants' = Offers
      /\ \A x \in Offers \ {o} : grants'[x] = grants[x]
  BY <1>2 DEF EInv, WalletOK
<1>7. \A x \in Offers : Reviewing(x)' => Reviewing(x) BY <1>2, <1>4 DEF Reviewing
<1>8. \A x \in Offers \ {o} : Granted(x)' => Granted(x) BY <1>2, <1>4 DEF Granted
<1> QED BY <1>2, <1>5, <1>6, <1>7, <1>8, PlacesKeep

(* What is held moves on, from a command to the Session and back. *)
LEMMA CommandKeeps ==
  ASSUME EInv, NEW p \in Procs, Reprepare(p) \/ Inside(p), NEW o \in Offers
  PROVE  (Reviewing(o)' => Reviewing(o)) /\ (Granted(o)' => Granted(o))
<1> USE DEF Reviewing, Granted, Session, Stored, Effects
<1>0. UNCHANGED content BY DEF Reprepare, Inside, outside
<1>t. TypeOK /\ procs[p] \in ProcState BY DEF EInv, IInv, TypeOK
<1>2. CASE EnrolKeep(p)
  <2>1. /\ \A x \in Procs \ {p} : procs'[x] = procs[x]
        /\ procs'[p].pc = "idle"
    BY <1>2, <1>t, EndIs DEF EnrolKeep
  <2> QED BY <1>0, <1>2, <2>1 DEF EnrolKeep
<1>3. CASE Consume(p)
  <2>1. /\ \A x \in Procs \ {p} : procs'[x] = procs[x]
        /\ procs[p].pc = "consume" /\ UNCHANGED <<issuance, enrolment, released>>
        /\ procs'[p].pc = "idle" \/ (procs'[p].pc = "sign" /\ procs'[p].cer = procs[p].cer)
    <3>1. CASE End(p) BY <1>3, <1>t, <3>1, EndIs DEF Consume
    <3>2. CASE GoTo(p, "sign")
      <4>1. "sign" \in Steps BY DEF Steps
      <4> QED BY <1>3, <1>t, <3>2, <4>1, GoesOn DEF Consume
    <3> QED BY <1>3, <3>1, <3>2 DEF Consume
  <2> QED BY <1>0, <2>1
<1>4. CASE Hold(p)
  <2>1. /\ \A x \in Procs \ {p} : procs'[x] = procs[x]
        /\ procs'[p].pc \in {"idle", "read"}
    <3>1. CASE End(p) BY <1>t, <3>1, EndIs
    <3>2. CASE GoTo(p, "read")
      <4>1. "read" \in Steps BY DEF Steps
      <4> QED BY <1>t, <3>2, <4>1, GoesOn
    <3> QED BY <1>4, <3>1, <3>2 DEF Hold
  <2> QED BY <1>0, <1>4, <2>1 DEF Hold
<1>5. CASE ReadIssuer(p) \/ Announce(p) \/ CommitTrust(p) \/ Refused(p)
  <2>1. /\ \A x \in Procs \ {p} : procs'[x] = procs[x]
        /\ procs'[p].pc \in {"idle", "announce"}
    BY <1>5, <1>t, EndIs DEF ReadIssuer, Announce, CommitTrust, Refused, TypeOK, ProcState
  <2> QED BY <1>0, <1>5, <2>1 DEF ReadIssuer, Announce, CommitTrust, Refused
<1>6. ASSUME NEW r \in BOOLEAN, Ask(p, r)
      PROVE  (Reviewing(o)' => Reviewing(o)) /\ (Granted(o)' => Granted(o))
  <2>1. /\ \A x \in Procs \ {p} : procs'[x] = procs[x]
        /\ procs[p].pc = "ask" /\ procs'[p].pc = "hold" /\ procs'[p].cer = procs[p].cer
    BY <1>6, <1>t DEF Ask, TypeOK, ProcState
  <2> QED BY <1>0, <1>6, <2>1 DEF Ask
<1>7. ASSUME NEW e \in Offers, NEW yes \in BOOLEAN, NEW k \in Kinds, Confirm(p, e, yes, k)
      PROVE  (Reviewing(o)' => Reviewing(o)) /\ (Granted(o)' => Granted(o))
  <2>1. CASE UNCHANGED <<released, procs>> BY <1>0, <1>7, <2>1, OfferAssumption DEF Confirm
  <2>2. CASE issuance = e /\ released' = [released EXCEPT ![e] = @ + 1]
             /\ Start(p, AfterRelease(k), e, k)
    <3>1. /\ \A x \in Procs \ {p} : procs'[x] = procs[x]
          /\ procs'[p].pc \in {"context", "trust"}
      BY <1>t, <2>2, StartIs DEF AfterRelease, Steps
    <3>2. \A x \in Offers \ {e} : released'[x] = released[x] BY <1>t, <2>2 DEF TypeOK
    <3> QED BY <1>0, <1>7, <2>2, <3>1, <3>2, OfferAssumption DEF Confirm
  <2> QED BY <1>7, <2>1, <2>2 DEF Confirm
<1>8. CASE TakeContext(p) \/ Deliver(p)
  <2>1. /\ \A x \in Procs \ {p} : procs'[x] = procs[x]
        /\ procs'[p].pc \in {"idle", "deliver", "trust"}
    <3>1. CASE End(p) BY <1>t, <3>1, EndIs
    <3>2. CASE Deliver(p) /\ GoTo(p, "trust")
      <4>1. "trust" \in Steps BY DEF Steps
      <4> QED BY <1>t, <3>2, <4>1, GoesOn
    <3>3. CASE procs' = [procs EXCEPT ![p] = [procs[p] EXCEPT !.pc = "deliver", !.did = enrolment]]
      BY <1>t, <3>3 DEF TypeOK, ProcState
    <3> QED BY <1>8, <3>1, <3>2, <3>3 DEF TakeContext, Deliver
  <2> QED BY <1>0, <1>8, <2>1, OfferAssumption DEF TakeContext, Deliver
<1>9. CASE Reprepare(p)
  <2>1. Start(p, "consume", enrolment, "enrol") /\ enrolment # None
        /\ UNCHANGED <<issuance, enrolment, released>>
    BY <1>9 DEF Reprepare, EnrolPrepare
  <2>2. /\ \A x \in Procs \ {p} : procs'[x] = procs[x]
        /\ procs'[p].pc = "consume" /\ procs'[p].cer = enrolment
    BY <1>t, <2>1, StartIs DEF TypeOK, Steps, Kinds
  <2> QED BY <1>0, <2>1, <2>2
<1> QED BY <1>2, <1>3, <1>4, <1>5, <1>6, <1>7, <1>8, <1>9 DEF Inside

(* The wallet's part of the invariant is kept by every step. *)
LEMMA WalletKeeps == ASSUME EInv, [EnrolmentNext]_allVars PROVE WalletOK'
<1>1. CASE UNCHANGED <<issuance, enrolment, procs, released, content, grants>>
  BY <1>1, MovesKeep DEF Reviewing, Granted
<1>2. ASSUME NEW o \in Offers, NEW p \in Procs,
             Open(p, o) \/ \E n \in DOMAIN Docs, c \in Callers : HandIn(p, o, n, c)
      PROVE  WalletOK'
  BY <1>2, OpenKeeps, HandInKeeps
<1>3. ASSUME NEW p \in Procs, SignHeld(p) PROVE WalletOK' BY <1>3, SignHeldKeeps
<1>4. ASSUME NEW p \in Procs, Reprepare(p) \/ Inside(p) PROVE WalletOK'
  <2>1. UNCHANGED <<content, grants>> BY <1>4 DEF Reprepare, Inside, outside
  <2> QED BY <1>4, <2>1, CommandKeeps, MovesKeep
<1>5. CASE WalletRestart
  <2>1. /\ content' = [o \in Offers |-> None] /\ issuance' = None /\ enrolment' = None
        /\ procs' = [p \in Procs |-> Idle] /\ UNCHANGED <<released, grants>>
    BY <1>5 DEF WalletRestart, Restart, Effects
  <2>2. \A o \in Offers : ~Reviewing(o)' /\ (Granted(o)' => Granted(o))
    BY <2>1, OfferAssumption DEF Reviewing, Granted, Idle
  <2>3. DOMAIN content' = Offers /\ DOMAIN grants' = Offers BY <2>1 DEF EInv, WalletOK
  <2> QED BY <2>1, <2>2, <2>3, PlacesKeep
<1>6. CASE \/ Rotate \/ \E n \in DOMAIN Docs : Reconfigure(n)
           \/ \E o \in Offers : \/ \E n \in DOMAIN Docs, b \in Bindings[o] : Allocate(o, n, b)
                                \/ SignStatement(o)
                                \/ \E e \in vouched : SealOffer(o, e)
                                \/ \E r \in Responses : OpenFails(o, r)
                                \/ \E g \in Offers : Receive(o, g)
  BY <1>1, <1>6 DEF Rotate, Reconfigure, Allocate, SignStatement, SealOffer, OpenFails, Receive, vars
<1>7. CASE Clock BY <1>1, <1>7 DEF Clock, Tick, Session, Effects, outside
<1>8. CASE UNCHANGED allVars BY <1>1, <1>8 DEF allVars, vars, outside
<1> QED BY <1>2, <1>3, <1>4, <1>5, <1>6, <1>7, <1>8 DEF EnrolmentNext

-----------------------------------------------------------------------------
(* What the device opens *)

(* open_bundle yields the grant the wallet released for this very offer. *)
LEMMA ReceiveKeeps ==
  ASSUME EInv, [EnrolmentNext]_allVars, NEW o \in Offers, NEW g \in Offers, Receive(o, g)
  PROVE  HeldGrantVouched'
<1>1. g = o /\ released[o] > 0
  BY DEF Receive, EInv, IInv, DeliveryHonest, DeliveredOwn
<1>2. GrantOK(o) BY <1>1 DEF EInv, WalletOK, Granted
<1>3. /\ UNCHANGED <<released, vouched, alloc, plain, grants>>
      /\ device' = [device EXCEPT ![o] = grants[o].grant]
  BY <1>1 DEF Receive, vars
<1> DEFINE e == plain[o].evidence
           core == plain[o].core
<1>4. PICK n \in DOMAIN Docs, t \in Nat :
        Recognised(Docs[n]) /\ grants[o] = Bundle(plain[o], Grant(plain[o], n, t))
  BY <1>2 DEF GrantOK
<1>5. grants[o].grant = Grant(plain[o], n, t) BY <1>4 DEF Bundle
<1>6. core = CoreOf(o) /\ e \in vouched /\ Declared(Docs[core.profile], e.kid, e.key)
      /\ StatementOfOffer(e.statement, core)
  BY <1>2 DEF GrantOK, Vouched, Sealed
<1>7. core.ceremony = o /\ core.deviceKey = o BY <1>6 DEF CoreOf, Core
<1>8. /\ e.statement.ceremony = o /\ e.statement.deviceDigest = core.deviceKey
      /\ e.statement.app = core.app /\ e.statement.scope = core.scope
      /\ e.statement.permissions = core.permissions /\ e.statement.profile = core.profile
  BY <1>6, <1>7 DEF StatementOfOffer
<1>9. /\ device'[o].device = core.deviceKey /\ device'[o].issuer = <<core.app, core.scope>>
      /\ device'[o].permissions = core.permissions /\ RecognisedGrant(device'[o])
  <2>1. device'[o] = Grant(plain[o], n, t) BY <1>3, <1>5 DEF EInv
  <2>2. core.deviceDid = core.deviceKey BY <1>2 DEF GrantOK, Vouched, RecognisedOffer
  <2>3. RecognisedGrant(device'[o])
    <3>1. RecognisedOffer(plain[o]) BY <1>2 DEF GrantOK, Vouched
    <3> QED BY <1>4, <2>1, <3>1, GrantRecognised
  <2> QED BY <2>1, <2>2, <2>3 DEF Grant
<1>10. \A x \in Offers \ {o} : device'[x] = device[x] BY <1>3 DEF EInv
<1>11. ASSUME NEW x \in Offers, device'[x] # None
       PROVE  \E v \in vouched' :
                /\ v.statement.ceremony = x /\ v.statement.deviceDigest = device'[x].device
                /\ device'[x].device = x
                /\ device'[x].issuer = <<v.statement.app, v.statement.scope>>
                /\ device'[x].permissions = v.statement.permissions
                /\ Declared(Docs[v.statement.profile], v.kid, v.key)
                /\ released'[x] > 0 /\ RecognisedGrant(device'[x])
  <2>1. CASE x = o
    <3>1. e \in vouched' BY <1>3, <1>6
    <3>2. released'[x] > 0 BY <1>1, <1>3, <2>1
    <3> QED BY <1>6, <1>7, <1>8, <1>9, <2>1, <3>1, <3>2
  <2>2. CASE x # o BY <1>3, <1>10, <1>11, <2>2 DEF EInv, HeldGrantVouched
  <2> QED BY <2>1, <2>2
<1> QED BY <1>11 DEF HeldGrantVouched

(* The allocator, the wallet and the device begin empty. *)
LEMMA EnrolmentInitEInv == EnrolmentInit => EInv
<1> SUFFICES ASSUME EnrolmentInit PROVE EInv
  OBVIOUS
<1> USE OfferAssumption, PlaceIsNat DEF EnrolmentInit
<1>1. TypeOK BY DEF TypeOK, ProcState, Steps, Kinds, Idle
<1>2. \A p \in Procs : procs[p].pc = "idle" BY DEF Idle
<1>3. \A o \in Offers : ~Used(o) /\ OneToken(o) BY <1>2 DEF Used, OneToken, Signing
<1>4. IInv
  BY <1>1, <1>2, <1>3
  DEF IInv, ProcOK, Remembered, ReleaseOnce, DeliveryOK, DeliveryHonest, DeliveredOwn, TrustEarned
<1>5. OriginOK BY DEF OriginOK
<1>6. AllocOK BY DEF AllocOK, Allocated
<1>7. \A o \in Offers : ~Reviewing(o) /\ ~Granted(o) BY <1>2 DEF Reviewing, Granted
<1>8. WalletOK BY <1>7 DEF WalletOK
<1>9. DOMAIN device = Offers /\ HeldGrantVouched BY DEF HeldGrantVouched
<1> QED BY <1>4, <1>5, <1>6, <1>8, <1>9 DEF EInv

(* Every step of the enrolment keeps the invariant. *)
LEMMA EnrolmentNextEInv == EInv /\ [EnrolmentNext]_allVars => EInv'
<1> SUFFICES ASSUME EInv, [EnrolmentNext]_allVars PROVE EInv'
  OBVIOUS
<1>1. IInv' BY EnrolmentStep, NextIInv DEF EInv
<1>2. OriginOK' /\ AllocOK' /\ WalletOK' BY OriginKeeps, AllocKeeps, WalletKeeps
<1>3. CASE UNCHANGED device
  <2>1. vouched \subseteq vouched' /\ \A o \in Offers : released[o] > 0 => released'[o] > 0
    <3>1. \A o \in Offers : released[o] \in Nat /\ released'[o] \in Nat
      BY <1>1 DEF EInv, IInv, TypeOK
    <3> QED BY <3>1, Monotone
  <2>2. HeldGrantVouched' BY <1>3, <2>1 DEF EInv, HeldGrantVouched
  <2> QED BY <1>1, <1>2, <1>3, <2>2 DEF EInv
<1>4. ASSUME NEW o \in Offers, NEW g \in Offers, Receive(o, g) PROVE EInv'
  <2>1. DOMAIN device' = Offers BY <1>4 DEF EInv, Receive
  <2> QED BY <1>1, <1>2, <1>4, <2>1, ReceiveKeeps DEF EInv
<1> QED BY <1>3, <1>4
    DEF EnrolmentNext, Rotate, Reconfigure, Allocate, SignStatement, SealOffer, OpenFails, Open,
        HandIn, Reprepare, SignHeld, Inside, WalletRestart, Clock, outside, allVars

(* The invariant holds in every reachable state of an enrolment. *)
LEMMA EnrolmentInvariant == EnrolmentSpec => []EInv
BY EnrolmentInitEInv, EnrolmentNextEInv, PTL DEF EnrolmentSpec

-----------------------------------------------------------------------------
(* The theorems *)

(* An enrolment runs the wallet's issuance unchanged: what app_grant.rs
   guarantees by itself it guarantees beside the allocator, the hub and the
   origin. *)
THEOREM EnrolmentRunsIssuance ==
  EnrolmentSpec => [](ConsumedOnce /\ DeliveryHonest) /\ [][Next]_vars
<1>1. EInv => ConsumedOnce /\ DeliveryHonest
  <2> SUFFICES ASSUME EInv PROVE ConsumedOnce /\ DeliveryHonest
    OBVIOUS
  <2>1. LedgerRemembers BY DEF EInv, IInv, Remembered, Used, LedgerRemembers
  <2> QED BY <2>1 DEF EInv, IInv, ConsumedOnce
<1>2. [EnrolmentNext]_allVars => [Next]_vars BY EnrolmentStep
<1> QED BY <1>1, <1>2, EnrolmentInvariant, PTL DEF EnrolmentSpec

(* Whatever the page puts beside its offers, whatever documents the origin
   serves and the hub is deployed with, a grant a device holds was vouched for
   by the hub in this very ceremony, under a key the document of the offer
   declares, and was released by the wallet. *)
THEOREM HeldGrantIsVouched == EnrolmentSpec => []HeldGrantVouched
<1>1. EInv => HeldGrantVouched BY DEF EInv
<1> QED BY <1>1, EnrolmentInvariant, PTL

(* No bundle is released for a web offer under a document its origin stopped
   serving an evidence window ago: the wallet fetched it live, the offer was
   allocated a window before its expiry, and it is confirmed before that. *)
THEOREM RotationIsBounded == EnrolmentSpec => RotationBounded
<1> DEFINE Bounded == \A o \in Offers :
       /\ released'[o] > released[o] /\ content[o] # None
       /\ alloc[o].binding = WebBinding
       => left[content[o].doc] = None \/ now < left[content[o].doc] + Window
<1>1. EInv /\ [EnrolmentNext]_allVars => [Bounded]_allVars
  <2> SUFFICES ASSUME EInv, [EnrolmentNext]_allVars, NEW o \in Offers,
                      released'[o] > released[o], content[o] # None,
                      alloc[o].binding = WebBinding, left[content[o].doc] # None
               PROVE  now < left[content[o].doc] + Window
    OBVIOUS
  <2>1. now < Expiry[o]
    <3>1. [Next]_vars /\ released \in [Offers -> Nat] BY EnrolmentStep DEF EInv, IInv, TypeOK
    <3>2. released' # released BY <3>1
    <3>3. PICK p \in Procs, e \in Offers, yes \in BOOLEAN, k \in Kinds : Confirm(p, e, yes, k)
      BY <3>1, <3>2
      DEF Next, EnrolStart, EnrolKeep, HeldPrepare, EnrolPrepare, Consume, SignGrant, Ask, Hold,
          ReadIssuer, Announce, TakeContext, Deliver, CommitTrust, Refused, Forget, Create,
          Restart, Tick, Effects, vars
    <3> QED BY <3>1, <3>3 DEF Confirm, InTime
  <2>2. ContentOK(o) BY DEF EInv, WalletOK, Reviewing
  <2>3. Expiry[o] - Window <= left[content[o].doc] /\ left[content[o].doc] \in Nat
    BY <2>2 DEF ContentOK, OpenedFresh, EInv, OriginOK
  <2> QED BY <2>1, <2>3, OfferAssumption, WindowAssumption DEF EInv, IInv, TypeOK
<1> QED BY <1>1, EnrolmentInvariant, PTL DEF EnrolmentSpec, RotationBounded

=============================================================================
