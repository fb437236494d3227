------------------------------ MODULE Recovery ------------------------------
(***************************************************************************)
(* The final-status recovery of credential/v2 as pure operators            *)
(* (crates/selfsame-pairing/src/credential_v2/recovery.rs, the hub's       *)
(* binding in selfsame-beam and the HTTPS transport in                     *)
(* selfsame-app-identity-net/src/pairing_status.rs).  A ceremony has one   *)
(* recovery token, and there is one application: a commitment stands for   *)
(* the token and the ceremony it digests.  A profile is the number of its  *)
(* only enrolment key: rotating the key makes the next profile.            *)
(***************************************************************************)
EXTENDS Exchange

OfferKid == 0    \* the key of the profile the wallet retains with the offer
Declares(profile, kid) == kid = profile

Token(cer) == <<"token", cer>>
Commitment(token, cer) == <<token, cer>>
RecoveryRequest(cer, token) == [cer |-> cer, token |-> token]
\* The hub keeps no token: it looks up the commitment.
RecogniseRequest(r) == [cer |-> r.cer, commitment |-> Commitment(r.token, r.cer)]

\* The closed union of answers; in-progress and unknown change nothing.
Accepted(status) == [kind |-> "accepted", status |-> status]
NotFinalized(negative) == [kind |-> "not-finalized", status |-> negative]

NegativeCore(q, at) == [cer |-> q.cer, commitment |-> q.commitment, observedAt |-> at]
BuildNotFinalized(profile, q, at) == [core |-> NegativeCore(q, at), kid |-> profile]
RecogniseNotFinalized(profile, negative, q, at, kid) ==
  negative.kid = kid /\ Declares(profile, kid) /\ negative.core = NegativeCore(q, at)
\* Only the time and the key are taken from the signed status itself.
RecogniseNegative(profile, negative, q) ==
  RecogniseNotFinalized(profile, negative, q, negative.core.observedAt, negative.kid)

\* A change of authority the person must approve before an answer is applied.
AcceptedRotation(current) == ~Declares(current, OfferKid)
NegativeRotation(negative) == negative.kid # OfferKid

\* recovered_receipt_object: the receipt the relay lost, rebuilt on the payload
\* and authenticated like one that arrived.
RecoveredReceipt(held, status) == Append(held, Receipt(status))
AuthenticateReceipt(o) == RecogniseFinalStatus(Last(o).status, Held(Front(o)))
=============================================================================
