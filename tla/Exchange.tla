------------------------------ MODULE Exchange ------------------------------
(***************************************************************************)
(* The credential/v2 documents as pure operators: the hub's offer core and *)
(* signed offer, the reciprocal-authority status, the closed grammar of    *)
(* successor objects (crates/selfsame-pairing/src/credential_v2/bodies.rs),*)
(* the browser's staging receipt and the final status.                     *)
(*                                                                         *)
(* Every object carries the digest of its predecessor, so an object is the *)
(* sequence of bodies that leads to it.  A digest stands for what it       *)
(* digests, a signature for membership in what its signer has signed.      *)
(* Ids the parties draw for one ceremony (request id, intent nonce,        *)
(* carrier, transcript) are the ceremony's name in the core.               *)
(***************************************************************************)
EXTENDS Naturals, Sequences, SequencesExt

CONSTANTS Ceremonies,  \* carrier ceremony ids
          Accounts,    \* account scopes of the application
          Snapshots,   \* versions of the account's locked room snapshot
          Dids,        \* issuer DIDs
          None         \* the absent value of every Option

Core == [cer : Ceremonies, account : Accounts, rooms : Snapshots]
AuthorityStatus == [core : Core, did : Dids \cup {None}]

-----------------------------------------------------------------------------
(* Offers *)

PrepareOfferCore(cer, account, rooms) == [cer |-> cer, account |-> account, rooms |-> rooms]
\* verify_prepared_offer_device_proof: the possession proof signs the core itself.
ProofVerifies(proof, core) == proof = core
OfferObject(core) == <<[kind |-> "offer", core |-> core]>>
BuildAuthorityStatus(core, binding) == [core |-> core, did |-> binding]
\* recognise_authority_status_response, under the core the caller expects.
SpeaksForCeremony(status, core) == status.core.cer = core.cer
Speaks(status, core) == status.core = core

-----------------------------------------------------------------------------
(* Body authority: the one attempt a grammar is bound to *)

Bind(core) == [core |-> core, preview |-> None, payload |-> None]
RequireBoundOffer(bound, core) == bound # None /\ bound.core = core
Kind(o) == Last(o).kind
RequirePredecessor(bound, o, kinds) ==
  bound # None /\ o # <<>> /\ o[1].core = bound.core /\ Kind(o) \in kinds

RetainPreview(bound, did) == bound.preview \in {None, did}
RetainPayload(bound, o) == bound.payload \in {None, o}

\* comparison_status: what a status says of the retained preview.
ComparisonKind(bound, status) ==
  CASE status.did = None -> "comparison-confirmed"
    [] status.did # None /\ status.did = bound.preview -> "binding-confirmed"
    [] OTHER -> "refused"
\* migration_confirmation_digest_parts: the offer core, which states the transition,
\* and the issuer.
ConfirmationOf(core, did) == <<core, did>>
MigrationConfirmation(bound) == ConfirmationOf(bound.core, bound.preview)

-----------------------------------------------------------------------------
(* Builders: the body that follows an object, and when one may be built *)

IntentDecision(bound, decision) == [kind |-> decision, core |-> bound.core]
Preparation(bound, did) == [kind |-> "preparation", core |-> bound.core, did |-> did]
Comparison(bound, status) ==
  [kind |-> ComparisonKind(bound, status), did |-> bound.preview, status |-> status]
FinalDecision(bound, decision) == [kind |-> decision, did |-> bound.preview]
Refusal == [kind |-> "refusal"]
Payload(bound) == [kind |-> "payload", core |-> bound.core, did |-> bound.preview,
                   confirmation |-> MigrationConfirmation(bound)]
Receipt(status) == [kind |-> "receipt", status |-> status]

Compared == {"comparison-confirmed", "binding-confirmed"}
BeforePayloadAny == Compared \cup {"final-approve"}
BeforePayload == {"final-approve"}
Refusable == {"offer", "intent-approve", "preparation", "final-approve"} \cup Compared

-----------------------------------------------------------------------------
(* Verification of a received body against the bound authority *)

VerifyIntentDecision(bound, b) == b.core = bound.core
VerifyPreparation(bound, b) == b.core = bound.core /\ RetainPreview(bound, b.did)
VerifyComparison(bound, b) ==
  /\ bound.preview # None /\ b.did = bound.preview
  /\ Speaks(b.status, bound.core)
  /\ ComparisonKind(bound, b.status) = b.kind
VerifyFinal(bound, b) == bound.preview # None /\ b.did = bound.preview
VerifyPayload(bound, o) == LET b == Last(o) IN
  /\ bound.preview # None /\ b.did = bound.preview
  /\ b.core = bound.core
  /\ b.confirmation = MigrationConfirmation(bound)
  /\ RetainPayload(bound, o)

VerifyBody(bound, o) == LET b == Last(o) IN
  /\ bound # None
  /\ CASE b.kind \in {"intent-approve", "intent-decline"} -> VerifyIntentDecision(bound, b)
       [] b.kind = "preparation" -> VerifyPreparation(bound, b)
       [] b.kind \in Compared -> VerifyComparison(bound, b)
       [] b.kind \in {"final-approve", "final-decline"} -> VerifyFinal(bound, b)
       [] b.kind = "payload" -> VerifyPayload(bound, o)
       [] b.kind \in {"refusal", "receipt"} -> TRUE

\* What verifying o leaves retained in the authority.
Retain(bound, o) ==
  CASE Kind(o) = "preparation" -> [bound EXCEPT !.preview = Last(o).did]
    [] Kind(o) = "payload" -> [bound EXCEPT !.payload = o]
    [] OTHER -> bound

\* encode_authority_checkpoint: the preview is sealed, the payload is not.
Checkpointed(bound) == IF bound = None THEN None ELSE [bound EXCEPT !.payload = None]

-----------------------------------------------------------------------------
(* Staging and the final status *)

\* browser_staging_input: what the browser's installation key signs.
StagingInput(bound) ==
  [core |-> bound.core, did |-> bound.preview, payload |-> bound.payload]
StagingMembers(input) == <<input.core, input.did, input.payload>>
BuildStagingReceipt(input) == [signed |-> StagingMembers(input)]
\* The receipt parsed is the one the expected facts would build.
RecogniseStagingReceipt(receipt, expected) == receipt = BuildStagingReceipt(expected)
Finalization(bound) == [facts |-> StagingInput(bound),
                        receipt |-> BuildStagingReceipt(StagingInput(bound)),
                        closure |-> bound.preview]
\* build_final_status over the facts of one acceptance.
FinalStatus(input) == [core |-> input.core, did |-> input.did, payload |-> input.payload]
\* recognise_final_status: the signed core is the expected one, octet for octet.
RecogniseFinalStatus(status, expected) == status = FinalStatus(expected)
\* recognise_final_status_with_embedded_time: the wallet's expectation comes from
\* the payload it holds.
HeldPredecessor(o) == [core |-> o[1].core, did |-> Last(o).did, payload |-> Front(o)]
Held(o) == [core |-> o[1].core, did |-> Last(o).did, payload |-> o]
\* recognise_final_status_for_retained_receipt: the payload is gone; its receipt,
\* rebuilt from the status, must be the sealed one.
RecogniseRetained(status, core, receipt) ==
  /\ Append(status.payload, Receipt(status)) = receipt
  /\ status.core = core
=============================================================================
