------------------------------ MODULE Ceremony ------------------------------
(***************************************************************************)
(* One credential/v2 ceremony from the offer to the receipt, across the    *)
(* three parties that keep state of it:                                    *)
(*   hub     selfsame-beam/src/credential_v2.rs; its Mnesia rows and fence *)
(*           are external and appear as the hub record;                    *)
(*   browser CredentialV2BrowserAllocatorSession (selfsame-web-device),    *)
(*           a session in memory and one sealed checkpoint on disk;        *)
(*   wallet  the claimant: in memory until the payload, which is durable.  *)
(* A payload the relay lost is recovered from the hub over HTTPS, under a   *)
(* profile whose key may rotate meanwhile.                                 *)
(* Either device may stop at any step.  wire is every object ever handed   *)
(* to the relay: a receiver may take one late, twice or never.  The        *)
(* allocator endpoint of cbcl-pairing is external: it accepts only a       *)
(* successor of its head, and releases an effect once its checkpoint is    *)
(* acknowledged; the order of kinds it enforces as well is left out, so     *)
(* what holds here rests on the builders' own predecessor checks.          *)
(***************************************************************************)
EXTENDS Recovery, Offers

CONSTANTS This,          \* the ceremony under way
          Earlier,       \* an offer core the hub signed for an earlier ceremony
          WalletDid,     \* the wallet's root
          Selections,    \* accounts the person may select before the offer, or None
          OfferExpiry,   \* expiresAt of this ceremony's cores
          CarrierExpiry, \* relayExpiresAt; the bound of the clock as well
          Profile,       \* the application's profile: relays, permissions, keys
          Carrier,       \* the carrier of this ceremony
          Request,       \* what the browser asks for, with its device key
          SnapshotOf,    \* the rows of each version of the account's rooms
          Signer         \* the key the hub signs with, and its name

\* The outcome of a signed negative.
Refused == [outcome |-> "not-finalized"]

ASSUME CeremonyAssumption ==
  /\ This \in Ceremonies /\ Earlier \in Core /\ Earlier.cer # This
  /\ WalletDid \in Dids /\ None \notin Dids /\ Refused # None
  /\ None \notin {"established", "received", "send"}
  /\ Selections \subseteq Accounts \cup {None}
  /\ OfferExpiry \in Nat /\ CarrierExpiry \in Nat /\ OfferExpiry <= CarrierExpiry

VARIABLES hub,      \* prepared, proven, signed, statuses, binding, rooms, staged,
                    \* witnesses, row, closed, profile
          session,  \* the live browser session, or None
          disk,     \* ckpt: the sealed checkpoint, if any; active: the activated status
          wallet,   \* live, head, auth, held and done (durable), selection
          inquiry,  \* the wallet's recovery request, or None
          wire,     \* objects handed to the relay
          agreed,   \* terms each person agreed to
          now
vars == <<hub, session, disk, wallet, inquiry, wire, agreed, now>>

Terms == [core : Core, did : Dids]
Fresh(pend) == [head |-> <<>>, channel |-> FALSE, pend |-> pend, transcript |-> FALSE,
                prepared |-> None, kid |-> FALSE, status |-> None, auth |-> None,
                last |-> None]
FreshUnset == Fresh("sent")
FreshSession == Fresh(None)

Init ==
  /\ hub = [prepared |-> {Earlier}, proven |-> {}, signed |-> {Earlier},
            statuses |-> {BuildAuthorityStatus(Earlier, None)},
            account |-> Earlier.account, binding |-> None, rooms |-> Earlier.rooms,
            staged |-> {}, witnesses |-> {}, row |-> None, closed |-> FALSE, profile |-> OfferKid]
  /\ session = None
  /\ disk = [ckpt |-> {}, active |-> None]
  /\ \E selection \in Selections :
       wallet = [live |-> TRUE, head |-> <<>>, auth |-> None, held |-> None,
                 done |-> None, selection |-> selection]
  /\ inquiry = None /\ wire = {}
  /\ agreed = [wallet |-> {}, browser |-> {}]
  /\ now = 0

-----------------------------------------------------------------------------
(* The hub *)

HubPrepare == LET core == PrepareOfferCore(This, hub.account, hub.rooms) IN
  /\ hub.row = None /\ ~hub.closed /\ now < OfferExpiry
  /\ core \notin hub.prepared
  /\ RecogniseAllocation(Profile, Carrier, Request)
  /\ OfferBuilds(Profile, Carrier, Request, SnapshotOf[hub.rooms])
  /\ hub' = [hub EXCEPT !.prepared = @ \cup {core}]
  /\ UNCHANGED <<session, disk, wallet, inquiry, wire, agreed, now>>

HubSigns == SigningKeyDeclared(Profile.keys, Signer.kid, Signer.key)
HubProven(core) == \E proof \in hub.proven : ProofVerifies(proof, core)
HubStatus(core) == BuildAuthorityStatus(core, hub.binding)
HubFinalizeOffer(core) ==
  /\ core \in hub.prepared /\ HubProven(core)
  /\ RecognisePrepared(Profile, Carrier, Request, SnapshotOf[core.rooms]) /\ HubSigns
  /\ hub' = [hub EXCEPT !.signed = @ \cup {core}, !.statuses = @ \cup {HubStatus(core)}]
  /\ UNCHANGED <<session, disk, wallet, inquiry, wire, agreed, now>>

\* Hub state that other ceremonies and people move: rooms joined, and the
\* account paired from another device.
Elsewhere ==
  /\ hub.row = None /\ now < OfferExpiry
  /\ \/ \E r \in Snapshots : r > hub.rooms /\ hub' = [hub EXCEPT !.rooms = r]
     \/ hub.binding = None /\ \E d \in Dids : hub' = [hub EXCEPT !.binding = d]
  /\ UNCHANGED <<session, disk, wallet, inquiry, wire, agreed, now>>

\* validate_credential_v2_acceptance: the offer is one the hub signed, the
\* payload's confirmation is over that offer, and the installation key signed
\* exactly these facts.
VerifyStagingReceipt(f) == RecogniseStagingReceipt(f.receipt, f.facts)
ValidAcceptance(f) == LET s == f.facts IN
  /\ s.core \in hub.signed /\ s.payload # None
  /\ Last(s.payload).confirmation = ConfirmationOf(s.core, s.did)
  /\ Last(s.payload).did = s.did
  /\ VerifyStagingReceipt(f)
\* The verified command becomes a witness that already carries the signed status
\* (once the row is decided, another witness is of no use) ...
SignAcceptance(f) == FinalStatus(f.facts)
HubVerify(f) ==
  /\ hub.row = None /\ ~hub.closed /\ ValidAcceptance(f)
  /\ ReplayCarriedClosure(Profile, f.closure, f.facts.did) /\ HubSigns
  /\ SignAcceptance(f) \notin hub.witnesses
  /\ hub' = [hub EXCEPT !.witnesses = @ \cup {SignAcceptance(f)}]
  /\ UNCHANGED <<session, disk, wallet, inquiry, wire, agreed, now>>
\* ... and the transaction, which may be tried again, reads its facts.
AcceptanceFacts(w) == [binding |-> w.did, row |-> w]
HubAccept(w) == LET facts == AcceptanceFacts(w) IN
  /\ hub.row = None /\ ~hub.closed /\ hub.binding \in {None, facts.binding}
  /\ hub' = [hub EXCEPT !.row = facts.row, !.binding = facts.binding]
  /\ UNCHANGED <<session, disk, wallet, inquiry, wire, agreed, now>>

-----------------------------------------------------------------------------
(* The browser session *)

New == /\ session = None /\ disk.ckpt = {} /\ now < CarrierExpiry
       /\ session' = FreshSession
       /\ UNCHANGED <<hub, disk, wallet, inquiry, wire, agreed, now>>

\* The relay handshake completed: the transcript follows its checkpoint.
Establish ==
  /\ session # None /\ ~session.channel /\ wallet.live
  /\ session' = [session EXCEPT !.channel = TRUE, !.pend = "established"]
  /\ UNCHANGED <<hub, disk, wallet, inquiry, wire, agreed, now>>

\* device_possession_input, and the shell hands the proof to the hub.
DevicePossession(core) ==
  /\ session # None /\ core \in hub.prepared
  /\ session.prepared = None /\ now < OfferExpiry /\ session.transcript
  /\ core.cer = This
  /\ session' = [session EXCEPT !.prepared = core]
  /\ hub' = [hub EXCEPT !.proven = @ \cup {core}]
  /\ UNCHANGED <<disk, wallet, inquiry, wire, agreed, now>>

\* The endpoint takes o as its next object; its effect waits for the checkpoint.
Seals(o) == session.pend = None /\ session.channel /\ Front(o) = session.head

PrepareOffer(core, status) ==
  /\ session # None /\ session.prepared # None
  /\ core \in hub.signed /\ status \in hub.statuses
  /\ core = session.prepared /\ now < OfferExpiry /\ Speaks(status, core)
  /\ session.auth = None
  /\ Seals(OfferObject(core))
  /\ session' = [session EXCEPT !.auth = Bind(core), !.kid = TRUE, !.status = status,
                                !.head = OfferObject(core), !.pend = "send"]
  /\ UNCHANGED <<hub, disk, wallet, inquiry, wire, agreed, now>>

ByWallet == {"intent-approve", "intent-decline", "preparation", "final-approve",
             "final-decline", "payload", "refusal"}
BrowserReceive(o) ==
  /\ session # None /\ o \in wire /\ Kind(o) \in ByWallet /\ Seals(o)
  /\ VerifyBody(session.auth, o)
  /\ session' = [session EXCEPT !.head = o, !.pend = "received",
                                !.auth = Retain(session.auth, o)]
  /\ UNCHANGED <<hub, disk, wallet, inquiry, wire, agreed, now>>

Holds(kind) == session.last # None /\ Kind(session.last) = kind

\* preparation_view_json: what the person is shown comes from the authority, never
\* from the peer's body.
PreparationShown == Holds("preparation") /\ session.auth.preview # None
\* prepare_comparison, once the person has compared the fingerprints; a
\* standing binding to the same DID stands for the person.
PrepareComparison ==
  /\ session # None /\ PreparationShown /\ session.status # None
  /\ RequirePredecessor(session.auth, session.last, {"preparation"})
  /\ Speaks(session.status, session.auth.core)
  /\ ComparisonKind(session.auth, session.status) # "refused"
  /\ LET o == Append(session.last, Comparison(session.auth, session.status)) IN
       /\ Seals(o) /\ now < OfferExpiry
       /\ session' = [session EXCEPT !.head = o, !.pend = "send"]
  /\ agreed' = [agreed EXCEPT !.browser =
                  @ \cup {[core |-> session.auth.core, did |-> session.auth.preview]}]
  /\ UNCHANGED <<hub, disk, wallet, inquiry, wire, now>>

\* payload_view, the staging receipt and the finalization command.
Stage ==
  /\ session # None /\ Holds("payload") /\ session.auth.payload # None
  /\ hub' = [hub EXCEPT !.staged = @ \cup {Finalization(session.auth)}]
  /\ UNCHANGED <<session, disk, wallet, inquiry, wire, agreed, now>>

VerifyFinalStatus(status) ==
  /\ Holds("payload") /\ session.auth.payload # None /\ session.kid
  /\ RecogniseFinalStatus(status, StagingInput(session.auth))
\* The browser makes its active record durable after verify_final_status.
Activate ==
  /\ session # None /\ hub.row # None /\ VerifyFinalStatus(hub.row)
  /\ disk.active = None
  /\ disk' = [disk EXCEPT !.active = hub.row]
  /\ UNCHANGED <<hub, session, wallet, inquiry, wire, agreed, now>>
PrepareReceipt ==
  /\ session # None /\ disk.active # None /\ VerifyFinalStatus(disk.active)
  /\ LET o == Append(session.last, Receipt(disk.active)) IN
       /\ RequirePredecessor(session.auth, session.last, {"payload"})
       /\ Seals(o)
       /\ session' = [session EXCEPT !.head = o, !.pend = "send"]
  /\ UNCHANGED <<hub, disk, wallet, inquiry, wire, agreed, now>>

-----------------------------------------------------------------------------
(* Checkpoints, crashes and restoration *)

Sealed(s) == [head |-> s.head, channel |-> s.channel, auth |-> Checkpointed(s.auth)]

WriteCheckpoint ==
  /\ session # None /\ session.pend # None /\ disk.ckpt # {Sealed(session)}
  /\ disk' = [disk EXCEPT !.ckpt = {Sealed(session)}]
  /\ UNCHANGED <<hub, session, wallet, inquiry, wire, agreed, now>>

\* The generation acknowledged is the generation sealed.
Unfenced == TRUE
Durable == disk.ckpt = {Sealed(session)}
Released == CASE session.pend = "established" -> [session EXCEPT !.pend = None, !.transcript = TRUE]
              [] session.pend = "received" -> [session EXCEPT !.pend = None, !.last = session.head]
              [] session.pend = "send" -> [session EXCEPT !.pend = None]
CheckpointPersisted ==
  /\ session # None /\ session.pend # None /\ Durable
  /\ session' = Released
  /\ wire' = IF session.pend = "send" THEN wire \cup {session.head} ELSE wire
  /\ UNCHANGED <<hub, disk, wallet, inquiry, agreed, now>>

\* A crash, or cancel.
StopBrowser == /\ session # None /\ session' = None
               /\ UNCHANGED <<hub, disk, wallet, inquiry, wire, agreed, now>>

\* The peer's last object in a sealed chain, and the authority rebuilt from it.
LastReceived(head) ==
  LET theirs == {n \in 1..Len(head) : head[n].kind \in ByWallet}
  IN IF theirs = {} THEN None
     ELSE SubSeq(head, 1, CHOOSE n \in theirs : \A k \in theirs : k <= n)
RestoreRetained(auth, o) ==
  IF o = None \/ Kind(o) \notin {"preparation", "payload"} THEN auth ELSE Retain(auth, o)

\* restore: everything the hub's documents supplied must be supplied again.
Restore == \E ckpt \in disk.ckpt :
  /\ session = None /\ now < CarrierExpiry
  /\ LET o == LastReceived(ckpt.head) IN
       session' = [FreshSession EXCEPT !.head = ckpt.head, !.channel = ckpt.channel,
                     !.transcript = ckpt.channel, !.last = o,
                     !.auth = RestoreRetained(ckpt.auth, o)]
  /\ wire' = IF ckpt.head # <<>> /\ Kind(ckpt.head) \notin ByWallet
             THEN wire \cup {ckpt.head} ELSE wire
  /\ UNCHANGED <<hub, disk, wallet, inquiry, agreed, now>>

RestoreContextBinds(core, status, auth, head) ==
  /\ core.cer = This /\ Speaks(status, core)
  /\ head # <<>> => RequireBoundOffer(auth, core)
RestoreContext(core, status) ==
  /\ session # None /\ session.channel /\ ~session.kid /\ now < OfferExpiry
  /\ core \in hub.signed /\ status \in hub.statuses
  /\ RestoreContextBinds(core, status, session.auth, session.head)
  /\ session' = [session EXCEPT !.prepared = core, !.kid = TRUE, !.status = status]
  /\ UNCHANGED <<hub, disk, wallet, inquiry, wire, agreed, now>>

\* CredentialV2BrowserAllocatorClosureInspection: no session, the saved facts
\* against the hub's exact result, whatever has expired.
ClosureVerifies(ckpt, core, status) == LET o == LastReceived(ckpt.head)
                                           auth == RestoreRetained(ckpt.auth, o) IN
  /\ ckpt.head # <<>> /\ core.cer = This /\ RequireBoundOffer(auth, core)
  /\ IF Kind(ckpt.head) = "receipt"
     THEN RecogniseRetained(status, core, ckpt.head)
     ELSE /\ o # None /\ Kind(o) = "payload"
          /\ RecogniseFinalStatus(status, StagingInput(auth))
CloseFromDisk(core) ==
  /\ session = None /\ disk.active = None
  /\ core \in hub.signed /\ hub.row # None
  /\ \E ckpt \in disk.ckpt : ClosureVerifies(ckpt, core, hub.row)
  /\ disk' = [disk EXCEPT !.active = hub.row]
  /\ UNCHANGED <<hub, session, wallet, inquiry, wire, agreed, now>>

-----------------------------------------------------------------------------
(* The wallet *)

\* CredentialV2WalletOfferVerifier.
OfferVerifies(o) == LET core == o[1].core IN
  /\ core \in hub.signed /\ core.cer = This /\ now < OfferExpiry
  /\ wallet.selection \in {None, core.account}
WalletOffer(o) ==
  /\ wallet.live /\ wallet.head = <<>> /\ o \in wire /\ Kind(o) = "offer" /\ OfferVerifies(o)
  /\ wallet' = [wallet EXCEPT !.head = o, !.auth = Bind(o[1].core)]
  /\ UNCHANGED <<hub, session, disk, inquiry, wire, agreed, now>>

Send(o) == /\ wire' = wire \cup {o}
           /\ UNCHANGED <<hub, session, disk, inquiry, now>>
AtHead(kinds) == wallet.live /\ RequirePredecessor(wallet.auth, wallet.head, kinds)
WalletIntent(decision) ==
  /\ AtHead({"offer"}) /\ now < OfferExpiry
  /\ LET o == Append(wallet.head, IntentDecision(wallet.auth, decision)) IN
       wallet' = [wallet EXCEPT !.head = o] /\ Send(o)
  /\ UNCHANGED agreed
WalletPreview ==
  /\ AtHead({"intent-approve"}) /\ now < OfferExpiry
  /\ LET o == Append(wallet.head, Preparation(wallet.auth, WalletDid)) IN
       wallet' = [wallet EXCEPT !.head = o, !.auth = Retain(wallet.auth, o)] /\ Send(o)
  /\ UNCHANGED agreed
WalletCompared(o) ==
  /\ AtHead({"preparation"}) /\ o \in wire /\ Front(o) = wallet.head /\ Kind(o) \in Compared
  /\ now < OfferExpiry /\ VerifyBody(wallet.auth, o)
  /\ wallet' = [wallet EXCEPT !.head = o]
  /\ UNCHANGED <<hub, session, disk, inquiry, wire, agreed, now>>
WalletFinal(decision) ==
  /\ AtHead(Compared) /\ now < OfferExpiry
  /\ LET o == Append(wallet.head, FinalDecision(wallet.auth, decision)) IN
       wallet' = [wallet EXCEPT !.head = o] /\ Send(o)
  /\ agreed' = IF decision = "final-decline" THEN agreed
               ELSE [agreed EXCEPT !.wallet =
                       @ \cup {[core |-> wallet.auth.core, did |-> wallet.auth.preview]}]
WalletRefuse ==
  /\ AtHead(Refusable)
  /\ LET o == Append(wallet.head, Refusal) IN
       wallet' = [wallet EXCEPT !.head = o] /\ Send(o)
  /\ UNCHANGED agreed
\* The payload is made durable before the relay sees it.
WalletSeal ==
  /\ AtHead(BeforePayload) /\ now < OfferExpiry
  /\ LET o == Append(wallet.head, Payload(wallet.auth)) IN
       wallet' = [wallet EXCEPT !.head = o, !.held = o, !.auth = Retain(wallet.auth, o)]
  /\ UNCHANGED <<hub, session, disk, inquiry, wire, agreed, now>>
WalletSend == /\ AtHead({"payload"}) /\ wallet.held \notin wire
              /\ Send(wallet.held) /\ UNCHANGED <<wallet, inquiry, agreed>>
WalletReceipt(o) ==
  /\ AtHead({"payload"}) /\ o \in wire /\ Kind(o) = "receipt" /\ Front(o) = wallet.head
  /\ RecogniseFinalStatus(Last(o).status, Held(wallet.held))
  /\ wallet' = [wallet EXCEPT !.head = o, !.done = Last(o).status]
  /\ UNCHANGED <<hub, session, disk, inquiry, wire, agreed, now>>

StopWallet ==
  /\ wallet.live
  /\ wallet' = [wallet EXCEPT !.live = FALSE, !.head = <<>>, !.auth = None]
  /\ UNCHANGED <<hub, session, disk, inquiry, wire, agreed, now>>

-----------------------------------------------------------------------------
(* Recovery *)

Retained == RecogniseRequest(RecoveryRequest(This, Token(This)))
\* recover_claimant_completion: once the relay window is over, the profile is
\* fetched and the request posted.
WalletAsk ==
  /\ wallet.held # None /\ wallet.done = None /\ now >= CarrierExpiry
  /\ inquiry = None
  /\ inquiry' = [request |-> RecoveryRequest(This, Token(This)), profile |-> hub.profile]
  /\ UNCHANGED <<hub, session, disk, wallet, wire, agreed, now>>

\* A request that finds no row fences the ceremony against finishing. The answer
\* may be lost, or left unapproved under a rotated key; once the ceremony has its
\* outcome that only leads back to before the request, and is left out there, as
\* are the two answers that are not terminal.
HubFence ==
  /\ inquiry # None /\ hub.row = None /\ ~hub.closed
  /\ hub' = [hub EXCEPT !.closed = TRUE]
  /\ inquiry' \in {inquiry, None}
  /\ UNCHANGED <<session, disk, wallet, wire, agreed, now>>
HubAnswer == IF hub.row # None THEN Accepted(hub.row)
             ELSE NotFinalized(BuildNotFinalized(hub.profile, RecogniseRequest(inquiry.request), now))
\* The enrolment key is rotated (looked at only where a recovery may see it).
HubRotate ==
  /\ hub.profile = OfferKid /\ now = CarrierExpiry
  /\ wallet.held # None /\ wallet.done = None
  /\ hub' = [hub EXCEPT !.profile = OfferKid + 1]
  /\ UNCHANGED <<session, disk, wallet, inquiry, wire, agreed, now>>

\* The account's live binding names the issuer that is installed.
VerifyLiveInstallation(status) == hub.binding = status.did
\* A terminal answer is verified and, under another key, approved by the person.
AdoptsAccepted(answer, approved) ==
  /\ answer.kind = "accepted"
  /\ AuthenticateReceipt(RecoveredReceipt(wallet.held, answer.status))
  /\ AcceptedRotation(inquiry.profile) => approved
  /\ VerifyLiveInstallation(answer.status)
AdoptsNegative(answer, approved) ==
  /\ answer.kind = "not-finalized"
  /\ RecogniseNegative(inquiry.profile, answer.status, Retained)
  /\ NegativeRotation(answer.status) => approved
Adopts(answer, approved) == AdoptsAccepted(answer, approved) \/ AdoptsNegative(answer, approved)
Outcome(answer) == IF answer.kind = "accepted" THEN answer.status ELSE Refused

\* The answer arrives; one that does not verify changes nothing, and the next
\* request reads the profile again.
WalletSettle == LET adopts == \E approved \in BOOLEAN : Adopts(HubAnswer, approved) IN
  /\ inquiry # None /\ wallet.done = None /\ (hub.row # None \/ hub.closed)
  /\ wallet' = IF adopts THEN [wallet EXCEPT !.done = Outcome(HubAnswer)] ELSE wallet
  /\ inquiry' = None
  /\ UNCHANGED <<hub, session, disk, wire, agreed, now>>

Tick == /\ now < CarrierExpiry /\ now' = now + 1
        /\ UNCHANGED <<hub, session, disk, wallet, inquiry, wire, agreed>>
-----------------------------------------------------------------------------
Hub == \/ HubPrepare \/ Elsewhere \/ HubFence \/ HubRotate
       \/ \E core \in hub.prepared : HubFinalizeOffer(core)
       \/ \E f \in hub.staged : HubVerify(f)
       \/ \E w \in hub.witnesses : HubAccept(w)
Browser == \/ New \/ Establish \/ PrepareComparison \/ Stage \/ Activate \/ PrepareReceipt
           \/ \E core \in hub.prepared : DevicePossession(core)
           \/ \E core \in hub.signed, s \in hub.statuses : PrepareOffer(core, s)
           \/ \E o \in wire : BrowserReceive(o)
           \/ WriteCheckpoint \/ CheckpointPersisted \/ StopBrowser \/ Restore
           \/ \E core \in hub.signed, s \in hub.statuses : RestoreContext(core, s)
           \/ \E core \in hub.signed : CloseFromDisk(core)
Wallet == \/ \E o \in wire : WalletOffer(o) \/ WalletCompared(o) \/ WalletReceipt(o)
          \/ WalletIntent("intent-approve") \/ WalletIntent("intent-decline")
          \/ WalletPreview \/ WalletSeal \/ WalletSend \/ WalletRefuse \/ StopWallet
          \/ WalletFinal("final-approve") \/ WalletFinal("final-decline")
          \/ WalletAsk \/ WalletSettle
Next == Hub \/ Browser \/ Wallet \/ Tick
Spec == /\ Init /\ [][Next]_vars
        /\ WF_vars(WalletAsk \/ HubFence \/ WalletSettle) /\ WF_vars(Tick)

-----------------------------------------------------------------------------
TypeOK ==
  /\ hub.prepared \subseteq Core /\ hub.signed \subseteq Core /\ hub.row # Refused
  /\ hub.statuses \subseteq AuthorityStatus
  /\ session # None => session.pend \in {None, "established", "received", "send"}
  /\ session # None /\ session.auth # None => session.head # <<>>
  /\ wallet.done \in {None, Refused} \/ wallet.done.did \in Dids
  /\ now \in 0..CarrierExpiry

\* Whatever is lost, restored or prepared again, no party ever hands the relay
\* two different successors of one object: the checkpoint barrier of
\* prepare_application_object and checkpoint_persisted.
Sender(o) == IF Kind(o) \in ByWallet THEN "wallet" ELSE "browser"
OneSuccessor == \A o, p \in wire :
  Front(o) = Front(p) /\ Sender(o) = Sender(p) => o = p

\* A comparison the wallet goes on from rests on a status the hub signed for this
\* very core: an account known to be another wallet's is never presented as
\* unbound, nor the status of an earlier ceremony as this one's.
StatusBacked ==
  wallet.head # <<>> /\ Len(wallet.head) >= 4 /\ wallet.head[4].kind \in Compared =>
    /\ wallet.head[4].status \in hub.statuses
    /\ wallet.head[4].status.core = wallet.head[1].core
    /\ wallet.head[4].status.did \in {None, wallet.head[3].did}

\* The ceremony implements the agreement: the hub accepts only the terms both
\* persons agreed to, and neither device ends with another outcome.
OutcomeOf(x) == IF x \in {None, Refused} THEN x ELSE [core |-> x.core, did |-> x.did]
A == INSTANCE Agreement WITH
       Parties <- {"wallet", "browser"},
       consents <- agreed,
       decision <- IF hub.closed THEN Refused ELSE OutcomeOf(hub.row),
       known <- [wallet |-> OutcomeOf(wallet.done), browser |-> OutcomeOf(disk.active)]
Agrees == A!Spec

\* A wallet that holds a durable payload learns the outcome, whatever crashed.
Settles == wallet.held # None ~> wallet.done # None
=============================================================================
