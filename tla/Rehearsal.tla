----------------------------- MODULE Rehearsal -----------------------------
(***************************************************************************)
(* DemoCeremony (selfsame-pairing/src/lib.rs): one credential/v1 ceremony  *)
(* run in one process, over a relay of its own, as pure operators on its   *)
(* record.  It is the reference the live sessions are held to.  The        *)
(* endpoint reducers and the relay service are cbcl-pairing's.             *)
(***************************************************************************)
EXTENDS Naturals, Sequences, FiniteSets

\* decode_selfsame_invitation: a complete retired carrier has an error of its own
DecodeInvitation(carrier) ==
  CASE carrier.kind = "retired" -> "PairingVersionUnsupported"
    [] carrier.kind = "invitation" -> "invitation"
    [] OTHER -> "Recognition"

\* A transfer's claims are those of the grant it carries, and both are this
\* wallet's: application, origin, recipient, device, account and scope.
RecogniseTransferClaims(transfer, wallet) ==
  LET grant == transfer.grant IN
  /\ transfer.application = grant.application /\ transfer.application = wallet.application
  /\ transfer.origin = wallet.origin
  /\ transfer.recipient = grant.device /\ grant.device = wallet.device
  /\ grant.account = wallet.account
  /\ grant.permissions = <<transfer.scope>> /\ wallet.permissions = <<transfer.scope>>

\* CredentialGrant::encode: the entries of the body in their canonical order
GrantBody(transfer) ==
  <<<<"scope", transfer.scope>>, <<"origin", transfer.origin>>,
    <<"recipient", transfer.recipient>>, <<"credential", transfer.grant>>,
    <<"application-id", transfer.application>>>>

\* recognise_credential_grant_body: five entries, each name once, nothing
\* else, and the encoding of what they say is the body that came.
RecogniseGrantBody(body) ==
  LET names == {body[n][1] : n \in DOMAIN body}
      Named(name) == (CHOOSE n \in DOMAIN body : body[n][1] = name)
      Value(name) == body[Named(name)][2]
  IN  /\ Len(body) = 5
      /\ names = {"application-id", "origin", "scope", "recipient", "credential"}
      /\ body = GrantBody([application |-> Value("application-id"), origin |-> Value("origin"),
                           scope |-> Value("scope"), recipient |-> Value("recipient"),
                           grant |-> Value("credential")])

-----------------------------------------------------------------------------
(* BlindRelay: two connections in one mailbox.                             *)

Sides == {"allocator", "claimant"}
MaxSequence == 255  \* next_sequence is a u8

\* bind, allocate, bind and claim have each had their one answer
NewRelay == [mailboxes |-> 1, next |-> [s \in Sides |-> 0], frames |-> 0]

Transmits(relay, side) == relay.mailboxes = 1 /\ relay.next[side] < MaxSequence
Transmit(relay, side) == [relay EXCEPT !.next[side] = @ + 1, !.frames = @ + 1]

\* close, and the sweep of what is closed
CloseRelay(relay) == [relay EXCEPT !.mailboxes = 0]

-----------------------------------------------------------------------------
(* The ceremony.                                                           *)

\* establish: what each side sends until the intent is displayed; the two take
\* turns, and the allocator's last two frames come together
Opening == [allocator |-> <<"cpace", "finished", "opener", "intent">>,
            claimant |-> <<"cpace", "finished">>]

Established ==
  [allocator |-> "live", claimant |-> "live", delivered |-> 0, verifications |-> 0,
   terminal |-> FALSE,
   relay |-> [NewRelay EXCEPT !.next = [s \in Sides |-> Len(Opening[s])],
                              !.frames = Len(Opening.allocator) + Len(Opening.claimant)]]

\* What each side has sent when the ceremony is over, by sequence number.
Script ==
  [allocator |-> [n \in 1..5 |-> IF n = 5 THEN {"payload"} ELSE {Opening.allocator[n]}],
   claimant |-> [n \in 1..3 |-> IF n = 3 THEN {"approve", "decline"}
                                ELSE {Opening.claimant[n]}]]

Refusal(error) == [ok |-> FALSE, error |-> error]

\* PendingTransfer::new: the credential fits and its claims are the wallet's
NewTransfer(carrier, transfer, wallet, fits) ==
  IF fits /\ RecogniseTransferClaims(transfer, wallet)
  THEN [ok |-> TRUE, carrier |-> carrier, transfer |-> transfer] ELSE Refusal("Profile")

\* PendingTransfer::begin takes the pending transfer and exactly its carrier.
BeginTransfer(pending, presented) ==
  CASE presented # pending.carrier -> Refusal("Recognition")
    [] presented = pending.carrier /\ DecodeInvitation(presented) # "invitation" ->
         Refusal(DecodeInvitation(presented))
    [] OTHER -> [ok |-> TRUE, demo |-> Established]

\* erase_after_failure: both endpoints are cancelled and the mailbox goes
Erased(demo) ==
  [demo EXCEPT !.allocator = "erased", !.claimant = "erased", !.relay = CloseRelay(@)]

Ended(demo) == [demo EXCEPT !.terminal = TRUE]
Result(demo, outcome) == [demo |-> demo, outcome |-> outcome]
Once(demo, result) == IF demo.terminal THEN Result(demo, "State") ELSE result

\* approve: decision, payload, the verifier's answer, and only then the close
Approve(demo, verified) ==
  LET decided == Transmit(demo.relay, "claimant")
      closed == [Ended(demo) EXCEPT !.relay = CloseRelay(Transmit(decided, "allocator")),
                   !.allocator = "closed", !.claimant = "closed",
                   !.delivered = @ + 1, !.verifications = @ + 1]
  IN  Once(demo,
        IF Transmits(demo.relay, "claimant") /\ Transmits(decided, "allocator")
        THEN IF verified THEN Result(closed, "accepted") ELSE Result(Erased(closed), "refused")
        ELSE Result(Erased(Ended(demo)), "Pairing"))

\* decline: one frame, and the claimant closes
Decline(demo) ==
  Once(demo,
    IF Transmits(demo.relay, "claimant")
    THEN Result([Ended(demo) EXCEPT !.relay = CloseRelay(Transmit(demo.relay, "claimant"))],
                "declined")
    ELSE Result(Erased(Ended(demo)), "Pairing"))

\* cancel erases both sides whatever either of them answers
CancelDemo(demo) == Once(demo, Result(Erased(Ended(demo)), "cancelled"))

\* expire: the relay sweeps, and both sides are told
ExpireDemo(demo) ==
  Once(demo, Result([Ended(demo) EXCEPT !.relay = CloseRelay(@), !.allocator = "closed",
                                        !.claimant = "closed"], "closed"))

\* What a snapshot tells of how the ceremony ended.
Snapshot(result) ==
  [outcome |-> result.outcome, delivered |-> result.demo.delivered > 0,
   open |-> result.demo.relay.mailboxes > 0]
=============================================================================
