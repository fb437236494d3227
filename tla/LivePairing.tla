---------------------------- MODULE LivePairing ----------------------------
(***************************************************************************)
(* credential/v1 pairing over a live relay (selfsame-pairing/src/live.rs): *)
(* an allocator session in a web page (CbclAllocatorSession), a claimant   *)
(* session in the wallet (cbcl_pairing.rs), and one mailbox between them.  *)
(* The relay and the endpoint reducers are cbcl-pairing's, external: the   *)
(* relay keeps each direction in order but may close at any time, and at a *)
(* Faulty invitation repeats or spoils one frame.  A frame is its sequence *)
(* number and the protocol step it carries.  Rehearsal, the same ceremony  *)
(* run in one process, is the reference the live one is held to.           *)
(***************************************************************************)
EXTENDS Rehearsal

CONSTANTS Invites,  \* invitations, one page session and one mailbox each
          Faulty,   \* those whose relay may misbehave once
          Transfers,  \* the transfer behind each invitation
          Wallet,   \* the application, device and account of this wallet
          Rosters,  \* what the wallet holds: the descriptors of each application
          Current,  \* the descriptors and permissions an application declares now
          Policy,   \* the build's: forbidden operators, approved evidence, loopback
          None

ASSUME LivePairingAssumption ==
  /\ Faulty \subseteq Invites
  /\ None \notin Invites \cup {"approve", "decline", "accepted", "declined", "refused",
                              "closed", "cancelled", "delivered", "intent"}

VARIABLES page,  \* the allocator's session per invitation
          core,  \* the wallet's claimant session per invitation
          mail,  \* the relay's mailbox
          slot   \* pending_cbcl_pairing: the session awaiting a decision
vars == <<page, core, mail, slot>>

Frame(n, b) == [k |-> "frame", seq |-> n, body |-> b]
Notice(k) == [k |-> k, seq |-> 0, body |-> "none"]

NewPage == [phase |-> "new", seq |-> 0, peer |-> 0, ready |-> FALSE, intent |-> FALSE,
            payload |-> FALSE, declined |-> FALSE, out |-> None]
NewCore == [phase |-> "none", owner |-> "none", proof |-> FALSE, seq |-> 0, peer |-> 0,
            step |-> "key", decision |-> None, accepted |-> FALSE, out |-> None,
            view |-> None]

Init ==
  /\ page = [i \in Invites |-> NewPage]
  /\ core = [i \in Invites |-> NewCore]
  /\ mail = [i \in Invites |-> [st |-> "none", box |-> <<>>, toA |-> <<>>, toC |-> <<>>,
                                cut |-> {}, fault |-> i \in Faulty]]
  /\ slot = None

-----------------------------------------------------------------------------
(* The relay.  A session that ends takes its socket with it.               *)

Deliver(m, way, messages) ==
  IF way \in m.cut THEN m ELSE [m EXCEPT ![way] = @ \o messages]

Cut(m, way) == [m EXCEPT ![way] = <<>>, !.cut = @ \cup {way}]

Put(m, to, seq, bodies) ==
  LET frames == [n \in 1..Len(bodies) |-> Frame(seq + n - 1, bodies[n])]
  IN  CASE m.st = "closed" -> m
        [] m.st # "closed" /\ to = "toA" -> Deliver(m, to, frames)
        [] m.st = "opened" /\ to = "toC" -> Deliver(m, to, frames)
        [] OTHER -> [m EXCEPT !.box = @ \o frames]

Close(m) ==
  IF m.st \in {"none", "closed"} THEN m
  ELSE LET told == Deliver(m, "toA", <<Notice("closed")>>)
       IN  [IF m.st = "open" THEN told ELSE Deliver(told, "toC", <<Notice("closed")>>)
              EXCEPT !.st = "closed", !.box = <<>>]

\* the mailbox's lifetime ends
Expire(i) ==
  /\ mail[i].st \notin {"none", "closed"}
  /\ mail' = [mail EXCEPT ![i] = Close(@)]
  /\ UNCHANGED <<page, core, slot>>

\* A body may be spoiled so that it no longer decodes as a frame, or so that it
\* decodes to a frame no endpoint takes.
Spoilt == {"garbled", "junk"}
Decodes(f) == f.body # "garbled"

\* A frame on its way is delivered a second time, or with its body spoiled.
Misdeliver(i) ==
  /\ mail[i].fault
  /\ \E way \in {"toA", "toC"} :
       /\ mail[i][way] # <<>> /\ Head(mail[i][way]).k = "frame"
       /\ \E q \in {<<Head(mail[i][way])>> \o mail[i][way]} \cup
                   {<<[Head(mail[i][way]) EXCEPT !.body = b]>> \o Tail(mail[i][way]) : b \in Spoilt} :
            mail' = [mail EXCEPT ![i][way] = q, ![i].fault = FALSE]
  /\ UNCHANGED <<page, core, slot>>

-----------------------------------------------------------------------------
(* The allocator's session.                                                *)

\* new and start: the page binds
Bind(i) ==
  /\ page[i].phase = "new"
  /\ page' = [page EXCEPT ![i].phase = "welcome"]
  /\ mail' = [mail EXCEPT ![i].toA = <<Notice("welcome")>>]
  /\ UNCHANGED <<core, slot>>

ForPage(i, k) ==
  /\ page[i].phase \notin {"new", "terminal"}
  /\ mail[i].toA # <<>>
  /\ Head(mail[i].toA).k = k

Popped(i, way) == [mail[i] EXCEPT ![way] = Tail(@)]

\* Welcome is answered by Allocate, which a relay may refuse.
Welcomed(i) ==
  /\ ForPage(i, "welcome") /\ page[i].phase = "welcome"
  /\ page' = [page EXCEPT ![i].phase = "allocation"]
  /\ \E granted \in BOOLEAN :
       mail' = [mail EXCEPT ![i] =
                  [Popped(i, "toA") EXCEPT
                     !.st = IF granted THEN "open" ELSE @,
                     !.toA = Append(@, Notice(IF granted THEN "allocated" ELSE "error"))]]
  /\ UNCHANGED <<core, slot>>

\* allocated: the invitation is published and the first frame put
Allocated(i) ==
  /\ ForPage(i, "allocated") /\ page[i].phase = "allocation"
  /\ page' = [page EXCEPT ![i].phase = "bootstrap", ![i].seq = 1]
  /\ mail' = [mail EXCEPT ![i] = Put(Popped(i, "toA"), "toC", 0, <<"cpace">>)]
  /\ UNCHANGED <<core, slot>>

\* An Error from the relay is reported and changes nothing.
RelayError(i) ==
  /\ ForPage(i, "error")
  /\ mail' = [mail EXCEPT ![i] = Popped(i, "toA")]
  /\ UNCHANGED <<page, core, slot>>

\* A frame out of sequence is refused, and one that does not decode or finds no
\* endpoint has only used its number.
AllocatorOutOfOrder(i) ==
  /\ ForPage(i, "frame")
  /\ \/ Head(mail[i].toA).seq # page[i].peer /\ UNCHANGED page
     \/ /\ Head(mail[i].toA).seq = page[i].peer
        /\ page[i].phase = "spent" \/ ~Decodes(Head(mail[i].toA))
        /\ page' = [page EXCEPT ![i].peer = @ + 1]
  /\ mail' = [mail EXCEPT ![i] = Popped(i, "toA")]
  /\ UNCHANGED <<core, slot>>

\* The peer's key frame finishes the bootstrap, which is consumed either way.
AllocatorFinish(i) ==
  LET f == Head(mail[i].toA)
  IN  /\ ForPage(i, "frame") /\ f.seq = page[i].peer /\ Decodes(f)
      /\ page[i].phase = "bootstrap"
      /\ IF f.body = "cpace"
         THEN /\ page' = [page EXCEPT ![i].phase = "endpoint", ![i].peer = @ + 1,
                                      ![i].seq = @ + 1]
              /\ mail' = [mail EXCEPT ![i] =
                            Put(Popped(i, "toA"), "toC", page[i].seq, <<"finished">>)]
         ELSE /\ page' = [page EXCEPT ![i].phase = "spent", ![i].peer = @ + 1]
              /\ mail' = [mail EXCEPT ![i] = Popped(i, "toA")]
      /\ UNCHANGED <<core, slot>>

\* what the allocator's reducer takes next
AllocatorTakes(p, body) ==
  \/ ~p.ready /\ body = "finished"
  \/ p.intent /\ ~p.payload /\ ~p.declined /\ body \in {"approve", "decline"}

AllocatorReduced(p, body) ==
  [p EXCEPT !.ready = @ \/ body = "finished", !.declined = @ \/ body = "decline"]

\* the intent once the session is ready, the payload once it is decided
IntentDue(p) == p.ready /\ ~p.intent
PayloadDueUndecided(p) == p.intent /\ ~p.payload
PayloadDue(p) == p.intent /\ ~p.payload /\ ~p.declined

AllocatorSends(p, body) ==
  (IF body = "finished" THEN <<"opener">> ELSE <<>>)
  \o (IF IntentDue(p) THEN <<"intent">> ELSE IF PayloadDue(p) THEN <<"payload">> ELSE <<>>)

\* receive_endpoint_frame: an error leaves the session terminal.  A decline
\* may make the reducer close the mailbox.
AllocatorEndpoint(i) ==
  LET f == Head(mail[i].toA)
      p == AllocatorReduced(page[i], f.body)
      sends == AllocatorSends(p, f.body)
      m == Put(Popped(i, "toA"), "toC", p.seq, sends)
  IN  /\ ForPage(i, "frame") /\ f.seq = page[i].peer /\ Decodes(f)
      /\ page[i].phase = "endpoint"
      /\ \/ /\ AllocatorTakes(page[i], f.body)
            /\ page' = [page EXCEPT ![i] =
                          [p EXCEPT !.peer = @ + 1, !.seq = @ + Len(sends),
                                    !.payload = @ \/ (~IntentDue(p) /\ PayloadDue(p)),
                                    !.intent = @ \/ IntentDue(p)]]
            /\ \E closes \in {FALSE, f.body = "decline"} :
                 mail' = [mail EXCEPT ![i] = IF closes THEN Close(m) ELSE m]
         \/ /\ ~AllocatorTakes(page[i], f.body)
            /\ page' = [page EXCEPT ![i].phase = "terminal", ![i].peer = @ + 1]
            /\ mail' = [mail EXCEPT ![i] = Cut(@, "toA")]
      /\ UNCHANGED <<core, slot>>

AllocatorOutcome(p) ==
  CASE p.phase = "endpoint" /\ p.payload -> "delivered"
    [] p.phase = "endpoint" /\ ~p.payload /\ p.declined -> "declined"
    [] OTHER -> "closed"

ClosedOnlyEndpoint(p) ==
  IF p.phase = "endpoint"
  THEN [p EXCEPT !.phase = "terminal", !.out = AllocatorOutcome(p)] ELSE p

AfterClose(p) == [p EXCEPT !.phase = "terminal", !.out = AllocatorOutcome(p)]

AllocatorClosed(i) ==
  /\ ForPage(i, "closed")
  /\ page' = [page EXCEPT ![i] = AfterClose(@)]
  /\ mail' = [mail EXCEPT ![i] = Cut(@, "toA")]
  /\ UNCHANGED <<core, slot>>

\* The page gives up: the handle is taken and the mailbox closed.
PageCancel(i) ==
  /\ page[i].phase \notin {"new", "terminal"}
  /\ page' = [page EXCEPT ![i].phase = "terminal", ![i].out = "cancelled"]
  /\ mail' = [mail EXCEPT ![i] = Cut(Close(@), "toA")]
  /\ UNCHANGED <<core, slot>>

-----------------------------------------------------------------------------
(* The claimant's session and the commands that own it.                    *)

CancelledKeepsSigner(c) ==
  [c EXCEPT !.phase = "terminal", !.owner = "gone", !.out = "cancelled"]

\* claimant cancel: the proof's signer is dropped and the mailbox closed
Cancelled(c) ==
  [c EXCEPT !.phase = "terminal", !.owner = "gone", !.proof = FALSE, !.out = "cancelled"]
\* a command that fails drops its session and says nothing to the relay
Dropped(c) == [c EXCEPT !.owner = "gone", !.proof = FALSE, !.view = "failed"]

\* cbcl_pairing_start: a session in the slot is cancelled before anything new
Start(i) ==
  /\ page[i].phase \notin {"new", "welcome", "allocation"} /\ core[i].owner = "none"
  /\ core' = [j \in Invites |-> IF j = i THEN [core[j] EXCEPT !.owner = "start"]
                                ELSE IF j = slot THEN Cancelled(core[j]) ELSE core[j]]
  /\ mail' = [j \in Invites |-> IF j = slot THEN Cut(Close(mail[j]), "toC") ELSE mail[j]]
  /\ slot' = None
  /\ UNCHANGED page

Eligible(descriptor) ==
  /\ descriptor.operator \notin Policy.forbidden
  /\ descriptor.digest \in Policy.approved
  /\ Policy.loopback \/ ~descriptor.loopback

\* exactly one eligible descriptor of a profile names the invitation's origin
VerifyInvitationOrigin(relays, i) ==
  Cardinality({d \in relays : d.origin = i /\ Eligible(d)}) = 1

\* exactly one held application does: none and several both refuse
GateInvitationOrigin(held, i) ==
  {app \in DOMAIN held : VerifyInvitationOrigin(held[app], i)}

Source == {"profile", "presence", "authority", "closure"}

\* A context is assembled from the profile as it is now, never the one held:
\* it still lists the origin and asks for one permission; and presence, the
\* account's authority and the issuer's closure all answer.
Assembles(current, i, answers) ==
  /\ VerifyInvitationOrigin(current.relays, i)
  /\ Cardinality(current.permissions) = 1
  /\ answers = Source

\* The origin gate, the context and the TLS connection stand, or the command
\* fails; the session is then built with its deferred signer and bound.
Connect(i) ==
  /\ core[i].owner = "start" /\ core[i].phase = "none"
  /\ \E held \in Rosters, current \in Current, missing \in {{}} \cup {{s} : s \in Source},
        connects \in BOOLEAN :
       IF /\ Cardinality(GateInvitationOrigin(held, i)) = 1
          /\ Assembles(current, i, Source \ missing)
          /\ connects
       THEN /\ core' = [core EXCEPT ![i].phase = "welcome", ![i].proof = TRUE]
            /\ mail' = [mail EXCEPT ![i].toC = <<Notice("welcome")>>]
       ELSE /\ core' = [core EXCEPT ![i] = Dropped(@)]
            /\ mail' = [mail EXCEPT ![i] = Cut(@, "toC")]
  /\ UNCHANGED <<page, slot>>

ForCore(i, k) ==
  /\ core[i].owner \in {"start", "finish"}
  /\ mail[i].toC # <<>>
  /\ Head(mail[i].toC).k = k

\* Claim: only a mailbox nobody joined answers.
ClaimantWelcome(i) ==
  /\ ForCore(i, "welcome") /\ core[i].phase = "welcome"
  /\ core' = [core EXCEPT ![i].phase = "claim"]
  /\ mail' = [mail EXCEPT ![i] =
                [Popped(i, "toC") EXCEPT
                   !.st = IF @ = "open" THEN "claimed" ELSE @,
                   !.toC = Append(@, Notice(IF mail[i].st = "open" THEN "claimed"
                                            ELSE "error"))]]
  /\ UNCHANGED <<page, slot>>

\* Open fetches what waited in the mailbox; then the claimant's first frame.
Claimed(i) ==
  /\ ForCore(i, "claimed") /\ core[i].phase = "claim"
  /\ core' = [core EXCEPT ![i].phase = "bootstrap", ![i].seq = 1]
  /\ LET m == Popped(i, "toC")
         opened == IF m.st = "claimed"
                   THEN [m EXCEPT !.st = "opened", !.toC = @ \o m.box, !.box = <<>>] ELSE m
     IN  mail' = [mail EXCEPT ![i] = Put(opened, "toA", 0, <<"cpace">>)]
  /\ UNCHANGED <<page, slot>>

\* An Error, a frame out of sequence or that does not decode, and a failed
\* bootstrap end the command.
ClaimantFails(i) ==
  /\ \/ ForCore(i, "error")
     \/ /\ ForCore(i, "frame")
        /\ \/ Head(mail[i].toC).seq # core[i].peer \/ ~Decodes(Head(mail[i].toC))
           \/ core[i].phase = "bootstrap" /\ Head(mail[i].toC).body # "cpace"
  /\ core' = [core EXCEPT ![i] = Dropped(@)]
  /\ mail' = [mail EXCEPT ![i] = Cut(@, "toC")]
  /\ UNCHANGED <<page, slot>>

ClaimantFinish(i) ==
  /\ ForCore(i, "frame") /\ core[i].phase = "bootstrap"
  /\ Head(mail[i].toC) = Frame(core[i].peer, "cpace")
  /\ core' = [core EXCEPT ![i].phase = "endpoint", ![i].peer = @ + 1, ![i].seq = @ + 1]
  /\ mail' = [mail EXCEPT ![i] = Put(Popped(i, "toC"), "toA", core[i].seq, <<"finished">>)]
  /\ UNCHANGED <<page, slot>>

\* what the claimant's reducer takes at each step of its own
ClaimantTakes == [key |-> "finished", opening |-> "opener", ready |-> "intent",
                  shown |-> "none", decided |-> "payload", done |-> "none"]

InSequence(i) ==
  /\ ForCore(i, "frame") /\ core[i].phase = "endpoint"
  /\ Head(mail[i].toC).seq = core[i].peer /\ Decodes(Head(mail[i].toC))

Expected(i) == Head(mail[i].toC).body = ClaimantTakes[core[i].step]

\* Confirmation and the opener release nothing to the shell.
ClaimantConfirms(i) ==
  /\ InSequence(i) /\ Expected(i) /\ core[i].step \in {"key", "opening"}
  /\ core' = [core EXCEPT ![i].step = IF @ = "key" THEN "opening" ELSE "ready",
                          ![i].peer = @ + 1]
  /\ mail' = [mail EXCEPT ![i] = Popped(i, "toC")]
  /\ UNCHANGED <<page, slot>>

\* pump_to_intent returns: the session takes the slot, and a session a
\* concurrent start left there is dropped with its socket.
Displayed(i) ==
  /\ InSequence(i) /\ Expected(i) /\ core[i].step = "ready"
  /\ core' = [j \in Invites |->
       IF j = i THEN [core[j] EXCEPT !.step = "shown", !.peer = @ + 1, !.owner = "slot",
                                     !.view = "intent"]
       ELSE IF j = slot THEN [Dropped(core[j]) EXCEPT !.view = core[j].view] ELSE core[j]]
  /\ slot' = i
  /\ mail' = [j \in Invites |-> IF j = i THEN Popped(i, "toC")
                                ELSE IF j = slot THEN Cut(mail[j], "toC") ELSE mail[j]]
  /\ UNCHANGED page

\* finish_live: the decision is committed; a decline may close the mailbox.
Decide(i, decision) ==
  /\ slot = i
  /\ slot' = None
  /\ core' = [core EXCEPT ![i].owner = "finish", ![i].decision = decision,
                          ![i].step = IF decision = "approve" THEN "decided" ELSE "done",
                          ![i].seq = @ + 1]
  /\ \E closes \in {FALSE, decision = "decline"} :
       LET m == Put(mail[i], "toA", core[i].seq, <<decision>>)
       IN  mail' = [mail EXCEPT ![i] = IF closes THEN Close(m) ELSE m]
  /\ UNCHANGED page

\* The grant body is the canonical form of a transfer whose claims are this
\* wallet's own; the scope is what the decision was about.
TransferRecognised(i) == /\ RecogniseGrantBody(GrantBody(Transfers[i]))
                         /\ RecogniseTransferClaims(Transfers[i], Wallet)

\* The payload passes the verifier, with a proof over the delivered grant from
\* the deferred signer and the clock of the decision: the session closes the mailbox.
Accepted(i) ==
  /\ InSequence(i) /\ Expected(i) /\ core[i].step = "decided"
  /\ TransferRecognised(i) /\ core[i].proof
  /\ core' = [core EXCEPT ![i].accepted = TRUE, ![i].proof = FALSE, ![i].step = "done",
                          ![i].peer = @ + 1]
  /\ mail' = [mail EXCEPT ![i] = Close(Popped(i, "toC"))]
  /\ UNCHANGED <<page, slot>>

\* The verifier, or the endpoint, refuses: close, report and fail.
RefusedByClaimant(i) ==
  /\ InSequence(i) /\ (Expected(i) => core[i].step = "decided")
  /\ core' = [core EXCEPT ![i] = [Dropped(core[i]) EXCEPT !.phase = "terminal",
                                              !.peer = core[i].peer + 1, !.out = "refused"]]
  /\ mail' = [mail EXCEPT ![i] = Cut(Close(@), "toC")]
  /\ UNCHANGED <<page, slot>>

ClaimantOutcome(c) ==
  CASE c.accepted -> "accepted"
    [] ~c.accepted /\ c.decision = "decline" -> "declined"
    [] OTHER -> "closed"

\* relay_closed: only the outcome the command waits for is a success.
ClaimantClosed(i) ==
  LET out == ClaimantOutcome(core[i])
      awaited == IF core[i].decision = "approve" THEN "accepted" ELSE "declined"
  IN  /\ ForCore(i, "closed")
      /\ core' = [core EXCEPT ![i] =
           [Dropped(@) EXCEPT
              !.phase = "terminal", !.out = out,
              !.view = IF core[i].owner = "finish" /\ out = awaited THEN out ELSE "failed"]]
      /\ mail' = [mail EXCEPT ![i] = Cut(@, "toC")]
      /\ UNCHANGED <<page, slot>>

\* No message within the socket's deadline, or the connection is gone.
TimedOut(i) ==
  /\ core[i].owner \in {"start", "finish"} /\ core[i].phase # "none"
  /\ core' = [core EXCEPT ![i] = Dropped(@)]
  /\ mail' = [mail EXCEPT ![i] = Cut(@, "toC")]
  /\ UNCHANGED <<page, slot>>

\* cbcl_pairing_cancel
CancelPending ==
  /\ slot # None
  /\ core' = [core EXCEPT ![slot] = Cancelled(@)]
  /\ mail' = [mail EXCEPT ![slot] = Cut(Close(@), "toC")]
  /\ slot' = None
  /\ UNCHANGED page

\* cbcl_pairing_start with what is no invitation: the session in the slot is
\* cancelled before the carrier is looked at.
StartRefused ==
  /\ \E kind \in {"retired", "unknown"} :
       DecodeInvitation([kind |-> kind]) # "invitation"
  /\ CancelPending

-----------------------------------------------------------------------------
PageReads(i) ==
  \/ Welcomed(i) \/ Allocated(i) \/ RelayError(i) \/ AllocatorOutOfOrder(i)
  \/ AllocatorFinish(i) \/ AllocatorEndpoint(i) \/ AllocatorClosed(i)

WalletReads(i) ==
  \/ ClaimantWelcome(i) \/ Claimed(i) \/ ClaimantFails(i) \/ ClaimantFinish(i)
  \/ ClaimantConfirms(i) \/ Displayed(i) \/ Accepted(i) \/ RefusedByClaimant(i)
  \/ ClaimantClosed(i) \/ TimedOut(i)

Next ==
  \/ \E i \in Invites :
       \/ Bind(i) \/ PageReads(i) \/ PageCancel(i)
       \/ Start(i) \/ Connect(i) \/ WalletReads(i)
       \/ Decide(i, "approve") \/ Decide(i, "decline")
       \/ Expire(i) \/ Misdeliver(i)
  \/ CancelPending \/ StartRefused

\* A page reads what arrives and a mailbox expires; of the wallet nothing is asked.
Fairness == \A i \in Invites : WF_vars(PageReads(i)) /\ WF_vars(Expire(i))

Spec == Init /\ [][Next]_vars /\ Fairness

-----------------------------------------------------------------------------
Message == [k : {"frame", "welcome", "allocated", "claimed", "error", "closed"},
            seq : 0..4, body : (UNION {Script.allocator[n] : n \in 1..5})
                               \cup Script.claimant[3] \cup Spoilt \cup {"none"}]
PageStates == [phase : {"new", "welcome", "allocation", "bootstrap", "spent", "endpoint",
                        "terminal"},
               seq : 0..5, peer : 0..4, ready : BOOLEAN, intent : BOOLEAN,
               payload : BOOLEAN, declined : BOOLEAN,
               out : {None, "delivered", "declined", "closed", "cancelled"}]
CoreStates == [phase : {"none", "welcome", "claim", "bootstrap", "endpoint", "terminal"},
               owner : {"none", "start", "slot", "finish", "gone"},
               proof : BOOLEAN, seq : 0..3, peer : 0..5, step : DOMAIN ClaimantTakes,
               decision : {None, "approve", "decline"}, accepted : BOOLEAN,
               out : {None, "accepted", "declined", "refused", "closed", "cancelled"},
               view : {None, "intent", "accepted", "declined", "failed"}]

\* Every session, mailbox and slot is well formed; a session in the slot is
\* owned by nobody else, and a deferred signer dies with its session.
TypeOK ==
  /\ page \in [Invites -> PageStates]
  /\ core \in [Invites -> CoreStates]
  /\ \A i \in Invites :
       /\ mail[i].st \in {"none", "open", "claimed", "opened", "closed"}
       /\ \A way \in {"box", "toA", "toC"} :
            \A n \in DOMAIN mail[i][way] : mail[i][way][n] \in Message
       /\ core[i].owner = "slot" <=> slot = i
       /\ core[i].owner = "gone" => ~core[i].proof
  /\ slot \in Invites \cup {None}

\* The frames of a direction follow the reference ceremony.
Rehearsed(i) ==
  /\ \A n \in DOMAIN mail[i].toC :
       LET f == mail[i].toC[n]
       IN  f.k = "frame" => f.body \in Script.allocator[f.seq + 1] \cup Spoilt
  /\ \A n \in DOMAIN mail[i].toA :
       LET f == mail[i].toA[n]
       IN  f.k = "frame" => f.body \in Script.claimant[f.seq + 1] \cup Spoilt

\* What the page released, the claimant reports and the relay still holds.
Account(i) == [outcome |-> core[i].out, delivered |-> page[i].payload,
               open |-> mail[i].st \notin {"none", "closed"}]

\* live.rs and cbcl_pairing.rs:364: the two sides' accounts of one ceremony
\* agree whatever the relay, the page and a second start do.  A payload is
\* released only to the person's approval of that ceremony; who was told of a
\* decline shared nothing and the invitation is spent; an acceptance, a refusal
\* of the payload, a decline, a cancellation and a mailbox that expires under
\* the person's decision end as they do in one process.
OutcomesAgree ==
  \A i \in Invites :
    /\ Rehearsed(i)
    /\ page[i].payload => core[i].decision = "approve"
    /\ page[i].out = "delivered" => page[i].payload
    /\ page[i].out = "declined" => core[i].decision = "decline"
    /\ core[i].view = "declined" => mail[i].st = "closed"
    /\ core[i].decision = "approve" /\ core[i].out \in {"accepted", "refused"} =>
         Account(i) = Snapshot(Approve(Established, core[i].accepted))
    /\ core[i].out = "declined" => Account(i) = Snapshot(Decline(Established))
    /\ core[i].out = "cancelled" => Account(i) = Snapshot(CancelDemo(Established))
    /\ core[i].out = "closed" /\ core[i].decision = None =>
         Account(i) = Snapshot(ExpireDemo(Established))
    /\ core[i].view = "accepted" => page[i].out \in {None, "delivered", "cancelled"}

\* live.rs:336: a page that published an invitation reaches an end, however
\* its bootstrap or endpoint failed and whoever stopped answering.
Concludes ==
  \A i \in Invites : page[i].phase = "bootstrap" ~> page[i].phase = "terminal"
=============================================================================
