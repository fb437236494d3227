----------------------------- MODULE Publication -----------------------------
(***************************************************************************)
(* Device linking and the publication queue: the wallet's identity         *)
(* commands (src-tauri/src/commands.rs, session.rs, custody.rs, net.rs),   *)
(* the rendezvous and resolver they talk to (crates/selfsame-rendezvous),  *)
(* and the device client that waits for its bundle                         *)
(* (crates/selfsame-cli, selfsame-core accept.rs).                         *)
(*                                                                         *)
(* Commands are asynchronous: every lock region, store access, signature   *)
(* and request is an action, and other commands run in between.  A signed  *)
(* delta is named by its identity, its operation and the device it is      *)
(* about; two deltas with one name have one content hash.  A device stands *)
(* for one link attempt: its key, its link secret and the fragment of the  *)
(* method id that the wallet draws for it.                                 *)
(***************************************************************************)
EXTENDS Naturals, Sequences, FiniteSets

CONSTANTS Ids,       \* the root identities that may be created
          Devs,      \* the link attempts
          Procs,     \* command invocations that may run concurrently
          None,      \* the absent value of every Option
          Mishaps    \* which of "forget", "phone", "resolver" may happen

ASSUME SetsAssumption == None \notin Ids \cup Devs \cup (Ids \X Ids)
ASSUME MishapsAssumption == Mishaps \subseteq {"forget", "phone", "resolver"}

VARIABLES root,       \* the identity in custody
          confirmed,  \* SealedRoot.backup_confirmed
          minted,     \* identities whose entropy has been drawn
          shown,      \* identities whose twelve words reached the person
          words,      \* the page's mnemonic: whose words it holds
          pending,    \* Persisted.pending: recorded, not acknowledged
          closure,    \* Persisted.closure: acknowledged or adopted
          offer,      \* Session.pending_offer
          procs,      \* procs[p]: the local state of a running command
          resolver,   \* the deltas the resolver's closures hold
          basis,      \* basis[<<i, d>>]: the parents of the revocation of d, once signed
          slots,      \* slots[d]: d's offer slot and bundle slot
          bundle,     \* bundle[d]: asserted DID and signer of d's bundle
          client,     \* client[d]: how far d's device client has come
          joined,     \* joined[d]: identity.json of d's client, DID and signer
          expired,    \* link attempts whose offer's expiry has passed
          intact      \* history: no mishap has happened so far
custody == <<root, confirmed, minted, shown, words>>
session == <<pending, closure, offer>>
service == <<resolver, slots, bundle>>
device == <<client, joined, expired>>
vars == <<custody, session, procs, basis, service, device, intact>>

-----------------------------------------------------------------------------
(* Deltas *)

Delta == [id : Ids, op : {"genesis", "profile"}, dev : {None}]
           \cup [id : Ids, op : {"add", "label", "revoke"}, dev : Devs]
Genesis(i) == [id |-> i, op |-> "genesis", dev |-> None]
Profile(i) == [id |-> i, op |-> "profile", dev |-> None]
Add(i, d) == [id |-> i, op |-> "add", dev |-> d]
Label(i, d) == [id |-> i, op |-> "label", dev |-> d]
Revoke(i, d) == [id |-> i, op |-> "revoke", dev |-> d]

\* The causal parents a delta commits to (sign_on_frontier).
Parents(x) == CASE x.op = "genesis" -> {}
                [] x.op \in {"profile", "add"} -> {Genesis(x.id)}
                [] x.op = "label" -> {Add(x.id, x.dev)}
                [] x.op = "revoke" -> basis[<<x.id, x.dev>>]

Elems(seq) == {seq[k] : k \in 1..Len(seq)}
\* Vec::retain: what is left of seq, in its order, without the members of gone.
Retained(seq, gone) ==
  LET kept == {k \in 1..Len(seq) : seq[k] \notin gone}
      Place(j) == Cardinality({k \in kept : k <= j})
  IN [n \in 1..Cardinality(kept) |-> seq[CHOOSE j \in kept : Place(j) = n]]
\* Session::all_deltas.
AllDeltas == closure \cup Elems(pending)
\* resolve_closure: one controller, one genesis, every parent present.
Resolves(deltas, i) == /\ \A x \in deltas : x.id = i /\ Parents(x) \subseteq deltas
                       /\ Genesis(i) \in deltas
\* Session::document.
HasDocument(i) == closure # {} /\ Resolves(AllDeltas, i)
\* Session::devices: a row for every device ever added, from the deltas, for a
\* resolved document shows no revoked one; get_state shows none without a document.
DeviceRows(i) ==
  {[dev |-> d, revoked |-> Revoke(i, d) \in AllDeltas, pending |-> Add(i, d) \in Elems(pending)] :
     d \in {e \in Devs : Add(i, e) \in AllDeltas}}
ListedDevices == IF root # None /\ HasDocument(root) THEN DeviceRows(root) ELSE {}
\* What `selfsame verify` answers about device d of identity i: it resolves the
\* closure it was served itself, and a key is authorised or it is not.
VerifyAnswer(i, d) ==
  LET served == {x \in resolver : x.id = i}
  IN IF served = {} THEN "not found"
     ELSE IF ~Resolves(served, i) THEN "profile refused"
     ELSE IF Add(i, d) \in served /\ Revoke(i, d) \notin served
     THEN "authorised" ELSE "not authorised"
\* Document::frontier: the deltas no other delta commits to.
Frontier(deltas) == {x \in deltas : \A y \in deltas : x \notin Parents(y)}

-----------------------------------------------------------------------------
(* Commands *)

RootChanges == {"create", "restore", "forget"}
Kinds == RootChanges \cup {"read", "link", "unlink", "flush"}
Steps == {"idle", "genesis", "fetch", "adopt", "open", "sign", "put", "record",
          "revoke", "flush", "publish", "ack", "clear"}
ProcState == [pc : Steps, kind : Kinds, did : Ids \cup {None}, signer : Ids \cup {None},
              dev : Devs \cup {None}, todo : Seq(Delta), have : SUBSET Delta]
IdleUnset == [pc |-> "idle", kind |-> None, did |-> None, signer |-> None, dev |-> None,
              todo |-> <<>>, have |-> {}]
Idle == [pc |-> "idle", kind |-> "flush", did |-> None, signer |-> None, dev |-> None,
         todo |-> <<>>, have |-> {}]

Init == /\ root = None /\ confirmed = FALSE /\ minted = {} /\ shown = {} /\ words = None
        /\ pending = <<>> /\ closure = {} /\ offer = None
        /\ procs = [p \in Procs |-> Idle]
        /\ resolver = {} /\ basis = [x \in {} |-> {}]
        /\ slots = [d \in Devs |-> [offer |-> "empty", bundle |-> "empty"]]
        /\ bundle = [d \in Devs |-> None]
        /\ client = [d \in Devs |-> "new"] /\ joined = [d \in Devs |-> None] /\ expired = {}
        /\ intact = TRUE

End(p) == procs' = [procs EXCEPT ![p] = Idle]
GoTo(p, step) == procs' = [procs EXCEPT ![p].pc = step]
\* A link or unlink ends in a flush like any other.
ThenFlush(p) == procs' = [procs EXCEPT ![p] = [Idle EXCEPT !.pc = "flush"]]
Start(p, kind, step, i, d) ==
  /\ procs[p].pc = "idle"
  /\ procs' = [procs EXCEPT ![p] =
       [Idle EXCEPT !.pc = step, !.kind = kind, !.did = i, !.dev = d]]

\* begin_cbcl_v2_root_change: create, restore and forget exclude one another.
NoRootChange == \A p \in Procs : procs[p].pc # "idle" => procs[p].kind \notin RootChanges

NoGate == root # None
\* require_backup_confirmed.
BackupConfirmed == confirmed

(* HP-1: create, confirm, restore, forget *)

\* Custody::create: a sealed root is stored before anything is signed.
CreateRoot(p, i) ==
  /\ NoRootChange /\ root = None
  /\ i \notin minted
  /\ Start(p, "create", "genesis", i, None)
  /\ root' = i /\ confirmed' = FALSE /\ minted' = minted \cup {i}
  /\ UNCHANGED <<shown, words, session, basis, service, device, intact>>

\* The genesis and the profile declaration are signed and recorded.
RecordGenesis(p) ==
  /\ procs[p].pc = "genesis"
  /\ root # None
  /\ pending' = pending \o <<Genesis(root), Profile(root)>>
  /\ GoTo(p, "flush")
  /\ UNCHANGED <<custody, closure, offer, basis, service, device, intact>>

\* confirm_backup checks the answers against the words the page hands back,
\* and marks whatever root is stored.
ConfirmBackup ==
  /\ root # None /\ words # None
  /\ confirmed' = TRUE /\ words' = None
  /\ UNCHANGED <<root, minted, shown, session, procs, basis, service, device, intact>>

\* Custody::restore from the words of i.
RestoreRoot(p, i) ==
  /\ NoRootChange /\ root = None
  /\ i \in shown
  /\ Start(p, "restore", "fetch", i, None)
  /\ root' = i /\ confirmed' = TRUE
  /\ UNCHANGED <<minted, shown, words, session, basis, service, device, intact>>

\* fetch_closure; an identity the resolver does not know is not adopted.
FetchClosure(p) ==
  /\ procs[p].pc = "fetch"
  /\ Genesis(procs[p].did) \in resolver
  /\ procs' = [procs EXCEPT ![p].pc = "adopt",
                            ![p].have = {x \in resolver : x.id = procs[p].did}]
  /\ UNCHANGED <<custody, session, basis, service, device, intact>>

\* adopt_closure: the cache is replaced, what it holds leaves the queue.
AdoptClosure(p) ==
  /\ procs[p].pc = "adopt"
  /\ closure' = procs[p].have
  /\ pending' = Retained(pending, procs[p].have)
  /\ End(p)
  /\ UNCHANGED <<custody, offer, basis, service, device, intact>>

\* forget_identity: the sealed root goes first, the session after it.
ForgetRoot(p) ==
  /\ "forget" \in Mishaps
  /\ NoRootChange
  /\ Start(p, "forget", "clear", None, None)
  /\ root' = None /\ confirmed' = FALSE /\ intact' = FALSE
  /\ UNCHANGED <<minted, shown, words, session, basis, service, device>>

\* Session::clear.
ClearSession(p) ==
  /\ procs[p].pc = "clear"
  /\ pending' = <<>> /\ closure' = {} /\ offer' = None
  /\ End(p)
  /\ UNCHANGED <<custody, basis, service, device, intact>>

(* HP-3: read a code and authorise the device *)

\* read_link_code fetches the offer slot, which can be read once; the answer
\* may be lost.
ReadCode(p, d) ==
  /\ BackupConfirmed
  /\ slots[d].offer = "full"
  /\ slots' = [slots EXCEPT ![d].offer = "read"]
  /\ \/ Start(p, "read", "open", None, d)
     \/ procs[p].pc = "idle" /\ UNCHANGED procs
  /\ UNCHANGED <<custody, session, basis, resolver, bundle, device, intact>>

\* The opened offer is held unless it has expired.
HoldOffer(p) ==
  /\ procs[p].pc = "open"
  /\ procs[p].dev \notin expired
  /\ offer' = procs[p].dev
  /\ End(p)
  /\ UNCHANGED <<custody, pending, closure, basis, service, device, intact>>

RejectOffer ==
  /\ offer # None
  /\ offer' = None
  /\ UNCHANGED <<custody, pending, closure, procs, basis, service, device, intact>>

\* authorise copies the offer and derives the DID from the stored root.
Authorise(p) ==
  /\ BackupConfirmed
  /\ offer # None /\ offer \notin expired
  /\ Start(p, "link", "sign", root, offer)
  /\ UNCHANGED <<custody, session, basis, service, device, intact>>

\* The presence check; the root that signs is the one stored by now.
SignLink(p) ==
  /\ procs[p].pc = "sign"
  /\ root # None
  /\ procs' = [procs EXCEPT ![p].pc = "put", ![p].signer = root]
  /\ UNCHANGED <<custody, session, basis, service, device, intact>>

\* put_bundle: the slot is written once, and the answer may be lost.
PutBundle(p) ==
  LET d == procs[p].dev IN
  /\ procs[p].pc = "put"
  /\ slots[d].bundle = "empty"
  /\ slots' = [slots EXCEPT ![d].bundle = "full"]
  /\ bundle' = [bundle EXCEPT ![d] = <<procs[p].did, procs[p].signer>>]
  /\ GoTo(p, "record") \/ End(p)
  /\ UNCHANGED <<custody, session, basis, resolver, device, intact>>

LabelFirst(i, d) == <<Label(i, d), Add(i, d)>>
\* One decision, two deltas, queued in causal order.
LinkDeltas(i, d) == <<Add(i, d), Label(i, d)>>
\* The add and its label are recorded and the offer is spent.  The last-seen
\* time noted for the device's row is left out.
RecordLink(p) ==
  /\ procs[p].pc = "record"
  /\ pending' = pending \o LinkDeltas(procs[p].signer, procs[p].dev)
  /\ offer' = None
  /\ ThenFlush(p)
  /\ UNCHANGED <<custody, closure, basis, service, device, intact>>

(* HP-5: unlink a listed device *)

\* unlink_device resolves its own document; d is a row of the devices list.
\* Bound: one revocation of a device.
UnlinkStart(p, d) ==
  /\ BackupConfirmed
  /\ \E row \in ListedDevices : row.dev = d
  /\ <<root, d>> \notin DOMAIN basis
  /\ procs[p].pc = "idle"
  /\ procs' = [procs EXCEPT ![p] =
       [Idle EXCEPT !.pc = "revoke", !.kind = "unlink", !.did = root, !.dev = d,
                    !.have = Frontier(AllDeltas)]]
  /\ UNCHANGED <<custody, session, basis, service, device, intact>>

\* The revocation is signed on the frontier read before the presence check.
RecordRevoke(p) ==
  LET x == Revoke(procs[p].did, procs[p].dev) IN
  /\ procs[p].pc = "revoke"
  /\ root # None
  /\ <<x.id, x.dev>> \notin DOMAIN basis
  /\ basis' = [y \in DOMAIN basis \cup {<<x.id, x.dev>>} |->
                 IF y \in DOMAIN basis THEN basis[y] ELSE procs[p].have]
  /\ pending' = Append(pending, x)
  /\ ThenFlush(p)
  /\ UNCHANGED <<custody, closure, offer, service, device, intact>>

(* REQ-020: publication *)

\* flush_publications, which the page calls when it comes to the foreground.
Flush(p) ==
  /\ pending # <<>>
  /\ Start(p, "flush", "flush", None, None)
  /\ UNCHANGED <<custody, session, basis, service, device, intact>>

\* flush: the DID of the stored root and a snapshot of the queue.
Snapshot(p) ==
  /\ procs[p].pc = "flush"
  /\ IF root = None THEN End(p)
     ELSE procs' = [procs EXCEPT ![p].pc = "publish", ![p].did = root, ![p].todo = pending]
  /\ UNCHANGED <<custody, session, basis, service, device, intact>>

StatusIgnoringParents(x, i) == IF x.id # i THEN 400 ELSE IF x \notin resolver THEN 202 ELSE 409
\* publish_delta: what the resolver answers to x posted under the DID of i.
Status(x, i) ==
  IF x.id # i THEN 400
  ELSE IF /\ x \notin resolver
          /\ x.op = "genesis" \/ (Genesis(i) \in resolver /\ Parents(x) \subseteq resolver)
  THEN 202 ELSE 409
\* The deltas the resolver holds after answering.
Stored(x, i) == IF Status(x, i) = 202 THEN resolver \cup {x} ELSE resolver

AckOnlyAccepted(status) == status = 202
\* net::publish: the answers that acknowledge a delta.
Acknowledges(status) == status \in {202, 409}

\* One POST that is answered; anything but an acknowledgement stops the flush.
Publish(p) ==
  LET x == Head(procs[p].todo) IN
  /\ procs[p].pc = "publish"
  /\ procs[p].todo # <<>>
  /\ resolver' = Stored(x, procs[p].did)
  /\ procs' = IF Acknowledges(Status(x, procs[p].did))
              THEN [procs EXCEPT ![p].pc = "ack"] ELSE [procs EXCEPT ![p].todo = <<>>]
  /\ UNCHANGED <<custody, session, basis, slots, bundle, device, intact>>

\* One POST that is lost, or processed and its answer lost.
PublishUnanswered(p) ==
  /\ procs[p].pc = "publish"
  /\ procs[p].todo # <<>>
  /\ resolver' \in {resolver, Stored(Head(procs[p].todo), procs[p].did)}
  /\ procs' = [procs EXCEPT ![p].todo = <<>>]
  /\ UNCHANGED <<custody, session, basis, slots, bundle, device, intact>>

\* The position of x in the queue; 0 when a concurrent flush removed it.
Position(x) == IF x \in Elems(pending)
               THEN CHOOSE k \in 1..Len(pending) :
                      pending[k] = x /\ \A j \in 1..(k-1) : pending[j] # x
               ELSE 0
RemovesHead(k) == Tail(pending)
AfterRemoval(k) == SubSeq(pending, 1, k - 1) \o SubSeq(pending, k + 1, Len(pending))

\* acknowledge: moved from the queue into the closure, if still queued.
Ack(p) ==
  LET x == Head(procs[p].todo)  k == Position(x) IN
  /\ procs[p].pc = "ack"
  /\ IF k = 0 THEN UNCHANGED <<pending, closure>>
     ELSE /\ pending' = AfterRemoval(k)
          /\ closure' = closure \cup {x}
  /\ procs' = [procs EXCEPT ![p].pc = "publish", ![p].todo = Tail(@)]
  /\ UNCHANGED <<custody, offer, basis, service, device, intact>>

\* The flush is done: create_identity now returns the twelve words.
Finish(p) ==
  /\ procs[p].pc = "publish"
  /\ procs[p].todo = <<>>
  /\ IF procs[p].kind = "create"
     THEN shown' = shown \cup {procs[p].did} /\ words' = procs[p].did
     ELSE UNCHANGED <<shown, words>>
  /\ End(p)
  /\ UNCHANGED <<root, confirmed, minted, session, basis, service, device, intact>>

\* Any other early return: no presence, an unreachable service, a conflict.
Refused(p) ==
  /\ procs[p].pc \in {"genesis", "fetch", "open", "sign", "put", "revoke"}
  /\ End(p)
  /\ UNCHANGED <<custody, session, basis, service, device, intact>>

-----------------------------------------------------------------------------
(* Crashes and losses *)

\* The application stops and starts again: Session::load finds the queue.
Restart ==
  /\ procs' = [p \in Procs |-> Idle]
  /\ offer' = None /\ words' = None
  /\ UNCHANGED <<root, confirmed, minted, shown, pending, closure, basis, service, device, intact>>

\* A replacement phone: no sealed root, no session file.
NewPhone ==
  /\ "phone" \in Mishaps
  /\ root' = None /\ confirmed' = FALSE /\ words' = None /\ intact' = FALSE
  /\ pending' = <<>> /\ closure' = {} /\ offer' = None
  /\ procs' = [p \in Procs |-> Idle]
  /\ UNCHANGED <<minted, shown, basis, service, device>>

\* The service keeps closures and slots in memory.
ServiceRestart ==
  /\ "resolver" \in Mishaps
  /\ resolver' = {} /\ intact' = FALSE
  /\ slots' = [d \in Devs |-> [offer |-> "empty", bundle |-> "empty"]]
  /\ UNCHANGED <<custody, session, procs, basis, bundle, device>>

-----------------------------------------------------------------------------
(* The device client and the passing of time *)

\* link: the signed offer goes into its slot and the code is displayed.
ShowCode(d) ==
  /\ client[d] = "new"
  /\ slots[d].offer = "empty"
  /\ slots' = [slots EXCEPT ![d].offer = "full"]
  /\ client' = [client EXCEPT ![d] = "waiting"]
  /\ UNCHANGED <<custody, session, procs, basis, resolver, bundle, joined, expired, intact>>

\* accept: the bundle answers this offer, in time, and its DID is the one its
\* genesis derives.
Accepts(d) == d \notin expired /\ bundle[d][1] = bundle[d][2]

\* save_identity: written beside the old file and renamed over it.
SaveIdentity(d) == joined' = [joined EXCEPT ![d] = bundle[d]]
\* load_identity: a file is resolved and held against its own genesis again.
LoadIdentity(d) == IF joined[d] # None /\ joined[d][1] = joined[d][2] THEN joined[d][1] ELSE None
\* selfsame status: the identity a device says it is linked to.
StatusShown(d) == LoadIdentity(d)

\* poll_for_bundle: the bundle slot is read once; a lost answer leaves the
\* client waiting for a slot that will not be served again.
PollBundle(d) ==
  /\ client[d] = "waiting"
  /\ slots[d].bundle = "full"
  /\ slots' = [slots EXCEPT ![d].bundle = "read"]
  /\ \/ /\ Accepts(d)
        /\ client' = [client EXCEPT ![d] = "linked"]
        /\ SaveIdentity(d)
     \/ /\ ~Accepts(d)
        /\ client' = [client EXCEPT ![d] = "failed"]
        /\ UNCHANGED joined
     \/ UNCHANGED <<client, joined>>
  /\ UNCHANGED <<custody, session, procs, basis, resolver, bundle, expired, intact>>

\* The countdown of poll_for_bundle runs out.
GiveUp(d) ==
  /\ client[d] = "waiting" /\ d \in expired
  /\ client' = [client EXCEPT ![d] = "failed"]
  /\ UNCHANGED <<custody, session, procs, basis, service, joined, expired, intact>>

\* selfsame unlink: the client forgets the identity it joined, and nobody is told.
ForgetIdentity(d) ==
  /\ client[d] = "linked" /\ LoadIdentity(d) # None
  /\ client' = [client EXCEPT ![d] = "unlinked"] /\ joined' = [joined EXCEPT ![d] = None]
  /\ UNCHANGED <<custody, session, procs, basis, service, expired, intact>>

\* The offer's expiry passes on every clock.
Expire(d) ==
  /\ d \notin expired /\ client[d] # "new"
  /\ expired' = expired \cup {d}
  /\ UNCHANGED <<custody, session, procs, basis, service, client, joined, intact>>

\* sweep: slots outlive the offer (SLOT_TTL_SECONDS > OFFER_TTL_SECONDS).
Sweep(d) ==
  /\ d \in expired
  /\ slots' = [slots EXCEPT ![d] = [offer |-> "empty", bundle |-> "empty"]]
  /\ UNCHANGED <<custody, session, procs, basis, resolver, bundle, device, intact>>

-----------------------------------------------------------------------------
Begin(p) ==
  \/ \E i \in Ids : CreateRoot(p, i) \/ RestoreRoot(p, i)
  \/ \E d \in Devs : ReadCode(p, d) \/ UnlinkStart(p, d)
  \/ ForgetRoot(p) \/ Authorise(p) \/ Flush(p)
Continue(p) ==
  \/ RecordGenesis(p) \/ FetchClosure(p) \/ AdoptClosure(p) \/ ClearSession(p)
  \/ HoldOffer(p) \/ SignLink(p) \/ PutBundle(p) \/ RecordLink(p) \/ RecordRevoke(p)
  \/ Snapshot(p) \/ Publish(p) \/ PublishUnanswered(p) \/ Ack(p) \/ Finish(p) \/ Refused(p)
Device(d) == ShowCode(d) \/ PollBundle(d) \/ GiveUp(d) \/ ForgetIdentity(d) \/ Expire(d) \/ Sweep(d)
Next == \/ \E p \in Procs : Begin(p) \/ Continue(p)
        \/ \E d \in Devs : Device(d)
        \/ ConfirmBackup \/ RejectOffer \/ Restart \/ NewPhone \/ ServiceRestart
Spec == Init /\ [][Next]_vars

\* A command that has begun goes on, and the page calls flush_publications
\* again and again; however often the application stops in between, requests
\* are sometimes answered and answers sometimes recorded.
Fairness(p) == /\ WF_vars(Continue(p))
               /\ SF_vars(Flush(p)) /\ SF_vars(Snapshot(p)) /\ SF_vars(Publish(p)) /\ SF_vars(Ack(p))
LiveSpec == Spec /\ \A p \in Procs : Fairness(p)

-----------------------------------------------------------------------------
(* Properties *)

\* Custody, Session, slots and clients have their types; a confirmed backup is
\* of a stored root, and the page shows only words that were drawn.
TypeOK ==
  /\ root \in Ids \cup {None} /\ confirmed \in BOOLEAN /\ (confirmed => root # None)
  /\ minted \subseteq Ids /\ shown \subseteq minted /\ words \in shown \cup {None}
  /\ pending \in Seq(Delta) /\ closure \subseteq Delta /\ offer \in Devs \cup {None}
  /\ procs \in [Procs -> ProcState]
  /\ resolver \subseteq Delta /\ DOMAIN basis \subseteq Ids \X Devs /\ basis \in [DOMAIN basis -> SUBSET Delta]
  /\ slots \in [Devs -> [offer : {"empty", "full", "read"}, bundle : {"empty", "full", "read"}]]
  /\ bundle \in [Devs -> (Ids \X Ids) \cup {None}]
  /\ client \in [Devs -> {"new", "waiting", "linked", "unlinked", "failed"}]
  /\ joined \in [Devs -> (Ids \X Ids) \cup {None}] /\ expired \subseteq Devs /\ intact \in BOOLEAN

\* Whatever the wallet publishes, and however flushes overlap or lose their
\* answers, anybody's verify of any device gets an answer: the closure that is
\* served resolves under the single-controller profile (publish_delta,
\* resolve_closure).
ServedResolves == \A i \in Ids, d \in Devs : VerifyAnswer(i, d) # "profile refused"

\* net.rs, publish: a 409 "means the delta is already present", so what has
\* been acknowledged is what the resolver holds.
AckMeansStored == closure \subseteq resolver

\* As long as phone and service have kept their state, that is so: every
\* flush sends parents first, however commands overlap, fail and restart.
AckedStored == intact => AckMeansStored

\* A queued delta leaves the queue only for the closure, or with the whole
\* session (acknowledge, adopt_closure, clear).
QueueKept == [][\/ pending' = <<>> /\ closure' = {}
                \/ Elems(pending) \subseteq Elems(pending') \cup closure']_vars

\* REQ-002 from the device's side: whoever a device says it has joined, that
\* identity's twelve words had reached the person (create_identity,
\* confirm_backup), on a phone that has not forgotten an identity whose words
\* the page still shows; and what it stored of an identity loads again.
JoinedBackedUp == \A d \in Devs :
  /\ client[d] = "linked" => StatusShown(d) # None
  /\ intact /\ StatusShown(d) # None => StatusShown(d) \in shown

\* commands.rs, flush_publications: "Retry every unacknowledged delta."  A delta
\* of the stored identity leaves the queue, unless that identity goes first.
EventuallyPublished ==
  \A x \in Delta : (x \in Elems(pending) /\ x.id = root) ~> (x \notin Elems(pending) \/ x.id # root)
=============================================================================
