----------------------------- MODULE LinkStore -----------------------------
(***************************************************************************)
(* The wallet's durable credential/v2 links and the commands that compete  *)
(* for them.                                                               *)
(*                                                                         *)
(* cbcl_v2_completion.rs keeps, in the platform store, one entry of link   *)
(* records per application and one index entry that lists the applications *)
(* (the store cannot enumerate its entries); cbcl_v2_policy.rs keeps the   *)
(* accepted application/relay pairs in a third entry.  A pairing worker    *)
(* (complete_approved, finish_pending), recovery, reload, unlink and       *)
(* forget_identity (cbcl_v2_commands.rs, commands.rs) read these entries,  *)
(* wait for a person or the network, and write them back.                  *)
(*                                                                         *)
(* SLOT_LOCK makes every link operation one step, except that unlink also  *)
(* updates the policy while it holds the lock.  A store call may fail      *)
(* before or after it took effect, and the process may stop at any point:  *)
(* an operation is therefore the set of its results, which are its end or  *)
(* a failure at any of the disk states its writes pass through (a stop in  *)
(* the middle is a failure followed by Crash).                             *)
(***************************************************************************)
EXTENDS Reloads, Naturals, Sequences, FiniteSets

CONSTANTS Apps, Relays, Ceremonies, Devices, Roots,
          AppOf, RelayOf, DevOf,  \* what a ceremony's carrier and offer say
          Legacy,                 \* ceremonies in CredentialV2Flow::LegacyTwoDecision
          MaxApplicationLinks,    \* MAX_APPLICATION_LINKS
          MaxLinks,               \* MAX_LINKS
          None

ASSUME LinkAssumption ==
  /\ AppOf \in [Ceremonies -> Apps] /\ RelayOf \in [Ceremonies -> Relays]
  /\ DevOf \in [Ceremonies -> Devices] /\ Legacy \subseteq Ceremonies
  /\ MaxApplicationLinks \in Nat \ {0} /\ MaxLinks \in Nat \ {0}
  /\ None \notin Ceremonies \cup Apps \cup Roots

VARIABLES disk,      \* [index, slots, policy]: the three kinds of store entry
          root,      \* generation of the root in custody
          worker,    \* the pairing command that holds the attempt
          recovery,  \* the pending record a recovery has loaded
          reload,    \* the installed record a reload has loaded
          unlink,    \* the snapshot an unlink has shown the person
          forget,    \* progress of forget_identity
          hub,       \* what the application's hub made of a ceremony
          removed,   \* ceremonies given up by the person or with the root
          gone       \* ceremonies whose record has been deleted
vars == <<disk, root, worker, recovery, reload, unlink, forget, hub, removed, gone>>

-----------------------------------------------------------------------------
(* Records *)

\* PendingCredentialV2Stage, each replacement of the endpoint checkpoint
\* counted as a stage of its own.
StageNames == {"FinalApproval", "Acknowledged", "Planned", "IssuerCreated",
               "Provisioned", "PayloadPrepared", "PayloadAcknowledged"}
PayloadStages == {"PayloadPrepared", "PayloadAcknowledged"}
\* Stages whose record holds the grant, and those whose record holds the issuer.
GrantStages == {"Provisioned"} \cup PayloadStages
IssuerStages == {"IssuerCreated"} \cup GrantStages
NextStage(s) == CASE s = "FinalApproval" -> "Acknowledged"
                  [] s = "Acknowledged"  -> "Planned"
                  [] s = "Planned"       -> "IssuerCreated"
                  [] s = "IssuerCreated" -> "Provisioned"
                  [] s = "Provisioned"   -> "PayloadPrepared"
                  [] OTHER               -> "PayloadAcknowledged"
Later(rec) == [rec EXCEPT !.stage = NextStage(rec.stage)]

\* CredentialV2LinkSlot: a pending ceremony, or an installed device link with
\* the profile it was last verified against.  An identity is named by the root
\* it is derived from; the previewed one is that of rec.root.
Record == [c : Ceremonies, root : Roots, stage : StageNames \cup {"Installed"}, prof : Profiles,
           issuer : Roots \cup {None}, grant : Roots \cup {None}]
Pending(rec) == rec.stage # "Installed"
Installed(rec) == ~Pending(rec)
First(c, g) == [c |-> c, root |-> g, stage |-> "FinalApproval", prof |-> Offered,
                issuer |-> None, grant |-> None]
AsInstalled(rec) == [rec EXCEPT !.stage = "Installed"]

\* The issuer and the grant are signed inside custody, by whatever root g is
\* there, and only if that derives the identity the person was shown (and, for
\* the grant, the issuer that was published).
IssuerArtifacts(g, rec) == {i \in {g} : i = rec.root}
GrantArtifacts(g, rec) == {i \in IssuerArtifacts(g, rec) : i = rec.issuer}
\* planned, issuer_created, provisioned, with_checkpoint: the record that may
\* replace rec when g is in custody.
Advanced(g, rec) ==
  IF rec.stage = "Planned" THEN {[Later(rec) EXCEPT !.issuer = i] : i \in IssuerArtifacts(g, rec)}
  ELSE IF rec.stage = "IssuerCreated" THEN {[Later(rec) EXCEPT !.grant = i] : i \in GrantArtifacts(g, rec)}
  ELSE {Later(rec)}
\* validate of a stage: the issuer is the previewed one, the grant is its own.
StageValid(rec) == /\ rec.issuer = IF rec.stage \in IssuerStages THEN rec.root ELSE None
                   /\ rec.grant = IF rec.stage \in GrantStages THEN rec.issuer ELSE None

\* recognise_slot, on every read and before every write.
Recognised(rec) == IF Pending(rec) THEN PendingRecognised(rec.prof) /\ StageValid(rec)
                   ELSE InstalledRecognised(rec.prof)
\* validate_slots.  The device of a pending record is not looked at.
Valid(slots) ==
  /\ Len(slots) <= MaxApplicationLinks
  /\ \A i \in 1..Len(slots) : Recognised(slots[i])
  /\ \A i, j \in 1..Len(slots) : i # j =>
       /\ ~(Pending(slots[i]) /\ Pending(slots[j]))
       /\ slots[i].root = slots[j].root
       /\ Installed(slots[i]) /\ Installed(slots[j]) =>
            slots[i].c # slots[j].c /\ DevOf[slots[i].c] # DevOf[slots[j].c]

Records(slots) == {slots[i] : i \in 1..Len(slots)}
RecordsIn(d) == UNION {Records(d.slots[a]) : a \in Apps}
Stored(d, c) == \E rec \in RecordsIn(d) : rec.c = c
PendingIn(slots) == {rec \in Records(slots) : Pending(rec)}
InstalledIn(slots) == {rec \in Records(slots) : Installed(rec)}
\* The position of a record; the records of an entry are all different.
Position(slots, rec) == CHOOSE k \in 1..Len(slots) : slots[k] = rec
\* Vec::remove.
Removed(slots, k) == [i \in 1..(Len(slots) - 1) |-> IF i < k THEN slots[i] ELSE slots[i + 1]]

-----------------------------------------------------------------------------
(* Store operations: the results of their writes *)

\* A refusal writes nothing.
Refused(d) == {[disk |-> d, ok |-> FALSE]}
\* Writes complete, or a store call on their way reports an error, before or
\* after taking effect.
Written(passed, done) == {[disk |-> done, ok |-> TRUE]}
                           \cup {[disk |-> d, ok |-> FALSE] : d \in passed \cup {done}}

WithSlots(d, a, s) == [d EXCEPT !.slots[a] = s]
Indexed(d, a) == [d EXCEPT !.index = @ \cup {a}]
Unindexed(d, a) == [d EXCEPT !.index = @ \ {a}]

WriteSlots(d, a, s) ==
  IF ~Valid(s) THEN Refused(d)
  ELSE IF s = <<>> THEN Written({d, WithSlots(d, a, s)}, Unindexed(WithSlots(d, a, s), a))
  ELSE Written({d}, WithSlots(d, a, s))

\* persist_pending indexes the application before it writes the record; an
\* exact retry is accepted and another pending ceremony is not.
PersistPendingSlotFirst(d, rec) ==
  LET a == AppOf[rec.c]
      s == Append(d.slots[a], rec)
  IN IF PendingIn(d.slots[a]) = {rec} THEN Written({}, d)
     ELSE IF PendingIn(d.slots[a]) # {} \/ ~Valid(s) THEN Refused(d)
     ELSE IF a \notin d.index /\ Cardinality(d.index) >= MaxLinks THEN Refused(d)
     ELSE Written({d, WithSlots(d, a, s)}, Indexed(WithSlots(d, a, s), a))
PersistPending(d, rec) ==
  LET a == AppOf[rec.c]
      s == Append(d.slots[a], rec)
  IN IF PendingIn(d.slots[a]) = {rec} THEN Written({}, d)
     ELSE IF PendingIn(d.slots[a]) # {} \/ ~Valid(s) THEN Refused(d)
     ELSE IF a \notin d.index /\ Cardinality(d.index) >= MaxLinks THEN Refused(d)
     ELSE Written({d, Indexed(d, a)}, WithSlots(Indexed(d, a), a, s))

\* Compare-and-swap of one record: replace_pending, install, replace_installed.
Swap(d, old, new) ==
  LET a == AppOf[old.c]
      s == d.slots[a]
  IN IF old \notin Records(s) THEN Refused(d)
     ELSE WriteSlots(d, a, [s EXCEPT ![Position(s, old)] = new])
ReplacePending(d, old, new) == Swap(d, old, new)
\* An installed record that is there already counts as success.
Install(d, old, new) == IF new \in RecordsIn(d) /\ old \notin RecordsIn(d)
                        THEN Written({}, d) ELSE Swap(d, old, new)
ReplaceInstalledBlindly(d, old, new) ==
  IF old \in Records(d.slots[AppOf[old.c]]) THEN Swap(d, old, new) ELSE PersistPending(d, new)
ReplaceInstalled(d, old, new) == Install(d, old, new)

Without(d, rec) ==
  LET s == d.slots[AppOf[rec.c]] IN WriteSlots(d, AppOf[rec.c], Removed(s, Position(s, rec)))
RemovePending(d, rec) == IF rec \in RecordsIn(d) THEN Without(d, rec) ELSE Refused(d)

\* remove_pre_payload_attempt: the stored record may be a later phase than the
\* guard's copy, but never of another ceremony or past the payload boundary.
RemovePrePayloadAttempt(d, anchor) ==
  LET current == {rec \in PendingIn(d.slots[AppOf[anchor.c]]) :
                    rec.c = anchor.c /\ rec.root = anchor.root /\ rec.stage \notin PayloadStages}
  IN IF current # {} THEN Without(d, CHOOSE rec \in current : TRUE) ELSE Refused(d)

\* purge_all_links: every indexed entry, then the index.  The entries go in
\* the order of their names, which is left open here.
Purged(d, part) == [d EXCEPT !.slots = [a \in Apps |-> IF a \in part THEN <<>> ELSE @[a]]]
PurgeAllLinks(d) ==
  Written({Purged(d, part) : part \in SUBSET d.index}, [Purged(d, d.index) EXCEPT !.index = {}])

\* Listing prunes the rows of applications without records.
Pruned(d) == [d EXCEPT !.index = {a \in @ : d.slots[a] # <<>>}]

\* The disk and the history after result r.
Commit(r) == /\ disk' = r.disk
             /\ gone' = gone \cup {c \in Ceremonies : Stored(disk, c) /\ ~Stored(r.disk, c)}

-----------------------------------------------------------------------------
(* Processes *)

Pairs == Apps \X Relays
PairOf(c) == <<AppOf[c], RelayOf[c]>>
\* policy::insert and policy::remove write back what they loaded earlier.
PolicyInsert(seen, p) == IF p \in seen THEN Written({}, disk)
                         ELSE Written({disk}, [disk EXCEPT !.policy = seen \cup {p}])
PolicyRemove(seen, p) == IF p \in seen THEN Written({disk}, [disk EXCEPT !.policy = seen \ {p}])
                         ELSE Written({}, disk)

Idle == [pc |-> "idle", c |-> None, live |-> FALSE, cur |-> None, seen |-> {}]
NoUnlink == [pc |-> "idle", app |-> None, snap |-> <<>>, states |-> {}, todo |-> {},
             undo |-> {}, seen |-> {}]
\* unlink_local holds SLOT_LOCK across its policy updates.
Locked == unlink.pc \in {"load", "set", "write", "undoLoad", "undoSet"}
RootChanging == forget # "idle"

Init == /\ disk = [index |-> {}, slots |-> [a \in Apps |-> <<>>], policy |-> {}]
        /\ root \in Roots
        /\ worker = Idle /\ recovery = None /\ reload = None
        /\ unlink = NoUnlink /\ forget = "idle"
        /\ hub = [c \in Ceremonies |-> "unknown"]
        /\ removed = {} /\ gone = {}

-----------------------------------------------------------------------------
(* The pairing worker *)

Quiet == UNCHANGED <<disk, gone>>
Others == UNCHANGED <<root, recovery, reload, unlink, forget, removed>>

\* authorise_claimant_relay: the plan's sample of its exact pair decides whether
\* the person is asked.  A trusted pair needs no insertion but must still be
\* there; a ceremony gesture speaks for itself.
AuthoriseClaimantRelay(c) == IF c \notin Legacy THEN "ready"
                             ELSE IF PairOf(c) \in disk.policy THEN "recheck" ELSE "insert"
\* A ceremony begins: a live invitation is recognised, its profile fetched and
\* the state of its pair sampled.  Declining it, like any refusal, leaves nothing.
Contact(c) ==
  /\ worker.pc = "idle" /\ ~RootChanging /\ root # None
  /\ hub[c] = "unknown"
  /\ hub' = [hub EXCEPT ![c] = "started"]
  /\ worker' = [Idle EXCEPT !.pc = AuthoriseClaimantRelay(c), !.c = c, !.live = TRUE]
  /\ Quiet /\ Others

\* bind_finished_profile: policy::insert loads the entry ...
PolicyLoad ==
  /\ worker.pc = "insert"
  /\ worker' = [worker EXCEPT !.pc = "inserting", !.seen = disk.policy]
  /\ Quiet /\ Others /\ UNCHANGED hub
\* ... and writes it back, without a lock.
PolicyStore ==
  /\ worker.pc = "inserting"
  /\ \E r \in PolicyInsert(worker.seen, PairOf(worker.c)) :
       /\ Commit(r)
       /\ worker' = IF r.ok THEN [worker EXCEPT !.pc = "ready", !.seen = {}] ELSE Idle
  /\ Others /\ UNCHANGED hub
PolicyRecheck ==
  /\ worker.pc = "recheck"
  /\ worker' = IF PairOf(worker.c) \in disk.policy THEN [worker EXCEPT !.pc = "ready"] ELSE Idle
  /\ Quiet /\ Others /\ UNCHANGED hub

\* The last decision: the root generation is read and the first record built.
Decide ==
  /\ worker.pc = "ready" /\ worker.live /\ root # None
  /\ worker' = [worker EXCEPT !.pc = "begin", !.cur = First(worker.c, root)]
  /\ Quiet /\ Others /\ UNCHANGED hub

\* The transaction is dropped with an armed guard, which knows its record.
Dropping == [Idle EXCEPT !.pc = "drop", !.cur = worker.cur]
\* What follows an effect that has been entered: attempt.check decides whether
\* the worker goes on; dropping the transaction runs the cleanup guard.
GoOn(next) == worker' = IF worker.live THEN next ELSE [Dropping EXCEPT !.cur = next.cur]
\* PrePayloadPendingTransaction::begin.  The guard is armed before the write.
Begin ==
  /\ worker.pc = "begin" /\ ~Locked
  /\ \E r \in PersistPending(disk, worker.cur) :
       /\ Commit(r)
       /\ IF r.ok THEN GoOn([worker EXCEPT !.pc = "stage"])
          ELSE worker' = Dropping
  /\ Others /\ UNCHANGED hub
\* replace_at: acknowledgement, plan, issuer and grant are each durable before
\* the next effect.
Advance ==
  /\ worker.pc = "stage" /\ ~Locked /\ worker.cur.stage # "Provisioned"
  /\ \E next \in Advanced(root, worker.cur) :
       \E r \in ReplacePending(disk, worker.cur, next) :
         /\ Commit(r)
         /\ IF r.ok THEN GoOn([worker EXCEPT !.cur = next]) ELSE worker' = Dropping
  /\ Others /\ UNCHANGED hub
\* commit_payload: the guard is disarmed with the durable payload; a fenced
\* worker then returns without releasing the payload frame.
CommitPayload ==
  /\ worker.pc = "stage" /\ ~Locked /\ worker.cur.stage = "Provisioned"
  /\ \E r \in ReplacePending(disk, worker.cur, Later(worker.cur)) :
       /\ Commit(r)
       /\ worker' = IF ~r.ok THEN Dropping
                    ELSE IF worker.live THEN [worker EXCEPT !.pc = "release", !.cur = None]
                    ELSE Idle
  /\ Others /\ UNCHANGED hub
\* send_effects, then the continuation is parked in the session.  The frame may
\* have left when the sender reports an error.
Release ==
  /\ worker.pc = "release"
  /\ hub' = [hub EXCEPT ![worker.c] = IF @ = "started" THEN "offered" ELSE @]
  /\ worker' \in {IF worker.live THEN [worker EXCEPT !.pc = "sent"] ELSE Idle, Idle}
  /\ Quiet /\ Others

\* cbcl_v2_finish takes the parked continuation.
TakeSent == /\ worker.pc = "sent" /\ worker.live
            /\ worker' = [worker EXCEPT !.pc = "receive"]
            /\ Quiet /\ Others /\ UNCHANGED hub
\* An error parks the continuation again, unless its attempt is over.
Parked == IF worker.live THEN [worker EXCEPT !.pc = "sent", !.cur = None] ELSE Idle
\* prepare_received_receipt: the pending record is read again and its payload
\* acknowledgement checkpointed.
Receive ==
  /\ worker.pc = "receive" /\ ~Locked
  /\ \E rec \in PendingIn(disk.slots[AppOf[worker.c]]) :
       LET acknowledged == IF rec.stage = "PayloadPrepared" THEN Later(rec) ELSE rec
       IN \E r \in IF acknowledged = rec THEN {[disk |-> disk, ok |-> TRUE]}
                   ELSE ReplacePending(disk, rec, acknowledged) :
            /\ Commit(r)
            /\ worker' = IF r.ok /\ worker.live
                         THEN [worker EXCEPT !.pc = "verify", !.cur = acknowledged] ELSE Parked
  /\ Others /\ UNCHANGED hub
\* The receipt is verified against the payload of the record, then the live
\* account binding; install_guarded follows.
Finish ==
  /\ worker.pc = "verify" /\ ~Locked
  /\ hub[worker.c] = "final"
  /\ worker.cur.c = worker.c /\ worker.cur.stage \in PayloadStages
  /\ \E r \in Install(disk, worker.cur, AsInstalled(worker.cur)) :
       /\ Commit(r)
       /\ worker' = IF r.ok THEN Idle ELSE Parked
  /\ Others /\ UNCHANGED hub

\* Any other refusal: network, expiry, verification, or the fence.
Fail ==
  /\ \/ worker.pc \in {"insert", "recheck", "ready", "begin"} /\ worker' = Idle
     \/ worker.pc = "stage" /\ worker' = Dropping
     \/ worker.pc \in {"receive", "verify"} /\ worker' = Parked
  /\ Quiet /\ Others /\ UNCHANGED hub
\* Drop for PrePayloadPendingCleanup; its own errors are ignored.
DropGuard ==
  /\ worker.pc = "drop" /\ ~Locked
  /\ \E r \in RemovePrePayloadAttempt(disk, worker.cur) : Commit(r)
  /\ worker' = Idle
  /\ Others /\ UNCHANGED hub

\* The attempt is cancelled (see Attempts for when); a parked continuation is
\* dropped with it.
Revoked == IF worker.pc \in {"ready", "sent"} THEN Idle ELSE [worker EXCEPT !.live = FALSE]
Cancel == /\ worker.live
          /\ worker' = Revoked
          /\ Quiet /\ Others /\ UNCHANGED hub

-----------------------------------------------------------------------------
(* Recovery and reload *)

\* recover_claimant_completion: the relay window is over, the payload was
\* prepared and the root is the one it was prepared under.
Recover ==
  /\ recovery = None /\ ~Locked
  /\ \E rec \in RecordsIn(disk) : /\ Pending(rec) /\ rec.stage \in PayloadStages
                                  /\ rec.root = root
                                  /\ recovery' = rec
  /\ Quiet /\ UNCHANGED <<root, worker, reload, unlink, forget, hub, removed>>
\* The hub's terminal answer is applied to the record that was loaded.  Any
\* other answer, or an error on the way, leaves the store alone.
RecoverAnyNegative ==
  /\ recovery # None /\ ~Locked
  /\ \/ /\ hub[recovery.c] = "final"
        /\ \E r \in Install(disk, recovery, AsInstalled(recovery)) : Commit(r)
     \/ /\ hub[recovery.c] # "final"
        /\ \E r \in RemovePending(disk, recovery) : Commit(r)
     \/ Quiet
  /\ recovery' = None
  /\ UNCHANGED <<root, worker, reload, unlink, forget, hub, removed>>
RecoverAnswer ==
  /\ recovery # None /\ ~Locked
  /\ \/ /\ hub[recovery.c] = "final"
        /\ \E r \in Install(disk, recovery, AsInstalled(recovery)) : Commit(r)
     \/ /\ hub[recovery.c] = "void"
        /\ \E r \in RemovePending(disk, recovery) : Commit(r)
     \/ Quiet
  /\ recovery' = None
  /\ UNCHANGED <<root, worker, reload, unlink, forget, hub, removed>>

\* cbcl_v2_reload_verify loads the most recently installed device ...
Reload(a) ==
  /\ reload = None /\ ~Locked
  /\ \E k \in 1..Len(disk.slots[a]) :
       /\ Installed(disk.slots[a][k])
       /\ \A j \in (k+1)..Len(disk.slots[a]) : Pending(disk.slots[a][j])
       /\ disk.slots[a][k].root = root
       /\ reload' = disk.slots[a][k]
  /\ Quiet /\ UNCHANGED <<root, worker, recovery, unlink, forget, hub, removed>>
\* ... and, after fetching everything afresh, pins the live profile if all of it
\* vouches for the link.
ReloadAnswer ==
  /\ reload # None /\ ~Locked
  /\ \/ \E prof \in Replacements[reload.prof] :
          \E r \in ReplaceInstalled(disk, reload, [reload EXCEPT !.prof = prof]) : Commit(r)
     \/ Quiet
  /\ reload' = None
  /\ UNCHANGED <<root, worker, recovery, unlink, forget, hub, removed>>

\* pending_application_ids, installed_links, pending_links.
List ==
  /\ ~Locked /\ Pruned(disk) # disk
  /\ \E r \in Written({disk}, Pruned(disk)) : Commit(r)
  /\ UNCHANGED <<root, worker, recovery, reload, unlink, forget, hub, removed>>

-----------------------------------------------------------------------------
(* Unlink *)

UnlinkFrame == UNCHANGED <<root, worker, recovery, reload, forget, hub>>
SelectsPending(snap) == PendingIn(snap) # {}
\* Records whose exact pairs an unlink of this snapshot is about.
Selected(snap) == IF SelectsPending(snap) THEN PendingIn(snap) ELSE Records(snap)

\* load_local_link: the snapshot and the state of its pairs, shown to the
\* person, who confirms with a passcode.
UnlinkLoad(a) ==
  /\ unlink.pc = "idle" /\ disk.slots[a] # <<>>
  /\ \A rec \in Selected(disk.slots[a]) : rec.root = root
  /\ LET pairs == {PairOf(rec.c) : rec \in {x \in Selected(disk.slots[a]) : x.c \in Legacy}}
     IN unlink' = [NoUnlink EXCEPT !.pc = "confirm", !.app = a, !.snap = disk.slots[a],
                                   !.states = {<<p, p \in disk.policy>> : p \in pairs}]
  /\ Quiet /\ UnlinkFrame /\ UNCHANGED removed

\* unlink_local takes the lock and compares everything it was shown.  A pair is
\* kept when only a pending record goes and an installed sibling uses the relay.
SelectionHolds == Selected(unlink.snap) \cap Records(disk.slots[unlink.app]) # {}
SnapshotHolds == disk.slots[unlink.app] = unlink.snap
UnlinkStart ==
  /\ unlink.pc = "confirm"
  /\ LET kept == {p \in Pairs : /\ SelectsPending(unlink.snap)
                                /\ \E rec \in InstalledIn(unlink.snap) : PairOf(rec.c) = p}
         todo == {s[1] : s \in {x \in unlink.states : x[2]}} \ kept
     IN unlink' = IF /\ SnapshotHolds
                     /\ \A s \in unlink.states : (s[1] \in disk.policy) = s[2]
                  THEN [unlink EXCEPT !.pc = IF todo = {} THEN "write" ELSE "load", !.todo = todo, !.states = {}]
                  ELSE NoUnlink
  /\ Quiet /\ UnlinkFrame /\ UNCHANGED removed
\* The person declines, the passcode is wrong, or the store cannot be read.
UnlinkCancel ==
  /\ unlink.pc = "confirm"
  /\ unlink' = NoUnlink
  /\ Quiet /\ UnlinkFrame /\ UNCHANGED removed

\* Compensation re-inserts the removed pairs.
Compensate(undo) == IF undo = {} THEN NoUnlink
                    ELSE [NoUnlink EXCEPT !.pc = "undoLoad", !.undo = undo]

\* policy::remove of one pair: load, then store.
UnlinkPolicyLoad ==
  /\ unlink.pc = "load"
  /\ unlink' = [unlink EXCEPT !.pc = "set", !.seen = disk.policy]
  /\ Quiet /\ UnlinkFrame /\ UNCHANGED removed
UnlinkPolicyStore ==
  /\ unlink.pc = "set"
  /\ \E p \in unlink.todo :
       \E r \in PolicyRemove(unlink.seen, p) :
         /\ Commit(r)
         /\ unlink' = IF ~r.ok THEN Compensate(unlink.undo)
                      ELSE [unlink EXCEPT !.pc = IF unlink.todo = {p} THEN "write" ELSE "load",
                                          !.todo = @ \ {p}, !.undo = @ \cup {p}, !.seen = {}]
  /\ UnlinkFrame /\ UNCHANGED removed

\* The pending record, or every record of the application, is deleted.
Rest(snap) == IF SelectsPending(snap)
              THEN Removed(snap, Position(snap, CHOOSE rec \in PendingIn(snap) : TRUE)) ELSE <<>>
UnlinkWrite ==
  /\ unlink.pc = "write"
  /\ \E r \in WriteSlots(disk, unlink.app, Rest(unlink.snap)) :
       /\ Commit(r)
       /\ removed' = removed \cup {rec.c : rec \in RecordsIn(disk) \ RecordsIn(r.disk)}
       /\ unlink' = IF r.ok THEN NoUnlink ELSE Compensate(unlink.undo)
  /\ UnlinkFrame

\* policy::insert of one removed pair; its errors are ignored.
UnlinkUndo ==
  /\ \/ /\ unlink.pc = "undoLoad"
        /\ unlink' = [unlink EXCEPT !.pc = "undoSet", !.seen = disk.policy]
        /\ Quiet
     \/ /\ unlink.pc = "undoSet"
        /\ \E p \in unlink.undo :
             /\ \E r \in PolicyInsert(unlink.seen, p) : Commit(r)
             /\ unlink' = Compensate(unlink.undo \ {p})
  /\ UnlinkFrame /\ UNCHANGED removed

-----------------------------------------------------------------------------
(* The root, the hub and the process *)

\* begin_cbcl_v2_root_change revokes the attempt; a worker inside an effect is
\* not waited for.
Forget ==
  /\ forget = "idle" /\ root # None
  /\ forget' = "links"
  /\ worker' = Revoked
  /\ Quiet /\ UNCHANGED <<root, recovery, reload, unlink, hub, removed>>
\* purge_all_links, policy::purge, Custody::forget; an error ends the command.
ForgetStep ==
  /\ \/ /\ forget = "links" /\ ~Locked
        /\ \E r \in PurgeAllLinks(disk) :
             /\ Commit(r)
             /\ removed' = removed \cup {rec.c : rec \in RecordsIn(disk) \ RecordsIn(r.disk)}
             /\ forget' = IF r.ok THEN "policy" ELSE "idle"
        /\ UNCHANGED root
     \/ /\ forget = "policy"
        /\ \E r \in Written({disk}, [disk EXCEPT !.policy = {}]) :
             Commit(r) /\ forget' = IF r.ok THEN "custody" ELSE "idle"
        /\ UNCHANGED <<root, removed>>
     \/ /\ forget = "custody"
        /\ forget' = "idle" /\ root' \in {None, root}
        /\ Quiet /\ UNCHANGED removed
  /\ UNCHANGED <<worker, recovery, reload, unlink, hub>>
\* create_identity or restore_identity.
NewRoot ==
  /\ forget = "idle" /\ root = None
  /\ root' \in Roots
  /\ worker' = Revoked
  /\ Quiet /\ UNCHANGED <<recovery, reload, unlink, forget, hub, removed>>

\* External: the hub finalises a payload it was offered, or signs that it never
\* will; either answer stands.
HubDecides(c) ==
  /\ \/ hub[c] = "offered" /\ hub' = [hub EXCEPT ![c] = "final"]
     \/ hub[c] \in {"started", "offered"} /\ hub' = [hub EXCEPT ![c] = "void"]
  /\ Quiet /\ UNCHANGED <<root, worker, recovery, reload, unlink, forget, removed>>

\* The process stops; only the store survives.
Crash ==
  /\ worker' = Idle /\ recovery' = None /\ reload' = None
  /\ unlink' = NoUnlink /\ forget' = "idle"
  /\ UNCHANGED <<disk, root, hub, removed, gone>>

Next == \/ \E c \in Ceremonies : Contact(c) \/ HubDecides(c)
        \/ PolicyLoad \/ PolicyStore \/ PolicyRecheck \/ Decide \/ Begin \/ Advance
        \/ CommitPayload \/ Release \/ TakeSent \/ Receive \/ Finish \/ Fail \/ DropGuard \/ Cancel
        \/ Recover \/ RecoverAnswer \/ ReloadAnswer \/ List
        \/ \E a \in Apps : Reload(a) \/ UnlinkLoad(a)
        \/ UnlinkStart \/ UnlinkCancel \/ UnlinkPolicyLoad \/ UnlinkPolicyStore
        \/ UnlinkWrite \/ UnlinkUndo
        \/ Forget \/ ForgetStep \/ NewRoot \/ Crash

Spec == Init /\ [][Next]_vars

-----------------------------------------------------------------------------
(* Properties *)

\* Every variable has its type; every entry would be recognised again (read_slots
\* validates what it reads), and however often an installed link was verified
\* against another profile, the one it pins declares the offer's key.
TypeOK ==
  /\ disk.index \subseteq Apps /\ disk.policy \subseteq Pairs
  /\ \A a \in Apps : /\ Valid(disk.slots[a])
                     /\ \A rec \in Records(disk.slots[a]) : /\ rec \in Record /\ AppOf[rec.c] = a
                                                   /\ OfferKeyRetainedIn(rec.prof)
  /\ Cardinality(disk.index) <= MaxLinks
  /\ root \in Roots \cup {None}
  /\ worker.cur \in Record \cup {None} /\ worker.live \in BOOLEAN
  /\ recovery \in Record \cup {None} /\ reload \in Record \cup {None}
  /\ hub \in [Ceremonies -> {"unknown", "started", "offered", "final", "void"}]
  /\ removed \subseteq Ceremonies /\ gone \subseteq Ceremonies

\* An application with stored records is listed in the index, whatever store
\* call fails and wherever the process stops: nothing else can find the entry
\* (write_slots, persist_pending, purge_all_links).
Discoverable == \A a \in Apps : disk.slots[a] # <<>> => a \in disk.index

\* A ceremony the hub has finalised is held by the wallet, as a recoverable
\* pending record or as an installed link, unless the person unlinked it or the
\* root was destroyed (commit_payload before the payload frame; recover, finish
\* and the cleanup guard remove nothing the hub accepted).
FinalizedKept ==
  \A c \in Ceremonies : hub[c] = "final" =>
    \/ \E rec \in RecordsIn(disk) : rec.c = c /\ rec.stage \in PayloadStages \cup {"Installed"}
    \/ c \in removed

\* A deleted record does not come back: a worker, a recovery or a reload that
\* read it before the deletion cannot write it again.
NoResurrection == \A c \in gone : ~Stored(disk, c)

\* Of a root that has left custody at most an unadvanced approval is stored:
\* no issuer, grant, payload or installed link outlives the root that made it
\* (purge_all_links, and the compare-and-swap of everything a worker, recovery
\* or reload writes later).  An approval can, because forget_identity does not
\* wait for a worker that has entered PrePayloadPendingTransaction::begin.
NothingOutlivesRoot ==
  \A rec \in RecordsIn(disk) : rec.root # root => rec.stage = "FinalApproval"
\* No record is out of reach: of a listing, or of the destruction of its root.
NothingStranded == Discoverable /\ NothingOutlivesRoot

\* An installed link disappears only with the root or by an unlink whose
\* snapshot showed it and showed no pending ceremony (load_local_link,
\* unlink_local): a link installed after the person looked is never removed.
UnlinksWhatWasShown ==
  [][\A a \in Apps : \A rec \in InstalledIn(disk.slots[a]) :
       (~\E new \in InstalledIn(disk'.slots[a]) : new.c = rec.c) =>
         \/ forget = "links"
         \/ rec \in Records(unlink.snap) /\ ~SelectsPending(unlink.snap)]_vars
=============================================================================
