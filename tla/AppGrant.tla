------------------------------ MODULE AppGrant ------------------------------
(***************************************************************************)
(* Application grants and first-contact enrolment in the wallet            *)
(* (src-tauri/src/app_grant.rs), with the durable ledger of consumed       *)
(* request ids (src-tauri/src/replay.rs).                                  *)
(*                                                                         *)
(* A grant is prepared (authorised, its request id consumed, signed, its   *)
(* authority asked) and held in Session.pending_issuance until the person  *)
(* answers; an enrolment keeps the transport context of its ceremony in    *)
(* Session.pending_enrolment beside it.  Commands are asynchronous: each   *)
(* lock region, store access and await is an action, and other commands    *)
(* run in between.  An offer stands for its ceremony id and its request    *)
(* id, which the application draws together.                               *)
(***************************************************************************)
EXTENDS Naturals, FiniteSets

CONSTANTS Offers,      \* the offers the wallet may be shown
          Expiry,      \* Expiry[o]: the offer's expiresAt
          Procs,       \* command invocations that may run concurrently
          None,        \* the absent value of every Option
          MaxEntries,  \* replay::MAX_ENTRIES
          MaxTime      \* bound: the clock stops here

ASSUME OfferAssumption == None \notin Offers /\ Expiry \in [Offers -> Nat]
ASSUME BoundAssumption == MaxEntries \in Nat /\ MaxTime \in Nat

VARIABLES issuance,    \* Session.pending_issuance: whose grant it holds
          enrolment,   \* Session.pending_enrolment: whose context it holds
          hasRoot,     \* a root is stored in custody
          ledger,      \* the stored consumed ids, each with its offer's expiry
          trust,       \* stored pairing-trust entries
          procs,       \* procs[p]: the local state of a running command
          now,         \* the wallet's clock
          signatures,  \* signatures[o]: grants signed for o
          released,    \* released[o]: bundles released for o
          bundles,     \* <<g, o>>: g's bundle in the slot of o's secret
          announced    \* <<g, o>>: g's issuer in the announce slot of o
vars == <<issuance, enrolment, hasRoot, ledger, trust, procs, now,
          signatures, released, bundles, announced>>

-----------------------------------------------------------------------------
Kinds == {"held", "enrol"}
\* What a command does next; "announce" and "trust" follow the Session updates.
Steps == {"idle", "keep", "consume", "sign", "ask", "hold", "read", "announce",
          "context", "deliver", "trust"}
ProcState == [pc : Steps, cer : Offers \cup {None}, kind : Kinds, from : Nat,
              required : BOOLEAN, did : Offers \cup {None}]
IdleUnset == [pc |-> "idle", cer |-> None, kind |-> None, from |-> 0,
              required |-> FALSE, did |-> None]
Idle == [pc |-> "idle", cer |-> None, kind |-> "held", from |-> 0,
         required |-> FALSE, did |-> None]
Session == <<issuance, enrolment>>
Stored == <<hasRoot, ledger, trust>>
Effects == <<signatures, released, bundles, announced>>

Init == /\ issuance = None /\ enrolment = None
        /\ hasRoot = FALSE /\ ledger = {} /\ trust = {}
        /\ procs = [p \in Procs |-> Idle]
        /\ now = 0
        /\ signatures = [o \in Offers |-> 0] /\ released = [o \in Offers |-> 0]
        /\ bundles = {} /\ announced = {}

Start(p, step, o, k) ==
  /\ procs[p].pc = "idle"
  /\ procs' = [procs EXCEPT ![p] = [Idle EXCEPT !.pc = step, !.cer = o, !.kind = k, !.from = now]]
GoTo(p, step) == procs' = [procs EXCEPT ![p].pc = step]
End(p) == procs' = [procs EXCEPT ![p] = Idle]

-----------------------------------------------------------------------------
(* The replay ledger *)

LiveOneShort(t) == {o \in ledger : Expiry[o] > t + 1}
\* The entries the ledger still holds at instant t.
LiveAt(t) == {o \in ledger : Expiry[o] > t}
\* record: prune by the caller's instant, refuse a replay or a full ledger.
Recordable(o, t) == o \notin LiveAt(t) /\ Cardinality(LiveAt(t)) < MaxEntries

\* authorise: the offer has not expired by the clock the command reads.
Authorise(o) == now < Expiry[o]

-----------------------------------------------------------------------------
(* Starting an enrolment *)

\* enrol_from_opened, up to the replay pre-check, which consumes nothing.
EnrolStart(p, o) ==
  /\ Authorise(o)
  /\ o \notin LiveAt(now)
  /\ Start(p, "keep", o, "enrol")
  /\ UNCHANGED <<Session, Stored, now, Effects>>

\* A slot holding another ceremony that was live at instant t is not displaced.
Occupied(slot, o, t) == slot # None /\ Expiry[slot] > t /\ slot # o

\* enrol_from_opened: the context is held unless another one is live.
EnrolKeep(p) ==
  LET o == procs[p].cer IN
  /\ procs[p].pc = "keep"
  /\ enrolment' = IF Occupied(enrolment, o, procs[p].from) THEN enrolment ELSE o
  /\ End(p)
  /\ UNCHANGED <<issuance, Stored, now, Effects>>

-----------------------------------------------------------------------------
(* Preparing a grant *)

\* app_grant_prepare on an offer the page hands in.  The backup gate needs a
\* confirmed, hence an existing, root.
HeldPrepare(p, o) ==
  /\ hasRoot
  /\ Authorise(o)
  /\ Start(p, "consume", o, "held")
  /\ UNCHANGED <<Session, Stored, now, Effects>>

\* cbcl_enrol_prepare copies the context out of the Session.
EnrolPrepare(p) ==
  /\ hasRoot
  /\ enrolment # None
  /\ Authorise(enrolment)
  /\ Start(p, "consume", enrolment, "enrol")
  /\ UNCHANGED <<Session, Stored, now, Effects>>

\* replay::consume.  A refused attempt saves nothing; a failing store may have
\* written the ledger before it reports the failure.
Consume(p) ==
  LET o == procs[p].cer IN
  /\ procs[p].pc = "consume"
  /\ \/ /\ Recordable(o, procs[p].from)
        /\ ledger' = LiveAt(procs[p].from) \cup {o}
        /\ GoTo(p, "sign") \/ End(p)
     \/ /\ UNCHANGED ledger
        /\ End(p)
  /\ UNCHANGED <<Session, hasRoot, trust, now, Effects>>

\* The presence check and the signature inside it.
SignGrant(p) ==
  /\ procs[p].pc = "sign"
  /\ hasRoot
  /\ signatures' = [signatures EXCEPT ![procs[p].cer] = @ + 1]
  /\ GoTo(p, "ask")
  /\ UNCHANGED <<Session, Stored, now, released, bundles, announced>>

\* authority_state and Applicability::decide: a first enrolment needs the
\* comparison, a bound account does not; "unknown" fails closed (Refused).
Ask(p, required) ==
  /\ procs[p].pc = "ask"
  /\ procs' = [procs EXCEPT ![p].pc = "hold", ![p].required = required]
  /\ UNCHANGED <<Session, Stored, now, Effects>>

MayHoldAnyway(o, t) == TRUE
\* An overlapping live ceremony is refused, not displaced.
MayHold(o, t) == ~Occupied(issuance, o, t)

\* prepare_issuance's last lock region.
Hold(p) ==
  LET o == procs[p].cer IN
  /\ procs[p].pc = "hold"
  /\ MayHold(o, procs[p].from)
  /\ issuance' = o
  /\ IF procs[p].kind = "enrol" /\ procs[p].required THEN GoTo(p, "read") ELSE End(p)
  /\ UNCHANGED <<enrolment, Stored, now, Effects>>

\* cbcl_enrol_prepare locks again and copies whatever issuer is now pending.
ReadIssuer(p) ==
  /\ procs[p].pc = "read"
  /\ IF issuance = None THEN End(p)
     ELSE procs' = [procs EXCEPT ![p].pc = "announce", ![p].did = issuance]
  /\ UNCHANGED <<Session, Stored, now, Effects>>

\* A rendezvous slot is written once; a second PUT is refused (Refused).
Written(slots, o) == \E x \in slots : x[2] = o

\* put_announce under the ceremony's own secret; the answer may be lost.
Announce(p) ==
  /\ procs[p].pc = "announce"
  /\ ~Written(announced, procs[p].cer)
  /\ announced' = announced \cup {<<procs[p].did, procs[p].cer>>}
  /\ End(p)
  /\ UNCHANGED <<Session, Stored, now, signatures, released, bundles>>

-----------------------------------------------------------------------------
(* The person's answer *)

\* The prompt's answer came before the offer's own expiry.
InTime(o) == now < Expiry[o]

AfterRelease(k) == IF k = "enrol" THEN "context" ELSE "trust"

\* app_grant_confirm and cbcl_enrol_confirm.  confirm_issuance takes what is
\* pending whether or not it is the ceremony named; only a timely yes for the
\* named ceremony releases the bundle.
Confirm(p, o, yes, k) ==
  /\ procs[p].pc = "idle"
  /\ issuance # None
  /\ issuance' = None
  /\ IF issuance = o /\ InTime(o) /\ yes
     THEN /\ released' = [released EXCEPT ![o] = @ + 1]
          /\ Start(p, AfterRelease(k), o, k)
     ELSE UNCHANGED <<released, procs>>
  /\ UNCHANGED <<enrolment, Stored, now, signatures, bundles, announced>>

AnyContext(o) == enrolment # None
SameContext(o) == enrolment = o

\* The enrolment context is taken; another ceremony's delivers nothing.
TakeContext(p) ==
  /\ procs[p].pc = "context"
  /\ enrolment' = None
  /\ IF SameContext(procs[p].cer)
     THEN procs' = [procs EXCEPT ![p].pc = "deliver", ![p].did = enrolment]
     ELSE End(p)
  /\ UNCHANGED <<issuance, Stored, now, Effects>>

\* put_bundle into the slot the context names; the answer may be lost, so
\* that delivery has happened and the command fails all the same.
Deliver(p) ==
  /\ procs[p].pc = "deliver"
  /\ ~Written(bundles, procs[p].did)
  /\ bundles' = bundles \cup {<<procs[p].cer, procs[p].did>>}
  /\ GoTo(p, "trust") \/ End(p)
  /\ UNCHANGED <<Session, Stored, now, signatures, released, announced>>

\* record_pairing_trust; a failing second write leaves the entry unindexed.
CommitTrust(p) ==
  /\ procs[p].pc = "trust"
  /\ trust' = trust \cup {<<procs[p].cer, procs[p].kind>>}
  /\ End(p)
  /\ UNCHANGED <<Session, hasRoot, ledger, now, Effects>>

\* Any other early return: a wrong passcode, an unusable issuer, an authority
\* that cannot be asked, an overlapping ceremony, an unreachable rendezvous, a
\* failing store.
Refused(p) ==
  /\ procs[p].pc # "idle"
  /\ End(p)
  /\ UNCHANGED <<Session, Stored, now, Effects>>

-----------------------------------------------------------------------------
\* forget_identity: Session::clear leaves both pending slots as they are, and
\* the ledger and the trust entries stay in the store.
Forget == /\ hasRoot
          /\ hasRoot' = FALSE
          /\ UNCHANGED <<Session, ledger, trust, procs, now, Effects>>
\* create_identity or restore_identity, and the backup confirmed.
Create == /\ ~hasRoot
          /\ hasRoot' = TRUE
          /\ UNCHANGED <<Session, ledger, trust, procs, now, Effects>>

\* The application stops and starts again: Session::load begins empty.
Restart == /\ issuance' = None /\ enrolment' = None
           /\ procs' = [p \in Procs |-> Idle]
           /\ UNCHANGED <<Stored, now, Effects>>

Tick == /\ now < MaxTime
        /\ now' = now + 1
        /\ UNCHANGED <<Session, Stored, procs, Effects>>

Next == \/ \E p \in Procs :
             \/ \E o \in Offers : EnrolStart(p, o) \/ HeldPrepare(p, o)
             \/ EnrolKeep(p) \/ EnrolPrepare(p) \/ Consume(p) \/ SignGrant(p)
             \/ \E r \in BOOLEAN : Ask(p, r)
             \/ Hold(p) \/ ReadIssuer(p) \/ Announce(p)
             \/ \E o \in Offers, yes \in BOOLEAN, k \in Kinds : Confirm(p, o, yes, k)
             \/ TakeContext(p) \/ Deliver(p) \/ CommitTrust(p) \/ Refused(p)
        \/ Forget \/ Create \/ Restart \/ Tick
Spec == Init /\ [][Next]_vars

-----------------------------------------------------------------------------
(* Properties *)

\* The Session slots, the ledger, the trust entries and the running commands
\* have their types (Session of session.rs, Ledger of replay.rs).
TypeOK ==
  /\ issuance \in Offers \cup {None} /\ enrolment \in Offers \cup {None}
  /\ hasRoot \in BOOLEAN /\ ledger \subseteq Offers /\ trust \subseteq Offers \X Kinds
  /\ procs \in [Procs -> ProcState] /\ now \in Nat
  /\ signatures \in [Offers -> Nat] /\ released \in [Offers -> Nat]
  /\ bundles \subseteq Offers \X Offers /\ announced \subseteq Offers \X Offers

\* However commands overlap, stall, fail and restart, at most one bundle is
\* ever released for one offer (CON-214 step 5 with the expiry comparison).
ReleaseOnce == \A o \in Offers : released[o] <= 1

\* An offer that was signed for stays in the ledger until it expires, although
\* every command prunes by an instant it read earlier (replay.rs, record).
LedgerRemembers == \A o \in Offers : signatures[o] > 0 /\ now < Expiry[o] => o \in ledger
ConsumedOnce == ReleaseOnce /\ LedgerRemembers

\* A bundle reaches only the slot of its own ceremony, however enrolments
\* replace one another between release and delivery.
DeliveredOwn == \A b \in bundles : b[1] = b[2] /\ released[b[1]] > 0

\* Trust is never recorded ahead of its evidence: a bundle in the slot for an
\* enrolment, a released bundle for the same-device path.
TrustEarned == \A t \in trust : /\ released[t[1]] > 0
                                /\ t[2] = "enrol" => <<t[1], t[1]>> \in bundles
\* What left the wallet and what it believes to have left agree.
DeliveryHonest == DeliveredOwn /\ TrustEarned

\* A prompt the person may still answer is not displaced by another ceremony's.
PromptStable == [][\A o \in Offers : issuance = o /\ now < Expiry[o] =>
                     issuance' \in {o, None}]_vars
=============================================================================
