------------------------------ MODULE Attempts ------------------------------
(***************************************************************************)
(* The credential/v2 attempt fence of the wallet: which pairing attempt is *)
(* current, which command works for it, where its single continuation is,  *)
(* and when the unlocked root it retains is given up.                      *)
(*                                                                         *)
(* src-tauri/src/session.rs keeps the attempt records and the Session      *)
(* slots; cbcl_v2_single_link.rs and cbcl_v2_commands.rs hold the commands *)
(* (one process of Procs per running command); lib.rs delivers the window  *)
(* events and commands.rs runs the commands that replace the root.         *)
(*                                                                         *)
(* Every lock region of the code is one action.  What a command does       *)
(* between two lock regions (a socket exchange, a custody prompt, a        *)
(* signature) is an effect: it is entered under the attempt lock, takes    *)
(* place outside it, and is followed by a second check.                    *)
(***************************************************************************)
EXTENDS Naturals, Sequences, FiniteSets

CONSTANTS Attempts,     \* attempt identities (the Arc is never reused)
          Procs,        \* command invocations that may run concurrently
          Roots,        \* root generations a seed can have
          None,         \* the absent value of every Option
          Window,       \* longest custody window, in clock ticks
          MaxTime       \* bound: the clock stops here

ASSUME NoneAssumption == None \notin Attempts \cup Procs \cup Roots
ASSUME ClockAssumption == Window \in Nat \ {0} /\ MaxTime \in Nat

VARIABLES att,          \* att[a]: AttemptState
          current,      \* CredentialV2Attempts.current
          worker,       \* CredentialV2Attempts.worker: whose lease it watches
          background,   \* CredentialV2Attempts.background
          rootChange,   \* CredentialV2Attempts.root_change
          slots,        \* Session.pending_cbcl_v2{,_entry,_relay,_execution}
          procs,        \* procs[p]: the local state of a running command
          root,         \* generation of the root in the platform store
          now,          \* the continuous clock
          rendered,     \* attempts whose preview the person has been shown
          approvals,    \* approvals[a]: intent approvals sent for a
          signed        \* signed[a]: roots that signed for a
vars == <<att, current, worker, background, rootChange, slots, procs, root,
          now, rendered, approvals, signed>>

-----------------------------------------------------------------------------
(* State *)

\* Why an attempt refuses work; "unborn" ones have not begun.
Terminal == {"cancelled", "expired", "rootChanged", "clockUnavailable"}
Modes == {"single", "legacy"}
\* Where a continuation stands.  "entry" and "relay" come before the claimant
\* exists; "comparing" is a LinkExecution; the others are CredentialV2Phase.
Phases == {"entry", "relay", "intent", "previewReady", "previewUnpainted",
           "reviewReady", "comparing", "finalReview", "payloadSent"}
SlotNames == {"entry", "relay", "pending", "execution"}
SlotOf(phase) == CASE phase = "entry"     -> "entry"
                   [] phase = "relay"     -> "relay"
                   [] phase = "comparing" -> "execution"
                   [] OTHER               -> "pending"

\* cust: the continuation owns a CeremonyCustody::Bounded of its attempt.
Continuation == [att : Attempts, phase : Phases, cust : BOOLEAN]
ASSUME ContinuationAssumption == None \notin Continuation

AttemptState == [st       : {"unborn", "live"} \cup Terminal,
                 mode     : Modes,
                 gen      : Roots \cup {None},
                 deadline : Nat \cup {None},
                 custody  : Roots \cup {None},
                 watch    : BOOLEAN]

\* What each command takes out of the Session, what it puts back ("end":
\* nothing), and the effects it performs in between.
Cmds ==
  [contact     |-> [mode |-> "single", from |-> "entry",            to |-> "intent",           does |-> <<"net">>],
   unlock      |-> [mode |-> "single", from |-> "intent",           to |-> "previewUnpainted", does |-> <<"unlock", "retain">>],
   painted     |-> [mode |-> "single", from |-> "previewUnpainted", to |-> "reviewReady",      does |-> <<>>],
   link        |-> [mode |-> "single", from |-> "reviewReady",      to |-> "comparing",        does |-> <<"approve">>],
   continue    |-> [mode |-> "single", from |-> "comparing",        to |-> "payloadSent",      does |-> <<"sign", "net">>],
   finishLink  |-> [mode |-> "single", from |-> "payloadSent",      to |-> "end",              does |-> <<"net">>],
   recognise   |-> [mode |-> "legacy", from |-> "begin",            to |-> "relay",            does |-> <<"net">>],
   relayDecide |-> [mode |-> "legacy", from |-> "relay",            to |-> "intent",           does |-> <<"net">>],
   preliminary |-> [mode |-> "legacy", from |-> "intent",           to |-> "previewReady",     does |-> <<"approve">>],
   compare     |-> [mode |-> "legacy", from |-> "previewReady",     to |-> "finalReview",      does |-> <<"net">>],
   finalDecide |-> [mode |-> "legacy", from |-> "finalReview",      to |-> "payloadSent",      does |-> <<"unlock", "sign", "net">>],
   finish      |-> [mode |-> "legacy", from |-> "payloadSent",      to |-> "end",              does |-> <<"net">>]]
CmdNames == DOMAIN Cmds

\* A command: pc "work" between effects, "effect" inside one, "put" when only
\* the Session update is left; op: its CredentialV2Operation has not been
\* dropped; held: a root it unlocked and keeps on its own stack.
ProcState == [pc : {"idle", "work", "effect", "put", "root", "rootDone"},
              cmd : CmdNames \cup {None}, att : Attempts \cup {None},
              cont : Continuation \cup {None}, step : Nat,
              op : BOOLEAN, held : Roots \cup {None}]
Idle == [pc |-> "idle", cmd |-> None, att |-> None, cont |-> None,
         step |-> 0, op |-> FALSE, held |-> None]
Working(p) == procs[p].pc \in {"work", "effect", "put"}
Changing(p) == procs[p].pc \in {"root", "rootDone"}

Init == /\ att = [a \in Attempts |-> [st |-> "unborn", mode |-> "legacy", gen |-> None,
                                      deadline |-> None, custody |-> None, watch |-> FALSE]]
        /\ current = None /\ worker = None
        /\ background = FALSE /\ rootChange = FALSE
        /\ slots = [s \in SlotNames |-> None]
        /\ procs = [p \in Procs |-> Idle]
        /\ root \in Roots \cup {None}
        /\ now = 0
        /\ rendered = {}
        /\ approvals = [a \in Attempts |-> 0]
        /\ signed = [a \in Attempts |-> {}]

-----------------------------------------------------------------------------
(* The fence *)

Live(a) == att[a].st = "live"
LeaseLive == worker # None /\ Working(worker)

VerdictWithoutDeadline(a) ==
  IF ~Live(a) THEN att[a].st
  ELSE IF att[a].gen # None /\ att[a].gen # root THEN "rootChanged" ELSE "ok"
\* What check_locked answers for a while the clock is readable: the root is
\* compared first, then the deadline (ClockFault is the other case).
Verdict(a) ==
  IF ~Live(a) THEN att[a].st
  ELSE IF att[a].gen # None /\ att[a].gen # root THEN "rootChanged"
  ELSE IF att[a].mode = "single" /\ att[a].deadline # None /\ now >= att[a].deadline
       THEN "expired"
  ELSE "ok"
Passes(a) == Verdict(a) = "ok"

\* The record check_locked leaves behind when its answer is v.
Fenced(rec, v) == IF v = "ok" \/ rec.st # "live" THEN rec
                  ELSE [rec EXCEPT !.st = v, !.custody = None]
CancelledAsFlag(rec) == [rec EXCEPT !.st = "revoked", !.custody = None]
CancelledKeepingCustody(rec) == [rec EXCEPT !.st = "cancelled"]
Cancelled(rec) == [rec EXCEPT !.st = "cancelled", !.custody = None]
\* Dropping a continuation drops its CeremonyCustody, which clears the custody
\* of the attempt it names.
Dropped(rec, a, conts) == IF \E c \in conts : c # None /\ c.att = a /\ c.cust
                          THEN [rec EXCEPT !.custody = None] ELSE rec
InSlots == {slots[s] : s \in SlotNames}

\* revoke_cbcl_v2: cancel the current attempt and drop every continuation.
Revoke == /\ att' = [a \in Attempts |->
                       Dropped(IF a = current THEN Cancelled(att[a]) ELSE att[a], a, InSlots)]
          /\ slots' = [s \in SlotNames |-> None]

MayBeginBesideAWorker == ~rootChange /\ ~background /\ (current # None => ~Live(current))
MayBeginHidden == ~rootChange /\ ~LeaseLive /\ (current # None => ~Live(current))
\* begin: only one attempt, only in the foreground, only under a stable root.
MayBegin == /\ ~rootChange
            /\ ~background
            /\ ~LeaseLive
            /\ current # None => ~Live(current)

-----------------------------------------------------------------------------
(* Beginning an attempt *)

Reservation(a) == [att |-> a, phase |-> "entry", cust |-> FALSE]
ReservedKeepingExecution(a) == [slots EXCEPT !["entry"] = Reservation(a),
                                             !["relay"] = None, !["pending"] = None]
\* The Session slots after a reservation: every other continuation is dropped.
Reserved(a) == [s \in SlotNames |-> IF s = "entry" THEN Reservation(a) ELSE None]

\* reserve_entry: begin_single_link and fill the entry slot under one lock; if
\* the new attempt's own check fails its operation is dropped and cancels it.
Reserve == /\ MayBegin
           /\ root # None
           /\ \E a \in Attempts :
                /\ att[a].st = "unborn"
                /\ current' = a
                /\ LET new == [att[a] EXCEPT !.st = "live", !.mode = "single", !.gen = root] IN
                   \/ /\ att' = [b \in Attempts |-> Dropped(IF b = a THEN new ELSE att[b], b, InSlots)]
                      /\ slots' = Reserved(a)
                   \/ /\ att' = [att EXCEPT ![a] = Cancelled(new)]
                      /\ UNCHANGED slots
           /\ UNCHANGED <<worker, background, rootChange, procs, root, now,
                          rendered, approvals, signed>>

\* recognise_v2_entry: begin, drop the relay plan and the pending pairing (the
\* other two slots are left as they are), and go and fetch the profile.
Recognise(p) ==
  /\ procs[p].pc = "idle"
  /\ MayBegin
  /\ \E a \in Attempts :
       /\ att[a].st = "unborn"
       /\ current' = a
       /\ att' = [b \in Attempts |->
                    Dropped(IF b = a THEN [att[b] EXCEPT !.st = "live"] ELSE att[b],
                            b, {slots["relay"], slots["pending"]})]
       /\ slots' = [slots EXCEPT !["relay"] = None, !["pending"] = None]
       /\ procs' = [procs EXCEPT ![p] =
                      [pc |-> "work", cmd |-> "recognise", att |-> a,
                       cont |-> [att |-> a, phase |-> "relay", cust |-> FALSE],
                       step |-> 1, op |-> TRUE, held |-> None]]
       /\ worker' = p
  /\ UNCHANGED <<background, rootChange, root, now, rendered, approvals, signed>>

-----------------------------------------------------------------------------
(* A command at work *)

LastStep(p) == Len(Cmds[procs[p].cmd].does)
Ready(p) == procs[p].step > LastStep(p)
Doing(p, e) == /\ procs[p].pc = "effect"
               /\ Cmds[procs[p].cmd].does[procs[p].step] = e
\* The state of p after its current effect.
Advance(p) == [procs[p] EXCEPT !.step = @ + 1,
                               !.pc = IF procs[p].step = LastStep(p) THEN "put" ELSE "work"]
ReleaseUnlessAbandoned(p) == procs' = [procs EXCEPT ![p] = IF @.op THEN Idle ELSE @]
\* The command and its closure are gone, and the lease with them.
Release(p) == procs' = [procs EXCEPT ![p] = Idle]
AnyPhase(s, phase) == slots[s] # None
\* CredentialV2Phase::require on the continuation in slot s.
InPhase(s, phase) == slots[s] # None /\ slots[s].phase = phase
\* CredentialV2Operation and its continuation dropped without retain().
Unretained(rec, a, cont) == Dropped(Cancelled(rec), a, {cont})

\* take_single, take_pending, take_relay_plan and the first lock region of
\* contact and continue_link: the named attempt is current, of the command's
\* mode and passes, its continuation is in the expected phase, no lease is
\* live.  The continuation leaves the Session under the same lock.
Take(p, c) ==
  LET s == SlotOf(Cmds[c].from) IN
  /\ procs[p].pc = "idle"
  /\ current # None
  /\ att[current].mode = Cmds[c].mode
  /\ InPhase(s, Cmds[c].from)
  /\ s = "pending" => slots[s].att = current
  /\ ~LeaseLive
  /\ Passes(current)
  /\ slots' = [slots EXCEPT ![s] = None]
  /\ procs' = [procs EXCEPT ![p] =
                 [pc |-> IF Cmds[c].does = <<>> THEN "put" ELSE "work", cmd |-> c,
                  att |-> current, cont |-> slots[s], step |-> 1, op |-> TRUE, held |-> None]]
  /\ worker' = p
  /\ UNCHANGED <<att, current, background, rootChange, root, now,
                 rendered, approvals, signed>>

\* The single-link commands, in the order a person meets them.
Contact(p) == Take(p, "contact")
UnlockPreview(p) == Take(p, "unlock")
PreviewRendered(p) == Take(p, "painted")
Link(p) == Take(p, "link")
ContinueLink(p) == Take(p, "continue")
FinishLink(p) == Take(p, "finishLink")
\* The legacy two-decision commands.
RelayDecide(p) == Take(p, "relayDecide")
PreliminaryDecide(p) == Take(p, "preliminary")
Compare(p) == Take(p, "compare")
FinalDecide(p) == Take(p, "finalDecide")
FinishLegacy(p) == Take(p, "finish")

\* CredentialV2Attempt::enter.  A finish_link whose custody was given up by an
\* earlier refused finish goes no further.
Enter(p) ==
  /\ procs[p].pc = "work"
  /\ Passes(procs[p].att)
  /\ procs[p].cmd = "finishLink" => procs[p].cont.cust
  /\ procs' = [procs EXCEPT ![p].pc = "effect"]
  /\ UNCHANGED <<att, current, worker, background, rootChange, slots, root, now,
                 rendered, approvals, signed>>

\* A socket or HTTP exchange: connect, pump_to_offer, pump_to_comparison,
\* publication, payload release, receipt and installation.
Exchange(p) ==
  /\ Doing(p, "net")
  /\ procs' = [procs EXCEPT ![p] = Advance(p)]
  /\ UNCHANGED <<att, current, worker, background, rootChange, slots, root, now,
                 rendered, approvals, signed>>

\* The intent approval leaves the wallet.
Approve(p) ==
  /\ Doing(p, "approve")
  /\ approvals' = [approvals EXCEPT ![procs[p].att] = @ + 1]
  /\ procs' = [procs EXCEPT ![p] = Advance(p)]
  /\ UNCHANGED <<att, current, worker, background, rootChange, slots, root, now,
                 rendered, signed>>

\* unlock_hierarchy_root, and for a single-link attempt bind_deadline, whose
\* check comes first; the offer and relay expiries choose the cutoff.
Unlock(p) ==
  LET a == procs[p].att IN
  /\ Doing(p, "unlock")
  /\ root # None
  /\ Passes(a)
  /\ \/ /\ att[a].mode = "legacy"
        /\ UNCHANGED att
     \/ /\ att[a].mode = "single"
        /\ att[a].deadline = None
        /\ \E d \in (now + 1)..(now + Window) :
             d <= MaxTime /\ att' = [att EXCEPT ![a].deadline = d]
  /\ procs' = [procs EXCEPT ![p] = [Advance(p) EXCEPT !.held = root]]
  /\ UNCHANGED <<current, worker, background, rootChange, slots, root, now,
                 rendered, approvals, signed>>

\* retain_custody: store the root under the attempt lock and start the
\* watchdog; a thread that cannot start cancels the attempt (Fail).
Retain(p) ==
  LET a == procs[p].att IN
  /\ Doing(p, "retain")
  /\ Passes(a)
  /\ att[a].deadline # None
  /\ att[a].custody = None
  /\ att' = [att EXCEPT ![a].custody = procs[p].held, ![a].watch = TRUE]
  /\ procs' = [procs EXCEPT ![p] = [Advance(p) EXCEPT !.held = None, !.cont.cust = TRUE]]
  /\ UNCHANGED <<current, worker, background, rootChange, slots, root, now,
                 rendered, approvals, signed>>

\* CeremonyCustody::with_root.  Bounded: check, use and check again under one
\* lock.  Legacy: the root on the command's own stack.
Sign(p) ==
  LET a == procs[p].att IN
  /\ Doing(p, "sign")
  /\ \/ /\ att[a].mode = "single"
        /\ Passes(a)
        /\ att[a].custody # None
        /\ signed' = [signed EXCEPT ![a] = @ \cup {att[a].custody}]
     \/ /\ att[a].mode = "legacy"
        /\ signed' = [signed EXCEPT ![a] = @ \cup {procs[p].held}]
  /\ procs' = [procs EXCEPT ![p] = Advance(p)]
  /\ UNCHANGED <<att, current, worker, background, rootChange, slots, root, now,
                 rendered, approvals>>

\* finish_pending gives up the custody and keeps the pairing for another try.
FinishRefused(p) ==
  LET a == procs[p].att IN
  /\ procs[p].pc \in {"work", "effect"}
  /\ procs[p].cmd \in {"finishLink", "finish"}
  /\ procs[p].op
  /\ att' = [att EXCEPT ![a] = Dropped(@, a, {procs[p].cont})]
  /\ procs' = [procs EXCEPT ![p].pc = "put", ![p].cont.cust = FALSE]
  /\ UNCHANGED <<current, worker, background, rootChange, slots, root, now,
                 rendered, approvals, signed>>

\* put_pending and the other Session updates: only for the current, passing
\* attempt, only into an empty slot; the operation is retained.
Put(p) ==
  LET a    == procs[p].att
      to   == IF Ready(p) THEN Cmds[procs[p].cmd].to ELSE "payloadSent"
      s    == SlotOf(to)
  IN
  /\ procs[p].pc = "put"
  /\ to # "end"
  /\ current = a
  /\ Passes(a)
  /\ slots[s] = None
  /\ s = "pending" => slots["relay"] = None
  /\ slots' = [slots EXCEPT ![s] = [procs[p].cont EXCEPT !.phase = to]]
  /\ rendered' = IF procs[p].cmd = "painted" THEN rendered \cup {a} ELSE rendered
  /\ Release(p)
  /\ UNCHANGED <<att, current, worker, background, rootChange, root, now,
                 approvals, signed>>

\* The operation is dropped unretained: an error or a refused check anywhere,
\* a person's decline, or the end of a finished pairing.  The attempt is
\* cancelled, the continuation dropped, the lease returned.
DropOperation(p) ==
  LET a == procs[p].att IN
  /\ Working(p)
  /\ att' = [att EXCEPT ![a] = Unretained(@, a, procs[p].cont)]
  /\ Release(p)
  /\ UNCHANGED <<current, worker, background, rootChange, slots, root, now,
                 rendered, approvals, signed>>

\* The command's future is dropped while its blocking closure still runs: the
\* operation cancels the attempt, the closure keeps the lease.
Abandon(p) ==
  LET a == procs[p].att IN
  /\ procs[p].pc \in {"work", "effect"}
  /\ procs[p].op
  /\ att' = [att EXCEPT ![a] = Cancelled(@)]
  /\ procs' = [procs EXCEPT ![p].op = FALSE]
  /\ UNCHANGED <<current, worker, background, rootChange, slots, root, now,
                 rendered, approvals, signed>>

-----------------------------------------------------------------------------
(* Checks made by others, window events, cancellation *)

WakesOnFlagOnly(a) == ~Live(a) \/ att[a].custody = None
Wakes(a) == ~Passes(a) \/ att[a].custody = None
\* The custody watchdog wakes and finds the attempt refused or custody gone.
Watchdog(a) ==
  /\ att[a].watch
  /\ Wakes(a)
  /\ att' = [att EXCEPT ![a] = [Fenced(@, Verdict(a)) EXCEPT !.watch = FALSE]]
  /\ UNCHANGED <<current, worker, background, rootChange, slots, procs, root, now,
                 rendered, approvals, signed>>

\* A command is refused by the check alone, which leaves its verdict behind.
Refuse(a) ==
  /\ a = current
  /\ Live(a) /\ ~Passes(a)
  /\ att' = [att EXCEPT ![a] = Fenced(@, Verdict(a))]
  /\ UNCHANGED <<current, worker, background, rootChange, slots, procs, root, now,
                 rendered, approvals, signed>>

\* A single-link check that cannot read the clock, or sees it step back.
ClockFault(a) ==
  /\ Live(a) /\ att[a].mode = "single"
  /\ att' = [att EXCEPT ![a] = Fenced(@, "clockUnavailable")]
  /\ UNCHANGED <<current, worker, background, rootChange, slots, procs, root, now,
                 rendered, approvals, signed>>

\* cbcl_v2_cancel and cbcl_v2_cancel_link.
Cancel == /\ current # None
          /\ Revoke
          /\ UNCHANGED <<current, worker, background, rootChange, procs, root, now,
                         rendered, approvals, signed>>

\* Focus lost or the application suspended, and the way back.
Background == /\ background' = TRUE
              /\ Revoke
              /\ UNCHANGED <<current, worker, rootChange, procs, root, now,
                             rendered, approvals, signed>>
Foreground == /\ background' = FALSE
              /\ UNCHANGED <<att, current, worker, rootChange, slots, procs, root, now,
                             rendered, approvals, signed>>

-----------------------------------------------------------------------------
(* create_identity, restore_identity and forget_identity *)

\* begin_cbcl_v2_root_change: the flag is claimed and the attempt revoked
\* under the Session lock, before the store is touched.
RootBegin(p) ==
  /\ procs[p].pc = "idle"
  /\ ~rootChange
  /\ rootChange' = TRUE
  /\ Revoke
  /\ procs' = [procs EXCEPT ![p].pc = "root"]
  /\ UNCHANGED <<current, worker, background, root, now, rendered, approvals, signed>>

\* Custody::create and restore refuse an existing root; forget removes it.  A
\* restored phrase may bring back a generation used before.
RootWrite(p) ==
  /\ procs[p].pc = "root"
  /\ \/ root = None /\ root' \in Roots
     \/ root # None /\ root' = None
  /\ procs' = [procs EXCEPT ![p].pc = "rootDone"]
  /\ UNCHANGED <<att, current, worker, background, rootChange, slots, now,
                 rendered, approvals, signed>>

\* The last CredentialV2RootChange is dropped, after a write or a failure.
RootEnd(p) ==
  /\ Changing(p)
  /\ rootChange' = FALSE
  /\ procs' = [procs EXCEPT ![p] = Idle]
  /\ UNCHANGED <<att, current, worker, background, slots, root, now,
                 rendered, approvals, signed>>

Tick == /\ now < MaxTime
        /\ now' = now + 1
        /\ UNCHANGED <<att, current, worker, background, rootChange, slots, procs, root,
                       rendered, approvals, signed>>

-----------------------------------------------------------------------------
CommandStep(p) == \/ Enter(p) \/ Exchange(p) \/ Approve(p) \/ Unlock(p) \/ Retain(p)
                  \/ Sign(p) \/ FinishRefused(p) \/ Put(p) \/ DropOperation(p)
Next == \/ Reserve
        \/ \E p \in Procs : \/ Recognise(p)
                            \/ Contact(p) \/ UnlockPreview(p) \/ PreviewRendered(p)
                            \/ Link(p) \/ ContinueLink(p) \/ FinishLink(p)
                            \/ RelayDecide(p) \/ PreliminaryDecide(p) \/ Compare(p)
                            \/ FinalDecide(p) \/ FinishLegacy(p)
                            \/ CommandStep(p)
                            \/ Abandon(p)
                            \/ RootBegin(p) \/ RootWrite(p) \/ RootEnd(p)
        \/ \E a \in Attempts : Watchdog(a) \/ Refuse(a) \/ ClockFault(a)
        \/ Cancel \/ Background \/ Foreground \/ Tick

\* Socket reads, HTTP calls and the custody prompt are bounded waits, so a
\* running command takes its next step; the watchdog thread polls every 50 ms;
\* the continuous clock runs.  Nothing makes a person start or cancel.
Fairness == /\ \A p \in Procs : WF_vars(CommandStep(p)) /\ WF_vars(RootEnd(p))
            /\ \A a \in Attempts : WF_vars(Watchdog(a))
            /\ WF_vars(Tick)
Spec == Init /\ [][Next]_vars
FairSpec == Spec /\ Fairness

-----------------------------------------------------------------------------
(* Properties *)

\* Every attempt record, Session slot and running command has its type
\* (AttemptState and the Session fields of session.rs).
TypeOK ==
  /\ att \in [Attempts -> AttemptState]
  /\ current \in Attempts \cup {None} /\ worker \in Procs \cup {None}
  /\ background \in BOOLEAN /\ rootChange \in BOOLEAN
  /\ slots \in [SlotNames -> Continuation \cup {None}]
  /\ procs \in [Procs -> ProcState]
  /\ root \in Roots \cup {None} /\ now \in Nat
  /\ rendered \subseteq Attempts
  /\ approvals \in [Attempts -> Nat] /\ signed \in [Attempts -> SUBSET (Roots \cup {None})]

\* The weak lease bounds work across cancellation: a command whose future was
\* dropped still excludes a second worker (session.rs, start_work and begin).
OneWorker == \A p, q \in Procs : Working(p) /\ Working(q) => p = q

\* A root is retained only by a live attempt with a bound deadline and a
\* running watchdog, and it is the root that attempt began under.
CustodyFenced == \A a \in Attempts : att[a].custody # None =>
                   /\ Live(a) /\ att[a].deadline # None
                   /\ att[a].custody = att[a].gen /\ att[a].watch

\* While the application is hidden, or a root is being replaced, no attempt is
\* live; and only the current attempt ever is.
FencedOut == \A a \in Attempts : Live(a) => a = current /\ ~background /\ ~rootChange

\* A live attempt has exactly one holder: a Session slot or a command.  Its
\* continuation is neither duplicated nor lost by any race of commands.
Holders(a) == {s \in SlotNames : slots[s] # None /\ slots[s].att = a}
              \cup {p \in Procs : Working(p) /\ procs[p].att = a}
OneHolder == \A a \in Attempts : Live(a) => Cardinality(Holders(a)) = 1

\* A command that works for an attempt carries that attempt's continuation,
\* although the entry and execution slots are not compared when taken.
OwnContinuation == \A p \in Procs : Working(p) => procs[p].cont.att = procs[p].att

\* However commands race for the slots, every live attempt's continuation is in
\* one place, and that place is the attempt's own (take_entry, take_execution).
ContinuationKept == OneHolder /\ OwnContinuation

\* The intent approval is sent at most once per attempt, and by a single-link
\* attempt only after its preview has been painted (review before release).
ConsentOnce == \A a \in Attempts :
                 /\ approvals[a] <= 1
                 /\ approvals[a] > 0 /\ att[a].mode = "single" => a \in rendered

\* A single-link attempt signs only with the root it began under, while that
\* root is the stored one, before the deadline, in the foreground and while
\* no command is replacing the root: use and revocation are indivisible.
SignsInsideFence ==
  [][\A a \in Attempts : att[a].mode = "single" /\ signed'[a] # signed[a] =>
       /\ signed'[a] \subseteq {root} /\ root = att[a].gen
       /\ now < att[a].deadline /\ ~background /\ ~rootChange]_vars

\* Every lease is returned, so a cancelled attempt cannot lock the wallet out
\* of pairing; and a root change ends.
LeaseReturned == \A p \in Procs : Working(p) ~> ~Working(p)

\* Retained custody is given up in the end, even if no command ever runs again.
CustodyGivenUp == \A a \in Attempts : (att[a].custody # None) ~> (att[a].custody = None)
=============================================================================
