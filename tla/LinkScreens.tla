----------------------------- MODULE LinkScreens -----------------------------
(***************************************************************************)
(* The wallet's screens (src/app.js) over the native commands that create  *)
(* or restore the identity, read a code, link a device and issue an        *)
(* application's grant.  The page is one thread; a command is a task that  *)
(* takes effect some time after it was invoked and is answered some time   *)
(* after that.  A command the person waits for covers the page (busy), but *)
(* the cover is one flag: any handler that ends takes it away.  A camera   *)
(* scan is a task too, and nothing ends it when the person leaves its      *)
(* screen.                                                                 *)
(*                                                                         *)
(* A code stands for what its read-once slot holds: a device-link offer or *)
(* an application's enrolment.  The pairing page is seen only as the       *)
(* recovery it may put in front of any screen (PairingScreen is its model).*)
(* The screens that only end a flow (linked, rejected, mismatch, result)   *)
(* are one.  Texts, the device list and the list of applications are left  *)
(* out.                                                                    *)
(***************************************************************************)
EXTENDS Naturals, FiniteSets

CONSTANTS Tasks,      \* handlers in flight at once
          Devices,    \* codes of device-link offers
          Enrolments, \* codes of enrolments
          Bound,      \* enrolments whose account the authority already binds
          Null

Codes == Devices \cup Enrolments
ASSUME LinkScreensAssumption ==
  /\ Devices \cap Enrolments = {} /\ Bound \subseteq Enrolments
  /\ "active" \notin Codes
  /\ Null \notin Codes \cup {"active", "ok", "error", "device", "enrolment", "signing",
                           "required", "notRequired"}

VARIABLES ui,       \* screen, busy, words, linkable, enrol, the drawn fingerprint,
                    \* timer, recovery
          handlers, \* the handlers that wait
          wallet,   \* the identity; pending_offer, pending_enrolment, pending_issuance
          used,     \* slots read and request ids consumed
          expired,  \* codes whose lifetime is over
          matched,  \* enrolments whose fingerprint the person found equal
          granted   \* enrolments answered with a bundle
linkVars == <<ui, handlers, wallet, used, expired, matched, granted>>
world == <<wallet, used, expired, granted>>

Free == [pc |-> "idle", code |-> Null, reply |-> Null]
WaitsFor(pc, code) == [Free EXCEPT !.pc = pc, !.code = code]
\* A started application: no screen is shown before the first refresh ends.
StartedPage == [screen |-> "none", busy |-> FALSE, words |-> FALSE, linkable |-> FALSE,
                enrol |-> Null, finger |-> Null, timer |-> Null, recovery |-> FALSE]
StartedTasks ==
  [[s \in Tasks |-> Free] EXCEPT ![CHOOSE s \in Tasks : TRUE] = WaitsFor("refresh", Null)]
StartedNative(identity) ==
  [identity |-> identity, offer |-> Null, enrol |-> Null, issuance |-> Null]
LinkInit ==
  /\ ui = StartedPage /\ handlers = StartedTasks /\ wallet = StartedNative("none")
  /\ used = [read |-> {}, request |-> {}] /\ expired = {}
  /\ matched = {} /\ granted = {}

-----------------------------------------------------------------------------
(* Turns of the page's thread *)

AnyFree == \E s \in Tasks : handlers[s] = Free
Invoking(pc, code) ==
  [handlers EXCEPT ![CHOOSE s \in Tasks : handlers[s] = Free] = WaitsFor(pc, code)]
Freed(s) == [handlers EXCEPT ![s] = Free]
Continued(s, pc, code) == [handlers EXCEPT ![s] = WaitsFor(pc, code)]
Step(p, ts) == ui' = p /\ handlers' = ts /\ UNCHANGED <<world, matched>>
Returned(s, pc, reply) == handlers[s].pc = pc /\ handlers[s].reply = reply

\* show: a screen other than the consent stops the countdown, and leaving a
\* recovery cancels it, which takes the cover away.
Display(p, name) == [p EXCEPT !.screen = name,
                              !.timer = IF name = "consent" THEN @ ELSE Null,
                              !.busy = IF p.recovery THEN FALSE ELSE @,
                              !.recovery = FALSE,
                              !.finger = IF name = "fingerprint" THEN @ ELSE Null]
Busy(p) == [p EXCEPT !.busy = TRUE]
Uncovered(p) == [p EXCEPT !.busy = FALSE]
\* A click: the page is not covered.
Click(screens) == ui.screen \in screens /\ ~ui.busy

-----------------------------------------------------------------------------
(* Creating or restoring the identity *)

ToWelcome == Click({"passcode", "restore"}) /\ Step(Display(ui, "welcome"), handlers)
BeginWith(name) == Click({"welcome"}) /\ Step(Display(ui, name), handlers)
CreateIdentity == Click({"passcode"}) /\ AnyFree /\ Step(Busy(ui), Invoking("create", Null))
Created(s) ==
  \/ Returned(s, "create", "ok")
     /\ Step(Uncovered(Display([ui EXCEPT !.words = TRUE], "phrase")), Freed(s))
  \/ Returned(s, "create", "error") /\ Step(Uncovered(ui), Freed(s))
ToConfirm == Click({"phrase"}) /\ Step(Display(ui, "confirm"), handlers)
ToPhrase == Click({"confirm"}) /\ Step(Display(ui, "phrase"), handlers)
\* checkBackup hands the words back with the answers, right or wrong.
CheckBackup == /\ Click({"confirm"}) /\ ui.words /\ AnyFree
               /\ Step(Busy(ui), Invoking("backup", Null))
Checked(s) ==
  \/ Returned(s, "backup", "ok")
     /\ Step(Uncovered(Display([ui EXCEPT !.words = FALSE], "created")), Freed(s))
  \/ Returned(s, "backup", "error") /\ Step(Uncovered(ui), Freed(s))
RestoreIdentity == Click({"restore"}) /\ AnyFree /\ Step(Busy(ui), Invoking("restore", Null))
Restored(s) ==
  \/ Returned(s, "restore", "ok") /\ Step(Uncovered(Display(ui, "restored")), Freed(s))
  \/ Returned(s, "restore", "error") /\ Step(Uncovered(ui), Freed(s))

-----------------------------------------------------------------------------
(* Reading a code *)

\* startLink: with a camera the scan starts; without one the code is typed.
StartLink ==
  /\ Click({"home", "refused", "type"})
  /\ ui.screen = "home" => ui.linkable
  /\ \/ Step(Display(ui, "type"), handlers)
     \/ AnyFree /\ Step(Display(ui, "link"), Invoking("camera", Null))
ToType == Click({"link", "refused"}) /\ Step(Display(ui, "type"), handlers)
GoHome == /\ Click({"link", "type", "refused", "ended", "created", "restored", "device"})
          /\ AnyFree /\ Step(ui, Invoking("refresh", Null))
\* refresh ends on the home screen, whatever is shown by then; a device is linked
\* only once the words were checked.
Linkable(identity) == identity = "confirmed"
Refreshed(s) ==
  /\ handlers[s].pc = "refresh"
  /\ Step(IF wallet.identity = "none" THEN Display(ui, "welcome")
          ELSE Display([ui EXCEPT !.linkable = Linkable(wallet.identity)], "home"),
          Freed(s))

ReadCode(c) == Click({"type"}) /\ AnyFree /\ Step(Busy(ui), Invoking("read", c))
CodeScanned(s, c) == handlers[s].pc = "camera" /\ Step(Busy(ui), Continued(s, "read", c))
CameraFails(s) == handlers[s].pc = "camera" /\ Step(ui, Freed(s))

RenderConsent(p, c) == [Display([p EXCEPT !.enrol = Null], "consent") EXCEPT !.timer = c]
RenderEnrolConsent(p) == Display([p EXCEPT !.enrol = "active"], "consent-application")
RefuseCode(p) == Display(p, "refused")
CodeRead(s) ==
  \/ Returned(s, "read", "device")
     /\ Step(Uncovered(RenderConsent(ui, handlers[s].code)), Freed(s))
  \/ Returned(s, "read", "enrolment") /\ Step(Uncovered(RenderEnrolConsent(ui)), Freed(s))
  \/ Returned(s, "read", "error") /\ Step(Uncovered(RefuseCode(ui)), Freed(s))

-----------------------------------------------------------------------------
(* Consent and presence *)

ToPresence == Click({"consent"}) /\ Step(Display(ui, "presence"), handlers)
Reject == /\ Click({"consent"}) /\ AnyFree
          /\ Step([ui EXCEPT !.timer = Null], Invoking("reject", Null))
Rejected(s) == Returned(s, "reject", "ok") /\ Step(Display(ui, "ended"), Freed(s))
\* The countdown: the offer is given up by a call nobody waits for.
Tick == /\ ui.timer \in expired /\ AnyFree
        /\ Step(RefuseCode([ui EXCEPT !.timer = Null]), Invoking("drop", Null))
BackToConsent == Click({"presence"}) /\ Step(Display(ui, "consent"), handlers)

\* The buttons of the consent and presence screens serve two flows: ui.enrol
\* says which.
Enrolling == ui.enrol # Null
Authorise == /\ Click({"presence"}) /\ AnyFree
             /\ Step(Busy(ui), Invoking(IF Enrolling THEN "prepare" ELSE "authorise", Null))
Authorised(s) ==
  \/ Returned(s, "authorise", "ok")
     /\ Step(Uncovered(Display([ui EXCEPT !.timer = Null], "ended")), Freed(s))
  \/ Returned(s, "authorise", "error") /\ Step(Uncovered(ui), Freed(s))

ConsentApprove ==
  /\ Click({"consent-application"})
  /\ Step(Display(ui, IF Enrolling THEN "presence" ELSE "applications"), handlers)
ConsentRefuse ==
  /\ Click({"consent-application"})
  /\ IF Enrolling THEN AnyFree /\ Step([ui EXCEPT !.enrol = Null], Invoking("refresh", Null))
     ELSE Step(Display(ui, "applications"), handlers)
LeaveApplications == Click({"applications"}) /\ AnyFree /\ Step(ui, Invoking("refresh", Null))

-----------------------------------------------------------------------------
(* Unlinking a device of the list *)

OpenDevice == Click({"home", "unlink"}) /\ Step(Display(ui, "device"), handlers)
ToUnlink == Click({"device"}) /\ Step(Display(ui, "unlink"), handlers)
Unlink == Click({"unlink"}) /\ AnyFree /\ Step(Busy(ui), Invoking("unlink", Null))
\* What unlink_device does is Publication's; it succeeds or reports an error.
Unlinked(s) == /\ handlers[s].pc = "unlink"
               /\ \E p \in {ui, Display(ui, "ended")} : Step(Uncovered(p), Freed(s))

-----------------------------------------------------------------------------
(* The comparison and the bundle *)

\* enrolPrepare: the answer names the ceremony; without ui.enrol the handler
\* throws and reports on the presence screen.  The handler's branch for a
\* fail-closed authority is never taken: prepare_issuance makes that an error.
EnrolPrepared(s) ==
  LET c == handlers[s].code IN
  \/ /\ Returned(s, "prepare", "notRequired") /\ Enrolling
     /\ Step(Busy([ui EXCEPT !.enrol = c]), Continued(s, "confirm", c))
  \/ /\ Returned(s, "prepare", "required") /\ Enrolling
     /\ Step(Uncovered(Display([ui EXCEPT !.enrol = c, !.finger = c], "fingerprint")), Freed(s))
  \/ /\ handlers[s].pc = "prepare" /\ handlers[s].reply # Null
     /\ ~Enrolling \/ handlers[s].reply = "error"
     /\ Step(Uncovered(ui), Freed(s))

Named == ui.enrol \in Enrolments
Compared(matches) ==
  matched' = matched \cup IF matches THEN {ui.finger} \ {Null} ELSE {}
FingerprintMatches ==
  /\ Click({"fingerprint"}) /\ Compared(TRUE) /\ UNCHANGED world
  /\ IF ~Enrolling THEN ui' = Display(ui, "applications") /\ UNCHANGED handlers
     ELSE IF Named THEN AnyFree /\ ui' = Busy(ui) /\ handlers' = Invoking("confirm", ui.enrol)
     ELSE UNCHANGED <<ui, handlers>>
FingerprintDiffers ==
  /\ Click({"fingerprint"}) /\ UNCHANGED <<world, matched>>
  /\ IF ~Enrolling THEN ui' = Display(ui, "ended") /\ UNCHANGED handlers
     ELSE IF Named THEN /\ AnyFree /\ handlers' = Invoking("decline", ui.enrol)
                        /\ ui' = Display([ui EXCEPT !.enrol = Null], "ended")
     ELSE UNCHANGED <<ui, handlers>>
\* A confirmed enrolment refreshes before its cover goes; a failed one goes back.
EnrolConfirmed(s) ==
  \/ Returned(s, "confirm", "ok")
     /\ Step([ui EXCEPT !.enrol = Null], Continued(s, "refresh", Null))
  \/ /\ Returned(s, "confirm", "error")
     /\ Step(Uncovered(Display([ui EXCEPT !.enrol = Null], "presence")), Freed(s))

-----------------------------------------------------------------------------
(* The application's lifecycle *)

\* resumePending puts a recovery in front of whatever is shown.
ResumePending == /\ ~ui.recovery /\ wallet.identity = "confirmed"
                 /\ Step([Display(ui, "recovery") EXCEPT !.recovery = TRUE], handlers)
\* interruptPairing.
InterruptPairing == ui.recovery /\ Step(Display(ui, "ended"), handlers)
NotNow == Click({"recovery"}) /\ AnyFree
          /\ Step([ui EXCEPT !.recovery = FALSE], Invoking("refresh", Null))

-----------------------------------------------------------------------------
(* The native commands *)

Running(s, pc) == handlers[s].pc = pc /\ handlers[s].reply = Null
Responds(s, r) == handlers' = [handlers EXCEPT ![s].reply = r]
RespondsFor(s, c, r) == handlers' = [handlers EXCEPT ![s] = [@ EXCEPT !.code = c, !.reply = r]]
Alive(c) == c # Null /\ c \notin expired
\* A slot is taken by another ceremony that has not expired.
Holds(slot, c) == Alive(slot) /\ slot # c

\* create_identity may report an error when the root is already stored; the words
\* are then never shown.
CreateNative(s) ==
  /\ Running(s, "create")
  /\ \/ /\ wallet.identity = "none" /\ wallet' = [wallet EXCEPT !.identity = "unconfirmed"]
        /\ \E reply \in {"ok", "error"} : Responds(s, reply)
     \/ UNCHANGED wallet /\ Responds(s, "error")
  /\ UNCHANGED <<ui, used, expired, matched, granted>>
ConfirmBackup(s) ==
  /\ Running(s, "backup")
  /\ \/ wallet' = [wallet EXCEPT !.identity = "confirmed"] /\ Responds(s, "ok")
     \/ UNCHANGED wallet /\ Responds(s, "error")
  /\ UNCHANGED <<ui, used, expired, matched, granted>>
RestoreNative(s) ==
  /\ Running(s, "restore")
  /\ \/ /\ wallet.identity = "none" /\ wallet' = [wallet EXCEPT !.identity = "confirmed"]
        /\ \E reply \in {"ok", "error"} : Responds(s, reply)
     \/ UNCHANGED wallet /\ Responds(s, "error")
  /\ UNCHANGED <<ui, used, expired, matched, granted>>

\* read_link_code and enrol_from_opened: the slot is read once.
ReadLinkCode(s) ==
  LET c == handlers[s].code IN
  /\ Running(s, "read")
  /\ \E fetched \in BOOLEAN :
       used' = [used EXCEPT !.read = IF fetched THEN @ \cup {c} ELSE @]
  /\ \/ /\ used'.read # used.read /\ Alive(c) /\ c \in Devices
        /\ wallet' = [wallet EXCEPT !.offer = c] /\ Responds(s, "device")
     \/ /\ used'.read # used.read /\ Alive(c) /\ c \in Enrolments /\ ~Holds(wallet.enrol, c)
        /\ wallet' = [wallet EXCEPT !.enrol = c] /\ Responds(s, "enrolment")
     \/ UNCHANGED wallet /\ Responds(s, "error")
  /\ UNCHANGED <<ui, expired, matched, granted>>

RejectOffer(s) ==
  /\ \/ Running(s, "reject") /\ Responds(s, "ok")
     \/ Running(s, "drop") /\ handlers' = Freed(s)
  /\ wallet' = [wallet EXCEPT !.offer = Null]
  /\ UNCHANGED <<ui, used, expired, matched, granted>>

\* authorise copies the pending offer, and clears whatever is pending at the end.
AuthoriseStart(s) ==
  /\ Running(s, "authorise")
  /\ \/ Alive(wallet.offer) /\ RespondsFor(s, wallet.offer, "signing")
     \/ Responds(s, "error")
  /\ UNCHANGED <<ui, world, matched>>
AuthoriseEnd(s) ==
  /\ handlers[s].pc = "authorise" /\ handlers[s].reply = "signing"
  /\ \/ wallet' = [wallet EXCEPT !.offer = Null] /\ Responds(s, "ok")
     \/ UNCHANGED wallet /\ Responds(s, "error")
  /\ UNCHANGED <<ui, used, expired, matched, granted>>

\* cbcl_enrol_prepare: the request id is consumed before the grant is signed.  An
\* authority that does not answer fails before anything is pending, a failed
\* announcement after it.
EnrolPrepare(s) ==
  LET c == wallet.enrol IN
  /\ Running(s, "prepare")
  /\ \/ /\ Alive(c) /\ c \notin used.request /\ ~Holds(wallet.issuance, c)
        /\ used' = [used EXCEPT !.request = @ \cup {c}]
        /\ wallet' = [wallet EXCEPT !.issuance = c]
        /\ RespondsFor(s, c, IF c \in Bound THEN "notRequired" ELSE "required")
     \/ /\ used' \in {used, [used EXCEPT !.request = @ \cup ({c} \ {Null})]}
        /\ wallet' \in {wallet} \cup IF Holds(wallet.issuance, c) \/ c \in Bound THEN {}
                                 ELSE {[wallet EXCEPT !.issuance = c]}
        /\ used' = used => wallet' = wallet
        /\ Responds(s, "error")
  /\ UNCHANGED <<ui, expired, matched, granted>>

\* A mutant: the answer the person gave is not looked at.
ReleasedEither(s) == wallet.issuance = handlers[s].code /\ Alive(wallet.issuance)

\* confirm_issuance takes what is pending before it compares the ceremony.
Released(s) == /\ handlers[s].pc = "confirm" /\ wallet.issuance = handlers[s].code
               /\ Alive(wallet.issuance)

\* Nobody looks at how a decline ended.
Resolves(s, r) == IF handlers[s].pc = "decline" THEN handlers' = Freed(s) ELSE Responds(s, r)
EnrolConfirm(s) ==
  /\ Running(s, "confirm") \/ Running(s, "decline")
  /\ wallet' = [wallet EXCEPT !.issuance = Null, !.enrol = IF Released(s) THEN Null ELSE @]
  /\ \/ /\ Released(s) /\ wallet.enrol = handlers[s].code
        /\ granted' = granted \cup {handlers[s].code} /\ Resolves(s, "ok")
     \/ /\ granted' \in {granted} \cup IF Released(s) /\ wallet.enrol = handlers[s].code
                                      THEN {granted \cup {handlers[s].code}} ELSE {}
        /\ Resolves(s, "error")
  /\ UNCHANGED <<ui, used, expired, matched>>

\* Whether an expired code was used makes no difference to anyone, and a native slot
\* that holds one counts as empty (Alive, Holds).
Dropped(slot, c) == IF slot = c THEN Null ELSE slot
CodeExpires(c) ==
  /\ c \notin expired /\ expired' = expired \cup {c}
  /\ used' = [read |-> used.read \cup {c}, request |-> used.request \cup {c}]
  /\ wallet' = [wallet EXCEPT !.offer = Dropped(@, c), !.enrol = Dropped(@, c),
                               !.issuance = Dropped(@, c)]
  /\ UNCHANGED <<ui, handlers, matched, granted>>

\* The application is stopped and started again: the session in memory is lost.
Restart == /\ ui' = StartedPage /\ handlers' = StartedTasks
           /\ wallet' = StartedNative(wallet.identity)
           /\ UNCHANGED <<used, expired, matched, granted>>
-----------------------------------------------------------------------------
PersonClicks ==
  \/ ToWelcome \/ BeginWith("passcode") \/ BeginWith("restore") \/ CreateIdentity \/ ToConfirm
  \/ ToPhrase \/ CheckBackup \/ RestoreIdentity
  \/ StartLink \/ ToType \/ GoHome \/ ToPresence \/ Reject \/ BackToConsent \/ Authorise
  \/ ConsentApprove \/ ConsentRefuse \/ LeaveApplications
  \/ OpenDevice \/ ToUnlink \/ Unlink
  \/ FingerprintMatches \/ FingerprintDiffers \/ NotNow
  \/ \E c \in Codes : ReadCode(c)
HandlerTurn(s) ==
  \/ CameraFails(s) \/ CodeRead(s) \/ Rejected(s) \/ Authorised(s) \/ EnrolPrepared(s)
  \/ EnrolConfirmed(s) \/ Refreshed(s)
  \/ Created(s) \/ Checked(s) \/ Restored(s) \/ Unlinked(s)
  \/ \E c \in Codes : CodeScanned(s, c)
NativeCommand(s) ==
  \/ ReadLinkCode(s) \/ RejectOffer(s) \/ AuthoriseStart(s) \/ AuthoriseEnd(s)
  \/ EnrolPrepare(s) \/ EnrolConfirm(s)
  \/ CreateNative(s) \/ ConfirmBackup(s) \/ RestoreNative(s)
LinkNext == \/ PersonClicks \/ Tick \/ ResumePending \/ InterruptPairing \/ Restart
            \/ \E s \in Tasks : HandlerTurn(s) \/ NativeCommand(s)
            \/ \E c \in Codes : CodeExpires(c)
LinkSpec == LinkInit /\ [][LinkNext]_linkVars

-----------------------------------------------------------------------------
\* The person compares before anything is released: a grant is released for an
\* account the authority does not bind yet only when the person was shown that
\* enrolment's fingerprint and found it equal, whatever else ran meanwhile.
\* This is what the comment on confirm_issuance's comparison of the ceremony
\* claims (app_grant.rs:569).
ComparedFirst == granted \ Bound \subseteq matched
=============================================================================
