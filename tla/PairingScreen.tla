---------------------------- MODULE PairingScreen ----------------------------
(***************************************************************************)
(* The wallet's pairing page (src/pairing.js) over the native pairing      *)
(* commands.  The page is one thread whose handlers wait: each await is a  *)
(* task that holds what its handler captured (the epoch and the attempt    *)
(* tag), and between two awaits any other handler may run.  A native       *)
(* command takes effect some time after it was invoked and answers some    *)
(* time after that; commands invoked one after the other may run in the    *)
(* other order.  The native side is the coarse view of Attempts: one       *)
(* attempt at a time, one worker, phases in order.                         *)
(*                                                                         *)
(* Texts, focus, the camera's permission questions and the fields of a     *)
(* request are left out; what a request is about is its attempt.           *)
(***************************************************************************)
EXTENDS Naturals, FiniteSets

CONSTANTS Slots,       \* tasks in flight at once
          MaxEpoch,    \* bound of attemptEpoch
          MaxAttempts, \* bound of the native attempts begun
          Entries,     \* entry modes the person uses
          None

ASSUME ScreenAssumption ==
  /\ MaxEpoch \in Nat /\ MaxAttempts \in Nat
  /\ Entries \subseteq {"full", "manual", "legacy"}
  /\ None \notin Nat \cup Slots
                   \cup {"start", "scan", "decide", "cancel", "leave", "forget", "foreground",
                         "home", "ok", "error", "working", "approval", "trusted", "some", "none",
                         "rotation", "single", "legacy", "nothing shared"}

VARIABLES page,    \* stage, epoch, flow, tag, pending, entry, screen, shown, told
          tasks,   \* the handlers that wait
          native,  \* n: attempts begun; live, mode, phase of the last; worker
          shared,  \* attempts whose identity `link` handed to the application
          disclosed, \* attempts the two-decision flow handed over; Interrupted
          pressed  \* attempts linked by the person, their own preview on the screen
record == <<shared, disclosed>>
vars == <<page, tasks, native, shared, disclosed, pressed>>

Idle == [pc |-> "idle", by |-> None, epoch |-> 0, tag |-> None, mode |-> None,
         reply |-> None]
Waiting(pc, by, epoch) == [Idle EXCEPT !.pc = pc, !.by = by, !.epoch = epoch]

Nothing == [what |-> None, att |-> None]
\* The link a recovery is about, begun before the first attempt.  Its payload may
\* have left the wallet; the model takes it that it did.
Interrupted == 0
Init ==
  /\ page = [stage |-> "idle", epoch |-> 0, flow |-> "single", tag |-> None,
             pending |-> FALSE, entry |-> "full", screen |-> "applications",
             shown |-> Nothing, told |-> Nothing]
  /\ tasks = [s \in Slots |-> Idle]
  /\ native = [n |-> 0, live |-> FALSE, mode |-> None, phase |-> None, worker |-> None]
  /\ shared = {} /\ disclosed = {Interrupted} /\ pressed = {}

-----------------------------------------------------------------------------
(* Tasks and turns of the page's thread *)

Room(ts) == \E s \in Slots : ts[s] = Idle
Launch(ts, t) == [ts EXCEPT ![CHOOSE s \in Slots : ts[s] = Idle] = t]
Done(s) == [tasks EXCEPT ![s] = Idle]
Await(s, pc) == [tasks EXCEPT ![s] = [@ EXCEPT !.pc = pc, !.reply = None]]
Current(s) == tasks[s].epoch = page.epoch
Answer(s, pc, reply) == tasks[s].pc = pc /\ tasks[s].reply = reply
Got(s, pc, reply) == Answer(s, pc, reply) /\ Current(s)

Turn(p, ts) == /\ p.epoch <= MaxEpoch
               /\ page' = p /\ tasks' = ts
               /\ UNCHANGED <<native, record, pressed>>

\* cancel up to its first await: the epoch fences every handler that waits.
Stopped(p) == [p EXCEPT !.epoch = @ + 1, !.tag = None, !.stage = "cancelling", !.pending = TRUE]
\* revokeNative of the attempt p holds; by says what its end is followed by.
Revocation(p, by) == [Waiting("revoke", by, p.epoch + 1) EXCEPT !.tag = p.tag, !.mode = p.flow]

PairingScreens == {"pairing-enter", "pairing-wait", "pairing-consent"}
\* leaving, called by every show.
Leaves(p, name) == name \notin PairingScreens /\ p.stage \notin {"idle", "cancelling"}
\* show clears what the person was told.
Screen(p, name) == [p EXCEPT !.screen = name, !.told = Nothing]
Shown(p, name) == Screen(IF Leaves(p, name) THEN Stopped(p) ELSE p, name)
Revoking(p, name, ts) == IF Leaves(p, name) THEN Launch(ts, Revocation(p, "leave")) ELSE ts
Show(p, name, ts) == /\ Leaves(p, name) => Room(ts)
                     /\ Turn(Shown(p, name), Revoking(p, name, ts))

Consent(p, what, att) == [Screen(p, "pairing-consent") EXCEPT !.shown = [what |-> what, att |-> att]]
Result(p, what, att) == [p EXCEPT !.told = [what |-> what, att |-> att],
                                  !.screen = "pairing-result"]
\* Back to the entry screen with startFailureText, taken to be one of its texts
\* that end with "Nothing was shared".
NothingShared(p, att) == [p EXCEPT !.stage = "idle", !.tag = None, !.screen = "pairing-enter",
                                   !.told = [what |-> "nothing shared", att |-> att]]
\* The finally block of decide and decideSingle.
Settled(p) == [p EXCEPT !.pending = FALSE]

-----------------------------------------------------------------------------
(* Entry *)

\* forget: what is in flight is revoked and no longer awaited.
Forget(p) == [p EXCEPT !.tag = None, !.flow = "single", !.epoch = @ + 1, !.pending = FALSE,
                       !.entry = "full", !.stage = "idle"]
ToPairing ==
  /\ page.screen = "applications"
  /\ page.stage # "idle" => Room(tasks)
  /\ Turn(Screen(Forget(page), "pairing-enter"),
          IF page.stage = "idle" THEN tasks ELSE Launch(tasks, Revocation(page, "forget")))

SelectEntryMode(mode) ==
  /\ page.screen = "pairing-enter" /\ page.stage = "idle" /\ page.entry # mode
  /\ Turn([page EXCEPT !.epoch = @ + 1, !.entry = mode], tasks)

Entering(p, mode) == [Screen(p, "pairing-wait") EXCEPT !.epoch = @ + 1, !.flow = mode,
                                                       !.tag = None, !.stage = "entry"]
FirstCall(mode) == IF mode = "legacy" THEN "recognise" ELSE "begin"
ModeOf(entry) == IF entry = "legacy" THEN "legacy" ELSE "single"
Start ==
  /\ page.screen = "pairing-enter" /\ page.stage = "idle" /\ Room(tasks)
  /\ LET mode == ModeOf(page.entry) IN
       Turn(Entering(page, mode),
            Launch(tasks, Waiting(FirstCall(mode), "start", page.epoch + 1)))

Scan ==
  /\ page.screen = "pairing-enter" /\ page.stage = "idle" /\ page.entry # "legacy" /\ Room(tasks)
  /\ Turn([page EXCEPT !.epoch = @ + 1, !.stage = "scanning"],
          Launch(tasks, Waiting("camera", "scan", page.epoch + 1)))
\* A scanned invitation goes on as a pasted one; a manual one waits for its words.
Scanned(s) ==
  /\ Got(s, "camera", "ok")
  /\ IF page.entry = "full"
     THEN Turn(Entering(page, "single"),
               [tasks EXCEPT ![s] = Waiting("begin", "start", page.epoch + 1)])
     ELSE Turn([page EXCEPT !.stage = "idle"], Done(s))
ScanFails(s) == Got(s, "camera", "error") /\ Turn([page EXCEPT !.stage = "idle"], Done(s))
StopCamera ==
  /\ page.stage = "scanning" /\ Room(tasks)
  /\ Turn([page EXCEPT !.epoch = @ + 1, !.stage = "cancelling"],
          Launch(tasks, Waiting("stopCamera", "scan", page.epoch + 1)))
CameraStopped(s) == Got(s, "stopCamera", "ok") /\ Turn([page EXCEPT !.stage = "idle"], Done(s))

-----------------------------------------------------------------------------
(* start: from the invitation to the request on the screen *)

\* A mutant: the late reservation is dropped without being given up.
LateReservationLeft(s) == Answer(s, "begin", "ok") /\ ~Current(s) /\ Turn(page, Done(s))

\* A reservation that comes back after its handler was fenced is given up by tag.
LateReservation(s) ==
  /\ Answer(s, "begin", "ok") /\ ~Current(s)
  /\ Turn(page, [tasks EXCEPT ![s] = [@ EXCEPT !.pc = "revoke", !.by = "forget",
                                               !.mode = "single", !.reply = None]])

Reserved(s) ==
  /\ Got(s, "begin", "ok")
  /\ Turn([page EXCEPT !.tag = tasks[s].tag, !.stage = "contact"], Await(s, "contact"))

\* The page holds no tag of a two-decision attempt: `shown` says for the model
\* which one its screens are about, from here to the end of the flow.
Recognised(s) ==
  \/ /\ Got(s, "recognise", "approval")
     /\ Turn(Consent([page EXCEPT !.stage = "relay"], "relay", tasks[s].tag), Done(s))
  \/ /\ Got(s, "recognise", "trusted")
     /\ Turn([page EXCEPT !.shown = [what |-> None, att |-> tasks[s].tag]],
             [tasks EXCEPT ![s] = [@ EXCEPT !.pc = "relayApprove", !.tag = None, !.reply = None]])
About(s) == IF page.flow = "single" THEN tasks[s].tag ELSE page.shown.att

\* showIntent, from contact or from advanceRelay.
Requested(p, att) == Consent([p EXCEPT !.stage = IF p.flow = "single" THEN "single-unlock"
                                                 ELSE "intent"], "request", att)
Ending(s, p) == IF tasks[s].by = "decide" THEN Settled(p) ELSE p
Contacted(s) ==
  /\ \/ Got(s, "contact", "ok") \/ Got(s, "relayApprove", "ok")
  /\ Turn(Ending(s, Requested(page, About(s))), Done(s))
RelayDeclined(s) ==
  /\ Got(s, "relayReject", "ok")
  /\ Turn(Ending(s, Result([page EXCEPT !.stage = "idle"], "declined", None)), Done(s))

\* Before the request is on the screen nothing of a two-decision attempt left the
\* wallet, so what the person is told then is said of no attempt.
StartCalls == {"recognise", "begin", "contact", "relayApprove"}
StartFails(s) ==
  /\ tasks[s].by = "start" /\ tasks[s].pc \in StartCalls /\ tasks[s].reply = "error" /\ Current(s)
  /\ Turn(page, [tasks EXCEPT ![s] = [@ EXCEPT !.pc = "revoke", !.tag = page.tag,
                                               !.mode = page.flow, !.reply = None]])
StartRevoked(s) ==
  /\ Got(s, "revoke", "ok") /\ tasks[s].by = "start"
  /\ Turn(NothingShared(page, tasks[s].tag), Done(s))

-----------------------------------------------------------------------------
(* decideSingle: unlock and review, then link *)

OnConsent == page.screen = "pairing-consent"
Recovering == page.stage \in {"recovery", "recovery-rotation"}
Decides(pc) == /\ OnConsent /\ ~page.pending /\ Room(tasks)
               /\ page' = [page EXCEPT !.pending = TRUE]
               /\ tasks' = Launch(tasks, [Waiting(pc, "decide", page.epoch) EXCEPT !.tag = page.tag])
               /\ UNCHANGED <<native, record>>

Unlock == /\ page.flow = "single" /\ page.stage = "single-unlock"
          /\ Decides("unlock") /\ UNCHANGED pressed
ShowSinglePreview(p, att) == Consent([p EXCEPT !.stage = "single-preview"], "preview", att)
\* The review stays until two frames were painted; only then is it reported.
Unlocked(s) ==
  /\ Got(s, "unlock", "ok")
  /\ Turn(ShowSinglePreview(page, tasks[s].tag), Await(s, "paint"))
Painted(s) == Got(s, "paint", "ok") /\ Turn(page, Await(s, "rendered"))
Ready(s) == /\ Got(s, "rendered", "ok")
            /\ Turn(Settled([page EXCEPT !.stage = "single-ready"]), Done(s))

Link == /\ page.flow = "single" /\ page.stage = "single-ready"
        /\ OnConsent /\ ~page.pending /\ Room(tasks)
        /\ page' = [page EXCEPT !.pending = TRUE, !.stage = "single-link"]
        /\ tasks' = Launch(tasks, [Waiting("link", "decide", page.epoch) EXCEPT !.tag = page.tag])
        /\ pressed' = IF page.shown = [what |-> "preview", att |-> page.tag]
                      THEN pressed \cup {page.tag} ELSE pressed
        /\ UNCHANGED <<native, record>>
Linked(s) ==
  \/ /\ Got(s, "link", "ok")
     /\ Turn([page EXCEPT !.stage = "single-comparison"], Await(s, "continue"))
  \/ /\ Got(s, "continue", "ok")
     /\ Turn([page EXCEPT !.stage = "single-finish"], Await(s, "finishLink"))
  \/ /\ Got(s, "finishLink", "ok")
     /\ Turn(Settled(Result([page EXCEPT !.stage = "idle", !.tag = None],
                            "connected", tasks[s].tag)), Done(s))

\* A mutant: a failed finish counts as one before the link.
AfterLinkButFinish == {"single-link", "single-comparison"}

AfterLink == {"single-link", "single-comparison", "single-finish"}

SingleCalls == {"unlock", "rendered", "link", "continue", "finishLink"}
SingleFails(s) ==
  /\ tasks[s].pc \in SingleCalls /\ tasks[s].reply = "error" /\ Current(s)
  /\ Turn(page, [tasks EXCEPT ![s] = [@ EXCEPT !.pc = "revoke", !.mode = "single",
                                               !.reply = None]])
SingleRevoked(s) ==
  /\ Got(s, "revoke", "ok") /\ tasks[s].by = "decide" /\ tasks[s].mode = "single"
  /\ IF page.stage \in AfterLink
     THEN Turn(page, Await(s, "inspect"))
     ELSE Turn(Settled(NothingShared(page, tasks[s].tag)), Done(s))
Inspected(s) ==
  /\ Got(s, "inspect", "ok")
  /\ Turn(Settled(Result([page EXCEPT !.stage = "idle", !.tag = None],
                         "needs checking", tasks[s].tag)), Done(s))

-----------------------------------------------------------------------------
(* decide: the two-decision flow and the recovery of an interrupted link *)

TwoDecision == page.flow = "legacy" /\ ~Recovering
DecideRelay(approve) ==
  /\ TwoDecision /\ page.stage = "relay"
  /\ OnConsent /\ ~page.pending /\ Room(tasks)
  /\ page' = Screen([page EXCEPT !.pending = TRUE], "pairing-wait")
  /\ tasks' = Launch(tasks, Waiting(IF approve THEN "relayApprove" ELSE "relayReject",
                                    "decide", page.epoch))
  /\ UNCHANGED <<native, record, pressed>>
DecideIntent(approve) ==
  /\ TwoDecision /\ page.stage = "intent" /\ UNCHANGED pressed
  /\ Decides(IF approve THEN "preliminary" ELSE "preliminaryDecline")
DecideFinal(approve) ==
  /\ TwoDecision /\ page.stage = "final" /\ UNCHANGED pressed
  /\ Decides(IF approve THEN "final" ELSE "finalDecline")
Retry == TwoDecision /\ page.stage = "finish" /\ Decides("finish") /\ UNCHANGED pressed

\* showPreview and showFinalReview.
ShowPreview(p) == Consent([p EXCEPT !.stage = "comparison"], "preview", p.shown.att)
ShowFinalReview(p) == Consent([p EXCEPT !.stage = "final"], "final", p.shown.att)
\* showRecoveryRotation.
ShowRotation(p) == Consent([p EXCEPT !.stage = "recovery-rotation"], "rotation", p.shown.att)

Declined(s) ==
  /\ \/ Got(s, "preliminaryDecline", "ok")
     \/ Got(s, "finalDecline", "ok")
  /\ Turn(Settled(Result([page EXCEPT !.stage = "idle"], "declined", None)), Done(s))
Previewed(s) ==
  \/ /\ Got(s, "preliminary", "ok")
     /\ Turn(ShowPreview(page), Await(s, "paintBeforeCompare"))
  \/ /\ Got(s, "paintBeforeCompare", "ok")
     /\ Turn(page, Await(s, "compare"))
  \/ /\ Got(s, "compare", "ok")
     /\ Turn(Settled(ShowFinalReview(page)), Done(s))
Finished(s) ==
  \/ /\ Got(s, "final", "ok")
     /\ Turn(Screen([page EXCEPT !.stage = "finish"], "pairing-wait"), Await(s, "finish"))
  \/ /\ Got(s, "finish", "ok")
     /\ Turn(Settled(Result([page EXCEPT !.stage = "idle"], "connected", None)), Done(s))

\* showRecovery and the answers of cbcl_v2_recover.
ShowRecovery(p) == Consent([p EXCEPT !.flow = "legacy", !.stage = "recovery"],
                           "recovery", Interrupted)
Recover == Recovering /\ Decides("recover") /\ UNCHANGED pressed
Recovered(s) ==
  \/ /\ Got(s, "recover", "ok")
     /\ Turn(Settled(Result([page EXCEPT !.stage = "idle"], "recovered", None)), Done(s))
  \/ /\ Got(s, "recover", "rotation")
     /\ Turn(Settled(ShowRotation(page)), Done(s))
\* Not now: the home screen is drawn again before the decision is over.
KeepPending ==
  /\ Recovering /\ OnConsent /\ ~page.pending /\ Room(tasks)
  /\ page' = [page EXCEPT !.pending = TRUE, !.stage = "idle"]
  /\ tasks' = Launch(tasks, Waiting("refresh", "decide", page.epoch))
  /\ UNCHANGED <<native, record, pressed>>

LegacyCalls == {"preliminary", "preliminaryDecline", "compare", "final", "finalDecline",
                "finish", "recover", "relayApprove", "relayReject"}
\* A failed finish may be tried again; any other failure ends the attempt.
DecideFails(s) ==
  /\ tasks[s].by = "decide" /\ tasks[s].pc \in LegacyCalls /\ tasks[s].reply = "error"
  /\ Current(s)
  /\ IF page.stage = "finish"
     THEN Turn(Settled(Screen(page, "pairing-consent")), Done(s))
     ELSE Turn(page, [tasks EXCEPT ![s] = [@ EXCEPT !.pc = "revoke", !.mode = "legacy",
                                                    !.reply = None]])
\* Back to the entry screen whatever was disclosed: the stage is not asked.
DecideRevoked(s) ==
  /\ Got(s, "revoke", "ok") /\ tasks[s].by = "decide" /\ tasks[s].mode = "legacy"
  /\ Turn(Settled(NothingShared(page, About(s))), Done(s))

-----------------------------------------------------------------------------
(* Leaving, cancelling and coming back *)

Cancel == /\ page.screen \in PairingScreens /\ Room(tasks)
          /\ Turn(Stopped(page), Launch(tasks, Revocation(page, "cancel")))
Cancelled(s) ==
  /\ Got(s, "revoke", "ok") /\ tasks[s].by \in {"cancel", "leave"}
  /\ LET p == [page EXCEPT !.stage = "idle", !.pending = FALSE] IN
       Turn(IF tasks[s].by = "cancel" THEN Screen(p, "applications") ELSE p, Done(s))

\* interruptPairing: the app left the foreground.
Background ==
  /\ page.stage \notin {"idle", "cancelling"} /\ Room(tasks)
  /\ Turn(Result(Stopped(page), "interrupted", page.tag),
          Launch(tasks, Revocation(page, "leave")))
\* resumePending: it reads the links too; the epoch is checked again after the answer, the stage is not.
Foreground ==
  /\ page.stage = "idle" /\ Room(tasks)
  /\ Turn(page, Launch(tasks, Waiting("resume", "foreground", page.epoch)))
Resumed(s) == Got(s, "resume", "some") /\ Turn(ShowRecovery(page), Done(s))
NothingToResume(s) ==
  /\ \/ Answer(s, "resume", "none")
     \/ Answer(s, "resume", "some") /\ ~Current(s)
  /\ Turn(page, Done(s))

ToHome == /\ page.screen \in {"applications", "home"} /\ Room(tasks)
          /\ Turn(page, Launch(tasks, Waiting("refresh", "home", page.epoch)))
ToApplications == page.screen = "home" /\ Show(page, "applications", tasks)
FinishPairing == /\ page.screen = "pairing-result" /\ Room(tasks)
                 /\ Turn(page, Launch(tasks, Waiting("links", "home", page.epoch)))
\* refresh and the end of finish-cbcl-pairing show their screen whatever the
\* person did meanwhile.
Redrawn(s) ==
  /\ tasks[s].pc \in {"refresh", "links"} /\ tasks[s].reply = "ok"
  /\ LET name == IF tasks[s].pc = "refresh" THEN "home" ELSE "applications"
         p == Shown(page, name) IN
       Turn(IF tasks[s].by = "decide" /\ tasks[s].epoch = p.epoch THEN Settled(p) ELSE p,
            Revoking(page, name, Done(s)))

\* The answer of a fenced handler changes nothing.
Keeps == {"refresh", "links", "resume"}
Fenced(s) ==
  /\ tasks[s].reply \notin {None, "working"} /\ ~Current(s) /\ tasks[s].pc \notin Keeps
  /\ ~Answer(s, "begin", "ok")
  /\ Turn(page, Done(s))
\* void revokeNative(): nobody waits for it.
Unawaited(s) ==
  /\ Got(s, "revoke", "ok") /\ tasks[s].by = "forget" /\ Turn(page, Done(s))

-----------------------------------------------------------------------------
(* The native side *)

\* The phase a command wants and the one it leaves.
Moves == [contact      |-> <<"single", "entry", "intent">>,
          unlock       |-> <<"single", "intent", "unpainted">>,
          rendered     |-> <<"single", "unpainted", "ready">>,
          link         |-> <<"single", "ready", "linked">>,
          continue     |-> <<"single", "linked", "continued">>,
          finishLink   |-> <<"single", "continued", "done">>,
          relayApprove |-> <<"legacy", "relay", "intent">>,
          relayReject  |-> <<"legacy", "relay", "done">>,
          preliminary  |-> <<"legacy", "intent", "preview">>,
          preliminaryDecline |-> <<"legacy", "intent", "done">>,
          compare      |-> <<"legacy", "preview", "final">>,
          final        |-> <<"legacy", "final", "finish">>,
          finalDecline |-> <<"legacy", "final", "done">>,
          finish       |-> <<"legacy", "finish", "done">>]
Working == DOMAIN Moves \cup {"recognise"}

Asked(s, pc) == tasks[s].pc = pc /\ tasks[s].reply = None
Reply(s, r) == tasks' = [tasks EXCEPT ![s].reply = r]
Over == [native EXCEPT !.live = FALSE, !.mode = None, !.phase = None]
MayBegin == ~native.live /\ native.worker = None /\ native.n < MaxAttempts
Begun(mode, worker) == [n |-> native.n + 1, live |-> TRUE, mode |-> mode, phase |-> "entry",
                        worker |-> worker]

\* reserve_entry; the tag names the attempt.
Begin(s) ==
  /\ Asked(s, "begin")
  /\ \/ Reply(s, "error") /\ UNCHANGED native
     \/ /\ MayBegin /\ native' = Begun("single", None)
        /\ tasks' = [tasks EXCEPT ![s] = [@ EXCEPT !.reply = "ok", !.tag = native.n + 1]]
  /\ UNCHANGED <<page, record, pressed>>
Recognise(s) ==
  /\ Asked(s, "recognise")
  /\ \/ Reply(s, "error") /\ UNCHANGED native
     \/ /\ MayBegin /\ native' = Begun("legacy", s)
        /\ tasks' = [tasks EXCEPT ![s] = [@ EXCEPT !.reply = "working", !.tag = native.n + 1]]
  /\ UNCHANGED <<page, record, pressed>>

Admitted(s) == LET m == Moves[tasks[s].pc] IN
  /\ native.live /\ native.worker = None /\ native.mode = m[1] /\ native.phase = m[2]
  /\ m[1] = "single" => native.n = tasks[s].tag
\* What a command hands over is written to the record of its flow: link the
\* identity; compare the identity preview, final and finish the grant.
TwoDecisionHands == {"compare", "final", "finish"}
HandedOver(s, calls, given) == IF tasks[s].pc \in calls THEN given \cup {native.n} ELSE given
\* take_single and its legacy fellows; what they hand over may reach the
\* application before they end.
Take(s) ==
  /\ tasks[s].pc \in DOMAIN Moves /\ tasks[s].reply = None
  /\ IF Admitted(s)
     THEN /\ native' = [native EXCEPT !.worker = s] /\ Reply(s, "working")
          /\ shared' \in {shared, HandedOver(s, {"link"}, shared)}
          /\ disclosed' \in {disclosed, HandedOver(s, TwoDecisionHands, disclosed)}
     ELSE Reply(s, "error") /\ UNCHANGED <<native, record>>
  /\ UNCHANGED <<page, pressed>>

Outcomes(s) == IF tasks[s].pc = "recognise" THEN {"approval", "trusted"} ELSE {"ok"}
After(s) == IF tasks[s].pc = "recognise" THEN "relay" ELSE Moves[tasks[s].pc][3]
\* An attempt cancelled meanwhile fails its worker; a failure ends the attempt,
\* except the legacy finish, which keeps its execution.
Complete(s) ==
  /\ tasks[s].reply = "working" /\ native.worker = s
  /\ \/ /\ native.live
        /\ native' = [IF After(s) = "done" THEN Over ELSE [native EXCEPT !.phase = After(s)]
                      EXCEPT !.worker = None]
        /\ \E r \in Outcomes(s) : Reply(s, r)
        /\ shared' = HandedOver(s, {"link"}, shared)
        /\ disclosed' = HandedOver(s, TwoDecisionHands, disclosed)
     \/ /\ native' = [IF native.live /\ tasks[s].pc = "finish" THEN native ELSE Over
                      EXCEPT !.worker = None]
        /\ Reply(s, "error") /\ UNCHANGED record
  /\ UNCHANGED <<page, pressed>>

\* cbcl_v2_cancel_link by tag, cbcl_v2_cancel by mode, nothing without a tag.
Revokes(t) == IF t.mode = "single" THEN native.mode = "single" /\ native.n = t.tag
              ELSE native.mode = "legacy"
Revoke(s) ==
  /\ Asked(s, "revoke") /\ Reply(s, "ok")
  /\ native' = IF Revokes(tasks[s]) THEN Over ELSE native
  /\ UNCHANGED <<page, record, pressed>>

\* Reads, the camera, the painter and the recovery command, which touches no attempt.
Reads == [refresh |-> {"ok"}, links |-> {"ok"}, inspect |-> {"ok"}, paint |-> {"ok"},
          paintBeforeCompare |-> {"ok"}, stopCamera |-> {"ok"}, camera |-> {"ok", "error"},
          resume |-> {"some", "none"}, recover |-> {"ok", "rotation", "error"}]
Read(s) ==
  /\ tasks[s].pc \in DOMAIN Reads /\ tasks[s].reply = None
  /\ \E r \in Reads[tasks[s].pc] : Reply(s, r)
  /\ UNCHANGED <<page, native, record, pressed>>

\* The deadline, the native lifecycle event or a change of the root.
Expire == native.live /\ native' = Over /\ UNCHANGED <<page, tasks, record, pressed>>

-----------------------------------------------------------------------------
Person ==
  \/ ToPairing \/ Start \/ Scan \/ StopCamera \/ Cancel \/ ToHome \/ ToApplications
  \/ FinishPairing \/ Unlock \/ Link \/ Retry \/ Recover \/ KeepPending
  \/ \E mode \in Entries : SelectEntryMode(mode)
  \/ \E approve \in BOOLEAN : DecideRelay(approve) \/ DecideIntent(approve) \/ DecideFinal(approve)
Handler(s) ==
  \/ Scanned(s) \/ ScanFails(s) \/ CameraStopped(s) \/ LateReservation(s) \/ Reserved(s)
  \/ Recognised(s) \/ Contacted(s) \/ RelayDeclined(s) \/ StartFails(s) \/ StartRevoked(s)
  \/ Unlocked(s) \/ Painted(s) \/ Ready(s) \/ Linked(s) \/ SingleFails(s) \/ SingleRevoked(s)
  \/ Inspected(s) \/ Declined(s) \/ Previewed(s) \/ Finished(s) \/ Recovered(s)
  \/ DecideFails(s) \/ DecideRevoked(s) \/ Cancelled(s) \/ Resumed(s) \/ NothingToResume(s)
  \/ Redrawn(s) \/ Fenced(s) \/ Unawaited(s)
Native(s) == Begin(s) \/ Recognise(s) \/ Take(s) \/ Complete(s) \/ Revoke(s) \/ Read(s)
Next == \/ Person \/ Background \/ Foreground \/ Expire
        \/ \E s \in Slots : Handler(s) \/ Native(s)
Spec == Init /\ [][Next]_vars

-----------------------------------------------------------------------------
\* The request or preview on the consent screen is the one of the attempt the
\* buttons act on, however late the answers of earlier attempts arrive.
SingleStages == {"single-unlock", "single-preview", "single-ready"} \cup AfterLink
ShownCurrent ==
  OnConsent /\ page.stage \in SingleStages =>
    /\ page.shown.att = page.tag
    /\ page.stage # "single-unlock" => page.shown.what = "preview"
\* In the single-link flow "Nothing was shared" is never said of an attempt whose
\* identity was, or still may be, handed to the application; and `link` hands none
\* over unless the person pressed Link with that attempt's own preview on the
\* screen.  Of the two-decision flow and of a recovery neither is claimed: a
\* failure after compare, or of a recovery, says it all the same.
Truthful == page.flow = "single" /\ page.told.what = "nothing shared" =>
              page.told.att \notin shared \cup disclosed
Pressed == {a \in shared : a \notin pressed} = {}
ScreenHonest == ShownCurrent /\ Truthful /\ Pressed

\* When the page is idle and waits for nothing, no tagged attempt is left alive
\* natively: it would refuse every new invitation until its deadline.
Quiescent == page.stage = "idle" /\ \A s \in Slots : tasks[s] = Idle
NoOrphan == Quiescent => ~(native.live /\ native.mode = "single")
=============================================================================
