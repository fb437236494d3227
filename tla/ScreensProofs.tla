---------------------------- MODULE ScreensProofs ----------------------------
(***************************************************************************)
(* TLAPS proofs about the wallet's screens: the pairing page, for any      *)
(* number of handlers that wait, any number of attempts and any epoch;     *)
(* then the linking and enrolment screens, for any codes, any accounts the *)
(* authority already binds and any number of handlers that wait.  The two  *)
(* models share no variable.                                               *)
(***************************************************************************)
EXTENDS PairingScreen, LinkScreens, TLAPS

-----------------------------------------------------------------------------
(* PairingScreen: types *)

Tags == Nat \cup {None}
Recoveries == {"recovery", "recovery-rotation"}
Stages == {"idle", "scanning", "cancelling", "entry", "contact", "relay", "intent", "comparison",
           "final", "finish"} \cup SingleStages \cup Recoveries
Views == {"applications", "home", "pairing-enter", "pairing-result"} \cup PairingScreens
Notes == {None, "relay", "request", "preview", "final", "rotation", "recovery", "declined",
          "nothing shared", "connected", "needs checking", "recovered", "interrupted"}
PageStates == [stage : Stages, epoch : Nat, flow : {"single", "legacy"}, tag : Tags,
               pending : BOOLEAN, entry : {"full", "manual", "legacy"}, screen : Views,
               shown : [what : Notes, att : Tags], told : [what : Notes, att : Tags]]
Calls == {"idle", "camera", "stopCamera", "paint", "paintBeforeCompare", "inspect", "resume",
          "refresh", "links", "revoke"} \cup StartCalls \cup SingleCalls \cup LegacyCalls
Replies == {None, "ok", "error", "working", "approval", "trusted", "some", "none", "rotation"}
TaskStates == [pc : Calls,
               by : {None, "start", "scan", "decide", "cancel", "leave", "forget", "foreground",
                     "home"},
               epoch : Nat, tag : Tags, mode : {None, "single", "legacy"}, reply : Replies]
NativeStates == [n : Nat, live : BOOLEAN, mode : {None, "single", "legacy"},
                 phase : {None, "entry", "relay", "intent", "unpainted", "ready", "linked",
                          "continued", "preview", "final", "finish", "done"},
                 worker : Slots \cup {None}]

\* Who makes which call.
OfStart == StartCalls \cup {"revoke"}
OfDecide == SingleCalls \cup LegacyCalls
            \cup {"paint", "paintBeforeCompare", "inspect", "refresh", "revoke"}
CallOK(t) ==
  /\ t.pc = "idle" <=> t.by = None
  /\ t.by = "start" => t.pc \in OfStart
  /\ t.by = "scan" => t.pc \in {"camera", "stopCamera"}
  /\ t.by = "decide" => t.pc \in OfDecide
  /\ t.by \in {"cancel", "leave", "forget"} => t.pc = "revoke"
  /\ t.by = "foreground" => t.pc = "resume"
  /\ t.by = "home" => t.pc \in {"refresh", "links"}

-----------------------------------------------------------------------------
(* The page and the handlers that are not fenced *)

\* A tag is held from the reservation to the end of a single attempt.
PageOK(p) ==
  /\ p \in PageStates
  /\ p.tag # None => p.stage \in {"contact"} \cup SingleStages /\ p.flow = "single"
  /\ p.stage \in Recoveries => p.flow = "legacy"
  /\ p.screen = "pairing-consent" /\ p.stage \in SingleStages =>
       /\ p.shown.att = p.tag
       /\ p.stage # "single-unlock" => p.shown.what = "preview"

\* The stage at which a handler that is not fenced finds the page.
StartPlaced(t, p) ==
  /\ t.pc = "begin" => p.stage = "entry" /\ p.flow = "single"
  /\ t.pc \in {"recognise", "relayApprove"} => p.stage = "entry" /\ p.flow = "legacy"
  /\ t.pc = "contact" => p.stage = "contact" /\ p.flow = "single"
  /\ t.pc = "revoke" => p.stage \in {"entry", "contact"} /\ t.mode = p.flow
  /\ t.pc \notin {"begin", "recognise"} => t.tag = p.tag
SinglePlaced(t, p) ==
  /\ t.pc = "unlock" => p.stage = "single-unlock"
  /\ t.pc \in {"paint", "rendered"} => p.stage = "single-preview"
  /\ t.pc = "link" => p.stage = "single-link"
  /\ t.pc = "continue" => p.stage = "single-comparison"
  /\ t.pc = "finishLink" => p.stage = "single-finish"
  /\ t.pc = "inspect" => p.stage \in AfterLink
  /\ t.pc = "revoke" /\ t.mode = "single" => p.stage \in SingleStages
LegacyPlaced(t, p) ==
  /\ t.pc \in {"relayApprove", "relayReject"} => p.stage = "relay"
  /\ t.pc \in {"preliminary", "preliminaryDecline"} => p.stage = "intent"
  /\ t.pc \in {"paintBeforeCompare", "compare"} => p.stage = "comparison"
  /\ t.pc \in {"final", "finalDecline"} => p.stage = "final"
  /\ t.pc = "finish" => p.stage = "finish"
  /\ t.pc = "recover" => p.stage \in Recoveries
  /\ t.pc = "refresh" => p.stage \in {"idle"} \cup Recoveries
  /\ t.pc \in LegacyCalls \cup {"paintBeforeCompare"} \/ (t.pc = "revoke" /\ t.mode # "single") =>
       p.flow = "legacy"
Placed(t, p) ==
  /\ t.by = "start" => StartPlaced(t, p)
  /\ t.by = "decide" => p.pending /\ t.tag = p.tag /\ SinglePlaced(t, p) /\ LegacyPlaced(t, p)
  /\ t.by = "scan" => p.stage = IF t.pc = "camera" THEN "scanning" ELSE "cancelling"
  /\ t.by \in {"cancel", "leave"} => p.stage = "cancelling"
  /\ t.pc = "resume" => p.stage \in {"idle"} \cup Recoveries

\* Handlers that end what the page is at; there is one at a time.
Leads(t, p) == t.by \in {"start", "decide", "scan", "cancel", "leave"} /\ t.epoch = p.epoch
TurnsOK(p, ts) ==
  /\ \A s \in Slots : ts[s].epoch <= p.epoch /\ (ts[s].epoch = p.epoch => Placed(ts[s], p))
  /\ \A s, r \in Slots : Leads(ts[s], p) /\ Leads(ts[r], p) => s = r

-----------------------------------------------------------------------------
(* The attempts behind them *)

Living(a) == native.live /\ native.mode = "single" /\ native.n = a
\* The number of no two-decision attempt, and of none to come.
Numbered(a) == a = None \/ /\ a <= native.n /\ a \notin disclosed
                           /\ ~(native.mode = "legacy" /\ native.n = a)
\* Nothing was handed over for a, and nothing is about to be.
NotLinked(a, ts) == a \notin shared /\ \A s \in Slots : ts[s].pc = "link" => ts[s].tag # a
\* A reservation that was answered and not yet taken up.
Fresh(t) == t.pc = "begin" /\ t.reply = "ok"
\* A call to end an attempt that was not made yet.
Ends(t, a) == t.pc = "revoke" /\ t.reply = None /\ t.mode = "single" /\ t.tag = a
\* The call that ended an attempt was answered.
Ended(t) == \/ t.pc = "revoke" /\ t.reply = "ok" /\ t.mode = "single"
            \/ t.pc = "inspect"
            \/ t.pc = "finishLink" /\ t.reply = "ok"

TagsOK(p, ts) ==
  /\ Numbered(p.tag)
  /\ \A s \in Slots : ts[s].pc # "recognise" => Numbered(ts[s].tag)
  /\ shared \cup disclosed \subseteq Nat /\ \A a \in shared \cup disclosed : a <= native.n
LinkOK(p, ts, pr) ==
  /\ p.tag # None /\ p.stage \notin AfterLink => NotLinked(p.tag, ts)
  /\ \A s \in Slots : /\ Fresh(ts[s]) => /\ NotLinked(ts[s].tag, ts)
                                         /\ ts[s].tag # p.tag /\ ts[s].tag # None
                      /\ ts[s].pc = "link" => ts[s].tag \in pr
  /\ \A s, r \in Slots : Fresh(ts[s]) /\ Fresh(ts[r]) /\ ts[s].tag = ts[r].tag => s = r
  /\ shared \subseteq pr
WorkOK(ts) ==
  \A s \in Slots :
    /\ ts[s].reply = "working" <=> native.worker = s
    /\ ts[s].reply = "working" => ts[s].pc \in Working
    /\ ts[s].reply = "working" /\ ts[s].pc = "link" /\ native.live => Living(ts[s].tag)
    /\ ts[s].reply = "working" /\ ts[s].pc \in TwoDecisionHands /\ native.live =>
         native.mode = "legacy"
ToldOK(p) ==
  p.flow = "single" /\ p.told.what = "nothing shared" =>
    Numbered(p.told.att) /\ p.told.att \notin shared /\ ~Living(p.told.att)
EndOK(ts) == \A s \in Slots : Ended(ts[s]) => ~Living(ts[s].tag)
\* A live attempt is held by the page, or by a handler that will end it.
HeldOK(p, ts) ==
  \A a \in Nat : Living(a) =>
    p.tag = a \/ \E s \in Slots : (Fresh(ts[s]) /\ ts[s].tag = a) \/ Ends(ts[s], a)

StateOK(p, ts) ==
  /\ PageOK(p)
  /\ ts \in [Slots -> TaskStates] /\ \A s \in Slots : CallOK(ts[s])
  /\ native \in NativeStates
Good(p, ts, pr) ==
  /\ StateOK(p, ts) /\ TurnsOK(p, ts)
  /\ TagsOK(p, ts) /\ LinkOK(p, ts, pr) /\ WorkOK(ts) /\ ToldOK(p) /\ EndOK(ts) /\ HeldOK(p, ts)
IInv == Good(page, tasks, pressed)

-----------------------------------------------------------------------------
(* Turns of the page *)

\* Where a late answer of resume may find the page.
Resting == {"idle"} \cup Recoveries
Calm(p, q) == q.epoch = p.epoch /\ (p.stage \in Resting => q.stage \in Resting)
Fits(t, p) == t.epoch <= p.epoch /\ (t.epoch = p.epoch => Placed(t, p))
\* The recovery may be offered again to a page that rests.
Offers(p, q) == /\ q.epoch = p.epoch /\ p.stage \in Resting /\ q.stage = "recovery"
                /\ q.flow = "legacy" /\ q.pending = p.pending /\ q.tag = p.tag
\* The handler in slot s becomes t and the page q: the epoch grows, or s ends what
\* the page was at, or nobody was about to, or the page stays where it is.
Moved(p, ts, s, t, q) ==
  \/ q.epoch = p.epoch + 1
  \/ Calm(p, q) /\ Leads(ts[s], p)
  \/ Calm(p, q) /\ \A r \in Slots : ~Leads(ts[r], p)
  \/ /\ q.epoch = p.epoch /\ q.stage = p.stage /\ q.flow = p.flow /\ q.pending = p.pending
     /\ q.tag = p.tag /\ ~Leads(t, q)
  \/ Offers(p, q) /\ ~Leads(t, q)

(* A handler that does not lead is placed wherever a late answer of resume may
   come. *)
LEMMA FollowerPlaced ==
  ASSUME NEW t, NEW p, NEW q, CallOK(t), Fits(t, p), ~Leads(t, p), Calm(p, q)
  PROVE  t.epoch = q.epoch => Placed(t, q)
BY DEF CallOK, Fits, Leads, Calm, Placed, Resting

LEMMA SamePlace ==
  ASSUME NEW t, NEW p, NEW q, Placed(t, p), q.stage = p.stage, q.flow = p.flow,
         q.pending = p.pending, q.tag = p.tag
  PROVE  Placed(t, q)
BY DEF Placed, StartPlaced, SinglePlaced, LegacyPlaced

LEMMA OfferPlaced ==
  ASSUME NEW t, NEW p, NEW q, CallOK(t), Placed(t, p), Offers(p, q)
  PROVE  Placed(t, q)
<1>1. /\ q.stage = "recovery" /\ q.stage \in Recoveries /\ q.stage \in {"idle"} \cup Recoveries
      /\ p.stage \in {"idle", "recovery", "recovery-rotation"}
  BY DEF Offers, Resting, Recoveries
<1>2. t.by # "start"
  BY <1>1 DEF CallOK, OfStart, StartCalls, Placed, StartPlaced
<1>3. t.by # "scan" BY <1>1 DEF Placed
<1>4. t.by \notin {"cancel", "leave"} BY <1>1 DEF Placed
<1>5. t.by = "decide" => SinglePlaced(t, q) /\ LegacyPlaced(t, q)
  <2> SUFFICES ASSUME t.by = "decide" PROVE SinglePlaced(t, q) /\ LegacyPlaced(t, q) OBVIOUS
  <2>1. SinglePlaced(t, p) /\ LegacyPlaced(t, p) BY DEF Placed
  <2>2. /\ t.pc \notin {"unlock", "paint", "rendered", "link", "continue", "finishLink", "inspect"}
        /\ ~(t.pc = "revoke" /\ t.mode = "single")
    BY <1>1, <2>1 DEF SinglePlaced, AfterLink, SingleStages
  <2>3. SinglePlaced(t, q) BY <2>2 DEF SinglePlaced
  <2>4. LegacyPlaced(t, q) BY <1>1, <2>1 DEF LegacyPlaced, Offers
  <2> QED BY <2>3, <2>4
<1> QED BY <1>1, <1>2, <1>3, <1>4, <1>5 DEF Placed, Offers

LEMMA MovedTurns ==
  ASSUME NEW p, NEW ts, NEW s \in Slots, NEW t, NEW q, PageOK(p), PageOK(q),
         ts \in [Slots -> TaskStates], \A r \in Slots : CallOK(ts[r]),
         TurnsOK(p, ts), Fits(t, q), Moved(p, ts, s, t, q)
  PROVE  TurnsOK(q, [ts EXCEPT ![s] = t])
<1> DEFINE us == [ts EXCEPT ![s] = t]
<1>1. us[s] = t /\ \A r \in Slots : r # s => us[r] = ts[r] OBVIOUS
<1>2. p.epoch \in Nat /\ q.epoch \in Nat /\ \A r \in Slots : ts[r].epoch \in Nat
  BY DEF PageOK, PageStates, TaskStates
<1>3. \A r \in Slots : ts[r].epoch <= p.epoch /\ Fits(ts[r], p) BY DEF TurnsOK, Fits
<1> HIDE DEF us
<1> SUFFICES /\ \A r \in Slots : Fits(us[r], q)
             /\ \A x, r \in Slots : Leads(us[x], q) /\ Leads(us[r], q) => x = r
  BY DEF TurnsOK, Fits, us
<1>4. CASE q.epoch = p.epoch + 1
  <2>1. \A r \in Slots : r # s => us[r].epoch < q.epoch BY <1>1, <1>2, <1>3, <1>4
  <2>2. \A r \in Slots : r # s => Fits(us[r], q) /\ ~Leads(us[r], q)
    BY <1>1, <1>2, <2>1 DEF Fits, Leads
  <2> QED BY <1>1, <2>2
<1>5. CASE Calm(p, q) /\ (Leads(ts[s], p) \/ \A r \in Slots : ~Leads(ts[r], p))
  <2>1. \A r \in Slots : r # s => ~Leads(ts[r], p) BY <1>5 DEF TurnsOK
  <2>2. \A r \in Slots : r # s => Fits(us[r], q)
    BY <1>1, <1>3, <1>5, <2>1, FollowerPlaced DEF Fits, Calm
  <2>3. \A r \in Slots : r # s => ~Leads(us[r], q)
    BY <1>1, <1>5, <2>1 DEF Leads, Calm
  <2> QED BY <1>1, <2>2, <2>3
<1>6. CASE /\ q.epoch = p.epoch /\ q.stage = p.stage /\ q.flow = p.flow
           /\ q.pending = p.pending /\ q.tag = p.tag /\ ~Leads(t, q)
  <2>1. \A r \in Slots : r # s => Fits(us[r], q)
    BY <1>1, <1>3, <1>6, SamePlace DEF Fits
  <2>2. \A x, r \in Slots : Leads(us[x], q) /\ Leads(us[r], q) => x = r
    BY <1>1, <1>6 DEF Leads, TurnsOK
  <2> QED BY <1>1, <2>1, <2>2
<1>7. CASE Offers(p, q) /\ ~Leads(t, q)
  <2>1. \A r \in Slots : r # s => Fits(us[r], q)
    BY <1>1, <1>3, <1>7, OfferPlaced DEF Fits, Offers
  <2>2. \A x, r \in Slots : Leads(us[x], q) /\ Leads(us[r], q) => x = r
    BY <1>1, <1>7 DEF Leads, TurnsOK, Offers
  <2> QED BY <1>1, <2>1, <2>2
<1> QED BY <1>4, <1>5, <1>6, <1>7 DEF Moved

-----------------------------------------------------------------------------
(* What a turn may do to the attempts *)

\* Whom slot s has to look after: the reservation it was just given.
Given(t) == IF Fresh(t) THEN {t.tag} ELSE {}
\* The tags the page and s held are still held, or over, or will be ended.
Handed(p, ts, s, t, q) ==
  \A a \in {p.tag} \cup Given(ts[s]) : q.tag = a \/ Ends(t, a) \/ ~Living(a)
TaskTurn(p, ts, s, t, q, pr) ==
  /\ t \in TaskStates /\ CallOK(t) /\ t.reply = None
  /\ t.tag \in {None, p.tag, ts[s].tag}
  /\ ts[s].pc = "recognise" => t.tag \in {None, p.tag}
  /\ t.pc = "link" => t.tag \in pr /\ t.tag = p.tag
  /\ t.pc = "inspect" => ~Living(t.tag)
  /\ ts[s].reply # "working" /\ (ts[s].pc = "revoke" => ts[s].reply # None)
PageTurn(p, ts, s, q) ==
  /\ PageOK(q)
  /\ q.tag \in {None, p.tag} \cup Given(ts[s])
  /\ q.tag = p.tag /\ p.stage \in AfterLink => q.tag = None \/ q.stage \in AfterLink
ToldTurn(p, q) ==
  \/ q.told = p.told /\ q.flow = p.flow
  \/ q.told.what # "nothing shared" \/ q.flow = "legacy"
  \/ Numbered(q.told.att) /\ q.told.att \notin shared /\ ~Living(q.told.att)
\* A link begins only when the page is past it.
LinkTurn(t, q) == t.pc = "link" => q.tag = t.tag /\ q.stage \in AfterLink

LEMMA TurnTags ==
  ASSUME NEW p, NEW ts, NEW s \in Slots, NEW t, NEW q, NEW pr, Good(p, ts, pr),
         TaskTurn(p, ts, s, t, q, pr), PageTurn(p, ts, s, q), ToldTurn(p, q)
  PROVE  TagsOK(q, [ts EXCEPT ![s] = t])
<1> DEFINE us == [ts EXCEPT ![s] = t]
<1>1. \A r \in Slots : us[r] = IF r = s THEN t ELSE ts[r] BY DEF Good, StateOK
<1>2. Numbered(None) BY DEF Numbered
<1>3. Numbered(p.tag) /\ \A r \in Slots : ts[r].pc # "recognise" => Numbered(ts[r].tag)
  BY DEF Good, TagsOK
<1>4. Numbered(t.tag)
  BY <1>2, <1>3 DEF TaskTurn
<1>5. Numbered(q.tag)
  BY <1>2, <1>3 DEF PageTurn, Given, Fresh
<1> HIDE DEF us
<1> QED BY <1>1, <1>3, <1>4, <1>5 DEF Good, TagsOK, us

LEMMA TurnLinks ==
  ASSUME NEW p, NEW ts, NEW s \in Slots, NEW t, NEW q, NEW pr, Good(p, ts, pr),
         TaskTurn(p, ts, s, t, q, pr), PageTurn(p, ts, s, q), LinkTurn(t, q)
  PROVE  LinkOK(q, [ts EXCEPT ![s] = t], pr)
<1> DEFINE us == [ts EXCEPT ![s] = t]
<1>1. us[s] = t /\ \A r \in Slots : r # s => us[r] = ts[r] BY DEF Good, StateOK
<1>2. ~Fresh(t)
  BY ScreenAssumption DEF TaskTurn, Fresh
<1> HIDE DEF us
<1>3. ASSUME NEW a, NotLinked(a, ts), t.pc = "link" => a # t.tag
      PROVE  NotLinked(a, us)
  BY <1>1, <1>3 DEF NotLinked
<1>4. ASSUME q.tag # None, q.stage \notin AfterLink PROVE NotLinked(q.tag, us)
  <2>1. t.pc # "link" BY <1>4 DEF LinkTurn
  <2>2. NotLinked(q.tag, ts) BY <1>4 DEF Good, LinkOK, PageTurn, Given
  <2> QED BY <1>3, <2>1, <2>2
<1>5. ASSUME NEW r \in Slots, Fresh(us[r])
      PROVE  NotLinked(us[r].tag, us) /\ us[r].tag # q.tag /\ us[r].tag # None
  <2>1. r # s /\ us[r] = ts[r] /\ Fresh(ts[r]) BY <1>1, <1>2, <1>5
  <2>2. NotLinked(ts[r].tag, ts) /\ ts[r].tag # p.tag /\ ts[r].tag # None
    BY <2>1 DEF Good, LinkOK
  <2>3. ts[r].tag # q.tag
    BY <2>1, <2>2 DEF Good, LinkOK, PageTurn, Given
  <2>4. t.pc = "link" => ts[r].tag # t.tag BY <2>2 DEF TaskTurn
  <2> QED BY <1>3, <2>1, <2>2, <2>3, <2>4
<1>6. \A r \in Slots : us[r].pc = "link" => us[r].tag \in pr
  BY <1>1 DEF Good, LinkOK, TaskTurn
<1>7. \A r, x \in Slots : Fresh(us[r]) /\ Fresh(us[x]) /\ us[r].tag = us[x].tag => r = x
  BY <1>1, <1>2 DEF Good, LinkOK
<1> QED BY <1>4, <1>5, <1>6, <1>7 DEF Good, LinkOK, us

LEMMA TurnRest ==
  ASSUME NEW p, NEW ts, NEW s \in Slots, NEW t, NEW q, NEW pr, Good(p, ts, pr),
         TaskTurn(p, ts, s, t, q, pr), PageTurn(p, ts, s, q), ToldTurn(p, q),
         Handed(p, ts, s, t, q)
  PROVE  /\ WorkOK([ts EXCEPT ![s] = t]) /\ EndOK([ts EXCEPT ![s] = t]) /\ ToldOK(q)
         /\ HeldOK(q, [ts EXCEPT ![s] = t])
<1> DEFINE us == [ts EXCEPT ![s] = t]
<1>1. us[s] = t /\ \A r \in Slots : r # s => us[r] = ts[r] BY DEF Good, StateOK
<1>2. t.reply = None /\ None \notin {"ok", "working"} BY ScreenAssumption DEF TaskTurn
<1> HIDE DEF us
<1>3. WorkOK(us) BY <1>1, <1>2 DEF Good, WorkOK, TaskTurn
<1>4. EndOK(us) BY <1>1, <1>2 DEF Good, EndOK, TaskTurn, Ended
<1>5. ToldOK(q) BY DEF Good, ToldOK, ToldTurn
<1>6. HeldOK(q, us)
  <2> SUFFICES ASSUME NEW a \in Nat, Living(a)
               PROVE  q.tag = a \/ \E r \in Slots : (Fresh(us[r]) /\ us[r].tag = a) \/ Ends(us[r], a)
    BY DEF HeldOK
  <2>1. CASE p.tag = a BY <1>1, <2>1 DEF Handed
  <2>2. CASE Fresh(ts[s]) /\ ts[s].tag = a BY <1>1, <2>2 DEF Handed, Given
  <2>3. ~Ends(ts[s], a) BY DEF TaskTurn, Ends
  <2>4. ASSUME NEW r \in Slots, r # s, (Fresh(ts[r]) /\ ts[r].tag = a) \/ Ends(ts[r], a)
        PROVE  \E x \in Slots : (Fresh(us[x]) /\ us[x].tag = a) \/ Ends(us[x], a)
    BY <1>1, <2>4
  <2> QED BY <2>1, <2>2, <2>3, <2>4 DEF Good, HeldOK
<1> QED BY <1>3, <1>4, <1>5, <1>6 DEF us

\* Everything a turn of slot s has to keep.
Keeps1(p, ts, s, t, q, pr) ==
  /\ TaskTurn(p, ts, s, t, q, pr) /\ PageTurn(p, ts, s, q) /\ ToldTurn(p, q)
  /\ LinkTurn(t, q) /\ Handed(p, ts, s, t, q) /\ Fits(t, q)

LEMMA TurnGood ==
  ASSUME NEW p, NEW ts, NEW s \in Slots, NEW t, NEW q, NEW pr, Good(p, ts, pr),
         Keeps1(p, ts, s, t, q, pr), Moved(p, ts, s, t, q)
  PROVE  Good(q, [ts EXCEPT ![s] = t], pr)
<1>1. StateOK(q, [ts EXCEPT ![s] = t])
  BY DEF Good, StateOK, Keeps1, TaskTurn, PageTurn
<1>2. TurnsOK(q, [ts EXCEPT ![s] = t])
  BY MovedTurns DEF Good, StateOK, Keeps1, PageTurn
<1>3. /\ TagsOK(q, [ts EXCEPT ![s] = t]) /\ LinkOK(q, [ts EXCEPT ![s] = t], pr)
      /\ WorkOK([ts EXCEPT ![s] = t]) /\ EndOK([ts EXCEPT ![s] = t]) /\ ToldOK(q)
      /\ HeldOK(q, [ts EXCEPT ![s] = t])
  BY TurnTags, TurnLinks, TurnRest DEF Keeps1
<1> QED BY <1>1, <1>2, <1>3 DEF Good

(* The state after a turn of the page. *)
LEMMA StateKeeps ==
  ASSUME NEW p, NEW ts, NEW pr, Good(p, ts, pr), page' = p, tasks' = ts, pressed' = pr,
         UNCHANGED <<native, record>>
  PROVE  IInv'
<1> USE DEF Good, record
<1>1. PageOK(page)' /\ (tasks \in [Slots -> TaskStates])' BY DEF StateOK
<1>2. (\A s \in Slots : CallOK(tasks[s]))' /\ (native \in NativeStates)' BY DEF StateOK
<1>3. TurnsOK(page, tasks)' OBVIOUS
<1>4. TagsOK(page, tasks)' BY DEF TagsOK, Numbered
<1>5. LinkOK(page, tasks, pressed)' BY DEF LinkOK, NotLinked
<1>6. WorkOK(tasks)' /\ EndOK(tasks)' BY DEF WorkOK, EndOK, Living
<1>7. ToldOK(page)' /\ HeldOK(page, tasks)' BY DEF ToldOK, HeldOK, Living, Numbered
<1> QED BY <1>1, <1>2, <1>3, <1>4, <1>5, <1>6, <1>7 DEF IInv, StateOK

LEMMA TurnKeeps ==
  ASSUME NEW p, NEW ts, Good(p, ts, pressed), Turn(p, ts) PROVE IInv'
BY StateKeeps DEF Turn

-----------------------------------------------------------------------------
(* What the page's operators make of it *)

\* The fields of q, but for the entry mode.
PageIs(q, stage, epoch, flow, tag, pending, screen, shown, told) ==
  /\ q \in PageStates
  /\ q.stage = stage /\ q.epoch = epoch /\ q.flow = flow /\ q.tag = tag
  /\ q.pending = pending /\ q.screen = screen /\ q.shown = shown /\ q.told = told

LEMMA WordsIn ==
  /\ "idle" \in Stages /\ "scanning" \in Stages /\ "cancelling" \in Stages /\ "entry" \in Stages
  /\ "contact" \in Stages /\ "relay" \in Stages /\ "intent" \in Stages /\ "comparison" \in Stages
  /\ "final" \in Stages /\ "finish" \in Stages /\ "recovery" \in Stages
  /\ "recovery-rotation" \in Stages /\ SingleStages \subseteq Stages
  /\ "relay" \in Notes /\ "request" \in Notes /\ "preview" \in Notes /\ "final" \in Notes
  /\ "rotation" \in Notes /\ "recovery" \in Notes /\ "declined" \in Notes
  /\ "connected" \in Notes /\ "needs checking" \in Notes /\ "recovered" \in Notes
  /\ "interrupted" \in Notes /\ "nothing shared" \in Notes /\ None \in Tags
BY DEF Stages, Notes, Recoveries, Tags

LEMMA PageWords ==
  /\ {"idle", "scanning", "cancelling", "entry", "contact", "relay", "intent", "comparison",
      "final", "finish", "single-unlock", "single-preview", "single-ready", "single-link",
      "single-comparison", "single-finish", "recovery", "recovery-rotation"} = Stages
  /\ {"applications", "home", "pairing-enter", "pairing-result", "pairing-wait",
      "pairing-consent"} = Views
  /\ TRUE \in BOOLEAN /\ FALSE \in BOOLEAN
  /\ None \in Tags /\ Nothing \in [what : Notes, att : Tags]
  /\ Nothing.what = None /\ Nothing.att = None
BY DEF Stages, Views, SingleStages, AfterLink, Recoveries, PairingScreens, Tags, Nothing, Notes

LEMMA NoteIs ==
  ASSUME NEW what \in Notes, NEW att \in Tags
  PROVE  /\ [what |-> what, att |-> att] \in [what : Notes, att : Tags]
         /\ [what |-> what, att |-> att].what = what /\ [what |-> what, att |-> att].att = att
OBVIOUS

LEMMA StoppedIs ==
  ASSUME NEW p \in PageStates
  PROVE  PageIs(Stopped(p), "cancelling", p.epoch + 1, p.flow, None, TRUE, p.screen, p.shown, p.told)
<1> DEFINE e == p.epoch + 1
<1>1. Stopped(p) = [[[[p EXCEPT !.epoch = e] EXCEPT !.tag = None] EXCEPT !.stage = "cancelling"]
                    EXCEPT !.pending = TRUE]
  BY DEF Stopped
<1>2. e \in Nat BY DEF PageStates
<1> HIDE DEF e, Stopped
<1>3. "cancelling" \in Stages BY PageWords
<1>4. PageIs(Stopped(p), "cancelling", e, p.flow, None, TRUE, p.screen, p.shown, p.told)
  BY <1>1, <1>2, <1>3, PageWords DEF PageStates, PageIs
<1> QED BY <1>4 DEF e

LEMMA ScreenIs ==
  ASSUME NEW p \in PageStates, NEW name \in Views
  PROVE  PageIs(Screen(p, name), p.stage, p.epoch, p.flow, p.tag, p.pending, name, p.shown, Nothing)
<1>1. Screen(p, name) = [[p EXCEPT !.screen = name] EXCEPT !.told = Nothing] BY DEF Screen
<1> HIDE DEF Screen, Nothing
<1> QED BY <1>1, PageWords DEF PageStates, PageIs

LEMMA SettledIs ==
  ASSUME NEW p \in PageStates
  PROVE  PageIs(Settled(p), p.stage, p.epoch, p.flow, p.tag, FALSE, p.screen, p.shown, p.told)
BY PageWords DEF Settled, PageStates, PageIs

LEMMA StageIs ==
  ASSUME NEW p \in PageStates, NEW stage \in Stages
  PROVE  PageIs([p EXCEPT !.stage = stage], stage, p.epoch, p.flow, p.tag, p.pending, p.screen,
                p.shown, p.told)
BY DEF PageStates, PageIs

LEMMA PendingIs ==
  ASSUME NEW p \in PageStates, NEW b \in BOOLEAN, NEW stage \in Stages
  PROVE  /\ PageIs([p EXCEPT !.pending = b], p.stage, p.epoch, p.flow, p.tag, b, p.screen,
                   p.shown, p.told)
         /\ PageIs([p EXCEPT !.pending = b, !.stage = stage], stage, p.epoch, p.flow, p.tag, b,
                   p.screen, p.shown, p.told)
         /\ PageIs([p EXCEPT !.stage = stage, !.pending = b], stage, p.epoch, p.flow, p.tag, b,
                   p.screen, p.shown, p.told)
BY DEF PageStates, PageIs

LEMMA TagIs ==
  ASSUME NEW p \in PageStates, NEW tag \in Tags, NEW stage \in Stages
  PROVE  /\ PageIs([p EXCEPT !.tag = tag, !.stage = stage], stage, p.epoch, p.flow, tag, p.pending,
                   p.screen, p.shown, p.told)
         /\ PageIs([p EXCEPT !.stage = stage, !.tag = tag], stage, p.epoch, p.flow, tag, p.pending,
                   p.screen, p.shown, p.told)
BY DEF PageStates, PageIs

LEMMA EpochIs ==
  ASSUME NEW p \in PageStates, NEW stage \in Stages, NEW entry \in {"full", "manual", "legacy"}
  PROVE  /\ PageIs([p EXCEPT !.epoch = @ + 1, !.stage = stage], stage, p.epoch + 1, p.flow, p.tag,
                   p.pending, p.screen, p.shown, p.told)
         /\ PageIs([p EXCEPT !.epoch = @ + 1, !.entry = entry], p.stage, p.epoch + 1, p.flow, p.tag,
                   p.pending, p.screen, p.shown, p.told)
<1> DEFINE e == p.epoch + 1
<1>1. e \in Nat BY DEF PageStates
<1>2. /\ [p EXCEPT !.epoch = @ + 1, !.stage = stage] = [[p EXCEPT !.epoch = e] EXCEPT !.stage = stage]
      /\ [p EXCEPT !.epoch = @ + 1, !.entry = entry] = [[p EXCEPT !.epoch = e] EXCEPT !.entry = entry]
  OBVIOUS
<1> HIDE DEF e
<1>3. PageIs([[p EXCEPT !.epoch = e] EXCEPT !.stage = stage], stage, e, p.flow, p.tag,
             p.pending, p.screen, p.shown, p.told)
  BY <1>1 DEF PageStates, PageIs
<1>4. PageIs([[p EXCEPT !.epoch = e] EXCEPT !.entry = entry], p.stage, e, p.flow, p.tag,
             p.pending, p.screen, p.shown, p.told)
  BY <1>1 DEF PageStates, PageIs
<1> QED BY <1>2, <1>3, <1>4 DEF e

LEMMA ForgetIs ==
  ASSUME NEW p \in PageStates
  PROVE  PageIs(Forget(p), "idle", p.epoch + 1, "single", None, FALSE, p.screen, p.shown, p.told)
<1> DEFINE e == p.epoch + 1
<1>1. e \in Nat BY DEF PageStates
<1> DEFINE x == [[[p EXCEPT !.tag = None] EXCEPT !.flow = "single"] EXCEPT !.epoch = e]
<1>2. Forget(p) = [[[x EXCEPT !.pending = FALSE] EXCEPT !.entry = "full"] EXCEPT !.stage = "idle"]
  BY DEF Forget
<1> HIDE DEF e, Forget
<1>3. "idle" \in Stages BY PageWords
<1>4. PageIs(x, p.stage, e, "single", None, p.pending, p.screen, p.shown, p.told)
  BY <1>1, PageWords DEF PageStates, PageIs
<1> HIDE DEF x
<1>5. PageIs([x EXCEPT !.pending = FALSE], x.stage, e, "single", None, FALSE, x.screen, x.shown,
             x.told)
  <2>1. x \in PageStates /\ FALSE \in BOOLEAN BY <1>4 DEF PageIs
  <2> QED BY <1>4, <2>1 DEF PageStates, PageIs
<1> DEFINE y == [x EXCEPT !.pending = FALSE]
<1> HIDE DEF y
<1>6. PageIs([y EXCEPT !.entry = "full"], y.stage, e, "single", None, FALSE, p.screen, p.shown, p.told)
  BY <1>4, <1>5 DEF PageStates, PageIs, y
<1> DEFINE z == [y EXCEPT !.entry = "full"]
<1> HIDE DEF z
<1>7. PageIs([z EXCEPT !.stage = "idle"], "idle", e, "single", None, FALSE, p.screen, p.shown, p.told)
  BY <1>3, <1>6, StageIs DEF PageIs, z
<1>8. Forget(p) = [z EXCEPT !.stage = "idle"] BY <1>2 DEF y, z
<1> QED BY <1>7, <1>8 DEF e

LEMMA EnteringIs ==
  ASSUME NEW p \in PageStates, NEW mode \in {"single", "legacy"}
  PROVE  PageIs(Entering(p, mode), "entry", p.epoch + 1, mode, None, p.pending, "pairing-wait",
                p.shown, Nothing)
<1> DEFINE e == p.epoch + 1
           x == Screen(p, "pairing-wait")
<1>1. e \in Nat /\ x.epoch = p.epoch
  BY PageWords, ScreenIs DEF PageStates, PageIs
<1>2. PageIs(x, p.stage, p.epoch, p.flow, p.tag, p.pending, "pairing-wait", p.shown, Nothing)
  BY PageWords, ScreenIs
<1>3. Entering(p, mode) = [[[[x EXCEPT !.epoch = e] EXCEPT !.flow = mode] EXCEPT !.tag = None]
                           EXCEPT !.stage = "entry"]
  BY <1>1 DEF Entering
<1> HIDE DEF e, x, Entering, Nothing
<1>4. "entry" \in Stages BY PageWords
<1>5. PageIs([x EXCEPT !.epoch = e], p.stage, e, p.flow, p.tag, p.pending, "pairing-wait",
             p.shown, Nothing)
  BY <1>1, <1>2 DEF PageStates, PageIs
<1> DEFINE y == [x EXCEPT !.epoch = e]
<1> HIDE DEF y
<1>6. PageIs([y EXCEPT !.flow = mode], p.stage, e, mode, p.tag, p.pending, "pairing-wait",
             p.shown, Nothing)
  BY <1>5 DEF PageStates, PageIs, y
<1> DEFINE z == [y EXCEPT !.flow = mode]
<1> HIDE DEF z
<1>7. PageIs([[z EXCEPT !.tag = None] EXCEPT !.stage = "entry"], "entry", e, mode, None, p.pending,
             "pairing-wait", p.shown, Nothing)
  <2>1. None \in Tags BY PageWords
  <2>2. PageIs([z EXCEPT !.tag = None], p.stage, e, mode, None, p.pending, "pairing-wait", p.shown,
               Nothing)
    BY <1>6, <2>1 DEF PageStates, PageIs, z
  <2> QED BY <1>4, <2>2, StageIs DEF PageIs
<1>8. Entering(p, mode) = [[z EXCEPT !.tag = None] EXCEPT !.stage = "entry"] BY <1>3 DEF y, z
<1> QED BY <1>7, <1>8 DEF e

LEMMA ConsentIs ==
  ASSUME NEW p \in PageStates, NEW what \in Notes, NEW att \in Tags
  PROVE  PageIs(Consent(p, what, att), p.stage, p.epoch, p.flow, p.tag, p.pending,
                "pairing-consent", [what |-> what, att |-> att], Nothing)
<1> DEFINE x == Screen(p, "pairing-consent")
           note == [what |-> what, att |-> att]
<1>1. PageIs(x, p.stage, p.epoch, p.flow, p.tag, p.pending, "pairing-consent", p.shown, Nothing)
  BY PageWords, ScreenIs
<1>2. Consent(p, what, att) = [x EXCEPT !.shown = note] BY DEF Consent
<1>3. note \in [what : Notes, att : Tags] BY NoteIs
<1> HIDE DEF x, note, Nothing, Consent
<1>4. PageIs(Consent(p, what, att), p.stage, p.epoch, p.flow, p.tag, p.pending,
             "pairing-consent", note, Nothing)
  BY <1>1, <1>2, <1>3 DEF PageStates, PageIs
<1> QED BY <1>4 DEF note

LEMMA ConsentAt ==
  ASSUME NEW p \in PageStates, NEW stage \in Stages, NEW what \in Notes, NEW att \in Tags
  PROVE  PageIs(Consent([p EXCEPT !.stage = stage], what, att), stage, p.epoch, p.flow, p.tag,
                p.pending, "pairing-consent", [what |-> what, att |-> att], Nothing)
<1> DEFINE x == [p EXCEPT !.stage = stage]
<1>1. PageIs(x, stage, p.epoch, p.flow, p.tag, p.pending, p.screen, p.shown, p.told) BY StageIs
<1> HIDE DEF x
<1>2. x \in PageStates BY <1>1 DEF PageIs
<1>3. PageIs(Consent(x, what, att), x.stage, x.epoch, x.flow, x.tag, x.pending,
             "pairing-consent", [what |-> what, att |-> att], Nothing)
  BY <1>2, ConsentIs
<1>4. PageIs(Consent(x, what, att), stage, p.epoch, p.flow, p.tag, p.pending,
             "pairing-consent", [what |-> what, att |-> att], Nothing)
  BY <1>1, <1>3 DEF PageIs
<1> QED BY <1>4 DEF x

LEMMA ResultIs ==
  ASSUME NEW p \in PageStates, NEW what \in Notes, NEW att \in Tags
  PROVE  PageIs(Result(p, what, att), p.stage, p.epoch, p.flow, p.tag, p.pending,
                "pairing-result", p.shown, [what |-> what, att |-> att])
<1> DEFINE note == [what |-> what, att |-> att]
<1>1. Result(p, what, att) = [[p EXCEPT !.told = note] EXCEPT !.screen = "pairing-result"]
  BY DEF Result
<1>2. note \in [what : Notes, att : Tags] /\ "pairing-result" \in Views BY NoteIs, PageWords
<1> HIDE DEF note, Result
<1>3. PageIs(Result(p, what, att), p.stage, p.epoch, p.flow, p.tag, p.pending,
             "pairing-result", p.shown, note)
  BY <1>1, <1>2 DEF PageStates, PageIs
<1> QED BY <1>3 DEF note

LEMMA ResultAt ==
  ASSUME NEW p \in PageStates, NEW stage \in Stages, NEW what \in Notes, NEW att \in Tags
  PROVE  PageIs(Result([p EXCEPT !.stage = stage], what, att), stage, p.epoch, p.flow, p.tag,
                p.pending, "pairing-result", p.shown, [what |-> what, att |-> att])
<1> DEFINE x == [p EXCEPT !.stage = stage]
<1>1. PageIs(x, stage, p.epoch, p.flow, p.tag, p.pending, p.screen, p.shown, p.told) BY StageIs
<1> HIDE DEF x
<1>2. x \in PageStates BY <1>1 DEF PageIs
<1>3. PageIs(Result(x, what, att), x.stage, x.epoch, x.flow, x.tag, x.pending,
             "pairing-result", x.shown, [what |-> what, att |-> att])
  BY <1>2, ResultIs
<1>4. PageIs(Result(x, what, att), stage, p.epoch, p.flow, p.tag, p.pending,
             "pairing-result", p.shown, [what |-> what, att |-> att])
  BY <1>1, <1>3 DEF PageIs
<1> QED BY <1>4 DEF x

LEMMA SettledOf ==
  ASSUME NEW q, NEW stage, NEW epoch, NEW flow, NEW tag, NEW pending, NEW screen, NEW shown,
         NEW told, PageIs(q, stage, epoch, flow, tag, pending, screen, shown, told)
  PROVE  PageIs(Settled(q), stage, epoch, flow, tag, FALSE, screen, shown, told)
<1>1. PageIs(Settled(q), q.stage, q.epoch, q.flow, q.tag, FALSE, q.screen, q.shown, q.told)
  BY SettledIs DEF PageIs
<1> QED BY <1>1 DEF PageIs

LEMMA NothingSharedIs ==
  ASSUME NEW p \in PageStates, NEW att \in Tags
  PROVE  PageIs(NothingShared(p, att), "idle", p.epoch, p.flow, None, p.pending,
                "pairing-enter", p.shown, [what |-> "nothing shared", att |-> att])
<1> DEFINE note == [what |-> "nothing shared", att |-> att]
<1>1. NothingShared(p, att) = [[[[p EXCEPT !.stage = "idle"] EXCEPT !.tag = None]
                                EXCEPT !.screen = "pairing-enter"] EXCEPT !.told = note]
  BY DEF NothingShared
<1>2. "nothing shared" \in Notes BY DEF Notes
<1>3. note \in [what : Notes, att : Tags] BY <1>2, NoteIs
<1>4. "pairing-enter" \in Views /\ "idle" \in Stages BY PageWords
<1> HIDE DEF note, NothingShared
<1>5. PageIs(NothingShared(p, att), "idle", p.epoch, p.flow, None, p.pending,
             "pairing-enter", p.shown, note)
  BY <1>1, <1>3, <1>4, PageWords DEF PageStates, PageIs
<1> QED BY <1>5 DEF note

-----------------------------------------------------------------------------
(* The handlers that wait *)

TaskIs(t, pc, by, epoch, tag, mode, reply) ==
  /\ t \in TaskStates
  /\ t.pc = pc /\ t.by = by /\ t.epoch = epoch /\ t.tag = tag /\ t.mode = mode /\ t.reply = reply

LEMMA NoneIs ==
  /\ None \notin {"start", "scan", "decide", "cancel", "leave", "forget", "foreground", "home"}
  /\ None \notin {"ok", "error", "working", "approval", "trusted", "some", "none", "rotation"}
  /\ None \notin {"single", "legacy"} /\ None # "nothing shared" /\ None \notin Nat
  /\ None \notin Slots
BY ScreenAssumption

LEMMA IdleIs == TaskIs(Idle, "idle", None, 0, None, None, None) /\ CallOK(Idle)
BY NoneIs DEF TaskIs, Idle, TaskStates, Calls, Tags, Replies, CallOK

LEMMA WaitingIs ==
  ASSUME NEW pc \in Calls, NEW by, NEW epoch \in Nat,
         by \in {"start", "scan", "decide", "cancel", "leave", "forget", "foreground", "home"}
  PROVE  TaskIs(Waiting(pc, by, epoch), pc, by, epoch, None, None, None)
<1> DEFINE i == Idle
<1>1. TaskIs(i, "idle", None, 0, None, None, None) BY IdleIs
<1>2. Waiting(pc, by, epoch) = [[[i EXCEPT !.pc = pc] EXCEPT !.by = by] EXCEPT !.epoch = epoch]
  BY DEF Waiting
<1> HIDE DEF i, Waiting, Calls
<1> QED BY <1>1, <1>2 DEF TaskIs, TaskStates

LEMMA TaggedIs ==
  ASSUME NEW t \in TaskStates, NEW tag \in Tags
  PROVE  TaskIs([t EXCEPT !.tag = tag], t.pc, t.by, t.epoch, tag, t.mode, t.reply)
BY DEF TaskIs, TaskStates

LEMMA RevocationIs ==
  ASSUME NEW p \in PageStates, NEW by \in {"cancel", "leave", "forget"}
  PROVE  /\ TaskIs(Revocation(p, by), "revoke", by, p.epoch + 1, p.tag, p.flow, None)
         /\ CallOK(Revocation(p, by))
<1> DEFINE w == Waiting("revoke", by, p.epoch + 1)
<1>1. "revoke" \in Calls /\ p.epoch + 1 \in Nat BY DEF Calls, PageStates
<1>2. TaskIs(w, "revoke", by, p.epoch + 1, None, None, None) BY <1>1, WaitingIs
<1>3. Revocation(p, by) = [[w EXCEPT !.tag = p.tag] EXCEPT !.mode = p.flow] BY DEF Revocation
<1> HIDE DEF w, Revocation
<1>4. TaskIs(Revocation(p, by), "revoke", by, p.epoch + 1, p.tag, p.flow, None)
  BY <1>2, <1>3 DEF TaskIs, TaskStates, PageStates
<1> QED BY <1>4, NoneIs DEF TaskIs, CallOK, OfStart, OfDecide

LEMMA AwaitIs ==
  ASSUME NEW t \in TaskStates, NEW pc \in Calls
  PROVE  TaskIs([t EXCEPT !.pc = pc, !.reply = None], pc, t.by, t.epoch, t.tag, t.mode, None)
<1> HIDE DEF Calls
<1>1. None \in Replies BY DEF Replies
<1> QED BY <1>1 DEF TaskIs, TaskStates

(* A revocation that a handler goes on with. *)
LEMMA RevokingIs ==
  ASSUME NEW t \in TaskStates, NEW tag \in Tags, NEW mode \in {"single", "legacy"}
  PROVE  TaskIs([t EXCEPT !.pc = "revoke", !.tag = tag, !.mode = mode, !.reply = None],
                "revoke", t.by, t.epoch, tag, mode, None)
<1> DEFINE u == [[[[t EXCEPT !.pc = "revoke"] EXCEPT !.tag = tag] EXCEPT !.mode = mode]
                 EXCEPT !.reply = None]
<1>1. "revoke" \in Calls /\ None \in Replies BY DEF Calls, Replies
<1> HIDE DEF Calls, Replies, Tags
<1>2. TaskIs(u, "revoke", t.by, t.epoch, tag, mode, None) BY <1>1 DEF TaskIs, TaskStates
<1>3. [t EXCEPT !.pc = "revoke", !.tag = tag, !.mode = mode, !.reply = None] = u OBVIOUS
<1> QED BY <1>2, <1>3

LEMMA RevokingSame ==
  ASSUME NEW t \in TaskStates, NEW tag, tag = t.tag, NEW mode
  PROVE  [t EXCEPT !.pc = "revoke", !.mode = mode, !.reply = None]
           = [t EXCEPT !.pc = "revoke", !.tag = tag, !.mode = mode, !.reply = None]
BY DEF TaskStates

LEMMA LateIs ==
  ASSUME NEW t \in TaskStates
  PROVE  TaskIs([t EXCEPT !.pc = "revoke", !.by = "forget", !.mode = "single", !.reply = None],
                "revoke", "forget", t.epoch, t.tag, "single", None)
<1> DEFINE u == [[[[t EXCEPT !.pc = "revoke"] EXCEPT !.by = "forget"] EXCEPT !.mode = "single"]
                 EXCEPT !.reply = None]
<1>1. "revoke" \in Calls /\ None \in Replies BY DEF Calls, Replies
<1> HIDE DEF Calls, Replies, Tags
<1>2. TaskIs(u, "revoke", "forget", t.epoch, t.tag, "single", None) BY <1>1 DEF TaskIs, TaskStates
<1>3. [t EXCEPT !.pc = "revoke", !.by = "forget", !.mode = "single", !.reply = None] = u OBVIOUS
<1> QED BY <1>2, <1>3

LEMMA LaunchIs ==
  ASSUME NEW ts, NEW t, Room(ts)
  PROVE  \E s \in Slots : ts[s] = Idle /\ Launch(ts, t) = [ts EXCEPT ![s] = t]
<1> DEFINE s == CHOOSE s \in Slots : ts[s] = Idle
<1>1. s \in Slots /\ ts[s] = Idle BY DEF Room
<1>2. Launch(ts, t) = [ts EXCEPT ![s] = t] BY DEF Launch
<1> QED BY <1>1, <1>2

(* Who made a call is known by the call, but for a revocation and a redrawing. *)
LEMMA CallerIs ==
  ASSUME NEW t \in TaskStates, CallOK(t)
  PROVE  /\ t.pc \in {"begin", "recognise", "contact"} => t.by = "start"
         /\ t.pc \in {"camera", "stopCamera"} => t.by = "scan"
         /\ t.pc \in SingleCalls \cup {"paint", "paintBeforeCompare", "inspect"} => t.by = "decide"
         /\ t.pc \in LegacyCalls \ {"relayApprove"} => t.by = "decide"
         /\ t.pc = "relayApprove" => t.by \in {"start", "decide"}
         /\ t.pc = "resume" => t.by = "foreground"
BY DEF TaskStates, CallOK, OfStart, OfDecide, StartCalls, SingleCalls, LegacyCalls

(* A handler that is not fenced is where it belongs. *)
LEMMA Now ==
  ASSUME IInv, NEW s \in Slots
  PROVE  /\ tasks[s] \in TaskStates /\ CallOK(tasks[s]) /\ page \in PageStates /\ PageOK(page)
         /\ tasks[s].epoch \in Nat /\ page.epoch \in Nat /\ tasks[s].tag \in Tags
         /\ page.tag \in Tags /\ page.stage \in Stages /\ page.shown.att \in Tags
         /\ Current(s) => Placed(tasks[s], page)
         /\ \A r \in Slots : Leads(tasks[r], page) /\ Leads(tasks[s], page) => r = s
BY DEF IInv, Good, StateOK, PageOK, TurnsOK, Current, TaskStates, PageStates

-----------------------------------------------------------------------------
(* The turns a handler takes *)

\* The page after a turn that takes nothing up.
PageStep(p, q) ==
  /\ PageOK(q) /\ ToldTurn(p, q)
  /\ q.tag \in {None, p.tag} /\ (q.tag = p.tag \/ ~Living(p.tag))
  /\ q.tag = p.tag /\ p.stage \in AfterLink => q.tag = None \/ q.stage \in AfterLink
\* s ends what the page was at, or the page stays where it is.
Onward(p, s, q) ==
  \/ Calm(p, q) /\ Leads(tasks[s], p)
  \/ /\ q.epoch = p.epoch /\ q.stage = p.stage /\ q.flow = p.flow /\ q.pending = p.pending
     /\ q.tag = p.tag
  \/ Offers(p, q)
Answered(t) == t.reply \notin {None, "working"} /\ ~Fresh(t)

LEMMA IdlePlaced == ASSUME NEW p \in PageStates PROVE Fits(Idle, p) /\ ~Leads(Idle, p)
<1>1. Idle.pc = "idle" /\ Idle.by = None /\ Idle.epoch = 0 BY IdleIs DEF TaskIs
<1>2. Placed(Idle, p) BY <1>1, NoneIs DEF Placed
<1>3. 0 <= p.epoch BY DEF PageStates
<1>4. ~Leads(Idle, p) BY <1>1, NoneIs DEF Leads
<1> QED BY <1>1, <1>2, <1>3, <1>4 DEF Fits

LEMMA DoneGood ==
  ASSUME IInv, NEW s \in Slots, NEW q, Answered(tasks[s]), PageStep(page, q), Onward(page, s, q)
  PROVE  Good(q, Done(s), pressed)
<1>1. q \in PageStates /\ PageOK(q) BY DEF PageStep, PageOK
<1>2. TaskTurn(page, tasks, s, Idle, q, pressed)
  BY IdleIs DEF TaskTurn, TaskIs, Answered
<1>3. PageTurn(page, tasks, s, q) BY <1>1 DEF PageTurn, PageStep
<1>4. Handed(page, tasks, s, Idle, q) BY DEF Handed, Given, Answered, PageStep
<1>5. LinkTurn(Idle, q) BY IdleIs DEF LinkTurn, TaskIs
<1>6. Moved(page, tasks, s, Idle, q) BY <1>1, IdlePlaced DEF Moved, Onward
<1> QED BY <1>1, <1>2, <1>3, <1>4, <1>5, <1>6, IdlePlaced, TurnGood
        DEF Keeps1, PageStep, IInv, Done

LEMMA DoneKeeps ==
  ASSUME IInv, NEW s \in Slots, NEW q, Answered(tasks[s]), PageStep(page, q), Onward(page, s, q),
         Turn(q, Done(s))
  PROVE  IInv'
BY DoneGood, TurnKeeps

(* A handler that goes on waits for its next call. *)
LEMMA NextCallKeeps ==
  ASSUME IInv, NEW s \in Slots, NEW q, NEW t, Answered(tasks[s]), PageStep(page, q),
         Onward(page, s, q), t \in TaskStates, CallOK(t), t.reply = None,
         t.tag \in {None, page.tag, tasks[s].tag}, t.pc # "link",
         tasks[s].pc = "recognise" => t.tag \in {None, page.tag},
         t.pc = "inspect" => ~Living(t.tag),
         Fits(t, q), Leads(t, q) => Calm(page, q) /\ Leads(tasks[s], page),
         Turn(q, [tasks EXCEPT ![s] = t])
  PROVE  IInv'
<1>1. q \in PageStates /\ PageOK(q) BY DEF PageStep, PageOK
<1>2. TaskTurn(page, tasks, s, t, q, pressed) BY DEF TaskTurn, Answered
<1>3. PageTurn(page, tasks, s, q) BY <1>1 DEF PageTurn, PageStep
<1>4. Handed(page, tasks, s, t, q) BY DEF Handed, Given, Answered, PageStep
<1>5. LinkTurn(t, q) BY DEF LinkTurn
<1>6. Moved(page, tasks, s, t, q) BY DEF Moved, Onward
<1>7. Good(q, [tasks EXCEPT ![s] = t], pressed)
  BY <1>1, <1>2, <1>3, <1>4, <1>5, <1>6, TurnGood DEF Keeps1, PageStep, IInv
<1> QED BY <1>7, TurnKeeps

\* A call that a click or an event makes: nobody was about to end what the page is
\* at, or the epoch fences whoever was, or the call ends nothing.
LEMMA LaunchGood ==
  ASSUME NEW p, NEW ts, NEW pr, Good(p, ts, pr), Room(ts),
         NEW t, NEW q, t \in TaskStates, CallOK(t), t.reply = None, t.tag \in {None, p.tag},
         t.pc # "inspect", t.pc = "link" => t.tag \in pr /\ t.tag = p.tag /\ q.stage \in AfterLink /\ q.tag = t.tag,
         PageOK(q), ToldTurn(p, q), q.tag \in {None, p.tag},
         q.tag = p.tag \/ Ends(t, p.tag) \/ ~Living(p.tag),
         q.tag = p.tag /\ p.stage \in AfterLink => q.tag = None \/ q.stage \in AfterLink,
         Fits(t, q),
         \/ q.epoch = p.epoch + 1
         \/ Calm(p, q) /\ \A r \in Slots : ~Leads(ts[r], p)
         \/ q = p /\ ~Leads(t, q)
  PROVE  Good(q, Launch(ts, t), pr)
<1>1. PICK s \in Slots : ts[s] = Idle /\ Launch(ts, t) = [ts EXCEPT ![s] = t] BY LaunchIs
<1>2. TaskTurn(p, ts, s, t, q, pr)
  BY <1>1, IdleIs, NoneIs DEF TaskTurn, TaskIs
<1>3. Given(ts[s]) = {} BY <1>1, IdleIs DEF Given, Fresh, TaskIs
<1>4. PageTurn(p, ts, s, q) BY <1>3 DEF PageTurn
<1>5. Handed(p, ts, s, t, q) BY <1>3 DEF Handed
<1>6. Moved(p, ts, s, t, q) BY DEF Moved
<1>7. LinkTurn(t, q) BY DEF LinkTurn
<1>8. Keeps1(p, ts, s, t, q, pr) BY <1>2, <1>4, <1>5, <1>7 DEF Keeps1
<1>9. Good(q, [ts EXCEPT ![s] = t], pr) BY <1>6, <1>8, TurnGood
<1> QED BY <1>1, <1>9

(* A turn that makes and ends no call. *)
LEMMA PageOnlyGood ==
  ASSUME NEW p, NEW ts, NEW pr, Good(p, ts, pr), NEW q, PageOK(q), ToldTurn(p, q), q.tag = p.tag,
         q.tag # None => q.stage = p.stage,
         \/ q.epoch = p.epoch + 1
         \/ q.epoch = p.epoch /\ q.stage = p.stage /\ q.flow = p.flow /\ q.pending = p.pending
  PROVE  Good(q, ts, pr)
<1>1. p.epoch \in Nat /\ \A s \in Slots : ts[s].epoch \in Nat
  BY DEF Good, StateOK, PageOK, PageStates, TaskStates
<1>2. TurnsOK(q, ts)
  <2>1. CASE q.epoch = p.epoch + 1
    <3>1. \A s \in Slots : ts[s].epoch < q.epoch BY <1>1, <2>1 DEF Good, TurnsOK
    <3> QED BY <1>1, <2>1, <3>1 DEF TurnsOK, Leads
  <2>2. CASE q.epoch = p.epoch /\ q.stage = p.stage /\ q.flow = p.flow /\ q.pending = p.pending
    BY <2>2, SamePlace DEF Good, TurnsOK, Leads
  <2> QED BY <2>1, <2>2
<1>3. TagsOK(q, ts) BY DEF Good, TagsOK, ToldTurn, Numbered
<1>4. LinkOK(q, ts, pr) BY DEF Good, LinkOK
<1>5. ToldOK(q) BY DEF Good, ToldOK, ToldTurn
<1>6. HeldOK(q, ts) BY DEF Good, HeldOK
<1> QED BY <1>2, <1>3, <1>4, <1>5, <1>6 DEF Good, StateOK

-----------------------------------------------------------------------------
(* Handlers of the entry and of the two-decision flow *)

(* A step of a page that holds no tag. *)
LEMMA UntaggedStep ==
  ASSUME NEW p, NEW q, PageOK(p), p.tag = None,
         NEW stage, NEW pending, NEW screen, NEW shown, NEW told,
         PageIs(q, stage, p.epoch, p.flow, p.tag, pending, screen, shown, told),
         stage \notin SingleStages, stage \in Recoveries => p.flow = "legacy",
         told = p.told \/ (told.what # "nothing shared" /\ told.att = None)
  PROVE  PageStep(p, q)
BY DEF PageStep, PageOK, PageIs, ToldTurn

LEMMA Untagged ==
  ASSUME NEW p, PageOK(p), p.stage \notin {"contact"} \cup SingleStages \/ p.flow = "legacy"
  PROVE  p.tag = None
BY DEF PageOK

\* The told of a page that shows a screen or the end of a legacy flow.
LEMMA NotesAre ==
  /\ Nothing.what # "nothing shared" /\ Nothing.att = None
  /\ {"relay", "request", "preview", "final", "rotation", "recovery", "declined", "connected",
      "needs checking", "recovered", "interrupted", "nothing shared"} \subseteq Notes
BY NoneIs DEF Nothing, Notes

\* s leads and ends: its page is q.
LEMMA LeadDone ==
  ASSUME IInv, NEW s \in Slots, NEW q, Answered(tasks[s]), PageStep(page, q),
         Current(s), tasks[s].by \in {"start", "decide", "scan", "cancel", "leave"},
         q.epoch = page.epoch, page.stage \notin Resting \/ q.stage \in Resting,
         Turn(q, Done(s))
  PROVE  IInv'
BY DoneKeeps DEF Onward, Calm, Leads, Current

LEMMA StagesApart ==
  /\ "idle" \notin SingleStages \cup Recoveries /\ "scanning" \notin SingleStages \cup Recoveries
  /\ "cancelling" \notin SingleStages \cup Recoveries /\ "entry" \notin SingleStages \cup Recoveries
  /\ "contact" \notin SingleStages \cup Recoveries /\ "relay" \notin SingleStages \cup Recoveries
  /\ "intent" \notin SingleStages \cup Recoveries /\ "comparison" \notin SingleStages \cup Recoveries
  /\ "final" \notin SingleStages \cup Recoveries /\ "finish" \notin SingleStages \cup Recoveries
  /\ \A x \in Recoveries : x \notin SingleStages
  /\ \A x \in SingleStages : x \notin Resting /\ x # "contact"
  /\ "idle" \in Resting /\ Recoveries \subseteq Resting
  /\ AfterLink \subseteq SingleStages
BY DEF SingleStages, AfterLink, Recoveries, Resting

LEMMA ScanEndKeeps ==
  ASSUME IInv, NEW s \in Slots, ScanFails(s) \/ CameraStopped(s) \/ (Scanned(s) /\ page.entry # "full")
  PROVE  IInv'
<1> DEFINE q == [page EXCEPT !.stage = "idle"]
<1>1. Turn(q, Done(s)) /\ Answered(tasks[s]) /\ Current(s) /\ tasks[s].by = "scan"
  BY Now, CallerIs, NoneIs
  DEF ScanFails, CameraStopped, Scanned, Got, Answer, Answered, Fresh
<1>2. page.stage \in {"scanning", "cancelling"} BY <1>1, Now DEF Placed
<1>3. page.tag = None BY <1>2, Now, Untagged, StagesApart
<1>4. PageIs(q, "idle", page.epoch, page.flow, page.tag, page.pending, page.screen, page.shown,
             page.told)
  BY Now, PageWords, StageIs
<1>5. PageStep(page, q) BY <1>3, <1>4, Now, UntaggedStep, StagesApart
<1>6. q.epoch = page.epoch /\ q.stage = "idle" BY <1>4 DEF PageIs
<1> HIDE DEF q
<1> QED BY <1>1, <1>5, <1>6, LeadDone, StagesApart

(* A scanned invitation begins an attempt in the scan's place. *)
LEMMA ScannedKeeps ==
  ASSUME IInv, NEW s \in Slots, Scanned(s), page.entry = "full" PROVE IInv'
<1> DEFINE q == Entering(page, "single")
           t == Waiting("begin", "start", page.epoch + 1)
<1>1. Turn(q, [tasks EXCEPT ![s] = t]) /\ Answered(tasks[s]) /\ Current(s) /\ tasks[s].by = "scan"
      /\ tasks[s].pc = "camera"
  BY Now, CallerIs, NoneIs DEF Scanned, Got, Answer, Answered, Fresh
<1>2. page.stage = "scanning" BY <1>1, Now DEF Placed
<1>3. page.tag = None BY <1>2, Now, Untagged, StagesApart
<1>4. PageIs(q, "entry", page.epoch + 1, "single", None, page.pending, "pairing-wait", page.shown,
             Nothing)
  BY Now, EnteringIs
<1>5. TaskIs(t, "begin", "start", page.epoch + 1, None, None, None)
  BY Now, WaitingIs DEF Calls, StartCalls
<1> HIDE DEF q, t
<1>6. PageOK(q) BY <1>4, StagesApart DEF PageOK, PageIs
<1>7. CallOK(t) BY <1>5, NoneIs DEF CallOK, TaskIs, OfStart, StartCalls
<1>8. Fits(t, q)
  <2>1. t.by = "start" /\ t.pc = "begin" /\ t.epoch = q.epoch /\ q.stage = "entry" /\ q.flow = "single"
    BY <1>4, <1>5 DEF TaskIs, PageIs
  <2>2. Placed(t, q) BY <2>1 DEF Placed, StartPlaced
  <2>3. q.epoch \in Nat BY <1>4 DEF PageIs, PageStates
  <2> QED BY <2>1, <2>2, <2>3 DEF Fits
<1>9. TaskTurn(page, tasks, s, t, q, pressed) BY <1>1, <1>5, <1>7 DEF TaskTurn, TaskIs, Answered
<1>10. PageTurn(page, tasks, s, q) BY <1>3, <1>4, <1>6 DEF PageTurn, PageIs
<1>11. ToldTurn(page, q) BY <1>4, NotesAre DEF ToldTurn, PageIs
<1>12. Handed(page, tasks, s, t, q) BY <1>1, <1>3, <1>4 DEF Handed, Given, Answered, PageIs
<1>13. LinkTurn(t, q) BY <1>5 DEF LinkTurn, TaskIs
<1>14. Moved(page, tasks, s, t, q) BY <1>4 DEF Moved, PageIs
<1>15. Keeps1(page, tasks, s, t, q, pressed)
  BY <1>8, <1>9, <1>10, <1>11, <1>12, <1>13 DEF Keeps1
<1>16. Good(q, [tasks EXCEPT ![s] = t], pressed) BY <1>14, <1>15, TurnGood DEF IInv
<1> QED BY <1>1, <1>16, TurnKeeps

LEMMA RecognisedKeeps == ASSUME IInv, NEW s \in Slots, Recognised(s) PROVE IInv'
<1>1. /\ tasks[s].pc = "recognise" /\ Answered(tasks[s]) /\ Current(s) /\ tasks[s].by = "start"
      /\ tasks[s].tag \in Tags
  BY Now, CallerIs, NoneIs DEF Recognised, Got, Answer, Answered, Fresh
<1>2. page.stage = "entry" /\ page.flow = "legacy"
  BY <1>1, Now DEF Placed, StartPlaced
<1>3. page.tag = None BY <1>2, Now, Untagged
<1> DEFINE att == tasks[s].tag
<1>4. CASE Turn(Consent([page EXCEPT !.stage = "relay"], "relay", tasks[s].tag), Done(s))
  <2> DEFINE x == [page EXCEPT !.stage = "relay"]
             q == Consent(x, "relay", att)
  <2>3. PageIs(q, "relay", page.epoch, page.flow, page.tag, page.pending, "pairing-consent",
               [what |-> "relay", att |-> att], Nothing)
    BY <1>1, Now, WordsIn, ConsentAt
  <2> HIDE DEF q
  <2>4. PageStep(page, q) BY <1>3, <2>3, Now, UntaggedStep, StagesApart, NotesAre
  <2>5. q.epoch = page.epoch BY <2>3 DEF PageIs
  <2>6. page.stage \notin Resting BY <1>2, StagesApart DEF Resting
  <2> QED BY <1>1, <1>4, <2>4, <2>5, <2>6, LeadDone DEF q, x
<1>5. CASE Turn([page EXCEPT !.shown = [what |-> None, att |-> tasks[s].tag]],
                [tasks EXCEPT ![s] = [@ EXCEPT !.pc = "relayApprove", !.tag = None, !.reply = None]])
  <2> DEFINE note == [what |-> None, att |-> att]
             q == [page EXCEPT !.shown = note]
             u == [tasks[s] EXCEPT !.tag = None]
             t == [[u EXCEPT !.pc = "relayApprove"] EXCEPT !.reply = None]
  <2>1. "relayApprove" \in Calls /\ None \in Tags /\ None \in Replies /\ None \in Notes
    BY DEF Calls, StartCalls, Tags, Replies, Notes
  <2>2. TaskIs(t, "relayApprove", "start", tasks[s].epoch, None, tasks[s].mode, None)
    <3>1. tasks[s] \in TaskStates BY Now
    <3> QED BY <1>1, <2>1, <3>1 DEF TaskIs, TaskStates
  <2>3. [tasks[s] EXCEPT !.pc = "relayApprove", !.tag = None, !.reply = None] = t
    BY Now DEF TaskStates
  <2>4. PageIs(q, "entry", page.epoch, page.flow, page.tag, page.pending, page.screen, note, page.told)
    <3>1. note \in [what : Notes, att : Tags] BY <1>1, <2>1
    <3>2. page \in PageStates BY Now
    <3> HIDE DEF note
    <3> QED BY <1>2, <3>1, <3>2 DEF PageIs, PageStates
  <2>5. Turn(q, [tasks EXCEPT ![s] = t])
    <3>1. tasks \in [Slots -> TaskStates] BY DEF IInv, Good, StateOK
    <3> QED BY <1>5, <2>3, <3>1
  <2> HIDE DEF t, q, note
  <2>6. CallOK(t) BY <2>2, NoneIs DEF TaskIs, CallOK, OfStart, StartCalls
  <2>7. Fits(t, q)
    BY <1>1, <1>2, <1>3, <2>2, <2>4, Now DEF TaskIs, PageIs, Fits, Placed, StartPlaced, Current
  <2>8. PageStep(page, q) BY <1>3, <2>4, Now, UntaggedStep, StagesApart
  <2>9. Onward(page, s, q) /\ Calm(page, q) /\ Leads(tasks[s], page)
    BY <1>1, <1>2, <2>4 DEF Onward, Calm, Leads, Current, PageIs, Resting, Recoveries
  <2> QED BY <1>1, <2>2, <2>5, <2>6, <2>7, <2>8, <2>9, NextCallKeeps DEF TaskIs
<1> QED BY <1>4, <1>5 DEF Recognised

(* s leads and ends; the page holds no tag and shows q. *)
LEMMA UntaggedDone ==
  ASSUME IInv, NEW s \in Slots, Answered(tasks[s]), Current(s),
         tasks[s].by \in {"start", "decide", "scan", "cancel", "leave"}, page.tag = None,
         NEW q, NEW stage, NEW pending, NEW screen, NEW shown, NEW told,
         PageIs(q, stage, page.epoch, page.flow, page.tag, pending, screen, shown, told),
         stage \notin SingleStages, stage \in Recoveries => page.flow = "legacy",
         told = page.told \/ (told.what # "nothing shared" /\ told.att = None),
         page.stage \notin Resting \/ stage \in Resting,
         Turn(q, Done(s))
  PROVE  IInv'
<1>1. PageStep(page, q) BY Now, UntaggedStep
<1>2. q.epoch = page.epoch /\ q.stage = stage BY DEF PageIs
<1> QED BY <1>1, <1>2, LeadDone

(* What a handler of the two-decision flow, or of the recovery, finds. *)
LEMMA LegacyNow ==
  ASSUME IInv, NEW s \in Slots, Current(s), tasks[s].by = "decide",
         tasks[s].pc \in LegacyCalls \cup {"paintBeforeCompare"},
         tasks[s].reply \notin {None, "working"}
  PROVE  /\ Answered(tasks[s]) /\ page.flow = "legacy" /\ page.tag = None
         /\ tasks[s].tag = page.tag /\ page.pending /\ LegacyPlaced(tasks[s], page)
         /\ tasks[s].pc # "recover" => page.stage \notin Resting
<1>1. Placed(tasks[s], page) BY Now
<1>2. /\ tasks[s].tag = page.tag /\ page.pending /\ LegacyPlaced(tasks[s], page)
      /\ page.flow = "legacy"
  BY <1>1 DEF Placed, LegacyPlaced
<1>3. page.tag = None BY <1>2, Now, Untagged
<1>4. Answered(tasks[s]) BY DEF Answered, Fresh, LegacyCalls
<1>5. tasks[s].pc # "recover" => page.stage \notin Resting
  BY <1>2 DEF LegacyPlaced, LegacyCalls, Resting, Recoveries
<1> QED BY <1>2, <1>3, <1>4, <1>5

LEMMA Notice ==
  ASSUME NEW what, what # "nothing shared"
  PROVE  /\ [what |-> what, att |-> None].what # "nothing shared"
         /\ [what |-> what, att |-> None].att = None
OBVIOUS

(* A legacy flow, or a recovery, that ends with a result. *)
LEMMA ResultKeeps ==
  ASSUME IInv, NEW s \in Slots, Current(s), tasks[s].by = "decide", tasks[s].pc \in LegacyCalls,
         tasks[s].reply \notin {None, "working"}, NEW what \in {"declined", "connected", "recovered"},
         Turn(Settled(Result([page EXCEPT !.stage = "idle"], what, None)), Done(s))
  PROVE  IInv'
<1> DEFINE x == Result([page EXCEPT !.stage = "idle"], what, None)
           told == [what |-> what, att |-> None]
<1>1. what \in Notes /\ what # "nothing shared" BY WordsIn
<1>2. PageIs(x, "idle", page.epoch, page.flow, page.tag, page.pending, "pairing-result", page.shown,
             told)
  BY <1>1, Now, WordsIn, ResultAt
<1>3. told.what # "nothing shared" /\ told.att = None BY <1>1, Notice
<1> HIDE DEF x, told
<1>4. PageIs(Settled(x), "idle", page.epoch, page.flow, page.tag, FALSE, "pairing-result", page.shown,
             told)
  BY <1>2, SettledOf
<1>5. Turn(Settled(x), Done(s)) BY DEF x
<1> HIDE DEF Settled
<1>6. Answered(tasks[s]) /\ page.tag = None BY LegacyNow
<1> QED BY <1>3, <1>4, <1>5, <1>6, StagesApart, UntaggedDone

LEMMA RelayDeclinedKeeps == ASSUME IInv, NEW s \in Slots, RelayDeclined(s) PROVE IInv'
<1>1. /\ tasks[s].pc = "relayReject" /\ Current(s) /\ tasks[s].by = "decide"
      /\ tasks[s].reply \notin {None, "working"}
  BY Now, CallerIs, NoneIs DEF RelayDeclined, Got, Answer, LegacyCalls
<1>2. Turn(Settled(Result([page EXCEPT !.stage = "idle"], "declined", None)), Done(s))
  BY <1>1 DEF RelayDeclined, Ending
<1> QED BY <1>1, <1>2, ResultKeeps DEF LegacyCalls

LEMMA DeclinedKeeps == ASSUME IInv, NEW s \in Slots, Declined(s) PROVE IInv'
<1>1. /\ tasks[s].pc \in {"preliminaryDecline", "finalDecline"} /\ Current(s)
      /\ tasks[s].reply \notin {None, "working"}
      /\ Turn(Settled(Result([page EXCEPT !.stage = "idle"], "declined", None)), Done(s))
  BY NoneIs DEF Declined, Got, Answer
<1>2. tasks[s].by = "decide" BY <1>1, Now, CallerIs DEF LegacyCalls
<1> QED BY <1>1, <1>2, ResultKeeps DEF LegacyCalls

(* A consent screen of the two-decision flow, or of the recovery. *)
LEMMA LegacyConsentKeeps ==
  ASSUME IInv, NEW s \in Slots, Current(s), tasks[s].by = "decide", tasks[s].pc \in LegacyCalls,
         tasks[s].reply \notin {None, "working"},
         NEW stage, NEW what \in Notes, NEW att \in Tags,
         \/ stage = "final" /\ page.stage \notin Resting
         \/ stage = "recovery-rotation",
         Turn(Settled(Consent([page EXCEPT !.stage = stage], what, att)), Done(s))
  PROVE  IInv'
<1> DEFINE x == Consent([page EXCEPT !.stage = stage], what, att)
           note == [what |-> what, att |-> att]
<1>1. stage \in Stages BY WordsIn
<1>2. PageIs(x, stage, page.epoch, page.flow, page.tag, page.pending, "pairing-consent", note, Nothing)
  BY <1>1, Now, WordsIn, ConsentAt
<1> HIDE DEF x, note
<1>3. PageIs(Settled(x), stage, page.epoch, page.flow, page.tag, FALSE, "pairing-consent", note,
             Nothing)
  BY <1>2, SettledOf
<1>4. Turn(Settled(x), Done(s)) BY DEF x
<1> HIDE DEF Settled
<1>5. Answered(tasks[s]) /\ page.tag = None /\ page.flow = "legacy" BY LegacyNow
<1>6. stage \notin SingleStages /\ (page.stage \notin Resting \/ stage \in Resting)
  BY StagesApart DEF Recoveries, SingleStages, AfterLink
<1> QED BY <1>3, <1>4, <1>5, <1>6, NotesAre, UntaggedDone

LEMMA RecoveredKeeps == ASSUME IInv, NEW s \in Slots, Recovered(s) PROVE IInv'
<1>1. /\ tasks[s].pc = "recover" /\ Current(s) /\ tasks[s].reply \notin {None, "working"}
  BY NoneIs DEF Recovered, Got, Answer
<1>2. tasks[s].by = "decide" BY <1>1, Now, CallerIs DEF LegacyCalls
<1>3. CASE Turn(Settled(Result([page EXCEPT !.stage = "idle"], "recovered", None)), Done(s))
  BY <1>1, <1>2, <1>3, ResultKeeps DEF LegacyCalls
<1>4. CASE Turn(Settled(ShowRotation(page)), Done(s))
  <2>1. Turn(Settled(Consent([page EXCEPT !.stage = "recovery-rotation"], "rotation",
                            page.shown.att)), Done(s))
    BY <1>4 DEF ShowRotation
  <2> QED BY <1>1, <1>2, <2>1, Now, WordsIn, LegacyConsentKeeps DEF LegacyCalls
<1> QED BY <1>3, <1>4 DEF Recovered

(* The next call of a decision of the two-decision flow. *)
LEMMA LegacyCallKeeps ==
  ASSUME IInv, NEW s \in Slots, Current(s), tasks[s].by = "decide",
         tasks[s].pc \in (LegacyCalls \cup {"paintBeforeCompare"}) \ {"recover"},
         tasks[s].reply \notin {None, "working"},
         NEW q, NEW stage, NEW screen, NEW shown, NEW told, NEW pc,
         PageIs(q, stage, page.epoch, page.flow, page.tag, page.pending, screen, shown, told),
         told = page.told \/ told = Nothing,
         \/ stage = "comparison" /\ pc \in {"paintBeforeCompare", "compare"}
         \/ stage = "finish" /\ pc = "finish",
         Turn(q, Await(s, pc))
  PROVE  IInv'
<1> DEFINE t == [tasks[s] EXCEPT !.pc = pc, !.reply = None]
<1>1. pc \in Calls /\ pc \in OfDecide /\ pc \notin {"revoke", "idle", "resume", "link", "inspect"}
  BY DEF Calls, LegacyCalls, OfDecide
<1>2. TaskIs(t, pc, "decide", page.epoch, None, tasks[s].mode, None)
  BY <1>1, Now, AwaitIs, LegacyNow DEF Current
<1>3. Turn(q, [tasks EXCEPT ![s] = t]) BY DEF Await
<1> HIDE DEF t
<1>4. CallOK(t) BY <1>1, <1>2, NoneIs DEF TaskIs, CallOK
<1>5. /\ Answered(tasks[s]) /\ page.tag = None /\ page.flow = "legacy" /\ page.pending
      /\ page.stage \notin Resting
  BY LegacyNow
<1>6. SinglePlaced(t, q) BY <1>1, <1>2 DEF SinglePlaced, TaskIs
<1>7. LegacyPlaced(t, q) BY <1>2, <1>5 DEF LegacyPlaced, TaskIs, PageIs
<1>8. Placed(t, q) BY <1>1, <1>2, <1>5, <1>6, <1>7 DEF Placed, TaskIs, PageIs
<1>9. Fits(t, q) BY <1>2, <1>8, Now DEF Fits, TaskIs, PageIs
<1>10. stage \notin SingleStages \cup Recoveries BY StagesApart
<1>11. PageStep(page, q) BY <1>5, <1>10, Now, NotesAre, UntaggedStep
<1>12. Onward(page, s, q) /\ Calm(page, q) /\ Leads(tasks[s], page)
  BY <1>5 DEF Onward, Calm, Leads, Current, PageIs
<1> QED BY <1>1, <1>2, <1>3, <1>4, <1>5, <1>9, <1>11, <1>12, NextCallKeeps DEF TaskIs

LEMMA PreviewedKeeps == ASSUME IInv, NEW s \in Slots, Previewed(s) PROVE IInv'
<1>1. /\ tasks[s].pc \in {"preliminary", "paintBeforeCompare", "compare"} /\ Current(s)
      /\ tasks[s].reply \notin {None, "working"}
  BY NoneIs DEF Previewed, Got, Answer
<1>2. tasks[s].by = "decide" /\ tasks[s].pc \in (LegacyCalls \cup {"paintBeforeCompare"}) \ {"recover"}
  BY <1>1, Now, CallerIs DEF LegacyCalls
<1>3. CASE Turn(ShowPreview(page), Await(s, "paintBeforeCompare"))
  <2>1. PageIs(ShowPreview(page), "comparison", page.epoch, page.flow, page.tag, page.pending,
               "pairing-consent", [what |-> "preview", att |-> page.shown.att], Nothing)
    BY Now, WordsIn, ConsentAt DEF ShowPreview
  <2> QED BY <1>1, <1>2, <1>3, <2>1, LegacyCallKeeps
<1>4. CASE Got(s, "paintBeforeCompare", "ok") /\ Turn(page, Await(s, "compare"))
  <2>1. page.stage = "comparison" /\ tasks[s].pc = "paintBeforeCompare"
    BY <1>1, <1>2, <1>4, LegacyNow DEF LegacyPlaced, Got, Answer
  <2>2. PageIs(page, "comparison", page.epoch, page.flow, page.tag, page.pending, page.screen,
               page.shown, page.told)
    BY <2>1, Now DEF PageIs
  <2> QED BY <1>1, <1>2, <1>4, <2>2, LegacyCallKeeps
<1>5. CASE Got(s, "compare", "ok") /\ Turn(Settled(ShowFinalReview(page)), Done(s))
  <2>1. tasks[s].pc \in LegacyCalls /\ page.stage \notin Resting
    BY <1>1, <1>2, <1>5, LegacyNow DEF Got, Answer, LegacyCalls
  <2>2. Turn(Settled(Consent([page EXCEPT !.stage = "final"], "final", page.shown.att)),
            Done(s))
    BY <1>5 DEF ShowFinalReview
  <2> QED BY <1>1, <1>2, <2>1, <2>2, Now, WordsIn, LegacyConsentKeeps
<1> QED BY <1>3, <1>4, <1>5 DEF Previewed

LEMMA FinishedKeeps == ASSUME IInv, NEW s \in Slots, Finished(s) PROVE IInv'
<1>1. /\ tasks[s].pc \in {"final", "finish"} /\ Current(s) /\ tasks[s].reply \notin {None, "working"}
  BY NoneIs DEF Finished, Got, Answer
<1>2. tasks[s].by = "decide" /\ tasks[s].pc \in LegacyCalls \ {"recover"}
  BY <1>1, Now, CallerIs DEF LegacyCalls
<1>3. CASE Turn(Screen([page EXCEPT !.stage = "finish"], "pairing-wait"), Await(s, "finish"))
  <2> DEFINE x == [page EXCEPT !.stage = "finish"]
  <2>1. PageIs(x, "finish", page.epoch, page.flow, page.tag, page.pending, page.screen, page.shown,
               page.told)
    BY Now, WordsIn, StageIs
  <2> HIDE DEF x
  <2>2. PageIs(Screen(x, "pairing-wait"), x.stage, x.epoch, x.flow, x.tag, x.pending, "pairing-wait",
               x.shown, Nothing)
    BY <2>1, PageWords, ScreenIs DEF PageIs
  <2>3. PageIs(Screen(x, "pairing-wait"), "finish", page.epoch, page.flow, page.tag, page.pending,
               "pairing-wait", page.shown, Nothing)
    BY <2>1, <2>2 DEF PageIs
  <2>4. Turn(Screen(x, "pairing-wait"), Await(s, "finish")) BY <1>3 DEF x
  <2> QED BY <1>1, <1>2, <2>3, <2>4, LegacyCallKeeps
<1>4. CASE Turn(Settled(Result([page EXCEPT !.stage = "idle"], "connected", None)), Done(s))
  BY <1>1, <1>2, <1>4, ResultKeeps
<1> QED BY <1>3, <1>4 DEF Finished

-----------------------------------------------------------------------------
(* Handlers of a start and of the single link *)

(* The handler that goes on leads, and the page it leaves keeps its tag. *)
LEMMA LeadCall ==
  ASSUME IInv, NEW s \in Slots, Answered(tasks[s]), Current(s),
         tasks[s].by \in {"start", "decide", "scan", "cancel", "leave"},
         NEW q, PageOK(q), ToldTurn(page, q), q.tag = page.tag, q.epoch = page.epoch,
         page.stage \in AfterLink => q.stage \in AfterLink, page.stage \notin Resting,
         NEW t, t \in TaskStates, CallOK(t), t.reply = None, t.epoch = page.epoch,
         t.tag = page.tag, t.pc # "link", t.pc = "inspect" => ~Living(t.tag), Placed(t, q),
         Turn(q, [tasks EXCEPT ![s] = t])
  PROVE  IInv'
<1>1. PageStep(page, q) BY DEF PageStep
<1>2. Onward(page, s, q) /\ Calm(page, q) /\ Leads(tasks[s], page)
  BY DEF Onward, Calm, Leads, Current
<1>3. Fits(t, q) BY Now DEF Fits
<1> QED BY <1>1, <1>2, <1>3, NextCallKeeps

(* The revocation a failed handler waits for. *)
LEMMA GivesUp ==
  ASSUME IInv, NEW s \in Slots, Answered(tasks[s]), Current(s),
         tasks[s].by \in {"start", "decide"}, page.stage \notin Resting \/ page.flow = "legacy",
         NEW mode \in {"single", "legacy"},
         Placed([tasks[s] EXCEPT !.pc = "revoke", !.tag = page.tag, !.mode = mode, !.reply = None], page),
         Turn(page, [tasks EXCEPT ![s] = [tasks[s] EXCEPT !.pc = "revoke", !.tag = page.tag,
                                                          !.mode = mode, !.reply = None]])
  PROVE  IInv'
<1> DEFINE t == [tasks[s] EXCEPT !.pc = "revoke", !.tag = page.tag, !.mode = mode, !.reply = None]
<1>1. TaskIs(t, "revoke", tasks[s].by, page.epoch, page.tag, mode, None) BY Now, RevokingIs DEF Current
<1> HIDE DEF t
<1>2. CallOK(t) BY <1>1, NoneIs DEF TaskIs, CallOK, OfStart, OfDecide
<1>3. PageStep(page, page) BY Now DEF PageStep, ToldTurn
<1>4. Onward(page, s, page) /\ Calm(page, page) /\ Leads(tasks[s], page)
  BY DEF Onward, Calm, Leads, Current
<1>5. Fits(t, page) BY <1>1, Now DEF Fits, TaskIs, t
<1>6. Turn(page, [tasks EXCEPT ![s] = t]) BY DEF t
<1> QED BY <1>1, <1>2, <1>3, <1>4, <1>5, <1>6, NextCallKeeps DEF TaskIs

LEMMA StartFailsKeeps == ASSUME IInv, NEW s \in Slots, StartFails(s) PROVE IInv'
<1> DEFINE t == [tasks[s] EXCEPT !.pc = "revoke", !.tag = page.tag, !.mode = page.flow, !.reply = None]
<1>1. /\ Answered(tasks[s]) /\ Current(s) /\ tasks[s].by = "start" /\ tasks[s].pc \in StartCalls
      /\ Turn(page, [tasks EXCEPT ![s] = t])
  BY NoneIs DEF StartFails, Answered, Fresh
<1>2. page.stage \in {"entry", "contact"}
  BY <1>1, Now DEF Placed, StartPlaced, StartCalls
<1>3. TaskIs(t, "revoke", "start", page.epoch, page.tag, page.flow, None)
  <2>1. page.flow \in {"single", "legacy"} BY Now DEF PageStates
  <2> QED BY <1>1, <2>1, Now, RevokingIs DEF Current
<1>4. Placed(t, page) BY <1>2, <1>3 DEF Placed, StartPlaced, TaskIs
<1>5. page.stage \notin Resting /\ page.flow \in {"single", "legacy"}
  BY <1>2, Now, StagesApart DEF Resting, PageStates
<1> QED BY <1>1, <1>4, <1>5, GivesUp

LEMMA SingleFailsKeeps == ASSUME IInv, NEW s \in Slots, SingleFails(s) PROVE IInv'
<1>1. /\ Answered(tasks[s]) /\ Current(s) /\ tasks[s].pc \in SingleCalls /\ tasks[s].by = "decide"
  BY Now, CallerIs, NoneIs DEF SingleFails, Answered, Fresh, SingleCalls
<1>2. page.stage \in SingleStages /\ page.pending /\ tasks[s].tag = page.tag
  BY <1>1, Now DEF Placed, SinglePlaced, SingleCalls, SingleStages, AfterLink
<1> DEFINE t == [tasks[s] EXCEPT !.pc = "revoke", !.tag = page.tag, !.mode = "single", !.reply = None]
<1>3. [tasks[s] EXCEPT !.pc = "revoke", !.mode = "single", !.reply = None] = t
  BY <1>2, Now, RevokingSame
<1>4. Turn(page, [tasks EXCEPT ![s] = t]) BY <1>3 DEF SingleFails
<1>5. TaskIs(t, "revoke", "decide", page.epoch, page.tag, "single", None)
  BY <1>1, Now, RevokingIs DEF Current
<1>6. SinglePlaced(t, page) BY <1>2, <1>5 DEF SinglePlaced, TaskIs
<1>7. LegacyPlaced(t, page) BY <1>5 DEF LegacyPlaced, TaskIs, LegacyCalls
<1>8. Placed(t, page) BY <1>2, <1>5, <1>6, <1>7 DEF Placed, TaskIs
<1>9. page.stage \notin Resting BY <1>2, StagesApart
<1> QED BY <1>1, <1>4, <1>8, <1>9, GivesUp

LEMMA DecideFailsKeeps == ASSUME IInv, NEW s \in Slots, DecideFails(s) PROVE IInv'
<1>1. /\ tasks[s].by = "decide" /\ tasks[s].pc \in LegacyCalls /\ Current(s)
      /\ tasks[s].reply \notin {None, "working"}
  BY NoneIs DEF DecideFails
<1>2. /\ Answered(tasks[s]) /\ page.flow = "legacy" /\ page.tag = None
      /\ tasks[s].tag = page.tag /\ page.pending
  BY <1>1, LegacyNow
<1>3. CASE page.stage = "finish" /\ Turn(Settled(Screen(page, "pairing-consent")), Done(s))
  <2> DEFINE x == Screen(page, "pairing-consent")
  <2>1. PageIs(x, page.stage, page.epoch, page.flow, page.tag, page.pending, "pairing-consent",
               page.shown, Nothing)
    BY Now, PageWords, ScreenIs
  <2>2. Turn(Settled(x), Done(s)) BY <1>3
  <2> HIDE DEF x
  <2>3. PageIs(Settled(x), page.stage, page.epoch, page.flow, page.tag, FALSE, "pairing-consent",
               page.shown, Nothing)
    BY <2>1, SettledOf
  <2> HIDE DEF Settled
  <2> QED BY <1>1, <1>2, <1>3, <2>2, <2>3, NotesAre, StagesApart, UntaggedDone DEF Resting
<1>4. CASE Turn(page, [tasks EXCEPT ![s] = [@ EXCEPT !.pc = "revoke", !.mode = "legacy", !.reply = None]])
  <2> DEFINE t == [tasks[s] EXCEPT !.pc = "revoke", !.tag = page.tag, !.mode = "legacy", !.reply = None]
  <2>1. [tasks[s] EXCEPT !.pc = "revoke", !.mode = "legacy", !.reply = None] = t
    BY <1>2, Now, RevokingSame
  <2>2. Turn(page, [tasks EXCEPT ![s] = t]) BY <1>4, <2>1
  <2>3. TaskIs(t, "revoke", "decide", page.epoch, page.tag, "legacy", None)
    BY <1>1, Now, RevokingIs DEF Current
  <2>4. SinglePlaced(t, page) BY <2>3 DEF SinglePlaced, TaskIs
  <2>5. LegacyPlaced(t, page) BY <1>2, <2>3 DEF LegacyPlaced, TaskIs
  <2>6. Placed(t, page) BY <1>2, <2>3, <2>4, <2>5 DEF Placed, TaskIs
  <2> QED BY <1>1, <1>2, <2>2, <2>6, GivesUp
<1> QED BY <1>3, <1>4 DEF DecideFails

LEMMA ReservedKeeps == ASSUME IInv, NEW s \in Slots, Reserved(s) PROVE IInv'
<1> DEFINE tag == tasks[s].tag
           q == [page EXCEPT !.tag = tag, !.stage = "contact"]
           t == [tasks[s] EXCEPT !.pc = "contact", !.reply = None]
<1>1. /\ tasks[s].pc = "begin" /\ tasks[s].reply = "ok" /\ Current(s) /\ tasks[s].by = "start"
      /\ Turn(q, [tasks EXCEPT ![s] = t])
  BY Now, CallerIs DEF Reserved, Got, Answer, Await
<1>2. page.stage = "entry" /\ page.flow = "single" BY <1>1, Now DEF Placed, StartPlaced
<1>3. page.tag = None BY <1>2, Now, Untagged, StagesApart
<1>4. PageIs(q, "contact", page.epoch, page.flow, tag, page.pending, page.screen, page.shown, page.told)
  BY Now, WordsIn, TagIs
<1>5. TaskIs(t, "contact", "start", page.epoch, tag, tasks[s].mode, None)
  BY <1>1, Now, AwaitIs DEF Calls, StartCalls, Current
<1>6. tag \in Tags BY Now
<1> HIDE DEF q, t
<1>7. PageOK(q) BY <1>2, <1>4, StagesApart DEF PageOK, PageIs
<1>8. CallOK(t) BY <1>5, NoneIs DEF CallOK, TaskIs, OfStart, StartCalls
<1>9. Fits(t, q) BY <1>2, <1>4, <1>5, Now DEF Fits, Placed, StartPlaced, TaskIs, PageIs
<1>10. Given(tasks[s]) = {tag} BY <1>1 DEF Given, Fresh
<1>11. TaskTurn(page, tasks, s, t, q, pressed)
  BY <1>1, <1>5, <1>8, NoneIs DEF TaskTurn, TaskIs
<1>12. PageTurn(page, tasks, s, q)
  BY <1>2, <1>4, <1>7, <1>10, StagesApart DEF PageTurn, PageIs
<1>13. ToldTurn(page, q) BY <1>4 DEF ToldTurn, PageIs
<1>14. ~Living(None) BY NoneIs DEF Living, IInv, Good, StateOK, NativeStates
<1>15. Handed(page, tasks, s, t, q) BY <1>3, <1>4, <1>10, <1>14 DEF Handed, PageIs
<1>16. LinkTurn(t, q) BY <1>5 DEF LinkTurn, TaskIs
<1>17. Calm(page, q) /\ Leads(tasks[s], page)
  BY <1>1, <1>2, <1>4 DEF Calm, PageIs, Leads, Current, Resting, Recoveries
<1>18. Moved(page, tasks, s, t, q) BY <1>17 DEF Moved
<1>19. Keeps1(page, tasks, s, t, q, pressed)
  BY <1>9, <1>11, <1>12, <1>13, <1>15, <1>16 DEF Keeps1
<1>20. Good(q, [tasks EXCEPT ![s] = t], pressed) BY <1>18, <1>19, TurnGood DEF IInv
<1> QED BY <1>1, <1>20, TurnKeeps

LEMMA LateReservationKeeps == ASSUME IInv, NEW s \in Slots, LateReservation(s) PROVE IInv'
<1> DEFINE t == [tasks[s] EXCEPT !.pc = "revoke", !.by = "forget", !.mode = "single", !.reply = None]
<1>1. /\ tasks[s].pc = "begin" /\ tasks[s].reply = "ok" /\ ~Current(s)
      /\ Turn(page, [tasks EXCEPT ![s] = t])
  BY DEF LateReservation, Answer
<1>2. TaskIs(t, "revoke", "forget", tasks[s].epoch, tasks[s].tag, "single", None)
  BY Now, LateIs
<1> HIDE DEF t
<1>3. CallOK(t) BY <1>2, NoneIs DEF CallOK, TaskIs
<1>4. Given(tasks[s]) = {tasks[s].tag} BY <1>1 DEF Given, Fresh
<1>5. Fits(t, page)
  BY <1>1, <1>2, Now DEF Fits, TaskIs, Current, IInv, Good, TurnsOK
<1>6. TaskTurn(page, tasks, s, t, page, pressed)
  BY <1>1, <1>2, <1>3, NoneIs DEF TaskTurn, TaskIs
<1>7. PageTurn(page, tasks, s, page) BY Now DEF PageTurn
<1>8. Handed(page, tasks, s, t, page) BY <1>2, <1>4 DEF Handed, Ends, TaskIs
<1>9. ToldTurn(page, page) /\ LinkTurn(t, page) BY <1>2 DEF ToldTurn, LinkTurn, TaskIs
<1>10. Moved(page, tasks, s, t, page) BY <1>2 DEF Moved, Leads, TaskIs
<1>11. Keeps1(page, tasks, s, t, page, pressed)
  BY <1>5, <1>6, <1>7, <1>8, <1>9 DEF Keeps1
<1>12. Good(page, [tasks EXCEPT ![s] = t], pressed) BY <1>10, <1>11, TurnGood DEF IInv
<1> QED BY <1>1, <1>12, TurnKeeps

(* The answer of a revocation or of an inspection says that the attempt is over. *)
LEMMA EndedIs ==
  ASSUME IInv, NEW s \in Slots, Ended(tasks[s]) PROVE ~Living(tasks[s].tag)
BY DEF IInv, Good, EndOK
LEMMA NoneDead == IInv => ~Living(None)
BY NoneIs DEF Living, IInv, Good, StateOK, NativeStates

(* Nothing is shared of a tag the page gives up before the link. *)
LEMMA Unshared ==
  ASSUME IInv, page.stage \notin AfterLink PROVE page.tag \notin shared /\ Numbered(page.tag)
<1>1. None \notin shared BY NoneIs DEF IInv, Good, TagsOK
<1> QED BY <1>1 DEF IInv, Good, LinkOK, NotLinked, TagsOK

LEMMA StartRevokedKeeps == ASSUME IInv, NEW s \in Slots, StartRevoked(s) PROVE IInv'
<1> DEFINE q == NothingShared(page, tasks[s].tag)
           told == [what |-> "nothing shared", att |-> tasks[s].tag]
<1>1. /\ tasks[s].pc = "revoke" /\ Answered(tasks[s]) /\ Current(s) /\ tasks[s].by = "start"
      /\ tasks[s].reply = "ok" /\ Turn(q, Done(s))
  BY NoneIs DEF StartRevoked, Got, Answer, Answered, Fresh
<1>2. page.stage \in {"entry", "contact"} /\ tasks[s].mode = page.flow /\ tasks[s].tag = page.tag
  BY <1>1, Now DEF Placed, StartPlaced
<1>3. PageIs(q, "idle", page.epoch, page.flow, None, page.pending, "pairing-enter", page.shown, told)
  BY Now, NothingSharedIs
<1>4. ~Living(page.tag)
  <2>1. CASE page.tag = None BY <2>1, NoneDead
  <2>2. CASE page.tag # None
    <3>1. page.flow = "single" BY <2>2, Now DEF PageOK
    <3> QED BY <1>1, <1>2, <3>1, EndedIs DEF Ended
  <2> QED BY <2>1, <2>2
<1>5. page.stage \notin AfterLink BY <1>2 DEF AfterLink
<1>6. told.att = page.tag BY <1>2
<1> HIDE DEF q, told
<1>7. PageOK(q) BY <1>3, StagesApart DEF PageOK, PageIs
<1>8. ToldTurn(page, q) BY <1>3, <1>4, <1>5, <1>6, Unshared DEF ToldTurn, PageIs
<1>9. PageStep(page, q) BY <1>3, <1>4, <1>7, <1>8 DEF PageStep, PageIs
<1>10. q.epoch = page.epoch /\ q.stage = "idle" BY <1>3 DEF PageIs
<1> QED BY <1>1, <1>9, <1>10, StagesApart, LeadDone

LEMMA DecideRevokedKeeps == ASSUME IInv, NEW s \in Slots, DecideRevoked(s) PROVE IInv'
<1> DEFINE x == NothingShared(page, About(s))
           told == [what |-> "nothing shared", att |-> About(s)]
           q == Settled(x)
<1>1. /\ tasks[s].pc = "revoke" /\ Answered(tasks[s]) /\ Current(s) /\ tasks[s].by = "decide"
      /\ tasks[s].mode = "legacy" /\ Turn(q, Done(s))
  BY NoneIs DEF DecideRevoked, Got, Answer, Answered, Fresh
<1>2. page.flow = "legacy" BY <1>1, Now DEF Placed, LegacyPlaced
<1>3. page.tag = None BY <1>2, Now, Untagged
<1>4. PageIs(x, "idle", page.epoch, page.flow, None, page.pending, "pairing-enter", page.shown, told)
  <2>1. About(s) \in Tags BY Now DEF About
  <2> QED BY <2>1, Now, WordsIn, NothingSharedIs
<1> HIDE DEF x, told
<1>6. PageIs(q, "idle", page.epoch, page.flow, None, FALSE, "pairing-enter", page.shown, told)
  BY <1>4, SettledOf
<1> HIDE DEF q
<1>7. PageOK(q) BY <1>6, StagesApart DEF PageOK, PageIs
<1>9. ToldTurn(page, q) BY <1>2, <1>6 DEF ToldTurn, PageIs
<1>10. PageStep(page, q) BY <1>3, <1>6, <1>7, <1>9 DEF PageStep, PageIs
<1>11. q.epoch = page.epoch /\ q.stage = "idle" BY <1>6 DEF PageIs
<1> QED BY <1>1, <1>10, <1>11, StagesApart, LeadDone

(* contact and relayApprove end with the request on the screen. *)
LEMMA ContactedKeeps == ASSUME IInv, NEW s \in Slots, Contacted(s) PROVE IInv'
<1> DEFINE stage == IF page.flow = "single" THEN "single-unlock" ELSE "intent"
           note == [what |-> "request", att |-> About(s)]
           x == Requested(page, About(s))
           q == Ending(s, x)
<1>1. /\ tasks[s].pc \in {"contact", "relayApprove"} /\ Answered(tasks[s]) /\ Current(s)
      /\ tasks[s].by \in {"start", "decide"} /\ Turn(q, Done(s))
      /\ tasks[s].pc = "contact" => tasks[s].by = "start"
  BY Now, CallerIs, NoneIs DEF Contacted, Got, Answer, Answered, Fresh
<1>2. /\ tasks[s].tag = page.tag
      /\ \/ page.stage = "contact" /\ page.flow = "single"
         \/ page.stage \in {"entry", "relay"} /\ page.flow = "legacy"
  BY <1>1, Now DEF Placed, StartPlaced, LegacyPlaced, LegacyCalls
<1>3. stage \in Stages BY WordsIn DEF SingleStages
<1>4. PageIs(x, stage, page.epoch, page.flow, page.tag, page.pending, "pairing-consent", note, Nothing)
  <2>1. About(s) \in Tags BY Now DEF About
  <2> QED BY <1>3, <2>1, Now, WordsIn, ConsentAt DEF Requested
<1>5. page.flow = "single" => note.att = page.tag BY <1>2 DEF About
<1> HIDE DEF x, note
<1>6. PageIs(Settled(x), stage, page.epoch, page.flow, page.tag, FALSE, "pairing-consent", note, Nothing)
  BY <1>4, SettledOf
<1>7. \E b \in BOOLEAN :
        PageIs(q, stage, page.epoch, page.flow, page.tag, b, "pairing-consent", note, Nothing)
  <2>1. CASE tasks[s].by = "decide" BY <1>6, <2>1 DEF Ending
  <2>2. CASE tasks[s].by # "decide"
    <3>1. q = x BY <2>2 DEF Ending
    <3>2. page.pending \in BOOLEAN BY Now DEF PageStates
    <3> QED BY <1>4, <3>1, <3>2
  <2> QED BY <2>1, <2>2
<1> HIDE DEF q
<1>8. PageOK(q)
  <2>1. CASE page.flow = "single"
    <3>1. stage = "single-unlock" /\ stage \in SingleStages BY <2>1 DEF SingleStages
    <3> QED BY <1>5, <1>7, <2>1, <3>1, StagesApart DEF PageOK, PageIs
  <2>2. CASE page.flow = "legacy"
    <3>1. stage = "intent" BY <2>2
    <3>2. page.tag = None BY <2>2, Now, Untagged
    <3> QED BY <1>7, <3>1, <3>2, StagesApart DEF PageOK, PageIs
  <2> QED BY <2>1, <2>2, Now DEF PageStates
<1>9. ToldTurn(page, q) BY <1>7, NotesAre DEF ToldTurn, PageIs
<1>10. page.stage \notin AfterLink /\ page.stage \notin Resting
  BY <1>2 DEF AfterLink, Resting, Recoveries
<1>11. PageStep(page, q) BY <1>7, <1>8, <1>9, <1>10 DEF PageStep, PageIs
<1>12. q.epoch = page.epoch BY <1>7 DEF PageIs
<1> QED BY <1>1, <1>10, <1>11, <1>12, LeadDone

(* What a handler of the single link finds. *)
LEMMA SingleNow ==
  ASSUME IInv, NEW s \in Slots, Current(s), tasks[s].by = "decide",
         tasks[s].pc \in SingleCalls \cup {"paint", "inspect"},
         tasks[s].reply \notin {None, "working"}
  PROVE  /\ Answered(tasks[s]) /\ tasks[s].tag = page.tag /\ page.pending
         /\ SinglePlaced(tasks[s], page) /\ page.stage \in SingleStages /\ page.stage \notin Resting
         /\ Numbered(page.tag) /\ (page.tag # None => page.flow = "single")
<1>1. Placed(tasks[s], page) BY Now
<1>2. tasks[s].tag = page.tag /\ page.pending /\ SinglePlaced(tasks[s], page) BY <1>1 DEF Placed
<1>3. page.stage \in SingleStages BY <1>2 DEF SinglePlaced, SingleCalls, SingleStages, AfterLink
<1>4. Answered(tasks[s]) BY DEF Answered, Fresh, SingleCalls
<1> QED BY <1>2, <1>3, <1>4, Now, StagesApart DEF PageOK, IInv, Good, TagsOK

(* The next call of the single link; the page keeps its tag. *)
LEMMA SingleCallKeeps ==
  ASSUME IInv, NEW s \in Slots, Current(s), tasks[s].by = "decide",
         tasks[s].reply \notin {None, "working"}, tasks[s].tag = page.tag, page.pending,
         Answered(tasks[s]), page.stage \in SingleStages,
         NEW q, NEW stage, NEW screen, NEW shown, NEW told, NEW pc,
         PageIs(q, stage, page.epoch, page.flow, page.tag, page.pending, screen, shown, told),
         PageOK(q), told = page.told \/ told = Nothing,
         page.stage \in AfterLink => stage \in AfterLink,
         \/ stage = "single-preview" /\ pc \in {"paint", "rendered"}
         \/ stage = "single-comparison" /\ pc = "continue"
         \/ stage = "single-finish" /\ pc = "finishLink"
         \/ stage \in AfterLink /\ pc = "inspect" /\ ~Living(page.tag),
         Turn(q, Await(s, pc))
  PROVE  IInv'
<1> DEFINE t == [tasks[s] EXCEPT !.pc = pc, !.reply = None]
<1>1. pc \in Calls /\ pc \in OfDecide /\ pc \notin {"revoke", "idle", "resume", "link"}
  BY DEF Calls, SingleCalls, OfDecide
<1>2. TaskIs(t, pc, "decide", page.epoch, page.tag, tasks[s].mode, None)
  BY <1>1, Now, AwaitIs DEF Current
<1>3. Turn(q, [tasks EXCEPT ![s] = t]) BY DEF Await
<1> HIDE DEF t
<1>4. CallOK(t) BY <1>1, <1>2, NoneIs DEF TaskIs, CallOK
<1>5. SinglePlaced(t, q) BY <1>1, <1>2 DEF SinglePlaced, TaskIs, PageIs
<1>6. LegacyPlaced(t, q) BY <1>1, <1>2 DEF LegacyPlaced, TaskIs, LegacyCalls
<1>7. Placed(t, q) BY <1>1, <1>2, <1>5, <1>6 DEF Placed, TaskIs, PageIs
<1>8. ToldTurn(page, q) BY NotesAre DEF ToldTurn, PageIs
<1>9. page.stage \notin Resting BY StagesApart
<1>10. /\ q.tag = page.tag /\ q.epoch = page.epoch /\ q.stage = stage BY DEF PageIs
<1>11. pc = "inspect" => ~Living(page.tag) OBVIOUS
<1> QED BY <1>1, <1>2, <1>3, <1>4, <1>7, <1>8, <1>9, <1>10, <1>11, LeadCall DEF TaskIs

LEMMA UnlockedKeeps == ASSUME IInv, NEW s \in Slots, Unlocked(s) PROVE IInv'
<1> DEFINE q == ShowSinglePreview(page, tasks[s].tag)
           note == [what |-> "preview", att |-> tasks[s].tag]
<1>1. /\ tasks[s].pc = "unlock" /\ Current(s) /\ tasks[s].reply \notin {None, "working"}
      /\ Turn(q, Await(s, "paint"))
  BY NoneIs DEF Unlocked, Got, Answer
<1>2. tasks[s].by = "decide" BY <1>1, Now, CallerIs DEF SingleCalls
<1>3. /\ Answered(tasks[s]) /\ tasks[s].tag = page.tag /\ page.pending /\ page.stage \in SingleStages
      /\ page.stage = "single-unlock" /\ (page.tag # None => page.flow = "single")
  BY <1>1, <1>2, SingleNow DEF SinglePlaced, SingleCalls
<1>4. "single-preview" \in SingleStages /\ "single-preview" \in Stages
      /\ "single-preview" \notin Recoveries
  BY WordsIn DEF SingleStages, Recoveries
<1>5. PageIs(q, "single-preview", page.epoch, page.flow, page.tag, page.pending, "pairing-consent",
             note, Nothing)
  BY <1>4, Now, WordsIn, ConsentAt DEF ShowSinglePreview
<1>6. note.what = "preview" /\ note.att = page.tag BY <1>3
<1> HIDE DEF q, note
<1>7. PageOK(q) BY <1>3, <1>4, <1>5, <1>6 DEF PageOK, PageIs
<1>8. page.stage \notin AfterLink BY <1>3 DEF AfterLink
<1> QED BY <1>1, <1>2, <1>3, <1>5, <1>7, <1>8, SingleCallKeeps

LEMMA PaintedKeeps == ASSUME IInv, NEW s \in Slots, Painted(s) PROVE IInv'
<1>1. /\ tasks[s].pc = "paint" /\ Current(s) /\ tasks[s].reply \notin {None, "working"}
      /\ Turn(page, Await(s, "rendered"))
  BY NoneIs DEF Painted, Got, Answer
<1>2. tasks[s].by = "decide" BY <1>1, Now, CallerIs
<1>3. /\ Answered(tasks[s]) /\ tasks[s].tag = page.tag /\ page.pending /\ page.stage \in SingleStages
      /\ page.stage = "single-preview"
  BY <1>1, <1>2, SingleNow DEF SinglePlaced
<1>4. PageIs(page, "single-preview", page.epoch, page.flow, page.tag, page.pending, page.screen,
             page.shown, page.told)
  BY <1>3, Now DEF PageIs
<1>5. page.stage \notin AfterLink BY <1>3 DEF AfterLink
<1> QED BY <1>1, <1>2, <1>3, <1>4, <1>5, Now, SingleCallKeeps

LEMMA ReadyKeeps == ASSUME IInv, NEW s \in Slots, Ready(s) PROVE IInv'
<1> DEFINE x == [page EXCEPT !.stage = "single-ready"]
           q == Settled(x)
<1>1. /\ tasks[s].pc = "rendered" /\ Current(s) /\ tasks[s].reply \notin {None, "working"}
      /\ Turn(q, Done(s))
  BY NoneIs DEF Ready, Got, Answer
<1>2. tasks[s].by = "decide" BY <1>1, Now, CallerIs DEF SingleCalls
<1>3. /\ Answered(tasks[s]) /\ page.stage \in SingleStages
      /\ page.stage = "single-preview" /\ page.stage \notin Resting
      /\ (page.tag # None => page.flow = "single")
  BY <1>1, <1>2, SingleNow DEF SinglePlaced, SingleCalls
<1>4. "single-ready" \in SingleStages /\ "single-ready" \in Stages /\ "single-ready" \notin Recoveries
  BY WordsIn DEF SingleStages, Recoveries
<1>5. PageIs(x, "single-ready", page.epoch, page.flow, page.tag, page.pending, page.screen,
             page.shown, page.told)
  BY <1>4, Now, StageIs
<1> HIDE DEF x
<1>6. PageIs(q, "single-ready", page.epoch, page.flow, page.tag, FALSE, page.screen, page.shown,
             page.told)
  BY <1>5, SettledOf
<1> HIDE DEF q
<1>7. PageOK(q) BY <1>3, <1>4, <1>6, Now DEF PageOK, PageIs
<1>8. page.stage \notin AfterLink BY <1>3 DEF AfterLink
<1>9. PageStep(page, q) BY <1>6, <1>7, <1>8 DEF PageStep, PageIs, ToldTurn
<1>10. q.epoch = page.epoch BY <1>6 DEF PageIs
<1> QED BY <1>1, <1>2, <1>3, <1>9, <1>10, LeadDone

(* A single link ends with a result: its attempt is over. *)
LEMMA SingleEnds ==
  ASSUME IInv, NEW s \in Slots, Current(s), tasks[s].by = "decide", Answered(tasks[s]),
         tasks[s].tag = page.tag, page.stage \notin Resting, Numbered(page.tag), ~Living(page.tag),
         NEW what \in {"connected", "needs checking"},
         Turn(Settled(Result([page EXCEPT !.stage = "idle", !.tag = None], what, tasks[s].tag)), Done(s))
  PROVE  IInv'
<1> DEFINE y == [page EXCEPT !.stage = "idle", !.tag = None]
           x == Result(y, what, tasks[s].tag)
           told == [what |-> what, att |-> tasks[s].tag]
           q == Settled(x)
<1>1. PageIs(y, "idle", page.epoch, page.flow, None, page.pending, page.screen, page.shown, page.told)
  BY Now, WordsIn, TagIs
<1>2. what \in Notes /\ what # "nothing shared" BY WordsIn
<1>3. Turn(q, Done(s)) OBVIOUS
<1> HIDE DEF y
<1>4. PageIs(x, y.stage, y.epoch, y.flow, y.tag, y.pending, "pairing-result", y.shown, told)
  BY <1>1, <1>2, Now, ResultIs DEF PageIs
<1>5. told.what # "nothing shared" /\ told.att = page.tag BY <1>2
<1> HIDE DEF x, told
<1>6. PageIs(x, "idle", page.epoch, page.flow, None, page.pending, "pairing-result", page.shown, told)
  BY <1>1, <1>4 DEF PageIs
<1>7. PageIs(q, "idle", page.epoch, page.flow, None, FALSE, "pairing-result", page.shown, told)
  BY <1>6, SettledOf
<1> HIDE DEF q
<1>8. PageOK(q) BY <1>7, StagesApart DEF PageOK, PageIs
<1>9. ToldTurn(page, q) BY <1>5, <1>7 DEF ToldTurn, PageIs
<1>10. PageStep(page, q) BY <1>7, <1>8, <1>9 DEF PageStep, PageIs
<1>11. q.epoch = page.epoch BY <1>7 DEF PageIs
<1> QED BY <1>3, <1>10, <1>11, LeadDone

LEMMA InspectedKeeps == ASSUME IInv, NEW s \in Slots, Inspected(s) PROVE IInv'
<1>1. /\ tasks[s].pc = "inspect" /\ Current(s) /\ tasks[s].reply \notin {None, "working"}
  BY NoneIs DEF Inspected, Got, Answer
<1>2. tasks[s].by = "decide" BY <1>1, Now, CallerIs
<1>3. /\ Answered(tasks[s]) /\ tasks[s].tag = page.tag /\ page.stage \notin Resting
      /\ Numbered(page.tag)
  BY <1>1, <1>2, SingleNow
<1>4. ~Living(page.tag) BY <1>1, <1>3, EndedIs DEF Ended
<1> QED BY <1>1, <1>2, <1>3, <1>4, SingleEnds DEF Inspected

LEMMA LinkedKeeps == ASSUME IInv, NEW s \in Slots, Linked(s) PROVE IInv'
<1>1. /\ tasks[s].pc \in {"link", "continue", "finishLink"} /\ Current(s) /\ tasks[s].reply = "ok"
      /\ tasks[s].reply \notin {None, "working"}
  BY NoneIs DEF Linked, Got, Answer
<1>2. tasks[s].by = "decide" BY <1>1, Now, CallerIs DEF SingleCalls
<1>3. /\ Answered(tasks[s]) /\ tasks[s].tag = page.tag /\ page.stage \notin Resting
      /\ Numbered(page.tag) /\ page.pending /\ page.stage \in SingleStages
      /\ SinglePlaced(tasks[s], page) /\ (page.tag # None => page.flow = "single")
  BY <1>1, <1>2, SingleNow DEF SingleCalls
<1>4. ASSUME NEW stage \in {"single-comparison", "single-finish"}, NEW pc,
             page.stage \in {"single-link", "single-comparison"},
             \/ stage = "single-comparison" /\ pc = "continue"
             \/ stage = "single-finish" /\ pc = "finishLink",
             Turn([page EXCEPT !.stage = stage], Await(s, pc))
      PROVE  IInv'
  <2> DEFINE q == [page EXCEPT !.stage = stage]
  <2>1. stage \in AfterLink /\ stage \in SingleStages /\ stage \in Stages /\ stage \notin Recoveries
    BY WordsIn DEF AfterLink, SingleStages, Recoveries
  <2>2. PageIs(q, stage, page.epoch, page.flow, page.tag, page.pending, page.screen, page.shown,
               page.told)
    BY <2>1, Now, StageIs
  <2>3. Turn(q, Await(s, pc)) BY <1>4
  <2> HIDE DEF q
  <2>4. page.stage # "single-unlock" BY <1>4
  <2>5. PageOK(q) BY <1>3, <2>1, <2>2, <2>4, Now DEF PageOK, PageIs
  <2> QED BY <1>1, <1>2, <1>3, <1>4, <2>1, <2>2, <2>3, <2>5, SingleCallKeeps
<1>5. CASE Got(s, "link", "ok") /\ Turn([page EXCEPT !.stage = "single-comparison"], Await(s, "continue"))
  <2>1. page.stage = "single-link" BY <1>3, <1>5 DEF SinglePlaced, Got, Answer
  <2> QED BY <1>4, <1>5, <2>1
<1>6. CASE Got(s, "continue", "ok") /\ Turn([page EXCEPT !.stage = "single-finish"], Await(s, "finishLink"))
  <2>1. page.stage = "single-comparison" BY <1>3, <1>6 DEF SinglePlaced, Got, Answer
  <2> QED BY <1>4, <1>6, <2>1
<1>7. CASE /\ Got(s, "finishLink", "ok")
           /\ Turn(Settled(Result([page EXCEPT !.stage = "idle", !.tag = None], "connected",
                                  tasks[s].tag)), Done(s))
  <2>1. ~Living(page.tag) BY <1>1, <1>3, <1>7, EndedIs DEF Ended, Got, Answer
  <2> QED BY <1>1, <1>2, <1>3, <1>7, <2>1, SingleEnds
<1> QED BY <1>5, <1>6, <1>7 DEF Linked

LEMMA SingleRevokedKeeps == ASSUME IInv, NEW s \in Slots, SingleRevoked(s) PROVE IInv'
<1>1. /\ tasks[s].pc = "revoke" /\ Answered(tasks[s]) /\ Current(s) /\ tasks[s].by = "decide"
      /\ tasks[s].mode = "single" /\ tasks[s].reply = "ok" /\ tasks[s].reply \notin {None, "working"}
  BY NoneIs DEF SingleRevoked, Got, Answer, Answered, Fresh
<1>2. page.stage \in SingleStages /\ tasks[s].tag = page.tag /\ page.pending
  BY <1>1, Now DEF Placed, SinglePlaced
<1>3. ~Living(page.tag) BY <1>1, <1>2, EndedIs DEF Ended
<1>4. CASE page.stage \in AfterLink /\ Turn(page, Await(s, "inspect"))
  <2>1. PageIs(page, page.stage, page.epoch, page.flow, page.tag, page.pending, page.screen,
               page.shown, page.told)
    BY Now DEF PageIs
  <2> QED BY <1>1, <1>2, <1>3, <1>4, <2>1, Now, SingleCallKeeps
<1>5. CASE page.stage \notin AfterLink /\ Turn(Settled(NothingShared(page, tasks[s].tag)), Done(s))
  <2> DEFINE x == NothingShared(page, tasks[s].tag)
             told == [what |-> "nothing shared", att |-> tasks[s].tag]
             q == Settled(x)
  <2>1. PageIs(x, "idle", page.epoch, page.flow, None, page.pending, "pairing-enter", page.shown, told)
    BY Now, NothingSharedIs
  <2>2. told.att = page.tag BY <1>2
  <2>3. Turn(q, Done(s)) BY <1>5
  <2> HIDE DEF x, told
  <2>4. PageIs(q, "idle", page.epoch, page.flow, None, FALSE, "pairing-enter", page.shown, told)
    BY <2>1, SettledOf
  <2> HIDE DEF q
  <2>5. PageOK(q) BY <2>4, StagesApart DEF PageOK, PageIs
  <2>6. ToldTurn(page, q) BY <1>3, <1>5, <2>2, <2>4, Unshared DEF ToldTurn, PageIs
  <2>7. PageStep(page, q) BY <1>3, <2>4, <2>5, <2>6 DEF PageStep, PageIs
  <2>8. q.epoch = page.epoch /\ q.stage = "idle" BY <2>4 DEF PageIs
  <2> QED BY <1>1, <2>3, <2>7, <2>8, StagesApart, LeadDone
<1> QED BY <1>4, <1>5 DEF SingleRevoked

-----------------------------------------------------------------------------
(* What a click does *)

(* Nobody is about to end what a consent screen that takes a decision is at. *)
LEMMA NoLeader ==
  ASSUME IInv, ~page.pending, page.stage \notin {"entry", "contact", "scanning", "cancelling"}
  PROVE  \A s \in Slots : ~Leads(tasks[s], page)
<1> SUFFICES ASSUME NEW s \in Slots, Leads(tasks[s], page) PROVE FALSE OBVIOUS
<1>1. /\ tasks[s] \in TaskStates /\ CallOK(tasks[s]) /\ Placed(tasks[s], page)
      /\ tasks[s].by \in {"start", "decide", "scan", "cancel", "leave"}
  BY Now DEF Leads, Current
<1>2. tasks[s].by # "decide" /\ tasks[s].by \notin {"cancel", "leave"} BY <1>1 DEF Placed
<1>3. tasks[s].by # "scan" BY <1>1 DEF Placed
<1>4. CASE tasks[s].by = "start"
  <2>1. StartPlaced(tasks[s], page) /\ tasks[s].pc \in OfStart BY <1>1, <1>4 DEF Placed, CallOK
  <2> QED BY <2>1 DEF StartPlaced, OfStart, StartCalls
<1> QED BY <1>1, <1>2, <1>3, <1>4

(* A click whose call decides what is on the screen: its page is q. *)
LEMMA DecisionGood ==
  ASSUME IInv, ~page.pending, Room(tasks),
         page.stage \notin {"entry", "contact", "scanning", "cancelling"},
         NEW q, NEW stage, NEW screen, NEW shown, NEW told,
         PageIs(q, stage, page.epoch, page.flow, page.tag, TRUE, screen, shown, told), PageOK(q),
         told = page.told \/ told = Nothing,
         page.stage \in Resting => stage \in Resting,
         page.stage \in AfterLink => stage \in AfterLink,
         NEW t, NEW pc \in OfDecide \ {"revoke", "inspect"}, NEW pr, Good(page, tasks, pr),
         TaskIs(t, pc, "decide", page.epoch, page.tag, None, None),
         pc = "link" => page.tag \in pr /\ stage \in AfterLink,
         SinglePlaced(t, q), LegacyPlaced(t, q)
  PROVE  Good(q, Launch(tasks, t), pr)
<1>1. \A r \in Slots : ~Leads(tasks[r], page) BY NoLeader
<1>2. CallOK(t) BY NoneIs DEF CallOK, TaskIs, OfDecide, SingleCalls, LegacyCalls
<1>3. Placed(t, q)
  <2>1. t.pc # "resume" BY DEF TaskIs, OfDecide, SingleCalls, LegacyCalls
  <2> QED BY <2>1 DEF Placed, TaskIs, PageIs
<1>4. Fits(t, q)
  <2>1. page.epoch \in Nat BY DEF IInv, Good, StateOK, PageOK, PageStates
  <2> QED BY <1>3, <2>1 DEF Fits, TaskIs, PageIs
<1>5. ToldTurn(page, q) BY NotesAre DEF ToldTurn, PageIs
<1>6. Calm(page, q) BY DEF Calm, PageIs
<1>7. t.pc = "link" => t.tag \in pr /\ t.tag = page.tag /\ q.stage \in AfterLink /\ q.tag = t.tag
  BY DEF TaskIs, PageIs
<1>8. /\ t \in TaskStates /\ t.reply = None /\ t.tag = page.tag /\ t.pc # "inspect"
      /\ q.tag = page.tag /\ (page.stage \in AfterLink => q.stage \in AfterLink)
  BY DEF TaskIs, PageIs
<1> QED BY <1>1, <1>2, <1>4, <1>5, <1>6, <1>7, <1>8, LaunchGood

LEMMA DecisionIs ==
  ASSUME IInv, NEW pc \in Calls
  PROVE  /\ TaskIs([Waiting(pc, "decide", page.epoch) EXCEPT !.tag = page.tag],
                   pc, "decide", page.epoch, page.tag, None, None)
         /\ TaskIs(Waiting(pc, "decide", page.epoch), pc, "decide", page.epoch, None, None, None)
<1> DEFINE w == Waiting(pc, "decide", page.epoch)
<1>1. page.epoch \in Nat /\ page.tag \in Tags BY DEF IInv, Good, StateOK, PageOK, PageStates
<1>2. TaskIs(w, pc, "decide", page.epoch, None, None, None) BY <1>1, WaitingIs
<1> HIDE DEF w
<1>3. TaskIs([w EXCEPT !.tag = page.tag], w.pc, w.by, w.epoch, page.tag, w.mode, w.reply)
  BY <1>1, <1>2, TaggedIs DEF TaskIs
<1>4. TaskIs([w EXCEPT !.tag = page.tag], pc, "decide", page.epoch, page.tag, None, None)
  BY <1>2, <1>3 DEF TaskIs
<1> QED BY <1>2, <1>4 DEF w

(* The page while it waits for a decision. *)
LEMMA PendingOK ==
  ASSUME IInv
  PROVE  /\ page \in PageStates /\ PageOK(page)
         /\ PageIs([page EXCEPT !.pending = TRUE], page.stage, page.epoch, page.flow, page.tag, TRUE,
                   page.screen, page.shown, page.told)
         /\ PageOK([page EXCEPT !.pending = TRUE])
<1> DEFINE q == [page EXCEPT !.pending = TRUE]
<1>1. page \in PageStates /\ PageOK(page) /\ page.stage \in Stages
  BY DEF IInv, Good, StateOK, PageOK, PageStates
<1>2. PageIs(q, page.stage, page.epoch, page.flow, page.tag, TRUE, page.screen, page.shown, page.told)
  BY <1>1, PageWords, PendingIs
<1> HIDE DEF q
<1>3. PageOK(q) BY <1>1, <1>2 DEF PageOK, PageIs
<1> QED BY <1>1, <1>2, <1>3 DEF q

LEMMA DecidesKeeps ==
  ASSUME IInv, NEW pc \in OfDecide \ {"revoke", "inspect", "link", "refresh"},
         Decides(pc), UNCHANGED pressed,
         \/ pc = "unlock" /\ page.stage = "single-unlock"
         \/ pc \in {"preliminary", "preliminaryDecline"} /\ page.stage = "intent" /\ page.flow = "legacy"
         \/ pc \in {"final", "finalDecline"} /\ page.stage = "final" /\ page.flow = "legacy"
         \/ pc = "finish" /\ page.stage = "finish" /\ page.flow = "legacy"
         \/ pc = "recover" /\ page.stage \in Recoveries
  PROVE  IInv'
<1> DEFINE q == [page EXCEPT !.pending = TRUE]
           t == [Waiting(pc, "decide", page.epoch) EXCEPT !.tag = page.tag]
<1>1. ~page.pending /\ Room(tasks) /\ page' = q /\ tasks' = Launch(tasks, t)
      /\ UNCHANGED <<native, record, pressed>>
  BY DEF Decides
<1>2. pc \in Calls BY DEF Calls, OfDecide
<1>3. TaskIs(t, pc, "decide", page.epoch, page.tag, None, None) BY <1>2, DecisionIs
<1>4. PageIs(q, page.stage, page.epoch, page.flow, page.tag, TRUE, page.screen, page.shown, page.told)
      /\ PageOK(q) /\ PageOK(page)
  BY PendingOK
<1> HIDE DEF q, t
<1>5. page.stage \in Recoveries => page.flow = "legacy" BY <1>4 DEF PageOK
<1>6. SinglePlaced(t, q) BY <1>3, <1>4 DEF SinglePlaced, TaskIs, PageIs
<1>7. LegacyPlaced(t, q) BY <1>3, <1>4, <1>5 DEF LegacyPlaced, TaskIs, PageIs, LegacyCalls
<1>8. page.stage \notin {"entry", "contact", "scanning", "cancelling"} BY DEF Recoveries
<1>9. Good(page, tasks, pressed) BY DEF IInv
<1>10. Good(q, Launch(tasks, t), pressed)
  BY <1>1, <1>3, <1>4, <1>6, <1>7, <1>8, <1>9, DecisionGood
<1> QED BY <1>1, <1>10, StateKeeps

LEMMA ChoicesKeep ==
  ASSUME IInv, Unlock \/ Retry \/ Recover \/ \E b \in BOOLEAN : DecideIntent(b) \/ DecideFinal(b)
  PROVE  IInv'
<1>1. CASE Unlock BY <1>1, DecidesKeeps DEF Unlock, OfDecide, SingleCalls
<1>2. CASE Retry BY <1>2, DecidesKeeps DEF Retry, TwoDecision, OfDecide, LegacyCalls
<1>3. CASE Recover BY <1>3, DecidesKeeps DEF Recover, Recovering, Recoveries, OfDecide, LegacyCalls
<1>4. ASSUME NEW b \in BOOLEAN, DecideIntent(b) PROVE IInv'
  <2> DEFINE pc == IF b THEN "preliminary" ELSE "preliminaryDecline"
  <2>1. pc \in {"preliminary", "preliminaryDecline"}
        /\ pc \in OfDecide \ {"revoke", "inspect", "link", "refresh"}
    BY DEF OfDecide, LegacyCalls
  <2>2. Decides(pc) /\ UNCHANGED pressed /\ page.stage = "intent" /\ page.flow = "legacy"
    BY <1>4 DEF DecideIntent, TwoDecision
  <2> HIDE DEF pc
  <2> QED BY <2>1, <2>2, DecidesKeeps
<1>5. ASSUME NEW b \in BOOLEAN, DecideFinal(b) PROVE IInv'
  <2> DEFINE pc == IF b THEN "final" ELSE "finalDecline"
  <2>1. pc \in {"final", "finalDecline"} /\ pc \in OfDecide \ {"revoke", "inspect", "link", "refresh"}
    BY DEF OfDecide, LegacyCalls
  <2>2. Decides(pc) /\ UNCHANGED pressed /\ page.stage = "final" /\ page.flow = "legacy"
    BY <1>5 DEF DecideFinal, TwoDecision
  <2> HIDE DEF pc
  <2> QED BY <2>1, <2>2, DecidesKeeps
<1> QED BY <1>1, <1>2, <1>3, <1>4, <1>5

LEMMA DecideRelayKeeps ==
  ASSUME IInv, NEW b \in BOOLEAN, DecideRelay(b) PROVE IInv'
<1> DEFINE pc == IF b THEN "relayApprove" ELSE "relayReject"
           x == [page EXCEPT !.pending = TRUE]
           q == Screen(x, "pairing-wait")
           t == Waiting(pc, "decide", page.epoch)
<1>1. /\ ~page.pending /\ Room(tasks) /\ page' = q /\ tasks' = Launch(tasks, t)
      /\ UNCHANGED <<native, record, pressed>> /\ page.flow = "legacy" /\ page.stage = "relay"
  BY DEF DecideRelay, TwoDecision
<1>2. pc \in {"relayApprove", "relayReject"} OBVIOUS
<1>3. pc \in Calls /\ pc \in OfDecide \ {"revoke", "inspect"} /\ pc # "link"
  BY <1>2 DEF Calls, OfDecide, LegacyCalls
<1> HIDE DEF pc
<1>4. PageOK(page)
      /\ PageIs(x, page.stage, page.epoch, page.flow, page.tag, TRUE, page.screen, page.shown, page.told)
  BY PendingOK
<1>5. page.tag = None BY <1>1, <1>4, Untagged
<1>6. TaskIs(t, pc, "decide", page.epoch, page.tag, None, None) BY <1>3, <1>5, DecisionIs
<1> HIDE DEF x, t
<1>7. PageIs(q, x.stage, x.epoch, x.flow, x.tag, x.pending, "pairing-wait", x.shown, Nothing)
  BY <1>4, PageWords, ScreenIs DEF PageIs
<1> HIDE DEF q
<1>8. PageIs(q, "relay", page.epoch, page.flow, page.tag, TRUE, "pairing-wait", page.shown, Nothing)
  BY <1>1, <1>4, <1>7 DEF PageIs
<1>9. PageOK(q) BY <1>5, <1>8, StagesApart DEF PageOK, PageIs
<1>10. SinglePlaced(t, q) BY <1>2, <1>6 DEF SinglePlaced, TaskIs
<1>11. LegacyPlaced(t, q) BY <1>1, <1>2, <1>6, <1>8 DEF LegacyPlaced, TaskIs, PageIs
<1>12. Good(page, tasks, pressed) BY DEF IInv
<1>13. "relay" \notin Resting /\ "relay" \notin AfterLink BY DEF Resting, Recoveries, AfterLink
<1>14. Good(q, Launch(tasks, t), pressed)
  BY <1>1, <1>3, <1>6, <1>8, <1>9, <1>10, <1>11, <1>12, <1>13, DecisionGood
<1> QED BY <1>1, <1>14, StateKeeps

LEMMA KeepPendingKeeps == ASSUME IInv, KeepPending PROVE IInv'
<1> DEFINE q == [page EXCEPT !.pending = TRUE, !.stage = "idle"]
           t == Waiting("refresh", "decide", page.epoch)
<1>1. /\ ~page.pending /\ Room(tasks) /\ page' = q /\ tasks' = Launch(tasks, t)
      /\ UNCHANGED <<native, record, pressed>> /\ page.stage \in Recoveries
  BY DEF KeepPending, Recovering, Recoveries
<1>2. "refresh" \in Calls /\ "refresh" \in OfDecide \ {"revoke", "inspect"} BY DEF Calls, OfDecide
<1>3. PageOK(page) /\ page \in PageStates BY PendingOK
<1>4. page.tag = None BY <1>1, <1>3, Untagged, StagesApart
<1>5. TaskIs(t, "refresh", "decide", page.epoch, page.tag, None, None) BY <1>2, <1>4, DecisionIs
<1>6. PageIs(q, "idle", page.epoch, page.flow, page.tag, TRUE, page.screen, page.shown, page.told)
  BY <1>3, PageWords, WordsIn, PendingIs
<1> HIDE DEF q, t
<1>7. PageOK(q) BY <1>4, <1>6, StagesApart DEF PageOK, PageIs
<1>8. SinglePlaced(t, q) BY <1>5 DEF SinglePlaced, TaskIs
<1>9. LegacyPlaced(t, q) BY <1>5, <1>6 DEF LegacyPlaced, TaskIs, PageIs, LegacyCalls
<1>10. Good(page, tasks, pressed) BY DEF IInv
<1>11. page.stage \notin {"entry", "contact", "scanning", "cancelling"} /\ page.stage \notin AfterLink
  BY <1>1 DEF Recoveries, AfterLink
<1>12. Good(q, Launch(tasks, t), pressed)
  BY <1>1, <1>2, <1>5, <1>6, <1>7, <1>8, <1>9, <1>10, <1>11, StagesApart, DecisionGood
<1> QED BY <1>1, <1>12, StateKeeps

(* What the person pressed only grows. *)
LEMMA PressedGrows ==
  ASSUME NEW p, NEW ts, NEW pr, NEW more, Good(p, ts, pr), pr \subseteq more
  PROVE  Good(p, ts, more)
BY DEF Good, LinkOK

LEMMA LinkKeeps == ASSUME IInv, Link PROVE IInv'
<1> DEFINE q == [page EXCEPT !.pending = TRUE, !.stage = "single-link"]
           t == [Waiting("link", "decide", page.epoch) EXCEPT !.tag = page.tag]
<1>1. /\ ~page.pending /\ Room(tasks) /\ page' = q /\ tasks' = Launch(tasks, t)
      /\ UNCHANGED <<native, record>> /\ page.stage = "single-ready" /\ page.flow = "single"
      /\ page.screen = "pairing-consent"
  BY DEF Link, OnConsent
<1>2. "link" \in Calls /\ "link" \in OfDecide \ {"revoke", "inspect"}
  BY DEF Calls, OfDecide, SingleCalls
<1>3. PageOK(page) /\ page \in PageStates BY PendingOK
<1>4. TaskIs(t, "link", "decide", page.epoch, page.tag, None, None) BY <1>2, DecisionIs
<1>5. "single-link" \in Stages /\ "single-link" \in SingleStages /\ "single-link" \in AfterLink
      /\ "single-ready" \in SingleStages /\ "single-link" \notin Recoveries
  BY WordsIn DEF SingleStages, AfterLink, Recoveries
<1>6. PageIs(q, "single-link", page.epoch, page.flow, page.tag, TRUE, page.screen, page.shown, page.told)
  BY <1>3, <1>5, PageWords, PendingIs
<1> HIDE DEF q, t
<1>7. page.shown.att = page.tag /\ page.shown.what = "preview" BY <1>1, <1>3, <1>5 DEF PageOK
<1>8. page.shown = [what |-> "preview", att |-> page.tag] BY <1>3, <1>7 DEF PageStates
<1>9. pressed' = pressed \cup {page.tag} BY <1>8 DEF Link
<1>10. Good(page, tasks, pressed \cup {page.tag}) BY PressedGrows DEF IInv
<1>11. PageOK(q) BY <1>1, <1>3, <1>5, <1>6, <1>7 DEF PageOK, PageIs
<1>12. SinglePlaced(t, q) BY <1>4, <1>6 DEF SinglePlaced, TaskIs, PageIs
<1>13. LegacyPlaced(t, q) BY <1>4 DEF LegacyPlaced, TaskIs, LegacyCalls
<1>14. page.stage \notin {"entry", "contact", "scanning", "cancelling"} /\ page.stage \notin Resting
  BY <1>1, <1>5, StagesApart
<1>15. Good(q, Launch(tasks, t), pressed \cup {page.tag})
  BY <1>1, <1>2, <1>4, <1>5, <1>6, <1>10, <1>11, <1>12, <1>13, <1>14, DecisionGood
<1> QED BY <1>1, <1>9, <1>15, StateKeeps

-----------------------------------------------------------------------------
(* Entry, leaving, cancelling and coming back *)

(* A click that fences every handler that waits, and makes a call of its own. *)
LEMMA FencingGood ==
  ASSUME NEW p, NEW ts, NEW pr, Good(p, ts, pr), Room(ts),
         NEW q, NEW stage, NEW flow, NEW tag, NEW pending, NEW screen, NEW shown, NEW told,
         PageIs(q, stage, p.epoch + 1, flow, tag, pending, screen, shown, told), PageOK(q),
         ToldTurn(p, q), tag = None,
         NEW t, t \in TaskStates, CallOK(t), t.reply = None, t.tag \in {None, p.tag},
         t.pc \notin {"inspect", "link"}, t.epoch = p.epoch + 1, Placed(t, q),
         p.tag = None \/ Ends(t, p.tag)
  PROVE  Good(q, Launch(ts, t), pr)
<1>1. ~Living(None) BY NoneIs DEF Living, Good, StateOK, NativeStates
<1>2. q.tag = p.tag \/ Ends(t, p.tag) \/ ~Living(p.tag) BY <1>1 DEF PageIs
<1>3. q.epoch \in Nat BY DEF PageIs, PageStates
<1>4. Fits(t, q) BY <1>3 DEF Fits, PageIs
<1>5. q.epoch = p.epoch + 1 /\ q.tag \in {None, p.tag} BY DEF PageIs
<1>6. q.tag = p.tag /\ p.stage \in AfterLink => q.tag = None \/ q.stage \in AfterLink BY DEF PageIs
<1> QED BY <1>2, <1>4, <1>5, <1>6, LaunchGood

(* The same, when the attempt the page holds is revoked. *)
LEMMA RevokingGood ==
  ASSUME NEW p, NEW ts, NEW pr, Good(p, ts, pr), Room(ts),
         NEW q, NEW stage, NEW flow, NEW tag, NEW pending, NEW screen, NEW shown, NEW told,
         PageIs(q, stage, p.epoch + 1, flow, tag, pending, screen, shown, told), PageOK(q),
         ToldTurn(p, q), tag = None,
         NEW by \in {"cancel", "leave", "forget"}, by # "forget" => stage = "cancelling"
  PROVE  Good(q, Launch(ts, Revocation(p, by)), pr)
<1> DEFINE t == Revocation(p, by)
<1>1. p \in PageStates /\ PageOK(p) BY DEF Good, StateOK, PageOK
<1>2. TaskIs(t, "revoke", by, p.epoch + 1, p.tag, p.flow, None) /\ CallOK(t)
  BY <1>1, RevocationIs
<1> HIDE DEF t
<1>3. Placed(t, q) BY <1>2 DEF Placed, TaskIs, PageIs
<1>4. p.tag = None \/ Ends(t, p.tag) BY <1>1, <1>2 DEF Ends, TaskIs, PageOK
<1>5. /\ t \in TaskStates /\ t.reply = None /\ t.tag \in {None, p.tag}
      /\ t.pc \notin {"inspect", "link"} /\ t.epoch = p.epoch + 1
  BY <1>2 DEF TaskIs
<1>6. Good(q, Launch(ts, t), pr) BY <1>2, <1>3, <1>4, <1>5, FencingGood
<1> QED BY <1>6 DEF t

LEMMA IdleHolds == ASSUME IInv, page.stage = "idle" PROVE page.tag = None
BY StagesApart, Untagged DEF IInv, Good, StateOK

LEMMA PageIn == IInv => /\ page \in PageStates /\ PageOK(page) /\ Good(page, tasks, pressed)
                        /\ page.epoch \in Nat /\ page.tag \in Tags /\ page.stage \in Stages
BY DEF IInv, Good, StateOK, PageOK, PageStates

LEMMA ToPairingKeeps == ASSUME IInv, ToPairing PROVE IInv'
<1> DEFINE x == Forget(page)
           q == Screen(x, "pairing-enter")
<1>1. PageIs(x, "idle", page.epoch + 1, "single", None, FALSE, page.screen, page.shown, page.told)
  BY PageIn, ForgetIs
<1>2. /\ page.stage = "idle" => Turn(q, tasks)
      /\ page.stage # "idle" => Room(tasks) /\ Turn(q, Launch(tasks, Revocation(page, "forget")))
  BY DEF ToPairing
<1> HIDE DEF x
<1>3. PageIs(q, x.stage, x.epoch, x.flow, x.tag, x.pending, "pairing-enter", x.shown, Nothing)
  BY <1>1, PageWords, ScreenIs DEF PageIs
<1> HIDE DEF q
<1>4. PageIs(q, "idle", page.epoch + 1, "single", None, FALSE, "pairing-enter", page.shown, Nothing)
  BY <1>1, <1>3 DEF PageIs
<1>5. PageOK(q) BY <1>4, StagesApart DEF PageOK, PageIs
<1>6. ToldTurn(page, q) BY <1>4, NotesAre DEF ToldTurn, PageIs
<1>7. CASE page.stage = "idle"
  <2>1. Good(q, tasks, pressed)
    BY <1>4, <1>5, <1>6, <1>7, IdleHolds, PageIn, PageOnlyGood DEF PageIs
  <2> QED BY <1>2, <1>7, <2>1, TurnKeeps
<1>8. CASE page.stage # "idle"
  <2>1. Good(q, Launch(tasks, Revocation(page, "forget")), pressed)
    BY <1>2, <1>4, <1>5, <1>6, <1>8, PageIn, RevokingGood
  <2> QED BY <1>2, <1>8, <2>1, TurnKeeps
<1> QED BY <1>7, <1>8

LEMMA SelectEntryModeKeeps ==
  ASSUME IInv, NEW mode \in Entries, SelectEntryMode(mode) PROVE IInv'
<1> DEFINE q == [page EXCEPT !.epoch = @ + 1, !.entry = mode]
<1>1. mode \in {"full", "manual", "legacy"} BY ScreenAssumption
<1>2. PageIs(q, page.stage, page.epoch + 1, page.flow, page.tag, page.pending, page.screen,
             page.shown, page.told)
  BY <1>1, PageIn, EpochIs
<1>3. page.stage = "idle" /\ Turn(q, tasks) BY DEF SelectEntryMode
<1>4. page.tag = None BY <1>3, IdleHolds
<1> HIDE DEF q
<1>5. PageOK(q) BY <1>2, <1>3, <1>4, StagesApart DEF PageOK, PageIs
<1>6. ToldTurn(page, q) BY <1>2 DEF ToldTurn, PageIs
<1>7. Good(q, tasks, pressed) BY <1>2, <1>4, <1>5, <1>6, PageIn, PageOnlyGood DEF PageIs
<1> QED BY <1>3, <1>7, TurnKeeps

LEMMA StartKeeps == ASSUME IInv, Start PROVE IInv'
<1> DEFINE mode == ModeOf(page.entry)
           pc == FirstCall(mode)
           q == Entering(page, mode)
           t == Waiting(pc, "start", page.epoch + 1)
<1>1. page.stage = "idle" /\ Room(tasks) /\ Turn(q, Launch(tasks, t)) BY DEF Start
<1>2. \/ mode = "single" /\ pc = "begin"
      \/ mode = "legacy" /\ pc = "recognise"
  BY DEF ModeOf, FirstCall
<1> HIDE DEF mode, pc
<1>3. pc \in Calls /\ pc \in OfStart BY <1>2 DEF Calls, StartCalls, OfStart
<1>4. page.epoch + 1 \in Nat BY PageIn
<1>5. PageIs(q, "entry", page.epoch + 1, mode, None, page.pending, "pairing-wait", page.shown, Nothing)
  BY <1>2, PageIn, EnteringIs
<1>6. TaskIs(t, pc, "start", page.epoch + 1, None, None, None) BY <1>3, <1>4, WaitingIs
<1> HIDE DEF q, t
<1>7. PageOK(q) BY <1>5, StagesApart DEF PageOK, PageIs
<1>8. CallOK(t) BY <1>2, <1>3, <1>6, NoneIs DEF CallOK, TaskIs
<1>9. Placed(t, q) BY <1>2, <1>5, <1>6 DEF Placed, StartPlaced, TaskIs, PageIs
<1>10. ToldTurn(page, q) BY <1>5, NotesAre DEF ToldTurn, PageIs
<1>11. page.tag = None BY <1>1, IdleHolds
<1>12. Good(q, Launch(tasks, t), pressed)
  BY <1>1, <1>2, <1>5, <1>6, <1>7, <1>8, <1>9, <1>10, <1>11, PageIn, FencingGood DEF TaskIs
<1> QED BY <1>1, <1>12, TurnKeeps

(* A camera opened, or closed. *)
LEMMA CameraKeeps == ASSUME IInv, Scan \/ StopCamera PROVE IInv'
<1> DEFINE Q(stage) == [page EXCEPT !.epoch = @ + 1, !.stage = stage]
           T(pc) == Waiting(pc, "scan", page.epoch + 1)
<1>1. /\ page.stage \in {"idle", "scanning"} /\ Room(tasks)
      /\ \/ Turn(Q("scanning"), Launch(tasks, T("camera")))
         \/ Turn(Q("cancelling"), Launch(tasks, T("stopCamera")))
  BY DEF Scan, StopCamera
<1>2. page.tag = None BY <1>1, PageIn, StagesApart, Untagged
<1>3. ASSUME NEW stage, NEW pc, Turn(Q(stage), Launch(tasks, T(pc))),
             \/ stage = "scanning" /\ pc = "camera"
             \/ stage = "cancelling" /\ pc = "stopCamera"
      PROVE  IInv'
  <2> DEFINE q == Q(stage)
             t == T(pc)
  <2>1. stage \in Stages /\ pc \in Calls /\ page.epoch + 1 \in Nat
    <3>1. stage \in Stages BY <1>3, WordsIn
    <3>2. pc \in Calls BY <1>3 DEF Calls
    <3>3. page.epoch + 1 \in Nat BY PageIn
    <3> QED BY <3>1, <3>2, <3>3
  <2>2. page.entry \in {"full", "manual", "legacy"} BY PageIn DEF PageStates
  <2>3. PageIs(q, stage, page.epoch + 1, page.flow, page.tag, page.pending, page.screen, page.shown,
               page.told)
    BY <2>1, <2>2, PageIn, EpochIs
  <2>4. TaskIs(t, pc, "scan", page.epoch + 1, None, None, None) BY <2>1, WaitingIs
  <2>5. Turn(q, Launch(tasks, t)) BY <1>3
  <2> HIDE DEF q, t
  <2>6. PageOK(q) BY <1>2, <1>3, <2>3, StagesApart DEF PageOK, PageIs
  <2>7. CallOK(t) BY <1>3, <2>4, NoneIs DEF CallOK, TaskIs
  <2>8. Placed(t, q) BY <1>3, <2>3, <2>4 DEF Placed, TaskIs, PageIs
  <2>9. ToldTurn(page, q) BY <2>3 DEF ToldTurn, PageIs
  <2>10. Good(q, Launch(tasks, t), pressed)
    BY <1>1, <1>2, <1>3, <2>3, <2>4, <2>6, <2>7, <2>8, <2>9, PageIn, FencingGood DEF TaskIs
  <2> QED BY <2>5, <2>10, TurnKeeps
<1> QED BY <1>1, <1>3

LEMMA StoppedGood ==
  ASSUME IInv
  PROVE  /\ PageIs(Stopped(page), "cancelling", page.epoch + 1, page.flow, None, TRUE, page.screen,
                   page.shown, page.told)
         /\ PageOK(Stopped(page)) /\ ToldTurn(page, Stopped(page))
<1> DEFINE q == Stopped(page)
<1>1. PageIs(q, "cancelling", page.epoch + 1, page.flow, None, TRUE, page.screen, page.shown, page.told)
  BY PageIn, StoppedIs
<1> HIDE DEF q
<1>2. PageOK(q) BY <1>1, StagesApart DEF PageOK, PageIs
<1>3. ToldTurn(page, q) BY <1>1 DEF ToldTurn, PageIs
<1> QED BY <1>1, <1>2, <1>3 DEF q

LEMMA CancelKeeps == ASSUME IInv, Cancel PROVE IInv'
<1>1. Room(tasks) /\ Turn(Stopped(page), Launch(tasks, Revocation(page, "cancel"))) BY DEF Cancel
<1>2. Good(Stopped(page), Launch(tasks, Revocation(page, "cancel")), pressed)
  BY <1>1, StoppedGood, PageIn, RevokingGood
<1> QED BY <1>1, <1>2, TurnKeeps

LEMMA BackgroundKeeps == ASSUME IInv, Background PROVE IInv'
<1> DEFINE x == Stopped(page)
           told == [what |-> "interrupted", att |-> page.tag]
           q == Result(x, "interrupted", page.tag)
<1>1. Room(tasks) /\ Turn(q, Launch(tasks, Revocation(page, "leave"))) BY DEF Background
<1>2. PageIs(x, "cancelling", page.epoch + 1, page.flow, None, TRUE, page.screen, page.shown, page.told)
  BY StoppedGood
<1> HIDE DEF x
<1>3. PageIs(q, x.stage, x.epoch, x.flow, x.tag, x.pending, "pairing-result", x.shown, told)
  <2>1. x \in PageStates BY <1>2 DEF PageIs
  <2>2. "interrupted" \in Notes /\ page.tag \in Tags BY WordsIn, PageIn
  <2> QED BY <2>1, <2>2, ResultIs
<1>4. told.what # "nothing shared" /\ told.att = page.tag OBVIOUS
<1> HIDE DEF q, told
<1>5. PageIs(q, "cancelling", page.epoch + 1, page.flow, None, TRUE, "pairing-result", page.shown, told)
  BY <1>2, <1>3 DEF PageIs
<1>6. PageOK(q) BY <1>5, StagesApart DEF PageOK, PageIs
<1>7. ToldTurn(page, q) BY <1>4, <1>5 DEF ToldTurn, PageIs
<1>8. Good(q, Launch(tasks, Revocation(page, "leave")), pressed)
  BY <1>1, <1>5, <1>6, <1>7, PageIn, RevokingGood
<1> QED BY <1>1, <1>8, TurnKeeps

LEMMA CancelledKeeps == ASSUME IInv, NEW s \in Slots, Cancelled(s) PROVE IInv'
<1> DEFINE x == [page EXCEPT !.stage = "idle", !.pending = FALSE]
           q == IF tasks[s].by = "cancel" THEN Screen(x, "applications") ELSE x
<1>1. /\ Answered(tasks[s]) /\ Current(s) /\ tasks[s].by \in {"cancel", "leave"} /\ Turn(q, Done(s))
  BY NoneIs DEF Cancelled, Got, Answer, Answered, Fresh
<1>2. page.stage = "cancelling" BY <1>1, Now DEF Placed
<1>3. page.tag = None BY <1>2, Now, StagesApart, Untagged
<1>4. PageIs(x, "idle", page.epoch, page.flow, page.tag, FALSE, page.screen, page.shown, page.told)
  BY Now, WordsIn, PageWords, PendingIs
<1> HIDE DEF x
<1>5. CASE q = x
  BY <1>1, <1>3, <1>4, <1>5, StagesApart, UntaggedDone
<1>6. CASE q = Screen(x, "applications")
  <2>1. PageIs(Screen(x, "applications"), x.stage, x.epoch, x.flow, x.tag, x.pending, "applications",
               x.shown, Nothing)
    BY <1>4, PageWords, ScreenIs DEF PageIs
  <2>2. PageIs(q, "idle", page.epoch, page.flow, page.tag, FALSE, "applications", page.shown, Nothing)
    BY <1>4, <1>6, <2>1 DEF PageIs
  <2> HIDE DEF q
  <2> QED BY <1>1, <1>3, <2>2, NotesAre, StagesApart, UntaggedDone
<1> QED BY <1>5, <1>6

(* A call that ends nothing. *)
LEMMA AsideKeeps ==
  ASSUME IInv, Room(tasks), NEW pc, NEW by,
         \/ pc = "resume" /\ by = "foreground" /\ page.stage = "idle"
         \/ pc \in {"refresh", "links"} /\ by = "home",
         Turn(page, Launch(tasks, Waiting(pc, by, page.epoch)))
  PROVE  IInv'
<1> DEFINE t == Waiting(pc, by, page.epoch)
<1>1. pc \in Calls BY DEF Calls
<1>2. TaskIs(t, pc, by, page.epoch, None, None, None) BY <1>1, PageIn, WaitingIs
<1> HIDE DEF t
<1>3. CallOK(t) BY <1>2, NoneIs DEF CallOK, TaskIs
<1>4. Fits(t, page) BY <1>2, PageIn DEF Fits, Placed, TaskIs
<1>5. ~Leads(t, page) /\ t.pc \notin {"link", "inspect"} /\ t \in TaskStates /\ t.reply = None
      /\ t.tag \in {None, page.tag}
  BY <1>2 DEF Leads, TaskIs
<1>6. ToldTurn(page, page) BY DEF ToldTurn
<1>7. Good(page, Launch(tasks, t), pressed) BY <1>3, <1>4, <1>5, <1>6, PageIn, LaunchGood
<1> QED BY <1>7, TurnKeeps DEF t

LEMMA AsideCallsKeep == ASSUME IInv, Foreground \/ ToHome \/ FinishPairing PROVE IInv'
<1>1. CASE Foreground BY <1>1, AsideKeeps DEF Foreground
<1>2. CASE ToHome BY <1>2, AsideKeeps DEF ToHome
<1>3. CASE FinishPairing BY <1>3, AsideKeeps DEF FinishPairing
<1> QED BY <1>1, <1>2, <1>3

(* The answer of a call that ends nothing: the page stays as it is. *)
LEMMA DroppedKeeps ==
  ASSUME IInv, NEW s \in Slots, NothingToResume(s) \/ Fenced(s) \/ Unawaited(s)
  PROVE  IInv'
<1>1. Answered(tasks[s]) /\ Turn(page, Done(s))
  BY NoneIs DEF NothingToResume, Fenced, Unawaited, Got, Answer, Answered, Fresh
<1>2. PageStep(page, page) BY PageIn DEF PageStep, ToldTurn
<1>3. Onward(page, s, page) BY DEF Onward
<1> QED BY <1>1, <1>2, <1>3, DoneKeeps

(* A recovery is offered whatever the stage of rest. *)
LEMMA ResumedKeeps == ASSUME IInv, NEW s \in Slots, Resumed(s) PROVE IInv'
<1> DEFINE x == [[page EXCEPT !.flow = "legacy"] EXCEPT !.stage = "recovery"]
           note == [what |-> "recovery", att |-> Interrupted]
           q == Consent(x, "recovery", Interrupted)
<1>1. /\ Answered(tasks[s]) /\ Current(s) /\ tasks[s].pc = "resume" /\ Turn(q, Done(s))
  BY NoneIs DEF Resumed, Got, Answer, Answered, Fresh, ShowRecovery
<1>2. page.stage \in Resting BY <1>1, Now DEF Placed, Resting
<1>3. page.tag = None BY <1>2, PageIn, StagesApart, Untagged DEF Resting
<1>4. PageIs(x, "recovery", page.epoch, "legacy", page.tag, page.pending, page.screen, page.shown,
             page.told)
  BY WordsIn, PageIn DEF PageIs, PageStates
<1> HIDE DEF x
<1>5. PageIs(q, x.stage, x.epoch, x.flow, x.tag, x.pending, "pairing-consent", note, Nothing)
  <2>1. Interrupted \in Tags BY DEF Interrupted, Tags
  <2> QED BY <1>4, <2>1, WordsIn, ConsentIs DEF PageIs
<1> HIDE DEF q, note
<1>6. PageIs(q, "recovery", page.epoch, "legacy", page.tag, page.pending, "pairing-consent", note,
             Nothing)
  BY <1>4, <1>5 DEF PageIs
<1>7. "recovery" \notin SingleStages BY DEF SingleStages, AfterLink
<1>8. PageOK(q) BY <1>3, <1>6, <1>7 DEF PageOK, PageIs
<1>9. ToldTurn(page, q) BY <1>6, NotesAre DEF ToldTurn, PageIs
<1>10. PageStep(page, q) BY <1>3, <1>6, <1>8, <1>9 DEF PageStep, PageIs
<1>11. Onward(page, s, q) BY <1>2, <1>6 DEF Onward, Offers, PageIs
<1> QED BY <1>1, <1>10, <1>11, DoneKeeps

(* show: leaving the page stops what is in flight. *)
LEMMA ShownLeaving ==
  ASSUME IInv, NEW name \in {"home", "applications"}, Leaves(page, name)
  PROVE  /\ PageIs(Shown(page, name), "cancelling", page.epoch + 1, page.flow, None, TRUE, name,
                   page.shown, Nothing)
         /\ PageOK(Shown(page, name)) /\ ToldTurn(page, Shown(page, name))
<1> DEFINE x == Stopped(page)
           q == Screen(x, name)
<1>1. PageIs(x, "cancelling", page.epoch + 1, page.flow, None, TRUE, page.screen, page.shown, page.told)
  BY StoppedGood
<1>2. Shown(page, name) = q BY DEF Shown
<1> HIDE DEF x
<1>3. PageIs(q, x.stage, x.epoch, x.flow, x.tag, x.pending, name, x.shown, Nothing)
  BY <1>1, PageWords, ScreenIs DEF PageIs
<1> HIDE DEF q
<1>4. PageIs(q, "cancelling", page.epoch + 1, page.flow, None, TRUE, name, page.shown, Nothing)
  BY <1>1, <1>3 DEF PageIs
<1>5. PageOK(q) BY <1>4, StagesApart DEF PageOK, PageIs
<1>6. ToldTurn(page, q) BY <1>4, NotesAre DEF ToldTurn, PageIs
<1> QED BY <1>2, <1>4, <1>5, <1>6

LEMMA ShownStaying ==
  ASSUME IInv, NEW name \in {"home", "applications"}, ~Leaves(page, name)
  PROVE  /\ PageIs(Shown(page, name), page.stage, page.epoch, page.flow, page.tag, page.pending, name,
                   page.shown, Nothing)
         /\ PageOK(Shown(page, name)) /\ ToldTurn(page, Shown(page, name))
<1> DEFINE q == Screen(page, name)
<1>1. Shown(page, name) = q BY DEF Shown
<1>2. PageIs(q, page.stage, page.epoch, page.flow, page.tag, page.pending, name, page.shown, Nothing)
  BY PageIn, PageWords, ScreenIs
<1> HIDE DEF q
<1>3. PageOK(q) BY <1>2, PageIn DEF PageOK, PageIs
<1>4. ToldTurn(page, q) BY <1>2, NotesAre DEF ToldTurn, PageIs
<1> QED BY <1>1, <1>2, <1>3, <1>4

LEMMA ToApplicationsKeeps == ASSUME IInv, ToApplications PROVE IInv'
<1> DEFINE q == Shown(page, "applications")
<1>1. CASE Leaves(page, "applications")
  <2>1. Room(tasks) /\ Turn(q, Launch(tasks, Revocation(page, "leave")))
    BY <1>1 DEF ToApplications, Show, Revoking
  <2>2. Good(q, Launch(tasks, Revocation(page, "leave")), pressed)
    BY <1>1, <2>1, ShownLeaving, PageIn, RevokingGood
  <2> QED BY <2>1, <2>2, TurnKeeps
<1>2. CASE ~Leaves(page, "applications")
  <2>1. Turn(q, tasks) BY <1>2 DEF ToApplications, Show, Revoking
  <2>2. PageIs(q, page.stage, page.epoch, page.flow, page.tag, page.pending, "applications",
               page.shown, Nothing) /\ PageOK(q) /\ ToldTurn(page, q)
    BY <1>2, ShownStaying
  <2> HIDE DEF q
  <2>3. Good(q, tasks, pressed) BY <2>2, PageIn, PageOnlyGood DEF PageIs
  <2> QED BY <2>1, <2>3, TurnKeeps
<1> QED BY <1>1, <1>2

LEMMA RedrawnKeeps == ASSUME IInv, NEW s \in Slots, Redrawn(s) PROVE IInv'
<1> DEFINE name == IF tasks[s].pc = "refresh" THEN "home" ELSE "applications"
           p == Shown(page, name)
<1>1. /\ Answered(tasks[s])
      /\ Turn(IF tasks[s].by = "decide" /\ tasks[s].epoch = p.epoch THEN Settled(p) ELSE p,
              Revoking(page, name, Done(s)))
  BY NoneIs DEF Redrawn, Answered, Fresh
<1>2. name \in {"home", "applications"} OBVIOUS
<1> HIDE DEF name, p
<1>3. CASE Leaves(page, name)
  <2>1. PageIs(p, "cancelling", page.epoch + 1, page.flow, None, TRUE, name, page.shown, Nothing)
        /\ PageOK(p) /\ ToldTurn(page, p)
    BY <1>2, <1>3, ShownLeaving DEF p
  <2>2. tasks[s].epoch # p.epoch
    BY <2>1, Now DEF PageIs, IInv, Good, TurnsOK
  <2>3. Turn(p, Launch(Done(s), Revocation(page, "leave"))) BY <1>1, <1>3, <2>2 DEF Revoking
  <2>4. Good(page, Done(s), pressed)
    <3>1. PageStep(page, page) BY PageIn DEF PageStep, ToldTurn
    <3>2. Onward(page, s, page) BY DEF Onward
    <3> QED BY <1>1, <3>1, <3>2, DoneGood
  <2>5. Room(Done(s)) BY DEF Done, Room, IInv, Good, StateOK
  <2>6. Good(p, Launch(Done(s), Revocation(page, "leave")), pressed)
    BY <2>1, <2>4, <2>5, RevokingGood
  <2> QED BY <2>3, <2>6, TurnKeeps
<1>4. CASE ~Leaves(page, name)
  <2>1. PageIs(p, page.stage, page.epoch, page.flow, page.tag, page.pending, name, page.shown, Nothing)
        /\ PageOK(p) /\ ToldTurn(page, p)
    BY <1>2, <1>4, ShownStaying DEF p
  <2>2. Revoking(page, name, Done(s)) = Done(s) BY <1>4 DEF Revoking
  <2>3. CASE tasks[s].by = "decide" /\ tasks[s].epoch = p.epoch
    <3> DEFINE q == Settled(p)
    <3>1. PageIs(q, page.stage, page.epoch, page.flow, page.tag, FALSE, name, page.shown, Nothing)
      BY <2>1, SettledOf
    <3>2. Turn(q, Done(s)) BY <1>1, <2>2, <2>3
    <3> HIDE DEF q
    <3>3. PageOK(q) BY <1>2, <3>1, PageIn DEF PageOK, PageIs
    <3>4. ToldTurn(page, q) BY <3>1, NotesAre DEF ToldTurn, PageIs
    <3>5. PageStep(page, q) BY <3>1, <3>3, <3>4 DEF PageStep, PageIs
    <3>6. Onward(page, s, q) BY <2>1, <2>3, <3>1 DEF Onward, Calm, Leads, PageIs
    <3> QED BY <1>1, <3>2, <3>5, <3>6, DoneKeeps
  <2>4. CASE ~(tasks[s].by = "decide" /\ tasks[s].epoch = p.epoch)
    <3>1. Turn(p, Done(s)) BY <1>1, <2>2, <2>4
    <3>2. PageStep(page, p) BY <2>1 DEF PageStep, PageIs
    <3>3. Onward(page, s, p) BY <2>1 DEF Onward, PageIs
    <3> QED BY <1>1, <3>1, <3>2, <3>3, DoneKeeps
  <2> QED BY <2>3, <2>4
<1> QED BY <1>3, <1>4

-----------------------------------------------------------------------------
(* The native side *)

\* The same call of the same handler, its answer aside; a call that begins an
\* attempt brings its number.
SameCall(t, u) ==
  /\ u \in TaskStates /\ u.pc = t.pc /\ u.by = t.by /\ u.epoch = t.epoch /\ u.mode = t.mode
  /\ u.tag = t.tag \/ t.pc \in {"begin", "recognise"}
Replies1(s, u) == page' = page /\ pressed' = pressed /\ tasks' = [tasks EXCEPT ![s] = u]

LEMMA TasksNow ==
  ASSUME IInv, NEW s \in Slots, NEW u, Replies1(s, u)
  PROVE  /\ tasks \in [Slots -> TaskStates] /\ \A r \in Slots : tasks[r] \in TaskStates
         /\ tasks'[s] = u /\ \A r \in Slots : r # s => tasks'[r] = tasks[r]
         /\ page' = page /\ pressed' = pressed
BY DEF IInv, Good, StateOK, Replies1

LEMMA SameCallTurns ==
  ASSUME IInv, NEW s \in Slots, NEW u, SameCall(tasks[s], u), Replies1(s, u),
         native' \in NativeStates
  PROVE  StateOK(page, tasks)' /\ TurnsOK(page, tasks)'
<1>1. CallOK(tasks[s]) /\ (\A r \in Slots : CallOK(tasks[r])) /\ PageOK(page) /\ TurnsOK(page, tasks)
  BY DEF IInv, Good, StateOK
<1>2. CallOK(u) BY <1>1 DEF CallOK, SameCall
<1>3. Placed(tasks[s], page) => Placed(u, page)
  <2>1. tasks[s].pc \in {"begin", "recognise"} => tasks[s].by = "start" BY <1>1, Now, CallerIs
  <2>2. StartPlaced(tasks[s], page) => StartPlaced(u, page) BY DEF StartPlaced, SameCall
  <2>3. SinglePlaced(tasks[s], page) => SinglePlaced(u, page) BY DEF SinglePlaced, SameCall
  <2>4. LegacyPlaced(tasks[s], page) => LegacyPlaced(u, page) BY DEF LegacyPlaced, SameCall
  <2> QED BY <2>1, <2>2, <2>3, <2>4 DEF Placed, SameCall
<1>4. (tasks \in [Slots -> TaskStates])' BY TasksNow DEF Replies1, SameCall
<1>5. (\A r \in Slots : CallOK(tasks[r]))'
  <2>1. \A r \in Slots : CallOK(tasks'[r]) BY <1>1, <1>2, TasksNow
  <2> QED BY <2>1 DEF CallOK
<1>6. PageOK(page)' BY <1>1, TasksNow
<1>7. StateOK(page, tasks)' BY <1>4, <1>5, <1>6 DEF StateOK
<1>8. TurnsOK(page, tasks')
  <2>1. \A r \in Slots : tasks'[r].epoch <= page.epoch
                         /\ (tasks'[r].epoch = page.epoch => Placed(tasks'[r], page))
    BY <1>1, <1>3, TasksNow DEF TurnsOK, SameCall
  <2>2. \A r \in Slots : Leads(tasks'[r], page) => Leads(tasks[r], page)
    BY TasksNow DEF Leads, SameCall
  <2> QED BY <1>1, <2>1, <2>2 DEF TurnsOK
<1>9. page' = page BY TasksNow
<1> QED BY <1>7, <1>8, <1>9

\* What a command may do while no attempt begins: the last attempt goes on or
\* ends, and only its own link, or a command of its two-decision flow, hands its
\* identity over.
GoesOn == /\ native' \in NativeStates /\ native'.n = native.n
          /\ native'.live => native.live /\ native'.mode = native.mode
          /\ native'.mode = "legacy" => native.mode = "legacy"
Hands(s) == /\ \/ shared' = shared
               \/ /\ shared' \subseteq shared \cup {native.n}
                  /\ tasks[s].pc = "link" /\ Living(tasks[s].tag)
            /\ \/ disclosed' = disclosed
               \/ /\ disclosed' \subseteq disclosed \cup {native.n}
                  /\ native.mode = "legacy"
WorkStep(s, u) ==
  /\ \A r \in Slots : r # s => (tasks[r].reply = "working" <=> native'.worker = r)
  /\ u.reply = "working" <=> native'.worker = s
  /\ u.reply = "working" =>
       /\ u.pc \in Working /\ (u.pc = "link" /\ native'.live => Living(u.tag)')
       /\ u.pc \in TwoDecisionHands /\ native'.live => native'.mode = "legacy"

LEMMA AnswerKeeps ==
  ASSUME IInv, NEW s \in Slots, NEW u, Replies1(s, u), SameCall(tasks[s], u), u.tag = tasks[s].tag,
         ~Fresh(tasks[s]), ~Fresh(u), GoesOn, Hands(s), WorkStep(s, u),
         Ended(u) => Ended(tasks[s]) \/ ~Living(u.tag)',
         tasks[s].pc = "revoke" /\ tasks[s].mode = "single" => ~Living(tasks[s].tag)'
  PROVE  IInv'
<1>1. StateOK(page, tasks)' /\ TurnsOK(page, tasks)' BY SameCallTurns DEF GoesOn
<1>2. /\ tasks'[s] = u /\ \A r \in Slots : r # s => tasks'[r] = tasks[r]
      /\ page' = page /\ pressed' = pressed
  BY TasksNow
<1>3. /\ TagsOK(page, tasks) /\ LinkOK(page, tasks, pressed) /\ WorkOK(tasks) /\ ToldOK(page)
      /\ EndOK(tasks) /\ HeldOK(page, tasks) /\ native \in NativeStates
  BY DEF IInv, Good, StateOK
<1>4. \A a : Living(a)' => Living(a) BY DEF Living, GoesOn
<1>5. native.n \in Nat /\ native'.n = native.n BY <1>3 DEF NativeStates, GoesOn
<1>6. ASSUME NEW a, NotLinked(a, tasks) PROVE NotLinked(a, tasks)'
  <2>1. a \notin shared' BY <1>6 DEF NotLinked, Hands, Living
  <2>2. \A r \in Slots : tasks'[r].pc = "link" => tasks'[r].tag # a
    BY <1>2, <1>6 DEF NotLinked, SameCall
  <2> QED BY <2>1, <2>2 DEF NotLinked
<1>13. \A a : Numbered(a) =>
         a = None \/ /\ a <= native'.n /\ a \notin disclosed'
                     /\ ~(native'.mode = "legacy" /\ native'.n = a)
  BY <1>5 DEF Numbered, Hands, GoesOn
<1>7. TagsOK(page, tasks)'
  <2>2. \A r \in Slots : tasks'[r].tag = tasks[r].tag /\ tasks'[r].pc = tasks[r].pc
    BY <1>2 DEF SameCall
  <2>3. shared' \cup disclosed' \subseteq Nat /\ \A a \in shared' \cup disclosed' : a <= native'.n
    <3>1. \A a \in shared' \cup disclosed' : a \in shared \cup disclosed \/ a = native.n BY DEF Hands
    <3>2. \A a \in shared \cup disclosed : a \in Nat /\ a <= native.n BY <1>3 DEF TagsOK
    <3>3. \A a \in shared' \cup disclosed' : a \in Nat /\ a <= native'.n BY <1>5, <3>1, <3>2
    <3> QED BY <3>3
  <2>4. Numbered(page.tag)' BY <1>2, <1>3, <1>13 DEF TagsOK, Numbered
  <2>5. \A r \in Slots : tasks'[r].pc # "recognise" => Numbered(tasks[r].tag)'
    BY <1>3, <1>13, <2>2 DEF TagsOK, Numbered
  <2> QED BY <2>3, <2>4, <2>5 DEF TagsOK
<1>8. LinkOK(page, tasks, pressed)'
  <2>1. \A r \in Slots : Fresh(tasks'[r]) => r # s /\ Fresh(tasks[r]) /\ tasks'[r] = tasks[r]
    BY <1>2
  <2>2. \A r \in Slots : tasks'[r].pc = "link" => tasks'[r].tag \in pressed
    BY <1>2, <1>3 DEF LinkOK, SameCall
  <2>3. shared' \subseteq pressed
    BY <1>3 DEF LinkOK, Hands, Living
  <2>4. page'.tag # None /\ page'.stage \notin AfterLink => NotLinked(page.tag, tasks)'
    BY <1>2, <1>3, <1>6 DEF LinkOK
  <2>5. \A r \in Slots : Fresh(tasks'[r]) =>
          /\ NotLinked(tasks[r].tag, tasks)' /\ tasks'[r].tag # page.tag /\ tasks'[r].tag # None
    BY <1>3, <1>6, <2>1 DEF LinkOK
  <2>6. \A r, x \in Slots : Fresh(tasks'[r]) /\ Fresh(tasks'[x]) /\ tasks'[r].tag = tasks'[x].tag => r = x
    BY <1>3, <2>1 DEF LinkOK
  <2> QED BY <1>2, <2>1, <2>2, <2>3, <2>4, <2>5, <2>6 DEF LinkOK, Fresh, NotLinked
<1>9. WorkOK(tasks)'
  <2>1. ASSUME NEW r \in Slots, r # s, tasks[r].reply = "working", tasks[r].pc = "link", native'.live
        PROVE  Living(tasks[r].tag)'
    <3>1. native.live /\ native'.mode = native.mode BY <2>1 DEF GoesOn
    <3>2. Living(tasks[r].tag) BY <1>3, <2>1, <3>1 DEF WorkOK
    <3>3. native'.n = tasks[r].tag /\ native'.mode = "single" BY <1>5, <3>1, <3>2 DEF Living
    <3>4. tasks'[r].tag = tasks[r].tag BY <1>2, <2>1
    <3> QED BY <2>1, <3>3, <3>4 DEF Living
  <2>2. ASSUME NEW r \in Slots
        PROVE  /\ tasks'[r].reply = "working" <=> native'.worker = r
               /\ tasks'[r].reply = "working" => tasks'[r].pc \in Working
               /\ tasks'[r].reply = "working" /\ tasks'[r].pc = "link" /\ native'.live => Living(tasks[r].tag)'
               /\ tasks'[r].reply = "working" /\ tasks'[r].pc \in TwoDecisionHands /\ native'.live =>
                    native'.mode = "legacy"
    <3>1. CASE r = s
      <4>1. Living(u.tag)' => Living(tasks[r].tag)' BY <1>2, <3>1 DEF Living
      <4> QED BY <1>2, <3>1, <4>1 DEF WorkStep
    <3>2. CASE r # s BY <1>2, <1>3, <2>1, <3>2 DEF WorkStep, WorkOK, GoesOn
    <3> QED BY <3>1, <3>2
  <2> QED BY <2>2 DEF WorkOK, Living
<1>10. ToldOK(page)'
  <2> SUFFICES ASSUME page.flow = "single", page.told.what = "nothing shared"
               PROVE  (Numbered(page.told.att) /\ page.told.att \notin shared /\ ~Living(page.told.att))'
    BY <1>2 DEF ToldOK, Living, Numbered
  <2>1. page.told.att \notin shared' BY <1>3 DEF ToldOK, Hands, Living
  <2>2. ~Living(page.told.att)' BY <1>2, <1>3, <1>4 DEF ToldOK, GoesOn, Living
  <2>3. Numbered(page.told.att)' BY <1>2, <1>3, <1>13 DEF ToldOK, Numbered
  <2> QED BY <1>2, <2>1, <2>2, <2>3
<1>11. EndOK(tasks)'
  <2>1. ASSUME NEW r \in Slots, Ended(tasks'[r]) PROVE ~Living(tasks[r].tag)'
    <3>1. CASE r = s
      <4>1. CASE ~Living(u.tag)' BY <1>2, <3>1, <4>1 DEF Living
      <4>2. CASE Ended(tasks[s]) BY <1>2, <1>3, <1>4, <3>1, <4>2 DEF EndOK, Living, GoesOn
      <4> QED BY <1>2, <2>1, <3>1, <4>1, <4>2
    <3>2. CASE r # s
      <4>1. ~Living(tasks[r].tag) BY <1>2, <1>3, <2>1, <3>2 DEF EndOK
      <4>2. tasks'[r].tag = tasks[r].tag BY <1>2, <3>2
      <4> QED BY <4>1, <4>2 DEF Living, GoesOn
    <3> QED BY <3>1, <3>2
  <2> QED BY <2>1 DEF EndOK, Ended, Living
<1>12. HeldOK(page, tasks)'
  <2> SUFFICES ASSUME NEW a \in Nat, native'.live, native'.mode = "single", native'.n = a
               PROVE  page.tag = a \/ \E r \in Slots : \/ Fresh(tasks'[r]) /\ tasks'[r].tag = a
                                                       \/ Ends(tasks'[r], a)
    BY <1>2 DEF HeldOK, Living, Fresh, Ends
  <2>1. Living(a) BY DEF Living, GoesOn
  <2>2. ASSUME NEW r \in Slots, (Fresh(tasks[r]) /\ tasks[r].tag = a) \/ Ends(tasks[r], a)
        PROVE  r # s
    <3>1. Ends(tasks[s], a) => FALSE BY <1>2 DEF Ends, Living
    <3> QED BY <2>2, <3>1
  <2>3. page.tag = a \/ \E r \in Slots : (Fresh(tasks[r]) /\ tasks[r].tag = a) \/ Ends(tasks[r], a)
    BY <1>3, <2>1 DEF HeldOK
  <2> QED BY <1>2, <2>2, <2>3
<1> QED BY <1>1, <1>7, <1>8, <1>9, <1>10, <1>11, <1>12 DEF IInv, Good

(* A command that begins an attempt: none was alive and nobody worked. *)
LEMMA BeginKeeps ==
  ASSUME IInv, NEW s \in Slots, NEW u, Replies1(s, u), SameCall(tasks[s], u), tasks[s].reply = None,
         MayBegin, UNCHANGED record,
         \/ /\ u.pc = "begin" /\ u.reply = "ok" /\ u.tag = native.n + 1
            /\ native' = Begun("single", None)
         \/ /\ u.pc = "recognise" /\ u.reply = "working" /\ u.tag = native.n + 1
            /\ native' = Begun("legacy", s)
  PROVE  IInv'
<1>1. native.n \in Nat /\ native \in NativeStates BY DEF IInv, Good, StateOK, NativeStates
<1>2. native' \in NativeStates /\ native'.n = native.n + 1 /\ native.n + 1 \in Nat
  <2> DEFINE e == native.n + 1
  <2>1. e \in Nat /\ TRUE \in BOOLEAN BY <1>1
  <2>2. \A m \in {"single", "legacy"}, w \in Slots \cup {None} :
          Begun(m, w) \in NativeStates /\ Begun(m, w).n = e
    <3> TAKE m \in {"single", "legacy"}, w \in Slots \cup {None}
    <3>1. Begun(m, w) = [n |-> e, live |-> TRUE, mode |-> m, phase |-> "entry", worker |-> w]
      BY DEF Begun
    <3> HIDE DEF e
    <3>2. m \in {None, "single", "legacy"} OBVIOUS
    <3> QED BY <2>1, <3>1, <3>2 DEF NativeStates
  <2> QED BY <2>1, <2>2
<1>3. StateOK(page, tasks)' /\ TurnsOK(page, tasks)' BY <1>2, SameCallTurns
<1>4. /\ tasks'[s] = u /\ \A r \in Slots : r # s => tasks'[r] = tasks[r]
      /\ page' = page /\ pressed' = pressed /\ shared' = shared /\ disclosed' = disclosed
  BY TasksNow DEF record
<1>5. /\ TagsOK(page, tasks) /\ LinkOK(page, tasks, pressed) /\ WorkOK(tasks) /\ ToldOK(page)
      /\ EndOK(tasks) /\ HeldOK(page, tasks) /\ page.tag \in Tags /\ page.told.att \in Tags
      /\ \A r \in Slots : tasks[r].tag \in Tags
  BY DEF IInv, Good, StateOK, PageOK, PageStates, TaskStates
<1>6. \A a \in Tags : Numbered(a) => Numbered(a)' /\ a # native.n + 1
  <2> SUFFICES ASSUME NEW a \in Tags, Numbered(a) PROVE Numbered(a)' /\ a # native.n + 1
    BY DEF Numbered
  <2>1. CASE a = None BY <1>2, <2>1, NoneIs DEF Numbered
  <2>2. CASE a \in Nat /\ a <= native.n BY <1>1, <1>2, <1>4, <2>2 DEF Numbered
  <2> QED BY <2>1, <2>2 DEF Numbered, Tags
<1>7. \A a : Living(a)' => u.pc = "begin" /\ a = native.n + 1 BY DEF Living, Begun
<1>8. u.pc \notin {"link", "revoke", "inspect", "finishLink"} /\ tasks[s].pc = u.pc
  BY DEF SameCall
<1>9. TagsOK(page, tasks)'
  <2>1. \A r \in Slots : tasks'[r].pc # "recognise" => Numbered(tasks[r].tag)'
    <3>1. u.pc = "begin" => Numbered(u.tag)'
      <4> SUFFICES ASSUME u.pc = "begin" PROVE Numbered(u.tag)' OBVIOUS
      <4>1. u.tag = native.n + 1 /\ native'.mode = "single" BY DEF Begun
      <4>2. native.n + 1 \notin disclosed' BY <1>1, <1>4, <1>5 DEF TagsOK
      <4> QED BY <1>2, <1>4, <4>1, <4>2 DEF Numbered
    <3>2. \A r \in Slots : r # s /\ tasks[r].pc # "recognise" => Numbered(tasks[r].tag)'
      BY <1>4, <1>5, <1>6 DEF TagsOK, Numbered
    <3> QED BY <1>4, <3>1, <3>2 DEF Numbered
  <2>2. Numbered(page.tag)'
    BY <1>4, <1>5, <1>6 DEF TagsOK, Numbered
  <2>3. shared' \cup disclosed' \subseteq Nat /\ \A a \in shared' \cup disclosed' : a <= native'.n
    BY <1>1, <1>2, <1>4, <1>5 DEF TagsOK
  <2> QED BY <2>1, <2>2, <2>3 DEF TagsOK
<1>10. ASSUME NEW a, NotLinked(a, tasks) PROVE NotLinked(a, tasks)'
  BY <1>4, <1>8, <1>10 DEF NotLinked
<1>11. LinkOK(page, tasks, pressed)'
  <2>1. NotLinked(native.n + 1, tasks)
    <3>1. native.n + 1 \notin shared BY <1>1, <1>5 DEF TagsOK
    <3>2. \A r \in Slots : tasks[r].pc = "link" => tasks[r].tag # native.n + 1
      BY <1>5, <1>6 DEF TagsOK
    <3> QED BY <3>1, <3>2 DEF NotLinked
  <2>2. \A r \in Slots : Fresh(tasks'[r]) =>
          /\ NotLinked(tasks[r].tag, tasks)' /\ tasks'[r].tag # page.tag /\ tasks'[r].tag # None
    <3>1. CASE Fresh(u)
      <4>1. u.tag = native.n + 1 BY <3>1, <1>8, NoneIs DEF Fresh
      <4>2. u.tag # page.tag /\ u.tag # None
        <5>1. page.tag # native.n + 1 BY <1>5, <1>6 DEF TagsOK
        <5> QED BY <1>2, <4>1, <5>1, NoneIs
      <4>3. NotLinked(u.tag, tasks)' BY <1>10, <2>1, <4>1 DEF NotLinked
      <4>4. \A r \in Slots : r # s /\ Fresh(tasks[r]) =>
              NotLinked(tasks[r].tag, tasks) /\ tasks[r].tag # page.tag /\ tasks[r].tag # None
        BY <1>5 DEF LinkOK
      <4>5. ASSUME NEW r \in Slots, Fresh(tasks'[r])
            PROVE  /\ NotLinked(tasks[r].tag, tasks)' /\ tasks'[r].tag # page.tag /\ tasks'[r].tag # None
        <5>1. CASE r = s BY <1>4, <4>2, <4>3, <5>1 DEF NotLinked
        <5>2. CASE r # s BY <1>4, <1>10, <4>4, <4>5, <5>2 DEF NotLinked
        <5> QED BY <5>1, <5>2
      <4> QED BY <4>5
    <3>2. CASE ~Fresh(u)
      <4>1. ASSUME NEW r \in Slots, Fresh(tasks'[r])
            PROVE  /\ NotLinked(tasks[r].tag, tasks)' /\ tasks'[r].tag # page.tag /\ tasks'[r].tag # None
        <5>1. r # s /\ tasks'[r] = tasks[r] BY <1>4, <3>2, <4>1
        <5>2. NotLinked(tasks[r].tag, tasks) /\ tasks[r].tag # page.tag /\ tasks[r].tag # None
          BY <1>5, <4>1, <5>1 DEF LinkOK
        <5> QED BY <1>10, <5>1, <5>2 DEF NotLinked
      <4> QED BY <4>1
    <3> QED BY <3>1, <3>2
  <2>3. \A r \in Slots : tasks'[r].pc = "link" => tasks'[r].tag \in pressed
    BY <1>4, <1>5, <1>8 DEF LinkOK
  <2>4. page'.tag # None /\ page'.stage \notin AfterLink => NotLinked(page.tag, tasks)'
    BY <1>4, <1>5, <1>10 DEF LinkOK
  <2>5. ASSUME NEW r \in Slots, NEW x \in Slots, Fresh(tasks'[r]), Fresh(tasks'[x]),
               tasks'[r].tag = tasks'[x].tag
        PROVE  r = x
    <3>1. CASE r # s /\ x # s BY <1>4, <1>5, <2>5, <3>1 DEF LinkOK
    <3>2. Fresh(u) => u.tag = native.n + 1 BY <1>8, NoneIs DEF Fresh
    <3>3. \A y \in Slots : y # s /\ Fresh(tasks'[y]) => tasks'[y].tag # native.n + 1
      BY <1>4, <1>5, <1>6 DEF TagsOK, Fresh
    <3> QED BY <1>4, <2>5, <3>1, <3>2, <3>3
  <2>6. shared' \subseteq pressed BY <1>4, <1>5 DEF LinkOK
  <2> QED BY <1>4, <2>2, <2>3, <2>4, <2>5, <2>6 DEF LinkOK, Fresh, NotLinked
<1>12. WorkOK(tasks)'
  <2>1. \A r \in Slots : tasks[r].reply # "working"
    BY <1>5, NoneIs DEF WorkOK, MayBegin
  <2>2. native'.worker = IF u.pc = "begin" THEN None ELSE s BY DEF Begun
  <2>3. \A r \in Slots : r # None BY NoneIs
  <2>4. \A r \in Slots : /\ tasks'[r].reply = "working" <=> native'.worker = r
                         /\ tasks'[r].reply = "working" => tasks'[r].pc = "recognise"
    BY <1>4, <1>8, <2>1, <2>2, <2>3
  <2> QED BY <2>4 DEF WorkOK, Working, TwoDecisionHands
<1>13. ToldOK(page)'
  <2> SUFFICES ASSUME page.flow = "single", page.told.what = "nothing shared"
               PROVE  (Numbered(page.told.att) /\ page.told.att \notin shared /\ ~Living(page.told.att))'
    BY <1>4 DEF ToldOK, Living, Numbered
  <2>1. Numbered(page.told.att) /\ page.told.att \notin shared BY <1>5 DEF ToldOK
  <2>2. page.told.att # native.n + 1 BY <1>5, <1>6, <2>1
  <2>3. Numbered(page.told.att)' BY <1>4, <1>5, <1>6, <2>1 DEF Numbered
  <2>4. ~Living(page.told.att)' BY <1>2, <1>4, <2>2 DEF Living
  <2> QED BY <1>4, <2>1, <2>3, <2>4
<1>14. EndOK(tasks)'
  <2>1. ~Ended(u) BY <1>8, NoneIs DEF Ended
  <2>2. \A r \in Slots : r # s /\ Ended(tasks'[r]) => tasks'[r].tag # native.n + 1
    BY <1>4, <1>5, <1>6 DEF TagsOK, Ended
  <2> QED BY <1>2, <1>4, <2>1, <2>2 DEF EndOK, Living, Ended
<1>15. HeldOK(page, tasks)'
  <2> SUFFICES ASSUME NEW a \in Nat, Living(a)'
               PROVE  Fresh(tasks'[s]) /\ tasks'[s].tag = a
    BY DEF HeldOK, Fresh, Ends, Living
  <2> QED BY <1>4, <1>7, NoneIs DEF Fresh
<1> QED BY <1>3, <1>9, <1>11, <1>12, <1>13, <1>14, <1>15 DEF IInv, Good

LEMMA OverIs ==
  IInv => /\ Over \in NativeStates /\ Over.n = native.n /\ ~Over.live
          /\ Over.worker = native.worker /\ Over.mode = None
<1> SUFFICES ASSUME IInv PROVE /\ Over \in NativeStates /\ Over.n = native.n /\ ~Over.live
                               /\ Over.worker = native.worker /\ Over.mode = None
  OBVIOUS
<1>1. native \in NativeStates BY DEF IInv, Good, StateOK
<1>2. Over = [[[native EXCEPT !.live = FALSE] EXCEPT !.mode = None] EXCEPT !.phase = None] BY DEF Over
<1>3. FALSE \in BOOLEAN OBVIOUS
<1> HIDE DEF Over
<1> QED BY <1>1, <1>2, <1>3 DEF NativeStates

LEMMA RepliesIs ==
  ASSUME IInv, NEW s \in Slots, NEW r \in Replies, Reply(s, r), UNCHANGED <<page, pressed>>
  PROVE  \E u : /\ Replies1(s, u) /\ SameCall(tasks[s], u) /\ u.tag = tasks[s].tag /\ u.reply = r
                /\ u.pc = tasks[s].pc /\ u.mode = tasks[s].mode
<1> DEFINE u == [tasks[s] EXCEPT !.reply = r]
<1>1. tasks \in [Slots -> TaskStates] /\ tasks[s] \in TaskStates BY DEF IInv, Good, StateOK
<1>2. tasks' = [tasks EXCEPT ![s] = u] BY <1>1 DEF Reply
<1>3. TaskIs(u, tasks[s].pc, tasks[s].by, tasks[s].epoch, tasks[s].tag, tasks[s].mode, r)
  BY <1>1 DEF TaskIs, TaskStates
<1> HIDE DEF u
<1>4. Replies1(s, u) BY <1>2 DEF Replies1
<1>5. SameCall(tasks[s], u) BY <1>3 DEF SameCall, TaskIs
<1> QED BY <1>3, <1>4, <1>5 DEF TaskIs

LEMMA WorkNow ==
  ASSUME IInv
  PROVE  \A r \in Slots : tasks[r].reply = "working" <=> native.worker = r
BY DEF IInv, Good, WorkOK

(* An answer that touches no attempt. *)
LEMMA PlainKeeps ==
  ASSUME IInv, NEW s \in Slots, NEW r \in Replies \ {None, "working"}, Reply(s, r),
         tasks[s].reply = None, UNCHANGED <<page, native, record, pressed>>,
         tasks[s].pc # "revoke", r = "ok" => tasks[s].pc \notin {"begin", "finishLink"}
  PROVE  IInv'
<1>1. PICK u : /\ Replies1(s, u) /\ SameCall(tasks[s], u) /\ u.tag = tasks[s].tag /\ u.reply = r
               /\ u.pc = tasks[s].pc /\ u.mode = tasks[s].mode
  BY RepliesIs
<1>2. ~Fresh(tasks[s]) /\ ~Fresh(u) BY <1>1, NoneIs DEF Fresh
<1>3. GoesOn BY DEF GoesOn, IInv, Good, StateOK
<1>4. Hands(s) BY DEF Hands, record
<1>5. WorkStep(s, u) BY <1>1, WorkNow, NoneIs DEF WorkStep
<1>6. Ended(u) => Ended(tasks[s]) BY <1>1 DEF Ended
<1> QED BY <1>1, <1>2, <1>3, <1>4, <1>5, <1>6, AnswerKeeps

LEMMA BeginsKeep == ASSUME IInv, NEW s \in Slots, Begin(s) \/ Recognise(s) PROVE IInv'
<1>1. tasks[s].pc \in {"begin", "recognise"} /\ tasks[s].reply = None
      /\ UNCHANGED <<page, record, pressed>>
  BY DEF Begin, Recognise, Asked
<1>2. CASE Reply(s, "error") /\ UNCHANGED native
  BY <1>1, <1>2, NoneIs, PlainKeeps DEF Replies
<1>3. CASE /\ Asked(s, "begin") /\ MayBegin /\ native' = Begun("single", None)
           /\ tasks' = [tasks EXCEPT ![s] = [@ EXCEPT !.reply = "ok", !.tag = native.n + 1]]
  <2> DEFINE e == native.n + 1
             u == [[tasks[s] EXCEPT !.reply = "ok"] EXCEPT !.tag = e]
  <2>1. tasks \in [Slots -> TaskStates] /\ tasks[s] \in TaskStates /\ e \in Tags
    BY DEF IInv, Good, StateOK, NativeStates, Tags
  <2>2. tasks' = [tasks EXCEPT ![s] = u] BY <1>3, <2>1
  <2> HIDE DEF e
  <2>3. "ok" \in Replies BY DEF Replies
  <2>4. TaskIs(u, tasks[s].pc, tasks[s].by, tasks[s].epoch, e, tasks[s].mode, "ok")
    BY <2>1, <2>3 DEF TaskIs, TaskStates
  <2> HIDE DEF u
  <2>5. Replies1(s, u) BY <1>1, <2>2 DEF Replies1
  <2>6. SameCall(tasks[s], u) BY <1>3, <2>4 DEF SameCall, TaskIs, Asked
  <2>7. u.pc = "begin" /\ u.reply = "ok" /\ u.tag = native.n + 1
    BY <1>3, <2>4 DEF TaskIs, Asked, e
  <2> QED BY <1>1, <1>3, <2>5, <2>6, <2>7, BeginKeeps
<1>4. CASE /\ Asked(s, "recognise") /\ MayBegin /\ native' = Begun("legacy", s)
           /\ tasks' = [tasks EXCEPT ![s] = [@ EXCEPT !.reply = "working", !.tag = native.n + 1]]
  <2> DEFINE e == native.n + 1
             u == [[tasks[s] EXCEPT !.reply = "working"] EXCEPT !.tag = e]
  <2>1. tasks \in [Slots -> TaskStates] /\ tasks[s] \in TaskStates /\ e \in Tags
    BY DEF IInv, Good, StateOK, NativeStates, Tags
  <2>2. tasks' = [tasks EXCEPT ![s] = u] BY <1>4, <2>1
  <2> HIDE DEF e
  <2>3. "working" \in Replies BY DEF Replies
  <2>4. TaskIs(u, tasks[s].pc, tasks[s].by, tasks[s].epoch, e, tasks[s].mode, "working")
    BY <2>1, <2>3 DEF TaskIs, TaskStates
  <2> HIDE DEF u
  <2>5. Replies1(s, u) BY <1>1, <2>2 DEF Replies1
  <2>6. SameCall(tasks[s], u) BY <1>4, <2>4 DEF SameCall, TaskIs, Asked
  <2>7. u.pc = "recognise" /\ u.reply = "working" /\ u.tag = native.n + 1
    BY <1>4, <2>4 DEF TaskIs, Asked, e
  <2> QED BY <1>1, <1>4, <2>5, <2>6, <2>7, BeginKeeps
<1> QED BY <1>2, <1>3, <1>4 DEF Begin, Recognise

LEMMA MovesIs ==
  /\ DOMAIN Moves = {"contact", "unlock", "rendered", "link", "continue", "finishLink",
                     "relayApprove", "relayReject", "preliminary", "preliminaryDecline", "compare",
                     "final", "finalDecline", "finish"}
  /\ Moves["link"][1] = "single" /\ Moves["finishLink"][3] = "done"
  /\ \A pc \in TwoDecisionHands : Moves[pc][1] = "legacy"
BY DEF Moves, TwoDecisionHands

(* What a command hands over goes to the record of its flow. *)
LEMMA HandsOver ==
  ASSUME NEW s \in Slots,
         tasks[s].pc = "link" => Living(tasks[s].tag),
         tasks[s].pc \in TwoDecisionHands => native.mode = "legacy",
         shared' \in {shared, HandedOver(s, {"link"}, shared)},
         disclosed' \in {disclosed, HandedOver(s, TwoDecisionHands, disclosed)}
  PROVE  Hands(s)
BY DEF Hands, HandedOver

LEMMA TakeKeeps == ASSUME IInv, NEW s \in Slots, Take(s) PROVE IInv'
<1>1. tasks[s].pc \in DOMAIN Moves /\ tasks[s].reply = None /\ UNCHANGED <<page, pressed>>
  BY DEF Take
<1>2. tasks[s].pc \notin {"begin", "revoke", "inspect"} BY <1>1, MovesIs
<1>3. CASE ~Admitted(s)
  <2>1. Reply(s, "error") /\ UNCHANGED <<native, record>> BY <1>3 DEF Take
  <2> QED BY <1>1, <1>2, <2>1, NoneIs, PlainKeeps DEF Replies
<1>4. CASE Admitted(s)
  <2>1. /\ native' = [native EXCEPT !.worker = s] /\ Reply(s, "working")
        /\ shared' \in {shared, HandedOver(s, {"link"}, shared)}
        /\ disclosed' \in {disclosed, HandedOver(s, TwoDecisionHands, disclosed)}
    BY <1>4 DEF Take
  <2>2. native.live /\ native.worker = None /\ native \in NativeStates
    BY <1>4 DEF Admitted, IInv, Good, StateOK
  <2>3. /\ tasks[s].pc = "link" => Living(tasks[s].tag)
        /\ tasks[s].pc \in TwoDecisionHands => native.mode = "legacy"
    BY <1>4, MovesIs DEF Admitted, Living
  <2>4. PICK u : /\ Replies1(s, u) /\ SameCall(tasks[s], u) /\ u.tag = tasks[s].tag
                 /\ u.reply = "working" /\ u.pc = tasks[s].pc
    BY <1>1, <2>1, RepliesIs DEF Replies
  <2>5. /\ native' \in NativeStates /\ native'.n = native.n /\ native'.mode = native.mode
        /\ native'.live = native.live /\ native'.worker = s
    BY <2>1, <2>2 DEF NativeStates
  <2>6. GoesOn BY <2>5 DEF GoesOn
  <2>7. Hands(s) BY <2>1, <2>3, HandsOver
  <2>8. WorkStep(s, u)
    <3>1. \A r \in Slots : tasks[r].reply # "working" BY <2>2, WorkNow, NoneIs
    <3>2. u.pc = "link" => Living(u.tag)' BY <2>3, <2>4, <2>5 DEF Living
    <3>3. u.pc \in TwoDecisionHands => native'.mode = "legacy" BY <2>3, <2>4, <2>5
    <3>4. u.pc \in Working BY <1>1, <2>4 DEF Working
    <3> QED BY <2>4, <2>5, <3>1, <3>2, <3>3, <3>4 DEF WorkStep
  <2>9. ~Fresh(tasks[s]) /\ ~Fresh(u) BY <1>2, <2>4 DEF Fresh
  <2>10. ~Ended(u) BY <1>2, <2>4 DEF Ended
  <2> QED BY <1>2, <2>4, <2>6, <2>7, <2>8, <2>9, <2>10, AnswerKeeps
<1> QED BY <1>3, <1>4

LEMMA CompleteKeeps == ASSUME IInv, NEW s \in Slots, Complete(s) PROVE IInv'
<1>1. tasks[s].reply = "working" /\ native.worker = s /\ UNCHANGED <<page, pressed>>
      /\ native \in NativeStates
  BY DEF Complete, IInv, Good, StateOK
<1>2. /\ tasks[s].pc \in Working
      /\ tasks[s].pc = "link" /\ native.live => Living(tasks[s].tag)
      /\ tasks[s].pc \in TwoDecisionHands /\ native.live => native.mode = "legacy"
  BY <1>1 DEF IInv, Good, WorkOK
<1>3. tasks[s].pc \notin {"begin", "revoke", "inspect"} BY <1>2, MovesIs DEF Working
<1>4. ASSUME NEW r \in Replies \ {None, "working"}, Reply(s, r), native'.worker = None, GoesOn, Hands(s),
             r = "ok" /\ tasks[s].pc = "finishLink" => ~native'.live
      PROVE  IInv'
  <2>1. PICK u : /\ Replies1(s, u) /\ SameCall(tasks[s], u) /\ u.tag = tasks[s].tag
                 /\ u.reply = r /\ u.pc = tasks[s].pc
    BY <1>1, <1>4, RepliesIs
  <2>2. WorkStep(s, u)
    <3>1. \A x \in Slots : x # s => tasks[x].reply # "working" BY <1>1, WorkNow
    <3>2. \A x \in Slots : x # None BY NoneIs
    <3> QED BY <1>4, <2>1, <3>1, <3>2 DEF WorkStep
  <2>3. ~Fresh(tasks[s]) /\ ~Fresh(u) BY <1>3, <2>1 DEF Fresh
  <2>4. Ended(u) => ~Living(u.tag)' BY <1>3, <1>4, <2>1 DEF Ended, Living
  <2> QED BY <1>3, <1>4, <2>1, <2>2, <2>3, <2>4, AnswerKeeps
<1>5. CASE /\ native.live
           /\ native' = [IF After(s) = "done" THEN Over ELSE [native EXCEPT !.phase = After(s)]
                         EXCEPT !.worker = None]
           /\ \E r \in Outcomes(s) : Reply(s, r)
           /\ shared' = HandedOver(s, {"link"}, shared)
           /\ disclosed' = HandedOver(s, TwoDecisionHands, disclosed)
  <2>1. PICK r \in Outcomes(s) : Reply(s, r) BY <1>5
  <2>2. r \in Replies \ {None, "working"} BY NoneIs DEF Outcomes, Replies
  <2>3. Hands(s) BY <1>2, <1>5, HandsOver
  <2>4. After(s) \in {"entry", "relay", "intent", "unpainted", "ready", "linked", "continued",
                      "preview", "final", "finish", "done"}
    BY <1>2 DEF After, Working, Moves
  <2> DEFINE n == IF After(s) = "done" THEN Over ELSE [native EXCEPT !.phase = After(s)]
  <2>5. /\ n \in NativeStates /\ n.n = native.n /\ (n.live => native.live /\ n.mode = native.mode)
        /\ n.mode \in {None, native.mode} /\ (After(s) = "done" => ~n.live)
    <3>1. CASE After(s) = "done" BY <3>1, OverIs
    <3>2. CASE After(s) # "done"
      <4>1. n = [native EXCEPT !.phase = After(s)] BY <3>2
      <4> HIDE DEF n
      <4> QED BY <1>1, <2>4, <3>2, <4>1 DEF NativeStates
    <3> QED BY <3>1, <3>2
  <2>6. native' = [n EXCEPT !.worker = None] BY <1>5
  <2> HIDE DEF n
  <2>7. /\ native' \in NativeStates /\ native'.n = native.n /\ native'.worker = None
        /\ native'.live = n.live /\ native'.mode = n.mode
    BY <2>5, <2>6 DEF NativeStates
  <2>8. GoesOn BY <2>5, <2>7, NoneIs DEF GoesOn
  <2>9. tasks[s].pc = "finishLink" => ~native'.live BY <2>5, <2>7, MovesIs DEF After
  <2> QED BY <1>4, <2>1, <2>2, <2>3, <2>7, <2>8, <2>9
<1>6. CASE /\ native' = [IF native.live /\ tasks[s].pc = "finish" THEN native ELSE Over
                         EXCEPT !.worker = None]
           /\ Reply(s, "error") /\ UNCHANGED record
  <2> DEFINE n == IF native.live /\ tasks[s].pc = "finish" THEN native ELSE Over
  <2>1. /\ n \in NativeStates /\ n.n = native.n /\ (n.live => native.live /\ n.mode = native.mode)
        /\ n.mode \in {None, native.mode}
    BY <1>1, OverIs
  <2>2. native' = [n EXCEPT !.worker = None] BY <1>6
  <2> HIDE DEF n
  <2>3. /\ native' \in NativeStates /\ native'.n = native.n /\ native'.worker = None
        /\ native'.live = n.live /\ native'.mode = n.mode
    BY <2>1, <2>2 DEF NativeStates
  <2>4. GoesOn BY <2>1, <2>3, NoneIs DEF GoesOn
  <2>5. "error" \in Replies \ {None, "working"} BY NoneIs DEF Replies
  <2> QED BY <1>4, <1>6, <2>3, <2>4, <2>5 DEF Hands, record
<1> QED BY <1>5, <1>6 DEF Complete

LEMMA RevokeKeeps == ASSUME IInv, NEW s \in Slots, Revoke(s) PROVE IInv'
<1>1. /\ tasks[s].pc = "revoke" /\ tasks[s].reply = None /\ Reply(s, "ok")
      /\ native' = IF Revokes(tasks[s]) THEN Over ELSE native
      /\ UNCHANGED <<page, record, pressed>> /\ native \in NativeStates
  BY DEF Revoke, Asked, IInv, Good, StateOK
<1>2. PICK u : /\ Replies1(s, u) /\ SameCall(tasks[s], u) /\ u.tag = tasks[s].tag
               /\ u.reply = "ok" /\ u.pc = tasks[s].pc /\ u.mode = tasks[s].mode
  BY <1>1, RepliesIs DEF Replies
<1>3. /\ native' \in NativeStates /\ native'.n = native.n /\ native'.worker = native.worker
      /\ native'.live => native' = native
      /\ native'.mode \in {None, native.mode}
  BY <1>1, OverIs
<1>4. GoesOn BY <1>3, NoneIs DEF GoesOn
<1>5. tasks[s].mode = "single" => ~Living(tasks[s].tag)'
  <2>1. CASE Revokes(tasks[s])
    <3>1. ~native'.live BY <1>1, <2>1, OverIs
    <3> QED BY <3>1 DEF Living
  <2>2. CASE ~Revokes(tasks[s])
    <3> SUFFICES ASSUME tasks[s].mode = "single" PROVE ~(native'.mode = "single" /\ native'.n = tasks'[s].tag)
      BY DEF Living
    <3>1. native' = native BY <1>1, <2>2
    <3>2. tasks'[s].tag = tasks[s].tag BY <1>2, TasksNow
    <3> QED BY <2>2, <3>1, <3>2 DEF Revokes
  <2> QED BY <2>1, <2>2
<1>6. Ended(u) => ~Living(u.tag)'
  <2>1. Ended(u) => u.mode = "single" BY <1>1, <1>2 DEF Ended
  <2>2. u.mode = "single" => ~Living(tasks[s].tag)' BY <1>2, <1>5
  <2>3. tasks'[s].tag = u.tag BY <1>2, TasksNow
  <2> QED BY <2>1, <2>2, <2>3 DEF Living
<1>7. WorkStep(s, u) BY <1>1, <1>2, <1>3, WorkNow, NoneIs DEF WorkStep
<1>8. ~Fresh(tasks[s]) /\ ~Fresh(u) BY <1>1, <1>2 DEF Fresh
<1>9. Hands(s) BY <1>1 DEF Hands, record
<1> QED BY <1>2, <1>4, <1>5, <1>6, <1>7, <1>8, <1>9, AnswerKeeps

LEMMA ReadKeeps == ASSUME IInv, NEW s \in Slots, Read(s) PROVE IInv'
<1>1. tasks[s].pc \in DOMAIN Reads /\ tasks[s].reply = None /\ UNCHANGED <<page, native, record, pressed>>
  BY DEF Read
<1>2. PICK r \in Reads[tasks[s].pc] : Reply(s, r) BY DEF Read
<1>3. tasks[s].pc \in {"refresh", "links", "inspect", "paint", "paintBeforeCompare", "stopCamera",
                       "camera", "resume", "recover"}
  BY <1>1 DEF Reads
<1>4. r \in {"ok", "error", "some", "none", "rotation"}
  BY <1>2, <1>3 DEF Reads
<1>5. r \in Replies \ {None, "working"} BY <1>4, NoneIs DEF Replies
<1> QED BY <1>1, <1>2, <1>3, <1>5, PlainKeeps

(* The deadline, or a change of the root, ends the attempt. *)
LEMMA ExpireKeeps == ASSUME IInv, Expire PROVE IInv'
<1>1. native' = Over /\ UNCHANGED <<page, tasks, record, pressed>> BY DEF Expire
<1>2. /\ native' \in NativeStates /\ native'.n = native.n /\ ~native'.live
      /\ native'.worker = native.worker /\ native'.mode # "legacy"
  BY <1>1, OverIs, NoneIs
<1> USE DEF Good, IInv, record
<1>3. StateOK(page, tasks)' BY <1>1, <1>2 DEF StateOK
<1>4. TurnsOK(page, tasks)' /\ LinkOK(page, tasks, pressed)' BY <1>1 DEF LinkOK, NotLinked
<1>5. TagsOK(page, tasks)' BY <1>1, <1>2 DEF TagsOK, Numbered
<1>6. WorkOK(tasks)' BY <1>1, <1>2 DEF WorkOK
<1>7. ToldOK(page)' /\ EndOK(tasks)' BY <1>1, <1>2 DEF ToldOK, EndOK, Living, Numbered
<1>8. HeldOK(page, tasks)' BY <1>2 DEF HeldOK, Living
<1> QED BY <1>3, <1>4, <1>5, <1>6, <1>7, <1>8

-----------------------------------------------------------------------------
(* The theorems *)

LEMMA InitIInv == Init => IInv
<1> SUFFICES ASSUME Init PROVE IInv OBVIOUS
<1>1. page \in PageStates
  <2>1. "idle" \in Stages /\ "applications" \in Views /\ Nothing \in [what : Notes, att : Tags]
        /\ None \in Tags /\ FALSE \in BOOLEAN
    BY PageWords, WordsIn
  <2> HIDE DEF Stages, Views, Notes, Tags, Nothing
  <2> QED BY <2>1 DEF Init, PageStates
<1>2. /\ page.stage = "idle" /\ page.epoch = 0 /\ page.tag = None /\ page.told = Nothing
      /\ native.n = 0 /\ native.live = FALSE /\ native.worker = None /\ shared = {}
      /\ disclosed = {0}
      /\ tasks = [s \in Slots |-> Idle]
  BY DEF Init, Interrupted
<1>3. native \in NativeStates BY DEF Init, NativeStates
<1>4. PageOK(page) BY <1>1, <1>2, StagesApart DEF PageOK
<1>5. \A s \in Slots : tasks[s] = Idle BY <1>2
<1>6. StateOK(page, tasks) BY <1>2, <1>3, <1>4, <1>5, IdleIs DEF StateOK, TaskIs
<1>7. TurnsOK(page, tasks)
  BY <1>1, <1>5, IdlePlaced DEF TurnsOK, Fits
<1>8. \A s \in Slots : ~Fresh(tasks[s]) /\ ~Ended(tasks[s]) /\ tasks[s].pc # "link"
                       /\ tasks[s].reply # "working" /\ tasks[s].tag = None
  BY <1>5, IdleIs, NoneIs DEF TaskIs, Fresh, Ended
<1>9. TagsOK(page, tasks)
  <2>1. shared \cup disclosed = {0} BY <1>2
  <2>2. 0 \in Nat /\ 0 <= native.n BY <1>2
  <2> QED BY <1>2, <1>8, <2>1, <2>2 DEF TagsOK, Numbered
<1>10. LinkOK(page, tasks, pressed) BY <1>2, <1>8 DEF LinkOK
<1>11. WorkOK(tasks) BY <1>2, <1>8, NoneIs DEF WorkOK
<1>12. ToldOK(page) BY <1>2, NotesAre DEF ToldOK
<1>13. EndOK(tasks) /\ HeldOK(page, tasks) BY <1>2, <1>8 DEF EndOK, HeldOK, Living
<1> QED BY <1>6, <1>7, <1>9, <1>10, <1>11, <1>12, <1>13 DEF IInv, Good

LEMMA HandlerKeeps == ASSUME IInv, NEW s \in Slots, Handler(s) PROVE IInv'
<1>1. CASE Scanned(s) \/ ScanFails(s) \/ CameraStopped(s) BY <1>1, ScannedKeeps, ScanEndKeeps
<1>2. CASE LateReservation(s) \/ Reserved(s) \/ Recognised(s) \/ Contacted(s) \/ RelayDeclined(s)
  BY <1>2, LateReservationKeeps, ReservedKeeps, RecognisedKeeps, ContactedKeeps, RelayDeclinedKeeps
<1>3. CASE StartFails(s) \/ StartRevoked(s) \/ SingleFails(s) \/ SingleRevoked(s) \/ Inspected(s)
  BY <1>3, StartFailsKeeps, StartRevokedKeeps, SingleFailsKeeps, SingleRevokedKeeps, InspectedKeeps
<1>4. CASE Unlocked(s) \/ Painted(s) \/ Ready(s) \/ Linked(s)
  BY <1>4, UnlockedKeeps, PaintedKeeps, ReadyKeeps, LinkedKeeps
<1>5. CASE Declined(s) \/ Previewed(s) \/ Finished(s) \/ Recovered(s) \/ DecideFails(s) \/ DecideRevoked(s)
  BY <1>5, DeclinedKeeps, PreviewedKeeps, FinishedKeeps, RecoveredKeeps, DecideFailsKeeps,
     DecideRevokedKeeps
<1>6. CASE Cancelled(s) \/ Resumed(s) \/ Redrawn(s) BY <1>6, CancelledKeeps, ResumedKeeps, RedrawnKeeps
<1>7. CASE NothingToResume(s) \/ Fenced(s) \/ Unawaited(s) BY <1>7, DroppedKeeps
<1> QED BY <1>1, <1>2, <1>3, <1>4, <1>5, <1>6, <1>7 DEF Handler

LEMMA NativeKeeps == ASSUME IInv, NEW s \in Slots, Native(s) PROVE IInv'
BY BeginsKeep, TakeKeeps, CompleteKeeps, RevokeKeeps, ReadKeeps DEF Native

LEMMA PersonKeeps == ASSUME IInv, Person PROVE IInv'
<1>1. CASE ToPairing \/ Start \/ Scan \/ StopCamera \/ Cancel
  BY <1>1, ToPairingKeeps, StartKeeps, CameraKeeps, CancelKeeps
<1>2. CASE ToHome \/ FinishPairing \/ ToApplications BY <1>2, AsideCallsKeep, ToApplicationsKeeps
<1>3. CASE Unlock \/ Retry \/ Recover \/ \E b \in BOOLEAN : DecideIntent(b) \/ DecideFinal(b)
  BY <1>3, ChoicesKeep
<1>4. CASE Link \/ KeepPending \/ \E b \in BOOLEAN : DecideRelay(b)
  BY <1>4, LinkKeeps, KeepPendingKeeps, DecideRelayKeeps
<1>5. CASE \E mode \in Entries : SelectEntryMode(mode) BY <1>5, SelectEntryModeKeeps
<1> QED BY <1>1, <1>2, <1>3, <1>4, <1>5 DEF Person

(* Every step keeps the invariant. *)
LEMMA NextIInv == IInv /\ [Next]_vars => IInv'
<1> SUFFICES ASSUME IInv, [Next]_vars PROVE IInv' OBVIOUS
<1>1. CASE Person BY <1>1, PersonKeeps
<1>2. CASE Background \/ Foreground BY <1>2, BackgroundKeeps, AsideCallsKeep
<1>3. CASE Expire BY <1>3, ExpireKeeps
<1>4. ASSUME NEW s \in Slots, Handler(s) \/ Native(s) PROVE IInv'
  BY <1>4, HandlerKeeps, NativeKeeps
<1>5. CASE UNCHANGED vars
  <2>1. Good(page, tasks, pressed) BY DEF IInv
  <2> QED BY <1>5, <2>1, StateKeeps DEF vars, record
<1> QED BY <1>1, <1>2, <1>3, <1>4, <1>5 DEF Next

LEMMA ScreenInvariant == Spec => []IInv
<1> QED BY InitIInv, NextIInv, PTL DEF Spec

(* pairing.js: what the consent screen shows of a single-link attempt is of the one
   its buttons act on; in the single-link flow "nothing was shared" is true of the
   attempt it is said of; and `link` hands nothing to an application unless the
   person pressed Link on that attempt's own preview. *)
THEOREM ScreenHonestAlways == Spec => []ScreenHonest
<1>1. IInv => ShownCurrent BY DEF IInv, Good, StateOK, PageOK, ShownCurrent, OnConsent
<1>2. IInv => Truthful
  <2>1. IInv => None \notin disclosed BY NoneIs DEF IInv, Good, TagsOK
  <2> QED BY <2>1 DEF IInv, Good, ToldOK, Numbered, Truthful
<1>3. IInv => Pressed BY DEF IInv, Good, LinkOK, Pressed
<1>4. IInv => ScreenHonest BY <1>1, <1>2, <1>3 DEF ScreenHonest
<1> QED BY <1>4, ScreenInvariant, PTL

(* pairing.js: a page that is idle and waits for nothing has left no tagged attempt
   alive, which would refuse every new invitation until its deadline. *)
THEOREM NothingOrphaned == Spec => []NoOrphan
<1>1. IInv => NoOrphan
  <2> SUFFICES ASSUME IInv, Quiescent, native.live, native.mode = "single" PROVE FALSE
    BY DEF NoOrphan
  <2>1. page.tag = None BY IdleHolds DEF Quiescent
  <2>2. native.n \in Nat /\ Living(native.n) BY DEF Living, IInv, Good, StateOK, NativeStates
  <2>3. \A s \in Slots : ~Fresh(tasks[s]) /\ ~Ends(tasks[s], native.n)
    BY IdleIs DEF Quiescent, Fresh, Ends, TaskIs
  <2> QED BY <2>1, <2>2, <2>3, NoneIs DEF IInv, Good, HeldOK
<1> QED BY <1>1, ScreenInvariant, PTL

-----------------------------------------------------------------------------
(* LinkScreens: the inductive invariant *)

MaybeCode == Codes \cup {Null}
Screens == {"none", "welcome", "passcode", "restore", "phrase", "confirm", "created", "restored",
            "home", "link", "type", "consent", "presence", "refused", "consent-application",
            "applications", "fingerprint", "device", "unlink", "recovery", "ended"}
Commands == {"idle", "refresh", "create", "backup", "restore", "camera", "read", "reject", "drop",
             "authorise", "prepare", "unlink", "confirm", "decline"}
CommandReplies == {Null, "ok", "error", "device", "enrolment", "signing", "required", "notRequired"}

UiStates == [screen : Screens, busy : BOOLEAN, words : BOOLEAN, linkable : BOOLEAN,
             enrol : MaybeCode \cup {"active"}, finger : MaybeCode,
             timer : MaybeCode, recovery : BOOLEAN]
HandlerStates == [pc : Commands, code : MaybeCode, reply : CommandReplies]
WalletStates == [identity : {"none", "unconfirmed", "confirmed"},
                 offer : MaybeCode, enrol : MaybeCode, issuance : MaybeCode]

\* The enrolment that the buttons of the comparison speak of is the one whose
\* fingerprint is drawn, unless a late answer has put one there that needs no
\* comparison.
UiOK(p) ==
  /\ p \in UiStates
  /\ p.screen = "fingerprint" /\ p.enrol \in Enrolments =>
       p.enrol \in Bound \/ p.enrol = p.finger

\* A confirmation on its way is for an enrolment that was compared or needs no
\* comparison; only the latter are answered so.
HandlerOK(t, m) ==
  /\ t \in HandlerStates
  /\ t.pc = "confirm" => t.code \in Bound \cup m
  /\ t.pc = "prepare" /\ t.reply = "notRequired" => t.code \in Bound
HandlersOK(ts, m) == ts \in [Tasks -> HandlerStates] /\ \A s \in Tasks : HandlerOK(ts[s], m)

LinkInv == /\ UiOK(ui) /\ HandlersOK(handlers, matched) /\ wallet \in WalletStates
           /\ ComparedFirst

-----------------------------------------------------------------------------
(* What a handler makes of the page *)

LEMMA NullIs == /\ Null \in MaybeCode /\ Null \notin Enrolments /\ Null # "notRequired"
                /\ "active" \notin Enrolments
                /\ Enrolments \subseteq MaybeCode /\ Bound \subseteq MaybeCode
BY LinkScreensAssumption DEF MaybeCode, Codes

(* A flag, the words or the countdown may change; so may the enrolment on any
   other screen, or for one that needs no comparison. *)
LEMMA FlagKeeps ==
  ASSUME NEW p, UiOK(p), NEW b \in BOOLEAN, NEW c \in MaybeCode
  PROVE  /\ UiOK([p EXCEPT !.busy = b]) /\ UiOK([p EXCEPT !.words = b])
         /\ UiOK([p EXCEPT !.linkable = b]) /\ UiOK([p EXCEPT !.recovery = b])
         /\ UiOK([p EXCEPT !.timer = c])
BY DEF UiOK, UiStates

LEMMA EnrolKeeps ==
  ASSUME NEW p, UiOK(p), NEW e \in MaybeCode \cup {"active"},
         e \notin Enrolments \/ e \in Bound \/ p.screen # "fingerprint"
  PROVE  UiOK([p EXCEPT !.enrol = e])
BY DEF UiOK, UiStates

(* No screen but the comparison asks for a fingerprint. *)
LEMMA DisplayKeeps ==
  ASSUME NEW p, UiOK(p), NEW name \in Screens \ {"fingerprint"}
  PROVE  UiOK(Display(p, name)) /\ Display(p, name).screen = name
<1> DEFINE t == IF name = "consent" THEN p.timer ELSE Null
           b == IF p.recovery THEN FALSE ELSE p.busy
<1>1. t \in MaybeCode /\ b \in BOOLEAN /\ FALSE \in BOOLEAN
  BY NullIs DEF UiOK, UiStates
<1>2. Display(p, name) = [p EXCEPT !.screen = name, !.timer = t, !.busy = b, !.recovery = FALSE,
                                !.finger = Null]
  BY DEF Display
<1> HIDE DEF t, b
<1>3. Display(p, name) \in UiStates
  <2>1. name \in Screens /\ p \in UiStates BY DEF UiOK
  <2> HIDE DEF Screens, Display
  <2> QED BY <1>1, <1>2, <2>1, NullIs DEF UiStates
<1>4. Display(p, name).screen = name BY <1>2 DEF UiOK, UiStates
<1> QED BY <1>3, <1>4 DEF UiOK

-----------------------------------------------------------------------------
(* What a handler makes of the tasks *)

LEMMA WaitsForOK ==
  ASSUME NEW m, NEW pc \in Commands, NEW c \in MaybeCode, pc = "confirm" => c \in Bound \cup m
  PROVE  HandlerOK(WaitsFor(pc, c), m)
<1> DEFINE i == [pc |-> "idle", code |-> Null, reply |-> Null]
<1>1. i \in HandlerStates /\ i.reply = Null
  BY NullIs DEF HandlerStates, Commands, CommandReplies
<1>2. WaitsFor(pc, c) = [i EXCEPT !.pc = pc, !.code = c] BY DEF WaitsFor, Free
<1> HIDE DEF i, WaitsFor
<1>3. /\ WaitsFor(pc, c) \in HandlerStates
      /\ WaitsFor(pc, c).pc = pc /\ WaitsFor(pc, c).code = c /\ WaitsFor(pc, c).reply = Null
  BY <1>1, <1>2 DEF HandlerStates
<1> QED BY <1>3, NullIs DEF HandlerOK

LEMMA FreeOK == ASSUME NEW m PROVE HandlerOK(Free, m)
BY NullIs DEF Free, HandlerOK, HandlerStates, Commands, CommandReplies

LEMMA TaskKeeps ==
  ASSUME NEW m, NEW t, NEW s \in Tasks, HandlersOK(handlers, m), HandlerOK(t, m)
  PROVE  HandlersOK([handlers EXCEPT ![s] = t], m)
BY DEF HandlersOK, HandlerOK

LEMMA InvokingKeeps ==
  ASSUME NEW m, NEW pc \in Commands, NEW c \in MaybeCode, HandlersOK(handlers, m), AnyFree,
         pc = "confirm" => c \in Bound \cup m
  PROVE  HandlersOK(Invoking(pc, c), m)
<1> DEFINE s == CHOOSE s \in Tasks : handlers[s] = Free
<1>1. s \in Tasks BY DEF AnyFree
<1>2. Invoking(pc, c) = [handlers EXCEPT ![s] = WaitsFor(pc, c)] BY DEF Invoking
<1> HIDE DEF s
<1> QED BY <1>1, <1>2, WaitsForOK, TaskKeeps

LEMMA FreedKeeps ==
  ASSUME NEW m, NEW s \in Tasks, HandlersOK(handlers, m) PROVE HandlersOK(Freed(s), m)
BY FreeOK, TaskKeeps DEF Freed

LEMMA ContinuedKeeps ==
  ASSUME NEW m, NEW s \in Tasks, NEW pc \in Commands, NEW c \in MaybeCode, HandlersOK(handlers, m),
         pc = "confirm" => c \in Bound \cup m
  PROVE  HandlersOK(Continued(s, pc, c), m)
BY WaitsForOK, TaskKeeps DEF Continued

LEMMA RespondsKeeps ==
  ASSUME NEW m, NEW s \in Tasks, NEW r \in CommandReplies, HandlersOK(handlers, m),
         r # "notRequired" \/ handlers[s].pc # "prepare"
  PROVE  HandlersOK([handlers EXCEPT ![s].reply = r], m)
BY DEF HandlersOK, HandlerOK, HandlerStates

-----------------------------------------------------------------------------
(* A turn of the page that leaves both as they must be keeps the invariant. *)
LEMMA StepKeeps ==
  ASSUME LinkInv, NEW p, NEW ts, UiOK(p), HandlersOK(ts, matched), Step(p, ts)
  PROVE  LinkInv'
BY DEF LinkInv, Step, world, ComparedFirst

LEMMA CoverKeeps ==
  ASSUME NEW p, UiOK(p) PROVE UiOK(Busy(p)) /\ UiOK(Uncovered(p))
<1>1. TRUE \in BOOLEAN /\ FALSE \in BOOLEAN OBVIOUS
<1> QED BY <1>1, FlagKeeps, NullIs DEF Busy, Uncovered

(* What a handler captured is a code. *)
LEMMA CodeOf ==
  ASSUME LinkInv, NEW s \in Tasks
  PROVE  handlers[s] \in HandlerStates /\ handlers[s].code \in MaybeCode /\ UiOK(ui)
         /\ HandlersOK(handlers, matched)
BY DEF LinkInv, HandlersOK, HandlerStates

-----------------------------------------------------------------------------
(* One lemma per handler of the page *)

\* A click or a late answer that only changes the screen, covered or not.
LEMMA OnlyShown ==
  ASSUME LinkInv, NEW ts, HandlersOK(ts, matched), NEW name \in Screens \ {"fingerprint"},
         NEW p, UiOK(p),
         \/ Step(Display(p, name), ts) \/ Step(Uncovered(Display(p, name)), ts)
         \/ Step(Busy(p), ts) \/ Step(Uncovered(p), ts) \/ Step(p, ts)
  PROVE  LinkInv'
<1>1. UiOK(Display(p, name)) BY DisplayKeeps
<1>2. UiOK(Uncovered(Display(p, name))) BY <1>1, CoverKeeps
<1>3. UiOK(Busy(p)) /\ UiOK(Uncovered(p)) BY CoverKeeps
<1> QED BY <1>1, <1>2, <1>3, StepKeeps

LEMMA OnboardingKeeps ==
  ASSUME LinkInv,
         \/ ToWelcome \/ BeginWith("passcode") \/ BeginWith("restore") \/ CreateIdentity
         \/ ToConfirm \/ ToPhrase \/ CheckBackup \/ RestoreIdentity
         \/ OpenDevice \/ ToUnlink \/ Unlink
  PROVE  LinkInv'
<1>1. UiOK(ui) /\ HandlersOK(handlers, matched) BY DEF LinkInv
<1>2. {"welcome", "passcode", "restore", "confirm", "phrase", "device", "unlink"}
      \subseteq Screens \ {"fingerprint"}
  BY DEF Screens
<1>3. ASSUME NEW name \in {"welcome", "passcode", "restore", "confirm", "phrase", "device",
                           "unlink"},
             Step(Display(ui, name), handlers)
      PROVE  LinkInv'
  BY <1>1, <1>2, <1>3, OnlyShown
<1>4. ASSUME NEW pc \in {"create", "backup", "restore", "unlink"}, AnyFree,
             Step(Busy(ui), Invoking(pc, Null))
      PROVE  LinkInv'
  <2>1. HandlersOK(Invoking(pc, Null), matched)
    BY <1>1, <1>4, InvokingKeeps, NullIs DEF Commands
  <2> QED BY <1>1, <1>4, <2>1, CoverKeeps, StepKeeps
<1> QED BY <1>3, <1>4 DEF ToWelcome, BeginWith, CreateIdentity, ToConfirm, ToPhrase, CheckBackup,
                          RestoreIdentity, OpenDevice, ToUnlink, Unlink

LEMMA OnboardedKeeps ==
  ASSUME LinkInv, NEW s \in Tasks, Created(s) \/ Checked(s) \/ Restored(s) \/ Unlinked(s)
  PROVE  LinkInv'
<1>1. UiOK(ui) /\ HandlersOK(Freed(s), matched) BY FreedKeeps DEF LinkInv
<1>2. {"phrase", "created", "restored", "ended"} \subseteq Screens \ {"fingerprint"}
  BY DEF Screens
<1>3. UiOK([ui EXCEPT !.words = TRUE]) /\ UiOK([ui EXCEPT !.words = FALSE])
  BY <1>1, FlagKeeps, NullIs
<1>4. CASE Created(s) BY <1>1, <1>2, <1>3, <1>4, OnlyShown DEF Created
<1>5. CASE Checked(s) BY <1>1, <1>2, <1>3, <1>5, OnlyShown DEF Checked
<1>6. CASE Restored(s) BY <1>1, <1>2, <1>3, <1>6, OnlyShown DEF Restored
<1>7. CASE Unlinked(s)
  <2>1. Step(Uncovered(ui), Freed(s)) \/ Step(Uncovered(Display(ui, "ended")), Freed(s))
    BY <1>7 DEF Unlinked
  <2> QED BY <1>1, <1>2, <2>1, OnlyShown
<1> QED BY <1>4, <1>5, <1>6, <1>7

LEMMA ReadingKeeps ==
  ASSUME LinkInv,
         \/ StartLink \/ ToType \/ GoHome \/ LeaveApplications
         \/ \E c \in Codes : ReadCode(c)
  PROVE  LinkInv'
<1>1. UiOK(ui) /\ HandlersOK(handlers, matched) BY DEF LinkInv
<1>2. {"type", "link"} \subseteq Screens \ {"fingerprint"} /\ "type" \in Screens
  BY DEF Screens
<1>3. ASSUME NEW pc \in {"camera", "refresh", "read"}, AnyFree, NEW c \in MaybeCode
      PROVE  HandlersOK(Invoking(pc, c), matched)
  BY <1>1, <1>3, InvokingKeeps DEF Commands
<1>4. CASE StartLink
  <2>1. CASE Step(Display(ui, "type"), handlers) BY <1>1, <1>2, <2>1, OnlyShown
  <2>2. CASE AnyFree /\ Step(Display(ui, "link"), Invoking("camera", Null))
    <3>1. HandlersOK(Invoking("camera", Null), matched) BY <1>3, <2>2, NullIs
    <3> QED BY <1>1, <1>2, <2>2, <3>1, OnlyShown
  <2> QED BY <1>4, <2>1, <2>2 DEF StartLink
<1>5. CASE ToType BY <1>1, <1>2, <1>5, OnlyShown DEF ToType
<1>6. CASE GoHome \/ LeaveApplications
  <2>1. AnyFree /\ Step(ui, Invoking("refresh", Null)) BY <1>6 DEF GoHome, LeaveApplications
  <2>2. HandlersOK(Invoking("refresh", Null), matched) BY <1>3, <2>1, NullIs
  <2> QED BY <1>1, <2>1, <2>2, StepKeeps
<1>7. ASSUME NEW c \in Codes, ReadCode(c) PROVE LinkInv'
  <2>1. HandlersOK(Invoking("read", c), matched) BY <1>3, <1>7 DEF ReadCode, MaybeCode
  <2> QED BY <1>1, <1>2, <1>7, <2>1, OnlyShown DEF ReadCode
<1> QED BY <1>4, <1>5, <1>6, <1>7

LEMMA RefreshedKeeps == ASSUME LinkInv, NEW s \in Tasks, Refreshed(s) PROVE LinkInv'
<1>1. UiOK(ui) /\ HandlersOK(Freed(s), matched) BY FreedKeeps DEF LinkInv
<1>2. {"welcome", "home"} \subseteq Screens \ {"fingerprint"} BY DEF Screens
<1>3. CASE wallet.identity = "none" BY <1>1, <1>2, <1>3, OnlyShown DEF Refreshed
<1>4. CASE wallet.identity # "none"
  <2> DEFINE p == [ui EXCEPT !.linkable = Linkable(wallet.identity)]
  <2>1. UiOK(p) BY <1>1, FlagKeeps, NullIs DEF Linkable
  <2>2. Step(Display(p, "home"), Freed(s)) BY <1>4 DEF Refreshed
  <2> HIDE DEF p
  <2> QED BY <1>1, <1>2, <2>1, <2>2, OnlyShown
<1> QED BY <1>3, <1>4

LEMMA CodeScannedKeeps ==
  ASSUME LinkInv, NEW s \in Tasks, CameraFails(s) \/ \E c \in Codes : CodeScanned(s, c)
  PROVE  LinkInv'
<1>1. UiOK(ui) /\ HandlersOK(handlers, matched) /\ HandlersOK(Freed(s), matched)
  BY FreedKeeps DEF LinkInv
<1>2. ASSUME NEW c \in Codes, CodeScanned(s, c) PROVE LinkInv'
  <2>1. HandlersOK(Continued(s, "read", c), matched) BY <1>1, ContinuedKeeps DEF Commands, MaybeCode
  <2> QED BY <1>1, <1>2, <2>1, CoverKeeps, StepKeeps DEF CodeScanned
<1>3. CASE CameraFails(s) BY <1>1, <1>3, StepKeeps DEF CameraFails
<1> QED BY <1>2, <1>3

LEMMA CodeReadKeeps == ASSUME LinkInv, NEW s \in Tasks, CodeRead(s) PROVE LinkInv'
<1>1. UiOK(ui) /\ HandlersOK(Freed(s), matched) /\ handlers[s].code \in MaybeCode
  BY FreedKeeps, CodeOf DEF LinkInv
<1>2. {"consent", "consent-application", "refused"} \subseteq Screens \ {"fingerprint"}
  BY DEF Screens
<1>3. CASE Step(Uncovered(RenderConsent(ui, handlers[s].code)), Freed(s))
  <2>1. UiOK([ui EXCEPT !.enrol = Null]) BY <1>1, EnrolKeeps, NullIs
  <2>2. UiOK(Display([ui EXCEPT !.enrol = Null], "consent")) BY <1>2, <2>1, DisplayKeeps
  <2>3. UiOK(RenderConsent(ui, handlers[s].code))
    BY <1>1, <2>2, FlagKeeps DEF RenderConsent
  <2> QED BY <1>1, <1>3, <2>3, CoverKeeps, StepKeeps
<1>4. CASE Step(Uncovered(RenderEnrolConsent(ui)), Freed(s))
  <2> DEFINE p == Display([ui EXCEPT !.enrol = "active"], "consent-application")
  <2>1. UiOK([ui EXCEPT !.enrol = "active"]) BY <1>1, EnrolKeeps, NullIs
  <2>2. UiOK(p) BY <1>2, <2>1, DisplayKeeps
  <2> QED BY <1>1, <1>4, <2>2, CoverKeeps, StepKeeps DEF RenderEnrolConsent
<1>5. CASE Step(Uncovered(RefuseCode(ui)), Freed(s))
  BY <1>1, <1>2, <1>5, OnlyShown DEF RefuseCode
<1> QED BY <1>3, <1>4, <1>5 DEF CodeRead

LEMMA ConsentKeeps ==
  ASSUME LinkInv,
         \/ ToPresence \/ Reject \/ Tick \/ BackToConsent \/ Authorise
         \/ ConsentApprove \/ ConsentRefuse
  PROVE  LinkInv'
<1>1. UiOK(ui) /\ HandlersOK(handlers, matched) BY DEF LinkInv
<1>2. {"presence", "consent", "refused", "applications"} \subseteq Screens \ {"fingerprint"}
  BY DEF Screens
<1>3. ASSUME NEW pc \in {"reject", "drop", "prepare", "authorise", "refresh"}, AnyFree
      PROVE  HandlersOK(Invoking(pc, Null), matched)
  BY <1>1, <1>3, InvokingKeeps, NullIs DEF Commands
<1>4. UiOK([ui EXCEPT !.timer = Null]) /\ UiOK([ui EXCEPT !.enrol = Null])
  BY <1>1, FlagKeeps, EnrolKeeps, NullIs
<1>5. CASE ToPresence BY <1>1, <1>2, <1>5, OnlyShown DEF ToPresence
<1>6. CASE Reject BY <1>3, <1>4, <1>6, StepKeeps DEF Reject
<1>7. CASE Tick
  <2>1. UiOK(RefuseCode([ui EXCEPT !.timer = Null]))
    BY <1>2, <1>4, DisplayKeeps DEF RefuseCode
  <2> QED BY <1>3, <1>7, <2>1, StepKeeps DEF Tick
<1>8. CASE BackToConsent BY <1>1, <1>2, <1>8, OnlyShown DEF BackToConsent
<1>9. CASE Authorise
  <2>1. \E pc \in {"prepare", "authorise"} : AnyFree /\ Step(Busy(ui), Invoking(pc, Null))
    BY <1>9 DEF Authorise
  <2> QED BY <1>1, <1>3, <2>1, CoverKeeps, StepKeeps
<1>10. CASE ConsentApprove
  <2>1. \E name \in {"presence", "applications"} : Step(Display(ui, name), handlers)
    BY <1>10 DEF ConsentApprove
  <2> QED BY <1>1, <1>2, <2>1, OnlyShown
<1>11. CASE ConsentRefuse
  <2>1. CASE AnyFree /\ Step([ui EXCEPT !.enrol = Null], Invoking("refresh", Null))
    BY <1>3, <1>4, <2>1, StepKeeps
  <2>2. CASE Step(Display(ui, "applications"), handlers) BY <1>1, <1>2, <2>2, OnlyShown
  <2> QED BY <1>11, <2>1, <2>2 DEF ConsentRefuse
<1> QED BY <1>5, <1>6, <1>7, <1>8, <1>9, <1>10, <1>11

LEMMA ConsentedKeeps ==
  ASSUME LinkInv, NEW s \in Tasks, Rejected(s) \/ Authorised(s)
  PROVE  LinkInv'
<1>1. UiOK(ui) /\ HandlersOK(Freed(s), matched) BY FreedKeeps DEF LinkInv
<1>2. "ended" \in Screens \ {"fingerprint"} BY DEF Screens
<1>3. UiOK([ui EXCEPT !.timer = Null]) BY <1>1, FlagKeeps, NullIs
<1>4. CASE Rejected(s) BY <1>1, <1>2, <1>4, OnlyShown DEF Rejected
<1>5. CASE Authorised(s) BY <1>1, <1>2, <1>3, <1>5, OnlyShown DEF Authorised
<1> QED BY <1>4, <1>5

(* The answer to a preparation draws the fingerprint of the very enrolment it
   names, or names one that is bound. *)
LEMMA PreparedKeeps == ASSUME LinkInv, NEW s \in Tasks, EnrolPrepared(s) PROVE LinkInv'
<1> DEFINE c == handlers[s].code
<1>1. UiOK(ui) /\ HandlersOK(handlers, matched) /\ c \in MaybeCode /\ HandlersOK(Freed(s), matched)
  BY CodeOf, FreedKeeps
<1>2. CASE /\ Returned(s, "prepare", "notRequired")
           /\ Step(Busy([ui EXCEPT !.enrol = c]), Continued(s, "confirm", c))
  <2>1. c \in Bound BY <1>1, <1>2 DEF HandlersOK, HandlerOK, Returned
  <2>2. UiOK(Busy([ui EXCEPT !.enrol = c])) BY <1>1, <2>1, EnrolKeeps, CoverKeeps
  <2>3. HandlersOK(Continued(s, "confirm", c), matched) BY <1>1, <2>1, ContinuedKeeps DEF Commands
  <2> QED BY <1>2, <2>2, <2>3, StepKeeps
<1>3. CASE Step(Uncovered(Display([ui EXCEPT !.enrol = c, !.finger = c], "fingerprint")), Freed(s))
  <2> DEFINE p == [ui EXCEPT !.enrol = c, !.finger = c]
             q == Display(p, "fingerprint")
             b == IF p.recovery THEN FALSE ELSE p.busy
  <2>1. p \in UiStates /\ p.enrol = c /\ p.finger = c /\ b \in BOOLEAN
    BY <1>1 DEF UiOK, UiStates
  <2>2. q = [p EXCEPT !.screen = "fingerprint", !.timer = Null, !.busy = b,
                      !.recovery = FALSE, !.finger = p.finger]
    BY DEF Display
  <2>3. "fingerprint" \in Screens /\ FALSE \in BOOLEAN BY DEF Screens
  <2> HIDE DEF c, p, q, b, Screens
  <2>4. q \in UiStates /\ q.enrol = c /\ q.finger = c
    BY <1>1, <2>1, <2>2, <2>3, NullIs DEF UiStates
  <2>5. UiOK(q) BY <2>4 DEF UiOK
  <2>6. Step(Uncovered(q), Freed(s)) BY <1>3 DEF q, p, c
  <2> QED BY <1>1, <2>5, <2>6, CoverKeeps, StepKeeps
<1>4. CASE Step(Uncovered(ui), Freed(s)) BY <1>1, <1>4, CoverKeeps, StepKeeps
<1> QED BY <1>2, <1>3, <1>4 DEF EnrolPrepared

(* Found equal, it is confirmed: the enrolment the buttons speak of is the one
   that was drawn, or is bound. *)
LEMMA MatchesKeeps == ASSUME LinkInv, FingerprintMatches PROVE LinkInv'
<1>1. UiOK(ui) /\ HandlersOK(handlers, matched) BY DEF LinkInv
<1>2. matched' = matched \cup ({ui.finger} \ {Null}) /\ ui.screen = "fingerprint"
      /\ UNCHANGED world
  BY DEF FingerprintMatches, Compared, Click
<1>3. HandlersOK(handlers, matched') BY <1>1, <1>2 DEF HandlersOK, HandlerOK
<1>4. UiOK(ui') /\ HandlersOK(handlers', matched')
  <2>1. CASE ui' = Display(ui, "applications") /\ UNCHANGED handlers
    <3>1. "applications" \in Screens \ {"fingerprint"} BY DEF Screens
    <3> QED BY <1>1, <1>3, <2>1, <3>1, DisplayKeeps
  <2>2. CASE UNCHANGED <<ui, handlers>> BY <1>1, <1>3, <2>2
  <2>3. CASE Named /\ AnyFree /\ ui' = Busy(ui) /\ handlers' = Invoking("confirm", ui.enrol)
    <3>1. ui.enrol \in Bound \cup matched' /\ ui.enrol \in MaybeCode
      BY <1>1, <1>2, <2>3, NullIs DEF UiOK, Named
    <3>2. HandlersOK(Invoking("confirm", ui.enrol), matched')
      BY <1>3, <2>3, <3>1, InvokingKeeps DEF Commands
    <3> QED BY <1>1, <2>3, <3>2, CoverKeeps
  <2> QED BY <2>1, <2>2, <2>3 DEF FingerprintMatches
<1> QED BY <1>2, <1>4 DEF LinkInv, ComparedFirst, world

LEMMA DiffersKeeps == ASSUME LinkInv, FingerprintDiffers PROVE LinkInv'
<1>1. UiOK(ui) /\ HandlersOK(handlers, matched) BY DEF LinkInv
<1>2. UNCHANGED <<world, matched>> BY DEF FingerprintDiffers
<1>3. "ended" \in Screens \ {"fingerprint"} BY DEF Screens
<1>4. UiOK(ui') /\ HandlersOK(handlers', matched)
  <2>1. CASE ui' = Display(ui, "ended") /\ UNCHANGED handlers BY <1>1, <1>3, <2>1, DisplayKeeps
  <2>2. CASE UNCHANGED <<ui, handlers>> BY <1>1, <2>2
  <2>3. CASE /\ Named /\ AnyFree /\ handlers' = Invoking("decline", ui.enrol)
             /\ ui' = Display([ui EXCEPT !.enrol = Null], "ended")
    <3>1. UiOK([ui EXCEPT !.enrol = Null]) BY <1>1, EnrolKeeps, NullIs
    <3>2. HandlersOK(Invoking("decline", ui.enrol), matched)
      BY <1>1, <2>3, NullIs, InvokingKeeps DEF Commands, Named
    <3> QED BY <1>3, <2>3, <3>1, <3>2, DisplayKeeps
  <2> QED BY <2>1, <2>2, <2>3 DEF FingerprintDiffers
<1> QED BY <1>2, <1>4 DEF LinkInv, ComparedFirst, world

LEMMA ConfirmedKeeps == ASSUME LinkInv, NEW s \in Tasks, EnrolConfirmed(s) PROVE LinkInv'
<1>1. UiOK(ui) /\ HandlersOK(handlers, matched) /\ HandlersOK(Freed(s), matched)
  BY FreedKeeps DEF LinkInv
<1>2. UiOK([ui EXCEPT !.enrol = Null]) BY <1>1, EnrolKeeps, NullIs
<1>3. "presence" \in Screens \ {"fingerprint"} BY DEF Screens
<1>4. HandlersOK(Continued(s, "refresh", Null), matched)
  BY <1>1, ContinuedKeeps, NullIs DEF Commands
<1>5. CASE Step([ui EXCEPT !.enrol = Null], Continued(s, "refresh", Null))
  BY <1>2, <1>4, <1>5, StepKeeps
<1>6. CASE Step(Uncovered(Display([ui EXCEPT !.enrol = Null], "presence")), Freed(s))
  BY <1>1, <1>2, <1>3, <1>6, OnlyShown
<1> QED BY <1>5, <1>6 DEF EnrolConfirmed

LEMMA LifecycleKeeps == ASSUME LinkInv, ResumePending \/ InterruptPairing \/ NotNow PROVE LinkInv'
<1>1. UiOK(ui) /\ HandlersOK(handlers, matched) BY DEF LinkInv
<1>2. {"recovery", "ended"} \subseteq Screens \ {"fingerprint"} BY DEF Screens
<1>3. CASE ResumePending
  <2>1. UiOK(Display(ui, "recovery")) BY <1>1, <1>2, DisplayKeeps
  <2>2. UiOK([Display(ui, "recovery") EXCEPT !.recovery = TRUE]) BY <2>1, FlagKeeps, NullIs
  <2> QED BY <1>1, <1>3, <2>2, StepKeeps DEF ResumePending
<1>4. CASE InterruptPairing BY <1>1, <1>2, <1>4, OnlyShown DEF InterruptPairing
<1>5. CASE NotNow
  <2>1. UiOK([ui EXCEPT !.recovery = FALSE]) BY <1>1, FlagKeeps, NullIs
  <2>2. HandlersOK(Invoking("refresh", Null), matched)
    BY <1>1, <1>5, InvokingKeeps, NullIs DEF NotNow, Commands
  <2> QED BY <1>5, <2>1, <2>2, StepKeeps DEF NotNow
<1> QED BY <1>3, <1>4, <1>5

-----------------------------------------------------------------------------
(* One lemma per native command *)

(* A command that releases nothing keeps the invariant. *)
LEMMA CommandKeeps ==
  ASSUME LinkInv, UNCHANGED <<ui, matched, granted>>, HandlersOK(handlers', matched),
         wallet' \in WalletStates
  PROVE  LinkInv'
BY DEF LinkInv, ComparedFirst

LEMMA IdentityKeeps ==
  ASSUME LinkInv, NEW s \in Tasks, CreateNative(s) \/ ConfirmBackup(s) \/ RestoreNative(s)
  PROVE  LinkInv'
<1>1. \E r \in {"ok", "error"} : Responds(s, r) BY DEF CreateNative, ConfirmBackup, RestoreNative
<1>2. HandlersOK(handlers', matched) BY <1>1, RespondsKeeps DEF LinkInv, Responds, CommandReplies
<1>3. wallet' \in WalletStates
  BY DEF LinkInv, WalletStates, CreateNative, ConfirmBackup, RestoreNative
<1> QED BY <1>2, <1>3, CommandKeeps DEF CreateNative, ConfirmBackup, RestoreNative

LEMMA ReadCodeKeeps == ASSUME LinkInv, NEW s \in Tasks, ReadLinkCode(s) PROVE LinkInv'
<1>1. \E r \in {"device", "enrolment", "error"} : Responds(s, r) BY DEF ReadLinkCode
<1>2. HandlersOK(handlers', matched) BY <1>1, RespondsKeeps DEF LinkInv, Responds, CommandReplies
<1>3. wallet' \in WalletStates BY CodeOf DEF LinkInv, WalletStates, ReadLinkCode
<1> QED BY <1>2, <1>3, CommandKeeps DEF ReadLinkCode

LEMMA RejectKeeps == ASSUME LinkInv, NEW s \in Tasks, RejectOffer(s) PROVE LinkInv'
<1>1. HandlersOK(handlers', matched)
  <2>1. CASE Responds(s, "ok") BY <2>1, RespondsKeeps DEF LinkInv, Responds, CommandReplies
  <2>2. CASE handlers' = Freed(s) BY <2>2, FreedKeeps DEF LinkInv
  <2> QED BY <2>1, <2>2 DEF RejectOffer
<1>2. wallet' \in WalletStates BY NullIs DEF LinkInv, WalletStates, RejectOffer
<1> QED BY <1>1, <1>2, CommandKeeps DEF RejectOffer

(* What a command reports it has worked on. *)
LEMMA RespondsForKeeps ==
  ASSUME LinkInv, NEW s \in Tasks, NEW c \in MaybeCode, NEW r \in CommandReplies,
         RespondsFor(s, c, r),
         handlers[s].pc # "confirm", r = "notRequired" => c \in Bound
  PROVE  HandlersOK(handlers', matched)
<1> DEFINE t == [handlers[s] EXCEPT !.code = c, !.reply = r]
<1>1. handlers[s] \in HandlerStates /\ HandlersOK(handlers, matched) BY CodeOf
<1>2. t \in HandlerStates /\ t.pc = handlers[s].pc /\ t.code = c /\ t.reply = r
  BY <1>1 DEF HandlerStates
<1>3. handlers' = [handlers EXCEPT ![s] = t] BY DEF RespondsFor
<1> HIDE DEF t
<1>4. HandlerOK(t, matched) BY <1>2 DEF HandlerOK
<1> QED BY <1>1, <1>3, <1>4, TaskKeeps

LEMMA AuthoriseKeeps ==
  ASSUME LinkInv, NEW s \in Tasks, AuthoriseStart(s) \/ AuthoriseEnd(s)
  PROVE  LinkInv'
<1>1. HandlersOK(handlers', matched)
  <2>1. CASE \E r \in {"ok", "error"} : Responds(s, r)
    BY <2>1, RespondsKeeps DEF LinkInv, Responds, CommandReplies
  <2>2. CASE AuthoriseStart(s) /\ RespondsFor(s, wallet.offer, "signing")
    <3>1. wallet.offer \in MaybeCode /\ "signing" \in CommandReplies
      BY DEF LinkInv, WalletStates, CommandReplies
    <3> QED BY <2>2, <3>1, RespondsForKeeps DEF AuthoriseStart, Running
  <2> QED BY <2>1, <2>2 DEF AuthoriseStart, AuthoriseEnd
<1>2. wallet' \in WalletStates
  BY NullIs DEF LinkInv, WalletStates, AuthoriseStart, AuthoriseEnd, world
<1> QED BY <1>1, <1>2, CommandKeeps DEF AuthoriseStart, AuthoriseEnd, world

(* A preparation answers that no comparison is required only for an enrolment
   whose account the authority binds. *)
LEMMA PrepareKeeps == ASSUME LinkInv, NEW s \in Tasks, EnrolPrepare(s) PROVE LinkInv'
<1> DEFINE c == wallet.enrol
<1>1. c \in MaybeCode BY DEF LinkInv, WalletStates
<1>2. HandlersOK(handlers', matched)
  <2>1. CASE Responds(s, "error") BY <2>1, RespondsKeeps DEF LinkInv, Responds, CommandReplies
  <2>2. CASE RespondsFor(s, c, IF c \in Bound THEN "notRequired" ELSE "required")
    BY <1>1, <2>2, RespondsForKeeps DEF EnrolPrepare, Running, CommandReplies
  <2> QED BY <2>1, <2>2 DEF EnrolPrepare
<1>3. wallet' \in WalletStates
  <2>1. wallet' = wallet \/ wallet' = [wallet EXCEPT !.issuance = c] BY DEF EnrolPrepare
  <2> QED BY <1>1, <2>1 DEF LinkInv, WalletStates
<1> QED BY <1>2, <1>3, CommandKeeps DEF EnrolPrepare

(* What is released was confirmed, and what is confirmed was compared or needs
   no comparison. *)
LEMMA ConfirmKeeps == ASSUME LinkInv, NEW s \in Tasks, EnrolConfirm(s) PROVE LinkInv'
<1>1. HandlersOK(handlers', matched)
  <2>1. \E r \in {"ok", "error"} : Resolves(s, r) BY DEF EnrolConfirm
  <2>2. CASE handlers' = Freed(s) BY <2>2, FreedKeeps DEF LinkInv
  <2>3. CASE \E r \in {"ok", "error"} : Responds(s, r)
    BY <2>3, RespondsKeeps DEF LinkInv, Responds, CommandReplies
  <2> QED BY <2>1, <2>2, <2>3 DEF Resolves
<1>2. wallet' \in WalletStates
  <2> DEFINE e == IF Released(s) THEN Null ELSE wallet.enrol
  <2>1. wallet' = [wallet EXCEPT !.issuance = Null, !.enrol = e] BY DEF EnrolConfirm
  <2>2. e \in MaybeCode /\ Null \in MaybeCode BY NullIs DEF LinkInv, WalletStates
  <2> HIDE DEF e
  <2> QED BY <2>1, <2>2 DEF LinkInv, WalletStates
<1>3. granted' = granted \/ (Released(s) /\ granted' = granted \cup {handlers[s].code})
  BY DEF EnrolConfirm
<1>4. ASSUME Released(s) PROVE handlers[s].code \in Bound \cup matched
  BY <1>4 DEF LinkInv, HandlersOK, HandlerOK, Released
<1> QED BY <1>1, <1>2, <1>3, <1>4 DEF LinkInv, ComparedFirst, EnrolConfirm

LEMMA CodeExpiresKeeps == ASSUME LinkInv, NEW c \in Codes, CodeExpires(c) PROVE LinkInv'
<1> DEFINE o == Dropped(wallet.offer, c)
           e == Dropped(wallet.enrol, c)
           i == Dropped(wallet.issuance, c)
<1>1. o \in MaybeCode /\ e \in MaybeCode /\ i \in MaybeCode
  BY NullIs DEF LinkInv, WalletStates, Dropped
<1>2. wallet' = [wallet EXCEPT !.offer = o, !.enrol = e, !.issuance = i] BY DEF CodeExpires
<1> HIDE DEF o, e, i
<1>3. wallet' \in WalletStates BY <1>1, <1>2 DEF LinkInv, WalletStates
<1> QED BY <1>3, CommandKeeps DEF CodeExpires, LinkInv

-----------------------------------------------------------------------------
(* A start, and a start after a stop *)

LEMMA StartedOK == UiOK(StartedPage) /\ HandlersOK(StartedTasks, matched)
<1>1. StartedPage \in UiStates /\ StartedPage.enrol = Null
  BY NullIs DEF StartedPage, UiStates, Screens
<1>2. UiOK(StartedPage) BY <1>1, NullIs DEF UiOK
<1>3. HandlerOK(Free, matched) /\ HandlerOK(WaitsFor("refresh", Null), matched)
  BY FreeOK, WaitsForOK, NullIs DEF Commands
<1> DEFINE s == CHOOSE s \in Tasks : TRUE
           idle == [r \in Tasks |-> Free]
<1>4. StartedTasks = [idle EXCEPT ![s] = WaitsFor("refresh", Null)] BY DEF StartedTasks
<1>5. \A r \in Tasks : StartedTasks[r] \in {Free, WaitsFor("refresh", Null)}
  BY <1>4
<1>6. DOMAIN StartedTasks = Tasks /\ StartedTasks = [r \in Tasks |-> StartedTasks[r]]
  BY <1>4
<1> HIDE DEF s, idle, WaitsFor, Free, StartedTasks
<1>7. \A r \in Tasks : StartedTasks[r] \in HandlerStates /\ HandlerOK(StartedTasks[r], matched)
  BY <1>3, <1>5 DEF HandlerOK
<1> QED BY <1>2, <1>6, <1>7 DEF HandlersOK

LEMMA LinkInvInit == LinkInit => LinkInv
<1> SUFFICES ASSUME LinkInit PROVE LinkInv
  OBVIOUS
<1>1. wallet \in WalletStates BY NullIs DEF LinkInit, StartedNative, WalletStates
<1> QED BY <1>1, StartedOK DEF LinkInit, LinkInv, ComparedFirst

LEMMA RestartKeeps == ASSUME LinkInv, Restart PROVE LinkInv'
<1>1. wallet' \in WalletStates BY NullIs DEF LinkInv, Restart, StartedNative, WalletStates
<1> QED BY <1>1, StartedOK, CommandKeeps DEF Restart, LinkInv, ComparedFirst

-----------------------------------------------------------------------------
(* The invariant is inductive *)

LEMMA LinkInvNext == LinkInv /\ [LinkNext]_linkVars => LinkInv'
<1> SUFFICES ASSUME LinkInv, [LinkNext]_linkVars PROVE LinkInv'
  OBVIOUS
<1>1. CASE UNCHANGED linkVars BY <1>1 DEF linkVars, LinkInv, ComparedFirst
<1>2. CASE PersonClicks
  BY <1>2, OnboardingKeeps, ReadingKeeps, ConsentKeeps, MatchesKeeps, DiffersKeeps,
     LifecycleKeeps DEF PersonClicks
<1>3. CASE Tick \/ ResumePending \/ InterruptPairing BY <1>3, ConsentKeeps, LifecycleKeeps
<1>4. CASE Restart BY <1>4, RestartKeeps
<1>5. ASSUME NEW s \in Tasks, HandlerTurn(s) PROVE LinkInv'
  BY <1>5, OnboardedKeeps, RefreshedKeeps, CodeScannedKeeps, CodeReadKeeps, ConsentedKeeps,
     PreparedKeeps, ConfirmedKeeps DEF HandlerTurn
<1>6. ASSUME NEW s \in Tasks, NativeCommand(s) PROVE LinkInv'
  BY <1>6, IdentityKeeps, ReadCodeKeeps, RejectKeeps, AuthoriseKeeps, PrepareKeeps,
     ConfirmKeeps DEF NativeCommand
<1>7. ASSUME NEW c \in Codes, CodeExpires(c) PROVE LinkInv' BY <1>7, CodeExpiresKeeps
<1> QED BY <1>1, <1>2, <1>3, <1>4, <1>5, <1>6, <1>7 DEF LinkNext

LEMMA LinkInvariant == LinkSpec => []LinkInv
BY LinkInvInit, LinkInvNext, PTL DEF LinkSpec

-----------------------------------------------------------------------------
(* The person compares before anything is released (confirm_issuance's
   comparison of the ceremony, app_grant.rs:569): whatever handlers wait, however
   late they are answered and whatever commands overtake one another, a grant is
   released for an account the authority does not bind only when its fingerprint
   was drawn and found equal. *)
THEOREM ComparedBeforeReleased == LinkSpec => []ComparedFirst
<1>1. LinkInv => ComparedFirst BY DEF LinkInv
<1> QED BY <1>1, LinkInvariant, PTL

=============================================================================
