--------------------------- MODULE AttemptsProofs ---------------------------
(***************************************************************************)
(* TLAPS proofs about the attempt fence, for any sets of attempts, command *)
(* invocations and roots and any clock bounds.                             *)
(***************************************************************************)
EXTENDS Attempts, FiniteSetTheorems, TLAPS

-----------------------------------------------------------------------------
(* The inductive invariant *)

\* A worker owns the lease, works for an attempt that has begun, carries a
\* continuation and, while it has effects left, stands at one of them.
WorkerOK(p) ==
  Working(p) =>
    /\ worker = p
    /\ procs[p].cmd \in CmdNames
    /\ procs[p].att \in Attempts
    /\ procs[p].cont \in Continuation
    /\ att[procs[p].att].st # "unborn"
    /\ procs[p].pc \in {"work", "effect"} => procs[p].step \in 1..LastStep(p)

\* unlock_preview works for a single-link attempt, and once it has unlocked
\* the root, the root on its stack is the one the attempt began under.
UnlockHeld(p) ==
  Working(p) /\ procs[p].cmd = "unlock" =>
    /\ att[procs[p].att].mode = "single"
    /\ procs[p].step = 2 => procs[p].held = att[procs[p].att].gen

\* A single-link attempt has recorded its root; until an attempt begins
\* nothing is signed for it, and a single-link one signs with its root only.
SignedOwn(a) ==
  /\ att[a].mode = "single" => att[a].gen # None /\ signed[a] \subseteq {att[a].gen}
  /\ att[a].st = "unborn" => signed[a] = {} /\ att[a].mode = "legacy"

IInv == /\ TypeOK
        /\ \A p \in Procs : WorkerOK(p)
        /\ \A p \in Procs : UnlockHeld(p)
        /\ \A a \in Attempts : SignedOwn(a)
        /\ FencedOut
        /\ CustodyFenced

-----------------------------------------------------------------------------
(* The command table *)

(* The twelve pairing commands of the table, by name. *)
LEMMA CmdNamesAre ==
  CmdNames = {"contact", "unlock", "painted", "link", "continue", "finishLink", "recognise",
              "relayDecide", "preliminary", "compare", "finalDecide", "finish"}
BY DEF CmdNames, Cmds

(* Every command leaves its continuation in a known phase, or ends it. *)
LEMMA CmdPhases == \A c \in CmdNames : Cmds[c].to \in Phases \cup {"end"}
<1> SUFFICES ASSUME NEW c \in CmdNames PROVE Cmds[c].to \in Phases \cup {"end"}
  OBVIOUS
<1>1. CASE c \in {"contact", "relayDecide"} BY <1>1 DEF Cmds, Phases
<1>2. CASE c \in {"unlock", "painted", "link"} BY <1>2 DEF Cmds, Phases
<1>3. CASE c \in {"continue", "finishLink", "finish"} BY <1>3 DEF Cmds, Phases
<1>4. CASE c \in {"recognise", "preliminary"} BY <1>4 DEF Cmds, Phases
<1>5. CASE c \in {"compare", "finalDecide"} BY <1>5 DEF Cmds, Phases
<1> QED BY <1>1, <1>2, <1>3, <1>4, <1>5, CmdNamesAre

(* Every command but preview_rendered performs at least one effect, and only
   unlock_preview has a second one that retains custody. *)
LEMMA CmdEffects ==
  ASSUME NEW c \in CmdNames
  PROVE  /\ Len(Cmds[c].does) \in Nat
         /\ Cmds[c].does # <<>> => 1 \in 1..Len(Cmds[c].does)
         /\ \A i \in 1..Len(Cmds[c].does) : Cmds[c].does[i] = "retain" => c = "unlock" /\ i = 2
         /\ \A i \in 1..Len(Cmds[c].does) : Cmds[c].does[i] = "unlock" /\ c = "unlock" => i = 1
<1>1. CASE c = "unlock" BY <1>1 DEF Cmds
<1>2. CASE c = "painted" BY <1>2 DEF Cmds
<1>3. CASE c \in {"contact", "recognise", "relayDecide", "compare", "finishLink", "finish"}
  <2>1. Cmds[c].does = <<"net">> BY <1>3 DEF Cmds
  <2> QED BY <2>1, <1>3
<1>4. CASE c \in {"link", "preliminary"}
  <2>1. Cmds[c].does = <<"approve">> BY <1>4 DEF Cmds
  <2> QED BY <2>1, <1>4
<1>5. CASE c = "continue" BY <1>5 DEF Cmds
<1>6. CASE c = "finalDecide" BY <1>6 DEF Cmds
<1> QED BY <1>1, <1>2, <1>3, <1>4, <1>5, <1>6, CmdNamesAre

-----------------------------------------------------------------------------
(* Revoking attempts *)

\* s is r after some revocation: nothing is gained, custody is kept only by a
\* record whose state and watchdog are as they were.
Weaker(r, s) ==
  /\ s.mode = r.mode /\ s.gen = r.gen /\ s.deadline = r.deadline
  /\ s.st = r.st \/ s.st \in Terminal
  /\ s.custody = None \/ (s.custody = r.custody /\ s.st = r.st /\ s.watch = r.watch)

(* check_locked answers "ok" or with one of the terminal states. *)
LEMMA VerdictIs ==
  ASSUME NEW a \in Attempts, Live(a)
  PROVE  Verdict(a) \in {"ok"} \cup Terminal
BY DEF Live, Verdict, Terminal

(* Only a live attempt passes the check of check_locked. *)
LEMMA PassesLive ==
  ASSUME TypeOK, NEW a \in Attempts, Passes(a)
  PROVE  Live(a)
<1>1. att[a].st \in {"unborn", "live"} \cup Terminal BY DEF TypeOK, AttemptState
<1> QED BY <1>1 DEF Passes, Verdict, Live, Terminal

(* Cancelling an attempt only weakens its record. *)
LEMMA CancelledWeaker ==
  ASSUME NEW r \in AttemptState
  PROVE  Cancelled(r) \in AttemptState /\ Weaker(r, Cancelled(r)) /\ Cancelled(r).st # "live"
BY DEF AttemptState, Cancelled, Weaker, Terminal

(* Dropping continuations only weakens an attempt record. *)
LEMMA DroppedWeaker ==
  ASSUME NEW r \in AttemptState, NEW a, NEW conts
  PROVE  /\ Dropped(r, a, conts) \in AttemptState
         /\ Weaker(r, Dropped(r, a, conts))
         /\ Dropped(r, a, conts).st = r.st
BY DEF AttemptState, Dropped, Weaker, Terminal

(* The record check_locked leaves is weaker than the one it read. *)
LEMMA FencedWeaker ==
  ASSUME NEW r \in AttemptState, NEW v \in {"ok"} \cup Terminal
  PROVE  Fenced(r, v) \in AttemptState /\ Weaker(r, Fenced(r, v))
BY DEF AttemptState, Fenced, Weaker, Terminal

(* Weakening twice is weakening. *)
LEMMA WeakerTransitive ==
  ASSUME NEW r, NEW s, NEW t, Weaker(r, s), Weaker(s, t)
  PROVE  Weaker(r, t)
BY DEF Weaker, Terminal

(* What a step that only revokes keeps. *)
LEMMA WeakerKeeps ==
  ASSUME IInv, att' \in [Attempts -> AttemptState], signed' = signed,
         \A a \in Attempts : Weaker(att[a], att'[a])
  PROVE  /\ \A a \in Attempts : SignedOwn(a)'
         /\ CustodyFenced'
         /\ \A a \in Attempts : /\ att'[a].st = "live" => att[a].st = "live"
                                /\ att[a].st # "unborn" => att'[a].st # "unborn"
                                /\ att'[a].mode = att[a].mode
                                /\ att'[a].gen = att[a].gen
<1> USE DEF Weaker, Terminal
<1>1. \A a \in Attempts : /\ att'[a].st = "live" => att[a].st = "live"
                          /\ att[a].st # "unborn" => att'[a].st # "unborn"
                          /\ att'[a].mode = att[a].mode
                          /\ att'[a].gen = att[a].gen
  OBVIOUS
<1>2. \A a \in Attempts : SignedOwn(a)'
  BY DEF IInv, SignedOwn
<1>3. CustodyFenced'
  BY DEF IInv, CustodyFenced, Live
<1> QED BY <1>1, <1>2, <1>3

-----------------------------------------------------------------------------
(* Processes that a step leaves alone *)

\* What every step keeps of an attempt that has begun.
BegunKept == \A a \in Attempts : att[a].st # "unborn" => /\ att'[a].st # "unborn"
                                                         /\ att'[a].mode = att[a].mode
                                                         /\ att'[a].gen = att[a].gen

(* A process that a step leaves alone keeps its own facts, if attempts that have
   begun stay begun. *)
LEMMA OthersKept ==
  ASSUME IInv, BegunKept, NEW q \in Procs, procs'[q] = procs[q], Working(q) => worker' = worker
  PROVE  WorkerOK(q)' /\ UnlockHeld(q)'
<1>1. Working(q)' <=> Working(q) BY DEF Working
<1>2. LastStep(q)' = LastStep(q) BY DEF LastStep
<1>3. WorkerOK(q) /\ UnlockHeld(q) BY DEF IInv
<1>4. WorkerOK(q)' BY <1>1, <1>2, <1>3 DEF WorkerOK, BegunKept
<1>5. UnlockHeld(q)' BY <1>1, <1>3 DEF WorkerOK, UnlockHeld, BegunKept
<1> QED BY <1>4, <1>5

(* A step that revokes and frees or parks one process, or touches none. *)
LEMMA RevokingStep ==
  ASSUME IInv, att' \in [Attempts -> AttemptState], signed' = signed, worker' = worker,
         \A a \in Attempts : Weaker(att[a], att'[a]),
         \A q \in Procs : procs'[q] = procs[q] \/ ~Working(q)',
         TypeOK', FencedOut'
  PROVE  IInv'
<1>1. BegunKept BY WeakerKeeps DEF BegunKept
<1>2. ASSUME NEW q \in Procs PROVE WorkerOK(q)' /\ UnlockHeld(q)'
  <2>1. CASE procs'[q] = procs[q] BY <2>1, <1>1, OthersKept
  <2>2. CASE ~Working(q)' BY <2>2 DEF WorkerOK, UnlockHeld
  <2> QED BY <2>1, <2>2
<1> QED BY <1>2, WeakerKeeps DEF IInv

(* revoke_cbcl_v2 weakens every record and leaves no live attempt current. *)
LEMMA RevokeWeaker ==
  ASSUME TypeOK, Revoke
  PROVE  /\ att' \in [Attempts -> AttemptState]
         /\ \A a \in Attempts : Weaker(att[a], att'[a])
         /\ slots' \in [SlotNames -> Continuation \cup {None}]
         /\ \A a \in Attempts : att'[a].st = "live" => att[a].st = "live" /\ a # current
<1> DEFINE mid(a) == IF a = current THEN Cancelled(att[a]) ELSE att[a]
<1>1. ASSUME NEW a \in Attempts
      PROVE  /\ mid(a) \in AttemptState /\ Weaker(att[a], mid(a))
             /\ mid(a).st = "live" => att[a].st = "live" /\ a # current
  <2>1. att[a] \in AttemptState BY DEF TypeOK
  <2>2. Weaker(att[a], att[a]) BY DEF Weaker
  <2> QED BY <2>1, <2>2, CancelledWeaker
<1>2. att' = [a \in Attempts |-> Dropped(mid(a), a, InSlots)] BY DEF Revoke
<1> HIDE DEF mid
<1>3. ASSUME NEW a \in Attempts
      PROVE  /\ att'[a] \in AttemptState /\ Weaker(att[a], att'[a])
             /\ att'[a].st = mid(a).st
  BY <1>1, <1>2, DroppedWeaker, WeakerTransitive
<1>4. slots' \in [SlotNames -> Continuation \cup {None}] BY DEF Revoke
<1> QED BY <1>1, <1>2, <1>3, <1>4

-----------------------------------------------------------------------------
(* Steps that only revoke *)

(* One attempt's record is weakened; the rest of the attempt table stays. *)
LEMMA OneWeakened ==
  ASSUME TypeOK, NEW a \in Attempts, NEW r \in AttemptState,
         att' = [att EXCEPT ![a] = r], Weaker(att[a], r)
  PROVE  /\ att' \in [Attempts -> AttemptState]
         /\ \A b \in Attempts : Weaker(att[b], att'[b])
         /\ \A b \in Attempts : att'[b].st = "live" => att[b].st = "live"
<1>1. att' \in [Attempts -> AttemptState] BY DEF TypeOK
<1>2. \A b \in Attempts : att'[b] = IF b = a THEN r ELSE att[b] BY DEF TypeOK
<1>3. \A b \in Attempts : Weaker(att[b], att[b]) BY DEF Weaker
<1>4. \A b \in Attempts : Weaker(att[b], att'[b]) BY <1>2, <1>3
<1>5. \A b \in Attempts : att'[b].st = "live" => att[b].st = "live"
  BY <1>4 DEF Weaker, Terminal
<1> QED BY <1>1, <1>4, <1>5

(* Cancelling, backgrounding and the start of a root change keep the invariant. *)
LEMMA EventKeeps ==
  ASSUME IInv, Cancel \/ Background \/ \E p \in Procs : RootBegin(p)
  PROVE  IInv'
<1> USE DEF IInv
<1>1. Revoke /\ signed' = signed /\ worker' = worker /\ current' = current
  BY DEF Cancel, Background, RootBegin
<1>2. \A q \in Procs : procs'[q] = procs[q] \/ ~Working(q)'
  <2>1. CASE Cancel \/ Background BY <2>1 DEF Cancel, Background
  <2>2. CASE \E p \in Procs : RootBegin(p)
    <3>1. PICK p \in Procs : procs' = [procs EXCEPT ![p].pc = "root"] BY <2>2 DEF RootBegin
    <3>2. procs[p] \in ProcState BY DEF TypeOK
    <3>3. procs'[p].pc = "root" /\ \A q \in Procs \ {p} : procs'[q] = procs[q]
      BY <3>1, <3>2 DEF TypeOK, ProcState
    <3> QED BY <3>3 DEF Working
  <2> QED BY <2>1, <2>2
<1>3. TypeOK'
  <2>1. procs' \in [Procs -> ProcState]
    BY DEF Cancel, Background, RootBegin, TypeOK, ProcState
  <2>2. /\ background' \in BOOLEAN /\ rootChange' \in BOOLEAN /\ root' = root /\ now' = now
        /\ rendered' = rendered /\ approvals' = approvals
    BY DEF Cancel, Background, RootBegin, TypeOK
  <2> QED BY <1>1, <2>1, <2>2, RevokeWeaker DEF TypeOK
<1>4. FencedOut'
  BY <1>1, RevokeWeaker DEF FencedOut, Live
<1> QED BY <1>1, <1>2, <1>3, <1>4, RevokeWeaker, RevokingStep

(* The record that a failing check leaves is weaker than the one it read. *)
LEMMA CheckWeakens ==
  ASSUME IInv, NEW a \in Attempts, Watchdog(a) \/ Refuse(a) \/ ClockFault(a)
  PROVE  \E r \in AttemptState : att' = [att EXCEPT ![a] = r] /\ Weaker(att[a], r)
<1> USE DEF IInv
<1>0. att[a] \in AttemptState BY DEF TypeOK
<1>1. CASE Watchdog(a)
  <2> DEFINE f == Fenced(att[a], Verdict(a))
             r == [f EXCEPT !.watch = FALSE]
  <2>1. f \in AttemptState /\ Weaker(att[a], f)
    <3>1. CASE Live(a) BY <3>1, <1>0, VerdictIs, FencedWeaker
    <3>2. CASE ~Live(a) BY <3>2, <1>0 DEF Fenced, Weaker, Live
    <3> QED BY <3>1, <3>2
  <2>2. f.custody = None
    <3>1. CASE att[a].custody = None BY <3>1, <1>0 DEF Fenced, AttemptState
    <3>2. CASE att[a].custody # None
      <4>1. Live(a) /\ Verdict(a) # "ok"
        BY <3>2, <1>1 DEF CustodyFenced, Watchdog, Wakes, Passes
      <4> QED BY <4>1, <1>0 DEF Fenced, Live, AttemptState
    <3> QED BY <3>1, <3>2
  <2>3. att' = [att EXCEPT ![a] = r] BY <1>1 DEF Watchdog
  <2> HIDE DEF f
  <2>4. r \in AttemptState /\ Weaker(att[a], r)
    BY <2>1, <2>2 DEF AttemptState, Weaker
  <2> QED BY <2>3, <2>4
<1>2. CASE Refuse(a)
  <2>1. Verdict(a) \in {"ok"} \cup Terminal BY <1>2, VerdictIs DEF Refuse
  <2> QED BY <1>2, <2>1, <1>0, FencedWeaker DEF Refuse
<1>3. CASE ClockFault(a)
  <2>1. "clockUnavailable" \in {"ok"} \cup Terminal BY DEF Terminal
  <2> QED BY <1>3, <2>1, <1>0, FencedWeaker DEF ClockFault
<1> QED BY <1>1, <1>2, <1>3

(* A failing check (watchdog, clock fault, refusal) keeps the invariant. *)
LEMMA CheckKeeps ==
  ASSUME IInv, NEW a \in Attempts, Watchdog(a) \/ Refuse(a) \/ ClockFault(a)
  PROVE  IInv'
<1> USE DEF IInv
<1>1. UNCHANGED <<current, worker, background, rootChange, slots, procs, root, now,
                  rendered, approvals, signed>>
  BY DEF Watchdog, Refuse, ClockFault
<1>2. PICK r \in AttemptState : att' = [att EXCEPT ![a] = r] /\ Weaker(att[a], r)
  BY CheckWeakens
<1>3. /\ att' \in [Attempts -> AttemptState]
      /\ \A b \in Attempts : Weaker(att[b], att'[b])
      /\ \A b \in Attempts : att'[b].st = "live" => att[b].st = "live"
  BY <1>2, OneWeakened
<1>4. TypeOK' BY <1>1, <1>3 DEF TypeOK
<1>5. FencedOut' BY <1>1, <1>3 DEF FencedOut, Live
<1> QED BY <1>1, <1>3, <1>4, <1>5, RevokingStep

(* Steps that leave attempts, commands and signatures alone: the clock, the
   way back to the foreground, and the store's part of a root change. *)
LEMMA OutsideKeeps ==
  ASSUME IInv, Tick \/ Foreground \/ \E p \in Procs : RootWrite(p) \/ RootEnd(p)
  PROVE  IInv'
<1> USE DEF IInv
<1>1. /\ UNCHANGED <<att, signed, worker, slots, current, rendered, approvals>>
      /\ background' => background
      /\ rootChange' => rootChange
  BY DEF Tick, Foreground, RootWrite, RootEnd
<1>2. \A q \in Procs : procs'[q] = procs[q] \/ ~Working(q)'
  <2>1. CASE Tick \/ Foreground BY <2>1 DEF Tick, Foreground
  <2>2. CASE \E p \in Procs : RootWrite(p)
    <3>1. PICK p \in Procs : procs' = [procs EXCEPT ![p].pc = "rootDone"]
      BY <2>2 DEF RootWrite
    <3>2. procs[p] \in ProcState BY DEF TypeOK
    <3>3. procs'[p].pc = "rootDone" /\ \A q \in Procs \ {p} : procs'[q] = procs[q]
      BY <3>1, <3>2 DEF TypeOK, ProcState
    <3> QED BY <3>3 DEF Working
  <2>3. CASE \E p \in Procs : RootEnd(p)
    <3>1. PICK p \in Procs : procs' = [procs EXCEPT ![p] = Idle] BY <2>3 DEF RootEnd
    <3>2. procs'[p] = Idle /\ \A q \in Procs \ {p} : procs'[q] = procs[q]
      BY <3>1 DEF TypeOK
    <3> QED BY <3>2 DEF Working, Idle
  <2> QED BY <2>1, <2>2, <2>3
<1>3. TypeOK'
  <2>1. CASE Tick BY <2>1, <1>1 DEF Tick, TypeOK
  <2>2. CASE Foreground BY <2>2, <1>1 DEF Foreground, TypeOK
  <2>3. ASSUME NEW p \in Procs, RootWrite(p) PROVE TypeOK'
    <3>1. procs' \in [Procs -> ProcState] BY <2>3 DEF RootWrite, TypeOK, ProcState
    <3> QED BY <2>3, <3>1 DEF RootWrite, TypeOK
  <2>4. ASSUME NEW p \in Procs, RootEnd(p) PROVE TypeOK'
    <3>1. procs' \in [Procs -> ProcState] BY <2>4 DEF RootEnd, TypeOK, ProcState, Idle
    <3> QED BY <2>4, <3>1 DEF RootEnd, TypeOK
  <2> QED BY <2>1, <2>2, <2>3, <2>4
<1>4. FencedOut' BY <1>1 DEF FencedOut, Live
<1>5. att' \in [Attempts -> AttemptState] /\ \A a \in Attempts : Weaker(att[a], att'[a])
  BY <1>1 DEF TypeOK, Weaker
<1> QED BY <1>1, <1>2, <1>3, <1>4, <1>5, RevokingStep

(* A command ends, or loses its operation: the attempt is cancelled. *)
LEMMA UnretainedWeaker ==
  ASSUME NEW r \in AttemptState, NEW a, NEW cont
  PROVE  Unretained(r, a, cont) \in AttemptState /\ Weaker(r, Unretained(r, a, cont))
BY CancelledWeaker, DroppedWeaker, WeakerTransitive DEF Unretained

(* An abandoned command that drops its operation keeps the invariant. *)
LEMMA DropKeeps ==
  ASSUME IInv, NEW p \in Procs, DropOperation(p)
  PROVE  IInv'
<1> USE DEF IInv
<1> DEFINE a == procs[p].att
           r == Unretained(att[a], a, procs[p].cont)
<1>1. a \in Attempts BY DEF DropOperation, WorkerOK
<1>2. r \in AttemptState /\ Weaker(att[a], r) BY <1>1, UnretainedWeaker DEF TypeOK
<1>3. att' = [att EXCEPT ![a] = r] BY DEF DropOperation
<1> HIDE DEF a, r
<1>4. /\ att' \in [Attempts -> AttemptState]
      /\ \A b \in Attempts : Weaker(att[b], att'[b])
      /\ \A b \in Attempts : att'[b].st = "live" => att[b].st = "live"
  BY <1>1, <1>2, <1>3, OneWeakened
<1>5. procs' = [procs EXCEPT ![p] = Idle] BY DEF DropOperation, Release
<1>6. \A q \in Procs : procs'[q] = procs[q] \/ ~Working(q)'
  BY <1>5 DEF TypeOK, Working, Idle
<1>7. TypeOK' BY <1>4, <1>5 DEF DropOperation, TypeOK, ProcState, Idle
<1>8. FencedOut' BY <1>4 DEF DropOperation, FencedOut, Live
<1> QED BY <1>4, <1>6, <1>7, <1>8, RevokingStep DEF DropOperation

-----------------------------------------------------------------------------
(* Steps of a working command *)

(* A step of command p alone: the attempt table keeps what the other processes
   rely on, p's own facts and the facts about attempts are given. *)
LEMMA CommandStepKeeps ==
  ASSUME IInv, NEW p \in Procs, BegunKept, worker' = worker,
         NEW r \in ProcState, procs' = [procs EXCEPT ![p] = r],
         TypeOK', WorkerOK(p)', UnlockHeld(p)',
         \A a \in Attempts : SignedOwn(a)', FencedOut', CustodyFenced'
  PROVE  IInv'
<1>1. \A q \in Procs \ {p} : procs'[q] = procs[q] BY DEF IInv, TypeOK
<1>2. \A q \in Procs \ {p} : WorkerOK(q)' /\ UnlockHeld(q)' BY <1>1, OthersKept
<1> QED BY <1>2 DEF IInv

(* p is where its table says after one more effect. *)
LEMMA AdvanceOK ==
  ASSUME IInv, NEW p \in Procs, procs[p].pc = "effect"
  PROVE  /\ Advance(p) \in ProcState
         /\ Advance(p).cmd = procs[p].cmd /\ Advance(p).att = procs[p].att
         /\ Advance(p).cont = procs[p].cont /\ Advance(p).held = procs[p].held
         /\ Advance(p).pc \in {"work", "put"} /\ Advance(p).step = procs[p].step + 1
         /\ Advance(p).pc = "work" => Advance(p).step \in 1..LastStep(p)
<1>1. procs[p] \in ProcState BY DEF IInv, TypeOK
<1>2. procs[p].cmd \in CmdNames /\ procs[p].step \in 1..LastStep(p)
  BY DEF IInv, WorkerOK, Working
<1>3. LastStep(p) \in Nat BY <1>2, CmdEffects DEF LastStep
<1>4. procs[p].step \in Nat BY <1>1 DEF ProcState
<1> DEFINE pc == IF procs[p].step = LastStep(p) THEN "put" ELSE "work"
<1>5. Advance(p) = [procs[p] EXCEPT !.step = procs[p].step + 1, !.pc = pc] BY DEF Advance
<1>6. pc \in {"work", "put"} /\ (pc = "work" => procs[p].step + 1 \in 1..LastStep(p))
  BY <1>2, <1>3, <1>4
<1> HIDE DEF pc
<1>7. Advance(p) \in ProcState
  <2>1. [procs[p] EXCEPT !.step = procs[p].step + 1] \in ProcState
    BY <1>1, <1>4 DEF ProcState
  <2>2. pc \in {"idle", "work", "effect", "put", "root", "rootDone"} BY <1>6
  <2> QED BY <1>5, <2>1, <2>2 DEF ProcState
<1>8. Advance(p).pc = pc /\ Advance(p).step = procs[p].step + 1
  BY <1>1, <1>5 DEF ProcState
<1>9. /\ Advance(p).cmd = procs[p].cmd /\ Advance(p).att = procs[p].att
      /\ Advance(p).cont = procs[p].cont /\ Advance(p).held = procs[p].held
  BY <1>1, <1>5 DEF ProcState
<1> QED BY <1>6, <1>7, <1>8, <1>9

(* p keeps its own facts if it stays with its command and its attempt. *)
LEMMA OwnStep ==
  ASSUME IInv, NEW p \in Procs, Working(p), BegunKept, worker' = worker,
         NEW r \in ProcState, procs' = [procs EXCEPT ![p] = r],
         r.cmd = procs[p].cmd, r.att = procs[p].att, r.cont \in Continuation,
         r.pc \in {"work", "effect"} => r.step \in 1..LastStep(p),
         r.cmd = "unlock" /\ r.step = 2 => r.held = att[r.att].gen
  PROVE  WorkerOK(p)' /\ UnlockHeld(p)'
<1>1. procs'[p] = r BY DEF IInv, TypeOK
<1>2. LastStep(p)' = LastStep(p) BY <1>1 DEF LastStep
<1>3. WorkerOK(p) /\ UnlockHeld(p) BY DEF IInv
<1>4. WorkerOK(p)' BY <1>1, <1>2, <1>3 DEF WorkerOK, BegunKept
<1>5. UnlockHeld(p)' BY <1>1, <1>3 DEF WorkerOK, UnlockHeld, BegunKept
<1> QED BY <1>4, <1>5

(* Steps that change neither attempts nor signatures. *)
LEMMA QuietStep ==
  ASSUME IInv, NEW p \in Procs, Working(p),
         UNCHANGED <<att, current, worker, background, rootChange, root, now, signed>>,
         slots' \in [SlotNames -> Continuation \cup {None}], rendered' \subseteq Attempts,
         approvals' \in [Attempts -> Nat],
         NEW r \in ProcState, procs' = [procs EXCEPT ![p] = r],
         WorkerOK(p)' /\ UnlockHeld(p)'
  PROVE  IInv'
<1> USE DEF IInv
<1>1. BegunKept BY DEF BegunKept
<1>2. TypeOK' BY DEF TypeOK
<1>3. (\A a \in Attempts : SignedOwn(a)') /\ FencedOut' /\ CustodyFenced'
  BY DEF SignedOwn, FencedOut, CustodyFenced, Live
<1> QED BY <1>1, <1>2, <1>3, CommandStepKeeps

(* Entering an effect under the attempt lock keeps the invariant. *)
LEMMA EnterKeeps ==
  ASSUME IInv, NEW p \in Procs, Enter(p) PROVE IInv'
<1> USE DEF IInv
<1> DEFINE r == [procs[p] EXCEPT !.pc = "effect"]
<1>1. procs[p] \in ProcState /\ Working(p) BY DEF TypeOK, Enter, Working
<1>2. WorkerOK(p) /\ UnlockHeld(p) OBVIOUS
<1>3. procs' = [procs EXCEPT ![p] = r] BY DEF Enter
<1>4. /\ r \in ProcState /\ r.cmd = procs[p].cmd /\ r.att = procs[p].att
      /\ r.cont = procs[p].cont /\ r.step = procs[p].step /\ r.held = procs[p].held
  BY <1>1 DEF ProcState
<1>5. BegunKept BY DEF BegunKept, Enter
<1> HIDE DEF r
<1>6. /\ r.cont \in Continuation
      /\ r.pc \in {"work", "effect"} => r.step \in 1..LastStep(p)
      /\ r.cmd = "unlock" /\ r.step = 2 => r.held = att[r.att].gen
  BY <1>1, <1>2, <1>4 DEF Enter, WorkerOK, UnlockHeld
<1>7. worker' = worker BY DEF Enter
<1> HIDE DEF IInv
<1>8. WorkerOK(p)' /\ UnlockHeld(p)' BY <1>1, <1>3, <1>4, <1>5, <1>6, <1>7, OwnStep
<1> USE DEF IInv
<1> QED BY <1>1, <1>3, <1>4, <1>8, QuietStep DEF Enter, TypeOK

(* A process in the middle of an effect other than "unlock" and "retain". *)
LEMMA AdvanceKeepsOwn ==
  ASSUME IInv, NEW p \in Procs, procs[p].pc = "effect", BegunKept, worker' = worker,
         Cmds[procs[p].cmd].does[procs[p].step] # "unlock",
         procs' = [procs EXCEPT ![p] = Advance(p)]
  PROVE  WorkerOK(p)' /\ UnlockHeld(p)'
<1> USE DEF IInv
<1>1. Working(p) /\ WorkerOK(p) BY DEF Working
<1>2. procs[p].cmd = "unlock" => procs[p].step # 1
  <2> SUFFICES ASSUME procs[p].cmd = "unlock", procs[p].step = 1 PROVE FALSE OBVIOUS
  <2>1. Cmds["unlock"].does[1] = "unlock" BY DEF Cmds
  <2> QED BY <2>1
<1>3. procs[p].step \in Nat BY DEF TypeOK, ProcState
<1>4. Advance(p).cmd = "unlock" => Advance(p).step # 2 BY <1>2, <1>3, AdvanceOK
<1>5. Advance(p) \in ProcState /\ Advance(p).cont \in Continuation BY <1>1, AdvanceOK DEF WorkerOK
<1>6. Advance(p).pc \in {"work", "effect"} => Advance(p).step \in 1..LastStep(p) BY AdvanceOK
<1>7. Advance(p).cmd = procs[p].cmd /\ Advance(p).att = procs[p].att BY AdvanceOK
<1> HIDE DEF IInv
<1> QED BY <1>1, <1>4, <1>5, <1>6, <1>7, OwnStep

(* A socket exchange keeps the invariant. *)
LEMMA ExchangeKeeps ==
  ASSUME IInv, NEW p \in Procs, Exchange(p) \/ Approve(p) PROVE IInv'
<1>1. /\ procs[p].pc = "effect" /\ Working(p)
      /\ Cmds[procs[p].cmd].does[procs[p].step] # "unlock"
      /\ procs' = [procs EXCEPT ![p] = Advance(p)]
      /\ UNCHANGED <<att, current, worker, background, rootChange, slots, root, now, rendered, signed>>
  BY DEF Exchange, Approve, Doing, Working
<1>2. BegunKept BY <1>1 DEF BegunKept
<1>3. approvals' \in [Attempts -> Nat]
  <2>1. CASE Exchange(p) BY <2>1 DEF Exchange, IInv, TypeOK
  <2>2. CASE Approve(p)
    <3>1. procs[p].att \in Attempts BY <1>1 DEF IInv, WorkerOK
    <3>2. approvals \in [Attempts -> Nat] BY DEF IInv, TypeOK
    <3>3. approvals' = [approvals EXCEPT ![procs[p].att] = @ + 1] BY <2>2 DEF Approve
    <3> QED BY <3>1, <3>2, <3>3
  <2> QED BY <2>1, <2>2
<1>4. WorkerOK(p)' /\ UnlockHeld(p)' BY <1>1, <1>2, AdvanceKeepsOwn
<1>5. slots' \in [SlotNames -> Continuation \cup {None}] /\ rendered' \subseteq Attempts
  BY <1>1 DEF IInv, TypeOK
<1> QED BY <1>1, <1>3, <1>4, <1>5, AdvanceOK, QuietStep

(* unlock: the deadline is bound and the held root is the attempt's. *)
LEMMA UnlockKeeps ==
  ASSUME IInv, NEW p \in Procs, Unlock(p) PROVE IInv'
<1> DEFINE a == procs[p].att
           adv == Advance(p)
           r == [adv EXCEPT !.held = root]
<1>1. /\ procs[p].pc = "effect" /\ Working(p) /\ WorkerOK(p) /\ UnlockHeld(p)
  BY DEF Unlock, Doing, Working, IInv
<1>2. a \in Attempts /\ att[a] \in AttemptState /\ Live(a)
  <2>1. a \in Attempts BY <1>1 DEF WorkerOK
  <2>2. Passes(a) BY DEF Unlock
  <2> QED BY <2>1, <2>2, PassesLive DEF IInv, TypeOK
<1>3. PICK d \in Nat \cup {None} : att' = [att EXCEPT ![a].deadline = d]
                                   /\ (d # att[a].deadline => att[a].deadline = None)
  <2>1. CASE att' = att
    <3>1. att' = [att EXCEPT ![a].deadline = att[a].deadline]
      BY <2>1, <1>2 DEF IInv, TypeOK, AttemptState
    <3> QED BY <3>1, <1>2 DEF AttemptState
  <2>2. CASE att[a].deadline = None
             /\ \E d \in (now + 1)..(now + Window) : att' = [att EXCEPT ![a].deadline = d]
    <3>1. now + 1 \in Nat /\ now + Window \in Nat BY ClockAssumption DEF IInv, TypeOK
    <3>2. \A d \in (now + 1)..(now + Window) : d \in Nat BY <3>1
    <3> QED BY <2>2, <3>2
  <2> QED BY <2>1, <2>2 DEF Unlock
<1>4. \A b \in Attempts : att'[b] = IF b = a THEN [att[a] EXCEPT !.deadline = d] ELSE att[b]
  BY <1>3, <1>2 DEF IInv, TypeOK
<1>5. att' \in [Attempts -> AttemptState]
  BY <1>2, <1>3 DEF IInv, TypeOK, AttemptState
<1>6. \A b \in Attempts : /\ att'[b].st = att[b].st /\ att'[b].mode = att[b].mode
                          /\ att'[b].gen = att[b].gen /\ att'[b].custody = att[b].custody
                          /\ att'[b].watch = att[b].watch
                          /\ att[b].deadline # None => att'[b].deadline # None
  BY <1>2, <1>3, <1>4 DEF AttemptState
<1>7. BegunKept BY <1>6 DEF BegunKept
<1>8. procs' = [procs EXCEPT ![p] = r] /\ root \in Roots \cup {None} BY DEF Unlock, IInv, TypeOK
<1>9. /\ adv \in ProcState /\ adv.cmd = procs[p].cmd /\ adv.att = procs[p].att
      /\ adv.cont = procs[p].cont /\ adv.pc \in {"work", "put"}
      /\ adv.pc = "work" => adv.step \in 1..LastStep(p)
  BY <1>1, AdvanceOK
<1> HIDE DEF adv
<1>10. /\ r \in ProcState /\ r.cmd = procs[p].cmd /\ r.att = a /\ r.held = root
       /\ r.cont = procs[p].cont /\ r.pc \in {"work", "put"}
       /\ r.pc = "work" => r.step \in 1..LastStep(p)
  BY <1>8, <1>9 DEF ProcState
<1>11. procs[p].cmd = "unlock" => root = att[a].gen
  <2> SUFFICES ASSUME procs[p].cmd = "unlock" PROVE root = att[a].gen OBVIOUS
  <2>1. att[a].mode = "single" BY <1>1 DEF UnlockHeld
  <2>2. att[a].gen # None BY <2>1, <1>2 DEF IInv, SignedOwn
  <2>3. Verdict(a) = "ok" BY DEF Unlock, Passes
  <2> QED BY <2>2, <2>3, <1>2 DEF Verdict, Live
<1>12. r.cont \in Continuation BY <1>1, <1>10 DEF WorkerOK
<1>13. worker' = worker BY DEF Unlock
<1> HIDE DEF r
<1>14. WorkerOK(p)' /\ UnlockHeld(p)'
  BY <1>1, <1>7, <1>8, <1>10, <1>11, <1>12, <1>13, OwnStep
<1>15. TypeOK' BY <1>5, <1>8, <1>10 DEF IInv, TypeOK, Unlock
<1>16. \A b \in Attempts : SignedOwn(b)' BY <1>6 DEF IInv, SignedOwn, Unlock
<1>17. FencedOut' BY <1>6 DEF IInv, FencedOut, Live, Unlock
<1>18. CustodyFenced' BY <1>6 DEF IInv, CustodyFenced, Live
<1> QED BY <1>7, <1>8, <1>10, <1>13, <1>14, <1>15, <1>16, <1>17, <1>18, CommandStepKeeps

(* retain_custody: the root stored is the one the attempt began under. *)
LEMMA RetainKeeps ==
  ASSUME IInv, NEW p \in Procs, Retain(p) PROVE IInv'
<1> DEFINE a == procs[p].att
           adv == Advance(p)
           c == [adv.cont EXCEPT !.cust = TRUE]
           r == [adv EXCEPT !.held = None, !.cont = c]
<1>1. /\ procs[p].pc = "effect" /\ Working(p) /\ WorkerOK(p) /\ UnlockHeld(p)
  BY DEF Retain, Doing, Working, IInv
<1>2. a \in Attempts /\ att[a] \in AttemptState /\ Live(a)
  <2>1. a \in Attempts BY <1>1 DEF WorkerOK
  <2>2. Passes(a) BY DEF Retain
  <2> QED BY <2>1, <2>2, PassesLive DEF IInv, TypeOK
<1>3. procs[p].cmd = "unlock" /\ procs[p].step = 2
  BY <1>1, CmdEffects DEF WorkerOK, Retain, Doing, LastStep
<1>4. procs[p].held = att[a].gen BY <1>1, <1>3 DEF UnlockHeld
<1>5. att' = [att EXCEPT ![a] = [att[a] EXCEPT !.custody = procs[p].held, !.watch = TRUE]]
  BY <1>2 DEF Retain, IInv, TypeOK
<1>6. att' \in [Attempts -> AttemptState]
  BY <1>2, <1>4, <1>5 DEF IInv, TypeOK, AttemptState
<1>7. \A b \in Attempts : /\ att'[b].st = att[b].st /\ att'[b].mode = att[b].mode
                          /\ att'[b].gen = att[b].gen /\ att'[b].deadline = att[b].deadline
                          /\ b # a => att'[b] = att[b]
  BY <1>2, <1>5 DEF IInv, TypeOK, AttemptState
<1>8. att'[a].custody = att[a].gen /\ att'[a].watch = TRUE
  BY <1>2, <1>4, <1>5 DEF IInv, TypeOK, AttemptState
<1>9. BegunKept BY <1>7 DEF BegunKept
<1>10. /\ adv \in ProcState /\ adv.cmd = procs[p].cmd /\ adv.att = procs[p].att
       /\ adv.cont = procs[p].cont /\ adv.pc \in {"work", "put"}
       /\ adv.pc = "work" => adv.step \in 1..LastStep(p)
       /\ adv.step = 3
  BY <1>1, <1>3, AdvanceOK
<1>11. c \in Continuation BY <1>1, <1>10 DEF WorkerOK, Continuation
<1>12. procs' = [procs EXCEPT ![p] = r] BY DEF Retain
<1> HIDE DEF adv, c
<1>13. /\ r \in ProcState /\ r.cmd = procs[p].cmd /\ r.att = a /\ r.step = 3
       /\ r.cont = c /\ r.pc \in {"work", "put"}
       /\ r.pc = "work" => r.step \in 1..LastStep(p)
  BY <1>10, <1>11 DEF ProcState
<1>14. UNCHANGED <<current, worker, background, rootChange, slots, root, now,
                   rendered, approvals, signed>>
  BY DEF Retain
<1> HIDE DEF r
<1>15. WorkerOK(p)' /\ UnlockHeld(p)'
  <2>1. /\ r.cont \in Continuation
        /\ r.pc \in {"work", "effect"} => r.step \in 1..LastStep(p)
        /\ r.step # 2
    BY <1>11, <1>13
  <2>2. worker' = worker /\ r \in ProcState /\ r.cmd = procs[p].cmd /\ r.att = procs[p].att
    BY <1>13, <1>14
  <2> QED BY <1>1, <1>9, <1>12, <2>1, <2>2, OwnStep
<1>16. TypeOK' BY <1>6, <1>12, <1>13, <1>14 DEF IInv, TypeOK
<1>17. \A b \in Attempts : SignedOwn(b)' BY <1>7, <1>14 DEF IInv, SignedOwn
<1>18. FencedOut' BY <1>7, <1>14 DEF IInv, FencedOut, Live
<1>19. CustodyFenced'
  <2>1. att[a].deadline # None BY DEF Retain
  <2> QED BY <1>2, <1>7, <1>8, <2>1 DEF IInv, CustodyFenced, Live
<1> QED BY <1>9, <1>12, <1>13, <1>14, <1>15, <1>16, <1>17, <1>18, <1>19, CommandStepKeeps

(* with_root: a single-link attempt signs with its custody, hence its root. *)
LEMMA SignKeeps ==
  ASSUME IInv, NEW p \in Procs, Sign(p) PROVE IInv'
<1> DEFINE a == procs[p].att
<1>1. procs[p].pc = "effect" /\ Working(p) /\ WorkerOK(p) BY DEF Sign, Doing, Working, IInv
<1>2. a \in Attempts /\ att[a] \in AttemptState /\ att[a].st # "unborn"
  BY <1>1 DEF WorkerOK, IInv, TypeOK
<1>3. UNCHANGED <<att, current, worker, background, rootChange, slots, root, now,
                  rendered, approvals>>
  BY DEF Sign
<1>4. PICK g \in Roots \cup {None} :
        /\ signed' = [signed EXCEPT ![a] = @ \cup {g}]
        /\ att[a].mode = "single" => g = att[a].custody /\ g # None
  <2>1. procs[p].held \in Roots \cup {None} BY DEF IInv, TypeOK, ProcState
  <2>2. att[a].custody \in Roots \cup {None} BY <1>2 DEF AttemptState
  <2> QED BY <2>1, <2>2 DEF Sign
<1>5. signed' \in [Attempts -> SUBSET (Roots \cup {None})]
  BY <1>2, <1>4 DEF IInv, TypeOK
<1>6. ASSUME NEW b \in Attempts PROVE SignedOwn(b)'
  <2>1. CASE b # a BY <2>1, <1>3, <1>4 DEF IInv, TypeOK, SignedOwn
  <2>2. CASE b = a
    <3>1. signed'[a] = signed[a] \cup {g} BY <1>2, <1>4 DEF IInv, TypeOK
    <3>2. att[a].mode = "single" => g = att[a].gen BY <1>2, <1>4 DEF IInv, CustodyFenced
    <3> QED BY <2>2, <1>2, <1>3, <3>1, <3>2 DEF IInv, SignedOwn
  <2> QED BY <2>1, <2>2
<1>7. BegunKept BY <1>3 DEF BegunKept
<1>8. /\ procs' = [procs EXCEPT ![p] = Advance(p)]
      /\ Cmds[procs[p].cmd].does[procs[p].step] # "unlock"
  BY DEF Sign, Doing
<1>9. WorkerOK(p)' /\ UnlockHeld(p)' BY <1>1, <1>3, <1>7, <1>8, AdvanceKeepsOwn
<1>10. Advance(p) \in ProcState BY <1>1, AdvanceOK
<1>11. TypeOK' BY <1>3, <1>5, <1>8, <1>10 DEF IInv, TypeOK
<1>12. FencedOut' /\ CustodyFenced' BY <1>3 DEF IInv, FencedOut, CustodyFenced, Live
<1> QED BY <1>3, <1>6, <1>7, <1>8, <1>9, <1>10, <1>11, <1>12, CommandStepKeeps

(* finish_pending and an abandoned future: one revocation, one flag of p. *)
LEMMA FinishRefusedKeeps ==
  ASSUME IInv, NEW p \in Procs, FinishRefused(p) \/ Abandon(p) PROVE IInv'
<1> DEFINE a == procs[p].att
<1>1. Working(p) /\ WorkerOK(p) /\ UnlockHeld(p) /\ procs[p] \in ProcState
  BY DEF FinishRefused, Abandon, Working, IInv, TypeOK
<1>2. a \in Attempts /\ att[a] \in AttemptState BY <1>1 DEF WorkerOK, IInv, TypeOK
<1>3. UNCHANGED <<current, worker, background, rootChange, slots, root, now,
                  rendered, approvals, signed>>
  BY DEF FinishRefused, Abandon
<1>4. PICK w \in AttemptState : att' = [att EXCEPT ![a] = w] /\ Weaker(att[a], w)
  <2>1. CASE FinishRefused(p) BY <2>1, <1>2, DroppedWeaker DEF FinishRefused
  <2>2. CASE Abandon(p) BY <2>2, <1>2, CancelledWeaker DEF Abandon
  <2> QED BY <2>1, <2>2
<1>5. TypeOK BY DEF IInv
<1>6. /\ att' \in [Attempts -> AttemptState]
      /\ \A b \in Attempts : Weaker(att[b], att'[b])
      /\ \A b \in Attempts : att'[b].st = "live" => att[b].st = "live"
  BY <1>2, <1>4, <1>5, OneWeakened
<1>7. BegunKept /\ (\A b \in Attempts : SignedOwn(b)') /\ CustodyFenced'
  BY <1>3, <1>6, WeakerKeeps DEF BegunKept
<1>8. PICK r \in ProcState : /\ procs' = [procs EXCEPT ![p] = r]
                             /\ r.cmd = procs[p].cmd /\ r.att = procs[p].att
                             /\ r.cont \in Continuation
                             /\ r.step = procs[p].step /\ r.held = procs[p].held
                             /\ r.pc = "put" \/ r.pc = procs[p].pc
  <2>1. CASE FinishRefused(p)
    <3> DEFINE c == [procs[p].cont EXCEPT !.cust = FALSE]
               r == [procs[p] EXCEPT !.pc = "put", !.cont = c]
    <3>1. c \in Continuation BY <1>1 DEF WorkerOK, Continuation
    <3>2. procs' = [procs EXCEPT ![p] = r] BY <2>1 DEF FinishRefused, IInv, TypeOK
    <3> HIDE DEF c
    <3>3. [procs[p] EXCEPT !.pc = "put"] \in ProcState BY <1>1 DEF ProcState
    <3>4. r \in ProcState BY <3>1, <3>3 DEF ProcState
    <3>5. /\ r.cmd = procs[p].cmd /\ r.att = procs[p].att /\ r.cont = c
          /\ r.step = procs[p].step /\ r.held = procs[p].held /\ r.pc = "put"
      BY <1>1 DEF ProcState
    <3> QED BY <3>1, <3>2, <3>4, <3>5
  <2>2. CASE Abandon(p)
    <3> DEFINE r == [procs[p] EXCEPT !.op = FALSE]
    <3>1. procs' = [procs EXCEPT ![p] = r] BY <2>2 DEF Abandon, IInv, TypeOK
    <3>2. r \in ProcState BY <1>1 DEF ProcState
    <3>3. /\ r.cmd = procs[p].cmd /\ r.att = procs[p].att /\ r.cont = procs[p].cont
          /\ r.step = procs[p].step /\ r.held = procs[p].held /\ r.pc = procs[p].pc
      BY <1>1 DEF ProcState
    <3>4. procs[p].cont \in Continuation BY <1>1 DEF WorkerOK
    <3> QED BY <3>1, <3>2, <3>3, <3>4
  <2> QED BY <2>1, <2>2
<1>9. /\ r.pc \in {"work", "effect"} => r.step \in 1..LastStep(p)
      /\ r.cmd = "unlock" /\ r.step = 2 => r.held = att[r.att].gen
  BY <1>1, <1>8 DEF WorkerOK, UnlockHeld
<1>10. WorkerOK(p)' /\ UnlockHeld(p)' BY <1>1, <1>3, <1>7, <1>8, <1>9, OwnStep
<1>11. TypeOK' BY <1>3, <1>6, <1>8 DEF IInv, TypeOK
<1>12. FencedOut' BY <1>3, <1>6 DEF IInv, FencedOut, Live
<1> QED BY <1>3, <1>7, <1>8, <1>10, <1>11, <1>12, CommandStepKeeps

(* Putting the continuation back in the Session keeps the invariant. *)
LEMMA PutKeeps ==
  ASSUME IInv, NEW p \in Procs, Put(p) PROVE IInv'
<1> DEFINE to == IF Ready(p) THEN Cmds[procs[p].cmd].to ELSE "payloadSent"
<1>1. Working(p) /\ WorkerOK(p) BY DEF Put, Working, IInv
<1>2. to \in Phases /\ SlotOf(to) \in SlotNames
  <2>1. Cmds[procs[p].cmd].to \in Phases \cup {"end"} BY <1>1, CmdPhases DEF WorkerOK
  <2>2. to \in Phases BY <2>1 DEF Put, Phases
  <2> QED BY <2>2 DEF SlotOf, SlotNames
<1>3. [procs[p].cont EXCEPT !.phase = to] \in Continuation
  BY <1>1, <1>2 DEF WorkerOK, Continuation
<1>4. slots' = [slots EXCEPT ![SlotOf(to)] = [procs[p].cont EXCEPT !.phase = to]]
  BY DEF Put
<1> HIDE DEF to
<1>5. slots' \in [SlotNames -> Continuation \cup {None}] BY <1>2, <1>3, <1>4 DEF IInv, TypeOK
<1>6. procs' = [procs EXCEPT ![p] = Idle] /\ Idle \in ProcState
  BY DEF Put, Release, Idle, ProcState
<1>7. procs'[p] = Idle BY <1>6 DEF IInv, TypeOK
<1>8. WorkerOK(p)' /\ UnlockHeld(p)' BY <1>7 DEF WorkerOK, UnlockHeld, Working, Idle
<1>9. rendered' \subseteq Attempts BY <1>1 DEF Put, WorkerOK, IInv, TypeOK
<1>10. approvals' \in [Attempts -> Nat]
       /\ UNCHANGED <<att, current, worker, background, rootChange, root, now, signed>>
  BY DEF Put, IInv, TypeOK
<1> QED BY <1>1, <1>5, <1>6, <1>8, <1>9, <1>10, QuietStep

-----------------------------------------------------------------------------
(* Steps that start a command or an attempt *)

(* While no lease is live, no process is working. *)
LEMMA NobodyWorks ==
  ASSUME IInv, ~LeaseLive PROVE \A q \in Procs : ~Working(q)
BY NoneAssumption DEF IInv, WorkerOK, LeaseLive

(* A command starts while nobody works. *)
LEMMA StartKeeps ==
  ASSUME IInv, NEW p \in Procs, ~LeaseLive, worker' = p, BegunKept,
         NEW r \in ProcState, procs' = [procs EXCEPT ![p] = r],
         r.cmd \in CmdNames, r.att \in Attempts, r.cont \in Continuation, r.step = 1,
         r.pc = "work" => Cmds[r.cmd].does # <<>>, r.pc \in {"work", "put"},
         att'[r.att].st # "unborn", r.cmd = "unlock" => att'[r.att].mode = "single",
         TypeOK', \A a \in Attempts : SignedOwn(a)', FencedOut', CustodyFenced'
  PROVE  IInv'
<1>1. procs'[p] = r /\ \A q \in Procs \ {p} : procs'[q] = procs[q] BY DEF IInv, TypeOK
<1>2. \A q \in Procs \ {p} : ~Working(q)' BY <1>1, NobodyWorks DEF Working
<1>3. \A q \in Procs \ {p} : WorkerOK(q)' /\ UnlockHeld(q)' BY <1>2 DEF WorkerOK, UnlockHeld
<1>4. r.pc = "work" => r.step \in 1..(LastStep(p)') BY <1>1, CmdEffects DEF LastStep
<1>5. WorkerOK(p)' BY <1>1, <1>4 DEF WorkerOK
<1>6. UnlockHeld(p)' BY <1>1 DEF UnlockHeld
<1> QED BY <1>3, <1>5, <1>6 DEF IInv

(* Taking a continuation out of the Session keeps the invariant. *)
LEMMA TakeKeeps ==
  ASSUME IInv, NEW p \in Procs, NEW c \in CmdNames, Take(p, c) PROVE IInv'
<1> DEFINE s == SlotOf(Cmds[c].from)
           pc == IF Cmds[c].does = <<>> THEN "put" ELSE "work"
           r == [pc |-> pc, cmd |-> c, att |-> current, cont |-> slots[s],
                 step |-> 1, op |-> TRUE, held |-> None]
<1>1. s \in SlotNames BY DEF SlotOf, SlotNames
<1>2. slots[s] \in Continuation BY <1>1 DEF Take, InPhase, IInv, TypeOK
<1>3. current \in Attempts /\ Live(current)
  <2>1. current \in Attempts BY DEF Take, IInv, TypeOK
  <2> QED BY <2>1, PassesLive DEF Take, IInv
<1>4. /\ UNCHANGED <<att, current, background, rootChange, root, now,
                     rendered, approvals, signed>>
      /\ worker' = p /\ ~LeaseLive /\ att[current].mode = Cmds[c].mode
      /\ procs' = [procs EXCEPT ![p] = r]
      /\ slots' = [slots EXCEPT ![s] = None]
  BY DEF Take
<1> HIDE DEF s
<1>5. pc \in {"work", "put"} /\ (pc = "work" => Cmds[c].does # <<>>) OBVIOUS
<1> HIDE DEF pc
<1>6. r \in ProcState BY <1>2, <1>3, <1>5 DEF ProcState
<1>7. c = "unlock" => att[current].mode = "single"
  <2>1. Cmds["unlock"].mode = "single" BY DEF Cmds
  <2> QED BY <2>1, <1>4
<1>8. BegunKept BY <1>4 DEF BegunKept
<1>9. slots' \in [SlotNames -> Continuation \cup {None}] BY <1>1, <1>4 DEF IInv, TypeOK
<1>10. TypeOK' BY <1>4, <1>6, <1>9 DEF IInv, TypeOK
<1>11. (\A a \in Attempts : SignedOwn(a)') /\ FencedOut' /\ CustodyFenced'
  BY <1>4 DEF IInv, SignedOwn, FencedOut, CustodyFenced, Live
<1>12. /\ r.cmd = c /\ r.att = current /\ r.cont \in Continuation /\ r.step = 1 /\ r.pc = pc
       /\ att'[current].st # "unborn" /\ att'[current].mode = att[current].mode
  BY <1>2, <1>3, <1>4 DEF Live
<1> HIDE DEF r
<1> QED BY <1>3, <1>4, <1>5, <1>6, <1>7, <1>8, <1>10, <1>11, <1>12, StartKeeps

(* begin: no attempt is live, and the new one is born in the foreground with
   nothing signed and no custody. *)
LEMMA BeginKeeps ==
  ASSUME IInv, MayBegin, NEW a \in Attempts, att[a].st = "unborn", current' = a,
         att' \in [Attempts -> AttemptState],
         \A b \in Attempts \ {a} : Weaker(att[b], att'[b]),
         att'[a].custody = None, att'[a].st # "unborn",
         att'[a].mode = "single" => att'[a].gen # None,
         UNCHANGED <<background, rootChange, signed>>
  PROVE  BegunKept /\ (\A b \in Attempts : SignedOwn(b)') /\ FencedOut' /\ CustodyFenced'
<1>1. \A b \in Attempts : ~Live(b) BY NoneAssumption DEF IInv, FencedOut, MayBegin
<1>2. BegunKept BY DEF BegunKept, Weaker, Terminal
<1>3. ASSUME NEW b \in Attempts PROVE SignedOwn(b)'
  <2>1. CASE b = a BY <2>1 DEF IInv, SignedOwn
  <2>2. CASE b # a BY <2>2 DEF IInv, SignedOwn, Weaker, Terminal
  <2> QED BY <2>1, <2>2
<1>4. FencedOut'
  <2>1. \A b \in Attempts \ {a} : att'[b].st # "live" BY <1>1 DEF Weaker, Live, Terminal
  <2> QED BY <2>1 DEF FencedOut, Live, MayBegin
<1>5. CustodyFenced'
  <2>1. \A b \in Attempts \ {a} : att'[b].custody = None
    BY <1>1 DEF Weaker, IInv, CustodyFenced
  <2> QED BY <2>1 DEF CustodyFenced
<1> QED BY <1>2, <1>3, <1>4, <1>5

(* Recognising a legacy code keeps the invariant. *)
LEMMA RecogniseKeeps ==
  ASSUME IInv, NEW p \in Procs, Recognise(p) PROVE IInv'
<1> DEFINE ss == {slots["relay"], slots["pending"]}
<1>1. PICK a \in Attempts :
        /\ att[a].st = "unborn"
        /\ current' = a
        /\ att' = [b \in Attempts |-> Dropped(IF b = a THEN [att[b] EXCEPT !.st = "live"]
                                                       ELSE att[b], b, ss)]
        /\ slots' = [slots EXCEPT !["relay"] = None, !["pending"] = None]
        /\ procs' = [procs EXCEPT ![p] =
                       [pc |-> "work", cmd |-> "recognise", att |-> a,
                        cont |-> [att |-> a, phase |-> "relay", cust |-> FALSE],
                        step |-> 1, op |-> TRUE, held |-> None]]
        /\ worker' = p
  BY DEF Recognise
<1>2. UNCHANGED <<background, rootChange, root, now, rendered, approvals, signed>> /\ MayBegin
  BY DEF Recognise
<1> DEFINE new == [att[a] EXCEPT !.st = "live"]
           r == [pc |-> "work", cmd |-> "recognise", att |-> a,
                 cont |-> [att |-> a, phase |-> "relay", cust |-> FALSE],
                 step |-> 1, op |-> TRUE, held |-> None]
<1>3. /\ att[a].mode = "legacy" /\ att[a].custody = None /\ att[a] \in AttemptState
  BY <1>1 DEF IInv, SignedOwn, CustodyFenced, Live, TypeOK
<1>4. new \in AttemptState /\ new.mode = "legacy" /\ new.custody = None /\ new.st = "live"
  BY <1>3 DEF AttemptState
<1>5. /\ \A b \in Attempts : att'[b] = Dropped(IF b = a THEN new ELSE att[b], b, ss)
      /\ att' = [b \in Attempts |-> att'[b]]
  BY <1>1
<1> HIDE DEF new, ss
<1>6. /\ att'[a] \in AttemptState /\ att'[a].st = "live"
      /\ att'[a].custody = None /\ att'[a].mode = "legacy"
  <2>1. att'[a] = Dropped(new, a, ss) BY <1>5
  <2>2. Dropped(new, a, ss) \in AttemptState /\ Weaker(new, Dropped(new, a, ss))
        /\ Dropped(new, a, ss).st = new.st BY <1>4, DroppedWeaker
  <2> QED BY <2>1, <2>2, <1>4 DEF Weaker
<1>7. \A b \in Attempts \ {a} : att'[b] \in AttemptState /\ Weaker(att[b], att'[b])
  BY <1>5, DroppedWeaker DEF IInv, TypeOK
<1>8. att' \in [Attempts -> AttemptState] BY <1>5, <1>6, <1>7
<1>9. BegunKept /\ (\A b \in Attempts : SignedOwn(b)') /\ FencedOut' /\ CustodyFenced'
  BY <1>1, <1>2, <1>6, <1>7, <1>8, BeginKeeps
<1>10. [att |-> a, phase |-> "relay", cust |-> FALSE] \in Continuation
  BY DEF Continuation, Phases
<1>11. "recognise" \in CmdNames /\ Cmds["recognise"].does # <<>>
  <2>1. Cmds["recognise"].does = <<"net">> BY DEF Cmds
  <2> QED BY <2>1, CmdNamesAre
<1>12. r \in ProcState /\ procs' = [procs EXCEPT ![p] = r] BY <1>1, <1>10, <1>11 DEF ProcState
<1>13. r.cmd = "recognise" /\ r.att = a /\ r.cont \in Continuation /\ r.step = 1 /\ r.pc = "work"
  BY <1>10
<1>14. slots' \in [SlotNames -> Continuation \cup {None}]
  <2>1. slots \in [SlotNames -> Continuation \cup {None}] BY DEF IInv, TypeOK
  <2> QED BY <1>1, <2>1
<1> HIDE DEF r
<1>15. TypeOK'
  <2>1. procs' \in [Procs -> ProcState] BY <1>12 DEF IInv, TypeOK
  <2>2. current' \in Attempts /\ worker' \in Procs BY <1>1
  <2> QED BY <1>2, <1>8, <1>14, <2>1, <2>2 DEF IInv, TypeOK
<1>16. ~LeaseLive BY <1>2 DEF MayBegin
<1>17. r.pc \in {"work", "put"} /\ Cmds[r.cmd].does # <<>> /\ r.cmd \in CmdNames
       /\ r.cmd # "unlock" /\ att'[r.att].st # "unborn"
  BY <1>6, <1>11, <1>13
<1> QED BY <1>1, <1>9, <1>12, <1>13, <1>15, <1>16, <1>17, StartKeeps

(* Reserving a new attempt keeps the invariant. *)
LEMMA ReserveKeeps ==
  ASSUME IInv, Reserve PROVE IInv'
<1>1. PICK a \in Attempts :
        /\ att[a].st = "unborn"
        /\ current' = a
        /\ LET new == [att[a] EXCEPT !.st = "live", !.mode = "single", !.gen = root] IN
           \/ /\ att' = [b \in Attempts |-> Dropped(IF b = a THEN new ELSE att[b], b, InSlots)]
              /\ slots' = Reserved(a)
           \/ /\ att' = [att EXCEPT ![a] = Cancelled(new)]
              /\ UNCHANGED slots
  BY DEF Reserve
<1> DEFINE new == [att[a] EXCEPT !.st = "live", !.mode = "single", !.gen = root]
<1>2. /\ UNCHANGED <<worker, background, rootChange, procs, root, now, rendered, approvals, signed>>
      /\ MayBegin /\ root # None
  BY DEF Reserve
<1>3. att[a].custody = None /\ att[a] \in AttemptState /\ root \in Roots
  BY <1>1, <1>2 DEF IInv, CustodyFenced, Live, TypeOK
<1>4. /\ new \in AttemptState /\ new.gen = root /\ new.custody = None /\ new.st = "live"
  BY <1>3 DEF AttemptState, Modes
<1>5. \/ /\ att' = [b \in Attempts |-> Dropped(IF b = a THEN new ELSE att[b], b, InSlots)]
         /\ slots' = Reserved(a)
      \/ /\ att' = [att EXCEPT ![a] = Cancelled(new)]
         /\ UNCHANGED slots
  BY <1>1
<1> HIDE DEF new
<1>6. /\ att' \in [Attempts -> AttemptState]
      /\ \A b \in Attempts \ {a} : Weaker(att[b], att'[b])
      /\ att'[a].custody = None /\ att'[a].st # "unborn" /\ att'[a].gen # None
  <2>1. CASE att' = [b \in Attempts |-> Dropped(IF b = a THEN new ELSE att[b], b, InSlots)]
    <3>1. \A b \in Attempts \ {a} : att'[b] \in AttemptState /\ Weaker(att[b], att'[b])
      BY <2>1, DroppedWeaker DEF IInv, TypeOK
    <3>2. att'[a] = Dropped(new, a, InSlots) BY <2>1
    <3>3. /\ Dropped(new, a, InSlots) \in AttemptState /\ Dropped(new, a, InSlots).st = new.st
          /\ Weaker(new, Dropped(new, a, InSlots))
      BY <1>4, DroppedWeaker
    <3>4. att'[a] \in AttemptState /\ att'[a].custody = None /\ att'[a].st = "live"
          /\ att'[a].gen = root
      BY <1>4, <3>2, <3>3 DEF Weaker
    <3> QED BY <1>2, <2>1, <3>1, <3>4
  <2>2. CASE att' = [att EXCEPT ![a] = Cancelled(new)]
    <3>1. /\ Cancelled(new) \in AttemptState /\ Cancelled(new).st = "cancelled"
          /\ Weaker(new, Cancelled(new))
      BY <1>4, CancelledWeaker DEF Cancelled, AttemptState
    <3>2. att'[a] = Cancelled(new) /\ \A b \in Attempts \ {a} : att'[b] = att[b]
      BY <2>2 DEF IInv, TypeOK
    <3>3. \A b \in Attempts \ {a} : Weaker(att[b], att'[b]) BY <3>2 DEF Weaker
    <3>4. att' \in [Attempts -> AttemptState] BY <2>2, <3>1 DEF IInv, TypeOK
    <3> QED BY <1>2, <1>4, <3>1, <3>2, <3>3, <3>4 DEF Weaker
  <2> QED BY <1>5, <2>1, <2>2
<1>7. BegunKept /\ (\A b \in Attempts : SignedOwn(b)') /\ FencedOut' /\ CustodyFenced'
  BY <1>1, <1>2, <1>6, BeginKeeps
<1>8. slots' \in [SlotNames -> Continuation \cup {None}]
  <2>1. Reservation(a) \in Continuation BY DEF Reservation, Continuation, Phases
  <2>2. CASE slots' = Reserved(a) BY <2>1, <2>2 DEF Reserved
  <2>3. CASE UNCHANGED slots BY <2>3 DEF IInv, TypeOK
  <2> QED BY <1>5, <2>2, <2>3
<1>9. TypeOK' BY <1>1, <1>2, <1>6, <1>8 DEF IInv, TypeOK
<1>10. \A q \in Procs : WorkerOK(q)' /\ UnlockHeld(q)' BY <1>2, <1>7, OthersKept
<1> QED BY <1>7, <1>9, <1>10 DEF IInv

-----------------------------------------------------------------------------
(* The theorems *)

(* The inductive invariant holds initially. *)
LEMMA InitIInv == Init => IInv
<1> SUFFICES ASSUME Init PROVE IInv OBVIOUS
<1>1. TypeOK
  <2>1. att \in [Attempts -> AttemptState] BY DEF Init, AttemptState, Modes
  <2>2. procs \in [Procs -> ProcState] BY DEF Init, Idle, ProcState
  <2> QED BY <2>1, <2>2 DEF Init, TypeOK
<1>2. \A p \in Procs : ~Working(p) BY DEF Init, Working, Idle
<1>3. \A p \in Procs : WorkerOK(p) /\ UnlockHeld(p) BY <1>2 DEF WorkerOK, UnlockHeld
<1>4. \A a \in Attempts : SignedOwn(a) BY DEF Init, SignedOwn
<1>5. FencedOut /\ CustodyFenced BY DEF Init, FencedOut, CustodyFenced, Live
<1> QED BY <1>1, <1>3, <1>4, <1>5 DEF IInv

(* Every step keeps the inductive invariant. *)
LEMMA NextIInv == IInv /\ [Next]_vars => IInv'
<1> SUFFICES ASSUME IInv, [Next]_vars PROVE IInv' OBVIOUS
<1>1. CASE Reserve BY <1>1, ReserveKeeps
<1>2. ASSUME NEW p \in Procs,
             \/ Contact(p) \/ UnlockPreview(p) \/ PreviewRendered(p)
             \/ Link(p) \/ ContinueLink(p) \/ FinishLink(p)
             \/ RelayDecide(p) \/ PreliminaryDecide(p) \/ Compare(p)
             \/ FinalDecide(p) \/ FinishLegacy(p)
      PROVE  IInv'
  <2>1. \E c \in CmdNames : Take(p, c)
    BY <1>2, CmdNamesAre
       DEF Contact, UnlockPreview, PreviewRendered, Link, ContinueLink, FinishLink,
           RelayDecide, PreliminaryDecide, Compare, FinalDecide, FinishLegacy
  <2> QED BY <2>1, TakeKeeps
<1>3. ASSUME NEW p \in Procs, CommandStep(p) PROVE IInv'
  BY <1>3, EnterKeeps, ExchangeKeeps, UnlockKeeps, RetainKeeps, SignKeeps,
     FinishRefusedKeeps, PutKeeps, DropKeeps DEF CommandStep
<1>4. ASSUME NEW p \in Procs, Abandon(p) PROVE IInv' BY <1>4, FinishRefusedKeeps
<1>5. ASSUME NEW p \in Procs, Recognise(p) PROVE IInv' BY <1>5, RecogniseKeeps
<1>6. ASSUME NEW p \in Procs, RootBegin(p) \/ RootWrite(p) \/ RootEnd(p) PROVE IInv'
  BY <1>6, EventKeeps, OutsideKeeps
<1>7. ASSUME NEW a \in Attempts, Watchdog(a) \/ Refuse(a) \/ ClockFault(a) PROVE IInv'
  BY <1>7, CheckKeeps
<1>8. CASE Cancel \/ Background BY <1>8, EventKeeps
<1>9. CASE Foreground \/ Tick BY <1>9, OutsideKeeps
<1>10. CASE UNCHANGED vars
  <2>1. /\ BegunKept /\ UNCHANGED <<att, current, worker, background, rootChange, slots, procs,
                                    root, now, rendered, approvals, signed>>
    BY <1>10 DEF vars, BegunKept
  <2>2. \A q \in Procs : WorkerOK(q)' /\ UnlockHeld(q)' BY <2>1, OthersKept
  <2>3. TypeOK' /\ (\A a \in Attempts : SignedOwn(a)') /\ FencedOut' /\ CustodyFenced'
    BY <2>1 DEF IInv, TypeOK, SignedOwn, FencedOut, CustodyFenced, Live
  <2> QED BY <2>2, <2>3 DEF IInv
<1> QED
  BY <1>1, <1>2, <1>3, <1>4, <1>5, <1>6, <1>7, <1>8, <1>9, <1>10 DEF Next

(* The inductive invariant holds in every reachable state, whatever the number
   of attempts, concurrent commands and roots. *)
THEOREM Invariance == Spec => []IInv
BY InitIInv, NextIInv, PTL DEF Spec

(* Type correctness of the attempt fence. *)
THEOREM TypeCorrect == Spec => []TypeOK
<1>1. IInv => TypeOK BY DEF IInv
<1> QED BY <1>1, Invariance, PTL

(* start_work and begin never let two commands work at once, cancelled
   attempts and dropped futures included. *)
THEOREM LeaseExcludes == Spec => []OneWorker
<1>1. IInv => OneWorker BY DEF IInv, WorkerOK, OneWorker
<1> QED BY <1>1, Invariance, PTL

(* No attempt but the current one is live, and none while the application is
   hidden or a root is being replaced. *)
THEOREM NothingLiveOutside == Spec => []FencedOut
<1>1. IInv => FencedOut BY DEF IInv
<1> QED BY <1>1, Invariance, PTL

(* Retained root material belongs to a live, deadlined, watched attempt, and is
   the root that attempt began under. *)
THEOREM CustodyIsFenced == Spec => []CustodyFenced
<1>1. IInv => CustodyFenced BY DEF IInv
<1> QED BY <1>1, Invariance, PTL

-----------------------------------------------------------------------------
(* Only Sign changes what is signed. *)
LEMMA OnlySignSigns ==
  ASSUME Next, ~\E p \in Procs : Sign(p) PROVE signed' = signed
<1>1. CASE Reserve \/ Cancel \/ Background \/ Foreground \/ Tick
  BY <1>1 DEF Reserve, Cancel, Background, Foreground, Tick
<1>2. ASSUME NEW a \in Attempts, Watchdog(a) \/ Refuse(a) \/ ClockFault(a) PROVE signed' = signed
  BY <1>2 DEF Watchdog, Refuse, ClockFault
<1>3. ASSUME NEW p \in Procs,
             Recognise(p) \/ Abandon(p) \/ RootBegin(p) \/ RootWrite(p) \/ RootEnd(p)
      PROVE  signed' = signed
  BY <1>3 DEF Recognise, Abandon, RootBegin, RootWrite, RootEnd
<1>4. ASSUME NEW p \in Procs, NEW c, Take(p, c) PROVE signed' = signed BY <1>4 DEF Take
<1>5. ASSUME NEW p \in Procs, CommandStep(p) PROVE signed' = signed
  BY <1>5 DEF CommandStep, Enter, Exchange, Approve, Unlock, Retain, FinishRefused, Put,
              DropOperation
<1> QED
  BY <1>1, <1>2, <1>3, <1>4, <1>5
     DEF Next, Contact, UnlockPreview, PreviewRendered, Link, ContinueLink, FinishLink,
         RelayDecide, PreliminaryDecide, Compare, FinalDecide, FinishLegacy

(* A signature of a single-link attempt is by the root it began under, which is
   still stored, within its deadline, in the foreground, outside root changes. *)
LEMMA SignInside ==
  ASSUME IInv, NEW p \in Procs, Sign(p), NEW a \in Attempts,
         att[a].mode = "single", signed'[a] # signed[a]
  PROVE  /\ signed'[a] \subseteq {root} /\ root = att[a].gen
         /\ now < att[a].deadline /\ ~background /\ ~rootChange
<1>1. procs[p].pc = "effect" /\ WorkerOK(p) /\ Working(p) BY DEF Sign, Doing, Working, IInv
<1>2. procs[p].att \in Attempts BY <1>1 DEF WorkerOK
<1>3. a = procs[p].att
  <2>1. CASE att[procs[p].att].mode = "single" BY <2>1, <1>2 DEF Sign, IInv, TypeOK
  <2>2. CASE att[procs[p].att].mode = "legacy" BY <2>2, <1>2 DEF Sign, IInv, TypeOK
  <2> QED BY <2>1, <2>2 DEF Sign
<1>4. Passes(a) /\ att[a].custody # None /\ signed'[a] = signed[a] \cup {att[a].custody}
  BY <1>3, <1>2 DEF Sign, IInv, TypeOK
<1>5. Live(a) /\ att[a].deadline # None /\ att[a].custody = att[a].gen
  BY <1>4 DEF IInv, CustodyFenced
<1>6. ~background /\ ~rootChange BY <1>5 DEF IInv, FencedOut
<1>7. att[a].gen # None /\ signed[a] \subseteq {att[a].gen} BY DEF IInv, SignedOwn
<1>8. Verdict(a) = "ok" BY <1>4 DEF Passes
<1>9. root = att[a].gen BY <1>5, <1>7, <1>8 DEF Verdict, Live
<1>10. ~(now >= att[a].deadline) BY <1>5, <1>7, <1>8, <1>9 DEF Verdict, Live
<1>11. now \in Nat /\ att[a].deadline \in Nat BY <1>5 DEF IInv, TypeOK, AttemptState
<1>12. now < att[a].deadline BY <1>10, <1>11
<1> QED BY <1>4, <1>5, <1>6, <1>7, <1>9, <1>12

(* A bounded custody signs only with the stored root the attempt began under,
   before its deadline, in the foreground and outside any root change. *)
THEOREM SigningIsFenced == Spec => SignsInsideFence
<1> DEFINE A == \A a \in Attempts : att[a].mode = "single" /\ signed'[a] # signed[a] =>
                  /\ signed'[a] \subseteq {root} /\ root = att[a].gen
                  /\ now < att[a].deadline /\ ~background /\ ~rootChange
<1>1. IInv /\ [Next]_vars => [A]_vars
  <2> SUFFICES ASSUME IInv, Next PROVE A OBVIOUS
  <2>1. CASE \E p \in Procs : Sign(p) BY <2>1, SignInside
  <2>2. CASE ~\E p \in Procs : Sign(p) BY <2>2, OnlySignSigns
  <2> QED BY <2>1, <2>2
<1> QED BY <1>1, Invariance, PTL DEF Spec, SignsInsideFence

-----------------------------------------------------------------------------
(* Who holds a continuation, and how often the intent approval is sent *)

\* Slot s, command p holds attempt a's continuation.
InSlot(s, a) == slots[s] # None /\ slots[s].att = a
ByProc(p, a) == Working(p) /\ procs[p].att = a
HeldInSlot(a) == \E s \in SlotNames : /\ InSlot(s, a)
                                      /\ \A t \in SlotNames : InSlot(t, a) => t = s
                                      /\ \A p \in Procs : ~ByProc(p, a)
HeldByCommand(a) == /\ \E p \in Procs : ByProc(p, a)
                    /\ \A s \in SlotNames : ~InSlot(s, a)

\* What a command can take for the live current attempt is that attempt's: every
\* slot for a single-link one, whose reservation emptied the others, and the two
\* slots that a legacy one emptied.
OwnSlot(s) ==
  /\ slots[s] # None /\ current # None /\ Live(current)
  /\ att[current].mode = "single" \/ s \in {"relay", "pending"}
  => slots[s].att = current

HInv == /\ OwnContinuation
        /\ \A s \in SlotNames : slots[s] # None => att[slots[s].att].st # "unborn"
        /\ \A s \in SlotNames : OwnSlot(s)
        /\ \A a \in Attempts : Live(a) => HeldInSlot(a) \/ HeldByCommand(a)

\* The phases and the commands that come before the intent approval is sent.
EarlyPhases == {"entry", "relay", "intent", "previewUnpainted", "reviewReady"}
EarlyCmds == {"contact", "unlock", "painted", "recognise", "relayDecide"}
ApprovingCmds == {"link", "preliminary"}
NotYet(p) == \/ procs[p].cmd \in EarlyCmds
             \/ procs[p].cmd \in ApprovingCmds /\ procs[p].pc \in {"work", "effect"}

\* Nothing has been approved for a continuation in an early phase, and one that
\* is ready for the person's answer has had its preview painted.
SlotConsent(s) == slots[s] # None =>
  /\ Live(slots[s].att) /\ slots[s].phase \in EarlyPhases => approvals[slots[s].att] = 0
  /\ slots[s].phase = "reviewReady" => slots[s].att \in rendered
WorkConsent(p) == Working(p) =>
  /\ Cmds[procs[p].cmd].mode = att[procs[p].att].mode
  /\ NotYet(p) => approvals[procs[p].att] = 0
  /\ procs[p].cmd = "link" => procs[p].att \in rendered

CInv == /\ ConsentOnce
        /\ \A a \in Attempts : att[a].st = "unborn" => approvals[a] = 0
        /\ \A s \in SlotNames : SlotConsent(s)
        /\ \A p \in Procs : WorkConsent(p)

(* What the command table says of approvals: they are the last effect of the two
   approving commands, only early commands lead to an early phase, and a legacy
   command takes from the two slots a legacy attempt owns. *)
LEMMA CmdConsent ==
  ASSUME NEW c \in CmdNames
  PROVE  /\ Cmds[c].mode \in {"single", "legacy"}
         /\ Cmds[c].mode = "legacy" => SlotOf(Cmds[c].from) \in {"relay", "pending"}
         /\ c \in EarlyCmds \cup ApprovingCmds => Cmds[c].from \in EarlyPhases \cup {"begin"}
         /\ c = "link" => Cmds[c].from = "reviewReady" /\ Cmds[c].mode = "single"
         /\ c = "preliminary" => Cmds[c].mode = "legacy"
         /\ Cmds[c].to \in EarlyPhases => c \in EarlyCmds
         /\ Cmds[c].to = "reviewReady" => c = "painted"
         /\ \A i \in 1..Len(Cmds[c].does) : Cmds[c].does[i] = "approve" =>
              c \in ApprovingCmds /\ i = Len(Cmds[c].does)
<1>1. /\ Cmds[c].mode \in {"single", "legacy"}
      /\ Cmds[c].mode = "legacy" => SlotOf(Cmds[c].from) \in {"relay", "pending"}
  <2>1. CASE c \in {"contact", "unlock", "painted", "link", "continue", "finishLink"}
    <3>1. Cmds[c].mode = "single" BY <2>1 DEF Cmds
    <3> QED BY <3>1
  <2>2. CASE c \in {"recognise", "relayDecide", "preliminary"}
    <3>1. Cmds[c].mode = "legacy" /\ Cmds[c].from \in {"begin", "relay", "intent"}
      BY <2>2 DEF Cmds
    <3> QED BY <3>1 DEF SlotOf
  <2>3. CASE c \in {"compare", "finalDecide", "finish"}
    <3>1. /\ Cmds[c].mode = "legacy"
          /\ Cmds[c].from \in {"previewReady", "finalReview", "payloadSent"}
      BY <2>3 DEF Cmds
    <3> QED BY <3>1 DEF SlotOf
  <2> QED BY <2>1, <2>2, <2>3, CmdNamesAre
<1>2. /\ c \in EarlyCmds \cup ApprovingCmds => Cmds[c].from \in EarlyPhases \cup {"begin"}
      /\ c = "link" => Cmds[c].from = "reviewReady" /\ Cmds[c].mode = "single"
      /\ c = "preliminary" => Cmds[c].mode = "legacy"
  BY DEF Cmds, EarlyCmds, ApprovingCmds, EarlyPhases
<1>3. /\ Cmds[c].to \in EarlyPhases => c \in EarlyCmds
      /\ Cmds[c].to = "reviewReady" => c = "painted"
  <2>1. CASE c \in EarlyCmds \ {"painted"} BY <2>1 DEF Cmds, EarlyCmds, EarlyPhases
  <2>2. CASE c = "painted" BY <2>2 DEF Cmds, EarlyCmds
  <2>3. CASE c \in {"link", "continue", "finishLink", "preliminary"}
    <3>1. Cmds[c].to \in {"comparing", "payloadSent", "end", "previewReady"} BY <2>3 DEF Cmds
    <3> QED BY <3>1 DEF EarlyPhases
  <2>4. CASE c \in {"compare", "finalDecide", "finish"}
    <3>1. Cmds[c].to \in {"finalReview", "payloadSent", "end"} BY <2>4 DEF Cmds
    <3> QED BY <3>1 DEF EarlyPhases
  <2> QED BY <2>1, <2>2, <2>3, <2>4, CmdNamesAre DEF EarlyCmds
<1>4. \A i \in 1..Len(Cmds[c].does) : Cmds[c].does[i] = "approve" =>
        c \in ApprovingCmds /\ i = Len(Cmds[c].does)
  <2>1. CASE c = "unlock" BY <2>1 DEF Cmds
  <2>2. CASE c = "painted" BY <2>2 DEF Cmds
  <2>3. CASE c \in {"contact", "recognise", "relayDecide", "compare", "finishLink", "finish"}
    <3>1. Cmds[c].does = <<"net">> BY <2>3 DEF Cmds
    <3> QED BY <3>1
  <2>4. CASE c \in {"link", "preliminary"}
    <3>1. Cmds[c].does = <<"approve">> BY <2>4 DEF Cmds
    <3> QED BY <3>1, <2>4 DEF ApprovingCmds
  <2>5. CASE c = "continue" BY <2>5 DEF Cmds
  <2>6. CASE c = "finalDecide" BY <2>6 DEF Cmds
  <2> QED BY <2>1, <2>2, <2>3, <2>4, <2>5, <2>6, CmdNamesAre
<1> QED BY <1>1, <1>2, <1>3, <1>4

-----------------------------------------------------------------------------
(* Steps that start no attempt and move no continuation between slots *)

\* Attempts that have begun keep their mode, and none of them lives again.
BegunGoOn == /\ BegunKept
             /\ \A a \in Attempts :
                  /\ att[a].st # "unborn" /\ att'[a].st = "live" => att[a].st = "live"
                  /\ att'[a].st = "unborn" => att[a].st = "unborn"
\* And no other attempt begins.
AttemptsGoOn == /\ BegunKept
                /\ \A a \in Attempts : /\ att'[a].st = "live" => att[a].st = "live"
                                       /\ att'[a].st = "unborn" => att[a].st = "unborn"

\* Command q, if it still works, works on with the same continuation; and it does
\* not stop while its attempt is live.
GoesOn(q) == Working(q)' => /\ Working(q)
                            /\ procs'[q].cmd = procs[q].cmd
                            /\ procs'[q].att = procs[q].att
                            /\ procs'[q].cont.att = procs[q].cont.att
                            /\ NotYet(q)' => NotYet(q)
StopsCancelled(q) == Working(q) /\ att'[procs[q].att].st = "live" => Working(q)'

\* The slots stay as they are, or are emptied with no attempt left alive.
Calm == /\ AttemptsGoOn
        /\ current' = current
        /\ \A q \in Procs : GoesOn(q)
        /\ \/ slots' = slots /\ \A q \in Procs : StopsCancelled(q)
           \/ /\ \A s \in SlotNames : slots'[s] = None
              /\ \A a \in Attempts : att'[a].st # "live"

(* If no attempt begins, those that have begun go on. *)
LEMMA AllGoOn == AttemptsGoOn => BegunGoOn
BY DEF AttemptsGoOn, BegunGoOn

(* Weakened records start no attempt. *)
LEMMA WeakerGoOn ==
  ASSUME \A a \in Attempts : Weaker(att[a], att'[a]) PROVE AttemptsGoOn
BY DEF AttemptsGoOn, BegunKept, Weaker, Terminal

(* A step that leaves a process alone goes on with it. *)
LEMMA SameGoesOn ==
  ASSUME NEW q \in Procs, procs'[q] = procs[q] PROVE GoesOn(q) /\ StopsCancelled(q)
BY DEF GoesOn, StopsCancelled, Working, NotYet

(* A calm step keeps every continuation where it is. *)
LEMMA CalmHolders ==
  ASSUME IInv, HInv, Calm PROVE HInv'
<1>1. \A s \in SlotNames : slots[s] # None => slots[s].att \in Attempts
  BY DEF IInv, TypeOK, Continuation
<1>2. \A q \in Procs : Working(q) => procs[q].att \in Attempts BY DEF IInv, WorkerOK
<1>3. current \in Attempts \cup {None} BY DEF IInv, TypeOK
<1>4. OwnContinuation' BY DEF HInv, OwnContinuation, Calm, GoesOn
<1>5. CASE slots' = slots /\ \A q \in Procs : StopsCancelled(q)
  <2>1. \A s \in SlotNames : slots'[s] # None => att'[slots'[s].att].st # "unborn"
    BY <1>1, <1>5 DEF HInv, Calm, AttemptsGoOn, BegunKept
  <2>2. \A s \in SlotNames : OwnSlot(s)'
    <3> SUFFICES ASSUME NEW s \in SlotNames, current # None, att'[current].st = "live",
                        slots[s] # None, OwnSlot(s)
                 PROVE  /\ Live(current)
                        /\ att'[current].mode = att[current].mode
      BY <1>5 DEF OwnSlot, Live, Calm, HInv
    <3>1. Live(current) BY <1>3 DEF Live, Calm, AttemptsGoOn
    <3> QED BY <1>3, <3>1 DEF Live, Calm, AttemptsGoOn, BegunKept
  <2>3. ASSUME NEW a \in Attempts, Live(a)' PROVE (HeldInSlot(a) \/ HeldByCommand(a))'
    <3>1. Live(a) BY <2>3 DEF Live, Calm, AttemptsGoOn
    <3>2. \A s \in SlotNames : InSlot(s, a)' <=> InSlot(s, a) BY <1>5 DEF InSlot
    <3>3. \A q \in Procs : ByProc(q, a)' <=> ByProc(q, a)
      BY <1>5, <2>3 DEF ByProc, Calm, GoesOn, StopsCancelled, Live
    <3>4. CASE HeldInSlot(a)
      <4>1. HeldInSlot(a)' BY <3>2, <3>3, <3>4 DEF HeldInSlot
      <4> QED BY <4>1
    <3>5. CASE HeldByCommand(a)
      <4>1. HeldByCommand(a)' BY <3>2, <3>3, <3>5 DEF HeldByCommand
      <4> QED BY <4>1
    <3> QED BY <3>1, <3>4, <3>5 DEF HInv
  <2> QED BY <1>4, <2>1, <2>2, <2>3 DEF HInv
<1>6. CASE /\ \A s \in SlotNames : slots'[s] = None
           /\ \A a \in Attempts : att'[a].st # "live"
  <2>1. \A s \in SlotNames : OwnSlot(s)' BY <1>6 DEF OwnSlot
  <2>2. \A a \in Attempts : ~Live(a)' BY <1>6 DEF Live
  <2> QED BY <1>4, <1>6, <2>1, <2>2 DEF HInv
<1> QED BY <1>5, <1>6 DEF Calm

(* A slot that keeps its continuation keeps its facts about consent. *)
LEMMA SlotConsentKept ==
  ASSUME IInv, HInv, CInv, BegunGoOn, approvals' = approvals, rendered \subseteq rendered',
         NEW s \in SlotNames, slots'[s] = None \/ slots'[s] = slots[s]
  PROVE  SlotConsent(s)'
<1>1. CASE slots'[s] = None BY <1>1 DEF SlotConsent
<1>2. CASE slots'[s] = slots[s] /\ slots[s] # None
  <2>1. slots[s].att \in Attempts /\ att[slots[s].att].st # "unborn"
    BY <1>2 DEF IInv, TypeOK, Continuation, HInv
  <2>2. SlotConsent(s) BY DEF CInv
  <2> QED BY <1>2, <2>1, <2>2 DEF SlotConsent, Live, BegunGoOn
<1> QED BY <1>1, <1>2

(* A command that goes on keeps its facts about consent. *)
LEMMA WorkConsentKept ==
  ASSUME IInv, CInv, BegunGoOn, approvals' = approvals, rendered \subseteq rendered',
         NEW q \in Procs, GoesOn(q)
  PROVE  WorkConsent(q)'
<1> SUFFICES ASSUME Working(q)' PROVE WorkConsent(q)' BY DEF WorkConsent
<1>1. /\ Working(q) /\ procs'[q].cmd = procs[q].cmd /\ procs'[q].att = procs[q].att
      /\ NotYet(q)' => NotYet(q)
  BY DEF GoesOn
<1>2. procs[q].att \in Attempts /\ att[procs[q].att].st # "unborn" /\ WorkConsent(q)
  BY <1>1 DEF IInv, WorkerOK, CInv
<1> QED BY <1>1, <1>2 DEF WorkConsent, BegunGoOn, BegunKept

(* Nothing is approved and nothing forgotten: consent is kept. *)
LEMMA ConsentKept ==
  ASSUME CInv, BegunGoOn, approvals' = approvals, rendered \subseteq rendered'
  PROVE  /\ ConsentOnce'
         /\ \A a \in Attempts : att'[a].st = "unborn" => approvals'[a] = 0
<1>1. \A a \in Attempts : att'[a].st = "unborn" => approvals'[a] = 0
  BY DEF CInv, BegunGoOn
<1>2. ASSUME NEW a \in Attempts
      PROVE  /\ approvals'[a] <= 1
             /\ approvals'[a] > 0 /\ att'[a].mode = "single" => a \in rendered'
  <2>1. CASE att[a].st = "unborn" BY <2>1 DEF CInv
  <2>2. CASE att[a].st # "unborn" BY <2>2 DEF CInv, ConsentOnce, BegunGoOn, BegunKept
  <2> QED BY <2>1, <2>2
<1> QED BY <1>1, <1>2 DEF ConsentOnce

(* A calm step that approves nothing keeps consent. *)
LEMMA CalmConsent ==
  ASSUME IInv, HInv, CInv, Calm, approvals' = approvals, rendered' = rendered PROVE CInv'
<1>1. /\ \A s \in SlotNames : slots'[s] = None \/ slots'[s] = slots[s]
      /\ BegunGoOn /\ rendered \subseteq rendered'
  BY AllGoOn DEF Calm
<1>2. \A s \in SlotNames : SlotConsent(s)' BY <1>1, SlotConsentKept
<1>3. \A q \in Procs : WorkConsent(q)' BY <1>1, WorkConsentKept DEF Calm
<1> QED BY <1>1, <1>2, <1>3, ConsentKept DEF CInv

(* Cancelling, backgrounding and the start of a root change are calm. *)
LEMMA EventCalm ==
  ASSUME IInv, Cancel \/ Background \/ \E p \in Procs : RootBegin(p)
  PROVE  Calm /\ approvals' = approvals /\ rendered' = rendered
<1>1. /\ Revoke /\ current' = current /\ approvals' = approvals /\ rendered' = rendered
  BY DEF Cancel, Background, RootBegin
<1>2. \A q \in Procs : GoesOn(q)
  <2>1. CASE Cancel \/ Background BY <2>1, SameGoesOn DEF Cancel, Background
  <2>2. CASE \E p \in Procs : RootBegin(p)
    <3>1. PICK p \in Procs : procs' = [procs EXCEPT ![p].pc = "root"] BY <2>2 DEF RootBegin
    <3>2. procs[p] \in ProcState BY DEF IInv, TypeOK
    <3>3. procs'[p].pc = "root" /\ \A q \in Procs \ {p} : procs'[q] = procs[q]
      BY <3>1, <3>2 DEF IInv, TypeOK, ProcState
    <3>4. GoesOn(p) BY <3>3 DEF GoesOn, Working
    <3> QED BY <3>3, <3>4, SameGoesOn
  <2> QED BY <2>1, <2>2
<1>3. \A s \in SlotNames : slots'[s] = None BY <1>1 DEF Revoke
<1>4. AttemptsGoOn BY <1>1, RevokeWeaker, WeakerGoOn DEF IInv
<1>5. \A a \in Attempts : att'[a].st # "live"
  BY <1>1, RevokeWeaker DEF IInv, FencedOut, Live
<1> QED BY <1>1, <1>2, <1>3, <1>4, <1>5 DEF Calm

(* A failing check is calm. *)
LEMMA CheckCalm ==
  ASSUME IInv, NEW a \in Attempts, Watchdog(a) \/ Refuse(a) \/ ClockFault(a)
  PROVE  Calm /\ approvals' = approvals /\ rendered' = rendered
<1>1. UNCHANGED <<current, slots, procs, rendered, approvals>>
  BY DEF Watchdog, Refuse, ClockFault
<1>2. AttemptsGoOn BY CheckWeakens, OneWeakened, WeakerGoOn DEF IInv
<1>3. \A q \in Procs : GoesOn(q) /\ StopsCancelled(q) BY <1>1, SameGoesOn
<1> QED BY <1>1, <1>2, <1>3 DEF Calm

(* The clock, the way back to the foreground and the store's part of a root
   change are calm. *)
LEMMA OutsideCalm ==
  ASSUME IInv, Tick \/ Foreground \/ \E p \in Procs : RootWrite(p) \/ RootEnd(p)
  PROVE  Calm /\ approvals' = approvals /\ rendered' = rendered
<1>1. UNCHANGED <<att, slots, current, rendered, approvals>>
  BY DEF Tick, Foreground, RootWrite, RootEnd
<1>2. \A q \in Procs : procs'[q] = procs[q] \/ (~Working(q) /\ ~Working(q)')
  <2>1. CASE Tick \/ Foreground BY <2>1 DEF Tick, Foreground
  <2>2. CASE \E p \in Procs : RootWrite(p)
    <3>1. PICK p \in Procs : procs[p].pc = "root" /\ procs' = [procs EXCEPT ![p].pc = "rootDone"]
      BY <2>2 DEF RootWrite
    <3>2. procs[p] \in ProcState BY DEF IInv, TypeOK
    <3>3. procs'[p].pc = "rootDone" /\ \A q \in Procs \ {p} : procs'[q] = procs[q]
      BY <3>1, <3>2 DEF IInv, TypeOK, ProcState
    <3> QED BY <3>1, <3>3 DEF Working
  <2>3. CASE \E p \in Procs : RootEnd(p)
    <3>1. PICK p \in Procs : Changing(p) /\ procs' = [procs EXCEPT ![p] = Idle]
      BY <2>3 DEF RootEnd
    <3>2. procs'[p] = Idle /\ \A q \in Procs \ {p} : procs'[q] = procs[q]
      BY <3>1 DEF IInv, TypeOK
    <3> QED BY <3>1, <3>2 DEF Working, Idle, Changing
  <2> QED BY <2>1, <2>2, <2>3
<1>3. ASSUME NEW q \in Procs PROVE GoesOn(q) /\ StopsCancelled(q)
  <2>1. CASE procs'[q] = procs[q] BY <2>1, SameGoesOn
  <2>2. CASE ~Working(q) /\ ~Working(q)' BY <2>2 DEF GoesOn, StopsCancelled
  <2> QED BY <1>2, <2>1, <2>2
<1>4. AttemptsGoOn BY <1>1 DEF AttemptsGoOn, BegunKept
<1> QED BY <1>1, <1>3, <1>4 DEF Calm

(* A command that drops its operation cancels the attempt it worked for. *)
LEMMA DropCalm ==
  ASSUME IInv, NEW p \in Procs, DropOperation(p)
  PROVE  Calm /\ approvals' = approvals /\ rendered' = rendered
<1> DEFINE a == procs[p].att
           r == Unretained(att[a], a, procs[p].cont)
<1>1. a \in Attempts /\ Working(p) BY DEF DropOperation, IInv, WorkerOK
<1>2. r \in AttemptState /\ Weaker(att[a], r) BY <1>1, UnretainedWeaker DEF IInv, TypeOK
<1>3. r.st # "live"
  <2>1. att[a] \in AttemptState BY <1>1 DEF IInv, TypeOK
  <2>2. Cancelled(att[a]) \in AttemptState /\ Cancelled(att[a]).st # "live"
    BY <2>1, CancelledWeaker
  <2>3. r = Dropped(Cancelled(att[a]), a, {procs[p].cont}) BY DEF Unretained
  <2> HIDE DEF r
  <2> QED BY <2>2, <2>3, DroppedWeaker
<1>4. att' = [att EXCEPT ![a] = r] BY DEF DropOperation
<1>5. UNCHANGED <<current, slots, rendered, approvals>> /\ procs' = [procs EXCEPT ![p] = Idle]
  BY DEF DropOperation, Release
<1> HIDE DEF r
<1>6. AttemptsGoOn BY <1>1, <1>2, <1>4, OneWeakened, WeakerGoOn DEF IInv
<1>7. att'[a].st # "live" BY <1>1, <1>3, <1>4 DEF IInv, TypeOK
<1>8. procs'[p] = Idle /\ \A q \in Procs \ {p} : procs'[q] = procs[q]
  BY <1>5 DEF IInv, TypeOK
<1>9. GoesOn(p) /\ StopsCancelled(p)
  BY <1>7, <1>8 DEF GoesOn, StopsCancelled, Working, Idle
<1>10. \A q \in Procs : GoesOn(q) /\ StopsCancelled(q) BY <1>8, <1>9, SameGoesOn
<1> QED BY <1>5, <1>6, <1>10 DEF Calm

(* A command that works on with its own record changed in place. *)
LEMMA WorksOn ==
  ASSUME IInv, NEW p \in Procs, Working(p), NEW r, procs' = [procs EXCEPT ![p] = r],
         r.cmd = procs[p].cmd, r.att = procs[p].att, r.cont.att = procs[p].cont.att,
         r.pc \in {"work", "effect", "put"},
         r.pc \in {"work", "effect"} => procs[p].pc \in {"work", "effect"}
  PROVE  \A q \in Procs : GoesOn(q) /\ StopsCancelled(q)
<1>1. procs'[p] = r /\ \A q \in Procs \ {p} : procs'[q] = procs[q] BY DEF IInv, TypeOK
<1>2. GoesOn(p) /\ StopsCancelled(p) BY <1>1 DEF GoesOn, StopsCancelled, Working, NotYet
<1> QED BY <1>1, <1>2, SameGoesOn

(* What a command step other than Put and DropOperation does to its command. *)
LEMMA CommandWorksOn ==
  ASSUME IInv, NEW p \in Procs,
         \/ Enter(p) \/ Exchange(p) \/ Approve(p) \/ Unlock(p) \/ Retain(p)
         \/ Sign(p) \/ FinishRefused(p) \/ Abandon(p)
  PROVE  \A q \in Procs : GoesOn(q) /\ StopsCancelled(q)
<1>1. Working(p) /\ procs[p] \in ProcState /\ procs[p].cont \in Continuation
  <2>1. Working(p)
    BY DEF Enter, Exchange, Approve, Unlock, Retain, Sign, FinishRefused, Abandon, Doing, Working
  <2> QED BY <2>1 DEF IInv, TypeOK, WorkerOK
<1>2. CASE Enter(p) \/ Abandon(p)
  <2>1. PICK r : /\ procs' = [procs EXCEPT ![p] = r]
                 /\ r.cmd = procs[p].cmd /\ r.att = procs[p].att /\ r.cont = procs[p].cont
                 /\ r.pc \in {"work", "effect"} /\ procs[p].pc \in {"work", "effect"}
    <3>1. CASE Enter(p)
      <4>1. procs' = [procs EXCEPT ![p] = [procs[p] EXCEPT !.pc = "effect"]]
        BY <3>1 DEF Enter, IInv, TypeOK
      <4> QED BY <1>1, <3>1, <4>1 DEF Enter, ProcState
    <3>2. CASE Abandon(p)
      <4>1. procs' = [procs EXCEPT ![p] = [procs[p] EXCEPT !.op = FALSE]]
        BY <3>2 DEF Abandon, IInv, TypeOK
      <4> QED BY <1>1, <3>2, <4>1 DEF Abandon, ProcState
    <3> QED BY <1>2, <3>1, <3>2
  <2> QED BY <1>1, <2>1, WorksOn
<1>3. CASE FinishRefused(p)
  <2> DEFINE c == [procs[p].cont EXCEPT !.cust = FALSE]
             r == [procs[p] EXCEPT !.pc = "put", !.cont = c]
  <2>1. c.att = procs[p].cont.att BY <1>1 DEF Continuation
  <2>2. procs' = [procs EXCEPT ![p] = r] BY <1>3 DEF FinishRefused, IInv, TypeOK
  <2> HIDE DEF c
  <2>3. r.cmd = procs[p].cmd /\ r.att = procs[p].att /\ r.cont = c /\ r.pc = "put"
    BY <1>1 DEF ProcState
  <2> HIDE DEF r
  <2> QED BY <1>1, <2>1, <2>2, <2>3, WorksOn
<1>4. CASE Exchange(p) \/ Approve(p) \/ Unlock(p) \/ Retain(p) \/ Sign(p)
  <2> DEFINE adv == Advance(p)
  <2>1. procs[p].pc = "effect" BY <1>4 DEF Exchange, Approve, Unlock, Retain, Sign, Doing
  <2>2. /\ adv \in ProcState /\ adv.cmd = procs[p].cmd /\ adv.att = procs[p].att
        /\ adv.cont = procs[p].cont /\ adv.pc \in {"work", "put"}
    BY <2>1, AdvanceOK
  <2>3. CASE Exchange(p) \/ Approve(p) \/ Sign(p)
    <3>1. procs' = [procs EXCEPT ![p] = adv] BY <2>3 DEF Exchange, Approve, Sign
    <3> HIDE DEF adv
    <3> QED BY <1>1, <2>1, <2>2, <3>1, WorksOn
  <2>4. CASE Unlock(p)
    <3>1. procs' = [procs EXCEPT ![p] = [adv EXCEPT !.held = root]] BY <2>4 DEF Unlock
    <3> HIDE DEF adv
    <3> DEFINE r == [adv EXCEPT !.held = root]
    <3>2. r.cmd = adv.cmd /\ r.att = adv.att /\ r.cont = adv.cont /\ r.pc = adv.pc
      BY <2>2 DEF ProcState
    <3>3. procs' = [procs EXCEPT ![p] = r] BY <3>1
    <3> HIDE DEF r
    <3> QED BY <1>1, <2>1, <2>2, <3>2, <3>3, WorksOn
  <2>5. CASE Retain(p)
    <3> DEFINE c == [adv.cont EXCEPT !.cust = TRUE]
               r == [adv EXCEPT !.held = None, !.cont = c]
    <3>1. c.att = procs[p].cont.att BY <1>1, <2>2 DEF Continuation
    <3>2. procs' = [procs EXCEPT ![p] = r] BY <2>5 DEF Retain
    <3> HIDE DEF adv, c
    <3>3. r.cmd = adv.cmd /\ r.att = adv.att /\ r.cont = c /\ r.pc = adv.pc
      BY <2>2 DEF ProcState
    <3> HIDE DEF r
    <3> QED BY <1>1, <2>1, <2>2, <3>1, <3>2, <3>3, WorksOn
  <2> QED BY <1>4, <2>3, <2>4, <2>5
<1> QED BY <1>2, <1>3, <1>4

(* What those steps do to the attempts. *)
LEMMA CommandAttempts ==
  ASSUME IInv, NEW p \in Procs,
         \/ Enter(p) \/ Exchange(p) \/ Approve(p) \/ Unlock(p) \/ Retain(p)
         \/ Sign(p) \/ FinishRefused(p) \/ Abandon(p)
  PROVE  AttemptsGoOn
<1> DEFINE a == procs[p].att
<1>1. a \in Attempts /\ att[a] \in AttemptState
  <2>1. Working(p)
    BY DEF Enter, Exchange, Approve, Unlock, Retain, Sign, FinishRefused, Abandon, Doing, Working
  <2> QED BY <2>1 DEF IInv, TypeOK, WorkerOK
<1>2. CASE Enter(p) \/ Exchange(p) \/ Approve(p) \/ Sign(p)
  BY <1>2 DEF Enter, Exchange, Approve, Sign, AttemptsGoOn, BegunKept
<1>3. CASE FinishRefused(p) \/ Abandon(p)
  <2>1. PICK w \in AttemptState : att' = [att EXCEPT ![a] = w] /\ Weaker(att[a], w)
    <3>1. CASE FinishRefused(p) BY <3>1, <1>1, DroppedWeaker DEF FinishRefused
    <3>2. CASE Abandon(p) BY <3>2, <1>1, CancelledWeaker DEF Abandon
    <3> QED BY <1>3, <3>1, <3>2
  <2> QED BY <1>1, <2>1, OneWeakened, WeakerGoOn DEF IInv
<1>4. CASE Unlock(p) \/ Retain(p)
  <2>1. \A b \in Attempts :
          att'[b].st = att[b].st /\ att'[b].mode = att[b].mode /\ att'[b].gen = att[b].gen
    <3>1. CASE Unlock(p) /\ att' = att BY <3>1
    <3>2. CASE Unlock(p) /\ att' # att
      <4>1. PICK d : att' = [att EXCEPT ![a].deadline = d] BY <3>2 DEF Unlock
      <4>2. att' = [att EXCEPT ![a] = [att[a] EXCEPT !.deadline = d]]
        BY <4>1, <1>1 DEF IInv, TypeOK
      <4> QED BY <4>2, <1>1 DEF IInv, TypeOK, AttemptState
    <3>3. CASE Retain(p)
      <4>1. att' = [att EXCEPT ![a] = [att[a] EXCEPT !.custody = procs[p].held, !.watch = TRUE]]
        BY <3>3, <1>1 DEF Retain, IInv, TypeOK
      <4> QED BY <4>1, <1>1 DEF IInv, TypeOK, AttemptState
    <3> QED BY <1>4, <3>1, <3>2, <3>3
  <2> QED BY <2>1 DEF AttemptsGoOn, BegunKept
<1> QED BY <1>2, <1>3, <1>4

(* Those steps are calm, and only Approve touches what consent is about. *)
LEMMA CommandCalm ==
  ASSUME IInv, NEW p \in Procs,
         \/ Enter(p) \/ Exchange(p) \/ Approve(p) \/ Unlock(p) \/ Retain(p)
         \/ Sign(p) \/ FinishRefused(p) \/ Abandon(p)
  PROVE  Calm /\ rendered' = rendered /\ (approvals' = approvals \/ Approve(p))
<1>1. /\ slots' = slots /\ current' = current /\ rendered' = rendered
      /\ approvals' = approvals \/ Approve(p)
  BY DEF Enter, Exchange, Approve, Unlock, Retain, Sign, FinishRefused, Abandon
<1> QED BY <1>1, CommandWorksOn, CommandAttempts DEF Calm

(* The intent approval is sent once: the attempt's command has not sent it yet,
   and once it has, no slot and no other command is before it. *)
LEMMA ApproveConsent ==
  ASSUME IInv, HInv, CInv, NEW p \in Procs, Approve(p) PROVE CInv'
<1> DEFINE a == procs[p].att
<1>1. procs[p].pc = "effect" /\ Working(p) /\ WorkerOK(p) /\ WorkConsent(p)
  BY DEF Approve, Doing, Working, IInv, CInv
<1>2. a \in Attempts /\ procs[p].cmd \in CmdNames BY <1>1 DEF WorkerOK
<1>3. procs[p].cmd \in ApprovingCmds /\ procs[p].step = LastStep(p)
  <2>1. procs[p].step \in 1..Len(Cmds[procs[p].cmd].does) BY <1>1 DEF WorkerOK, LastStep
  <2>2. Cmds[procs[p].cmd].does[procs[p].step] = "approve" BY DEF Approve, Doing
  <2> QED BY <1>2, <2>1, <2>2, CmdConsent DEF LastStep
<1>4. approvals[a] = 0 BY <1>1, <1>3 DEF WorkConsent, NotYet
<1>5. att[a].mode = "single" => a \in rendered
  <2>1. Cmds[procs[p].cmd].mode = att[a].mode BY <1>1 DEF WorkConsent
  <2>2. CASE procs[p].cmd = "link" BY <1>1, <2>2 DEF WorkConsent
  <2>3. CASE procs[p].cmd = "preliminary"
    <3>1. Cmds["preliminary"].mode = "legacy" BY CmdConsent, CmdNamesAre
    <3> QED BY <2>1, <2>3, <3>1
  <2> QED BY <1>3, <2>2, <2>3 DEF ApprovingCmds
<1>6. /\ approvals'[a] = 1
      /\ \A b \in Attempts \ {a} : approvals'[b] = approvals[b]
  <2>1. approvals \in [Attempts -> Nat] BY DEF IInv, TypeOK
  <2>2. approvals' = [approvals EXCEPT ![a] = approvals[a] + 1] BY DEF Approve
  <2> QED BY <1>2, <1>4, <2>1, <2>2
<1>7. /\ UNCHANGED <<att, slots, rendered>>
      /\ procs' = [procs EXCEPT ![p] = Advance(p)]
  BY DEF Approve
<1>8. ConsentOnce' BY <1>5, <1>6, <1>7 DEF CInv, ConsentOnce
<1>9. \A b \in Attempts : att'[b].st = "unborn" => approvals'[b] = 0
  BY <1>1, <1>6, <1>7 DEF CInv, WorkerOK
<1>10. ASSUME NEW s \in SlotNames PROVE SlotConsent(s)'
  <2>1. CASE slots[s] = None BY <1>7, <2>1 DEF SlotConsent
  <2>2. CASE slots[s] # None /\ slots[s].att # a
    <3>1. slots[s].att \in Attempts BY <2>2 DEF IInv, TypeOK, Continuation
    <3> QED BY <1>6, <1>7, <2>2, <3>1 DEF SlotConsent, CInv, Live
  <2>3. CASE slots[s] # None /\ slots[s].att = a
    <3>1. ~Live(a)
      <4>1. InSlot(s, a) /\ ByProc(p, a) BY <1>1, <2>3 DEF InSlot, ByProc
      <4> QED BY <1>2, <4>1 DEF HInv, HeldInSlot, HeldByCommand
    <3> QED BY <1>7, <2>3, <3>1 DEF SlotConsent, CInv, Live
  <2> QED BY <2>1, <2>2, <2>3
<1>11. ASSUME NEW q \in Procs PROVE WorkConsent(q)'
  <2>1. CASE q = p
    <3>1. /\ Advance(p).cmd = procs[p].cmd /\ Advance(p).att = a /\ Advance(p).pc = "put"
      <4>1. procs[p] \in ProcState BY DEF IInv, TypeOK
      <4>2. Advance(p).pc = "put" BY <1>3, <4>1 DEF Advance, ProcState
      <4> QED BY <1>1, <4>2, AdvanceOK
    <3>2. procs'[p].cmd = procs[p].cmd /\ procs'[p].att = a /\ procs'[p].pc = "put"
      BY <1>7, <3>1 DEF IInv, TypeOK
    <3>3. ~NotYet(p)' BY <1>3, <3>2 DEF NotYet, EarlyCmds, ApprovingCmds
    <3> QED BY <1>1, <1>7, <2>1, <3>2, <3>3 DEF WorkConsent
  <2>2. CASE q # p
    <3>1. procs'[q] = procs[q] BY <1>7, <2>2 DEF IInv, TypeOK
    <3>2. ~Working(q) BY <1>1, <2>2 DEF IInv, WorkerOK
    <3> QED BY <3>1, <3>2 DEF WorkConsent, Working
  <2> QED BY <2>1, <2>2
<1> QED BY <1>8, <1>9, <1>10, <1>11 DEF CInv

-----------------------------------------------------------------------------
(* Steps that move a continuation, or begin an attempt *)

(* Only the current attempt can be live, so one holder of it is enough. *)
LEMMA CurrentHeld ==
  ASSUME FencedOut', NEW a \in Attempts, current' = a,
         (HeldInSlot(a) \/ HeldByCommand(a))'
  PROVE  (\A b \in Attempts : Live(b) => HeldInSlot(b) \/ HeldByCommand(b))'
BY DEF FencedOut

(* A command takes what is its own attempt's, while nobody works; it leaves the
   slot empty and the others as they are. *)
LEMMA Taken ==
  ASSUME IInv, HInv, NEW p \in Procs, NEW c \in CmdNames, Take(p, c)
  PROVE  /\ current \in Attempts /\ Live(current) /\ att[current].mode = Cmds[c].mode
         /\ UNCHANGED <<att, current, approvals, rendered>>
         /\ \A q \in Procs : ~Working(q)
         /\ \A q \in Procs \ {p} : ~Working(q)'
         /\ Working(p)' /\ procs'[p].cmd = c /\ procs'[p].att = current
         /\ \E s \in SlotNames :
              /\ slots[s] # None /\ slots[s].att = current /\ slots[s].phase = Cmds[c].from
              /\ slots'[s] = None /\ \A t \in SlotNames \ {s} : slots'[t] = slots[t]
              /\ procs'[p].cont = slots[s]
<1> DEFINE s == SlotOf(Cmds[c].from)
           r == [pc |-> IF Cmds[c].does = <<>> THEN "put" ELSE "work", cmd |-> c,
                 att |-> current, cont |-> slots[s], step |-> 1, op |-> TRUE, held |-> None]
<1>1. s \in SlotNames BY DEF SlotOf, SlotNames
<1>2. /\ current # None /\ Passes(current) /\ att[current].mode = Cmds[c].mode
      /\ slots[s] # None /\ slots[s].phase = Cmds[c].from /\ ~LeaseLive
      /\ slots' = [slots EXCEPT ![s] = None]
      /\ procs' = [procs EXCEPT ![p] = r]
      /\ UNCHANGED <<att, current, approvals, rendered>>
  BY DEF Take, InPhase
<1>3. r.cmd = c /\ r.att = current /\ r.cont = slots[s] /\ r.pc \in {"work", "put"}
  OBVIOUS
<1>4. current \in Attempts /\ Live(current) BY <1>2, PassesLive DEF IInv, TypeOK
<1>5. slots[s].att = current
  <2>1. att[current].mode = "single" \/ s \in {"relay", "pending"} BY <1>2, CmdConsent
  <2> HIDE DEF s
  <2>2. OwnSlot(s) BY <1>1 DEF HInv
  <2> QED BY <1>2, <1>4, <2>1, <2>2 DEF OwnSlot
<1> HIDE DEF s, r
<1>6. \A q \in Procs : ~Working(q) BY <1>2, NobodyWorks
<1>7. procs'[p] = r /\ \A q \in Procs \ {p} : procs'[q] = procs[q] BY <1>2 DEF IInv, TypeOK
<1>8. Working(p)' /\ \A q \in Procs \ {p} : ~Working(q)' BY <1>3, <1>6, <1>7 DEF Working
<1>9. slots'[s] = None /\ \A t \in SlotNames \ {s} : slots'[t] = slots[t]
  BY <1>1, <1>2 DEF IInv, TypeOK
<1> QED BY <1>1, <1>2, <1>3, <1>4, <1>5, <1>6, <1>7, <1>8, <1>9

(* After it the command is the only holder. *)
LEMMA TakeHolders ==
  ASSUME IInv, HInv, FencedOut', NEW p \in Procs, NEW c \in CmdNames, Take(p, c) PROVE HInv'
<1>1. /\ current \in Attempts /\ Live(current) /\ UNCHANGED <<att, current>>
      /\ \A q \in Procs \ {p} : ~Working(q)'
      /\ Working(p)' /\ procs'[p].att = current
  BY Taken
<1>2. PICK s \in SlotNames :
        /\ slots[s] # None /\ slots[s].att = current
        /\ slots'[s] = None /\ \A t \in SlotNames \ {s} : slots'[t] = slots[t]
        /\ procs'[p].cont = slots[s]
  BY Taken
<1>3. OwnContinuation' BY <1>1, <1>2 DEF OwnContinuation
<1>4. \A t \in SlotNames : slots'[t] # None => att'[slots'[t].att].st # "unborn"
  BY <1>1, <1>2 DEF HInv
<1>5. \A t \in SlotNames : OwnSlot(t)' BY <1>1, <1>2 DEF HInv, OwnSlot, Live
<1>6. PICK a \in Attempts : a = current BY <1>1
<1>7. HeldByCommand(a)'
  <2>1. HeldInSlot(a) \/ HeldByCommand(a) BY <1>1, <1>6 DEF HInv
  <2>2. InSlot(s, a) BY <1>2, <1>6 DEF InSlot
  <2>3. \A t \in SlotNames : InSlot(t, a) => t = s BY <2>1, <2>2 DEF HeldInSlot, HeldByCommand
  <2>4. \A t \in SlotNames : ~InSlot(t, a)' BY <1>2, <2>3 DEF InSlot
  <2>5. ByProc(p, a)' BY <1>1, <1>6 DEF ByProc
  <2> QED BY <2>4, <2>5 DEF HeldByCommand
<1>8. current' = a BY <1>1, <1>6
<1>9. (\A b \in Attempts : Live(b) => HeldInSlot(b) \/ HeldByCommand(b))'
  BY <1>7, <1>8, CurrentHeld
<1> QED BY <1>3, <1>4, <1>5, <1>9 DEF HInv

(* A command that starts finds nothing approved yet, if it is an early one. *)
LEMMA TakeConsent ==
  ASSUME IInv, HInv, CInv, NEW p \in Procs, NEW c \in CmdNames, Take(p, c) PROVE CInv'
<1>1. /\ current \in Attempts /\ Live(current) /\ att[current].mode = Cmds[c].mode
      /\ UNCHANGED <<att, current, approvals, rendered>>
      /\ \A q \in Procs \ {p} : ~Working(q)'
      /\ Working(p)' /\ procs'[p].cmd = c /\ procs'[p].att = current
  BY Taken
<1>2. PICK s \in SlotNames :
        /\ slots[s] # None /\ slots[s].att = current /\ slots[s].phase = Cmds[c].from
        /\ slots'[s] = None /\ \A t \in SlotNames \ {s} : slots'[t] = slots[t]
  BY Taken
<1>3. BegunGoOn /\ approvals' = approvals /\ rendered \subseteq rendered'
  BY <1>1 DEF BegunGoOn, BegunKept
<1>4. SlotConsent(s) /\ Cmds[c].from # "begin"
  <2>1. slots[s].phase \in Phases BY <1>2 DEF IInv, TypeOK, Continuation
  <2> QED BY <1>2, <2>1 DEF CInv, Phases
<1>5. c \in EarlyCmds \cup ApprovingCmds => approvals[current] = 0
  BY <1>1, <1>2, <1>4, CmdConsent DEF SlotConsent
<1>6. c = "link" => current \in rendered BY <1>2, <1>4, CmdConsent DEF SlotConsent
<1>7. NotYet(p)' => c \in EarlyCmds \cup ApprovingCmds BY <1>1 DEF NotYet
<1>8. WorkConsent(p)' BY <1>1, <1>5, <1>6, <1>7 DEF WorkConsent
<1>9. \A q \in Procs : WorkConsent(q)' BY <1>1, <1>8 DEF WorkConsent
<1>10. \A t \in SlotNames : SlotConsent(t)' BY <1>2, <1>3, SlotConsentKept
<1> QED BY <1>3, <1>9, <1>10, ConsentKept DEF CInv

(* The slot a command puts its continuation back into, and what it puts there. *)
LEMMA PutWhere ==
  ASSUME IInv, NEW p \in Procs, Put(p)
  PROVE  \E s \in SlotNames, to \in Phases :
           /\ slots[s] = None
           /\ slots' = [slots EXCEPT ![s] = [procs[p].cont EXCEPT !.phase = to]]
           /\ to \in {Cmds[procs[p].cmd].to, "payloadSent"}
<1> DEFINE to == IF Ready(p) THEN Cmds[procs[p].cmd].to ELSE "payloadSent"
<1>1. Working(p) /\ procs[p].cmd \in CmdNames BY DEF Put, Working, IInv, WorkerOK
<1>2. to \in Phases
  <2>1. Cmds[procs[p].cmd].to \in Phases \cup {"end"} BY <1>1, CmdPhases
  <2> QED BY <2>1 DEF Put, Phases
<1>3. SlotOf(to) \in SlotNames BY DEF SlotOf, SlotNames
<1>4. /\ slots[SlotOf(to)] = None
      /\ slots' = [slots EXCEPT ![SlotOf(to)] = [procs[p].cont EXCEPT !.phase = to]]
  BY DEF Put
<1>5. to \in {Cmds[procs[p].cmd].to, "payloadSent"} OBVIOUS
<1> HIDE DEF to
<1> QED BY <1>2, <1>3, <1>4, <1>5

(* A continuation that is put back is in that slot and nowhere else. *)
LEMMA PutHolders ==
  ASSUME IInv, HInv, FencedOut', NEW p \in Procs, Put(p) PROVE HInv'
<1>1. /\ Working(p) /\ current = procs[p].att /\ Passes(procs[p].att)
      /\ UNCHANGED <<att, current>> /\ procs' = [procs EXCEPT ![p] = Idle]
  BY DEF Put, Release, Working
<1>2. procs[p].att \in Attempts /\ procs[p].cont \in Continuation BY <1>1 DEF IInv, WorkerOK
<1>3. PICK a \in Attempts : a = procs[p].att BY <1>2
<1>4. Live(a) /\ current' = a BY <1>1, <1>3, PassesLive DEF IInv
<1>5. PICK s \in SlotNames, to \in Phases :
        slots[s] = None /\ slots' = [slots EXCEPT ![s] = [procs[p].cont EXCEPT !.phase = to]]
  BY PutWhere
<1>6. PICK k : k = [procs[p].cont EXCEPT !.phase = to] OBVIOUS
<1>7. k.att = a /\ k # None
  <2>1. k \in Continuation BY <1>2, <1>6 DEF Continuation
  <2>2. procs[p].cont.att = a BY <1>1, <1>3 DEF HInv, OwnContinuation
  <2>3. k.att = a BY <1>2, <1>6, <2>2 DEF Continuation
  <2> QED BY <2>1, <2>3, ContinuationAssumption
<1>8. slots'[s] = k /\ \A t \in SlotNames \ {s} : slots'[t] = slots[t]
  BY <1>5, <1>6 DEF IInv, TypeOK
<1>9. procs'[p] = Idle /\ \A q \in Procs \ {p} : procs'[q] = procs[q]
  BY <1>1 DEF IInv, TypeOK
<1>10. \A q \in Procs : ~Working(q)' BY <1>1, <1>9 DEF IInv, WorkerOK, Working, Idle
<1>11. OwnContinuation' BY <1>10 DEF OwnContinuation
<1>12. \A t \in SlotNames : slots'[t] # None => att'[slots'[t].att].st # "unborn"
  BY <1>1, <1>4, <1>7, <1>8 DEF HInv, Live
<1>13. \A t \in SlotNames : OwnSlot(t)' BY <1>1, <1>3, <1>7, <1>8 DEF HInv, OwnSlot, Live
<1>14. HeldInSlot(a)'
  <2>1. ByProc(p, a) BY <1>1, <1>3 DEF ByProc
  <2>2. \A t \in SlotNames : ~InSlot(t, a) BY <1>4, <2>1 DEF HInv, HeldInSlot, HeldByCommand
  <2>3. InSlot(s, a)' /\ \A t \in SlotNames : InSlot(t, a)' => t = s
    BY <1>7, <1>8, <2>2 DEF InSlot
  <2> QED BY <1>10, <2>3 DEF HeldInSlot, ByProc
<1>15. (\A b \in Attempts : Live(b) => HeldInSlot(b) \/ HeldByCommand(b))'
  BY <1>4, <1>14, CurrentHeld
<1> QED BY <1>11, <1>12, <1>13, <1>15 DEF HInv

(* An early continuation is put back by an early command, for which nothing has
   been approved; the painted preview is recorded as it is put back. *)
LEMMA PutConsent ==
  ASSUME IInv, HInv, CInv, NEW p \in Procs, Put(p) PROVE CInv'
<1> DEFINE a == procs[p].att
<1>1. /\ Working(p) /\ UNCHANGED <<att, current, approvals>>
      /\ procs' = [procs EXCEPT ![p] = Idle]
      /\ rendered' = IF procs[p].cmd = "painted" THEN rendered \cup {a} ELSE rendered
  BY DEF Put, Release, Working
<1>2. /\ a \in Attempts /\ procs[p].cmd \in CmdNames /\ procs[p].cont \in Continuation
      /\ procs[p].cont.att = a /\ WorkConsent(p)
  BY <1>1 DEF IInv, WorkerOK, HInv, OwnContinuation, CInv
<1>3. PICK s \in SlotNames, to \in Phases :
        /\ slots' = [slots EXCEPT ![s] = [procs[p].cont EXCEPT !.phase = to]]
        /\ to \in {Cmds[procs[p].cmd].to, "payloadSent"}
  BY PutWhere
<1>4. PICK k : k = [procs[p].cont EXCEPT !.phase = to] OBVIOUS
<1>5. k.att = a /\ k.phase = to BY <1>2, <1>4 DEF Continuation
<1>6. slots'[s] = k /\ \A t \in SlotNames \ {s} : slots'[t] = slots[t]
  BY <1>3, <1>4 DEF IInv, TypeOK
<1>7. BegunGoOn /\ approvals' = approvals /\ rendered \subseteq rendered'
  BY <1>1 DEF BegunGoOn, BegunKept
<1>8. to \in EarlyPhases => approvals[a] = 0
  <2> SUFFICES ASSUME to \in EarlyPhases PROVE approvals[a] = 0 OBVIOUS
  <2>1. to # "payloadSent" BY DEF EarlyPhases
  <2>2. procs[p].cmd \in EarlyCmds BY <1>2, <1>3, <2>1, CmdConsent
  <2> QED BY <1>1, <1>2, <2>2 DEF WorkConsent, NotYet
<1>9. to = "reviewReady" => a \in rendered' BY <1>1, <1>2, <1>3, CmdConsent
<1>10. SlotConsent(s)' BY <1>5, <1>6, <1>7, <1>8, <1>9 DEF SlotConsent
<1>11. \A t \in SlotNames \ {s} : SlotConsent(t)' BY <1>6, <1>7, SlotConsentKept
<1>12. procs'[p] = Idle /\ \A q \in Procs \ {p} : procs'[q] = procs[q]
  BY <1>1 DEF IInv, TypeOK
<1>13. \A q \in Procs : ~Working(q)' BY <1>1, <1>12 DEF IInv, WorkerOK, Working, Idle
<1>14. \A q \in Procs : WorkConsent(q)' BY <1>13 DEF WorkConsent
<1> QED BY <1>7, <1>10, <1>11, <1>14, ConsentKept DEF CInv

(* begin: nobody works, no attempt is live and no slot holds the new one. *)
LEMMA Beginning ==
  ASSUME IInv, HInv, MayBegin, NEW a \in Attempts, att[a].st = "unborn",
         att'[a].st # "unborn", \A b \in Attempts \ {a} : Weaker(att[b], att'[b])
  PROVE  /\ BegunGoOn
         /\ \A b \in Attempts \ {a} : att'[b].st # "live"
         /\ \A q \in Procs : ~Working(q)
         /\ \A s \in SlotNames : ~InSlot(s, a)
<1>1. \A b \in Attempts : ~Live(b) BY NoneAssumption DEF IInv, FencedOut, MayBegin
<1>2. BegunGoOn BY DEF BegunGoOn, BegunKept, Weaker, Terminal
<1>3. \A b \in Attempts \ {a} : att'[b].st # "live" BY <1>1 DEF Weaker, Terminal, Live
<1>4. \A q \in Procs : ~Working(q) BY NobodyWorks DEF MayBegin
<1>5. \A s \in SlotNames : ~InSlot(s, a) BY DEF HInv, InSlot
<1> QED BY <1>2, <1>3, <1>4, <1>5

(* The begun attempt, and what happens to the records of the others. *)
LEMMA DroppedAll ==
  ASSUME TypeOK, NEW a \in Attempts, NEW new \in AttemptState, NEW conts,
         att' = [b \in Attempts |-> Dropped(IF b = a THEN new ELSE att[b], b, conts)]
  PROVE  /\ att'[a].st = new.st /\ att'[a].mode = new.mode
         /\ \A b \in Attempts \ {a} : Weaker(att[b], att'[b])
<1>1. att'[a] = Dropped(new, a, conts) OBVIOUS
<1>2. \A b \in Attempts \ {a} : att'[b] = Dropped(att[b], b, conts) /\ att[b] \in AttemptState
  BY DEF TypeOK
<1>3. Dropped(new, a, conts).st = new.st /\ Dropped(new, a, conts).mode = new.mode
  BY DroppedWeaker DEF Weaker
<1> QED BY <1>1, <1>2, <1>3, DroppedWeaker

(* recognise_v2_entry holds the new attempt's continuation itself. *)
LEMMA RecogniseHC ==
  ASSUME IInv, HInv, CInv, FencedOut', NEW p \in Procs, Recognise(p) PROVE HInv' /\ CInv'
<1> DEFINE ss == {slots["relay"], slots["pending"]}
<1>1. PICK a \in Attempts :
        /\ att[a].st = "unborn"
        /\ current' = a
        /\ att' = [b \in Attempts |-> Dropped(IF b = a THEN [att[b] EXCEPT !.st = "live"]
                                                       ELSE att[b], b, ss)]
        /\ slots' = [slots EXCEPT !["relay"] = None, !["pending"] = None]
        /\ procs' = [procs EXCEPT ![p] =
                       [pc |-> "work", cmd |-> "recognise", att |-> a,
                        cont |-> [att |-> a, phase |-> "relay", cust |-> FALSE],
                        step |-> 1, op |-> TRUE, held |-> None]]
  BY DEF Recognise
<1> DEFINE new == [att[a] EXCEPT !.st = "live"]
           k == [att |-> a, phase |-> "relay", cust |-> FALSE]
           r == [pc |-> "work", cmd |-> "recognise", att |-> a, cont |-> k,
                 step |-> 1, op |-> TRUE, held |-> None]
<1>2. MayBegin /\ approvals' = approvals /\ rendered' = rendered BY DEF Recognise
<1>3. new \in AttemptState /\ new.st = "live" /\ new.mode = "legacy"
  <2>1. att[a] \in AttemptState /\ att[a].mode = "legacy"
    BY <1>1 DEF IInv, TypeOK, SignedOwn
  <2> QED BY <2>1 DEF AttemptState
<1>4. att' = [b \in Attempts |-> Dropped(IF b = a THEN new ELSE att[b], b, ss)] BY <1>1
<1>5. k.att = a /\ r.att = a /\ r.cmd = "recognise" /\ r.cont = k /\ r.pc = "work" OBVIOUS
<1>6. procs' = [procs EXCEPT ![p] = r] BY <1>1
<1> HIDE DEF new, ss, k, r
<1>7. /\ att'[a].st = "live" /\ att'[a].mode = "legacy"
      /\ \A b \in Attempts \ {a} : Weaker(att[b], att'[b])
  BY <1>3, <1>4, DroppedAll DEF IInv
<1>8. /\ BegunGoOn /\ \A q \in Procs : ~Working(q)
      /\ \A s \in SlotNames : ~InSlot(s, a)
  BY <1>1, <1>2, <1>7, Beginning
<1>9. procs'[p] = r /\ \A q \in Procs \ {p} : procs'[q] = procs[q] BY <1>6 DEF IInv, TypeOK
<1>10. \A q \in Procs \ {p} : ~Working(q)' BY <1>8, <1>9 DEF Working
<1>11. /\ slots'["relay"] = None /\ slots'["pending"] = None
       /\ \A s \in SlotNames : slots'[s] = None \/ slots'[s] = slots[s]
  BY <1>1 DEF IInv, TypeOK, SlotNames
<1>12. HInv'
  <2>1. OwnContinuation' BY <1>5, <1>9, <1>10 DEF OwnContinuation
  <2>2. ASSUME NEW s \in SlotNames, slots'[s] # None
        PROVE  att'[slots'[s].att].st # "unborn"
    <3>1. slots'[s] = slots[s] BY <1>11, <2>2
    <3>2. slots[s].att \in Attempts BY <2>2, <3>1 DEF IInv, TypeOK, Continuation
    <3> QED BY <1>8, <2>2, <3>1, <3>2 DEF HInv, BegunGoOn, BegunKept
  <2>3. \A s \in SlotNames : OwnSlot(s)' BY <1>1, <1>7, <1>11 DEF OwnSlot
  <2>4. HeldByCommand(a)'
    <3>1. ByProc(p, a)' BY <1>5, <1>9 DEF ByProc, Working
    <3>2. \A s \in SlotNames : ~InSlot(s, a)' BY <1>8, <1>11 DEF InSlot
    <3> QED BY <3>1, <3>2 DEF HeldByCommand
  <2>5. (\A b \in Attempts : Live(b) => HeldInSlot(b) \/ HeldByCommand(b))'
    BY <1>1, <2>4, CurrentHeld
  <2> QED BY <2>1, <2>2, <2>3, <2>5 DEF HInv
<1>13. CInv'
  <2>1. WorkConsent(p)'
    <3>1. Cmds["recognise"].mode = "legacy" BY DEF Cmds
    <3>2. approvals'[a] = 0 BY <1>1, <1>2 DEF CInv
    <3> QED BY <1>5, <1>7, <1>9, <3>1, <3>2 DEF WorkConsent
  <2>2. \A q \in Procs : WorkConsent(q)' BY <1>10, <2>1 DEF WorkConsent
  <2>3. \A s \in SlotNames : SlotConsent(s)' BY <1>2, <1>8, <1>11, SlotConsentKept
  <2> QED BY <1>2, <1>8, <2>2, <2>3, ConsentKept DEF CInv
<1> QED BY <1>12, <1>13

(* reserve_entry fills the entry slot of the new attempt and empties the others,
   or leaves nothing alive. *)
LEMMA ReserveHC ==
  ASSUME IInv, HInv, CInv, FencedOut', Reserve PROVE HInv' /\ CInv'
<1>1. PICK a \in Attempts :
        /\ att[a].st = "unborn"
        /\ current' = a
        /\ LET new == [att[a] EXCEPT !.st = "live", !.mode = "single", !.gen = root] IN
           \/ /\ att' = [b \in Attempts |-> Dropped(IF b = a THEN new ELSE att[b], b, InSlots)]
              /\ slots' = Reserved(a)
           \/ /\ att' = [att EXCEPT ![a] = Cancelled(new)]
              /\ UNCHANGED slots
  BY DEF Reserve
<1> DEFINE new == [att[a] EXCEPT !.st = "live", !.mode = "single", !.gen = root]
<1>2. /\ MayBegin /\ root # None /\ approvals' = approvals /\ rendered' = rendered
      /\ procs' = procs
  BY DEF Reserve
<1>3. new \in AttemptState /\ new.st = "live"
  <2>1. att[a] \in AttemptState /\ root \in Roots BY <1>2 DEF IInv, TypeOK
  <2> QED BY <2>1 DEF AttemptState, Modes
<1>4. \/ /\ att' = [b \in Attempts |-> Dropped(IF b = a THEN new ELSE att[b], b, InSlots)]
         /\ slots' = Reserved(a)
      \/ /\ att' = [att EXCEPT ![a] = Cancelled(new)]
         /\ UNCHANGED slots
  BY <1>1
<1> HIDE DEF new
<1>5. CASE /\ att' = [b \in Attempts |-> Dropped(IF b = a THEN new ELSE att[b], b, InSlots)]
           /\ slots' = Reserved(a)
  <2>1. att'[a].st = "live" /\ \A b \in Attempts \ {a} : Weaker(att[b], att'[b])
    BY <1>3, <1>5, DroppedAll DEF IInv
  <2>2. BegunGoOn /\ \A q \in Procs : ~Working(q) BY <1>1, <1>2, <2>1, Beginning
  <2>3. \A q \in Procs : ~Working(q)' BY <1>2, <2>2 DEF Working
  <2>4. PICK k : k = Reservation(a) OBVIOUS
  <2>5. k.att = a /\ k # None /\ k.phase = "entry"
    <3>1. k \in Continuation BY <2>4 DEF Reservation, Continuation, Phases
    <3> QED BY <2>4, <3>1, ContinuationAssumption DEF Reservation
  <2>6. slots'["entry"] = k /\ \A s \in SlotNames \ {"entry"} : slots'[s] = None
    BY <1>5, <2>4 DEF Reserved, SlotNames
  <2>7. HInv'
    <3>1. OwnContinuation' BY <2>3 DEF OwnContinuation
    <3>2. \A s \in SlotNames : slots'[s] # None => att'[slots'[s].att].st # "unborn"
      BY <2>1, <2>5, <2>6
    <3>3. \A s \in SlotNames : OwnSlot(s)' BY <1>1, <2>5, <2>6 DEF OwnSlot
    <3>4. HeldInSlot(a)'
      <4>1. /\ "entry" \in SlotNames /\ InSlot("entry", a)'
            /\ \A t \in SlotNames : InSlot(t, a)' => t = "entry"
        BY <2>5, <2>6 DEF InSlot, SlotNames
      <4>2. \A q \in Procs : ~ByProc(q, a)' BY <2>3 DEF ByProc
      <4> QED BY <4>1, <4>2 DEF HeldInSlot
    <3>5. (\A b \in Attempts : Live(b) => HeldInSlot(b) \/ HeldByCommand(b))'
      BY <1>1, <3>4, CurrentHeld
    <3> QED BY <3>1, <3>2, <3>3, <3>5 DEF HInv
  <2>8. CInv'
    <3>1. approvals'[a] = 0 BY <1>1, <1>2 DEF CInv
    <3>2. \A s \in SlotNames : SlotConsent(s)' BY <2>5, <2>6, <3>1 DEF SlotConsent
    <3>3. \A q \in Procs : WorkConsent(q)' BY <2>3 DEF WorkConsent
    <3> QED BY <1>2, <2>2, <3>2, <3>3, ConsentKept DEF CInv
  <2> QED BY <2>7, <2>8
<1>6. CASE att' = [att EXCEPT ![a] = Cancelled(new)] /\ slots' = slots
  <2>1. att'[a] = Cancelled(new) /\ \A b \in Attempts \ {a} : att'[b] = att[b]
    BY <1>6 DEF IInv, TypeOK
  <2>2. att'[a].st = "cancelled" BY <1>3, <2>1 DEF Cancelled, AttemptState
  <2>3. \A b \in Attempts \ {a} : Weaker(att[b], att'[b]) BY <2>1 DEF Weaker
  <2>4. /\ BegunGoOn /\ \A q \in Procs : ~Working(q)
        /\ \A b \in Attempts \ {a} : att'[b].st # "live"
    BY <1>1, <1>2, <2>2, <2>3, Beginning
  <2>5. \A q \in Procs : ~Working(q)' BY <1>2, <2>4 DEF Working
  <2>6. \A b \in Attempts : ~Live(b)' BY <2>2, <2>4 DEF Live
  <2>7. HInv'
    <3>1. OwnContinuation' BY <2>5 DEF OwnContinuation
    <3>2. \A s \in SlotNames : slots'[s] # None => att'[slots'[s].att].st # "unborn"
      <4>1. \A s \in SlotNames : slots[s] # None => slots[s].att \in Attempts
        BY DEF IInv, TypeOK, Continuation
      <4> QED BY <1>6, <2>4, <4>1 DEF HInv, BegunGoOn, BegunKept
    <3>3. \A s \in SlotNames : OwnSlot(s)' BY <1>1, <2>6 DEF OwnSlot, Live
    <3> QED BY <2>6, <3>1, <3>2, <3>3 DEF HInv
  <2>8. CInv'
    <3>1. \A s \in SlotNames : SlotConsent(s)' BY <1>2, <1>6, <2>4, SlotConsentKept
    <3>2. \A q \in Procs : WorkConsent(q)' BY <2>5 DEF WorkConsent
    <3> QED BY <1>2, <2>4, <3>1, <3>2, ConsentKept DEF CInv
  <2> QED BY <2>7, <2>8
<1> QED BY <1>4, <1>5, <1>6

-----------------------------------------------------------------------------
(* One holder and one approval, always *)

(* Initially nothing has begun. *)
LEMMA InitHC == Init => HInv /\ CInv
<1> SUFFICES ASSUME Init PROVE HInv /\ CInv OBVIOUS
<1>1. /\ \A p \in Procs : ~Working(p)
      /\ \A s \in SlotNames : slots[s] = None
      /\ \A a \in Attempts : ~Live(a) /\ approvals[a] = 0
  BY DEF Init, Working, Idle, Live
<1>2. HInv BY <1>1 DEF HInv, OwnContinuation, OwnSlot
<1>3. CInv BY <1>1 DEF CInv, ConsentOnce, SlotConsent, WorkConsent
<1> QED BY <1>2, <1>3

(* Every step keeps the holders and the consent. *)
LEMMA NextHC ==
  ASSUME IInv, HInv, CInv, [Next]_vars PROVE HInv' /\ CInv'
<1>0. FencedOut' BY NextIInv DEF IInv
<1>1. CASE Reserve BY <1>0, <1>1, ReserveHC
<1>2. ASSUME NEW p \in Procs,
             \/ Contact(p) \/ UnlockPreview(p) \/ PreviewRendered(p)
             \/ Link(p) \/ ContinueLink(p) \/ FinishLink(p)
             \/ RelayDecide(p) \/ PreliminaryDecide(p) \/ Compare(p)
             \/ FinalDecide(p) \/ FinishLegacy(p)
      PROVE  HInv' /\ CInv'
  <2>1. \E c \in CmdNames : Take(p, c)
    BY <1>2, CmdNamesAre
       DEF Contact, UnlockPreview, PreviewRendered, Link, ContinueLink, FinishLink,
           RelayDecide, PreliminaryDecide, Compare, FinalDecide, FinishLegacy
  <2> QED BY <1>0, <2>1, TakeHolders, TakeConsent
<1>3. ASSUME NEW p \in Procs,
             \/ Enter(p) \/ Exchange(p) \/ Approve(p) \/ Unlock(p) \/ Retain(p)
             \/ Sign(p) \/ FinishRefused(p) \/ Abandon(p)
      PROVE  HInv' /\ CInv'
  <2>1. Calm /\ rendered' = rendered /\ (approvals' = approvals \/ Approve(p))
    BY <1>3, CommandCalm
  <2>2. HInv' BY <2>1, CalmHolders
  <2>3. CASE approvals' = approvals BY <2>1, <2>2, <2>3, CalmConsent
  <2>4. CASE Approve(p) BY <2>2, <2>4, ApproveConsent
  <2> QED BY <2>1, <2>3, <2>4
<1>4. ASSUME NEW p \in Procs, Put(p) PROVE HInv' /\ CInv'
  BY <1>0, <1>4, PutHolders, PutConsent
<1>5. ASSUME NEW p \in Procs, Recognise(p) PROVE HInv' /\ CInv' BY <1>0, <1>5, RecogniseHC
<1>6. ASSUME Calm, approvals' = approvals, rendered' = rendered PROVE HInv' /\ CInv'
  BY <1>6, CalmHolders, CalmConsent
<1>7. ASSUME NEW p \in Procs, DropOperation(p) \/ RootBegin(p) \/ RootWrite(p) \/ RootEnd(p)
      PROVE  HInv' /\ CInv'
  BY <1>6, <1>7, DropCalm, EventCalm, OutsideCalm
<1>8. ASSUME NEW a \in Attempts, Watchdog(a) \/ Refuse(a) \/ ClockFault(a)
      PROVE  HInv' /\ CInv'
  BY <1>6, <1>8, CheckCalm
<1>9. CASE Cancel \/ Background \/ Foreground \/ Tick
  BY <1>6, <1>9, EventCalm, OutsideCalm
<1>10. CASE UNCHANGED vars
  <2>1. Calm
    BY <1>10, SameGoesOn DEF vars, Calm, AttemptsGoOn, BegunKept
  <2> QED BY <1>6, <1>10, <2>1 DEF vars
<1> QED
  BY <1>1, <1>2, <1>3, <1>4, <1>5, <1>7, <1>8, <1>9, <1>10 DEF Next, CommandStep

(* Holders and consent hold in every reachable state. *)
LEMMA HolderInvariance == Spec => [](IInv /\ HInv /\ CInv)
<1>1. IInv /\ HInv /\ CInv /\ [Next]_vars => (IInv /\ HInv /\ CInv)' BY NextIInv, NextHC
<1> QED BY <1>1, InitIInv, InitHC, PTL DEF Spec

(* However the commands race for the slots, with cancellations, dropped futures
   and refusals in between, a live attempt's continuation is in exactly one place
   and a command carries the one of the attempt it works for. *)
THEOREM ContinuationIsKept == Spec => []ContinuationKept
<1>1. ASSUME IInv, HInv PROVE ContinuationKept
  <2>1. ASSUME NEW a \in Attempts, Live(a) PROVE Cardinality(Holders(a)) = 1
    <3>1. CASE HeldInSlot(a)
      <4>1. PICK s \in SlotNames : Holders(a) = {s}
        BY <3>1 DEF HeldInSlot, Holders, InSlot, ByProc
      <4> QED BY <4>1, FS_Singleton
    <3>2. CASE HeldByCommand(a)
      <4>1. PICK p \in Procs : ByProc(p, a) BY <3>2 DEF HeldByCommand
      <4>2. \A q \in Procs : Working(q) => q = p
        BY <1>1, <4>1 DEF IInv, WorkerOK, ByProc
      <4>3. Holders(a) = {p} BY <3>2, <4>1, <4>2 DEF HeldByCommand, Holders, InSlot, ByProc
      <4> QED BY <4>3, FS_Singleton
    <3> QED BY <1>1, <2>1, <3>1, <3>2 DEF HInv
  <2> QED BY <1>1, <2>1 DEF ContinuationKept, OneHolder, HInv
<1> QED BY <1>1, HolderInvariance, PTL

(* The intent approval leaves the wallet at most once for an attempt, and for a
   single-link attempt only after its preview was painted. *)
THEOREM ConsentIsOnce == Spec => []ConsentOnce
<1>1. CInv => ConsentOnce BY DEF CInv
<1> QED BY <1>1, HolderInvariance, PTL
=============================================================================
