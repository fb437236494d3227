--------------------------- MODULE CeremonyProofs ---------------------------
(***************************************************************************)
(* TLAPS proofs about the ceremony, for any ceremonies, accounts, issuers  *)
(* and expiries, and whatever is lost, repeated, restored or rotated: it   *)
(* implements the agreement (RInv), no party hands the relay two           *)
(* successors of one object (ChainInv), a comparison rests on a status     *)
(* signed for its core (BackInv), and the types (TypeInv).                 *)
(***************************************************************************)
EXTENDS Ceremony, SequenceTheorems, FiniteSetTheorems, TLAPS

-----------------------------------------------------------------------------
(* The inductive invariant *)

TermsOf(core, did) == [core |-> core, did |-> did]
Both(t, ag) == t \in ag.wallet /\ t \in ag.browser

\* What a body in an object that begins with core stands for: the agreements of
\* the persons it passed, or the hub's decision.
BodyOK(b, core, ag, row) ==
  /\ b.kind = "preparation" => b.did \in Dids
  /\ b.kind \in Compared => TermsOf(core, b.did) \in ag.browser
  /\ b.kind = "final-approve" => Both(TermsOf(core, b.did), ag)
  /\ b.kind = "payload" => /\ Both(TermsOf(b.core, b.did), ag)
                           /\ b.confirmation = <<b.core, b.did>>
  /\ b.kind = "receipt" => row # None /\ b.status = row
Sound(o, ag, row) ==
  /\ o \in Seq(Range(o))
  /\ \A n \in DOMAIN o : BodyOK(o[n], o[1].core, ag, row)

\* A payload that may be staged: both persons agreed to what it confirms.
Confirmed(o, ag) == LET b == Last(o) IN
  Both(TermsOf(b.core, b.did), ag) /\ b.confirmation = <<b.core, b.did>>

IsAuth(b) == DOMAIN b = {"core", "preview", "payload"}

HubOK(h, ag) ==
  /\ DOMAIN h = {"prepared", "proven", "signed", "statuses", "account", "binding", "rooms",
                 "staged", "witnesses", "row", "closed", "profile"}
  /\ h.account \in Accounts /\ h.rooms \in Snapshots
  /\ h.prepared \subseteq Core /\ h.signed \subseteq Core
  /\ \A f \in h.staged : f.facts.payload # None => Confirmed(f.facts.payload, ag)
  /\ \A w \in h.witnesses : Both(TermsOf(w.core, w.did), ag)
  /\ h.closed \in BOOLEAN
  /\ h.closed => h.row = None

WireOK(w, ag, row) == \A o \in w : o # <<>> /\ Sound(o, ag, row)

\* From the first object on there is an authority to speak for it.
AuthOK(auth, head, ag) == auth # None \/ head # <<>> =>
  /\ IsAuth(auth)
  /\ auth.core \in Core /\ auth.preview \in Dids \cup {None}
  /\ auth.payload # None => Confirmed(auth.payload, ag)
SessionOK(s, ag, row) == s # None =>
  /\ DOMAIN s = {"head", "channel", "pend", "transcript", "prepared", "kid", "status", "auth", "last"}
  /\ Sound(s.head, ag, row)
  /\ s.last # None => s.last \in Seq(Range(s.last)) /\ s.head # <<>>
  /\ s.pend \in {None, "established", "received", "send"}
  /\ s.pend \in {"send", "received"} => s.head # <<>>
  /\ s.prepared # None => s.prepared \in Core
  /\ AuthOK(s.auth, s.head, ag)
DiskOK(d, ag, row) ==
  /\ DOMAIN d = {"ckpt", "active"}
  /\ \A c \in d.ckpt : Sound(c.head, ag, row) /\ AuthOK(c.auth, c.head, ag)
  /\ d.active # None => d.active = row

WalletOK(w, ag, row) ==
  /\ DOMAIN w = {"live", "head", "auth", "held", "done", "selection"}
  /\ Sound(w.head, ag, row)
  /\ w.auth # None => IsAuth(w.auth)
  /\ w.auth # None /\ w.head # <<>> /\ Kind(w.head) \in Compared \cup {"final-approve"} =>
       Last(w.head).did = w.auth.preview
  /\ w.head # <<>> /\ Kind(w.head) = "payload" => w.held = w.head

AgreedOK(ag) == DOMAIN ag = {"wallet", "browser"} /\ ag.wallet \subseteq Terms /\ ag.browser \subseteq Terms

\* The outcome a device has learned is the hub's.
Decided == IF hub.closed THEN Refused ELSE hub.row
DoneOK == wallet.done # None => wallet.done = Decided

RInv == /\ HubOK(hub, agreed)
        /\ WireOK(wire, agreed, hub.row)
        /\ SessionOK(session, agreed, hub.row)
        /\ DiskOK(disk, agreed, hub.row)
        /\ WalletOK(wallet, agreed, hub.row)
        /\ AgreedOK(agreed)
        /\ DoneOK

-----------------------------------------------------------------------------
(* Objects as sequences *)

(* A sequence over any set is one over its own elements. *)
LEMMA SelfSeq ==
  ASSUME NEW S, NEW s \in Seq(S)
  PROVE  s \in Seq(Range(s)) /\ DOMAIN s = 1..Len(s) /\ Len(s) \in Nat
BY LenProperties, SeqOfRange

(* What appending a body to an object leaves and adds. *)
LEMMA AppendIs ==
  ASSUME NEW s, s \in Seq(Range(s)), NEW b
  PROVE  LET o == Append(s, b) IN
         /\ o \in Seq(Range(o)) /\ o # <<>> /\ Front(o) = s /\ Last(o) = b
         /\ DOMAIN o = 1..(Len(s) + 1) /\ Len(s) \in Nat /\ DOMAIN s = 1..Len(s)
         /\ \A n \in 1..Len(s) : o[n] = s[n]
         /\ o[Len(s) + 1] = b
<1> DEFINE S == Range(s) \cup {b}
           o == Append(s, b)
<1>1. s \in Seq(S) /\ b \in S BY SeqMonotonic
<1>2. /\ o \in Seq(S) /\ o # <<>> /\ Len(o) = Len(s) + 1
      /\ \A n \in 1..Len(s) : o[n] = s[n]
      /\ o[Len(s) + 1] = b
  BY <1>1, AppendProperties
<1>3. Len(s) \in Nat /\ DOMAIN s = 1..Len(s) BY SelfSeq
<1>4. o \in Seq(Range(o)) /\ DOMAIN o = 1..(Len(s) + 1) BY <1>2, SelfSeq
<1>5. Last(o) = b BY <1>2 DEF Last
<1>6. Front(o) = s
  <2> DEFINE t == SubSeq(o, 1, Len(s))
  <2>1. \A n \in 1..Len(s) : o[n] \in S BY <1>1, <1>2, ElementOfSeq
  <2>2. 1 \in Int /\ Len(s) \in Int BY <1>3
  <2>3. /\ t \in Seq(S)
        /\ Len(t) = IF 1 <= Len(s) THEN Len(s) - 1 + 1 ELSE 0
        /\ \A n \in 1..(Len(s) - 1 + 1) : t[n] = o[1 + n - 1]
    BY <2>1, <2>2, SubSeqProperties
  <2>4. Len(t) = Len(s) /\ \A n \in 1..Len(t) : t[n] = s[n] BY <1>2, <1>3, <2>3
  <2>5. t = s BY <1>1, <2>3, <2>4, SeqEqual
  <2> QED BY <1>2, <1>3, <2>5 DEF Front
<1> QED BY <1>2, <1>3, <1>4, <1>5, <1>6

(* A body that stands for what it says makes a sound object of a sound one. *)
LEMMA SoundAppend ==
  ASSUME NEW ag, NEW row, NEW s, Sound(s, ag, row), s # <<>>,
         NEW b, BodyOK(b, s[1].core, ag, row)
  PROVE  Sound(Append(s, b), ag, row)
<1> DEFINE o == Append(s, b)
<1>1. /\ o \in Seq(Range(o))
      /\ DOMAIN o = 1..(Len(s) + 1) /\ Len(s) \in Nat /\ DOMAIN s = 1..Len(s)
      /\ \A n \in 1..Len(s) : o[n] = s[n]
      /\ o[Len(s) + 1] = b
  BY AppendIs DEF Sound
<1>2. Len(s) # 0 BY EmptySeq DEF Sound
<1>3. o[1] = s[1] BY <1>1, <1>2
<1>4. ASSUME NEW n \in DOMAIN o PROVE BodyOK(o[n], o[1].core, ag, row)
  <2>1. CASE n \in 1..Len(s) BY <1>1, <1>3, <2>1 DEF Sound
  <2>2. CASE n = Len(s) + 1 BY <1>1, <1>3, <2>2
  <2> QED BY <1>1, <2>1, <2>2
<1> QED BY <1>1, <1>4 DEF Sound

(* The beginning of a sound object is sound. *)
LEMMA SoundPrefix ==
  ASSUME NEW ag, NEW row, NEW o, Sound(o, ag, row), NEW n \in 1..Len(o)
  PROVE  LET t == SubSeq(o, 1, n) IN
         /\ Sound(t, ag, row) /\ t # <<>> /\ t \in Seq(Range(t)) /\ o # <<>>
<1> DEFINE t == SubSeq(o, 1, n)
<1>1. Len(o) \in Nat /\ DOMAIN o = 1..Len(o) BY SelfSeq DEF Sound
<1>2. n \in Int /\ 1 \in Int /\ 1 <= n BY <1>1
<1>3. \A k \in 1..n : o[k] \in Range(o) BY <1>1 DEF Range
<1>4. /\ t \in Seq(Range(o)) /\ Len(t) = n
      /\ \A k \in 1..n : t[k] = o[k]
  BY <1>2, <1>3, SubSeqProperties
<1>5. t \in Seq(Range(t)) /\ DOMAIN t = 1..n BY <1>4, SelfSeq
<1>6. t # <<>> BY <1>2, <1>4, EmptySeq
<1>7. o # <<>> BY <1>1, EmptySeq
<1>8. \A k \in DOMAIN t : BodyOK(t[k], t[1].core, ag, row) BY <1>1, <1>2, <1>4, <1>5 DEF Sound
<1> QED BY <1>5, <1>6, <1>7, <1>8 DEF Sound

(* The last body of a sound object is one of its bodies. *)
LEMMA SoundLast ==
  ASSUME NEW ag, NEW row, NEW o, Sound(o, ag, row), o # <<>>
  PROVE  BodyOK(Last(o), o[1].core, ag, row)
<1>1. Len(o) \in Nat \ {0} /\ DOMAIN o = 1..Len(o) BY SelfSeq, EmptySeq DEF Sound
<1> QED BY <1>1 DEF Sound, Last

(* Soundness survives more agreement and the hub's decision. *)
LEMMA SoundGrows ==
  ASSUME NEW ag, NEW row, NEW ag2, NEW row2, NEW o, Sound(o, ag, row),
         ag.wallet \subseteq ag2.wallet, ag.browser \subseteq ag2.browser, row \in {None, row2}
  PROVE  Sound(o, ag2, row2)
BY DEF Sound, BodyOK, Both

(* A nonempty set of positions has a greatest one. *)
LEMMA GreatestPosition ==
  ASSUME NEW L \in Nat, NEW T \in SUBSET (1..L), T # {}
  PROVE  \E n \in T : \A k \in T : k <= n
<1> DEFINE After(n) == (n + 1)..L
           sets == {After(n) : n \in T}
<1>1. \A n \in T : After(n) \subseteq 1..L /\ IsFiniteSet(After(n)) BY FS_Interval
<1>2. sets \subseteq FiniteSubsetsOf(1..L) /\ sets # {} BY <1>1 DEF FiniteSubsetsOf
<1>3. PICK m \in sets : \A s \in sets : ~(<<s, m>> \in StrictSubsetOrdering(1..L))
  <2> HIDE DEF sets
  <2> QED BY <1>2, FS_StrictSubsetOrderingWellFounded, WFMin
<1>4. PICK n \in T : m = After(n) OBVIOUS
<1>5. ASSUME NEW k \in T, ~(k <= n) PROVE FALSE
  <2>1. n \in Nat /\ k \in Nat /\ n < k /\ k <= L BY <1>5
  <2>2. After(k) \subseteq After(n) /\ k \in After(n) /\ k \notin After(k) BY <2>1
  <2>3. After(k) \in SUBSET (1..L) /\ After(n) \in SUBSET (1..L) BY <1>1
  <2> HIDE DEF After
  <2>4. <<After(k), After(n)>> \in StrictSubsetOrdering(1..L)
    BY <2>2, <2>3 DEF StrictSubsetOrdering
  <2> QED BY <1>3, <1>4, <2>4
<1> QED BY <1>5

(* The peer's last object in a chain is None or one of its beginnings. *)
LEMMA LastReceivedIs ==
  ASSUME NEW head, head \in Seq(Range(head)), LastReceived(head) # None
  PROVE  \E n \in 1..Len(head) : LastReceived(head) = SubSeq(head, 1, n)
<1> DEFINE theirs == {n \in 1..Len(head) : head[n].kind \in ByWallet}
<1>1. Len(head) \in Nat BY SelfSeq
<1>2. theirs # {} BY DEF LastReceived
<1>3. \E n \in theirs : \A k \in theirs : k <= n BY <1>1, <1>2, GreatestPosition
<1>4. (CHOOSE n \in theirs : \A k \in theirs : k <= n) \in theirs BY <1>3
<1> QED BY <1>2, <1>4 DEF LastReceived

-----------------------------------------------------------------------------
(* What a step leaves alone stays as good as it was, as agreements only grow
   and the hub decides at most once. *)
Grows == /\ agreed.wallet \subseteq agreed'.wallet /\ agreed.browser \subseteq agreed'.browser
         /\ hub.row \in {None, hub'.row}

LEMMA StillOK ==
  ASSUME RInv, Grows
  PROVE  /\ HubOK(hub, agreed')
         /\ WireOK(wire, agreed', hub'.row)
         /\ SessionOK(session, agreed', hub'.row)
         /\ DiskOK(disk, agreed', hub'.row)
         /\ WalletOK(wallet, agreed', hub'.row)
<1> DEFINE good(o) == Sound(o, agreed, hub.row) => Sound(o, agreed', hub'.row)
<1>1. \A o : good(o) BY SoundGrows DEF Grows
<1>2. \A o : Confirmed(o, agreed) => Confirmed(o, agreed') BY DEF Grows, Confirmed, Both
<1>3. \A auth, head : AuthOK(auth, head, agreed) => AuthOK(auth, head, agreed')
  BY <1>2 DEF AuthOK
<1>4. HubOK(hub, agreed') BY <1>2 DEF RInv, HubOK, Grows, Both
<1>5. WireOK(wire, agreed', hub'.row) BY <1>1 DEF RInv, WireOK
<1>6. SessionOK(session, agreed', hub'.row) BY <1>1, <1>3 DEF RInv, SessionOK
<1>7. DiskOK(disk, agreed', hub'.row) BY <1>1, <1>3 DEF RInv, DiskOK, Grows
<1>8. WalletOK(wallet, agreed', hub'.row) BY <1>1 DEF RInv, WalletOK
<1> QED BY <1>4, <1>5, <1>6, <1>7, <1>8

\* The step decides nothing and teaches no device anything.
Silent == /\ UNCHANGED agreed
          /\ hub'.row = hub.row /\ hub'.closed = hub.closed
          /\ wallet'.done = wallet.done /\ disk'.active = disk.active

(* A silent step is a stutter of the agreement. *)
LEMMA SilentStutters ==
  ASSUME Silent
  PROVE  Grows /\ (DoneOK => DoneOK') /\ UNCHANGED A!vars
BY DEF Silent, Grows, DoneOK, Decided, A!vars, OutcomeOf

-----------------------------------------------------------------------------
(* The hub *)

(* Offers, statuses, bindings, rooms, witnesses and keys decide nothing. *)
LEMMA HubQuiet ==
  ASSUME RInv,
         \/ HubPrepare \/ Elsewhere \/ HubRotate
         \/ \E core \in hub.prepared : HubFinalizeOffer(core)
         \/ \E f \in hub.staged : HubVerify(f)
  PROVE  RInv' /\ UNCHANGED A!vars
<1>1. UNCHANGED <<session, disk, wallet, wire, agreed>>
  BY DEF HubPrepare, Elsewhere, HubRotate, HubFinalizeOffer, HubVerify
<1>2. HubOK(hub, agreed) BY DEF RInv
<1>3. HubOK(hub', agreed) /\ hub'.row = hub.row /\ hub'.closed = hub.closed
  <2>1. CASE HubPrepare
    <3>1. PrepareOfferCore(This, hub.account, hub.rooms) \in Core
      BY <1>2, CeremonyAssumption DEF HubOK, PrepareOfferCore, Core
    <3> QED BY <1>2, <2>1, <3>1 DEF HubPrepare, HubOK
  <2>2. CASE Elsewhere
    <3>1. CASE \E r \in Snapshots : hub' = [hub EXCEPT !.rooms = r] BY <1>2, <3>1 DEF HubOK
    <3>2. CASE \E d \in Dids : hub' = [hub EXCEPT !.binding = d] BY <1>2, <3>2 DEF HubOK
    <3> QED BY <2>2, <3>1, <3>2 DEF Elsewhere
  <2>3. CASE HubRotate BY <1>2, <2>3 DEF HubRotate, HubOK
  <2>4. ASSUME NEW core \in hub.prepared, HubFinalizeOffer(core)
        PROVE  HubOK(hub', agreed) /\ hub'.row = hub.row /\ hub'.closed = hub.closed
    BY <1>2, <2>4 DEF HubFinalizeOffer, HubOK
  <2>5. ASSUME NEW f \in hub.staged, HubVerify(f)
        PROVE  HubOK(hub', agreed) /\ hub'.row = hub.row /\ hub'.closed = hub.closed
    <3>1. ValidAcceptance(f) BY <2>5 DEF HubVerify
    <3>2. Confirmed(f.facts.payload, agreed) BY <1>2, <3>1 DEF HubOK, ValidAcceptance
    <3>3. Both(TermsOf(f.facts.core, f.facts.did), agreed)
      BY <3>1, <3>2 DEF ValidAcceptance, Confirmed, ConfirmationOf
    <3>4. /\ SignAcceptance(f).core = f.facts.core
          /\ SignAcceptance(f).did = f.facts.did
      BY DEF SignAcceptance, FinalStatus
    <3>5. hub' = [hub EXCEPT !.witnesses = @ \cup {SignAcceptance(f)}]
      BY <2>5 DEF HubVerify
    <3> QED BY <1>2, <3>3, <3>4, <3>5 DEF HubOK
  <2> QED BY <2>1, <2>2, <2>3, <2>4, <2>5
<1>4. Silent BY <1>1, <1>3 DEF Silent
<1> QED BY <1>1, <1>3, <1>4, SilentStutters, StillOK DEF RInv

(* The one acceptance: what the witness names both persons agreed to. *)
LEMMA HubAccepts ==
  ASSUME RInv, NEW w \in hub.witnesses, HubAccept(w)
  PROVE  RInv' /\ [A!Next]_(A!vars)
<1>1. /\ hub.row = None /\ hub.closed = FALSE
      /\ hub' = [hub EXCEPT !.row = w, !.binding = w.did]
      /\ UNCHANGED <<session, disk, wallet, wire, agreed>>
  BY DEF HubAccept, AcceptanceFacts, RInv, HubOK
<1>2. hub'.row = w /\ hub'.closed = FALSE BY <1>1 DEF RInv, HubOK
<1>3. Grows BY <1>1, <1>2 DEF Grows
<1>4. HubOK(hub', agreed') BY <1>1, <1>2 DEF RInv, HubOK
<1>5. wallet.done = None /\ disk.active = None
  BY <1>1 DEF RInv, DoneOK, Decided, DiskOK
<1>6. RInv' BY <1>1, <1>3, <1>4, <1>5, StillOK DEF RInv, DoneOK
<1>7. [A!Next]_(A!vars)
  <2> DEFINE t == TermsOf(w.core, w.did)
  <2>1. Both(t, agreed) /\ AgreedOK(agreed) BY DEF RInv, HubOK
  <2>2. t \in Terms /\ \A p \in {"wallet", "browser"} : t \in agreed[p]
    BY <2>1 DEF Both, AgreedOK
  <2>3. CASE w \in {None, Refused}
    <3>1. OutcomeOf(w) = w /\ OutcomeOf(None) = None BY <2>3 DEF OutcomeOf
    <3>2. CASE w = None BY <1>1, <1>2, <3>2 DEF A!vars
    <3>3. CASE w = Refused BY <1>1, <1>2, <3>1, <3>3 DEF A!Next, A!Refuse
    <3> QED BY <2>3, <3>2, <3>3
  <2>4. CASE w \notin {None, Refused}
    <3>1. OutcomeOf(w) = t /\ OutcomeOf(None) = None BY <2>4 DEF OutcomeOf, TermsOf
    <3>2. A!Accept(t) BY <1>1, <1>2, <2>2, <3>1 DEF A!Accept
    <3> QED BY <2>2, <3>2 DEF A!Next
  <2> QED BY <2>3, <2>4
<1> QED BY <1>6, <1>7

(* A request that finds nothing decides against. *)
LEMMA HubFences ==
  ASSUME RInv, HubFence
  PROVE  RInv' /\ [A!Next]_(A!vars)
<1>1. /\ hub.row = None /\ hub.closed = FALSE
      /\ hub' = [hub EXCEPT !.closed = TRUE]
      /\ UNCHANGED <<session, disk, wallet, wire, agreed>>
  BY DEF HubFence, RInv, HubOK
<1>2. hub'.row = None /\ hub'.closed = TRUE BY <1>1 DEF RInv, HubOK
<1>3. Grows BY <1>1, <1>2 DEF Grows
<1>4. HubOK(hub', agreed') BY <1>1, <1>2 DEF RInv, HubOK
<1>5. wallet.done = None BY <1>1 DEF RInv, DoneOK, Decided
<1>6. RInv' BY <1>1, <1>3, <1>4, <1>5, StillOK DEF RInv, DoneOK
<1>7. OutcomeOf(None) = None BY DEF OutcomeOf
<1>8. A!Refuse BY <1>1, <1>2, <1>7 DEF A!Refuse
<1> QED BY <1>6, <1>8 DEF A!Next

-----------------------------------------------------------------------------
(* The browser *)

(* A step that only puts a good session in place. *)
LEMMA SessionQuiet ==
  ASSUME RInv, SessionOK(session', agreed, hub.row), UNCHANGED <<hub, disk, wallet, wire, agreed>>
  PROVE  RInv' /\ UNCHANGED A!vars
<1>1. Silent BY DEF Silent
<1> QED BY <1>1, SilentStutters, StillOK DEF RInv

(* Starting, connecting and stopping. *)
LEMMA SessionStarts ==
  ASSUME RInv, New \/ Establish \/ StopBrowser
  PROVE  RInv' /\ UNCHANGED A!vars
<1>1. UNCHANGED <<hub, disk, wallet, wire, agreed>> BY DEF New, Establish, StopBrowser
<1>2. SessionOK(session, agreed, hub.row) BY DEF RInv
<1>3. CASE New
  <2>1. <<>> \in Seq(Range(<<>>)) /\ DOMAIN <<>> = {} BY SelfSeq, EmptySeq
  <2>2. Sound(<<>>, agreed, hub.row) BY <2>1 DEF Sound
  <2>3. SessionOK(FreshSession, agreed, hub.row)
    BY <2>2, CeremonyAssumption DEF SessionOK, FreshSession, Fresh, AuthOK
  <2> QED BY <1>1, <1>3, <2>3, SessionQuiet DEF New
<1>4. CASE Establish
  <2>1. SessionOK([session EXCEPT !.channel = TRUE, !.pend = "established"], agreed, hub.row)
    BY <1>2, <1>4 DEF Establish, SessionOK
  <2> QED BY <1>1, <1>4, <2>1, SessionQuiet DEF Establish
<1>5. CASE StopBrowser
  <2>1. SessionOK(None, agreed, hub.row) BY DEF SessionOK
  <2> QED BY <1>1, <1>5, <2>1, SessionQuiet DEF StopBrowser
<1> QED BY <1>3, <1>4, <1>5

(* The possession proof goes to the hub; the staged command goes there too, and
   what it carries was retained from a sound payload. *)
LEMMA BrowserToHub ==
  ASSUME RInv, Stage \/ \E core \in hub.prepared : DevicePossession(core)
  PROVE  RInv' /\ UNCHANGED A!vars
<1>1. UNCHANGED <<disk, wallet, wire, agreed>> /\ session # None BY DEF Stage, DevicePossession
<1>2. HubOK(hub, agreed) /\ SessionOK(session, agreed, hub.row) BY DEF RInv
<1>3. /\ HubOK(hub', agreed) /\ SessionOK(session', agreed, hub.row)
      /\ hub'.row = hub.row /\ hub'.closed = hub.closed
  <2>1. CASE Stage
    <3>1. /\ hub' = [hub EXCEPT !.staged = @ \cup {Finalization(session.auth)}]
          /\ session' = session /\ session.auth.payload # None
      BY <2>1 DEF Stage
    <3>2. session.last # None BY <2>1 DEF Stage, Holds
    <3>3. Confirmed(session.auth.payload, agreed)
      BY <1>1, <1>2, <3>1, <3>2 DEF SessionOK, AuthOK
    <3>4. Finalization(session.auth).facts.payload = session.auth.payload
      BY DEF Finalization, StagingInput
    <3> QED BY <1>2, <3>1, <3>3, <3>4 DEF HubOK
  <2>2. ASSUME NEW core \in hub.prepared, DevicePossession(core)
        PROVE  /\ HubOK(hub', agreed) /\ SessionOK(session', agreed, hub.row)
               /\ hub'.row = hub.row /\ hub'.closed = hub.closed
    <3>1. /\ session' = [session EXCEPT !.prepared = core]
          /\ hub' = [hub EXCEPT !.proven = @ \cup {core}]
      BY <2>2 DEF DevicePossession
    <3>2. core \in Core BY <1>2 DEF HubOK
    <3>3. SessionOK(session', agreed, hub.row) BY <1>1, <1>2, <3>1, <3>2 DEF SessionOK
    <3> QED BY <1>2, <3>1, <3>3 DEF HubOK
  <2> QED BY <2>1, <2>2
<1>4. Silent BY <1>1, <1>3 DEF Silent
<1> QED BY <1>1, <1>3, <1>4, SilentStutters, StillOK DEF RInv

(* Connected, offered: the offer's core is one the hub signed. *)
LEMMA PrepareOfferKeeps ==
  ASSUME RInv, NEW core \in hub.signed, NEW status \in hub.statuses,
         PrepareOffer(core, status) \/ RestoreContext(core, status)
  PROVE  RInv' /\ UNCHANGED A!vars
<1>1. /\ session # None /\ SessionOK(session, agreed, hub.row) /\ core \in Core
      /\ UNCHANGED <<hub, disk, wallet, wire, agreed>>
  BY DEF RInv, HubOK, PrepareOffer, RestoreContext
<1>2. CASE PrepareOffer(core, status)
  <2> DEFINE o == OfferObject(core)
  <2>1. session' = [session EXCEPT !.auth = Bind(core), !.kid = TRUE, !.status = status,
                                   !.head = o, !.pend = "send"]
    BY <1>2 DEF PrepareOffer
  <2>2. o \in Seq({[kind |-> "offer", core |-> core]}) /\ o # <<>> BY DEF OfferObject
  <2>3. o \in Seq(Range(o)) BY <2>2, SelfSeq
  <2>4. DOMAIN o = {1} /\ o[1].kind = "offer" BY DEF OfferObject
  <2>5. Sound(o, agreed, hub.row) BY <2>3, <2>4 DEF Sound, BodyOK, Compared
  <2>6. AuthOK(Bind(core), o, agreed) BY <1>1 DEF AuthOK, IsAuth, Bind
  <2> HIDE DEF o
  <2>7. SessionOK(session', agreed, hub.row) BY <1>1, <2>1, <2>2, <2>5, <2>6 DEF SessionOK
  <2> QED BY <1>1, <2>7, SessionQuiet
<1>3. CASE RestoreContext(core, status)
  <2>1. session' = [session EXCEPT !.prepared = core, !.kid = TRUE, !.status = status]
    BY <1>3 DEF RestoreContext
  <2>2. SessionOK(session', agreed, hub.row) BY <1>1, <2>1 DEF SessionOK
  <2> QED BY <1>1, <2>2, SessionQuiet
<1> QED BY <1>2, <1>3

(* What verifying a sound object leaves in the authority is good. *)
LEMMA RetainKeeps ==
  ASSUME NEW ag, NEW row, NEW o, Sound(o, ag, row), o # <<>>,
         NEW auth, AuthOK(auth, o, ag)
  PROVE  AuthOK(Retain(auth, o), o, ag)
<1>1. BodyOK(Last(o), o[1].core, ag, row) BY SoundLast
<1>2. /\ IsAuth(auth) /\ auth.core \in Core /\ auth.preview \in Dids \cup {None}
      /\ auth.payload # None => Confirmed(auth.payload, ag)
  BY DEF AuthOK
<1>3. CASE Kind(o) = "preparation"
  <2>1. Last(o).did \in Dids BY <1>1, <1>3 DEF BodyOK, Kind
  <2>2. Retain(auth, o) = [auth EXCEPT !.preview = Last(o).did] BY <1>3 DEF Retain
  <2> QED BY <1>2, <2>1, <2>2 DEF AuthOK, IsAuth
<1>4. CASE Kind(o) = "payload"
  <2>1. Confirmed(o, ag) BY <1>1, <1>4 DEF BodyOK, Kind, Confirmed
  <2>2. Retain(auth, o) = [auth EXCEPT !.payload = o] BY <1>4 DEF Retain
  <2> QED BY <1>2, <2>1, <2>2 DEF AuthOK, IsAuth
<1>5. CASE Kind(o) \notin {"preparation", "payload"}
  <2>1. Retain(auth, o) = auth BY <1>5 DEF Retain
  <2> QED BY <2>1
<1> QED BY <1>3, <1>4, <1>5

(* A body the wallet sent is received. *)
LEMMA BrowserReceiveKeeps ==
  ASSUME RInv, NEW o \in wire, BrowserReceive(o)
  PROVE  RInv' /\ UNCHANGED A!vars
<1>1. /\ session # None /\ SessionOK(session, agreed, hub.row) /\ session.auth # None
      /\ Sound(o, agreed, hub.row) /\ o # <<>>
      /\ UNCHANGED <<hub, disk, wallet, wire, agreed>>
  BY DEF RInv, WireOK, BrowserReceive, VerifyBody
<1>2. session' = [session EXCEPT !.head = o, !.pend = "received",
                                 !.auth = Retain(session.auth, o)]
  BY DEF BrowserReceive
<1>3. AuthOK(session.auth, o, agreed) BY <1>1 DEF SessionOK, AuthOK
<1>4. AuthOK(Retain(session.auth, o), o, agreed) BY <1>1, <1>3, RetainKeeps
<1>5. SessionOK(session', agreed, hub.row) BY <1>1, <1>2, <1>4 DEF SessionOK
<1> QED BY <1>1, <1>5, SessionQuiet

(* The endpoint takes an object built on the last one received: that is its head. *)
LEMMA SealsHead ==
  ASSUME RInv, session # None, session.last # None, NEW b, Seals(Append(session.last, b)),
         NEW ag, Sound(session.head, ag, hub.row), AuthOK(session.auth, session.head, ag),
         BodyOK(b, session.head[1].core, ag, hub.row)
  PROVE  /\ session.last = session.head
         /\ SessionOK([session EXCEPT !.head = Append(session.last, b), !.pend = "send"], ag, hub.row)
<1> DEFINE o == Append(session.last, b)
<1>1. /\ SessionOK(session, agreed, hub.row) BY DEF RInv
<1>2. session.last \in Seq(Range(session.last)) /\ session.head # <<>> BY <1>1 DEF SessionOK
<1>3. Front(o) = session.last /\ o # <<>> BY <1>2, AppendIs
<1>4. session.last = session.head BY <1>3 DEF Seals
<1>5. Sound(o, ag, hub.row) BY <1>2, <1>4, SoundAppend
<1>6. AuthOK(session.auth, o, ag) BY <1>2 DEF AuthOK
<1> HIDE DEF o
<1>7. SessionOK([session EXCEPT !.head = o, !.pend = "send"], ag, hub.row)
  BY <1>1, <1>2, <1>3, <1>5, <1>6 DEF SessionOK
<1> QED BY <1>4, <1>7 DEF o

(* The person compared the fingerprints: the agreement is recorded as the
   comparison is sealed. *)
LEMMA PrepareComparisonKeeps ==
  ASSUME RInv, PrepareComparison
  PROVE  RInv' /\ [A!Next]_(A!vars)
<1> DEFINE b == Comparison(session.auth, session.status)
           t == TermsOf(session.auth.core, session.auth.preview)
<1>1. /\ session # None /\ session.last # None /\ session.auth.preview # None
      /\ RequirePredecessor(session.auth, session.last, {"preparation"})
      /\ Seals(Append(session.last, b))
      /\ session' = [session EXCEPT !.head = Append(session.last, b), !.pend = "send"]
      /\ agreed' = [agreed EXCEPT !.browser = @ \cup {t}]
      /\ UNCHANGED <<hub, disk, wallet, inquiry, wire>>
  BY DEF PrepareComparison, PreparationShown, Holds, TermsOf
<1>2. SessionOK(session, agreed, hub.row) /\ AgreedOK(agreed) BY DEF RInv
<1>3. session.head # <<>> /\ AuthOK(session.auth, session.head, agreed)
  BY <1>1, <1>2 DEF SessionOK
<1>4. t \in Terms BY <1>1, <1>3 DEF AuthOK, Terms, TermsOf
<1>5. AgreedOK(agreed') /\ agreed'.browser = agreed.browser \cup {t} /\ agreed'.wallet = agreed.wallet
  BY <1>1, <1>2, <1>4 DEF AgreedOK
<1>6. Grows BY <1>1, <1>5 DEF Grows
<1>7. SessionOK(session, agreed', hub.row) BY <1>1, <1>6, StillOK
<1>8. session.last = session.head
  <2>1. session.last \in Seq(Range(session.last)) BY <1>1, <1>2 DEF SessionOK
  <2> QED BY <1>1, <2>1, AppendIs DEF Seals
<1>9. BodyOK(b, session.head[1].core, agreed', hub.row)
  <2>1. session.head[1].core = session.auth.core BY <1>1, <1>8 DEF RequirePredecessor
  <2>2. b.kind \in Compared \cup {"refused"} /\ b.did = session.auth.preview
    BY DEF Comparison, ComparisonKind, Compared
  <2> QED BY <1>5, <2>1, <2>2 DEF BodyOK, Compared
<1>10. SessionOK(session', agreed', hub.row)
  BY <1>1, <1>3, <1>7, <1>9, SealsHead DEF SessionOK
<1>11. RInv' BY <1>1, <1>5, <1>6, <1>10, StillOK DEF RInv, DoneOK, Decided
<1>12. A!Consent("browser", t) BY <1>1, <1>2 DEF A!Consent, AgreedOK, OutcomeOf
<1> QED BY <1>4, <1>11, <1>12 DEF A!Next

(* The receipt carries the activated status, which is the hub's. *)
LEMMA PrepareReceiptKeeps ==
  ASSUME RInv, PrepareReceipt
  PROVE  RInv' /\ UNCHANGED A!vars
<1> DEFINE b == Receipt(disk.active)
<1>1. /\ session # None /\ session.last # None /\ disk.active # None
      /\ Seals(Append(session.last, b))
      /\ session' = [session EXCEPT !.head = Append(session.last, b), !.pend = "send"]
      /\ UNCHANGED <<hub, disk, wallet, wire, agreed>>
  BY DEF PrepareReceipt, VerifyFinalStatus, Holds
<1>2. SessionOK(session, agreed, hub.row) /\ DiskOK(disk, agreed, hub.row) BY DEF RInv
<1>3. Sound(session.head, agreed, hub.row) /\ AuthOK(session.auth, session.head, agreed)
  BY <1>1, <1>2 DEF SessionOK
<1>4. hub.row # None /\ b.kind = "receipt" /\ b.status = hub.row
  BY <1>1, <1>2 DEF DiskOK, Receipt
<1>5. BodyOK(b, session.head[1].core, agreed, hub.row) BY <1>4 DEF BodyOK, Compared
<1>6. SessionOK(session', agreed, hub.row) BY <1>1, <1>3, <1>5, SealsHead
<1> QED BY <1>1, <1>6, SessionQuiet

(* The browser learns the hub's status, live or from its checkpoint. *)
LEMMA BrowserLearns ==
  ASSUME RInv, Activate \/ \E core \in hub.signed : CloseFromDisk(core)
  PROVE  RInv' /\ [A!Next]_(A!vars)
<1>1. /\ hub.row # None /\ disk.active = None
      /\ disk' = [disk EXCEPT !.active = hub.row]
      /\ UNCHANGED <<hub, session, wallet, wire, agreed>>
  BY DEF Activate, CloseFromDisk
<1>2. DiskOK(disk', agreed, hub.row) /\ disk'.active = hub.row
  BY <1>1 DEF RInv, DiskOK
<1>3. RInv' BY <1>1, <1>2 DEF RInv, DoneOK, Decided
<1>4. hub.closed = FALSE BY <1>1 DEF RInv, HubOK
<1>5. OutcomeOf(None) = None BY DEF OutcomeOf
<1>6. [A!Next]_(A!vars)
  <2>1. CASE OutcomeOf(hub.row) = None
    BY <1>1, <1>2, <1>5, <2>1 DEF A!vars
  <2>2. CASE OutcomeOf(hub.row) # None
    <3>1. A!Learn("browser") BY <1>1, <1>2, <1>4, <1>5, <2>2 DEF A!Learn
    <3> QED BY <3>1 DEF A!Next
  <2> QED BY <2>1, <2>2
<1> QED BY <1>3, <1>6

(* A checkpoint seals the object and the authority, the payload left out. *)
LEMMA WriteCheckpointKeeps ==
  ASSUME RInv, WriteCheckpoint
  PROVE  RInv' /\ UNCHANGED A!vars
<1>1. /\ session # None /\ disk' = [disk EXCEPT !.ckpt = {Sealed(session)}]
      /\ UNCHANGED <<hub, session, wallet, wire, agreed>>
  BY DEF WriteCheckpoint
<1>2. SessionOK(session, agreed, hub.row) /\ DiskOK(disk, agreed, hub.row) BY DEF RInv
<1>3. disk'.active = disk.active /\ disk'.ckpt = {Sealed(session)}
      /\ DOMAIN disk' = {"ckpt", "active"}
  BY <1>1, <1>2 DEF DiskOK
<1>4. /\ Sealed(session).head = session.head
      /\ Sealed(session).auth = Checkpointed(session.auth)
  BY DEF Sealed
<1>5. AuthOK(Checkpointed(session.auth), session.head, agreed)
  BY <1>1, <1>2 DEF SessionOK, AuthOK, Checkpointed, IsAuth
<1>6. DiskOK(disk', agreed, hub.row) BY <1>1, <1>2, <1>3, <1>4, <1>5 DEF DiskOK, SessionOK
<1>7. Silent BY <1>1, <1>3 DEF Silent
<1> QED BY <1>1, <1>6, <1>7, SilentStutters DEF RInv

(* Its acknowledgement releases the effect: what goes to the relay is the head. *)
LEMMA CheckpointPersistedKeeps ==
  ASSUME RInv, CheckpointPersisted
  PROVE  RInv' /\ UNCHANGED A!vars
<1>1. /\ session # None /\ session.pend # None /\ session' = Released
      /\ wire' = IF session.pend = "send" THEN wire \cup {session.head} ELSE wire
      /\ UNCHANGED <<hub, disk, wallet, agreed>>
  BY DEF CheckpointPersisted
<1>2. SessionOK(session, agreed, hub.row) /\ WireOK(wire, agreed, hub.row) BY DEF RInv
<1>3. WireOK(wire', agreed, hub.row) BY <1>1, <1>2 DEF WireOK, SessionOK
<1>4. SessionOK(session', agreed, hub.row)
  <2>1. CASE session.pend = "established" BY <1>1, <1>2, <2>1, CeremonyAssumption DEF Released, SessionOK
  <2>2. CASE session.pend = "received"
    BY <1>1, <1>2, <2>2, CeremonyAssumption DEF Released, SessionOK, Sound
  <2>3. CASE session.pend = "send" BY <1>1, <1>2, <2>3, CeremonyAssumption DEF Released, SessionOK
  <2> QED BY <1>1, <1>2, <2>1, <2>2, <2>3 DEF SessionOK
<1>5. Silent BY <1>1 DEF Silent
<1> QED BY <1>1, <1>3, <1>4, <1>5, SilentStutters DEF RInv

(* A restored session holds the sealed head, the beginning of it that came last
   from the wallet, and an authority rebuilt from the two. *)
LEMMA RestoreKeeps ==
  ASSUME RInv, Restore
  PROVE  RInv' /\ UNCHANGED A!vars
<1>1. PICK ckpt \in disk.ckpt :
        /\ session' = [FreshSession EXCEPT !.head = ckpt.head, !.channel = ckpt.channel,
                         !.transcript = ckpt.channel, !.last = LastReceived(ckpt.head),
                         !.auth = RestoreRetained(ckpt.auth, LastReceived(ckpt.head))]
        /\ wire' = IF ckpt.head # <<>> /\ Kind(ckpt.head) \notin ByWallet
                   THEN wire \cup {ckpt.head} ELSE wire
        /\ UNCHANGED <<hub, disk, wallet, agreed>>
  BY DEF Restore
<1> DEFINE o == LastReceived(ckpt.head)
           auth == RestoreRetained(ckpt.auth, o)
<1>2. /\ Sound(ckpt.head, agreed, hub.row) /\ AuthOK(ckpt.auth, ckpt.head, agreed)
      /\ WireOK(wire, agreed, hub.row)
  BY <1>1 DEF RInv, DiskOK
<1>3. WireOK(wire', agreed, hub.row) BY <1>1, <1>2 DEF WireOK
<1>4. /\ o # None => o \in Seq(Range(o)) /\ ckpt.head # <<>>
      /\ AuthOK(auth, ckpt.head, agreed)
  <2>1. CASE o = None BY <1>2, <2>1 DEF RestoreRetained
  <2>2. CASE o # None
    <3>1. PICK n \in 1..Len(ckpt.head) : o = SubSeq(ckpt.head, 1, n)
      BY <1>2, <2>2, LastReceivedIs DEF Sound
    <3>2. /\ Sound(o, agreed, hub.row) /\ o # <<>> /\ ckpt.head # <<>>
          /\ o \in Seq(Range(o))
      BY <1>2, <3>1, SoundPrefix
    <3>3. AuthOK(ckpt.auth, o, agreed) BY <1>2, <3>2 DEF AuthOK
    <3>4. AuthOK(Retain(ckpt.auth, o), o, agreed) BY <3>2, <3>3, RetainKeeps
    <3>5. AuthOK(auth, ckpt.head, agreed)
      BY <1>2, <3>2, <3>3, <3>4 DEF RestoreRetained, AuthOK
    <3> QED BY <3>2, <3>5
  <2> QED BY <2>1, <2>2
<1>r. session' = [FreshSession EXCEPT !.head = ckpt.head, !.channel = ckpt.channel,
                    !.transcript = ckpt.channel, !.last = o, !.auth = auth]
  BY <1>1
<1> HIDE DEF o, auth
<1>5. SessionOK(session', agreed, hub.row)
  BY <1>r, <1>2, <1>4, CeremonyAssumption DEF SessionOK, FreshSession, Fresh
<1>6. Silent BY <1>1 DEF Silent
<1> QED BY <1>1, <1>3, <1>5, <1>6, SilentStutters DEF RInv

-----------------------------------------------------------------------------
(* The wallet *)

(* A step by which the wallet learns and agrees to nothing. *)
LEMMA WalletQuiet ==
  ASSUME RInv, WalletOK(wallet', agreed, hub.row), wallet'.done = wallet.done,
         WireOK(wire', agreed, hub.row), UNCHANGED <<hub, session, disk, agreed>>
  PROVE  RInv' /\ UNCHANGED A!vars
<1>1. Silent BY DEF Silent
<1> QED BY <1>1, SilentStutters DEF RInv

(* The wallet appends a body of its own to the object it stands at. *)
LEMMA WalletAppends ==
  ASSUME RInv, NEW kinds, AtHead(kinds), NEW b, NEW ag, NEW w,
         WalletOK(wallet, ag, hub.row), BodyOK(b, wallet.head[1].core, ag, hub.row),
         b.kind \notin Compared \cup {"payload"},
         b.kind = "final-approve" => b.did = wallet.auth.preview,
         w = [wallet EXCEPT !.head = Append(wallet.head, b)]
  PROVE  /\ WalletOK(w, ag, hub.row) /\ w.done = wallet.done
         /\ Sound(w.head, ag, hub.row) /\ w.head # <<>>
<1> DEFINE o == Append(wallet.head, b)
<1>1. wallet.head # <<>> /\ Sound(wallet.head, ag, hub.row)
  BY DEF AtHead, RequirePredecessor, WalletOK
<1>2. Sound(o, ag, hub.row) BY <1>1, SoundAppend
<1>3. o # <<>> /\ Last(o) = b BY <1>1, AppendIs DEF Sound
<1> HIDE DEF o
<1>4. w.head = o /\ w.done = wallet.done /\ w.auth = wallet.auth /\ DOMAIN w = DOMAIN wallet
  BY DEF WalletOK, o
<1>5. WalletOK(w, ag, hub.row) BY <1>2, <1>3, <1>4 DEF WalletOK, Kind
<1> QED BY <1>2, <1>3, <1>4, <1>5

(* The offer, a comparison, the end of the attempt: nothing is sent. *)
LEMMA WalletListens ==
  ASSUME RInv, StopWallet \/ \E o \in wire : WalletOffer(o) \/ WalletCompared(o)
  PROVE  RInv' /\ UNCHANGED A!vars
<1>1. UNCHANGED <<hub, session, disk, wire, agreed>>
  BY DEF StopWallet, WalletOffer, WalletCompared
<1>2. WalletOK(wallet, agreed, hub.row) /\ WireOK(wire, agreed, hub.row) BY DEF RInv
<1>3. WalletOK(wallet', agreed, hub.row) /\ wallet'.done = wallet.done
  <2>1. CASE StopWallet
    <3>1. Sound(<<>>, agreed, hub.row)
      <4>1. <<>> \in Seq(Range(<<>>)) /\ DOMAIN <<>> = {} BY SelfSeq, EmptySeq
      <4> QED BY <4>1 DEF Sound
    <3> QED BY <1>2, <2>1, <3>1 DEF StopWallet, WalletOK
  <2>2. ASSUME NEW o \in wire, WalletOffer(o)
        PROVE  WalletOK(wallet', agreed, hub.row) /\ wallet'.done = wallet.done
    <3>1. wallet' = [wallet EXCEPT !.head = o, !.auth = Bind(o[1].core)] /\ Kind(o) = "offer"
      BY <2>2 DEF WalletOffer
    <3>2. Sound(o, agreed, hub.row) /\ IsAuth(Bind(o[1].core))
      BY <1>2 DEF WireOK, IsAuth, Bind
    <3> QED BY <1>2, <3>1, <3>2 DEF WalletOK, Compared
  <2>3. ASSUME NEW o \in wire, WalletCompared(o)
        PROVE  WalletOK(wallet', agreed, hub.row) /\ wallet'.done = wallet.done
    <3>1. /\ wallet' = [wallet EXCEPT !.head = o] /\ Kind(o) \in Compared
          /\ VerifyBody(wallet.auth, o)
      BY <2>3 DEF WalletCompared
    <3>2. Sound(o, agreed, hub.row) BY <1>2 DEF WireOK
    <3>3. Last(o).did = wallet.auth.preview
      BY <3>1 DEF VerifyBody, VerifyComparison, Kind, Compared
    <3> QED BY <1>2, <3>1, <3>2, <3>3 DEF WalletOK, Compared
  <2> QED BY <2>1, <2>2, <2>3
<1> QED BY <1>1, <1>2, <1>3, WalletQuiet

(* An object the wallet appended goes to the relay. *)
LEMMA WalletSends ==
  ASSUME RInv, WalletIntent("intent-approve") \/ WalletIntent("intent-decline")
               \/ WalletRefuse \/ WalletFinal("final-decline")
  PROVE  RInv' /\ UNCHANGED A!vars
<1>1. WalletOK(wallet, agreed, hub.row) /\ WireOK(wire, agreed, hub.row) BY DEF RInv
<1>2. PICK kinds, b :
        /\ AtHead(kinds) /\ wallet' = [wallet EXCEPT !.head = Append(wallet.head, b)]
        /\ Send(Append(wallet.head, b)) /\ UNCHANGED agreed
        /\ b.kind \in {"intent-approve", "intent-decline", "refusal", "final-decline"}
  <2>1. ASSUME NEW d \in {"intent-approve", "intent-decline"}, WalletIntent(d)
        PROVE  \E kinds, b :
                 /\ AtHead(kinds) /\ wallet' = [wallet EXCEPT !.head = Append(wallet.head, b)]
                 /\ Send(Append(wallet.head, b)) /\ UNCHANGED agreed
                 /\ b.kind \in {"intent-approve", "intent-decline", "refusal", "final-decline"}
    <3> DEFINE b == IntentDecision(wallet.auth, d)
    <3>1. b.kind = d BY DEF IntentDecision
    <3>2. /\ AtHead({"offer"}) /\ wallet' = [wallet EXCEPT !.head = Append(wallet.head, b)]
          /\ Send(Append(wallet.head, b)) /\ UNCHANGED agreed
      BY <2>1 DEF WalletIntent
    <3> QED BY <3>1, <3>2
  <2>2. CASE WalletRefuse
    <3>1. Refusal.kind = "refusal" BY DEF Refusal
    <3>2. /\ AtHead(Refusable) /\ wallet' = [wallet EXCEPT !.head = Append(wallet.head, Refusal)]
          /\ Send(Append(wallet.head, Refusal)) /\ UNCHANGED agreed
      BY <2>2 DEF WalletRefuse
    <3> QED BY <3>1, <3>2
  <2>3. CASE WalletFinal("final-decline")
    <3> DEFINE b == FinalDecision(wallet.auth, "final-decline")
    <3>1. b.kind = "final-decline" BY DEF FinalDecision
    <3>2. /\ AtHead(Compared) /\ wallet' = [wallet EXCEPT !.head = Append(wallet.head, b)]
          /\ Send(Append(wallet.head, b)) /\ UNCHANGED agreed
      BY <2>3 DEF WalletFinal
    <3> QED BY <3>1, <3>2
  <2> QED BY <2>1, <2>2, <2>3
<1>3. BodyOK(b, wallet.head[1].core, agreed, hub.row) BY <1>2 DEF BodyOK, Compared
<1>4. /\ WalletOK(wallet', agreed, hub.row) /\ wallet'.done = wallet.done
      /\ Sound(wallet'.head, agreed, hub.row) /\ wallet'.head # <<>>
  BY <1>1, <1>2, <1>3, WalletAppends DEF Compared
<1>5. wallet'.head = Append(wallet.head, b) BY <1>1, <1>2 DEF WalletOK
<1>6. WireOK(wire', agreed, hub.row) BY <1>1, <1>2, <1>4, <1>5 DEF WireOK, Send
<1> QED BY <1>2, <1>4, <1>6, WalletQuiet DEF Send

(* The preview of the wallet's own root is retained and sent. *)
LEMMA WalletPreviewKeeps ==
  ASSUME RInv, WalletPreview
  PROVE  RInv' /\ UNCHANGED A!vars
<1> DEFINE b == Preparation(wallet.auth, WalletDid)
           o == Append(wallet.head, b)
<1>1. /\ AtHead({"intent-approve"})
      /\ wallet' = [wallet EXCEPT !.head = o, !.auth = Retain(wallet.auth, o)]
      /\ Send(o) /\ UNCHANGED agreed
  BY DEF WalletPreview
<1>2. WalletOK(wallet, agreed, hub.row) /\ WireOK(wire, agreed, hub.row) BY DEF RInv
<1>3. /\ wallet.auth # None /\ wallet.head # <<>> /\ Sound(wallet.head, agreed, hub.row)
      /\ IsAuth(wallet.auth)
  BY <1>1, <1>2 DEF AtHead, RequirePredecessor, WalletOK
<1>4. b.kind = "preparation" /\ b.did \in Dids BY CeremonyAssumption DEF Preparation
<1>5. BodyOK(b, wallet.head[1].core, agreed, hub.row) BY <1>4 DEF BodyOK, Compared
<1>6. Sound(o, agreed, hub.row) /\ o # <<>> /\ Last(o) = b
  BY <1>3, <1>5, SoundAppend, AppendIs DEF Sound
<1>7. Retain(wallet.auth, o) = [wallet.auth EXCEPT !.preview = b.did]
  BY <1>4, <1>6 DEF Retain, Kind
<1> HIDE DEF o, b
<1>8. WalletOK(wallet', agreed, hub.row) /\ wallet'.done = wallet.done
  BY <1>1, <1>2, <1>3, <1>4, <1>6, <1>7 DEF WalletOK, IsAuth, Kind, Compared
<1>9. WireOK(wire', agreed, hub.row) BY <1>1, <1>2, <1>6 DEF WireOK, Send
<1> QED BY <1>1, <1>8, <1>9, WalletQuiet DEF Send

(* The last approval: the wallet agrees to what the browser's comparison says
   its person agreed to. *)
LEMMA WalletApproves ==
  ASSUME RInv, WalletFinal("final-approve")
  PROVE  RInv' /\ [A!Next]_(A!vars)
<1> DEFINE b == FinalDecision(wallet.auth, "final-approve")
           t == TermsOf(wallet.auth.core, wallet.auth.preview)
<1>1. /\ AtHead(Compared)
      /\ wallet' = [wallet EXCEPT !.head = Append(wallet.head, b)]
      /\ Send(Append(wallet.head, b))
      /\ agreed' = [agreed EXCEPT !.wallet = @ \cup {t}]
  BY DEF WalletFinal, TermsOf
<1>2. /\ WalletOK(wallet, agreed, hub.row) /\ WireOK(wire, agreed, hub.row)
      /\ AgreedOK(agreed)
  BY DEF RInv
<1>3. /\ wallet.auth # None /\ wallet.head # <<>> /\ Kind(wallet.head) \in Compared
      /\ wallet.head[1].core = wallet.auth.core
      /\ Sound(wallet.head, agreed, hub.row)
      /\ Last(wallet.head).did = wallet.auth.preview
  BY <1>1, <1>2 DEF AtHead, RequirePredecessor, WalletOK
<1>4. t \in agreed.browser
  BY <1>3, SoundLast DEF BodyOK, Kind
<1>5. /\ AgreedOK(agreed') /\ t \in Terms
      /\ agreed'.wallet = agreed.wallet \cup {t} /\ agreed'.browser = agreed.browser
  BY <1>1, <1>2, <1>4 DEF AgreedOK
<1>6. Grows BY <1>1, <1>5 DEF Grows, Send
<1>7. b.kind = "final-approve" /\ b.did = wallet.auth.preview BY DEF FinalDecision
<1>8. BodyOK(b, wallet.head[1].core, agreed', hub.row)
  BY <1>3, <1>4, <1>5, <1>7 DEF BodyOK, Both, Compared
<1>9. hub' = hub /\ UNCHANGED <<session, disk>> BY <1>1 DEF Send
<1>10. WalletOK(wallet, agreed', hub.row) /\ WireOK(wire, agreed', hub.row)
  BY <1>6, <1>9, StillOK
<1>11. /\ WalletOK(wallet', agreed', hub.row) /\ wallet'.done = wallet.done
       /\ Sound(wallet'.head, agreed', hub.row) /\ wallet'.head # <<>>
  BY <1>1, <1>7, <1>8, <1>10, WalletAppends DEF Compared
<1>12. wallet'.head = Append(wallet.head, b) BY <1>1, <1>2 DEF WalletOK
<1>13. WireOK(wire', agreed', hub.row) BY <1>1, <1>10, <1>11, <1>12 DEF WireOK, Send
<1>14. RInv' BY <1>5, <1>6, <1>9, <1>11, <1>13, StillOK DEF RInv, DoneOK, Decided
<1>15. A!Consent("wallet", t) BY <1>1, <1>2, <1>9, <1>11 DEF A!Consent, AgreedOK, OutcomeOf
<1> QED BY <1>5, <1>14, <1>15 DEF A!Next

(* The payload confirms what was approved; it is held before it is sent. *)
LEMMA WalletPayload ==
  ASSUME RInv, WalletSeal \/ WalletSend
  PROVE  RInv' /\ UNCHANGED A!vars
<1>1. WalletOK(wallet, agreed, hub.row) /\ WireOK(wire, agreed, hub.row) BY DEF RInv
<1>2. CASE WalletSeal
  <2> DEFINE b == Payload(wallet.auth)
             o == Append(wallet.head, b)
  <2>1. /\ AtHead({"final-approve"})
        /\ wallet' = [wallet EXCEPT !.head = o, !.held = o, !.auth = Retain(wallet.auth, o)]
        /\ UNCHANGED <<hub, session, disk, wire, agreed>>
    BY <1>2 DEF WalletSeal, BeforePayload
  <2>2. /\ wallet.auth # None /\ wallet.head # <<>> /\ Kind(wallet.head) = "final-approve"
        /\ wallet.head[1].core = wallet.auth.core
        /\ Sound(wallet.head, agreed, hub.row) /\ IsAuth(wallet.auth)
        /\ Last(wallet.head).did = wallet.auth.preview
    BY <1>1, <2>1 DEF AtHead, RequirePredecessor, WalletOK
  <2>3. Both(TermsOf(wallet.auth.core, wallet.auth.preview), agreed)
    BY <2>2, SoundLast DEF BodyOK, Kind
  <2>4. /\ b.kind = "payload" /\ b.core = wallet.auth.core /\ b.did = wallet.auth.preview
        /\ b.confirmation = <<wallet.auth.core, wallet.auth.preview>>
    BY DEF Payload, MigrationConfirmation, ConfirmationOf
  <2>5. BodyOK(b, wallet.head[1].core, agreed, hub.row) BY <2>3, <2>4 DEF BodyOK, Compared
  <2>6. Sound(o, agreed, hub.row) /\ o # <<>> /\ Last(o) = b
    BY <2>2, <2>5, SoundAppend, AppendIs DEF Sound
  <2>7. Retain(wallet.auth, o) = [wallet.auth EXCEPT !.payload = o]
    BY <2>4, <2>6 DEF Retain, Kind
  <2> HIDE DEF o, b
  <2>8. WalletOK(wallet', agreed, hub.row) /\ wallet'.done = wallet.done
    BY <1>1, <2>1, <2>2, <2>4, <2>6, <2>7 DEF WalletOK, IsAuth, Kind, Compared
  <2> QED BY <1>1, <2>1, <2>8, WalletQuiet
<1>3. CASE WalletSend
  <2>1. wallet.held = wallet.head /\ wallet.head # <<>> /\ Sound(wallet.head, agreed, hub.row)
    BY <1>1, <1>3 DEF WalletSend, AtHead, RequirePredecessor, WalletOK
  <2>2. wire' = wire \cup {wallet.head} /\ UNCHANGED <<hub, session, disk, wallet, agreed>>
    BY <1>3, <2>1 DEF WalletSend, Send
  <2>3. WireOK(wire', agreed, hub.row) BY <1>1, <2>1, <2>2 DEF WireOK
  <2> QED BY <1>1, <2>2, <2>3, WalletQuiet
<1> QED BY <1>2, <1>3

(* The wallet learns what the hub decided, unless it has learned it already. *)
LEMMA WalletLearns ==
  ASSUME RInv, WalletOK(wallet', agreed, hub.row), wallet'.done = Decided,
         hub.row # None \/ hub.closed, UNCHANGED <<hub, session, disk, wire, agreed>>
  PROVE  RInv' /\ [A!Next]_(A!vars)
<1>1. RInv' BY DEF RInv, DoneOK, Decided
<1>2. hub.closed \in BOOLEAN /\ wallet.done \in {None, Decided} BY DEF RInv, HubOK, DoneOK
<1>3. OutcomeOf(None) = None /\ OutcomeOf(Refused) = Refused BY DEF OutcomeOf
<1> DEFINE decision == IF hub.closed THEN Refused ELSE OutcomeOf(hub.row)
<1>4. OutcomeOf(Decided) = decision BY <1>2, <1>3 DEF Decided
<1>5. CASE wallet.done = Decided \/ decision = None
  <2>1. OutcomeOf(wallet.done) = OutcomeOf(wallet'.done) BY <1>2, <1>3, <1>4, <1>5
  <2> QED BY <1>1, <2>1 DEF A!vars
<1>6. CASE wallet.done = None /\ decision # None
  <2>1. A!Learn("wallet") BY <1>3, <1>4, <1>6 DEF A!Learn
  <2> QED BY <1>1, <2>1 DEF A!Next
<1> QED BY <1>2, <1>5, <1>6

(* A receipt carries the hub's row: by the relay ... *)
LEMMA WalletReceiptKeeps ==
  ASSUME RInv, NEW o \in wire, WalletReceipt(o)
  PROVE  RInv' /\ [A!Next]_(A!vars)
<1>1. /\ Kind(o) = "receipt"
      /\ wallet' = [wallet EXCEPT !.head = o, !.done = Last(o).status]
      /\ UNCHANGED <<hub, session, disk, wire, agreed>>
  BY DEF WalletReceipt
<1>2. /\ WalletOK(wallet, agreed, hub.row) /\ Sound(o, agreed, hub.row) /\ o # <<>>
      /\ HubOK(hub, agreed)
  BY DEF RInv, WireOK
<1>3. hub.row # None /\ Last(o).status = hub.row
  BY <1>1, <1>2, SoundLast DEF BodyOK, Kind
<1>4. WalletOK(wallet', agreed, hub.row) /\ wallet'.done = hub.row
  BY <1>1, <1>2, <1>3 DEF WalletOK, Compared
<1>5. Decided = hub.row BY <1>2, <1>3 DEF Decided, HubOK
<1> QED BY <1>1, <1>3, <1>4, <1>5, WalletLearns

(* ... or recovered from the hub, which may answer that there is none. *)
LEMMA WalletSettleKeeps ==
  ASSUME RInv, WalletSettle
  PROVE  RInv' /\ [A!Next]_(A!vars)
<1>1. /\ wallet' = wallet \/ /\ \E approved \in BOOLEAN : Adopts(HubAnswer, approved)
                             /\ wallet' = [wallet EXCEPT !.done = Outcome(HubAnswer)]
      /\ hub.row # None \/ hub.closed
      /\ UNCHANGED <<hub, session, disk, wire, agreed>>
  BY DEF WalletSettle
<1>2. WalletOK(wallet, agreed, hub.row) /\ HubOK(hub, agreed) BY DEF RInv
<1>3. CASE wallet' = wallet BY <1>1, <1>2, <1>3, WalletQuiet DEF RInv
<1>4. CASE wallet' = [wallet EXCEPT !.done = Outcome(HubAnswer)]
  <2>1. Outcome(HubAnswer) = Decided
    BY <1>1, <1>2 DEF Outcome, HubAnswer, Accepted, NotFinalized, Decided, HubOK
  <2>2. WalletOK(wallet', agreed, hub.row) /\ wallet'.done = Decided
    BY <1>2, <1>4, <2>1 DEF WalletOK
  <2> QED BY <1>1, <2>2, WalletLearns
<1> QED BY <1>1, <1>3, <1>4

-----------------------------------------------------------------------------
(* The refinement *)

LEMMA InitRInv == Init => RInv /\ A!Init
<1> SUFFICES ASSUME Init PROVE RInv /\ A!Init OBVIOUS
<1>1. Earlier \in Core /\ Refused # None BY CeremonyAssumption
<1>2. HubOK(hub, agreed) BY <1>1 DEF Init, HubOK, Core
<1>3. Sound(<<>>, agreed, hub.row)
  <2>1. <<>> \in Seq(Range(<<>>)) /\ DOMAIN <<>> = {} BY SelfSeq, EmptySeq
  <2> QED BY <2>1 DEF Sound
<1>4. WalletOK(wallet, agreed, hub.row) BY <1>3 DEF Init, WalletOK
<1>5. DiskOK(disk, agreed, hub.row) BY DEF Init, DiskOK
<1>6. RInv BY <1>2, <1>4, <1>5 DEF Init, RInv, WireOK, SessionOK, AgreedOK, DoneOK
<1>7. A!Init
  <2>1. wallet.done = None /\ disk.active = None /\ hub.row = None /\ hub.closed = FALSE
    BY DEF Init
  <2>2. agreed = [p \in {"wallet", "browser"} |-> {}]
    <3>1. agreed = [wallet |-> {}, browser |-> {}] BY DEF Init
    <3> QED BY <3>1
  <2>3. OutcomeOf(None) = None BY DEF OutcomeOf
  <2>4. [wallet |-> OutcomeOf(wallet.done), browser |-> OutcomeOf(disk.active)]
          = [p \in {"wallet", "browser"} |-> None]
    BY <2>1, <2>3
  <2> QED BY <2>1, <2>2, <2>3, <2>4 DEF A!Init
<1> QED BY <1>6, <1>7

LEMMA NextRInv ==
  ASSUME RInv, [Next]_vars
  PROVE  RInv' /\ [A!Next]_(A!vars)
<1>1. CASE Hub
  BY <1>1, HubQuiet, HubFences, HubAccepts DEF Hub
<1>2. CASE Browser
  <2>1. CASE New \/ Establish \/ StopBrowser BY <2>1, SessionStarts
  <2>2. CASE Stage \/ \E core \in hub.prepared : DevicePossession(core) BY <2>2, BrowserToHub
  <2>3. CASE Activate \/ \E core \in hub.signed : CloseFromDisk(core) BY <2>3, BrowserLearns
  <2>4. CASE \E core \in hub.signed, s \in hub.statuses :
               PrepareOffer(core, s) \/ RestoreContext(core, s)
    BY <2>4, PrepareOfferKeeps
  <2>5. CASE \E o \in wire : BrowserReceive(o) BY <2>5, BrowserReceiveKeeps
  <2>6. CASE PrepareComparison BY <2>6, PrepareComparisonKeeps
  <2>7. CASE PrepareReceipt BY <2>7, PrepareReceiptKeeps
  <2>8. CASE WriteCheckpoint BY <2>8, WriteCheckpointKeeps
  <2>9. CASE CheckpointPersisted BY <2>9, CheckpointPersistedKeeps
  <2>10. CASE Restore BY <2>10, RestoreKeeps
  <2> QED BY <1>2, <2>1, <2>2, <2>3, <2>4, <2>5, <2>6, <2>7, <2>8, <2>9, <2>10 DEF Browser
<1>3. CASE Wallet
  <2>1. CASE StopWallet \/ \E o \in wire : WalletOffer(o) \/ WalletCompared(o)
    BY <2>1, WalletListens
  <2>2. CASE \E o \in wire : WalletReceipt(o) BY <2>2, WalletReceiptKeeps
  <2>3. CASE WalletIntent("intent-approve") \/ WalletIntent("intent-decline")
             \/ WalletRefuse \/ WalletFinal("final-decline")
    BY <2>3, WalletSends
  <2>4. CASE WalletPreview BY <2>4, WalletPreviewKeeps
  <2>5. CASE WalletFinal("final-approve") BY <2>5, WalletApproves
  <2>6. CASE WalletSeal \/ WalletSend BY <2>6, WalletPayload
  <2>7. CASE WalletAsk
    <3>1. UNCHANGED <<hub, session, disk, wallet, wire, agreed>> BY <2>7 DEF WalletAsk
    <3> QED BY <3>1, WalletQuiet DEF RInv
  <2>8. CASE WalletSettle BY <2>8, WalletSettleKeeps
  <2> QED BY <1>3, <2>1, <2>2, <2>3, <2>4, <2>5, <2>6, <2>7, <2>8 DEF Wallet
<1>4. CASE Tick \/ UNCHANGED vars
  <2>1. UNCHANGED <<hub, session, disk, wallet, wire, agreed>> BY <1>4 DEF Tick, vars
  <2> QED BY <2>1, WalletQuiet DEF RInv
<1> QED BY <1>1, <1>2, <1>3, <1>4 DEF Next

(* Whatever the relay loses, repeats or delays, whichever device stops and is
   restored, and whichever key the hub rotates to: the hub's row
   (credential_v2.rs of selfsame-beam) is only ever one that both persons
   agreed to, it is decided once, and the browser's active record and the
   wallet's completion are that decision or nothing. *)
THEOREM CeremonyImplementsAgreement == Spec => Agrees
<1>1. Init => RInv /\ A!Init BY InitRInv
<1>2. RInv /\ [Next]_vars => RInv' /\ [A!Next]_(A!vars) BY NextRInv
<1> QED BY <1>1, <1>2, PTL DEF Spec, Agrees, A!Spec

-----------------------------------------------------------------------------
(* What has been handed to the relay                                       *)

\* o is head, or head goes on from it.
Beginning(o, head) == Len(o) <= Len(head) /\ \A n \in 1..Len(o) : o[n] = head[n]

\* The session is at most one object ahead of what is sealed, and only while that
\* object waits for its checkpoint; nothing is built before the first one.
Barrier(s, d) ==
  /\ s # None =>
       /\ s.channel \in BOOLEAN
       /\ s.pend = "send" => Kind(s.head) \notin ByWallet
       /\ d.ckpt = {} => /\ s.head = <<>>
                         /\ \/ s.channel = FALSE /\ s.pend = None
                            \/ s.channel = TRUE /\ s.pend = "established"
  /\ \A c \in d.ckpt :
       /\ d.ckpt = {c} /\ c.channel = TRUE
       /\ s # None => /\ s.channel = TRUE
                      /\ \/ s.head = c.head
                         \/ s.pend \in {"send", "received"} /\ Front(s.head) = c.head

\* The browser's objects on the relay lead to the sealed head ...
BrowserSent(w, d) == \A o \in w : Kind(o) \notin ByWallet =>
  d.ckpt # {} /\ \A c \in d.ckpt : Beginning(o, c.head)
\* ... and those of a wallet that has not stopped to its own; one that has stopped
\* sends nothing any more.
WalletSent(w, wal) == wal.live = TRUE =>
  \A o \in w : Kind(o) \in ByWallet => Beginning(o, wal.head)
WalletOnce(w) == \A o, p \in w :
  Kind(o) \in ByWallet /\ Kind(p) \in ByWallet /\ Front(o) = Front(p) => o = p

ChainInv == /\ wallet.live \in BOOLEAN
            /\ Barrier(session, disk)
            /\ BrowserSent(wire, disk)
            /\ WalletSent(wire, wallet)
            /\ WalletOnce(wire)

(* Front drops the last body. *)
LEMMA FrontIs ==
  ASSUME NEW S, NEW o \in Seq(S), o # <<>>
  PROVE  /\ Len(o) \in Nat \ {0} /\ Front(o) \in Seq(S) /\ Len(Front(o)) = Len(o) - 1
         /\ \A n \in 1..(Len(o) - 1) : Front(o)[n] = o[n]
<1>1. Len(o) \in Nat \ {0} BY EmptySeq, LenProperties
<1>2. \A n \in 1..(Len(o) - 1) : o[n] \in S BY <1>1, ElementOfSeq
<1>3. PICK m \in Nat : m = Len(o) - 1 BY <1>1
<1> DEFINE t == SubSeq(o, 1, m)
<1>4. /\ t \in Seq(S) /\ Len(t) = IF 1 <= m THEN m - 1 + 1 ELSE 0
      /\ \A n \in 1..(m - 1 + 1) : t[n] = o[1 + n - 1]
  BY <1>2, <1>3, SubSeqProperties
<1>5. Front(o) = t BY <1>3 DEF Front
<1> HIDE DEF t
<1>6. Len(t) = m BY <1>4
<1>7. \A n \in 1..m : t[n] = o[n] BY <1>4
<1> QED BY <1>1, <1>3, <1>4, <1>5, <1>6, <1>7

\* An object: a sequence of its own bodies.
IsObject(o) == o \in Seq(Range(o))

(* Every object is a beginning of itself and of what goes on from it. *)
LEMMA BeginningOfNext ==
  ASSUME NEW o, NEW h, NEW new, IsObject(o), IsObject(h), IsObject(new), Beginning(o, h),
         new = h \/ (new # <<>> /\ Front(new) = h)
  PROVE  Beginning(o, new)
<1>1. CASE new = h BY <1>1
<1>2. CASE new # <<>> /\ Front(new) = h
  <2>1. /\ Len(new) \in Nat /\ Len(h) = Len(new) - 1
        /\ \A n \in 1..(Len(new) - 1) : h[n] = new[n]
    BY <1>2, FrontIs DEF IsObject
  <2>2. Len(o) \in Nat BY SelfSeq DEF IsObject
  <2> QED BY <2>1, <2>2 DEF Beginning
<1> QED BY <1>1, <1>2

LEMMA BeginningOfSelf ==
  ASSUME NEW o, IsObject(o) PROVE Beginning(o, o)
<1>1. Len(o) \in Nat BY SelfSeq DEF IsObject
<1> QED BY <1>1 DEF Beginning

LEMMA BeginningOfNothing ==
  ASSUME NEW o, IsObject(o), Beginning(o, <<>>) PROVE o = <<>>
<1>1. Len(o) \in Nat /\ Len(<<>>) = 0 BY SelfSeq, EmptySeq DEF IsObject
<1>2. Len(o) = 0 BY <1>1 DEF Beginning
<1> QED BY <1>2, EmptySeq DEF IsObject

(* Two beginnings of one object that succeed one object are one. *)
LEMMA OneBeginning ==
  ASSUME NEW o, NEW p, NEW h, IsObject(o), IsObject(p), o # <<>>, p # <<>>,
         Beginning(o, h), Beginning(p, h), Front(o) = Front(p)
  PROVE  o = p
<1> DEFINE S == Range(o) \cup Range(p)
<1>1. o \in Seq(S) /\ p \in Seq(S) BY SeqMonotonic DEF IsObject
<1>2. /\ Len(o) \in Nat \ {0} /\ Len(Front(o)) = Len(o) - 1
      /\ Len(p) \in Nat \ {0} /\ Len(Front(p)) = Len(p) - 1
  BY <1>1, FrontIs
<1>3. Len(o) = Len(p) BY <1>2
<1>4. \A n \in 1..Len(o) : o[n] = p[n] BY <1>3 DEF Beginning
<1> QED BY <1>1, <1>3, <1>4, SeqEqual

-----------------------------------------------------------------------------
(* Each party keeps to one chain                                           *)

(* What a live wallet has sent is one chain, its own. *)
LEMMA LiveOnce ==
  ASSUME NEW w, NEW wal, \A o \in w : o # <<>> /\ IsObject(o), wal.live = TRUE,
         WalletSent(w, wal)
  PROVE  WalletOnce(w)
<1> SUFFICES ASSUME NEW o \in w, NEW p \in w, Kind(o) \in ByWallet, Kind(p) \in ByWallet,
                    Front(o) = Front(p)
             PROVE  o = p
  BY DEF WalletOnce
<1>1. Beginning(o, wal.head) /\ Beginning(p, wal.head) BY DEF WalletSent
<1> QED BY <1>1, OneBeginning

LEMMA WireObjects ==
  ASSUME RInv
  PROVE  /\ \A o \in wire : o # <<>> /\ IsObject(o)
         /\ session # None => IsObject(session.head)
         /\ \A c \in disk.ckpt : IsObject(c.head)
         /\ IsObject(wallet.head)
BY DEF RInv, WireOK, SessionOK, DiskOK, WalletOK, Sound, IsObject

(* Together the chains give every object one successor on either side. *)
LEMMA ChainsSuffice ==
  ASSUME RInv, ChainInv PROVE OneSuccessor
<1> SUFFICES ASSUME NEW o \in wire, NEW p \in wire, Front(o) = Front(p), Sender(o) = Sender(p)
             PROVE  o = p
  BY DEF OneSuccessor
<1>1. Kind(o) \in ByWallet <=> Kind(p) \in ByWallet BY DEF Sender
<1>2. CASE Kind(o) \in ByWallet BY <1>1, <1>2 DEF ChainInv, WalletOnce
<1>3. CASE Kind(o) \notin ByWallet
  <2>1. PICK c \in disk.ckpt : Beginning(o, c.head) /\ Beginning(p, c.head)
    BY <1>1, <1>3 DEF ChainInv, BrowserSent
  <2> QED BY <2>1, WireObjects, OneBeginning
<1> QED BY <1>2, <1>3

(* A step that neither sends nor seals, nor changes what the session would build
   on, keeps the chains. *)
LEMMA ChainsUntouched ==
  ASSUME ChainInv, UNCHANGED <<wire, disk.ckpt>>,
         \/ session' = session \/ session' = None
         \/ /\ session # None
            /\ session'.head = session.head /\ session'.channel = session.channel
            /\ session'.pend = session.pend,
         wallet'.live = wallet.live /\ wallet'.head = wallet.head
  PROVE  ChainInv'
<1>1. Barrier(session', disk')
  <2>1. Barrier(session, disk) BY DEF ChainInv
  <2>2. disk'.ckpt = disk.ckpt OBVIOUS
  <2>3. CASE session' = session BY <2>1, <2>2, <2>3 DEF Barrier
  <2>4. CASE session' = None BY <2>1, <2>2, <2>4 DEF Barrier
  <2>5. CASE /\ session # None
             /\ session'.head = session.head /\ session'.channel = session.channel
             /\ session'.pend = session.pend
    BY <2>1, <2>2, <2>5 DEF Barrier
  <2> QED BY <2>3, <2>4, <2>5
<1>2. BrowserSent(wire', disk') /\ WalletSent(wire', wallet') /\ WalletOnce(wire')
  BY DEF ChainInv, BrowserSent, WalletSent, WalletOnce
<1> QED BY <1>1, <1>2 DEF ChainInv

(* Hub, clock and recovery steps, and those of a session that build nothing. *)
LEMMA QuietChains ==
  ASSUME RInv, ChainInv,
         \/ Hub \/ Tick \/ WalletAsk \/ WalletSettle \/ UNCHANGED vars
         \/ Stage \/ Activate \/ StopBrowser
         \/ \E core \in hub.prepared : DevicePossession(core)
         \/ \E core \in hub.signed, s \in hub.statuses : RestoreContext(core, s)
         \/ \E core \in hub.signed : CloseFromDisk(core)
  PROVE  ChainInv'
<1>1. WalletOK(wallet, agreed, hub.row) /\ DiskOK(disk, agreed, hub.row)
      /\ SessionOK(session, agreed, hub.row)
  BY DEF RInv
<1>2. CASE Hub
  <2>1. UNCHANGED <<session, disk, wallet, wire>>
    BY <1>2 DEF Hub, HubPrepare, Elsewhere, HubFence, HubRotate, HubFinalizeOffer, HubVerify, HubAccept
  <2> QED BY <2>1, ChainsUntouched
<1>3. CASE Tick \/ WalletAsk \/ UNCHANGED vars \/ Stage
  <2>1. UNCHANGED <<session, disk, wallet, wire>> BY <1>3 DEF Tick, WalletAsk, vars, Stage
  <2> QED BY <2>1, ChainsUntouched
<1>4. CASE WalletSettle
  <2>1. UNCHANGED <<session, disk, wire>>
        /\ (wallet' = wallet \/ wallet' = [wallet EXCEPT !.done = Outcome(HubAnswer)])
    BY <1>4 DEF WalletSettle
  <2>2. wallet'.live = wallet.live /\ wallet'.head = wallet.head BY <1>1, <2>1 DEF WalletOK
  <2> QED BY <2>1, <2>2, ChainsUntouched
<1>5. CASE StopBrowser
  <2>1. UNCHANGED <<disk, wallet, wire>> /\ session' = None BY <1>5 DEF StopBrowser
  <2> QED BY <2>1, ChainsUntouched
<1>6. CASE Activate \/ \E core \in hub.signed : CloseFromDisk(core)
  <2>1. UNCHANGED <<session, wallet, wire>> /\ disk' = [disk EXCEPT !.active = hub.row]
    BY <1>6 DEF Activate, CloseFromDisk
  <2>2. disk'.ckpt = disk.ckpt BY <1>1, <2>1 DEF DiskOK
  <2> QED BY <2>1, <2>2, ChainsUntouched
<1>7. ASSUME NEW core \in hub.prepared, DevicePossession(core) PROVE ChainInv'
  <2>1. UNCHANGED <<disk, wallet, wire>> /\ session # None
        /\ session' = [session EXCEPT !.prepared = core]
    BY <1>7 DEF DevicePossession
  <2>2. /\ session'.head = session.head /\ session'.channel = session.channel
        /\ session'.pend = session.pend
    BY <1>1, <2>1 DEF SessionOK
  <2> QED BY <2>1, <2>2, ChainsUntouched
<1>8. ASSUME NEW core \in hub.signed, NEW s \in hub.statuses, RestoreContext(core, s) PROVE ChainInv'
  <2>1. UNCHANGED <<disk, wallet, wire>> /\ session # None
        /\ session' = [session EXCEPT !.prepared = core, !.kid = TRUE, !.status = s]
    BY <1>8 DEF RestoreContext
  <2>2. /\ session'.head = session.head /\ session'.channel = session.channel
        /\ session'.pend = session.pend
    BY <1>1, <2>1 DEF SessionOK
  <2> QED BY <2>1, <2>2, ChainsUntouched
<1> QED BY <1>2, <1>3, <1>4, <1>5, <1>6, <1>7, <1>8

(* A session starts without a checkpoint, and connects without one. *)
LEMMA StartsChains ==
  ASSUME RInv, ChainInv, New \/ Establish
  PROVE  ChainInv'
<1>1. UNCHANGED <<disk, wallet, wire>> BY DEF New, Establish
<1>2. Barrier(session, disk) /\ SessionOK(session, agreed, hub.row) BY DEF ChainInv, RInv
<1>3. Barrier(session', disk)
  <2>1. CASE New
    <3>1. disk.ckpt = {} /\ session' = FreshSession BY <2>1 DEF New
    <3>2. session'.head = <<>> /\ session'.channel = FALSE /\ session'.pend = None
      BY <3>1 DEF FreshSession, Fresh
    <3> QED BY <3>1, <3>2, CeremonyAssumption DEF Barrier
  <2>2. CASE Establish
    <3>1. /\ session # None /\ session.channel # TRUE
          /\ session' = [session EXCEPT !.channel = TRUE, !.pend = "established"]
      BY <2>2 DEF Establish
    <3>2. disk.ckpt = {} BY <1>2, <3>1 DEF Barrier
    <3>3. /\ session'.head = session.head /\ session'.channel = TRUE
          /\ session'.pend = "established"
      BY <1>2, <3>1 DEF SessionOK
    <3>4. session.head = <<>> BY <1>2, <3>1, <3>2 DEF Barrier
    <3> QED BY <3>2, <3>3, <3>4 DEF Barrier
  <2> QED BY <2>1, <2>2
<1>4. BrowserSent(wire', disk') /\ WalletSent(wire', wallet') /\ WalletOnce(wire')
  BY <1>1 DEF ChainInv
<1> QED BY <1>1, <1>3, <1>4 DEF ChainInv

\* The session takes o as its next object and waits for the checkpoint.
Takes(o, pend) ==
  /\ session # None /\ Seals(o)
  /\ session'.head = o /\ session'.channel = session.channel /\ session'.pend = pend
  /\ UNCHANGED <<disk, wallet, wire>>

(* The endpoint builds only on what is sealed. *)
LEMMA TakesChains ==
  ASSUME RInv, ChainInv, NEW o, NEW pend \in {"send", "received"}, Takes(o, pend),
         pend = "send" => Kind(o) \notin ByWallet
  PROVE  ChainInv'
<1>1. Barrier(session, disk) BY DEF ChainInv
<1>2. /\ session # None /\ session.pend = None /\ session.channel = TRUE /\ Front(o) = session.head
      /\ session'.head = o /\ session'.channel = TRUE /\ session'.pend = pend
  BY <1>1 DEF Takes, Seals, Barrier
<1>3. disk.ckpt # {} BY <1>1, <1>2, CeremonyAssumption DEF Barrier
<1>4. \A c \in disk.ckpt : disk.ckpt = {c} /\ c.channel = TRUE /\ session.head = c.head
  BY <1>1, <1>2, CeremonyAssumption DEF Barrier
<1>5. Barrier(session', disk) BY <1>2, <1>3, <1>4 DEF Barrier
<1>6. UNCHANGED <<disk, wallet, wire>> BY DEF Takes
<1>7. BrowserSent(wire', disk') /\ WalletSent(wire', wallet') /\ WalletOnce(wire')
  BY <1>6 DEF ChainInv
<1> QED BY <1>5, <1>6, <1>7 DEF ChainInv

(* Offer, comparison, receipt, and what is received from the wallet. *)
LEMMA BuildsChains ==
  ASSUME RInv, ChainInv,
         \/ PrepareComparison \/ PrepareReceipt
         \/ \E core \in hub.signed, s \in hub.statuses : PrepareOffer(core, s)
         \/ \E o \in wire : BrowserReceive(o)
  PROVE  ChainInv'
<1>1. SessionOK(session, agreed, hub.row) BY DEF RInv
<1>2. CASE PrepareComparison
  <2> DEFINE b == Comparison(session.auth, session.status)
             o == Append(session.last, b)
  <2>1. /\ session # None /\ session.last # None /\ Seals(o)
        /\ session' = [session EXCEPT !.head = o, !.pend = "send"]
        /\ ComparisonKind(session.auth, session.status) # "refused"
        /\ UNCHANGED <<disk, wallet, wire>>
    BY <1>2 DEF PrepareComparison, PreparationShown, Holds
  <2>2. Last(o) = b BY <1>1, <2>1, AppendIs DEF SessionOK
  <2>3. b.kind \in Compared BY <2>1 DEF Comparison, ComparisonKind, Compared
  <2>4. Kind(o) \notin ByWallet BY <2>2, <2>3 DEF Kind, Compared, ByWallet
  <2> HIDE DEF o
  <2>5. Takes(o, "send") BY <1>1, <2>1 DEF Takes, SessionOK
  <2> QED BY <2>4, <2>5, TakesChains
<1>3. CASE PrepareReceipt
  <2> DEFINE b == Receipt(disk.active)
             o == Append(session.last, b)
  <2>1. /\ session # None /\ session.last # None /\ Seals(o)
        /\ session' = [session EXCEPT !.head = o, !.pend = "send"]
        /\ UNCHANGED <<disk, wallet, wire>>
    BY <1>3 DEF PrepareReceipt, VerifyFinalStatus, Holds
  <2>2. Last(o) = b BY <1>1, <2>1, AppendIs DEF SessionOK
  <2>3. Kind(o) \notin ByWallet BY <2>2 DEF Kind, Receipt, ByWallet
  <2> HIDE DEF o
  <2>4. Takes(o, "send") BY <1>1, <2>1 DEF Takes, SessionOK
  <2> QED BY <2>3, <2>4, TakesChains
<1>4. ASSUME NEW core \in hub.signed, NEW s \in hub.statuses, PrepareOffer(core, s)
      PROVE  ChainInv'
  <2> DEFINE o == OfferObject(core)
  <2>1. /\ session # None /\ Seals(o)
        /\ session' = [session EXCEPT !.auth = Bind(core), !.kid = TRUE, !.status = s,
                                      !.head = o, !.pend = "send"]
        /\ UNCHANGED <<disk, wallet, wire>>
    BY <1>4 DEF PrepareOffer
  <2>2. Len(o) = 1 /\ o[1].kind = "offer" BY DEF OfferObject
  <2>3. Kind(o) \notin ByWallet BY <2>2 DEF Kind, Last, ByWallet
  <2> HIDE DEF o
  <2>4. Takes(o, "send") BY <1>1, <2>1 DEF Takes, SessionOK
  <2> QED BY <2>3, <2>4, TakesChains
<1>5. ASSUME NEW o \in wire, BrowserReceive(o) PROVE ChainInv'
  <2>1. /\ session # None /\ Seals(o)
        /\ session' = [session EXCEPT !.head = o, !.pend = "received",
                                      !.auth = Retain(session.auth, o)]
        /\ UNCHANGED <<disk, wallet, wire>>
    BY <1>5 DEF BrowserReceive
  <2>2. Takes(o, "received") BY <1>1, <2>1 DEF Takes, SessionOK
  <2> QED BY <2>2, TakesChains
<1> QED BY <1>2, <1>3, <1>4, <1>5

(* Sealing moves the sealed head to the session's. *)
LEMMA SealingChains ==
  ASSUME RInv, ChainInv, WriteCheckpoint
  PROVE  ChainInv'
<1>1. /\ session # None /\ session.pend # None /\ disk' = [disk EXCEPT !.ckpt = {Sealed(session)}]
      /\ UNCHANGED <<session, wallet, wire>>
  BY DEF WriteCheckpoint
<1>2. Barrier(session, disk) /\ DiskOK(disk, agreed, hub.row) BY DEF ChainInv, RInv
<1>3. PICK new : new = Sealed(session) OBVIOUS
<1>4. disk'.ckpt = {new} /\ new.head = session.head /\ new.channel = session.channel
  BY <1>1, <1>2, <1>3 DEF DiskOK, Sealed
<1>5. session.channel = TRUE BY <1>1, <1>2 DEF Barrier
<1>6. Barrier(session', disk') BY <1>1, <1>2, <1>4, <1>5 DEF Barrier
<1>7. BrowserSent(wire', disk')
  <2> SUFFICES ASSUME NEW o \in wire, Kind(o) \notin ByWallet PROVE Beginning(o, session.head)
    BY <1>1, <1>4 DEF BrowserSent
  <2>1. PICK c \in disk.ckpt : Beginning(o, c.head) BY DEF ChainInv, BrowserSent
  <2>2. \/ session.head = c.head
        \/ session.head # <<>> /\ Front(session.head) = c.head
    BY <1>1, <1>2, <2>1 DEF Barrier, RInv, SessionOK
  <2> QED BY <1>1, <2>1, <2>2, WireObjects, BeginningOfNext
<1>8. WalletSent(wire', wallet') /\ WalletOnce(wire') BY <1>1 DEF ChainInv
<1> QED BY <1>1, <1>6, <1>7, <1>8 DEF ChainInv

(* A browser's object joins the relay when it is what is sealed. *)
LEMMA ReleaseChains ==
  ASSUME RInv, ChainInv, NEW c \in disk.ckpt, disk.ckpt = {c},
         wire' \subseteq wire \cup {c.head}, c.head \in wire' \ wire => Kind(c.head) \notin ByWallet,
         UNCHANGED <<disk, wallet>>
  PROVE  BrowserSent(wire', disk') /\ WalletSent(wire', wallet') /\ WalletOnce(wire')
<1>1. BrowserSent(wire', disk)
  BY WireObjects, BeginningOfSelf DEF ChainInv, BrowserSent
<1>2. \A o \in wire' : Kind(o) \in ByWallet => o \in wire OBVIOUS
<1>3. WalletSent(wire', wallet) BY <1>2 DEF ChainInv, WalletSent
<1>4. WalletOnce(wire') BY <1>2 DEF ChainInv, WalletOnce
<1> QED BY <1>1, <1>3, <1>4

LEMMA PersistedChains ==
  ASSUME RInv, ChainInv, CheckpointPersisted
  PROVE  ChainInv'
<1>1. /\ session # None /\ session.pend # None /\ session' = Released
      /\ disk.ckpt = {Sealed(session)}
      /\ wire' = IF session.pend = "send" THEN wire \cup {session.head} ELSE wire
      /\ UNCHANGED <<disk, wallet>>
  BY DEF CheckpointPersisted, Durable
<1>2. Barrier(session, disk) /\ SessionOK(session, agreed, hub.row) BY DEF ChainInv, RInv
<1>3. PICK c : c = Sealed(session) OBVIOUS
<1>4. disk.ckpt = {c} /\ c.head = session.head BY <1>1, <1>3 DEF Sealed
<1>5. BrowserSent(wire', disk') /\ WalletSent(wire', wallet') /\ WalletOnce(wire')
  <2>1. c.head \in wire' \ wire => Kind(c.head) \notin ByWallet BY <1>1, <1>2, <1>4 DEF Barrier
  <2> QED BY <1>1, <1>4, <2>1, ReleaseChains
<1>6. session'.head = session.head /\ session'.channel = session.channel /\ session'.pend = None
  BY <1>1, <1>2, CeremonyAssumption DEF Released, SessionOK
<1>7. Barrier(session', disk)
  <2>1. session.channel = TRUE /\ c.channel = TRUE BY <1>1, <1>2, <1>4 DEF Barrier
  <2> QED BY <1>4, <1>6, <2>1, CeremonyAssumption DEF Barrier
<1> QED BY <1>1, <1>5, <1>7 DEF ChainInv

(* A restored session builds on the sealed head and sends it once more. *)
LEMMA RestoreChains ==
  ASSUME RInv, ChainInv, Restore
  PROVE  ChainInv'
<1>1. PICK c \in disk.ckpt :
        /\ session' = [FreshSession EXCEPT !.head = c.head, !.channel = c.channel,
                         !.transcript = c.channel, !.last = LastReceived(c.head),
                         !.auth = RestoreRetained(c.auth, LastReceived(c.head))]
        /\ wire' = IF c.head # <<>> /\ Kind(c.head) \notin ByWallet
                   THEN wire \cup {c.head} ELSE wire
        /\ UNCHANGED <<hub, disk, wallet, agreed>>
  BY DEF Restore
<1>2. Barrier(session, disk) /\ disk.ckpt = {c} BY <1>1 DEF ChainInv, Barrier
<1>3. BrowserSent(wire', disk') /\ WalletSent(wire', wallet') /\ WalletOnce(wire')
  BY <1>1, <1>2, ReleaseChains
<1>4. session'.head = c.head /\ session'.channel = c.channel /\ session'.pend = None
  BY <1>1 DEF FreshSession, Fresh
<1>5. Barrier(session', disk) BY <1>2, <1>4, CeremonyAssumption DEF Barrier
<1> QED BY <1>1, <1>3, <1>5 DEF ChainInv

(* The wallet goes on from its head; what it sends is where it now stands. *)
LEMMA WalletMovesChains ==
  ASSUME RInv, RInv', ChainInv, UNCHANGED <<session, disk>>,
         wallet.live = TRUE, wallet'.live = TRUE,
         \/ wallet'.head = wallet.head
         \/ wallet'.head # <<>> /\ (wallet.head = <<>> \/ Front(wallet'.head) = wallet.head),
         wire \subseteq wire', wire' \subseteq wire \cup {wallet'.head},
         wallet'.head \in wire' \ wire => Kind(wallet'.head) \in ByWallet
  PROVE  ChainInv'
<1>1. /\ \A o \in wire : o # <<>> /\ IsObject(o)
      /\ IsObject(wallet.head) /\ IsObject(wallet'.head)
      /\ \A o \in wire' : o # <<>> /\ IsObject(o)
  <2>1. IsObject(wallet'.head) BY DEF RInv, WalletOK, Sound, IsObject
  <2>2. \A o \in wire' : o # <<>> /\ IsObject(o) BY DEF RInv, WireOK, Sound, IsObject
  <2> QED BY <2>1, <2>2, WireObjects
<1>2. BrowserSent(wire', disk') BY DEF ChainInv, BrowserSent
<1>3. WalletSent(wire', wallet')
  <2> SUFFICES ASSUME NEW o \in wire', Kind(o) \in ByWallet PROVE Beginning(o, wallet'.head)
    BY DEF WalletSent
  <2>1. CASE o = wallet'.head BY <1>1, <2>1, BeginningOfSelf
  <2>2. CASE o \in wire
    <3>1. Beginning(o, wallet.head) BY <2>2 DEF ChainInv, WalletSent
    <3>2. wallet.head # <<>> BY <1>1, <2>2, <3>1, BeginningOfNothing
    <3> QED BY <1>1, <2>2, <3>1, <3>2, BeginningOfNext
  <2> QED BY <2>1, <2>2
<1>4. WalletOnce(wire') BY <1>1, <1>3, LiveOnce
<1>5. Barrier(session', disk') BY DEF ChainInv
<1> QED BY <1>2, <1>3, <1>4, <1>5 DEF ChainInv

(* What a wallet appends and sends. *)
LEMMA WalletAppendsChains ==
  ASSUME RInv, RInv', ChainInv, NEW kinds, AtHead(kinds), NEW b, b.kind \in ByWallet, NEW auth, NEW held,
         wallet' = [wallet EXCEPT !.head = Append(wallet.head, b), !.auth = auth, !.held = held],
         wire' = wire \cup {Append(wallet.head, b)} \/ wire' = wire,
         UNCHANGED <<session, disk>>
  PROVE  ChainInv'
<1> DEFINE o == Append(wallet.head, b)
<1>1. WalletOK(wallet, agreed, hub.row) /\ wallet.live = TRUE BY DEF RInv, AtHead, ChainInv
<1>2. o # <<>> /\ Front(o) = wallet.head /\ Last(o) = b BY <1>1, AppendIs DEF WalletOK, Sound
<1> HIDE DEF o
<1>3. wallet'.head = o /\ wallet'.live = TRUE BY <1>1 DEF WalletOK, o
<1>4. wire' = wire \cup {o} \/ wire' = wire BY DEF o
<1> QED BY <1>1, <1>2, <1>3, <1>4, WalletMovesChains DEF Kind

LEMMA WalletChains ==
  ASSUME RInv, RInv', ChainInv,
         \/ StopWallet \/ WalletPreview \/ WalletSeal \/ WalletSend \/ WalletRefuse
         \/ WalletIntent("intent-approve") \/ WalletIntent("intent-decline")
         \/ WalletFinal("final-approve") \/ WalletFinal("final-decline")
         \/ \E o \in wire : WalletOffer(o) \/ WalletCompared(o) \/ WalletReceipt(o)
  PROVE  ChainInv'
<1>1. WalletOK(wallet, agreed, hub.row) /\ wallet.live \in BOOLEAN BY DEF RInv, ChainInv
<1>3. CASE StopWallet
  <2>1. /\ wallet' = [wallet EXCEPT !.live = FALSE, !.head = <<>>, !.auth = None]
        /\ UNCHANGED <<session, disk, wire>>
    BY <1>3 DEF StopWallet
  <2>2. wallet'.live = FALSE BY <1>1, <2>1 DEF WalletOK
  <2>3. Barrier(session', disk') /\ BrowserSent(wire', disk') /\ WalletOnce(wire')
    BY <2>1 DEF ChainInv
  <2> QED BY <2>2, <2>3 DEF ChainInv, WalletSent
<1>4. CASE WalletPreview
  <2> DEFINE b == Preparation(wallet.auth, WalletDid)
             o == Append(wallet.head, b)
  <2>1. /\ AtHead({"intent-approve"}) /\ b.kind \in ByWallet
        /\ wallet' = [wallet EXCEPT !.head = o, !.auth = Retain(wallet.auth, o)]
        /\ wire' = wire \cup {o} /\ UNCHANGED <<session, disk>>
    BY <1>4 DEF WalletPreview, Send, Preparation, ByWallet
  <2>2. wallet' = [wallet EXCEPT !.head = o, !.auth = Retain(wallet.auth, o), !.held = wallet.held]
    BY <1>1, <2>1 DEF WalletOK
  <2> QED BY <2>1, <2>2, WalletAppendsChains
<1>5. CASE WalletSeal
  <2> DEFINE b == Payload(wallet.auth)
             o == Append(wallet.head, b)
  <2>1. /\ AtHead(BeforePayload) /\ b.kind \in ByWallet
        /\ wallet' = [wallet EXCEPT !.head = o, !.auth = Retain(wallet.auth, o), !.held = o]
        /\ UNCHANGED <<session, disk, wire>>
    BY <1>1, <1>5 DEF WalletSeal, WalletOK, Payload, ByWallet
  <2> QED BY <2>1, WalletAppendsChains
<1>6. CASE WalletSend
  <2>1. wallet.live /\ Kind(wallet.head) = "payload" /\ wallet.held = wallet.head
        /\ wire' = wire \cup {wallet.head} /\ UNCHANGED <<session, disk, wallet>>
    BY <1>1, <1>6 DEF WalletSend, Send, AtHead, RequirePredecessor, WalletOK
  <2> QED BY <1>1, <2>1, WalletMovesChains DEF ByWallet
<1>7. CASE WalletRefuse
  <2>1. /\ AtHead(Refusable) /\ Refusal.kind \in ByWallet
        /\ wallet' = [wallet EXCEPT !.head = Append(wallet.head, Refusal)]
        /\ wire' = wire \cup {Append(wallet.head, Refusal)} /\ UNCHANGED <<session, disk>>
    BY <1>7 DEF WalletRefuse, Send, Refusal, ByWallet
  <2>2. wallet' = [wallet EXCEPT !.head = Append(wallet.head, Refusal),
                                 !.auth = wallet.auth, !.held = wallet.held]
    BY <1>1, <2>1 DEF WalletOK
  <2> QED BY <2>1, <2>2, WalletAppendsChains
<1>8. ASSUME NEW d \in {"intent-approve", "intent-decline"}, WalletIntent(d) PROVE ChainInv'
  <2> DEFINE b == IntentDecision(wallet.auth, d)
             o == Append(wallet.head, b)
  <2>1. /\ AtHead({"offer"}) /\ b.kind \in ByWallet
        /\ wallet' = [wallet EXCEPT !.head = o]
        /\ wire' = wire \cup {o} /\ UNCHANGED <<session, disk>>
    BY <1>8 DEF WalletIntent, Send, IntentDecision, ByWallet
  <2>2. wallet' = [wallet EXCEPT !.head = o, !.auth = wallet.auth, !.held = wallet.held]
    BY <1>1, <2>1 DEF WalletOK
  <2> QED BY <2>1, <2>2, WalletAppendsChains
<1>9. ASSUME NEW d \in {"final-approve", "final-decline"}, WalletFinal(d) PROVE ChainInv'
  <2> DEFINE b == FinalDecision(wallet.auth, d)
             o == Append(wallet.head, b)
  <2>1. /\ AtHead(Compared) /\ b.kind \in ByWallet
        /\ wallet' = [wallet EXCEPT !.head = o]
        /\ wire' = wire \cup {o} /\ UNCHANGED <<session, disk>>
    BY <1>9 DEF WalletFinal, Send, FinalDecision, ByWallet
  <2>2. wallet' = [wallet EXCEPT !.head = o, !.auth = wallet.auth, !.held = wallet.held]
    BY <1>1, <2>1 DEF WalletOK
  <2> QED BY <2>1, <2>2, WalletAppendsChains
<1>10. ASSUME NEW o \in wire, WalletOffer(o) \/ WalletCompared(o) \/ WalletReceipt(o) PROVE ChainInv'
  <2>1. /\ wallet.live /\ UNCHANGED <<session, disk, wire>>
        /\ wallet.head = <<>> \/ Front(o) = wallet.head
        /\ \/ wallet' = [wallet EXCEPT !.head = o, !.auth = Bind(o[1].core)]
           \/ wallet' = [wallet EXCEPT !.head = o]
           \/ wallet' = [wallet EXCEPT !.head = o, !.done = Last(o).status]
    BY <1>10 DEF WalletOffer, WalletCompared, WalletReceipt, AtHead
  <2>2. wallet'.head = o /\ wallet'.live = wallet.live BY <1>1, <2>1 DEF WalletOK
  <2>3. o # <<>> BY WireObjects
  <2> QED BY <1>1, <2>1, <2>2, <2>3, WalletMovesChains
<1> QED BY <1>3, <1>4, <1>5, <1>6, <1>7, <1>8, <1>9, <1>10

LEMMA NextChains ==
  ASSUME RInv, RInv', ChainInv, [Next]_vars
  PROVE  ChainInv'
<1>1. CASE Browser
  <2>1. CASE New \/ Establish BY <2>1, StartsChains
  <2>2. CASE \/ PrepareComparison \/ PrepareReceipt
             \/ \E core \in hub.signed, s \in hub.statuses : PrepareOffer(core, s)
             \/ \E o \in wire : BrowserReceive(o)
    BY <2>2, BuildsChains
  <2>3. CASE \/ Stage \/ Activate \/ StopBrowser
             \/ \E core \in hub.prepared : DevicePossession(core)
             \/ \E core \in hub.signed, s \in hub.statuses : RestoreContext(core, s)
             \/ \E core \in hub.signed : CloseFromDisk(core)
    BY <2>3, QuietChains
  <2>4. CASE WriteCheckpoint BY <2>4, SealingChains
  <2>5. CASE CheckpointPersisted BY <2>5, PersistedChains
  <2>6. CASE Restore BY <2>6, RestoreChains
  <2> QED BY <1>1, <2>1, <2>2, <2>3, <2>4, <2>5, <2>6 DEF Browser
<1>2. CASE Hub \/ Tick \/ UNCHANGED vars BY <1>2, QuietChains
<1>3. CASE Wallet
  <2>1. CASE WalletAsk \/ WalletSettle BY <2>1, QuietChains
  <2>2. CASE \/ StopWallet \/ WalletPreview \/ WalletSeal \/ WalletSend \/ WalletRefuse
             \/ WalletIntent("intent-approve") \/ WalletIntent("intent-decline")
             \/ WalletFinal("final-approve") \/ WalletFinal("final-decline")
             \/ \E o \in wire : WalletOffer(o) \/ WalletCompared(o) \/ WalletReceipt(o)
    BY <2>2, WalletChains
  <2> QED BY <1>3, <2>1, <2>2 DEF Wallet
<1> QED BY <1>1, <1>2, <1>3 DEF Next

LEMMA InitChains == Init => ChainInv
BY DEF Init, ChainInv, Barrier, BrowserSent, WalletSent, WalletOnce

(* Whatever is lost, restored or prepared again, no party hands the relay two
   different successors of one object: the browser releases only what its
   checkpoint holds and builds only on that (prepare_application_object,
   checkpoint_persisted), and a wallet that has stopped sends nothing more. *)
THEOREM OneSuccessorAlways == Spec => []OneSuccessor
<1>1. Init => RInv /\ ChainInv BY InitRInv, InitChains
<1>2. RInv /\ ChainInv /\ [Next]_vars => RInv' /\ ChainInv' BY NextRInv, NextChains
<1>3. RInv /\ ChainInv => OneSuccessor BY ChainsSuffice
<1> QED BY <1>1, <1>2, <1>3, PTL DEF Spec

-----------------------------------------------------------------------------
(* What a comparison rests on                                              *)

\* Every comparison in o carries a status the hub signed for the core o begins
\* with, which binds the account to nobody or to the issuer just previewed.
Backed(o, statuses) == \A n \in DOMAIN o : o[n].kind \in Compared =>
  /\ n > 1
  /\ o[n].status \in statuses /\ o[n].status.core = o[1].core
  /\ o[n].status.did \in {None, o[n - 1].did}

\* While a preparation is the head, its issuer is the one retained.
PreviewIs(auth, head) ==
  head # <<>> /\ Kind(head) = "preparation" => auth.preview = Last(head).did

SessionBacked(s, statuses) == s # None =>
  /\ s.status \in statuses \cup {None}
  /\ Backed(s.head, statuses) /\ PreviewIs(s.auth, s.head)
BackInv == /\ \A o \in wire : Backed(o, hub.statuses)
           /\ SessionBacked(session, hub.statuses)
           /\ \A c \in disk.ckpt : Backed(c.head, hub.statuses) /\ PreviewIs(c.auth, c.head)
           /\ Backed(wallet.head, hub.statuses)

(* More statuses, and more bodies, leave what is backed backed. *)
LEMMA BackedGrows ==
  ASSUME NEW o, NEW S, NEW T, Backed(o, S), S \subseteq T PROVE Backed(o, T)
BY DEF Backed

LEMMA BackedNothing ==
  ASSUME NEW S PROVE Backed(<<>>, S) /\ \A auth : PreviewIs(auth, <<>>)
<1>1. DOMAIN <<>> = {} BY SelfSeq, EmptySeq
<1> QED BY <1>1 DEF Backed, PreviewIs

LEMMA BackedAppend ==
  ASSUME NEW S, NEW s, IsObject(s), s # <<>>, Backed(s, S), NEW b,
         b.kind \in Compared => /\ b.status \in S /\ b.status.core = s[1].core
                                /\ b.status.did \in {None, Last(s).did}
  PROVE  Backed(Append(s, b), S)
<1> DEFINE o == Append(s, b)
<1>1. /\ DOMAIN o = 1..(Len(s) + 1) /\ Len(s) \in Nat /\ DOMAIN s = 1..Len(s)
      /\ \A n \in 1..Len(s) : o[n] = s[n]
      /\ o[Len(s) + 1] = b
  BY AppendIs DEF IsObject
<1>2. Len(s) # 0 BY EmptySeq DEF IsObject
<1> HIDE DEF o
<1>m. PICK m : m = Len(s) OBVIOUS
<1>3. m \in Nat /\ m >= 1 /\ m = Len(s) BY <1>1, <1>2, <1>m
<1>4. o[1] = s[1] /\ Last(s) = s[m] /\ o[m] = s[m] /\ o[m + 1] = b BY <1>1, <1>3 DEF Last
<1>5. ASSUME NEW n \in 1..(m + 1), o[n].kind \in Compared
      PROVE  /\ n > 1
             /\ o[n].status \in S /\ o[n].status.core = o[1].core
             /\ o[n].status.did \in {None, o[n - 1].did}
  <2>1. CASE n \in 1..m
    <3>1. n \in DOMAIN s /\ o[n] = s[n] BY <1>1, <1>3, <2>1
    <3>2. n > 1 BY <1>5, <3>1 DEF Backed
    <3>3. n - 1 \in 1..m /\ o[n - 1] = s[n - 1] BY <1>1, <1>3, <2>1, <3>2
    <3> QED BY <1>4, <1>5, <3>1, <3>2, <3>3 DEF Backed
  <2>2. CASE n = m + 1
    <3>1. n > 1 /\ n - 1 = m BY <1>3, <2>2
    <3>2. o[n] = b BY <1>4, <2>2
    <3> QED BY <1>4, <1>5, <3>1, <3>2
  <2> QED BY <1>3, <2>1, <2>2
<1> QED BY <1>1, <1>3, <1>5 DEF Backed, o

(* The hub forgets no status it has signed. *)
LEMMA StatusesGrow ==
  ASSUME RInv, [Next]_vars PROVE hub.statuses \subseteq hub'.statuses
<1>1. DOMAIN hub = {"prepared", "proven", "signed", "statuses", "account", "binding", "rooms",
                    "staged", "witnesses", "row", "closed", "profile"}
  BY DEF RInv, HubOK
<1>2. CASE Hub
  <2>1. CASE HubPrepare BY <1>1, <2>1 DEF HubPrepare
  <2>2. CASE Elsewhere
    <3>1. \/ \E r \in Snapshots : hub' = [hub EXCEPT !.rooms = r]
          \/ \E d \in Dids : hub' = [hub EXCEPT !.binding = d]
      BY <2>2 DEF Elsewhere
    <3> QED BY <1>1, <3>1
  <2>3. CASE HubFence BY <1>1, <2>3 DEF HubFence
  <2>4. CASE HubRotate BY <1>1, <2>4 DEF HubRotate
  <2>5. CASE \E core \in hub.prepared : HubFinalizeOffer(core) BY <1>1, <2>5 DEF HubFinalizeOffer
  <2>6. CASE \E f \in hub.staged : HubVerify(f) BY <1>1, <2>6 DEF HubVerify
  <2>7. CASE \E w \in hub.witnesses : HubAccept(w) BY <1>1, <2>7 DEF HubAccept
  <2> QED BY <1>2, <2>1, <2>2, <2>3, <2>4, <2>5, <2>6, <2>7 DEF Hub
<1>3. CASE Browser
  <2>1. CASE Stage BY <1>1, <2>1 DEF Stage
  <2>2. CASE \E core \in hub.prepared : DevicePossession(core) BY <1>1, <2>2 DEF DevicePossession
  <2>3. CASE UNCHANGED hub BY <2>3
  <2> QED BY <1>3, <2>1, <2>2, <2>3
    DEF Browser, New, Establish, PrepareComparison, Activate, PrepareReceipt, PrepareOffer,
        BrowserReceive, WriteCheckpoint, CheckpointPersisted, StopBrowser, Restore,
        RestoreContext, CloseFromDisk
<1>4. CASE Wallet \/ Tick \/ UNCHANGED vars
  BY <1>4 DEF Wallet, Tick, vars, WalletOffer, WalletCompared, WalletReceipt, WalletIntent, Send,
              WalletPreview, WalletSeal, WalletSend, WalletRefuse, StopWallet, WalletFinal,
              WalletAsk, WalletSettle
<1> QED BY <1>2, <1>3, <1>4 DEF Next

(* It is enough to look at what a step adds. *)
LEMMA BackStep ==
  ASSUME RInv, BackInv, [Next]_vars,
         SessionBacked(session, hub'.statuses) => SessionBacked(session', hub'.statuses),
         \A o \in wire' : o \in wire \/ Backed(o, hub'.statuses),
         \A c \in disk'.ckpt : \/ c \in disk.ckpt
                               \/ Backed(c.head, hub'.statuses) /\ PreviewIs(c.auth, c.head),
         wallet'.head = wallet.head \/ Backed(wallet'.head, hub'.statuses)
  PROVE  BackInv'
<1>1. hub.statuses \subseteq hub'.statuses BY StatusesGrow
<1>2. \A o : Backed(o, hub.statuses) => Backed(o, hub'.statuses) BY <1>1, BackedGrows
<1>3. SessionBacked(session', hub'.statuses) BY <1>1, <1>2 DEF BackInv, SessionBacked
<1> QED BY <1>2, <1>3 DEF BackInv

(* A step that adds no object. *)
LEMMA BackQuiet ==
  ASSUME RInv, BackInv, [Next]_vars, wire' = wire, disk'.ckpt = disk.ckpt,
         \/ session' = session \/ session' = None
         \/ /\ session # None /\ session'.head = session.head /\ session'.auth = session.auth
            /\ session'.status = session.status \/ session'.status \in hub'.statuses,
         wallet'.head = wallet.head \/ wallet'.head = <<>> \/ wallet'.head \in wire
  PROVE  BackInv'
<1>1. hub.statuses \subseteq hub'.statuses BY StatusesGrow
<1>2. SessionBacked(session, hub'.statuses) => SessionBacked(session', hub'.statuses)
  BY DEF SessionBacked
<1>3. wallet'.head = wallet.head \/ Backed(wallet'.head, hub'.statuses)
  BY <1>1, BackedNothing, BackedGrows DEF BackInv
<1> QED BY <1>2, <1>3, BackStep

(* The hub, the clock, recovery, and what takes or builds no object. *)
LEMMA QuietBack ==
  ASSUME RInv, BackInv, [Next]_vars,
         \/ Hub \/ Tick \/ WalletAsk \/ WalletSettle \/ UNCHANGED vars
         \/ Stage \/ Activate \/ StopBrowser \/ Establish \/ StopWallet
         \/ \E core \in hub.prepared : DevicePossession(core)
         \/ \E core \in hub.signed, s \in hub.statuses : RestoreContext(core, s)
         \/ \E core \in hub.signed : CloseFromDisk(core)
         \/ \E o \in wire : WalletOffer(o) \/ WalletCompared(o) \/ WalletReceipt(o)
  PROVE  BackInv'
<1>1. WalletOK(wallet, agreed, hub.row) /\ DiskOK(disk, agreed, hub.row)
      /\ SessionOK(session, agreed, hub.row)
  BY DEF RInv
<1>2. CASE Hub
  <2>1. UNCHANGED <<session, disk, wallet, wire>>
    BY <1>2 DEF Hub, HubPrepare, Elsewhere, HubFence, HubRotate, HubFinalizeOffer, HubVerify, HubAccept
  <2> QED BY <2>1, BackQuiet
<1>3. CASE Tick \/ WalletAsk \/ UNCHANGED vars \/ Stage
  <2>1. UNCHANGED <<session, disk, wallet, wire>> BY <1>3 DEF Tick, WalletAsk, vars, Stage
  <2> QED BY <2>1, BackQuiet
<1>4. CASE WalletSettle
  <2>1. UNCHANGED <<session, disk, wire>>
        /\ (wallet' = wallet \/ wallet' = [wallet EXCEPT !.done = Outcome(HubAnswer)])
    BY <1>4 DEF WalletSettle
  <2>2. wallet'.head = wallet.head BY <1>1, <2>1 DEF WalletOK
  <2> QED BY <2>1, <2>2, BackQuiet
<1>5. CASE StopBrowser
  <2>1. UNCHANGED <<disk, wallet, wire>> /\ session' = None BY <1>5 DEF StopBrowser
  <2> QED BY <2>1, BackQuiet
<1>6. CASE StopWallet
  <2>1. /\ UNCHANGED <<session, disk, wire>>
        /\ wallet' = [wallet EXCEPT !.live = FALSE, !.head = <<>>, !.auth = None]
    BY <1>6 DEF StopWallet
  <2>2. wallet'.head = <<>> BY <1>1, <2>1 DEF WalletOK
  <2> QED BY <2>1, <2>2, BackQuiet
<1>7. CASE Activate \/ \E core \in hub.signed : CloseFromDisk(core)
  <2>1. UNCHANGED <<session, wallet, wire>> /\ disk' = [disk EXCEPT !.active = hub.row]
    BY <1>7 DEF Activate, CloseFromDisk
  <2>2. disk'.ckpt = disk.ckpt BY <1>1, <2>1 DEF DiskOK
  <2> QED BY <2>1, <2>2, BackQuiet
<1>8. CASE Establish \/ \E core \in hub.prepared : DevicePossession(core)
  <2>1. /\ UNCHANGED <<disk, wallet, wire>> /\ session # None
        /\ \/ session' = [session EXCEPT !.channel = TRUE, !.pend = "established"]
           \/ \E core \in hub.prepared : session' = [session EXCEPT !.prepared = core]
    BY <1>8 DEF Establish, DevicePossession
  <2>2. /\ session'.head = session.head /\ session'.auth = session.auth
        /\ session'.status = session.status
    BY <1>1, <2>1 DEF SessionOK
  <2> QED BY <2>1, <2>2, BackQuiet
<1>9. ASSUME NEW core \in hub.signed, NEW s \in hub.statuses, RestoreContext(core, s) PROVE BackInv'
  <2>1. /\ UNCHANGED <<hub, disk, wallet, wire>> /\ session # None
        /\ session' = [session EXCEPT !.prepared = core, !.kid = TRUE, !.status = s]
    BY <1>9 DEF RestoreContext
  <2>2. /\ session'.head = session.head /\ session'.auth = session.auth
        /\ session'.status = s
    BY <1>1, <2>1 DEF SessionOK
  <2> QED BY <2>1, <2>2, BackQuiet
<1>10. ASSUME NEW o \in wire, WalletOffer(o) \/ WalletCompared(o) \/ WalletReceipt(o) PROVE BackInv'
  <2>1. /\ UNCHANGED <<session, disk, wire>>
        /\ \/ wallet' = [wallet EXCEPT !.head = o, !.auth = Bind(o[1].core)]
           \/ wallet' = [wallet EXCEPT !.head = o]
           \/ wallet' = [wallet EXCEPT !.head = o, !.done = Last(o).status]
    BY <1>10 DEF WalletOffer, WalletCompared, WalletReceipt
  <2>2. wallet'.head = o BY <1>1, <2>1 DEF WalletOK
  <2> QED BY <2>1, <2>2, BackQuiet
<1> QED BY <1>2, <1>3, <1>4, <1>5, <1>6, <1>7, <1>8, <1>9, <1>10

\* The session's new head and authority are as good as any.
SessionMoves == /\ UNCHANGED <<hub, disk, wallet, wire>>
                /\ session'.status \in hub.statuses \cup {None}
                /\ Backed(session'.head, hub.statuses)
                /\ PreviewIs(session'.auth, session'.head)

LEMMA MovesBack ==
  ASSUME RInv, BackInv, [Next]_vars, SessionMoves
  PROVE  BackInv'
<1>1. SessionBacked(session', hub'.statuses) BY DEF SessionMoves, SessionBacked
<1> QED BY <1>1, BackStep DEF SessionMoves

(* A new session holds nothing, and an offer holds no comparison. *)
LEMMA StartBack ==
  ASSUME RInv, BackInv, [Next]_vars,
         New \/ \E core \in hub.signed, s \in hub.statuses : PrepareOffer(core, s)
  PROVE  BackInv'
<1>1. CASE New
  <2>1. session' = FreshSession /\ UNCHANGED <<hub, disk, wallet, wire>> BY <1>1 DEF New
  <2>2. session'.head = <<>> /\ session'.status = None BY <2>1 DEF FreshSession, Fresh
  <2> QED BY <2>1, <2>2, BackedNothing, MovesBack DEF SessionMoves
<1>2. ASSUME NEW core \in hub.signed, NEW s \in hub.statuses, PrepareOffer(core, s) PROVE BackInv'
  <2> DEFINE o == OfferObject(core)
  <2>1. /\ session # None /\ UNCHANGED <<hub, disk, wallet, wire>>
        /\ session' = [session EXCEPT !.auth = Bind(core), !.kid = TRUE, !.status = s,
                                      !.head = o, !.pend = "send"]
    BY <1>2 DEF PrepareOffer
  <2>2. DOMAIN o = {1} /\ Len(o) = 1 /\ o[1].kind = "offer" BY DEF OfferObject
  <2>3. Kind(o) = "offer" BY <2>2 DEF Kind, Last
  <2>4. Backed(o, hub.statuses) /\ PreviewIs(Bind(core), o)
    BY <2>2, <2>3 DEF Backed, PreviewIs, Compared
  <2> HIDE DEF o
  <2>5. session'.head = o /\ session'.auth = Bind(core) /\ session'.status = s
    BY <2>1 DEF RInv, SessionOK
  <2> QED BY <2>1, <2>4, <2>5, MovesBack DEF SessionMoves
<1> QED BY <1>1, <1>2

(* When the wallet spoke last, what was received last is the head. *)
LEMMA HeadReceived ==
  ASSUME NEW head, IsObject(head), head # <<>>, Kind(head) \in ByWallet
  PROVE  LastReceived(head) = head
<1>0. PICK m : m = Len(head) OBVIOUS
<1>1. m \in Nat /\ m >= 1 /\ DOMAIN head = 1..m BY <1>0, SelfSeq, EmptySeq DEF IsObject
<1> DEFINE theirs == {n \in 1..m : head[n].kind \in ByWallet}
<1>2. m \in theirs BY <1>0, <1>1 DEF Kind, Last
<1>3. \A n \in theirs : (\A k \in theirs : k <= n) <=> n = m BY <1>1, <1>2
<1>4. (CHOOSE n \in theirs : \A k \in theirs : k <= n) = m BY <1>2, <1>3
<1>5. LastReceived(head) = SubSeq(head, 1, m) BY <1>0, <1>2, <1>4 DEF LastReceived
<1>6. SubSeq(head, 1, m) = head
  <2> DEFINE t == SubSeq(head, 1, m)
  <2>1. \A n \in 1..m : head[n] \in Range(head) BY <1>1 DEF Range
  <2>2. /\ t \in Seq(Range(head)) /\ Len(t) = m
        /\ \A n \in 1..m : t[n] = head[n]
    BY <1>1, <2>1, SubSeqProperties
  <2> HIDE DEF t
  <2>3. t = head BY <1>0, <1>1, <2>2, SeqEqual DEF IsObject
  <2> QED BY <2>3 DEF t
<1> QED BY <1>5, <1>6

(* What arrives on the relay is backed, and a preparation is retained. *)
LEMMA ReceiveBack ==
  ASSUME RInv, BackInv, [Next]_vars, NEW o \in wire, BrowserReceive(o)
  PROVE  BackInv'
<1>1. /\ session # None /\ session.auth # None
      /\ UNCHANGED <<hub, disk, wallet, wire>>
      /\ session' = [session EXCEPT !.head = o, !.pend = "received",
                                    !.auth = Retain(session.auth, o)]
  BY DEF BrowserReceive, VerifyBody
<1>2. SessionOK(session, agreed, hub.row) BY DEF RInv
<1>3. /\ session'.head = o /\ session'.status = session.status
      /\ session'.auth = Retain(session.auth, o)
  BY <1>1, <1>2 DEF SessionOK
<1>4. IsAuth(session.auth) BY <1>1, <1>2 DEF SessionOK, AuthOK
<1>5. PreviewIs(Retain(session.auth, o), o) BY <1>4 DEF PreviewIs, Retain, IsAuth
<1>6. Backed(o, hub.statuses) /\ session.status \in hub.statuses \cup {None}
  BY <1>1 DEF BackInv, SessionBacked
<1> QED BY <1>1, <1>3, <1>5, <1>6, MovesBack DEF SessionMoves

(* What the session builds on its head, where a comparison is backed. *)
LEMMA BuildsBack ==
  ASSUME RInv, BackInv, [Next]_vars, session # None, session.last # None, NEW b,
         Seals(Append(session.last, b)),
         session' = [session EXCEPT !.head = Append(session.last, b), !.pend = "send"],
         UNCHANGED <<hub, disk, wallet, wire>>,
         b.kind # "preparation",
         session.last = session.head /\ b.kind \in Compared =>
           /\ b.status \in hub.statuses /\ b.status.core = session.head[1].core
           /\ b.status.did \in {None, Last(session.head).did}
  PROVE  BackInv'
<1>1. /\ SessionOK(session, agreed, hub.row)
      /\ SessionBacked(session, hub.statuses)
  BY DEF RInv, BackInv
<1>2. IsObject(session.last) /\ session.head # <<>> BY <1>1 DEF SessionOK, IsObject
<1> DEFINE o == Append(session.last, b)
<1>3. Front(o) = session.last /\ Last(o) = b BY <1>2, AppendIs DEF IsObject
<1>4. session.last = session.head BY <1>3 DEF Seals
<1>5. Backed(o, hub.statuses) BY <1>1, <1>2, <1>4, BackedAppend DEF SessionBacked
<1>6. PreviewIs(session.auth, o) BY <1>3 DEF PreviewIs, Kind
<1> HIDE DEF o
<1>7. session'.head = o /\ session'.auth = session.auth /\ session'.status = session.status
  BY <1>1 DEF SessionOK, o
<1> QED BY <1>1, <1>5, <1>6, <1>7, MovesBack DEF SessionMoves, SessionBacked

(* A comparison carries the status the session holds, which speaks for the core
   and binds the account to nobody or to the preview retained; a receipt none. *)
LEMMA SpeaksBack ==
  ASSUME RInv, BackInv, [Next]_vars, PrepareComparison \/ PrepareReceipt
  PROVE  BackInv'
<1>1. CASE PrepareReceipt
  <2> DEFINE b == Receipt(disk.active)
  <2>1. /\ session # None /\ session.last # None /\ Seals(Append(session.last, b))
        /\ session' = [session EXCEPT !.head = Append(session.last, b), !.pend = "send"]
        /\ UNCHANGED <<hub, disk, wallet, wire>>
    BY <1>1 DEF PrepareReceipt, VerifyFinalStatus, Holds
  <2>2. b.kind = "receipt" BY DEF Receipt
  <2> HIDE DEF b
  <2> QED BY <2>1, <2>2, BuildsBack DEF Compared
<1>2. CASE PrepareComparison
  <2> DEFINE b == Comparison(session.auth, session.status)
  <2>1. /\ session # None /\ session.last # None /\ session.status # None
        /\ RequirePredecessor(session.auth, session.last, {"preparation"})
        /\ session.status.core = session.auth.core
        /\ ComparisonKind(session.auth, session.status) # "refused"
        /\ Seals(Append(session.last, b))
        /\ session' = [session EXCEPT !.head = Append(session.last, b), !.pend = "send"]
        /\ UNCHANGED <<hub, disk, wallet, wire>>
    BY <1>2 DEF PrepareComparison, PreparationShown, Holds, Speaks
  <2>2. b.status = session.status /\ b.kind \in Compared
    BY <2>1 DEF Comparison, ComparisonKind, Compared
  <2>3. SessionBacked(session, hub.statuses) BY DEF BackInv
  <2>4. session.last = session.head =>
          /\ b.status \in hub.statuses /\ b.status.core = session.head[1].core
          /\ b.status.did \in {None, Last(session.head).did}
    <3>1. SUFFICES ASSUME session.last = session.head
                   PROVE  /\ b.status \in hub.statuses /\ b.status.core = session.head[1].core
                          /\ b.status.did \in {None, Last(session.head).did}
      OBVIOUS
    <3>2. /\ session.head # <<>> /\ Kind(session.head) = "preparation"
          /\ session.head[1].core = session.auth.core
      BY <2>1, <3>1 DEF RequirePredecessor
    <3>3. session.auth.preview = Last(session.head).did
      BY <2>1, <2>3, <3>2 DEF SessionBacked, PreviewIs
    <3>4. session.status.did \in {None, session.auth.preview}
      BY <2>1 DEF ComparisonKind
    <3> QED BY <2>1, <2>2, <2>3, <3>2, <3>3, <3>4 DEF SessionBacked
  <2> HIDE DEF b
  <2> QED BY <2>1, <2>2, <2>4, BuildsBack DEF Compared
<1> QED BY <1>1, <1>2

(* The seal drops the payload, never the preview. *)
LEMMA SealBack ==
  ASSUME RInv, BackInv, [Next]_vars, WriteCheckpoint
  PROVE  BackInv'
<1>1. /\ session # None /\ disk' = [disk EXCEPT !.ckpt = {Sealed(session)}]
      /\ UNCHANGED <<hub, session, wallet, wire>>
  BY DEF WriteCheckpoint
<1>2. SessionOK(session, agreed, hub.row) /\ DiskOK(disk, agreed, hub.row)
      /\ SessionBacked(session, hub.statuses)
  BY DEF RInv, BackInv
<1>3. disk'.ckpt = {Sealed(session)} BY <1>1, <1>2 DEF DiskOK
<1>4. /\ Sealed(session).head = session.head
      /\ Sealed(session).auth = Checkpointed(session.auth)
  BY DEF Sealed
<1>5. PreviewIs(Checkpointed(session.auth), session.head)
  <2>1. CASE session.auth = None BY <1>1, <1>2, <2>1 DEF Checkpointed, SessionBacked
  <2>2. CASE session.head = <<>> BY <2>2 DEF PreviewIs
  <2>3. CASE session.auth # None /\ session.head # <<>>
    <3>1. IsAuth(session.auth) BY <1>1, <1>2, <2>3 DEF SessionOK, AuthOK
    <3>2. Checkpointed(session.auth).preview = session.auth.preview
      BY <2>3, <3>1 DEF Checkpointed, IsAuth
    <3> QED BY <1>1, <1>2, <3>2 DEF SessionBacked, PreviewIs
  <2> QED BY <2>1, <2>2, <2>3
<1>6. Backed(session.head, hub.statuses) BY <1>1, <1>2 DEF SessionBacked
<1> QED BY <1>1, <1>3, <1>4, <1>5, <1>6, BackStep

(* What is released or sent again was backed where it was held. *)
LEMMA ReleaseBack ==
  ASSUME RInv, BackInv, [Next]_vars, CheckpointPersisted
  PROVE  BackInv'
<1>1. /\ session # None /\ session.pend # None /\ session' = Released
      /\ wire' = IF session.pend = "send" THEN wire \cup {session.head} ELSE wire
      /\ UNCHANGED <<hub, disk, wallet>>
  BY DEF CheckpointPersisted
<1>2. SessionOK(session, agreed, hub.row) /\ SessionBacked(session, hub.statuses)
  BY DEF RInv, BackInv
<1>3. /\ session'.head = session.head /\ session'.auth = session.auth
      /\ session'.status = session.status
  BY <1>1, <1>2, CeremonyAssumption DEF Released, SessionOK
<1>4. SessionBacked(session', hub.statuses) BY <1>1, <1>2, <1>3 DEF SessionBacked
<1>5. Backed(session.head, hub.statuses) BY <1>1, <1>2 DEF SessionBacked
<1> QED BY <1>1, <1>4, <1>5, BackStep

LEMMA RestoreBack ==
  ASSUME RInv, BackInv, [Next]_vars, Restore
  PROVE  BackInv'
<1>1. PICK c \in disk.ckpt :
        /\ session' = [FreshSession EXCEPT !.head = c.head, !.channel = c.channel,
                         !.transcript = c.channel, !.last = LastReceived(c.head),
                         !.auth = RestoreRetained(c.auth, LastReceived(c.head))]
        /\ wire' = IF c.head # <<>> /\ Kind(c.head) \notin ByWallet
                   THEN wire \cup {c.head} ELSE wire
        /\ UNCHANGED <<hub, disk, wallet>>
  BY DEF Restore
<1>2. /\ Sound(c.head, agreed, hub.row) /\ AuthOK(c.auth, c.head, agreed)
      /\ Backed(c.head, hub.statuses) /\ PreviewIs(c.auth, c.head)
  BY <1>1 DEF RInv, DiskOK, BackInv
<1> DEFINE o == LastReceived(c.head)
           auth == RestoreRetained(c.auth, o)
<1>3. PreviewIs(auth, c.head)
  <2>1. SUFFICES ASSUME c.head # <<>>, Kind(c.head) = "preparation"
                 PROVE  auth.preview = Last(c.head).did
    BY DEF PreviewIs
  <2>2. o = c.head BY <1>2, <2>1, HeadReceived DEF Sound, IsObject, ByWallet
  <2>3. IsAuth(c.auth) BY <1>2, <2>1 DEF AuthOK
  <2>4. CASE o = None BY <1>2, <2>1, <2>4 DEF RestoreRetained, PreviewIs
  <2>5. CASE o # None
    <3>1. auth = Retain(c.auth, c.head) BY <2>1, <2>2, <2>5 DEF RestoreRetained
    <3> QED BY <2>1, <2>3, <3>1 DEF Retain, IsAuth
  <2> QED BY <2>4, <2>5
<1> HIDE DEF auth, o
<1>4. session' = [FreshSession EXCEPT !.head = c.head, !.channel = c.channel,
                    !.transcript = c.channel, !.last = o, !.auth = auth]
  BY <1>1 DEF auth, o
<1>5. session'.head = c.head /\ session'.auth = auth /\ session'.status = None
  BY <1>4 DEF FreshSession, Fresh
<1>6. SessionBacked(session', hub.statuses) BY <1>2, <1>3, <1>5 DEF SessionBacked
<1> QED BY <1>1, <1>2, <1>6, BackStep

(* The wallet's own bodies are no comparisons. *)
LEMMA AppendsBack ==
  ASSUME RInv, BackInv, [Next]_vars, NEW kinds, AtHead(kinds), NEW b, b.kind \notin Compared,
         NEW auth, NEW held,
         wallet' = [wallet EXCEPT !.head = Append(wallet.head, b), !.auth = auth, !.held = held],
         wire' = wire \cup {Append(wallet.head, b)} \/ wire' = wire,
         UNCHANGED <<session, disk>>
  PROVE  BackInv'
<1> DEFINE o == Append(wallet.head, b)
<1>1. WalletOK(wallet, agreed, hub.row) BY DEF RInv
<1>2. IsObject(wallet.head) /\ wallet.head # <<>> /\ Backed(wallet.head, hub.statuses)
  BY <1>1 DEF AtHead, RequirePredecessor, WalletOK, Sound, IsObject, BackInv
<1>3. Backed(o, hub.statuses) BY <1>2, BackedAppend
<1> HIDE DEF o
<1>4. wallet'.head = o BY <1>1 DEF WalletOK, o
<1>5. wire' = wire \cup {o} \/ wire' = wire BY DEF o
<1>6. Backed(o, hub'.statuses) BY <1>3, StatusesGrow, BackedGrows
<1>7. SessionBacked(session, hub'.statuses) => SessionBacked(session', hub'.statuses) OBVIOUS
<1> QED BY <1>4, <1>5, <1>6, <1>7, BackStep

LEMMA WalletBack ==
  ASSUME RInv, BackInv, [Next]_vars,
         \/ WalletPreview \/ WalletSeal \/ WalletSend \/ WalletRefuse
         \/ WalletIntent("intent-approve") \/ WalletIntent("intent-decline")
         \/ WalletFinal("final-approve") \/ WalletFinal("final-decline")
  PROVE  BackInv'
<1>1. WalletOK(wallet, agreed, hub.row) BY DEF RInv
<1>2. CASE WalletPreview
  <2> DEFINE b == Preparation(wallet.auth, WalletDid)
             o == Append(wallet.head, b)
  <2>1. /\ AtHead({"intent-approve"}) /\ b.kind \notin Compared
        /\ wallet' = [wallet EXCEPT !.head = o, !.auth = Retain(wallet.auth, o)]
        /\ wire' = wire \cup {o} /\ UNCHANGED <<session, disk>>
    BY <1>2 DEF WalletPreview, Send, Preparation, Compared
  <2>2. wallet' = [wallet EXCEPT !.head = o, !.auth = Retain(wallet.auth, o), !.held = wallet.held]
    BY <1>1, <2>1 DEF WalletOK
  <2> QED BY <2>1, <2>2, AppendsBack
<1>3. CASE WalletSeal
  <2> DEFINE b == Payload(wallet.auth)
             o == Append(wallet.head, b)
  <2>1. /\ AtHead(BeforePayload) /\ b.kind \notin Compared
        /\ wallet' = [wallet EXCEPT !.head = o, !.auth = Retain(wallet.auth, o), !.held = o]
        /\ UNCHANGED <<session, disk, wire>>
    BY <1>1, <1>3 DEF WalletSeal, WalletOK, Payload, Compared
  <2> QED BY <2>1, AppendsBack
<1>4. CASE WalletSend
  <2>1. wire' = wire \cup {wallet.head} /\ UNCHANGED <<session, disk, wallet>>
    BY <1>1, <1>4 DEF WalletSend, Send, AtHead, RequirePredecessor, WalletOK
  <2>2. Backed(wallet.head, hub'.statuses) BY StatusesGrow, BackedGrows DEF BackInv
  <2>3. SessionBacked(session, hub'.statuses) => SessionBacked(session', hub'.statuses) BY <2>1
  <2> QED BY <2>1, <2>2, <2>3, BackStep
<1>5. CASE WalletRefuse
  <2>1. /\ AtHead(Refusable) /\ Refusal.kind \notin Compared
        /\ wallet' = [wallet EXCEPT !.head = Append(wallet.head, Refusal)]
        /\ wire' = wire \cup {Append(wallet.head, Refusal)} /\ UNCHANGED <<session, disk>>
    BY <1>5 DEF WalletRefuse, Send, Refusal, Compared
  <2>2. wallet' = [wallet EXCEPT !.head = Append(wallet.head, Refusal),
                                 !.auth = wallet.auth, !.held = wallet.held]
    BY <1>1, <2>1 DEF WalletOK
  <2> QED BY <2>1, <2>2, AppendsBack
<1>6. ASSUME NEW d \in {"intent-approve", "intent-decline"}, WalletIntent(d) PROVE BackInv'
  <2> DEFINE b == IntentDecision(wallet.auth, d)
             o == Append(wallet.head, b)
  <2>1. /\ AtHead({"offer"}) /\ b.kind \notin Compared
        /\ wallet' = [wallet EXCEPT !.head = o]
        /\ wire' = wire \cup {o} /\ UNCHANGED <<session, disk>>
    BY <1>6 DEF WalletIntent, Send, IntentDecision, Compared
  <2>2. wallet' = [wallet EXCEPT !.head = o, !.auth = wallet.auth, !.held = wallet.held]
    BY <1>1, <2>1 DEF WalletOK
  <2> QED BY <2>1, <2>2, AppendsBack
<1>7. ASSUME NEW d \in {"final-approve", "final-decline"}, WalletFinal(d) PROVE BackInv'
  <2> DEFINE b == FinalDecision(wallet.auth, d)
             o == Append(wallet.head, b)
  <2>1. /\ AtHead(Compared) /\ b.kind \notin Compared
        /\ wallet' = [wallet EXCEPT !.head = o]
        /\ wire' = wire \cup {o} /\ UNCHANGED <<session, disk>>
    BY <1>7 DEF WalletFinal, Send, FinalDecision, Compared
  <2>2. wallet' = [wallet EXCEPT !.head = o, !.auth = wallet.auth, !.held = wallet.held]
    BY <1>1, <2>1 DEF WalletOK
  <2> QED BY <2>1, <2>2, AppendsBack
<1> QED BY <1>2, <1>3, <1>4, <1>5, <1>6, <1>7

LEMMA NextBack ==
  ASSUME RInv, BackInv, [Next]_vars
  PROVE  BackInv'
<1>1. CASE Browser
  <2>1. CASE New \/ \E core \in hub.signed, s \in hub.statuses : PrepareOffer(core, s)
    BY <2>1, StartBack
  <2>2. CASE \E o \in wire : BrowserReceive(o) BY <2>2, ReceiveBack
  <2>3. CASE PrepareComparison \/ PrepareReceipt BY <2>3, SpeaksBack
  <2>4. CASE \/ Stage \/ Activate \/ StopBrowser \/ Establish
             \/ \E core \in hub.prepared : DevicePossession(core)
             \/ \E core \in hub.signed, s \in hub.statuses : RestoreContext(core, s)
             \/ \E core \in hub.signed : CloseFromDisk(core)
    BY <2>4, QuietBack
  <2>5. CASE WriteCheckpoint BY <2>5, SealBack
  <2>6. CASE CheckpointPersisted BY <2>6, ReleaseBack
  <2>7. CASE Restore BY <2>7, RestoreBack
  <2> QED BY <1>1, <2>1, <2>2, <2>3, <2>4, <2>5, <2>6, <2>7 DEF Browser
<1>2. CASE Hub \/ Tick \/ UNCHANGED vars BY <1>2, QuietBack
<1>3. CASE Wallet
  <2>1. CASE \/ WalletAsk \/ WalletSettle \/ StopWallet
             \/ \E o \in wire : WalletOffer(o) \/ WalletCompared(o) \/ WalletReceipt(o)
    BY <2>1, QuietBack
  <2>2. CASE \/ WalletPreview \/ WalletSeal \/ WalletSend \/ WalletRefuse
             \/ WalletIntent("intent-approve") \/ WalletIntent("intent-decline")
             \/ WalletFinal("final-approve") \/ WalletFinal("final-decline")
    BY <2>2, WalletBack
  <2> QED BY <1>3, <2>1, <2>2 DEF Wallet
<1> QED BY <1>1, <1>2, <1>3 DEF Next

LEMMA InitBack == Init => BackInv
BY BackedNothing DEF Init, BackInv, SessionBacked

LEMMA BackSuffices ==
  ASSUME RInv, BackInv PROVE StatusBacked
<1> SUFFICES ASSUME wallet.head # <<>>, Len(wallet.head) >= 4, wallet.head[4].kind \in Compared
             PROVE  /\ wallet.head[4].status \in hub.statuses
                    /\ wallet.head[4].status.core = wallet.head[1].core
                    /\ wallet.head[4].status.did \in {None, wallet.head[3].did}
  BY DEF StatusBacked
<1>1. DOMAIN wallet.head = 1..Len(wallet.head) /\ Len(wallet.head) \in Nat
  BY WireObjects, SelfSeq DEF IsObject
<1>2. 4 \in DOMAIN wallet.head /\ 4 - 1 = 3 BY <1>1
<1> QED BY <1>2 DEF BackInv, Backed

(* However late, often or restored the objects come, a comparison the wallet
   goes on from carries a status the hub signed for this very core
   (prepare_comparison of the browser session, comparison_status of bodies.rs),
   binding the account to nobody or to the issuer the wallet
   has just previewed. *)
THEOREM StatusIsBacked == Spec => []StatusBacked
<1>1. Init => RInv /\ BackInv BY InitRInv, InitBack
<1>2. RInv /\ BackInv /\ [Next]_vars => RInv' /\ BackInv' BY NextRInv, NextBack
<1>3. RInv /\ BackInv => StatusBacked BY BackSuffices
<1> QED BY <1>1, <1>2, <1>3, PTL DEF Spec

-----------------------------------------------------------------------------
(* Types                                                                   *)

IsWitness(w) == DOMAIN w = {"core", "did", "payload"}
TypeInv ==
  /\ hub.statuses \subseteq AuthorityStatus /\ hub.binding \in Dids \cup {None}
  /\ \A w \in hub.witnesses : IsWitness(w)
  /\ hub.row # None => IsWitness(hub.row) /\ hub.row.did \in Dids
  /\ session # None /\ session.auth # None => session.head # <<>>
  /\ \A c \in disk.ckpt : c.auth # None => c.head # <<>>
  /\ now \in 0..CarrierExpiry

(* A witness names an issuer of this application: persons agreed to it. *)
LEMMA WitnessDid ==
  ASSUME RInv, NEW w \in hub.witnesses PROVE w.did \in Dids
<1>1. TermsOf(w.core, w.did) \in Terms BY DEF RInv, HubOK, AgreedOK, Both
<1> QED BY <1>1 DEF TermsOf, Terms

LEMMA HubTypes ==
  ASSUME RInv, TypeInv, Hub PROVE TypeInv'
<1>1. UNCHANGED <<session, disk, now>>
  BY DEF Hub, HubPrepare, Elsewhere, HubFence, HubRotate, HubFinalizeOffer, HubVerify, HubAccept
<1>2. HubOK(hub, agreed) BY DEF RInv
<1> DEFINE Good(h) ==
      /\ h.statuses \subseteq AuthorityStatus /\ h.binding \in Dids \cup {None}
      /\ \A w \in h.witnesses : IsWitness(w)
      /\ h.row # None => IsWitness(h.row) /\ h.row.did \in Dids
<1>3. Good(hub) BY DEF TypeInv
<1>4. ASSUME HubPrepare PROVE Good(hub') BY <1>2, <1>3, <1>4 DEF HubPrepare, HubOK
<1>5. ASSUME Elsewhere PROVE Good(hub')
  <2>1. CASE \E r \in Snapshots : hub' = [hub EXCEPT !.rooms = r] BY <1>2, <1>3, <2>1 DEF HubOK
  <2>2. CASE \E d \in Dids : hub' = [hub EXCEPT !.binding = d] BY <1>2, <1>3, <2>2 DEF HubOK
  <2> QED BY <1>5, <2>1, <2>2 DEF Elsewhere
<1>6. ASSUME HubFence PROVE Good(hub') BY <1>2, <1>3, <1>6 DEF HubFence, HubOK
<1>7. ASSUME HubRotate PROVE Good(hub') BY <1>2, <1>3, <1>7 DEF HubRotate, HubOK
<1>8. ASSUME NEW core \in hub.prepared, HubFinalizeOffer(core) PROVE Good(hub')
  <2>1. HubStatus(core) \in AuthorityStatus
    BY <1>2, <1>3 DEF HubOK, HubStatus, BuildAuthorityStatus, AuthorityStatus
  <2> QED BY <1>2, <1>3, <1>8, <2>1 DEF HubFinalizeOffer, HubOK
<1>9. ASSUME NEW f \in hub.staged, HubVerify(f) PROVE Good(hub')
  <2>1. IsWitness(SignAcceptance(f)) BY DEF IsWitness, SignAcceptance, FinalStatus
  <2> QED BY <1>2, <1>3, <1>9, <2>1 DEF HubVerify, HubOK
<1>10. ASSUME NEW w \in hub.witnesses, HubAccept(w) PROVE Good(hub')
  <2>1. w.did \in Dids BY WitnessDid
  <2> QED BY <1>2, <1>3, <1>10, <2>1 DEF HubAccept, AcceptanceFacts, HubOK
<1>11. Good(hub')
  <2> HIDE DEF Good
  <2>1. CASE HubPrepare \/ Elsewhere \/ HubFence \/ HubRotate
    <3> USE DEF Good
    <3> QED BY <2>1, <1>4, <1>5, <1>6, <1>7
  <2> QED BY <2>1, <1>8, <1>9, <1>10 DEF Hub
<1> QED BY <1>1, <1>11 DEF TypeInv

\* The session's authority, once there is one, speaks for an object it holds.
Holding(s) == s # None /\ s.auth # None => s.head # <<>>

(* Every object a session takes is one, and every seal keeps it. *)
LEMMA BrowserTypes ==
  ASSUME RInv, RInv', TypeInv, Browser PROVE TypeInv'
<1>1. /\ SessionOK(session, agreed, hub.row) /\ DiskOK(disk, agreed, hub.row)
      /\ HubOK(hub, agreed) /\ Holding(session)
      /\ \A c \in disk.ckpt : c.auth # None => c.head # <<>>
  BY DEF RInv, TypeInv, Holding
<1>2. /\ UNCHANGED now /\ hub'.statuses = hub.statuses /\ hub'.binding = hub.binding
      /\ hub'.witnesses = hub.witnesses /\ hub'.row = hub.row
  <2>1. CASE Stage BY <1>1, <2>1 DEF Stage, HubOK
  <2>2. CASE \E core \in hub.prepared : DevicePossession(core)
    BY <1>1, <2>2 DEF DevicePossession, HubOK
  <2>3. CASE UNCHANGED <<hub, now>> BY <2>3
  <2> QED BY <2>1, <2>2, <2>3
    DEF Browser, New, Establish, PrepareComparison, Activate, PrepareReceipt, PrepareOffer,
        BrowserReceive, WriteCheckpoint, CheckpointPersisted, StopBrowser, Restore,
        RestoreContext, CloseFromDisk
<1>3. Holding(session') /\ \A c \in disk'.ckpt : c.auth # None => c.head # <<>>
  <2>1. CASE New
    <3>1. session' = FreshSession /\ disk' = disk BY <2>1 DEF New
    <3> QED BY <1>1, <3>1 DEF FreshSession, Fresh, Holding
  <2>2. CASE StopBrowser BY <1>1, <2>2 DEF StopBrowser, Holding
  <2>3. CASE Stage BY <1>1, <2>3 DEF Stage
  <2>4. CASE Establish BY <1>1, <2>4 DEF Establish, Holding, SessionOK
  <2>5. CASE \E core \in hub.prepared : DevicePossession(core)
    BY <1>1, <2>5 DEF DevicePossession, Holding, SessionOK
  <2>6. CASE \E core \in hub.signed, s \in hub.statuses : RestoreContext(core, s)
    BY <1>1, <2>6 DEF RestoreContext, Holding, SessionOK
  <2>7. CASE Activate \/ \E core \in hub.signed : CloseFromDisk(core)
    <3>1. session' = session /\ disk' = [disk EXCEPT !.active = hub.row]
      BY <2>7 DEF Activate, CloseFromDisk
    <3> QED BY <1>1, <3>1 DEF DiskOK
  <2>8. ASSUME NEW core \in hub.signed, NEW s \in hub.statuses, PrepareOffer(core, s)
        PROVE  Holding(session') /\ disk' = disk
    <3>1. session' = [session EXCEPT !.auth = Bind(core), !.kid = TRUE, !.status = s,
                                     !.head = OfferObject(core), !.pend = "send"]
          /\ session # None /\ disk' = disk
      BY <2>8 DEF PrepareOffer
    <3>2. PICK o : o = OfferObject(core) OBVIOUS
    <3>3. session'.head = o BY <1>1, <3>1, <3>2 DEF SessionOK
    <3>4. o # <<>> BY <3>2 DEF OfferObject
    <3> QED BY <3>1, <3>3, <3>4 DEF Holding
  <2>9. ASSUME NEW o \in wire, BrowserReceive(o) PROVE Holding(session') /\ disk' = disk
    <3>1. session' = [session EXCEPT !.head = o, !.pend = "received",
                                     !.auth = Retain(session.auth, o)]
          /\ session # None /\ disk' = disk
      BY <2>9 DEF BrowserReceive
    <3>2. session'.head = o BY <1>1, <3>1 DEF SessionOK
    <3> QED BY <3>1, <3>2, WireObjects DEF Holding
  <2>10. ASSUME PrepareComparison \/ PrepareReceipt PROVE Holding(session') /\ disk' = disk
    <3>1. PICK b : /\ session # None /\ session.last # None /\ disk' = disk
                   /\ session' = [session EXCEPT !.head = Append(session.last, b), !.pend = "send"]
      BY <2>10 DEF PrepareComparison, PrepareReceipt, PreparationShown, VerifyFinalStatus, Holds
    <3>2. session'.head = Append(session.last, b) BY <1>1, <3>1 DEF SessionOK
    <3>3. Append(session.last, b) # <<>> BY <1>1, <3>1, AppendIs DEF SessionOK
    <3> QED BY <3>1, <3>2, <3>3 DEF Holding
  <2>11. CASE WriteCheckpoint
    <3>1. session # None /\ session' = session /\ disk' = [disk EXCEPT !.ckpt = {Sealed(session)}]
      BY <2>11 DEF WriteCheckpoint
    <3>2. disk'.ckpt = {Sealed(session)} BY <1>1, <3>1 DEF DiskOK
    <3> QED BY <1>1, <3>1, <3>2 DEF Sealed, Checkpointed, Holding
  <2>12. CASE CheckpointPersisted
    <3>1. session # None /\ session.pend # None /\ session' = Released /\ disk' = disk
      BY <2>12 DEF CheckpointPersisted
    <3>2. session'.head = session.head /\ session'.auth = session.auth
      BY <1>1, <3>1, CeremonyAssumption DEF Released, SessionOK
    <3> QED BY <1>1, <3>1, <3>2 DEF Holding
  <2>13. CASE Restore
    <3>1. PICK c \in disk.ckpt :
            /\ session' = [FreshSession EXCEPT !.head = c.head, !.channel = c.channel,
                             !.transcript = c.channel, !.last = LastReceived(c.head),
                             !.auth = RestoreRetained(c.auth, LastReceived(c.head))]
            /\ disk' = disk
      BY <2>13 DEF Restore
    <3>2. PICK o : o = LastReceived(c.head) OBVIOUS
    <3>3. PICK auth : auth = RestoreRetained(c.auth, o) OBVIOUS
    <3>4. session'.head = c.head /\ session'.auth = auth /\ session'.last = o
      BY <3>1, <3>2, <3>3 DEF FreshSession, Fresh
    <3>5. auth # None => c.head # <<>>
      <4>1. CASE o = None BY <1>1, <3>3, <4>1 DEF RestoreRetained
      <4>2. CASE o # None
        <5>1. Sound(c.head, agreed, hub.row) BY <1>1 DEF DiskOK
        <5>2. PICK n \in 1..Len(c.head) : o = SubSeq(c.head, 1, n)
          BY <3>2, <4>2, <5>1, LastReceivedIs DEF Sound
        <5> QED BY <5>1, SoundPrefix
      <4> QED BY <4>1, <4>2
    <3> QED BY <1>1, <3>1, <3>4, <3>5 DEF Holding
  <2> QED BY <1>1, <2>1, <2>2, <2>3, <2>4, <2>5, <2>6, <2>7, <2>8, <2>9, <2>10, <2>11, <2>12, <2>13
    DEF Browser
<1> QED BY <1>2, <1>3 DEF TypeInv, Holding

LEMMA NextTypes ==
  ASSUME RInv, RInv', TypeInv, [Next]_vars PROVE TypeInv'
<1>1. CASE Hub BY <1>1, HubTypes
<1>2. CASE Browser BY <1>2, BrowserTypes
<1>3. CASE Wallet \/ UNCHANGED vars
  <2>1. UNCHANGED <<hub, session, disk, now>>
    BY <1>3 DEF Wallet, vars, WalletOffer, WalletCompared, WalletReceipt, WalletIntent, Send,
                WalletPreview, WalletSeal, WalletSend, WalletRefuse, StopWallet, WalletFinal,
                WalletAsk, WalletSettle
  <2> QED BY <2>1 DEF TypeInv
<1>4. CASE Tick
  <2>1. now' \in 0..CarrierExpiry BY <1>4, CeremonyAssumption DEF Tick, TypeInv
  <2> QED BY <1>4, <2>1 DEF Tick, TypeInv
<1> QED BY <1>1, <1>2, <1>3, <1>4 DEF Next

LEMMA InitTypes == Init => TypeInv
<1> SUFFICES ASSUME Init PROVE TypeInv OBVIOUS
<1>1. BuildAuthorityStatus(Earlier, None) \in AuthorityStatus
  BY CeremonyAssumption DEF BuildAuthorityStatus, AuthorityStatus
<1> QED BY <1>1, CeremonyAssumption DEF Init, TypeInv

LEMMA TypesSuffice ==
  ASSUME RInv, TypeInv PROVE TypeOK
<1>1. hub.row # Refused
  <2>1. CASE hub.row = None BY <2>1, CeremonyAssumption
  <2>2. CASE hub.row # None
    <3>1. DOMAIN hub.row = {"core", "did", "payload"} BY <2>2 DEF TypeInv, IsWitness
    <3>2. DOMAIN Refused = {"outcome"} BY DEF Refused
    <3> QED BY <3>1, <3>2
  <2> QED BY <2>1, <2>2
<1>2. wallet.done \in {None, Refused} \/ wallet.done.did \in Dids
  BY DEF RInv, DoneOK, Decided, TypeInv
<1> QED BY <1>1, <1>2 DEF RInv, HubOK, SessionOK, TypeInv, TypeOK

(* What the hub prepared, signed and bound to, what a session waits for and
   what a device has learned are of their kinds, and a session with an authority
   holds an object it speaks for, restored or not. *)
THEOREM TypeCorrect == Spec => []TypeOK
<1>1. Init => RInv /\ TypeInv BY InitRInv, InitTypes
<1>2. RInv /\ TypeInv /\ [Next]_vars => RInv' /\ TypeInv' BY NextRInv, NextTypes
<1>3. RInv /\ TypeInv => TypeOK BY TypesSuffice
<1> QED BY <1>1, <1>2, <1>3, PTL DEF Spec
=============================================================================
