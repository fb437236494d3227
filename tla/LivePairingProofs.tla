-------------------------- MODULE LivePairingProofs --------------------------
(***************************************************************************)
(* Proofs about LivePairing.  The invariant says of every frame under way  *)
(* what its sender had done when it sent it: its number is below the       *)
(* sender's, and a decision on the wire is the decision that was taken.    *)
(***************************************************************************)
EXTENDS LivePairing, SequenceTheorems, TLAPS

-----------------------------------------------------------------------------
(* The invariant                                                           *)

Elems(q) == {q[n] : n \in DOMAIN q}
ToA(m) == Elems(m.toA)
ToC(m) == Elems(m.toC) \cup Elems(m.box)

\* A frame under way was sent: its number is below its sender's, its body is
\* the script's, and a decision on the wire is the one that was taken.
FromClaimant(c, f) ==
  f.k = "frame" => /\ f.seq < c.seq
                   /\ f.body \in Script.claimant[f.seq + 1] \cup Spoilt
                   /\ f.body \in {"approve", "decline"} => c.decision = f.body
FromAllocator(p, m, f) ==
  /\ f.k = "frame" => /\ f.seq < p.seq
                      /\ f.body \in Script.allocator[f.seq + 1] \cup Spoilt
  /\ f.k = "closed" => m.st = "closed"
WireOK(p, c, m) ==
  /\ \A f \in ToA(m) : FromClaimant(c, f)
  /\ \A f \in ToC(m) : FromAllocator(p, m, f)

Early == {"new", "welcome", "allocation"}
PageOK(p) ==
  /\ p.phase \in Early => p.seq = 0 
  /\ p.phase \in Early => p.peer = 0
  /\ p.phase \in {"bootstrap", "spent"} => p.seq = 1
  /\ p.phase \in Early \cup {"bootstrap", "spent"} =>
       ~p.ready /\ ~p.intent /\ ~p.payload /\ ~p.declined
  /\ p.phase # "terminal" => p.out = None
  /\ p.phase = "endpoint" =>
       /\ p.intent = p.ready
       /\ p.payload => p.ready
       /\ p.seq = IF p.payload THEN 5 ELSE IF p.ready THEN 4 ELSE 2
  /\ p.seq = 5 => p.payload
  /\ p.payload => p.out \in {None, "delivered", "cancelled"}
  /\ p.out = "delivered" => p.payload
  /\ p.out = "declined" => p.declined

NewStep(c) == c.step = "key" /\ c.peer = 0
Undecided(c) == c.decision = None /\ ~c.accepted
CoreOK(c) ==
  /\ c.owner = "none" => c = NewCore
  /\ c.owner = "start" =>
       /\ Undecided(c)
       /\ \/ c.phase \in {"none", "welcome", "claim"} /\ c.seq = 0 /\ NewStep(c)
          \/ c.phase = "bootstrap" /\ c.seq = 1 /\ NewStep(c)
          \/ /\ c.phase = "endpoint" /\ c.seq = 2
             /\ \/ c.step = "key" /\ c.peer = 1
                \/ c.step = "opening" /\ c.peer = 2
                \/ c.step = "ready" /\ c.peer = 3
  /\ c.owner = "slot" => /\ Undecided(c) /\ c.phase = "endpoint" /\ c.seq = 2
                         /\ c.step = "shown" /\ c.peer = 4
  /\ c.owner = "finish" =>
       /\ c.phase = "endpoint" /\ c.seq = 3
       /\ \/ c.decision = "approve" /\ c.step = "decided" /\ ~c.accepted /\ c.peer = 4
          \/ c.decision = "approve" /\ c.step = "done" /\ c.accepted /\ c.peer = 5
          \/ c.decision = "decline" /\ c.step = "done" /\ ~c.accepted /\ c.peer = 4
  /\ c.owner = "gone" => ~c.proof
  /\ c.owner # "gone" => c.out = None /\ c.view \in {None, "intent"}

JointOK(p, c) ==
  /\ p.peer <= c.seq
  /\ c.peer <= p.seq
  /\ p.payload => c.decision = "approve"
  /\ p.declined => c.decision = "decline"
  /\ c.accepted => p.payload
  /\ c.owner # "none" => p.phase \notin Early

Over(m) == m.st \in {"none", "closed"}
EndOK(p, c, m) ==
  /\ p.phase \in {"new", "welcome"} => m.st = "none"
  /\ c.out = "accepted" => c.accepted /\ c.decision = "approve"
  /\ c.out = "refused" => ~c.accepted /\ (c.decision = "approve" => p.payload)
  /\ c.out = "declined" => c.decision = "decline"
  /\ c.out = "cancelled" => c.decision = None
  /\ c.out # None => Over(m)
  /\ c.view = "declined" => m.st = "closed"
  /\ c.view = "accepted" => p.payload

PairOK(p, c, m) == PageOK(p) /\ CoreOK(c) /\ JointOK(p, c) /\ WireOK(p, c, m) /\ EndOK(p, c, m)

Mailboxes == [st : {"none", "open", "claimed", "opened", "closed"},
              box : Seq(Message), toA : Seq(Message), toC : Seq(Message),
              cut : SUBSET {"toA", "toC"}, fault : BOOLEAN]

StateOK ==
  /\ page \in [Invites -> PageStates]
  /\ core \in [Invites -> CoreStates]
  /\ mail \in [Invites -> Mailboxes]
  /\ slot \in Invites \cup {None}
  /\ \A i \in Invites : core[i].owner = "slot" <=> slot = i

IInv == StateOK /\ \A i \in Invites : PairOK(page[i], core[i], mail[i])

-----------------------------------------------------------------------------
(* The script and the messages                                             *)

Bodies == {"cpace", "finished", "opener", "intent", "payload", "approve", "decline",
           "garbled", "junk", "none"}

\* What each side sends, by sequence number.
LEMMA ScriptIs ==
  /\ Script.allocator = [n \in 1..5 |-> IF n = 5 THEN {"payload"} ELSE {Opening.allocator[n]}]
  /\ Script.claimant = [n \in 1..3 |-> IF n = 3 THEN {"approve", "decline"}
                                       ELSE {Opening.claimant[n]}]
  /\ Script.allocator[1] = {"cpace"} /\ Script.allocator[2] = {"finished"}
  /\ Script.allocator[3] = {"opener"} /\ Script.allocator[4] = {"intent"}
  /\ Script.allocator[5] = {"payload"}
  /\ Script.claimant[1] = {"cpace"} /\ Script.claimant[2] = {"finished"}
  /\ Script.claimant[3] = {"approve", "decline"}
BY DEF Script, Opening

LEMMA MessageIs ==
  Message = [k : {"frame", "welcome", "allocated", "claimed", "error", "closed"},
             seq : 0..4, body : Bodies]
<1>1. UNION {Script.allocator[n] : n \in 1..5} = {"cpace", "finished", "opener", "intent", "payload"}
  <2>1. \A n \in 1..5 : n = 1 \/ n = 2 \/ n = 3 \/ n = 4 \/ n = 5 OBVIOUS
  <2>2. \A n \in 1..5 : Script.allocator[n] \subseteq {"cpace", "finished", "opener", "intent", "payload"}
    BY <2>1, ScriptIs
  <2>3. \A b \in {"cpace", "finished", "opener", "intent", "payload"} :
          \E n \in 1..5 : b \in Script.allocator[n]
    <3>1. /\ "cpace" \in Script.allocator[1] /\ "finished" \in Script.allocator[2]
          /\ "opener" \in Script.allocator[3] /\ "intent" \in Script.allocator[4]
          /\ "payload" \in Script.allocator[5]
      BY ScriptIs
    <3>2. 1 \in 1..5 /\ 2 \in 1..5 /\ 3 \in 1..5 /\ 4 \in 1..5 /\ 5 \in 1..5 OBVIOUS
    <3> QED BY <3>1, <3>2
  <2> QED BY <2>2, <2>3
<1>2. (UNION {Script.allocator[n] : n \in 1..5}) \cup Script.claimant[3] \cup Spoilt \cup {"none"} = Bodies
  BY <1>1, ScriptIs DEF Bodies, Spoilt
<1> QED BY <1>2 DEF Message

\* The four ways a rehearsed ceremony ends.
LEMMA SnapshotsAre ==
  /\ \A b \in BOOLEAN : Snapshot(Approve(Established, b)) =
       [outcome |-> IF b THEN "accepted" ELSE "refused", delivered |-> TRUE, open |-> FALSE]
  /\ Snapshot(Decline(Established)) =
       [outcome |-> "declined", delivered |-> FALSE, open |-> FALSE]
  /\ Snapshot(CancelDemo(Established)) =
       [outcome |-> "cancelled", delivered |-> FALSE, open |-> FALSE]
  /\ Snapshot(ExpireDemo(Established)) =
       [outcome |-> "closed", delivered |-> FALSE, open |-> FALSE]
<1>0. \A demo, out : Snapshot(Result(demo, out)) =
        [outcome |-> out, delivered |-> demo.delivered > 0, open |-> demo.relay.mailboxes > 0]
  BY DEF Snapshot, Result
<1>1. (0 > 0) = FALSE /\ (1 > 0) = TRUE OBVIOUS
<1>2. Sides = {"allocator", "claimant"} BY DEF Sides
<1> DEFINE R0 == Established.relay
           r1 == Transmit(R0, "claimant")
           r2 == Transmit(r1, "allocator")
<1>3. /\ R0.next["claimant"] = 2 /\ R0.next["allocator"] = 4
      /\ DOMAIN R0.next = Sides /\ DOMAIN R0 = {"mailboxes", "next", "frames"}
      /\ R0.mailboxes = 1
  <2>1. Opening["claimant"] = <<"cpace", "finished">> BY DEF Opening
  <2>2. Opening["allocator"] = <<"cpace", "finished", "opener", "intent">> BY DEF Opening
  <2>3. DOMAIN NewRelay = {"mailboxes", "next", "frames"} /\ NewRelay.mailboxes = 1 BY DEF NewRelay
  <2>4. /\ R0.next = [s \in Sides |-> Len(Opening[s])] /\ DOMAIN R0 = DOMAIN NewRelay
        /\ R0.mailboxes = NewRelay.mailboxes
    BY <2>3 DEF Established
  <2>5. R0.next["claimant"] = Len(Opening["claimant"]) /\ R0.next["allocator"] = Len(Opening["allocator"])
    BY <1>2, <2>4
  <2> QED BY <2>1, <2>2, <2>3, <2>4, <2>5
<1>4. /\ Established.delivered = 0 /\ Established.verifications = 0 /\ Established.terminal = FALSE
      /\ DOMAIN Established = {"allocator", "claimant", "delivered", "verifications", "terminal", "relay"}
  BY DEF Established
<1>5. Transmits(R0, "claimant") BY <1>3 DEF Transmits, MaxSequence
<1>6. /\ r1.mailboxes = 1 /\ r1.next["allocator"] = 4
      /\ DOMAIN r1 = {"mailboxes", "next", "frames"}
  BY <1>2, <1>3 DEF Transmit
<1>7. r2.mailboxes = 1 /\ DOMAIN r2 = {"mailboxes", "next", "frames"}
  BY <1>6 DEF Transmit
<1>8. Transmits(r1, "allocator") BY <1>6 DEF Transmits, MaxSequence
<1>9. \A r : DOMAIN r = {"mailboxes", "next", "frames"} =>
        CloseRelay(r).mailboxes = 0 /\ DOMAIN CloseRelay(r) = {"mailboxes", "next", "frames"}
  BY DEF CloseRelay
<1>10. \A demo : DOMAIN demo = {"allocator", "claimant", "delivered", "verifications", "terminal", "relay"}
          => /\ Erased(demo).delivered = demo.delivered /\ Erased(demo).relay = CloseRelay(demo.relay)
             /\ Ended(demo).delivered = demo.delivered /\ Ended(demo).relay = demo.relay
             /\ DOMAIN Ended(demo) = DOMAIN demo
  BY DEF Erased, Ended
<1> HIDE DEF r1, r2
<1>11. ASSUME NEW b \in BOOLEAN
       PROVE  Snapshot(Approve(Established, b)) =
                [outcome |-> IF b THEN "accepted" ELSE "refused", delivered |-> TRUE, open |-> FALSE]
  <2> DEFINE closed == [Ended(Established) EXCEPT !.relay = CloseRelay(r2),
                          !.allocator = "closed", !.claimant = "closed",
                          !.delivered = @ + 1, !.verifications = @ + 1]
  <2>1. Approve(Established, b) = IF b THEN Result(closed, "accepted") ELSE Result(Erased(closed), "refused")
    BY <1>4, <1>5, <1>8 DEF Approve, Once, r1, r2
  <2>2. closed.delivered = 1 /\ closed.relay = CloseRelay(r2) /\ DOMAIN closed = DOMAIN Established
    BY <1>4, <1>10
  <2> HIDE DEF closed
  <2>3. closed.relay.mailboxes = 0 /\ Erased(closed).relay.mailboxes = 0 /\ Erased(closed).delivered = 1
    BY <1>4, <1>7, <1>9, <1>10, <2>2
  <2> QED BY <2>1, <2>2, <2>3, <1>0, <1>1
<1>12. Snapshot(Decline(Established)) = [outcome |-> "declined", delivered |-> FALSE, open |-> FALSE]
  <2> DEFINE closed == [Ended(Established) EXCEPT !.relay = CloseRelay(r1)]
  <2>1. Decline(Established) = Result(closed, "declined")
    BY <1>4, <1>5 DEF Decline, Once, r1
  <2>2. closed.delivered = 0 /\ closed.relay.mailboxes = 0
    BY <1>4, <1>6, <1>9, <1>10
  <2> QED BY <2>1, <2>2, <1>0, <1>1
<1>13. Snapshot(CancelDemo(Established)) = [outcome |-> "cancelled", delivered |-> FALSE, open |-> FALSE]
  <2>1. CancelDemo(Established) = Result(Erased(Ended(Established)), "cancelled")
    BY <1>4 DEF CancelDemo, Once
  <2>2. Erased(Ended(Established)).delivered = 0 /\ Erased(Ended(Established)).relay.mailboxes = 0
    BY <1>3, <1>4, <1>9, <1>10
  <2> QED BY <2>1, <2>2, <1>0, <1>1
<1>14. Snapshot(ExpireDemo(Established)) = [outcome |-> "closed", delivered |-> FALSE, open |-> FALSE]
  <2> DEFINE closed == [Ended(Established) EXCEPT !.relay = CloseRelay(@), !.allocator = "closed",
                                                  !.claimant = "closed"]
  <2>1. ExpireDemo(Established) = Result(closed, "closed")
    BY <1>4 DEF ExpireDemo, Once
  <2>2. closed.delivered = 0 /\ closed.relay.mailboxes = 0
    BY <1>3, <1>4, <1>9, <1>10
  <2> QED BY <2>1, <2>2, <1>0, <1>1
<1> QED BY <1>11, <1>12, <1>13, <1>14

-----------------------------------------------------------------------------
(* The mailbox                                                             *)

States == {"none", "open", "claimed", "opened", "closed"}
Noise(m) == {Notice(k) : k \in {"welcome", "allocated", "claimed", "error"}}
            \cup (IF m.st = "closed" THEN {Notice("closed")} ELSE {})

\* From m to n, only a goes to the allocator and only c to the claimant.
Grows(m, n, a, c) ==
  /\ n \in Mailboxes
  /\ m.st = "closed" => n.st = "closed"
  /\ ToA(n) \subseteq ToA(m) \cup a \cup Noise(n)
  /\ ToC(n) \subseteq ToC(m) \cup c \cup Noise(n)

\* The frames of a put.
Sent(seq, bodies) == {Frame(seq + n - 1, bodies[n]) : n \in 1..Len(bodies)}

\* A mailbox is its six fields.
LEMMA MailboxIs ==
  \A m \in Mailboxes :
    /\ m.st \in States /\ m.box \in Seq(Message) /\ m.toA \in Seq(Message)
    /\ m.toC \in Seq(Message) /\ m.cut \in SUBSET {"toA", "toC"} /\ m.fault \in BOOLEAN
    /\ DOMAIN m = {"st", "box", "toA", "toC", "cut", "fault"}
    /\ m["toA"] = m.toA /\ m["toC"] = m.toC
BY DEF Mailboxes, States

\* A message is its kind, its number and its body.
LEMMA MessagesAre ==
  /\ \A f \in Message : /\ f.k \in {"frame", "welcome", "allocated", "claimed", "error", "closed"}
                        /\ f.seq \in 0..4 /\ f.body \in Bodies
  /\ \A k \in {"welcome", "allocated", "claimed", "error", "closed"} :
       Notice(k) \in Message /\ Notice(k).k = k
  /\ \A n \in 0..4, b \in Bodies : /\ Frame(n, b) \in Message /\ Frame(n, b).k = "frame"
                                   /\ Frame(n, b).seq = n /\ Frame(n, b).body = b
BY MessageIs DEF Notice, Frame, Bodies

\* What a queue holds after it is emptied, read, added to or joined.
LEMMA QueuesAre ==
  /\ <<>> \in Seq(Message) /\ Elems(<<>>) = {}
  /\ \A q \in Seq(Message), f \in Message :
       /\ Append(q, f) \in Seq(Message) /\ Elems(Append(q, f)) \subseteq Elems(q) \cup {f}
       /\ <<f>> \in Seq(Message) /\ Elems(<<f>>) = {f}
  /\ \A q, r \in Seq(Message) :
       q \o r \in Seq(Message) /\ Elems(q \o r) \subseteq Elems(q) \cup Elems(r)
  /\ \A q \in Seq(Message) : q # <<>> =>
       /\ Tail(q) \in Seq(Message) /\ Elems(Tail(q)) \subseteq Elems(q)
       /\ Head(q) \in Elems(q) /\ Head(q) \in Message
  /\ \A q \in Seq(Message) : Elems(q) \subseteq Message
<1>0. \A q \in Seq(Message) : Elems(q) \subseteq Message
  <2> SUFFICES ASSUME NEW q \in Seq(Message), NEW n \in DOMAIN q PROVE q[n] \in Message
    BY DEF Elems
  <2> QED BY LenProperties, ElementOfSeq
<1>1. <<>> \in Seq(Message) /\ Elems(<<>>) = {} BY DEF Elems
<1>2. ASSUME NEW q \in Seq(Message), NEW f \in Message
      PROVE  /\ Append(q, f) \in Seq(Message) /\ Elems(Append(q, f)) \subseteq Elems(q) \cup {f}
             /\ <<f>> \in Seq(Message) /\ Elems(<<f>>) = {f}
  <2>1. /\ Append(q, f) \in Seq(Message) /\ Len(Append(q, f)) = Len(q) + 1
        /\ \A i \in 1..Len(q) : Append(q, f)[i] = q[i]
        /\ Append(q, f)[Len(q) + 1] = f
    BY AppendProperties
  <2>2. /\ DOMAIN Append(q, f) = 1..(Len(q) + 1) /\ Len(q) \in Nat /\ DOMAIN q = 1..Len(q)
    BY <2>1, LenProperties
  <2>3. \A i \in DOMAIN Append(q, f) : Append(q, f)[i] \in Elems(q) \cup {f}
    <3> TAKE i \in DOMAIN Append(q, f)
    <3>1. i \in 1..Len(q) \/ i = Len(q) + 1 BY <2>2
    <3> QED BY <3>1, <2>1, <2>2 DEF Elems
  <2>4. <<f>> \in Seq(Message) /\ DOMAIN <<f>> = {1} /\ <<f>>[1] = f OBVIOUS
  <2>5. Elems(<<f>>) = {f} BY <2>4 DEF Elems
  <2> QED BY <2>1, <2>3, <2>4, <2>5 DEF Elems
<1>3. ASSUME NEW q \in Seq(Message), NEW r \in Seq(Message)
      PROVE  q \o r \in Seq(Message) /\ Elems(q \o r) \subseteq Elems(q) \cup Elems(r)
  <2>1. /\ q \o r \in Seq(Message) /\ Len(q \o r) = Len(q) + Len(r)
        /\ \A i \in 1..(Len(q) + Len(r)) :
             (q \o r)[i] = IF i <= Len(q) THEN q[i] ELSE r[i - Len(q)]
    BY ConcatProperties
  <2>2. /\ DOMAIN (q \o r) = 1..(Len(q) + Len(r)) /\ Len(q) \in Nat /\ Len(r) \in Nat
        /\ DOMAIN q = 1..Len(q) /\ DOMAIN r = 1..Len(r)
    BY <2>1, LenProperties
  <2>3. ASSUME NEW i \in DOMAIN (q \o r) PROVE (q \o r)[i] \in Elems(q) \cup Elems(r)
    <3>1. CASE i <= Len(q)
      <4>1. i \in DOMAIN q /\ (q \o r)[i] = q[i] BY <3>1, <2>1, <2>2
      <4> QED BY <4>1 DEF Elems
    <3>2. CASE ~(i <= Len(q))
      <4>1. i - Len(q) \in DOMAIN r /\ (q \o r)[i] = r[i - Len(q)] BY <3>2, <2>1, <2>2
      <4> QED BY <4>1 DEF Elems
    <3> QED BY <3>1, <3>2
  <2> QED BY <2>1, <2>3 DEF Elems
<1>4. ASSUME NEW q \in Seq(Message), q # <<>>
      PROVE  /\ Tail(q) \in Seq(Message) /\ Elems(Tail(q)) \subseteq Elems(q)
             /\ Head(q) \in Elems(q) /\ Head(q) \in Message
  <2>1. /\ Head(q) \in Message /\ Tail(q) \in Seq(Message) /\ Len(Tail(q)) = Len(q) - 1
        /\ \A i \in 1..Len(Tail(q)) : Tail(q)[i] = q[i + 1]
    BY <1>4, HeadTailProperties
  <2>2. /\ DOMAIN Tail(q) = 1..(Len(q) - 1) /\ Len(q) \in Nat /\ DOMAIN q = 1..Len(q)
        /\ Len(q) # 0
    BY <1>4, <2>1, LenProperties, EmptySeq
  <2>3. 1 \in DOMAIN q /\ Head(q) = q[1] BY <2>2
  <2>4. \A i \in DOMAIN Tail(q) : i + 1 \in DOMAIN q /\ Tail(q)[i] = q[i + 1] BY <2>1, <2>2
  <2> QED BY <2>1, <2>3, <2>4 DEF Elems
<1> QED BY <1>0, <1>1, <1>2, <1>3, <1>4

\* What a put, a notice or a delivery adds to a direction that is open.
LEMMA DeliverIs ==
  ASSUME NEW m \in Mailboxes, NEW way \in {"toA", "toC"}, NEW q \in Seq(Message)
  PROVE  LET n == Deliver(m, way, q) IN
         /\ n \in Mailboxes /\ n.st = m.st /\ n.box = m.box
         /\ ToA(n) \subseteq ToA(m) \cup (IF way = "toA" THEN Elems(q) ELSE {})
         /\ ToC(n) \subseteq ToC(m) \cup (IF way = "toC" THEN Elems(q) ELSE {})
<1> DEFINE n == Deliver(m, way, q)
<1>1. CASE way \in m.cut
  <2>1. n = m BY <1>1 DEF Deliver
  <2> QED BY <2>1
<1>2. CASE way \notin m.cut /\ way = "toA"
  <2>1. n = [m EXCEPT !.toA = @ \o q] BY <1>2 DEF Deliver
  <2>2. m.toA \o q \in Seq(Message) /\ Elems(m.toA \o q) \subseteq Elems(m.toA) \cup Elems(q)
    BY MailboxIs, QueuesAre
  <2>3. /\ n \in Mailboxes /\ n.st = m.st /\ n.box = m.box /\ n.toC = m.toC
        /\ n.toA = m.toA \o q
    BY <2>1, <2>2 DEF Mailboxes
  <2> QED BY <1>2, <2>2, <2>3 DEF ToA, ToC
<1>3. CASE way \notin m.cut /\ way = "toC"
  <2>1. n = [m EXCEPT !.toC = @ \o q] BY <1>3 DEF Deliver
  <2>2. m.toC \o q \in Seq(Message) /\ Elems(m.toC \o q) \subseteq Elems(m.toC) \cup Elems(q)
    BY MailboxIs, QueuesAre
  <2>3. /\ n \in Mailboxes /\ n.st = m.st /\ n.box = m.box /\ n.toA = m.toA
        /\ n.toC = m.toC \o q
    BY <2>1, <2>2 DEF Mailboxes
  <2> QED BY <1>3, <2>2, <2>3 DEF ToA, ToC
<1> QED BY <1>1, <1>2, <1>3

\* Cutting a direction loses what was under way in it.
LEMMA CutIs ==
  ASSUME NEW m \in Mailboxes, NEW way \in {"toA", "toC"}
  PROVE  Grows(m, Cut(m, way), {}, {}) /\ Cut(m, way).st = m.st
<1> DEFINE n == Cut(m, way)
<1>1. n \in Mailboxes /\ n.st = m.st /\ n.box = m.box
      /\ n.toA \in {m.toA, <<>>} /\ n.toC \in {m.toC, <<>>}
  <2>1. CASE way = "toA"
    <3>1. n = [m EXCEPT !.toA = <<>>, !.cut = m.cut \cup {"toA"}] BY <2>1 DEF Cut
    <3>2. m.cut \cup {"toA"} \in SUBSET {"toA", "toC"} BY MailboxIs
    <3>3. <<>> \in Seq(Message) BY QueuesAre
    <3>4. n \in Mailboxes BY <3>1, <3>2, <3>3 DEF Mailboxes
    <3>5. /\ n.st = m.st /\ n.box = m.box /\ n.toA = <<>> /\ n.toC = m.toC
      BY <3>1 DEF Mailboxes
    <3> QED BY <3>4, <3>5
  <2>2. CASE way = "toC"
    <3>1. n = [m EXCEPT !.toC = <<>>, !.cut = m.cut \cup {"toC"}] BY <2>2 DEF Cut
    <3>2. m.cut \cup {"toC"} \in SUBSET {"toA", "toC"} BY MailboxIs
    <3>3. <<>> \in Seq(Message) BY QueuesAre
    <3>4. n \in Mailboxes BY <3>1, <3>2, <3>3 DEF Mailboxes
    <3>5. /\ n.st = m.st /\ n.box = m.box /\ n.toC = <<>> /\ n.toA = m.toA
      BY <3>1 DEF Mailboxes
    <3> QED BY <3>4, <3>5
  <2> QED BY <2>1, <2>2
<1>2. ToA(n) \subseteq ToA(m) /\ ToC(n) \subseteq ToC(m) BY <1>1, QueuesAre DEF ToA, ToC
<1> QED BY <1>1, <1>2 DEF Grows

\* The frames of a put are messages, numbered from where the sender stood.
LEMMA PutIs ==
  ASSUME NEW m \in Mailboxes, NEW to \in {"toA", "toC"}, NEW seq \in Nat,
         NEW bodies \in Seq(Bodies), seq + Len(bodies) <= 5
  PROVE  LET n == Put(m, to, seq, bodies) IN
         /\ n.st = m.st
         /\ Grows(m, n, IF to = "toA" THEN Sent(seq, bodies) ELSE {},
                        IF to = "toC" THEN Sent(seq, bodies) ELSE {})
<1> DEFINE frames == [n \in 1..Len(bodies) |-> Frame(seq + n - 1, bodies[n])]
           n == Put(m, to, seq, bodies)
<1>1. Len(bodies) \in Nat /\ \A j \in 1..Len(bodies) : bodies[j] \in Bodies
  BY LenProperties, ElementOfSeq
<1>2. \A j \in 1..Len(bodies) : seq + j - 1 \in 0..4 BY <1>1
<1>3. frames \in Seq(Message)
  <2>1. \A j \in 1..Len(bodies) : frames[j] \in Message BY <1>1, <1>2, MessagesAre
  <2> QED BY <1>1, <2>1, IsASeq
<1>4. Elems(frames) = Sent(seq, bodies) BY DEF Elems, Sent
<1>5. n = CASE m.st = "closed" -> m
            [] m.st # "closed" /\ to = "toA" -> Deliver(m, to, frames)
            [] m.st = "opened" /\ to = "toC" -> Deliver(m, to, frames)
            [] OTHER -> [m EXCEPT !.box = @ \o frames]
  BY DEF Put
<1> HIDE DEF frames, n
<1>6. CASE m.st = "closed"
  <2>1. n = m BY <1>5, <1>6
  <2> QED BY <2>1 DEF Grows, n
<1>7. CASE m.st # "closed" /\ (to = "toA" \/ m.st = "opened")
  <2>1. n = Deliver(m, to, frames) BY <1>5, <1>7
  <2> QED BY <2>1, <1>3, <1>4, DeliverIs DEF Grows, n
<1>8. CASE m.st \notin {"closed", "opened"} /\ to = "toC"
  <2>1. n = [m EXCEPT !.box = @ \o frames] BY <1>5, <1>8
  <2>2. /\ m.box \o frames \in Seq(Message)
        /\ Elems(m.box \o frames) \subseteq Elems(m.box) \cup Elems(frames)
    BY <1>3, MailboxIs, QueuesAre
  <2>3. /\ n \in Mailboxes /\ n.st = m.st /\ n.toA = m.toA /\ n.toC = m.toC
        /\ n.box = m.box \o frames
    BY <2>1, <2>2 DEF Mailboxes
  <2> QED BY <1>4, <1>8, <2>2, <2>3 DEF Grows, ToA, ToC, n
<1> QED BY <1>6, <1>7, <1>8

\* Closing tells both sides and leaves the mailbox over.
LEMMA CloseIs ==
  ASSUME NEW m \in Mailboxes
  PROVE  /\ Grows(m, Close(m), {}, {}) /\ Over(Close(m))
         /\ m.st # "none" => Close(m).st = "closed"
<1> DEFINE q == <<Notice("closed")>>
           told == Deliver(m, "toA", q)
           both == IF m.st = "open" THEN told ELSE Deliver(told, "toC", q)
           n == Close(m)
<1>1. CASE m.st \in {"none", "closed"}
  <2>1. n = m BY <1>1 DEF Close
  <2> QED BY <1>1, <2>1 DEF Grows, Over
<1>2. CASE m.st \notin {"none", "closed"}
  <2>1. n = [both EXCEPT !.st = "closed", !.box = <<>>] BY <1>2 DEF Close
  <2>2. q \in Seq(Message) /\ Elems(q) = {Notice("closed")} BY MessagesAre, QueuesAre
  <2> HIDE DEF q
  <2>3. /\ told \in Mailboxes /\ ToA(told) \subseteq ToA(m) \cup Elems(q)
        /\ ToC(told) \subseteq ToC(m)
    BY <2>2, DeliverIs
  <2> HIDE DEF told
  <2>4. /\ both \in Mailboxes /\ ToA(both) \subseteq ToA(m) \cup Elems(q)
        /\ ToC(both) \subseteq ToC(m) \cup Elems(q)
    <3>1. CASE m.st = "open" BY <3>1, <2>3
    <3>2. CASE m.st # "open"
      <4>1. both = Deliver(told, "toC", q) BY <3>2
      <4>2. /\ both \in Mailboxes /\ ToA(both) \subseteq ToA(told)
            /\ ToC(both) \subseteq ToC(told) \cup Elems(q)
        BY <2>2, <2>3, <4>1, DeliverIs
      <4> QED BY <2>3, <4>2
    <3> QED BY <3>1, <3>2
  <2> HIDE DEF both
  <2> HIDE DEF n
  <2>5. /\ n \in Mailboxes /\ n.st = "closed" /\ n.toA = both.toA /\ n.toC = both.toC
        /\ n.box = <<>>
    <3>1. <<>> \in Seq(Message) BY QueuesAre
    <3>2. n \in Mailboxes BY <2>1, <2>4, <3>1 DEF Mailboxes
    <3> QED BY <2>1, <2>4, <3>2 DEF Mailboxes
  <2>6. ToA(n) = ToA(both) /\ ToC(n) \subseteq ToC(both) BY <2>5, QueuesAre DEF ToA, ToC
  <2>7. Notice("closed") \in Noise(n) BY <2>5 DEF Noise
  <2>8. Grows(m, n, {}, {}) BY <2>2, <2>4, <2>5, <2>6, <2>7 DEF Grows
  <2> QED BY <2>5, <2>8 DEF Over, n
<1> QED BY <1>1, <1>2

\* What two steps of a mailbox add is what each adds.
LEMMA GrowsOn ==
  ASSUME NEW m \in Mailboxes, NEW n, NEW o, NEW a, NEW c, NEW b, NEW d,
         Grows(m, n, a, c), Grows(n, o, b, d)
  PROVE  Grows(m, o, a \cup b, c \cup d)
<1>1. Noise(n) \subseteq Noise(o) BY DEF Noise, Grows
<1> QED BY <1>1 DEF Grows

\* Reading a direction leaves what follows.
LEMMA PopIs ==
  ASSUME NEW m \in Mailboxes, NEW way \in {"toA", "toC"}, m[way] # <<>>
  PROVE  LET n == [m EXCEPT ![way] = Tail(@)] IN
         /\ Grows(m, n, {}, {}) /\ n.st = m.st /\ n.box = m.box
         /\ Head(m[way]) \in IF way = "toA" THEN ToA(m) ELSE ToC(m)
         /\ Head(m[way]) \in Message
         /\ n.toA \in Seq(Message) /\ n.toC \in Seq(Message)
<1> DEFINE n == [m EXCEPT ![way] = Tail(@)]
<1>1. CASE way = "toA"
  <2>1. m.toA \in Seq(Message) /\ m.toA # <<>> BY <1>1, MailboxIs
  <2>2. /\ Tail(m.toA) \in Seq(Message) /\ Elems(Tail(m.toA)) \subseteq Elems(m.toA)
        /\ Head(m.toA) \in Elems(m.toA) /\ Head(m.toA) \in Message
    BY <2>1, QueuesAre
  <2>3. n = [m EXCEPT !.toA = Tail(m.toA)] BY <1>1
  <2>4. /\ n \in Mailboxes /\ n.st = m.st /\ n.box = m.box /\ n.toC = m.toC
        /\ n.toA = Tail(m.toA)
    BY <2>2, <2>3 DEF Mailboxes
  <2> QED BY <1>1, <2>2, <2>4, MailboxIs DEF Grows, ToA, ToC
<1>2. CASE way = "toC"
  <2>1. m.toC \in Seq(Message) /\ m.toC # <<>> BY <1>2, MailboxIs
  <2>2. /\ Tail(m.toC) \in Seq(Message) /\ Elems(Tail(m.toC)) \subseteq Elems(m.toC)
        /\ Head(m.toC) \in Elems(m.toC) /\ Head(m.toC) \in Message
    BY <2>1, QueuesAre
  <2>3. n = [m EXCEPT !.toC = Tail(m.toC)] BY <1>2
  <2>4. /\ n \in Mailboxes /\ n.st = m.st /\ n.box = m.box /\ n.toA = m.toA
        /\ n.toC = Tail(m.toC)
    BY <2>2, <2>3 DEF Mailboxes
  <2> QED BY <1>2, <2>2, <2>4, MailboxIs DEF Grows, ToA, ToC
<1> QED BY <1>1, <1>2

\* A put of no body, of one or of two.
LEMMA SentIs ==
  ASSUME NEW s \in Nat
  PROVE  /\ <<>> \in Seq(Bodies) /\ Len(<<>>) = 0 /\ Sent(s, <<>>) = {}
         /\ \A b \in Bodies : /\ <<b>> \in Seq(Bodies) /\ Len(<<b>>) = 1
                              /\ Sent(s, <<b>>) = {Frame(s, b)}
         /\ \A b, d \in Bodies : /\ <<b, d>> \in Seq(Bodies) /\ Len(<<b, d>>) = 2
                                 /\ Sent(s, <<b, d>>) = {Frame(s, b), Frame(s + 1, d)}
<1>1. 1..0 = {} /\ 1..1 = {1} /\ 1..2 = {1, 2} OBVIOUS
<1>2. s + 1 - 1 = s /\ s + 2 - 1 = s + 1 OBVIOUS
<1>3. <<>> \in Seq(Bodies) /\ Len(<<>>) = 0 /\ Sent(s, <<>>) = {} BY <1>1 DEF Sent
<1>4. ASSUME NEW b \in Bodies
      PROVE <<b>> \in Seq(Bodies) /\ Len(<<b>>) = 1 /\ Sent(s, <<b>>) = {Frame(s, b)}
  <2>1. <<b>> \in Seq(Bodies) /\ Len(<<b>>) = 1 /\ <<b>>[1] = b OBVIOUS
  <2> QED BY <2>1, <1>1, <1>2 DEF Sent
<1>5. ASSUME NEW b \in Bodies, NEW d \in Bodies
      PROVE /\ <<b, d>> \in Seq(Bodies) /\ Len(<<b, d>>) = 2
            /\ Sent(s, <<b, d>>) = {Frame(s, b), Frame(s + 1, d)}
  <2>1. <<b, d>> \in Seq(Bodies) /\ Len(<<b, d>>) = 2 /\ <<b, d>>[1] = b /\ <<b, d>>[2] = d OBVIOUS
  <2>2. \A e : e \in Sent(s, <<b, d>>) <=> e = Frame(s + 1 - 1, b) \/ e = Frame(s + 2 - 1, d)
    BY <2>1, <1>1 DEF Sent
  <2> QED BY <2>1, <2>2, <1>2
<1> QED BY <1>3, <1>4, <1>5

\* Put to the claimant and to the allocator.
LEMMA PutsAre ==
  ASSUME NEW m \in Mailboxes, NEW seq \in Nat, NEW bodies \in Seq(Bodies),
         seq + Len(bodies) <= 5
  PROVE  /\ Grows(m, Put(m, "toC", seq, bodies), {}, Sent(seq, bodies))
         /\ Put(m, "toC", seq, bodies).st = m.st
         /\ Grows(m, Put(m, "toA", seq, bodies), Sent(seq, bodies), {})
         /\ Put(m, "toA", seq, bodies).st = m.st
<1>1. "toC" \in {"toA", "toC"} /\ "toA" \in {"toA", "toC"} /\ "toA" # "toC" OBVIOUS
<1> QED BY <1>1, PutIs

\* A frame of the script, sent by one that has gone further.
LEMMA FrameFine ==
  ASSUME NEW n \in 0..4, NEW b \in Bodies
  PROVE  /\ \A p, m : n < p.seq /\ b \in Script.allocator[n + 1] =>
              FromAllocator(p, m, Frame(n, b))
         /\ \A c : /\ n < c.seq /\ b \in Script.claimant[n + 1]
                   /\ b \in {"approve", "decline"} => c.decision = b
                   => FromClaimant(c, Frame(n, b))
<1>1. Frame(n, b).k = "frame" /\ Frame(n, b).seq = n /\ Frame(n, b).body = b BY MessagesAre
<1> QED BY <1>1 DEF FromAllocator, FromClaimant

-----------------------------------------------------------------------------
(* One step of one pairing                                                 *)

\* A page is its eight fields.
LEMMA PageIs ==
  ASSUME NEW p \in PageStates
  PROVE  /\ DOMAIN p = {"phase", "seq", "peer", "ready", "intent", "payload", "declined", "out"}
         /\ p.phase \in {"new", "welcome", "allocation", "bootstrap", "spent", "endpoint", "terminal"}
         /\ p.seq \in 0..5 /\ p.peer \in 0..4
         /\ p.ready \in BOOLEAN /\ p.intent \in BOOLEAN
         /\ p.payload \in BOOLEAN /\ p.declined \in BOOLEAN
         /\ p.out \in {None, "delivered", "declined", "closed", "cancelled"}
BY DEF PageStates

\* A core is its ten fields.
LEMMA CoreIs ==
  ASSUME NEW c \in CoreStates
  PROVE  /\ DOMAIN c = {"phase", "owner", "proof", "seq", "peer", "step", "decision",
                        "accepted", "out", "view"}
         /\ c.phase \in {"none", "welcome", "claim", "bootstrap", "endpoint", "terminal"}
         /\ c.owner \in {"none", "start", "slot", "finish", "gone"}
         /\ c.proof \in BOOLEAN /\ c.seq \in 0..3 /\ c.peer \in 0..5
         /\ c.step \in DOMAIN ClaimantTakes /\ c.accepted \in BOOLEAN
         /\ c.decision \in {None, "approve", "decline"}
         /\ c.out \in {None, "accepted", "declined", "refused", "closed", "cancelled"}
         /\ c.view \in {None, "intent", "accepted", "declined", "failed"}
BY DEF CoreStates

\* What was fine on the wire stays so while the senders only go on and a
\* decision is taken once.
LEMMA WireKept ==
  ASSUME NEW p \in PageStates, NEW c \in CoreStates, NEW m \in Mailboxes, WireOK(p, c, m),
         NEW p2 \in PageStates, NEW c2 \in CoreStates, NEW n, NEW a, NEW d, Grows(m, n, a, d),
         p.seq <= p2.seq, c.seq <= c2.seq, c.decision \in {None, c2.decision},
         \A f \in a : FromClaimant(c2, f), \A f \in d : FromAllocator(p2, n, f)
  PROVE  WireOK(p2, c2, n)
<1>1. ToA(m) \subseteq Message /\ ToC(m) \subseteq Message BY MailboxIs, QueuesAre DEF ToA, ToC
<1>2. p.seq \in Nat /\ p2.seq \in Nat /\ c.seq \in Nat /\ c2.seq \in Nat BY PageIs, CoreIs
<1>3. ASSUME NEW f \in Noise(n) PROVE FromClaimant(c2, f) /\ FromAllocator(p2, n, f)
  BY <1>3, MessagesAre DEF Noise, FromClaimant, FromAllocator
<1>4. ASSUME NEW f \in ToA(m) PROVE FromClaimant(c2, f)
  <2>1. FromClaimant(c, f) BY DEF WireOK
  <2>2. f.seq \in Nat BY <1>1, MessagesAre
  <2>3. c.decision \in {"approve", "decline"} => c2.decision = c.decision
    BY LivePairingAssumption DEF LivePairingAssumption
  <2> QED BY <1>2, <2>1, <2>2, <2>3 DEF FromClaimant
<1>5. ASSUME NEW f \in ToC(m) PROVE FromAllocator(p2, n, f)
  <2>1. FromAllocator(p, m, f) BY DEF WireOK
  <2>2. f.seq \in Nat BY <1>1, MessagesAre
  <2> QED BY <1>2, <2>1, <2>2 DEF FromAllocator, Grows
<1> QED BY <1>3, <1>4, <1>5 DEF Grows, WireOK

\* What the invariant says of one pairing.
LEMMA Now ==
  ASSUME IInv, NEW i \in Invites
  PROVE  /\ page[i] \in PageStates /\ core[i] \in CoreStates /\ mail[i] \in Mailboxes
         /\ PageOK(page[i]) /\ CoreOK(core[i]) /\ JointOK(page[i], core[i])
         /\ WireOK(page[i], core[i], mail[i]) /\ EndOK(page[i], core[i], mail[i])
BY DEF IInv, StateOK, PairOK

\* One pairing steps to p, c and m, the relay taking a and d, and ends well.
Moves(i, p, c, m, a, d) ==
  /\ p \in PageStates /\ c \in CoreStates /\ Grows(mail[i], m, a, d)
  /\ page' = [page EXCEPT ![i] = p] /\ core' = [core EXCEPT ![i] = c]
  /\ mail' = [mail EXCEPT ![i] = m] /\ slot' = slot
  /\ c.owner = "slot" <=> core[i].owner = "slot"
  /\ page[i].seq <= p.seq /\ core[i].seq <= c.seq /\ core[i].decision \in {None, c.decision}
  /\ \A f \in a : FromClaimant(c, f)
  /\ \A f \in d : FromAllocator(p, m, f)
  /\ PageOK(p) /\ CoreOK(c) /\ JointOK(p, c) /\ EndOK(p, c, m)

\* A step of one pairing that leaves the slot alone keeps the invariant.
LEMMA PairStep ==
  ASSUME IInv, NEW i \in Invites, NEW p, NEW c, NEW m, NEW a, NEW d, Moves(i, p, c, m, a, d)
  PROVE  IInv'
<1>1. m \in Mailboxes BY DEF Moves, Grows
<1>2. WireOK(p, c, m) BY Now, WireKept DEF Moves
<1>3. StateOK' BY <1>1 DEF IInv, StateOK, Moves
<1>4. ASSUME NEW j \in Invites PROVE PairOK(page[j], core[j], mail[j])'
  <2>1. CASE j = i
    <3>1. page'[j] = p /\ core'[j] = c /\ mail'[j] = m BY <2>1 DEF IInv, StateOK, Moves
    <3> QED BY <1>2, <3>1 DEF PairOK, Moves
  <2>2. CASE j # i
    <3>1. page'[j] = page[j] /\ core'[j] = core[j] /\ mail'[j] = mail[j]
      BY <2>2 DEF IInv, StateOK, Moves
    <3> QED BY <3>1 DEF IInv
  <2> QED BY <2>1, <2>2
<1> QED BY <1>3, <1>4 DEF IInv

\* The allocator steps to p and m, putting d.
PageMoves(i, p, m, d) ==
  /\ p \in PageStates /\ Grows(mail[i], m, {}, d)
  /\ page' = [page EXCEPT ![i] = p] /\ mail' = [mail EXCEPT ![i] = m]
  /\ UNCHANGED <<core, slot>>
  /\ page[i].seq <= p.seq /\ \A f \in d : FromAllocator(p, m, f)
  /\ PageOK(p) /\ JointOK(p, core[i]) /\ EndOK(p, core[i], m)

LEMMA PageStep ==
  ASSUME IInv, NEW i \in Invites, NEW p, NEW m, NEW d, PageMoves(i, p, m, d)
  PROVE  IInv'
<1>1. core' = [core EXCEPT ![i] = core[i]] BY DEF IInv, StateOK, PageMoves
<1>2. core[i] \in CoreStates /\ CoreOK(core[i]) BY Now
<1>3. core[i].seq <= core[i].seq BY <1>2, CoreIs
<1>4. core[i].decision \in {None, core[i].decision} OBVIOUS
<1>5. \A f \in {} : FromClaimant(core[i], f) OBVIOUS
<1>6. slot' = slot BY DEF PageMoves
<1>7. Moves(i, p, core[i], m, {}, d)
  BY <1>1, <1>2, <1>3, <1>4, <1>5, <1>6 DEF Moves, PageMoves
<1> QED BY <1>7, PairStep

\* The claimant steps to c and m, putting a.
CoreMoves(i, c, m, a) ==
  /\ c \in CoreStates /\ Grows(mail[i], m, a, {})
  /\ core' = [core EXCEPT ![i] = c] /\ mail' = [mail EXCEPT ![i] = m]
  /\ UNCHANGED <<page, slot>>
  /\ c.owner = "slot" <=> core[i].owner = "slot"
  /\ core[i].seq <= c.seq /\ core[i].decision \in {None, c.decision}
  /\ \A f \in a : FromClaimant(c, f)
  /\ CoreOK(c) /\ JointOK(page[i], c) /\ EndOK(page[i], c, m)

LEMMA CoreStep ==
  ASSUME IInv, NEW i \in Invites, NEW c, NEW m, NEW a, CoreMoves(i, c, m, a)
  PROVE  IInv'
<1>1. page' = [page EXCEPT ![i] = page[i]] BY DEF IInv, StateOK, CoreMoves
<1>2. page[i] \in PageStates /\ PageOK(page[i]) BY Now
<1>3. page[i].seq <= page[i].seq BY <1>2, PageIs
<1>4. \A f \in {} : FromAllocator(page[i], m, f) OBVIOUS
<1>5. slot' = slot BY DEF CoreMoves
<1>6. Moves(i, page[i], c, m, a, {})
  BY <1>1, <1>2, <1>3, <1>4, <1>5 DEF Moves, CoreMoves
<1> QED BY <1>6, PairStep

\* A step that leaves both sessions alone.
LEMMA MailStep ==
  ASSUME IInv, NEW i \in Invites, NEW m, Grows(mail[i], m, {}, {}),
         mail' = [mail EXCEPT ![i] = m], UNCHANGED <<page, core, slot>>,
         mail[i].st = "none" => m.st = "none", Over(mail[i]) => Over(m)
  PROVE  IInv'
<1>1. page' = [page EXCEPT ![i] = page[i]] BY DEF IInv, StateOK
<1>2. EndOK(page[i], core[i], m) BY Now DEF EndOK, Grows
<1>3. page[i] \in PageStates /\ PageOK(page[i]) /\ JointOK(page[i], core[i]) BY Now
<1>4. page[i].seq <= page[i].seq BY <1>3, PageIs
<1>5. \A f \in {} : FromAllocator(page[i], m, f) OBVIOUS
<1>6. PageMoves(i, page[i], m, {}) BY <1>1, <1>2, <1>3, <1>4, <1>5 DEF PageMoves
<1> QED BY <1>6, PageStep

-----------------------------------------------------------------------------
(* The relay and the allocator keep the invariant                          *)

LEMMA ExpireKeeps == ASSUME IInv, NEW i \in Invites, Expire(i) PROVE IInv'
<1>1. mail' = [mail EXCEPT ![i] = Close(mail[i])] BY DEF Expire
<1>2. Grows(mail[i], Close(mail[i]), {}, {}) /\ Over(Close(mail[i])) BY Now, CloseIs
<1>3. mail[i].st # "none" BY DEF Expire
<1> QED BY <1>1, <1>2, <1>3, MailStep DEF Expire

\* Reading the page's mail leaves what follows.
LEMMA PagePops ==
  ASSUME IInv, NEW i \in Invites, NEW k, ForPage(i, k)
  PROVE  /\ Grows(mail[i], Popped(i, "toA"), {}, {}) /\ Popped(i, "toA").st = mail[i].st
         /\ Popped(i, "toA").toA \in Seq(Message)
         /\ Head(mail[i].toA) \in ToA(mail[i]) /\ Head(mail[i].toA) \in Message
         /\ Popped(i, "toA") \in Mailboxes
<1>1. mail[i] \in Mailboxes /\ mail[i]["toA"] # <<>> /\ mail[i]["toA"] = mail[i].toA
  BY Now, MailboxIs DEF ForPage
<1> QED BY <1>1, PopIs DEF Popped, Grows

LEMMA RelayErrorKeeps == ASSUME IInv, NEW i \in Invites, RelayError(i) PROVE IInv'
<1>1. ForPage(i, "error") BY DEF RelayError
<1> QED BY <1>1, PagePops, MailStep DEF RelayError, Over

LEMMA BindKeeps == ASSUME IInv, NEW i \in Invites, Bind(i) PROVE IInv'
<1> DEFINE p == [page[i] EXCEPT !.phase = "welcome"]
           m == [mail[i] EXCEPT !.toA = <<Notice("welcome")>>]
<1>1. page' = [page EXCEPT ![i] = p] /\ mail' = [mail EXCEPT ![i] = m] BY DEF Bind
<1>2. page[i] \in PageStates /\ core[i] \in CoreStates /\ mail[i] \in Mailboxes BY Now
<1>3. p \in PageStates BY <1>2 DEF PageStates
<1>4. /\ p.phase = "welcome" /\ p.seq = page[i].seq /\ p.peer = page[i].peer
      /\ p.ready = page[i].ready /\ p.intent = page[i].intent /\ p.payload = page[i].payload
      /\ p.declined = page[i].declined /\ p.out = page[i].out
  BY <1>2 DEF PageStates
<1>5. Notice("welcome") \in Message /\ <<Notice("welcome")>> \in Seq(Message)
      /\ Elems(<<Notice("welcome")>>) = {Notice("welcome")}
  BY MessagesAre, QueuesAre
<1>6. m \in Mailboxes /\ m.st = mail[i].st /\ m.toC = mail[i].toC /\ m.box = mail[i].box
      /\ m.toA = <<Notice("welcome")>>
  BY <1>2, <1>5 DEF Mailboxes
<1> HIDE DEF p, m
<1>7. Notice("welcome") \in Noise(m) BY DEF Noise
<1>8. Grows(mail[i], m, {}, {}) BY <1>5, <1>6, <1>7 DEF Grows, ToA, ToC
<1>9. page[i].phase = "new" /\ UNCHANGED <<core, slot>> BY DEF Bind
<1>10. PageOK(page[i]) /\ CoreOK(core[i]) /\ JointOK(page[i], core[i]) /\ EndOK(page[i], core[i], mail[i])
  BY Now
<1>11. PageOK(p) BY <1>4, <1>9, <1>10 DEF PageOK, Early
<1>12. JointOK(p, core[i]) BY <1>4, <1>9, <1>10 DEF JointOK, Early
<1>13. EndOK(p, core[i], m) BY <1>4, <1>6, <1>9, <1>10 DEF EndOK, Over
<1>14. p.seq <= p.seq BY <1>3, PageIs
<1>15. \A f \in {} : FromAllocator(p, m, f) OBVIOUS
<1>16. PageMoves(i, p, m, {}) BY <1>1, <1>3, <1>4, <1>8, <1>9, <1>11, <1>12, <1>13, <1>14, <1>15 DEF PageMoves
<1> QED BY <1>16, PageStep

LEMMA WelcomedKeeps == ASSUME IInv, NEW i \in Invites, Welcomed(i) PROVE IInv'
<1> DEFINE p == [page[i] EXCEPT !.phase = "allocation"]
           o == Popped(i, "toA")
<1>1. PICK granted \in BOOLEAN :
        mail' = [mail EXCEPT ![i] =
                   [o EXCEPT !.st = IF granted THEN "open" ELSE @,
                             !.toA = Append(@, Notice(IF granted THEN "allocated" ELSE "error"))]]
  BY DEF Welcomed
<1> DEFINE said == Notice(IF granted THEN "allocated" ELSE "error")
           m == [o EXCEPT !.st = IF granted THEN "open" ELSE @, !.toA = Append(@, said)]
<1>2. page[i] \in PageStates /\ core[i] \in CoreStates /\ mail[i] \in Mailboxes BY Now
<1>3. ForPage(i, "welcome") /\ page[i].phase = "welcome" /\ UNCHANGED <<core, slot>>
      /\ page' = [page EXCEPT ![i] = p]
  BY DEF Welcomed
<1>4. /\ Grows(mail[i], o, {}, {}) /\ o.st = mail[i].st /\ o.toA \in Seq(Message)
      /\ o \in Mailboxes
  BY <1>3, PagePops
<1>5. p \in PageStates BY <1>2 DEF PageStates
<1>6. /\ p.phase = "allocation" /\ p.seq = page[i].seq /\ p.peer = page[i].peer
      /\ p.ready = page[i].ready /\ p.intent = page[i].intent /\ p.payload = page[i].payload
      /\ p.declined = page[i].declined /\ p.out = page[i].out
  BY <1>2 DEF PageStates
<1> HIDE DEF p, o
<1>7. said \in Message /\ said \in {Notice("allocated"), Notice("error")} BY MessagesAre
<1> HIDE DEF said
<1>8. Append(o.toA, said) \in Seq(Message) /\ Elems(Append(o.toA, said)) \subseteq Elems(o.toA) \cup {said}
  BY <1>4, <1>7, QueuesAre
<1>9. m \in Mailboxes BY <1>4, <1>8 DEF Mailboxes
<1>10. m.st \in {"open", o.st} /\ m.toA = Append(o.toA, said) /\ m.toC = o.toC /\ m.box = o.box
       /\ (~granted => m.st = o.st)
  BY <1>4 DEF Mailboxes
<1>11. mail' = [mail EXCEPT ![i] = m] BY <1>1 DEF said
<1> HIDE DEF m
<1>12. PageOK(page[i]) /\ CoreOK(core[i]) /\ JointOK(page[i], core[i]) /\ EndOK(page[i], core[i], mail[i])
  BY Now
<1>13. mail[i].st = "none" /\ core[i] = NewCore /\ core[i].out = None /\ core[i].view = None
  BY <1>2, <1>3, <1>12, CoreIs DEF EndOK, JointOK, Early, CoreOK, NewCore
<1>14. said \in Noise(m) BY <1>7 DEF Noise
<1>15. Noise(o) \subseteq Noise(m) BY <1>4, <1>13 DEF Noise
<1>16. Grows(mail[i], m, {}, {})
  BY <1>4, <1>8, <1>9, <1>10, <1>13, <1>14, <1>15 DEF Grows, ToA, ToC
<1>17. PageOK(p) BY <1>3, <1>6, <1>12 DEF PageOK, Early
<1>18. JointOK(p, core[i]) BY <1>3, <1>6, <1>12 DEF JointOK, Early
<1>19. EndOK(p, core[i], m)
  BY <1>6, <1>12, <1>13, LivePairingAssumption DEF EndOK, LivePairingAssumption
<1>20. p.seq <= p.seq BY <1>5, PageIs
<1>21. \A f \in {} : FromAllocator(p, m, f) OBVIOUS
<1>22. PageMoves(i, p, m, {})
  BY <1>3, <1>5, <1>6, <1>11, <1>16, <1>17, <1>18, <1>19, <1>20, <1>21 DEF PageMoves
<1> QED BY <1>22, PageStep


\* A frame in sequence was sent by a claimant that has gone further.
LEMMA PageFrame ==
  ASSUME IInv, NEW i \in Invites, ForPage(i, "frame"), Head(mail[i].toA).seq = page[i].peer
  PROVE  /\ FromClaimant(core[i], Head(mail[i].toA)) /\ Head(mail[i].toA).k = "frame"
         /\ page[i].peer + 1 <= core[i].seq /\ page[i].peer + 1 \in 0..4
         /\ Head(mail[i].toA).body \in Bodies
<1>1. Head(mail[i].toA) \in ToA(mail[i]) /\ Head(mail[i].toA) \in Message BY PagePops
<1>2. FromClaimant(core[i], Head(mail[i].toA)) BY <1>1, Now DEF WireOK
<1>3. Head(mail[i].toA).k = "frame" BY DEF ForPage
<1>4. page[i].peer < core[i].seq BY <1>2, <1>3 DEF FromClaimant
<1>5. page[i].peer \in 0..4 /\ core[i].seq \in 0..3 BY Now, PageIs, CoreIs
<1>6. Head(mail[i].toA).body \in Bodies BY <1>1, MessagesAre
<1> QED BY <1>2, <1>3, <1>4, <1>5, <1>6

LEMMA AllocatedKeeps == ASSUME IInv, NEW i \in Invites, Allocated(i) PROVE IInv'
<1> DEFINE p == [page[i] EXCEPT !.phase = "bootstrap", !.seq = 1]
           o == Popped(i, "toA")
           m == Put(o, "toC", 0, <<"cpace">>)
<1>1. ForPage(i, "allocated") /\ page[i].phase = "allocation" /\ UNCHANGED <<core, slot>>
      /\ mail' = [mail EXCEPT ![i] = m]
  BY DEF Allocated
<1>2. page[i] \in PageStates /\ core[i] \in CoreStates /\ mail[i] \in Mailboxes BY Now
<1>3. page' = [page EXCEPT ![i] = p] BY <1>2 DEF Allocated, IInv, StateOK
<1>4. p \in PageStates
  <2>1. 1 \in 0..5 OBVIOUS
  <2> QED BY <1>2, <2>1 DEF PageStates
<1>5. /\ p.phase = "bootstrap" /\ p.seq = 1 /\ p.peer = page[i].peer
      /\ p.ready = page[i].ready /\ p.intent = page[i].intent /\ p.payload = page[i].payload
      /\ p.declined = page[i].declined /\ p.out = page[i].out
  BY <1>2 DEF PageStates
<1> HIDE DEF p
<1>6. Grows(mail[i], o, {}, {}) /\ o.st = mail[i].st /\ o \in Mailboxes BY <1>1, PagePops
<1>7. "cpace" \in Bodies BY DEF Bodies
<1>8. Grows(o, m, {}, {Frame(0, "cpace")}) /\ m.st = o.st
  <2>1. <<"cpace">> \in Seq(Bodies) /\ Len(<<"cpace">>) = 1 /\ Sent(0, <<"cpace">>) = {Frame(0, "cpace")}
    BY <1>7, SentIs
  <2>2. 0 + Len(<<"cpace">>) <= 5 /\ 0 \in Nat BY <2>1
  <2> HIDE DEF o
  <2> QED BY <2>1, <2>2, <1>6, PutsAre
<1> HIDE DEF o, m
<1>9. Grows(mail[i], m, {}, {Frame(0, "cpace")})
  <2>1. Grows(mail[i], m, {} \cup {}, {} \cup {Frame(0, "cpace")}) BY <1>2, <1>6, <1>8, GrowsOn
  <2> QED BY <2>1
<1>10. PageOK(page[i]) /\ CoreOK(core[i]) /\ JointOK(page[i], core[i]) /\ EndOK(page[i], core[i], mail[i])
  BY Now
<1>11. PageOK(p) BY <1>1, <1>5, <1>10 DEF PageOK, Early
<1>12. JointOK(p, core[i]) 
  <2>1. core[i].owner = "none" /\ core[i].peer = 0
    BY <1>1, <1>10 DEF JointOK, Early, CoreOK, NewCore
  <2> QED BY <1>5, <1>10, <2>1 DEF JointOK
<1>13. EndOK(p, core[i], m) BY <1>1, <1>5, <1>6, <1>8, <1>10 DEF EndOK, Over
<1>14. page[i].seq <= p.seq BY <1>1, <1>5, <1>10 DEF PageOK, Early
<1>15. \A f \in {Frame(0, "cpace")} : FromAllocator(p, m, f)
  <2>1. 0 \in 0..4 /\ 0 + 1 = 1 /\ 0 < p.seq BY <1>5
  <2>2. "cpace" \in Script.allocator[0 + 1] BY <2>1, ScriptIs
  <2> QED BY <1>7, <2>1, <2>2, FrameFine
<1>16. PageMoves(i, p, m, {Frame(0, "cpace")})
  BY <1>1, <1>3, <1>4, <1>9, <1>11, <1>12, <1>13, <1>14, <1>15 DEF PageMoves
<1> QED BY <1>16, PageStep

LEMMA AllocatorOutOfOrderKeeps == ASSUME IInv, NEW i \in Invites, AllocatorOutOfOrder(i) PROVE IInv'
<1> DEFINE p == [page[i] EXCEPT !.peer = @ + 1]
           o == Popped(i, "toA")
<1>1. ForPage(i, "frame") /\ mail' = [mail EXCEPT ![i] = o] /\ UNCHANGED <<core, slot>>
  BY DEF AllocatorOutOfOrder
<1>2. Grows(mail[i], o, {}, {}) /\ o.st = mail[i].st BY <1>1, PagePops
<1>3. CASE UNCHANGED page
  BY <1>1, <1>2, <1>3, MailStep DEF Over
<1>4. CASE /\ Head(mail[i].toA).seq = page[i].peer
           /\ page' = [page EXCEPT ![i].peer = @ + 1]
  <2>1. page[i] \in PageStates /\ core[i] \in CoreStates /\ mail[i] \in Mailboxes BY Now
  <2>2. page' = [page EXCEPT ![i] = p] BY <1>4, <2>1 DEF IInv, StateOK
  <2>3. page[i].peer + 1 <= core[i].seq /\ page[i].peer + 1 \in 0..4 BY <1>1, <1>4, PageFrame
  <2>4. p \in PageStates BY <2>1, <2>3 DEF PageStates
  <2>5. /\ p.phase = page[i].phase /\ p.seq = page[i].seq /\ p.peer = page[i].peer + 1
        /\ p.ready = page[i].ready /\ p.intent = page[i].intent /\ p.payload = page[i].payload
        /\ p.declined = page[i].declined /\ p.out = page[i].out
    BY <2>1 DEF PageStates
  <2> HIDE DEF p, o
  <2>6. PageOK(page[i]) /\ JointOK(page[i], core[i]) /\ EndOK(page[i], core[i], mail[i])
    BY Now
  <2>7. page[i].phase \notin Early
    <3>1. page[i].peer \in 0..4 /\ core[i].seq \in 0..3 BY <2>1, PageIs, CoreIs
    <3>2. core[i].seq # 0 BY <2>3, <3>1
    <3>3. CoreOK(core[i]) BY Now
    <3>4. core[i].owner # "none" BY <3>2, <3>3 DEF CoreOK, NewCore
    <3> QED BY <2>6, <3>4 DEF JointOK
  <2>8. PageOK(p) /\ JointOK(p, core[i])
    <3>1. PageOK(p) BY <2>5, <2>6, <2>7 DEF PageOK
    <3>2. JointOK(p, core[i]) BY <2>3, <2>5, <2>6 DEF JointOK
    <3> QED BY <3>1, <3>2
  <2>9. EndOK(p, core[i], o) BY <1>2, <2>5, <2>6 DEF EndOK, Over
  <2>10. p.seq <= p.seq BY <2>4, PageIs
  <2>11. \A f \in {} : FromAllocator(p, o, f) OBVIOUS
  <2>12. PageMoves(i, p, o, {})
    BY <1>1, <1>2, <2>2, <2>4, <2>5, <2>8, <2>9, <2>10, <2>11 DEF PageMoves
  <2> QED BY <2>12, PageStep
<1> QED BY <1>3, <1>4 DEF AllocatorOutOfOrder


\* Reading the page's mail and putting an answer.
LEMMA PagePuts ==
  ASSUME IInv, NEW i \in Invites, NEW k, ForPage(i, k), NEW seq \in Nat,
         NEW bodies \in Seq(Bodies), seq + Len(bodies) <= 5
  PROVE  /\ Grows(mail[i], Put(Popped(i, "toA"), "toC", seq, bodies), {}, Sent(seq, bodies))
         /\ Put(Popped(i, "toA"), "toC", seq, bodies).st = mail[i].st
<1> DEFINE o == Popped(i, "toA")
           m == Put(o, "toC", seq, bodies)
<1>1. Grows(mail[i], o, {}, {}) /\ o.st = mail[i].st /\ o \in Mailboxes BY PagePops
<1> HIDE DEF o
<1>2. Grows(o, m, {}, Sent(seq, bodies)) /\ m.st = o.st BY <1>1, PutsAre
<1>3. mail[i] \in Mailboxes BY Now
<1> HIDE DEF m
<1>4. Grows(mail[i], m, {} \cup {}, {} \cup Sent(seq, bodies)) BY <1>1, <1>2, <1>3, GrowsOn
<1> QED BY <1>1, <1>2, <1>4 DEF m, o

LEMMA AllocatorFinishKeeps == ASSUME IInv, NEW i \in Invites, AllocatorFinish(i) PROVE IInv'
<1> DEFINE o == Popped(i, "toA")
           f == Head(mail[i].toA)
<1>1. ForPage(i, "frame") /\ f.seq = page[i].peer /\ page[i].phase = "bootstrap"
      /\ UNCHANGED <<core, slot>>
  BY DEF AllocatorFinish
<1>2. page[i] \in PageStates /\ core[i] \in CoreStates /\ mail[i] \in Mailboxes BY Now
<1>3. page[i].peer + 1 <= core[i].seq /\ page[i].peer + 1 \in 0..4 BY <1>1, PageFrame
<1>4. PageOK(page[i]) /\ CoreOK(core[i]) /\ JointOK(page[i], core[i]) /\ EndOK(page[i], core[i], mail[i])
  BY Now
<1>5. page[i].seq = 1 BY <1>1, <1>4 DEF PageOK
<1>6. CASE f.body = "cpace"
  <2> DEFINE p == [page[i] EXCEPT !.phase = "endpoint", !.peer = @ + 1, !.seq = @ + 1]
             m == Put(o, "toC", 1, <<"finished">>)
  <2>1. page' = [page EXCEPT ![i] = p] /\ mail' = [mail EXCEPT ![i] = m]
    BY <1>2, <1>5, <1>6 DEF AllocatorFinish, IInv, StateOK
  <2>2. p \in PageStates
    <3>1. page[i].seq + 1 \in 0..5 BY <1>5
    <3> QED BY <1>2, <1>3, <3>1 DEF PageStates
  <2>3. /\ p.phase = "endpoint" /\ p.seq = 2 /\ p.peer = page[i].peer + 1
        /\ p.ready = page[i].ready /\ p.intent = page[i].intent /\ p.payload = page[i].payload
        /\ p.declined = page[i].declined /\ p.out = page[i].out
    BY <1>2, <1>5 DEF PageStates
  <2> HIDE DEF p
  <2>4. "finished" \in Bodies BY DEF Bodies
  <2>5. Grows(mail[i], m, {}, {Frame(1, "finished")}) /\ m.st = mail[i].st
    <3>1. <<"finished">> \in Seq(Bodies) /\ Len(<<"finished">>) = 1
          /\ Sent(1, <<"finished">>) = {Frame(1, "finished")}
      BY <2>4, SentIs
    <3>2. 1 + Len(<<"finished">>) <= 5 /\ 1 \in Nat BY <3>1
    <3> QED BY <1>1, <3>1, <3>2, PagePuts
  <2> HIDE DEF m, o
  <2>6. PageOK(p)
    <3>1. ~page[i].ready /\ ~page[i].intent /\ ~page[i].payload BY <1>1, <1>4 DEF PageOK
    <3>2. p.intent = p.ready BY <2>3, <3>1, <1>2, PageIs
    <3> QED BY <1>1, <1>4, <2>3, <3>1, <3>2 DEF PageOK, Early
  <2>7. JointOK(p, core[i]) BY <1>1, <1>2, <1>3, <1>4, <1>5, <2>3, CoreIs DEF JointOK, Early
  <2>8. EndOK(p, core[i], m) BY <1>4, <2>3, <2>5 DEF EndOK, Over
  <2>9. page[i].seq <= p.seq BY <1>5, <2>3
  <2>10. \A e \in {Frame(1, "finished")} : FromAllocator(p, m, e)
    <3>1. 1 \in 0..4 /\ 1 + 1 = 2 /\ 1 < p.seq BY <2>3
    <3>2. "finished" \in Script.allocator[1 + 1] BY <3>1, ScriptIs
    <3> QED BY <2>4, <3>1, <3>2, FrameFine
  <2>11. PageMoves(i, p, m, {Frame(1, "finished")})
    BY <1>1, <2>1, <2>2, <2>5, <2>6, <2>7, <2>8, <2>9, <2>10 DEF PageMoves
  <2> QED BY <2>11, PageStep
<1>7. CASE f.body # "cpace"
  <2> DEFINE p == [page[i] EXCEPT !.phase = "spent", !.peer = @ + 1]
  <2>1. page' = [page EXCEPT ![i] = p] /\ mail' = [mail EXCEPT ![i] = o]
    BY <1>2, <1>7 DEF AllocatorFinish, IInv, StateOK
  <2>2. p \in PageStates BY <1>2, <1>3 DEF PageStates
  <2>3. /\ p.phase = "spent" /\ p.seq = 1 /\ p.peer = page[i].peer + 1
        /\ p.ready = page[i].ready /\ p.intent = page[i].intent /\ p.payload = page[i].payload
        /\ p.declined = page[i].declined /\ p.out = page[i].out
    BY <1>2, <1>5 DEF PageStates
  <2>4. Grows(mail[i], o, {}, {}) /\ o.st = mail[i].st BY <1>1, PagePops
  <2> HIDE DEF p, o
  <2>5. PageOK(p) BY <1>1, <1>4, <2>3 DEF PageOK, Early
  <2>6. JointOK(p, core[i]) BY <1>1, <1>3, <1>4, <1>5, <2>3 DEF JointOK, Early
  <2>7. EndOK(p, core[i], o) BY <1>4, <2>3, <2>4 DEF EndOK, Over
  <2>8. page[i].seq <= p.seq BY <1>5, <2>3
  <2>9. \A e \in {} : FromAllocator(p, o, e) OBVIOUS
  <2>10. PageMoves(i, p, o, {})
    BY <1>1, <2>1, <2>2, <2>4, <2>5, <2>6, <2>7, <2>8, <2>9 DEF PageMoves
  <2> QED BY <2>10, PageStep
<1> QED BY <1>6, <1>7


\* What the allocator's reducer sends, in the three things it takes.
LEMMA SendsAre ==
  ASSUME NEW p \in PageStates, PageOK(p), p.phase = "endpoint", NEW body, AllocatorTakes(p, body)
  PROVE  LET r == AllocatorReduced(p, body) IN
         /\ r \in PageStates /\ r.phase = p.phase /\ r.seq = p.seq /\ r.peer = p.peer
         /\ r.intent = p.intent /\ r.payload = p.payload /\ r.out = p.out
         /\ ~r.payload
         /\ \/ /\ body = "finished" /\ p.seq = 2 /\ r.ready /\ ~r.intent
               /\ (r.declined <=> p.declined)
               /\ AllocatorSends(r, body) = <<"opener", "intent">>
               /\ IntentDue(r)
            \/ /\ body = "approve" /\ p.seq = 4 /\ r.ready /\ r.intent /\ ~r.declined
               /\ AllocatorSends(r, body) = <<"payload">>
               /\ ~IntentDue(r) /\ PayloadDue(r)
            \/ /\ body = "decline" /\ p.seq = 4 /\ r.ready /\ r.intent /\ r.declined
               /\ AllocatorSends(r, body) = <<>>
               /\ ~IntentDue(r) /\ ~PayloadDue(r)
<1> DEFINE r == AllocatorReduced(p, body)
<1>1. r = [p EXCEPT !.ready = p.ready \/ body = "finished", !.declined = p.declined \/ body = "decline"]
  BY DEF AllocatorReduced
<1>2. (p.ready \/ body = "finished") \in BOOLEAN /\ (p.declined \/ body = "decline") \in BOOLEAN
  OBVIOUS
<1>3. r \in PageStates BY <1>1, <1>2 DEF PageStates
<1>4. /\ r.phase = p.phase /\ r.seq = p.seq /\ r.peer = p.peer
      /\ r.intent = p.intent /\ r.payload = p.payload /\ r.out = p.out
      /\ r.ready <=> (p.ready \/ body = "finished")
      /\ r.declined <=> (p.declined \/ body = "decline")
  BY <1>1 DEF PageStates
<1> HIDE DEF r
<1>5. /\ p.ready \in BOOLEAN /\ p.intent \in BOOLEAN /\ p.payload \in BOOLEAN
      /\ p.declined \in BOOLEAN
  BY PageIs
<1>6. /\ p.intent = p.ready
      /\ p.payload => p.ready
      /\ p.seq = IF p.payload THEN 5 ELSE IF p.ready THEN 4 ELSE 2
  BY DEF PageOK
<1>7. /\ <<"opener">> \o <<"intent">> = <<"opener", "intent">>
      /\ <<>> \o <<"payload">> = <<"payload">> /\ <<>> \o <<>> = <<>>
  <2>1. <<"opener">> \in Seq(Bodies) /\ <<"intent">> \in Seq(Bodies)
        /\ <<"payload">> \in Seq(Bodies) /\ <<>> \in Seq(Bodies)
        /\ <<"opener", "intent">> \in Seq(Bodies)
    BY DEF Bodies
  <2>2. <<"opener">> \o <<"intent">> = <<"opener", "intent">>
    <3> DEFINE s == <<"opener">> \o <<"intent">>
               t == <<"opener", "intent">>
    <3>0. Len(<<"opener">>) = 1 /\ Len(<<"intent">>) = 1 /\ <<"opener">>[1] = "opener"
          /\ <<"intent">>[1] = "intent" /\ 1 + 1 = 2 /\ 2 - 1 = 1
      OBVIOUS
    <3>9. /\ s \in Seq(Bodies) /\ Len(s) = Len(<<"opener">>) + Len(<<"intent">>)
          /\ \A j \in 1..(Len(<<"opener">>) + Len(<<"intent">>)) :
               s[j] = IF j <= Len(<<"opener">>) THEN <<"opener">>[j]
                      ELSE <<"intent">>[j - Len(<<"opener">>)]
      BY <2>1, ConcatProperties
    <3>1. s \in Seq(Bodies) /\ Len(s) = 2 /\ s[1] = "opener" /\ s[2] = "intent"
      BY <3>0, <3>9
    <3>2. t \in Seq(Bodies) /\ Len(t) = 2 /\ t[1] = "opener" /\ t[2] = "intent" BY <2>1
    <3>3. \A j \in 1..2 : j = 1 \/ j = 2 OBVIOUS
    <3> HIDE DEF s, t
    <3>4. Len(s) = Len(t) /\ \A j \in 1..Len(s) : s[j] = t[j] BY <3>1, <3>2, <3>3
    <3>5. s = t BY <3>1, <3>2, <3>4, SeqEqual
    <3> QED BY <3>5 DEF s, t
  <2> QED BY <2>1, <2>2, ConcatEmptySeq
<1>8. AllocatorSends(r, body) =
        (IF body = "finished" THEN <<"opener">> ELSE <<>>)
        \o (IF IntentDue(r) THEN <<"intent">> ELSE IF PayloadDue(r) THEN <<"payload">> ELSE <<>>)
  BY DEF AllocatorSends
<1>9. CASE ~p.ready /\ body = "finished"
  <2>1. r.ready /\ ~r.intent /\ ~r.payload /\ p.seq = 2 /\ IntentDue(r)
    BY <1>4, <1>5, <1>6, <1>9 DEF IntentDue
  <2>2. AllocatorSends(r, body) = <<"opener", "intent">> BY <1>7, <1>8, <1>9, <2>1
  <2> QED BY <1>3, <1>4, <1>9, <2>1, <2>2 DEF r
<1>10. CASE p.intent /\ ~p.payload /\ ~p.declined /\ body = "approve"
  <2>1. r.ready /\ r.intent /\ ~r.payload /\ ~r.declined /\ p.seq = 4
    BY <1>4, <1>5, <1>6, <1>10
  <2>2. ~IntentDue(r) /\ PayloadDue(r) BY <2>1 DEF IntentDue, PayloadDue
  <2>3. AllocatorSends(r, body) = <<"payload">> BY <1>7, <1>8, <1>10, <2>2
  <2> QED BY <1>3, <1>4, <1>10, <2>1, <2>2, <2>3 DEF r
<1>11. CASE p.intent /\ ~p.payload /\ ~p.declined /\ body = "decline"
  <2>1. r.ready /\ r.intent /\ ~r.payload /\ r.declined /\ p.seq = 4
    BY <1>4, <1>5, <1>6, <1>11
  <2>2. ~IntentDue(r) /\ ~PayloadDue(r) BY <2>1 DEF IntentDue, PayloadDue
  <2>3. AllocatorSends(r, body) = <<>> BY <1>7, <1>8, <1>11, <2>2
  <2> QED BY <1>3, <1>4, <1>11, <2>1, <2>2, <2>3 DEF r
<1> QED BY <1>9, <1>10, <1>11 DEF AllocatorTakes


\* The session goes on to q, which took a frame and sent what it owed.
LEMMA EndpointTakesKeeps ==
  ASSUME IInv, NEW i \in Invites, AllocatorEndpoint(i),
         AllocatorTakes(page[i], Head(mail[i].toA).body)
  PROVE  IInv'
<1> DEFINE body == Head(mail[i].toA).body
           p == AllocatorReduced(page[i], body)
           sends == AllocatorSends(p, body)
           m == Put(Popped(i, "toA"), "toC", p.seq, sends)
           q == [p EXCEPT !.peer = @ + 1, !.seq = @ + Len(sends),
                          !.payload = @ \/ (~IntentDue(p) /\ PayloadDue(p)),
                          !.intent = @ \/ IntentDue(p)]
<1>1. /\ ForPage(i, "frame") /\ Head(mail[i].toA).seq = page[i].peer
      /\ page[i].phase = "endpoint" /\ UNCHANGED <<core, slot>>
      /\ page' = [page EXCEPT ![i] = q]
      /\ \E closes \in {FALSE, body = "decline"} :
           mail' = [mail EXCEPT ![i] = IF closes THEN Close(m) ELSE m]
  BY DEF AllocatorEndpoint
<1>2. PICK n \in {m, Close(m)} : mail' = [mail EXCEPT ![i] = n] BY <1>1
<1>3. page[i] \in PageStates /\ core[i] \in CoreStates /\ mail[i] \in Mailboxes BY Now
<1>4. PageOK(page[i]) /\ CoreOK(core[i]) /\ JointOK(page[i], core[i]) /\ EndOK(page[i], core[i], mail[i])
  BY Now
<1>5. /\ FromClaimant(core[i], Head(mail[i].toA)) /\ Head(mail[i].toA).k = "frame"
      /\ page[i].peer + 1 <= core[i].seq /\ page[i].peer + 1 \in 0..4
  BY <1>1, PageFrame
<1>6. /\ p \in PageStates /\ p.phase = "endpoint" /\ p.seq = page[i].seq /\ p.peer = page[i].peer
      /\ p.intent = page[i].intent /\ p.payload = page[i].payload /\ p.out = page[i].out
      /\ ~p.payload
      /\ \/ /\ body = "finished" /\ p.seq = 2 /\ p.ready /\ ~p.intent
            /\ sends = <<"opener", "intent">> /\ IntentDue(p)
            /\ (p.declined <=> page[i].declined)
         \/ /\ body = "approve" /\ p.seq = 4 /\ p.ready /\ p.intent /\ ~p.declined
            /\ sends = <<"payload">> /\ ~IntentDue(p) /\ PayloadDue(p)
         \/ /\ body = "decline" /\ p.seq = 4 /\ p.ready /\ p.intent /\ p.declined
            /\ sends = <<>> /\ ~IntentDue(p) /\ ~PayloadDue(p)
  BY <1>1, <1>3, <1>4, SendsAre
<1> HIDE DEF p, sends, body
<1>7. /\ "opener" \in Bodies /\ "intent" \in Bodies /\ "payload" \in Bodies
      /\ Len(<<"opener", "intent">>) = 2
      /\ Len(<<"payload">>) = 1
      /\ Len(<<>>) = 0
      /\ <<"opener", "intent">> \in Seq(Bodies)
      /\ <<"payload">> \in Seq(Bodies)
      /\ <<>> \in Seq(Bodies)
  <2>1. "opener" \in Bodies /\ "intent" \in Bodies /\ "payload" \in Bodies BY DEF Bodies
  <2>2. 0 \in Nat OBVIOUS
  <2> QED BY <2>1, <2>2, SentIs
<1>19. /\ body \in {"finished", "approve", "decline"}
       /\ body = "finished" => /\ p.seq = 2 /\ sends = <<"opener", "intent">>
                               /\ Len(sends) = 2 /\ p.seq + Len(sends) = 4
       /\ body = "approve" => /\ p.seq = 4 /\ sends = <<"payload">>
                              /\ Len(sends) = 1 /\ p.seq + Len(sends) = 5
       /\ body = "decline" => /\ p.seq = 4 /\ sends = <<>>
                              /\ Len(sends) = 0 /\ p.seq + Len(sends) = 4
  <2>1. body \in {"finished", "approve", "decline"} BY <1>6
  <2>2. 2 + 2 = 4 /\ 4 + 1 = 5 /\ 4 + 0 = 4 OBVIOUS
  <2>3. body = "finished" => p.seq = 2 /\ sends = <<"opener", "intent">> BY <1>6
  <2>4. body = "approve" => p.seq = 4 /\ sends = <<"payload">> BY <1>6
  <2>5. body = "decline" => p.seq = 4 /\ sends = <<>> BY <1>6
  <2> QED BY <1>7, <2>1, <2>2, <2>3, <2>4, <2>5
<1>8. Len(sends) \in 0..2 /\ p.seq + Len(sends) \in {4, 5} /\ p.seq \in {2, 4}
      /\ p.seq \in Nat /\ p.seq + Len(sends) \in 0..5
  <2>1. 0 \in 0..2 /\ 1 \in 0..2 /\ 2 \in 0..2 OBVIOUS
  <2>2. 4 \in 0..5 /\ 5 \in 0..5 OBVIOUS
  <2>3. CASE body = "finished" BY <1>19, <2>1, <2>2, <2>3
  <2>4. CASE body = "approve" BY <1>19, <2>1, <2>2, <2>4
  <2>5. CASE body = "decline" BY <1>19, <2>1, <2>2, <2>5
  <2> QED BY <1>19, <2>3, <2>4, <2>5
<1>9. sends \in Seq(Bodies) BY <1>6, <1>7
<1>10. Grows(mail[i], m, {}, Sent(p.seq, sends)) /\ m.st = mail[i].st
  <2>1. p.seq + Len(sends) <= 5 BY <1>8
  <2> QED BY <1>1, <1>8, <1>9, <2>1, PagePuts
<1>11. /\ q \in PageStates /\ q.phase = "endpoint" /\ q.seq = p.seq + Len(sends)
       /\ q.peer = page[i].peer + 1 /\ q.out = page[i].out
       /\ q.ready <=> p.ready
       /\ q.declined <=> p.declined
       /\ q.payload <=> (p.payload \/ (~IntentDue(p) /\ PayloadDue(p)))
       /\ q.intent <=> (p.intent \/ IntentDue(p))
  <2>1. /\ (p.payload \/ (~IntentDue(p) /\ PayloadDue(p))) \in BOOLEAN
        /\ (p.intent \/ IntentDue(p)) \in BOOLEAN
    OBVIOUS
  <2>2. p.peer + 1 \in 0..4 /\ p.seq + Len(sends) \in 0..5 BY <1>5, <1>6, <1>8
  <2> DEFINE peer == p.peer + 1
             seq == p.seq + Len(sends)
             payload == p.payload \/ (~IntentDue(p) /\ PayloadDue(p))
             intent == p.intent \/ IntentDue(p)
  <2>3. q = [[[[p EXCEPT !.peer = peer] EXCEPT !.seq = seq] EXCEPT !.payload = payload]
               EXCEPT !.intent = intent]
    OBVIOUS
  <2> HIDE DEF peer, seq, payload, intent, q
  <2>4. /\ peer \in 0..4 /\ seq \in 0..5 /\ payload \in BOOLEAN /\ intent \in BOOLEAN
    BY <2>1, <2>2 DEF peer, seq, payload, intent
  <2>5. /\ q \in PageStates /\ q.phase = p.phase /\ q.seq = seq /\ q.peer = peer
        /\ q.out = p.out /\ q.ready = p.ready /\ q.declined = p.declined
        /\ q.payload = payload /\ q.intent = intent
    BY <1>6, <2>3, <2>4 DEF PageStates
  <2> QED BY <1>6, <2>5 DEF peer, seq, payload, intent
<1> HIDE DEF q, m
<1>12. /\ Grows(mail[i], n, {}, Sent(p.seq, sends))
       /\ n.st = mail[i].st \/ (Over(n) /\ (mail[i].st = "none" <=> n.st = "none"))
  <2>1. CASE n = m BY <1>10, <2>1
  <2>2. CASE n = Close(m)
    <3>1. m \in Mailboxes BY <1>10 DEF Grows
    <3>2. Grows(m, n, {}, {}) /\ Over(n) /\ (m.st # "none" => n.st = "closed")
      BY <2>2, <3>1, CloseIs
    <3>3. Grows(mail[i], n, {} \cup {}, Sent(p.seq, sends) \cup {})
      BY <1>3, <1>10, <3>2, GrowsOn
    <3>4. m.st = "none" => n.st = "none" BY <2>2 DEF Close
    <3> QED BY <1>10, <3>2, <3>3, <3>4
  <2> QED BY <2>1, <2>2
<1>13. PageOK(q)
  <2>1. q.intent = q.ready /\ q.ready
    <3>1. q.intent /\ q.ready BY <1>6, <1>11
    <3> QED BY <3>1, <1>11, PageIs
  <2>2. q.payload <=> body = "approve" BY <1>6, <1>11
  <2>3. q.seq = IF q.payload THEN 5 ELSE 4 BY <1>11, <1>19, <2>2
  <2>4. q.out = None BY <1>1, <1>4, <1>11 DEF PageOK
  <2>5. None # "delivered" /\ None # "declined"
    BY LivePairingAssumption DEF LivePairingAssumption
  <2> QED BY <1>11, <2>1, <2>3, <2>4, <2>5 DEF PageOK, Early
<1>14. JointOK(q, core[i])
  <2>1. q.payload => core[i].decision = "approve"
    BY <1>5, <1>6, <1>11 DEF FromClaimant, body
  <2>2. q.declined => core[i].decision = "decline"
    <3>1. q.declined => page[i].declined \/ body = "decline" BY <1>6, <1>11
    <3> QED BY <1>4, <1>5, <3>1 DEF FromClaimant, JointOK, body
  <2>3. core[i].accepted => q.payload BY <1>4, <1>6 DEF JointOK
  <2>4. core[i].peer <= q.seq
    <3>1. core[i].peer \in Nat BY <1>3, CoreIs
    <3> QED BY <1>4, <1>6, <1>8, <1>11, <3>1 DEF JointOK
  <2> QED BY <1>5, <1>11, <2>1, <2>2, <2>3, <2>4 DEF JointOK, Early
<1>15. EndOK(q, core[i], n)
  <2>1. mail[i].st = "closed" => n.st = "closed" BY <1>12 DEF Grows
  <2>2. Over(mail[i]) => Over(n) BY <1>12 DEF Over
  <2>3. core[i].view = "accepted" => q.payload BY <1>4, <1>6 DEF EndOK
  <2>4. core[i].out = "refused" => ~core[i].accepted /\ (core[i].decision = "approve" => q.payload)
    BY <1>4, <1>6 DEF EndOK
  <2> QED BY <1>4, <1>11, <2>1, <2>2, <2>3, <2>4 DEF EndOK
<1>16. page[i].seq <= q.seq BY <1>6, <1>8, <1>11
<1>17. \A e \in Sent(p.seq, sends) : FromAllocator(q, n, e)
  <2>1. CASE body = "finished"
    <3>1. Sent(p.seq, sends) = {Frame(2, "opener"), Frame(2 + 1, "intent")}
      BY <1>7, <1>19, <2>1, SentIs
    <3>2. /\ 2 \in 0..4 /\ 2 + 1 \in 0..4 /\ 2 < q.seq /\ 2 + 1 < q.seq
          /\ 2 + 1 = 3 /\ 3 + 1 = 4
      BY <1>11, <1>19, <2>1
    <3>3. "opener" \in Script.allocator[2 + 1] /\ "intent" \in Script.allocator[2 + 1 + 1]
      BY <3>2, ScriptIs
    <3> QED BY <1>7, <3>1, <3>2, <3>3, FrameFine
  <2>2. CASE body = "approve"
    <3>1. Sent(p.seq, sends) = {Frame(4, "payload")} BY <1>7, <1>19, <2>2, SentIs
    <3>2. 4 \in 0..4 /\ 4 < q.seq /\ 4 + 1 = 5 BY <1>11, <1>19, <2>2
    <3>3. "payload" \in Script.allocator[4 + 1] BY <3>2, ScriptIs
    <3> QED BY <1>7, <3>1, <3>2, <3>3, FrameFine
  <2>3. CASE body = "decline"
    <3>1. Sent(p.seq, sends) = {} BY <1>7, <1>19, <2>3, SentIs
    <3> QED BY <3>1
  <2> QED BY <1>19, <2>1, <2>2, <2>3
<1>18. PageMoves(i, q, n, Sent(p.seq, sends))
  BY <1>1, <1>2, <1>11, <1>12, <1>13, <1>14, <1>15, <1>16, <1>17 DEF PageMoves
<1> QED BY <1>18, PageStep


\* A page that ends, with the flags it has.
LEMMA PageEnds ==
  ASSUME IInv, NEW i \in Invites, NEW p \in PageStates, NEW m, Grows(mail[i], m, {}, {}),
         page' = [page EXCEPT ![i] = p], mail' = [mail EXCEPT ![i] = m],
         UNCHANGED <<core, slot>>,
         p.phase = "terminal", p.seq = page[i].seq, p.peer <= core[i].seq,
         p.payload = page[i].payload, p.declined = page[i].declined,
         p.payload => p.out \in {None, "delivered", "cancelled"},
         p.out = "delivered" => p.payload, p.out = "declined" => p.declined,
         page[i].phase # "new", m.st = mail[i].st \/ Over(m)
  PROVE  IInv'
<1>1. PageOK(page[i]) /\ JointOK(page[i], core[i]) /\ EndOK(page[i], core[i], mail[i]) BY Now
<1>2. PageOK(p) BY <1>1 DEF PageOK, Early
<1>3. JointOK(p, core[i]) BY <1>1 DEF JointOK, Early
<1>4. EndOK(p, core[i], m)
  <2>1. mail[i].st = "closed" => m.st = "closed" BY DEF Grows
  <2>2. Over(mail[i]) => Over(m) BY DEF Over
  <2> QED BY <1>1, <2>1, <2>2 DEF EndOK
<1>5. page[i].seq <= p.seq BY PageIs
<1>6. \A f \in {} : FromAllocator(p, m, f) OBVIOUS
<1>7. PageMoves(i, p, m, {}) BY <1>2, <1>3, <1>4, <1>5, <1>6 DEF PageMoves
<1> QED BY <1>7, PageStep

LEMMA EndpointFailsKeeps ==
  ASSUME IInv, NEW i \in Invites, AllocatorEndpoint(i),
         ~AllocatorTakes(page[i], Head(mail[i].toA).body)
  PROVE  IInv'
<1> DEFINE p == [page[i] EXCEPT !.phase = "terminal", !.peer = @ + 1]
           m == Cut(mail[i], "toA")
<1>1. /\ ForPage(i, "frame") /\ Head(mail[i].toA).seq = page[i].peer
      /\ page[i].phase = "endpoint" /\ UNCHANGED <<core, slot>>
      /\ page' = [page EXCEPT ![i].phase = "terminal", ![i].peer = @ + 1]
      /\ mail' = [mail EXCEPT ![i] = m]
  BY DEF AllocatorEndpoint
<1>2. page[i] \in PageStates /\ mail[i] \in Mailboxes /\ PageOK(page[i]) BY Now
<1>3. page' = [page EXCEPT ![i] = p] BY <1>1, <1>2 DEF IInv, StateOK
<1>4. page[i].peer + 1 <= core[i].seq /\ page[i].peer + 1 \in 0..4 BY <1>1, PageFrame
<1>5. p \in PageStates BY <1>2, <1>4 DEF PageStates
<1>6. /\ p.phase = "terminal" /\ p.seq = page[i].seq /\ p.peer = page[i].peer + 1
      /\ p.payload = page[i].payload /\ p.declined = page[i].declined /\ p.out = page[i].out
  BY <1>2 DEF PageStates
<1>7. Grows(mail[i], m, {}, {}) /\ m.st = mail[i].st BY <1>2, CutIs
<1>8. p.out = None BY <1>1, <1>2, <1>6 DEF PageOK
<1>9. None # "delivered" /\ None # "declined"
  BY LivePairingAssumption DEF LivePairingAssumption
<1> HIDE DEF p, m
<1> QED BY <1>1, <1>3, <1>4, <1>5, <1>6, <1>7, <1>8, <1>9, PageEnds

LEMMA AllocatorClosedKeeps == ASSUME IInv, NEW i \in Invites, AllocatorClosed(i) PROVE IInv'
<1> DEFINE p == AfterClose(page[i])
           m == Cut(mail[i], "toA")
<1>1. /\ ForPage(i, "closed") /\ UNCHANGED <<core, slot>>
      /\ page' = [page EXCEPT ![i] = p] /\ mail' = [mail EXCEPT ![i] = m]
  BY DEF AllocatorClosed
<1>2. page[i] \in PageStates /\ core[i] \in CoreStates /\ mail[i] \in Mailboxes
      /\ PageOK(page[i]) /\ JointOK(page[i], core[i])
  BY Now
<1>3. p = [page[i] EXCEPT !.phase = "terminal", !.out = AllocatorOutcome(page[i])]
  BY DEF AfterClose
<1>4. AllocatorOutcome(page[i]) \in {"delivered", "declined", "closed"}
  BY DEF AllocatorOutcome
<1>5. p \in PageStates BY <1>2, <1>3, <1>4 DEF PageStates
<1>6. /\ p.phase = "terminal" /\ p.seq = page[i].seq /\ p.peer = page[i].peer
      /\ p.payload = page[i].payload /\ p.declined = page[i].declined
      /\ p.out = AllocatorOutcome(page[i])
  BY <1>2, <1>3 DEF PageStates
<1>7. Grows(mail[i], m, {}, {}) /\ m.st = mail[i].st BY <1>2, CutIs
<1>8. page[i].phase \notin {"new", "terminal"} BY <1>1 DEF ForPage
<1>9. page[i].payload => page[i].phase = "endpoint"
  BY <1>2, <1>8, PageIs DEF PageOK, Early
<1>10. /\ page[i].payload => AllocatorOutcome(page[i]) = "delivered"
       /\ AllocatorOutcome(page[i]) = "delivered" => page[i].payload
       /\ AllocatorOutcome(page[i]) = "declined" => page[i].declined
  BY <1>9 DEF AllocatorOutcome
<1>11. p.peer <= core[i].seq BY <1>2, <1>6 DEF JointOK
<1> HIDE DEF p, m
<1> QED BY <1>1, <1>5, <1>6, <1>7, <1>8, <1>10, <1>11, PageEnds

LEMMA PageCancelKeeps == ASSUME IInv, NEW i \in Invites, PageCancel(i) PROVE IInv'
<1> DEFINE p == [page[i] EXCEPT !.phase = "terminal", !.out = "cancelled"]
           n == Close(mail[i])
           m == Cut(n, "toA")
<1>1. /\ page[i].phase \notin {"new", "terminal"} /\ UNCHANGED <<core, slot>>
      /\ page' = [page EXCEPT ![i].phase = "terminal", ![i].out = "cancelled"]
      /\ mail' = [mail EXCEPT ![i] = m]
  BY DEF PageCancel
<1>2. page[i] \in PageStates /\ core[i] \in CoreStates /\ mail[i] \in Mailboxes
      /\ JointOK(page[i], core[i])
  BY Now
<1>3. page' = [page EXCEPT ![i] = p] BY <1>1, <1>2 DEF IInv, StateOK
<1>4. p \in PageStates BY <1>2 DEF PageStates
<1>5. /\ p.phase = "terminal" /\ p.seq = page[i].seq /\ p.peer = page[i].peer
      /\ p.payload = page[i].payload /\ p.declined = page[i].declined /\ p.out = "cancelled"
  BY <1>2 DEF PageStates
<1>6. Grows(mail[i], n, {}, {}) /\ Over(n) /\ n \in Mailboxes BY <1>2, CloseIs DEF Grows
<1> HIDE DEF n
<1>7. Grows(n, m, {}, {}) /\ m.st = n.st BY <1>6, CutIs
<1>8. Grows(mail[i], m, {} \cup {}, {} \cup {}) /\ Over(m)
  BY <1>2, <1>6, <1>7, GrowsOn DEF Over
<1>9. Grows(mail[i], m, {}, {}) BY <1>8
<1>10. p.peer <= core[i].seq BY <1>2, <1>5 DEF JointOK
<1> HIDE DEF p, m
<1> QED BY <1>1, <1>3, <1>4, <1>5, <1>8, <1>9, <1>10, PageEnds


\* A frame with its body spoiled was sent as well.
Spoiled(f, b) == [f EXCEPT !.body = b]

LEMMA SpoiledIs ==
  ASSUME NEW f \in Message, f.k = "frame", NEW b \in Spoilt
  PROVE  /\ Spoiled(f, b) \in Message
         /\ \A c : FromClaimant(c, f) => FromClaimant(c, Spoiled(f, b))
         /\ \A p, m : FromAllocator(p, m, f) => FromAllocator(p, m, Spoiled(f, b))
<1>1. Message = [k : {"frame", "welcome", "allocated", "claimed", "error", "closed"},
                 seq : 0..4, body : Bodies] /\ b \in Bodies
  BY MessageIs DEF Bodies, Spoilt
<1>2. /\ Spoiled(f, b) \in Message /\ Spoiled(f, b).k = "frame" /\ Spoiled(f, b).seq = f.seq
      /\ Spoiled(f, b).body = b /\ b \notin {"approve", "decline"}
  BY <1>1 DEF Spoiled, Spoilt
<1> QED BY <1>2 DEF FromClaimant, FromAllocator

\* A queue whose first frame comes twice, or spoiled.
LEMMA MisdeliveredIs ==
  ASSUME NEW q \in Seq(Message), q # <<>>, Head(q).k = "frame", NEW b \in Spoilt,
         NEW r \in {<<Head(q)>> \o q, <<Spoiled(Head(q), b)>> \o Tail(q)}
  PROVE  /\ r \in Seq(Message) /\ Elems(r) \subseteq Elems(q) \cup {Spoiled(Head(q), b)}
         /\ Head(q) \in Elems(q) /\ Head(q) \in Message
<1>1. /\ Tail(q) \in Seq(Message) /\ Elems(Tail(q)) \subseteq Elems(q)
      /\ Head(q) \in Elems(q) /\ Head(q) \in Message
  BY QueuesAre
<1>2. Spoiled(Head(q), b) \in Message BY <1>1, SpoiledIs
<1>3. /\ <<Head(q)>> \in Seq(Message) /\ Elems(<<Head(q)>>) = {Head(q)}
      /\ <<Spoiled(Head(q), b)>> \in Seq(Message)
      /\ Elems(<<Spoiled(Head(q), b)>>) = {Spoiled(Head(q), b)}
  BY <1>1, <1>2, QueuesAre
<1>4. CASE r = <<Head(q)>> \o q
  <2>1. r \in Seq(Message) /\ Elems(r) \subseteq Elems(<<Head(q)>>) \cup Elems(q)
    BY <1>3, <1>4, QueuesAre
  <2> QED BY <1>1, <1>3, <2>1
<1>5. CASE r = <<Spoiled(Head(q), b)>> \o Tail(q)
  <2>1. r \in Seq(Message) /\ Elems(r) \subseteq Elems(<<Spoiled(Head(q), b)>>) \cup Elems(Tail(q))
    BY <1>1, <1>3, <1>5, QueuesAre
  <2> QED BY <1>1, <1>3, <2>1
<1> QED BY <1>4, <1>5

LEMMA MisdeliverKeeps == ASSUME IInv, NEW i \in Invites, Misdeliver(i) PROVE IInv'
<1>1. PICK way \in {"toA", "toC"} :
        \E q \in {<<Head(mail[i][way])>> \o mail[i][way]} \cup
                {<<[Head(mail[i][way]) EXCEPT !.body = b]>> \o Tail(mail[i][way]) : b \in Spoilt} :
          /\ mail[i][way] # <<>> /\ Head(mail[i][way]).k = "frame"
          /\ mail' = [mail EXCEPT ![i][way] = q, ![i].fault = FALSE]
  BY DEF Misdeliver
<1> DEFINE f == Head(mail[i][way])
<1>0. PICK b \in Spoilt :
        \E q \in {<<f>> \o mail[i][way], <<Spoiled(f, b)>> \o Tail(mail[i][way])} :
          /\ mail[i][way] # <<>> /\ f.k = "frame"
          /\ mail' = [mail EXCEPT ![i][way] = q, ![i].fault = FALSE]
  <2>1. "junk" \in Spoilt BY DEF Spoilt
  <2>2. PICK q \in {<<f>> \o mail[i][way]} \cup
                   {<<Spoiled(f, b)>> \o Tail(mail[i][way]) : b \in Spoilt} :
          /\ mail[i][way] # <<>> /\ f.k = "frame"
          /\ mail' = [mail EXCEPT ![i][way] = q, ![i].fault = FALSE]
    BY <1>1 DEF Spoiled
  <2>3. CASE q = <<f>> \o mail[i][way] BY <2>1, <2>2, <2>3
  <2>4. CASE q # <<f>> \o mail[i][way]
    <3>1. PICK b \in Spoilt : q = <<Spoiled(f, b)>> \o Tail(mail[i][way]) BY <2>2, <2>4
    <3> QED BY <2>2, <3>1
  <2> QED BY <2>3, <2>4
<1>2. PICK q \in {<<f>> \o mail[i][way], <<Spoiled(f, b)>> \o Tail(mail[i][way])} :
        /\ mail[i][way] # <<>> /\ f.k = "frame"
        /\ mail' = [mail EXCEPT ![i][way] = q, ![i].fault = FALSE]
  BY <1>0
<1> DEFINE m == [mail[i] EXCEPT ![way] = q, !.fault = FALSE]
<1>3. page[i] \in PageStates /\ core[i] \in CoreStates /\ mail[i] \in Mailboxes BY Now
<1>4. mail' = [mail EXCEPT ![i] = m] BY <1>2, <1>3 DEF IInv, StateOK
<1>5. mail[i][way] \in Seq(Message) BY <1>3, MailboxIs
<1>6. /\ q \in Seq(Message) /\ Elems(q) \subseteq Elems(mail[i][way]) \cup {Spoiled(f, b)}
      /\ f \in Elems(mail[i][way]) /\ f \in Message
  BY <1>2, <1>5, MisdeliveredIs
<1>7. UNCHANGED <<page, core, slot>> BY DEF Misdeliver
<1>8. /\ page' = [page EXCEPT ![i] = page[i]] /\ core' = [core EXCEPT ![i] = core[i]]
      /\ slot' = slot
  BY <1>7 DEF IInv, StateOK
<1>9. /\ PageOK(page[i]) /\ CoreOK(core[i]) /\ JointOK(page[i], core[i])
      /\ WireOK(page[i], core[i], mail[i]) /\ EndOK(page[i], core[i], mail[i])
  BY Now
<1>10. page[i].seq <= page[i].seq /\ core[i].seq <= core[i].seq BY <1>3, PageIs, CoreIs
<1>11. core[i].decision \in {None, core[i].decision} OBVIOUS
<1>12. CASE way = "toA"
  <2>1. m.st = mail[i].st /\ m.box = mail[i].box /\ m.toC = mail[i].toC /\ m.toA = q
        /\ m \in Mailboxes
    <3>1. m = [[mail[i] EXCEPT !.toA = q] EXCEPT !.fault = FALSE] BY <1>12
    <3>2. FALSE \in BOOLEAN OBVIOUS
    <3> HIDE DEF m
    <3> QED BY <1>3, <1>6, <3>1, <3>2 DEF Mailboxes
  <2>2. f \in ToA(mail[i]) /\ Elems(q) \subseteq ToA(mail[i]) \cup {Spoiled(f, b)}
    BY <1>3, <1>6, <1>12, MailboxIs DEF ToA
  <2> HIDE DEF m
  <2>3. Grows(mail[i], m, {Spoiled(f, b)}, {}) BY <2>1, <2>2 DEF Grows, ToA, ToC
  <2>4. EndOK(page[i], core[i], m) BY <1>9, <2>1 DEF EndOK, Over
  <2>5. \A e \in {Spoiled(f, b)} : FromClaimant(core[i], e)
    BY <1>2, <1>6, <1>9, <2>2, SpoiledIs DEF WireOK
  <2>6. \A e \in {} : FromAllocator(page[i], m, e) OBVIOUS
  <2>7. Moves(i, page[i], core[i], m, {Spoiled(f, b)}, {})
    BY <1>3, <1>4, <1>8, <1>9, <1>10, <1>11, <2>3, <2>4, <2>5, <2>6 DEF Moves
  <2> QED BY <2>7, PairStep
<1>13. CASE way = "toC"
  <2>1. m.st = mail[i].st /\ m.box = mail[i].box /\ m.toA = mail[i].toA /\ m.toC = q
        /\ m \in Mailboxes
    <3>1. m = [[mail[i] EXCEPT !.toC = q] EXCEPT !.fault = FALSE] BY <1>13
    <3>2. FALSE \in BOOLEAN OBVIOUS
    <3> HIDE DEF m
    <3> QED BY <1>3, <1>6, <3>1, <3>2 DEF Mailboxes
  <2>2. f \in ToC(mail[i]) /\ Elems(q) \subseteq ToC(mail[i]) \cup {Spoiled(f, b)}
    BY <1>3, <1>6, <1>13, MailboxIs DEF ToC
  <2> HIDE DEF m
  <2>3. Grows(mail[i], m, {}, {Spoiled(f, b)})
    <3>1. ToC(m) \subseteq ToC(mail[i]) \cup {Spoiled(f, b)} BY <2>1, <2>2 DEF ToC
    <3> QED BY <2>1, <3>1 DEF Grows, ToA
  <2>4. EndOK(page[i], core[i], m) BY <1>9, <2>1 DEF EndOK, Over
  <2>5. \A e \in {Spoiled(f, b)} : FromAllocator(page[i], m, e)
    <3>1. FromAllocator(page[i], mail[i], f) BY <1>9, <2>2 DEF WireOK
    <3>2. FromAllocator(page[i], m, f) BY <3>1, <2>1 DEF FromAllocator
    <3> QED BY <1>2, <1>6, <3>2, SpoiledIs
  <2>6. \A e \in {} : FromClaimant(core[i], e) OBVIOUS
  <2>7. Moves(i, page[i], core[i], m, {}, {Spoiled(f, b)})
    BY <1>3, <1>4, <1>8, <1>9, <1>10, <1>11, <2>3, <2>4, <2>5, <2>6 DEF Moves
  <2> QED BY <2>7, PairStep
<1> QED BY <1>12, <1>13


-----------------------------------------------------------------------------
(* The claimant keeps the invariant                                        *)

\* Reading the wallet's mail leaves what follows.
LEMMA CorePops ==
  ASSUME IInv, NEW i \in Invites, NEW k, ForCore(i, k)
  PROVE  /\ Grows(mail[i], Popped(i, "toC"), {}, {}) /\ Popped(i, "toC").st = mail[i].st
         /\ Popped(i, "toC").toC \in Seq(Message)
         /\ Head(mail[i].toC) \in ToC(mail[i]) /\ Head(mail[i].toC) \in Message
         /\ Popped(i, "toC") \in Mailboxes
<1>1. mail[i] \in Mailboxes /\ mail[i]["toC"] # <<>> /\ mail[i]["toC"] = mail[i].toC
  BY Now, MailboxIs DEF ForCore
<1> QED BY <1>1, PopIs DEF Popped, Grows

\* A frame in sequence was sent by an allocator that has gone further.
LEMMA CoreFrame ==
  ASSUME IInv, NEW i \in Invites, ForCore(i, "frame"), Head(mail[i].toC).seq = core[i].peer
  PROVE  /\ FromAllocator(page[i], mail[i], Head(mail[i].toC)) /\ Head(mail[i].toC).k = "frame"
         /\ core[i].peer + 1 <= page[i].seq /\ core[i].peer + 1 \in 0..5
         /\ Head(mail[i].toC).body \in Bodies
<1>1. Head(mail[i].toC) \in ToC(mail[i]) /\ Head(mail[i].toC) \in Message BY CorePops
<1>2. FromAllocator(page[i], mail[i], Head(mail[i].toC)) BY <1>1, Now DEF WireOK
<1>3. Head(mail[i].toC).k = "frame" BY DEF ForCore
<1>4. core[i].peer < page[i].seq BY <1>2, <1>3 DEF FromAllocator
<1>5. core[i].peer \in 0..5 /\ page[i].seq \in 0..5 BY Now, PageIs, CoreIs
<1>6. Head(mail[i].toC).body \in Bodies BY <1>1, MessagesAre
<1> QED BY <1>2, <1>3, <1>4, <1>5, <1>6

\* A session that is gone keeps what it decided and accepted.
LEMMA CoreEnds ==
  ASSUME IInv, NEW i \in Invites, NEW c \in CoreStates, NEW m, Grows(mail[i], m, {}, {}),
         core' = [core EXCEPT ![i] = c], mail' = [mail EXCEPT ![i] = m],
         UNCHANGED <<page, slot>>,
         core[i].owner \in {"start", "finish"}, c.owner = "gone", ~c.proof,
         c.seq = core[i].seq, c.peer <= page[i].seq, c.decision = core[i].decision,
         c.accepted = core[i].accepted, EndOK(page[i], c, m)
  PROVE  IInv'
<1>1. CoreOK(core[i]) /\ JointOK(page[i], core[i]) /\ core[i] \in CoreStates BY Now
<1>2. CoreOK(c) BY DEF CoreOK
<1>3. JointOK(page[i], c) BY <1>1 DEF JointOK
<1>4. core[i].seq <= c.seq BY <1>1, CoreIs
<1>5. core[i].decision \in {None, c.decision} OBVIOUS
<1>6. \A f \in {} : FromClaimant(c, f) OBVIOUS
<1>7. c.owner = "slot" <=> core[i].owner = "slot" OBVIOUS
<1>8. CoreMoves(i, c, m, {}) BY <1>2, <1>3, <1>4, <1>5, <1>6, <1>7 DEF CoreMoves
<1> QED BY <1>8, CoreStep

\* A session whose command failed.
LEMMA DroppedIs ==
  ASSUME NEW c \in CoreStates
  PROVE  LET d == Dropped(c) IN
         /\ d \in CoreStates /\ d.phase = c.phase /\ d.owner = "gone" /\ ~d.proof
         /\ d.seq = c.seq /\ d.peer = c.peer /\ d.step = c.step /\ d.decision = c.decision
         /\ d.accepted = c.accepted /\ d.out = c.out /\ d.view = "failed"
<1>1. Dropped(c) = [[[c EXCEPT !.owner = "gone"] EXCEPT !.proof = FALSE] EXCEPT !.view = "failed"]
  BY DEF Dropped
<1>2. FALSE \in BOOLEAN OBVIOUS
<1> QED BY <1>1, <1>2 DEF CoreStates

LEMMA DroppedKeeps ==
  ASSUME IInv, NEW i \in Invites, core[i].owner \in {"start", "finish"},
         core' = [core EXCEPT ![i] = Dropped(core[i])],
         mail' = [mail EXCEPT ![i] = Cut(mail[i], "toC")], UNCHANGED <<page, slot>>
  PROVE  IInv'
<1> DEFINE c == Dropped(core[i])
           m == Cut(mail[i], "toC")
<1>1. core[i] \in CoreStates /\ mail[i] \in Mailboxes /\ CoreOK(core[i])
      /\ JointOK(page[i], core[i]) /\ EndOK(page[i], core[i], mail[i])
  BY Now
<1>2. /\ c \in CoreStates /\ c.owner = "gone" /\ ~c.proof
      /\ c.seq = core[i].seq /\ c.peer = core[i].peer /\ c.decision = core[i].decision
      /\ c.accepted = core[i].accepted /\ c.out = core[i].out /\ c.view = "failed"
  BY <1>1, DroppedIs
<1>3. Grows(mail[i], m, {}, {}) /\ m.st = mail[i].st BY <1>1, CutIs
<1> HIDE DEF c, m
<1>4. EndOK(page[i], c, m) BY <1>1, <1>2, <1>3 DEF EndOK, Over
<1>5. c.peer <= page[i].seq BY <1>1, <1>2 DEF JointOK
<1> QED BY <1>2, <1>3, <1>4, <1>5, CoreEnds DEF c, m

LEMMA TimedOutKeeps == ASSUME IInv, NEW i \in Invites, TimedOut(i) PROVE IInv'
BY DroppedKeeps DEF TimedOut

LEMMA ClaimantFailsKeeps == ASSUME IInv, NEW i \in Invites, ClaimantFails(i) PROVE IInv'
BY DroppedKeeps DEF ClaimantFails, ForCore

\* Welcomed by the relay, the session has its signer.
LEMMA ConnectKeeps == ASSUME IInv, NEW i \in Invites, Connect(i) PROVE IInv'
<1>1. core[i].owner = "start" /\ core[i].phase = "none" /\ UNCHANGED <<page, slot>>
  BY DEF Connect
<1>2. CASE /\ core' = [core EXCEPT ![i] = Dropped(@)]
           /\ mail' = [mail EXCEPT ![i] = Cut(@, "toC")]
  BY <1>1, <1>2, DroppedKeeps
<1>3. CASE /\ core' = [core EXCEPT ![i].phase = "welcome", ![i].proof = TRUE]
           /\ mail' = [mail EXCEPT ![i].toC = <<Notice("welcome")>>]
  <2> DEFINE c == [core[i] EXCEPT !.phase = "welcome", !.proof = TRUE]
             m == [mail[i] EXCEPT !.toC = <<Notice("welcome")>>]
  <2>1. core[i] \in CoreStates /\ mail[i] \in Mailboxes /\ CoreOK(core[i])
        /\ JointOK(page[i], core[i]) /\ EndOK(page[i], core[i], mail[i])
    BY Now
  <2>2. core' = [core EXCEPT ![i] = c] /\ mail' = [mail EXCEPT ![i] = m]
    BY <1>3, <2>1 DEF IInv, StateOK
  <2>3. TRUE \in BOOLEAN OBVIOUS
  <2>4. /\ c \in CoreStates /\ c.phase = "welcome" /\ c.owner = core[i].owner
        /\ c.seq = core[i].seq /\ c.peer = core[i].peer /\ c.step = core[i].step
        /\ c.decision = core[i].decision /\ c.accepted = core[i].accepted
        /\ c.out = core[i].out /\ c.view = core[i].view
    BY <2>1, <2>3 DEF CoreStates
  <2>5. Notice("welcome") \in Message /\ <<Notice("welcome")>> \in Seq(Message)
        /\ Elems(<<Notice("welcome")>>) = {Notice("welcome")}
    BY MessagesAre, QueuesAre
  <2>6. m \in Mailboxes /\ m.st = mail[i].st /\ m.toA = mail[i].toA /\ m.box = mail[i].box
        /\ m.toC = <<Notice("welcome")>>
    BY <2>1, <2>5 DEF Mailboxes
  <2> HIDE DEF c, m
  <2>7. Notice("welcome") \in Noise(m) BY DEF Noise
  <2>8. Grows(mail[i], m, {}, {}) BY <2>5, <2>6, <2>7 DEF Grows, ToA, ToC
  <2>9. CoreOK(c)
    <3>1. Undecided(core[i]) /\ core[i].seq = 0 /\ NewStep(core[i])
      BY <1>1, <2>1 DEF CoreOK
    <3>2. Undecided(c) /\ c.seq = 0 /\ NewStep(c) BY <2>4, <3>1 DEF Undecided, NewStep
    <3> QED BY <1>1, <2>1, <2>4, <3>2 DEF CoreOK
  <2>10. JointOK(page[i], c) BY <2>1, <2>4 DEF JointOK
  <2>11. EndOK(page[i], c, m) BY <2>1, <2>4, <2>6 DEF EndOK, Over
  <2>12. c.seq <= c.seq BY <2>4, CoreIs
  <2>13. \A f \in {} : FromClaimant(c, f) OBVIOUS
  <2>14. core[i].decision \in {None, c.decision} BY <2>4
  <2>15. CoreMoves(i, c, m, {})
    BY <1>1, <2>2, <2>4, <2>8, <2>9, <2>10, <2>11, <2>12, <2>13, <2>14 DEF CoreMoves
  <2> QED BY <2>15, CoreStep
<1> QED BY <1>2, <1>3 DEF Connect


LEMMA ClaimantWelcomeKeeps == ASSUME IInv, NEW i \in Invites, ClaimantWelcome(i) PROVE IInv'
<1> DEFINE c == [core[i] EXCEPT !.phase = "claim"]
           o == Popped(i, "toC")
           said == Notice(IF mail[i].st = "open" THEN "claimed" ELSE "error")
           m == [o EXCEPT !.st = IF @ = "open" THEN "claimed" ELSE @, !.toC = Append(@, said)]
<1>1. /\ ForCore(i, "welcome") /\ core[i].phase = "welcome" /\ UNCHANGED <<page, slot>>
      /\ core' = [core EXCEPT ![i] = c] /\ mail' = [mail EXCEPT ![i] = m]
  BY DEF ClaimantWelcome
<1>2. core[i] \in CoreStates /\ mail[i] \in Mailboxes /\ CoreOK(core[i])
      /\ JointOK(page[i], core[i]) /\ EndOK(page[i], core[i], mail[i])
  BY Now
<1>3. /\ Grows(mail[i], o, {}, {}) /\ o.st = mail[i].st /\ o.toC \in Seq(Message)
      /\ o \in Mailboxes
  BY <1>1, CorePops
<1>4. /\ c \in CoreStates /\ c.phase = "claim" /\ c.owner = core[i].owner
      /\ c.seq = core[i].seq /\ c.peer = core[i].peer /\ c.step = core[i].step
      /\ c.decision = core[i].decision /\ c.accepted = core[i].accepted
      /\ c.out = core[i].out /\ c.view = core[i].view
  BY <1>2 DEF CoreStates
<1>5. said \in Message /\ said \in {Notice("claimed"), Notice("error")} BY MessagesAre
<1> HIDE DEF c, o, said
<1>6. Append(o.toC, said) \in Seq(Message) /\ Elems(Append(o.toC, said)) \subseteq Elems(o.toC) \cup {said}
  BY <1>3, <1>5, QueuesAre
<1>7. m \in Mailboxes /\ m.toC = Append(o.toC, said) /\ m.toA = o.toA /\ m.box = o.box
      /\ m.st = IF o.st = "open" THEN "claimed" ELSE o.st
  BY <1>3, <1>6 DEF Mailboxes
<1> HIDE DEF m
<1>8. said \in Noise(m) BY <1>5 DEF Noise
<1>9. Noise(o) \subseteq Noise(m) BY <1>7 DEF Noise
<1>10. Grows(mail[i], m, {}, {})
  BY <1>3, <1>6, <1>7, <1>8, <1>9 DEF Grows, ToA, ToC
<1>11. core[i].owner = "start" BY <1>1, <1>2 DEF ForCore, CoreOK
<1>12. CoreOK(c)
  <2>1. Undecided(core[i]) /\ core[i].seq = 0 /\ NewStep(core[i])
    BY <1>1, <1>2, <1>11 DEF CoreOK
  <2>2. Undecided(c) /\ c.seq = 0 /\ NewStep(c) BY <1>4, <2>1 DEF Undecided, NewStep
  <2> QED BY <1>2, <1>4, <1>11, <2>2 DEF CoreOK
<1>13. JointOK(page[i], c) BY <1>2, <1>4 DEF JointOK
<1>14. EndOK(page[i], c, m)
  <2>1. page[i].phase \notin {"new", "welcome"} BY <1>2, <1>11 DEF JointOK, Early
  <2>2. Over(mail[i]) => Over(m) BY <1>3, <1>7 DEF Over
  <2>3. mail[i].st = "closed" => m.st = "closed" BY <1>10 DEF Grows
  <2> QED BY <1>2, <1>4, <2>1, <2>2, <2>3 DEF EndOK
<1>15. c.seq <= c.seq BY <1>4, CoreIs
<1>16. \A f \in {} : FromClaimant(c, f) OBVIOUS
<1>17. core[i].decision \in {None, c.decision} BY <1>4
<1>18. CoreMoves(i, c, m, {})
  BY <1>1, <1>4, <1>10, <1>12, <1>13, <1>14, <1>15, <1>16, <1>17 DEF CoreMoves
<1> QED BY <1>18, CoreStep

LEMMA ClaimedKeeps == ASSUME IInv, NEW i \in Invites, Claimed(i) PROVE IInv'
<1> DEFINE c == [core[i] EXCEPT !.phase = "bootstrap", !.seq = 1]
           o == Popped(i, "toC")
           opened == IF o.st = "claimed"
                     THEN [o EXCEPT !.st = "opened", !.toC = @ \o o.box, !.box = <<>>] ELSE o
           m == Put(opened, "toA", 0, <<"cpace">>)
<1>1. /\ ForCore(i, "claimed") /\ core[i].phase = "claim" /\ UNCHANGED <<page, slot>>
      /\ core' = [core EXCEPT ![i].phase = "bootstrap", ![i].seq = 1]
      /\ mail' = [mail EXCEPT ![i] = m]
  BY DEF Claimed
<1>2. core[i] \in CoreStates /\ mail[i] \in Mailboxes /\ CoreOK(core[i])
      /\ JointOK(page[i], core[i]) /\ EndOK(page[i], core[i], mail[i])
  BY Now
<1>3. core' = [core EXCEPT ![i] = c] BY <1>1, <1>2 DEF IInv, StateOK
<1>4. /\ Grows(mail[i], o, {}, {}) /\ o.st = mail[i].st /\ o.toC \in Seq(Message)
      /\ o \in Mailboxes /\ o.box \in Seq(Message)
  BY <1>1, CorePops, MailboxIs
<1>5. /\ c \in CoreStates /\ c.phase = "bootstrap" /\ c.owner = core[i].owner
      /\ c.seq = 1 /\ c.peer = core[i].peer /\ c.step = core[i].step
      /\ c.decision = core[i].decision /\ c.accepted = core[i].accepted
      /\ c.out = core[i].out /\ c.view = core[i].view
  <2>1. 1 \in 0..3 OBVIOUS
  <2> QED BY <1>2, <2>1 DEF CoreStates
<1> HIDE DEF c, o
<1>6. Grows(o, opened, {}, {}) /\ opened \in Mailboxes
      /\ opened.st \in {o.st, "opened"} /\ (Over(o) => opened.st = o.st)
  <2>1. CASE o.st = "claimed"
    <3>1. /\ o.toC \o o.box \in Seq(Message) /\ <<>> \in Seq(Message) /\ Elems(<<>>) = {}
          /\ Elems(o.toC \o o.box) \subseteq Elems(o.toC) \cup Elems(o.box)
      BY <1>4, QueuesAre
    <3>2. opened = [[[o EXCEPT !.st = "opened"] EXCEPT !.toC = o.toC \o o.box] EXCEPT !.box = <<>>]
      BY <2>1
    <3> HIDE DEF opened
    <3>3. opened \in Mailboxes /\ opened.st = "opened" /\ opened.toA = o.toA
          /\ opened.toC = o.toC \o o.box /\ opened.box = <<>>
      BY <1>4, <3>1, <3>2 DEF Mailboxes
    <3>4. ToC(opened) \subseteq ToC(o) /\ ToA(opened) = ToA(o) BY <3>1, <3>3 DEF ToC, ToA
    <3> QED BY <2>1, <3>3, <3>4 DEF Grows, Over
  <2>2. CASE o.st # "claimed"
    <3>1. opened = o BY <2>2
    <3> QED BY <1>4, <3>1 DEF Grows
  <2> QED BY <2>1, <2>2
<1> HIDE DEF opened
<1>7. "cpace" \in Bodies BY DEF Bodies
<1>8. Grows(opened, m, {Frame(0, "cpace")}, {}) /\ m.st = opened.st
  <2>1. <<"cpace">> \in Seq(Bodies) /\ Len(<<"cpace">>) = 1 /\ Sent(0, <<"cpace">>) = {Frame(0, "cpace")}
    BY <1>7, SentIs
  <2>2. 0 + Len(<<"cpace">>) <= 5 /\ 0 \in Nat BY <2>1
  <2> QED BY <1>6, <2>1, <2>2, PutsAre
<1> HIDE DEF m
<1>9. Grows(mail[i], m, {Frame(0, "cpace")}, {})
  <2>1. Grows(mail[i], opened, {} \cup {}, {} \cup {}) BY <1>2, <1>4, <1>6, GrowsOn
  <2>2. Grows(mail[i], opened, {}, {}) BY <2>1
  <2>3. Grows(mail[i], m, {} \cup {Frame(0, "cpace")}, {} \cup {}) BY <1>2, <1>8, <2>2, GrowsOn
  <2> QED BY <2>3
<1>10. core[i].owner = "start" BY <1>1, <1>2 DEF ForCore, CoreOK
<1>11. core[i].seq = 0 /\ Undecided(core[i]) /\ NewStep(core[i])
  BY <1>1, <1>2, <1>10 DEF CoreOK
<1>12. CoreOK(c)
  <2>1. Undecided(c) /\ NewStep(c) BY <1>5, <1>11 DEF Undecided, NewStep
  <2> QED BY <1>2, <1>5, <1>10, <2>1 DEF CoreOK
<1>13. JointOK(page[i], c)
  <2>1. page[i].peer <= 1
    <3>1. page[i].peer \in Nat BY Now, PageIs
    <3> QED BY <1>2, <1>11, <3>1 DEF JointOK
  <2> QED BY <1>2, <1>5, <2>1 DEF JointOK
<1>14. EndOK(page[i], c, m)
  <2>1. page[i].phase \notin {"new", "welcome"} BY <1>2, <1>10 DEF JointOK, Early
  <2>2. Over(mail[i]) => Over(m) BY <1>4, <1>6, <1>8 DEF Over
  <2>3. mail[i].st = "closed" => m.st = "closed" BY <1>9 DEF Grows
  <2> QED BY <1>2, <1>5, <2>1, <2>2, <2>3 DEF EndOK
<1>15. core[i].seq <= c.seq BY <1>5, <1>11
<1>16. \A f \in {Frame(0, "cpace")} : FromClaimant(c, f)
  <2>1. 0 \in 0..4 /\ 0 + 1 = 1 /\ 0 < c.seq BY <1>5
  <2>2. "cpace" \in Script.claimant[0 + 1] BY <2>1, ScriptIs
  <2> QED BY <1>7, <2>1, <2>2, FrameFine
<1>17. core[i].decision \in {None, c.decision} BY <1>5
<1>18. CoreMoves(i, c, m, {Frame(0, "cpace")})
  BY <1>1, <1>3, <1>5, <1>9, <1>12, <1>13, <1>14, <1>15, <1>16, <1>17 DEF CoreMoves
<1> QED BY <1>18, CoreStep

LEMMA ClaimantFinishKeeps == ASSUME IInv, NEW i \in Invites, ClaimantFinish(i) PROVE IInv'
<1> DEFINE c == [core[i] EXCEPT !.phase = "endpoint", !.peer = @ + 1, !.seq = @ + 1]
           o == Popped(i, "toC")
           m == Put(o, "toA", core[i].seq, <<"finished">>)
<1>1. /\ ForCore(i, "frame") /\ core[i].phase = "bootstrap" /\ UNCHANGED <<page, slot>>
      /\ Head(mail[i].toC) = Frame(core[i].peer, "cpace")
      /\ core' = [core EXCEPT ![i].phase = "endpoint", ![i].peer = @ + 1, ![i].seq = @ + 1]
      /\ mail' = [mail EXCEPT ![i] = m]
  BY DEF ClaimantFinish
<1>2. core[i] \in CoreStates /\ mail[i] \in Mailboxes /\ CoreOK(core[i])
      /\ JointOK(page[i], core[i]) /\ EndOK(page[i], core[i], mail[i]) /\ page[i] \in PageStates
  BY Now
<1>3. core' = [core EXCEPT ![i] = c] BY <1>1, <1>2 DEF IInv, StateOK
<1>4. core[i].owner = "start" BY <1>1, <1>2 DEF ForCore, CoreOK
<1>5. core[i].seq = 1 /\ Undecided(core[i]) /\ NewStep(core[i]) /\ core[i].peer = 0
  BY <1>1, <1>2, <1>4 DEF CoreOK, NewStep
<1>6. Head(mail[i].toC).seq = core[i].peer BY <1>1 DEF Frame
<1>7. core[i].peer + 1 <= page[i].seq BY <1>1, <1>6, CoreFrame
<1>8. /\ c \in CoreStates /\ c.phase = "endpoint" /\ c.owner = core[i].owner
      /\ c.seq = 2 /\ c.peer = 1 /\ c.step = core[i].step
      /\ c.decision = core[i].decision /\ c.accepted = core[i].accepted
      /\ c.out = core[i].out /\ c.view = core[i].view
  <2>1. core[i].peer + 1 = 1 /\ core[i].seq + 1 = 2 /\ 1 \in 0..5 /\ 2 \in 0..3 BY <1>5
  <2>2. c = [[[core[i] EXCEPT !.phase = "endpoint"] EXCEPT !.peer = 1] EXCEPT !.seq = 2]
    BY <2>1
  <2> HIDE DEF c
  <2> QED BY <1>2, <2>1, <2>2 DEF CoreStates
<1>9. Grows(mail[i], o, {}, {}) /\ o.st = mail[i].st /\ o \in Mailboxes BY <1>1, CorePops
<1> HIDE DEF c, o
<1>10. "finished" \in Bodies BY DEF Bodies
<1>11. Grows(o, m, {Frame(1, "finished")}, {}) /\ m.st = o.st
  <2>1. <<"finished">> \in Seq(Bodies) /\ Len(<<"finished">>) = 1
        /\ Sent(1, <<"finished">>) = {Frame(1, "finished")}
    BY <1>10, SentIs
  <2>2. 1 + Len(<<"finished">>) <= 5 /\ 1 \in Nat BY <2>1
  <2> QED BY <1>5, <1>9, <2>1, <2>2, PutsAre
<1> HIDE DEF m
<1>12. Grows(mail[i], m, {Frame(1, "finished")}, {})
  <2>1. Grows(mail[i], m, {} \cup {Frame(1, "finished")}, {} \cup {})
    BY <1>2, <1>9, <1>11, GrowsOn
  <2> QED BY <2>1
<1>13. CoreOK(c)
  <2>1. Undecided(c) /\ c.step = "key" BY <1>5, <1>8 DEF Undecided, NewStep
  <2> QED BY <1>2, <1>4, <1>8, <2>1 DEF CoreOK
<1>14. JointOK(page[i], c)
  <2>1. page[i].peer <= 2 /\ 1 <= page[i].seq
    <3>1. page[i].peer \in Nat BY <1>2, PageIs
    <3> QED BY <1>2, <1>5, <1>7, <3>1 DEF JointOK
  <2> QED BY <1>2, <1>8, <2>1 DEF JointOK
<1>15. EndOK(page[i], c, m) BY <1>2, <1>8, <1>9, <1>11 DEF EndOK, Over
<1>16. core[i].seq <= c.seq BY <1>5, <1>8
<1>17. \A f \in {Frame(1, "finished")} : FromClaimant(c, f)
  <2>1. 1 \in 0..4 /\ 1 + 1 = 2 /\ 1 < c.seq BY <1>8
  <2>2. "finished" \in Script.claimant[1 + 1] BY <2>1, ScriptIs
  <2> QED BY <1>10, <2>1, <2>2, FrameFine
<1>18. core[i].decision \in {None, c.decision} BY <1>8
<1>19. CoreMoves(i, c, m, {Frame(1, "finished")})
  BY <1>1, <1>3, <1>8, <1>12, <1>13, <1>14, <1>15, <1>16, <1>17, <1>18 DEF CoreMoves
<1> QED BY <1>19, CoreStep


\* What each step of the claimant's reducer takes.
LEMMA TakesAre ==
  /\ DOMAIN ClaimantTakes = {"key", "opening", "ready", "shown", "decided", "done"}
  /\ ClaimantTakes["shown"] = "none" /\ ClaimantTakes["done"] = "none"
BY DEF ClaimantTakes

LEMMA ClaimantConfirmsKeeps == ASSUME IInv, NEW i \in Invites, ClaimantConfirms(i) PROVE IInv'
<1> DEFINE next == IF core[i].step = "key" THEN "opening" ELSE "ready"
           c == [core[i] EXCEPT !.step = next, !.peer = @ + 1]
           m == Popped(i, "toC")
<1>1. /\ ForCore(i, "frame") /\ core[i].phase = "endpoint" /\ UNCHANGED <<page, slot>>
      /\ Head(mail[i].toC).seq = core[i].peer /\ core[i].step \in {"key", "opening"}
      /\ core' = [core EXCEPT ![i].step = IF @ = "key" THEN "opening" ELSE "ready",
                              ![i].peer = @ + 1]
      /\ mail' = [mail EXCEPT ![i] = m]
  BY DEF ClaimantConfirms, InSequence
<1>2. core[i] \in CoreStates /\ mail[i] \in Mailboxes /\ CoreOK(core[i])
      /\ JointOK(page[i], core[i]) /\ EndOK(page[i], core[i], mail[i])
  BY Now
<1>3. core' = [core EXCEPT ![i] = c] BY <1>1, <1>2 DEF IInv, StateOK
<1>4. core[i].peer + 1 <= page[i].seq /\ core[i].peer + 1 \in 0..5 BY <1>1, CoreFrame
<1>5. /\ c \in CoreStates /\ c.phase = core[i].phase /\ c.owner = core[i].owner
      /\ c.seq = core[i].seq /\ c.peer = core[i].peer + 1 /\ c.step = next
      /\ c.decision = core[i].decision /\ c.accepted = core[i].accepted
      /\ c.out = core[i].out /\ c.view = core[i].view
  <2>1. next \in DOMAIN ClaimantTakes BY TakesAre
  <2> HIDE DEF next
  <2> QED BY <1>2, <1>4, <2>1 DEF CoreStates
<1>6. Grows(mail[i], m, {}, {}) /\ m.st = mail[i].st BY <1>1, CorePops
<1> HIDE DEF c, m
<1>7. core[i].owner = "start" BY <1>1, <1>2 DEF ForCore, CoreOK
<1>8. CoreOK(c)
  <2>1. /\ Undecided(core[i]) /\ core[i].seq = 2
        /\ \/ core[i].step = "key" /\ core[i].peer = 1
           \/ core[i].step = "opening" /\ core[i].peer = 2
    BY <1>1, <1>2, <1>7 DEF CoreOK
  <2>2. Undecided(c) BY <1>5, <2>1 DEF Undecided
  <2>3. \/ c.step = "opening" /\ c.peer = 2
        \/ c.step = "ready" /\ c.peer = 3
    <3>1. CASE core[i].step = "key" /\ core[i].peer = 1
      <4>1. next = "opening" /\ 1 + 1 = 2 BY <3>1
      <4> QED BY <1>5, <3>1, <4>1
    <3>2. CASE core[i].step = "opening" /\ core[i].peer = 2
      <4>1. next = "ready" /\ 2 + 1 = 3 BY <3>2
      <4> QED BY <1>5, <3>2, <4>1
    <3> QED BY <2>1, <3>1, <3>2
  <2>4. c.phase = "endpoint" /\ c.owner = "start" /\ c.seq = 2 BY <1>1, <1>5, <1>7, <2>1
  <2> QED BY <1>2, <1>5, <2>2, <2>3, <2>4 DEF CoreOK
<1>9. JointOK(page[i], c) BY <1>2, <1>4, <1>5 DEF JointOK
<1>10. EndOK(page[i], c, m) BY <1>2, <1>5, <1>6 DEF EndOK, Over
<1>11. c.seq <= c.seq BY <1>5, CoreIs
<1>12. \A f \in {} : FromClaimant(c, f) OBVIOUS
<1>13. core[i].decision \in {None, c.decision} BY <1>5
<1>14. CoreMoves(i, c, m, {})
  BY <1>1, <1>3, <1>5, <1>6, <1>8, <1>9, <1>10, <1>11, <1>12, <1>13 DEF CoreMoves
<1> QED BY <1>14, CoreStep

\* The frame that carries the payload is the allocator's fifth.
LEMMA FifthFrame ==
  ASSUME IInv, NEW i \in Invites, core[i].peer >= 4, core[i].peer + 1 <= page[i].seq
  PROVE  page[i].payload /\ core[i].decision = "approve" /\ core[i].peer = 4
<1>1. page[i] \in PageStates /\ core[i] \in CoreStates /\ PageOK(page[i])
      /\ JointOK(page[i], core[i])
  BY Now
<1>2. page[i].seq \in 0..5 /\ core[i].peer \in 0..5 BY <1>1, PageIs, CoreIs
<1>3. page[i].seq = 5 /\ core[i].peer = 4 BY <1>2
<1> QED BY <1>1, <1>3 DEF PageOK, JointOK

LEMMA AcceptedKeeps == ASSUME IInv, NEW i \in Invites, Accepted(i) PROVE IInv'
<1> DEFINE c == [core[i] EXCEPT !.accepted = TRUE, !.proof = FALSE, !.step = "done",
                                !.peer = @ + 1]
           o == Popped(i, "toC")
           m == Close(o)
<1>1. /\ ForCore(i, "frame") /\ core[i].phase = "endpoint" /\ UNCHANGED <<page, slot>>
      /\ Head(mail[i].toC).seq = core[i].peer /\ core[i].step = "decided"
      /\ core' = [core EXCEPT ![i].accepted = TRUE, ![i].proof = FALSE, ![i].step = "done",
                              ![i].peer = @ + 1]
      /\ mail' = [mail EXCEPT ![i] = m]
  BY DEF Accepted, InSequence
<1>2. core[i] \in CoreStates /\ mail[i] \in Mailboxes /\ CoreOK(core[i])
      /\ JointOK(page[i], core[i]) /\ EndOK(page[i], core[i], mail[i])
  BY Now
<1>3. core' = [core EXCEPT ![i] = c] BY <1>1, <1>2 DEF IInv, StateOK
<1>4. core[i].peer + 1 <= page[i].seq /\ core[i].peer + 1 \in 0..5 BY <1>1, CoreFrame
<1>5. /\ c \in CoreStates /\ c.phase = core[i].phase /\ c.owner = core[i].owner
      /\ c.seq = core[i].seq /\ c.peer = core[i].peer + 1 /\ c.step = "done"
      /\ c.decision = core[i].decision /\ c.accepted = TRUE
      /\ c.out = core[i].out /\ c.view = core[i].view
  <2> DEFINE peer == core[i].peer + 1
  <2>1. c = [[[[core[i] EXCEPT !.accepted = TRUE] EXCEPT !.proof = FALSE]
               EXCEPT !.step = "done"] EXCEPT !.peer = peer]
    OBVIOUS
  <2>2. TRUE \in BOOLEAN /\ FALSE \in BOOLEAN OBVIOUS
  <2>3. "done" \in DOMAIN ClaimantTakes BY TakesAre
  <2>4. peer \in 0..5 BY <1>4
  <2> HIDE DEF c, peer
  <2>5. /\ c \in CoreStates /\ c.phase = core[i].phase /\ c.owner = core[i].owner
        /\ c.seq = core[i].seq /\ c.peer = peer /\ c.step = "done"
        /\ c.decision = core[i].decision /\ c.accepted = TRUE
        /\ c.out = core[i].out /\ c.view = core[i].view
    BY <1>2, <2>1, <2>2, <2>3, <2>4 DEF CoreStates
  <2> QED BY <2>5 DEF peer
<1>6. Grows(mail[i], m, {}, {}) /\ Over(m) /\ (mail[i].st = "none" => m.st = "none")
  <2>1. Grows(mail[i], o, {}, {}) /\ o.st = mail[i].st /\ o \in Mailboxes BY <1>1, CorePops
  <2>2. Grows(o, m, {}, {}) /\ Over(m) BY <2>1, CloseIs
  <2>3. Grows(mail[i], m, {} \cup {}, {} \cup {}) BY <1>2, <2>1, <2>2, GrowsOn
  <2>4. o.st = "none" => m = o BY DEF Close
  <2> QED BY <2>1, <2>2, <2>3, <2>4
<1> HIDE DEF c, m, o
<1>7. /\ core[i].owner = "finish" /\ core[i].decision = "approve" /\ core[i].peer = 4
      /\ core[i].seq = 3
  BY <1>1, <1>2 DEF ForCore, CoreOK, NewStep
<1>8. page[i].payload
  <2>1. core[i].peer >= 4 BY <1>7
  <2> QED BY <1>4, <2>1, FifthFrame
<1>9. CoreOK(c)
  <2>1. c.peer = 5 BY <1>5, <1>7
  <2> QED BY <1>1, <1>2, <1>5, <1>7, <2>1 DEF CoreOK
<1>10. JointOK(page[i], c) BY <1>2, <1>4, <1>5, <1>8 DEF JointOK
<1>11. EndOK(page[i], c, m)
  <2>1. c.out = None /\ c.view \in {None, "intent"} BY <1>2, <1>5, <1>7 DEF CoreOK
  <2>2. None \notin {"accepted", "refused", "declined", "cancelled"}
    BY LivePairingAssumption DEF LivePairingAssumption
  <2> QED BY <1>2, <1>6, <2>1, <2>2 DEF EndOK
<1>12. c.seq <= c.seq BY <1>5, CoreIs
<1>13. \A f \in {} : FromClaimant(c, f) OBVIOUS
<1>14. core[i].decision \in {None, c.decision} BY <1>5
<1>15. CoreMoves(i, c, m, {})
  BY <1>1, <1>3, <1>5, <1>6, <1>9, <1>10, <1>11, <1>12, <1>13, <1>14 DEF CoreMoves
<1> QED BY <1>15, CoreStep

LEMMA RefusedByClaimantKeeps == ASSUME IInv, NEW i \in Invites, RefusedByClaimant(i) PROVE IInv'
<1> DEFINE d == Dropped(core[i])
           c == [d EXCEPT !.phase = "terminal", !.peer = core[i].peer + 1, !.out = "refused"]
           o == Close(mail[i])
           m == Cut(o, "toC")
<1>1. /\ ForCore(i, "frame") /\ core[i].phase = "endpoint" /\ UNCHANGED <<page, slot>>
      /\ Head(mail[i].toC).seq = core[i].peer
      /\ core' = [core EXCEPT ![i] = c] /\ mail' = [mail EXCEPT ![i] = m]
  <2>1. ForCore(i, "frame") /\ core[i].phase = "endpoint" /\ Head(mail[i].toC).seq = core[i].peer
    BY DEF RefusedByClaimant, InSequence
  <2>2. core' = [core EXCEPT ![i] = c] BY DEF RefusedByClaimant
  <2>3. mail' = [mail EXCEPT ![i] = m] /\ UNCHANGED <<page, slot>> BY DEF RefusedByClaimant
  <2> QED BY <2>1, <2>2, <2>3
<1>2. core[i] \in CoreStates /\ mail[i] \in Mailboxes /\ CoreOK(core[i])
      /\ JointOK(page[i], core[i]) /\ EndOK(page[i], core[i], mail[i])
  BY Now
<1>3. core[i].peer + 1 <= page[i].seq /\ core[i].peer + 1 \in 0..5 BY <1>1, CoreFrame
<1>4. /\ d \in CoreStates /\ d.owner = "gone" /\ ~d.proof /\ d.seq = core[i].seq
      /\ d.peer = core[i].peer /\ d.decision = core[i].decision
      /\ d.accepted = core[i].accepted /\ d.view = "failed"
  BY <1>2, DroppedIs
<1> HIDE DEF d
<1>5. /\ c \in CoreStates /\ c.owner = "gone" /\ ~c.proof /\ c.seq = core[i].seq
      /\ c.peer = core[i].peer + 1 /\ c.decision = core[i].decision
      /\ c.accepted = core[i].accepted /\ c.view = "failed" /\ c.out = "refused"
  <2> DEFINE peer == core[i].peer + 1
  <2>1. c = [[[d EXCEPT !.phase = "terminal"] EXCEPT !.peer = peer] EXCEPT !.out = "refused"]
    OBVIOUS
  <2>2. peer \in 0..5 /\ peer = core[i].peer + 1 BY <1>3, <1>4
  <2> HIDE DEF c, peer
  <2>3. /\ c \in CoreStates /\ c.owner = d.owner /\ c.proof = d.proof /\ c.seq = d.seq
        /\ c.peer = peer /\ c.decision = d.decision /\ c.accepted = d.accepted
        /\ c.view = d.view /\ c.out = "refused"
    BY <1>4, <2>1, <2>2 DEF CoreStates
  <2> QED BY <1>4, <2>2, <2>3
<1>6. Grows(mail[i], m, {}, {}) /\ Over(m) /\ (mail[i].st = "none" => m.st = "none")
  <2>1. Grows(mail[i], o, {}, {}) /\ Over(o) /\ o \in Mailboxes BY <1>2, CloseIs DEF Grows
  <2>2. mail[i].st = "none" => o = mail[i] BY DEF Close
  <2> HIDE DEF o
  <2>3. Grows(o, m, {}, {}) /\ m.st = o.st BY <2>1, CutIs
  <2>4. Grows(mail[i], m, {} \cup {}, {} \cup {}) BY <1>2, <2>1, <2>3, GrowsOn
  <2> QED BY <2>1, <2>2, <2>3, <2>4 DEF Over
<1> HIDE DEF c, m, o
<1>7. core[i].owner \in {"start", "finish"} BY <1>1 DEF ForCore
<1>8. ~core[i].accepted /\ (core[i].decision = "approve" => page[i].payload)
  <2>1. CASE core[i].owner = "start"
    <3>1. Undecided(core[i]) BY <1>2, <2>1 DEF CoreOK
    <3>2. None # "approve" BY LivePairingAssumption DEF LivePairingAssumption
    <3> QED BY <3>1, <3>2 DEF Undecided
  <2>2. CASE core[i].owner = "finish"
    <3>1. core[i].peer >= 4 /\ (core[i].accepted => core[i].peer = 5)
      BY <1>2, <2>2 DEF CoreOK
    <3>2. page[i].payload /\ core[i].peer = 4 BY <1>3, <3>1, FifthFrame
    <3>3. 4 # 5 OBVIOUS
    <3> QED BY <3>1, <3>2, <3>3
  <2> QED BY <1>7, <2>1, <2>2
<1>9. EndOK(page[i], c, m) BY <1>2, <1>5, <1>6, <1>8 DEF EndOK
<1>10. c.peer <= page[i].seq BY <1>3, <1>5
<1> QED BY <1>1, <1>5, <1>6, <1>7, <1>9, <1>10, CoreEnds

LEMMA ClaimantClosedKeeps == ASSUME IInv, NEW i \in Invites, ClaimantClosed(i) PROVE IInv'
<1> DEFINE out == ClaimantOutcome(core[i])
           awaited == IF core[i].decision = "approve" THEN "accepted" ELSE "declined"
           view == IF core[i].owner = "finish" /\ out = awaited THEN out ELSE "failed"
           d == Dropped(core[i])
           c == [d EXCEPT !.phase = "terminal", !.out = out, !.view = view]
           m == Cut(mail[i], "toC")
<1>1. /\ ForCore(i, "closed") /\ UNCHANGED <<page, slot>>
      /\ core' = [core EXCEPT ![i] = c] /\ mail' = [mail EXCEPT ![i] = m]
  BY DEF ClaimantClosed
<1>2. core[i] \in CoreStates /\ mail[i] \in Mailboxes /\ CoreOK(core[i])
      /\ JointOK(page[i], core[i]) /\ EndOK(page[i], core[i], mail[i])
      /\ WireOK(page[i], core[i], mail[i])
  BY Now
<1>3. mail[i].st = "closed"
  <2>1. Head(mail[i].toC) \in ToC(mail[i]) /\ Head(mail[i].toC).k = "closed"
    BY <1>1, CorePops DEF ForCore
  <2> QED BY <1>2, <2>1 DEF WireOK, FromAllocator
<1>4. /\ d \in CoreStates /\ d.owner = "gone" /\ ~d.proof /\ d.seq = core[i].seq
      /\ d.peer = core[i].peer /\ d.decision = core[i].decision
      /\ d.accepted = core[i].accepted
  BY <1>2, DroppedIs
<1>5. core[i].owner \in {"start", "finish"} BY <1>1 DEF ForCore
<1>6. /\ out \in {"accepted", "declined", "closed"}
      /\ out = "accepted" => core[i].accepted
      /\ out = "declined" => core[i].decision = "decline"
      /\ core[i].accepted => core[i].decision = "approve"
  <2>1. core[i].accepted => core[i].decision = "approve"
    BY <1>2, <1>5 DEF CoreOK, Undecided
  <2> QED BY <2>1 DEF ClaimantOutcome
<1> HIDE DEF d, out, awaited
<1>7. view \in {out, "failed"} BY <1>6
<1> HIDE DEF view
<1>8. /\ c \in CoreStates /\ c.owner = "gone" /\ ~c.proof /\ c.seq = core[i].seq
      /\ c.peer = core[i].peer /\ c.decision = core[i].decision
      /\ c.accepted = core[i].accepted /\ c.view = view /\ c.out = out
  <2>1. c = [[[d EXCEPT !.phase = "terminal"] EXCEPT !.out = out] EXCEPT !.view = view]
    OBVIOUS
  <2>2. /\ out \in {None, "accepted", "declined", "refused", "closed", "cancelled"}
        /\ view \in {None, "intent", "accepted", "declined", "failed"}
    <3>1. CASE view = "failed" BY <1>6, <3>1
    <3>2. CASE view = out /\ out # "closed" BY <1>6, <3>2
    <3>3. ~(view = "closed") BY <1>6 DEF view, awaited
    <3> QED BY <1>6, <1>7, <3>1, <3>2, <3>3
  <2> HIDE DEF c
  <2>3. /\ c \in CoreStates /\ c.owner = d.owner /\ c.proof = d.proof /\ c.seq = d.seq
        /\ c.peer = d.peer /\ c.decision = d.decision /\ c.accepted = d.accepted
        /\ c.view = view /\ c.out = out
    BY <1>4, <2>1, <2>2 DEF CoreStates
  <2> QED BY <1>4, <2>3
<1>9. Grows(mail[i], m, {}, {}) /\ m.st = mail[i].st BY <1>2, CutIs
<1> HIDE DEF c, m
<1>10. EndOK(page[i], c, m)
  <2>1. page[i].payload \/ ~core[i].accepted BY <1>2 DEF JointOK
  <2>2. c.view = "accepted" => c.out = "accepted" BY <1>6, <1>7, <1>8
  <2>3. page[i].phase \notin {"new", "welcome"} BY <1>2, <1>5 DEF JointOK, Early
  <2> QED BY <1>3, <1>6, <1>8, <1>9, <2>1, <2>2, <2>3 DEF EndOK, Over
<1>11. c.peer <= page[i].seq BY <1>2, <1>8 DEF JointOK
<1> QED BY <1>1, <1>5, <1>8, <1>9, <1>10, <1>11, CoreEnds


-----------------------------------------------------------------------------
(* The slot                                                                *)

\* A step that leaves the pages alone.
LEMMA SlotStep ==
  ASSUME IInv, UNCHANGED page, core' \in [Invites -> CoreStates],
         mail' \in [Invites -> Mailboxes], slot' \in Invites \cup {None},
         \A j \in Invites : /\ core'[j].owner = "slot" <=> slot' = j
                            /\ PairOK(page[j], core'[j], mail'[j])
  PROVE  IInv'
BY DEF IInv, StateOK

\* The session in the slot is undecided, and no other is in it.
LEMMA SlotIs ==
  ASSUME IInv
  PROVE  /\ \A j \in Invites : core[j].owner = "slot" <=> slot = j
         /\ None \notin Invites
         /\ slot \in Invites => /\ core[slot].owner = "slot" /\ Undecided(core[slot])
                                /\ core[slot].out = None /\ core[slot].view \in {None, "intent"}
<1>1. \A j \in Invites : core[j].owner = "slot" <=> slot = j BY DEF IInv, StateOK
<1>2. None \notin Invites BY LivePairingAssumption DEF LivePairingAssumption
<1>3. ASSUME slot \in Invites
      PROVE  /\ core[slot].owner = "slot" /\ Undecided(core[slot])
             /\ core[slot].out = None /\ core[slot].view \in {None, "intent"}
  <2>1. core[slot].owner = "slot" BY <1>1, <1>3
  <2>2. CoreOK(core[slot]) BY <1>3, Now
  <2> QED BY <2>1, <2>2 DEF CoreOK
<1> QED BY <1>1, <1>2, <1>3

\* A session cancelled in the slot closes its mailbox.
LEMMA CancelledIs ==
  ASSUME IInv, NEW j \in Invites, slot = j
  PROVE  LET c == Cancelled(core[j])
             m == Cut(Close(mail[j]), "toC")
         IN  /\ c \in CoreStates /\ m \in Mailboxes /\ c.owner = "gone"
             /\ PairOK(page[j], c, m)
<1> DEFINE c == Cancelled(core[j])
           o == Close(mail[j])
           m == Cut(o, "toC")
<1>1. page[j] \in PageStates /\ core[j] \in CoreStates /\ mail[j] \in Mailboxes
      /\ PageOK(page[j]) /\ CoreOK(core[j]) /\ JointOK(page[j], core[j])
      /\ WireOK(page[j], core[j], mail[j]) /\ EndOK(page[j], core[j], mail[j])
  BY Now
<1>2. Undecided(core[j]) /\ core[j].view \in {None, "intent"} /\ core[j].owner = "slot"
  BY SlotIs
<1>3. /\ c \in CoreStates /\ c.owner = "gone" /\ ~c.proof /\ c.seq = core[j].seq
      /\ c.peer = core[j].peer /\ c.decision = core[j].decision
      /\ c.accepted = core[j].accepted /\ c.view = core[j].view /\ c.out = "cancelled"
  <2>1. c = [[[[core[j] EXCEPT !.phase = "terminal"] EXCEPT !.owner = "gone"]
               EXCEPT !.proof = FALSE] EXCEPT !.out = "cancelled"]
    BY DEF Cancelled
  <2>2. FALSE \in BOOLEAN OBVIOUS
  <2> HIDE DEF c
  <2> QED BY <1>1, <2>1, <2>2 DEF CoreStates
<1>4. Grows(mail[j], m, {}, {}) /\ Over(m) /\ (mail[j].st = "none" => m.st = "none")
  <2>1. Grows(mail[j], o, {}, {}) /\ Over(o) /\ o \in Mailboxes BY <1>1, CloseIs DEF Grows
  <2>2. mail[j].st = "none" => o = mail[j] BY DEF Close
  <2> HIDE DEF o
  <2>3. Grows(o, m, {}, {}) /\ m.st = o.st BY <2>1, CutIs
  <2>4. Grows(mail[j], m, {} \cup {}, {} \cup {}) BY <1>1, <2>1, <2>3, GrowsOn
  <2> QED BY <2>1, <2>2, <2>3, <2>4 DEF Over
<1> HIDE DEF c, m, o
<1>5. CoreOK(c) BY <1>3 DEF CoreOK
<1>6. JointOK(page[j], c)
  <2>1. page[j].phase \notin Early BY <1>1, <1>2 DEF JointOK
  <2> QED BY <1>1, <1>3, <2>1 DEF JointOK
<1>7. None \notin {"declined", "accepted"}
  BY LivePairingAssumption DEF LivePairingAssumption
<1>8. EndOK(page[j], c, m) BY <1>1, <1>2, <1>3, <1>4, <1>7 DEF EndOK, Undecided
<1>9. WireOK(page[j], c, m)
  <2>1. page[j].seq <= page[j].seq /\ core[j].seq <= c.seq BY <1>1, <1>3, PageIs, CoreIs
  <2>2. core[j].decision \in {None, c.decision} BY <1>3
  <2>3. \A f \in {} : FromClaimant(c, f) OBVIOUS
  <2>4. \A f \in {} : FromAllocator(page[j], m, f) OBVIOUS
  <2> QED BY <1>1, <1>3, <1>4, <2>1, <2>2, <2>3, <2>4, WireKept
<1>10. PairOK(page[j], c, m) BY <1>1, <1>5, <1>6, <1>8, <1>9 DEF PairOK
<1> QED BY <1>3, <1>4, <1>10 DEF Grows, c, m, o

\* A session dropped in the slot says nothing to the relay.
LEMMA SupersededIs ==
  ASSUME IInv, NEW j \in Invites, slot = j
  PROVE  LET c == [Dropped(core[j]) EXCEPT !.view = core[j].view]
             m == Cut(mail[j], "toC")
         IN  /\ c \in CoreStates /\ m \in Mailboxes /\ c.owner = "gone"
             /\ PairOK(page[j], c, m)
<1> DEFINE d == Dropped(core[j])
           c == [d EXCEPT !.view = core[j].view]
           m == Cut(mail[j], "toC")
<1>1. page[j] \in PageStates /\ core[j] \in CoreStates /\ mail[j] \in Mailboxes
      /\ PageOK(page[j]) /\ CoreOK(core[j]) /\ JointOK(page[j], core[j])
      /\ WireOK(page[j], core[j], mail[j]) /\ EndOK(page[j], core[j], mail[j])
  BY Now
<1>2. core[j].owner = "slot" BY SlotIs
<1>3. /\ d \in CoreStates /\ d.owner = "gone" /\ ~d.proof /\ d.seq = core[j].seq
      /\ d.peer = core[j].peer /\ d.decision = core[j].decision
      /\ d.accepted = core[j].accepted /\ d.out = core[j].out
  BY <1>1, DroppedIs
<1> HIDE DEF d
<1>4. /\ c \in CoreStates /\ c.owner = "gone" /\ ~c.proof /\ c.seq = core[j].seq
      /\ c.peer = core[j].peer /\ c.decision = core[j].decision
      /\ c.accepted = core[j].accepted /\ c.view = core[j].view /\ c.out = core[j].out
  <2>1. core[j].view \in {None, "intent", "accepted", "declined", "failed"} BY <1>1, CoreIs
  <2>2. c = [d EXCEPT !.view = core[j].view] OBVIOUS
  <2> HIDE DEF c
  <2>3. /\ c \in CoreStates /\ c.owner = d.owner /\ c.proof = d.proof /\ c.seq = d.seq
        /\ c.peer = d.peer /\ c.decision = d.decision
        /\ c.accepted = d.accepted /\ c.view = core[j].view /\ c.out = d.out
    BY <1>3, <2>1, <2>2 DEF CoreStates
  <2> QED BY <1>3, <2>3
<1>5. Grows(mail[j], m, {}, {}) /\ m.st = mail[j].st BY <1>1, CutIs
<1> HIDE DEF c, m
<1>6. CoreOK(c) BY <1>4 DEF CoreOK
<1>7. JointOK(page[j], c)
  <2>1. page[j].phase \notin Early BY <1>1, <1>2 DEF JointOK
  <2> QED BY <1>1, <1>4, <2>1 DEF JointOK
<1>8. EndOK(page[j], c, m) BY <1>1, <1>4, <1>5 DEF EndOK, Over
<1>9. WireOK(page[j], c, m)
  <2>1. page[j].seq <= page[j].seq /\ core[j].seq <= c.seq BY <1>1, <1>4, PageIs, CoreIs
  <2>2. core[j].decision \in {None, c.decision} BY <1>4
  <2>3. \A f \in {} : FromClaimant(c, f) OBVIOUS
  <2>4. \A f \in {} : FromAllocator(page[j], m, f) OBVIOUS
  <2> QED BY <1>1, <1>4, <1>5, <2>1, <2>2, <2>3, <2>4, WireKept
<1>10. PairOK(page[j], c, m) BY <1>1, <1>6, <1>7, <1>8, <1>9 DEF PairOK
<1> QED BY <1>4, <1>5, <1>10 DEF Grows, c, m, d

LEMMA CancelPendingKeeps == ASSUME IInv, CancelPending PROVE IInv'
<1>1. slot \in Invites /\ UNCHANGED page /\ slot' = None
      /\ core' = [core EXCEPT ![slot] = Cancelled(core[slot])]
      /\ mail' = [mail EXCEPT ![slot] = Cut(Close(mail[slot]), "toC")]
  BY DEF CancelPending, IInv, StateOK
<1>2. core \in [Invites -> CoreStates] /\ mail \in [Invites -> Mailboxes]
  BY DEF IInv, StateOK
<1>3. /\ Cancelled(core[slot]) \in CoreStates /\ Cut(Close(mail[slot]), "toC") \in Mailboxes
      /\ Cancelled(core[slot]).owner = "gone"
      /\ PairOK(page[slot], Cancelled(core[slot]), Cut(Close(mail[slot]), "toC"))
  BY <1>1, CancelledIs
<1>4. core' \in [Invites -> CoreStates] /\ mail' \in [Invites -> Mailboxes]
  BY <1>1, <1>2, <1>3
<1>5. ASSUME NEW j \in Invites
      PROVE  (core'[j].owner = "slot" <=> slot' = j) /\ PairOK(page[j], core'[j], mail'[j])
  <2>1. CASE j = slot
    <3>1. core'[j] = Cancelled(core[slot]) /\ mail'[j] = Cut(Close(mail[slot]), "toC")
      BY <1>1, <1>2, <2>1
    <3> QED BY <1>1, <1>3, <2>1, <3>1, SlotIs
  <2>2. CASE j # slot
    <3>1. core'[j] = core[j] /\ mail'[j] = mail[j] BY <1>1, <1>2, <2>2
    <3> QED BY <1>1, <2>2, <3>1, SlotIs DEF IInv
  <2> QED BY <2>1, <2>2
<1> QED BY <1>1, <1>4, <1>5, SlotStep


LEMMA StartRefusedKeeps == ASSUME IInv, StartRefused PROVE IInv'
BY CancelPendingKeeps DEF StartRefused

LEMMA StartKeeps == ASSUME IInv, NEW i \in Invites, Start(i) PROVE IInv'
<1> DEFINE c == [core[i] EXCEPT !.owner = "start"]
<1>1. /\ page[i].phase \notin Early /\ core[i].owner = "none" /\ slot' = None /\ UNCHANGED page
      /\ core' = [j \in Invites |-> IF j = i THEN [core[j] EXCEPT !.owner = "start"]
                                    ELSE IF j = slot THEN Cancelled(core[j]) ELSE core[j]]
      /\ mail' = [j \in Invites |-> IF j = slot THEN Cut(Close(mail[j]), "toC") ELSE mail[j]]
  BY DEF Start, Early
<1>2. core \in [Invites -> CoreStates] /\ mail \in [Invites -> Mailboxes]
  BY DEF IInv, StateOK
<1>3. page[i] \in PageStates /\ core[i] \in CoreStates /\ PageOK(page[i]) /\ CoreOK(core[i])
      /\ JointOK(page[i], core[i]) /\ WireOK(page[i], core[i], mail[i])
      /\ EndOK(page[i], core[i], mail[i]) /\ mail[i] \in Mailboxes
  BY Now
<1>4. slot # i BY <1>1, SlotIs
<1>5. core[i] = NewCore BY <1>1, <1>3 DEF CoreOK
<1>6. /\ c \in CoreStates /\ c.owner = "start" /\ c.phase = "none" /\ c.seq = 0
      /\ c.peer = 0 /\ c.step = "key" /\ c.decision = None /\ ~c.accepted
      /\ c.out = None /\ c.view = None
  <2>1. c = [NewCore EXCEPT !.owner = "start"] BY <1>5
  <2>2. c \in CoreStates BY <1>3 DEF CoreStates
  <2> QED BY <2>1, <2>2 DEF NewCore
<1>7. c.accepted = core[i].accepted /\ c.decision = core[i].decision /\ c.seq = core[i].seq
      /\ c.peer = core[i].peer /\ c.out = core[i].out /\ c.view = core[i].view
  BY <1>3 DEF CoreStates
<1> HIDE DEF c
<1>8. PairOK(page[i], c, mail[i])
  <2>1. CoreOK(c) BY <1>6 DEF CoreOK, Undecided, NewStep
  <2>2. JointOK(page[i], c) BY <1>1, <1>3, <1>7 DEF JointOK
  <2>3. EndOK(page[i], c, mail[i]) BY <1>3, <1>7 DEF EndOK
  <2>4. WireOK(page[i], c, mail[i]) BY <1>3, <1>7 DEF WireOK, FromClaimant
  <2> QED BY <1>3, <2>1, <2>2, <2>3, <2>4 DEF PairOK
<1>9. ASSUME NEW j \in Invites
      PROVE  /\ core'[j] \in CoreStates /\ mail'[j] \in Mailboxes
             /\ core'[j].owner = "slot" <=> slot' = j
             /\ PairOK(page[j], core'[j], mail'[j])
  <2>1. CASE j = i
    <3>1. core'[j] = c /\ mail'[j] = mail[i] BY <1>1, <1>4, <2>1 DEF c
    <3> QED BY <1>1, <1>3, <1>6, <1>8, <2>1, <3>1, SlotIs
  <2>2. CASE j # i /\ j = slot
    <3>1. core'[j] = Cancelled(core[j]) /\ mail'[j] = Cut(Close(mail[j]), "toC")
      BY <1>1, <2>2
    <3>2. /\ Cancelled(core[j]) \in CoreStates /\ Cut(Close(mail[j]), "toC") \in Mailboxes
          /\ Cancelled(core[j]).owner = "gone"
          /\ PairOK(page[j], Cancelled(core[j]), Cut(Close(mail[j]), "toC"))
      BY <2>2, CancelledIs
    <3> QED BY <1>1, <3>1, <3>2, SlotIs
  <2>3. CASE j # i /\ j # slot
    <3>1. core'[j] = core[j] /\ mail'[j] = mail[j] BY <1>1, <2>3
    <3>2. PairOK(page[j], core[j], mail[j]) BY DEF IInv
    <3> QED BY <1>1, <1>2, <2>3, <3>1, <3>2, SlotIs
  <2> QED BY <2>1, <2>2, <2>3
<1>10. core' \in [Invites -> CoreStates] /\ mail' \in [Invites -> Mailboxes] BY <1>1, <1>9
<1> QED BY <1>1, <1>9, <1>10, SlotStep

LEMMA DisplayedKeeps == ASSUME IInv, NEW i \in Invites, Displayed(i) PROVE IInv'
<1> DEFINE c == [core[i] EXCEPT !.step = "shown", !.peer = @ + 1, !.owner = "slot",
                                !.view = "intent"]
           m == Popped(i, "toC")
           Gone(j) == [Dropped(core[j]) EXCEPT !.view = core[j].view]
<1>1. /\ ForCore(i, "frame") /\ core[i].phase = "endpoint" /\ UNCHANGED page
      /\ Head(mail[i].toC).seq = core[i].peer /\ core[i].step = "ready" /\ slot' = i
  BY DEF Displayed, InSequence
<1>2. /\ core' = [j \in Invites |-> IF j = i THEN [core[j] EXCEPT !.step = "shown", !.peer = @ + 1,
                                                     !.owner = "slot", !.view = "intent"]
                                    ELSE IF j = slot THEN Gone(j) ELSE core[j]]
      /\ mail' = [j \in Invites |-> IF j = i THEN Popped(i, "toC")
                                    ELSE IF j = slot THEN Cut(mail[j], "toC") ELSE mail[j]]
  BY DEF Displayed
<1>3. core \in [Invites -> CoreStates] /\ mail \in [Invites -> Mailboxes]
  BY DEF IInv, StateOK
<1>4. page[i] \in PageStates /\ core[i] \in CoreStates /\ PageOK(page[i]) /\ CoreOK(core[i])
      /\ JointOK(page[i], core[i]) /\ WireOK(page[i], core[i], mail[i])
      /\ EndOK(page[i], core[i], mail[i]) /\ mail[i] \in Mailboxes
  BY Now
<1>5. /\ core[i].owner = "start" /\ Undecided(core[i]) /\ core[i].seq = 2 /\ core[i].peer = 3
  BY <1>1, <1>4 DEF ForCore, CoreOK, NewStep
<1>6. core[i].peer + 1 <= page[i].seq BY <1>1, CoreFrame
<1>7. /\ c \in CoreStates /\ c.owner = "slot" /\ c.phase = "endpoint" /\ c.seq = core[i].seq
      /\ c.peer = 4 /\ c.step = "shown" /\ c.decision = core[i].decision
      /\ c.accepted = core[i].accepted /\ c.out = core[i].out /\ c.view = "intent"
  <2>1. core[i].peer + 1 = 4 /\ 4 \in 0..5 BY <1>5
  <2>2. c = [[[[core[i] EXCEPT !.step = "shown"] EXCEPT !.peer = 4] EXCEPT !.owner = "slot"]
               EXCEPT !.view = "intent"]
    BY <2>1
  <2>3. "shown" \in DOMAIN ClaimantTakes BY TakesAre
  <2> HIDE DEF c
  <2> QED BY <1>1, <1>4, <2>1, <2>2, <2>3 DEF CoreStates
<1>8. Grows(mail[i], m, {}, {}) /\ m.st = mail[i].st BY <1>1, CorePops
<1>9. core'[i] = c /\ mail'[i] = m BY <1>2
<1> HIDE DEF c, m
<1>10. PairOK(page[i], c, m)
  <2>1. CoreOK(c)
    <3>1. Undecided(c) BY <1>5, <1>7 DEF Undecided
    <3>2. c.out = None BY <1>4, <1>5, <1>7 DEF CoreOK
    <3> QED BY <1>5, <1>7, <3>1, <3>2 DEF CoreOK
  <2>2. JointOK(page[i], c)
    <3>1. 4 <= page[i].seq BY <1>5, <1>6
    <3>2. page[i].phase \notin Early BY <1>4, <1>5 DEF JointOK
    <3> QED BY <1>4, <1>7, <3>1, <3>2 DEF JointOK
  <2>3. EndOK(page[i], c, m) BY <1>4, <1>7, <1>8 DEF EndOK, Over
  <2>4. WireOK(page[i], c, m)
    <3>1. page[i].seq <= page[i].seq /\ core[i].seq <= c.seq BY <1>4, <1>7, PageIs, CoreIs
    <3>2. core[i].decision \in {None, c.decision} BY <1>7
    <3>3. \A f \in {} : FromClaimant(c, f) OBVIOUS
    <3>4. \A f \in {} : FromAllocator(page[i], m, f) OBVIOUS
    <3> QED BY <1>4, <1>7, <1>8, <3>1, <3>2, <3>3, <3>4, WireKept
  <2> QED BY <1>4, <2>1, <2>2, <2>3, <2>4 DEF PairOK
<1>11. slot # i BY <1>5, SlotIs
<1>12. ASSUME NEW j \in Invites
       PROVE  /\ core'[j] \in CoreStates /\ mail'[j] \in Mailboxes
              /\ core'[j].owner = "slot" <=> slot' = j
              /\ PairOK(page[j], core'[j], mail'[j])
  <2>1. CASE j = i BY <1>1, <1>7, <1>8, <1>9, <1>10, <2>1 DEF Grows
  <2>2. CASE j # i /\ j = slot
    <3>1. core'[j] = Gone(j) /\ mail'[j] = Cut(mail[j], "toC") BY <1>2, <2>2
    <3>2. /\ Gone(j) \in CoreStates /\ Cut(mail[j], "toC") \in Mailboxes
          /\ Gone(j).owner = "gone" /\ PairOK(page[j], Gone(j), Cut(mail[j], "toC"))
      BY <2>2, SupersededIs
    <3> QED BY <1>1, <2>2, <3>1, <3>2
  <2>3. CASE j # i /\ j # slot
    <3>1. core'[j] = core[j] /\ mail'[j] = mail[j] BY <1>2, <2>3
    <3>2. PairOK(page[j], core[j], mail[j]) BY DEF IInv
    <3> QED BY <1>1, <1>3, <2>3, <3>1, <3>2, SlotIs
  <2> QED BY <2>1, <2>2, <2>3
<1>13. core' \in [Invites -> CoreStates] /\ mail' \in [Invites -> Mailboxes] BY <1>2, <1>12
<1>14. slot' \in Invites \cup {None} /\ UNCHANGED page BY <1>1
<1> QED BY <1>12, <1>13, <1>14, SlotStep

LEMMA DecideKeeps ==
  ASSUME IInv, NEW i \in Invites, NEW decision \in {"approve", "decline"}, Decide(i, decision)
  PROVE  IInv'
<1> DEFINE step == IF decision = "approve" THEN "decided" ELSE "done"
           c == [core[i] EXCEPT !.owner = "finish", !.decision = decision, !.step = step,
                                !.seq = @ + 1]
           m == Put(mail[i], "toA", core[i].seq, <<decision>>)
<1>1. /\ slot = i /\ slot' = None /\ UNCHANGED page
      /\ core' = [core EXCEPT ![i].owner = "finish", ![i].decision = decision,
                          ![i].step = IF decision = "approve" THEN "decided" ELSE "done",
                          ![i].seq = @ + 1]
      /\ \E closes \in {FALSE, decision = "decline"} :
           mail' = [mail EXCEPT ![i] = IF closes THEN Close(m) ELSE m]
  BY DEF Decide
<1>2. PICK n \in {m, Close(m)} : mail' = [mail EXCEPT ![i] = n] BY <1>1
<1>3. core \in [Invites -> CoreStates] /\ mail \in [Invites -> Mailboxes]
  BY DEF IInv, StateOK
<1>4. page[i] \in PageStates /\ core[i] \in CoreStates /\ PageOK(page[i]) /\ CoreOK(core[i])
      /\ JointOK(page[i], core[i]) /\ WireOK(page[i], core[i], mail[i])
      /\ EndOK(page[i], core[i], mail[i]) /\ mail[i] \in Mailboxes
  BY Now
<1>5. core' = [core EXCEPT ![i] = c] BY <1>1, <1>3
<1>6. core[i].owner = "slot" /\ Undecided(core[i]) /\ core[i].out = None
      /\ core[i].view \in {None, "intent"}
  BY <1>1, SlotIs
<1>7. core[i].phase = "endpoint" /\ core[i].seq = 2 /\ core[i].peer = 4
  BY <1>4, <1>6 DEF CoreOK
<1>8. /\ c \in CoreStates /\ c.owner = "finish" /\ c.phase = "endpoint" /\ c.seq = 3
      /\ c.peer = 4 /\ c.step = step /\ c.decision = decision
      /\ c.accepted = core[i].accepted /\ c.out = None /\ c.view = core[i].view
  <2>1. core[i].seq + 1 = 3 /\ 3 \in 0..3 BY <1>7
  <2>2. c = [[[[core[i] EXCEPT !.owner = "finish"] EXCEPT !.decision = decision]
               EXCEPT !.step = step] EXCEPT !.seq = 3]
    BY <2>1
  <2>3. step \in DOMAIN ClaimantTakes BY TakesAre
  <2> HIDE DEF c, step
  <2> QED BY <1>4, <1>6, <1>7, <2>1, <2>2, <2>3 DEF CoreStates
<1>9. Grows(mail[i], m, {Frame(2, decision)}, {}) /\ m.st = mail[i].st
  <2>1. decision \in Bodies BY DEF Bodies
  <2>2. <<decision>> \in Seq(Bodies) /\ Len(<<decision>>) = 1
        /\ Sent(2, <<decision>>) = {Frame(2, decision)}
    BY <2>1, SentIs
  <2>3. 2 + Len(<<decision>>) <= 5 /\ 2 \in Nat BY <2>2
  <2> QED BY <1>4, <1>7, <2>2, <2>3, PutsAre
<1> HIDE DEF c, m
<1>10. /\ Grows(mail[i], n, {Frame(2, decision)}, {})
       /\ n.st = mail[i].st \/ (Over(n) /\ (mail[i].st = "none" <=> n.st = "none"))
  <2>1. CASE n = m BY <1>9, <2>1
  <2>2. CASE n = Close(m)
    <3>1. m \in Mailboxes BY <1>9 DEF Grows
    <3>2. Grows(m, n, {}, {}) /\ Over(n) /\ (m.st # "none" => n.st = "closed")
      BY <2>2, <3>1, CloseIs
    <3>3. Grows(mail[i], n, {Frame(2, decision)} \cup {}, {} \cup {})
      BY <1>4, <1>9, <3>2, GrowsOn
    <3>4. m.st = "none" => n.st = "none" BY <2>2 DEF Close
    <3> QED BY <1>9, <3>2, <3>3, <3>4
  <2> QED BY <2>1, <2>2
<1>11. None \notin {"approve", "decline", "accepted", "refused", "declined", "cancelled"}
  BY LivePairingAssumption DEF LivePairingAssumption
<1>12. PairOK(page[i], c, n)
  <2>1. CoreOK(c)
    <3>1. \/ c.decision = "approve" /\ c.step = "decided" /\ ~c.accepted /\ c.peer = 4
          \/ c.decision = "decline" /\ c.step = "done" /\ ~c.accepted /\ c.peer = 4
      BY <1>6, <1>8 DEF Undecided
    <3> QED BY <1>6, <1>8, <3>1 DEF CoreOK
  <2>2. JointOK(page[i], c)
    <3>1. page[i].peer <= 3
      <4>1. page[i].peer \in Nat BY <1>4, PageIs
      <4> QED BY <1>4, <1>7, <4>1 DEF JointOK
    <3>2. ~page[i].payload /\ ~page[i].declined BY <1>4, <1>6, <1>11 DEF JointOK, Undecided
    <3>3. 4 <= page[i].seq /\ page[i].phase \notin Early BY <1>4, <1>6, <1>7 DEF JointOK
    <3>4. ~c.accepted BY <1>6, <1>8 DEF Undecided
    <3> QED BY <1>8, <3>1, <3>2, <3>3, <3>4 DEF JointOK
  <2>3. EndOK(page[i], c, n)
    <3>1. page[i].phase \notin {"new", "welcome"} BY <1>4, <1>6 DEF JointOK, Early
    <3> QED BY <1>6, <1>8, <1>11, <3>1 DEF EndOK
  <2>4. WireOK(page[i], c, n)
    <3>1. page[i].seq <= page[i].seq /\ core[i].seq <= c.seq BY <1>4, <1>7, <1>8, PageIs
    <3>2. core[i].decision \in {None, c.decision} BY <1>6 DEF Undecided
    <3>3. \A f \in {Frame(2, decision)} : FromClaimant(c, f)
      <4>1. 2 \in 0..4 /\ 2 + 1 = 3 /\ 2 < c.seq /\ decision \in Bodies BY <1>8 DEF Bodies
      <4>2. decision \in Script.claimant[2 + 1] BY <4>1, ScriptIs
      <4> QED BY <1>8, <4>1, <4>2, FrameFine
    <3>4. \A f \in {} : FromAllocator(page[i], n, f) OBVIOUS
    <3> QED BY <1>4, <1>8, <1>10, <3>1, <3>2, <3>3, <3>4, WireKept
  <2> QED BY <1>4, <2>1, <2>2, <2>3, <2>4 DEF PairOK
<1>13. n \in Mailboxes BY <1>10 DEF Grows
<1>14. core' \in [Invites -> CoreStates] /\ mail' \in [Invites -> Mailboxes]
  BY <1>2, <1>3, <1>5, <1>8, <1>13
<1>15. ASSUME NEW j \in Invites
       PROVE  (core'[j].owner = "slot" <=> slot' = j) /\ PairOK(page[j], core'[j], mail'[j])
  <2>1. CASE j = i
    <3>1. core'[j] = c /\ mail'[j] = n BY <1>2, <1>3, <1>5, <2>1
    <3> QED BY <1>1, <1>8, <1>12, <2>1, <3>1, SlotIs
  <2>2. CASE j # i
    <3>1. core'[j] = core[j] /\ mail'[j] = mail[j] BY <1>2, <1>3, <1>5, <2>2
    <3> QED BY <1>1, <2>2, <3>1, SlotIs DEF IInv
  <2> QED BY <2>1, <2>2
<1>16. slot' \in Invites \cup {None} /\ UNCHANGED page BY <1>1
<1> QED BY <1>14, <1>15, <1>16, SlotStep

-----------------------------------------------------------------------------
(* The theorems                                                            *)

LEMMA InitIInv == Init => IInv
<1> SUFFICES ASSUME Init PROVE IInv OBVIOUS
<1>1. NewPage \in PageStates /\ PageOK(NewPage)
  BY LivePairingAssumption DEF NewPage, PageStates, PageOK, Early, LivePairingAssumption
<1>2. NewCore \in CoreStates
  <2>1. "key" \in DOMAIN ClaimantTakes BY TakesAre
  <2> QED BY <2>1 DEF NewCore, CoreStates
<1>3. CoreOK(NewCore) BY DEF NewCore, CoreOK
<1>4. JointOK(NewPage, NewCore) BY DEF NewPage, NewCore, JointOK
<1> DEFINE m(i) == [st |-> "none", box |-> <<>>, toA |-> <<>>, toC |-> <<>>, cut |-> {},
                    fault |-> i \in Faulty]
<1>5. ASSUME NEW i \in Invites
      PROVE  /\ mail[i] = m(i) /\ m(i) \in Mailboxes
             /\ WireOK(NewPage, NewCore, m(i)) /\ EndOK(NewPage, NewCore, m(i))
  <2>1. mail[i] = m(i) BY DEF Init
  <2>2. <<>> \in Seq(Message) /\ (i \in Faulty) \in BOOLEAN /\ {} \in SUBSET {"toA", "toC"}
    BY QueuesAre
  <2>3. m(i) \in Mailboxes BY <2>2 DEF Mailboxes
  <2>4. ToA(m(i)) = {} /\ ToC(m(i)) = {} BY QueuesAre DEF ToA, ToC
  <2>5. WireOK(NewPage, NewCore, m(i)) BY <2>4 DEF WireOK
  <2>6. m(i).st = "none" /\ NewCore.out = None /\ NewCore.view = None BY DEF NewCore
  <2>7. None \notin {"accepted", "refused", "declined", "cancelled"}
    BY LivePairingAssumption DEF LivePairingAssumption
  <2>8. EndOK(NewPage, NewCore, m(i)) BY <2>6, <2>7 DEF EndOK
  <2> QED BY <2>1, <2>3, <2>5, <2>8
<1>6. DOMAIN mail = Invites BY DEF Init
<1>7. mail \in [Invites -> Mailboxes]
  <2>1. mail = [i \in Invites |-> mail[i]] BY <1>6 DEF Init
  <2> QED BY <1>5, <2>1
<1>8. page \in [Invites -> PageStates] /\ core \in [Invites -> CoreStates]
      /\ \A i \in Invites : page[i] = NewPage /\ core[i] = NewCore
  BY <1>1, <1>2 DEF Init
<1>9. NewCore.owner = "none" /\ slot = None /\ None \notin Invites
  BY LivePairingAssumption DEF Init, NewCore, LivePairingAssumption
<1>10. StateOK BY <1>7, <1>8, <1>9 DEF StateOK
<1>11. ASSUME NEW i \in Invites PROVE PairOK(page[i], core[i], mail[i])
  BY <1>1, <1>3, <1>4, <1>5, <1>8 DEF PairOK
<1> QED BY <1>10, <1>11 DEF IInv

LEMMA NextIInv == IInv /\ [Next]_vars => IInv'
<1> SUFFICES ASSUME IInv, [Next]_vars PROVE IInv' OBVIOUS
<1>1. CASE UNCHANGED vars BY <1>1 DEF vars, IInv, StateOK
<1>2. ASSUME NEW i \in Invites, PageReads(i) PROVE IInv'
  <2>1. CASE Welcomed(i) BY <2>1, WelcomedKeeps
  <2>2. CASE Allocated(i) BY <2>2, AllocatedKeeps
  <2>3. CASE RelayError(i) BY <2>3, RelayErrorKeeps
  <2>4. CASE AllocatorOutOfOrder(i) BY <2>4, AllocatorOutOfOrderKeeps
  <2>5. CASE AllocatorFinish(i) BY <2>5, AllocatorFinishKeeps
  <2>6. CASE AllocatorEndpoint(i) BY <2>6, EndpointTakesKeeps, EndpointFailsKeeps
  <2>7. CASE AllocatorClosed(i) BY <2>7, AllocatorClosedKeeps
  <2> QED BY <1>2, <2>1, <2>2, <2>3, <2>4, <2>5, <2>6, <2>7 DEF PageReads
<1>3. ASSUME NEW i \in Invites, WalletReads(i) PROVE IInv'
  <2>1. CASE ClaimantWelcome(i) BY <2>1, ClaimantWelcomeKeeps
  <2>2. CASE Claimed(i) BY <2>2, ClaimedKeeps
  <2>3. CASE ClaimantFails(i) BY <2>3, ClaimantFailsKeeps
  <2>4. CASE ClaimantFinish(i) BY <2>4, ClaimantFinishKeeps
  <2>5. CASE ClaimantConfirms(i) BY <2>5, ClaimantConfirmsKeeps
  <2>6. CASE Displayed(i) BY <2>6, DisplayedKeeps
  <2>7. CASE Accepted(i) BY <2>7, AcceptedKeeps
  <2>8. CASE RefusedByClaimant(i) BY <2>8, RefusedByClaimantKeeps
  <2>9. CASE ClaimantClosed(i) BY <2>9, ClaimantClosedKeeps
  <2>10. CASE TimedOut(i) BY <2>10, TimedOutKeeps
  <2> QED BY <1>3, <2>1, <2>2, <2>3, <2>4, <2>5, <2>6, <2>7, <2>8, <2>9, <2>10 DEF WalletReads
<1>4. ASSUME NEW i \in Invites,
             \/ Bind(i) \/ PageCancel(i) \/ Start(i) \/ Connect(i)
             \/ Decide(i, "approve") \/ Decide(i, "decline") \/ Expire(i) \/ Misdeliver(i)
      PROVE  IInv'
  <2>1. CASE Bind(i) BY <2>1, BindKeeps
  <2>2. CASE PageCancel(i) BY <2>2, PageCancelKeeps
  <2>3. CASE Start(i) BY <2>3, StartKeeps
  <2>4. CASE Connect(i) BY <2>4, ConnectKeeps
  <2>5. CASE Decide(i, "approve") BY <2>5, DecideKeeps
  <2>6. CASE Decide(i, "decline") BY <2>6, DecideKeeps
  <2>7. CASE Expire(i) BY <2>7, ExpireKeeps
  <2>8. CASE Misdeliver(i) BY <2>8, MisdeliverKeeps
  <2> QED BY <1>4, <2>1, <2>2, <2>3, <2>4, <2>5, <2>6, <2>7, <2>8
<1>5. CASE CancelPending \/ StartRefused BY <1>5, CancelPendingKeeps, StartRefusedKeeps
<1> QED BY <1>1, <1>2, <1>3, <1>4, <1>5 DEF Next


LEMMA Inductive == Spec => []IInv
<1> QED BY InitIInv, NextIInv, PTL DEF Spec

LEMMA IInvTypeOK == IInv => TypeOK
<1> SUFFICES ASSUME IInv PROVE TypeOK OBVIOUS
<1>1. ASSUME NEW i \in Invites
      PROVE  /\ mail[i].st \in {"none", "open", "claimed", "opened", "closed"}
             /\ \A way \in {"box", "toA", "toC"} :
                  \A n \in DOMAIN mail[i][way] : mail[i][way][n] \in Message
             /\ core[i].owner = "slot" <=> slot = i
             /\ core[i].owner = "gone" => ~core[i].proof
  <2>1. mail[i] \in Mailboxes /\ CoreOK(core[i]) BY Now
  <2>2. \A way \in {"box", "toA", "toC"} : mail[i][way] \in Seq(Message) BY <2>1 DEF Mailboxes
  <2>3. \A q \in Seq(Message) : \A n \in DOMAIN q : q[n] \in Message
    BY LenProperties, ElementOfSeq
  <2>4. mail[i].st \in {"none", "open", "claimed", "opened", "closed"} BY <2>1 DEF Mailboxes
  <2> QED BY <2>1, <2>2, <2>3, <2>4, SlotIs DEF CoreOK
<1> QED BY <1>1 DEF IInv, StateOK, TypeOK

\* A frame under way in either direction follows the rehearsal.
LEMMA IInvRehearsed == ASSUME IInv, NEW i \in Invites PROVE Rehearsed(i)
<1>1. WireOK(page[i], core[i], mail[i]) BY Now
<1>2. \A n \in DOMAIN mail[i].toC : FromAllocator(page[i], mail[i], mail[i].toC[n])
  BY <1>1 DEF WireOK, ToC, Elems
<1>3. \A n \in DOMAIN mail[i].toA : FromClaimant(core[i], mail[i].toA[n])
  BY <1>1 DEF WireOK, ToA, Elems
<1> QED BY <1>2, <1>3 DEF Rehearsed, FromAllocator, FromClaimant

LEMMA IInvOutcomesAgree == IInv => OutcomesAgree
<1> SUFFICES ASSUME IInv, NEW i \in Invites
             PROVE  /\ Rehearsed(i)
                    /\ page[i].payload => core[i].decision = "approve"
                    /\ page[i].out = "delivered" => page[i].payload
                    /\ page[i].out = "declined" => core[i].decision = "decline"
                    /\ core[i].view = "declined" => mail[i].st = "closed"
                    /\ core[i].decision = "approve" /\ core[i].out \in {"accepted", "refused"} =>
                         Account(i) = Snapshot(Approve(Established, core[i].accepted))
                    /\ core[i].out = "declined" => Account(i) = Snapshot(Decline(Established))
                    /\ core[i].out = "cancelled" => Account(i) = Snapshot(CancelDemo(Established))
                    /\ core[i].out = "closed" /\ core[i].decision = None =>
                         Account(i) = Snapshot(ExpireDemo(Established))
                    /\ core[i].view = "accepted" => page[i].out \in {None, "delivered", "cancelled"}
  BY DEF OutcomesAgree
<1>1. page[i] \in PageStates /\ core[i] \in CoreStates /\ PageOK(page[i])
      /\ JointOK(page[i], core[i]) /\ EndOK(page[i], core[i], mail[i])
  BY Now
<1>2. None \notin {"approve", "decline", "accepted", "refused", "declined", "cancelled", "closed"}
  BY LivePairingAssumption DEF LivePairingAssumption
<1>3. page[i].payload \in BOOLEAN /\ core[i].accepted \in BOOLEAN BY <1>1, PageIs, CoreIs
<1>4. core[i].out # None => (mail[i].st \notin {"none", "closed"}) = FALSE
  BY <1>1 DEF EndOK, Over
<1>5. \A out, payload : core[i].out = out /\ out # None /\ page[i].payload = payload =>
        Account(i) = [outcome |-> out, delivered |-> payload, open |-> FALSE]
  BY <1>4 DEF Account
<1>6. page[i].payload => core[i].decision = "approve" BY <1>1 DEF JointOK
<1>7. ASSUME core[i].decision # "approve" PROVE page[i].payload = FALSE BY <1>3, <1>6, <1>7
<1>8. ASSUME core[i].decision = "approve", core[i].out \in {"accepted", "refused"}
      PROVE  Account(i) = Snapshot(Approve(Established, core[i].accepted))
  <2>1. CASE core[i].out = "accepted"
    <3>1. core[i].accepted = TRUE /\ page[i].payload = TRUE
      BY <1>1, <1>3, <2>1 DEF EndOK, JointOK
    <3>2. Account(i) = [outcome |-> "accepted", delivered |-> TRUE, open |-> FALSE]
      BY <1>2, <1>5, <2>1, <3>1
    <3> QED BY <3>1, <3>2, SnapshotsAre
  <2>2. CASE core[i].out = "refused"
    <3>1. core[i].accepted = FALSE /\ page[i].payload = TRUE
      BY <1>1, <1>3, <1>8, <2>2 DEF EndOK
    <3>2. Account(i) = [outcome |-> "refused", delivered |-> TRUE, open |-> FALSE]
      BY <1>2, <1>5, <2>2, <3>1
    <3> QED BY <3>1, <3>2, SnapshotsAre
  <2> QED BY <1>8, <2>1, <2>2
<1>9. ASSUME core[i].out = "declined" PROVE Account(i) = Snapshot(Decline(Established))
  <2>1. page[i].payload = FALSE
    <3>1. core[i].decision # "approve" BY <1>1, <1>9 DEF EndOK
    <3> QED BY <1>7, <3>1
  <2>2. Account(i) = [outcome |-> "declined", delivered |-> FALSE, open |-> FALSE]
    BY <1>2, <1>5, <1>9, <2>1
  <2> QED BY <2>2, SnapshotsAre
<1>10. ASSUME core[i].out = "cancelled" PROVE Account(i) = Snapshot(CancelDemo(Established))
  <2>1. page[i].payload = FALSE
    <3>1. core[i].decision # "approve" BY <1>1, <1>2, <1>10 DEF EndOK
    <3> QED BY <1>7, <3>1
  <2>2. Account(i) = [outcome |-> "cancelled", delivered |-> FALSE, open |-> FALSE]
    BY <1>2, <1>5, <1>10, <2>1
  <2> QED BY <2>2, SnapshotsAre
<1>11. ASSUME core[i].out = "closed", core[i].decision = None
       PROVE  Account(i) = Snapshot(ExpireDemo(Established))
  <2>1. page[i].payload = FALSE BY <1>2, <1>7, <1>11
  <2>2. Account(i) = [outcome |-> "closed", delivered |-> FALSE, open |-> FALSE]
    BY <1>2, <1>5, <1>11, <2>1
  <2> QED BY <2>2, SnapshotsAre
<1>12. page[i].out = "delivered" => page[i].payload BY <1>1 DEF PageOK
<1>13. page[i].out = "declined" => core[i].decision = "decline" BY <1>1 DEF PageOK, JointOK
<1>14. core[i].view = "declined" => mail[i].st = "closed" BY <1>1 DEF EndOK
<1>15. core[i].view = "accepted" => page[i].out \in {None, "delivered", "cancelled"}
  BY <1>1 DEF EndOK, PageOK
<1> QED
  BY <1>6, <1>8, <1>9, <1>10, <1>11, <1>12, <1>13, <1>14, <1>15, IInvRehearsed

\* Whatever the relay closes, repeats or spoils, whenever a page is abandoned
\* and however often a second start takes the slot, every live session
\* (live.rs, cbcl_pairing.rs) is well formed, the session in the slot is owned
\* by no command, and a deferred signer dies with its session.
THEOREM TypeCorrect == Spec => []TypeOK
BY Inductive, IInvTypeOK, PTL

\* live.rs and cbcl_pairing.rs: for any number of invitations, relays and
\* starts the two sides' accounts of one ceremony agree with each other and with
\* the one-process ceremony of lib.rs; a payload is released only to the
\* person's approval of that ceremony.
THEOREM OutcomesAgreeAlways == Spec => []OutcomesAgree
BY Inductive, IInvOutcomesAgree, PTL
=============================================================================
