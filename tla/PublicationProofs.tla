-------------------------- MODULE PublicationProofs --------------------------
(***************************************************************************)
(* TLAPS proofs about Publication, for any number of identities, link      *)
(* attempts and concurrent commands, and whichever mishaps may happen:     *)
(* what the resolver serves resolves, what was acknowledged is stored,     *)
(* nothing queued is dropped, and devices join backed-up identities only.  *)
(***************************************************************************)
EXTENDS Publication, SequenceTheorems, FiniteSetTheorems, TLAPS

-----------------------------------------------------------------------------
(* The inductive invariant *)

\* What a step of a command has been given by the steps before it.
CmdOK(c) ==
  /\ c.pc \in {"open", "sign", "put", "record", "revoke"} => c.dev \in Devs
  /\ c.pc \in {"fetch", "sign", "put", "record", "revoke", "publish", "ack"} => c.did \in Ids
  /\ c.pc \in {"put", "record"} => c.signer \in Ids
  /\ c.pc = "ack" => c.todo # <<>>

\* Every command has its type, and creates an identity that was drawn.
Commands(ps, drawn) ==
  /\ ps \in [Procs -> ProcState]
  /\ \A p \in Procs : CmdOK(ps[p]) /\ (ps[p].kind = "create" => ps[p].did \in drawn)

\* The drawn identities include the stored one.
StateOK == /\ TypeOK
           /\ root \in minted \cup {None}
           /\ Commands(procs, minted)

\* The deltas that anybody holds.
HeldBy(c) == Elems(c.todo) \cup c.have
Known == resolver \cup AllDeltas \cup UNION {HeldBy(procs[p]) : p \in Procs}
SignedDelta(x) == x.op = "revoke" => <<x.id, x.dev>> \in DOMAIN basis
\* A revocation is known once it is signed, and commits to its own identity's
\* deltas; the resolver holds the parents of all it holds.
ServedOK ==
  /\ \A x \in Known : SignedDelta(x)
  /\ \A y \in DOMAIN basis : \A x \in basis[y] : x.id = y[1]
  /\ \A p \in Procs : procs[p].pc = "revoke" => \A x \in procs[p].have : x.id = procs[p].did
  /\ \A x \in resolver : Parents(x) \subseteq resolver /\ Genesis(x.id) \in resolver

\* What x waits for, and a queue that waits for nothing behind it.
Needs(x) == Parents(x) \cup (IF x.op = "genesis" THEN {} ELSE {Genesis(x.id)})
Ordered(seq) == \A k \in 1..Len(seq) : Needs(seq[k]) \subseteq resolver \cup {seq[j] : j \in 1..(k-1)}

\* Deltas that are stored, or will be before anything queued from now on.
Ahead == resolver \cup Elems(pending)
\* An identity is stored and its genesis was recorded.
Grounded == root # None /\ Genesis(root) \in Ahead
\* Where a command stands on a phone that has lost nothing.
CmdIntact(c) ==
  /\ c.pc \notin {"fetch", "adopt", "clear"}
  /\ c.pc \in {"publish", "ack"} => Ordered(c.todo)
  /\ c.pc = "ack" => Head(c.todo) \in resolver
  /\ c.kind = "create" /\ c.pc # "genesis" => Grounded
  /\ c.kind = "create" => c.did = root
  /\ c.pc \in {"sign", "put", "record"} => c.did = root /\ root \in shown
  /\ c.pc \in {"put", "record"} => c.signer = root
  /\ c.pc = "revoke" => c.did = root /\ Grounded /\ c.have \subseteq Ahead
\* Without a mishap there is one identity, and what leaves the queue is stored.
PhoneOK == intact =>
  /\ closure \subseteq resolver
  /\ Ordered(pending)
  /\ shown \subseteq {root}
  /\ root \in shown => Grounded
  /\ confirmed => root \in shown
  /\ \A p \in Procs : CmdIntact(procs[p])

\* What a device finds in its slot, and what it makes of it.
DeviceOK == \A d \in Devs :
  /\ slots[d].bundle = "full" => bundle[d] # None
  /\ client[d] = "linked" => joined[d] # None
  /\ joined[d] # None => joined[d][1] = joined[d][2]
  /\ intact /\ bundle[d] # None => bundle[d][1] \in shown
  /\ intact /\ joined[d] # None => joined[d][1] \in shown

IInv == StateOK /\ ServedOK /\ PhoneOK /\ DeviceOK

-----------------------------------------------------------------------------
(* Queues *)

(* A smallest member of a set of naturals. *)
LEMMA Smallest ==
  ASSUME NEW T \in SUBSET Nat, T # {}
  PROVE  \E x \in T : \A y \in T : x <= y
<1>1. PICK x \in T : \A y \in T : ~(<<y, x>> \in OpToRel(<, Nat))
  BY NatLessThanWellFounded, WFMin, Zenon
<1>2. \A y \in T : ~(y < x) BY <1>1 DEF OpToRel
<1> QED BY <1>2

(* The members of a queue. *)
LEMMA ElemsOf ==
  ASSUME NEW S, NEW seq \in Seq(S)
  PROVE  /\ Elems(seq) \subseteq S
         /\ Elems(<<>>) = {}
         /\ seq # <<>> => /\ Head(seq) \in Elems(seq) /\ Tail(seq) \in Seq(S)
                          /\ Elems(seq) = {Head(seq)} \cup Elems(Tail(seq))
<1>1. \A k \in 1..Len(seq) : seq[k] \in S BY DEF Elems
<1>2. ASSUME seq # <<>>
      PROVE  /\ Head(seq) \in Elems(seq) /\ Tail(seq) \in Seq(S)
             /\ Elems(seq) = {Head(seq)} \cup Elems(Tail(seq))
  <2>1. /\ Head(seq) = seq[1] /\ Tail(seq) \in Seq(S) /\ Len(Tail(seq)) = Len(seq) - 1
        /\ Len(seq) \in Nat \ {0} /\ \A i \in 1..Len(Tail(seq)) : Tail(seq)[i] = seq[i+1]
    BY <1>2, HeadTailProperties
  <2>2. \A k \in 1..Len(seq) : k = 1 \/ (k - 1 \in 1..Len(Tail(seq)) /\ seq[k] = Tail(seq)[k - 1])
    BY <2>1
  <2>3. \A k \in 1..Len(Tail(seq)) : k + 1 \in 1..Len(seq) BY <2>1
  <2> QED BY <2>1, <2>2, <2>3 DEF Elems
<1> QED BY <1>1, <1>2 DEF Elems

LEMMA ElemsOfConcat ==
  ASSUME NEW S, NEW s \in Seq(S), NEW t \in Seq(S)
  PROVE  s \o t \in Seq(S) /\ Elems(s \o t) = Elems(s) \cup Elems(t)
<1>1. /\ s \o t \in Seq(S) /\ Len(s \o t) = Len(s) + Len(t)
      /\ \A i \in 1..(Len(s) + Len(t)) :
           (s \o t)[i] = IF i <= Len(s) THEN s[i] ELSE t[i - Len(s)]
  BY ConcatProperties
<1>2. Len(s) \in Nat /\ Len(t) \in Nat OBVIOUS
<1>3. \A i \in 1..Len(t) : i + Len(s) \in 1..Len(s \o t) /\ (s \o t)[i + Len(s)] = t[i]
  BY <1>1, <1>2
<1>4. \A i \in 1..Len(s) : i \in 1..Len(s \o t) /\ (s \o t)[i] = s[i] BY <1>1, <1>2
<1>5. \A i \in 1..Len(s \o t) : \/ i \in 1..Len(s) /\ (s \o t)[i] = s[i]
                                \/ i - Len(s) \in 1..Len(t) /\ (s \o t)[i] = t[i - Len(s)]
  BY <1>1, <1>2
<1> QED BY <1>1, <1>3, <1>4, <1>5 DEF Elems

(* Vec::remove of one position leaves the rest, in its order. *)
LEMMA RemovalOf ==
  ASSUME NEW S, NEW k \in 1..Len(pending), pending \in Seq(S)
  PROVE  /\ AfterRemoval(k) \in Seq(S) /\ Len(AfterRemoval(k)) = Len(pending) - 1
         /\ \A i \in 1..(Len(pending) - 1) :
              AfterRemoval(k)[i] = IF i < k THEN pending[i] ELSE pending[i + 1]
         /\ Elems(pending) \subseteq Elems(AfterRemoval(k)) \cup {pending[k]}
         /\ Elems(AfterRemoval(k)) \subseteq Elems(pending)
<1> DEFINE a == SubSeq(pending, 1, k - 1)  b == SubSeq(pending, k + 1, Len(pending))
<1>1. Len(pending) \in Nat /\ k \in Nat OBVIOUS
<1>2. a \in Seq(S) /\ Len(a) = k - 1 /\ \A i \in 1..(k - 1) : a[i] = pending[i]
  BY <1>1, SubSeqProperties
<1>3. b \in Seq(S) /\ Len(b) = Len(pending) - k /\ \A i \in 1..(Len(pending) - k) : b[i] = pending[k + i]
  BY <1>1, SubSeqProperties
<1>6. AfterRemoval(k) = a \o b BY DEF AfterRemoval
<1> HIDE DEF a, b
<1>4. /\ a \o b \in Seq(S) /\ Len(a \o b) = Len(pending) - 1
      /\ \A i \in 1..(Len(pending) - 1) : (a \o b)[i] = IF i <= k - 1 THEN a[i] ELSE b[i - (k - 1)]
  <2>1. /\ a \o b \in Seq(S) /\ Len(a \o b) = Len(a) + Len(b)
        /\ \A i \in 1..(Len(a) + Len(b)) :
             (a \o b)[i] = IF i <= Len(a) THEN a[i] ELSE b[i - Len(a)]
    BY <1>2, <1>3, ConcatProperties
  <2>2. Len(a) = k - 1 /\ Len(a) + Len(b) = Len(pending) - 1 BY <1>1, <1>2, <1>3
  <2> QED BY <2>1, <2>2
<1>5. \A i \in 1..(Len(pending) - 1) : (a \o b)[i] = IF i < k THEN pending[i] ELSE pending[i + 1]
  <2> SUFFICES ASSUME NEW i \in 1..(Len(pending) - 1)
               PROVE  (a \o b)[i] = IF i < k THEN pending[i] ELSE pending[i + 1]
    OBVIOUS
  <2>1. CASE i < k BY <2>1, <1>1, <1>2, <1>4
  <2>2. CASE ~(i < k)
    <3>1. i - (k - 1) \in 1..(Len(pending) - k) /\ k + (i - (k - 1)) = i + 1 BY <2>2, <1>1
    <3>2. b[i - (k - 1)] = pending[i + 1] BY <3>1, <1>3
    <3>3. ~(i <= k - 1) BY <2>2, <1>1
    <3> QED BY <2>2, <3>2, <3>3, <1>4
  <2> QED BY <2>1, <2>2
<1>7. \A i \in 1..Len(pending) : i = k \/ \E j \in 1..(Len(pending) - 1) : (a \o b)[j] = pending[i]
  <2> SUFFICES ASSUME NEW i \in 1..Len(pending), i # k
               PROVE  \E j \in 1..(Len(pending) - 1) : (a \o b)[j] = pending[i]
    OBVIOUS
  <2>1. CASE i < k
    <3>1. i \in 1..(Len(pending) - 1) BY <2>1, <1>1
    <3>2. (a \o b)[i] = pending[i] BY <3>1, <2>1, <1>5
    <3> QED BY <3>1, <3>2
  <2>2. CASE i > k
    <3>1. i - 1 \in 1..(Len(pending) - 1) /\ ~(i - 1 < k) /\ (i - 1) + 1 = i BY <2>2, <1>1
    <3>2. (a \o b)[i - 1] = pending[i] BY <3>1, <1>5
    <3> QED BY <3>1, <3>2
  <2>3. i < k \/ i > k
    <3>1. i \in Nat /\ k \in Nat BY <1>1
    <3> QED BY <3>1
  <2> QED BY <2>1, <2>2, <2>3
<1>8. \A j \in 1..(Len(pending) - 1) : \E i \in 1..Len(pending) : (a \o b)[j] = pending[i]
  <2> SUFFICES ASSUME NEW j \in 1..(Len(pending) - 1)
               PROVE  \E i \in 1..Len(pending) : (a \o b)[j] = pending[i]
    OBVIOUS
  <2>1. j \in 1..Len(pending) /\ j + 1 \in 1..Len(pending) BY <1>1
  <2>2. (a \o b)[j] = IF j < k THEN pending[j] ELSE pending[j + 1] BY <1>5, Zenon
  <2> QED BY <2>1, <2>2
<1>9. Elems(pending) \subseteq Elems(a \o b) \cup {pending[k]} BY <1>4, <1>7 DEF Elems
<1>10. Elems(a \o b) \subseteq Elems(pending)
  <2>1. Elems(a \o b) = {(a \o b)[j] : j \in 1..(Len(pending) - 1)} BY <1>4 DEF Elems
  <2>2. Elems(pending) = {pending[i] : i \in 1..Len(pending)} BY DEF Elems
  <2> QED BY <1>8, <2>1, <2>2
<1> QED BY <1>4, <1>5, <1>6, <1>9, <1>10

(* A queued delta has a position. *)
LEMMA Placed ==
  ASSUME NEW S, pending \in Seq(S), NEW x
  PROVE  /\ Position(x) # 0 => Position(x) \in 1..Len(pending) /\ pending[Position(x)] = x
         /\ Position(x) = 0 <=> x \notin Elems(pending)
<1>1. CASE x \notin Elems(pending) BY <1>1 DEF Position
<1>2. CASE x \in Elems(pending)
  <2> DEFINE T == {k \in 1..Len(pending) : pending[k] = x}
  <2>1. T \in SUBSET Nat /\ T # {} BY <1>2 DEF Elems
  <2>2. PICK k \in T : \A y \in T : k <= y BY <2>1, Smallest
  <2>3. \A j \in 1..(k - 1) : pending[j] # x
    <3> SUFFICES ASSUME NEW j \in 1..(k - 1), pending[j] = x PROVE FALSE OBVIOUS
    <3>1. k \in 1..Len(pending) /\ Len(pending) \in Nat BY <2>2
    <3>2. j \in T /\ ~(k <= j) BY <3>1
    <3> QED BY <2>2, <3>2
  <2>4. Position(x) = CHOOSE n \in 1..Len(pending) :
                        pending[n] = x /\ \A j \in 1..(n-1) : pending[j] # x
    BY <1>2 DEF Position
  <2>5. Position(x) \in 1..Len(pending) /\ pending[Position(x)] = x BY <2>2, <2>3, <2>4, Zenon
  <2>6. Position(x) # 0 BY <2>5
  <2> QED BY <1>2, <2>5, <2>6
<1> QED BY <1>1, <1>2

(* Vec::retain keeps exactly the members that are not given up. *)
LEMMA RetainedIs ==
  ASSUME NEW S, NEW seq \in Seq(S), NEW out
  PROVE  Retained(seq, out) \in Seq(S) /\ Elems(Retained(seq, out)) = Elems(seq) \ out
<1> DEFINE kept == {k \in 1..Len(seq) : seq[k] \notin out}
           Upto(j) == {k \in kept : k <= j}
           Place(j) == Cardinality(Upto(j))
           at(n) == CHOOSE j \in kept : Place(j) = n
           size == Cardinality(kept)
<1>1. Len(seq) \in Nat /\ kept \subseteq 1..Len(seq) /\ kept \subseteq Nat OBVIOUS
<1>2. IsFiniteSet(kept) /\ size \in Nat
  <2>1. IsFiniteSet(1..Len(seq)) BY <1>1, FS_Interval
  <2> HIDE DEF kept
  <2> QED BY <1>1, <2>1, FS_Subset, FS_CardinalityType
<1>3. \A j \in Nat : Upto(j) \subseteq kept /\ IsFiniteSet(Upto(j)) /\ Place(j) \in Nat /\ Place(j) <= size
  BY <1>2, FS_Subset, FS_CardinalityType
<1>4. Place(0) = 0
  <2>1. Upto(0) = {} BY <1>1
  <2> QED BY <2>1, FS_EmptySet
<1>5. Place(Len(seq)) = size
  <2>1. Upto(Len(seq)) = kept BY <1>1
  <2> QED BY <2>1
<1>6. \A j \in 1..Len(seq) : Place(j) = IF j \in kept THEN Place(j - 1) + 1 ELSE Place(j - 1)
  <2> SUFFICES ASSUME NEW j \in 1..Len(seq)
               PROVE  Place(j) = IF j \in kept THEN Place(j - 1) + 1 ELSE Place(j - 1)
    OBVIOUS
  <2>1. j - 1 \in Nat /\ j \notin Upto(j - 1) BY <1>1
  <2>2. Upto(j) = IF j \in kept THEN Upto(j - 1) \cup {j} ELSE Upto(j - 1) BY <1>1
  <2>3. IsFiniteSet(Upto(j - 1)) BY <1>3, <2>1
  <2>4. Cardinality(Upto(j - 1) \cup {j}) = Cardinality(Upto(j - 1)) + 1
    BY <2>1, <2>3, FS_AddElement
  <2> HIDE DEF Upto, kept
  <2> QED BY <2>2, <2>4
<1>7. \A i, j \in kept : i < j => Place(i) < Place(j)
  <2> SUFFICES ASSUME NEW i \in kept, NEW j \in kept, i < j PROVE Place(i) < Place(j)
    OBVIOUS
  <2>1. i \in Nat /\ j \in Nat BY <1>1
  <2>2. Upto(i) \subseteq Upto(j) /\ j \in Upto(j) /\ j \notin Upto(i) BY <2>1
  <2>3. IsFiniteSet(Upto(j)) /\ Place(i) \in Nat /\ Place(j) \in Nat BY <1>3, <2>1
  <2> HIDE DEF Upto, kept
  <2>4. Cardinality(Upto(i)) <= Cardinality(Upto(j)) /\ Cardinality(Upto(i)) # Cardinality(Upto(j))
    BY <2>2, <2>3, FS_Subset
  <2> QED BY <2>3, <2>4
<1> HIDE DEF Upto, kept
<1>8. ASSUME NEW n \in 1..size PROVE \E j \in kept : Place(j) = n
  <2> DEFINE T == {j \in 0..Len(seq) : Place(j) >= n}
  <2>1. T \in SUBSET Nat /\ Len(seq) \in T BY <1>1, <1>2, <1>5
  <2>2. PICK j \in T : \A i \in T : j <= i BY <2>1, Smallest
  <2>3. j \in Nat /\ n \in Nat \ {0} /\ Place(j) >= n /\ j <= Len(seq) BY <1>1, <1>2, <2>2
  <2> HIDE DEF Place
  <2>4. j # 0 BY <1>4, <2>3
  <2>5. j \in 1..Len(seq) /\ j - 1 \in 0..Len(seq) BY <1>1, <2>3, <2>4
  <2>6. Place(j - 1) \in Nat /\ Place(j) \in Nat
    <3>1. j - 1 \in Nat BY <1>1, <2>5
    <3> QED BY <3>1, <1>3, <2>3
  <2>7. ~(Place(j - 1) >= n) BY <2>2, <2>5
  <2>8. j \in kept /\ Place(j) = n BY <1>6, <2>3, <2>5, <2>6, <2>7
  <2> QED BY <2>8
<1>9. \A n \in 1..size : at(n) \in kept /\ Place(at(n)) = n BY <1>8
<1>10. \A j \in kept : Place(j) \in 1..size /\ at(Place(j)) = j
  <2> SUFFICES ASSUME NEW j \in kept PROVE Place(j) \in 1..size /\ at(Place(j)) = j OBVIOUS
  <2>1. j \in 1..Len(seq) /\ j - 1 \in Nat /\ j \in Nat BY <1>1
  <2>2. Place(j) \in 1..size BY <1>2, <1>3, <1>6, <2>1
  <2>3. at(Place(j)) \in kept /\ Place(at(Place(j))) = Place(j) BY <1>9, <2>2
  <2> DEFINE i == at(Place(j))
  <2>4. i \in Nat BY <1>1, <2>3
  <2> HIDE DEF i
  <2>5. ~(i < j) /\ ~(j < i) BY <1>3, <1>7, <2>1, <2>3, <2>4 DEF i
  <2> QED BY <2>1, <2>2, <2>4, <2>5 DEF i
<1>11. Retained(seq, out) = [n \in 1..size |-> seq[at(n)]] BY DEF Retained, kept, Upto
<1> HIDE DEF at, Place, size
<1>12. \A j \in kept : seq[j] \in S /\ seq[j] \in Elems(seq) \ out BY DEF kept, Elems
<1>13. \A x \in Elems(seq) \ out : \E j \in kept : x = seq[j] BY DEF kept, Elems
<1>14. Retained(seq, out) \in Seq(S) /\ Len(Retained(seq, out)) = size
  BY <1>2, <1>9, <1>11, <1>12, IsASeq DEF size
<1>15. \A n \in 1..size : Retained(seq, out)[n] = seq[at(n)] BY <1>11
<1>16. Elems(Retained(seq, out)) = {seq[at(n)] : n \in 1..size} BY <1>14, <1>15 DEF Elems
<1> QED BY <1>9, <1>10, <1>12, <1>13, <1>14, <1>16

-----------------------------------------------------------------------------
(* Deltas *)

(* Every delta is one of the five the wallet signs. *)
LEMMA DeltasAre ==
  /\ \A i \in Ids : /\ Genesis(i) \in Delta /\ Genesis(i).op = "genesis" /\ Genesis(i).id = i
                    /\ Profile(i) \in Delta /\ Profile(i).op = "profile" /\ Profile(i).id = i
  /\ \A i \in Ids, d \in Devs :
       /\ Add(i, d) \in Delta /\ Add(i, d).op = "add" /\ Add(i, d).id = i
       /\ Label(i, d) \in Delta /\ Label(i, d).op = "label"
       /\ Label(i, d).id = i /\ Label(i, d).dev = d
       /\ Revoke(i, d) \in Delta /\ Revoke(i, d).op = "revoke"
       /\ Revoke(i, d).id = i /\ Revoke(i, d).dev = d
  /\ \A x \in Delta : /\ x.id \in Ids /\ x.op \in {"genesis", "profile", "add", "label", "revoke"}
                      /\ x.op = "genesis" => x = Genesis(x.id)
                      /\ x.op \in {"label", "revoke"} => x.dev \in Devs
BY DEF Delta, Genesis, Profile, Add, Label, Revoke

(* What each of them commits to. *)
LEMMA ParentsAre ==
  ASSUME NEW x \in Delta
  PROVE  /\ x.op = "genesis" => Parents(x) = {}
         /\ x.op \in {"profile", "add"} => Parents(x) = {Genesis(x.id)}
         /\ x.op = "label" => Parents(x) = {Add(x.id, x.dev)}
         /\ x.op = "revoke" => Parents(x) = basis[<<x.id, x.dev>>]
BY DeltasAre DEF Parents

(* The parents of what the two signing commands queue. *)
LEMMA ParentsOf ==
  ASSUME NEW i, NEW d
  PROVE  /\ Parents(Genesis(i)) = {} /\ Parents(Profile(i)) = {Genesis(i)}
         /\ Parents(Add(i, d)) = {Genesis(i)} /\ Parents(Label(i, d)) = {Add(i, d)}
<1>1. Parents(Genesis(i)) = {} BY DEF Parents, Genesis
<1>2. Parents(Profile(i)) = {Genesis(i)} BY DEF Parents, Profile
<1>3. Parents(Add(i, d)) = {Genesis(i)} BY DEF Parents, Add
<1>4. Parents(Label(i, d)) = {Add(i, d)} BY DEF Parents, Label
<1> QED BY <1>1, <1>2, <1>3, <1>4

-----------------------------------------------------------------------------
(* Types *)

(* The update of one command's local state. *)
LEMMA Updated ==
  ASSUME NEW ps \in [Procs -> ProcState], NEW p \in Procs, NEW c \in ProcState
  PROVE  /\ [ps EXCEPT ![p] = c] \in [Procs -> ProcState]
         /\ [ps EXCEPT ![p] = c][p] = c
         /\ \A q \in Procs : q # p => [ps EXCEPT ![p] = c][q] = ps[q]
OBVIOUS

LEMMA IdleIs == /\ Idle \in ProcState /\ Idle.pc = "idle" /\ Idle.kind = "flush"
                /\ Idle.todo = <<>> /\ Idle.have = {}
<1>1. <<>> \in Seq(Delta) BY EmptySeq
<1> QED BY <1>1 DEF Idle, ProcState, Steps, Kinds, RootChanges

LEMMA StateInit == Init => StateOK
<1> SUFFICES ASSUME Init PROVE StateOK OBVIOUS
<1>1. \A p \in Procs : procs[p] = Idle BY DEF Init
<1>2. \A p \in Procs : CmdOK(procs[p]) /\ procs[p].kind # "create" BY <1>1, IdleIs DEF CmdOK
<1>3. procs \in [Procs -> ProcState] BY IdleIs DEF Init
<1>4. <<>> \in Seq(Delta) BY EmptySeq
<1>5. /\ root \in Ids \cup {None} /\ confirmed \in BOOLEAN /\ (confirmed => root # None)
      /\ minted \subseteq Ids /\ shown \subseteq minted /\ words \in shown \cup {None}
      /\ pending \in Seq(Delta) /\ closure \subseteq Delta /\ offer \in Devs \cup {None}
      /\ resolver \subseteq Delta
  BY <1>4 DEF Init
<1>6. DOMAIN basis \subseteq Ids \X Devs /\ basis \in [DOMAIN basis -> SUBSET Delta] BY DEF Init
<1>7. /\ slots \in [Devs -> [offer : {"empty", "full", "read"}, bundle : {"empty", "full", "read"}]]
      /\ bundle \in [Devs -> (Ids \X Ids) \cup {None}]
      /\ client \in [Devs -> {"new", "waiting", "linked", "unlinked", "failed"}]
      /\ joined \in [Devs -> (Ids \X Ids) \cup {None}] /\ expired \subseteq Devs /\ intact \in BOOLEAN
  BY DEF Init
<1>8. root \in minted \cup {None} BY DEF Init
<1> QED BY <1>2, <1>3, <1>5, <1>6, <1>7, <1>8 DEF StateOK, TypeOK, Commands

(* One command moves on, and the drawn identities stay drawn. *)
LEMMA CommandMoves ==
  ASSUME NEW ps, NEW drawn, Commands(ps, drawn), NEW more, drawn \subseteq more,
         NEW p \in Procs, NEW c \in ProcState, CmdOK(c), c.kind = "create" => c.did \in more
  PROVE  Commands([ps EXCEPT ![p] = c], more)
BY Updated DEF Commands

LEMMA CommandsNow == ASSUME StateOK PROVE Commands(procs, minted)
BY DEF StateOK

(* A command that ends, that begins, and that goes to its next step. *)
LEMMA CommandEnds ==
  ASSUME StateOK, NEW p \in Procs, End(p), UNCHANGED minted
  PROVE  Commands(procs', minted')
<1>1. CmdOK(Idle) /\ Idle.kind # "create" BY IdleIs DEF CmdOK
<1> QED BY <1>1, IdleIs, CommandsNow, CommandMoves DEF End

LEMMA CommandFlushes ==
  ASSUME StateOK, NEW p \in Procs, ThenFlush(p), UNCHANGED minted
  PROVE  Commands(procs', minted')
<1> DEFINE c == [Idle EXCEPT !.pc = "flush"]
<1>1. c \in ProcState /\ c.pc = "flush" /\ c.kind = "flush" BY IdleIs DEF ProcState, Steps
<1>2. CmdOK(c) BY <1>1 DEF CmdOK
<1>3. procs' = [procs EXCEPT ![p] = c] BY DEF ThenFlush
<1> HIDE DEF c
<1> QED BY <1>1, <1>2, <1>3, CommandsNow, CommandMoves

LEMMA CommandStarts ==
  ASSUME StateOK, NEW p \in Procs, NEW kind \in Kinds, NEW step \in Steps,
         NEW i \in Ids \cup {None}, NEW d \in Devs \cup {None}, Start(p, kind, step, i, d),
         step \in {"open", "sign"} => d \in Devs,
         step \in {"fetch", "sign"} => i \in Ids,
         step \notin {"put", "record", "revoke", "publish", "ack"},
         minted \subseteq minted', kind = "create" => i \in minted'
  PROVE  Commands(procs', minted')
<1> DEFINE c == [Idle EXCEPT !.pc = step, !.kind = kind, !.did = i, !.dev = d]
<1>1. /\ c \in ProcState /\ c.pc = step /\ c.kind = kind /\ c.did = i /\ c.dev = d
  BY IdleIs DEF ProcState
<1>2. CmdOK(c) BY <1>1 DEF CmdOK
<1>3. procs' = [procs EXCEPT ![p] = c] BY DEF Start
<1> HIDE DEF c
<1> QED BY <1>1, <1>2, <1>3, CommandsNow, CommandMoves

LEMMA CommandGoesOn ==
  ASSUME StateOK, NEW p \in Procs, NEW step \in Steps, GoTo(p, step), UNCHANGED minted,
         step \notin {"open", "sign", "revoke", "fetch", "publish", "ack"},
         step \in {"put", "record"} => procs[p].pc = "put"
  PROVE  Commands(procs', minted')
<1> DEFINE c == [procs[p] EXCEPT !.pc = step]
<1>1. Commands(procs, minted) BY CommandsNow
<1>2. /\ c \in ProcState /\ c.pc = step /\ c.kind = procs[p].kind /\ c.did = procs[p].did
      /\ c.dev = procs[p].dev /\ c.signer = procs[p].signer
  BY <1>1 DEF Commands, ProcState
<1>3. CmdOK(c) /\ (c.kind = "create" => c.did \in minted) BY <1>1, <1>2 DEF CmdOK, Commands
<1>4. procs' = [procs EXCEPT ![p] = c] BY DEF GoTo
<1> HIDE DEF c
<1> QED BY <1>1, <1>2, <1>3, <1>4, CommandMoves

(* Types are kept by the commands that begin. *)
LEMMA StateBegin == ASSUME StateOK, NEW p \in Procs, Begin(p) PROVE StateOK'
<1> USE DEF Kinds, RootChanges, Steps
<1>1. ASSUME NEW i \in Ids, CreateRoot(p, i) PROVE StateOK'
  <2>1. Commands(procs', minted') BY <1>1, CommandStarts DEF CreateRoot
  <2> QED BY <1>1, <2>1 DEF CreateRoot, StateOK, TypeOK, Commands, session, service, device
<1>2. ASSUME NEW i \in Ids, RestoreRoot(p, i) PROVE StateOK'
  <2>1. Commands(procs', minted') BY <1>2, CommandStarts DEF RestoreRoot
  <2> QED BY <1>2, <2>1, SetsAssumption DEF RestoreRoot, StateOK, TypeOK, Commands, session, service, device
<1>3. ASSUME NEW d \in Devs, ReadCode(p, d) PROVE StateOK'
  <2>1. CASE UNCHANGED procs BY <1>3, <2>1 DEF ReadCode, StateOK, TypeOK, Commands, custody, session, device
  <2>2. CASE Start(p, "read", "open", None, d)
    <3>1. Commands(procs', minted') BY <1>3, <2>2, CommandStarts DEF ReadCode, custody
    <3> QED BY <1>3, <3>1 DEF ReadCode, StateOK, TypeOK, Commands, custody, session, device
  <2> QED BY <1>3, <2>1, <2>2 DEF ReadCode
<1>4. ASSUME NEW d \in Devs, UnlinkStart(p, d) PROVE StateOK'
  <2> DEFINE c == [Idle EXCEPT !.pc = "revoke", !.kind = "unlink", !.did = root, !.dev = d,
                               !.have = Frontier(AllDeltas)]
  <2>1. AllDeltas \subseteq Delta BY ElemsOf DEF AllDeltas, StateOK, TypeOK
  <2>2. Frontier(AllDeltas) \subseteq Delta BY <2>1 DEF Frontier
  <2>3. root \in Ids BY <1>4 DEF UnlinkStart, BackupConfirmed, StateOK, TypeOK
  <2>4. c \in ProcState /\ c.pc = "revoke" /\ c.kind = "unlink" /\ c.did = root /\ c.dev = d
    BY <2>2, <2>3, IdleIs DEF ProcState
  <2>5. CmdOK(c) BY <2>3, <2>4 DEF CmdOK
  <2>6. procs' = [procs EXCEPT ![p] = c] BY <1>4 DEF UnlinkStart
  <2> HIDE DEF c
  <2>7. minted' = minted BY <1>4 DEF UnlinkStart, custody
  <2>8. Commands(procs', minted') BY <2>4, <2>5, <2>6, <2>7, CommandsNow, CommandMoves
  <2> QED BY <1>4, <2>8 DEF UnlinkStart, StateOK, TypeOK, Commands, custody, session, service, device
<1>5. ASSUME ForgetRoot(p) PROVE StateOK'
  <2>1. Commands(procs', minted') BY <1>5, CommandStarts DEF ForgetRoot
  <2> QED BY <1>5, <2>1 DEF ForgetRoot, StateOK, TypeOK, Commands, session, service, device
<1>6. ASSUME Authorise(p) PROVE StateOK'
  <2>1. root \in Ids /\ offer \in Devs BY <1>6 DEF Authorise, BackupConfirmed, StateOK, TypeOK
  <2>2. Commands(procs', minted') BY <1>6, <2>1, CommandStarts DEF Authorise, custody
  <2> QED BY <1>6, <2>2 DEF Authorise, StateOK, TypeOK, Commands, custody, session, service, device
<1>7. ASSUME Flush(p) PROVE StateOK'
  <2>1. Commands(procs', minted') BY <1>7, CommandStarts DEF Flush, custody
  <2> QED BY <1>7, <2>1 DEF Flush, StateOK, TypeOK, Commands, custody, session, service, device
<1> QED BY <1>1, <1>2, <1>3, <1>4, <1>5, <1>6, <1>7 DEF Begin

(* Types are kept by a command that goes on. *)
LEMMA StateRecords ==
  ASSUME StateOK, NEW p \in Procs,
         \/ RecordGenesis(p) \/ FetchClosure(p) \/ AdoptClosure(p) \/ ClearSession(p) \/ HoldOffer(p)
         \/ SignLink(p) \/ PutBundle(p) \/ RecordLink(p) \/ RecordRevoke(p) \/ Refused(p)
  PROVE  StateOK'
<1> USE DEF Kinds, RootChanges, Steps
<1>0. procs[p] \in ProcState /\ CmdOK(procs[p]) /\ (procs[p].kind = "create" => procs[p].did \in minted)
  BY DEF StateOK, Commands
<1>1. ASSUME RecordGenesis(p) PROVE StateOK'
  <2>1. Commands(procs', minted') BY <1>1, CommandGoesOn DEF RecordGenesis, custody
  <2>2. <<Genesis(root), Profile(root)>> \in Seq(Delta) BY <1>1, DeltasAre DEF RecordGenesis, StateOK, TypeOK
  <2>3. pending' \in Seq(Delta) BY <1>1, <2>2, ElemsOfConcat DEF RecordGenesis, StateOK, TypeOK
  <2> QED BY <1>1, <2>1, <2>3 DEF RecordGenesis, StateOK, TypeOK, Commands, custody, service, device
<1>2. ASSUME FetchClosure(p) PROVE StateOK'
  <2> DEFINE c == [procs[p] EXCEPT !.pc = "adopt", !.have = {x \in resolver : x.id = procs[p].did}]
  <2>1. {x \in resolver : x.id = procs[p].did} \subseteq Delta BY DEF StateOK, TypeOK
  <2>2. c \in ProcState /\ c.pc = "adopt" /\ c.kind = procs[p].kind /\ c.did = procs[p].did
    BY <1>0, <2>1 DEF ProcState
  <2>3. CmdOK(c) BY <2>2 DEF CmdOK
  <2>4. procs' = [procs EXCEPT ![p] = c] BY <1>2 DEF FetchClosure
  <2> HIDE DEF c
  <2>5. minted' = minted BY <1>2 DEF FetchClosure, custody
  <2>6. Commands(procs', minted') BY <1>0, <2>2, <2>3, <2>4, <2>5, CommandsNow, CommandMoves
  <2> QED BY <1>2, <2>6 DEF FetchClosure, StateOK, TypeOK, Commands, custody, session, service, device
<1>3. ASSUME AdoptClosure(p) PROVE StateOK'
  <2>1. Commands(procs', minted') BY <1>3, CommandEnds DEF AdoptClosure, custody
  <2>2. pending' \in Seq(Delta) BY <1>3, RetainedIs DEF AdoptClosure, StateOK, TypeOK
  <2>3. closure' \subseteq Delta BY <1>0, <1>3 DEF AdoptClosure, ProcState
  <2> QED BY <1>3, <2>1, <2>2, <2>3 DEF AdoptClosure, StateOK, TypeOK, Commands, custody, service, device
<1>4. ASSUME ClearSession(p) PROVE StateOK'
  <2>1. Commands(procs', minted') BY <1>4, CommandEnds DEF ClearSession, custody
  <2>2. <<>> \in Seq(Delta) BY EmptySeq
  <2> QED BY <1>4, <2>1, <2>2 DEF ClearSession, StateOK, TypeOK, Commands, custody, service, device
<1>5. ASSUME HoldOffer(p) PROVE StateOK'
  <2>1. Commands(procs', minted') BY <1>5, CommandEnds DEF HoldOffer, custody
  <2>2. offer' \in Devs BY <1>0, <1>5 DEF HoldOffer, CmdOK
  <2> QED BY <1>5, <2>1, <2>2 DEF HoldOffer, StateOK, TypeOK, Commands, custody, service, device
<1>6. ASSUME SignLink(p) PROVE StateOK'
  <2> DEFINE c == [procs[p] EXCEPT !.pc = "put", !.signer = root]
  <2>1. root \in Ids BY <1>6 DEF SignLink, StateOK, TypeOK
  <2>2. /\ c \in ProcState /\ c.pc = "put" /\ c.kind = procs[p].kind /\ c.did = procs[p].did
        /\ c.dev = procs[p].dev /\ c.signer = root
    BY <1>0, <2>1 DEF ProcState
  <2>3. CmdOK(c) BY <1>0, <1>6, <2>1, <2>2 DEF CmdOK, SignLink
  <2>4. procs' = [procs EXCEPT ![p] = c] BY <1>6 DEF SignLink
  <2> HIDE DEF c
  <2>5. minted' = minted BY <1>6 DEF SignLink, custody
  <2>6. Commands(procs', minted') BY <1>0, <2>2, <2>3, <2>4, <2>5, CommandsNow, CommandMoves
  <2> QED BY <1>6, <2>6 DEF SignLink, StateOK, TypeOK, Commands, custody, session, service, device
<1>7. ASSUME PutBundle(p) PROVE StateOK'
  <2>1. Commands(procs', minted')
    <3>1. CASE GoTo(p, "record") BY <1>7, <3>1, CommandGoesOn DEF PutBundle, custody
    <3>2. CASE End(p) BY <1>7, <3>2, CommandEnds DEF PutBundle, custody
    <3> QED BY <1>7, <3>1, <3>2 DEF PutBundle
  <2>2. procs[p].dev \in Devs /\ procs[p].did \in Ids /\ procs[p].signer \in Ids
    BY <1>0, <1>7 DEF PutBundle, CmdOK
  <2>3. bundle' \in [Devs -> (Ids \X Ids) \cup {None}] BY <1>7, <2>2 DEF PutBundle, StateOK, TypeOK
  <2>4. slots' \in [Devs -> [offer : {"empty", "full", "read"}, bundle : {"empty", "full", "read"}]]
    BY <1>7, <2>2 DEF PutBundle, StateOK, TypeOK
  <2> QED BY <1>7, <2>1, <2>3, <2>4 DEF PutBundle, StateOK, TypeOK, Commands, custody, session, device
<1>8. ASSUME RecordLink(p) PROVE StateOK'
  <2>1. Commands(procs', minted') BY <1>8, CommandFlushes DEF RecordLink, custody
  <2>2. procs[p].dev \in Devs /\ procs[p].signer \in Ids BY <1>0, <1>8 DEF RecordLink, CmdOK
  <2>3. LinkDeltas(procs[p].signer, procs[p].dev) \in Seq(Delta) BY <2>2, DeltasAre DEF LinkDeltas
  <2>4. pending' \in Seq(Delta) BY <1>8, <2>3, ElemsOfConcat DEF RecordLink, StateOK, TypeOK
  <2> QED BY <1>8, <2>1, <2>4 DEF RecordLink, StateOK, TypeOK, Commands, custody, service, device
<1>9. ASSUME RecordRevoke(p) PROVE StateOK'
  <2> DEFINE x == Revoke(procs[p].did, procs[p].dev)
  <2>1. Commands(procs', minted') BY <1>9, CommandFlushes DEF RecordRevoke, custody
  <2>2. procs[p].dev \in Devs /\ procs[p].did \in Ids BY <1>0, <1>9 DEF RecordRevoke, CmdOK
  <2>3. x \in Delta /\ x.id \in Ids /\ x.dev \in Devs BY <2>2, DeltasAre
  <2> HIDE DEF x
  <2>4. pending' \in Seq(Delta) BY <1>9, <2>3, AppendProperties DEF RecordRevoke, StateOK, TypeOK, x
  <2>5. procs[p].have \subseteq Delta BY <1>0 DEF ProcState
  <2>6. DOMAIN basis' = DOMAIN basis \cup {<<x.id, x.dev>>} BY <1>9 DEF RecordRevoke, x
  <2>7. basis' \in [DOMAIN basis' -> SUBSET Delta] BY <1>9, <2>5 DEF RecordRevoke, StateOK, TypeOK
  <2> QED BY <1>9, <2>1, <2>3, <2>4, <2>6, <2>7 DEF RecordRevoke, StateOK, TypeOK, Commands, custody, service, device
<1>10. ASSUME Refused(p) PROVE StateOK'
  <2>1. Commands(procs', minted') BY <1>10, CommandEnds DEF Refused, custody
  <2> QED BY <1>10, <2>1 DEF Refused, StateOK, TypeOK, Commands, custody, session, service, device
<1> QED BY <1>1, <1>2, <1>3, <1>4, <1>5, <1>6, <1>7, <1>8, <1>9, <1>10

(* Types are kept by a flush. *)
LEMMA StatePublishes ==
  ASSUME StateOK, NEW p \in Procs,
         Snapshot(p) \/ Publish(p) \/ PublishUnanswered(p) \/ Ack(p) \/ Finish(p)
  PROVE  StateOK'
<1> USE DEF Kinds, RootChanges, Steps
<1>0. procs[p] \in ProcState /\ CmdOK(procs[p]) /\ (procs[p].kind = "create" => procs[p].did \in minted)
  BY DEF StateOK, Commands
<1>1. ASSUME Snapshot(p) PROVE StateOK'
  <2>1. CASE root = None
    <3>1. Commands(procs', minted') BY <1>1, <2>1, CommandEnds DEF Snapshot, custody
    <3> QED BY <1>1, <3>1 DEF Snapshot, StateOK, TypeOK, Commands, custody, session, service, device
  <2>2. CASE root # None
    <3> DEFINE c == [procs[p] EXCEPT !.pc = "publish", !.did = root, !.todo = pending]
    <3>1. root \in Ids /\ root \in minted /\ pending \in Seq(Delta) BY <2>2 DEF StateOK, TypeOK
    <3>2. c \in ProcState /\ c.pc = "publish" /\ c.did = root BY <1>0, <3>1 DEF ProcState
    <3>3. CmdOK(c) BY <3>1, <3>2 DEF CmdOK
    <3>4. procs' = [procs EXCEPT ![p] = c] BY <1>1, <2>2 DEF Snapshot
    <3> HIDE DEF c
    <3>5. minted' = minted BY <1>1 DEF Snapshot, custody
    <3>6. Commands(procs', minted') BY <3>1, <3>2, <3>3, <3>4, <3>5, CommandsNow, CommandMoves
    <3> QED BY <1>1, <3>6 DEF Snapshot, StateOK, TypeOK, Commands, custody, session, service, device
  <2> QED BY <2>1, <2>2
<1>2. ASSUME NEW c \in ProcState, procs' = [procs EXCEPT ![p] = c], minted' = minted,
             c.kind = procs[p].kind, c.did = procs[p].did,
             c.pc \in {"publish", "ack"}, procs[p].pc \in {"publish", "ack"},
             c.pc = "ack" => c.todo # <<>>
      PROVE  Commands(procs', minted')
  <2>1. CmdOK(c) BY <1>0, <1>2 DEF CmdOK
  <2> QED BY <1>0, <1>2, <2>1, CommandsNow, CommandMoves
<1>3. ASSUME Publish(p) PROVE StateOK'
  <2>0. /\ procs[p].pc = "publish" /\ procs[p].todo # <<>> /\ minted' = minted
        /\ resolver' = Stored(Head(procs[p].todo), procs[p].did)
        /\ \/ procs' = [procs EXCEPT ![p].pc = "ack"] \/ procs' = [procs EXCEPT ![p].todo = <<>>]
    BY <1>3 DEF Publish, custody
  <2>1. <<>> \in Seq(Delta) BY EmptySeq
  <2>2. Commands(procs', minted')
    <3> DEFINE c == [procs[p] EXCEPT !.pc = "ack"]  e == [procs[p] EXCEPT !.todo = <<>>]
    <3>1. c \in ProcState /\ c.pc = "ack" /\ c.todo = procs[p].todo /\ c.kind = procs[p].kind /\ c.did = procs[p].did
      BY <1>0 DEF ProcState
    <3>2. e \in ProcState /\ e.pc = procs[p].pc /\ e.kind = procs[p].kind /\ e.did = procs[p].did
      BY <1>0, <2>1 DEF ProcState
    <3>3. procs' = [procs EXCEPT ![p] = c] \/ procs' = [procs EXCEPT ![p] = e] BY <2>0
    <3> HIDE DEF c, e
    <3> QED BY <1>2, <2>0, <3>1, <3>2, <3>3
  <2>3. resolver' \subseteq Delta
    <3>1. Head(procs[p].todo) \in Delta BY <1>0, <2>0, ElemsOf DEF ProcState
    <3> QED BY <2>0, <3>1 DEF Stored, StateOK, TypeOK
  <2> QED BY <1>3, <2>2, <2>3 DEF Publish, StateOK, TypeOK, Commands, custody, session, device
<1>4. ASSUME PublishUnanswered(p) PROVE StateOK'
  <2>0. /\ procs[p].pc = "publish" /\ procs[p].todo # <<>> /\ minted' = minted
        /\ resolver' \in {resolver, Stored(Head(procs[p].todo), procs[p].did)}
        /\ procs' = [procs EXCEPT ![p].todo = <<>>]
    BY <1>4 DEF PublishUnanswered, custody
  <2>1. <<>> \in Seq(Delta) BY EmptySeq
  <2>2. Commands(procs', minted')
    <3> DEFINE e == [procs[p] EXCEPT !.todo = <<>>]
    <3>1. e \in ProcState /\ e.pc = procs[p].pc /\ e.kind = procs[p].kind /\ e.did = procs[p].did
      BY <1>0, <2>1 DEF ProcState
    <3>2. procs' = [procs EXCEPT ![p] = e] BY <2>0
    <3> HIDE DEF e
    <3> QED BY <1>2, <2>0, <3>1, <3>2
  <2>3. resolver' \subseteq Delta
    <3>1. Head(procs[p].todo) \in Delta BY <1>0, <2>0, ElemsOf DEF ProcState
    <3> QED BY <2>0, <3>1 DEF Stored, StateOK, TypeOK
  <2> QED BY <1>4, <2>2, <2>3 DEF PublishUnanswered, StateOK, TypeOK, Commands, custody, session, device
<1>5. ASSUME Ack(p) PROVE StateOK'
  <2> DEFINE x == Head(procs[p].todo)  k == Position(x)
  <2>0. /\ procs[p].pc = "ack" /\ procs[p].todo # <<>> /\ minted' = minted
        /\ IF k = 0 THEN UNCHANGED <<pending, closure>>
           ELSE pending' = AfterRemoval(k) /\ closure' = closure \cup {x}
        /\ procs' = [procs EXCEPT ![p].pc = "publish", ![p].todo = Tail(@)]
    BY <1>0, <1>5 DEF Ack, custody, CmdOK
  <2>1. x \in Delta /\ Tail(procs[p].todo) \in Seq(Delta) BY <1>0, <2>0, ElemsOf DEF ProcState
  <2>2. Commands(procs', minted')
    <3> DEFINE e == [procs[p] EXCEPT !.pc = "publish", !.todo = Tail(procs[p].todo)]
    <3>1. e \in ProcState /\ e.pc = "publish" /\ e.kind = procs[p].kind /\ e.did = procs[p].did
      BY <1>0, <2>1 DEF ProcState
    <3>2. procs' = [procs EXCEPT ![p] = e] BY <2>0
    <3> HIDE DEF e
    <3> QED BY <1>2, <2>0, <3>1, <3>2
  <2>3. pending' \in Seq(Delta) /\ closure' \subseteq Delta
    <3> HIDE DEF k
    <3>1. CASE k = 0 BY <2>0, <3>1 DEF StateOK, TypeOK
    <3>2. CASE k # 0
      <4>0. pending \in Seq(Delta) BY DEF StateOK, TypeOK
      <4>1. k \in 1..Len(pending) BY <3>2, <4>0, Placed DEF k
      <4>2. AfterRemoval(k) \in Seq(Delta) BY <4>0, <4>1, RemovalOf
      <4> QED BY <2>0, <2>1, <3>2, <4>2 DEF StateOK, TypeOK
    <3> QED BY <3>1, <3>2
  <2> QED BY <1>5, <2>2, <2>3 DEF Ack, StateOK, TypeOK, Commands, custody, service, device
<1>6. ASSUME Finish(p) PROVE StateOK'
  <2>1. Commands(procs', minted') BY <1>6, CommandEnds DEF Finish
  <2>2. procs[p].kind = "create" => procs[p].did \in minted BY <1>0
  <2> QED BY <1>6, <2>1, <2>2 DEF Finish, StateOK, TypeOK, Commands, session, service, device
<1> QED BY <1>1, <1>3, <1>4, <1>5, <1>6

(* Types are kept by the device client and the passing of time. *)
LEMMA StateDevice == ASSUME StateOK, NEW d \in Devs, Device(d) PROVE StateOK'
<1> USE DEF StateOK, TypeOK, Commands, custody, session, service, device
<1>1. CASE ShowCode(d) BY <1>1 DEF ShowCode
<1>2. CASE PollBundle(d)
  <2>1. slots' \in [Devs -> [offer : {"empty", "full", "read"}, bundle : {"empty", "full", "read"}]]
    BY <1>2 DEF PollBundle
  <2>2. client' \in [Devs -> {"new", "waiting", "linked", "unlinked", "failed"}]
    BY <1>2 DEF PollBundle, SaveIdentity
  <2>3. joined' \in [Devs -> (Ids \X Ids) \cup {None}] BY <1>2 DEF PollBundle, SaveIdentity
  <2> QED BY <1>2, <2>1, <2>2, <2>3 DEF PollBundle
<1>3. CASE GiveUp(d) BY <1>3 DEF GiveUp
<1>4. CASE ForgetIdentity(d) BY <1>4 DEF ForgetIdentity
<1>5. CASE Expire(d) BY <1>5 DEF Expire
<1>6. CASE Sweep(d) BY <1>6 DEF Sweep
<1> QED BY <1>1, <1>2, <1>3, <1>4, <1>5, <1>6 DEF Device

(* Types are kept when the application or the service stops. *)
LEMMA StateStops ==
  ASSUME StateOK, ConfirmBackup \/ RejectOffer \/ Restart \/ NewPhone \/ ServiceRestart
  PROVE  StateOK'
<1>1. Commands([p \in Procs |-> Idle], minted) BY IdleIs DEF Commands, CmdOK
<1>2. <<>> \in Seq(Delta) BY EmptySeq
<1> USE DEF StateOK, TypeOK, custody, session, service, device
<1>3. CASE ConfirmBackup BY <1>3 DEF ConfirmBackup, Commands
<1>4. CASE RejectOffer BY <1>4 DEF RejectOffer, Commands
<1>5. CASE Restart BY <1>1, <1>5 DEF Restart, Commands
<1>6. CASE NewPhone BY <1>1, <1>2, <1>6 DEF NewPhone, Commands
<1>7. CASE ServiceRestart BY <1>7 DEF ServiceRestart, Commands
<1> QED BY <1>3, <1>4, <1>5, <1>6, <1>7

LEMMA StateStep == StateOK /\ [Next]_vars => StateOK'
<1> SUFFICES ASSUME StateOK, [Next]_vars PROVE StateOK' OBVIOUS
<1>1. CASE UNCHANGED vars
  BY <1>1 DEF StateOK, TypeOK, Commands, vars, custody, session, service, device
<1>2. CASE Next BY <1>2, StateBegin, StateRecords, StatePublishes, StateDevice, StateStops DEF Next, Continue
<1> QED BY <1>1, <1>2

(* Custody, session, slots and clients keep their types; a confirmed backup  *)
(* is of a stored root, and the page shows only words that were drawn.       *)
THEOREM TypesKept == Spec => []TypeOK
<1>1. Spec => []StateOK BY StateInit, StateStep, PTL DEF Spec
<1>2. StateOK => TypeOK BY DEF StateOK
<1> QED BY <1>1, <1>2, PTL

-----------------------------------------------------------------------------
(* What a step does to the running commands *)

Others(p) == \A q \in Procs : q # p => procs'[q] = procs[q]

LEMMA StartIs ==
  ASSUME StateOK, NEW p \in Procs, NEW kind, NEW step, NEW i, NEW d, Start(p, kind, step, i, d)
  PROVE  /\ Others(p) /\ procs[p].pc = "idle"
         /\ procs'[p].pc = step /\ procs'[p].kind = kind /\ procs'[p].did = i /\ procs'[p].dev = d
         /\ procs'[p].todo = <<>> /\ procs'[p].have = {}
BY DEF StateOK, Commands, Start, Others, Idle

LEMMA EndIs ==
  ASSUME StateOK, NEW p \in Procs, End(p)
  PROVE  Others(p) /\ procs'[p] = Idle
BY DEF StateOK, Commands, End, Others

LEMMA ThenFlushIs ==
  ASSUME StateOK, NEW p \in Procs, ThenFlush(p)
  PROVE  /\ Others(p) /\ procs'[p].pc = "flush" /\ procs'[p].kind = "flush"
         /\ procs'[p].todo = <<>> /\ procs'[p].have = {}
BY DEF StateOK, Commands, ThenFlush, Others, Idle

LEMMA GoToIs ==
  ASSUME StateOK, NEW p \in Procs, NEW step, GoTo(p, step)
  PROVE  /\ Others(p) /\ procs'[p].pc = step /\ procs'[p].kind = procs[p].kind
         /\ procs'[p].did = procs[p].did /\ procs'[p].dev = procs[p].dev
         /\ procs'[p].signer = procs[p].signer
         /\ procs'[p].todo = procs[p].todo /\ procs'[p].have = procs[p].have
BY DEF StateOK, Commands, GoTo, Others, ProcState

(* An unlink begins with the frontier of what the wallet knows. *)
LEMMA UnlinkIs ==
  ASSUME StateOK, NEW p \in Procs, NEW d, UnlinkStart(p, d)
  PROVE  /\ Others(p) /\ procs[p].pc = "idle"
         /\ procs'[p].pc = "revoke" /\ procs'[p].kind = "unlink" /\ procs'[p].did = root
         /\ procs'[p].dev = d /\ procs'[p].todo = <<>> /\ procs'[p].have \subseteq AllDeltas
         /\ root # None /\ \A x \in AllDeltas : x.id = root
         /\ Genesis(root) \in AllDeltas
<1>1. root # None BY DEF UnlinkStart, BackupConfirmed, StateOK, TypeOK
<1>2. HasDocument(root) BY <1>1 DEF UnlinkStart, ListedDevices
<1>3. /\ Others(p) /\ procs[p].pc = "idle"
      /\ procs'[p].pc = "revoke" /\ procs'[p].kind = "unlink" /\ procs'[p].did = root
      /\ procs'[p].dev = d /\ procs'[p].todo = <<>> /\ procs'[p].have = Frontier(AllDeltas)
  <2> HIDE DEF Frontier
  <2> QED BY DEF UnlinkStart, StateOK, Commands, Others, Idle
<1> QED BY <1>1, <1>2, <1>3 DEF HasDocument, Resolves, Frontier

(* A flush takes its snapshot of the queue, or finds no identity. *)
LEMMA SnapshotIs ==
  ASSUME StateOK, NEW p \in Procs, Snapshot(p)
  PROVE  /\ Others(p) /\ procs[p].pc = "flush"
         /\ \/ root = None /\ procs'[p] = Idle
            \/ /\ root # None /\ procs'[p].pc = "publish" /\ procs'[p].did = root
               /\ procs'[p].todo = pending /\ procs'[p].have = procs[p].have
               /\ procs'[p].kind = procs[p].kind
BY DEF StateOK, Commands, Snapshot, End, Others, ProcState

LEMMA FetchIs ==
  ASSUME StateOK, NEW p \in Procs, FetchClosure(p)
  PROVE  /\ Others(p) /\ procs'[p].pc = "adopt" /\ procs'[p].todo = procs[p].todo
         /\ procs'[p].have = {x \in resolver : x.id = procs[p].did}
BY DEF StateOK, Commands, FetchClosure, Others, ProcState

LEMMA SignIs ==
  ASSUME StateOK, NEW p \in Procs, SignLink(p)
  PROVE  /\ Others(p) /\ procs'[p].pc = "put" /\ procs'[p].signer = root
         /\ procs'[p].kind = procs[p].kind /\ procs'[p].did = procs[p].did
         /\ procs'[p].todo = procs[p].todo /\ procs'[p].have = procs[p].have
BY DEF StateOK, Commands, SignLink, Others, ProcState

(* A POST that is answered, and one that is not. *)
LEMMA PublishIs ==
  ASSUME StateOK, NEW p \in Procs, Publish(p) \/ PublishUnanswered(p)
  PROVE  LET x == Head(procs[p].todo) IN
         /\ Others(p) /\ procs[p].pc = "publish" /\ procs[p].todo # <<>>
         /\ x \in Delta /\ x \in Elems(procs[p].todo)
         /\ resolver' \in {resolver, Stored(x, procs[p].did)}
         /\ procs'[p].kind = procs[p].kind /\ procs'[p].did = procs[p].did
         /\ procs'[p].have = procs[p].have
         /\ \/ procs'[p].pc = "publish" /\ procs'[p].todo = <<>>
            \/ /\ procs'[p].pc = "ack" /\ procs'[p].todo = procs[p].todo
               /\ resolver' = Stored(x, procs[p].did) /\ Acknowledges(Status(x, procs[p].did))
<1>1. procs[p] \in ProcState BY DEF StateOK, Commands
<1>2. procs[p].todo # <<>> => Head(procs[p].todo) \in Delta /\ Head(procs[p].todo) \in Elems(procs[p].todo)
  BY <1>1, ElemsOf DEF ProcState
<1>3. CASE Publish(p)
  BY <1>1, <1>2, <1>3 DEF Publish, StateOK, Commands, Others, ProcState
<1>4. CASE PublishUnanswered(p)
  BY <1>1, <1>2, <1>4 DEF PublishUnanswered, StateOK, Commands, Others, ProcState
<1> QED BY <1>3, <1>4

(* An acknowledgement. *)
LEMMA AckIs ==
  ASSUME StateOK, NEW p \in Procs, Ack(p)
  PROVE  LET x == Head(procs[p].todo) IN
         /\ Others(p) /\ procs[p].pc = "ack" /\ procs[p].todo # <<>>
         /\ x \in Delta /\ x \in Elems(procs[p].todo)
         /\ procs'[p].pc = "publish" /\ procs'[p].todo = Tail(procs[p].todo)
         /\ procs'[p].kind = procs[p].kind /\ procs'[p].did = procs[p].did
         /\ procs'[p].have = procs[p].have
         /\ Elems(procs'[p].todo) \subseteq Elems(procs[p].todo)
         /\ \/ pending' = pending /\ closure' = closure
            \/ /\ Position(x) \in 1..Len(pending) /\ pending[Position(x)] = x
               /\ pending' = AfterRemoval(Position(x)) /\ closure' = closure \cup {x}
               /\ Elems(pending) \subseteq Elems(pending') \cup {x}
               /\ Elems(pending') \subseteq Elems(pending)
<1> DEFINE x == Head(procs[p].todo)
<1>1. procs[p] \in ProcState /\ procs[p].pc = "ack" /\ procs[p].todo # <<>>
  BY DEF StateOK, Commands, Ack, CmdOK
<1>2. /\ x \in Delta /\ x \in Elems(procs[p].todo)
      /\ Elems(Tail(procs[p].todo)) \subseteq Elems(procs[p].todo)
  BY <1>1, ElemsOf DEF ProcState
<1>3. /\ Others(p) /\ procs'[p].pc = "publish" /\ procs'[p].todo = Tail(procs[p].todo)
      /\ procs'[p].kind = procs[p].kind /\ procs'[p].did = procs[p].did
      /\ procs'[p].have = procs[p].have
  BY DEF Ack, StateOK, Commands, Others, ProcState
<1>4. pending \in Seq(Delta) BY DEF StateOK, TypeOK
<1>5. IF Position(x) = 0 THEN UNCHANGED <<pending, closure>>
      ELSE pending' = AfterRemoval(Position(x)) /\ closure' = closure \cup {x}
  BY DEF Ack
<1> HIDE DEF x
<1>6. CASE Position(x) = 0 BY <1>1, <1>2, <1>3, <1>5, <1>6 DEF x
<1>7. CASE Position(x) # 0
  <2>1. Position(x) \in 1..Len(pending) /\ pending[Position(x)] = x BY <1>4, <1>7, Placed
  <2>2. /\ Elems(pending) \subseteq Elems(AfterRemoval(Position(x))) \cup {x}
        /\ Elems(AfterRemoval(Position(x))) \subseteq Elems(pending)
    BY <1>4, <2>1, RemovalOf
  <2>3. pending' = AfterRemoval(Position(x)) /\ closure' = closure \cup {x} BY <1>5, <1>7
  <2> QED BY <1>1, <1>2, <1>3, <2>1, <2>2, <2>3 DEF x
<1> QED BY <1>6, <1>7

-----------------------------------------------------------------------------
(* What the resolver serves *)

\* Revocations stay signed as they are.
BasisKept == \A y \in DOMAIN basis : y \in DOMAIN basis' /\ basis'[y] = basis[y]

LEMMA KnownAre == ASSUME StateOK PROVE Known \subseteq Delta
<1>1. \A p \in Procs : procs[p] \in ProcState BY DEF StateOK, Commands
<1>2. \A p \in Procs : HeldBy(procs[p]) \subseteq Delta BY <1>1, ElemsOf DEF HeldBy, ProcState
<1>3. AllDeltas \subseteq Delta BY ElemsOf DEF AllDeltas, StateOK, TypeOK
<1>4. resolver \subseteq Delta BY DEF StateOK, TypeOK
<1> QED BY <1>2, <1>3, <1>4 DEF Known

LEMMA ParentsKept ==
  ASSUME BasisKept, NEW x \in Delta, SignedDelta(x)
  PROVE  Parents(x)' = Parents(x)
<1>1. x.op \in {"genesis", "profile", "add", "label", "revoke"} BY DeltasAre
<1>2. CASE x.op = "revoke" BY <1>2 DEF Parents, BasisKept, SignedDelta
<1>3. CASE x.op # "revoke" BY <1>1, <1>3 DEF Parents
<1> QED BY <1>2, <1>3

(* What is new at one command was known, or is signed by now. *)
LEMMA ServedOn ==
  ASSUME StateOK, ServedOK, BasisKept, NEW p \in Procs, Others(p),
         \A x \in resolver' \cup AllDeltas' \cup HeldBy(procs'[p]) : x \in Known \/ SignedDelta(x)',
         \A y \in DOMAIN basis' : y \in DOMAIN basis \/ \A x \in basis'[y] : x.id = y[1],
         procs'[p].pc = "revoke" => \A x \in procs'[p].have : x.id = procs'[p].did,
         \A x \in resolver' : \/ x \in resolver /\ resolver \subseteq resolver'
                              \/ x \in Known /\ Parents(x) \subseteq resolver' /\ Genesis(x.id) \in resolver'
  PROVE  ServedOK'
<1>1. \A x \in Known : SignedDelta(x) /\ SignedDelta(x)' BY DEF ServedOK, SignedDelta, BasisKept
<1>2. \A q \in Procs : q # p => HeldBy(procs'[q]) \subseteq Known BY DEF Others, Known
<1>3. \A x \in Known' : SignedDelta(x)' BY <1>1, <1>2 DEF Known
<1>4. \A y \in DOMAIN basis' : \A x \in basis'[y] : x.id = y[1] BY DEF ServedOK, BasisKept
<1>5. \A q \in Procs : procs'[q].pc = "revoke" => \A x \in procs'[q].have : x.id = procs'[q].did
  BY DEF ServedOK, Others
<1>6. \A x \in Known : Parents(x)' = Parents(x) BY <1>1, KnownAre, ParentsKept
<1>7. \A x \in resolver' : Parents(x)' \subseteq resolver' /\ Genesis(x.id) \in resolver'
  <2> SUFFICES ASSUME NEW x \in resolver' PROVE Parents(x)' \subseteq resolver' /\ Genesis(x.id) \in resolver'
    OBVIOUS
  <2>1. CASE x \in resolver /\ resolver \subseteq resolver'
    <3>1. x \in Known BY <2>1 DEF Known
    <3>2. Parents(x) \subseteq resolver /\ Genesis(x.id) \in resolver BY <2>1 DEF ServedOK
    <3> QED BY <2>1, <3>1, <3>2, <1>6
  <2>2. CASE x \in Known /\ Parents(x) \subseteq resolver' /\ Genesis(x.id) \in resolver'
    BY <2>2, <1>6
  <2> QED BY <2>1, <2>2
<1> QED BY <1>3, <1>4, <1>5, <1>7 DEF ServedOK

(* A command that neither signs a revocation nor reaches the resolver. *)
LEMMA ServedApart ==
  ASSUME StateOK, ServedOK, NEW p \in Procs, Others(p), UNCHANGED <<resolver, basis>>,
         \A x \in AllDeltas' \cup HeldBy(procs'[p]) : x \in Known \/ x.op # "revoke",
         procs'[p].pc = "revoke" => \A x \in procs'[p].have : x.id = procs'[p].did
  PROVE  ServedOK'
<1>1. BasisKept BY DEF BasisKept
<1>2. \A x \in resolver' \cup AllDeltas' \cup HeldBy(procs'[p]) : x \in Known \/ SignedDelta(x)'
  BY DEF Known, SignedDelta
<1> QED BY <1>1, <1>2, ServedOn

(* A command that holds nothing now, and records nothing. *)
LEMMA ServedEmpty ==
  ASSUME StateOK, ServedOK, NEW p \in Procs, Others(p), UNCHANGED <<resolver, basis>>,
         AllDeltas' \subseteq AllDeltas, procs'[p].todo = <<>>, procs'[p].have = {}
  PROVE  ServedOK'
<1>1. HeldBy(procs'[p]) = {} BY DEF HeldBy, Elems
<1> QED BY <1>1, ServedApart DEF Known

(* A step of nobody's command that records nothing. *)
LEMMA ServedIdle ==
  ASSUME ServedOK, UNCHANGED <<resolver, basis, procs>>, AllDeltas' \subseteq AllDeltas
  PROVE  ServedOK'
<1>1. Known' \subseteq Known BY DEF Known, HeldBy, Elems
<1>2. \A x : SignedDelta(x)' = SignedDelta(x) BY DEF SignedDelta
<1>3. \A x : Parents(x)' = Parents(x) BY DEF Parents
<1> QED BY <1>1, <1>2, <1>3 DEF ServedOK

LEMMA IdleHolds == Idle.todo = <<>> /\ Idle.have = {} /\ Idle.pc = "idle" BY IdleIs

LEMMA ServedBegin == ASSUME StateOK, ServedOK, NEW p \in Procs, Begin(p) PROVE ServedOK'
<1> USE DEF session, service
<1>1. ASSUME NEW i \in Ids, CreateRoot(p, i) PROVE ServedOK'
  BY <1>1, StartIs, ServedEmpty DEF CreateRoot, AllDeltas, Elems
<1>2. ASSUME NEW i \in Ids, RestoreRoot(p, i) PROVE ServedOK'
  BY <1>2, StartIs, ServedEmpty DEF RestoreRoot, AllDeltas, Elems
<1>3. ASSUME NEW d \in Devs, ReadCode(p, d) PROVE ServedOK'
  <2>1. UNCHANGED <<resolver, basis, pending, closure>> BY <1>3 DEF ReadCode
  <2>2. AllDeltas' = AllDeltas BY <2>1 DEF AllDeltas, Elems
  <2>3. CASE Start(p, "read", "open", None, d) BY <2>1, <2>2, <2>3, StartIs, ServedEmpty
  <2>4. CASE UNCHANGED procs BY <2>1, <2>2, <2>4, ServedIdle
  <2> QED BY <1>3, <2>3, <2>4 DEF ReadCode
<1>4. ASSUME NEW d \in Devs, UnlinkStart(p, d) PROVE ServedOK'
  <2>1. UNCHANGED <<resolver, basis, pending, closure>> BY <1>4 DEF UnlinkStart
  <2>2. AllDeltas' = AllDeltas BY <2>1 DEF AllDeltas, Elems
  <2>3. HeldBy(procs'[p]) \subseteq AllDeltas BY <1>4, UnlinkIs DEF HeldBy, Elems
  <2>4. \A x \in procs'[p].have : x.id = procs'[p].did BY <1>4, UnlinkIs
  <2>5. Others(p) BY <1>4, UnlinkIs
  <2> QED BY <2>1, <2>2, <2>3, <2>4, <2>5, ServedApart DEF Known
<1>5. ASSUME ForgetRoot(p) PROVE ServedOK'
  BY <1>5, StartIs, ServedEmpty DEF ForgetRoot, AllDeltas, Elems
<1>6. ASSUME Authorise(p) PROVE ServedOK'
  BY <1>6, StartIs, ServedEmpty DEF Authorise, AllDeltas, Elems
<1>7. ASSUME Flush(p) PROVE ServedOK'
  BY <1>7, StartIs, ServedEmpty DEF Flush, AllDeltas, Elems
<1> QED BY <1>1, <1>2, <1>3, <1>4, <1>5, <1>6, <1>7 DEF Begin

LEMMA ServedRecords ==
  ASSUME StateOK, ServedOK, NEW p \in Procs,
         \/ RecordGenesis(p) \/ FetchClosure(p) \/ AdoptClosure(p) \/ ClearSession(p) \/ HoldOffer(p)
         \/ SignLink(p) \/ PutBundle(p) \/ RecordLink(p) \/ Refused(p)
  PROVE  ServedOK'
<1> USE DEF session, service
<1>0. /\ HeldBy(procs[p]) \subseteq Known /\ AllDeltas \subseteq Known /\ CmdOK(procs[p])
      /\ pending \in Seq(Delta)
  BY DEF Known, StateOK, Commands, TypeOK
<1>1. ASSUME RecordGenesis(p) PROVE ServedOK'
  <2> DEFINE new == <<Genesis(root), Profile(root)>>
  <2>0. pending' = pending \o new BY <1>1 DEF RecordGenesis
  <2>1. new \in Seq(Delta) BY <1>1, DeltasAre DEF RecordGenesis, StateOK, TypeOK
  <2>2. Elems(new) = {Genesis(root), Profile(root)} BY DEF Elems
  <2> HIDE DEF new
  <2>3. Elems(pending') = Elems(pending) \cup {Genesis(root), Profile(root)}
    BY <1>0, <2>0, <2>1, <2>2, ElemsOfConcat
  <2>4. \A x \in AllDeltas' : x \in AllDeltas \/ x.op # "revoke"
    <3>1. closure' = closure /\ Genesis(root).op # "revoke" /\ Profile(root).op # "revoke"
      BY <1>1 DEF RecordGenesis, Genesis, Profile
    <3> QED BY <2>3, <3>1 DEF AllDeltas
  <2>5. HeldBy(procs'[p]) = HeldBy(procs[p]) /\ Others(p) /\ procs'[p].pc = "flush"
    BY <1>1, GoToIs DEF RecordGenesis, HeldBy
  <2> QED BY <1>0, <1>1, <2>4, <2>5, ServedApart DEF RecordGenesis
<1>2. ASSUME FetchClosure(p) PROVE ServedOK'
  <2>1. UNCHANGED <<resolver, basis, pending, closure>> BY <1>2 DEF FetchClosure
  <2>2. AllDeltas' = AllDeltas BY <2>1 DEF AllDeltas, Elems
  <2>3. HeldBy(procs'[p]) \subseteq Known BY <1>2, FetchIs DEF HeldBy, Known
  <2>4. Others(p) /\ procs'[p].pc = "adopt" BY <1>2, FetchIs
  <2> QED BY <1>0, <2>1, <2>2, <2>3, <2>4, ServedApart
<1>3. ASSUME AdoptClosure(p) PROVE ServedOK'
  <2>1. Elems(pending') \subseteq Elems(pending) BY <1>0, <1>3, RetainedIs DEF AdoptClosure
  <2>2. closure' \subseteq Known BY <1>0, <1>3 DEF AdoptClosure, HeldBy
  <2>3. AllDeltas' \subseteq Known BY <1>0, <2>1, <2>2 DEF AllDeltas
  <2>4. HeldBy(procs'[p]) = {} /\ Others(p) /\ procs'[p].pc = "idle"
    BY <1>3, EndIs, IdleHolds DEF AdoptClosure, HeldBy, Elems
  <2> QED BY <1>3, <2>3, <2>4, ServedApart DEF AdoptClosure
<1>4. ASSUME ClearSession(p) PROVE ServedOK'
  <2>1. AllDeltas' = {} BY <1>4 DEF ClearSession, AllDeltas, Elems
  <2> QED BY <1>4, <2>1, EndIs, IdleHolds, ServedEmpty DEF ClearSession
<1>5. ASSUME HoldOffer(p) PROVE ServedOK'
  BY <1>5, EndIs, IdleHolds, ServedEmpty DEF HoldOffer, AllDeltas, Elems
<1>6. ASSUME SignLink(p) PROVE ServedOK'
  <2>1. UNCHANGED <<resolver, basis, pending, closure>> BY <1>6 DEF SignLink
  <2>2. AllDeltas' = AllDeltas BY <2>1 DEF AllDeltas, Elems
  <2>3. HeldBy(procs'[p]) = HeldBy(procs[p]) /\ Others(p) /\ procs'[p].pc = "put"
    BY <1>6, SignIs DEF HeldBy
  <2> QED BY <1>0, <2>1, <2>2, <2>3, ServedApart
<1>7. ASSUME PutBundle(p) PROVE ServedOK'
  <2>1. UNCHANGED <<resolver, basis, pending, closure>> BY <1>7 DEF PutBundle
  <2>2. AllDeltas' = AllDeltas BY <2>1 DEF AllDeltas, Elems
  <2>3. CASE End(p) BY <2>1, <2>2, <2>3, EndIs, IdleHolds, ServedEmpty
  <2>4. CASE GoTo(p, "record")
    <3>1. HeldBy(procs'[p]) = HeldBy(procs[p]) /\ Others(p) /\ procs'[p].pc = "record"
      BY <2>4, GoToIs DEF HeldBy
    <3> QED BY <1>0, <2>1, <2>2, <3>1, ServedApart
  <2> QED BY <1>7, <2>3, <2>4 DEF PutBundle
<1>8. ASSUME RecordLink(p) PROVE ServedOK'
  <2> DEFINE i == procs[p].signer  d == procs[p].dev
  <2>1. i \in Ids /\ d \in Devs BY <1>0, <1>8 DEF RecordLink, CmdOK
  <2>2. LinkDeltas(i, d) \in Seq(Delta) BY <2>1, DeltasAre DEF LinkDeltas
  <2>3. Elems(LinkDeltas(i, d)) = {Add(i, d), Label(i, d)} BY DEF Elems, LinkDeltas
  <2>4. Elems(pending') = Elems(pending) \cup {Add(i, d), Label(i, d)}
    BY <1>0, <1>8, <2>2, <2>3, ElemsOfConcat DEF RecordLink
  <2>5. \A x \in AllDeltas' : x \in AllDeltas \/ x.op # "revoke"
    BY <1>8, <2>4 DEF RecordLink, AllDeltas, Add, Label
  <2>6. HeldBy(procs'[p]) = {} /\ Others(p) /\ procs'[p].pc = "flush"
    BY <1>8, ThenFlushIs DEF RecordLink, HeldBy, Elems
  <2> QED BY <1>0, <1>8, <2>5, <2>6, ServedApart DEF RecordLink
<1>9. ASSUME Refused(p) PROVE ServedOK'
  BY <1>9, EndIs, IdleHolds, ServedEmpty DEF Refused, AllDeltas, Elems
<1> QED BY <1>1, <1>2, <1>3, <1>4, <1>5, <1>6, <1>7, <1>8, <1>9

(* The revocation that is signed now has one meaning from here on. *)
LEMMA ServedRevokes == ASSUME StateOK, ServedOK, NEW p \in Procs, RecordRevoke(p) PROVE ServedOK'
<1>0. PICK x : x = Revoke(procs[p].did, procs[p].dev) OBVIOUS
<1> DEFINE new == <<x>>
<1>1. procs[p].did \in Ids /\ procs[p].dev \in Devs BY DEF RecordRevoke, StateOK, Commands, CmdOK
<1>2. x \in Delta /\ x.op = "revoke" /\ x.id = procs[p].did BY <1>0, <1>1, DeltasAre
<1>3. /\ procs[p].pc = "revoke" /\ <<x.id, x.dev>> \notin DOMAIN basis
      /\ basis' = [y \in DOMAIN basis \cup {<<x.id, x.dev>>} |->
                     IF y \in DOMAIN basis THEN basis[y] ELSE procs[p].have]
      /\ pending' = Append(pending, x) /\ ThenFlush(p) /\ UNCHANGED <<closure, resolver>>
  BY <1>0 DEF RecordRevoke, service
<1>4. pending \in Seq(Delta) BY DEF StateOK, TypeOK
<1>5. new \in Seq(Delta) /\ Elems(new) = {x} /\ pending' = pending \o new
  BY <1>2, <1>3, <1>4, AppendIsConcat DEF Elems
<1> HIDE DEF new
<1>6. Elems(pending') = Elems(pending) \cup {x} BY <1>4, <1>5, ElemsOfConcat
<1>7. BasisKept BY <1>3 DEF BasisKept
<1>8. SignedDelta(x)' BY <1>3 DEF SignedDelta
<1>9. HeldBy(procs'[p]) = {} /\ Others(p) /\ procs'[p].pc = "flush"
  BY <1>3, ThenFlushIs DEF HeldBy, Elems
<1>10. \A z \in resolver' \cup AllDeltas' \cup HeldBy(procs'[p]) : z \in Known \/ SignedDelta(z)'
  BY <1>3, <1>6, <1>8, <1>9 DEF AllDeltas, Known
<1>11. \A z \in procs[p].have : z.id = x.id BY <1>2, <1>3 DEF ServedOK
<1>12. \A y \in DOMAIN basis' : y \in DOMAIN basis \/ \A z \in basis'[y] : z.id = y[1]
  BY <1>3, <1>11
<1> QED BY <1>3, <1>7, <1>9, <1>10, <1>12, ServedOn

(* A flush sends what was known, and the resolver takes what it can place. *)
LEMMA ServedPublishes ==
  ASSUME StateOK, ServedOK, NEW p \in Procs,
         Snapshot(p) \/ Publish(p) \/ PublishUnanswered(p) \/ Ack(p) \/ Finish(p)
  PROVE  ServedOK'
<1>0. HeldBy(procs[p]) \subseteq Known /\ AllDeltas \subseteq Known BY DEF Known
<1>1. ASSUME Snapshot(p) PROVE ServedOK'
  <2>1. UNCHANGED <<resolver, basis, pending, closure>> BY <1>1 DEF Snapshot, session, service
  <2>2. AllDeltas' = AllDeltas BY <2>1 DEF AllDeltas, Elems
  <2>3. Elems(pending) \subseteq Known /\ Elems(<<>>) = {} BY <1>0 DEF AllDeltas, Elems
  <2>4. Others(p) /\ HeldBy(procs'[p]) \subseteq Known /\ procs'[p].pc # "revoke"
    BY <1>0, <1>1, <2>3, SnapshotIs, IdleHolds DEF HeldBy
  <2> QED BY <1>0, <2>1, <2>2, <2>4, ServedApart
<1>2. ASSUME Publish(p) \/ PublishUnanswered(p) PROVE ServedOK'
  <2> DEFINE x == Head(procs[p].todo)  i == procs[p].did
  <2>1. UNCHANGED <<basis, pending, closure>> BY <1>2 DEF Publish, PublishUnanswered, session
  <2>2. AllDeltas' = AllDeltas /\ BasisKept BY <2>1 DEF AllDeltas, Elems, BasisKept
  <2>3. /\ Others(p) /\ x \in Delta /\ x \in Elems(procs[p].todo)
        /\ resolver' \in {resolver, Stored(x, i)}
        /\ procs'[p].have = procs[p].have /\ procs'[p].pc # "revoke"
        /\ procs'[p].todo \in {<<>>, procs[p].todo}
    BY <1>2, PublishIs
  <2>4. HeldBy(procs'[p]) \subseteq Known /\ x \in Known
    BY <1>0, <2>3 DEF HeldBy, Elems
  <2> HIDE DEF x, i
  <2>5. Status(x, i) = 202 =>
          /\ x.id = i
          /\ Parents(x) \subseteq resolver
          /\ x.op # "genesis" => Genesis(x.id) \in resolver
    <3>1. x.op = "genesis" => Parents(x) = {} BY <2>3, ParentsAre
    <3> QED BY <3>1 DEF Status
  <2>6. x.op = "genesis" => x = Genesis(x.id) BY <2>3, DeltasAre
  <2>7. resolver \subseteq resolver' /\ (resolver' = resolver \/ (resolver' = resolver \cup {x} /\ Status(x, i) = 202))
    BY <2>3 DEF Stored
  <2>8. \A z \in resolver' : \/ z \in resolver /\ resolver \subseteq resolver'
                             \/ z \in Known /\ Parents(z) \subseteq resolver' /\ Genesis(z.id) \in resolver'
    BY <2>4, <2>5, <2>6, <2>7
  <2>9. resolver' \subseteq Known BY <2>4, <2>7 DEF Known
  <2>10. \A z \in resolver' \cup AllDeltas' \cup HeldBy(procs'[p]) : z \in Known
    BY <1>0, <2>2, <2>4, <2>9
  <2> QED BY <2>1, <2>2, <2>3, <2>8, <2>10, ServedOn
<1>3. ASSUME Ack(p) PROVE ServedOK'
  <2>1. UNCHANGED <<resolver, basis>> BY <1>3 DEF Ack, service
  <2>2. /\ Others(p) /\ Head(procs[p].todo) \in HeldBy(procs[p])
        /\ HeldBy(procs'[p]) \subseteq HeldBy(procs[p]) /\ procs'[p].pc = "publish"
        /\ AllDeltas' \subseteq AllDeltas \cup {Head(procs[p].todo)}
    BY <1>3, AckIs DEF HeldBy, AllDeltas
  <2> QED BY <1>0, <2>1, <2>2, ServedApart
<1>4. ASSUME Finish(p) PROVE ServedOK'
  BY <1>4, EndIs, IdleHolds, ServedEmpty DEF Finish, AllDeltas, Elems, session, service
<1> QED BY <1>1, <1>2, <1>3, <1>4

(* Whatever stops, and whatever a device does, nothing new is known. *)
LEMMA ServedStops ==
  ASSUME StateOK, ServedOK, ConfirmBackup \/ RejectOffer \/ Restart \/ NewPhone \/ ServiceRestart
  PROVE  ServedOK'
<1> USE DEF session, service
<1>1. CASE ConfirmBackup BY <1>1, ServedIdle DEF ConfirmBackup, AllDeltas, Elems
<1>2. CASE RejectOffer BY <1>2, ServedIdle DEF RejectOffer, AllDeltas, Elems
<1>3. CASE Restart \/ NewPhone
  <2>1. UNCHANGED <<resolver, basis>> /\ AllDeltas' \subseteq AllDeltas
    BY <1>3 DEF Restart, NewPhone, AllDeltas, Elems
  <2>2. \A p \in Procs : procs'[p] = Idle BY <1>3 DEF Restart, NewPhone
  <2>3. \A p \in Procs : HeldBy(procs'[p]) = {} /\ procs'[p].pc = "idle"
    BY <2>2, IdleHolds DEF HeldBy, Elems
  <2>4. Known' \subseteq Known BY <2>1, <2>3 DEF Known
  <2>5. \A x : SignedDelta(x)' = SignedDelta(x) /\ Parents(x)' = Parents(x)
    BY <2>1 DEF SignedDelta, Parents
  <2> QED BY <2>1, <2>3, <2>4, <2>5 DEF ServedOK
<1>4. CASE ServiceRestart
  <2>1. UNCHANGED <<procs, basis, pending, closure>> /\ resolver' = {} BY <1>4 DEF ServiceRestart
  <2>2. Known' \subseteq Known BY <2>1 DEF Known, AllDeltas, HeldBy, Elems
  <2>3. \A x : SignedDelta(x)' = SignedDelta(x) BY <2>1 DEF SignedDelta
  <2> QED BY <2>1, <2>2, <2>3 DEF ServedOK
<1> QED BY <1>1, <1>2, <1>3, <1>4

LEMMA ServedDevice == ASSUME StateOK, ServedOK, NEW d \in Devs, Device(d) PROVE ServedOK'
<1>1. UNCHANGED <<resolver, basis, procs, pending, closure>>
  BY DEF Device, ShowCode, PollBundle, GiveUp, ForgetIdentity, Expire, Sweep, session, service
<1>2. AllDeltas' = AllDeltas BY <1>1 DEF AllDeltas, Elems
<1> QED BY <1>1, <1>2, ServedIdle

LEMMA ServedInit == Init => ServedOK
<1> SUFFICES ASSUME Init PROVE ServedOK OBVIOUS
<1>1. \A p \in Procs : procs[p] = Idle BY DEF Init
<1>2. \A p \in Procs : HeldBy(procs[p]) = {} /\ procs[p].pc = "idle"
  BY <1>1, IdleHolds DEF HeldBy, Elems
<1>3. Known = {} BY <1>2 DEF Known, AllDeltas, Elems, Init
<1> QED BY <1>2, <1>3 DEF ServedOK, Init

LEMMA ServedStep == StateOK /\ ServedOK /\ [Next]_vars => ServedOK'
<1> SUFFICES ASSUME StateOK, ServedOK, [Next]_vars PROVE ServedOK' OBVIOUS
<1>1. CASE UNCHANGED vars
  BY <1>1, ServedIdle DEF vars, AllDeltas, Elems, session, service
<1>2. CASE Next
  BY <1>2, ServedBegin, ServedRecords, ServedRevokes, ServedPublishes, ServedStops, ServedDevice
  DEF Next, Continue
<1> QED BY <1>1, <1>2

(* The resolver resolves whatever it serves: verify never finds a closure    *)
(* that the profile refuses (publish_delta, resolve_closure).                *)
LEMMA ServedIs == ASSUME StateOK, ServedOK PROVE ServedResolves
<1> SUFFICES ASSUME NEW i \in Ids, NEW d \in Devs PROVE VerifyAnswer(i, d) # "profile refused"
  BY DEF ServedResolves
<1> DEFINE served == {x \in resolver : x.id = i}
<1>1. CASE served = {} BY <1>1 DEF VerifyAnswer
<1>2. CASE served # {}
  <2>1. Genesis(i) \in served
    <3>1. PICK x \in served : TRUE BY <1>2
    <3>2. Genesis(x.id) \in resolver BY <3>1 DEF ServedOK
    <3> QED BY <3>1, <3>2, DeltasAre
  <2>2. \A x \in served : Parents(x) \subseteq served
    <3> SUFFICES ASSUME NEW x \in served, NEW y \in Parents(x) PROVE y.id = i
      BY DEF ServedOK
    <3>1. x \in Delta /\ x.id = i BY DEF StateOK, TypeOK
    <3>2. x.op \in {"genesis", "profile", "add", "label", "revoke"} /\ (x.op = "label" => x.dev \in Devs)
      BY <3>1, DeltasAre
    <3>3. CASE x.op = "revoke"
      <4>1. x \in Known BY DEF Known
      <4>2. <<x.id, x.dev>> \in DOMAIN basis /\ y \in basis[<<x.id, x.dev>>]
        BY <3>1, <3>3, <4>1, ParentsAre DEF ServedOK, SignedDelta
      <4>3. y.id = <<x.id, x.dev>>[1] BY <4>2 DEF ServedOK
      <4> QED BY <3>1, <4>3
    <3>4. CASE x.op \in {"profile", "add"}
      <4>1. y = Genesis(i) BY <3>1, <3>4, ParentsAre
      <4> QED BY <4>1, DeltasAre
    <3>5. CASE x.op = "label"
      <4>1. y = Add(i, x.dev) /\ x.dev \in Devs BY <3>1, <3>2, <3>5, ParentsAre
      <4> QED BY <4>1, DeltasAre
    <3>6. CASE x.op = "genesis" BY <3>1, <3>6, ParentsAre
    <3> QED BY <3>2, <3>3, <3>4, <3>5, <3>6
  <2>3. Resolves(served, i) BY <2>1, <2>2 DEF Resolves
  <2> HIDE DEF Resolves
  <2> QED BY <1>2, <2>3 DEF VerifyAnswer
<1> QED BY <1>1, <1>2

(* Whatever the wallet publishes, and however flushes overlap or lose their  *)
(* answers, what the resolver serves resolves.                               *)
THEOREM ServedResolvesAlways == Spec => []ServedResolves
<1>1. Init => StateOK /\ ServedOK BY StateInit, ServedInit
<1>2. StateOK /\ ServedOK /\ [Next]_vars => (StateOK /\ ServedOK)' BY StateStep, ServedStep
<1>3. StateOK /\ ServedOK => ServedResolves BY ServedIs
<1> QED BY <1>1, <1>2, <1>3, PTL DEF Spec

-----------------------------------------------------------------------------
(* Queues in causal order *)

(* Nothing is signed for an identity twice, and the resolver only learns: a  *)
(* queue in order stays in order.                                            *)
LEMMA OrderedStays ==
  ASSUME BasisKept, resolver \subseteq resolver', NEW s \in Seq(Delta),
         \A x \in Elems(s) : SignedDelta(x), Ordered(s)
  PROVE  Ordered(s)'
<1>1. \A k \in 1..Len(s) : s[k] \in Delta /\ s[k] \in Elems(s) BY DEF Elems
<1>2. \A k \in 1..Len(s) : Parents(s[k])' = Parents(s[k]) BY <1>1, ParentsKept
<1>3. \A k \in 1..Len(s) : Needs(s[k])' = Needs(s[k]) BY <1>2 DEF Needs
<1> QED BY <1>3 DEF Ordered

(* The first of a queue waits for nothing. *)
LEMMA OrderedHead ==
  ASSUME NEW s \in Seq(Delta), s # <<>>, Ordered(s)
  PROVE  Needs(Head(s)) \subseteq resolver
<1>1. Head(s) = s[1] /\ 1 \in 1..Len(s) BY HeadTailProperties
<1>2. {s[j] : j \in 1..(1-1)} = {} OBVIOUS
<1> QED BY <1>1, <1>2 DEF Ordered

(* What is stored may leave the front of a snapshot, *)
LEMMA OrderedTail ==
  ASSUME NEW s \in Seq(Delta), s # <<>>, Ordered(s), Head(s) \in resolver
  PROVE  Ordered(Tail(s))
<1>1. /\ Head(s) = s[1] /\ Len(Tail(s)) = Len(s) - 1 /\ Len(s) \in Nat
      /\ \A i \in 1..Len(Tail(s)) : Tail(s)[i] = s[i+1]
  BY HeadTailProperties
<1> SUFFICES ASSUME NEW k \in 1..Len(Tail(s)), NEW y \in Needs(Tail(s)[k])
             PROVE  y \in resolver \cup {Tail(s)[j] : j \in 1..(k-1)}
  BY DEF Ordered
<1>2. k + 1 \in 1..Len(s) /\ (k + 1) - 1 = k BY <1>1
<1>3. y \in resolver \cup {s[j] : j \in 1..k} BY <1>1, <1>2 DEF Ordered
<1>4. ASSUME NEW j \in 1..k, y = s[j] PROVE y \in resolver \cup {Tail(s)[n] : n \in 1..(k-1)}
  <2>1. CASE j = 1 BY <1>1, <1>4, <2>1
  <2>2. CASE j # 1
    <3>1. j - 1 \in 1..(k-1) /\ j - 1 \in 1..Len(Tail(s)) /\ (j - 1) + 1 = j BY <1>1, <2>2
    <3>2. Tail(s)[j - 1] = y BY <1>1, <1>4, <3>1
    <3> QED BY <3>1, <3>2
  <2> QED BY <2>1, <2>2
<1> QED BY <1>3, <1>4

(* or any place of the queue. *)
LEMMA OrderedRemoval ==
  ASSUME pending \in Seq(Delta), Ordered(pending), NEW k \in 1..Len(pending), pending[k] \in resolver
  PROVE  Ordered(AfterRemoval(k))
<1> DEFINE r == AfterRemoval(k)
<1>1. /\ r \in Seq(Delta) /\ Len(r) = Len(pending) - 1 /\ Len(pending) \in Nat /\ k \in Nat
      /\ \A i \in 1..(Len(pending) - 1) : r[i] = IF i < k THEN pending[i] ELSE pending[i + 1]
  BY RemovalOf
<1> HIDE DEF r
<1>2. ASSUME NEW i \in 1..Len(r), NEW n \in 1..Len(pending),
             n = IF i < k THEN i ELSE i + 1, NEW y \in Needs(pending[n])
      PROVE  y \in resolver \cup {r[j] : j \in 1..(i-1)}
  <2>1. y \in resolver \cup {pending[j] : j \in 1..(n-1)} BY DEF Ordered
  <2>2. ASSUME NEW j \in 1..(n-1), y = pending[j] PROVE y \in resolver \cup {r[m] : m \in 1..(i-1)}
    <3>1. j \in Nat /\ i \in Nat /\ n \in Nat /\ j < n BY <1>1
    <3>2. CASE j = k BY <2>2, <3>2
    <3>3. CASE j < k
      <4>1. j \in 1..(i-1) /\ j \in 1..(Len(pending) - 1) BY <1>1, <1>2, <3>1, <3>3
      <4>2. r[j] = y BY <1>1, <2>2, <3>3, <4>1
      <4> QED BY <4>1, <4>2
    <3>4. CASE j > k
      <4>1. j - 1 \in 1..(i-1) /\ j - 1 \in 1..(Len(pending) - 1) /\ ~(j - 1 < k) /\ (j - 1) + 1 = j
        BY <1>1, <1>2, <3>1, <3>4
      <4>2. r[j - 1] = y BY <1>1, <2>2, <4>1
      <4> QED BY <4>1, <4>2
    <3> QED BY <1>1, <3>1, <3>2, <3>3, <3>4
  <2> QED BY <2>1, <2>2
<1>3. ASSUME NEW i \in 1..Len(r) PROVE Needs(r[i]) \subseteq resolver \cup {r[j] : j \in 1..(i-1)}
  <2> DEFINE n == IF i < k THEN i ELSE i + 1
  <2>1. n \in 1..Len(pending) BY <1>1
  <2>2. i \in 1..(Len(pending) - 1) BY <1>1
  <2>3. r[i] = pending[n] BY <1>1, <2>2
  <2> QED BY <1>2, <2>1, <2>3
<1> QED BY <1>3 DEF Ordered, r

(* What is queued together may wait for what was queued or stored before. *)
LEMMA OrderedMore ==
  ASSUME NEW s \in Seq(Delta), NEW t \in Seq(Delta), Ordered(s)',
         \A k \in 1..Len(t) :
           Needs(t[k])' \subseteq resolver' \cup Elems(s) \cup {t[j] : j \in 1..(k-1)}
  PROVE  Ordered(s \o t)'
<1> DEFINE u == s \o t
<1>1. /\ Len(s) \in Nat /\ Len(t) \in Nat /\ Len(u) = Len(s) + Len(t)
      /\ \A i \in 1..(Len(s) + Len(t)) : u[i] = IF i <= Len(s) THEN s[i] ELSE t[i - Len(s)]
  BY ConcatProperties
<1> HIDE DEF u
<1>2. ASSUME NEW k \in 1..Len(u) PROVE Needs(u[k])' \subseteq resolver' \cup {u[j] : j \in 1..(k-1)}
  <2>1. CASE k <= Len(s)
    <3>1. k \in 1..Len(s) /\ u[k] = s[k] BY <1>1, <2>1
    <3>2. Needs(s[k])' \subseteq resolver' \cup {s[j] : j \in 1..(k-1)} BY <3>1 DEF Ordered
    <3>3. \A j \in 1..(k-1) : s[j] = u[j] BY <1>1, <3>1
    <3> QED BY <3>1, <3>2, <3>3
  <2>2. CASE ~(k <= Len(s))
    <3>1. k - Len(s) \in 1..Len(t) /\ u[k] = t[k - Len(s)] BY <1>1, <2>2
    <3>2. Needs(u[k])' \subseteq resolver' \cup Elems(s) \cup {t[j] : j \in 1..((k - Len(s)) - 1)}
      BY <3>1
    <3>3. Elems(s) \subseteq {u[j] : j \in 1..(k-1)}
      <4>1. \A j \in 1..Len(s) : j \in 1..(k-1) /\ u[j] = s[j] BY <1>1, <2>2
      <4> QED BY <4>1 DEF Elems
    <3>4. \A j \in 1..((k - Len(s)) - 1) : j + Len(s) \in 1..(k-1) /\ u[j + Len(s)] = t[j]
      <4> SUFFICES ASSUME NEW j \in 1..((k - Len(s)) - 1)
                   PROVE  j + Len(s) \in 1..(k-1) /\ u[j + Len(s)] = t[j]
        OBVIOUS
      <4>1. /\ j + Len(s) \in 1..(k-1) /\ j + Len(s) \in 1..(Len(s) + Len(t))
            /\ ~(j + Len(s) <= Len(s)) /\ (j + Len(s)) - Len(s) = j
        BY <1>1, <2>2, <3>1
      <4> QED BY <1>1, <4>1
    <3> QED BY <3>2, <3>3, <3>4
  <2> QED BY <2>1, <2>2
<1>3. \A k \in 1..Len(u) : Needs(u[k])' \subseteq resolver' \cup {u[j] : j \in 1..(k-1)} BY <1>2
<1> QED BY <1>3 DEF Ordered, u

-----------------------------------------------------------------------------
(* A phone that has lost nothing *)

\* What every step of such a phone keeps: its identity, what it has shown, and
\* whatever is stored or will be.
PhoneGrows ==
  /\ BasisKept /\ resolver \subseteq resolver' /\ Ahead \subseteq Ahead'
  /\ root # None => root' = root
  /\ shown \subseteq shown'

(* Of the other commands a step changes nothing that matters. *)
LEMMA CommandStays ==
  ASSUME StateOK, ServedOK, PhoneGrows, NEW p \in Procs, CmdIntact(procs[p]), procs'[p] = procs[p]
  PROVE  CmdIntact(procs[p])'
<1> DEFINE c == procs[p]
<1>1. c \in ProcState /\ (c.kind = "create" => c.did \in Ids)
  BY DEF StateOK, Commands, TypeOK
<1>2. \A x \in Elems(c.todo) : SignedDelta(x) BY DEF ServedOK, Known, HeldBy
<1>3. c.todo \in Seq(Delta) BY <1>1 DEF ProcState
<1>4. Grounded => Grounded' BY DEF Grounded, PhoneGrows
<1>5. root \in shown => root # None /\ root' \in shown'
  BY SetsAssumption DEF StateOK, TypeOK, PhoneGrows
<1>6. c.kind = "create" => c.did = root /\ root # None /\ root' = root
  BY <1>1, SetsAssumption DEF CmdIntact, PhoneGrows
<1>7. Ordered(c.todo) => \A s : s = c.todo => Ordered(s)' BY <1>2, <1>3, OrderedStays DEF PhoneGrows
<1>8. c.pc \in {"sign", "put", "record"} => c.did = root' /\ root' \in shown'
  BY <1>5 DEF CmdIntact, PhoneGrows
<1>9. c.pc \in {"put", "record"} => c.signer = root'
  BY <1>5 DEF CmdIntact, PhoneGrows
<1>10. c.pc = "revoke" => c.did = root' /\ Grounded' /\ c.have \subseteq Ahead'
  BY <1>4 DEF CmdIntact, PhoneGrows, Grounded
<1>11. c.pc \in {"publish", "ack"} => Ordered(procs[p].todo) BY DEF CmdIntact
<1>12. procs'[p].pc \in {"publish", "ack"} => Ordered(procs[p].todo)'
  <2>1. PICK s : s = procs[p].todo OBVIOUS
  <2>2. s = procs'[p].todo BY <2>1
  <2>3. c.pc \in {"publish", "ack"} => Ordered(s)' BY <1>7, <1>11, <2>1
  <2> QED BY <2>2, <2>3 DEF Ordered
<1>13. c.pc = "ack" => Head(c.todo) \in resolver' BY DEF CmdIntact, PhoneGrows
<1> QED BY <1>4, <1>6, <1>8, <1>9, <1>10, <1>12, <1>13 DEF CmdIntact

(* A step of one command on such a phone. *)
LEMMA PhoneOn ==
  ASSUME StateOK, ServedOK, PhoneOK, intact, PhoneGrows, NEW p \in Procs, Others(p),
         closure' \subseteq resolver', Ordered(pending)',
         shown' \subseteq {root'}, root' \in shown' => Grounded', confirmed' => root' \in shown',
         CmdIntact(procs[p])'
  PROVE  PhoneOK'
<1>1. \A q \in Procs : CmdIntact(procs[q]) BY DEF PhoneOK
<1>2. ASSUME NEW q \in Procs, q # p PROVE CmdIntact(procs[q])'
  BY <1>1, <1>2, CommandStays DEF Others
<1>3. \A q \in Procs : CmdIntact(procs[q])' BY <1>2
<1> QED BY <1>3 DEF PhoneOK

(* What deltas wait for changes only with a signature. *)
LEMMA NeedsStay ==
  ASSUME UNCHANGED <<basis, resolver>>
  PROVE  (\A x : Needs(x)' = Needs(x)) /\ \A s : Ordered(s)' <=> Ordered(s)
<1>1. \A x : Parents(x)' = Parents(x) BY DEF Parents
<1>2. \A x : Needs(x)' = Needs(x) BY <1>1 DEF Needs
<1> QED BY <1>2 DEF Ordered

LEMMA QueueStays ==
  ASSUME UNCHANGED <<basis, resolver, pending>>, Ordered(pending)
  PROVE  Ordered(pending)'
<1>1. PICK s : s = pending OBVIOUS
<1>2. Ordered(s)' /\ s = pending' BY <1>1, NeedsStay
<1> QED BY <1>2 DEF Ordered

(* A command that touches neither custody, queue nor resolver. *)
LEMMA PhoneApart ==
  ASSUME StateOK, ServedOK, PhoneOK, intact, NEW p \in Procs, Others(p),
         UNCHANGED <<root, confirmed, shown, pending, closure, resolver, basis>>,
         CmdIntact(procs[p])'
  PROVE  PhoneOK'
<1>1. PhoneGrows BY DEF PhoneGrows, BasisKept, Ahead, Elems
<1>2. Ordered(pending) => Ordered(pending)' BY QueueStays
<1>3. Grounded => Grounded' BY DEF Grounded, Ahead, Elems
<1> QED BY <1>1, <1>2, <1>3, PhoneOn DEF PhoneOK

(* A step of nobody's command. *)
LEMMA PhoneIdle ==
  ASSUME PhoneOK, UNCHANGED <<root, confirmed, shown, pending, closure, resolver, basis, procs, intact>>
  PROVE  PhoneOK'
<1>2. Grounded' = Grounded /\ Ahead' = Ahead BY DEF Grounded, Ahead, Elems
<1>3. \A p \in Procs : CmdIntact(procs[p]) => CmdIntact(procs[p])'
  <2> SUFFICES ASSUME NEW p \in Procs, CmdIntact(procs[p]) PROVE CmdIntact(procs[p])' OBVIOUS
  <2>1. PICK s : s = procs[p].todo OBVIOUS
  <2>2. Ordered(s)' <=> Ordered(s) BY NeedsStay
  <2>3. Ordered(procs[p].todo) => Ordered(procs[p].todo)' BY <2>1, <2>2 DEF Ordered
  <2> QED BY <1>2, <2>3 DEF CmdIntact
<1>4. Ordered(pending) => Ordered(pending)' BY QueueStays
<1> QED BY <1>2, <1>3, <1>4 DEF PhoneOK

LEMMA PhoneBegin == ASSUME StateOK, ServedOK, PhoneOK, NEW p \in Procs, Begin(p) PROVE PhoneOK'
<1> USE DEF session, service, device
<1>0. CASE ~intact' BY <1>0 DEF PhoneOK
<1>1. ASSUME NEW i \in Ids, CreateRoot(p, i), intact PROVE PhoneOK'
  <2>1. /\ root = None /\ root' = i /\ confirmed' = FALSE
        /\ UNCHANGED <<shown, pending, closure, resolver, basis, intact>>
    BY <1>1 DEF CreateRoot
  <2>2. shown = {} BY <1>1, <2>1, SetsAssumption DEF PhoneOK, StateOK, TypeOK
  <2>3. PhoneGrows BY <2>1 DEF PhoneGrows, BasisKept, Ahead, Elems
  <2>4. Others(p) /\ procs'[p].pc = "genesis" /\ procs'[p].kind = "create" /\ procs'[p].did = i
    BY <1>1, StartIs DEF CreateRoot
  <2>5. CmdIntact(procs[p])' BY <2>1, <2>4 DEF CmdIntact
  <2>6. Ordered(pending)' BY <1>1, <2>1, QueueStays DEF PhoneOK
  <2> QED BY <1>1, <2>1, <2>2, <2>3, <2>4, <2>5, <2>6, PhoneOn DEF PhoneOK
<1>2. ASSUME NEW i \in Ids, RestoreRoot(p, i), intact PROVE PhoneOK'
  BY <1>2, SetsAssumption DEF RestoreRoot, PhoneOK
<1>3. ASSUME NEW d \in Devs, ReadCode(p, d), intact PROVE PhoneOK'
  <2>1. UNCHANGED <<root, confirmed, shown, pending, closure, resolver, basis, intact>>
    BY <1>3 DEF ReadCode, custody
  <2>2. CASE Start(p, "read", "open", None, d)
    <3>1. Others(p) /\ procs'[p].pc = "open" /\ procs'[p].kind = "read" BY <2>2, StartIs
    <3>2. CmdIntact(procs[p])' BY <3>1 DEF CmdIntact
    <3> QED BY <1>3, <2>1, <3>1, <3>2, PhoneApart
  <2>3. CASE UNCHANGED procs BY <2>1, <2>3, PhoneIdle
  <2> QED BY <1>3, <2>2, <2>3 DEF ReadCode
<1>4. ASSUME NEW d \in Devs, UnlinkStart(p, d), intact PROVE PhoneOK'
  <2>1. UNCHANGED <<root, confirmed, shown, pending, closure, resolver, basis, intact>>
    BY <1>4 DEF UnlinkStart, custody
  <2>2. /\ Others(p) /\ procs'[p].pc = "revoke" /\ procs'[p].kind = "unlink" /\ procs'[p].did = root
        /\ procs'[p].have \subseteq AllDeltas /\ root # None /\ Genesis(root) \in AllDeltas
    BY <1>4, UnlinkIs
  <2>3. AllDeltas \subseteq Ahead /\ Ahead' = Ahead
    BY <1>4, <2>1 DEF PhoneOK, AllDeltas, Ahead, Elems
  <2>4. CmdIntact(procs[p])' BY <2>1, <2>2, <2>3 DEF CmdIntact, Grounded
  <2> QED BY <1>4, <2>1, <2>2, <2>4, PhoneApart
<1>5. ASSUME ForgetRoot(p) PROVE PhoneOK' BY <1>5 DEF ForgetRoot, PhoneOK
<1>6. ASSUME Authorise(p), intact PROVE PhoneOK'
  <2>1. UNCHANGED <<root, confirmed, shown, pending, closure, resolver, basis, intact>>
    BY <1>6 DEF Authorise, custody
  <2>2. Others(p) /\ procs'[p].pc = "sign" /\ procs'[p].kind = "link" /\ procs'[p].did = root
    BY <1>6, StartIs DEF Authorise
  <2>3. root \in shown BY <1>6 DEF Authorise, BackupConfirmed, PhoneOK
  <2>4. CmdIntact(procs[p])' BY <2>1, <2>2, <2>3 DEF CmdIntact
  <2> QED BY <1>6, <2>1, <2>2, <2>4, PhoneApart
<1>7. ASSUME Flush(p), intact PROVE PhoneOK'
  <2>1. UNCHANGED <<root, confirmed, shown, pending, closure, resolver, basis, intact>>
    BY <1>7 DEF Flush, custody
  <2>2. Others(p) /\ procs'[p].pc = "flush" /\ procs'[p].kind = "flush" BY <1>7, StartIs DEF Flush
  <2>3. CmdIntact(procs[p])' BY <2>2 DEF CmdIntact
  <2> QED BY <1>7, <2>1, <2>2, <2>3, PhoneApart
<1>8. Begin(p) /\ intact' => intact
  BY DEF Begin, CreateRoot, RestoreRoot, ReadCode, UnlinkStart, ForgetRoot, Authorise, Flush
<1> QED BY <1>0, <1>1, <1>2, <1>3, <1>4, <1>5, <1>6, <1>7, <1>8 DEF Begin

(* What is queued behind a queue in order, for parents queued or stored. *)
LEMMA PhoneRecords ==
  ASSUME StateOK, ServedOK, PhoneOK, intact, BasisKept,
         UNCHANGED <<root, confirmed, shown, closure, resolver>>,
         NEW t \in Seq(Delta), pending' = pending \o t,
         \A k \in 1..Len(t) : Needs(t[k])' \subseteq Ahead \cup {t[j] : j \in 1..(k-1)},
         NEW p \in Procs, Others(p), CmdIntact(procs[p])'
  PROVE  PhoneOK'
<1>1. PICK s : s = pending OBVIOUS
<1>2. s \in Seq(Delta) /\ Ordered(s) BY <1>1 DEF StateOK, TypeOK, PhoneOK
<1>3. \A x \in Elems(s) : SignedDelta(x) BY <1>1 DEF ServedOK, Known, AllDeltas
<1>4. Ordered(s)' BY <1>2, <1>3, OrderedStays
<1>5. \A k \in 1..Len(t) : Needs(t[k])' \subseteq resolver' \cup Elems(s) \cup {t[j] : j \in 1..(k-1)}
  BY <1>1 DEF Ahead
<1>6. Ordered(s \o t)' BY <1>2, <1>4, <1>5, OrderedMore
<1>7. Ordered(pending)' BY <1>1, <1>6 DEF Ordered
<1>8. Elems(pending) \subseteq Elems(pending') BY <1>1, <1>2, ElemsOfConcat
<1>9. PhoneGrows BY <1>8 DEF PhoneGrows, Ahead
<1>10. Grounded => Grounded' BY <1>8 DEF Grounded, Ahead
<1> QED BY <1>7, <1>9, <1>10, PhoneOn DEF PhoneOK

LEMMA PhoneLinks ==
  ASSUME StateOK, ServedOK, PhoneOK, intact, NEW p \in Procs,
         \/ RecordGenesis(p) \/ FetchClosure(p) \/ AdoptClosure(p) \/ ClearSession(p) \/ HoldOffer(p)
         \/ SignLink(p) \/ PutBundle(p) \/ RecordLink(p) \/ Refused(p)
  PROVE  PhoneOK'
<1> USE DEF session, service, custody
<1>0. CmdIntact(procs[p]) /\ CmdOK(procs[p]) BY DEF PhoneOK, StateOK, Commands
<1>1. ASSUME RecordGenesis(p) PROVE PhoneOK'
  <2>1. PICK i : i = root OBVIOUS
  <2>2. i \in Ids BY <1>1, <2>1 DEF RecordGenesis, StateOK, TypeOK
  <2> DEFINE t == <<Genesis(i), Profile(i)>>
  <2>3. t \in Seq(Delta) /\ Len(t) = 2 /\ t[1] = Genesis(i) /\ t[2] = Profile(i) BY <2>2, DeltasAre
  <2>4. pending' = pending \o t BY <1>1, <2>1 DEF RecordGenesis
  <2>5. UNCHANGED <<root, confirmed, shown, closure, resolver, basis>> /\ GoTo(p, "flush")
    BY <1>1 DEF RecordGenesis
  <2>6. Needs(Genesis(i)) = {} /\ Needs(Profile(i)) = {Genesis(i)}
    <3>1. Parents(Genesis(i)) = {} /\ Parents(Profile(i)) = {Genesis(i)} BY ParentsOf
    <3> QED BY <2>2, <3>1, DeltasAre DEF Needs
  <2> HIDE DEF t
  <2>7. Needs(t[1])' = {} /\ Needs(t[2])' = {t[1]} BY <2>3, <2>5, <2>6, NeedsStay
  <2>8. \A k \in 1..Len(t) : Needs(t[k])' \subseteq Ahead \cup {t[j] : j \in 1..(k-1)}
    <3> SUFFICES ASSUME NEW k \in 1..Len(t)
                 PROVE  Needs(t[k])' \subseteq Ahead \cup {t[j] : j \in 1..(k-1)}
      OBVIOUS
    <3>1. k = 1 \/ (k = 2 /\ 1 \in 1..(k-1)) BY <2>3
    <3> QED BY <2>7, <3>1
  <2>9. BasisKept BY <2>5 DEF BasisKept
  <2>10. Genesis(i) \in Elems(pending')
    <3>1. Elems(pending') = Elems(pending) \cup Elems(t) BY <2>3, <2>4, ElemsOfConcat DEF StateOK, TypeOK
    <3> QED BY <2>3, <3>1 DEF Elems
  <2>11. CmdIntact(procs[p])'
    <3>1. /\ procs'[p].pc = "flush" /\ procs'[p].kind = procs[p].kind /\ procs'[p].did = procs[p].did
      BY <2>5, GoToIs
    <3>2. Grounded' BY <1>1, <2>1, <2>5, <2>10 DEF Grounded, Ahead, RecordGenesis
    <3> QED BY <1>0, <2>5, <3>1, <3>2 DEF CmdIntact
  <2>12. Others(p) BY <2>5, GoToIs
  <2> QED BY <2>3, <2>4, <2>5, <2>8, <2>9, <2>11, <2>12, PhoneRecords
<1>2. ~(FetchClosure(p) \/ AdoptClosure(p) \/ ClearSession(p))
  BY <1>0 DEF CmdIntact, FetchClosure, AdoptClosure, ClearSession
<1>3. ASSUME HoldOffer(p) \/ Refused(p) PROVE PhoneOK'
  <2>1. End(p) /\ UNCHANGED <<root, confirmed, shown, pending, closure, resolver, basis>>
    BY <1>3 DEF HoldOffer, Refused
  <2>2. CmdIntact(procs[p])' BY <2>1, EndIs, IdleIs DEF CmdIntact
  <2> QED BY <2>1, <2>2, EndIs, PhoneApart
<1>4. ASSUME SignLink(p) PROVE PhoneOK'
  <2>1. UNCHANGED <<root, confirmed, shown, pending, closure, resolver, basis>>
    BY <1>4 DEF SignLink
  <2>2. /\ Others(p) /\ procs'[p].pc = "put" /\ procs'[p].signer = root
        /\ procs'[p].kind = procs[p].kind /\ procs'[p].did = procs[p].did
    BY <1>4, SignIs
  <2>3. procs[p].pc = "sign" BY <1>4 DEF SignLink
  <2>4. Grounded' = Grounded BY <2>1 DEF Grounded, Ahead, Elems
  <2>5. CmdIntact(procs[p])' BY <1>0, <2>1, <2>2, <2>3, <2>4 DEF CmdIntact
  <2> QED BY <2>1, <2>2, <2>5, PhoneApart
<1>5. ASSUME PutBundle(p) PROVE PhoneOK'
  <2>1. /\ UNCHANGED <<root, confirmed, shown, pending, closure, resolver, basis>>
        /\ procs[p].pc = "put"
    BY <1>5 DEF PutBundle
  <2>2. CASE End(p)
    <3>1. CmdIntact(procs[p])' BY <2>2, EndIs, IdleIs DEF CmdIntact
    <3> QED BY <2>1, <2>2, <3>1, EndIs, PhoneApart
  <2>3. CASE GoTo(p, "record")
    <3>1. /\ Others(p) /\ procs'[p].pc = "record" /\ procs'[p].signer = procs[p].signer
          /\ procs'[p].kind = procs[p].kind /\ procs'[p].did = procs[p].did
      BY <2>3, GoToIs
    <3>2. Grounded' = Grounded BY <2>1 DEF Grounded, Ahead, Elems
    <3>3. CmdIntact(procs[p])' BY <1>0, <2>1, <3>1, <3>2 DEF CmdIntact
    <3> QED BY <2>1, <3>1, <3>3, PhoneApart
  <2> QED BY <1>5, <2>2, <2>3 DEF PutBundle
<1>6. ASSUME RecordLink(p) PROVE PhoneOK'
  <2>0. PICK i, d : i = procs[p].signer /\ d = procs[p].dev OBVIOUS
  <2>1. i \in Ids /\ d \in Devs BY <1>0, <1>6, <2>0 DEF RecordLink, CmdOK
  <2>2. i = root /\ Genesis(i) \in Ahead BY <1>0, <1>6, <2>0 DEF RecordLink, CmdIntact, PhoneOK, Grounded
  <2> DEFINE t == <<Add(i, d), Label(i, d)>>
  <2>3. t \in Seq(Delta) /\ Len(t) = 2 /\ t[1] = Add(i, d) /\ t[2] = Label(i, d) BY <2>1, DeltasAre
  <2>4. pending' = pending \o t BY <1>6, <2>0 DEF RecordLink, LinkDeltas
  <2>5. UNCHANGED <<root, confirmed, shown, closure, resolver, basis>> /\ ThenFlush(p)
    BY <1>6 DEF RecordLink
  <2>6. Needs(Add(i, d)) = {Genesis(i)} /\ Needs(Label(i, d)) = {Add(i, d), Genesis(i)}
    <3>1. Parents(Add(i, d)) = {Genesis(i)} /\ Parents(Label(i, d)) = {Add(i, d)} BY ParentsOf
    <3> QED BY <2>1, <3>1, DeltasAre DEF Needs
  <2> HIDE DEF t
  <2>7. Needs(t[1])' = {Genesis(i)} /\ Needs(t[2])' = {t[1], Genesis(i)} BY <2>3, <2>5, <2>6, NeedsStay
  <2>8. \A k \in 1..Len(t) : Needs(t[k])' \subseteq Ahead \cup {t[j] : j \in 1..(k-1)}
    <3> SUFFICES ASSUME NEW k \in 1..Len(t)
                 PROVE  Needs(t[k])' \subseteq Ahead \cup {t[j] : j \in 1..(k-1)}
      OBVIOUS
    <3>1. k = 1 \/ (k = 2 /\ 1 \in 1..(k-1)) BY <2>3
    <3> QED BY <2>2, <2>7, <3>1
  <2>9. BasisKept BY <2>5 DEF BasisKept
  <2>10. CmdIntact(procs[p])' BY <2>5, ThenFlushIs DEF CmdIntact
  <2>11. Others(p) BY <2>5, ThenFlushIs
  <2> QED BY <2>3, <2>4, <2>5, <2>8, <2>9, <2>10, <2>11, PhoneRecords
<1> QED BY <1>1, <1>2, <1>3, <1>4, <1>5, <1>6

LEMMA PhoneRevokes ==
  ASSUME StateOK, ServedOK, PhoneOK, intact, NEW p \in Procs, RecordRevoke(p)
  PROVE  PhoneOK'
<1>0. CmdIntact(procs[p]) /\ CmdOK(procs[p]) BY DEF PhoneOK, StateOK, Commands
<1>1. PICK x : x = Revoke(procs[p].did, procs[p].dev) OBVIOUS
<1>2. procs[p].did \in Ids /\ procs[p].dev \in Devs BY <1>0 DEF RecordRevoke, CmdOK
<1>3. x \in Delta /\ x.op = "revoke" /\ x.id = procs[p].did BY <1>1, <1>2, DeltasAre
<1>4. /\ procs[p].pc = "revoke" /\ <<x.id, x.dev>> \notin DOMAIN basis
      /\ basis' = [y \in DOMAIN basis \cup {<<x.id, x.dev>>} |->
                     IF y \in DOMAIN basis THEN basis[y] ELSE procs[p].have]
      /\ pending' = Append(pending, x) /\ ThenFlush(p)
      /\ UNCHANGED <<root, confirmed, shown, closure, resolver>>
  BY <1>1 DEF RecordRevoke, service, custody
<1>5. x.id = root /\ Genesis(x.id) \in Ahead /\ procs[p].have \subseteq Ahead
  BY <1>0, <1>3, <1>4 DEF CmdIntact, Grounded
<1>6. Parents(x)' = procs[p].have BY <1>3, <1>4 DEF Parents
<1>7. Needs(x)' \subseteq Ahead BY <1>5, <1>6 DEF Needs
<1> DEFINE t == <<x>>
<1>8. pending' = pending \o t BY <1>3, <1>4, AppendIsConcat DEF StateOK, TypeOK
<1>9. t \in Seq(Delta) /\ \A k \in 1..Len(t) : t[k] = x BY <1>3
<1> HIDE DEF t
<1>10. \A k \in 1..Len(t) : Needs(t[k])' \subseteq Ahead \cup {t[j] : j \in 1..(k-1)}
  BY <1>7, <1>9
<1>11. BasisKept BY <1>4 DEF BasisKept
<1>12. CmdIntact(procs[p])' BY <1>4, ThenFlushIs DEF CmdIntact
<1>13. Others(p) BY <1>4, ThenFlushIs
<1> QED BY <1>4, <1>8, <1>9, <1>10, <1>11, <1>12, <1>13, PhoneRecords

(* A flush sends parents first, so that what is acknowledged is stored. *)
LEMMA PhonePublishes ==
  ASSUME StateOK, ServedOK, PhoneOK, intact, NEW p \in Procs,
         Snapshot(p) \/ Publish(p) \/ PublishUnanswered(p) \/ Ack(p) \/ Finish(p)
  PROVE  PhoneOK'
<1> USE DEF session, service, custody
<1>0. /\ CmdIntact(procs[p]) /\ CmdOK(procs[p]) /\ procs[p] \in ProcState /\ pending \in Seq(Delta)
      /\ procs[p].todo \in Seq(Delta)
  BY DEF PhoneOK, StateOK, Commands, TypeOK, ProcState
<1>1. ASSUME Snapshot(p) PROVE PhoneOK'
  <2>1. UNCHANGED <<root, confirmed, shown, pending, closure, resolver, basis>> BY <1>1 DEF Snapshot
  <2>2. Others(p) /\ procs[p].pc = "flush" BY <1>1, SnapshotIs
  <2>3. CASE procs'[p] = Idle
    <3>1. CmdIntact(procs[p])' BY <2>3, IdleIs DEF CmdIntact
    <3> QED BY <2>1, <2>2, <3>1, PhoneApart
  <2>4. CASE /\ root # None /\ procs'[p].pc = "publish" /\ procs'[p].did = root
             /\ procs'[p].todo = pending /\ procs'[p].kind = procs[p].kind
    <3>1. Ordered(pending)' BY <2>1, QueueStays DEF PhoneOK
    <3>2. Ordered(procs[p].todo)' BY <2>1, <2>4, <3>1 DEF Ordered
    <3>3. Grounded' = Grounded BY <2>1 DEF Grounded, Ahead, Elems
    <3>4. CmdIntact(procs[p])' BY <1>0, <2>1, <2>2, <2>4, <3>2, <3>3 DEF CmdIntact
    <3> QED BY <2>1, <2>2, <3>4, PhoneApart
  <2> QED BY <1>1, <2>3, <2>4, SnapshotIs
<1>2. ASSUME Publish(p) \/ PublishUnanswered(p) PROVE PhoneOK'
  <2>0. PICK x, i, s : x = Head(procs[p].todo) /\ i = procs[p].did /\ s = procs[p].todo OBVIOUS
  <2>1. UNCHANGED <<root, confirmed, shown, pending, closure, basis>>
    BY <1>2 DEF Publish, PublishUnanswered
  <2>2. /\ Others(p) /\ procs[p].pc = "publish" /\ s # <<>> /\ x \in Delta
        /\ resolver' \in {resolver, Stored(x, i)}
        /\ procs'[p].kind = procs[p].kind /\ procs'[p].did = procs[p].did
        /\ \/ procs'[p].pc = "publish" /\ procs'[p].todo = <<>>
           \/ /\ procs'[p].pc = "ack" /\ procs'[p].todo = s
              /\ resolver' = Stored(x, i) /\ Acknowledges(Status(x, i))
    BY <1>2, <2>0, PublishIs
  <2>3. resolver \subseteq resolver' BY <2>2 DEF Stored
  <2>4. s \in Seq(Delta) /\ Ordered(s) /\ x = Head(s) BY <1>0, <2>0, <2>2 DEF CmdIntact
  <2>5. Needs(x) \subseteq resolver BY <2>2, <2>4, OrderedHead
  <2>6. Acknowledges(Status(x, i)) => x \in Stored(x, i)
    <3>1. Parents(x) \subseteq resolver /\ (x.op # "genesis" => Genesis(x.id) \in resolver)
      BY <2>5 DEF Needs
    <3> QED BY <3>1 DEF Acknowledges, Status, Stored
  <2>7. BasisKept BY <2>1 DEF BasisKept
  <2>8. Ahead \subseteq Ahead' BY <2>1, <2>3 DEF Ahead, Elems
  <2>9. PhoneGrows BY <2>1, <2>3, <2>7, <2>8 DEF PhoneGrows
  <2>10. Ordered(pending)'
    <3>1. PICK q : q = pending OBVIOUS
    <3>2. \A y \in Elems(q) : SignedDelta(y) BY <3>1 DEF ServedOK, Known, AllDeltas
    <3>3. Ordered(q)' BY <1>0, <2>3, <2>7, <3>1, <3>2, OrderedStays DEF PhoneOK
    <3> QED BY <2>1, <3>1, <3>3 DEF Ordered
  <2>11. Ordered(s)'
    <3>1. \A y \in Elems(s) : SignedDelta(y) BY <2>0 DEF ServedOK, Known, HeldBy
    <3> QED BY <2>3, <2>4, <2>7, <3>1, OrderedStays
  <2>12. Ordered(procs[p].todo)'
    <3>1. CASE procs'[p].todo = <<>> BY <3>1 DEF Ordered
    <3>2. CASE procs'[p].todo = s BY <2>11, <3>2 DEF Ordered
    <3> QED BY <2>2, <3>1, <3>2
  <2>13. Grounded => Grounded' BY <2>1, <2>8 DEF Grounded
  <2>14. CmdIntact(procs[p])'
    <3>1. procs'[p].pc = "ack" => Head(procs'[p].todo) \in resolver' BY <2>2, <2>4, <2>6
    <3> QED BY <1>0, <2>1, <2>2, <2>12, <2>13, <3>1 DEF CmdIntact
  <2> QED BY <2>1, <2>2, <2>3, <2>9, <2>10, <2>13, <2>14, PhoneOn DEF PhoneOK
<1>3. ASSUME Ack(p) PROVE PhoneOK'
  <2>0. PICK x, s : x = Head(procs[p].todo) /\ s = procs[p].todo OBVIOUS
  <2>1. UNCHANGED <<root, confirmed, shown, resolver, basis>> BY <1>3 DEF Ack
  <2>2. /\ Others(p) /\ procs[p].pc = "ack" /\ s # <<>> /\ x \in Delta
        /\ procs'[p].pc = "publish" /\ procs'[p].todo = Tail(s)
        /\ procs'[p].kind = procs[p].kind /\ procs'[p].did = procs[p].did
        /\ \/ pending' = pending /\ closure' = closure
           \/ /\ Position(x) \in 1..Len(pending) /\ pending[Position(x)] = x
              /\ pending' = AfterRemoval(Position(x)) /\ closure' = closure \cup {x}
              /\ Elems(pending) \subseteq Elems(pending') \cup {x}
    BY <1>3, <2>0, AckIs
  <2>3. s \in Seq(Delta) /\ Ordered(s) /\ x = Head(s) /\ x \in resolver
    BY <1>0, <2>0, <2>2 DEF CmdIntact
  <2>4. closure' \subseteq resolver' BY <2>1, <2>2, <2>3 DEF PhoneOK
  <2>5. Ahead \subseteq Ahead' BY <2>1, <2>2, <2>3 DEF Ahead, Elems
  <2>6. BasisKept BY <2>1 DEF BasisKept
  <2>7. PhoneGrows BY <2>1, <2>5, <2>6 DEF PhoneGrows
  <2>8. Ordered(pending)'
    <3>1. CASE pending' = pending BY <2>1, <3>1, QueueStays DEF PhoneOK
    <3>2. CASE /\ Position(x) \in 1..Len(pending) /\ pending[Position(x)] = x
               /\ pending' = AfterRemoval(Position(x))
      <4>1. PICK r : r = AfterRemoval(Position(x)) OBVIOUS
      <4>2. Ordered(r) BY <1>0, <2>3, <3>2, <4>1, OrderedRemoval DEF PhoneOK
      <4>3. Ordered(r)' BY <2>1, <4>2, NeedsStay
      <4> QED BY <3>2, <4>1, <4>3 DEF Ordered
    <3> QED BY <2>2, <3>1, <3>2
  <2>9. Ordered(procs[p].todo)'
    <3>1. PICK t : t = Tail(s) OBVIOUS
    <3>2. Ordered(t) BY <2>2, <2>3, <3>1, OrderedTail
    <3>3. Ordered(t)' BY <2>1, <3>2, NeedsStay
    <3>4. procs'[p].todo = t BY <2>2, <3>1
    <3> QED BY <3>3, <3>4 DEF Ordered
  <2>10. Grounded => Grounded' BY <2>1, <2>5 DEF Grounded
  <2>11. CmdIntact(procs[p])' BY <1>0, <2>1, <2>2, <2>9, <2>10 DEF CmdIntact
  <2> QED BY <2>1, <2>2, <2>4, <2>7, <2>8, <2>10, <2>11, PhoneOn DEF PhoneOK
<1>4. ASSUME Finish(p) PROVE PhoneOK'
  <2>1. UNCHANGED <<root, confirmed, pending, closure, resolver, basis>> /\ End(p) BY <1>4 DEF Finish
  <2>2. \/ shown' = shown
        \/ procs[p].kind = "create" /\ procs[p].pc = "publish" /\ shown' = shown \cup {procs[p].did}
    BY <1>4 DEF Finish
  <2>3. Grounded' = Grounded BY <2>1 DEF Grounded, Ahead, Elems
  <2>4. shown' \subseteq {root} /\ (root \in shown' => Grounded) /\ shown \subseteq shown'
    BY <1>0, <2>2 DEF CmdIntact, PhoneOK
  <2>5. PhoneGrows BY <2>1, <2>4 DEF PhoneGrows, BasisKept, Ahead, Elems
  <2>6. Ordered(pending)' BY <2>1, QueueStays DEF PhoneOK
  <2>7. CmdIntact(procs[p])' BY <2>1, EndIs, IdleIs DEF CmdIntact
  <2>8. Others(p) BY <2>1, EndIs
  <2> QED BY <2>1, <2>3, <2>4, <2>5, <2>6, <2>7, <2>8, PhoneOn DEF PhoneOK
<1> QED BY <1>1, <1>2, <1>3, <1>4

LEMMA PhoneStops ==
  ASSUME StateOK, ServedOK, PhoneOK, ConfirmBackup \/ RejectOffer \/ Restart \/ NewPhone \/ ServiceRestart
  PROVE  PhoneOK'
<1> USE DEF session, service, device, custody
<1>1. CASE ConfirmBackup
  <2>1. UNCHANGED <<root, shown, pending, closure, resolver, basis, procs, intact>>
        /\ root # None /\ words \in shown
    BY <1>1 DEF ConfirmBackup, StateOK, TypeOK
  <2>2. intact => root \in shown BY <2>1 DEF PhoneOK
  <2>3. Ordered(pending) => Ordered(pending)' BY <2>1, QueueStays
  <2>4. PhoneGrows BY <2>1 DEF PhoneGrows, BasisKept, Ahead, Elems
  <2>5. Grounded => Grounded' BY <2>1 DEF Grounded, Ahead, Elems
  <2>6. intact => \A p \in Procs : CmdIntact(procs[p])'
    BY <2>1, <2>4, CommandStays DEF PhoneOK
  <2> QED BY <2>1, <2>2, <2>3, <2>5, <2>6 DEF PhoneOK
<1>2. CASE RejectOffer BY <1>2, PhoneIdle DEF RejectOffer
<1>3. CASE Restart
  <2>1. UNCHANGED <<root, confirmed, shown, pending, closure, resolver, basis, intact>>
        /\ \A p \in Procs : procs'[p] = Idle
    BY <1>3 DEF Restart
  <2>2. \A p \in Procs : CmdIntact(procs[p])' BY <2>1, IdleIs DEF CmdIntact
  <2>3. Ordered(pending) => Ordered(pending)' BY <2>1, QueueStays
  <2>4. Grounded => Grounded' BY <2>1 DEF Grounded, Ahead, Elems
  <2> QED BY <2>1, <2>2, <2>3, <2>4 DEF PhoneOK
<1>4. CASE NewPhone BY <1>4 DEF NewPhone, PhoneOK
<1>5. CASE ServiceRestart BY <1>5 DEF ServiceRestart, PhoneOK
<1> QED BY <1>1, <1>2, <1>3, <1>4, <1>5

LEMMA PhoneStep == StateOK /\ ServedOK /\ PhoneOK /\ [Next]_vars => PhoneOK'
<1> SUFFICES ASSUME StateOK, ServedOK, PhoneOK, [Next]_vars PROVE PhoneOK' OBVIOUS
<1>1. CASE UNCHANGED vars BY <1>1, PhoneIdle DEF vars, session, service, device, custody
<1>2. ASSUME NEW p \in Procs, Begin(p) PROVE PhoneOK' BY <1>2, PhoneBegin
<1>3. ASSUME NEW p \in Procs, Continue(p) PROVE PhoneOK'
  <2>1. CASE intact BY <1>3, <2>1, PhoneLinks, PhoneRevokes, PhonePublishes DEF Continue
  <2>2. CASE ~intact
    <3>1. intact' = intact
      BY <1>3 DEF Continue, RecordGenesis, FetchClosure, AdoptClosure, ClearSession, HoldOffer, SignLink,
                  PutBundle, RecordLink, RecordRevoke, Snapshot, Publish, PublishUnanswered, Ack, Finish, Refused
    <3> QED BY <2>2, <3>1 DEF PhoneOK
  <2> QED BY <2>1, <2>2
<1>4. ASSUME NEW d \in Devs, Device(d) PROVE PhoneOK'
  <2>1. UNCHANGED <<root, confirmed, shown, pending, closure, resolver, basis, procs, intact>>
    BY <1>4 DEF Device, ShowCode, PollBundle, GiveUp, ForgetIdentity, Expire, Sweep, session, service, custody
  <2> QED BY <2>1, PhoneIdle
<1>5. CASE ConfirmBackup \/ RejectOffer \/ Restart \/ NewPhone \/ ServiceRestart BY <1>5, PhoneStops
<1> QED BY <1>1, <1>2, <1>3, <1>4, <1>5 DEF Next

LEMMA PhoneInit == Init => PhoneOK
<1> SUFFICES ASSUME Init PROVE PhoneOK OBVIOUS
<1>1. \A p \in Procs : procs[p] = Idle BY DEF Init
<1>2. \A p \in Procs : CmdIntact(procs[p]) BY <1>1, IdleIs DEF CmdIntact
<1>3. Ordered(pending) BY DEF Init, Ordered
<1> QED BY <1>2, <1>3 DEF PhoneOK, Init

(* net.rs, publish: while phone and service keep their state, whatever a     *)
(* flush has acknowledged is stored, however flushes overlap or are lost.    *)
THEOREM AckedStoredAlways == Spec => []AckedStored
<1>1. Init => StateOK /\ ServedOK /\ PhoneOK BY StateInit, ServedInit, PhoneInit
<1>2. (StateOK /\ ServedOK /\ PhoneOK) /\ [Next]_vars => (StateOK /\ ServedOK /\ PhoneOK)'
  BY StateStep, ServedStep, PhoneStep
<1>3. PhoneOK => AckedStored BY DEF PhoneOK, AckedStored, AckMeansStored
<1> QED BY <1>1, <1>2, <1>3, PTL DEF Spec

-----------------------------------------------------------------------------
(* What a device joins *)

(* A step that fills no slot, changes no device and takes no words back. *)
LEMMA DeviceOn ==
  ASSUME DeviceOK, UNCHANGED <<bundle, client, joined>>, shown \subseteq shown', intact' => intact,
         \A d \in Devs : slots'[d].bundle = "full" => slots[d].bundle = "full"
  PROVE  DeviceOK'
BY DEF DeviceOK

LEMMA DeviceBegin == ASSUME StateOK, DeviceOK, NEW p \in Procs, Begin(p) PROVE DeviceOK'
<1> USE DEF service, device, custody
<1>1. ASSUME NEW d \in Devs, ReadCode(p, d) PROVE DeviceOK'
  <2>1. UNCHANGED <<shown, intact, bundle, client, joined>> /\ slots' = [slots EXCEPT ![d].offer = "read"]
    BY <1>1 DEF ReadCode
  <2>2. \A e \in Devs : slots'[e].bundle = slots[e].bundle BY <2>1 DEF StateOK, TypeOK
  <2> QED BY <2>1, <2>2, DeviceOn
<1>2. CASE UNCHANGED <<shown, bundle, client, joined, slots>> /\ (intact' => intact) BY <1>2, DeviceOn
<1>3. ASSUME NEW i \in Ids, CreateRoot(p, i) \/ RestoreRoot(p, i) PROVE DeviceOK'
  BY <1>2, <1>3 DEF CreateRoot, RestoreRoot
<1>4. ASSUME NEW d \in Devs, UnlinkStart(p, d) PROVE DeviceOK' BY <1>2, <1>4 DEF UnlinkStart
<1>5. CASE ForgetRoot(p) \/ Authorise(p) \/ Flush(p) BY <1>2, <1>5 DEF ForgetRoot, Authorise, Flush
<1> QED BY <1>1, <1>3, <1>4, <1>5 DEF Begin

LEMMA DeviceContinue ==
  ASSUME StateOK, PhoneOK, DeviceOK, NEW p \in Procs, Continue(p) PROVE DeviceOK'
<1> USE DEF service, device, custody
<1>1. CASE PutBundle(p)
  <2>0. PICK d, i, j : d = procs[p].dev /\ i = procs[p].did /\ j = procs[p].signer OBVIOUS
  <2>1. d \in Devs /\ i \in Ids /\ j \in Ids
    BY <1>1, <2>0 DEF PutBundle, StateOK, Commands, CmdOK
  <2>2. /\ UNCHANGED <<shown, intact, client, joined>>
        /\ slots' = [slots EXCEPT ![d].bundle = "full"] /\ bundle' = [bundle EXCEPT ![d] = <<i, j>>]
    BY <1>1, <2>0 DEF PutBundle
  <2>3. /\ bundle'[d] = <<i, j>> /\ <<i, j>> # None
        /\ \A e \in Devs : e # d => bundle'[e] = bundle[e] /\ slots'[e] = slots[e]
    BY <2>1, <2>2, SetsAssumption DEF StateOK, TypeOK
  <2>4. intact => i \in shown BY <1>1, <2>0 DEF PutBundle, PhoneOK, CmdIntact
  <2>5. ASSUME NEW e \in Devs
        PROVE  /\ slots'[e].bundle = "full" => bundle'[e] # None
               /\ intact' /\ bundle'[e] # None => bundle'[e][1] \in shown'
    <3>1. CASE e = d BY <2>2, <2>3, <2>4, <3>1
    <3>2. CASE e # d BY <2>2, <2>3, <3>2 DEF DeviceOK
    <3> QED BY <3>1, <3>2
  <2> QED BY <2>2, <2>5 DEF DeviceOK
<1>2. CASE ~PutBundle(p)
  <2>1. UNCHANGED <<bundle, client, joined, slots, intact>> /\ shown \subseteq shown'
    BY <1>2 DEF Continue, RecordGenesis, FetchClosure, AdoptClosure, ClearSession, HoldOffer, SignLink,
                RecordLink, RecordRevoke, Snapshot, Publish, PublishUnanswered, Ack, Finish, Refused
  <2> QED BY <2>1, DeviceOn
<1> QED BY <1>1, <1>2

LEMMA DeviceMoves == ASSUME StateOK, DeviceOK, NEW d \in Devs, Device(d) PROVE DeviceOK'
<1> USE DEF custody
<1>0. UNCHANGED <<shown, intact, bundle>>
  BY DEF Device, ShowCode, PollBundle, GiveUp, ForgetIdentity, Expire, Sweep, service
<1>1. CASE PollBundle(d)
  <2>1. slots[d].bundle = "full" /\ slots' = [slots EXCEPT ![d].bundle = "read"] BY <1>1 DEF PollBundle
  <2>2. \A e \in Devs : slots'[e].bundle = "full" => slots[e].bundle = "full"
    BY <2>1 DEF StateOK, TypeOK
  <2>3. \/ Accepts(d) /\ client' = [client EXCEPT ![d] = "linked"] /\ SaveIdentity(d)
        \/ client' = [client EXCEPT ![d] = "failed"] /\ joined' = joined
        \/ UNCHANGED <<client, joined>>
    BY <1>1 DEF PollBundle
  <2>4. CASE Accepts(d) /\ client' = [client EXCEPT ![d] = "linked"] /\ SaveIdentity(d)
    <3>1. /\ bundle[d] # None /\ bundle[d][1] = bundle[d][2] /\ (intact => bundle[d][1] \in shown)
      BY <2>1, <2>4 DEF DeviceOK, Accepts
    <3>2. /\ joined'[d] = bundle[d]
          /\ \A e \in Devs : e # d => joined'[e] = joined[e] /\ client'[e] = client[e]
      BY <2>4 DEF SaveIdentity, StateOK, TypeOK
    <3> QED BY <1>0, <2>2, <3>1, <3>2 DEF DeviceOK
  <2>5. CASE client' = [client EXCEPT ![d] = "failed"] /\ joined' = joined
    <3>1. \A e \in Devs : client'[e] = "linked" => client[e] = "linked" BY <2>5 DEF StateOK, TypeOK
    <3> QED BY <1>0, <2>2, <2>5, <3>1 DEF DeviceOK
  <2>6. CASE UNCHANGED <<client, joined>> BY <1>0, <2>2, <2>6, DeviceOn
  <2> QED BY <2>3, <2>4, <2>5, <2>6
<1>2. CASE ForgetIdentity(d)
  <2>1. /\ client' = [client EXCEPT ![d] = "unlinked"] /\ joined' = [joined EXCEPT ![d] = None]
        /\ slots' = slots
    BY <1>2 DEF ForgetIdentity, service
  <2>2. /\ client'[d] = "unlinked" /\ joined'[d] = None
        /\ \A e \in Devs : e # d => joined'[e] = joined[e] /\ client'[e] = client[e]
    BY <2>1 DEF StateOK, TypeOK
  <2> QED BY <1>0, <2>1, <2>2 DEF DeviceOK
<1>3. CASE ShowCode(d) \/ GiveUp(d) \/ Expire(d) \/ Sweep(d)
  <2>1. joined' = joined BY <1>3 DEF ShowCode, GiveUp, Expire, Sweep, device
  <2>2. \A e \in Devs : client'[e] = "linked" => client[e] = "linked"
    BY <1>3 DEF ShowCode, GiveUp, Expire, Sweep, device, StateOK, TypeOK
  <2>3. \A e \in Devs : slots'[e].bundle = "full" => slots[e].bundle = "full"
    <3>1. CASE ShowCode(d)
      <4>1. slots' = [slots EXCEPT ![d].offer = "full"] BY <3>1 DEF ShowCode
      <4> QED BY <4>1 DEF StateOK, TypeOK
    <3>2. CASE Sweep(d)
      <4>1. slots' = [slots EXCEPT ![d] = [offer |-> "empty", bundle |-> "empty"]] BY <3>2 DEF Sweep
      <4> QED BY <4>1 DEF StateOK, TypeOK
    <3>3. CASE GiveUp(d) \/ Expire(d) BY <3>3 DEF GiveUp, Expire, service
    <3> QED BY <1>3, <3>1, <3>2, <3>3
  <2> QED BY <1>0, <2>1, <2>2, <2>3 DEF DeviceOK
<1> QED BY <1>1, <1>2, <1>3 DEF Device

LEMMA DeviceStops ==
  ASSUME StateOK, DeviceOK, ConfirmBackup \/ RejectOffer \/ Restart \/ NewPhone \/ ServiceRestart
  PROVE  DeviceOK'
<1> USE DEF service, device, custody
<1>1. UNCHANGED <<shown, bundle, client, joined>> /\ (intact' => intact)
  BY DEF ConfirmBackup, RejectOffer, Restart, NewPhone, ServiceRestart
<1>2. \A d \in Devs : slots'[d].bundle = "full" => slots[d].bundle = "full"
  BY DEF ConfirmBackup, RejectOffer, Restart, NewPhone, ServiceRestart
<1> QED BY <1>1, <1>2, DeviceOn

LEMMA DeviceStep == StateOK /\ PhoneOK /\ DeviceOK /\ [Next]_vars => DeviceOK'
<1> SUFFICES ASSUME StateOK, PhoneOK, DeviceOK, [Next]_vars PROVE DeviceOK' OBVIOUS
<1>1. CASE UNCHANGED vars BY <1>1, DeviceOn DEF vars, service, device, custody
<1>2. CASE Next BY <1>2, DeviceBegin, DeviceContinue, DeviceMoves, DeviceStops DEF Next
<1> QED BY <1>1, <1>2

(* The four parts together: from any state they describe, every step of the  *)
(* wallet, the service or a device leads to another such state.              *)
THEOREM PublicationInvariant == Spec => []IInv
<1>1. Init => DeviceOK BY DEF Init, DeviceOK
<1>2. Init => IInv BY <1>1, StateInit, ServedInit, PhoneInit DEF IInv
<1>3. IInv /\ [Next]_vars => IInv' BY StateStep, ServedStep, PhoneStep, DeviceStep DEF IInv
<1> QED BY <1>2, <1>3, PTL DEF Spec

(* REQ-002 from the device's side: on a phone that forgot nothing, a device   *)
(* is linked to an identity whose twelve words reached the person first      *)
(* (require_backup_confirmed), and it can always say to which.               *)
THEOREM JoinedBackedUpAlways == Spec => []JoinedBackedUp
<1>1. IInv => JoinedBackedUp
  <2> SUFFICES ASSUME StateOK, DeviceOK, NEW d \in Devs
               PROVE  /\ client[d] = "linked" => StatusShown(d) # None
                      /\ intact /\ StatusShown(d) # None => StatusShown(d) \in shown
    BY DEF IInv, JoinedBackedUp
  <2>1. joined[d] \in (Ids \X Ids) \cup {None} BY DEF StateOK, TypeOK
  <2>2. joined[d] # None => joined[d][1] \in Ids /\ joined[d][1] # None BY <2>1, SetsAssumption
  <2> QED BY <2>2 DEF DeviceOK, StatusShown, LoadIdentity
<1> QED BY <1>1, PublicationInvariant, PTL

-----------------------------------------------------------------------------
(* What leaves the queue *)

LEMMA QueueStep ==
  ASSUME StateOK, Next
  PROVE  \/ pending' = <<>> /\ closure' = {}
         \/ Elems(pending) \subseteq Elems(pending') \cup closure'
<1> USE DEF session
<1>0. pending \in Seq(Delta) BY DEF StateOK, TypeOK
<1>1. CASE UNCHANGED pending BY <1>1 DEF Elems
<1>2. ASSUME NEW p \in Procs, Continue(p)
      PROVE  \/ pending' = <<>> /\ closure' = {}
             \/ Elems(pending) \subseteq Elems(pending') \cup closure'
  <2>0. CmdOK(procs[p]) /\ procs[p] \in ProcState BY DEF StateOK, Commands
  <2>1. CASE RecordGenesis(p)
    <3>1. PICK i : i = root OBVIOUS
    <3>2. i \in Ids /\ pending' = pending \o <<Genesis(i), Profile(i)>>
      BY <2>1, <3>1 DEF RecordGenesis, StateOK, TypeOK
    <3>3. <<Genesis(i), Profile(i)>> \in Seq(Delta) BY <3>2, DeltasAre
    <3>4. PICK t : t = <<Genesis(i), Profile(i)>> OBVIOUS
    <3>5. t \in Seq(Delta) /\ pending' = pending \o t BY <3>2, <3>3, <3>4
    <3> QED BY <1>0, <3>5, ElemsOfConcat
  <2>2. CASE RecordLink(p)
    <3>1. PICK i, d : i = procs[p].signer /\ d = procs[p].dev OBVIOUS
    <3>2. i \in Ids /\ d \in Devs /\ pending' = pending \o <<Add(i, d), Label(i, d)>>
      BY <2>0, <2>2, <3>1 DEF RecordLink, CmdOK, LinkDeltas
    <3>3. <<Add(i, d), Label(i, d)>> \in Seq(Delta) BY <3>2, DeltasAre
    <3>4. PICK t : t = <<Add(i, d), Label(i, d)>> OBVIOUS
    <3>5. t \in Seq(Delta) /\ pending' = pending \o t BY <3>2, <3>3, <3>4
    <3> QED BY <1>0, <3>5, ElemsOfConcat
  <2>3. CASE RecordRevoke(p)
    <3>1. PICK x : x = Revoke(procs[p].did, procs[p].dev) OBVIOUS
    <3>2. x \in Delta /\ pending' = Append(pending, x)
      BY <2>0, <2>3, <3>1, DeltasAre DEF RecordRevoke, CmdOK
    <3>3. /\ Len(pending') = Len(pending) + 1
          /\ \A k \in 1..Len(pending) : k \in 1..Len(pending') /\ pending'[k] = pending[k]
      BY <1>0, <3>2
    <3> QED BY <3>3 DEF Elems
  <2>4. CASE AdoptClosure(p)
    <3>1. PICK gone : gone = procs[p].have OBVIOUS
    <3>2. closure' = gone /\ pending' = Retained(pending, gone) BY <2>4, <3>1 DEF AdoptClosure
    <3>3. Elems(Retained(pending, gone)) = Elems(pending) \ gone BY <1>0, RetainedIs
    <3> QED BY <3>2, <3>3
  <2>5. CASE ClearSession(p) BY <2>5 DEF ClearSession
  <2>6. CASE Ack(p)
    <3>1. PICK x : x = Head(procs[p].todo) OBVIOUS
    <3>2. \/ pending' = pending
          \/ closure' = closure \cup {x} /\ Elems(pending) \subseteq Elems(pending') \cup {x}
      BY <2>6, <3>1, AckIs
    <3> QED BY <3>2 DEF Elems
  <2>7. CASE \/ FetchClosure(p) \/ HoldOffer(p) \/ SignLink(p) \/ PutBundle(p) \/ Snapshot(p)
             \/ Publish(p) \/ PublishUnanswered(p) \/ Finish(p) \/ Refused(p)
    BY <1>1, <2>7 DEF FetchClosure, HoldOffer, SignLink, PutBundle, Snapshot, Publish,
                      PublishUnanswered, Finish, Refused
  <2> QED BY <1>2, <2>1, <2>2, <2>3, <2>4, <2>5, <2>6, <2>7 DEF Continue
<1>3. ASSUME NEW p \in Procs, Begin(p) PROVE UNCHANGED pending
  BY <1>3 DEF Begin, CreateRoot, RestoreRoot, ReadCode, UnlinkStart, ForgetRoot, Authorise, Flush
<1>4. ASSUME NEW d \in Devs, Device(d) PROVE UNCHANGED pending
  BY <1>4 DEF Device, ShowCode, PollBundle, GiveUp, ForgetIdentity, Expire, Sweep
<1>5. CASE ConfirmBackup \/ RejectOffer \/ Restart \/ ServiceRestart
  BY <1>1, <1>5 DEF ConfirmBackup, RejectOffer, Restart, ServiceRestart
<1>6. CASE NewPhone BY <1>6 DEF NewPhone
<1> QED BY <1>1, <1>2, <1>3, <1>4, <1>5, <1>6 DEF Next

(* acknowledge, adopt_closure and clear: a queued delta is never dropped; it *)
(* moves into the closure, or the whole session goes with it.                *)
THEOREM QueueKeptAlways == Spec => QueueKept
<1>1. StateOK /\ [Next]_vars
        => [\/ pending' = <<>> /\ closure' = {}
            \/ Elems(pending) \subseteq Elems(pending') \cup closure']_vars
  BY QueueStep
<1> QED BY <1>1, StateInit, StateStep, PTL DEF Spec, QueueKept
=============================================================================
