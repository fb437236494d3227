-------------------------- MODULE LinkStoreProofs --------------------------
(***************************************************************************)
(* TLAPS proofs about LinkStore, for any number of applications, relays,   *)
(* ceremonies, devices and root generations and whatever profiles an       *)
(* application serves: every stored link can be found and outlives neither *)
(* its root nor its deletion, and what the hub finalised is kept.          *)
(***************************************************************************)
EXTENDS LinkStore, SequenceTheorems, FiniteSetTheorems, TLAPS

-----------------------------------------------------------------------------
(* The inductive invariant *)

\* What the store holds is well formed, its own application's, and listed.
Disks == [index : SUBSET Apps, slots : [Apps -> Seq(Record)], policy : SUBSET Pairs]
Owned(d) == \A a \in Apps : \A rec \in Records(d.slots[a]) :
              AppOf[rec.c] = a /\ OfferKeyRetainedIn(rec.prof)
Listed(d) == \A a \in Apps : d.slots[a] # <<>> => a \in d.index
DiskOK(d) == /\ d \in Disks
             /\ IsFiniteSet(d.index) /\ Cardinality(d.index) <= MaxLinks
             /\ \A a \in Apps : Valid(d.slots[a])
             /\ Owned(d) /\ Listed(d)

WorkerSteps == {"idle", "insert", "inserting", "recheck", "ready", "begin", "stage", "drop",
                "release", "sent", "receive", "verify"}
UnlinkSteps == {"idle", "confirm", "load", "set", "write", "undoLoad", "undoSet"}
\* What each command knows.
WorkerOK(w) ==
  /\ w \in [pc : WorkerSteps, c : Ceremonies \cup {None}, live : BOOLEAN,
            cur : Record \cup {None}, seen : SUBSET Pairs]
  /\ w.pc \notin {"idle", "drop"} => w.c \in Ceremonies
  /\ w.pc \in {"begin", "stage", "drop", "verify"} => w.cur \in Record
  /\ w.pc \in {"begin", "stage"} => w.cur.c = w.c
  /\ w.pc = "begin" => w.cur.stage = "FinalApproval" /\ w.cur.prof = Offered
  /\ w.pc = "stage" => Pending(w.cur)
UnlinkOK(u) ==
  /\ u \in [pc : UnlinkSteps, app : Apps \cup {None}, snap : Seq(Record),
            states : SUBSET (Pairs \X BOOLEAN), todo : SUBSET Pairs, undo : SUBSET Pairs,
            seen : SUBSET Pairs]
  /\ u.pc \in {"confirm", "load", "set", "write"} => u.app \in Apps /\ u.snap # <<>>
LocalsOK ==
  /\ root \in Roots \cup {None}
  /\ WorkerOK(worker) /\ UnlinkOK(unlink)
  /\ recovery \in Record \cup {None} /\ (recovery # None => recovery.stage \in PayloadStages)
  /\ reload \in Record \cup {None} /\ (reload # None => Installed(reload))
  /\ forget \in {"idle", "links", "policy", "custody"}
  /\ hub \in [Ceremonies -> {"unknown", "started", "offered", "final", "void"}]
  /\ removed \subseteq Ceremonies /\ gone \subseteq Ceremonies

\* unlink_local holds the lock: its snapshot stays what is stored.
SnapshotKept == unlink.pc \in {"load", "set", "write"} => disk.slots[unlink.app] = unlink.snap

\* A ceremony that has no record yet never had one.
Fresh(c) == c \notin gone /\ ~Stored(disk, c)
FreshOK ==
  /\ \A c \in gone : ~Stored(disk, c)
  /\ \A c \in Ceremonies : hub[c] = "unknown" => Fresh(c)
  /\ worker.pc \notin {"idle", "drop"} => hub[worker.c] # "unknown"
  /\ worker.pc \in {"insert", "inserting", "recheck", "ready", "begin"} => Fresh(worker.c)

\* A root change fences the worker, and once the links are purged nothing but
\* an approval that was on its way is written.
RootOK ==
  /\ \A rec \in RecordsIn(disk) : rec.root # root => rec.stage = "FinalApproval"
  /\ forget # "idle" => ~worker.live /\ root # None
  /\ root = None => ~worker.live
  /\ forget \in {"policy", "custody"} => \A rec \in RecordsIn(disk) : rec.stage = "FinalApproval"
  /\ worker.live /\ worker.pc \in {"begin", "stage"} => worker.cur.root = root
  /\ worker.pc = "stage" =>
       \/ worker.cur.root = root /\ forget \notin {"policy", "custody"}
       \/ ~Stored(disk, worker.c)

\* A payload is on the disk before it is released.
KeptStages == PayloadStages \cup {"Installed"}
KeptIn(d, c) == \E rec \in RecordsIn(d) : rec.c = c /\ rec.stage \in KeptStages
Kept(c) == KeptIn(disk, c) \/ c \in removed
KeptOK == /\ \A c \in Ceremonies : hub[c] \in {"offered", "final"} => Kept(c)
          /\ worker.pc = "release" /\ hub[worker.c] = "started" => Kept(worker.c)

IInv == DiskOK(disk) /\ LocalsOK /\ SnapshotKept /\ FreshOK /\ RootOK /\ KeptOK

-----------------------------------------------------------------------------
(* Entries of the store *)

(* The records of an entry. *)
LEMMA RecordsOf ==
  ASSUME NEW S, NEW s \in Seq(S)
  PROVE  /\ Records(s) \subseteq S
         /\ s = <<>> <=> Records(s) = {}
         /\ \A x \in S : Append(s, x) \in Seq(S) /\ Records(Append(s, x)) = Records(s) \cup {x}
         /\ \A x \in Records(s) : Position(s, x) \in 1..Len(s) /\ s[Position(s, x)] = x
<1>1. Records(s) \subseteq S BY DEF Records
<1>2. s = <<>> <=> Records(s) = {} BY EmptySeq DEF Records
<1>3. ASSUME NEW x \in S PROVE Append(s, x) \in Seq(S) /\ Records(Append(s, x)) = Records(s) \cup {x}
  <2>1. /\ Append(s, x) \in Seq(S) /\ Len(Append(s, x)) = Len(s) + 1 /\ Len(s) \in Nat
        /\ \A i \in 1..Len(s) : Append(s, x)[i] = s[i]
        /\ Append(s, x)[Len(s) + 1] = x
    BY <1>3, AppendProperties
  <2>2. \A i \in 1..Len(s) : i \in 1..(Len(s) + 1) BY <2>1
  <2>3. \A i \in 1..(Len(s) + 1) : i \in 1..Len(s) \/ i = Len(s) + 1 BY <2>1
  <2>4. Len(s) + 1 \in 1..(Len(s) + 1) BY <2>1
  <2> QED BY <2>1, <2>2, <2>3, <2>4 DEF Records
<1>4. \A x \in Records(s) : Position(s, x) \in 1..Len(s) /\ s[Position(s, x)] = x
  BY DEF Records, Position
<1> QED BY <1>1, <1>2, <1>3, <1>4

(* slots[position] = new. *)
LEMMA RecordsSwapped ==
  ASSUME NEW S, NEW s \in Seq(S), NEW k \in 1..Len(s), NEW t \in Seq(S), Len(t) = Len(s),
         \A i \in 1..Len(s) : i # k => t[i] = s[i]
  PROVE  /\ t # <<>>
         /\ Records(t) \subseteq Records(s) \cup {t[k]}
         /\ (Records(s) \ {s[k]}) \cup {t[k]} \subseteq Records(t)
<1>1. Records(t) \subseteq Records(s) \cup {t[k]} BY DEF Records
<1>2. (Records(s) \ {s[k]}) \cup {t[k]} \subseteq Records(t) BY DEF Records
<1>3. t # <<>> BY <1>2, EmptySeq DEF Records
<1> QED BY <1>1, <1>2, <1>3

(* slots.remove(position). *)
LEMMA RecordsRemoved ==
  ASSUME NEW S, NEW s \in Seq(S), NEW k \in 1..Len(s)
  PROVE  /\ Removed(s, k) \in Seq(S)
         /\ Records(Removed(s, k)) \subseteq Records(s)
         /\ Records(s) \ {s[k]} \subseteq Records(Removed(s, k))
<1> DEFINE t == Removed(s, k)  n == Len(s) - 1
<1>1. Len(s) \in Nat /\ n \in Nat /\ k \in Nat OBVIOUS
<1>2. \A i \in 1..n : i \in 1..Len(s) /\ i + 1 \in 1..Len(s) BY <1>1
<1>3. /\ t = [i \in 1..n |-> IF i < k THEN s[i] ELSE s[i + 1]]
      /\ \A i \in 1..n : t[i] \in S
  BY <1>2 DEF Removed
<1>4. t \in Seq(S) /\ Len(t) = n
  <2>1. t \in [1..n -> S] BY <1>3
  <2> QED BY <1>1, <2>1, SeqDef, LenProperties
<1>5. \A i \in 1..n : t[i] = IF i < k THEN s[i] ELSE s[i + 1] BY <1>3
<1> HIDE DEF t
<1>6. Records(t) \subseteq Records(s) BY <1>2, <1>4, <1>5 DEF Records
<1>7. Records(s) \ {s[k]} \subseteq Records(t)
  <2> SUFFICES ASSUME NEW i \in 1..Len(s), i # k PROVE \E j \in 1..n : t[j] = s[i]
    BY <1>4 DEF Records
  <2>1. CASE i < k
    <3>1. i \in 1..n BY <1>1, <2>1
    <3> QED BY <1>5, <2>1, <3>1
  <2>2. CASE ~(i < k)
    <3>1. i - 1 \in 1..n /\ ~(i - 1 < k) /\ (i - 1) + 1 = i BY <1>1, <2>2
    <3> QED BY <1>5, <3>1
  <2> QED BY <2>1, <2>2
<1> QED BY <1>4, <1>6, <1>7 DEF t

(* The records of an application are those of its ceremonies. *)
LEMMA EntryIs ==
  ASSUME NEW d, Owned(d), NEW a \in Apps
  PROVE  Records(d.slots[a]) = {rec \in RecordsIn(d) : AppOf[rec.c] = a}
BY DEF Owned, RecordsIn

(* What replacing one entry makes of them. *)
LEMMA EntryReplaced ==
  ASSUME NEW d, d \in Disks, Owned(d), NEW a \in Apps, NEW s,
         NEW x, x.slots = [d.slots EXCEPT ![a] = s]
  PROVE  RecordsIn(x) = {rec \in RecordsIn(d) : AppOf[rec.c] # a} \cup Records(s)
<1>1. \A b \in Apps : x.slots[b] = IF b = a THEN s ELSE d.slots[b] BY DEF Disks
<1>2. \A b \in Apps : Records(d.slots[b]) = {rec \in RecordsIn(d) : AppOf[rec.c] = b} BY EntryIs
<1>3. \A rec \in RecordsIn(d) : AppOf[rec.c] \in Apps BY DEF RecordsIn, Owned
<1>4. ASSUME NEW rec \in RecordsIn(x) PROVE rec \in {y \in RecordsIn(d) : AppOf[y.c] # a} \cup Records(s)
  <2>1. PICK b \in Apps : rec \in Records(x.slots[b]) BY <1>4 DEF RecordsIn
  <2> QED BY <1>1, <1>2, <2>1
<1>5. ASSUME NEW rec \in RecordsIn(d), AppOf[rec.c] # a PROVE rec \in RecordsIn(x)
  <2>1. rec \in Records(x.slots[AppOf[rec.c]]) BY <1>1, <1>2, <1>3, <1>5
  <2> QED BY <1>3, <2>1 DEF RecordsIn
<1>6. Records(s) \subseteq RecordsIn(x) BY <1>1 DEF RecordsIn
<1> QED BY <1>4, <1>5, <1>6

-----------------------------------------------------------------------------
(* Store operations *)

(* A result of writes is one of the disks they pass through. *)
LEMMA WrittenIs ==
  ASSUME NEW passed, NEW done, NEW r \in Written(passed, done)
  PROVE  \/ r.disk = done /\ r.ok = TRUE
         \/ r.disk \in passed \cup {done} /\ r.ok = FALSE
<1>1. \/ r = [disk |-> done, ok |-> TRUE]
      \/ \E d \in passed \cup {done} : r = [disk |-> d, ok |-> FALSE]
  BY DEF Written
<1>2. CASE r = [disk |-> done, ok |-> TRUE] BY <1>2
<1>3. ASSUME NEW d \in passed \cup {done}, r = [disk |-> d, ok |-> FALSE]
      PROVE  r.disk \in passed \cup {done} /\ r.ok = FALSE
  BY <1>3
<1> QED BY <1>1, <1>2, <1>3

LEMMA NothingWritten == ASSUME NEW d, NEW r \in Written({}, d) PROVE r.disk = d
BY DEF Written

LEMMA RefusedIs == ASSUME NEW d, NEW r \in Refused(d) PROVE r.disk = d /\ r.ok = FALSE
BY DEF Refused

(* A shorter index is within its bound. *)
LEMMA IndexShrinks ==
  ASSUME NEW d, DiskOK(d), NEW part, part \subseteq d.index
  PROVE  IsFiniteSet(part) /\ Cardinality(part) <= MaxLinks
<1>1. IsFiniteSet(d.index) /\ Cardinality(d.index) <= MaxLinks BY DEF DiskOK
<1>2. /\ IsFiniteSet(part) /\ Cardinality(part) <= Cardinality(d.index)
      /\ Cardinality(part) \in Nat /\ Cardinality(d.index) \in Nat
  BY <1>1, FS_Subset, FS_CardinalityType
<1> QED BY <1>1, <1>2, LinkAssumption

LEMMA EmptyIs == /\ <<>> \in Seq(Record) /\ Records(<<>>) = {} /\ Valid(<<>>)
<1>1. <<>> \in Seq(Record) /\ Len(<<>>) = 0 BY EmptySeq
<1>2. MaxApplicationLinks \in Nat BY LinkAssumption
<1> QED BY <1>1, <1>2 DEF Records, Valid

(* write_slots validates, and deletes an empty entry before its index row. *)
LEMMA WriteIs ==
  ASSUME NEW d, DiskOK(d), NEW a \in Apps, NEW s \in Seq(Record),
         \A rec \in Records(s) : AppOf[rec.c] = a /\ OfferKeyRetainedIn(rec.prof),
         s # <<>> => a \in d.index, NEW r \in WriteSlots(d, a, s)
  PROVE  /\ DiskOK(r.disk) /\ r.disk.policy = d.policy
         /\ \/ r.disk.slots = [d.slots EXCEPT ![a] = s] /\ r.ok \in BOOLEAN
            \/ r.disk.slots = d.slots /\ r.ok = FALSE
<1> DEFINE put == WithSlots(d, a, s)  cut == Unindexed(put, a)
<1>1. d \in Disks BY DEF DiskOK
<1>2. /\ put \in Disks /\ put.slots = [d.slots EXCEPT ![a] = s]
      /\ put.index = d.index /\ put.policy = d.policy
      /\ cut \in Disks /\ cut.slots = put.slots /\ cut.index = d.index \ {a} /\ cut.policy = d.policy
  BY <1>1 DEF WithSlots, Unindexed, Disks
<1>3. /\ put.slots[a] = s /\ \A b \in Apps : b # a => put.slots[b] = d.slots[b]
  BY <1>1, <1>2 DEF Disks
<1> HIDE DEF put, cut
<1>4. ASSUME Valid(s) PROVE DiskOK(put)
  <2>1. Owned(put) BY <1>3 DEF Owned, DiskOK
  <2>2. Listed(put) BY <1>2, <1>3 DEF Listed, DiskOK
  <2>3. \A b \in Apps : Valid(put.slots[b]) BY <1>3, <1>4 DEF DiskOK
  <2> QED BY <1>2, <2>1, <2>2, <2>3 DEF DiskOK
<1>5. ASSUME Valid(s), s = <<>> PROVE DiskOK(cut)
  <2>1. Owned(cut) /\ \A b \in Apps : Valid(cut.slots[b]) BY <1>2, <1>4, <1>5 DEF DiskOK, Owned
  <2>2. Listed(cut) BY <1>2, <1>3, <1>5 DEF Listed, DiskOK
  <2>3. IsFiniteSet(cut.index) /\ Cardinality(cut.index) <= MaxLinks
    <3>1. cut.index \subseteq d.index BY <1>2
    <3> QED BY <3>1, IndexShrinks
  <2> QED BY <1>2, <2>1, <2>2, <2>3 DEF DiskOK
<1>6. CASE ~Valid(s)
  <2>1. r \in Refused(d) BY <1>6 DEF WriteSlots
  <2> QED BY <2>1, RefusedIs
<1>7. CASE Valid(s) /\ s = <<>>
  <2>1. r \in Written({d, put}, cut) BY <1>7 DEF WriteSlots, put, cut
  <2>2. \/ r.disk = cut /\ r.ok = TRUE
        \/ r.disk \in {d, put} \cup {cut} /\ r.ok = FALSE
    BY <2>1, WrittenIs
  <2> QED BY <1>2, <1>4, <1>5, <1>7, <2>2
<1>8. CASE Valid(s) /\ s # <<>>
  <2>1. PICK P : P = {d} OBVIOUS
  <2>2. r \in Written(P, put) BY <1>8, <2>1 DEF WriteSlots, put
  <2>3. \/ r.disk = put /\ r.ok = TRUE
        \/ r.disk \in P \cup {put} /\ r.ok = FALSE
    BY <2>2, WrittenIs
  <2> QED BY <1>2, <1>4, <1>8, <2>1, <2>3
<1> QED BY <1>6, <1>7, <1>8

\* Compare-and-swap leaves everything but old, with new in its place, or nothing changed.
Swapped(d, r, old, new) ==
  \/ /\ old \in RecordsIn(d) /\ r.ok \in BOOLEAN
     /\ (RecordsIn(d) \ {old}) \cup {new} \subseteq RecordsIn(r.disk)
     /\ RecordsIn(r.disk) \subseteq RecordsIn(d) \cup {new}
  \/ RecordsIn(r.disk) = RecordsIn(d) /\ r.ok = FALSE

(* replace_pending, install, replace_installed. *)
LEMMA SwapIs ==
  ASSUME NEW d, DiskOK(d), NEW old \in Record, NEW new \in Record, new.c = old.c,
         new.prof = old.prof \/ OfferKeyRetainedIn(new.prof), NEW r \in Swap(d, old, new)
  PROVE  DiskOK(r.disk) /\ Swapped(d, r, old, new)
<1>0. PICK a, s : a = AppOf[old.c] /\ s = d.slots[a] OBVIOUS
<1>1. old.c \in Ceremonies /\ a \in Apps BY <1>0, LinkAssumption DEF Record
<1>2. d \in Disks /\ Owned(d) /\ Listed(d) /\ s \in Seq(Record) BY <1>0, <1>1 DEF DiskOK, Disks
<1>3. CASE old \notin Records(s)
  <2>1. r \in Refused(d) BY <1>0, <1>3 DEF Swap
  <2>2. r.disk = d /\ r.ok = FALSE BY <2>1, RefusedIs
  <2> QED BY <2>2 DEF Swapped
<1>4. CASE old \in Records(s)
  <2>1. PICK k : k = Position(s, old) OBVIOUS
  <2>2. k \in 1..Len(s) /\ s[k] = old BY <1>2, <1>4, <2>1, RecordsOf
  <2>3. PICK t : t = [s EXCEPT ![k] = new] OBVIOUS
  <2>4. /\ t \in Seq(Record) /\ t # <<>> /\ Records(t) \subseteq Records(s) \cup {new}
        /\ (Records(s) \ {old}) \cup {new} \subseteq Records(t)
    <3>1. /\ t \in Seq(Record) /\ Len(t) = Len(s) /\ t[k] = new
          /\ \A i \in 1..Len(s) : i # k => t[i] = s[i]
      BY <1>2, <2>2, <2>3, ExceptSeq
    <3>2. /\ t # <<>> /\ Records(t) \subseteq Records(s) \cup {t[k]}
          /\ (Records(s) \ {s[k]}) \cup {t[k]} \subseteq Records(t)
      BY <1>2, <2>2, <3>1, RecordsSwapped
    <3> QED BY <2>2, <3>1, <3>2
  <2>5. \A rec \in Records(t) : AppOf[rec.c] = a /\ OfferKeyRetainedIn(rec.prof)
    <3>1. \A rec \in Records(s) : AppOf[rec.c] = a /\ OfferKeyRetainedIn(rec.prof)
      BY <1>0, <1>1, <1>2 DEF Owned
    <3> QED BY <1>0, <1>4, <2>4, <3>1
  <2>6. s # <<>> BY <1>2, <1>4, RecordsOf
  <2>7. a \in d.index BY <1>0, <1>1, <1>2, <2>6 DEF Listed
  <2>8. r \in WriteSlots(d, a, t) BY <1>0, <1>4, <2>1, <2>3 DEF Swap
  <2>9. /\ DiskOK(r.disk)
        /\ \/ r.disk.slots = [d.slots EXCEPT ![a] = t] /\ r.ok \in BOOLEAN
           \/ r.disk.slots = d.slots /\ r.ok = FALSE
    BY <1>1, <2>4, <2>5, <2>7, <2>8, WriteIs
  <2>10. CASE r.disk.slots = [d.slots EXCEPT ![a] = t] /\ r.ok \in BOOLEAN
    <3>1. RecordsIn(r.disk) = {rec \in RecordsIn(d) : AppOf[rec.c] # a} \cup Records(t)
      BY <1>1, <1>2, <2>10, EntryReplaced
    <3>2. Records(s) = {rec \in RecordsIn(d) : AppOf[rec.c] = a} BY <1>0, <1>1, <1>2, EntryIs
    <3> QED BY <1>4, <2>4, <2>9, <2>10, <3>1, <3>2 DEF Swapped
  <2>11. CASE r.disk.slots = d.slots /\ r.ok = FALSE
    <3>1. RecordsIn(r.disk) = RecordsIn(d) BY <2>11 DEF RecordsIn
    <3> QED BY <2>9, <2>11, <3>1 DEF Swapped
  <2> QED BY <2>9, <2>10, <2>11
<1> QED BY <1>3, <1>4

(* An installed record that is there already is left as it is. *)
LEMMA InstallIs ==
  ASSUME NEW d, DiskOK(d), NEW old \in Record, NEW new \in Record, new.c = old.c,
         new.prof = old.prof \/ OfferKeyRetainedIn(new.prof), NEW r \in Install(d, old, new)
  PROVE  DiskOK(r.disk) /\ (Swapped(d, r, old, new) \/ RecordsIn(r.disk) = RecordsIn(d))
<1>1. CASE new \in RecordsIn(d) /\ old \notin RecordsIn(d)
  <2>1. r \in Written({}, d) BY <1>1 DEF Install
  <2>2. r.disk = d BY <2>1, NothingWritten
  <2> QED BY <2>2
<1>2. CASE ~(new \in RecordsIn(d) /\ old \notin RecordsIn(d))
  <2>1. r \in Swap(d, old, new) BY <1>2 DEF Install
  <2> QED BY <2>1, SwapIs
<1> QED BY <1>1, <1>2

(* Taking one record out loses no other. *)
LEMMA WithoutIs ==
  ASSUME NEW d, DiskOK(d), NEW rec \in RecordsIn(d), NEW r \in Without(d, rec)
  PROVE  /\ DiskOK(r.disk)
         /\ RecordsIn(r.disk) \subseteq RecordsIn(d)
         /\ RecordsIn(d) \ {rec} \subseteq RecordsIn(r.disk)
<1>0. PICK a, s : a = AppOf[rec.c] /\ s = d.slots[a] OBVIOUS
<1>1. PICK b \in Apps : rec \in Records(d.slots[b]) BY DEF RecordsIn
<1>2. a = b /\ a \in Apps /\ rec \in Records(s) BY <1>0, <1>1 DEF DiskOK, Owned
<1>3. d \in Disks /\ Owned(d) /\ Listed(d) /\ s \in Seq(Record) BY <1>0, <1>2 DEF DiskOK, Disks
<1>4. PICK k : k = Position(s, rec) OBVIOUS
<1>5. k \in 1..Len(s) /\ s[k] = rec BY <1>2, <1>3, <1>4, RecordsOf
<1>6. PICK t : t = Removed(s, k) OBVIOUS
<1>7. /\ t \in Seq(Record) /\ Records(t) \subseteq Records(s)
      /\ Records(s) \ {rec} \subseteq Records(t)
  BY <1>3, <1>5, <1>6, RecordsRemoved
<1>8. \A x \in Records(t) : AppOf[x.c] = a /\ OfferKeyRetainedIn(x.prof)
  BY <1>0, <1>2, <1>3, <1>7 DEF Owned
<1>9. s # <<>> BY <1>2, <1>3, RecordsOf
<1>10. a \in d.index BY <1>0, <1>2, <1>3, <1>9 DEF Listed
<1>11. r \in WriteSlots(d, a, t) BY <1>0, <1>4, <1>6 DEF Without
<1>12. /\ DiskOK(r.disk)
       /\ \/ r.disk.slots = [d.slots EXCEPT ![a] = t] /\ r.ok \in BOOLEAN
          \/ r.disk.slots = d.slots /\ r.ok = FALSE
  BY <1>2, <1>7, <1>8, <1>10, <1>11, WriteIs
<1>13. CASE r.disk.slots = [d.slots EXCEPT ![a] = t]
  <2>1. RecordsIn(r.disk) = {x \in RecordsIn(d) : AppOf[x.c] # a} \cup Records(t)
    BY <1>2, <1>3, <1>13, EntryReplaced
  <2>2. Records(s) = {x \in RecordsIn(d) : AppOf[x.c] = a} BY <1>0, <1>2, <1>3, EntryIs
  <2> QED BY <1>7, <1>12, <2>1, <2>2
<1>14. CASE r.disk.slots = d.slots BY <1>12, <1>14 DEF RecordsIn
<1> QED BY <1>12, <1>13, <1>14

(* persist_pending indexes first, so that a failure leaves nothing unlisted. *)
LEMMA AddIs ==
  ASSUME NEW d, DiskOK(d), NEW rec \in Record, rec.prof = Offered, NEW r \in PersistPending(d, rec)
  PROVE  /\ DiskOK(r.disk)
         /\ RecordsIn(d) \subseteq RecordsIn(r.disk)
         /\ RecordsIn(r.disk) \subseteq RecordsIn(d) \cup {rec}
<1>0. PICK a, s : a = AppOf[rec.c] /\ s = Append(d.slots[a], rec) OBVIOUS
<1>1. a \in Apps BY <1>0, LinkAssumption DEF Record
<1>2. /\ d \in Disks /\ Owned(d) /\ Listed(d) /\ d.slots[a] \in Seq(Record)
      /\ IsFiniteSet(d.index) /\ Cardinality(d.index) <= MaxLinks
  BY <1>1 DEF DiskOK, Disks
<1> DEFINE row == Indexed(d, a)  put == WithSlots(row, a, s)
<1>3. s \in Seq(Record) /\ Records(s) = Records(d.slots[a]) \cup {rec} BY <1>0, <1>2, RecordsOf
<1>4. /\ row \in Disks /\ row.slots = d.slots /\ row.index = d.index \cup {a}
      /\ put \in Disks /\ put.slots = [d.slots EXCEPT ![a] = s] /\ put.index = row.index
  BY <1>1, <1>2, <1>3 DEF Indexed, WithSlots, Disks
<1>5. /\ put.slots[a] = s /\ \A b \in Apps : b # a => put.slots[b] = d.slots[b]
  BY <1>1, <1>2, <1>4 DEF Disks
<1> HIDE DEF row, put
<1>6. ASSUME Valid(s), a \in d.index \/ ~(Cardinality(d.index) >= MaxLinks)
      PROVE  DiskOK(row) /\ DiskOK(put)
  <2>1. IsFiniteSet(row.index) /\ Cardinality(row.index) <= MaxLinks
    <3>1. CASE a \in d.index
      <4>1. row.index = d.index BY <1>4, <3>1
      <4> QED BY <1>2, <4>1
    <3>2. CASE a \notin d.index /\ ~(Cardinality(d.index) >= MaxLinks)
      <4>1. IsFiniteSet(row.index) /\ Cardinality(row.index) = Cardinality(d.index) + 1
        BY <1>2, <1>4, <3>2, FS_AddElement
      <4>2. Cardinality(d.index) \in Nat /\ MaxLinks \in Nat BY <1>2, LinkAssumption, FS_CardinalityType
      <4> QED BY <3>2, <4>1, <4>2
    <3> QED BY <1>6, <3>1, <3>2
  <2>2. DiskOK(row)
    <3>1. Owned(row) /\ Listed(row) /\ \A b \in Apps : Valid(row.slots[b])
      BY <1>2, <1>4 DEF Owned, Listed, DiskOK
    <3> QED BY <1>4, <2>1, <3>1 DEF DiskOK
  <2>3. DiskOK(put)
    <3>1. \A b \in Apps : Valid(put.slots[b]) BY <1>5, <1>6 DEF DiskOK
    <3>2. ASSUME NEW b \in Apps, NEW x \in Records(put.slots[b])
          PROVE  AppOf[x.c] = b /\ OfferKeyRetainedIn(x.prof)
      <4>1. CASE x \in Records(d.slots[b]) BY <1>2, <4>1 DEF Owned
      <4>2. CASE b = a /\ x = rec BY <1>0, <4>2 DEF OfferKeyRetainedIn
      <4> QED BY <1>3, <1>5, <4>1, <4>2
    <3>3. Listed(put) BY <1>2, <1>4, <1>5 DEF Listed
    <3> QED BY <1>4, <2>1, <3>1, <3>2, <3>3 DEF DiskOK, Owned
  <2> QED BY <2>2, <2>3
<1>7. RecordsIn(row) = RecordsIn(d) BY <1>4 DEF RecordsIn
<1>8. RecordsIn(put) = RecordsIn(d) \cup {rec}
  <2>1. RecordsIn(put) = {x \in RecordsIn(d) : AppOf[x.c] # a} \cup Records(s)
    BY <1>1, <1>2, <1>4, EntryReplaced
  <2>2. Records(d.slots[a]) = {x \in RecordsIn(d) : AppOf[x.c] = a} BY <1>1, <1>2, EntryIs
  <2> QED BY <1>3, <2>1, <2>2
<1>9. PICK Q : Q = {d, row} OBVIOUS
<1>10. \/ r \in Written({}, d) \/ r \in Refused(d)
       \/ /\ Valid(s) /\ (a \in d.index \/ ~(Cardinality(d.index) >= MaxLinks))
          /\ r \in Written(Q, put)
  BY <1>0, <1>9 DEF PersistPending, row, put
<1>11. CASE r \in Written({}, d) \/ r \in Refused(d)
  <2>1. r.disk = d BY <1>11, NothingWritten, RefusedIs
  <2> QED BY <2>1
<1>12. CASE /\ Valid(s) /\ (a \in d.index \/ ~(Cardinality(d.index) >= MaxLinks))
            /\ r \in Written(Q, put)
  <2>1. \/ r.disk = put /\ r.ok = TRUE
        \/ r.disk \in Q \cup {put} /\ r.ok = FALSE
    BY <1>12, WrittenIs
  <2>2. r.disk \in {d, row, put} BY <1>9, <2>1
  <2> QED BY <1>6, <1>7, <1>8, <1>12, <2>2
<1> QED BY <1>10, <1>11, <1>12

(* purge_all_links clears entries and then the index: the whole store, in   *)
(* the end, because every record is listed.                                  *)
LEMMA PurgeIs ==
  ASSUME NEW d, DiskOK(d), NEW r \in PurgeAllLinks(d)
  PROVE  /\ DiskOK(r.disk) /\ RecordsIn(r.disk) \subseteq RecordsIn(d)
         /\ \/ r.ok = TRUE /\ RecordsIn(r.disk) = {}
            \/ r.ok = FALSE
<1>0. d \in Disks /\ Owned(d) /\ Listed(d) BY DEF DiskOK
<1> DEFINE end == [Purged(d, d.index) EXCEPT !.index = {}]
<1>1. ASSUME NEW part \in SUBSET d.index
      PROVE  /\ Purged(d, part) \in Disks /\ Purged(d, part).index = d.index
             /\ Purged(d, part).policy = d.policy
             /\ \A a \in Apps : Purged(d, part).slots[a] = IF a \in part THEN <<>> ELSE d.slots[a]
  BY <1>0, EmptyIs DEF Purged, Disks
<1>2. ASSUME NEW x, \A a \in Apps : x.slots[a] = <<>> \/ x.slots[a] = d.slots[a]
      PROVE  /\ Owned(x) /\ \A a \in Apps : Valid(x.slots[a])
             /\ RecordsIn(x) \subseteq RecordsIn(d)
  <2>1. \A a \in Apps : Records(x.slots[a]) \subseteq Records(d.slots[a]) BY <1>2, EmptyIs
  <2>2. \A a \in Apps : Valid(x.slots[a]) BY <1>2, EmptyIs DEF DiskOK
  <2>3. Owned(x) BY <1>0, <2>1 DEF Owned
  <2> QED BY <2>1, <2>2, <2>3 DEF RecordsIn
<1>3. ASSUME NEW part \in SUBSET d.index
      PROVE  DiskOK(Purged(d, part)) /\ RecordsIn(Purged(d, part)) \subseteq RecordsIn(d)
  <2>1. PICK x : x = Purged(d, part) OBVIOUS
  <2>2. /\ x \in Disks /\ x.index = d.index
        /\ \A a \in Apps : x.slots[a] = <<>> \/ x.slots[a] = d.slots[a]
    BY <1>1, <2>1
  <2>3. Owned(x) /\ (\A a \in Apps : Valid(x.slots[a])) /\ RecordsIn(x) \subseteq RecordsIn(d)
    BY <1>2, <2>2
  <2>4. Listed(x) BY <1>0, <2>2 DEF Listed
  <2> QED BY <2>1, <2>2, <2>3, <2>4 DEF DiskOK
<1>4. DiskOK(end) /\ RecordsIn(end) = {}
  <2>1. PICK x : x = end OBVIOUS
  <2>2. /\ x \in Disks /\ x.index = {}
        /\ \A a \in Apps : x.slots[a] = IF a \in d.index THEN <<>> ELSE d.slots[a]
    BY <1>1, <2>1 DEF Disks
  <2>3. \A a \in Apps : x.slots[a] = <<>> BY <1>0, <2>2 DEF Listed
  <2>4. RecordsIn(x) = {} BY <2>3, EmptyIs DEF RecordsIn
  <2>5. Owned(x) /\ \A a \in Apps : Valid(x.slots[a]) BY <1>2, <2>3
  <2>6. Listed(x) BY <2>3 DEF Listed
  <2>7. IsFiniteSet(x.index) /\ Cardinality(x.index) <= MaxLinks
    <3>1. x.index \subseteq d.index BY <2>2
    <3> QED BY <3>1, IndexShrinks
  <2> QED BY <2>1, <2>2, <2>4, <2>5, <2>6, <2>7 DEF DiskOK
<1> HIDE DEF end
<1>5. PICK P : P = {Purged(d, part) : part \in SUBSET d.index} OBVIOUS
<1>6. r \in Written(P, end) BY <1>5 DEF PurgeAllLinks, end
<1>7. \/ r.disk = end /\ r.ok = TRUE
      \/ r.disk \in P \cup {end} /\ r.ok = FALSE
  BY <1>6, WrittenIs
<1> QED BY <1>3, <1>4, <1>5, <1>7

(* Listing prunes the rows of empty entries only. *)
LEMMA PruneIs ==
  ASSUME NEW d, DiskOK(d), NEW r \in Written({d}, Pruned(d))
  PROVE  DiskOK(r.disk) /\ r.disk.slots = d.slots
<1>0. d \in Disks /\ Owned(d) /\ Listed(d) BY DEF DiskOK
<1> DEFINE x == Pruned(d)
<1>1. /\ x \in Disks /\ x.slots = d.slots
      /\ x.index = {a \in d.index : d.slots[a] # <<>>}
  BY <1>0 DEF Pruned, Disks
<1> HIDE DEF x
<1>2. IsFiniteSet(x.index) /\ Cardinality(x.index) <= MaxLinks
  <2>1. x.index \subseteq d.index BY <1>1
  <2> QED BY <2>1, IndexShrinks
<1>3. Listed(x) BY <1>0, <1>1 DEF Listed
<1>4. Owned(x) /\ \A a \in Apps : Valid(x.slots[a]) BY <1>0, <1>1 DEF Owned, DiskOK
<1>5. DiskOK(x) BY <1>1, <1>2, <1>3, <1>4 DEF DiskOK
<1>6. PICK P : P = {d} OBVIOUS
<1>7. r \in Written(P, x) BY <1>6 DEF x
<1>8. r.disk = x \/ r.disk \in P \cup {x} BY <1>7, WrittenIs
<1> QED BY <1>1, <1>5, <1>6, <1>8

(* Writes of the policy entry touch nothing else. *)
LEMMA PolicyIs ==
  ASSUME NEW d, DiskOK(d), NEW policy \in SUBSET Pairs, NEW passed, passed \subseteq {d},
         NEW r \in Written(passed, [d EXCEPT !.policy = policy]) \cup Written({}, d)
  PROVE  DiskOK(r.disk) /\ r.disk.slots = d.slots
<1>0. d \in Disks /\ Owned(d) /\ Listed(d) BY DEF DiskOK
<1> DEFINE x == [d EXCEPT !.policy = policy]
<1>1. x \in Disks /\ x.slots = d.slots /\ x.index = d.index BY <1>0 DEF Disks
<1> HIDE DEF x
<1>2. Listed(x) /\ Owned(x) BY <1>0, <1>1 DEF Listed, Owned
<1>3. DiskOK(x) BY <1>1, <1>2 DEF DiskOK
<1>4. CASE r \in Written(passed, x)
  <2>1. r.disk = x \/ r.disk \in passed \cup {x} BY <1>4, WrittenIs
  <2> QED BY <1>1, <1>3, <2>1
<1>5. CASE r \in Written({}, d)
  <2>1. r.disk = d BY <1>5, NothingWritten
  <2> QED BY <2>1
<1> QED BY <1>4, <1>5 DEF x

-----------------------------------------------------------------------------
(* Records *)

(* The next stage of a record is of the same ceremony, root and profile. *)
LEMMA LaterIs ==
  ASSUME NEW rec \in Record
  PROVE  /\ Later(rec) \in Record /\ Later(rec).c = rec.c /\ Later(rec).root = rec.root
         /\ Later(rec).prof = rec.prof /\ Pending(Later(rec))
         /\ Later(rec).stage = NextStage(rec.stage)
         /\ rec.stage \in {"Provisioned"} \cup KeptStages => Later(rec).stage \in PayloadStages
<1>1. /\ NextStage(rec.stage) \in StageNames
      /\ rec.stage \in {"Provisioned"} \cup KeptStages => NextStage(rec.stage) \in PayloadStages
  BY DEF NextStage, StageNames, KeptStages, PayloadStages, Record
<1>2. "Installed" \notin StageNames BY DEF StageNames
<1> QED BY <1>1, <1>2 DEF Later, Record, Pending

LEMMA AdvancedIs ==
  ASSUME NEW rec \in Record, NEW g, NEW next \in Advanced(g, rec)
  PROVE  /\ next \in Record /\ next.c = rec.c /\ next.root = rec.root
         /\ next.prof = rec.prof /\ Pending(next)
         /\ rec.stage \in KeptStages => next.stage \in KeptStages
<1>0. /\ Later(rec) \in Record /\ Later(rec).c = rec.c /\ Later(rec).root = rec.root
      /\ Later(rec).prof = rec.prof /\ Pending(Later(rec))
      /\ rec.stage \in KeptStages => Later(rec).stage \in KeptStages
  BY LaterIs DEF KeptStages
<1>1. CASE next = Later(rec) BY <1>0, <1>1
<1>2. ASSUME NEW i \in Roots, next = [Later(rec) EXCEPT !.issuer = i] \/ next = [Later(rec) EXCEPT !.grant = i]
      PROVE  /\ next \in Record /\ next.c = rec.c /\ next.root = rec.root
             /\ next.prof = rec.prof /\ Pending(next)
             /\ rec.stage \in KeptStages => next.stage \in KeptStages
  BY <1>0, <1>2 DEF Record, Pending
<1>3. \A i \in IssuerArtifacts(g, rec) \cup GrantArtifacts(g, rec) : i \in Roots
  BY DEF IssuerArtifacts, GrantArtifacts, Record
<1> QED BY <1>1, <1>2, <1>3 DEF Advanced

LEMMA InstalledIs ==
  ASSUME NEW rec \in Record
  PROVE  /\ AsInstalled(rec) \in Record /\ AsInstalled(rec).c = rec.c /\ AsInstalled(rec).root = rec.root
         /\ AsInstalled(rec).prof = rec.prof /\ AsInstalled(rec).stage = "Installed"
BY DEF AsInstalled, Record

(* classify_reload re-pins a profile only if it declares the offer's key. *)
LEMMA ReplacementsAre ==
  ASSUME NEW pinned \in Profiles, NEW current \in Replacements[pinned]
  PROVE  current \in Profiles /\ OfferKeyRetainedIn(current)
<1>1. /\ current \in Profiles
      /\ \E directory \in Directories, history \in Histories :
           ClassifyReload(pinned, Observed(current, directory, history)) = "profile-refresh"
  BY DEF Replacements
<1>2. PICK directory \in Directories, history \in Histories :
        ClassifyReload(pinned, Observed(current, directory, history)) = "profile-refresh"
  BY <1>1
<1>3. PICK o : o = Observed(current, directory, history) OBVIOUS
<1>4. \/ o.kind # "profile-refresh" /\ o.kind # "verified"
      \/ o.kind = "verified" /\ o.current = current
  <2>1. \/ o = Unavailable \/ o = HubDeleted
        \/ \E x, y, z \in BOOLEAN : o = Verified(current, x, y, z)
    BY <1>3 DEF Observed, ClassifyWebfingerFailure, Directories, Histories
  <2>2. CASE o = Unavailable \/ o = HubDeleted BY <2>2 DEF Unavailable, HubDeleted
  <2>3. ASSUME NEW x \in BOOLEAN, NEW y \in BOOLEAN, NEW z \in BOOLEAN, o = Verified(current, x, y, z)
        PROVE  o.kind = "verified" /\ o.current = current
    BY <2>3 DEF Verified
  <2> QED BY <2>1, <2>2, <2>3
<1>5. ClassifyReload(pinned, o) = "profile-refresh" BY <1>2, <1>3
<1> QED BY <1>1, <1>4, <1>5 DEF ClassifyReload
-----------------------------------------------------------------------------
(* What a step does to the store *)

\* No ceremony appears, what is written is of the root in custody while its
\* links are not being destroyed, and only the ceremonies of lost lose their payload.
Careful(d, x, lost) ==
  /\ \A c : Stored(x, c) => Stored(d, c)
  /\ \A rec \in RecordsIn(x) : \/ rec \in RecordsIn(d)
                               \/ rec.root = root /\ forget \notin {"policy", "custody"}
  /\ \A c : KeptIn(d, c) => KeptIn(x, c) \/ c \in lost
\* Installed links stay installed.
LinksStay(d, x) == \A rec \in RecordsIn(d) : Installed(rec) =>
                     \E new \in RecordsIn(x) : Installed(new) /\ new.c = rec.c

(* Nothing written, nothing lost. *)
LEMMA SameIsCareful ==
  ASSUME NEW d, NEW x, RecordsIn(x) = RecordsIn(d), NEW lost
  PROVE  Careful(d, x, lost) /\ LinksStay(d, x)
BY DEF Careful, LinksStay, Stored, KeptIn

(* One record gives way to its successor. *)
LEMMA SwappedIsCareful ==
  ASSUME NEW d, NEW r, NEW old \in Record, NEW new \in Record, Swapped(d, r, old, new),
         new.c = old.c, new.root = old.root,
         old.stage \in KeptStages => new.stage \in KeptStages,
         Installed(old) => Installed(new),
         old \in RecordsIn(d) => old.root = root /\ forget \notin {"policy", "custody"},
         NEW lost
  PROVE  Careful(d, r.disk, lost) /\ LinksStay(d, r.disk)
<1>1. CASE RecordsIn(r.disk) = RecordsIn(d) BY <1>1, SameIsCareful
<1>2. CASE /\ old \in RecordsIn(d)
           /\ (RecordsIn(d) \ {old}) \cup {new} \subseteq RecordsIn(r.disk)
           /\ RecordsIn(r.disk) \subseteq RecordsIn(d) \cup {new}
  <2>1. \A rec \in RecordsIn(r.disk) : rec \in RecordsIn(d) \/ rec = new BY <1>2
  <2>2. \A rec \in RecordsIn(d) : rec \in RecordsIn(r.disk) \/ rec = old BY <1>2
  <2>3. new \in RecordsIn(r.disk) BY <1>2
  <2>4. \A c : Stored(r.disk, c) => Stored(d, c) BY <1>2, <2>1 DEF Stored
  <2>5. \A rec \in RecordsIn(r.disk) : \/ rec \in RecordsIn(d)
                                       \/ rec.root = root /\ forget \notin {"policy", "custody"}
    BY <1>2, <2>1
  <2>6. \A c : KeptIn(d, c) => KeptIn(r.disk, c) BY <2>2, <2>3 DEF KeptIn
  <2>7. LinksStay(d, r.disk) BY <2>2, <2>3 DEF LinksStay
  <2> QED BY <2>4, <2>5, <2>6, <2>7 DEF Careful
<1> QED BY <1>1, <1>2 DEF Swapped

(* One record is taken out. *)
LEMMA WithoutIsCareful ==
  ASSUME NEW d, NEW x, NEW rec \in RecordsIn(d), RecordsIn(x) \subseteq RecordsIn(d),
         RecordsIn(d) \ {rec} \subseteq RecordsIn(x), Pending(rec),
         NEW lost, rec.stage \in KeptStages => rec.c \in lost
  PROVE  Careful(d, x, lost) /\ LinksStay(d, x)
<1>1. \A y \in RecordsIn(d) : y \in RecordsIn(x) \/ y = rec OBVIOUS
<1>2. \A c : Stored(x, c) => Stored(d, c) BY DEF Stored
<1>3. \A c : KeptIn(d, c) => KeptIn(x, c) \/ c \in lost BY <1>1 DEF KeptIn
<1>4. LinksStay(d, x) BY <1>1 DEF LinksStay, Installed
<1> QED BY <1>2, <1>3, <1>4 DEF Careful

(* Records go, and the ceremonies of lost with them. *)
LEMMA FewerIsCareful ==
  ASSUME NEW d, NEW x, RecordsIn(x) \subseteq RecordsIn(d),
         NEW lost, \A rec \in RecordsIn(d) \ RecordsIn(x) : rec.c \in lost
  PROVE  Careful(d, x, lost)
<1>1. \A c : KeptIn(d, c) => KeptIn(x, c) \/ c \in lost BY DEF KeptIn
<1> QED BY <1>1 DEF Careful, Stored

-----------------------------------------------------------------------------
(* The actions that write *)

\* A record that goes is remembered.
Remembered == gone' = gone \cup {c \in Ceremonies : Stored(disk, c) /\ ~Stored(disk', c)}
\* A payload may go with an unlink, with its root, or because the hub refused it.
Lost == removed' \cup {c \in Ceremonies : hub[c] = "void"}
\* What every writing action but Begin does, those after which a link may be missing apart.
DiskStep == DiskOK(disk') /\ Remembered /\ Careful(disk, disk', Lost)
LinkStep == DiskStep /\ LinksStay(disk, disk')

LEMMA CommitIs ==
  ASSUME NEW r, Commit(r) PROVE disk' = r.disk /\ Remembered
BY DEF Commit, Remembered

(* Store calls that do not touch a record. *)
LEMMA SlotsUntouched ==
  ASSUME NEW r, Commit(r), DiskOK(r.disk), r.disk.slots = disk.slots PROVE LinkStep
<1>1. disk' = r.disk /\ Remembered BY CommitIs
<1>2. RecordsIn(disk') = RecordsIn(disk) BY <1>1 DEF RecordsIn
<1> QED BY <1>1, <1>2, SameIsCareful DEF LinkStep, DiskStep

LEMMA QuietIs == ASSUME IInv, Quiet PROVE LinkStep
<1>1. disk' = disk /\ gone' = gone BY DEF Quiet
<1>2. Careful(disk, disk', Lost) /\ LinksStay(disk, disk') BY <1>1, SameIsCareful
<1>3. Remembered BY <1>1 DEF Remembered
<1> QED BY <1>1, <1>2, <1>3 DEF LinkStep, DiskStep, IInv

LEMMA PolicyStoreIs == ASSUME IInv, PolicyStore PROVE LinkStep /\ disk'.slots = disk.slots
<1>1. PICK r \in PolicyInsert(worker.seen, PairOf(worker.c)) : Commit(r) BY DEF PolicyStore
<1>2. PairOf(worker.c) \in Pairs /\ worker.seen \in SUBSET Pairs /\ DiskOK(disk)
  BY LinkAssumption DEF PolicyStore, IInv, LocalsOK, WorkerOK, PairOf, Pairs
<1>3. DiskOK(r.disk) /\ r.disk.slots = disk.slots
  <2>1. PICK policy : policy = worker.seen \cup {PairOf(worker.c)} OBVIOUS
  <2>2. PICK P : P = {disk} OBVIOUS
  <2>3. r \in Written(P, [disk EXCEPT !.policy = policy]) \cup Written({}, disk)
    BY <2>1, <2>2 DEF PolicyInsert
  <2> QED BY <1>2, <2>1, <2>2, <2>3, PolicyIs
<1> QED BY <1>1, <1>3, SlotsUntouched, CommitIs

(* A record is replaced, by replace_pending or with an installed one. *)
LEMMA ReplaceIs ==
  ASSUME IInv, NEW old \in Record, NEW new \in Record, NEW r,
         r \in Swap(disk, old, new) \/ r \in Install(disk, old, new), Commit(r),
         new.c = old.c, new.root = old.root, new.prof = old.prof \/ OfferKeyRetainedIn(new.prof),
         old.stage \in KeptStages => new.stage \in KeptStages,
         Installed(old) => Installed(new),
         old \in RecordsIn(disk) => old.root = root /\ forget \notin {"policy", "custody"}
  PROVE  LinkStep /\ (Swapped(disk, r, old, new) \/ RecordsIn(r.disk) = RecordsIn(disk))
<1>1. DiskOK(disk) BY DEF IInv
<1>2. DiskOK(r.disk) /\ (Swapped(disk, r, old, new) \/ RecordsIn(r.disk) = RecordsIn(disk))
  BY <1>1, SwapIs, InstallIs
<1>3. Careful(disk, r.disk, Lost) /\ LinksStay(disk, r.disk)
  <2>1. PICK lost : lost = Lost OBVIOUS
  <2>2. Careful(disk, r.disk, lost) /\ LinksStay(disk, r.disk)
    BY <1>2, SwappedIsCareful, SameIsCareful
  <2> QED BY <2>1, <2>2
<1> QED BY <1>2, <1>3, CommitIs DEF LinkStep, DiskStep

(* Past the approval a record is of the root in custody, whose links are not  *)
(* being destroyed.                                                          *)
LEMMA OldIsRooted ==
  ASSUME IInv, NEW old \in RecordsIn(disk), old.stage # "FinalApproval"
  PROVE  old.root = root /\ forget \notin {"policy", "custody"}
BY DEF IInv, RootOK

LEMMA RecordsTyped == ASSUME IInv PROVE RecordsIn(disk) \subseteq Record
<1>1. \A a \in Apps : disk.slots[a] \in Seq(Record) BY DEF IInv, DiskOK, Disks
<1>2. \A a \in Apps : Records(disk.slots[a]) \subseteq Record BY <1>1, RecordsOf
<1> QED BY <1>2 DEF RecordsIn

LEMMA AdvanceIs == ASSUME IInv, Advance PROVE LinkStep /\ ~Locked
<1>0. PICK next \in Advanced(root, worker.cur) :
        \E r \in ReplacePending(disk, worker.cur, next) : Commit(r)
  BY DEF Advance
<1>1. PICK r \in ReplacePending(disk, worker.cur, next) : Commit(r) BY <1>0
<1>2. worker.pc = "stage" /\ ~Locked BY DEF Advance
<1>3. worker.cur \in Record /\ worker.cur.c = worker.c /\ Pending(worker.cur)
  BY <1>2 DEF IInv, LocalsOK, WorkerOK
<1>4. /\ next \in Record /\ next.c = worker.cur.c /\ next.root = worker.cur.root
      /\ next.prof = worker.cur.prof
      /\ worker.cur.stage \in KeptStages => next.stage \in KeptStages
  BY <1>3, AdvancedIs
<1>5. worker.cur \in RecordsIn(disk) => worker.cur.root = root /\ forget \notin {"policy", "custody"}
  BY <1>2, <1>3 DEF IInv, RootOK, Stored
<1>6. PICK old : old = worker.cur OBVIOUS
<1>7. r \in Swap(disk, old, next) BY <1>1, <1>6 DEF ReplacePending
<1>8. LinkStep BY <1>1, <1>3, <1>4, <1>5, <1>6, <1>7, ReplaceIs DEF Installed
<1> QED BY <1>2, <1>8

LEMMA CommitPayloadIs ==
  ASSUME IInv, CommitPayload
  PROVE  LinkStep /\ ~Locked /\ (worker'.pc = "release" => KeptIn(disk', worker.c))
<1>1. PICK r \in ReplacePending(disk, worker.cur, Later(worker.cur)) :
        /\ Commit(r)
        /\ worker' = IF ~r.ok THEN Dropping
                     ELSE IF worker.live THEN [worker EXCEPT !.pc = "release", !.cur = None]
                     ELSE Idle
  BY DEF CommitPayload
<1>2. worker.pc = "stage" /\ worker.cur.stage = "Provisioned" /\ ~Locked BY DEF CommitPayload
<1>3. worker.cur \in Record /\ worker.cur.c = worker.c /\ Pending(worker.cur)
  BY <1>2 DEF IInv, LocalsOK, WorkerOK
<1>4. PICK old, next : old = worker.cur /\ next = Later(worker.cur) OBVIOUS
<1>5. /\ next \in Record /\ next.c = old.c /\ next.root = old.root /\ next.prof = old.prof
      /\ next.stage \in PayloadStages
  BY <1>2, <1>3, <1>4, LaterIs
<1>6. old \in RecordsIn(disk) => old.root = root /\ forget \notin {"policy", "custody"}
  BY <1>2, <1>3, <1>4 DEF IInv, RootOK, Stored
<1>7. r \in Swap(disk, old, next) BY <1>1, <1>4 DEF ReplacePending
<1>8. LinkStep /\ (Swapped(disk, r, old, next) \/ RecordsIn(r.disk) = RecordsIn(disk))
  BY <1>1, <1>3, <1>4, <1>5, <1>6, <1>7, ReplaceIs DEF Installed, KeptStages
<1>9. Swapped(disk, r, old, next)
  <2>1. DiskOK(disk) BY DEF IInv
  <2> QED BY <1>3, <1>4, <1>5, <1>7, <2>1, SwapIs
<1>10. ASSUME worker'.pc = "release" PROVE KeptIn(disk', worker.c)
  <2>1. r.ok # FALSE BY <1>1, <1>10 DEF Dropping, Idle
  <2>2. next \in RecordsIn(r.disk) BY <1>9, <2>1 DEF Swapped
  <2>3. disk' = r.disk BY <1>1, CommitIs
  <2>4. next.c = worker.c /\ next.stage \in KeptStages BY <1>3, <1>4, <1>5 DEF KeptStages
  <2> QED BY <2>2, <2>3, <2>4 DEF KeptIn
<1> QED BY <1>2, <1>8, <1>10

LEMMA ReceiveIs == ASSUME IInv, Receive PROVE LinkStep /\ ~Locked
<1>1. ~Locked /\ worker.pc = "receive" BY DEF Receive
<1>2. AppOf[worker.c] \in Apps BY <1>1, LinkAssumption DEF IInv, LocalsOK, WorkerOK
<1>3. PICK rec \in PendingIn(disk.slots[AppOf[worker.c]]) :
        \E r : /\ Commit(r)
               /\ \/ r = [disk |-> disk, ok |-> TRUE]
                  \/ rec.stage = "PayloadPrepared" /\ r \in ReplacePending(disk, rec, Later(rec))
  BY DEF Receive
<1>r. PICK r : /\ Commit(r)
               /\ \/ r = [disk |-> disk, ok |-> TRUE]
                  \/ rec.stage = "PayloadPrepared" /\ r \in ReplacePending(disk, rec, Later(rec))
  BY <1>3
<1>4. rec \in RecordsIn(disk) /\ Pending(rec) BY <1>2, <1>3 DEF PendingIn, RecordsIn
<1>5. CASE r = [disk |-> disk, ok |-> TRUE]
  <2>1. r.disk = disk BY <1>5
  <2>2. DiskOK(r.disk) /\ r.disk.slots = disk.slots BY <2>1 DEF IInv
  <2> QED BY <1>1, <1>r, <2>2, SlotsUntouched
<1>6. CASE rec.stage = "PayloadPrepared" /\ r \in ReplacePending(disk, rec, Later(rec))
  <2>1. PICK next : next = Later(rec) OBVIOUS
  <2>2. rec \in Record BY <1>4, RecordsTyped
  <2>3. /\ next \in Record /\ next.c = rec.c /\ next.root = rec.root /\ next.prof = rec.prof
        /\ next.stage \in PayloadStages
    BY <1>6, <2>1, <2>2, LaterIs DEF KeptStages, PayloadStages
  <2>4. rec.root = root /\ forget \notin {"policy", "custody"} BY <1>4, <1>6, OldIsRooted
  <2>5. r \in Swap(disk, rec, next) BY <1>6, <2>1 DEF ReplacePending
  <2>6. LinkStep BY <1>r, <1>4, <2>2, <2>3, <2>4, <2>5, ReplaceIs DEF Installed, KeptStages
  <2> QED BY <1>1, <2>6
<1> QED BY <1>r, <1>5, <1>6

(* Finish and a positive recovery install a payload that is still pending. *)
LEMMA InstallStep ==
  ASSUME IInv, NEW old \in Record, old.stage \in PayloadStages,
         NEW r \in Install(disk, old, AsInstalled(old)), Commit(r)
  PROVE  LinkStep
<1>1. PICK new : new = AsInstalled(old) OBVIOUS
<1>2. /\ new \in Record /\ new.c = old.c /\ new.root = old.root /\ new.prof = old.prof
      /\ new.stage = "Installed"
  BY <1>1, InstalledIs
<1>3. old \in RecordsIn(disk) => old.root = root /\ forget \notin {"policy", "custody"}
  BY OldIsRooted DEF PayloadStages
<1>4. r \in Install(disk, old, new) BY <1>1
<1> QED BY <1>2, <1>3, <1>4, ReplaceIs DEF Installed, Pending, KeptStages

LEMMA FinishIs == ASSUME IInv, Finish PROVE LinkStep /\ ~Locked
<1>1. PICK r \in Install(disk, worker.cur, AsInstalled(worker.cur)) : Commit(r) BY DEF Finish
<1>2. ~Locked /\ worker.cur.stage \in PayloadStages /\ worker.cur \in Record
  BY DEF Finish, IInv, LocalsOK, WorkerOK
<1> QED BY <1>1, <1>2, InstallStep

LEMMA RecoverAnswerIs == ASSUME IInv, RecoverAnswer PROVE LinkStep /\ ~Locked
<1>1. ~Locked /\ removed' = removed BY DEF RecoverAnswer
<1>2. recovery \in Record /\ recovery.stage \in PayloadStages BY DEF RecoverAnswer, IInv, LocalsOK
<1>3. CASE Quiet BY <1>1, <1>3, QuietIs
<1>4. ASSUME NEW r \in Install(disk, recovery, AsInstalled(recovery)), Commit(r) PROVE LinkStep
  BY <1>2, <1>4, InstallStep
<1>5. ASSUME hub[recovery.c] = "void", NEW r \in RemovePending(disk, recovery), Commit(r)
      PROVE  LinkStep
  <2>1. DiskOK(disk) /\ disk' = r.disk /\ Remembered BY <1>5, CommitIs DEF IInv
  <2>2. CASE recovery \in RecordsIn(disk)
    <3>1. r \in Without(disk, recovery) BY <1>5, <2>2 DEF RemovePending
    <3>2. /\ DiskOK(r.disk) /\ RecordsIn(r.disk) \subseteq RecordsIn(disk)
          /\ RecordsIn(disk) \ {recovery} \subseteq RecordsIn(r.disk)
      BY <2>1, <2>2, <3>1, WithoutIs
    <3>3. recovery.c \in Lost BY <1>2, <1>5 DEF Lost, Record
    <3>4. Pending(recovery) BY <1>2 DEF Pending, PayloadStages
    <3>5. PICK lost : lost = Lost OBVIOUS
    <3>6. Careful(disk, r.disk, lost) /\ LinksStay(disk, r.disk)
      BY <2>2, <3>2, <3>3, <3>4, <3>5, WithoutIsCareful
    <3> QED BY <2>1, <3>2, <3>5, <3>6 DEF LinkStep, DiskStep
  <2>3. CASE recovery \notin RecordsIn(disk)
    <3>1. r \in Refused(disk) BY <1>5, <2>3 DEF RemovePending
    <3>2. r.disk = disk BY <3>1, RefusedIs
    <3> QED BY <1>5, <2>1, <3>2, SlotsUntouched
  <2> QED BY <2>2, <2>3
<1> QED BY <1>1, <1>3, <1>4, <1>5 DEF RecoverAnswer

LEMMA ReloadAnswerIs == ASSUME IInv, ReloadAnswer PROVE LinkStep /\ ~Locked
<1>1. ~Locked /\ reload \in Record /\ Installed(reload) BY DEF ReloadAnswer, IInv, LocalsOK
<1>2. CASE Quiet BY <1>1, <1>2, QuietIs
<1>3. ASSUME NEW prof \in Replacements[reload.prof], NEW r,
             r \in ReplaceInstalled(disk, reload, [reload EXCEPT !.prof = prof]), Commit(r)
      PROVE  LinkStep
  <2>1. PICK new : new = [reload EXCEPT !.prof = prof] OBVIOUS
  <2>2. reload.prof \in Profiles BY <1>1 DEF Record
  <2>3. prof \in Profiles /\ OfferKeyRetainedIn(prof) BY <1>3, <2>2, ReplacementsAre
  <2>4. /\ new \in Record /\ new.c = reload.c /\ new.root = reload.root
        /\ new.stage = reload.stage /\ new.prof = prof
    BY <1>1, <2>1, <2>3 DEF Record
  <2>5. reload \in RecordsIn(disk) => reload.root = root /\ forget \notin {"policy", "custody"}
    BY <1>1, OldIsRooted DEF Installed, Pending
  <2>6. r \in Install(disk, reload, new) BY <1>3, <2>1 DEF ReplaceInstalled
  <2> QED BY <1>1, <1>3, <2>3, <2>4, <2>5, <2>6, ReplaceIs DEF Installed, Pending
<1> QED BY <1>1, <1>2, <1>3 DEF ReloadAnswer

(* The cleanup guard takes out no payload. *)
LEMMA DropGuardIs == ASSUME IInv, DropGuard PROVE LinkStep /\ ~Locked
<1>1. PICK r \in RemovePrePayloadAttempt(disk, worker.cur) : Commit(r) BY DEF DropGuard
<1>2. DiskOK(disk) /\ disk' = r.disk /\ Remembered BY <1>1, CommitIs DEF IInv
<1>3. PICK current :
        current = {rec \in PendingIn(disk.slots[AppOf[worker.cur.c]]) :
                     /\ rec.c = worker.cur.c /\ rec.root = worker.cur.root
                     /\ rec.stage \notin PayloadStages}
  OBVIOUS
<1>4. CASE current # {}
  <2>1. PICK rec : rec = CHOOSE x \in current : TRUE OBVIOUS
  <2>2. rec \in current BY <1>4, <2>1
  <2>3. AppOf[worker.cur.c] \in Apps
    BY LinkAssumption DEF IInv, LocalsOK, WorkerOK, DropGuard, Record
  <2>4. rec \in RecordsIn(disk) /\ Pending(rec) /\ rec.stage \notin KeptStages
    BY <1>3, <2>2, <2>3 DEF PendingIn, RecordsIn, Pending, KeptStages
  <2>5. r \in Without(disk, rec) BY <1>1, <1>3, <1>4, <2>1 DEF RemovePrePayloadAttempt
  <2>6. /\ DiskOK(r.disk) /\ RecordsIn(r.disk) \subseteq RecordsIn(disk)
        /\ RecordsIn(disk) \ {rec} \subseteq RecordsIn(r.disk)
    BY <1>2, <2>4, <2>5, WithoutIs
  <2>7. PICK lost : lost = Lost OBVIOUS
  <2>8. Careful(disk, r.disk, lost) /\ LinksStay(disk, r.disk)
    BY <2>4, <2>6, WithoutIsCareful
  <2> QED BY <1>2, <2>6, <2>7, <2>8 DEF LinkStep, DiskStep, DropGuard
<1>5. CASE current = {}
  <2>1. r \in Refused(disk) BY <1>1, <1>3, <1>5 DEF RemovePrePayloadAttempt
  <2>2. r.disk = disk BY <2>1, RefusedIs
  <2> QED BY <1>1, <1>2, <2>2, SlotsUntouched DEF DropGuard
<1> QED BY <1>4, <1>5

LEMMA ListIs == ASSUME IInv, List PROVE LinkStep /\ ~Locked
<1>1. PICK r \in Written({disk}, Pruned(disk)) : Commit(r) BY DEF List
<1>2. DiskOK(disk) BY DEF IInv
<1>3. DiskOK(r.disk) /\ r.disk.slots = disk.slots BY <1>2, PruneIs
<1> QED BY <1>1, <1>3, SlotsUntouched DEF List

LEMMA UnlinkPolicyStoreIs ==
  ASSUME IInv, UnlinkPolicyStore PROVE LinkStep /\ disk'.slots = disk.slots
<1>1. PICK p \in unlink.todo : \E r \in PolicyRemove(unlink.seen, p) : Commit(r) BY DEF UnlinkPolicyStore
<1>2. PICK r \in PolicyRemove(unlink.seen, p) : Commit(r) BY <1>1
<1>3. unlink.seen \in SUBSET Pairs /\ DiskOK(disk) BY DEF IInv, LocalsOK, UnlinkOK
<1>4. PICK policy : policy = unlink.seen \ {p} OBVIOUS
<1>5. PICK P : P = {disk} OBVIOUS
<1>6. r \in Written(P, [disk EXCEPT !.policy = policy]) \cup Written({}, disk)
  BY <1>2, <1>4, <1>5 DEF PolicyRemove
<1>7. DiskOK(r.disk) /\ r.disk.slots = disk.slots BY <1>3, <1>4, <1>5, <1>6, PolicyIs
<1> QED BY <1>2, <1>7, SlotsUntouched, CommitIs

LEMMA UnlinkUndoIs == ASSUME IInv, UnlinkUndo PROVE LinkStep /\ disk'.slots = disk.slots
<1>1. CASE Quiet
  <2>1. disk' = disk BY <1>1 DEF Quiet
  <2> QED BY <1>1, <2>1, QuietIs
<1>2. ASSUME NEW p \in unlink.undo, NEW r \in PolicyInsert(unlink.seen, p), Commit(r)
      PROVE  LinkStep /\ disk'.slots = disk.slots
  <2>1. unlink.seen \in SUBSET Pairs /\ p \in Pairs /\ DiskOK(disk) BY DEF IInv, LocalsOK, UnlinkOK
  <2>2. PICK policy : policy = unlink.seen \cup {p} OBVIOUS
  <2>3. PICK P : P = {disk} OBVIOUS
  <2>4. r \in Written(P, [disk EXCEPT !.policy = policy]) \cup Written({}, disk)
    BY <2>2, <2>3 DEF PolicyInsert
  <2>5. DiskOK(r.disk) /\ r.disk.slots = disk.slots BY <2>1, <2>2, <2>3, <2>4, PolicyIs
  <2> QED BY <1>2, <2>5, SlotsUntouched, CommitIs
<1> QED BY <1>1, <1>2 DEF UnlinkUndo

(* forget_identity: while its first step runs nothing is promised of links. *)
LEMMA ForgetStepIs ==
  ASSUME IInv, ForgetStep
  PROVE  /\ DiskStep /\ (forget # "links" => LinksStay(disk, disk'))
         /\ forget = "links" => RecordsIn(disk') \subseteq RecordsIn(disk)
         /\ forget = "links" /\ forget' # "idle" => RecordsIn(disk') = {} /\ forget' = "policy"
         /\ Locked => disk'.slots = disk.slots
<1>1. DiskOK(disk) BY DEF IInv
<1>2. ASSUME forget = "links", ~Locked, NEW r \in PurgeAllLinks(disk), Commit(r),
             removed' = removed \cup {rec.c : rec \in RecordsIn(disk) \ RecordsIn(r.disk)},
             forget' = IF r.ok THEN "policy" ELSE "idle"
      PROVE  /\ DiskStep /\ RecordsIn(disk') \subseteq RecordsIn(disk)
             /\ forget' # "idle" => RecordsIn(disk') = {} /\ forget' = "policy"
  <2>1. disk' = r.disk /\ Remembered BY <1>2, CommitIs
  <2>2. /\ DiskOK(r.disk) /\ RecordsIn(r.disk) \subseteq RecordsIn(disk)
        /\ (r.ok = TRUE /\ RecordsIn(r.disk) = {}) \/ r.ok = FALSE
    BY <1>1, <1>2, PurgeIs
  <2>3. PICK lost : lost = Lost OBVIOUS
  <2>4. \A rec \in RecordsIn(disk) \ RecordsIn(r.disk) : rec.c \in lost BY <1>2, <2>3 DEF Lost
  <2>5. Careful(disk, r.disk, lost) BY <2>2, <2>4, FewerIsCareful
  <2> QED BY <1>2, <2>1, <2>2, <2>3, <2>5 DEF DiskStep
<1>3. ASSUME NEW r \in Written({disk}, [disk EXCEPT !.policy = {}]), Commit(r)
      PROVE  LinkStep /\ disk'.slots = disk.slots
  <2>0. {} \in SUBSET Pairs OBVIOUS
  <2>1. PICK policy \in SUBSET Pairs : policy = {} BY <2>0
  <2>2. PICK P : P = {disk} OBVIOUS
  <2>3. r \in Written(P, [disk EXCEPT !.policy = policy]) \cup Written({}, disk) BY <1>3, <2>1, <2>2
  <2>4. DiskOK(r.disk) /\ r.disk.slots = disk.slots BY <1>1, <2>1, <2>2, <2>3, PolicyIs
  <2> QED BY <1>3, <2>4, SlotsUntouched, CommitIs
<1>4. ASSUME Quiet PROVE LinkStep /\ disk'.slots = disk.slots
  <2>1. disk' = disk BY <1>4 DEF Quiet
  <2> QED BY <1>4, <2>1, QuietIs
<1>5. \/ /\ forget = "links" /\ ~Locked
         /\ \E r \in PurgeAllLinks(disk) :
              /\ Commit(r)
              /\ removed' = removed \cup {rec.c : rec \in RecordsIn(disk) \ RecordsIn(r.disk)}
              /\ forget' = IF r.ok THEN "policy" ELSE "idle"
      \/ /\ forget # "links"
         /\ \E r \in Written({disk}, [disk EXCEPT !.policy = {}]) : Commit(r)
      \/ forget # "links" /\ Quiet
  BY DEF ForgetStep
<1> QED BY <1>2, <1>3, <1>4, <1>5 DEF LinkStep

(* unlink_local writes what it showed less the pending record, or nothing. *)
LEMMA UnlinkWriteIs ==
  ASSUME IInv, UnlinkWrite
  PROVE  /\ DiskStep
         /\ \A rec \in RecordsIn(disk) \ RecordsIn(disk') :
              Installed(rec) => rec \in Records(unlink.snap) /\ ~SelectsPending(unlink.snap)
<1>1. PICK r \in WriteSlots(disk, unlink.app, Rest(unlink.snap)) :
        /\ Commit(r) /\ removed' = removed \cup {rec.c : rec \in RecordsIn(disk) \ RecordsIn(r.disk)}
  BY DEF UnlinkWrite
<1>2. DiskOK(disk) /\ disk' = r.disk /\ Remembered BY <1>1, CommitIs DEF IInv
<1>3. PICK a, snap : a = unlink.app /\ snap = unlink.snap OBVIOUS
<1>4. a \in Apps /\ snap \in Seq(Record) /\ snap # <<>> /\ disk.slots[a] = snap
  BY <1>3 DEF UnlinkWrite, IInv, LocalsOK, UnlinkOK, SnapshotKept
<1>5. PICK t : t = Rest(snap) OBVIOUS
<1>6. /\ t \in Seq(Record) /\ Records(t) \subseteq Records(snap)
      /\ \A rec \in Records(snap) \ Records(t) : Installed(rec) => ~SelectsPending(snap)
  <2>1. CASE SelectsPending(snap)
    <3>1. PICK x : x = CHOOSE rec \in PendingIn(snap) : TRUE OBVIOUS
    <3>2. x \in PendingIn(snap) BY <2>1, <3>1 DEF SelectsPending
    <3>3. x \in Records(snap) /\ Pending(x) BY <3>2 DEF PendingIn
    <3>4. PICK k : k = Position(snap, x) OBVIOUS
    <3>5. k \in 1..Len(snap) /\ snap[k] = x BY <1>4, <3>3, <3>4, RecordsOf
    <3>6. t = Removed(snap, k) BY <1>5, <2>1, <3>1, <3>4 DEF Rest
    <3>7. /\ t \in Seq(Record) /\ Records(t) \subseteq Records(snap)
          /\ Records(snap) \ {x} \subseteq Records(t)
      BY <1>4, <3>5, <3>6, RecordsRemoved
    <3> QED BY <3>3, <3>7 DEF Installed
  <2>2. CASE ~SelectsPending(snap)
    <3>1. t = <<>> BY <1>5, <2>2 DEF Rest
    <3> QED BY <2>2, <3>1, EmptyIs
  <2> QED BY <2>1, <2>2
<1>7. disk \in Disks /\ Owned(disk) /\ Listed(disk) BY <1>2 DEF DiskOK
<1>8. \A rec \in Records(t) : AppOf[rec.c] = a /\ OfferKeyRetainedIn(rec.prof)
  BY <1>4, <1>6, <1>7 DEF Owned
<1>9. a \in disk.index BY <1>4, <1>7 DEF Listed
<1>10. r \in WriteSlots(disk, a, t) BY <1>1, <1>3, <1>5
<1>11. /\ DiskOK(r.disk)
       /\ \/ r.disk.slots = [disk.slots EXCEPT ![a] = t]
          \/ r.disk.slots = disk.slots
  BY <1>2, <1>4, <1>6, <1>8, <1>9, <1>10, WriteIs
<1>12. Records(snap) = {rec \in RecordsIn(disk) : AppOf[rec.c] = a} BY <1>4, <1>7, EntryIs
<1>13. \/ RecordsIn(r.disk) = {rec \in RecordsIn(disk) : AppOf[rec.c] # a} \cup Records(t)
       \/ RecordsIn(r.disk) = RecordsIn(disk)
  <2>1. CASE r.disk.slots = [disk.slots EXCEPT ![a] = t]
    BY <1>4, <1>7, <2>1, EntryReplaced
  <2>2. CASE r.disk.slots = disk.slots BY <2>2 DEF RecordsIn
  <2> QED BY <1>11, <2>1, <2>2
<1>14. /\ RecordsIn(r.disk) \subseteq RecordsIn(disk)
       /\ \A rec \in RecordsIn(disk) \ RecordsIn(r.disk) : rec \in Records(snap) \ Records(t)
  BY <1>6, <1>12, <1>13
<1>15. PICK lost : lost = Lost OBVIOUS
<1>16. \A rec \in RecordsIn(disk) \ RecordsIn(r.disk) : rec.c \in lost BY <1>1, <1>15 DEF Lost
<1>17. Careful(disk, r.disk, lost) BY <1>14, <1>16, FewerIsCareful
<1> QED BY <1>2, <1>3, <1>6, <1>11, <1>14, <1>15, <1>17 DEF DiskStep

(* begin writes the first record of a ceremony that has none. *)
LEMMA BeginIs ==
  ASSUME IInv, Begin
  PROVE  /\ DiskOK(disk') /\ Remembered /\ ~Locked
         /\ RecordsIn(disk) \subseteq RecordsIn(disk')
         /\ RecordsIn(disk') \subseteq RecordsIn(disk) \cup {worker.cur}
<1>1. PICK r \in PersistPending(disk, worker.cur) : Commit(r) BY DEF Begin
<1>2. DiskOK(disk) /\ disk' = r.disk /\ Remembered BY <1>1, CommitIs DEF IInv
<1>3. worker.cur \in Record /\ worker.cur.prof = Offered BY DEF Begin, IInv, LocalsOK, WorkerOK
<1>4. PICK rec : rec = worker.cur OBVIOUS
<1>5. /\ DiskOK(r.disk) /\ RecordsIn(disk) \subseteq RecordsIn(r.disk)
      /\ RecordsIn(r.disk) \subseteq RecordsIn(disk) \cup {rec}
  BY <1>1, <1>2, <1>3, <1>4, AddIs
<1> QED BY <1>2, <1>4, <1>5 DEF Begin

-----------------------------------------------------------------------------
(* What a step does to the worker *)

Early == {"insert", "inserting", "recheck", "ready", "begin"}
\* The worker stays with its ceremony and its record, is not revived once it is
\* fenced, and goes on only forward; a payload is stored before it is released.
GoesOn ==
  /\ worker'.pc \notin {"idle", "drop"} => worker.pc \notin {"idle", "drop"} /\ worker'.c = worker.c
  /\ worker'.pc \in Early => worker.pc \in Early
  /\ worker'.live = TRUE => worker.live = TRUE
  /\ worker'.pc \in {"begin", "stage"} => /\ worker.pc \in {"begin", "stage"}
                                          /\ worker'.cur.root = worker.cur.root
  /\ worker'.pc = "stage" => worker.pc = "stage" \/ worker.live = TRUE
  /\ worker'.pc = "release" => worker.pc = "release" \/ KeptIn(disk', worker.c)
WorkerStep == WorkerOK(worker') /\ GoesOn

LEMMA IdleOK == WorkerOK(Idle) /\ Idle.pc = "idle" /\ Idle.live = FALSE
BY DEF WorkerOK, Idle, WorkerSteps

LEMMA StopsOK == ASSUME worker' = Idle PROVE WorkerStep
BY IdleOK DEF WorkerStep, GoesOn, Early

LEMMA DropsOK ==
  ASSUME IInv, NEW rec \in Record, worker' = [Idle EXCEPT !.pc = "drop", !.cur = rec]
  PROVE  WorkerStep
BY DEF WorkerStep, WorkerOK, GoesOn, Early, Idle, WorkerSteps

LEMMA RevokedOK == ASSUME IInv, worker' = Revoked PROVE WorkerStep /\ worker'.live = FALSE
<1>1. CASE worker.pc \in {"ready", "sent"}
  <2>1. worker' = Idle BY <1>1 DEF Revoked
  <2> QED BY <2>1, StopsOK, IdleOK
<1>2. CASE worker.pc \notin {"ready", "sent"}
  <2>1. worker' = [worker EXCEPT !.live = FALSE] BY <1>2 DEF Revoked
  <2>2. WorkerOK(worker) BY DEF IInv, LocalsOK
  <2> QED BY <2>1, <2>2 DEF WorkerStep, WorkerOK, GoesOn
<1> QED BY <1>1, <1>2

(* A step between two phases in which the worker holds no record. *)
LEMMA PhaseOK ==
  ASSUME IInv, NEW pc, NEW seen \in SUBSET Pairs, NEW cur \in Record \cup {None},
         worker' = [worker EXCEPT !.pc = pc, !.seen = seen, !.cur = cur],
         \/ pc \in {"inserting", "ready"} /\ worker.pc \in Early
         \/ pc \in {"sent", "receive"} /\ worker.pc \notin {"idle", "drop"}
         \/ pc = "verify" /\ worker.pc \notin {"idle", "drop"} /\ cur # None
         \/ pc = "release" /\ worker.pc \notin {"idle", "drop"} /\ KeptIn(disk', worker.c)
  PROVE  WorkerStep
<1>1. WorkerOK(worker) BY DEF IInv, LocalsOK
<1>2. pc \in WorkerSteps /\ pc \notin {"idle", "drop", "begin", "stage"} /\ (pc \in Early => worker.pc \in Early)
      /\ worker.pc \notin {"idle", "drop"}
  BY DEF WorkerSteps, Early
<1> QED BY <1>1, <1>2 DEF WorkerStep, WorkerOK, GoesOn

LEMMA GoOnOK ==
  ASSUME IInv, worker.pc \in {"begin", "stage"}, NEW cur \in Record, Pending(cur),
         cur.c = worker.cur.c, cur.root = worker.cur.root,
         GoOn([worker EXCEPT !.pc = "stage", !.cur = cur])
  PROVE  WorkerStep
<1>1. WorkerOK(worker) BY DEF IInv, LocalsOK
<1>2. CASE ~worker.live
  <2>1. worker' = [Idle EXCEPT !.pc = "drop", !.cur = cur] BY <1>1, <1>2 DEF GoOn, Dropping, Idle, WorkerOK
  <2> QED BY <2>1, DropsOK
<1>3. CASE worker.live
  <2>1. worker' = [worker EXCEPT !.pc = "stage", !.cur = cur] /\ worker.live = TRUE
    BY <1>1, <1>3 DEF GoOn, WorkerOK
  <2> QED BY <1>1, <2>1 DEF WorkerStep, WorkerOK, GoesOn, WorkerSteps, Early
<1> QED BY <1>2, <1>3

(* The phases before the last decision. *)
LEMMA PolicyPhases == ASSUME IInv, PolicyLoad \/ PolicyStore \/ PolicyRecheck PROVE WorkerStep
<1>0. WorkerOK(worker) /\ disk.policy \in SUBSET Pairs BY DEF IInv, LocalsOK, DiskOK, Disks
<1>1. CASE PolicyLoad
  <2>1. PICK cur, seen : cur = worker.cur /\ seen = disk.policy OBVIOUS
  <2>2. worker' = [worker EXCEPT !.pc = "inserting", !.seen = seen, !.cur = cur] /\ worker.pc \in Early
    BY <1>0, <1>1, <2>1 DEF PolicyLoad, WorkerOK, Early
  <2> QED BY <1>0, <2>1, <2>2, PhaseOK DEF WorkerOK
<1>2. CASE PolicyStore
  <2>1. PICK cur, seen : cur = worker.cur /\ seen = {} OBVIOUS
  <2>2. \/ worker' = Idle
        \/ worker' = [worker EXCEPT !.pc = "ready", !.seen = seen, !.cur = cur] /\ worker.pc \in Early
    BY <1>0, <1>2, <2>1 DEF PolicyStore, WorkerOK, Early
  <2>3. seen \in SUBSET Pairs /\ cur \in Record \cup {None} BY <1>0, <2>1 DEF WorkerOK
  <2>4. CASE worker' = [worker EXCEPT !.pc = "ready", !.seen = seen, !.cur = cur] /\ worker.pc \in Early
    BY <2>3, <2>4, PhaseOK
  <2> QED BY <2>2, <2>4, StopsOK
<1>3. CASE PolicyRecheck
  <2>1. PICK cur, seen : cur = worker.cur /\ seen = worker.seen OBVIOUS
  <2>2. \/ worker' = Idle
        \/ worker' = [worker EXCEPT !.pc = "ready", !.seen = seen, !.cur = cur] /\ worker.pc \in Early
    BY <1>0, <1>3, <2>1 DEF PolicyRecheck, WorkerOK, Early
  <2>3. seen \in SUBSET Pairs /\ cur \in Record \cup {None} BY <1>0, <2>1 DEF WorkerOK
  <2>4. CASE worker' = [worker EXCEPT !.pc = "ready", !.seen = seen, !.cur = cur] /\ worker.pc \in Early
    BY <2>3, <2>4, PhaseOK
  <2> QED BY <2>2, <2>4, StopsOK
<1> QED BY <1>1, <1>2, <1>3

(* begin and replace_at. *)
LEMMA StagePhases == ASSUME IInv, Begin \/ Advance PROVE WorkerStep
<1>0. WorkerOK(worker) BY DEF IInv, LocalsOK
<1>1. CASE Begin
  <2>1. \/ GoOn([worker EXCEPT !.pc = "stage"]) \/ worker' = Dropping BY <1>1 DEF Begin
  <2>2. /\ worker.pc = "begin" /\ worker.cur \in Record /\ worker.cur.stage = "FinalApproval"
        /\ [worker EXCEPT !.pc = "stage"] = [worker EXCEPT !.pc = "stage", !.cur = worker.cur]
    BY <1>0, <1>1 DEF Begin, WorkerOK
  <2>3. PICK cur : cur = worker.cur OBVIOUS
  <2>4. CASE GoOn([worker EXCEPT !.pc = "stage", !.cur = cur])
    BY <2>2, <2>3, <2>4, GoOnOK DEF Pending
  <2>5. CASE worker' = [Idle EXCEPT !.pc = "drop", !.cur = cur] BY <2>2, <2>3, <2>5, DropsOK
  <2> QED BY <2>1, <2>2, <2>3, <2>4, <2>5 DEF Dropping
<1>2. CASE Advance
  <2>1. PICK next \in Advanced(root, worker.cur) :
          GoOn([worker EXCEPT !.cur = next]) \/ worker' = Dropping
    BY <1>2 DEF Advance
  <2>2. /\ worker.pc = "stage" /\ worker.cur \in Record
        /\ [worker EXCEPT !.cur = next] = [worker EXCEPT !.pc = "stage", !.cur = next]
    BY <1>0, <1>2 DEF Advance, WorkerOK
  <2>3. PICK cur : cur = worker.cur OBVIOUS
  <2>4. next \in Record /\ next.c = cur.c /\ next.root = cur.root /\ Pending(next)
    BY <2>1, <2>2, <2>3, AdvancedIs
  <2>5. CASE GoOn([worker EXCEPT !.pc = "stage", !.cur = next])
    BY <2>2, <2>3, <2>4, <2>5, GoOnOK
  <2>6. CASE worker' = [Idle EXCEPT !.pc = "drop", !.cur = cur] BY <2>2, <2>3, <2>6, DropsOK
  <2> QED BY <2>1, <2>2, <2>3, <2>5, <2>6 DEF Dropping
<1> QED BY <1>1, <1>2

(* commit_payload and what follows it. *)
LEMMA PayloadPhases == ASSUME IInv, CommitPayload \/ Release \/ TakeSent PROVE WorkerStep
<1>0. WorkerOK(worker) BY DEF IInv, LocalsOK
<1>1. CASE CommitPayload
  <2>1. worker'.pc = "release" => KeptIn(disk', worker.c) BY <1>1, CommitPayloadIs
  <2>2. worker.pc = "stage" /\ worker.cur \in Record BY <1>0, <1>1 DEF CommitPayload, WorkerOK
  <2>3. PICK seen, cur : seen = worker.seen /\ cur = worker.cur OBVIOUS
  <2>4. \/ worker' = Idle \/ worker' = [Idle EXCEPT !.pc = "drop", !.cur = cur]
        \/ worker' = [worker EXCEPT !.pc = "release", !.seen = seen, !.cur = None]
    BY <1>0, <1>1, <2>3 DEF CommitPayload, Dropping, WorkerOK
  <2>5. CASE worker' = [worker EXCEPT !.pc = "release", !.seen = seen, !.cur = None]
    <3>1. worker'.pc = "release" BY <1>0, <2>5 DEF WorkerOK
    <3>2. seen \in SUBSET Pairs BY <1>0, <2>3 DEF WorkerOK
    <3> QED BY <2>1, <2>2, <2>5, <3>1, <3>2, PhaseOK
  <2> QED BY <2>2, <2>3, <2>4, <2>5, StopsOK, DropsOK
<1>2. CASE Release \/ TakeSent
  <2>1. PICK cur, seen : cur = worker.cur /\ seen = worker.seen OBVIOUS
  <2>2. seen \in SUBSET Pairs /\ cur \in Record \cup {None} BY <1>0, <2>1 DEF WorkerOK
  <2>3. \/ worker' = Idle
        \/ /\ worker.pc \notin {"idle", "drop"}
           /\ \E pc \in {"sent", "receive"} :
                worker' = [worker EXCEPT !.pc = pc, !.seen = seen, !.cur = cur]
    BY <1>0, <1>2, <2>1 DEF Release, TakeSent, WorkerOK
  <2>4. ASSUME worker.pc \notin {"idle", "drop"}, NEW pc \in {"sent", "receive"},
               worker' = [worker EXCEPT !.pc = pc, !.seen = seen, !.cur = cur]
        PROVE  WorkerStep
    BY <2>2, <2>4, PhaseOK
  <2> QED BY <2>3, <2>4, StopsOK
<1> QED BY <1>1, <1>2

LEMMA ParkedOK ==
  ASSUME IInv, worker.pc \in {"receive", "verify"}, worker' = Parked PROVE WorkerStep
<1>1. WorkerOK(worker) BY DEF IInv, LocalsOK
<1>2. PICK seen \in SUBSET Pairs : seen = worker.seen BY <1>1 DEF WorkerOK
<1>3. worker' = Idle \/ worker' = [worker EXCEPT !.pc = "sent", !.seen = seen, !.cur = None]
  BY <1>1, <1>2 DEF Parked, WorkerOK
<1>4. CASE worker' = [worker EXCEPT !.pc = "sent", !.seen = seen, !.cur = None] BY <1>4, PhaseOK
<1> QED BY <1>3, <1>4, StopsOK

(* The receipt, and every way a worker ends. *)
LEMMA LatePhases == ASSUME IInv, Receive \/ Finish \/ Fail \/ DropGuard PROVE WorkerStep
<1>0. WorkerOK(worker) BY DEF IInv, LocalsOK
<1>1. CASE Receive
  <2>1. worker.pc = "receive" /\ AppOf[worker.c] \in Apps
    BY <1>0, <1>1, LinkAssumption DEF Receive, WorkerOK
  <2>2. PICK rec \in PendingIn(disk.slots[AppOf[worker.c]]) :
          \/ worker' = Parked
          \/ \E acknowledged \in {rec, Later(rec)} :
               worker' = [worker EXCEPT !.pc = "verify", !.cur = acknowledged]
    BY <1>1 DEF Receive
  <2>3. rec \in Record
    <3>1. rec \in RecordsIn(disk) BY <2>1, <2>2 DEF PendingIn, RecordsIn
    <3> QED BY <3>1, RecordsTyped
  <2>4. Later(rec) \in Record BY <2>3, LaterIs
  <2>5. ASSUME NEW cur \in Record, worker' = [worker EXCEPT !.pc = "verify", !.cur = cur]
        PROVE  WorkerStep
    <3>1. PICK seen : seen = worker.seen OBVIOUS
    <3>2. worker' = [worker EXCEPT !.pc = "verify", !.seen = seen, !.cur = cur]
      BY <1>0, <2>5, <3>1 DEF WorkerOK
    <3>3. cur # None \/ cur = None OBVIOUS
    <3>4. CASE cur # None BY <1>0, <2>1, <3>1, <3>2, <3>4, PhaseOK DEF WorkerOK
    <3>5. CASE cur = None BY <1>0, <2>1, <2>5, <3>2, <3>5 DEF WorkerStep, WorkerOK, GoesOn, Early, WorkerSteps
    <3> QED BY <3>4, <3>5
  <2> QED BY <2>1, <2>2, <2>3, <2>4, <2>5, ParkedOK
<1>2. CASE Finish
  <2>1. worker.pc = "verify" /\ (worker' = Idle \/ worker' = Parked) BY <1>2 DEF Finish
  <2> QED BY <2>1, ParkedOK, StopsOK
<1>3. CASE Fail
  <2>1. PICK cur : cur = worker.cur OBVIOUS
  <2>2. \/ worker' = Idle
        \/ worker.pc = "stage" /\ worker' = [Idle EXCEPT !.pc = "drop", !.cur = cur]
        \/ worker.pc \in {"receive", "verify"} /\ worker' = Parked
    BY <1>3, <2>1 DEF Fail, Dropping
  <2> QED BY <1>0, <2>1, <2>2, ParkedOK, StopsOK, DropsOK DEF WorkerOK
<1>4. CASE DropGuard
  <2>1. worker' = Idle BY <1>4 DEF DropGuard
  <2> QED BY <2>1, StopsOK
<1> QED BY <1>1, <1>2, <1>3, <1>4

-----------------------------------------------------------------------------
(* Every step *)

LEMMA StoreStep ==
  ASSUME IInv, Next
  PROVE  /\ DiskOK(disk') /\ Remembered /\ (Begin \/ Careful(disk, disk', Lost))
         /\ LinksStay(disk, disk') \/ forget = "links" \/ UnlinkWrite
         /\ Locked => disk'.slots = disk.slots \/ UnlinkWrite
<1>1. CASE Quiet
  <2>1. LinkStep /\ disk' = disk BY <1>1, QuietIs DEF Quiet
  <2> QED BY <2>1 DEF LinkStep, DiskStep
<1>2. CASE PolicyStore \/ UnlinkPolicyStore \/ UnlinkUndo
  <2>1. LinkStep /\ disk'.slots = disk.slots
    BY <1>2, PolicyStoreIs, UnlinkPolicyStoreIs, UnlinkUndoIs
  <2> QED BY <2>1 DEF LinkStep, DiskStep
<1>3. CASE Advance \/ CommitPayload \/ Receive \/ Finish \/ DropGuard \/ RecoverAnswer \/ ReloadAnswer \/ List
  <2>1. LinkStep /\ ~Locked
    BY <1>3, AdvanceIs, CommitPayloadIs, ReceiveIs, FinishIs, DropGuardIs, RecoverAnswerIs,
       ReloadAnswerIs, ListIs
  <2> QED BY <2>1 DEF LinkStep, DiskStep
<1>4. CASE Begin
  <2>1. /\ DiskOK(disk') /\ Remembered /\ ~Locked /\ RecordsIn(disk) \subseteq RecordsIn(disk')
    BY <1>4, BeginIs
  <2>2. LinksStay(disk, disk') BY <2>1 DEF LinksStay
  <2> QED BY <1>4, <2>1, <2>2
<1>5. CASE UnlinkWrite BY <1>5, UnlinkWriteIs DEF DiskStep
<1>6. CASE ForgetStep BY <1>6, ForgetStepIs DEF DiskStep
<1>7. ASSUME NEW c \in Ceremonies, Contact(c) \/ HubDecides(c) PROVE Quiet
  BY <1>7 DEF Contact, HubDecides
<1>8. ASSUME NEW a \in Apps, Reload(a) \/ UnlinkLoad(a) PROVE Quiet BY <1>8 DEF Reload, UnlinkLoad
<1>9. PolicyLoad \/ PolicyRecheck \/ Decide \/ Release \/ TakeSent \/ Fail \/ Cancel => Quiet
  BY DEF PolicyLoad, PolicyRecheck, Decide, Release, TakeSent, Fail, Cancel
<1>10. Recover \/ UnlinkStart \/ UnlinkCancel \/ UnlinkPolicyLoad \/ Forget \/ NewRoot => Quiet
  BY DEF Recover, UnlinkStart, UnlinkCancel, UnlinkPolicyLoad, Forget, NewRoot
<1>11. Crash => Quiet BY DEF Crash, Quiet
<1> QED BY <1>1, <1>2, <1>3, <1>4, <1>5, <1>6, <1>7, <1>8, <1>9, <1>10, <1>11 DEF Next

LEMMA ContactIs ==
  ASSUME IInv, NEW c \in Ceremonies, Contact(c)
  PROVE  /\ WorkerOK(worker') /\ worker'.c = c /\ worker'.pc \in {"ready", "recheck", "insert"}
         /\ hub[c] = "unknown" /\ hub' = [hub EXCEPT ![c] = "started"]
         /\ forget = "idle" /\ root # None
         /\ UNCHANGED <<disk, gone, root, recovery, reload, unlink, forget, removed>>
<1>1. PICK pc \in {"ready", "recheck", "insert"} : worker' = [Idle EXCEPT !.pc = pc, !.c = c, !.live = TRUE]
  BY DEF Contact, AuthoriseClaimantRelay
<1>2. /\ WorkerOK(worker') /\ worker'.c = c /\ worker'.pc \in {"ready", "recheck", "insert"}
  BY <1>1 DEF Idle, WorkerOK, WorkerSteps
<1> QED BY <1>2 DEF Contact, Quiet, Others, RootChanging

LEMMA DecideIs ==
  ASSUME IInv, Decide
  PROVE  /\ WorkerOK(worker') /\ worker'.c = worker.c /\ worker'.pc = "begin" /\ worker'.cur.root = root
         /\ worker'.live = TRUE /\ worker.live = TRUE /\ worker.pc = "ready"
         /\ UNCHANGED <<disk, gone, root, recovery, reload, unlink, forget, removed, hub>>
<1>0. /\ WorkerOK(worker) /\ worker.live /\ worker.pc = "ready" /\ root \in Roots
      /\ UNCHANGED <<disk, gone, root, recovery, reload, unlink, forget, removed, hub>>
  BY DEF Decide, IInv, LocalsOK, Quiet, Others
<1>1. PICK cur : cur = First(worker.c, root) OBVIOUS
<1>2. worker.c \in Ceremonies BY <1>0 DEF WorkerOK
<1>3. /\ cur \in Record /\ cur.c = worker.c /\ cur.root = root
      /\ cur.stage = "FinalApproval" /\ cur.prof = Offered
  <2>1. Offered \in Profiles BY ReloadAssumption
  <2> QED BY <1>0, <1>1, <1>2, <2>1 DEF First, Record, StageNames
<1>4. worker' = [worker EXCEPT !.pc = "begin", !.cur = cur] BY <1>1 DEF Decide
<1>5. /\ WorkerOK(worker') /\ worker'.c = worker.c /\ worker'.pc = "begin" /\ worker'.cur.root = root
      /\ worker'.live = worker.live /\ worker.live = TRUE
  BY <1>0, <1>2, <1>3, <1>4 DEF WorkerOK, WorkerSteps
<1> QED BY <1>0, <1>5

LEMMA WorkersStep ==
  ASSUME IInv, Next PROVE WorkerStep \/ (\E c \in Ceremonies : Contact(c)) \/ Decide
<1>0. WorkerOK(worker) BY DEF IInv, LocalsOK
<1>1. CASE worker' = worker BY <1>0, <1>1 DEF WorkerStep, GoesOn
<1>2. CASE worker' = Revoked BY <1>2, RevokedOK
<1>3. CASE worker' = Idle BY <1>3, StopsOK
<1>4. CASE PolicyLoad \/ PolicyStore \/ PolicyRecheck BY <1>4, PolicyPhases
<1>5. CASE Begin \/ Advance BY <1>5, StagePhases
<1>6. CASE CommitPayload \/ Release \/ TakeSent BY <1>6, PayloadPhases
<1>7. CASE Receive \/ Finish \/ Fail \/ DropGuard BY <1>7, LatePhases
<1>8. ASSUME NEW c \in Ceremonies, HubDecides(c) PROVE worker' = worker BY <1>8 DEF HubDecides
<1>9. ASSUME NEW a \in Apps, Reload(a) \/ UnlinkLoad(a) PROVE worker' = worker
  BY <1>9 DEF Reload, UnlinkLoad, UnlinkFrame
<1>10. Recover \/ RecoverAnswer \/ ReloadAnswer \/ List => worker' = worker
  BY DEF Recover, RecoverAnswer, ReloadAnswer, List
<1>11. UnlinkStart \/ UnlinkCancel \/ UnlinkPolicyLoad => worker' = worker
  BY DEF UnlinkStart, UnlinkCancel, UnlinkPolicyLoad, UnlinkFrame
<1>12. UnlinkPolicyStore \/ UnlinkWrite \/ UnlinkUndo => worker' = worker
  BY DEF UnlinkPolicyStore, UnlinkWrite, UnlinkUndo, UnlinkFrame
<1>13. ForgetStep => worker' = worker BY DEF ForgetStep
<1>14. Cancel \/ Forget \/ NewRoot => worker' = Revoked BY DEF Cancel, Forget, NewRoot
<1>15. Crash => worker' = Idle BY DEF Crash
<1> QED BY <1>1, <1>2, <1>3, <1>4, <1>5, <1>6, <1>7, <1>8, <1>9, <1>10, <1>11, <1>12, <1>13, <1>14,
           <1>15 DEF Next

(* The hub's answers stand, and it is offered a payload only by a release. *)
LEMMA HubStep ==
  ASSUME IInv, Next
  PROVE  /\ hub' \in [Ceremonies -> {"unknown", "started", "offered", "final", "void"}]
         /\ \A c \in Ceremonies : hub'[c] = "unknown" => hub[c] = "unknown"
         /\ \A c \in Ceremonies : hub[c] = "void" => hub'[c] = "void"
         /\ \A c \in Ceremonies : hub'[c] = "started" =>
              hub[c] = "started" \/ \E x \in Ceremonies : Contact(x)
         /\ \A c \in Ceremonies : hub'[c] \in {"offered", "final"} =>
              \/ hub[c] \in {"offered", "final"}
              \/ worker.pc = "release" /\ worker.c = c /\ hub[c] = "started"
<1>0. hub \in [Ceremonies -> {"unknown", "started", "offered", "final", "void"}] BY DEF IInv, LocalsOK
<1>1. CASE hub' = hub BY <1>0, <1>1
<1>2. ASSUME NEW c \in Ceremonies, Contact(c) PROVE hub[c] = "unknown" /\ hub' = [hub EXCEPT ![c] = "started"]
  BY <1>2 DEF Contact
<1>3. ASSUME NEW c \in Ceremonies, HubDecides(c)
      PROVE  \/ hub[c] = "offered" /\ hub' = [hub EXCEPT ![c] = "final"]
             \/ hub[c] \in {"started", "offered"} /\ hub' = [hub EXCEPT ![c] = "void"]
  BY <1>3 DEF HubDecides
<1>4. CASE \E c \in Ceremonies : Contact(c) BY <1>0, <1>2, <1>4
<1>5. CASE \E c \in Ceremonies : HubDecides(c) BY <1>0, <1>3, <1>5
<1>6. CASE Release
  <2>1. /\ worker.pc = "release"
        /\ hub' = [hub EXCEPT ![worker.c] = IF @ = "started" THEN "offered" ELSE @]
    BY <1>6 DEF Release
  <2>2. worker.c \in Ceremonies BY <2>1 DEF IInv, LocalsOK, WorkerOK
  <2> QED BY <1>0, <2>1, <2>2
<1>7. PolicyLoad \/ PolicyStore \/ PolicyRecheck \/ Decide \/ Begin \/ Advance \/ CommitPayload => hub' = hub
  BY DEF PolicyLoad, PolicyStore, PolicyRecheck, Decide, Begin, Advance, CommitPayload
<1>8. TakeSent \/ Receive \/ Finish \/ Fail \/ DropGuard \/ Cancel \/ Forget \/ Crash \/ NewRoot => hub' = hub
  BY DEF TakeSent, Receive, Finish, Fail, DropGuard, Cancel, Forget, Crash, NewRoot
<1>9. ASSUME NEW a \in Apps, Reload(a) \/ UnlinkLoad(a) PROVE hub' = hub
  BY <1>9 DEF Reload, UnlinkLoad, UnlinkFrame
<1>10. Recover \/ RecoverAnswer \/ ReloadAnswer \/ List \/ ForgetStep => hub' = hub
  BY DEF Recover, RecoverAnswer, ReloadAnswer, List, ForgetStep
<1>11. UnlinkStart \/ UnlinkCancel \/ UnlinkPolicyLoad => hub' = hub
  BY DEF UnlinkStart, UnlinkCancel, UnlinkPolicyLoad, UnlinkFrame
<1>12. UnlinkPolicyStore \/ UnlinkWrite \/ UnlinkUndo => hub' = hub
  BY DEF UnlinkPolicyStore, UnlinkWrite, UnlinkUndo, UnlinkFrame
<1> QED BY <1>1, <1>4, <1>5, <1>6, <1>7, <1>8, <1>9, <1>10, <1>11, <1>12 DEF Next

-----------------------------------------------------------------------------
(* The invariant is inductive *)

LEMMA StoredIs == ASSUME IInv PROVE \A c : Stored(disk, c) => c \in Ceremonies
BY RecordsTyped DEF Stored, Record

(* What begin writes is a ceremony nothing was known of. *)
LEMMA FreshStep == ASSUME IInv, Next PROVE FreshOK'
<1>0. /\ \A c \in gone : ~Stored(disk, c)
      /\ \A c \in Ceremonies : hub[c] = "unknown" => c \notin gone /\ ~Stored(disk, c)
      /\ worker.pc \notin {"idle", "drop"} => hub[worker.c] # "unknown"
      /\ worker.pc \in Early => worker.c \notin gone /\ ~Stored(disk, worker.c)
  BY DEF IInv, FreshOK, Fresh, Early
<1>1. /\ \A c \in Ceremonies : hub'[c] = "unknown" => hub[c] = "unknown"
      /\ hub' \in [Ceremonies -> {"unknown", "started", "offered", "final", "void"}]
  BY HubStep
<1>2. gone' = gone \cup {c \in Ceremonies : Stored(disk, c) /\ ~Stored(disk', c)}
  BY StoreStep DEF Remembered
<1>3. CASE Begin
  <2>1. /\ RecordsIn(disk) \subseteq RecordsIn(disk')
        /\ RecordsIn(disk') \subseteq RecordsIn(disk) \cup {worker.cur}
    BY <1>3, BeginIs
  <2>2. worker.pc = "begin" /\ worker.cur.c = worker.c /\ hub' = hub
    BY <1>3 DEF Begin, IInv, LocalsOK, WorkerOK
  <2>3. \A c : /\ Stored(disk, c) => Stored(disk', c)
               /\ Stored(disk', c) => Stored(disk, c) \/ c = worker.c
    BY <2>1, <2>2 DEF Stored
  <2>4. gone' = gone BY <1>2, <2>3
  <2>5. GoesOn BY <1>3, StagePhases DEF WorkerStep
  <2>6. worker'.pc \in {"stage", "drop"}
    BY <1>3, <2>2 DEF Begin, GoOn, Dropping, Idle, IInv, LocalsOK, WorkerOK
  <2>7. worker.c \notin gone /\ hub[worker.c] # "unknown" BY <1>0, <2>2 DEF Early
  <2>8. \A c \in gone' : ~Stored(disk', c) BY <1>0, <2>3, <2>4, <2>7
  <2>9. \A c \in Ceremonies : hub'[c] = "unknown" => c \notin gone' /\ ~Stored(disk', c)
    BY <1>0, <2>2, <2>3, <2>4, <2>7
  <2>10. worker'.pc \notin {"idle", "drop"} => hub'[worker'.c] # "unknown"
    BY <2>2, <2>5, <2>7 DEF GoesOn
  <2> QED BY <2>6, <2>8, <2>9, <2>10 DEF FreshOK, Fresh
<1>4. CASE ~Begin
  <2>1. \A c : Stored(disk', c) => Stored(disk, c) BY <1>4, StoreStep DEF Careful
  <2>2. \A c \in gone' : ~Stored(disk', c) BY <1>0, <1>2, <2>1
  <2>3. \A c : c \notin gone /\ ~Stored(disk, c) => c \notin gone' /\ ~Stored(disk', c) BY <1>2, <2>1
  <2>4. \A c \in Ceremonies : hub'[c] = "unknown" => c \notin gone' /\ ~Stored(disk', c)
    BY <1>0, <1>1, <2>3
  <2>5. /\ worker'.pc \notin {"idle", "drop"} => hub'[worker'.c] # "unknown"
        /\ worker'.pc \in Early => worker'.c \notin gone' /\ ~Stored(disk', worker'.c)
    <3>1. CASE WorkerStep
      <4>1. worker'.pc \notin {"idle", "drop"} => worker'.c \in Ceremonies
        BY <3>1 DEF WorkerStep, WorkerOK
      <4>2. worker'.pc \in Early => worker'.pc \notin {"idle", "drop"} BY DEF Early
      <4> QED BY <1>0, <1>1, <2>3, <3>1, <4>1, <4>2 DEF WorkerStep, GoesOn
    <3>2. ASSUME NEW c \in Ceremonies, Contact(c)
          PROVE  hub'[worker'.c] # "unknown" /\ worker'.c \notin gone' /\ ~Stored(disk', worker'.c)
      <4>1. worker'.c = c /\ hub[c] = "unknown" /\ hub' = [hub EXCEPT ![c] = "started"]
        BY <3>2, ContactIs
      <4>2. hub'[c] = "started" BY <1>1, <4>1
      <4> QED BY <1>0, <2>3, <4>1, <4>2
    <3>3. CASE Decide
      <4>1. worker'.c = worker.c /\ worker.pc = "ready" /\ hub' = hub BY <3>3, DecideIs
      <4> QED BY <1>0, <2>3, <4>1 DEF Early
    <3> QED BY <3>1, <3>2, <3>3, WorkersStep
  <2> QED BY <2>2, <2>4, <2>5 DEF FreshOK, Fresh, Early
<1> QED BY <1>3, <1>4

LEMMA RootMoves ==
  ASSUME Next PROVE UNCHANGED <<root, forget>> \/ Forget \/ ForgetStep \/ NewRoot \/ Crash
<1>1. ASSUME NEW c \in Ceremonies, Contact(c) \/ HubDecides(c) PROVE UNCHANGED <<root, forget>>
  BY <1>1 DEF Contact, HubDecides, Others
<1>2. PolicyLoad \/ PolicyStore \/ PolicyRecheck \/ Decide => UNCHANGED <<root, forget>>
  BY DEF PolicyLoad, PolicyStore, PolicyRecheck, Decide, Others
<1>3. Begin \/ Advance \/ CommitPayload \/ Release => UNCHANGED <<root, forget>>
  BY DEF Begin, Advance, CommitPayload, Release, Others
<1>4. TakeSent \/ Receive \/ Finish \/ Fail \/ DropGuard \/ Cancel => UNCHANGED <<root, forget>>
  BY DEF TakeSent, Receive, Finish, Fail, DropGuard, Cancel, Others
<1>5. Recover \/ RecoverAnswer \/ ReloadAnswer \/ List => UNCHANGED <<root, forget>>
  BY DEF Recover, RecoverAnswer, ReloadAnswer, List
<1>6. ASSUME NEW a \in Apps, Reload(a) \/ UnlinkLoad(a) PROVE UNCHANGED <<root, forget>>
  BY <1>6 DEF Reload, UnlinkLoad, UnlinkFrame
<1>7. UnlinkStart \/ UnlinkCancel \/ UnlinkPolicyLoad => UNCHANGED <<root, forget>>
  BY DEF UnlinkStart, UnlinkCancel, UnlinkPolicyLoad, UnlinkFrame
<1>8. UnlinkPolicyStore \/ UnlinkWrite \/ UnlinkUndo => UNCHANGED <<root, forget>>
  BY DEF UnlinkPolicyStore, UnlinkWrite, UnlinkUndo, UnlinkFrame
<1> QED BY <1>1, <1>2, <1>3, <1>4, <1>5, <1>6, <1>7, <1>8 DEF Next

LEMMA RemovedMoves == ASSUME Next PROVE UNCHANGED removed \/ UnlinkWrite \/ ForgetStep
<1>1. ASSUME NEW c \in Ceremonies, Contact(c) \/ HubDecides(c) PROVE UNCHANGED removed
  BY <1>1 DEF Contact, HubDecides, Others
<1>2. PolicyLoad \/ PolicyStore \/ PolicyRecheck \/ Decide => UNCHANGED removed
  BY DEF PolicyLoad, PolicyStore, PolicyRecheck, Decide, Others
<1>3. Begin \/ Advance \/ CommitPayload \/ Release => UNCHANGED removed
  BY DEF Begin, Advance, CommitPayload, Release, Others
<1>4. TakeSent \/ Receive \/ Finish \/ Fail \/ DropGuard \/ Cancel => UNCHANGED removed
  BY DEF TakeSent, Receive, Finish, Fail, DropGuard, Cancel, Others
<1>5. Recover \/ RecoverAnswer \/ ReloadAnswer \/ List => UNCHANGED removed
  BY DEF Recover, RecoverAnswer, ReloadAnswer, List
<1>6. ASSUME NEW a \in Apps, Reload(a) \/ UnlinkLoad(a) PROVE UNCHANGED removed
  BY <1>6 DEF Reload, UnlinkLoad
<1>7. UnlinkStart \/ UnlinkCancel \/ UnlinkPolicyLoad => UNCHANGED removed
  BY DEF UnlinkStart, UnlinkCancel, UnlinkPolicyLoad
<1>8. UnlinkPolicyStore \/ UnlinkUndo \/ Forget \/ NewRoot \/ Crash => UNCHANGED removed
  BY DEF UnlinkPolicyStore, UnlinkUndo, Forget, NewRoot, Crash
<1> QED BY <1>1, <1>2, <1>3, <1>4, <1>5, <1>6, <1>7, <1>8 DEF Next

(* Outside a root change: what is written is of the root in custody. *)
LEMMA RootStaysStep == ASSUME IInv, Next, UNCHANGED <<root, forget>> PROVE RootOK'
<1>0. /\ \A rec \in RecordsIn(disk) : rec.root # root => rec.stage = "FinalApproval"
      /\ forget # "idle" => ~worker.live /\ root # None
      /\ root = None => ~worker.live
      /\ forget \in {"policy", "custody"} => \A rec \in RecordsIn(disk) : rec.stage = "FinalApproval"
      /\ worker.live /\ worker.pc \in {"begin", "stage"} => worker.cur.root = root
      /\ worker.pc = "stage" => \/ worker.cur.root = root /\ forget \notin {"policy", "custody"}
                                \/ ~Stored(disk, worker.c)
      /\ WorkerOK(worker)
  BY DEF IInv, RootOK, LocalsOK
<1>1. /\ \A rec \in RecordsIn(disk') : rec.root # root => rec.stage = "FinalApproval"
      /\ forget \in {"policy", "custody"} => \A rec \in RecordsIn(disk') : rec.stage = "FinalApproval"
      /\ ~Begin => \A c : Stored(disk', c) => Stored(disk, c)
  <2>1. CASE Begin
    <3>1. RecordsIn(disk') \subseteq RecordsIn(disk) \cup {worker.cur} BY <2>1, BeginIs
    <3>2. worker.cur.stage = "FinalApproval" BY <1>0, <2>1 DEF Begin, WorkerOK
    <3> QED BY <1>0, <2>1, <3>1, <3>2
  <2>2. CASE ~Begin
    <3>1. Careful(disk, disk', Lost) BY <2>2, StoreStep
    <3> QED BY <1>0, <3>1 DEF Careful
  <2> QED BY <2>1, <2>2
<1>2. CASE WorkerStep
  <2>1. WorkerOK(worker') /\ GoesOn BY <1>2 DEF WorkerStep
  <2>2. worker'.live => worker.live BY <1>0, <2>1 DEF GoesOn, WorkerOK
  <2>3. worker'.live /\ worker'.pc \in {"begin", "stage"} => worker'.cur.root = root
    BY <1>0, <2>1, <2>2 DEF GoesOn
  <2>4. ASSUME worker'.pc = "stage"
        PROVE  \/ worker'.cur.root = root /\ forget \notin {"policy", "custody"}
               \/ ~Stored(disk', worker'.c)
    <3>1. /\ worker.pc \in {"begin", "stage"} /\ worker'.cur.root = worker.cur.root
          /\ worker'.c = worker.c /\ (worker.pc = "stage" \/ worker.live = TRUE)
      BY <2>1, <2>4 DEF GoesOn
    <3>2. CASE worker.live = TRUE BY <1>0, <3>1, <3>2
    <3>3. CASE worker.pc = "stage"
      <4>1. ~Begin BY <3>3 DEF Begin
      <4> QED BY <1>0, <1>1, <3>1, <3>3, <4>1
    <3> QED BY <3>1, <3>2, <3>3
  <2> QED BY <1>0, <1>1, <2>2, <2>3, <2>4 DEF RootOK
<1>3. CASE \E c \in Ceremonies : Contact(c)
  <2>1. /\ worker'.pc \in {"ready", "recheck", "insert"} /\ forget = "idle" /\ root # None
    BY <1>3, ContactIs
  <2> QED BY <1>1, <2>1 DEF RootOK
<1>4. CASE Decide
  <2>1. worker'.pc = "begin" /\ worker'.cur.root = root /\ worker.live = TRUE BY <1>4, DecideIs
  <2> QED BY <1>0, <1>1, <2>1 DEF RootOK
<1> QED BY <1>2, <1>3, <1>4, WorkersStep

(* A root change: a worker inside an effect is fenced, and once the links are *)
(* purged its record is not there to be advanced.                             *)
LEMMA RootStep == ASSUME IInv, Next PROVE RootOK'
<1>0. /\ \A rec \in RecordsIn(disk) : rec.root # root => rec.stage = "FinalApproval"
      /\ forget # "idle" => ~worker.live /\ root # None
      /\ root = None => ~worker.live
      /\ forget \in {"policy", "custody"} => \A rec \in RecordsIn(disk) : rec.stage = "FinalApproval"
      /\ worker.pc = "stage" => \/ worker.cur.root = root /\ forget \notin {"policy", "custody"}
                                \/ ~Stored(disk, worker.c)
      /\ WorkerOK(worker) /\ root \in Roots \cup {None} /\ forget \in {"idle", "links", "policy", "custody"}
  BY DEF IInv, RootOK, LocalsOK
<1>1. CASE UNCHANGED <<root, forget>> BY <1>1, RootStaysStep
<1>2. ASSUME worker' = Revoked
      PROVE  ~worker'.live /\ (worker'.pc = "stage" => worker.pc = "stage" /\ worker' = [worker EXCEPT !.live = FALSE])
  BY <1>0, <1>2 DEF Revoked, Idle, WorkerOK
<1>3. CASE Forget
  <2>1. /\ forget = "idle" /\ root # None /\ forget' = "links" /\ root' = root /\ disk' = disk
        /\ worker' = Revoked
    BY <1>3 DEF Forget, Quiet
  <2>2. worker'.pc = "stage" => worker'.cur = worker.cur BY <1>0, <1>2, <2>1 DEF WorkerOK
  <2>3. worker'.pc = "stage" => \/ worker'.cur.root = root \/ ~Stored(disk, worker'.c)
    BY <1>0, <1>2, <2>1, <2>2 DEF WorkerOK
  <2> QED BY <1>0, <1>2, <2>1, <2>3 DEF RootOK
<1>4. CASE NewRoot
  <2>1. /\ forget = "idle" /\ root = None /\ forget' = forget /\ root' \in Roots /\ disk' = disk
        /\ worker' = Revoked
    BY <1>4 DEF NewRoot, Quiet
  <2>2. \A rec \in RecordsIn(disk) : rec.stage = "FinalApproval"
    <3>1. \A rec \in RecordsIn(disk) : rec.root \in Roots BY RecordsTyped DEF Record
    <3> QED BY <1>0, <2>1, <3>1, LinkAssumption
  <2>3. worker'.pc = "stage" => ~Stored(disk, worker'.c)
    <3>1. worker'.pc = "stage" => worker.cur.root \in Roots /\ worker'.c = worker.c
      BY <1>0, <1>2, <2>1 DEF WorkerOK, Record
    <3> QED BY <1>0, <1>2, <2>1, <3>1, LinkAssumption
  <2>4. root' # None BY <2>1, LinkAssumption
  <2> QED BY <1>2, <2>1, <2>2, <2>3, <2>4 DEF RootOK
<1>5. CASE Crash
  <2>1. disk' = disk /\ root' = root /\ forget' = "idle" /\ worker' = Idle BY <1>5 DEF Crash
  <2>2. worker'.pc = "idle" /\ ~worker'.live BY <2>1, IdleOK
  <2> QED BY <1>0, <2>1, <2>2 DEF RootOK
<1>6. CASE ForgetStep
  <2>0. worker' = worker /\ ~worker.live /\ root # None /\ forget # "idle" BY <1>0, <1>6 DEF ForgetStep
  <2>1. CASE forget = "links"
    <3>1. /\ RecordsIn(disk') \subseteq RecordsIn(disk)
          /\ forget' # "idle" => RecordsIn(disk') = {} /\ forget' = "policy"
      BY <1>6, <2>1, ForgetStepIs
    <3>2. root' = root BY <1>6, <2>1 DEF ForgetStep
    <3>3. \A c : Stored(disk', c) => Stored(disk, c) BY <3>1 DEF Stored
    <3>4. forget' # "idle" => \A c : ~Stored(disk', c) BY <3>1 DEF Stored
    <3> QED BY <1>0, <2>0, <3>1, <3>2, <3>3, <3>4 DEF RootOK
  <2>2. CASE forget # "links"
    <3>1. forget \in {"policy", "custody"} BY <1>0, <2>0, <2>2
    <3>2. Careful(disk, disk', Lost) BY <1>6, ForgetStepIs DEF DiskStep
    <3>3. \A rec \in RecordsIn(disk') : rec.stage = "FinalApproval" BY <1>0, <3>1, <3>2 DEF Careful
    <3>4. worker.pc = "stage" => ~Stored(disk', worker.c) BY <1>0, <3>1, <3>2 DEF Careful
    <3>5. forget' = "idle" \/ root' = root BY <1>6 DEF ForgetStep
    <3> QED BY <2>0, <3>3, <3>4, <3>5 DEF RootOK
  <2> QED BY <2>1, <2>2
<1> QED BY <1>1, <1>3, <1>4, <1>5, <1>6, RootMoves

(* A payload the hub may accept is on the disk. *)
LEMMA KeptStep == ASSUME IInv, Next PROVE KeptOK'
<1>0. /\ \A c \in Ceremonies : hub[c] \in {"offered", "final"} => KeptIn(disk, c) \/ c \in removed
      /\ worker.pc = "release" /\ hub[worker.c] = "started" => KeptIn(disk, worker.c) \/ worker.c \in removed
      /\ hub \in [Ceremonies -> {"unknown", "started", "offered", "final", "void"}]
  BY DEF IInv, KeptOK, Kept, LocalsOK
<1>1. removed \subseteq removed'
  <2>1. UnlinkWrite \/ ForgetStep => removed \subseteq removed' BY DEF UnlinkWrite, ForgetStep
  <2>2. UNCHANGED removed \/ UnlinkWrite \/ ForgetStep BY RemovedMoves
  <2> QED BY <2>1, <2>2
<1>2. ASSUME NEW c, hub[c] # "void", KeptIn(disk, c) \/ c \in removed
      PROVE  KeptIn(disk', c) \/ c \in removed'
  <2>1. CASE Begin
    <3>1. RecordsIn(disk) \subseteq RecordsIn(disk') BY <2>1, BeginIs
    <3> QED BY <1>1, <1>2, <3>1 DEF KeptIn
  <2>2. CASE ~Begin
    <3>1. Careful(disk, disk', Lost) BY <2>2, StoreStep
    <3> QED BY <1>1, <1>2, <3>1 DEF Careful, Lost
  <2> QED BY <2>1, <2>2
<1>3. ASSUME NEW c \in Ceremonies, hub'[c] \in {"offered", "final"}
      PROVE  KeptIn(disk', c) \/ c \in removed'
  <2>1. \/ hub[c] \in {"offered", "final"}
        \/ worker.pc = "release" /\ worker.c = c /\ hub[c] = "started"
    BY <1>3, HubStep
  <2> QED BY <1>0, <1>2, <2>1
<1>4. ASSUME worker'.pc = "release", hub'[worker'.c] = "started"
      PROVE  KeptIn(disk', worker'.c) \/ worker'.c \in removed'
  <2>1. WorkerStep BY <1>4, WorkersStep, ContactIs, DecideIs
  <2>2. /\ worker'.c = worker.c /\ worker'.c \in Ceremonies
        /\ worker.pc = "release" \/ KeptIn(disk', worker.c)
    BY <1>4, <2>1 DEF WorkerStep, WorkerOK, GoesOn
  <2>3. hub[worker.c] = "started"
    <3>1. ~ \E x \in Ceremonies : Contact(x) BY <1>4, ContactIs
    <3> QED BY <1>4, <2>2, <3>1, HubStep
  <2> QED BY <1>0, <1>2, <2>2, <2>3
<1> QED BY <1>3, <1>4 DEF KeptOK, Kept

\* An unlink writes the application, and what it showed of it, that it compared.
Writing == {"load", "set", "write"}
UnlinkStep ==
  /\ UnlinkOK(unlink')
  /\ unlink'.pc \in Writing => /\ unlink'.app = unlink.app /\ unlink'.snap = unlink.snap
                               /\ \/ unlink.pc \in Writing
                                  \/ disk' = disk /\ SnapshotHolds

LEMMA NoUnlinkOK == UnlinkOK(NoUnlink) /\ NoUnlink.pc = "idle"
<1>1. <<>> \in Seq(Record) BY EmptyIs
<1> QED BY <1>1 DEF UnlinkOK, NoUnlink, UnlinkSteps

LEMMA CompensateOK ==
  ASSUME NEW undo \in SUBSET Pairs
  PROVE  UnlinkOK(Compensate(undo)) /\ Compensate(undo).pc \notin Writing
<1>1. <<>> \in Seq(Record) BY EmptyIs
<1>2. PICK u : u = [NoUnlink EXCEPT !.pc = "undoLoad", !.undo = undo] OBVIOUS
<1>3. UnlinkOK(u) /\ u.pc = "undoLoad" BY <1>1, <1>2 DEF NoUnlink, UnlinkOK, UnlinkSteps
<1> QED BY <1>2, <1>3, NoUnlinkOK DEF Compensate, Writing

LEMMA UnlinksStep == ASSUME IInv, Next PROVE UnlinkStep
<1>0. UnlinkOK(unlink) /\ DiskOK(disk) /\ disk.policy \in SUBSET Pairs
  BY DEF IInv, LocalsOK, DiskOK, Disks
<1>1. CASE unlink' = unlink BY <1>0, <1>1 DEF UnlinkStep
<1>2. CASE unlink' = NoUnlink BY <1>2, NoUnlinkOK DEF UnlinkStep, Writing
<1>3. ASSUME NEW undo \in SUBSET Pairs, unlink' = Compensate(undo) PROVE UnlinkStep
  BY <1>3, CompensateOK DEF UnlinkStep
<1>4. ASSUME NEW a \in Apps, UnlinkLoad(a) PROVE UnlinkStep
  <2>1. PICK snap, states :
          /\ snap = disk.slots[a] /\ unlink' = [NoUnlink EXCEPT !.pc = "confirm", !.app = a, !.snap = snap, !.states = states]
          /\ states = {<<p, p \in disk.policy>> : p \in {PairOf(rec.c) : rec \in {x \in Selected(snap) : x.c \in Legacy}}}
    BY <1>4 DEF UnlinkLoad
  <2>2. snap \in Seq(Record) /\ snap # <<>> BY <1>0, <1>4, <2>1 DEF UnlinkLoad, DiskOK, Disks
  <2>3. \A rec \in Selected(snap) : PairOf(rec.c) \in Pairs
    <3>1. Selected(snap) \subseteq Records(snap) BY DEF Selected, PendingIn
    <3>2. Records(snap) \subseteq Record BY <2>2, RecordsOf
    <3> QED BY <3>1, <3>2, LinkAssumption DEF PairOf, Pairs, Record
  <2>4. states \in SUBSET (Pairs \X BOOLEAN)
    <3> SUFFICES ASSUME NEW s \in states PROVE s \in Pairs \X BOOLEAN OBVIOUS
    <3>1. PICK p : p \in Pairs /\ s = <<p, p \in disk.policy>> BY <2>1, <2>3
    <3>2. (p \in disk.policy) = TRUE \/ (p \in disk.policy) = FALSE OBVIOUS
    <3>3. s = <<p, TRUE>> \/ s = <<p, FALSE>> BY <3>1, <3>2
    <3> QED BY <3>1, <3>3
  <2>5. UnlinkOK(unlink') /\ unlink'.pc = "confirm"
    BY <1>4, <2>1, <2>2, <2>4 DEF NoUnlink, UnlinkOK, UnlinkSteps
  <2> QED BY <2>5 DEF UnlinkStep, Writing
<1>5. CASE UnlinkStart
  <2>1. unlink.pc = "confirm" /\ disk' = disk BY <1>5 DEF UnlinkStart, Quiet
  <2>2. PICK kept, todo :
          /\ todo = {s[1] : s \in {x \in unlink.states : x[2]}} \ kept
          /\ \/ unlink' = NoUnlink
             \/ /\ SnapshotHolds
                /\ \E pc \in {"write", "load"} :
                     unlink' = [unlink EXCEPT !.pc = pc, !.todo = todo, !.states = {}]
    BY <1>5 DEF UnlinkStart
  <2>3. todo \in SUBSET Pairs BY <1>0, <2>2 DEF UnlinkOK
  <2>4. ASSUME SnapshotHolds, NEW pc \in {"write", "load"},
               unlink' = [unlink EXCEPT !.pc = pc, !.todo = todo, !.states = {}]
        PROVE  UnlinkStep
    <3>1. pc \in UnlinkSteps BY DEF UnlinkSteps
    <3> QED BY <1>0, <2>1, <2>3, <2>4, <3>1 DEF UnlinkStep, UnlinkOK
  <2> QED BY <1>2, <2>2, <2>4
<1>6. CASE UnlinkPolicyLoad
  <2>1. unlink.pc = "load" /\ unlink' = [unlink EXCEPT !.pc = "set", !.seen = disk.policy]
    BY <1>6 DEF UnlinkPolicyLoad
  <2>2. "set" \in UnlinkSteps BY DEF UnlinkSteps
  <2> QED BY <1>0, <2>1, <2>2 DEF UnlinkStep, UnlinkOK, Writing
<1>7. CASE UnlinkPolicyStore
  <2>0. PICK p \in unlink.todo :
          \/ unlink' = Compensate(unlink.undo)
          \/ unlink' = [unlink EXCEPT !.pc = IF unlink.todo = {p} THEN "write" ELSE "load",
                                      !.todo = unlink.todo \ {p}, !.undo = unlink.undo \cup {p}, !.seen = {}]
    BY <1>7 DEF UnlinkPolicyStore
  <2>1. PICK todo, undo :
          /\ todo = unlink.todo \ {p} /\ undo = unlink.undo \cup {p}
          /\ \/ unlink' = Compensate(unlink.undo)
             \/ \E pc \in {"write", "load"} :
                  unlink' = [unlink EXCEPT !.pc = pc, !.todo = todo, !.undo = undo, !.seen = {}]
    BY <2>0
  <2>2. unlink.pc = "set" /\ todo \in SUBSET Pairs /\ undo \in SUBSET Pairs /\ unlink.undo \in SUBSET Pairs
    BY <1>0, <1>7, <2>0, <2>1 DEF UnlinkOK, UnlinkPolicyStore
  <2>3. ASSUME NEW pc \in {"write", "load"},
               unlink' = [unlink EXCEPT !.pc = pc, !.todo = todo, !.undo = undo, !.seen = {}]
        PROVE  UnlinkStep
    <3>1. pc \in UnlinkSteps BY DEF UnlinkSteps
    <3> QED BY <1>0, <2>1, <2>2, <2>3, <3>1 DEF UnlinkStep, UnlinkOK, Writing
  <2> QED BY <1>3, <2>1, <2>2, <2>3
<1>8. CASE UnlinkWrite
  <2>1. unlink' = NoUnlink \/ unlink' = Compensate(unlink.undo) BY <1>8 DEF UnlinkWrite
  <2> QED BY <1>0, <1>2, <1>3, <2>1 DEF UnlinkOK
<1>9. CASE UnlinkUndo
  <2>1. \/ unlink' = [unlink EXCEPT !.pc = "undoSet", !.seen = disk.policy]
        \/ \E p \in unlink.undo : unlink' = Compensate(unlink.undo \ {p})
    BY <1>9 DEF UnlinkUndo
  <2>2. CASE unlink' = [unlink EXCEPT !.pc = "undoSet", !.seen = disk.policy]
    <3>1. "undoSet" \in UnlinkSteps BY DEF UnlinkSteps
    <3> QED BY <1>0, <2>2, <3>1 DEF UnlinkStep, UnlinkOK, Writing
  <2>3. ASSUME NEW p \in unlink.undo, unlink' = Compensate(unlink.undo \ {p}) PROVE UnlinkStep
    <3>1. unlink.undo \ {p} \in SUBSET Pairs BY <1>0 DEF UnlinkOK
    <3> QED BY <1>3, <2>3, <3>1
  <2> QED BY <2>1, <2>2, <2>3
<1>10. UnlinkCancel \/ Crash => unlink' = NoUnlink BY DEF UnlinkCancel, Crash
<1>11. ASSUME NEW c \in Ceremonies, Contact(c) \/ HubDecides(c) PROVE unlink' = unlink
  BY <1>11 DEF Contact, HubDecides, Others
<1>12. PolicyLoad \/ PolicyStore \/ PolicyRecheck \/ Decide => unlink' = unlink
  BY DEF PolicyLoad, PolicyStore, PolicyRecheck, Decide, Others
<1>13. Begin \/ Advance \/ CommitPayload \/ Release => unlink' = unlink
  BY DEF Begin, Advance, CommitPayload, Release, Others
<1>14. TakeSent \/ Receive \/ Finish \/ Fail \/ DropGuard \/ Cancel => unlink' = unlink
  BY DEF TakeSent, Receive, Finish, Fail, DropGuard, Cancel, Others
<1>15. Recover \/ RecoverAnswer \/ ReloadAnswer \/ List => unlink' = unlink
  BY DEF Recover, RecoverAnswer, ReloadAnswer, List
<1>16. ASSUME NEW a \in Apps, Reload(a) PROVE unlink' = unlink BY <1>16 DEF Reload
<1>17. Forget \/ ForgetStep \/ NewRoot => unlink' = unlink BY DEF Forget, ForgetStep, NewRoot
<1> QED BY <1>1, <1>2, <1>4, <1>5, <1>6, <1>7, <1>8, <1>9, <1>10, <1>11, <1>12, <1>13, <1>14, <1>15,
           <1>16, <1>17 DEF Next

LEMMA SnapshotStep == ASSUME IInv, Next PROVE SnapshotKept'
<1> SUFFICES ASSUME unlink'.pc \in Writing PROVE disk'.slots[unlink'.app] = unlink'.snap
  BY DEF SnapshotKept, Writing
<1>1. /\ unlink'.app = unlink.app /\ unlink'.snap = unlink.snap
      /\ \/ unlink.pc \in Writing
         \/ disk' = disk /\ SnapshotHolds
  BY UnlinksStep DEF UnlinkStep
<1>2. CASE disk' = disk /\ SnapshotHolds BY <1>1, <1>2 DEF SnapshotHolds
<1>3. CASE unlink.pc \in Writing
  <2>1. Locked /\ disk.slots[unlink.app] = unlink.snap
    BY <1>3 DEF Locked, Writing, IInv, SnapshotKept
  <2>2. ~UnlinkWrite
    <3>1. UnlinkWrite => unlink' = NoUnlink \/ unlink' = Compensate(unlink.undo) BY DEF UnlinkWrite
    <3>2. unlink.undo \in SUBSET Pairs BY DEF IInv, LocalsOK, UnlinkOK
    <3> QED BY <3>1, <3>2, NoUnlinkOK, CompensateOK DEF Writing
  <2> QED BY <1>1, <2>1, <2>2, StoreStep
<1> QED BY <1>1, <1>2, <1>3

(* A recovery holds a payload that was prepared, a reload an installed link. *)
LEMMA LoadedStep ==
  ASSUME IInv, Next
  PROVE  /\ recovery' \in Record \cup {None} /\ (recovery' # None => recovery'.stage \in PayloadStages)
         /\ reload' \in Record \cup {None} /\ (reload' # None => Installed(reload'))
<1>0. /\ recovery \in Record \cup {None} /\ (recovery # None => recovery.stage \in PayloadStages)
      /\ reload \in Record \cup {None} /\ (reload # None => Installed(reload))
  BY DEF IInv, LocalsOK
<1>1. CASE UNCHANGED <<recovery, reload>> BY <1>0, <1>1
<1>2. CASE Recover
  <2>1. recovery' \in RecordsIn(disk) /\ recovery'.stage \in PayloadStages /\ reload' = reload
    BY <1>2 DEF Recover
  <2> QED BY <1>0, <2>1, RecordsTyped
<1>3. CASE RecoverAnswer \/ ReloadAnswer \/ Crash
  <2>1. /\ recovery' = recovery \/ recovery' = None
        /\ reload' = reload \/ reload' = None
    BY <1>3 DEF RecoverAnswer, ReloadAnswer, Crash
  <2> QED BY <1>0, <2>1
<1>4. ASSUME NEW a \in Apps, Reload(a)
      PROVE  recovery' = recovery /\ reload' \in RecordsIn(disk) /\ Installed(reload')
  BY <1>4 DEF Reload, RecordsIn, Records
<1>5. ASSUME NEW c \in Ceremonies, Contact(c) \/ HubDecides(c) PROVE UNCHANGED <<recovery, reload>>
  BY <1>5 DEF Contact, HubDecides, Others
<1>6. PolicyLoad \/ PolicyStore \/ PolicyRecheck \/ Decide => UNCHANGED <<recovery, reload>>
  BY DEF PolicyLoad, PolicyStore, PolicyRecheck, Decide, Others
<1>7. Begin \/ Advance \/ CommitPayload \/ Release => UNCHANGED <<recovery, reload>>
  BY DEF Begin, Advance, CommitPayload, Release, Others
<1>8. TakeSent \/ Receive \/ Finish \/ Fail \/ DropGuard \/ Cancel => UNCHANGED <<recovery, reload>>
  BY DEF TakeSent, Receive, Finish, Fail, DropGuard, Cancel, Others
<1>9. List \/ Forget \/ ForgetStep \/ NewRoot => UNCHANGED <<recovery, reload>>
  BY DEF List, Forget, ForgetStep, NewRoot
<1>10. ASSUME NEW a \in Apps, UnlinkLoad(a) PROVE UNCHANGED <<recovery, reload>>
  BY <1>10 DEF UnlinkLoad, UnlinkFrame
<1>11. UnlinkStart \/ UnlinkCancel \/ UnlinkPolicyLoad => UNCHANGED <<recovery, reload>>
  BY DEF UnlinkStart, UnlinkCancel, UnlinkPolicyLoad, UnlinkFrame
<1>12. UnlinkPolicyStore \/ UnlinkWrite \/ UnlinkUndo => UNCHANGED <<recovery, reload>>
  BY DEF UnlinkPolicyStore, UnlinkWrite, UnlinkUndo, UnlinkFrame
<1> QED BY <1>0, <1>1, <1>2, <1>3, <1>4, <1>5, <1>6, <1>7, <1>8, <1>9, <1>10, <1>11, <1>12,
           RecordsTyped DEF Next

LEMMA LocalsStep == ASSUME IInv, Next PROVE LocalsOK'
<1>1. root' \in Roots \cup {None} /\ forget' \in {"idle", "links", "policy", "custody"}
  <2>0. root \in Roots \cup {None} /\ forget \in {"idle", "links", "policy", "custody"}
    BY DEF IInv, LocalsOK
  <2>1. CASE UNCHANGED <<root, forget>> BY <2>0, <2>1
  <2>2. CASE Forget \/ NewRoot \/ Crash BY <2>0, <2>2 DEF Forget, NewRoot, Crash
  <2>3. CASE ForgetStep
    <3>1. root' \in {None, root} BY <2>3 DEF ForgetStep
    <3>2. forget' \in {"idle", "policy", "custody"} BY <2>3 DEF ForgetStep
    <3> QED BY <2>0, <3>1, <3>2
  <2> QED BY <2>1, <2>2, <2>3, RootMoves
<1>2. WorkerOK(worker') BY WorkersStep, ContactIs, DecideIs DEF WorkerStep
<1>3. UnlinkOK(unlink') BY UnlinksStep DEF UnlinkStep
<1>4. removed' \subseteq Ceremonies
  <2>0. removed \subseteq Ceremonies /\ \A rec \in RecordsIn(disk) : rec.c \in Ceremonies
    BY RecordsTyped DEF IInv, LocalsOK, Record
  <2>1. CASE UNCHANGED removed BY <2>0, <2>1
  <2>2. ASSUME NEW rest, removed' = removed \cup {rec.c : rec \in RecordsIn(disk) \ rest}
        PROVE  removed' \subseteq Ceremonies
    BY <2>0, <2>2
  <2>3. UnlinkWrite => \E rest : removed' = removed \cup {rec.c : rec \in RecordsIn(disk) \ rest}
    BY DEF UnlinkWrite
  <2>4. ForgetStep => \/ UNCHANGED removed
                      \/ \E rest : removed' = removed \cup {rec.c : rec \in RecordsIn(disk) \ rest}
    BY DEF ForgetStep
  <2> QED BY <2>1, <2>2, <2>3, <2>4, RemovedMoves
<1>5. gone' \subseteq Ceremonies
  <2>1. gone \subseteq Ceremonies BY DEF IInv, LocalsOK
  <2> QED BY <2>1, StoreStep DEF Remembered
<1> QED BY <1>1, <1>2, <1>3, <1>4, <1>5, HubStep, LoadedStep DEF LocalsOK

LEMMA Initially == Init => IInv
<1> SUFFICES ASSUME Init PROVE IInv OBVIOUS
<1>0. /\ disk = [index |-> {}, slots |-> [a \in Apps |-> <<>>], policy |-> {}]
      /\ root \in Roots /\ worker = Idle /\ recovery = None /\ reload = None
      /\ unlink = NoUnlink /\ forget = "idle" /\ hub = [c \in Ceremonies |-> "unknown"]
      /\ removed = {} /\ gone = {}
  BY DEF Init
<1>1. /\ disk.index = {} /\ disk.policy = {} /\ \A a \in Apps : disk.slots[a] = <<>>
      /\ disk.slots = [a \in Apps |-> <<>>]
  BY <1>0
<1>2. DiskOK(disk)
  <2>1. disk.slots \in [Apps -> Seq(Record)] BY <1>1, EmptyIs
  <2>2. disk \in Disks
    <3>1. PICK slots, none : slots = disk.slots /\ none = {} OBVIOUS
    <3>2. disk = [index |-> none, slots |-> slots, policy |-> none] BY <1>0, <3>1
    <3>3. none \in SUBSET Apps /\ none \in SUBSET Pairs BY <3>1
    <3> QED BY <2>1, <3>1, <3>2, <3>3 DEF Disks
  <2>3. IsFiniteSet(disk.index) /\ Cardinality(disk.index) <= MaxLinks
    <3>1. IsFiniteSet({}) /\ Cardinality({}) = 0 BY FS_EmptySet
    <3> QED BY <1>1, <3>1, LinkAssumption
  <2>4. Owned(disk) /\ Listed(disk) /\ \A a \in Apps : Valid(disk.slots[a])
    BY <1>1, EmptyIs DEF Owned, Listed
  <2> QED BY <2>2, <2>3, <2>4 DEF DiskOK
<1>3. RecordsIn(disk) = {} BY <1>1, EmptyIs DEF RecordsIn
<1>4. LocalsOK BY <1>0, IdleOK, NoUnlinkOK DEF LocalsOK
<1>5. SnapshotKept BY <1>0, NoUnlinkOK DEF SnapshotKept
<1>6. FreshOK BY <1>0, <1>3, IdleOK DEF FreshOK, Fresh, Stored
<1>7. root # None BY <1>0, LinkAssumption
<1>8. RootOK BY <1>0, <1>3, <1>7, IdleOK DEF RootOK
<1>9. KeptOK BY <1>0, IdleOK DEF KeptOK
<1> QED BY <1>2, <1>4, <1>5, <1>6, <1>8, <1>9 DEF IInv

LEMMA Inductive == IInv /\ [Next]_vars => IInv'
<1>1. ASSUME IInv, Next PROVE IInv'
  <2>1. DiskOK(disk') BY <1>1, StoreStep
  <2> QED BY <1>1, <2>1, LocalsStep, SnapshotStep, FreshStep, RootStep, KeptStep DEF IInv
<1>2. ASSUME IInv, UNCHANGED vars PROVE IInv'
  <2>1. DiskOK(disk)' /\ LocalsOK' /\ SnapshotKept'
    BY <1>2 DEF vars, IInv, LocalsOK, SnapshotKept
  <2>2. FreshOK' BY <1>2 DEF vars, IInv, FreshOK, Fresh
  <2>3. RootOK' BY <1>2 DEF vars, IInv, RootOK
  <2>4. KeptOK' BY <1>2 DEF vars, IInv, KeptOK, Kept
  <2> QED BY <2>1, <2>2, <2>3, <2>4 DEF IInv
<1> QED BY <1>1, <1>2

-----------------------------------------------------------------------------
(* What holds of every behaviour *)

(* The invariant: whatever store call fails and wherever the process stops,   *)
(* the store is well formed and every command knows what it may still write.  *)
THEOREM StoreInvariant == Spec => []IInv
BY Initially, Inductive, PTL DEF Spec

(* Every record that a listing would read is recognised again, belongs to the *)
(* application it is stored under, and declares the offer's key.              *)
THEOREM EntriesRecognised == Spec => []TypeOK
<1>1. IInv => TypeOK
  <2> SUFFICES ASSUME IInv PROVE TypeOK OBVIOUS
  <2>1. disk.index \subseteq Apps /\ disk.policy \subseteq Pairs /\ Cardinality(disk.index) <= MaxLinks
    BY DEF IInv, DiskOK, Disks
  <2>2. ASSUME NEW a \in Apps
        PROVE  /\ Valid(disk.slots[a])
               /\ \A rec \in Records(disk.slots[a]) :
                    rec \in Record /\ AppOf[rec.c] = a /\ OfferKeyRetainedIn(rec.prof)
    <3>1. Records(disk.slots[a]) \subseteq Record BY RecordsTyped DEF RecordsIn
    <3> QED BY <3>1 DEF IInv, DiskOK, Owned
  <2>3. worker.cur \in Record \cup {None} /\ worker.live \in BOOLEAN
    BY DEF IInv, LocalsOK, WorkerOK
  <2> QED BY <2>1, <2>2, <2>3 DEF IInv, LocalsOK, TypeOK
<1> QED BY <1>1, StoreInvariant, PTL

(* No record is out of reach, of a listing or of the destruction of its root: *)
(* write_slots, persist_pending and purge_all_links order their writes, and    *)
(* every later write is a compare-and-swap.                                    *)
THEOREM NothingStrandedAlways == Spec => []NothingStranded
<1>1. IInv => NothingStranded
  BY DEF IInv, DiskOK, Listed, RootOK, NothingStranded, Discoverable, NothingOutlivesRoot
<1> QED BY <1>1, StoreInvariant, PTL

(* What the hub finalised is held, as a payload or an installed link, unless  *)
(* the person unlinked it or destroyed the root: commit_payload precedes the   *)
(* release of the frame, and nothing the hub accepted is removed.              *)
THEOREM FinalizedKeptAlways == Spec => []FinalizedKept
<1>1. IInv => FinalizedKept BY DEF IInv, KeptOK, Kept, KeptIn, KeptStages, FinalizedKept
<1> QED BY <1>1, StoreInvariant, PTL

(* A worker, a recovery or a reload that read a record before its deletion    *)
(* does not write it again.                                                   *)
THEOREM NoResurrectionAlways == Spec => []NoResurrection
<1>1. IInv => NoResurrection BY DEF IInv, FreshOK, NoResurrection
<1> QED BY <1>1, StoreInvariant, PTL

(* Only an unlink that showed an installed link, and the destruction of the   *)
(* root, make it disappear.                                                   *)
LEMMA InstalledStays ==
  ASSUME IInv, Next, NEW a \in Apps, NEW rec \in InstalledIn(disk.slots[a]),
         ~\E new \in InstalledIn(disk'.slots[a]) : new.c = rec.c
  PROVE  forget = "links" \/ (rec \in Records(unlink.snap) /\ ~SelectsPending(unlink.snap))
<1>1. Owned(disk) /\ DiskOK(disk') /\ Owned(disk') BY StoreStep DEF IInv, DiskOK
<1>2. rec \in RecordsIn(disk) /\ Installed(rec) /\ AppOf[rec.c] = a
  BY <1>1 DEF InstalledIn, RecordsIn, Owned
<1>3. Records(disk'.slots[a]) = {x \in RecordsIn(disk') : AppOf[x.c] = a} BY <1>1, EntryIs
<1>4. \A new \in RecordsIn(disk') : Installed(new) => new.c # rec.c BY <1>2, <1>3 DEF InstalledIn
<1>5. ~LinksStay(disk, disk') BY <1>2, <1>4 DEF LinksStay
<1>6. CASE UnlinkWrite
  <2>1. rec \in RecordsIn(disk) \ RecordsIn(disk') BY <1>2, <1>4
  <2> QED BY <1>2, <1>6, <2>1, UnlinkWriteIs
<1> QED BY <1>5, <1>6, StoreStep

THEOREM UnlinksOnlyWhatWasShown == Spec => UnlinksWhatWasShown
<1>1. ASSUME IInv, [Next]_vars
      PROVE  [\A a \in Apps : \A rec \in InstalledIn(disk.slots[a]) :
                (~\E new \in InstalledIn(disk'.slots[a]) : new.c = rec.c) =>
                  \/ forget = "links"
                  \/ rec \in Records(unlink.snap) /\ ~SelectsPending(unlink.snap)]_vars
  BY <1>1, InstalledStays
<1> QED BY <1>1, StoreInvariant, PTL DEF Spec, UnlinksWhatWasShown
=============================================================================
