--------------------------- MODULE SessionsProofs ---------------------------
(***************************************************************************)
(* TLAPS proofs about Sessions, for any resolvers, grants, holders and     *)
(* bounds of the profile: a revocation that has reached every resolver     *)
(* ends every verdict in bounded time, and so does a retirement.           *)
(***************************************************************************)
EXTENDS Sessions, SequenceTheorems, FiniteSetTheorems, TLAPS

-----------------------------------------------------------------------------
(* The inductive invariant *)

\* Every resolver holds operation e.
HeldByAll(e) == \E i \in DOMAIN log : log[i] = e /\ \A r \in Resolvers : i <= held[r]
\* When e was spread, if it was by then.
SpreadBy(e, t) == spread[e] # None /\ spread[e] <= t

StateOK ==
  /\ log \in Seq(Ops) /\ Len(log) >= 2
  /\ issued \subseteq Grants
  /\ held \in [Resolvers -> 0..Len(log)]
  /\ spread \in [Effects -> (0..now) \cup {None}]
  /\ now \in Times

SessOK ==
  /\ DOMAIN sess = Holders
  /\ \A s \in Holders : sess[s] # None =>
       sess[s].grant \in Presented \cap issued /\ sess[s].at \in 0..now

\* What was spread before a fetch began is in every observation of that fetch.
SeesSpread(f) == \A g \in Presented :
  spread[Revocation(g)] # None /\ spread[Revocation(g)] < f.at =>
    \A o \in f.seen : g \in o.revoked
FetchOK(f) ==
  /\ DOMAIN f = {"at", "next", "seen", "jrd"}
  /\ f.at \in 0..now /\ f.next \in 1..(Len(Profile) + 1) /\ f.jrd \in BOOLEAN
  /\ \A o \in f.seen : DOMAIN o = {"resolver", "deactivated", "alias", "revoked", "at"}
  /\ SeesSpread(f)

SpreadOK == \A e \in Effects : spread[e] # None => HeldByAll(e)

\* Nothing follows a retirement, which waits for every grant.
RetirementOK ==
  /\ \A i \in DOMAIN log : log[i] = Retirement => i = Len(log)
  /\ Does(log, "deactivate") => \A g \in issued : g \in RevokedIn(log) \/ Until[g] <= now
  /\ spread[Retirement] # None => \A g \in issued \cap Presented :
       SpreadBy(Revocation(g), spread[Retirement]) \/ Until[g] <= spread[Retirement]

IInv == /\ StateOK /\ SessOK /\ SpreadOK /\ RetirementOK /\ VerdictBounded
        /\ fetch # None => FetchOK(fetch)

-----------------------------------------------------------------------------
(* Histories *)

(* Operations are told apart by their names. *)
LEMMA EffectsAre ==
  /\ Retirement \in Effects /\ Retirement \in Ops
  /\ \A g \in Presented : Revocation(g) \in Effects
  /\ \A g \in Grants : Revocation(g) \in Ops /\ Revocation(g) # Retirement
<1>1. Retirement \in Ops BY DEF Retirement, Ops
<1>2. \A g \in Grants : Revocation(g) \in Ops BY DEF Revocation, Ops
<1>3. \A g \in Grants : Revocation(g).op # Retirement.op BY DEF Revocation, Retirement
<1> QED BY <1>1, <1>2, <1>3 DEF Effects

(* The positions of a history. *)
LEMMA LogIs ==
  ASSUME NEW h \in Seq(Ops)
  PROVE  /\ Len(h) \in Nat /\ DOMAIN h = 1..Len(h)
         /\ \A i \in DOMAIN h : h[i] \in Ops
         /\ Range(h) = {h[i] : i \in DOMAIN h}
         /\ \A op : Does(h, op) <=> \E i \in DOMAIN h : h[i] = [op |-> op]
         /\ RevokedIn(h) = {g \in Grants : \E i \in DOMAIN h : h[i] = Revocation(g)}
<1>1. Len(h) \in Nat /\ DOMAIN h = 1..Len(h) BY LenProperties
<1>2. \A i \in DOMAIN h : h[i] \in Ops BY <1>1, LenProperties
<1>3. Range(h) = {h[i] : i \in DOMAIN h} BY DEF Range
<1>4. \A op : Does(h, op) <=> \E i \in DOMAIN h : h[i] = [op |-> op] BY <1>1 DEF Does, Contains
<1>5. RevokedIn(h) = {g \in Grants : \E i \in DOMAIN h : h[i] = Revocation(g)}
  BY <1>1 DEF RevokedIn, Contains, Revocation
<1> QED BY <1>1, <1>2, <1>3, <1>4, <1>5

(* What a resolver serves is the beginning of the history. *)
LEMMA ServedIs ==
  ASSUME NEW h \in Seq(Ops), NEW n \in 0..Len(h)
  PROVE  /\ SubSeq(h, 1, n) \in Seq(Ops)
         /\ \A g \in Grants, i \in 1..n : h[i] = Revocation(g) => g \in RevokedIn(SubSeq(h, 1, n))
<1> DEFINE t == SubSeq(h, 1, n)
<1>1. Len(h) \in Nat /\ 1 \in Int /\ n \in Int BY LogIs
<1>2. \A i \in 1..n : h[i] \in Ops BY <1>1, LogIs
<1>3. /\ t \in Seq(Ops) /\ Len(t) = IF 1 <= n THEN n - 1 + 1 ELSE 0
      /\ \A i \in 1..(n - 1 + 1) : t[i] = h[1 + i - 1]
  BY <1>1, <1>2, SubSeqProperties
<1>4. \A i \in 1..n : i \in 1..Len(t) /\ t[i] = h[i] BY <1>1, <1>3
<1> HIDE DEF t
<1>5. \A g \in Grants, i \in 1..n : h[i] = Revocation(g) => g \in RevokedIn(t)
  BY <1>3, <1>4, LogIs
<1> QED BY <1>3, <1>5 DEF t

(* A signed operation is added at the end. *)
LEMMA Signed ==
  ASSUME NEW h \in Seq(Ops), NEW e \in Ops
  PROVE  LET a == Append(h, e) IN
         /\ a \in Seq(Ops) /\ Len(a) = Len(h) + 1
         /\ \A i \in DOMAIN h : i \in DOMAIN a /\ a[i] = h[i]
         /\ \A i \in DOMAIN a : i \in DOMAIN h \/ (i = Len(h) + 1 /\ a[i] = e)
         /\ RevokedIn(h) \subseteq RevokedIn(a)
<1> DEFINE a == Append(h, e)
<1>1. /\ a \in Seq(Ops) /\ Len(a) = Len(h) + 1
      /\ \A i \in 1..Len(h) : a[i] = h[i]
      /\ a[Len(h) + 1] = e
  BY AppendProperties
<1> HIDE DEF a
<1>2. Len(h) \in Nat /\ DOMAIN h = 1..Len(h) /\ DOMAIN a = 1..(Len(h) + 1) BY <1>1, LogIs
<1>3. \A i \in DOMAIN h : i \in DOMAIN a /\ a[i] = h[i] BY <1>1, <1>2
<1>4. RevokedIn(h) \subseteq RevokedIn(a) BY <1>1, <1>3, LogIs
<1>5. \A i \in DOMAIN a : i \in DOMAIN h \/ (i = Len(h) + 1 /\ a[i] = e) BY <1>1, <1>2
<1> QED BY <1>1, <1>3, <1>4, <1>5 DEF a

(* The bounds of the profile. *)
LEMMA LagIs ==
  /\ SessionEstablishmentBound \in Nat /\ SessionEstablishmentBound <= MaxClosureAge
  /\ \A by : Lag(by) \in Nat /\ Lag(by) <= MaxClosureAge
<1>1. /\ SessionEstablishmentBound \in Nat /\ SessionEstablishmentBound <= MaxClosureAge
      /\ MaxClosureAge \in Nat
  BY SessionsAssumption DEF SessionEstablishmentBound, Earliest
<1> QED BY <1>1 DEF Lag

-----------------------------------------------------------------------------
(* The issuer and its resolvers *)

(* A resolver that comes to hold more may complete the spread of an operation:
   now, and no verdict or fetch is later than now. *)
LEMMA HoldKeeps ==
  ASSUME IInv, NEW h \in [Resolvers -> 0..Len(log)], \A r \in Resolvers : held[r] <= h[r], Hold(h)
  PROVE  IInv'
<1>1. held' = h /\ spread' = SpreadOver(h) /\ UNCHANGED <<log, issued, fetch, sess, now>> BY DEF Hold
<1>2. now \in Nat /\ None \notin Nat /\ Len(log) \in Nat /\ DOMAIN log = 1..Len(log)
  BY SessionsAssumption, LogIs DEF IInv, StateOK, Times
<1>3. \A e \in Effects :
        \/ spread'[e] = spread[e]
        \/ /\ spread[e] = None /\ spread'[e] = now /\ e \in Range(log)
           /\ \A r \in Resolvers : Position(e) <= h[r]
  BY <1>1 DEF SpreadOver
<1>4. \A e \in Effects : spread[e] \in (0..now) \cup {None} BY DEF IInv, StateOK
<1>5. StateOK'
  <2>1. spread' \in [Effects -> (0..now) \cup {None}]
    <3>1. spread' = [e \in Effects |-> spread'[e]] BY <1>1 DEF SpreadOver
    <3>2. \A e \in Effects : spread'[e] \in (0..now) \cup {None} BY <1>2, <1>3, <1>4
    <3> QED BY <3>1, <3>2
  <2> QED BY <1>1, <2>1 DEF IInv, StateOK
<1>6. \A e : e \in Range(log) => Position(e) \in DOMAIN log /\ log[Position(e)] = e
  BY LogIs DEF IInv, StateOK, Position
<1>7. SpreadOK'
  <2> SUFFICES ASSUME NEW e \in Effects, spread'[e] # None PROVE HeldByAll(e)' BY DEF SpreadOK
  <2>1. CASE spread'[e] = spread[e]
    <3>1. PICK i \in DOMAIN log : log[i] = e /\ \A r \in Resolvers : i <= held[r]
      BY <2>1 DEF IInv, SpreadOK, HeldByAll
    <3>2. \A r \in Resolvers : i <= h[r] BY <1>2, <3>1 DEF IInv, StateOK
    <3> QED BY <1>1, <3>1, <3>2 DEF HeldByAll
  <2>2. CASE e \in Range(log) /\ \A r \in Resolvers : Position(e) <= h[r]
    BY <1>1, <1>6, <2>2 DEF HeldByAll
  <2> QED BY <1>3, <2>1, <2>2
<1>8. RetirementOK'
  <2>1. ASSUME spread'[Retirement] # None, NEW g \in issued \cap Presented
        PROVE  SpreadBy(Revocation(g), spread[Retirement])' \/ Until[g] <= spread'[Retirement]
    <3>1. Revocation(g) \in Effects /\ Retirement \in Effects /\ g \in Grants
      BY EffectsAre DEF IInv, StateOK
    <3>2. CASE spread'[Retirement] = spread[Retirement]
      BY <1>2, <1>3, <1>4, <2>1, <3>1, <3>2 DEF IInv, RetirementOK, SpreadBy
    <3>3. CASE /\ spread'[Retirement] = now /\ Retirement \in Range(log)
               /\ \A r \in Resolvers : Position(Retirement) <= h[r]
      <4>1. Position(Retirement) = Len(log) /\ Does(log, "deactivate")
        BY <1>6, <3>3, LogIs DEF IInv, StateOK, RetirementOK, Retirement
      <4>2. g \in RevokedIn(log) \/ Until[g] <= now BY <4>1 DEF IInv, RetirementOK
      <4>3. ASSUME g \in RevokedIn(log) PROVE SpreadBy(Revocation(g), spread[Retirement])'
        <5>1. Revocation(g) \in Range(log) BY <4>3, LogIs DEF IInv, StateOK
        <5>2. \A r \in Resolvers : Position(Revocation(g)) <= h[r]
          BY <1>2, <1>6, <3>3, <4>1, <5>1
        <5>3. spread'[Revocation(g)] = IF spread[Revocation(g)] = None THEN now
                                       ELSE spread[Revocation(g)]
          BY <1>1, <3>1, <5>1, <5>2 DEF SpreadOver
        <5> QED BY <1>2, <1>4, <3>1, <3>3, <5>3 DEF SpreadBy
      <4> QED BY <3>3, <4>2, <4>3
    <3> QED BY <1>3, <3>1, <3>2, <3>3
  <2> QED BY <1>1, <2>1 DEF IInv, RetirementOK
<1>9. VerdictBounded'
  <2> SUFFICES ASSUME NEW s \in Holders, Active(s), spread'[Revocation(sess[s].grant)] # None
               PROVE  sess[s].at <= spread'[Revocation(sess[s].grant)] + Lag(sess[s].by)
    BY <1>1 DEF VerdictBounded, Active, Lag
  <2> DEFINE e == Revocation(sess[s].grant)
  <2>1. e \in Effects /\ sess[s].at \in 0..now
    BY EffectsAre DEF Active, IInv, SessOK
  <2>2. Lag(sess[s].by) \in Nat BY LagIs
  <2>3. CASE spread'[e] = spread[e] BY <2>3 DEF IInv, VerdictBounded
  <2>4. CASE spread'[e] = now BY <1>2, <2>1, <2>2, <2>4
  <2> QED BY <1>3, <2>1, <2>3, <2>4
<1>10. fetch # None => FetchOK(fetch)'
  <2> SUFFICES ASSUME fetch # None, NEW g \in Presented, spread'[Revocation(g)] # None,
                      spread'[Revocation(g)] < fetch.at, NEW o \in fetch.seen
               PROVE  g \in o.revoked
    BY <1>1 DEF IInv, FetchOK, SeesSpread
  <2>1. Revocation(g) \in Effects /\ fetch.at \in 0..now BY EffectsAre DEF IInv, FetchOK
  <2>2. spread'[Revocation(g)] = spread[Revocation(g)] BY <1>2, <1>3, <2>1
  <2> QED BY <2>2 DEF IInv, FetchOK, SeesSpread
<1> QED BY <1>1, <1>5, <1>7, <1>8, <1>9, <1>10 DEF IInv, SessOK

(* The issuer signs an operation; a retirement only when no grant is left. *)
LEMMA SignedKeeps ==
  ASSUME IInv, NEW e \in Ops, ~Does(log, "deactivate"), log' = Append(log, e),
         e = Retirement => \A g \in issued : g \in RevokedIn(log) \/ Until[g] <= now,
         UNCHANGED <<issued, held, fetch, sess, spread, now>>
  PROVE  IInv'
<1>1. /\ log' \in Seq(Ops) /\ Len(log') = Len(log) + 1 /\ Len(log) \in Nat
      /\ \A i \in DOMAIN log : i \in DOMAIN log' /\ log'[i] = log[i]
      /\ \A i \in DOMAIN log' : i \in DOMAIN log \/ (i = Len(log) + 1 /\ log'[i] = e)
      /\ RevokedIn(log) \subseteq RevokedIn(log')
  BY Signed, LogIs DEF IInv, StateOK
<1>2. StateOK' BY <1>1 DEF IInv, StateOK
<1>3. SpreadOK' BY <1>1 DEF IInv, SpreadOK, HeldByAll
<1>4. \A i \in DOMAIN log : log[i] # Retirement BY LogIs DEF IInv, StateOK, Retirement
<1>5. \A i \in DOMAIN log' : log'[i] = Retirement => i = Len(log') /\ e = Retirement
  BY <1>1, <1>4
<1>6. Does(log', "deactivate") => e = Retirement BY <1>1, <1>5, LogIs DEF Retirement
<1>7. RetirementOK' BY <1>1, <1>5, <1>6 DEF IInv, RetirementOK, SpreadBy
<1> QED BY <1>2, <1>3, <1>7
  DEF IInv, SessOK, VerdictBounded, Active, FetchOK, SeesSpread

LEMMA IssuingKeeps ==
  ASSUME IInv, Issuing
  PROVE  IInv'
<1>1. /\ log \in Seq(Ops) /\ Len(log) \in Nat /\ Len(log) >= 2 /\ DOMAIN log = 1..Len(log)
      /\ held \in [Resolvers -> 0..Len(log)] /\ issued \subseteq Grants
  BY LogIs DEF IInv, StateOK
<1>2. ASSUME NEW r \in Resolvers, NEW n \in DOMAIN IssuerPublicationPlan, Publish(r, n)
      PROVE  IInv'
  <2> DEFINE h == [held EXCEPT ![r] = n]
  <2>1. n \in 1..2 BY <1>2 DEF IssuerPublicationPlan
  <2>2. h \in [Resolvers -> 0..Len(log)] /\ \A q \in Resolvers : held[q] <= h[q]
    BY <1>1, <1>2, <2>1 DEF Publish
  <2> QED BY <1>2, <2>2, HoldKeeps DEF Publish
<1>3. ASSUME NEW g \in RevokedIn(log), NEW r \in Resolvers, SubmitRevocation(g, r)
      PROVE  IInv'
  <2> DEFINE i == Position(Revocation(g))
             h == [held EXCEPT ![r] = i]
  <2>1. i \in DOMAIN log BY <1>1, <1>3, LogIs DEF Position
  <2>2. held[r] = i - 1 /\ Hold(h) BY <1>3 DEF SubmitRevocation, Admits
  <2> HIDE DEF i
  <2>3. h \in [Resolvers -> 0..Len(log)] /\ \A q \in Resolvers : held[q] <= h[q]
    BY <1>1, <2>1, <2>2
  <2> QED BY <2>2, <2>3, HoldKeeps
<1>4. ASSUME NEW r \in Resolvers, SubmitRetirement(r)
      PROVE  IInv'
  <2> DEFINE h == [held EXCEPT ![r] = Len(log)]
  <2>1. h \in [Resolvers -> 0..Len(log)] /\ \A q \in Resolvers : held[q] <= h[q]
    BY <1>1, <1>4 DEF SubmitRetirement
  <2> QED BY <1>4, <2>1, HoldKeeps DEF SubmitRetirement
<1>5. ASSUME NEW g \in Revocable, RevokeCredential(g)
      PROVE  IInv'
  <2>1. Revocation(g) \in Ops /\ Revocation(g) # Retirement
    BY SessionsAssumption, EffectsAre
  <2> QED BY <1>5, <2>1, SignedKeeps DEF RevokeCredential
<1>6. CASE Retire
  <2>1. \A g \in issued : g \in RevokedIn(log) \/ Until[g] <= now
    <3> SUFFICES ASSUME NEW g \in issued PROVE g \in RevokedIn(log) \/ Until[g] <= now OBVIOUS
    <3>1. GrantStatus(g, log, now).revoked \/ GrantStatus(g, log, now).expired
      BY <1>6 DEF Retire, MayDeactivateOutgoing
    <3>2. Until[g] \in Nat /\ now \in Nat
      BY <1>1, SessionsAssumption DEF IInv, StateOK, Times
    <3> QED BY <3>1, <3>2 DEF GrantStatus
  <2>2. Retirement \in Ops BY EffectsAre
  <2> QED BY <1>6, <2>1, <2>2, SignedKeeps DEF Retire
<1>7. ASSUME NEW g \in Grants \ issued, NEW acked, NEW answers, Issue(g, acked, answers)
      PROVE  IInv'
  <2>1. /\ ~Does(log, "deactivate") /\ issued' = issued \cup {g}
        /\ UNCHANGED <<log, held, fetch, sess, spread, now>>
    BY <1>7 DEF Issue
  <2>2. spread[Retirement] = None
    BY <1>1, <2>1, EffectsAre, LogIs DEF IInv, SpreadOK, HeldByAll, Retirement
  <2>3. StateOK' /\ SessOK' BY <2>1 DEF IInv, StateOK, SessOK
  <2>4. RetirementOK' BY <2>1, <2>2 DEF IInv, RetirementOK
  <2> QED BY <2>1, <2>3, <2>4
    DEF IInv, VerdictBounded, Active, FetchOK, SeesSpread, SpreadOK, HeldByAll
<1> QED BY <1>2, <1>3, <1>4, <1>5, <1>6, <1>7 DEF Issuing

LEMMA TickKeeps ==
  ASSUME IInv, Tick
  PROVE  IInv'
<1>1. /\ now' = now + 1 /\ now' \in Times /\ now \in Nat
      /\ UNCHANGED <<log, issued, held, fetch, sess, spread>>
  BY SessionsAssumption DEF Tick, IInv, StateOK, Times
<1>2. 0..now \subseteq 0..now' BY <1>1
<1>3. StateOK' /\ SessOK' BY <1>1, <1>2 DEF IInv, StateOK, SessOK
<1>4. RetirementOK'
  <2>1. \A g \in issued : Until[g] \in Nat BY SessionsAssumption DEF IInv, StateOK
  <2> QED BY <1>1, <2>1 DEF IInv, RetirementOK, SpreadBy
<1> QED BY <1>1, <1>2, <1>3, <1>4
  DEF IInv, VerdictBounded, Active, FetchOK, SeesSpread, SpreadOK, HeldByAll

-----------------------------------------------------------------------------
(* One fetch *)

LEMMA FetchingKeeps ==
  ASSUME IInv, Fetching
  PROVE  IInv'
<1>1. UNCHANGED <<log, issued, held, sess, spread, now>>
  BY DEF Fetching, Fetch, ReadDirectory, Answer
<1>2. SUFFICES FetchOK(fetch')
  BY <1>1 DEF IInv, StateOK, SessOK, SpreadOK, HeldByAll, RetirementOK, SpreadBy,
              VerdictBounded, Active, FetchOK, SeesSpread
<1>3. now \in Nat /\ Len(Profile) \in Nat /\ DOMAIN Profile = 1..Len(Profile)
  BY SessionsAssumption, LenProperties DEF IInv, StateOK, Times
<1>4. CASE Fetch
  <2>1. fetch' = [at |-> now, next |-> 1, seen |-> {}, jrd |-> FALSE] BY <1>4 DEF Fetch
  <2> QED BY <1>3, <2>1 DEF FetchOK, SeesSpread
<1>5. CASE ReadDirectory
  <2>1. FetchOK(fetch) /\ fetch' = [fetch EXCEPT !.jrd = TRUE] BY <1>5 DEF ReadDirectory, IInv
  <2> QED BY <2>1 DEF FetchOK, SeesSpread
<1>6. ASSUME NEW usable \in BOOLEAN, Answer(usable)
      PROVE  FetchOK(fetch')
  <2> DEFINE r == Profile[fetch.next]
             o == Observation(r, Served(r), 0)
             seen == IF usable THEN fetch.seen \cup {o} ELSE fetch.seen
  <2>1. /\ FetchOK(fetch) /\ fetch.next <= Len(Profile)
        /\ fetch' = [fetch EXCEPT !.next = @ + 1, !.seen = seen]
    BY <1>6 DEF Answer, Stamped, IInv
  <2>2. r \in Resolvers BY <1>3, <2>1 DEF FetchOK, Resolvers, Range
  <2>3. ASSUME NEW g \in Presented, spread[Revocation(g)] # None
        PROVE  g \in o.revoked
    <3>1. g \in Grants /\ Revocation(g) \in Effects BY SessionsAssumption, EffectsAre
    <3>2. PICK i \in DOMAIN log : log[i] = Revocation(g) /\ i <= held[r]
      BY <2>2, <2>3, <3>1 DEF IInv, SpreadOK, HeldByAll
    <3>3. log \in Seq(Ops) /\ held[r] \in 0..Len(log) /\ i \in 1..held[r]
      BY <2>2, <3>2, LogIs DEF IInv, StateOK
    <3> QED BY <3>1, <3>2, <3>3, ServedIs DEF Observation, Served
  <2>4. DOMAIN o = {"resolver", "deactivated", "alias", "revoked", "at"} BY DEF Observation
  <2> HIDE DEF o
  <2>5. /\ \A p \in seen : DOMAIN p = {"resolver", "deactivated", "alias", "revoked", "at"}
        /\ \A g \in Presented : spread[Revocation(g)] # None /\ spread[Revocation(g)] < fetch.at =>
             \A p \in seen : g \in p.revoked
    BY <2>1, <2>3, <2>4 DEF FetchOK, SeesSpread
  <2> HIDE DEF seen
  <2>6. /\ DOMAIN fetch' = {"at", "next", "seen", "jrd"} /\ fetch'.at = fetch.at
        /\ fetch'.next = fetch.next + 1 /\ fetch'.seen = seen /\ fetch'.jrd = fetch.jrd
    BY <2>1 DEF FetchOK
  <2> QED BY <1>3, <2>1, <2>5, <2>6 DEF FetchOK, SeesSpread
<1> QED BY <1>4, <1>5, <1>6 DEF Fetching

-----------------------------------------------------------------------------
(* Verdicts *)

(* Enough observations are at least one, and all carry the stamp of the fetch. *)
LEMMA ClosuresAre ==
  ASSUME IInv, fetch # None, Quorum(Closures)
  PROVE  /\ fetch.seen # {} /\ fetch.at \in 0..now /\ now \in Nat
         /\ \A o \in fetch.seen : o.revoked \subseteq UnionRevocations(Closures)
         /\ Agreed(Closures).oldest = fetch.at
<1>1. FetchOK(fetch) /\ now \in Nat BY DEF IInv, StateOK, Times
<1>2. Closures # {}
  BY FS_EmptySet DEF Quorum, MinimumResolverQuorum
<1>3. fetch.seen # {} BY <1>2 DEF Closures
<1>4. \A o \in fetch.seen : [o EXCEPT !.at = fetch.at].at = fetch.at
                         /\ [o EXCEPT !.at = fetch.at].revoked = o.revoked
  BY <1>1 DEF FetchOK
<1>5. {c.at : c \in Closures} = {fetch.at} BY <1>3, <1>4 DEF Closures
<1>6. Min({fetch.at}) = fetch.at BY <1>1 DEF Min, FetchOK
<1>7. Agreed(Closures).oldest = fetch.at BY <1>5, <1>6 DEF Agreed
<1>8. \A o \in fetch.seen : o.revoked \subseteq UnionRevocations(Closures)
  BY <1>4 DEF UnionRevocations, Closures
<1> QED BY <1>1, <1>3, <1>7, <1>8 DEF FetchOK

(* A grant that does not show as revoked was not, when the fetch began. *)
LEMMA Unrevoked ==
  ASSUME IInv, fetch # None, Quorum(Closures), NEW g \in Presented,
         g \notin UnionRevocations(Closures), spread[Revocation(g)] # None
  PROVE  fetch.at <= spread[Revocation(g)]
<1>1. /\ fetch.seen # {} /\ fetch.at \in 0..now /\ now \in Nat
      /\ \A o \in fetch.seen : g \notin o.revoked
  BY ClosuresAre
<1>2. ~(spread[Revocation(g)] < fetch.at) BY <1>1 DEF IInv, FetchOK, SeesSpread
<1>3. spread[Revocation(g)] \in 0..now BY EffectsAre DEF IInv, StateOK
<1> QED BY <1>1, <1>2, <1>3

(* Step 11 with its bound on the age: a verdict is no later than the bound after
   a revocation was spread. *)
LEMMA StatusSees ==
  ASSUME IInv, Usable, NEW g \in Presented, NEW bound \in Nat, Status(g, Issuer, bound),
         spread[Revocation(g)] # None
  PROVE  now <= spread[Revocation(g)] + bound
<1>1. fetch # None /\ Quorum(Closures) BY DEF Usable, Fetched, Agree
<1>2. fetch.at \in 0..now /\ now \in Nat /\ Agreed(Closures).oldest = fetch.at
  BY <1>1, ClosuresAre
<1>3. Issuer.age = now - fetch.at BY <1>2 DEF Issuer, IssuerStateOf
<1>4. Issuer.revoked = UnionRevocations(Closures) BY DEF Issuer, IssuerStateOf, Agreed
<1>5. fetch.at <= spread[Revocation(g)] BY <1>1, <1>4, Unrevoked DEF Status
<1>6. now - fetch.at <= bound BY <1>3 DEF Status
<1>7. spread[Revocation(g)] \in 0..now BY EffectsAre DEF IInv, StateOK
<1> QED BY <1>2, <1>5, <1>6, <1>7

LEMMA RuleKeeps ==
  ASSUME IInv, NEW s \in Holders, NEW g \in Presented \cap issued, NEW by, NEW at \in 0..now,
         by # "staged" /\ spread[Revocation(g)] # None => at <= spread[Revocation(g)] + Lag(by),
         Rule(s, g, by, at)
  PROVE  IInv'
<1> DEFINE v == [grant |-> g, by |-> by, at |-> at]
<1>1. sess' = [sess EXCEPT ![s] = v] /\ UNCHANGED <<log, issued, held, fetch, spread, now>>
  BY DEF Rule
<1>2. DOMAIN sess' = Holders /\ \A t \in Holders : sess'[t] = IF t = s THEN v ELSE sess[t]
  BY <1>1 DEF IInv, SessOK
<1>3. SessOK' BY <1>1, <1>2 DEF IInv, SessOK
<1>4. VerdictBounded' BY <1>1, <1>2 DEF IInv, VerdictBounded, Active, Lag
<1> QED BY <1>1, <1>3, <1>4
  DEF IInv, StateOK, SpreadOK, HeldByAll, RetirementOK, SpreadBy, FetchOK, SeesSpread

(* A verdict over the state of a fetch, within the establishment bound. *)
LEMMA AcceptKeeps ==
  ASSUME IInv, NEW s \in Holders, NEW g \in Presented \cap issued, Usable,
         NEW skew, AcceptGrant(g, Issuer, now, skew),
         NEW by \in {"proof", "rehydrate", "peer", "staged"}, Rule(s, g, by, now)
  PROVE  IInv'
<1>1. now \in 0..now BY SessionsAssumption DEF IInv, StateOK, Times
<1>2. SessionEstablishmentBound \in Nat /\ Lag(by) = SessionEstablishmentBound
  BY LagIs DEF Lag
<1>3. spread[Revocation(g)] # None => now <= spread[Revocation(g)] + Lag(by)
  BY <1>2, StatusSees DEF AcceptGrant
<1> QED BY <1>1, <1>3, RuleKeeps

LEMMA DroppedKeeps ==
  ASSUME IInv, NEW S, Dropped(S)
  PROVE  IInv'
<1>1. /\ sess' = [s \in Holders |-> IF s \in S THEN None ELSE sess[s]]
      /\ UNCHANGED <<log, issued, held, fetch, spread, now>>
  BY DEF Dropped
<1>2. SessOK' BY <1>1 DEF IInv, SessOK
<1>3. VerdictBounded' BY <1>1 DEF IInv, VerdictBounded, Active, Lag
<1> QED BY <1>1, <1>2, <1>3
  DEF IInv, StateOK, SpreadOK, HeldByAll, RetirementOK, SpreadBy, FetchOK, SeesSpread

LEMMA VerifyingKeeps ==
  ASSUME IInv, Verifying
  PROVE  IInv'
<1>1. HubSessions \subseteq Holders /\ Peers \subseteq Holders /\ Links \subseteq Holders
  BY DEF Holders
<1>2. now \in Nat BY SessionsAssumption DEF IInv, StateOK, Times
<1>3. ASSUME NEW s \in HubSessions, NEW t, NEW g \in Presented, NEW h, Establish(s, g, t, h)
      PROVE  IInv'
  BY <1>1, <1>3, AcceptKeeps DEF Establish, VerifySessionEstablishment
<1>4. ASSUME NEW s \in HubSessions, Standing(s)
      PROVE  IInv'
  <2> DEFINE g == sess[s].grant
  <2>1. /\ g \in Presented \cap issued /\ Usable /\ VerifyStanding(g, Issuer, now)
        /\ Rule(s, g, "standing", now)
    BY <1>1, <1>4 DEF Standing, IInv, SessOK
  <2>2. MaxClosureAge \in Nat /\ Lag("standing") = MaxClosureAge
    BY SessionsAssumption DEF Lag
  <2> HIDE DEF g
  <2>3. spread[Revocation(g)] # None => now <= spread[Revocation(g)] + Lag("standing")
    BY <2>1, <2>2, StatusSees DEF VerifyStanding
  <2> QED BY <1>1, <1>2, <2>1, <2>3, RuleKeeps
<1>5. ASSUME NEW s \in HubSessions, NEW g \in Presented, Rehydrate(s, g) \/ StageAtHub(s, g)
      PROVE  IInv'
  <2>1. CASE Rehydrate(s, g)
    BY <1>1, <2>1, AcceptKeeps DEF Rehydrate, RehydrateVerifiedGrant
  <2>2. CASE StageAtHub(s, g)
    BY <1>1, <2>2, AcceptKeeps DEF StageAtHub, VerifyInactiveStaging
  <2> QED BY <1>5, <2>1, <2>2
<1>6. CASE Sweep \/ Restart BY <1>6, DroppedKeeps DEF Sweep, Restart
<1>7. ASSUME NEW s \in Peers, NEW g \in Presented, VerifyPeer(s, g)
      PROVE  IInv'
  BY <1>1, <1>7, AcceptKeeps DEF VerifyPeer, VerifyPathBPeer, RehydrateVerifiedGrant
<1>8. ASSUME NEW s \in Peers, NEW g \in Presented, NEW n, Stage(s, g, n)
      PROVE  IInv'
  BY <1>1, <1>2, <1>8, RuleKeeps DEF Stage
<1>9. ASSUME NEW s \in Links, NEW g \in Presented, Reload(s, g)
      PROVE  IInv'
  <2>1. /\ g \in Presented \cap issued /\ fetch # None
        /\ ReloadOutcome(g, Closures, fetch.jrd, fetch.at) = "usable"
        /\ Rule(s, g, "reload", fetch.at)
    BY <1>9 DEF Reload, Fetched
  <2>2. Quorum(Closures) /\ g \notin UnionRevocations(Closures)
    BY <2>1 DEF ReloadOutcome, IssuerStateOf, Agreed
  <2>3. fetch.at \in 0..now /\ Lag("reload") = 0 BY <2>1 DEF IInv, FetchOK, Lag
  <2>4. spread[Revocation(g)] # None =>
          fetch.at <= spread[Revocation(g)] /\ spread[Revocation(g)] \in 0..now
    BY <2>1, <2>2, Unrevoked, EffectsAre DEF IInv, StateOK
  <2>5. spread[Revocation(g)] # None => fetch.at <= spread[Revocation(g)] + Lag("reload")
    BY <1>2, <2>3, <2>4
  <2> QED BY <1>1, <2>1, <2>3, <2>5, RuleKeeps
<1> QED BY <1>3, <1>4, <1>5, <1>6, <1>7, <1>8, <1>9 DEF Verifying

-----------------------------------------------------------------------------
(* The theorems *)

LEMMA InitIInv == Init => IInv
<1> SUFFICES ASSUME Init PROVE IInv OBVIOUS
<1>1. log = <<[op |-> "genesis"], [op |-> "alias"]>> BY DEF Init, IssuerPublicationPlan
<1>2. log \in Seq(Ops) /\ Len(log) = 2 /\ DOMAIN log = 1..2 BY <1>1 DEF Ops
<1>3. \A i \in DOMAIN log : log[i] # Retirement
  <2>1. log[1].op # Retirement.op /\ log[2].op # Retirement.op BY <1>1 DEF Retirement
  <2> QED BY <1>2, <2>1
<1>4. ~Does(log, "deactivate") BY <1>2, <1>3, LogIs DEF Retirement
<1>5. StateOK BY <1>2, SessionsAssumption DEF Init, StateOK, Times
<1>6. RetirementOK BY <1>3, <1>4, EffectsAre DEF Init, RetirementOK
<1> QED BY <1>5, <1>6 DEF Init, IInv, SessOK, SpreadOK, VerdictBounded, Active

LEMMA NextIInv == IInv /\ [Next]_vars => IInv'
<1> SUFFICES ASSUME IInv, [Next]_vars PROVE IInv' OBVIOUS
<1>1. CASE UNCHANGED vars
  BY <1>1 DEF vars, IInv, StateOK, SessOK, SpreadOK, HeldByAll, RetirementOK, SpreadBy,
              VerdictBounded, Active, FetchOK, SeesSpread
<1> QED BY <1>1, IssuingKeeps, FetchingKeeps, VerifyingKeeps, TickKeeps DEF Next

LEMMA Inductive == Spec => []IInv
BY InitIInv, NextIInv, PTL DEF Spec

(* Every reachable state of issuer, resolvers, fetch and verdicts is well typed. *)
THEOREM TypeCorrect == Spec => []TypeOK
<1>1. IInv => TypeOK
  <2> SUFFICES ASSUME IInv PROVE TypeOK OBVIOUS
  <2>1. Range(log) \subseteq Ops BY LogIs DEF IInv, StateOK
  <2>2. \A t : t \in 0..now => t \in Times BY SessionsAssumption DEF IInv, StateOK, Times
  <2> QED BY <2>1, <2>2, SessionsAssumption DEF IInv, StateOK, SessOK, FetchOK, TypeOK
<1> QED BY <1>1, Inductive, PTL

(* A revocation that has reached every resolver bounds every verdict, by the rule
   it was given under, and every verdict reused from a cache (accept.rs). *)
THEOREM RevocationReachesAll == Spec => []RevocationBounded
<1>1. IInv => RevocationBounded
  <2> SUFFICES ASSUME IInv PROVE CacheBounded BY DEF IInv, RevocationBounded
  <2> SUFFICES ASSUME NEW s \in Holders, Active(s)
               PROVE  LET g == sess[s].grant
                          until == StandingCacheExpiry(g, sess[s].at)
                          e == spread[Revocation(g)]
                      IN until # None => /\ until <= Until[g]
                                         /\ e # None => until <= e + MaxClosureAge + PropagationSla
    BY DEF CacheBounded
  <2> DEFINE g == sess[s].grant
             e == spread[Revocation(g)]
  <2>1. g \in Presented \cap issued /\ sess[s].at \in 0..now BY DEF Active, IInv, SessOK
  <2>2. Until[g] \in Nat /\ PropagationSla \in Nat /\ MaxClosureAge \in Nat /\ now \in Nat
    BY <2>1, SessionsAssumption DEF IInv, StateOK, Times
  <2>3. e # None => e \in 0..now /\ sess[s].at <= e + Lag(sess[s].by)
    BY <2>1, EffectsAre DEF IInv, StateOK, VerdictBounded
  <2>4. Lag(sess[s].by) \in Nat /\ Lag(sess[s].by) <= MaxClosureAge BY LagIs
  <2> QED BY <2>1, <2>2, <2>3, <2>4 DEF StandingCacheExpiry, Earliest
<1> QED BY <1>1, Inductive, PTL

(* A retired identity: although a standing check does not look for deactivation
   (accept.rs), no verdict for one of its grants that had not expired is later
   than the same bound after its retirement has reached every resolver. *)
THEOREM RetirementReachesAll == Spec => []RetiredDies
<1>1. IInv => RetiredDies
  <2> SUFFICES ASSUME IInv, NEW s \in Holders, Active(s), spread[Retirement] # None
               PROVE  \/ sess[s].at <= spread[Retirement] + Lag(sess[s].by)
                      \/ Until[sess[s].grant] <= spread[Retirement]
    BY DEF RetiredDies
  <2> DEFINE g == sess[s].grant
  <2>1. g \in Presented \cap issued /\ sess[s].at \in 0..now /\ now \in Nat
    BY SessionsAssumption DEF Active, IInv, SessOK, StateOK, Times
  <2>2. CASE Until[g] <= spread[Retirement] BY <2>2
  <2>3. CASE SpreadBy(Revocation(g), spread[Retirement])
    <3>1. sess[s].at <= spread[Revocation(g)] + Lag(sess[s].by)
      BY <2>3 DEF SpreadBy, IInv, VerdictBounded
    <3>2. spread[Revocation(g)] \in 0..now /\ spread[Retirement] \in 0..now
      BY <2>1, <2>3, EffectsAre DEF SpreadBy, IInv, StateOK
    <3>3. Lag(sess[s].by) \in Nat BY LagIs
    <3> QED BY <2>1, <2>3, <3>1, <3>2, <3>3 DEF SpreadBy
  <2> QED BY <2>1, <2>2, <2>3 DEF IInv, RetirementOK
<1> QED BY <1>1, Inductive, PTL
=============================================================================
