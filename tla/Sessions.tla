------------------------------ MODULE Sessions ------------------------------
(***************************************************************************)
(* Verified sessions over time: an issuer revokes grants and may retire,   *)
(* its signed history reaches each state resolver separately               *)
(* (selfsame-app-identity-net/src/state.rs), and verifiers decide on what  *)
(* one fetch brought them: the hub through the BEAM binding                *)
(* (selfsame-beam/src/path_b.rs, fed by selfsame-cli/src/path_b_sidecar.rs)*)
(* a browser for a peer (selfsame-web-device), and the wallet reloading a  *)
(* link (src-tauri/src/cbcl_v2_commands.rs).  The hub's table of sessions, *)
(* its nonce ledger and the account host are external.  sess records the   *)
(* last positive verdict of each holder; no actor reads spread.            *)
(***************************************************************************)
EXTENDS Acceptance

CONSTANTS HubSessions, Peers, Links, \* who keeps a verdict; one may be several
          Presented,                \* grants whose devices still present them
          Revocable,                \* bound: the grants that may be revoked
          MaxTime                   \* bound of the clock

Holders == HubSessions \cup Peers \cup Links

ASSUME SessionsAssumption ==
  /\ Profile \in Seq(Resolvers) /\ Profile # <<>> /\ IsInjective(Profile)
  /\ MaxClosureAge \in Nat /\ PropagationSla \in Nat /\ MaxTime \in Nat
  /\ Skew \in Nat /\ Never \in Nat /\ Never > MaxTime
  /\ From \in [Grants -> Nat] /\ Until \in [Grants -> Nat]
  /\ None \notin Grants \cup Nat /\ Presented \subseteq Grants /\ Revocable \subseteq Grants

VARIABLES log,     \* what the issuer has signed, in causal order
          issued,  \* the grants it has signed
          held,    \* held[r]: how much of log resolver r serves
          fetch,   \* the verifier's current or last fetch, or None
          sess,    \* the last positive verdict of each holder, or None
          spread,  \* when every resolver first held a revocation, or the retirement
          now
vars == <<log, issued, held, fetch, sess, spread, now>>

Served(r) == SubSeq(log, 1, held[r])
Position(op) == CHOOSE i \in DOMAIN log : log[i] = op
Revocation(g) == [op |-> "revoke", id |-> g]
Retirement == [op |-> "deactivate"]
Effects == {Revocation(g) : g \in Presented} \cup {Retirement}
SpreadOver(h) == [e \in Effects |->
  IF spread[e] = None /\ e \in Range(log) /\ \A r \in Resolvers : Position(e) <= h[r]
  THEN now ELSE spread[e]]
\* Resolvers come to hold h.
Hold(h) == held' = h /\ spread' = SpreadOver(h) /\ UNCHANGED <<log, issued, fetch, sess, now>>

Init == /\ log = IssuerPublicationPlan
        /\ issued = {}
        /\ held = [r \in Resolvers |-> 0]
        /\ fetch = None
        /\ sess = [s \in Holders |-> None]
        /\ spread = [e \in Effects |-> None]
        /\ now = 0

-----------------------------------------------------------------------------
(* The issuer and its resolvers *)

\* publish_issuer_identity at one resolver: genesis, then the later deltas in
\* order until one is not acknowledged.
Publish(r, n) == held[r] < n /\ Hold([held EXCEPT ![r] = n])

\* The rest of the ceremony: the reports are in, one closure is resolved and the
\* grant is signed.  An identity given up is not offered for another grant.
Issue(g, acked, answers) ==
  /\ ~Does(log, "deactivate")
  /\ \A r \in Resolvers : answers[r] = "closure" => Replays(Served(r))
  /\ GrantConstructible(acked, answers, [r \in Resolvers |-> Served(r)])
  /\ issued' = issued \cup {g}
  /\ UNCHANGED <<log, held, fetch, sess, spread, now>>

RevokeCredential(g) ==
  /\ g \in issued /\ g \notin RevokedIn(log) /\ ~Does(log, "deactivate")
  /\ log' = Append(log, Revocation(g))
  /\ UNCHANGED <<issued, held, fetch, sess, spread, now>>

\* submit_revocation sends to every resolver concurrently; each that receives the
\* delta, in its own time, takes it if it has its parents.  A retry is the same again.
Admits(r, i) == held[r] = i - 1
SubmitRevocation(g, r) == LET i == Position(Revocation(g)) IN
                          Admits(r, i) /\ Hold([held EXCEPT ![r] = i])

Retire ==
  /\ ~Does(log, "deactivate")
  /\ MayDeactivateOutgoing({GrantStatus(g, log, now) : g \in issued})
  /\ log' = Append(log, Retirement)
  /\ UNCHANGED <<issued, held, fetch, sess, spread, now>>
SubmitRetirement(r) == /\ Does(log, "deactivate") /\ held[r] = Len(log) - 1
                       /\ Hold([held EXCEPT ![r] = Len(log)])

-----------------------------------------------------------------------------
(* One fetch: resolve_path_b_quorum asks the resolvers in profile order, and *)
(* its stamp is taken before the first answer.                               *)

Unstamped(f) == [f EXCEPT !.at = Never]
Stamped(f) == f
Fetch == /\ fetch' = [at |-> now, next |-> 1, seen |-> {}, jrd |-> FALSE]
         /\ UNCHANGED <<log, issued, held, sess, spread, now>>
\* fetch_closure from the next resolver, or its refusal or silence.
Answer(usable) ==
  /\ fetch # None /\ fetch.next <= Len(Profile)
  /\ LET r == Profile[fetch.next] IN
       /\ usable => Replays(Served(r))
       /\ fetch' = Stamped([fetch EXCEPT !.next = @ + 1,
                     !.seen = IF usable THEN @ \cup {Observation(r, Served(r), 0)} ELSE @])
  /\ UNCHANGED <<log, issued, held, sess, spread, now>>
\* The account host serves the reciprocal binding: read before the closures by
\* a reload, after them by the sidecar, and absent as well as present.
ReadDirectory ==
  /\ fetch # None /\ fetch' = [fetch EXCEPT !.jrd = TRUE]
  /\ UNCHANGED <<log, issued, held, sess, spread, now>>

\* nif_closures: every closure of a fetch carries the one stamp.
Closures == {[o EXCEPT !.at = fetch.at] : o \in fetch.seen}
Fetched == fetch # None /\ fetch.next > Len(Profile)
Usable == Fetched /\ Agree(Closures)
Issuer == IssuerStateOf(Agreed(Closures), now)

-----------------------------------------------------------------------------
(* Verdicts *)

Rule(s, g, by, at) == /\ sess' = [sess EXCEPT ![s] = [grant |-> g, by |-> by, at |-> at]]
                      /\ UNCHANGED <<log, issued, held, fetch, spread, now>>

\* verify_path_b_sealed: a proof over a challenge for (t, h) arrives in session s.
Establish(s, g, t, h) ==
  /\ g \in issued /\ Usable
  /\ VerifySessionEstablishment(g, Issuer, fetch.jrd, [session |-> t, grant |-> h], s, now)
  /\ Rule(s, g, "proof", now)

\* verify_path_b_standing on the sealed grant of a session.
Standing(s) ==
  /\ sess[s] # None /\ sess[s].by \in {"proof", "rehydrate", "standing"}
  /\ Usable /\ VerifyStanding(sess[s].grant, Issuer, now)
  /\ Rule(s, sess[s].grant, "standing", now)

\* rehydrate_path_b after a restart, from a grant the hub retained.
Rehydrate(s, g) == /\ g \in issued /\ sess[s] = None /\ Usable
                   /\ RehydrateVerifiedGrant(g, Issuer, fetch.jrd, now, Skew)
                   /\ Rule(s, g, "rehydrate", now)

\* verified_path_b_revocations: the hub drops sessions whose grant is listed; a
\* restart drops them all.
Dropped(S) == /\ sess' = [s \in Holders |-> IF s \in S THEN None ELSE sess[s]]
              /\ UNCHANGED <<log, issued, held, fetch, spread, now>>
Sweep == /\ Fetched /\ RevocationsUsable(Closures)
         /\ Dropped({s \in HubSessions : /\ sess[s] # None
                                         /\ sess[s].grant \in UnionRevocations(Closures)})
Restart == Dropped(HubSessions)

\* verify_path_b_peer_json: a browser takes closures of no later than its now.
VerifyPeer(s, g) == /\ g \in issued /\ Usable /\ fetch.at <= now
                    /\ VerifyPathBPeer(g, Issuer, fetch.jrd, now)
                    /\ Rule(s, g, "peer", now)

\* verify_credential_v2_inactive_staging over the closure the payload carries,
\* whatever its age: it is stamped now, and the grant stays inactive.
Stage(s, g, n) ==
  /\ g \in issued /\ VerifyStagingOver(g, Profile[1], SubSeq(log, 1, n), now)
  /\ Rule(s, g, "staged", now)

\* verify_inactive_grant_pure: the hub's own check, over a fetch.
StageAtHub(s, g) == /\ g \in issued /\ Usable /\ VerifyInactiveStaging(g, Issuer, now)
                    /\ Rule(s, g, "staged", now)

\* The wallet reloads an installed link; its now is the fetch's stamp.
Reload(s, g) ==
  /\ g \in issued /\ Fetched /\ ReloadOutcome(g, Closures, fetch.jrd, fetch.at) = "usable"
  /\ Rule(s, g, "reload", fetch.at)

Tick == now < MaxTime /\ now' = now + 1 /\ UNCHANGED <<log, issued, held, fetch, sess, spread>>

-----------------------------------------------------------------------------
Issuing == \/ \E r \in Resolvers, n \in DOMAIN IssuerPublicationPlan : Publish(r, n)
           \/ \E g \in Grants \ issued :
                \E acked \in SUBSET {r \in Resolvers : MayAcknowledge(held[r])} :
                  \E answers \in [Resolvers -> Answers] : Issue(g, acked, answers)
           \/ \E g \in Revocable : RevokeCredential(g)
           \/ \E g \in RevokedIn(log), r \in Resolvers : SubmitRevocation(g, r)
           \/ Retire \/ \E r \in Resolvers : SubmitRetirement(r)
Fetching == Fetch \/ ReadDirectory \/ \E usable \in BOOLEAN : Answer(usable)
Verifying == \/ \E s, t \in HubSessions, g, h \in Presented : Establish(s, g, t, h)
             \/ \E s \in HubSessions : Standing(s) \/ \E g \in Presented : Rehydrate(s, g) \/ StageAtHub(s, g)
             \/ Sweep \/ Restart
             \/ \E s \in Peers, g \in Presented : VerifyPeer(s, g) \/ \E n \in 1..Len(log) : Stage(s, g, n)
             \/ \E s \in Links, g \in Presented : Reload(s, g)
Next == Issuing \/ Fetching \/ Verifying \/ Tick
Spec == Init /\ [][Next]_vars

-----------------------------------------------------------------------------
Times == 0..MaxTime
TypeOK ==
  /\ Range(log) \subseteq Ops /\ issued \subseteq Grants
  /\ held \in [Resolvers -> 0..Len(log)]
  /\ fetch # None => /\ fetch.at \in Times /\ fetch.next \in 1..(Len(Profile) + 1)
                     /\ fetch.jrd \in BOOLEAN
  /\ \A s \in Holders : sess[s] # None => sess[s].grant \in Grants /\ sess[s].at \in Times
  /\ spread \in [Effects -> Times \cup {None}]
  /\ now \in Times

\* Once every resolver holds a revocation, no verdict rests on older state than the
\* profile allows: the establishment bound for a session, a rehydration or a peer,
\* maxClosureAge for a standing check, nothing for a reload (check_status,
\* issuer_state_of, and the stamp taken before the fetch in path_b_sidecar.rs).
Lag(by) == CASE by = "reload" -> 0
             [] by = "standing" -> MaxClosureAge
             [] OTHER -> SessionEstablishmentBound
Active(s) == sess[s] # None /\ sess[s].by # "staged"
VerdictBounded == \A s \in Holders : Active(s) =>
  LET e == spread[Revocation(sess[s].grant)] IN e # None => sess[s].at <= e + Lag(sess[s].by)

\* A verdict that is cached is not used past its grant, nor longer after the
\* revocation than maxClosureAge and propagationSla together: standing_cache_expiry.
CacheBounded == \A s \in Holders : Active(s) =>
  LET until == StandingCacheExpiry(sess[s].grant, sess[s].at)
      e == spread[Revocation(sess[s].grant)]
  IN until # None => /\ until <= Until[sess[s].grant]
                     /\ e # None => until <= e + MaxClosureAge + PropagationSla

\* Revocation reaches every verdict and every cached one in bounded time.
RevocationBounded == VerdictBounded /\ CacheBounded

\* A standing check does not look for deactivation; a retired identity's grants
\* die all the same, unless they had expired: may_deactivate_outgoing waits for them.
RetiredDies == \A s \in Holders : Active(s) /\ spread[Retirement] # None =>
  \/ sess[s].at <= spread[Retirement] + Lag(sess[s].by)
  \/ Until[sess[s].grant] <= spread[Retirement]
=============================================================================
