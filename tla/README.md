# Selfsame: a TLA+ verification of the wallet and its peers

Selfsame is a root-key custodian. One identity lives on a phone; every other
client is authorised from it and can be revoked from it. This directory holds
TLA+ models of the parts whose correctness depends on the *order* of things:
commands that overlap, a person who answers late or cancels, an application
that is hidden, killed or moved to another phone, a store call that fails half
way, an answer that is lost, a profile that rotates, a revocation that has not
reached every resolver. Each model is translated from the source; TLC checks
it on small instances, and TLAPS proves what matters most for every instance.

Contents: [inventory](#1-inventory), [modules](#2-the-modules),
[runs](#3-what-the-runs-show), [bounds](#4-bounds), [fairness](#5-fairness),
[proofs](#6-proofs), [disagreements](#7-where-code-and-text-disagree),
[observations](#8-observations), [not modelled](#9-what-is-not-modelled),
[plan](#10-plan).

Paths are relative to the repository root; `src-tauri/src/` and `crates/` are
left out where the file name says enough. `PROJECT.json` maps every definition
to the lines it models and lists the hazards with the properties that watch
them.

## 1. Inventory

### 1.1 Wallet (src-tauri, src/)

| component | state it keeps | hard behaviours | what makes it correct | model |
|---|---|---|---|---|
| **Attempt fence** (`session.rs`, `cbcl_v2_single_link.rs`, `cbcl_v2_commands.rs`, `cbcl_v2_clock.rs`, `lib.rs`) | current attempt, weak worker lease, background and root-change flags; per attempt why it ended, its deadline and retained root; four Session slots for its one continuation | commands leave the lock for sockets and prompts and re-check afterwards; a dropped future leaves its blocking closure running; deadline, window and root change meanwhile | one worker; one holder of the continuation; retained root only inside a live, deadlined, watched attempt; signatures only with the root the attempt began under | `Attempts` |
| **Link store** (`cbcl_v2_completion.rs`) | per application one pending and many installed records, an index of applications | a record is read, the network or a person is waited for, and it is written back; a store call fails before or after it took effect; the process stops between two writes | every record can be found; what the hub finalised is kept; what was deleted stays deleted; nothing outlives its root; a refreshed link still pins the offer's key | `LinkStore`, `Reloads` |
| **Exact-pair policy** (`cbcl_v2_policy.rs`, `cbcl_v2_claimant.rs`) | one entry of accepted (application, relay) pairs | load-modify-store without a lock | an update of one pair leaves the others (it does not: 7.5) | `LinkStore` |
| **Grant issuance** (`app_grant.rs`, `replay.rs`) | one pending issuance, one pending enrolment, a durable ledger of consumed request ids, trust entries | several awaits per command; a clock read once and used later; a ledger that is pruned; lost answers | one bundle per offer, to its own slot; trust only after evidence; a prompt is not displaced | `AppGrant`, `Enrolment` |
| **Identity and publication** (`commands.rs`, `session.rs`, `custody.rs`, `net.rs`) | sealed root and backup flag; queue of unacknowledged deltas and closure of acknowledged ones; pending offer | overlapping flushes; crash between two stores; lost answers; a service that loses its memory; a replaced phone | what is served resolves; nothing queued is dropped; acknowledged means stored; everything queued is published in the end | `Publication` |
| **Live transport** (`cbcl_pairing.rs`, `cbcl_transport.rs`) | one pending claimant session | relay delays, repeats, closes; a second start | both sides' accounts agree; no payload without approval | `LivePairing` |
| **Pages** (`src/pairing.js`, `src/app.js`) | stage, epoch, attempt tag; screen, busy cover, fingerprint shown | answers that arrive after the person moved on; native commands that overtake one another | a single-link screen says only what is true of its attempt; a person compared what is released | `PairingScreen`, `LinkScreens` |
| **Secure store** (`store.rs`, `crates/tauri-plugin-selfsame-store`) | platform key-value entries | a call may fail after it took effect | — | environment of `LinkStore` |
| **Application identity, archive recovery** (`app_identity.rs`, `cbcl_context.rs`, `cbcl_registry.rs`, `archive_recovery.rs`) | none | — | computations and one-shot requests | guards only |

### 1.2 Services and peers

| component | state | hard behaviours | what makes it correct | model |
|---|---|---|---|---|
| **Rendezvous and resolver** (`selfsame-rendezvous`) | read-once slots, closures by DID, in memory | lost answers, restart | a slot is written once and read once; a closure always resolves | `Publication` |
| **Device client** (`selfsame-cli`) | one link attempt | the code expires, the bundle is read once | joins only an identity that derives its own DID | `Publication` |
| **did:crdt document** (`selfsame-core/src/{identity,profile,accept}.rs`) | none | — | parents before children, one controller | `Publication` |
| **credential/v2 ceremony** (`selfsame-pairing/src/credential_v2*`, `selfsame-web-device`, `selfsame-beam/src/credential_v2.rs`) | hub rows and fence; browser session and sealed checkpoint; wallet's durable payload | either device stops at any step; objects late, twice or never; the hub's binding, rooms and key change | the hub accepts only what both persons agreed to, decides once, and no device learns another outcome | `Ceremony` over `Exchange`, `Recovery`; `Agreement` |
| **credential/v1 live sessions** (`selfsame-pairing/src/{lib,live}.rs`) | allocator and claimant phase, sequence numbers | frames repeated or spoiled, closes at any moment | the live ceremony ends like the one in one process | `LivePairing` |
| **Grant acceptance** (`selfsame-app-identity/src/{accept,path_b,revocation,succession}.rs`, `selfsame-beam/src/path_b.rs`, `selfsame-cli/src/path_b_sidecar.rs`) | verdicts and caches | a revocation reaches resolvers one by one; answers are stale when used | no verdict outlives a spread revocation by more than the profile's bound | `Acceptance`, `Sessions` |
| **First contact** (`selfsame-app-identity/src/{ceremony,confirm,enrollment,provider_hint,authorise,grant,profile,discovery}.rs`, `selfsame-beam/src/enrollment.rs`, `EnrolmentAllocator` of `selfsame-web-device`) | an allocator's offer, the hub's key, the served profile | the profile and the hub's key rotate at different times, evidence is mixed up | a device holds only what the hub vouched for; a rotation is effective within one window | `Profiles`, `Evidence`, `Enrolment` |
| **State resolution** (`selfsame-app-identity-net`) | a profile cache | resolvers unreachable, stale, refusing | a reachable resolver is preferred; acknowledgement is not evidence | `Acceptance`, `Sessions`, `Reloads` |
| **Codes, records, sealing; recognisers; retired surfaces** | none | — | pure functions, reached by unit tests and vectors | — |

### 1.3 How they interact

* The pages call commands. Commands are asynchronous and overlap; they share the
  `Session` behind one mutex, which none of them holds across an await. A page is
  one thread, but each of its handlers waits, so that handlers interleave too.
* `create_identity`, `restore_identity` and `forget_identity` claim the
  root-change flag, revoke the pairing attempt under the Session lock, and only
  then touch the store. `forget_identity` purges the links and the policy before
  it deletes the root and clears the session.
* Window events (`lib.rs`) set the background flag and revoke the attempt.
* A pairing worker talks to the relay, persists records before each external
  effect, and releases the payload frame only after the payload is durable.
  Recovery asks the hub what became of a payload.
* The wallet publishes root deltas to the resolver; device clients, hubs,
  browsers and the wallet itself read closures from resolvers and decide on
  them. Offers and bundles travel through read-once slots.
* The application's origin serves its profile; the browser, the hub and the
  wallet each have a copy of some age.

## 2. The modules

| module | models | interleaved |
|---|---|---|
| `Attempts` | attempt fence | running commands, events, watchdog |
| `AppGrant` | grant issuance, replay ledger | running commands |
| `Enrolment` (extends `AppGrant`, `Evidence`) | first contact end to end | the same, with allocators, hub, origin, devices |
| `Profiles`, `Evidence` | profile language; offer, statement, grant, bundle, the wallet's decision: pure operators | |
| `Publication` | identity, linking, publication, resolver, device client | running commands, clients |
| `LinkStore` (extends `Reloads`) | link store, policy, worker, recovery, reload, unlink, forget | one of each |
| `Reloads` | what a wallet makes of a stored link: pure operators | |
| `Exchange`, `Recovery` | credential/v2 documents and recovery answers: pure operators | |
| `Offers` | what the hub checks before there is an offer: pure operators | |
| `Ceremony` (extends `Recovery`, `Offers`) | one credential/v2 ceremony | hub, browser, wallet, relay |
| `Agreement` | what a ceremony promises | |
| `Acceptance` | when a grant is accepted: pure operators | |
| `Sessions` (extends `Acceptance`) | revocation over time | issuer, resolvers, verifiers |
| `Rehearsal` | credential/v1 in one process (`DemoCeremony`): pure operators | |
| `LivePairing` (extends `Rehearsal`) | credential/v1 over a live relay | page, wallet command, relay, per invitation |
| `PairingScreen` | the pairing page over the native commands | its waiting handlers, native commands |
| `LinkScreens` | onboarding, linking and enrolment screens | the same |
| `AttemptsProofs`, `EnrolmentProofs` (`AppGrant` too), `PublicationProofs`, `LinkStoreProofs`, `CeremonyProofs`, `SessionsProofs`, `LivePairingProofs`, `ScreensProofs` (`PairingScreen` and `LinkScreens`) | TLAPS proofs about the module they name | |
| `MC*` | instances for TLC | |

Conventions that run through all of them:

*A lock region is one action.* Between two lock regions a command may be
overtaken by any other. A command's local variables that survive an await are in
its process record, so that a value read before the await and used after it is
stale in the model exactly when it is stale in the code.

*Early returns are explicit.* Error paths that share an outcome share an action
(`DropOperation`, `Refused`, `Fail`); an error path with an outcome of its own is
an action or a disjunct of its own.

*A digest is injective and a signature is authorship.* A digest stands for what it
digests, so that a body that carries the digest of its predecessor *is* the
sequence that leads to it (`Exchange`), and a profile digest is a place in the
list of documents (`Profiles`).

*Mutated forms.* Beside a definition there may be a form of it that a plausible
bug would give (`MayHoldAnyway` beside `MayHold`); only the mutants of
`PROJECT.json` use it.

### 2.1 Attempts

`att[a]` is the `AttemptState` behind one `CredentialV2Attempt` Arc; `current`,
`worker`, `background` and `rootChange` are the fields of
`CredentialV2Attempts`; `slots` are the four pairing fields of `Session`.
`worker` is the process whose lease the weak reference watches: the lease is
live while that process works (`LeaseLive`).

A command is a row of the table `Cmds`: the slot and phase it takes its
continuation from, the phase it puts it back in, and the effects in between.
`Take` is the first lock region of every command; the wrappers (`Contact`,
`UnlockPreview`, …) name the commands. `Enter` is the check under the lock before
an effect, the effect actions (`Exchange`, `Approve`, `Unlock`, `Retain`, `Sign`)
are what happens outside or inside it, and `Put` is `put_pending` with its own
check. `DropOperation` is the Drop of `CredentialV2Operation` and `Abandon` a
dropped future whose blocking closure still runs: the attempt is cancelled at
once but the lease is kept until the closure ends. `Verdict` is `check_locked`; a
check that fails leaves its verdict in the record and clears the custody.
`Watchdog` is the polling thread of `retain_custody`.

### 2.2 AppGrant and Enrolment

`issuance` and `enrolment` are the two Session fields, abstracted to whose they
are; `ledger` is the stored consumed ids; `from` in a process record is the
instant a command read when it started and prunes by much later. `Consume` may
save and then report failure. `Hold` refuses to displace another live ceremony;
`Confirm` takes whatever is pending; `TakeContext` and `Deliver` are the second
half of `cbcl_enrol_confirm`, with `put_bundle`'s lost answer.

`Enrolment` puts the other parties around it and gives the wallet's decision its
content. An allocator (`alloc[o]`) states its offer over the profile octets it
has, which may be old; the hub signs with the key of the document *it* is
deployed with (`SignStatement`); the allocator seals *any* evidence at hand beside
its offer (`SealOffer`), because `build_offer` does not compare them. The wallet
dereferences the profile live (`Open`) or is handed one by the page (`HandIn`),
and `Authorised`, `ManualPath` and `Verified` are `authorise.rs` and
`enrollment::verify` over records; `RecognisedGrant` is the recogniser a grant
passes before anything is concluded from it. `SignHeld` is `SignGrant` with the grant and
bundle it builds; `Receive` is `open_bundle`. `Rotate` and `Reconfigure` move the
origin and the hub separately. Every wallet step is `AppGrant`'s own action with
what it carries, which `EnrolmentRunsIssuance` (section 6) states as a theorem.

### 2.3 Publication

A delta is named by identity, operation and device; `Parents` are what
`sign_on_frontier` commits to, and a revocation's parents are the frontier that
was read *before* the presence check: `basis` has an entry for each revocation
signed so far. `Status` is `publish_delta`'s
answer and `Acknowledges` is `net::publish`'s reading of it. `Snapshot`,
`Publish`, `PublishUnanswered` and `Ack` are one round of `flush`; several
flushes may be under way. Minting an identity, showing its words and confirming
them are separate steps, as are the device list, `verify` and the CLI's own
unlink. A device keeps the DID it was told and the one its genesis derives
(`joined`), and every later command of the client holds the two against each other
again (`LoadIdentity`). `Restart` keeps what the session file and custody hold; `ForgetIdentity`,
`NewPhone` and `ServiceRestart` are mishaps a configuration may allow. `intact` is
a history variable: no mishap yet.

### 2.4 LinkStore and Reloads

`disk` is the platform store. A record carries its ceremony, root generation,
stage and pinned profile. Each operation of `cbcl_v2_completion.rs` (`WriteSlots`,
`PersistPending`, `Swap`, `PurgeAllLinks`, …) is the *set of its results*, each a
disk and whether it succeeded (`Written`): complete, or failed with the store left
as before, as after, or as between two of its writes. A failed call that took
effect, and a crash between two writes, are both such results. A purge deletes the
entries in the order of their names, of which the model assumes nothing.
`SLOT_LOCK` makes an operation one step; `unlink_local` alone keeps it across its
policy updates (`Locked`).

The worker's `pc` follows `complete_approved` and `finish_pending`; `live` says
whether its attempt is still current, `drop` is the cleanup guard. The hub is
external: it answers for a ceremony once, and the answer stands — the promise
`Ceremony` shows the hub keeps. `Reloads` has the table by which a reload verifies
a link afresh and may pin a newer profile (`ClassifyReload`, `Replacements`).

`Attempts` and `LinkStore` meet at two points. `Attempts` shows that only one
worker runs (`OneWorker`), and `LinkStore` has one; `Attempts` says when an
attempt is cancelled, and in `LinkStore` that may happen at any moment.

### 2.5 Ceremony: Exchange, Recovery, Agreement

`Exchange` has every credential/v2 body with its builder and its verifier: a
builder may fail on a wrong predecessor, a status that does not speak for the
core, or a preview that differs from the one retained. `Recovery` has the
recovery request, the three answers the hub may give and what a wallet adopts.
`Offers` has what comes before an offer core: the descriptor of the carrier's
origin, the permissions asked for, the device key, and the locked snapshot of the
account's rooms with its two orders.

`Ceremony` has one ceremony of the two persons, with an earlier one of the same
account whose signed offer and status are still about. `hub` collects what the
NIF has signed (`prepared`, `signed`, `statuses`, `witnesses`) and the external
rows that consume it (`staged`, `row`, `closed`). `session` is the browser's
allocator in memory and `disk` its sealed checkpoint, if any: a sent object is released
only after `WriteCheckpoint` and `CheckpointPersisted`, `StopBrowser` and
`Restore` may come anywhere. The wallet is in memory until `WalletSeal`, which
makes the payload durable before `WalletSend`; `StopWallet` forgets the rest.
`WalletAsk`, `HubFence` and `WalletSettle` are the recovery: a wallet that asks
closes the ceremony unless it was accepted (`Refused` is that outcome). `HubRotate` replaces the hub's key.
`wire` only grows, so that any object may arrive late, twice or never. Objects and
answers of the relay are taken by the builders' own checks alone: the order the
relay endpoint enforces as well is left out.

`Agreement` is the abstract specification: persons consent to terms, an arbiter
decides once and only for terms everybody consented to, and each party may learn
that decision. The refinement mapping `A` reads `consents` off the persons'
decisions, `decision` off the hub's row and fence, `known` off the wallet's
durable outcome and the browser's activated status. `Agrees == A!Spec` is checked
as a property and proved.

### 2.6 Acceptance and Sessions

`Acceptance` is the predicate of `accept.rs` with its four callers (establish,
standing check, rehydration, peer), the quorum and union of observations, when an
issuer's own bundle may stand in, and when an identity may be retired.

`Sessions` lets an issuer sign a history (`log`), of which each resolver serves a
prefix (`held`). A verifier's `Fetch` stamps its start, reads resolvers one by one
in profile order with any `Answers`, and its result is used later by whoever holds
a verdict (`sess`). `spread` is a history variable no actor reads: when every
resolver first held a revocation.

### 2.7 LivePairing

A page's allocator, the wallet's claimant (`cbcl_pairing.rs`) and a mailbox per
invitation. `slot` is `pending_cbcl_pairing`, with a start that overwrites another;
`Rehearsal` is the same ceremony in one process (`PendingTransfer`, `BlindRelay` and
`DemoCeremony` of `lib.rs`): the order of its frames (`Script`), what a transfer must
claim, the relay's sequence octets, and what approval, decline, cancel and expiry
leave behind. The live sessions are held to its outcomes. A *Faulty* relay repeats or spoils one frame: a spoilt
frame does not decode and leaves the allocator its endpoint (`live.rs:241`), or decodes to
one no endpoint takes. `Eligible`, `GateInvitationOrigin` and
`Assembles` are the checks of roster, descriptor and closures around it.

### 2.8 PairingScreen and LinkScreens

Each await of a page is a *task* holding what its handler captured. Between two
awaits any other handler may run; a native command takes effect some time after it
was invoked and answers some time after that. `PairingScreen` has the epoch and
attempt tag that are meant to make late answers harmless, over a coarse native
side (one attempt, one worker, phases in order: what `Attempts` shows).
`LinkScreens` has the busy cover (one flag which any handler that ends takes
away), the camera scan that nothing stops, the drawn fingerprint and its answers,
and `pending_offer`, `pending_enrolment`, `pending_issuance` natively. The two models
share no variable and no definition, so that one module of proofs extends both: what
`PairingScreen` calls page, tasks and native is `ui`, `handlers` and `wallet` in
`LinkScreens`.

## 3. What the runs show

| run | configuration | distinct states | properties |
|---|---|---|---|
| `attempts` | `MCAttempts.cfg` | 674,089 | 6 invariants, 1 action property |
| `attempts_live` | `MCAttemptsLive.cfg` | 16,242 | 2 liveness |
| `grants` | `MCAppGrant.cfg` | 285,274 | 3 invariants, 1 action property |
| `publication` | `MCPublication.cfg` | 1,049,181 | 4 invariants, 1 action property |
| `publication_live` | `MCPublicationLive.cfg` | 19,984 | 1 liveness |
| `links` | `MCLinkStore.cfg` | 1,327,086 | 4 invariants, 1 action property |
| `ceremony` | `MCCeremony.cfg` | 329,017 | 3 invariants, 1 refinement, 1 liveness |
| `sessions` | `MCSessions.cfg` | 745,136 | 3 invariants |
| `live_pairing` | `MCLivePairing.cfg` | 192,196 | 2 invariants, 1 liveness |
| `enrolment` | `MCEnrolment.cfg` | 606,364 | 1 invariant, 1 action property |
| `pairing_screen` | `MCPairingScreen.cfg` | 2,390,384 | 2 invariants |
| `link_screens` | `MCLinkScreens.cfg` | 1,414,146 | 1 invariant |

All hold.

**attempts.** `OneWorker`: the weak lease excludes a second worker even after the
first one's attempt was cancelled or its future dropped. `ContinuationKept`: a
live attempt has exactly one continuation, in one slot or one command, and a
command works with its own attempt's, although the entry and execution slots are
not compared with the attempt when they are taken. `ConsentOnce`: the intent is
approved at most once, and by a single-link attempt only after its preview was
painted. `FencedOut`, `CustodyFenced`, `SignsInsideFence`: no live attempt, no
retained root and no single-link signature outside the foreground, the deadline
and the root the attempt began under.

**attempts_live.** `LeaseReturned`: a cancelled attempt cannot lock pairing out for
ever. `CustodyGivenUp`: retained root material is dropped even if no command ever
runs again; this is the watchdog's job.

**grants.** `ConsumedOnce`: at most one bundle for an offer, and a signed offer is
in the ledger until it expires, although every command prunes the ledger by an
instant it read before its awaits. `DeliveryHonest`: a bundle reaches only its own
slot, and trust is recorded only after its evidence. `PromptStable`: a prompt that
can still be answered is not displaced.

**publication.** `ServedResolves`: any interleaving of flushes, lost answers,
restores and forgets leaves the resolver with closures that resolve, for anybody's
`verify`. `AckedStored` and `JoinedBackedUp` hold until the first mishap: what was
acknowledged is stored, and a device joins only an identity whose words reached
the person. `QueueKept`: a queued delta leaves the queue only into the closure or
with the whole session. **publication_live.** `EventuallyPublished`: crashes, lost
answers, replaced phones and a resolver that loses everything do not keep a delta
of the stored identity in the queue for ever.

**links.** `NothingStranded`: no failure point leaves a record outside the index or
more than an unadvanced approval under a root that is gone. `FinalizedKept`: from
the release of the payload on, what the hub finalised is held until the person or
the root gives it up. `NoResurrection`: the compare-and-swap of the worker,
recovery and reload cannot bring a deleted record back. `UnlinksWhatWasShown`: a
link installed while the person was looking is not removed. Its `TypeOK` includes
that every pinned profile declares the offer's key, however often it was refreshed.

**ceremony.** `Agrees`: section 2.5. `OneSuccessor`: whatever is lost, restored or
prepared again, no party hands the relay two successors of one object; this is
what the checkpoint barrier is for, and reusing a sequence number under the same
key would be the consequence. `StatusBacked`: the comparison a wallet goes on from
rests on a status the hub signed for this very core. `Settles`: a wallet that holds
a durable payload learns the outcome, whatever crashed and however the key rotated.

**sessions.** `RevocationBounded`: once a revocation has reached every resolver, no
verdict rests on older state than the profile allows (the establishment bound, or
`maxClosureAge` for a standing check, or nothing for a reload), and no cached one
is used after `maxClosureAge + propagationSla`. `RetiredDies`: although a standing
check does not look for deactivation, a retired identity's grants die as well,
because retirement waits for their revocation or expiry.

**live_pairing.** `OutcomesAgree`: what the page and the wallet each say of a
ceremony agrees with the other and with the reference, whatever the relay, the page
and a second start do. `Concludes`: a published invitation reaches an end.

**enrolment.** `HeldGrantVouched`: a grant in a device's hands was vouched for by
the hub in that ceremony, for that device, scope and permissions, under a key the
offer's document declares, and was released by the wallet; although allocators mix
up evidence and origin and hub rotate separately. `RotationBounded`: no bundle is
released for a web offer under a document withdrawn an evidence window ago.

**pairing_screen.** `ScreenHonest` is about the single-link flow: the consent screen
shows the attempt its buttons act on; "Nothing was shared" is not said of an attempt
whose identity was or may still be handed over; `link` hands nothing over unless the
person pressed Link with that attempt's preview on the screen. Of the two-decision
flow and of a recovery the page says it after something was disclosed (section 7, item
12), so that nothing is claimed of them. `NoOrphan`: an idle page leaves no tagged
attempt alive, which would refuse every new invitation until its deadline.

**link_screens.** `ComparedFirst`: a grant for an account the authority does not
bind yet is released only after the person found that enrolment's own fingerprint
equal, whatever else ran meanwhile.

Each property has a mutant in `PROJECT.json`: a plausible bug in a mapped definition
(a dropped comparison, a swapped write order, a missing reset, an off-by-one) under
which the run fails.

## 4. Bounds

| run | constants | why they are enough |
|---|---|---|
| `attempts` | 2 attempts, 2 commands, 2 roots, `Window` = `MaxTime` = 2 | the fence relates the current attempt to an earlier one; hazards are pairs of overlapping commands; a deadline lies strictly between two ticks; a restored phrase can bring the first root back |
| `attempts_live` | 1, 2, 1 | liveness of one attempt's lease and custody |
| `grants` | 2 offers expiring at 1 and 2, 2 commands, ledger of 2 | one expires while the other lives, in both orders; the ledger can be full and is freed by expiry |
| `publication` | 1 identity, 1 device, 2 commands; mishaps forget and phone | the properties are per identity; deltas of two devices meet only in the frontier of a revocation |
| `publication_live` | 1, 1, 1; mishaps phone and resolver | |
| `links` | 2 ceremonies for 2 devices of one application, 1 relay, 2 roots, 4 profiles (the offer's, a newer one of the same authority and key, two rotations), limits of 2 | a second link beside the one an operation works on; a profile that may be pinned next and two that may not; a root after the one that was forgotten. Links of two applications and limits that refuse: below |
| `ceremony` | this and an earlier ceremony, 2 accounts, 2 room snapshots, 2 issuers, offers expire at 1, the carrier at 2; one profile, request and signing key, which the hub's checks pass | every comparison can differ; an offer expires while its carrier lives. What the checks of `Offers` refuse is an offer that never exists |
| `sessions` | 2 resolvers, a grant that lasts and one that expires at 1, closure age 2, SLA 1, `MaxTime` 4; one holder of every kind; one revocable grant (`Revocable`) | a revocation can be at one resolver only; the clock passes every bound; the other grant expires by itself before a retirement |
| `live_pairing` | 2 invitations, one with a faulty relay, one whose transfer is for another device; a roster with one or two applications; a kept or rotated declaration | one start meets another; claims that are this wallet's and claims that are not |
| `enrolment` | 2 offers a tick apart, 3 documents (one malformed, one with another key), `Window` 2, 1 command | a rotation between any two steps; one command suffices, since the overlap of commands is `grants`' |
| `pairing_screen` | 2 tasks, `MaxEpoch` 4, 2 native attempts, full and legacy entry | a late answer of the first attempt meets the second |
| `link_screens` | 2 tasks, 1 device code, 2 enrolments, one of a bound account | a late answer for one enrolment meets the other |

Counters: `approvals`, `signatures` and `released` grow by one per action and are
bounded by the attempts and the ledger. `LinkStore`, `LinkScreens` and
`PairingScreen` have no clock: deadlines expire nondeterministically. Failures and
crashes are not bounded, except `LivePairing`'s one misbehaviour of a faulty relay.
`Publication` allows one revocation per device (`basis` gets its entry once).

In `links` neither limit refuses. The same module was also checked with `Ceremonies`
and `Legacy` set to `{c1, c3}`, one device of each of two applications, where an
index entry or a purge concerns a neighbour (2,935,144 distinct states, over the
swap of the applications with their ceremonies), again with `MaxLinks = 1`, and with
the configuration's own ceremonies under `MaxApplicationLinks = 1`. All properties
hold; these take longer than a routine run and are not listed in `PROJECT.json`.

Symmetry is used where the definitions do not tell values apart: attempts, commands
and roots (`attempts`), commands (`grants`, `publication`), the roots of `links` and its two
ceremonies, which differ only in a device that no record stores, tasks (`link_screens`). The
liveness runs use none.

Deadlock is checked except in `ceremony`, `sessions`, `live_pairing` and
`pairing_screen`: a ceremony, an invitation and a clock at its bound are over, and a
page whose epochs are used up (`MaxEpoch`) with no task under way is at its bound.

## 5. Fairness

Nothing makes a person start, confirm, decline or cancel, except where stated.

`Attempts!FairSpec` assumes weak fairness of

* `CommandStep(p)` and `RootEnd(p)`: a running command takes its next step,
  because every wait in it is bounded (socket reads and HTTP have timeouts, a
  custody prompt is answered or dismissed) and every error path ends it;
* `Watchdog(a)`: the thread started by `retain_custody` polls every 50 ms;
* `Tick`: the continuous clock runs.

`Publication!LiveSpec` assumes weak fairness of `Continue(p)` (a command goes on)
and strong fairness of `Flush`, `Snapshot`, `Publish` and `Ack`. `src/app.js`
calls `flush_publications` three seconds after a link or unlink and on every
return to the foreground, for as long as the application is used. Strong fairness
says that restarts and lost answers, however many, do not hit *every* attempt:
under weak fairness a restart could disable each step just in time for ever, which
no client code can survive. It does not say that a particular request is answered.

`Ceremony!Spec` assumes weak fairness of `WalletAsk \/ HubFence \/ WalletSettle`
and of `Tick`: a wallet with a durable payload keeps asking (its page offers the
recovery again on every start), a recovery request ends by its 15 s deadline, and
the hub answers while it is asked. Where a key rotation needs a person's approval,
it is assumed to be given in the end.

`LivePairing!Fairness` is weak: a page reads what has arrived (`PageReads`) and a
mailbox expires (`Expire`). The wallet is not assumed to take any step, nor either
person to decide.

## 6. Proofs

Every theorem below holds for all values of the constants that satisfy the named
assumptions, and each leaf is checked.

| module | theorem | statement | assumes |
|---|---|---|---|
| `AttemptsProofs` | `TypeCorrect`, `LeaseExcludes`, `NothingLiveOutside`, `CustodyIsFenced` | `Spec => []TypeOK`, `[]OneWorker`, `[]FencedOut`, `[]CustodyFenced` | `NoneAssumption`, `ClockAssumption` |
| | `SigningIsFenced` | `Spec => SignsInsideFence` | the same |
| | `ContinuationIsKept`, `ConsentIsOnce` | `Spec => []ContinuationKept`, `[]ConsentOnce` | and `ContinuationAssumption` |
| `EnrolmentProofs` | `TypeCorrect`, `RequestConsumedOnce`, `DeliveryIsHonest` (of `AppGrant`) | `Spec => []TypeOK`, `[]ConsumedOnce`, `[]DeliveryHonest` | `OfferAssumption` |
| | `PromptIsStable` | `Spec => PromptStable` | |
| | `EnrolmentRunsIssuance` | `EnrolmentSpec` keeps what `AppGrant` promises, and takes only its steps: `[](ConsumedOnce /\ DeliveryHonest) /\ [][Next]_vars` | `OfferAssumption`, `WindowAssumption`, `DocsAssumption` |
| | `HeldGrantIsVouched`, `RotationIsBounded` | `EnrolmentSpec => []HeldGrantVouched`, `EnrolmentSpec => RotationBounded` | |
| `PublicationProofs` | `TypesKept`, `ServedResolvesAlways`, `AckedStoredAlways`, `JoinedBackedUpAlways` | `Spec => []TypeOK`, `[]ServedResolves`, `[]AckedStored`, `[]JoinedBackedUp` | `SetsAssumption` |
| | `QueueKeptAlways` | `Spec => QueueKept` | |
| `LinkStoreProofs` | `EntriesRecognised`, `NothingStrandedAlways`, `FinalizedKeptAlways`, `NoResurrectionAlways` | `Spec => []TypeOK`, `[]NothingStranded`, `[]FinalizedKept`, `[]NoResurrection` | `LinkAssumption`, `ReloadAssumption` |
| | `UnlinksOnlyWhatWasShown` | `Spec => UnlinksWhatWasShown` | |
| `CeremonyProofs` | `CeremonyImplementsAgreement` | `Spec => Agrees`, the refinement of `Agreement` | `CeremonyAssumption` |
| | `OneSuccessorAlways`, `StatusIsBacked`, `TypeCorrect` | `Spec => []OneSuccessor`, `[]StatusBacked`, `[]TypeOK` | |
| `SessionsProofs` | `TypeCorrect`, `RevocationReachesAll`, `RetirementReachesAll` | `Spec => []TypeOK`, `[]RevocationBounded`, `[]RetiredDies` | `SessionsAssumption` |
| `LivePairingProofs` | `TypeCorrect`, `OutcomesAgreeAlways` | `Spec => []TypeOK`, `[]OutcomesAgree` | `LivePairingAssumption` |
| `ScreensProofs` | `ScreenHonestAlways`, `NothingOrphaned` (of `PairingScreen`) | `Spec => []ScreenHonest`, `[]NoOrphan` | `ScreenAssumption` |
| | `ComparedBeforeReleased` (of `LinkScreens`) | `LinkSpec => []ComparedFirst` | `LinkScreensAssumption` |

**Attempts.** The inductive invariant is

    IInv == TypeOK /\ WorkerOK /\ UnlockHeld /\ SignedOwn /\ FencedOut /\ CustodyFenced

* `WorkerOK` says that whoever works is the one the lease watches. `OneWorker`
  alone is not inductive: `Take` checks the lease, not the other processes.
* `UnlockHeld` carries the root across the two effects of `unlock_preview`:
  between the prompt and `retain_custody` the root is on the command's stack, and
  `CustodyFenced` needs it to be the generation the attempt began under.
* `SignedOwn` says what has been signed so far, so that the set after a signature
  is a subset of the current root.
* `FencedOut` and `CustodyFenced` are each needed for the other properties: a
  signature is inside the fence because custody implies a live attempt, and a live
  attempt implies foreground and no root change.

Most actions only *weaken* attempts (a record keeps its identity and its root and
may lose liveness, custody or deadline). The lemmas `VerdictIs` to `WeakerKeeps`
state this once; each action then has a short lemma, and `NextIInv` collects them.

Two layers stand on `IInv`. `HInv` is about who holds a continuation. That a live
attempt has exactly one (`ContinuationKept`) is not enough to go on: `Take` does not
compare what it finds in the entry and execution slots with the current attempt, so
that `OwnSlot` has to say why it need not. A single-link reservation has emptied all
four slots, and a legacy one the two from which its commands take. `CInv` is about
consent: as long as a continuation is in a phase before the approval, or a command
is before its approving effect, nothing has been approved for that attempt, and a
continuation that waits for the person's answer has had its preview painted. What
the command table must look like for that (approvals are the last effect of two
commands, only early commands lead to early phases) is the lemma `CmdConsent`.

**AppGrant.** `IInv` adds to `TypeOK` what each command carries (`ProcOK`: the
instant it read is not in the future, what it prepared is its own), `Remembered` (a
signed offer that has not expired is in the ledger *and in every list a command is
about to save*), one signature per live offer, and what `DeliveryHonest` says of
commands under way. `Remembered` is the heart: the ledger is pruned by the instant a
command read before its awaits, and since that instant is never later than the
clock, an entry is pruned only when its offer really has expired.

**Enrolment.** `EInv` is `AppGrant`'s `IInv` and four conjuncts about the content of
things: an offer states a document the origin served (`OriginOK`, `AllocOK`), and
`WalletOK`, that whatever the wallet reviews is vouched for by the hub and was opened
under a document served within the window, and whatever it has signed matches what
it reviewed. Because every wallet step of `Enrolment` *is* a step of `AppGrant`
(`EnrolmentStep`), the part about the ledger is `NextIInv` again, and is not proved
twice.

**Publication.** `IInv == StateOK /\ ServedOK /\ PhoneOK /\ DeviceOK`. `StateOK`
types the state with what each command has been given by its earlier steps.
`ServedOK` speaks of *all* deltas anybody holds, in the queue, in a flush's snapshot
or on a stack: a revocation commits to deltas of its own identity, and the resolver
holds the parents of whatever it holds, because it refuses a delta whose parents are
missing. `ServedResolves` follows whatever the mishaps. `PhoneOK` is the part that
holds until the first mishap: every snapshot of every flush, and the queue itself,
are in causal order over what the resolver has (`Ordered`), so that the 409 which
`net::publish` takes for success is never the one for a missing parent. `DeviceOK`
ties what a device joined to what the phone has shown. That removal from the middle
of the queue keeps its order is a lemma about sequences (`RemovalOf`); the rest
follows the queue through overlapping flushes.

**LinkStore.** `IInv == DiskOK /\ LocalsOK /\ SnapshotKept /\ FreshOK /\ RootOK /\ KeptOK`.
`DiskOK` must hold of every result of every operation, the failed ones included;
one lemma per operation says so, and also which records it can lose. `FreshOK`: a
ceremony the hub has not heard of has no record and never had one, and the worker
inserts only such a one, so that nothing comes back (`NoResurrection`). `RootOK`: a
root change fences the worker first, and once the links are purged the record it
would advance is no longer there, which the compare-and-swap notices; what may be
left is the approval that was on its way. `KeptOK`: a payload is stored before it is
released, and the hub finalises only what was released. `SnapshotKept`: an unlink
that has the lock finds what it has shown.

**Ceremony.** The refinement needs to know that what a party accepts was really
consented to. `RInv` has one part per place an object can be: the hub's signed sets,
the wire, the session, its checkpoint, the wallet. An object is *sound* if every
body inside it rests on what it stands for: a joint approval on the browser
person's consent, a payload on the wallet person's, a final status on an accepted
row. Builders make sound objects of sound ones, `wire` carries only sound ones, and
so a step that decides maps to a decision for terms both consented to, and every
other step to a consent, a learning or a stutter.

Three layers stand on `RInv`. `ChainInv`: the session is at most one object ahead of
what is sealed, and only while that object waits for its checkpoint (`Barrier`);
what the browser has sent leads to the sealed head, and what a running wallet has
sent to its own. A wallet that has stopped sends nothing more, which is why
`WalletOnce` must be carried separately. Two objects that lead to one head and
succeed one object are equal (`OneBeginning`). `BackInv`: every comparison, wherever
it is, carries a status the hub signed for the core its object begins with, and the
preview a session or a checkpoint retains is that of the preparation at its head; the
seal drops the payload but not the preview, and a restored session learns it again
from the head (`HeadReceived`). `TypeInv` adds that a witness is a record of its own
kind, that its issuer is one a person agreed to, and that an authority is never
without an object.

**Sessions.** `IInv` says of each verdict, and of each fetch under way, how much of the
history it must have seen given when it started: a fetch that started after a
revocation had spread includes it, whichever resolvers answer, because there is a
quorum and all of them have it. `RetirementOK` carries the condition under which an
identity could be retired to the verdicts that do not look at it.

**LivePairing.** `IInv` is a typed state and, per invitation, `PairOK(page, core, mail)`.
`PageOK` and `CoreOK` tie the phase of each side to how many frames it has sent and
read, since that is what the receiving side compares. `WireOK` says of every frame
under way, in any direction, in a mailbox or repeated, that its sender has gone past
its number, that its body is the one the script has there (or is spoilt), and that a
decision on the wire is the decision the wallet took. So an outcome the page reads is
one the wallet has reached (`JointOK`, `EndOK`), even from a frame delivered twice. The
relay's queues are sequences; the lemmas about `Append`, `Tail` and removal in the
middle say what is left in them. A start that overwrites the pending session is in
the invariant as the exclusive owner of a core (`owner = "slot" <=> slot = i`).

**PairingScreen.** `IInv == Good(page, tasks, pressed)` is about how the page and the
handlers that wait fit together. A late answer is harmless because of the epoch, so
`TurnsOK` speaks only of the handlers that the epoch does not fence: each finds the
page at the stage its call belongs to (`Placed`), and at most one of them leads, that
is, decides what the page does next. The exception is `resume`, which compares
the epoch only: its late answer may put a recovery before a page that rests, and every
turn has to allow for that (`Moved`, `Offers`). The other half is about native
attempts. `LinkOK`: until the page is past the link, nothing was handed over for
the attempt it holds and no link call for it waits, and the same goes for a
reservation that was answered but not taken up (`Fresh`), which two handlers never
share; a link call is only for an attempt whose preview the person pressed on.
`ToldOK`: an attempt of which the single-link flow says "nothing was shared" is not
alive any more, so that it cannot be linked later either, and it is not one the
two-decision flow disclosed (`Numbered`: a number a single-link handler holds is neither
in `disclosed` nor that of a live two-decision attempt). `EndOK`: once the call that ends an attempt has
been answered the attempt is dead. `HeldOK`, from which `NoOrphan` follows: a live
single attempt is held by the page, by the handler that was given it, or by a call
that will end it. A handler's turn is described once by what it may do to each
half (`TaskTurn`, `PageTurn`, `ToldTurn`, `LinkTurn`, `Handed`), the lemmas `MovedTurns`
and `TurnTags` to `TurnRest` carry the invariant over any such turn, and each action
is shown to be one. TLC checked `IInv` on all states of `pairing_screen` first.

**LinkScreens.** `ComparedFirst` speaks of a native fact, the grants released, and of
what the person once did. In between are a handler's captured enrolment and the
command the page sent for it. `HandlerOK`: a confirmation that waits to run is for an
enrolment the person found equal, or for an account the authority binds; a preparation
answered `notRequired` is for such an account. `UiOK`: on the comparison screen the
enrolment that "it matches" would speak of is the drawn one, unless a late answer put
one there that needs no comparison. That the command releases *whatever is pending*
natively is harmless because `confirm_issuance` compares the ceremony
(`Released`). Proving this showed that the page's fail-closed branch for a preparation
that neither is bound nor has a fingerprint is never taken: `cbcl_enrol_prepare`
answers with one of the two or an error. The model has no such branch.

Every invariant and every action property that a run checks is proved. Model-checked
only are the liveness properties `LeaseReturned`, `CustodyGivenUp`,
`EventuallyPublished`, `Settles` and `Concludes`: liveness under fairness and `ENABLED`
are outside the provers' reach, as is induction over data. No module declares a
recursive operator.

## 7. Where code and text disagree

All of these are reachable in the models; no run is devoted to them.

1. **A decline leaves the enrolment context.** `app_grant.rs:821` says a decline
   "leaves nothing". `confirm_issuance` returns before `pending_enrolment` is taken,
   so that the context stays, and a different enrolment is answered
   `CeremonyInProgress` until the offer expires.
2. **409 as success.** `net::publish` (`net.rs:126`) reads every 409 as "already
   present". The resolver also answers 409 without a genesis or a parent
   (`selfsame-rendezvous/src/lib.rs:247`). After a phone is replaced before its
   genesis was published, the restored phone's link is acknowledged and not stored.
   `AckedStored` is therefore claimed only until the first mishap.
3. **A stuck queue.** `forget_identity` deletes the root, then clears the session
   (`commands.rs:612-642`). A crash in between leaves the old deltas queued; the next
   identity's flush posts them under its own DID, is answered 400, stops at the first
   failure and never reaches its own deltas. The configuration of
   `publication_live` leaves `forget` out for this reason.
4. **A device that is not listed.** `authorise` writes the bundle before it records
   the add (`commands.rs:531`; the comment at `session.rs:611` has it the other way).
   If the answer to the PUT is lost, the device joins, the wallet has no add, and a
   retry is refused by the written slot.
5. **A lost policy update.** `policy::remove` and `policy::insert` each load the whole
   entry and store it back (`cbcl_v2_policy.rs:163`). `unlink` of one application
   overlapping the pairing of another undoes the insert, and a policy insert can bring
   back a pair that `policy::purge` has removed.
6. **Overlapping starts.** `cbcl_pairing.rs:119` announces one live ceremony at a
   time; a second start that was under way when the first one stored its session
   overwrites it (`:194`). `LivePairing!Displayed` has this.
7. **"Fresh and usable".** `selfsame-beam/src/path_b.rs:290` says so of the closure
   facts it projects for the BEAM; no freshness is compared on that path.
8. **The order of the migrated rooms.** `spec-008-0.4.13` and `0.4.12` ask for rooms
   sorted by their octets. `credential_v2.rs:1469-1517` asks for that *and* for rows
   sorted by a key which begins with the room's length, so that an account in two
   rooms which the two orders rank differently cannot build an offer
   (`DisagreementRefused`, an assumption TLC evaluates in `MCCeremony`).
9. **A quorum of one.** `selfsame-beam/src/path_b.rs:288` speaks of "the declared
   two-resolver quorum"; `MINIMUM_RESOLVER_QUORUM` is 1, so that one lagging resolver
   may answer alone.
10. **A cache that ignores its profile.** `selfsame-app-identity-net/src/profile.rs:130`
    calls `cache_is_usable` "both conditions", age and unexpired descriptors;
    `discovery::cache_is_usable` does not read its profile.
11. **"Just derived".** `app_grant.rs:783` says so of an issuer which it re-reads from
    the session at line 790, after an await.
12. **"Nothing was shared" after a disclosure.** `cbcl_v2_compare` discloses the identity
    preview to the application (`pairing.js:460`, `:613`). When `cbcl_v2_final_decide`
    fails afterwards, `decide` falls through to `startFailureText` (`:652-657`), most of
    whose texts end with "Nothing was shared" (`:197-204`); so does a failed
    `cbcl_v2_recover` of a link whose payload was released. The model records both in
    `disclosed` and reaches both (`DecideRevoked`), so that `Truthful` is stated of the
    single-link flow only; of every flow it would be violated.

## 8. Observations

Behaviour a reader of the code may not expect. Where it would contradict a property, the
property leaves it out and says so.

*Grants.* A preparation that stalls across its offer's expiry may sign twice, since its
entry can be pruned by a later command; only one is released, because
`confirm_issuance` compares with the expiry. `Session::clear` leaves
`pending_issuance` and `pending_enrolment` (`session.rs:688`), so that a grant
prepared under a forgotten root can still be confirmed. `cbcl_enrol_prepare` may
announce another ceremony's issuer (`app_grant.rs:790`). `build_offer` recognises
the evidence it seals and does not compare it with the offer; the hub does not
compare the statement's profile digest with its own profile. The wallet compares
both.

*Identity.* `adopt_closure` replaces the cached closure by one fetched earlier
(`session.rs:667`): a delta acknowledged in between drops out of the cache, though not
out of the resolver; a restore does the same (`commands.rs:312`). `Session::document`
answers `NoIdentity` while the closure is empty (`session.rs:622`), so that a device
linked offline cannot be unlinked before the genesis is acknowledged.
`confirm_backup` checks the words the page hands back, not the stored root. If
`create_identity` reports an error after the root was stored, or the application
stops while the words are shown, they are never shown again and linking stays
disabled. No page invokes `forget_identity`. A read-once slot is emptied when its
answer is written (`selfsame-rendezvous/src/lib.rs:156`), and a lost answer loses its
content.

*Links.* `forget_identity` does not wait for a worker inside
`PrePayloadPendingTransaction::begin`; its FinalApproval record may land after the
purge, stay under a root that no longer exists, be refused by `unlink`
(`PairingRootChanged`) and refuse a new pairing of that application.
`validate_slots` does not look at a pending record's device
(`cbcl_v2_completion.rs:2018`): a ceremony for an installed device is accepted until
its installation, which is then refused on every retry. `verify_reload` compares
with the offer's profile and not with the pinned one, so that refreshes cannot drift.

*Ceremony.* A wallet that asks about a ceremony closes it unless it was accepted, and
after a lost answer it stays closed. An answer signed under a key that rotated
after the profile was fetched is refused, and the next request reads the profile
again. The hub's acceptance witness already carries the signed final status; the
transaction reads its facts and checks row, fence and binding again.

*Sessions.* `standing` (`accept.rs:632`) does not look at `deactivated`; `RetiredDies`
shows why this is harmless. A wallet reload reports "revoked" for any failure. With
a quorum of one a lagging resolver can make a revoked grant stand again until the
revocation has reached it.

*Live pairing.* `approve` and `decline` take no ceremony id. The allocator reports
"delivered" once the payload was sent even if the claimant refuses it, which
`test_806` expects. A failed finish leaves the page without an outcome until the
relay closes.

*Pairing page.* A legacy recognition that runs natively after its cancel leaves a live attempt without a
tag (`NoOrphan` speaks of tagged ones), and a late `cbcl_v2_cancel` can cancel the
next legacy attempt. A late answer of `refresh` or `finish` shows its screen
regardless and cancels a pairing begun meanwhile. `resumePending` compares the
epoch and not the stage, and may offer a recovery that is already done.

*Other pages.* Nothing stops the camera scan. The busy cover is one flag that any
handler which ends takes away. "Back" on the presence screen always shows the
device consent, which in an enrolment is blank or somebody else's; "It shows
something else" leaves `ui.enrol` active. A device can be joined without its own
consent having been confirmed, when a scan's late answer replaces the pending offer
while the presence screen is uncovered. The confirmation of an enrolment is guarded
twice, which is why `ComparedFirst` holds nevertheless.

## 9. What is not modelled

* Encodings, recognisers at the level of characters and cryptography: octets are
  abstracted to what they identify. A signature is an authorship fact; a hash is a
  name. Views, wording, logging and layout.
* Failing writes of the session file (`Session::save` ignores its error): the model
  assumes they succeed. Failing store writes *are* modelled in `LinkStore`, and for
  the ledger and trust entries in `AppGrant`.
* `note_seen` (the last-seen time in the device list), and the resubmission of a legacy
  code, which is one `Reserve`.
* The application-list screens of `app.js`: `AppState` has neither `applications` nor
  `pending_handoff`, so that they cannot be reached.
* The classifiers of `legacy.rs`, and the reading of projections.
* `NonceLedger`, `RequestLedger`, `submit_revocation` and `confirm_revocation`,
  `may_deactivate_outgoing`, `enumerate_applications`, `check_record_digest`,
  `fingerprints_agree`: no production code calls them. The same holds for the bundle
  branch of `resolve_closure`, of which `Acceptance` nevertheless has the predicate.
* The order of kinds that the credential/v2 relay endpoint enforces; `Ceremony` does
  without it, and so holds for a relay that enforces none.
* Link codes, records and sealing (pure functions), archive recovery (one request whose
  failure changes no wallet state), the secure store (platform I/O), retired
  surfaces (entry points that refuse): status `not_modelled` in `PROJECT.json`.

## 10. Plan

1. **Composition** of `Attempts` with `LinkStore`: the cancellation that `LinkStore`
   allows at any time restricted to when `Attempts` cancels, and the lease shared.
   The hub that `LinkStore` has as a promise replaced by `Agreement`.
2. **Reading of projections** and the account-linked archive request.

Running: `tlc -workers 2 -config MCAttempts.cfg MCAttempts`, and likewise for the
others; `tlapm AttemptsProofs.tla`, and likewise for the other proofs. The longest
run takes about three minutes with two workers, the proofs one to six minutes each.
