----------------------------- MODULE Enrolment -----------------------------
(***************************************************************************)
(* First contact end to end: the browser or native application allocates  *)
(* an offer (selfsame-web-device, EnrolmentAllocator), the hub signs its   *)
(* statement (selfsame-beam/src/enrollment.rs), the wallet opens it,       *)
(* fetches the application's profile live and issues a grant (AppGrant),   *)
(* and the device opens the bundle.  Meanwhile the application rotates its *)
(* profile and the hub its signing key, each in its own time.              *)
(***************************************************************************)
EXTENDS AppGrant, Evidence

CONSTANTS Scope,      \* Scope[o]: the account scope the device asks for
          Bindings    \* Bindings[o]: the platform bindings its application has

ASSUME ScopeAssumption == DOMAIN Scope = Offers /\ \A o \in Offers : Expiry[o] >= Window
ASSUME DocsAssumption == Docs \in Seq(Entries(Docs)) /\ Len(Docs) > 0

VARIABLES served,     \* the place in Docs of the document the origin serves
          left,       \* left[n]: when document n stopped being served
          hub,        \* the document the hub is deployed with, and its key
          alloc,      \* alloc[o]: the allocator's own state
          vouched,    \* every evidence the hub has signed
          plain,      \* plain[o]: the offer as the allocator sealed it
          mail,       \* offers waiting in their read-once slot
          content,    \* content[o]: what the wallet holds of a reviewed offer
          grants,     \* grants[o]: the bundle built for o, inside its grant
          device      \* device[o]: the grant the device opened
outside == <<served, left, hub, alloc, vouched, plain, mail, content, grants, device>>
allVars == <<vars, outside>>

-----------------------------------------------------------------------------
App == Docs[1].app
HubKey == Docs[hub].keys[1]
WebBinding == <<"web", Origin(App)>>
NativeBindings == {b \in UNION {Entries(Docs[n].bindings) : n \in DOMAIN Docs} : b.platform # "web"}
Callers == {NoHandoff} \cup {b.id : b \in NativeBindings}
EverServed == {n \in DOMAIN Docs : n = served \/ left[n] # None}
CoreOf(o) == Core(o, Scope[o], o, alloc[o].doc, Expiry[o] - Window)
StatementFor(o) == Statement(CoreOf(o), Hint(CoreOf(o), alloc[o].doc), alloc[o].binding,
                             <<Origin(App), "return">>)

\* The wallet has its root; AppGrant's Forget and Create are left to its own run.
EnrolmentInit ==
  /\ issuance = None /\ enrolment = None
  /\ hasRoot = TRUE /\ ledger = {} /\ trust = {}
  /\ procs = [p \in Procs |-> Idle] /\ now = 0
  /\ signatures = [o \in Offers |-> 0] /\ released = [o \in Offers |-> 0]
  /\ bundles = {} /\ announced = {}
  /\ served = 1 /\ left = [n \in DOMAIN Docs |-> None] /\ hub = 1
  /\ alloc = [o \in Offers |-> [pc |-> "none", doc |-> 1, binding |-> WebBinding]]
  /\ vouched = {} /\ mail = {}
  /\ plain = [o \in Offers |-> None] /\ content = [o \in Offers |-> None]
  /\ grants = [o \in Offers |-> None] /\ device = [o \in Offers |-> None]

-----------------------------------------------------------------------------
(* The application's operator *)

\* The origin serves the next document.
Rotate ==
  /\ served < Len(Docs)
  /\ served' = served + 1
  /\ left' = [left EXCEPT ![served] = now]
  /\ UNCHANGED <<vars, hub, alloc, vouched, plain, mail, content, grants, device>>

\* The hub is deployed with another document and its key: not at the same time.
Reconfigure(n) ==
  /\ hub < n /\ n <= served + 1
  /\ hub' = n
  /\ UNCHANGED <<vars, served, left, alloc, vouched, plain, mail, content, grants, device>>

-----------------------------------------------------------------------------
(* The allocator and the hub *)

\* EnrolmentAllocator::new_native over the profile octets at hand, which may be
\* old.  A native application names its own binding and its own return URI.
Allocate(o, n, binding) ==
  /\ alloc[o].pc = "none"
  /\ now = Expiry[o] - Window
  /\ n \in EverServed
  /\ Recognised(Docs[n])
  /\ alloc' = [alloc EXCEPT ![o] = [pc |-> "stated", doc |-> n, binding |-> binding]]
  /\ UNCHANGED <<vars, served, left, hub, vouched, plain, mail, content, grants, device>>

\* sign_enrollment_profile_bound: the document that declares the hub's key need
\* not be the one the statement names.
SignStatement(o) ==
  /\ alloc[o].pc = "stated"
  /\ MaySign(StatementFor(o), HubKey.kid, HubKey.key, Docs[hub])
  /\ vouched' = vouched \cup {[statement |-> StatementFor(o), kid |-> HubKey.kid, key |-> HubKey.key]}
  /\ alloc' = [alloc EXCEPT ![o].pc = "answered"]
  /\ UNCHANGED <<vars, served, left, hub, plain, mail, content, grants, device>>

\* seal_offer: any evidence at hand is put beside the offer, also one that was
\* signed for another ceremony of the page.
SealOffer(o, e) ==
  LET core == CoreOf(o)  n == alloc[o].doc IN
  /\ alloc[o].pc = "answered"
  /\ e \in vouched
  /\ MayBuildOffer(core, e, n)
  /\ alloc' = [alloc EXCEPT ![o].pc = "sealed"]
  /\ plain' = [plain EXCEPT ![o] = [core |-> core, hint |-> Hint(core, n), evidence |-> e]]
  /\ mail' = IF alloc[o].binding = WebBinding THEN mail \cup {o} ELSE mail
  /\ UNCHANGED <<vars, served, left, hub, vouched, content, grants, device>>

-----------------------------------------------------------------------------
(* The wallet *)

FetchedOnce == 1
\* profile::fetch: the document is dereferenced live, never taken from a cache.
Fetched == served

\* enrol_from_opened up to its decision, over the document fetched.
Reviewed(o, response) ==
  /\ RecognisedOffer(plain[o])
  /\ RecognisedResponse(response, Fetched, plain[o].core.app)
  /\ ManualPath(plain[o], Fetched)
  /\ Authorised(plain[o], Fetched, plain[o].core.profile, NoHandoff, now)

\* cbcl_enrol_start: the read empties the slot.
Open(p, o) ==
  /\ o \in mail
  /\ Reviewed(o, "ok")
  /\ EnrolStart(p, o)
  /\ mail' = mail \ {o}
  /\ content' = [content EXCEPT ![o] = [offer |-> plain[o], doc |-> Fetched, caller |-> NoHandoff]]
  /\ UNCHANGED <<served, left, hub, alloc, vouched, plain, grants, device>>

\* The same, refused: the slot is empty all the same.
OpenFails(o, response) ==
  /\ o \in mail
  /\ ~Reviewed(o, response) \/ o \in LiveAt(now)
  /\ mail' = mail \ {o}
  /\ UNCHANGED <<vars, served, left, hub, alloc, vouched, plain, content, grants, device>>

\* app_grant_prepare on the same device: the page hands the profile in and the
\* platform reports the caller.
HandIn(p, o, n, caller) ==
  /\ alloc[o].pc = "sealed" /\ alloc[o].binding # WebBinding
  /\ n \in EverServed
  /\ Authorised(plain[o], n, plain[o].core.profile, caller, now)
  /\ HeldPrepare(p, o)
  /\ content' = [content EXCEPT ![o] = [offer |-> plain[o], doc |-> n, caller |-> caller]]
  /\ UNCHANGED <<served, left, hub, alloc, vouched, plain, mail, grants, device>>

\* cbcl_enrol_prepare: the decision again, over what was held.
Reprepare(p) ==
  /\ EnrolPrepare(p)
  /\ LET c == content[enrolment] IN Authorised(c.offer, c.doc, c.offer.core.profile, c.caller, now)
  /\ UNCHANGED outside

\* prepare_issuance signs what it holds and builds the bundle; the grant dates
\* from the decision.
SignHeld(p) ==
  LET o == procs[p].cer  c == content[o] IN
  /\ SignGrant(p)
  /\ grants' = [grants EXCEPT ![o] = Bundle(c.offer, Grant(c.offer, c.doc, procs[p].from))]
  /\ UNCHANGED <<served, left, hub, alloc, vouched, plain, mail, content, device>>

\* The other steps of AppGrant move nothing outside the wallet.
Inside(p) ==
  /\ \/ EnrolKeep(p) \/ Consume(p) \/ Hold(p) \/ ReadIssuer(p) \/ Announce(p)
     \/ \E r \in BOOLEAN : Ask(p, r)
     \/ \E o \in Offers, yes \in BOOLEAN, k \in Kinds : Confirm(p, o, yes, k)
     \/ TakeContext(p) \/ Deliver(p) \/ CommitTrust(p) \/ Refused(p)
  /\ UNCHANGED outside

WalletRestart == /\ Restart
                 /\ content' = [o \in Offers |-> None]
                 /\ UNCHANGED <<served, left, hub, alloc, vouched, plain, mail, grants, device>>
Clock == Tick /\ UNCHANGED outside

-----------------------------------------------------------------------------
(* The device *)

\* EnrolmentAllocator::open_bundle; a same-device application is handed the
\* bundle.  The record opens under the slot's own secret and offer.
Receive(o, g) ==
  /\ device[o] = None
  /\ IF alloc[o].binding = WebBinding THEN <<g, o>> \in bundles ELSE g = o /\ released[g] > 0
  /\ BundleMatches(grants[g], plain[o].core)
  /\ device' = [device EXCEPT ![o] = grants[g].grant]
  /\ UNCHANGED <<vars, served, left, hub, alloc, vouched, plain, mail, content, grants>>

EnrolmentNext ==
  \/ Rotate
  \/ \E n \in DOMAIN Docs : Reconfigure(n)
  \/ \E o \in Offers :
       \/ \E n \in DOMAIN Docs, b \in Bindings[o] : Allocate(o, n, b)
       \/ SignStatement(o)
       \/ \E e \in vouched : SealOffer(o, e)
       \/ \E r \in Responses : OpenFails(o, r)
       \/ \E g \in Offers : Receive(o, g)
       \/ \E p \in Procs :
            Open(p, o) \/ \E n \in DOMAIN Docs, c \in Callers : HandIn(p, o, n, c)
  \/ \E p \in Procs : Reprepare(p) \/ SignHeld(p) \/ Inside(p)
  \/ WalletRestart \/ Clock
EnrolmentSpec == EnrolmentInit /\ [][EnrolmentNext]_allVars

-----------------------------------------------------------------------------
(* Properties *)

\* A grant a device holds was vouched for by the hub: in this very ceremony, for
\* this device, scope and permissions, under a key that the document named by
\* the offer declares, and the wallet released it (CON-214, CON-219); and every
\* verifier's recogniser admits it (CON-205).
HeldGrantVouched ==
  \A o \in Offers : device[o] # None =>
    \E e \in vouched :
      /\ e.statement.ceremony = o /\ e.statement.deviceDigest = device[o].device
      /\ device[o].device = o
      /\ device[o].issuer = <<e.statement.app, e.statement.scope>>
      /\ device[o].permissions = e.statement.permissions
      /\ Declared(Docs[e.statement.profile], e.kid, e.key)
      /\ released[o] > 0 /\ RecognisedGrant(device[o])

\* No bundle is released for a web offer under a document the origin stopped
\* serving an evidence window ago or more (CON-220 with CON-214's window).
RotationBounded ==
  [][\A o \in Offers :
       /\ released'[o] > released[o] /\ content[o] # None
       /\ alloc[o].binding = WebBinding
       => left[content[o].doc] = None \/ now < left[content[o].doc] + Window]_allVars
=============================================================================
