------------------------------ MODULE Reloads ------------------------------
(***************************************************************************)
(* What a wallet makes of a stored link when it reads it back and when it  *)
(* verifies it against the live authority, as pure operators               *)
(* (cbcl_v2_completion.rs; the observations are assembled by               *)
(* cbcl_v2_reload_verify in cbcl_v2_commands.rs).  A link's account,       *)
(* issuer, device and grant follow from its ceremony, so an observation    *)
(* says of each only whether it is the link's own.                         *)
(***************************************************************************)
CONSTANTS Profiles,  \* [version, authority, key]: what the application may serve
          Offered    \* the profile the offer was made under

ASSUME ReloadAssumption ==
  /\ Profiles \subseteq [version : {p.version : p \in Profiles},
                         authority : {p.authority : p \in Profiles},
                         key : {p.key : p \in Profiles}]
  /\ Offered \in Profiles

-----------------------------------------------------------------------------
(* Reading back *)

\* validate of a pending record, and of an installed one: the offer's profile
\* is retained for good, and the pinned one is of the same account authority.
PendingRecognised(pinned) == pinned = Offered
InstalledRecognised(pinned) == pinned.authority = Offered.authority

\* The key is looked up in the offer's profile, whatever is pinned since.
OfferKeyRetainedIn(current) == current.key = Offered.key

-----------------------------------------------------------------------------
(* Verifying afresh *)

\* What the account host answers, and what the state resolvers' closures say.
Directories == {"failed", "not-found", "invalid", "other-account", "other-issuer",
                "no-issuer", "bound"}
Histories == {"none", "revoked", "no-match", "standing"}

Unavailable == [kind |-> "unavailable"]
HubDeleted == [kind |-> "hub-deleted"]
Verified(current, ownIssuer, matches, revoked) ==
  [kind |-> "verified", current |-> current, ownIssuer |-> ownIssuer,
   matches |-> matches, revoked |-> revoked]
ClassifyWebfingerFailure(directory, current) ==
  CASE directory = "failed"    -> Unavailable
    [] directory = "not-found" -> HubDeleted
    [] directory = "invalid"   -> Verified(current, TRUE, FALSE, TRUE)

\* The directory is asked first; only an account bound to this issuer is worth
\* asking the resolvers about.
Observed(current, directory, history) ==
  CASE directory \in {"failed", "not-found", "invalid"} ->
         ClassifyWebfingerFailure(directory, current)
    [] directory \in {"other-account", "no-issuer"} -> Verified(current, TRUE, FALSE, TRUE)
    [] directory = "other-issuer" -> Verified(current, FALSE, FALSE, FALSE)
    [] OTHER -> IF history = "none" THEN Unavailable
                ELSE Verified(current, TRUE, history = "standing", history = "revoked")

ClassifyReloadTrusting(pinned, o) ==
  CASE o.kind # "verified" -> o.kind
    [] OTHER -> IF o.current # pinned THEN "profile-refresh" ELSE "usable"
\* The root generation and the handle were compared before anything was fetched.
ClassifyReload(pinned, o) ==
  IF o.kind # "verified" THEN o.kind
  ELSE IF o.current.authority # Offered.authority \/ ~OfferKeyRetainedIn(o.current)
       THEN "authority-rotation"
  ELSE IF ~o.ownIssuer THEN "issuer-rotation"
  ELSE IF o.revoked \/ ~o.matches THEN "revoked"
  ELSE IF o.current # pinned THEN "profile-refresh" ELSE "usable"

\* verify_reload: the profiles that may replace the pinned one.
Replacements ==
  [pinned \in Profiles |->
     {current \in Profiles : \E directory \in Directories, history \in Histories :
        ClassifyReload(pinned, Observed(current, directory, history)) = "profile-refresh"}]
=============================================================================
