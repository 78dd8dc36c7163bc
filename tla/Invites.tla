------------------------------ MODULE Invites ------------------------------
(***************************************************************************)
(* Invites and invite claims of one vault:                                 *)
(*   POST /v1/vaults/{vault_id}/invites = httpapi.handleInviteCreate:      *)
(*     InvitesValidator.ValidateInvite (reads), then                       *)
(*     invites.RecordNonceUsed (INSERT .. ON CONFLICT DO NOTHING), then    *)
(*     invites.Create (INSERT, invite_id primary key);                     *)
(*   POST /v1/invites/{invite_id}/claim = httpapi.handleInviteClaim:       *)
(*     InvitesValidator.ValidateInviteClaim (reads), then                  *)
(*     invites.CreateClaim (INSERT .. ON CONFLICT(invite_id, device_id)    *)
(*     DO NOTHING).                                                        *)
(* Each storage call is one atomic step and may fail.  The vault and its   *)
(* members are read here and written by Membership; Membership also       *)
(* reads the invites and claims and sets invites.used.  The claim's        *)
(* devices.Get reads the devices table Devices writes; the target bundle   *)
(* is well formed.                                                         *)
(***************************************************************************)
EXTENDS Naturals, FiniteSets, TLC

CONSTANTS
  Devices,        \* device_id values (model values)
  InviteIDs,      \* invite_id UUIDs
  Nonces,         \* 24-byte nonces clients may send
  Requests,       \* concurrently running invite / claim handlers
  SigChoices,     \* outcomes of a signature check a client can produce
  FailingCalls    \* the storage calls that may fail (busy, deadline, crash)

ASSUME SigChoices \subseteq BOOLEAN /\ TRUE \in SigChoices
ASSUME FailingCalls \subseteq {"RecordNonceUsed", "invites.Create", "CreateClaim"}

VARIABLES
  devices,     \* devices table (read here, written by Devices)
  vaults,      \* owner_device_id of the vaults row: {} or {owner}
  memberRows,  \* vault_members: partial function device -> [isMember, keyEpoch]
  invites,     \* invites: partial function invite_id -> row
  claims,      \* invite_claims: set of <<invite_id, device_id>>
  usedNonces,  \* used_nonces: set of <<nonce_type, creator, nonce>>
  ireq         \* the handler state of each request

inviteVars == <<invites, claims, usedNonces, ireq>>

IsMember(d) == d \in DOMAIN memberRows /\ memberRows[d].isMember

\* bodies of POST /invites and POST /invites/{id}/claim
InvitesOffered ==
  [kind: {"invite"}, id: InviteIDs, target: Devices, creator: Devices,
   nonce: Nonces, singleUse: BOOLEAN, sigOk: SigChoices]
ClaimsOffered ==
  [kind: {"claim"}, id: InviteIDs, device: Devices, sigOk: SigChoices]

\* an idle handler; its response is not kept, no later step reads it
IIdle == [pc |-> "idle", body |-> [kind |-> "none"]]

(***************************************************************************)
(* Validation, the checks after the structural ones in code order.         *)
(***************************************************************************)

\* CheckNonceUsed("invite", vault, creator, nonce)
NonceUsed(b) == <<"invite", b.creator, b.nonce>> \in usedNonces

\* Variants of the definitions below as a plausible slip would write them;
\* each is used to confirm that a property notices the slip.
ValidateInvite(b) ==
  CASE vaults = {}                     -> "not_found"
    [] ~IsMember(b.creator)            -> "membership_required"
    [] NonceUsed(b)                    -> "nonce_reused"
    [] ~b.sigOk                        -> "invalid_signature"
    [] OTHER                           -> "ok"

\* (the claiming device's registration not checked)
ValidateInviteClaimNoDevice(b) ==
  CASE b.id \notin DOMAIN invites      -> "not_found"
    [] invites[b.id].target # b.device -> "device_mismatch"
    [] ~b.sigOk                        -> "invalid_signature"
    [] OTHER                           -> "ok"

ValidateInviteClaim(b) ==
  CASE b.id \notin DOMAIN invites      -> "not_found"
    [] invites[b.id].target # b.device -> "device_mismatch"
    [] b.device \notin DOMAIN devices   -> "device_not_found"
    [] ~b.sigOk                        -> "invalid_signature"
    [] OTHER                           -> "ok"

(***************************************************************************)
(* Actions of one request r                                                *)
(***************************************************************************)

\* the handler writes its response and returns
IReturn(r) == ireq' = [ireq EXCEPT ![r] = IIdle]

RejectInvite(r) ==
  /\ ireq[r].pc = "idle"
  /\ \E b \in InvitesOffered :
       /\ ValidateInvite(b) # "ok"
       /\ IReturn(r)
  /\ UNCHANGED <<devices, vaults, memberRows, invites, claims, usedNonces>>

\* (RecordNonceUsed not called: straight on to invites.Create)
AcceptInviteSkipRecord(r) ==
  /\ ireq[r].pc = "idle"
  /\ \E b \in InvitesOffered :
       /\ ValidateInvite(b) = "ok"
       /\ ireq' = [ireq EXCEPT ![r] = [pc |-> "nonceRecorded", body |-> b]]
  /\ UNCHANGED <<devices, vaults, memberRows, invites, claims, usedNonces>>

AcceptInvite(r) ==
  /\ ireq[r].pc = "idle"
  /\ \E b \in InvitesOffered :
       /\ ValidateInvite(b) = "ok"
       /\ ireq' = [ireq EXCEPT ![r] = [pc |-> "validated", body |-> b]]
  /\ UNCHANGED <<devices, vaults, memberRows, invites, claims, usedNonces>>

\* RecordNonceUsed: ON CONFLICT DO NOTHING, so a nonce recorded in between
\* by a concurrent request is no error
RecordNonceUsed(r) ==
  LET b == ireq[r].body IN
  /\ ireq[r].pc = "validated"
  /\ usedNonces' = usedNonces \cup {<<"invite", b.creator, b.nonce>>}
  /\ ireq' = [ireq EXCEPT ![r].pc = "nonceRecorded"]
  /\ UNCHANGED <<devices, vaults, memberRows, invites, claims>>

RecordNonceUsedFails(r) ==
  /\ ireq[r].pc = "validated"
  /\ "RecordNonceUsed" \in FailingCalls
  /\ IReturn(r)
  /\ UNCHANGED <<devices, vaults, memberRows, invites, claims, usedNonces>>

\* the invites row of body b: used = false
InviteRow(b) == [target |-> b.target, creator |-> b.creator, nonce |-> b.nonce,
                 singleUse |-> b.singleUse, used |-> FALSE]

\* invites.Create: INSERT; the invite_id primary key rejects a duplicate
CreateInvite(r) ==
  LET b == ireq[r].body IN
  /\ ireq[r].pc = "nonceRecorded"
  /\ b.id \notin DOMAIN invites
  /\ invites' = (b.id :> InviteRow(b)) @@ invites
  /\ IReturn(r)
  /\ UNCHANGED <<devices, vaults, memberRows, claims, usedNonces>>

CreateInviteFails(r) ==
  /\ ireq[r].pc = "nonceRecorded"
  /\ ireq[r].body.id \in DOMAIN invites \/ "invites.Create" \in FailingCalls
  /\ IReturn(r)
  /\ UNCHANGED <<devices, vaults, memberRows, invites, claims, usedNonces>>

RejectClaim(r) ==
  /\ ireq[r].pc = "idle"
  /\ \E b \in ClaimsOffered :
       /\ ValidateInviteClaim(b) # "ok"
       /\ IReturn(r)
  /\ UNCHANGED <<devices, vaults, memberRows, invites, claims, usedNonces>>

AcceptClaim(r) ==
  /\ ireq[r].pc = "idle"
  /\ \E b \in ClaimsOffered :
       /\ ValidateInviteClaim(b) = "ok"
       /\ ireq' = [ireq EXCEPT ![r] = [pc |-> "claimValidated", body |-> b]]
  /\ UNCHANGED <<devices, vaults, memberRows, invites, claims, usedNonces>>

\* invites.CreateClaim: ON CONFLICT(invite_id, device_id) DO NOTHING
CreateClaim(r) ==
  LET b == ireq[r].body IN
  /\ ireq[r].pc = "claimValidated"
  /\ claims' = claims \cup {<<b.id, b.device>>}
  /\ IReturn(r)
  /\ UNCHANGED <<devices, vaults, memberRows, invites, usedNonces>>

CreateClaimFails(r) ==
  /\ ireq[r].pc = "claimValidated"
  /\ "CreateClaim" \in FailingCalls
  /\ IReturn(r)
  /\ UNCHANGED <<devices, vaults, memberRows, invites, claims, usedNonces>>

(***************************************************************************)
(* Specification                                                           *)
(***************************************************************************)

InviteInit ==
  /\ invites = [i \in {} |-> IIdle]
  /\ claims = {}
  /\ usedNonces = {}
  /\ ireq = [r \in Requests |-> IIdle]

InviteStep(r) ==
  \/ RejectInvite(r)
  \/ AcceptInvite(r)
  \/ RecordNonceUsed(r)
  \/ RecordNonceUsedFails(r)
  \/ CreateInvite(r)
  \/ CreateInviteFails(r)
  \/ RejectClaim(r)
  \/ AcceptClaim(r)
  \/ CreateClaim(r)
  \/ CreateClaimFails(r)

InviteNext == \E r \in Requests : InviteStep(r)
====
