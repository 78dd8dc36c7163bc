----------------------------- MODULE Membership -----------------------------
(***************************************************************************)
(* The membership log of one vault:                                        *)
(*   POST /v1/vaults/{vault_id}/member-events                              *)
(* = httpapi.handleMemberEventCreate, which calls                          *)
(*   validation.MembershipValidator.ValidateMemberAdd / ValidateMemberRemove*)
(*   (reads only), then, one autocommit statement each:                    *)
(*   vaults.Create (genesis only), memberEvents.Create,                    *)
(*   vaults.UpsertMembershipHead, and vaults.UpsertMember + invites.MarkUsed*)
(*   (member_add) or vaults.SetMemberRemoved (member_remove).              *)
(* Every storage call is one atomic step; concurrent requests interleave   *)
(* between them and any call may fail, leaving the earlier ones committed. *)
(*                                                                         *)
(* Abstraction, as in EventChain: member_hash is the tuple of the signed   *)
(* fields kept; ed25519 checks are booleans of the request; the subject's  *)
(* bundle is well formed.  member_event_id is a fresh random UUID per      *)
(* request, so its primary key never rejects an insert.  One vault is      *)
(* modelled, so every invite and claim belongs to it.  The invites and     *)
(* invite_claims tables are read here and written by Invites (MarkUsed is  *)
(* written here).                                                          *)
(***************************************************************************)
EXTENDS Naturals, Sequences, FiniteSets, TLC

CONSTANTS
  Devices,        \* device_id values (model values), all registered
  InviteIDs,      \* invite_id UUIDs
  NoInvite,       \* the zero invite_id that genesis events carry
  Requests,       \* concurrently running handleMemberEventCreate goroutines
  MaxMemberSeq,   \* largest member_seq a client sends
  MaxMemberEvents,\* bound on stored member events (a retry after a failed
                  \* head upsert stores another row, without end)
  SigChoices,     \* outcomes of a signature check a client can produce
  FailingCalls    \* the storage calls that may fail (busy, deadline, crash)

ASSUME NoInvite \notin InviteIDs
ASSUME MaxMemberSeq \in Nat \ {0}
ASSUME MaxMemberEvents \in Nat
ASSUME SigChoices \subseteq BOOLEAN /\ TRUE \in SigChoices
ASSUME FailingCalls \subseteq
         {"vaults.Create", "memberEvents.Create", "UpsertMembershipHead",
          "UpsertMember", "MarkUsed", "SetMemberRemoved"}

VARIABLES
  vaults,      \* owner_device_id of the vaults row: {} or {owner}
  memberLog,   \* member_events rows in insertion order
  memberHead,  \* vault_membership_heads row: {} or {[seq, hash]}
  memberRows,  \* vault_members: partial function device -> [isMember, keyEpoch]
  invites,     \* invites: partial function invite_id -> row
  claims,      \* invite_claims: set of <<invite_id, device_id>>
  mreq         \* the handler state of each request

memberVars == <<vaults, memberLog, memberHead, memberRows, mreq>>

Zero == <<>>

\* member_hash = SHA256(SignBytesMemberAdd/Remove(...)); genesis zeroes the
\* invite id, a remove has none
MemberHash(m) == <<m.type, m.seq, m.prev, m.actor, m.subject, m.invite>>

Owner == CHOOSE o \in vaults : TRUE
MembershipHead == CHOOSE h \in memberHead : TRUE

\* vaults.IsMember / GetMember(..).IsMember: a missing row is not a member
IsMember(d) == d \in DOMAIN memberRows /\ memberRows[d].isMember

\* prev_hash values a client can send: zero or the hash of a stored event
PrevChoices == {Zero} \cup {memberLog[i].hash : i \in 1..Len(memberLog)}

\* the bodies a client can post.  A genesis body's invite_id is zeroed
\* before hashing and never marked used, so only NoInvite is offered.
Offered ==
  [type: {"member_add"}, seq: {1}, prev: PrevChoices, actor: Devices,
   subject: Devices, invite: {NoInvite}, claimOk: SigChoices, sigOk: SigChoices]
  \cup
  [type: {"member_add"}, seq: 2..MaxMemberSeq, prev: PrevChoices,
   actor: Devices, subject: Devices, invite: InviteIDs, claimOk: SigChoices,
   sigOk: SigChoices]
  \cup
  [type: {"member_remove"}, seq: 1..MaxMemberSeq, prev: PrevChoices,
   actor: Devices, subject: Devices, invite: {NoInvite}, claimOk: {TRUE},
   sigOk: SigChoices]

NoEvent == [type |-> "none", seq |-> 0, prev |-> Zero,
            actor |-> "none", subject |-> "none", invite |-> NoInvite,
            claimOk |-> TRUE, sigOk |-> TRUE]

\* an idle handler.  The response written to the client is not kept: no
\* later step reads it.
Idle == [pc |-> "idle", ev |-> NoEvent]

(***************************************************************************)
(* Validation, the checks after the structural ones in code order.         *)
(***************************************************************************)

\* Variants of the definitions below as a plausible slip would write them;
\* each is used to confirm that a property notices the slip.
\* (prev_hash compared to nothing: only member_seq is checked)
ChainOkSeqOnly(m) == m.seq = MembershipHead.seq + 1

\* the membership head check shared by non-genesis add and remove
ChainOk(m) ==
  /\ m.seq = MembershipHead.seq + 1
  /\ m.prev = MembershipHead.hash

\* (the single_use && used check left out)
ValidateMemberAddNoUsedCheck(m) ==
  IF m.seq = 1
  THEN CASE vaults # {}                                -> "conflict"
         [] m.actor # m.subject                        -> "genesis_actor_mismatch"
         [] m.prev # Zero                              -> "genesis_prev_hash"
         [] ~m.sigOk                                   -> "invalid_signature"
         [] OTHER                                      -> "ok"
  ELSE CASE vaults = {}                                -> "not_found"
         [] m.actor # Owner                            -> "owner_required"
         [] memberHead = {}                            -> "missing_membership_head"
         [] ~ChainOk(m)                                -> "membership_chain_broken"
         [] m.invite \notin DOMAIN invites             -> "not_found"
         [] invites[m.invite].target # m.subject       -> "invite_target_mismatch"
         [] <<m.invite, m.subject>> \notin claims      -> "missing_invite_claim"
         [] ~m.claimOk                                 -> "claim_sig_mismatch"
         [] ~IsMember(m.actor)                         -> "membership_required"
         [] ~m.sigOk                                   -> "invalid_signature"
         [] OTHER                                      -> "ok"

ValidateMemberAdd(m) ==
  IF m.seq = 1
  THEN CASE vaults # {}                                -> "conflict"
         [] m.actor # m.subject                        -> "genesis_actor_mismatch"
         [] m.prev # Zero                              -> "genesis_prev_hash"
         [] ~m.sigOk                                   -> "invalid_signature"
         [] OTHER                                      -> "ok"
  ELSE CASE vaults = {}                                -> "not_found"
         [] m.actor # Owner                            -> "owner_required"
         [] memberHead = {}                            -> "missing_membership_head"
         [] ~ChainOk(m)                                -> "membership_chain_broken"
         [] m.invite \notin DOMAIN invites             -> "not_found"
         [] invites[m.invite].target # m.subject       -> "invite_target_mismatch"
         [] invites[m.invite].singleUse /\ invites[m.invite].used
                                                       -> "invite_already_used"
         [] <<m.invite, m.subject>> \notin claims      -> "missing_invite_claim"
         [] ~m.claimOk                                 -> "claim_sig_mismatch"
         [] ~IsMember(m.actor)                         -> "membership_required"
         [] ~m.sigOk                                   -> "invalid_signature"
         [] OTHER                                      -> "ok"

ValidateMemberRemove(m) ==
  CASE vaults = {}                                   -> "not_found"
    [] m.actor # Owner                               -> "owner_required"
    [] memberHead = {}                               -> "missing_membership_head"
    [] ~ChainOk(m)                                   -> "membership_chain_broken"
    [] ~IsMember(m.subject)                          -> "subject_not_member"
    [] ~IsMember(m.actor)                            -> "membership_required"
    [] ~m.sigOk                                      -> "invalid_signature"
    [] OTHER                                         -> "ok"

Validate(m) ==
  IF m.type = "member_add" THEN ValidateMemberAdd(m) ELSE ValidateMemberRemove(m)

(***************************************************************************)
(* Actions of one request r.  Arrival and validation are one step: the    *)
(* body is parsed without reading state, then the validator reads.        *)
(***************************************************************************)

\* the handler writes its response (an error, internal_error or 201) and
\* returns
Return(r) == mreq' = [mreq EXCEPT ![r] = Idle]

RejectMemberEvent(r) ==
  /\ mreq[r].pc = "idle"
  /\ \E m \in Offered :
       /\ Validate(m) # "ok"
       /\ Return(r)
  /\ UNCHANGED <<vaults, memberLog, memberHead, memberRows, invites, claims>>

\* handlers past validation, each of which may store one more event
InFlight == {r \in Requests : mreq[r].pc # "idle"}

\* a valid genesis goes on to vaults.Create, any other body to the insert;
\* the model admits no body that could store more than MaxMemberEvents rows
AcceptMemberEvent(r) ==
  /\ mreq[r].pc = "idle"
  /\ Len(memberLog) + Cardinality(InFlight) < MaxMemberEvents
  /\ \E m \in Offered :
       /\ Validate(m) = "ok"
       /\ mreq' = [mreq EXCEPT ![r] = [pc |-> IF m.seq = 1 THEN "genesis"
                                                          ELSE "vaultReady",
                                      ev |-> m]]
  /\ UNCHANGED <<vaults, memberLog, memberHead, memberRows, invites, claims>>

\* (INSERT OR REPLACE: a second genesis overwrites the owner)
CreateVaultReplace(r) ==
  /\ mreq[r].pc = "genesis"
  /\ vaults' = {mreq[r].ev.actor}
  /\ mreq' = [mreq EXCEPT ![r].pc = "vaultReady"]
  /\ UNCHANGED <<memberLog, memberHead, memberRows, invites, claims>>

\* vaults.Create: INSERT; the vault_id primary key rejects a second vault
CreateVault(r) ==
  /\ mreq[r].pc = "genesis"
  /\ vaults = {}
  /\ vaults' = {mreq[r].ev.actor}
  /\ mreq' = [mreq EXCEPT ![r].pc = "vaultReady"]
  /\ UNCHANGED <<memberLog, memberHead, memberRows, invites, claims>>

CreateVaultFails(r) ==
  /\ mreq[r].pc = "genesis"
  /\ vaults # {} \/ "vaults.Create" \in FailingCalls
  /\ Return(r)
  /\ UNCHANGED <<vaults, memberLog, memberHead, memberRows, invites, claims>>

\* the member_events row the validator returns for body m
MemberEventRow(m) == [type |-> m.type, seq |-> m.seq, prev |-> m.prev,
                      actor |-> m.actor, subject |-> m.subject,
                      invite |-> m.invite, hash |-> MemberHash(m)]

\* memberEvents.Create: INSERT of the validated row
InsertMemberEvent(r) ==
  LET m == mreq[r].ev IN
  /\ mreq[r].pc = "vaultReady"
  /\ memberLog' = Append(memberLog, MemberEventRow(m))
  /\ mreq' = [mreq EXCEPT ![r].pc = "inserted"]
  /\ UNCHANGED <<vaults, memberHead, memberRows, invites, claims>>

InsertMemberEventFails(r) ==
  /\ mreq[r].pc = "vaultReady"
  /\ "memberEvents.Create" \in FailingCalls
  /\ Return(r)
  /\ UNCHANGED <<vaults, memberLog, memberHead, memberRows, invites, claims>>

\* vaults.UpsertMembershipHead: ON CONFLICT(vault_id) DO UPDATE
UpsertMembershipHead(r) ==
  LET m == mreq[r].ev IN
  /\ mreq[r].pc = "inserted"
  /\ memberHead' = {[seq |-> m.seq, hash |-> MemberHash(m)]}
  /\ mreq' = [mreq EXCEPT ![r].pc = "headed"]
  /\ UNCHANGED <<vaults, memberLog, memberRows, invites, claims>>

UpsertMembershipHeadFails(r) ==
  /\ mreq[r].pc = "inserted"
  /\ "UpsertMembershipHead" \in FailingCalls
  /\ Return(r)
  /\ UNCHANGED <<vaults, memberLog, memberHead, memberRows, invites, claims>>

\* (KeyEpoch not set: the Go zero value 0 is stored)
MemberRowNoEpoch == [isMember |-> TRUE, keyEpoch |-> 0]

\* the vault_members row of an admitted subject: KeyEpoch 1
MemberRow == [isMember |-> TRUE, keyEpoch |-> 1]

\* vaults.UpsertMember (member_add): ON CONFLICT(vault_id, device_id) DO
\* UPDATE, so a re-added device is a member again at key_epoch 1.  A
\* genesis add is then done; any other goes on to MarkUsed.
UpsertMember(r) ==
  LET m == mreq[r].ev IN
  /\ mreq[r].pc = "headed"
  /\ m.type = "member_add"
  /\ memberRows' = (m.subject :> MemberRow) @@ memberRows
  /\ IF m.seq = 1 THEN Return(r) ELSE mreq' = [mreq EXCEPT ![r].pc = "added"]
  /\ UNCHANGED <<vaults, memberLog, memberHead, invites, claims>>

UpsertMemberFails(r) ==
  /\ mreq[r].pc = "headed"
  /\ mreq[r].ev.type = "member_add"
  /\ "UpsertMember" \in FailingCalls
  /\ Return(r)
  /\ UNCHANGED <<vaults, memberLog, memberHead, memberRows, invites, claims>>

\* invites.MarkUsed: UPDATE invites SET used = 1
MarkUsed(r) ==
  LET i == mreq[r].ev.invite IN
  /\ mreq[r].pc = "added"
  /\ invites' = [invites EXCEPT ![i].used = TRUE]
  /\ Return(r)
  /\ UNCHANGED <<vaults, memberLog, memberHead, memberRows, claims>>

\* MarkUsed fails: its error is ignored and the handler answers created
MarkUsedFails(r) ==
  /\ mreq[r].pc = "added"
  /\ "MarkUsed" \in FailingCalls
  /\ Return(r)
  /\ UNCHANGED <<vaults, memberLog, memberHead, memberRows, invites, claims>>

\* (the actor's device id passed instead of the subject's)
SetMemberRemovedActor(r) ==
  LET d == mreq[r].ev.actor IN
  /\ mreq[r].pc = "headed"
  /\ mreq[r].ev.type = "member_remove"
  /\ memberRows' = IF d \in DOMAIN memberRows
                     THEN [memberRows EXCEPT ![d].isMember = FALSE]
                     ELSE memberRows
  /\ Return(r)
  /\ UNCHANGED <<vaults, memberLog, memberHead, invites, claims>>

\* vaults.SetMemberRemoved (member_remove): UPDATE .. SET is_member = 0
SetMemberRemoved(r) ==
  LET d == mreq[r].ev.subject IN
  /\ mreq[r].pc = "headed"
  /\ mreq[r].ev.type = "member_remove"
  /\ memberRows' = IF d \in DOMAIN memberRows
                     THEN [memberRows EXCEPT ![d].isMember = FALSE]
                     ELSE memberRows
  /\ Return(r)
  /\ UNCHANGED <<vaults, memberLog, memberHead, invites, claims>>

SetMemberRemovedFails(r) ==
  /\ mreq[r].pc = "headed"
  /\ mreq[r].ev.type = "member_remove"
  /\ "SetMemberRemoved" \in FailingCalls
  /\ Return(r)
  /\ UNCHANGED <<vaults, memberLog, memberHead, memberRows, invites, claims>>

(***************************************************************************)
(* Specification                                                           *)
(***************************************************************************)

\* a fresh database: no vault; the invite tables start as the caller says
MemberInit ==
  /\ vaults = {}
  /\ memberLog = <<>>
  /\ memberHead = {}
  /\ memberRows = [d \in {} |-> MemberRow]
  /\ mreq = [r \in Requests |-> Idle]

MemberStep(r) ==
  \/ RejectMemberEvent(r)
  \/ AcceptMemberEvent(r)
  \/ CreateVault(r)
  \/ CreateVaultFails(r)
  \/ InsertMemberEvent(r)
  \/ InsertMemberEventFails(r)
  \/ UpsertMembershipHead(r)
  \/ UpsertMembershipHeadFails(r)
  \/ UpsertMember(r)
  \/ UpsertMemberFails(r)
  \/ MarkUsed(r)
  \/ MarkUsedFails(r)
  \/ SetMemberRemoved(r)
  \/ SetMemberRemovedFails(r)

MemberNext == \E r \in Requests : MemberStep(r)

====
