----------------------------- MODULE KeyUpdates -----------------------------
(***************************************************************************)
(* Key updates and their acknowledgements in one vault:                    *)
(*   POST /v1/vaults/{vault_id}/key_updates = handleKeyUpdateCreate:       *)
(*     KeyUpdatesValidator.ValidateKeyUpdate (reads), then                 *)
(*     invites.RecordNonceUsed("key_update", ..) (ON CONFLICT DO NOTHING), *)
(*     then keyUpdates.Create (INSERT);                                    *)
(*   POST /v1/vaults/{vault_id}/key_update_acks = handleKeyUpdateAck:      *)
(*     ValidateKeyUpdateAck (reads), then keyUpdates.CreateAck (ON         *)
(*     CONFLICT(vault, key_epoch, device) DO NOTHING), then                *)
(*     vaults.UpdateMemberKeyEpoch.                                        *)
(* Both bind to the membership head: the validator compares the body's     *)
(* (member_seq, member_head_hash) with vault_membership_heads.  The head,  *)
(* the log and vault_members are written by Membership, concurrently.      *)
(* The schema is not in the repository; the key of key_updates,           *)
(* (vault_id, key_epoch, target_device_id), is the one spec.md gives.      *)
(***************************************************************************)
EXTENDS Naturals, Sequences, FiniteSets, TLC

CONSTANTS
  Devices,        \* device_id values (model values), all registered
  Nonces,         \* 24-byte nonces clients may send
  KeyEpochs,      \* key_epoch values a client sends
  Requests,       \* concurrently running key-update / ack handlers
  SigChoices,     \* outcomes of a signature check a client can produce
  FailingCalls    \* the storage calls that may fail (busy, deadline, crash)

ASSUME SigChoices \subseteq BOOLEAN /\ TRUE \in SigChoices
ASSUME FailingCalls \subseteq {"RecordNonceUsed", "keyUpdates.Create",
                               "CreateAck", "UpdateMemberKeyEpoch"}

VARIABLES
  vaults,      \* owner_device_id of the vaults row: {} or {owner}
  memberLog,   \* member_events rows (read for the heads a client can hold)
  memberHead,  \* vault_membership_heads row: {} or {[seq, hash]}
  memberRows,  \* vault_members: partial function device -> [isMember, keyEpoch]
  usedNonces,  \* used_nonces: set of <<nonce_type, creator, nonce>>
  keyUpdates,  \* key_updates rows: set of records
  acks,        \* key_update_acks: set of <<key_epoch, device_id>>
  kreq         \* the handler state of each request

keyVars == <<keyUpdates, acks, kreq>>

Owner == CHOOSE o \in vaults : TRUE
MembershipHead == CHOOSE h \in memberHead : TRUE
IsMember(d) == d \in DOMAIN memberRows /\ memberRows[d].isMember

\* (member_seq, member_head_hash) pairs a client can have seen
HeadChoices == {[seq |-> memberLog[i].seq, hash |-> memberLog[i].hash] :
                  i \in 1..Len(memberLog)}

KeyUpdatesOffered ==
  [kind: {"key_update"}, creator: Devices, target: Devices, epoch: KeyEpochs,
   nonce: Nonces, head: HeadChoices, sigOk: SigChoices]
AcksOffered ==
  [kind: {"ack"}, device: Devices, epoch: KeyEpochs, head: HeadChoices,
   sigOk: SigChoices]

\* an idle handler; its response is not kept, no later step reads it
KIdle == [pc |-> "idle", body |-> [kind |-> "none"]]

(***************************************************************************)
(* Validation, the checks after the structural ones in code order.         *)
(***************************************************************************)

\* GetMembershipHead compared with the body's member_seq and hash
HeadMismatch(b) ==
  CASE memberHead = {}                    -> "missing_membership_head"
    [] b.head.seq # MembershipHead.seq    -> "member_seq_mismatch"
    [] b.head.hash # MembershipHead.hash  -> "member_head_hash_mismatch"
    [] OTHER                              -> "ok"

\* key_updates.CheckExists(vault, key_epoch, target)
KeyUpdateExists(b) ==
  \E k \in keyUpdates : k.epoch = b.epoch /\ k.target = b.target

\* Variants of the definitions below as a plausible slip would write them;
\* each is used to confirm that a property notices the slip.
ValidateKeyUpdate(b) ==
  CASE vaults = {}                        -> "not_found"
    [] b.creator # Owner                  -> "owner_required"
    [] ~IsMember(b.creator)               -> "membership_required"
    [] ~IsMember(b.target)                -> "target_not_member"
    [] HeadMismatch(b) # "ok"             -> HeadMismatch(b)
    [] KeyUpdateExists(b)                 -> "conflict"
    [] <<"key_update", b.creator, b.nonce>> \in usedNonces
                                          -> "nonce_reused"
    [] ~b.sigOk                           -> "invalid_signature"
    [] OTHER                              -> "ok"

ValidateKeyUpdateAck(b) ==
  CASE ~IsMember(b.device)                -> "membership_required"
    [] HeadMismatch(b) # "ok"             -> HeadMismatch(b)
    [] ~b.sigOk                           -> "invalid_signature"
    [] OTHER                              -> "ok"

(***************************************************************************)
(* Actions of one request r                                                *)
(***************************************************************************)

KReturn(r) == kreq' = [kreq EXCEPT ![r] = KIdle]

RejectKeyUpdate(r) ==
  /\ kreq[r].pc = "idle"
  /\ \E b \in KeyUpdatesOffered : ValidateKeyUpdate(b) # "ok" /\ KReturn(r)
  /\ UNCHANGED <<memberRows, usedNonces, keyUpdates, acks>>

\* (RecordNonceUsed not called: straight on to keyUpdates.Create)
AcceptKeyUpdateSkipRecord(r) ==
  /\ kreq[r].pc = "idle"
  /\ \E b \in KeyUpdatesOffered :
       /\ ValidateKeyUpdate(b) = "ok"
       /\ kreq' = [kreq EXCEPT ![r] = [pc |-> "nonceRecorded", body |-> b]]
  /\ UNCHANGED <<memberRows, usedNonces, keyUpdates, acks>>

AcceptKeyUpdate(r) ==
  /\ kreq[r].pc = "idle"
  /\ \E b \in KeyUpdatesOffered :
       /\ ValidateKeyUpdate(b) = "ok"
       /\ kreq' = [kreq EXCEPT ![r] = [pc |-> "validated", body |-> b]]
  /\ UNCHANGED <<memberRows, usedNonces, keyUpdates, acks>>

RecordKeyUpdateNonce(r) ==
  LET b == kreq[r].body IN
  /\ kreq[r].pc = "validated"
  /\ usedNonces' = usedNonces \cup {<<"key_update", b.creator, b.nonce>>}
  /\ kreq' = [kreq EXCEPT ![r].pc = "nonceRecorded"]
  /\ UNCHANGED <<memberRows, keyUpdates, acks>>

RecordKeyUpdateNonceFails(r) ==
  /\ kreq[r].pc = "validated"
  /\ "RecordNonceUsed" \in FailingCalls
  /\ KReturn(r)
  /\ UNCHANGED <<memberRows, usedNonces, keyUpdates, acks>>

\* the key_updates row of body b, with the head it was validated against
KeyUpdateRow(b) == [epoch |-> b.epoch, target |-> b.target,
                    creator |-> b.creator, nonce |-> b.nonce, seq |-> b.head.seq]

\* keyUpdates.Create: a plain INSERT; the (key_epoch, target) key rejects
\* a row that a concurrent request stored since CheckExists
CreateKeyUpdate(r) ==
  LET b == kreq[r].body IN
  /\ kreq[r].pc = "nonceRecorded"
  /\ ~KeyUpdateExists(b)
  /\ keyUpdates' = keyUpdates \cup {KeyUpdateRow(b)}
  /\ KReturn(r)
  /\ UNCHANGED <<memberRows, usedNonces, acks>>

CreateKeyUpdateFails(r) ==
  /\ kreq[r].pc = "nonceRecorded"
  /\ KeyUpdateExists(kreq[r].body) \/ "keyUpdates.Create" \in FailingCalls
  /\ KReturn(r)
  /\ UNCHANGED <<memberRows, usedNonces, keyUpdates, acks>>

RejectAck(r) ==
  /\ kreq[r].pc = "idle"
  /\ \E b \in AcksOffered : ValidateKeyUpdateAck(b) # "ok" /\ KReturn(r)
  /\ UNCHANGED <<memberRows, usedNonces, keyUpdates, acks>>

\* (CreateAck not called: straight on to UpdateMemberKeyEpoch)
AcceptAckSkipCreate(r) ==
  /\ kreq[r].pc = "idle"
  /\ \E b \in AcksOffered :
       /\ ValidateKeyUpdateAck(b) = "ok"
       /\ kreq' = [kreq EXCEPT ![r] = [pc |-> "acked", body |-> b]]
  /\ UNCHANGED <<memberRows, usedNonces, keyUpdates, acks>>

AcceptAck(r) ==
  /\ kreq[r].pc = "idle"
  /\ \E b \in AcksOffered :
       /\ ValidateKeyUpdateAck(b) = "ok"
       /\ kreq' = [kreq EXCEPT ![r] = [pc |-> "ackValidated", body |-> b]]
  /\ UNCHANGED <<memberRows, usedNonces, keyUpdates, acks>>

\* CreateAck: ON CONFLICT DO NOTHING, so a repeated ack is no error
CreateAck(r) ==
  LET b == kreq[r].body IN
  /\ kreq[r].pc = "ackValidated"
  /\ acks' = acks \cup {<<b.epoch, b.device>>}
  /\ kreq' = [kreq EXCEPT ![r].pc = "acked"]
  /\ UNCHANGED <<memberRows, usedNonces, keyUpdates>>

CreateAckFails(r) ==
  /\ kreq[r].pc = "ackValidated"
  /\ "CreateAck" \in FailingCalls
  /\ KReturn(r)
  /\ UNCHANGED <<memberRows, usedNonces, keyUpdates, acks>>

\* UPDATE vault_members SET key_epoch = ?: no row, nothing updated
UpdateMemberKeyEpoch(r) ==
  LET b == kreq[r].body IN
  /\ kreq[r].pc = "acked"
  /\ memberRows' = IF b.device \in DOMAIN memberRows
                   THEN [memberRows EXCEPT ![b.device].keyEpoch = b.epoch]
                   ELSE memberRows
  /\ KReturn(r)
  /\ UNCHANGED <<usedNonces, keyUpdates, acks>>

UpdateMemberKeyEpochFails(r) ==
  /\ kreq[r].pc = "acked"
  /\ "UpdateMemberKeyEpoch" \in FailingCalls
  /\ KReturn(r)
  /\ UNCHANGED <<memberRows, usedNonces, keyUpdates, acks>>

(***************************************************************************)
(* Specification                                                           *)
(***************************************************************************)

KeyInit ==
  /\ keyUpdates = {}
  /\ acks = {}
  /\ kreq = [r \in Requests |-> KIdle]

KeyStep(r) ==
  \/ RejectKeyUpdate(r)
  \/ AcceptKeyUpdate(r)
  \/ RecordKeyUpdateNonce(r)
  \/ RecordKeyUpdateNonceFails(r)
  \/ CreateKeyUpdate(r)
  \/ CreateKeyUpdateFails(r)
  \/ RejectAck(r)
  \/ AcceptAck(r)
  \/ CreateAck(r)
  \/ CreateAckFails(r)
  \/ UpdateMemberKeyEpoch(r)
  \/ UpdateMemberKeyEpochFails(r)

KeyNext == \E r \in Requests : KeyStep(r) /\ UNCHANGED <<vaults, memberLog, memberHead>>
====
