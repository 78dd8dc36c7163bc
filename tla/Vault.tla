------------------------------- MODULE Vault -------------------------------
(***************************************************************************)
(* One vault's membership, events, invites, key updates and snapshots,   *)
(* and the device registry.  They share the tables: member_add reads the invite    *)
(* and its claim and marks the invite used; invite creation reads the      *)
(* vault and the creator's membership; a claim reads the devices table;    *)
(* key updates and snapshots read the membership head and vault_members;  *)
(* an event post reads the vaults row and the author's vault_members row.  *)
(* Handlers of every kind run concurrently and interleave storage call by  *)
(* storage call.                                                           *)
(***************************************************************************)
EXTENDS Naturals, Sequences, FiniteSets, TLC

CONSTANTS
  Devices, InviteIDs, NoInvite, Nonces,
  MemberRequests,  \* handleMemberEventCreate goroutines
  InviteRequests,  \* handleInviteCreate / handleInviteClaim goroutines
  MaxMemberSeq, MaxMemberEvents, SigChoices,
  KeyRequests,     \* handleKeyUpdateCreate / handleKeyUpdateAck goroutines
  SnapshotRequests,\* handleSnapshotCreate goroutines
  KeyEpochs, SnapshotIDs, BaseSeqs,
  MemberFailingCalls, \* storage calls of member-event handlers that may fail
  InviteFailingCalls, \* storage calls of invite handlers that may fail
  KeyFailingCalls,    \* storage calls of key-update handlers that may fail
  SnapshotFailingCalls,\* storage calls of snapshot handlers that may fail
  Contents, InitialDevices,
  DeviceRequests,     \* handleDeviceRegister goroutines
  DeviceFailingCalls, \* storage calls of device registration that may fail
  EventRequests,      \* handleEventCreate goroutines
  EventIDs, MaxCounter,
  EventStorageFaults  \* TRUE: events.Create / UpsertEventHead may fail

VARIABLES vaults, memberLog, memberHead, memberRows, invites, claims,
          usedNonces, mreq, ireq, keyUpdates, acks, kreq,
          snapshots, pruned, pruneJobs, sreq, devices, dreq,
          log, eventHeads, req

vars == <<vaults, memberLog, memberHead, memberRows, invites, claims,
          usedNonces, mreq, ireq, keyUpdates, acks, kreq,
          snapshots, pruned, pruneJobs, sreq, devices, dreq, log, eventHeads, req>>

M == INSTANCE Membership WITH Requests <- MemberRequests,
                              FailingCalls <- MemberFailingCalls
I == INSTANCE Invites WITH Requests <- InviteRequests,
                           FailingCalls <- InviteFailingCalls
K == INSTANCE KeyUpdates WITH Requests <- KeyRequests,
                              FailingCalls <- KeyFailingCalls
S == INSTANCE Snapshots WITH Requests <- SnapshotRequests,
                             FailingCalls <- SnapshotFailingCalls
\* EventChain reads is_member and the vaults row; here they are the tables
\* Membership writes
IsMemberFn == [d \in Devices |-> d \in DOMAIN memberRows /\ memberRows[d].isMember]
E == INSTANCE EventChain WITH isMember <- IsMemberFn,
                              vaultExists <- (vaults # {}),
                              InitialMembers <- {},
                              Requests <- EventRequests,
                              StorageFaults <- EventStorageFaults
D == INSTANCE Devices WITH Requests <- DeviceRequests,
                           FailingCalls <- DeviceFailingCalls

keyVars == <<keyUpdates, acks, kreq>>
snapVars == <<snapshots, pruned, pruneJobs, sreq>>
deviceVars == <<devices, dreq>>
eventVars == <<log, eventHeads, req>>

\* the events tables start empty, every event handler idle
EventInit ==
  /\ log = <<>>
  /\ eventHeads = [d \in {} |-> [lastCounter |-> 0, lastHash |-> E!Zero]]
  /\ req = [r \in EventRequests |-> E!Idle]

Init == M!MemberInit /\ I!InviteInit /\ K!KeyInit /\ S!SnapInit /\ D!DeviceInit
        /\ EventInit

Next ==
  \/ M!MemberNext /\ UNCHANGED <<usedNonces, ireq>> /\ UNCHANGED keyVars
                  /\ UNCHANGED snapVars /\ UNCHANGED deviceVars /\ UNCHANGED eventVars
  \/ I!InviteNext /\ UNCHANGED <<memberLog, memberHead, mreq, dreq>>
                  /\ UNCHANGED keyVars /\ UNCHANGED snapVars /\ UNCHANGED eventVars
  \/ K!KeyNext /\ UNCHANGED <<invites, claims, mreq, ireq>> /\ UNCHANGED snapVars
               /\ UNCHANGED deviceVars /\ UNCHANGED eventVars
  \/ S!SnapNext /\ UNCHANGED <<invites, claims, mreq, ireq>> /\ UNCHANGED keyVars
                /\ UNCHANGED deviceVars /\ UNCHANGED eventVars
  \/ D!DeviceNext /\ UNCHANGED <<vaults, memberLog, memberHead, memberRows, invites,
                                  claims, usedNonces, mreq, ireq>>
                  /\ UNCHANGED keyVars /\ UNCHANGED snapVars /\ UNCHANGED eventVars
  \/ /\ UNCHANGED <<vaults, memberLog, memberHead, memberRows, invites,
                    claims, usedNonces, mreq, ireq>>
     /\ UNCHANGED keyVars /\ UNCHANGED snapVars /\ UNCHANGED deviceVars
     /\ E!Next   \* after the tables it reads are fixed

Spec == Init /\ [][Next]_vars

\* Every handler goroutine, once it has admitted a snapshot, keeps running
\* until it returns, and a started PruneOld goroutine runs: the Go
\* scheduler runs every runnable goroutine.  New requests need not arrive.
SnapshotInFlight(r) ==
  /\ S!SnapInFlight(r)
  /\ UNCHANGED <<vaults, memberLog, memberHead, invites, claims, mreq, ireq>>
  /\ UNCHANGED keyVars /\ UNCHANGED deviceVars /\ UNCHANGED eventVars
FairSpec == Spec /\ \A r \in SnapshotRequests : WF_vars(SnapshotInFlight(r))

(***************************************************************************)
(* Invariants                                                              *)
(***************************************************************************)

AllIdle ==
  /\ \A r \in MemberRequests : mreq[r].pc = "idle"
  /\ \A r \in InviteRequests : ireq[r].pc = "idle"
  /\ \A r \in KeyRequests : kreq[r].pc = "idle"
  /\ \A r \in SnapshotRequests : sreq[r].pc = "idle"
  /\ \A r \in DeviceRequests : dreq[r].pc \in {"idle", "done"}
  /\ \A r \in EventRequests : req[r].pc = "idle"

TypeOK ==
  /\ vaults \subseteq Devices /\ Cardinality(vaults) <= 1
  /\ \A i \in 1..Len(memberLog) :
       /\ memberLog[i].type \in {"member_add", "member_remove"}
       /\ memberLog[i].seq \in 1..MaxMemberSeq
       /\ {memberLog[i].actor, memberLog[i].subject} \subseteq Devices
       /\ memberLog[i].invite \in InviteIDs \cup {NoInvite}
  /\ Cardinality(memberHead) <= 1
  /\ DOMAIN memberRows \subseteq Devices
  /\ \A d \in DOMAIN memberRows :
       memberRows[d].isMember \in BOOLEAN /\ memberRows[d].keyEpoch >= 1
  /\ DOMAIN invites \subseteq InviteIDs
  /\ claims \subseteq InviteIDs \X Devices
  /\ usedNonces \subseteq {"invite", "key_update", "snapshot"} \X Devices \X Nonces
  /\ \A k \in keyUpdates : k.epoch \in KeyEpochs /\ {k.target, k.creator} \subseteq Devices
  /\ acks \subseteq KeyEpochs \X Devices
  /\ \A s \in snapshots : s.id \in SnapshotIDs /\ s.baseSeq \in BaseSeqs
  /\ pruned \subseteq SnapshotIDs \X BaseSeqs
  /\ \A r \in SnapshotRequests : pruneJobs[r] \in {"none", "live", "cancelled"}
  /\ \A r \in KeyRequests : kreq[r].pc \in
       {"idle", "validated", "nonceRecorded", "ackValidated", "acked"}
  /\ \A r \in SnapshotRequests : sreq[r].pc \in
       {"idle", "validated", "nonceRecorded", "created"}
  /\ \A i \in 1..Len(log) : log[i].dev \in Devices /\ log[i].counter \in 1..MaxCounter
  /\ \A r \in EventRequests : req[r].pc \in {"idle", "received", "validated", "inserted"}
  /\ DOMAIN devices \subseteq Devices
  /\ \A d \in DOMAIN devices : devices[d] \in Contents
  /\ \A r \in DeviceRequests :
       /\ dreq[r].pc \in {"idle", "checked", "absent", "done"}
       /\ dreq[r].resp \in {"none", "200", "201", "400", "409", "500"}
  /\ \A r \in MemberRequests : mreq[r].pc \in
       {"idle", "genesis", "vaultReady", "inserted", "headed", "added"}
  /\ \A r \in InviteRequests : ireq[r].pc \in
       {"idle", "validated", "nonceRecorded", "claimValidated"}

(* Spec section 8, invariant 2: every stored member event is the genesis   *)
(* (member_seq 1, zero prev_hash, actor = subject) or follows an earlier   *)
(* stored event: its prev_hash is that event's member_hash and its         *)
(* member_seq one more.  Holds because the head is upserted only after     *)
(* memberEvents.Create succeeded, whatever else interleaves or fails.      *)
MemberChainLinked ==
  \A i \in 1..Len(memberLog) :
    \/ /\ memberLog[i].seq = 1 /\ memberLog[i].prev = M!Zero
       /\ memberLog[i].type = "member_add"
       /\ memberLog[i].actor = memberLog[i].subject
    \/ \E j \in 1..(i - 1) :
         /\ memberLog[j].hash = memberLog[i].prev
         /\ memberLog[j].seq + 1 = memberLog[i].seq

(* Spec section 3 (c): every member event is authored by the vault's      *)
(* owner.  Two concurrent genesis requests both pass the "vault must not   *)
(* exist" check; only the vaults primary key keeps the loser from          *)
(* becoming owner or writing its genesis event.                            *)
OnlyOwnerAuthors ==
  \A i \in 1..Len(memberLog) : memberLog[i].actor \in vaults

(* Spec section 8, invariant 2: the membership log is one linear chain:   *)
(* no two stored member events share a member_seq.                         *)
MemberSeqsUnique ==
  \A i, j \in 1..Len(memberLog) :
    i # j => memberLog[i].seq # memberLog[j].seq

(* Spec section 3: the vault is created atomically with its genesis        *)
(* member_add.  When no request is in flight, a vault that exists has a    *)
(* membership head, without which every later member_add, key update and  *)
(* snapshot is refused (missing_membership_head) and genesis is refused    *)
(* (conflict): the vault could never be used.                              *)
VaultHasHead ==
  AllIdle => (vaults # {} => memberHead # {})

\* index of the last member event about device d (0 if none)
LastAbout(d) ==
  LET idx == {i \in 1..Len(memberLog) : memberLog[i].subject = d} IN
  IF idx = {} THEN 0 ELSE CHOOSE i \in idx : \A j \in idx : j <= i

(* When no request is in flight, vault_members agrees with the membership  *)
(* log: a device is a member exactly when the last member event about it   *)
(* is a member_add.  Clients rebuild membership from the log               *)
(* (GET /member-events); the server authorises from vault_members.        *)
MembersMatchLog ==
  AllIdle =>
    \A d \in Devices :
      M!IsMember(d) <=>
        (LastAbout(d) # 0 /\ memberLog[LastAbout(d)].type = "member_add")

(* A single-use invite admits its target at most once: at most one stored *)
(* member_add names it.  The spec (section 9) accepts ignoring the error   *)
(* of MarkUsed because double admission is blocked anyway.                *)
SingleUseInviteAdmitsOnce ==
  \A i \in DOMAIN invites :
    invites[i].singleUse =>
      Cardinality({j \in 1..Len(memberLog) :
                     memberLog[j].type = "member_add" /\ memberLog[j].invite = i})
        <= 1

\* the nonce-bearing rows stored: invites, key updates and snapshots, each
\* with the used_nonces scope its handler records the nonce under
NonceRows ==
  {[type |-> "invite", row |-> i, creator |-> invites[i].creator,
    nonce |-> invites[i].nonce] : i \in DOMAIN invites}
  \cup {[type |-> "key_update", row |-> k, creator |-> k.creator,
         nonce |-> k.nonce] : k \in keyUpdates}
  \cup {[type |-> "snapshot", row |-> s.id, creator |-> s.creator,
         nonce |-> s.nonce] : s \in snapshots}

(* Every stored invite, key update and snapshot has its nonce in           *)
(* used_nonces, so no later request of the same creator can reuse it: each *)
(* handler records the nonce before it inserts the row, and a failed       *)
(* insert leaves only the recorded nonce behind.                           *)
NoncesRecorded ==
  \A n \in NonceRows : <<n.type, n.creator, n.nonce>> \in usedNonces

(* Spec section 8, invariant 4: no two stored rows of one nonce scope      *)
(* (invite, key_update, snapshot) share (creator, nonce).                  *)
StoredNoncesUnique ==
  \A n1, n2 \in NonceRows :
    (n1.type = n2.type /\ n1.row # n2.row /\ n1.creator = n2.creator)
      => n1.nonce # n2.nonce

(* Spec section 3: key_epoch starts at 1 and is advanced only by a         *)
(* key_update_ack from that device.  So a member row whose key_epoch is    *)
(* not 1 has a stored ack of that epoch by that device: handleKeyUpdateAck *)
(* stores the ack before it updates the row, and a re-add resets it to 1.  *)
KeyEpochAcked ==
  \A d \in DOMAIN memberRows :
    memberRows[d].keyEpoch # 1 => <<memberRows[d].keyEpoch, d>> \in acks

(* PruneOld keeps the latest three snapshots by base_seq.  A snapshot it  *)
(* deleted always has at least three retained snapshots of base_seq no     *)
(* lower, whichever deletes and inserts interleave, so GET .../latest      *)
(* never loses the newest snapshot.                                        *)
PrunedHadKeepNewer ==
  \A p \in pruned :
    Cardinality({s \in snapshots : s.baseSeq >= p[2]}) >= S!KeepCount

(* Spec section 3: only the latest N (3) snapshots per vault are retained; *)
(* section 9: pruning is a bounded background task.  Whenever more than    *)
(* three are stored, the PruneOld goroutines eventually bring them back to *)
(* three.                                                                   *)
SnapshotsPruned ==
  (Cardinality(snapshots) > S!KeepCount) ~> (Cardinality(snapshots) <= S!KeepCount)

(* Spec section 8, invariant 5: re-registering a device_id answers 200     *)
(* only with the identical triple, and any differing field answers 409.    *)
(* So whenever handleDeviceRegister last answered 200 or 201, the stored   *)
(* row of that device_id is the bundle it answered with: a client told     *)
(* its bundle is registered can rely on the server holding exactly it.     *)
DeviceAnswerMatchesStored ==
  \A r \in DeviceRequests :
    dreq[r].resp \in {"200", "201"} =>
      /\ dreq[r].body.id \in DOMAIN devices
      /\ devices[dreq[r].body.id] = dreq[r].body.content

(* Spec section 4 (ValidateInviteClaim): the claiming device is            *)
(* registered.  Every stored invite claim names a registered device, so   *)
(* the claim_sig a member_add later compares was verified with that        *)
(* device's pubkey_sign, whatever registrations race with the claim.      *)
ClaimsByRegistered ==
  \A c \in claims : c[2] \in DOMAIN devices
(* Spec section 3: the author of an event must be a member of the vault.  *)
(* So every stored event's device has a vault_members row: it was         *)
(* admitted by a member_add at some point, though it may have been         *)
(* removed since (rows are never deleted).                                 *)
EventAuthorsAdmitted ==
  \A i \in 1..Len(log) : log[i].dev \in DOMAIN memberRows

(* Spec section 3: is_member turns true on member_add and false on       *)
(* member_remove.  Whenever a step changes whether a device is a member,   *)
(* the log already holds a member event about that device of the matching *)
(* type: the handler inserts the event before it writes the row, so a      *)
(* failure between the two leaves the log ahead of vault_members, never    *)
(* behind it.  (That event need not be the last one about the device:     *)
(* the row writes of concurrent handlers land in any order.)               *)
MemberChangeLogged ==
  [][\A d \in Devices :
       M!IsMember(d)' # M!IsMember(d) =>
         \E i \in 1..Len(memberLog') :
           /\ memberLog'[i].subject = d
           /\ memberLog'[i].type = IF M!IsMember(d)' THEN "member_add"
                                                    ELSE "member_remove"]_vars

(* Spec section 4: an event's author and a key update's target must be   *)
(* current members, and section 5 requires the reads that authorise a      *)
(* membership-bound write to be atomic with the write.  So whenever an    *)
(* event row or a key_updates row is inserted, its author (event) or its   *)
(* target (key update) is a member at that moment: no event of a device    *)
(* removed by a committed member_remove is stored, and no new vault key is *)
(* wrapped for it.                                                         *)
WritesByCurrentMembers ==
  [][/\ \A i \in (Len(log) + 1)..Len(log') : M!IsMember(log'[i].dev)
     /\ \A k \in keyUpdates' \ keyUpdates : M!IsMember(k.target)]_vars
====
