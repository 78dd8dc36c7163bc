------------------------------ MODULE Snapshots ------------------------------
(***************************************************************************)
(* Snapshots of one vault:                                                 *)
(*   POST /v1/vaults/{vault_id}/snapshots = handleSnapshotCreate:          *)
(*     SnapshotsValidator.ValidateSnapshot (reads), then                   *)
(*     invites.RecordNonceUsed("snapshot", ..) (ON CONFLICT DO NOTHING),   *)
(*     then snapshots.Create (INSERT, snapshot_id primary key), then it    *)
(*     starts a goroutine running snapshots.PruneOld(ctx, vault, 3), then  *)
(*     writes 201 and returns.                                             *)
(* ctx is the request's context, which TimeoutMiddleware cancels (defer    *)
(* cancel()) when the handler returns; a PruneOld that starts after that   *)
(* fails with context.Canceled and changes nothing, so a goroutine whose   *)
(* handler has returned is dropped.  The DELETE is one atomic statement.   *)
(* snapshot_ids and nonces are interchangeable values, so of the unused    *)
(* ones a client posts the first: all lead to states equal up to renaming. *)
(***************************************************************************)
EXTENDS Naturals, Sequences, FiniteSets, TLC

CONSTANTS
  Devices,        \* device_id values (model values), all registered
  Nonces,         \* 24-byte nonces clients may send
  SnapshotIDs,    \* snapshot_id UUIDs clients may send
  BaseSeqs,       \* base_seq values clients may send
  Requests,       \* concurrently running snapshot handlers
  SigChoices,     \* outcomes of a signature check a client can produce
  FailingCalls    \* the storage calls that may fail (busy, deadline, crash)

ASSUME SigChoices \subseteq BOOLEAN /\ TRUE \in SigChoices
ASSUME BaseSeqs \subseteq Nat
ASSUME FailingCalls \subseteq {"RecordNonceUsed", "snapshots.Create", "PruneOld"}

VARIABLES
  vaults,      \* owner_device_id of the vaults row: {} or {owner}
  memberLog,   \* member_events rows (read for the heads a client can hold)
  memberHead,  \* vault_membership_heads row: {} or {[seq, hash]}
  memberRows,  \* vault_members: partial function device -> [isMember, keyEpoch]
  usedNonces,  \* used_nonces: set of <<nonce_type, creator, nonce>>
  snapshots,   \* snapshots rows: set of records
  pruned,      \* history: <<snapshot_id, base_seq>> of rows PruneOld deleted
  pruneJobs,   \* the PruneOld goroutine of each request: "none", or
               \* "live" while its handler has not returned
  sreq         \* the handler state of each request

snapVars == <<snapshots, pruned, pruneJobs, sreq>>

\* the keepCount handleSnapshotCreate passes to PruneOld
KeepCount == 3

Owner == CHOOSE o \in vaults : TRUE
MembershipHead == CHOOSE h \in memberHead : TRUE
IsMember(d) == d \in DOMAIN memberRows /\ memberRows[d].isMember

HeadChoices == {[seq |-> memberLog[i].seq, hash |-> memberLog[i].hash] :
                  i \in 1..Len(memberLog)}

\* The snapshot_ids and nonces a running request carries.  A client
\* draws a new random snapshot_id, or sends one a running request carries
\* (the insert of one of the two fails); it sends a new nonce or one
\* already used (refused as nonce_reused).
Busy == {r \in Requests : sreq[r].pc # "idle"}
SeenIDs == {sreq[r].body.id : r \in Busy}
UsedIDs == SeenIDs \cup {s.id : s \in snapshots} \cup {p[1] : p \in pruned}
SeenNonces == {sreq[r].body.nonce : r \in Busy}
UsedSnapshotNonces == {u[3] : u \in {v \in usedNonces : v[1] = "snapshot"}}

\* the given values, and the first value not yet used
NewOr(given, used, all) ==
  given \cup (IF all \subseteq used THEN {} ELSE {CHOOSE v \in all \ used : TRUE})

SnapshotsOffered ==
  [id: NewOr(SeenIDs, UsedIDs, SnapshotIDs), creator: Devices,
   baseSeq: BaseSeqs,
   nonce: NewOr(SeenNonces \cup UsedSnapshotNonces,
                SeenNonces \cup UsedSnapshotNonces, Nonces),
   head: HeadChoices, sigOk: SigChoices]

SIdle == [pc |-> "idle", body |-> [id |-> "none"]]

\* Variants of the definitions below as a plausible slip would write them;
\* each is used to confirm that a property notices the slip.
ValidateSnapshot(b) ==
  CASE vaults = {}                          -> "not_found"
    [] b.creator # Owner                    -> "owner_required"
    [] ~IsMember(b.creator)                 -> "membership_required"
    [] memberHead = {}                      -> "missing_membership_head"
    [] b.head.seq # MembershipHead.seq      -> "member_seq_mismatch"
    [] b.head.hash # MembershipHead.hash    -> "member_head_hash_mismatch"
    [] <<"snapshot", b.creator, b.nonce>> \in usedNonces
                                            -> "nonce_reused"
    [] ~b.sigOk                             -> "invalid_signature"
    [] OTHER                                -> "ok"

SReturn(r) == sreq' = [sreq EXCEPT ![r] = SIdle]

RejectSnapshot(r) ==
  /\ sreq[r].pc = "idle"
  /\ \E b \in SnapshotsOffered : ValidateSnapshot(b) # "ok" /\ SReturn(r)
  /\ UNCHANGED <<memberRows, usedNonces, snapshots, pruned, pruneJobs>>

\* (RecordNonceUsed not called: straight on to snapshots.Create)
AcceptSnapshotSkipRecord(r) ==
  /\ sreq[r].pc = "idle"
  /\ \E b \in SnapshotsOffered :
       /\ ValidateSnapshot(b) = "ok"
       /\ sreq' = [sreq EXCEPT ![r] = [pc |-> "nonceRecorded", body |-> b]]
  /\ UNCHANGED <<memberRows, usedNonces, snapshots, pruned, pruneJobs>>

AcceptSnapshot(r) ==
  /\ sreq[r].pc = "idle"
  /\ \E b \in SnapshotsOffered :
       /\ ValidateSnapshot(b) = "ok"
       /\ sreq' = [sreq EXCEPT ![r] = [pc |-> "validated", body |-> b]]
  /\ UNCHANGED <<memberRows, usedNonces, snapshots, pruned, pruneJobs>>

RecordSnapshotNonce(r) ==
  LET b == sreq[r].body IN
  /\ sreq[r].pc = "validated"
  /\ usedNonces' = usedNonces \cup {<<"snapshot", b.creator, b.nonce>>}
  /\ sreq' = [sreq EXCEPT ![r].pc = "nonceRecorded"]
  /\ UNCHANGED <<memberRows, snapshots, pruned, pruneJobs>>

RecordSnapshotNonceFails(r) ==
  /\ sreq[r].pc = "validated"
  /\ "RecordNonceUsed" \in FailingCalls
  /\ SReturn(r)
  /\ UNCHANGED <<memberRows, usedNonces, snapshots, pruned, pruneJobs>>

SnapshotRow(b) == [id |-> b.id, baseSeq |-> b.baseSeq, creator |-> b.creator,
                   nonce |-> b.nonce, seq |-> b.head.seq]

SnapshotIDTaken(b) == \E s \in snapshots : s.id = b.id

\* snapshots.Create, then `go PruneOld(ctx, vaultID, 3)` with the live ctx
CreateSnapshot(r) ==
  LET b == sreq[r].body IN
  /\ sreq[r].pc = "nonceRecorded"
  /\ ~SnapshotIDTaken(b)
  /\ snapshots' = snapshots \cup {SnapshotRow(b)}
  /\ pruneJobs' = [pruneJobs EXCEPT ![r] = "live"]
  /\ sreq' = [sreq EXCEPT ![r].pc = "created"]
  /\ UNCHANGED <<memberRows, usedNonces, pruned>>

CreateSnapshotFails(r) ==
  /\ sreq[r].pc = "nonceRecorded"
  /\ SnapshotIDTaken(sreq[r].body) \/ "snapshots.Create" \in FailingCalls
  /\ SReturn(r)
  /\ UNCHANGED <<memberRows, usedNonces, snapshots, pruned, pruneJobs>>

\* writeJSON(201) and return: the deferred cancel() of TimeoutMiddleware
\* cancels the context the goroutine holds, so a PruneOld not yet run
\* will fail and do nothing
ReturnCreated(r) ==
  /\ sreq[r].pc = "created"
  /\ SReturn(r)
  /\ pruneJobs' = [pruneJobs EXCEPT ![r] = "none"]
  /\ UNCHANGED <<memberRows, usedNonces, snapshots, pruned>>

\* Variant of PruneKept as a plausible slip would write it; it is used to
\* confirm that a property notices the slip.  (ORDER BY base_seq ASC)
PruneKeptAsc(kept) ==
  /\ Cardinality(kept) = IF Cardinality(snapshots) < KeepCount
                         THEN Cardinality(snapshots) ELSE KeepCount
  /\ \A k \in kept, o \in snapshots \ kept : k.baseSeq <= o.baseSeq

\* the rows of `SELECT snapshot_id .. ORDER BY base_seq DESC LIMIT keep`;
\* among rows of equal base_seq SQLite may keep any
PruneKept(kept) ==
  /\ Cardinality(kept) = IF Cardinality(snapshots) < KeepCount
                         THEN Cardinality(snapshots) ELSE KeepCount
  /\ \A k \in kept, o \in snapshots \ kept : o.baseSeq <= k.baseSeq

\* the goroutine's DELETE .. WHERE snapshot_id NOT IN (..), context live
PruneOld(r) ==
  /\ pruneJobs[r] = "live"
  /\ \E kept \in SUBSET snapshots :
       /\ PruneKept(kept)
       /\ snapshots' = kept
       /\ pruned' = pruned \cup {<<s.id, s.baseSeq>> : s \in snapshots \ kept}
  /\ pruneJobs' = [pruneJobs EXCEPT ![r] = "none"]
  /\ UNCHANGED <<memberRows, usedNonces, sreq>>

\* the statement fails with its context live; the error is discarded
PruneOldFails(r) ==
  /\ pruneJobs[r] = "live"
  /\ "PruneOld" \in FailingCalls
  /\ pruneJobs' = [pruneJobs EXCEPT ![r] = "none"]
  /\ UNCHANGED <<memberRows, usedNonces, snapshots, pruned, sreq>>

SnapInit ==
  /\ snapshots = {}
  /\ pruned = {}
  /\ pruneJobs = [r \in Requests |-> "none"]
  /\ sreq = [r \in Requests |-> SIdle]

\* the steps of a request already admitted, and of its goroutine
SnapInFlight(r) ==
  \/ RecordSnapshotNonce(r)
  \/ RecordSnapshotNonceFails(r)
  \/ CreateSnapshot(r)
  \/ CreateSnapshotFails(r)
  \/ ReturnCreated(r)
  \/ PruneOld(r)
  \/ PruneOldFails(r)

SnapStep(r) ==
  \/ RejectSnapshot(r)
  \/ AcceptSnapshot(r)
  \/ SnapInFlight(r)

SnapNext == \E r \in Requests : SnapStep(r) /\ UNCHANGED <<vaults, memberLog, memberHead>>
====
