# TLA+ models of forgor-server

forgor-server is the coordination server of an end-to-end-encrypted vault.
It never sees plaintext. It checks signed records from devices, orders them
into hash-linked logs and stores them in SQLite. This directory models its
write paths as TLA+ specifications and checks them with TLC.

## 1. Inventory

### Components and their state

| Component | Source | State it keeps (SQLite tables) | Operations that change state |
|---|---|---|---|
| Device registration | `validation/device.go`, `httpapi/devices.go`, `storage/devices.go` | `devices` | register (validate bundle, immutability check, create) |
| Membership | `validation/membership.go`, `httpapi/member_events.go`, `storage/member_events.go`, `storage/vaults.go` | `vaults`, `member_events`, `vault_membership_heads`, `vault_members` | genesis member_add, invited member_add, member_remove |
| Events | `validation/events.go`, `httpapi/events.go`, `storage/events.go` | `events` (with the server `seq`), `event_heads` | post event |
| Invites | `validation/invites.go`, `httpapi/invites.go`, `storage/invites.go` | `invites`, `invite_claims`, `used_nonces` | create invite, claim invite, MarkUsed (from member_add) |
| Key updates | `validation/key_updates.go`, `httpapi/key_updates.go`, `storage/key_updates.go` | `key_updates`, `key_update_acks`, `vault_members.key_epoch` | create key update, ack key update |
| Snapshots | `validation/snapshots.go`, `httpapi/snapshots.go`, `storage/snapshots.go` | `snapshots`, `used_nonces` | create snapshot, background PruneOld |
| Canonical byte encoder | `cbe/*.go` | none (pure) | - |
| Crypto | `crypto/crypto.go` | none (pure) | - |
| HTTP plumbing | `httpapi/router.go`, `middleware.go`, `helpers.go` | rate-limiter map | - |
| DB, config, logging, models, errors, main | `db/db.go`, `config`, `logging`, `models`, `apierror`, `cmd` | connection pool, migrations | start-up only |

### How they interact

The components do not call each other. They share the database.
- Every validator reads tables that other handlers write. Events read
  `vaults` and `vault_members`. Key updates and snapshots read
  `vault_membership_heads` and `vault_members`. member_add reads `invites`
  and `invite_claims`.
- Each HTTP request runs in its own goroutine. A handler first calls its
  validator, which only reads. It then calls several storage methods, one
  after the other.
- Each storage method is a single autocommit SQLite statement. No code path
  opens a transaction. The spec (section 5) asks for the head read, insert
  and head upsert to be one atomic unit (`BEGIN IMMEDIATE`), but the code
  does not do this.
- Any storage call can fail: SQLite busy timeout, the 30 s request deadline,
  or a crash. The handler then answers `internal_error`. Writes that already
  committed stay in the database.

### What is hard

- **Interleaving.** Two requests can both validate against the same head
  before either one writes. This applies to event heads, the membership head,
  nonce checks, key-update existence checks and device immutability checks.
- **Partial failure.** A write sequence can stop halfway. Examples: an event
  row without its head upsert; a vault row without its membership head; a
  member add whose invite is never marked used (the `MarkUsed` error is
  ignored).
- **Stale authorisation.** Membership and the membership head are read during
  validation. They may have changed by the time the insert commits.
- **Background work.** Snapshot pruning runs in a goroutine that uses the
  request's context, and that context is cancelled when the handler returns.

### What each component must guarantee

- Events: each device's log is one chain. Counters are dense and strictly
  increasing in seq order, each `prev_hash` names the previous event, and the
  head is the tip (spec section 8, invariant 1). Readers polling by `seq` see
  an event's predecessor before the event.
- Membership: `member_seq` is dense and the chain is linear (invariant 2).
  Only the owner writes events after genesis (invariant 6). The owner row
  exists whenever the vault exists.
- Invites and nonces: no two accepted records share
  `(type, vault, creator, nonce)` (invariant 4). A single-use invite admits
  its target at most once.
- Key updates: after an ack, the member's `key_epoch` equals the epoch it
  acknowledged (invariant 7). A key update never targets a device that is no
  longer a member when it is stored.
- Snapshots: at most 3 are retained per vault, eventually.
- Devices: re-registering a device is idempotent or `duplicate_device`
  (invariant 5).

`PROJECT.json` lists all of these hazards, each at its source line.

## 2. Plan and status

| Step | Status |
|---|---|
| EventChain: events validator, handler, storage; concurrent requests, faults at every write | built |
| Membership: genesis, invited member_add, member_remove, each storage write a step | built |
| Invites: create with nonce check then record; claims; coupled to member_add through `MarkUsed` | built |
| Vault: Membership, Invites, KeyUpdates and Snapshots composed over the shared tables | built |
| KeyUpdates: key updates and acks bound to the membership head | built |
| Snapshots: create, nonce, background `PruneOld` under the request context | built |
| Devices: registration and the immutability check under concurrent registration; composed with invite claims | built |
| EventChain composed with Membership: an event accepted from a device removed meanwhile | built |
| Abstract `VaultLog` (atomic chains) and a refinement check of the serialised model | later |
| Cbe: the canonical encoder and every sign-bytes constructor as operators; injectivity over bounded inputs | built |

## 3. Modules and runs

### EventChain (`EventChain.tla`, `MCEventChain.tla`)

| Model | Code |
|---|---|
| `log` (sequence; seq = index) | `events` table, `EventsRepository.Create` / `ListSince` |
| `eventHeads` (partial function) | `event_heads` table |
| `isMember`, `vaultExists` | `vault_members.is_member`, `vaults` (read only here; written by Membership) |
| `req[r]` | the local state of one `handleEventCreate` goroutine |
| `ReceiveEvent` | parse body, path/body vault check |
| `RejectEvent` / `AcceptEvent` | `ValidateEvent`, with the checks in code order (`ValidateEvent` operator) |
| `InsertEvent` / `InsertFails` | `events.Create` and its error return |
| `UpsertEventHead` / `UpsertEventHeadFails` | `UpsertEventHead` and its error return |

The validator's reads are merged into one step. A write that lands between
two of those reads could just as well land after the last read and before
the INSERT. So merging them loses no outcome that can be stored.

Hashes are modelled as the tuple of the signed fields the model keeps. This
is injective, like SHA-256 over the CBE bytes. Nonce, ciphertext, lamport and
key_epoch are opaque to the server, so they are left out. The signature check
is a boolean that comes with the request. The unique key
`(vault_id, device_id, event_id)` is taken from the spec, because the SQL
schema is not in the source tree. It appears as the guard of `InsertEvent`.

A client may send any counter in `1..MaxCounter` and, as `prev_hash`, zero or
the hash of any stored event of its own device. Other prev values could only
be rejected. This covers both honest clients and stale or malicious ones.

| Run | Config | Expect | Shows |
|---|---|---|---|
| `events_concurrent` | 2 requests, faults | pass | `HeadIsStored`: the head always names a stored event. `EventsLinked`: every event links to a predecessor with a smaller seq. Both hold under any interleaving and any failed write. `HashesBindEvents`: no two stored events share a hash, and every sign-bytes constructor of `Cbe` is injective over its bounded inputs, which is what lets the model use tuples as hashes. |
| `events_fork` | 2 requests, no faults | violation | Two posts validated against the same head are both stored with the same counter. The spec requires an atomic head-read/insert/upsert. |

Bounds: devices `{d1, d2}`, of which only `d1` is a member (so
`membership_required` is reached); 3 event ids (a symmetry set); counters up
to 3. This is enough for a genesis, two successors, and a fork at either
level. No fairness is assumed, because only safety is checked.

### Cbe (`Cbe.tla`, checked through `MCEventChain.tla`)

`Cbe` holds no state: it translates `cbe/encode.go` and `cbe/signbytes.go`
into operators. An encoder call is a record (`string`, `u32`, `u64`,
`bytes`, `bool` or a fixed-width kind), and `Encode` folds a sequence of
calls into bytes, or into the first field whose width check fails, as the
`Encoder`'s sticky error does. Integers are written big-endian by the
RECURSIVE `BigEndian`; strings and byte slices get a u32 length prefix.
Every `SignBytes*` constructor is an operator over the same argument list
as its Go function, including `SignBytesMemberRemove`'s zero placeholders.
The sorted-map writers sort with `sort.Slice`, which is not stable, so
`SortSlice` returns every order a comparison sort may produce and the map
writers return a set of results.

Data abstraction: a string literal keeps its true byte length and is one
distinct code byte per literal, so length prefixes are exact; u64 values
are kept below 2^31 (TLC's integers); fixed-width fields range over two
values each (all zeros, all 255) and variable fields over `<<>>` and
`<<0>>`. `SignBytesInjective` enumerates every signed record kind over
these inputs (all nine `SignBytes*` constructors) and checks that each
encodes and that no two records share bytes. It is conjoined into the
state invariant `HashesBindEvents` of `events_concurrent`, so that a hash
in `EventChain` may stand for the tuple of signed fields.

### Membership, Invites, KeyUpdates, Snapshots, Devices, EventChain and their composition Vault

Each component module declares the shared tables as VARIABLES and its own
handler state (`mreq`, `ireq`, `kreq`, `sreq`, `dreq`, `req`: a `pc` and the
request body per running goroutine). `Vault.tla` INSTANCEs the six with the shared
variables, and its `Next` is one step of one handler of one kind, the rest
unchanged (`router.go` runs every handler concurrently). `MCVault.tla` gives
the constants model values.

EventChain is instantiated with `isMember <- IsMemberFn` (the `is_member`
column of the `vault_members` rows that Membership writes, as
`VaultsRepository.GetMember` reads it) and `vaultExists <- vaults # {}`.
An event handler therefore sees every membership change committed before
its validation step, and none committed after it. Invites reads the
`devices` table that Devices writes: `ValidateInviteClaim` rejects a claim
by an unregistered device with `device_not_found`.

Devices (`Devices.tla`):

| Model | Code |
|---|---|
| `devices` (partial function id -> content) | `devices` table, `DevicesRepository.Get` / `Create` |
| `dreq[r]` (`pc`, body, answer) | one `handleDeviceRegister` goroutine; each request is served once and its answer kept |
| `RejectBundle` | `ValidateBundle` fails: 400 |
| `RejectImmutability` / `PassImmutability` | `CheckImmutability`: 409 `duplicate_device`, 500 on a failed Get, or go on |
| `GetDevice` / `GetDeviceFails` | the handler's second `devices.Get`: a row found answers 200 |
| `CreateDevice` / `CreateDeviceFails` | `devices.Create`, guarded by the `device_id` primary key: 201, or 500 |

`device_id` is `sha256(pubkey_sign)`, so the id fixes `pubkey_sign`. What a
bundle adds to its id is the pair (`pubkey_box`, `bundle_sig`). That pair is
a model value of `Contents`.

| Model | Code |
|---|---|
| `vaults` (`{}` or `{owner}`) | `vaults` row, `VaultsRepository.Create` |
| `memberLog` (sequence of rows) | `member_events`, `MemberEventsRepository.Create` |
| `memberHead` | `vault_membership_heads`, `UpsertMembershipHead` |
| `memberRows` (device -> `[isMember, keyEpoch]`) | `vault_members`, `UpsertMember`, `SetMemberRemoved`, `UpdateMemberKeyEpoch` |
| `invites`, `claims` | `invites` (with `used`), `invite_claims` |
| `usedNonces` (`<<type, creator, nonce>>`) | `used_nonces`, `CheckNonceUsed` / `RecordNonceUsed` |
| `keyUpdates`, `acks` | `key_updates`, `key_update_acks` |
| `snapshots` | `snapshots`, `Create` / `PruneOld` |
| `pruneJobs[r]` | the `go PruneOld(ctx, ..)` goroutine of request `r` while its context is live |
| `pruned` | history only: the rows `PruneOld` deleted |
| `Validate*` operators (CASE in code order) | `ValidateMemberAdd`, `ValidateMemberRemove`, `ValidateInvite`, `ValidateInviteClaim`, `ValidateKeyUpdate`, `ValidateKeyUpdateAck`, `ValidateSnapshot` |
| `Reject*` / `Accept*` | the validator call and its early return |
| one action per storage call, and a `...Fails` action beside it | each `if err != nil { writeError(..); return }` of the handler |

Abstractions, each argued in the module header:
- A validator's reads are one step, as in EventChain.
- A signature check is a boolean the request carries (`SigChoices`).
  Hashes are tuples of the signed fields.
- A storage call fails only if its name is in the run's `FailingCalls`
  constant. The handler then returns, and earlier writes stay committed.
- Clients offer snapshot ids and nonces as "any value a running request
  carries, or the first unused one". Unused values are interchangeable, so
  this loses no state up to renaming. Snapshot ids are random UUIDs and are
  never reused.
- `MaxMemberEvents` bounds the member-event rows. A retry after a failed
  head upsert stores another row, without end.
- The schema is not in the repository, so the primary and unique keys come
  from spec.md. They appear as the guards of the insert actions and their
  `Fails` alternatives.
- A `PruneOld` goroutine whose handler has already returned is dropped.
  `TimeoutMiddleware` cancels the context with `defer cancel()`, so the
  statement fails with `context.Canceled`.

Runs (`MCVault_*.cfg`; 2 devices throughout):

| Run | Setting | Expect | Shows |
|---|---|---|---|
| `vault_serial` | 1 member, 1 invite and 1 snapshot handler; member_seq up to 4; snapshot calls may fail | pass | `MembersMatchLog`: when idle, `vault_members` agrees with the log. `SingleUseInviteAdmitsOnce` holds without faults. The composed `TypeOK` is checked in this run only. |
| `vault_faults` | 2 member handlers and 1 invite handler; every membership and invite storage call may fail; member_seq up to 3 | pass | `MemberChainLinked`: every member event links to an earlier one, under any interleaving and any failed write. `OnlyOwnerAuthors`: racing genesis requests still leave one author. `NoncesRecorded`: a stored invite's nonce is always in `used_nonces`, because the record happens before the insert. `MemberChangeLogged` (action property): every step that changes `is_member` finds the member event of the matching type already stored, so a failure between the insert and the row write leaves the log ahead of `vault_members`. |
| `vault_readd` | 2 member handlers and 1 invite handler; member_seq up to 3; no faults | violation | `MembersMatchLog`: the owner d1 removes itself (allowed by `validation/membership.go:290`); the remove has upserted the head but not yet written the row. A member_add of d1 is then validated against that head and runs to completion, and the remove's row write lands last. With every handler returned, the log says d1 is a member and `vault_members` says it is not. At member_seq 3 only the owner's own remove and re-add fit; with member_seq 4 TLC finds the same reordering for d2 in 25 states. |
| `vault_singleuse` | `MarkUsed` may fail | violation | `SingleUseInviteAdmitsOnce`: a single-use invite is named by two member_adds. |
| `vault_keys` | 1 key handler, every key call may fail; member_seq up to 2 | pass | `KeyEpochAcked`: a non-initial `key_epoch` always has its ack stored. Every stored key update's nonce is recorded. With one key handler the same-nonce race is not explored. |
| `vault_stale` | 1 member, 1 invite, 1 key and 1 event handler; member_seq up to 3; no faults | violation | `WritesByCurrentMembers` (action property): a key update validated before a member_remove of its target is stored after it. The event handler has the same gap. With the key handler left out, the same property is violated by an event stored after its author's removal, in 382 states. |
| `vault_snapshots` | 2 snapshot handlers, 4 ids and nonces, base_seq in {1, 2}; `PruneOld` may fail | pass | `PrunedHadKeepNewer`: a deleted snapshot always has 3 retained ones at least as new, whatever the interleaving. Nonces are recorded. |
| `vault_prune` | 1 snapshot handler, no faults, weak fairness | violation | `SnapshotsPruned`: four snapshots can stay stored for ever. |
| `vault_devices` | d1 registered; 1 registration of any id with either of 2 contents, any device call may fail; 1 member, 1 invite and 1 event handler | pass | `DeviceAnswerMatchesStored`: a 200 or 201 names the stored bundle. `ClaimsByRegistered`: every stored claim is by a registered device. `EventAuthorsAdmitted`: every stored event's author has a `vault_members` row. |
| `vault_devicerace` | 2 concurrent registrations, no faults | violation | `DeviceAnswerMatchesStored`: a request whose bundle differs from the row a concurrent registration stored is answered 200. |

Distinct states and times of the passing runs, with 2 workers:
`events_concurrent` 223,697 (28 s), `vault_serial` 51,868 (1 min 47 s),
`vault_faults` 58,618 (1 min 31 s), `vault_keys` 254,693 (1 min 11 s),
`vault_snapshots` 314,968 (47 s), `vault_devices` 105,628 (16 s).

`vault_faults` is bounded at member_seq 3: at 4 with two handlers and
faults it runs for more than 7 minutes. `vault_devices` runs one event id
and counter 1 with no event-storage faults: the event faults are checked by
`events_concurrent`, and here the event handler is there to read the
membership that the other handlers change.

Bounds. Two devices are enough for an owner and another device to invite,
remove and re-add. A member_seq of 4 allows genesis, add, remove and
re-add of the second device; at 3 only the owner can remove and re-add
itself. Two handlers of a kind give every pairwise race. Snapshot runs need
four rows before anything is pruned (keep 3). Runs whose bound is smaller
say why in their cfg header. Symmetry permutes devices, handlers and
invite ids. It is not used with liveness, and it is not applied to ids
chosen by CHOOSE.

Deadlock is checked in every run but `vault_devicerace`. Handlers of the
other runs loop and can always take a new request. The two registration
requests of `vault_devicerace` are each served once, so the system stops
when both are answered.

Fairness. `vault_prune` assumes weak fairness of the steps of an admitted
snapshot request and of its goroutine. The Go scheduler runs every runnable
goroutine, and a handler that has written its response returns. No fairness
is assumed for clients: nothing obliges one to post.

## 4. Findings

Every violation run above is a finding in `PROJECT.json`. In short:
- Handlers are not transactional. This gives event forks (`events_fork`),
  a key update or an event stored for a removed device (`vault_stale`), a
  member row left out of step with the membership log without any fault
  (`vault_readd`), and a registration answered 200 with a bundle that is
  not the stored one (`vault_devicerace`).
- The ignored `MarkUsed` error lets a single-use invite admit twice
  (`vault_singleuse`).
- The prune goroutine runs on a context that is cancelled when the handler
  returns, so pruning may never happen (`vault_prune`).

Five more were found while building the model. They are not kept as runs,
and `PROJECT.json` lists them as hazards with a note:
- A failed event-head upsert after a committed insert leaves the head
  behind the log, and a retry forks the chain (`HeadAtTip` in
  `EventChain.tla`).
- A failed `memberEvents.Create` at genesis leaves a vault row with no head,
  so the vault can never be used (`VaultHasHead`).
- Two concurrent member events validated against the same membership head
  are both stored with one member_seq (`MemberSeqsUnique`).
- The same race moves the membership head backwards. One handler loops and
  commits seq 3, then the slower upsert of the other branch writes seq 2
  (`UpsertMembershipHead` overwrites unconditionally). TLC finds this in 16
  states under `vault_faults`' bounds.
- Two invites with one nonce, validated before either records it, are both
  stored (`StoredNoncesUnique`). The same holds for snapshots: under
  `vault_snapshots`' bounds, whose two snapshot handlers may carry one
  nonce, TLC violates `StoredNoncesUnique` in 12 states. The passing runs
  therefore check only `NoncesRecorded`, each handler's
  record-before-insert order, and not the race.

One boundary was found by arithmetic rather than by a run, and is listed
as a hazard: `validation/snapshots.go:49,52` bounds the snapshot maps by
`MaxMapLength*40` and `*64` bytes, as the spec says, but the map encoding
(`WriteDeviceIDCounterMap`) starts with a 4-byte count, so a map of exactly
`MaxMapLength` = 1024 entries is 40964 or 65540 bytes and is rejected.

## 5. Not modelled

- Crypto (`crypto/crypto.go`): Ed25519 verification and SHA-256 are
  beyond TLC. A signature check is a boolean that comes with the request,
  and a hash is the tuple of the signed fields, which `Cbe` shows to be
  encoded injectively. `Cbe` leaves out `WriteU8`, `WriteStringArray` and
  `Reset`, which no constructor uses. The sorted-map writers are modelled
  but never called by the server: snapshot maps arrive already encoded
  (spec section 4.1).
- DB open and migrations (`db/db.go`): a sequential start-up loop, each
  migration in its own transaction with its version row, before the server
  takes a request. Nothing in it interleaves with the handlers, and a crash
  in it rolls back the one open transaction, so a model would restate the
  loop. The storage layer's behaviour under SQLite (autocommit statements,
  busy errors) is modelled as failures of each storage call.
- HTTP middleware, router, API errors, models and config: request parsing,
  status codes and wording. The handlers' error paths are modelled as
  rejections; the wire format is not.
- Read-only GET handlers change no state. The properties speak about what
  they return (for example, seq order in `EventsLinked`).
- The rate limiter, logging, config and process start-up are outside the
  core (spec section 1). The rate limiter's only shared state is the per-IP
  map, which sits behind a mutex and is reset by one periodic step. Its
  hazard is listed in `PROJECT.json` without a property.
- An owner may remove itself (`validation/membership.go:290`). The spec
  neither forbids nor requires this, so no property is stated.
