----------------------------- MODULE EventChain -----------------------------
(***************************************************************************)
(* The per-(vault, device) encrypted event log of one vault:               *)
(*   POST /v1/vaults/{vault_id}/events                                     *)
(* = httpapi.handleEventCreate, which calls                                *)
(*   validation.EventsValidator.ValidateEvent   (reads only), then         *)
(*   storage.EventsRepository.Create            (INSERT, assigns seq), then*)
(*   storage.EventsRepository.UpsertEventHead   (INSERT .. ON CONFLICT).   *)
(* No transaction spans these calls: every storage call is its own         *)
(* autocommit SQLite statement, so each is one atomic step here and the    *)
(* handlers of concurrent requests (one goroutine each) interleave between *)
(* them.  The validator's reads are merged into one step: a write that     *)
(* lands between two of its reads could equally land after the last read, *)
(* before the INSERT, so merging them hides no stored outcome.             *)
(*                                                                         *)
(* Data abstraction: a hash is the tuple of the signed fields that the     *)
(* model keeps (SHA-256 over the CBE sign bytes is injective on them);     *)
(* ciphertext, nonce, lamport and key_epoch are opaque to the server and   *)
(* left out; the ed25519 check is a boolean of the request.                *)
(***************************************************************************)
EXTENDS Naturals, Sequences, FiniteSets, TLC

CONSTANTS
  Devices,        \* device_id values (model values)
  EventIDs,       \* event_id UUIDs clients may send
  InitialMembers, \* the devices that are members of the vault
  Requests,       \* concurrently running handleEventCreate goroutines
  MaxCounter,     \* largest counter a client sends
  StorageFaults   \* TRUE: an INSERT or UPSERT may fail (busy, deadline, crash)

ASSUME InitialMembers \subseteq Devices
ASSUME MaxCounter \in Nat \ {0}
ASSUME StorageFaults \in BOOLEAN

VARIABLES
  log,         \* the events table in seq order: seq of an event = its index
  eventHeads,  \* the event_heads table: partial function device -> head row
  isMember,    \* vault_members.is_member, read here, written by Membership
  vaultExists, \* a vaults row exists, read here, written by Membership
  req          \* the handler state of each request

vars == <<log, eventHeads, isMember, vaultExists, req>>

(***************************************************************************)
(* Hashes.  Zero is prev_hash of a genesis event (models.Zero32).          *)
(***************************************************************************)
Zero == <<>>

\* event_hash = SHA256(SignBytesEvent(event_id, vault, device, counter, .., prev_hash, ..))
EventHash(dev, eid, counter, prev) == <<dev, eid, counter, prev>>

\* hashes of the events of device d that are stored
StoredHashes(d) == {log[i].hash : i \in {j \in 1..Len(log) : log[j].dev = d}}

\* the prev_hash values a client of device d can send: zero or a stored hash
PrevChoices(d) == {Zero} \cup StoredHashes(d)

Responses == {"none", "created", "not_found", "membership_required",
              "event_chain_broken", "conflict", "invalid_signature",
              "internal_error"}

\* an idle handler; "none" is no device and no event id (a CHOOSE over a
\* symmetry set would make symmetry reduction unsound)
Idle == [pc |-> "idle", dev |-> "none", eid |-> "none", counter |-> 1, prev |-> Zero,
         sigOk |-> TRUE, resp |-> "none"]

(***************************************************************************)
(* Validation: the checks of ValidateEvent after the structural ones, in   *)
(* the order the code makes them, giving the response of the first that   *)
(* fails, or "ok".                                                         *)
(***************************************************************************)

\* Variants of the checks below as a plausible slip would write them;
\* each is used to confirm that a property notices the slip.
\* (prev_hash comparison forgotten)
ChainOkNoPrevCheck(d, counter, prev) ==
  IF d \notin DOMAIN eventHeads THEN counter = 1
  ELSE counter = eventHeads[d].lastCounter + 1

\* the event_heads branch: counter and prev_hash against the stored head
ChainOk(d, counter, prev) ==
  IF d \notin DOMAIN eventHeads
    THEN counter = 1 /\ prev = Zero
    ELSE /\ counter = eventHeads[d].lastCounter + 1
         /\ prev = eventHeads[d].lastHash

\* CheckEventIDExists
EventIDExists(d, eid) == \E i \in 1..Len(log) : log[i].dev = d /\ log[i].eid = eid

\* (GetMember not consulted)
ValidateEventNoMemberCheck(r) ==
  LET q == req[r] IN
  CASE ~vaultExists                             -> "not_found"
    [] ~ChainOk(q.dev, q.counter, q.prev)       -> "event_chain_broken"
    [] EventIDExists(q.dev, q.eid)              -> "conflict"
    [] ~q.sigOk                                 -> "invalid_signature"
    [] OTHER                                    -> "ok"

ValidateEvent(r) ==
  LET q == req[r] IN
  CASE ~vaultExists                             -> "not_found"
    [] ~isMember[q.dev]                         -> "membership_required"
    [] ~ChainOk(q.dev, q.counter, q.prev)       -> "event_chain_broken"
    [] EventIDExists(q.dev, q.eid)              -> "conflict"
    [] ~q.sigOk                                 -> "invalid_signature"
    [] OTHER                                    -> "ok"

(***************************************************************************)
(* Actions of one request r                                                *)
(***************************************************************************)

\* a client posts an event: the parsed body of the request
ReceiveEvent(r) ==
  /\ req[r].pc = "idle"
  /\ \E d \in Devices, eid \in EventIDs, c \in 1..MaxCounter, s \in BOOLEAN :
     \E p \in PrevChoices(d) :
       req' = [req EXCEPT ![r] = [Idle EXCEPT !.pc = "received", !.dev = d,
                 !.eid = eid, !.counter = c, !.prev = p, !.sigOk = s]]
  /\ UNCHANGED <<log, eventHeads, isMember, vaultExists>>

\* ValidateEvent returns an error: the handler writes it and returns
RejectEvent(r) ==
  /\ req[r].pc = "received"
  /\ ValidateEvent(r) # "ok"
  /\ req' = [req EXCEPT ![r] = [Idle EXCEPT !.resp = ValidateEvent(r)]]
  /\ UNCHANGED <<log, eventHeads, isMember, vaultExists>>

AcceptEvent(r) ==
  /\ req[r].pc = "received"
  /\ ValidateEvent(r) = "ok"
  /\ req' = [req EXCEPT ![r].pc = "validated"]
  /\ UNCHANGED <<log, eventHeads, isMember, vaultExists>>

\* events.Create: the INSERT commits and appends the row with the next seq.
\* The (vault_id, device_id, event_id) unique key rejects a duplicate.
InsertEvent(r) ==
  LET q == req[r] IN
  /\ q.pc = "validated"
  /\ ~EventIDExists(q.dev, q.eid)
  /\ log' = Append(log, [dev |-> q.dev, eid |-> q.eid, counter |-> q.counter,
                         prev |-> q.prev,
                         hash |-> EventHash(q.dev, q.eid, q.counter, q.prev)])
  /\ req' = [req EXCEPT ![r].pc = "inserted"]
  /\ UNCHANGED <<eventHeads, isMember, vaultExists>>

\* (the error of events.Create ignored: the handler goes on to the head)
InsertFailsIgnored(r) ==
  /\ req[r].pc = "validated"
  /\ EventIDExists(req[r].dev, req[r].eid) \/ StorageFaults
  /\ req' = [req EXCEPT ![r].pc = "inserted"]
  /\ UNCHANGED <<log, eventHeads, isMember, vaultExists>>

\* events.Create returns an error (unique violation, or a storage fault):
\* the handler answers internal_error and returns
InsertFails(r) ==
  /\ req[r].pc = "validated"
  /\ EventIDExists(req[r].dev, req[r].eid) \/ StorageFaults
  /\ req' = [req EXCEPT ![r] = [Idle EXCEPT !.resp = "internal_error"]]
  /\ UNCHANGED <<log, eventHeads, isMember, vaultExists>>

\* (LastCounter off by one: the counter of the predecessor)
HeadRowPrevCounter(q) == [lastCounter |-> q.counter - 1,
                          lastHash |-> EventHash(q.dev, q.eid, q.counter, q.prev)]

\* the head row the handler upserts for the event of request q
HeadRow(q) == [lastCounter |-> q.counter,
               lastHash |-> EventHash(q.dev, q.eid, q.counter, q.prev)]

\* events.UpsertEventHead: ON CONFLICT DO UPDATE overwrites the head
UpsertEventHead(r) ==
  LET q == req[r] IN
  /\ q.pc = "inserted"
  /\ eventHeads' = (q.dev :> HeadRow(q)) @@ eventHeads
  /\ req' = [req EXCEPT ![r] = [Idle EXCEPT !.resp = "created"]]
  /\ UNCHANGED <<log, isMember, vaultExists>>

\* the upsert fails after the event row committed: internal_error, the row
\* stays and the head is not advanced
UpsertEventHeadFails(r) ==
  /\ req[r].pc = "inserted"
  /\ StorageFaults
  /\ req' = [req EXCEPT ![r] = [Idle EXCEPT !.resp = "internal_error"]]
  /\ UNCHANGED <<log, eventHeads, isMember, vaultExists>>

(***************************************************************************)
(* Specification                                                           *)
(***************************************************************************)

Init ==
  /\ log = <<>>
  /\ eventHeads = [d \in {} |-> [lastCounter |-> 0, lastHash |-> Zero]]
  /\ isMember = [d \in Devices |-> d \in InitialMembers]
  /\ vaultExists = TRUE
  /\ req = [r \in Requests |-> Idle]

RequestStep(r) ==
  \/ ReceiveEvent(r)
  \/ RejectEvent(r)
  \/ AcceptEvent(r)
  \/ InsertEvent(r)
  \/ InsertFails(r)
  \/ UpsertEventHead(r)
  \/ UpsertEventHeadFails(r)

Next == \E r \in Requests : RequestStep(r)

Spec == Init /\ [][Next]_vars

(***************************************************************************)
(* Invariants and properties                                               *)
(***************************************************************************)

TypeOK ==
  /\ \A i \in 1..Len(log) :
       /\ log[i].dev \in Devices /\ log[i].eid \in EventIDs
       /\ log[i].counter \in 1..MaxCounter
  /\ DOMAIN eventHeads \subseteq Devices
  /\ \A d \in DOMAIN eventHeads : eventHeads[d].lastCounter \in 1..MaxCounter
  /\ isMember \in [Devices -> BOOLEAN]
  /\ vaultExists \in BOOLEAN
  /\ \A r \in Requests :
       /\ req[r].pc \in {"idle", "received", "validated", "inserted"}
       /\ req[r].resp \in Responses

(* The event head never names an event that is not in the events table:   *)
(* handleEventCreate upserts the head only after events.Create succeeded, *)
(* whatever other requests and failed storage calls do in between.        *)
HeadIsStored ==
  \A d \in DOMAIN eventHeads :
    \E i \in 1..Len(log) :
      /\ log[i].dev = d
      /\ log[i].counter = eventHeads[d].lastCounter
      /\ log[i].hash = eventHeads[d].lastHash

(* Every stored event links to its device's chain: it is a genesis event  *)
(* (counter 1, zero prev_hash) or its prev_hash is the hash of an event   *)
(* of the same device with counter one less and a smaller seq, so a       *)
(* client paging GET /events?since_seq= meets the predecessor first.      *)
EventsLinked ==
  \A i \in 1..Len(log) :
    \/ log[i].counter = 1 /\ log[i].prev = Zero
    \/ \E j \in 1..(i - 1) :
         /\ log[j].dev = log[i].dev
         /\ log[j].hash = log[i].prev
         /\ log[j].counter + 1 = log[i].counter

(* Spec section 8, invariant 1: each accepted event's counter is the      *)
(* previous head's counter + 1, so in seq order the counters of one       *)
(* device's events strictly increase: no two events share a counter and   *)
(* no event is accepted below an earlier one (a single chain, no fork).   *)
CountersStrictlyIncrease ==
  \A i, j \in 1..Len(log) :
    (i < j /\ log[i].dev = log[j].dev) => log[i].counter < log[j].counter

(* When no request is in flight, the event head of each device is its     *)
(* stored event with the greatest counter (the tip a client must extend). *)
HeadAtTip ==
  (\A r \in Requests : req[r].pc = "idle") =>
    \A i \in 1..Len(log) :
      /\ log[i].dev \in DOMAIN eventHeads
      /\ log[i].counter <= eventHeads[log[i].dev].lastCounter

=============================================================================
