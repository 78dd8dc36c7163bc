------------------------------ MODULE Devices ------------------------------
(***************************************************************************)
(* Device registration:                                                    *)
(*   POST /v1/devices/register = httpapi.handleDeviceRegister:             *)
(*     DeviceValidator.ValidateBundle (pure: lengths, device_id =          *)
(*     sha256(pubkey_sign), X25519 check, self-signature), then            *)
(*     CheckImmutability (devices.Get, compare the three fields), then     *)
(*     devices.Get again (row found: 200), then devices.Create (201).      *)
(* The two reads and the INSERT are separate autocommit statements.        *)
(*                                                                         *)
(* device_id is sha256(pubkey_sign), so the id fixes pubkey_sign; what a   *)
(* bundle adds to its id is the pair (pubkey_box, bundle_sig), a model     *)
(* value of Contents.  The crypto checks are the boolean ok of the body.   *)
(* device_id is the primary key of devices (spec section 3), the guard of  *)
(* the INSERT.  Each element of Requests is one HTTP request, served once; *)
(* its answer is kept, for the properties.                                 *)
(***************************************************************************)
EXTENDS Naturals, FiniteSets, TLC

CONSTANTS
  Devices,        \* device_id values (model values)
  Contents,       \* (pubkey_box, bundle_sig) pairs a bundle may carry
  InitialDevices, \* devices registered before the run
  Requests,       \* registration requests, each served once, concurrently
  SigChoices,     \* outcomes of ValidateBundle a client can produce
  FailingCalls    \* the storage calls that may fail (busy, deadline, crash)

ASSUME InitialDevices \subseteq Devices
ASSUME SigChoices \subseteq BOOLEAN /\ TRUE \in SigChoices
ASSUME FailingCalls \subseteq {"CheckImmutability", "devices.Get", "devices.Create"}

VARIABLES
  devices,     \* devices table: partial function device_id -> content
  dreq         \* each handler: pc, the body it serves and its last answer

deviceVars == <<devices, dreq>>

\* bodies of POST /v1/devices/register that parse
BundlesOffered == [id: Devices, content: Contents, ok: SigChoices]

NoBundle == [id |-> "none", content |-> "none", ok |-> TRUE]

\* the content of the rows registered before the run
InitialContent == CHOOSE c \in Contents : TRUE

\* the handler returns having written `code`; body and code are kept
DReturn(r, b, code) == dreq' = [dreq EXCEPT ![r] = [pc |-> "done", body |-> b, resp |-> code]]

\* Variant of the definition below as a plausible slip would write it; it is
\* used to confirm that a property notices the slip.  (fields not compared)
ImmutabilityOutcomeNoCompare(b) == "ok"

\* CheckImmutability: a stored row of this id must equal the bundle
ImmutabilityOutcome(b) ==
  IF b.id \in DOMAIN devices /\ devices[b.id] # b.content
  THEN "duplicate_device" ELSE "ok"

\* ValidateBundle fails: 400, nothing read
RejectBundle(r) ==
  /\ dreq[r].pc = "idle"
  /\ \E b \in BundlesOffered : ~b.ok /\ DReturn(r, b, "400")
  /\ UNCHANGED devices

\* CheckImmutability finds a differing row (409) or its Get fails (500)
RejectImmutability(r) ==
  /\ dreq[r].pc = "idle"
  /\ \E b \in BundlesOffered :
       /\ b.ok
       /\ \/ ImmutabilityOutcome(b) = "duplicate_device" /\ DReturn(r, b, "409")
          \/ "CheckImmutability" \in FailingCalls /\ DReturn(r, b, "500")
  /\ UNCHANGED devices

PassImmutability(r) ==
  /\ dreq[r].pc = "idle"
  /\ \E b \in BundlesOffered :
       /\ b.ok
       /\ ImmutabilityOutcome(b) = "ok"
       /\ dreq' = [dreq EXCEPT ![r] = [pc |-> "checked", body |-> b, resp |-> "none"]]
  /\ UNCHANGED devices

\* the handler's own devices.Get: a row found answers 200 with the body
GetDevice(r) ==
  LET b == dreq[r].body IN
  /\ dreq[r].pc = "checked"
  /\ \/ b.id \in DOMAIN devices /\ DReturn(r, b, "200")
     \/ b.id \notin DOMAIN devices
        /\ dreq' = [dreq EXCEPT ![r].pc = "absent"]
  /\ UNCHANGED devices

GetDeviceFails(r) ==
  /\ dreq[r].pc = "checked"
  /\ "devices.Get" \in FailingCalls
  /\ DReturn(r, dreq[r].body, "500")
  /\ UNCHANGED devices

\* devices.Create: INSERT; the device_id primary key rejects a second row
CreateDevice(r) ==
  LET b == dreq[r].body IN
  /\ dreq[r].pc = "absent"
  /\ b.id \notin DOMAIN devices
  /\ devices' = (b.id :> b.content) @@ devices
  /\ DReturn(r, b, "201")

CreateDeviceFails(r) ==
  LET b == dreq[r].body IN
  /\ dreq[r].pc = "absent"
  /\ b.id \in DOMAIN devices \/ "devices.Create" \in FailingCalls
  /\ DReturn(r, b, "500")
  /\ UNCHANGED devices

DeviceInit ==
  /\ devices = [d \in InitialDevices |-> InitialContent]
  /\ dreq = [r \in Requests |-> [pc |-> "idle", body |-> NoBundle, resp |-> "none"]]

DeviceStep(r) ==
  \/ RejectBundle(r)
  \/ RejectImmutability(r)
  \/ PassImmutability(r)
  \/ GetDevice(r)
  \/ GetDeviceFails(r)
  \/ CreateDevice(r)
  \/ CreateDeviceFails(r)

DeviceNext == \E r \in Requests : DeviceStep(r)
====
