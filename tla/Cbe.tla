-------------------------------- MODULE Cbe --------------------------------
(***************************************************************************)
(* The canonical byte encoder, internal/cbe: the Encoder of encode.go and  *)
(* the sign-bytes constructors of signbytes.go, one per signed record.     *)
(* These are pure functions; the other modules abstract SHA-256 over      *)
(* their output by the tuple of the signed fields (EventHash, MemberHash), *)
(* which is sound only because the encoding is injective.  This module     *)
(* states and checks that over bounded arguments.                          *)
(*                                                                         *)
(* A byte string is a sequence of integers in 0..255.  A constructor       *)
(* returns [ok |-> TRUE, bytes |-> b], or [ok |-> FALSE, field |-> f] with *)
(* f the first fixed-width argument of the wrong length: the Go function   *)
(* returns nil and an error prefixed by that field's name.                 *)
(*                                                                         *)
(* Strings.  Only the literals of signbytes.go are ever written.  Each     *)
(* keeps its true length (Len of a string is its byte length: all are      *)
(* ASCII); its content is abstracted by one byte value per literal, so     *)
(* equal literals give equal bytes and different ones different bytes.    *)
(* u64 arguments are below 2^31: TLC's integers are 32-bit.                *)
(***************************************************************************)
EXTENDS Naturals, Sequences, FiniteSets

LOCAL INSTANCE SequencesExt

\* cbe.SignPrefix
SignPrefix == "forgor-sync-v1"

\* every string literal signbytes.go passes to WriteString
Literals == <<SignPrefix, "device_bundle", "event", "member_add",
              "member_remove", "invite", "invite_claim", "key_update",
              "key_update_ack", "snapshot">>

\* the UTF-8 bytes of literal s: its length, and a content byte of its own
Utf8(s) == LET i == CHOOSE j \in 1..Len(Literals) : Literals[j] = s
           IN [k \in 1..Len(s) |-> 96 + i]

(***************************************************************************)
(* Encoder primitives (encode.go).                                         *)
(***************************************************************************)

\* binary.BigEndian.PutUint32 / PutUint64: w bytes, most significant first
RECURSIVE BigEndian(_, _)
BigEndian(v, w) == IF w = 0 THEN <<>>
                   ELSE BigEndian(v \div 256, w - 1) \o <<v % 256>>

WriteU32(v) == BigEndian(v, 4)

WriteU64(v) == BigEndian(v, 8)

\* u32 length, then the bytes
WriteBytes(b) == WriteU32(Len(b)) \o b

\* u32 byte length, then the UTF-8 bytes
WriteString(s) == WriteU32(Len(s)) \o Utf8(s)

WriteBool(v) == IF v THEN <<1>> ELSE <<0>>

\* WriteUUID, WriteDeviceID, WriteHash, WriteSignature, WriteNonce and
\* WritePublicKey: WriteFixedBytes with these lengths
FixedWidth == [uuid |-> 16, device_id |-> 32, hash |-> 32, signature |-> 64,
               nonce |-> 24, public_key |-> 32]

\* one Encoder call: argument name f, kind k (a FixedWidth key, "string",
\* "u32", "u64", "bytes" or "bool"), value v
W(f, k, v) == [f |-> f, k |-> k, v |-> v]

\* WriteFixedBytes' check len(b) != expectedLen; the other writes never fail
WidthOk(x) == x.k \in DOMAIN FixedWidth => Len(x.v) = FixedWidth[x.k]

\* the bytes a call appends to the buffer
Appended(x) ==
  CASE x.k = "string" -> WriteString(x.v)
    [] x.k = "u32"    -> WriteU32(x.v)
    [] x.k = "u64"    -> WriteU64(x.v)
    [] x.k = "bytes"  -> WriteBytes(x.v)
    [] x.k = "bool"   -> WriteBool(x.v)
    [] OTHER          -> x.v

\* NewEncoder, the calls in order, e.Bytes(); the first failing call ends
\* the constructor with its error
Encode(calls) ==
  LET bad == {i \in 1..Len(calls) : ~WidthOk(calls[i])}
  IN IF bad = {}
     THEN [ok |-> TRUE,
           bytes |-> FlattenSeq([i \in 1..Len(calls) |-> Appended(calls[i])])]
     ELSE [ok |-> FALSE, field |-> calls[Min(bad)].f]

\* every constructor starts WriteString(SignPrefix), WriteString(tag)
Header(tag) == <<W("prefix", "string", SignPrefix), W("tag", "string", tag)>>

\* make([]byte, n)
Zeros(n) == [i \in 1..n |-> 0]

(***************************************************************************)
(* Sign-bytes constructors (signbytes.go), argument order as in Go.        *)
(***************************************************************************)

SignBytesDeviceBundle(deviceID, pubkeySign, pubkeyBox) ==
  Encode(Header("device_bundle") \o
         <<W("device_id", "device_id", deviceID),
           W("pubkey_sign", "public_key", pubkeySign),
           W("pubkey_box", "public_key", pubkeyBox)>>)

\* SignBytesEvent with the event_id write left out
SignBytesEventNoID(eventID, vaultID, deviceID, counter, lamport, keyEpoch, prevHash, nonce, ciphertext) ==
  Encode(Header("event") \o
         <<W("vault_id", "uuid", vaultID),
           W("device_id", "device_id", deviceID), W("counter", "u64", counter),
           W("lamport", "u64", lamport), W("key_epoch", "u64", keyEpoch),
           W("prev_hash", "hash", prevHash), W("nonce", "nonce", nonce),
           W("ciphertext", "bytes", ciphertext)>>)

SignBytesEvent(eventID, vaultID, deviceID, counter, lamport, keyEpoch, prevHash, nonce, ciphertext) ==
  Encode(Header("event") \o
         <<W("event_id", "uuid", eventID), W("vault_id", "uuid", vaultID),
           W("device_id", "device_id", deviceID), W("counter", "u64", counter),
           W("lamport", "u64", lamport), W("key_epoch", "u64", keyEpoch),
           W("prev_hash", "hash", prevHash), W("nonce", "nonce", nonce),
           W("ciphertext", "bytes", ciphertext)>>)

\* the fields member_add and member_remove share, after the tag
MemberHead(memberEventID, vaultID, memberSeq, prevHash, actorDeviceID, subjectDeviceID) ==
  <<W("member_event_id", "uuid", memberEventID),
    W("vault_id", "uuid", vaultID), W("member_seq", "u64", memberSeq),
    W("prev_hash", "hash", prevHash),
    W("actor_device_id", "device_id", actorDeviceID),
    W("subject_device_id", "device_id", subjectDeviceID)>>

SignBytesMemberAdd(memberEventID, vaultID, memberSeq, prevHash, actorDeviceID, subjectDeviceID, inviteID, claimSig, subjectBundleSig, subjectPubkeySign, subjectPubkeyBox) ==
  Encode(Header("member_add") \o
         MemberHead(memberEventID, vaultID, memberSeq, prevHash,
                    actorDeviceID, subjectDeviceID) \o
         <<W("invite_id", "uuid", inviteID),
           W("claim_sig", "signature", claimSig),
           W("subject_bundle_sig", "signature", subjectBundleSig),
           W("subject_pubkey_sign", "public_key", subjectPubkeySign),
           W("subject_pubkey_box", "public_key", subjectPubkeyBox)>>)

\* the member_add layout with zero placeholders, under its own tag
SignBytesMemberRemove(memberEventID, vaultID, memberSeq, prevHash, actorDeviceID, subjectDeviceID) ==
  Encode(Header("member_remove") \o
         MemberHead(memberEventID, vaultID, memberSeq, prevHash,
                    actorDeviceID, subjectDeviceID) \o
         <<W("zero_uuid", "uuid", Zeros(16)),
           W("zero_claim_sig", "signature", Zeros(64)),
           W("zero_bundle_sig", "signature", Zeros(64)),
           W("zero_pubkey_sign", "public_key", Zeros(32)),
           W("zero_pubkey_box", "public_key", Zeros(32))>>)

SignBytesInvite(inviteID, vaultID, targetDeviceID, targetPubkeySign, targetPubkeyBox, targetBundleSig, nonce, wrappedPayload, createdByDeviceID, singleUse) ==
  Encode(Header("invite") \o
         <<W("invite_id", "uuid", inviteID), W("vault_id", "uuid", vaultID),
           W("target_device_id", "device_id", targetDeviceID),
           W("target_pubkey_sign", "public_key", targetPubkeySign),
           W("target_pubkey_box", "public_key", targetPubkeyBox),
           W("target_bundle_sig", "signature", targetBundleSig),
           W("nonce", "nonce", nonce),
           W("wrapped_payload", "bytes", wrappedPayload),
           W("created_by_device_id", "device_id", createdByDeviceID),
           W("single_use", "bool", singleUse)>>)

SignBytesInviteClaim(inviteID, vaultID, deviceID) ==
  Encode(Header("invite_claim") \o
         <<W("invite_id", "uuid", inviteID), W("vault_id", "uuid", vaultID),
           W("device_id", "device_id", deviceID)>>)

SignBytesKeyUpdate(keyUpdateID, vaultID, memberSeq, memberHeadHash, targetDeviceID, keyEpoch, nonce, wrappedPayload, createdByDeviceID) ==
  Encode(Header("key_update") \o
         <<W("key_update_id", "uuid", keyUpdateID),
           W("vault_id", "uuid", vaultID), W("member_seq", "u64", memberSeq),
           W("member_head_hash", "hash", memberHeadHash),
           W("target_device_id", "device_id", targetDeviceID),
           W("key_epoch", "u64", keyEpoch), W("nonce", "nonce", nonce),
           W("wrapped_payload", "bytes", wrappedPayload),
           W("created_by_device_id", "device_id", createdByDeviceID)>>)

SignBytesKeyUpdateAck(vaultID, deviceID, keyEpoch, memberSeq, memberHeadHash) ==
  Encode(Header("key_update_ack") \o
         <<W("vault_id", "uuid", vaultID),
           W("device_id", "device_id", deviceID),
           W("key_epoch", "u64", keyEpoch), W("member_seq", "u64", memberSeq),
           W("member_head_hash", "hash", memberHeadHash)>>)

SignBytesSnapshot(snapshotID, vaultID, baseSeq, memberSeq, memberHeadHash, baseCounterMap, headHashMap, lamportAtSnapshot, keyEpoch, nonce, ciphertext, createdByDeviceID) ==
  Encode(Header("snapshot") \o
         <<W("snapshot_id", "uuid", snapshotID), W("vault_id", "uuid", vaultID),
           W("base_seq", "u64", baseSeq), W("member_seq", "u64", memberSeq),
           W("member_head_hash", "hash", memberHeadHash),
           W("base_counter_map", "bytes", baseCounterMap),
           W("head_hash_map", "bytes", headHashMap),
           W("lamport_at_snapshot", "u64", lamportAtSnapshot),
           W("key_epoch", "u64", keyEpoch), W("nonce", "nonce", nonce),
           W("ciphertext", "bytes", ciphertext),
           W("created_by_device_id", "device_id", createdByDeviceID)>>)

(***************************************************************************)
(* Sorted maps: WriteDeviceIDCounterMap and WriteDeviceIDHashMap.  An      *)
(* entry is [id |-> device_id bytes, val |-> counter or hash].  sort.Slice *)
(* is not stable, so each writer gives the set of encodings it may produce.*)
(***************************************************************************)

\* bytes.Compare(a, b) < 0
RECURSIVE LexLess(_, _)
LexLess(a, b) ==
  /\ b # <<>>
  /\ \/ a = <<>>
     \/ Head(a) < Head(b)
     \/ Head(a) = Head(b) /\ LexLess(Tail(a), Tail(b))

\* the entries of es in every order
Reorderings(es) == {[i \in 1..Len(es) |-> es[p[i]]] : p \in SetToSeqs(1..Len(es))}

\* sort.Slice(entries, less-by-DeviceID): any order in which no entry is
\* less than an entry before it
SortSlice(es) ==
  {s \in Reorderings(es) :
     \A i, j \in 1..Len(s) : i < j => ~LexLess(s[j].id, s[i].id)}

\* u32 entry count, then each entry's device_id and value
MapCalls(s, valueKind) ==
  <<W("count", "u32", Len(s))>> \o
  FlattenSeq([i \in 1..Len(s) |-> <<W("device_id", "device_id", s[i].id),
                                    W("value", valueKind, s[i].val)>>])

WriteDeviceIDCounterMap(entries) ==
  {Encode(MapCalls(s, "u64")) : s \in SortSlice(entries)}

WriteDeviceIDHashMap(entries) ==
  {Encode(MapCalls(s, "hash")) : s \in SortSlice(entries)}

(***************************************************************************)
(* Bounded arguments.  A fixed-width argument is all 0x00 or all 0xFF (the *)
(* zero placeholders of member_remove among them), a u64 is 0 or 258 (two  *)
(* non-zero bytes), variable bytes are empty or one byte, so two adjacent  *)
(* variable fields can trade a byte.                                       *)
(***************************************************************************)
Fx(n) == {Zeros(n), [i \in 1..n |-> 255]}
U64s == {0, 258}
Var == {<<>>, <<0>>}

\* every signed record: its tag and its constructor's arguments
SignedRecords ==
  {<<"device_bundle", a, b, c>> : a \in Fx(32), b \in Fx(32), c \in Fx(32)}
  \cup {<<"event", a, b, c, d, e, f, g, h, i>> :
        a \in Fx(16), b \in Fx(16), c \in Fx(32), d \in U64s, e \in U64s,
        f \in U64s, g \in Fx(32), h \in Fx(24), i \in Var}
  \cup {<<"member_add", a, b, c, d, e, f, g, h, i, j, k>> :
        a \in Fx(16), b \in Fx(16), c \in U64s, d \in Fx(32), e \in Fx(32),
        f \in Fx(32), g \in Fx(16), h \in Fx(64), i \in Fx(64),
        j \in Fx(32), k \in Fx(32)}
  \cup {<<"member_remove", a, b, c, d, e, f>> :
        a \in Fx(16), b \in Fx(16), c \in U64s, d \in Fx(32), e \in Fx(32),
        f \in Fx(32)}
  \cup {<<"invite", a, b, c, d, e, f, g, h, i, j>> :
        a \in Fx(16), b \in Fx(16), c \in Fx(32), d \in Fx(32), e \in Fx(32),
        f \in Fx(64), g \in Fx(24), h \in Var, i \in Fx(32), j \in BOOLEAN}
  \cup {<<"invite_claim", a, b, c>> : a \in Fx(16), b \in Fx(16), c \in Fx(32)}
  \cup {<<"key_update", a, b, c, d, e, f, g, h, i>> :
        a \in Fx(16), b \in Fx(16), c \in U64s, d \in Fx(32), e \in Fx(32),
        f \in U64s, g \in Fx(24), h \in Var, i \in Fx(32)}
  \cup {<<"key_update_ack", a, b, c, d, e>> :
        a \in Fx(16), b \in Fx(32), c \in U64s, d \in U64s, e \in Fx(32)}
  \cup {<<"snapshot", a, b, c, d, e, f, g, h, i, j, k, l>> :
        a \in Fx(16), b \in Fx(16), c \in U64s, d \in U64s, e \in Fx(32),
        f \in Var, g \in Var, h \in U64s, i \in U64s, j \in Fx(24),
        k \in Var, l \in Fx(32)}

SignBytesOf(r) ==
  CASE r[1] = "device_bundle" -> SignBytesDeviceBundle(r[2], r[3], r[4])
    [] r[1] = "event" ->
         SignBytesEvent(r[2], r[3], r[4], r[5], r[6], r[7], r[8], r[9], r[10])
    [] r[1] = "member_add" ->
         SignBytesMemberAdd(r[2], r[3], r[4], r[5], r[6], r[7], r[8], r[9],
                            r[10], r[11], r[12])
    [] r[1] = "member_remove" ->
         SignBytesMemberRemove(r[2], r[3], r[4], r[5], r[6], r[7])
    [] r[1] = "invite" ->
         SignBytesInvite(r[2], r[3], r[4], r[5], r[6], r[7], r[8], r[9],
                         r[10], r[11])
    [] r[1] = "invite_claim" -> SignBytesInviteClaim(r[2], r[3], r[4])
    [] r[1] = "key_update" ->
         SignBytesKeyUpdate(r[2], r[3], r[4], r[5], r[6], r[7], r[8], r[9],
                            r[10])
    [] r[1] = "key_update_ack" ->
         SignBytesKeyUpdateAck(r[2], r[3], r[4], r[5], r[6])
    [] r[1] = "snapshot" ->
         SignBytesSnapshot(r[2], r[3], r[4], r[5], r[6], r[7], r[8], r[9],
                           r[10], r[11], r[12], r[13])

(* Spec 4.1 and 8.3: a signature (and SHA-256) over the sign bytes binds   *)
(* exactly one record.  Over the bounded arguments every constructor       *)
(* succeeds and no two signed records, of one kind or of two kinds, have   *)
(* the same sign bytes: the version prefix and the length-prefixed tag     *)
(* separate the kinds (member_remove's zero placeholders would otherwise  *)
(* make it a member_add), and the u32 length prefixes keep adjacent        *)
(* variable fields apart (the snapshot's two maps).  This is what lets     *)
(* EventHash and MemberHash stand for SHA-256 of the sign bytes.           *)
SignBytesInjective ==
  /\ \A r \in SignedRecords : SignBytesOf(r).ok
  /\ Cardinality({SignBytesOf(r).bytes : r \in SignedRecords})
       = Cardinality(SignedRecords)

====
