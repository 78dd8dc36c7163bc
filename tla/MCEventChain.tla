---------------------------- MODULE MCEventChain ----------------------------
(* Model-checking instance of EventChain: two devices, one of them a       *)
(* member, and a non-member to reach membership_required.                  *)
EXTENDS EventChain, Cbe

CONSTANTS d1, d2, e1, e2, e3, r1, r2

MCDevices == {d1, d2}
MCMembers == {d1}
MCEventIDs == {e1, e2, e3}
MCTwoRequests == {r1, r2}
MCOneRequest == {r1}

\* event ids are interchangeable: nothing orders or distinguishes them
MCSymmetry == Permutations(MCEventIDs)

(* Spec 4.1, 8.2: event_hash = SHA-256(SignBytesEvent(...)) names exactly  *)
(* one stored event, and a later event's prev_hash names its predecessor. *)
(* No two stored events share a hash, even when concurrent posts fork the *)
(* chain (two events with one counter and one prev_hash): event_id is      *)
(* signed.  EventHash keeps only the fields the model has; the code's      *)
(* hash tells events apart as well only because the sign bytes are         *)
(* injective, which SignBytesInjective checks for every kind of record.    *)
HashesBindEvents ==
  /\ SignBytesInjective
  /\ \A i, j \in 1..Len(log) : i # j => log[i].hash # log[j].hash
=============================================================================
