------------------------------- MODULE MCVault -------------------------------
(* Model-checking instance of Vault: two devices (an owner and a device    *)
(* it invites, removes and invites again), one or two invites, one nonce   *)
(* per scope or four snapshot nonces, two key epochs past the first, four  *)
(* snapshot ids over two base_seq values.                                  *)
EXTENDS Vault

CONSTANTS d1, d2, i1, i2, n1, n2, n3, n4, m1, m2, v1, v2, k1, k2, s1, s2,
          p1, p2, p3, p4, c1, c2, e1, e2, q1, x1, x2

MCDevices == {d1, d2}
MCOneInviteID == {i1}
MCTwoInviteIDs == {i1, i2}
MCNonces == {n1}
MCFourNonces == {n1, n2, n3, n4}
MCOneMember == {m1}
MCTwoMembers == {m1, m2}
MCOneInvite == {v1}
MCTwoInvites == {v1, v2}
MCNoRequests == {}
MCOneKey == {k1}
MCTwoKeys == {k1, k2}
MCOneSnapshot == {s1}
MCTwoSnapshots == {s1, s2}
MCKeyEpochs == {2, 3}
MCSnapshotIDs == {p1, p2, p3, p4}
MCBaseSeqs == {1, 2}
MCAllMemberCalls == {"vaults.Create", "memberEvents.Create",
                     "UpsertMembershipHead", "UpsertMember", "MarkUsed",
                     "SetMemberRemoved"}
MCAllInviteCalls == {"RecordNonceUsed", "invites.Create", "CreateClaim"}
MCAllKeyCalls == {"RecordNonceUsed", "keyUpdates.Create", "CreateAck",
                  "UpdateMemberKeyEpoch"}
MCPruneCalls == {"PruneOld"}
MCNoCalls == {}
MCOneContent == {c1}
MCTwoContents == {c1, c2}
MCFirstDevice == {d1}
MCOneEvent == {q1}
MCEventIDs == {x1, x2}
MCOneEventID == {x1}
MCOneDevice == {e1}
MCTwoDeviceRequests == {e1, e2}
MCAllDeviceCalls == {"CheckImmutability", "devices.Get", "devices.Create"}

\* devices, invite ids, nonces, snapshot ids and handlers of a kind are
\* interchangeable: no constant singles one out (the owner is whichever
\* device posts genesis).  Not used with liveness.
MCSymmetry == Permutations(MCDevices) \cup Permutations(MCTwoInviteIDs)
              \cup Permutations(MCTwoMembers) \cup Permutations(MCTwoInvites)
\* for the snapshot runs, where one device is the owner throughout
MCMemberSymmetry == Permutations(MCTwoMembers)
MCSnapshotSymmetry == Permutations(MCDevices) \cup Permutations(MCTwoSnapshots)
=============================================================================
