\* Two member-event handlers and an invite handler, no faults: a
\* member_remove whose head upsert has committed but whose SetMemberRemoved
\* has not, and a member_add of the same device validated against that
\* head, write vault_members in the opposite order to the log.
CONSTANTS
  d1 = d1  d2 = d2  i1 = i1  i2 = i2  n1 = n1  n2 = n2  n3 = n3  n4 = n4  m1 = m1  m2 = m2  v1 = v1  v2 = v2
  k1 = k1  k2 = k2  s1 = s1  s2 = s2  p1 = p1  p2 = p2  p3 = p3  p4 = p4  c1 = c1  c2 = c2  e1 = e1  e2 = e2  q1 = q1  x1 = x1  x2 = x2
  NoInvite = NoInvite
  Devices <- MCDevices
  InviteIDs <- MCOneInviteID
  Nonces <- MCNonces
  MemberRequests <- MCTwoMembers
  InviteRequests <- MCOneInvite
  MaxMemberSeq = 3
  MaxMemberEvents = 4
  SigChoices = {TRUE}
  MemberFailingCalls <- MCNoCalls
  KeyRequests <- MCNoRequests
  Contents <- MCOneContent
  InitialDevices <- MCDevices
  DeviceRequests <- MCNoRequests
  DeviceFailingCalls <- MCNoCalls
  EventRequests <- MCNoRequests
  EventIDs <- MCEventIDs
  MaxCounter = 1
  EventStorageFaults = FALSE
  SnapshotRequests <- MCNoRequests
  KeyEpochs <- MCKeyEpochs
  SnapshotIDs <- MCSnapshotIDs
  BaseSeqs <- MCBaseSeqs
  KeyFailingCalls <- MCNoCalls
  SnapshotFailingCalls <- MCNoCalls
  InviteFailingCalls <- MCNoCalls
SYMMETRY MCSymmetry
SPECIFICATION Spec
INVARIANTS MembersMatchLog
