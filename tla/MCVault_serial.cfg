\* One member-event, one invite and one snapshot handler, no membership or
\* invite storage faults: the validators' checks when the membership
\* handlers do not race.  The snapshot handler's storage calls may fail.
CONSTANTS
  d1 = d1  d2 = d2  i1 = i1  i2 = i2  n1 = n1  n2 = n2  n3 = n3  n4 = n4  m1 = m1  m2 = m2  v1 = v1  v2 = v2
  k1 = k1  k2 = k2  s1 = s1  s2 = s2  p1 = p1  p2 = p2  p3 = p3  p4 = p4  c1 = c1  c2 = c2  e1 = e1  e2 = e2  q1 = q1  x1 = x1  x2 = x2
  NoInvite = NoInvite
  Devices <- MCDevices
  InviteIDs <- MCTwoInviteIDs
  Nonces <- MCNonces
  MemberRequests <- MCOneMember
  InviteRequests <- MCOneInvite
  MaxMemberSeq = 4
  MaxMemberEvents = 5
  SigChoices = {TRUE, FALSE}
  MemberFailingCalls <- MCNoCalls
  KeyRequests <- MCNoRequests
  Contents <- MCOneContent
  InitialDevices <- MCDevices
  DeviceRequests <- MCNoRequests
  DeviceFailingCalls <- MCNoCalls
  EventRequests <- MCNoRequests
  EventIDs <- MCEventIDs
  MaxCounter = 1
  EventStorageFaults = FALSE
  SnapshotRequests <- MCOneSnapshot
  KeyEpochs <- MCKeyEpochs
  SnapshotIDs = {p1}
  BaseSeqs = {1}
  KeyFailingCalls <- MCNoCalls
  SnapshotFailingCalls = {"RecordNonceUsed", "snapshots.Create", "PruneOld"}
  InviteFailingCalls <- MCNoCalls
SYMMETRY MCSymmetry
SPECIFICATION Spec
INVARIANTS TypeOK MembersMatchLog SingleUseInviteAdmitsOnce
