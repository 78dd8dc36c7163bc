\* Snapshots posted one at a time, no storage faults, every goroutine
\* scheduled: do the PruneOld goroutines bring the count back to three?
CONSTANTS
  d1 = d1  d2 = d2  i1 = i1  i2 = i2  n1 = n1  n2 = n2  n3 = n3  n4 = n4  m1 = m1  m2 = m2  v1 = v1  v2 = v2
  k1 = k1  k2 = k2  s1 = s1  s2 = s2  p1 = p1  p2 = p2  p3 = p3  p4 = p4  c1 = c1  c2 = c2  e1 = e1  e2 = e2  q1 = q1  x1 = x1  x2 = x2
  NoInvite = NoInvite
  Devices <- MCDevices
  InviteIDs <- MCOneInviteID
  Nonces <- MCFourNonces
  MemberRequests <- MCOneMember
  InviteRequests <- MCNoRequests
  KeyRequests <- MCNoRequests
  Contents <- MCOneContent
  InitialDevices <- MCDevices
  DeviceRequests <- MCNoRequests
  DeviceFailingCalls <- MCNoCalls
  EventRequests <- MCNoRequests
  EventIDs <- MCEventIDs
  MaxCounter = 1
  EventStorageFaults = FALSE
  SnapshotRequests <- MCOneSnapshot
  MaxMemberSeq = 1
  MaxMemberEvents = 1
  SigChoices = {TRUE}
  KeyEpochs <- MCKeyEpochs
  SnapshotIDs <- MCSnapshotIDs
  BaseSeqs <- MCBaseSeqs
  MemberFailingCalls <- MCNoCalls
  InviteFailingCalls <- MCNoCalls
  KeyFailingCalls <- MCNoCalls
  SnapshotFailingCalls <- MCNoCalls

SPECIFICATION FairSpec
PROPERTY SnapshotsPruned
