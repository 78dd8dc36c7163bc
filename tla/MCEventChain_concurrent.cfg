\* Two concurrent requests and storage faults: what survives interleaving.
CONSTANTS
  d1 = d1  d2 = d2  e1 = e1  e2 = e2  e3 = e3  r1 = r1  r2 = r2
  Devices <- MCDevices
  InitialMembers <- MCMembers
  EventIDs <- MCEventIDs
  Requests <- MCTwoRequests
  MaxCounter = 3
  StorageFaults = TRUE
SYMMETRY MCSymmetry
SPECIFICATION Spec
INVARIANTS TypeOK HeadIsStored EventsLinked HashesBindEvents
