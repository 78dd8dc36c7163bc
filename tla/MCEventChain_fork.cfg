\* Two concurrent requests, no faults: spec section 8 invariant 1 under races.
CONSTANTS
  d1 = d1  d2 = d2  e1 = e1  e2 = e2  e3 = e3  r1 = r1  r2 = r2
  Devices <- MCDevices
  InitialMembers <- MCMembers
  EventIDs <- MCEventIDs
  Requests <- MCTwoRequests
  MaxCounter = 3
  StorageFaults = FALSE
SYMMETRY MCSymmetry
SPECIFICATION Spec
INVARIANTS CountersStrictlyIncrease
