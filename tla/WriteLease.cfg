SPECIFICATION Spec
CONSTANTS
  p1 = p1
  p2 = p2
  l1 = l1
  l2 = l2
  Processes <- MCProcesses
  Leases <- MCLeases
  Duration = 1
  MaxAttempts = 2
  MaxTime = 2
  MaxEvents = 3
INVARIANTS
  GrantedLeaseHoldsWorkspace
  AuthorityIsFresh
PROPERTIES
  OldEpochsStayDead
SYMMETRY LeaseSymmetry
