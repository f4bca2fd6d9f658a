SPECIFICATION Spec
CONSTANTS
  p1 = p1
  p2 = p2
  l1 = l1
  l2 = l2
  Controllers <- MCControllers
  Leases <- MCLeases
  Errors <- MCErrors
  Resolutions <- MCResolutions
  Modes <- MCModes
  WorkStatuses <- MCWorkStatuses
  Disturbances <- AllDisturbances
  MaxVersion = 4
INVARIANTS
  RunAndLeaseAgree
  AcknowledgedCommandsAreCommitted
PROPERTIES
  LeaseChangesFirst
SYMMETRY Symmetry
CHECK_DEADLOCK FALSE
