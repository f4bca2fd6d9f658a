SPECIFICATION FairSpec
CONSTANTS
  MaxTasks = 5
  Budget <- AnyThree
INVARIANTS
  SourceIsGoneFirst
  FailedRelayCannotWrite
PROPERTIES
  SuccessIsEarned
  ImplementsHandover
  RelayEnds
CHECK_DEADLOCK FALSE
