SPECIFICATION RuntimeSpec
CONSTANTS
  Null = Null
  i1 = i1
  Invocations <- OneInvocation
  Plans <- SomePlans
  Timings <- SomeTimings
  MaximumSlices = 2
  MaxTime = 3
  MaxTasks = 3
CHECK_DEADLOCK FALSE
INVARIANTS NoRepeatedSlice
