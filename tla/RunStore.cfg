SPECIFICATION Spec
CONSTANTS
  p1 = p1
  p2 = p2
  Processes <- MCProcesses
  Slices <- MCSlices
  Baselines <- MCBaselines
  Threads <- MCThreads
  Transitions <- MCTransitions
  InitialRun <- MCInitialRun
  MaxVersion = 2
INVARIANTS
  AcknowledgedWritesAreOwn
PROPERTIES
  ImplementsRegister
SYMMETRY Symmetry
