\* Four calls are enough for a session with two turns beside another session or
\* call; two turns per session and one item per turn reach both limits.
SPECIFICATION FairSpec
CONSTANTS
  MaxCalls = 4
  Threads = {s1, s2}
  Turns = {t1, t2}
  MaxTurns = 2
  MaxItems = 1
INVARIANTS TurnsAreSound FailureReachesEveryWaiter
PROPERTIES HandlesAreAlive CallsEnd
CHECK_DEADLOCK FALSE
