\* Two compactions that may overlap, a timer that may be early by one, and room for the
\* events of both, a pause and a resume.
SPECIFICATION FairSpec
CONSTANTS
  Compactions = {c1, c2}
  Threads = {source, other}
  SourceThread = source
  Timeout = 2
  Early = 1
  Disturbances <- AllDisturbances
  MaxTime = 4
  MaxSequence = 3
  MaxVersion = 4
PROPERTIES
  NoEarlyInterruption
  OnlyPunctualCompletionRecovers
  MonitorIsTrue
  GuardedWaitsEnd
CHECK_DEADLOCK FALSE
