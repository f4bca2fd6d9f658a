\* Two calls of start, of which one gets a thread, and one compaction id.  Two
\* notifications besides the end of the turn are enough to start a compaction and
\* complete it, to start one twice, or to reroute the model before it.
SPECIFICATION TaskSpec
CONSTANTS
  Sessions = {s1, s2}
  Compactions = {c1}
  MaxThreads = 1
  MaxEvents = 2
CHECK_DEADLOCK FALSE
INVARIANTS StreamIsSound ReceiptsAreEarned InterruptReceiptMeansStopped
PROPERTIES SessionsEnd
