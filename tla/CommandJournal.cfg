SPECIFICATION JournalSpec
CONSTANTS
  Callers = {p1, p2, p3}
  Ids = {i1, i2}
  Requests = {r1, r2}
  Outcomes = {"OK", "REJECTED"}
INVARIANTS
  ExecutedAtMostOnce
  RepliesAreTheJournaledReceipt
