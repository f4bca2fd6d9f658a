\* One owned file Git knows, one owned file it does not, one file of the user and the
\* checkpoint; one check.  Two steps of others are enough to change a file and restore
\* it around a staging, or to commit before and after one.
SPECIFICATION Spec
CONSTANTS
  Paths = {tracked, fresh, users, checkpoint}
  Owned = {tracked, fresh}
  Fresh = {fresh}
  Checkpoint = checkpoint
  Artifact = fresh
  MaxEdits = 2
  Checks = 1
  MaxTries = 2
CHECK_DEADLOCK FALSE
INVARIANTS OwnCommitIsTheVerifiedPatch AnswersTellOfTheCommit OneCommitOfOwnedPaths CheckpointFollowsTheCommit GoalReceiptIsTrue
PROPERTIES ChecksEnd
