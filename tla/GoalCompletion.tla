---------------------------- MODULE GoalCompletion ----------------------------
(****************************************************************************)
(* GitGoalCompletionGuard.observe                                              *)
(* (controller/production/goal-completion-guard.ts): where the agent commits    *)
(* for itself, the controller only looks at what it left behind.  The request   *)
(* carries the baseline and the snapshot of an execution; the commit between    *)
(* them and the checkpoint's bytes are read when observe runs.                 *)
(****************************************************************************)
EXTENDS SliceExecution

VARIABLES
  goalMode,  \* the commit mode of the request
  goal       \* the completion receipt, or NoGoal

goalVars == <<goalMode, goal>>
NoGoal == [created |-> FALSE, start |-> 0, end |-> 0, paths |-> {}, document |-> Absent]

GoalInit == goalMode \in {"after_slice", "none"} /\ goal = NoGoal

StatesOf(s, p) == IF p \in Listed(s) THEN {s.entries[p]} ELSE {}
WithoutCheckpoint(s) ==
  [s EXCEPT !.entries = [p \in Listed(s) \ {Checkpoint} |-> s.entries[p]]]

(* The snapshot must show a checkpoint the baseline did not; its bytes are     *)
(* those of the file as it is now.                                            *)
CheckpointIsRefreshed ==
  /\ Checkpoint \in Listed(snapshot)
  /\ StatesOf(snapshot, Checkpoint) # StatesOf(baseline, Checkpoint)
  /\ work[Checkpoint] # Absent

(* The paths the commit between two heads changed.                            *)
CommitChanges(from, to) == {p \in Paths : commits[from].tree[p] # commits[to].tree[p]}

CompletedWithoutCommit ==
  /\ baseline.head = snapshot.head
  /\ IsCommittable(Classify(WithoutCheckpoint(baseline), WithoutCheckpoint(snapshot)))

CompletedWithCommit ==
  LET changed == CommitChanges(baseline.head, snapshot.head)
  IN /\ baseline.head # snapshot.head
     /\ commits[snapshot.head].parent = baseline.head
     /\ changed # {}
     /\ changed \cap Listed(baseline) = {}
     /\ \A p \in changed : IsOwned(p) /\ p # Checkpoint
     /\ WithoutCheckpoint(baseline).entries = WithoutCheckpoint(snapshot).entries

GoalReceipt ==
  [created |-> goalMode = "after_slice", start |-> baseline.head, end |-> snapshot.head,
   paths |-> IF goalMode = "none"
             THEN PatchOf(WithoutCheckpoint(baseline), WithoutCheckpoint(snapshot)).paths
             ELSE CommitChanges(baseline.head, snapshot.head),
   document |-> work[Checkpoint]]

GoalCompleted ==
  /\ pc = "collected"
  /\ CheckpointIsRefreshed
  /\ IF goalMode = "none" THEN CompletedWithoutCommit ELSE CompletedWithCommit
  /\ goal' = GoalReceipt
  /\ Ends("ok")
  /\ UNCHANGED <<gitVars, check, lease, receipts, baseline, snapshot, verification, patch, goalMode>>

(* Everything else, git and the clock included, is one error.                 *)
GoalRefused ==
  /\ pc = "collected"
  /\ Ends("slice_verification_failed")
  /\ UNCHANGED <<gitVars, check, lease, receipts, baseline, snapshot, verification, patch, goalVars>>

GoalSteps == GoalCompleted \/ GoalRefused
=============================================================================
