---------------------------- MODULE SliceCompletion ----------------------------
(****************************************************************************)
(* A Slice in a worktree that others use, from its baseline to its end: the    *)
(* controller verifies and commits the patch itself, or observes what the       *)
(* agent committed.  CommitCoordinator and GoalCompletion share the execution,  *)
(* the repository and its other users.                                        *)
(****************************************************************************)
EXTENDS CommitCoordinator, GoalCompletion

vars == <<gitVars, check, executionVars, finishVars, goalVars>>

Init == SliceInit /\ FinishInit /\ GoalInit /\ goalMode = mode

(* A method that inspects the worktree starts to.                             *)
Capturing ==
  /\ pc \in {"baseline", "snapshot", "verify", "patch", "validate", "recheck"}
  /\ ReadHead
  /\ UNCHANGED repository

Next ==
  \/ (SliceSteps \/ CheckSteps) /\ UNCHANGED <<finishVars, goalVars>>
  \/ FinishSteps /\ UNCHANGED goalVars
  \/ GoalSteps /\ UNCHANGED finishVars
  \/ (Others \/ Capturing) /\ UNCHANGED <<check, executionVars, finishVars, goalVars>>

(* Nobody promises that an agent, a child process or a descendant goes on; the *)
(* timer fires, and a child whose pipes are closed is reported.               *)
Fairness == WF_vars(CheckTimesOut /\ UNCHANGED <<finishVars, goalVars>>)
         /\ WF_vars(CheckCloses /\ UNCHANGED <<finishVars, goalVars>>)

Spec == Init /\ [][Next]_vars /\ Fairness
-----------------------------------------------------------------------------
(* Properties.                                                               *)

OwnCommits == {c \in DOMAIN commits : commits[c].call # 0}
CommitOf(call) == {c \in DOMAIN commits : call # 0 /\ commits[c].call = call}

TypeOK ==
  /\ GitTypeOK
  /\ Len(receipts) <= Checks /\ tries \in 0..MaxTries
  /\ verification.result \in {None, "PASS", "FAIL"}
  /\ patch.paths \subseteq Owned
  /\ committed \in 0..Len(commits)
  /\ answer.end \in 0..Len(commits)

(* What the controller commits is exactly the verified patch on top of the     *)
(* tree the Slice started from: the paths of the patch and no others, all       *)
(* owned, none dirty before the Slice, each changed as git diff showed it in     *)
(* the snapshot taken after every check had passed (a file that the index        *)
(* dropped is deleted, though it lies in the worktree).  A file that Git did not  *)
(* know is excepted from the last clause: the code compares no bytes for it.     *)
OwnCommitIsTheVerifiedPatch ==
  \A c \in OwnCommits :
    /\ {p \in Paths : commits[c].tree[p] # commits[StartHead].tree[p]} = patch.paths
    /\ patch.paths \cap Listed(baseline) = {}
    /\ receipts = [i \in 1..Checks |-> "PASS"]
    /\ \A p \in patch.paths :
         /\ patch.entries[p] = snapshot.entries[p]
         /\ IsNewFile(patch.entries[p]) \/ commits[c].tree[p] = patch.entries[p].patch.to

(* What the answer of a call lets its caller conclude about a commit, when       *)
(* others may commit around it.  A created commit is this call's own, and part of *)
(* the head the answer names; only a commit_failed may also claim one when this    *)
(* call made none, and then it names a head that somebody else committed.  A        *)
(* receipt claims it in mode after_slice, and nothing is claimed in mode none.      *)
(* A commit the call made is denied only by a commit_failed that names the start     *)
(* head, for then the head could not be read.                                  *)
AnswersTellOfTheCommit ==
  pc = "answered" =>
    /\ answer.created =>
         \/ \E c \in CommitOf(tries) : IsAncestor(c, answer.end)
         \/ /\ answer.code = "commit_failed" /\ CommitOf(tries) = {}
            /\ answer.end # StartHead /\ commits[answer.end].call = 0
    /\ CommitOf(tries) # {} /\ ~answer.created =>
         answer.code = "commit_failed" /\ answer.end = StartHead
    /\ mode = "none" => ~answer.created /\ OwnCommits = {}
    /\ answer.code = "ok" => IF mode = "none" THEN answer.end = StartHead ELSE answer.created

(* However often the caller retries with one input, it commits once.          *)
CommittedAtMostOnce == Cardinality(OwnCommits) <= 1

(* A Slice never makes a second commit, nor gathers more than its checks gave or *)
(* a path it does not own.                                                  *)
OneCommitOfOwnedPaths == TypeOK /\ CommittedAtMostOnce

(* A checkpoint that names a head is on the disk only once the Slice's own      *)
(* commit is part of that head, or, without commits, for the start head.       *)
CheckpointFollowsTheCommit ==
  \A h \in DOMAIN commits : work[Checkpoint] = Document(h) =>
    IF mode = "none" THEN h = StartHead
    ELSE \E c \in OwnCommits : IsAncestor(c, h)

(* A goal receipt in mode after_slice stands for one commit on the baseline's    *)
(* head that changed owned paths alone, none of them dirty before; in both       *)
(* modes what was dirty before the Slice is dirty in the same way afterwards.   *)
GoalReceiptIsTrue ==
  goal # NoGoal =>
    /\ goal.document # Absent
    /\ goal.paths \subseteq Owned \ Listed(baseline)
    /\ \A p \in Listed(baseline) \ {Checkpoint} :
         /\ StatesOf(snapshot, p) = StatesOf(baseline, p)
         /\ commits[goal.end].tree[p] = commits[goal.start].tree[p]
    /\ goal.created => commits[goal.end].parent = goal.start

(* A check comes to its end unless a descendant that left its process group     *)
(* keeps the output open: a timeout kills only the group.                      *)
ChecksEnd == check.running ~> (~check.running \/ check.descendant = "escaped")
=============================================================================
