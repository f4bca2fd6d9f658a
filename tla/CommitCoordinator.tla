--------------------------- MODULE CommitCoordinator ---------------------------
(****************************************************************************)
(* CommitCoordinator.finishSlice (controller/git/commit-coordinator.ts) with   *)
(* its CheckpointWriter: the verified patch is staged in an alternate index,   *)
(* the worktree is inspected again, the commit is made, the caller's index is  *)
(* reconciled and the checkpoint is replaced.                                  *)
(*                                                                           *)
(* Each git process is a step: git commit takes the parent that HEAD names at   *)
(* that moment, the coordinator reads the head afterwards, and others may have  *)
(* moved it twice by then.  The caller may call again with the same input       *)
(* after a failure; a process that dies between two steps just stops there,    *)
(* for nothing in this code repairs a half-finished call.                      *)
(****************************************************************************)
EXTENDS SliceExecution

CONSTANTS MaxTries  \* bound: calls of finishSlice with one input
ASSUME MaxTriesAssumption == MaxTries \in Nat \ {0}

VARIABLES
  mode,       \* the frozen commit mode: "after_slice" or "none"
  tries,      \* calls so far
  alternate,  \* the tree of the alternate index, or NoTree
  committed   \* actual_head as the running call knows it

finishVars == <<mode, tries, alternate, committed>>
NoTree == << >>
DocBytes == {Document(h) : h \in 1..(MaxEdits + MaxTries + 1)}

FinishInit == mode \in {"after_slice", "none"} /\ tries = 0 /\ alternate = NoTree /\ committed = 0

StartHead == patch.head

(* The answer of a call: a code, commit_created, start_head and actual_head.   *)
Replies(code, created, end) ==
  /\ pc' = "answered"
  /\ answer' = [code |-> code, created |-> created, start |-> StartHead, end |-> end]

(* Fault for the mutation runs: a retry goes on with the staged tree.          *)
RetryResumesAtTheCommit ==
  /\ pc = "ready" \/ (pc = "answered" /\ answer.code # "ok")
  /\ tries < MaxTries
  /\ tries' = tries + 1
  /\ pc' = (IF alternate = NoTree THEN "validate" ELSE "commit")
  /\ answer' = Answer(None) /\ committed' = StartHead
  /\ UNCHANGED <<gitVars, check, lease, receipts, baseline, snapshot, verification, patch, mode, alternate>>

BeginFinish ==
  /\ pc = "ready" \/ (pc = "answered" /\ answer.code # "ok")
  /\ tries < MaxTries
  /\ tries' = tries + 1
  /\ pc' = "validate" /\ answer' = Answer(None) /\ alternate' = NoTree /\ committed' = StartHead
  /\ UNCHANGED <<gitVars, check, lease, receipts, baseline, snapshot, verification, patch, mode>>

(* validateInput, before it looks at the worktree.                            *)
InputRefused ==
  /\ pc = "validate" /\ capture = NoCapture
  /\ \/ Replies("finish_input_invalid", FALSE, StartHead)
     \/ verification.patch # patch /\ Replies("owned_patch_invalid", FALSE, StartHead)
  /\ UNCHANGED <<gitVars, check, lease, receipts, baseline, snapshot, verification, patch, finishVars>>

ValidationCode(current) ==
  IF current = NoSnapshot THEN "git_inspection_failed"
  ELSE IF current.head # StartHead THEN "head_drift"
  ELSE IF ~IsCommittable(Classify(baseline, current)) THEN "protected_change_overlap"
  ELSE IF PatchOf(baseline, current) # patch THEN "owned_patch_invalid"
  ELSE IF mode = "after_slice" /\ patch.paths = {} THEN "owned_patch_invalid"
  ELSE None

ValidateInput ==
  /\ pc = "validate" /\ verification.patch = patch
  /\ \E current \in Captured :
       LET code == ValidationCode(current)
       IN /\ capture' = NoCapture
          /\ IF code # None
             THEN Replies(code, FALSE, IF current = NoSnapshot THEN StartHead ELSE current.head)
             ELSE pc' = (IF mode = "none" THEN "checkpoint" ELSE "stage") /\ UNCHANGED answer
  /\ UNCHANGED <<repository, check, lease, receipts, baseline, snapshot, verification, patch, finishVars>>

-----------------------------------------------------------------------------
(* prepareAlternateIndex.                                                    *)

StagedTree == [p \in Paths |-> IF p \in patch.paths THEN work[p] ELSE commits[StartHead].tree[p]]
StagedPaths == {p \in Paths : StagedTree[p] # commits[StartHead].tree[p]}

(* A file Git did not know is not compared: Git may normalise its bytes.      *)
IsNewFile(s) == s.head = Absent /\ s.index = Absent /\ s.work # Absent
StagedMatches(p) ==
  LET s == patch.entries[p]
  IN \/ IsNewFile(s)
     \/ [from |-> commits[StartHead].tree[p], to |-> StagedTree[p]] = s.patch

StagingCode ==
  IF \E p \in patch.paths : work[p] = Absent /\ commits[StartHead].tree[p] = Absent
  THEN "commit_failed"                    \* git add: the pathspec matches nothing
  ELSE IF StagedPaths # patch.paths \/ \E p \in patch.paths : ~StagedMatches(p)
  THEN "stage_scope_mismatch"
  ELSE None

(* A git process that fails while staging: the call reads the head and says so; *)
(* a head it cannot read it takes for unmoved.                                *)
StageAlternateIndex ==
  /\ pc = "stage"
  /\ \/ StagingCode = None /\ pc' = "recheck" /\ alternate' = StagedTree /\ UNCHANGED answer
     \/ StagingCode = "stage_scope_mismatch" /\ Replies(StagingCode, FALSE, StartHead) /\ UNCHANGED alternate
     \/ /\ Replies("commit_failed", head # StartHead, head) \/ Replies("commit_failed", FALSE, StartHead)
        /\ UNCHANGED alternate
  /\ UNCHANGED <<gitVars, check, lease, receipts, baseline, snapshot, verification, patch, mode, tries, committed>>

RecheckCode(current) ==
  IF current = NoSnapshot THEN "git_inspection_failed"
  ELSE IF current.head # StartHead THEN "head_drift"
  ELSE IF current # patch.current THEN "owned_patch_invalid"
  ELSE None

(* The worktree must still be what the patch was derived from.                *)
RecheckWorktree ==
  /\ pc = "recheck"
  /\ \E current \in Captured :
       LET code == RecheckCode(current)
       IN /\ capture' = NoCapture
          /\ IF code # None
             THEN Replies(code, FALSE, IF current = NoSnapshot THEN StartHead ELSE current.head)
             ELSE pc' = "commit" /\ UNCHANGED answer
  /\ UNCHANGED <<repository, check, lease, receipts, baseline, snapshot, verification, patch, finishVars>>

-----------------------------------------------------------------------------
(* The commit, the head it left behind and the caller's index.                *)

GitCommit ==
  /\ pc = "commit"
  /\ alternate # HeadTree
  /\ AppendCommit(alternate, tries)
  /\ pc' = "readhead"
  /\ UNCHANGED <<index, work, edits, capture, check, lease, answer, receipts, baseline, snapshot,
                 verification, patch, finishVars>>

(* Fault for the mutation runs: the checkpoint is written whatever git said.   *)
CommitFailureIsIgnored ==
  /\ pc = "commit"
  /\ pc' = "checkpoint" /\ committed' = head
  /\ UNCHANGED <<gitVars, check, lease, answer, receipts, baseline, snapshot, verification, patch, mode, tries, alternate>>

(* Nothing to commit, a hook that refuses, a lock: HEAD is read all the same.  *)
GitCommitFails ==
  /\ pc = "commit"
  /\ \/ Replies("commit_failed", head # StartHead, head)
     \/ Replies("commit_failed", FALSE, StartHead)
  /\ UNCHANGED <<gitVars, check, lease, receipts, baseline, snapshot, verification, patch, finishVars>>

(* A git that was killed after it made the commit counts as a failed one.      *)
ReadHeadAfterCommit ==
  /\ pc = "readhead"
  /\ committed' = head
  /\ \/ pc' = "reconcile" /\ UNCHANGED answer
     \/ Replies("commit_failed", head # StartHead, head)
  /\ UNCHANGED <<gitVars, check, lease, receipts, baseline, snapshot, verification, patch, mode, tries, alternate>>

(* tryReadHead answers null: the call takes the head for unmoved.             *)
HeadIsUnreadable ==
  /\ pc = "readhead"
  /\ Replies("commit_failed", FALSE, StartHead)
  /\ UNCHANGED <<gitVars, check, lease, receipts, baseline, snapshot, verification, patch, finishVars>>

ReconciledIndex == [p \in Paths |-> IF p \in patch.paths THEN commits[committed].tree[p] ELSE index[p]]

ReconcileIndex ==
  /\ pc = "reconcile"
  /\ index' = ReconciledIndex
  /\ pc' = "checkpoint"
  /\ UNCHANGED <<commits, head, work, edits, capture, check, lease, answer, receipts, baseline, snapshot,
                 verification, patch, finishVars>>
(* Fault for the mutation runs: a failure after the commit denies the commit.  *)
ReconcileFailureDeniesCommit ==
  /\ pc = "reconcile"
  /\ Replies("commit_failed", FALSE, committed)
  /\ UNCHANGED <<gitVars, check, lease, receipts, baseline, snapshot, verification, patch, finishVars>>
ReconcileFails ==
  /\ pc = "reconcile"
  /\ Replies("commit_failed", TRUE, committed)
  /\ UNCHANGED <<gitVars, check, lease, receipts, baseline, snapshot, verification, patch, finishVars>>

-----------------------------------------------------------------------------
(* The checkpoint: a flushed temporary file takes the target's name.           *)

ReturnReceipt == Replies("ok", mode = "after_slice", committed)

WriteCheckpoint ==
  /\ pc = "checkpoint"
  /\ work' = [work EXCEPT ![Checkpoint] = Document(committed)]
  /\ \/ ReturnReceipt
     \/ Replies("finish_input_invalid", mode = "after_slice", committed)   \* the clock
  /\ UNCHANGED <<commits, head, index, edits, capture, check, lease, receipts, baseline, snapshot,
                 verification, patch, finishVars>>

CheckpointFails ==
  /\ pc = "checkpoint"
  /\ \E code \in {"checkpoint_invalid", "checkpoint_refresh_failed"} :
       Replies(code, mode = "after_slice", committed)
  /\ UNCHANGED <<gitVars, check, lease, receipts, baseline, snapshot, verification, patch, finishVars>>

FinishSteps ==
  \/ BeginFinish \/ InputRefused \/ ValidateInput \/ StageAlternateIndex \/ RecheckWorktree
  \/ GitCommit \/ GitCommitFails \/ ReadHeadAfterCommit \/ HeadIsUnreadable
  \/ ReconcileIndex \/ ReconcileFails \/ WriteCheckpoint \/ CheckpointFails
=============================================================================
