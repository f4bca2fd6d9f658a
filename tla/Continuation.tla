----------------------------- MODULE Continuation -----------------------------
(***************************************************************************)
(* ContinuationCoordinator.continueFromHandoff                             *)
(* (continuation/continuation-coordinator.ts): start a continuation task   *)
(* that only reads, let it prove that it is ready, give it the rotated     *)
(* write epoch, observe its progress, and commit SLICE_RUNNING with it as  *)
(* the new source.  The lease is asserted before and after the grant, and  *)
(* a failure after the grant freezes it.                                   *)
(***************************************************************************)
EXTENDS RelayState

\* The version of the effects, of replays too.
StartKey    == Key("start_continuation_task", local.expected, NoTask)
GrantKey    == Key("grant_continuation_write", local.expected, local.task)
ProgressKey == Key("observe_continuation_progress", local.expected, local.task)

\* continueFromHandoffInner's catch; a replay changes nothing.
ContinuationFails == Continue(IF local.replay THEN "closeFailure" ELSE "loadFailed")

\* Loading and validating; the handoff it verifies is the previous stage's.
ContinueFromHandoff ==
  /\ pc = "continue"
  /\ LET l == local
         isDone == /\ run.status = "SLICE_RUNNING" /\ run.state_version = l.expected + 1
                   /\ run.continuation # NoTask
     IN  \/ /\ isDone
            /\ Remember("assertFirst", [l EXCEPT !.base = run, !.replay = TRUE])
            /\ UNCHANGED left
         \/ /\ run.state_version = l.expected
            /\ Remember("assertFirst", [l EXCEPT !.base = run])
            /\ UNCHANGED left
         \/ /\ ~isDone /\ run.state_version # l.expected
            /\ GiveUp
            /\ UNCHANGED left
         \/ Happens("store") /\ GiveUp
  /\ UNCHANGED <<disk, world, control>>

\* decodeAndVerifyHandoffReceipt, before the first two assertions: the artifacts
\* of the handoff cannot be read, or are not what their receipt says.
ArtifactsFail == pc \in {"assertFirst", "assertBefore"} /\ Happens("store")

\* assertLease, at the three places that call it.
AfterAssert == [assertFirst |-> "intendStart", assertBefore |-> "intendGrant",
                assertAfter |-> "intendProgress"]

AssertLease ==
  /\ pc \in DOMAIN AfterAssert
  /\ \/ IsWritable(local.base.epoch) /\ Continue(AfterAssert[pc]) /\ UNCHANGED left
     \/ ~IsWritable(local.base.epoch) /\ ContinuationFails /\ UNCHANGED left
     \/ Happens("guard") /\ ContinuationFails
     \/ ArtifactsFail /\ ContinuationFails
  /\ UNCHANGED <<disk, world, control>>

\* appendEffect.  From the grant's intent on, a grant may have occurred.
AppendEffect(label, key, next, mayBeGranted) ==
  /\ pc = label
  /\ \/ /\ Intended(key)
        /\ Remember(next,
             [local EXCEPT !.known = IsCompleted(key), !.granted = @ \/ mayBeGranted])
     \/ IntentRefused(key) /\ ContinuationFails
  /\ UNCHANGED <<run, lease, world, control>>

\* Fault for the mutation runs: the grant's intent is not noticed.
IntendGrantUnnoticed == AppendEffect("intendGrant", GrantKey, "grantWrite", FALSE)

IntendStart    == AppendEffect("intendStart", StartKey, "startTask", FALSE)
IntendGrant    == AppendEffect("intendGrant", GrantKey, "grantWrite", TRUE)
IntendProgress == AppendEffect("intendProgress", ProgressKey, "awaitProgress", FALSE)

\* AppServerContinuationTaskLauncher.start and awaitReady: a launcher knows the
\* tasks of its own process only.  A replay expects the task the Run names.
Started == Known("continuation", local.expected)

Ready(t) ==
  IF local.replay /\ t # local.base.continuation
  THEN ContinuationFails
  ELSE Remember("completeStart", [local EXCEPT !.task = t])

StartTask ==
  /\ pc = "startTask"
  /\ LET task(phase) ==
           [kind |-> "continuation", version |-> local.expected, known |-> TRUE, phase |-> phase]
     IN  \/ /\ \E t \in Started :
                 /\ tasks[t].phase # "started" \/ process.connected
                 /\ tasks' = IF tasks[t].phase = "started"
                             THEN [tasks EXCEPT ![t].phase = "ready"] ELSE tasks
                 /\ Ready(t)
            /\ UNCHANGED left
         \/ /\ Started = {} /\ process.connected
            /\ Len(tasks) < MaxTasks
            /\ tasks' = Append(tasks, task("ready"))
            /\ Ready(Len(tasks) + 1)
            /\ UNCHANGED left
         \/ /\ HostFails
            /\ \/ UNCHANGED tasks
               \/ /\ Started = {} /\ process.connected
                  /\ Launch("continuation", local.expected)
            /\ ContinuationFails
  /\ UNCHANGED <<disk, stopped, grants, process, control>>

\* grantWrite starts the task's turn with write access, if the launcher has the
\* task and it proved ready.  The turn may start although the call fails.
GrantWrite ==
  /\ pc = "grantWrite"
  /\ LET grant == [task |-> local.task, epoch |-> local.base.epoch]
     IN  \/ /\ process.connected \/ grant \in grants
            /\ grants' = grants \cup {grant}
            /\ Continue("completeGrant")
            /\ UNCHANGED left
         \/ /\ HostFails
            /\ UNCHANGED grants \/ (process.connected /\ grants' = grants \cup {grant})
            /\ ContinuationFails
  /\ UNCHANGED <<disk, tasks, stopped, process, control>>

\* awaitProgress: the turn with write access ends.
AwaitProgress ==
  /\ pc = "awaitProgress"
  /\ \/ /\ process.connected \/ tasks[local.task].phase = "completed"
        /\ Enter("completed", local.task)
        /\ Continue("completeProgress")
        /\ UNCHANGED left
     \/ /\ HostFails
        /\ UNCHANGED tasks \/ (process.connected /\ Enter("completed", local.task))
        /\ ContinuationFails
  /\ UNCHANGED <<disk, stopped, grants, process, control>>

\* Fault for the mutation runs: a refused completion is ignored.
CompleteIfPossible(label, key, next) ==
  /\ pc = label
  /\ \/ Completed(key, local.task)
     \/ CompletionRefused(key, local.task)
     \/ CompletionFails
  /\ Continue(next)
  /\ UNCHANGED <<run, lease, world, control>>

\* completeEffect
CompleteEffect(label, key, next) ==
  /\ pc = label
  /\ \/ Completed(key, local.task) /\ Continue(next)
     \/ CompletionRefused(key, local.task) /\ ContinuationFails
     \/ CompletionFails /\ ContinuationFails
     \/ CompletionUnknown(key, local.task) /\ ContinuationFails
  /\ UNCHANGED <<run, lease, world, control>>

CompleteStart == CompleteEffect("completeStart", StartKey, "assertBefore")
CompleteGrant == CompleteEffect("completeGrant", GrantKey, "assertAfter")
CompleteProgress ==
  CompleteEffect("completeProgress", ProgressKey,
                 IF local.replay THEN "checkResumed" ELSE "commitContinuation")

ContinuedRun ==
  [local.base EXCEPT
     !.status = "SLICE_RUNNING", !.source = local.task, !.continuation = local.task,
     !.gate = FALSE, !.attempted = FALSE]

CommitContinuation ==
  /\ pc = "commitContinuation"
  /\ \/ Committed(ContinuedRun) /\ Continue("checkResumed")
     \/ Stale /\ Continue("checkContinuation")
     \/ PersistFailed(ContinuedRun) /\ Continue("checkContinuation")
  /\ UNCHANGED <<lease, ledger, world, control>>

\* isTerminalSuccess
IsContinued ==
  /\ run.status = "SLICE_RUNNING" /\ run.state_version = local.expected + 1
  /\ run.source = local.task /\ run.continuation = local.task /\ ~run.gate

CheckContinuation ==
  /\ pc = "checkContinuation"
  /\ \/ Continue(IF IsContinued THEN "checkResumed" ELSE "loadFailed") /\ UNCHANGED left
     \/ Happens("store") /\ Continue("loadFailed")
  /\ UNCHANGED <<disk, world, control>>

\* closeFailure: a Run that moved on is left alone...
LoadFailed ==
  /\ pc = "loadFailed"
  /\ LET isOurs == run.status = "CONTINUATION_STARTING" /\ run.state_version = local.expected
     IN  \/ isOurs /\ local.granted /\ Continue("freezeFailed") /\ UNCHANGED left
         \/ isOurs /\ ~local.granted /\ Continue("failContinuation") /\ UNCHANGED left
         \/ ~isOurs /\ GiveUp /\ UNCHANGED left
         \/ Happens("store") /\ GiveUp
  /\ UNCHANGED <<disk, world, control>>

\* ... a lease that may have been granted is frozen...
FreezeFailed ==
  /\ pc = "freezeFailed"
  /\ LET isValid  == IsValid(local.base.epoch)
         unfrozen == Remember("failContinuation", [local EXCEPT !.unfrozen = TRUE])
     IN  \/ isValid /\ FreezeWrites /\ Continue("failContinuation") /\ UNCHANGED left
         \/ ~isValid /\ unfrozen /\ UNCHANGED <<lease, left>>
         \/ GuardFails /\ unfrozen
  /\ UNCHANGED <<run, ledger, world, control>>

FailedContinuation ==
  [local.base EXCEPT
     !.status = "NEEDS_USER", !.resume_to = "CONTINUATION_STARTING", !.unfrozen = local.unfrozen]

\* ... and the failure is committed, with that of freezing.
FailContinuation ==
  /\ pc = "failContinuation"
  /\ \/ Committed(FailedContinuation) /\ GiveUp
     \/ Stale /\ GiveUp
     \/ PersistFailed(FailedContinuation) /\ GiveUp
  /\ UNCHANGED <<lease, ledger, world, control>>

ContinuationNext ==
  \/ ContinueFromHandoff
  \/ AssertLease
  \/ IntendStart
  \/ StartTask
  \/ CompleteStart
  \/ IntendGrant
  \/ GrantWrite
  \/ CompleteGrant
  \/ IntendProgress
  \/ AwaitProgress
  \/ CompleteProgress
  \/ CommitContinuation
  \/ CheckContinuation
  \/ LoadFailed
  \/ FreezeFailed
  \/ FailContinuation

=============================================================================
