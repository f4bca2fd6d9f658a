-------------------------- MODULE CompressionHandoff --------------------------
(***************************************************************************)
(* CompressionHandoffCoordinator.exportHandoff                             *)
(* (handoff/compression-handoff-coordinator.ts): claim the only attempt of *)
(* this compaction, record the intent, start a compression task, await its *)
(* handoff, record the completion, and commit CONTINUATION_STARTING.       *)
(***************************************************************************)
EXTENDS RelayState

\* The effect belongs to the version the claim commits.
ExportKey == Key("export_handoff", local.expected + 1, NoTask)

\* isClaimedState
IsClaimed ==
  run.status = "HANDOFF_EXPORTING" /\ run.state_version = local.expected + 1 /\ run.attempted

\* Loading and validating.  A claim that another call made is joined; a version
\* at which an attempt was made already is left to explicit recovery.
ExportHandoff ==
  /\ pc = "export"
  /\ LET l == local
         isDone == run.status = "CONTINUATION_STARTING" /\ run.state_version = l.expected + 2
         isNew  == run.state_version = l.expected /\ ~run.attempted
     IN  \/ /\ isDone
            /\ Remember("intendExport", [l EXCEPT !.base = run, !.replay = TRUE])
            /\ UNCHANGED left
         \/ /\ IsClaimed
            /\ Remember("intendExport", [l EXCEPT !.base = run])
            /\ UNCHANGED left
         \/ /\ isNew
            /\ Remember("claim", [l EXCEPT !.base = run])
            /\ UNCHANGED left
         \/ /\ ~(isDone \/ IsClaimed \/ isNew)
            /\ GiveUp
            /\ UNCHANGED left
         \/ Happens("store") /\ GiveUp
  /\ UNCHANGED <<disk, world, control>>

\* claimAttempt: a claim lost to another call is as good as an own one, a claim
\* whose persistence failed is not looked up.
ClaimAttempt ==
  /\ pc = "claim"
  /\ LET claimed == [local.base EXCEPT !.attempted = TRUE]
     IN  \/ /\ Committed(claimed)
            /\ Remember("intendExport", [local EXCEPT !.base = run'])
         \/ Stale /\ Continue("checkClaim")
         \/ PersistFailed(claimed) /\ GiveUp
  /\ UNCHANGED <<lease, ledger, world, control>>

CheckClaim ==
  /\ pc = "checkClaim"
  /\ \/ /\ IF IsClaimed
           THEN Remember("intendExport", [local EXCEPT !.base = run])
           ELSE GiveUp
        /\ UNCHANGED left
     \/ Happens("store") /\ GiveUp
  /\ UNCHANGED <<disk, world, control>>

\* A replay needs the completed effect and asks for its handoff again.
IntendExport ==
  /\ pc = "intendExport"
  /\ LET key   == ExportKey
         known == IsCompleted(key)
         l     == [local EXCEPT !.known = known]
     IN  \/ /\ Intended(key)
            /\ \/ ~l.replay /\ Remember("launch", l)
               \/ l.replay /\ known /\ Remember("awaitHandoff", [l EXCEPT !.task = l.base.compression])
               \/ l.replay /\ ~known /\ GiveUp
         \/ IntentRefused(key) /\ GiveUp
  /\ UNCHANGED <<run, lease, world, control>>

\* AppServerCompressionTaskLauncher.start: what its process started for the key
\* or its journal records as completed is returned, anything else starts anew.
Launched ==
  {t \in DOMAIN tasks :
     /\ tasks[t].kind = "compression" /\ tasks[t].version = local.base.state_version
     /\ tasks[t].known \/ tasks[t].phase = "completed"}

LaunchCompression ==
  /\ pc = "launch"
  /\ LET version == local.base.state_version
     IN  \/ /\ \E t \in Launched : Remember("awaitHandoff", [local EXCEPT !.task = t])
            /\ UNCHANGED <<tasks, left>>
         \/ /\ Launched = {}
            /\ process.connected
            /\ Launch("compression", version)
            /\ Remember("awaitHandoff", [local EXCEPT !.task = Len(tasks) + 1])
            /\ UNCHANGED left
         \/ /\ Launched = {}
            /\ HostFails
            /\ UNCHANGED tasks \/ (process.connected /\ Launch("compression", version))
            /\ Continue("failExport")
  /\ UNCHANGED <<disk, stopped, grants, process, control>>

\* awaitHandoff and the verification of what it returns: the task's turn is
\* awaited where it was started, a completed receipt is read from the journal.
AwaitHandoff ==
  /\ pc = "awaitHandoff"
  /\ LET t == local.task
         isExpected == t \in CompletedFor(ExportKey)
     IN  \/ /\ process.connected \/ tasks[t].phase = "completed"
            /\ Enter("completed", t)
            /\ \/ ~local.replay /\ Continue("completeExport")
               \/ /\ local.replay /\ isExpected
                  /\ Remember("continue",
                       [NoLocal EXCEPT !.expected = local.expected + 2, !.base = local.base])
               \/ local.replay /\ ~isExpected /\ GiveUp
            /\ UNCHANGED left
         \/ /\ HostFails
            /\ UNCHANGED tasks \/ (process.connected /\ Enter("completed", t))
            /\ IF local.replay THEN GiveUp ELSE Continue("failExport")
  /\ UNCHANGED <<disk, stopped, grants, process, control>>

\* completeOrReconcileEffect: another receipt for this effect is a failure.
CompleteExport ==
  /\ pc = "completeExport"
  /\ LET key == ExportKey
         t   == local.task
     IN  \/ Completed(key, t) /\ Continue("commitExport")
         \/ CompletionRefused(key, t) /\ Continue("failExport")
         \/ CompletionFails /\ Continue("failExport")
         \/ CompletionUnknown(key, t) /\ Continue("failExport")
  /\ UNCHANGED <<run, lease, world, control>>

ExportedRun ==
  [local.base EXCEPT !.status = "CONTINUATION_STARTING", !.compression = local.task]

\* The decision is what the next stage starts from.
Exported ==
  Remember("continue",
    [NoLocal EXCEPT !.expected = local.expected + 2, !.base = ExportedRun])

CommitExport ==
  /\ pc = "commitExport"
  /\ \/ Committed(ExportedRun) /\ Exported
     \/ Stale /\ Continue("checkExport")
     \/ PersistFailed(ExportedRun) /\ Continue("checkExport")
  /\ UNCHANGED <<lease, ledger, world, control>>

\* isTerminalSuccess
CheckExport ==
  /\ pc = "checkExport"
  /\ \/ /\ IF /\ run.status = "CONTINUATION_STARTING"
              /\ run.state_version = local.expected + 2
              /\ run.compression = local.task
           THEN Exported
           ELSE GiveUp
        /\ UNCHANGED left
     \/ Happens("store") /\ GiveUp
  /\ UNCHANGED <<disk, world, control>>

FailedExport ==
  [local.base EXCEPT !.status = "NEEDS_USER", !.resume_to = "HANDOFF_EXPORTING"]

\* closeFailure; who closed the Run makes no difference to the orchestrator.
FailExport ==
  /\ pc = "failExport"
  /\ \/ Committed(FailedExport) /\ GiveUp
     \/ Stale /\ GiveUp
     \/ PersistFailed(FailedExport) /\ GiveUp
  /\ UNCHANGED <<lease, ledger, world, control>>

HandoffNext ==
  \/ ExportHandoff
  \/ ClaimAttempt
  \/ CheckClaim
  \/ IntendExport
  \/ LaunchCompression
  \/ AwaitHandoff
  \/ CompleteExport
  \/ CommitExport
  \/ CheckExport
  \/ FailExport

=============================================================================
