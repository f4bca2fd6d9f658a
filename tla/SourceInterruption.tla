-------------------------- MODULE SourceInterruption --------------------------
(***************************************************************************)
(* SourceInterruptionCoordinator.interruptSource                           *)
(* (thread-control/source-interruption-coordinator.ts): freeze the lease,  *)
(* record the intent, have the host interrupt the source, record the       *)
(* completion, rotate the epoch, and commit HANDOFF_EXPORTING.  A call     *)
(* that finds the work done replays its receipt.                           *)
(***************************************************************************)
EXTENDS RelayState

InterruptKey == Key("interrupt_source_thread", local.expected, NoTask)

InterruptionFails == Continue(IF local.replay THEN "closeFailure" ELSE "failInterrupt")

\* Loading and validating; a Run that is HANDOFF_EXPORTING already is replayed.
Interrupt ==
  /\ pc = "interrupt"
  /\ LET l == local
         isDone == run.status = "HANDOFF_EXPORTING" /\ run.state_version = l.expected + 1
     IN  \/ /\ isDone /\ run.epoch = l.base.epoch + 1
            /\ Remember("intendInterrupt", [l EXCEPT !.base = run, !.replay = TRUE])
            /\ UNCHANGED left
         \/ /\ run.state_version = l.expected /\ run.status = "SOURCE_INTERRUPTING"
            /\ Remember("freeze", [l EXCEPT !.base = run])
            /\ UNCHANGED left
         \/ /\ IF isDone THEN run.epoch # l.base.epoch + 1 ELSE run.state_version # l.expected
            /\ GiveUp
            /\ UNCHANGED left
         \/ Happens("store") /\ GiveUp
  /\ UNCHANGED <<disk, world, control>>

\* freezeOrRecover: freezeWrites, which may find the lease frozen already...
Freeze ==
  /\ pc = "freeze"
  /\ \/ /\ IsValid(local.base.epoch)
        /\ FreezeWrites
        /\ Remember("intendInterrupt", [local EXCEPT !.position = "FROZEN"])
        /\ UNCHANGED left
     \/ /\ ~IsValid(local.base.epoch)
        /\ Continue("inspect")
        /\ UNCHANGED <<lease, left>>
     \/ GuardFails /\ Continue("inspect")
  /\ UNCHANGED <<run, ledger, world, control>>

\* ... and when it fails, the position an earlier call left the lease in.
PersistedLeasePosition(epoch) ==
  CASE lease.status = "FROZEN" /\ lease.epoch = epoch                            -> "FROZEN"
    [] lease.status = "ACTIVE" /\ lease.epoch = epoch + 1 /\ lease.rotated -> "ROTATED"
    [] OTHER                                                                     -> None

Inspect ==
  /\ pc = "inspect"
  /\ LET position == PersistedLeasePosition(local.base.epoch)
     IN  IF position = None
         THEN InterruptionFails
         ELSE Remember("intendInterrupt", [local EXCEPT !.position = position])
  /\ UNCHANGED <<disk, world, control, left>>

\* An epoch that was rotated without a completed interruption is nobody's.
IntendInterrupt ==
  /\ pc = "intendInterrupt"
  /\ LET key   == InterruptKey
         known == IsCompleted(key)
     IN  \/ /\ Intended(key)
            /\ \/ /\ known \/ (~local.replay /\ local.position = "FROZEN")
                  /\ Remember("hostInterrupt", [local EXCEPT !.known = known])
               \/ ~known /\ local.position = "ROTATED" /\ InterruptionFails
               \/ ~known /\ local.replay /\ GiveUp
         \/ IntentRefused(key) /\ GiveUp
  /\ UNCHANGED <<run, lease, world, control>>

\* Fault for the mutation runs: an interrupt without a receipt counts.
HostInterruptUnconfirmed ==
  /\ pc = "hostInterrupt"
  /\ stopped' \in {stopped, TRUE}
  /\ Continue("completeInterrupt")
  /\ UNCHANGED <<disk, tasks, grants, process, control, left>>

\* obtainVerifiedReceipt, of which CodexAppServerDevelopmentTask.interrupt knows
\* nothing unless it started the turn.  The source may stop although the call fails.
HostInterrupt ==
  /\ pc = "hostInterrupt"
  /\ \/ /\ process.connected /\ process.tracks_source
        /\ stopped' = TRUE
        /\ IF local.replay
           THEN Remember("export",
                  [NoLocal EXCEPT !.expected = local.expected + 1, !.base = local.base])
           ELSE Continue("completeInterrupt")
        /\ UNCHANGED left
     \/ ~process.tracks_source /\ InterruptionFails /\ UNCHANGED <<stopped, left>>
     \/ HostFails /\ stopped' \in {stopped, TRUE} /\ InterruptionFails
  /\ UNCHANGED <<disk, tasks, grants, process, control>>

\* completeOrReconcileEffect: a failed write may have been made nevertheless.
CompleteInterrupt ==
  /\ pc = "completeInterrupt"
  /\ LET key  == InterruptKey
         next == IF local.position = "FROZEN" THEN "rotate" ELSE "commitInterrupt"
     IN  \/ Completed(key, NoTask) /\ Continue(next)
         \/ CompletionUnknown(key, NoTask) /\ Continue(next)
         \/ /\ CompletionFails
            /\ IF IsCompleted(key) THEN Continue(next) ELSE InterruptionFails
  /\ UNCHANGED <<run, lease, world, control>>

\* rotateOrRecover
Rotate ==
  /\ pc = "rotate"
  /\ LET epoch    == local.base.epoch
         rotated  == Remember("commitInterrupt", [local EXCEPT !.position = "ROTATED"])
         rotates  == IsValid(epoch) /\ lease.status = "FROZEN"
     IN  \/ rotates /\ RotateEpoch /\ rotated /\ UNCHANGED left
         \/ /\ GuardFails \/ (~rotates /\ UNCHANGED <<lease, left>>)
            /\ IF PersistedLeasePosition(epoch) = "ROTATED" THEN rotated ELSE InterruptionFails
  /\ UNCHANGED <<run, ledger, world, control>>

InterruptedRun ==
  [local.base EXCEPT !.status = "HANDOFF_EXPORTING", !.epoch = @ + 1]

\* The decision is what the next stage starts from.
Interrupted ==
  Remember("export",
    [NoLocal EXCEPT !.expected = local.expected + 1, !.base = InterruptedRun])

CommitInterrupt ==
  /\ pc = "commitInterrupt"
  /\ \/ Committed(InterruptedRun) /\ Interrupted
     \/ Stale /\ Continue("checkInterrupt")
     \/ PersistFailed(InterruptedRun) /\ Continue("checkInterrupt")
  /\ UNCHANGED <<lease, ledger, world, control>>

\* isTerminalSuccess: somebody, perhaps this call, committed the same.
CheckInterrupt ==
  /\ pc = "checkInterrupt"
  /\ \/ /\ IF /\ run.status = "HANDOFF_EXPORTING"
              /\ run.state_version = local.expected + 1
              /\ run.epoch = local.base.epoch + 1
           THEN Interrupted
           ELSE GiveUp
        /\ UNCHANGED left
     \/ Happens("store") /\ GiveUp
  /\ UNCHANGED <<disk, world, control>>

FailedInterruption ==
  [local.base EXCEPT
     !.status = "NEEDS_USER", !.resume_to = "SOURCE_INTERRUPTING",
     !.epoch = IF local.position = "ROTATED" THEN @ + 1 ELSE @]

\* closeFailure; who closed the Run makes no difference to the orchestrator.
FailInterrupt ==
  /\ pc = "failInterrupt"
  /\ \/ Committed(FailedInterruption) /\ GiveUp
     \/ Stale /\ GiveUp
     \/ PersistFailed(FailedInterruption) /\ GiveUp
  /\ UNCHANGED <<lease, ledger, world, control>>

InterruptionNext ==
  \/ Interrupt
  \/ Freeze
  \/ Inspect
  \/ IntendInterrupt
  \/ HostInterrupt
  \/ CompleteInterrupt
  \/ Rotate
  \/ CommitInterrupt
  \/ CheckInterrupt
  \/ FailInterrupt

=============================================================================
