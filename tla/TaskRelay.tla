------------------------------ MODULE TaskRelay ------------------------------
(***************************************************************************)
(* The relay of a slice after a compaction timed out                       *)
(* (ProductionOrchestrator.recoverTimedOutCompaction): the source task is  *)
(* interrupted, a compression task exports a handoff, and a continuation   *)
(* task takes over the workspace.  The module composes the three stages    *)
(* with the lease heartbeat, the control commands of other processes, a    *)
(* second execution of the plan, the expiry of the lease, and the death of *)
(* the controller.                                                         *)
(***************************************************************************)
EXTENDS SourceInterruption, CompressionHandoff, Continuation

\* watchForTimedOutCompaction sees the Run in SOURCE_INTERRUPTING.
BeginRelay ==
  /\ pc = "idle"
  /\ run.status = "SOURCE_INTERRUPTING"
  /\ \/ /\ Remember("interrupt", [NoLocal EXCEPT !.expected = run.state_version, !.base = run])
        /\ UNCHANGED left
     \/ Happens("store") /\ GiveUp
  /\ UNCHANGED <<disk, world, control>>

\* The end of recoverTimedOutCompaction: the Run is what the decision says.
CheckResumed ==
  /\ pc = "checkResumed"
  /\ \/ /\ IF IsContinued /\ run.epoch = local.base.epoch THEN Forget ELSE GiveUp
        /\ UNCHANGED left
     \/ Happens("store") /\ GiveUp
  /\ UNCHANGED <<disk, world, control>>

\* closeFailure.  It closes whatever the Run has become but an end.
IsClosed == run.status \in {"NEEDS_USER", "ABORTED"}

Closed(r) == [r EXCEPT !.status = "NEEDS_USER", !.resume_to = r.status, !.unfrozen = FALSE]

CloseFailure ==
  /\ pc = "closeFailure"
  /\ \/ IsClosed /\ Forget /\ UNCHANGED left
     \/ ~IsClosed /\ Remember("commitClosure", [NoLocal EXCEPT !.base = run]) /\ UNCHANGED left
     \/ Happens("store") /\ Forget
  /\ UNCHANGED <<disk, world, control>>

CommitClosure ==
  /\ pc = "commitClosure"
  /\ \/ Committed(Closed(local.base))
     \/ Stale
     \/ PersistFailed(Closed(local.base))
  /\ Forget
  /\ UNCHANGED <<lease, ledger, world, control>>

ControllerNext ==
  \/ BeginRelay
  \/ InterruptionNext
  \/ HandoffNext
  \/ ContinuationNext
  \/ CheckResumed
  \/ CloseFailure
  \/ CommitClosure

-----------------------------------------------------------------------------
\* LeaseHeartbeat.tick, which the event loop runs while a call is awaited: it
\* renews the lease with the Run's epoch and disposes of the host if it cannot.
HeartbeatStatuses == RelayStatuses \cup {"SLICE_RUNNING"}

RenewOrDispose ==
  IF IsWritable(run.epoch)
  THEN lease' = [lease EXCEPT !.rotated = FALSE] /\ UNCHANGED process
  ELSE process' = [process EXCEPT !.connected = FALSE] /\ UNCHANGED lease

Beat ==
  /\ pc \in AwaitLabels
  /\ process.connected
  /\ \/ /\ Happens("beat")
        /\ run.status \in HeartbeatStatuses
        /\ RenewOrDispose
     \/ /\ Happens("store") \/ (Happens("guard") /\ run.status \in HeartbeatStatuses)
        /\ process' = [process EXCEPT !.connected = FALSE]
        /\ UNCHANGED lease
  /\ UNCHANGED <<run, ledger, tasks, stopped, grants, pc, local, control>>

Expire ==
  /\ Happens("expire")
  /\ lease.status # "RELEASED" /\ ~lease.expired
  /\ lease' = [lease EXCEPT !.expired = TRUE]
  /\ UNCHANGED <<run, ledger, world, pc, local, control>>

\* runProductionPlanFile for a plan that runs already: the start command's receipt
\* is replayed, the orchestrator refuses a Run that is not PREPARING, and closes it.
RunAgain ==
  /\ Happens("again")
  /\ ~IsClosed
  /\ run' = [Closed(run) EXCEPT !.state_version = @ + 1]
  /\ UNCHANGED <<lease, ledger, world, pc, local, control>>

\* A controller dies; its launchers' memory is lost.  The coordinator it was in is
\* called again with the same arguments by the process that replaces it.
StageOf(label) ==
  CASE label \in {"interrupt", "freeze", "inspect", "intendInterrupt", "hostInterrupt",
                  "completeInterrupt", "rotate", "commitInterrupt", "checkInterrupt",
                  "failInterrupt"}                                       -> "interrupt"
    [] label \in {"export", "claim", "checkClaim", "intendExport", "launch", "awaitHandoff",
                  "completeExport", "commitExport", "checkExport", "failExport"} -> "export"
    [] OTHER                                                             -> "continue"

Crash ==
  /\ Happens("crash")
  /\ pc \notin {"idle", "done", "closeFailure", "commitClosure"}
  /\ Remember(StageOf(pc),
       [NoLocal EXCEPT !.expected = local.expected,
          !.base = IF local.replay /\ StageOf(pc) = "interrupt"
                   THEN [local.base EXCEPT !.epoch = @ - 1] ELSE local.base])
  /\ tasks' = [t \in DOMAIN tasks |-> [tasks[t] EXCEPT !.known = FALSE]]
  /\ process' = [connected |-> TRUE, tracks_source |-> FALSE]
  /\ UNCHANGED <<disk, stopped, grants, control>>

\* The control commands (module RunControl): each changes the lease, then commits.
Command(name, epoch) ==
  /\ Happens("command")
  /\ control.command = None
  /\ control' = [command |-> name, base |-> run, epoch |-> epoch]
  /\ UNCHANGED <<run, ledger, world, pc, local>>

Pause ==
  /\ run.status \in HeartbeatStatuses
  /\ IsValid(run.epoch)
  /\ FreezeWrites
  /\ Command("pause", run.epoch)

Resume ==
  /\ run.status = "PAUSED"
  /\ \/ lease.status = "FROZEN" /\ ~lease.expired /\ RotateEpoch
     \/ lease.status = "ACTIVE" /\ UNCHANGED lease
  /\ Command("resume", lease'.epoch)

Abort ==
  /\ run.status # "ABORTED"
  /\ IsValid(run.epoch)
  /\ lease' = [lease EXCEPT !.status = "RELEASED", !.rotated = FALSE]
  /\ Command("abort", run.epoch)

Commanded ==
  CASE control.command = "pause"  -> [control.base EXCEPT !.status = "PAUSED", !.resume_to = control.base.status]
    [] control.command = "resume" ->
         [control.base EXCEPT !.status = control.base.resume_to, !.resume_to = None,
                              !.epoch = control.epoch]
    [] control.command = "abort"  -> [control.base EXCEPT !.status = "ABORTED"]

CommandCommits ==
  /\ control.command # None
  /\ \/ /\ run.state_version = control.base.state_version
        /\ run' = [Commanded EXCEPT !.state_version = @ + 1]
        /\ UNCHANGED left
     \/ /\ run.state_version # control.base.state_version
        /\ UNCHANGED <<run, left>>
     \/ Happens("store") /\ UNCHANGED run
  /\ control' = [command |-> None]
  /\ UNCHANGED <<lease, ledger, world, pc, local>>

Next ==
  \/ ControllerNext
  \/ Beat
  \/ Crash
  \/ Expire
  \/ RunAgain
  \/ Pause
  \/ Resume
  \/ Abort
  \/ CommandCommits

Spec == Init /\ [][Next]_vars

\* A controller's next call is not put off forever: every host call is bounded by
\* a timeout, and the calls on the disk are synchronous.
FairSpec == Spec /\ WF_vars(ControllerNext)

-----------------------------------------------------------------------------
\* No task is started for the relay before the host confirmed that the source's
\* turn is over and the source's write epoch is dead (interruptSource precedes
\* exportHandoff and continueFromHandoff, whoever calls them).
SourceIsStoppedFirst == tasks # <<>> => stopped /\ Source \notin Writers

\* One interruption rotates the epoch once, however often it is called or dies in
\* between; only resume rotates it again (rotateOrRecover, freezeOrRecover).
RotatedOnce == run.epoch <= lease.epoch /\ lease.epoch <= run.epoch + 1

\* The source is dead, once and for all, before another task lives.
SourceIsGoneFirst == TypeOK /\ SourceIsStoppedFirst /\ RotatedOnce

\* A Run is SLICE_RUNNING with a new source only after that task proved ready, was
\* granted the Run's epoch and made progress, each recorded with its receipt
\* (complete_continuation_start is the last step of performWorkflow).
IsEarned(t) ==
  LET completed(key) == t \in CompletedFor(key)
      version == run.state_version
  IN  /\ completed(Key("start_continuation_task", version, NoTask))
      /\ completed(Key("grant_continuation_write", version, t))
      /\ completed(Key("observe_continuation_progress", version, t))
      /\ [task |-> t, epoch |-> run.epoch] \in grants

SuccessIsEarned ==
  [][ run'.source # run.source => run.status = "CONTINUATION_STARTING" /\ IsEarned(run'.source) ]_vars

\* A budget of disturbances for small instances: up to three of each kind.
AnyThree == [d \in Disturbances |-> 3]

\* How often disturbance d happened so far.
Happened(d) == Budget[d] - left[d]

\* A relay that failed after the grant leaves no continuation able to write, unless
\* the Run says that freezing failed (closeFailure of the ContinuationCoordinator).
\* A Run that fails as SLICE_RUNNING had its relay behind it.  Claimed for any one
\* disturbance of a controller that lives and whose plan is executed once.
OneFault == Happened("any") <= 1 /\ Happened("crash") = 0 /\ Happened("again") = 0

FailedRelayCannotWrite ==
  OneFault /\ run.status = "NEEDS_USER" /\ run.resume_to \in RelayStatuses /\ ~run.unfrozen
    => Writers \subseteq {Source}

\* The heartbeat keeps the relay's lease: it does not take the host away from a
\* relay that nothing else disturbs (LEASE_ACTIVE_STATUSES).  The code does not keep
\* this one: with the single disturbance "beat" the renewal meets the frozen lease.
HeartbeatSparesTheHost == process.connected

\* The right to write passes from the source to one continuation at most.
Right(t) ==
  IF t \in Writers THEN "held" ELSE IF \E g \in grants : g.task = t THEN "lost" ELSE "none"

HandoverOfWrites == INSTANCE Handover
  WITH Tasks <- {Source} \cup TaskIds, First <- Source,
       right <- [t \in {Source} \cup TaskIds |-> Right(t)]

ImplementsHandover == HandoverOfWrites!Spec

\* A relay does not strand the Run in one of its statuses: it ends with the new
\* source running, or with a Run that asks for its user (closeFailure).  Not claimed
\* after two failures of the store, of which the second can keep the closure of the
\* first from being recorded, nor after two commands, as a pause and a resume leave
\* the Run in its relay status while the relay gave up.
Excused == Happened("store") > 1 \/ Happened("command") > 1

RelayEnds ==
  run.status \in RelayStatuses ~> (run.status \notin RelayStatuses \/ Excused)

=============================================================================
