----------------------------- MODULE RunControl -----------------------------
(***************************************************************************)
(* One Run and the Project Write Lease of its workspace under the control  *)
(* commands (control-plane/control-plane.ts, control-plane/runtime.ts) and *)
(* the production controller that executes it (production-orchestrator.ts, *)
(* the heartbeat of file-production-runtime.ts).                           *)
(*                                                                         *)
(* A command reads the Run, changes the lease, and only then commits with  *)
(* compareAndSwap; every one of these calls is atomic (RunStore and        *)
(* WriteLease say why), and commands of several processes and the steps of *)
(* the production controller interleave between them.                      *)
(***************************************************************************)
EXTENDS Naturals

CONSTANTS
  Controllers,   \* processes that execute control commands
  Leases,        \* lease ids the identity factory may generate
  Errors,        \* the last_error codes production closes a failure with
  Resolutions,   \* the recovery resolutions a resume may name
  Modes,         \* the commit modes an override may name
  WorkStatuses,  \* the operational statuses production moves between
  Disturbances,  \* what may go wrong, see below
  MaxVersion     \* bound on state_version

\* "expire": a lease expires before it is renewed; "persist_fails": the store or
\* the guard answer with a persistence error; "crash": a command's process dies.
AllDisturbances == {"expire", "persist_fails", "crash"}

ASSUME DisturbancesAssumption == Disturbances \subseteq AllDisturbances

Machine == INSTANCE RunTransitions WITH Slices <- {}, Baselines <- {}, Threads <- {}

None == Machine!None

ASSUME LeaseNamesAssumption == None \notin Leases
ASSUME MaxVersionAssumption == MaxVersion \in Nat \ {0}
ASSUME WorkStatusesAssumption == WorkStatuses \subseteq Machine!OperationalStatuses

VARIABLES
  run,     \* the persisted Run
  lease,   \* lease[l]: the newest event of lease l
  active,  \* the lease active.json names
  pc,      \* pc[p]: the next call of p's command
  command, \* command[p]: the command p executes
  base,    \* base[p]: the Run as p's command loaded it
  target,  \* target[p]: the Run p's command wants to commit
  reply,   \* reply[p]: the outcome of p's last command
  author   \* history variable: author[v] is who committed version v, and how

vars == <<run, lease, active, pc, command, base, target, reply, author>>

\* The orchestrator is one more process. Two of its operations consult the guard
\* before they commit, as commands do: to dispatch a slice and to finish.
Production == "production"
Processes  == Controllers \cup {Production}

Commands == {"start", "pause", "resume", "abort", "override", "dispatch", "finish"}

NoRun == [status |-> None]

\* dispatched: source_thread_id is set; mode: the current slice's override.
Runs ==
  [state_version: Nat, status: Machine!RunStatuses, owner: Leases \cup {None}, epoch: Nat,
   paused_from: Machine!RunStatuses \cup {None},
   last_successful: Machine!RunStatuses \cup {None}, error: Errors \cup {None},
   dispatched: BOOLEAN, mode: Modes \cup {"plan"}]

NoLease == [status |-> None]
LeaseStates == [status: {"ACTIVE", "FROZEN", "RELEASED"}, epoch: Nat \ {0}, expired: BOOLEAN]

\* RECOVERY_CATALOG
RecoveryOptionsFor(error) ==
  {"abort_run"} \cup
    CASE error = "model_policy_unavailable"   -> {"supply_model_policy"}
      [] error = "project_lock_unavailable"   -> {"release_stale_project_lock"}
      [] error = "continuation_start_failed"  -> {"retry_continuation_start"}
      [] error = "protected_change_overlap"   -> {"resolve_protected_changes"}
      [] OTHER                                -> {}

\* The code "refused" stands for all that are answered before anything is
\* written: stale_state, command_not_allowed, invalid_recovery_resolution...
Codes ==
  {"refused", "project_lock_unavailable", "stale_state", "state_persist_failed",
   "pause_safe_point_failed", "abort_cleanup_failed", "recovery_failed"}

NoAuthor == [by |-> None]
Authors  == [by: Processes, command: Commands \cup {"work"}]

NoReply == [outcome |-> None]
Replies ==
  [outcome: {"OK"}, command: Commands, version: Nat]
    \cup [outcome: {"REJECTED"}, command: Commands \cup {None}, code: Codes]

Labels ==
  {"idle", "freeze", "inspect", "rotate", "acquire", "release", "releaseStale",
   "reacquire", "create", "undo", "prepare", "cas"}

TypeOK ==
  /\ run \in Runs \cup {NoRun}
  /\ lease \in [Leases -> LeaseStates \cup {NoLease}]
  /\ active \in Leases \cup {None}
  /\ pc \in [Processes -> Labels]
  /\ command \in [Processes -> Commands \cup {None}]
  /\ base \in [Processes -> Runs \cup {NoRun}]
  /\ target \in [Processes -> Runs \cup {NoRun}]
  /\ reply \in [Processes -> Replies \cup {NoReply}]
  /\ author \in [0 .. MaxVersion -> Authors \cup {NoAuthor}]

Init ==
  /\ run = NoRun
  /\ lease = [l \in Leases |-> NoLease]
  /\ active = None
  /\ pc = [p \in Processes |-> "idle"]
  /\ command = [p \in Processes |-> None]
  /\ base = [p \in Processes |-> NoRun]
  /\ target = [p \in Processes |-> NoRun]
  /\ reply = [p \in Processes |-> NoReply]
  /\ author = [v \in 0 .. MaxVersion |-> NoAuthor]

-----------------------------------------------------------------------------
Goto(p, label) == pc' = [pc EXCEPT ![p] = label]

Continue(p, label) == Goto(p, label) /\ UNCHANGED <<command, reply>>

\* The command's answer; its process forgets everything else.
Answer(p, r) ==
  /\ Goto(p, "idle")
  /\ command' = [command EXCEPT ![p] = None]
  /\ base' = [base EXCEPT ![p] = NoRun]
  /\ target' = [target EXCEPT ![p] = NoRun]
  /\ reply' = [reply EXCEPT ![p] = r]

Reject(p, code) ==
  Answer(p, [outcome |-> "REJECTED", command |-> command[p], code |-> code])
Accept(p, version) ==
  Answer(p, [outcome |-> "OK", command |-> command[p], version |-> version])

\* The command begins with loading the Run, s; it goes on at label and wants to
\* commit t.
Intend(p, c, label, s, t) ==
  /\ Goto(p, label)
  /\ command' = [command EXCEPT ![p] = c]
  /\ reply' = [reply EXCEPT ![p] = NoReply]
  /\ base' = [base EXCEPT ![p] = s]
  /\ target' = [target EXCEPT ![p] = [t EXCEPT !.state_version = s.state_version + 1]]

-----------------------------------------------------------------------------
\* Loading the Run and deciding: loadExpectedRun and the head of each command.
\* Nothing happens between the two, so a command is issued when it is loaded;
\* its expected_state_version is the one it finds, or the command is stale.

Start(p) ==
  /\ pc[p] = "idle"
  /\ p \in Controllers
  /\ run = NoRun
  /\ Goto(p, "acquire")
  /\ command' = [command EXCEPT ![p] = "start"]
  /\ reply' = [reply EXCEPT ![p] = NoReply]
  /\ UNCHANGED <<run, lease, active, base, target, author>>

\* The bound leaves room for one more version.
Loads(p) ==
  /\ pc[p] = "idle"
  /\ run # NoRun
  /\ run.state_version < MaxVersion
  /\ UNCHANGED <<run, lease, active, author>>

ControlLoads(p) == p \in Controllers /\ Loads(p)

Stopped == Machine!TerminalStatuses \cup Machine!LegacyAcceptanceStatuses

PauseAllowed    == run.status \notin Stopped \cup {"PAUSED", "NEEDS_USER"}
AbortAllowed    == run.status \notin Machine!TerminalStatuses
OverrideAllowed == run.status \notin Stopped

\* Fault for the mutation runs: the lease is not frozen.
PauseUnfrozen(p) ==
  /\ ControlLoads(p)
  /\ PauseAllowed
  /\ Intend(p, "pause", "cas", run,
            [run EXCEPT !.status = "PAUSED", !.paused_from = run.status])

Pause(p) ==
  /\ ControlLoads(p)
  /\ PauseAllowed
  /\ Intend(p, "pause", IF run.owner = None THEN "cas" ELSE "freeze", run,
            [run EXCEPT !.status = "PAUSED", !.paused_from = run.status])

\* abortLoaded, for abort and for a resume that names abort_run.
Abort(p) ==
  /\ ControlLoads(p)
  /\ AbortAllowed
  /\ Intend(p, "abort", IF run.owner = None THEN "cas" ELSE "release", run,
            [run EXCEPT !.status = "ABORTED", !.owner = None, !.paused_from = None])

ResumePaused(p) ==
  /\ ControlLoads(p)
  /\ run.status = "PAUSED"
  /\ Intend(p, "resume", IF run.owner = None THEN "acquire" ELSE "inspect", run,
            [run EXCEPT !.status = run.paused_from, !.paused_from = None])

\* A failure that was closed while PAUSED has nothing to come back to.
Recoverable(resolution) ==
  /\ run.status = "NEEDS_USER"
  /\ resolution \in RecoveryOptionsFor(run.error) \ {"abort_run"}
  /\ Machine!IsRunTransitionAllowed("NEEDS_USER", run.last_successful, None)

Recover(p, resolution) ==
  /\ ControlLoads(p)
  /\ Recoverable(resolution)
  /\ Intend(p, "resume",
       CASE resolution # "release_stale_project_lock" -> "cas"
         [] resolution = "release_stale_project_lock" /\ run.owner = None -> "reacquire"
         [] OTHER -> "releaseStale",
       run,
       [run EXCEPT !.status = run.last_successful, !.last_successful = None, !.error = None])

\* CurrentSlicePhase: PENDING until the slice was dispatched.
EffectiveStatus(s) ==
  CASE s.status = "PAUSED"     -> s.paused_from
    [] s.status = "NEEDS_USER" -> s.last_successful
    [] OTHER                   -> s.status

IsPending(s) ==
  \/ EffectiveStatus(s) = "IDLE"
  \/ EffectiveStatus(s) = "PREPARING" /\ ~s.dispatched

Override(p, mode) ==
  /\ ControlLoads(p)
  /\ OverrideAllowed
  /\ IsPending(run)
  /\ \/ run.mode # mode /\ Intend(p, "override", "cas", run, [run EXCEPT !.mode = mode])
     \/ run.mode = mode
          /\ Answer(p, [outcome |-> "OK", command |-> "override",
                        version |-> run.state_version])

\* Everything else is answered at once: a wrong version, a status or slice phase
\* the command is not allowed in, a resolution that does not fit the error,
\* evidence that does not verify, a second start.
Refuse(p) ==
  /\ pc[p] = "idle"
  /\ Answer(p, [outcome |-> "REJECTED", command |-> None, code |-> "refused"])
  /\ UNCHANGED <<run, lease, active, author>>

\* validateCredentialAndExpiry
IsValid(l, epoch) ==
  /\ active = l
  /\ lease[l].status # "RELEASED"
  /\ lease[l].epoch = epoch
  /\ ~lease[l].expired

\* The end of ProductionOrchestrator.run: release, then DONE.
Finish ==
  /\ Loads(Production)
  /\ run.status = "SLICE_RUNNING"
  /\ run.owner # None
  /\ Intend(Production, "finish", "release", run,
            [run EXCEPT !.status = "DONE", !.owner = None])

\* runSlice: assertWritable, then the development task is started, and only then
\* is the Run taken to SLICE_RUNNING.
Dispatch ==
  /\ Loads(Production)
  /\ run.status = "PREPARING"
  /\ run.owner # None
  /\ IsValid(run.owner, run.epoch)
  /\ lease[run.owner].status = "ACTIVE"
  /\ Intend(Production, "dispatch", "cas", run,
            [run EXCEPT !.status = "SLICE_RUNNING", !.dispatched = TRUE])

-----------------------------------------------------------------------------
\* The calls on the workspace guard.

GuardFailure(p) ==
  CASE command[p] = "start"                    -> "project_lock_unavailable"
    [] pc[p] \in {"releaseStale", "reacquire"} -> "recovery_failed"
    [] pc[p] = "release"                       -> "abort_cleanup_failed"
    [] OTHER                                   -> "pause_safe_point_failed"

Freeze(p) ==
  /\ pc[p] = "freeze"
  /\ LET l == base[p].owner
     IN  IF IsValid(l, base[p].epoch)
         THEN /\ lease' = [lease EXCEPT ![l].status = "FROZEN"]
              /\ Continue(p, "cas")
              /\ UNCHANGED <<base, target>>
         ELSE Reject(p, GuardFailure(p)) /\ UNCHANGED lease
  /\ UNCHANGED <<run, active, author>>

\* resumeFromSafePoint: what became of the lease decides how writing comes back.
Inspect(p) ==
  /\ pc[p] = "inspect"
  /\ LET s == lease[base[p].owner]
     IN  CASE s.status = "FROZEN" ->
                /\ target' = [target EXCEPT ![p].epoch = s.epoch + 1]
                /\ Continue(p, "rotate")
           [] s.status = "ACTIVE" ->
                /\ target' = [target EXCEPT ![p].epoch = s.epoch]
                /\ Continue(p, "cas")
           [] OTHER -> Continue(p, "acquire") /\ UNCHANGED target
  /\ UNCHANGED <<run, lease, active, base, author>>

Rotate(p) ==
  /\ pc[p] = "rotate"
  /\ LET l == base[p].owner
     IN  IF IsValid(l, target[p].epoch - 1) /\ lease[l].status = "FROZEN"
         THEN /\ lease' = [lease EXCEPT ![l] =
                    [status |-> "ACTIVE", epoch |-> target[p].epoch, expired |-> FALSE]]
              /\ Continue(p, "cas")
              /\ UNCHANGED <<base, target>>
         ELSE Reject(p, GuardFailure(p)) /\ UNCHANGED lease
  /\ UNCHANGED <<run, active, author>>

InitialRun(l) ==
  [state_version |-> 0, status |-> "IDLE", owner |-> l, epoch |-> 1, paused_from |-> None,
   last_successful |-> None, error |-> None, dispatched |-> FALSE, mode |-> "plan"]

Acquire(p, l) ==
  /\ pc[p] \in {"acquire", "reacquire"}
  /\ lease[l] = NoLease
  /\ IF active = None
     THEN /\ active' = l
          /\ lease' = [lease EXCEPT ![l] = [status |-> "ACTIVE", epoch |-> 1, expired |-> FALSE]]
          /\ target' = [target EXCEPT ![p] =
               IF command[p] = "start" THEN InitialRun(l) ELSE [@ EXCEPT !.owner = l, !.epoch = 1]]
          /\ Continue(p, IF command[p] = "start" THEN "create" ELSE "cas")
          /\ UNCHANGED base
     ELSE Reject(p, GuardFailure(p)) /\ UNCHANGED <<active, lease>>
  /\ UNCHANGED <<run, author>>

\* release, which is idempotent: the epoch is looked at before everything else.
CanRelease(l, epoch) ==
  /\ lease[l].epoch = epoch
  /\ IF lease[l].status = "RELEASED" THEN active \in {l, None} ELSE IsValid(l, epoch)

ReleaseEffect(l) ==
  /\ lease' = [lease EXCEPT ![l].status = "RELEASED"]
  /\ active' = IF active = l THEN None ELSE active

\* Fault for the mutation runs: a failed release does not stop the command.
ReleaseIfPossible(p) ==
  /\ pc[p] = "release"
  /\ LET s == base[p]
     IN  IF CanRelease(s.owner, s.epoch) THEN ReleaseEffect(s.owner) ELSE UNCHANGED <<lease, active>>
  /\ Continue(p, "cas")
  /\ UNCHANGED <<run, author, base, target>>

Release(p) ==
  /\ pc[p] = "release"
  /\ LET s == base[p]
     IN  IF CanRelease(s.owner, s.epoch)
         THEN /\ ReleaseEffect(s.owner)
              /\ Continue(p, "cas")
              /\ UNCHANGED <<base, target>>
         ELSE Reject(p, GuardFailure(p)) /\ UNCHANGED <<lease, active>>
  /\ UNCHANGED <<run, author>>

\* EvidenceBoundRecovery goes on when the lease is lost already.
LeaseIsLost(l, epoch) == lease[l].epoch = epoch /\ ~CanRelease(l, epoch)

ReleaseStale(p) ==
  /\ pc[p] = "releaseStale"
  /\ LET s == base[p]
     IN  \/ /\ CanRelease(s.owner, s.epoch)
            /\ ReleaseEffect(s.owner)
            /\ Continue(p, "reacquire")
            /\ UNCHANGED <<base, target>>
         \/ /\ LeaseIsLost(s.owner, s.epoch)
            /\ Continue(p, "reacquire")
            /\ UNCHANGED <<lease, active, base, target>>
         \/ /\ lease[s.owner].epoch # s.epoch
            /\ Reject(p, GuardFailure(p))
            /\ UNCHANGED <<lease, active>>
  /\ UNCHANGED <<run, author>>

\* start undoes its acquire and ignores the answer.
Undo(p) ==
  /\ pc[p] = "undo"
  /\ LET l == target[p].owner
     IN  \/ CanRelease(l, 1) /\ ReleaseEffect(l)
         \/ /\ ~CanRelease(l, 1) \/ "persist_fails" \in Disturbances
            /\ UNCHANGED <<lease, active>>
  /\ \/ run # NoRun /\ Reject(p, "refused")
     \/ "persist_fails" \in Disturbances /\ Reject(p, "state_persist_failed")
  /\ UNCHANGED <<run, author>>

-----------------------------------------------------------------------------
\* The calls on the run store.

Committed(p) ==
  /\ run' = target[p]
  /\ author' = [author EXCEPT ![target[p].state_version] =
                  [by |-> p, command |-> command[p]]]

\* The CAS with which start enters PREPARING follows the creation at once.
Prepared(s) == [s EXCEPT !.state_version = 1, !.status = "PREPARING"]

Create(p) ==
  /\ pc[p] = "create"
  /\ IF run = NoRun
     THEN /\ Committed(p)
          /\ Continue(p, "prepare")
          /\ target' = [target EXCEPT ![p] = Prepared(@)]
          /\ base' = [base EXCEPT ![p] = target[p]]
     ELSE Continue(p, "undo") /\ UNCHANGED <<run, author, base, target>>
  /\ UNCHANGED <<lease, active>>

\* Fault for the mutation runs: the version is not compared.
Overwrite(p) ==
  /\ pc[p] \in {"prepare", "cas"}
  /\ Committed(p)
  /\ Accept(p, target[p].state_version)
  /\ UNCHANGED <<lease, active>>

CompareAndSwap(p) ==
  /\ pc[p] \in {"prepare", "cas"}
  /\ IF run.state_version = base[p].state_version
     THEN Committed(p) /\ Accept(p, target[p].state_version)
     ELSE Reject(p, "stale_state") /\ UNCHANGED <<run, author>>
  /\ UNCHANGED <<lease, active>>

-----------------------------------------------------------------------------
\* Disturbances.

\* state_persist_failed leaves open whether the version was committed.
StoreFails(p) ==
  /\ "persist_fails" \in Disturbances
  /\ pc[p] \in {"create", "prepare", "cas"}
  /\ \/ UNCHANGED <<run, author>>
     \/ pc[p] = "create" /\ run = NoRun /\ Committed(p)
     \/ /\ pc[p] # "create"
        /\ run.state_version = base[p].state_version
        /\ Committed(p)
  /\ IF pc[p] = "create" THEN Continue(p, "undo") /\ UNCHANGED <<base, target>>
                         ELSE Reject(p, "state_persist_failed")
  /\ UNCHANGED <<lease, active>>

\* The guard fails before it changed the lease, after it, or, releasing,
\* between the RELEASED event and the removal of active.json.
GuardFails(p) ==
  /\ "persist_fails" \in Disturbances
  /\ \/ pc[p] \in {"freeze", "rotate", "release", "releaseStale", "acquire", "reacquire"}
          /\ UNCHANGED lease
     \/ /\ pc[p] \in {"release", "releaseStale"}
        /\ CanRelease(base[p].owner, base[p].epoch)
        /\ lease' = [lease EXCEPT ![base[p].owner].status = "RELEASED"]
  /\ Reject(p, GuardFailure(p))
  /\ UNCHANGED <<run, active, author>>

Crash(p) ==
  /\ "crash" \in Disturbances
  /\ pc[p] # "idle"
  /\ Answer(p, NoReply)
  /\ UNCHANGED <<run, lease, active, author>>

\* Nobody renews a lease while its Run is PAUSED or NEEDS_USER, while it is
\* frozen, or when the production process is gone or held up.
Expire(l) ==
  /\ "expire" \in Disturbances
  /\ lease[l].status \in {"ACTIVE", "FROZEN"}
  /\ lease' = [lease EXCEPT ![l].expired = TRUE]
  /\ UNCHANGED <<run, active, pc, command, base, target, reply, author>>

-----------------------------------------------------------------------------
\* The production controller at work: one transition of the Run at a time, each
\* a load and a compareAndSwap of its own.

Work(s) ==
  /\ run # NoRun
  /\ pc[Production] = "idle"
  /\ run.state_version < MaxVersion
  /\ run' = [s EXCEPT !.state_version = run.state_version + 1]
  /\ author' = [author EXCEPT ![run.state_version + 1] =
                  [by |-> Production, command |-> "work"]]
  /\ UNCHANGED <<lease, active, pc, command, base, target, reply>>

Proceed(to) ==
  /\ run.status \in WorkStatuses \ {"PREPARING"}
  /\ to # run.status
  /\ Machine!IsRunTransitionAllowed(run.status, to, None)
  /\ Work([run EXCEPT !.status = to])

\* Only a Run that was started is executed.
CloseFailure(error) ==
  /\ run.status \notin {"NEEDS_USER", "DONE", "ABORTED"}
  /\ EffectiveStatus(run) # "IDLE"
  /\ Work([run EXCEPT !.status = "NEEDS_USER", !.last_successful = run.status, !.error = error])

Next ==
  \/ Dispatch
  \/ Finish
  \/ \E p \in Processes :
       \/ Start(p)
       \/ Pause(p)
       \/ Abort(p)
       \/ ResumePaused(p)
       \/ \E resolution \in Resolutions : Recover(p, resolution)
       \/ \E mode \in Modes : Override(p, mode)
       \/ Refuse(p)
       \/ Freeze(p)
       \/ Inspect(p)
       \/ Rotate(p)
       \/ \E l \in Leases : Acquire(p, l)
       \/ Release(p)
       \/ ReleaseStale(p)
       \/ Undo(p)
       \/ Create(p)
       \/ CompareAndSwap(p)
       \/ StoreFails(p)
       \/ GuardFails(p)
       \/ Crash(p)
  \/ \E l \in Leases : Expire(l)
  \/ \E to \in WorkStatuses : Proceed(to)
  \/ \E error \in Errors : CloseFailure(error)

Spec == Init /\ [][Next]_vars

-----------------------------------------------------------------------------
\* Properties.

\* Nobody can write for a paused Run: the epoch it recorded is frozen, released
\* or outdated, also while a resume or an abort is half-way or died there.
PausedRunCannotWrite ==
  run # NoRun /\ run.status = "PAUSED" /\ run.owner # None
    /\ lease[run.owner].status = "ACTIVE" =>
    lease[run.owner].epoch > run.epoch

\* The epoch a Run records is never ahead of its lease and at most one rotation
\* behind it: a resume that died is completed by the next one.
EpochsStayTogether ==
  run # NoRun /\ run.owner # None =>
    lease[run.owner].epoch \in {run.epoch, run.epoch + 1}

\* The Run and the lease it names agree: nobody writes for a paused Run, and the
\* epochs of the two stay together.
RunAndLeaseAgree == TypeOK /\ PausedRunCannotWrite /\ EpochsStayTogether

\* A paused Run comes back only with a lease that is not frozen, at the epoch it
\* records, which no task that was running before the pause was given.
ResumedRunOwnsNewEpoch ==
  [][run # NoRun /\ run.status = "PAUSED" /\ run'.status \notin {"PAUSED", "NEEDS_USER", "ABORTED"} =>
       /\ lease[run'.owner].status = "ACTIVE"
       /\ lease[run'.owner].epoch = run'.epoch
       /\ (run'.owner = run.owner => run'.epoch > run.epoch)]_vars

\* A Run ends, DONE or ABORTED, only after the lease it names was released.
EndedRunGaveUpItsLease ==
  [][run # NoRun /\ run.status \notin Machine!TerminalStatuses
       /\ run'.status \in Machine!TerminalStatuses
       /\ run.owner # None =>
       lease[run.owner].status = "RELEASED"]_vars

\* No change of the Run's status runs ahead of its lease: it is thawed at a new
\* epoch before a resume commits and released before an end does.
LeaseChangesFirst == ResumedRunOwnsNewEpoch /\ EndedRunGaveUpItsLease

\* A command that was acknowledged is in the Run's history, at the version it
\* was told, under its own name.
AcknowledgedCommandsAreCommitted ==
  \A p \in Processes :
    reply[p].outcome = "OK" /\ reply[p].command # "override" =>
      author[reply[p].version] = [by |-> p, command |-> reply[p].command]

=============================================================================
