--------------------------- MODULE ProductionRuntime ---------------------------
(***************************************************************************)
(* runProductionPlanFile (production/file-production-runtime.ts) and the loop of   *)
(* the ProductionOrchestrator over the slices of a plan: invocations of run-plan   *)
(* for one workspace and one run id, which may overlap, die at any time, and read  *)
(* a plan file that was edited in between.  What survives them is the Run, its      *)
(* lease, and the journal of the start command, whose id is the plan's digest.      *)
(*                                                                         *)
(* The start command and the lease are those of CommandJournal, RunControl and     *)
(* WriteLease in coarser steps, and the relay of a compaction is that of TaskRelay  *)
(* in one step; a development task only ends.                                  *)
(***************************************************************************)
EXTENDS ProductionPlan, FiniteSets

CONSTANTS
  Invocations, \* processes that run run-plan
  Plans,       \* what the plan file may hold
  Timings,     \* lease timings an invocation may be given: [duration, interval]
  MaxTime,     \* bound on the clock
  MaxTasks     \* bound on the development tasks that are started

VARIABLES
  now,     \* the clock
  command, \* by plan: Null, "begun", or the outcome of its start command
  run,     \* the Run, Null before it exists
  lease,   \* the Project Write Lease: Null or [epoch, expires]
  tasks,   \* the development tasks in the order they were started
  inv      \* the invocations

runtimeVars == <<now, command, run, lease, tasks, inv>>

(* current is the stored run an invocation holds, index its slice, task that of the *)
(* slice, beats the failure of its heartbeat.                                   *)
NoInvocation ==
  [step |-> "idle", plan |-> Null, timing |-> Null, current |-> Null, index |-> 0, task |-> 0,
   lost |-> FALSE, result |-> Null]

RuntimeInit ==
  /\ now = 0 /\ command = [p \in Plans |-> Null] /\ run = Null /\ lease = Null
  /\ tasks = << >> /\ inv = [i \in Invocations |-> NoInvocation]

Slice(i) == inv[i].plan.slices[inv[i].index]
Goes(i, step) == inv' = [inv EXCEPT ![i].step = step]
Result(i, result) == inv' = [inv EXCEPT ![i].step = "idle", ![i].result = result]

(* What the disposal of its task host leaves of the tasks of an invocation, and its   *)
(* tasks when the host goes on without it.                                     *)
IsRunningFor(t, i) == tasks[t].by = i /\ tasks[t].status = "running"
WithoutHost(i) ==
  [t \in DOMAIN tasks |-> IF IsRunningFor(t, i) THEN [tasks[t] EXCEPT !.status = "failed"] ELSE tasks[t]]
Orphaned(i) ==
  [t \in DOMAIN tasks |-> IF IsRunningFor(t, i) THEN [tasks[t] EXCEPT !.by = Null] ELSE tasks[t]]

(* productionSliceBindingDigest                                               *)
Binding(plan, slice_id) == <<plan, slice_id>>

LeaseIsGood(epoch) == lease # Null /\ lease.epoch = epoch /\ now < lease.expires
Renewed(i, epoch) == [epoch |-> epoch, expires |-> now + inv[i].timing.duration]

-----------------------------------------------------------------------------
(* Before the Run.                                                          *)

(* validateTiming: at least two renewals in the time of a lease.                  *)
TimingIsValid(timing) ==
  timing.duration > 0 /\ timing.interval > 0 /\ timing.interval * 2 < timing.duration

(* outside: the state directory is not in the workspace.                         *)
Invoke(i, plan, timing, outside) ==
  /\ inv[i].step = "idle"
  /\ LET failure == IF ~outside \/ ~TimingIsValid(timing) THEN "production_run_invalid"
                    ELSE ParseFailure(plan, now)
     IN inv' = [inv EXCEPT ![i] =
          IF failure # Null THEN [NoInvocation EXCEPT !.result = failure]
          ELSE [NoInvocation EXCEPT !.step = "start", !.plan = plan, !.timing = timing]]
  /\ UNCHANGED <<now, command, run, lease, tasks>>

(* The first to come claims the command; later ones are given its receipt, or are  *)
(* refused when there is none.                                               *)
ClaimStart(i) ==
  LET outcome == command[inv[i].plan]
  IN /\ inv[i].step = "start"
     /\ IF outcome = Null
        THEN command' = [command EXCEPT ![inv[i].plan] = "begun"] /\ Goes(i, "starting")
        ELSE /\ UNCHANGED command
             /\ IF outcome = "PREPARING" THEN Goes(i, "run") ELSE Result(i, "failed")
     /\ UNCHANGED <<now, run, lease, tasks>>

NewRun(plan) ==
  LET first == plan.slices[1].slice_id
  IN [status |-> "PREPARING", version |-> 1, plan |-> plan, slice |-> first,
      binding |-> Binding(plan, first), thread |-> Null, leased |-> TRUE, epoch |-> 1]

(* The command takes the lease, creates the Run and takes it to PREPARING, unless     *)
(* that last write fails.  A Run that is created keeps its lease.                    *)
StartRun(i) ==
  /\ inv[i].step = "starting" /\ run = Null
  /\ lease' = Renewed(i, NewRun(inv[i].plan).epoch)
  /\ \/ run' = NewRun(inv[i].plan) /\ Goes(i, "started") /\ UNCHANGED command
     \/ /\ run' = [NewRun(inv[i].plan) EXCEPT !.status = "CREATED", !.version = 0]
        /\ command' = [command EXCEPT ![inv[i].plan] = "REJECTED"] /\ Result(i, "failed")
  /\ UNCHANGED <<now, tasks>>

(* The Run exists, or it cannot be created and the lease is released again.          *)
StartIsRejected(i) ==
  /\ inv[i].step = "starting"
  /\ command' = [command EXCEPT ![inv[i].plan] = "REJECTED"]
  /\ Result(i, "failed")
  /\ UNCHANGED <<now, run, lease, tasks>>

CompleteStart(i) ==
  /\ inv[i].step = "started"
  /\ command' = [command EXCEPT ![inv[i].plan] = "PREPARING"]
  /\ Goes(i, "run")
  /\ UNCHANGED <<now, run, lease, tasks>>

-----------------------------------------------------------------------------
(* ProductionOrchestrator.run.  An error takes it to "closing" or straight to its   *)
(* result.                                                                 *)

(* validateRunStart                                                         *)
IsStartOf(plan) ==
  /\ run.status = "PREPARING" /\ run.plan = plan
  /\ run.slice = plan.slices[1].slice_id
  /\ run.binding = Binding(plan, plan.slices[1].slice_id)

BeginRun(i) ==
  /\ inv[i].step = "run"
  /\ inv' = [inv EXCEPT ![i].step = IF IsStartOf(inv[i].plan) THEN "slice" ELSE "closing",
                        ![i].current = run, ![i].index = 1]
  /\ UNCHANGED <<now, command, run, lease, tasks>>

(* runSlice: the lease must be good for writing before the task is asked for.        *)
AssertWritable(i) ==
  /\ inv[i].step = "slice"
  /\ Goes(i, IF LeaseIsGood(inv[i].current.epoch) THEN "dispatch" ELSE "closing")
  /\ UNCHANGED <<now, command, run, lease, tasks>>

(* The host starts the task, or the invocation is given no handle of one.              *)
Dispatch(i) ==
  /\ inv[i].step = "dispatch"
  /\ \/ /\ Len(tasks) < MaxTasks /\ ~inv[i].lost
        /\ tasks' = Append(tasks, [slice |-> Slice(i).slice_id, by |-> i, status |-> "running"])
        /\ inv' = [inv EXCEPT ![i].step = "dispatched", ![i].task = Len(tasks')]
     \/ UNCHANGED tasks /\ Goes(i, "closing")
  /\ UNCHANGED <<now, command, run, lease>>

(* compareAndSwap of the run the invocation holds.                              *)
Swap(i, change) ==
  IF run.version = inv[i].current.version
  THEN run' = [change EXCEPT !.version = @ + 1]
  ELSE UNCHANGED run

(* startSlice: the slice and its binding change together or not at all.             *)
StartSlice(i) ==
  LET old  == inv[i].current
      id   == Slice(i).slice_id
      next == [old EXCEPT !.status = "SLICE_RUNNING", !.slice = id, !.thread = inv[i].task,
                          !.binding = Binding(inv[i].plan, id)]
      agrees == (old.slice # id) = (old.binding # Binding(inv[i].plan, id))
  IN /\ inv[i].step = "dispatched"
     /\ IF agrees THEN Swap(i, next) ELSE UNCHANGED run
     /\ Goes(i, IF agrees /\ run.version = old.version THEN "working" ELSE "closing")
     /\ UNCHANGED <<now, command, lease, tasks>>

TaskEnds(t) ==
  /\ tasks[t].status = "running"
  /\ \E status \in {"completed", "failed"} : tasks' = [tasks EXCEPT ![t].status = status]
  /\ UNCHANGED <<now, command, run, lease, inv>>

(* The completion of the task is accepted while the Run is still in its slice.        *)
IsAccepted(i) ==
  /\ tasks[inv[i].task].status = "completed"
  /\ run.status = "SLICE_RUNNING" /\ run.slice = Slice(i).slice_id /\ run.thread = inv[i].task

IsFinal(i) == inv[i].index = Len(inv[i].plan.slices)

TaskReturns(i) ==
  /\ inv[i].step = "working" /\ tasks[inv[i].task].status # "running"
  /\ inv' = [inv EXCEPT ![i].step = IF ~IsAccepted(i) THEN "closing"
                                    ELSE IF IsFinal(i) THEN "release" ELSE "prepare",
                        ![i].current = run]
  /\ UNCHANGED <<now, command, run, lease, tasks>>

(* prepare_next_slice leaves the slice of the Run what it was.                      *)
PrepareNextSlice(i) ==
  /\ inv[i].step = "prepare"
  /\ Swap(i, [inv[i].current EXCEPT !.status = "PREPARING"])
  /\ inv' = [inv EXCEPT ![i].step = IF run' # run THEN "slice" ELSE "closing",
                        ![i].index = IF run' # run THEN @ + 1 ELSE @,
                        ![i].current = run']
  /\ UNCHANGED <<now, command, lease, tasks>>

(* A compaction that times out is relayed: the Run goes on with another thread and   *)
(* the next epoch of the lease, and the invocation ends.                         *)
Relay(i) ==
  /\ inv[i].step = "working" /\ run.status = "SLICE_RUNNING" /\ run.thread = inv[i].task
  /\ \/ /\ LeaseIsGood(run.epoch)
        /\ run' = [run EXCEPT !.version = @ + 1, !.thread = "continuation", !.epoch = @ + 1]
        /\ lease' = Renewed(i, run.epoch + 1) /\ Result(i, "CONTINUATION_STARTED")
     \/ UNCHANGED <<run, lease>> /\ Goes(i, "closing")
  /\ tasks' = WithoutHost(i)
  /\ UNCHANGED <<now, command>>

Release(i) ==
  /\ inv[i].step = "release"
  /\ IF LeaseIsGood(inv[i].current.epoch) THEN lease' = Null /\ Goes(i, "done")
     ELSE UNCHANGED lease /\ Goes(i, "closing")
  /\ UNCHANGED <<now, command, run, tasks>>

(* A Run that changed in the meantime stays as it is, without its lease.             *)
Finish(i) ==
  /\ inv[i].step = "done"
  /\ Swap(i, [inv[i].current EXCEPT !.status = "DONE", !.leased = FALSE])
  /\ Result(i, IF run' = run \/ inv[i].lost THEN "failed" ELSE "DONE")
  /\ UNCHANGED <<now, command, lease, tasks>>

(* closeFailure of whatever the Run is by now, and the disposal of the task host.      *)
CloseFailure(i) ==
  /\ inv[i].step = "closing"
  /\ \/ run' = IF run.status \in {"NEEDS_USER", "DONE"} THEN run
               ELSE [run EXCEPT !.status = "NEEDS_USER", !.version = @ + 1]
     \/ UNCHANGED run
  /\ Result(i, "failed") /\ tasks' = WithoutHost(i)
  /\ UNCHANGED <<now, command, lease>>

-----------------------------------------------------------------------------
(* LeaseHeartbeat: it renews in the active statuses; its failure disposes the host.    *)
IsBeating(i) == inv[i].step \in {"run", "slice", "dispatch", "dispatched", "working", "prepare", "release", "done"}

Beat(i) ==
  /\ IsBeating(i) /\ ~inv[i].lost
  /\ run.leased /\ run.status \in {"PREPARING", "SLICE_RUNNING"}
  /\ IF LeaseIsGood(run.epoch) THEN lease' = Renewed(i, run.epoch) /\ UNCHANGED <<inv, tasks>>
     ELSE /\ inv' = [inv EXCEPT ![i].lost = TRUE]
          /\ tasks' = WithoutHost(i) /\ UNCHANGED lease
  /\ UNCHANGED <<now, command, run>>

(* The App Server goes down with the controller, and its tasks with it, or outlives it. *)
Dies(i) ==
  /\ inv[i].step # "idle"
  /\ inv' = [inv EXCEPT ![i] = NoInvocation]
  /\ tasks' \in {WithoutHost(i), Orphaned(i)}
  /\ UNCHANGED <<now, command, run, lease>>

Tick ==
  /\ now < MaxTime /\ now' = now + 1
  /\ UNCHANGED <<command, run, lease, tasks, inv>>

RuntimeNext ==
  \/ Tick
  \/ \E t \in DOMAIN tasks : TaskEnds(t)
  \/ \E i \in Invocations :
       \/ \E plan \in Plans, timing \in Timings, outside \in BOOLEAN : Invoke(i, plan, timing, outside)
       \/ ClaimStart(i) \/ StartRun(i) \/ StartIsRejected(i) \/ CompleteStart(i)
       \/ BeginRun(i) \/ AssertWritable(i) \/ Dispatch(i) \/ StartSlice(i)
       \/ TaskReturns(i) \/ PrepareNextSlice(i) \/ Relay(i) \/ Release(i) \/ Finish(i)
       \/ CloseFailure(i) \/ Beat(i) \/ Dies(i)

RuntimeSpec == RuntimeInit /\ [][RuntimeNext]_runtimeVars

-----------------------------------------------------------------------------
(* Properties.                                                              *)

(* What the acceptance matrix asks of a crash and recovery, that no task is            *)
(* duplicated: a slice whose task completed is not given to another task.             *)
NoRepeatedSlice ==
  \A t, u \in DOMAIN tasks :
    t < u /\ tasks[t].status = "completed" => tasks[t].slice # tasks[u].slice

(* A task among the first n of ts completed the k-th slice of the plan.              *)
IsDone(ts, plan, k, n) ==
  \E t \in 1..n : ts[t].slice = plan.slices[k].slice_id /\ ts[t].status = "completed"

(* Whichever invocations overlap and die, a task is started only for a slice of the    *)
(* Run's plan, and only when every slice before it has been completed.               *)
SlicesInOrder ==
  \A t \in DOMAIN tasks : \E k \in 1..Len(run.plan.slices) :
    /\ tasks[t].slice = run.plan.slices[k].slice_id
    /\ \A j \in 1..(k - 1) : IsDone(tasks, run.plan, j, t - 1)

(* The Run is DONE only when every slice of its plan was completed and its lease was   *)
(* released, and no invocation that is still there keeps a lease of it.              *)
DoneIsEarned ==
  run # Null /\ run.status = "DONE" =>
    /\ lease = Null /\ ~run.leased
    /\ \A k \in 1..Len(run.plan.slices) : IsDone(tasks, run.plan, k, Len(tasks))

(* A Run that is DONE stays what it is, also when an invocation fails over it.        *)
DoneIsFinal == [][run # Null /\ run.status = "DONE" => run' = run]_runtimeVars

=============================================================================
