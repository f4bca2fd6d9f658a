----------------------------- MODULE RelayState -----------------------------
(***************************************************************************)
(* What the three stages of the relay after a timed-out compaction share:  *)
(* the Run, its Project Write Lease, the effect ledger, the tasks the host *)
(* runs, and the calls a coordinator makes on them.  Calls on the store,   *)
(* the guard and the ledger are atomic (RunStore, WriteLease); between any *)
(* two of them other processes make theirs.                                *)
(*                                                                         *)
(* Receipts are what their decoders accept or refuse, so a host call that  *)
(* answers with an untrustworthy receipt is a host call that fails.        *)
(***************************************************************************)
EXTENDS Naturals, Sequences

CONSTANTS
  MaxTasks,  \* bound on the tasks the host starts
  Budget     \* Budget[d]: bound on how often disturbance d happens

None == "none"

\* "command": pause, resume or abort of another process; "host": an App Server
\* call times out, fails or answers with a receipt that is refused; "store",
\* "guard": a persistence error; "expire": the lease expires; "beat": the
\* heartbeat's timer fires; "crash": the controller dies, and the coordinator it
\* was in is called again; "again": the plan is executed a second time; "any"
\* bounds all of them together.
Disturbances == {"command", "host", "store", "guard", "expire", "beat", "crash", "again", "any"}

ASSUME MaxTasksAssumption == MaxTasks \in Nat
ASSUME BudgetAssumption == Budget \in [Disturbances -> Nat]

VARIABLES
  run,      \* the persisted Run
  lease,    \* the newest event of the Run's lease
  ledger,   \* ledger.intended: keys; ledger.completed: keys with their receipts' task
  tasks,    \* tasks[t]: task t as its launcher started it
  stopped,  \* the host interrupted the source's turn
  grants,   \* who was given which write epoch
  process,  \* what the memory of the controller's process has of the host
  pc,       \* the next call of the relay
  local,    \* what the relay remembers
  control,  \* a control command between its two calls
  left      \* left[d]: how often disturbance d may still happen

disk == <<run, lease, ledger>>
world == <<tasks, stopped, grants, process>>
vars == <<disk, world, pc, local, control, left>>

RelayStatuses == {"SOURCE_INTERRUPTING", "HANDOFF_EXPORTING", "CONTINUATION_STARTING"}
Statuses == RelayStatuses \cup {"SLICE_RUNNING", "PAUSED", "NEEDS_USER", "ABORTED"}

\* The launchers number the tasks they start from 1.
TaskIds == 1 .. MaxTasks
Source  == MaxTasks + 1
NoTask  == 0

\* gate: a compaction is set; attempted: its handoff_attempted; compression and
\* continuation: the task ids of handoff; resume_to: paused_from_status or
\* last_successful_status; unfrozen: last_error.details.failure_freeze_error.
Runs ==
  [state_version: Nat, status: Statuses, epoch: Nat, source: {Source} \cup TaskIds,
   gate: BOOLEAN, attempted: BOOLEAN, compression: TaskIds \cup {NoTask},
   continuation: TaskIds \cup {NoTask}, resume_to: RelayStatuses \cup {"SLICE_RUNNING", "PAUSED", None},
   unfrozen: BOOLEAN]

\* rotated: the newest event is EPOCH_ROTATED.
Leases ==
  [status: {"ACTIVE", "FROZEN", "RELEASED"}, epoch: Nat, rotated: BOOLEAN, expired: BOOLEAN]

Actions ==
  {"interrupt_source_thread", "export_handoff", "start_continuation_task",
   "grant_continuation_write", "observe_continuation_progress"}
Keys == [action: Actions, version: Nat, task: TaskIds \cup {NoTask}]
Completions == [key: Keys, task: TaskIds \cup {NoTask}]

\* known: a launcher of the living process started it.
HostTasks ==
  [kind: {"compression", "continuation"}, version: Nat,
   known: BOOLEAN, phase: {"started", "ready", "completed"}]

\* connected: the App Server's client is not disposed; tracks_source: the adapter
\* that started the source's turn lives.
Processes == [connected: BOOLEAN, tracks_source: BOOLEAN]

Labels ==
  {"idle", "done",
   "interrupt", "freeze", "inspect", "intendInterrupt", "hostInterrupt", "completeInterrupt", "rotate",
   "commitInterrupt", "checkInterrupt", "failInterrupt",
   "export", "claim", "checkClaim", "intendExport", "launch", "awaitHandoff", "completeExport",
   "commitExport", "checkExport", "failExport",
   "continue", "assertFirst", "intendStart", "startTask", "completeStart", "assertBefore",
   "intendGrant", "grantWrite", "completeGrant", "assertAfter", "intendProgress",
   "awaitProgress", "completeProgress", "commitContinuation", "checkContinuation",
   "loadFailed", "freezeFailed", "failContinuation",
   "checkResumed", "closeFailure", "commitClosure"}

\* The labels at which the event loop is free for its timers.
AwaitLabels ==
  {"hostInterrupt", "launch", "awaitHandoff", "assertFirst", "startTask", "assertBefore",
   "grantWrite", "awaitProgress"}

NoRun == [status |-> None]

NoLocal ==
  [expected |-> 0, base |-> NoRun, position |-> None, known |-> FALSE, task |-> NoTask,
   granted |-> FALSE, unfrozen |-> FALSE, replay |-> FALSE]

Locals ==
  [expected: Nat, base: Runs \cup {NoRun}, position: {"FROZEN", "ROTATED", None},
   known: BOOLEAN, task: TaskIds \cup {NoTask}, granted: BOOLEAN, unfrozen: BOOLEAN,
   replay: BOOLEAN]

Controls ==
  [command: {"pause", "resume", "abort"}, base: Runs, epoch: Nat] \cup {[command |-> None]}

TypeOK ==
  /\ run \in Runs
  /\ lease \in Leases
  /\ ledger \in [intended: SUBSET Keys, completed: SUBSET Completions]
  /\ tasks \in Seq(HostTasks) /\ Len(tasks) <= MaxTasks
  /\ stopped \in BOOLEAN
  /\ grants \subseteq [task: {Source} \cup TaskIds, epoch: Nat]
  /\ process \in Processes
  /\ pc \in Labels
  /\ local \in Locals
  /\ control \in Controls
  /\ left \in [Disturbances -> Nat]

\* A compaction of the source just timed out.
Init ==
  /\ run = [state_version |-> 0, status |-> "SOURCE_INTERRUPTING", epoch |-> 1,
            source |-> Source, gate |-> TRUE, attempted |-> FALSE, compression |-> NoTask,
            continuation |-> NoTask, resume_to |-> None, unfrozen |-> FALSE]
  /\ lease = [status |-> "ACTIVE", epoch |-> 1, rotated |-> FALSE, expired |-> FALSE]
  /\ ledger = [intended |-> {}, completed |-> {}]
  /\ tasks = <<>>
  /\ stopped = FALSE
  /\ grants = {[task |-> Source, epoch |-> 1]}
  /\ process = [connected |-> TRUE, tracks_source |-> TRUE]
  /\ pc = "idle"
  /\ local = NoLocal
  /\ control = [command |-> None]
  /\ left = Budget

-----------------------------------------------------------------------------
Happens(d) ==
  /\ left[d] > 0 /\ left["any"] > 0
  /\ left' = [left EXCEPT ![d] = @ - 1, !["any"] = @ - 1]

Goto(label) == pc' = label

Continue(label) == Goto(label) /\ UNCHANGED local

Remember(label, l) == Goto(label) /\ local' = l

\* Fault for the mutation runs: an error is returned to nobody.
GiveUpSilently == Remember("done", NoLocal)

\* A coordinator returns an error to the orchestrator, which closes the Run.
GiveUp == Continue("closeFailure")

Forget == Remember("done", NoLocal)

\* compareAndSwap: the next version is committed, the version was another, or
\* the store fails and leaves open whether it was committed.
Committed(next) ==
  /\ run.state_version = local.base.state_version
  /\ run' = [next EXCEPT !.state_version = run.state_version + 1]
  /\ UNCHANGED left

Stale ==
  /\ run.state_version # local.base.state_version
  /\ UNCHANGED <<run, left>>

PersistFailed(next) ==
  /\ Happens("store")
  /\ \/ UNCHANGED run
     \/ /\ run.state_version = local.base.state_version
        /\ run' = [next EXCEPT !.state_version = run.state_version + 1]

\* appendEffectIntent: an existing record is returned whatever the version is.
Key(action, version, task) == [action |-> action, version |-> version, task |-> task]

Intended(key) ==
  /\ key \in ledger.intended \/ run.state_version = key.version
  /\ ledger' = [ledger EXCEPT !.intended = @ \cup {key}]
  /\ UNCHANGED left

IntentRefused(key) ==
  \/ /\ key \notin ledger.intended
     /\ run.state_version # key.version
     /\ UNCHANGED <<ledger, left>>
  \/ /\ Happens("store")
     /\ \/ UNCHANGED ledger
        \/ /\ run.state_version = key.version
           /\ ledger' = [ledger EXCEPT !.intended = @ \cup {key}]

\* completeEffect with the receipt of task t, not called for a record that was
\* completed when the intent was appended: then another receipt is refused.
CompletedFor(key) == {c.task : c \in {d \in ledger.completed : d.key = key}}
IsCompleted(key) == CompletedFor(key) # {}

Complete(key, t) == ledger' = [ledger EXCEPT !.completed = @ \cup {[key |-> key, task |-> t]}]

Completed(key, t) ==
  /\ CompletedFor(key) \subseteq {t}
  /\ Complete(key, t)
  /\ UNCHANGED left

CompletionRefused(key, t) ==
  /\ ~(CompletedFor(key) \subseteq {t})
  /\ UNCHANGED <<ledger, left>>

\* The store fails, before or after it wrote the completion.
CompletionFails ==
  /\ ~local.known
  /\ Happens("store")
  /\ UNCHANGED ledger

CompletionUnknown(key, t) ==
  /\ ~local.known /\ ~IsCompleted(key)
  /\ Happens("store")
  /\ Complete(key, t)

-----------------------------------------------------------------------------
\* The workspace guard.

\* validateCredentialAndExpiry, validateWritableState
IsValid(epoch) == lease.status # "RELEASED" /\ lease.epoch = epoch /\ ~lease.expired
IsWritable(epoch) == IsValid(epoch) /\ lease.status = "ACTIVE"

FreezeWrites ==
  lease' = [lease EXCEPT !.status = "FROZEN", !.rotated = FALSE]

\* Fault for the mutation runs: the write epoch stays what it was.
RotateInPlace ==
  lease' = [lease EXCEPT !.status = "ACTIVE", !.rotated = TRUE, !.expired = FALSE]

RotateEpoch ==
  lease' = [status |-> "ACTIVE", epoch |-> lease.epoch + 1, rotated |-> TRUE, expired |-> FALSE]

GuardFails == Happens("guard") /\ UNCHANGED lease

-----------------------------------------------------------------------------
\* The host.

\* The launchers remember what they started while their process lives.
Launch(kind, version) ==
  /\ Len(tasks) < MaxTasks
  /\ tasks' = Append(tasks, [kind |-> kind, version |-> version, known |-> TRUE, phase |-> "started"])

Known(kind, version) ==
  {t \in DOMAIN tasks : tasks[t].kind = kind /\ tasks[t].version = version /\ tasks[t].known}

Enter(phase, t) == tasks' = [tasks EXCEPT ![t].phase = phase]

\* A disposed connection fails every call; otherwise failing is a disturbance.
HostFails ==
  \/ ~process.connected /\ UNCHANGED left
  \/ process.connected /\ Happens("host")

\* A task can write with the epoch it was given while the lease is at that epoch.
Writers == {g.task : g \in {h \in grants : IsWritable(h.epoch)}}

=============================================================================
