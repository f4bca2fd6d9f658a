# Verification of the auto-slice controller

The controller executes a development plan slice by slice with a Codex App Server. It is one Node.js process per
plan, plus a control CLI that may run at the same time, plus whatever is started after a crash; they share no lock
and no server, only files. What makes it hard is therefore not any single function. It is that several processes
read, check and publish files in between each other's steps; that a process may die between any two of them; that
the host (the App Server) answers late, twice or not at all; that the user works on in the same work tree; and that
the Run, its workspace lease, its effect ledger and the tasks of the host change one after the other and never
together.

This directory holds TLA+ modules of that core, TLC configurations that check them on small instances, and TLAPS
proofs, for every value of the constants, of the four components that are protocols over files, of the control plane
above them, of the compaction monitor, of the sessions over the App Server connection and the two launchers that use
them, of the development task, of the relay that hands the right to write on, and of a slice from its baseline to
its commit and checkpoint. `PROJECT.json` lists the components, the runs, the mutants (for every property a
plausible bug that breaks it), the source lines behind each definition, the findings, the hazards and the theorems.

Paths below are relative to `src/controller/` of the repository unless they begin with `docs/` or `scripts/`.

## 1. Inventory

### Components, their state and their operations

| component | state | operations |
| --- | --- | --- |
| run state machine (`state/transitions.ts`, `factory.ts`, `validation.ts`) | none | which transition a Run in which status may make, and what it may change |
| run store (`state/file-run-store.ts`) | per Run a directory of event files linked in a digest chain, a snapshot file; in memory the Runs that are in read-only diagnostic mode | `create`, `load`, `compareAndSwap` |
| effect ledger (same file) | per idempotency key `intent.json` and `completion.json` | `appendEffectIntent`, `completeEffect`, `recoverIncompleteEffects` |
| project write lease (`workspace/file-workspace-guard.ts`) | per lease a directory of event files, per workspace the hard link `active.json` | `acquire`, `renew`, `assertWritable`, `freezeWrites`, `rotateEpoch`, `release` |
| git change guard (`workspace/git-change-guard.ts`) | none; reads HEAD, the index and the work tree | `captureBaseline`, `captureCurrent`, the classification of a patch |
| slice execution (`slices/`) | the child process of a check | `execute` with its contract, lease, checks and verdict; the check runner |
| commits and checkpoints (`git/commit-coordinator.ts`, `git/checkpoint-writer.ts`) | an alternate index, the branch, the checkpoint file | `finishSlice` in two commit modes, and its retry |
| goal completion guard (`production/goal-completion-guard.ts`) | none | `observe` of a commit the agent made itself |
| compaction monitor (`compaction-monitor/`) | deadline timers and the last host sequence in memory, gate and deadline in the Run | `onEvent`, `onDeadline`, `recover` |
| control plane (`control-plane/control-plane.ts`, `runtime.ts`, `recovery-catalog.ts`) | none of its own | `start`, `pause`, `resume`, `abort`, `override`, `status` |
| command journal (`control-plane/file-command-journal.ts`) | per command id `intent.json` and `completion.json` | claim, replay, complete |
| production orchestrator and runtime (`production/production-orchestrator.ts`, `file-production-runtime.ts`) | the loop over the slices, the lease heartbeat's timer | run a plan file, dispatch, observe, finish, relay, close a failure |
| source interruption (`thread-control/`) | none of its own | `interruptSource` |
| compression handoff (`handoff/compression-handoff-coordinator.ts`) | none of its own | `exportHandoff` |
| continuation (`continuation/continuation-coordinator.ts`) | none of its own | `continueFromHandoff` |
| App Server launchers (`handoff/app-server-compression-task-launcher.ts`, `continuation/app-server-continuation-launcher.ts`) | a journal of attempts and a folder per attempt; promises of starts, handoffs, readiness and progress in memory | `start`, `awaitHandoff`; `start`, `awaitReady`, `grantWrite`, `awaitProgress` |
| App Server client (`production/app-server-client.ts`) | the child process, pending requests and their timers, the fatal error | `initialize`, `request`, `dispose`, the stream handlers, the event firewall |
| App Server protocol (`production/app-server-protocol-v2.ts`) | none | which answers and notifications decode |
| development task adapter (`production/codex-app-server-development-task.ts`) | sessions with their event stream, open compactions, probe timer, outcome and interrupt receipt | `start`, signals, probe, `interrupt`, `inspect`, `dispose` |
| fresh task sessions (`production/app-server-fresh-task-session.ts`, `codex-app-server-task-host.ts`) | sessions, their turn attempts, the owners of turns | `start`, `startTurn`, `dispose`, the private event router |
| model routing (`model-policy/model-router.ts`), plan and prompts (`production/plan-parser.ts`, `prompt-builder.ts`) | none | `resolve`; which plans are refused |
| status projection, CLI | none | not modelled (section 6) |

### How they interact

* The orchestrator, the control plane, the monitor and the three relay coordinators are callers of one register, the
  Run. Each loads it, decides, changes something else (lease, host, ledger), and commits with `compareAndSwap`
  against the version it loaded. Losing the race is an answer they must handle.
* Whoever may write the workspace is given a write epoch of the lease. Pause freezes it, resume and the relay rotate
  it, abort and finish release it, the heartbeat renews it.
* The relay after a timed-out compaction is three coordinators in a row (interrupt the source, export a handoff,
  continue in a fresh task). They bracket every effect on the host with an intent and a completion in the ledger, so
  that a repeated call replays its receipt.
* The launchers and the development task talk to the host through one client connection. The client's single failure
  (`failConnection`) is everybody's failure; answers continue their callers in microtasks, and events arrive in the
  order of the host's lines, before or after the answers they belong to.
* A slice is judged by what Git shows: a baseline before, a snapshot after the checks, and a commit that must be the
  difference of the two. Each reading is several git processes, and the user, the agent and what a check left
  running share the work tree, the index and the branch.

### What is hard, per component, and what makes it correct

| component | hard behaviour | correct when |
| --- | --- | --- |
| run store | a version check, a link and a rename that other processes interleave with; a write that is refused after the event is published | one writer per version, an intact chain, the register |
| effect ledger | two performers of one effect; an intent for a version that is over | one intent and one completion per key, everybody told the same |
| write lease | check-then-unlink of `active.json`; stale readers of an append-only history; expiry | one owner of the workspace, epochs that only go up out of a freeze, no stale authority |
| compaction monitor | completion against deadline against pause and abort; early and late timers; a store that fails half-way | the gate closes once, for the true reason, in time |
| control plane with production | lease and Run change in two steps; commands cross each other and die | a paused Run cannot write; no Run ends with its lease held |
| command journal | repeated, concurrent and dying executions of one command id | executed at most once, one receipt |
| relay | crashes and failures between its roughly thirty calls, commands of other processes, the heartbeat | the right to write passes from the source to one continuation at most |
| client and sessions | events before answers, failures between an answer and its caller, late answers | receipts are about the turn they name; a dead connection leaves nobody waiting |
| slices and commits | edits, commits and restores of others between any two readings; killed git processes; retries; checks whose descendants escape | what is committed is what was verified, once, and the answer, the checkpoint and the receipt tell the truth about it |
| development task | host events, probe answers, interruption, rerouting and failure in any order | a paired stream, receipts that say what the host did, sessions that end |
| launchers | crashes between journal, folder and task; repeated and overlapping calls; undecodable answers | one handoff per effect, one folder per attempt, a write turn only for a ready draft and its grant |
| production runtime | invocations that die, are repeated, overlap | slices in their order, a DONE that is earned and stays; no slice that is done is done again: the code does not keep this (finding) |

## 2. Modules

| module | models | abstract specification | proofs |
| --- | --- | --- | --- |
| `RunTransitions` | the transition relation, the metadata rules, the successor record, as operators | | |
| `RunStore` | one Run's files, one file operation per step, any number of processes | `RunRegister` | `RunStoreProofs` |
| `EffectLedger` | one Run's effect directories, one file operation per step | `EffectRegister` | `EffectLedgerProofs` |
| `WriteLease` | leases of one workspace, one file operation or clock reading per step | | `WriteLeaseProofs` |
| `CommandJournal` | claims and receipts of command ids, one file operation per step | | `RunControlProofs` |
| `RunControl` | Run and lease under commands of several processes and production | | `RunControlProofs` |
| `CompactionMonitor` | the monitor, its timers, the loop that feeds it, and the commands that change the Run under it | | `CompactionMonitorProofs` |
| `RelayState`, `SourceInterruption`, `CompressionHandoff`, `Continuation`, `TaskRelay` | the relay: shared state and calls, one module per coordinator, and their composition with heartbeat, commands, expiry, crashes and a second execution | `Handover` | `TaskRelayProofs` |
| `AppServerClient`, `FreshTasks` | the connection, and the sessions and private router over it | | `FreshTasksProofs` |
| `DevelopmentTask` | the event firewall: which public notifications become signals, and the sessions that turn them into a stream and a receipt | | `SliceCompletionProofs` |
| `AppServerProtocol`, `TaskThreads` | which answers decode, and threads and turns as the launchers see them through their sessions | | `FreshTasksProofs` |
| `CompressionLauncher`, `ContinuationLauncher`, `TaskLaunch` | the two launchers, and their composition on one host with crashes | | `FreshTasksProofs` |
| `GitWorkspace`, `CheckProcess` | a repository whose readings are not atomic, and the change guard's classification; a check as a process group with pipes | | |
| `SliceExecution`, `CommitCoordinator`, `GoalCompletion`, `SliceCompletion` | a slice from baseline to verdict; its commit and checkpoint; the observation of an agent's commit; their composition | | `SliceCompletionProofs` |
| `ModelRouter`, `ProductionPlan`, `ProductionRuntime` | routing and plan refusals as operators; invocations of a plan file with the start command, the loop over slices and the heartbeat | | `EffectLedgerProofs` |

An `MC*` module gives constants that a `.cfg` cannot write (functions, sets of records, symmetry); components that
need none are checked directly.

How a module reads: `VARIABLES` comments name the file, field or map that a variable stands for; history variables
say so. A file operation or an awaited call is an action; everything a JavaScript handler does between two of them
is one step, because a process has one thread. A process's position in a call is a label in `pc` (or in the `step`
field of the call). `Crash(p)` forgets all that is in the memory of a process and keeps the files. `PersistFails`
stands for a refused write (space, permissions, fsync). Operators marked *fault for the mutation runs* are not part
of a specification: each is a bug that a property must catch.

### Layers

`RunStore` justifies that `CompactionMonitor`, `RunControl` and the relay take a call on the store for one step
(`StoreImplementsRegister` is proved), `EffectLedger` the same for the ledger in the relay, `WriteLease` for the
guard, and `CommandJournal` that `RunControl` and `ProductionRuntime` may execute a command once. What the register
view does not show is a read that takes an intact Run for a corrupt one (section 5); `EffectLedger` has this outcome
(`LoadMisreads`), the relay and `RunControl` do not. `FreshTasks` has the routing of single notifications;
`TaskThreads` takes the items of a turn together with its end. `TaskLaunch` is what `RelayState` assumes of the
launchers, and `TaskRelay` is one step of `ProductionRuntime`.

### Data that is abstracted

Digests are the records they are digests of (two records with equal digests are equal). Timestamps that only tell
two writers apart are the name of the writer. In the coordinators of the relay, receipts of the host and handoff
artifacts are accepted or refused, and a refused one is a failed call; which answers decode is in
`AppServerProtocol`. Bytes of a file are a small number, paths are model values. Error texts and options are left
out.

### Notes on single modules

* **RunStore**: `seen` is the head a process replayed; the successor is built from it. `floor` is history: how many
  events existed when the call began.
* **EffectLedger**: the Run exists. The directory check of a listing is folded into `ReadIntent`. Completion without
  an intent, another payload or another receipt put the process in diagnostic mode, as in the code.
  `recoverIncompleteEffects` is called by tests only, but it is public and modelled.
* **WriteLease**: epochs a caller may ask for are any, so that every stale caller is among them. Any process
  releases any lease. `overtaken` is history: the leases that were linked while some release had read `active.json`
  and not yet unlinked it.
* **CompactionMonitor**: events may be repeated, out of order or about another thread, timers early by `Early` or
  late. `winner` is history: what closed the gate.
* **RunControl**: `WorkStatuses` are the operational statuses production moves between without the lease; the
  relay's own statuses are the subject of `TaskRelay`. The heartbeat is the absence of `Expire`.
* **TaskRelay**: nothing in production calls a coordinator again after a restart; tests do, and the coordinators are
  written for it, so `Crash` restarts the stage it hit with the same arguments. Crashes inside the closure of a
  failure are not modelled, nor is the store's diagnostic mode. A failing guard leaves no event.
* **FreshTasks**: the host is arbitrary: any line at any time, also for turns nobody started. An answer to an
  unknown request is one of the lines that fail the connection. `completedTurnIds` is a subset of `turnOwners` and
  derived. The continuation of `initialize` is folded into its response. A turn's completion has no timeout in the
  session, the coordinators bound it, and `CallsEnd` is therefore about calls. `failConnection` does not kill the
  child process.
* **GitWorkspace**: a snapshot is one git process for the head, two for the lists of changed paths, and four
  readings of each path in turn, and the worktree may move before each of them. `capture` keeps the states the
  worktree went through since the first; the snapshot is put together at the end, for every way in which the
  readings may have fallen between them. `Others` writes, removes, stages and commits paths between any two steps,
  `MaxEdits` times. Histories are linear: HEAD is not moved back.
* **SliceExecution**: modelled with the caller that the repository has, `scripts/run-s12-e2e.mjs`: the patch that is
  finished is derived from the baseline and the last snapshot. The lease is a flag; only `execute` checks it.
* **CommitCoordinator**: `git commit` takes its parent when it runs, not when the head was read. A killed git
  process did its work or did not. Each of the git calls may fail.
* **DevelopmentTask**: the time between probes is any time; its answer is any of the three it can give, whatever the
  host did. Signals of one session are delivered in order.
* **TaskLaunch**: a request for a turn that was sent before the connection failed may still be served; one that the
  host has not begun when the process dies is lost. One compression effect and one continuation; the other end of
  the promises they memoize is the caller, which may await them any number of times.
* **ProductionRuntime**: the start command, the lease and the relay in coarser steps than their own modules, for the
  question is what a second invocation does. The App Server of an invocation that dies goes down with it, with its
  tasks, or outlives it. The heartbeat's timer fires at any time. A refused start command may hold the lease between
  two of its calls; that is one step here.

## 3. Runs

| run | asks | bounds |
| --- | --- | --- |
| `run_store` | Is every acknowledged write its caller's, and the store a register, with two processes that die and fail anywhere? | 2 processes, versions 0 to 2, four transitions (two allowed in sequence, one with metadata, one abort): enough for two writers at each version and for a snapshot two versions behind |
| `effect_ledger` | Are intents and completions told alike to all, and is the ledger a register? | 2 processes, a key of each of two versions, 2 payloads and 2 receipts: equal and contradicting arguments |
| `write_lease` | Does a granted lease own the workspace, is authority fresh, do old epochs stay dead? | 2 processes that both release, 2 leases, 3 events per lease, 2 attempts, clock to 2: a freeze and its rotation, a lost race and its retry, an expiry, and a release that is overtaken by another one and the next owner |
| `command_journal` | Is a command executed once and answered with one receipt? | 3 processes (executor, repeater and a third after a crash), 2 ids, 2 requests |
| `compaction_monitor` | Does the gate close once, for the true reason, in time, and does a guarded wait end? | 2 compactions, 2 threads, timeout 2, timers early by 1, clock to 4, 3 host sequences, versions to 4, every disturbance |
| `run_control` | Can a paused Run write; do Run and lease stay together; are acknowledged commands committed; does the lease change first? | 2 processes and production, 2 leases, versions to 4, expiry, failures, crashes: a pause, a resume and an abort of both processes in any interleaving |
| `task_relay` | Who may write, when is success earned, what does a failed relay leave, does it end? | any three disturbances of eight kinds together, 5 tasks (no run of three disturbances starts more) |
| `fresh_tasks` | Whose receipt is it, who learns of a failure, who gets a handle, does every call end? | 4 calls, 2 threads, 2 turns, 2 turns per session, 1 item per turn |
| `slice_completion` | Is what is committed what was verified, once; do answer, checkpoint and goal receipt tell the truth; does every check end? | two steps of others (enough to change a file and restore it around a staging, or to commit before and after one), one check, two calls of `finishSlice`, one tracked and one new owned file, one of the user and the checkpoint |
| `development_task` | Is the stream paired, are receipts and interrupt receipts earned, do sessions end? | two calls of `start` of which one gets a thread, one compaction id, two notifications beside the end of the turn (a compaction started twice, started and completed, or after a reroute) |
| `task_launch` | Does a handoff stay what it was, are attempts apart, is a write turn earned, does every call end? | three threads (a failed compression task, its successor and the continuation), two attempts, one crash, two grants under way at once with two epochs, two addresses |
| `production_plan` (violation) | Is a slice that is done never done again? | one process at a time, so that what is found needs no race; two slices, three tasks, clock to 3 |

Symmetry is declared only over sets whose members no definition distinguishes, and only in runs without liveness.
`CHECK_DEADLOCK FALSE` is said in `CompactionMonitor`, `RunControl`, `TaskRelay`, `FreshTasks`, `SliceCompletion`,
`DevelopmentTask`, `TaskLaunch` and `ProductionRuntime`, because there the system really stops: clock, versions,
disturbances, edits or calls are used up, or the work is done.

### Fairness

* `CompactionMonitor`: weak fairness of the handler (synchronous code that runs to its end) and of the clock, strong
  fairness of each timer (the event loop comes back to expired timers, however many events arrive between).
  `GuardedWaitsEnd` excuses a handler that gave up with a store error, and a restart: the code loses the deadline
  then (section 5).
* `TaskRelay`: weak fairness of the controller's next call. Host calls are bounded by timeouts, and calls on the
  disk are synchronous. Disturbances are never forced. `RelayEnds` excuses two failures of the store (the second one
  can hit the closure of the first) and two commands (section 5).
* `FreshTasks`: weak fairness of a sender, of a caller whose promise settled, and of timeouts. The host is not
  assumed to answer, the process is not assumed to exit.
* `SliceCompletion`: weak fairness of a check's timeout (a timer of the runner) and of the `close` event, once the
  child is gone and nobody holds its pipes. Checks are not assumed to end by themselves. `ChecksEnd` excuses a
  descendant that left the process group, which no timeout reaches.
* `DevelopmentTask`: requests are answered or time out, promises continue, lines are read, and a host that accepted
  an interrupt ends that turn. A host that never ends a turn keeps its session open: `SessionsEnd` is about sessions
  that were told to end.
* `TaskLaunch`: weak fairness of the launchers' own steps, of the notifications of a turn that ended, and of the
  answer to `turn/start` (or its timeout). Turns are not assumed to end: a call is owed an answer only once the turn
  it waits for is over or the connection is lost.

### Conditions inside safety properties

`FailedRelayCannotWrite` is claimed for any one disturbance of a controller that lives and whose plan is executed
once (`OneFault`), since `closeFailure` of the continuation remembers the grant in memory only.
`AnswersTellOfTheCommit` allows two false answers, both of them `commit_failed` and both because the code judges
from HEAD (section 5): one that denies the call's own commit and names the start head, when HEAD could not be read,
and one that claims a commit although the call made none, when somebody else moved HEAD.
`GrantedLeaseHoldsWorkspace` excepts the leases in `overtaken`, which may lose their workspace (section 5); a lease
that is linked at any other moment keeps it, however many processes release.

### Statements that are defined but in no run

Of the modules with proofs, `TypeOK`, `FilesStayIntact`, `EventsAreWriteOnce` (`RunStore`), `FreezeIsFinal`,
`ReleaseFreesWorkspace` (`WriteLease`), `ReceiptsAreEarned` (`CommandJournal`), `LedgerStaysIntact` and
`DiagnosisIsEarned` (`EffectLedger`) are theorems and need no run. The same holds of `SlicesInOrder`, `DoneIsEarned`
and `DoneIsFinal` (`ProductionRuntime`), whose one run is the one that refutes `NoRepeatedSlice`.

Three more do not hold, and state what the code does not do. To see the counterexample, make the definition an
`INVARIANT` or `PROPERTY` of the component's configuration:

* `RunStore.DiagnosticModeMeansDamage`: a process in diagnostic mode has met a damaged Run;
* `CompactionMonitor.WaitsEnd`: a wait ends whatever commands come, already with pauses as the only disturbance;
* `TaskRelay.HeartbeatSparesTheHost` with a budget for `beat` alone: the heartbeat does not dispose of the host the
  relay needs.

## 4. Proofs

Checked with TLAPS for every set of processes, leases, keys, commands and every bound:

| module | theorems | inductive invariant, and why more than the property is needed |
| --- | --- | --- |
| `RunStoreProofs` | `StoreTypeCorrect`, `StoreFilesStayIntact`, `StoreAcknowledgedWritesAreOwn`, `StoreEventsAreWriteOnce`, `StoreImplementsRegister` | `Inv`: the chain, that an event's index is its version, the snapshot as a prefix, and per process what it holds at each label (`CallShape`: before the link the head it saw has the expected version and the transition was allowed from it; after it the event there is its own) and what it cannot have missed (`FloorReached`, for the register's real-time order) |
| `EffectLedgerProofs` | `LedgerTypeCorrect`, `LedgerIntact`, `LedgerRecordsAgree`, `LedgerDiagnosisIsEarned`, `LedgerImplementsRegister` | `Inv`: the files, per process what its call knows at each label (the intent it saw is still there; a version that equalled the key's was one of the call; during recovery, nothing that was open at the start is forgotten) and what the answers say |
| `WriteLeaseProofs` | `LeaseTypeCorrect`, `LeaseFreezeIsFinal`, `LeaseAuthorityIsFresh`, `LeaseReleaseFreesWorkspace`, `LeaseOldEpochsStayDead`, `LeaseHoldsWorkspace` | `LeaseInv`: any earlier event of a history precedes any later one, what a call validated is of that history, no two processes publish one lease; `HolderInv` adds that whoever is about to unlink `active.json` finds there the lease it read, or nothing, or a lease that was linked meanwhile and is therefore in `overtaken` |
| `RunControlProofs` (control plane and command journal) | `ControlRunAndLeaseAgree`, `ControlAcknowledgedCommandsAreCommitted`, `ControlLeaseChangesFirst`; of the journal `JournalTypeCorrect`, `JournalExecutesOnce`, `JournalRepliesAgree`, `JournalReceiptsAreEarned` | `Inv`: types; `RunInv` (`LeaseAgrees`: a frozen lease is at the Run's epoch, an active lease of a paused Run is one rotation ahead of it); and per process and phase what its command knows: `Based` (what it loaded is old, and counts only while that version is current), `Rotated` (the rotation its target names was done, unless the Run moved on), `Fresh` (a lease it just acquired is known to it alone). The property alone is not inductive: whether a commit of PAUSED is safe depends on what the command did to the lease before, and what it read may be stale by then. `JournalInv`: the executor is the claimant and has not executed before it does; files, counts and answers agree |
| `CompactionMonitorProofs` | `MonitorNoEarlyInterruption`, `MonitorOnlyPunctualCompletionRecovers`, `MonitorTellsTheTruth` | `Inv`: types; `GateAgrees` (the status the Run is in, or was stopped in, agrees with its gate and with what closed it); `TimersAgree` (a timer is about the pending gate, or about one that its completion closed, and of no later version); `HandlerInv` with `Decided` (what a handler found before it commits holds whenever the Run still has the version it expects). The properties speak of single commits, and whether one is right depends on what its handler found before it, and on the pauses, resumes and aborts since |
| `FreshTasksProofs` | `TaskTurnsAreSound`, `TaskFailureReachesEveryWaiter`, `TaskHandlesAreAlive` | `Inv`: types; `SessionsAgree` (a session that runs a turn holds the call that asked for it); `AttemptsAgree` (what was gathered for a call is about one turn, the first that was named, and a turn belongs to the one call whose answer named it); `WaitersAreKnown` (who waits for the end of a turn is the attempt of a session that runs it) and what the connection's failure left. Events, answers and failures come in any order, so that what a receipt says is decided before the turn's id is known |
| `FreshTasksProofs` (launchers) | `LaunchHandoffIsStable`, `LaunchAttemptsAreApart`, `LaunchWriteTurnIsEarned`, `LaunchGrantsAreEarned` | `IInv`, for any threads, attempts, answers, endings, granters and deaths: `ThreadsInv` (what the turns of a thread are for, also the one that was asked for and has not begun; no attempt is that of two threads, and none is newer than the journal), `FoldersInv`, `LaunchInv` and `TaskInv` (which thread a launcher holds, and how far its turn is by each of its steps), `HandoffInv` (what is being written, journaled and answered is what the turn ended with), `GrantInv` (at most one grant waits for the turn, and a lease receipt means that the turn is there), `ThreadsApart`. The properties speak of turns and answers; that a thread gets no second writing turn, or an attempt no second thread, is decided by requests the host still has to begin, and by the journal of earlier lives |
| `TaskRelayProofs` | `RelaySourceIsGoneFirst`, `RelayImplementsHandover`, `RelaySuccessIsEarned`, `RelayFailureIsContained` | `Held`: types; the Run's epoch and the lease's are at most one rotation apart; what a coordinator or a command loaded is the Run, or a Run of an earlier version (`LoadedOK`, `ControlOK`); and what the host and the lease went through by each stage (`InterruptOK`, `StageOK`). `Followed` on top of it: a stage called again at its version finds the Run there, or where that stage took it and at the epoch it had (`ExportFollowed`, `ContinueFollowed`), the start effect has one task (`CompletedOnce`), and only that task at only that epoch is ever granted (`GrantsFollowed`). The refinement is not a matter of single steps: that the one grant comes while nobody can write, to a task that never could, depends on replays after a crash finding the task and the epoch of the first attempt. `Earned`: past the grant the ledger and the grants name this task and this epoch. `Contained`, for the failures: `Counted` and `CompletedForItsTask` always, and `Calm` while `OneFault` holds: nobody else changed the Run unless that was the one disturbance (`RunIsOurs`), a continuation knows whether a grant may have occurred (`GrantIsKnown`), it fails after the grant only because the disturbance is used up, so that nothing keeps it from freezing the lease (`FailureIsDisturbed`), and what is left to do when it fails leaves nobody able to write (`FailureIsHarmless`) |
| `SliceCompletionProofs` | `SliceIsConsistent`, `SliceCommitsTheVerifiedPatch`, `SliceAnswersAreTrue`, `SliceCommitsOnce`, `SliceCheckpointsFollow`, `GoalReceiptsAreTrue` | `IInv`, for any paths, ownership, number of checks, calls and edits: the head only moves forward (`GitInv`), so that once the Slice committed no capture that begins later shows its start head (`CaptureInv`), and no further call gets past its first inspection (`CommitInv`); the patch to be staged is the verified one (`SliceInv`), and the staged tree does not change between its comparison and the commit (`StagedInv`); `HeadInv`, `CheckpointInv` and `GoalInv` tell what answer, checkpoint and receipt rest on. The properties speak of what is on the disk; that a retry cannot commit again depends on readings that others' steps fall in between of |
| `SliceCompletionProofs` (development task) | `TaskIsConsistent`, `TaskStreamIsSound`, `TaskReceiptsAreEarned`, `TaskInterruptReceipts` | `TaskInv`, for any sessions, compactions and notifications: `IsSound` (until a session ends, the compactions its stream leaves open are those it holds for open, the probe's among them; a probe's compaction is open only once the probe is stopped), `Told` (a session was told no other end than that of its turn; of a reroute it knows, or hears before any end, or hears of no end at all), `EndsAgree` (an end that waits or is on its way is the turn's). The answer to `turn/start` and the notifications cross, so that a receipt can rest on signals that waited; and the property on reroutes speaks of the host, while what the session does depends on the order in which the reroute and the end are queued, on which side of `turn/start` it handles them, and on whether it was disposed of before |
| `EffectLedgerProofs` (production runtime) | `RuntimeIsConsistent`, `RuntimeSlicesInOrder`, `RuntimeDoneIsEarned`, `RuntimeDoneIsFinal` | `RuntimeInv`, for any invocations, plans, tasks and deaths: what an invocation in the loop holds is the Run, or a Run of an earlier version (`HoldsRun`), its plan is the Run's, and every slice before its own was completed (`LoopInv`); a plan that is accepted has slices (`ParsedPlansAreValid`). A second invocation works on slices that the Run has left long ago, and what it does to the Run is harmless only because its version is old by then: every write raises the version, so that an equal version means an equal Run, also the one that is DONE and whose lease is gone |

The signals that wait for a turn are handled in one step by a recursive function over their sequence
(`HandleSignals`), and what it keeps is shown by induction on their number. The library's induction theorems take an
operator as their parameter, which no prover here can instantiate; `CountingUp` states induction for a *set* of
numbers instead and rests on the cardinality of finite sets. `SignalSteps` shows with it that the recursion has a
solution, `SignalsHandled` that the invariant holds after the last signal.

Each proof shows `Init => Inv`, one lemma per action (in `RunControlProofs` one per group of actions that leave the
same part of the state alone) for `Inv /\ [Next]_vars => Inv'`, and derives the theorems. Two lemmas carry
`RunControlProofs`: what other processes know survives a step on a lease because epochs never fall and RELEASED is
final (`OthersWhileLeaseMoves`), and survives a commit because it makes their version old (`OthersWhileRunMoves`).
Action properties follow from the same invariant: `ControlLeaseChangesFirst` says of each commit what its command
did to the lease before. A refinement theorem maps each action to a step of the abstract specification or to a
stutter.

Assumptions: `None` is not a member of the sets it stands outside of (`NullIsNoValue`, a hypothesis of the runtime's
theorems, says the same of `Null`), the compaction a probe reports has an id that is none of the host's (it is named
after a hash, `production/codex-app-server-development-task.ts:788`), bounds are naturals (`MaxVersion` of
`RunControl` a positive one), `WorkStatuses` are operational statuses, `Transitions` are transitions and the initial
Run is one, and the envelope's epoch is a positive one of those that callers may name. `LedgerImplementsRegister`
rests on loading the Run being atomic, or misreading it; `CompactionMonitorProofs` on the store, and
`RunControlProofs` and `TaskRelayProofs` on the store and the lease being atomic, which `StoreImplementsRegister`
and the theorems of `WriteLeaseProofs` are about.

Every safety invariant and action property of the passing runs is a theorem. Only model-checked: all liveness
(`GuardedWaitsEnd`, `RelayEnds`, `CallsEnd`, `ChecksEnd`, `SessionsEnd`, `LaunchesEnd`), which needs fairness and
with it `ENABLED`. What the theorems about the production runtime leave open is exactly what its run refutes: slices
are started in order and a DONE is earned, but a slice may be started again after it was completed. That the layers
of section 2 fit together is argued there, from the theorems of each; no single theorem composes them.

Before the proofs TLC checked the invariants they rest on as invariants of small instances: `IInv` of the slices,
`TaskInv` of the development task, `RuntimeInv` of the production runtime (with two overlapping invocations,
3,022,138 states), `IInv` of the launchers, and `Earned` and `Contained` of the relay (with five tasks and up to
three disturbances). One property did not survive the attempt to prove it: `OwnCommitIsTheVerifiedPatch` compared
the committed content with the file in the worktree, which the code does not do for a file that the index dropped
(section 5).

## 5. What the models show about the code

One disagreement between code and documentation has a run of its own (`findings`):

* `production_plan`: a controller that dies between two slices and is run again does the first slice again
  (`production/production-orchestrator.ts:226`; `docs/implementation-slices.md:693`). The development task is
  started before anything on the disk names it, `prepare_next_slice` leaves the slice and its binding in the Run,
  and the replayed start receipt says PREPARING for good.

Others met while modelling. Three of the first four are the definitions of section 3 that do not hold, the one about
releases is what `GrantedLeaseHoldsWorkspace` excepts; the rest the models contain as behaviour and no property
contradicts.

Run, lease and commands:

* a load replays the log and then reads the snapshot. A commit of another process in between makes the snapshot look
  newer than the log, and the process keeps an intact Run in read-only diagnostic mode
  (`state/file-run-store.ts:1008`);
* two processes that release the same lease, the CLI's abort and the orchestrator's finish say: the slower one
  unlinks the `active.json` of the next owner, if that one links it between the two
  (`workspace/file-workspace-guard.ts:786`);
* a pause and a resume while a compaction is pending: the timer keeps the version it was armed with, its callback is
  answered `stale_state`, nothing arms it again (`compaction-monitor/compaction-monitor.ts:397`);
* the heartbeat's renewal is refused while the interruption has the lease frozen, and disposes of the host the
  interruption waits for (`production/file-production-runtime.ts:195`);
* a process that dies between making the Run's directory and linking its first event leaves a Run that a load finds
  corrupt until somebody creates it again, which whoever loaded it is refused from then on
  (`state/file-run-store.ts:993`);
* abort is refused with `abort_cleanup_failed` once the lease expired, for an expired lease cannot be released
  (`control-plane/runtime.ts:94`; `docs/implementation-slices.md:652` allows abort in every status that is not
  terminal);
* `start` may answer REJECTED although its Run exists (`control-plane/control-plane.ts:305`;
  `docs/implementation-slices.md:648`), and a lease acquired by a `start` that died before it created the Run blocks
  the workspace;
* `closeFailure` of a paused Run remembers PAUSED as its last successful status, and that Run cannot be resumed;
* a deadline is lost when the store fails inside a timer's callback, and after a restart, since nothing in
  production calls `recover` (`compaction-monitor/compaction-monitor.ts:128`).

The relay:

* a controller that dies between the grant and its completion leaves a continuation that can write: that a grant may
  have occurred is remembered in memory only (`continuation/continuation-coordinator.ts:673`, `:1539`;
  `docs/架构.md:697`);
* an interruption that is called again after its rotation, but before its commit, and finds another state gives up
  (`thread-control/source-interruption-coordinator.ts:283`; `docs/架构.md:300`);
* two commands, a pause and a resume, during the relay put the Run back into its relay status after the coordinator
  gave up: nobody drives it on (`control-plane/control-plane.ts:359`);
* executing a plan file a second time replays the receipt of the first start and then closes the running Run with
  NEEDS_USER, without freezing its lease (`production/production-orchestrator.ts:619`,
  `continuation/continuation-coordinator.ts:1527`; `docs/架构.md:340`).

The connection and its sessions:

* a late item or a duplicate terminal of a turn that ended, read while the next turn of the same session is
  starting, is taken for a candidate and does not close the connection; the session fails later, when the answer
  names another turn (`production/app-server-fresh-task-session.ts:396`; `docs/架构.md:635`);
* disposing of the client leaves pending requests to their timeouts, and the first request after it spawns a process
  that nobody kills (`production/app-server-client.ts:500`);
* two calls of `start` of the development task both pass the check that no session is busy before either has one
  (`production/codex-app-server-development-task.ts:302`);
* a turn or an interrupt that failed or timed out closes its session while the host's turn may run on; its late end
  is not recognised, and disposing of the adapter ends no session;
* compaction signals of another turn of the thread, read before the session knows its turn, are counted as its own;
  only the first compaction of a session is probed for.

Slices:

* a commit of somebody else that comes after the last inspection is reverted by the slice's own commit, whose tree
  was staged before it, in the paths of the slice;
* whether a commit was created is judged by HEAD having moved: with HEAD unreadable afterwards the answer denies a
  commit that exists, and with a failed commit and a HEAD that somebody else moved it claims one that the call never
  made (`git/commit-coordinator.ts:310`); a retry after the commit is answered `head_drift`, again denying it;
* in mode `none` a call that wrote its checkpoint and then failed on the clock cannot be repeated;
* the comment at `git/commit-coordinator.ts:461` says that a fresh snapshot proves that a new file did not change
  while Git staged it. A file that was changed and changed back around the staging passes it, and bytes that no
  check saw are committed; `OwnCommitIsTheVerifiedPatch` therefore excepts new files;
* a file that the index dropped and that lies in the worktree is a deletion in the combined patch that is verified
  and committed, whatever the checks read in it. Deleted around the staging and put back, it passes the comparison
  of the snapshots as well (`git/commit-coordinator.ts:462`); four edits are needed, more than the run allows.
  `OwnCommitIsTheVerifiedPatch` therefore speaks of the patch, not of the file;
* a snapshot is several readings: in mode `none` the goal completion guard can miss a commit of the agent that falls
  between them;
* a check whose descendant left the process group and holds its output hangs for good, and one that closed it
  outlives a check that passed; `finishSlice` never looks at the lease.

Launchers:

* the promise of a compression task that failed is kept, so that the same process cannot try again; so is that of a
  successful start after its task is gone;
* a restart after LAUNCHED starts a second compression task while the turn of the first may run on;
* when the answer to the write turn is lost, `grantWrite` fails although the turn may be running; of two grants
  under way, the loser sets the phase FAILED and the winner sets it back; a repeated grant is still answered after
  its turn failed;
* a receipt takes any absolute path for an artifact; a stored handoff of the older schema is read without a digest;
* a session whose `turn/start` timed out fails the whole connection when events of that turn arrive; two processes
  that share the journal could overwrite a COMPLETED record.

Production runtime:

* a second `run-plan` while the first one works puts its Run into NEEDS_USER; between two slices it passes
  `validateRunStart`, and both do the first slice again; the task that the loser dispatched runs on;
* the failure of the last transition to DONE comes after the release of the lease and is returned without
  `closeFailure`: the Run stays SLICE_RUNNING (`production/production-orchestrator.ts:152`);
* a crash between the claim and the receipt of the start command makes every repetition `command_in_progress`; an
  expired capability snapshot refuses a repetition, and an edited plan with the same run id is `run_already_exists`;
* a repetition may find that its lease expires before the first heartbeat;
* the result CONTINUATION_STARTED ends the heartbeat and disposes of the host: nobody carries the slice on.

## 6. Not modelled, and why

* Status projection, the CLI and the prompts' texts: they keep no state and make no decision that a property is
  about. Opening stores succeeds; their configuration is not modelled.
* The intervals of the probe schedule: the development task calls it, and its next time is any time.
* Scripts, except the one that is the only caller of the slice executor (`scripts/run-s12-e2e.mjs`); the others are
  test drivers.
* File modes, symbolic links, renames and unmerged stages of a repository, and histories that are not linear.
* An invalid clock in a launcher after its turn started (it leaves the phase READY); two processes that share a
  launcher's journal.
* The comparison of a Run's completion receipts with the plan's digest and the evidence files of a resolution.

## 7. Plan

1. Modelled: every component but the status projection and the CLI. Proved: every safety property that a passing run
   checks, and what the production runtime keeps.
2. Larger questions left: a slice with two checks that race each other's descendants; two plans that share one
   workspace; the relay under more than one fault at a time with the grant remembered on the disk.
