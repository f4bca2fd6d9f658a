--------------------------- MODULE TaskRelayProofs ---------------------------
(***************************************************************************)
(* The source is dead before another task lives, the right to write passes *)
(* on as Handover promises, a new source has earned its place, and a relay *)
(* that fails leaves no continuation able to write: for any number of      *)
(* tasks and any budget of disturbances.                                   *)
(*                                                                         *)
(* The argument has four floors.  Held: the Run's epoch and that of its    *)
(* lease stay together, because what a coordinator or a command remembers  *)
(* is the Run as it is or a Run of an earlier version (LoadedOK,           *)
(* ControlOK), and what stage the relay is in tells what the host and the  *)
(* lease went through (InterruptOK, StageOK).  Followed: a stage that is   *)
(* called again at its version finds the Run there or where that stage     *)
(* took it, with the epoch it had (AtExport, AtContinue), so that only the *)
(* one task of the start effect is ever granted, and only one epoch.       *)
(* Earned: what the ledger and the grants must say where the continuation  *)
(* stands.  Contained: while one disturbance at most happened (Counted),   *)
(* every failure has its reason, and what it leaves can be told from the   *)
(* label it is handled at (Calm).                                          *)
(***************************************************************************)
EXTENDS TaskRelay, SequenceTheorems, TLAPS

InterruptLabels ==
  {"interrupt", "freeze", "inspect", "intendInterrupt", "hostInterrupt",
   "completeInterrupt", "rotate", "commitInterrupt", "checkInterrupt", "failInterrupt"}

ExportLabels ==
  {"export", "claim", "checkClaim", "intendExport", "launch", "awaitHandoff",
   "completeExport", "commitExport", "checkExport", "failExport"}

\* The task is known and recorded...
TaskLabels ==
  {"assertBefore", "intendGrant", "grantWrite", "completeGrant", "assertAfter",
   "intendProgress", "awaitProgress", "completeProgress", "commitContinuation",
   "checkContinuation", "checkResumed"}

\* ... or not yet, or no longer needed.
ContinueLabels ==
  TaskLabels \cup
  {"continue", "assertFirst", "intendStart", "startTask", "completeStart",
   "loadFailed", "freezeFailed", "failContinuation"}

Entries == {"interrupt", "export", "continue"}
StageLabels == InterruptLabels \cup ExportLabels \cup ContinueLabels

\* Where local.base is the Run, or was.
LoadedLabels == (StageLabels \ Entries) \cup {"commitClosure"}

-----------------------------------------------------------------------------
\* The first floor.

PausedWell(r) == r.status = "PAUSED" => r.resume_to \in HeartbeatStatuses

\* What is remembered of the Run is the Run, or the Run changed since.
IsPast(r) ==
  /\ r.state_version <= run.state_version
  /\ r.state_version = run.state_version => r = run
  /\ r.epoch <= run.epoch

EpochsAgree ==
  /\ 1 <= run.epoch /\ run.epoch <= lease.epoch /\ lease.epoch <= run.epoch + 1
  /\ lease.status = "FROZEN" => lease.epoch = run.epoch

ControlOK ==
  control.command # None =>
    /\ IsPast(control.base)
    /\ control.command = "pause" => control.base.status \in HeartbeatStatuses
    /\ control.command = "resume" =>
         /\ control.base.status = "PAUSED" /\ PausedWell(control.base)
         /\ control.epoch \in {control.base.epoch, control.base.epoch + 1}
         /\ control.epoch <= lease.epoch

LoadedOK ==
  /\ pc \in StageLabels => local.base \in Runs /\ local.base.epoch >= 1
  /\ pc \in LoadedLabels => local.base \in Runs /\ IsPast(local.base)
  /\ pc = "commitClosure" => local.base.status \notin {"NEEDS_USER", "ABORTED"}

InterruptOK ==
  pc \in InterruptLabels =>
    /\ local.replay => pc \in {"intendInterrupt", "hostInterrupt"} /\ local.base.epoch >= 2
    /\ pc \in {"intendInterrupt", "hostInterrupt", "completeInterrupt"} =>
         local.replay \/ local.position # None
    /\ pc \in {"interrupt", "freeze", "inspect"} => local.position = None
    /\ pc \in {"commitInterrupt", "checkInterrupt"} => local.position = "ROTATED"
    /\ local.position = "ROTATED" => lease.epoch >= local.base.epoch + 1
    /\ pc \in {"completeInterrupt", "rotate", "commitInterrupt", "checkInterrupt"} => stopped

StageOK ==
  /\ pc \in ExportLabels \cup ContinueLabels => stopped /\ lease.epoch >= 2
  /\ pc \in TaskLabels \cup {"completeStart"} => local.task \in TaskIds
  /\ tasks # <<>> => stopped /\ lease.epoch >= 2
  /\ \A g \in grants : g.task = Source => g.epoch = 1

Held ==
  TypeOK /\ PausedWell(run) /\ EpochsAgree /\ ControlOK /\ LoadedOK /\ InterruptOK /\ StageOK

-----------------------------------------------------------------------------
\* The second floor.

\* The export of version v and epoch e took the Run no further than it goes.
AtExport(r, v, e) ==
  /\ r.state_version >= v
  /\ r.state_version = v => r.status = "HANDOFF_EXPORTING" /\ r.epoch = e
  /\ r.state_version = v + 1 =>
       /\ r.status \in HeartbeatStatuses => r.status # "SOURCE_INTERRUPTING" /\ r.epoch = e
       /\ r.status = "PAUSED" => r.resume_to = "HANDOFF_EXPORTING"
  /\ r.state_version = v + 2 /\ r.status = "CONTINUATION_STARTING" => r.epoch = e

AtContinue(r, v, e) ==
  /\ r.state_version >= v
  /\ r.state_version = v => r.status = "CONTINUATION_STARTING" /\ r.epoch = e
  /\ r.state_version = v + 1 /\ r.status = "SLICE_RUNNING" => r.epoch = e

\* The Run at the version a stage started from, and what it becomes.
InterruptFollowed ==
  pc \in InterruptLabels \ {"interrupt"} =>
    IF local.replay
    THEN /\ local.base.state_version = local.expected + 1
         /\ local.base.status = "HANDOFF_EXPORTING"
         /\ AtExport(run, local.expected + 1, local.base.epoch)
    ELSE /\ local.base.state_version = local.expected
         /\ local.base.status = "SOURCE_INTERRUPTING"

ExportFollowed ==
  pc \in ExportLabels =>
    /\ local.base.epoch >= 2
    /\ AtExport(run, local.expected, local.base.epoch)
    /\ pc \in {"claim", "checkClaim"} => local.base.state_version = local.expected
    /\ pc # "export" /\ ~local.replay => local.base.status = "HANDOFF_EXPORTING"
    /\ pc \notin {"export", "claim", "checkClaim"} /\ ~local.replay =>
         local.base.state_version = local.expected + 1
    /\ local.replay =>
         /\ pc \in {"intendExport", "awaitHandoff"}
         /\ local.base.state_version = local.expected + 2
         /\ AtContinue(run, local.expected + 2, local.base.epoch)

ContinueFollowed ==
  pc \in ContinueLabels =>
    /\ local.base.epoch >= 2
    /\ AtContinue(run, local.expected, local.base.epoch)
    /\ pc # "continue" /\ ~local.replay =>
         /\ local.base.state_version = local.expected
         /\ local.base.status = "CONTINUATION_STARTING"
    /\ local.replay =>
         pc \notin {"continue", "commitContinuation", "checkContinuation",
                    "loadFailed", "freezeFailed", "failContinuation"}
    /\ pc \in TaskLabels => local.task \in CompletedFor(StartKey)

\* An effect is completed for one task.
CompletedOnce ==
  \A c, d \in ledger.completed : c.key = d.key => c.task = d.task

GrantsFollowed ==
  /\ \A g \in grants : g.epoch <= lease.epoch
  /\ pc \in {"idle"} \cup InterruptLabels \cup ExportLabels => \A g \in grants : g.task = Source
  /\ pc \in ContinueLabels =>
       \A g \in grants :
         \/ g.task = Source
         \/ g.task \in CompletedFor(StartKey) /\ g.epoch = local.base.epoch

Followed ==
  InterruptFollowed /\ ExportFollowed /\ ContinueFollowed /\ CompletedOnce /\ GrantsFollowed

-----------------------------------------------------------------------------
\* What steps do to the types.

Ledgers == [intended: SUBSET Keys, completed: SUBSET Completions]

LEMMA Numbers ==
  /\ MaxTasks \in Nat /\ Source \in Nat
  /\ Source \notin TaskIds /\ NoTask \notin TaskIds /\ TaskIds \subseteq Nat
  BY MaxTasksAssumption DEF Source, TaskIds, NoTask

LEMMA HappensType ==
  ASSUME TypeOK, NEW d \in Disturbances, Happens(d)
  PROVE  left' \in [Disturbances -> Nat]
  <1>1. left \in [Disturbances -> Nat] /\ "any" \in Disturbances
    BY DEF TypeOK, Disturbances
  <1>2. left[d] - 1 \in Nat /\ left["any"] - 1 \in Nat
    BY <1>1 DEF Happens
  <1> QED
    BY <1>1, <1>2 DEF Happens

LEMMA NoLocalType == NoLocal \in Locals
  BY DEF NoLocal, Locals, None

\* What is remembered of the Run is a Run.
LEMMA LocalFacts ==
  ASSUME Held
  PROVE  /\ local.expected \in Nat /\ local.known \in BOOLEAN /\ local.task \in TaskIds \cup {NoTask}
         /\ local.position \in {"FROZEN", "ROTATED", None}
         /\ pc \in StageLabels \cup LoadedLabels => local.base \in Runs
  BY DEF Held, TypeOK, Locals, LoadedOK

RunGrows ==
  /\ run' \in Runs /\ PausedWell(run')
  /\ \/ run' = run
     \/ run'.state_version = run.state_version + 1 /\ run'.epoch >= run.epoch

LeaseGrows == lease' \in Leases /\ lease'.epoch >= lease.epoch

\* The Run and its lease after a step.
DiskMoves == RunGrows /\ LeaseGrows /\ EpochsAgree'

LEMMA RunFacts ==
  ASSUME NEW r \in Runs
  PROVE  /\ r.state_version \in Nat /\ r.status \in Statuses /\ r.epoch \in Nat
         /\ r.source \in {Source} \cup TaskIds /\ r.gate \in BOOLEAN /\ r.attempted \in BOOLEAN
         /\ r.compression \in TaskIds \cup {NoTask} /\ r.continuation \in TaskIds \cup {NoTask}
         /\ r.resume_to \in RelayStatuses \cup {"SLICE_RUNNING", "PAUSED", None}
         /\ r.unfrozen \in BOOLEAN
  BY DEF Runs

LEMMA PastStays ==
  ASSUME TypeOK, RunGrows, NEW r \in Runs, IsPast(r)
  PROVE  IsPast(r)'
  BY RunFacts DEF TypeOK, RunGrows, IsPast

LEMMA NothingMoves ==
  ASSUME Held, UNCHANGED <<run, lease>>
  PROVE  DiskMoves
  BY DEF Held, TypeOK, DiskMoves, RunGrows, LeaseGrows, EpochsAgree, Leases

LEMMA LeaseFacts ==
  ASSUME TypeOK
  PROVE  /\ lease.epoch \in Nat /\ lease.status \in {"ACTIVE", "FROZEN", "RELEASED"}
         /\ lease.expired \in BOOLEAN /\ lease.rotated \in BOOLEAN
         /\ run \in Runs
  BY DEF TypeOK, Leases

LEMMA ControlStays ==
  ASSUME Held, DiskMoves, UNCHANGED control
  PROVE  control' \in Controls /\ ControlOK'
  <1>1. CASE control.command = None
    BY <1>1 DEF Held, TypeOK, ControlOK
  <1>2. CASE control.command # None
    <2>1. control.base \in Runs /\ control \in Controls /\ control.epoch \in Nat
      BY <1>2 DEF Held, TypeOK, Controls
    <2>2. IsPast(control.base)'
      BY <1>2, <2>1, PastStays DEF Held, ControlOK, DiskMoves
    <2> QED
      BY <1>2, <2>1, <2>2 DEF Held, TypeOK, Leases, ControlOK, DiskMoves, LeaseGrows, PausedWell
  <1> QED
    BY <1>1, <1>2

\* A commit of what became of the Run that was read.
LEMMA Commits ==
  ASSUME Held, pc \in LoadedLabels, UNCHANGED lease,
         NEW next \in Runs, local.base = run => PausedWell(next),
         next.epoch = local.base.epoch
           \/ (next.epoch = local.base.epoch + 1 /\ lease.epoch >= next.epoch),
         Committed(next) \/ Stale \/ PersistFailed(next)
  PROVE  /\ DiskMoves /\ left' \in [Disturbances -> Nat]
         /\ Committed(next) => run' = [next EXCEPT !.state_version = local.base.state_version + 1]
  <1> DEFINE n == [next EXCEPT !.state_version = run.state_version + 1]
  <1>1. /\ local.base \in Runs /\ IsPast(local.base)
    BY DEF Held, LoadedOK
  <1>2. /\ n \in Runs /\ n.state_version = run.state_version + 1 /\ n.epoch = next.epoch
        /\ n.status = next.status /\ n.resume_to = next.resume_to
    <2>1. run.state_version + 1 \in Nat
      BY RunFacts, LeaseFacts DEF Held
    <2> QED
      BY <2>1 DEF Runs
  <1>3. left' \in [Disturbances -> Nat]
    BY HappensType DEF Held, TypeOK, Committed, Stale, PersistFailed, Disturbances
  <1>4. CASE run' = run
    <2>1. DiskMoves
      BY <1>4, NothingMoves
    <2> QED
      BY <1>3, <2>1 DEF Committed
  <1>5. CASE run' = n /\ run.state_version = local.base.state_version
    <2>1. local.base = run
      BY <1>1, <1>5 DEF IsPast
    <2>2. RunGrows
      BY <1>2, <1>5, <2>1, RunFacts, LeaseFacts DEF Held, RunGrows, PausedWell
    <2>3. EpochsAgree'
      BY <1>2, <1>5, <2>1, RunFacts, LeaseFacts DEF Held, EpochsAgree
    <2> QED
      BY <1>3, <1>5, <2>2, <2>3, LeaseFacts DEF Held, DiskMoves, LeaseGrows, TypeOK, Committed
  <1> QED
    BY <1>4, <1>5 DEF Committed, Stale, PersistFailed

\* A task more, or one that went on.
LEMMA LaunchType ==
  ASSUME TypeOK, NEW t \in HostTasks, Len(tasks) < MaxTasks, tasks' = Append(tasks, t)
  PROVE  tasks' \in Seq(HostTasks) /\ Len(tasks') <= MaxTasks /\ Len(tasks) + 1 \in TaskIds
  BY MaxTasksAssumption DEF TypeOK, TaskIds

LEMMA EnterType ==
  ASSUME TypeOK, NEW p \in {"started", "ready", "completed"}, NEW t, Enter(p, t)
  PROVE  /\ tasks' \in Seq(HostTasks) /\ Len(tasks') <= MaxTasks
         /\ tasks' # <<>> <=> tasks # <<>>
  <1>1. tasks \in [1 .. Len(tasks) -> HostTasks] /\ Len(tasks) \in Nat
    BY DEF TypeOK
  <1>2. tasks' \in [1 .. Len(tasks) -> HostTasks]
    BY <1>1 DEF Enter, HostTasks
  <1>3. tasks' \in Seq(HostTasks) /\ Len(tasks') = Len(tasks)
    BY <1>1, <1>2
  <1>4. tasks' # <<>> <=> tasks # <<>>
    BY <1>3 DEF TypeOK
  <1> QED
    BY <1>3, <1>4 DEF TypeOK

\* Keys and completions.
LEMMA LedgerTypes ==
  ASSUME TypeOK, NEW a \in Actions, NEW v \in Nat, NEW t \in TaskIds \cup {NoTask},
         NEW u \in TaskIds \cup {NoTask}
  PROVE  /\ Key(a, v, t) \in Keys
         /\ Intended(Key(a, v, t)) \/ IntentRefused(Key(a, v, t)) =>
              ledger' \in Ledgers /\ left' \in [Disturbances -> Nat]
         /\ (Completed(Key(a, v, t), u) \/ CompletionRefused(Key(a, v, t), u)
             \/ CompletionFails \/ CompletionUnknown(Key(a, v, t), u)) =>
              ledger' \in Ledgers /\ left' \in [Disturbances -> Nat]
  <1> DEFINE k == Key(a, v, t)
  <1>1. k \in Keys /\ [key |-> k, task |-> u] \in Completions
    BY DEF Key, Keys, Completions
  <1>2. ledger \in Ledgers
    BY DEF TypeOK, Ledgers
  <1>3. [ledger EXCEPT !.intended = @ \cup {k}] \in Ledgers
    BY <1>1, <1>2 DEF Ledgers
  <1>4. [ledger EXCEPT !.completed = @ \cup {[key |-> k, task |-> u]}] \in Ledgers
    BY <1>1, <1>2 DEF Ledgers
  <1>5. Intended(k) \/ IntentRefused(k) => ledger' \in Ledgers /\ left' \in [Disturbances -> Nat]
    BY <1>2, <1>3, HappensType DEF Intended, IntentRefused, TypeOK, Disturbances
  <1>6. Completed(k, u) \/ CompletionRefused(k, u) \/ CompletionFails \/ CompletionUnknown(k, u) =>
          ledger' \in Ledgers /\ left' \in [Disturbances -> Nat]
    BY <1>2, <1>4, HappensType
    DEF Completed, CompletionRefused, CompletionFails, CompletionUnknown, Complete, TypeOK, Disturbances
  <1> QED
    BY <1>1, <1>5, <1>6

-----------------------------------------------------------------------------
\* Where a step of the relay arrives.

WorldMoves ==
  /\ tasks' \in Seq(HostTasks) /\ Len(tasks') <= MaxTasks
  /\ tasks' # <<>> => tasks # <<>> \/ pc \in ExportLabels \cup ContinueLabels
  /\ stopped' \in BOOLEAN /\ (stopped => stopped')
  /\ grants' \subseteq [task: {Source} \cup TaskIds, epoch: Nat]
  /\ \A g \in grants' : g.task = Source => g.epoch = 1
  /\ process' \in Processes

Moves ==
  /\ DiskMoves /\ WorldMoves /\ UNCHANGED control
  /\ ledger' \in Ledgers /\ left' \in [Disturbances -> Nat]

LEMMA SameWorld ==
  ASSUME Held, UNCHANGED world
  PROVE  WorldMoves
  BY DEF Held, TypeOK, StageOK, WorldMoves, world

LEMMA Labelled ==
  /\ StageLabels \cup {"idle", "done", "closeFailure", "commitClosure"} = Labels
  /\ InterruptLabels \cup ExportLabels \cup ContinueLabels = StageLabels
  /\ Entries \subseteq StageLabels /\ TaskLabels \subseteq ContinueLabels
  /\ LoadedLabels = (StageLabels \ Entries) \cup {"commitClosure"}
  /\ "completeStart" \in ContinueLabels
  /\ "commitClosure" \notin StageLabels
  /\ \A l \in InterruptLabels : l \notin ExportLabels \cup ContinueLabels
  /\ \A l \in ExportLabels : l \notin ContinueLabels
  BY DEF StageLabels, Labels, InterruptLabels, ExportLabels, ContinueLabels, TaskLabels, Entries,
         LoadedLabels

LEMMA Lands ==
  ASSUME Held, Moves, local' \in Locals, pc' \in Labels, LoadedOK', InterruptOK',
         pc' \in ExportLabels \cup ContinueLabels => stopped' /\ lease'.epoch >= 2,
         pc' \in TaskLabels \cup {"completeStart"} => local'.task \in TaskIds
  PROVE  Held'
  <1>1. control' \in Controls /\ ControlOK'
    BY ControlStays DEF Moves
  <1>2. TypeOK'
    BY <1>1 DEF Moves, DiskMoves, RunGrows, LeaseGrows, WorldMoves, TypeOK, Ledgers
  <1>3. tasks' # <<>> => stopped' /\ lease'.epoch >= 2
    BY LeaseFacts DEF Held, StageOK, Moves, WorldMoves, DiskMoves, LeaseGrows, Leases
  <1>4. StageOK'
    BY <1>3 DEF StageOK, Moves, WorldMoves
  <1> QED
    BY <1>1, <1>2, <1>4 DEF Held, Moves, DiskMoves, RunGrows, PausedWell

\* A coordinator that returns an error, and the end of the relay.
LEMMA LandsDown ==
  ASSUME Held, Moves, local' \in Locals, pc' \in {"closeFailure", "done"}
  PROVE  Held'
  <1>1. /\ pc' \in Labels /\ pc' \notin StageLabels /\ pc' \notin LoadedLabels
        /\ pc' \notin InterruptLabels /\ pc' \notin ExportLabels \cup ContinueLabels
        /\ pc' \notin TaskLabels \cup {"completeStart"} /\ pc' # "commitClosure"
    BY DEF Labels, StageLabels, LoadedLabels, InterruptLabels, ExportLabels, ContinueLabels, TaskLabels,
           Entries
  <1>2. LoadedOK' /\ InterruptOK'
    BY <1>1 DEF LoadedOK, InterruptOK
  <1> QED
    BY <1>1, <1>2, Lands

\* A step inside a stage, or to the entry of the next, keeps or refreshes what
\* is remembered of the Run.
LEMMA BaseStays ==
  ASSUME Held, Moves, pc' \in StageLabels,
         \/ pc \in LoadedLabels \cap StageLabels /\ local'.base = local.base
         \/ local'.base = run'
         \/ pc' \in Entries /\ local'.base \in Runs /\ local'.base.epoch >= 1
  PROVE  LoadedOK'
  <1>1. run' \in Runs /\ run'.epoch >= 1 /\ IsPast(run)'
    BY RunFacts DEF Moves, DiskMoves, RunGrows, IsPast, EpochsAgree
  <1>2. pc' # "commitClosure"
    BY Labelled
  <1>3. CASE pc \in LoadedLabels \cap StageLabels /\ local'.base = local.base
    <2>1. local.base \in Runs /\ local.base.epoch >= 1 /\ IsPast(local.base)
      BY <1>3 DEF Held, LoadedOK
    <2>2. IsPast(local.base)'
      BY <2>1, PastStays, <1>3 DEF Held, Moves, DiskMoves
    <2> QED
      BY <1>2, <1>3, <2>1, <2>2 DEF LoadedOK
  <1>4. CASE local'.base = run'
    BY <1>1, <1>2, <1>4 DEF LoadedOK, IsPast
  <1>5. CASE pc' \in Entries /\ local'.base \in Runs /\ local'.base.epoch >= 1
    BY <1>2, <1>5, Labelled DEF LoadedOK
  <1> QED
    BY <1>3, <1>4, <1>5

\* The stages after the interruption.
LEMMA LandsLater ==
  ASSUME Held, Moves, local' \in Locals,
         pc \in ExportLabels \cup ContinueLabels, pc' \in ExportLabels \cup ContinueLabels,
         \/ pc \in LoadedLabels /\ local'.base = local.base
         \/ local'.base = run'
         \/ pc' \in Entries /\ local'.base \in Runs /\ local'.base.epoch >= 1,
         pc' \in TaskLabels \cup {"completeStart"} => local'.task \in TaskIds
  PROVE  Held'
  <1>1. LoadedOK'
    BY BaseStays, Labelled
  <1>2. InterruptOK'
    BY Labelled DEF InterruptOK
  <1>3. stopped' /\ lease'.epoch >= 2
    BY LeaseFacts DEF Held, StageOK, Moves, WorldMoves, DiskMoves, LeaseGrows, Leases
  <1> QED
    BY <1>1, <1>2, <1>3, Lands, Labelled

-----------------------------------------------------------------------------
\* The interruption holds the first floor.

LEMMA StoreFails ==
  ASSUME Held, UNCHANGED <<disk, world, control>>,
         UNCHANGED left \/ Happens("store") \/ Happens("guard")
  PROVE  Moves
  BY NothingMoves, SameWorld, HappensType
  DEF Held, TypeOK, Moves, disk, Ledgers, Disturbances

LEMMA InterruptHolds == ASSUME Held, Interrupt PROVE Held'
  <1>1. Moves
    BY StoreFails DEF Interrupt
  <1>2. local \in Locals /\ run \in Runs /\ pc \in InterruptLabels /\ pc \notin LoadedLabels
    BY DEF Interrupt, Held, TypeOK, InterruptLabels, LoadedLabels, Entries
  <1>3. CASE GiveUp
    BY <1>1, <1>2, <1>3, LandsDown DEF GiveUp, Continue, Goto
  <1>4. /\ ~local.replay /\ local.position = None
        /\ local.base \in Runs /\ local.base.epoch >= 1
    BY <1>2 DEF Interrupt, Held, InterruptOK, LoadedOK, StageLabels
  <1>5. ASSUME Remember("intendInterrupt", [local EXCEPT !.base = run, !.replay = TRUE]),
               run.epoch = local.base.epoch + 1
        PROVE  Held'
    <2>1. /\ local' \in Locals /\ local'.base = run /\ local'.replay /\ local'.position = None
          /\ pc' = "intendInterrupt" /\ UNCHANGED run
      BY <1>2, <1>4, <1>5 DEF Remember, Goto, Locals, Interrupt, disk
    <2>2. LoadedOK'
      BY <1>1, <2>1, BaseStays DEF StageLabels, InterruptLabels
    <2>3. InterruptOK'
      BY <1>4, <1>5, <2>1, RunFacts DEF InterruptOK, None
    <2> QED
      BY <1>1, <2>1, <2>2, <2>3, Lands DEF Labels, ExportLabels, ContinueLabels, TaskLabels
  <1>6. ASSUME Remember("freeze", [local EXCEPT !.base = run])
        PROVE  Held'
    <2>1. /\ local' \in Locals /\ local'.base = run /\ ~local'.replay /\ local'.position = None
          /\ pc' = "freeze" /\ UNCHANGED run
      BY <1>2, <1>4, <1>6 DEF Remember, Goto, Locals, Interrupt, disk
    <2>2. LoadedOK'
      BY <1>1, <2>1, BaseStays DEF StageLabels, InterruptLabels
    <2>3. InterruptOK'
      BY <2>1 DEF InterruptOK, None
    <2> QED
      BY <1>1, <2>1, <2>2, <2>3, Lands DEF Labels, ExportLabels, ContinueLabels, TaskLabels
  <1> QED
    BY <1>3, <1>5, <1>6 DEF Interrupt

\* Inside the interruption the Run that was read is remembered.
LEMMA LandsInside ==
  ASSUME Held, Moves, local' \in Locals,
         pc \in InterruptLabels \ {"interrupt"}, pc' \in InterruptLabels \ {"interrupt"},
         local'.base = local.base, InterruptOK'
  PROVE  Held'
  <1>1. LoadedOK'
    BY BaseStays DEF StageLabels, LoadedLabels, Entries, InterruptLabels
  <1> QED
    BY <1>1, Lands DEF Labels, InterruptLabels, ExportLabels, ContinueLabels, TaskLabels

LEMMA InterruptionFailsHolds ==
  ASSUME Held, Moves, pc \in InterruptLabels \ {"interrupt"}, InterruptionFails
  PROVE  Held'
  <1>1. CASE local.replay
    BY <1>1, LandsDown DEF InterruptionFails, Continue, Goto, Held, TypeOK
  <1>2. CASE ~local.replay
    <2>1. pc' = "failInterrupt" /\ UNCHANGED local
      BY <1>2 DEF InterruptionFails, Continue, Goto
    <2>2. InterruptOK'
      BY <1>2, <2>1, LocalFacts, LeaseFacts, RunFacts, Labelled
      DEF Held, InterruptOK, Moves, DiskMoves, LeaseGrows, Leases
    <2> QED
      BY <2>1, <2>2, LandsInside DEF Held, TypeOK, InterruptLabels
  <1> QED
    BY <1>1, <1>2

\* What an interruption that is past its loading knows.
LEMMA InterruptFacts ==
  ASSUME Held, pc \in InterruptLabels \ {"interrupt"}
  PROVE  /\ pc \in LoadedLabels /\ local \in Locals
         /\ local.base \in Runs /\ IsPast(local.base) /\ local.base.epoch >= 1
         /\ local.base.epoch \in Nat /\ lease.epoch \in Nat /\ run.epoch \in Nat
         /\ local.base.epoch <= run.epoch /\ run.epoch <= lease.epoch
         /\ lease.epoch <= run.epoch + 1
         /\ lease.status = "FROZEN" => lease.epoch = run.epoch
  <1>1. pc \in LoadedLabels /\ pc \in StageLabels
    BY DEF LoadedLabels, StageLabels, Entries, InterruptLabels
  <1>2. local.base \in Runs /\ IsPast(local.base) /\ local.base.epoch >= 1
    BY <1>1 DEF Held, LoadedOK
  <1> QED
    BY <1>1, <1>2, RunFacts, LeaseFacts DEF Held, TypeOK, IsPast, EpochsAgree

\* freezeWrites with an epoch of the past or the present.
LEMMA FreezeMoves ==
  ASSUME Held, UNCHANGED run, FreezeWrites,
         NEW epoch \in Nat, IsValid(epoch), epoch <= run.epoch
  PROVE  DiskMoves
  <1>1. lease'.epoch = lease.epoch /\ lease' \in Leases
    BY DEF Held, TypeOK, Leases, FreezeWrites
  <1>2. lease.epoch = run.epoch
    BY RunFacts, LeaseFacts DEF Held, EpochsAgree, IsValid
  <1> QED
    BY <1>1, <1>2, LeaseFacts, RunFacts DEF Held, EpochsAgree, DiskMoves, RunGrows, LeaseGrows

LEMMA FreezeHolds == ASSUME Held, Freeze PROVE Held'
  <1>1. pc \in InterruptLabels \ {"interrupt"} /\ ~local.replay
    BY DEF Freeze, InterruptLabels, Held, InterruptOK
  <1>2. /\ WorldMoves /\ UNCHANGED control /\ ledger' \in Ledgers
        /\ left' \in [Disturbances -> Nat]
    BY SameWorld, HappensType
    DEF Freeze, Held, TypeOK, Ledgers, Disturbances, GuardFails
  <1>3. ASSUME IsValid(local.base.epoch), FreezeWrites,
               Remember("intendInterrupt", [local EXCEPT !.position = "FROZEN"])
        PROVE  Held'
    <2>1. Moves
      BY <1>1, <1>2, <1>3, FreezeMoves, InterruptFacts DEF Freeze, Moves
    <2>2. /\ pc' = "intendInterrupt" /\ local' \in Locals /\ local'.position = "FROZEN"
          /\ local'.base = local.base /\ ~local'.replay
      BY <1>1, <1>3, InterruptFacts DEF Remember, Goto, Locals
    <2>3. InterruptOK'
      BY <2>2 DEF InterruptOK, None
    <2> QED
      BY <1>1, <2>1, <2>2, <2>3, LandsInside DEF InterruptLabels
  <1>4. ASSUME Continue("inspect"), UNCHANGED lease
        PROVE  Held'
    <2>1. Moves
      BY <1>2, <1>4, NothingMoves DEF Freeze, Moves
    <2>2. InterruptOK'
      BY <1>1, <1>4 DEF Freeze, Held, InterruptOK, Continue, Goto, None, InterruptLabels
    <2> QED
      BY <1>1, <1>4, <2>1, <2>2, LandsInside DEF Continue, Goto, InterruptLabels, Held, TypeOK
  <1> QED
    BY <1>3, <1>4 DEF Freeze, GuardFails

LEMMA InspectHolds == ASSUME Held, Inspect PROVE Held'
  <1> DEFINE position == PersistedLeasePosition(local.base.epoch)
  <1>1. pc \in InterruptLabels \ {"interrupt"} /\ ~local.replay
    BY DEF Inspect, InterruptLabels, Held, InterruptOK
  <1>2. Moves
    BY StoreFails DEF Inspect
  <1>3. CASE position = None
    BY <1>1, <1>2, <1>3, InterruptionFailsHolds DEF Inspect
  <1>4. CASE position # None
    <2>1. position \in {"FROZEN", "ROTATED"} /\ (position = "ROTATED" => lease.epoch = local.base.epoch + 1)
      BY <1>4 DEF PersistedLeasePosition
    <2>2. /\ pc' = "intendInterrupt" /\ local' \in Locals /\ local'.position = position
          /\ local'.base = local.base /\ ~local'.replay /\ UNCHANGED lease
      BY <1>1, <1>4, <2>1, InterruptFacts DEF Inspect, Remember, Goto, Locals, disk
    <2>3. InterruptOK'
      BY <1>1, <1>4, <2>1, <2>2, InterruptFacts DEF InterruptOK
    <2> QED
      BY <1>1, <1>2, <2>2, <2>3, LandsInside DEF InterruptLabels
  <1> QED
    BY <1>3, <1>4

LEMMA InterruptLedger ==
  ASSUME Held
  PROVE  /\ Intended(InterruptKey) \/ IntentRefused(InterruptKey) =>
              ledger' \in Ledgers /\ left' \in [Disturbances -> Nat]
         /\ (Completed(InterruptKey, NoTask) \/ CompletionRefused(InterruptKey, NoTask)
             \/ CompletionFails \/ CompletionUnknown(InterruptKey, NoTask)) =>
              ledger' \in Ledgers /\ left' \in [Disturbances -> Nat]
  <1>1. "interrupt_source_thread" \in Actions /\ local.expected \in Nat
    BY LocalFacts DEF Actions
  <1> QED
    BY <1>1, LedgerTypes DEF Held, InterruptKey

LEMMA IntendInterruptHolds == ASSUME Held, IntendInterrupt PROVE Held'
  <1>1. pc \in InterruptLabels \ {"interrupt"} /\ pc = "intendInterrupt"
    BY DEF IntendInterrupt, InterruptLabels
  <1>2. UNCHANGED <<run, lease>> /\ UNCHANGED world
    BY DEF IntendInterrupt
  <1>3. Moves
    BY <1>2, NothingMoves, SameWorld, InterruptLedger DEF IntendInterrupt, Moves
  <1>4. CASE GiveUp
    BY <1>3, <1>4, LandsDown DEF GiveUp, Continue, Goto, Held, TypeOK
  <1>5. ASSUME NEW known \in BOOLEAN, Remember("hostInterrupt", [local EXCEPT !.known = known])
        PROVE  Held'
    <2>1. /\ pc' = "hostInterrupt" /\ local' \in Locals /\ local'.position = local.position
          /\ local'.base = local.base /\ local'.replay = local.replay
      BY <1>1, <1>5, InterruptFacts DEF Remember, Goto, Locals
    <2>2. InterruptOK'
      BY <1>1, <1>2, <2>1 DEF Held, InterruptOK
    <2> QED
      BY <1>1, <1>3, <2>1, <2>2, LandsInside DEF InterruptLabels
  <1> QED
    BY <1>1, <1>3, <1>4, <1>5, InterruptionFailsHolds DEF IntendInterrupt, IsCompleted

LEMMA HostInterruptHolds == ASSUME Held, HostInterrupt PROVE Held'
  <1>1. pc \in InterruptLabels \ {"interrupt"} /\ pc = "hostInterrupt"
    BY DEF HostInterrupt, InterruptLabels
  <1>2. Moves /\ UNCHANGED <<run, lease>>
    <2>1. WorldMoves
      BY DEF HostInterrupt, Held, TypeOK, StageOK, WorldMoves
    <2>2. left' \in [Disturbances -> Nat] /\ ledger' \in Ledgers
      BY HappensType DEF HostInterrupt, HostFails, Held, TypeOK, disk, Ledgers, Disturbances
    <2> QED
      BY <2>1, <2>2, NothingMoves DEF HostInterrupt, disk, Moves
  <1>3. ASSUME stopped' = TRUE, local.replay,
               Remember("export", [NoLocal EXCEPT !.expected = local.expected + 1, !.base = local.base])
        PROVE  Held'
    <2>1. local.base.epoch >= 2 /\ local.expected + 1 \in Nat
      BY <1>1, <1>3, LocalFacts DEF Held, InterruptOK
    <2>2. pc' = "export" /\ local' \in Locals /\ local'.base = local.base
      BY <1>1, <1>3, <2>1, NoLocalType, InterruptFacts DEF Remember, Goto, Locals, NoLocal
    <2>3. LoadedOK'
      BY <1>1, <1>2, <2>2, BaseStays, InterruptFacts DEF StageLabels, ExportLabels, Entries
    <2>4. lease'.epoch >= 2
      BY <1>1, <1>2, <2>1, InterruptFacts
    <2>5. InterruptOK'
      BY <2>2 DEF InterruptOK, InterruptLabels
    <2> QED
      BY <1>2, <1>3, <2>2, <2>3, <2>4, <2>5, Lands DEF Labels, TaskLabels
  <1>4. ASSUME stopped' = TRUE, ~local.replay, Continue("completeInterrupt")
        PROVE  Held'
    <2>1. pc' = "completeInterrupt" /\ local' = local
      BY <1>4 DEF Continue, Goto
    <2>2. InterruptOK'
      BY <1>1, <1>2, <1>4, <2>1 DEF Held, InterruptOK
    <2> QED
      BY <1>1, <1>2, <2>1, <2>2, LandsInside DEF InterruptLabels, Held, TypeOK
  <1> QED
    BY <1>1, <1>2, <1>3, <1>4, InterruptionFailsHolds DEF HostInterrupt

LEMMA CompleteInterruptHolds == ASSUME Held, CompleteInterrupt PROVE Held'
  <1> DEFINE next == IF local.position = "FROZEN" THEN "rotate" ELSE "commitInterrupt"
  <1>1. pc \in InterruptLabels \ {"interrupt"} /\ pc = "completeInterrupt"
    BY DEF CompleteInterrupt, InterruptLabels
  <1>2. UNCHANGED <<run, lease>> /\ UNCHANGED world
    BY DEF CompleteInterrupt
  <1>3. Moves
    <2>1. \/ Completed(InterruptKey, NoTask) \/ CompletionFails
          \/ CompletionUnknown(InterruptKey, NoTask)
      BY DEF CompleteInterrupt
    <2>2. ledger' \in Ledgers /\ left' \in [Disturbances -> Nat]
      BY <2>1, InterruptLedger
    <2>3. UNCHANGED control
      BY DEF CompleteInterrupt
    <2> QED
      BY <1>2, <2>2, <2>3, NothingMoves, SameWorld DEF Moves
  <1>4. ASSUME Continue(next)
        PROVE  Held'
    <2>1. pc' \in {"rotate", "commitInterrupt"} /\ local' = local
          /\ (pc' = "rotate" <=> local.position = "FROZEN")
      BY <1>4 DEF Continue, Goto
    <2>2. /\ ~local.replay /\ local.position \in {"FROZEN", "ROTATED"} /\ stopped' = stopped /\ stopped
      BY <1>1, <1>2, LocalFacts DEF Held, InterruptOK, world
    <2>3. InterruptOK'
      BY <1>1, <1>2, <2>1, <2>2 DEF Held, InterruptOK
    <2> QED
      BY <1>1, <1>3, <2>1, <2>3, LandsInside DEF InterruptLabels, Held, TypeOK
  <1> QED
    BY <1>1, <1>3, <1>4, InterruptionFailsHolds DEF CompleteInterrupt

LEMMA RotateMoves ==
  ASSUME Held, UNCHANGED run, lease.status = "FROZEN", RotateEpoch
  PROVE  DiskMoves /\ lease'.epoch = run.epoch + 1
  BY LeaseFacts, RunFacts
  DEF Held, EpochsAgree, DiskMoves, RunGrows, LeaseGrows, Leases, RotateEpoch

LEMMA RotateHolds == ASSUME Held, Rotate PROVE Held'
  <1>1. /\ pc \in InterruptLabels \ {"interrupt"} /\ pc = "rotate"
        /\ ~local.replay /\ stopped /\ UNCHANGED <<run, stopped>>
    BY DEF Rotate, InterruptLabels, Held, InterruptOK, world
  <1>2. /\ WorldMoves /\ UNCHANGED control /\ ledger' \in Ledgers
        /\ left' \in [Disturbances -> Nat]
    BY SameWorld, HappensType
    DEF Rotate, Held, TypeOK, Ledgers, Disturbances, GuardFails
  <1>3. ASSUME Moves, lease'.epoch >= local.base.epoch + 1,
               Remember("commitInterrupt", [local EXCEPT !.position = "ROTATED"])
        PROVE  Held'
    <2>1. /\ pc' = "commitInterrupt" /\ local' \in Locals /\ local'.position = "ROTATED"
          /\ local'.base = local.base /\ ~local'.replay
      BY <1>1, <1>3, InterruptFacts DEF Remember, Goto, Locals
    <2>2. InterruptOK'
      BY <1>1, <1>3, <2>1 DEF InterruptOK, None
    <2> QED
      BY <1>1, <1>3, <2>1, <2>2, LandsInside DEF InterruptLabels
  <1>4. ASSUME lease.status = "FROZEN", RotateEpoch,
               Remember("commitInterrupt", [local EXCEPT !.position = "ROTATED"])
        PROVE  Held'
    <2>1. Moves /\ lease'.epoch >= local.base.epoch + 1
      BY <1>1, <1>2, <1>4, RotateMoves, InterruptFacts DEF Moves
    <2> QED
      BY <1>3, <1>4, <2>1
  <1>5. ASSUME UNCHANGED lease, PersistedLeasePosition(local.base.epoch) = "ROTATED",
               Remember("commitInterrupt", [local EXCEPT !.position = "ROTATED"])
        PROVE  Held'
    <2>1. Moves
      BY <1>1, <1>2, <1>5, NothingMoves DEF Moves
    <2>2. lease.epoch = local.base.epoch + 1
      BY <1>5 DEF PersistedLeasePosition, None
    <2> QED
      BY <1>1, <1>3, <1>5, <2>1, <2>2, InterruptFacts
  <1>6. ASSUME UNCHANGED lease, InterruptionFails
        PROVE  Held'
    BY <1>1, <1>2, <1>6, NothingMoves, InterruptionFailsHolds DEF Moves
  <1> QED
    BY <1>4, <1>5, <1>6 DEF Rotate, GuardFails

LEMMA InterruptedType ==
  ASSUME Held, pc \in InterruptLabels \ {"interrupt"}
  PROVE  /\ InterruptedRun \in Runs /\ PausedWell(InterruptedRun)
         /\ InterruptedRun.epoch = local.base.epoch + 1
         /\ InterruptedRun.status = "HANDOFF_EXPORTING"
         /\ FailedInterruption \in Runs /\ PausedWell(FailedInterruption)
         /\ FailedInterruption.epoch = IF local.position = "ROTATED" THEN local.base.epoch + 1 ELSE local.base.epoch
         /\ FailedInterruption.status = "NEEDS_USER"
  <1>1. local.base \in Runs /\ local.base.epoch + 1 \in Nat
    BY InterruptFacts
  <1> QED
    BY <1>1 DEF InterruptedRun, FailedInterruption, Runs, Statuses, RelayStatuses, PausedWell

LEMMA InterruptedHolds ==
  ASSUME Held, Moves, pc \in {"commitInterrupt", "checkInterrupt"}, Interrupted
  PROVE  Held'
  <1>1. pc \in InterruptLabels \ {"interrupt"} /\ stopped /\ lease.epoch >= 2 /\ local.expected + 1 \in Nat
    <2>1. pc \in InterruptLabels \ {"interrupt"}
      BY DEF InterruptLabels
    <2>2. stopped /\ lease.epoch >= local.base.epoch + 1
      BY <2>1 DEF Held, InterruptOK
    <2> QED
      BY <2>1, <2>2, InterruptFacts, LocalFacts
  <1>2. /\ pc' = "export" /\ local' \in Locals /\ local'.base \in Runs /\ local'.base.epoch >= 1
    <2>1. InterruptedRun \in Runs /\ InterruptedRun.epoch >= 1
      BY <1>1, InterruptedType, InterruptFacts
    <2> QED
      BY <1>1, <2>1, NoLocalType DEF Interrupted, Remember, Goto, Locals, NoLocal
  <1>3. LoadedOK'
    BY <1>2, BaseStays DEF StageLabels, ExportLabels, Entries
  <1>4. lease'.epoch >= 2 /\ stopped'
    BY <1>1, LeaseFacts DEF Held, Moves, DiskMoves, LeaseGrows, WorldMoves, Leases
  <1>5. InterruptOK'
    BY <1>2 DEF InterruptOK, InterruptLabels
  <1> QED
    BY <1>2, <1>3, <1>4, <1>5, Lands DEF Labels, TaskLabels

LEMMA CommitInterruptHolds == ASSUME Held, CommitInterrupt PROVE Held'
  <1>1. /\ pc \in InterruptLabels \ {"interrupt"} /\ pc = "commitInterrupt"
        /\ ~local.replay /\ local.position = "ROTATED" /\ lease.epoch >= local.base.epoch + 1 /\ stopped
    BY DEF CommitInterrupt, InterruptLabels, Held, InterruptOK
  <1>2. DiskMoves /\ left' \in [Disturbances -> Nat]
    BY <1>1, Commits, InterruptedType, InterruptFacts DEF CommitInterrupt
  <1>3. Moves
    BY <1>2, SameWorld DEF CommitInterrupt, Moves, Held, TypeOK, Ledgers
  <1>4. ASSUME Continue("checkInterrupt")
        PROVE  Held'
    <2>1. InterruptOK'
      BY <1>1, <1>4 DEF CommitInterrupt, InterruptOK, Continue, Goto, None, world
    <2> QED
      BY <1>1, <1>3, <1>4, <2>1, LandsInside DEF Continue, Goto, InterruptLabels, Held, TypeOK
  <1> QED
    BY <1>1, <1>3, <1>4, InterruptedHolds DEF CommitInterrupt

LEMMA CheckInterruptHolds == ASSUME Held, CheckInterrupt PROVE Held'
  <1>1. Moves
    BY StoreFails DEF CheckInterrupt
  <1>2. CASE GiveUp
    BY <1>1, <1>2, LandsDown DEF GiveUp, Continue, Goto, Held, TypeOK
  <1> QED
    BY <1>1, <1>2, InterruptedHolds DEF CheckInterrupt

LEMMA FailInterruptHolds == ASSUME Held, FailInterrupt PROVE Held'
  <1>1. /\ pc \in InterruptLabels \ {"interrupt"}
        /\ local.position = "ROTATED" => lease.epoch >= local.base.epoch + 1
    BY DEF FailInterrupt, InterruptLabels, Held, InterruptOK
  <1>2. DiskMoves /\ left' \in [Disturbances -> Nat]
    BY <1>1, Commits, InterruptedType, InterruptFacts DEF FailInterrupt
  <1>3. Moves
    BY <1>2, SameWorld DEF FailInterrupt, Moves, Held, TypeOK, Ledgers
  <1> QED
    BY <1>3, LandsDown DEF FailInterrupt, GiveUp, Continue, Goto, Held, TypeOK

-----------------------------------------------------------------------------
\* The handoff holds the first floor.

\* What the later stages know once they loaded the Run.
LEMMA LaterFacts ==
  ASSUME Held, pc \in (ExportLabels \cup ContinueLabels) \ Entries
  PROVE  /\ pc \in LoadedLabels /\ local \in Locals
         /\ local.base \in Runs /\ IsPast(local.base) /\ local.base.epoch >= 1
         /\ local.base.epoch \in Nat /\ local.expected \in Nat
         /\ local.base.epoch <= run.epoch
         /\ local.task \in TaskIds \cup {NoTask}
  <1>1. pc \in LoadedLabels /\ pc \in StageLabels
    BY DEF LoadedLabels, StageLabels
  <1> QED
    BY <1>1, RunFacts, LocalFacts DEF Held, TypeOK, LoadedOK, IsPast

\* Nothing but the disk, or nothing but what is remembered, changes.
LEMMA GivesUp ==
  ASSUME Held, Moves, GiveUp
  PROVE  Held'
  BY LandsDown DEF GiveUp, Continue, Goto, Held, TypeOK

\* A step inside the later stages that keeps the Run that was read.
LEMMA KeepsBase ==
  ASSUME Held, Moves, local' \in Locals, local'.base = local.base,
         pc \in (ExportLabels \cup ContinueLabels) \ Entries,
         pc' \in ExportLabels \cup ContinueLabels,
         pc' \in TaskLabels \cup {"completeStart"} => local'.task \in TaskIds
  PROVE  Held'
  BY LaterFacts, LandsLater

\* A step inside the later stages that remembers the Run as it is.
LEMMA TakesBase ==
  ASSUME Held, Moves, local' \in Locals, local'.base = run',
         pc \in ExportLabels \cup ContinueLabels, pc' \in ExportLabels \cup ContinueLabels,
         pc' \notin TaskLabels \cup {"completeStart"}
  PROVE  Held'
  BY LandsLater

LEMMA ExportGoes ==
  ASSUME Held, Moves, pc \in ExportLabels \ {"export"}, NEW l \in ExportLabels, Continue(l)
  PROVE  Held'
  BY KeepsBase DEF Continue, Goto, Held, TypeOK, ExportLabels, Entries, TaskLabels

LEMMA ExportHandoffHolds == ASSUME Held, ExportHandoff PROVE Held'
  <1>1. Moves
    BY StoreFails DEF ExportHandoff
  <1>2. /\ pc \in ExportLabels /\ local \in Locals /\ run \in Runs /\ UNCHANGED run
    BY DEF ExportHandoff, ExportLabels, Held, TypeOK, disk
  <1>3. ASSUME NEW replay \in BOOLEAN, NEW l \in {"intendExport", "claim"},
               Remember(l, [local EXCEPT !.base = run, !.replay = replay])
        PROVE  Held'
    <2>1. local' \in Locals /\ local'.base = run' /\ pc' = l
      BY <1>2, <1>3 DEF Remember, Goto, Locals
    <2> QED
      BY <1>1, <1>2, <2>1, TakesBase DEF ExportLabels, TaskLabels
  <1>4. ASSUME NEW l \in {"intendExport", "claim"}, Remember(l, [local EXCEPT !.base = run])
        PROVE  Held'
    <2>1. local' \in Locals /\ local'.base = run' /\ pc' = l
      BY <1>2, <1>4 DEF Remember, Goto, Locals
    <2> QED
      BY <1>1, <1>2, <2>1, TakesBase DEF ExportLabels, TaskLabels
  <1> QED
    BY <1>1, <1>3, <1>4, GivesUp DEF ExportHandoff

LEMMA ClaimAttemptHolds == ASSUME Held, ClaimAttempt PROVE Held'
  <1> DEFINE claimed == [local.base EXCEPT !.attempted = TRUE]
  <1>1. pc \in ExportLabels \ {"export"} /\ pc \in (ExportLabels \cup ContinueLabels) \ Entries
    BY DEF ClaimAttempt, ExportLabels, Entries
  <1>2. /\ claimed \in Runs /\ claimed.epoch = local.base.epoch
        /\ claimed.state_version = local.base.state_version
        /\ Committed(claimed) \/ Stale \/ PersistFailed(claimed)
    BY <1>1, LaterFacts DEF Runs, ClaimAttempt
  <1>3. local.base = run => PausedWell(claimed)
    BY <1>1, LaterFacts DEF Held, PausedWell, Runs
  <1>4. DiskMoves /\ left' \in [Disturbances -> Nat]
    BY <1>1, <1>2, <1>3, Commits, LaterFacts DEF ClaimAttempt
  <1>5. Moves
    BY <1>4, SameWorld DEF ClaimAttempt, Moves, Held, TypeOK, Ledgers
  <1>6. ASSUME Remember("intendExport", [local EXCEPT !.base = run'])
        PROVE  Held'
    <2>1. local' \in Locals /\ local'.base = run' /\ pc' = "intendExport"
      BY <1>1, <1>4, <1>6, LaterFacts DEF Remember, Goto, Locals, DiskMoves, RunGrows
    <2> QED
      BY <1>1, <1>5, <2>1, TakesBase DEF ExportLabels, TaskLabels
  <1> QED
    BY <1>1, <1>5, <1>6, ExportGoes, GivesUp DEF ClaimAttempt, ExportLabels

LEMMA CheckClaimHolds == ASSUME Held, CheckClaim PROVE Held'
  <1>1. Moves
    BY StoreFails DEF CheckClaim
  <1>2. ASSUME Remember("intendExport", [local EXCEPT !.base = run])
        PROVE  Held'
    <2>1. pc \in ExportLabels /\ local \in Locals /\ run \in Runs /\ UNCHANGED run
      BY DEF CheckClaim, ExportLabels, Held, TypeOK, disk
    <2>2. local' \in Locals /\ local'.base = run' /\ pc' = "intendExport"
      BY <1>2, <2>1 DEF Remember, Goto, Locals
    <2> QED
      BY <1>1, <2>1, <2>2, TakesBase DEF ExportLabels, TaskLabels
  <1> QED
    BY <1>1, <1>2, GivesUp DEF CheckClaim

LEMMA ExportLedger ==
  ASSUME Held, NEW t \in TaskIds \cup {NoTask}
  PROVE  /\ Intended(ExportKey) \/ IntentRefused(ExportKey) =>
              ledger' \in Ledgers /\ left' \in [Disturbances -> Nat]
         /\ (Completed(ExportKey, t) \/ CompletionRefused(ExportKey, t)
             \/ CompletionFails \/ CompletionUnknown(ExportKey, t)) =>
              ledger' \in Ledgers /\ left' \in [Disturbances -> Nat]
  <1>1. "export_handoff" \in Actions /\ local.expected + 1 \in Nat /\ NoTask \in TaskIds \cup {NoTask}
    BY LocalFacts DEF Actions
  <1> QED
    BY <1>1, LedgerTypes DEF Held, ExportKey

LEMMA IntendExportHolds == ASSUME Held, IntendExport PROVE Held'
  <1>1. pc \in (ExportLabels \cup ContinueLabels) \ Entries
    BY DEF IntendExport, ExportLabels, Entries
  <1>2. Intended(ExportKey) \/ IntentRefused(ExportKey)
    BY DEF IntendExport
  <1>3. UNCHANGED <<run, lease, world, control>>
    BY DEF IntendExport
  <1>4. Moves
    BY <1>2, <1>3, NothingMoves, SameWorld, ExportLedger DEF Moves
  <1>5. ASSUME NEW known \in BOOLEAN, NEW t \in TaskIds \cup {NoTask}, NEW l \in {"launch", "awaitHandoff"},
               Remember(l, [[local EXCEPT !.known = known] EXCEPT !.task = t])
        PROVE  Held'
    <2>1. pc' = l /\ local' \in Locals /\ local'.base = local.base
      BY <1>1, <1>5, LaterFacts DEF Remember, Goto, Locals
    <2> QED
      BY <1>1, <1>4, <2>1, KeepsBase DEF ExportLabels, TaskLabels
  <1>6. ASSUME NEW known \in BOOLEAN, Remember("launch", [local EXCEPT !.known = known])
        PROVE  Held'
    <2>1. pc' = "launch" /\ local' \in Locals /\ local'.base = local.base
      BY <1>1, <1>6, LaterFacts DEF Remember, Goto, Locals
    <2> QED
      BY <1>1, <1>4, <2>1, KeepsBase DEF ExportLabels, TaskLabels
  <1>7. IsCompleted(ExportKey) \in BOOLEAN
    BY DEF IsCompleted
  <1>8. /\ [local EXCEPT !.known = IsCompleted(ExportKey)].base = local.base
        /\ local.base.compression \in TaskIds \cup {NoTask}
    BY <1>1, LaterFacts, RunFacts DEF Locals
  <1> QED
    BY <1>4, <1>5, <1>6, <1>7, <1>8, GivesUp DEF IntendExport

LEMMA LaunchCompressionHolds == ASSUME Held, LaunchCompression PROVE Held'
  <1> DEFINE task == [kind |-> "compression", version |-> local.base.state_version,
                      known |-> TRUE, phase |-> "started"]
  <1>1. pc \in (ExportLabels \cup ContinueLabels) \ Entries /\ pc \in ExportLabels \ {"export"}
    BY DEF LaunchCompression, ExportLabels, Entries
  <1>2. task \in HostTasks
    BY <1>1, LaterFacts, RunFacts DEF HostTasks
  <1>3. Launch("compression", local.base.state_version) =>
          tasks' \in Seq(HostTasks) /\ Len(tasks') <= MaxTasks /\ Len(tasks) + 1 \in TaskIds
    BY <1>2, LaunchType DEF Held, Launch
  <1>4. UNCHANGED <<run, lease, ledger, stopped, grants, process, control>>
    BY DEF LaunchCompression, disk
  <1>5. \/ UNCHANGED tasks
        \/ Launch("compression", local.base.state_version)
    BY DEF LaunchCompression
  <1>6. left' \in [Disturbances -> Nat]
    BY HappensType DEF LaunchCompression, HostFails, Held, TypeOK, Disturbances
  <1>7. WorldMoves
    BY <1>1, <1>3, <1>4, <1>5 DEF WorldMoves, Held, TypeOK, StageOK
  <1>8. Moves
    BY <1>4, <1>6, <1>7, NothingMoves DEF Moves, Held, TypeOK, Ledgers
  <1>9. ASSUME NEW t \in TaskIds, Remember("awaitHandoff", [local EXCEPT !.task = t])
        PROVE  Held'
    <2>1. pc' = "awaitHandoff" /\ local' \in Locals /\ local'.base = local.base
      BY <1>1, <1>9, LaterFacts DEF Remember, Goto, Locals
    <2> QED
      BY <1>1, <1>8, <2>1, KeepsBase DEF ExportLabels, TaskLabels
  <1>10. \A t \in Launched : t \in TaskIds
    BY MaxTasksAssumption DEF Launched, Held, TypeOK, TaskIds
  <1> QED
    BY <1>1, <1>3, <1>8, <1>9, <1>10, ExportGoes DEF LaunchCompression, ExportLabels

LEMMA AwaitHandoffHolds == ASSUME Held, AwaitHandoff PROVE Held'
  <1>1. pc \in (ExportLabels \cup ContinueLabels) \ Entries /\ pc \in ExportLabels \ {"export"}
    BY DEF AwaitHandoff, ExportLabels, Entries
  <1>2. UNCHANGED <<run, lease, ledger, stopped, grants, process, control>>
    BY DEF AwaitHandoff, disk
  <1>3. \/ UNCHANGED tasks
        \/ Enter("completed", local.task)
    BY DEF AwaitHandoff
  <1>4. left' \in [Disturbances -> Nat]
    BY HappensType DEF AwaitHandoff, HostFails, Held, TypeOK, Disturbances
  <1>5. WorldMoves
    BY <1>1, <1>2, <1>3, EnterType DEF WorldMoves, Held, TypeOK, StageOK
  <1>6. Moves
    BY <1>2, <1>4, <1>5, NothingMoves DEF Moves, Held, TypeOK, Ledgers
  <1>7. ASSUME Remember("continue", [NoLocal EXCEPT !.expected = local.expected + 2, !.base = local.base])
        PROVE  Held'
    <2>1. local.expected + 2 \in Nat
      BY <1>1, LaterFacts
    <2>2. pc' = "continue" /\ local' \in Locals /\ local'.base = local.base
      BY <1>1, <1>7, <2>1, NoLocalType, LaterFacts DEF Remember, Goto, Locals, NoLocal
    <2> QED
      BY <1>1, <1>6, <2>2, KeepsBase DEF ContinueLabels, TaskLabels
  <1> QED
    BY <1>1, <1>6, <1>7, ExportGoes, GivesUp DEF AwaitHandoff, ExportLabels

LEMMA CompleteExportHolds == ASSUME Held, CompleteExport PROVE Held'
  <1>1. pc \in ExportLabels \ {"export"}
    BY DEF CompleteExport, ExportLabels
  <1>2. Completed(ExportKey, local.task) \/ CompletionRefused(ExportKey, local.task)
          \/ CompletionFails \/ CompletionUnknown(ExportKey, local.task)
    BY DEF CompleteExport
  <1>3. UNCHANGED <<run, lease, world, control>>
    BY DEF CompleteExport
  <1>4. Moves
    BY <1>2, <1>3, NothingMoves, SameWorld, ExportLedger, LocalFacts DEF Moves
  <1> QED
    BY <1>1, <1>4, ExportGoes DEF CompleteExport, ExportLabels

LEMMA ExportedType ==
  ASSUME Held, pc \in (ExportLabels \cup ContinueLabels) \ Entries
  PROVE  /\ ExportedRun \in Runs /\ PausedWell(ExportedRun)
         /\ ExportedRun.epoch = local.base.epoch /\ ExportedRun.status = "CONTINUATION_STARTING"
         /\ FailedExport \in Runs /\ PausedWell(FailedExport)
         /\ FailedExport.epoch = local.base.epoch /\ FailedExport.status = "NEEDS_USER"
  <1>1. local.base \in Runs /\ local.task \in TaskIds \cup {NoTask}
    BY LaterFacts
  <1> QED
    BY <1>1 DEF ExportedRun, FailedExport, Runs, Statuses, RelayStatuses, PausedWell

LEMMA ExportedHolds ==
  ASSUME Held, Moves, pc \in {"commitExport", "checkExport"}, Exported
  PROVE  Held'
  <1>1. pc \in (ExportLabels \cup ContinueLabels) \ Entries
    BY DEF ExportLabels, Entries
  <1>2. /\ ExportedRun \in Runs /\ ExportedRun.epoch >= 1 /\ local.expected + 2 \in Nat
    BY <1>1, ExportedType, LaterFacts
  <1>3. pc' = "continue" /\ local' \in Locals /\ local'.base = ExportedRun
    BY <1>2, NoLocalType DEF Exported, Remember, Goto, Locals, NoLocal
  <1> QED
    BY <1>1, <1>2, <1>3, LandsLater DEF ContinueLabels, TaskLabels, Entries

LEMMA CommitExportHolds == ASSUME Held, CommitExport PROVE Held'
  <1>1. /\ pc \in (ExportLabels \cup ContinueLabels) \ Entries /\ pc \in ExportLabels \ {"export"}
        /\ pc = "commitExport"
    BY DEF CommitExport, ExportLabels, Entries
  <1>2. DiskMoves /\ left' \in [Disturbances -> Nat]
    BY <1>1, Commits, ExportedType, LaterFacts DEF CommitExport
  <1>3. Moves
    BY <1>2, SameWorld DEF CommitExport, Moves, Held, TypeOK, Ledgers
  <1> QED
    BY <1>1, <1>3, ExportedHolds, ExportGoes DEF CommitExport, ExportLabels

LEMMA CheckExportHolds == ASSUME Held, CheckExport PROVE Held'
  <1>1. Moves
    BY StoreFails DEF CheckExport
  <1> QED
    BY <1>1, ExportedHolds, GivesUp DEF CheckExport

LEMMA FailExportHolds == ASSUME Held, FailExport PROVE Held'
  <1>1. pc \in (ExportLabels \cup ContinueLabels) \ Entries
    BY DEF FailExport, ExportLabels, Entries
  <1>2. DiskMoves /\ left' \in [Disturbances -> Nat]
    BY <1>1, Commits, ExportedType, LaterFacts DEF FailExport
  <1>3. Moves
    BY <1>2, SameWorld DEF FailExport, Moves, Held, TypeOK, Ledgers
  <1> QED
    BY <1>3, GivesUp DEF FailExport

-----------------------------------------------------------------------------
\* The continuation holds the first floor.

ActiveLabels == ContinueLabels \ {"continue"}

LEMMA ActiveIsLater == ActiveLabels \subseteq (ExportLabels \cup ContinueLabels) \ Entries
  BY DEF ActiveLabels, ContinueLabels, ExportLabels, TaskLabels, Entries

LEMMA ContinueGoes ==
  ASSUME Held, Moves, pc \in ActiveLabels, NEW l \in ContinueLabels, Continue(l),
         l \in TaskLabels \cup {"completeStart"} => pc \in TaskLabels \cup {"completeStart"}
  PROVE  Held'
  <1>1. pc' = l /\ local' = local
    BY DEF Continue, Goto
  <1>2. pc' \in TaskLabels \cup {"completeStart"} => local'.task \in TaskIds
    BY <1>1 DEF Held, StageOK
  <1> QED
    BY <1>1, <1>2, ActiveIsLater, KeepsBase DEF Held, TypeOK

LEMMA ContinuationFailsHolds ==
  ASSUME Held, Moves, pc \in ActiveLabels, ContinuationFails
  PROVE  Held'
  <1>1. CASE local.replay
    BY <1>1, GivesUp DEF ContinuationFails, GiveUp
  <1>2. CASE ~local.replay
    <2>1. "loadFailed" \in ContinueLabels \ (TaskLabels \cup {"completeStart"})
      BY DEF ContinueLabels, TaskLabels
    <2> QED
      BY <1>2, <2>1, ContinueGoes DEF ContinuationFails
  <1> QED
    BY <1>1, <1>2

LEMMA ContinueFromHandoffHolds == ASSUME Held, ContinueFromHandoff PROVE Held'
  <1>1. Moves
    BY StoreFails DEF ContinueFromHandoff
  <1>2. /\ pc \in ContinueLabels /\ local \in Locals /\ run \in Runs /\ UNCHANGED run
    BY DEF ContinueFromHandoff, ContinueLabels, Held, TypeOK, disk
  <1>3. ASSUME Remember("assertFirst", [local EXCEPT !.base = run, !.replay = TRUE])
        PROVE  Held'
    <2>1. local' \in Locals /\ local'.base = run' /\ pc' = "assertFirst"
      BY <1>2, <1>3 DEF Remember, Goto, Locals
    <2> QED
      BY <1>1, <1>2, <2>1, TakesBase DEF ContinueLabels, TaskLabels
  <1>4. ASSUME Remember("assertFirst", [local EXCEPT !.base = run])
        PROVE  Held'
    <2>1. local' \in Locals /\ local'.base = run' /\ pc' = "assertFirst"
      BY <1>2, <1>4 DEF Remember, Goto, Locals
    <2> QED
      BY <1>1, <1>2, <2>1, TakesBase DEF ContinueLabels, TaskLabels
  <1> QED
    BY <1>1, <1>3, <1>4, GivesUp DEF ContinueFromHandoff

LEMMA AssertLeaseHolds == ASSUME Held, AssertLease PROVE Held'
  <1>1. pc \in {"assertFirst", "assertBefore", "assertAfter"}
    BY DEF AssertLease, AfterAssert
  <1>2. pc \in ActiveLabels
    BY <1>1 DEF ActiveLabels, ContinueLabels, TaskLabels
  <1>3. Moves
    BY StoreFails DEF AssertLease, ArtifactsFail
  <1>4. CASE Continue(AfterAssert[pc])
    <2>1. AfterAssert[pc] = CASE pc = "assertFirst" -> "intendStart"
                              [] pc = "assertBefore" -> "intendGrant"
                              [] OTHER -> "intendProgress"
      BY <1>1 DEF AfterAssert
    <2>2. /\ AfterAssert[pc] \in ContinueLabels
          /\ AfterAssert[pc] \in TaskLabels \cup {"completeStart"} => pc \in TaskLabels
      BY <1>1, <2>1 DEF ContinueLabels, TaskLabels
    <2> QED
      BY <1>2, <1>3, <1>4, <2>2, ContinueGoes
  <1> QED
    BY <1>2, <1>3, <1>4, ContinuationFailsHolds DEF AssertLease

LEMMA KeyTypes ==
  ASSUME Held, NEW k \in {StartKey, GrantKey, ProgressKey}, NEW t \in TaskIds \cup {NoTask}
  PROVE  /\ k \in Keys
         /\ Intended(k) \/ IntentRefused(k) =>
              ledger' \in Ledgers /\ left' \in [Disturbances -> Nat]
         /\ (Completed(k, t) \/ CompletionRefused(k, t) \/ CompletionFails \/ CompletionUnknown(k, t)) =>
              ledger' \in Ledgers /\ left' \in [Disturbances -> Nat]
  <1>1. PICK a \in Actions, u \in TaskIds \cup {NoTask} : k = Key(a, local.expected, u)
    BY LocalFacts DEF StartKey, GrantKey, ProgressKey, Actions
  <1> QED
    BY <1>1, LedgerTypes, LocalFacts DEF Held

LEMMA AppendHolds ==
  ASSUME Held, NEW label \in ActiveLabels, NEW k \in {StartKey, GrantKey, ProgressKey},
         NEW next \in ContinueLabels, NEW mayBeGranted \in BOOLEAN,
         AppendEffect(label, k, next, mayBeGranted),
         next \in TaskLabels \cup {"completeStart"} => label \in TaskLabels \cup {"completeStart"}
  PROVE  Held'
  <1>1. pc = label /\ UNCHANGED <<run, lease, world, control>>
        /\ (Intended(k) \/ IntentRefused(k))
    BY DEF AppendEffect
  <1>2. Moves
    BY <1>1, KeyTypes, NothingMoves, SameWorld DEF Moves
  <1>3. ASSUME Remember(next, [local EXCEPT !.known = IsCompleted(k), !.granted = @ \/ mayBeGranted])
        PROVE  Held'
    <2>1. IsCompleted(k) \in BOOLEAN /\ (local.granted \/ mayBeGranted) \in BOOLEAN
      BY DEF IsCompleted, Held, TypeOK, Locals
    <2>2. pc' = next /\ local' \in Locals /\ local'.base = local.base /\ local'.task = local.task
      BY <1>3, <2>1 DEF Remember, Goto, Locals, Held, TypeOK
    <2>3. pc' \in TaskLabels \cup {"completeStart"} => local'.task \in TaskIds
      BY <1>1, <2>2 DEF Held, StageOK
    <2> QED
      BY <1>1, <1>2, <2>2, <2>3, ActiveIsLater, KeepsBase
  <1> QED
    BY <1>1, <1>2, <1>3, ContinuationFailsHolds DEF AppendEffect

LEMMA IntendHolds == ASSUME Held, IntendStart \/ IntendGrant \/ IntendProgress PROVE Held'
  <1>1. {"intendStart", "startTask", "intendGrant", "grantWrite", "intendProgress", "awaitProgress"}
          \subseteq ActiveLabels \cap ContinueLabels
    BY DEF ActiveLabels, ContinueLabels, TaskLabels
  <1>2. /\ {"intendGrant", "intendProgress"} \subseteq TaskLabels
        /\ "startTask" \notin TaskLabels \cup {"completeStart"}
    BY DEF TaskLabels
  <1>3. CASE IntendStart
    BY <1>1, <1>2, <1>3, AppendHolds DEF IntendStart
  <1>4. CASE IntendGrant
    BY <1>1, <1>2, <1>4, AppendHolds DEF IntendGrant
  <1>5. CASE IntendProgress
    BY <1>1, <1>2, <1>5, AppendHolds DEF IntendProgress
  <1> QED
    BY <1>3, <1>4, <1>5

LEMMA ReadyHolds ==
  ASSUME Held, Moves, pc = "startTask", NEW t \in TaskIds, Ready(t)
  PROVE  Held'
  <1>1. pc \in ActiveLabels
    BY DEF ActiveLabels, ContinueLabels
  <1>2. ASSUME Remember("completeStart", [local EXCEPT !.task = t])
        PROVE  Held'
    <2>1. pc' = "completeStart" /\ local' \in Locals /\ local'.base = local.base /\ local'.task = t
      BY <1>2 DEF Remember, Goto, Locals, Held, TypeOK
    <2> QED
      BY <1>1, <2>1, ActiveIsLater, KeepsBase DEF ContinueLabels
  <1> QED
    BY <1>1, <1>2, ContinuationFailsHolds DEF Ready

LEMMA StartTaskHolds == ASSUME Held, StartTask PROVE Held'
  <1> DEFINE task(p) == [kind |-> "continuation", version |-> local.expected, known |-> TRUE, phase |-> p]
  <1>1. pc = "startTask" /\ pc \in ActiveLabels /\ pc \in ExportLabels \cup ContinueLabels
    BY DEF StartTask, ActiveLabels, ContinueLabels
  <1>2. UNCHANGED <<run, lease, ledger, stopped, grants, process, control>>
    BY DEF StartTask, disk
  <1>3. left' \in [Disturbances -> Nat]
    BY HappensType DEF StartTask, HostFails, Held, TypeOK, Disturbances
  <1>4. task("started") \in HostTasks /\ task("ready") \in HostTasks
    BY LocalFacts DEF HostTasks
  <1>5. ASSUME tasks' \in Seq(HostTasks), Len(tasks') <= MaxTasks
        PROVE  Moves
    <2>1. WorldMoves
      BY <1>1, <1>2, <1>5 DEF WorldMoves, Held, TypeOK, StageOK
    <2> QED
      BY <1>2, <1>3, <2>1, NothingMoves DEF Moves, Held, TypeOK, Ledgers
  <1>6. CASE UNCHANGED tasks
    <2>1. Moves
      BY <1>5, <1>6 DEF Held, TypeOK
    <2>2. ASSUME NEW t \in Started, Ready(t)
          PROVE  Held'
      <3>1. t \in TaskIds
        BY MaxTasksAssumption DEF Started, Known, Held, TypeOK, TaskIds
      <3> QED
        BY <1>1, <2>1, <2>2, <3>1, ReadyHolds
    <2>3. tasks' # Append(tasks, task("ready"))
      BY <1>6 DEF Held, TypeOK
    <2> QED
      BY <1>1, <2>1, <2>2, <2>3, ContinuationFailsHolds DEF StartTask
  <1>7. ASSUME NEW t \in Started, Ready(t), tasks' = [tasks EXCEPT ![t].phase = "ready"]
        PROVE  Held'
    <2>1. t \in TaskIds
      BY MaxTasksAssumption DEF Started, Known, Held, TypeOK, TaskIds
    <2>2. Enter("ready", t)
      BY <1>7 DEF Enter
    <2> QED
      BY <1>1, <1>5, <1>7, <2>1, <2>2, EnterType, ReadyHolds DEF Held
  <1>8. ASSUME Len(tasks) < MaxTasks, tasks' = Append(tasks, task("ready")), Ready(Len(tasks) + 1)
        PROVE  Held'
    BY <1>1, <1>4, <1>5, <1>8, LaunchType, ReadyHolds DEF Held
  <1>9. ASSUME Launch("continuation", local.expected), ContinuationFails
        PROVE  Held'
    BY <1>1, <1>4, <1>5, <1>9, LaunchType, ContinuationFailsHolds DEF Held, Launch
  <1> QED
    BY <1>6, <1>7, <1>8, <1>9 DEF StartTask

LEMMA GrantWriteHolds == ASSUME Held, GrantWrite PROVE Held'
  <1> DEFINE grant == [task |-> local.task, epoch |-> local.base.epoch]
  <1>1. /\ pc = "grantWrite" /\ pc \in ActiveLabels
        /\ "completeGrant" \in ContinueLabels /\ "grantWrite" \in TaskLabels
    BY DEF GrantWrite, ActiveLabels, ContinueLabels, TaskLabels
  <1>2. local.task \in TaskIds /\ local.base.epoch \in Nat
    BY <1>1, ActiveIsLater, LaterFacts DEF Held, StageOK
  <1>3. grants' \in {grants, grants \cup {grant}}
    BY DEF GrantWrite
  <1>4. /\ grants' \subseteq [task: {Source} \cup TaskIds, epoch: Nat]
        /\ \A g \in grants' : g.task = Source => g.epoch = 1
    BY <1>2, <1>3, Numbers DEF Held, TypeOK, StageOK
  <1>5. UNCHANGED <<run, lease, ledger, tasks, stopped, process, control>>
    BY DEF GrantWrite, disk
  <1>6. WorldMoves
    BY <1>4, <1>5 DEF WorldMoves, Held, TypeOK
  <1>7. left' \in [Disturbances -> Nat]
    BY HappensType DEF GrantWrite, HostFails, Held, TypeOK, Disturbances
  <1>8. Moves
    BY <1>5, <1>6, <1>7, NothingMoves DEF Moves, Held, TypeOK, Ledgers
  <1> QED
    BY <1>1, <1>8, ContinueGoes, ContinuationFailsHolds DEF GrantWrite

LEMMA AwaitProgressHolds == ASSUME Held, AwaitProgress PROVE Held'
  <1>1. /\ pc = "awaitProgress" /\ pc \in ActiveLabels /\ pc \in ExportLabels \cup ContinueLabels
        /\ "completeProgress" \in ContinueLabels /\ "awaitProgress" \in TaskLabels
    BY DEF AwaitProgress, ActiveLabels, ContinueLabels, TaskLabels
  <1>2. UNCHANGED <<run, lease, ledger, stopped, grants, process, control>>
    BY DEF AwaitProgress, disk
  <1>3. UNCHANGED tasks \/ Enter("completed", local.task)
    BY DEF AwaitProgress
  <1>4. WorldMoves
    BY <1>1, <1>2, <1>3, EnterType DEF WorldMoves, Held, TypeOK, StageOK
  <1>5. left' \in [Disturbances -> Nat]
    BY HappensType DEF AwaitProgress, HostFails, Held, TypeOK, Disturbances
  <1>6. Moves
    BY <1>2, <1>4, <1>5, NothingMoves DEF Moves, Held, TypeOK, Ledgers
  <1> QED
    BY <1>1, <1>6, ContinueGoes, ContinuationFailsHolds DEF AwaitProgress

LEMMA CompleteHolds ==
  ASSUME Held, NEW label \in TaskLabels \cup {"completeStart"},
         NEW k \in {StartKey, GrantKey, ProgressKey}, NEW next \in TaskLabels,
         CompleteEffect(label, k, next)
  PROVE  Held'
  <1>1. pc = label /\ pc \in ActiveLabels /\ next \in ContinueLabels
    BY DEF CompleteEffect, ActiveLabels, ContinueLabels, TaskLabels
  <1>2. UNCHANGED <<run, lease, world, control>>
    BY DEF CompleteEffect
  <1>3. Completed(k, local.task) \/ CompletionRefused(k, local.task)
          \/ CompletionFails \/ CompletionUnknown(k, local.task)
    BY DEF CompleteEffect
  <1>4. Moves
    BY <1>2, <1>3, KeyTypes, NothingMoves, SameWorld, LocalFacts DEF Moves
  <1> QED
    BY <1>1, <1>4, ContinueGoes, ContinuationFailsHolds DEF CompleteEffect

LEMMA CompletesHold ==
  ASSUME Held, CompleteStart \/ CompleteGrant \/ CompleteProgress
  PROVE  Held'
  <1>1. {"completeGrant", "completeProgress", "assertBefore", "assertAfter", "checkResumed",
         "commitContinuation"} \subseteq TaskLabels
    BY DEF TaskLabels
  <1> QED
    BY <1>1, CompleteHolds DEF CompleteStart, CompleteGrant, CompleteProgress

LEMMA ContinuedType ==
  ASSUME Held, pc \in ActiveLabels
  PROVE  /\ local.task \in TaskIds => ContinuedRun \in Runs
         /\ PausedWell(ContinuedRun) /\ ContinuedRun.epoch = local.base.epoch
         /\ ContinuedRun.status = "SLICE_RUNNING"
         /\ FailedContinuation \in Runs /\ PausedWell(FailedContinuation)
         /\ FailedContinuation.epoch = local.base.epoch /\ FailedContinuation.status = "NEEDS_USER"
  <1>1. local.base \in Runs /\ local.unfrozen \in BOOLEAN
    BY ActiveIsLater, LaterFacts DEF Held, TypeOK, Locals
  <1> QED
    BY <1>1 DEF ContinuedRun, FailedContinuation, Runs, Statuses, RelayStatuses, PausedWell

LEMMA CommitContinuationHolds == ASSUME Held, CommitContinuation PROVE Held'
  <1>1. /\ pc = "commitContinuation" /\ pc \in ActiveLabels
        /\ {"commitContinuation", "checkResumed", "checkContinuation"} \subseteq TaskLabels \cap ContinueLabels
    BY DEF CommitContinuation, ActiveLabels, ContinueLabels, TaskLabels
  <1>2. local.task \in TaskIds
    BY <1>1 DEF Held, StageOK
  <1>3. DiskMoves /\ left' \in [Disturbances -> Nat]
    BY <1>1, <1>2, Commits, ContinuedType, ActiveIsLater, LaterFacts DEF CommitContinuation
  <1>4. Moves
    BY <1>3, SameWorld DEF CommitContinuation, Moves, Held, TypeOK, Ledgers
  <1> QED
    BY <1>1, <1>4, ContinueGoes DEF CommitContinuation

LEMMA CheckContinuationHolds == ASSUME Held, CheckContinuation PROVE Held'
  <1>1. /\ pc \in ActiveLabels /\ pc \in TaskLabels
        /\ {"checkResumed", "loadFailed"} \subseteq ContinueLabels
    BY DEF CheckContinuation, ActiveLabels, ContinueLabels, TaskLabels
  <1>2. Moves
    BY StoreFails DEF CheckContinuation
  <1> QED
    BY <1>1, <1>2, ContinueGoes DEF CheckContinuation

LEMMA LoadFailedHolds == ASSUME Held, LoadFailed PROVE Held'
  <1>1. /\ pc \in ActiveLabels
        /\ {"freezeFailed", "failContinuation"} \subseteq ContinueLabels \ (TaskLabels \cup {"completeStart"})
    BY DEF LoadFailed, ActiveLabels, ContinueLabels, TaskLabels
  <1>2. Moves
    BY StoreFails DEF LoadFailed
  <1> QED
    BY <1>1, <1>2, ContinueGoes, GivesUp DEF LoadFailed

LEMMA FreezeFailedHolds == ASSUME Held, FreezeFailed PROVE Held'
  <1>1. /\ pc \in ActiveLabels
        /\ "failContinuation" \in ContinueLabels \ (TaskLabels \cup {"completeStart"})
    BY DEF FreezeFailed, ActiveLabels, ContinueLabels, TaskLabels
  <1>2. DiskMoves
    BY <1>1, FreezeMoves, NothingMoves, ActiveIsLater, LaterFacts DEF FreezeFailed, GuardFails
  <1>3. left' \in [Disturbances -> Nat]
    BY HappensType DEF FreezeFailed, GuardFails, Held, TypeOK, Disturbances
  <1>4. Moves
    BY <1>2, <1>3, SameWorld DEF FreezeFailed, Moves, Held, TypeOK, Ledgers
  <1>5. ASSUME Remember("failContinuation", [local EXCEPT !.unfrozen = TRUE])
        PROVE  Held'
    <2>1. pc' = "failContinuation" /\ local' \in Locals /\ local'.base = local.base
      BY <1>5 DEF Remember, Goto, Locals, Held, TypeOK
    <2> QED
      BY <1>1, <1>4, <2>1, ActiveIsLater, KeepsBase
  <1> QED
    BY <1>1, <1>4, <1>5, ContinueGoes DEF FreezeFailed

LEMMA FailContinuationHolds == ASSUME Held, FailContinuation PROVE Held'
  <1>1. pc \in ActiveLabels
    BY DEF FailContinuation, ActiveLabels, ContinueLabels
  <1>2. DiskMoves /\ left' \in [Disturbances -> Nat]
    BY <1>1, Commits, ContinuedType, ActiveIsLater, LaterFacts DEF FailContinuation
  <1>3. Moves
    BY <1>2, SameWorld DEF FailContinuation, Moves, Held, TypeOK, Ledgers
  <1> QED
    BY <1>3, GivesUp DEF FailContinuation

-----------------------------------------------------------------------------
\* The rest of the relay, and what happens around it, hold the first floor.

LEMMA BeginRelayHolds == ASSUME Held, BeginRelay PROVE Held'
  <1>1. Moves
    BY StoreFails DEF BeginRelay
  <1>2. ASSUME Remember("interrupt", [NoLocal EXCEPT !.expected = run.state_version, !.base = run])
        PROVE  Held'
    <2>1. run \in Runs /\ run.state_version \in Nat /\ UNCHANGED run
      BY RunFacts DEF BeginRelay, Held, TypeOK, disk
    <2>2. /\ pc' = "interrupt" /\ local' \in Locals /\ local'.base = run'
          /\ ~local'.replay /\ local'.position = None
      BY <1>2, <2>1, NoLocalType DEF Remember, Goto, Locals, NoLocal
    <2>3. LoadedOK'
      BY <1>1, <2>2, BaseStays DEF StageLabels, InterruptLabels
    <2>4. InterruptOK'
      BY <2>2 DEF InterruptOK, None
    <2> QED
      BY <1>1, <2>2, <2>3, <2>4, Lands DEF Labels, ExportLabels, ContinueLabels, TaskLabels
  <1> QED
    BY <1>1, <1>2, GivesUp DEF BeginRelay

LEMMA EndHolds ==
  ASSUME Held, Moves, Forget
  PROVE  Held'
  BY LandsDown, NoLocalType DEF Forget, Remember, Goto

LEMMA CheckResumedHolds == ASSUME Held, CheckResumed PROVE Held'
  BY StoreFails, EndHolds, GivesUp DEF CheckResumed

LEMMA CloseFailureHolds == ASSUME Held, CloseFailure PROVE Held'
  <1>1. Moves
    BY StoreFails DEF CloseFailure
  <1>2. ASSUME ~IsClosed, Remember("commitClosure", [NoLocal EXCEPT !.base = run])
        PROVE  Held'
    <2>1. run \in Runs /\ UNCHANGED run
      BY DEF CloseFailure, Held, TypeOK, disk
    <2>2. pc' = "commitClosure" /\ local' \in Locals /\ local'.base = run'
      BY <1>2, <2>1, NoLocalType DEF Remember, Goto, Locals, NoLocal
    <2>3. LoadedOK'
      BY <1>2, <2>1, <2>2, RunFacts, Labelled DEF LoadedOK, IsPast, IsClosed
    <2>4. /\ InterruptOK' /\ pc' \in Labels
          /\ pc' \notin ExportLabels \cup ContinueLabels /\ pc' \notin TaskLabels \cup {"completeStart"}
      BY <2>2 DEF InterruptOK, InterruptLabels, Labels, ExportLabels, ContinueLabels, TaskLabels
    <2> QED
      BY <1>1, <2>2, <2>3, <2>4, Lands
  <1> QED
    BY <1>1, <1>2, EndHolds DEF CloseFailure

LEMMA ClosedType ==
  ASSUME NEW r \in Runs, r.status \notin {"NEEDS_USER", "ABORTED"}
  PROVE  /\ Closed(r) \in Runs /\ PausedWell(Closed(r)) /\ Closed(r).epoch = r.epoch
         /\ Closed(r).state_version = r.state_version /\ Closed(r).status = "NEEDS_USER"
  BY DEF Closed, Runs, Statuses, RelayStatuses, PausedWell

LEMMA CommitClosureHolds == ASSUME Held, CommitClosure PROVE Held'
  <1>1. /\ pc \in LoadedLabels /\ local.base \in Runs
        /\ local.base.status \notin {"NEEDS_USER", "ABORTED"}
    BY DEF CommitClosure, LoadedLabels, Held, LoadedOK
  <1>2. DiskMoves /\ left' \in [Disturbances -> Nat]
    BY <1>1, ClosedType, Commits DEF CommitClosure
  <1>3. Moves
    BY <1>2, SameWorld DEF CommitClosure, Moves, Held, TypeOK, Ledgers
  <1> QED
    BY <1>3, EndHolds DEF CommitClosure

\* Steps that leave the coordinator where it is.
LEMMA Stays ==
  ASSUME Held, DiskMoves, UNCHANGED <<ledger, tasks, stopped, grants, pc, local>>,
         process' \in Processes, left' \in [Disturbances -> Nat],
         control' \in Controls, ControlOK'
  PROVE  Held'
  <1>1. TypeOK'
    BY DEF Held, TypeOK, DiskMoves, RunGrows, LeaseGrows
  <1>2. LoadedOK'
    <2>1. ASSUME pc \in LoadedLabels
          PROVE  IsPast(local.base)'
      BY <2>1, PastStays DEF Held, LoadedOK, DiskMoves
    <2> QED
      BY <2>1 DEF Held, LoadedOK
  <1>3. lease'.epoch \in Nat /\ lease.epoch \in Nat /\ lease'.epoch >= lease.epoch
    BY LeaseFacts DEF Held, DiskMoves, LeaseGrows, Leases
  <1>4. InterruptOK'
    <2>1. ASSUME pc \in InterruptLabels, local.position = "ROTATED"
          PROVE  lease'.epoch >= local.base.epoch + 1
      <3>1. local.base.epoch \in Nat
        BY <2>1, Labelled, RunFacts DEF Held, LoadedOK
      <3> QED
        BY <1>3, <2>1, <3>1 DEF Held, InterruptOK
    <2> QED
      BY <2>1 DEF Held, InterruptOK
  <1>5. StageOK'
    BY <1>3 DEF Held, StageOK
  <1> QED
    BY <1>1, <1>2, <1>4, <1>5 DEF Held, DiskMoves, RunGrows, PausedWell

LEMMA BeatHolds == ASSUME Held, Beat PROVE Held'
  <1>1. DiskMoves
    <2>1. lease' \in {lease, [lease EXCEPT !.rotated = FALSE]}
      BY DEF Beat, RenewOrDispose
    <2>2. lease' \in Leases /\ lease'.epoch = lease.epoch /\ lease'.status = lease.status
      BY <2>1 DEF Held, TypeOK, Leases
    <2> QED
      BY <2>2, LeaseFacts DEF Beat, Held, DiskMoves, RunGrows, LeaseGrows, EpochsAgree
  <1>2. process' \in Processes
    BY DEF Beat, RenewOrDispose, Held, TypeOK, Processes
  <1>3. left' \in [Disturbances -> Nat]
    BY HappensType DEF Beat, Held, TypeOK, Disturbances
  <1>4. control' \in Controls /\ ControlOK'
    BY <1>1, ControlStays DEF Beat
  <1> QED
    BY <1>1, <1>2, <1>3, <1>4, Stays DEF Beat

LEMMA ExpireHolds == ASSUME Held, Expire PROVE Held'
  <1>1. DiskMoves
    <2>1. lease' \in Leases /\ lease'.epoch = lease.epoch /\ lease'.status = lease.status
      BY DEF Expire, Held, TypeOK, Leases
    <2> QED
      BY <2>1, LeaseFacts DEF Expire, Held, DiskMoves, RunGrows, LeaseGrows, EpochsAgree
  <1>2. left' \in [Disturbances -> Nat]
    BY HappensType DEF Expire, Held, Disturbances
  <1>3. control' \in Controls /\ ControlOK'
    BY <1>1, ControlStays DEF Expire
  <1> QED
    BY <1>1, <1>2, <1>3, Stays DEF Expire, world, Held, TypeOK

LEMMA RunAgainHolds == ASSUME Held, RunAgain PROVE Held'
  <1>1. DiskMoves
    <2> DEFINE r == Closed(run)
    <2>1. /\ r \in Runs /\ r.epoch = run.epoch /\ r.status = "NEEDS_USER"
          /\ r.state_version = run.state_version
      BY ClosedType, LeaseFacts DEF RunAgain, IsClosed, Held
    <2>2. run.state_version + 1 \in Nat
      BY RunFacts, LeaseFacts DEF Held
    <2>3. /\ run' \in Runs /\ run'.epoch = run.epoch /\ run'.status = "NEEDS_USER"
          /\ run'.state_version = run.state_version + 1
      BY <2>1, <2>2 DEF RunAgain, Runs
    <2> QED
      BY <2>3, LeaseFacts, RunFacts
      DEF RunAgain, Held, DiskMoves, RunGrows, LeaseGrows, EpochsAgree, PausedWell, TypeOK
  <1>2. left' \in [Disturbances -> Nat]
    BY HappensType DEF RunAgain, Held, Disturbances
  <1>3. control' \in Controls /\ ControlOK'
    BY <1>1, ControlStays DEF RunAgain
  <1> QED
    BY <1>1, <1>2, <1>3, Stays DEF RunAgain, world, Held, TypeOK

LEMMA CrashHolds == ASSUME Held, Crash PROVE Held'
  <1> DEFINE base == IF local.replay /\ StageOf(pc) = "interrupt"
                     THEN [local.base EXCEPT !.epoch = @ - 1] ELSE local.base
  <1>1. pc \in StageLabels /\ StageOf(pc) \in Entries
    BY Labelled DEF Crash, Held, TypeOK, StageOf, Entries
  <1>2. /\ StageOf(pc) = "interrupt" <=> pc \in InterruptLabels
        /\ StageOf(pc) # "interrupt" => pc \in ExportLabels \cup ContinueLabels
    BY <1>1, Labelled DEF StageOf, InterruptLabels, ExportLabels
  <1>3. local.base \in Runs /\ local.base.epoch >= 1 /\ local.base.epoch \in Nat
    BY <1>1, RunFacts DEF Held, LoadedOK
  <1>4. base \in Runs /\ base.epoch >= 1
    <2>1. CASE local.replay /\ StageOf(pc) = "interrupt"
      <3>1. local.base.epoch >= 2
        BY <1>2, <2>1 DEF Held, InterruptOK
      <3>2. local.base.epoch - 1 \in Nat /\ local.base.epoch - 1 >= 1
        BY <1>3, <3>1
      <3> QED
        BY <1>3, <2>1, <3>2 DEF Runs
    <2>2. CASE ~(local.replay /\ StageOf(pc) = "interrupt")
      BY <1>3, <2>2
    <2> QED
      BY <2>1, <2>2
  <1>5. WorldMoves
    <2>1. tasks \in [1 .. Len(tasks) -> HostTasks] /\ Len(tasks) \in Nat /\ DOMAIN tasks = 1 .. Len(tasks)
      BY DEF Held, TypeOK
    <2>2. tasks' \in [1 .. Len(tasks) -> HostTasks]
      BY <2>1 DEF Crash, HostTasks
    <2>3. tasks' \in Seq(HostTasks) /\ Len(tasks') = Len(tasks)
      BY <2>1, <2>2
    <2>4. tasks' # <<>> => tasks # <<>>
      BY <2>3 DEF Held, TypeOK
    <2> QED
      BY <2>3, <2>4 DEF Crash, WorldMoves, Held, TypeOK, StageOK, Processes
  <1>6. UNCHANGED <<run, lease, ledger, stopped, grants, control>>
    BY DEF Crash, disk
  <1>7. Moves
    BY <1>5, <1>6, NothingMoves, HappensType DEF Crash, Moves, Held, TypeOK, Ledgers, Disturbances
  <1>8. /\ pc' = StageOf(pc) /\ local' \in Locals /\ local'.base = base
        /\ ~local'.replay /\ local'.position = None
    BY <1>4, NoLocalType, LocalFacts DEF Crash, Remember, Goto, Locals, NoLocal
  <1>9. LoadedOK'
    BY <1>1, <1>4, <1>7, <1>8, BaseStays, Labelled
  <1>10. InterruptOK'
    BY <1>1, <1>8 DEF InterruptOK, None, Entries
  <1>11. pc' \in ExportLabels \cup ContinueLabels => stopped' /\ lease'.epoch >= 2
    <2>1. pc' \in ExportLabels \cup ContinueLabels => pc \in ExportLabels \cup ContinueLabels
      <3>1. "interrupt" \in InterruptLabels
        BY DEF InterruptLabels
      <3> QED
        BY <1>1, <1>2, <1>8, <3>1, Labelled
    <2> QED
      BY <1>6, <2>1 DEF Held, StageOK
  <1>12. pc' \in Labels /\ pc' \notin TaskLabels \cup {"completeStart"}
    BY <1>1, <1>8, Labelled DEF Entries, TaskLabels
  <1> QED
    BY <1>7, <1>8, <1>9, <1>10, <1>11, <1>12, Lands

\* A command changes the lease, and remembers the Run that it read...
LEMMA CommandHolds ==
  ASSUME Held, LeaseGrows, EpochsAgree', NEW name \in {"pause", "resume", "abort"}, NEW epoch \in Nat,
         Command(name, epoch),
         name = "pause" => run.status \in HeartbeatStatuses,
         name = "resume" =>
           /\ run.status = "PAUSED" /\ epoch \in {run.epoch, run.epoch + 1} /\ epoch <= lease'.epoch
  PROVE  Held'
  <1>1. DiskMoves
    BY DEF Command, DiskMoves, RunGrows, Held, TypeOK
  <1>2. control' = [command |-> name, base |-> run, epoch |-> epoch] /\ UNCHANGED run /\ run \in Runs
    BY DEF Command, Held, TypeOK
  <1>3. control' \in Controls
    BY <1>2 DEF Controls
  <1>4. ControlOK'
    BY <1>2, RunFacts DEF ControlOK, IsPast, Held, PausedWell
  <1>5. left' \in [Disturbances -> Nat] /\ UNCHANGED <<ledger, tasks, stopped, grants, process, pc, local>>
    BY HappensType DEF Command, Held, Disturbances, world
  <1> QED
    BY <1>1, <1>3, <1>4, <1>5, Stays DEF Held, TypeOK

LEMMA PauseHolds == ASSUME Held, Pause PROVE Held'
  <1>1. run.epoch \in Nat /\ UNCHANGED run
    BY RunFacts, LeaseFacts DEF Held, Pause, Command
  <1>2. LeaseGrows /\ EpochsAgree'
    BY <1>1, FreezeMoves DEF Pause, DiskMoves
  <1> QED
    BY <1>1, <1>2, CommandHolds DEF Pause

LEMMA ResumeHolds == ASSUME Held, Resume PROVE Held'
  <1>1. run.epoch \in Nat /\ UNCHANGED run /\ lease.epoch \in Nat
    BY RunFacts, LeaseFacts DEF Held, Resume, Command
  <1>2. LeaseGrows /\ EpochsAgree'
    BY <1>1, RotateMoves, NothingMoves DEF Resume, DiskMoves
  <1>3. lease'.epoch \in {run.epoch, run.epoch + 1} /\ lease'.epoch \in Nat
    BY <1>1, <1>2 DEF EpochsAgree, LeaseGrows, Leases
  <1> QED
    BY <1>2, <1>3, CommandHolds DEF Resume

LEMMA AbortHolds == ASSUME Held, Abort PROVE Held'
  <1>1. run.epoch \in Nat /\ UNCHANGED run
    BY RunFacts, LeaseFacts DEF Held, Abort, Command
  <1>2. lease' \in Leases /\ lease'.epoch = lease.epoch /\ lease'.status = "RELEASED"
    BY DEF Abort, Held, TypeOK, Leases
  <1>3. LeaseGrows /\ EpochsAgree'
    BY <1>1, <1>2, LeaseFacts DEF LeaseGrows, EpochsAgree, Held
  <1> QED
    BY <1>1, <1>3, CommandHolds DEF Abort

\* ... and commits what became of that Run, unless the Run moved on.
LEMMA CommandedFacts ==
  ASSUME Held, control.command # None, run = control.base
  PROVE  /\ Commanded \in Runs /\ PausedWell(Commanded)
         /\ Commanded.state_version = run.state_version
         /\ Commanded.epoch = IF control.command = "resume" THEN control.epoch ELSE run.epoch
         /\ Commanded.status = CASE control.command = "pause" -> "PAUSED"
                                 [] control.command = "resume" -> run.resume_to
                                 [] OTHER -> "ABORTED"
         /\ control.command = "pause" => Commanded.resume_to = run.status
  <1>1. /\ control.command \in {"pause", "resume", "abort"} /\ control.epoch \in Nat /\ run \in Runs
        /\ ControlOK
    BY DEF Held, TypeOK, Controls
  <1>2. CASE control.command = "pause"
    BY <1>1, <1>2 DEF Commanded, ControlOK, Runs, Statuses, PausedWell, HeartbeatStatuses
  <1>3. CASE control.command = "resume"
    BY <1>1, <1>3
    DEF Commanded, ControlOK, Runs, Statuses, PausedWell, HeartbeatStatuses, RelayStatuses
  <1>4. CASE control.command = "abort"
    BY <1>1, <1>4 DEF Commanded, ControlOK, Runs, Statuses, PausedWell
  <1> QED
    BY <1>1, <1>2, <1>3, <1>4

LEMMA CommandCommitsHolds == ASSUME Held, CommandCommits PROVE Held'
  <1>1. control' \in Controls /\ ControlOK'
    BY DEF CommandCommits, Controls, ControlOK, None
  <1>2. left' \in [Disturbances -> Nat]
    BY HappensType DEF CommandCommits, Held, TypeOK, Disturbances
  <1>3. DiskMoves
    <2>1. CASE run' = run
      BY <2>1, NothingMoves DEF CommandCommits
    <2>2. ASSUME run.state_version = control.base.state_version,
                 run' = [Commanded EXCEPT !.state_version = @ + 1]
          PROVE  DiskMoves
      <3>1. run = control.base /\ control.command # None
        BY <2>2 DEF CommandCommits, Held, ControlOK, IsPast
      <3>2. Commanded \in Runs /\ PausedWell(Commanded) /\ Commanded.state_version = run.state_version
        BY <3>1, CommandedFacts
      <3>3. run.state_version + 1 \in Nat /\ run.epoch \in Nat
        BY RunFacts, LeaseFacts DEF Held
      <3>4. /\ run' \in Runs /\ PausedWell(run') /\ run'.epoch = Commanded.epoch
            /\ run'.state_version = run.state_version + 1
        BY <2>2, <3>2, <3>3 DEF Runs, PausedWell
      <3>5. run'.epoch \in {run.epoch, run.epoch + 1} /\ run'.epoch <= lease.epoch
        BY <3>1, <3>3, <3>4, CommandedFacts DEF Held, ControlOK, EpochsAgree
      <3> QED
        BY <3>3, <3>4, <3>5, LeaseFacts
        DEF CommandCommits, Held, TypeOK, DiskMoves, RunGrows, LeaseGrows, EpochsAgree
    <2> QED
      BY <2>1, <2>2 DEF CommandCommits
  <1> QED
    BY <1>1, <1>2, <1>3, Stays DEF CommandCommits, world, Held, TypeOK

LEMMA InitHeld == Init => Held
  <1> SUFFICES ASSUME Init PROVE Held
    OBVIOUS
  <1>1. pc = "idle" /\ ~(pc \in StageLabels) /\ ~(pc \in LoadedLabels)
    BY Labelled DEF Init, StageLabels, InterruptLabels, ExportLabels, ContinueLabels, TaskLabels, LoadedLabels
  <1>2. run \in Runs /\ PausedWell(run)
    BY Numbers DEF Init, Runs, Statuses, RelayStatuses, PausedWell
  <1>3. TypeOK
    <2>1. lease \in Leases /\ process \in Processes /\ control \in Controls /\ pc \in Labels
      BY DEF Init, Leases, Processes, Labels, Controls
    <2>2. ledger \in [intended: SUBSET Keys, completed: SUBSET Completions]
      BY DEF Init
    <2>3. tasks \in Seq(HostTasks) /\ Len(tasks) <= MaxTasks
      BY MaxTasksAssumption DEF Init
    <2>4. grants \subseteq [task: {Source} \cup TaskIds, epoch: Nat]
      <3>1. [task |-> Source, epoch |-> 1] \in [task: {Source} \cup TaskIds, epoch: Nat]
        OBVIOUS
      <3> QED
        BY <3>1 DEF Init
    <2> QED
      BY <1>2, <2>1, <2>2, <2>3, <2>4, NoLocalType, BudgetAssumption DEF Init, TypeOK
  <1>4. EpochsAgree /\ ControlOK
    BY DEF Init, EpochsAgree, ControlOK
  <1>5. LoadedOK /\ InterruptOK /\ StageOK
    BY <1>1, Labelled DEF LoadedOK, InterruptOK, StageOK, Init
  <1> QED
    BY <1>2, <1>3, <1>4, <1>5 DEF Held

LEMMA HeldStays == Held /\ [Next]_vars => Held'
  <1> SUFFICES ASSUME Held, [Next]_vars PROVE Held'
    OBVIOUS
  <1>1. CASE InterruptionNext
    BY <1>1, InterruptHolds, FreezeHolds, InspectHolds, IntendInterruptHolds, HostInterruptHolds,
       CompleteInterruptHolds, RotateHolds, CommitInterruptHolds, CheckInterruptHolds, FailInterruptHolds
    DEF InterruptionNext
  <1>2. CASE HandoffNext
    BY <1>2, ExportHandoffHolds, ClaimAttemptHolds, CheckClaimHolds, IntendExportHolds,
       LaunchCompressionHolds, AwaitHandoffHolds, CompleteExportHolds, CommitExportHolds,
       CheckExportHolds, FailExportHolds
    DEF HandoffNext
  <1>3. CASE ContinuationNext
    BY <1>3, ContinueFromHandoffHolds, AssertLeaseHolds, IntendHolds, StartTaskHolds, CompletesHold,
       GrantWriteHolds, AwaitProgressHolds, CommitContinuationHolds, CheckContinuationHolds,
       LoadFailedHolds, FreezeFailedHolds, FailContinuationHolds
    DEF ContinuationNext
  <1>4. CASE BeginRelay \/ CheckResumed \/ CloseFailure \/ CommitClosure
    BY <1>4, BeginRelayHolds, CheckResumedHolds, CloseFailureHolds, CommitClosureHolds
  <1>5. CASE Beat \/ Crash \/ Expire \/ RunAgain \/ Pause \/ Resume \/ Abort \/ CommandCommits
    BY <1>5, BeatHolds, CrashHolds, ExpireHolds, RunAgainHolds, PauseHolds, ResumeHolds, AbortHolds,
       CommandCommitsHolds
  <1>6. CASE UNCHANGED vars
    BY <1>6 DEF vars, disk, world, Held, TypeOK, PausedWell, EpochsAgree, ControlOK, IsPast, LoadedOK,
                InterruptOK, StageOK
  <1> QED
    BY <1>1, <1>2, <1>3, <1>4, <1>5, <1>6 DEF Next, ControllerNext

LEMMA HeldMeans == Held => SourceIsGoneFirst
  <1> SUFFICES ASSUME Held PROVE SourceIsGoneFirst
    OBVIOUS
  <1>1. SourceIsStoppedFirst
    BY LeaseFacts DEF Held, StageOK, SourceIsStoppedFirst, Writers, IsWritable, IsValid
  <1> QED
    BY <1>1 DEF Held, EpochsAgree, SourceIsGoneFirst, RotatedOnce

\* No task is started before the host confirmed the end of the source's turn and the
\* source's write epoch died, and the lease is never more than one epoch ahead of its
\* Run: whatever crashes, commands, timeouts and lost answers interleave with the relay.
THEOREM RelaySourceIsGoneFirst == Spec => []SourceIsGoneFirst
  <1>1. Spec => []Held
    BY InitHeld, HeldStays, PTL DEF Spec
  <1> QED
    BY <1>1, HeldMeans, PTL

-----------------------------------------------------------------------------
\* How the Run goes on from the statuses of the relay.

FollowsRun(r) ==
  /\ run.status \in {"HANDOFF_EXPORTING", "CONTINUATION_STARTING", "SLICE_RUNNING"} =>
       /\ r.status # "SOURCE_INTERRUPTING"
       /\ r.status \in HeartbeatStatuses => r.epoch = run.epoch
       /\ r.status = "PAUSED" => r.resume_to = run.status
  /\ run.status = "PAUSED" /\ r.status \in HeartbeatStatuses => r.status = run.resume_to
  /\ run.status \in {"NEEDS_USER", "ABORTED"} => r.status \notin HeartbeatStatuses \cup {"PAUSED"}

RunFollows ==
  run' = run \/ (run'.state_version = run.state_version + 1 /\ FollowsRun(run'))

LEMMA StatusKinds ==
  /\ HeartbeatStatuses =
       {"SOURCE_INTERRUPTING", "HANDOFF_EXPORTING", "CONTINUATION_STARTING", "SLICE_RUNNING"}
  /\ Statuses = HeartbeatStatuses \cup {"PAUSED", "NEEDS_USER", "ABORTED"}
  BY DEF HeartbeatStatuses, RelayStatuses, Statuses

LEMMA AtExportStays ==
  ASSUME Held, RunFollows, NEW v \in Nat, NEW e \in Nat, AtExport(run, v, e)
  PROVE  AtExport(run', v, e)
  <1>1. run.state_version \in Nat /\ run.status \in Statuses
    BY RunFacts, LeaseFacts DEF Held
  <1>2. CASE run' = run
    BY <1>2 DEF AtExport
  <1>3. CASE run'.state_version = run.state_version + 1 /\ FollowsRun(run')
    <2>1. CASE run.state_version = v
      BY <1>1, <1>3, <2>1 DEF AtExport, FollowsRun
    <2>2. CASE run.state_version = v + 1
      BY <1>1, <1>3, <2>2, StatusKinds DEF AtExport, FollowsRun
    <2>3. CASE run.state_version > v + 1
      BY <1>1, <1>3, <2>3 DEF AtExport
    <2> QED
      BY <1>1, <2>1, <2>2, <2>3 DEF AtExport
  <1> QED
    BY <1>2, <1>3 DEF RunFollows

LEMMA AtContinueStays ==
  ASSUME Held, RunFollows, NEW v \in Nat, NEW e \in Nat, AtContinue(run, v, e)
  PROVE  AtContinue(run', v, e)
  <1>1. run.state_version \in Nat
    BY RunFacts, LeaseFacts DEF Held
  <1>2. CASE run' = run
    BY <1>2 DEF AtContinue
  <1>3. CASE run'.state_version = run.state_version + 1 /\ FollowsRun(run')
    BY <1>1, <1>3, StatusKinds DEF AtContinue, FollowsRun
  <1> QED
    BY <1>2, <1>3 DEF RunFollows

\* What a step does to all that the second floor is about, but the coordinator.
FollowMoves ==
  /\ RunFollows
  /\ lease'.epoch >= lease.epoch /\ lease'.epoch \in Nat
  /\ ledger.completed \subseteq ledger'.completed /\ CompletedOnce'
  /\ grants' = grants

LEMMA Quiet ==
  ASSUME Held, Followed, UNCHANGED <<run, grants>>, lease' = lease \/ LeaseGrows,
         ledger'.completed = ledger.completed
  PROVE  FollowMoves
  BY LeaseFacts DEF Held, Followed, FollowMoves, RunFollows, LeaseGrows, Leases, CompletedOnce

\* An intent completes nothing, a completion contradicts none.
LEMMA IntentFollows ==
  ASSUME Held, Followed, UNCHANGED <<run, lease, grants>>,
         NEW k, Intended(k) \/ IntentRefused(k)
  PROVE  FollowMoves
  <1>1. ledger'.completed = ledger.completed
    BY DEF Intended, IntentRefused, Held, TypeOK
  <1> QED
    BY <1>1, Quiet

LEMMA CompletionFollows ==
  ASSUME Held, Followed, UNCHANGED <<run, lease, grants>>, NEW k, NEW t,
         Completed(k, t) \/ CompletionRefused(k, t) \/ CompletionFails \/ CompletionUnknown(k, t)
  PROVE  /\ FollowMoves
         /\ Completed(k, t) => t \in CompletedFor(k)'
  <1> DEFINE c == [key |-> k, task |-> t]
  <1>1. ASSUME UNCHANGED ledger
        PROVE  FollowMoves
    BY <1>1, Quiet
  <1>2. CASE Complete(k, t) /\ CompletedFor(k) \subseteq {t}
    <2>1. ledger'.completed = ledger.completed \cup {c}
      BY <1>2 DEF Complete, Held, TypeOK
    <2>2. \A d \in ledger.completed : d.key = k => d.task = t
      BY <1>2 DEF CompletedFor
    <2>3. CompletedOnce'
      BY <2>1, <2>2 DEF Followed, CompletedOnce
    <2>4. FollowMoves
      BY <2>1, <2>3, LeaseFacts DEF FollowMoves, RunFollows, Held
    <2>5. t \in CompletedFor(k)'
      BY <2>1 DEF CompletedFor
    <2> QED
      BY <2>4, <2>5
  <1> QED
    BY <1>1, <1>2
    DEF Completed, CompletionRefused, CompletionFails, CompletionUnknown, IsCompleted

LEMMA CompletedStays ==
  ASSUME FollowMoves, NEW k, NEW t \in CompletedFor(k)
  PROVE  t \in CompletedFor(k)'
  BY DEF FollowMoves, CompletedFor

\* A commit of what becomes of the Run that was read.
LEMMA CommitFollows ==
  ASSUME Held, Followed, pc \in LoadedLabels, UNCHANGED <<lease, ledger, grants>>,
         NEW next \in Runs, local.base = run => FollowsRun(next),
         Committed(next) \/ Stale \/ PersistFailed(next)
  PROVE  FollowMoves
  <1> DEFINE n == [next EXCEPT !.state_version = run.state_version + 1]
  <1>1. n.status = next.status /\ n.epoch = next.epoch /\ n.resume_to = next.resume_to
        /\ n.state_version = run.state_version + 1
    BY DEF Runs
  <1>2. run.state_version = local.base.state_version => local.base = run
    BY DEF Held, LoadedOK, IsPast
  <1>3. RunFollows
    BY <1>1, <1>2 DEF Committed, Stale, PersistFailed, RunFollows, FollowsRun
  <1> QED
    BY <1>3, LeaseFacts DEF FollowMoves, Held, Followed, CompletedOnce

LEMMA NeedsUserFollows ==
  ASSUME NEW r, r.status = "NEEDS_USER"
  PROVE  FollowsRun(r)
  BY StatusKinds DEF FollowsRun

-----------------------------------------------------------------------------
\* Where a step arrives.

LEMMA GrantsStay ==
  ASSUME Held, Followed, FollowMoves
  PROVE  \A g \in grants' : g.epoch <= lease'.epoch
  BY LeaseFacts DEF FollowMoves, Held, TypeOK, Followed, GrantsFollowed

LEMMA FollowedDown ==
  ASSUME Held, Followed, FollowMoves, pc' \in {"closeFailure", "commitClosure", "done"}
  PROVE  Followed'
  <1>1. pc' \notin {"idle"} \cup InterruptLabels \cup ExportLabels \cup ContinueLabels
    BY DEF InterruptLabels, ExportLabels, ContinueLabels, TaskLabels
  <1> QED
    BY <1>1, GrantsStay
    DEF Followed, InterruptFollowed, ExportFollowed, ContinueFollowed, GrantsFollowed, FollowMoves

\* In the interruption, and at the entry of the export, the source alone was granted.
LEMMA FollowedEarly ==
  ASSUME Held, Followed, FollowMoves, pc \in {"idle"} \cup InterruptLabels \cup ExportLabels,
         pc' \in InterruptLabels \cup ExportLabels,
         InterruptFollowed', ExportFollowed'
  PROVE  Followed'
  <1>1. pc' \notin ContinueLabels
    BY Labelled
  <1> QED
    BY <1>1, GrantsStay DEF Followed, ContinueFollowed, GrantsFollowed, FollowMoves

LEMMA FollowedInside ==
  ASSUME Held, Followed, FollowMoves,
         pc \in InterruptLabels \ {"interrupt"}, pc' \in InterruptLabels \ {"interrupt"},
         local'.base = local.base, local'.expected = local.expected, local'.replay = local.replay
  PROVE  Followed'
  <1>1. local.base \in Runs /\ local.base.epoch \in Nat /\ local.expected + 1 \in Nat
    BY InterruptFacts, LocalFacts
  <1>2. InterruptFollowed'
    BY <1>1, AtExportStays DEF Followed, InterruptFollowed, FollowMoves
  <1>3. ExportFollowed'
    BY Labelled DEF ExportFollowed
  <1> QED
    BY <1>2, <1>3, FollowedEarly

LEMMA FollowedExport ==
  ASSUME Held, Followed, FollowMoves,
         pc \in ExportLabels \ {"export"}, pc' \in ExportLabels \ {"export"},
         local'.base = local.base, local'.expected = local.expected, local'.replay = local.replay,
         pc \in {"claim", "checkClaim"} <=> pc' \in {"claim", "checkClaim"},
         local.replay => pc' \in {"intendExport", "awaitHandoff"}
  PROVE  Followed'
  <1>1. local.base.epoch \in Nat /\ local.expected \in Nat /\ local.expected + 2 \in Nat
    <2>1. pc \in (ExportLabels \cup ContinueLabels) \ Entries
      BY DEF ExportLabels, Entries
    <2> QED
      BY <2>1, LaterFacts
  <1>2. AtExport(run', local.expected, local.base.epoch)
    BY <1>1, AtExportStays DEF Followed, ExportFollowed, FollowMoves
  <1>3. local.replay => AtContinue(run', local.expected + 2, local.base.epoch)
    BY <1>1, AtContinueStays DEF Followed, ExportFollowed, FollowMoves
  <1>4. ExportFollowed'
    BY <1>2, <1>3 DEF Followed, ExportFollowed
  <1>5. InterruptFollowed'
    BY Labelled DEF InterruptFollowed
  <1> QED
    BY <1>4, <1>5, FollowedEarly

\* From the entry of the continuation on.
LEMMA FollowedLate ==
  ASSUME Held, Followed, FollowMoves, pc' \in ContinueLabels, ContinueFollowed',
         \/ pc \in ExportLabels
         \/ pc \in ContinueLabels /\ local'.expected = local.expected
              /\ local'.base.epoch = local.base.epoch
  PROVE  Followed'
  <1>1. pc' \notin {"idle"} \cup InterruptLabels \cup ExportLabels
    BY Labelled DEF ContinueLabels, TaskLabels
  <1>2. pc \in ContinueLabels /\ local'.expected = local.expected =>
          \A g \in grants : g.task \in CompletedFor(StartKey) => g.task \in CompletedFor(StartKey)'
    BY CompletedStays DEF StartKey, Key
  <1>3. GrantsFollowed'
    BY <1>1, <1>2, GrantsStay DEF Followed, GrantsFollowed, FollowMoves
  <1> QED
    BY <1>1, <1>3 DEF Followed, InterruptFollowed, ExportFollowed, FollowMoves

LEMMA FollowedContinue ==
  ASSUME Held, Followed, FollowMoves,
         pc \in ContinueLabels \ {"continue"}, pc' \in ContinueLabels \ {"continue"},
         local'.base = local.base, local'.expected = local.expected, local'.replay = local.replay,
         local.replay => pc' \notin {"commitContinuation", "checkContinuation",
                                     "loadFailed", "freezeFailed", "failContinuation"},
         pc' \in TaskLabels =>
           \/ pc \in TaskLabels /\ local'.task = local.task
           \/ local'.task \in CompletedFor(StartKey)'
  PROVE  Followed'
  <1>1. local.base.epoch \in Nat /\ local.expected \in Nat
    BY ActiveIsLater, LaterFacts DEF ActiveLabels
  <1>2. AtContinue(run', local.expected, local.base.epoch)
    BY <1>1, AtContinueStays DEF Followed, ContinueFollowed, FollowMoves
  <1>3. pc' \in TaskLabels => local'.task \in CompletedFor(StartKey)'
    BY CompletedStays DEF Followed, ContinueFollowed, StartKey, Key
  <1>4. ContinueFollowed'
    BY <1>2, <1>3 DEF Followed, ContinueFollowed
  <1> QED
    BY <1>4, FollowedLate

\* Steps that leave the coordinator where it is.
LEMMA FollowedStays ==
  ASSUME Held, Followed, FollowMoves, UNCHANGED <<pc, local>>
  PROVE  Followed'
  <1>1. local.expected \in Nat /\ local.expected + 1 \in Nat /\ local.expected + 2 \in Nat
    BY LocalFacts
  <1>2. pc \in StageLabels => local.base.epoch \in Nat
    BY RunFacts DEF Held, LoadedOK
  <1>3. InterruptFollowed'
    BY <1>1, <1>2, AtExportStays, Labelled DEF Followed, InterruptFollowed, FollowMoves
  <1>4. ExportFollowed'
    BY <1>1, <1>2, AtExportStays, AtContinueStays, Labelled DEF Followed, ExportFollowed, FollowMoves
  <1>5. ContinueFollowed'
    <2>1. ASSUME pc \in ContinueLabels
          PROVE  AtContinue(run', local.expected, local.base.epoch)
      BY <1>1, <1>2, <2>1, AtContinueStays, Labelled DEF Followed, ContinueFollowed, FollowMoves
    <2>2. ASSUME pc \in TaskLabels
          PROVE  local'.task \in CompletedFor(StartKey)'
      BY <2>2, CompletedStays, Labelled DEF Followed, ContinueFollowed, StartKey, Key
    <2> QED
      BY <2>1, <2>2 DEF Followed, ContinueFollowed
  <1>6. \A g \in grants : g.task \in CompletedFor(StartKey) => g.task \in CompletedFor(StartKey)'
    BY CompletedStays DEF StartKey, Key
  <1>7. GrantsFollowed'
    BY <1>6, GrantsStay DEF Followed, GrantsFollowed, FollowMoves
  <1> QED
    BY <1>3, <1>4, <1>5, <1>7 DEF Followed, FollowMoves

-----------------------------------------------------------------------------
\* The interruption holds the second floor.

LEMMA ReadsOnly ==
  ASSUME Held, Followed, UNCHANGED <<disk, world>>
  PROVE  FollowMoves
  BY Quiet DEF disk, world

LEMMA InterruptIsFollowed == ASSUME Held, Followed, Interrupt PROVE Followed'
  <1>1. /\ FollowMoves /\ UNCHANGED run /\ pc \in InterruptLabels /\ ~local.replay
        /\ local \in Locals
    BY ReadsOnly DEF Interrupt, disk, InterruptLabels, Held, InterruptOK, TypeOK
  <1>2. CASE GiveUp
    BY <1>1, <1>2, FollowedDown DEF GiveUp, Continue, Goto
  <1>3. ASSUME NEW l \in {"intendInterrupt", "freeze"}, pc' = l, local'.base = run,
               IF local'.replay
               THEN /\ run.status = "HANDOFF_EXPORTING"
                    /\ run.state_version = local'.expected + 1
               ELSE run.state_version = local'.expected /\ run.status = "SOURCE_INTERRUPTING",
               local'.expected \in Nat
        PROVE  Followed'
    <2>1. local'.replay => AtExport(run', local'.expected + 1, local'.base.epoch)
      BY <1>1, <1>3, RunFacts, LeaseFacts DEF Held, AtExport
    <2>2. InterruptFollowed'
      BY <1>1, <1>3, <2>1 DEF InterruptFollowed
    <2>3. pc' \in InterruptLabels /\ ExportFollowed'
      BY <1>3 DEF InterruptLabels, ExportFollowed, ExportLabels
    <2> QED
      BY <1>1, <2>2, <2>3, FollowedEarly
  <1>4. ASSUME Remember("intendInterrupt", [local EXCEPT !.base = run, !.replay = TRUE]),
               run.status = "HANDOFF_EXPORTING", run.state_version = local.expected + 1
        PROVE  Followed'
    <2>1. /\ pc' = "intendInterrupt" /\ local'.base = run /\ local'.replay
          /\ local'.expected = local.expected /\ local.expected \in Nat
      BY <1>1, <1>4 DEF Remember, Goto, Locals
    <2> QED
      BY <1>3, <1>4, <2>1
  <1>5. ASSUME Remember("freeze", [local EXCEPT !.base = run]),
               run.state_version = local.expected, run.status = "SOURCE_INTERRUPTING"
        PROVE  Followed'
    <2>1. /\ pc' = "freeze" /\ local'.base = run /\ ~local'.replay
          /\ local'.expected = local.expected /\ local.expected \in Nat
      BY <1>1, <1>5 DEF Remember, Goto, Locals
    <2> QED
      BY <1>3, <1>5, <2>1
  <1> QED
    BY <1>2, <1>4, <1>5 DEF Interrupt

\* The steps that only change the label, the position or what is known.
LEMMA InsideIsFollowed ==
  ASSUME Held, Followed, FollowMoves, pc \in InterruptLabels \ {"interrupt"},
         \/ InterruptionFails
         \/ GiveUp
         \/ \E l \in InterruptLabels \ {"interrupt"} : Continue(l)
         \/ \E l \in InterruptLabels \ {"interrupt"}, p \in {"FROZEN", "ROTATED"} :
              Remember(l, [local EXCEPT !.position = p])
         \/ \E l \in InterruptLabels \ {"interrupt"}, known \in BOOLEAN :
              Remember(l, [local EXCEPT !.known = known])
  PROVE  Followed'
  <1>1. local \in Locals
    BY DEF Held, TypeOK
  <1>2. CASE pc' = "closeFailure"
    BY <1>2, FollowedDown
  <1>3. CASE pc' # "closeFailure"
    <2>1. pc' \in InterruptLabels \ {"interrupt"}
      BY <1>3 DEF InterruptionFails, GiveUp, Continue, Remember, Goto, InterruptLabels
    <2>2. local'.base = local.base /\ local'.expected = local.expected /\ local'.replay = local.replay
      BY <1>1, <1>3 DEF InterruptionFails, GiveUp, Continue, Remember, Goto, Locals
    <2> QED
      BY <2>1, <2>2, FollowedInside
  <1> QED
    BY <1>2, <1>3

LEMMA LeaseStepFollows ==
  ASSUME Held, Followed, UNCHANGED <<run, ledger, grants>>,
         UNCHANGED lease \/ FreezeWrites \/ RotateEpoch
  PROVE  FollowMoves
  <1>1. lease' \in Leases /\ lease'.epoch >= lease.epoch
    <2>1. CASE UNCHANGED lease
      BY <2>1, LeaseFacts DEF Held, TypeOK
    <2>2. CASE FreezeWrites
      <3>1. lease' \in Leases /\ lease'.epoch = lease.epoch
        BY <2>2 DEF Held, TypeOK, Leases, FreezeWrites
      <3> QED
        BY <3>1, LeaseFacts DEF Held
    <2>3. CASE RotateEpoch
      BY <2>3, LeaseFacts DEF Held, Leases, RotateEpoch
    <2> QED
      BY <2>1, <2>2, <2>3
  <1> QED
    BY <1>1, Quiet DEF LeaseGrows

LEMMA FreezeIsFollowed == ASSUME Held, Followed, Freeze PROVE Followed'
  <1>1. FollowMoves
    BY LeaseStepFollows DEF Freeze, GuardFails, world
  <1>2. {"freeze", "inspect", "intendInterrupt"} \subseteq InterruptLabels \ {"interrupt"}
    BY DEF InterruptLabels
  <1> QED
    BY <1>1, <1>2, InsideIsFollowed DEF Freeze

LEMMA InspectIsFollowed == ASSUME Held, Followed, Inspect PROVE Followed'
  <1>1. FollowMoves
    BY ReadsOnly DEF Inspect
  <1>2. {"inspect", "intendInterrupt"} \subseteq InterruptLabels \ {"interrupt"}
    BY DEF InterruptLabels
  <1>3. PersistedLeasePosition(local.base.epoch) \in {"FROZEN", "ROTATED", None}
    BY DEF PersistedLeasePosition
  <1> QED
    BY <1>1, <1>2, <1>3, InsideIsFollowed DEF Inspect

LEMMA IntendInterruptIsFollowed == ASSUME Held, Followed, IntendInterrupt PROVE Followed'
  <1>1. FollowMoves
    <2>1. UNCHANGED <<run, lease, grants>> /\ (Intended(InterruptKey) \/ IntentRefused(InterruptKey))
      BY DEF IntendInterrupt, world
    <2> QED
      BY <2>1, IntentFollows
  <1>2. {"intendInterrupt", "hostInterrupt"} \subseteq InterruptLabels \ {"interrupt"}
    BY DEF InterruptLabels
  <1>3. IsCompleted(InterruptKey) \in BOOLEAN
    BY DEF IsCompleted
  <1> QED
    BY <1>1, <1>2, <1>3, InsideIsFollowed DEF IntendInterrupt

\* At the entry of the export the Run is where the interruption took it.
LEMMA FollowedToExport ==
  ASSUME Held, Followed, FollowMoves, pc \in InterruptLabels, NEW v \in Nat, NEW r \in Runs,
         r.epoch >= 2, AtExport(run', v, r.epoch),
         Remember("export", [NoLocal EXCEPT !.expected = v, !.base = r])
  PROVE  Followed'
  <1>1. pc' = "export" /\ local'.expected = v /\ local'.base = r /\ ~local'.replay
    BY DEF Remember, Goto, NoLocal
  <1>2. ExportFollowed'
    BY <1>1 DEF ExportFollowed
  <1>3. InterruptFollowed' /\ pc' \in ExportLabels
    BY <1>1 DEF InterruptFollowed, InterruptLabels, ExportLabels
  <1> QED
    BY <1>2, <1>3, FollowedEarly

LEMMA HostInterruptIsFollowed == ASSUME Held, Followed, HostInterrupt PROVE Followed'
  <1>1. FollowMoves
    BY Quiet DEF HostInterrupt, disk
  <1>2. /\ pc = "hostInterrupt"
        /\ {"hostInterrupt", "completeInterrupt"} \subseteq InterruptLabels \ {"interrupt"}
    BY DEF HostInterrupt, InterruptLabels
  <1>3. ASSUME local.replay,
               Remember("export", [NoLocal EXCEPT !.expected = local.expected + 1, !.base = local.base])
        PROVE  Followed'
    <2>1. AtExport(run, local.expected + 1, local.base.epoch) /\ local.base.epoch >= 2
      BY <1>2, <1>3 DEF Followed, InterruptFollowed, Held, InterruptOK
    <2>2. local.base \in Runs /\ local.base.epoch \in Nat /\ local.expected + 1 \in Nat
      BY <1>2, InterruptFacts, LocalFacts
    <2>3. AtExport(run', local.expected + 1, local.base.epoch)
      BY <1>1, <1>3, <2>1, <2>2, AtExportStays, HostInterruptHolds DEF FollowMoves, HostInterrupt, disk, AtExport
    <2> QED
      BY <1>1, <1>2, <1>3, <2>1, <2>2, <2>3, FollowedToExport DEF HostInterrupt, disk, AtExport
  <1> QED
    BY <1>1, <1>2, <1>3, InsideIsFollowed DEF HostInterrupt

LEMMA CompleteInterruptIsFollowed == ASSUME Held, Followed, CompleteInterrupt PROVE Followed'
  <1>1. FollowMoves
    <2>1. Completed(InterruptKey, NoTask) \/ CompletionRefused(InterruptKey, NoTask)
            \/ CompletionFails \/ CompletionUnknown(InterruptKey, NoTask)
      BY DEF CompleteInterrupt
    <2>2. UNCHANGED <<run, lease, grants>>
      BY DEF CompleteInterrupt, world
    <2> QED
      BY <2>1, <2>2, CompletionFollows
  <1>2. {"completeInterrupt", "rotate", "commitInterrupt"} \subseteq InterruptLabels \ {"interrupt"}
    BY DEF InterruptLabels
  <1> QED
    BY <1>1, <1>2, InsideIsFollowed DEF CompleteInterrupt

LEMMA RotateIsFollowed == ASSUME Held, Followed, Rotate PROVE Followed'
  <1>1. FollowMoves
    BY LeaseStepFollows DEF Rotate, GuardFails, world
  <1>2. {"rotate", "commitInterrupt"} \subseteq InterruptLabels \ {"interrupt"}
    BY DEF InterruptLabels
  <1> QED
    BY <1>1, <1>2, InsideIsFollowed DEF Rotate

LEMMA InterruptedIsFollowed ==
  ASSUME Held, Followed, FollowMoves, pc \in InterruptLabels \ {"interrupt"}, Interrupted,
         run'.status = "HANDOFF_EXPORTING", run'.state_version = local.expected + 1,
         run'.epoch = local.base.epoch + 1
  PROVE  Followed'
  <1>1. /\ InterruptedRun \in Runs /\ InterruptedRun.epoch = local.base.epoch + 1
        /\ local.base.epoch + 1 >= 2 /\ local.expected + 1 \in Nat
    BY InterruptedType, InterruptFacts, LocalFacts
  <1>2. AtExport(run', local.expected + 1, InterruptedRun.epoch)
    BY <1>1 DEF AtExport, Interrupted, Remember
  <1> QED
    BY <1>1, <1>2, FollowedToExport DEF Interrupted

LEMMA CommitInterruptIsFollowed == ASSUME Held, Followed, CommitInterrupt PROVE Followed'
  <1>1. /\ pc = "commitInterrupt" /\ {"commitInterrupt", "checkInterrupt"} \subseteq InterruptLabels \ {"interrupt"}
        /\ ~local.replay
    BY DEF CommitInterrupt, InterruptLabels, Held, InterruptOK
  <1>2. local.base.status = "SOURCE_INTERRUPTING" /\ local.base.state_version = local.expected
    BY <1>1 DEF Followed, InterruptFollowed
  <1>3. local.base = run => FollowsRun(InterruptedRun)
    BY <1>2 DEF FollowsRun
  <1>4. FollowMoves
    BY <1>1, <1>3, CommitFollows, InterruptedType, InterruptFacts DEF CommitInterrupt, world
  <1>5. ASSUME Committed(InterruptedRun), Interrupted
        PROVE  Followed'
    <2>1. /\ run'.status = "HANDOFF_EXPORTING" /\ run'.state_version = local.expected + 1
          /\ run'.epoch = local.base.epoch + 1
      BY <1>1, <1>2, <1>5, InterruptedType DEF Committed, Runs
    <2> QED
      BY <1>1, <1>4, <1>5, <2>1, InterruptedIsFollowed
  <1> QED
    BY <1>1, <1>4, <1>5, InsideIsFollowed DEF CommitInterrupt

LEMMA CheckInterruptIsFollowed == ASSUME Held, Followed, CheckInterrupt PROVE Followed'
  <1>1. FollowMoves /\ UNCHANGED run /\ pc \in InterruptLabels \ {"interrupt"}
    BY ReadsOnly DEF CheckInterrupt, disk, InterruptLabels
  <1> QED
    BY <1>1, InterruptedIsFollowed, InsideIsFollowed DEF CheckInterrupt

LEMMA GaveUpFollows ==
  ASSUME Held, Followed, FollowMoves, GiveUp
  PROVE  Followed'
  BY FollowedDown DEF GiveUp, Continue, Goto

LEMMA FailInterruptIsFollowed == ASSUME Held, Followed, FailInterrupt PROVE Followed'
  <1>1. pc \in InterruptLabels \ {"interrupt"}
    BY DEF FailInterrupt, InterruptLabels
  <1>2. FollowMoves
    BY <1>1, NeedsUserFollows, CommitFollows, InterruptedType, InterruptFacts DEF FailInterrupt, world
  <1> QED
    BY <1>2, GaveUpFollows DEF FailInterrupt

-----------------------------------------------------------------------------
\* The handoff holds the second floor.

LEMMA ExportContinues ==
  ASSUME Held, Followed, FollowMoves, pc \in ExportLabels \ {"export"},
         NEW l \in ExportLabels \ {"export"}, Continue(l),
         pc \in {"claim", "checkClaim"} <=> l \in {"claim", "checkClaim"},
         local.replay => l \in {"intendExport", "awaitHandoff"}
  PROVE  Followed'
  BY FollowedExport DEF Continue, Goto

\* The Run is read, or was just claimed: the epoch is that of the export.
LEMMA FollowedLoad ==
  ASSUME Held, Followed, FollowMoves, pc \in ExportLabels, run' \in Runs,
         NEW l \in {"claim", "intendExport"}, NEW replay \in BOOLEAN, pc' = l,
         local'.base = run', local'.expected = local.expected, local'.replay = replay,
         l = "claim" => run'.state_version = local.expected /\ ~replay,
         l = "intendExport" /\ ~replay =>
           run'.state_version = local.expected + 1 /\ run'.status = "HANDOFF_EXPORTING",
         replay => run'.state_version = local.expected + 2 /\ run'.status = "CONTINUATION_STARTING"
  PROVE  Followed'
  <1>1. /\ local.expected \in Nat /\ local.base.epoch \in Nat /\ local.base.epoch >= 2
        /\ AtExport(run, local.expected, local.base.epoch)
    BY LocalFacts, RunFacts, Labelled DEF Followed, ExportFollowed, Held, LoadedOK
  <1>2. AtExport(run', local.expected, local.base.epoch)
    BY <1>1, AtExportStays DEF FollowMoves
  <1>3. run'.epoch = local.base.epoch /\ (l = "claim" => run'.status = "HANDOFF_EXPORTING")
    BY <1>1, <1>2, StatusKinds DEF AtExport
  <1>4. replay => AtContinue(run', local.expected + 2, run'.epoch)
    BY <1>1 DEF AtContinue
  <1>5. ExportFollowed'
    BY <1>1, <1>2, <1>3, <1>4 DEF ExportFollowed
  <1>6. InterruptFollowed' /\ pc' \in ExportLabels
    BY DEF InterruptFollowed, InterruptLabels, ExportLabels
  <1> QED
    BY <1>5, <1>6, FollowedEarly

LEMMA ExportHandoffIsFollowed == ASSUME Held, Followed, ExportHandoff PROVE Followed'
  <1>1. /\ FollowMoves /\ UNCHANGED run /\ pc = "export" /\ pc \in ExportLabels
        /\ local \in Locals /\ run \in Runs /\ ~local.replay
    BY ReadsOnly DEF ExportHandoff, disk, ExportLabels, Held, TypeOK, Followed, ExportFollowed
  <1>2. ASSUME Remember("intendExport", [local EXCEPT !.base = run, !.replay = TRUE]),
               run.status = "CONTINUATION_STARTING", run.state_version = local.expected + 2
        PROVE  Followed'
    <2>1. pc' = "intendExport" /\ local'.base = run /\ local'.expected = local.expected /\ local'.replay = TRUE
      BY <1>1, <1>2 DEF Remember, Goto, Locals
    <2> QED
      BY <1>1, <1>2, <2>1, FollowedLoad
  <1>3. ASSUME Remember("intendExport", [local EXCEPT !.base = run]), IsClaimed
        PROVE  Followed'
    <2>1. pc' = "intendExport" /\ local'.base = run /\ local'.expected = local.expected /\ local'.replay = FALSE
      BY <1>1, <1>3 DEF Remember, Goto, Locals
    <2> QED
      BY <1>1, <1>3, <2>1, FollowedLoad DEF IsClaimed
  <1>4. ASSUME Remember("claim", [local EXCEPT !.base = run]), run.state_version = local.expected
        PROVE  Followed'
    <2>1. pc' = "claim" /\ local'.base = run /\ local'.expected = local.expected /\ local'.replay = FALSE
      BY <1>1, <1>4 DEF Remember, Goto, Locals
    <2> QED
      BY <1>1, <1>4, <2>1, FollowedLoad
  <1> QED
    BY <1>1, <1>2, <1>3, <1>4, GaveUpFollows DEF ExportHandoff

\* What the labels of a stage say of the Run that was read.
LEMMA ExportFacts ==
  ASSUME Held, Followed, pc \in ExportLabels \ {"export"}
  PROVE  /\ pc \in (ExportLabels \cup ContinueLabels) \ Entries /\ pc \in LoadedLabels
         /\ local.base \in Runs /\ local \in Locals /\ local.base.epoch \in Nat /\ local.base.epoch >= 2
         /\ local.expected \in Nat
         /\ ~local.replay => local.base.status = "HANDOFF_EXPORTING"
         /\ ~local.replay /\ pc \notin {"claim", "checkClaim"} =>
              local.base.state_version = local.expected + 1
         /\ pc \in {"claim", "checkClaim"} => local.base.state_version = local.expected
         /\ pc \notin {"intendExport", "awaitHandoff"} => ~local.replay
  <1>1. pc \in (ExportLabels \cup ContinueLabels) \ Entries
    BY DEF ExportLabels, Entries
  <1> QED
    BY <1>1, LaterFacts DEF Followed, ExportFollowed

LEMMA ClaimAttemptIsFollowed == ASSUME Held, Followed, ClaimAttempt PROVE Followed'
  <1> DEFINE claimed == [local.base EXCEPT !.attempted = TRUE]
  <1>1. /\ pc = "claim" /\ pc \in ExportLabels \ {"export"}
        /\ "checkClaim" \in ExportLabels \ {"export"}
    BY DEF ClaimAttempt, ExportLabels
  <1>2. /\ ~local.replay /\ local.base.status = "HANDOFF_EXPORTING"
        /\ local.base.state_version = local.expected /\ local.base \in Runs
    BY <1>1, ExportFacts
  <1>3. /\ claimed \in Runs /\ claimed.status = local.base.status /\ claimed.epoch = local.base.epoch
        /\ claimed.state_version = local.base.state_version
    BY <1>2 DEF Runs
  <1>4. local.base = run => FollowsRun(claimed)
    BY <1>2, <1>3, StatusKinds DEF FollowsRun
  <1>5. Committed(claimed) \/ Stale \/ PersistFailed(claimed)
    BY DEF ClaimAttempt
  <1>6. FollowMoves
    BY <1>1, <1>3, <1>4, <1>5, CommitFollows, ExportFacts DEF ClaimAttempt, world
  <1>7. ASSUME Committed(claimed), Remember("intendExport", [local EXCEPT !.base = run'])
        PROVE  Followed'
    <2>1. local.base.state_version + 1 \in Nat
      BY <1>2, RunFacts
    <2>2. /\ run' \in Runs /\ run'.state_version = local.expected + 1
          /\ run'.status = "HANDOFF_EXPORTING"
      BY <1>2, <1>3, <1>7, <2>1 DEF Committed, Runs
    <2>3. /\ pc' = "intendExport" /\ local'.base = run' /\ local'.expected = local.expected
          /\ local'.replay = FALSE
      BY <1>1, <1>2, <1>7, ExportFacts DEF Remember, Goto, Locals
    <2> QED
      BY <1>1, <1>6, <2>2, <2>3, FollowedLoad
  <1> QED
    BY <1>1, <1>2, <1>6, <1>7, ExportContinues, GaveUpFollows DEF ClaimAttempt

LEMMA CheckClaimIsFollowed == ASSUME Held, Followed, CheckClaim PROVE Followed'
  <1>1. /\ FollowMoves /\ UNCHANGED run /\ pc \in ExportLabels \ {"export"} /\ pc = "checkClaim"
        /\ run \in Runs
    BY ReadsOnly DEF CheckClaim, disk, ExportLabels, Held, TypeOK
  <1>2. ASSUME IsClaimed, Remember("intendExport", [local EXCEPT !.base = run])
        PROVE  Followed'
    <2>1. pc' = "intendExport" /\ local'.base = run /\ local'.expected = local.expected /\ local'.replay = FALSE
      BY <1>1, <1>2, ExportFacts DEF Remember, Goto, Locals
    <2> QED
      BY <1>1, <1>2, <2>1, FollowedLoad DEF IsClaimed
  <1> QED
    BY <1>1, <1>2, GaveUpFollows DEF CheckClaim

LEMMA IntendExportIsFollowed == ASSUME Held, Followed, IntendExport PROVE Followed'
  <1>1. /\ pc = "intendExport" /\ pc \in ExportLabels \ {"export"}
        /\ {"launch", "awaitHandoff"} \subseteq ExportLabels \ {"export"}
    BY DEF IntendExport, ExportLabels
  <1>2. FollowMoves
    <2>1. UNCHANGED <<run, lease, grants>> /\ (Intended(ExportKey) \/ IntentRefused(ExportKey))
      BY DEF IntendExport, world
    <2> QED
      BY <2>1, IntentFollows
  <1> DEFINE l == [local EXCEPT !.known = IsCompleted(ExportKey)]
  <1>3. /\ l.base = local.base /\ l.expected = local.expected /\ l.replay = local.replay /\ l \in Locals
    BY <1>1, ExportFacts DEF Locals, IsCompleted
  <1>4. CASE ~local.replay /\ Remember("launch", l)
    BY <1>1, <1>2, <1>3, <1>4, FollowedExport DEF Remember, Goto
  <1>5. CASE local.replay /\ Remember("awaitHandoff", [l EXCEPT !.task = l.base.compression])
    <2>1. /\ local'.base = local.base /\ local'.expected = local.expected /\ local'.replay = local.replay
          /\ pc' = "awaitHandoff"
      BY <1>3, <1>5 DEF Remember, Goto, Locals
    <2> QED
      BY <1>1, <1>2, <1>5, <2>1, FollowedExport
  <1> QED
    BY <1>2, <1>3, <1>4, <1>5, GaveUpFollows DEF IntendExport

LEMMA LaunchCompressionIsFollowed == ASSUME Held, Followed, LaunchCompression PROVE Followed'
  <1>1. /\ pc = "launch" /\ pc \in ExportLabels \ {"export"}
        /\ {"awaitHandoff", "failExport"} \subseteq ExportLabels \ {"export"}
    BY DEF LaunchCompression, ExportLabels
  <1>2. FollowMoves /\ ~local.replay
    BY <1>1, Quiet, ExportFacts DEF LaunchCompression, disk
  <1>3. ASSUME NEW t, Remember("awaitHandoff", [local EXCEPT !.task = t])
        PROVE  Followed'
    <2>1. /\ local'.base = local.base /\ local'.expected = local.expected /\ local'.replay = local.replay
          /\ pc' = "awaitHandoff"
      BY <1>1, <1>3, ExportFacts DEF Remember, Goto, Locals
    <2> QED
      BY <1>1, <1>2, <2>1, FollowedExport
  <1> QED
    BY <1>1, <1>2, <1>3, ExportContinues DEF LaunchCompression

\* At the entry of the continuation the Run is where the export took it.
LEMMA FollowedToContinue ==
  ASSUME Held, Followed, FollowMoves, pc \in ExportLabels, NEW v \in Nat, NEW r \in Runs,
         r.epoch >= 2, AtContinue(run', v, r.epoch),
         Remember("continue", [NoLocal EXCEPT !.expected = v, !.base = r])
  PROVE  Followed'
  <1>1. pc' = "continue" /\ local'.expected = v /\ local'.base = r /\ ~local'.replay
    BY DEF Remember, Goto, NoLocal
  <1>2. ContinueFollowed' /\ pc' \in ContinueLabels
    BY <1>1 DEF ContinueFollowed, ContinueLabels, TaskLabels
  <1> QED
    BY <1>2, FollowedLate

LEMMA AwaitHandoffIsFollowed == ASSUME Held, Followed, AwaitHandoff PROVE Followed'
  <1>1. /\ pc = "awaitHandoff" /\ pc \in ExportLabels \ {"export"}
        /\ {"completeExport", "failExport"} \subseteq ExportLabels \ {"export"}
    BY DEF AwaitHandoff, ExportLabels
  <1>2. FollowMoves
    BY Quiet DEF AwaitHandoff, disk
  <1>3. ASSUME local.replay,
               Remember("continue", [NoLocal EXCEPT !.expected = local.expected + 2, !.base = local.base])
        PROVE  Followed'
    <2>1. AtContinue(run, local.expected + 2, local.base.epoch)
      BY <1>1, <1>3 DEF Followed, ExportFollowed
    <2>2. /\ local.base \in Runs /\ local.base.epoch \in Nat /\ local.base.epoch >= 2
          /\ local.expected + 2 \in Nat
      BY <1>1, ExportFacts
    <2>3. AtContinue(run', local.expected + 2, local.base.epoch)
      BY <2>1 DEF AwaitHandoff, disk, AtContinue
    <2> QED
      BY <1>1, <1>2, <1>3, <2>2, <2>3, FollowedToContinue DEF AtContinue
  <1> QED
    BY <1>1, <1>2, <1>3, ExportContinues, GaveUpFollows DEF AwaitHandoff

LEMMA CompleteExportIsFollowed == ASSUME Held, Followed, CompleteExport PROVE Followed'
  <1>1. /\ pc = "completeExport" /\ pc \in ExportLabels \ {"export"}
        /\ {"commitExport", "failExport"} \subseteq ExportLabels \ {"export"}
    BY DEF CompleteExport, ExportLabels
  <1>2. FollowMoves /\ ~local.replay
    <2>1. Completed(ExportKey, local.task) \/ CompletionRefused(ExportKey, local.task)
            \/ CompletionFails \/ CompletionUnknown(ExportKey, local.task)
      BY DEF CompleteExport
    <2>2. UNCHANGED <<run, lease, grants>>
      BY DEF CompleteExport, world
    <2> QED
      BY <1>1, <2>1, <2>2, CompletionFollows, ExportFacts
  <1> QED
    BY <1>1, <1>2, ExportContinues DEF CompleteExport

LEMMA ExportedIsFollowed ==
  ASSUME Held, Followed, FollowMoves, pc \in ExportLabels \ {"export"}, Exported,
         run'.status = "CONTINUATION_STARTING", run'.state_version = local.expected + 2,
         run'.epoch = local.base.epoch
  PROVE  Followed'
  <1>1. /\ ExportedRun \in Runs /\ ExportedRun.epoch = local.base.epoch
        /\ local.base.epoch >= 2 /\ local.expected + 2 \in Nat
    BY ExportedType, ExportFacts
  <1>2. AtContinue(run', local.expected + 2, ExportedRun.epoch)
    BY <1>1 DEF AtContinue
  <1> QED
    BY <1>1, <1>2, FollowedToContinue DEF Exported

LEMMA CommitExportIsFollowed == ASSUME Held, Followed, CommitExport PROVE Followed'
  <1>1. /\ pc = "commitExport" /\ {"commitExport", "checkExport"} \subseteq ExportLabels \ {"export"}
    BY DEF CommitExport, ExportLabels
  <1>2. /\ ~local.replay /\ local.base.status = "HANDOFF_EXPORTING"
        /\ local.base.state_version = local.expected + 1
    BY <1>1, ExportFacts
  <1>3. local.base = run => FollowsRun(ExportedRun)
    BY <1>1, <1>2, ExportedType, ExportFacts DEF FollowsRun
  <1>4. FollowMoves
    BY <1>1, <1>3, CommitFollows, ExportedType, ExportFacts DEF CommitExport, world
  <1>5. ASSUME Committed(ExportedRun), Exported
        PROVE  Followed'
    <2>1. ExportedRun \in Runs /\ ExportedRun.status = "CONTINUATION_STARTING"
          /\ ExportedRun.epoch = local.base.epoch
      BY <1>1, ExportedType, ExportFacts
    <2>2. /\ run'.status = "CONTINUATION_STARTING" /\ run'.state_version = local.expected + 2
          /\ run'.epoch = local.base.epoch
      BY <1>1, <1>2, <1>5, <2>1, ExportFacts DEF Committed, Runs
    <2> QED
      BY <1>1, <1>4, <1>5, <2>2, ExportedIsFollowed
  <1> QED
    BY <1>1, <1>2, <1>4, <1>5, ExportContinues DEF CommitExport

LEMMA CheckExportIsFollowed == ASSUME Held, Followed, CheckExport PROVE Followed'
  <1>1. FollowMoves /\ UNCHANGED run /\ pc = "checkExport" /\ pc \in ExportLabels \ {"export"}
    BY ReadsOnly DEF CheckExport, disk, ExportLabels
  <1>2. ASSUME run.status = "CONTINUATION_STARTING", run.state_version = local.expected + 2
        PROVE  run.epoch = local.base.epoch
    BY <1>1, <1>2, ExportFacts DEF Followed, ExportFollowed, AtExport
  <1> QED
    BY <1>1, <1>2, ExportedIsFollowed, GaveUpFollows DEF CheckExport

LEMMA FailExportIsFollowed == ASSUME Held, Followed, FailExport PROVE Followed'
  <1>1. pc \in ExportLabels \ {"export"}
    BY DEF FailExport, ExportLabels
  <1>2. FollowMoves
    BY <1>1, NeedsUserFollows, CommitFollows, ExportedType, ExportFacts DEF FailExport, world
  <1> QED
    BY <1>2, GaveUpFollows DEF FailExport

-----------------------------------------------------------------------------
\* The continuation holds the second floor.

\* What the labels of the continuation say, once the Run was read.
LEMMA ContinueFacts ==
  ASSUME Held, Followed, pc \in ActiveLabels
  PROVE  /\ pc \in (ExportLabels \cup ContinueLabels) \ Entries /\ pc \in LoadedLabels
         /\ pc \in ContinueLabels \ {"continue"}
         /\ local.base \in Runs /\ local \in Locals /\ local.base.epoch \in Nat /\ local.base.epoch >= 2
         /\ local.expected \in Nat /\ local.base.epoch <= run.epoch
         /\ ~local.replay => /\ local.base.status = "CONTINUATION_STARTING"
                             /\ local.base.state_version = local.expected
         /\ pc \in {"commitContinuation", "checkContinuation",
                    "loadFailed", "freezeFailed", "failContinuation"} => ~local.replay
         /\ pc \in TaskLabels => local.task \in CompletedFor(StartKey)
  BY ActiveIsLater, LaterFacts DEF ActiveLabels, Followed, ContinueFollowed

Failing == {"commitContinuation", "checkContinuation", "loadFailed", "freezeFailed", "failContinuation"}

LEMMA ContinueContinues ==
  ASSUME Held, Followed, FollowMoves, pc \in ActiveLabels, NEW l \in ActiveLabels, Continue(l),
         local.replay => l \notin Failing, l \in TaskLabels => pc \in TaskLabels
  PROVE  Followed'
  BY FollowedContinue DEF Continue, Goto, ActiveLabels, Failing

LEMMA FailureIsFollowed ==
  ASSUME Held, Followed, FollowMoves, pc \in ActiveLabels, ContinuationFails
  PROVE  Followed'
  <1>1. "loadFailed" \in ActiveLabels /\ "loadFailed" \notin TaskLabels
    BY DEF ActiveLabels, ContinueLabels, TaskLabels
  <1> QED
    BY <1>1, ContinueContinues, GaveUpFollows DEF ContinuationFails, GiveUp

LEMMA ContinueFromHandoffIsFollowed == ASSUME Held, Followed, ContinueFromHandoff PROVE Followed'
  <1>1. /\ FollowMoves /\ UNCHANGED run /\ pc \in ContinueLabels /\ local \in Locals /\ run \in Runs
        /\ pc = "continue" /\ "assertFirst" \in ContinueLabels /\ "assertFirst" \notin TaskLabels
    BY ReadsOnly DEF ContinueFromHandoff, disk, ContinueLabels, TaskLabels, Held, TypeOK
  <1>2. /\ AtContinue(run, local.expected, local.base.epoch) /\ local.base.epoch >= 2 /\ ~local.replay
        /\ local.expected \in Nat
    BY <1>1, LocalFacts DEF Followed, ContinueFollowed
  <1>3. ASSUME NEW replay \in BOOLEAN, pc' = "assertFirst", local'.base = run,
               local'.expected = local.expected, local'.replay = replay,
               run.state_version = IF replay THEN local.expected + 1 ELSE local.expected,
               replay => run.status = "SLICE_RUNNING"
        PROVE  Followed'
    <2>1. run.epoch = local.base.epoch /\ (~replay => run.status = "CONTINUATION_STARTING")
      BY <1>2, <1>3 DEF AtContinue
    <2>2. ContinueFollowed'
      BY <1>1, <1>2, <1>3, <2>1 DEF ContinueFollowed
    <2> QED
      BY <1>1, <1>3, <2>1, <2>2, FollowedLate
  <1>4. ASSUME Remember("assertFirst", [local EXCEPT !.base = run, !.replay = TRUE]),
               run.status = "SLICE_RUNNING", run.state_version = local.expected + 1
        PROVE  Followed'
    <2>1. /\ pc' = "assertFirst" /\ local'.base = run /\ local'.expected = local.expected
          /\ local'.replay = TRUE
      BY <1>1, <1>4 DEF Remember, Goto, Locals
    <2> QED
      BY <1>3, <1>4, <2>1
  <1>5. ASSUME Remember("assertFirst", [local EXCEPT !.base = run]), run.state_version = local.expected
        PROVE  Followed'
    <2>1. /\ pc' = "assertFirst" /\ local'.base = run /\ local'.expected = local.expected
          /\ local'.replay = FALSE
      BY <1>1, <1>2, <1>5 DEF Remember, Goto, Locals
    <2> QED
      BY <1>3, <1>5, <2>1
  <1> QED
    BY <1>1, <1>4, <1>5, GaveUpFollows DEF ContinueFromHandoff

LEMMA AssertLeaseIsFollowed == ASSUME Held, Followed, AssertLease PROVE Followed'
  <1>1. pc \in {"assertFirst", "assertBefore", "assertAfter"} /\ FollowMoves
    BY ReadsOnly DEF AssertLease, AfterAssert
  <1>2. pc \in ActiveLabels
    BY <1>1 DEF ActiveLabels, ContinueLabels, TaskLabels
  <1>3. AfterAssert[pc] = CASE pc = "assertFirst" -> "intendStart"
                            [] pc = "assertBefore" -> "intendGrant"
                            [] OTHER -> "intendProgress"
    BY <1>1 DEF AfterAssert
  <1>4. /\ AfterAssert[pc] \in ActiveLabels /\ AfterAssert[pc] \notin Failing
        /\ AfterAssert[pc] \in TaskLabels => pc \in TaskLabels
    BY <1>1, <1>3 DEF ActiveLabels, ContinueLabels, TaskLabels, Failing
  <1> QED
    BY <1>1, <1>2, <1>4, ContinueContinues, FailureIsFollowed DEF AssertLease

LEMMA AppendIsFollowed ==
  ASSUME Held, Followed, NEW label \in ActiveLabels, NEW k, NEW next \in ActiveLabels \ Failing,
         NEW mayBeGranted \in BOOLEAN, AppendEffect(label, k, next, mayBeGranted),
         next \in TaskLabels => label \in TaskLabels
  PROVE  Followed'
  <1>1. pc = label /\ UNCHANGED <<run, lease, grants>> /\ (Intended(k) \/ IntentRefused(k))
    BY DEF AppendEffect, world
  <1>2. FollowMoves
    BY <1>1, IntentFollows
  <1>3. ASSUME Remember(next, [local EXCEPT !.known = IsCompleted(k), !.granted = @ \/ mayBeGranted])
        PROVE  Followed'
    <2>1. /\ pc' = next /\ local'.base = local.base /\ local'.task = local.task
          /\ local'.expected = local.expected /\ local'.replay = local.replay
      BY <1>3 DEF Remember, Goto, Locals, Held, TypeOK
    <2> QED
      BY <1>1, <1>2, <2>1, FollowedContinue DEF ActiveLabels, Failing
  <1> QED
    BY <1>1, <1>2, <1>3, FailureIsFollowed DEF AppendEffect

LEMMA IntendIsFollowed ==
  ASSUME Held, Followed, IntendStart \/ IntendGrant \/ IntendProgress
  PROVE  Followed'
  <1>1. {"intendStart", "startTask", "intendGrant", "grantWrite", "intendProgress", "awaitProgress"}
          \subseteq ActiveLabels \ Failing
    BY DEF ActiveLabels, ContinueLabels, TaskLabels, Failing
  <1>2. {"intendGrant", "intendProgress"} \subseteq TaskLabels /\ "startTask" \notin TaskLabels
    BY DEF TaskLabels
  <1>3. CASE IntendStart
    BY <1>1, <1>2, <1>3, AppendIsFollowed DEF IntendStart
  <1>4. CASE IntendGrant
    BY <1>1, <1>2, <1>4, AppendIsFollowed DEF IntendGrant
  <1>5. CASE IntendProgress
    BY <1>1, <1>2, <1>5, AppendIsFollowed DEF IntendProgress
  <1> QED
    BY <1>3, <1>4, <1>5

LEMMA StartTaskIsFollowed == ASSUME Held, Followed, StartTask PROVE Followed'
  <1>1. /\ pc = "startTask" /\ pc \in ActiveLabels /\ "completeStart" \in ActiveLabels \ Failing
        /\ "completeStart" \notin TaskLabels
    BY DEF StartTask, ActiveLabels, ContinueLabels, TaskLabels, Failing
  <1>2. FollowMoves
    BY Quiet DEF StartTask, disk
  <1>3. ASSUME NEW t, Ready(t)
        PROVE  Followed'
    <2>1. ASSUME Remember("completeStart", [local EXCEPT !.task = t])
          PROVE  Followed'
      <3>1. /\ pc' = "completeStart" /\ local'.base = local.base
            /\ local'.expected = local.expected /\ local'.replay = local.replay
        BY <2>1 DEF Remember, Goto, Locals, Held, TypeOK
      <3> QED
        BY <1>1, <1>2, <3>1, FollowedContinue DEF ActiveLabels, Failing
    <2> QED
      BY <1>1, <1>2, <1>3, <2>1, FailureIsFollowed DEF Ready
  <1> QED
    BY <1>1, <1>2, <1>3, FailureIsFollowed DEF StartTask

\* The grant is for the one task of the start effect, with the one epoch.
LEMMA GrantWriteIsFollowed == ASSUME Held, Followed, GrantWrite PROVE Followed'
  <1> DEFINE grant == [task |-> local.task, epoch |-> local.base.epoch]
  <1>1. /\ pc = "grantWrite" /\ pc \in ActiveLabels /\ pc \in TaskLabels
        /\ "completeGrant" \in ActiveLabels \ Failing
        /\ "loadFailed" \in ActiveLabels /\ "loadFailed" \notin TaskLabels
    BY DEF GrantWrite, ActiveLabels, ContinueLabels, TaskLabels, Failing
  <1>2. UNCHANGED <<run, lease, ledger>> /\ grants' \in {grants, grants \cup {grant}}
    BY DEF GrantWrite, disk
  <1>3. CASE grants' = grants
    <2>1. FollowMoves
      BY <1>2, <1>3, Quiet
    <2> QED
      BY <1>1, <2>1, ContinueContinues, FailureIsFollowed DEF GrantWrite
  <1>4. CASE grants' = grants \cup {grant}
    <2>1. local.base.epoch <= lease.epoch
      BY <1>1, ContinueFacts, RunFacts, LeaseFacts DEF Held, EpochsAgree
    <2>2. \A g \in grants' : g.epoch <= lease'.epoch
      BY <1>2, <1>4, <2>1 DEF Followed, GrantsFollowed
    <2>3. \A g \in grants' :
            \/ g.task = Source
            \/ g.task \in CompletedFor(StartKey) /\ g.epoch = local.base.epoch
      BY <1>1, <1>4, ContinueFacts DEF Followed, GrantsFollowed
    <2>4. UNCHANGED local /\ pc' \in {"completeGrant", "loadFailed", "closeFailure"}
          /\ (local.replay => pc' # "loadFailed")
      BY DEF GrantWrite, ContinuationFails, Continue, Goto
    <2>5. CASE pc' = "closeFailure"
      <3>1. pc' \notin {"idle"} \cup InterruptLabels \cup ExportLabels \cup ContinueLabels
        BY <2>5 DEF InterruptLabels, ExportLabels, ContinueLabels, TaskLabels
      <3> QED
        BY <1>2, <2>2, <3>1
        DEF Followed, InterruptFollowed, ExportFollowed, ContinueFollowed, GrantsFollowed, CompletedOnce
    <2>6. CASE pc' # "closeFailure"
      <3>1. pc' \in ActiveLabels /\ pc' \in ContinueLabels \ {"continue"}
            /\ (local.replay => pc' \notin Failing)
        BY <1>1, <2>4, <2>6 DEF ActiveLabels, Failing
      <3>2. pc' \notin {"idle"} \cup InterruptLabels \cup ExportLabels
        BY <3>1, Labelled DEF ContinueLabels, TaskLabels
      <3>3. CompletedFor(StartKey)' = CompletedFor(StartKey)
        BY <1>2, <2>4 DEF CompletedFor, StartKey, Key
      <3>4. ContinueFollowed'
        BY <1>1, <1>2, <2>4, <3>1, <3>3, ContinueFacts DEF Followed, ContinueFollowed, Failing
      <3> QED
        BY <1>2, <2>2, <2>3, <2>4, <3>2, <3>3, <3>4
        DEF Followed, InterruptFollowed, ExportFollowed, GrantsFollowed, CompletedOnce
    <2> QED
      BY <2>5, <2>6
  <1> QED
    BY <1>2, <1>3, <1>4

LEMMA AwaitProgressIsFollowed == ASSUME Held, Followed, AwaitProgress PROVE Followed'
  <1>1. /\ pc = "awaitProgress" /\ pc \in ActiveLabels /\ pc \in TaskLabels
        /\ "completeProgress" \in ActiveLabels \ Failing
    BY DEF AwaitProgress, ActiveLabels, ContinueLabels, TaskLabels, Failing
  <1>2. FollowMoves
    BY Quiet DEF AwaitProgress, disk
  <1> QED
    BY <1>1, <1>2, ContinueContinues, FailureIsFollowed DEF AwaitProgress

LEMMA CompleteIsFollowed ==
  ASSUME Held, Followed, NEW label \in TaskLabels \cup {"completeStart"}, NEW k, NEW next \in TaskLabels,
         CompleteEffect(label, k, next), local.replay => next \notin Failing,
         label = "completeStart" => k = StartKey
  PROVE  Followed'
  <1>1. pc = label /\ pc \in ActiveLabels /\ next \in ActiveLabels
    BY DEF CompleteEffect, ActiveLabels, ContinueLabels, TaskLabels
  <1>2. UNCHANGED <<run, lease, grants>>
    BY DEF CompleteEffect, world
  <1>3. Completed(k, local.task) \/ CompletionRefused(k, local.task)
          \/ CompletionFails \/ CompletionUnknown(k, local.task)
    BY DEF CompleteEffect
  <1>4. FollowMoves
    BY <1>2, <1>3, CompletionFollows
  <1>5. ASSUME Completed(k, local.task), Continue(next)
        PROVE  Followed'
    <2>1. pc' = next /\ local' = local
      BY <1>5 DEF Continue, Goto
    <2>2. label = "completeStart" => local.task \in CompletedFor(StartKey)'
      <3>1. ASSUME NEW key, Completed(key, local.task)
            PROVE  [key |-> key, task |-> local.task] \in ledger'.completed
        BY <3>1 DEF Completed, Complete, Held, TypeOK
      <3>2. label = "completeStart" => [key |-> StartKey, task |-> local.task] \in ledger'.completed
        BY <1>5, <3>1
      <3>3. StartKey' = StartKey
        BY <2>1 DEF StartKey, Key
      <3> QED
        BY <3>2, <3>3 DEF CompletedFor
    <2> QED
      BY <1>1, <1>4, <2>1, <2>2, FollowedContinue DEF ActiveLabels, Failing
  <1> QED
    BY <1>1, <1>4, <1>5, FailureIsFollowed DEF CompleteEffect

LEMMA CompletesAreFollowed ==
  ASSUME Held, Followed, CompleteStart \/ CompleteGrant \/ CompleteProgress
  PROVE  Followed'
  <1>1. {"completeGrant", "completeProgress", "assertBefore", "assertAfter", "checkResumed",
         "commitContinuation"} \subseteq TaskLabels
    BY DEF TaskLabels
  <1>2. {"assertBefore", "assertAfter", "checkResumed"} \cap Failing = {}
    BY DEF Failing
  <1> QED
    BY <1>1, <1>2, CompleteIsFollowed DEF CompleteStart, CompleteGrant, CompleteProgress

LEMMA CommitContinuationIsFollowed == ASSUME Held, Followed, CommitContinuation PROVE Followed'
  <1>1. /\ pc = "commitContinuation" /\ pc \in ActiveLabels /\ pc \in TaskLabels
        /\ {"checkResumed", "checkContinuation"} \subseteq ActiveLabels
    BY DEF CommitContinuation, ActiveLabels, ContinueLabels, TaskLabels
  <1>2. /\ ~local.replay /\ local.base.status = "CONTINUATION_STARTING"
        /\ ContinuedRun \in Runs /\ ContinuedRun.epoch = local.base.epoch
        /\ ContinuedRun.status = "SLICE_RUNNING"
    BY <1>1, ContinueFacts, ContinuedType DEF Held, StageOK
  <1>3. local.base = run => FollowsRun(ContinuedRun)
    BY <1>2 DEF FollowsRun
  <1>4. FollowMoves
    BY <1>1, <1>2, <1>3, CommitFollows, ContinueFacts DEF CommitContinuation, world
  <1> QED
    BY <1>1, <1>2, <1>4, ContinueContinues DEF CommitContinuation

LEMMA CheckContinuationIsFollowed == ASSUME Held, Followed, CheckContinuation PROVE Followed'
  <1>1. /\ pc = "checkContinuation" /\ pc \in ActiveLabels /\ pc \in TaskLabels
        /\ {"checkResumed", "loadFailed"} \subseteq ActiveLabels
    BY DEF CheckContinuation, ActiveLabels, ContinueLabels, TaskLabels
  <1>2. FollowMoves /\ ~local.replay
    BY <1>1, ReadsOnly, ContinueFacts DEF CheckContinuation
  <1> QED
    BY <1>1, <1>2, ContinueContinues DEF CheckContinuation

LEMMA LoadFailedIsFollowed == ASSUME Held, Followed, LoadFailed PROVE Followed'
  <1>1. /\ pc = "loadFailed" /\ pc \in ActiveLabels
        /\ {"freezeFailed", "failContinuation"} \subseteq ActiveLabels \ TaskLabels
    BY DEF LoadFailed, ActiveLabels, ContinueLabels, TaskLabels
  <1>2. FollowMoves /\ ~local.replay
    BY <1>1, ReadsOnly, ContinueFacts DEF LoadFailed
  <1> QED
    BY <1>1, <1>2, ContinueContinues, GaveUpFollows DEF LoadFailed

LEMMA FreezeFailedIsFollowed == ASSUME Held, Followed, FreezeFailed PROVE Followed'
  <1>1. /\ pc = "freezeFailed" /\ pc \in ActiveLabels
        /\ "failContinuation" \in ActiveLabels \ TaskLabels
    BY DEF FreezeFailed, ActiveLabels, ContinueLabels, TaskLabels
  <1>2. FollowMoves /\ ~local.replay
    BY <1>1, LeaseStepFollows, ContinueFacts DEF FreezeFailed, GuardFails, world
  <1>3. ASSUME Remember("failContinuation", [local EXCEPT !.unfrozen = TRUE])
        PROVE  Followed'
    <2>1. /\ pc' = "failContinuation" /\ local'.base = local.base
          /\ local'.expected = local.expected /\ local'.replay = local.replay
      BY <1>3 DEF Remember, Goto, Locals, Held, TypeOK
    <2> QED
      BY <1>1, <1>2, <2>1, FollowedContinue DEF ActiveLabels
  <1> QED
    BY <1>1, <1>2, <1>3, ContinueContinues DEF FreezeFailed

LEMMA FailContinuationIsFollowed == ASSUME Held, Followed, FailContinuation PROVE Followed'
  <1>1. pc \in ActiveLabels
    BY DEF FailContinuation, ActiveLabels, ContinueLabels
  <1>2. FollowMoves
    BY <1>1, NeedsUserFollows, CommitFollows, ContinuedType, ContinueFacts DEF FailContinuation, world
  <1> QED
    BY <1>2, GaveUpFollows DEF FailContinuation

-----------------------------------------------------------------------------
\* The rest of the relay, and what happens around it, hold the second floor.

LEMMA BeginRelayIsFollowed == ASSUME Held, Followed, BeginRelay PROVE Followed'
  <1>1. FollowMoves /\ pc = "idle"
    BY ReadsOnly DEF BeginRelay
  <1>2. ASSUME pc' = "interrupt"
        PROVE  Followed'
    <2>1. InterruptFollowed' /\ ExportFollowed' /\ pc' \in InterruptLabels
      BY <1>2 DEF InterruptFollowed, ExportFollowed, InterruptLabels, ExportLabels
    <2> QED
      BY <1>1, <2>1, FollowedEarly
  <1> QED
    BY <1>1, <1>2, GaveUpFollows DEF BeginRelay, Remember, Goto

LEMMA CheckResumedIsFollowed == ASSUME Held, Followed, CheckResumed PROVE Followed'
  BY ReadsOnly, FollowedDown DEF CheckResumed, GiveUp, Forget, Continue, Remember, Goto

LEMMA CloseFailureIsFollowed == ASSUME Held, Followed, CloseFailure PROVE Followed'
  BY ReadsOnly, FollowedDown DEF CloseFailure, Forget, Remember, Goto

LEMMA CommitClosureIsFollowed == ASSUME Held, Followed, CommitClosure PROVE Followed'
  <1>1. /\ pc \in LoadedLabels /\ local.base \in Runs
        /\ local.base.status \notin {"NEEDS_USER", "ABORTED"}
    BY DEF CommitClosure, LoadedLabels, Held, LoadedOK
  <1>2. FollowMoves
    BY <1>1, NeedsUserFollows, ClosedType, CommitFollows DEF CommitClosure, world
  <1> QED
    BY <1>2, FollowedDown DEF CommitClosure, Forget, Remember, Goto

LEMMA LeaseOnlyIsFollowed ==
  ASSUME Held, Followed, UNCHANGED <<run, ledger, grants, pc, local>>,
         lease' \in Leases, lease'.epoch >= lease.epoch
  PROVE  Followed'
  BY Quiet, FollowedStays DEF LeaseGrows

LEMMA BeatIsFollowed == ASSUME Held, Followed, Beat PROVE Followed'
  <1>1. lease' \in {lease, [lease EXCEPT !.rotated = FALSE]}
    BY DEF Beat, RenewOrDispose
  <1>2. lease' \in Leases /\ lease'.epoch = lease.epoch
    BY <1>1 DEF Held, TypeOK, Leases
  <1> QED
    BY <1>2, LeaseFacts, LeaseOnlyIsFollowed DEF Beat, Held

LEMMA ExpireIsFollowed == ASSUME Held, Followed, Expire PROVE Followed'
  <1>1. lease' \in Leases /\ lease'.epoch = lease.epoch
    BY DEF Expire, Held, TypeOK, Leases
  <1> QED
    BY <1>1, LeaseFacts, LeaseOnlyIsFollowed DEF Expire, Held, world

LEMMA CommandsAreFollowed == ASSUME Held, Followed, Pause \/ Resume \/ Abort PROVE Followed'
  <1>1. UNCHANGED <<run, ledger, grants, pc, local>>
    BY DEF Pause, Resume, Abort, Command, world
  <1>2. CASE Abort
    <2>1. lease' \in Leases /\ lease'.epoch = lease.epoch
      BY <1>2 DEF Abort, Held, TypeOK, Leases
    <2> QED
      BY <1>1, <2>1, LeaseFacts, LeaseOnlyIsFollowed DEF Held
  <1>3. CASE Pause \/ Resume
    BY <1>1, <1>3, LeaseStepFollows, FollowedStays DEF Pause, Resume
  <1> QED
    BY <1>2, <1>3

LEMMA RunAgainIsFollowed == ASSUME Held, Followed, RunAgain PROVE Followed'
  <1>1. /\ run'.status = "NEEDS_USER" /\ run'.state_version = run.state_version + 1
    BY ClosedType, LeaseFacts DEF RunAgain, IsClosed, Held, Runs
  <1>2. RunFollows /\ UNCHANGED <<lease, ledger, grants>>
    BY <1>1, NeedsUserFollows DEF RunAgain, world, RunFollows
  <1>3. FollowMoves
    BY <1>2, LeaseFacts DEF FollowMoves, Held, Followed, CompletedOnce
  <1> QED
    BY <1>3, FollowedStays DEF RunAgain

LEMMA CommandCommitsIsFollowed == ASSUME Held, Followed, CommandCommits PROVE Followed'
  <1>1. RunFollows
    <2>1. ASSUME control.command # None, run.state_version = control.base.state_version,
                 run' = [Commanded EXCEPT !.state_version = @ + 1]
          PROVE  RunFollows
      <3>1. run = control.base
        BY <2>1 DEF Held, ControlOK, IsPast
      <3>2. /\ run'.status = Commanded.status /\ run'.epoch = Commanded.epoch
            /\ run'.resume_to = Commanded.resume_to /\ run'.state_version = run.state_version + 1
        BY <2>1, <3>1, CommandedFacts DEF Runs
      <3>3. /\ control.command \in {"pause", "resume", "abort"}
            /\ control.command = "pause" => run.status \in HeartbeatStatuses
            /\ control.command = "resume" => run.status = "PAUSED" /\ run.resume_to \in HeartbeatStatuses
        BY <2>1, <3>1 DEF Held, TypeOK, Controls, ControlOK, PausedWell
      <3>4. CASE control.command = "pause"
        BY <2>1, <3>1, <3>2, <3>3, <3>4, CommandedFacts, StatusKinds DEF RunFollows, FollowsRun
      <3>5. CASE control.command = "resume"
        BY <2>1, <3>1, <3>2, <3>3, <3>5, CommandedFacts, StatusKinds DEF RunFollows, FollowsRun
      <3>6. CASE control.command = "abort"
        BY <2>1, <3>1, <3>2, <3>3, <3>6, CommandedFacts, StatusKinds DEF RunFollows, FollowsRun
      <3> QED
        BY <3>3, <3>4, <3>5, <3>6
    <2> QED
      BY <2>1 DEF CommandCommits, RunFollows
  <1>2. FollowMoves
    BY <1>1, LeaseFacts DEF CommandCommits, world, FollowMoves, Held, Followed, CompletedOnce
  <1> QED
    BY <1>2, FollowedStays DEF CommandCommits

LEMMA CrashIsFollowed == ASSUME Held, Followed, Crash PROVE Followed'
  <1>1. pc \in StageLabels /\ StageOf(pc) \in Entries
    BY Labelled DEF Crash, Held, TypeOK, StageOf, Entries
  <1>2. /\ StageOf(pc) = "interrupt" <=> pc \in InterruptLabels
        /\ StageOf(pc) = "export" <=> pc \in ExportLabels
        /\ StageOf(pc) = "continue" => pc \in ContinueLabels
    BY <1>1, Labelled DEF StageOf, InterruptLabels, ExportLabels
  <1>3. FollowMoves /\ UNCHANGED run
    BY Quiet DEF Crash, disk
  <1>4. /\ pc' = StageOf(pc) /\ local'.expected = local.expected /\ ~local'.replay
        /\ pc \notin InterruptLabels => local'.base = local.base
    BY <1>2 DEF Crash, Remember, Goto, NoLocal
  <1>5. CASE pc \in InterruptLabels
    <2>1. InterruptFollowed' /\ ExportFollowed' /\ pc' \in InterruptLabels
      BY <1>2, <1>4, <1>5 DEF InterruptFollowed, ExportFollowed, InterruptLabels, ExportLabels
    <2> QED
      BY <1>3, <1>5, <2>1, FollowedEarly
  <1>6. CASE pc \in ExportLabels
    <2>1. pc' = "export" /\ local'.base = local.base
      BY <1>2, <1>4, <1>6, Labelled
    <2>2. ExportFollowed'
      BY <1>3, <1>4, <1>6, <2>1 DEF Followed, ExportFollowed
    <2>3. InterruptFollowed' /\ pc' \in ExportLabels
      BY <2>1 DEF InterruptFollowed, InterruptLabels, ExportLabels
    <2> QED
      BY <1>3, <1>6, <2>2, <2>3, FollowedEarly
  <1>7. CASE pc \in ContinueLabels
    <2>1. pc' = "continue" /\ local'.base = local.base
      BY <1>1, <1>2, <1>4, <1>7, Labelled DEF Entries
    <2>2. ContinueFollowed' /\ pc' \in ContinueLabels
      BY <1>3, <1>4, <1>7, <2>1 DEF Followed, ContinueFollowed, ContinueLabels, TaskLabels
    <2> QED
      BY <1>3, <1>4, <1>7, <2>1, <2>2, FollowedLate
  <1> QED
    BY <1>1, <1>5, <1>6, <1>7, Labelled

LEMMA InitFollowed == Init => Followed
  <1> SUFFICES ASSUME Init PROVE Followed
    OBVIOUS
  <1>1. pc = "idle" /\ pc \notin InterruptLabels \cup ExportLabels \cup ContinueLabels
    BY DEF Init, InterruptLabels, ExportLabels, ContinueLabels, TaskLabels
  <1> QED
    BY <1>1
    DEF Init, Followed, InterruptFollowed, ExportFollowed, ContinueFollowed, CompletedOnce, GrantsFollowed

LEMMA FollowedHolds == Held /\ Followed /\ [Next]_vars => Followed'
  <1> SUFFICES ASSUME Held, Followed, [Next]_vars PROVE Followed'
    OBVIOUS
  <1>1. CASE InterruptionNext
    BY <1>1, InterruptIsFollowed, FreezeIsFollowed, InspectIsFollowed, IntendInterruptIsFollowed,
       HostInterruptIsFollowed, CompleteInterruptIsFollowed, RotateIsFollowed, CommitInterruptIsFollowed,
       CheckInterruptIsFollowed, FailInterruptIsFollowed
    DEF InterruptionNext
  <1>2. CASE HandoffNext
    BY <1>2, ExportHandoffIsFollowed, ClaimAttemptIsFollowed, CheckClaimIsFollowed,
       IntendExportIsFollowed, LaunchCompressionIsFollowed, AwaitHandoffIsFollowed,
       CompleteExportIsFollowed, CommitExportIsFollowed, CheckExportIsFollowed, FailExportIsFollowed
    DEF HandoffNext
  <1>3. CASE ContinuationNext
    BY <1>3, ContinueFromHandoffIsFollowed, AssertLeaseIsFollowed, IntendIsFollowed,
       StartTaskIsFollowed, CompletesAreFollowed, GrantWriteIsFollowed, AwaitProgressIsFollowed,
       CommitContinuationIsFollowed, CheckContinuationIsFollowed, LoadFailedIsFollowed,
       FreezeFailedIsFollowed, FailContinuationIsFollowed
    DEF ContinuationNext
  <1>4. CASE BeginRelay \/ CheckResumed \/ CloseFailure \/ CommitClosure
    BY <1>4, BeginRelayIsFollowed, CheckResumedIsFollowed, CloseFailureIsFollowed,
       CommitClosureIsFollowed
  <1>5. CASE Beat \/ Crash \/ Expire \/ RunAgain \/ Pause \/ Resume \/ Abort \/ CommandCommits
    BY <1>5, BeatIsFollowed, CrashIsFollowed, ExpireIsFollowed, RunAgainIsFollowed,
       CommandsAreFollowed, CommandCommitsIsFollowed
  <1>6. CASE UNCHANGED vars
    BY <1>6, ReadsOnly, FollowedStays DEF vars
  <1> QED
    BY <1>1, <1>2, <1>3, <1>4, <1>5, <1>6 DEF Next, ControllerNext

-----------------------------------------------------------------------------
\* The right to write, as Handover promises it.

Parties == {Source} \cup TaskIds

LEMMA InitHandover == Init => HandoverOfWrites!Init
  <1> SUFFICES ASSUME Init
               PROVE  \A t \in Parties : Right(t) = IF t = Source THEN "held" ELSE "none"
    BY DEF HandoverOfWrites!Init, Parties
  <1> TAKE t \in Parties
  <1>1. grants = {[task |-> Source, epoch |-> 1]} /\ IsWritable(1)
    BY DEF Init, IsWritable, IsValid
  <1>2. \A g : g \in grants <=> g = [task |-> Source, epoch |-> 1]
    BY <1>1
  <1>3. \A h \in {g \in grants : IsWritable(g.epoch)} : h.task = Source
    BY <1>2
  <1>4. Source \in Writers
    <2>1. [task |-> Source, epoch |-> 1] \in {g \in grants : IsWritable(g.epoch)}
      BY <1>1
    <2> QED
      BY <2>1 DEF Writers
  <1>5. \A u \in Writers : u = Source
    BY <1>3 DEF Writers
  <1>6. CASE t = Source
    <2>1. Right(t) = "held"
      BY <1>4, <1>6 DEF Right
    <2> QED
      BY <1>6, <2>1
  <1>7. CASE t # Source
    <2>1. t \notin Writers /\ ~ \E g \in grants : g.task = t
      BY <1>2, <1>5, <1>7
    <2>2. Right(t) = "none"
      BY <2>1 DEF Right
    <2> QED
      BY <1>7, <2>2
  <1> QED
    BY <1>6, <1>7

LEMMA WriterFacts ==
  ASSUME Held, NEW t
  PROVE  t \in Writers <=>
           lease.status = "ACTIVE" /\ ~lease.expired /\ \E g \in grants : g.task = t /\ g.epoch = lease.epoch
  BY DEF Writers, IsWritable, IsValid, Held, TypeOK

\* A step that gives nobody a grant: the right stays, or everybody loses it.
LEMMA LeaseKeepsHandover ==
  ASSUME Held, Held', Followed, grants' = grants,
         \/ UNCHANGED lease
         \/ lease'.epoch = lease.epoch /\ lease'.status = lease.status /\ lease'.expired = lease.expired
         \/ lease'.status # "ACTIVE" \/ lease'.expired
         \/ lease.status # "ACTIVE" /\ lease'.epoch > lease.epoch
  PROVE  [HandoverOfWrites!Next]_[t \in Parties |-> Right(t)]
  <1> DEFINE right == [t \in Parties |-> Right(t)]
  <1>1. \A t \in Parties : right[t] = Right(t) /\ right'[t] = Right(t)'
    OBVIOUS
  <1>2. CASE \A t \in Parties : t \in Writers' <=> t \in Writers
    <2>1. \A t \in Parties : Right(t)' = Right(t)
      BY <1>2 DEF Right
    <2> QED
      BY <2>1
  <1>3. CASE \A t \in Parties : t \notin Writers'
    <2>1. \A t \in Parties : Right(t)' = IF Right(t) = "held" THEN "lost" ELSE Right(t)
      BY <1>3 DEF Right, Writers
    <2>2. CASE \E t \in Parties : right[t] = "held"
      BY <1>1, <2>1, <2>2 DEF HandoverOfWrites!Next, HandoverOfWrites!Take, HandoverOfWrites!Holders, Parties
    <2>3. CASE \A t \in Parties : right[t] # "held"
      <3>1. \A t \in Parties : Right(t)' = Right(t)
        BY <1>1, <2>1, <2>3
      <3> QED
        BY <3>1
    <2> QED
      BY <2>2, <2>3
  <1>4. CASE lease.status # "ACTIVE" /\ lease'.epoch > lease.epoch
    <2>1. \A t \in Parties : t \notin Writers
      BY <1>4, WriterFacts
    <2>2. \A g \in grants' : g.epoch # lease'.epoch
      BY <1>4, LeaseFacts DEF Followed, GrantsFollowed, Held, TypeOK
    <2>3. \A t \in Parties : t \notin Writers'
      BY <2>2 DEF Writers, IsWritable, IsValid
    <2> QED
      BY <1>2, <2>1, <2>3
  <1>5. CASE lease'.status # "ACTIVE" \/ lease'.expired
    <2>1. \A t \in Parties : t \notin Writers'
      BY <1>5 DEF Writers, IsWritable, IsValid, Held, TypeOK, Leases
    <2> QED
      BY <1>3, <2>1
  <1>6. CASE \/ UNCHANGED lease
             \/ lease'.epoch = lease.epoch /\ lease'.status = lease.status /\ lease'.expired = lease.expired
    <2>1. Writers' = Writers
      BY <1>6 DEF Writers, IsWritable, IsValid
    <2> QED
      BY <1>2, <2>1
  <1> QED
    BY <1>4, <1>5, <1>6

\* The only grant, to a task that never had one while nobody can write.
LEMMA GrantGives ==
  ASSUME Held, Held', Followed, pc = "grantWrite", UNCHANGED lease,
         NEW task \in TaskIds, task = local.task, NEW epoch \in Nat, epoch = local.base.epoch,
         [task |-> task, epoch |-> epoch] \notin grants,
         grants' = grants \cup {[task |-> task, epoch |-> epoch]}
  PROVE  [HandoverOfWrites!Next]_[t \in Parties |-> Right(t)]
  <1> DEFINE right == [t \in Parties |-> Right(t)]
             grant == [task |-> task, epoch |-> epoch]
  <1>1. pc \in ActiveLabels /\ pc \in TaskLabels /\ pc \in ContinueLabels
    BY DEF ActiveLabels, ContinueLabels, TaskLabels
  <1>2. task # Source /\ task \in Parties /\ task \in CompletedFor(StartKey) /\ epoch >= 2
    BY <1>1, Numbers, ContinueFacts DEF Parties
  <1>3. \A g \in grants : g.task = Source \/ (g.task = task /\ g.epoch = epoch)
    <2>1. \A t \in CompletedFor(StartKey) : t = task
      BY <1>2 DEF CompletedFor, Followed, CompletedOnce
    <2> QED
      BY <1>1, <2>1 DEF Followed, GrantsFollowed
  <1>4. \A g \in grants : g.task = Source /\ g.epoch = 1
    <2>1. \A g \in grants : g = [task |-> g.task, epoch |-> g.epoch]
      BY DEF Held, TypeOK
    <2> QED
      BY <1>3, <2>1 DEF Held, StageOK
  <1>5. Right(task) = "none"
    BY <1>2, <1>4 DEF Right, Writers
  <1>6. \A t \in Parties : t # task => Right(t)' = Right(t)
    <2>1. \A t \in Parties : t # task => (t \in Writers' <=> t \in Writers)
      BY DEF Writers, IsWritable, IsValid
    <2>2. \A t \in Parties : t # task => ((\E g \in grants' : g.task = t) <=> (\E g \in grants : g.task = t))
      OBVIOUS
    <2> QED
      BY <2>1, <2>2 DEF Right
  <1>7. \E g \in grants' : g.task = task
    OBVIOUS
  <1>8. CASE task \in Writers'
    <2>1. Right(task)' = "held"
      BY <1>8 DEF Right
    <2>2. IsWritable(epoch) /\ lease.epoch = epoch
      BY <1>2, <1>4, <1>8 DEF Writers, IsWritable, IsValid
    <2>3. \A t \in Parties : right[t] # "held"
      BY <1>2, <1>4, <2>2, WriterFacts DEF Right
    <2>4. right' = [right EXCEPT ![task] = "held"]
      BY <1>2, <1>6, <2>1
    <2>5. \A t \in {Source} \cup TaskIds : [u \in {Source} \cup TaskIds |-> Right(u)][t] # "held"
      BY <2>3 DEF Parties
    <2>6. HandoverOfWrites!Holders = {}
      BY <2>5 DEF HandoverOfWrites!Holders
    <2>7. HandoverOfWrites!Give(task)
      BY <1>2, <1>5, <2>4, <2>6 DEF HandoverOfWrites!Give, Parties
    <2> QED
      BY <1>2, <2>7 DEF HandoverOfWrites!Next, Parties
  <1>9. CASE task \notin Writers'
    <2>1. Right(task)' = "lost"
      BY <1>7, <1>9 DEF Right
    <2>2. right' = [right EXCEPT ![task] = "lost"]
      BY <1>2, <1>6, <2>1
    <2> QED
      BY <1>2, <1>5, <2>2
      DEF HandoverOfWrites!Next, HandoverOfWrites!Give, HandoverOfWrites!Holders, Parties
  <1> QED
    BY <1>8, <1>9

LEMMA GrantKeepsHandover ==
  ASSUME Held, Held', Followed, GrantWrite
  PROVE  [HandoverOfWrites!Next]_[t \in Parties |-> Right(t)]
  <1> DEFINE grant == [task |-> local.task, epoch |-> local.base.epoch]
  <1>1. /\ pc = "grantWrite" /\ UNCHANGED lease /\ grants' \in {grants, grants \cup {grant}}
        /\ pc \in ActiveLabels /\ pc \in TaskLabels
    BY DEF GrantWrite, disk, ActiveLabels, ContinueLabels, TaskLabels
  <1>2. local.task \in TaskIds /\ local.base.epoch \in Nat
    BY <1>1, ContinueFacts DEF Held, StageOK
  <1>3. CASE grants' = grants
    BY <1>1, <1>3, LeaseKeepsHandover
  <1>4. CASE grants' = grants \cup {grant} /\ grant \notin grants
    BY <1>1, <1>2, <1>4, GrantGives
  <1> QED
    BY <1>1, <1>3, <1>4

LEMMA NextKeepsHandover ==
  ASSUME Held, Held', Followed, [Next]_vars
  PROVE  [HandoverOfWrites!Next]_[t \in Parties |-> Right(t)]
  <1>1. CASE GrantWrite
    BY <1>1, GrantKeepsHandover
  <1>2. CASE grants' = grants /\ UNCHANGED lease
    BY <1>2, LeaseKeepsHandover
  <1>3. ASSUME grants' = grants, FreezeWrites \/ (lease.status = "FROZEN" /\ RotateEpoch)
        PROVE  [HandoverOfWrites!Next]_[t \in Parties |-> Right(t)]
    <2>1. CASE FreezeWrites
      BY <1>3, <2>1, LeaseKeepsHandover DEF FreezeWrites, Held, TypeOK, Leases
    <2>2. CASE lease.status = "FROZEN" /\ RotateEpoch
      BY <1>3, <2>2, LeaseFacts, LeaseKeepsHandover DEF RotateEpoch, Held
    <2> QED
      BY <1>3, <2>1, <2>2
  <1>4. CASE InterruptionNext
    BY <1>2, <1>3, <1>4
    DEF InterruptionNext, Interrupt, Freeze, Inspect, IntendInterrupt, HostInterrupt, CompleteInterrupt,
        Rotate, CommitInterrupt, CheckInterrupt, FailInterrupt, GuardFails, disk, world
  <1>5. CASE HandoffNext
    BY <1>2, <1>5
    DEF HandoffNext, ExportHandoff, ClaimAttempt, CheckClaim, IntendExport, LaunchCompression,
        AwaitHandoff, CompleteExport, CommitExport, CheckExport, FailExport, disk, world
  <1>6. CASE ContinuationNext
    BY <1>1, <1>2, <1>3, <1>6
    DEF ContinuationNext, ContinueFromHandoff, AssertLease, IntendStart, StartTask, CompleteStart,
        IntendGrant, CompleteGrant, IntendProgress, AwaitProgress, CompleteProgress,
        CommitContinuation, CheckContinuation, LoadFailed, FreezeFailed, FailContinuation,
        AppendEffect, CompleteEffect, GuardFails, disk, world
  <1>7. CASE BeginRelay \/ CheckResumed \/ CloseFailure \/ CommitClosure \/ Crash \/ RunAgain \/ CommandCommits
    BY <1>2, <1>7
    DEF BeginRelay, CheckResumed, CloseFailure, CommitClosure, Crash, RunAgain, CommandCommits, disk, world
  <1>8. CASE Beat
    <2>1. lease' \in {lease, [lease EXCEPT !.rotated = FALSE]} /\ grants' = grants
      BY <1>8 DEF Beat, RenewOrDispose
    <2> QED
      BY <2>1, LeaseKeepsHandover DEF Held, TypeOK, Leases
  <1>9. CASE Expire \/ Abort
    <2>1. grants' = grants /\ (lease'.expired \/ lease'.status = "RELEASED")
      BY <1>9 DEF Expire, Abort, Command, world, Held, TypeOK, Leases
    <2> QED
      BY <2>1, LeaseKeepsHandover
  <1>10. CASE Pause \/ Resume
    BY <1>2, <1>3, <1>10 DEF Pause, Resume, Command, world
  <1>11. CASE UNCHANGED vars
    BY <1>2, <1>11 DEF vars, disk, world
  <1> QED
    BY <1>4, <1>5, <1>6, <1>7, <1>8, <1>9, <1>10, <1>11 DEF Next, ControllerNext

\* The right to write passes from the source to one continuation at most, nobody gets
\* it while another has it, and who lost it never has it again: the relay, with all
\* that can happen around it, implements Handover.
THEOREM RelayImplementsHandover == Spec => ImplementsHandover
  <1>1. Spec => [](Held /\ Followed)
    BY InitHeld, HeldStays, InitFollowed, FollowedHolds, PTL DEF Spec
  <1>2. Held /\ Held' /\ Followed /\ [Next]_vars =>
          [HandoverOfWrites!Next]_[t \in {Source} \cup TaskIds |-> Right(t)]
    BY NextKeepsHandover DEF Parties
  <1> QED
    BY <1>1, <1>2, InitHandover, PTL DEF Spec, ImplementsHandover, HandoverOfWrites!Spec

-----------------------------------------------------------------------------
\* What the new source did before it is the Run's.

\* The continuation was granted, and the grant is recorded.
GrantRecorded ==
  {"assertAfter", "intendProgress", "awaitProgress", "completeProgress", "commitContinuation"}

Earned ==
  /\ pc \in {"completeGrant"} \cup GrantRecorded =>
       [task |-> local.task, epoch |-> local.base.epoch] \in grants
  /\ pc \in GrantRecorded => local.task \in CompletedFor(GrantKey)
  /\ pc = "commitContinuation" => local.task \in CompletedFor(ProgressKey)

\* No step takes back a grant or a completion.
NothingTakenBack == ledger.completed \subseteq ledger'.completed /\ grants \subseteq grants'

LEMMA LedgerGrows ==
  ASSUME Held, NEW k, NEW t,
         \/ UNCHANGED ledger
         \/ Intended(k) \/ IntentRefused(k)
         \/ Completed(k, t) \/ CompletionRefused(k, t) \/ CompletionFails \/ CompletionUnknown(k, t)
  PROVE  /\ ledger.completed \subseteq ledger'.completed
         /\ Completed(k, t) => t \in CompletedFor(k)'
  <1>1. Complete(k, t) => /\ ledger.completed \subseteq ledger'.completed
                          /\ [key |-> k, task |-> t] \in ledger'.completed
    BY DEF Complete, Held, TypeOK
  <1>2. Intended(k) \/ IntentRefused(k) => ledger.completed = ledger'.completed
    BY DEF Intended, IntentRefused, Held, TypeOK
  <1> QED
    BY <1>1, <1>2
    DEF Completed, CompletionRefused, CompletionFails, CompletionUnknown, CompletedFor

LEMMA GrantsGrow ==
  ASSUME [Next]_vars
  PROVE  grants \subseteq grants'
  <1>1. CASE InterruptionNext
    BY <1>1
    DEF InterruptionNext, Interrupt, Freeze, Inspect, IntendInterrupt, HostInterrupt, CompleteInterrupt,
        Rotate, CommitInterrupt, CheckInterrupt, FailInterrupt, world
  <1>2. CASE HandoffNext
    BY <1>2
    DEF HandoffNext, ExportHandoff, ClaimAttempt, CheckClaim, IntendExport, LaunchCompression,
        AwaitHandoff, CompleteExport, CommitExport, CheckExport, FailExport, world
  <1>3. CASE ContinuationNext
    BY <1>3
    DEF ContinuationNext, ContinueFromHandoff, AssertLease, IntendStart, StartTask, CompleteStart,
        IntendGrant, GrantWrite, CompleteGrant, IntendProgress, AwaitProgress, CompleteProgress,
        CommitContinuation, CheckContinuation, LoadFailed, FreezeFailed, FailContinuation,
        AppendEffect, CompleteEffect, world
  <1>4. CASE BeginRelay \/ CheckResumed \/ CloseFailure \/ CommitClosure \/ Crash \/ RunAgain
               \/ CommandCommits \/ Beat \/ Expire \/ Pause \/ Resume \/ Abort \/ UNCHANGED vars
    BY <1>4
    DEF BeginRelay, CheckResumed, CloseFailure, CommitClosure, Crash, RunAgain, CommandCommits, Beat,
        Expire, Pause, Resume, Abort, Command, world, vars
  <1> QED
    BY <1>1, <1>2, <1>3, <1>4 DEF Next, ControllerNext

LEMMA CompletionsGrow ==
  ASSUME Held, [Next]_vars
  PROVE  ledger.completed \subseteq ledger'.completed
  <1>1. UNCHANGED ledger => ledger.completed \subseteq ledger'.completed
    OBVIOUS
  <1>2. CASE InterruptionNext
    BY <1>1, <1>2, LedgerGrows
    DEF InterruptionNext, Interrupt, Freeze, Inspect, IntendInterrupt, HostInterrupt, CompleteInterrupt,
        Rotate, CommitInterrupt, CheckInterrupt, FailInterrupt, disk
  <1>3. CASE HandoffNext
    BY <1>1, <1>3, LedgerGrows
    DEF HandoffNext, ExportHandoff, ClaimAttempt, CheckClaim, IntendExport, LaunchCompression,
        AwaitHandoff, CompleteExport, CommitExport, CheckExport, FailExport, disk
  <1>4. CASE ContinuationNext
    BY <1>1, <1>4, LedgerGrows
    DEF ContinuationNext, ContinueFromHandoff, AssertLease, IntendStart, StartTask, CompleteStart,
        IntendGrant, GrantWrite, CompleteGrant, IntendProgress, AwaitProgress, CompleteProgress,
        CommitContinuation, CheckContinuation, LoadFailed, FreezeFailed, FailContinuation,
        AppendEffect, CompleteEffect, disk
  <1>5. CASE BeginRelay \/ CheckResumed \/ CloseFailure \/ CommitClosure \/ Crash \/ RunAgain
               \/ CommandCommits \/ Beat \/ Expire \/ Pause \/ Resume \/ Abort \/ UNCHANGED vars
    BY <1>1, <1>5
    DEF BeginRelay, CheckResumed, CloseFailure, CommitClosure, Crash, RunAgain, CommandCommits, Beat,
        Expire, Pause, Resume, Abort, Command, disk, vars
  <1> QED
    BY <1>2, <1>3, <1>4, <1>5 DEF Next, ControllerNext

\* What was earned stays so while the coordinator remembers the same.
LEMMA EarnedKept ==
  ASSUME Earned, NothingTakenBack,
         \/ pc' \notin {"completeGrant"} \cup GrantRecorded
         \/ /\ pc \in {"completeGrant"} \cup GrantRecorded
            /\ pc' \in GrantRecorded => pc \in GrantRecorded \/ local.task \in CompletedFor(GrantKey)'
            /\ pc' = "commitContinuation" =>
                 pc = "commitContinuation" \/ local.task \in CompletedFor(ProgressKey)'
            /\ local'.task = local.task /\ local'.expected = local.expected
            /\ local'.base = local.base
  PROVE  Earned'
  <1>1. \A k, t : t \in CompletedFor(k) => t \in CompletedFor(k)'
    BY DEF CompletedFor, NothingTakenBack
  <1>2. ASSUME local'.task = local.task, local'.expected = local.expected
        PROVE  /\ local.task \in CompletedFor(GrantKey) => local.task \in CompletedFor(GrantKey)'
               /\ local.task \in CompletedFor(ProgressKey) => local.task \in CompletedFor(ProgressKey)'
    BY <1>1, <1>2 DEF GrantKey, ProgressKey
  <1> QED
    BY <1>2 DEF Earned, NothingTakenBack, GrantRecorded

LEMMA EarnedStays == Held /\ Earned /\ [Next]_vars => Earned'
  <1> SUFFICES ASSUME Held, Earned, [Next]_vars PROVE Earned'
    OBVIOUS
  <1> DEFINE Late == {"completeGrant"} \cup GrantRecorded
  <1>1. NothingTakenBack
    BY GrantsGrow, CompletionsGrow DEF NothingTakenBack
  <1>2. CASE pc' \notin Late
    BY <1>1, <1>2, EarnedKept
  <1>3. CASE UNCHANGED <<pc, local>>
    BY <1>1, <1>3, EarnedKept
  <1>4. CASE InterruptionNext
    <2>1. pc' \in InterruptLabels \cup {"export", "closeFailure"}
      BY <1>4
      DEF InterruptionNext, Interrupt, Freeze, Inspect, IntendInterrupt, HostInterrupt, CompleteInterrupt,
          Rotate, CommitInterrupt, CheckInterrupt, FailInterrupt, InterruptionFails, Interrupted,
          GiveUp, Continue, Remember, Goto, InterruptLabels
    <2> QED
      BY <1>2, <2>1 DEF InterruptLabels, GrantRecorded
  <1>5. CASE HandoffNext
    <2>1. pc' \in ExportLabels \cup {"continue", "closeFailure"}
      BY <1>5
      DEF HandoffNext, ExportHandoff, ClaimAttempt, CheckClaim, IntendExport, LaunchCompression,
          AwaitHandoff, CompleteExport, CommitExport, CheckExport, FailExport, Exported,
          GiveUp, Continue, Remember, Goto, ExportLabels
    <2> QED
      BY <1>2, <2>1 DEF ExportLabels, GrantRecorded
  <1>6. CASE ContinueFromHandoff \/ IntendStart \/ StartTask \/ CompleteStart \/ IntendGrant
               \/ CommitContinuation \/ CheckContinuation \/ LoadFailed \/ FreezeFailed \/ FailContinuation
    <2>1. pc' \in {"assertFirst", "startTask", "completeStart", "assertBefore", "grantWrite",
                   "checkResumed", "checkContinuation", "loadFailed", "freezeFailed",
                   "failContinuation", "closeFailure"}
      BY <1>6
      DEF ContinueFromHandoff, IntendStart, StartTask, CompleteStart, IntendGrant,
          CommitContinuation, CheckContinuation, LoadFailed, FreezeFailed, FailContinuation, Ready,
          AppendEffect, CompleteEffect, ContinuationFails, GiveUp, Continue, Remember, Goto
    <2> QED
      BY <1>2, <2>1 DEF GrantRecorded
  <1>7. CASE AssertLease
    BY <1>1, <1>7, EarnedKept
    DEF AssertLease, AfterAssert, ContinuationFails, Continue, Goto, GrantRecorded
  <1>8. CASE GrantWrite
    <2>1. CASE pc' \in {"loadFailed", "closeFailure"}
      BY <1>2, <2>1 DEF GrantRecorded
    <2>2. CASE pc' = "completeGrant" /\ local' = local
      <3>1. [task |-> local.task, epoch |-> local.base.epoch] \in grants'
        BY <1>8, <2>2 DEF GrantWrite, ContinuationFails, Continue, Goto
      <3> QED
        BY <2>2, <3>1 DEF Earned, GrantRecorded
    <2> QED
      BY <1>8, <2>1, <2>2 DEF GrantWrite, ContinuationFails, Continue, Goto
  <1>9. CASE CompleteGrant
    <2>1. CASE pc' \in {"loadFailed", "closeFailure"}
      BY <1>2, <2>1 DEF GrantRecorded
    <2>2. CASE pc' = "assertAfter" /\ local' = local /\ Completed(GrantKey, local.task) /\ pc = "completeGrant"
      <3>1. local.task \in CompletedFor(GrantKey)'
        <4>1. \A k : Completed(k, local.task) => local.task \in CompletedFor(k)'
          BY LedgerGrows
        <4> QED
          BY <2>2, <4>1 DEF GrantKey
      <3> QED
        BY <1>1, <2>2, <3>1, EarnedKept DEF GrantRecorded
    <2> QED
      BY <1>9, <2>1, <2>2 DEF CompleteGrant, CompleteEffect, ContinuationFails, Continue, Goto
  <1>10. CASE IntendProgress
    <2>1. CASE pc' \in {"loadFailed", "closeFailure"}
      BY <1>2, <2>1 DEF GrantRecorded
    <2>2. CASE /\ pc = "intendProgress" /\ pc' = "awaitProgress" /\ local'.task = local.task
               /\ local'.expected = local.expected /\ local'.base = local.base
      BY <1>1, <2>2, EarnedKept DEF GrantRecorded
    <2>3. local \in Locals
      BY DEF Held, TypeOK
    <2> QED
      BY <1>10, <2>1, <2>2, <2>3
      DEF IntendProgress, AppendEffect, ContinuationFails, Continue, Remember, Goto, Locals
  <1>11. CASE AwaitProgress
    <2>1. CASE pc' \in {"loadFailed", "closeFailure"}
      BY <1>2, <2>1 DEF GrantRecorded
    <2>2. CASE pc = "awaitProgress" /\ pc' = "completeProgress" /\ local' = local
      BY <1>1, <2>2, EarnedKept DEF GrantRecorded
    <2> QED
      BY <1>11, <2>1, <2>2 DEF AwaitProgress, ContinuationFails, Continue, Goto
  <1>12. CASE CompleteProgress
    <2>1. CASE pc' \in {"loadFailed", "closeFailure", "checkResumed"}
      BY <1>2, <2>1 DEF GrantRecorded
    <2>2. CASE /\ pc' = "commitContinuation" /\ local' = local /\ pc = "completeProgress"
               /\ Completed(ProgressKey, local.task)
      <3>1. local.task \in CompletedFor(ProgressKey)'
        <4>1. \A k : Completed(k, local.task) => local.task \in CompletedFor(k)'
          BY LedgerGrows
        <4> QED
          BY <2>2, <4>1 DEF ProgressKey
      <3> QED
        BY <1>1, <2>2, <3>1, EarnedKept DEF GrantRecorded
    <2> QED
      BY <1>12, <2>1, <2>2 DEF CompleteProgress, CompleteEffect, ContinuationFails, Continue, Goto
  <1>13. CASE BeginRelay \/ CheckResumed \/ CloseFailure \/ CommitClosure \/ Crash
    <2>1. pc' \in {"interrupt", "export", "continue", "closeFailure", "commitClosure", "done"}
      BY <1>13
      DEF BeginRelay, CheckResumed, CloseFailure, CommitClosure, Crash, StageOf, Forget, GiveUp,
          Continue, Remember, Goto
    <2> QED
      BY <1>2, <2>1 DEF GrantRecorded
  <1>14. CASE RunAgain \/ CommandCommits \/ Beat \/ Expire \/ Pause \/ Resume \/ Abort \/ UNCHANGED vars
    BY <1>3, <1>14 DEF RunAgain, CommandCommits, Beat, Expire, Pause, Resume, Abort, Command, vars
  <1> QED
    BY <1>4, <1>5, <1>6, <1>7, <1>8, <1>9, <1>10, <1>11, <1>12, <1>13, <1>14
    DEF Next, ControllerNext, ContinuationNext


\* Who the Run's tasks are is changed by the commit of the continuation alone.
SameTasks == run'.source = run.source /\ run'.continuation = run.continuation

LEMMA CommitNames ==
  ASSUME Held, pc \in LoadedLabels, NEW next \in Runs,
         next.source = local.base.source, next.continuation = local.base.continuation,
         Committed(next) \/ Stale \/ PersistFailed(next)
  PROVE  SameTasks
  <1> DEFINE n == [next EXCEPT !.state_version = run.state_version + 1]
  <1>1. n.source = next.source /\ n.continuation = next.continuation
    BY DEF Runs
  <1>2. run.state_version = local.base.state_version => local.base = run
    BY DEF Held, LoadedOK, IsPast
  <1> QED
    BY <1>1, <1>2 DEF Committed, Stale, PersistFailed, SameTasks

LEMMA ClosedNames ==
  ASSUME NEW r \in Runs
  PROVE  Closed(r).source = r.source /\ Closed(r).continuation = r.continuation
  BY DEF Closed, Runs

LEMMA TasksKept ==
  ASSUME Held, [Next]_vars, ~CommitContinuation
  PROVE  SameTasks
  <1>1. CASE UNCHANGED run
    BY <1>1 DEF SameTasks
  <1>2. CASE InterruptionNext
    <2>1. CASE CommitInterrupt
      <3>1. pc \in InterruptLabels \ {"interrupt"}
        BY <2>1 DEF CommitInterrupt, InterruptLabels
      <3>2. pc \in LoadedLabels /\ local.base \in Runs
        BY <2>1 DEF CommitInterrupt, LoadedLabels, StageLabels, InterruptLabels, Entries, Held, LoadedOK
      <3>3. /\ InterruptedRun \in Runs /\ InterruptedRun.source = local.base.source
            /\ InterruptedRun.continuation = local.base.continuation
        <4>1. InterruptedRun \in Runs
          BY <3>1, InterruptedType
        <4> QED
          BY <3>2, <4>1 DEF InterruptedRun, Runs
      <3> QED
        BY <2>1, <3>2, <3>3, CommitNames DEF CommitInterrupt
    <2>2. CASE FailInterrupt
      <3>1. pc \in InterruptLabels \ {"interrupt"}
        BY <2>2 DEF FailInterrupt, InterruptLabels
      <3>2. pc \in LoadedLabels /\ local.base \in Runs
        BY <2>2 DEF FailInterrupt, LoadedLabels, StageLabels, InterruptLabels, Entries, Held, LoadedOK
      <3>3. /\ FailedInterruption \in Runs /\ FailedInterruption.source = local.base.source
            /\ FailedInterruption.continuation = local.base.continuation
        <4>1. FailedInterruption \in Runs
          BY <3>1, InterruptedType
        <4> QED
          BY <3>2, <4>1 DEF FailedInterruption, Runs
      <3> QED
        BY <2>2, <3>2, <3>3, CommitNames DEF FailInterrupt
    <2> QED
      BY <1>1, <1>2, <2>1, <2>2
      DEF InterruptionNext, Interrupt, Freeze, Inspect, IntendInterrupt, HostInterrupt, CompleteInterrupt,
          Rotate, CheckInterrupt, disk
  <1>3. CASE HandoffNext
    <2>1. CASE ClaimAttempt
      <3>1. pc \in LoadedLabels /\ local.base \in Runs
        BY <2>1 DEF ClaimAttempt, LoadedLabels, StageLabels, ExportLabels, Entries, Held, LoadedOK
      <3> DEFINE claimed == [local.base EXCEPT !.attempted = TRUE]
      <3>2. /\ claimed \in Runs /\ claimed.source = local.base.source
            /\ claimed.continuation = local.base.continuation
        BY <3>1 DEF Runs
      <3>3. Committed(claimed) \/ Stale \/ PersistFailed(claimed)
        BY <2>1 DEF ClaimAttempt
      <3> QED
        BY <3>1, <3>2, <3>3, CommitNames
    <2>2. CASE CommitExport
      <3>1. pc \in LoadedLabels /\ local.base \in Runs /\ local.task \in TaskIds \cup {NoTask}
        BY <2>2, LocalFacts DEF CommitExport, LoadedLabels, StageLabels, ExportLabels, Entries, Held, LoadedOK
      <3>2. /\ ExportedRun \in Runs /\ ExportedRun.source = local.base.source
            /\ ExportedRun.continuation = local.base.continuation
        BY <3>1 DEF ExportedRun, Runs, Statuses, RelayStatuses
      <3> QED
        BY <2>2, <3>1, <3>2, CommitNames DEF CommitExport
    <2>3. CASE FailExport
      <3>1. pc \in LoadedLabels /\ local.base \in Runs
        BY <2>3 DEF FailExport, LoadedLabels, StageLabels, ExportLabels, Entries, Held, LoadedOK
      <3>2. /\ FailedExport \in Runs /\ FailedExport.source = local.base.source
            /\ FailedExport.continuation = local.base.continuation
        BY <3>1 DEF FailedExport, Runs, Statuses, RelayStatuses
      <3> QED
        BY <2>3, <3>1, <3>2, CommitNames DEF FailExport
    <2> QED
      BY <1>1, <1>3, <2>1, <2>2, <2>3
      DEF HandoffNext, ExportHandoff, CheckClaim, IntendExport, LaunchCompression,
          AwaitHandoff, CompleteExport, CheckExport, disk
  <1>4. CASE ContinuationNext
    <2>1. CASE FailContinuation
      <3>1. pc \in LoadedLabels /\ local.base \in Runs /\ local \in Locals
        BY <2>1 DEF FailContinuation, LoadedLabels, StageLabels, ContinueLabels, Entries, Held, LoadedOK, TypeOK
      <3>2. /\ FailedContinuation \in Runs /\ FailedContinuation.source = local.base.source
            /\ FailedContinuation.continuation = local.base.continuation
        BY <3>1 DEF FailedContinuation, Runs, Statuses, RelayStatuses, Locals
      <3> QED
        BY <2>1, <3>1, <3>2, CommitNames DEF FailContinuation
    <2> QED
      BY <1>1, <1>4, <2>1
      DEF ContinuationNext, ContinueFromHandoff, AssertLease, IntendStart, StartTask, CompleteStart,
          IntendGrant, GrantWrite, CompleteGrant, IntendProgress, AwaitProgress, CompleteProgress,
          CheckContinuation, LoadFailed, FreezeFailed, AppendEffect, CompleteEffect, disk
  <1>5. CASE CommitClosure
    <2>1. pc \in LoadedLabels /\ local.base \in Runs /\ local.base.status \notin {"NEEDS_USER", "ABORTED"}
      BY <1>5 DEF CommitClosure, LoadedLabels, Held, LoadedOK
    <2>2. /\ Closed(local.base) \in Runs /\ Closed(local.base).source = local.base.source
          /\ Closed(local.base).continuation = local.base.continuation
      BY <2>1, ClosedType, ClosedNames
    <2> QED
      BY <1>5, <2>1, <2>2, CommitNames DEF CommitClosure
  <1>6. CASE RunAgain
    <2>1. run \in Runs /\ run.status \notin {"NEEDS_USER", "ABORTED"}
      BY <1>6 DEF RunAgain, IsClosed, Held, TypeOK
    <2>2. Closed(run) \in Runs /\ run' = [Closed(run) EXCEPT !.state_version = @ + 1]
      BY <1>6, <2>1, ClosedType DEF RunAgain
    <2>3. run'.source = Closed(run).source /\ run'.continuation = Closed(run).continuation
      BY <2>2 DEF Runs
    <2> QED
      BY <2>1, <2>3, ClosedNames DEF SameTasks
  <1>7. CASE CommandCommits
    <2>1. CASE UNCHANGED run
      BY <1>1, <2>1
    <2>2. CASE /\ control.command # None /\ run.state_version = control.base.state_version
               /\ run' = [Commanded EXCEPT !.state_version = @ + 1]
      <3>1. run = control.base /\ control.command \in {"pause", "resume", "abort"}
        BY <2>2 DEF Held, ControlOK, IsPast, TypeOK, Controls
      <3>2. Commanded.source = run.source /\ Commanded.continuation = run.continuation /\ Commanded \in Runs
        BY <2>2, <3>1, CommandedFacts DEF Commanded, Held, TypeOK, Runs
      <3> QED
        BY <2>2, <3>2 DEF SameTasks, Runs
    <2> QED
      BY <1>7, <2>1, <2>2 DEF CommandCommits
  <1>8. CASE BeginRelay \/ CheckResumed \/ CloseFailure \/ Crash \/ Beat \/ Expire \/ Pause \/ Resume
             \/ Abort \/ UNCHANGED vars
    BY <1>1, <1>8
    DEF BeginRelay, CheckResumed, CloseFailure, Crash, Beat, Expire, Pause, Resume, Abort, Command, disk, vars
  <1> QED
    BY <1>2, <1>3, <1>4, <1>5, <1>6, <1>7, <1>8 DEF Next, ControllerNext

LEMMA CommitIsEarned ==
  ASSUME Held, Followed, Earned, CommitContinuation, run'.source # run.source
  PROVE  run.status = "CONTINUATION_STARTING" /\ IsEarned(run'.source)
  <1>1. pc = "commitContinuation" /\ pc \in ActiveLabels /\ pc \in TaskLabels /\ local.task \in TaskIds
    BY DEF CommitContinuation, ActiveLabels, ContinueLabels, TaskLabels, Held, StageOK
  <1>2. /\ local.base \in Runs /\ ~local.replay /\ local.base.status = "CONTINUATION_STARTING"
        /\ local.base.state_version = local.expected /\ local.task \in CompletedFor(StartKey)
        /\ IsPast(local.base)
    BY <1>1, ContinueFacts DEF Held, LoadedOK
  <1>3. ContinuedRun \in Runs /\ ContinuedRun.source = local.task
    BY <1>1, <1>2 DEF ContinuedRun, Runs, Statuses
  <1>4. /\ run.state_version = local.base.state_version
        /\ run' = [ContinuedRun EXCEPT !.state_version = run.state_version + 1]
    BY DEF CommitContinuation, Committed, Stale, PersistFailed
  <1>5. run = local.base /\ run'.source = local.task
    BY <1>2, <1>3, <1>4 DEF IsPast, Runs
  <1>6. /\ local.task \in CompletedFor(GrantKey) /\ local.task \in CompletedFor(ProgressKey)
        /\ [task |-> local.task, epoch |-> local.base.epoch] \in grants
    BY <1>1 DEF Earned, GrantRecorded
  <1> QED
    BY <1>2, <1>5, <1>6 DEF IsEarned, StartKey, GrantKey, ProgressKey

\* The Run names a new source only in the step that takes it out of
\* CONTINUATION_STARTING, and only a task that proved ready, was granted the Run's
\* epoch and made progress, each with its receipt in the ledger: after any crashes,
\* replays, commands and failed writes.
THEOREM RelaySuccessIsEarned == Spec => SuccessIsEarned
  <1>1. Init => Earned
    BY DEF Init, Earned, GrantRecorded
  <1>2. Spec => [](Held /\ Followed /\ Earned)
    BY <1>1, InitHeld, HeldStays, InitFollowed, FollowedHolds, EarnedStays, PTL DEF Spec
  <1>3. Held /\ Followed /\ Earned /\ [Next]_vars =>
          (run'.source # run.source => run.status = "CONTINUATION_STARTING" /\ IsEarned(run'.source))
    BY TasksKept, CommitIsEarned DEF SameTasks
  <1> QED
    BY <1>2, <1>3, PTL DEF Spec, SuccessIsEarned


-----------------------------------------------------------------------------
\* A relay that one disturbance made fail leaves no continuation able to write.

EndLabels == {"closeFailure", "commitClosure", "done"}
EarlyLabels == {"idle", "continue"} \cup InterruptLabels \cup ExportLabels

\* No grant is intended yet...
UngrantedLabels ==
  {"continue", "assertFirst", "intendStart", "startTask", "completeStart", "assertBefore", "intendGrant"}

\* ... and from here on it may have occurred.
GrantedLabels ==
  {"grantWrite", "completeGrant", "assertAfter", "intendProgress", "awaitProgress",
   "completeProgress", "commitContinuation"}

Undisturbed == Happened("any") = 0
OnlySourceGranted == \A g \in grants : g.task = Source

\* Nobody but the coordinator changed the Run or took the host away, unless that
\* was the one disturbance; and the Run is closed by the end of the relay only.
RunIsOurs ==
  /\ run.status = "NEEDS_USER" => pc \in EndLabels
  /\ control.command # "resume"
  /\ Undisturbed => control.command = None /\ run.status # "PAUSED" /\ process.connected
  /\ pc \in EarlyLabels => run.continuation = NoTask
  /\ pc \in ActiveLabels => run.state_version = local.expected \/ run.status \notin RelayStatuses
  /\ pc = "checkResumed" => run.status \notin RelayStatuses

\* The continuation is not replayed, and knows whether a grant may have occurred.
GrantIsKnown ==
  /\ pc \in ContinueLabels => ~local.replay
  /\ pc \in UngrantedLabels => ~local.granted
  /\ pc \in ContinueLabels /\ ~local.granted => OnlySourceGranted
  /\ pc \in GrantedLabels => local.granted

\* It fails after the grant because of the disturbance, so that no other can keep it
\* from freezing the lease.
FailureIsDisturbed ==
  /\ pc \in (UngrantedLabels \ {"continue"}) \cup GrantedLabels /\ Undisturbed =>
       run.state_version = local.expected
  /\ pc \in {"intendGrant"} \cup GrantedLabels /\ Undisturbed => IsWritable(local.base.epoch)
  /\ pc \in {"checkContinuation", "freezeFailed"} => ~Undisturbed
  /\ pc = "loadFailed" /\ local.granted => ~Undisturbed

RelayIsOver ==
  /\ run.status \notin RelayStatuses
  /\ run.status = "NEEDS_USER" => run.resume_to \notin RelayStatuses

FailureIsHarmless ==
  /\ pc = "failContinuation" => Writers \subseteq {Source}
  /\ pc \in EndLabels => Writers \subseteq {Source} \/ RelayIsOver

\* An effect on a task is completed for that task.
CompletedForItsTask ==
  \A c \in ledger.completed :
    c.key.action \in {"grant_continuation_write", "observe_continuation_progress"} => c.task = c.key.task

Counted == \A d \in Disturbances : left[d] <= Budget[d]

Calm == RunIsOurs /\ GrantIsKnown /\ FailureIsDisturbed /\ FailureIsHarmless

Contained == Counted /\ CompletedForItsTask /\ (OneFault => Calm)

-----------------------------------------------------------------------------
\* Counting disturbances.

Steady == UNCHANGED left \/ \E d \in Disturbances \ {"any"} : Happens(d)

LEMMA HappensCounts ==
  ASSUME TypeOK, NEW d \in Disturbances \ {"any"}, Happens(d)
  PROVE  /\ left'["any"] = left["any"] - 1 /\ left'[d] = left[d] - 1
         /\ \A e \in Disturbances : left'[e] <= left[e]
  <1>1. "any" \in Disturbances /\ left \in [Disturbances -> Nat]
    BY DEF Disturbances, TypeOK
  <1>2. left' = [left EXCEPT ![d] = left[d] - 1, !["any"] = left["any"] - 1]
    BY DEF Happens
  <1>3. /\ left'["any"] = left["any"] - 1 /\ left'[d] = left[d] - 1
        /\ \A e \in Disturbances \ {d, "any"} : left'[e] = left[e]
    BY <1>1, <1>2
  <1>4. \A e \in Disturbances : left[e] \in Nat
    BY <1>1
  <1> QED
    BY <1>1, <1>3, <1>4

LEMMA CountedStays ==
  ASSUME TypeOK, TypeOK', Counted, Steady
  PROVE  Counted'
  <1>1. \A e \in Disturbances : left'[e] <= left[e] /\ left[e] \in Nat /\ left'[e] \in Nat /\ Budget[e] \in Nat
    BY HappensCounts, BudgetAssumption DEF Steady, TypeOK
  <1> QED
    BY <1>1 DEF Counted

\* A disturbance is the first, and neither a crash nor a second execution.
LEMMA FirstDisturbance ==
  ASSUME TypeOK, TypeOK', Counted, OneFault', NEW d \in Disturbances \ {"any"}, Happens(d)
  PROVE  OneFault /\ Undisturbed /\ ~Undisturbed' /\ d \notin {"crash", "again"}
  <1>1. {"any", "crash", "again"} \subseteq Disturbances
    BY DEF Disturbances
  <1>2. \A e \in Disturbances : left[e] \in Nat /\ left'[e] \in Nat /\ Budget[e] \in Nat /\ left[e] <= Budget[e]
    BY BudgetAssumption DEF TypeOK, Counted
  <1>3. /\ left'["any"] = left["any"] - 1 /\ left'[d] = left[d] - 1
        /\ \A e \in Disturbances : left'[e] <= left[e]
    BY HappensCounts
  <1>4. /\ Budget["any"] - left'["any"] <= 1
        /\ Budget["crash"] - left'["crash"] = 0 /\ Budget["again"] - left'["again"] = 0
    BY DEF OneFault, Happened
  <1>5. ASSUME NEW e \in {"any", "crash", "again"}
        PROVE  /\ left[e] \in Nat /\ left'[e] \in Nat /\ Budget[e] \in Nat
               /\ left[e] <= Budget[e] /\ left'[e] <= left[e]
    BY <1>1, <1>2, <1>3
  <1>6. Budget["any"] - left["any"] = 0 /\ Budget["any"] - left'["any"] # 0
    <2>1. /\ left["any"] \in Nat /\ left'["any"] \in Nat /\ Budget["any"] \in Nat
          /\ left["any"] <= Budget["any"]
      BY <1>5
    <2> QED
      BY <1>3, <1>4, <2>1
  <1>7. ASSUME NEW e \in {"crash", "again"}
        PROVE  Budget[e] - left[e] = 0 /\ left[e] = left'[e] /\ d # e
    <2>1. /\ left[e] \in Nat /\ left'[e] \in Nat /\ Budget[e] \in Nat
          /\ left[e] <= Budget[e] /\ left'[e] <= left[e]
      BY <1>5
    <2>2. Budget[e] - left'[e] = 0
      BY <1>4
    <2>3. Budget[e] - left[e] = 0 /\ left[e] = left'[e]
      BY <2>1, <2>2
    <2>4. left'[d] # left[d]
      BY <1>2, <1>3
    <2> QED
      BY <2>3, <2>4
  <1> QED
    BY <1>6, <1>7 DEF OneFault, Happened, Undisturbed

LEMMA QuietStays ==
  ASSUME UNCHANGED left
  PROVE  (OneFault' <=> OneFault) /\ (Undisturbed' <=> Undisturbed)
  BY DEF OneFault, Undisturbed, Happened


LEMMA StepIsSteady ==
  ASSUME [Next]_vars
  PROVE  Steady
  <1>1. {"command", "host", "store", "guard", "expire", "beat", "crash", "again"} = Disturbances \ {"any"}
    BY DEF Disturbances
  <1>2. ASSUME UNCHANGED left \/ Happens("command") \/ Happens("host") \/ Happens("store")
               \/ Happens("guard") \/ Happens("expire") \/ Happens("beat") \/ Happens("crash")
               \/ Happens("again")
        PROVE  Steady
    BY <1>1, <1>2 DEF Steady
  <1>3. CASE InterruptionNext
    BY <1>2, <1>3
    DEF InterruptionNext, Interrupt, Freeze, Inspect, IntendInterrupt, HostInterrupt, CompleteInterrupt,
        Rotate, CommitInterrupt, CheckInterrupt, FailInterrupt, Committed, Stale, PersistFailed,
        Intended, IntentRefused, Completed, CompletionRefused, CompletionFails, CompletionUnknown,
        GuardFails, HostFails
  <1>4. CASE HandoffNext
    BY <1>2, <1>4
    DEF HandoffNext, ExportHandoff, ClaimAttempt, CheckClaim, IntendExport, LaunchCompression,
        AwaitHandoff, CompleteExport, CommitExport, CheckExport, FailExport, Committed, Stale,
        PersistFailed, Intended, IntentRefused, Completed, CompletionRefused, CompletionFails,
        CompletionUnknown, HostFails
  <1>5. CASE ContinuationNext
    BY <1>2, <1>5
    DEF ContinuationNext, ContinueFromHandoff, AssertLease, ArtifactsFail, IntendStart, StartTask,
        CompleteStart, IntendGrant, GrantWrite, CompleteGrant, IntendProgress, AwaitProgress,
        CompleteProgress, CommitContinuation, CheckContinuation, LoadFailed, FreezeFailed,
        FailContinuation, AppendEffect, CompleteEffect, Committed, Stale, PersistFailed, Intended,
        IntentRefused, Completed, CompletionRefused, CompletionFails, CompletionUnknown, GuardFails,
        HostFails
  <1>6. CASE BeginRelay \/ CheckResumed \/ CloseFailure \/ CommitClosure \/ Crash \/ RunAgain
               \/ CommandCommits \/ Beat \/ Expire \/ Pause \/ Resume \/ Abort \/ UNCHANGED vars
    BY <1>2, <1>6
    DEF BeginRelay, CheckResumed, CloseFailure, CommitClosure, Crash, RunAgain, CommandCommits, Beat,
        Expire, Pause, Resume, Abort, Command, vars, Committed, Stale, PersistFailed
  <1> QED
    BY <1>3, <1>4, <1>5, <1>6 DEF Next, ControllerNext

\* One receipt is completed at most, and a receipt of the grant or of the progress
\* names the task of its effect.
LEMMA LedgerNames ==
  ASSUME Held, CompletedForItsTask, NEW k, NEW t,
         k.action \in {"grant_continuation_write", "observe_continuation_progress"} => t = k.task,
         \/ UNCHANGED ledger
         \/ Intended(k) \/ IntentRefused(k)
         \/ Completed(k, t) \/ CompletionRefused(k, t) \/ CompletionFails \/ CompletionUnknown(k, t)
  PROVE  CompletedForItsTask'
  <1>1. CASE Complete(k, t)
    <2>1. ledger'.completed = ledger.completed \cup {[key |-> k, task |-> t]}
      BY <1>1 DEF Complete, Held, TypeOK
    <2> QED
      BY <2>1 DEF CompletedForItsTask
  <1>2. CASE ledger'.completed = ledger.completed
    BY <1>2 DEF CompletedForItsTask
  <1>3. Intended(k) \/ IntentRefused(k) => ledger.completed = ledger'.completed
    BY DEF Intended, IntentRefused, Held, TypeOK
  <1> QED
    BY <1>1, <1>2, <1>3 DEF Completed, CompletionRefused, CompletionFails, CompletionUnknown

LEMMA NamesStay ==
  ASSUME Held, CompletedForItsTask, [Next]_vars
  PROVE  CompletedForItsTask'
  <1>1. UNCHANGED ledger => CompletedForItsTask'
    BY DEF CompletedForItsTask
  <1>2. CASE IntendInterrupt \/ CompleteInterrupt
    <2>1. InterruptKey.action = "interrupt_source_thread"
      BY DEF InterruptKey, Key
    <2> QED
      BY <1>2, <2>1, LedgerNames DEF IntendInterrupt, CompleteInterrupt
  <1>3. CASE IntendExport \/ CompleteExport
    <2>1. ExportKey.action = "export_handoff"
      BY DEF ExportKey, Key
    <2> QED
      BY <1>3, <2>1, LedgerNames DEF IntendExport, CompleteExport
  <1>4. CASE IntendStart \/ IntendGrant \/ IntendProgress \/ CompleteStart \/ CompleteGrant \/ CompleteProgress
    <2>1. StartKey.action = "start_continuation_task"
      BY DEF StartKey, Key
    <2>2. GrantKey.task = local.task /\ ProgressKey.task = local.task
      BY DEF GrantKey, ProgressKey, Key
    <2>3. CASE IntendStart \/ CompleteStart
      BY <2>1, <2>3, LedgerNames DEF IntendStart, CompleteStart, AppendEffect, CompleteEffect
    <2>4. CASE IntendGrant \/ CompleteGrant
      BY <2>2, <2>4, LedgerNames DEF IntendGrant, CompleteGrant, AppendEffect, CompleteEffect
    <2>5. CASE IntendProgress \/ CompleteProgress
      BY <2>2, <2>5, LedgerNames DEF IntendProgress, CompleteProgress, AppendEffect, CompleteEffect
    <2> QED
      BY <1>4, <2>3, <2>4, <2>5
  <1>5. CASE InterruptionNext
    BY <1>1, <1>2, <1>5
    DEF InterruptionNext, Interrupt, Freeze, Inspect, HostInterrupt,
        Rotate, CommitInterrupt, CheckInterrupt, FailInterrupt, disk
  <1>6. CASE HandoffNext
    BY <1>1, <1>3, <1>6
    DEF HandoffNext, ExportHandoff, ClaimAttempt, CheckClaim, LaunchCompression,
        AwaitHandoff, CommitExport, CheckExport, FailExport, disk
  <1>7. CASE ContinuationNext
    BY <1>1, <1>4, <1>7
    DEF ContinuationNext, ContinueFromHandoff, AssertLease, StartTask, GrantWrite, AwaitProgress,
        CommitContinuation, CheckContinuation, LoadFailed, FreezeFailed, FailContinuation, disk
  <1>8. CASE BeginRelay \/ CheckResumed \/ CloseFailure \/ CommitClosure \/ Crash \/ RunAgain
               \/ CommandCommits \/ Beat \/ Expire \/ Pause \/ Resume \/ Abort \/ UNCHANGED vars
    BY <1>1, <1>8
    DEF BeginRelay, CheckResumed, CloseFailure, CommitClosure, Crash, RunAgain, CommandCommits, Beat,
        Expire, Pause, Resume, Abort, Command, disk, vars
  <1> QED
    BY <1>5, <1>6, <1>7, <1>8 DEF Next, ControllerNext

-----------------------------------------------------------------------------
\* Before the continuation: only the source was ever granted.

LEMMA CalmLabels ==
  /\ \A l \in {"idle"} \cup InterruptLabels \cup ExportLabels :
       l \in EarlyLabels /\ l \notin ContinueLabels /\ l \notin EndLabels /\ l \notin ActiveLabels
       /\ l \notin GrantedLabels /\ l \notin UngrantedLabels
  /\ "continue" \in EarlyLabels \cap ContinueLabels
  /\ \A l \in ActiveLabels : l \in ContinueLabels /\ l \notin EarlyLabels /\ l \notin EndLabels /\ l # "continue"
  /\ \A l \in EndLabels : l \notin EarlyLabels /\ l \notin ContinueLabels /\ l \notin ActiveLabels
       /\ l \notin GrantedLabels /\ l \notin UngrantedLabels
  /\ \A l \in GrantedLabels : l \in ActiveLabels /\ l \in TaskLabels /\ l \notin UngrantedLabels
  /\ \A l \in UngrantedLabels : l \in ContinueLabels
  /\ ContinueLabels = ActiveLabels \cup {"continue"}
  /\ Labels = {"idle"} \cup InterruptLabels \cup ExportLabels \cup ContinueLabels \cup EndLabels
  BY DEF EarlyLabels, ContinueLabels, TaskLabels, ActiveLabels, EndLabels, GrantedLabels, UngrantedLabels,
         InterruptLabels, ExportLabels, Labels

LEMMA OnlySourceWrites ==
  ASSUME OnlySourceGranted
  PROVE  Writers \subseteq {Source}
  BY DEF OnlySourceGranted, Writers

\* A step before the continuation.
LEMMA EarlyIsCalm ==
  ASSUME Held, Followed, Calm, pc \in {"idle"} \cup InterruptLabels \cup ExportLabels,
         pc' \in {"continue", "closeFailure"} \cup InterruptLabels \cup ExportLabels,
         UNCHANGED <<grants, process, control>>, SameTasks, Undisturbed' => Undisturbed,
         run'.status = "NEEDS_USER" => run' = run \/ pc' = "closeFailure",
         run'.status = "PAUSED" => run' = run,
         pc' = "continue" => ~local'.replay /\ ~local'.granted
  PROVE  Calm'
  <1>1. OnlySourceGranted /\ OnlySourceGranted'
    BY DEF Followed, GrantsFollowed, OnlySourceGranted
  <1>2. (Writers \subseteq {Source})'
    BY <1>1, OnlySourceWrites DEF Writers, OnlySourceGranted
  <1>3. /\ pc \in EarlyLabels /\ pc \notin EndLabels
        /\ pc' \notin ActiveLabels /\ pc' \notin GrantedLabels /\ pc' # "checkResumed"
        /\ pc' \in UngrantedLabels => pc' = "continue"
        /\ pc' \notin {"checkContinuation", "freezeFailed", "loadFailed", "failContinuation", "intendGrant"}
        /\ pc' \in ContinueLabels => pc' = "continue"
    BY CalmLabels DEF ActiveLabels, InterruptLabels, ExportLabels, ContinueLabels, GrantedLabels,
           UngrantedLabels, TaskLabels
  <1>4. RunIsOurs'
    BY <1>3 DEF Calm, RunIsOurs, SameTasks, EndLabels
  <1>5. GrantIsKnown'
    BY <1>1, <1>3 DEF GrantIsKnown
  <1>6. FailureIsDisturbed'
    BY <1>3 DEF FailureIsDisturbed
  <1>7. FailureIsHarmless'
    BY <1>2, <1>3 DEF FailureIsHarmless
  <1> QED
    BY <1>4, <1>5, <1>6, <1>7 DEF Calm


LEMMA CommitStatus ==
  ASSUME NEW next \in Runs, Committed(next) \/ Stale \/ PersistFailed(next)
  PROVE  run' = run \/ (/\ run'.status = next.status /\ run'.resume_to = next.resume_to
                        /\ run.state_version = local.base.state_version
                        /\ run'.state_version = run.state_version + 1)
  <1> DEFINE n == [next EXCEPT !.state_version = run.state_version + 1]
  <1>1. n.status = next.status /\ n.resume_to = next.resume_to /\ n.state_version = run.state_version + 1
    BY DEF Runs
  <1> QED
    BY <1>1 DEF Committed, Stale, PersistFailed

LEMMA InterruptionIsCalm ==
  ASSUME Held, Followed, Calm, SameTasks, Undisturbed' => Undisturbed, InterruptionNext
  PROVE  Calm'
  <1>1. /\ pc \in InterruptLabels
        /\ pc' \in {"export", "closeFailure"} \cup InterruptLabels
        /\ UNCHANGED <<grants, process, control>>
    BY DEF InterruptionNext, Interrupt, Freeze, Inspect, IntendInterrupt, HostInterrupt,
           CompleteInterrupt, Rotate, CommitInterrupt, CheckInterrupt, FailInterrupt, InterruptionFails,
           Interrupted, GiveUp, Continue, Remember, Goto, InterruptLabels, world
  <1>2. run' = run \/ CommitInterrupt \/ FailInterrupt
    BY DEF InterruptionNext, Interrupt, Freeze, Inspect, IntendInterrupt, HostInterrupt,
           CompleteInterrupt, Rotate, CheckInterrupt, disk
  <1>3. CASE run' = run
    BY <1>1, <1>3, EarlyIsCalm DEF ExportLabels, InterruptLabels
  <1>4. CASE CommitInterrupt
    <2>1. InterruptedRun \in Runs /\ InterruptedRun.status = "HANDOFF_EXPORTING"
      <3>1. pc \in InterruptLabels \ {"interrupt"}
        BY <1>4 DEF CommitInterrupt, InterruptLabels
      <3> QED
        BY <3>1, InterruptedType
    <2>2. run' = run \/ run'.status = "HANDOFF_EXPORTING"
      BY <1>4, <2>1, CommitStatus DEF CommitInterrupt
    <2> QED
      BY <1>1, <2>2, EarlyIsCalm DEF ExportLabels, InterruptLabels
  <1>5. CASE FailInterrupt
    <2>1. FailedInterruption \in Runs /\ FailedInterruption.status = "NEEDS_USER"
      <3>1. pc \in InterruptLabels \ {"interrupt"}
        BY <1>5 DEF FailInterrupt, InterruptLabels
      <3> QED
        BY <3>1, InterruptedType
    <2>2. /\ run' = run \/ run'.status = "NEEDS_USER"
          /\ pc' = "closeFailure"
      BY <1>5, <2>1, CommitStatus DEF FailInterrupt, GiveUp, Continue, Goto
    <2> QED
      BY <1>1, <2>2, EarlyIsCalm
  <1> QED
    BY <1>2, <1>3, <1>4, <1>5

LEMMA HandoffIsCalm ==
  ASSUME Held, Followed, Calm, SameTasks, Undisturbed' => Undisturbed, HandoffNext
  PROVE  Calm'
  <1>1. /\ pc \in ExportLabels
        /\ pc' \in {"continue", "closeFailure"} \cup ExportLabels
        /\ UNCHANGED <<grants, process, control>>
        /\ pc' = "continue" => ~local'.replay /\ ~local'.granted
    BY DEF HandoffNext, ExportHandoff, ClaimAttempt, CheckClaim, IntendExport, LaunchCompression,
           AwaitHandoff, CompleteExport, CommitExport, CheckExport, FailExport, Exported, GiveUp, Continue,
           Remember, Goto, ExportLabels, world, NoLocal
  <1>2. run' = run \/ ClaimAttempt \/ CommitExport \/ FailExport
    BY DEF HandoffNext, ExportHandoff, CheckClaim, IntendExport, LaunchCompression, AwaitHandoff,
           CompleteExport, CheckExport, disk
  <1>3. CASE run' = run
    BY <1>1, <1>3, EarlyIsCalm
  <1>4. CASE ClaimAttempt
    <2> DEFINE claimed == [local.base EXCEPT !.attempted = TRUE]
    <2>1. /\ pc \in (ExportLabels \cup ContinueLabels) \ Entries
          /\ local.base \in Runs /\ local.base.status = "HANDOFF_EXPORTING"
      <3>1. pc \in ExportLabels \ {"export"} /\ pc \in {"claim", "checkClaim"} /\ pc \notin Entries
        BY <1>4 DEF ClaimAttempt, ExportLabels, Entries
      <3>2. ~local.replay
        BY <3>1 DEF Followed, ExportFollowed
      <3> QED
        BY <3>1, <3>2, LaterFacts DEF Followed, ExportFollowed
    <2>2. claimed \in Runs /\ claimed.status = "HANDOFF_EXPORTING"
      BY <2>1 DEF Runs
    <2>3. Committed(claimed) \/ Stale \/ PersistFailed(claimed)
      BY <1>4 DEF ClaimAttempt
    <2>4. run' = run \/ run'.status = "HANDOFF_EXPORTING"
      BY <2>2, <2>3, CommitStatus
    <2> QED
      BY <1>1, <2>4, EarlyIsCalm
  <1>5. CASE CommitExport
    <2>1. ExportedRun \in Runs /\ ExportedRun.status = "CONTINUATION_STARTING"
      <3>1. pc \in (ExportLabels \cup ContinueLabels) \ Entries
        BY <1>5 DEF CommitExport, ExportLabels, Entries
      <3> QED
        BY <3>1, LaterFacts DEF ExportedRun, Runs, Statuses, RelayStatuses
    <2>2. run' = run \/ run'.status = "CONTINUATION_STARTING"
      BY <1>5, <2>1, CommitStatus DEF CommitExport
    <2> QED
      BY <1>1, <2>2, EarlyIsCalm
  <1>6. CASE FailExport
    <2>1. FailedExport \in Runs /\ FailedExport.status = "NEEDS_USER"
      <3>1. pc \in (ExportLabels \cup ContinueLabels) \ Entries
        BY <1>6 DEF FailExport, ExportLabels, Entries
      <3> QED
        BY <3>1, LaterFacts DEF FailedExport, Runs, Statuses, RelayStatuses
    <2>2. (run' = run \/ run'.status = "NEEDS_USER") /\ pc' = "closeFailure"
      BY <1>6, <2>1, CommitStatus DEF FailExport, GiveUp, Continue, Goto
    <2> QED
      BY <1>1, <2>2, EarlyIsCalm
  <1> QED
    BY <1>2, <1>3, <1>4, <1>5, <1>6

LEMMA BeginRelayIsCalm ==
  ASSUME Held, Followed, Calm, Undisturbed' => Undisturbed, BeginRelay
  PROVE  Calm'
  <1>1. /\ pc = "idle" /\ pc' \in {"interrupt", "closeFailure"} /\ run' = run
        /\ UNCHANGED <<grants, process, control>>
    BY DEF BeginRelay, GiveUp, Continue, Remember, Goto, disk, world
  <1> QED
    BY <1>1, EarlyIsCalm DEF SameTasks, InterruptLabels

-----------------------------------------------------------------------------
\* In the continuation.

\* The failure that the coordinator is told of, and where it goes.
LEMMA FailsCalmly ==
  ASSUME Calm, pc \in ContinueLabels, ContinuationFails
  PROVE  pc' = "loadFailed" /\ local' = local
  BY DEF Calm, GrantIsKnown, ContinuationFails, Continue, Goto

\* A step that leaves the Run and its lease, to another label of the continuation.
LEMMA ActiveIsCalm ==
  ASSUME Held, Calm, pc \in ActiveLabels, pc' \in ActiveLabels,
         UNCHANGED <<run, process, control>>, Undisturbed' => Undisturbed,
         local'.expected = local.expected, local'.replay = local.replay,
         ~local'.granted => ~local.granted /\ UNCHANGED grants,
         pc' \in GrantedLabels => local'.granted, pc' \in UngrantedLabels => ~local'.granted,
         pc' = "checkResumed" => run.status \notin RelayStatuses,
         FailureIsDisturbed',
         pc' = "failContinuation" => (Writers \subseteq {Source})'
  PROVE  Calm'
  <1>1. pc' \in ContinueLabels /\ pc' \notin EarlyLabels /\ pc' \notin EndLabels /\ pc' # "continue"
        /\ pc \in ContinueLabels /\ pc \notin EndLabels
    BY CalmLabels
  <1>2. RunIsOurs'
    BY <1>1 DEF Calm, RunIsOurs
  <1>3. GrantIsKnown'
    BY <1>1 DEF Calm, GrantIsKnown, OnlySourceGranted
  <1>4. FailureIsHarmless'
    BY <1>1 DEF FailureIsHarmless
  <1> QED
    BY <1>2, <1>3, <1>4 DEF Calm

\* A failure of a step at which a grant may have occurred is the disturbance's.
LEMMA FailureIsCalm ==
  ASSUME Held, Calm, pc \in ActiveLabels, UNCHANGED <<run, process, control>>,
         Undisturbed' => Undisturbed, ContinuationFails,
         ~local.granted => UNCHANGED grants, local.granted => ~Undisturbed'
  PROVE  Calm'
  <1>1. pc' = "loadFailed" /\ local' = local
    BY CalmLabels, FailsCalmly
  <1>2. pc' \in ActiveLabels /\ pc' \notin GrantedLabels /\ pc' \notin UngrantedLabels
    BY <1>1 DEF ActiveLabels, ContinueLabels, GrantedLabels, UngrantedLabels
  <1>3. FailureIsDisturbed'
    BY <1>1, <1>2 DEF FailureIsDisturbed
  <1> QED
    BY <1>1, <1>2, <1>3, ActiveIsCalm

\* The coordinator gives up, or is done.
LEMMA EndIsCalm ==
  ASSUME Held, Calm, pc' \in EndLabels, UNCHANGED <<process, control>>, Undisturbed' => Undisturbed,
         run' = run \/ run'.status # "PAUSED",
         (Writers \subseteq {Source} \/ RelayIsOver)'
  PROVE  Calm'
  <1>1. /\ pc' \notin EarlyLabels /\ pc' \notin ContinueLabels /\ pc' \notin ActiveLabels
        /\ pc' \notin GrantedLabels /\ pc' \notin UngrantedLabels
    BY CalmLabels
  <1>2. pc' \notin {"checkResumed", "checkContinuation", "freezeFailed", "loadFailed", "failContinuation",
                    "intendGrant", "continue"}
    BY DEF EndLabels
  <1> QED
    BY <1>1, <1>2 DEF Calm, RunIsOurs, GrantIsKnown, FailureIsDisturbed, FailureIsHarmless


\* How a step disturbs, if it is the only one that may.
OneMore ==
  /\ UNCHANGED left => (Undisturbed' <=> Undisturbed)
  /\ Undisturbed' => Undisturbed
  /\ \A d \in {"command", "host", "store", "guard", "expire", "beat"} :
       Happens(d) => Undisturbed /\ ~Undisturbed'

LEMMA ContinueFromHandoffIsCalm ==
  ASSUME Held, Calm, OneMore, ContinueFromHandoff
  PROVE  Calm'
  <1>1. /\ pc = "continue" /\ pc \in ContinueLabels /\ pc \in EarlyLabels /\ pc \in UngrantedLabels
        /\ pc \notin EndLabels
        /\ UNCHANGED <<run, lease, grants, process, control>>
        /\ local \in Locals
    BY CalmLabels DEF ContinueFromHandoff, disk, world, Held, TypeOK, UngrantedLabels
  <1>2. OnlySourceGranted /\ ~local.replay /\ ~local.granted
    BY <1>1 DEF Calm, GrantIsKnown
  <1>3. CASE GiveUp
    <2>1. (Writers \subseteq {Source})'
      BY <1>1, <1>2, OnlySourceWrites DEF Writers, IsWritable, IsValid
    <2>2. pc' \in EndLabels
      BY <1>3 DEF GiveUp, Continue, Goto, EndLabels
    <2> QED
      BY <1>1, <2>1, <2>2, EndIsCalm DEF OneMore
  <1>4. CASE run.state_version = local.expected /\ Remember("assertFirst", [local EXCEPT !.base = run])
    <2>1. /\ pc' = "assertFirst" /\ local'.expected = local.expected /\ ~local'.replay /\ ~local'.granted
      BY <1>1, <1>2, <1>4 DEF Remember, Goto, Locals
    <2>2. /\ pc' \in ActiveLabels /\ pc' \in ContinueLabels /\ pc' \notin EarlyLabels /\ pc' \notin EndLabels
          /\ pc' \notin GrantedLabels
      BY <2>1, CalmLabels DEF ActiveLabels, ContinueLabels, GrantedLabels
    <2>3. RunIsOurs'
      BY <1>1, <1>4, <2>1, <2>2 DEF OneMore, Calm, RunIsOurs
    <2>4. GrantIsKnown'
      BY <1>1, <1>2, <2>1, <2>2 DEF GrantIsKnown, OnlySourceGranted
    <2>5. FailureIsDisturbed'
      BY <1>1, <1>4, <2>1, <2>2 DEF FailureIsDisturbed
    <2>6. FailureIsHarmless'
      BY <2>1, <2>2 DEF FailureIsHarmless
    <2> QED
      BY <2>3, <2>4, <2>5, <2>6 DEF Calm
  <1>5. run.continuation = NoTask
    BY <1>1 DEF Calm, RunIsOurs
  <1> QED
    BY <1>3, <1>4, <1>5 DEF ContinueFromHandoff

LEMMA AssertLeaseIsCalm ==
  ASSUME Held, Calm, OneMore, AssertLease
  PROVE  Calm'
  <1>1. /\ pc \in {"assertFirst", "assertBefore", "assertAfter"} /\ pc \in ActiveLabels
        /\ UNCHANGED <<run, lease, grants, process, control>>
        /\ pc = "assertAfter" <=> pc \in GrantedLabels
        /\ pc # "assertAfter" <=> pc \in UngrantedLabels
    BY DEF AssertLease, AfterAssert, disk, world, ActiveLabels, ContinueLabels, TaskLabels,
           GrantedLabels, UngrantedLabels
  <1>2. CASE IsWritable(local.base.epoch) /\ Continue(AfterAssert[pc]) /\ UNCHANGED left
    <2>1. /\ pc' = AfterAssert[pc] /\ local' = local
          /\ \/ pc = "assertFirst" /\ pc' = "intendStart"
             \/ pc = "assertBefore" /\ pc' = "intendGrant"
             \/ pc = "assertAfter" /\ pc' = "intendProgress"
      BY <1>1, <1>2 DEF Continue, Goto, AfterAssert
    <2>2. /\ pc' \in ActiveLabels
          /\ pc' \in GrantedLabels <=> pc = "assertAfter"
          /\ pc' \in UngrantedLabels <=> pc # "assertAfter"
          /\ pc' \notin {"continue", "checkResumed", "failContinuation", "checkContinuation",
                         "freezeFailed", "loadFailed"}
      BY <2>1 DEF ActiveLabels, ContinueLabels, TaskLabels, GrantedLabels, UngrantedLabels
    <2>3. IsWritable(local.base.epoch)' /\ (Undisturbed' => Undisturbed)
      BY <1>1, <1>2, <2>1 DEF IsWritable, IsValid, OneMore
    <2>4. FailureIsDisturbed'
      BY <1>1, <2>1, <2>2, <2>3 DEF Calm, FailureIsDisturbed
    <2> QED
      BY <1>1, <2>1, <2>2, <2>3, <2>4, ActiveIsCalm DEF Calm, GrantIsKnown
  <1>3. CASE ContinuationFails /\ (~IsWritable(local.base.epoch) \/ Happens("guard") \/ Happens("store"))
    <2>1. local.granted => ~Undisturbed'
      BY <1>1, <1>3 DEF Calm, GrantIsKnown, FailureIsDisturbed, OneMore
    <2> QED
      BY <1>1, <1>3, <2>1, FailureIsCalm DEF OneMore
  <1> QED
    BY <1>2, <1>3 DEF AssertLease, ArtifactsFail

\* An intent is refused after a commit of somebody else, or by the store.
LEMMA AppendIsCalm ==
  ASSUME Held, Calm, OneMore,
         \/ pc = "intendStart" /\ AppendEffect("intendStart", StartKey, "startTask", FALSE)
         \/ pc = "intendGrant" /\ AppendEffect("intendGrant", GrantKey, "grantWrite", TRUE)
         \/ pc = "intendProgress" /\ AppendEffect("intendProgress", ProgressKey, "awaitProgress", FALSE)
  PROVE  Calm'
  <1>1. /\ pc \in ActiveLabels /\ local \in Locals /\ local.granted \in BOOLEAN
        /\ UNCHANGED <<run, lease, grants, process, control>>
        /\ pc = "intendProgress" <=> pc \in GrantedLabels
        /\ pc # "intendProgress" <=> pc \in UngrantedLabels
    BY DEF AppendEffect, disk, world, ActiveLabels, ContinueLabels, TaskLabels,
           GrantedLabels, UngrantedLabels, Held, TypeOK, Locals
  <1>2. /\ StartKey.version = local.expected
        /\ GrantKey.version = local.expected
        /\ ProgressKey.version = local.expected
    BY DEF StartKey, GrantKey, ProgressKey, Key
  <1>3. ASSUME NEW key, key.version = local.expected, IntentRefused(key), ContinuationFails
        PROVE  Calm'
    <2>1. local.granted => ~Undisturbed'
      BY <1>1, <1>3 DEF Calm, GrantIsKnown, FailureIsDisturbed, OneMore, IntentRefused
    <2> QED
      BY <1>1, <1>3, <2>1, FailureIsCalm DEF OneMore
  <1>4. ASSUME UNCHANGED left, local'.expected = local.expected, local'.base = local.base,
               local'.replay = local.replay,
               \/ pc = "intendStart" /\ pc' = "startTask" /\ (local'.granted <=> local.granted)
               \/ pc = "intendGrant" /\ pc' = "grantWrite" /\ local'.granted
               \/ pc = "intendProgress" /\ pc' = "awaitProgress" /\ (local'.granted <=> local.granted)
        PROVE  Calm'
    <2>1. /\ pc' \in ActiveLabels
          /\ pc' \in GrantedLabels <=> pc # "intendStart"
          /\ pc' \in UngrantedLabels <=> pc = "intendStart"
          /\ pc' \notin {"continue", "checkResumed", "failContinuation", "checkContinuation",
                         "freezeFailed", "loadFailed", "intendGrant"}
      BY <1>4 DEF ActiveLabels, ContinueLabels, TaskLabels, GrantedLabels, UngrantedLabels
    <2>2. \A e : IsWritable(e)' <=> IsWritable(e)
      BY <1>1 DEF IsWritable, IsValid
    <2>3. FailureIsDisturbed'
      BY <1>1, <1>4, <2>1, <2>2 DEF Calm, FailureIsDisturbed, OneMore
    <2>4. pc' \in GrantedLabels => local'.granted
      BY <1>1, <1>4, <2>1 DEF Calm, GrantIsKnown
    <2>5. pc' \in UngrantedLabels => ~local'.granted
      BY <1>1, <1>4, <2>1 DEF Calm, GrantIsKnown
    <2> QED
      BY <1>1, <1>4, <2>1, <2>3, <2>4, <2>5, ActiveIsCalm DEF OneMore
  <1>5. ASSUME NEW label, NEW key, NEW next, NEW may \in BOOLEAN,
               AppendEffect(label, key, next, may), key.version = local.expected
        PROVE  \/ IntentRefused(key) /\ ContinuationFails
               \/ /\ UNCHANGED left /\ pc' = next /\ local'.expected = local.expected
                  /\ local'.base = local.base /\ local'.replay = local.replay
                  /\ (local'.granted <=> local.granted \/ may)
    BY <1>1, <1>5 DEF AppendEffect, Intended, Remember, Goto, Locals
  <1>6. CASE pc = "intendStart"
    BY <1>1, <1>2, <1>3, <1>4, <1>5, <1>6
  <1>7. CASE pc = "intendGrant"
    BY <1>1, <1>2, <1>3, <1>4, <1>5, <1>7
  <1>8. CASE pc = "intendProgress"
    BY <1>1, <1>2, <1>3, <1>4, <1>5, <1>8
  <1> QED
    BY <1>6, <1>7, <1>8


\* A step from one call of the continuation to the next.
LEMMA WorkGoesOn ==
  ASSUME Held, Calm, OneMore, UNCHANGED <<run, lease, process, control>>,
         pc \in ActiveLabels, pc' # "intendGrant", pc' # "continue",
         \/ pc \in UngrantedLabels /\ pc' \in UngrantedLabels /\ UNCHANGED grants
         \/ pc \in GrantedLabels /\ pc' \in GrantedLabels,
         local'.expected = local.expected, local'.replay = local.replay,
         local'.base = local.base, local'.granted = local.granted
  PROVE  Calm'
  <1>1. /\ pc' \in ActiveLabels
        /\ pc' \notin {"checkResumed", "checkContinuation", "loadFailed", "freezeFailed", "failContinuation"}
        /\ ~(pc \in UngrantedLabels /\ pc \in GrantedLabels)
        /\ ~(pc' \in UngrantedLabels /\ pc' \in GrantedLabels)
        /\ pc # "continue"
    BY DEF UngrantedLabels, GrantedLabels, ActiveLabels, ContinueLabels, TaskLabels
  <1>2. \A e : IsWritable(e)' <=> IsWritable(e)
    BY DEF IsWritable, IsValid
  <1>3. FailureIsDisturbed'
    BY <1>1, <1>2 DEF Calm, FailureIsDisturbed, OneMore
  <1>4. /\ pc' \in GrantedLabels => local'.granted
        /\ pc' \in UngrantedLabels => ~local'.granted
        /\ ~local'.granted => ~local.granted /\ UNCHANGED grants
    BY <1>1 DEF Calm, GrantIsKnown
  <1> QED
    BY <1>1, <1>3, <1>4, ActiveIsCalm DEF OneMore

LEMMA HostFailureDisturbs ==
  ASSUME Calm, OneMore, HostFails
  PROVE  ~Undisturbed'
  BY DEF HostFails, Calm, RunIsOurs, OneMore

LEMMA StartTaskIsCalm ==
  ASSUME Held, Calm, OneMore, StartTask
  PROVE  Calm'
  <1>1. /\ pc = "startTask" /\ pc \in ActiveLabels /\ pc \in UngrantedLabels /\ pc \in ContinueLabels
        /\ "completeStart" \in UngrantedLabels
        /\ UNCHANGED <<run, lease, grants, process, control>> /\ local \in Locals
    BY DEF StartTask, disk, ActiveLabels, ContinueLabels, UngrantedLabels, Held, TypeOK
  <1>2. ~local.granted /\ ~local.replay
    BY <1>1 DEF Calm, GrantIsKnown
  <1>3. ASSUME NEW t, Ready(t)
        PROVE  Calm'
    <2>1. /\ pc' = "completeStart" /\ local'.expected = local.expected /\ local'.replay = local.replay
          /\ local'.base = local.base /\ local'.granted = local.granted
      BY <1>1, <1>2, <1>3 DEF Ready, Remember, Goto, Locals
    <2> QED
      BY <1>1, <2>1, WorkGoesOn
  <1>4. CASE ContinuationFails
    BY <1>1, <1>2, <1>4, FailureIsCalm DEF OneMore
  <1> QED
    BY <1>3, <1>4 DEF StartTask

LEMMA GrantWriteIsCalm ==
  ASSUME Held, Calm, OneMore, GrantWrite
  PROVE  Calm'
  <1>1. /\ pc = "grantWrite" /\ pc \in ActiveLabels /\ pc \in GrantedLabels
        /\ "completeGrant" \in GrantedLabels
        /\ UNCHANGED <<run, lease, process, control>>
    BY DEF GrantWrite, disk, ActiveLabels, ContinueLabels, TaskLabels, GrantedLabels
  <1>2. local.granted
    BY <1>1 DEF Calm, GrantIsKnown
  <1>3. CASE Continue("completeGrant")
    BY <1>1, <1>3, WorkGoesOn DEF Continue, Goto
  <1>4. CASE HostFails /\ ContinuationFails
    BY <1>1, <1>2, <1>4, HostFailureDisturbs, FailureIsCalm DEF OneMore
  <1> QED
    BY <1>3, <1>4 DEF GrantWrite

LEMMA AwaitProgressIsCalm ==
  ASSUME Held, Calm, OneMore, AwaitProgress
  PROVE  Calm'
  <1>1. /\ pc = "awaitProgress" /\ pc \in ActiveLabels /\ pc \in GrantedLabels
        /\ "completeProgress" \in GrantedLabels
        /\ UNCHANGED <<run, lease, grants, process, control>>
    BY DEF AwaitProgress, disk, ActiveLabels, ContinueLabels, TaskLabels, GrantedLabels
  <1>2. CASE Continue("completeProgress")
    BY <1>1, <1>2, WorkGoesOn DEF Continue, Goto
  <1>3. CASE HostFails /\ ContinuationFails
    BY <1>1, <1>3, HostFailureDisturbs, FailureIsCalm DEF OneMore
  <1> QED
    BY <1>2, <1>3 DEF AwaitProgress

\* The store alone can fail a completion: no other receipt was completed for the key.
LEMMA CompleteIsCalm ==
  ASSUME Held, CompletedForItsTask, Calm, OneMore,
         \/ pc = "completeStart" /\ CompleteEffect("completeStart", StartKey, "assertBefore")
         \/ pc = "completeGrant" /\ CompleteEffect("completeGrant", GrantKey, "assertAfter")
         \/ pc = "completeProgress" /\ CompleteProgress
  PROVE  Calm'
  <1>1. /\ pc \in ActiveLabels /\ pc \in ContinueLabels
        /\ UNCHANGED <<run, lease, grants, process, control>>
        /\ pc # "completeStart" <=> pc \in GrantedLabels
        /\ pc = "completeStart" <=> pc \in UngrantedLabels
        /\ "assertBefore" \in UngrantedLabels
        /\ "assertAfter" \in GrantedLabels /\ "commitContinuation" \in GrantedLabels
    BY DEF CompleteEffect, CompleteProgress, world, ActiveLabels, ContinueLabels, TaskLabels,
           GrantedLabels, UngrantedLabels
  <1>2. ~local.replay
    BY <1>1 DEF Calm, GrantIsKnown
  <1>3. CASE pc' \in {"assertBefore", "assertAfter", "commitContinuation"} /\ local' = local
             /\ (pc' = "assertBefore" <=> pc = "completeStart")
    BY <1>1, <1>3, WorkGoesOn
  <1>4. CASE ContinuationFails /\ (Happens("store") \/ pc = "completeStart")
    <2>1. local.granted => ~Undisturbed'
      BY <1>1, <1>4 DEF Calm, GrantIsKnown, OneMore
    <2> QED
      BY <1>1, <1>4, <2>1, FailureIsCalm DEF OneMore
  <1>5. CompletedFor(GrantKey) \subseteq {local.task} /\ CompletedFor(ProgressKey) \subseteq {local.task}
    BY DEF CompletedFor, CompletedForItsTask, GrantKey, ProgressKey, Key
  <1>6. CASE pc = "completeStart"
    BY <1>3, <1>4, <1>6 DEF CompleteEffect, Continue, Goto
  <1>7. CASE pc = "completeGrant"
    BY <1>3, <1>4, <1>5, <1>7 DEF CompleteEffect, CompletionRefused, CompletionFails, CompletionUnknown,
                                  Continue, Goto
  <1>8. CASE pc = "completeProgress"
    BY <1>2, <1>3, <1>4, <1>5, <1>8
    DEF CompleteProgress, CompleteEffect, CompletionRefused, CompletionFails, CompletionUnknown,
        Continue, Goto
  <1> QED
    BY <1>6, <1>7, <1>8


\* After the commit the Run is no longer the relay's.
LEMMA CommitContinuationIsCalm ==
  ASSUME Held, Followed, Calm, OneMore, CommitContinuation
  PROVE  Calm'
  <1>1. /\ pc = "commitContinuation" /\ pc \in ActiveLabels /\ pc \in GrantedLabels
        /\ pc \in ContinueLabels /\ local.task \in TaskIds
        /\ UNCHANGED <<lease, grants, process, control>>
    BY DEF CommitContinuation, world, ActiveLabels, ContinueLabels, TaskLabels, GrantedLabels, Held, StageOK
  <1>2. /\ local.base \in Runs /\ local.base.state_version = local.expected /\ local.granted /\ ~local.replay
        /\ local.expected \in Nat
    BY <1>1, ContinueFacts DEF Calm, GrantIsKnown
  <1>3. ContinuedRun \in Runs /\ ContinuedRun.status = "SLICE_RUNNING"
    BY <1>1, <1>2 DEF ContinuedRun, Runs, Statuses
  <1>4. run' = run \/ (run'.status = "SLICE_RUNNING" /\ run'.state_version = run.state_version + 1)
    BY <1>3, CommitStatus DEF CommitContinuation
  <1>5. run'.status \notin RelayStatuses \/ run'.state_version = local.expected
    BY <1>1, <1>4 DEF Calm, RunIsOurs, RelayStatuses
  <1>6. /\ local' = local
        /\ \/ pc' = "checkResumed" /\ run'.status = "SLICE_RUNNING"
           \/ pc' = "checkContinuation" /\ ~Undisturbed'
    <2>1. CASE Committed(ContinuedRun) /\ Continue("checkResumed")
      <3>1. run' = [ContinuedRun EXCEPT !.state_version = run.state_version + 1]
        BY <2>1 DEF Committed
      <3> QED
        BY <1>3, <2>1, <3>1 DEF Continue, Goto, Runs
    <2>2. CASE Stale /\ Continue("checkContinuation")
      <3>1. run.state_version # local.expected /\ UNCHANGED left
        BY <1>2, <2>2 DEF Stale
      <3>2. ~Undisturbed'
        BY <1>1, <3>1 DEF Calm, FailureIsDisturbed, OneMore
      <3> QED
        BY <2>2, <3>2 DEF Continue, Goto
    <2>3. CASE PersistFailed(ContinuedRun) /\ Continue("checkContinuation")
      BY <2>3 DEF PersistFailed, OneMore, Continue, Goto
    <2> QED
      BY <2>1, <2>2, <2>3 DEF CommitContinuation
  <1>7. /\ pc' \in ActiveLabels /\ pc' \in ContinueLabels /\ pc' \notin EarlyLabels /\ pc' \notin EndLabels
        /\ pc' \notin GrantedLabels /\ pc' \notin UngrantedLabels /\ pc \notin EndLabels
        /\ pc' \notin {"freezeFailed", "loadFailed", "failContinuation"}
    BY <1>1, <1>6 DEF ActiveLabels, ContinueLabels, TaskLabels, GrantedLabels, UngrantedLabels, EndLabels,
                      EarlyLabels, InterruptLabels, ExportLabels
  <1>8. RunIsOurs'
    BY <1>1, <1>4, <1>5, <1>6, <1>7 DEF Calm, RunIsOurs, OneMore, RelayStatuses
  <1>9. GrantIsKnown'
    BY <1>2, <1>6, <1>7 DEF GrantIsKnown
  <1>10. FailureIsDisturbed'
    BY <1>6, <1>7 DEF FailureIsDisturbed
  <1>11. FailureIsHarmless'
    BY <1>7 DEF FailureIsHarmless
  <1> QED
    BY <1>8, <1>9, <1>10, <1>11 DEF Calm

\* Steps that read only, after the work.
LEMMA ChecksAreCalm ==
  ASSUME Held, Followed, Calm, OneMore, CheckContinuation \/ LoadFailed
  PROVE  Calm'
  <1>1. /\ pc \in {"checkContinuation", "loadFailed"} /\ pc \in ActiveLabels /\ pc \in ContinueLabels
        /\ UNCHANGED <<run, lease, grants, process, control, local>> \/ GiveUp
        /\ UNCHANGED <<run, lease, grants, process, control>>
        /\ run.status \in Statuses
    BY RunFacts, LeaseFacts
    DEF CheckContinuation, LoadFailed, Continue, GiveUp, disk, world, ActiveLabels, ContinueLabels, TaskLabels,
        Held
  <1>2. ~local.granted => (Writers \subseteq {Source})'
    <2>1. ASSUME ~local.granted PROVE OnlySourceGranted
      BY <1>1, <2>1 DEF Calm, GrantIsKnown
    <2> QED
      BY <1>1, <2>1, OnlySourceWrites DEF Writers, IsWritable, IsValid
  <1>3. CASE CheckContinuation
    <2>1. /\ pc' \in {"checkResumed", "loadFailed"} /\ local' = local /\ ~Undisturbed'
          /\ pc' = "checkResumed" => run.status = "SLICE_RUNNING"
      BY <1>3 DEF CheckContinuation, Continue, Goto, IsContinued, Calm, FailureIsDisturbed, OneMore
    <2>2. pc' \in ActiveLabels /\ pc' \notin GrantedLabels /\ pc' \notin UngrantedLabels
          /\ pc' \notin {"freezeFailed", "checkContinuation", "failContinuation"}
      BY <2>1 DEF ActiveLabels, ContinueLabels, TaskLabels, GrantedLabels, UngrantedLabels
    <2>3. FailureIsDisturbed'
      BY <2>1, <2>2 DEF FailureIsDisturbed
    <2> QED
      BY <1>1, <2>1, <2>2, <2>3, ActiveIsCalm DEF RelayStatuses, OneMore
  <1>4. CASE LoadFailed
    <2>1. CASE pc' = "freezeFailed" /\ local' = local /\ local.granted /\ UNCHANGED left
      <3>1. pc' \in ActiveLabels /\ pc' \notin GrantedLabels /\ pc' \notin UngrantedLabels
        BY <2>1 DEF ActiveLabels, ContinueLabels, GrantedLabels, UngrantedLabels
      <3>2. ~Undisturbed'
        BY <1>4, <2>1 DEF LoadFailed, Calm, FailureIsDisturbed, OneMore
      <3>3. FailureIsDisturbed'
        BY <2>1, <3>1, <3>2 DEF FailureIsDisturbed
      <3> QED
        BY <1>1, <2>1, <3>1, <3>3, ActiveIsCalm DEF OneMore
    <2>2. CASE pc' = "failContinuation" /\ local' = local /\ ~local.granted
      <3>1. pc' \in ActiveLabels /\ pc' \notin GrantedLabels /\ pc' \notin UngrantedLabels
        BY <2>2 DEF ActiveLabels, ContinueLabels, GrantedLabels, UngrantedLabels
      <3>2. FailureIsDisturbed'
        BY <2>2, <3>1 DEF FailureIsDisturbed
      <3> QED
        BY <1>1, <1>2, <2>2, <3>1, <3>2, ActiveIsCalm DEF OneMore
    <2>3. CASE GiveUp /\ (Happens("store") \/ run.status # "CONTINUATION_STARTING"
                          \/ run.state_version # local.expected)
      <3>1. pc' \in EndLabels
        BY <2>3 DEF GiveUp, Continue, Goto, EndLabels
      <3>2. CASE ~local.granted
        BY <1>1, <1>2, <3>1, <3>2, EndIsCalm DEF OneMore
      <3>3. CASE local.granted
        <4>1. ~Happens("store")
          BY <1>4, <3>3 DEF LoadFailed, Calm, FailureIsDisturbed, OneMore
        <4>2. AtContinue(run, local.expected, local.base.epoch)
          BY <1>1 DEF Followed, ContinueFollowed
        <4>3. run.state_version # local.expected
          BY <2>3, <4>1, <4>2 DEF AtContinue
        <4>4. run.status \notin RelayStatuses /\ run.status # "NEEDS_USER"
          <5>1. pc \notin EndLabels
            BY <1>1 DEF EndLabels
          <5> QED
            BY <1>1, <4>3, <5>1 DEF Calm, RunIsOurs
        <4>5. RelayIsOver'
          BY <1>1, <4>4 DEF RelayIsOver
        <4> QED
          BY <1>1, <3>1, <4>5, EndIsCalm DEF OneMore
      <3> QED
        BY <3>2, <3>3
    <2> QED
      BY <1>4, <2>1, <2>2, <2>3 DEF LoadFailed, Continue, Goto
  <1> QED
    BY <1>3, <1>4

\* The lease is frozen, or was lost already.
LEMMA FreezeFailedIsCalm ==
  ASSUME Held, Followed, Calm, OneMore, FreezeFailed
  PROVE  Calm'
  <1>1. /\ pc = "freezeFailed" /\ pc \in ActiveLabels /\ pc \in ContinueLabels
        /\ UNCHANGED <<run, grants, process, control>> /\ local \in Locals
        /\ pc' = "failContinuation"
    BY DEF FreezeFailed, Remember, Continue, Goto, world, ActiveLabels, ContinueLabels, Held, TypeOK
  <1>2. pc' \in ActiveLabels /\ pc' \notin GrantedLabels /\ pc' \notin UngrantedLabels
    BY <1>1 DEF ActiveLabels, ContinueLabels, GrantedLabels, UngrantedLabels
  <1>3. FailureIsDisturbed'
    BY <1>1, <1>2 DEF FailureIsDisturbed
  <1>4. /\ local'.expected = local.expected /\ local'.replay = local.replay /\ local'.granted = local.granted
    BY DEF FreezeFailed, Remember, Continue, Goto, Held, TypeOK, Locals
  <1>5. (Writers \subseteq {Source})'
    <2>1. \A g \in grants : g.task = Source \/ g.epoch = local.base.epoch
      BY <1>1 DEF Followed, GrantsFollowed
    <2>2. ~IsWritable(local.base.epoch)'
      <3>1. CASE FreezeWrites
        BY <3>1 DEF FreezeWrites, IsWritable, Held, TypeOK, Leases
      <3>2. CASE ~IsValid(local.base.epoch) /\ UNCHANGED lease
        <4>1. local'.base = local.base
          BY DEF FreezeFailed, Remember, Continue, Goto, Held, TypeOK, Locals
        <4> QED
          BY <3>2, <4>1 DEF IsWritable, IsValid
      <3>3. ~Happens("guard")
        BY <1>1 DEF Calm, FailureIsDisturbed, OneMore
      <3> QED
        BY <3>1, <3>2, <3>3 DEF FreezeFailed, GuardFails
    <2>3. local'.base = local.base
      BY DEF FreezeFailed, Remember, Continue, Goto, Held, TypeOK, Locals
    <2>4. \A g \in grants' : IsWritable(g.epoch)' => g.task = Source
      BY <1>1, <2>1, <2>2, <2>3
    <2> QED
      BY <2>4 DEF Writers
  <1> QED
    BY <1>1, <1>2, <1>3, <1>4, <1>5, ActiveIsCalm DEF OneMore

LEMMA FailContinuationIsCalm ==
  ASSUME Held, Followed, Calm, OneMore, FailContinuation
  PROVE  Calm'
  <1>1. /\ pc = "failContinuation" /\ pc \in ActiveLabels /\ pc' \in EndLabels
        /\ UNCHANGED <<lease, grants, process, control>> /\ local \in Locals
    BY DEF FailContinuation, GiveUp, Continue, Goto, world, ActiveLabels, ContinueLabels, EndLabels,
           Held, TypeOK
  <1>2. FailedContinuation \in Runs /\ FailedContinuation.status = "NEEDS_USER"
    BY <1>1, ContinueFacts DEF FailedContinuation, Runs, Statuses, RelayStatuses, Locals
  <1>3. run' = run \/ run'.status = "NEEDS_USER"
    BY <1>2, CommitStatus DEF FailContinuation
  <1>4. (Writers \subseteq {Source})'
    BY <1>1 DEF Calm, FailureIsHarmless, Writers, IsWritable, IsValid
  <1> QED
    BY <1>1, <1>3, <1>4, EndIsCalm DEF OneMore


-----------------------------------------------------------------------------
\* At the end of the relay, and beside it.

\* What is over is closed as over.
LEMMA ClosedIsOver ==
  ASSUME NEW r \in Runs, r.status \notin RelayStatuses, NEW c, c = Closed(r)
  PROVE  c.status = "NEEDS_USER" /\ c.resume_to \notin RelayStatuses
  BY DEF Closed, Runs, RelayStatuses

LEMMA EndsAreCalm ==
  ASSUME Held, Calm, OneMore, CheckResumed \/ CloseFailure \/ CommitClosure
  PROVE  Calm'
  <1>1. UNCHANGED <<lease, grants, process, control>> /\ pc' \in EndLabels
    BY DEF CheckResumed, CloseFailure, CommitClosure, Forget, GiveUp, Continue, Remember, Goto, EndLabels,
           disk, world
  <1>2. Writers' = Writers
    BY <1>1 DEF Writers, IsWritable, IsValid
  <1>3. CASE CheckResumed
    <2>1. run' = run /\ run.status \notin RelayStatuses /\ run.status # "NEEDS_USER"
      BY <1>3 DEF CheckResumed, disk, Calm, RunIsOurs, EndLabels
    <2>2. RelayIsOver'
      BY <2>1 DEF RelayIsOver
    <2> QED
      BY <1>1, <2>1, <2>2, EndIsCalm DEF OneMore
  <1>4. CASE CloseFailure
    <2>1. run' = run /\ (Writers \subseteq {Source} \/ RelayIsOver)
      BY <1>4 DEF CloseFailure, disk, Calm, FailureIsHarmless, EndLabels
    <2>2. RelayIsOver => RelayIsOver'
      BY <2>1 DEF RelayIsOver
    <2> QED
      BY <1>1, <1>2, <2>1, <2>2, EndIsCalm DEF OneMore
  <1>5. CASE CommitClosure
    <2>1. /\ local.base \in Runs /\ IsPast(local.base)
          /\ local.base.status \notin {"NEEDS_USER", "ABORTED"}
          /\ Writers \subseteq {Source} \/ RelayIsOver
      BY <1>5 DEF CommitClosure, Held, LoadedOK, LoadedLabels, Calm, FailureIsHarmless, EndLabels
    <2>2. Closed(local.base) \in Runs /\ Closed(local.base).status = "NEEDS_USER"
      BY <2>1, ClosedType
    <2>3. run' = run \/ (/\ run'.status = "NEEDS_USER" /\ run'.resume_to = Closed(local.base).resume_to
                         /\ local.base = run)
      BY <1>5, <2>1, <2>2, CommitStatus DEF CommitClosure, IsPast
    <2>4. RelayIsOver => RelayIsOver'
      BY <2>1, <2>3, ClosedIsOver DEF RelayIsOver, RelayStatuses
    <2> QED
      BY <1>1, <1>2, <2>1, <2>3, <2>4, EndIsCalm DEF OneMore
  <1> QED
    BY <1>3, <1>4, <1>5

\* Somebody else's step is the disturbance, or ends the one it began.
LEMMA OthersAreCalm ==
  ASSUME Held, Calm, UNCHANGED <<pc, local, grants>>, ~Undisturbed', SameTasks,
         run' = run \/ (run'.status \in {"PAUSED", "ABORTED"}),
         Writers' \subseteq Writers, control'.command # "resume"
  PROVE  Calm'
  <1>1. RunIsOurs'
    BY DEF Calm, RunIsOurs, SameTasks, RelayStatuses
  <1>2. GrantIsKnown'
    BY DEF Calm, GrantIsKnown, OnlySourceGranted
  <1>3. FailureIsDisturbed'
    BY DEF FailureIsDisturbed
  <1>4. FailureIsHarmless'
    BY DEF Calm, FailureIsHarmless, RelayIsOver, RelayStatuses
  <1> QED
    BY <1>1, <1>2, <1>3, <1>4 DEF Calm

LEMMA FewerWriters ==
  ASSUME grants' = grants,
         \A e : IsWritable(e)' => IsWritable(e)
  PROVE  Writers' \subseteq Writers
  BY DEF Writers

LEMMA BeatIsCalm == ASSUME Held, Calm, OneMore, Beat PROVE Calm'
  <1>1. lease' \in {lease, [lease EXCEPT !.rotated = FALSE]}
    BY DEF Beat, RenewOrDispose
  <1>2. \A e : IsWritable(e)' => IsWritable(e)
    BY <1>1 DEF IsWritable, IsValid, Held, TypeOK, Leases
  <1>3. ~Undisturbed' /\ UNCHANGED <<run, pc, local, grants, control>>
    BY DEF Beat, OneMore
  <1> QED
    BY <1>2, <1>3, FewerWriters, OthersAreCalm DEF Calm, RunIsOurs, SameTasks

LEMMA ExpireIsCalm == ASSUME Held, Calm, OneMore, Expire PROVE Calm'
  <1>1. \A e : IsWritable(e)' => IsWritable(e)
    BY DEF Expire, IsWritable, IsValid, Held, TypeOK, Leases
  <1>2. ~Undisturbed' /\ UNCHANGED <<run, pc, local, grants, control>>
    BY DEF Expire, OneMore, world
  <1> QED
    BY <1>1, <1>2, FewerWriters, OthersAreCalm DEF Calm, RunIsOurs, SameTasks

LEMMA CommandsAreCalm == ASSUME Held, Calm, OneMore, Pause \/ Resume \/ Abort PROVE Calm'
  <1>1. ~Undisturbed' /\ Undisturbed /\ UNCHANGED <<run, pc, local, grants>>
    BY DEF Pause, Resume, Abort, Command, OneMore, world
  <1>2. ~Resume
    BY <1>1 DEF Resume, Calm, RunIsOurs
  <1>3. \A e : IsWritable(e)' => IsWritable(e)
    BY <1>2 DEF Pause, Abort, FreezeWrites, IsWritable, IsValid, Held, TypeOK, Leases
  <1>4. control'.command # "resume"
    BY <1>2 DEF Pause, Abort, Command
  <1> QED
    BY <1>1, <1>3, <1>4, FewerWriters, OthersAreCalm DEF SameTasks

LEMMA CommandCommitsIsCalm ==
  ASSUME Held, Calm, OneMore, SameTasks, CommandCommits
  PROVE  Calm'
  <1>1. ~Undisturbed' /\ UNCHANGED <<lease, pc, local, grants>> /\ control'.command # "resume"
    <2>1. ~Undisturbed'
      BY DEF CommandCommits, Calm, RunIsOurs, OneMore
    <2>2. UNCHANGED <<lease, pc, local, grants>>
      BY DEF CommandCommits, world
    <2>3. control'.command # "resume"
      BY DEF CommandCommits, None
    <2> QED
      BY <2>1, <2>2, <2>3
  <1>2. Writers' = Writers
    BY <1>1 DEF Writers, IsWritable, IsValid
  <1>3. run' = run \/ run'.status \in {"PAUSED", "ABORTED"}
    <2>1. ASSUME control.command # None, run.state_version = control.base.state_version,
                 run' = [Commanded EXCEPT !.state_version = @ + 1]
          PROVE  run'.status \in {"PAUSED", "ABORTED"}
      <3>1. run = control.base /\ control.command \in {"pause", "abort"}
        BY <2>1 DEF Held, ControlOK, IsPast, TypeOK, Controls, Calm, RunIsOurs
      <3>2. Commanded \in Runs /\ Commanded.status \in {"PAUSED", "ABORTED"}
        BY <2>1, <3>1, CommandedFacts
      <3> QED
        BY <2>1, <3>2 DEF Runs
    <2> QED
      BY <2>1 DEF CommandCommits
  <1> QED
    BY <1>1, <1>2, <1>3, OthersAreCalm

LEMMA CalmIdles == ASSUME Calm, OneMore, UNCHANGED vars PROVE Calm'
  BY QuietStays
  DEF vars, disk, world, Calm, RunIsOurs, GrantIsKnown, FailureIsDisturbed, FailureIsHarmless, RelayIsOver,
      OnlySourceGranted, Writers, IsWritable, IsValid

\* With one disturbance at most, neither a crash nor a second execution.
LEMMA OneFaultStays ==
  ASSUME Held, Held', Counted, [Next]_vars, OneFault'
  PROVE  OneFault /\ OneMore /\ ~Crash /\ ~RunAgain
  <1>1. Steady
    BY StepIsSteady
  <1>2. {"command", "host", "store", "guard", "expire", "beat", "crash", "again"} = Disturbances \ {"any"}
    BY DEF Disturbances
  <1>3. \A d \in Disturbances \ {"any"} :
          Happens(d) => OneFault /\ Undisturbed /\ ~Undisturbed' /\ d \notin {"crash", "again"}
    BY FirstDisturbance DEF Held
  <1>4. UNCHANGED left => OneFault /\ (Undisturbed' <=> Undisturbed)
    BY QuietStays
  <1>5. ~Happens("crash") /\ ~Happens("again")
    BY <1>2, <1>3
  <1>6. OneMore
    BY <1>1, <1>2, <1>3, <1>4 DEF OneMore, Steady
  <1>7. OneFault
    BY <1>1, <1>3, <1>4 DEF Steady
  <1> QED
    BY <1>5, <1>6, <1>7 DEF Crash, RunAgain

LEMMA CalmStays ==
  ASSUME Held, Followed, CompletedForItsTask, Calm, OneMore, [Next]_vars, ~Crash, ~RunAgain
  PROVE  Calm'
  <1>1. ~CommitContinuation => SameTasks
    BY TasksKept
  <1>2. CASE InterruptionNext
    <2>1. SameTasks
      BY <1>1, <1>2
      DEF CommitContinuation, InterruptionNext, Interrupt, Freeze, Inspect, IntendInterrupt, HostInterrupt,
          CompleteInterrupt, Rotate, CommitInterrupt, CheckInterrupt, FailInterrupt
    <2> QED
      BY <1>2, <2>1, InterruptionIsCalm DEF OneMore
  <1>3. CASE HandoffNext
    <2>1. SameTasks
      BY <1>1, <1>3
      DEF CommitContinuation, HandoffNext, ExportHandoff, ClaimAttempt, CheckClaim, IntendExport,
          LaunchCompression, AwaitHandoff, CompleteExport, CommitExport, CheckExport, FailExport
    <2> QED
      BY <1>3, <2>1, HandoffIsCalm DEF OneMore
  <1>4. CASE IntendStart \/ IntendGrant \/ IntendProgress
    BY <1>4, AppendIsCalm DEF IntendStart, IntendGrant, IntendProgress, AppendEffect
  <1>5. CASE CompleteStart \/ CompleteGrant \/ CompleteProgress
    BY <1>5, CompleteIsCalm DEF CompleteStart, CompleteGrant, CompleteProgress, CompleteEffect
  <1>6. CASE ContinuationNext
    BY <1>4, <1>5, <1>6, ContinueFromHandoffIsCalm, AssertLeaseIsCalm, StartTaskIsCalm, GrantWriteIsCalm,
       AwaitProgressIsCalm, CommitContinuationIsCalm, ChecksAreCalm, FreezeFailedIsCalm,
       FailContinuationIsCalm
    DEF ContinuationNext
  <1>7. CASE BeginRelay \/ CheckResumed \/ CloseFailure \/ CommitClosure
    BY <1>7, BeginRelayIsCalm, EndsAreCalm DEF OneMore
  <1>8. CASE CommandCommits
    <2>1. SameTasks
      <3>1. CASE CommitContinuation
        <4>1. pc' = pc /\ pc' # pc
          BY <1>8, <3>1 DEF CommandCommits, CommitContinuation, Continue, Goto
        <4> QED
          BY <4>1
      <3> QED
        BY <1>1, <3>1
    <2> QED
      BY <1>8, <2>1, CommandCommitsIsCalm
  <1>9. CASE Beat \/ Expire \/ Pause \/ Resume \/ Abort
    BY <1>9, BeatIsCalm, ExpireIsCalm, CommandsAreCalm
  <1>10. CASE UNCHANGED vars
    BY <1>10, CalmIdles
  <1> QED
    BY <1>2, <1>3, <1>6, <1>7, <1>8, <1>9, <1>10 DEF Next, ControllerNext

LEMMA InitContained == Init => Contained
  <1> SUFFICES ASSUME Init PROVE Contained
    OBVIOUS
  <1>1. Counted /\ CompletedForItsTask
    BY BudgetAssumption DEF Init, Counted, CompletedForItsTask
  <1>2. /\ pc = "idle" /\ pc \notin ContinueLabels /\ pc \notin EndLabels /\ pc \notin ActiveLabels
        /\ pc \notin GrantedLabels /\ pc \notin UngrantedLabels
    BY CalmLabels DEF Init
  <1>3. RunIsOurs
    BY <1>2 DEF Init, RunIsOurs, None
  <1>4. GrantIsKnown /\ FailureIsDisturbed /\ FailureIsHarmless
    BY <1>2 DEF GrantIsKnown, FailureIsDisturbed, FailureIsHarmless
  <1> QED
    BY <1>1, <1>3, <1>4 DEF Contained, Calm

LEMMA ContainedStays == Held /\ Held' /\ Followed /\ Contained /\ [Next]_vars => Contained'
  <1> SUFFICES ASSUME Held, Held', Followed, Contained, [Next]_vars PROVE Contained'
    OBVIOUS
  <1>1. Counted'
    BY StepIsSteady, CountedStays DEF Contained, Held
  <1>2. CompletedForItsTask'
    BY NamesStay DEF Contained
  <1>3. ASSUME OneFault' PROVE Calm'
    BY <1>3, OneFaultStays, CalmStays DEF Contained
  <1> QED
    BY <1>1, <1>2, <1>3 DEF Contained

LEMMA ContainedMeans == Contained => FailedRelayCannotWrite
  BY DEF Contained, Calm, RunIsOurs, FailureIsHarmless, RelayIsOver, FailedRelayCannotWrite

\* A relay that any one timeout, lost answer, failed write, expired lease, beat of the
\* heartbeat or control command made fail leaves a Run that needs its user and no
\* continuation that can write, or says that freezing failed.
THEOREM RelayFailureIsContained == Spec => []FailedRelayCannotWrite
  <1>1. Held /\ Followed /\ Contained /\ [Next]_vars => (Held /\ Followed /\ Contained)'
    BY HeldStays, FollowedHolds, ContainedStays
  <1>2. Init => Held /\ Followed /\ Contained
    BY InitHeld, InitFollowed, InitContained
  <1> QED
    BY <1>1, <1>2, ContainedMeans, PTL DEF Spec

=============================================================================
