-------------------------- MODULE CompactionMonitor --------------------------
(***************************************************************************)
(* CompactionMonitor (compaction-monitor/compaction-monitor.ts) with its   *)
(* TimeoutDeadlineScheduler and the loop of the ProductionOrchestrator     *)
(* that feeds it, for one Run and one Source Thread.  A compaction that    *)
(* the host starts opens a gate with a deadline; its completion or its     *)
(* deadline closes the gate, whichever is committed first.                 *)
(*                                                                         *)
(* The monitor's handlers are synchronous JavaScript: one at a time.  Each *)
(* access to the Run is a step of its own, because the control CLI is      *)
(* another process: it pauses, resumes and aborts between them.  The Run   *)
(* is the versioned register that RunStore implements.                     *)
(***************************************************************************)
EXTENDS Naturals

CONSTANTS
  Compactions,   \* compaction ids
  Threads,       \* thread ids events may carry
  SourceThread,  \* the Run's source_thread_id
  Timeout,       \* COMPACTION_TIMEOUT_MS
  Early,         \* how long before its deadline a timer may fire
  Disturbances,  \* what happens besides compactions, see below
  MaxTime,       \* bound on the clock
  MaxSequence,   \* bound on host_sequence
  MaxVersion     \* state_version from which on nothing new is started

None == "none"

\* "pause": pause and resume commands; "abort"; "close": the orchestrator closes
\* a failure with NEEDS_USER; "restart": the controller dies and its successor
\* calls recover; "load_fails", "cas_fails": state_persist_failed.
AllDisturbances == {"pause", "abort", "close", "restart", "load_fails", "cas_fails"}

ASSUME CompactionsAssumption == None \notin Compactions
ASSUME SourceThreadAssumption == SourceThread \in Threads
ASSUME TimingAssumption == Timeout \in Nat \ {0} /\ Early \in Nat
ASSUME DisturbancesAssumption == Disturbances \subseteq AllDisturbances
ASSUME BoundsAssumption == MaxTime \in Nat /\ MaxSequence \in Nat /\ MaxVersion \in Nat

VARIABLES
  now,               \* the clock
  run,               \* the persisted Run
  timers,            \* timers[c]: the timer armed for compaction c
  lastHostSequence,  \* lastHostSequences of the source thread
  observing,         \* the orchestrator still iterates over the task's events
  pc,                \* the next step of the handler in progress
  task,              \* what the handler in progress handles
  expected,          \* the state_version that handler was called with
  failure,           \* how its compareAndSwap failed
  loaded,            \* the state whose deadline is to be armed
  reply,             \* the decision of the last finished handler
  winner             \* history variable: what closed the last gate of c

memory == <<timers, lastHostSequence, observing>>
frame  == <<task, expected, failure, loaded>>
vars == <<now, run, memory, pc, frame, reply, winner>>

Statuses ==
  {"SLICE_RUNNING", "COMPACTION_WAIT", "SOURCE_INTERRUPTING", "PAUSED", "NEEDS_USER", "ABORTED"}

\* resume_to is paused_from_status in PAUSED, last_successful_status in NEEDS_USER.
Runs ==
  [state_version: Nat, status: Statuses, gate: Compactions \cup {None},
   deadline_at: Nat, resume_to: Statuses]

NoTimer == [state_version |-> None]
Timers  == [at: Nat, state_version: Nat]

EventKinds == {"started", "completed"}
Events ==
  [kind: EventKinds, thread: Threads, id: Compactions, sequence: Nat, at: Nat]
NoTask == [kind |-> None]
Tasks ==
  Events \cup [kind: {"deadline"}, id: Compactions, at: Nat] \cup [kind: {"recover"}]

\* Diagnostics that claim who won are kept; the others are just NOOPs.
Outcomes == {"WAITING", "RECOVERED", "TIMED_OUT", "NOOP", "completion_won", "deadline_won", "error"}
NoReply == [outcome |-> None]
Replies == [outcome: Outcomes, id: Compactions \cup {None}]

TypeOK ==
  /\ now \in Nat
  /\ run \in Runs
  /\ timers \in [Compactions -> Timers \cup {NoTimer}]
  /\ lastHostSequence \in Nat
  /\ observing \in BOOLEAN
  /\ pc \in {"idle", "load", "open", "recover", "interrupt", "arm"}
  /\ task \in Tasks \cup {NoTask}
  /\ expected \in Nat
  /\ failure \in {None, "stale_state", "state_persist_failed"}
  /\ loaded \in Runs
  /\ reply \in Replies \cup {NoReply}
  /\ winner \in [Compactions -> {None, "completion", "deadline"}]

InitialRun ==
  [state_version |-> 0, status |-> "SLICE_RUNNING", gate |-> None,
   deadline_at |-> 0, resume_to |-> "SLICE_RUNNING"]

Init ==
  /\ now = 0
  /\ run = InitialRun
  /\ timers = [c \in Compactions |-> NoTimer]
  /\ lastHostSequence = 0
  /\ observing = TRUE
  /\ pc = "idle"
  /\ task = NoTask
  /\ expected = 0
  /\ failure = None
  /\ loaded = InitialRun
  /\ reply = NoReply
  /\ winner = [c \in Compactions |-> None]

-----------------------------------------------------------------------------
\* The frame of a handler.

Call(t, version) ==
  /\ pc = "idle"
  /\ pc' = "load"
  /\ task' = t
  /\ expected' = version
  /\ reply' = NoReply
  /\ UNCHANGED <<failure, loaded>>

TaskId == IF task.kind = "recover" THEN run.gate ELSE task.id

Return(outcome) ==
  /\ pc' = "idle"
  /\ task' = NoTask
  /\ expected' = 0
  /\ failure' = None
  /\ loaded' = InitialRun
  /\ reply' = [outcome |-> outcome, id |-> TaskId]

\* observeDevelopmentEvents stops at the first error; nobody reads the result
\* of a timer callback.
ReturnError ==
  /\ Return("error")
  /\ observing' = (observing /\ task.kind \notin EventKinds)
  /\ UNCHANGED <<timers, lastHostSequence>>

Decide(outcome) == Return(outcome) /\ UNCHANGED memory

Goto(label) == pc' = label /\ UNCHANGED <<task, expected, failure, loaded, reply>>

\* scheduleDeadline: the callback keeps the state_version it was armed with.
Schedule(s) ==
  timers' = [timers EXCEPT ![s.gate] =
               [at |-> s.deadline_at, state_version |-> s.state_version]]
Cancel(c) == timers' = [timers EXCEPT ![c] = NoTimer]

-----------------------------------------------------------------------------
\* Entry points.

\* observeDevelopmentEvents loads the Run to learn the version it expects.
Deliver(e) ==
  /\ observing
  /\ run.state_version < MaxVersion
  /\ Call(e, run.state_version)
  /\ UNCHANGED <<now, run, memory, winner>>

TimerFires(c) ==
  /\ timers[c] # NoTimer
  /\ now + Early >= timers[c].at
  /\ Call([kind |-> "deadline", id |-> c, at |-> now], timers[c].state_version)
  /\ Cancel(c)
  /\ UNCHANGED <<now, run, lastHostSequence, observing, winner>>

Recover ==
  /\ "restart" \in Disturbances
  /\ Call([kind |-> "recover"], run.state_version)
  /\ UNCHANGED <<now, run, memory, winner>>

-----------------------------------------------------------------------------
\* Each handler loads the Run and decides what to attempt.

IgnoreEvent ==
  /\ pc = "load"
  /\ task.kind \in EventKinds
  /\ task.thread # SourceThread \/ task.sequence <= lastHostSequence
  /\ Decide("NOOP")
  /\ UNCHANGED <<now, run, winner>>

\* observeSequence
AcceptEvent(kind) ==
  /\ pc = "load"
  /\ task.kind = kind
  /\ task.thread = SourceThread
  /\ task.sequence > lastHostSequence

IsStale == run.state_version # expected

DuplicateStart ==
  run.status = "COMPACTION_WAIT" /\ run.gate = task.id

OnStarted ==
  /\ AcceptEvent("started")
  /\ CASE DuplicateStart -> Return("NOOP") /\ UNCHANGED observing
       [] ~DuplicateStart /\ IsStale -> Return("error") /\ observing' = FALSE
       [] ~DuplicateStart /\ ~IsStale /\ run.status # "SLICE_RUNNING" ->
            Return("NOOP") /\ UNCHANGED observing
       [] OTHER -> Goto("open") /\ UNCHANGED observing
  /\ lastHostSequence' = task.sequence
  /\ UNCHANGED <<now, run, timers, winner>>

\* Fault for the mutation runs: a timer is never early.
DeadlineVerdictAtOnce(s, c, fired, version) ==
  CASE s.gate = None                    -> "completion_won"
    [] s.gate # None /\ s.gate # c      -> "NOOP"
    [] s.gate = c /\ s.status = "SOURCE_INTERRUPTING" -> "deadline_won"
    [] s.gate = c /\ s.status \notin {"SOURCE_INTERRUPTING", "COMPACTION_WAIT"} -> "NOOP"
    [] s.gate = c /\ s.status = "COMPACTION_WAIT" ->
         IF s.state_version # version THEN "error" ELSE "interrupt"

\* What onDeadlineLoaded does for compaction c, in one word.
DeadlineVerdict(s, c, fired, version) ==
  CASE s.gate = None                    -> "completion_won"
    [] s.gate # None /\ s.gate # c      -> "NOOP"
    [] s.gate = c /\ s.status = "SOURCE_INTERRUPTING" -> "deadline_won"
    [] s.gate = c /\ s.status \notin {"SOURCE_INTERRUPTING", "COMPACTION_WAIT"} -> "NOOP"
    [] s.gate = c /\ s.status = "COMPACTION_WAIT" ->
         IF s.state_version # version THEN "error"
         ELSE IF fired < s.deadline_at THEN "reschedule" ELSE "interrupt"

\* Fault for the mutation runs: a completion counts whenever it was observed.
CompletionVerdictLate ==
  IF run.gate # task.id THEN "NOOP"
  ELSE CASE run.status = "SOURCE_INTERRUPTING" -> "deadline_won"
         [] run.status \notin {"SOURCE_INTERRUPTING", "COMPACTION_WAIT"} -> "NOOP"
         [] run.status = "COMPACTION_WAIT" -> IF IsStale THEN "error" ELSE "recover"

\* What onCompleted does.
CompletionVerdict ==
  IF run.gate # task.id THEN "NOOP"
  ELSE CASE run.status = "SOURCE_INTERRUPTING" -> "deadline_won"
         [] run.status \notin {"SOURCE_INTERRUPTING", "COMPACTION_WAIT"} -> "NOOP"
         [] run.status = "COMPACTION_WAIT" ->
              IF ~IsStale /\ task.at <= run.deadline_at THEN "recover"
              ELSE DeadlineVerdict(run, task.id, task.at, expected)

OnCompleted ==
  /\ AcceptEvent("completed")
  /\ lastHostSequence' = task.sequence
  /\ IF CompletionVerdict \in {"recover", "interrupt"}
     THEN Goto(CompletionVerdict) /\ UNCHANGED observing
     ELSE Return(CompletionVerdict) /\ observing' = (CompletionVerdict # "error")
  /\ UNCHANGED <<now, run, timers, winner>>

\* Fault for the mutation runs: an early timer is not armed again.
OnDeadlineOnce ==
  /\ pc = "load"
  /\ task.kind = "deadline"
  /\ LET verdict == DeadlineVerdict(run, task.id, task.at, expected)
     IN  CASE verdict = "interrupt"  -> Goto("interrupt") /\ UNCHANGED memory
           [] verdict = "reschedule" -> Decide("NOOP")
           [] OTHER -> Decide(verdict)
  /\ UNCHANGED <<now, run, winner>>

OnDeadline ==
  /\ pc = "load"
  /\ task.kind = "deadline"
  /\ LET verdict == DeadlineVerdict(run, task.id, task.at, expected)
     IN  CASE verdict = "interrupt"  -> Goto("interrupt") /\ UNCHANGED memory
           [] verdict = "reschedule" ->
                /\ Return("NOOP")
                /\ Schedule(run)
                /\ UNCHANGED <<lastHostSequence, observing>>
           [] OTHER -> Decide(verdict)
  /\ UNCHANGED <<now, run, winner>>

OnRecover ==
  /\ pc = "load"
  /\ task.kind = "recover"
  /\ CASE run.gate = None -> Decide("NOOP")
       [] run.gate # None /\ run.status = "SOURCE_INTERRUPTING" -> Decide("deadline_won")
       [] run.gate # None /\ run.status \notin {"SOURCE_INTERRUPTING", "COMPACTION_WAIT"} ->
            Decide("NOOP")
       [] OTHER ->
            IF IsStale THEN ReturnError
            ELSE IF now >= run.deadline_at
            THEN /\ pc' = "interrupt"
                 /\ task' = [kind |-> "deadline", id |-> run.gate, at |-> now]
                 /\ UNCHANGED <<memory, expected, failure, loaded, reply>>
            ELSE Return("WAITING") /\ Schedule(run) /\ UNCHANGED <<lastHostSequence, observing>>
  /\ UNCHANGED <<now, run, winner>>

\* load gives up after three attempts.
LoadFails ==
  /\ "load_fails" \in Disturbances
  /\ pc = "load" \/ failure # None
  /\ ReturnError
  /\ UNCHANGED <<now, run, winner>>

-----------------------------------------------------------------------------
\* The three transitions.  ready: no answer of compareAndSwap yet.

Transitioned ==
  CASE pc = "open" ->
         [run EXCEPT !.state_version = @ + 1, !.status = "COMPACTION_WAIT",
                     !.gate = task.id, !.deadline_at = task.at + Timeout]
    [] pc = "recover" ->
         [run EXCEPT !.state_version = @ + 1, !.status = "SLICE_RUNNING", !.gate = None,
                     !.deadline_at = 0]
    [] pc = "interrupt" ->
         [run EXCEPT !.state_version = @ + 1, !.status = "SOURCE_INTERRUPTING"]

Recorded ==
  winner' = [winner EXCEPT ![task.id] =
               CASE pc = "open"      -> None
                 [] pc = "recover"   -> "completion"
                 [] pc = "interrupt" -> "deadline"]

Commits ==
  /\ pc \in {"open", "recover", "interrupt"}
  /\ failure = None
  /\ run.state_version = expected
  /\ run' = Transitioned
  /\ Recorded

CasSucceeds ==
  /\ Commits
  /\ IF pc = "open"
     THEN /\ pc' = "arm"
          /\ loaded' = Transitioned
          /\ UNCHANGED <<memory, task, expected, failure, reply>>
     ELSE /\ Return(IF pc = "recover" THEN "RECOVERED" ELSE "TIMED_OUT")
          /\ Cancel(task.id)
          /\ UNCHANGED <<lastHostSequence, observing>>
  /\ UNCHANGED now

CasIsStale ==
  /\ pc \in {"open", "recover", "interrupt"}
  /\ failure = None
  /\ run.state_version # expected
  /\ failure' = "stale_state"
  /\ UNCHANGED <<now, run, memory, pc, task, expected, loaded, reply, winner>>

\* state_persist_failed leaves open whether the event was linked.
CasFails ==
  /\ "cas_fails" \in Disturbances
  /\ \/ Commits
     \/ /\ pc \in {"open", "recover", "interrupt"}
        /\ failure = None
        /\ UNCHANGED <<run, winner>>
  /\ failure' = "state_persist_failed"
  /\ UNCHANGED <<now, memory, pc, task, expected, loaded, reply>>

-----------------------------------------------------------------------------
\* After a failed compareAndSwap the Run is loaded again.

ReloadAfterOpen ==
  /\ pc = "open"
  /\ failure # None
  /\ IF ~DuplicateStart THEN ReturnError
     ELSE IF failure = "stale_state" THEN Decide("NOOP")
     ELSE /\ pc' = "arm"
          /\ loaded' = run
          /\ failure' = None
          /\ UNCHANGED <<memory, task, expected, reply>>
  /\ UNCHANGED <<now, run, winner>>

CompletionWon == run.status = "SLICE_RUNNING" /\ run.gate = None
DeadlineWon   == run.status = "SOURCE_INTERRUPTING" /\ run.gate = task.id

\* Fault for the mutation runs: whoever lost the race supposes that the other side won.
SupposeRace ==
  /\ pc \in {"recover", "interrupt"}
  /\ failure = "stale_state"
  /\ Decide(IF pc = "recover" THEN "deadline_won" ELSE "completion_won")
  /\ UNCHANGED <<now, run, winner>>

\* resolveRace
ResolveRace ==
  /\ pc \in {"recover", "interrupt"}
  /\ failure = "stale_state"
  /\ CASE DeadlineWon   -> Decide("deadline_won")
       [] CompletionWon -> Decide("completion_won")
       [] OTHER         -> ReturnError
  /\ UNCHANGED <<now, run, winner>>

\* reconcilePersistedTransition
Reconcile ==
  /\ pc \in {"recover", "interrupt"}
  /\ failure = "state_persist_failed"
  /\ CASE CompletionWon ->
            /\ Return(IF pc = "recover" THEN "RECOVERED" ELSE "completion_won")
            /\ Cancel(task.id)
            /\ UNCHANGED <<lastHostSequence, observing>>
       [] DeadlineWon ->
            /\ Return(IF pc = "interrupt" THEN "TIMED_OUT" ELSE "deadline_won")
            /\ Cancel(task.id)
            /\ UNCHANGED <<lastHostSequence, observing>>
       [] OTHER -> ReturnError
  /\ UNCHANGED <<now, run, winner>>

\* armDeadline
Arm ==
  /\ pc = "arm"
  /\ IF now >= loaded.deadline_at
     THEN /\ pc' = "interrupt"
          /\ expected' = loaded.state_version
          /\ UNCHANGED <<memory, task, failure, loaded, reply>>
     ELSE Return("WAITING") /\ Schedule(loaded) /\ UNCHANGED <<lastHostSequence, observing>>
  /\ UNCHANGED <<now, run, winner>>

-----------------------------------------------------------------------------
\* The rest of the system.

Move(to, resume_to) ==
  /\ run.state_version < MaxVersion
  /\ run' = [run EXCEPT !.state_version = @ + 1, !.status = to, !.resume_to = resume_to]

Listening == {"SLICE_RUNNING", "COMPACTION_WAIT", "SOURCE_INTERRUPTING"}

Pause ==
  /\ "pause" \in Disturbances
  /\ run.status \in Listening
  /\ Move("PAUSED", run.status)
  /\ UNCHANGED <<now, memory, pc, frame, reply, winner>>

\* A run that was closed while PAUSED has no status to come back to.
Resume ==
  /\ "pause" \in Disturbances
  /\ run.status \in {"PAUSED", "NEEDS_USER"}
  /\ run.resume_to \in Listening
  /\ Move(run.resume_to, run.resume_to)
  /\ UNCHANGED <<now, memory, pc, frame, reply, winner>>

Abort ==
  /\ "abort" \in Disturbances
  /\ run.status # "ABORTED"
  /\ Move("ABORTED", run.resume_to)
  /\ UNCHANGED <<now, memory, pc, frame, reply, winner>>

\* closeFailure, in the process of the monitor: never inside a handler.
Close ==
  /\ "close" \in Disturbances
  /\ pc = "idle"
  /\ run.status \notin {"NEEDS_USER", "ABORTED"}
  /\ Move("NEEDS_USER", run.status)
  /\ observing' = FALSE
  /\ UNCHANGED <<now, timers, lastHostSequence, pc, frame, reply, winner>>

Restart ==
  /\ "restart" \in Disturbances
  /\ timers' = [c \in Compactions |-> NoTimer]
  /\ lastHostSequence' = 0
  /\ observing' = TRUE
  /\ pc' = "idle"
  /\ task' = NoTask
  /\ expected' = 0
  /\ failure' = None
  /\ loaded' = InitialRun
  /\ reply' = NoReply
  /\ UNCHANGED <<now, run, winner>>

Tick ==
  /\ now < MaxTime
  /\ now' = now + 1
  /\ UNCHANGED <<run, memory, pc, frame, reply, winner>>

\* The events a host may report now, ordered, repeated or out of order, about
\* what it observed at most now; deadlines lie within the clock's bound.
Reportable ==
  {e \in [kind: EventKinds, thread: Threads, id: Compactions,
          sequence: 1 .. MaxSequence, at: 0 .. MaxTime] :
     e.at <= now /\ (e.kind = "started" => e.at + Timeout <= MaxTime)}

Handler ==
  \/ IgnoreEvent
  \/ OnStarted
  \/ OnCompleted
  \/ OnDeadline
  \/ OnRecover
  \/ CasSucceeds
  \/ CasIsStale
  \/ ReloadAfterOpen
  \/ ResolveRace
  \/ Reconcile
  \/ Arm

Next ==
  \/ \E e \in Reportable : Deliver(e)
  \/ \E c \in Compactions : TimerFires(c)
  \/ Recover
  \/ Handler
  \/ LoadFails
  \/ CasFails
  \/ Pause
  \/ Resume
  \/ Abort
  \/ Close
  \/ Restart
  \/ Tick

Spec == Init /\ [][Next]_vars

\* A handler that began runs to its end, the clock goes on, and the event loop
\* comes back to expired timers however many events arrive.
Fairness ==
  /\ WF_vars(Handler)
  /\ WF_vars(Tick)
  /\ \A c \in Compactions : SF_vars(TimerFires(c))

FairSpec == Spec /\ Fairness

-----------------------------------------------------------------------------
\* Properties.

\* The source is never interrupted before the deadline of the compaction that
\* is pending, be it by a late timer of another one or an early callback.
NoEarlyInterruption ==
  [][run.status # "SOURCE_INTERRUPTING" /\ run'.status = "SOURCE_INTERRUPTING"
       /\ run.status = "COMPACTION_WAIT" =>
       run'.gate = run.gate /\ now >= run.deadline_at]_vars

\* A gate is only cleared by the completion of the compaction that opened it,
\* observed at its deadline at the latest, whatever pauses, restarts and late
\* handlers happened in between.
OnlyPunctualCompletionRecovers ==
  [][run.gate # None /\ run'.gate # run.gate =>
       /\ run'.gate = None
       /\ task.kind = "completed"
       /\ task.id = run.gate
       /\ task.at <= run.deadline_at]_vars

\* What a handler reports about the race is what was committed, also when its
\* own compareAndSwap failed half-way or lost.
Claimed(outcome) ==
  CASE outcome \in {"RECOVERED", "completion_won"} -> {"completion"}
    [] outcome \in {"TIMED_OUT", "deadline_won"}   -> {"deadline"}
    [] OTHER                                       -> {None, "completion", "deadline"}

DecisionsAreTrue ==
  [][reply = NoReply /\ reply' # NoReply /\ reply'.id # None =>
       winner'[reply'.id] \in Claimed(reply'.outcome)]_vars

\* The monitor's state is what its handlers take it for, and what they answer is true.
MonitorIsTrue == []TypeOK /\ DecisionsAreTrue

\* Somebody in this process is responsible for the deadline of the pending gate:
\* a timer with the Run's version, or the handler that is about to arm one.
Guarded ==
  /\ run.status = "COMPACTION_WAIT"
  /\ \/ timers[run.gate] \in Timers /\ timers[run.gate].state_version = run.state_version
     \/ pc \in {"open", "arm"} /\ task.id = run.gate

\* What may take the timer away: a handler that gave up with an error nobody reads,
\* or the end of the process.
DeadlineLost ==
  /\ run.gate # None /\ timers[run.gate] = NoTimer
  /\ reply.outcome = "error" \/ (pc = "idle" /\ reply = NoReply)

\* A wait whose deadline is armed ends, however early the timer fires and whatever
\* events arrive meanwhile, unless the store fails or the process dies.
GuardedWaitsEnd ==
  Guarded ~> (run.status # "COMPACTION_WAIT" \/ DeadlineLost)

\* A Run never waits for a compaction for ever: the deadline is there.  The code does
\* not keep this one: a pause and a resume outdate the timer (see GuardedWaitsEnd).
WaitsEnd == []<>(run.status # "COMPACTION_WAIT")

=============================================================================
