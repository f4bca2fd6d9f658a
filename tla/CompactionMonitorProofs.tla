------------------------ MODULE CompactionMonitorProofs ------------------------
(***************************************************************************)
(* The monitor never interrupts early, clears a gate only for its punctual *)
(* completion and announces only what was committed, for any number of     *)
(* compactions, threads and events, any timeout and earliness of timers,   *)
(* and with every disturbance.                                             *)
(*                                                                         *)
(* The argument: whatever a handler decided holds of the version of the    *)
(* Run it expects, and the commit is refused for any other (Decided).      *)
(* Between two handlers only pauses, aborts and closures change the Run,   *)
(* and they keep its gate, its deadline and what it comes back to          *)
(* (GateAgrees).  A timer, and a handler that a timer called, is about the *)
(* pending gate or about one that its completion closed (Known), so that a *)
(* cleared gate means that the completion won.                             *)
(***************************************************************************)
EXTENDS CompactionMonitor, TLAPS

\* The Run is in status s, or was stopped in it.
IsOrWas(s) ==
  \/ run.status = s
  \/ run.status \in {"PAUSED", "NEEDS_USER"} /\ run.resume_to = s

GateAgrees ==
  /\ IsOrWas("SLICE_RUNNING") => run.gate = None
  /\ IsOrWas("COMPACTION_WAIT") => run.gate # None
  /\ IsOrWas("SOURCE_INTERRUPTING") => run.gate # None /\ winner[run.gate] = "deadline"

\* Compaction c is the pending one, or its completion closed its gate.
Known(c) == run.gate = c \/ winner[c] = "completion"

TimersAgree ==
  \A c \in Compactions : timers[c] # NoTimer =>
    timers[c].state_version <= run.state_version /\ Known(c)

IsCurrent == run.state_version = expected

\* What a handler that is about to commit, or to arm a timer, has found.
Decided ==
  CASE pc = "open" ->
         /\ task.kind = "started"
         /\ IsCurrent => run.status = "SLICE_RUNNING"
    [] pc = "recover" ->
         /\ task.kind = "completed" /\ Known(task.id)
         /\ IsCurrent => run.status = "COMPACTION_WAIT" /\ run.gate = task.id
                           /\ task.at <= run.deadline_at
    [] pc = "interrupt" ->
         /\ task.kind \in {"started", "completed", "deadline"} /\ Known(task.id)
         /\ IsCurrent => run.status = "COMPACTION_WAIT" /\ run.gate = task.id
                           /\ now >= run.deadline_at
    [] pc = "arm" ->
         /\ task.kind = "started" /\ run.gate = task.id
         /\ loaded.status = "COMPACTION_WAIT" /\ loaded.gate = task.id
         /\ loaded.state_version <= run.state_version
         /\ loaded.state_version = run.state_version => loaded = run
    [] OTHER -> TRUE

HandlerInv ==
  /\ task = NoTask <=> pc = "idle"
  /\ expected <= run.state_version
  /\ failure # None => pc \in {"open", "recover", "interrupt"}
  /\ task.kind \in {"completed", "deadline"} => task.at <= now
  /\ task.kind = "deadline" => Known(task.id)
  /\ Decided

Inv == TypeOK /\ GateAgrees /\ TimersAgree /\ HandlerInv

-----------------------------------------------------------------------------
\* Records of different kinds.

LEMMA TaskFacts ==
  ASSUME NEW t \in Tasks \cup {NoTask}
  PROVE  /\ t.kind \in EventKinds =>
              /\ t \in Events
              /\ t.id \in Compactions /\ t.at \in Nat
              /\ t.thread \in Threads /\ t.sequence \in Nat
         /\ t.kind = "deadline" => t.id \in Compactions /\ t.at \in Nat
         /\ t # NoTask => t \in Tasks /\ t.kind \in EventKinds \cup {"deadline", "recover"}
  <1>1. CASE t \in Events
    BY <1>1 DEF Events, EventKinds, NoTask, None, Tasks
  <1>2. CASE t \in [kind : {"deadline"}, id : Compactions, at : Nat]
    BY <1>2 DEF EventKinds, NoTask, None, Tasks
  <1>3. CASE t \in [kind : {"recover"}]
    BY <1>3 DEF EventKinds, NoTask, None, Tasks
  <1>4. CASE t = NoTask
    BY <1>4 DEF EventKinds, NoTask, None
  <1> QED
    BY <1>1, <1>2, <1>3, <1>4 DEF Tasks

LEMMA TimerFacts ==
  ASSUME NEW t \in Timers \cup {NoTimer}, t # NoTimer
  PROVE  t.at \in Nat /\ t.state_version \in Nat
  BY DEF Timers

-----------------------------------------------------------------------------
\* Types.

LEMMA VerdictFacts ==
  ASSUME NEW s \in Runs, NEW c \in Compactions, NEW fired \in Nat, NEW version \in Nat,
         NEW v, v = DeadlineVerdict(s, c, fired, version)
  PROVE  /\ v \in {"completion_won", "NOOP", "deadline_won", "error", "interrupt", "reschedule"}
         /\ v = "completion_won" => s.gate = None
         /\ v = "deadline_won" => s.gate = c /\ s.status = "SOURCE_INTERRUPTING"
         /\ v \in {"interrupt", "reschedule"} =>
              s.gate = c /\ s.status = "COMPACTION_WAIT" /\ s.state_version = version
         /\ v = "interrupt" => fired >= s.deadline_at
         /\ v = "reschedule" => fired < s.deadline_at
  <1>1. s.gate # None \/ s.gate # c
    BY CompactionsAssumption
  <1>2. s.deadline_at \in Nat
    BY DEF Runs
  <1>3. CASE s.gate = None
    BY <1>1, <1>3 DEF DeadlineVerdict
  <1>4. CASE s.gate # None /\ s.gate # c
    BY <1>4 DEF DeadlineVerdict
  <1>5. CASE s.gate = c /\ s.status = "SOURCE_INTERRUPTING"
    BY <1>1, <1>5 DEF DeadlineVerdict
  <1>6. CASE s.gate = c /\ s.status \notin {"SOURCE_INTERRUPTING", "COMPACTION_WAIT"}
    BY <1>1, <1>6 DEF DeadlineVerdict
  <1>7. CASE s.gate = c /\ s.status = "COMPACTION_WAIT"
    BY <1>1, <1>2, <1>7 DEF DeadlineVerdict
  <1> QED
    BY <1>3, <1>4, <1>5, <1>6, <1>7

LEMMA CompletionFacts ==
  ASSUME TypeOK, task.kind = "completed"
  PROVE  /\ CompletionVerdict \in {"recover", "NOOP", "deadline_won", "error", "interrupt"}
         /\ CompletionVerdict = "deadline_won" =>
              run.gate = task.id /\ run.status = "SOURCE_INTERRUPTING"
         /\ CompletionVerdict \in {"recover", "interrupt"} =>
              run.gate = task.id /\ run.status = "COMPACTION_WAIT" /\ IsCurrent
         /\ CompletionVerdict = "recover" => task.at <= run.deadline_at
         /\ CompletionVerdict = "interrupt" => task.at >= run.deadline_at
  <1> DEFINE v == DeadlineVerdict(run, task.id, task.at, expected)
  <1>1. /\ run \in Runs /\ task.id \in Compactions /\ task.at \in Nat /\ expected \in Nat
        /\ run.deadline_at \in Nat
    BY TaskFacts DEF TypeOK, EventKinds, Runs
  <1>2. CASE run.gate # task.id
    BY <1>2 DEF CompletionVerdict
  <1>3. CASE run.gate = task.id /\ run.status = "SOURCE_INTERRUPTING"
    BY <1>3 DEF CompletionVerdict
  <1>4. CASE run.gate = task.id /\ run.status \notin {"SOURCE_INTERRUPTING", "COMPACTION_WAIT"}
    BY <1>4 DEF CompletionVerdict
  <1>5. CASE run.gate = task.id /\ run.status = "COMPACTION_WAIT"
    <2>1. CASE IsCurrent /\ task.at <= run.deadline_at
      BY <1>5, <2>1 DEF CompletionVerdict, IsStale, IsCurrent
    <2>2. CASE ~(IsCurrent /\ task.at <= run.deadline_at)
      <3>1. CompletionVerdict = v
        BY <1>5, <2>2 DEF CompletionVerdict, IsStale, IsCurrent
      <3>2. run.gate # None
        BY <1>1, <1>5, CompactionsAssumption
      <3>3. v = IF ~IsCurrent THEN "error"
                ELSE IF task.at < run.deadline_at THEN "reschedule" ELSE "interrupt"
        BY <1>1, <1>5, <3>2 DEF DeadlineVerdict, IsCurrent
      <3> QED
        BY <1>1, <1>5, <2>2, <3>1, <3>3
    <2> QED
      BY <2>1, <2>2
  <1> QED
    BY <1>2, <1>3, <1>4, <1>5

LEMMA ReturnTypes ==
  ASSUME TypeOK, task # NoTask, NEW outcome \in Outcomes, Return(outcome)
  PROVE  /\ pc' = "idle" /\ task' = NoTask /\ expected' = 0 /\ failure' = None
         /\ loaded' = InitialRun /\ loaded' \in Runs
         /\ reply' = [outcome |-> outcome, id |-> TaskId] /\ reply' \in Replies
         /\ TaskId \in Compactions \cup {None}
         /\ task.kind # "recover" => TaskId = task.id /\ TaskId \in Compactions
         /\ task.kind = "recover" => TaskId = run.gate
  <1>1. task \in Tasks \cup {NoTask} /\ run.gate \in Compactions \cup {None}
    BY DEF TypeOK, Runs
  <1>2. /\ TaskId \in Compactions \cup {None}
        /\ task.kind # "recover" => TaskId = task.id /\ TaskId \in Compactions
        /\ task.kind = "recover" => TaskId = run.gate
    BY <1>1, TaskFacts DEF TaskId
  <1>3. InitialRun \in Runs
    BY DEF InitialRun, Runs, Statuses
  <1> QED
    BY <1>2, <1>3 DEF Return, Replies

LEMMA ScheduleTypes ==
  ASSUME TypeOK, NEW s \in Runs, Schedule(s)
  PROVE  timers' \in [Compactions -> Timers \cup {NoTimer}]
  BY DEF TypeOK, Schedule, Runs, Timers

LEMMA CancelTypes ==
  ASSUME TypeOK, NEW c, Cancel(c)
  PROVE  timers' \in [Compactions -> Timers \cup {NoTimer}]
  BY DEF TypeOK, Cancel

LEMMA RunFacts ==
  ASSUME NEW r \in Runs
  PROVE  /\ r.state_version \in Nat /\ r.state_version + 1 \in Nat /\ r.deadline_at \in Nat
         /\ r.status \in Statuses /\ r.resume_to \in Statuses /\ r.gate \in Compactions \cup {None}
  BY DEF Runs

LEMMA TransitionedTypes ==
  ASSUME Inv, Commits
  PROVE  /\ run' \in Runs
         /\ winner' \in [Compactions -> {None, "completion", "deadline"}]
         /\ task.id \in Compactions /\ task.kind \in EventKinds \cup {"deadline"}
  <1>1. /\ task \in Tasks \cup {NoTask} /\ run \in Runs /\ Timeout \in Nat
        /\ winner \in [Compactions -> {None, "completion", "deadline"}]
        /\ run.state_version + 1 \in Nat
    BY TimingAssumption, RunFacts DEF Inv, TypeOK
  <1>2. task.kind \in EventKinds \cup {"deadline"}
    BY DEF Inv, HandlerInv, Decided, Commits, EventKinds
  <1>3. task.id \in Compactions /\ task.at \in Nat
    BY <1>1, <1>2, TaskFacts
  <1>4. run' \in Runs
    <2>1. CASE pc = "open"
      <3>1. run' = [run EXCEPT !.state_version = @ + 1, !.status = "COMPACTION_WAIT",
                               !.gate = task.id, !.deadline_at = task.at + Timeout]
        BY <2>1 DEF Commits, Transitioned
      <3>2. task.at + Timeout \in Nat
        BY <1>1, <1>3
      <3> QED
        BY <1>1, <1>3, <3>1, <3>2 DEF Runs, Statuses
    <2>2. CASE pc = "recover"
      <3>1. run' = [run EXCEPT !.state_version = @ + 1, !.status = "SLICE_RUNNING",
                               !.gate = None, !.deadline_at = 0]
        BY <2>2 DEF Commits, Transitioned
      <3> QED
        BY <1>1, <3>1 DEF Runs, Statuses
    <2>3. CASE pc = "interrupt"
      <3>1. run' = [run EXCEPT !.state_version = @ + 1, !.status = "SOURCE_INTERRUPTING"]
        BY <2>3 DEF Commits, Transitioned
      <3> QED
        BY <1>1, <3>1 DEF Runs, Statuses
    <2> QED
      BY <2>1, <2>2, <2>3 DEF Commits
  <1>5. winner' \in [Compactions -> {None, "completion", "deadline"}]
    <2>1. CASE pc = "open"
      BY <1>1, <2>1 DEF Commits, Recorded
    <2>2. CASE pc = "recover"
      BY <1>1, <2>2 DEF Commits, Recorded
    <2>3. CASE pc = "interrupt"
      BY <1>1, <2>3 DEF Commits, Recorded
    <2> QED
      BY <2>1, <2>2, <2>3 DEF Commits
  <1> QED
    BY <1>2, <1>3, <1>4, <1>5

LEMMA MoveTypes ==
  ASSUME TypeOK, NEW to \in Statuses, NEW resume_to \in Statuses, Move(to, resume_to)
  PROVE  run' \in Runs
  <1>1. run \in Runs /\ run.state_version + 1 \in Nat
    BY RunFacts DEF TypeOK
  <1> QED
    BY <1>1 DEF Move, Runs

LEMMA AnswerTypes ==
  ASSUME TypeOK, task # NoTask, NEW outcome \in Outcomes, Return(outcome),
         UNCHANGED <<now, run, winner>>,
         timers' \in [Compactions -> Timers \cup {NoTimer}],
         lastHostSequence' \in Nat, observing' \in BOOLEAN
  PROVE  TypeOK'
  BY ReturnTypes DEF TypeOK

LEMMA DecisionTypes ==
  ASSUME TypeOK, task # NoTask, UNCHANGED <<now, run, winner>>,
         NEW outcome \in Outcomes,
         \/ Decide(outcome)
         \/ Return(outcome) /\ Schedule(run) /\ UNCHANGED <<lastHostSequence, observing>>
         \/ Return(outcome) /\ Cancel(task.id) /\ UNCHANGED <<lastHostSequence, observing>>
  PROVE  TypeOK'
  <1>1. run \in Runs /\ lastHostSequence \in Nat /\ observing \in BOOLEAN
        /\ timers \in [Compactions -> Timers \cup {NoTimer}]
    BY DEF TypeOK
  <1>2. CASE Decide(outcome)
    BY <1>1, <1>2, AnswerTypes DEF Decide, memory
  <1>3. CASE Return(outcome) /\ Schedule(run) /\ UNCHANGED <<lastHostSequence, observing>>
    BY <1>1, <1>3, AnswerTypes, ScheduleTypes
  <1>4. CASE Return(outcome) /\ Cancel(task.id) /\ UNCHANGED <<lastHostSequence, observing>>
    BY <1>1, <1>4, AnswerTypes, CancelTypes
  <1> QED
    BY <1>2, <1>3, <1>4

LEMMA ErrorTypes ==
  ASSUME TypeOK, task # NoTask, UNCHANGED <<now, run, winner>>, ReturnError
  PROVE  TypeOK'
  <1>1. Return("error") /\ "error" \in Outcomes
        /\ UNCHANGED <<timers, lastHostSequence>> /\ observing' \in BOOLEAN
    BY DEF ReturnError, Outcomes, TypeOK
  <1> QED
    BY <1>1, AnswerTypes DEF TypeOK

LEMMA TypesAreKept ==
  ASSUME Inv, [Next]_vars
  PROVE  TypeOK'
  <1> USE DEF memory, frame
  <1>1. TypeOK /\ HandlerInv /\ (pc # "idle" => task # NoTask)
    BY DEF Inv, HandlerInv
  <1>2. /\ run \in Runs /\ run.state_version \in Nat /\ run.status \in Statuses
        /\ run.resume_to \in Statuses /\ run.gate \in Compactions \cup {None}
        /\ run.deadline_at \in Nat
    BY <1>1 DEF TypeOK, Runs
  <1>3. InitialRun \in Runs
    BY DEF InitialRun, Runs, Statuses
  <1>4. CASE UNCHANGED vars
    BY <1>1, <1>4 DEF TypeOK, vars
  <1>5. ASSUME NEW e \in Reportable, Deliver(e) PROVE TypeOK'
    <2>1. e \in Events
      BY BoundsAssumption DEF Reportable, Events
    <2> QED
      BY <1>1, <1>2, <1>5, <2>1 DEF TypeOK, Deliver, Call, Tasks
  <1>6. ASSUME NEW c \in Compactions, TimerFires(c) PROVE TypeOK'
    <2>1. timers[c].state_version \in Nat
      BY <1>1, <1>6, TimerFacts DEF TypeOK, TimerFires
    <2>2. [kind |-> "deadline", id |-> c, at |-> now] \in Tasks
      BY <1>1 DEF TypeOK, Tasks
    <2>3. timers' \in [Compactions -> Timers \cup {NoTimer}]
      BY <1>1, <1>6, CancelTypes DEF TimerFires
    <2> QED
      BY <1>1, <1>6, <2>1, <2>2, <2>3 DEF TypeOK, TimerFires, Call
  <1>7. CASE Recover
    BY <1>1, <1>2, <1>7 DEF TypeOK, Recover, Call, Tasks
  <1>8. CASE IgnoreEvent
    BY <1>1, <1>8, ReturnTypes DEF TypeOK, IgnoreEvent, Decide, Outcomes
  <1>9. CASE OnStarted
    <2>1. lastHostSequence' \in Nat
      BY <1>1, <1>9, TaskFacts DEF TypeOK, OnStarted, AcceptEvent, EventKinds
    <2>2. \/ Return("NOOP") /\ observing' = observing
          \/ Return("error") /\ observing' = FALSE
          \/ Goto("open") /\ observing' = observing
      BY <1>9 DEF OnStarted
    <2>3. task # NoTask /\ UNCHANGED <<now, run, timers, winner>>
      BY <1>1, <1>9 DEF OnStarted, AcceptEvent
    <2>4. CASE Return("NOOP") /\ observing' = observing
      BY <1>1, <2>1, <2>3, <2>4, AnswerTypes DEF TypeOK, Outcomes
    <2>5. CASE Return("error") /\ observing' = FALSE
      BY <1>1, <2>1, <2>3, <2>5, AnswerTypes DEF TypeOK, Outcomes
    <2>6. CASE Goto("open") /\ observing' = observing
      BY <1>1, <2>1, <2>3, <2>6 DEF TypeOK, Goto
    <2> QED
      BY <2>2, <2>4, <2>5, <2>6
  <1>10. CASE OnCompleted
    <2>1. lastHostSequence' \in Nat
      BY <1>1, <1>10, TaskFacts DEF TypeOK, OnCompleted, AcceptEvent, EventKinds
    <2>2. \/ Goto("recover") /\ observing' = observing
          \/ Goto("interrupt") /\ observing' = observing
          \/ \E v \in Outcomes : Return(v) /\ observing' \in BOOLEAN
      BY <1>1, <1>10, CompletionFacts DEF OnCompleted, AcceptEvent, Outcomes
    <2> QED
      BY <1>1, <1>10, <2>1, <2>2, ReturnTypes DEF TypeOK, OnCompleted, AcceptEvent, Goto
  <1>11. CASE OnDeadline
    <2> DEFINE v == DeadlineVerdict(run, task.id, task.at, expected)
    <2>1. task.id \in Compactions /\ task.at \in Nat /\ expected \in Nat
      BY <1>1, <1>11, TaskFacts DEF TypeOK, OnDeadline
    <2>2. v \in {"completion_won", "NOOP", "deadline_won", "error", "interrupt", "reschedule"}
      BY <1>2, <2>1, VerdictFacts
    <2>3. \/ Goto("interrupt") /\ UNCHANGED memory
          \/ Return("NOOP") /\ Schedule(run) /\ UNCHANGED <<lastHostSequence, observing>>
          \/ \E o \in Outcomes : Decide(o)
      <3>1. CASE v = "interrupt"
        BY <1>11, <3>1 DEF OnDeadline
      <3>2. CASE v = "reschedule"
        BY <1>11, <3>2 DEF OnDeadline
      <3>3. CASE v \in {"completion_won", "NOOP", "deadline_won", "error"}
        BY <1>11, <3>3 DEF OnDeadline, Outcomes
      <3> QED
        BY <2>2, <3>1, <3>2, <3>3
    <2> QED
      BY <1>1, <1>2, <1>11, <2>3, ReturnTypes, ScheduleTypes
        DEF TypeOK, OnDeadline, Goto, Decide, Outcomes
  <1>12. CASE OnRecover
    <2>1. task # NoTask /\ UNCHANGED <<now, run, winner>>
      BY <1>1, <1>12 DEF OnRecover
    <2>2. CASE \E o \in Outcomes : Decide(o)
      BY <1>1, <2>1, <2>2, DecisionTypes
    <2>3. CASE ReturnError
      BY <1>1, <2>1, <2>3, ErrorTypes
    <2>4. CASE /\ pc' = "interrupt" /\ run.gate # None
               /\ task' = [kind |-> "deadline", id |-> run.gate, at |-> now]
               /\ UNCHANGED <<memory, expected, failure, loaded, reply>>
      <3>1. task' \in Tasks
        BY <1>1, <1>2, <2>4 DEF TypeOK, Tasks
      <3> QED
        BY <1>1, <2>1, <2>4, <3>1 DEF TypeOK
    <2>5. CASE Return("WAITING") /\ Schedule(run) /\ UNCHANGED <<lastHostSequence, observing>>
      BY <1>1, <2>1, <2>5, DecisionTypes DEF Outcomes
    <2> QED
      <3>1. CASE run.gate = None
        BY <1>12, <2>2, <3>1 DEF OnRecover, Outcomes
      <3>2. CASE run.gate # None /\ run.status # "COMPACTION_WAIT"
        BY <1>12, <2>2, <3>2 DEF OnRecover, Outcomes
      <3>3. CASE run.gate # None /\ run.status = "COMPACTION_WAIT"
        BY <1>12, <2>3, <2>4, <2>5, <3>3 DEF OnRecover
      <3> QED
        BY <3>1, <3>2, <3>3
  <1>13. CASE LoadFails
    BY <1>1, <1>13, ErrorTypes DEF LoadFails, HandlerInv
  <1>14. CASE CasSucceeds
    <2>1. run' \in Runs /\ winner' \in [Compactions -> {None, "completion", "deadline"}]
      BY <1>14, TransitionedTypes DEF CasSucceeds
    <2>2. task # NoTask
      BY <1>1, <1>14 DEF CasSucceeds, Commits
    <2>3. CASE pc = "open"
      BY <1>1, <1>14, <2>1, <2>3 DEF TypeOK, CasSucceeds, Commits
    <2>4. CASE pc # "open"
      BY <1>1, <1>14, <2>1, <2>2, <2>4, ReturnTypes, CancelTypes DEF TypeOK, CasSucceeds, Outcomes
    <2> QED
      BY <2>3, <2>4
  <1>15. CASE CasIsStale
    BY <1>1, <1>15 DEF TypeOK, CasIsStale
  <1>16. CASE CasFails
    BY <1>1, <1>16, TransitionedTypes DEF TypeOK, CasFails
  <1>17. CASE ReloadAfterOpen
    <2>1. task # NoTask /\ UNCHANGED <<now, run, winner>>
      BY <1>1, <1>17 DEF ReloadAfterOpen
    <2>2. CASE ReturnError
      BY <1>1, <2>1, <2>2, ErrorTypes
    <2>3. CASE Decide("NOOP")
      BY <1>1, <2>1, <2>3, DecisionTypes DEF Outcomes
    <2>4. CASE pc' = "arm" /\ loaded' = run /\ failure' = None
               /\ UNCHANGED <<memory, task, expected, reply>>
      BY <1>1, <2>1, <2>4 DEF TypeOK
    <2> QED
      BY <1>17, <2>2, <2>3, <2>4 DEF ReloadAfterOpen
  <1>18. CASE ResolveRace
    <2>1. task # NoTask /\ UNCHANGED <<now, run, winner>>
      BY <1>1, <1>18 DEF ResolveRace
    <2>2. Decide("deadline_won") \/ Decide("completion_won") \/ ReturnError
      BY <1>18 DEF ResolveRace
    <2> QED
      BY <1>1, <2>1, <2>2, DecisionTypes, ErrorTypes DEF Outcomes
  <1>19. CASE Reconcile
    <2>1. task # NoTask /\ UNCHANGED <<now, run, winner>>
      BY <1>1, <1>19 DEF Reconcile
    <2>2. ASSUME NEW o \in Outcomes, Return(o) /\ Cancel(task.id) /\ UNCHANGED <<lastHostSequence, observing>>
          PROVE TypeOK'
      BY <1>1, <2>1, <2>2, DecisionTypes
    <2>3. \/ \E o \in Outcomes : Return(o) /\ Cancel(task.id) /\ UNCHANGED <<lastHostSequence, observing>>
          \/ ReturnError
      <3>1. CASE CompletionWon
        BY <1>19, <3>1 DEF Reconcile, Outcomes
      <3>2. CASE ~CompletionWon /\ DeadlineWon
        BY <1>19, <3>2 DEF Reconcile, Outcomes
      <3>3. CASE ~CompletionWon /\ ~DeadlineWon
        BY <1>19, <3>3 DEF Reconcile
      <3> QED
        BY <3>1, <3>2, <3>3
    <2> QED
      BY <1>1, <2>1, <2>2, <2>3, ErrorTypes
  <1>20. CASE Arm
    BY <1>1, <1>20, ReturnTypes, ScheduleTypes DEF TypeOK, Arm, Runs, Outcomes
  <1>21. CASE Pause
    <2>1. run' \in Runs
      BY <1>1, <1>2, <1>21, MoveTypes DEF Pause, Statuses
    <2> QED
      BY <1>1, <1>21, <2>1 DEF TypeOK, Pause
  <1>22. CASE Resume
    <2>1. run' \in Runs
      BY <1>1, <1>2, <1>22, MoveTypes DEF Resume
    <2> QED
      BY <1>1, <1>22, <2>1 DEF TypeOK, Resume
  <1>23. CASE Abort
    <2>1. run' \in Runs
      BY <1>1, <1>2, <1>23, MoveTypes DEF Abort, Statuses
    <2> QED
      BY <1>1, <1>23, <2>1 DEF TypeOK, Abort
  <1>24. CASE Close
    <2>1. run' \in Runs
      BY <1>1, <1>2, <1>24, MoveTypes DEF Close, Statuses
    <2> QED
      BY <1>1, <1>24, <2>1 DEF TypeOK, Close
  <1>25. CASE Restart
    BY <1>1, <1>3, <1>25 DEF TypeOK, Restart
  <1>26. CASE Tick
    BY <1>1, <1>26 DEF TypeOK, Tick
  <1> QED
    BY <1>4, <1>5, <1>6, <1>7, <1>8, <1>9, <1>10, <1>11, <1>12, <1>13, <1>14, <1>15, <1>16,
       <1>17, <1>18, <1>19, <1>20, <1>21, <1>22, <1>23, <1>24, <1>25, <1>26 DEF Next, Handler

-----------------------------------------------------------------------------
\* What steps do to the parts of the invariant.

LEMMA Facts ==
  ASSUME Inv
  PROVE  /\ TypeOK /\ GateAgrees /\ TimersAgree /\ HandlerInv /\ Decided
         /\ run \in Runs /\ run.state_version \in Nat /\ run.deadline_at \in Nat
         /\ run.gate \in Compactions \cup {None}
         /\ expected \in Nat /\ now \in Nat /\ expected <= run.state_version
         /\ task \in Tasks \cup {NoTask}
         /\ (pc # "idle" => task # NoTask)
         /\ loaded \in Runs /\ loaded.state_version \in Nat
  BY RunFacts DEF Inv, HandlerInv, TypeOK

\* A step that leaves the Run and the history alone.
LEMMA RunStays ==
  ASSUME Inv, UNCHANGED <<run, winner>>
  PROVE  GateAgrees' /\ \A c \in Compactions : Known(c)' = Known(c)
  BY DEF Inv, GateAgrees, IsOrWas, Known

\* Timers survive as long as the gates they are about do.
LEMMA TimersStay ==
  ASSUME Inv, TypeOK', \A c \in Compactions : Known(c) => Known(c)',
         run.state_version <= run'.state_version,
         UNCHANGED timers \/ \E d \in Compactions : Cancel(d)
  PROVE  TimersAgree'
  <1> SUFFICES ASSUME NEW c \in Compactions, timers'[c] # NoTimer
               PROVE  timers'[c].state_version <= run'.state_version /\ Known(c)'
    BY DEF TimersAgree
  <1>1. timers'[c] = timers[c]
    BY Facts DEF Cancel, TypeOK
  <1>2. timers[c].state_version \in Nat /\ run'.state_version \in Nat
    BY <1>1, Facts, TimerFacts, RunFacts DEF TypeOK
  <1> QED
    BY <1>1, <1>2, Facts DEF TimersAgree

LEMMA TimerIsArmed ==
  ASSUME Inv, UNCHANGED <<run, winner>>, NEW s \in Runs, Schedule(s),
         s.gate \in Compactions, Known(s.gate), s.state_version <= run.state_version
  PROVE  TimersAgree'
  <1> SUFFICES ASSUME NEW c \in Compactions, timers'[c] # NoTimer
               PROVE  timers'[c].state_version <= run.state_version /\ Known(c)
    BY RunStays DEF TimersAgree
  <1>1. CASE c = s.gate
    BY <1>1, Facts DEF Schedule, TypeOK
  <1>2. CASE c # s.gate
    BY <1>2, Facts DEF Schedule, TypeOK, TimersAgree
  <1> QED
    BY <1>1, <1>2

LEMMA HandlerIsIdle ==
  ASSUME TypeOK', pc' = "idle", task' = NoTask, expected' = 0, failure' = None
  PROVE  HandlerInv'
  <1>1. run'.state_version \in Nat
    BY RunFacts DEF TypeOK
  <1>2. NoTask.kind = None
    BY DEF NoTask
  <1> QED
    BY <1>1, <1>2 DEF HandlerInv, Decided, None

\* A handler that answers without a commit.
LEMMA AnswerKeepsInv ==
  ASSUME Inv, TypeOK', task # NoTask, NEW outcome \in Outcomes, Return(outcome),
         UNCHANGED <<run, winner>>, UNCHANGED timers \/ \E d \in Compactions : Cancel(d)
  PROVE  Inv'
  <1>1. GateAgrees' /\ TimersAgree'
    BY RunStays, TimersStay, Facts
  <1>2. HandlerInv'
    BY HandlerIsIdle, Facts, ReturnTypes
  <1> QED
    BY <1>1, <1>2 DEF Inv

LEMMA ArmingKeepsInv ==
  ASSUME Inv, TypeOK', task # NoTask, NEW outcome \in Outcomes, Return(outcome),
         UNCHANGED <<run, winner>>, NEW s \in Runs, Schedule(s),
         s.gate \in Compactions, Known(s.gate), s.state_version <= run.state_version
  PROVE  Inv'
  <1>1. GateAgrees' /\ TimersAgree'
    BY RunStays, TimerIsArmed
  <1>2. HandlerInv'
    BY HandlerIsIdle, Facts, ReturnTypes
  <1> QED
    BY <1>1, <1>2 DEF Inv

\* The commands and closures of others: gate and deadline stay, and whatever a
\* handler knows is about an older version.
LEMMA MovesKeepInv ==
  ASSUME Inv, TypeOK', NEW to \in Statuses, NEW resume_to \in Statuses, Move(to, resume_to),
         UNCHANGED <<now, timers, pc, frame, winner>>, GateAgrees'
  PROVE  Inv'
  <1>1. /\ run'.gate = run.gate /\ run'.state_version = run.state_version + 1
        /\ run'.state_version \in Nat
    BY Facts, RunFacts DEF Move, Runs
  <1>2. \A c \in Compactions : Known(c)' = Known(c)
    BY <1>1 DEF Known
  <1>3. TimersAgree'
    BY <1>1, <1>2, TimersStay, Facts
  <1>4. ~IsCurrent' /\ expected' <= run'.state_version
    BY <1>1, Facts DEF IsCurrent, frame
  <1>5. task.kind \in {"started", "completed", "deadline"} => task.id \in Compactions
    BY Facts, TaskFacts DEF EventKinds
  <1>6. Decided'
    <2>1. CASE pc = "arm"
      BY <1>1, <1>5, <2>1, Facts DEF Decided, frame
    <2>2. CASE pc # "arm"
      BY <1>2, <1>4, <1>5, <2>2, Facts DEF Decided, frame
    <2> QED
      BY <2>1, <2>2
  <1> QED
    BY <1>2, <1>3, <1>4, <1>5, <1>6, Facts DEF Inv, HandlerInv, frame

-----------------------------------------------------------------------------
\* Commits.

LEMMA CommitKeepsGates ==
  ASSUME Inv, Commits
  PROVE  /\ GateAgrees'
         /\ \A c \in Compactions : Known(c) => Known(c)'
         /\ run'.state_version = run.state_version + 1
         /\ run' \in Runs
         /\ task.id \in Compactions
         /\ winner'[task.id] = CASE pc = "open"      -> None
                                 [] pc = "recover"   -> "completion"
                                 [] pc = "interrupt" -> "deadline"
         /\ pc = "open" => run.gate = None /\ run'.gate = task.id /\ run'.status = "COMPACTION_WAIT"
         /\ pc = "recover" => run.gate = task.id /\ run'.gate = None
         /\ pc = "interrupt" => run.gate = task.id /\ run'.gate = task.id
  <1>1. /\ run' \in Runs /\ task.id \in Compactions /\ task.id # None
        /\ winner \in [Compactions -> {None, "completion", "deadline"}]
        /\ IsCurrent /\ Decided /\ pc \in {"open", "recover", "interrupt"}
        /\ run' = Transitioned /\ Recorded /\ run \in Runs
    BY Facts, TransitionedTypes, CompactionsAssumption DEF Commits, IsCurrent, TypeOK
  <1>2. CASE pc = "open"
    <2>1. /\ run.status = "SLICE_RUNNING" /\ run.gate = None
          /\ winner' = [winner EXCEPT ![task.id] = None]
          /\ run'.state_version = run.state_version + 1 /\ run'.status = "COMPACTION_WAIT"
          /\ run'.gate = task.id
      BY <1>1, <1>2, Facts DEF Decided, GateAgrees, IsOrWas, Transitioned, Recorded, Runs
    <2>2. GateAgrees'
      BY <1>1, <2>1 DEF GateAgrees, IsOrWas
    <2>3. ASSUME NEW c \in Compactions, Known(c) PROVE Known(c)'
      <3>1. c # None /\ winner[c] = "completion"
        BY <2>1, <2>3, CompactionsAssumption DEF Known
      <3> QED
        BY <1>1, <2>1, <3>1 DEF Known
    <2> QED
      BY <1>1, <1>2, <2>1, <2>2, <2>3
  <1>3. CASE pc = "recover"
    <2>1. /\ run.gate = task.id
          /\ winner' = [winner EXCEPT ![task.id] = "completion"]
          /\ run'.state_version = run.state_version + 1 /\ run'.status = "SLICE_RUNNING"
          /\ run'.gate = None
      BY <1>1, <1>3 DEF Decided, Transitioned, Recorded, Runs
    <2> QED
      BY <1>1, <1>3, <2>1 DEF GateAgrees, IsOrWas, Known
  <1>4. CASE pc = "interrupt"
    <2>1. /\ run.gate = task.id
          /\ winner' = [winner EXCEPT ![task.id] = "deadline"]
          /\ run'.state_version = run.state_version + 1 /\ run'.status = "SOURCE_INTERRUPTING"
          /\ run'.gate = task.id
      BY <1>1, <1>4 DEF Decided, Transitioned, Recorded, Runs
    <2> QED
      BY <1>1, <1>4, <2>1 DEF GateAgrees, IsOrWas, Known
  <1> QED
    BY <1>1, <1>2, <1>3, <1>4

LEMMA CasSucceedsKeepsInv ==
  ASSUME Inv, CasSucceeds, TypeOK'
  PROVE  Inv'
  <1>1. Commits /\ now' = now
    BY DEF CasSucceeds
  <1>2. GateAgrees' /\ (\A c \in Compactions : Known(c) => Known(c)')
        /\ run.state_version <= run'.state_version /\ task.id \in Compactions
    BY <1>1, CommitKeepsGates, Facts
  <1>3. CASE pc = "open"
    <2>1. /\ pc' = "arm" /\ loaded' = run' /\ UNCHANGED <<timers, task, expected, failure>>
          /\ run'.gate = task.id /\ run'.status = "COMPACTION_WAIT" /\ task.kind = "started"
          /\ failure = None /\ task # NoTask
          /\ run'.state_version \in Nat
      BY <1>1, <1>3, CommitKeepsGates, Facts, RunFacts DEF CasSucceeds, Commits, memory, Decided
    <2>2. TimersAgree'
      BY <1>2, <2>1, TimersStay
    <2>3. HandlerInv'
      BY <1>2, <2>1, Facts DEF HandlerInv, Decided
    <2> QED
      BY <1>2, <2>2, <2>3 DEF Inv
  <1>4. CASE pc # "open"
    <2>1. Cancel(task.id) /\ task # NoTask
          /\ \E o \in Outcomes : Return(o)
      BY <1>1, <1>4, Facts DEF CasSucceeds, Commits, Outcomes
    <2>2. TimersAgree'
      BY <1>2, <2>1, TimersStay
    <2>3. HandlerInv'
      BY <2>1, HandlerIsIdle, Facts, ReturnTypes
    <2> QED
      BY <1>2, <2>2, <2>3 DEF Inv
  <1> QED
    BY <1>3, <1>4

LEMMA CasFailsKeepsInv ==
  ASSUME Inv, CasFails, TypeOK'
  PROVE  Inv'
  <1>1. /\ pc \in {"open", "recover", "interrupt"} /\ failure = None
        /\ failure' = "state_persist_failed"
        /\ UNCHANGED <<now, timers, pc, task, expected, loaded>>
    BY DEF CasFails, Commits, memory
  <1>2. CASE Commits
    <2>1. GateAgrees' /\ (\A c \in Compactions : Known(c) => Known(c)')
          /\ run'.state_version = run.state_version + 1 /\ task.id \in Compactions
      BY <1>2, CommitKeepsGates
    <2>2. TimersAgree'
      BY <1>1, <2>1, TimersStay, Facts
    <2>3. ~IsCurrent' /\ expected' <= run'.state_version
      BY <1>1, <2>1, Facts DEF IsCurrent
    <2>4. Decided'
      BY <1>1, <2>1, <2>3, Facts DEF Decided
    <2>5. HandlerInv'
      BY <1>1, <2>1, <2>3, <2>4, Facts DEF HandlerInv
    <2> QED
      BY <2>1, <2>2, <2>5 DEF Inv
  <1>3. CASE ~Commits
    <2>1. UNCHANGED <<run, winner>>
      BY <1>3 DEF CasFails
    <2>2. GateAgrees' /\ TimersAgree'
      BY <1>1, <2>1, RunStays, TimersStay, Facts
    <2>3. HandlerInv'
      BY <1>1, <2>1, Facts DEF HandlerInv, Decided, IsCurrent, Known
    <2> QED
      BY <2>2, <2>3 DEF Inv
  <1> QED
    BY <1>2, <1>3

-----------------------------------------------------------------------------
\* The invariant, and what follows from it.

LEMMA InitSatisfiesInv ==
  ASSUME Init
  PROVE  Inv
  <1>1. /\ TypeOK
    BY DEF Init, TypeOK, InitialRun, Runs, Statuses
  <1>2. GateAgrees /\ TimersAgree
    BY DEF Init, GateAgrees, IsOrWas, TimersAgree, InitialRun
  <1>3. HandlerInv
    BY DEF Init, HandlerInv, Decided, NoTask, None, InitialRun
  <1> QED
    BY <1>1, <1>2, <1>3 DEF Inv

LEMMA CallsKeepInv ==
  ASSUME Inv, TypeOK', NEW t \in Tasks, NEW version \in Nat, Call(t, version),
         version <= run.state_version,
         t.kind \in {"completed", "deadline"} => t.at <= now,
         t.kind = "deadline" => t.id \in Compactions /\ Known(t.id),
         UNCHANGED <<now, run, winner>>, UNCHANGED timers \/ \E d \in Compactions : Cancel(d)
  PROVE  Inv'
  <1>1. GateAgrees' /\ TimersAgree' /\ (\A c \in Compactions : Known(c)' = Known(c))
    BY RunStays, TimersStay, Facts
  <1>2. t # NoTask
    BY TaskFacts DEF Tasks, NoTask, EventKinds, Events, None
  <1>3. /\ pc = "idle" /\ pc' = "load" /\ task' = t /\ expected' = version /\ failure' = failure
        /\ failure = None
    BY Facts DEF Call, HandlerInv
  <1>4. HandlerInv'
    BY <1>1, <1>2, <1>3 DEF HandlerInv, Decided
  <1> QED
    BY <1>1, <1>4 DEF Inv

LEMMA ErrorsKeepInv ==
  ASSUME Inv, TypeOK', task # NoTask, ReturnError, UNCHANGED <<run, winner>>
  PROVE  Inv'
  <1>1. Return("error") /\ UNCHANGED timers
    BY DEF ReturnError
  <1> QED
    BY <1>1, AnswerKeepsInv DEF Outcomes

LEMMA DecisionsKeepInv ==
  ASSUME Inv, TypeOK', task # NoTask, NEW outcome \in Outcomes, Decide(outcome),
         UNCHANGED <<run, winner>>
  PROVE  Inv'
  BY AnswerKeepsInv DEF Decide, memory

\* A handler that goes on to a commit with what it found.
LEMMA GoingOnKeepsInv ==
  ASSUME Inv, TypeOK', UNCHANGED <<now, run, winner, timers, expected>>,
         task' # NoTask, pc' # "idle", Decided',
         failure' # None => pc' \in {"open", "recover", "interrupt"},
         task'.kind \in {"completed", "deadline"} => task'.at <= now,
         task'.kind = "deadline" => Known(task'.id)
  PROVE  Inv'
  <1>1. GateAgrees' /\ TimersAgree'
    BY RunStays, TimersStay, Facts
  <1>2. \A c : Known(c)' = Known(c)
    BY DEF Known
  <1>3. HandlerInv'
    BY <1>2, Facts DEF HandlerInv, Known
  <1> QED
    BY <1>1, <1>3 DEF Inv

LEMMA EventsKeepInv ==
  ASSUME Inv, TypeOK', IgnoreEvent \/ OnStarted \/ OnCompleted
  PROVE  Inv'
  <1>1. /\ task # NoTask /\ UNCHANGED <<now, run, winner>> /\ pc = "load" /\ failure = None
        /\ NoTask.kind = "none"
    BY Facts DEF IgnoreEvent, OnStarted, OnCompleted, AcceptEvent, HandlerInv, NoTask, None
  <1>2. CASE IgnoreEvent
    BY <1>1, <1>2, DecisionsKeepInv DEF IgnoreEvent, Outcomes
  <1>3. CASE OnStarted
    <2>1. task.kind = "started" /\ UNCHANGED timers
      BY <1>3 DEF OnStarted, AcceptEvent
    <2>2. \/ Return("NOOP") \/ Return("error")
          \/ Goto("open") /\ ~IsStale /\ run.status = "SLICE_RUNNING"
      BY <1>3 DEF OnStarted
    <2>3. CASE Goto("open") /\ ~IsStale /\ run.status = "SLICE_RUNNING"
      <3>1. pc' = "open" /\ UNCHANGED <<task, expected, failure>>
        BY <2>3 DEF Goto
      <3>2. Decided'
        BY <1>1, <2>1, <2>3, <3>1 DEF Decided
      <3> QED
        BY <1>1, <2>1, <3>1, <3>2, GoingOnKeepsInv
    <2> QED
      BY <1>1, <2>1, <2>2, <2>3, AnswerKeepsInv DEF Outcomes
  <1>4. CASE OnCompleted
    <2>1. task.kind = "completed" /\ UNCHANGED timers
      BY <1>4 DEF OnCompleted, AcceptEvent
    <2>2. task.id \in Compactions /\ task.at \in Nat /\ task.at <= now
      BY <2>1, Facts, TaskFacts DEF EventKinds, HandlerInv
    <2>3. CASE CompletionVerdict \in {"recover", "interrupt"}
      <3>1. pc' = CompletionVerdict /\ UNCHANGED <<task, expected, failure>>
        BY <1>4, <2>3 DEF OnCompleted, Goto
      <3>2. /\ run.gate = task.id /\ run.status = "COMPACTION_WAIT"
            /\ CompletionVerdict = "recover" => task.at <= run.deadline_at
            /\ CompletionVerdict = "interrupt" => now >= run.deadline_at
        BY <2>1, <2>2, <2>3, CompletionFacts, Facts
      <3>3. Decided'
        BY <1>1, <2>1, <2>3, <3>1, <3>2 DEF Decided, Known
      <3> QED
        BY <1>1, <2>1, <2>2, <2>3, <3>1, <3>3, GoingOnKeepsInv
    <2>4. CASE CompletionVerdict \notin {"recover", "interrupt"}
      <3>1. CompletionVerdict \in Outcomes /\ Return(CompletionVerdict)
        BY <1>4, <2>1, <2>4, Facts, CompletionFacts DEF OnCompleted, Outcomes
      <3> QED
        BY <1>1, <2>1, <3>1, AnswerKeepsInv
    <2> QED
      BY <2>3, <2>4
  <1> QED
    BY <1>2, <1>3, <1>4

LEMMA OnDeadlineKeepsInv ==
  ASSUME Inv, TypeOK', OnDeadline
  PROVE  Inv'
  <1> DEFINE v == DeadlineVerdict(run, task.id, task.at, expected)
  <1>1. /\ task.kind = "deadline" /\ task # NoTask /\ UNCHANGED <<now, run, winner>>
        /\ pc = "load" /\ failure = None
        /\ task.id \in Compactions /\ task.at \in Nat /\ task.at <= now /\ Known(task.id)
    BY Facts, TaskFacts DEF OnDeadline, HandlerInv
  <1>2. CASE v = "interrupt"
    <2>1. pc' = "interrupt" /\ UNCHANGED <<task, expected, failure, timers>>
      BY <1>2 DEF OnDeadline, Goto, memory
    <2>2. run.gate = task.id /\ run.status = "COMPACTION_WAIT" /\ now >= run.deadline_at
      BY <1>1, <1>2, Facts, VerdictFacts
    <2>3. Decided'
      BY <1>1, <2>1, <2>2 DEF Decided, Known
    <2> QED
      BY <1>1, <2>1, <2>3, GoingOnKeepsInv
  <1>3. CASE v = "reschedule"
    <2>1. Return("NOOP") /\ Schedule(run)
      BY <1>3 DEF OnDeadline
    <2>2. run.gate = task.id
      BY <1>1, <1>3, Facts, VerdictFacts
    <2> QED
      BY <1>1, <2>1, <2>2, ArmingKeepsInv, Facts DEF Outcomes
  <1>4. CASE v \notin {"interrupt", "reschedule"}
    <2>1. v \in Outcomes
      BY <1>1, <1>4, Facts, VerdictFacts DEF Outcomes
    <2>2. Decide(v)
      BY <1>4 DEF OnDeadline
    <2> QED
      BY <1>1, <2>1, <2>2, DecisionsKeepInv
  <1> QED
    BY <1>2, <1>3, <1>4

LEMMA OnRecoverKeepsInv ==
  ASSUME Inv, TypeOK', OnRecover
  PROVE  Inv'
  <1>1. /\ task # NoTask /\ UNCHANGED <<now, run, winner>> /\ pc = "load" /\ failure = None
        /\ run.gate \in Compactions \cup {None}
    BY Facts DEF OnRecover, HandlerInv
  <1>2. CASE run.gate = None \/ run.status # "COMPACTION_WAIT"
    <2>1. \E o \in {"NOOP", "deadline_won"} : Decide(o)
      BY <1>2 DEF OnRecover
    <2> QED
      BY <1>1, <2>1, DecisionsKeepInv DEF Outcomes
  <1>3. CASE run.gate # None /\ run.status = "COMPACTION_WAIT"
    <2>1. CASE IsStale
      <3>1. ReturnError
        BY <1>3, <2>1 DEF OnRecover
      <3> QED
        BY <1>1, <3>1, ErrorsKeepInv
    <2>2. CASE ~IsStale /\ now >= run.deadline_at
      <3>1. /\ pc' = "interrupt" /\ task' = [kind |-> "deadline", id |-> run.gate, at |-> now]
            /\ UNCHANGED <<timers, expected, failure>>
        BY <1>3, <2>2 DEF OnRecover, memory
      <3>2. task' # NoTask
        BY <3>1, Facts DEF HandlerInv, NoTask, None
      <3>3. Decided'
        BY <1>1, <1>3, <2>2, <3>1 DEF Decided, Known
      <3> QED
        BY <1>1, <3>1, <3>2, <3>3, GoingOnKeepsInv, Facts DEF Known
    <2>3. CASE ~IsStale /\ ~(now >= run.deadline_at)
      <3>1. Return("WAITING") /\ Schedule(run)
        BY <1>3, <2>3 DEF OnRecover
      <3> QED
        BY <1>1, <1>3, <3>1, ArmingKeepsInv, Facts DEF Outcomes, Known
    <2> QED
      BY <2>1, <2>2, <2>3
  <1> QED
    BY <1>2, <1>3

LEMMA ReloadsKeepInv ==
  ASSUME Inv, TypeOK', ReloadAfterOpen \/ ResolveRace \/ Reconcile
  PROVE  Inv'
  <1>1. task # NoTask /\ UNCHANGED <<now, run, winner>>
    BY Facts DEF ReloadAfterOpen, ResolveRace, Reconcile
  <1>2. CASE ReloadAfterOpen
    <2>1. pc = "open" /\ task.kind = "started" /\ task.id \in Compactions
      BY <1>2, Facts, TaskFacts DEF ReloadAfterOpen, Decided, EventKinds
    <2>2. CASE DuplicateStart /\ failure # "stale_state"
      <3>1. /\ pc' = "arm" /\ loaded' = run /\ failure' = None
            /\ UNCHANGED <<task, expected, timers>>
        BY <1>2, <2>2 DEF ReloadAfterOpen, memory
      <3>2. Decided'
        BY <1>1, <2>1, <2>2, <3>1, Facts DEF Decided, DuplicateStart
      <3> QED
        BY <1>1, <2>1, <3>1, <3>2, GoingOnKeepsInv
    <2>3. CASE ~DuplicateStart \/ failure = "stale_state"
      <3>1. ReturnError \/ Decide("NOOP")
        BY <1>2, <2>3 DEF ReloadAfterOpen
      <3> QED
        BY <1>1, <3>1, ErrorsKeepInv, DecisionsKeepInv DEF Outcomes
    <2> QED
      BY <2>2, <2>3
  <1>3. CASE ResolveRace
    <2>1. Decide("deadline_won") \/ Decide("completion_won") \/ ReturnError
      BY <1>3 DEF ResolveRace
    <2> QED
      BY <1>1, <2>1, ErrorsKeepInv, DecisionsKeepInv DEF Outcomes
  <1>4. CASE Reconcile
    <2>1. pc \in {"recover", "interrupt"} /\ task.id \in Compactions
      BY <1>4, Facts, TaskFacts DEF Reconcile, Decided, EventKinds
    <2>2. \/ \E o \in Outcomes : Return(o) /\ Cancel(task.id)
          \/ ReturnError
      <3>1. CASE CompletionWon
        BY <1>4, <3>1 DEF Reconcile, Outcomes
      <3>2. CASE ~CompletionWon /\ DeadlineWon
        BY <1>4, <3>2 DEF Reconcile, Outcomes
      <3>3. CASE ~CompletionWon /\ ~DeadlineWon
        BY <1>4, <3>3 DEF Reconcile
      <3> QED
        BY <3>1, <3>2, <3>3
    <2>3. ASSUME NEW o \in Outcomes, Return(o), Cancel(task.id) PROVE Inv'
      BY <1>1, <2>1, <2>3, AnswerKeepsInv
    <2> QED
      BY <1>1, <2>2, <2>3, ErrorsKeepInv
  <1> QED
    BY <1>2, <1>3, <1>4

LEMMA ArmKeepsInv ==
  ASSUME Inv, TypeOK', Arm
  PROVE  Inv'
  <1>1. /\ pc = "arm" /\ task # NoTask /\ UNCHANGED <<now, run, winner>> /\ failure = None
        /\ task.kind = "started" /\ run.gate = task.id /\ task.id \in Compactions
        /\ loaded.status = "COMPACTION_WAIT" /\ loaded.gate = task.id
        /\ loaded.state_version <= run.state_version
        /\ loaded.state_version = run.state_version => loaded = run
    BY Facts, TaskFacts DEF Arm, Decided, HandlerInv, EventKinds
  <1>2. CASE now >= loaded.deadline_at
    <2>1. /\ pc' = "interrupt" /\ expected' = loaded.state_version
          /\ UNCHANGED <<timers, task, failure>>
      BY <1>2 DEF Arm, memory
    <2>2. GateAgrees' /\ TimersAgree'
      BY <1>1, <2>1, RunStays, TimersStay, Facts
    <2>3. Decided'
      BY <1>1, <1>2, <2>1 DEF Decided, IsCurrent, Known
    <2>4. HandlerInv'
      BY <1>1, <2>1, <2>3, Facts DEF HandlerInv
    <2> QED
      BY <2>2, <2>4 DEF Inv
  <1>3. CASE ~(now >= loaded.deadline_at)
    <2>1. Return("WAITING") /\ Schedule(loaded)
      BY <1>3 DEF Arm
    <2> QED
      BY <1>1, <2>1, ArmingKeepsInv, Facts DEF Outcomes, Known
  <1> QED
    BY <1>2, <1>3

LEMMA DisturbancesKeepInv ==
  ASSUME Inv, TypeOK', Pause \/ Resume \/ Abort \/ Close
  PROVE  Inv'
  <1>1. run.status \in Statuses /\ run.resume_to \in Statuses /\ run \in Runs
    BY Facts, RunFacts
  <1>2. CASE Pause
    <2>1. Move("PAUSED", run.status) /\ run.status \in Listening
          /\ UNCHANGED <<now, timers, pc, frame, winner>>
      BY <1>2 DEF Pause, memory
    <2>2. GateAgrees'
      BY <1>1, <2>1, Facts DEF Move, Listening, GateAgrees, IsOrWas, Runs
    <2> QED
      BY <1>1, <2>1, <2>2, MovesKeepInv DEF Statuses
  <1>3. CASE Resume
    <2>1. Move(run.resume_to, run.resume_to) /\ run.status \in {"PAUSED", "NEEDS_USER"}
          /\ UNCHANGED <<now, timers, pc, frame, winner>>
      BY <1>3 DEF Resume, memory
    <2>2. GateAgrees'
      BY <1>1, <2>1, Facts DEF Move, GateAgrees, IsOrWas, Runs
    <2> QED
      BY <1>1, <2>1, <2>2, MovesKeepInv
  <1>4. CASE Abort
    <2>1. Move("ABORTED", run.resume_to) /\ UNCHANGED <<now, timers, pc, frame, winner>>
      BY <1>4 DEF Abort, memory
    <2>2. GateAgrees'
      BY <1>1, <2>1, Facts DEF Move, GateAgrees, IsOrWas, Runs
    <2> QED
      BY <1>1, <2>1, <2>2, MovesKeepInv DEF Statuses
  <1>5. CASE Close
    <2>1. Move("NEEDS_USER", run.status) /\ run.status \notin {"NEEDS_USER", "ABORTED"}
          /\ UNCHANGED <<now, timers, pc, frame, winner>>
      BY <1>5 DEF Close
    <2>2. GateAgrees'
      BY <1>1, <2>1, Facts DEF Move, GateAgrees, IsOrWas, Runs
    <2> QED
      BY <1>1, <2>1, <2>2, MovesKeepInv DEF Statuses
  <1> QED
    BY <1>2, <1>3, <1>4, <1>5

LEMMA StepsKeepInv ==
  ASSUME Inv, [Next]_vars
  PROVE  Inv'
  <1>1. TypeOK'
    BY TypesAreKept
  <1>2. CASE UNCHANGED vars
    BY <1>2, Facts DEF vars, memory, frame, Inv, GateAgrees, IsOrWas, TimersAgree, Known, HandlerInv,
         Decided, IsCurrent, TypeOK
  <1>3. ASSUME NEW e \in Reportable, Deliver(e) PROVE Inv'
    <2>1. e \in Tasks /\ e.kind \in EventKinds /\ e.at <= now
      BY BoundsAssumption DEF Reportable, Tasks, Events
    <2> QED
      BY <1>1, <1>3, <2>1, CallsKeepInv, Facts DEF Deliver, memory, EventKinds
  <1>4. ASSUME NEW c \in Compactions, TimerFires(c) PROVE Inv'
    <2>1. timers[c].state_version \in Nat /\ timers[c].state_version <= run.state_version /\ Known(c)
      BY <1>4, Facts, TimerFacts DEF TimerFires, TimersAgree, TypeOK
    <2>2. [kind |-> "deadline", id |-> c, at |-> now] \in Tasks
      BY Facts DEF Tasks
    <2> QED
      BY <1>1, <1>4, <2>1, <2>2, CallsKeepInv, Facts DEF TimerFires
  <1>5. CASE Recover
    BY <1>1, <1>5, CallsKeepInv, Facts DEF Recover, memory, Tasks
  <1>6. CASE LoadFails
    BY <1>1, <1>6, ErrorsKeepInv, Facts DEF LoadFails, HandlerInv
  <1>7. CASE CasIsStale
    <2>1. /\ pc \in {"open", "recover", "interrupt"} /\ failure' = "stale_state"
          /\ UNCHANGED <<now, run, winner, timers, expected, pc, task, loaded>>
      BY <1>7 DEF CasIsStale, memory
    <2>2. Decided'
      BY <2>1, Facts DEF Decided, IsCurrent, Known
    <2> QED
      BY <1>1, <2>1, <2>2, GoingOnKeepsInv, Facts DEF HandlerInv
  <1>8. CASE Restart
    <2>1. /\ GateAgrees' /\ UNCHANGED <<run, winner>>
      BY <1>8, RunStays DEF Restart
    <2>2. TimersAgree'
      BY <1>8 DEF Restart, TimersAgree
    <2>3. HandlerInv'
      BY <1>1, <1>8, HandlerIsIdle DEF Restart
    <2> QED
      BY <1>1, <2>1, <2>2, <2>3 DEF Inv
  <1>9. CASE Tick
    <2>1. now' = now + 1 /\ UNCHANGED <<run, timers, pc, task, expected, failure, loaded, winner>>
      BY <1>9 DEF Tick, memory, frame
    <2>2. GateAgrees' /\ TimersAgree'
      BY <1>1, <2>1, RunStays, TimersStay, Facts
    <2>3. task.kind \in {"completed", "deadline"} => task.at \in Nat
      BY Facts, TaskFacts DEF EventKinds
    <2>4. Decided'
      BY <2>1, Facts DEF Decided, IsCurrent, Known
    <2>5. HandlerInv'
      BY <2>1, <2>3, <2>4, Facts DEF HandlerInv, Known
    <2> QED
      BY <1>1, <2>2, <2>5 DEF Inv
  <1> QED
    BY <1>1, <1>2, <1>3, <1>4, <1>5, <1>6, <1>7, <1>8, <1>9, EventsKeepInv, OnDeadlineKeepsInv,
       OnRecoverKeepsInv, CasSucceedsKeepsInv, CasFailsKeepsInv, ReloadsKeepInv, ArmKeepsInv,
       DisturbancesKeepInv DEF Next, Handler

LEMMA InvariantHolds == Spec => []Inv
  <1> QED
    BY InitSatisfiesInv, StepsKeepInv, PTL DEF Spec

-----------------------------------------------------------------------------
\* Which steps touch the gate or start an interruption.

\* What a step does to the Run: nothing, a commit of the handler, or a move of others.
LEMMA RunChanges ==
  ASSUME Inv, [Next]_vars
  PROVE  \/ run' = run
         \/ Commits
         \/ /\ run'.gate = run.gate
            /\ run'.status = "SOURCE_INTERRUPTING" => run.status \in {"PAUSED", "NEEDS_USER"}
  <1>1. CASE UNCHANGED vars
    BY <1>1 DEF vars
  <1>2. CASE \/ \E e \in Reportable : Deliver(e)
             \/ \E c \in Compactions : TimerFires(c)
             \/ Recover \/ Tick \/ Restart \/ LoadFails
    BY <1>2 DEF Deliver, TimerFires, Recover, Tick, Restart, LoadFails
  <1>3. CASE IgnoreEvent \/ OnStarted \/ OnCompleted \/ OnDeadline \/ OnRecover
    BY <1>3 DEF IgnoreEvent, OnStarted, OnCompleted, OnDeadline, OnRecover
  <1>4. CASE CasIsStale \/ ReloadAfterOpen \/ ResolveRace \/ Reconcile \/ Arm
    BY <1>4 DEF CasIsStale, ReloadAfterOpen, ResolveRace, Reconcile, Arm
  <1>5. CASE CasSucceeds \/ CasFails
    BY <1>5 DEF CasSucceeds, CasFails
  <1>6. CASE Pause \/ Resume \/ Abort \/ Close
    BY <1>6, Facts DEF Pause, Resume, Abort, Close, Move, Runs
  <1> QED
    BY <1>1, <1>2, <1>3, <1>4, <1>5, <1>6 DEF Next, Handler

\* The source is never interrupted before the deadline of the pending compaction.
THEOREM MonitorNoEarlyInterruption == Spec => NoEarlyInterruption
  <1>1. ASSUME Inv, [Next]_vars,
               run.status # "SOURCE_INTERRUPTING", run'.status = "SOURCE_INTERRUPTING",
               run.status = "COMPACTION_WAIT"
        PROVE  run'.gate = run.gate /\ now >= run.deadline_at
    <2>1. Commits
      BY <1>1, RunChanges
    <2>2. /\ IsCurrent /\ Decided /\ run' = Transitioned /\ run \in Runs
          /\ pc \in {"open", "recover", "interrupt"}
      BY <1>1, <2>1, Facts DEF Commits, IsCurrent
    <2>3. pc # "open"
      BY <1>1, <2>2 DEF Decided
    <2>4. pc # "recover"
      BY <1>1, <2>2 DEF Transitioned, Runs
    <2> QED
      BY <2>2, <2>3, <2>4 DEF Decided, Transitioned, Runs
  <1> QED
    BY <1>1, InvariantHolds, PTL DEF Spec, NoEarlyInterruption

\* Only its own completion, observed in time, clears a gate.
THEOREM MonitorOnlyPunctualCompletionRecovers == Spec => OnlyPunctualCompletionRecovers
  <1>1. ASSUME Inv, [Next]_vars, run.gate # None, run'.gate # run.gate
        PROVE  run'.gate = None /\ task.kind = "completed" /\ task.id = run.gate
               /\ task.at <= run.deadline_at
    <2>1. Commits
      BY <1>1, RunChanges
    <2>2. IsCurrent /\ Decided /\ pc \in {"open", "recover", "interrupt"}
      BY <1>1, <2>1, Facts DEF Commits, IsCurrent
    <2>3. pc = "recover"
      BY <1>1, <2>1, <2>2, CommitKeepsGates
    <2> QED
      BY <1>1, <2>1, <2>2, <2>3, CommitKeepsGates DEF Decided
  <1> QED
    BY <1>1, InvariantHolds, PTL DEF Spec, OnlyPunctualCompletionRecovers

-----------------------------------------------------------------------------
\* Answers.

Answer == reply = NoReply /\ reply' # NoReply /\ reply'.id # None

Claim(o) == winner'[reply'.id] \in Claimed(o)

\* An outcome that claims no winner.
LEMMA ModestAnswers ==
  ASSUME Inv, TypeOK', Answer, reply'.outcome \in {"WAITING", "NOOP", "error"}
  PROVE  Claim(reply'.outcome)
  <1>1. reply'.id \in Compactions
    BY DEF TypeOK, Answer, Replies, NoReply
  <1> QED
    BY <1>1 DEF TypeOK, Claim, Claimed, None

\* A cleared gate was completed.
LEMMA ClearedMeansCompleted ==
  ASSUME Inv, task.id \in Compactions, Known(task.id), run.gate = None
  PROVE  winner[task.id] = "completion"
  BY CompactionsAssumption DEF Known

LEMMA InterruptedMeansDeadline ==
  ASSUME Inv, run.status = "SOURCE_INTERRUPTING"
  PROVE  winner[run.gate] = "deadline"
  BY DEF Inv, GateAgrees, IsOrWas

LEMMA AnswersAreTrue ==
  ASSUME Inv, [Next]_vars, Answer
  PROVE  Claim(reply'.outcome)
  <1>0. TypeOK' /\ reply' # reply
    BY TypesAreKept DEF Answer
  <1>1. CASE UNCHANGED vars
    BY <1>0, <1>1 DEF vars
  <1>2. CASE \/ \E e \in Reportable : Deliver(e)
             \/ \E c \in Compactions : TimerFires(c)
             \/ Recover \/ Restart
    BY <1>2 DEF Deliver, TimerFires, Recover, Restart, Call, Answer
  <1>3. CASE Tick \/ Pause \/ Resume \/ Abort \/ Close \/ CasIsStale \/ CasFails
    BY <1>0, <1>3 DEF Tick, Pause, Resume, Abort, Close, CasIsStale, CasFails
  <1>4. CASE LoadFails
    BY <1>0, <1>4, ModestAnswers DEF LoadFails, ReturnError, Return
  <1>5. CASE IgnoreEvent
    BY <1>0, <1>5, ModestAnswers DEF IgnoreEvent, Decide, Return
  <1>6. CASE OnStarted
    BY <1>0, <1>6, ModestAnswers DEF OnStarted, Return, Goto
  <1>7. CASE OnCompleted
    <2>1. task.kind = "completed" /\ task # NoTask /\ UNCHANGED winner
      BY <1>7, Facts DEF OnCompleted, AcceptEvent, NoTask, None
    <2>2. CompletionVerdict \notin {"recover", "interrupt"} /\ Return(CompletionVerdict)
      BY <1>0, <1>7 DEF OnCompleted, Goto
    <2>3. /\ CompletionVerdict \in {"NOOP", "deadline_won", "error"}
          /\ reply' = [outcome |-> CompletionVerdict, id |-> task.id]
      BY <2>1, <2>2, Facts, CompletionFacts, ReturnTypes DEF Outcomes
    <2>4. CASE CompletionVerdict = "deadline_won"
      BY <2>1, <2>3, <2>4, Facts, CompletionFacts, InterruptedMeansDeadline DEF Claim, Claimed
    <2>5. CASE CompletionVerdict # "deadline_won"
      BY <1>0, <2>3, <2>5, ModestAnswers
    <2> QED
      BY <2>4, <2>5
  <1>8. CASE OnDeadline
    <2> DEFINE v == DeadlineVerdict(run, task.id, task.at, expected)
    <2>1. /\ task.kind = "deadline" /\ task # NoTask /\ UNCHANGED winner
          /\ task.id \in Compactions /\ task.at \in Nat /\ Known(task.id)
      BY <1>8, Facts, TaskFacts DEF OnDeadline, HandlerInv
    <2>2. v \in {"completion_won", "NOOP", "deadline_won", "error", "interrupt", "reschedule"}
      BY <2>1, Facts, VerdictFacts
    <2>3. v # "interrupt"
      BY <1>0, <1>8 DEF OnDeadline, Goto
    <2>4. CASE v = "reschedule"
      BY <1>0, <1>8, <2>4, ModestAnswers DEF OnDeadline, Return
    <2>5. CASE v \in {"completion_won", "NOOP", "deadline_won", "error"}
      <3>1. Return(v)
        BY <1>8, <2>5 DEF OnDeadline, Decide
      <3>2. reply' = [outcome |-> v, id |-> task.id]
        BY <2>1, <2>5, <3>1, Facts, ReturnTypes DEF Outcomes
      <3>3. CASE v = "completion_won"
        BY <2>1, <3>2, <3>3, Facts, VerdictFacts, ClearedMeansCompleted DEF Claim, Claimed
      <3>4. CASE v = "deadline_won"
        BY <2>1, <3>2, <3>4, Facts, VerdictFacts, InterruptedMeansDeadline DEF Claim, Claimed
      <3>5. CASE v \in {"NOOP", "error"}
        BY <1>0, <3>2, <3>5, ModestAnswers
      <3> QED
        BY <2>5, <3>3, <3>4, <3>5
    <2> QED
      BY <2>2, <2>3, <2>4, <2>5
  <1>9. CASE OnRecover
    <2>1. task.kind = "recover" /\ task # NoTask /\ UNCHANGED winner
      BY <1>9, Facts DEF OnRecover
    <2>2. CASE run.gate # None /\ run.status = "SOURCE_INTERRUPTING"
      <3>1. Return("deadline_won")
        BY <1>9, <2>2 DEF OnRecover, Decide
      <3>2. reply' = [outcome |-> "deadline_won", id |-> run.gate]
        BY <2>1, <3>1, Facts, ReturnTypes DEF Outcomes
      <3> QED
        BY <2>1, <2>2, <3>2, InterruptedMeansDeadline DEF Claim, Claimed
    <2>3. CASE ~(run.gate # None /\ run.status = "SOURCE_INTERRUPTING")
      <3>1. Return("NOOP") \/ Return("error") \/ Return("WAITING")
        <4>1. CASE run.gate = None \/ run.status # "COMPACTION_WAIT"
          BY <1>9, <2>3, <4>1 DEF OnRecover, Decide
        <4>2. CASE run.gate # None /\ run.status = "COMPACTION_WAIT"
          BY <1>0, <1>9, <2>3, <4>2 DEF OnRecover, ReturnError
        <4> QED
          BY <4>1, <4>2
      <3> QED
        BY <1>0, <3>1, ModestAnswers DEF Return
    <2> QED
      BY <2>2, <2>3
  <1>10. CASE CasSucceeds
    <2>1. Commits /\ pc \in {"recover", "interrupt"} /\ task # NoTask
          /\ Return(IF pc = "recover" THEN "RECOVERED" ELSE "TIMED_OUT")
      BY <1>0, <1>10, Facts DEF CasSucceeds, Commits
    <2>2. task.kind # "recover"
      BY <2>1, Facts DEF Decided
    <2>3. reply' = [outcome |-> IF pc = "recover" THEN "RECOVERED" ELSE "TIMED_OUT", id |-> task.id]
      BY <2>1, <2>2, Facts, ReturnTypes DEF Outcomes
    <2> QED
      BY <2>1, <2>3, CommitKeepsGates DEF Claim, Claimed
  <1>11. CASE ReloadAfterOpen
    <2>1. Return("error") \/ Return("NOOP")
      BY <1>0, <1>11 DEF ReloadAfterOpen, ReturnError, Decide
    <2> QED
      BY <1>0, <2>1, ModestAnswers DEF Return
  <1>12. CASE ResolveRace \/ Reconcile
    <2>1. /\ pc \in {"recover", "interrupt"} /\ task # NoTask /\ UNCHANGED winner
          /\ task.kind # "recover" /\ task.id \in Compactions /\ Known(task.id)
      BY <1>12, Facts, TaskFacts DEF ResolveRace, Reconcile, Decided, EventKinds
    <2>2. \/ DeadlineWon /\ (Return("deadline_won") \/ Return("TIMED_OUT"))
          \/ CompletionWon /\ (Return("completion_won") \/ Return("RECOVERED"))
          \/ Return("error")
      <3>1. CASE CompletionWon
        BY <1>12, <3>1 DEF ResolveRace, Reconcile, Decide, CompletionWon, DeadlineWon
      <3>2. CASE ~CompletionWon /\ DeadlineWon
        BY <1>12, <3>2 DEF ResolveRace, Reconcile, Decide
      <3>3. CASE ~CompletionWon /\ ~DeadlineWon
        BY <1>12, <3>3 DEF ResolveRace, Reconcile, ReturnError
      <3> QED
        BY <3>1, <3>2, <3>3
    <2>3. CASE DeadlineWon /\ (Return("deadline_won") \/ Return("TIMED_OUT"))
      <3>1. reply'.id = task.id /\ reply'.outcome \in {"deadline_won", "TIMED_OUT"}
        BY <2>1, <2>3, Facts, ReturnTypes DEF Outcomes
      <3> QED
        BY <2>1, <2>3, <3>1, InterruptedMeansDeadline DEF DeadlineWon, Claim, Claimed
    <2>4. CASE CompletionWon /\ (Return("completion_won") \/ Return("RECOVERED"))
      <3>1. reply'.id = task.id /\ reply'.outcome \in {"completion_won", "RECOVERED"}
        BY <2>1, <2>4, Facts, ReturnTypes DEF Outcomes
      <3> QED
        BY <2>1, <2>4, <3>1, ClearedMeansCompleted DEF CompletionWon, Claim, Claimed
    <2>5. CASE Return("error")
      BY <1>0, <2>5, ModestAnswers DEF Return
    <2> QED
      BY <2>2, <2>3, <2>4, <2>5
  <1>13. CASE Arm
    BY <1>0, <1>13, ModestAnswers DEF Arm, Return
  <1> QED
    BY <1>1, <1>2, <1>3, <1>4, <1>5, <1>6, <1>7, <1>8, <1>9, <1>10, <1>11, <1>12, <1>13
       DEF Next, Handler

\* The monitor's variables keep their types, and no handler announces a winner that
\* was not committed, also when its own write failed half-way or lost.
THEOREM MonitorTellsTheTruth == Spec => MonitorIsTrue
  <1>1. Inv => TypeOK
    BY DEF Inv
  <1>2. ASSUME Inv, [Next]_vars, reply = NoReply, reply' # NoReply, reply'.id # None
        PROVE  winner'[reply'.id] \in Claimed(reply'.outcome)
    BY <1>2, AnswersAreTrue DEF Answer, Claim
  <1>3. Spec => DecisionsAreTrue
    BY <1>2, InvariantHolds, PTL DEF Spec, DecisionsAreTrue
  <1>4. Spec => []TypeOK
    BY <1>1, InvariantHolds, PTL
  <1> QED
    BY <1>3, <1>4 DEF MonitorIsTrue

=============================================================================
