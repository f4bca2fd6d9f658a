--------------------------- MODULE DevelopmentTask ---------------------------
(***************************************************************************)
(* CodexAppServerDevelopmentTask                                            *)
(* (production/codex-app-server-development-task.ts): sessions of one        *)
(* Development Task each over a shared App Server connection.  A session     *)
(* turns the host's notifications into a stream of compaction events and one  *)
(* completion, watches the frozen model, probes for compactions where the     *)
(* host does not report them, and interrupts its turn when something is       *)
(* wrong.                                                                   *)
(*                                                                         *)
(* One JavaScript thread runs all of it, so a handler is one step; between an *)
(* await and its continuation anything else may happen.  The answer to         *)
(* turn/start and the notifications of that turn come in either order.  The    *)
(* client is reduced to: a request is answered, refused or times out, and the  *)
(* connection fails once (module AppServerClient).                           *)
(***************************************************************************)
EXTENDS Naturals, FiniteSets, Sequences

CONSTANTS
  Sessions,      \* one for each call of start
  Compactions,   \* ids of compactions the host reports
  MaxThreads,    \* bound: threads the host starts
  MaxEvents      \* bound: notifications of all turns, the ends apart

Null == "none"
ProbeId == "probe"

ASSUME BoundsAssumption == MaxThreads \in Nat /\ MaxEvents \in Nat
(* A probe's compaction is named after a hash, which is no id of the host's.    *)
ASSUME CompactionsAssumption == Compactions \cap {Null, ProbeId} = {}

VARIABLES
  reports,    \* the host reports its compactions (context_compaction_events)
  connected,  \* the connection has not failed
  disposed,   \* dispose was called
  active,     \* the session of the running task
  session,    \* the sessions
  deleted,    \* threads the adapter knows to be deleted
  control,    \* the calls of the thread control port, per session
  turn,       \* the host's turn of each session
  wire,       \* notifications on their way
  rerouted,   \* turns the host moved to another model
  emitted     \* notifications so far

adapter == <<reports, connected, disposed, active, session, deleted, control>>
host == <<turn, wire, rerouted, emitted>>
others == <<reports, connected, disposed, deleted, control, host>>
taskVars == <<adapter, host>>

(* step: where start is.  terminal: the receipt's outcome, or the error.       *)
NewSession ==
  [step |-> "unused", pending |-> << >>, open |-> {}, probe |-> "off", probeId |-> Null,
   stopped |-> FALSE, turnKnown |-> FALSE, forced |-> Null, terminal |-> Null,
   signalled |-> Null, interrupt |-> Null, stream |-> << >>]

TaskInit ==
  /\ reports \in BOOLEAN /\ connected = TRUE /\ disposed = FALSE /\ active = Null
  /\ session = [s \in Sessions |-> NewSession]
  /\ deleted = {} /\ control = [s \in Sessions |-> Null]
  /\ turn = [s \in Sessions |-> Null]
  /\ wire = [s \in Sessions |-> << >>]
  /\ rerouted = {} /\ emitted = 0

IsRegistered(s) == session[s].step \notin {"unused", "thread", "refused"}
IsOpen(s) == IsRegistered(s) /\ session[s].terminal = Null

(* A handler replaces its session; finishing clears active if it was that one. *)
Becomes(s, r) ==
  /\ session' = [session EXCEPT ![s] = r]
  /\ active' = IF active = s /\ r.terminal # Null THEN Null ELSE active

-----------------------------------------------------------------------------
(* HostEventFirewall (production/app-server-client.ts): which public        *)
(* notifications become controller signals.  Everything else is dropped      *)
(* before any other code sees it, and a malformed notification of a control  *)
(* method fails the connection, whichever thread it is about.               *)

Outcomes == {"COMPLETED", "INTERRUPTED", "FAILED"}
CompactionMethods == {"item/started", "item/completed"}

(* A notification of a control method: the compaction item or turn outcome it  *)
(* carries (no id: an item of another kind), whether it is about the turn of   *)
(* the task, and what is wrong with it.                                      *)
Notification(method, id, own) == [method |-> method, id |-> id, own |-> own, flaw |-> Null]

(* project: "drop", "signal", or "error", which fails the connection.  A task  *)
(* whose turn is not known yet lets the events of any turn of its thread pass. *)
Project(n, registered, turnKnown) ==
  IF n.flaw = "metadata" THEN "error"
  ELSE IF n.method \in CompactionMethods /\ n.id = Null THEN "drop"
  ELSE IF ~registered THEN "drop"
  ELSE IF n.method # "thread/deleted" /\ turnKnown /\ ~n.own THEN "drop"
  ELSE IF n.method = "turn/completed" /\ n.flaw = "completedAt" THEN "error"
  ELSE "signal"

-----------------------------------------------------------------------------
(* What the handlers are made of.                                           *)

Emit(r, kind, id) == [r EXCEPT !.stream = Append(@, [kind |-> kind, id |-> id])]

StopProbe(r) == [r EXCEPT !.stopped = TRUE, !.probe = IF @ = "scheduled" THEN "off" ELSE @]

Finish(r, terminal) ==
  IF r.terminal # Null THEN r ELSE [StopProbe(r) EXCEPT !.terminal = terminal]

(* turn/interrupt is requested once in the life of a session.                 *)
RequestInterrupt(r) ==
  IF r.interrupt = Null /\ r.turnKnown /\ r.terminal = Null
  THEN [r EXCEPT !.interrupt = "sent"] ELSE r

(* The first failure is the one that is reported.                             *)
ForceFailure(r, code) ==
  RequestInterrupt([StopProbe(r) EXCEPT !.forced = IF @ = Null THEN code ELSE @])

(* Fault for the mutation runs: the compaction that was completed is kept.     *)
CompleteProbeAgain(r) ==
  IF r.probeId = Null THEN r ELSE Emit(r, "COMPLETED", ProbeId)

CompleteProbe(r) ==
  IF r.probeId = Null THEN r ELSE [Emit(r, "COMPLETED", ProbeId) EXCEPT !.probeId = Null]

(* Any compaction the host reports ends the one a probe saw.                   *)
HandleCompaction(r, n) ==
  LET stopped == CompleteProbe(StopProbe(r))
  IN IF r.probeId # Null /\ n.method = "item/completed" THEN stopped
     ELSE IF n.method = "item/started"
     THEN IF n.id \in r.open THEN ForceFailure(stopped, "app_server_protocol_error")
          ELSE Emit([stopped EXCEPT !.open = @ \cup {n.id}], "STARTED", n.id)
     ELSE IF n.id \notin r.open THEN ForceFailure(stopped, "app_server_protocol_error")
          ELSE Emit([stopped EXCEPT !.open = @ \ {n.id}], "COMPLETED", n.id)

(* Fault for the mutation runs: a turn that ends with a compaction open passes. *)
HandleTerminalUnchecked(r, outcome) ==
  LET seen == CompleteProbe(StopProbe([r EXCEPT !.signalled = outcome]))
  IN Finish(seen, IF seen.forced # Null THEN seen.forced ELSE outcome)

(* A turn that ends with a compaction open did not end well, unless it was     *)
(* interrupted.                                                             *)
HandleTerminal(r, outcome) ==
  LET seen    == StopProbe([r EXCEPT !.signalled = outcome])
      settled == IF outcome = "INTERRUPTED" THEN [seen EXCEPT !.probeId = Null, !.open = {}]
                 ELSE IF seen.open # {} THEN ForceFailure(CompleteProbe(seen), "app_server_protocol_error")
                 ELSE CompleteProbe(seen)
  IN Finish(settled, IF settled.forced # Null THEN settled.forced ELSE outcome)

HandleSignal(r, n) ==
  IF r.terminal # Null THEN r
  ELSE IF n.method \in {"model/rerouted", "turn/completed"} /\ ~n.own THEN r
  ELSE IF n.method = "model/rerouted" THEN ForceFailure(r, "model_policy_unavailable")
  ELSE IF n.method = "turn/completed" THEN HandleTerminal(r, n.id)
  ELSE HandleCompaction(r, n)

(* The signals that waited, in the order they came in.                         *)
HandleSignals(r, signals) ==
  LET after[i \in 0..Len(signals)] ==
        IF i = 0 THEN r ELSE HandleSignal(after[i - 1], signals[i])
  IN after[Len(signals)]

(* The probe runs only where the host does not report.  Setting its timer may   *)
(* fail.                                                                    *)
ScheduleProbe(r, next) ==
  IF r.terminal # Null \/ r.stopped \/ reports THEN next = r
  ELSE next \in {[r EXCEPT !.probe = "scheduled"],
                 ForceFailure([r EXCEPT !.probe = "off"], "compaction_probe_failed")}

-----------------------------------------------------------------------------
(* start.                                                                   *)

(* The request, or a host that reports no compactions without a probe for them. *)
RequestRefused(s) ==
  /\ session[s].step = "unused" /\ ~disposed
  /\ Becomes(s, [NewSession EXCEPT !.step = "refused"])
  /\ UNCHANGED others

(* The busy check comes before the first await.                               *)
IsBusy == IF active = Null THEN FALSE ELSE session[active].terminal = Null

BusyRefused(s) ==
  /\ session[s].step = "unused" /\ ~disposed /\ IsBusy
  /\ Becomes(s, [NewSession EXCEPT !.step = "refused"])
  /\ UNCHANGED others

(* The orchestrator, the only caller, awaits one start before the next (runSlice).  *)
Start(s) ==
  /\ session[s].step = "unused" /\ ~disposed /\ ~IsBusy
  /\ \A other \in Sessions : session[other].step \in {"unused", "refused", "returned"}
  /\ Becomes(s, [NewSession EXCEPT !.step = "thread"])
  /\ UNCHANGED others

(* thread/start is answered: the session and its firewall task are registered   *)
(* and turn/start is sent, all before anything else runs.                      *)
ThreadStarted(s) ==
  /\ session[s].step = "thread" /\ connected
  /\ Cardinality({other \in Sessions : IsRegistered(other)}) < MaxThreads
  /\ session' = [session EXCEPT ![s].step = "turn"]
  /\ active' = s
  /\ UNCHANGED others

(* No thread, an ephemeral one, an error, a timeout.                          *)
ThreadRefused(s) ==
  /\ session[s].step = "thread"
  /\ Becomes(s, [session[s] EXCEPT !.step = "refused"])
  /\ UNCHANGED others

TurnAnswered(s) ==
  /\ session[s].step = "turn" /\ connected /\ turn[s] # Null
  /\ Becomes(s, [session[s] EXCEPT !.step = "answered"])
  /\ UNCHANGED others

(* An error, a malformed answer or a timeout; the host may run the turn.       *)
TurnRefused(s) ==
  /\ session[s].step = "turn"
  /\ Becomes(s, Finish([session[s] EXCEPT !.step = "returned"], "app_server_request_failed"))
  /\ UNCHANGED others

(* start continues: the turn is registered, the waiting signals are handled in  *)
(* their order, and the probe starts.                                        *)
StartReturns(s) ==
  /\ session[s].step = "answered"
  /\ LET r       == session[s]
         known   == [r EXCEPT !.step = "returned", !.turnKnown = TRUE, !.pending = << >>]
         handled == HandleSignals(known, r.pending)
     IN \E next \in {handled, [handled EXCEPT !.probe = "scheduled"],
                     ForceFailure(handled, "compaction_probe_failed")} :
          ScheduleProbe(handled, next) /\ Becomes(s, next)
  /\ UNCHANGED others

-----------------------------------------------------------------------------
(* Notifications.                                                           *)

(* A failure reaches every session that is still open, if anyone listens.      *)
FailAll(sessions) ==
  /\ session' = IF disposed THEN sessions
                ELSE [s \in Sessions |-> IF IsRegistered(s) THEN Finish(sessions[s], "app_server_failed")
                                         ELSE sessions[s]]
  /\ active' = IF disposed THEN active ELSE Null
  /\ connected' = FALSE

Receive(s, n) ==
  LET r == session[s]
  IN IF disposed \/ n.method = "thread/deleted" \/ r.terminal # Null THEN r
     ELSE IF ~r.turnKnown THEN [r EXCEPT !.pending = Append(@, n)]
     ELSE HandleSignal(r, n)

Deliver(s) ==
  /\ wire[s] # << >> /\ connected
  /\ wire' = [wire EXCEPT ![s] = Tail(@)]
  /\ LET n == Head(wire[s])
         verdict == Project(n, IsRegistered(s), session[s].turnKnown)
     IN /\ \/ verdict = "error" /\ FailAll(session)
           \/ verdict = "drop" /\ UNCHANGED <<session, active, connected>>
           \/ verdict = "signal" /\ Becomes(s, Receive(s, n)) /\ UNCHANGED connected
        /\ deleted' = IF verdict = "signal" /\ n.method = "thread/deleted" /\ ~disposed
                      THEN deleted \cup {s} ELSE deleted
  /\ UNCHANGED <<reports, disposed, control, turn, rerouted, emitted>>

ConnectionFails ==
  /\ connected
  /\ FailAll(session)
  /\ UNCHANGED <<reports, disposed, deleted, control, host>>

-----------------------------------------------------------------------------
(* The probe.                                                               *)

ProbeTimer(s) ==
  /\ session[s].probe = "scheduled"
  /\ Becomes(s, [session[s] EXCEPT !.probe = "inflight"])
  /\ UNCHANGED others

(* decodeProbeResult takes whatever it does not understand for a failure.       *)
ProbeResults == {"NO_COMPACTION", "COMPACTION_SEEN", "PROBE_FAILED"}

(* An answer that comes after the probe was stopped is ignored; an observation  *)
(* outside the probed interval is a failure.                                 *)
ProbeAnswers(s) ==
  /\ session[s].probe = "inflight"
  /\ LET r == [session[s] EXCEPT !.probe = "off"]
         failed == ForceFailure(r, "compaction_probe_failed")
     IN IF r.stopped \/ r.terminal # Null THEN Becomes(s, r)
        ELSE \E result \in ProbeResults :
          \/ /\ result = "NO_COMPACTION"
             /\ \E next \in {[r EXCEPT !.probe = "scheduled"], failed} :
                  ScheduleProbe(r, next) /\ Becomes(s, next)
          \/ /\ result = "COMPACTION_SEEN"
             /\ \E next \in {Emit([StopProbe(r) EXCEPT !.probeId = ProbeId], "STARTED", ProbeId), failed} :
                  Becomes(s, next)
          \/ result = "PROBE_FAILED" /\ Becomes(s, failed)
  /\ UNCHANGED others

-----------------------------------------------------------------------------
(* Interruption and disposal.                                               *)

InterruptAccepted(s) ==
  /\ session[s].interrupt = "sent" /\ connected
  /\ Becomes(s, [session[s] EXCEPT !.interrupt = "accepted"])
  /\ UNCHANGED others

(* Fault for the mutation runs: a refused interrupt is forgotten.             *)
InterruptRefusalForgotten(s) ==
  /\ session[s].interrupt = "sent"
  /\ Becomes(s, [session[s] EXCEPT !.interrupt = "refused"])
  /\ UNCHANGED others

(* The host refuses, or the request times out: the session ends with that.     *)
InterruptRefused(s) ==
  /\ session[s].interrupt = "sent"
  /\ Becomes(s, Finish([session[s] EXCEPT !.interrupt = "refused"], "app_server_request_failed"))
  /\ UNCHANGED others

(* interrupt of the thread control port, for a Source thread it knows.        *)
Interrupt(s) ==
  /\ control[s] = Null /\ session[s].turnKnown
  /\ control' = [control EXCEPT ![s] = "waiting"]
  /\ Becomes(s, RequestInterrupt(session[s]))
  /\ UNCHANGED <<reports, connected, disposed, deleted, host>>

(* Fault for the mutation runs: any end of the session is an interruption.     *)
InterruptReturnsAnyEnd(s) ==
  /\ control[s] = "waiting" /\ session[s].terminal # Null /\ session[s].interrupt # "sent"
  /\ control' = [control EXCEPT ![s] = "receipt"]
  /\ UNCHANGED <<reports, connected, disposed, deleted, active, session, host>>

InterruptReturns(s) ==
  /\ control[s] = "waiting" /\ session[s].terminal # Null /\ session[s].interrupt # "sent"
  /\ control' = [control EXCEPT ![s] = IF session[s].signalled = "INTERRUPTED" THEN "receipt" ELSE "refused"]
  /\ UNCHANGED <<reports, connected, disposed, deleted, active, session, host>>

(* What thread/read may answer for a thread, besides an error.                 *)
ReadAnswers == {"summary", "content", "ephemeral", "another thread"}
IsSummary(answer) == answer = "summary"

(* inspect, which the caller asks for once the turn is interrupted: only the    *)
(* summary of a persistent thread will do.                                   *)
Inspect(s) ==
  /\ control[s] = "receipt"
  /\ \/ /\ connected /\ s \notin deleted
        /\ \E answer \in ReadAnswers :
             control' = [control EXCEPT ![s] = IF IsSummary(answer) THEN "persisted" ELSE "refused"]
     \/ control' = [control EXCEPT ![s] = "refused"]
  /\ UNCHANGED <<reports, connected, disposed, deleted, active, session, host>>

(* dispose stops the probes and the subscription and ends no session.         *)
Dispose ==
  /\ ~disposed
  /\ disposed' = TRUE
  /\ session' = [s \in Sessions |-> StopProbe(session[s])]
  /\ UNCHANGED <<reports, connected, active, deleted, control, host>>

-----------------------------------------------------------------------------
(* The host.                                                                *)

HostStartsTurn(s) ==
  /\ session[s].step = "turn" /\ connected /\ turn[s] = Null
  /\ turn' = [turn EXCEPT ![s] = "alive"]
  /\ UNCHANGED <<adapter, wire, rerouted, emitted>>

(* What the host may send during a turn, its end apart.  An item that is no      *)
(* compaction is dropped whatever it says, so one stands for all; of another     *)
(* turn, whose events pass until the turn is known, a compaction that starts and  *)
(* an end are sent.  Metadata that do not decode are ConnectionFails.            *)
MalformedEnd == [method |-> "turn/completed", id |-> "COMPLETED", own |-> TRUE, flaw |-> "completedAt"]
Notifications ==
  {Notification("item/started", id, TRUE) : id \in Compactions} \cup
  {Notification("item/completed", id, TRUE) : id \in Compactions} \cup
  {Notification("item/started", id, FALSE) : id \in Compactions} \cup
  {Notification("model/rerouted", Null, own) : own \in BOOLEAN} \cup
  {Notification("item/started", Null, TRUE), Notification("thread/deleted", Null, TRUE),
   Notification("turn/completed", "COMPLETED", FALSE), MalformedEnd}

Sends(s, n) == wire' = [wire EXCEPT ![s] = Append(@, n)]

HostNotifies(s) ==
  /\ turn[s] = "alive" /\ connected /\ emitted < MaxEvents
  /\ emitted' = emitted + 1
  /\ \E n \in Notifications :
       /\ Sends(s, n)
       /\ rerouted' = IF n.method = "model/rerouted" /\ n.own THEN rerouted \cup {s} ELSE rerouted
  /\ UNCHANGED <<adapter, turn>>

HostEndsTurn(s) ==
  /\ turn[s] = "alive" /\ connected
  /\ \E outcome \in Outcomes :
       /\ turn' = [turn EXCEPT ![s] = outcome]
       /\ Sends(s, Notification("turn/completed", outcome, TRUE))
  /\ UNCHANGED <<adapter, rerouted, emitted>>

TaskNext ==
  \/ ConnectionFails \/ Dispose
  \/ \E s \in Sessions :
       \/ RequestRefused(s) \/ BusyRefused(s) \/ Start(s) \/ ThreadStarted(s) \/ ThreadRefused(s)
       \/ TurnAnswered(s) \/ TurnRefused(s) \/ StartReturns(s) \/ Deliver(s)
       \/ ProbeTimer(s) \/ ProbeAnswers(s)
       \/ InterruptAccepted(s) \/ InterruptRefused(s) \/ Interrupt(s) \/ InterruptReturns(s) \/ Inspect(s)
       \/ HostStartsTurn(s) \/ HostNotifies(s) \/ HostEndsTurn(s)

(* Requests are answered or time out, promises continue, lines are read, and a  *)
(* host that accepted an interrupt ends the turn.  Nothing else is promised.   *)
TaskFairness == \A s \in Sessions :
  /\ WF_taskVars(ThreadStarted(s) \/ ThreadRefused(s))
  /\ WF_taskVars(TurnAnswered(s) \/ TurnRefused(s))
  /\ WF_taskVars(StartReturns(s))
  /\ WF_taskVars(Deliver(s))
  /\ WF_taskVars(InterruptAccepted(s) \/ InterruptRefused(s))
  /\ WF_taskVars(InterruptReturns(s))
  /\ WF_taskVars(session[s].interrupt = "accepted" /\ HostEndsTurn(s))

TaskSpec == TaskInit /\ [][TaskNext]_taskVars /\ TaskFairness

-----------------------------------------------------------------------------
(* Properties.                                                              *)

TaskTypeOK ==
  /\ active \in Sessions \cup {Null}
  /\ active # Null => IsOpen(active)
  /\ \A s \in Sessions :
       /\ session[s].step \in {"unused", "thread", "turn", "answered", "returned", "refused"}
       /\ session[s].probe \in {"off", "scheduled", "inflight"}
       /\ session[s].open \subseteq Compactions
       /\ control[s] \in {Null, "waiting", "receipt", "persisted", "refused"}
       /\ turn[s] \in {Null, "alive"} \cup Outcomes

(* Compactions the stream shows as started and not completed after i events.   *)
OpenAfter(stream, i) ==
  {e.id : e \in {stream[j] : j \in {j \in 1..i : stream[j].kind = "STARTED" /\
                   \A k \in (j + 1)..i : stream[k] # [kind |-> "COMPLETED", id |-> stream[j].id]}}}

IsPaired(stream) ==
  \A i \in DOMAIN stream : stream[i].kind = "STARTED" <=> stream[i].id \notin OpenAfter(stream, i - 1)

(* Whatever the host reports and whenever the probe answers, the stream the     *)
(* monitor reads starts no compaction twice and completes only what it started. *)
StreamIsPaired == \A s \in Sessions : IsPaired(session[s].stream)

(* What the monitor reads is sound, and so is the record of who is active.       *)
StreamIsSound == TaskTypeOK /\ StreamIsPaired

(* A receipt is given only for the task's own turn, with the outcome the host   *)
(* gave it; one that does not say INTERRUPTED leaves no compaction open in the   *)
(* stream, and none is given for a turn the host moved to another model.        *)
ReceiptsAreEarned ==
  \A s \in Sessions : session[s].terminal \in Outcomes =>
    /\ turn[s] = session[s].terminal
    /\ turn[s] # "INTERRUPTED" => OpenAfter(session[s].stream, Len(session[s].stream)) = {}
    /\ s \notin rerouted

(* An interrupt receipt is given only for a turn that was interrupted, whether  *)
(* by it or by an earlier failure of the session, and not for a turn that ended *)
(* or failed while the request was under way.                                *)
InterruptReceiptMeansStopped ==
  \A s \in Sessions : control[s] \in {"receipt", "persisted"} => turn[s] = "INTERRUPTED"

(* A session whose failure is decided, whose turn is over or whose connection   *)
(* is lost comes to its end, unless the adapter is disposed of first.          *)
SessionsEnd ==
  \A s \in Sessions :
    (IsOpen(s) /\ (session[s].forced # Null \/ turn[s] \in Outcomes \/ ~connected))
      ~> (session[s].terminal # Null \/ disposed)

=============================================================================
