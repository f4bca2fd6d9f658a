----------------------------- MODULE FreshTasks -----------------------------
(***************************************************************************)
(* The fresh-task sessions (production/app-server-fresh-task-session.ts)   *)
(* over the shared App Server client: fresh root threads, one turn at a    *)
(* time in each, and the private router that gathers a turn's completed    *)
(* items and its terminal into the receipt its launcher waits for.  The    *)
(* host may send any line at any time.                                     *)
(***************************************************************************)
EXTENDS AppServerClient, Sequences, FiniteSets

CONSTANTS
  MaxTurns,  \* maximumTurnsPerSession
  MaxItems   \* maximumCompletedItemsPerTurn

ASSUME MaxTurnsAssumption == MaxTurns \in Nat
ASSUME MaxItemsAssumption == MaxItems \in Nat

VARIABLES
  routerFailed,  \* the router's fatalError is set
  phase,         \* phase[s]: PrivateSessionRecord.phase, None when not registered
  attempt,       \* attempt[s]: the startTurn call whose attempt session s holds
  turnOwners,    \* turnOwners[t]: the session that activated turn t
  turn           \* turn[c]: the TurnAttempt of startTurn call c

routerVars == <<routerFailed, phase, attempt, turnOwners, turn>>
vars == <<clientVars, routerVars>>

Nobody == 0  \* the number of no call

\* items and terminal hold the turn id of the event they were taken from.
Attempts ==
  [candidate: Turns \cup {None}, id: Turns \cup {None}, terminal: Turns \cup {None},
   items: UNION {[1 .. n -> Turns] : n \in 0 .. MaxItems},
   completion: {None, "receipt", "error"}]
NoAttempt ==
  [candidate |-> None, id |-> None, terminal |-> None, items |-> <<>>, completion |-> None]
FailedAttempt == [NoAttempt EXCEPT !.completion = "error"]

Phases == {None, "READY", "TURN_STARTING", "TURN_ACTIVE", "TURN_TERMINAL", "FAILED"}

TypeOK ==
  /\ ClientTypeOK
  /\ routerFailed \in BOOLEAN
  /\ phase \in [Threads -> Phases]
  /\ attempt \in [Threads -> Calls \cup {Nobody}]
  /\ turnOwners \in [Turns -> Threads \cup {None}]
  /\ turn \in [Calls -> Attempts]
  /\ \A s \in Threads :
       phase[s] \in {"TURN_STARTING", "TURN_ACTIVE"} =>
         /\ attempt[s] \in Calls
         /\ turn[attempt[s]].completion = None
         /\ turn[attempt[s]].id # None <=> phase[s] = "TURN_ACTIVE"

Init ==
  /\ ClientInit
  /\ routerFailed = FALSE
  /\ phase = [s \in Threads |-> None]
  /\ attempt = [s \in Threads |-> Nobody]
  /\ turnOwners = [t \in Turns |-> None]
  /\ turn = [c \in Calls |-> NoAttempt]

Registered(s) == phase[s] # None
Awaited(c) == \E s \in Threads : attempt[s] = c /\ turn[c].completion = None
TurnCount(s) == Cardinality({t \in Turns : turnOwners[t] = s})

-----------------------------------------------------------------------------
\* Failures.

\* Fault for the mutation runs: only the sessions with an active turn are told.
RouterFailsActive ==
  /\ routerFailed' = TRUE
  /\ phase' = [s \in Threads |-> IF phase[s] = "TURN_ACTIVE" THEN "FAILED" ELSE phase[s]]
  /\ turn' = [c \in Calls |->
       IF \E s \in Threads : attempt[s] = c /\ phase[s] = "TURN_ACTIVE"
       THEN FailedAttempt ELSE turn[c]]
  /\ UNCHANGED <<attempt, turnOwners>>

\* FreshTaskPrivateEventRouter.fail
RouterFails ==
  IF routerFailed
  THEN UNCHANGED routerVars
  ELSE /\ routerFailed' = TRUE
       /\ phase' = [s \in Threads |-> IF Registered(s) THEN "FAILED" ELSE None]
       /\ turn' = [c \in Calls |->
            IF Awaited(c) THEN FailedAttempt ELSE turn[c]]
       /\ UNCHANGED <<attempt, turnOwners>>

\* failConnection.  A disposed router is detached, and has failed already.
FailConnection == IF failed THEN UNCHANGED <<initialization, failed, disposed, pending, call, routerVars>>
                  ELSE FailPending /\ RouterFails

BreakConnection == FailConnection /\ UNCHANGED child

\* CodexAppServerTaskHost.dispose: the sessions first, then the client, which ends the
\* process's input and kills it; what waits for an answer waits for its timeout.
Dispose ==
  /\ ~disposed
  /\ disposed' = TRUE
  /\ RouterFails
  /\ UNCHANGED <<initialization, child, failed, pending, call>>

-----------------------------------------------------------------------------
\* Calls.

Request(c, op, thread) == Launch(c, op, thread) /\ UNCHANGED routerVars

RequestFails(c, op, thread) == LaunchFails(c, op, thread) /\ RouterFails

\* CodexAppServerFreshTaskSessions.start
StartSession(c) ==
  /\ IsNext(c)
  /\ IF disposed
     THEN Refuse(c) /\ UNCHANGED routerVars
     ELSE Request(c, "thread/start", None) \/ RequestFails(c, "thread/start", None)

\* FreshTaskPrivateEventRouter.beginTurn
MayBeginTurn(s) ==
  /\ ~routerFailed
  /\ phase[s] \in {"READY", "TURN_TERMINAL"}
  /\ TurnCount(s) < MaxTurns

\* CodexAppServerFreshTaskSessions.startTurn; only a session's handle has it.
StartTurn(c, s) ==
  /\ IsNext(c)
  /\ Registered(s)
  /\ IF disposed \/ ~MayBeginTurn(s)
     THEN Refuse(c) /\ UNCHANGED routerVars
     ELSE /\ Launch(c, "turn/start", s)
          /\ phase' = [phase EXCEPT ![s] = "TURN_STARTING"]
          /\ attempt' = [attempt EXCEPT ![s] = c]
          /\ UNCHANGED <<routerFailed, turnOwners, turn>>

\* The other users of the client (the Development Task, skills/list).
OtherCall(c) ==
  /\ IsNext(c)
  /\ Request(c, "other", None) \/ RequestFails(c, "other", None)

-----------------------------------------------------------------------------
\* A caller continues with what its request settled with.

Finish(c, result) ==
  /\ call' = [call EXCEPT ![c] =
       IF result = "error" THEN FailedCall ELSE [@ EXCEPT !.stage = "done", !.result = result]]
  /\ UNCHANGED <<initialization, child, failed, disposed, pending>>

Continues(c, op) == call[c].stage = "settled" /\ call[c].op = op

ContinueOther(c) ==
  /\ Continues(c, "other")
  /\ Finish(c, IF call[c].outcome = "error" THEN "error" ELSE "success")
  /\ UNCHANGED routerVars

\* Fault for the mutation runs: a session is registered with a failed router.
ContinueStartAnyway(c) ==
  /\ Continues(c, "thread/start")
  /\ LET s == call[c].outcome
     IN  IF s \in Threads /\ ~Registered(s)
         THEN /\ phase' = [phase EXCEPT ![s] = "READY"]
              /\ Finish(c, "success")
              /\ UNCHANGED <<routerFailed, attempt, turnOwners, turn>>
         ELSE /\ Finish(c, "error")
              /\ UNCHANGED routerVars

\* registerSession, after the answer proved a fresh root.
ContinueStart(c) ==
  /\ Continues(c, "thread/start")
  /\ LET s == call[c].outcome
     IN  IF s \in Threads /\ ~Registered(s) /\ ~routerFailed
         THEN /\ phase' = [phase EXCEPT ![s] = "READY"]
              /\ Finish(c, "success")
              /\ UNCHANGED <<routerFailed, attempt, turnOwners, turn>>
         ELSE /\ Finish(c, "error")
              /\ UNCHANGED routerVars

\* failTurnStart
FailTurnStart(c) ==
  LET s == call[c].thread
  IN  /\ IF attempt[s] = c /\ turn[c].completion = None
         THEN /\ phase' = [phase EXCEPT ![s] = "FAILED"]
              /\ turn' = [turn EXCEPT ![c] = FailedAttempt]
         ELSE UNCHANGED <<phase, turn>>
      /\ UNCHANGED <<routerFailed, attempt, turnOwners>>

\* Fault for the mutation runs: the answer is not compared with the events.
MayActivateAny(c, t) ==
  LET s == call[c].thread
  IN  /\ ~routerFailed
      /\ phase[s] = "TURN_STARTING" /\ attempt[s] = c
      /\ turnOwners[t] = None

\* FreshTaskPrivateEventRouter.activateTurn: the answer agrees with the events that
\* came before it.
MayActivate(c, t) ==
  LET s == call[c].thread
  IN  /\ ~routerFailed
      /\ phase[s] = "TURN_STARTING" /\ attempt[s] = c
      /\ turn[c].candidate \in {None, t}
      /\ turnOwners[t] = None

\* A terminal that was there first finishes the turn at once (finishTurn).
ContinueTurn(c) ==
  /\ Continues(c, "turn/start")
  /\ LET s == call[c].thread
         t == call[c].outcome
         ended == turn[c].terminal # None
     IN  IF t \in Turns /\ MayActivate(c, t)
         THEN /\ turnOwners' = [turnOwners EXCEPT ![t] = s]
              /\ turn' = [turn EXCEPT ![c].id = t,
                            ![c].completion = IF ended THEN "receipt" ELSE None]
              /\ phase' = [phase EXCEPT ![s] = IF ended THEN "TURN_TERMINAL" ELSE "TURN_ACTIVE"]
              /\ Finish(c, "success")
              /\ UNCHANGED <<routerFailed, attempt>>
         ELSE FailTurnStart(c) /\ Finish(c, "error")

Continue(c) == ContinueOther(c) \/ ContinueStart(c) \/ ContinueTurn(c)

-----------------------------------------------------------------------------
\* Events of thread s and turn t, in the one place where notifications arrive.

Private(s, t) == Registered(s) \/ turnOwners[t] # None

\* locatePrivateSession: the event belongs to the turn that starts or is active.
Located(s, t) ==
  /\ Registered(s)
  /\ turnOwners[t] \in {None, s}
  /\ \/ phase[s] = "TURN_STARTING" /\ turn[attempt[s]].candidate \in {None, t}
     \/ phase[s] = "TURN_ACTIVE" /\ turn[attempt[s]].id = t

\* The first event of a turn that starts names it.
Candidate(s, t) == IF phase[s] = "TURN_STARTING" THEN t ELSE turn[attempt[s]].candidate

\* routeCompletedItem; projected: its type is in the caller's list.
ReadItem(s, t, projected) ==
  /\ Reads
  /\ Private(s, t)
  /\ LET c == attempt[s]
     IN  IF Located(s, t) /\ turn[c].terminal = None /\ (projected => Len(turn[c].items) < MaxItems)
         THEN /\ turn' = [turn EXCEPT ![c].candidate = Candidate(s, t),
                            ![c].items = IF projected THEN Append(@, t) ELSE @]
              /\ UNCHANGED <<clientVars, routerFailed, phase, attempt, turnOwners>>
         ELSE BreakConnection

\* routeTerminal
ReadTerminal(s, t) ==
  /\ Reads
  /\ Private(s, t)
  /\ LET c == attempt[s]
         active == phase[s] = "TURN_ACTIVE"
     IN  IF Located(s, t) /\ turn[c].terminal = None
         THEN /\ turn' = [turn EXCEPT ![c].candidate = Candidate(s, t), ![c].terminal = t,
                            ![c].completion = IF active THEN "receipt" ELSE None]
              /\ phase' = [phase EXCEPT ![s] = IF active THEN "TURN_TERMINAL" ELSE @]
              /\ UNCHANGED <<clientVars, routerFailed, attempt, turnOwners>>
         ELSE BreakConnection

-----------------------------------------------------------------------------
Read ==
  \/ \E c \in Calls : ReadResponse(c) /\ UNCHANGED routerVars
  \/ ReadInitializeResponse /\ UNCHANGED routerVars
  \/ ReadOffence /\ BreakConnection
  \/ \E s \in Threads, t \in Turns :
       ReadTerminal(s, t) \/ \E projected \in BOOLEAN : ReadItem(s, t, projected)

Timeout ==
  \/ \E c \in Calls : TimeoutCall(c) /\ UNCHANGED routerVars
  \/ TimeoutInitialize /\ BreakConnection

Process ==
  \/ ProcessExits /\ UNCHANGED routerVars
  \/ ProcessCloses /\ IF disposed
                      THEN UNCHANGED <<initialization, failed, disposed, pending, call, routerVars>>
                      ELSE FailConnection

Next ==
  \/ \E c \in Calls :
       \/ StartSession(c)
       \/ \E s \in Threads : StartTurn(c, s)
       \/ OtherCall(c)
       \/ Send(c) /\ UNCHANGED routerVars
       \/ Continue(c)
  \/ Read
  \/ Timeout
  \/ Process
  \/ Dispose

Spec == Init /\ [][Next]_vars

\* Promises continue and timers fire: both are the event loop's work, on a thread no
\* handler here blocks.
Fairness ==
  /\ \A c \in Calls : WF_vars(Send(c) /\ UNCHANGED routerVars) /\ WF_vars(Continue(c))
  /\ WF_vars(Timeout)

FairSpec == Spec /\ Fairness

-----------------------------------------------------------------------------
\* Properties.

\* The receipt of a turn is about the turn that the host's answer named: its items and
\* its terminal are from events of that turn, in that session, and no other call was
\* given a receipt of it, however events, answers and failures were ordered.
ReceiptsAreTheirOwn ==
  \A c \in Calls :
    turn[c].completion = "receipt" =>
      LET t == turn[c].id
      IN  /\ t \in Turns /\ t = call[c].outcome
          /\ turn[c].terminal = t
          /\ \A i \in DOMAIN turn[c].items : turn[c].items[i] = t
          /\ turnOwners[t] = call[c].thread
          /\ \A d \in Calls \ {c} : turn[d].id # t

\* A session and the attempt it runs agree on the phase, and receipts are their own.
TurnsAreSound == TypeOK /\ ReceiptsAreTheirOwn

\* Nobody waits on a dead connection: once it failed no request is pending, and once it
\* failed or was disposed no launcher waits for the end of a turn, not even of one
\* that was still starting.
FailureReachesEveryWaiter ==
  /\ failed => pending = {} /\ initialization # "pending"
  /\ failed \/ disposed =>
       \A c \in Calls : call[c].op = "turn/start" => turn[c].completion # None

\* An answer that was read before the connection failed or was disposed, but whose
\* caller continues after it, does not become a session or a turn any more.
HandlesAreAlive ==
  [][\A c \in Calls :
       call[c].result = None /\ call'[c].result = "success" /\ call[c].op # "other"
         => ~failed /\ ~disposed]_vars

\* Every call of the client ends, by an answer, its own timeout or a failure of the
\* connection, and so it does after a disposal.  The calls are finitely many, so it is
\* enough that from some moment on none is open.
CallsEnd == <>[](\A c \in Calls : call[c].stage \in {"unused", "done"})

=============================================================================
