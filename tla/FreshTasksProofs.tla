--------------------------- MODULE FreshTasksProofs ---------------------------
(***************************************************************************)
(* A receipt is about the turn of its own call, a failure reaches whoever   *)
(* waits and no handle outlives the connection, for any number of calls,    *)
(* threads and turns, any limits of a session, and any lines of the host.   *)
(*                                                                         *)
(* The argument: a session that runs a turn holds the one call that started *)
(* it (SessionsAgree), and all that was gathered for a call is about one    *)
(* turn, the first that was named, which an answer must repeat before it    *)
(* becomes the call's own (AttemptsAgree).  Whoever waits for the end of a  *)
(* turn is the attempt of a session that runs it (WaitersAreKnown), so that *)
(* a failure of the sessions reaches it.                                    *)
(*                                                                         *)
(* The second half is about the two launchers that start their tasks through *)
(* those sessions, for any number of threads, attempts, grants and deaths of *)
(* the process.  What a thread is for never changes (ThreadsInv): it belongs *)
(* to the one attempt that asked for its first turn, or it read first and    *)
(* writes with the epoch of the envelope.  The invariants of the launchers    *)
(* say which thread each holds and how far its turn is (LaunchInv, TaskInv,   *)
(* GrantInv) and what was journaled and answered of it (HandoffInv); the host *)
(* only ever appends turns and ends them (Moves), which disturbs neither.     *)
(***************************************************************************)
EXTENDS FreshTasks, TaskLaunch, SequenceTheorems, TLAPS

Running == {"TURN_STARTING", "TURN_ACTIVE"}

RouterTypeOK ==
  /\ routerFailed \in BOOLEAN
  /\ phase \in [Threads -> Phases]
  /\ attempt \in [Threads -> Calls \cup {Nobody}]
  /\ turnOwners \in [Turns -> Threads \cup {None}]
  /\ turn \in [Calls -> Attempts]
  /\ \A s \in Threads :
       phase[s] \in Running =>
         /\ attempt[s] \in Calls
         /\ turn[attempt[s]].completion = None
         /\ turn[attempt[s]].id # None <=> phase[s] = "TURN_ACTIVE"

ConnectionAgrees ==
  /\ Initialize \in pending <=> initialization = "pending"
  /\ initialization # "ready" => pending \subseteq {Initialize}
  /\ initialization = None => ~failed
  /\ child \in {"running", "exited"} => initialization # None
  /\ failed => pending = {} /\ initialization # "pending"

CallsAgree ==
  \A c \in Calls :
    /\ call[c].stage = "unused" => call[c] = NoCall
    /\ call[c].op = "turn/start" => call[c].thread \in Threads

FailuresAgree == failed \/ disposed => routerFailed

\* A session that runs a turn holds the call that asked for it, and did not fail.
SessionsAgree ==
  \A s \in Threads :
    /\ attempt[s] \in Calls => call[attempt[s]].stage # "unused"
    /\ phase[s] \in Running =>
         /\ call[attempt[s]].op = "turn/start"
         /\ call[attempt[s]].thread = s
         /\ phase[s] = "TURN_STARTING" => call[attempt[s]].stage # "done"
         /\ ~routerFailed

\* The turn that the events of a call were about so far.
Named(c) == IF turn[c].id # None THEN turn[c].id ELSE turn[c].candidate

Gathered(c) ==
  /\ \A i \in DOMAIN turn[c].items : turn[c].items[i] = Named(c)
  /\ turn[c].terminal \in {None, Named(c)}
  /\ turn[c].completion = "receipt" => turn[c].id # None /\ turn[c].terminal # None
  /\ call[c].stage = "unused" => turn[c] = NoAttempt

\* A turn belongs to the call whose answer named it, and to no other.
Owned(c) ==
  turn[c].id # None =>
    /\ call[c].op = "turn/start" /\ call[c].stage = "done"
    /\ call[c].outcome = turn[c].id
    /\ turnOwners[turn[c].id] = call[c].thread
    /\ \A d \in Calls : turn[d].id = turn[c].id => d = c

AttemptsAgree == \A c \in Calls : Gathered(c) /\ Owned(c)

WaitersAreKnown ==
  \A c \in Calls :
    call[c].op = "turn/start" /\ turn[c].completion = None =>
      attempt[call[c].thread] = c /\ phase[call[c].thread] \in Running

RouterInv == RouterTypeOK /\ SessionsAgree /\ AttemptsAgree /\ WaitersAreKnown

ClientInv == ClientTypeOK /\ ConnectionAgrees /\ CallsAgree

Inv == ClientInv /\ FailuresAgree /\ RouterInv

-----------------------------------------------------------------------------
\* The connection and its calls.

LEMMA Numbers == 0 \notin Calls /\ Initialize \notin Calls /\ Nobody \notin Calls
  BY MaxCallsAssumption DEF Calls, Initialize, Nobody

LEMMA TypesSplit == TypeOK <=> ClientTypeOK /\ RouterTypeOK
  BY DEF TypeOK, RouterTypeOK, Running

LEMMA CallFacts ==
  ASSUME ClientTypeOK, NEW c \in Calls
  PROVE  /\ call[c] \in CallRecords
         /\ call[c].stage \in Stages /\ call[c].op \in Operations \cup {None}
         /\ call[c].thread \in Threads \cup {None} /\ call[c].outcome \in Outcomes
         /\ call[c].result \in {None, "success", "error"}
  BY DEF ClientTypeOK, CallRecords

LEMMA ConstantCalls ==
  /\ NoCall \in CallRecords /\ FailedCall \in CallRecords
  /\ NoCall.stage = "unused" /\ NoCall.op = None
  /\ FailedCall.stage = "done" /\ FailedCall.op = None /\ FailedCall.result = "error"
  BY DEF NoCall, FailedCall, CallRecords, Stages, Operations, Outcomes, None

LEMMA SettledFacts ==
  ASSUME NEW r \in CallRecords, NEW outcome \in Outcomes
  PROVE  /\ Settled(r, outcome) \in CallRecords
         /\ Settled(r, outcome).stage = "settled"
         /\ Settled(r, outcome).op = r.op /\ Settled(r, outcome).thread = r.thread
         /\ Settled(r, outcome).result = r.result
  BY DEF Settled, CallRecords, Stages

\* The calls that a step leaves alone, and what it may do to the others.
LEMMA ClientRefuses ==
  ASSUME ClientInv, NEW c \in Calls, call[c].stage = "unused", Refuse(c)
  PROVE  ClientInv'
  <1>1. c \notin pending
    BY DEF ClientInv, ClientTypeOK
  <1>2. ClientTypeOK'
    BY <1>1, ConstantCalls DEF ClientInv, ClientTypeOK, Refuse
  <1>3. ConnectionAgrees' /\ CallsAgree'
    BY ConstantCalls, CallFacts DEF ClientInv, ClientTypeOK, ConnectionAgrees, CallsAgree, Refuse, None,
       NoCall, FailedCall
  <1> QED
    BY <1>2, <1>3 DEF ClientInv

Launched(op, target) ==
  [stage |-> "initializing", op |-> op, thread |-> target, outcome |-> None, result |-> None]

LEMMA LaunchedFacts ==
  ASSUME NEW op \in Operations, NEW target \in Threads \cup {None}
  PROVE  Launched(op, target) \in CallRecords
  BY DEF Launched, CallRecords, Stages, Outcomes

LEMMA ClientLaunches ==
  ASSUME ClientInv, NEW c \in Calls, call[c].stage = "unused",
         NEW op \in Operations, NEW target \in Threads \cup {None},
         op = "turn/start" => target \in Threads,
         \/ Launch(c, op, target)
         \/ LaunchFails(c, op, target)
  PROVE  ClientInv'
  <1>1. c \notin pending /\ call \in [Calls -> CallRecords]
    BY DEF ClientInv, ClientTypeOK
  <1>2. call' = [call EXCEPT ![c] = Launched(op, target)]
    BY DEF Launch, LaunchFails, Launched
  <1>3. pending' \in {pending, pending \cup {Initialize}} /\ UNCHANGED disposed
    BY DEF Launch, LaunchFails
  <1>4. call' \in [Calls -> CallRecords]
    BY <1>1, <1>2, LaunchedFacts
  <1>5. \A d \in Calls : d \in pending' <=> call'[d].stage = "pending"
    BY <1>1, <1>2, <1>3, Numbers DEF ClientInv, ClientTypeOK, Launched
  <1>6. ClientTypeOK'
    BY <1>3, <1>4, <1>5 DEF ClientInv, ClientTypeOK, Launch, LaunchFails, Requests
  <1>7. ConnectionAgrees'
    BY DEF ClientInv, ClientTypeOK, ConnectionAgrees, Launch, LaunchFails, None
  <1>8. CallsAgree'
    BY <1>1, <1>2 DEF ClientInv, CallsAgree, Launched
  <1> QED
    BY <1>6, <1>7, <1>8 DEF ClientInv

LEMMA ClientSends ==
  ASSUME ClientInv, NEW c \in Calls, Send(c)
  PROVE  ClientInv'
  <1>1. c \notin pending /\ call \in [Calls -> CallRecords] /\ call[c] \in CallRecords
    BY DEF ClientInv, ClientTypeOK, Send
  <1>2. CASE call' = [call EXCEPT ![c].stage = "pending"] /\ pending' = pending \cup {c}
             /\ initialization = "ready" /\ ~failed
    <2>1. call' \in [Calls -> CallRecords]
      BY <1>1, <1>2 DEF CallRecords, Stages
    <2>2. ClientTypeOK'
      BY <1>1, <1>2, <2>1 DEF ClientInv, ClientTypeOK, Send, Requests, CallRecords
    <2>3. ConnectionAgrees' /\ CallsAgree'
      BY <1>1, <1>2, Numbers DEF ClientInv, ConnectionAgrees, CallsAgree, Send, CallRecords
    <2> QED
      BY <2>2, <2>3 DEF ClientInv
  <1>3. CASE call' = [call EXCEPT ![c] = Settled(@, "error")] /\ UNCHANGED pending
    <2>1. "error" \in Outcomes
      BY DEF Outcomes
    <2>2. call' \in [Calls -> CallRecords]
      BY <1>1, <1>3, <2>1, SettledFacts
    <2>3. ClientTypeOK'
      BY <1>1, <1>3, <2>1, <2>2, SettledFacts DEF ClientInv, ClientTypeOK, Send
    <2>4. ConnectionAgrees' /\ CallsAgree'
      BY <1>1, <1>3, <2>1, SettledFacts DEF ClientInv, ConnectionAgrees, CallsAgree, Send
    <2> QED
      BY <2>3, <2>4 DEF ClientInv
  <1> QED
    BY <1>2, <1>3 DEF Send

LEMMA ClientSettles ==
  ASSUME ClientInv, NEW c \in pending \ {Initialize}, NEW outcome \in Outcomes, Settle(c, outcome)
  PROVE  /\ ClientInv'
         /\ c \in Calls /\ call[c].stage = "pending"
  <1>1. c \in Calls /\ call \in [Calls -> CallRecords] /\ call[c] \in CallRecords
        /\ call[c].stage = "pending"
    BY DEF ClientInv, ClientTypeOK, Requests
  <1>2. call' \in [Calls -> CallRecords]
    BY <1>1, SettledFacts DEF Settle
  <1>3. ClientTypeOK'
    BY <1>1, <1>2, SettledFacts DEF ClientInv, ClientTypeOK, Settle
  <1>4. ConnectionAgrees' /\ CallsAgree'
    BY <1>1, SettledFacts, Numbers DEF ClientInv, ConnectionAgrees, CallsAgree, Settle
  <1> QED
    BY <1>1, <1>3, <1>4 DEF ClientInv

LEMMA ClientFails ==
  ASSUME ClientInv, FailPending, initialization # None,
         child' = child \/ child' = "closed"
  PROVE  ClientInv'
  <1>1. "error" \in Outcomes /\ pending \subseteq Requests /\ call \in [Calls -> CallRecords]
    BY DEF Outcomes, ClientInv, ClientTypeOK
  <1>2. call' \in [Calls -> CallRecords]
    BY <1>1, SettledFacts DEF FailPending
  <1>3. \A d \in Calls : call'[d].stage # "pending"
    BY <1>1, SettledFacts DEF ClientInv, ClientTypeOK, FailPending
  <1>4. ClientTypeOK'
    BY <1>2, <1>3 DEF ClientInv, ClientTypeOK, FailPending
  <1>5. ConnectionAgrees'
    BY DEF ClientInv, ClientTypeOK, ConnectionAgrees, FailPending, None
  <1>6. CallsAgree'
    BY <1>1, SettledFacts DEF ClientInv, CallsAgree, FailPending
  <1> QED
    BY <1>4, <1>5, <1>6 DEF ClientInv

LEMMA ClientFinishes ==
  ASSUME ClientInv, NEW c \in Calls, call[c].stage = "settled",
         NEW result \in {"success", "error"}, Finish(c, result)
  PROVE  ClientInv'
  <1>1. c \notin pending /\ call \in [Calls -> CallRecords] /\ call[c] \in CallRecords
    BY DEF ClientInv, ClientTypeOK
  <1>2. CASE call' = [call EXCEPT ![c] = FailedCall]
    <2>1. ClientTypeOK'
      BY <1>1, <1>2, ConstantCalls DEF ClientInv, ClientTypeOK, Finish
    <2>2. ConnectionAgrees' /\ CallsAgree'
      BY <1>1, <1>2, ConstantCalls DEF ClientInv, ConnectionAgrees, CallsAgree, Finish, None
    <2> QED
      BY <2>1, <2>2 DEF ClientInv
  <1>3. CASE call' = [call EXCEPT ![c] = [@ EXCEPT !.stage = "done", !.result = result]]
    <2>1. call' \in [Calls -> CallRecords]
      BY <1>1, <1>3 DEF CallRecords, Stages
    <2>2. call'[c].stage = "done" /\ call'[c].op = call[c].op /\ call'[c].thread = call[c].thread
      BY <1>1, <1>3 DEF CallRecords
    <2>3. \A d \in Calls \ {c} : call'[d] = call[d]
      BY <1>1, <1>3
    <2>4. ClientTypeOK'
      BY <1>1, <2>1, <2>2, <2>3 DEF ClientInv, ClientTypeOK, Finish
    <2>5. ConnectionAgrees'
      BY DEF ClientInv, ConnectionAgrees, Finish
    <2>6. CallsAgree'
      BY <2>2, <2>3 DEF ClientInv, CallsAgree
    <2> QED
      BY <2>4, <2>5, <2>6 DEF ClientInv
  <1> QED
    BY <1>2, <1>3 DEF Finish

LEMMA ClientInvIsKept ==
  ASSUME Inv, [Next]_vars
  PROVE  ClientInv'
  <1>0. ClientInv
    BY DEF Inv
  <1> USE <1>0
  <1>1. CASE UNCHANGED vars
    BY <1>1 DEF vars, clientVars, ClientInv, ClientTypeOK, ConnectionAgrees, CallsAgree
  <1>2. ASSUME UNCHANGED clientVars PROVE ClientInv'
    BY <1>2 DEF clientVars, ClientInv, ClientTypeOK, ConnectionAgrees, CallsAgree
  <1>3. ASSUME FailConnection, initialization # None, child' = child \/ child' = "closed"
        PROVE  ClientInv'
    <2>1. CASE failed
      BY <1>3, <2>1 DEF FailConnection, ClientInv, ClientTypeOK, ConnectionAgrees, CallsAgree
    <2>2. CASE ~failed
      BY <1>3, <2>2, ClientFails DEF FailConnection
    <2> QED
      BY <2>1, <2>2
  <1>4. ASSUME BreakConnection, initialization # None PROVE ClientInv'
    BY <1>3, <1>4 DEF BreakConnection
  <1>5. \A c \in Calls : IsNext(c) => call[c].stage = "unused"
    BY MaxCallsAssumption DEF IsNext, Calls
  <1>6. Reads => initialization # None
    BY DEF Reads, ClientInv, ConnectionAgrees
  <1>7. ASSUME NEW c \in Calls, StartSession(c) \/ OtherCall(c) PROVE ClientInv'
    BY <1>5, <1>7, ClientRefuses, ClientLaunches
       DEF StartSession, OtherCall, Request, RequestFails, Operations
  <1>8. ASSUME NEW c \in Calls, NEW s \in Threads, StartTurn(c, s) PROVE ClientInv'
    BY <1>5, <1>8, ClientRefuses, ClientLaunches DEF StartTurn, Operations
  <1>9. ASSUME NEW c \in Calls, Send(c) PROVE ClientInv'
    BY <1>9, ClientSends
  <1>10. ASSUME NEW c \in Calls, Continue(c) PROVE ClientInv'
    <2>1. call[c].stage = "settled" /\ \E result \in {"success", "error"} : Finish(c, result)
      BY <1>10 DEF Continue, ContinueOther, ContinueStart, ContinueTurn, Continues
    <2> QED
      BY <2>1, ClientFinishes
  <1>11. CASE Read
    <2>1. ASSUME NEW c \in Calls, ReadResponse(c) PROVE ClientInv'
      <3>1. Results(c) \cup {"error"} \subseteq Outcomes
        BY DEF Results, Outcomes
      <3> QED
        BY <2>1, <3>1, ClientSettles DEF ReadResponse
    <2>2. CASE ReadInitializeResponse
      BY <2>2, Numbers
         DEF ReadInitializeResponse, Reads, ClientInv, ClientTypeOK, ConnectionAgrees, CallsAgree, None
    <2>3. CASE ReadOffence /\ BreakConnection
      BY <1>4, <1>6, <2>3 DEF ReadOffence
    <2>4. ASSUME NEW s \in Threads, NEW t \in Turns,
                 ReadTerminal(s, t) \/ \E projected \in BOOLEAN : ReadItem(s, t, projected)
          PROVE  ClientInv'
      BY <1>2, <1>4, <1>6, <2>4 DEF ReadTerminal, ReadItem
    <2> QED
      BY <1>11, <2>1, <2>2, <2>3, <2>4 DEF Read
  <1>12. CASE Timeout
    <2>1. ASSUME NEW c \in Calls, TimeoutCall(c) PROVE ClientInv'
      BY <2>1, ClientSettles DEF TimeoutCall, Outcomes
    <2>2. CASE TimeoutInitialize /\ BreakConnection
      BY <1>4, <2>2 DEF TimeoutInitialize, ClientInv, ConnectionAgrees, None
    <2> QED
      BY <1>12, <2>1, <2>2 DEF Timeout
  <1>13. CASE Process
    <2>1. CASE ProcessExits
      BY <2>1 DEF ProcessExits, ClientInv, ClientTypeOK, ConnectionAgrees, CallsAgree
    <2>2. CASE ProcessCloses /\ disposed
      BY <1>13, <2>2
         DEF Process, ProcessExits, ProcessCloses, ClientInv, ClientTypeOK, ConnectionAgrees, CallsAgree
    <2>3. CASE ProcessCloses /\ ~disposed
      BY <1>3, <1>13, <2>3 DEF Process, ProcessExits, ProcessCloses, ClientInv, ConnectionAgrees
    <2> QED
      BY <1>13, <2>1, <2>2, <2>3 DEF Process
  <1>14. CASE Dispose
    BY <1>14 DEF Dispose, ClientInv, ClientTypeOK, ConnectionAgrees, CallsAgree
  <1> QED
    BY <1>1, <1>7, <1>8, <1>9, <1>10, <1>11, <1>12, <1>13, <1>14 DEF Next

-----------------------------------------------------------------------------
\* Failures.

LEMMA FailuresAreKept ==
  ASSUME Inv, [Next]_vars
  PROVE  FailuresAgree'
  <1>0. FailuresAgree /\ routerFailed \in BOOLEAN
    BY DEF Inv, RouterInv, RouterTypeOK
  <1>1. RouterFails => routerFailed'
    BY <1>0 DEF RouterFails, routerVars
  <1>2. CASE UNCHANGED vars
    BY <1>0, <1>2 DEF FailuresAgree, vars, clientVars, routerVars
  <1>3. FailConnection => FailuresAgree'
    BY <1>0, <1>1 DEF FailConnection, FailuresAgree, routerVars
  <1>4. (UNCHANGED <<failed, disposed>> /\ UNCHANGED routerFailed) => FailuresAgree'
    BY <1>0 DEF FailuresAgree
  <1>5. ASSUME NEW c \in Calls, StartSession(c) \/ OtherCall(c) PROVE FailuresAgree'
    BY <1>1, <1>4, <1>5
       DEF StartSession, OtherCall, Request, RequestFails, Refuse, Launch, FailuresAgree, routerVars
  <1>6. ASSUME NEW c \in Calls, NEW s \in Threads, StartTurn(c, s) PROVE FailuresAgree'
    BY <1>4, <1>6 DEF StartTurn, Refuse, Launch, routerVars
  <1>7. ASSUME NEW c \in Calls, Send(c) /\ UNCHANGED routerVars PROVE FailuresAgree'
    BY <1>4, <1>7 DEF Send, routerVars
  <1>8. ASSUME NEW c \in Calls, Continue(c) PROVE FailuresAgree'
    BY <1>4, <1>8
       DEF Continue, ContinueOther, ContinueStart, ContinueTurn, FailTurnStart, Finish, routerVars
  <1>9. CASE Read
    BY <1>3, <1>4, <1>9
       DEF Read, ReadResponse, Settle, ReadInitializeResponse, BreakConnection, ReadTerminal, ReadItem,
           clientVars, routerVars
  <1>10. CASE Timeout
    BY <1>3, <1>4, <1>10 DEF Timeout, TimeoutCall, Settle, BreakConnection, routerVars
  <1>11. CASE Process
    BY <1>3, <1>4, <1>11 DEF Process, ProcessExits, ProcessCloses, routerVars
  <1>12. CASE Dispose
    BY <1>1, <1>12 DEF Dispose, FailuresAgree
  <1> QED
    BY <1>2, <1>5, <1>6, <1>7, <1>8, <1>9, <1>10, <1>11, <1>12 DEF Next

-----------------------------------------------------------------------------
\* Steps that change no session, and those that fail all of them.

\* The call goes on, and what the sessions know of it stays true.
Follows(c) ==
  \/ call'[c] = call[c]
  \/ /\ call[c].stage \in {"initializing", "pending"} /\ call'[c].stage \in {"pending", "settled"}
     /\ call'[c].op = call[c].op /\ call'[c].thread = call[c].thread
  \/ call[c].op # "turn/start" /\ call'[c].op # "turn/start" /\ call'[c].stage # "unused"

LEMMA NoAttemptFacts ==
  /\ NoAttempt \in Attempts /\ FailedAttempt \in Attempts
  /\ NoAttempt.candidate = None /\ NoAttempt.id = None /\ NoAttempt.terminal = None
  /\ NoAttempt.items = <<>> /\ NoAttempt.completion = None
  /\ FailedAttempt.candidate = None /\ FailedAttempt.id = None /\ FailedAttempt.terminal = None
  /\ FailedAttempt.items = <<>> /\ FailedAttempt.completion = "error"
  <1>1. <<>> \in [1 .. 0 -> Turns] /\ 0 \in 0 .. MaxItems
    BY MaxItemsAssumption
  <1>2. <<>> \in UNION {[1 .. n -> Turns] : n \in 0 .. MaxItems}
    BY <1>1
  <1> QED
    BY <1>2 DEF NoAttempt, FailedAttempt, Attempts

LEMMA FailedAttemptsAgree ==
  ASSUME NEW c \in Calls, turn'[c] = FailedAttempt, call'[c].stage # "unused"
  PROVE  (Gathered(c) /\ Owned(c))'
  BY NoAttemptFacts DEF Gathered, Owned, None

LEMMA FollowedCallsAgree ==
  ASSUME Inv, NEW c \in Calls, Follows(c), turn'[c] = turn[c],
         \A t \in Turns : turnOwners[t] # None => turnOwners'[t] = turnOwners[t],
         \A d \in Calls : turn'[d].id \in {turn[d].id, None}
  PROVE  (Gathered(c) /\ Owned(c))'
  <1>1. Gathered(c) /\ Owned(c)
    BY DEF Inv, RouterInv, AttemptsAgree
  <1>2. Gathered(c)'
    BY <1>1 DEF Gathered, Named, Follows
  <1>3. ASSUME turn[c].id # None PROVE Owned(c)'
    <2>1. call'[c] = call[c] /\ call[c].op = "turn/start"
      BY <1>1, <1>3 DEF Follows, Owned
    <2>2. call[c].thread \in Threads /\ turn[c].id \in Turns
      BY <1>3, <2>1 DEF Inv, ClientInv, CallsAgree, RouterInv, RouterTypeOK, Attempts
    <2>3. turnOwners'[turn[c].id] = call[c].thread
      BY <1>1, <1>3, <2>2, ThreadsAssumption DEF Owned
    <2> QED
      BY <1>1, <1>3, <2>1, <2>3 DEF Owned
  <1> QED
    BY <1>2, <1>3 DEF Owned

LEMMA SessionsStay ==
  ASSUME Inv, UNCHANGED routerVars, \A c \in Calls : Follows(c)
  PROVE  RouterInv'
  <1>1. RouterTypeOK'
    BY DEF Inv, RouterInv, RouterTypeOK, routerVars
  <1>2. SessionsAgree'
    BY DEF Inv, RouterInv, RouterTypeOK, SessionsAgree, Follows, routerVars
  <1>3. AttemptsAgree'
    BY FollowedCallsAgree DEF AttemptsAgree, routerVars
  <1>4. WaitersAreKnown'
    BY DEF Inv, RouterInv, WaitersAreKnown, Follows, routerVars
  <1> QED
    BY <1>1, <1>2, <1>3, <1>4 DEF RouterInv

LEMMA SessionsFail ==
  ASSUME Inv, RouterFails, \A c \in Calls : Follows(c)
  PROVE  RouterInv'
  <1>1. CASE routerFailed
    BY <1>1, SessionsStay DEF RouterFails
  <1>2. CASE ~routerFailed
    <2>1. RouterTypeOK
      BY DEF Inv, RouterInv
    <2>2. \A s \in Threads : phase'[s] \in {None, "FAILED"}
      BY <1>2 DEF RouterFails, Registered
    <2>3. \A c \in Calls : turn'[c] = IF Awaited(c) THEN FailedAttempt ELSE turn[c]
      BY <1>2 DEF RouterFails
    <2>4. RouterTypeOK'
      BY <1>2, <2>1, <2>2, NoAttemptFacts DEF RouterTypeOK, RouterFails, Running, Phases, None
    <2>5. SessionsAgree'
      <3>1. \A s \in Threads : attempt'[s] \in Calls => call'[attempt'[s]].stage # "unused"
        BY <1>2 DEF Inv, RouterInv, SessionsAgree, RouterFails, Follows
      <3> QED
        BY <2>2, <3>1 DEF SessionsAgree, Running, None
    <2>6. AttemptsAgree'
      <3>1. SUFFICES ASSUME NEW c \in Calls PROVE (Gathered(c) /\ Owned(c))'
        BY DEF AttemptsAgree
      <3>2. CASE Awaited(c)
        <4>1. call'[c].stage # "unused"
          BY <1>2, <3>2, <2>5 DEF SessionsAgree, Awaited, RouterFails
        <4> QED
          BY <2>3, <3>2, <4>1, FailedAttemptsAgree
      <3>3. CASE ~Awaited(c)
        BY <1>2, <2>3, <3>3, NoAttemptFacts, FollowedCallsAgree DEF RouterFails
      <3> QED
        BY <3>2, <3>3
    <2>7. WaitersAreKnown'
      <3>1. SUFFICES ASSUME NEW c \in Calls, call'[c].op = "turn/start" PROVE turn'[c].completion # None
        BY DEF WaitersAreKnown
      <3>2. call[c].op = "turn/start"
        BY <3>1 DEF Follows
      <3>3. turn[c].completion = None => Awaited(c)
        BY <3>2 DEF Inv, ClientInv, CallsAgree, RouterInv, WaitersAreKnown, Awaited
      <3> QED
        BY <2>3, <3>3, NoAttemptFacts DEF None
    <2> QED
      BY <2>4, <2>5, <2>6, <2>7 DEF RouterInv
  <1> QED
    BY <1>1, <1>2

LEMMA OthersFollow ==
  ASSUME ClientInv, NEW c \in Calls, \A d \in Calls \ {c} : call'[d] = call[d],
         call[c].op # "turn/start" /\ call'[c].op # "turn/start" /\ call'[c].stage # "unused"
  PROVE  \A d \in Calls : Follows(d)
  BY DEF Follows

\* Requests and their answers change no session.
LEMMA ClientStepsFollow ==
  ASSUME ClientInv, NEW c \in Calls,
         \/ call[c].stage = "unused" /\ Refuse(c)
         \/ call[c].stage = "unused" /\ \E op \in {"thread/start", "other"} :
              Launch(c, op, None) \/ LaunchFails(c, op, None)
         \/ Send(c)
         \/ \E outcome \in Outcomes : call[c].stage = "pending" /\ Settle(c, outcome)
         \/ Continues(c, "other") /\ \E result \in {"success", "error"} : Finish(c, result)
         \/ Continues(c, "thread/start") /\ \E result \in {"success", "error"} : Finish(c, result)
  PROVE  \A d \in Calls : Follows(d)
  <1>1. call \in [Calls -> CallRecords] /\ call[c] \in CallRecords
    BY DEF ClientInv, ClientTypeOK
  <1>2. call[c].stage = "unused" => call[c].op # "turn/start"
    BY ConstantCalls DEF ClientInv, CallsAgree, None
  <1>3. CASE call[c].stage = "unused" /\ Refuse(c)
    BY <1>1, <1>2, <1>3, ConstantCalls, OthersFollow DEF Refuse, None
  <1>4. CASE call[c].stage = "unused" /\ \E op \in {"thread/start", "other"} :
               Launch(c, op, None) \/ LaunchFails(c, op, None)
    BY <1>1, <1>2, <1>4, OthersFollow DEF Launch, LaunchFails
  <1>5. CASE Send(c)
    <2>1. "error" \in Outcomes
      BY DEF Outcomes
    <2>2. \A d \in Calls \ {c} : call'[d] = call[d]
      BY <1>1, <1>5 DEF Send
    <2>3. call'[c] = [call[c] EXCEPT !.stage = "pending"] \/ call'[c] = Settled(call[c], "error")
      BY <1>1, <1>5 DEF Send
    <2>4. call[c].stage = "initializing" /\ call'[c].stage \in {"pending", "settled"}
          /\ call'[c].op = call[c].op /\ call'[c].thread = call[c].thread
      BY <1>1, <1>5, <2>1, <2>3, SettledFacts DEF Send, CallRecords
    <2> QED
      BY <2>2, <2>4 DEF Follows
  <1>6. ASSUME NEW outcome \in Outcomes, call[c].stage = "pending", Settle(c, outcome)
        PROVE  \A d \in Calls : Follows(d)
    BY <1>1, <1>6, SettledFacts DEF Settle, Follows
  <1>7. ASSUME NEW result \in {"success", "error"}, NEW op \in {"thread/start", "other"},
               Continues(c, op), Finish(c, result)
        PROVE  \A d \in Calls : Follows(d)
    <2>1. \A d \in Calls \ {c} : call'[d] = call[d]
      BY <1>1, <1>7 DEF Finish
    <2>2. call'[c] = FailedCall \/ call'[c] = [call[c] EXCEPT !.stage = "done", !.result = result]
      BY <1>1, <1>7 DEF Finish
    <2>3. call[c].op # "turn/start" /\ call'[c].op # "turn/start" /\ call'[c].stage # "unused"
      BY <1>1, <1>7, <2>2, ConstantCalls DEF Continues, CallRecords, None
    <2> QED
      BY <2>1, <2>3, OthersFollow
  <1> QED
    BY <1>3, <1>4, <1>5, <1>6, <1>7

LEMMA FailuresFollow ==
  ASSUME ClientInv, FailPending
  PROVE  \A c \in Calls : Follows(c)
  <1>1. "error" \in Outcomes /\ call \in [Calls -> CallRecords]
    BY DEF Outcomes, ClientInv, ClientTypeOK
  <1> QED
    BY <1>1, SettledFacts DEF Follows, FailPending, ClientInv, ClientTypeOK

LEMMA ConnectionFailsWell ==
  ASSUME Inv, FailConnection
  PROVE  RouterInv'
  <1>1. CASE failed
    BY <1>1, SessionsStay DEF FailConnection, Follows
  <1>2. CASE ~failed
    BY <1>2, FailuresFollow, SessionsFail DEF FailConnection, Inv
  <1> QED
    BY <1>1, <1>2

-----------------------------------------------------------------------------
\* A session and its turns.

LEMMA SessionRegisters ==
  ASSUME Inv, NEW c \in Calls, NEW s \in Threads, ~Registered(s),
         Continues(c, "thread/start"), Finish(c, "success"),
         phase' = [phase EXCEPT ![s] = "READY"],
         UNCHANGED <<routerFailed, attempt, turnOwners, turn>>
  PROVE  RouterInv'
  <1>1. \A d \in Calls : Follows(d)
    BY ClientStepsFollow DEF Inv
  <1>2. RouterTypeOK'
    BY DEF Inv, RouterInv, RouterTypeOK, Running, Phases
  <1>3. SessionsAgree'
    <2>1. \A r \in Threads : phase'[r] \in Running => phase'[r] = phase[r]
      BY DEF Inv, RouterInv, RouterTypeOK, Running
    <2> QED
      BY <1>1, <2>1 DEF Inv, RouterInv, RouterTypeOK, SessionsAgree, Follows
  <1>4. AttemptsAgree'
    BY <1>1, FollowedCallsAgree DEF AttemptsAgree
  <1>5. WaitersAreKnown'
    <2>1. \A r \in Threads : phase[r] \in Running => phase'[r] = phase[r]
      BY DEF Inv, RouterInv, RouterTypeOK, Running, Registered, None
    <2> QED
      BY <1>1, <2>1 DEF Inv, ClientInv, CallsAgree, RouterInv, WaitersAreKnown, Follows
  <1> QED
    BY <1>2, <1>3, <1>4, <1>5 DEF RouterInv

LEMMA TurnStarts ==
  ASSUME Inv, NEW c \in Calls, NEW s \in Threads, call[c].stage = "unused", MayBeginTurn(s),
         Launch(c, "turn/start", s),
         phase' = [phase EXCEPT ![s] = "TURN_STARTING"],
         attempt' = [attempt EXCEPT ![s] = c],
         UNCHANGED <<routerFailed, turnOwners, turn>>
  PROVE  RouterInv'
  <1>1. turn[c] = NoAttempt /\ Gathered(c)
    BY DEF Inv, RouterInv, AttemptsAgree, Gathered
  <1>2. call' = [call EXCEPT ![c] = Launched("turn/start", s)] /\ call \in [Calls -> CallRecords]
    BY DEF Launch, Launched, Inv, ClientInv, ClientTypeOK
  <1>3. /\ call'[c].op = "turn/start" /\ call'[c].thread = s /\ call'[c].stage = "initializing"
        /\ \A d \in Calls \ {c} : call'[d] = call[d]
    BY <1>2 DEF Launched
  <1>4. phase[s] \notin Running
    BY DEF MayBeginTurn, Running
  <1>5. /\ phase \in [Threads -> Phases]
        /\ attempt \in [Threads -> Calls \cup {Nobody}]
    BY DEF Inv, RouterInv, RouterTypeOK
  <1>6. RouterTypeOK'
    BY <1>1, <1>5, NoAttemptFacts DEF Inv, RouterInv, RouterTypeOK, Running, Phases
  <1>7. \A r \in Threads : attempt[r] # c
    BY DEF Inv, RouterInv, SessionsAgree
  <1>8. SessionsAgree'
    BY <1>3, <1>5, <1>7 DEF Inv, RouterInv, RouterTypeOK, SessionsAgree, MayBeginTurn
  <1>9. AttemptsAgree'
    <2>1. SUFFICES ASSUME NEW d \in Calls PROVE (Gathered(d) /\ Owned(d))'
      BY DEF AttemptsAgree
    <2>2. CASE d = c
      BY <1>1, <1>3, <2>2, NoAttemptFacts DEF Gathered, Owned, Named
    <2>3. CASE d # c
      BY <1>3, <2>3, FollowedCallsAgree DEF Follows
    <2> QED
      BY <2>2, <2>3
  <1>10. WaitersAreKnown'
    <2>1. SUFFICES ASSUME NEW d \in Calls, call'[d].op = "turn/start", turn'[d].completion = None
                   PROVE  attempt'[call'[d].thread] = d /\ phase'[call'[d].thread] \in Running
      BY DEF WaitersAreKnown
    <2>2. CASE d = c
      BY <1>3, <1>5, <2>2 DEF Running
    <2>3. CASE d # c
      <3>1. /\ call'[d] = call[d] /\ call[d].thread \in Threads
            /\ attempt[call[d].thread] = d /\ phase[call[d].thread] \in Running
        BY <1>3, <2>1, <2>3 DEF Inv, ClientInv, CallsAgree, RouterInv, WaitersAreKnown
      <3> QED
        BY <1>4, <1>5, <3>1
    <2> QED
      BY <2>2, <2>3
  <1> QED
    BY <1>6, <1>8, <1>9, <1>10 DEF RouterInv

Items == UNION {[1 .. n -> Turns] : n \in 0 .. MaxItems}

LEMMA AttemptFacts ==
  ASSUME Inv, NEW c \in Calls
  PROVE  /\ turn[c] \in Attempts /\ turn[c].items \in Items
         /\ turn[c].candidate \in Turns \cup {None} /\ turn[c].id \in Turns \cup {None}
         /\ turn[c].terminal \in Turns \cup {None}
         /\ turn[c].completion \in {None, "receipt", "error"}
         /\ Gathered(c) /\ Owned(c)
  BY DEF Inv, RouterInv, RouterTypeOK, Attempts, Items, AttemptsAgree

\* A list of items that are all of turn t stays one with another item of t.
LEMMA ItemsGrow ==
  ASSUME NEW items \in Items, NEW t \in Turns, Len(items) < MaxItems,
         \A i \in DOMAIN items : items[i] = t
  PROVE  /\ Append(items, t) \in Items
         /\ \A i \in DOMAIN Append(items, t) : Append(items, t)[i] = t
  <1>1. PICK n \in 0 .. MaxItems : items \in [1 .. n -> Turns]
    BY DEF Items
  <1>2. items \in Seq(Turns) /\ Len(items) = n /\ n + 1 \in 0 .. MaxItems
    <2>1. n \in Nat
      BY <1>1
    <2>2. items \in Seq(Turns)
      BY <1>1, <2>1, SMTT(20)
    <2>3. Len(items) = n
      BY <1>1, <2>1, <2>2
    <2> QED
      BY <1>1, <2>1, <2>2, <2>3, MaxItemsAssumption
  <1>3. Append(items, t) \in [1 .. n + 1 -> Turns]
    <2>1. Append(items, t) \in Seq(Turns) /\ Len(Append(items, t)) = n + 1
      BY <1>2, AppendProperties
    <2> QED
      BY <2>1, LenProperties
  <1>4. \A i \in 1 .. n + 1 : Append(items, t)[i] = t
    BY <1>1, <1>2, AppendProperties
  <1> QED
    BY <1>2, <1>3, <1>4 DEF Items

\* The running turn of a session is that of one call, and an event of it agrees with
\* what was gathered before.
LEMMA LocatedFacts ==
  ASSUME Inv, NEW s \in Threads, NEW t \in Turns, Located(s, t),
         NEW c, c = attempt[s]
  PROVE  /\ c \in Calls /\ phase[s] \in Running
         /\ turn[c].completion = None /\ Named(c) \in {None, t}
         /\ turn[c].id = t <=> phase[s] = "TURN_ACTIVE"
         /\ turn[c].id # None <=> phase[s] = "TURN_ACTIVE"
         /\ call[c].op = "turn/start" /\ call[c].thread = s /\ call[c].stage # "unused"
         /\ \A i \in DOMAIN turn[c].items : turn[c].items[i] = t
         /\ \A r \in Threads \ {s} : phase[r] \in Running => attempt[r] # c
  <1>1. c \in Calls /\ phase[s] \in Running
        /\ turn[c].completion = None
        /\ (turn[c].id # None <=> phase[s] = "TURN_ACTIVE")
    BY DEF Inv, RouterInv, RouterTypeOK, Located, Running
  <1>2. turn[c].id = t <=> phase[s] = "TURN_ACTIVE"
    BY <1>1, TurnsAssumption DEF Located
  <1>3. Named(c) \in {None, t}
    BY <1>1, <1>2 DEF Located, Named
  <1>4. call[c].op = "turn/start" /\ call[c].thread = s /\ call[c].stage # "unused"
    BY <1>1 DEF Inv, RouterInv, SessionsAgree
  <1>5. \A i \in DOMAIN turn[c].items : turn[c].items[i] = t
    <2>1. \A i \in DOMAIN turn[c].items : turn[c].items[i] \in Turns
      BY <1>1, AttemptFacts DEF Items
    <2> QED
      BY <1>1, <1>3, <2>1, AttemptFacts, TurnsAssumption DEF Gathered
  <1>6. \A r \in Threads \ {s} : phase[r] \in Running => attempt[r] # c
    BY <1>4 DEF Inv, RouterInv, SessionsAgree
  <1> QED
    BY <1>1, <1>2, <1>3, <1>4, <1>5, <1>6

\* The receipt of a call becomes r, and nothing else changes for other calls.
LEMMA EventArrives ==
  ASSUME Inv, NEW s \in Threads, NEW t \in Turns, Located(s, t),
         NEW c, c = attempt[s],
         NEW r \in Attempts, turn' = [turn EXCEPT ![c] = r],
         r.id = turn[c].id, r.candidate = Candidate(s, t),
         \A i \in DOMAIN r.items : r.items[i] = t,
         r.terminal \in {None, t},
         \/ r.completion = None /\ phase' = phase
         \/ /\ r.completion = "receipt" /\ r.terminal = t /\ phase[s] = "TURN_ACTIVE"
            /\ phase' = [phase EXCEPT ![s] = "TURN_TERMINAL"],
         UNCHANGED <<clientVars, routerFailed, attempt, turnOwners>>
  PROVE  RouterInv'
  <1>1. /\ c \in Calls /\ phase[s] \in Running
        /\ turn[c].completion = None
        /\ turn[c].id = t <=> phase[s] = "TURN_ACTIVE"
        /\ turn[c].id # None <=> phase[s] = "TURN_ACTIVE"
        /\ call[c].op = "turn/start" /\ call[c].thread = s /\ call[c].stage # "unused"
        /\ \A q \in Threads \ {s} : phase[q] \in Running => attempt[q] # c
    BY LocatedFacts
  <1>2. /\ phase \in [Threads -> Phases]
        /\ turn \in [Calls -> Attempts]
    BY DEF Inv, RouterInv, RouterTypeOK
  <1>3. turn'[c] = r /\ \A d \in Calls \ {c} : turn'[d] = turn[d]
    BY <1>1, <1>2
  <1>4. \A q \in Threads \ {s} : phase'[q] = phase[q]
    BY <1>2
  <1>5. RouterTypeOK'
    <2>1. /\ phase' \in [Threads -> Phases]
          /\ turn' \in [Calls -> Attempts]
      BY <1>2 DEF Phases
    <2>2. ASSUME NEW q \in Threads, phase'[q] \in Running
          PROVE  /\ attempt'[q] \in Calls
                 /\ turn'[attempt'[q]].completion = None
                 /\ turn'[attempt'[q]].id # None <=> phase'[q] = "TURN_ACTIVE"
      <3>1. CASE q = s
        BY <1>1, <1>2, <1>3, <2>2, <3>1 DEF Running
      <3>2. CASE q # s
        BY <1>1, <1>3, <1>4, <2>2, <3>2 DEF Inv, RouterInv, RouterTypeOK
      <3> QED
        BY <3>1, <3>2
    <2> QED
      BY <2>1, <2>2 DEF Inv, RouterInv, RouterTypeOK
  <1>6. SessionsAgree'
    BY <1>1, <1>2, <1>4 DEF Inv, RouterInv, SessionsAgree, Running, clientVars
  <1>7. AttemptsAgree'
    <2>1. SUFFICES ASSUME NEW d \in Calls PROVE (Gathered(d) /\ Owned(d))'
      BY DEF AttemptsAgree
    <2>2. CASE d = c
      <3>1. Named(c)' = t
        BY <1>1, <1>3 DEF Named, Candidate, Located
      <3>2. Gathered(c)'
        BY <1>1, <1>3, <3>1, TurnsAssumption DEF Gathered, clientVars, None
      <3>3. \A e \in Calls : turn'[e].id = turn[e].id
        BY <1>3
      <3>4. Owned(c)'
        BY <1>1, <3>3, AttemptFacts DEF Owned, clientVars
      <3> QED
        BY <2>2, <3>2, <3>4
    <2>3. CASE d # c
      BY <1>3, <2>3, FollowedCallsAgree DEF Follows, clientVars
    <2> QED
      BY <2>2, <2>3
  <1>8. WaitersAreKnown'
    <2>1. SUFFICES ASSUME NEW d \in Calls, call[d].op = "turn/start", turn'[d].completion = None
                   PROVE  attempt[call[d].thread] = d /\ phase'[call[d].thread] \in Running
      BY DEF WaitersAreKnown, clientVars
    <2>2. turn[d].completion = None
      BY <1>1, <1>3, <2>1
    <2>3. /\ call[d].thread \in Threads
          /\ attempt[call[d].thread] = d /\ phase[call[d].thread] \in Running
      BY <2>1, <2>2 DEF Inv, ClientInv, CallsAgree, RouterInv, WaitersAreKnown
    <2>4. call[d].thread = s => d = c
      BY <2>3
    <2> QED
      BY <1>2, <1>3, <1>4, <2>1, <2>3, <2>4 DEF None
  <1> QED
    BY <1>5, <1>6, <1>7, <1>8 DEF RouterInv

LEMMA ItemArrives ==
  ASSUME Inv, NEW s \in Threads, NEW t \in Turns, NEW projected \in BOOLEAN, ReadItem(s, t, projected)
  PROVE  RouterInv'
  <1> DEFINE c == attempt[s]
             r == [turn[c] EXCEPT !.candidate = Candidate(s, t),
                                  !.items = IF projected THEN Append(@, t) ELSE @]
  <1>1. CASE Located(s, t) /\ turn[c].terminal = None /\ (projected => Len(turn[c].items) < MaxItems)
             /\ turn' = [turn EXCEPT ![c] = r]
             /\ UNCHANGED <<clientVars, routerFailed, phase, attempt, turnOwners>>
    <2>1. c \in Calls /\ turn[c].completion = None /\ \A i \in DOMAIN turn[c].items : turn[c].items[i] = t
      BY <1>1, LocatedFacts
    <2>2. turn[c] \in Attempts /\ turn[c].items \in Items /\ turn[c].candidate \in Turns \cup {None}
      BY <2>1, AttemptFacts
    <2>3. Candidate(s, t) \in Turns \cup {None}
      BY <2>2 DEF Candidate
    <2>4. /\ (IF projected THEN Append(turn[c].items, t) ELSE turn[c].items) \in Items
          /\ \A i \in DOMAIN (IF projected THEN Append(turn[c].items, t) ELSE turn[c].items) :
               (IF projected THEN Append(turn[c].items, t) ELSE turn[c].items)[i] = t
      BY <1>1, <2>1, <2>2, ItemsGrow
    <2>5. r \in Attempts
      BY <2>2, <2>3, <2>4 DEF Attempts, Items
    <2>6. /\ r.id = turn[c].id /\ r.candidate = Candidate(s, t) /\ r.terminal = None
          /\ r.completion = None
          /\ r.items = IF projected THEN Append(turn[c].items, t) ELSE turn[c].items
      BY <1>1, <2>1, <2>2 DEF Attempts
    <2>7. \A i \in DOMAIN r.items : r.items[i] = t
      BY <2>4, <2>6
    <2> HIDE DEF r, c
    <2> QED
      BY <1>1, <2>5, <2>6, <2>7, EventArrives DEF c
  <1>2. CASE BreakConnection
    BY <1>2, ConnectionFailsWell DEF BreakConnection
  <1> QED
    BY <1>1, <1>2 DEF ReadItem

LEMMA TerminalArrives ==
  ASSUME Inv, NEW s \in Threads, NEW t \in Turns, ReadTerminal(s, t)
  PROVE  RouterInv'
  <1> DEFINE c == attempt[s]
             begun == phase[s] = "TURN_ACTIVE"
             r == [turn[c] EXCEPT !.candidate = Candidate(s, t), !.terminal = t,
                                  !.completion = IF begun THEN "receipt" ELSE None]
  <1>1. CASE Located(s, t) /\ turn[c].terminal = None
             /\ turn' = [turn EXCEPT ![c] = r]
             /\ phase' = [phase EXCEPT ![s] = IF begun THEN "TURN_TERMINAL" ELSE @]
             /\ UNCHANGED <<clientVars, routerFailed, attempt, turnOwners>>
    <2>1. c \in Calls /\ turn[c].completion = None /\ \A i \in DOMAIN turn[c].items : turn[c].items[i] = t
      BY <1>1, LocatedFacts
    <2>2. turn[c] \in Attempts /\ turn[c].items \in Items /\ turn[c].candidate \in Turns \cup {None}
      BY <2>1, AttemptFacts
    <2>3. Candidate(s, t) \in Turns \cup {None}
      BY <2>2 DEF Candidate
    <2>4. r \in Attempts
      BY <2>2, <2>3 DEF Attempts
    <2>5. /\ r.id = turn[c].id /\ r.candidate = Candidate(s, t) /\ r.terminal = t
          /\ r.items = turn[c].items
          /\ r.completion = IF begun THEN "receipt" ELSE None
      BY <2>2 DEF Attempts
    <2>6. ~begun => phase' = phase
      BY <1>1 DEF Inv, RouterInv, RouterTypeOK
    <2>7. \/ r.completion = None /\ phase' = phase
          \/ /\ r.completion = "receipt" /\ r.terminal = t /\ phase[s] = "TURN_ACTIVE"
             /\ phase' = [phase EXCEPT ![s] = "TURN_TERMINAL"]
      BY <1>1, <2>5, <2>6
    <2>8. \A i \in DOMAIN r.items : r.items[i] = t
      BY <2>1, <2>5
    <2> HIDE DEF r, begun
    <2> QED
      BY <1>1, <2>4, <2>5, <2>7, <2>8, EventArrives
  <1>2. CASE BreakConnection
    BY <1>2, ConnectionFailsWell DEF BreakConnection
  <1> QED
    BY <1>1, <1>2 DEF ReadTerminal

\* What the end of startTurn finds out about its call.
LEMMA ContinuingFacts ==
  ASSUME Inv, NEW c \in Calls, Continues(c, "turn/start"), NEW s, s = call[c].thread
  PROVE  /\ s \in Threads
         /\ call[c].op = "turn/start" /\ call[c].stage = "settled" /\ turn[c].id = None
         /\ \A r \in Threads : phase[r] \in Running /\ attempt[r] = c => r = s
  <1>1. call[c].op = "turn/start" /\ call[c].stage = "settled" /\ s \in Threads
    BY DEF Continues, Inv, ClientInv, CallsAgree
  <1>2. turn[c].id = None
    BY <1>1, AttemptFacts DEF Owned
  <1>3. \A r \in Threads : phase[r] \in Running /\ attempt[r] = c => r = s
    BY DEF Inv, RouterInv, SessionsAgree
  <1> QED
    BY <1>1, <1>2, <1>3

LEMMA TurnStartFails ==
  ASSUME Inv, NEW c \in Calls, Continues(c, "turn/start"), FailTurnStart(c), Finish(c, "error")
  PROVE  RouterInv'
  <1> DEFINE s == call[c].thread
  <1>1. /\ s \in Threads
        /\ call[c].op = "turn/start" /\ call[c].stage = "settled" /\ turn[c].id = None
        /\ \A r \in Threads : phase[r] \in Running /\ attempt[r] = c => r = s
    BY ContinuingFacts
  <1>2. /\ call'[c] = FailedCall /\ \A d \in Calls \ {c} : call'[d] = call[d]
    BY DEF Finish, Inv, ClientInv, ClientTypeOK
  <1>3. /\ phase \in [Threads -> Phases]
        /\ turn \in [Calls -> Attempts]
    BY DEF Inv, RouterInv, RouterTypeOK
  <1>4. /\ UNCHANGED <<routerFailed, attempt, turnOwners>>
        /\ turn'[c] \in {FailedAttempt, turn[c]}
        /\ \A d \in Calls \ {c} : turn'[d] = turn[d]
        /\ \A r \in Threads : phase'[r] = phase[r] \/ phase'[r] = "FAILED"
        /\ turn' \in [Calls -> Attempts]
        /\ phase' \in [Threads -> Phases]
    BY <1>1, <1>3, NoAttemptFacts DEF FailTurnStart, Phases
  <1>5. \A r \in Threads : phase'[r] \in Running => attempt[r] # c /\ phase'[r] = phase[r]
    <2>1. SUFFICES ASSUME NEW r \in Threads, phase'[r] \in Running, attempt[r] = c PROVE FALSE
      BY <1>4 DEF Running
    <2>2. phase[r] = phase'[r] /\ r = s
      BY <1>1, <1>4, <2>1 DEF Running
    <2>3. turn[c].completion = None
      BY <2>1, <2>2 DEF Inv, RouterInv, RouterTypeOK
    <2> QED
      BY <1>3, <2>1, <2>2, <2>3 DEF FailTurnStart, Running
  <1>6. RouterTypeOK'
    BY <1>4, <1>5 DEF Inv, RouterInv, RouterTypeOK
  <1>7. SessionsAgree'
    <2>1. \A r \in Threads : attempt[r] \in Calls => call'[attempt[r]].stage # "unused"
      BY <1>2, ConstantCalls DEF Inv, RouterInv, SessionsAgree
    <2> QED
      BY <1>2, <1>4, <1>5, <2>1 DEF Inv, RouterInv, RouterTypeOK, SessionsAgree
  <1>8. AttemptsAgree'
    <2>1. SUFFICES ASSUME NEW d \in Calls PROVE (Gathered(d) /\ Owned(d))'
      BY DEF AttemptsAgree
    <2>2. \A e \in Calls : turn'[e].id \in {turn[e].id, None}
      BY <1>4, NoAttemptFacts
    <2>3. CASE d = c /\ turn'[c] = FailedAttempt
      BY <1>2, <2>3, ConstantCalls, FailedAttemptsAgree
    <2>4. CASE d = c /\ turn'[c] = turn[c]
      <3>1. Gathered(c)'
        BY <1>2, <2>4, ConstantCalls, AttemptFacts DEF Gathered, Named
      <3>2. Owned(c)'
        BY <1>1, <2>4 DEF Owned
      <3> QED
        BY <2>4, <3>1, <3>2
    <2>5. CASE d # c
      BY <1>2, <1>4, <2>2, <2>5, FollowedCallsAgree DEF Follows
    <2> QED
      BY <1>4, <2>3, <2>4, <2>5
  <1>9. WaitersAreKnown'
    <2>1. SUFFICES ASSUME NEW d \in Calls, call'[d].op = "turn/start", turn'[d].completion = None
                   PROVE  attempt[call'[d].thread] = d /\ phase'[call'[d].thread] \in Running
      BY <1>4 DEF WaitersAreKnown
    <2>2. d # c /\ call'[d] = call[d] /\ turn'[d] = turn[d]
      BY <1>2, <1>4, <2>1, ConstantCalls DEF None
    <2>3. /\ call[d].thread \in Threads
          /\ attempt[call[d].thread] = d /\ phase[call[d].thread] \in Running
      BY <2>1, <2>2 DEF Inv, ClientInv, CallsAgree, RouterInv, WaitersAreKnown
    <2>4. phase'[call[d].thread] = phase[call[d].thread]
      BY <1>3, <2>2, <2>3 DEF FailTurnStart
    <2> QED
      BY <2>2, <2>3, <2>4
  <1> QED
    BY <1>6, <1>7, <1>8, <1>9 DEF RouterInv

LEMMA TurnActivates ==
  ASSUME Inv, NEW c \in Calls, NEW t \in Turns, Continues(c, "turn/start"), t = call[c].outcome,
         MayActivate(c, t), ContinueTurn(c)
  PROVE  RouterInv'
  <1> DEFINE s == call[c].thread
             ended == turn[c].terminal # None
             r == [turn[c] EXCEPT !.id = t, !.completion = IF ended THEN "receipt" ELSE None]
  <1>1. /\ s \in Threads
        /\ call[c].op = "turn/start" /\ call[c].stage = "settled" /\ turn[c].id = None
        /\ \A q \in Threads : phase[q] \in Running /\ attempt[q] = c => q = s
    BY ContinuingFacts
  <1>2. phase[s] = "TURN_STARTING" /\ attempt[s] = c /\ turnOwners[t] = None
        /\ turn[c].candidate \in {None, t}
    BY DEF MayActivate
  <1>3. /\ turnOwners' = [turnOwners EXCEPT ![t] = s]
        /\ turn' = [turn EXCEPT ![c] = r]
        /\ phase' = [phase EXCEPT ![s] = IF ended THEN "TURN_TERMINAL" ELSE "TURN_ACTIVE"]
        /\ Finish(c, "success")
        /\ UNCHANGED <<routerFailed, attempt>>
    BY DEF ContinueTurn
  <1>4. /\ phase \in [Threads -> Phases]
        /\ turn \in [Calls -> Attempts] /\ turn[c] \in Attempts
        /\ turnOwners \in [Turns -> Threads \cup {None}]
        /\ call \in [Calls -> CallRecords] /\ call[c] \in CallRecords
    BY DEF Inv, ClientInv, ClientTypeOK, RouterInv, RouterTypeOK
  <1>5. /\ r \in Attempts /\ r.id = t /\ r.candidate = turn[c].candidate
        /\ r.terminal = turn[c].terminal /\ r.items = turn[c].items
        /\ r.completion = IF ended THEN "receipt" ELSE None
    BY <1>4 DEF Attempts
  <1>6. /\ turn'[c] = r /\ \A d \in Calls \ {c} : turn'[d] = turn[d]
        /\ turn' \in [Calls -> Attempts]
    BY <1>3, <1>4, <1>5
  <1>7. /\ call'[c] = [call[c] EXCEPT !.stage = "done", !.result = "success"]
        /\ \A d \in Calls \ {c} : call'[d] = call[d]
    BY <1>3, <1>4 DEF Finish
  <1>8. /\ call'[c].op = "turn/start" /\ call'[c].thread = s /\ call'[c].stage = "done"
        /\ call'[c].outcome = t
    BY <1>1, <1>4, <1>7 DEF CallRecords
  <1>9. \A q \in Threads \ {s} : phase'[q] = phase[q]
    BY <1>3, <1>4
  <1>10. phase'[s] = IF ended THEN "TURN_TERMINAL" ELSE "TURN_ACTIVE"
    BY <1>1, <1>3, <1>4
  <1> HIDE DEF r
  <1>11. RouterTypeOK'
    <2>1. /\ phase' \in [Threads -> Phases]
          /\ turnOwners' \in [Turns -> Threads \cup {None}]
      BY <1>1, <1>3, <1>4 DEF Phases
    <2>2. ASSUME NEW q \in Threads, phase'[q] \in Running
          PROVE  /\ attempt'[q] \in Calls
                 /\ turn'[attempt'[q]].completion = None
                 /\ turn'[attempt'[q]].id # None <=> phase'[q] = "TURN_ACTIVE"
      <3>1. CASE q = s
        BY <1>2, <1>3, <1>5, <1>6, <1>10, <2>2, <3>1, TurnsAssumption DEF Running
      <3>2. CASE q # s
        BY <1>1, <1>3, <1>6, <1>9, <2>2, <3>2 DEF Inv, RouterInv, RouterTypeOK
      <3> QED
        BY <3>1, <3>2
    <2> QED
      BY <1>3, <1>6, <2>1, <2>2 DEF Inv, RouterInv, RouterTypeOK
  <1>12. SessionsAgree'
    <2>1. SUFFICES ASSUME NEW q \in Threads
                   PROVE  /\ attempt[q] \in Calls => call'[attempt[q]].stage # "unused"
                          /\ phase'[q] \in Running =>
                               /\ call'[attempt[q]].op = "turn/start"
                               /\ call'[attempt[q]].thread = q
                               /\ phase'[q] = "TURN_STARTING" => call'[attempt[q]].stage # "done"
      BY <1>3 DEF SessionsAgree, MayActivate
    <2>2. CASE q = s
      BY <1>2, <1>8, <1>10, <2>2
    <2>3. CASE q # s
      <3>1. attempt[q] \in Calls => call'[attempt[q]].stage # "unused"
        BY <1>7, <1>8 DEF Inv, RouterInv, SessionsAgree
      <3>2. ASSUME phase'[q] \in Running
            PROVE  attempt[q] \in Calls \ {c} /\ phase'[q] = phase[q]
        BY <1>1, <1>9, <2>3, <3>2 DEF Inv, RouterInv, RouterTypeOK
      <3> QED
        BY <1>7, <3>1, <3>2 DEF Inv, RouterInv, SessionsAgree
    <2> QED
      BY <2>2, <2>3
  <1>13. AttemptsAgree'
    <2>1. SUFFICES ASSUME NEW d \in Calls PROVE (Gathered(d) /\ Owned(d))'
      BY DEF AttemptsAgree
    <2>2. \A e \in Calls : turn[e].id # t
      <3>1. SUFFICES ASSUME NEW e \in Calls, turn[e].id = t PROVE FALSE
        OBVIOUS
      <3>2. turnOwners[t] = call[e].thread /\ call[e].op = "turn/start"
        BY <3>1, AttemptFacts, TurnsAssumption DEF Owned
      <3> QED
        BY <1>2, <3>2, ThreadsAssumption DEF Inv, ClientInv, CallsAgree
    <2>3. CASE d = c
      <3>1. Gathered(c)
        BY AttemptFacts
      <3>2. /\ turn[c].terminal \in {None, t}
            /\ \A i \in DOMAIN turn[c].items : turn[c].items[i] = t
        <4>1. \A i \in DOMAIN turn[c].items : turn[c].items[i] \in Turns
          BY AttemptFacts DEF Items
        <4> QED
          BY <1>1, <1>2, <3>1, <4>1, TurnsAssumption DEF Gathered, Named
      <3>3. Named(c)' = t
        BY <1>5, <1>6, TurnsAssumption DEF Named
      <3>4. Gathered(c)'
        BY <1>5, <1>6, <1>8, <3>2, <3>3, TurnsAssumption DEF Gathered, None
      <3>5. Owned(c)'
        BY <1>3, <1>4, <1>5, <1>6, <1>8, <2>2 DEF Owned
      <3> QED
        BY <2>3, <3>4, <3>5
    <2>4. CASE d # c
      <3>1. Gathered(d)'
        BY <1>6, <1>7, <2>4, AttemptFacts DEF Gathered, Named
      <3>2. Owned(d)'
        <4>1. SUFFICES ASSUME turn[d].id # None PROVE Owned(d)'
          BY <1>6, <2>4 DEF Owned
        <4>2. turnOwners'[turn[d].id] = turnOwners[turn[d].id]
          BY <1>3, <1>4, <2>2, <4>1, AttemptFacts
        <4>3. \A e \in Calls : turn'[e].id = turn[d].id => e = d
          BY <1>5, <1>6, <2>2, <4>1, AttemptFacts DEF Owned
        <4> QED
          BY <1>6, <1>7, <2>4, <4>1, <4>2, <4>3, AttemptFacts DEF Owned
      <3> QED
        BY <3>1, <3>2
    <2> QED
      BY <2>3, <2>4
  <1>14. WaitersAreKnown'
    <2>1. SUFFICES ASSUME NEW d \in Calls, call'[d].op = "turn/start", turn'[d].completion = None
                   PROVE  attempt[call'[d].thread] = d /\ phase'[call'[d].thread] \in Running
      BY <1>3 DEF WaitersAreKnown
    <2>2. CASE d = c
      BY <1>2, <1>5, <1>6, <1>8, <1>10, <2>1, <2>2 DEF Running, None
    <2>3. CASE d # c
      <3>1. /\ call'[d] = call[d] /\ call[d].thread \in Threads
            /\ attempt[call[d].thread] = d /\ phase[call[d].thread] \in Running
        BY <1>6, <1>7, <2>1, <2>3 DEF Inv, ClientInv, CallsAgree, RouterInv, WaitersAreKnown
      <3> QED
        BY <1>2, <1>9, <2>3, <3>1
    <2> QED
      BY <2>2, <2>3
  <1> QED
    BY <1>11, <1>12, <1>13, <1>14 DEF RouterInv

-----------------------------------------------------------------------------
\* The invariant.

LEMMA RouterInvIsKept ==
  ASSUME Inv, [Next]_vars
  PROVE  RouterInv'
  <1>0. ClientInv /\ \A d \in Calls : IsNext(d) => call[d].stage = "unused"
    BY MaxCallsAssumption DEF Inv, IsNext, Calls
  <1>1. CASE UNCHANGED vars
    BY <1>1, SessionsStay DEF vars, clientVars, Follows
  <1>2. ASSUME NEW c \in Calls, StartSession(c) \/ OtherCall(c) PROVE RouterInv'
    <2>1. \A d \in Calls : Follows(d)
      BY <1>0, <1>2, ClientStepsFollow DEF StartSession, OtherCall, Request, RequestFails
    <2>2. UNCHANGED routerVars \/ RouterFails
      BY <1>2 DEF StartSession, OtherCall, Request, RequestFails
    <2> QED
      BY <2>1, <2>2, SessionsStay, SessionsFail
  <1>3. ASSUME NEW c \in Calls, NEW s \in Threads, StartTurn(c, s) PROVE RouterInv'
    <2>1. CASE Refuse(c) /\ UNCHANGED routerVars
      BY <1>0, <1>3, <2>1, ClientStepsFollow, SessionsStay DEF StartTurn
    <2>2. CASE ~(disposed \/ ~MayBeginTurn(s))
      BY <1>0, <1>3, <2>2, TurnStarts DEF StartTurn
    <2> QED
      BY <1>3, <2>1, <2>2 DEF StartTurn
  <1>4. ASSUME NEW c \in Calls, Send(c) /\ UNCHANGED routerVars PROVE RouterInv'
    BY <1>0, <1>4, ClientStepsFollow, SessionsStay
  <1>5. ASSUME NEW c \in Calls, Continue(c) PROVE RouterInv'
    <2>1. CASE ContinueOther(c)
      BY <1>0, <2>1, ClientStepsFollow, SessionsStay DEF ContinueOther
    <2>2. CASE ContinueStart(c)
      <3>1. CASE Finish(c, "error") /\ UNCHANGED routerVars
        BY <1>0, <2>2, <3>1, ClientStepsFollow, SessionsStay DEF ContinueStart
      <3> QED
        BY <2>2, <3>1, SessionRegisters DEF ContinueStart
    <2>3. CASE ContinueTurn(c)
      <3>1. CASE FailTurnStart(c) /\ Finish(c, "error")
        BY <2>3, <3>1, TurnStartFails DEF ContinueTurn
      <3> QED
        BY <2>3, <3>1, TurnActivates DEF ContinueTurn
    <2> QED
      BY <1>5, <2>1, <2>2, <2>3 DEF Continue
  <1>6. CASE Read
    <2>1. ASSUME NEW c \in Calls, ReadResponse(c) /\ UNCHANGED routerVars PROVE RouterInv'
      <3>1. Results(c) \cup {"error"} \subseteq Outcomes
        BY DEF Results, Outcomes
      <3>2. PICK outcome \in Outcomes : Settle(c, outcome) /\ call[c].stage = "pending"
        BY <1>0, <2>1, <3>1 DEF ReadResponse, ClientInv, ClientTypeOK
      <3> QED
        BY <1>0, <2>1, <3>2, ClientStepsFollow, SessionsStay
    <2>2. CASE ReadInitializeResponse /\ UNCHANGED routerVars
      BY <2>2, SessionsStay DEF ReadInitializeResponse, Follows
    <2>3. CASE BreakConnection
      BY <2>3, ConnectionFailsWell DEF BreakConnection
    <2> QED
      BY <1>6, <2>1, <2>2, <2>3, ItemArrives, TerminalArrives DEF Read
  <1>7. CASE Timeout
    <2>1. ASSUME NEW c \in Calls, TimeoutCall(c) /\ UNCHANGED routerVars PROVE RouterInv'
      <3>1. Settle(c, "error") /\ call[c].stage = "pending" /\ "error" \in Outcomes
        BY <1>0, <2>1 DEF TimeoutCall, ClientInv, ClientTypeOK, Outcomes
      <3> QED
        BY <1>0, <2>1, <3>1, ClientStepsFollow, SessionsStay
    <2>2. CASE BreakConnection
      BY <2>2, ConnectionFailsWell DEF BreakConnection
    <2> QED
      BY <1>7, <2>1, <2>2 DEF Timeout
  <1>8. CASE Process
    BY <1>8, SessionsStay, ConnectionFailsWell DEF Process, ProcessExits, Follows
  <1>9. CASE Dispose
    BY <1>9, SessionsFail DEF Dispose, Follows
  <1> QED
    BY <1>1, <1>2, <1>3, <1>4, <1>5, <1>6, <1>7, <1>8, <1>9 DEF Next

LEMMA Initially == Init => Inv
  <1> SUFFICES ASSUME Init PROVE Inv
    OBVIOUS
  <1> USE DEF Init, ClientInit
  <1>1. ClientTypeOK
    BY ConstantCalls DEF ClientTypeOK
  <1>2. ConnectionAgrees /\ CallsAgree /\ FailuresAgree
    BY ConstantCalls DEF ConnectionAgrees, CallsAgree, FailuresAgree, None
  <1>3. RouterTypeOK
    BY NoAttemptFacts DEF RouterTypeOK, Running, Phases, None
  <1>4. SessionsAgree
    BY Numbers DEF SessionsAgree, Running, None
  <1>5. AttemptsAgree
    BY NoAttemptFacts DEF AttemptsAgree, Gathered, Owned, None
  <1>6. WaitersAreKnown
    BY ConstantCalls DEF WaitersAreKnown, None
  <1> QED
    BY <1>1, <1>2, <1>3, <1>4, <1>5, <1>6 DEF Inv, ClientInv, RouterInv

LEMMA InvariantHolds == Spec => []Inv
  <1>1. Inv /\ [Next]_vars => Inv'
    BY ClientInvIsKept, FailuresAreKept, RouterInvIsKept DEF Inv
  <1> QED
    BY <1>1, Initially, PTL DEF Spec

\* A call succeeds only where its caller continues.
LEMMA OnlyContinuationsSucceed ==
  ASSUME Inv, [Next]_vars, NEW c \in Calls, call[c].result = None, call'[c].result = "success"
  PROVE  Continue(c)
  <1>0. call \in [Calls -> CallRecords] /\ None # "success" /\ None # "error"
        /\ "error" \in Outcomes
    BY DEF Inv, ClientInv, ClientTypeOK, None, Outcomes
  <1>1. call' # call
    BY <1>0
  <1>2. ASSUME FailPending PROVE FALSE
    BY <1>0, <1>2, SettledFacts DEF FailPending
  <1>3. ASSUME FailConnection PROVE FALSE
    BY <1>1, <1>2, <1>3 DEF FailConnection
  <1>4. ASSUME NEW d \in Calls, Refuse(d) PROVE FALSE
    BY <1>0, <1>4, ConstantCalls DEF Refuse
  <1>5. ASSUME NEW d \in Calls, NEW op \in Operations, NEW target \in Threads \cup {None},
               Launch(d, op, target) \/ LaunchFails(d, op, target)
        PROVE  FALSE
    BY <1>0, <1>5 DEF Launch, LaunchFails
  <1>6. ASSUME NEW d \in Calls, Send(d) PROVE FALSE
    <2>1. call'[c] = [call[c] EXCEPT !.stage = "pending"] \/ call'[c] = Settled(call[c], "error")
          \/ call'[c] = call[c]
      BY <1>0, <1>6 DEF Send
    <2>2. call'[c].result = call[c].result
      BY <1>0, <2>1, SettledFacts DEF CallRecords
    <2> QED
      BY <1>0, <2>2
  <1>7. ASSUME NEW d \in Calls, NEW outcome \in Outcomes, Settle(d, outcome) PROVE FALSE
    BY <1>0, <1>7, SettledFacts DEF Settle
  <1>8. ASSUME NEW d \in Calls, Continue(d) PROVE d = c
    BY <1>0, <1>8, ConstantCalls
       DEF Continue, ContinueOther, ContinueStart, ContinueTurn, Finish
  <1>9. ~UNCHANGED vars
    BY <1>1 DEF vars, clientVars
  <1>10. ~Read
    <2>1. ASSUME NEW d \in Calls, ReadResponse(d) PROVE FALSE
      BY <1>7, <2>1 DEF ReadResponse, Results, Outcomes
    <2> QED
      BY <1>1, <1>3, <2>1
         DEF Read, ReadInitializeResponse, BreakConnection, ReadTerminal, ReadItem, clientVars
  <1>11. ~Timeout
    BY <1>0, <1>3, <1>7 DEF Timeout, TimeoutCall, BreakConnection
  <1>12. ~Process /\ ~Dispose
    BY <1>1, <1>3 DEF Process, ProcessExits, Dispose
  <1>13. PICK d \in Calls : \/ StartSession(d) \/ OtherCall(d)
                            \/ \E s \in Threads : StartTurn(d, s)
                            \/ Send(d) \/ Continue(d)
    BY <1>9, <1>10, <1>11, <1>12 DEF Next
  <1>14. ~StartSession(d) /\ ~OtherCall(d)
    BY <1>4, <1>5 DEF StartSession, OtherCall, Request, RequestFails, Operations
  <1>15. \A s \in Threads : ~StartTurn(d, s)
    BY <1>4, <1>5 DEF StartTurn, Operations
  <1>16. Continue(d) /\ d = c
    BY <1>6, <1>8, <1>13, <1>14, <1>15
  <1> QED
    BY <1>16

-----------------------------------------------------------------------------
\* The sessions' variables keep their types, the phase of a session and the attempt it
\* holds agree, and every receipt is about the turn that the answer to its own call
\* named, whatever the host sends.
THEOREM TaskTurnsAreSound == Spec => []TurnsAreSound
  <1>1. Inv => TurnsAreSound
    <2>1. SUFFICES ASSUME Inv PROVE TurnsAreSound
      OBVIOUS
    <2>2. ASSUME NEW c \in Calls, turn[c].completion = "receipt"
          PROVE  LET t == turn[c].id
                 IN  /\ t \in Turns /\ t = call[c].outcome
                     /\ turn[c].terminal = t
                     /\ \A i \in DOMAIN turn[c].items : turn[c].items[i] = t
                     /\ turnOwners[t] = call[c].thread
                     /\ \A d \in Calls \ {c} : turn[d].id # t
      BY <2>1, <2>2, AttemptFacts DEF Gathered, Owned, Named
    <2> QED
      BY <2>1, <2>2, TypesSplit DEF TurnsAreSound, ReceiptsAreTheirOwn, Inv, ClientInv, RouterInv
  <1> QED
    BY <1>1, InvariantHolds, PTL

\* Once the connection failed no request is pending, and once it failed or was disposed
\* of nobody waits for the end of a turn.
THEOREM TaskFailureReachesEveryWaiter == Spec => []FailureReachesEveryWaiter
  <1>1. Inv => FailureReachesEveryWaiter
    <2>1. SUFFICES ASSUME Inv PROVE FailureReachesEveryWaiter
      OBVIOUS
    <2>2. failed => pending = {} /\ initialization # "pending"
      BY <2>1 DEF Inv, ClientInv, ConnectionAgrees
    <2>3. ASSUME failed \/ disposed, NEW c \in Calls, call[c].op = "turn/start"
          PROVE  turn[c].completion # None
      BY <2>1, <2>3
         DEF Inv, ClientInv, CallsAgree, FailuresAgree, RouterInv, SessionsAgree, WaitersAreKnown
    <2> QED
      BY <2>2, <2>3 DEF FailureReachesEveryWaiter
  <1> QED
    BY <1>1, InvariantHolds, PTL

\* What was answered before a failure or a disposal, and is looked at after it, becomes
\* neither a session nor a turn.
THEOREM TaskHandlesAreAlive == Spec => HandlesAreAlive
  <1>1. ASSUME Inv, [Next]_vars
        PROVE  \A c \in Calls :
                 call[c].result = None /\ call'[c].result = "success" /\ call[c].op # "other"
                   => ~failed /\ ~disposed
    <2>1. SUFFICES ASSUME NEW c \in Calls, call[c].result = None, call'[c].result = "success",
                          call[c].op # "other"
                   PROVE  ~routerFailed
      BY <1>1 DEF Inv, FailuresAgree
    <2>2. Continue(c) /\ call[c].op # "other"
      BY <1>1, <2>1, OnlyContinuationsSucceed
    <2>3. call \in [Calls -> CallRecords]
      BY <1>1 DEF Inv, ClientInv, ClientTypeOK
    <2>4. ~Finish(c, "error")
      BY <2>1, <2>3, ConstantCalls DEF Finish
    <2> QED
      BY <2>2, <2>4
         DEF Continue, ContinueOther, ContinueStart, ContinueTurn, Continues, MayActivate
  <1> QED
    BY <1>1, InvariantHolds, PTL DEF Spec, HandlesAreAlive

-----------------------------------------------------------------------------
(* The launchers.  Types.                                                      *)

ThreadRecords ==
  [phase: SessionPhases \cup {Null}, asked: TurnRecords \cup {Null}, turns: Seq(TurnRecords)]

AllocatedSteps == {"materialize", "session", "turn", "turn_asked", "launching", "failing", "launched"}
LaunchRecords ==
  [step: {"idle", "skill", "allocate"} \cup AllocatedSteps, attempt: Nat,
   task: HostThreads \cup {Null}]
HandoffRecords ==
  [step: HandoffStates \cup {Null}, receipt: HandoffReceipts \cup {Null}]
TaskRecords ==
  [step: {"idle", "root", "turn", "turn_asked", "active"}, thread: HostThreads \cup {Null},
   phase: ContinuationPhases \cup {Null}, ready: PromiseStates \cup {Null},
   lease: Nat \cup {Null}, progress: PromiseStates \cup {Null}]
GrantRecords == [step: {"idle", "turn_asked", "granted"}, epoch: Nat \cup {Null}]

LaunchTypeOK ==
  /\ thread \in [HostThreads -> ThreadRecords] /\ connected \in BOOLEAN
  /\ journal \in JournalRecords \cup {Null} /\ folders \subseteq Nat
  /\ launch \in LaunchRecords /\ active \in HostThreads \cup {Null}
  /\ handoff \in HandoffRecords /\ answered \subseteq HandoffReceipts
  /\ task \in TaskRecords /\ grant \in [Granters -> GrantRecords]

-----------------------------------------------------------------------------
(* What is in a thread.                                                       *)

ReadsOnly(work) == work.sandbox = "readOnly" /\ work.root = << >>
IsForAttempt(work) ==
  work.sandbox = "workspaceWrite" /\ \E n \in Nat : work.root = <<"attempt", n>>
WritesEpoch(work) == work.sandbox = "workspaceWrite" /\ work.root = <<"epoch", Epoch>>
IsDrafted(work) ==
  /\ ReadsOnly(work) /\ work.status = "completed"
  /\ \A i \in DOMAIN work.items : work.items[i].type \notin ToolItems
  /\ \E i \in DOMAIN work.items : work.items[i].type = "agentMessage"

ThreadOK(r) ==
  /\ Len(r.turns) <= 2
  /\ r.turns # << >> => ReadsOnly(r.turns[1]) \/ IsForAttempt(r.turns[1])
  /\ Len(r.turns) = 2 => IsDrafted(r.turns[1]) /\ WritesEpoch(r.turns[2])
  /\ r.asked # Null =>
       \/ r.turns = << >> /\ (ReadsOnly(r.asked) \/ IsForAttempt(r.asked))
       \/ Len(r.turns) = 1 /\ IsDrafted(r.turns[1]) /\ WritesEpoch(r.asked)
  /\ r.phase \in {Null, "ready", "active", "terminal"} => r.asked = Null
  /\ r.phase = "ready" => r.turns = << >>

(* The attempt a thread works on, or was asked to.                              *)
IsFor(t, n) ==
  \/ thread[t].turns # << >> /\ thread[t].turns[1].root = <<"attempt", n>>
  \/ thread[t].turns = << >> /\ thread[t].asked # Null /\ thread[t].asked.root = <<"attempt", n>>

ThreadsInv ==
  /\ \A t \in HostThreads : ThreadOK(thread[t])
  /\ \A t \in HostThreads, n \in Nat : IsFor(t, n) => n <= AttemptsMade
  /\ \A t, u \in HostThreads, n \in Nat : IsFor(t, n) /\ IsFor(u, n) => t = u

(* The request for a turn is out: it waits, or runs.                             *)
IsAsked(t, sofar) ==
  connected =>
    /\ thread[t].phase = "starting"
    /\ \/ thread[t].asked # Null /\ Len(thread[t].turns) = sofar
       \/ thread[t].asked = Null /\ Len(thread[t].turns) = sofar + 1

-----------------------------------------------------------------------------
(* The compression launcher.                                                   *)

FoldersInv == \A n \in folders : journal # Null /\ n <= journal.attempt

LaunchInv ==
  /\ launch.step \in {"skill", "allocate"} => launch.attempt = AttemptsMade + 1
  /\ launch.step \in AllocatedSteps => journal # Null /\ launch.attempt = journal.attempt
  /\ launch.step \in {"materialize", "session", "turn"} =>
       \A t \in HostThreads : ~IsFor(t, launch.attempt)
  /\ launch.step \in {"turn", "turn_asked", "launching"} => launch.task \in HostThreads
  /\ launch.step \in {"turn", "turn_asked"} => thread[launch.task].phase # Null
  /\ launch.step = "turn" => thread[launch.task].phase \in {"ready", "failed"}
  /\ launch.step = "turn_asked" => IsAsked(launch.task, 0)
  /\ launch.step = "launching" => thread[launch.task].turns # << >>
  /\ launch.step \notin {"idle", "launched"} => ~IsCompleted
  /\ launch.step # "launched" => active = Null /\ handoff = NoHandoff

IsResult(r) ==
  LET work == CompressionTurn(r.task)
  IN /\ thread[r.task].turns # << >>
     /\ work.status = "completed" /\ HasResult(work.items) /\ Result(work.items) = r.address

HandoffInv ==
  /\ active # Null => thread[active].turns # << >> /\ ~IsCompleted
  /\ handoff.step \in {"waiting", "writing", "failing"} => active # Null
  /\ handoff.step = "writing" => handoff.receipt # Null /\ IsResult(handoff.receipt)
  /\ IsCompleted => journal.receipt # Null /\ IsResult(journal.receipt)
  /\ answered # {} => IsCompleted /\ answered = {journal.receipt}

-----------------------------------------------------------------------------
(* The continuation launcher.                                                  *)

TaskInv ==
  /\ task.step \in {"turn", "turn_asked", "active"} =>
       task.thread \in HostThreads /\ thread[task.thread].phase # Null
  /\ task.step = "turn" => thread[task.thread].phase \in {"ready", "failed"}
  /\ task.step = "turn_asked" =>
       IsAsked(task.thread, 0) /\ \A n \in Nat : ~IsFor(task.thread, n)
  /\ task.step # "active" => task.ready = Null
  /\ task.step = "active" =>
       /\ thread[task.thread].turns # << >> /\ ReadsOnly(thread[task.thread].turns[1])
       /\ task.lease = Null /\ thread[task.thread].phase \in {"active", "terminal"} =>
            Len(thread[task.thread].turns) = 1
  /\ task.ready # "receipt" =>
       /\ task.lease = Null /\ task.phase \notin {"READY", "WRITE_TURN_ACTIVE"}
       /\ \A g \in Granters : grant[g].step = "idle"
  /\ task.ready = "receipt" => IsDrafted(thread[task.thread].turns[1])

GrantInv ==
  /\ task.lease = Null =>
       /\ task.phase # "WRITE_TURN_ACTIVE" /\ task.progress = Null
       /\ \A g \in Granters : grant[g].step # "granted"
  /\ task.lease # Null =>
       /\ task.lease = Epoch /\ Len(thread[task.thread].turns) = 2 /\ task.phase # "READY"
       /\ \E g \in Granters : grant[g].step = "granted"
       /\ \A g \in Granters : grant[g].step # "turn_asked"
  /\ task.progress = "receipt" => thread[task.thread].turns[2].status = "completed"
  /\ \A g \in Granters :
       /\ grant[g].step # "idle" => grant[g].epoch = Epoch
       /\ grant[g].step = "turn_asked" =>
            /\ thread[task.thread].phase \in {"starting", "failed"}
            /\ IsAsked(task.thread, 1)
            /\ \A h \in Granters : grant[h].step = "turn_asked" => h = g

(* The launchers ask in threads of their own.                                   *)
ThreadsApart ==
  launch.step \in {"turn", "turn_asked"} /\ task.step \in {"turn", "turn_asked", "active"} =>
    launch.task # task.thread

IInv ==
  /\ LaunchTypeOK /\ ThreadsInv /\ FoldersInv /\ LaunchInv /\ HandoffInv /\ TaskInv /\ GrantInv
  /\ ThreadsApart
-----------------------------------------------------------------------------
(* How a thread may change while others act.                                   *)

SameTurn(a, b) ==
  /\ b.sandbox = a.sandbox /\ b.root = a.root
  /\ a.status # "inProgress" => b.status = a.status /\ b.items = a.items

Grows(t) ==
  /\ thread'[t].turns \in Seq(TurnRecords)
  /\ Len(thread[t].turns) <= Len(thread'[t].turns)
  /\ \A i \in 1..Len(thread[t].turns) : SameTurn(thread[t].turns[i], thread'[t].turns[i])

Moves(t) ==
  LET old == thread[t]
      new == thread'[t]
  IN /\ Grows(t)
     /\ \/ new.asked = old.asked /\ Len(new.turns) = Len(old.turns)
        \/ /\ old.asked # Null /\ new.asked = Null
           /\ Len(new.turns) = Len(old.turns) + 1 /\ new.turns[Len(new.turns)] = old.asked
     /\ \/ new.phase = old.phase
        \/ old.phase = "active" /\ new.phase = "terminal"
        \/ old.phase # Null /\ new.phase = "failed" /\ ~connected'

LEMMA NullFacts ==
  /\ Null \notin Nat /\ Null \notin TurnRecords /\ Null \notin JournalRecords /\ Null \notin HandoffReceipts
  /\ Null \notin {"ready", "starting", "active", "terminal", "failed", "error"}
  /\ Null \notin {"waiting", "writing", "failing", "settled", "receipt", "rejected"}
  /\ Null \notin {"READ_TURN_ACTIVE", "READY", "WRITE_TURN_ACTIVE", "PROGRESS", "FAILED"}
  /\ Null \notin HostThreads /\ HostThreads \subseteq Nat \ {0}
  BY NullIsNoValue, NullIsNoRecord, NullIsNoState, HostThreadsAssumption
  DEF SessionPhases, HandoffStates, ContinuationPhases, PromiseStates

LEMMA RootFacts ==
  /\ \A m, n \in Nat : <<"attempt", m>> = <<"attempt", n>> => m = n
  /\ \A m, n : <<"attempt", m>> # <<"epoch", n>>
  /\ \A n : <<"attempt", n>> # << >> /\ <<"epoch", n>> # << >>
  OBVIOUS

LEMMA UnchangedMoves ==
  ASSUME LaunchTypeOK, NEW t \in HostThreads, thread'[t] = thread[t]
  PROVE  Moves(t)
  BY DEF LaunchTypeOK, ThreadRecords, Moves, Grows, SameTurn

LEMMA MovedThread ==
  ASSUME LaunchTypeOK, NEW t \in HostThreads, Moves(t), ThreadOK(thread[t]),
         thread'[t] \in ThreadRecords
  PROVE  ThreadOK(thread'[t])
  <1> DEFINE old == thread[t]
             new == thread'[t]
  <1>1. old \in ThreadRecords /\ new \in ThreadRecords
    BY DEF LaunchTypeOK
  <1>2. old.turns \in Seq(TurnRecords) /\ new.turns \in Seq(TurnRecords) /\ Len(old.turns) \in Nat
    BY <1>1 DEF ThreadRecords
  <1>3. \A i \in 1..Len(old.turns) : SameTurn(old.turns[i], new.turns[i])
    BY DEF Moves, Grows
  <1>4. old.turns # << >> => Len(old.turns) >= 1 /\ SameTurn(old.turns[1], new.turns[1])
    BY <1>2, <1>3
  <1>5. /\ old.turns # << >> /\ ReadsOnly(old.turns[1]) => ReadsOnly(new.turns[1])
        /\ old.turns # << >> /\ IsForAttempt(old.turns[1]) => IsForAttempt(new.turns[1])
        /\ old.turns # << >> /\ IsDrafted(old.turns[1]) => IsDrafted(new.turns[1])
    BY <1>4 DEF SameTurn, ReadsOnly, IsForAttempt, IsDrafted
  <1>6. Len(old.turns) = 2 /\ WritesEpoch(old.turns[2]) => WritesEpoch(new.turns[2])
    BY <1>3 DEF SameTurn, WritesEpoch
  <1>7. CASE Len(new.turns) = Len(old.turns)
    <2>1. new.turns = << >> <=> old.turns = << >>
      BY <1>2, <1>7
    <2>2. new.asked = Null \/ new.asked = old.asked
      BY <1>7, <1>2 DEF Moves
    <2>3. new.phase \in {Null, "ready", "active", "terminal"} => new.asked = Null
      BY <2>2, NullFacts DEF Moves, ThreadOK
    <2>4. new.phase = "ready" => new.turns = << >>
      BY <2>1, NullFacts DEF Moves, ThreadOK
    <2>5. /\ Len(new.turns) <= 2
          /\ new.turns # << >> => ReadsOnly(new.turns[1]) \/ IsForAttempt(new.turns[1])
          /\ Len(new.turns) = 2 => IsDrafted(new.turns[1]) /\ WritesEpoch(new.turns[2])
      BY <1>2, <1>5, <1>6, <1>7, <2>1 DEF ThreadOK
    <2>6. new.asked # Null =>
            \/ new.turns = << >> /\ (ReadsOnly(new.asked) \/ IsForAttempt(new.asked))
            \/ Len(new.turns) = 1 /\ IsDrafted(new.turns[1]) /\ WritesEpoch(new.asked)
      BY <1>2, <1>5, <1>7, <2>1, <2>2 DEF ThreadOK
    <2> QED
      BY <2>3, <2>4, <2>5, <2>6 DEF ThreadOK
  <1>8. CASE /\ old.asked # Null /\ new.asked = Null
             /\ Len(new.turns) = Len(old.turns) + 1 /\ new.turns[Len(new.turns)] = old.asked
    <2>1. \/ old.turns = << >> /\ (ReadsOnly(old.asked) \/ IsForAttempt(old.asked))
          \/ Len(old.turns) = 1 /\ IsDrafted(old.turns[1]) /\ WritesEpoch(old.asked)
      BY <1>8 DEF ThreadOK
    <2>2. old.phase \notin {Null, "ready", "active", "terminal"}
      BY <1>8 DEF ThreadOK
    <2>3. new.phase # "ready"
      BY <2>2 DEF Moves
    <2>4. CASE old.turns = << >>
      <3>1. Len(new.turns) = 1 /\ new.turns[1] = old.asked
        BY <1>2, <1>8, <2>4
      <3> QED
        BY <1>8, <2>1, <2>3, <2>4, <3>1 DEF ThreadOK
    <2>5. CASE Len(old.turns) = 1 /\ IsDrafted(old.turns[1]) /\ WritesEpoch(old.asked)
      <3>1. Len(new.turns) = 2 /\ new.turns[2] = old.asked /\ old.turns # << >>
        BY <1>2, <1>8, <2>5
      <3>2. IsDrafted(new.turns[1]) /\ ReadsOnly(new.turns[1])
        BY <1>5, <2>5, <3>1 DEF IsDrafted
      <3> QED
        BY <1>8, <2>3, <2>5, <3>1, <3>2 DEF ThreadOK
    <2> QED
      BY <2>1, <2>4, <2>5
  <1> QED
    BY <1>7, <1>8 DEF Moves

LEMMA MovedFor ==
  ASSUME LaunchTypeOK, NEW t \in HostThreads, NEW n \in Nat, Moves(t), IsFor(t, n)'
  PROVE  IsFor(t, n)
  <1>1. /\ thread[t].turns \in Seq(TurnRecords) /\ thread'[t].turns \in Seq(TurnRecords)
        /\ Len(thread[t].turns) \in Nat
    BY DEF LaunchTypeOK, ThreadRecords, Moves, Grows
  <1>2. CASE thread[t].turns # << >>
    <2>1. SameTurn(thread[t].turns[1], thread'[t].turns[1]) /\ thread'[t].turns # << >>
      BY <1>1, <1>2 DEF Moves, Grows
    <2> QED
      BY <1>2, <2>1 DEF IsFor, SameTurn
  <1>3. CASE thread[t].turns = << >>
    <2>1. CASE thread'[t].turns = << >>
      BY <1>1, <1>3, <2>1 DEF IsFor, Moves
    <2>2. CASE thread'[t].turns # << >>
      <3>1. /\ thread[t].asked # Null
            /\ Len(thread'[t].turns) = 1 /\ thread'[t].turns[1] = thread[t].asked
        BY <1>1, <1>3, <2>2 DEF Moves
      <3> QED
        BY <1>3, <2>2, <3>1 DEF IsFor
    <2> QED
      BY <2>1, <2>2
  <1> QED
    BY <1>2, <1>3

LEMMA MovedAsked ==
  ASSUME LaunchTypeOK, NEW t \in HostThreads, NEW sofar \in Nat, Moves(t), connected' => connected,
         IsAsked(t, sofar)
  PROVE  IsAsked(t, sofar)'
  <1> SUFFICES ASSUME connected'
               PROVE  /\ thread'[t].phase = "starting"
                      /\ \/ thread'[t].asked # Null /\ Len(thread'[t].turns) = sofar
                         \/ thread'[t].asked = Null /\ Len(thread'[t].turns) = sofar + 1
    BY DEF IsAsked
  <1>1. Len(thread[t].turns) \in Nat /\ Len(thread'[t].turns) \in Nat
    BY DEF LaunchTypeOK, ThreadRecords, Moves, Grows
  <1> QED
    BY <1>1 DEF Moves, IsAsked

(* A turn that ended, and what it was for, stays.                               *)
LEMMA GrownFirst ==
  ASSUME LaunchTypeOK, NEW t \in HostThreads, Grows(t), thread[t].turns # << >>
  PROVE  /\ thread'[t].turns # << >>
         /\ SameTurn(thread[t].turns[1], thread'[t].turns[1])
         /\ ReadsOnly(thread[t].turns[1]) => ReadsOnly(thread'[t].turns[1])
         /\ IsDrafted(thread[t].turns[1]) => IsDrafted(thread'[t].turns[1])
  <1>1. thread[t].turns \in Seq(TurnRecords) /\ thread'[t].turns \in Seq(TurnRecords)
    BY DEF LaunchTypeOK, ThreadRecords, Grows
  <1>2. thread'[t].turns # << >> /\ SameTurn(thread[t].turns[1], thread'[t].turns[1])
    BY <1>1 DEF Grows
  <1> QED
    BY <1>2 DEF SameTurn, ReadsOnly, IsDrafted

LEMMA GrownResult ==
  ASSUME LaunchTypeOK, NEW r \in HandoffReceipts, Grows(r.task), IsResult(r)
  PROVE  IsResult(r)'
  <1>1. r.task \in HostThreads
    BY DEF HandoffReceipts
  <1>2. thread'[r.task].turns # << >> /\ SameTurn(thread[r.task].turns[1], thread'[r.task].turns[1])
    BY <1>1, GrownFirst DEF IsResult
  <1>3. /\ thread'[r.task].turns[1].status = "completed"
        /\ thread'[r.task].turns[1].items = thread[r.task].turns[1].items
    BY <1>2 DEF SameTurn, IsResult, CompressionTurn
  <1> QED
    BY <1>2, <1>3 DEF IsResult, CompressionTurn

-----------------------------------------------------------------------------
(* What one launcher, or the host, does leaves the other's invariant alone.       *)

LEMMA ThreadsKept ==
  ASSUME LaunchTypeOK, LaunchTypeOK', ThreadsInv, \A t \in HostThreads : Moves(t),
         AttemptsMade \in Nat, AttemptsMade' \in Nat, AttemptsMade <= AttemptsMade'
  PROVE  ThreadsInv'
  <1>1. \A t \in HostThreads : ThreadOK(thread'[t])
    <2>1. \A t \in HostThreads : thread'[t] \in ThreadRecords
      BY DEF LaunchTypeOK
    <2> QED
      BY <2>1, MovedThread DEF ThreadsInv
  <1>2. \A t \in HostThreads, n \in Nat : IsFor(t, n)' => IsFor(t, n)
    BY MovedFor
  <1>3. \A t \in HostThreads, n \in Nat : IsFor(t, n)' => n <= AttemptsMade'
    <2> TAKE t \in HostThreads, n \in Nat
    <2> HAVE IsFor(t, n)'
    <2>1. n <= AttemptsMade
      BY <1>2 DEF ThreadsInv
    <2> QED
      BY <2>1
  <1>4. \A t, u \in HostThreads, n \in Nat : IsFor(t, n)' /\ IsFor(u, n)' => t = u
    BY <1>2 DEF ThreadsInv
  <1> QED
    BY <1>1, <1>3, <1>4 DEF ThreadsInv

LEMMA AttemptsAreNumbers == LaunchTypeOK => AttemptsMade \in Nat
  BY NullFacts DEF LaunchTypeOK, AttemptsMade, JournalRecords

LEMMA LaunchKept ==
  ASSUME LaunchTypeOK, LaunchInv, UNCHANGED <<journal, launch, active, handoff>>,
         \A t \in HostThreads, n \in Nat : IsFor(t, n)' => IsFor(t, n),
         \A t \in HostThreads : Grows(t), connected' => connected,
         launch.step \in {"turn", "turn_asked"} => Moves(launch.task)
  PROVE  LaunchInv'
  <1>1. launch.attempt \in Nat
    BY DEF LaunchTypeOK, LaunchRecords
  <1>2. AttemptsMade' = AttemptsMade /\ IsCompleted' = IsCompleted
    BY DEF AttemptsMade, IsCompleted
  <1>3. launch.step \in {"materialize", "session", "turn"} =>
          \A t \in HostThreads : ~IsFor(t, launch.attempt)'
    BY <1>1 DEF LaunchInv
  <1>4. launch.step = "turn" => thread'[launch.task].phase \in {"ready", "failed"}
    BY DEF LaunchInv, Moves
  <1>5. launch.step = "turn_asked" => IsAsked(launch.task, 0)'
    BY MovedAsked DEF LaunchInv
  <1>6. launch.step \in {"turn", "turn_asked"} => thread'[launch.task].phase # Null
    BY NullFacts DEF LaunchInv, Moves
  <1>7. launch.step = "launching" => thread'[launch.task].turns # << >>
    BY GrownFirst DEF LaunchInv
  <1> QED
    BY <1>2, <1>3, <1>4, <1>5, <1>6, <1>7 DEF LaunchInv

LEMMA HandoffKept ==
  ASSUME LaunchTypeOK, HandoffInv, UNCHANGED <<journal, active, handoff, answered>>,
         \A t \in HostThreads : Grows(t)
  PROVE  HandoffInv'
  <1>1. active # Null => thread'[active].turns # << >>
    BY GrownFirst DEF HandoffInv, LaunchTypeOK
  <1>2. IsCompleted' = IsCompleted
    BY DEF IsCompleted
  <1>3. \A r \in HandoffReceipts : IsResult(r) => IsResult(r)'
    BY GrownResult DEF HandoffReceipts
  <1>4. /\ handoff.receipt # Null => handoff.receipt \in HandoffReceipts
        /\ IsCompleted /\ journal.receipt # Null => journal.receipt \in HandoffReceipts
    BY DEF LaunchTypeOK, HandoffRecords, JournalRecords, IsCompleted
  <1>5. handoff.step = "writing" => handoff.receipt # Null /\ IsResult(handoff.receipt)'
    BY <1>3, <1>4 DEF HandoffInv
  <1>6. IsCompleted => journal.receipt # Null /\ IsResult(journal.receipt)'
    BY <1>3, <1>4 DEF HandoffInv
  <1> QED
    BY <1>1, <1>2, <1>5, <1>6 DEF HandoffInv, IsResult, CompressionTurn

LEMMA TaskKept ==
  ASSUME LaunchTypeOK, TaskInv, UNCHANGED <<task, grant>>, connected' => connected,
         task.step \in {"turn", "turn_asked", "active"} => Moves(task.thread),
         ThreadsInv
  PROVE  TaskInv'
  <1> DEFINE t == task.thread
             old == thread[t]
             new == thread'[t]
  <1>1. task.step \in {"turn", "turn_asked", "active"} =>
          t \in HostThreads /\ Moves(t) /\ Grows(t) /\ old.phase # Null /\ new.phase # Null
    BY NullFacts DEF TaskInv, Moves
  <1>2. task.step = "turn" => new.phase \in {"ready", "failed"}
    BY <1>1 DEF TaskInv, Moves
  <1>3. task.step = "turn_asked" => IsAsked(t, 0)' /\ \A n \in Nat : ~IsFor(t, n)'
    BY <1>1, MovedAsked, MovedFor DEF TaskInv
  <1>4. task.step = "active" => new.turns # << >> /\ ReadsOnly(new.turns[1])
    BY <1>1, GrownFirst DEF TaskInv
  <1>5. ASSUME task.step = "active", task.lease = Null, new.phase \in {"active", "terminal"}
        PROVE  Len(new.turns) = 1
    <2>1. old.phase \in {"active", "terminal"}
      BY <1>1, <1>5 DEF Moves
    <2>2. Len(old.turns) = 1 /\ old.asked = Null
      BY <1>1, <1>5, <2>1 DEF TaskInv, ThreadsInv, ThreadOK
    <2> QED
      BY <1>1, <1>5, <2>2 DEF Moves
  <1>6. task.ready = "receipt" => IsDrafted(new.turns[1])
    <2>1. task.ready = "receipt" => task.step = "active"
      BY NullFacts DEF TaskInv
    <2> QED
      BY <1>1, <2>1, GrownFirst DEF TaskInv
  <1> QED
    BY <1>1, <1>2, <1>3, <1>4, <1>5, <1>6 DEF TaskInv

LEMMA GrantKept ==
  ASSUME LaunchTypeOK, TaskInv, GrantInv, ThreadsInv, UNCHANGED <<task, grant>>, connected' => connected,
         task.step \in {"turn", "turn_asked", "active"} => Moves(task.thread),
         \A t \in HostThreads : ThreadOK(thread'[t])
  PROVE  GrantInv'
  <1> DEFINE t == task.thread
             old == thread[t]
             new == thread'[t]
  <1>1. task.ready = "receipt" => t \in HostThreads /\ Moves(t) /\ Grows(t)
    BY NullFacts DEF TaskInv, Moves
  <1>2. ASSUME task.lease # Null PROVE Len(new.turns) = 2
    <2>1. t \in HostThreads /\ Grows(t) /\ Len(old.turns) = 2
      BY <1>1, <1>2 DEF TaskInv, GrantInv
    <2>2. new.turns \in Seq(TurnRecords) /\ 2 <= Len(new.turns) /\ Len(new.turns) <= 2
      BY <2>1 DEF Grows, ThreadOK
    <2>3. Len(new.turns) \in Nat
      BY <2>2
    <2>4. \A n \in Nat : 2 <= n /\ n <= 2 => n = 2
      OBVIOUS
    <2> QED
      BY <2>2, <2>3, <2>4
  <1>3. ASSUME task.progress = "receipt" PROVE new.turns[2].status = "completed"
    <2>1. task.lease # Null
      BY <1>3, NullFacts DEF GrantInv
    <2>2. t \in HostThreads /\ Grows(t) /\ Len(old.turns) = 2 /\ old.turns[2].status = "completed"
      BY <1>1, <1>3, <2>1 DEF TaskInv, GrantInv
    <2>3. SameTurn(old.turns[2], new.turns[2])
      BY <2>2 DEF Grows
    <2> QED
      BY <2>2, <2>3 DEF SameTurn
  <1>4. ASSUME NEW g \in Granters, grant[g].step = "turn_asked"
        PROVE  new.phase \in {"starting", "failed"} /\ IsAsked(t, 1)'
    <2>1. t \in HostThreads /\ Moves(t)
      BY <1>1, <1>4 DEF TaskInv
    <2>2. old.phase \in {"starting", "failed"} /\ IsAsked(t, 1)
      BY <1>4 DEF GrantInv
    <2>3. IsAsked(t, 1)'
      BY <2>1, <2>2, MovedAsked
    <2> QED
      BY <2>1, <2>2, <2>3 DEF Moves
  <1> QED
    BY <1>2, <1>3, <1>4 DEF GrantInv

-----------------------------------------------------------------------------
(* The host and the connection.                                                *)

LEMMA TurnTold ==
  ASSUME NEW work \in TurnRecords, NEW told \in {Null, "terminal", "error"}
  PROVE  /\ [work EXCEPT !.told = told] \in TurnRecords
         /\ SameTurn(work, [work EXCEPT !.told = told])
  BY DEF TurnRecords, SameTurn

LEMMA DisconnectedThread ==
  ASSUME LaunchTypeOK, NEW t \in HostThreads, thread[t].phase # Null
  PROVE  /\ Disconnected[t] \in ThreadRecords
         /\ Disconnected[t].phase = "failed" /\ Disconnected[t].asked = thread[t].asked
         /\ Len(Disconnected[t].turns) = Len(thread[t].turns)
         /\ \A i \in 1..Len(thread[t].turns) :
              SameTurn(thread[t].turns[i], Disconnected[t].turns[i])
  <1> DEFINE old == thread[t]
             told(work) == IF work.told = Null /\ old.phase = "active" THEN [work EXCEPT !.told = "error"]
                           ELSE work
             turns == [i \in DOMAIN old.turns |-> told(old.turns[i])]
  <1>1. old \in ThreadRecords /\ old.turns \in Seq(TurnRecords)
    BY DEF LaunchTypeOK, ThreadRecords
  <1>2. \A work \in TurnRecords : told(work) \in TurnRecords /\ SameTurn(work, told(work))
    <2> TAKE work \in TurnRecords
    <2>1. CASE work.told = Null /\ old.phase = "active"
      BY <2>1, TurnTold
    <2>2. CASE ~(work.told = Null /\ old.phase = "active")
      BY <2>2 DEF SameTurn
    <2> QED
      BY <2>1, <2>2
  <1>3. DOMAIN old.turns = 1..Len(old.turns) /\ Len(old.turns) \in Nat
        /\ \A i \in 1..Len(old.turns) : old.turns[i] \in TurnRecords
    BY <1>1
  <1> HIDE DEF told
  <1>4. turns \in Seq(TurnRecords) /\ Len(turns) = Len(old.turns)
    BY <1>2, <1>3
  <1>5. \A i \in 1..Len(old.turns) : SameTurn(old.turns[i], turns[i])
    BY <1>2, <1>3
  <1>6. Disconnected[t] = [old EXCEPT !.phase = "failed", !.turns = turns]
    BY DEF Disconnected, told
  <1> HIDE DEF turns
  <1>7. /\ Disconnected[t].phase = "failed" /\ Disconnected[t].asked = old.asked
        /\ Disconnected[t].turns = turns /\ Disconnected[t] \in ThreadRecords
    BY <1>1, <1>4, <1>6 DEF ThreadRecords, SessionPhases
  <1> QED
    BY <1>4, <1>5, <1>7

LEMMA DisconnectedMoves ==
  ASSUME LaunchTypeOK, NEW t \in HostThreads, thread'[t] = Disconnected[t], ~connected'
  PROVE  Moves(t) /\ thread'[t] \in ThreadRecords
  <1>1. CASE thread[t].phase = Null
    <2>1. thread'[t] = thread[t]
      BY <1>1 DEF Disconnected
    <2> QED
      BY <2>1, UnchangedMoves DEF LaunchTypeOK
  <1>2. CASE thread[t].phase # Null
    <2>1. thread'[t].turns \in Seq(TurnRecords) /\ Len(thread[t].turns) \in Nat
      BY <1>2, DisconnectedThread DEF ThreadRecords, LaunchTypeOK
    <2>2. Grows(t)
      BY <1>2, <2>1, DisconnectedThread DEF Grows
    <2> QED
      BY <1>2, <2>2, DisconnectedThread DEF Moves
  <1> QED
    BY <1>1, <1>2

LEMMA ThreadIsRecord ==
  ASSUME LaunchTypeOK, NEW t \in HostThreads
  PROVE  /\ thread[t].phase \in SessionPhases \cup {Null} /\ thread[t].asked \in TurnRecords \cup {Null}
         /\ thread[t].turns \in Seq(TurnRecords) /\ Len(thread[t].turns) \in Nat
         /\ \A i \in 1..Len(thread[t].turns) : thread[t].turns[i] \in TurnRecords
  BY DEF LaunchTypeOK, ThreadRecords

LEMMA HostStartsMoves ==
  ASSUME LaunchTypeOK, NEW t \in HostThreads, HostStartsTurn(t)
  PROVE  /\ \A u \in HostThreads : Moves(u)
         /\ thread' \in [HostThreads -> ThreadRecords] /\ connected' = connected
  <1> DEFINE old == thread[t]
             new == thread'[t]
  <1>1. /\ old.asked \in TurnRecords /\ old.asked # Null
        /\ old \in ThreadRecords /\ old.turns \in Seq(TurnRecords) /\ Len(old.turns) \in Nat
    BY DEF HostStartsTurn, LaunchTypeOK, ThreadRecords
  <1>2. new = [old EXCEPT !.turns = Append(@, old.asked), !.asked = Null]
    BY DEF HostStartsTurn, LaunchTypeOK
  <1>3. new.turns = Append(old.turns, old.asked) /\ new.asked = Null /\ new.phase = old.phase
        /\ new \in ThreadRecords
    <2>1. Append(old.turns, old.asked) \in Seq(TurnRecords)
      BY <1>1
    <2>2. new = [old EXCEPT !.turns = Append(old.turns, old.asked), !.asked = Null]
      BY <1>2
    <2> QED
      BY <1>1, <2>1, <2>2 DEF ThreadRecords
  <1>4. /\ new.turns \in Seq(TurnRecords) /\ Len(new.turns) = Len(old.turns) + 1
        /\ new.turns[Len(new.turns)] = old.asked
        /\ \A i \in 1..Len(old.turns) : new.turns[i] = old.turns[i]
    BY <1>1, <1>3
  <1>5. Moves(t)
    BY <1>1, <1>3, <1>4 DEF Moves, Grows, SameTurn
  <1>6. \A u \in HostThreads : u # t => thread'[u] = thread[u]
    BY DEF HostStartsTurn, LaunchTypeOK
  <1>7. thread' \in [HostThreads -> ThreadRecords] /\ connected' = connected
    BY <1>3 DEF HostStartsTurn, LaunchTypeOK
  <1> QED
    BY <1>5, <1>6, <1>7, UnchangedMoves

LEMMA DisconnectedType == ASSUME LaunchTypeOK PROVE Disconnected \in [HostThreads -> ThreadRecords]
  <1>1. \A t \in HostThreads : Disconnected[t] \in ThreadRecords
    <2> TAKE t \in HostThreads
    <2>1. CASE thread[t].phase = Null
      BY <2>1 DEF Disconnected, LaunchTypeOK
    <2>2. CASE thread[t].phase # Null
      BY <2>2, DisconnectedThread
    <2> QED
      BY <2>1, <2>2
  <1>2. Disconnected = [t \in HostThreads |-> Disconnected[t]]
    BY DEF Disconnected
  <1> QED
    BY <1>1, <1>2

LEMMA ConnectionFailsMoves ==
  ASSUME LaunchTypeOK, ConnectionFails
  PROVE  /\ \A u \in HostThreads : Moves(u)
         /\ thread' \in [HostThreads -> ThreadRecords] /\ connected' \in BOOLEAN /\ connected
  <1>1. connected' = FALSE /\ connected /\ thread' = Disconnected
    BY DEF ConnectionFails
  <1>2. \A u \in HostThreads : Moves(u) /\ thread'[u] \in ThreadRecords
    BY <1>1, DisconnectedMoves
  <1> QED
    BY <1>1, <1>2, DisconnectedType

(* The end of a turn, for whoever is told of it.                                *)
LEMMA EndedTurn ==
  ASSUME LaunchTypeOK, NEW t \in HostThreads, NEW ending \in Endings, IsRunning(t),
         NEW turns \in Seq(TurnRecords), Len(turns) = Len(thread[t].turns),
         \A i \in 1..Len(turns) : SameTurn(thread[t].turns[i], turns[i]),
         NEW ended \in TurnRecords,
         ended.sandbox = LastTurn(t).sandbox, ended.root = LastTurn(t).root
  PROVE  LET after == [turns EXCEPT ![Len(thread[t].turns)] = ended]
         IN /\ after \in Seq(TurnRecords) /\ Len(after) = Len(thread[t].turns)
            /\ \A i \in 1..Len(thread[t].turns) : SameTurn(thread[t].turns[i], after[i])
  <1> DEFINE last == Len(thread[t].turns)
             after == [turns EXCEPT ![last] = ended]
  <1>1. last \in Nat /\ last \in 1..last /\ thread[t].turns[last].status = "inProgress"
    BY ThreadIsRecord DEF IsRunning, LastTurn
  <1>2. SameTurn(thread[t].turns[last], ended)
    BY <1>1 DEF SameTurn, LastTurn
  <1>3. after \in Seq(TurnRecords) /\ Len(after) = last
    BY <1>1
  <1>4. \A i \in 1..last : after[i] = IF i = last THEN ended ELSE turns[i]
    BY <1>1
  <1> QED
    BY <1>2, <1>3, <1>4

LEMMA HostEndsMoves ==
  ASSUME LaunchTypeOK, NEW t \in HostThreads, HostEndsTurn(t)
  PROVE  /\ \A u \in HostThreads : Moves(u)
         /\ thread' \in [HostThreads -> ThreadRecords] /\ connected' \in BOOLEAN
         /\ connected' => connected
  <1> DEFINE old == thread[t]
             new == thread'[t]
             last == Len(old.turns)
  <1>1. PICK ending \in Endings :
          LET ended  == [LastTurn(t) EXCEPT !.status = ending.status, !.items = ending.items]
              after  == [thread EXCEPT ![t].turns[last] = ended]
              passes == /\ thread[t].phase \in {"starting", "active"}
                        /\ TurnDecodes(ending)
          IN /\ IsRunning(t)
             /\ \/ /\ thread[t].phase = Null \/ ~connected
                   /\ thread' = after /\ UNCHANGED connected
                \/ /\ thread[t].phase # Null /\ connected /\ passes
                   /\ thread' = IF thread[t].phase = "starting" THEN after
                                ELSE [after EXCEPT ![t].phase = "terminal",
                                                   ![t].turns[last].told = "terminal"]
                   /\ UNCHANGED connected
                \/ /\ thread[t].phase # Null /\ connected /\ ~passes
                   /\ connected' = FALSE
                   /\ thread' = [Disconnected EXCEPT ![t].turns[last] =
                                   [@ EXCEPT !.status = ending.status, !.items = ending.items]]
    BY DEF HostEndsTurn
  <1> DEFINE ended == [LastTurn(t) EXCEPT !.status = ending.status, !.items = ending.items]
             after == [thread EXCEPT ![t].turns[last] = ended]
             turns == [old.turns EXCEPT ![last] = ended]
  <1>2. /\ old \in ThreadRecords /\ old.turns \in Seq(TurnRecords) /\ last \in Nat /\ last \in 1..last
        /\ thread \in [HostThreads -> ThreadRecords] /\ connected \in BOOLEAN
        /\ LastTurn(t) \in TurnRecords
    BY <1>1, ThreadIsRecord DEF LaunchTypeOK, IsRunning, LastTurn
  <1>3. ended \in TurnRecords /\ ended.sandbox = LastTurn(t).sandbox /\ ended.root = LastTurn(t).root
    BY <1>2 DEF TurnRecords
  <1>4. /\ turns \in Seq(TurnRecords) /\ Len(turns) = last
        /\ \A i \in 1..last : SameTurn(old.turns[i], turns[i])
    <2>1. \A i \in 1..last : SameTurn(old.turns[i], old.turns[i])
      BY DEF SameTurn
    <2> QED
      BY <1>1, <1>2, <1>3, <2>1, EndedTurn
  <1>5. after = [thread EXCEPT ![t] = [old EXCEPT !.turns = turns]]
    BY <1>2
  <1> HIDE DEF ended, turns, after
  <1>6. [old EXCEPT !.turns = turns] \in ThreadRecords
    BY <1>2, <1>4 DEF ThreadRecords
  <1>7. /\ after \in [HostThreads -> ThreadRecords]
        /\ \A u \in HostThreads : u # t => after[u] = thread[u]
        /\ after[t].turns = turns /\ after[t].asked = old.asked /\ after[t].phase = old.phase
    BY <1>2, <1>5, <1>6 DEF ThreadRecords
  <1>8. CASE thread' = after /\ UNCHANGED connected
    <2>1. Moves(t)
      BY <1>2, <1>4, <1>7, <1>8 DEF Moves, Grows
    <2> QED
      BY <1>2, <1>7, <1>8, <2>1, UnchangedMoves
  <1>9. CASE /\ thread[t].phase = "active" /\ UNCHANGED connected
             /\ thread' = [after EXCEPT ![t].phase = "terminal", ![t].turns[last].told = "terminal"]
    <2> DEFINE told == [turns EXCEPT ![last].told = "terminal"]
    <2>1. turns[last] \in TurnRecords /\ turns[last] = ended
      BY <1>2, <1>4 DEF turns
    <2>2. /\ [turns[last] EXCEPT !.told = "terminal"] \in TurnRecords
          /\ SameTurn(turns[last], [turns[last] EXCEPT !.told = "terminal"])
      BY <2>1, TurnTold
    <2>3. told = [turns EXCEPT ![last] = [turns[last] EXCEPT !.told = "terminal"]]
      BY <1>2, <1>4
    <2>4. /\ told \in Seq(TurnRecords) /\ Len(told) = last
          /\ \A i \in 1..last : told[i] = IF i = last THEN [turns[last] EXCEPT !.told = "terminal"] ELSE turns[i]
      BY <1>2, <1>4, <2>2, <2>3
    <2>5. \A i \in 1..last : SameTurn(old.turns[i], told[i])
      BY <1>2, <1>4, <2>2, <2>4 DEF SameTurn
    <2>6. thread' = [after EXCEPT ![t] = [after[t] EXCEPT !.phase = "terminal", !.turns = told]]
      BY <1>7, <1>9
    <2> HIDE DEF told
    <2>7. /\ new.turns = told /\ new.phase = "terminal" /\ new.asked = old.asked
          /\ thread' \in [HostThreads -> ThreadRecords]
          /\ \A u \in HostThreads : u # t => thread'[u] = thread[u]
      BY <1>7, <2>4, <2>6 DEF ThreadRecords, SessionPhases
    <2>8. Grows(t)
      BY <1>2, <2>4, <2>5, <2>7 DEF Grows
    <2>9. Moves(t)
      BY <1>2, <1>9, <2>4, <2>7, <2>8 DEF Moves
    <2> QED
      BY <1>2, <1>9, <2>7, <2>9, UnchangedMoves
  <1>10. CASE /\ thread[t].phase # Null /\ connected' = FALSE /\ connected
              /\ thread' = [Disconnected EXCEPT ![t].turns[last] =
                              [@ EXCEPT !.status = ending.status, !.items = ending.items]]
    <2> DEFINE cut == Disconnected[t]
               over == [cut.turns[last] EXCEPT !.status = ending.status, !.items = ending.items]
               left == [cut.turns EXCEPT ![last] = over]
    <2>1. /\ cut \in ThreadRecords /\ cut.phase = "failed" /\ cut.asked = old.asked
          /\ Len(cut.turns) = last /\ cut.turns \in Seq(TurnRecords)
          /\ \A i \in 1..last : SameTurn(old.turns[i], cut.turns[i])
      BY <1>10, DisconnectedThread DEF ThreadRecords
    <2>2. cut.turns[last] \in TurnRecords /\ SameTurn(old.turns[last], cut.turns[last])
      BY <1>2, <2>1
    <2>3. over \in TurnRecords /\ over.sandbox = LastTurn(t).sandbox /\ over.root = LastTurn(t).root
      BY <2>2 DEF TurnRecords, SameTurn, LastTurn
    <2>4. /\ left \in Seq(TurnRecords) /\ Len(left) = last
          /\ \A i \in 1..last : SameTurn(old.turns[i], left[i])
      BY <1>1, <2>1, <2>3, EndedTurn
    <2>5. thread' = [Disconnected EXCEPT ![t] = [cut EXCEPT !.turns = left]]
      <3>1. last \in 1..Len(cut.turns)
        BY <1>2, <2>1
      <3> QED
        BY <1>10, <3>1, DisconnectedType
    <2> HIDE DEF left, over
    <2>6. [cut EXCEPT !.turns = left] \in ThreadRecords
      BY <2>1, <2>4 DEF ThreadRecords
    <2>7. /\ new.turns = left /\ new.asked = old.asked /\ new.phase = "failed" /\ new \in ThreadRecords
          /\ \A u \in HostThreads : u # t => thread'[u] = Disconnected[u]
      BY <2>1, <2>4, <2>5, <2>6 DEF Disconnected, ThreadRecords
    <2>8. Moves(t)
      <3>1. Grows(t)
        BY <1>2, <2>4, <2>7 DEF Grows
      <3> QED
        BY <1>2, <1>10, <2>4, <2>7, <3>1 DEF Moves
    <2>9. \A u \in HostThreads : Moves(u) /\ thread'[u] \in ThreadRecords
      BY <1>10, <2>7, <2>8, DisconnectedMoves
    <2> QED
      BY <1>2, <1>10, <2>5, <2>6, <2>9, DisconnectedType
  <1> QED
    BY <1>1, <1>8, <1>9, <1>10 DEF after, ended

LEMMA HostKeeps == IInv /\ Host => IInv'
  <1> SUFFICES ASSUME IInv, Host PROVE IInv'
    OBVIOUS
  <1> USE DEF IInv
  <1>1. /\ \A u \in HostThreads : Moves(u)
        /\ thread' \in [HostThreads -> ThreadRecords] /\ connected' \in BOOLEAN
        /\ connected' => connected
    <2>1. CASE ConnectionFails
      BY <2>1, ConnectionFailsMoves
    <2>2. ASSUME NEW t \in HostThreads, HostStartsTurn(t) PROVE <1>1
      BY <2>2, HostStartsMoves DEF LaunchTypeOK
    <2>3. ASSUME NEW t \in HostThreads, HostEndsTurn(t) PROVE <1>1
      BY <2>3, HostEndsMoves
    <2> QED
      BY <2>1, <2>2, <2>3 DEF Host
  <1>2. UNCHANGED <<journal, folders, launch, active, handoff, answered, task, grant>>
    BY DEF Host, compressionVars, continuationVars
  <1>3. LaunchTypeOK'
    BY <1>1, <1>2 DEF LaunchTypeOK
  <1>4. AttemptsMade' = AttemptsMade /\ AttemptsMade \in Nat
    BY <1>2, AttemptsAreNumbers DEF AttemptsMade
  <1>5. ThreadsInv'
    BY <1>1, <1>3, <1>4, ThreadsKept
  <1>6. \A t \in HostThreads, n \in Nat : IsFor(t, n)' => IsFor(t, n)
    BY <1>1, MovedFor
  <1>7. \A t \in HostThreads : Grows(t)
    BY <1>1 DEF Moves
  <1>8. LaunchInv'
    <2>1. launch.step \in {"turn", "turn_asked"} => Moves(launch.task)
      BY <1>1 DEF LaunchInv
    <2> QED
      BY <1>1, <1>2, <1>6, <1>7, <2>1, LaunchKept
  <1>9. HandoffInv'
    BY <1>2, <1>7, HandoffKept
  <1>10. task.step \in {"turn", "turn_asked", "active"} => Moves(task.thread)
    BY <1>1 DEF TaskInv
  <1>11. TaskInv' /\ GrantInv'
    <2>1. \A t \in HostThreads : ThreadOK(thread'[t])
      BY <1>5 DEF ThreadsInv
    <2> QED
      BY <1>1, <1>2, <1>10, <2>1, TaskKept, GrantKept
  <1>12. FoldersInv' /\ ThreadsApart'
    BY <1>2 DEF FoldersInv, ThreadsApart
  <1> QED
    BY <1>3, <1>5, <1>8, <1>9, <1>11, <1>12

(* The death of the process: what it knew of its sessions is gone, the turns stay.  *)
LEMMA CrashKeeps == IInv /\ Crash => IInv'
  <1> SUFFICES ASSUME IInv, Crash PROVE IInv'
    OBVIOUS
  <1> USE DEF IInv
  <1>1. /\ launch' = NoLaunch /\ active' = Null /\ handoff' = NoHandoff
        /\ UNCHANGED <<journal, folders, answered>>
        /\ task' = NoTask /\ grant' = [g \in Granters |-> NoGrant] /\ connected' = TRUE
    BY DEF Crash, CompressionCrash, ContinuationCrash, ThreadsCrash
  <1>2. /\ thread' \in [HostThreads -> ThreadRecords]
        /\ \A t \in HostThreads : /\ thread'[t].turns = thread[t].turns
                                  /\ thread'[t].phase = Null /\ thread'[t].asked = Null
    BY DEF Crash, ThreadsCrash, LaunchTypeOK, ThreadRecords
  <1>3. LaunchTypeOK'
    BY <1>1, <1>2, NullFacts
    DEF LaunchTypeOK, NoLaunch, NoHandoff, NoTask, NoGrant, LaunchRecords, HandoffRecords, TaskRecords,
        GrantRecords, AllocatedSteps
  <1>4. AttemptsMade' = AttemptsMade /\ IsCompleted' = IsCompleted
    BY <1>1 DEF AttemptsMade, IsCompleted
  <1>5. ThreadsInv'
    <2>1. \A t \in HostThreads : ThreadOK(thread'[t])
      BY <1>2, NullFacts DEF ThreadsInv, ThreadOK
    <2>2. \A t \in HostThreads, n \in Nat : IsFor(t, n)' => IsFor(t, n)
      BY <1>2 DEF IsFor
    <2> QED
      BY <1>4, <2>1, <2>2 DEF ThreadsInv
  <1>6. LaunchInv'
    BY <1>1, NullFacts DEF LaunchInv, NoLaunch, AllocatedSteps
  <1>7. HandoffInv'
    <2>1. \A r \in HandoffReceipts : IsResult(r) => IsResult(r)'
      BY <1>2 DEF HandoffReceipts, IsResult, CompressionTurn
    <2>2. IsCompleted => journal.receipt # Null /\ journal.receipt \in HandoffReceipts /\ IsResult(journal.receipt)
      BY DEF HandoffInv, LaunchTypeOK, JournalRecords, IsCompleted
    <2>3. (IsCompleted => journal.receipt # Null /\ IsResult(journal.receipt))'
      BY <1>1, <1>4, <2>1, <2>2 DEF IsResult, CompressionTurn
    <2> QED
      BY <1>1, <1>4, <2>3, NullFacts DEF HandoffInv, NoHandoff
  <1>8. TaskInv' /\ GrantInv'
    BY <1>1, NullFacts DEF TaskInv, GrantInv, NoTask, NoGrant
  <1>9. FoldersInv' /\ ThreadsApart'
    BY <1>1 DEF FoldersInv, ThreadsApart, NoLaunch
  <1> QED
    BY <1>3, <1>5, <1>6, <1>7, <1>8, <1>9

LEMMA LaunchBegins == LaunchInit => IInv
  <1> SUFFICES ASSUME LaunchInit PROVE IInv
    OBVIOUS
  <1> USE DEF LaunchInit, ThreadsInit, CompressionInit, ContinuationInit
  <1>1. \A t \in HostThreads : /\ thread[t].turns = << >> /\ thread[t].phase = Null
                               /\ thread[t].asked = Null
    BY DEF NewThread
  <1>2. LaunchTypeOK
    <2>1. NewThread \in ThreadRecords
      BY DEF NewThread, ThreadRecords
    <2> QED
      BY <2>1
      DEF LaunchTypeOK, NoLaunch, NoHandoff, NoTask, NoGrant, LaunchRecords, HandoffRecords, TaskRecords,
          GrantRecords, AllocatedSteps
  <1>3. ThreadsInv
    BY <1>1, NullFacts DEF ThreadsInv, ThreadOK, IsFor
  <1>4. LaunchInv
    BY NullFacts DEF LaunchInv, NoLaunch, AllocatedSteps
  <1>5. HandoffInv
    BY NullFacts DEF HandoffInv, NoHandoff, IsCompleted
  <1>6. TaskInv /\ GrantInv
    BY NullFacts DEF TaskInv, GrantInv, NoTask, NoGrant
  <1>7. FoldersInv /\ ThreadsApart
    BY DEF FoldersInv, ThreadsApart, NoLaunch
  <1> QED
    BY <1>2, <1>3, <1>4, <1>5, <1>6, <1>7 DEF IInv
-----------------------------------------------------------------------------
(* What a launcher does to the thread of its task.                              *)

LEMMA NewRootFacts ==
  ASSUME LaunchTypeOK, ThreadsInv, NEW root \in RootAnswers, IsNewRoot(root)
  PROVE  /\ root.id \in HostThreads
         /\ thread[root.id].phase = Null /\ thread[root.id].asked = Null /\ thread[root.id].turns = << >>
  <1>1. root.id # Source /\ thread[root.id].phase = Null /\ root.turns = << >>
    BY DEF IsNewRoot, IsFreshRoot
  <1>2. PICK id \in {Source} \cup HostThreads : root.id = id /\ (id # Source => root = Root(id))
    BY DEF RootAnswers, Root
  <1>3. root.id \in HostThreads /\ root.turns = thread[root.id].turns
    BY <1>1, <1>2 DEF Root
  <1> QED
    BY <1>1, <1>3 DEF ThreadsInv, ThreadOK

(* The other threads are as they were, and this one.                            *)
OnlyAt(t) ==
  /\ thread' \in [HostThreads -> ThreadRecords]
  /\ \A u \in HostThreads : u # t => thread'[u] = thread[u]

LEMMA SessionThread ==
  ASSUME LaunchTypeOK, NEW t \in HostThreads, thread' = WithSession(t)
  PROVE  /\ OnlyAt(t)
         /\ thread'[t].phase = "ready" /\ thread'[t].asked = thread[t].asked
         /\ thread'[t].turns = thread[t].turns
  <1>1. thread' = [thread EXCEPT ![t] = [thread[t] EXCEPT !.phase = "ready"]]
    BY DEF WithSession
  <1>2. thread[t] \in ThreadRecords
    BY DEF LaunchTypeOK
  <1> QED
    BY <1>1, <1>2 DEF OnlyAt, LaunchTypeOK, ThreadRecords, SessionPhases

LEMMA FailedThread ==
  ASSUME LaunchTypeOK, NEW t \in HostThreads, thread' = TurnStartFailed(t)
  PROVE  /\ OnlyAt(t)
         /\ thread'[t].phase = "failed" /\ thread'[t].asked = thread[t].asked
         /\ thread'[t].turns = thread[t].turns
  <1>1. thread' = [thread EXCEPT ![t] = [thread[t] EXCEPT !.phase = "failed"]]
    BY DEF TurnStartFailed
  <1>2. thread[t] \in ThreadRecords
    BY DEF LaunchTypeOK
  <1> QED
    BY <1>1, <1>2 DEF OnlyAt, LaunchTypeOK, ThreadRecords, SessionPhases

LEMMA AskedThread ==
  ASSUME LaunchTypeOK, NEW t \in HostThreads, NEW work \in TurnRecords, thread' = TurnAsked(t, work)
  PROVE  /\ OnlyAt(t)
         /\ thread'[t].phase = "starting" /\ thread'[t].asked = work
         /\ thread'[t].turns = thread[t].turns
  <1>1. thread' = [thread EXCEPT ![t] = [thread[t] EXCEPT !.phase = "starting", !.asked = work]]
    BY DEF TurnAsked, LaunchTypeOK
  <1>2. thread[t] \in ThreadRecords
    BY DEF LaunchTypeOK
  <1>3. [thread[t] EXCEPT !.phase = "starting", !.asked = work] \in ThreadRecords
    BY <1>2 DEF ThreadRecords, SessionPhases
  <1> QED
    BY <1>1, <1>2, <1>3 DEF OnlyAt, LaunchTypeOK, ThreadRecords

LEMMA ActivatedThread ==
  ASSUME LaunchTypeOK, NEW t \in HostThreads, thread[t].turns # << >>, thread' = TurnActivated(t)
  PROVE  /\ OnlyAt(t) /\ Grows(t)
         /\ thread'[t].phase \in {"active", "terminal"} /\ thread'[t].asked = thread[t].asked
         /\ Len(thread'[t].turns) = Len(thread[t].turns)
  <1> DEFINE old == thread[t]
             last == Len(old.turns)
             told == IF IsRunning(t) THEN Null ELSE "terminal"
             ended == [old.turns[last] EXCEPT !.told = told]
             turns == [old.turns EXCEPT ![last] = ended]
             next == IF IsRunning(t) THEN "active" ELSE "terminal"
  <1>1. old \in ThreadRecords /\ old.turns \in Seq(TurnRecords) /\ last \in Nat /\ last \in 1..last
    BY ThreadIsRecord DEF LaunchTypeOK
  <1>2. old.turns[last] \in TurnRecords /\ told \in {Null, "terminal", "error"}
    BY <1>1
  <1>3. ended \in TurnRecords /\ SameTurn(old.turns[last], ended)
    BY <1>2, TurnTold
  <1>4. thread' = [thread EXCEPT ![t] = [old EXCEPT !.phase = next, !.turns = turns]]
    BY <1>1 DEF TurnActivated, LaunchTypeOK
  <1>5. next \in {"active", "terminal"}
    OBVIOUS
  <1> HIDE DEF ended, told, next
  <1>6. /\ turns \in Seq(TurnRecords) /\ Len(turns) = last
        /\ \A i \in 1..last : turns[i] = IF i = last THEN ended ELSE old.turns[i]
    BY <1>1, <1>3
  <1>7. \A i \in 1..last : SameTurn(old.turns[i], turns[i])
    BY <1>3, <1>6 DEF SameTurn
  <1> HIDE DEF turns
  <1>8. [old EXCEPT !.phase = next, !.turns = turns] \in ThreadRecords
    BY <1>1, <1>5, <1>6 DEF ThreadRecords, SessionPhases
  <1>9. OnlyAt(t)
    BY <1>4, <1>8 DEF OnlyAt, LaunchTypeOK
  <1>10. thread'[t].phase = next /\ thread'[t].asked = old.asked /\ thread'[t].turns = turns
    BY <1>1, <1>4 DEF ThreadRecords, LaunchTypeOK
  <1> QED
    BY <1>1, <1>5, <1>6, <1>7, <1>9, <1>10 DEF Grows

(* The answer to turn/start, or none, changes nothing of what the thread is for.    *)
LEMMA AnsweredThread ==
  ASSUME LaunchTypeOK, NEW t \in HostThreads, ThreadOK(thread[t]), Grows(t),
         thread'[t] \in ThreadRecords,
         thread'[t].asked = thread[t].asked, Len(thread'[t].turns) = Len(thread[t].turns),
         \/ thread'[t].phase = "failed"
         \/ thread'[t].phase \in {"active", "terminal"} /\ thread[t].asked = Null
  PROVE  ThreadOK(thread'[t]) /\ \A n \in Nat : IsFor(t, n)' => IsFor(t, n)
  <1> DEFINE old == thread[t]
             new == thread'[t]
  <1>1. old.turns \in Seq(TurnRecords) /\ new.turns \in Seq(TurnRecords) /\ Len(old.turns) \in Nat
    BY ThreadIsRecord DEF Grows
  <1>2. new.turns = << >> <=> old.turns = << >>
    BY <1>1
  <1>3. \A i \in 1..Len(old.turns) : SameTurn(old.turns[i], new.turns[i])
    BY DEF Grows
  <1>4. old.turns # << >> => SameTurn(old.turns[1], new.turns[1])
    BY <1>1, <1>3
  <1>5. /\ old.turns # << >> /\ ReadsOnly(old.turns[1]) => ReadsOnly(new.turns[1])
        /\ old.turns # << >> /\ IsForAttempt(old.turns[1]) => IsForAttempt(new.turns[1])
        /\ old.turns # << >> /\ IsDrafted(old.turns[1]) => IsDrafted(new.turns[1])
    BY <1>4 DEF SameTurn, ReadsOnly, IsForAttempt, IsDrafted
  <1>6. Len(old.turns) = 2 /\ WritesEpoch(old.turns[2]) => WritesEpoch(new.turns[2])
    BY <1>3 DEF SameTurn, WritesEpoch
  <1>7. /\ Len(new.turns) <= 2
        /\ new.turns # << >> => ReadsOnly(new.turns[1]) \/ IsForAttempt(new.turns[1])
        /\ Len(new.turns) = 2 => IsDrafted(new.turns[1]) /\ WritesEpoch(new.turns[2])
    BY <1>1, <1>2, <1>5, <1>6 DEF ThreadOK
  <1>8. new.asked # Null =>
          \/ new.turns = << >> /\ (ReadsOnly(new.asked) \/ IsForAttempt(new.asked))
          \/ Len(new.turns) = 1 /\ IsDrafted(new.turns[1]) /\ WritesEpoch(new.asked)
    BY <1>1, <1>2, <1>5 DEF ThreadOK
  <1>9. new.phase # "ready" /\ (new.phase \in {Null, "ready", "active", "terminal"} => new.asked = Null)
    BY NullFacts
  <1>10. \A n \in Nat : IsFor(t, n)' => IsFor(t, n)
    BY <1>2, <1>4 DEF IsFor, SameTurn
  <1> QED
    BY <1>7, <1>8, <1>9, <1>10 DEF ThreadOK

LEMMA OneThread ==
  ASSUME ThreadsInv, NEW t \in HostThreads, OnlyAt(t), ThreadOK(thread'[t]),
         \A n \in Nat : IsFor(t, n)' => IsFor(t, n), AttemptsMade' = AttemptsMade
  PROVE  ThreadsInv' /\ \A u \in HostThreads, n \in Nat : IsFor(u, n)' => IsFor(u, n)
  <1>1. \A u \in HostThreads : ThreadOK(thread'[u])
    BY DEF OnlyAt, ThreadsInv
  <1>2. \A u \in HostThreads, n \in Nat : IsFor(u, n)' => IsFor(u, n)
    BY DEF OnlyAt, IsFor
  <1> QED
    BY <1>1, <1>2 DEF ThreadsInv

LEMMA OthersMove ==
  ASSUME LaunchTypeOK, NEW t \in HostThreads, OnlyAt(t)
  PROVE  \A u \in HostThreads : u # t => Moves(u) /\ Grows(u)
  BY UnchangedMoves DEF OnlyAt, Moves

LEMMA SameTurnsGrow ==
  ASSUME LaunchTypeOK, NEW t \in HostThreads, thread'[t].turns = thread[t].turns
  PROVE  Grows(t)
  BY ThreadIsRecord DEF Grows, SameTurn
-----------------------------------------------------------------------------
(* The steps of the compression launcher.                                      *)

LEMMA ContinuationKept ==
  ASSUME LaunchTypeOK, ThreadsInv, TaskInv, GrantInv, UNCHANGED <<threadVars, continuationVars>>,
         AttemptsMade \in Nat, AttemptsMade' \in Nat, AttemptsMade <= AttemptsMade'
  PROVE  ThreadsInv' /\ TaskInv' /\ GrantInv'
  <1>1. UNCHANGED <<thread, connected, task, grant>>
    BY DEF threadVars, continuationVars
  <1>2. \A t \in HostThreads, n \in Nat : IsFor(t, n)' => IsFor(t, n)
    BY <1>1 DEF IsFor
  <1>3. ThreadsInv'
    <2>1. \A t \in HostThreads, n \in Nat : IsFor(t, n)' => n <= AttemptsMade'
      <3> TAKE t \in HostThreads, n \in Nat
      <3> HAVE IsFor(t, n)'
      <3>1. n <= AttemptsMade
        BY <1>2 DEF ThreadsInv
      <3> QED
        BY <3>1
    <2>2. \A t, u \in HostThreads, n \in Nat : IsFor(t, n)' /\ IsFor(u, n)' => t = u
      BY <1>2 DEF ThreadsInv
    <2> QED
      BY <1>1, <2>1, <2>2 DEF ThreadsInv
  <1>4. TaskInv'
    BY <1>1 DEF TaskInv, IsAsked, IsFor
  <1>5. GrantInv'
    BY <1>1 DEF GrantInv, IsAsked
  <1> QED
    BY <1>3, <1>4, <1>5

LEMMA LaunchFacts ==
  ASSUME LaunchTypeOK
  PROVE  /\ launch \in [step: {"idle", "skill", "allocate"} \cup AllocatedSteps, attempt: Nat,
                        task: HostThreads \cup {Null}]
         /\ AttemptsMade \in Nat /\ (journal # Null => AttemptsMade = journal.attempt)
         /\ IsCompleted => journal # Null /\ journal \in JournalRecords
  BY AttemptsAreNumbers DEF LaunchTypeOK, LaunchRecords, AttemptsMade, IsCompleted

LEMMA StepTo ==
  ASSUME LaunchTypeOK, NEW step \in {"idle", "skill", "allocate"} \cup AllocatedSteps, Step(step)
  PROVE  /\ launch'.step = step /\ launch'.attempt = launch.attempt /\ launch'.task = launch.task
         /\ launch' \in LaunchRecords
  BY DEF LaunchTypeOK, LaunchRecords, Step

LEMMA RecordFacts ==
  ASSUME LaunchTypeOK, NEW status \in {"ALLOCATED", "LAUNCHED", "FAILED", "COMPLETED"},
         NEW t \in HostThreads \cup {Null}, NEW r \in HandoffReceipts \cup {Null},
         journal' = Record(status, t, r)
  PROVE  /\ journal' \in JournalRecords /\ journal' # Null
         /\ journal'.status = status /\ journal'.attempt = launch.attempt /\ journal'.receipt = r
         /\ AttemptsMade' = launch.attempt /\ (IsCompleted' <=> status = "COMPLETED")
  <1>1. launch.attempt \in Nat
    BY DEF LaunchTypeOK, LaunchRecords
  <1>2. journal' \in JournalRecords /\ journal' # Null
    BY <1>1, NullFacts DEF Record, JournalRecords
  <1> QED
    BY <1>2 DEF Record, AttemptsMade, IsCompleted

(* Steps of a start that leave the threads alone.                               *)
LEMMA StartKeeps == IInv /\ Start /\ UNCHANGED continuationVars => IInv'
  <1> SUFFICES ASSUME IInv, Start, UNCHANGED continuationVars PROVE IInv'
    OBVIOUS
  <1> USE DEF IInv
  <1>1. UNCHANGED <<thread, connected, journal, folders, active, handoff, answered, task, grant>>
    BY DEF Start, threadVars, continuationVars
  <1>2. AttemptsMade' = AttemptsMade /\ IsCompleted' = IsCompleted /\ AttemptsMade \in Nat
    BY <1>1, AttemptsAreNumbers DEF AttemptsMade, IsCompleted
  <1>3. ThreadsInv' /\ TaskInv' /\ GrantInv'
    BY <1>1, <1>2, ContinuationKept DEF Start
  <1>4. HandoffInv' /\ FoldersInv'
    BY <1>1, <1>2 DEF HandoffInv, FoldersInv, IsResult, CompressionTurn
  <1>5. active = Null /\ handoff = NoHandoff
    BY DEF Start, LaunchInv
  <1>6. CASE /\ IsCompleted
             /\ launch' = [step |-> "launched", attempt |-> AttemptsMade, task |-> journal.task]
    <2>1. journal # Null /\ journal \in JournalRecords /\ AttemptsMade = journal.attempt
      BY <1>6, LaunchFacts
    <2>2. launch' \in LaunchRecords
      BY <1>2, <1>6, <2>1 DEF LaunchRecords, AllocatedSteps, JournalRecords
    <2>3. LaunchInv'
      BY <1>1, <1>6, <2>1 DEF LaunchInv, AllocatedSteps
    <2> QED
      BY <1>1, <1>3, <1>4, <1>6, <2>2, <2>3 DEF LaunchTypeOK, ThreadsApart
  <1>7. CASE /\ ~IsCompleted
             /\ launch' = [step |-> "skill", attempt |-> AttemptsMade + 1, task |-> Null]
    <2>1. launch' \in LaunchRecords
      BY <1>2, <1>7 DEF LaunchRecords
    <2>2. LaunchInv'
      BY <1>1, <1>2, <1>5, <1>7 DEF LaunchInv, AllocatedSteps
    <2> QED
      BY <1>1, <1>3, <1>4, <1>7, <2>1, <2>2 DEF LaunchTypeOK, ThreadsApart
  <1> QED
    BY <1>6, <1>7 DEF Start

(* A start that goes on or back without a trace.                                *)
LEMMA StepKeeps ==
  ASSUME IInv, NEW step \in {"idle", "allocate", "session", "failing"}, Step(step),
         UNCHANGED <<thread, connected, journal, active, handoff, answered, task, grant>>, FoldersInv',
         folders' \subseteq Nat,
         launch.step \notin {"idle", "launched"},
         step = "allocate" => launch.step = "skill",
         step = "session" => launch.step = "materialize",
         step = "failing" => launch.step \in AllocatedSteps
  PROVE  IInv'
  <1> USE DEF IInv
  <1>1. /\ launch'.step = step /\ launch'.attempt = launch.attempt /\ launch'.task = launch.task
        /\ launch' \in LaunchRecords
    BY StepTo DEF AllocatedSteps
  <1>2. AttemptsMade' = AttemptsMade /\ IsCompleted' = IsCompleted /\ AttemptsMade \in Nat
    BY AttemptsAreNumbers DEF AttemptsMade, IsCompleted
  <1>3. ThreadsInv' /\ TaskInv' /\ GrantInv'
    BY <1>2, ContinuationKept DEF threadVars, continuationVars
  <1>4. HandoffInv'
    BY <1>2 DEF HandoffInv, IsResult, CompressionTurn
  <1>5. active = Null /\ handoff = NoHandoff /\ ~IsCompleted
    BY DEF LaunchInv
  <1>6. \A t \in HostThreads : IsFor(t, launch.attempt)' <=> IsFor(t, launch.attempt)
    BY <1>1 DEF IsFor
  <1>7. LaunchInv'
    <2>1. step \in {"materialize", "session", "turn"} =>
            \A t \in HostThreads : ~IsFor(t, launch.attempt)'
      BY <1>6 DEF LaunchInv
    <2>2. step \in AllocatedSteps => journal # Null /\ launch.attempt = journal.attempt
      BY DEF LaunchInv, AllocatedSteps
    <2>3. step \in {"skill", "allocate"} => launch.attempt = AttemptsMade + 1
      BY DEF LaunchInv
    <2> QED
      BY <1>1, <1>2, <1>5, <2>1, <2>2, <2>3 DEF LaunchInv, IsFor
  <1>8. LaunchTypeOK' /\ ThreadsApart'
    BY <1>1 DEF LaunchTypeOK, ThreadsApart
  <1> QED
    BY <1>3, <1>4, <1>7, <1>8

LEMMA FoldersAreNumbers == IInv => FoldersInv /\ folders \subseteq Nat
  BY DEF IInv, LaunchTypeOK

LEMMA QuietStartsKeep ==
  /\ SkillsAnswered \/ AllocationFails \/ Materialize \/ MaterializeFails \/ LaunchIsNotWritten
  /\ IInv /\ UNCHANGED continuationVars
  => IInv'
  <1> SUFFICES ASSUME IInv, UNCHANGED continuationVars,
                      \/ SkillsAnswered \/ AllocationFails \/ Materialize \/ MaterializeFails
                      \/ LaunchIsNotWritten
               PROVE IInv'
    OBVIOUS
  <1>1. CASE SkillsAnswered
    <2>1. PICK step \in {"idle", "allocate"} : Step(step)
      BY <1>1 DEF SkillsAnswered
    <2> QED
      BY <1>1, <2>1, StepKeeps, FoldersAreNumbers DEF SkillsAnswered, threadVars, continuationVars, FoldersInv
  <1>2. CASE AllocationFails
    BY <1>2, StepKeeps, FoldersAreNumbers DEF AllocationFails, threadVars, continuationVars, FoldersInv
  <1>3. CASE Materialize
    <2>1. PICK step \in {"session", "failing"} : Step(step)
      BY <1>3 DEF Materialize
    <2>2. launch.attempt \in Nat /\ journal # Null /\ launch.attempt = journal.attempt
      BY <1>3 DEF Materialize, IInv, LaunchTypeOK, LaunchRecords, LaunchInv, AllocatedSteps
    <2>3. folders' \subseteq Nat /\ FoldersInv'
      BY <1>3, <2>2, FoldersAreNumbers DEF Materialize, FoldersInv
    <2> QED
      BY <1>3, <2>1, <2>3, StepKeeps DEF Materialize, threadVars, continuationVars, AllocatedSteps
  <1>4. CASE MaterializeFails
    BY <1>4, StepKeeps, FoldersAreNumbers
    DEF MaterializeFails, threadVars, continuationVars, FoldersInv, AllocatedSteps
  <1>5. CASE LaunchIsNotWritten
    BY <1>5, StepKeeps, FoldersAreNumbers
    DEF LaunchIsNotWritten, threadVars, continuationVars, FoldersInv, AllocatedSteps
  <1> QED
    BY <1>1, <1>2, <1>3, <1>4, <1>5

LEMMA WriteAllocatedKeeps == IInv /\ WriteAllocated /\ UNCHANGED continuationVars => IInv'
  <1> SUFFICES ASSUME IInv, WriteAllocated, UNCHANGED continuationVars PROVE IInv'
    OBVIOUS
  <1> USE DEF IInv
  <1>1. /\ UNCHANGED <<thread, connected, folders, active, handoff, answered, task, grant>>
        /\ launch.step = "allocate" /\ Step("materialize") /\ journal' = Record("ALLOCATED", Null, Null)
    BY DEF WriteAllocated, threadVars, continuationVars
  <1>2. launch.attempt = AttemptsMade + 1 /\ ~IsCompleted /\ active = Null /\ handoff = NoHandoff
        /\ AttemptsMade \in Nat
    BY <1>1, AttemptsAreNumbers DEF LaunchInv
  <1>3. /\ journal' \in JournalRecords /\ journal' # Null /\ journal'.attempt = launch.attempt
        /\ AttemptsMade' = launch.attempt /\ ~IsCompleted'
    BY <1>1, RecordFacts
  <1>4. /\ launch'.step = "materialize" /\ launch'.attempt = launch.attempt
        /\ launch' \in LaunchRecords
    BY <1>1, StepTo DEF AllocatedSteps
  <1>5. ThreadsInv' /\ TaskInv' /\ GrantInv'
    BY <1>2, <1>3, ContinuationKept DEF WriteAllocated
  <1>6. \A t \in HostThreads : ~IsFor(t, launch.attempt)'
    <2> TAKE t \in HostThreads
    <2>1. IsFor(t, launch.attempt)' => IsFor(t, launch.attempt)
      BY <1>1, <1>4 DEF IsFor
    <2>2. IsFor(t, launch.attempt) => launch.attempt <= AttemptsMade
      BY <1>2 DEF ThreadsInv
    <2> QED
      BY <1>2, <2>1, <2>2
  <1>7. LaunchInv'
    BY <1>1, <1>2, <1>3, <1>4, <1>6 DEF LaunchInv
  <1>8. HandoffInv'
    BY <1>1, <1>2, <1>3, NullFacts DEF HandoffInv, NoHandoff
  <1>9. FoldersInv'
    <2> SUFFICES ASSUME NEW n \in folders PROVE n <= launch.attempt
      BY <1>1, <1>3 DEF FoldersInv
    <2>1. journal # Null /\ n <= AttemptsMade /\ n \in Nat
      BY LaunchFacts DEF FoldersInv, LaunchTypeOK
    <2> QED
      BY <1>2, <2>1
  <1>10. LaunchTypeOK' /\ ThreadsApart'
    BY <1>1, <1>3, <1>4 DEF LaunchTypeOK, ThreadsApart
  <1> QED
    BY <1>5, <1>7, <1>8, <1>9, <1>10

LEMMA WriteLaunchedKeeps == IInv /\ WriteLaunched /\ UNCHANGED continuationVars => IInv'
  <1> SUFFICES ASSUME IInv, WriteLaunched, UNCHANGED continuationVars PROVE IInv'
    OBVIOUS
  <1> USE DEF IInv
  <1>1. /\ UNCHANGED <<thread, connected, folders, handoff, answered, task, grant>>
        /\ launch.step = "launching" /\ Step("launched") /\ active' = launch.task
        /\ journal' = Record("LAUNCHED", launch.task, Null)
    BY DEF WriteLaunched, threadVars, continuationVars
  <1>2. /\ journal # Null /\ launch.attempt = AttemptsMade /\ ~IsCompleted /\ handoff = NoHandoff
        /\ AttemptsMade \in Nat /\ launch.task \in HostThreads /\ thread[launch.task].turns # << >>
    BY <1>1, LaunchFacts DEF LaunchInv, AllocatedSteps
  <1>3. /\ journal' \in JournalRecords /\ journal' # Null /\ journal'.attempt = launch.attempt
        /\ AttemptsMade' = launch.attempt /\ ~IsCompleted'
    BY <1>1, <1>2, RecordFacts
  <1>4. /\ launch'.step = "launched" /\ launch'.attempt = launch.attempt
        /\ launch' \in LaunchRecords
    BY <1>1, StepTo DEF AllocatedSteps
  <1>5. ThreadsInv' /\ TaskInv' /\ GrantInv'
    BY <1>2, <1>3, ContinuationKept DEF WriteLaunched
  <1>6. LaunchInv'
    BY <1>3, <1>4 DEF LaunchInv
  <1>7. HandoffInv'
    BY <1>1, <1>2, <1>3, NullFacts DEF HandoffInv, NoHandoff
  <1>8. FoldersInv'
    BY <1>1, <1>2, <1>3, LaunchFacts DEF FoldersInv
  <1>9. LaunchTypeOK' /\ ThreadsApart'
    BY <1>1, <1>2, <1>3, <1>4 DEF LaunchTypeOK, ThreadsApart
  <1> QED
    BY <1>5, <1>6, <1>7, <1>8, <1>9

LEMMA StartFailsKeeps == IInv /\ StartFails /\ UNCHANGED continuationVars => IInv'
  <1> SUFFICES ASSUME IInv, StartFails, UNCHANGED continuationVars PROVE IInv'
    OBVIOUS
  <1> USE DEF IInv
  <1>1. /\ UNCHANGED <<thread, connected, folders, active, handoff, answered, task, grant>>
        /\ launch.step = "failing" /\ launch' = NoLaunch
        /\ journal' = journal \/ journal' = Record("FAILED", Null, Null)
    BY DEF StartFails, threadVars, continuationVars
  <1>2. /\ journal # Null /\ launch.attempt = AttemptsMade /\ ~IsCompleted
        /\ active = Null /\ handoff = NoHandoff /\ AttemptsMade \in Nat /\ journal.attempt = AttemptsMade
    BY <1>1, LaunchFacts DEF LaunchInv, AllocatedSteps
  <1>3. /\ journal' \in JournalRecords \cup {Null} /\ journal' # Null /\ journal'.attempt = launch.attempt
        /\ AttemptsMade' = launch.attempt /\ ~IsCompleted'
    <2>1. CASE journal' = journal
      BY <1>2, <2>1 DEF AttemptsMade, IsCompleted, LaunchTypeOK
    <2>2. CASE journal' = Record("FAILED", Null, Null)
      BY <2>2, RecordFacts
    <2> QED
      BY <1>1, <2>1, <2>2
  <1>4. ThreadsInv' /\ TaskInv' /\ GrantInv'
    BY <1>2, <1>3, ContinuationKept DEF StartFails
  <1>5. LaunchInv'
    BY <1>1, <1>2 DEF LaunchInv, NoLaunch, AllocatedSteps
  <1>6. HandoffInv'
    BY <1>1, <1>2, <1>3, NullFacts DEF HandoffInv, NoHandoff
  <1>7. FoldersInv'
    BY <1>1, <1>2, <1>3 DEF FoldersInv
  <1>8. LaunchTypeOK' /\ ThreadsApart'
    BY <1>1, <1>3 DEF LaunchTypeOK, ThreadsApart, NoLaunch, LaunchRecords
  <1> QED
    BY <1>4, <1>5, <1>6, <1>7, <1>8

-----------------------------------------------------------------------------
(* The steps of a handoff: the start is over, and kept.                          *)

LEMMA StartIsOver ==
  ASSUME IInv, active # Null
  PROVE  /\ launch.step = "launched" /\ journal # Null /\ launch.attempt = journal.attempt
         /\ AttemptsMade = journal.attempt /\ AttemptsMade \in Nat /\ active \in HostThreads
         /\ ~IsCompleted /\ answered = {} /\ thread[active].turns # << >>
  BY LaunchFacts DEF IInv, LaunchInv, AllocatedSteps, HandoffInv, LaunchTypeOK

LEMMA PromiseKeeps ==
  ASSUME IInv, UNCHANGED <<journal, folders, launch, active, threadVars, continuationVars>>,
         handoff' \in HandoffRecords, answered' \subseteq HandoffReceipts, HandoffInv',
         launch.step # "launched" => handoff' = handoff
  PROVE  IInv'
  <1> USE DEF IInv
  <1>1. UNCHANGED <<thread, connected, task, grant>>
    BY DEF threadVars, continuationVars
  <1>2. AttemptsMade' = AttemptsMade /\ IsCompleted' = IsCompleted /\ AttemptsMade \in Nat
    BY AttemptsAreNumbers DEF AttemptsMade, IsCompleted
  <1>3. ThreadsInv' /\ TaskInv' /\ GrantInv'
    BY <1>2, ContinuationKept
  <1>4. LaunchInv'
    BY <1>1, <1>2 DEF LaunchInv, IsFor, IsAsked
  <1>5. LaunchTypeOK' /\ ThreadsApart' /\ FoldersInv'
    BY <1>1 DEF LaunchTypeOK, ThreadsApart, FoldersInv
  <1> QED
    BY <1>3, <1>4, <1>5

LEMMA AwaitHandoffKeeps == IInv /\ AwaitHandoff /\ UNCHANGED continuationVars => IInv'
  <1> SUFFICES ASSUME IInv, AwaitHandoff, UNCHANGED continuationVars PROVE IInv'
    OBVIOUS
  <1>1. handoff' = [step |-> "waiting", receipt |-> Null] /\ active # Null
    BY DEF AwaitHandoff, NoHandoff
  <1>2. handoff' \in HandoffRecords
    BY <1>1 DEF HandoffRecords, HandoffStates
  <1>3. HandoffInv'
    BY <1>1 DEF IInv, AwaitHandoff, HandoffInv, IsCompleted, threadVars, IsResult, CompressionTurn
  <1> QED
    BY <1>1, <1>2, <1>3, StartIsOver, PromiseKeeps DEF AwaitHandoff, IInv, LaunchTypeOK

LEMMA ReplayHandoffKeeps == IInv /\ ReplayHandoff /\ UNCHANGED continuationVars => IInv'
  <1> SUFFICES ASSUME IInv, ReplayHandoff, UNCHANGED continuationVars PROVE IInv'
    OBVIOUS
  <1>1. IsCompleted /\ journal.receipt # Null /\ answered' = {journal.receipt}
    BY DEF ReplayHandoff, IInv, HandoffInv
  <1>2. journal.receipt \in HandoffReceipts
    BY <1>1, LaunchFacts DEF IInv, JournalRecords
  <1>3. HandoffInv'
    BY <1>1 DEF IInv, ReplayHandoff, HandoffInv, IsCompleted, threadVars, IsResult, CompressionTurn
  <1> QED
    BY <1>1, <1>2, <1>3, PromiseKeeps DEF ReplayHandoff, IInv, LaunchTypeOK

LEMMA HandoffToldKeeps == IInv /\ HandoffTold /\ UNCHANGED continuationVars => IInv'
  <1> SUFFICES ASSUME IInv, HandoffTold, UNCHANGED continuationVars PROVE IInv'
    OBVIOUS
  <1>1. active # Null /\ active \in HostThreads /\ thread[active].turns # << >>
    BY NullFacts, StartIsOver DEF HandoffTold, IInv, HandoffInv
  <1>2. CASE IsAcceptable(active) /\ handoff' = [step |-> "writing", receipt |-> Receipt(active)]
    <2>1. /\ Receipt(active) \in HandoffReceipts
          /\ Receipt(active).task = active
          /\ Receipt(active).address = Result(thread[active].turns[1].items)
      BY <1>1, <1>2 DEF Receipt, HandoffReceipts, IsAcceptable, HasResult, CompressionTurn
    <2>2. IsResult(Receipt(active))
      BY <1>1, <1>2, <2>1 DEF IsResult, IsAcceptable, CompressionTurn
    <2>3. handoff' \in HandoffRecords /\ handoff'.receipt = Receipt(active) /\ handoff'.step = "writing"
      BY <1>2, <2>1 DEF HandoffRecords, HandoffStates
    <2>4. IsResult(handoff.receipt)'
      BY <2>2, <2>3 DEF IsResult, CompressionTurn, HandoffTold, threadVars
    <2>5. Receipt(active) # Null
      BY <2>1, NullFacts
    <2>6. HandoffInv'
      BY <1>1, <2>3, <2>4, <2>5
      DEF IInv, HandoffTold, HandoffInv, IsCompleted, threadVars, IsResult, CompressionTurn
    <2> QED
      BY <1>1, <2>3, <2>6, StartIsOver, PromiseKeeps DEF HandoffTold, IInv, LaunchTypeOK
  <1>3. CASE handoff' = [step |-> "failing", receipt |-> Null]
    <2>1. handoff' \in HandoffRecords
      BY <1>3 DEF HandoffRecords, HandoffStates
    <2>2. HandoffInv'
      BY <1>1, <1>3 DEF IInv, HandoffTold, HandoffInv, IsCompleted, threadVars, IsResult, CompressionTurn
    <2> QED
      BY <1>1, <2>1, <2>2, StartIsOver, PromiseKeeps DEF HandoffTold, IInv, LaunchTypeOK
  <1> QED
    BY <1>2, <1>3 DEF HandoffTold

LEMMA CompletionIsNotWrittenKeeps == IInv /\ CompletionIsNotWritten /\ UNCHANGED continuationVars => IInv'
  <1> SUFFICES ASSUME IInv, CompletionIsNotWritten, UNCHANGED continuationVars PROVE IInv'
    OBVIOUS
  <1>1. active # Null /\ handoff' = [step |-> "failing", receipt |-> Null]
    BY DEF CompletionIsNotWritten, IInv, HandoffInv
  <1>2. handoff' \in HandoffRecords
    BY <1>1 DEF HandoffRecords, HandoffStates
  <1>3. HandoffInv'
    BY <1>1 DEF IInv, CompletionIsNotWritten, HandoffInv, IsCompleted, threadVars, IsResult, CompressionTurn
  <1> QED
    BY <1>1, <1>2, <1>3, StartIsOver, PromiseKeeps DEF CompletionIsNotWritten, IInv, LaunchTypeOK

LEMMA WriteCompletedKeeps == IInv /\ WriteCompleted /\ UNCHANGED continuationVars => IInv'
  <1> SUFFICES ASSUME IInv, WriteCompleted, UNCHANGED continuationVars PROVE IInv'
    OBVIOUS
  <1> USE DEF IInv
  <1>1. /\ UNCHANGED <<thread, connected, folders, launch, task, grant>>
        /\ active' = Null /\ journal' = Record("COMPLETED", active, handoff.receipt)
        /\ handoff' = [handoff EXCEPT !.step = "settled"]
        /\ answered' = answered \cup {handoff.receipt}
    BY DEF WriteCompleted, threadVars, continuationVars
  <1>2. active # Null /\ handoff.receipt # Null /\ IsResult(handoff.receipt)
        /\ handoff.receipt \in HandoffReceipts
    BY DEF WriteCompleted, HandoffInv, LaunchTypeOK, HandoffRecords
  <1>3. /\ launch.step = "launched" /\ launch.attempt = AttemptsMade /\ AttemptsMade \in Nat
        /\ active \in HostThreads /\ answered = {} /\ journal # Null /\ journal.attempt = AttemptsMade
    BY <1>2, StartIsOver
  <1>4. /\ journal' \in JournalRecords /\ journal' # Null /\ journal'.attempt = launch.attempt
        /\ AttemptsMade' = launch.attempt /\ IsCompleted' /\ journal'.receipt = handoff.receipt
    BY <1>1, <1>2, <1>3, RecordFacts
  <1>5. /\ handoff' \in HandoffRecords /\ handoff'.step = "settled"
    BY <1>1 DEF LaunchTypeOK, HandoffRecords, HandoffStates
  <1>6. ThreadsInv' /\ TaskInv' /\ GrantInv'
    BY <1>3, <1>4, ContinuationKept DEF WriteCompleted
  <1>7. LaunchInv'
    BY <1>1, <1>3, <1>4 DEF LaunchInv
  <1>8. HandoffInv'
    <2>1. IsResult(journal.receipt)'
      BY <1>1, <1>2, <1>4 DEF IsResult, CompressionTurn
    <2> QED
      BY <1>1, <1>2, <1>3, <1>4, <1>5, <2>1 DEF HandoffInv
  <1>9. FoldersInv'
    BY <1>1, <1>3, <1>4 DEF FoldersInv
  <1>10. LaunchTypeOK' /\ ThreadsApart'
    BY <1>1, <1>2, <1>4, <1>5 DEF LaunchTypeOK, ThreadsApart
  <1> QED
    BY <1>6, <1>7, <1>8, <1>9, <1>10

LEMMA HandoffFailsKeeps == IInv /\ HandoffFails /\ UNCHANGED continuationVars => IInv'
  <1> SUFFICES ASSUME IInv, HandoffFails, UNCHANGED continuationVars PROVE IInv'
    OBVIOUS
  <1> USE DEF IInv
  <1>1. /\ UNCHANGED <<thread, connected, folders, launch, answered, task, grant>>
        /\ active' = Null /\ handoff' = [handoff EXCEPT !.step = "settled"]
        /\ journal' = journal \/ journal' = Record("FAILED", active, Null)
    BY DEF HandoffFails, threadVars, continuationVars
  <1>2. active # Null
    BY DEF HandoffFails, HandoffInv
  <1>3. /\ launch.step = "launched" /\ launch.attempt = AttemptsMade /\ AttemptsMade \in Nat
        /\ active \in HostThreads /\ answered = {} /\ journal # Null /\ journal.attempt = AttemptsMade
        /\ ~IsCompleted
    BY <1>2, StartIsOver
  <1>4. /\ journal' \in JournalRecords \cup {Null} /\ journal' # Null /\ journal'.attempt = launch.attempt
        /\ AttemptsMade' = launch.attempt /\ ~IsCompleted'
    <2>1. CASE journal' = journal
      BY <1>3, <2>1 DEF AttemptsMade, IsCompleted, LaunchTypeOK
    <2>2. CASE journal' = Record("FAILED", active, Null)
      BY <1>3, <2>2, RecordFacts
    <2> QED
      BY <1>1, <2>1, <2>2
  <1>5. /\ handoff' \in HandoffRecords /\ handoff'.step = "settled"
    BY <1>1 DEF LaunchTypeOK, HandoffRecords, HandoffStates
  <1>6. ThreadsInv' /\ TaskInv' /\ GrantInv'
    BY <1>3, <1>4, ContinuationKept DEF HandoffFails
  <1>7. LaunchInv'
    BY <1>1, <1>3, <1>4 DEF LaunchInv
  <1>8. HandoffInv'
    BY <1>1, <1>3, <1>4, <1>5 DEF HandoffInv
  <1>9. FoldersInv'
    BY <1>1, <1>3, <1>4 DEF FoldersInv
  <1>10. LaunchTypeOK' /\ ThreadsApart'
    BY <1>1, <1>4, <1>5 DEF LaunchTypeOK, ThreadsApart
  <1> QED
    BY <1>6, <1>7, <1>8, <1>9, <1>10
-----------------------------------------------------------------------------
(* The steps of a start that change its thread.                                 *)

(* What they all leave alone, once the threads are known to be in order.          *)
LEMMA ThreadStepKeeps ==
  ASSUME IInv, NEW t \in HostThreads, OnlyAt(t), Grows(t), ThreadsInv', LaunchInv', ThreadsApart',
         UNCHANGED <<connected, journal, folders, active, handoff, answered, task, grant>>,
         launch' \in LaunchRecords, task.step \in {"turn", "turn_asked", "active"} => task.thread # t
  PROVE  IInv'
  <1> USE DEF IInv
  <1>1. \A u \in HostThreads : Grows(u)
    BY OthersMove
  <1>2. HandoffInv'
    BY <1>1, HandoffKept
  <1>3. task.step \in {"turn", "turn_asked", "active"} => Moves(task.thread)
    BY OthersMove DEF TaskInv
  <1>4. TaskInv' /\ GrantInv'
    <2>1. \A u \in HostThreads : ThreadOK(thread'[u])
      BY DEF ThreadsInv
    <2> QED
      BY <1>3, <2>1, TaskKept, GrantKept
  <1>5. LaunchTypeOK' /\ FoldersInv'
    BY DEF LaunchTypeOK, FoldersInv, OnlyAt
  <1> QED
    BY <1>2, <1>4, <1>5

LEMMA SessionAnsweredKeeps == IInv /\ SessionAnswered /\ UNCHANGED continuationVars => IInv'
  <1> SUFFICES ASSUME IInv, SessionAnswered, UNCHANGED continuationVars PROVE IInv'
    OBVIOUS
  <1> USE DEF IInv
  <1>1. /\ UNCHANGED <<connected, journal, folders, active, handoff, answered, task, grant>>
        /\ launch.step = "session"
    BY DEF SessionAnswered, continuationVars
  <1>2. PICK root \in RootAnswers :
          IF connected /\ IsNewRoot(root)
          THEN /\ thread' = WithSession(root.id)
               /\ launch' = [launch EXCEPT !.step = "turn", !.task = root.id]
          ELSE UNCHANGED thread /\ Step("failing")
    BY DEF SessionAnswered
  <1>3. CASE ~(connected /\ IsNewRoot(root))
    <2>1. FoldersInv' /\ folders' \subseteq Nat
      BY <1>1, FoldersAreNumbers DEF FoldersInv
    <2> QED
      BY <1>1, <1>2, <1>3, <2>1, StepKeeps DEF AllocatedSteps
  <1>4. CASE connected /\ IsNewRoot(root)
    <2> DEFINE t == root.id
    <2>1. t \in HostThreads /\ thread[t].phase = Null /\ thread[t].asked = Null /\ thread[t].turns = << >>
      BY <1>4, NewRootFacts
    <2>2. OnlyAt(t) /\ thread'[t].phase = "ready" /\ thread'[t].asked = Null /\ thread'[t].turns = << >>
      BY <1>2, <1>4, <2>1, SessionThread
    <2>3. ThreadOK(thread'[t]) /\ \A n \in Nat : IsFor(t, n)' => IsFor(t, n)
      BY <2>2, NullFacts DEF ThreadOK, IsFor
    <2>4. AttemptsMade' = AttemptsMade /\ IsCompleted' = IsCompleted
      BY <1>1 DEF AttemptsMade, IsCompleted
    <2>5. ThreadsInv' /\ \A u \in HostThreads, n \in Nat : IsFor(u, n)' => IsFor(u, n)
      BY <2>1, <2>2, <2>3, <2>4, OneThread
    <2>6. /\ launch'.step = "turn" /\ launch'.attempt = launch.attempt /\ launch'.task = t
          /\ launch' \in LaunchRecords /\ launch.attempt \in Nat
      BY <1>2, <1>4, <2>1 DEF LaunchTypeOK, LaunchRecords, AllocatedSteps
    <2>7. \A u \in HostThreads : ~IsFor(u, launch.attempt)'
      BY <1>1, <2>5, <2>6 DEF LaunchInv
    <2>8. LaunchInv'
      BY <1>1, <2>1, <2>2, <2>4, <2>6, <2>7, NullFacts DEF LaunchInv, AllocatedSteps
    <2>9. task.step \in {"turn", "turn_asked", "active"} => task.thread # t
      BY <2>1 DEF TaskInv
    <2>10. ThreadsApart'
      BY <1>1, <2>6, <2>9 DEF ThreadsApart
    <2>11. Grows(t)
      BY <2>1, <2>2, SameTurnsGrow
    <2> QED
      BY <1>1, <2>1, <2>2, <2>5, <2>6, <2>8, <2>9, <2>10, <2>11, ThreadStepKeeps
  <1> QED
    BY <1>3, <1>4

LEMMA TurnIsRecord ==
  /\ \A n \in Nat : Turn("workspaceWrite", <<"attempt", n>>) \in TurnRecords
  /\ \A n \in Nat : Turn("workspaceWrite", <<"epoch", n>>) \in TurnRecords
  /\ Turn("readOnly", << >>) \in TurnRecords
  BY DEF Turn, TurnRecords

LEMMA AskTurnKeeps == IInv /\ AskTurn /\ UNCHANGED continuationVars => IInv'
  <1> SUFFICES ASSUME IInv, AskTurn, UNCHANGED continuationVars PROVE IInv'
    OBVIOUS
  <1> USE DEF IInv
  <1>1. /\ UNCHANGED <<connected, journal, folders, active, handoff, answered, task, grant>>
        /\ launch.step = "turn" /\ journal # Null
    BY LaunchFacts DEF AskTurn, continuationVars, LaunchInv, AllocatedSteps
  <1>2. PICK t \in HostThreads : t = launch.task
    BY <1>1 DEF LaunchInv
  <1>3. PICK number \in Nat : number = launch.attempt /\ number = AttemptsMade /\ number = journal.attempt
    BY <1>1, LaunchFacts DEF LaunchInv, AllocatedSteps
  <1> DEFINE work == Turn("workspaceWrite", <<"attempt", number>>)
  <1>4. CASE UNCHANGED thread /\ Step("failing")
    <2>1. FoldersInv' /\ folders' \subseteq Nat
      BY <1>1, FoldersAreNumbers DEF FoldersInv
    <2> QED
      BY <1>1, <1>4, <2>1, StepKeeps DEF AllocatedSteps
  <1>5. CASE MayAskTurn(t, CompressionRequest) /\ thread' = TurnAsked(t, work) /\ Step("turn_asked")
    <2>1. thread[t].phase = "ready" /\ thread[t].turns = << >> /\ thread[t].asked = Null
      BY <1>1, <1>2, <1>5 DEF MayAskTurn, LaunchInv, ThreadsInv, ThreadOK
    <2>2. /\ work \in TurnRecords /\ work # Null
          /\ work.sandbox = "workspaceWrite" /\ work.root = <<"attempt", number>>
      BY TurnIsRecord, NullFacts DEF Turn
    <2>3. OnlyAt(t) /\ thread'[t].phase = "starting" /\ thread'[t].asked = work /\ thread'[t].turns = << >>
      BY <1>5, <2>1, <2>2, AskedThread
    <2> HIDE DEF work
    <2>4. ThreadOK(thread'[t])
      BY <2>2, <2>3, NullFacts DEF ThreadOK, IsForAttempt
    <2>5. \A n \in Nat : IsFor(t, n)' => n = number
      <3>1. \A n \in Nat : IsFor(t, n)' => <<"attempt", number>> = <<"attempt", n>>
        BY <2>2, <2>3 DEF IsFor
      <3> QED
        BY <3>1, RootFacts
    <2>6. AttemptsMade' = number /\ AttemptsMade = number /\ IsCompleted' = IsCompleted
      BY <1>1, <1>3 DEF AttemptsMade, IsCompleted
    <2>7. \A u \in HostThreads, n \in Nat : u # t => (IsFor(u, n)' <=> IsFor(u, n))
      BY <2>3 DEF OnlyAt, IsFor
    <2>8. \A u \in HostThreads : ~IsFor(u, number)
      BY <1>1, <1>3 DEF LaunchInv
    <2>9. ThreadsInv'
      <3>1. \A u \in HostThreads : ThreadOK(thread'[u])
        BY <2>3, <2>4 DEF OnlyAt, ThreadsInv
      <3>2. \A u \in HostThreads, n \in Nat : IsFor(u, n)' => n <= AttemptsMade'
        <4> TAKE u \in HostThreads, n \in Nat
        <4> HAVE IsFor(u, n)'
        <4>1. CASE u = t
          <5>1. n = number
            BY <2>5, <4>1
          <5>2. n <= number
            BY <5>1
          <5> QED
            BY <2>6, <5>2
        <4>2. CASE u # t
          <5>1. n <= AttemptsMade
            BY <2>7, <4>2 DEF ThreadsInv
          <5> QED
            BY <2>6, <5>1
        <4> QED
          BY <4>1, <4>2
      <3>3. \A u, v \in HostThreads, n \in Nat : IsFor(u, n)' /\ IsFor(v, n)' => u = v
        BY <2>5, <2>7, <2>8 DEF ThreadsInv
      <3> QED
        BY <3>1, <3>2, <3>3 DEF ThreadsInv
    <2>10. /\ launch'.step = "turn_asked" /\ launch'.attempt = number /\ launch'.task = t
           /\ launch' \in LaunchRecords
      BY <1>2, <1>3, <1>5, StepTo DEF AllocatedSteps
    <2>11. IsAsked(launch.task, 0)'
      BY <2>2, <2>3, <2>10 DEF IsAsked
    <2>12. LaunchInv'
      BY <1>1, <1>3, <2>3, <2>6, <2>10, <2>11, NullFacts DEF LaunchInv, AllocatedSteps
    <2>13. task.step \in {"turn", "turn_asked", "active"} => task.thread # t
      BY <1>1, <1>2 DEF ThreadsApart
    <2>14. ThreadsApart'
      BY <1>1, <2>10, <2>13 DEF ThreadsApart
    <2>15. Grows(t)
      BY <2>1, <2>3, SameTurnsGrow
    <2> QED
      BY <1>1, <2>3, <2>9, <2>10, <2>12, <2>13, <2>14, <2>15, ThreadStepKeeps
  <1> QED
    BY <1>2, <1>3, <1>4, <1>5 DEF AskTurn, CompressionRequest

LEMMA OneIsSome == \A s : Len(s) = 1 => s # << >>
  OBVIOUS

(* The start is answered, or given up.                                          *)
LEMMA LaunchAnsweredKeeps ==
  ASSUME IInv, launch.step = "turn_asked", NEW step \in {"launching", "failing"}, Step(step),
         UNCHANGED <<connected, journal, folders, active, handoff, answered, task, grant>>,
         OnlyAt(launch.task), Grows(launch.task),
         thread'[launch.task].asked = thread[launch.task].asked,
         Len(thread'[launch.task].turns) = Len(thread[launch.task].turns),
         step = "launching" => thread[launch.task].turns # << >>,
         \/ thread'[launch.task].phase = "failed"
         \/ thread'[launch.task].phase \in {"active", "terminal"} /\ thread[launch.task].asked = Null
  PROVE  IInv'
  <1> USE DEF IInv
  <1> DEFINE t == launch.task
  <1>1. t \in HostThreads
    BY DEF LaunchInv
  <1>2. ThreadOK(thread'[t]) /\ \A n \in Nat : IsFor(t, n)' => IsFor(t, n)
    <2>1. ThreadOK(thread[t]) /\ thread'[t] \in ThreadRecords
      BY <1>1 DEF ThreadsInv, OnlyAt
    <2>2. \A x \in HostThreads : x = t => ThreadOK(thread'[x]) /\ \A n \in Nat : IsFor(x, n)' => IsFor(x, n)
      BY <2>1, AnsweredThread
    <2>3. launch'.task = t
      BY StepTo DEF AllocatedSteps
    <2> QED
      BY <1>1, <2>2, <2>3
  <1>3. AttemptsMade' = AttemptsMade /\ IsCompleted' = IsCompleted
    BY DEF AttemptsMade, IsCompleted
  <1>4. ThreadsInv'
    <2>1. PICK x \in HostThreads : x = t
      BY <1>1
    <2>2. launch'.task = t
      BY StepTo DEF AllocatedSteps
    <2>3. ThreadOK(thread'[x]) /\ OnlyAt(x) /\ \A n \in Nat : IsFor(x, n)' => IsFor(x, n)
      BY <1>2, <2>1, <2>2
    <2> QED
      BY <1>3, <2>3, OneThread
  <1>5. /\ launch'.step = step /\ launch'.attempt = launch.attempt /\ launch'.task = t
        /\ launch' \in LaunchRecords
    BY StepTo DEF AllocatedSteps
  <1>6. step = "launching" => thread'[t].turns # << >>
    BY <1>1, GrownFirst
  <1>7. LaunchInv'
    BY <1>1, <1>3, <1>5, <1>6 DEF LaunchInv, AllocatedSteps
  <1>8. task.step \in {"turn", "turn_asked", "active"} => task.thread # t
    BY DEF ThreadsApart
  <1>9. ThreadsApart'
    BY <1>5 DEF ThreadsApart
  <1> QED
    BY <1>1, <1>4, <1>5, <1>7, <1>8, <1>9, ThreadStepKeeps

LEMMA TurnAnsweredKeeps == IInv /\ TurnAnswered /\ UNCHANGED continuationVars => IInv'
  <1> SUFFICES ASSUME IInv, TurnAnswered, UNCHANGED continuationVars PROVE IInv'
    OBVIOUS
  <1>1. /\ UNCHANGED <<connected, journal, folders, active, handoff, answered, task, grant>>
        /\ launch.step = "turn_asked" /\ connected /\ thread[launch.task].asked = Null
    BY DEF TurnAnswered, continuationVars
  <1>2. launch.task \in HostThreads /\ thread[launch.task].turns # << >>
    <2>1. launch.task \in HostThreads
      BY <1>1 DEF IInv, LaunchInv
    <2>2. IsAsked(launch.task, 0)
      BY <1>1 DEF IInv, LaunchInv
    <2>3. Len(thread[launch.task].turns) = 1
      BY <1>1, <2>2 DEF IsAsked
    <2> QED
      BY <2>1, <2>3, OneIsSome
  <1>3. CASE thread' = TurnActivated(launch.task) /\ Step("launching")
    BY <1>1, <1>2, <1>3, ActivatedThread, LaunchAnsweredKeeps DEF IInv
  <1>4. CASE thread' = TurnStartFailed(launch.task) /\ Step("failing")
    <2>1. /\ OnlyAt(launch.task) /\ thread'[launch.task].phase = "failed"
          /\ thread'[launch.task].asked = thread[launch.task].asked
          /\ thread'[launch.task].turns = thread[launch.task].turns
      BY <1>2, <1>4, FailedThread DEF IInv
    <2>2. Grows(launch.task)
      BY <1>2, <2>1, SameTurnsGrow DEF IInv
    <2> QED
      BY <1>1, <1>2, <1>4, <2>1, <2>2, LaunchAnsweredKeeps
  <1> QED
    BY <1>3, <1>4 DEF TurnAnswered

LEMMA TurnRefusedKeeps == IInv /\ TurnRefused /\ UNCHANGED continuationVars => IInv'
  <1> SUFFICES ASSUME IInv, TurnRefused, UNCHANGED continuationVars PROVE IInv'
    OBVIOUS
  <1>1. /\ UNCHANGED <<connected, journal, folders, active, handoff, answered, task, grant>>
        /\ launch.step = "turn_asked" /\ thread' = TurnStartFailed(launch.task) /\ Step("failing")
    BY DEF TurnRefused, continuationVars
  <1>2. launch.task \in HostThreads
    BY <1>1 DEF IInv, LaunchInv
  <1>3. /\ OnlyAt(launch.task) /\ thread'[launch.task].phase = "failed"
        /\ thread'[launch.task].asked = thread[launch.task].asked
        /\ thread'[launch.task].turns = thread[launch.task].turns
    BY <1>1, <1>2, FailedThread DEF IInv
  <1>4. Grows(launch.task)
    BY <1>2, <1>3, SameTurnsGrow DEF IInv
  <1> QED
    BY <1>1, <1>2, <1>3, <1>4, LaunchAnsweredKeeps

LEMMA CompressionKeeps == IInv /\ Compression => IInv'
  <1> SUFFICES ASSUME IInv, Compression PROVE IInv'
    OBVIOUS
  <1>1. UNCHANGED continuationVars
    BY DEF Compression
  <1>2. CASE Start \/ WriteAllocated \/ SessionAnswered \/ AskTurn \/ TurnAnswered \/ TurnRefused
             \/ WriteLaunched \/ StartFails
    BY <1>1, <1>2, StartKeeps, WriteAllocatedKeeps, SessionAnsweredKeeps, AskTurnKeeps, TurnAnsweredKeeps,
       TurnRefusedKeeps, WriteLaunchedKeeps, StartFailsKeeps
  <1>3. CASE \/ SkillsAnswered \/ AllocationFails \/ Materialize \/ MaterializeFails \/ LaunchIsNotWritten
    BY <1>1, <1>3, QuietStartsKeep
  <1>4. CASE AwaitHandoff \/ ReplayHandoff \/ HandoffSteps
    BY <1>1, <1>4, AwaitHandoffKeeps, ReplayHandoffKeeps, HandoffToldKeeps, WriteCompletedKeeps,
       CompletionIsNotWrittenKeeps, HandoffFailsKeeps DEF HandoffSteps
  <1> QED
    BY <1>2, <1>3, <1>4 DEF Compression, LaunchSteps

-----------------------------------------------------------------------------
(* The steps of the continuation launcher.                                     *)

(* What they leave alone, those that change no thread.                          *)
LEMMA QuietTaskKeeps ==
  ASSUME IInv, UNCHANGED <<threadVars, compressionVars>>, TaskInv', GrantInv', ThreadsApart',
         task' \in TaskRecords, grant' \in [Granters -> GrantRecords]
  PROVE  IInv'
  <1> USE DEF IInv
  <1>1. UNCHANGED <<thread, connected, journal, folders, launch, active, handoff, answered>>
    BY DEF threadVars, compressionVars
  <1>2. LaunchTypeOK'
    BY <1>1 DEF LaunchTypeOK
  <1>3. ThreadsInv'
    BY <1>1 DEF ThreadsInv, IsFor, AttemptsMade
  <1>4. LaunchInv' /\ FoldersInv'
    BY <1>1 DEF LaunchInv, IsFor, IsAsked, AttemptsMade, IsCompleted, FoldersInv
  <1>5. HandoffInv'
    BY <1>1 DEF HandoffInv, IsCompleted, IsResult, CompressionTurn
  <1> QED
    BY <1>2, <1>3, <1>4, <1>5

(* And those that change the thread of the task.                                *)
LEMMA TaskThreadKeeps ==
  ASSUME IInv, NEW t \in HostThreads, OnlyAt(t), Grows(t), ThreadOK(thread'[t]),
         \A n \in Nat : IsFor(t, n)' => IsFor(t, n),
         UNCHANGED <<connected, compressionVars>>, TaskInv', GrantInv', ThreadsApart',
         task' \in TaskRecords, grant' \in [Granters -> GrantRecords],
         launch.step \in {"turn", "turn_asked"} => launch.task # t
  PROVE  IInv'
  <1> USE DEF IInv
  <1>1. UNCHANGED <<journal, folders, launch, active, handoff, answered>>
    BY DEF compressionVars
  <1>2. AttemptsMade' = AttemptsMade
    BY <1>1 DEF AttemptsMade
  <1>3. ThreadsInv' /\ \A u \in HostThreads, n \in Nat : IsFor(u, n)' => IsFor(u, n)
    BY <1>2, OneThread
  <1>4. \A u \in HostThreads : Grows(u)
    BY OthersMove
  <1>5. launch.step \in {"turn", "turn_asked"} => Moves(launch.task)
    BY OthersMove DEF LaunchInv
  <1>6. LaunchInv' /\ HandoffInv'
    BY <1>1, <1>3, <1>4, <1>5, LaunchKept, HandoffKept
  <1>7. LaunchTypeOK' /\ FoldersInv'
    BY <1>1 DEF LaunchTypeOK, FoldersInv, OnlyAt
  <1> QED
    BY <1>3, <1>6, <1>7

LEMMA TaskFacts ==
  ASSUME LaunchTypeOK
  PROVE  /\ task \in TaskRecords /\ grant \in [Granters -> GrantRecords]
         /\ NoTask \in TaskRecords /\ NoGrant \in GrantRecords
         /\ Epoch \in Nat /\ Epoch # Null
  BY EpochAssumption, NullFacts DEF LaunchTypeOK, NoTask, NoGrant, TaskRecords, GrantRecords

(* A start that is forgotten.                                                  *)
LEMMA ForgottenTask ==
  ASSUME IInv, task' = NoTask, grant' = grant, task.ready # "receipt"
  PROVE  /\ TaskInv' /\ GrantInv' /\ ThreadsApart'
         /\ task' \in TaskRecords /\ grant' \in [Granters -> GrantRecords]
  <1>1. \A g \in Granters : grant[g].step = "idle"
    BY DEF IInv, TaskInv
  <1>2. TaskInv' /\ GrantInv'
    BY <1>1, NullFacts DEF TaskInv, GrantInv, NoTask
  <1> QED
    BY <1>2, TaskFacts DEF IInv, ThreadsApart, NoTask

LEMMA ReadHandoffKeeps ==
  ASSUME IInv, NEW c, ReadHandoff(c), UNCHANGED compressionVars
  PROVE  IInv'
  <1>1. /\ task.step = "idle" /\ task' = [task EXCEPT !.step = "root"] /\ grant' = grant
        /\ UNCHANGED <<thread, connected, launch>>
    BY DEF ReadHandoff, threadVars, compressionVars
  <1>2. /\ task \in TaskRecords /\ task' \in TaskRecords
        /\ task'.step = "root" /\ task'.ready = task.ready /\ task'.lease = task.lease
        /\ task'.phase = task.phase /\ task'.progress = task.progress /\ task'.thread = task.thread
    BY <1>1, TaskFacts DEF IInv, TaskRecords
  <1>3. TaskInv'
    BY <1>1, <1>2, NullFacts DEF IInv, TaskInv
  <1>4. GrantInv'
    BY <1>1, <1>2 DEF IInv, GrantInv, IsAsked
  <1>5. ThreadsApart'
    BY <1>1, <1>2 DEF ThreadsApart
  <1> QED
    BY <1>1, <1>2, <1>3, <1>4, <1>5, TaskFacts, QuietTaskKeeps DEF IInv, ReadHandoff

LEMMA RootAnsweredKeeps ==
  ASSUME IInv, NEW c, RootAnswered(c), UNCHANGED compressionVars
  PROVE  IInv'
  <1> USE DEF IInv
  <1>1. PICK root \in RootAnswers :
          LET isNew == connected /\ IsNewRoot(root)
          IN /\ thread' = IF isNew THEN WithSession(root.id) ELSE thread
             /\ task' = IF isNew /\ root.id # c
                        THEN [task EXCEPT !.step = "turn", !.thread = root.id]
                        ELSE NoTask
    BY DEF RootAnswered
  <1>2. /\ task.step = "root" /\ grant' = grant /\ connected' = connected /\ launch' = launch
        /\ task.ready = Null /\ task.ready # "receipt"
    BY NullFacts DEF RootAnswered, compressionVars, TaskInv
  <1>3. CASE ~(connected /\ IsNewRoot(root))
    BY <1>1, <1>2, <1>3, ForgottenTask, QuietTaskKeeps DEF threadVars
  <1>4. CASE connected /\ IsNewRoot(root)
    <2>1. PICK t \in HostThreads : t = root.id
      BY <1>4, NewRootFacts
    <2>2. thread[t].phase = Null /\ thread[t].asked = Null /\ thread[t].turns = << >>
      BY <1>4, <2>1, NewRootFacts
    <2>3. OnlyAt(t) /\ thread'[t].phase = "ready" /\ thread'[t].asked = Null /\ thread'[t].turns = << >>
      BY <1>1, <1>4, <2>1, <2>2, SessionThread
    <2>4. ThreadOK(thread'[t]) /\ \A n \in Nat : IsFor(t, n)' => IsFor(t, n)
      BY <2>3, NullFacts DEF ThreadOK, IsFor
    <2>5. Grows(t)
      BY <2>2, <2>3, SameTurnsGrow
    <2>6. launch.step \in {"turn", "turn_asked"} => launch.task # t
      BY <2>2 DEF LaunchInv
    <2>7. /\ TaskInv' /\ GrantInv' /\ ThreadsApart'
          /\ task' \in TaskRecords /\ grant' \in [Granters -> GrantRecords]
      <3>1. CASE root.id = c
        BY <1>1, <1>2, <3>1, ForgottenTask
      <3>2. CASE root.id # c
        <4>1. /\ task' \in TaskRecords /\ task'.step = "turn" /\ task'.thread = t
              /\ task'.ready = task.ready /\ task'.lease = task.lease /\ task'.phase = task.phase
              /\ task'.progress = task.progress
          BY <1>1, <1>4, <2>1, <3>2, TaskFacts DEF TaskRecords
        <4>2. \A g \in Granters : grant[g].step = "idle"
          BY <1>2 DEF TaskInv
        <4>3. TaskInv'
          BY <1>2, <2>3, <4>1, NullFacts DEF TaskInv
        <4>4. GrantInv'
          BY <1>2, <4>1, <4>2, NullFacts DEF GrantInv, TaskInv
        <4>5. ThreadsApart'
          BY <1>2, <2>6, <4>1 DEF ThreadsApart
        <4> QED
          BY <1>2, <4>1, <4>3, <4>4, <4>5, TaskFacts
      <3> QED
        BY <3>1, <3>2
    <2> QED
      BY <1>2, <2>3, <2>4, <2>5, <2>6, <2>7, TaskThreadKeeps
  <1> QED
    BY <1>3, <1>4

LEMMA StartReadTurnKeeps ==
  ASSUME IInv, StartReadTurn, UNCHANGED compressionVars
  PROVE  IInv'
  <1> USE DEF IInv
  <1>1. /\ task.step = "turn" /\ grant' = grant /\ connected' = connected /\ launch' = launch
        /\ task.ready = Null /\ task.ready # "receipt"
    BY NullFacts DEF StartReadTurn, compressionVars, TaskInv
  <1>2. PICK t \in HostThreads : t = task.thread
    BY <1>1 DEF TaskInv
  <1> DEFINE work == Turn("readOnly", << >>)
  <1>3. CASE UNCHANGED thread /\ task' = NoTask
    BY <1>1, <1>3, ForgottenTask, QuietTaskKeeps DEF threadVars
  <1>4. CASE /\ MayAskTurn(t, ReadRequest) /\ thread' = TurnAsked(t, work)
             /\ task' = [task EXCEPT !.step = "turn_asked"]
    <2>1. thread[t].phase = "ready" /\ thread[t].turns = << >> /\ thread[t].asked = Null
      BY <1>1, <1>2, <1>4 DEF MayAskTurn, TaskInv, ThreadsInv, ThreadOK
    <2>2. work \in TurnRecords /\ work # Null /\ work.sandbox = "readOnly" /\ work.root = << >>
      BY TurnIsRecord, NullFacts DEF Turn
    <2>3. OnlyAt(t) /\ thread'[t].phase = "starting" /\ thread'[t].asked = work /\ thread'[t].turns = << >>
      BY <1>4, <2>1, <2>2, AskedThread
    <2> HIDE DEF work
    <2>4. ThreadOK(thread'[t])
      BY <2>2, <2>3, NullFacts DEF ThreadOK, ReadsOnly
    <2>5. \A n \in Nat : ~IsFor(t, n)'
      <3>1. \A n \in Nat : << >> # <<"attempt", n>>
        BY RootFacts
      <3> QED
        BY <2>2, <2>3, <3>1 DEF IsFor
    <2>6. /\ task' \in TaskRecords /\ task'.step = "turn_asked" /\ task'.thread = t
          /\ task'.ready = task.ready /\ task'.lease = task.lease /\ task'.phase = task.phase
          /\ task'.progress = task.progress
      BY <1>2, <1>4, TaskFacts DEF TaskRecords
    <2>7. \A g \in Granters : grant[g].step = "idle"
      BY <1>1 DEF TaskInv
    <2>8. IsAsked(task.thread, 0)'
      BY <2>2, <2>3, <2>6 DEF IsAsked
    <2>9. \A n \in Nat : ~IsFor(task.thread, n)'
      BY <2>5, <2>6
    <2>10. TaskInv'
      BY <1>1, <2>3, <2>6, <2>7, <2>8, <2>9, NullFacts DEF TaskInv
    <2>11. GrantInv'
      BY <1>1, <2>6, <2>7, NullFacts DEF GrantInv, TaskInv
    <2>12. launch.step \in {"turn", "turn_asked"} => launch.task # t
      BY <1>1, <1>2 DEF ThreadsApart
    <2>13. ThreadsApart'
      BY <1>1, <2>6, <2>12 DEF ThreadsApart
    <2>14. Grows(t)
      BY <2>1, <2>3, SameTurnsGrow
    <2> QED
      BY <1>1, <2>3, <2>4, <2>5, <2>6, <2>10, <2>11, <2>12, <2>13, <2>14, TaskFacts, TaskThreadKeeps
  <1> QED
    BY <1>2, <1>3, <1>4 DEF StartReadTurn, ReadRequest, ContinuationRequest

(* A turn that was answered, or will not be: its thread stays what it was for.     *)
LEMMA AnsweredTask ==
  ASSUME IInv, NEW t \in HostThreads, OnlyAt(t), Grows(t),
         thread'[t].asked = thread[t].asked, Len(thread'[t].turns) = Len(thread[t].turns),
         \/ thread'[t].phase = "failed"
         \/ thread'[t].phase \in {"active", "terminal"} /\ thread[t].asked = Null
  PROVE  ThreadOK(thread'[t]) /\ \A n \in Nat : IsFor(t, n)' => IsFor(t, n)
  <1>1. ThreadOK(thread[t]) /\ thread'[t] \in ThreadRecords
    BY DEF IInv, ThreadsInv, OnlyAt
  <1> QED
    BY <1>1, AnsweredThread DEF IInv

LEMMA RefusedTask ==
  ASSUME IInv, NEW t \in HostThreads, thread' = TurnStartFailed(t)
  PROVE  /\ OnlyAt(t) /\ Grows(t) /\ ThreadOK(thread'[t])
         /\ \A n \in Nat : IsFor(t, n)' => IsFor(t, n)
         /\ thread'[t].phase = "failed" /\ thread'[t].turns = thread[t].turns
         /\ thread'[t].asked = thread[t].asked
  <1>1. /\ OnlyAt(t) /\ thread'[t].phase = "failed" /\ thread'[t].asked = thread[t].asked
        /\ thread'[t].turns = thread[t].turns
    BY FailedThread DEF IInv
  <1>2. Grows(t)
    BY <1>1, SameTurnsGrow DEF IInv
  <1> QED
    BY <1>1, <1>2, AnsweredTask

LEMMA ReadTurnGivenUp ==
  ASSUME IInv, task.step = "turn_asked", thread' = TurnStartFailed(task.thread), task' = NoTask,
         UNCHANGED <<grant, connected, compressionVars>>
  PROVE  IInv'
  <1>1. PICK t \in HostThreads : t = task.thread
    BY DEF IInv, TaskInv
  <1>2. task.ready # "receipt"
    BY NullFacts DEF IInv, TaskInv
  <1>3. launch.step \in {"turn", "turn_asked"} => launch.task # t
    BY <1>1 DEF IInv, ThreadsApart
  <1> QED
    BY <1>1, <1>2, <1>3, RefusedTask, ForgottenTask, TaskThreadKeeps

LEMMA ReadTurnRefusedKeeps ==
  ASSUME IInv, ReadTurnRefused, UNCHANGED compressionVars
  PROVE  IInv'
  BY ReadTurnGivenUp DEF ReadTurnRefused

LEMMA OneIsOne ==
  /\ \A s : Len(s) = 1 => s # << >>
  /\ \A s : Len(s) = 2 => s # << >>
  OBVIOUS

LEMMA ReadTurnAnsweredKeeps ==
  ASSUME IInv, ReadTurnAnswered, UNCHANGED compressionVars
  PROVE  IInv'
  <1> USE DEF IInv
  <1>1. /\ task.step = "turn_asked" /\ grant' = grant /\ connected' = connected /\ launch' = launch
        /\ task.ready = Null /\ task.ready # "receipt" /\ connected
    BY NullFacts DEF ReadTurnAnswered, compressionVars, TaskInv
  <1>2. PICK t \in HostThreads : t = task.thread
    BY <1>1 DEF TaskInv
  <1>3. CASE thread' = TurnStartFailed(task.thread) /\ task' = NoTask
    BY <1>1, <1>3, ReadTurnGivenUp
  <1>4. CASE /\ thread' = TurnActivated(t)
             /\ task' = [task EXCEPT !.step = "active", !.phase = "READ_TURN_ACTIVE"]
    <2>1. /\ IsAsked(t, 0) /\ \A n \in Nat : ~IsFor(t, n)
          /\ thread[t].asked = Null
      BY <1>1, <1>2 DEF TaskInv, ReadTurnAnswered
    <2>2. Len(thread[t].turns) = 1 /\ thread[t].turns # << >>
      <3>1. Len(thread[t].turns) = 1
        BY <1>1, <2>1 DEF IsAsked
      <3> QED
        BY <3>1, OneIsOne
    <2>3. /\ OnlyAt(t) /\ Grows(t) /\ thread'[t].phase \in {"active", "terminal"}
          /\ thread'[t].asked = Null /\ Len(thread'[t].turns) = 1
      BY <1>4, <2>1, <2>2, ActivatedThread
    <2>4. ThreadOK(thread'[t]) /\ \A n \in Nat : IsFor(t, n)' => IsFor(t, n)
      BY <2>1, <2>2, <2>3, AnsweredTask
    <2>5. ReadsOnly(thread[t].turns[1])
      BY <2>1, <2>2 DEF ThreadsInv, ThreadOK, IsForAttempt, IsFor
    <2>6. thread'[t].turns # << >> /\ ReadsOnly(thread'[t].turns[1])
      BY <2>2, <2>3, <2>5, GrownFirst
    <2>7. /\ task' \in TaskRecords /\ task'.step = "active" /\ task'.thread = t
          /\ task'.ready = task.ready /\ task'.lease = task.lease /\ task'.phase = "READ_TURN_ACTIVE"
          /\ task'.progress = task.progress
      BY <1>2, <1>4, TaskFacts DEF TaskRecords, ContinuationPhases
    <2>8. \A g \in Granters : grant[g].step = "idle"
      BY <1>1 DEF TaskInv
    <2>9. TaskInv'
      BY <1>1, <2>3, <2>6, <2>7, <2>8, NullFacts DEF TaskInv
    <2>10. GrantInv'
      BY <1>1, <2>7, <2>8, NullFacts DEF GrantInv, TaskInv
    <2>11. launch.step \in {"turn", "turn_asked"} => launch.task # t
      BY <1>1, <1>2 DEF ThreadsApart
    <2>12. ThreadsApart'
      BY <1>1, <2>7, <2>11 DEF ThreadsApart
    <2> QED
      BY <1>1, <2>3, <2>4, <2>7, <2>9, <2>10, <2>11, <2>12, TaskFacts, TaskThreadKeeps
  <1> QED
    BY <1>2, <1>3, <1>4 DEF ReadTurnAnswered

(* What is told to who waits for a turn, and who may wait.                       *)
LEMMA PromisesKeep ==
  ASSUME IInv, AwaitReady \/ ReadTurnTold \/ AwaitProgress \/ WriteTurnTold, UNCHANGED compressionVars
  PROVE  IInv'
  <1> USE DEF IInv
  <1>1. /\ grant' = grant /\ UNCHANGED <<thread, connected, launch>> /\ UNCHANGED threadVars
        /\ task \in TaskRecords
    BY TaskFacts
    DEF AwaitReady, ReadTurnTold, AwaitProgress, WriteTurnTold, threadVars, compressionVars
  <1>2. task.step = "active"
    BY NullFacts DEF AwaitReady, ReadTurnTold, AwaitProgress, WriteTurnTold, TaskInv, GrantInv
  <1>3. SUFFICES /\ TaskInv' /\ GrantInv' /\ ThreadsApart'
                 /\ task' \in TaskRecords /\ grant' \in [Granters -> GrantRecords]
    BY <1>1, QuietTaskKeeps
  <1>4. CASE AwaitReady
    <2>1. /\ task' \in TaskRecords /\ task'.step = "active" /\ task'.thread = task.thread
          /\ task'.ready = "waiting" /\ task'.lease = task.lease /\ task'.phase = task.phase
          /\ task'.progress = task.progress /\ task.ready = Null
      BY <1>1, <1>2, <1>4 DEF AwaitReady, TaskRecords, PromiseStates
    <2> QED
      BY <1>1, <1>2, <2>1, TaskFacts, NullFacts DEF TaskInv, GrantInv, ThreadsApart, IsAsked
  <1>5. CASE ReadTurnTold
    <2>1. /\ task' \in TaskRecords /\ task'.step = "active" /\ task'.thread = task.thread
          /\ task'.lease = task.lease /\ task'.progress = task.progress /\ task.ready = "waiting"
          /\ \/ task'.ready = "receipt" /\ task'.phase = "READY" /\ IsDraft(thread[task.thread].turns[1])
             \/ task'.ready = "rejected" /\ task'.phase = "FAILED"
      BY <1>1, <1>2, <1>5 DEF ReadTurnTold, TaskRecords, PromiseStates, ContinuationPhases
    <2>2. IsDraft(thread[task.thread].turns[1]) => IsDrafted(thread[task.thread].turns[1])
      BY <1>2 DEF IsDraft, IsDrafted, TaskInv
    <2>3. task.lease = Null /\ \A g \in Granters : grant[g].step = "idle"
      BY <2>1 DEF TaskInv
    <2> QED
      BY <1>1, <1>2, <2>1, <2>2, <2>3, TaskFacts, NullFacts DEF TaskInv, GrantInv, ThreadsApart, IsAsked
  <1>6. CASE AwaitProgress
    <2>1. /\ task' \in TaskRecords /\ task'.step = "active" /\ task'.thread = task.thread
          /\ task'.ready = task.ready /\ task'.lease = task.lease /\ task'.phase = task.phase
          /\ task'.progress = "waiting" /\ task.phase = "WRITE_TURN_ACTIVE"
      BY <1>1, <1>2, <1>6 DEF AwaitProgress, TaskRecords, PromiseStates
    <2> QED
      BY <1>1, <1>2, <2>1, TaskFacts, NullFacts DEF TaskInv, GrantInv, ThreadsApart, IsAsked
  <1>7. CASE WriteTurnTold
    <2>1. /\ task' \in TaskRecords /\ task'.step = "active" /\ task'.thread = task.thread
          /\ task'.ready = task.ready /\ task'.lease = task.lease /\ task.progress = "waiting"
          /\ \/ /\ task'.progress = "receipt" /\ task'.phase = "PROGRESS"
                /\ thread[task.thread].turns[2].status = "completed"
             \/ task'.progress = "rejected" /\ task'.phase = "FAILED"
      BY <1>1, <1>2, <1>7 DEF WriteTurnTold, IsProgress, TaskRecords, PromiseStates, ContinuationPhases
    <2>2. task.lease # Null
      BY <2>1, NullFacts DEF GrantInv
    <2> QED
      BY <1>1, <1>2, <2>1, <2>2, TaskFacts, NullFacts DEF TaskInv, GrantInv, ThreadsApart, IsAsked
  <1> QED
    BY <1>4, <1>5, <1>6, <1>7

LEMMA GrantRepeatedKeeps ==
  ASSUME IInv, NEW g \in Granters, GrantRepeated(g), UNCHANGED compressionVars
  PROVE  IInv'
  <1> USE DEF IInv
  <1>1. /\ task' = task /\ UNCHANGED <<thread, connected, launch>> /\ UNCHANGED threadVars
        /\ task.lease # Null /\ task.lease = Epoch
        /\ grant' = [grant EXCEPT ![g] = [step |-> "granted", epoch |-> Epoch]]
    BY DEF GrantRepeated, threadVars, compressionVars, GrantInv
  <1>2. /\ grant' \in [Granters -> GrantRecords]
        /\ grant'[g].step = "granted" /\ grant'[g].epoch = Epoch
        /\ \A h \in Granters : h # g => grant'[h] = grant[h]
    BY <1>1, TaskFacts DEF GrantRecords
  <1>3. task.ready = "receipt"
    BY <1>1 DEF TaskInv
  <1>4. TaskInv'
    BY <1>1, <1>3 DEF TaskInv, IsAsked, IsFor
  <1>5. \A h \in Granters : grant'[h].step # "turn_asked"
    BY <1>1, <1>2 DEF GrantInv
  <1>6. \A h \in Granters : grant'[h].step # "idle" => grant'[h].epoch = Epoch
    BY <1>2 DEF GrantInv
  <1>7. GrantInv'
    BY <1>1, <1>2, <1>5, <1>6 DEF GrantInv
  <1>8. ThreadsApart'
    BY <1>1 DEF ThreadsApart
  <1> QED
    BY <1>1, <1>2, <1>4, <1>7, <1>8, TaskFacts, QuietTaskKeeps

LEMMA GrantWriteKeeps ==
  ASSUME IInv, NEW g \in Granters, NEW epoch \in Epochs, GrantWrite(g, epoch), UNCHANGED compressionVars
  PROVE  IInv'
  <1> USE DEF IInv
  <1>1. /\ connected' = connected /\ launch' = launch /\ epoch = Epoch
        /\ task.step = "active" /\ task.lease = Null /\ task.ready = "receipt" /\ grant[g].step = "idle"
    BY DEF GrantWrite, MayGrant, compressionVars
  <1>2. PICK t \in HostThreads : t = task.thread
    BY <1>1 DEF TaskInv
  <1> DEFINE work == Turn("workspaceWrite", <<"epoch", Epoch>>)
  <1>3. CASE task' = [task EXCEPT !.phase = "FAILED"] /\ UNCHANGED <<thread, grant>>
    <2>1. /\ task' \in TaskRecords /\ task'.step = "active" /\ task'.thread = task.thread
          /\ task'.ready = task.ready /\ task'.lease = task.lease /\ task'.phase = "FAILED"
          /\ task'.progress = task.progress
      BY <1>1, <1>3, TaskFacts DEF TaskRecords, ContinuationPhases
    <2>2. TaskInv' /\ GrantInv'
      BY <1>1, <1>3, <2>1 DEF TaskInv, GrantInv, IsAsked
    <2>3. ThreadsApart'
      BY <1>1, <2>1 DEF ThreadsApart
    <2> QED
      BY <1>1, <1>3, <2>1, <2>2, <2>3, TaskFacts, QuietTaskKeeps DEF threadVars
  <1>4. CASE /\ MayAskTurn(t, WriteRequest) /\ thread' = TurnAsked(t, work) /\ task' = task
             /\ grant' = [grant EXCEPT ![g] = [step |-> "turn_asked", epoch |-> epoch]]
    <2>1. thread[t].phase = "terminal" /\ Len(thread[t].turns) = 1 /\ thread[t].asked = Null
      <3>1. thread[t].phase \in {"ready", "terminal"} /\ thread[t].turns # << >>
        BY <1>1, <1>2, <1>4 DEF MayAskTurn, TaskInv
      <3>2. thread[t].phase = "terminal" /\ thread[t].asked = Null
        BY <3>1 DEF ThreadsInv, ThreadOK
      <3> QED
        BY <1>1, <1>2, <3>2 DEF TaskInv
    <2>2. work \in TurnRecords /\ work # Null /\ WritesEpoch(work)
      BY TurnIsRecord, TaskFacts, NullFacts DEF Turn, WritesEpoch
    <2>3. /\ OnlyAt(t) /\ thread'[t].phase = "starting" /\ thread'[t].asked = work
          /\ thread'[t].turns = thread[t].turns
      BY <1>4, <2>2, AskedThread
    <2> HIDE DEF work
    <2>4. thread[t].turns # << >> /\ IsDrafted(thread[t].turns[1])
      BY <1>1, <1>2, <2>1, OneIsOne DEF TaskInv
    <2>5. ThreadOK(thread'[t])
      BY <2>1, <2>2, <2>3, <2>4, NullFacts DEF ThreadsInv, ThreadOK
    <2>6. \A n \in Nat : IsFor(t, n)' => IsFor(t, n)
      BY <2>3, <2>4 DEF IsFor
    <2>7. Grows(t)
      BY <2>3, SameTurnsGrow
    <2>8. \A h \in Granters : grant[h].step # "turn_asked"
      BY <1>2, <2>1 DEF GrantInv
    <2>9. /\ grant' \in [Granters -> GrantRecords]
          /\ grant'[g].step = "turn_asked" /\ grant'[g].epoch = Epoch
          /\ \A h \in Granters : h # g => grant'[h] = grant[h]
      BY <1>1, <1>4, TaskFacts DEF GrantRecords
    <2>10. IsAsked(task.thread, 1)'
      BY <1>2, <1>4, <2>1, <2>2, <2>3 DEF IsAsked
    <2>11. TaskInv'
      BY <1>1, <1>2, <1>4, <2>3, NullFacts DEF TaskInv
    <2>12. GrantInv'
      <3>1. \A h \in Granters : grant'[h].step = "turn_asked" => h = g
        BY <2>8, <2>9
      <3>2. \A h \in Granters : grant'[h].step # "granted"
        BY <1>1, <2>9 DEF GrantInv
      <3>3. \A h \in Granters : grant'[h].step # "idle" => grant'[h].epoch = Epoch
        BY <2>9 DEF GrantInv
      <3>4. task.progress = Null /\ task.phase # "WRITE_TURN_ACTIVE"
        BY <1>1 DEF GrantInv
      <3>5. thread'[task.thread].phase = "starting"
        BY <1>2, <2>3
      <3> QED
        BY <1>1, <1>4, <2>10, <3>1, <3>2, <3>3, <3>4, <3>5, NullFacts DEF GrantInv
    <2>13. launch.step \in {"turn", "turn_asked"} => launch.task # t
      BY <1>1, <1>2 DEF ThreadsApart
    <2>14. ThreadsApart'
      BY <1>1, <1>4 DEF ThreadsApart
    <2> QED
      BY <1>1, <1>4, <2>3, <2>5, <2>6, <2>7, <2>9, <2>11, <2>12, <2>13, <2>14, TaskFacts, TaskThreadKeeps
  <1> QED
    BY <1>2, <1>3, <1>4 DEF GrantWrite, WriteRequest, ContinuationRequest

(* The one call that asked for the turn, and its thread.                        *)
LEMMA AskedGrant ==
  ASSUME IInv, NEW g \in Granters, grant[g].step = "turn_asked"
  PROVE  /\ task.step = "active" /\ task.ready = "receipt" /\ task.lease = Null /\ task.progress = Null
         /\ grant[g].epoch = Epoch /\ task.thread \in HostThreads /\ IsAsked(task.thread, 1)
         /\ \A h \in Granters : h # g => grant[h].step = "idle"
         /\ launch.step \in {"turn", "turn_asked"} => launch.task # task.thread
  <1>1. task.ready = "receipt" /\ task.lease = Null
    BY DEF IInv, TaskInv, GrantInv
  <1>2. task.step = "active" /\ task.progress = Null /\ task.thread \in HostThreads
    BY <1>1, NullFacts DEF IInv, TaskInv, GrantInv
  <1>3. \A h \in Granters : h # g => grant[h].step = "idle"
    BY <1>1, TaskFacts DEF IInv, GrantInv, GrantRecords
  <1> QED
    BY <1>1, <1>2, <1>3 DEF IInv, GrantInv, ThreadsApart

LEMMA WriteTurnGivenUp ==
  ASSUME IInv, NEW g \in Granters, grant[g].step = "turn_asked", thread' = TurnStartFailed(task.thread),
         task' = [task EXCEPT !.phase = "FAILED"], grant' = [grant EXCEPT ![g] = NoGrant],
         UNCHANGED <<connected, compressionVars>>
  PROVE  IInv'
  <1> USE DEF IInv
  <1>1. PICK t \in HostThreads : t = task.thread
    BY AskedGrant
  <1>2. /\ OnlyAt(t) /\ Grows(t) /\ ThreadOK(thread'[t]) /\ \A n \in Nat : IsFor(t, n)' => IsFor(t, n)
        /\ thread'[t].phase = "failed" /\ thread'[t].turns = thread[t].turns
    BY <1>1, RefusedTask
  <1>3. /\ task' \in TaskRecords /\ task'.step = "active" /\ task'.thread = t
        /\ task'.ready = "receipt" /\ task'.lease = Null /\ task'.phase = "FAILED" /\ task'.progress = Null
    BY <1>1, AskedGrant, TaskFacts DEF TaskRecords, ContinuationPhases
  <1>4. /\ grant' \in [Granters -> GrantRecords] /\ \A h \in Granters : grant'[h].step = "idle"
    BY AskedGrant, TaskFacts DEF NoGrant
  <1>5. TaskInv'
    BY <1>1, <1>2, <1>3, <1>4, AskedGrant, NullFacts DEF TaskInv
  <1>6. GrantInv'
    BY <1>3, <1>4, NullFacts DEF GrantInv
  <1>7. launch.step \in {"turn", "turn_asked"} => launch.task # t
    BY <1>1, AskedGrant
  <1>8. ThreadsApart'
    BY <1>3, <1>7 DEF ThreadsApart, compressionVars
  <1> QED
    BY <1>2, <1>3, <1>4, <1>5, <1>6, <1>7, <1>8, TaskThreadKeeps

LEMMA WriteTurnRefusedKeeps ==
  ASSUME IInv, NEW g \in Granters, WriteTurnRefused(g), UNCHANGED compressionVars
  PROVE  IInv'
  BY WriteTurnGivenUp DEF WriteTurnRefused

LEMMA WriteTurnAnsweredKeeps ==
  ASSUME IInv, NEW g \in Granters, WriteTurnAnswered(g), UNCHANGED compressionVars
  PROVE  IInv'
  <1> USE DEF IInv
  <1>1. grant[g].step = "turn_asked" /\ connected /\ connected' = connected /\ launch' = launch
    BY DEF WriteTurnAnswered, compressionVars
  <1>2. PICK t \in HostThreads : t = task.thread
    BY <1>1, AskedGrant
  <1>3. CASE /\ thread' = TurnStartFailed(task.thread) /\ task' = [task EXCEPT !.phase = "FAILED"]
             /\ grant' = [grant EXCEPT ![g] = NoGrant]
    BY <1>1, <1>3, WriteTurnGivenUp
  <1>4. CASE /\ thread' = TurnActivated(t)
             /\ task' = [task EXCEPT !.lease = grant[g].epoch, !.phase = "WRITE_TURN_ACTIVE"]
             /\ grant' = [grant EXCEPT ![g].step = "granted"]
    <2>1. IsAsked(t, 1) /\ thread[t].asked = Null
      BY <1>1, <1>2, AskedGrant DEF WriteTurnAnswered
    <2>2. Len(thread[t].turns) = 2 /\ thread[t].turns # << >>
      <3>1. Len(thread[t].turns) = 2
        BY <1>1, <2>1 DEF IsAsked
      <3> QED
        BY <3>1, OneIsOne
    <2>3. /\ OnlyAt(t) /\ Grows(t) /\ thread'[t].phase \in {"active", "terminal"}
          /\ Len(thread'[t].turns) = 2 /\ thread'[t].asked = Null
      BY <1>4, <2>1, <2>2, ActivatedThread
    <2>4. ThreadOK(thread'[t]) /\ \A n \in Nat : IsFor(t, n)' => IsFor(t, n)
      BY <2>1, <2>2, <2>3, AnsweredTask
    <2>5. IsDrafted(thread'[t].turns[1]) /\ ReadsOnly(thread'[t].turns[1]) /\ thread'[t].turns # << >>
      BY <2>2, <2>3, GrownFirst DEF ThreadsInv, ThreadOK, IsDrafted
    <2>6. /\ task' \in TaskRecords /\ task'.step = "active" /\ task'.thread = t
          /\ task'.ready = "receipt" /\ task'.lease = Epoch /\ task'.phase = "WRITE_TURN_ACTIVE"
          /\ task'.progress = Null
      BY <1>1, <1>2, <1>4, AskedGrant, TaskFacts DEF TaskRecords, ContinuationPhases
    <2>7. /\ grant' \in [Granters -> GrantRecords]
          /\ grant'[g].step = "granted" /\ grant'[g].epoch = Epoch
          /\ \A h \in Granters : h # g => grant'[h].step = "idle"
      BY <1>1, <1>4, AskedGrant, TaskFacts DEF GrantRecords
    <2>8. TaskInv'
      BY <2>3, <2>5, <2>6, TaskFacts, NullFacts DEF TaskInv
    <2>9. GrantInv'
      BY <2>3, <2>6, <2>7, TaskFacts, NullFacts DEF GrantInv
    <2>10. launch.step \in {"turn", "turn_asked"} => launch.task # t
      BY <1>1, <1>2, AskedGrant
    <2>11. ThreadsApart'
      BY <1>1, <2>6, <2>10 DEF ThreadsApart
    <2> QED
      BY <1>1, <2>3, <2>4, <2>6, <2>7, <2>8, <2>9, <2>10, <2>11, TaskThreadKeeps
  <1> QED
    BY <1>2, <1>3, <1>4 DEF WriteTurnAnswered

LEMMA ContinuationKeeps == IInv /\ Continuation => IInv'
  <1> SUFFICES ASSUME IInv, Continuation PROVE IInv'
    OBVIOUS
  <1>1. UNCHANGED compressionVars
    BY DEF Continuation
  <1>2. ASSUME NEW c, ReadHandoff(c) \/ StartSteps(c) PROVE IInv'
    BY <1>1, <1>2, ReadHandoffKeeps, RootAnsweredKeeps, StartReadTurnKeeps, ReadTurnAnsweredKeeps,
       ReadTurnRefusedKeeps DEF StartSteps
  <1>3. CASE AwaitReady \/ ReadTurnTold \/ AwaitProgress \/ WriteTurnTold
    BY <1>1, <1>3, PromisesKeep
  <1>4. ASSUME NEW g \in Granters,
               \/ GrantRepeated(g) \/ \E epoch \in Epochs : GrantWrite(g, epoch)
               \/ WriteTurnAnswered(g) \/ WriteTurnRefused(g)
        PROVE  IInv'
    BY <1>1, <1>4, GrantRepeatedKeeps, GrantWriteKeeps, WriteTurnAnsweredKeeps, WriteTurnRefusedKeeps
  <1> QED
    BY <1>2, <1>3, <1>4 DEF Continuation

-----------------------------------------------------------------------------
(* Every behaviour of the two launchers.                                       *)

LEMMA LaunchStutters == IInv /\ UNCHANGED launchVars => IInv'
  <1> SUFFICES ASSUME IInv, UNCHANGED launchVars PROVE IInv'
    OBVIOUS
  <1>1. UNCHANGED <<threadVars, compressionVars>> /\ UNCHANGED <<task, grant, thread, connected, launch>>
    BY DEF launchVars, threadVars, compressionVars, continuationVars
  <1>2. TaskInv' /\ GrantInv' /\ ThreadsApart'
    BY <1>1 DEF IInv, TaskInv, GrantInv, ThreadsApart, IsFor, IsAsked
  <1> QED
    BY <1>1, <1>2, TaskFacts, QuietTaskKeeps DEF IInv

LEMMA LaunchInvariant == LaunchSpec => []IInv
  <1>1. IInv /\ [LaunchNext]_launchVars => IInv'
    BY CompressionKeeps, ContinuationKeeps, HostKeeps, CrashKeeps, LaunchStutters DEF LaunchNext
  <1> QED
    BY <1>1, LaunchBegins, PTL DEF LaunchSpec

(* awaitHandoff answers one handoff whichever process is asked and however often     *)
(* the process died, and it is what a compression task that completed ended with.  *)
THEOREM LaunchHandoffIsStable == LaunchSpec => []HandoffIsStable
  <1>1. IInv => HandoffIsStable
    <2> SUFFICES ASSUME IInv PROVE HandoffIsStable
      OBVIOUS
    <2>1. \A r \in answered : answered = {journal.receipt} /\ r = journal.receipt /\ IsResult(r)
      BY DEF IInv, HandoffInv
    <2> QED
      BY <2>1 DEF HandoffIsStable, IsResult, CompressionTurn
  <1> QED
    BY <1>1, LaunchInvariant, PTL

(* An attempt is in the journal before its folder or its task exists, in this or an   *)
(* earlier life of the process, and no two compression tasks ever write one folder.  *)
THEOREM LaunchAttemptsAreApart == LaunchSpec => []AttemptsAreApart
  <1>1. IInv => AttemptsAreApart
    <2> SUFFICES ASSUME IInv PROVE AttemptsAreApart
      OBVIOUS
    <2>1. \A t \in HostThreads :
            thread[t].turns # << >> /\ thread[t].turns[1].root # << >>
              => \E n \in Nat : thread[t].turns[1].root = <<"attempt", n>>
      BY DEF IInv, ThreadsInv, ThreadOK, ReadsOnly, IsForAttempt
    <2>2. ASSUME NEW t \in HostThreads, NEW u \in HostThreads, t # u,
                 thread[t].turns # << >>, thread[u].turns # << >>,
                 thread[t].turns[1].root # << >>, thread[t].turns[1].root = thread[u].turns[1].root
          PROVE  FALSE
      <3>1. PICK n \in Nat : thread[t].turns[1].root = <<"attempt", n>>
        BY <2>1, <2>2
      <3>2. IsFor(t, n) /\ IsFor(u, n)
        BY <2>2, <3>1 DEF IsFor
      <3> QED
        BY <2>2, <3>2 DEF IInv, ThreadsInv
    <2> QED
      BY <2>2 DEF AttemptsAreApart, IInv, FoldersInv
  <1> QED
    BY <1>1, LaunchInvariant, PTL

(* A continuation writes in its second turn at the earliest, after a draft it made    *)
(* without a single tool call, and with the write epoch of its envelope.          *)
THEOREM LaunchWriteTurnIsEarned == LaunchSpec => []WriteTurnIsEarned
  <1>1. IInv => WriteTurnIsEarned
    BY DEF IInv, ThreadsInv, ThreadOK, IsDrafted, ReadsOnly, WritesEpoch, WriteTurnIsEarned
  <1> QED
    BY <1>1, LaunchInvariant, PTL

(* A grant is answered with the epoch its turn runs with, and progress is reported    *)
(* of a turn that was granted and completed.                                     *)
THEOREM LaunchGrantsAreEarned == LaunchSpec => []GrantsAndProgressAreEarned
  <1>1. IInv => GrantsAndProgressAreEarned
    <2> SUFFICES ASSUME IInv PROVE GrantsAndProgressAreEarned
      OBVIOUS
    <2>1. task.lease # Null =>
            /\ Len(thread[task.thread].turns) = 2 /\ WritesEpoch(thread[task.thread].turns[2])
            /\ \E g \in Granters : grant[g].step = "granted"
      <3>1. task.lease # Null => task.thread \in HostThreads
        BY NullFacts DEF IInv, TaskInv
      <3> QED
        BY <3>1 DEF IInv, GrantInv, ThreadsInv, ThreadOK
    <2>2. \A g \in Granters : grant[g].step = "granted" => task.lease # Null /\ grant[g].epoch = Epoch
      BY DEF IInv, GrantInv
    <2>3. task.progress = "receipt" =>
            task.lease # Null /\ thread[task.thread].turns[2].status = "completed"
      BY NullFacts DEF IInv, GrantInv
    <2> QED
      BY <2>1, <2>2, <2>3 DEF GrantsAndProgressAreEarned, WritesEpoch
  <1> QED
    BY <1>1, LaunchInvariant, PTL

=============================================================================
