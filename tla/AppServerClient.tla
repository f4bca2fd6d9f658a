-------------------------- MODULE AppServerClient --------------------------
(***************************************************************************)
(* CodexAppServerClient (production/app-server-client.ts): requests to one *)
(* child process over its standard streams, answered in any order, and the *)
(* single failure of that connection.  FreshTasks composes these steps     *)
(* with the private notification router.                                   *)
(*                                                                         *)
(* Everything here runs on one JavaScript thread.  A promise that settles  *)
(* lets its caller continue before the next timer, exit or chunk of output *)
(* is looked at (Quiet), but other lines of the same chunk come first.     *)
(***************************************************************************)
EXTENDS Naturals

CONSTANTS
  MaxCalls,  \* bound on the calls of one client
  Threads,   \* thread ids the host may answer with
  Turns      \* turn ids the host may answer with

None == "none"

ASSUME MaxCallsAssumption == MaxCalls \in Nat
ASSUME ThreadsAssumption == None \notin Threads
ASSUME TurnsAssumption == None \notin Turns

VARIABLES
  initialization,  \* the memoized promise of initialize()
  child,           \* the App Server process
  failed,          \* fatalError is set
  disposed,        \* the task host was disposed
  pending,         \* requests in the pending map; each has its timer
  call             \* call[c]: the c-th call and the promise it waits for

clientVars == <<initialization, child, failed, disposed, pending, call>>

\* The request of initialize(); those of the callers have the number of their call.
Initialize == 0
Calls == 1 .. MaxCalls
Requests == Calls \cup {Initialize}

Operations == {"thread/start", "turn/start", "other"}
Stages == {"unused", "initializing", "pending", "settled", "done"}

\* What a request settled with: the id in its result, or an error, as which a result
\* that its decoder refuses counts, too.
Outcomes == Threads \cup Turns \cup {None, "error"}

CallRecords ==
  [stage: Stages, op: Operations \cup {None}, thread: Threads \cup {None},
   outcome: Outcomes, result: {None, "success", "error"}]
NoCall == [stage |-> "unused", op |-> None, thread |-> None, outcome |-> None, result |-> None]
FailedCall == [NoCall EXCEPT !.stage = "done", !.result = "error"]

ClientTypeOK ==
  /\ initialization \in {None, "pending", "ready", "failed"}
  /\ child \in {None, "running", "exited", "closed"}
  /\ failed \in BOOLEAN
  /\ disposed \in BOOLEAN
  /\ pending \subseteq Requests
  /\ call \in [Calls -> CallRecords]
  /\ \A c \in Calls : c \in pending <=> call[c].stage = "pending"

ClientInit ==
  /\ initialization = None
  /\ child = None
  /\ failed = FALSE
  /\ disposed = FALSE
  /\ pending = {}
  /\ call = [c \in Calls |-> NoCall]

\* No caller has still to continue.
Quiet == \A c \in Calls : call[c].stage # "settled"

\* The calls are numbered in the order in which they are made.
IsNext(c) == \A d \in Calls : call[d].stage = "unused" <=> d >= c

Settled(r, outcome) == [r EXCEPT !.stage = "settled", !.outcome = outcome]

-----------------------------------------------------------------------------
\* The call ends at once.
Refuse(c) ==
  /\ call' = [call EXCEPT ![c] = FailedCall]
  /\ UNCHANGED <<initialization, child, failed, disposed, pending>>

\* request: initialize() spawns the process on first use and asks it.
Launch(c, op, thread) ==
  /\ call' = [call EXCEPT ![c] = [stage |-> "initializing", op |-> op, thread |-> thread,
                                  outcome |-> None, result |-> None]]
  /\ IF initialization = None
     THEN /\ initialization' = "pending"
          /\ child' = "running"
          /\ pending' = pending \cup {Initialize}
     ELSE UNCHANGED <<initialization, child, pending>>
  /\ UNCHANGED <<failed, disposed>>

\* The same, and spawn throws.
LaunchFails(c, op, thread) ==
  /\ initialization = None
  /\ call' = [call EXCEPT ![c] = [stage |-> "initializing", op |-> op, thread |-> thread,
                                  outcome |-> None, result |-> None]]
  /\ initialization' = "failed"
  /\ failed' = TRUE
  /\ UNCHANGED <<child, disposed, pending>>

\* requestRaw, after initialize() settled.  The stream is writable until dispose ends it.
Send(c) ==
  /\ call[c].stage = "initializing"
  /\ initialization \in {"ready", "failed"}
  /\ IF initialization = "ready" /\ ~failed /\ child = "running" /\ ~disposed
     THEN /\ call' = [call EXCEPT ![c].stage = "pending"]
          /\ pending' = pending \cup {c}
     ELSE /\ call' = [call EXCEPT ![c] = Settled(@, "error")]
          /\ UNCHANGED <<pending>>
  /\ UNCHANGED <<initialization, child, failed, disposed>>

\* A request leaves the map and its promise settles.
Settle(c, outcome) ==
  /\ pending' = pending \ {c}
  /\ call' = [call EXCEPT ![c] = Settled(@, outcome)]
  /\ UNCHANGED <<initialization, child, failed, disposed>>

\* Fault for the mutation runs: the requests are dropped, their promises stay open.
DropPending ==
  /\ failed' = TRUE
  /\ pending' = {}
  /\ initialization' = IF initialization = "pending" THEN "failed" ELSE initialization
  /\ UNCHANGED <<disposed, call>>

\* failConnection: the first failure rejects every request that waits.
FailPending ==
  /\ failed' = TRUE
  /\ pending' = {}
  /\ call' = [c \in Calls |-> IF c \in pending THEN Settled(call[c], "error") ELSE call[c]]
  /\ initialization' = IF initialization = "pending" THEN "failed" ELSE initialization
  /\ UNCHANGED disposed

-----------------------------------------------------------------------------
\* consumeStdout: lines are looked at until the connection fails or is disposed.
Reads == child \in {"running", "exited"} /\ ~failed /\ ~disposed

\* The host is not trusted with thread and turn ids; of other results nothing is kept.
Results(c) ==
  CASE call[c].op = "thread/start" -> Threads
    [] call[c].op = "turn/start"   -> Turns
    [] OTHER                       -> {None}

ReadResponse(c) ==
  /\ Reads
  /\ c \in pending \ {Initialize}
  /\ \E outcome \in Results(c) \cup {"error"} : Settle(c, outcome)

ReadInitializeResponse ==
  /\ Reads
  /\ Initialize \in pending
  /\ initialization' = "ready"
  /\ pending' = pending \ {Initialize}
  /\ UNCHANGED <<child, failed, disposed, call>>

\* A line that fails the connection: not JSON, too long, a request of the host, the
\* answer to a request that is not in the map (it timed out, or was answered before),
\* a refused or malformed initialize, or a listener that throws.
ReadOffence == Reads

\* A request of a caller times out.
TimeoutCall(c) ==
  /\ c \in pending \ {Initialize}
  /\ Quiet
  /\ Settle(c, "error")

\* initialize() turns its own timeout into a failure of the connection.
TimeoutInitialize == Initialize \in pending /\ Quiet

ProcessExits ==
  /\ child = "running"
  /\ Quiet
  /\ child' = "exited"
  /\ UNCHANGED <<initialization, failed, disposed, pending, call>>

\* Its streams are closed; after a disposal nobody minds.
ProcessCloses ==
  /\ child = "exited"
  /\ Quiet
  /\ child' = "closed"

=============================================================================
