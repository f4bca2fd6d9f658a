----------------------------- MODULE TaskThreads -----------------------------
(***************************************************************************)
(* The App Server as the two launchers of a relay see it through their       *)
(* fresh-task sessions: threads, and the turns the host runs in them.  The     *)
(* threads and their turns outlive the controller; which threads it has a      *)
(* session for, and what those sessions told of their turns, does not.         *)
(*                                                                         *)
(* Module FreshTasks has the routing of single notifications; here the items    *)
(* of a turn arrive together with its end.                                   *)
(***************************************************************************)
EXTENDS AppServerProtocol, Naturals, FiniteSets

CONSTANTS
  HostThreads, \* bound: the threads the host may create, numbered in their order
  RootFlaws,   \* what may be wrong with an answer to thread/start
  TurnAnswers, \* what may be answered to turn/start
  Endings      \* how a turn may end, and the items it may leave

ASSUME HostThreadsAssumption == HostThreads \subseteq Nat \ {0}
ASSUME TurnAnswersAssumption == \E answer \in TurnAnswers : TurnIsStarted(answer)

(* A turn: what it may write, what it was started for (a compression attempt, a   *)
(* write epoch, or to read), and how it ended.                                *)
TurnRecords ==
  [sandbox: {"readOnly", "workspaceWrite"},
   root: {<< >>} \cup ({"attempt", "epoch"} \X Nat),
   status: {"inProgress"} \cup {ending.status : ending \in Endings},
   items: {<< >>} \cup {ending.items : ending \in Endings},
   told: {Null, "terminal", "error"}]
SessionPhases == {"ready", "starting", "active", "terminal", "failed"}

ASSUME NullIsNoValue == Null \notin Nat \cup TurnRecords \cup SessionPhases \cup {"error"}

Source == 0  \* the thread of the Development Task that is relayed

VARIABLES
  thread,   \* the threads: the turns in them and the session of each
  connected \* the connection of this process has not failed

threadVars == <<thread, connected>>

(* phase: of the session, "none" when this process has none for the thread.      *)
(* asked: a turn the host was asked for and has not begun.  A turn's told is     *)
(* what its completion promise was resolved with.                             *)
NewThread == [phase |-> Null, asked |-> Null, turns |-> << >>]

Turn(sandbox, root) ==
  [sandbox |-> sandbox, root |-> root, status |-> "inProgress", items |-> << >>, told |-> Null]

ThreadsInit ==
  /\ thread = [t \in HostThreads |-> NewThread]
  /\ connected = TRUE

LastTurn(t) == thread[t].turns[Len(thread[t].turns)]
IsRunning(t) == thread[t].turns # << >> /\ LastTurn(t).status = "inProgress"

-----------------------------------------------------------------------------
(* What the controller asks.                                                *)

IsUsed(t) == thread[t].phase # Null \/ thread[t].turns # << >>

Root(id) ==
  [id |-> id, sessionId |-> id, forkedFromId |-> Null, parentThreadId |-> Null,
   ephemeral |-> FALSE, flaw |-> Null, turns |-> IF id = Source THEN << >> ELSE thread[id].turns]

(* The answer to thread/start: the next new thread if all is well, but the        *)
(* controller does not rely on that.                                         *)
RootAnswers ==
  LET ids  == {Source} \cup {t \in HostThreads : \A u \in HostThreads : u < t => IsUsed(u)}
      some == Root(Source)
  IN {Root(id) : id \in ids}
     \cup {[some EXCEPT !.sessionId = 1], [some EXCEPT !.forkedFromId = 1],
           [some EXCEPT !.parentThreadId = 1], [some EXCEPT !.ephemeral = TRUE]}
     \cup {[some EXCEPT !.flaw = flaw] : flaw \in RootFlaws}

(* The session registry of this process: no thread twice, and never the source.  *)
IsNewRoot(root) ==
  /\ IsFreshRoot(root)
  /\ root.sessionId = root.id
  /\ root.id # Source
  /\ thread[root.id].phase = Null

WithSession(t) == [thread EXCEPT ![t].phase = "ready"]

(* validateTurnRequest and the decoding of the parameters: what a task of each    *)
(* kind may ask for.                                                        *)
RequestIsValid(request) ==
  /\ request.input # << >>
  /\ request.kind = "compression" =>
       request.effort = "medium" /\ request.sandboxPolicy.type = "workspaceWrite"
  /\ request.kind = "continuation" =>
       request.effort = "max" /\ request.sandboxPolicy.type \in {"readOnly", "workspaceWrite"}
  /\ request.projected \subseteq DOMAIN ItemFields
  /\ ParamsDecode(request)

(* One turn at a time in a session, and none after it failed.                   *)
MayAskTurn(t, request) ==
  RequestIsValid(request) /\ connected /\ thread[t].phase \in {"ready", "terminal"}

TurnAsked(t, turn) == [thread EXCEPT ![t].phase = "starting", ![t].asked = turn]

(* The answer to turn/start.  A turn whose end arrived before it is over at once. *)
TurnActivated(t) ==
  [thread EXCEPT ![t].phase = IF IsRunning(t) THEN "active" ELSE "terminal",
                 ![t].turns[Len(thread[t].turns)].told = IF IsRunning(t) THEN Null ELSE "terminal"]

TurnStartFailed(t) == [thread EXCEPT ![t].phase = "failed"]

-----------------------------------------------------------------------------
(* What the host and the connection do.                                      *)

(* A request that was not answered in time, or before the connection failed, may  *)
(* still be served.                                                         *)
HostStartsTurn(t) ==
  /\ thread[t].asked # Null /\ ~IsRunning(t)
  /\ thread' = [thread EXCEPT ![t].turns = Append(@, thread[t].asked), ![t].asked = Null]
  /\ UNCHANGED connected

(* Fault for the mutation runs: sessions fail without a word to their waiters.    *)
DisconnectedSilently ==
  [t \in HostThreads |-> IF thread[t].phase = Null THEN thread[t]
                     ELSE [thread[t] EXCEPT !.phase = "failed"]]

(* All sessions fail with the connection, and every turn under way is told so.   *)
Disconnected ==
  [t \in HostThreads |->
     IF thread[t].phase = Null THEN thread[t]
     ELSE [thread[t] EXCEPT
             !.phase = "failed",
             !.turns = [i \in DOMAIN @ |->
                          IF @[i].told = Null /\ thread[t].phase = "active" THEN [@[i] EXCEPT !.told = "error"]
                          ELSE @[i]]]]

ConnectionFails ==
  /\ connected /\ connected' = FALSE
  /\ thread' = Disconnected

(* A turn may end at any time.  One of a session that is not in a turn, because  *)
(* it failed to start, or one that does not decode, is a protocol error and fails  *)
(* the connection.                                                          *)
HostEndsTurn(t) == \E ending \in Endings :
  LET last   == Len(thread[t].turns)
      ended  == [LastTurn(t) EXCEPT !.status = ending.status, !.items = ending.items]
      after  == [thread EXCEPT ![t].turns[last] = ended]
      passes == /\ thread[t].phase \in {"starting", "active"}
                /\ TurnDecodes(ending)
  IN /\ IsRunning(t)
     /\ \/ /\ thread[t].phase = Null \/ ~connected
           /\ thread' = after /\ UNCHANGED connected
        \/ /\ thread[t].phase # Null /\ connected /\ passes
           /\ thread' = IF thread[t].phase = "starting" THEN after
                        ELSE [after EXCEPT ![t].phase = "terminal",
                                           ![t].turns[last].told = "terminal"]
           /\ UNCHANGED connected
        \/ /\ thread[t].phase # Null /\ connected /\ ~passes
           /\ connected' = FALSE
           /\ thread' = [Disconnected EXCEPT ![t].turns[last] =
                           [@ EXCEPT !.status = ending.status, !.items = ending.items]]

(* What a process asked for and the host has not begun by then is lost with it.    *)
ThreadsCrash ==
  /\ thread' = [t \in HostThreads |-> [thread[t] EXCEPT !.phase = Null, !.asked = Null]]
  /\ connected' = TRUE

=============================================================================
