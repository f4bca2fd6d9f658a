------------------------- MODULE ContinuationLauncher -------------------------
(***************************************************************************)
(* AppServerContinuationTaskLauncher                                         *)
(* (continuation/app-server-continuation-launcher.ts): a new task that first    *)
(* drafts from the handoff in a turn that may only read, and is then granted     *)
(* one turn that may write.  All it knows of its task is in memory.            *)
(*                                                                         *)
(* One envelope: the epoch of the rotated lease and the compression task.  The   *)
(* coordinator may ask for a grant again before the first answer arrives, with   *)
(* another epoch when the lease was taken over in between.                     *)
(***************************************************************************)
EXTENDS TaskThreads

CONSTANTS
  Granters,   \* calls of grantWrite that may be under way together
  Epochs,     \* write epochs a caller may name
  Epoch       \* the write epoch of the envelope

ASSUME EpochAssumption == Epoch \in Epochs /\ Epochs \subseteq Nat \ {0}

ContinuationPhases == {"READ_TURN_ACTIVE", "READY", "WRITE_TURN_ACTIVE", "PROGRESS", "FAILED"}
PromiseStates == {"waiting", "receipt", "rejected"}

ASSUME NullIsNoState == Null \notin ContinuationPhases \cup PromiseStates

VARIABLES
  task,     \* the start under way and the active continuation
  grant     \* the calls of grantWrite

continuationVars == <<task, grant>>

(* phase and the two promises are those of ActiveContinuation; lease is the epoch  *)
(* of the lease receipt.                                                     *)
NoTask ==
  [step |-> "idle", thread |-> Null, phase |-> Null, ready |-> Null, lease |-> Null, progress |-> Null]
NoGrant == [step |-> "idle", epoch |-> Null]

ContinuationInit ==
  /\ task = NoTask
  /\ grant = [g \in Granters |-> NoGrant]

ContinuationRequest(sandbox, projected) ==
  [kind |-> "continuation", effort |-> "max", input |-> <<[type |-> "text", flaw |-> Null]>>,
   sandboxPolicy |-> [type |-> sandbox, flaw |-> Null], projected |-> projected]
ReadRequest == ContinuationRequest("readOnly", ToolItems \cup {"agentMessage"})
WriteRequest == ContinuationRequest("workspaceWrite", {})

-----------------------------------------------------------------------------
(* start, for the envelope of a compression task.  A failed start is forgotten,    *)
(* and the next one begins anew.                                             *)

(* The handoff is read as it is now; of a receipt of today's schema the envelope    *)
(* has no digest to compare it with.                                         *)
ReadHandoff(compression) ==
  /\ task.step = "idle" /\ compression # Null
  /\ task' = [task EXCEPT !.step = "root"]
  /\ UNCHANGED <<grant, threadVars>>

(* The new task is none of those before it.                                    *)
RootAnswered(compression) ==
  /\ task.step = "root"
  /\ \E root \in RootAnswers :
       LET isNew == connected /\ IsNewRoot(root)
       IN /\ thread' = IF isNew THEN WithSession(root.id) ELSE thread
          /\ task' = IF isNew /\ root.id # compression
                     THEN [task EXCEPT !.step = "turn", !.thread = root.id]
                     ELSE NoTask
  /\ UNCHANGED <<grant, connected>>

(* The start may also fail before the host is asked: the goal is too long, or the   *)
(* handoff holds the marks it would be put between.                            *)
StartReadTurn ==
  /\ task.step = "turn"
  /\ \/ /\ MayAskTurn(task.thread, ReadRequest)
        /\ thread' = TurnAsked(task.thread, Turn(ReadRequest.sandboxPolicy.type, << >>))
        /\ task' = [task EXCEPT !.step = "turn_asked"]
     \/ UNCHANGED thread /\ task' = NoTask
  /\ UNCHANGED <<grant, connected>>

ReadTurnAnswered ==
  /\ task.step = "turn_asked"
  /\ connected /\ thread[task.thread].asked = Null
  /\ \E answer \in TurnAnswers :
       IF TurnIsStarted(answer)
       THEN /\ thread' = TurnActivated(task.thread)
            /\ task' = [task EXCEPT !.step = "active", !.phase = "READ_TURN_ACTIVE"]
       ELSE /\ thread' = TurnStartFailed(task.thread)
            /\ task' = NoTask
  /\ UNCHANGED <<grant, connected>>

ReadTurnRefused ==
  /\ task.step = "turn_asked"
  /\ thread' = TurnStartFailed(task.thread)
  /\ task' = NoTask
  /\ UNCHANGED <<grant, connected>>

-----------------------------------------------------------------------------
(* awaitReady, awaitProgress: their promises are kept.                          *)

AwaitReady ==
  /\ task.step = "active" /\ task.ready = Null
  /\ task' = [task EXCEPT !.ready = "waiting"]
  /\ UNCHANGED <<grant, threadVars>>

(* Fault for the mutation runs: what else the turn did is not looked at.          *)
IsDraftByAnyMeans(turn) ==
  /\ turn.told = "terminal" /\ turn.status = "completed"
  /\ \E i \in DOMAIN turn.items : turn.items[i].type = "agentMessage" /\ turn.items[i].text # "blank"

(* completeReadTurn: a completed turn that wrote a text and used no tool.          *)
IsDraft(turn) ==
  /\ turn.told = "terminal" /\ turn.status = "completed"
  /\ \A i \in DOMAIN turn.items : turn.items[i].type \notin ToolItems
  /\ \E i \in DOMAIN turn.items : turn.items[i].type = "agentMessage" /\ turn.items[i].text # "blank"

ReadTurnTold ==
  /\ task.ready = "waiting"
  /\ thread[task.thread].turns[1].told # Null
  /\ task' = IF IsDraft(thread[task.thread].turns[1])
             THEN [task EXCEPT !.ready = "receipt", !.phase = "READY"]
             ELSE [task EXCEPT !.ready = "rejected", !.phase = "FAILED"]
  /\ UNCHANGED <<grant, threadVars>>

AwaitProgress ==
  /\ task.step = "active" /\ task.progress = Null
  /\ task.phase = "WRITE_TURN_ACTIVE"
  /\ task' = [task EXCEPT !.progress = "waiting"]
  /\ UNCHANGED <<grant, threadVars>>

(* completeWriteTurn                                                        *)
IsProgress(turn) == turn.told = "terminal" /\ turn.status = "completed"

WriteTurnTold ==
  /\ task.progress = "waiting"
  /\ thread[task.thread].turns[2].told # Null
  /\ task' = IF IsProgress(thread[task.thread].turns[2])
             THEN [task EXCEPT !.progress = "receipt", !.phase = "PROGRESS"]
             ELSE [task EXCEPT !.progress = "rejected", !.phase = "FAILED"]
  /\ UNCHANGED <<grant, threadVars>>

-----------------------------------------------------------------------------
(* grantWrite.                                                              *)

(* A grant that was given is given again, for the same epoch.  A call that is       *)
(* refused otherwise changes nothing.                                         *)
GrantRepeated(g) ==
  /\ task.step = "active" /\ task.lease # Null /\ grant[g].step = "idle"
  /\ grant' = [grant EXCEPT ![g] = [step |-> "granted", epoch |-> task.lease]]
  /\ UNCHANGED <<task, threadVars>>

(* Fault for the mutation runs: the epoch is not compared with the envelope's.     *)
MayGrantAnyEpoch(epoch) == task.phase = "READY" /\ task.ready = "receipt"

MayGrant(epoch) == task.phase = "READY" /\ task.ready = "receipt" /\ epoch = Epoch

(* One of two concurrent grants begins the turn; the other finds it begun and      *)
(* fails the continuation.                                                   *)
GrantWrite(g, epoch) ==
  /\ task.step = "active" /\ task.lease = Null /\ grant[g].step = "idle"
  /\ MayGrant(epoch)
  /\ IF MayAskTurn(task.thread, WriteRequest)
     THEN /\ thread' = TurnAsked(task.thread, Turn(WriteRequest.sandboxPolicy.type, <<"epoch", Epoch>>))
          /\ grant' = [grant EXCEPT ![g] = [step |-> "turn_asked", epoch |-> epoch]]
          /\ UNCHANGED task
     ELSE /\ task' = [task EXCEPT !.phase = "FAILED"]
          /\ UNCHANGED <<thread, grant>>
  /\ UNCHANGED connected

WriteTurnAnswered(g) ==
  /\ grant[g].step = "turn_asked"
  /\ connected /\ thread[task.thread].asked = Null
  /\ \E answer \in TurnAnswers :
       IF TurnIsStarted(answer)
       THEN /\ thread' = TurnActivated(task.thread)
            /\ task' = [task EXCEPT !.lease = grant[g].epoch, !.phase = "WRITE_TURN_ACTIVE"]
            /\ grant' = [grant EXCEPT ![g].step = "granted"]
       ELSE /\ thread' = TurnStartFailed(task.thread)
            /\ task' = [task EXCEPT !.phase = "FAILED"]
            /\ grant' = [grant EXCEPT ![g] = NoGrant]
  /\ UNCHANGED connected

WriteTurnRefused(g) ==
  /\ grant[g].step = "turn_asked"
  /\ thread' = TurnStartFailed(task.thread)
  /\ task' = [task EXCEPT !.phase = "FAILED"]
  /\ grant' = [grant EXCEPT ![g] = NoGrant]
  /\ UNCHANGED connected

-----------------------------------------------------------------------------
ContinuationCrash ==
  /\ task' = NoTask
  /\ grant' = [g \in Granters |-> NoGrant]

StartSteps(compression) ==
  RootAnswered(compression) \/ StartReadTurn \/ ReadTurnAnswered \/ ReadTurnRefused

=============================================================================
