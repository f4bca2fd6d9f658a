------------------------------ MODULE TaskLaunch ------------------------------
(***************************************************************************)
(* The two launchers of a relay over one App Server connection and one set of   *)
(* fresh-task sessions: the compression launcher starts a task and waits for its  *)
(* handoff, then the continuation launcher starts the next task.  The process     *)
(* may die at any time; the journal, the folders and the threads of the host stay, *)
(* and the turns of those threads go on.                                      *)
(***************************************************************************)
EXTENDS CompressionLauncher, ContinuationLauncher

CONSTANT MaxCrashes  \* bound
ASSUME MaxCrashesAssumption == MaxCrashes \in Nat

VARIABLE crashes

launchVars == <<threadVars, compressionVars, continuationVars, crashes>>

LaunchInit == ThreadsInit /\ CompressionInit /\ ContinuationInit /\ crashes = 0

Crash ==
  /\ crashes < MaxCrashes
  /\ crashes' = crashes + 1
  /\ ThreadsCrash /\ CompressionCrash /\ ContinuationCrash

Compression ==
  /\ Start \/ LaunchSteps \/ AwaitHandoff \/ ReplayHandoff \/ HandoffSteps
  /\ UNCHANGED <<continuationVars, crashes>>

(* The continuation is started for the handoff that was answered.               *)
Continuation ==
  /\ \/ \E r \in answered : ReadHandoff(r.task) \/ StartSteps(r.task)
     \/ AwaitReady \/ ReadTurnTold \/ AwaitProgress \/ WriteTurnTold
     \/ \E g \in Granters :
          \/ GrantRepeated(g) \/ \E epoch \in Epochs : GrantWrite(g, epoch)
          \/ WriteTurnAnswered(g) \/ WriteTurnRefused(g)
  /\ UNCHANGED <<compressionVars, crashes>>

Host ==
  /\ ConnectionFails \/ \E t \in HostThreads : HostStartsTurn(t) \/ HostEndsTurn(t)
  /\ UNCHANGED <<compressionVars, continuationVars, crashes>>

LaunchNext == Compression \/ Continuation \/ Host \/ Crash

(* The launchers' own steps are taken; a request is answered, refused or timed    *)
(* out by the client.  Nobody has to call, no turn has to end.                  *)
LaunchFairness ==
  /\ WF_launchVars(LaunchSteps /\ UNCHANGED <<continuationVars, crashes>>)
  /\ WF_launchVars(HandoffSteps /\ UNCHANGED <<continuationVars, crashes>>)
  /\ WF_launchVars((ReadTurnTold \/ WriteTurnTold \/ \E r \in answered : StartSteps(r.task))
             /\ UNCHANGED <<compressionVars, crashes>>)
  /\ WF_launchVars((\E g \in Granters : WriteTurnAnswered(g) \/ WriteTurnRefused(g))
             /\ UNCHANGED <<compressionVars, crashes>>)

LaunchSpec == LaunchInit /\ [][LaunchNext]_launchVars /\ LaunchFairness

-----------------------------------------------------------------------------
(* Properties.                                                              *)

(* awaitHandoff answers the one handoff of the effect, whichever process is asked,  *)
(* and it is what a task that completed ended with.                            *)
HandoffIsStable ==
  /\ \A r, s \in answered : r = s
  /\ \A r \in answered :
       LET turn == thread[r.task].turns[1]
       IN turn.status = "completed" /\ HasResult(turn.items) /\ Result(turn.items) = r.address

(* Attempts are journaled before anything of them exists, so that a retry never    *)
(* finds its folder made, and no two compression tasks write into one folder.      *)
AttemptsAreApart ==
  /\ \A n \in folders : journal # Null /\ n <= journal.attempt
  /\ \A t, u \in HostThreads :
       t # u /\ thread[t].turns # << >> /\ thread[u].turns # << >>
         => thread[t].turns[1].root # thread[u].turns[1].root \/ thread[t].turns[1].root = << >>

(* The turns of a thread are those of one task: a compression's only turn, or a    *)
(* continuation's read-only turn and at most one turn that may write.  That one    *)
(* was asked for after a draft without a single tool call, with the epoch of the   *)
(* envelope.                                                                *)
WriteTurnIsEarned ==
  \A t \in HostThreads :
    LET turns == thread[t].turns
    IN /\ Len(turns) <= 2
       /\ Len(turns) = 2 =>
            /\ turns[1].sandbox = "readOnly" /\ turns[1].status = "completed"
            /\ \E i \in DOMAIN turns[1].items : turns[1].items[i].type = "agentMessage"
            /\ \A i \in DOMAIN turns[1].items : turns[1].items[i].type \notin ToolItems
            /\ turns[2].sandbox = "workspaceWrite" /\ turns[2].root = <<"epoch", Epoch>>

(* A grant that was answered names the epoch its turn runs with, and the progress   *)
(* of a task is that of a turn that was granted and completed.                   *)
GrantsAndProgressAreEarned ==
  /\ \A g \in Granters :
       grant[g].step = "granted" =>
         /\ Len(thread[task.thread].turns) = 2
         /\ thread[task.thread].turns[2].root = <<"epoch", grant[g].epoch>>
  /\ task.progress = "receipt" =>
       /\ \E g \in Granters : grant[g].step = "granted"
       /\ thread[task.thread].turns[2].status = "completed"

IsOver(t, i) == ~connected \/ thread[t].turns[i].status # "inProgress"

LaunchIsOwed == launch.step \notin {"idle", "launched"}
HandoffIsOwed ==
  \/ handoff.step = "waiting" /\ IsOver(active, 1)
  \/ handoff.step \in {"writing", "failing"}
ContinuationIsOwed ==
  \/ task.step \notin {"idle", "active"}
  \/ task.ready = "waiting" /\ IsOver(task.thread, 1)
  \/ task.progress = "waiting" /\ IsOver(task.thread, 2)
GrantIsOwed == \E g \in Granters : grant[g].step = "turn_asked"

(* Every start and grant ends, and who waits for a turn hears of its end or of the   *)
(* connection's: an answer is never owed for good.                              *)
LaunchesEnd ==
  []<>~LaunchIsOwed /\ []<>~HandoffIsOwed /\ []<>~ContinuationIsOwed /\ []<>~GrantIsOwed

=============================================================================
