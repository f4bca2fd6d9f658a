------------------------- MODULE CompressionLauncher -------------------------
(***************************************************************************)
(* AppServerCompressionTaskLauncher                                         *)
(* (handoff/app-server-compression-task-launcher.ts), for one compression     *)
(* effect: an attempt is allocated in a journal before its folder is made and   *)
(* its task started, and the handoff a finished task answers is journaled       *)
(* before it is returned.  The journal and the folders survive the process;     *)
(* the promises it keeps of a start and of a handoff do not.                   *)
(***************************************************************************)
EXTENDS TaskThreads

CONSTANTS
  Addresses,   \* absolute paths a task may answer
  SkillLists,  \* what may be answered to skills/list
  MaxAttempts  \* bound: compression attempts

ASSUME MaxAttemptsAssumption == MaxAttempts \in Nat

HandoffReceipts == [task: HostThreads, address: Addresses]
JournalRecords ==
  [status: {"ALLOCATED", "LAUNCHED", "FAILED", "COMPLETED"}, attempt: Nat,
   task: HostThreads \cup {Null}, receipt: HandoffReceipts \cup {Null}]
HandoffStates == {"waiting", "writing", "failing", "settled"}

ASSUME NullIsNoRecord == Null \notin HandoffReceipts \cup JournalRecords \cup HandoffStates

VARIABLES
  journal,  \* the launcher journal of the effect
  folders,  \* the attempts whose artifact folder exists
  launch,   \* the start under way, or the launch receipt that is kept
  active,   \* the launched task whose handoff is not settled
  handoff,  \* the promise of its handoff
  answered  \* history: the handoff receipts that were returned

compressionVars == <<journal, folders, launch, active, handoff, answered>>

NoLaunch == [step |-> "idle", attempt |-> 0, task |-> Null]
NoHandoff == [step |-> Null, receipt |-> Null]

CompressionInit ==
  /\ journal = Null /\ folders = {} /\ launch = NoLaunch
  /\ active = Null /\ handoff = NoHandoff /\ answered = {}

ExportSkill == "export-codex-handoff"
SourceCwd == "cwd"

Step(step) == launch' = [launch EXCEPT !.step = step]
Record(status, task, receipt) ==
  [status |-> status, attempt |-> launch.attempt, task |-> task, receipt |-> receipt]

-----------------------------------------------------------------------------
(* The task's answer.                                                       *)

(* firstMarkdownFileAddress: the last final answer with a text in it, or the      *)
(* last message if none is marked final; it must not be too long and must link    *)
(* an absolute path.                                                        *)
Messages(items) ==
  SelectSeq(items, LAMBDA item : item.type = "agentMessage" /\ item.text # "blank")
FinalMessages(items) == SelectSeq(Messages(items), LAMBDA item : item.phase = "final_answer")
ResultMessages(items) ==
  IF FinalMessages(items) # << >> THEN FinalMessages(items) ELSE Messages(items)
Result(items) == ResultMessages(items)[Len(ResultMessages(items))].text
HasResult(items) == Messages(items) # << >> /\ Result(items) \in Addresses

(* buildReceipt, for a turn that was told to have completed.                   *)
CompressionTurn(task) == thread[task].turns[1]
Receipt(task) == [task |-> task, address |-> Result(CompressionTurn(task).items)]
IsAcceptable(task) ==
  LET turn == CompressionTurn(task)
  IN turn.told = "terminal" /\ turn.status = "completed" /\ HasResult(turn.items)

CompressionRequest ==
  [kind |-> "compression", effort |-> "medium",
   input |-> <<[type |-> "text", flaw |-> Null], [type |-> "skill", flaw |-> Null]>>,
   sandboxPolicy |-> [type |-> "workspaceWrite", flaw |-> Null],
   projected |-> {"agentMessage"}]

-----------------------------------------------------------------------------
(* start.  A start that succeeded is kept, also when its task fails later; one    *)
(* that failed is forgotten, and the next one makes a new attempt.              *)

AttemptsMade == IF journal = Null THEN 0 ELSE journal.attempt
IsCompleted == journal # Null /\ journal.status = "COMPLETED"

(* Fault for the mutation runs: a completed journal is taken for an old attempt. *)
StartIgnoresCompletion ==
  /\ launch.step = "idle" /\ AttemptsMade < MaxAttempts
  /\ launch' = [step |-> "skill", attempt |-> AttemptsMade + 1, task |-> Null]
  /\ UNCHANGED <<journal, folders, active, handoff, answered, threadVars>>

Start ==
  /\ launch.step = "idle"
  /\ \/ /\ IsCompleted
        /\ launch' = [step |-> "launched", attempt |-> AttemptsMade, task |-> journal.task]
     \/ /\ ~IsCompleted /\ AttemptsMade < MaxAttempts
        /\ launch' = [step |-> "skill", attempt |-> AttemptsMade + 1, task |-> Null]
  /\ UNCHANGED <<journal, folders, active, handoff, answered, threadVars>>

(* resolveExportSkill: the only entry for the directory has no errors and one     *)
(* such skill, enabled, whose files are there (found).                         *)
SkillsAnswered ==
  /\ launch.step = "skill"
  /\ \E list \in SkillLists, found \in BOOLEAN :
       Step(IF /\ connected /\ found
               /\ SkillResolves(list, SourceCwd, ExportSkill)
               /\ ~EntriesFor(list, SourceCwd)[1].errors
            THEN "allocate" ELSE "idle")
  /\ UNCHANGED <<journal, folders, active, handoff, answered, threadVars>>

(* Fault for the mutation runs: only the task is journaled, not the attempt.      *)
AllocatedInMemory ==
  /\ launch.step = "allocate"
  /\ Step("materialize")
  /\ UNCHANGED <<journal, folders, active, handoff, answered, threadVars>>

(* The attempt is on the disk before anything is done for it.                   *)
WriteAllocated ==
  /\ launch.step = "allocate"
  /\ journal' = Record("ALLOCATED", Null, Null)
  /\ Step("materialize")
  /\ UNCHANGED <<folders, active, handoff, answered, threadVars>>

AllocationFails ==
  /\ launch.step = "allocate"
  /\ Step("idle")
  /\ UNCHANGED <<journal, folders, active, handoff, answered, threadVars>>

(* materializeArtifactAttempt: the folder must be new.                         *)
Materialize ==
  /\ launch.step = "materialize"
  /\ launch.attempt \notin folders
  /\ folders' = folders \cup {launch.attempt}
  /\ \/ Step("session")
     \/ Step("failing")
  /\ UNCHANGED <<journal, active, handoff, answered, threadVars>>

MaterializeFails ==
  /\ launch.step = "materialize"
  /\ Step("failing")
  /\ UNCHANGED <<journal, folders, active, handoff, answered, threadVars>>

SessionAnswered ==
  /\ launch.step = "session"
  /\ \E root \in RootAnswers :
       IF connected /\ IsNewRoot(root)
       THEN /\ thread' = WithSession(root.id)
            /\ launch' = [launch EXCEPT !.step = "turn", !.task = root.id]
       ELSE UNCHANGED thread /\ Step("failing")
  /\ UNCHANGED <<journal, folders, active, handoff, answered, connected>>

AskTurn ==
  /\ launch.step = "turn"
  /\ IF MayAskTurn(launch.task, CompressionRequest)
     THEN /\ thread' = TurnAsked(launch.task,
                                 Turn(CompressionRequest.sandboxPolicy.type, <<"attempt", launch.attempt>>))
          /\ Step("turn_asked")
     ELSE UNCHANGED thread /\ Step("failing")
  /\ UNCHANGED <<journal, folders, active, handoff, answered, connected>>

TurnAnswered ==
  /\ launch.step = "turn_asked"
  /\ connected /\ thread[launch.task].asked = Null
  /\ \E answer \in TurnAnswers :
       IF TurnIsStarted(answer)
       THEN thread' = TurnActivated(launch.task) /\ Step("launching")
       ELSE thread' = TurnStartFailed(launch.task) /\ Step("failing")
  /\ UNCHANGED <<journal, folders, active, handoff, answered, connected>>

(* The host refuses, does not answer in time, or is gone.                       *)
TurnRefused ==
  /\ launch.step = "turn_asked"
  /\ thread' = TurnStartFailed(launch.task)
  /\ Step("failing")
  /\ UNCHANGED <<journal, folders, active, handoff, answered, connected>>

WriteLaunched ==
  /\ launch.step = "launching"
  /\ journal' = Record("LAUNCHED", launch.task, Null)
  /\ active' = launch.task
  /\ Step("launched")
  /\ UNCHANGED <<folders, handoff, answered, threadVars>>

LaunchIsNotWritten ==
  /\ launch.step = "launching"
  /\ Step("failing")
  /\ UNCHANGED <<journal, folders, active, handoff, answered, threadVars>>

(* The failure is journaled if that works.                                    *)
StartFails ==
  /\ launch.step = "failing"
  /\ journal' \in {journal, Record("FAILED", Null, Null)}
  /\ launch' = NoLaunch
  /\ UNCHANGED <<folders, active, handoff, answered, threadVars>>

-----------------------------------------------------------------------------
(* awaitHandoff.  Its promise is kept, also when it was rejected.              *)

AwaitHandoff ==
  /\ active # Null /\ handoff = NoHandoff
  /\ handoff' = [handoff EXCEPT !.step = "waiting"]
  /\ UNCHANGED <<journal, folders, launch, active, answered, threadVars>>

(* A process that did not launch the task answers from the journal.             *)
ReplayHandoff ==
  /\ active = Null /\ handoff = NoHandoff
  /\ IsCompleted
  /\ answered' = answered \cup {journal.receipt}
  /\ UNCHANGED <<journal, folders, launch, active, handoff, threadVars>>

HandoffTold ==
  /\ handoff.step = "waiting"
  /\ CompressionTurn(active).told # Null
  /\ handoff' = IF IsAcceptable(active)
                THEN [step |-> "writing", receipt |-> Receipt(active)]
                ELSE [step |-> "failing", receipt |-> Null]
  /\ UNCHANGED <<journal, folders, launch, active, answered, threadVars>>

WriteCompleted ==
  /\ handoff.step = "writing"
  /\ journal' = Record("COMPLETED", active, handoff.receipt)
  /\ handoff' = [handoff EXCEPT !.step = "settled"]
  /\ answered' = answered \cup {handoff.receipt}
  /\ active' = Null
  /\ UNCHANGED <<folders, launch, threadVars>>

CompletionIsNotWritten ==
  /\ handoff.step = "writing"
  /\ handoff' = [step |-> "failing", receipt |-> Null]
  /\ UNCHANGED <<journal, folders, launch, active, answered, threadVars>>

HandoffFails ==
  /\ handoff.step = "failing"
  /\ journal' \in {journal, Record("FAILED", active, Null)}
  /\ handoff' = [handoff EXCEPT !.step = "settled"]
  /\ active' = Null
  /\ UNCHANGED <<folders, launch, answered, threadVars>>

-----------------------------------------------------------------------------
CompressionCrash ==
  /\ launch' = NoLaunch /\ active' = Null /\ handoff' = NoHandoff
  /\ UNCHANGED <<journal, folders, answered>>

LaunchSteps ==
  \/ SkillsAnswered \/ WriteAllocated \/ AllocationFails \/ Materialize \/ MaterializeFails
  \/ SessionAnswered \/ AskTurn \/ TurnAnswered \/ TurnRefused \/ WriteLaunched
  \/ LaunchIsNotWritten \/ StartFails

HandoffSteps == HandoffTold \/ WriteCompleted \/ CompletionIsNotWritten \/ HandoffFails

=============================================================================
