---------------------------- MODULE CommandJournal ----------------------------
(***************************************************************************)
(* FileCommandJournal (control-plane/file-command-journal.ts) and          *)
(* ControlPlane.execute, which brackets every control command with it: a   *)
(* command id is claimed by linking intent.json, the command is executed   *)
(* by whoever claimed it, and its receipt is linked as completion.json.    *)
(* A caller that repeats a command id is answered from these two files.    *)
(*                                                                         *)
(* What a command does is the subject of RunControl; here it is executed   *)
(* in one step and has one of several outcomes.  Each file operation is a  *)
(* step, and processes may die between any two.                            *)
(* Its names are other than those of RunControl, beside which it stands.   *)
(***************************************************************************)
EXTENDS Naturals

CONSTANTS
  Callers,    \* operating-system processes that opened the journal
  Ids,        \* command ids
  Requests,   \* digests of a command with its envelope
  Outcomes    \* the outcomes of executing a command

Absent == "none"

ASSUME CallersAssumption == Absent \notin Callers

VARIABLES
  intent,      \* intent[i]: intent.json of command id i
  completion,  \* completion[i]: completion.json of command id i
  executions,  \* history variable: how often command id i was executed
  at,          \* at[p]: the next operation of p's call
  call,        \* call[p]: the command p was asked to execute
  receipt,     \* receipt[p]: the receipt p made and has not journaled yet
  told         \* told[p]: the answer to the last finished call

journalVars == <<intent, completion, executions, at, call, receipt, told>>

Files == <<intent, completion>>

\* claimant stands for started_at, in which two claims of one request differ.
NoIntent == [claimant |-> Absent]
Intents  == [claimant: Callers, request: Requests]

NoReceipt == [by |-> Absent]
Receipts  == [by: Callers, outcome: Outcomes]

NoCall == [id |-> Absent]
Calls  == [id: Ids, request: Requests]

JournalErrors == {"command_replay_conflict", "command_in_progress", "command_journal_failed"}

Answers ==
  [kind: JournalErrors \cup {Absent}] \cup [kind: {"receipt"}, call: Calls, receipt: Receipts]

Operations ==
  {"idle", "readIntent", "publishIntent", "readCompletion", "execute", "publishCompletion"}

JournalTypeOK ==
  /\ intent \in [Ids -> Intents \cup {NoIntent}]
  /\ completion \in [Ids -> Receipts \cup {NoReceipt}]
  /\ executions \in [Ids -> Nat]
  /\ at \in [Callers -> Operations]
  /\ call \in [Callers -> Calls \cup {NoCall}]
  /\ receipt \in [Callers -> Receipts \cup {NoReceipt}]
  /\ told \in [Callers -> Answers]

JournalInit ==
  /\ intent = [i \in Ids |-> NoIntent]
  /\ completion = [i \in Ids |-> NoReceipt]
  /\ executions = [i \in Ids |-> 0]
  /\ at = [p \in Callers |-> "idle"]
  /\ call = [p \in Callers |-> NoCall]
  /\ receipt = [p \in Callers |-> NoReceipt]
  /\ told = [p \in Callers |-> [kind |-> Absent]]

-----------------------------------------------------------------------------
MoveTo(p, label) == at' = [at EXCEPT ![p] = label]

Reply(p, r) ==
  /\ MoveTo(p, "idle")
  /\ call' = [call EXCEPT ![p] = NoCall]
  /\ receipt' = [receipt EXCEPT ![p] = NoReceipt]
  /\ told' = [told EXCEPT ![p] = r]

Fail(p, code) == Reply(p, [kind |-> code])
Deliver(p, r) == Reply(p, [kind |-> "receipt", call |-> call[p], receipt |-> r])

Advance(p, label) == MoveTo(p, label) /\ UNCHANGED <<call, receipt, told>>

Begin(p, c) ==
  /\ at[p] = "idle"
  /\ MoveTo(p, "readIntent")
  /\ call' = [call EXCEPT ![p] = c]
  /\ told' = [told EXCEPT ![p] = [kind |-> Absent]]
  /\ UNCHANGED <<Files, executions, receipt>>

\* Fault for the mutation runs: the request is not compared.
RecognizeAny(p) == Advance(p, "readCompletion")

\* The first half of replayExisting: a command id belongs to one request.
Recognize(p) ==
  IF intent[call[p].id].request = call[p].request
  THEN Advance(p, "readCompletion")
  ELSE Fail(p, "command_replay_conflict")

ReadIntent(p) ==
  /\ at[p] = "readIntent"
  /\ IF intent[call[p].id] = NoIntent THEN Advance(p, "publishIntent") ELSE Recognize(p)
  /\ UNCHANGED <<Files, executions>>

\* The link is the claim; whoever loses it reads the winner's intent.
Claim(p) ==
  /\ at[p] = "publishIntent"
  /\ intent[call[p].id] = NoIntent
  /\ intent' = [intent EXCEPT ![call[p].id] =
                  [claimant |-> p, request |-> call[p].request]]
  /\ Advance(p, "execute")
  /\ UNCHANGED <<completion, executions>>

ClaimLost(p) ==
  /\ at[p] = "publishIntent"
  /\ intent[call[p].id] # NoIntent
  /\ Recognize(p)
  /\ UNCHANGED <<Files, executions>>

\* Fault for the mutation runs: a command without a receipt is executed again.
ExecuteUnfinished(p) ==
  /\ at[p] = "readCompletion"
  /\ IF completion[call[p].id] = NoReceipt
     THEN Advance(p, "execute")
     ELSE Deliver(p, completion[call[p].id])
  /\ UNCHANGED <<Files, executions>>

\* The second half of replayExisting.
ReadCompletion(p) ==
  /\ at[p] = "readCompletion"
  /\ IF completion[call[p].id] = NoReceipt
     THEN Fail(p, "command_in_progress")
     ELSE Deliver(p, completion[call[p].id])
  /\ UNCHANGED <<Files, executions>>

\* executeClaimed turns whatever is thrown into a receipt.
Execute(p, outcome) ==
  /\ at[p] = "execute"
  /\ executions' = [executions EXCEPT ![call[p].id] = @ + 1]
  /\ receipt' = [receipt EXCEPT ![p] = [by |-> p, outcome |-> outcome]]
  /\ MoveTo(p, "publishCompletion")
  /\ UNCHANGED <<Files, call, told>>

\* complete: the receipt is answered only when it is, or equals, the journaled one.
PublishCompletion(p) ==
  /\ at[p] = "publishCompletion"
  /\ LET i == call[p].id
     IN  IF completion[i] = NoReceipt
         THEN completion' = [completion EXCEPT ![i] = receipt[p]] /\ Deliver(p, receipt[p])
         ELSE /\ UNCHANGED completion
              /\ IF completion[i] = receipt[p]
                 THEN Deliver(p, completion[i])
                 ELSE Fail(p, "command_replay_conflict")
  /\ UNCHANGED <<intent, executions>>

\* The file system refuses a write, or, before the completion, the clock fails.
PersistFails(p) ==
  /\ at[p] \in {"publishIntent", "publishCompletion"}
  /\ Fail(p, "command_journal_failed")
  /\ UNCHANGED <<Files, executions>>

\* The process dies; only the files survive.
CallerDies(p) ==
  /\ at[p] # "idle"
  /\ Fail(p, Absent)
  /\ UNCHANGED <<Files, executions>>

JournalNext ==
  \E p \in Callers :
    \/ \E c \in Calls : Begin(p, c)
    \/ ReadIntent(p)
    \/ Claim(p)
    \/ ClaimLost(p)
    \/ ReadCompletion(p)
    \/ \E outcome \in Outcomes : Execute(p, outcome)
    \/ PublishCompletion(p)
    \/ PersistFails(p)
    \/ CallerDies(p)

JournalSpec == JournalInit /\ [][JournalNext]_journalVars

-----------------------------------------------------------------------------
\* Properties.

\* However often a command id is sent, by however many processes, and wherever
\* they die, its command is executed at most once.
ExecutedAtMostOnce == \A i \in Ids : executions[i] <= 1

\* All callers of a command id that get a receipt get the same one, the one that
\* is journaled, and only if they asked for what was executed.
RepliesAreTheJournaledReceipt ==
  \A p \in Callers :
    told[p].kind = "receipt" =>
      LET c == told[p].call
      IN  /\ told[p].receipt = completion[c.id]
          /\ c.request = intent[c.id].request

\* A receipt is journaled for a command that was executed, by its executor.
ReceiptsAreEarned ==
  \A i \in Ids :
    completion[i] # NoReceipt =>
      executions[i] > 0 /\ completion[i].by = intent[i].claimant

=============================================================================
