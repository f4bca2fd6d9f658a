---------------------------- MODULE EffectLedger ----------------------------
(***************************************************************************)
(* The effect ledger of FileRunStore (state/file-run-store.ts) for one     *)
(* Run: appendEffectIntent, completeEffect and recoverIncompleteEffects.   *)
(* Every idempotency key has a directory with intent.json and, later,      *)
(* completion.json, each published with a link; the processes that read    *)
(* and write them share no lock.                                           *)
(*                                                                         *)
(* The Run exists.  Its log and snapshot are the subject of RunStore: here *)
(* loading it is one step, which answers with the version of that instant, *)
(* or, when another process commits during the call, may take the files    *)
(* for corrupt (RunStore!DiagnosticModeMeansDamage).                       *)
(***************************************************************************)
EXTENDS Naturals

CONSTANTS
  Processes,   \* operating-system processes that opened the store
  Keys,        \* idempotency keys of the Run
  VersionOf,   \* VersionOf[k]: the state_version in key k
  Payloads,    \* payload digests
  Receipts,    \* receipt digests
  MaxVersion   \* bound on the Run's state_version

None == "none"

ASSUME ProcessesAssumption == None \notin Processes
ASSUME ReceiptsAssumption == None \notin Receipts
ASSUME MaxVersionAssumption == MaxVersion \in Nat
ASSUME VersionOfAssumption == VersionOf \in [Keys -> Nat]

VARIABLES
  version,      \* the Run's state_version
  directories,  \* the keys whose directory exists
  intent,       \* intent[k]: intent.json of key k
  completion,   \* completion[k]: completion.json of key k
  corruptRuns,  \* corruptRuns[p]: p put the Run in read-only diagnostic mode
  pc,           \* pc[p]: the next file operation of p's call
  call,         \* call[p]: the call in progress
  seen,         \* seen[p]: the intent p's call read
  todo,         \* todo[p]: the directories p's recovery has still to read
  found,        \* found[p]: the open effects p's recovery found
  reply,        \* reply[p]: the answer to the last finished call
  start         \* history variable: what was there when p called

Files == <<directories, intent, completion>>
memory == <<call, seen, todo, found, reply, start>>
vars == <<version, Files, corruptRuns, pc, memory>>

\* EffectIntentEvent: occurred_at and event_digest, in which two intents of one
\* payload differ, are abstracted to the author.
Intents  == [author: Processes, payload: Payloads]
NoIntent == [author |-> None]

\* EffectCompletionEvent: previous stands for previous_event_digest.
Completions  == [receipt: Receipts, previous: Intents]
NoCompletion == [receipt |-> None]

Calls ==
  [op: {"append"}, key: Keys, payload: Payloads]
    \cup [op: {"complete"}, key: Keys, receipt: Receipts]
    \cup [op: {"recover"}]
NoCall == [op |-> None]

\* An EffectRecord: INTENDED when its receipt is None, COMPLETED otherwise.
Records ==
  [kind: {"record"}, call: Calls, intent: Intents, receipt: Receipts \cup {None}]
Replies ==
  [kind: {None, "stale_state", "refused", "state_persist_failed"}]
    \cup Records
    \cup [kind: {"effects"}, keys: SUBSET Keys]

Starts  == [version: Nat, intended: SUBSET Keys, completed: SUBSET Keys]
NoStart == [version |-> 0, intended |-> {}, completed |-> {}]

Labels ==
  {"idle", "readIntent", "load", "makeDirectory", "publishIntent", "readCompletion",
   "publishCompletion", "listEffects", "visitEffects"}

TypeOK ==
  /\ version \in Nat
  /\ directories \subseteq Keys
  /\ intent \in [Keys -> Intents \cup {NoIntent}]
  /\ completion \in [Keys -> Completions \cup {NoCompletion}]
  /\ corruptRuns \in [Processes -> BOOLEAN]
  /\ pc \in [Processes -> Labels]
  /\ call \in [Processes -> Calls \cup {NoCall}]
  /\ seen \in [Processes -> Intents \cup {NoIntent}]
  /\ todo \in [Processes -> SUBSET Keys]
  /\ found \in [Processes -> SUBSET Keys]
  /\ reply \in [Processes -> Replies]
  /\ start \in [Processes -> Starts]

Init ==
  /\ version = 0
  /\ directories = {}
  /\ intent = [k \in Keys |-> NoIntent]
  /\ completion = [k \in Keys |-> NoCompletion]
  /\ corruptRuns = [p \in Processes |-> FALSE]
  /\ pc = [p \in Processes |-> "idle"]
  /\ call = [p \in Processes |-> NoCall]
  /\ seen = [p \in Processes |-> NoIntent]
  /\ todo = [p \in Processes |-> {}]
  /\ found = [p \in Processes |-> {}]
  /\ reply = [p \in Processes |-> [kind |-> None]]
  /\ start = [p \in Processes |-> NoStart]

Intended(k)  == intent[k] # NoIntent
Completed(k) == completion[k] # NoCompletion

-----------------------------------------------------------------------------
Goto(p, label) == pc' = [pc EXCEPT ![p] = label]

Continue(p, label) == Goto(p, label) /\ UNCHANGED memory

\* The call ends: nothing of it is kept in memory.
Answer(p, r) ==
  /\ Goto(p, "idle")
  /\ call' = [call EXCEPT ![p] = NoCall]
  /\ seen' = [seen EXCEPT ![p] = NoIntent]
  /\ todo' = [todo EXCEPT ![p] = {}]
  /\ found' = [found EXCEPT ![p] = {}]
  /\ reply' = [reply EXCEPT ![p] = r]
  /\ start' = [start EXCEPT ![p] = NoStart]

Deliver(p, i, receipt) ==
  Answer(p, [kind |-> "record", call |-> call[p], intent |-> i, receipt |-> receipt])

Fail(p, code) == Answer(p, [kind |-> code]) /\ UNCHANGED corruptRuns

\* captureForRun: state_corrupt is remembered for the life of the process.
FailCorrupt(p) ==
  /\ Answer(p, [kind |-> "refused"])
  /\ corruptRuns' = [corruptRuns EXCEPT ![p] = TRUE]

Begin(p, c) ==
  /\ pc[p] = "idle"
  /\ Goto(p, IF c.op = "append" THEN "readIntent" ELSE "load")
  /\ call' = [call EXCEPT ![p] = c]
  /\ reply' = [reply EXCEPT ![p] = [kind |-> None]]
  /\ start' = [start EXCEPT ![p] =
       [version |-> version, intended |-> {k \in Keys : Intended(k)},
        completed |-> {k \in Keys : Completed(k)}]]
  /\ UNCHANGED <<version, Files, corruptRuns, seen, todo, found>>

\* captureForRun: a mutation is refused in read-only diagnostic mode.
InDiagnosticMode(p) == corruptRuns[p] /\ call[p].op \in {"append", "complete"}

RefuseMutation(p) ==
  /\ pc[p] \in {"readIntent", "load"}
  /\ InDiagnosticMode(p)
  /\ Fail(p, "refused")
  /\ UNCHANGED <<version, Files>>

-----------------------------------------------------------------------------
\* readEffectRecord.  A directory without intent.json counts as no record; that a
\* completion.json never lies there alone is LedgerStaysIntact.

ReadIntent(p) ==
  /\ pc[p] = "readIntent"
  /\ ~InDiagnosticMode(p)
  /\ LET k == call[p].key
     IN  IF Intended(k)
         THEN /\ Goto(p, "readCompletion")
              /\ seen' = [seen EXCEPT ![p] = intent[k]]
              /\ UNCHANGED <<corruptRuns, call, todo, found, reply, start>>
         ELSE IF call[p].op = "append"
              THEN Continue(p, "load") /\ UNCHANGED corruptRuns
              ELSE FailCorrupt(p)
  /\ UNCHANGED <<version, Files>>

\* Fault for the mutation runs: a recorded effect is taken for the caller's.
AgreesAnyway(p) == TRUE

\* The recorded effect is the one the caller asks for.
Agrees(p) ==
  LET k == call[p].key
  IN  CASE call[p].op = "append"   -> seen[p].payload = call[p].payload
        [] call[p].op = "complete" -> completion[k].receipt = call[p].receipt

\* effectRecord
FollowsIntent(p) == completion[call[p].key].previous = seen[p]

ReadCompletion(p) ==
  /\ pc[p] = "readCompletion"
  /\ LET k == call[p].key
     IN  IF ~Completed(k) /\ call[p].op = "complete"
         THEN Continue(p, "publishCompletion") /\ UNCHANGED corruptRuns
         ELSE IF (Completed(k) => FollowsIntent(p)) /\ Agrees(p)
              THEN Deliver(p, seen[p], completion[k].receipt) /\ UNCHANGED corruptRuns
              ELSE FailCorrupt(p)
  /\ UNCHANGED <<version, Files>>

-----------------------------------------------------------------------------
\* The Run is loaded: a new intent must be for its version.

\* Fault for the mutation runs: the version is not compared.
LoadAny(p) ==
  /\ pc[p] = "load"
  /\ ~InDiagnosticMode(p)
  /\ CASE call[p].op = "append"   -> Continue(p, "makeDirectory") /\ UNCHANGED corruptRuns
       [] call[p].op = "complete" -> Continue(p, "readIntent") /\ UNCHANGED corruptRuns
       [] call[p].op = "recover"  -> Continue(p, "listEffects") /\ UNCHANGED corruptRuns
  /\ UNCHANGED <<version, Files>>

Load(p) ==
  /\ pc[p] = "load"
  /\ ~InDiagnosticMode(p)
  /\ CASE call[p].op = "append" ->
            IF version = VersionOf[call[p].key]
            THEN Continue(p, "makeDirectory") /\ UNCHANGED corruptRuns
            ELSE Fail(p, "stale_state")
       [] call[p].op = "complete" -> Continue(p, "readIntent") /\ UNCHANGED corruptRuns
       [] call[p].op = "recover"  -> Continue(p, "listEffects") /\ UNCHANGED corruptRuns
  /\ UNCHANGED <<version, Files>>

LoadMisreads(p) ==
  /\ pc[p] = "load"
  /\ ~InDiagnosticMode(p)
  /\ version > start[p].version
  /\ FailCorrupt(p)
  /\ UNCHANGED <<version, Files>>

-----------------------------------------------------------------------------
\* publishImmutableJson: writing the temporary file makes the directory first; the
\* link exists for everybody or is refused.

MakeDirectory(p) ==
  /\ pc[p] = "makeDirectory"
  /\ directories' = directories \cup {call[p].key}
  /\ Continue(p, "publishIntent")
  /\ UNCHANGED <<version, intent, completion, corruptRuns>>

PublishIntent(p) ==
  /\ pc[p] = "publishIntent"
  /\ ~Intended(call[p].key)
  /\ LET i == [author |-> p, payload |-> call[p].payload]
     IN  /\ intent' = [intent EXCEPT ![call[p].key] = i]
         /\ Deliver(p, i, None)
  /\ UNCHANGED <<version, directories, completion, corruptRuns>>

\* Whoever loses the race for the link reads the winner's record.
IntentExists(p) ==
  /\ pc[p] = "publishIntent"
  /\ Intended(call[p].key)
  /\ Continue(p, "readIntent")
  /\ UNCHANGED <<version, Files, corruptRuns>>

PublishCompletion(p) ==
  /\ pc[p] = "publishCompletion"
  /\ ~Completed(call[p].key)
  /\ completion' = [completion EXCEPT ![call[p].key] =
                      [receipt |-> call[p].receipt, previous |-> seen[p]]]
  /\ Deliver(p, seen[p], call[p].receipt)
  /\ UNCHANGED <<version, directories, intent, corruptRuns>>

CompletionExists(p) ==
  /\ pc[p] = "publishCompletion"
  /\ Completed(call[p].key)
  /\ Continue(p, "readCompletion")
  /\ UNCHANGED <<version, Files, corruptRuns>>

-----------------------------------------------------------------------------
\* recoverIncompleteEffects: one listing, then every directory of it.

ListEffects(p) ==
  /\ pc[p] = "listEffects"
  /\ Goto(p, "visitEffects")
  /\ todo' = [todo EXCEPT ![p] = directories]
  /\ UNCHANGED <<version, Files, corruptRuns, call, seen, found, reply, start>>

\* An intent does not change between its reading and that of its completion, so the
\* two are one step.
VisitEffect(p, k) ==
  /\ pc[p] = "visitEffects"
  /\ k \in todo[p]
  /\ IF Completed(k) /\ completion[k].previous # intent[k]
     THEN FailCorrupt(p)
     ELSE /\ todo' = [todo EXCEPT ![p] = @ \ {k}]
          /\ found' = [found EXCEPT ![p] = IF Intended(k) /\ ~Completed(k) THEN @ \cup {k} ELSE @]
          /\ UNCHANGED <<corruptRuns, pc, call, seen, reply, start>>
  /\ UNCHANGED <<version, Files>>

ReturnEffects(p) ==
  /\ pc[p] = "visitEffects"
  /\ todo[p] = {}
  /\ Answer(p, [kind |-> "effects", keys |-> found[p]])
  /\ UNCHANGED <<version, Files, corruptRuns>>

-----------------------------------------------------------------------------
\* A file cannot be read or written (no space, permissions, a failed fsync).
PersistFails(p) ==
  /\ pc[p] # "idle"
  /\ Fail(p, "state_persist_failed")
  /\ UNCHANGED <<version, Files>>

\* The process dies and is started again; only the files survive.
Crash(p) ==
  /\ Answer(p, [kind |-> None])
  /\ corruptRuns' = [corruptRuns EXCEPT ![p] = FALSE]
  /\ UNCHANGED <<version, Files>>

\* compareAndSwap commits the Run's next version.
Commit ==
  /\ version < MaxVersion
  /\ version' = version + 1
  /\ UNCHANGED <<Files, corruptRuns, pc, memory>>

Step(p) ==
  \/ \E c \in Calls : Begin(p, c)
  \/ RefuseMutation(p)
  \/ ReadIntent(p)
  \/ ReadCompletion(p)
  \/ Load(p)
  \/ LoadMisreads(p)
  \/ MakeDirectory(p)
  \/ PublishIntent(p)
  \/ IntentExists(p)
  \/ PublishCompletion(p)
  \/ CompletionExists(p)
  \/ ListEffects(p)
  \/ \E k \in Keys : VisitEffect(p, k)
  \/ ReturnEffects(p)
  \/ PersistFails(p)
  \/ Crash(p)

Next == Commit \/ \E p \in Processes : Step(p)

Spec == Init /\ [][Next]_vars

-----------------------------------------------------------------------------
\* Properties.

\* No completion.json lies in a directory without intent.json, and each follows the
\* intent that lies there now: recovery and replay never find a broken ledger.
LedgerStaysIntact ==
  \A k \in Keys :
    /\ Intended(k) => k \in directories
    /\ Completed(k) => Intended(k) /\ completion[k].previous = intent[k]

\* Every record a caller was given is the one in the ledger, for good, and is about
\* the payload or the receipt it asked for: of two processes that perform the same
\* effect neither is told something else than the other.
AcknowledgedRecordsAgree ==
  \A p \in Processes :
    reply[p].kind = "record" =>
      LET c == reply[p].call
      IN  /\ intent[c.key] = reply[p].intent
          /\ reply[p].receipt \in {None, completion[c.key].receipt}
          /\ c.op = "append"   => reply[p].intent.payload = c.payload
          /\ c.op = "complete" => reply[p].receipt = c.receipt

\* A process goes into read-only diagnostic mode only when its caller contradicts
\* the ledger (another payload, another receipt, a completion without an intent) or
\* when loading the Run was disturbed by a commit; racing for one effect with equal
\* arguments is no contradiction.
Contradicts(p) ==
  LET c == call[p]
  IN  \/ c.op = "append" /\ Intended(c.key) /\ intent[c.key].payload # c.payload
      \/ c.op = "complete" /\ ~Intended(c.key)
      \/ c.op = "complete" /\ Completed(c.key) /\ completion[c.key].receipt # c.receipt

DiagnosisIsEarned ==
  [][\A p \in Processes :
       corruptRuns'[p] /\ ~corruptRuns[p] => pc[p] = "load" \/ Contradicts(p)]_vars

\* The ledger implements the atomic register: an intent is published only for a
\* version the Run had during the call, a failed call wrote nothing, and recovery
\* returns every effect that was open throughout and none that never was.
Register == INSTANCE EffectRegister
  WITH completion <- [k \in Keys |-> completion[k].receipt]

ImplementsRegister == Register!Spec

=============================================================================
