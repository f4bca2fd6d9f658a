--------------------------- MODULE EffectRegister ---------------------------
(***************************************************************************)
(* What the effect ledger promises the coordinators that perform external  *)
(* effects: per idempotency key an intent that is written once and, after  *)
(* it, a completion that is written once.  Every call takes effect at one  *)
(* instant between its invocation and its answer.  A call that answers     *)
(* with an error has written nothing; a crash leaves it open.              *)
(***************************************************************************)
EXTENDS Naturals

CONSTANTS
  Processes,   \* operating-system processes that opened the store
  Keys,        \* idempotency keys of one Run
  VersionOf,   \* VersionOf[k]: the state_version in key k
  Payloads,    \* payload digests
  Receipts,    \* receipt digests
  MaxVersion   \* bound on the Run's state_version

None == "none"

VARIABLES
  version,     \* the Run's state_version
  intent,      \* intent[k]
  completion,  \* completion[k]
  call,        \* call[p]: the call in progress
  start,       \* start[p]: what was there when p called
  reply        \* reply[p]: the answer to the last finished call

vars == <<version, intent, completion, call, start, reply>>

\* intended_at, in which two intents of one payload differ, is abstracted to its author.
Intents     == [author: Processes, payload: Payloads]
NoIntent    == [author |-> None]

Calls ==
  [op: {"append"}, key: Keys, payload: Payloads]
    \cup [op: {"complete"}, key: Keys, receipt: Receipts]
    \cup [op: {"recover"}]
NoCall == [op |-> None]

Intended(k)  == intent[k] # NoIntent
Completed(k) == completion[k] # None

NoStart == [version |-> 0, intended |-> {}, completed |-> {}]
Here ==
  [version |-> version, intended |-> {k \in Keys : Intended(k)},
   completed |-> {k \in Keys : Completed(k)}]

Init ==
  /\ version = 0
  /\ intent = [k \in Keys |-> NoIntent]
  /\ completion = [k \in Keys |-> None]
  /\ call = [p \in Processes |-> NoCall]
  /\ start = [p \in Processes |-> NoStart]
  /\ reply = [p \in Processes |-> [kind |-> None]]

Invoke(p, c) ==
  /\ call[p] = NoCall
  /\ call' = [call EXCEPT ![p] = c]
  /\ start' = [start EXCEPT ![p] = Here]
  /\ reply' = [reply EXCEPT ![p] = [kind |-> None]]
  /\ UNCHANGED <<version, intent, completion>>

Commit ==
  /\ version < MaxVersion
  /\ version' = version + 1
  /\ UNCHANGED <<intent, completion, call, start, reply>>

Answer(p, r) ==
  /\ call' = [call EXCEPT ![p] = NoCall]
  /\ start' = [start EXCEPT ![p] = NoStart]
  /\ reply' = [reply EXCEPT ![p] = r]
  /\ UNCHANGED version

Record(p, i, r) == [kind |-> "record", call |-> call[p], intent |-> i, receipt |-> r]

\* A new intent is for a version the Run had during the call.
AnswerIntended(p) ==
  /\ call[p].op = "append"
  /\ LET k == call[p].key
         i == [author |-> p, payload |-> call[p].payload]
     IN  /\ ~Intended(k)
         /\ VersionOf[k] \in start[p].version .. version
         /\ intent' = [intent EXCEPT ![k] = i]
         /\ Answer(p, Record(p, i, None))
  /\ UNCHANGED completion

AnswerCompleted(p) ==
  /\ call[p].op = "complete"
  /\ LET k == call[p].key
     IN  /\ Intended(k) /\ ~Completed(k)
         /\ completion' = [completion EXCEPT ![k] = call[p].receipt]
         /\ Answer(p, Record(p, intent[k], call[p].receipt))
  /\ UNCHANGED intent

\* The effect is recorded already, with the same payload or the same receipt.
AnswerRecorded(p) ==
  /\ call[p].op \in {"append", "complete"}
  /\ LET k == call[p].key
     IN  /\ Intended(k)
         /\ \/ call[p].op = "append" /\ intent[k].payload = call[p].payload
            \/ call[p].op = "complete" /\ completion[k] = call[p].receipt
         /\ Answer(p, Record(p, intent[k], completion[k]))
  /\ UNCHANGED <<intent, completion>>

AnswerStale(p) ==
  /\ call[p].op = "append"
  /\ \E v \in start[p].version .. version : v # VersionOf[call[p].key]
  /\ Answer(p, [kind |-> "stale_state"])
  /\ UNCHANGED <<intent, completion>>

\* Every effect that was open during the whole call, and none that never was.
AnswerEffects(p) ==
  /\ call[p].op = "recover"
  /\ \E ks \in SUBSET Keys :
       /\ {k \in start[p].intended : ~Completed(k)} \subseteq ks
       /\ ks \subseteq {k \in Keys : Intended(k)} \ start[p].completed
       /\ Answer(p, [kind |-> "effects", keys |-> ks])
  /\ UNCHANGED <<intent, completion>>

AnswerError(p) ==
  /\ call[p] # NoCall
  /\ \E code \in {"refused", "state_persist_failed"} : Answer(p, [kind |-> code])
  /\ UNCHANGED <<intent, completion>>

Crash(p) ==
  /\ Answer(p, [kind |-> None])
  /\ UNCHANGED <<intent, completion>>

Next ==
  \/ Commit
  \/ \E p \in Processes :
       \/ \E c \in Calls : Invoke(p, c)
       \/ AnswerIntended(p)
       \/ AnswerCompleted(p)
       \/ AnswerRecorded(p)
       \/ AnswerStale(p)
       \/ AnswerEffects(p)
       \/ AnswerError(p)
       \/ Crash(p)

Spec == Init /\ [][Next]_vars

=============================================================================
