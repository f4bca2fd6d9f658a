---------------------------- MODULE RunRegister ----------------------------
(***************************************************************************)
(* What the state store promises its callers: one Run is a register with a *)
(* version, and compareAndSwap changes it atomically or not at all.  Every *)
(* call takes effect at one instant between its invocation and its reply,  *)
(* although several controller processes (the production controller, the   *)
(* CLI, a recovery) call it at the same time and may crash.                *)
(*                                                                         *)
(* Errors are part of the promise: "stale_state", "refused" (any answer    *)
(* given before the store wrote anything) mean that the call had no        *)
(* effect, "state_persist_failed" and a crash leave it open.               *)
(***************************************************************************)
EXTENDS RunTransitions

CONSTANTS
  Processes,    \* operating-system processes that opened the store
  Transitions,  \* the transitions callers request
  InitialRun,   \* the Run a start command creates
  MaxVersion    \* bound on state_version

NoState == [state_version |-> None]
NoCall  == [op |-> None]

Versions == 0 .. MaxVersion

Calls ==
  [op: {"load", "create"}]
    \cup [op: {"compareAndSwap"}, expected: Versions \ {MaxVersion}, transition: Transitions]

Replies ==
  [kind: {None, "stale_state", "refused", "state_persist_failed"}]
    \cup [kind: {"ok"}, op: {"load", "create", "compareAndSwap"}, version: Versions]

VARIABLES
  history,  \* history[v] is the Run at version v, NoState when not reached
  phase,    \* phase[p]: "idle", "open" (no effect yet) or "done" (took effect)
  call,     \* call[p]: the call in progress
  floor,    \* floor[p]: the number of versions that existed when p called
  reply     \* reply[p]: the answer to the last finished call

vars == <<history, phase, call, floor, reply>>

Exists(v) == history[v] # NoState
IsCurrent(v) == Exists(v) /\ (v < MaxVersion => ~Exists(v + 1))

Init ==
  /\ history = [v \in Versions |-> NoState]
  /\ phase = [p \in Processes |-> "idle"]
  /\ call = [p \in Processes |-> NoCall]
  /\ floor = [p \in Processes |-> 0]
  /\ reply = [p \in Processes |-> [kind |-> None]]

Invoke(p, c) ==
  /\ phase[p] = "idle"
  /\ phase' = [phase EXCEPT ![p] = "open"]
  /\ call' = [call EXCEPT ![p] = c]
  /\ \E n \in 0 .. (MaxVersion + 1) :
       /\ \A v \in Versions : Exists(v) <=> v < n
       /\ floor' = [floor EXCEPT ![p] = n]
  /\ reply' = [reply EXCEPT ![p] = [kind |-> None]]
  /\ UNCHANGED history

Create(p) ==
  /\ phase[p] = "open"
  /\ call[p].op = "create"
  /\ ~Exists(0)
  /\ history' = [history EXCEPT ![0] = InitialRun]
  /\ phase' = [phase EXCEPT ![p] = "done"]
  /\ UNCHANGED <<call, floor, reply>>

Swap(p) ==
  /\ phase[p] = "open"
  /\ call[p].op = "compareAndSwap"
  /\ LET v == call[p].expected
         t == call[p].transition
     IN  /\ IsCurrent(v)
         /\ ApplyAllowed(history[v], t)
         /\ history' = [history EXCEPT ![v + 1] = AppliedUpdates(history[v], t)]
  /\ phase' = [phase EXCEPT ![p] = "done"]
  /\ UNCHANGED <<call, floor, reply>>

Answer(p, r) ==
  /\ phase' = [phase EXCEPT ![p] = "idle"]
  /\ reply' = [reply EXCEPT ![p] = r]
  /\ call' = [call EXCEPT ![p] = NoCall]
  /\ floor' = [floor EXCEPT ![p] = 0]
  /\ UNCHANGED history

\* The version a finished create or compareAndSwap produced.
Produced(c) == IF c.op = "create" THEN 0 ELSE c.expected + 1

AnswerWritten(p) ==
  /\ phase[p] = "done"
  /\ Answer(p, [kind |-> "ok", op |-> call[p].op, version |-> Produced(call[p])])

\* A load answers with a version that was current at some instant of the call.
AnswerLoaded(p) ==
  /\ phase[p] = "open"
  /\ call[p].op = "load"
  /\ \E v \in Versions :
       /\ Exists(v)
       /\ v + 1 >= floor[p]
       /\ Answer(p, [kind |-> "ok", op |-> "load", version |-> v])

\* Stale: some instant of the call had another version than the expected one.
AnswerStale(p) ==
  /\ phase[p] = "open"
  /\ call[p].op = "compareAndSwap"
  /\ \E v \in Versions : Exists(v) /\ v + 1 >= floor[p] /\ v # call[p].expected
  /\ Answer(p, [kind |-> "stale_state"])

AnswerRefused(p) ==
  /\ phase[p] = "open"
  /\ Answer(p, [kind |-> "refused"])

AnswerPersistFailed(p) ==
  /\ phase[p] # "idle"
  /\ Answer(p, [kind |-> "state_persist_failed"])

\* The caller dies with its process and never gets an answer.
Crash(p) == Answer(p, [kind |-> None])

Next ==
  \E p \in Processes :
    \/ \E c \in Calls : Invoke(p, c)
    \/ Create(p)
    \/ Swap(p)
    \/ AnswerWritten(p)
    \/ AnswerLoaded(p)
    \/ AnswerStale(p)
    \/ AnswerRefused(p)
    \/ AnswerPersistFailed(p)
    \/ Crash(p)

Spec == Init /\ [][Next]_vars

=============================================================================
