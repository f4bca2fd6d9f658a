-------------------------- MODULE AppServerProtocol --------------------------
(***************************************************************************)
(* What the decoders of production/app-server-protocol-v2.ts accept.  A      *)
(* decoder names the fields an object must have and the kinds of value it     *)
(* takes in each; it ignores the others.  One wrong value anywhere refuses the *)
(* whole answer or notification.                                            *)
(*                                                                         *)
(* A value is abstracted to its kind: "string", "number", "integer" for a      *)
(* number that is a safe integer, "boolean", "object", "array", "null", "known" *)
(* and "unknown" for a member of a list of names or another string, and        *)
(* "missing" for a field that is not there.  An object is all right but for    *)
(* its flaw, Null or one field and the kind it has.                           *)
(***************************************************************************)
EXTENDS Sequences

CONSTANT Null  \* no value

String == {"string"}
SafeInteger == {"integer"}
Number == SafeInteger \cup {"number"}
Boolean == {"boolean"}
Object == {"object"}
Array == {"array"}
Name == {"known"}
Anything == String \cup Number \cup Boolean \cup Object \cup Array \cup {"null"}
OrNull(kinds) == kinds \cup {"null"}

Flaw(field, kind) == [field |-> field, kind |-> kind]

(* A field that the decoder does not read may be anything.                    *)
Fits(flaw, schema) ==
  flaw # Null /\ flaw.field \in DOMAIN schema => flaw.kind \in schema[flaw.field]

-----------------------------------------------------------------------------
(* Thread items.                                                            *)

PassiveTypes ==
  {"userMessage", "hookPrompt", "plan", "reasoning", "imageView", "sleep", "imageGeneration",
   "enteredReviewMode", "exitedReviewMode", "contextCompaction"}

ItemFields ==
  [agentMessage |-> [text |-> String, phase |-> OrNull(Name), memoryCitation |-> OrNull(Object)],
   commandExecution |->
     [pluginId |-> OrNull(String), scriptPath |-> OrNull(String), command |-> String,
      cwd |-> String, processId |-> OrNull(String), source |-> Name, status |-> Name,
      commandActions |-> Array, aggregatedOutput |-> OrNull(String),
      exitCode |-> OrNull(SafeInteger), durationMs |-> OrNull(Number)],
   fileChange |-> [changes |-> Array, status |-> Name],
   mcpToolCall |->
     [server |-> String, tool |-> String, status |-> Name, arguments |-> Anything,
      appContext |-> OrNull(Object), pluginId |-> OrNull(String), result |-> OrNull(Object),
      error |-> OrNull(Object), durationMs |-> OrNull(Number)],
   dynamicToolCall |->
     [namespace |-> OrNull(String), tool |-> String, arguments |-> Anything, status |-> Name,
      contentItems |-> OrNull(Array), success |-> OrNull(Boolean), durationMs |-> OrNull(Number)],
   collabAgentToolCall |->
     [tool |-> Name, status |-> Name, senderThreadId |-> String, receiverThreadIds |-> Array,
      prompt |-> OrNull(String), model |-> OrNull(String), reasoningEffort |-> OrNull(String),
      agentsStates |-> Object],
   subAgentActivity |-> [kind |-> Name, agentThreadId |-> String, agentPath |-> String],
   webSearch |-> [query |-> String, action |-> OrNull(Object), results |-> OrNull(Array)]]

(* decodeThreadItem: every item has an id; of a passive one nothing else is     *)
(* read, and an item of a type nobody knows is refused.                       *)
ItemDecodes(item) ==
  IF item.type \in PassiveTypes THEN Fits(item.flaw, [id |-> String])
  ELSE /\ item.type \in DOMAIN ItemFields
       /\ Fits(item.flaw, [id |-> String])
       /\ Fits(item.flaw, ItemFields[item.type])

(* The items a task changes something with, or asks something of others.       *)
ToolItems == DOMAIN ItemFields \ {"agentMessage"}

-----------------------------------------------------------------------------
(* Turns and threads.                                                       *)

Terminals == {"completed", "interrupted", "failed"}
TurnStatuses == Terminals \cup {"inProgress"}

TurnFields ==
  [id |-> String, items |-> Array, itemsView |-> Name, status |-> Name, error |-> OrNull(Object),
   startedAt |-> OrNull(Number), completedAt |-> OrNull(Number), durationMs |-> OrNull(Number)]

TurnDecodes(turn) ==
  /\ Fits(turn.flaw, TurnFields)
  /\ turn.status \in TurnStatuses
  /\ \A i \in DOMAIN turn.items : ItemDecodes(turn.items[i])

(* decodeAppServerTurnStartResponse: a turn that is over already is refused.    *)
TurnIsStarted(turn) == TurnDecodes(turn) /\ turn.status = "inProgress"

ThreadFields ==
  [id |-> String, sessionId |-> String, forkedFromId |-> OrNull(String),
   parentThreadId |-> OrNull(String), ephemeral |-> Boolean, turns |-> Array]

(* decodeAppServerFreshThreadStartResponse: an empty, persistent thread of its  *)
(* own.                                                                    *)
IsFreshRoot(thread) ==
  /\ Fits(thread.flaw, ThreadFields)
  /\ thread.turns = << >>
  /\ ~thread.ephemeral
  /\ thread.forkedFromId = Null /\ thread.parentThreadId = Null

-----------------------------------------------------------------------------
(* Skills.  An entry of the list: [cwd, errors, skills], a skill: [name,       *)
(* enabled, flaw].                                                          *)

SkillFields ==
  [name |-> String, description |-> String, path |-> String, scope |-> Name, enabled |-> Boolean]

SkillsDecode(list) ==
  \A i \in DOMAIN list : \A j \in DOMAIN list[i].skills :
    Fits(list[i].skills[j].flaw, SkillFields)

EntriesFor(list, cwd) == SelectSeq(list, LAMBDA entry : entry.cwd = cwd)

(* resolveAppServerSkill: one entry for the directory, one skill of the name    *)
(* in it, and that one enabled.                                             *)
SkillResolves(list, cwd, name) ==
  LET entries == EntriesFor(list, cwd)
      named   == SelectSeq(entries[1].skills, LAMBDA skill : skill.name = name)
  IN /\ SkillsDecode(list)
     /\ Len(entries) = 1
     /\ Len(named) = 1 /\ named[1].enabled

-----------------------------------------------------------------------------
(* The parameters of turn/start, which the controller decodes before it sends   *)
(* them.                                                                   *)

InputFields ==
  [text |-> [text |-> String, text_elements |-> Array],
   image |-> [url |-> String], audio |-> [url |-> String],
   localImage |-> [path |-> String], localAudio |-> [path |-> String],
   skill |-> [name |-> String, path |-> String], mention |-> [name |-> String, path |-> String]]

SandboxFields ==
  [dangerFullAccess |-> << >>,
   readOnly |-> [networkAccess |-> Boolean],
   externalSandbox |-> [networkAccess |-> Name],
   workspaceWrite |->
     [writableRoots |-> Array, networkAccess |-> Boolean, excludeTmpdirEnvVar |-> Boolean,
      excludeSlashTmp |-> Boolean]]

InputDecodes(input) ==
  input.type \in DOMAIN InputFields /\ Fits(input.flaw, InputFields[input.type])

SandboxDecodes(policy) ==
  policy.type \in DOMAIN SandboxFields /\ Fits(policy.flaw, SandboxFields[policy.type])

(* decodeAppServerTurnStartParams, without a required skill.                   *)
ParamsDecode(params) ==
  /\ \A i \in DOMAIN params.input : InputDecodes(params.input[i])
  /\ SandboxDecodes(params.sandboxPolicy)

=============================================================================
