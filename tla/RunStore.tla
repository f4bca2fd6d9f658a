------------------------------ MODULE RunStore ------------------------------
(***************************************************************************)
(* FileRunStore (state/file-run-store.ts) for one Run: an append-only      *)
(* directory of immutable event files, a snapshot file that caches the     *)
(* newest state, and controller processes that read and write them with no *)
(* lock but the file system's atomic link and rename.                      *)
(*                                                                         *)
(* Calls are synchronous inside a process, so a process has one call in    *)
(* progress; the steps of a call are its file-system operations, and the   *)
(* steps of different processes interleave.                                *)
(***************************************************************************)
EXTENDS RunTransitions

CONSTANTS
  Processes,    \* operating-system processes that opened the store
  Transitions,  \* the transitions callers request
  InitialRun,   \* the Run a start command creates
  MaxVersion    \* bound on state_version

ASSUME ProcessesAssumption == None \notin Processes
ASSUME MaxVersionAssumption == MaxVersion \in Nat
ASSUME TransitionsAssumption == \A t \in Transitions : IsTransition(t)
ASSUME InitialRunAssumption ==
  /\ InitialRun \in RunStates
  /\ InitialRun.state_version = 0
  /\ InitialRun.status = "IDLE"

VARIABLES
  runDirectory,  \* whether the run's directory exists
  log,           \* log[i]: the event file with index i, NoEvent when absent
  snapshot,      \* the snapshot file, NoSnapshot when absent
  pc,            \* pc[p]: the next file-system operation of p's call
  call,          \* call[p]: the call in progress
  seen,          \* seen[p]: the head of the log as p's call replayed or extended it
  corruptRuns,   \* corruptRuns[p]: p put the run in read-only diagnostic mode
  reply,         \* reply[p]: the answer to the last finished call
  floor          \* history variable: how many events existed when p called

vars == <<runDirectory, log, snapshot, pc, call, seen, corruptRuns, reply, floor>>

Versions == 0 .. MaxVersion

Labels ==
  {"idle", "makeDirectory", "publishFirst", "replay", "readSnapshot",
   "publishNext", "rewriteSnapshot"}

NoState == [state_version |-> None]
NoCall  == [op |-> None]

Mutations == {"create", "compareAndSwap"}

Calls ==
  [op: {"load", "create"}]
    \cup [op: {"compareAndSwap"}, expected: Versions \ {MaxVersion}, transition: Transitions]

Failures == {"stale_state", "refused", "state_persist_failed"}

Replies ==
  [kind: Failures \cup {None}]
    \cup [kind: {"ok"}, op: {"load"} \cup Mutations, version: Versions]

-----------------------------------------------------------------------------
\* Events.  An event file is published at most once per index, so its digest
\* is abstracted to the index and the process that published it.

Digests == [index: Versions, author: Processes]
NoDigest == [index |-> None]
NoEvent == [author |-> None]

Events ==
  [author: Processes,
   action: {"create_run"} \cup {t.action : t \in Transitions},
   previous_event_digest: Digests \cup {NoDigest},
   after_state: RunStates]

EventDigest(index, event) == [index |-> index, author |-> event.author]

Published(i) == log[i] # NoEvent

\* A snapshot, like what a replay ends with, is a state and the digest of the
\* event that produced it; its event_count is the version plus one.
Heads == [state: RunStates, event_head_digest: Digests]
NoSnapshot == [event_head_digest |-> NoDigest]
HeadAt(i) ==
  [state |-> log[i].after_state, event_head_digest |-> EventDigest(i, log[i])]

\* replayOrThrow accepts event i as the successor of event i - 1.
FollowsInChain(i) ==
  IF i = 0
  THEN /\ log[0].action = "create_run"
       /\ log[0].previous_event_digest = NoDigest
       /\ log[0].after_state.state_version = 0
       /\ log[0].after_state.status = "IDLE"
  ELSE LET before == log[i - 1].after_state
           after  == log[i].after_state
       IN  /\ log[i].previous_event_digest = EventDigest(i - 1, log[i - 1])
           /\ after.state_version = before.state_version + 1
           /\ IsRunTransitionReplayCompatible(before.status, after.status, log[i].action)

\* No file is missing below a published one, and every event follows the last.
ChainIntact ==
  \A i \in Versions : Published(i) =>
    /\ \A j \in 0 .. i : Published(j)
    /\ FollowsInChain(i)

\* A head is a state the log went through.
IsPrefix(head) ==
  LET v == head.state.state_version
  IN  v \in Versions /\ Published(v) /\ head = HeadAt(v)

SnapshotIsPrefix == snapshot # NoSnapshot => IsPrefix(snapshot)

-----------------------------------------------------------------------------
\* What callers are promised.

TypeOK ==
  /\ runDirectory \in BOOLEAN
  /\ log \in [Versions -> Events \cup {NoEvent}]
  /\ snapshot \in Heads \cup {NoSnapshot}
  /\ pc \in [Processes -> Labels]
  /\ call \in [Processes -> Calls \cup {NoCall}]
  /\ seen \in [Processes -> Heads \cup {NoSnapshot}]
  /\ corruptRuns \in [Processes -> BOOLEAN]
  /\ reply \in [Processes -> Replies]
  /\ floor \in [Processes -> 0 .. (MaxVersion + 1)]

-----------------------------------------------------------------------------
Init ==
  /\ runDirectory = FALSE
  /\ log = [i \in Versions |-> NoEvent]
  /\ snapshot = NoSnapshot
  /\ pc = [p \in Processes |-> "idle"]
  /\ call = [p \in Processes |-> NoCall]
  /\ seen = [p \in Processes |-> NoSnapshot]
  /\ corruptRuns = [p \in Processes |-> FALSE]
  /\ reply = [p \in Processes |-> [kind |-> None]]
  /\ floor = [p \in Processes |-> 0]

Files == <<runDirectory, log, snapshot>>

Goto(p, label) == pc' = [pc EXCEPT ![p] = label]

\* The call ends: nothing of it is kept in memory.
Answer(p, r) ==
  /\ Goto(p, "idle")
  /\ reply' = [reply EXCEPT ![p] = r]
  /\ call' = [call EXCEPT ![p] = NoCall]
  /\ seen' = [seen EXCEPT ![p] = NoSnapshot]
  /\ floor' = [floor EXCEPT ![p] = 0]

Succeed(p, version) ==
  Answer(p, [kind |-> "ok", op |-> call[p].op, version |-> version])
Fail(p, code) == Answer(p, [kind |-> code])

Continue(p, label) == Goto(p, label) /\ UNCHANGED <<call, seen, reply, floor>>

Begin(p, c) ==
  /\ pc[p] = "idle"
  /\ Goto(p, IF c.op = "create" THEN "makeDirectory" ELSE "replay")
  /\ call' = [call EXCEPT ![p] = c]
  /\ reply' = [reply EXCEPT ![p] = [kind |-> None]]
  /\ \E n \in 0 .. (MaxVersion + 1) :
       /\ \A i \in Versions : Published(i) <=> i < n
       /\ floor' = [floor EXCEPT ![p] = n]
  /\ UNCHANGED <<Files, seen, corruptRuns>>

\* captureForRun: a mutation is refused in read-only diagnostic mode.
InDiagnosticMode(p) == corruptRuns[p] /\ call[p].op \in Mutations

RefuseMutation(p) ==
  /\ pc[p] \in {"makeDirectory", "replay"}
  /\ InDiagnosticMode(p)
  /\ Fail(p, "refused")
  /\ UNCHANGED <<Files, corruptRuns>>

\* captureForRun: state_corrupt is remembered for the life of the process.
FailCorrupt(p) ==
  /\ Fail(p, "refused")
  /\ corruptRuns' = [corruptRuns EXCEPT ![p] = TRUE]
  /\ UNCHANGED Files

\* createOrThrow: writing the temporary file makes the directories first.
MakeDirectory(p) ==
  /\ pc[p] = "makeDirectory"
  /\ ~InDiagnosticMode(p)
  /\ runDirectory' = TRUE
  /\ Continue(p, "publishFirst")
  /\ UNCHANGED <<log, snapshot, corruptRuns>>

\* publishImmutableJson: the link exists for everybody or is refused.
Publish(p, i, event) ==
  /\ log' = [log EXCEPT ![i] = event]
  /\ seen' = [seen EXCEPT ![p] =
                [state |-> event.after_state, event_head_digest |-> EventDigest(i, event)]]
  /\ Goto(p, "rewriteSnapshot")
  /\ UNCHANGED <<runDirectory, snapshot, call, corruptRuns, reply, floor>>

PublishFirst(p) ==
  /\ pc[p] = "publishFirst"
  /\ ~Published(0)
  /\ Publish(p, 0,
       [author |-> p, action |-> "create_run",
        previous_event_digest |-> NoDigest, after_state |-> InitialRun])

RunAlreadyExists(p) ==
  /\ pc[p] = "publishFirst"
  /\ Published(0)
  /\ Fail(p, "refused")
  /\ UNCHANGED <<Files, corruptRuns>>

-----------------------------------------------------------------------------
\* replayOrThrow, in one step: event files are immutable, so reading them is
\* reading the directory listing.

RunNotFound(p) ==
  /\ pc[p] = "replay"
  /\ ~InDiagnosticMode(p)
  /\ ~runDirectory
  /\ Fail(p, "refused")
  /\ UNCHANGED <<Files, corruptRuns>>

\* The highest published index, the head of what a listing shows.
IsHead(i) == Published(i) /\ \A j \in Versions : Published(j) => j <= i

Replay(p) ==
  /\ pc[p] = "replay"
  /\ ~InDiagnosticMode(p)
  /\ runDirectory
  /\ ChainIntact
  /\ \E i \in Versions : IsHead(i) /\ seen' = [seen EXCEPT ![p] = HeadAt(i)]
  /\ Goto(p, "readSnapshot")
  /\ UNCHANGED <<Files, call, corruptRuns, reply, floor>>

ReplayFails(p) ==
  /\ pc[p] = "replay"
  /\ ~InDiagnosticMode(p)
  /\ runDirectory
  /\ ~Published(0) \/ ~ChainIntact
  /\ FailCorrupt(p)

\* loadOrThrow: the snapshot that p reads now against the log it read before.
SnapshotMatchesReplay(p) ==
  snapshot # NoSnapshot =>
    LET v == snapshot.state.state_version
    IN  v <= seen[p].state.state_version /\ snapshot = HeadAt(v)

SnapshotIsCurrent(p) == snapshot = seen[p]

SnapshotRejected(p) ==
  /\ pc[p] = "readSnapshot"
  /\ ~SnapshotMatchesReplay(p)
  /\ FailCorrupt(p)

LoadReturns(p) ==
  /\ pc[p] = "readSnapshot"
  /\ SnapshotMatchesReplay(p)
  /\ call[p].op = "load"
  /\ IF SnapshotIsCurrent(p)
     THEN Succeed(p, seen[p].state.state_version)
     ELSE Continue(p, "rewriteSnapshot")
  /\ UNCHANGED <<Files, corruptRuns>>

\* Fault for the mutation runs: the expected version is not compared.
CasTrusts(p) ==
  /\ pc[p] = "readSnapshot"
  /\ SnapshotMatchesReplay(p)
  /\ call[p].op = "compareAndSwap"
  /\ IF ApplyAllowed(seen[p].state, call[p].transition)
     THEN Continue(p, "publishNext")
     ELSE Fail(p, "refused")
  /\ UNCHANGED <<Files, corruptRuns>>

\* compareAndSwap: the version check, the transition rules, then the link.
CasChecks(p) ==
  /\ pc[p] = "readSnapshot"
  /\ SnapshotMatchesReplay(p)
  /\ call[p].op = "compareAndSwap"
  /\ IF seen[p].state.state_version # call[p].expected
     THEN Fail(p, "stale_state")
     ELSE IF ApplyAllowed(seen[p].state, call[p].transition)
          THEN Continue(p, "publishNext")
          ELSE Fail(p, "refused")
  /\ UNCHANGED <<Files, corruptRuns>>

PublishNext(p) ==
  /\ pc[p] = "publishNext"
  /\ LET i == call[p].expected + 1
     IN  /\ ~Published(i)
         /\ Publish(p, i,
              [author |-> p, action |-> call[p].transition.action,
               previous_event_digest |-> seen[p].event_head_digest,
               after_state |-> AppliedUpdates(seen[p].state, call[p].transition)])

\* Fault for the mutation runs: an existing event file is taken for an earlier attempt.
ExistingEventIsOwn(p) ==
  /\ pc[p] = "publishNext"
  /\ Published(call[p].expected + 1)
  /\ Succeed(p, call[p].expected + 1)
  /\ UNCHANGED <<Files, corruptRuns>>

AnotherWriterCommitted(p) ==
  /\ pc[p] = "publishNext"
  /\ Published(call[p].expected + 1)
  /\ Fail(p, "stale_state")
  /\ UNCHANGED <<Files, corruptRuns>>

\* rewriteJsonAtomic: whoever renames last wins, be it with an older state.
RewriteSnapshot(p) ==
  /\ pc[p] = "rewriteSnapshot"
  /\ snapshot' = seen[p]
  /\ Succeed(p, seen[p].state.state_version)
  /\ UNCHANGED <<runDirectory, log, corruptRuns>>

\* The file system refuses a write (no space, permissions, a failed fsync).
PersistFails(p) ==
  /\ pc[p] \in {"makeDirectory", "publishFirst", "publishNext", "rewriteSnapshot"}
  /\ Fail(p, "state_persist_failed")
  /\ UNCHANGED <<Files, corruptRuns>>

\* The process dies and is started again; only the files survive.
Crash(p) ==
  /\ Answer(p, [kind |-> None])
  /\ corruptRuns' = [corruptRuns EXCEPT ![p] = FALSE]
  /\ UNCHANGED Files

Next ==
  \E p \in Processes :
    \/ \E c \in Calls : Begin(p, c)
    \/ RefuseMutation(p)
    \/ MakeDirectory(p)
    \/ PublishFirst(p)
    \/ RunAlreadyExists(p)
    \/ RunNotFound(p)
    \/ Replay(p)
    \/ ReplayFails(p)
    \/ SnapshotRejected(p)
    \/ LoadReturns(p)
    \/ CasChecks(p)
    \/ PublishNext(p)
    \/ AnotherWriterCommitted(p)
    \/ RewriteSnapshot(p)
    \/ PersistFails(p)
    \/ Crash(p)

Spec == Init /\ [][Next]_vars

-----------------------------------------------------------------------------
\* Properties.

\* A write that was acknowledged is in the log at the version it was
\* acknowledged with, written by the process that was told so: of two
\* compareAndSwaps from one version at most one is acknowledged.
AcknowledgedWritesAreOwn ==
  \A p \in Processes :
    reply[p].kind = "ok" /\ reply[p].op \in Mutations =>
      Published(reply[p].version) /\ log[reply[p].version].author = p

\* Event files are never replaced, whatever crashes and races happen between
\* the check of the version and the link.
EventsAreWriteOnce ==
  [][\A i \in Versions : Published(i) => log'[i] = log[i]]_vars

\* The files stay readable: the log is a gapless digest chain of allowed
\* transitions and the snapshot is one of its prefixes, so a replay by a
\* freshly started process never finds damage.
FilesStayIntact == ChainIntact /\ SnapshotIsPrefix

\* A process whose call began when the Run existed puts it in read-only
\* diagnostic mode only when the files are damaged.  The code does not keep this one: a
\* load that a commit overtakes between its two reads takes intact files for damaged ones.
DiagnosticModeMeansDamage ==
  [][\A p \in Processes :
       corruptRuns'[p] /\ ~corruptRuns[p] /\ floor[p] > 0 => ~FilesStayIntact]_vars

\* The store implements the atomic register.  A write takes effect when its
\* event is linked, before the snapshot is rewritten.
RegisterPhase(p) ==
  CASE pc[p] = "idle" -> "idle"
    [] pc[p] = "rewriteSnapshot" /\ call[p].op \in Mutations -> "done"
    [] OTHER -> "open"

Register == INSTANCE RunRegister WITH
  history <- [v \in Versions |-> IF Published(v) THEN log[v].after_state ELSE NoState],
  phase   <- [p \in Processes |-> RegisterPhase(p)]

ImplementsRegister == Register!Spec

=============================================================================
