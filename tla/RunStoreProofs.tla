--------------------------- MODULE RunStoreProofs ---------------------------
(***************************************************************************)
(* Theorems about RunStore for every set of processes and transitions and  *)
(* every bound on the version.                                             *)
(***************************************************************************)
EXTENDS RunStore, TLAPS

-----------------------------------------------------------------------------
\* The inductive invariant.

\* The version a state carries is the index of the event that produced it.
VersionIsIndex ==
  \A i \in Versions : Published(i) => log[i].after_state.state_version = i

\* What a call holds between two of its file-system operations.
CallShape(p) ==
  /\ pc[p] \in {"makeDirectory", "publishFirst"} => call[p].op = "create"
  /\ pc[p] \in {"replay", "readSnapshot"} =>
       call[p] \in Calls /\ call[p].op \in {"load", "compareAndSwap"}
  /\ pc[p] \in {"readSnapshot", "publishNext", "rewriteSnapshot"} => IsPrefix(seen[p])
  /\ pc[p] = "publishNext" =>
       /\ call[p] \in Calls
       /\ call[p].op = "compareAndSwap"
       /\ seen[p].state.state_version = call[p].expected
       /\ ApplyAllowed(seen[p].state, call[p].transition)
  /\ pc[p] = "rewriteSnapshot" =>
       /\ call[p].op \in {"load"} \cup Mutations
       /\ call[p].op \in Mutations => log[seen[p].state.state_version].author = p
       /\ call[p].op = "create" => seen[p].state.state_version = 0
       /\ call[p].op = "compareAndSwap" =>
            seen[p].state.state_version = call[p].expected + 1

\* Every version that existed when p called still exists, and what p replayed
\* is no older.
FloorReached(p) ==
  /\ \A i \in Versions : i < floor[p] => Published(i)
  /\ pc[p] \in {"readSnapshot", "publishNext", "rewriteSnapshot"} =>
       seen[p].state.state_version + 1 >= floor[p]

Inv ==
  /\ TypeOK
  /\ ChainIntact
  /\ VersionIsIndex
  /\ SnapshotIsPrefix
  /\ \A p \in Processes : CallShape(p)
  /\ \A p \in Processes : FloorReached(p)
  /\ AcknowledgedWritesAreOwn

-----------------------------------------------------------------------------
\* Facts about the operators.

\* applyStateUpdates keeps the record's type and counts the version up.
LEMMA AppliedUpdatesType ==
  ASSUME NEW s \in RunStates, NEW t \in Transitions
  PROVE  /\ AppliedUpdates(s, t) \in RunStates
         /\ AppliedUpdates(s, t).state_version = s.state_version + 1
         /\ AppliedUpdates(s, t).status = t.to
<1>1. IsTransition(t)
  BY TransitionsAssumption
<1>2. ASSUME NEW field, NEW old \in FieldValues(field)
      PROVE  Updated(t, field, old) \in FieldValues(field)
  BY <1>1, <1>2 DEF Updated, IsTransition
<1>3. QED
  BY <1>1, <1>2 DEF AppliedUpdates, RunStates, IsTransition

\* Publishing an event that continues the log keeps everything readers rely
\* on; what was a prefix stays one.
LEMMA PublishKeepsLog ==
  ASSUME Inv, NEW p \in Processes, NEW i \in Versions, NEW event \in Events,
         ~Published(i),
         \A j \in Versions : j < i => Published(j),
         event.after_state.state_version = i,
         IF i = 0
         THEN /\ event.action = "create_run"
              /\ event.previous_event_digest = NoDigest
              /\ event.after_state.status = "IDLE"
         ELSE /\ event.previous_event_digest = EventDigest(i - 1, log[i - 1])
              /\ IsRunTransitionReplayCompatible(
                   log[i - 1].after_state.status, event.after_state.status, event.action),
         log' = [log EXCEPT ![i] = event],
         snapshot' = snapshot
  PROVE  /\ ChainIntact'
         /\ VersionIsIndex'
         /\ log' \in [Versions -> Events \cup {NoEvent}]
         /\ \A j \in Versions : Published(j) => log'[j] = log[j] /\ Published(j)'
         /\ \A head : IsPrefix(head) => IsPrefix(head)'
         /\ log'[i] = event /\ Published(i)'
<1>1. event # NoEvent
  BY ProcessesAssumption DEF Events, NoEvent, None
<1>2. log \in [Versions -> Events \cup {NoEvent}]
  BY DEF Inv, TypeOK
<1>3. /\ log'[i] = event
      /\ \A j \in Versions \ {i} : log'[j] = log[j]
      /\ log' \in [Versions -> Events \cup {NoEvent}]
  BY <1>2
<1>4. \A j \in Versions : Published(j) => log'[j] = log[j] /\ Published(j)'
  BY <1>3 DEF Published
<1>5. Published(i)'
  BY <1>1, <1>3 DEF Published
<1>6. \A j \in Versions : Published(j)' => j = i \/ Published(j)
  BY <1>3 DEF Published
<1>7. \A j \in Versions : Published(j) => j < i
  <2>1. SUFFICES ASSUME NEW j \in Versions, Published(j), ~(j < i)
                 PROVE  FALSE
    OBVIOUS
  <2>2. i \in 0 .. j
    BY <2>1, MaxVersionAssumption DEF Versions
  <2>3. QED
    BY <2>1, <2>2 DEF Inv, ChainIntact
<1>8. VersionIsIndex'
  BY <1>3, <1>6 DEF VersionIsIndex, Inv
<1>9. \A head : IsPrefix(head) => IsPrefix(head)'
  BY <1>4 DEF IsPrefix, HeadAt, EventDigest
<1>10. ChainIntact'
  <2>1. SUFFICES ASSUME NEW j \in Versions, Published(j)'
                 PROVE  /\ \A k \in 0 .. j : Published(k)'
                        /\ FollowsInChain(j)'
    BY DEF ChainIntact
  <2>2. j <= i
    BY <2>1, <1>6, <1>7, MaxVersionAssumption DEF Versions
  <2>3. \A k \in 0 .. j : Published(k)'
    <3>1. SUFFICES ASSUME NEW k \in 0 .. j
                   PROVE  Published(k)'
      OBVIOUS
    <3>2. k \in Versions /\ (k = i \/ k < i)
      BY <2>2, MaxVersionAssumption DEF Versions
    <3>3. QED
      BY <3>2, <1>4, <1>5
  <2>4. CASE j # i
    <3>1. Published(j) /\ log'[j] = log[j]
      BY <2>1, <2>4, <1>6, <1>4
    <3>2. FollowsInChain(j)
      BY <3>1 DEF Inv, ChainIntact
    <3>3. j # 0 => j - 1 \in Versions /\ j - 1 \in 0 .. j
      BY MaxVersionAssumption DEF Versions
    <3>4. j # 0 => log'[j - 1] = log[j - 1]
      BY <3>1, <3>3, <1>4 DEF Inv, ChainIntact
    <3>5. QED
      BY <2>3, <3>1, <3>2, <3>4 DEF FollowsInChain, EventDigest
  <2>5. CASE j = i
    <3>1. j # 0 => j - 1 \in Versions /\ j - 1 < i
      BY <2>5, MaxVersionAssumption DEF Versions
    <3>2. j # 0 => log'[j - 1] = log[j - 1] /\ log[j - 1].after_state.state_version = j - 1
      BY <3>1, <1>4 DEF Inv, VersionIsIndex
    <3>3. j \in Nat
      BY MaxVersionAssumption DEF Versions
    <3>4. QED
      BY <2>3, <2>5, <3>2, <3>3, <1>3 DEF FollowsInChain, EventDigest
  <2>6. QED
    BY <2>4, <2>5
<1>11. QED
  BY <1>3, <1>4, <1>5, <1>8, <1>9, <1>10

-----------------------------------------------------------------------------
\* Inv is an invariant.

LEMMA InitInv == Init => Inv
<1> SUFFICES ASSUME Init PROVE Inv
  OBVIOUS
<1>1. \A i \in Versions : ~Published(i)
  BY DEF Init, Published
<1>2. TypeOK
  <2>1. runDirectory \in BOOLEAN /\ corruptRuns \in [Processes -> BOOLEAN]
    BY Zenon DEF Init
  <2>2. reply \in [Processes -> Replies]
    BY DEF Init, Replies
  <2>3. floor \in [Processes -> 0 .. (MaxVersion + 1)]
    BY MaxVersionAssumption DEF Init
  <2>4. QED
    BY <2>1, <2>2, <2>3, Zenon DEF Init, TypeOK, Labels
<1>3. ChainIntact /\ VersionIsIndex
  BY <1>1 DEF ChainIntact, VersionIsIndex
<1>4. SnapshotIsPrefix
  BY DEF Init, SnapshotIsPrefix
<1>5. \A p \in Processes : CallShape(p)
  BY DEF Init, CallShape
<1>6. AcknowledgedWritesAreOwn
  BY DEF Init, AcknowledgedWritesAreOwn, None
<1>7. \A p \in Processes : FloorReached(p)
  BY MaxVersionAssumption DEF Init, FloorReached, Versions
<1>8. QED
  BY <1>2, <1>3, <1>4, <1>5, <1>6, <1>7 DEF Inv

\* A step that publishes nothing and leaves the snapshot alone only has to
\* keep the type, the shape of p's call and p's reply.
LEMMA QuietStep ==
  ASSUME Inv, UNCHANGED Files, TypeOK', NEW p \in Processes,
         \A q \in Processes \ {p} :
           /\ pc'[q] = pc[q] /\ call'[q] = call[q]
           /\ seen'[q] = seen[q] /\ reply'[q] = reply[q] /\ floor'[q] = floor[q],
         CallShape(p)',
         FloorReached(p)',
         reply'[p] = reply[p] \/ reply'[p].kind # "ok" \/ reply'[p].op \notin Mutations
  PROVE  Inv'
<1>1. ChainIntact' /\ VersionIsIndex' /\ SnapshotIsPrefix'
  BY DEF Inv, Files, ChainIntact, VersionIsIndex, SnapshotIsPrefix, Published,
         FollowsInChain, IsPrefix, HeadAt, EventDigest
<1>2. ASSUME NEW q \in Processes
      PROVE  CallShape(q)'
  <2>1. CASE q = p
    BY <2>1
  <2>2. CASE q # p
    BY <2>2 DEF Inv, Files, CallShape, IsPrefix, HeadAt, EventDigest, Published
  <2>3. QED
    BY <2>1, <2>2
<1>3. ASSUME NEW q \in Processes
      PROVE  FloorReached(q)'
  <2>1. CASE q = p
    BY <2>1
  <2>2. CASE q # p
    BY <2>2 DEF Inv, Files, FloorReached, Published
  <2>3. QED
    BY <2>1, <2>2
<1>4. AcknowledgedWritesAreOwn'
  BY DEF Inv, Files, AcknowledgedWritesAreOwn, Published
<1>5. QED
  BY <1>1, <1>2, <1>3, <1>4 DEF Inv

\* An answer that is no acknowledgement of a write ends the call quietly.
LEMMA QuietAnswer ==
  ASSUME Inv, UNCHANGED Files, NEW p \in Processes, NEW r \in Replies,
         Answer(p, r), r.kind # "ok" \/ r.op = "load",
         corruptRuns' \in [Processes -> BOOLEAN]
  PROVE  Inv'
<1>1. TypeOK'
  <2>1. 0 \in 0 .. (MaxVersion + 1)
    BY MaxVersionAssumption
  <2>2. pc' \in [Processes -> Labels]
    BY DEF Inv, TypeOK, Answer, Goto, Labels
  <2>3. /\ runDirectory' \in BOOLEAN
        /\ log' \in [Versions -> Events \cup {NoEvent}]
        /\ snapshot' \in Heads \cup {NoSnapshot}
    BY Zenon DEF Inv, TypeOK, Files
  <2>4. /\ call' \in [Processes -> Calls \cup {NoCall}]
        /\ seen' \in [Processes -> Heads \cup {NoSnapshot}]
        /\ reply' \in [Processes -> Replies]
        /\ floor' \in [Processes -> 0 .. (MaxVersion + 1)]
    BY <2>1 DEF Inv, TypeOK, Answer
  <2>5. QED
    BY <2>2, <2>3, <2>4 DEF TypeOK
<1>2. CallShape(p)'
  BY DEF Inv, TypeOK, Answer, Goto, CallShape
<1>3. reply'[p] = r
  BY DEF Inv, TypeOK, Answer
<1>4. FloorReached(p)'
  BY MaxVersionAssumption DEF Inv, TypeOK, Answer, Goto, FloorReached, Versions
<1>5. QED
  BY <1>1, <1>2, <1>3, <1>4, QuietStep DEF Inv, TypeOK, Answer, Goto, Mutations

LEMMA QuietFailure ==
  ASSUME Inv, UNCHANGED Files, NEW p \in Processes, NEW code \in Failures \cup {None},
         Fail(p, code), corruptRuns' \in [Processes -> BOOLEAN]
  PROVE  Inv'
<1>1. [kind |-> code] \in Replies
  BY DEF Replies
<1>2. code # "ok"
  BY DEF Failures, None
<1>3. QED
  BY <1>1, <1>2, QuietAnswer DEF Fail

\* A step that only moves the call on to its next file-system operation.
LEMMA QuietContinue ==
  ASSUME Inv, UNCHANGED <<log, snapshot, corruptRuns>>, runDirectory' \in BOOLEAN,
         runDirectory' = runDirectory \/ runDirectory' = TRUE,
         NEW p \in Processes, NEW label \in Labels,
         Continue(p, label), CallShape(p)', FloorReached(p)'
  PROVE  Inv'
<1>1. TypeOK'
  BY DEF Inv, TypeOK, Continue, Goto
<1>2. ChainIntact' /\ VersionIsIndex' /\ SnapshotIsPrefix'
  BY DEF Inv, ChainIntact, VersionIsIndex, SnapshotIsPrefix, Published,
         FollowsInChain, IsPrefix, HeadAt, EventDigest
<1>3. ASSUME NEW q \in Processes
      PROVE  CallShape(q)'
  <2>1. CASE q = p
    BY <2>1
  <2>2. CASE q # p
    BY <2>2 DEF Inv, TypeOK, Continue, Goto, CallShape, IsPrefix, HeadAt, EventDigest,
                Published
  <2>3. QED
    BY <2>1, <2>2
<1>4. ASSUME NEW q \in Processes
      PROVE  FloorReached(q)'
  <2>1. CASE q = p
    BY <2>1
  <2>2. CASE q # p
    BY <2>2 DEF Inv, TypeOK, Continue, Goto, FloorReached, Published
  <2>3. QED
    BY <2>1, <2>2
<1>5. AcknowledgedWritesAreOwn'
  BY DEF Inv, Continue, AcknowledgedWritesAreOwn, Published
<1>6. QED
  BY <1>1, <1>2, <1>3, <1>4, <1>5 DEF Inv

\* Publishing the event that continues the log.
LEMMA PublishInv ==
  ASSUME Inv, NEW p \in Processes, NEW i \in Versions, NEW event \in Events,
         event.author = p,
         call[p].op \in Mutations,
         call[p].op = "create" => i = 0,
         call[p].op = "compareAndSwap" => i = call[p].expected + 1,
         i + 1 >= floor[p],
         ~Published(i),
         \A j \in Versions : j < i => Published(j),
         event.after_state.state_version = i,
         IF i = 0
         THEN /\ event.action = "create_run"
              /\ event.previous_event_digest = NoDigest
              /\ event.after_state.status = "IDLE"
         ELSE /\ event.previous_event_digest = EventDigest(i - 1, log[i - 1])
              /\ IsRunTransitionReplayCompatible(
                   log[i - 1].after_state.status, event.after_state.status, event.action),
         Publish(p, i, event)
  PROVE  Inv'
<1> DEFINE head == [state |-> event.after_state, event_head_digest |-> EventDigest(i, event)]
<1>1. /\ log' = [log EXCEPT ![i] = event]
      /\ seen' = [seen EXCEPT ![p] = head]
      /\ pc' = [pc EXCEPT ![p] = "rewriteSnapshot"]
      /\ UNCHANGED <<runDirectory, snapshot, call, corruptRuns, reply, floor>>
  BY DEF Publish, Goto
<1>2. /\ ChainIntact'
      /\ VersionIsIndex'
      /\ log' \in [Versions -> Events \cup {NoEvent}]
      /\ \A j \in Versions : Published(j) => log'[j] = log[j] /\ Published(j)'
      /\ \A h : IsPrefix(h) => IsPrefix(h)'
      /\ log'[i] = event /\ Published(i)'
  BY <1>1, PublishKeepsLog
<1>3. head \in Heads
  BY DEF Heads, Events, EventDigest, Digests
<1>4. TypeOK'
  BY <1>1, <1>2, <1>3 DEF Inv, TypeOK, Labels
<1>5. SnapshotIsPrefix'
  BY <1>1, <1>2 DEF Inv, SnapshotIsPrefix
<1>6. IsPrefix(head)'
  BY <1>2 DEF IsPrefix, HeadAt
<1>7. ASSUME NEW q \in Processes
      PROVE  CallShape(q)'
  <2>1. CASE q = p
    <3>1. pc'[p] = "rewriteSnapshot" /\ seen'[p] = head /\ call'[p] = call[p]
      BY <1>1 DEF Inv, TypeOK
    <3>2. log'[head.state.state_version].author = p
      BY <1>2
    <3>3. QED
      BY <2>1, <3>1, <3>2, <1>6 DEF CallShape, IsPrefix, HeadAt, EventDigest, Published
  <2>2. CASE q # p
    <3>1. pc'[q] = pc[q] /\ seen'[q] = seen[q] /\ call'[q] = call[q]
      BY <1>1, <2>2 DEF Inv, TypeOK
    <3>2. CallShape(q)
      BY DEF Inv
    <3>3. IsPrefix(seen[q]) =>
            /\ IsPrefix(seen[q])'
            /\ log'[seen[q].state.state_version] = log[seen[q].state.state_version]
      BY <3>1, <1>2 DEF IsPrefix, HeadAt, EventDigest, Published
    <3>4. QED
      BY <3>1, <3>2, <3>3 DEF CallShape
  <2>3. QED
    BY <2>1, <2>2
<1>8. AcknowledgedWritesAreOwn'
  BY <1>1, <1>2 DEF Inv, TypeOK, Replies, AcknowledgedWritesAreOwn, Mutations, Failures, None
<1>9. ASSUME NEW q \in Processes
      PROVE  FloorReached(q)'
  <2>1. floor'[q] = floor[q] /\ FloorReached(q)
    BY <1>1 DEF Inv
  <2>2. CASE q = p
    <3>1. seen'[p].state.state_version = i
      BY <1>1 DEF Inv, TypeOK
    <3>2. QED
      BY <2>1, <2>2, <3>1, <1>2 DEF FloorReached
  <2>3. CASE q # p
    <3>1. pc'[q] = pc[q] /\ seen'[q] = seen[q]
      BY <1>1, <2>3 DEF Inv, TypeOK
    <3>2. QED
      BY <2>1, <3>1, <1>2 DEF FloorReached
  <2>4. QED
    BY <2>2, <2>3
<1>10. QED
  BY <1>2, <1>4, <1>5, <1>7, <1>8, <1>9 DEF Inv

\* Every step of the store keeps Inv.
LEMMA NextInv == Inv /\ [Next]_vars => Inv'
<1> SUFFICES ASSUME Inv, [Next]_vars PROVE Inv'
  OBVIOUS
<1>1. CASE UNCHANGED vars
  BY <1>1 DEF vars, Inv, TypeOK, ChainIntact, VersionIsIndex, SnapshotIsPrefix, CallShape,
     FloorReached, AcknowledgedWritesAreOwn, Published, FollowsInChain, IsPrefix, HeadAt, EventDigest
<1>2. ASSUME NEW p \in Processes, NEW c \in Calls, Begin(p, c)
      PROVE  Inv'
  <2>1. UNCHANGED Files /\ corruptRuns' = corruptRuns
    BY <1>2 DEF Begin
  <2>2. TypeOK'
    <3>1. floor' \in [Processes -> 0 .. (MaxVersion + 1)]
      BY <1>2 DEF Begin, Inv, TypeOK
    <3>2. /\ pc' \in [Processes -> Labels]
          /\ call' \in [Processes -> Calls \cup {NoCall}]
          /\ reply' \in [Processes -> Replies]
          /\ seen' \in [Processes -> Heads \cup {NoSnapshot}]
      BY <1>2 DEF Begin, Goto, Inv, TypeOK, Labels, Replies
    <3>3. QED
      BY <2>1, <3>1, <3>2 DEF Inv, TypeOK, Files
  <2>3. CallShape(p)'
    BY <1>2 DEF Begin, Goto, Inv, TypeOK, CallShape, Calls
  <2>4. reply'[p].kind # "ok"
    BY <1>2 DEF Begin, Inv, TypeOK, None
  <2>5. FloorReached(p)'
    <3>1. PICK n \in 0 .. (MaxVersion + 1) :
            /\ \A i \in Versions : Published(i) <=> i < n
            /\ floor' = [floor EXCEPT ![p] = n]
      BY <1>2 DEF Begin
    <3>2. floor'[p] = n
      BY <3>1 DEF Inv, TypeOK
    <3>3. pc'[p] \in {"makeDirectory", "replay"} /\ log' = log
      BY <1>2 DEF Begin, Goto, Files, Inv, TypeOK
    <3>4. QED
      BY <3>1, <3>2, <3>3 DEF FloorReached, Published
  <2>6. QED
    BY <1>2, <2>1, <2>2, <2>3, <2>4, <2>5, QuietStep DEF Begin, Goto, Inv, TypeOK
<1>3. ASSUME NEW p \in Processes, RefuseMutation(p)
      PROVE  Inv'
  BY <1>3, QuietFailure DEF RefuseMutation, Failures, Inv, TypeOK
<1>4. ASSUME NEW p \in Processes, MakeDirectory(p)
      PROVE  Inv'
  <2>1. CallShape(p)'
    BY <1>4 DEF MakeDirectory, Continue, Goto, Inv, TypeOK, CallShape
  <2>2. FloorReached(p)'
    BY <1>4 DEF MakeDirectory, Continue, Goto, Inv, TypeOK, FloorReached, Published
  <2>3. QED
    BY <1>4, <2>1, <2>2, QuietContinue DEF MakeDirectory, Labels
<1>5. ASSUME NEW p \in Processes, PublishFirst(p)
      PROVE  Inv'
  <2> DEFINE event == [author |-> p, action |-> "create_run",
                       previous_event_digest |-> NoDigest, after_state |-> InitialRun]
  <2>1. event \in Events
    BY InitialRunAssumption DEF Events
  <2>2. call[p].op \in Mutations
    BY <1>5 DEF PublishFirst, Inv, CallShape, Mutations
  <2>3. 0 \in Versions /\ \A j \in Versions : ~(j < 0)
    BY MaxVersionAssumption DEF Versions
  <2>4. ~Published(0) /\ Publish(p, 0, event)
    BY <1>5 DEF PublishFirst
  <2>5. call[p].op = "create"
    BY <1>5 DEF PublishFirst, Inv, CallShape
  <2>6. 0 + 1 >= floor[p]
    <3>1. floor[p] \in 0 .. (MaxVersion + 1) /\ FloorReached(p)
      BY DEF Inv, TypeOK
    <3>2. QED
      BY <3>1, <2>3, <2>4, MaxVersionAssumption DEF FloorReached
  <2>7. QED
    BY <2>1, <2>2, <2>3, <2>4, <2>5, <2>6, PublishInv, InitialRunAssumption
<1>6. ASSUME NEW p \in Processes, RunAlreadyExists(p)
      PROVE  Inv'
  BY <1>6, QuietFailure DEF RunAlreadyExists, Failures, Inv, TypeOK
<1>7. ASSUME NEW p \in Processes, RunNotFound(p)
      PROVE  Inv'
  BY <1>7, QuietFailure DEF RunNotFound, Failures, Inv, TypeOK
<1>8. ASSUME NEW p \in Processes, Replay(p)
      PROVE  Inv'
  <2>1. PICK i \in Versions : IsHead(i) /\ seen' = [seen EXCEPT ![p] = HeadAt(i)]
    BY <1>8 DEF Replay
  <2>2. HeadAt(i) \in Heads /\ HeadAt(i).state.state_version = i
    <3>1. log[i] \in Events
      BY <2>1 DEF IsHead, Published, Inv, TypeOK
    <3>2. log[i].after_state.state_version = i
      BY <2>1 DEF IsHead, Inv, VersionIsIndex
    <3>3. QED
      BY <3>1, <3>2 DEF HeadAt, Heads, Events, EventDigest, Digests
  <2>3. UNCHANGED <<Files, call, corruptRuns, reply, floor>> /\ pc' = [pc EXCEPT ![p] = "readSnapshot"]
    BY <1>8 DEF Replay, Goto
  <2>4. TypeOK'
    BY <2>1, <2>2, <2>3 DEF Inv, TypeOK, Labels, Files
  <2>5. CallShape(p)'
    <3>1. seen'[p] = HeadAt(i) /\ pc'[p] = "readSnapshot" /\ call'[p] = call[p] /\ log' = log
      BY <2>1, <2>3 DEF Inv, TypeOK, Files
    <3>2. call[p] \in Calls /\ call[p].op \in {"load", "compareAndSwap"}
      BY <1>8 DEF Replay, Inv, CallShape
    <3>3. IsPrefix(seen[p])'
      BY <2>1, <2>2, <3>1 DEF IsPrefix, IsHead, HeadAt, EventDigest, Published
    <3>4. QED
      BY <3>1, <3>2, <3>3 DEF CallShape
  <2>6. FloorReached(p)'
    <3>1. /\ seen'[p].state.state_version = i /\ floor'[p] = floor[p] /\ log' = log
          /\ FloorReached(p) /\ floor[p] \in 0 .. (MaxVersion + 1)
      BY <2>1, <2>2, <2>3 DEF Inv, TypeOK, Files
    <3>2. i + 1 >= floor[p]
      <4>1. SUFFICES ASSUME i + 1 < floor[p]
                     PROVE  FALSE
        BY <3>1, MaxVersionAssumption DEF Versions
      <4>2. i + 1 \in Versions
        BY <3>1, <4>1, MaxVersionAssumption DEF Versions
      <4>3. Published(i + 1)
        BY <3>1, <4>1, <4>2 DEF FloorReached
      <4>4. i + 1 <= i
        BY <2>1, <4>2, <4>3 DEF IsHead
      <4>5. QED
        BY <4>4, MaxVersionAssumption DEF Versions
    <3>3. QED
      BY <3>1, <3>2 DEF FloorReached, Published
  <2>7. QED
    BY <2>1, <2>3, <2>4, <2>5, <2>6, QuietStep DEF Inv, TypeOK
<1>9. ASSUME NEW p \in Processes, FailCorrupt(p)
      PROVE  Inv'
  <2>1. corruptRuns' \in [Processes -> BOOLEAN]
    BY <1>9 DEF FailCorrupt, Inv, TypeOK
  <2>2. QED
    BY <1>9, <2>1, QuietFailure DEF FailCorrupt, Failures
<1>10. ASSUME NEW p \in Processes, LoadReturns(p)
      PROVE  Inv'
  <2>1. IsPrefix(seen[p])
    BY <1>10 DEF LoadReturns, Inv, CallShape
  <2>2. CASE SnapshotIsCurrent(p)
    <3> DEFINE r == [kind |-> "ok", op |-> "load", version |-> seen[p].state.state_version]
    <3>1. r \in Replies
      BY <2>1 DEF IsPrefix, Replies
    <3>2. Answer(p, r)
      BY <1>10, <2>2 DEF LoadReturns, Succeed
    <3>3. QED
      BY <1>10, <3>1, <3>2, QuietAnswer DEF LoadReturns, Inv, TypeOK
  <2>3. CASE ~SnapshotIsCurrent(p)
    <3>1. Continue(p, "rewriteSnapshot") /\ UNCHANGED <<Files, corruptRuns>> /\ call[p].op = "load"
      BY <1>10, <2>3 DEF LoadReturns
    <3>2. CallShape(p)'
      BY <2>1, <3>1 DEF Continue, Goto, Inv, TypeOK, CallShape, Mutations, Files,
         IsPrefix, HeadAt, EventDigest, Published
    <3>3. FloorReached(p)'
      BY <1>10, <3>1 DEF LoadReturns, Continue, Goto, Inv, TypeOK, FloorReached, Files, Published
    <3>4. QED
      BY <3>1, <3>2, <3>3, QuietContinue DEF Labels, Files, Inv, TypeOK
  <2>4. QED
    BY <2>2, <2>3
<1>11. ASSUME NEW p \in Processes, CasChecks(p)
      PROVE  Inv'
  <2>1. UNCHANGED <<Files, corruptRuns>> /\ corruptRuns \in [Processes -> BOOLEAN]
    BY <1>11 DEF CasChecks, Inv, TypeOK
  <2>2. CASE Fail(p, "stale_state") \/ Fail(p, "refused")
    BY <2>1, <2>2, QuietFailure DEF Failures
  <2>3. CASE /\ seen[p].state.state_version = call[p].expected
             /\ ApplyAllowed(seen[p].state, call[p].transition)
             /\ Continue(p, "publishNext")
    <3>1. call[p] \in Calls /\ call[p].op = "compareAndSwap" /\ IsPrefix(seen[p])
      BY <1>11 DEF CasChecks, Inv, CallShape
    <3>2. CallShape(p)'
      BY <2>1, <2>3, <3>1 DEF Continue, Goto, Inv, TypeOK, CallShape, Files,
         IsPrefix, HeadAt, EventDigest, Published
    <3>3. FloorReached(p)'
      BY <1>11, <2>1, <2>3 DEF CasChecks, Continue, Goto, Inv, TypeOK, FloorReached, Files, Published
    <3>4. QED
      BY <2>1, <2>3, <3>2, <3>3, QuietContinue DEF Labels, Files, Inv, TypeOK
  <2>4. QED
    BY <1>11, <2>2, <2>3 DEF CasChecks
<1>12. ASSUME NEW p \in Processes, PublishNext(p)
      PROVE  Inv'
  <2> DEFINE i == call[p].expected + 1
             before == seen[p].state
             t == call[p].transition
             event == [author |-> p, action |-> t.action,
                       previous_event_digest |-> seen[p].event_head_digest,
                       after_state |-> AppliedUpdates(before, t)]
  <2>1. /\ call[p] \in Calls
        /\ call[p].op = "compareAndSwap"
        /\ before.state_version = call[p].expected
        /\ ApplyAllowed(before, t)
        /\ IsPrefix(seen[p])
    BY <1>12 DEF PublishNext, Inv, CallShape
  <2>2. t \in Transitions /\ call[p].expected \in Versions \ {MaxVersion}
    BY <2>1 DEF Calls
  <2>3. i \in Versions /\ i # 0 /\ i - 1 = call[p].expected
    BY <2>2, MaxVersionAssumption DEF Versions
  <2>4. Published(i - 1) /\ seen[p] = HeadAt(i - 1)
    BY <2>1, <2>3 DEF IsPrefix
  <2>5. log[i - 1] \in Events /\ before = log[i - 1].after_state
    BY <2>2, <2>3, <2>4 DEF Published, HeadAt, Inv, TypeOK
  <2>6. before \in RunStates
    BY <2>5 DEF Events
  <2>7. /\ event.after_state \in RunStates
        /\ event.after_state.state_version = i
        /\ event.after_state.status = t.to
    BY <2>1, <2>2, <2>6, AppliedUpdatesType
  <2>8. event \in Events
    <3>1. seen[p].event_head_digest \in Digests
      BY <2>2, <2>3, <2>4, <2>5 DEF HeadAt, EventDigest, Digests, Events
    <3>2. QED
      BY <2>2, <2>7, <3>1 DEF Events
  <2>9. IsRunTransitionReplayCompatible(before.status, event.after_state.status, event.action)
    BY <2>1, <2>7 DEF ApplyAllowed, IsRunTransitionReplayCompatible
  <2>10. event.previous_event_digest = EventDigest(i - 1, log[i - 1])
    BY <2>4 DEF HeadAt
  <2>11. \A j \in Versions : j < i => Published(j)
    <3>1. \A j \in Versions : j < i => j \in 0 .. (i - 1)
      BY <2>3, MaxVersionAssumption DEF Versions
    <3>2. QED
      BY <2>2, <2>3, <2>4, <3>1 DEF Inv, ChainIntact
  <2>12. ~Published(i) /\ Publish(p, i, event)
    BY <1>12 DEF PublishNext
  <2>13. call[p].op \in Mutations
    BY <2>1 DEF Mutations
  <2>14. i + 1 >= floor[p]
    <3>1. before.state_version + 1 >= floor[p] /\ floor[p] \in 0 .. (MaxVersion + 1)
      BY <1>12 DEF PublishNext, Inv, TypeOK, FloorReached
    <3>2. QED
      BY <3>1, <2>1, <2>2, MaxVersionAssumption DEF Versions
  <2>15. QED
    BY <2>1, <2>3, <2>5, <2>7, <2>8, <2>9, <2>10, <2>11, <2>12, <2>13, <2>14, PublishInv
<1>13. ASSUME NEW p \in Processes, AnotherWriterCommitted(p)
      PROVE  Inv'
  BY <1>13, QuietFailure DEF AnotherWriterCommitted, Failures, Inv, TypeOK
<1>14. ASSUME NEW p \in Processes, RewriteSnapshot(p)
      PROVE  Inv'
  <2> DEFINE v == seen[p].state.state_version
             r == [kind |-> "ok", op |-> call[p].op, version |-> v]
  <2>1. /\ snapshot' = seen[p]
        /\ UNCHANGED <<runDirectory, log, corruptRuns>>
        /\ Answer(p, r)
    BY <1>14 DEF RewriteSnapshot, Succeed
  <2>2. /\ IsPrefix(seen[p])
        /\ call[p].op \in {"load"} \cup Mutations
        /\ call[p].op \in Mutations => log[v].author = p
    BY <1>14 DEF RewriteSnapshot, Inv, CallShape
  <2>3. r \in Replies
    BY <2>2 DEF IsPrefix, Replies
  <2>4. seen[p] \in Heads
    BY <2>2 DEF IsPrefix, HeadAt, Heads, Published, Inv, TypeOK, Events, EventDigest, Digests
  <2>5. TypeOK'
    <3>1. floor' \in [Processes -> 0 .. (MaxVersion + 1)]
      BY <2>1, MaxVersionAssumption DEF Answer, Inv, TypeOK
    <3>2. QED
      BY <2>1, <2>3, <2>4, <3>1 DEF Answer, Goto, Inv, TypeOK, Labels
  <2>6. ChainIntact' /\ VersionIsIndex'
    BY <2>1 DEF Inv, ChainIntact, VersionIsIndex, Published, FollowsInChain, EventDigest
  <2>7. SnapshotIsPrefix'
    BY <2>1, <2>2 DEF SnapshotIsPrefix, IsPrefix, HeadAt, EventDigest, Published
  <2>8. ASSUME NEW q \in Processes
        PROVE  CallShape(q)'
    <3>1. CASE q = p
      BY <2>1, <3>1 DEF Answer, Goto, Inv, TypeOK, CallShape
    <3>2. CASE q # p
      BY <2>1, <3>2 DEF Answer, Goto, Inv, TypeOK, CallShape, IsPrefix, HeadAt,
         EventDigest, Published
    <3>3. QED
      BY <3>1, <3>2
  <2>9. AcknowledgedWritesAreOwn'
    BY <2>1, <2>2 DEF Answer, Inv, TypeOK, AcknowledgedWritesAreOwn, Published, IsPrefix
  <2>10. ASSUME NEW q \in Processes
         PROVE  FloorReached(q)'
    <3>1. CASE q = p
      BY <2>1, <3>1, MaxVersionAssumption DEF Answer, Goto, Inv, TypeOK, FloorReached, Versions
    <3>2. CASE q # p
      BY <2>1, <3>2 DEF Answer, Goto, Inv, TypeOK, FloorReached, Published
    <3>3. QED
      BY <3>1, <3>2
  <2>11. QED
    BY <2>5, <2>6, <2>7, <2>8, <2>9, <2>10 DEF Inv
<1>15. ASSUME NEW p \in Processes, PersistFails(p)
      PROVE  Inv'
  BY <1>15, QuietFailure DEF PersistFails, Failures, Inv, TypeOK
<1>16. ASSUME NEW p \in Processes, Crash(p)
      PROVE  Inv'
  <2>1. corruptRuns' \in [Processes -> BOOLEAN]
    BY <1>16 DEF Crash, Inv, TypeOK
  <2>2. QED
    BY <1>16, <2>1, QuietFailure DEF Crash, Fail
<1>17. QED
  BY <1>1, <1>2, <1>3, <1>4, <1>5, <1>6, <1>7, <1>8, <1>9, <1>10, <1>11, <1>12, <1>13,
     <1>14, <1>15, <1>16 DEF Next, ReplayFails, SnapshotRejected

LEMMA InvAlways == Spec => []Inv
  BY InitInv, NextInv, PTL DEF Spec

-----------------------------------------------------------------------------
\* The theorems.

\* Whatever the processes do, every variable stays in its type.
THEOREM StoreTypeCorrect == Spec => []TypeOK
<1>1. Inv => TypeOK
  BY DEF Inv
<1>2. QED
  BY <1>1, InvAlways, PTL

\* The event log stays a gapless digest chain of allowed transitions and the
\* snapshot one of its prefixes, for any number of processes that race, fail
\* and crash between any two file-system operations.
THEOREM StoreFilesStayIntact == Spec => []FilesStayIntact
<1>1. Inv => FilesStayIntact
  BY DEF Inv, FilesStayIntact
<1>2. QED
  BY <1>1, InvAlways, PTL

\* An acknowledged create or compareAndSwap is in the log, written by the
\* process it was acknowledged to.
THEOREM StoreAcknowledgedWritesAreOwn == Spec => []AcknowledgedWritesAreOwn
<1>1. Inv => AcknowledgedWritesAreOwn
  BY DEF Inv
<1>2. QED
  BY <1>1, InvAlways, PTL

\* No step ever replaces an event file that was published, so a replay sees
\* what every earlier replay saw, and possibly more.
THEOREM StoreEventsAreWriteOnce == Spec => EventsAreWriteOnce
<1>1. Inv /\ [Next]_vars =>
        [\A i \in Versions : Published(i) => log'[i] = log[i]]_vars
  <2>1. SUFFICES ASSUME Inv, Next, NEW i \in Versions, Published(i)
                 PROVE  log'[i] = log[i]
    OBVIOUS
  <2>2. PICK p \in Processes :
          \/ \E c \in Calls : Begin(p, c)
          \/ RefuseMutation(p)
          \/ MakeDirectory(p)
          \/ PublishFirst(p)
          \/ RunAlreadyExists(p)
          \/ RunNotFound(p)
          \/ Replay(p)
          \/ ReplayFails(p)
          \/ SnapshotRejected(p)
          \/ LoadReturns(p)
          \/ CasChecks(p)
          \/ PublishNext(p)
          \/ AnotherWriterCommitted(p)
          \/ RewriteSnapshot(p)
          \/ PersistFails(p)
          \/ Crash(p)
    BY <2>1 DEF Next
  <2>3. CASE PublishFirst(p)
    BY <2>1, <2>3 DEF PublishFirst, Publish, Inv, TypeOK
  <2>4. CASE PublishNext(p)
    BY <2>1, <2>4 DEF PublishNext, Publish, Inv, TypeOK
  <2>5. CASE ~PublishFirst(p) /\ ~PublishNext(p)
    BY <2>2, <2>5 DEF Begin, RefuseMutation, MakeDirectory, RunAlreadyExists, RunNotFound,
       Replay, ReplayFails, SnapshotRejected, LoadReturns, CasChecks, AnotherWriterCommitted,
       RewriteSnapshot, PersistFails, Crash, FailCorrupt, Files
  <2>6. QED
    BY <2>3, <2>4, <2>5
<1>2. QED
  BY <1>1, InvAlways, PTL DEF Spec, EventsAreWriteOnce

-----------------------------------------------------------------------------
\* The store implements the atomic register.

History == [v \in Versions |-> IF Published(v) THEN log[v].after_state ELSE NoState]
Phases == [p \in Processes |-> RegisterPhase(p)]

\* The register's rules for a transition are the store's.
LEMMA RegisterRules ==
  ASSUME NEW s, NEW t
  PROVE  /\ Register!ApplyAllowed(s, t) = ApplyAllowed(s, t)
         /\ Register!AppliedUpdates(s, t) = AppliedUpdates(s, t)
<1>1. Register!AppliedUpdates(s, t) = AppliedUpdates(s, t)
  BY DEF Register!AppliedUpdates, AppliedUpdates, Register!Updated, Updated
<1>2. ASSUME NEW from, NEW to, NEW action
      PROVE  Register!IsRunTransitionAllowed(from, to, action)
               = IsRunTransitionAllowed(from, to, action)
  BY DEF Register!IsRunTransitionAllowed, IsRunTransitionAllowed,
         Register!IsSameStatusActionAllowed, IsSameStatusActionAllowed,
         Register!ForwardTransitions, ForwardTransitions,
         Register!OperationalStatuses, OperationalStatuses,
         Register!TerminalStatuses, TerminalStatuses,
         Register!LegacyAcceptanceStatuses, LegacyAcceptanceStatuses
<1>3. ASSUME NEW before, NEW after, NEW action
      PROVE  Register!MetadataTransitionAllowed(before, after, action)
               = MetadataTransitionAllowed(before, after, action)
  BY DEF Register!MetadataTransitionAllowed, MetadataTransitionAllowed,
         Register!SliceIdentityAllowed, SliceIdentityAllowed,
         Register!OverrideAllowed, OverrideAllowed,
         Register!ChangedOverrides, ChangedOverrides,
         Register!CurrentSliceWasDispatched, CurrentSliceWasDispatched,
         Register!EffectiveStatus, EffectiveStatus,
         Register!HandoffClaimAllowed, HandoffClaimAllowed,
         Register!TerminalStatuses, TerminalStatuses, Register!None, None
<1>4. Register!ApplyAllowed(s, t) = ApplyAllowed(s, t)
  BY <1>1, <1>2, <1>3 DEF Register!ApplyAllowed, ApplyAllowed
<1>5. QED
  BY <1>1, <1>4

LEMMA StateIsNotNoState ==
  ASSUME NEW s \in RunStates
  PROVE  s # NoState
BY DEF RunStates, NoState

\* A version exists in the register when its event file is published.
LEMMA ExistsIsPublished ==
  ASSUME Inv, NEW v \in Versions
  PROVE  /\ Register!Exists(v) <=> Published(v)
         /\ Published(v) => History[v] = log[v].after_state
         /\ ~Published(v) => History[v] = NoState
<1>1. Published(v) => log[v].after_state \in RunStates
  BY DEF Published, Inv, TypeOK, Events
<1>2. QED
  BY <1>1, StateIsNotNoState
     DEF History, Register!Exists, Register!NoState, Register!None, NoState, None

\* A call that ends without publishing ends the same way in the register.
LEMMA AnswerMaps ==
  ASSUME Inv, NEW p \in Processes, NEW r, Answer(p, r), log' = log
  PROVE  Register!Answer(p, r)
<1>1. Phases' = [Phases EXCEPT ![p] = "idle"]
  BY DEF Phases, RegisterPhase, Answer, Goto, Inv, TypeOK
<1>2. History' = History
  BY DEF History, Published
<1>3. QED
  BY <1>1, <1>2 DEF Answer, Register!Answer, Phases, History, Register!NoCall, NoCall,
     Register!None, None

\* A step inside a call is invisible when it neither publishes nor answers.
LEMMA InnerStepStutters ==
  ASSUME Inv, NEW p \in Processes, UNCHANGED <<log, call, reply, floor>>,
         NEW label, Goto(p, label), pc[p] # "idle", label # "idle",
         RegisterPhase(p) = "open",
         label = "rewriteSnapshot" => call[p].op \notin Mutations
  PROVE  UNCHANGED Register!vars
<1>1. Phases' = Phases
  BY DEF Phases, RegisterPhase, Goto, Inv, TypeOK
<1>2. History' = History
  BY DEF History, Published
<1>3. QED
  BY <1>1, <1>2 DEF Register!vars, Phases, History

\* Publishing an event is the instant at which a write takes effect.
LEMMA PublishMaps ==
  ASSUME Inv, NEW p \in Processes, NEW i \in Versions, NEW event \in Events,
         call[p].op \in Mutations, Publish(p, i, event)
  PROVE  /\ History' = [History EXCEPT ![i] = event.after_state]
         /\ Phases' = [Phases EXCEPT ![p] = "done"]
         /\ UNCHANGED <<call, floor, reply>>
<1>1. event # NoEvent
  BY ProcessesAssumption DEF Events, NoEvent, None
<1>2. History' = [History EXCEPT ![i] = event.after_state]
  BY <1>1 DEF History, Published, Publish, Inv, TypeOK
<1>3. Phases' = [Phases EXCEPT ![p] = "done"]
  BY DEF Phases, RegisterPhase, Publish, Goto, Inv, TypeOK
<1>4. QED
  BY <1>2, <1>3 DEF Publish

LEMMA InitMaps == Init => Register!Init
BY DEF Init, Register!Init, RegisterPhase, Published, Register!NoState, NoState,
       Register!NoCall, NoCall, Register!None, None, Register!Versions, Versions

\* A finished call with no effect is refused, fails to persist, or is lost.
LEMMA FailureMaps ==
  ASSUME Inv, NEW p \in Processes, log' = log,
         \/ Fail(p, "refused") /\ RegisterPhase(p) = "open"
         \/ Fail(p, "state_persist_failed") /\ RegisterPhase(p) # "idle"
         \/ Answer(p, [kind |-> None])
  PROVE  Register!Next
<1>1. CASE Fail(p, "refused") /\ RegisterPhase(p) = "open"
  <2>1. Register!Answer(p, [kind |-> "refused"])
    BY <1>1, AnswerMaps DEF Fail
  <2>2. QED
    BY <1>1, <2>1 DEF Register!Next, Register!AnswerRefused
<1>2. CASE Fail(p, "state_persist_failed") /\ RegisterPhase(p) # "idle"
  <2>1. Register!Answer(p, [kind |-> "state_persist_failed"])
    BY <1>2, AnswerMaps DEF Fail
  <2>2. QED
    BY <1>2, <2>1 DEF Register!Next, Register!AnswerPersistFailed
<1>3. CASE Answer(p, [kind |-> None])
  <2>1. Register!Answer(p, [kind |-> None])
    BY <1>3, AnswerMaps
  <2>2. QED
    BY <2>1 DEF Register!Next, Register!Crash, Register!None, None
<1>4. QED
  BY <1>1, <1>2, <1>3

\* A compareAndSwap answers stale when the log holds another version.
LEMMA StaleMaps ==
  ASSUME Inv, NEW p \in Processes, log' = log, Fail(p, "stale_state"),
         RegisterPhase(p) = "open", call[p].op = "compareAndSwap",
         NEW v \in Versions, Published(v), v + 1 >= floor[p], v # call[p].expected
  PROVE  Register!Next
<1>1. Register!Answer(p, [kind |-> "stale_state"])
  BY AnswerMaps DEF Fail
<1>2. Register!Exists(v)
  BY ExistsIsPublished
<1>3. Register!AnswerStale(p)
  BY <1>1, <1>2 DEF Register!AnswerStale, Register!Versions, Versions
<1>4. QED
  BY <1>3 DEF Register!Next

\* A load answers with a version that was there.
LEMMA LoadMaps ==
  ASSUME Inv, NEW p \in Processes, log' = log, call[p].op = "load",
         pc[p] \in {"readSnapshot", "rewriteSnapshot"},
         Succeed(p, seen[p].state.state_version)
  PROVE  Register!Next
<1> DEFINE v == seen[p].state.state_version
<1>1. v \in Versions /\ Published(v) /\ v + 1 >= floor[p]
  BY DEF Inv, CallShape, FloorReached, IsPrefix
<1>2. Register!Answer(p, [kind |-> "ok", op |-> "load", version |-> v])
  BY AnswerMaps DEF Succeed
<1>3. Register!Exists(v)
  BY <1>1, ExistsIsPublished
<1>4. RegisterPhase(p) = "open"
  BY DEF RegisterPhase, Mutations
<1>5. Register!AnswerLoaded(p)
  BY <1>1, <1>2, <1>3, <1>4 DEF Register!AnswerLoaded, Register!Versions, Versions
<1>6. QED
  BY <1>5 DEF Register!Next

LEMMA BeginMaps ==
  ASSUME Inv, NEW p \in Processes, NEW c \in Calls, Begin(p, c)
  PROVE  Register!Next
<1>1. Phases' = [Phases EXCEPT ![p] = "open"]
  BY DEF Phases, RegisterPhase, Begin, Goto, Inv, TypeOK
<1>2. History' = History
  BY DEF History, Published, Begin, Files
<1>3. RegisterPhase(p) = "idle"
  BY DEF Begin, RegisterPhase
<1>4. PICK n \in 0 .. (MaxVersion + 1) :
        /\ \A i \in Versions : Published(i) <=> i < n
        /\ floor' = [floor EXCEPT ![p] = n]
  BY DEF Begin
<1>5. \A v \in Register!Versions : Register!Exists(v) <=> v < n
  BY <1>4, ExistsIsPublished DEF Register!Versions, Versions
<1>6. c \in Register!Calls
  BY DEF Calls, Register!Calls, Register!Versions, Versions
<1>7. Register!Invoke(p, c)
  BY <1>1, <1>2, <1>3, <1>4, <1>5
     DEF Register!Invoke, Begin, Phases, History, Register!None, None
<1>8. QED
  BY <1>6, <1>7 DEF Register!Next

LEMMA PublishFirstMaps ==
  ASSUME Inv, NEW p \in Processes, PublishFirst(p)
  PROVE  Register!Next
<1> DEFINE event == [author |-> p, action |-> "create_run",
                     previous_event_digest |-> NoDigest, after_state |-> InitialRun]
<1>1. event \in Events
  BY InitialRunAssumption DEF Events
<1>2. 0 \in Versions
  BY MaxVersionAssumption DEF Versions
<1>3. call[p].op = "create" /\ ~Published(0) /\ Publish(p, 0, event)
  BY DEF PublishFirst, Inv, CallShape
<1>4. RegisterPhase(p) = "open" /\ ~Register!Exists(0)
  BY <1>2, <1>3, ExistsIsPublished DEF PublishFirst, RegisterPhase
<1>5. /\ History' = [History EXCEPT ![0] = InitialRun]
      /\ Phases' = [Phases EXCEPT ![p] = "done"]
      /\ UNCHANGED <<call, floor, reply>>
  BY <1>1, <1>2, <1>3, PublishMaps DEF Mutations
<1>6. Register!Create(p)
  BY <1>3, <1>4, <1>5 DEF Register!Create, Phases, History
<1>7. QED
  BY <1>6 DEF Register!Next

LEMMA PublishNextMaps ==
  ASSUME Inv, NEW p \in Processes, PublishNext(p)
  PROVE  Register!Next
<1> DEFINE v == call[p].expected
           t == call[p].transition
           before == seen[p].state
           event == [author |-> p, action |-> t.action,
                     previous_event_digest |-> seen[p].event_head_digest,
                     after_state |-> AppliedUpdates(before, t)]
<1>1. /\ call[p] \in Calls
      /\ call[p].op = "compareAndSwap"
      /\ before.state_version = v
      /\ ApplyAllowed(before, t)
      /\ IsPrefix(seen[p])
  BY DEF PublishNext, Inv, CallShape
<1>2. t \in Transitions /\ v \in Versions /\ v + 1 \in Versions
  BY <1>1, MaxVersionAssumption DEF Calls, Versions
<1>3. Published(v) /\ seen[p] = HeadAt(v) /\ log[v] \in Events
  BY <1>1, <1>2 DEF IsPrefix, Published, Inv, TypeOK
<1>4. before = log[v].after_state /\ before \in RunStates
  BY <1>3 DEF HeadAt, Events
<1>5. event \in Events
  <2>1. seen[p].event_head_digest \in Digests
    BY <1>2, <1>3 DEF HeadAt, EventDigest, Digests, Events
  <2>2. AppliedUpdates(before, t) \in RunStates
    BY <1>2, <1>4, AppliedUpdatesType
  <2>3. QED
    BY <1>2, <2>1, <2>2 DEF Events
<1>6. /\ History' = [History EXCEPT ![v + 1] = AppliedUpdates(before, t)]
      /\ Phases' = [Phases EXCEPT ![p] = "done"]
      /\ UNCHANGED <<call, floor, reply>>
  BY <1>1, <1>2, <1>5, PublishMaps DEF PublishNext, Mutations
<1>7. Register!IsCurrent(v)
  BY <1>2, <1>3, ExistsIsPublished DEF Register!IsCurrent, PublishNext
<1>8. History[v] = before
  BY <1>2, <1>3, <1>4, ExistsIsPublished
<1>9. Register!Swap(p)
  <2>1. RegisterPhase(p) = "open"
    BY DEF PublishNext, RegisterPhase
  <2>2. Register!ApplyAllowed(before, t) /\ Register!AppliedUpdates(before, t) = AppliedUpdates(before, t)
    BY <1>1, RegisterRules
  <2>3. QED
    BY <1>1, <1>6, <1>7, <1>8, <2>1, <2>2 DEF Register!Swap, Phases, History
<1>10. QED
  BY <1>9 DEF Register!Next

LEMMA RewriteSnapshotMaps ==
  ASSUME Inv, NEW p \in Processes, RewriteSnapshot(p)
  PROVE  Register!Next
<1>1. log' = log /\ Succeed(p, seen[p].state.state_version)
  BY DEF RewriteSnapshot
<1>2. CASE call[p].op = "load"
  BY <1>1, <1>2, LoadMaps DEF RewriteSnapshot
<1>3. CASE call[p].op \in Mutations
  <2>1. seen[p].state.state_version = Register!Produced(call[p])
    BY <1>3 DEF RewriteSnapshot, Inv, CallShape, Mutations, Register!Produced
  <2>2. Register!Answer(p, [kind |-> "ok", op |-> call[p].op,
                            version |-> seen[p].state.state_version])
    BY <1>1, AnswerMaps DEF Succeed
  <2>3. RegisterPhase(p) = "done"
    BY <1>3 DEF RewriteSnapshot, RegisterPhase
  <2>4. Register!AnswerWritten(p)
    BY <2>1, <2>2, <2>3 DEF Register!AnswerWritten
  <2>5. QED
    BY <2>4 DEF Register!Next
<1>4. QED
  BY <1>2, <1>3 DEF RewriteSnapshot, Inv, CallShape

LEMMA CasChecksMaps ==
  ASSUME Inv, NEW p \in Processes, CasChecks(p)
  PROVE  Register!Next \/ UNCHANGED Register!vars
<1> DEFINE v == seen[p].state.state_version
<1>1. /\ log' = log /\ pc[p] = "readSnapshot" /\ call[p].op = "compareAndSwap"
      /\ RegisterPhase(p) = "open"
  BY DEF CasChecks, Files, RegisterPhase
<1>2. v \in Versions /\ Published(v) /\ v + 1 >= floor[p]
  BY <1>1 DEF Inv, CallShape, FloorReached, IsPrefix
<1>3. CASE v # call[p].expected
  BY <1>1, <1>2, <1>3, StaleMaps DEF CasChecks
<1>4. CASE v = call[p].expected /\ ~ApplyAllowed(seen[p].state, call[p].transition)
  BY <1>1, <1>4, FailureMaps DEF CasChecks
<1>5. CASE v = call[p].expected /\ ApplyAllowed(seen[p].state, call[p].transition)
  BY <1>1, <1>5, InnerStepStutters DEF CasChecks, Continue, Files
<1>6. QED
  BY <1>3, <1>4, <1>5

\* Every step of the store is a step of the register or invisible in it.
LEMMA NextMaps == Inv /\ [Next]_vars => [Register!Next]_Register!vars
<1> SUFFICES ASSUME Inv, [Next]_vars PROVE Register!Next \/ UNCHANGED Register!vars
  OBVIOUS
<1>1. CASE UNCHANGED vars
  BY <1>1 DEF vars, Register!vars, RegisterPhase, Published
<1>2. ASSUME NEW p \in Processes,
             \/ RefuseMutation(p) \/ RunAlreadyExists(p) \/ RunNotFound(p)
             \/ ReplayFails(p) \/ SnapshotRejected(p) \/ PersistFails(p) \/ Crash(p)
      PROVE  Register!Next
  <2>1. \/ Fail(p, "refused") /\ RegisterPhase(p) = "open"
        \/ Fail(p, "state_persist_failed") /\ RegisterPhase(p) # "idle"
        \/ Answer(p, [kind |-> None])
    BY <1>2 DEF RefuseMutation, RunAlreadyExists, RunNotFound, ReplayFails,
       SnapshotRejected, PersistFails, Crash, FailCorrupt, RegisterPhase
  <2>2. log' = log
    BY <1>2 DEF RefuseMutation, RunAlreadyExists, RunNotFound, ReplayFails,
       SnapshotRejected, PersistFails, Crash, FailCorrupt, Files
  <2>3. QED
    BY <2>1, <2>2, FailureMaps
<1>3. ASSUME NEW p \in Processes, AnotherWriterCommitted(p)
      PROVE  Register!Next
  <2> DEFINE v == call[p].expected + 1
  <2>1. /\ call[p] \in Calls /\ call[p].op = "compareAndSwap"
        /\ seen[p].state.state_version = call[p].expected
        /\ call[p].expected + 1 >= floor[p]
    BY <1>3 DEF AnotherWriterCommitted, Inv, CallShape, FloorReached
  <2>2. v \in Versions /\ v # call[p].expected /\ v + 1 >= floor[p]
    BY <2>1, MaxVersionAssumption DEF Calls, Versions, Inv, TypeOK
  <2>3. RegisterPhase(p) = "open" /\ log' = log
    BY <1>3 DEF AnotherWriterCommitted, RegisterPhase, Files
  <2>4. QED
    BY <1>3, <2>1, <2>2, <2>3, StaleMaps DEF AnotherWriterCommitted
<1>4. ASSUME NEW p \in Processes, MakeDirectory(p) \/ Replay(p)
      PROVE  UNCHANGED Register!vars
  BY <1>4, InnerStepStutters DEF MakeDirectory, Replay, Continue, RegisterPhase, Files
<1>5. ASSUME NEW p \in Processes, LoadReturns(p)
      PROVE  Register!Next \/ UNCHANGED Register!vars
  <2>1. CASE SnapshotIsCurrent(p)
    BY <1>5, <2>1, LoadMaps DEF LoadReturns, Files
  <2>2. CASE ~SnapshotIsCurrent(p)
    BY <1>5, <2>2, InnerStepStutters DEF LoadReturns, Continue, RegisterPhase, Files, Mutations
  <2>3. QED
    BY <2>1, <2>2
<1>6. QED
  BY <1>1, <1>2, <1>3, <1>4, <1>5, BeginMaps, PublishFirstMaps, PublishNextMaps,
     RewriteSnapshotMaps, CasChecksMaps DEF Next

\* Every behaviour of the store is a behaviour of the atomic register: calls
\* of racing and crashing processes take effect one at a time, each within its
\* own call, and an answer tells the truth about it.
THEOREM StoreImplementsRegister == Spec => ImplementsRegister
<1>1. Register!Init /\ [][Register!Next]_Register!vars => ImplementsRegister
  BY DEF ImplementsRegister, Register!Spec
<1>2. QED
  BY <1>1, InvAlways, InitMaps, NextMaps, PTL DEF Spec

=============================================================================
