------------------------- MODULE SliceCompletionProofs -------------------------
(****************************************************************************)
(* The Slice commits once, exactly what was verified, and its answers, its     *)
(* checkpoint and the goal receipt are true, however many steps others take on  *)
(* the worktree, however often finishSlice is called and whatever git process   *)
(* fails in between.                                                          *)
(*                                                                           *)
(* The head only moves forward (GitInv), so that once the Slice committed no    *)
(* capture that begins later shows its start head (CaptureInv), and no further  *)
(* call gets past its first inspection (CommitInv).  The patch that is staged   *)
(* is the verified one as long as the two are equal (SliceInv), and the staged  *)
(* tree does not change between its comparison and the commit (StagedInv).      *)
(*                                                                           *)
(* The second part, from Failures on, is about the Development Task the Slice    *)
(* is worked on in, a system of its own (TaskSpec): its stream of compactions is  *)
(* sound and its receipts are earned, whatever the host sends and in whatever    *)
(* order its notifications and its answer to turn/start come in.                *)
(****************************************************************************)
EXTENDS SliceCompletion, DevelopmentTask, FiniteSetTheorems, TLAPS

-----------------------------------------------------------------------------
(* Where the caller is.                                                      *)

EarlyLabels == {"idle", "baseline", "working", "collecting", "snapshot", "collected", "verify", "patch"}
BeforeCommit == {"validate", "stage", "recheck", "commit"}
FinishLabels == BeforeCommit \cup {"readhead", "reconcile", "checkpoint", "answered"}
Labels == EarlyLabels \cup FinishLabels \cup {"ready", "done"}
CapturingLabels == {"baseline", "snapshot", "verify", "patch", "validate", "recheck"}

(* A snapshot for the receipt has been taken; the patch has been derived.     *)
CollectedLabels == {"collected", "verify", "patch", "ready"} \cup FinishLabels
DerivedLabels == {"ready"} \cup FinishLabels

-----------------------------------------------------------------------------
(* The inductive invariant.                                                  *)

Trees == [Paths -> Nat]
Commits == [parent: Nat, tree: Trees, call: Nat]
Receipts == {"none", "PASS", "CHECK_OUTPUT_LIMIT_EXCEEDED", "CHECK_TIMEOUT", "CHECK_SPAWN_FAILED",
             "CHECK_NONZERO_EXIT", "CHECK_PATH_OUTSIDE_WORKSPACE"}
CheckRecords ==
  [running: BOOLEAN, exit: {"none", "alive", "expected", "other", "killed", "failed"},
   descendant: Descendants, timer: BOOLEAN, timedOut: BOOLEAN, flooded: BOOLEAN,
   failed: BOOLEAN, receipt: Receipts]

GitInv ==
  /\ commits \in Seq(Commits) /\ commits # << >> /\ head = Len(commits)
  /\ \A c \in DOMAIN commits : commits[c].parent \in 0..(c - 1)
  /\ index \in Trees /\ work \in Trees
  /\ edits \in 0..MaxEdits

IsSnapshot(s) ==
  s # NoSnapshot =>
    /\ s = [head |-> s.head, entries |-> [p \in Listed(s) |-> s.entries[p]]]
    /\ s.head \in DOMAIN commits /\ Listed(s) \subseteq Paths

(* A capture that began after the Slice's own commit shows a later head.      *)
Views == [head: Nat, index: Trees, work: Trees]
CaptureInv ==
  /\ capture \in Seq(Views)
  /\ capture # NoCapture =>
       /\ pc \in CapturingLabels
       /\ Len(capture) <= edits + 1
       /\ \A i \in DOMAIN capture : capture[i].head \in DOMAIN commits
       /\ OwnCommits # {} => capture[1].head > StartHead

CheckInv ==
  /\ check \in CheckRecords
  /\ receipts \in Seq(Receipts) /\ Len(receipts) <= Checks
  /\ check.running \/ check.receipt # "none" => Len(receipts) < Checks
  /\ pc \in CollectedLabels \cup {"snapshot"} => Len(receipts) = Checks

AllPassed == receipts = [i \in 1..Checks |-> "PASS"]

SliceInv ==
  /\ pc \in Labels
  /\ verification.result \in {None, "PASS", "FAIL"}
  /\ IsSnapshot(baseline) /\ IsSnapshot(snapshot)
  /\ pc \in CollectedLabels => baseline # NoSnapshot /\ snapshot # NoSnapshot
  /\ pc \in {"snapshot", "collecting", "working"} => baseline # NoSnapshot
  /\ pc \in {"patch"} \cup DerivedLabels =>
       /\ AllPassed
       /\ verification.patch = PatchOf(baseline, snapshot)
  /\ pc \notin DerivedLabels => patch = NoPatch
  /\ pc \in DerivedLabels =>
       /\ patch = PatchOf(baseline, patch.current)
       /\ StartHead \in DOMAIN commits
       /\ patch.paths \subseteq Owned \ Listed(baseline)

(* The tree is the start head's with the verified changes.                    *)
IsVerified(tree) ==
  /\ verification.patch = patch
  /\ {p \in Paths : tree[p] # commits[StartHead].tree[p]} = patch.paths
  /\ \A p \in patch.paths : IsNewFile(patch.entries[p]) \/ tree[p] = patch.entries[p].patch.to

StagedInv ==
  /\ pc \in {"stage", "recheck", "commit"} =>
       mode = "after_slice" /\ OwnCommits = {} /\ verification.patch = patch
  /\ pc \in {"recheck", "commit"} => alternate \in Trees /\ IsVerified(alternate)

CommitInv ==
  /\ mode \in {"after_slice", "none"}
  /\ tries \in 0..MaxTries
  /\ pc \in FinishLabels => tries > 0
  /\ pc \notin FinishLabels => tries = 0
  /\ \A c \in DOMAIN commits : commits[c].call <= tries
  /\ pc \in BeforeCommit => CommitOf(tries) = {}
  /\ \A c \in OwnCommits : mode = "after_slice" /\ c > StartHead /\ IsVerified(commits[c].tree)
  /\ \A c, d \in OwnCommits : c = d

(* What the running call, or the one that answered, knows of its commit.      *)
HeadInv ==
  /\ committed \in 0..Len(commits) /\ answer.end \in 0..Len(commits)
  /\ pc = "answered" => answer.end \in DOMAIN commits
  /\ pc = "readhead" => CommitOf(tries) # {}
  /\ pc \in {"reconcile", "checkpoint"} =>
       IF mode = "none" THEN pc = "checkpoint" /\ committed = StartHead
       ELSE \E c \in CommitOf(tries) : c <= committed
  /\ pc \in BeforeCommit => committed = StartHead
  /\ AnswersTellOfTheCommit

CheckpointInv ==
  \/ work[Checkpoint] < 10
  \/ /\ pc \in FinishLabels
     /\ \E h \in DOMAIN commits :
          /\ work[Checkpoint] = Document(h)
          /\ IF mode = "none" THEN h = StartHead ELSE \E c \in OwnCommits : c <= h

GoalInv ==
  /\ GoalReceiptIsTrue
  /\ goal # NoGoal => pc = "done" /\ goal.start \in DOMAIN commits /\ goal.end \in DOMAIN commits

IInv ==
  /\ GitInv /\ CaptureInv /\ CheckInv /\ SliceInv
  /\ StagedInv /\ CommitInv /\ HeadInv /\ CheckpointInv /\ GoalInv

-----------------------------------------------------------------------------
(* Facts about the operators.                                                *)

LEMMA Appending ==
  ASSUME NEW S, NEW s \in Seq(S), NEW e \in S, NEW t, t = Append(s, e)
  PROVE  /\ t \in Seq(S) /\ t # << >> /\ Len(t) = Len(s) + 1
         /\ DOMAIN s = 1..Len(s) /\ DOMAIN t = 1..(Len(s) + 1)
         /\ \A i \in DOMAIN s : t[i] = s[i]
         /\ t[Len(s) + 1] = e
  OBVIOUS

LEMMA CommitFacts ==
  ASSUME GitInv
  PROVE  /\ Len(commits) \in Nat \ {0} /\ DOMAIN commits = 1..Len(commits)
         /\ head \in DOMAIN commits /\ HeadTree \in Trees
         /\ \A c \in DOMAIN commits :
              commits[c] \in Commits /\ commits[c].tree \in Trees /\ commits[c].call \in Nat
  <1>1. commits \in Seq(Commits) /\ commits # << >> /\ head = Len(commits)
    BY DEF GitInv
  <1>2. Len(commits) \in Nat \ {0} /\ DOMAIN commits = 1..Len(commits)
    BY <1>1
  <1>3. \A c \in DOMAIN commits : commits[c] \in Commits
    BY <1>1, <1>2
  <1> QED
    BY <1>1, <1>2, <1>3 DEF Commits, HeadTree

LEMMA Forked == Checkpoint \in Paths /\ Checkpoint \notin Owned /\ Owned \subseteq Paths /\ Artifact \in Paths
  BY PathsAssumption, ArtifactAssumption

(* The history only grows.                                                   *)
Grows ==
  /\ Len(commits') >= Len(commits) /\ Len(commits') \in Nat /\ DOMAIN commits' = 1..Len(commits')
  /\ \A c \in DOMAIN commits : commits'[c] = commits[c]

LEMMA HistoryStays == ASSUME GitInv, UNCHANGED commits PROVE Grows
  BY CommitFacts DEF Grows

LEMMA AppendGrows ==
  ASSUME GitInv, NEW tree \in Trees, NEW call \in Nat, AppendCommit(tree, call)
  PROVE  /\ Grows /\ DOMAIN commits' = DOMAIN commits \cup {Len(commits) + 1}
         /\ commits' \in Seq(Commits) /\ commits' # << >> /\ head' = Len(commits')
         /\ commits'[Len(commits) + 1] = [parent |-> head, tree |-> tree, call |-> call]
         /\ \A c \in DOMAIN commits' : commits'[c].parent \in 0..(c - 1)
  <1> DEFINE new == [parent |-> head, tree |-> tree, call |-> call]
  <1>1. new \in Commits /\ commits \in Seq(Commits) /\ commits' = Append(commits, new)
        /\ head' = Len(commits) + 1
    BY DEF AppendCommit, GitInv, Commits
  <1>2. /\ commits' \in Seq(Commits) /\ commits' # << >> /\ Len(commits') = Len(commits) + 1
        /\ DOMAIN commits = 1..Len(commits) /\ DOMAIN commits' = 1..(Len(commits) + 1)
        /\ \A i \in DOMAIN commits : commits'[i] = commits[i]
        /\ commits'[Len(commits) + 1] = new
    BY <1>1, Appending
  <1>3. Len(commits) \in Nat /\ Len(commits') \in Nat
    BY <1>1, <1>2
  <1>4. \A c \in DOMAIN commits' : commits'[c].parent \in 0..(c - 1)
    <2> TAKE c \in DOMAIN commits'
    <2>1. CASE c \in DOMAIN commits
      BY <1>2, <2>1 DEF GitInv
    <2>2. CASE c = Len(commits) + 1
      BY <1>2, <1>3, <2>2 DEF GitInv
    <2> QED
      BY <1>2, <1>3, <2>1, <2>2
  <1> QED
    BY <1>1, <1>2, <1>3, <1>4 DEF Grows

(* A step that makes no commit of the Slice.                                  *)
NoOwnCommit ==
  /\ Grows /\ commits' \in Seq(Commits)
  /\ \A c \in DOMAIN commits' \ DOMAIN commits : commits'[c].call = 0

LEMMA OwnCommitsStay ==
  ASSUME GitInv, NoOwnCommit
  PROVE  /\ OwnCommits' = OwnCommits
         /\ \A n \in Nat : CommitOf(n)' = CommitOf(n)
         /\ DOMAIN commits \subseteq DOMAIN commits'
  BY CommitFacts DEF NoOwnCommit, Grows, OwnCommits, CommitOf

-----------------------------------------------------------------------------
(* What a step of others leaves as it is.                                     *)

LEMMA SliceStays ==
  ASSUME GitInv, SliceInv, Grows, UNCHANGED executionVars
  PROVE  SliceInv'
  <1>1. DOMAIN commits \subseteq DOMAIN commits'
    BY CommitFacts DEF Grows
  <1>2. IsSnapshot(baseline)' /\ IsSnapshot(snapshot)'
    BY <1>1 DEF SliceInv, IsSnapshot, executionVars, Listed
  <1> QED
    BY <1>1, <1>2 DEF SliceInv, executionVars, AllPassed, StartHead, Listed

LEMMA StagedStays ==
  ASSUME GitInv, SliceInv, StagedInv, NoOwnCommit, UNCHANGED <<executionVars, finishVars>>
  PROVE  StagedInv'
  <1>1. OwnCommits' = OwnCommits
    BY OwnCommitsStay
  <1>2. UNCHANGED <<pc, patch, verification, alternate, mode>>
    BY DEF executionVars, finishVars
  <1>3. ASSUME pc \in {"recheck", "commit"} PROVE IsVerified(alternate)'
    <2>1. StartHead \in DOMAIN commits /\ StartHead' = StartHead
      BY <1>2, <1>3 DEF SliceInv, DerivedLabels, FinishLabels, BeforeCommit, StartHead
    <2>2. commits'[StartHead] = commits[StartHead]
      BY <2>1 DEF NoOwnCommit, Grows
    <2> QED
      BY <1>2, <1>3, <2>1, <2>2 DEF StagedInv, IsVerified
  <1> QED
    BY <1>1, <1>2, <1>3 DEF StagedInv

LEMMA CommitStays ==
  ASSUME GitInv, SliceInv, CommitInv, NoOwnCommit, UNCHANGED <<executionVars, finishVars>>
  PROVE  CommitInv'
  <1>1. /\ OwnCommits' = OwnCommits
        /\ \A n \in Nat : CommitOf(n)' = CommitOf(n)
    BY OwnCommitsStay
  <1>2. UNCHANGED <<pc, patch, verification, tries, mode>> /\ StartHead' = StartHead
    BY DEF executionVars, finishVars, StartHead
  <1>3. tries \in Nat /\ tries' \in 0..MaxTries
    BY <1>2, MaxTriesAssumption DEF CommitInv
  <1>4. \A c \in DOMAIN commits' : commits'[c].call <= tries'
    <2> TAKE c \in DOMAIN commits'
    <2>1. CASE c \in DOMAIN commits
      BY <1>2, <2>1 DEF CommitInv, NoOwnCommit, Grows
    <2>2. CASE c \notin DOMAIN commits
      BY <1>2, <1>3, <2>2 DEF NoOwnCommit
    <2> QED
      BY <2>1, <2>2
  <1>5. (CommitOf(tries) = {})' <=> CommitOf(tries) = {}
    BY <1>1, <1>2, <1>3 DEF CommitOf
  <1>6. \A c \in OwnCommits : IsVerified(commits[c].tree)'
    <2> TAKE c \in OwnCommits
    <2>1. c \in DOMAIN commits /\ commits[c].call # 0 /\ IsVerified(commits[c].tree)
      BY DEF OwnCommits, CommitInv
    <2>2. pc \in FinishLabels
      BY <2>1, CommitFacts DEF CommitInv
    <2>3. StartHead \in DOMAIN commits
      BY <2>2 DEF SliceInv, DerivedLabels
    <2>4. commits'[StartHead] = commits[StartHead] /\ commits'[c] = commits[c]
      BY <2>1, <2>3 DEF NoOwnCommit, Grows
    <2>5. commits'[c].tree = commits[c].tree /\ commits'[StartHead'].tree = commits[StartHead].tree
      BY <1>2, <2>4
    <2>6. {p \in Paths : commits'[c].tree[p] # commits'[StartHead'].tree[p]} = patch'.paths
      BY <1>2, <2>1, <2>5 DEF IsVerified
    <2> QED
      BY <1>2, <2>1, <2>5, <2>6 DEF IsVerified
  <1>7. \A c \in OwnCommits' : mode' = "after_slice" /\ c > StartHead' /\ IsVerified(commits[c].tree)'
    BY <1>1, <1>2, <1>6 DEF CommitInv
  <1>8. \A c, d \in OwnCommits' : c = d
    BY <1>1 DEF CommitInv
  <1> QED
    BY <1>1, <1>2, <1>3, <1>4, <1>5, <1>7, <1>8 DEF CommitInv

LEMMA HeadStays ==
  ASSUME GitInv, SliceInv, CommitInv, HeadInv, NoOwnCommit, UNCHANGED <<executionVars, finishVars>>
  PROVE  HeadInv'
  <1>1. /\ OwnCommits' = OwnCommits
        /\ CommitOf(tries)' = CommitOf(tries)
    BY OwnCommitsStay, MaxTriesAssumption DEF CommitInv, finishVars, CommitOf
  <1>2. UNCHANGED <<pc, patch, answer, tries, mode, committed>> /\ StartHead' = StartHead
    BY DEF executionVars, finishVars, StartHead
  <1>3. committed' \in 0..Len(commits') /\ answer'.end \in 0..Len(commits')
    BY <1>2, CommitFacts DEF HeadInv, NoOwnCommit, Grows
  <1>4. pc = "answered" => answer.end \in DOMAIN commits' /\ commits'[answer.end] = commits[answer.end]
    BY CommitFacts DEF HeadInv, NoOwnCommit, Grows
  <1>5. AnswersTellOfTheCommit'
    BY <1>1, <1>2, <1>4 DEF HeadInv, AnswersTellOfTheCommit, IsAncestor
  <1> QED
    BY <1>1, <1>2, <1>3, <1>4, <1>5 DEF HeadInv

LEMMA GoalStays ==
  ASSUME GitInv, GoalInv, Grows, UNCHANGED <<executionVars, goalVars>>
  PROVE  GoalInv'
  <1>1. UNCHANGED <<pc, baseline, snapshot, goal>>
    BY DEF executionVars, goalVars
  <1>2. CASE goal = NoGoal
    BY <1>1, <1>2 DEF GoalInv, GoalReceiptIsTrue, NoGoal
  <1>3. CASE goal # NoGoal
    <2>1. /\ goal.start \in DOMAIN commits' /\ goal.end \in DOMAIN commits'
          /\ commits'[goal.start] = commits[goal.start] /\ commits'[goal.end] = commits[goal.end]
      BY <1>3, CommitFacts DEF GoalInv, Grows
    <2> QED
      BY <1>1, <1>3, <2>1 DEF GoalInv, GoalReceiptIsTrue, StatesOf, Listed
  <1> QED
    BY <1>2, <1>3

LEMMA CheckpointStays ==
  ASSUME GitInv, CheckpointInv, CommitInv, NoOwnCommit, UNCHANGED <<executionVars, finishVars>>,
         work'[Checkpoint] = work[Checkpoint] \/ work'[Checkpoint] < 10
  PROVE  CheckpointInv'
  <1>1. OwnCommits' = OwnCommits /\ DOMAIN commits \subseteq DOMAIN commits'
    BY OwnCommitsStay
  <1>2. UNCHANGED <<pc, patch, mode>> /\ StartHead' = StartHead
    BY DEF executionVars, finishVars, StartHead
  <1> QED
    BY <1>1, <1>2 DEF CheckpointInv

-----------------------------------------------------------------------------
(* Others.                                                                   *)

LEMMA WorkIsNat ==
  ASSUME GitInv, NEW p \in Paths PROVE work[p] \in Nat /\ index[p] \in Nat /\ HeadTree[p] \in Nat
  BY CommitFacts DEF GitInv, Trees

LEMMA CommitPathsFacts ==
  ASSUME GitInv, NEW set, CommitPaths(set)
  PROVE  /\ NoOwnCommit /\ commits' # << >> /\ head' = Len(commits')
         /\ \A c \in DOMAIN commits' : commits'[c].parent \in 0..(c - 1)
         /\ index' \in Trees /\ work' = work
  <1> DEFINE tree == [p \in Paths |-> IF p \in set THEN work[p] ELSE HeadTree[p]]
  <1>1. tree \in Trees /\ index' \in Trees
    BY WorkIsNat DEF CommitPaths, Trees
  <1>2. AppendCommit(tree, 0) /\ work' = work
    BY DEF CommitPaths
  <1> HIDE DEF tree
  <1>3. /\ Grows /\ DOMAIN commits' = DOMAIN commits \cup {Len(commits) + 1}
        /\ commits' \in Seq(Commits) /\ commits' # << >> /\ head' = Len(commits')
        /\ commits'[Len(commits) + 1] = [parent |-> head, tree |-> tree, call |-> 0]
        /\ \A c \in DOMAIN commits' : commits'[c].parent \in 0..(c - 1)
    BY <1>1, <1>2, AppendGrows
  <1> QED
    BY <1>1, <1>2, <1>3 DEF NoOwnCommit

LEMMA OthersKeepGit ==
  ASSUME GitInv, Others
  PROVE  GitInv' /\ NoOwnCommit /\ (work'[Checkpoint] = work[Checkpoint] \/ work'[Checkpoint] < 10)
  <1>1. edits' \in 0..MaxEdits
    BY MaxEditsAssumption DEF Others, GitInv
  <1>2. ASSUME UNCHANGED <<commits, head>>
        PROVE  /\ NoOwnCommit /\ commits' \in Seq(Commits) /\ commits' # << >> /\ head' = Len(commits')
               /\ \A c \in DOMAIN commits' : commits'[c].parent \in 0..(c - 1)
    BY <1>2, HistoryStays DEF NoOwnCommit, GitInv
  <1>3. ASSUME NEW p \in Paths, NEW bytes \in Bytes \cup {Absent}, Write(p, bytes)
        PROVE  /\ UNCHANGED <<commits, head, index>> /\ work' \in Trees
               /\ work'[Checkpoint] = work[Checkpoint] \/ work'[Checkpoint] < 10
    BY <1>3, Forked, WorkIsNat DEF Write, GitInv, Trees, Bytes, Absent
  <1>4. ASSUME NEW p \in Owned, Stage(p)
        PROVE  UNCHANGED <<commits, head, work>> /\ index' \in Trees
    BY <1>4, Forked, WorkIsNat DEF Stage, GitInv, Trees
  <1>5. CASE \E p \in Paths, bytes \in Bytes \cup {Absent} : Write(p, bytes)
    BY <1>1, <1>2, <1>3, <1>5 DEF GitInv
  <1>6. CASE \E p \in Owned : Stage(p)
    BY <1>1, <1>2, <1>4, <1>6 DEF GitInv
  <1>7. CASE \E set : CommitPaths(set)
    <2>1. PICK set : CommitPaths(set)
      BY <1>7
    <2> QED
      BY <1>1, <2>1, CommitPathsFacts DEF GitInv, NoOwnCommit
  <1> QED
    BY <1>5, <1>6, <1>7 DEF Others

LEMMA CaptureEnds == ASSUME capture' = NoCapture PROVE CaptureInv'
  BY DEF CaptureInv, NoCapture

(* The worktree at one moment, and after a step.                              *)
LEMMA ViewFacts == GitInv => View \in Views /\ View.head = head /\ head \in DOMAIN commits
  BY CommitFacts DEF View, Views, GitInv

LEMMA NextViewFacts == GitInv' => View' \in Views /\ View'.head \in DOMAIN commits'
  <1> SUFFICES ASSUME GitInv' PROVE View' \in Views /\ View'.head \in DOMAIN commits'
    OBVIOUS
  <1>1. commits' \in Seq(Commits) /\ commits' # << >> /\ head' = Len(commits')
        /\ index' \in Trees /\ work' \in Trees
    BY DEF GitInv
  <1>2. head' \in Nat /\ head' \in DOMAIN commits'
    BY <1>1
  <1>3. View' = [head |-> head', index |-> index', work |-> work']
    BY DEF View
  <1> QED
    BY <1>1, <1>2, <1>3 DEF Views

LEMMA OthersKeep ==
  ASSUME IInv, Others, UNCHANGED <<check, executionVars, finishVars, goalVars>>
  PROVE  IInv'
  <1> USE DEF IInv
  <1>1. GitInv' /\ NoOwnCommit /\ (work'[Checkpoint] = work[Checkpoint] \/ work'[Checkpoint] < 10)
    BY OthersKeepGit
  <1>2. OwnCommits' = OwnCommits /\ DOMAIN commits \subseteq DOMAIN commits' /\ Grows
    BY <1>1, OwnCommitsStay DEF NoOwnCommit
  <1>3. CaptureInv'
    <2>1. CASE capture = NoCapture
      BY <2>1, CaptureEnds DEF Others
    <2>2. CASE capture # NoCapture
      <3>1. capture \in Seq(Views) /\ View' \in Views /\ capture' = Append(capture, View')
            /\ View'.head \in DOMAIN commits'
        BY <1>1, <2>2, NextViewFacts DEF CaptureInv, Others
      <3>2. /\ capture' \in Seq(Views) /\ capture' # << >> /\ Len(capture') = Len(capture) + 1
            /\ DOMAIN capture = 1..Len(capture) /\ DOMAIN capture' = 1..(Len(capture) + 1)
            /\ \A i \in DOMAIN capture : capture'[i] = capture[i]
            /\ capture'[Len(capture) + 1] = View'
        BY <3>1, Appending
      <3>3. Len(capture) \in Nat \ {0} /\ edits \in Nat /\ edits' = edits + 1
        BY <2>2, <3>1, MaxEditsAssumption DEF GitInv, Others, NoCapture
      <3>4. \A i \in DOMAIN capture' : capture'[i].head \in DOMAIN commits'
        <4> TAKE i \in DOMAIN capture'
        <4>1. CASE i \in DOMAIN capture
          BY <1>2, <2>2, <3>2, <4>1 DEF CaptureInv
        <4>2. CASE i = Len(capture) + 1
          BY <3>1, <3>2, <4>2
        <4> QED
          BY <3>2, <3>3, <4>1, <4>2
      <3>5. capture'[1] = capture[1] /\ StartHead' = StartHead /\ pc' = pc
        BY <3>2, <3>3 DEF executionVars, StartHead
      <3>6. Len(capture') <= edits' + 1
        BY <2>2, <3>2, <3>3 DEF CaptureInv
      <3> QED
        BY <1>2, <2>2, <3>2, <3>4, <3>5, <3>6 DEF CaptureInv
    <2> QED
      BY <2>1, <2>2
  <1>4. CheckInv'
    BY DEF CheckInv, executionVars
  <1> QED
    BY <1>1, <1>2, <1>3, <1>4, SliceStays, StagedStays, CommitStays, HeadStays, GoalStays, CheckpointStays

-----------------------------------------------------------------------------
(* Captures.                                                                 *)

LEMMA CapturingMoves ==
  ASSUME GitInv, CaptureInv, SliceInv, CommitInv, Capturing, UNCHANGED executionVars
  PROVE  CaptureInv'
  <1>1. UNCHANGED <<commits, head, index, work, edits, pc, patch>>
    BY DEF Capturing, repository, executionVars
  <1>2. GitInv' /\ NoOwnCommit
    BY <1>1, HistoryStays DEF GitInv, NoOwnCommit
  <1>3. OwnCommits' = OwnCommits /\ StartHead' = StartHead
    BY <1>1, <1>2, OwnCommitsStay DEF StartHead
  <1>4. pc' \in CapturingLabels
    BY <1>1 DEF Capturing, CapturingLabels
  <1>5. capture' = <<View>> /\ View \in Views /\ View.head = head /\ head \in DOMAIN commits
    BY ViewFacts DEF Capturing, ReadHead
  <1>6. ASSUME OwnCommits # {} PROVE head > StartHead
    <2>1. PICK c \in OwnCommits : c > StartHead
      BY <1>6 DEF CommitInv
    <2>2. c \in 1..head /\ head \in Nat
      BY CommitFacts DEF OwnCommits, GitInv
    <2>3. pc \in FinishLabels
      BY <2>1, CommitFacts DEF CommitInv, OwnCommits
    <2>4. StartHead \in Nat
      BY <2>3, CommitFacts DEF SliceInv, DerivedLabels
    <2> QED
      BY <2>1, <2>2, <2>4
  <1>7. capture' \in Seq(Views) /\ DOMAIN capture' = {1} /\ capture'[1].head = head
    BY <1>5
  <1>8. edits \in Nat /\ edits' = edits
    BY <1>1, MaxEditsAssumption DEF GitInv
  <1>9. head \in DOMAIN commits' /\ (OwnCommits' # {} => head > StartHead')
    BY <1>1, <1>3, <1>5, <1>6
  <1>10. \A i \in DOMAIN capture' : capture'[i].head \in DOMAIN commits'
    BY <1>7, <1>9
  <1>11. OwnCommits' # {} => capture'[1].head > StartHead'
    BY <1>7, <1>9
  <1>12. Len(capture') <= edits' + 1
    <2>1. Len(capture') = 1
      BY <1>5
    <2>2. 1 <= edits + 1
      BY <1>8
    <2> QED
      BY <1>8, <2>1, <2>2
  <1> QED
    BY <1>4, <1>10, <1>11, <1>7, <1>12 DEF CaptureInv

LEMMA CapturingKeeps ==
  ASSUME IInv, Capturing, UNCHANGED <<check, executionVars, finishVars, goalVars>>
  PROVE  IInv'
  <1>1. UNCHANGED <<commits, head, index, work, edits>>
    BY DEF Capturing, repository
  <1>2. GitInv' /\ NoOwnCommit
    BY <1>1, HistoryStays DEF GitInv, NoOwnCommit, IInv
  <1>3. CaptureInv'
    BY CapturingMoves DEF IInv
  <1>4. CheckInv'
    BY DEF CheckInv, executionVars, IInv
  <1> QED
    BY <1>1, <1>2, <1>3, <1>4, SliceStays, StagedStays, CommitStays, HeadStays, GoalStays, CheckpointStays
    DEF NoOwnCommit, IInv

LEMMA CapturedFacts ==
  ASSUME GitInv, CaptureInv, NEW s \in Captured, s # NoSnapshot
  PROVE  /\ capture # NoCapture /\ s.head = capture[1].head
         /\ s.head \in DOMAIN commits /\ IsSnapshot(s) /\ Listed(s) \subseteq Paths
  <1>1. capture # NoCapture /\ \E first : s = SnapshotOf(first)
    BY DEF Captured, Snapshots
  <1>2. PICK first : s = SnapshotOf(first)
    BY <1>1
  <1>3. \E paths, entries : paths \subseteq Paths
          /\ s = [head |-> capture[1].head, entries |-> [p \in paths |-> entries[p]]]
    <2> DEFINE Met(i)  == capture[1 + Cardinality({k \in DOMAIN first : first[k] <= i})]
               paths   == {p \in Paths : IsTracked(Met(0), p) \/ IsUntracked(Met(1), p)}
               Turn(p) == 4 * Rank[p] - 2
               entries == [p \in paths |->
                 [head  |-> HeadEntry(Met(Turn(p)), p),
                  index |-> Met(Turn(p) + 1).index[p],
                  work  |-> Met(Turn(p) + 2).work[p],
                  patch |-> CombinedPatch(Met(Turn(p) + 3), p)]]
    <2>1. s = [head |-> capture[1].head, entries |-> entries]
      BY <1>2 DEF SnapshotOf
    <2>2. paths \subseteq Paths /\ entries = [p \in paths |-> entries[p]]
      OBVIOUS
    <2> HIDE DEF paths, entries
    <2> QED
      BY <2>1, <2>2
  <1>4. Listed(s) \subseteq Paths /\ s.head = capture[1].head
        /\ s = [head |-> s.head, entries |-> [p \in Listed(s) |-> s.entries[p]]]
    <2>1. PICK paths, entries : paths \subseteq Paths
            /\ s = [head |-> capture[1].head, entries |-> [p \in paths |-> entries[p]]]
      BY <1>3
    <2>2. Listed(s) = paths /\ s.head = capture[1].head /\ s.entries = [p \in paths |-> entries[p]]
      BY <2>1 DEF Listed
    <2>3. [p \in Listed(s) |-> s.entries[p]] = s.entries
      BY <2>2
    <2> QED
      BY <2>1, <2>2, <2>3
  <1>5. capture[1].head \in DOMAIN commits
    <2>1. 1 \in DOMAIN capture
      BY <1>1 DEF CaptureInv, NoCapture
    <2> QED
      BY <1>1, <2>1 DEF CaptureInv
  <1> QED
    BY <1>1, <1>4, <1>5 DEF IsSnapshot

-----------------------------------------------------------------------------
(* A running check.                                                          *)

LEMMA KilledType == ASSUME NEW c \in CheckRecords PROVE Killed(c) \in CheckRecords /\ Killed(c).running = c.running
  BY DEF CheckRecords, Killed, Descendants

LEMMA CheckMoves ==
  ASSUME CheckInv,
         \/ \E d \in Descendants \ {"none"} : Fork(d)
         \/ \E code \in {"expected", "other"} : Exit(code)
         \/ DescendantEnds \/ SpawnError \/ Flood \/ Timeout \/ Close
  PROVE  check.running /\ check' \in CheckRecords
  <1> USE DEF CheckInv
  <1>1. CASE \E d \in Descendants \ {"none"} : Fork(d)
    BY <1>1 DEF Fork, IsAlive, CheckRecords
  <1>2. CASE \E code \in {"expected", "other"} : Exit(code)
    BY <1>2 DEF Exit, IsAlive, CheckRecords
  <1>3. CASE DescendantEnds
    BY <1>3 DEF DescendantEnds, CheckRecords, Descendants
  <1>4. CASE SpawnError
    BY <1>4 DEF SpawnError, IsAlive, CheckRecords
  <1>5. CASE Flood
    <2>1. [check EXCEPT !.flooded = TRUE] \in CheckRecords /\ check' = Killed([check EXCEPT !.flooded = TRUE])
      BY <1>5 DEF Flood, CheckRecords
    <2> QED
      BY <1>5, <2>1, KilledType DEF Flood
  <1>6. CASE Timeout
    <2>1. [check EXCEPT !.timer = FALSE] \in CheckRecords
          /\ [check EXCEPT !.timer = FALSE, !.timedOut = TRUE] \in CheckRecords
      BY DEF CheckRecords
    <2> QED
      BY <1>6, <2>1, KilledType DEF Timeout
  <1>7. CASE Close
    <2>1. Outcome \in Receipts
      BY DEF Outcome, Receipts
    <2>2. check.running /\ check' = [check EXCEPT !.running = FALSE, !.timer = FALSE, !.receipt = Outcome]
      BY <1>7 DEF Close, IsClosed
    <2> QED
      BY <2>1, <2>2 DEF CheckRecords
  <1> QED
    BY <1>1, <1>2, <1>3, <1>4, <1>5, <1>6, <1>7

LEMMA CheckStepsKeep ==
  ASSUME IInv, CheckSteps, UNCHANGED <<finishVars, goalVars>>
  PROVE  IInv'
  <1> USE DEF IInv
  <1>1. UNCHANGED <<commits, head, index, edits, capture, executionVars>>
    BY DEF CheckSteps, CheckRuns, CheckSucceeds, CheckTimesOut, CheckCloses, gitVars
  <1>2. work' = work \/ work' = [work EXCEPT ![Artifact] = 1]
    BY DEF CheckSteps, CheckRuns, CheckSucceeds, CheckTimesOut, CheckCloses, gitVars, GitInv, Trees
  <1>3. work' \in Trees /\ (work'[Checkpoint] = work[Checkpoint] \/ work'[Checkpoint] < 10)
    BY <1>2, Forked DEF GitInv, Trees
  <1>4. check.running /\ check' \in CheckRecords
    BY CheckMoves DEF CheckSteps, CheckRuns, CheckSucceeds, CheckTimesOut, CheckCloses
  <1>5. CheckInv'
    BY <1>1, <1>4 DEF CheckInv, executionVars
  <1>6. GitInv' /\ NoOwnCommit
    BY <1>1, <1>3, HistoryStays DEF GitInv, NoOwnCommit
  <1>7. CaptureInv'
    BY <1>1, <1>6, OwnCommitsStay DEF CaptureInv, executionVars, StartHead
  <1> QED
    BY <1>1, <1>3, <1>5, <1>6, <1>7, SliceStays, StagedStays, CommitStays, HeadStays, GoalStays,
       CheckpointStays
    DEF NoOwnCommit


-----------------------------------------------------------------------------
(* The execution and its verification: there is no commit of the Slice yet.   *)

LEMMA EarlyFacts ==
  ASSUME GitInv, CommitInv, pc \notin FinishLabels
  PROVE  OwnCommits = {} /\ tries = 0 /\ CommitOf(tries) = {}
  <1>1. tries = 0 /\ \A c \in DOMAIN commits : commits[c].call = 0
    BY CommitFacts DEF CommitInv
  <1> QED
    BY <1>1 DEF OwnCommits, CommitOf

(* What every step before finishSlice leaves as it is.                        *)
LEMMA EarlyStepsButTheGoal ==
  ASSUME IInv, pc \notin FinishLabels, pc' \in Labels \ FinishLabels,
         UNCHANGED <<repository, finishVars>>,
         UNCHANGED answer \/ \E code : answer' = Answer(code)
  PROVE  GitInv' /\ StagedInv' /\ CommitInv' /\ HeadInv' /\ CheckpointInv'
  <1> USE DEF IInv
  <1>1. UNCHANGED <<commits, head, index, work, edits, mode, tries, alternate, committed>>
    BY DEF repository, finishVars
  <1>2. OwnCommits' = {} /\ CommitOf(tries)' = {} /\ tries' = 0
    BY <1>1, EarlyFacts DEF OwnCommits, CommitOf
  <1>3. GitInv'
    BY <1>1 DEF GitInv
  <1>4. pc' \notin FinishLabels /\ pc' \notin BeforeCommit
    BY DEF FinishLabels
  <1>5. StagedInv'
    BY <1>4 DEF StagedInv, FinishLabels, BeforeCommit
  <1>6. CommitInv'
    BY <1>1, <1>2, <1>4 DEF CommitInv
  <1>7. HeadInv'
    <2>1. answer'.end \in 0..Len(commits')
      BY <1>1, CommitFacts DEF HeadInv, Answer
    <2>2. AnswersTellOfTheCommit'
      BY <1>4 DEF AnswersTellOfTheCommit, FinishLabels
    <2> QED
      BY <1>1, <1>4, <2>1, <2>2 DEF HeadInv, FinishLabels
  <1>8. CheckpointInv'
    BY <1>1 DEF CheckpointInv
  <1> QED
    BY <1>3, <1>5, <1>6, <1>7, <1>8

LEMMA EarlySteps ==
  ASSUME IInv, pc \notin FinishLabels, pc # "done", pc' \in Labels \ FinishLabels,
         UNCHANGED <<repository, finishVars, goalVars>>,
         UNCHANGED answer \/ \E code : answer' = Answer(code)
  PROVE  GitInv' /\ StagedInv' /\ CommitInv' /\ HeadInv' /\ CheckpointInv' /\ GoalInv'
  <1>1. GoalInv'
    BY DEF IInv, GoalInv, GoalReceiptIsTrue, NoGoal, goalVars
  <1> QED
    BY <1>1, EarlyStepsButTheGoal

(* A capture that ended the step, or none that the step touched.               *)
LEMMA NoCaptureInIt ==
  ASSUME CaptureInv, pc \notin CapturingLabels, UNCHANGED capture
  PROVE  CaptureInv'
  BY DEF CaptureInv

LEMMA ChecksStay ==
  ASSUME CheckInv, UNCHANGED <<check, receipts>>,
         pc' \in CollectedLabels \cup {"snapshot"} => Len(receipts) = Checks
  PROVE  CheckInv'
  BY DEF CheckInv

LEMMA FirstFailureFacts ==
  ASSUME NEW a, NEW b, NEW c, FirstFailure(<<a, b, c>>) = None
  PROVE  a = None /\ b = None /\ c = None
  <1> DEFINE codes == <<a, b, c>>
             first == CHOOSE i \in DOMAIN codes : codes[i] # None /\ \A j \in 1..(i - 1) : codes[j] = None
  <1>1. DOMAIN codes = {1, 2, 3} /\ codes[1] = a /\ codes[2] = b /\ codes[3] = c
    OBVIOUS
  <1>2. ASSUME NEW i \in DOMAIN codes, codes[i] # None PROVE FALSE
    <2>1. \E n \in DOMAIN codes : codes[n] # None /\ \A j \in 1..(n - 1) : codes[j] = None
      <3>1. CASE a # None
        BY <1>1, <3>1
      <3>2. CASE a = None /\ b # None
        BY <1>1, <3>2
      <3>3. CASE a = None /\ b = None
        <4>1. c # None
          BY <1>1, <1>2, <3>3
        <4> QED
          BY <1>1, <3>3, <4>1
      <3> QED
        BY <3>1, <3>2, <3>3
    <2>2. codes[first] # None
      BY <2>1
    <2>3. FirstFailure(codes) = codes[first]
      BY <1>2 DEF FirstFailure
    <2> QED
      BY <2>2, <2>3
  <1> QED
    BY <1>1, <1>2

LEMMA VerificationFacts ==
  ASSUME NEW live, VerificationCode(live) = None
  PROVE  /\ live # NoSnapshot /\ live = snapshot
         /\ \A i \in DOMAIN receipts : receipts[i] = "PASS"
  <1>1. live # NoSnapshot /\ live = snapshot
    BY DEF VerificationCode, None
  <1>2. FirstFailure(<<CheckFailure, ArtifactFailure, OwnershipFailure(Classify(baseline, live))>>) = None
    BY <1>1 DEF VerificationCode
  <1>3. CheckFailure = None
    BY <1>2, FirstFailureFacts
  <1> QED
    BY <1>1, <1>3 DEF CheckFailure, None

LEMMA PatchFacts ==
  ASSUME NEW s, NEW t
  PROVE  /\ PatchOf(s, t).head = t.head /\ PatchOf(s, t).current = t /\ PatchOf(s, t).baseline = s
         /\ PatchOf(s, t).paths \subseteq Owned \ Listed(s)
         /\ PatchOf(s, t).paths \subseteq Listed(t)
         /\ \A p \in PatchOf(s, t).paths : PatchOf(s, t).entries[p] = t.entries[p]
  BY DEF PatchOf, Classify, IsOwned, Listed

(* The parts of SliceInv for a step that ends the call or only moves on.        *)
LEMMA SliceEnds ==
  ASSUME SliceInv, pc' = "done", UNCHANGED <<commits, baseline, snapshot, patch>>,
         pc \notin DerivedLabels, verification'.result \in {None, "PASS", "FAIL"}
  PROVE  SliceInv'
  <1>1. IsSnapshot(baseline)' /\ IsSnapshot(snapshot)'
    BY DEF SliceInv, IsSnapshot, Listed
  <1>2. patch = NoPatch /\ pc' \notin CollectedLabels /\ pc' \notin DerivedLabels
    BY DEF SliceInv, CollectedLabels, DerivedLabels, FinishLabels, BeforeCommit
  <1> QED
    BY <1>1, <1>2 DEF SliceInv, Labels

LEMMA SliceMoves ==
  ASSUME SliceInv, <<pc, pc'>> \in {<<"idle", "baseline">>, <<"working", "collecting">>,
                                     <<"collecting", "snapshot">>, <<"collected", "verify">>},
         UNCHANGED <<commits, baseline, snapshot, patch, verification, receipts>>
  PROVE  SliceInv'
  <1>1. IsSnapshot(baseline)' /\ IsSnapshot(snapshot)'
    BY DEF SliceInv, IsSnapshot, Listed
  <1>2. pc \notin DerivedLabels /\ pc' \notin DerivedLabels /\ pc' # "patch" /\ pc' \in Labels
    BY DEF DerivedLabels, FinishLabels, BeforeCommit, Labels, EarlyLabels
  <1>3. (pc' \in CollectedLabels <=> pc' = "verify") /\ "collected" \in CollectedLabels
    BY <1>2 DEF CollectedLabels, DerivedLabels, FinishLabels, BeforeCommit
  <1> QED
    BY <1>1, <1>2, <1>3 DEF SliceInv

LEMMA SliceSame ==
  ASSUME SliceInv, UNCHANGED <<pc, commits, baseline, snapshot, patch, verification>>,
         UNCHANGED receipts \/ pc \notin {"patch"} \cup DerivedLabels
  PROVE  SliceInv'
  <1>1. IsSnapshot(baseline)' /\ IsSnapshot(snapshot)'
    BY DEF SliceInv, IsSnapshot, Listed
  <1> QED
    BY <1>1 DEF SliceInv, AllPassed, StartHead, Listed

LEMMA EarlyLabelFacts ==
  /\ EarlyLabels \cap FinishLabels = {} /\ "ready" \notin FinishLabels /\ "done" \notin FinishLabels
  /\ EarlyLabels \cup {"ready", "done"} = Labels \ FinishLabels
  /\ EarlyLabels \cap DerivedLabels = {} /\ "done" \notin EarlyLabels /\ "done" \notin CollectedLabels
  BY DEF EarlyLabels, FinishLabels, BeforeCommit, Labels, DerivedLabels, CollectedLabels

(* A step of the execution that ends it, and one that goes on.                  *)
LEMMA EndKeeps ==
  ASSUME IInv, pc \in EarlyLabels, NEW code, Ends(code),
         UNCHANGED <<repository, check, receipts, baseline, snapshot, patch, finishVars, goalVars>>,
         verification'.result \in {None, "PASS", "FAIL"}, CaptureInv'
  PROVE  IInv'
  <1>1. pc' = "done" /\ answer' = Answer(code) /\ UNCHANGED commits
    BY DEF Ends, repository
  <1>2. GitInv' /\ StagedInv' /\ CommitInv' /\ HeadInv' /\ CheckpointInv' /\ GoalInv'
    BY <1>1, EarlySteps, EarlyLabelFacts
  <1>3. SliceInv'
    BY <1>1, SliceEnds, EarlyLabelFacts DEF IInv
  <1>4. CheckInv'
    BY <1>1, ChecksStay, EarlyLabelFacts DEF IInv
  <1> QED
    BY <1>2, <1>3, <1>4 DEF IInv

LEMMA MoveKeeps ==
  ASSUME IInv, pc \in EarlyLabels, pc' \in EarlyLabels \cup {"ready"},
         UNCHANGED <<repository, check, receipts, answer, finishVars, goalVars>>,
         CaptureInv', SliceInv',
         pc' \in CollectedLabels \cup {"snapshot"} => Len(receipts) = Checks
  PROVE  IInv'
  <1>1. GitInv' /\ StagedInv' /\ CommitInv' /\ HeadInv' /\ CheckpointInv' /\ GoalInv'
    BY EarlySteps, EarlyLabelFacts
  <1>2. CheckInv'
    BY ChecksStay DEF IInv
  <1> QED
    BY <1>1, <1>2 DEF IInv

LEMMA PlainStepsKeep ==
  ASSUME IInv, UNCHANGED <<finishVars, goalVars>>,
         StartRefused \/ StartSlice \/ Collect \/ LeaseLostWhileCollecting \/ AllChecksRan \/ BeginVerify
  PROVE  IInv'
  <1>1. /\ UNCHANGED <<repository, commits, capture, check, receipts, baseline, snapshot, verification,
                       patch>>
        /\ pc \in {"idle", "working", "collecting", "collected"}
    BY DEF StartRefused, StartSlice, Collect, LeaseLostWhileCollecting, AllChecksRan, BeginVerify, gitVars,
       repository
  <1>2. CaptureInv'
    BY <1>1, NoCaptureInIt DEF CapturingLabels, IInv
  <1>3. pc \in EarlyLabels
    BY <1>1 DEF EarlyLabels
  <1>4. CASE StartRefused \/ LeaseLostWhileCollecting
    <2>1. \E code : Ends(code)
      BY <1>4 DEF StartRefused, LeaseLostWhileCollecting
    <2> QED
      BY <1>1, <1>2, <1>3, <2>1, EndKeeps DEF IInv, SliceInv
  <1>5. CASE StartSlice \/ Collect \/ AllChecksRan \/ BeginVerify
    <2>1. /\ <<pc, pc'>> \in {<<"idle", "baseline">>, <<"working", "collecting">>,
                              <<"collecting", "snapshot">>, <<"collected", "verify">>}
          /\ UNCHANGED answer
      BY <1>5 DEF StartSlice, Collect, AllChecksRan, BeginVerify
    <2>2. SliceInv'
      BY <1>1, <2>1, SliceMoves DEF IInv
    <2>3. pc' \in EarlyLabels
      BY <2>1 DEF EarlyLabels
    <2>4. pc' \in CollectedLabels \cup {"snapshot"} => Len(receipts) = Checks
      <3>1. CASE StartSlice \/ Collect
        BY <3>1 DEF StartSlice, Collect, CollectedLabels, DerivedLabels, FinishLabels, BeforeCommit
      <3>2. CASE AllChecksRan
        BY <3>2 DEF AllChecksRan
      <3>3. CASE BeginVerify
        BY <3>3 DEF BeginVerify, CollectedLabels, IInv, CheckInv
      <3> QED
        BY <1>5, <3>1, <3>2, <3>3
    <2> QED
      BY <1>1, <1>2, <1>3, <2>1, <2>2, <2>3, <2>4, MoveKeeps
  <1> QED
    BY <1>4, <1>5

LEMMA RunningStepsKeep ==
  ASSUME IInv, UNCHANGED <<finishVars, goalVars>>, RunCheck \/ TakeReceipt \/ LeaseIsLost
  PROVE  IInv'
  <1>1. /\ UNCHANGED <<repository, commits, capture, pc, answer, baseline, snapshot, verification, patch>>
        /\ pc \in {"idle", "working", "collecting"}
    BY DEF RunCheck, TakeReceipt, LeaseIsLost, gitVars, repository, executionVars
  <1>2. CaptureInv'
    BY <1>1, NoCaptureInIt DEF CapturingLabels, IInv
  <1>3. pc \in EarlyLabels /\ pc \notin CollectedLabels \cup {"snapshot", "patch"} \cup DerivedLabels
    BY <1>1 DEF EarlyLabels, CollectedLabels, DerivedLabels, FinishLabels, BeforeCommit
  <1>4. SliceInv'
    BY <1>1, <1>3, SliceSame DEF IInv
  <1>5. GitInv' /\ StagedInv' /\ CommitInv' /\ HeadInv' /\ CheckpointInv' /\ GoalInv'
    BY <1>1, <1>3, EarlySteps, EarlyLabelFacts
  <1>6. CheckInv'
    <2>1. CASE RunCheck
      <3>1. check' \in CheckRecords /\ UNCHANGED receipts /\ Len(receipts) < Checks
        BY <2>1 DEF RunCheck, Spawn, DirectoryRefused, ExecutableRefused, NoCheck, CheckRecords, Receipts,
                    Descendants, executionVars
      <3> QED
        BY <1>1, <1>3, <3>1 DEF CheckInv, IInv
    <2>2. CASE TakeReceipt
      <3>1. check' = NoCheck /\ receipts' = Append(receipts, check.receipt) /\ check.receipt # "none"
        BY <2>2 DEF TakeReceipt
      <3>2. receipts \in Seq(Receipts) /\ check.receipt \in Receipts /\ Len(receipts) < Checks
        BY <3>1 DEF CheckInv, CheckRecords, IInv
      <3>3. receipts' \in Seq(Receipts) /\ Len(receipts') <= Checks
        BY <3>1, <3>2, ChecksAssumption
      <3>4. NoCheck \in CheckRecords /\ ~NoCheck.running /\ NoCheck.receipt = "none"
        BY DEF NoCheck, CheckRecords, Receipts, Descendants
      <3> QED
        BY <1>1, <1>3, <3>1, <3>3, <3>4 DEF CheckInv
    <2>3. CASE LeaseIsLost
      BY <2>3 DEF LeaseIsLost, CheckInv, IInv
    <2> QED
      BY <2>1, <2>2, <2>3
  <1> QED
    BY <1>2, <1>4, <1>5, <1>6 DEF IInv

(* A snapshot is a snapshot of commits there are.                             *)
LEMMA CapturedIsSnapshot ==
  ASSUME GitInv, CaptureInv, NEW s \in Captured PROVE IsSnapshot(s)
  BY CapturedFacts DEF IsSnapshot

LEMMA CaptureStepsKeep ==
  ASSUME IInv, UNCHANGED <<finishVars, goalVars>>, CaptureBaseline \/ CaptureExecution
  PROVE  IInv'
  <1>1. PICK s \in Captured :
          /\ capture' = NoCapture
          /\ UNCHANGED <<repository, commits, check, receipts, verification, patch>>
          /\ \/ s = NoSnapshot /\ Ends("workspace_inspection_failed") /\ UNCHANGED <<baseline, snapshot>>
             \/ /\ s # NoSnapshot /\ UNCHANGED answer
                /\ \/ pc = "baseline" /\ pc' = "working" /\ baseline' = s /\ UNCHANGED snapshot
                   \/ pc = "snapshot" /\ pc' = "collected" /\ snapshot' = s /\ UNCHANGED baseline
    BY DEF CaptureBaseline, CaptureExecution, repository
  <1>2. CaptureInv' /\ pc \in EarlyLabels
    BY <1>1, CaptureEnds DEF CaptureBaseline, CaptureExecution, EarlyLabels
  <1>3. CASE s = NoSnapshot
    BY <1>1, <1>2, <1>3, EndKeeps DEF IInv, SliceInv
  <1>4. CASE s # NoSnapshot
    <2>1. IsSnapshot(baseline)' /\ IsSnapshot(snapshot)'
      BY <1>1, <1>4, CapturedIsSnapshot DEF IInv, SliceInv, IsSnapshot, Listed
    <2>2. pc' \in EarlyLabels /\ pc' \notin {"patch"} \cup DerivedLabels /\ pc \notin DerivedLabels
          /\ pc' \in Labels
      BY <1>1, <1>4 DEF EarlyLabels, DerivedLabels, FinishLabels, BeforeCommit, Labels
    <2>3. pc' \in CollectedLabels => pc' = "collected" /\ pc = "snapshot"
      BY <1>1, <1>4 DEF CollectedLabels, DerivedLabels, FinishLabels, BeforeCommit
    <2>4. SliceInv'
      BY <1>1, <1>4, <2>1, <2>2, <2>3 DEF IInv, SliceInv
    <2>5. pc' \in CollectedLabels \cup {"snapshot"} => Len(receipts) = Checks
      BY <1>1, <1>4, <2>3 DEF IInv, CheckInv
    <2> QED
      BY <1>1, <1>2, <1>4, <2>2, <2>4, <2>5, MoveKeeps
  <1> QED
    BY <1>3, <1>4

LEMMA VerifyKeeps ==
  ASSUME IInv, UNCHANGED <<finishVars, goalVars>>, Verify
  PROVE  IInv'
  <1>1. PICK live \in Captured :
          /\ capture' = NoCapture
          /\ verification' = Verified(VerificationCode(live), live)
          /\ IF VerificationCode(live) = None THEN pc' = "patch" /\ UNCHANGED answer
             ELSE Ends(VerificationCode(live))
    BY DEF Verify
  <1>2. pc = "verify" /\ UNCHANGED <<repository, commits, check, receipts, baseline, snapshot, patch>>
    BY DEF Verify, repository
  <1>3. CaptureInv' /\ pc \in EarlyLabels /\ pc \in CollectedLabels
    BY <1>1, <1>2, CaptureEnds DEF EarlyLabels, CollectedLabels
  <1>4. verification'.result \in {None, "PASS", "FAIL"}
    BY <1>1 DEF Verified
  <1>5. CASE VerificationCode(live) # None
    BY <1>1, <1>2, <1>3, <1>4, <1>5, EndKeeps
  <1>6. CASE VerificationCode(live) = None
    <2>1. live = snapshot /\ \A i \in DOMAIN receipts : receipts[i] = "PASS"
      BY <1>6, VerificationFacts
    <2>2. Len(receipts) = Checks /\ receipts \in Seq(Receipts)
      BY <1>3 DEF IInv, CheckInv
    <2>3. AllPassed
      BY <2>1, <2>2 DEF AllPassed
    <2>4. verification'.patch = PatchOf(baseline, snapshot)
      BY <1>1, <1>6, <2>1 DEF Verified
    <2>5. IsSnapshot(baseline)' /\ IsSnapshot(snapshot)'
      BY <1>2 DEF IInv, SliceInv, IsSnapshot, Listed
    <2>6. pc' = "patch" /\ pc' \in Labels /\ pc' \in EarlyLabels /\ pc' \notin DerivedLabels
          /\ pc \notin DerivedLabels
      BY <1>1, <1>2, <1>6 DEF EarlyLabels, DerivedLabels, FinishLabels, BeforeCommit, Labels
    <2>7. SliceInv'
      BY <1>2, <1>3, <1>4, <2>3, <2>4, <2>5, <2>6 DEF IInv, SliceInv, AllPassed
    <2> QED
      BY <1>1, <1>2, <1>3, <1>6, <2>2, <2>6, <2>7, MoveKeeps
  <1> QED
    BY <1>5, <1>6

LEMMA DerivePatchKeeps ==
  ASSUME IInv, UNCHANGED <<finishVars, goalVars>>, DerivePatch
  PROVE  IInv'
  <1>1. PICK s \in Captured :
          /\ capture' = NoCapture
          /\ \/ s # NoSnapshot /\ pc' = "ready" /\ patch' = PatchOf(baseline, s) /\ UNCHANGED answer
             \/ Ends("protected_change_overlap") /\ UNCHANGED patch
    BY DEF DerivePatch
  <1>2. pc = "patch" /\ UNCHANGED <<repository, commits, check, receipts, baseline, snapshot, verification>>
    BY DEF DerivePatch, repository
  <1>3. CaptureInv' /\ pc \in EarlyLabels /\ pc \in CollectedLabels
    BY <1>1, <1>2, CaptureEnds DEF EarlyLabels, CollectedLabels
  <1>4. CASE Ends("protected_change_overlap") /\ UNCHANGED patch
    BY <1>2, <1>3, <1>4, EndKeeps DEF IInv, SliceInv
  <1>5. CASE s # NoSnapshot /\ pc' = "ready" /\ patch' = PatchOf(baseline, s) /\ UNCHANGED answer
    <2>1. s.head \in DOMAIN commits
      BY <1>5, CapturedFacts DEF IInv
    <2>2. patch' = PatchOf(baseline, patch'.current) /\ StartHead' \in DOMAIN commits
          /\ patch'.paths \subseteq Owned \ Listed(baseline)
      BY <1>5, <2>1, PatchFacts DEF StartHead
    <2>3. IsSnapshot(baseline)' /\ IsSnapshot(snapshot)' /\ Listed(baseline)' = Listed(baseline)
      BY <1>2 DEF IInv, SliceInv, IsSnapshot, Listed
    <2>4. pc' \in Labels /\ pc' \in DerivedLabels /\ pc' \notin {"snapshot", "collecting", "working"}
      BY <1>5 DEF DerivedLabels, Labels
    <2>5. AllPassed' /\ verification'.patch = PatchOf(baseline, snapshot)'
      BY <1>2 DEF IInv, SliceInv, AllPassed
    <2>6. /\ verification'.result \in {None, "PASS", "FAIL"}
          /\ baseline' # NoSnapshot /\ snapshot' # NoSnapshot
      BY <1>2, <1>3 DEF IInv, SliceInv
    <2>7. patch' = PatchOf(baseline, patch.current)' /\ StartHead' \in DOMAIN commits'
          /\ patch'.paths \subseteq Owned \ Listed(baseline)'
      BY <1>2, <2>2, <2>3
    <2>8. SliceInv'
      BY <2>3, <2>4, <2>5, <2>6, <2>7 DEF SliceInv
    <2>9. Len(receipts) = Checks
      BY <1>3 DEF IInv, CheckInv
    <2> QED
      BY <1>2, <1>3, <1>5, <2>8, <2>9, MoveKeeps
  <1> QED
    BY <1>1, <1>4, <1>5

LEMMA SliceStepsKeep ==
  ASSUME IInv, SliceSteps, UNCHANGED <<finishVars, goalVars>>
  PROVE  IInv'
  BY PlainStepsKeep, RunningStepsKeep, CaptureStepsKeep, VerifyKeeps, DerivePatchKeeps DEF SliceSteps

-----------------------------------------------------------------------------
(* finishSlice.                                                              *)

LEMMA FinishLabelFacts ==
  /\ BeforeCommit \subseteq FinishLabels /\ FinishLabels \subseteq DerivedLabels
  /\ DerivedLabels \subseteq CollectedLabels /\ DerivedLabels \subseteq Labels
  /\ "done" \notin DerivedLabels /\ "ready" \in DerivedLabels /\ "ready" \notin FinishLabels
  /\ DerivedLabels \cap {"snapshot", "collecting", "working", "patch"} = {}
  /\ "answered" \in FinishLabels \ (BeforeCommit \cup CapturingLabels)
  /\ \A l \in {"readhead", "reconcile", "checkpoint"} : l \in FinishLabels \ (BeforeCommit \cup CapturingLabels)
  /\ \A l \in {"validate", "stage", "recheck", "commit"} : l \in BeforeCommit
  /\ "stage" \notin CapturingLabels /\ "commit" \notin CapturingLabels /\ "ready" \notin CapturingLabels
  BY DEF BeforeCommit, FinishLabels, DerivedLabels, CollectedLabels, Labels, CapturingLabels

LEMMA FinishFacts ==
  ASSUME IInv, pc \in DerivedLabels
  PROVE  /\ StartHead \in DOMAIN commits /\ StartHead \in Nat /\ commits[StartHead].tree \in Trees
         /\ commits[head].tree \in Trees /\ head \in DOMAIN commits /\ head \in Nat
         /\ DOMAIN commits = 1..Len(commits) /\ Len(commits) \in Nat
         /\ patch.paths \subseteq Paths /\ tries \in Nat
  <1>1. /\ StartHead \in DOMAIN commits /\ patch.paths \subseteq Owned
    BY DEF IInv, SliceInv
  <1> QED
    BY <1>1, CommitFacts, Forked, MaxTriesAssumption DEF IInv, CommitInv, HeadTree

(* An own commit lies behind the start head, and the mode is after_slice.      *)
LEMMA OwnCommitFacts ==
  ASSUME IInv, NEW c \in OwnCommits
  PROVE  /\ c \in DOMAIN commits /\ c \in Nat /\ c > StartHead /\ c <= head /\ mode = "after_slice"
         /\ pc \in FinishLabels
  BY CommitFacts DEF IInv, CommitInv, OwnCommits, GitInv

LEMMA CallFacts ==
  ASSUME IInv, pc \in FinishLabels
  PROVE  tries # 0 /\ CommitOf(tries) \subseteq OwnCommits
  BY FinishLabelFacts, FinishFacts DEF IInv, CommitInv, CommitOf, OwnCommits

LEMMA NoCaptureNow ==
  ASSUME CaptureInv, pc \notin CapturingLabels PROVE capture = NoCapture
  BY DEF CaptureInv

(* What a step of the call that leaves the history as it is keeps.             *)
LEMMA FinishKept ==
  ASSUME IInv, pc \in DerivedLabels, pc' \in FinishLabels,
         UNCHANGED <<commits, head, edits, check, receipts, baseline, snapshot, verification, patch, mode,
                     goalVars>>,
         index' \in Trees, work' \in Trees,
         capture' = NoCapture
  PROVE  GitInv' /\ CaptureInv' /\ CheckInv' /\ SliceInv' /\ GoalInv' /\ NoOwnCommit
         /\ (work'[Checkpoint] = work[Checkpoint] => CheckpointInv')
  <1>1. GitInv' /\ NoOwnCommit /\ Grows
    BY HistoryStays DEF GitInv, NoOwnCommit, IInv
  <1>2. CaptureInv'
    BY CaptureEnds DEF CaptureInv, IInv
  <1>3. pc \in CollectedLabels /\ pc' \in DerivedLabels /\ pc' \in Labels
        /\ pc' \notin {"snapshot", "collecting", "working"}
    BY FinishLabelFacts
  <1>4. CheckInv'
    BY <1>3, ChecksStay DEF CheckInv, IInv
  <1>5. SliceInv'
    <2>1. IsSnapshot(baseline)' /\ IsSnapshot(snapshot)' /\ Listed(baseline)' = Listed(baseline)
      BY DEF IInv, SliceInv, IsSnapshot, Listed
    <2>2. baseline # NoSnapshot /\ snapshot # NoSnapshot /\ AllPassed
          /\ verification.patch = PatchOf(baseline, snapshot)
          /\ verification.result \in {None, "PASS", "FAIL"}
      BY <1>3 DEF IInv, SliceInv
    <2>3. patch = PatchOf(baseline, patch.current) /\ StartHead \in DOMAIN commits
          /\ patch.paths \subseteq Owned \ Listed(baseline)
      BY DEF IInv, SliceInv
    <2> QED
      BY <1>3, <2>1, <2>2, <2>3 DEF SliceInv, AllPassed, StartHead
  <1>6. GoalInv'
    BY FinishLabelFacts DEF IInv, GoalInv, GoalReceiptIsTrue, goalVars, NoGoal
  <1>7. work'[Checkpoint] = work[Checkpoint] => CheckpointInv'
    BY DEF IInv, CheckpointInv, OwnCommits, StartHead
  <1> QED
    BY <1>1, <1>2, <1>4, <1>5, <1>6, <1>7

LEMMA VerifiedStays ==
  ASSUME NEW tree, IsVerified(tree), UNCHANGED <<commits, verification, patch>>
  PROVE  IsVerified(tree)'
  BY DEF IsVerified, StartHead

LEMMA CommitKept ==
  ASSUME IInv, pc \in FinishLabels, pc' \in FinishLabels,
         UNCHANGED <<commits, verification, patch, mode, tries>>,
         pc' \in BeforeCommit => CommitOf(tries) = {}
  PROVE  CommitInv'
  <1>1. OwnCommits' = OwnCommits /\ CommitOf(tries)' = CommitOf(tries) /\ StartHead' = StartHead
    BY DEF OwnCommits, CommitOf, StartHead
  <1>2. \A c \in OwnCommits' : mode' = "after_slice" /\ c > StartHead' /\ IsVerified(commits[c].tree)'
    BY <1>1 DEF IInv, CommitInv, IsVerified, StartHead
  <1>3. \A c, d \in OwnCommits' : c = d
    BY <1>1 DEF IInv, CommitInv
  <1> QED
    BY <1>1, <1>2, <1>3 DEF IInv, CommitInv

(* What the running call may answer: Claims is a commit of its own, or one that *)
(* somebody else made and a failed call takes for its own.                     *)
Claims(code, end) ==
  \/ \E c \in CommitOf(tries) : c <= end
  \/ code = "commit_failed" /\ CommitOf(tries) = {} /\ end # StartHead /\ commits[end].call = 0

Tells(code, created, end) ==
  /\ created => Claims(code, end)
  /\ CommitOf(tries) # {} /\ ~created => code = "commit_failed" /\ end = StartHead
  /\ mode = "none" => ~created /\ OwnCommits = {}
  /\ code = "ok" => IF mode = "none" THEN end = StartHead ELSE created

(* An answer: what it says of the commit is all there is to show.              *)
LEMMA Replied ==
  ASSUME IInv, pc \in FinishLabels, NEW code, NEW created, NEW end \in DOMAIN commits,
         Replies(code, created, end), Tells(code, created, end),
         UNCHANGED <<commits, patch, verification, mode, tries>>, committed' \in 0..Len(commits)
  PROVE  StagedInv' /\ CommitInv' /\ HeadInv' /\ pc' = "answered" /\ pc' \in FinishLabels
  <1>1. /\ pc' = "answered"
        /\ answer'.code = code /\ answer'.created = created /\ answer'.end = end
    BY DEF Replies
  <1>2. OwnCommits' = OwnCommits /\ CommitOf(tries)' = CommitOf(tries) /\ StartHead' = StartHead
    BY DEF OwnCommits, CommitOf, StartHead
  <1>3. StagedInv'
    BY <1>1 DEF StagedInv
  <1>4. CommitInv'
    BY <1>1, FinishLabelFacts, CommitKept
  <1>5. AnswersTellOfTheCommit'
    BY <1>1, <1>2 DEF AnswersTellOfTheCommit, Tells, Claims, IsAncestor
  <1>6. end \in 0..Len(commits)
    BY CommitFacts DEF IInv
  <1>7. HeadInv'
    BY <1>1, <1>5, <1>6 DEF HeadInv, BeforeCommit
  <1> QED
    BY <1>1, <1>3, <1>4, <1>7, FinishLabelFacts

(* A call that answers before it committed.                                   *)
LEMMA EarlyReply ==
  ASSUME IInv, pc \in BeforeCommit, NEW code, code # "ok", NEW created, NEW end \in DOMAIN commits,
         Replies(code, created, end),
         created => code = "commit_failed" /\ mode = "after_slice" /\ OwnCommits = {} /\ end # StartHead,
         UNCHANGED <<repository, check, receipts, baseline, snapshot, verification, patch, mode, tries,
                     committed, goalVars>>,
         capture' = NoCapture
  PROVE  IInv'
  <1>1. pc \in FinishLabels /\ pc \in DerivedLabels /\ CommitOf(tries) = {}
    BY FinishLabelFacts DEF IInv, CommitInv
  <1>2. UNCHANGED <<commits, head, edits, index, work>> /\ index' \in Trees /\ work' \in Trees
    BY DEF repository, IInv, GitInv
  <1>3. committed' \in 0..Len(commits)
    BY DEF IInv, HeadInv
  <1>4. mode = "none" => OwnCommits = {}
    BY OwnCommitFacts
  <1>5. OwnCommits = {} => commits[end].call = 0
    BY DEF OwnCommits
  <1>6. created => Claims(code, end)
    BY <1>1, <1>5 DEF Claims
  <1>7. Tells(code, created, end)
    BY <1>1, <1>4, <1>6 DEF Tells
  <1>8. StagedInv' /\ CommitInv' /\ HeadInv' /\ pc' \in FinishLabels
    BY <1>1, <1>2, <1>3, <1>7, Replied
  <1> QED
    BY <1>1, <1>2, <1>8, FinishKept DEF IInv

LEMMA BeginFinishKeeps ==
  ASSUME IInv, BeginFinish, UNCHANGED goalVars
  PROVE  IInv'
  <1>1. /\ pc \in {"ready", "answered"} /\ pc' = "validate" /\ tries < MaxTries /\ tries' = tries + 1
        /\ answer' = Answer(None) /\ alternate' = NoTree /\ committed' = StartHead
        /\ UNCHANGED <<gitVars, commits, head, index, work, edits, capture>>
        /\ UNCHANGED <<check, lease, receipts, baseline, snapshot, verification, patch, mode>>
    BY DEF BeginFinish, gitVars
  <1>2. pc \in DerivedLabels /\ pc \notin CapturingLabels /\ pc' \in FinishLabels /\ pc' \in BeforeCommit
    BY <1>1, FinishLabelFacts
  <1>3. index' \in Trees /\ work' \in Trees /\ capture = NoCapture
    BY <1>1, <1>2, NoCaptureNow DEF IInv, GitInv
  <1>4. GitInv' /\ CaptureInv' /\ CheckInv' /\ SliceInv' /\ GoalInv' /\ CheckpointInv'
    BY <1>1, <1>2, <1>3, FinishKept
  <1>5. StagedInv'
    BY <1>1 DEF StagedInv
  <1>6. tries \in Nat /\ tries' \in 0..MaxTries /\ tries' > 0
    BY <1>1, <1>2, FinishFacts, MaxTriesAssumption
  <1>7. OwnCommits' = OwnCommits /\ StartHead' = StartHead
    BY <1>1 DEF OwnCommits, StartHead
  <1>8. \A c \in DOMAIN commits : commits[c].call \in Nat /\ commits[c].call <= tries
    BY CommitFacts DEF IInv, CommitInv
  <1>9. CommitOf(tries)' = {} /\ \A c \in DOMAIN commits' : commits'[c].call <= tries'
    BY <1>1, <1>6, <1>8 DEF CommitOf
  <1>10. \A c \in OwnCommits' : mode' = "after_slice" /\ c > StartHead' /\ IsVerified(commits[c].tree)'
    BY <1>1, <1>7 DEF IInv, CommitInv, IsVerified, StartHead
  <1>11. \A c, d \in OwnCommits' : c = d
    BY <1>7 DEF IInv, CommitInv
  <1>12. CommitInv'
    BY <1>1, <1>2, <1>6, <1>9, <1>10, <1>11 DEF IInv, CommitInv
  <1>13. HeadInv'
    <2>1. committed' = StartHead' /\ committed' \in 0..Len(commits') /\ answer'.end \in 0..Len(commits')
      BY <1>1, <1>2, <1>7, FinishFacts DEF Answer
    <2> QED
      BY <1>1, <2>1 DEF HeadInv, AnswersTellOfTheCommit
  <1> QED
    BY <1>4, <1>5, <1>12, <1>13 DEF IInv

LEMMA InputRefusedKeeps ==
  ASSUME IInv, InputRefused, UNCHANGED goalVars
  PROVE  IInv'
  <1>1. PICK code \in {"finish_input_invalid", "owned_patch_invalid"} : Replies(code, FALSE, StartHead)
    BY DEF InputRefused
  <1>2. /\ pc = "validate" /\ capture = NoCapture
        /\ UNCHANGED <<repository, capture, check, receipts, baseline, snapshot, verification, patch, mode,
                       tries, committed>>
    BY DEF InputRefused, gitVars, repository, finishVars
  <1>3. pc \in BeforeCommit /\ StartHead \in DOMAIN commits
    BY <1>2, FinishLabelFacts, FinishFacts
  <1> QED
    BY <1>1, <1>2, <1>3, EarlyReply

(* Where a call goes on, its commit or an answer still ahead.                  *)
LEMMA FinishGoesOn ==
  ASSUME IInv, pc \in FinishLabels, pc' \in FinishLabels, UNCHANGED answer,
         UNCHANGED <<commits, head, work, edits, check, receipts, baseline, snapshot, verification, patch,
                     mode, tries, goalVars>>,
         index' \in Trees, capture' = NoCapture,
         pc' \in BeforeCommit => CommitOf(tries) = {},
         StagedInv', HeadInv'
  PROVE  IInv'
  <1>1. CommitInv'
    BY CommitKept
  <1>2. work' \in Trees /\ work'[Checkpoint] = work[Checkpoint] /\ pc \in DerivedLabels
    BY FinishLabelFacts DEF IInv, GitInv
  <1> QED
    BY <1>1, <1>2, FinishKept DEF IInv

LEMMA ValidateInputKeeps ==
  ASSUME IInv, ValidateInput, UNCHANGED goalVars
  PROVE  IInv'
  <1>1. PICK current \in Captured :
          /\ capture' = NoCapture
          /\ IF ValidationCode(current) # None
             THEN Replies(ValidationCode(current), FALSE, IF current = NoSnapshot THEN StartHead ELSE current.head)
             ELSE pc' = (IF mode = "none" THEN "checkpoint" ELSE "stage") /\ UNCHANGED answer
    BY DEF ValidateInput
  <1>2. /\ pc = "validate" /\ verification.patch = patch
        /\ UNCHANGED <<repository, check, receipts, baseline, snapshot, verification, patch, mode, tries,
                       committed>>
        /\ UNCHANGED <<commits, head, index, work, edits, alternate>>
    BY DEF ValidateInput, repository, finishVars
  <1>3. pc \in BeforeCommit /\ pc \in FinishLabels /\ StartHead \in DOMAIN commits
    BY <1>2, FinishLabelFacts, FinishFacts
  <1>4. CASE ValidationCode(current) # None
    <2> DEFINE end == IF current = NoSnapshot THEN StartHead ELSE current.head
    <2>1. end \in DOMAIN commits
      BY <1>3, CapturedFacts DEF IInv
    <2>2. ValidationCode(current) # "ok"
      BY DEF ValidationCode, None
    <2> QED
      BY <1>1, <1>2, <1>3, <1>4, <2>1, <2>2, EarlyReply
  <1>5. CASE ValidationCode(current) = None
    <2>1. current # NoSnapshot /\ current.head = StartHead
      BY <1>5 DEF ValidationCode, None
    <2>2. capture # NoCapture /\ capture[1].head = StartHead
      BY <2>1, CapturedFacts DEF IInv, None
    <2>3. OwnCommits = {}
      BY <2>2, FinishFacts, <1>3, FinishLabelFacts DEF IInv, CaptureInv
    <2>4. mode \in {"after_slice", "none"} /\ committed = StartHead /\ CommitOf(tries) = {}
      BY <1>3 DEF IInv, CommitInv, HeadInv
    <2>5. pc' = (IF mode = "none" THEN "checkpoint" ELSE "stage") /\ UNCHANGED answer
      BY <1>1, <1>5
    <2>6. pc' \in FinishLabels
      BY <2>5, FinishLabelFacts
    <2>7. OwnCommits' = {} /\ CommitOf(tries)' = {} /\ StartHead' = StartHead
      BY <1>2, <2>3, <2>4 DEF OwnCommits, CommitOf, StartHead
    <2>8. StagedInv'
      BY <1>2, <2>4, <2>5, <2>7 DEF StagedInv
    <2>9. AnswersTellOfTheCommit'
      BY <2>5 DEF AnswersTellOfTheCommit
    <2>10. HeadInv'
      BY <1>2, <2>4, <2>5, <2>7, <2>9 DEF HeadInv, IInv
    <2>11. index' \in Trees
      BY <1>2 DEF IInv, GitInv
    <2> QED
      BY <1>1, <1>2, <1>3, <2>4, <2>5, <2>6, <2>8, <2>10, <2>11, FinishGoesOn
  <1> QED
    BY <1>4, <1>5

(* The tree that is staged is the verified one when it was compared so.        *)
LEMMA StagedIsVerified ==
  ASSUME IInv, pc = "stage", StagingCode = None
  PROVE  StagedTree \in Trees /\ IsVerified(StagedTree)
  <1>1. pc \in DerivedLabels
    BY FinishLabelFacts
  <1>2. verification.patch = patch /\ patch.paths \subseteq Paths
    BY <1>1, FinishFacts DEF IInv, StagedInv
  <1>3. StagedPaths = patch.paths /\ \A p \in patch.paths : StagedMatches(p)
    BY DEF StagingCode, None
  <1>4. \A p \in patch.paths : IsNewFile(patch.entries[p]) \/ StagedTree[p] = patch.entries[p].patch.to
    <2> TAKE p \in patch.paths
    <2>1. CASE ~IsNewFile(patch.entries[p])
      <3>1. [from |-> commits[StartHead].tree[p], to |-> StagedTree[p]] = patch.entries[p].patch
        BY <1>3, <2>1 DEF StagedMatches
      <3> QED
        BY <3>1
    <2> QED
      BY <2>1
  <1>5. StagedTree \in Trees
    BY <1>1, FinishFacts, WorkIsNat DEF StagedTree, Trees, IInv
  <1> QED
    BY <1>2, <1>3, <1>4, <1>5 DEF IsVerified, StagedPaths

LEMMA StageKeeps ==
  ASSUME IInv, StageAlternateIndex, UNCHANGED goalVars
  PROVE  IInv'
  <1>1. /\ pc = "stage"
        /\ UNCHANGED <<repository, capture, commits, head, index, work, edits>>
        /\ UNCHANGED <<check, receipts, baseline, snapshot, verification, patch, mode, tries, committed>>
    BY DEF StageAlternateIndex, gitVars, repository
  <1>2. pc \in BeforeCommit /\ pc \in FinishLabels /\ capture = NoCapture
    BY <1>1, FinishLabelFacts, NoCaptureNow DEF IInv
  <1>3. /\ StartHead \in DOMAIN commits /\ head \in DOMAIN commits
        /\ mode = "after_slice" /\ OwnCommits = {}
    BY <1>1, <1>2, FinishFacts, FinishLabelFacts DEF IInv, StagedInv
  <1>4. CASE StagingCode = None /\ pc' = "recheck" /\ alternate' = StagedTree /\ UNCHANGED answer
    <2>1. StagedTree \in Trees /\ IsVerified(StagedTree)
      BY <1>1, <1>4, StagedIsVerified
    <2>2. IsVerified(alternate)'
      BY <1>1, <1>4, <2>1 DEF IsVerified, StartHead
    <2>3. mode = "after_slice" /\ OwnCommits = {} /\ verification.patch = patch /\ CommitOf(tries) = {}
      BY <1>1, <1>2 DEF IInv, StagedInv, CommitInv
    <2>4. OwnCommits' = {} /\ CommitOf(tries)' = {} /\ StartHead' = StartHead
      BY <1>1, <2>3 DEF OwnCommits, CommitOf, StartHead
    <2>5. StagedInv'
      BY <1>1, <1>4, <2>1, <2>2, <2>3, <2>4 DEF StagedInv
    <2>6. HeadInv'
      BY <1>1, <1>2, <1>4, <2>4 DEF HeadInv, IInv, AnswersTellOfTheCommit
    <2>7. index' \in Trees /\ pc' \in FinishLabels
      BY <1>1, <1>4, FinishLabelFacts DEF IInv, GitInv
    <2> QED
      BY <1>1, <1>2, <1>4, <2>3, <2>5, <2>6, <2>7, FinishGoesOn
  <1>5. CASE Replies("stage_scope_mismatch", FALSE, StartHead)
    BY <1>1, <1>2, <1>3, <1>5, EarlyReply
  <1>6. CASE Replies("commit_failed", head # StartHead, head)
    BY <1>1, <1>2, <1>3, <1>6, EarlyReply
  <1>7. CASE Replies("commit_failed", FALSE, StartHead)
    BY <1>1, <1>2, <1>3, <1>7, EarlyReply
  <1> QED
    BY <1>4, <1>5, <1>6, <1>7 DEF StageAlternateIndex

LEMMA RecheckKeeps ==
  ASSUME IInv, RecheckWorktree, UNCHANGED goalVars
  PROVE  IInv'
  <1>1. PICK current \in Captured :
          /\ capture' = NoCapture
          /\ IF RecheckCode(current) # None
             THEN Replies(RecheckCode(current), FALSE, IF current = NoSnapshot THEN StartHead ELSE current.head)
             ELSE pc' = "commit" /\ UNCHANGED answer
    BY DEF RecheckWorktree
  <1>2. /\ pc = "recheck"
        /\ UNCHANGED <<repository, check, receipts, baseline, snapshot, verification, patch, mode, tries,
                       committed>>
        /\ UNCHANGED <<commits, head, index, work, edits, alternate>>
    BY DEF RecheckWorktree, repository, finishVars
  <1>3. pc \in BeforeCommit /\ pc \in FinishLabels /\ StartHead \in DOMAIN commits
    BY <1>2, FinishLabelFacts, FinishFacts
  <1>4. CASE RecheckCode(current) # None
    <2> DEFINE end == IF current = NoSnapshot THEN StartHead ELSE current.head
    <2>1. end \in DOMAIN commits
      BY <1>3, CapturedFacts DEF IInv
    <2>2. RecheckCode(current) # "ok"
      BY DEF RecheckCode, None
    <2> QED
      BY <1>1, <1>2, <1>3, <1>4, <2>1, <2>2, EarlyReply
  <1>5. CASE RecheckCode(current) = None
    <2>1. pc' = "commit" /\ UNCHANGED answer
      BY <1>1, <1>5
    <2>2. mode = "after_slice" /\ OwnCommits = {} /\ verification.patch = patch /\ CommitOf(tries) = {}
          /\ alternate \in Trees /\ IsVerified(alternate)
      BY <1>2, <1>3 DEF IInv, StagedInv, CommitInv
    <2>3. OwnCommits' = {} /\ CommitOf(tries)' = {} /\ StartHead' = StartHead
      BY <1>2, <2>2 DEF OwnCommits, CommitOf, StartHead
    <2>4. IsVerified(alternate)'
      BY <1>2, <2>2 DEF IsVerified, StartHead
    <2>5. StagedInv'
      BY <1>2, <2>2, <2>3, <2>4 DEF StagedInv
    <2>6. HeadInv'
      BY <1>2, <1>3, <2>1, <2>3 DEF HeadInv, IInv, AnswersTellOfTheCommit
    <2>7. index' \in Trees /\ pc' \in FinishLabels
      BY <1>2, <2>1, FinishLabelFacts DEF IInv, GitInv
    <2> QED
      BY <1>1, <1>2, <1>3, <2>1, <2>2, <2>5, <2>6, <2>7, FinishGoesOn
  <1> QED
    BY <1>4, <1>5

(* The commit: the first of the Slice, and its tree is the verified one.       *)
LEMMA GitCommitKeeps ==
  ASSUME IInv, GitCommit, UNCHANGED goalVars
  PROVE  IInv'
  <1>1. /\ pc = "commit" /\ pc' = "readhead" /\ AppendCommit(alternate, tries)
        /\ UNCHANGED <<index, work, edits, capture, check, answer, receipts, baseline, snapshot,
                       verification, patch>>
        /\ UNCHANGED <<mode, tries, alternate, committed>>
    BY DEF GitCommit, finishVars
  <1>2. /\ pc \in BeforeCommit /\ pc \in FinishLabels /\ pc \in DerivedLabels /\ pc \in CollectedLabels
        /\ pc' \in FinishLabels /\ pc' \in DerivedLabels /\ pc' \in Labels /\ pc' \notin BeforeCommit
    BY <1>1, FinishLabelFacts
  <1>3. mode = "after_slice" /\ OwnCommits = {} /\ alternate \in Trees /\ IsVerified(alternate)
    BY <1>1 DEF IInv, StagedInv
  <1>4. tries \in Nat /\ tries # 0 /\ capture = NoCapture
    BY <1>1, <1>2, FinishFacts, CallFacts, NoCaptureNow, FinishLabelFacts DEF IInv
  <1> PICK new : new = Len(commits) + 1
    OBVIOUS
  <1>5. /\ Grows /\ DOMAIN commits' = DOMAIN commits \cup {new}
        /\ commits' \in Seq(Commits) /\ commits' # << >> /\ head' = Len(commits')
        /\ commits'[new] = [parent |-> head, tree |-> alternate, call |-> tries]
        /\ \A c \in DOMAIN commits' : commits'[c].parent \in 0..(c - 1)
    BY <1>1, <1>3, <1>4, AppendGrows DEF IInv
  <1>6. /\ StartHead' = StartHead /\ StartHead \in DOMAIN commits /\ commits'[StartHead] = commits[StartHead]
        /\ DOMAIN commits = 1..Len(commits) /\ Len(commits) \in Nat
    BY <1>1, <1>2, <1>5, FinishFacts DEF Grows, StartHead
  <1>7. OwnCommits' = {new} /\ new \in CommitOf(tries)'
    <2>1. \A c \in DOMAIN commits : commits'[c].call = 0
      BY <1>3, <1>5 DEF Grows, OwnCommits
    <2>2. commits'[new].call = tries
      BY <1>5
    <2> QED
      BY <1>1, <1>4, <1>5, <2>1, <2>2 DEF OwnCommits, CommitOf
  <1>8. GitInv'
    BY <1>1, <1>5 DEF IInv, GitInv
  <1>9. CaptureInv'
    BY <1>1, <1>4, CaptureEnds
  <1>10. CheckInv'
    BY <1>1, <1>2, ChecksStay DEF IInv, CheckInv
  <1>11. SliceInv'
    <2>1. IsSnapshot(baseline)' /\ IsSnapshot(snapshot)' /\ Listed(baseline)' = Listed(baseline)
      BY <1>1, <1>5 DEF IInv, SliceInv, IsSnapshot, Listed
    <2>2. baseline # NoSnapshot /\ snapshot # NoSnapshot /\ AllPassed
          /\ verification.patch = PatchOf(baseline, snapshot)
          /\ verification.result \in {None, "PASS", "FAIL"} /\ patch = PatchOf(baseline, patch.current)
          /\ patch.paths \subseteq Owned \ Listed(baseline)
      BY <1>2 DEF IInv, SliceInv
    <2> QED
      BY <1>1, <1>2, <1>5, <1>6, <2>1, <2>2 DEF SliceInv, AllPassed
  <1>12. StagedInv'
    BY <1>1 DEF StagedInv
  <1>13. CommitInv'
    <2>1. \A c \in DOMAIN commits' : commits'[c].call <= tries'
      <3> TAKE c \in DOMAIN commits'
      <3>1. CASE c \in DOMAIN commits
        BY <1>1, <1>5, <3>1 DEF Grows, IInv, CommitInv
      <3>2. CASE c = new
        BY <1>1, <1>4, <1>5, <3>2
      <3> QED
        BY <1>5, <3>1, <3>2
    <2>2. IsVerified(commits[new].tree)'
      <3>1. commits'[new].tree = alternate
        BY <1>5
      <3> QED
        BY <1>1, <1>3, <1>5, <1>6, <3>1 DEF IsVerified
    <2>3. \A c \in OwnCommits' : mode' = "after_slice" /\ c > StartHead' /\ IsVerified(commits[c].tree)'
      BY <1>1, <1>3, <1>6, <1>7, <2>2
    <2>4. \A c, d \in OwnCommits' : c = d
      BY <1>7
    <2>5. tries' \in 0..MaxTries /\ tries' > 0
      BY <1>1, <1>4, MaxTriesAssumption DEF IInv, CommitInv
    <2> QED
      BY <1>1, <1>2, <1>3, <2>1, <2>3, <2>4, <2>5 DEF CommitInv
  <1>14. HeadInv'
    <2>1. committed' \in 0..Len(commits') /\ answer'.end \in 0..Len(commits')
      BY <1>1, <1>5, <1>6 DEF IInv, HeadInv, Grows
    <2> QED
      BY <1>1, <1>2, <1>7, <2>1 DEF HeadInv, AnswersTellOfTheCommit
  <1>15. CheckpointInv'
    BY <1>1, <1>3 DEF IInv, CheckpointInv
  <1>16. GoalInv'
    BY <1>1, <1>2, FinishLabelFacts DEF IInv, GoalInv, GoalReceiptIsTrue, goalVars, NoGoal
  <1> QED
    BY <1>8, <1>9, <1>10, <1>11, <1>12, <1>13, <1>14, <1>15, <1>16 DEF IInv

LEMMA GitCommitFailsKeeps ==
  ASSUME IInv, GitCommitFails, UNCHANGED goalVars
  PROVE  IInv'
  <1>1. /\ pc = "commit"
        /\ UNCHANGED <<repository, capture, check, receipts, baseline, snapshot, verification, patch, mode,
                       tries, committed>>
    BY DEF GitCommitFails, gitVars, repository, finishVars
  <1>2. pc \in BeforeCommit /\ capture = NoCapture
    BY <1>1, FinishLabelFacts, NoCaptureNow DEF IInv
  <1>3. /\ StartHead \in DOMAIN commits /\ head \in DOMAIN commits
        /\ mode = "after_slice" /\ OwnCommits = {}
    BY <1>1, <1>2, FinishFacts, FinishLabelFacts DEF IInv, StagedInv
  <1>4. CASE Replies("commit_failed", head # StartHead, head)
    BY <1>1, <1>2, <1>3, <1>4, EarlyReply
  <1>5. CASE Replies("commit_failed", FALSE, StartHead)
    BY <1>1, <1>2, <1>3, <1>5, EarlyReply
  <1> QED
    BY <1>4, <1>5 DEF GitCommitFails

(* A call that answers after its commit, or in mode none.                      *)
LEMMA LateReply ==
  ASSUME IInv, pc \in {"readhead", "reconcile", "checkpoint"},
         NEW code, NEW created, NEW end \in DOMAIN commits, Replies(code, created, end),
         UNCHANGED <<commits, head, index, edits, check, receipts, baseline, snapshot, verification, patch,
                     mode, tries, capture, goalVars>>,
         work' \in Trees, work'[Checkpoint] = work[Checkpoint] \/ CheckpointInv',
         committed' \in 0..Len(commits), Tells(code, created, end)
  PROVE  IInv'
  <1>1. pc \in FinishLabels /\ pc \in DerivedLabels /\ capture = NoCapture
    BY FinishLabelFacts, NoCaptureNow DEF IInv
  <1>2. StagedInv' /\ CommitInv' /\ HeadInv' /\ pc' \in FinishLabels
    BY <1>1, Replied
  <1>3. index' \in Trees
    BY DEF IInv, GitInv
  <1> QED
    BY <1>1, <1>2, <1>3, FinishKept DEF IInv

LEMMA ReadHeadKeeps ==
  ASSUME IInv, ReadHeadAfterCommit \/ HeadIsUnreadable, UNCHANGED goalVars
  PROVE  IInv'
  <1>1. /\ pc = "readhead"
        /\ UNCHANGED <<commits, head, index, work, edits, capture>>
        /\ UNCHANGED <<check, receipts, baseline, snapshot, verification, patch, mode, tries, alternate>>
    BY DEF ReadHeadAfterCommit, HeadIsUnreadable, gitVars, finishVars
  <1>2. pc \in FinishLabels /\ pc \in DerivedLabels /\ pc \notin BeforeCommit /\ capture = NoCapture
    BY <1>1, FinishLabelFacts, NoCaptureNow DEF IInv
  <1>3. /\ StartHead \in DOMAIN commits /\ head \in DOMAIN commits /\ head \in 0..Len(commits)
        /\ StartHead \in Nat /\ head \in Nat
    BY <1>2, FinishFacts
  <1>4. PICK c \in CommitOf(tries) : c \in OwnCommits
    BY <1>1, <1>2, CallFacts DEF IInv, HeadInv
  <1>5. c > StartHead /\ c <= head /\ mode = "after_slice" /\ head # StartHead
    BY <1>3, <1>4, OwnCommitFacts
  <1>6. work' \in Trees /\ index' \in Trees /\ committed \in 0..Len(commits)
    BY <1>1 DEF IInv, GitInv, HeadInv
  <1>7. CASE HeadIsUnreadable
    <2>1. Replies("commit_failed", FALSE, StartHead) /\ committed' = committed
      BY <1>7 DEF HeadIsUnreadable, finishVars
    <2>2. Tells("commit_failed", FALSE, StartHead)
      BY <1>5 DEF Tells
    <2> QED
      BY <1>1, <1>3, <1>6, <2>1, <2>2, LateReply
  <1>8. CASE ReadHeadAfterCommit /\ Replies("commit_failed", head # StartHead, head)
    <2>1. committed' = head
      BY <1>8 DEF ReadHeadAfterCommit
    <2>2. Replies("commit_failed", TRUE, head)
      BY <1>5, <1>8
    <2>3. Tells("commit_failed", TRUE, head)
      BY <1>4, <1>5 DEF Tells, Claims
    <2> QED
      BY <1>1, <1>3, <1>6, <2>1, <2>2, <2>3, LateReply
  <1>9. CASE ReadHeadAfterCommit /\ pc' = "reconcile" /\ UNCHANGED answer
    <2>1. committed' = head
      BY <1>9 DEF ReadHeadAfterCommit
    <2>2. pc' \in FinishLabels /\ pc' \notin BeforeCommit
      BY <1>9, FinishLabelFacts
    <2>3. StagedInv'
      BY <1>9 DEF StagedInv
    <2>4. c \in CommitOf(tries)'
      BY <1>1, <1>4 DEF CommitOf
    <2>5. HeadInv'
      BY <1>1, <1>2, <1>3, <1>5, <1>9, <2>1, <2>2, <2>4 DEF HeadInv, IInv, AnswersTellOfTheCommit
    <2> QED
      BY <1>1, <1>2, <1>6, <1>9, <2>2, <2>3, <2>5, FinishGoesOn
  <1> QED
    BY <1>7, <1>8, <1>9 DEF ReadHeadAfterCommit

LEMMA ReconcileKeeps ==
  ASSUME IInv, ReconcileIndex \/ ReconcileFails, UNCHANGED goalVars
  PROVE  IInv'
  <1>1. /\ pc = "reconcile"
        /\ UNCHANGED <<commits, head, work, edits, capture>>
        /\ UNCHANGED <<check, receipts, baseline, snapshot, verification, patch, mode, tries, alternate,
                       committed>>
    BY DEF ReconcileIndex, ReconcileFails, gitVars, finishVars
  <1>2. pc \in FinishLabels /\ pc \in DerivedLabels /\ pc \notin BeforeCommit /\ capture = NoCapture
    BY <1>1, FinishLabelFacts, NoCaptureNow DEF IInv
  <1>3. mode # "none" /\ committed \in 0..Len(commits) /\ \E c \in CommitOf(tries) : c <= committed
    BY <1>1 DEF IInv, HeadInv
  <1>4. PICK c \in CommitOf(tries) : c <= committed /\ c \in OwnCommits
    BY <1>2, <1>3, CallFacts
  <1>5. work' \in Trees
    BY <1>1 DEF IInv, GitInv
  <1>6. CASE ReconcileFails
    <2>1. Replies("commit_failed", TRUE, committed) /\ index' = index
      BY <1>6 DEF ReconcileFails, gitVars
    <2>2. Tells("commit_failed", TRUE, committed)
      BY <1>3 DEF Tells, Claims
    <2>3. committed \in DOMAIN commits
      BY <1>2, <1>3, <1>4, OwnCommitFacts, FinishFacts
    <2> QED
      BY <1>1, <1>3, <1>5, <2>1, <2>2, <2>3, LateReply
  <1>7. CASE ReconcileIndex
    <2>1. index' = ReconciledIndex /\ pc' = "checkpoint" /\ UNCHANGED answer
      BY <1>7 DEF ReconcileIndex
    <2>2. committed \in DOMAIN commits
      BY <1>2, <1>3, <1>4, OwnCommitFacts, FinishFacts
    <2>3. commits[committed].tree \in Trees
      BY <2>2, CommitFacts DEF IInv
    <2>4. index' \in Trees
      BY <2>1, <2>3, WorkIsNat DEF ReconciledIndex, Trees, IInv
    <2>5. pc' \in FinishLabels /\ pc' \notin BeforeCommit
      BY <2>1, FinishLabelFacts
    <2>6. StagedInv'
      BY <2>1 DEF StagedInv
    <2>7. CommitOf(tries)' = CommitOf(tries)
      BY <1>1 DEF CommitOf
    <2>8. HeadInv'
      BY <1>1, <1>3, <2>1, <2>5, <2>7 DEF HeadInv, IInv, AnswersTellOfTheCommit
    <2> QED
      BY <1>1, <1>2, <2>1, <2>4, <2>5, <2>6, <2>8, FinishGoesOn
  <1> QED
    BY <1>6, <1>7

LEMMA CheckpointKeeps ==
  ASSUME IInv, WriteCheckpoint \/ CheckpointFails, UNCHANGED goalVars
  PROVE  IInv'
  <1>1. /\ pc = "checkpoint"
        /\ UNCHANGED <<commits, head, index, edits, capture>>
        /\ UNCHANGED <<check, receipts, baseline, snapshot, verification, patch, mode, tries, alternate,
                       committed>>
    BY DEF WriteCheckpoint, CheckpointFails, gitVars, finishVars
  <1>2. pc \in FinishLabels /\ pc \in DerivedLabels
    BY <1>1, FinishLabelFacts
  <1>3. committed \in 0..Len(commits) /\ committed' \in 0..Len(commits)
    BY <1>1 DEF IInv, HeadInv
  <1>4. IF mode = "none" THEN committed = StartHead /\ OwnCommits = {}
        ELSE mode = "after_slice" /\ \E c \in CommitOf(tries) : c <= committed /\ c \in OwnCommits
    <2>1. IF mode = "none" THEN committed = StartHead ELSE \E c \in CommitOf(tries) : c <= committed
      BY <1>1 DEF IInv, HeadInv
    <2>2. mode = "none" => OwnCommits = {}
      BY OwnCommitFacts
    <2>3. mode \in {"none", "after_slice"}
      BY DEF IInv, CommitInv
    <2> QED
      BY <1>2, <2>1, <2>2, <2>3, CallFacts
  <1>5. \E code : Replies(code, mode = "after_slice", committed)
    BY DEF WriteCheckpoint, CheckpointFails, ReturnReceipt
  <1>6. mode # "after_slice" => CommitOf(tries) = {}
    BY <1>2, <1>4, CallFacts
  <1>7. committed \in DOMAIN commits /\ committed \in Nat
    BY <1>2, <1>3, <1>4, OwnCommitFacts, FinishFacts
  <1>8. work' \in Trees
    <2>1. Document(committed) \in Nat
      BY <1>7 DEF Document
    <2>2. work' = work \/ work' = [work EXCEPT ![Checkpoint] = Document(committed)]
      BY DEF WriteCheckpoint, CheckpointFails, gitVars
    <2> QED
      BY <2>1, <2>2 DEF IInv, GitInv, Trees
  <1>9. work'[Checkpoint] = work[Checkpoint] \/ CheckpointInv'
    <2>1. CASE CheckpointFails
      BY <2>1 DEF CheckpointFails, gitVars
    <2>2. CASE WriteCheckpoint
      <3>1. work'[Checkpoint] = Document(committed)
        BY <2>2, Forked DEF WriteCheckpoint, IInv, GitInv, Trees
      <3>2. OwnCommits' = OwnCommits /\ StartHead' = StartHead /\ DOMAIN commits' = DOMAIN commits
        BY <1>1 DEF OwnCommits, StartHead
      <3>3. pc' \in FinishLabels
        BY <1>5, FinishLabelFacts DEF Replies
      <3>4. Document(committed) = 10 + committed /\ Document(committed)' = Document(committed)
        BY <1>1 DEF Document
      <3>5. IF mode = "none" THEN committed = StartHead ELSE \E c \in OwnCommits : c <= committed
        BY <1>4
      <3>6. /\ work'[Checkpoint] = Document(committed')
            /\ IF mode' = "none" THEN committed' = StartHead' ELSE \E c \in OwnCommits' : c <= committed'
            /\ committed' \in DOMAIN commits'
        BY <1>1, <1>7, <3>1, <3>2, <3>5
      <3> QED
        BY <3>3, <3>6 DEF CheckpointInv
    <2> QED
      BY <2>1, <2>2
  <1>10. ASSUME NEW code PROVE Tells(code, mode = "after_slice", committed)
    BY <1>4, <1>6 DEF Tells, Claims
  <1> QED
    BY <1>1, <1>3, <1>5, <1>7, <1>8, <1>9, <1>10, LateReply

LEMMA FinishStepsKeep ==
  ASSUME IInv, FinishSteps, UNCHANGED goalVars
  PROVE  IInv'
  BY BeginFinishKeeps, InputRefusedKeeps, ValidateInputKeeps, StageKeeps, RecheckKeeps, GitCommitKeeps,
     GitCommitFailsKeeps, ReadHeadKeeps, ReconcileKeeps, CheckpointKeeps DEF FinishSteps

-----------------------------------------------------------------------------
(* The goal receipt.                                                         *)

LEMMA WithoutFacts ==
  ASSUME NEW s, s # NoSnapshot, IsSnapshot(s)
  PROVE  /\ WithoutCheckpoint(s).head = s.head
         /\ Listed(WithoutCheckpoint(s)) = Listed(s) \ {Checkpoint}
         /\ WithoutCheckpoint(s).entries = [p \in Listed(s) \ {Checkpoint} |-> s.entries[p]]
         /\ \A p \in Listed(s) \ {Checkpoint} : WithoutCheckpoint(s).entries[p] = s.entries[p]
  <1> DEFINE entries == [p \in Listed(s) \ {Checkpoint} |-> s.entries[p]]
  <1>1. s = [head |-> s.head, entries |-> [p \in Listed(s) |-> s.entries[p]]]
    BY DEF IsSnapshot
  <1>2. WithoutCheckpoint(s) = [head |-> s.head, entries |-> entries]
    BY <1>1 DEF WithoutCheckpoint
  <1> HIDE DEF entries
  <1>3. WithoutCheckpoint(s).head = s.head /\ WithoutCheckpoint(s).entries = entries
    BY <1>2
  <1> QED
    BY <1>3 DEF Listed, entries

(* What was dirty before is dirty in the same way, and was not committed.      *)
LEMMA GoalIsEarned ==
  ASSUME IInv, GoalCompleted
  PROVE  /\ GoalReceipt.document # Absent
         /\ GoalReceipt.paths \subseteq Owned \ Listed(baseline)
         /\ \A p \in Listed(baseline) \ {Checkpoint} :
              /\ StatesOf(snapshot, p) = StatesOf(baseline, p)
              /\ commits[GoalReceipt.end].tree[p] = commits[GoalReceipt.start].tree[p]
         /\ GoalReceipt.created => commits[GoalReceipt.end].parent = GoalReceipt.start
         /\ GoalReceipt.start \in DOMAIN commits /\ GoalReceipt.end \in DOMAIN commits
  <1>1. baseline # NoSnapshot /\ snapshot # NoSnapshot /\ IsSnapshot(baseline) /\ IsSnapshot(snapshot)
    BY DEF GoalCompleted, CollectedLabels, IInv, SliceInv
  <1>2. /\ baseline.head \in DOMAIN commits /\ snapshot.head \in DOMAIN commits
        /\ Listed(baseline) \subseteq Paths
    BY <1>1 DEF IsSnapshot
  <1>3. /\ GoalReceipt.document = work[Checkpoint]
        /\ GoalReceipt.start = baseline.head /\ GoalReceipt.end = snapshot.head
        /\ GoalReceipt.created = (goalMode = "after_slice")
        /\ goalMode = "none" =>
             GoalReceipt.paths = PatchOf(WithoutCheckpoint(baseline), WithoutCheckpoint(snapshot)).paths
        /\ goalMode # "none" => GoalReceipt.paths = CommitChanges(baseline.head, snapshot.head)
    BY DEF GoalReceipt
  <1>4. work[Checkpoint] # Absent
    BY DEF GoalCompleted, CheckpointIsRefreshed
  <1>5. CASE goalMode = "none"
    <2> DEFINE old == WithoutCheckpoint(baseline)
               new == WithoutCheckpoint(snapshot)
    <2>1. baseline.head = snapshot.head /\ IsCommittable(Classify(old, new))
      BY <1>5 DEF GoalCompleted, CompletedWithoutCommit
    <2>2. \A p \in Listed(old) : p \in Listed(new) /\ old.entries[p] = new.entries[p]
      BY <2>1 DEF IsCommittable, Classify
    <2>3. GoalReceipt.paths \subseteq Owned \ Listed(baseline)
      <3>1. GoalReceipt.paths = PatchOf(old, new).paths
        BY <1>3, <1>5
      <3>2. PatchOf(old, new).paths \subseteq Owned \ Listed(old)
        BY PatchFacts
      <3>3. Listed(old) = Listed(baseline) \ {Checkpoint}
        BY <1>1, WithoutFacts
      <3> QED
        BY <3>1, <3>2, <3>3, Forked
    <2>4. ASSUME NEW p \in Listed(baseline) \ {Checkpoint}
          PROVE  /\ StatesOf(snapshot, p) = StatesOf(baseline, p)
                 /\ commits[GoalReceipt.end].tree[p] = commits[GoalReceipt.start].tree[p]
      <3>1. p \in Listed(snapshot) /\ baseline.entries[p] = snapshot.entries[p]
        BY <1>1, <2>2, WithoutFacts
      <3> QED
        BY <1>3, <2>1, <3>1 DEF StatesOf
    <2> QED
      BY <1>2, <1>3, <1>4, <1>5, <2>3, <2>4
  <1>6. CASE goalMode # "none"
    <2>1. CompletedWithCommit
      BY <1>6 DEF GoalCompleted
    <2>2. GoalReceipt.paths \subseteq Owned \ Listed(baseline)
      BY <1>3, <1>6, <2>1 DEF CompletedWithCommit, IsOwned
    <2>3. WithoutCheckpoint(baseline).entries = WithoutCheckpoint(snapshot).entries
      BY <2>1 DEF CompletedWithCommit
    <2>4. [p \in Listed(baseline) \ {Checkpoint} |-> baseline.entries[p]]
            = [p \in Listed(snapshot) \ {Checkpoint} |-> snapshot.entries[p]]
      BY <1>1, <2>3, WithoutFacts
    <2>5. ASSUME NEW p \in Listed(baseline) \ {Checkpoint}
          PROVE  /\ StatesOf(snapshot, p) = StatesOf(baseline, p)
                 /\ commits[GoalReceipt.end].tree[p] = commits[GoalReceipt.start].tree[p]
      <3>1. p \in Listed(snapshot) \ {Checkpoint} /\ baseline.entries[p] = snapshot.entries[p]
        BY <2>4
      <3>2. p \notin CommitChanges(baseline.head, snapshot.head)
        BY <2>1 DEF CompletedWithCommit
      <3>3. commits[snapshot.head].tree[p] = commits[baseline.head].tree[p]
        BY <1>2, <3>2 DEF CommitChanges
      <3> QED
        BY <1>3, <3>1, <3>3 DEF StatesOf
    <2>6. commits[snapshot.head].parent = baseline.head
      BY <2>1 DEF CompletedWithCommit
    <2> QED
      BY <1>2, <1>3, <1>4, <2>2, <2>5, <2>6
  <1> QED
    BY <1>5, <1>6

LEMMA GoalStepsKeep ==
  ASSUME IInv, GoalSteps, UNCHANGED finishVars
  PROVE  IInv'
  <1>1. /\ pc = "collected" /\ pc' = "done" /\ \E code : answer' = Answer(code) /\ Ends(code)
        /\ UNCHANGED <<repository, capture, commits, work>>
        /\ UNCHANGED <<check, receipts, baseline, snapshot, verification, patch>>
    BY DEF GoalSteps, GoalCompleted, GoalRefused, Ends, gitVars, repository
  <1>2. /\ pc \in EarlyLabels /\ pc \notin CapturingLabels /\ pc \notin FinishLabels
        /\ pc' \in Labels \ FinishLabels
    BY <1>1, EarlyLabelFacts DEF EarlyLabels, CapturingLabels
  <1>3. GitInv' /\ StagedInv' /\ CommitInv' /\ HeadInv' /\ CheckpointInv'
    BY <1>1, <1>2, EarlyStepsButTheGoal
  <1>4. CaptureInv'
    BY <1>1, <1>2, NoCaptureInIt DEF IInv
  <1>5. SliceInv'
    BY <1>1, <1>2, SliceEnds, EarlyLabelFacts DEF IInv, SliceInv
  <1>6. CheckInv'
    BY <1>1, ChecksStay, EarlyLabelFacts DEF IInv
  <1>7. GoalInv'
    <2>1. CASE GoalRefused
      BY <1>1, <2>1 DEF GoalRefused, goalVars, IInv, GoalInv, GoalReceiptIsTrue, NoGoal
    <2>2. CASE GoalCompleted
      <3>1. goal' = GoalReceipt
        BY <2>2 DEF GoalCompleted
      <3> QED
        BY <1>1, <2>2, <3>1, GoalIsEarned DEF GoalInv, GoalReceiptIsTrue, StatesOf, Listed
    <2> QED
      BY <2>1, <2>2 DEF GoalSteps
  <1> QED
    BY <1>3, <1>4, <1>5, <1>6, <1>7 DEF IInv

-----------------------------------------------------------------------------
(* The theorems.                                                             *)

LEMMA InitHolds == Init => IInv
  <1> SUFFICES ASSUME Init PROVE IInv
    OBVIOUS
  <1> DEFINE first == [parent |-> 0, tree |-> FirstTree, call |-> 0]
  <1>1. /\ commits = <<first>> /\ head = 1 /\ index = FirstTree /\ edits = 0 /\ capture = NoCapture
        /\ \E dirty \in SUBSET (Paths \ (Fresh \cup {Checkpoint})) :
             work = [p \in Paths |-> IF p \in dirty THEN 2 ELSE FirstTree[p]]
    BY DEF Init, SliceInit, GitInit
  <1>2. /\ check = NoCheck /\ pc = "idle" /\ answer = Answer(None) /\ receipts = << >>
        /\ baseline = NoSnapshot /\ snapshot = NoSnapshot /\ verification = NoVerification /\ patch = NoPatch
        /\ mode \in {"after_slice", "none"} /\ tries = 0 /\ committed = 0 /\ goal = NoGoal
    BY DEF Init, SliceInit, FinishInit, GoalInit
  <1>3. FirstTree \in Trees /\ first \in Commits /\ FirstTree[Checkpoint] < 10 /\ work \in Trees
        /\ work[Checkpoint] < 10
    BY <1>1, Forked DEF FirstTree, Trees, Commits, Absent
  <1>4. commits \in Seq(Commits) /\ commits # << >> /\ Len(commits) = 1 /\ DOMAIN commits = {1}
        /\ commits[1] = first
    BY <1>1, <1>3
  <1>5. GitInv
    BY <1>1, <1>3, <1>4, MaxEditsAssumption DEF GitInv
  <1>6. CaptureInv
    BY <1>1 DEF CaptureInv, NoCapture
  <1>7. pc \in EarlyLabels /\ pc \in Labels /\ pc \notin FinishLabels /\ pc \notin DerivedLabels
        /\ pc \notin CollectedLabels \cup {"snapshot", "collecting", "working", "patch"}
        /\ pc \notin BeforeCommit
    BY <1>2 DEF EarlyLabels, Labels, FinishLabels, DerivedLabels, CollectedLabels, BeforeCommit
  <1>8. CheckInv
    <2>1. check \in CheckRecords /\ ~check.running /\ check.receipt = "none"
      BY <1>2 DEF NoCheck, CheckRecords, Receipts, Descendants
    <2>2. receipts \in Seq(Receipts) /\ Len(receipts) = 0
      BY <1>2
    <2> QED
      BY <1>7, <2>1, <2>2, ChecksAssumption DEF CheckInv
  <1>9. SliceInv
    BY <1>2, <1>7 DEF SliceInv, IsSnapshot, NoVerification
  <1>10. OwnCommits = {}
    BY <1>4 DEF OwnCommits
  <1>11. StagedInv /\ CommitInv
    BY <1>2, <1>4, <1>7, <1>10, MaxTriesAssumption DEF StagedInv, CommitInv
  <1>12. HeadInv
    BY <1>2, <1>4, <1>7 DEF HeadInv, AnswersTellOfTheCommit, Answer
  <1>13. CheckpointInv /\ GoalInv
    BY <1>2, <1>3 DEF CheckpointInv, GoalInv, GoalReceiptIsTrue
  <1> QED
    BY <1>5, <1>6, <1>8, <1>9, <1>11, <1>12, <1>13 DEF IInv

LEMMA NextKeeps == IInv /\ [Next]_vars => IInv'
  <1> SUFFICES ASSUME IInv, [Next]_vars PROVE IInv'
    OBVIOUS
  <1>1. CASE SliceSteps /\ UNCHANGED <<finishVars, goalVars>>
    BY <1>1, SliceStepsKeep
  <1>2. CASE CheckSteps /\ UNCHANGED <<finishVars, goalVars>>
    BY <1>2, CheckStepsKeep
  <1>3. CASE FinishSteps /\ UNCHANGED goalVars
    BY <1>3, FinishStepsKeep
  <1>4. CASE GoalSteps /\ UNCHANGED finishVars
    BY <1>4, GoalStepsKeep
  <1>5. CASE Others /\ UNCHANGED <<check, executionVars, finishVars, goalVars>>
    BY <1>5, OthersKeep
  <1>6. CASE Capturing /\ UNCHANGED <<check, executionVars, finishVars, goalVars>>
    BY <1>6, CapturingKeeps
  <1>7. CASE UNCHANGED vars
    <2>1. UNCHANGED <<commits, head, index, work, edits, capture, check, executionVars, finishVars, goalVars>>
      BY <1>7 DEF vars, gitVars
    <2>2. GitInv' /\ NoOwnCommit
      BY <2>1, HistoryStays DEF GitInv, NoOwnCommit, IInv
    <2>3. CaptureInv' /\ CheckInv'
      BY <2>1 DEF CaptureInv, CheckInv, IInv, executionVars, OwnCommits, StartHead
    <2> QED
      BY <2>1, <2>2, <2>3, SliceStays, StagedStays, CommitStays, HeadStays, GoalStays, CheckpointStays
      DEF NoOwnCommit, IInv
  <1> QED
    BY <1>1, <1>2, <1>3, <1>4, <1>5, <1>6, <1>7 DEF Next

(* The inductive invariant holds of every behaviour, whatever the paths, the    *)
(* number of checks, of calls and of steps others take.                        *)
THEOREM SliceIsConsistent == Spec => []IInv
  BY InitHolds, NextKeeps, PTL DEF Spec

(* GitCommit commits what StageAlternateIndex compared with the patch that      *)
(* Verify put into its receipt: no edit, commit or retry in between changes it. *)
THEOREM SliceCommitsTheVerifiedPatch == Spec => []OwnCommitIsTheVerifiedPatch
  <1>1. IInv => OwnCommitIsTheVerifiedPatch
    <2> SUFFICES ASSUME IInv, NEW c \in OwnCommits
                 PROVE  /\ {p \in Paths : commits[c].tree[p] # commits[StartHead].tree[p]} = patch.paths
                        /\ patch.paths \cap Listed(baseline) = {}
                        /\ receipts = [i \in 1..Checks |-> "PASS"]
                        /\ \A p \in patch.paths :
                             /\ patch.entries[p] = snapshot.entries[p]
                             /\ \/ IsNewFile(patch.entries[p])
                                \/ commits[c].tree[p] = patch.entries[p].patch.to
      BY DEF OwnCommitIsTheVerifiedPatch
    <2>1. pc \in FinishLabels /\ pc \in DerivedLabels
      BY OwnCommitFacts, FinishLabelFacts
    <2>2. IsVerified(commits[c].tree)
      BY DEF IInv, CommitInv
    <2>3. AllPassed /\ verification.patch = PatchOf(baseline, snapshot)
          /\ patch.paths \subseteq Owned \ Listed(baseline)
      BY <2>1 DEF IInv, SliceInv
    <2>4. patch = PatchOf(baseline, snapshot)
      BY <2>2, <2>3 DEF IsVerified
    <2>5. \A p \in patch.paths : patch.entries[p] = snapshot.entries[p]
      BY <2>4, PatchFacts
    <2> QED
      BY <2>2, <2>3, <2>5 DEF IsVerified, AllPassed
  <1> QED
    BY <1>1, SliceIsConsistent, PTL

(* What Replies says of a commit: one it claims is the call's own and part of   *)
(* the head it names, unless the call failed and somebody else moved the head;    *)
(* one the call made is denied only by a failure whose head could not be read.    *)
THEOREM SliceAnswersAreTrue == Spec => []AnswersTellOfTheCommit
  <1>1. IInv => AnswersTellOfTheCommit
    BY DEF IInv, HeadInv
  <1> QED
    BY <1>1, SliceIsConsistent, PTL

(* A retry is refused with head_drift once GitCommit has moved the head: the    *)
(* Slice makes one commit at most, and of its own paths alone.                 *)
THEOREM SliceCommitsOnce == Spec => []OneCommitOfOwnedPaths
  <1>1. IInv => TypeOK
    <2> SUFFICES ASSUME IInv PROVE TypeOK
      OBVIOUS
    <2>1. GitTypeOK
      <3>1. \A c \in DOMAIN commits : DOMAIN commits[c].tree = Paths /\ commits[c].call \in Nat
        BY CommitFacts DEF IInv, Trees
      <3>2. Len(capture) <= edits + 1 /\ \A i \in DOMAIN capture : capture[i].head \in DOMAIN commits
        <4>1. CASE capture = NoCapture
          <5>1. Len(capture) = 0 /\ DOMAIN capture = {}
            BY <4>1 DEF NoCapture
          <5>2. 0 <= edits + 1
            BY MaxEditsAssumption DEF IInv, GitInv
          <5> QED
            BY <5>1, <5>2
        <4> QED
          BY <4>1 DEF IInv, CaptureInv
      <3>3. DOMAIN index = Paths /\ DOMAIN work = Paths
        BY DEF IInv, GitInv, Trees
      <3> QED
        BY <3>1, <3>2, <3>3, CommitFacts DEF GitTypeOK, IInv, GitInv
    <2>2. patch.paths \subseteq Owned
      BY DEF IInv, SliceInv, NoPatch
    <2> QED
      BY <2>1, <2>2 DEF TypeOK, IInv, CheckInv, CommitInv, SliceInv, HeadInv
  <1>2. IInv => CommittedAtMostOnce
    <2> SUFFICES ASSUME IInv PROVE Cardinality(OwnCommits) <= 1
      BY DEF CommittedAtMostOnce
    <2>1. CASE OwnCommits = {}
      BY <2>1, FS_EmptySet
    <2>2. CASE OwnCommits # {}
      <3>1. PICK c : OwnCommits = {c}
        BY <2>2 DEF IInv, CommitInv
      <3>2. Cardinality({c}) = 1
        BY FS_Singleton
      <3>3. Cardinality(OwnCommits) = 1
        BY <3>1, <3>2
      <3> QED
        BY <3>3
    <2> QED
      BY <2>1, <2>2
  <1> QED
    BY <1>1, <1>2, SliceIsConsistent, PTL DEF OneCommitOfOwnedPaths

(* WriteCheckpoint names a head only after the Slice's commit is part of it.    *)
THEOREM SliceCheckpointsFollow == Spec => []CheckpointFollowsTheCommit
  <1>1. IInv => CheckpointFollowsTheCommit
    <2> SUFFICES ASSUME IInv, NEW h \in DOMAIN commits, work[Checkpoint] = Document(h)
                 PROVE  IF mode = "none" THEN h = StartHead ELSE \E c \in OwnCommits : c <= h
      BY DEF CheckpointFollowsTheCommit, IsAncestor
    <2>1. h \in Nat /\ work[Checkpoint] = 10 + h
      BY CommitFacts DEF IInv, Document
    <2>2. PICK g \in DOMAIN commits :
            /\ work[Checkpoint] = Document(g)
            /\ IF mode = "none" THEN g = StartHead ELSE \E c \in OwnCommits : c <= g
      BY <2>1 DEF IInv, CheckpointInv
    <2>3. g \in Nat /\ work[Checkpoint] = 10 + g
      BY <2>2, CommitFacts DEF IInv, Document
    <2>4. g = h
      BY <2>1, <2>3
    <2> QED
      BY <2>2, <2>4
  <1> QED
    BY <1>1, SliceIsConsistent, PTL

(* GitGoalCompletionGuard gives a receipt for one commit of owned paths on the   *)
(* baseline's head, and only while what was dirty before is dirty as it was.    *)
THEOREM GoalReceiptsAreTrue == Spec => []GoalReceiptIsTrue
  <1>1. IInv => GoalReceiptIsTrue
    BY DEF IInv, GoalInv
  <1> QED
    BY <1>1, SliceIsConsistent, PTL

-----------------------------------------------------------------------------
(* The Development Task: its inductive invariant.                             *)

Failures == {"app_server_protocol_error", "model_policy_unavailable", "compaction_probe_failed",
             "app_server_request_failed", "app_server_failed"}
StepsBefore == {"unused", "thread", "refused"}
TurnStates == {Null, "alive"} \cup Outcomes

(* All the host sends, and what of it reaches a session.                     *)
HostNotifications == Notifications \cup {Notification("turn/completed", outcome, TRUE) : outcome \in Outcomes}
Signals ==
  {n \in HostNotifications : n.flaw = Null /\ n.method # "thread/deleted"
                          /\ (n.method \in CompactionMethods => n.id # Null)}

StreamEvents == [kind: {"STARTED", "COMPLETED"}, id: Compactions \cup {ProbeId}]

SessionRecords ==
  [step: StepsBefore \cup {"turn", "answered", "returned"}, pending: Seq(Signals), open: SUBSET Compactions,
   probe: {"off", "scheduled", "inflight"}, probeId: {Null, ProbeId}, stopped: BOOLEAN, turnKnown: BOOLEAN,
   forced: Failures \cup {Null}, terminal: Outcomes \cup Failures \cup {Null}, signalled: Outcomes \cup {Null},
   interrupt: {Null, "sent", "accepted", "refused"}, stream: Seq(StreamEvents)]

(* The compactions a session holds for open are those its stream leaves open.   *)
Running(r) == r.open \cup ({r.probeId} \ {Null})
OpenAtEnd(stream) == OpenAfter(stream, Len(stream))

IsSound(r) ==
  /\ r \in SessionRecords
  /\ IsPaired(r.stream)
  /\ r.probeId # Null => r.stopped
  /\ r.terminal = Null => OpenAtEnd(r.stream) = Running(r)
  /\ r.terminal \in {"COMPLETED", "FAILED"} => OpenAtEnd(r.stream) = {}

(* The end of the task's own turn, and the reroute of its model.               *)
IsEnd(n) == n.method = "turn/completed" /\ n.own /\ n.flaw = Null
IsReroute(n) == n.method = "model/rerouted" /\ n.own

EndsAgree(q, t) == \A i \in DOMAIN q : IsEnd(q[i]) => q[i].id = t

(* From i on, no end is queued; a reroute is queued before any end.            *)
NoEnd(q, i) == \A k \in (i + 1)..Len(q) : ~IsEnd(q[k])
RerouteFirst(q, i) ==
  \E j \in (i + 1)..Len(q) : IsReroute(q[j]) /\ \A k \in (i + 1)..(j - 1) : ~IsEnd(q[k])

(* The session knows that its turn failed.                                    *)
Knows(r) == r.forced # Null \/ r.terminal \in Failures

(* Session r of s, whose turn is in state t, has yet to handle the signals of q  *)
(* after the first i, and w is on its way.  It was told no other end than that   *)
(* of the turn.  Of a reroute it knows, or it hears of it before it hears of the  *)
(* end, or it hears of no end.                                               *)
Told(s, r, q, i, t, w, gone, moved) ==
  /\ IsSound(r)
  /\ r.signalled # Null => t = r.signalled
  /\ r.terminal \in Outcomes => t = r.terminal
  /\ s \in moved =>
       /\ t # Null /\ r.terminal \notin Outcomes
       /\ Knows(r) \/ RerouteFirst(q, i) \/ (NoEnd(q, i) /\ (gone \/ RerouteFirst(w, 0)))

Unstarted(r) == r.terminal = Null /\ r.interrupt = Null /\ ~r.turnKnown /\ r.probe = "off"

SessionInv(s, r, t, w, gone, moved) ==
  /\ Told(s, r, r.pending, 0, t, w, gone, moved)
  /\ t \in TurnStates /\ w \in Seq(HostNotifications)
  /\ r.step \in StepsBefore => t = Null /\ Unstarted(r)
  /\ r.turnKnown => r.pending = << >>
  /\ EndsAgree(w, t) /\ EndsAgree(r.pending, t)

ControlStates == {Null, "waiting", "receipt", "persisted", "refused"}

TaskInv ==
  /\ disposed \in BOOLEAN /\ rerouted \subseteq Sessions
  /\ session = [s \in Sessions |-> session[s]] /\ wire = [s \in Sessions |-> wire[s]]
  /\ turn = [s \in Sessions |-> turn[s]] /\ control \in [Sessions -> ControlStates]
  /\ \A s \in Sessions : SessionInv(s, session[s], turn[s], wire[s], disposed, rerouted)
  /\ \A s \in Sessions : control[s] \in {"receipt", "persisted"} => turn[s] = "INTERRUPTED"
  /\ active \in Sessions \cup {Null}
  /\ active # Null => IsOpen(active)

-----------------------------------------------------------------------------
(* Induction over the signals that waited.  The theorem of the library takes    *)
(* the induction hypothesis as an operator; a set of numbers serves as well.    *)

LEMMA CountingUp ==
  ASSUME NEW n \in Nat, NEW G, 0 \in G, \A i \in 0..n : i # n /\ i \in G => i + 1 \in G
  PROVE  n \in G
  <1> DEFINE reached == {k \in 0..n : \A i \in 0..k : i \in G}
  <1>1. reached \subseteq 0..n /\ 0 \in reached
    OBVIOUS
  <1>2. ASSUME NEW k \in reached PROVE k \in G /\ k \in Nat /\ k <= n /\ 0..k \subseteq reached
    OBVIOUS
  <1>3. ASSUME NEW k \in reached, k # n PROVE k + 1 \in reached
    <2>1. k \in 0..n /\ (\A i \in 0..k : i \in G) /\ k + 1 \in 0..n
      BY <1>3
    <2>2. k + 1 \in G
      BY <2>1, <1>3
    <2>3. \A i \in 0..(k + 1) : i \in 0..k \/ i = k + 1
      BY <2>1
    <2> QED
      BY <2>1, <2>2, <2>3
  <1> HIDE DEF reached
  <1>4. IsFiniteSet(0..n) /\ IsFiniteSet(reached)
    <2>1. IsFiniteSet(0..n)
      BY FS_Interval
    <2> QED
      BY <1>1, <2>1, FS_Subset
  <1>5. PICK c \in Nat : c = Cardinality(reached)
    BY <1>4, FS_CardinalityType
  <1>6. c \notin reached
    <2> SUFFICES ASSUME c \in reached PROVE FALSE
      OBVIOUS
    <2>1. 0..c \subseteq reached
      BY <1>2
    <2>2. Cardinality(0..c) = c + 1
      BY FS_Interval
    <2>3. Cardinality(0..c) <= Cardinality(reached)
      BY <1>4, <2>1, FS_Subset
    <2> QED
      BY <1>5, <2>2, <2>3
  <1>7. c # 0
    BY <1>1, <1>4, <1>5, FS_EmptySet
  <1>8. c - 1 \in reached
    <2> SUFFICES ASSUME c - 1 \notin reached PROVE FALSE
      OBVIOUS
    <2>1. \A k \in reached : k \in 0..(c - 2)
      <3> SUFFICES ASSUME NEW k \in reached, ~(k <= c - 2) PROVE FALSE
        BY <1>2
      <3>1. c - 1 \in 0..k
        BY <1>2, <1>7
      <3> QED
        BY <1>2, <3>1
    <2>2. Cardinality(0..(c - 2)) = c - 1 /\ IsFiniteSet(0..(c - 2))
      <3>1. c - 2 \in Int /\ 0 \in Int
        OBVIOUS
      <3>2. Cardinality(0..(c - 2)) = IF 0 > c - 2 THEN 0 ELSE (c - 2) - 0 + 1
        BY <3>1, FS_Interval
      <3>3. IsFiniteSet(0..(c - 2))
        BY <3>1, FS_Interval
      <3> QED
        BY <1>7, <3>2, <3>3
    <2>3. Cardinality(reached) <= Cardinality(0..(c - 2))
      BY <2>1, <2>2, FS_Subset
    <2> QED
      BY <1>5, <2>2, <2>3
  <1> QED
    BY <1>2, <1>3, <1>6, <1>8

-----------------------------------------------------------------------------
(* The stream.                                                               *)

(* Which compactions are open at the end, in terms of the events.             *)
LEMMA OpenFacts ==
  ASSUME NEW st, NEW i, NEW id
  PROVE  id \in OpenAfter(st, i) <=>
           \E j \in 1..i : /\ st[j].kind = "STARTED" /\ st[j].id = id
                           /\ \A k \in (j + 1)..i : st[k] # [kind |-> "COMPLETED", id |-> id]
  BY DEF OpenAfter

LEMMA SameEvents ==
  ASSUME NEW a, NEW b, NEW i \in Nat, \A j \in 1..i : a[j] = b[j], NEW id \in OpenAfter(a, i)
  PROVE  id \in OpenAfter(b, i)
  <1>1. PICK j \in 1..i : /\ a[j].kind = "STARTED" /\ a[j].id = id
                          /\ \A k \in (j + 1)..i : a[k] # [kind |-> "COMPLETED", id |-> id]
    BY OpenFacts
  <1>2. b[j].kind = "STARTED" /\ b[j].id = id
    BY <1>1
  <1>3. \A k \in (j + 1)..i : b[k] = a[k]
    OBVIOUS
  <1>4. \A k \in (j + 1)..i : b[k] # [kind |-> "COMPLETED", id |-> id]
    BY <1>1, <1>3
  <1> QED
    BY <1>2, <1>4, OpenFacts

LEMMA EarlierEvents ==
  ASSUME NEW st \in Seq(StreamEvents), NEW e \in StreamEvents, NEW i \in 0..Len(st)
  PROVE  OpenAfter(Append(st, e), i) = OpenAfter(st, i)
  <1> DEFINE longer == Append(st, e)
  <1>1. i \in Nat /\ \A j \in 1..i : longer[j] = st[j] /\ st[j] = longer[j]
    OBVIOUS
  <1> HIDE DEF longer
  <1>2. \A id \in OpenAfter(longer, i) : id \in OpenAfter(st, i)
    BY <1>1, SameEvents
  <1>3. \A id \in OpenAfter(st, i) : id \in OpenAfter(longer, i)
    BY <1>1, SameEvents
  <1>4. OpenAfter(longer, i) = OpenAfter(st, i)
    BY <1>2, <1>3
  <1> QED
    BY <1>4 DEF longer

LEMMA LastEvent ==
  ASSUME NEW st \in Seq(StreamEvents), NEW e \in StreamEvents
  PROVE  OpenAtEnd(Append(st, e)) =
           IF e.kind = "STARTED" THEN OpenAtEnd(st) \cup {e.id} ELSE OpenAtEnd(st) \ {e.id}
  <1> DEFINE n == Len(st)
             longer == Append(st, e)
  <1>1. n \in Nat /\ Len(longer) = n + 1 /\ longer[n + 1] = e /\ \A j \in 1..n : longer[j] = st[j]
    OBVIOUS
  <1>2. e = [kind |-> e.kind, id |-> e.id] /\ e.kind \in {"STARTED", "COMPLETED"}
    BY DEF StreamEvents
  <1> HIDE DEF longer
  <1>3. CASE e.kind = "STARTED"
    <2>1. ASSUME NEW id PROVE id \in OpenAfter(longer, n + 1) <=> id \in OpenAfter(st, n) \/ id = e.id
      <3>1. ASSUME id \in OpenAfter(longer, n + 1) PROVE id \in OpenAfter(st, n) \/ id = e.id
        <4>1. PICK j \in 1..(n + 1) : /\ longer[j].kind = "STARTED" /\ longer[j].id = id
                                      /\ \A k \in (j + 1)..(n + 1) : longer[k] # [kind |-> "COMPLETED", id |-> id]
          BY <3>1, OpenFacts
        <4>2. CASE j = n + 1
          BY <1>1, <4>1, <4>2
        <4>3. CASE j \in 1..n
          <5>1. st[j].kind = "STARTED" /\ st[j].id = id
            BY <1>1, <4>1, <4>3
          <5>2. \A k \in (j + 1)..n : st[k] # [kind |-> "COMPLETED", id |-> id]
            BY <1>1, <4>1, <4>3
          <5> QED
            BY <4>3, <5>1, <5>2, OpenFacts
        <4> QED
          BY <1>1, <4>2, <4>3
      <3>2. ASSUME id \in OpenAfter(st, n) PROVE id \in OpenAfter(longer, n + 1)
        <4>1. PICK j \in 1..n : /\ st[j].kind = "STARTED" /\ st[j].id = id
                                /\ \A k \in (j + 1)..n : st[k] # [kind |-> "COMPLETED", id |-> id]
          BY <3>2, OpenFacts
        <4>2. longer[j].kind = "STARTED" /\ longer[j].id = id /\ j \in 1..(n + 1)
          BY <1>1, <4>1
        <4>3. longer[n + 1] # [kind |-> "COMPLETED", id |-> id]
          BY <1>1, <1>2, <1>3
        <4>4. \A k \in (j + 1)..(n + 1) : k = n + 1 \/ (k \in (j + 1)..n /\ longer[k] = st[k])
          BY <1>1
        <4>5. \A k \in (j + 1)..(n + 1) : longer[k] # [kind |-> "COMPLETED", id |-> id]
          BY <4>1, <4>3, <4>4
        <4> QED
          BY <4>2, <4>5, OpenFacts
      <3>3. ASSUME id = e.id PROVE id \in OpenAfter(longer, n + 1)
        <4>1. n + 1 \in 1..(n + 1) /\ longer[n + 1].kind = "STARTED" /\ longer[n + 1].id = id
          BY <1>1, <1>3, <3>3
        <4>2. (n + 1 + 1)..(n + 1) = {}
          BY <1>1
        <4> QED
          BY <4>1, <4>2, OpenFacts
      <3> QED
        BY <3>1, <3>2, <3>3
    <2> QED
      BY <1>1, <1>3, <2>1 DEF OpenAtEnd, longer
  <1>4. CASE e.kind = "COMPLETED"
    <2>1. ASSUME NEW id PROVE id \in OpenAfter(longer, n + 1) <=> id \in OpenAfter(st, n) /\ id # e.id
      <3>1. ASSUME id \in OpenAfter(longer, n + 1) PROVE id \in OpenAfter(st, n) /\ id # e.id
        <4>1. PICK j \in 1..(n + 1) : /\ longer[j].kind = "STARTED" /\ longer[j].id = id
                                      /\ \A k \in (j + 1)..(n + 1) : longer[k] # [kind |-> "COMPLETED", id |-> id]
          BY <3>1, OpenFacts
        <4>2. j \in 1..n
          BY <1>1, <1>4, <4>1
        <4>3. n + 1 \in (j + 1)..(n + 1)
          BY <1>1, <4>2
        <4>4. id # e.id
          BY <1>1, <1>2, <1>4, <4>1, <4>3
        <4>5. st[j].kind = "STARTED" /\ st[j].id = id
          BY <1>1, <4>1, <4>2
        <4>6. \A k \in (j + 1)..n : st[k] # [kind |-> "COMPLETED", id |-> id]
          BY <1>1, <4>1, <4>2
        <4> QED
          BY <4>2, <4>4, <4>5, <4>6, OpenFacts
      <3>2. ASSUME id \in OpenAfter(st, n), id # e.id PROVE id \in OpenAfter(longer, n + 1)
        <4>1. PICK j \in 1..n : /\ st[j].kind = "STARTED" /\ st[j].id = id
                                /\ \A k \in (j + 1)..n : st[k] # [kind |-> "COMPLETED", id |-> id]
          BY <3>2, OpenFacts
        <4>2. longer[j].kind = "STARTED" /\ longer[j].id = id /\ j \in 1..(n + 1)
          BY <1>1, <4>1
        <4>3. longer[n + 1] # [kind |-> "COMPLETED", id |-> id]
          BY <1>1, <3>2
        <4>4. \A k \in (j + 1)..(n + 1) : k = n + 1 \/ (k \in (j + 1)..n /\ longer[k] = st[k])
          BY <1>1
        <4>5. \A k \in (j + 1)..(n + 1) : longer[k] # [kind |-> "COMPLETED", id |-> id]
          BY <4>1, <4>3, <4>4
        <4> QED
          BY <4>2, <4>5, OpenFacts
      <3> QED
        BY <3>1, <3>2
    <2> QED
      BY <1>1, <1>4, <2>1 DEF OpenAtEnd, longer
  <1> QED
    BY <1>2, <1>3, <1>4

(* An event that fits what is open keeps the stream paired.                    *)
LEMMA FittingEvent ==
  ASSUME NEW st \in Seq(StreamEvents), NEW e \in StreamEvents, IsPaired(st),
         e.kind = "STARTED" <=> e.id \notin OpenAtEnd(st)
  PROVE  IsPaired(Append(st, e))
  <1> SUFFICES ASSUME NEW i \in DOMAIN Append(st, e)
                PROVE  Append(st, e)[i].kind = "STARTED"
                        <=> Append(st, e)[i].id \notin OpenAfter(Append(st, e), i - 1)
    BY DEF IsPaired
  <1>1. Len(st) \in Nat /\ i \in 1..(Len(st) + 1) /\ i - 1 \in 0..Len(st)
    OBVIOUS
  <1>2. OpenAfter(Append(st, e), i - 1) = OpenAfter(st, i - 1)
    BY <1>1, EarlierEvents
  <1>3. CASE i = Len(st) + 1
    <2>1. Append(st, e)[i] = e /\ i - 1 = Len(st)
      BY <1>1, <1>3
    <2> QED
      BY <1>2, <2>1 DEF OpenAtEnd
  <1>4. CASE i \in 1..Len(st)
    <2>1. Append(st, e)[i] = st[i] /\ i \in DOMAIN st
      BY <1>1, <1>4
    <2> QED
      BY <1>2, <2>1 DEF IsPaired
  <1> QED
    BY <1>1, <1>3, <1>4

-----------------------------------------------------------------------------
(* What the handlers are made of.                                            *)

LEMMA NamesDiffer ==
  /\ Null # ProbeId /\ Null \notin Compactions /\ ProbeId \notin Compactions
  /\ Null \notin Failures /\ Null \notin Outcomes /\ Failures \cap Outcomes = {}
  BY CompactionsAssumption DEF Null, ProbeId, Failures, Outcomes

LEMMA SignalFacts ==
  ASSUME NEW n \in HostNotifications
  PROVE  /\ n.method \in CompactionMethods => n.id \in Compactions \cup {Null}
         /\ n.method \in CompactionMethods \cup {"model/rerouted", "turn/completed", "thread/deleted"}
         /\ n.own \in BOOLEAN
         /\ n.flaw \in {Null, "completedAt"} /\ (n.flaw # Null => n.method = "turn/completed")
         /\ n.method = "turn/completed" => n.id \in Outcomes
  <1>1. \/ \E id \in Compactions : n = Notification("item/started", id, TRUE)
        \/ \E id \in Compactions : n = Notification("item/completed", id, TRUE)
        \/ \E id \in Compactions : n = Notification("item/started", id, FALSE)
        \/ \E own \in BOOLEAN : n = Notification("model/rerouted", Null, own)
        \/ n = Notification("item/started", Null, TRUE) \/ n = Notification("thread/deleted", Null, TRUE)
        \/ n = Notification("turn/completed", "COMPLETED", FALSE) \/ n = MalformedEnd
        \/ \E outcome \in Outcomes : n = Notification("turn/completed", outcome, TRUE)
    BY DEF HostNotifications, Notifications
  <1>2. ASSUME NEW method, NEW id, NEW own, n = Notification(method, id, own)
        PROVE  n.method = method /\ n.id = id /\ n.own = own /\ n.flaw = Null
    BY <1>2 DEF Notification
  <1>3. CASE n = MalformedEnd
    BY <1>3 DEF MalformedEnd, CompactionMethods, Outcomes, Null
  <1>4. CASE \E id \in Compactions : \/ n = Notification("item/started", id, TRUE)
                                     \/ n = Notification("item/completed", id, TRUE)
                                     \/ n = Notification("item/started", id, FALSE)
    <2>1. n.method \in CompactionMethods /\ n.id \in Compactions /\ n.own \in BOOLEAN /\ n.flaw = Null
      BY <1>2, <1>4 DEF CompactionMethods
    <2> QED
      BY <2>1 DEF CompactionMethods
  <1>5. CASE \E own \in BOOLEAN : n = Notification("model/rerouted", Null, own)
    <2>1. n.method = "model/rerouted" /\ n.own \in BOOLEAN /\ n.flaw = Null
      BY <1>2, <1>5
    <2> QED
      BY <2>1 DEF CompactionMethods
  <1>6. CASE n = Notification("item/started", Null, TRUE) \/ n = Notification("thread/deleted", Null, TRUE)
    <2>1. n.method \in {"item/started", "thread/deleted"} /\ n.id = Null /\ n.own \in BOOLEAN /\ n.flaw = Null
      BY <1>2, <1>6
    <2> QED
      BY <2>1 DEF CompactionMethods
  <1>7. CASE n = Notification("turn/completed", "COMPLETED", FALSE)
             \/ \E outcome \in Outcomes : n = Notification("turn/completed", outcome, TRUE)
    <2>1. n.method = "turn/completed" /\ n.id \in Outcomes /\ n.own \in BOOLEAN /\ n.flaw = Null
      BY <1>2, <1>7 DEF Outcomes
    <2> QED
      BY <2>1 DEF CompactionMethods
  <1> QED
    BY <1>1, <1>3, <1>4, <1>5, <1>6, <1>7

LEMMA NoEndWhileAlive ==
  ASSUME NEW n \in Notifications
  PROVE  n.method = "turn/completed" => ~n.own \/ n.flaw # Null
  <1>1. \/ n.method # "turn/completed"
        \/ n = Notification("turn/completed", "COMPLETED", FALSE) \/ n = MalformedEnd
    BY DEF Notifications, Notification
  <1> QED
    BY <1>1 DEF Notification, MalformedEnd, Null

(* A handler leaves where start is and what waits alone, and forgets neither a  *)
(* failure nor the end of the session.                                       *)
Follows(r, q) ==
  /\ q \in SessionRecords
  /\ q.step = r.step /\ q.pending = r.pending /\ q.turnKnown = r.turnKnown
  /\ r.forced # Null => q.forced # Null
  /\ r.terminal # Null => q.terminal = r.terminal

SameCompactions(r, q) == q.stream = r.stream /\ q.open = r.open /\ q.probeId = r.probeId

LEMMA StopProbeFacts ==
  ASSUME NEW r \in SessionRecords, NEW q, q = StopProbe(r)
  PROVE  /\ Follows(r, q) /\ SameCompactions(r, q) /\ q.stopped
         /\ q.forced = r.forced /\ q.terminal = r.terminal /\ q.signalled = r.signalled /\ q.interrupt = r.interrupt
  BY DEF StopProbe, SessionRecords, Follows, SameCompactions

LEMMA FinishedFacts ==
  ASSUME NEW r \in SessionRecords, NEW code \in Outcomes \cup Failures, NEW q, q = Finish(r, code)
  PROVE  /\ Follows(r, q) /\ SameCompactions(r, q) /\ (r.stopped => q.stopped)
         /\ q.forced = r.forced /\ q.signalled = r.signalled
         /\ q.terminal = IF r.terminal = Null THEN code ELSE r.terminal
  <1>1. CASE r.terminal # Null
    BY <1>1 DEF Finish, Follows, SameCompactions
  <1>2. CASE r.terminal = Null
    <2> DEFINE p == StopProbe(r)
    <2>1. /\ Follows(r, p) /\ SameCompactions(r, p) /\ p.stopped
          /\ p.forced = r.forced /\ p.terminal = r.terminal /\ p.signalled = r.signalled
      BY StopProbeFacts
    <2>2. q = [p EXCEPT !.terminal = code]
      BY <1>2 DEF Finish
    <2> HIDE DEF p
    <2> QED
      BY <1>2, <2>1, <2>2 DEF SessionRecords, Follows, SameCompactions
  <1> QED
    BY <1>1, <1>2

LEMMA RequestInterruptFacts ==
  ASSUME NEW r \in SessionRecords, NEW q, q = RequestInterrupt(r)
  PROVE  /\ Follows(r, q) /\ SameCompactions(r, q) /\ q.stopped = r.stopped
         /\ q.forced = r.forced /\ q.terminal = r.terminal /\ q.signalled = r.signalled
  BY DEF RequestInterrupt, SessionRecords, Follows, SameCompactions

LEMMA ForceFailureFacts ==
  ASSUME NEW r \in SessionRecords, NEW code \in Failures, NEW q, q = ForceFailure(r, code)
  PROVE  /\ Follows(r, q) /\ SameCompactions(r, q) /\ q.stopped
         /\ q.forced # Null /\ q.terminal = r.terminal /\ q.signalled = r.signalled
  <1> DEFINE p == StopProbe(r)
             f == [p EXCEPT !.forced = IF @ = Null THEN code ELSE @]
  <1>1. /\ Follows(r, p) /\ SameCompactions(r, p) /\ p.stopped
        /\ p.forced = r.forced /\ p.terminal = r.terminal /\ p.signalled = r.signalled
    BY StopProbeFacts
  <1> HIDE DEF p
  <1>2. /\ f \in SessionRecords /\ f.step = p.step /\ f.pending = p.pending /\ f.turnKnown = p.turnKnown
        /\ SameCompactions(p, f) /\ f.stopped /\ f.forced # Null
        /\ f.terminal = p.terminal /\ f.signalled = p.signalled
    BY <1>1, NamesDiffer DEF SessionRecords, Follows, SameCompactions
  <1>3. q = RequestInterrupt(f)
    BY DEF ForceFailure, p
  <1> HIDE DEF f
  <1>4. /\ Follows(f, q) /\ SameCompactions(f, q) /\ q.stopped = f.stopped
        /\ q.forced = f.forced /\ q.terminal = f.terminal /\ q.signalled = f.signalled
    BY <1>2, <1>3, RequestInterruptFacts
  <1> QED
    BY <1>1, <1>2, <1>4 DEF Follows, SameCompactions

(* Steps that touch no compaction keep the stream sound.                       *)
LEMMA SameCompactionsSound ==
  ASSUME NEW r, NEW q \in SessionRecords, IsSound(r), SameCompactions(r, q),
         r.stopped => q.stopped, q.terminal = r.terminal \/ (r.terminal = Null /\ q.terminal \in Failures)
  PROVE  IsSound(q)
  BY NamesDiffer DEF IsSound, SameCompactions, Running, Outcomes

LEMMA EmitFacts ==
  ASSUME NEW r \in SessionRecords, NEW kind \in {"STARTED", "COMPLETED"}, NEW id \in Compactions \cup {ProbeId},
         NEW q, q = Emit(r, kind, id)
  PROVE  /\ Follows(r, q) /\ q.stopped = r.stopped /\ q.open = r.open /\ q.probeId = r.probeId
         /\ q.forced = r.forced /\ q.terminal = r.terminal /\ q.signalled = r.signalled
         /\ OpenAtEnd(q.stream) =
              IF kind = "STARTED" THEN OpenAtEnd(r.stream) \cup {id} ELSE OpenAtEnd(r.stream) \ {id}
         /\ IsPaired(r.stream) /\ (kind = "STARTED" <=> id \notin OpenAtEnd(r.stream)) => IsPaired(q.stream)
  <1> DEFINE e == [kind |-> kind, id |-> id]
  <1>1. e \in StreamEvents /\ e.kind = kind /\ e.id = id /\ r.stream \in Seq(StreamEvents)
    BY DEF StreamEvents, SessionRecords
  <1> HIDE DEF e
  <1>2. q = [r EXCEPT !.stream = Append(@, e)]
    BY DEF Emit, e
  <1>3. q.stream = Append(r.stream, e) /\ q.stream \in Seq(StreamEvents)
    BY <1>1, <1>2 DEF SessionRecords
  <1>4. /\ Follows(r, q) /\ q.stopped = r.stopped /\ q.open = r.open /\ q.probeId = r.probeId
        /\ q.forced = r.forced /\ q.terminal = r.terminal /\ q.signalled = r.signalled
    BY <1>1, <1>2, <1>3 DEF SessionRecords, Follows
  <1> QED
    BY <1>1, <1>3, <1>4, LastEvent, FittingEvent

LEMMA CompleteProbeFacts ==
  ASSUME NEW r \in SessionRecords, IsSound(r), r.terminal = Null, NEW q, q = CompleteProbe(r)
  PROVE  /\ Follows(r, q) /\ IsSound(q) /\ q.probeId = Null /\ q.open = r.open /\ q.stopped = r.stopped
         /\ q.forced = r.forced /\ q.terminal = r.terminal /\ q.signalled = r.signalled
  <1>1. CASE r.probeId = Null
    BY <1>1 DEF CompleteProbe, Follows
  <1>2. CASE r.probeId # Null
    <2>1. r.probeId = ProbeId /\ r.open \subseteq Compactions
      BY <1>2 DEF SessionRecords
    <2> DEFINE m == Emit(r, "COMPLETED", ProbeId)
    <2>2. /\ Follows(r, m) /\ m.stopped = r.stopped /\ m.open = r.open /\ m.probeId = r.probeId
          /\ m.forced = r.forced /\ m.terminal = r.terminal /\ m.signalled = r.signalled
          /\ OpenAtEnd(m.stream) = OpenAtEnd(r.stream) \ {ProbeId}
          /\ IsPaired(r.stream) /\ ProbeId \in OpenAtEnd(r.stream) => IsPaired(m.stream)
      BY EmitFacts
    <2>3. q = [m EXCEPT !.probeId = Null]
      BY <1>2 DEF CompleteProbe
    <2> HIDE DEF m
    <2>4. /\ Follows(r, q) /\ q.probeId = Null /\ q.open = r.open /\ q.stopped = r.stopped
          /\ q.stream = m.stream
          /\ q.forced = r.forced /\ q.terminal = r.terminal /\ q.signalled = r.signalled
      BY <2>2, <2>3 DEF SessionRecords, Follows
    <2>5. OpenAtEnd(r.stream) = r.open \cup {ProbeId}
      BY <2>1, NamesDiffer DEF IsSound, Running
    <2>6. OpenAtEnd(q.stream) = Running(q)
      BY <2>1, <2>2, <2>4, <2>5, NamesDiffer DEF Running
    <2> QED
      BY <2>2, <2>4, <2>5, <2>6, NamesDiffer DEF IsSound, Follows, Outcomes, Null
  <1> QED
    BY <1>1, <1>2

LEMMA FollowsTrans ==
  ASSUME NEW r, NEW m, NEW q, Follows(r, m), Follows(m, q)
  PROVE  Follows(r, q)
  BY DEF Follows

-----------------------------------------------------------------------------
(* The handlers.                                                             *)

LEMMA HandleCompactionSound ==
  ASSUME NEW r, IsSound(r), r.terminal = Null, NEW n, n.method \in CompactionMethods, n.id \in Compactions,
         NEW q, q = HandleCompaction(r, n)
  PROVE  Follows(r, q) /\ IsSound(q) /\ q.terminal = Null /\ q.signalled = r.signalled
  <1> DEFINE p == StopProbe(r)
             stopped == CompleteProbe(p)
             opened == [stopped EXCEPT !.open = @ \cup {n.id}]
             closed == [stopped EXCEPT !.open = @ \ {n.id}]
  <1>0. r \in SessionRecords
    BY DEF IsSound
  <1>1. /\ Follows(r, p) /\ IsSound(p) /\ p.stopped /\ p.probeId = r.probeId
        /\ p.terminal = Null /\ p.signalled = r.signalled /\ p \in SessionRecords
    BY <1>0, StopProbeFacts, SameCompactionsSound DEF SameCompactions, Follows
  <1> HIDE DEF p
  <1>2. /\ Follows(p, stopped) /\ IsSound(stopped) /\ stopped.probeId = Null /\ stopped.stopped
        /\ stopped.terminal = Null /\ stopped.signalled = r.signalled
    BY <1>1, CompleteProbeFacts
  <1>3. /\ q = IF r.probeId # Null /\ n.method = "item/completed" THEN stopped
               ELSE IF n.method = "item/started"
               THEN IF n.id \in r.open THEN ForceFailure(stopped, "app_server_protocol_error")
                    ELSE Emit(opened, "STARTED", n.id)
               ELSE IF n.id \notin r.open THEN ForceFailure(stopped, "app_server_protocol_error")
                    ELSE Emit(closed, "COMPLETED", n.id)
        /\ stopped.open = r.open
    <2>1. stopped.open = r.open
      BY <1>0, <1>1, CompleteProbeFacts, StopProbeFacts DEF SameCompactions, p
    <2> QED
      BY <2>1 DEF HandleCompaction, p
  <1> HIDE DEF stopped
  <1>4. Follows(r, stopped)
    BY <1>1, <1>2, FollowsTrans
  <1>5. CASE q = stopped
    BY <1>2, <1>4, <1>5
  <1>6. CASE q = ForceFailure(stopped, "app_server_protocol_error")
    <2>1. "app_server_protocol_error" \in Failures /\ stopped \in SessionRecords
      BY <1>2 DEF Failures, IsSound
    <2>2. /\ Follows(stopped, q) /\ SameCompactions(stopped, q) /\ q.stopped
          /\ q.terminal = stopped.terminal /\ q.signalled = stopped.signalled
      BY <1>6, <2>1, ForceFailureFacts
    <2>3. IsSound(q)
      BY <1>2, <2>2, SameCompactionsSound DEF Follows
    <2> QED
      BY <1>2, <1>4, <2>2, <2>3, FollowsTrans
  <1>7. OpenAtEnd(stopped.stream) = r.open /\ r.open \subseteq Compactions /\ n.id # ProbeId
    <2>1. OpenAtEnd(stopped.stream) = stopped.open
      BY <1>2 DEF IsSound, Running
    <2>2. r.open \subseteq Compactions
      BY <1>0 DEF SessionRecords
    <2> QED
      BY <1>3, <2>1, <2>2, NamesDiffer
  <1>8. CASE q = Emit(opened, "STARTED", n.id) /\ n.id \notin r.open
    <2>1. /\ opened \in SessionRecords /\ Follows(stopped, opened) /\ opened.open = r.open \cup {n.id}
          /\ opened.probeId = Null /\ opened.stream = stopped.stream /\ opened.terminal = Null
          /\ opened.signalled = r.signalled
      BY <1>2, <1>3 DEF IsSound, SessionRecords, Follows
    <2> HIDE DEF opened
    <2>2. /\ Follows(opened, q) /\ q.open = opened.open /\ q.probeId = Null
          /\ q.terminal = Null /\ q.signalled = r.signalled
          /\ OpenAtEnd(q.stream) = OpenAtEnd(opened.stream) \cup {n.id}
          /\ IsPaired(opened.stream) /\ n.id \notin OpenAtEnd(opened.stream) => IsPaired(q.stream)
      BY <1>8, <2>1, EmitFacts
    <2>3. IsSound(q)
      BY <1>2, <1>7, <1>8, <2>1, <2>2, NamesDiffer DEF IsSound, Running, Follows, Null
    <2> QED
      BY <1>4, <2>1, <2>2, <2>3, FollowsTrans
  <1>9. CASE q = Emit(closed, "COMPLETED", n.id) /\ n.id \in r.open
    <2>1. /\ closed \in SessionRecords /\ Follows(stopped, closed) /\ closed.open = r.open \ {n.id}
          /\ closed.probeId = Null /\ closed.stream = stopped.stream /\ closed.terminal = Null
          /\ closed.signalled = r.signalled
      BY <1>2, <1>3 DEF IsSound, SessionRecords, Follows
    <2> HIDE DEF closed
    <2>2. /\ Follows(closed, q) /\ q.open = closed.open /\ q.probeId = Null
          /\ q.terminal = Null /\ q.signalled = r.signalled
          /\ OpenAtEnd(q.stream) = OpenAtEnd(closed.stream) \ {n.id}
          /\ IsPaired(closed.stream) /\ n.id \in OpenAtEnd(closed.stream) => IsPaired(q.stream)
      BY <1>9, <2>1, EmitFacts
    <2>3. IsSound(q)
      BY <1>2, <1>7, <1>9, <2>1, <2>2, NamesDiffer DEF IsSound, Running, Follows, Null
    <2> QED
      BY <1>4, <2>1, <2>2, <2>3, FollowsTrans
  <1> QED
    BY <1>3, <1>5, <1>6, <1>8, <1>9

LEMMA HandleTerminalSound ==
  ASSUME NEW r, IsSound(r), r.terminal = Null, NEW outcome \in Outcomes, NEW q, q = HandleTerminal(r, outcome)
  PROVE  /\ Follows(r, q) /\ IsSound(q) /\ q.signalled = outcome
         /\ q.terminal \in Failures \/ (q.terminal = outcome /\ r.forced = Null)
  <1> DEFINE told == [r EXCEPT !.signalled = outcome]
             seen == StopProbe(told)
             dropped == [seen EXCEPT !.probeId = Null, !.open = {}]
             settled == IF outcome = "INTERRUPTED" THEN dropped
                        ELSE IF seen.open # {} THEN ForceFailure(CompleteProbe(seen), "app_server_protocol_error")
                        ELSE CompleteProbe(seen)
             code == IF settled.forced # Null THEN settled.forced ELSE outcome
  <1>0. r \in SessionRecords /\ "app_server_protocol_error" \in Failures
    BY DEF IsSound, Failures
  <1>1. /\ told \in SessionRecords /\ Follows(r, told) /\ SameCompactions(r, told) /\ told.stopped = r.stopped
        /\ told.terminal = Null /\ told.forced = r.forced /\ told.signalled = outcome
    BY <1>0 DEF SessionRecords, Follows, SameCompactions
  <1> HIDE DEF told
  <1>2. /\ Follows(told, seen) /\ SameCompactions(told, seen) /\ seen.stopped /\ seen \in SessionRecords
        /\ seen.terminal = Null /\ seen.forced = r.forced /\ seen.signalled = outcome
    BY <1>1, StopProbeFacts DEF Follows
  <1>3. Follows(r, seen) /\ IsSound(seen)
    <2>1. SameCompactions(r, seen)
      BY <1>1, <1>2 DEF SameCompactions
    <2> QED
      BY <1>1, <1>2, <2>1, FollowsTrans, SameCompactionsSound
  <1>4. q = Finish(settled, code)
    BY DEF HandleTerminal, seen, told
  <1> HIDE DEF seen
  <1>5. /\ Follows(seen, settled) /\ settled.signalled = outcome /\ settled.terminal = Null
        /\ IsPaired(settled.stream) /\ (settled.probeId # Null => settled.stopped)
        /\ outcome # "INTERRUPTED" /\ settled.forced = Null => OpenAtEnd(settled.stream) = {}
        /\ settled.forced # Null \/ r.forced = Null
    <2>1. CASE outcome = "INTERRUPTED"
      <3>1. settled = dropped
        BY <2>1
      <3>2. /\ dropped \in SessionRecords /\ dropped.step = seen.step /\ dropped.pending = seen.pending
            /\ dropped.turnKnown = seen.turnKnown /\ dropped.forced = seen.forced
            /\ dropped.terminal = seen.terminal
            /\ dropped.stream = seen.stream /\ dropped.probeId = Null /\ dropped.signalled = seen.signalled
        BY <1>2 DEF SessionRecords
      <3> HIDE DEF dropped, settled
      <3>3. Follows(seen, dropped)
        BY <3>2 DEF Follows
      <3> QED
        BY <1>2, <1>3, <2>1, <3>1, <3>2, <3>3 DEF IsSound
    <2>2. CASE outcome # "INTERRUPTED"
      <3> DEFINE ended == CompleteProbe(seen)
      <3>1. /\ Follows(seen, ended) /\ IsSound(ended) /\ ended.probeId = Null /\ ended.open = seen.open
            /\ ended.forced = r.forced /\ ended.terminal = Null /\ ended.signalled = outcome
        BY <1>2, <1>3, CompleteProbeFacts
      <3>2. settled = IF seen.open # {} THEN ForceFailure(ended, "app_server_protocol_error") ELSE ended
        BY <2>2
      <3> HIDE DEF ended, settled
      <3>3. OpenAtEnd(ended.stream) = ended.open /\ ended \in SessionRecords
        BY <3>1 DEF IsSound, Running
      <3>4. CASE seen.open = {}
        BY <3>1, <3>2, <3>3, <3>4 DEF IsSound
      <3>5. CASE seen.open # {}
        <4>1. settled = ForceFailure(ended, "app_server_protocol_error")
          BY <3>2, <3>5
        <4>2. /\ Follows(ended, settled) /\ SameCompactions(ended, settled) /\ settled.stopped
              /\ settled.forced # Null /\ settled.terminal = Null /\ settled.signalled = outcome
          BY <1>0, <3>1, <3>3, <4>1, ForceFailureFacts
        <4> QED
          BY <3>1, <4>2, FollowsTrans DEF IsSound, SameCompactions
      <3> QED
        BY <3>4, <3>5
    <2> QED
      BY <2>1, <2>2
  <1> HIDE DEF settled
  <1>6. /\ settled \in SessionRecords /\ code \in Outcomes \cup Failures
        /\ (code \in Failures \/ (code = outcome /\ settled.forced = Null))
    BY <1>5 DEF Follows, SessionRecords
  <1>7. /\ Follows(settled, q) /\ SameCompactions(settled, q) /\ (settled.stopped => q.stopped)
        /\ q.signalled = settled.signalled /\ q.terminal = code
    BY <1>4, <1>5, <1>6, FinishedFacts
  <1> HIDE DEF code
  <1>8. Follows(r, q)
    BY <1>3, <1>5, <1>7, FollowsTrans
  <1>9. q.terminal \in {"COMPLETED", "FAILED"} => OpenAtEnd(q.stream) = {}
    BY <1>5, <1>6, <1>7, NamesDiffer DEF SameCompactions, Outcomes
  <1>10. IsSound(q)
    <2>1. q.terminal # Null
      BY <1>6, <1>7, NamesDiffer
    <2> QED
      BY <1>5, <1>7, <1>9, <2>1 DEF IsSound, Follows, SameCompactions
  <1> QED
    BY <1>5, <1>6, <1>7, <1>8, <1>10

LEMMA HandleSignalSound ==
  ASSUME NEW r, IsSound(r), NEW n \in Signals, NEW q, q = HandleSignal(r, n)
  PROVE  /\ Follows(r, q) /\ IsSound(q)
         /\ r.terminal # Null => q = r
         /\ IsReroute(n) => q.forced # Null \/ q.terminal # Null
         /\ ~IsEnd(n) => q.terminal = r.terminal /\ q.signalled = r.signalled
         /\ q.signalled \in {r.signalled, n.id}
         /\ \/ q.terminal = r.terminal \/ q.terminal \in Failures
            \/ IsEnd(n) /\ q.terminal = n.id /\ r.forced = Null
  <1>0. r \in SessionRecords /\ Follows(r, r) /\ "model_policy_unavailable" \in Failures
    BY DEF IsSound, Follows, Failures
  <1>1. /\ n.method \in CompactionMethods => n.id \in Compactions
        /\ n.method \in CompactionMethods \cup {"model/rerouted", "turn/completed"}
        /\ n.own \in BOOLEAN /\ n.flaw = Null
        /\ n.method = "turn/completed" => n.id \in Outcomes
    BY SignalFacts DEF Signals
  <1>2. CASE r.terminal # Null
    BY <1>0, <1>2 DEF HandleSignal
  <1>3. CASE r.terminal = Null /\ n.method \in {"model/rerouted", "turn/completed"} /\ ~n.own
    <2>1. q = r
      BY <1>3 DEF HandleSignal
    <2> QED
      BY <1>0, <1>3, <2>1 DEF IsReroute, IsEnd
  <1>4. CASE r.terminal = Null /\ n.method = "model/rerouted" /\ n.own
    <2>1. q = ForceFailure(r, "model_policy_unavailable")
      BY <1>4 DEF HandleSignal
    <2>2. /\ Follows(r, q) /\ SameCompactions(r, q) /\ q.stopped
          /\ q.forced # Null /\ q.terminal = r.terminal /\ q.signalled = r.signalled
      BY <1>0, <2>1, ForceFailureFacts
    <2>3. IsSound(q)
      BY <2>2, SameCompactionsSound DEF Follows
    <2> QED
      BY <1>4, <2>2, <2>3 DEF IsEnd
  <1>5. CASE r.terminal = Null /\ n.method = "turn/completed" /\ n.own
    <2>1. q = HandleTerminal(r, n.id)
      BY <1>5 DEF HandleSignal
    <2>2. /\ Follows(r, q) /\ IsSound(q) /\ q.signalled = n.id
          /\ q.terminal \in Failures \/ (q.terminal = n.id /\ r.forced = Null)
      BY <1>1, <1>5, <2>1, HandleTerminalSound
    <2> QED
      BY <1>1, <1>5, <2>2 DEF IsEnd, IsReroute
  <1>6. CASE r.terminal = Null /\ n.method \in CompactionMethods
    <2>1. q = HandleCompaction(r, n) /\ ~IsReroute(n) /\ ~IsEnd(n)
      BY <1>6 DEF HandleSignal, CompactionMethods, IsReroute, IsEnd
    <2> QED
      BY <1>1, <1>6, <2>1, HandleCompactionSound
  <1> QED
    BY <1>1, <1>2, <1>3, <1>4, <1>5, <1>6

-----------------------------------------------------------------------------
(* The queues.                                                               *)

LEMMA EndFacts ==
  ASSUME NEW n \in HostNotifications
  PROVE  /\ ~(IsEnd(n) /\ IsReroute(n))
         /\ IsEnd(n) => n.id \in Outcomes
         /\ n.method = "thread/deleted" \/ ~n.own \/ n.flaw # Null => ~IsEnd(n) /\ ~IsReroute(n)
         /\ n.method \in CompactionMethods => ~IsEnd(n) /\ ~IsReroute(n)
  BY SignalFacts DEF IsEnd, IsReroute, CompactionMethods, Null

LEMMA TailQueue ==
  ASSUME NEW w \in Seq(HostNotifications), w # << >>, NEW t
  PROVE  /\ Tail(w) \in Seq(HostNotifications) /\ Head(w) \in HostNotifications
         /\ EndsAgree(w, t) => EndsAgree(Tail(w), t) /\ (IsEnd(Head(w)) => Head(w).id = t)
         /\ RerouteFirst(w, 0) /\ ~IsReroute(Head(w)) => ~IsEnd(Head(w)) /\ RerouteFirst(Tail(w), 0)
  <1> DEFINE v == Tail(w)
  <1>1. /\ v \in Seq(HostNotifications) /\ Head(w) \in HostNotifications /\ Head(w) = w[1]
        /\ Len(w) \in Nat \ {0} /\ Len(v) = Len(w) - 1 /\ \A i \in 1..Len(v) : v[i] = w[i + 1]
        /\ DOMAIN w = 1..Len(w) /\ DOMAIN v = 1..Len(v)
    OBVIOUS
  <1> HIDE DEF v
  <1>2. EndsAgree(w, t) => EndsAgree(v, t) /\ (IsEnd(Head(w)) => Head(w).id = t)
    <2> SUFFICES ASSUME EndsAgree(w, t) PROVE EndsAgree(v, t) /\ (IsEnd(Head(w)) => Head(w).id = t)
      OBVIOUS
    <2>1. \A i \in 1..Len(v) : i + 1 \in 1..Len(w)
      BY <1>1
    <2>2. 1 \in 1..Len(w)
      BY <1>1
    <2> QED
      BY <1>1, <2>1, <2>2 DEF EndsAgree
  <1>3. ASSUME RerouteFirst(w, 0), ~IsReroute(Head(w)) PROVE ~IsEnd(Head(w)) /\ RerouteFirst(v, 0)
    <2>1. PICK j \in 1..Len(w) : IsReroute(w[j]) /\ \A k \in 1..(j - 1) : ~IsEnd(w[k])
      BY <1>3 DEF RerouteFirst
    <2>2. j # 1
      BY <1>1, <1>3, <2>1
    <2>3. 1 \in 1..(j - 1) /\ j - 1 \in 1..Len(v) /\ v[j - 1] = w[j]
      BY <1>1, <2>2
    <2>4. ~IsEnd(Head(w))
      BY <1>1, <2>1, <2>3
    <2>5. \A k \in 1..(j - 1 - 1) : k + 1 \in 1..(j - 1) /\ v[k] = w[k + 1]
      BY <1>1, <2>2
    <2>6. \A k \in 1..(j - 1 - 1) : ~IsEnd(v[k])
      BY <2>1, <2>5
    <2>7. IsReroute(v[j - 1])
      BY <2>1, <2>3
    <2> QED
      BY <2>3, <2>4, <2>6, <2>7 DEF RerouteFirst
  <1> QED
    BY <1>1, <1>2, <1>3 DEF v

LEMMA AppendQueue ==
  ASSUME NEW q \in Seq(HostNotifications), NEW n \in HostNotifications, NEW t
  PROVE  /\ Append(q, n) \in Seq(HostNotifications)
         /\ EndsAgree(q, t) /\ (IsEnd(n) => n.id = t) => EndsAgree(Append(q, n), t)
         /\ NoEnd(q, 0) /\ ~IsEnd(n) => NoEnd(Append(q, n), 0)
         /\ RerouteFirst(q, 0) => RerouteFirst(Append(q, n), 0)
         /\ NoEnd(q, 0) /\ IsReroute(n) => RerouteFirst(Append(q, n), 0)
  <1> DEFINE v == Append(q, n)
  <1>1. /\ v \in Seq(HostNotifications) /\ Len(q) \in Nat /\ Len(v) = Len(q) + 1
        /\ \A i \in 1..Len(q) : v[i] = q[i]
        /\ v[Len(q) + 1] = n /\ DOMAIN q = 1..Len(q) /\ DOMAIN v = 1..(Len(q) + 1)
    OBVIOUS
  <1> HIDE DEF v
  <1>2. \A i \in 1..(Len(q) + 1) : i \in 1..Len(q) \/ i = Len(q) + 1
    BY <1>1
  <1>3. EndsAgree(q, t) /\ (IsEnd(n) => n.id = t) => EndsAgree(v, t)
    BY <1>1, <1>2 DEF EndsAgree
  <1>4. NoEnd(q, 0) /\ ~IsEnd(n) => NoEnd(v, 0)
    BY <1>1, <1>2 DEF NoEnd
  <1>5. ASSUME RerouteFirst(q, 0) PROVE RerouteFirst(v, 0)
    <2>1. PICK j \in 1..Len(q) : IsReroute(q[j]) /\ \A k \in 1..(j - 1) : ~IsEnd(q[k])
      BY <1>5 DEF RerouteFirst
    <2>2. j \in 1..Len(v) /\ IsReroute(v[j])
      BY <1>1, <2>1
    <2>3. \A k \in 1..(j - 1) : k \in 1..Len(q)
      BY <1>1
    <2>4. \A k \in 1..(j - 1) : ~IsEnd(v[k])
      BY <1>1, <2>1, <2>3
    <2> QED
      BY <2>2, <2>4 DEF RerouteFirst
  <1>6. ASSUME NoEnd(q, 0), IsReroute(n) PROVE RerouteFirst(v, 0)
    <2>1. Len(q) + 1 \in 1..Len(v) /\ IsReroute(v[Len(q) + 1])
      BY <1>1, <1>6
    <2>2. \A k \in 1..(Len(q) + 1 - 1) : k \in 1..Len(q)
      BY <1>1
    <2>3. \A k \in 1..(Len(q) + 1 - 1) : ~IsEnd(v[k])
      BY <1>1, <1>6, <2>2 DEF NoEnd
    <2> QED
      BY <2>1, <2>3 DEF RerouteFirst
  <1> QED
    BY <1>1, <1>3, <1>4, <1>5, <1>6 DEF v

(* No end is queued of a turn that has not ended.                              *)
LEMMA NoEndYet ==
  ASSUME NEW q \in Seq(HostNotifications), NEW t, t \notin Outcomes, EndsAgree(q, t)
  PROVE  NoEnd(q, 0)
  <1> SUFFICES ASSUME NEW k \in 1..Len(q), IsEnd(q[k]) PROVE FALSE
    BY DEF NoEnd
  <1>1. k \in DOMAIN q /\ q[k] \in HostNotifications
    OBVIOUS
  <1>2. q[k].id \in Outcomes
    BY <1>1, EndFacts
  <1> QED
    BY <1>1, <1>2 DEF EndsAgree

LEMMA SignalsAreNotifications ==
  Signals \subseteq HostNotifications /\ Seq(Signals) \subseteq Seq(HostNotifications)
  <1>1. Signals \subseteq HostNotifications
    BY DEF Signals
  <1> QED
    BY <1>1

-----------------------------------------------------------------------------
(* One signal, and the signals that waited.                                   *)

LEMMA OneSignal ==
  ASSUME NEW r, IsSound(r), NEW n \in Signals, NEW t, IsEnd(n) => n.id = t,
         r.signalled # Null => t = r.signalled, r.terminal \in Outcomes => t = r.terminal,
         NEW x, x = HandleSignal(r, n)
  PROVE  /\ Follows(r, x) /\ IsSound(x)
         /\ x.signalled # Null => t = x.signalled
         /\ x.terminal \in Outcomes => t = x.terminal
         /\ r.terminal \notin Outcomes /\ (IsEnd(n) => Knows(r)) => x.terminal \notin Outcomes
         /\ r.terminal \notin Outcomes /\ Knows(r) => Knows(x)
         /\ IsReroute(n) /\ x.terminal \notin Outcomes => Knows(x)
  <1>1. /\ Follows(r, x) /\ IsSound(x)
        /\ r.terminal # Null => x = r
        /\ IsReroute(n) => x.forced # Null \/ x.terminal # Null
        /\ ~IsEnd(n) => x.terminal = r.terminal /\ x.signalled = r.signalled
        /\ x.signalled \in {r.signalled, n.id}
        /\ \/ x.terminal = r.terminal \/ x.terminal \in Failures
           \/ IsEnd(n) /\ x.terminal = n.id /\ r.forced = Null
    BY HandleSignalSound
  <1>2. x.terminal \in Outcomes \cup Failures \cup {Null} /\ r.terminal \in Outcomes \cup Failures \cup {Null}
    BY <1>1 DEF IsSound, SessionRecords
  <1> QED
    BY <1>1, <1>2, NamesDiffer DEF Knows, Follows

LEMMA NextSignal ==
  ASSUME NEW s, NEW r, NEW q \in Seq(Signals), NEW i \in Nat, i < Len(q), NEW t, NEW w, NEW gone, NEW moved,
         Told(s, r, q, i, t, w, gone, moved), EndsAgree(q, t), NEW x, x = HandleSignal(r, q[i + 1])
  PROVE  Told(s, x, q, i + 1, t, w, gone, moved) /\ Follows(r, x)
  <1> DEFINE n == q[i + 1]
  <1>1. Len(q) \in Nat /\ i + 1 \in DOMAIN q /\ i + 1 \in 1..Len(q) /\ n \in Signals /\ n \in HostNotifications
    BY DEF Signals
  <1>2. IsEnd(n) => n.id = t
    BY <1>1 DEF EndsAgree
  <1>3. /\ Follows(r, x) /\ IsSound(x)
        /\ x.signalled # Null => t = x.signalled
        /\ x.terminal \in Outcomes => t = x.terminal
        /\ r.terminal \notin Outcomes /\ (IsEnd(n) => Knows(r)) => x.terminal \notin Outcomes
        /\ r.terminal \notin Outcomes /\ Knows(r) => Knows(x)
        /\ IsReroute(n) /\ x.terminal \notin Outcomes => Knows(x)
    BY <1>1, <1>2, OneSignal DEF Told
  <1>4. ASSUME s \in moved
        PROVE  /\ t # Null /\ x.terminal \notin Outcomes
               /\ Knows(x) \/ RerouteFirst(q, i + 1) \/ (NoEnd(q, i + 1) /\ (gone \/ RerouteFirst(w, 0)))
    <2>1. /\ t # Null /\ r.terminal \notin Outcomes
          /\ Knows(r) \/ RerouteFirst(q, i) \/ (NoEnd(q, i) /\ (gone \/ RerouteFirst(w, 0)))
      BY <1>4 DEF Told
    <2>2. CASE Knows(r)
      BY <1>3, <2>1, <2>2
    <2>3. CASE RerouteFirst(q, i)
      <3>1. PICK j \in (i + 1)..Len(q) : IsReroute(q[j]) /\ \A k \in (i + 1)..(j - 1) : ~IsEnd(q[k])
        BY <2>3 DEF RerouteFirst
      <3>2. CASE j = i + 1
        BY <1>1, <1>3, <2>1, <3>1, <3>2, EndFacts
      <3>3. CASE j # i + 1
        <4>1. i + 1 \in (i + 1)..(j - 1) /\ j \in (i + 1 + 1)..Len(q)
          BY <1>1, <3>3
        <4>2. ~IsEnd(n)
          BY <3>1, <4>1
        <4>3. \A k \in (i + 1 + 1)..(j - 1) : k \in (i + 1)..(j - 1)
          BY <1>1
        <4>4. RerouteFirst(q, i + 1)
          BY <3>1, <4>1, <4>3 DEF RerouteFirst
        <4> QED
          BY <1>3, <2>1, <4>2, <4>4
      <3> QED
        BY <3>2, <3>3
    <2>4. CASE NoEnd(q, i) /\ (gone \/ RerouteFirst(w, 0))
      <3>1. i + 1 \in (i + 1)..Len(q) /\ \A k \in (i + 1 + 1)..Len(q) : k \in (i + 1)..Len(q)
        BY <1>1
      <3>2. ~IsEnd(n) /\ NoEnd(q, i + 1)
        BY <2>4, <3>1 DEF NoEnd
      <3> QED
        BY <1>3, <2>1, <2>4, <3>2
    <2> QED
      BY <2>1, <2>2, <2>3, <2>4
  <1> QED
    BY <1>3, <1>4 DEF Told

(* The recursion that handles the signals that waited, step by step.           *)
LEMMA SignalSteps ==
  ASSUME NEW r, NEW q \in Seq(Signals)
  PROVE  \E after : /\ after[0] = r /\ after[Len(q)] = HandleSignals(r, q)
                    /\ \A i \in 1..Len(q) : after[i] = HandleSignal(after[i - 1], q[i])
  <1> DEFINE Solves(n, f) == f = [i \in 0..n |-> IF i = 0 THEN r ELSE HandleSignal(f[i - 1], q[i])]
             solved == {n \in Nat : \E f : Solves(n, f)}
             after == CHOOSE f : Solves(Len(q), f)
  <1>1. Len(q) \in Nat
    OBVIOUS
  <1>2. 0 \in solved
    <2>1. Solves(0, [i \in 0..0 |-> r])
      OBVIOUS
    <2> QED
      BY <2>1
  <1>3. ASSUME NEW n \in 0..Len(q), n # Len(q), n \in solved PROVE n + 1 \in solved
    <2>1. PICK f : Solves(n, f)
      BY <1>3
    <2> DEFINE g == [i \in 0..(n + 1) |-> IF i = n + 1 THEN HandleSignal(f[n], q[n + 1]) ELSE f[i]]
               h == [i \in 0..(n + 1) |-> IF i = 0 THEN r ELSE HandleSignal(g[i - 1], q[i])]
    <2> HIDE DEF Solves
    <2>2. \A i \in 0..(n + 1) : g[i] = IF i = 0 THEN r ELSE HandleSignal(g[i - 1], q[i])
      BY <1>1, <2>1 DEF Solves
    <2> HIDE DEF h
    <2>3. \A i \in 0..(n + 1) : g[i] = h[i]
      BY <2>2 DEF h
    <2>4. g = h
      BY <2>3 DEF h
    <2>5. Solves(n + 1, g) /\ n + 1 \in Nat
      BY <1>1, <2>4 DEF Solves, h
    <2> HIDE DEF g
    <2> QED
      BY <2>5
  <1>4. Len(q) \in solved
    <2> HIDE DEF solved
    <2> QED
      BY <1>1, <1>2, <1>3, CountingUp
  <1>5. after[Len(q)] = HandleSignals(r, q)
    BY DEF HandleSignals
  <1>6. Solves(Len(q), after)
    BY <1>4
  <1> HIDE DEF after
  <1>7. after = [i \in 0..Len(q) |-> IF i = 0 THEN r ELSE HandleSignal(after[i - 1], q[i])]
    BY <1>6
  <1>8. after[0] = r /\ \A i \in 1..Len(q) : after[i] = HandleSignal(after[i - 1], q[i])
    BY <1>1, <1>7
  <1> QED
    BY <1>5, <1>8

(* They are handled as one would be.                                          *)
LEMMA SignalsHandled ==
  ASSUME NEW s, NEW r, NEW q \in Seq(Signals), NEW t, NEW w, NEW gone, NEW moved,
         Told(s, r, q, 0, t, w, gone, moved), EndsAgree(q, t), NEW x, x = HandleSignals(r, q)
  PROVE  Told(s, x, q, Len(q), t, w, gone, moved) /\ Follows(r, x)
  <1>1. PICK after : /\ after[0] = r /\ after[Len(q)] = HandleSignals(r, q)
                     /\ \A i \in 1..Len(q) : after[i] = HandleSignal(after[i - 1], q[i])
    BY SignalSteps
  <1> DEFINE good == {i \in 0..Len(q) : Told(s, after[i], q, i, t, w, gone, moved) /\ Follows(r, after[i])}
  <1>2. Len(q) \in Nat
    OBVIOUS
  <1>3. 0 \in good
    BY <1>1, <1>2 DEF Told, IsSound, Follows
  <1>4. ASSUME NEW i \in 0..Len(q), i # Len(q), i \in good PROVE i + 1 \in good
    <2>1. i \in Nat /\ i < Len(q) /\ i + 1 \in 1..Len(q) /\ i + 1 - 1 = i
      BY <1>2, <1>4
    <2>2. after[i + 1] = HandleSignal(after[i], q[i + 1])
      BY <1>1, <2>1
    <2>3. Told(s, after[i + 1], q, i + 1, t, w, gone, moved) /\ Follows(after[i], after[i + 1])
      BY <1>4, <2>1, <2>2, NextSignal
    <2> QED
      BY <1>2, <1>4, <2>1, <2>3, FollowsTrans
  <1>5. Len(q) \in good
    <2> HIDE DEF good
    <2> QED
      BY <1>2, <1>3, <1>4, CountingUp
  <1> QED
    BY <1>1, <1>5

-----------------------------------------------------------------------------
(* A step that changes one session.                                          *)

LEMMA RecordFacts ==
  ASSUME TaskInv, NEW s \in Sessions
  PROVE  /\ session[s] \in SessionRecords /\ IsSound(session[s])
         /\ SessionInv(s, session[s], turn[s], wire[s], disposed, rerouted)
         /\ Told(s, session[s], session[s].pending, 0, turn[s], wire[s], disposed, rerouted)
         /\ control[s] \in ControlStates
  BY DEF TaskInv, SessionInv, Told, IsSound

(* What a step may do to a session that is told nothing.                       *)
LEMMA QuietChange ==
  ASSUME NEW s, NEW r, NEW t, NEW w, NEW gone, NEW moved, SessionInv(s, r, t, w, gone, moved),
         NEW q \in SessionRecords, SameCompactions(r, q), r.stopped => q.stopped,
         q.terminal = r.terminal \/ (r.terminal = Null /\ q.terminal \in Failures),
         q.pending = r.pending, q.turnKnown = r.turnKnown, q.signalled = r.signalled,
         r.forced # Null => q.forced # Null,
         q.step \in StepsBefore => t = Null /\ Unstarted(q)
  PROVE  SessionInv(s, q, t, w, gone, moved)
  <1>1. IsSound(q)
    BY SameCompactionsSound DEF SessionInv, Told
  <1>2. q.terminal \in Outcomes => r.terminal = q.terminal
    BY NamesDiffer
  <1>3. r.terminal \notin Outcomes /\ Knows(r) => Knows(q)
    BY NamesDiffer DEF Knows
  <1> QED
    BY <1>1, <1>2, <1>3 DEF SessionInv, Told

LEMMA OneSession ==
  ASSUME TaskInv, NEW s \in Sessions, NEW r, Becomes(s, r),
         UNCHANGED <<disposed, control, turn, wire, rerouted>>,
         SessionInv(s, r, turn[s], wire[s], disposed, rerouted), r.step \in StepsBefore => ~IsRegistered(s)
  PROVE  TaskInv'
  <1>1. session' = [session EXCEPT ![s] = r] /\ active' = IF active = s /\ r.terminal # Null THEN Null ELSE active
    BY DEF Becomes
  <1>2. /\ session' = [x \in Sessions |-> session'[x]] /\ session'[s] = r
        /\ \A x \in Sessions \ {s} : session'[x] = session[x]
    BY <1>1 DEF TaskInv
  <1>3. \A x \in Sessions : SessionInv(x, session'[x], turn[x], wire[x], disposed, rerouted)
    BY <1>2 DEF TaskInv
  <1>4. active' \in Sessions \cup {Null}
    BY <1>1 DEF TaskInv
  <1>5. ASSUME active' # Null PROVE IsOpen(active)'
    <2>1. active' = active /\ active \in Sessions /\ IsRegistered(active) /\ session[active].terminal = Null
      BY <1>1, <1>5 DEF TaskInv, IsOpen
    <2>2. CASE active = s
      <3>1. r.terminal = Null /\ r.step \notin StepsBefore
        BY <1>1, <1>5, <2>1, <2>2
      <3> QED
        BY <1>2, <2>1, <2>2, <3>1 DEF IsOpen, IsRegistered, StepsBefore
    <2>3. CASE active # s
      BY <1>2, <2>1, <2>3 DEF IsOpen, IsRegistered
    <2> QED
      BY <2>2, <2>3
  <1> QED
    BY <1>2, <1>3, <1>4, <1>5 DEF TaskInv

LEMMA NewSessionFacts ==
  /\ NewSession \in SessionRecords /\ NewSession.terminal = Null /\ NewSession.pending = << >>
  /\ IsSound(NewSession) /\ NewSession.forced = Null /\ NewSession.signalled = Null
  /\ NewSession.step = "unused" /\ Unstarted(NewSession)
  <1>1. << >> \in Seq(Signals) /\ << >> \in Seq(StreamEvents) /\ Len(<< >>) = 0
    OBVIOUS
  <1>2. NewSession \in SessionRecords
    BY <1>1 DEF NewSession, SessionRecords, StepsBefore, Null
  <1>3. /\ NewSession.terminal = Null /\ NewSession.pending = << >> /\ NewSession.forced = Null
        /\ NewSession.signalled = Null /\ NewSession.step = "unused" /\ NewSession.turnKnown = FALSE
        /\ NewSession.interrupt = Null /\ NewSession.probe = "off"
        /\ NewSession.stream = << >> /\ NewSession.open = {} /\ NewSession.probeId = Null
    BY DEF NewSession
  <1>4. IsPaired(<< >>)
    BY DEF IsPaired
  <1>5. OpenAtEnd(<< >>) = {}
    BY <1>1 DEF OpenAtEnd, OpenAfter
  <1> QED
    BY <1>2, <1>3, <1>4, <1>5 DEF IsSound, Running, Null, Unstarted

(* start begins a session anew.                                              *)
LEMMA AnewInv ==
  ASSUME TaskInv, NEW s \in Sessions, session[s].step = "unused", NEW step \in StepsBefore,
         Becomes(s, [NewSession EXCEPT !.step = step]), UNCHANGED others
  PROVE  TaskInv'
  <1> DEFINE r == [NewSession EXCEPT !.step = step]
  <1>1. /\ r \in SessionRecords /\ SameCompactions(NewSession, r) /\ r.terminal = Null /\ r.pending = << >>
        /\ r.forced = Null /\ r.signalled = Null /\ r.stopped = NewSession.stopped /\ r.step = step
        /\ Unstarted(r)
    BY NewSessionFacts DEF SessionRecords, SameCompactions, Unstarted
  <1>2. Becomes(s, r)
    OBVIOUS
  <1> HIDE DEF r
  <1>3. IsSound(r)
    BY <1>1, NewSessionFacts, SameCompactionsSound
  <1>4. turn[s] = Null /\ SessionInv(s, session[s], turn[s], wire[s], disposed, rerouted)
    BY DEF TaskInv, SessionInv, StepsBefore
  <1>5. s \notin rerouted
    BY <1>4 DEF SessionInv, Told
  <1>6. EndsAgree(r.pending, turn[s])
    BY <1>1 DEF EndsAgree
  <1>7. SessionInv(s, r, turn[s], wire[s], disposed, rerouted)
    BY <1>1, <1>3, <1>4, <1>5, <1>6, NamesDiffer DEF SessionInv, Told
  <1>8. ~IsRegistered(s)
    BY DEF IsRegistered
  <1> QED
    BY <1>2, <1>7, <1>8, OneSession DEF others, host

-----------------------------------------------------------------------------
(* The steps of start.                                                       *)

LEMMA ThreadStartedInv ==
  ASSUME TaskInv, NEW s \in Sessions, ThreadStarted(s)
  PROVE  TaskInv'
  <1> DEFINE r == [session[s] EXCEPT !.step = "turn"]
  <1>1. /\ session' = [session EXCEPT ![s] = r] /\ active' = s /\ session[s].step = "thread"
        /\ UNCHANGED <<disposed, control, turn, wire, rerouted>>
    BY DEF ThreadStarted, others, host
  <1>2. /\ r \in SessionRecords /\ SameCompactions(session[s], r) /\ r.terminal = session[s].terminal
        /\ r.pending = session[s].pending /\ r.turnKnown = session[s].turnKnown
        /\ r.signalled = session[s].signalled
        /\ r.forced = session[s].forced /\ r.stopped = session[s].stopped /\ r.step = "turn"
    BY RecordFacts DEF SessionRecords, SameCompactions, StepsBefore
  <1> HIDE DEF r
  <1>3. SessionInv(s, r, turn[s], wire[s], disposed, rerouted)
    BY <1>2, RecordFacts, QuietChange DEF StepsBefore
  <1>4. r.terminal = Null
    BY <1>1, <1>2, RecordFacts DEF SessionInv, StepsBefore, Unstarted
  <1>5. /\ session' = [x \in Sessions |-> session'[x]] /\ session'[s] = r
        /\ \A x \in Sessions \ {s} : session'[x] = session[x]
    BY <1>1 DEF TaskInv
  <1>6. \A x \in Sessions : SessionInv(x, session'[x], turn[x], wire[x], disposed, rerouted)
    BY <1>3, <1>5 DEF TaskInv
  <1>7. IsOpen(active)'
    BY <1>1, <1>2, <1>4, <1>5 DEF IsOpen, IsRegistered
  <1> QED
    BY <1>1, <1>5, <1>6, <1>7 DEF TaskInv

LEMMA ThreadRefusedInv ==
  ASSUME TaskInv, NEW s \in Sessions, ThreadRefused(s)
  PROVE  TaskInv'
  <1> DEFINE r == [session[s] EXCEPT !.step = "refused"]
  <1>1. Becomes(s, r) /\ session[s].step = "thread" /\ UNCHANGED <<disposed, control, turn, wire, rerouted>>
    BY DEF ThreadRefused, others, host
  <1>2. /\ r \in SessionRecords /\ SameCompactions(session[s], r) /\ r.terminal = session[s].terminal
        /\ r.pending = session[s].pending /\ r.turnKnown = session[s].turnKnown
        /\ r.signalled = session[s].signalled
        /\ r.forced = session[s].forced /\ r.stopped = session[s].stopped /\ r.step = "refused"
        /\ (Unstarted(session[s]) => Unstarted(r))
    BY RecordFacts DEF Unstarted, SessionRecords, SameCompactions, StepsBefore
  <1> HIDE DEF r
  <1>3. turn[s] = Null /\ Unstarted(session[s]) /\ ~IsRegistered(s)
    BY <1>1, RecordFacts DEF SessionInv, StepsBefore, IsRegistered
  <1>4. SessionInv(s, r, turn[s], wire[s], disposed, rerouted)
    BY <1>2, <1>3, RecordFacts, QuietChange
  <1> QED
    BY <1>1, <1>3, <1>4, OneSession

LEMMA TurnAnsweredInv ==
  ASSUME TaskInv, NEW s \in Sessions, TurnAnswered(s)
  PROVE  TaskInv'
  <1> DEFINE r == [session[s] EXCEPT !.step = "answered"]
  <1>1. Becomes(s, r) /\ UNCHANGED <<disposed, control, turn, wire, rerouted>>
    BY DEF TurnAnswered, others, host
  <1>2. /\ r \in SessionRecords /\ SameCompactions(session[s], r) /\ r.terminal = session[s].terminal
        /\ r.pending = session[s].pending /\ r.turnKnown = session[s].turnKnown
        /\ r.signalled = session[s].signalled
        /\ r.forced = session[s].forced /\ r.stopped = session[s].stopped /\ r.step \notin StepsBefore
    BY RecordFacts DEF SessionRecords, SameCompactions, StepsBefore
  <1> HIDE DEF r
  <1>3. SessionInv(s, r, turn[s], wire[s], disposed, rerouted)
    BY <1>2, RecordFacts, QuietChange
  <1> QED
    BY <1>1, <1>2, <1>3, OneSession

(* A session that is known ends with a failure, if it has not ended.            *)
LEMMA FinishInv ==
  ASSUME NEW s, NEW r, NEW t, NEW w, NEW gone, NEW moved, SessionInv(s, r, t, w, gone, moved),
         r.step \notin StepsBefore, NEW code \in Failures, NEW q, q = Finish(r, code)
  PROVE  SessionInv(s, q, t, w, gone, moved) /\ q.step = r.step /\ q.terminal # Null
  <1>1. r \in SessionRecords /\ code \in Outcomes \cup Failures
    BY DEF SessionInv, Told, IsSound
  <1>2. /\ Follows(r, q) /\ SameCompactions(r, q) /\ (r.stopped => q.stopped)
        /\ q.forced = r.forced /\ q.signalled = r.signalled
        /\ q.terminal = IF r.terminal = Null THEN code ELSE r.terminal
    BY <1>1, FinishedFacts
  <1>3. q \in SessionRecords /\ q.step = r.step /\ q.pending = r.pending /\ q.turnKnown = r.turnKnown
    BY <1>2 DEF Follows
  <1>4. q.terminal = r.terminal \/ (r.terminal = Null /\ q.terminal \in Failures)
    BY <1>2
  <1> QED
    BY <1>2, <1>3, <1>4, QuietChange, NamesDiffer

LEMMA TurnRefusedInv ==
  ASSUME TaskInv, NEW s \in Sessions, TurnRefused(s)
  PROVE  TaskInv'
  <1> DEFINE m == [session[s] EXCEPT !.step = "returned"]
             r == Finish(m, "app_server_request_failed")
  <1>1. Becomes(s, r) /\ UNCHANGED <<disposed, control, turn, wire, rerouted>>
    BY DEF TurnRefused, others, host
  <1>2. /\ m \in SessionRecords /\ SameCompactions(session[s], m) /\ m.terminal = session[s].terminal
        /\ m.pending = session[s].pending /\ m.turnKnown = session[s].turnKnown
        /\ m.signalled = session[s].signalled
        /\ m.forced = session[s].forced /\ m.stopped = session[s].stopped /\ m.step \notin StepsBefore
    BY RecordFacts DEF SessionRecords, SameCompactions, StepsBefore
  <1> HIDE DEF m
  <1>3. SessionInv(s, m, turn[s], wire[s], disposed, rerouted)
    BY <1>2, RecordFacts, QuietChange
  <1>4. "app_server_request_failed" \in Failures
    BY DEF Failures
  <1>5. SessionInv(s, r, turn[s], wire[s], disposed, rerouted) /\ r.step \notin StepsBefore
    BY <1>2, <1>3, <1>4, FinishInv
  <1> HIDE DEF r
  <1> QED
    BY <1>1, <1>5, OneSession

(* A failure of a session that is known.                                      *)
LEMMA ForceFailureInv ==
  ASSUME NEW s, NEW r, NEW t, NEW w, NEW gone, NEW moved, SessionInv(s, r, t, w, gone, moved),
         r.step \notin StepsBefore, NEW code \in Failures, NEW q, q = ForceFailure(r, code)
  PROVE  SessionInv(s, q, t, w, gone, moved) /\ q.step = r.step
  <1>1. r \in SessionRecords
    BY DEF SessionInv, Told, IsSound
  <1>2. /\ Follows(r, q) /\ SameCompactions(r, q) /\ q.stopped
        /\ q.forced # Null /\ q.terminal = r.terminal /\ q.signalled = r.signalled
    BY <1>1, ForceFailureFacts
  <1>3. q \in SessionRecords /\ q.step = r.step /\ q.pending = r.pending /\ q.turnKnown = r.turnKnown
    BY <1>2 DEF Follows
  <1> QED
    BY <1>2, <1>3, QuietChange

LEMMA ProbeChange ==
  ASSUME NEW s, NEW r, NEW t, NEW w, NEW gone, NEW moved, SessionInv(s, r, t, w, gone, moved),
         r.step \notin StepsBefore, NEW probe \in {"off", "scheduled", "inflight"},
         NEW q, q = [r EXCEPT !.probe = probe]
  PROVE  /\ SessionInv(s, q, t, w, gone, moved) /\ q.step = r.step /\ q.terminal = r.terminal
         /\ q.stopped = r.stopped /\ SameCompactions(r, q)
  <1>1. r \in SessionRecords
    BY DEF SessionInv, Told, IsSound
  <1>2. /\ q \in SessionRecords /\ SameCompactions(r, q) /\ q.terminal = r.terminal
        /\ q.pending = r.pending /\ q.turnKnown = r.turnKnown /\ q.signalled = r.signalled
        /\ q.forced = r.forced /\ q.stopped = r.stopped /\ q.step = r.step
    BY <1>1 DEF SessionRecords, SameCompactions
  <1> QED
    BY <1>2, QuietChange

LEMMA ScheduleProbeInv ==
  ASSUME NEW s, NEW r, NEW t, NEW w, NEW gone, NEW moved, SessionInv(s, r, t, w, gone, moved),
         r.step \notin StepsBefore, NEW next, ScheduleProbe(r, next)
  PROVE  SessionInv(s, next, t, w, gone, moved) /\ next.step = r.step
  <1>1. CASE next = r
    BY <1>1
  <1>2. CASE next = [r EXCEPT !.probe = "scheduled"]
    BY <1>2, ProbeChange
  <1>3. CASE next = ForceFailure([r EXCEPT !.probe = "off"], "compaction_probe_failed")
    <2> DEFINE m == [r EXCEPT !.probe = "off"]
    <2>1. SessionInv(s, m, t, w, gone, moved) /\ m.step = r.step /\ "compaction_probe_failed" \in Failures
      BY ProbeChange DEF Failures
    <2>2. next = ForceFailure(m, "compaction_probe_failed")
      BY <1>3
    <2> HIDE DEF m
    <2> QED
      BY <2>1, <2>2, ForceFailureInv
  <1> QED
    BY <1>1, <1>2, <1>3 DEF ScheduleProbe

LEMMA StartReturnsInv ==
  ASSUME TaskInv, NEW s \in Sessions, StartReturns(s)
  PROVE  TaskInv'
  <1> DEFINE r == session[s]
             known == [r EXCEPT !.step = "returned", !.turnKnown = TRUE, !.pending = << >>]
             handled == HandleSignals(known, r.pending)
  <1>1. PICK next : ScheduleProbe(handled, next) /\ Becomes(s, next)
    BY DEF StartReturns
  <1>2. UNCHANGED <<disposed, control, turn, wire, rerouted>>
    BY DEF StartReturns, others, host
  <1>3. << >> \in Seq(Signals)
    OBVIOUS
  <1>4. r.pending \in Seq(Signals) /\ r \in SessionRecords
    BY RecordFacts DEF SessionRecords
  <1>5. /\ known \in SessionRecords /\ SameCompactions(r, known) /\ known.terminal = r.terminal
        /\ known.pending = << >> /\ known.turnKnown = TRUE /\ known.signalled = r.signalled
        /\ known.forced = r.forced /\ known.stopped = r.stopped /\ known.step = "returned"
    BY <1>3, <1>4 DEF SessionRecords, SameCompactions
  <1> HIDE DEF known
  <1>6. Told(s, r, r.pending, 0, turn[s], wire[s], disposed, rerouted) /\ EndsAgree(r.pending, turn[s])
    BY RecordFacts DEF SessionInv
  <1>7. Told(s, known, r.pending, 0, turn[s], wire[s], disposed, rerouted)
    <2>1. IsSound(known)
      BY <1>5, <1>6, SameCompactionsSound DEF Told
    <2> QED
      BY <1>5, <1>6, <2>1 DEF Told, Knows
  <1>8. /\ Told(s, handled, r.pending, Len(r.pending), turn[s], wire[s], disposed, rerouted)
        /\ Follows(known, handled)
    BY <1>4, <1>6, <1>7, SignalsHandled
  <1> HIDE DEF handled
  <1>9. handled.step = "returned" /\ handled.pending = << >>
    BY <1>5, <1>8 DEF Follows
  <1>10. Told(s, handled, << >>, 0, turn[s], wire[s], disposed, rerouted)
    <2>1. ~RerouteFirst(r.pending, Len(r.pending)) /\ NoEnd(<< >>, 0)
      <3>1. Len(r.pending) \in Nat /\ (Len(r.pending) + 1)..Len(r.pending) = {} /\ 1..0 = {} /\ Len(<< >>) = 0
        BY <1>4
      <3> QED
        BY <3>1 DEF RerouteFirst, NoEnd
    <2> QED
      BY <1>8, <2>1 DEF Told
  <1>11. EndsAgree(<< >>, turn[s])
    BY DEF EndsAgree
  <1>12. SessionInv(s, handled, turn[s], wire[s], disposed, rerouted) /\ handled.step \notin StepsBefore
    BY <1>9, <1>10, <1>11, RecordFacts DEF SessionInv, StepsBefore
  <1>13. SessionInv(s, next, turn[s], wire[s], disposed, rerouted) /\ next.step = handled.step
    BY <1>1, <1>12, ScheduleProbeInv
  <1> QED
    BY <1>1, <1>2, <1>12, <1>13, OneSession

-----------------------------------------------------------------------------
(* Notifications.                                                            *)

(* Session r is done with the notification at the head of w: it stays as it was. *)
LEMMA NotificationPasses ==
  ASSUME NEW s, NEW r, NEW t, NEW w, NEW gone, NEW moved, SessionInv(s, r, t, w, gone, moved), w # << >>,
         s \in moved => gone \/ Knows(r) \/ ~IsReroute(Head(w))
  PROVE  SessionInv(s, r, t, Tail(w), gone, moved)
  BY TailQueue DEF SessionInv, Told

(* The notification waits until the turn is known.                            *)
LEMMA NotificationWaits ==
  ASSUME NEW s, NEW r, NEW t, NEW w, NEW gone, NEW moved, SessionInv(s, r, t, w, gone, moved), w # << >>,
         ~gone,
         NEW n \in Signals, n = Head(w), ~r.turnKnown, NEW q, q = [r EXCEPT !.pending = Append(@, n)]
  PROVE  SessionInv(s, q, t, Tail(w), gone, moved) /\ q.step = r.step
  <1>1. r \in SessionRecords /\ r.pending \in Seq(Signals) /\ Append(r.pending, n) \in Seq(Signals)
    BY DEF SessionInv, Told, IsSound, SessionRecords
  <1>2. /\ q \in SessionRecords /\ SameCompactions(r, q) /\ q.terminal = r.terminal
        /\ q.pending = Append(r.pending, n) /\ q.turnKnown = r.turnKnown /\ q.signalled = r.signalled
        /\ q.forced = r.forced /\ q.stopped = r.stopped /\ q.step = r.step
        /\ q.interrupt = r.interrupt /\ q.probe = r.probe
    BY <1>1 DEF SessionRecords, SameCompactions
  <1>3. IsSound(q)
    BY <1>2, SameCompactionsSound DEF SessionInv, Told
  <1>4. w \in Seq(HostNotifications) /\ n \in HostNotifications /\ r.pending \in Seq(HostNotifications)
    BY <1>1, SignalsAreNotifications DEF SessionInv
  <1>5. /\ Tail(w) \in Seq(HostNotifications)
        /\ EndsAgree(Tail(w), t) /\ (IsEnd(n) => n.id = t)
        /\ RerouteFirst(w, 0) /\ ~IsReroute(n) => ~IsEnd(n) /\ RerouteFirst(Tail(w), 0)
    BY <1>4, TailQueue DEF SessionInv
  <1>6. /\ EndsAgree(q.pending, t)
        /\ NoEnd(r.pending, 0) /\ ~IsEnd(n) => NoEnd(q.pending, 0)
        /\ RerouteFirst(r.pending, 0) => RerouteFirst(q.pending, 0)
        /\ NoEnd(r.pending, 0) /\ IsReroute(n) => RerouteFirst(q.pending, 0)
    BY <1>2, <1>4, <1>5, AppendQueue DEF SessionInv
  <1>7. Knows(q) <=> Knows(r)
    BY <1>2 DEF Knows
  <1>8. ASSUME s \in moved
        PROVE  /\ t # Null /\ q.terminal \notin Outcomes
               /\ Knows(q) \/ RerouteFirst(q.pending, 0) \/ (NoEnd(q.pending, 0) /\ RerouteFirst(Tail(w), 0))
    <2>1. /\ t # Null /\ r.terminal \notin Outcomes
          /\ Knows(r) \/ RerouteFirst(r.pending, 0) \/ (NoEnd(r.pending, 0) /\ RerouteFirst(w, 0))
      BY <1>8 DEF SessionInv, Told
    <2> QED
      BY <1>2, <1>5, <1>6, <1>7, <2>1
  <1>9. Told(s, q, q.pending, 0, t, Tail(w), gone, moved)
    BY <1>2, <1>3, <1>8 DEF SessionInv, Told
  <1>10. q.step \in StepsBefore => t = Null /\ Unstarted(q)
    BY <1>2 DEF SessionInv, Unstarted
  <1> QED
    BY <1>2, <1>5, <1>6, <1>9, <1>10 DEF SessionInv

(* The notification is handled at once.                                       *)
LEMMA NotificationHandled ==
  ASSUME NEW s, NEW r, NEW t, NEW w, NEW gone, NEW moved, SessionInv(s, r, t, w, gone, moved),
         w # << >>, ~gone,
         NEW n \in Signals, n = Head(w), r.turnKnown, r.step \notin StepsBefore, NEW q, q = HandleSignal(r, n)
  PROVE  SessionInv(s, q, t, Tail(w), gone, moved) /\ q.step = r.step
  <1>1. w \in Seq(HostNotifications) /\ n \in HostNotifications /\ r.pending = << >>
    BY SignalsAreNotifications DEF SessionInv
  <1>2. /\ Tail(w) \in Seq(HostNotifications)
        /\ EndsAgree(Tail(w), t) /\ (IsEnd(n) => n.id = t)
        /\ RerouteFirst(w, 0) /\ ~IsReroute(n) => ~IsEnd(n) /\ RerouteFirst(Tail(w), 0)
    BY <1>1, TailQueue DEF SessionInv
  <1>3. /\ IsSound(r) /\ (r.signalled # Null => t = r.signalled) /\ (r.terminal \in Outcomes => t = r.terminal)
    BY DEF SessionInv, Told
  <1>4. /\ Follows(r, q) /\ IsSound(q)
        /\ q.signalled # Null => t = q.signalled
        /\ q.terminal \in Outcomes => t = q.terminal
        /\ r.terminal \notin Outcomes /\ (IsEnd(n) => Knows(r)) => q.terminal \notin Outcomes
        /\ r.terminal \notin Outcomes /\ Knows(r) => Knows(q)
        /\ IsReroute(n) /\ q.terminal \notin Outcomes => Knows(q)
    BY <1>2, <1>3, OneSignal
  <1>5. q.step = r.step /\ q.pending = << >> /\ q.turnKnown = r.turnKnown
    BY <1>1, <1>4 DEF Follows
  <1>6. ~RerouteFirst(<< >>, 0) /\ NoEnd(<< >>, 0)
    <2>1. Len(<< >>) = 0 /\ 1..0 = {}
      OBVIOUS
    <2> QED
      BY <2>1 DEF RerouteFirst, NoEnd
  <1>7. ASSUME s \in moved
        PROVE  t # Null /\ q.terminal \notin Outcomes /\ (Knows(q) \/ RerouteFirst(Tail(w), 0))
    <2>1. t # Null /\ r.terminal \notin Outcomes /\ (Knows(r) \/ RerouteFirst(w, 0))
      BY <1>1, <1>6, <1>7 DEF SessionInv, Told
    <2>2. IsEnd(n) /\ ~Knows(r) => FALSE
      BY <1>1, <1>2, <2>1, EndFacts
    <2>3. q.terminal \notin Outcomes
      BY <1>4, <2>1, <2>2
    <2> QED
      BY <1>2, <1>4, <2>1, <2>3
  <1>8. Told(s, q, q.pending, 0, t, Tail(w), gone, moved)
    BY <1>4, <1>5, <1>6, <1>7 DEF Told
  <1> QED
    BY <1>2, <1>5, <1>8 DEF SessionInv, EndsAgree

LEMMA SessionsKeep ==
  ASSUME TaskInv, NEW s \in Sessions, NEW r, NEW t, NEW w,
         session' = [session EXCEPT ![s] = r], turn' = [turn EXCEPT ![s] = t], wire' = [wire EXCEPT ![s] = w],
         UNCHANGED disposed, \A x \in Sessions \ {s} : x \in rerouted' <=> x \in rerouted,
         SessionInv(s, r, t, w, disposed, rerouted')
  PROVE  /\ session' = [x \in Sessions |-> session'[x]] /\ turn' = [x \in Sessions |-> turn'[x]]
         /\ wire' = [x \in Sessions |-> wire'[x]]
         /\ session'[s] = r /\ turn'[s] = t
         /\ \A x \in Sessions \ {s} : session'[x] = session[x] /\ turn'[x] = turn[x]
         /\ \A x \in Sessions : SessionInv(x, session'[x], turn'[x], wire'[x], disposed', rerouted')
  <1>1. /\ session' = [x \in Sessions |-> session'[x]] /\ turn' = [x \in Sessions |-> turn'[x]]
        /\ wire' = [x \in Sessions |-> wire'[x]]
        /\ session'[s] = r /\ turn'[s] = t /\ wire'[s] = w
        /\ \A x \in Sessions \ {s} : session'[x] = session[x] /\ turn'[x] = turn[x] /\ wire'[x] = wire[x]
    BY DEF TaskInv
  <1>2. ASSUME NEW x \in Sessions \ {s} PROVE SessionInv(x, session[x], turn[x], wire[x], disposed, rerouted')
    BY <1>2 DEF TaskInv, SessionInv, Told
  <1> QED
    BY <1>1, <1>2

LEMMA FailAllInv ==
  ASSUME TaskInv, FailAll(session), UNCHANGED <<disposed, control, turn, rerouted>>,
         wire' = [x \in Sessions |-> wire'[x]],
         \A x \in Sessions : SessionInv(x, session[x], turn[x], wire'[x], disposed, rerouted)
  PROVE  TaskInv'
  <1>1. CASE disposed
    <2>1. session' = session /\ active' = active
      BY <1>1 DEF FailAll
    <2> QED
      BY <2>1 DEF TaskInv, IsOpen, IsRegistered
  <1>2. CASE ~disposed
    <2> DEFINE Ended(x) == IF IsRegistered(x) THEN Finish(session[x], "app_server_failed") ELSE session[x]
    <2>1. session' = [x \in Sessions |-> Ended(x)] /\ active' = Null
      BY <1>2 DEF FailAll
    <2>2. ASSUME NEW x \in Sessions PROVE SessionInv(x, Ended(x), turn[x], wire'[x], disposed, rerouted)
      <3>1. SessionInv(x, session[x], turn[x], wire'[x], disposed, rerouted) /\ "app_server_failed" \in Failures
        BY <2>2 DEF Failures
      <3>2. CASE IsRegistered(x)
        <4>1. session[x].step \notin StepsBefore /\ Ended(x) = Finish(session[x], "app_server_failed")
          BY <3>2 DEF IsRegistered, StepsBefore
        <4> QED
          BY <3>1, <4>1, FinishInv
      <3>3. CASE ~IsRegistered(x)
        BY <3>1, <3>3
      <3> QED
        BY <3>2, <3>3
    <2> HIDE DEF Ended
    <2> QED
      BY <2>1, <2>2 DEF TaskInv
  <1> QED
    BY <1>1, <1>2

LEMMA ConnectionFailsInv ==
  ASSUME TaskInv, ConnectionFails
  PROVE  TaskInv'
  <1>1. FailAll(session) /\ UNCHANGED <<disposed, control, turn, rerouted, wire>>
    BY DEF ConnectionFails, host
  <1>2. /\ wire' = [x \in Sessions |-> wire'[x]]
        /\ \A x \in Sessions : SessionInv(x, session[x], turn[x], wire'[x], disposed, rerouted)
    BY <1>1 DEF TaskInv
  <1> QED
    BY <1>1, <1>2, FailAllInv

LEMMA DeliverInv ==
  ASSUME TaskInv, NEW s \in Sessions, Deliver(s)
  PROVE  TaskInv'
  <1> DEFINE r == session[s]
             w == wire[s]
             n == Head(w)
             verdict == Project(n, IsRegistered(s), r.turnKnown)
  <1>1. /\ w # << >> /\ wire' = [wire EXCEPT ![s] = Tail(w)]
        /\ UNCHANGED <<disposed, control, turn, rerouted>>
        /\ \/ verdict = "error" /\ FailAll(session)
           \/ verdict = "drop" /\ UNCHANGED <<session, active>>
           \/ verdict = "signal" /\ Becomes(s, Receive(s, n))
    BY DEF Deliver
  <1>2. SessionInv(s, r, turn[s], w, disposed, rerouted) /\ n \in HostNotifications
    BY <1>1, RecordFacts, TailQueue DEF SessionInv
  <1>3. IsRegistered(s) <=> r.step \notin StepsBefore
    BY DEF IsRegistered, StepsBefore
  <1>4. s \in rerouted => IsRegistered(s)
    BY <1>2, <1>3 DEF SessionInv, Told
  <1>5. CASE verdict # "signal"
    <2>1. IsRegistered(s) => ~IsReroute(n)
      <3>1. IsRegistered(s) => n.method \in CompactionMethods \/ ~n.own \/ n.flaw # Null
        BY <1>5 DEF Project, Null
      <3> QED
        BY <1>2, <3>1, EndFacts
    <2>2. SessionInv(s, r, turn[s], Tail(w), disposed, rerouted)
      BY <1>1, <1>2, <1>4, <2>1, NotificationPasses
    <2>3. session' = session \/ FailAll(session)
      BY <1>1, <1>5
    <2>4. /\ wire' = [x \in Sessions |-> wire'[x]]
          /\ \A x \in Sessions : SessionInv(x, session[x], turn[x], wire'[x], disposed, rerouted)
      <3>1. /\ wire' = [x \in Sessions |-> wire'[x]] /\ wire'[s] = Tail(w)
            /\ \A x \in Sessions \ {s} : wire'[x] = wire[x]
        BY <1>1 DEF TaskInv
      <3> QED
        BY <2>2, <3>1 DEF TaskInv
    <2>5. CASE FailAll(session)
      BY <1>1, <2>4, <2>5, FailAllInv
    <2>6. CASE UNCHANGED <<session, active>>
      BY <1>1, <2>4, <2>6 DEF TaskInv, IsOpen, IsRegistered
    <2> QED
      BY <1>1, <1>5, <2>5, <2>6
  <1>6. CASE verdict = "signal"
    <2> DEFINE q == Receive(s, n)
    <2>1. IsRegistered(s) /\ n.flaw = Null /\ (n.method \in CompactionMethods => n.id # Null)
      <3>1. n.flaw \in {Null, "completedAt"} /\ (n.flaw # Null => n.method = "turn/completed")
        BY <1>2, SignalFacts
      <3> QED
        BY <1>6, <3>1 DEF Project, CompactionMethods
    <2>2. n.method # "thread/deleted" => n \in Signals
      BY <1>2, <2>1 DEF Signals
    <2>3. SessionInv(s, q, turn[s], Tail(w), disposed, rerouted) /\ q.step = r.step
      <3>1. CASE disposed \/ n.method = "thread/deleted" \/ r.terminal # Null
        <4>1. q = r
          BY <3>1 DEF Receive
        <4>2. s \in rerouted /\ r.terminal # Null => Knows(r)
          <5>1. r.terminal \in Outcomes \cup Failures \cup {Null}
            BY RecordFacts DEF SessionRecords
          <5> QED
            BY <1>2, <5>1 DEF SessionInv, Told, Knows
        <4>3. n.method = "thread/deleted" => ~IsReroute(n)
          BY DEF IsReroute
        <4> QED
          BY <1>1, <1>2, <3>1, <4>1, <4>2, <4>3, NotificationPasses
      <3>2. CASE ~disposed /\ n.method # "thread/deleted" /\ r.terminal = Null /\ ~r.turnKnown
        <4>1. q = [r EXCEPT !.pending = Append(@, n)] /\ n \in Signals
          BY <2>2, <3>2 DEF Receive
        <4> HIDE DEF q, r, n, w
        <4>2. n = Head(w) /\ w # << >> /\ ~disposed /\ ~r.turnKnown
          BY <1>1, <3>2 DEF n
        <4> QED
          BY <1>2, <4>1, <4>2, NotificationWaits
      <3>3. CASE ~disposed /\ n.method # "thread/deleted" /\ r.terminal = Null /\ r.turnKnown
        <4>1. q = HandleSignal(r, n) /\ n \in Signals /\ r.step \notin StepsBefore
          BY <1>3, <2>1, <2>2, <3>3 DEF Receive
        <4> HIDE DEF q, r, n, w
        <4>2. n = Head(w) /\ w # << >> /\ ~disposed /\ r.turnKnown
          BY <1>1, <3>3 DEF n
        <4> QED
          BY <1>2, <4>1, <4>2, NotificationHandled
      <3> QED
        BY <3>1, <3>2, <3>3
    <2>4. Becomes(s, q)
      BY <1>1, <1>6
    <2> HIDE DEF q, verdict
    <2>5. session' = [session EXCEPT ![s] = q] /\ active' = IF active = s /\ q.terminal # Null THEN Null ELSE active
      BY <2>4 DEF Becomes
    <2>6. turn' = [turn EXCEPT ![s] = turn[s]] /\ rerouted' = rerouted
      BY <1>1 DEF TaskInv
    <2>7. /\ session' = [x \in Sessions |-> session'[x]] /\ turn' = [x \in Sessions |-> turn'[x]]
          /\ wire' = [x \in Sessions |-> wire'[x]]
          /\ session'[s] = q /\ \A x \in Sessions \ {s} : session'[x] = session[x]
          /\ \A x \in Sessions : SessionInv(x, session'[x], turn'[x], wire'[x], disposed', rerouted')
      BY <1>1, <2>3, <2>5, <2>6, SessionsKeep
    <2>8. active' \in Sessions \cup {Null} /\ (active' # Null => IsOpen(active)')
      BY <2>3, <2>5, <2>7 DEF TaskInv, IsOpen, IsRegistered
    <2> QED
      BY <1>1, <2>7, <2>8 DEF TaskInv
  <1> QED
    BY <1>5, <1>6

-----------------------------------------------------------------------------
(* The probe, interruption and disposal.                                      *)

LEMMA ProbeTimerInv ==
  ASSUME TaskInv, NEW s \in Sessions, ProbeTimer(s)
  PROVE  TaskInv'
  <1> DEFINE r == [session[s] EXCEPT !.probe = "inflight"]
  <1>1. Becomes(s, r) /\ UNCHANGED <<disposed, control, turn, wire, rerouted>>
    BY DEF ProbeTimer, others, host
  <1>2. session[s].step \notin StepsBefore
    BY RecordFacts DEF ProbeTimer, SessionInv, Unstarted
  <1>3. SessionInv(s, r, turn[s], wire[s], disposed, rerouted) /\ r.step = session[s].step
    BY <1>2, RecordFacts, ProbeChange
  <1> HIDE DEF r
  <1> QED
    BY <1>1, <1>2, <1>3, OneSession

LEMMA ProbeAnswersInv ==
  ASSUME TaskInv, NEW s \in Sessions, ProbeAnswers(s)
  PROVE  TaskInv'
  <1> DEFINE r == [session[s] EXCEPT !.probe = "off"]
             failed == ForceFailure(r, "compaction_probe_failed")
             seen == [StopProbe(r) EXCEPT !.probeId = ProbeId]
             opened == Emit(seen, "STARTED", ProbeId)
  <1>1. UNCHANGED <<disposed, control, turn, wire, rerouted>> /\ session[s].probe = "inflight"
    BY DEF ProbeAnswers, others, host
  <1>2. session[s].step \notin StepsBefore
    BY <1>1, RecordFacts DEF SessionInv, Unstarted
  <1>3. /\ SessionInv(s, r, turn[s], wire[s], disposed, rerouted) /\ r.step = session[s].step
        /\ r.terminal = session[s].terminal /\ r.stopped = session[s].stopped
    BY <1>2, RecordFacts, ProbeChange
  <1>4. \/ Becomes(s, r)
        \/ /\ ~r.stopped /\ r.terminal = Null
           /\ \/ \E next : ScheduleProbe(r, next) /\ Becomes(s, next)
              \/ Becomes(s, opened) \/ Becomes(s, failed)
    BY DEF ProbeAnswers
  <1> HIDE DEF r
  <1>5. SessionInv(s, failed, turn[s], wire[s], disposed, rerouted) /\ failed.step = r.step
    <2>1. "compaction_probe_failed" \in Failures
      BY DEF Failures
    <2> QED
      BY <1>2, <1>3, <2>1, ForceFailureInv
  <1> HIDE DEF failed
  <1>6. CASE Becomes(s, r)
    BY <1>1, <1>2, <1>3, <1>6, OneSession
  <1>7. CASE Becomes(s, failed)
    BY <1>1, <1>2, <1>3, <1>5, <1>7, OneSession
  <1>8. CASE \E next : ScheduleProbe(r, next) /\ Becomes(s, next)
    <2>1. PICK next : ScheduleProbe(r, next) /\ Becomes(s, next)
      BY <1>8
    <2>2. SessionInv(s, next, turn[s], wire[s], disposed, rerouted) /\ next.step = r.step
      BY <1>2, <1>3, <2>1, ScheduleProbeInv
    <2> QED
      BY <1>1, <1>2, <1>3, <2>1, <2>2, OneSession
  <1>9. CASE Becomes(s, opened) /\ ~r.stopped /\ r.terminal = Null
    <2> DEFINE p == StopProbe(r)
    <2>1. r \in SessionRecords /\ IsSound(r)
      BY <1>3 DEF SessionInv, Told, IsSound
    <2>2. /\ Follows(r, p) /\ SameCompactions(r, p) /\ p.stopped
          /\ p.forced = r.forced /\ p.terminal = r.terminal /\ p.signalled = r.signalled
      BY <2>1, StopProbeFacts
    <2>3. r.probeId = Null
      BY <1>9, <2>1 DEF IsSound
    <2> HIDE DEF p
    <2>4. seen = [p EXCEPT !.probeId = ProbeId]
      BY DEF p
    <2>5. /\ seen \in SessionRecords /\ Follows(r, seen) /\ seen.stream = r.stream /\ seen.open = r.open
          /\ seen.probeId = ProbeId /\ seen.stopped /\ seen.forced = r.forced /\ seen.terminal = r.terminal
          /\ seen.signalled = r.signalled
      BY <2>2, <2>4 DEF SessionRecords, Follows, SameCompactions
    <2> HIDE DEF seen
    <2>6. /\ Follows(seen, opened) /\ opened.stopped /\ opened.open = r.open /\ opened.probeId = ProbeId
          /\ opened.forced = r.forced /\ opened.terminal = Null /\ opened.signalled = r.signalled
          /\ OpenAtEnd(opened.stream) = OpenAtEnd(seen.stream) \cup {ProbeId}
          /\ IsPaired(seen.stream) /\ ProbeId \notin OpenAtEnd(seen.stream) => IsPaired(opened.stream)
      BY <1>9, <2>5, EmitFacts
    <2> HIDE DEF opened
    <2>7. OpenAtEnd(seen.stream) = r.open /\ ProbeId \notin r.open
      <3>1. Running(r) = r.open
        BY <2>3 DEF Running
      <3>2. OpenAtEnd(r.stream) = Running(r)
        BY <1>9, <2>1 DEF IsSound
      <3>3. r.open \subseteq Compactions
        BY <2>1 DEF SessionRecords
      <3> QED
        BY <2>5, <3>1, <3>2, <3>3, NamesDiffer
    <2>8. IsSound(opened)
      BY <2>1, <2>5, <2>6, <2>7, NamesDiffer DEF IsSound, Follows, Running, Null
    <2>9. Follows(r, opened)
      BY <2>5, <2>6, FollowsTrans
    <2>10. SessionInv(s, opened, turn[s], wire[s], disposed, rerouted) /\ opened.step = r.step
      BY <1>2, <1>3, <1>9, <2>6, <2>8, <2>9, NamesDiffer DEF SessionInv, Told, Knows, Follows
    <2> QED
      BY <1>1, <1>2, <1>3, <1>9, <2>10, OneSession
  <1> QED
    BY <1>4, <1>6, <1>7, <1>8, <1>9

LEMMA InterruptAcceptedInv ==
  ASSUME TaskInv, NEW s \in Sessions, InterruptAccepted(s)
  PROVE  TaskInv'
  <1> DEFINE r == [session[s] EXCEPT !.interrupt = "accepted"]
  <1>1. Becomes(s, r) /\ UNCHANGED <<disposed, control, turn, wire, rerouted>> /\ session[s].interrupt = "sent"
    BY DEF InterruptAccepted, others, host
  <1>2. session[s].step \notin StepsBefore
    BY <1>1, RecordFacts DEF SessionInv, Unstarted, Null
  <1>3. /\ r \in SessionRecords /\ SameCompactions(session[s], r) /\ r.terminal = session[s].terminal
        /\ r.pending = session[s].pending /\ r.turnKnown = session[s].turnKnown
        /\ r.signalled = session[s].signalled
        /\ r.forced = session[s].forced /\ r.stopped = session[s].stopped /\ r.step = session[s].step
    BY RecordFacts DEF SessionRecords, SameCompactions
  <1> HIDE DEF r
  <1>4. SessionInv(s, r, turn[s], wire[s], disposed, rerouted)
    BY <1>2, <1>3, RecordFacts, QuietChange
  <1> QED
    BY <1>1, <1>2, <1>3, <1>4, OneSession

LEMMA InterruptRefusedInv ==
  ASSUME TaskInv, NEW s \in Sessions, InterruptRefused(s)
  PROVE  TaskInv'
  <1> DEFINE m == [session[s] EXCEPT !.interrupt = "refused"]
             r == Finish(m, "app_server_request_failed")
  <1>1. Becomes(s, r) /\ UNCHANGED <<disposed, control, turn, wire, rerouted>> /\ session[s].interrupt = "sent"
    BY DEF InterruptRefused, others, host
  <1>2. session[s].step \notin StepsBefore
    BY <1>1, RecordFacts DEF SessionInv, Unstarted, Null
  <1>3. /\ m \in SessionRecords /\ SameCompactions(session[s], m) /\ m.terminal = session[s].terminal
        /\ m.pending = session[s].pending /\ m.turnKnown = session[s].turnKnown
        /\ m.signalled = session[s].signalled
        /\ m.forced = session[s].forced /\ m.stopped = session[s].stopped /\ m.step = session[s].step
    BY RecordFacts DEF SessionRecords, SameCompactions
  <1> HIDE DEF m
  <1>4. SessionInv(s, m, turn[s], wire[s], disposed, rerouted) /\ "app_server_request_failed" \in Failures
    BY <1>2, <1>3, RecordFacts, QuietChange DEF Failures
  <1>5. SessionInv(s, r, turn[s], wire[s], disposed, rerouted) /\ r.step = session[s].step
    BY <1>2, <1>3, <1>4, FinishInv
  <1> HIDE DEF r
  <1> QED
    BY <1>1, <1>2, <1>5, OneSession

(* A step of the thread control port: a receipt is given for an interrupted turn. *)
LEMMA ControlChange ==
  ASSUME TaskInv, NEW s \in Sessions, NEW reply \in ControlStates, control' = [control EXCEPT ![s] = reply],
         reply \in {"receipt", "persisted"} => turn[s] = "INTERRUPTED", UNCHANGED turn
  PROVE  /\ control' \in [Sessions -> ControlStates]
         /\ \A x \in Sessions : control'[x] \in {"receipt", "persisted"} => turn'[x] = "INTERRUPTED"
  BY DEF TaskInv

LEMMA InterruptInv ==
  ASSUME TaskInv, NEW s \in Sessions, Interrupt(s)
  PROVE  TaskInv'
  <1> DEFINE r == RequestInterrupt(session[s])
  <1>1. /\ Becomes(s, r) /\ UNCHANGED <<disposed, turn, wire, rerouted>> /\ session[s].turnKnown
        /\ control' = [control EXCEPT ![s] = "waiting"]
    BY DEF Interrupt, host
  <1>2. session[s].step \notin StepsBefore
    BY <1>1, RecordFacts DEF SessionInv, Unstarted
  <1>3. /\ Follows(session[s], r) /\ SameCompactions(session[s], r) /\ r.stopped = session[s].stopped
        /\ r.forced = session[s].forced /\ r.terminal = session[s].terminal /\ r.signalled = session[s].signalled
    BY RecordFacts, RequestInterruptFacts
  <1>4. /\ r \in SessionRecords /\ r.step = session[s].step
        /\ r.pending = session[s].pending /\ r.turnKnown = session[s].turnKnown
    BY <1>3 DEF Follows
  <1> HIDE DEF r
  <1>5. SessionInv(s, r, turn[s], wire[s], disposed, rerouted)
    BY <1>2, <1>3, <1>4, RecordFacts, QuietChange
  <1>6. /\ control' \in [Sessions -> ControlStates]
        /\ \A x \in Sessions : control'[x] \in {"receipt", "persisted"} => turn'[x] = "INTERRUPTED"
    BY <1>1, ControlChange DEF ControlStates
  <1>7. session' = [session EXCEPT ![s] = r] /\ active' = IF active = s /\ r.terminal # Null THEN Null ELSE active
    BY <1>1 DEF Becomes
  <1>8. /\ turn' = [turn EXCEPT ![s] = turn[s]] /\ wire' = [wire EXCEPT ![s] = wire[s]]
        /\ \A x \in Sessions \ {s} : x \in rerouted' <=> x \in rerouted
    BY <1>1 DEF TaskInv
  <1>9. /\ session' = [x \in Sessions |-> session'[x]] /\ turn' = [x \in Sessions |-> turn'[x]]
        /\ wire' = [x \in Sessions |-> wire'[x]]
        /\ session'[s] = r /\ \A x \in Sessions \ {s} : session'[x] = session[x]
        /\ \A x \in Sessions : SessionInv(x, session'[x], turn'[x], wire'[x], disposed', rerouted')
    <2>1. rerouted' = rerouted /\ UNCHANGED disposed
      BY <1>1
    <2>2. SessionInv(s, r, turn[s], wire[s], disposed, rerouted')
      BY <1>5, <2>1
    <2> QED
      BY <1>7, <1>8, <2>1, <2>2, SessionsKeep
  <1>10. active' \in Sessions \cup {Null} /\ (active' # Null => IsOpen(active)')
    BY <1>2, <1>4, <1>7, <1>9 DEF TaskInv, IsOpen, IsRegistered
  <1> QED
    BY <1>1, <1>6, <1>9, <1>10 DEF TaskInv

LEMMA InterruptReturnsInv ==
  ASSUME TaskInv, NEW s \in Sessions, InterruptReturns(s)
  PROVE  TaskInv'
  <1> DEFINE reply == IF session[s].signalled = "INTERRUPTED" THEN "receipt" ELSE "refused"
  <1>1. /\ control' = [control EXCEPT ![s] = reply]
        /\ UNCHANGED <<disposed, turn, wire, rerouted, session, active>>
    BY DEF InterruptReturns, host
  <1>2. reply \in {"receipt", "persisted"} => turn[s] = "INTERRUPTED"
    BY RecordFacts DEF Told, Null
  <1>3. reply \in ControlStates
    BY DEF ControlStates
  <1> HIDE DEF reply
  <1>4. /\ control' \in [Sessions -> ControlStates]
        /\ \A x \in Sessions : control'[x] \in {"receipt", "persisted"} => turn'[x] = "INTERRUPTED"
    BY <1>1, <1>2, <1>3, ControlChange
  <1> QED
    BY <1>1, <1>4 DEF TaskInv, IsOpen, IsRegistered

LEMMA InspectInv ==
  ASSUME TaskInv, NEW s \in Sessions, Inspect(s)
  PROVE  TaskInv'
  <1>1. PICK reply \in {"persisted", "refused"} : control' = [control EXCEPT ![s] = reply]
    BY DEF Inspect
  <1>2. control[s] = "receipt" /\ UNCHANGED <<disposed, turn, wire, rerouted, session, active>>
    BY DEF Inspect, host
  <1>3. turn[s] = "INTERRUPTED" /\ reply \in ControlStates
    BY <1>2 DEF TaskInv, ControlStates
  <1>4. /\ control' \in [Sessions -> ControlStates]
        /\ \A x \in Sessions : control'[x] \in {"receipt", "persisted"} => turn'[x] = "INTERRUPTED"
    BY <1>1, <1>2, <1>3, ControlChange
  <1> QED
    BY <1>2, <1>4 DEF TaskInv, IsOpen, IsRegistered

(* Disposal ends no session, and no session hears of anything after it.         *)
LEMMA DisposeInv ==
  ASSUME TaskInv, Dispose
  PROVE  TaskInv'
  <1>1. /\ session' = [s \in Sessions |-> StopProbe(session[s])] /\ disposed' = TRUE
        /\ UNCHANGED <<active, control, turn, wire, rerouted>>
    BY DEF Dispose, host
  <1>2. ASSUME NEW s \in Sessions
        PROVE  /\ SessionInv(s, session'[s], turn[s], wire[s], TRUE, rerouted)
               /\ session'[s].step = session[s].step /\ session'[s].terminal = session[s].terminal
    <2> DEFINE r == session[s]
               q == StopProbe(r)
    <2>1. /\ Follows(r, q) /\ SameCompactions(r, q) /\ q.stopped
          /\ q.forced = r.forced /\ q.terminal = r.terminal /\ q.signalled = r.signalled
          /\ q.interrupt = r.interrupt
      BY RecordFacts, StopProbeFacts
    <2>2. q.probe = "off" \/ q.probe = r.probe
      BY RecordFacts DEF StopProbe, SessionRecords
    <2>3. session'[s] = q
      BY <1>1
    <2> HIDE DEF q
    <2>4. q \in SessionRecords /\ q.step = r.step /\ q.pending = r.pending /\ q.turnKnown = r.turnKnown
      BY <2>1 DEF Follows
    <2>5. SessionInv(s, r, turn[s], wire[s], disposed, rerouted)
      BY RecordFacts
    <2>6. Unstarted(r) => Unstarted(q)
      BY <2>1, <2>2, <2>4 DEF Unstarted
    <2>7. SessionInv(s, q, turn[s], wire[s], disposed, rerouted)
      BY <2>1, <2>4, <2>5, <2>6, QuietChange DEF SessionInv
    <2>8. SessionInv(s, q, turn[s], wire[s], TRUE, rerouted)
      BY <2>7 DEF SessionInv, Told
    <2> QED
      BY <2>1, <2>3, <2>4, <2>8
  <1> QED
    BY <1>1, <1>2 DEF TaskInv, IsOpen, IsRegistered

-----------------------------------------------------------------------------
(* The host.                                                                 *)

LEMMA HostChange ==
  ASSUME TaskInv, NEW s \in Sessions, NEW t, NEW w, turn[s] # "INTERRUPTED",
         turn' = [turn EXCEPT ![s] = t], wire' = [wire EXCEPT ![s] = w],
         UNCHANGED <<disposed, control, session, active>>,
         rerouted' \subseteq Sessions, \A x \in Sessions \ {s} : x \in rerouted' <=> x \in rerouted,
         SessionInv(s, session[s], t, w, disposed, rerouted')
  PROVE  TaskInv'
  <1>1. session' = [session EXCEPT ![s] = session[s]]
    BY DEF TaskInv
  <1>2. /\ session' = [x \in Sessions |-> session'[x]] /\ turn' = [x \in Sessions |-> turn'[x]]
        /\ wire' = [x \in Sessions |-> wire'[x]] /\ \A x \in Sessions \ {s} : turn'[x] = turn[x]
        /\ \A x \in Sessions : SessionInv(x, session'[x], turn'[x], wire'[x], disposed', rerouted')
    BY <1>1, SessionsKeep
  <1>3. \A x \in Sessions : control'[x] \in {"receipt", "persisted"} => turn'[x] = "INTERRUPTED"
    BY <1>2 DEF TaskInv
  <1> QED
    BY <1>2, <1>3 DEF TaskInv, IsOpen, IsRegistered

LEMMA HostStartsTurnInv ==
  ASSUME TaskInv, NEW s \in Sessions, HostStartsTurn(s)
  PROVE  TaskInv'
  <1>1. /\ turn[s] = Null /\ turn' = [turn EXCEPT ![s] = "alive"] /\ wire' = [wire EXCEPT ![s] = wire[s]]
        /\ UNCHANGED <<disposed, control, session, active, rerouted>> /\ session[s].step = "turn"
    BY DEF HostStartsTurn, adapter, TaskInv
  <1> DEFINE r == session[s]
             w == wire[s]
  <1>2. SessionInv(s, r, Null, w, disposed, rerouted) /\ r \in SessionRecords /\ turn[s] # "INTERRUPTED"
    BY <1>1, RecordFacts DEF Null
  <1>3. s \notin rerouted /\ r.signalled = Null /\ r.terminal \notin Outcomes
    BY <1>2, NamesDiffer DEF SessionInv, Told
  <1>4. w \in Seq(HostNotifications) /\ r.pending \in Seq(HostNotifications)
    BY <1>2, SignalsAreNotifications DEF SessionInv, SessionRecords
  <1>5. EndsAgree(w, "alive") /\ EndsAgree(r.pending, "alive")
    <2>1. \A q \in Seq(HostNotifications) : EndsAgree(q, Null) => EndsAgree(q, "alive")
      <3> SUFFICES ASSUME NEW q \in Seq(HostNotifications), EndsAgree(q, Null), NEW i \in DOMAIN q, IsEnd(q[i])
                   PROVE  q[i].id = "alive"
        BY DEF EndsAgree
      <3>1. q[i] \in HostNotifications /\ q[i].id = Null
        BY DEF EndsAgree
      <3> QED
        BY <3>1, EndFacts, NamesDiffer
    <2> QED
      BY <1>2, <1>4, <2>1 DEF SessionInv
  <1>6. SessionInv(s, r, "alive", w, disposed, rerouted)
    BY <1>1, <1>2, <1>3, <1>5 DEF SessionInv, Told, TurnStates, StepsBefore
  <1>7. rerouted' \subseteq Sessions /\ \A x \in Sessions \ {s} : x \in rerouted' <=> x \in rerouted
    BY <1>1 DEF TaskInv
  <1> HIDE DEF r, w
  <1>8. SessionInv(s, session[s], "alive", wire[s], disposed, rerouted')
    BY <1>1, <1>6 DEF r, w
  <1> QED
    BY <1>1, <1>2, <1>7, <1>8, HostChange

(* A notification of a turn that has not ended: of a reroute the session hears    *)
(* before any end.                                                          *)
LEMMA HostNotifiesInv ==
  ASSUME TaskInv, NEW s \in Sessions, HostNotifies(s)
  PROVE  TaskInv'
  <1> DEFINE r == session[s]
             w == wire[s]
  <1>1. PICK n \in Notifications :
          /\ wire' = [wire EXCEPT ![s] = Append(w, n)]
          /\ rerouted' = IF n.method = "model/rerouted" /\ n.own THEN rerouted \cup {s} ELSE rerouted
    BY DEF HostNotifies, Sends
  <1>2. /\ turn[s] = "alive" /\ turn' = [turn EXCEPT ![s] = "alive"]
        /\ UNCHANGED <<disposed, control, session, active>>
    BY DEF HostNotifies, adapter, TaskInv
  <1>3. n \in HostNotifications /\ ~IsEnd(n)
    <2>1. n \in HostNotifications
      BY DEF HostNotifications
    <2>2. n.method = "turn/completed" => ~n.own \/ n.flaw # Null
      BY NoEndWhileAlive
    <2> QED
      BY <2>1, <2>2 DEF IsEnd
  <1>4. SessionInv(s, r, "alive", w, disposed, rerouted) /\ r \in SessionRecords
    BY <1>2, RecordFacts
  <1>5. w \in Seq(HostNotifications) /\ r.pending \in Seq(HostNotifications) /\ "alive" \notin Outcomes
    BY <1>4, SignalsAreNotifications DEF SessionInv, SessionRecords, Outcomes
  <1>6. NoEnd(w, 0) /\ NoEnd(r.pending, 0)
    BY <1>4, <1>5, NoEndYet DEF SessionInv
  <1>7. /\ Append(w, n) \in Seq(HostNotifications) /\ EndsAgree(Append(w, n), "alive")
        /\ RerouteFirst(w, 0) => RerouteFirst(Append(w, n), 0)
        /\ IsReroute(n) => RerouteFirst(Append(w, n), 0)
    BY <1>3, <1>4, <1>5, <1>6, AppendQueue DEF SessionInv
  <1>8. r.terminal \notin Outcomes
    BY <1>4, <1>5 DEF SessionInv, Told
  <1>9. s \in rerouted' => s \in rerouted \/ IsReroute(n)
    BY <1>1 DEF IsReroute
  <1>10. SessionInv(s, r, "alive", Append(w, n), disposed, rerouted')
    BY <1>4, <1>6, <1>7, <1>8, <1>9 DEF SessionInv, Told, Null
  <1>11. rerouted' \subseteq Sessions /\ \A x \in Sessions \ {s} : x \in rerouted' <=> x \in rerouted
    BY <1>1 DEF TaskInv
  <1> QED
    BY <1>1, <1>2, <1>10, <1>11, HostChange

LEMMA HostEndsTurnInv ==
  ASSUME TaskInv, NEW s \in Sessions, HostEndsTurn(s)
  PROVE  TaskInv'
  <1> DEFINE r == session[s]
             w == wire[s]
  <1>1. PICK outcome \in Outcomes :
          /\ turn' = [turn EXCEPT ![s] = outcome]
          /\ wire' = [wire EXCEPT ![s] = Append(w, Notification("turn/completed", outcome, TRUE))]
    BY DEF HostEndsTurn, Sends
  <1> DEFINE n == Notification("turn/completed", outcome, TRUE)
  <1>2. turn[s] = "alive" /\ UNCHANGED <<disposed, control, session, active, rerouted>>
    BY DEF HostEndsTurn, adapter
  <1>3. n \in HostNotifications /\ n.id = outcome /\ IsEnd(n)
    BY DEF HostNotifications, Notification, IsEnd
  <1> HIDE DEF n
  <1>4. SessionInv(s, r, "alive", w, disposed, rerouted) /\ r \in SessionRecords
    BY <1>2, RecordFacts
  <1>5. w \in Seq(HostNotifications) /\ r.pending \in Seq(HostNotifications) /\ "alive" \notin Outcomes
    BY <1>4, SignalsAreNotifications DEF SessionInv, SessionRecords, Outcomes
  <1>6. NoEnd(w, 0) /\ NoEnd(r.pending, 0)
    BY <1>4, <1>5, NoEndYet DEF SessionInv
  <1>7. EndsAgree(w, outcome) /\ EndsAgree(r.pending, outcome)
    <2>1. \A q \in Seq(HostNotifications) : NoEnd(q, 0) => EndsAgree(q, outcome)
      BY DEF NoEnd, EndsAgree
    <2> QED
      BY <1>5, <1>6, <2>1
  <1>8. /\ Append(w, n) \in Seq(HostNotifications) /\ EndsAgree(Append(w, n), outcome)
        /\ RerouteFirst(w, 0) => RerouteFirst(Append(w, n), 0)
    BY <1>3, <1>5, <1>7, AppendQueue
  <1>9. r.signalled = Null /\ r.terminal \notin Outcomes /\ r.step \notin StepsBefore
    BY <1>4, <1>5 DEF SessionInv, Told, SessionRecords, Null
  <1>10. SessionInv(s, r, outcome, Append(w, n), disposed, rerouted)
    BY <1>4, <1>7, <1>8, <1>9, NamesDiffer DEF SessionInv, Told, TurnStates
  <1>11. rerouted' \subseteq Sessions /\ \A x \in Sessions \ {s} : x \in rerouted' <=> x \in rerouted
    BY <1>2 DEF TaskInv
  <1>12. SessionInv(s, session[s], outcome, Append(w, n), disposed, rerouted')
    BY <1>2, <1>10
  <1> QED
    BY <1>1, <1>2, <1>11, <1>12, HostChange DEF n

-----------------------------------------------------------------------------
(* The theorems.                                                             *)

LEMMA TaskInitHolds == TaskInit => TaskInv
  <1> SUFFICES ASSUME TaskInit PROVE TaskInv
    OBVIOUS
  <1>1. /\ << >> \in Seq(HostNotifications) /\ EndsAgree(<< >>, Null)
    BY DEF EndsAgree
  <1>2. ASSUME NEW s \in Sessions PROVE SessionInv(s, session[s], turn[s], wire[s], disposed, rerouted)
    <2>1. session[s] = NewSession /\ turn[s] = Null /\ wire[s] = << >> /\ rerouted = {}
      BY DEF TaskInit
    <2> QED
      BY <1>1, <2>1, NewSessionFacts, NamesDiffer DEF SessionInv, Told, TurnStates
  <1> QED
    BY <1>2 DEF TaskInit, TaskInv, ControlStates, Null

LEMMA TaskNextKeeps == TaskInv /\ [TaskNext]_taskVars => TaskInv'
  <1> SUFFICES ASSUME TaskInv, [TaskNext]_taskVars PROVE TaskInv'
    OBVIOUS
  <1>1. CASE UNCHANGED taskVars
    BY <1>1 DEF taskVars, adapter, host, TaskInv, IsOpen, IsRegistered
  <1>2. CASE ConnectionFails \/ Dispose
    BY <1>2, ConnectionFailsInv, DisposeInv
  <1>3. ASSUME NEW s \in Sessions, RequestRefused(s) \/ BusyRefused(s) \/ Start(s) PROVE TaskInv'
    <2>1. PICK step \in {"thread", "refused"} : Becomes(s, [NewSession EXCEPT !.step = step])
      BY <1>3 DEF RequestRefused, BusyRefused, Start
    <2>2. session[s].step = "unused" /\ UNCHANGED others
      BY <1>3 DEF RequestRefused, BusyRefused, Start
    <2> QED
      BY <2>1, <2>2, AnewInv DEF StepsBefore
  <1>4. ASSUME NEW s \in Sessions,
               \/ ThreadStarted(s) \/ ThreadRefused(s) \/ TurnAnswered(s) \/ TurnRefused(s) \/ StartReturns(s)
               \/ Deliver(s) \/ ProbeTimer(s) \/ ProbeAnswers(s)
        PROVE  TaskInv'
    BY <1>4, ThreadStartedInv, ThreadRefusedInv, TurnAnsweredInv, TurnRefusedInv, StartReturnsInv,
       DeliverInv, ProbeTimerInv, ProbeAnswersInv
  <1>5. ASSUME NEW s \in Sessions,
               \/ InterruptAccepted(s) \/ InterruptRefused(s) \/ Interrupt(s) \/ InterruptReturns(s) \/ Inspect(s)
               \/ HostStartsTurn(s) \/ HostNotifies(s) \/ HostEndsTurn(s)
        PROVE  TaskInv'
    BY <1>5, InterruptAcceptedInv, InterruptRefusedInv, InterruptInv, InterruptReturnsInv, InspectInv,
       HostStartsTurnInv, HostNotifiesInv, HostEndsTurnInv
  <1> QED
    BY <1>1, <1>2, <1>3, <1>4, <1>5 DEF TaskNext

(* Every session of CodexAppServerDevelopmentTask has yet to hear what the host   *)
(* told of its turn, or acted upon it, however answers and notifications cross.   *)
THEOREM TaskIsConsistent == TaskSpec => []TaskInv
  BY TaskInitHolds, TaskNextKeeps, PTL DEF TaskSpec

(* The stream of handleCompactionSignal and the probe starts no compaction twice,  *)
(* completes only what it started, and the active task is one that has not ended. *)
THEOREM TaskStreamIsSound == TaskSpec => []StreamIsSound
  <1>1. TaskInv => StreamIsSound
    <2> SUFFICES ASSUME TaskInv PROVE TaskTypeOK /\ StreamIsPaired
      BY DEF StreamIsSound
    <2>1. StreamIsPaired
      BY RecordFacts DEF StreamIsPaired, IsSound
    <2>2. ASSUME NEW s \in Sessions
          PROVE  /\ session[s].step \in {"unused", "thread", "turn", "answered", "returned", "refused"}
                 /\ session[s].probe \in {"off", "scheduled", "inflight"}
                 /\ session[s].open \subseteq Compactions
                 /\ control[s] \in {Null, "waiting", "receipt", "persisted", "refused"}
                 /\ turn[s] \in {Null, "alive"} \cup Outcomes
      <3>1. session[s] \in SessionRecords /\ control[s] \in ControlStates /\ turn[s] \in TurnStates
        BY RecordFacts DEF SessionInv
      <3> QED
        BY <3>1 DEF SessionRecords, StepsBefore, ControlStates, TurnStates
    <2>3. active \in Sessions \cup {Null} /\ (active # Null => IsOpen(active))
      BY DEF TaskInv
    <2> QED
      BY <2>1, <2>2, <2>3 DEF TaskTypeOK
  <1> QED
    BY <1>1, TaskIsConsistent, PTL

(* handleTurnTerminal gives a receipt for the outcome of the task's own turn, not  *)
(* while a compaction is open nor when the host moved the turn to another model.   *)
THEOREM TaskReceiptsAreEarned == TaskSpec => []ReceiptsAreEarned
  <1>1. TaskInv => ReceiptsAreEarned
    <2> SUFFICES ASSUME TaskInv, NEW s \in Sessions, session[s].terminal \in Outcomes
                 PROVE  /\ turn[s] = session[s].terminal
                        /\ turn[s] # "INTERRUPTED" => OpenAtEnd(session[s].stream) = {}
                        /\ s \notin rerouted
      BY DEF ReceiptsAreEarned, OpenAtEnd
    <2> QED
      BY RecordFacts DEF Told, IsSound, Outcomes
  <1> QED
    BY <1>1, TaskIsConsistent, PTL

(* interrupt answers with a receipt, and inspect with a persisted thread, only if   *)
(* the turn was interrupted.                                                   *)
THEOREM TaskInterruptReceipts == TaskSpec => []InterruptReceiptMeansStopped
  <1>1. TaskInv => InterruptReceiptMeansStopped
    BY DEF TaskInv, InterruptReceiptMeansStopped
  <1> QED
    BY <1>1, TaskIsConsistent, PTL
=============================================================================
