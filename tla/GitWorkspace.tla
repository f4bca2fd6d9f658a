----------------------------- MODULE GitWorkspace -----------------------------
(****************************************************************************)
(* A Git worktree as the controller sees it, and the operators of            *)
(* controller/workspace/git-change-guard.ts that decide who owns a change.    *)
(*                                                                           *)
(* Git itself is external: commits, the branch head, the caller's index and   *)
(* the working tree.  Anyone on the machine (the Development Task, a process  *)
(* a check left behind, the user) edits, stages and commits at any time; only *)
(* the number of these steps is bounded.  A snapshot is NOT atomic: the guard  *)
(* runs one git process for the head, two for the list of changed paths, and   *)
(* then four readings for each path in turn, and the world moves in between.   *)
(*                                                                           *)
(* A file's bytes are a small number; file modes, symbolic links, renames and *)
(* unmerged index stages are not told apart.                                  *)
(****************************************************************************)
EXTENDS Naturals, Sequences, FiniteSets

CONSTANTS
  Paths,       \* repository paths
  Owned,       \* the paths the Slice contract owns
  Fresh,       \* the paths no commit holds at first
  Checkpoint,  \* SESSION_CHECKPOINT.md
  MaxEdits     \* bound: steps of others on the worktree

ASSUME PathsAssumption ==
  /\ Owned \subseteq Paths /\ Fresh \subseteq Paths
  /\ Checkpoint \in Paths \ (Owned \cup Fresh)
ASSUME MaxEditsAssumption == MaxEdits \in Nat

VARIABLES
  commits,  \* sequence of commits: parent (0: none), tree, the finishSlice call (0: others)
  head,     \* the commit HEAD names
  index,    \* the caller's index
  work,     \* the working tree
  edits,    \* steps taken by others so far
  capture   \* a snapshot being taken: what the worktree was, and became, since its first process

gitVars == <<commits, head, index, work, edits, capture>>
repository == <<commits, head, index, work, edits>>

None == "none"
Absent == 0
Bytes == {1, 2}
Document(h) == 10 + h   \* the checkpoint document that names commit h

HeadTree == commits[head].tree

(* The worktree at one moment.                                               *)
View == [head |-> head, index |-> index, work |-> work]
HeadEntry(v, p) == commits[v.head].tree[p]

(* git diff HEAD lists what the index tracks and the worktree changed, and    *)
(* what the index dropped; ls-files --others what the index does not have.    *)
IsTracked(v, p) ==
  IF v.index[p] = Absent THEN HeadEntry(v, p) # Absent ELSE v.work[p] # HeadEntry(v, p)
IsUntracked(v, p) == v.index[p] = Absent /\ v.work[p] # Absent
Changed == {p \in Paths : IsTracked(View, p) \/ IsUntracked(View, p)}

(* git diff HEAD -- path: an untracked file has no patch at all.              *)
CombinedPatch(v, p) ==
  [from |-> HeadEntry(v, p), to |-> IF v.index[p] = Absent THEN Absent ELSE v.work[p]]

-----------------------------------------------------------------------------
(* Snapshots.                                                                *)

NoCapture == << >>
NoSnapshot == [head |-> 0, entries |-> << >>]

(* The first process reads the head; those that follow are numbered: the two   *)
(* lists, then the four readings of each path, in the order paths sort in.     *)
ReadHead == capture = NoCapture /\ capture' = <<View>>
Rank == CHOOSE f \in [Paths -> 1..Cardinality(Paths)] : \A p, q \in Paths : p # q => f[p] # f[q]
Readings == 0..(4 * Cardinality(Paths) + 2)  \* the last one: after them all

(* The snapshot that comes out when reading first[k] is the first to meet the  *)
(* k-th state of the worktree.                                                *)
SnapshotOf(first) ==
  LET Met(i)  == capture[1 + Cardinality({k \in DOMAIN first : first[k] <= i})]
      paths   == {p \in Paths : IsTracked(Met(0), p) \/ IsUntracked(Met(1), p)}
      Turn(p) == 4 * Rank[p] - 2
  IN [head    |-> capture[1].head,
      entries |-> [p \in paths |->
        [head  |-> HeadEntry(Met(Turn(p)), p),
         index |-> Met(Turn(p) + 1).index[p],
         work  |-> Met(Turn(p) + 2).work[p],
         patch |-> CombinedPatch(Met(Turn(p) + 3), p)]]]
Snapshots ==
  {SnapshotOf(first) : first \in
    {f \in [2..Len(capture) -> Readings] : \A k \in DOMAIN f : k > 2 => f[k - 1] <= f[k]}}

(* What the capture in progress may return: any git process may fail, and then *)
(* the whole capture does.                                                    *)
Captured == IF capture = NoCapture THEN {} ELSE {NoSnapshot} \cup Snapshots

-----------------------------------------------------------------------------
(* Classification of the changes since a baseline.                           *)

IsOwned(p) == p \in Owned
Listed(snapshot) == DOMAIN snapshot.entries

(* Fault for the mutation runs: an owned path is the Slice's own even where it  *)
(* was dirty before the Slice.                                                *)
ClassifyByNameAlone(baseline, current) ==
  LET before == Listed(baseline)
      after  == Listed(current)
      kept   == {p \in before \cap after : baseline.entries[p] = current.entries[p]}
  IN [headChanged |-> baseline.head # current.head,
      protected   |-> kept,
      overlap     |-> {p \in before \ kept : ~IsOwned(p)},
      owned       |-> {p \in after \ kept : IsOwned(p)},
      unowned     |-> {p \in after \ before : ~IsOwned(p)}]

Classify(baseline, current) ==
  LET before == Listed(baseline)
      after  == Listed(current)
      kept   == {p \in before \cap after : baseline.entries[p] = current.entries[p]}
  IN [headChanged |-> baseline.head # current.head,
      protected   |-> kept,
      overlap     |-> before \ kept,
      owned       |-> {p \in after \ before : IsOwned(p)},
      unowned     |-> {p \in after \ before : ~IsOwned(p)}]

IsCommittable(changes) ==
  ~changes.headChanged /\ changes.overlap = {} /\ changes.unowned = {}

(* The patch names the exact snapshots it was derived from.                   *)
PatchOf(baseline, current) ==
  LET paths == Classify(baseline, current).owned
  IN [head |-> current.head, baseline |-> baseline, current |-> current,
      paths |-> paths, entries |-> [p \in paths |-> current.entries[p]]]
NoPatch == [head |-> 0, baseline |-> NoSnapshot, current |-> NoSnapshot, paths |-> {}, entries |-> << >>]

-----------------------------------------------------------------------------
(* Git's own operations and the steps of everyone else.                      *)

FirstTree == [p \in Paths |-> IF p \in Fresh THEN Absent ELSE 1]

GitInit ==
  /\ commits = <<[parent |-> 0, tree |-> FirstTree, call |-> 0]>>
  /\ head = 1
  /\ index = FirstTree
  /\ \E dirty \in SUBSET (Paths \ (Fresh \cup {Checkpoint})) :
       Cardinality(dirty) <= 1 /\ work = [p \in Paths |-> IF p \in dirty THEN 2 ELSE FirstTree[p]]
  /\ edits = 0
  /\ capture = NoCapture

AppendCommit(tree, call) ==
  /\ commits' = Append(commits, [parent |-> head, tree |-> tree, call |-> call])
  /\ head' = Len(commits) + 1

Write(p, bytes) ==
  /\ work[p] # bytes
  /\ work' = [work EXCEPT ![p] = bytes]
  /\ UNCHANGED <<commits, head, index>>

Stage(p) ==
  /\ index[p] # work[p]
  /\ index' = [index EXCEPT ![p] = work[p]]
  /\ UNCHANGED <<commits, head, work>>

(* git commit --only of some paths, as the agent or the user would run it.    *)
CommitPaths(set) ==
  LET tree == [p \in Paths |-> IF p \in set THEN work[p] ELSE HeadTree[p]]
  IN /\ tree # HeadTree
     /\ AppendCommit(tree, 0)
     /\ index' = [p \in Paths |-> IF p \in set THEN work[p] ELSE index[p]]
     /\ UNCHANGED work

Others ==
  /\ edits < MaxEdits
  /\ edits' = edits + 1
  /\ \/ \E p \in Paths, bytes \in Bytes \cup {Absent} : Write(p, bytes)
     \/ \E p \in Owned : Stage(p)
     \/ \E p \in Changed : CommitPaths({p})
     \/ CommitPaths(Changed \ {Checkpoint})
  /\ capture' = IF capture = NoCapture THEN NoCapture ELSE Append(capture, View')

(* The commits HEAD can reach: histories here are linear.                     *)
IsAncestor(c, d) == c <= d

GitTypeOK ==
  /\ \A c \in DOMAIN commits :
       /\ commits[c].parent \in 0..(c - 1)
       /\ DOMAIN commits[c].tree = Paths
       /\ commits[c].call \in Nat
  /\ head \in DOMAIN commits
  /\ DOMAIN index = Paths /\ DOMAIN work = Paths
  /\ edits \in 0..MaxEdits
  /\ Len(capture) <= edits + 1
  /\ \A i \in DOMAIN capture : capture[i].head \in DOMAIN commits
=============================================================================
