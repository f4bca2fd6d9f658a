----------------------------- MODULE MCTaskLaunch -----------------------------
(***************************************************************************)
(* Three threads, which is one failed compression task, a second one and its      *)
(* continuation, and a crash.  Two grants under way at once, two epochs.          *)
(***************************************************************************)
EXTENDS TaskLaunch
CONSTANTS g1, g2, a1, a2
TwoGranters == {g1, g2}
TwoAddresses == {a1, a2}
TwoEpochs == {1, 2}
ThreeThreads == 1..3

Item(type) == [type |-> type, phase |-> Null, text |-> Null, flaw |-> Null]
Message(phase, text) == [type |-> "agentMessage", phase |-> phase, text |-> text, flaw |-> Null]
Ending(status, items) == [status |-> status, items |-> items, flaw |-> Null]

(* A final answer before a comment, two plain messages, one that links nothing,     *)
(* nothing, a tool call, an item and a turn that do not decode, an interrupted turn. *)
SomeEndings ==
  {Ending("completed", <<Message("final_answer", a1), Message("commentary", a2)>>),
   Ending("completed", <<Item("reasoning"), Message(Null, "prose")>>),
   Ending("completed", <<[Item("fileChange") EXCEPT !.flaw = Flaw("id", "string")],
                         Message(Null, a1), Message(Null, a2)>>),
   Ending("completed", <<[Item("commandExecution") EXCEPT !.flaw = Flaw("exitCode", "number")]>>),
   [Ending("completed", <<Message(Null, a1)>>) EXCEPT !.flaw = Flaw("itemsView", "unknown")],
   Ending("interrupted", <<Message("final_answer", a1)>>)}

SomeRootFlaws == {Flaw("turns", "null"), Flaw("sessionId", "missing")}
SomeTurnAnswers ==
  {Ending("inProgress", << >>), Ending("completed", << >>),
   [Ending("inProgress", << >>) EXCEPT !.flaw = Flaw("completedAt", "missing")]}

Skill(enabled) == [name |-> ExportSkill, enabled |-> enabled, flaw |-> Null]
Entry(skills, errors) == [cwd |-> SourceCwd, errors |-> errors, skills |-> skills]
OtherEntry == [cwd |-> "other", errors |-> FALSE,
               skills |-> <<[Skill(TRUE) EXCEPT !.flaw = Flaw("scope", "unknown")]>>]
SomeSkillLists ==
  {<<Entry(<<Skill(TRUE)>>, FALSE)>>, <<Entry(<<Skill(FALSE)>>, FALSE)>>,
   <<Entry(<<Skill(TRUE)>>, TRUE)>>, <<Entry(<<Skill(TRUE), Skill(TRUE)>>, FALSE)>>,
   <<Entry(<<Skill(TRUE)>>, FALSE), Entry(<< >>, FALSE)>>,
   <<Entry(<<Skill(TRUE)>>, FALSE), OtherEntry>>}
=============================================================================
