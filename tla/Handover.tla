------------------------------- MODULE Handover -------------------------------
(***************************************************************************)
(* What the relay promises of the right to write the workspace: one task   *)
(* at a time has it, nobody gets it while another one has it, and a task   *)
(* that lost it never has it again.                                        *)
(***************************************************************************)
CONSTANTS Tasks, First

VARIABLE right  \* right[t]: "none", "held" or "lost"

TypeOK == right \in [Tasks -> {"none", "held", "lost"}]

Holders == {t \in Tasks : right[t] = "held"}

Init == right = [t \in Tasks |-> IF t = First THEN "held" ELSE "none"]

\* A task is given the right, or is given one that was lost before it came.
Give(t) ==
  /\ right[t] = "none"
  /\ \/ Holders = {} /\ right' = [right EXCEPT ![t] = "held"]
     \/ right' = [right EXCEPT ![t] = "lost"]

Take == Holders # {} /\ right' = [t \in Tasks |-> IF right[t] = "held" THEN "lost" ELSE right[t]]

Next == Take \/ \E t \in Tasks : Give(t)

Spec == Init /\ [][Next]_right
=============================================================================
