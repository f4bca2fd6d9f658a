---------------------------- MODULE MCWriteLease ----------------------------
(* Small instances of WriteLease for TLC. *)
EXTENDS WriteLease, TLC

CONSTANTS p1, p2, l1, l2

MCProcesses == {p1, p2}
MCLeases    == {l1, l2}

\* No action tells one process, or one lease id, from another.
LeaseSymmetry == Permutations(MCProcesses) \cup Permutations(MCLeases)

=============================================================================
