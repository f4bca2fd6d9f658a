--------------------------- MODULE MCEffectLedger ---------------------------
(* A small instance of EffectLedger for TLC: one key of each version. *)
EXTENDS EffectLedger, TLC

CONSTANTS p1, p2, k1, k2, d1, d2, r1, r2

MCProcesses == {p1, p2}
MCKeys == {k1, k2}
MCPayloads == {d1, d2}
MCReceipts == {r1, r2}
MCVersionOf == (k1 :> 0) @@ (k2 :> 1)

Symmetry == Permutations(MCProcesses) \cup Permutations(MCPayloads) \cup Permutations(MCReceipts)

=============================================================================
