---------------------------- MODULE MCRunControl ----------------------------
(* Small instances of RunControl for TLC. *)
EXTENDS RunControl, TLC

CONSTANTS p1, p2, l1, l2

MCControllers == {p1, p2}
MCLeases == {l1, l2}
MCErrors == {"project_lock_unavailable", "model_policy_unavailable"}
MCResolutions == {"supply_model_policy", "release_stale_project_lock", "abort_run"}
MCModes == {"none"}
MCWorkStatuses == {"PREPARING", "SLICE_RUNNING"}

Symmetry == Permutations(MCControllers) \cup Permutations(MCLeases)

=============================================================================
