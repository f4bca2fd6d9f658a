----------------------------- MODULE MCRunStore -----------------------------
(* Small instances of RunStore for TLC. *)
EXTENDS RunStore, TLC

CONSTANTS p1, p2

MCProcesses == {p1, p2}
Symmetry == Permutations(MCProcesses)

MCSlices    == {"s1", "s2"}
MCBaselines == {"b1", "b2"}
MCThreads   == {"t1"}

MCInitialRun == InitialRunState("s1", "b1")

NoUpdates == [f \in {} |-> None]

BeginPreparing == [action |-> "begin_preparing", to |-> "PREPARING", updates |-> NoUpdates]
StartSlice ==
  [action |-> "start_slice", to |-> "SLICE_RUNNING",
   updates |-> ("current_slice_id" :> "s2") @@ ("protected_baseline_digest" :> "b2")
                 @@ ("source_thread_id" :> "t1")]
OverrideSecondSlice ==
  [action |-> "override_slice_commit_mode", to |-> "PREPARING",
   updates |-> "slice_commit_mode_overrides" :>
                 [s \in MCSlices |-> IF s = "s2" THEN "none" ELSE "plan"]]
Abort == [action |-> "abort", to |-> "ABORTED", updates |-> NoUpdates]

MCTransitions == {BeginPreparing, StartSlice, OverrideSecondSlice, Abort}

=============================================================================
