-------------------------- MODULE MCProductionRuntime --------------------------
(***************************************************************************)
(* One process at a time, so that what is found needs no race, and a plan of two  *)
(* slices beside plans that are refused.                                      *)
(***************************************************************************)
EXTENDS ProductionRuntime
CONSTANT i1
OneInvocation == {i1}

Models == <<[model |-> "gpt-5.6-sol", reasoning_efforts |-> <<"medium", "max">>]>>
Capabilities ==
  [schema_version |-> 1, source |-> "host", captured_at |-> 0, expires_at |-> 3, models |-> Models]
SliceOf(id) == [slice_id |-> id, flaw |-> Null]
GoodPlan ==
  [keys |-> "exact", schema_version |-> 1, run_id |-> "run", commit_mode |-> "after_slice",
   model_capabilities |-> Capabilities, slices |-> <<SliceOf("s1"), SliceOf("s2")>>]

SomePlans ==
  {GoodPlan, [GoodPlan EXCEPT !.slices = <<SliceOf("s1"), SliceOf("s1")>>],
   [GoodPlan EXCEPT !.slices[2].flaw = "outside"],
   [GoodPlan EXCEPT !.model_capabilities.models[1].reasoning_efforts = <<"max">>]}

SomeTimings == {[duration |-> 3, interval |-> 1], [duration |-> 2, interval |-> 1]}
=============================================================================
