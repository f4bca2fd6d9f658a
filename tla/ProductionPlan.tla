---------------------------- MODULE ProductionPlan ----------------------------
(***************************************************************************)
(* parseProductionPlanV1 (production/plan-parser.ts) and the task inputs of   *)
(* production/prompt-builder.ts.                                             *)
(*                                                                         *)
(* A plan is a record of its fields; keys is "exact" when no field is missing or   *)
(* unknown at any level that is checked for that.  What is wrong with the texts of *)
(* a slice or with its contract is named by the slice's flaw: Null, "shape", a     *)
(* path outside of the workspace, "text", or an id that cannot stand in a prompt.  *)
(***************************************************************************)
EXTENDS ModelRouter

CONSTANT MaximumSlices  \* MAXIMUM_SLICES

CommitModes == {"after_slice", "none"}

(* parseCapabilities: the canonical timestamps and strings of a snapshot; its age   *)
(* and the models' names are the router's business.                              *)
CapabilitiesParse(capabilities) ==
  /\ capabilities.schema_version = 1 /\ capabilities.source # ""
  /\ capabilities.captured_at # Null /\ capabilities.expires_at # Null
  /\ \A i \in DOMAIN capabilities.models : capabilities.models[i].model # ""

FieldsAreValid(plan) ==
  /\ plan.keys = "exact" /\ plan.schema_version = 1
  /\ plan.run_id # "unstable" /\ plan.commit_mode \in CommitModes
  /\ Len(plan.slices) \in 1..MaximumSlices

(* parseSlice, parseContract                                                 *)
SliceFailure(slice) ==
  IF slice.flaw = "outside" THEN "path_outside_workspace"
  ELSE IF slice.flaw \in {"shape", "text"} THEN "production_plan_invalid" ELSE Null

(* buildDevelopmentPrompt: one sentence, which must hold the slice's id.           *)
PromptFailure(slice) == IF slice.flaw = "prompt" THEN "development_prompt_invalid" ELSE Null

(* The failures of a plan in the order in which they are looked for.               *)
Failures(plan, now) ==
  LET each(Failure(_)) == FirstOf([i \in DOMAIN plan.slices |-> Failure(plan.slices[i])])
      roles == <<"DEVELOPMENT", "CONTINUATION", "COMPRESSION">>
  IN <<IF FieldsAreValid(plan) /\ CapabilitiesParse(plan.model_capabilities) THEN Null
       ELSE "production_plan_invalid",
       each(SliceFailure),
       IF IsInjective([i \in DOMAIN plan.slices |-> plan.slices[i].slice_id]) THEN Null
       ELSE "production_plan_invalid",
       each(PromptFailure),
       IF \E i \in DOMAIN roles : Refusal(roles[i], plan.model_capabilities, now) # Null
       THEN "model_policy_unavailable" ELSE Null>>

ParseFailure(plan, now) == FirstOf(Failures(plan, now))

=============================================================================
