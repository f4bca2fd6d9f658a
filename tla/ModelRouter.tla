----------------------------- MODULE ModelRouter -----------------------------
(***************************************************************************)
(* ModelRouter (model-policy/model-router.ts): the one model and effort a role *)
(* of work runs with, if the capability snapshot of the host, which has a        *)
(* lifetime, offers exactly that.                                            *)
(*                                                                         *)
(* A snapshot: [schema_version, source, captured_at, expires_at, models], its    *)
(* models a sequence of [model, reasoning_efforts].  Times are numbers, Null      *)
(* when they cannot be read.                                                 *)
(***************************************************************************)
EXTENDS Naturals, Sequences, Functions

CONSTANT Null  \* no value

Required == [model |-> "gpt-5.6-sol", effort |-> "max"]

(* MODEL_POLICY_TABLE                                                       *)
Policy ==
  [DEVELOPMENT |-> Required, CONTINUATION |-> Required,
   COMPRESSION |-> [Required EXCEPT !.effort = "medium"], DETERMINISTIC |-> Null]

(* A model with a name and efforts, none of them empty or named twice.           *)
ModelIsValid(m) ==
  /\ m.model # "" /\ m.reasoning_efforts # << >>
  /\ \A i \in DOMAIN m.reasoning_efforts : m.reasoning_efforts[i] # ""
  /\ IsInjective(m.reasoning_efforts)

(* parseCapabilitySnapshot: the head of the snapshot, its age, then its models.    *)
HeadIsValid(snapshot) ==
  /\ snapshot.schema_version = 1 /\ snapshot.source # ""
  /\ snapshot.captured_at # Null /\ snapshot.expires_at # Null
  /\ snapshot.captured_at < snapshot.expires_at

ModelsAreValid(models) ==
  /\ \A i \in DOMAIN models : ModelIsValid(models[i])
  /\ IsInjective([i \in DOMAIN models |-> models[i].model])

Offers(snapshot, decision, withEffort) ==
  \E i \in DOMAIN snapshot.models :
    /\ snapshot.models[i].model = decision.model
    /\ withEffort => \E j \in DOMAIN snapshot.models[i].reasoning_efforts :
                       snapshot.models[i].reasoning_efforts[j] = decision.effort

(* The reasons for which resolve refuses, in the order it finds them; Null for a   *)
(* check that passes.  A clock that cannot be read is Null.                      *)
Reasons(role, snapshot, now) ==
  LET reason(fails, name) == IF fails THEN name ELSE Null
      dated == now # Null /\ HeadIsValid(snapshot)
  IN <<reason(now = Null, "clock_unavailable"),
       reason(~HeadIsValid(snapshot), "invalid_capability_snapshot"),
       reason(dated /\ now < snapshot.captured_at, "future_capability_snapshot"),
       reason(dated /\ now >= snapshot.expires_at, "expired_capability_snapshot"),
       reason(~ModelsAreValid(snapshot.models), "invalid_capability_snapshot"),
       reason(~Offers(snapshot, Policy[role], FALSE), "model_unavailable"),
       reason(~Offers(snapshot, Policy[role], TRUE), "reasoning_effort_unavailable")>>

FirstOf(reasons) ==
  LET given == {i \in DOMAIN reasons : reasons[i] # Null}
  IN IF given = {} THEN Null ELSE reasons[CHOOSE i \in given : \A j \in given : i <= j]

(* Why the role cannot be resolved, Null if it can; its decision is then the one    *)
(* of the policy.                                                           *)
Refusal(role, snapshot, now) ==
  IF role \notin DOMAIN Policy THEN "unknown_role"
  ELSE IF Policy[role] = Null THEN Null
  ELSE FirstOf(Reasons(role, snapshot, now))

=============================================================================
