--------------------------- MODULE RunTransitions ---------------------------
(***************************************************************************)
(* The Run state machine of the Slice Controller as pure operators: which  *)
(* status may follow which (state/transitions.ts), what a transition may   *)
(* change besides the status, and the record it produces                   *)
(* (state/file-run-store.ts: applyStateUpdates, assertMetadataTransition). *)
(*                                                                         *)
(* A Run is reduced to the fields some rule of the store looks at.  The    *)
(* fields the store only copies (workspace identity, digests, lease owner, *)
(* write epoch, handoff paths) live in the modules of their components.    *)
(***************************************************************************)
EXTENDS Naturals

CONSTANTS
  Slices,     \* slice ids a plan may name
  Baselines,  \* protected baseline digests, one per slice start
  Threads     \* task (thread) ids

None == "none"   \* null, or an absent optional field

OperationalStatuses ==
  {"PREPARING", "SLICE_RUNNING", "COMPACTION_WAIT", "SOURCE_INTERRUPTING",
   "HANDOFF_EXPORTING", "CONTINUATION_STARTING"}

LegacyAcceptanceStatuses == {"VERIFYING", "COMMITTING", "CHECKPOINTING"}

TerminalStatuses == {"DONE", "ABORTED"}

RunStatuses ==
  OperationalStatuses \cup LegacyAcceptanceStatuses \cup TerminalStatuses
    \cup {"IDLE", "PAUSED", "NEEDS_USER"}

ForwardTransitions(from) ==
  CASE from = "IDLE"                  -> {"PREPARING"}
    [] from = "PREPARING"             -> {"SLICE_RUNNING"}
    [] from = "SLICE_RUNNING"         -> {"PREPARING", "DONE", "COMPACTION_WAIT"}
    [] from = "COMPACTION_WAIT"       -> {"SLICE_RUNNING", "SOURCE_INTERRUPTING"}
    [] from = "SOURCE_INTERRUPTING"   -> {"HANDOFF_EXPORTING"}
    [] from = "HANDOFF_EXPORTING"     -> {"CONTINUATION_STARTING"}
    [] from = "CONTINUATION_STARTING" -> {"SLICE_RUNNING"}
    [] from \in {"PAUSED", "NEEDS_USER"} -> OperationalStatuses
    [] OTHER                          -> {}

LegacyReplayTransitions(from) ==
  CASE from = "SLICE_RUNNING" -> {"VERIFYING"}
    [] from = "VERIFYING"     -> {"COMMITTING", "CHECKPOINTING", "PAUSED", "NEEDS_USER"}
    [] from = "COMMITTING"    -> {"CHECKPOINTING", "PAUSED", "NEEDS_USER"}
    [] from = "CHECKPOINTING" -> {"SLICE_RUNNING", "DONE", "PAUSED", "NEEDS_USER"}
    [] from \in {"PAUSED", "NEEDS_USER"} -> LegacyAcceptanceStatuses
    [] OTHER                  -> {}

\* The two actions that keep the status.
IsSameStatusActionAllowed(status, action) ==
  \/ status = "HANDOFF_EXPORTING" /\ action = "mark_handoff_attempted"
  \/ /\ status \notin TerminalStatuses \cup LegacyAcceptanceStatuses
     /\ action = "override_slice_commit_mode"

IsRunTransitionAllowed(from, to, action) ==
  IF from = to THEN IsSameStatusActionAllowed(from, action)
  ELSE /\ from \notin TerminalStatuses
       /\ from \in LegacyAcceptanceStatuses => to = "ABORTED"
       /\ \/ to \in ForwardTransitions(from)
          \/ to \in {"ABORTED", "NEEDS_USER"}
          \/ to = "PAUSED" /\ from # "NEEDS_USER"

IsRunTransitionReplayCompatible(from, to, action) ==
  \/ IsRunTransitionAllowed(from, to, action)
  \/ to \in LegacyReplayTransitions(from)

-----------------------------------------------------------------------------
\* The Run record.

CommitModes == {"after_slice", "none"}

\* "open": a compaction gate is recorded; "attempted": its one handoff attempt
\* was claimed.
CompactionGates == {None, "open", "attempted"}

\* Statuses a PAUSED run may come back to (decodeRunState).
ResumableStatuses == RunStatuses \ {"PAUSED", "NEEDS_USER", "DONE", "ABORTED"}

\* The values decodeRunState accepts for each field a transition may update.
\* slice_commit_mode_overrides maps every slice to a mode, "plan" meaning that
\* the map has no entry for it.
FieldValues(field) ==
  CASE field = "current_slice_id"            -> Slices \cup {None}
    [] field = "protected_baseline_digest"   -> Baselines
    [] field = "source_thread_id"            -> Threads \cup {None}
    [] field = "compaction"                  -> CompactionGates
    [] field = "paused_from_status"          -> ResumableStatuses \cup {None}
    [] field = "last_successful_status"      -> RunStatuses \cup {None}
    [] field = "slice_commit_mode_overrides" -> [Slices -> CommitModes \cup {"plan"}]
    [] OTHER                                 -> {}

RunStates ==
  [state_version: Nat,
   status: RunStatuses,
   current_slice_id: FieldValues("current_slice_id"),
   protected_baseline_digest: FieldValues("protected_baseline_digest"),
   source_thread_id: FieldValues("source_thread_id"),
   compaction: FieldValues("compaction"),
   paused_from_status: FieldValues("paused_from_status"),
   last_successful_status: FieldValues("last_successful_status"),
   slice_commit_mode_overrides: FieldValues("slice_commit_mode_overrides")]

\* A requested transition: updates is a partial function from fields to values.
IsTransition(t) ==
  /\ t.to \in RunStatuses
  /\ \A field \in DOMAIN t.updates : t.updates[field] \in FieldValues(field)

InitialRunState(slice, baseline) ==
  [state_version |-> 0,
   status |-> "IDLE",
   current_slice_id |-> slice,
   protected_baseline_digest |-> baseline,
   source_thread_id |-> None,
   compaction |-> None,
   paused_from_status |-> None,
   last_successful_status |-> None,
   slice_commit_mode_overrides |-> [s \in Slices |-> "plan"]]

-----------------------------------------------------------------------------
\* What a transition may change besides the status.

\* The status a paused or failed run was interrupted in.
EffectiveStatus(s) ==
  CASE s.status = "PAUSED"     -> s.paused_from_status
    [] s.status = "NEEDS_USER" -> s.last_successful_status
    [] OTHER                   -> s.status

CurrentSliceWasDispatched(s) ==
  LET e == EffectiveStatus(s)
  IN  /\ e # None
      /\ e # "IDLE"
      /\ e = "PREPARING" => s.source_thread_id # None

ChangedOverrides(before, after) ==
  {k \in Slices : before.slice_commit_mode_overrides[k] # after.slice_commit_mode_overrides[k]}

\* A slice and its protected baseline are replaced together, and only when a
\* slice starts.
SliceIdentityAllowed(before, after) ==
  LET baselineChanged ==
        before.protected_baseline_digest # after.protected_baseline_digest
  IN  /\ baselineChanged <=> (before.current_slice_id # after.current_slice_id)
      /\ baselineChanged =>
           /\ after.status = "SLICE_RUNNING"
           /\ before.status \in {"PREPARING", "CHECKPOINTING"}
           /\ after.current_slice_id # None

\* An override touches exactly one entry, never that of a dispatched slice.
OverrideAllowed(before, after) ==
  \E k \in Slices :
    /\ ChangedOverrides(before, after) = {k}
    /\ after = [before EXCEPT
                  !.state_version = @ + 1,
                  !.slice_commit_mode_overrides = after.slice_commit_mode_overrides]
    /\ k = before.current_slice_id => ~CurrentSliceWasDispatched(before)

\* A handoff claim turns an open gate into an attempted one and nothing else.
HandoffClaimAllowed(before, after) ==
  /\ before.status = "HANDOFF_EXPORTING"
  /\ before.compaction = "open"
  /\ after = [before EXCEPT !.state_version = @ + 1, !.compaction = "attempted"]

MetadataTransitionAllowed(before, after, action) ==
  /\ SliceIdentityAllowed(before, after)
  /\ before.status = after.status =>
       IF action = "override_slice_commit_mode" /\ before.status \notin TerminalStatuses
       THEN OverrideAllowed(before, after)
       ELSE action = "mark_handoff_attempted" /\ HandoffClaimAllowed(before, after)

-----------------------------------------------------------------------------
\* The successor record, and whether the store accepts it.

Updated(t, field, old) == IF field \in DOMAIN t.updates THEN t.updates[field] ELSE old

AppliedUpdates(s, t) ==
  [state_version |-> s.state_version + 1,
   status |-> t.to,
   current_slice_id |-> Updated(t, "current_slice_id", s.current_slice_id),
   protected_baseline_digest |->
     Updated(t, "protected_baseline_digest", s.protected_baseline_digest),
   source_thread_id |-> Updated(t, "source_thread_id", s.source_thread_id),
   compaction |-> Updated(t, "compaction", s.compaction),
   paused_from_status |-> Updated(t, "paused_from_status", s.paused_from_status),
   last_successful_status |->
     Updated(t, "last_successful_status", s.last_successful_status),
   slice_commit_mode_overrides |->
     Updated(t, "slice_commit_mode_overrides", s.slice_commit_mode_overrides)]

ApplyAllowed(s, t) ==
  /\ IsRunTransitionAllowed(s.status, t.to, t.action)
  /\ MetadataTransitionAllowed(s, AppliedUpdates(s, t), t.action)

=============================================================================
