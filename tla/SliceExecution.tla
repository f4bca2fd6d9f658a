---------------------------- MODULE SliceExecution ----------------------------
(****************************************************************************)
(* One Slice from its start to a verified, owned patch: SliceExecutor          *)
(* (controller/slices/slice-executor.ts), SliceVerifier (slices/verifier.ts)   *)
(* and the caller that derives the patch to finish with, as                    *)
(* scripts/run-s12-e2e.mjs does.                                              *)
(*                                                                           *)
(* Every method is a sequence of steps: a snapshot is taken path by path (see   *)
(* GitWorkspace), each check runs as a process (see CheckProcess), and others  *)
(* edit the worktree in between.  The Project Write Lease is a flag here:       *)
(* assertWritable answers whether the lease this execution got is still        *)
(* writable (module WriteLease says when it is).                              *)
(****************************************************************************)
EXTENDS GitWorkspace, CheckProcess

CONSTANTS
  Checks,     \* number of checks in the contract
  Artifact    \* the path the contract expects as an artifact

ASSUME ChecksAssumption == Checks \in Nat \ {0}
ASSUME ArtifactAssumption == Artifact \in Paths

VARIABLES
  pc,            \* where the caller is
  lease,         \* the lease of this execution is writable
  answer,        \* the last answer: a code, and what it says of the commit
  receipts,      \* outcomes of the checks so far
  baseline,      \* the protected baseline of the execution
  snapshot,      \* the workspace snapshot of the execution receipt
  verification,  \* the verification receipt
  patch          \* the owned patch the caller derived

executionVars == <<pc, lease, answer, receipts, baseline, snapshot, verification, patch>>

NoVerification == [result |-> None, code |-> None, patch |-> NoPatch]
Answer(code) == [code |-> code, created |-> FALSE, start |-> 0, end |-> 0]
Ends(code) == pc' = "done" /\ answer' = Answer(code)

(* The clauses of parseSliceContractV1.  A raw contract is what its first       *)
(* broken clause is: a path that leaves the workspace has a code of its own.    *)
PathClauses == {"owned_path", "check_cwd", "check_artifact", "artifact_path"}
ShapeClauses == {"object", "slice_id", "contract_version", "objective", "exclusions", "owned_paths",
                 "check_id", "check_argv", "check_timeout", "env_allowlist", "exit_code",
                 "check_ids_unique", "artifacts", "commit_mode_override"}
ParseFailure(broken) ==
  IF broken \in PathClauses THEN "path_outside_workspace" ELSE "slice_contract_invalid"

SliceInit ==
  /\ GitInit
  /\ check = NoCheck
  /\ pc = "idle" /\ lease = TRUE /\ answer = Answer(None)
  /\ receipts = << >> /\ baseline = NoSnapshot /\ snapshot = NoSnapshot
  /\ verification = NoVerification /\ patch = NoPatch

-----------------------------------------------------------------------------
(* SliceExecutor.start and collect.                                          *)

StartRefused ==
  /\ pc = "idle"
  /\ \/ \E broken \in PathClauses \cup ShapeClauses : Ends(ParseFailure(broken))
     \/ Ends("model_decision_invalid")
     \/ ~lease /\ Ends("write_capability_unavailable")
  /\ UNCHANGED <<gitVars, check, lease, receipts, baseline, snapshot, verification, patch>>

StartSlice ==
  /\ pc = "idle" /\ lease
  /\ pc' = "baseline"
  /\ UNCHANGED <<gitVars, check, lease, answer, receipts, baseline, snapshot, verification, patch>>

(* A clock or an execution id that fails after the capture answers the same.  *)
CaptureBaseline ==
  /\ pc = "baseline"
  /\ \E s \in Captured :
       /\ capture' = NoCapture
       /\ IF s = NoSnapshot THEN Ends("workspace_inspection_failed") /\ UNCHANGED baseline
          ELSE pc' = "working" /\ baseline' = s /\ UNCHANGED answer
  /\ UNCHANGED <<repository, check, lease, receipts, snapshot, verification, patch>>

(* The agent is done; from now on this execution can be collected no more.    *)
Collect ==
  /\ pc = "working"
  /\ pc' = "collecting"
  /\ UNCHANGED <<gitVars, check, lease, answer, receipts, baseline, snapshot, verification, patch>>

LeaseLostWhileCollecting ==
  /\ pc = "collecting" /\ ~check.running /\ ~lease
  /\ Ends("write_capability_unavailable")
  /\ UNCHANGED <<gitVars, check, lease, receipts, baseline, snapshot, verification, patch>>

RunCheck ==
  /\ pc = "collecting" /\ ~check.running /\ check.receipt = "none" /\ Len(receipts) < Checks
  /\ lease
  /\ Spawn \/ DirectoryRefused \/ ExecutableRefused
  /\ UNCHANGED <<gitVars, executionVars>>

(* What the operating system and the timer do to the running child.  A check   *)
(* that exits well leaves its artifact, as the checks of the fixtures do.      *)
CheckRuns ==
  /\ \/ \E d \in Descendants \ {"none"} : Fork(d)
     \/ Exit("other") \/ DescendantEnds \/ SpawnError \/ Flood
  /\ UNCHANGED <<gitVars, executionVars>>
CheckSucceeds ==
  /\ Exit("expected")
  /\ \E bytes \in {work[Artifact], 1} : work' = [work EXCEPT ![Artifact] = bytes]
  /\ UNCHANGED <<commits, head, index, edits, capture, executionVars>>
CheckTimesOut == Timeout /\ UNCHANGED <<gitVars, executionVars>>
CheckCloses == Close /\ UNCHANGED <<gitVars, executionVars>>

TakeReceipt ==
  /\ pc = "collecting" /\ check.receipt # "none"
  /\ receipts' = Append(receipts, check.receipt)
  /\ check' = NoCheck
  /\ UNCHANGED <<gitVars, pc, lease, answer, baseline, snapshot, verification, patch>>

AllChecksRan ==
  /\ pc = "collecting" /\ Len(receipts) = Checks /\ lease
  /\ pc' = "snapshot"
  /\ UNCHANGED <<gitVars, check, lease, answer, receipts, baseline, snapshot, verification, patch>>

CaptureExecution ==
  /\ pc = "snapshot"
  /\ \E s \in Captured :
       /\ capture' = NoCapture
       /\ IF s = NoSnapshot THEN Ends("workspace_inspection_failed") /\ UNCHANGED snapshot
          ELSE pc' = "collected" /\ snapshot' = s /\ UNCHANGED answer
  /\ UNCHANGED <<repository, check, lease, receipts, baseline, verification, patch>>

-----------------------------------------------------------------------------
(* SliceVerifier.verify.                                                     *)

CheckFailure ==
  IF \A i \in DOMAIN receipts : receipts[i] = "PASS" THEN None ELSE "check_failed"
ArtifactFailure == IF work[Artifact] = Absent THEN "artifact_missing" ELSE None
OwnershipFailure(changes) ==
  IF IsCommittable(changes) THEN None
  ELSE IF changes.unowned # {} THEN "unowned_change_detected" ELSE "protected_change_overlap"

FirstFailure(codes) ==
  IF \A i \in DOMAIN codes : codes[i] = None THEN None
  ELSE codes[CHOOSE i \in DOMAIN codes : codes[i] # None /\ \A j \in 1..(i - 1) : codes[j] = None]

(* The live snapshot must still be the one the execution receipt froze.       *)
VerificationCode(live) ==
  IF live = NoSnapshot THEN "workspace_inspection_failed"
  ELSE IF live # snapshot THEN "verification_receipt_invalid"
  ELSE FirstFailure(<<CheckFailure, ArtifactFailure, OwnershipFailure(Classify(baseline, live))>>)

Verified(code, live) ==
  [result |-> IF code = None THEN "PASS" ELSE "FAIL", code |-> code,
   patch |-> IF code = None THEN PatchOf(baseline, live) ELSE NoPatch]

BeginVerify ==
  /\ pc = "collected"
  /\ pc' = "verify"
  /\ UNCHANGED <<gitVars, check, lease, answer, receipts, baseline, snapshot, verification, patch>>

Verify ==
  /\ pc = "verify"
  /\ \E live \in Captured :
       /\ capture' = NoCapture
       /\ verification' = Verified(VerificationCode(live), live)
       /\ IF VerificationCode(live) = None THEN pc' = "patch" /\ UNCHANGED answer
          ELSE Ends(VerificationCode(live))
  /\ UNCHANGED <<repository, check, lease, receipts, baseline, snapshot, patch>>

(* prepareSliceFixture: the caller captures once more and derives the patch.  *)
DerivePatch ==
  /\ pc = "patch"
  /\ \E s \in Captured :
       /\ capture' = NoCapture
       /\ IF s # NoSnapshot /\ IsCommittable(Classify(baseline, s))
          THEN pc' = "ready" /\ patch' = PatchOf(baseline, s) /\ UNCHANGED answer
          ELSE Ends("protected_change_overlap") /\ UNCHANGED patch
  /\ UNCHANGED <<repository, check, lease, receipts, baseline, snapshot, verification>>

(* Another controller took the workspace, or the lease expired.               *)
LeaseIsLost ==
  /\ pc \in {"idle", "working", "collecting"} /\ lease
  /\ lease' = FALSE
  /\ UNCHANGED <<gitVars, check, pc, answer, receipts, baseline, snapshot, verification, patch>>

CheckSteps == CheckRuns \/ CheckSucceeds \/ CheckTimesOut \/ CheckCloses
SliceSteps ==
  \/ StartRefused \/ StartSlice \/ CaptureBaseline \/ Collect \/ LeaseLostWhileCollecting
  \/ RunCheck \/ TakeReceipt \/ AllChecksRan \/ CaptureExecution
  \/ BeginVerify \/ Verify \/ DerivePatch \/ LeaseIsLost
=============================================================================
