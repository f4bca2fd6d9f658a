----------------------------- MODULE CheckProcess -----------------------------
(****************************************************************************)
(* One deterministic check as a child process: CheckProcessRunner.run of     *)
(* controller/slices/process-runner.ts.                                       *)
(*                                                                           *)
(* The child leads a process group of its own.  It may start a descendant     *)
(* that stays in the group or one that leaves it (setsid), and a descendant    *)
(* may keep the child's output pipes open or close them.  Node reports 'close' *)
(* only when the child has exited AND every holder of its pipes is gone, and   *)
(* the receipt is made on 'close' alone.  A timeout or an output flood kills    *)
(* the group and waits for that 'close'.                                       *)
(****************************************************************************)
EXTENDS Naturals

VARIABLE check  \* the running check, or NoCheck

Descendants == {"none", "group", "escaped", "daemon"}
HoldsPipes(d) == d \in {"group", "escaped"}

NoCheck == [running |-> FALSE, exit |-> "none", descendant |-> "none", timer |-> FALSE,
            timedOut |-> FALSE, flooded |-> FALSE, failed |-> FALSE, receipt |-> "none"]

(* spawn succeeds and the timer is armed; a missing executable or a cwd that   *)
(* leaves the workspace is answered at once.                                  *)
Spawn == check' = [NoCheck EXCEPT !.running = TRUE, !.exit = "alive", !.timer = TRUE]
DirectoryRefused == check' = [NoCheck EXCEPT !.receipt = "CHECK_PATH_OUTSIDE_WORKSPACE"]
ExecutableRefused == check' = [NoCheck EXCEPT !.receipt = "CHECK_SPAWN_FAILED"]

IsAlive == check.running /\ check.exit = "alive"

Fork(d) == IsAlive /\ check.descendant = "none" /\ check' = [check EXCEPT !.descendant = d]
Exit(code) == IsAlive /\ check' = [check EXCEPT !.exit = code]
DescendantEnds == check.running /\ check.descendant # "none" /\ check' = [check EXCEPT !.descendant = "none"]
SpawnError == IsAlive /\ check.descendant = "none" /\ check' = [check EXCEPT !.failed = TRUE, !.exit = "failed"]

(* Fault for the mutation runs: only the child itself is killed.              *)
KilledWithoutItsGroup(c) == [c EXCEPT !.exit = IF c.exit = "alive" THEN "killed" ELSE c.exit]

(* SIGKILL to the process group, then to the child.                           *)
Killed(c) == [c EXCEPT !.exit = IF c.exit = "alive" THEN "killed" ELSE c.exit,
                       !.descendant = IF c.descendant = "group" THEN "none" ELSE c.descendant]

(* Output beyond the limit counts once, even after the timer fired.           *)
Flood ==
  /\ check.running /\ ~check.flooded
  /\ check.exit = "alive" \/ HoldsPipes(check.descendant)
  /\ check' = Killed([check EXCEPT !.flooded = TRUE])

Timeout ==
  /\ check.running /\ check.timer
  /\ check' = IF check.flooded THEN [check EXCEPT !.timer = FALSE]
              ELSE Killed([check EXCEPT !.timer = FALSE, !.timedOut = TRUE])

IsClosed == check.running /\ check.exit # "alive" /\ ~HoldsPipes(check.descendant)

Outcome ==
  IF check.flooded THEN "CHECK_OUTPUT_LIMIT_EXCEEDED"
  ELSE IF check.timedOut THEN "CHECK_TIMEOUT"
  ELSE IF check.failed THEN "CHECK_SPAWN_FAILED"
  ELSE IF check.exit # "expected" THEN "CHECK_NONZERO_EXIT"
  ELSE "PASS"

Close == IsClosed /\ check' = [check EXCEPT !.running = FALSE, !.timer = FALSE, !.receipt = Outcome]
=============================================================================
