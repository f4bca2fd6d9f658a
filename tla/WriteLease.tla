----------------------------- MODULE WriteLease -----------------------------
(***************************************************************************)
(* FileWorkspaceGuard (workspace/file-workspace-guard.ts) for one          *)
(* workspace: the Project Write Lease.  A lease is an append-only history  *)
(* of immutable event files; the workspace belongs to the lease that the   *)
(* one hard link active.json names.  There is no lock besides the file     *)
(* system's atomic link and unlink, and a lease only works until it        *)
(* expires.                                                                *)
(*                                                                         *)
(* Calls are synchronous inside a process; their file-system operations    *)
(* and clock readings interleave with those of the other processes.        *)
(***************************************************************************)
EXTENDS Naturals, Sequences

CONSTANTS
  Processes,    \* operating-system processes that opened the guard
  Leases,       \* lease ids the identity factory may generate
  Duration,     \* leaseDurationMs
  MaxAttempts,  \* MAX_CAS_ATTEMPTS
  MaxTime,      \* bound on the clock
  MaxEvents     \* bound on the events of one lease

None == "none"

ASSUME NamesAssumption == None \notin Leases
ASSUME DurationAssumption == Duration \in Nat \ {0}
ASSUME MaxAttemptsAssumption == MaxAttempts \in Nat \ {0}
ASSUME MaxEventsAssumption == MaxEvents \in Nat

VARIABLES
  now,      \* the clock
  history,  \* history[l]: the states of the events of lease l, oldest first
  active,   \* the lease active.json names, None when there is no such file
  ids,      \* the lease ids generated so far
  granted,  \* history variable: the leases acquire answered with
  overtaken, \* history variable: those linked while a release was about to unlink
  pc,       \* pc[p]: the next operation of p's call
  call,     \* call[p]: the call in progress
  loaded,   \* loaded[p]: how many events of the lease p's call has read
  read_at,  \* read_at[p]: the clock as p's call read it
  attempt,  \* attempt[p]: the iteration of the compare-and-swap loop
  reply     \* reply[p]: the answer to the last finished call

vars == <<now, history, active, ids, granted, overtaken, pc, call, loaded, read_at,
          attempt, reply>>

Files == <<history, active>>

Operations == {"renew", "assertWritable", "freezeWrites", "rotateEpoch", "release"}

Labels ==
  {"idle", "link", "load", "checkActive", "validate", "append", "readActive", "unlink"}

\* The lease record; its revision is its position in the history.
LeaseStates ==
  [status: {"ACTIVE", "FROZEN", "RELEASED"}, epoch: Nat \ {0}, expires_at: Nat]

NoCall == [op |-> None]

\* expected is the epoch the caller believes in; frozen, the position of the
\* FrozenLease it hands to rotateEpoch; floor and held (history), the number of
\* events and whether the lease had active.json when an assertWritable began.
Calls ==
  [op: {"acquire"}, lease: Leases]
    \cup [op: Operations, lease: Leases, expected: Nat \ {0}, frozen: Nat, floor: Nat,
            held: BOOLEAN]

Errors ==
  {"project_lock_unavailable", "lease_lost", "stale_write_epoch",
   "workspace_guard_persist_failed"}

\* Of the successful answers only these two promise something about later;
\* the others are "changed".
Promises == {"assertWritable", "release"}

Replies ==
  [kind: Errors \cup {None, "changed"}] \cup [kind: {"ok"}, call: Calls, seen: Nat]

TypeOK ==
  /\ now \in Nat
  /\ history \in [Leases -> Seq(LeaseStates)]
  /\ active \in Leases \cup {None}
  /\ ids \subseteq Leases
  /\ granted \subseteq Leases
  /\ overtaken \subseteq granted
  /\ pc \in [Processes -> Labels]
  /\ call \in [Processes -> Calls \cup {NoCall}]
  /\ loaded \in [Processes -> Nat]
  /\ read_at \in [Processes -> Nat]
  /\ attempt \in [Processes -> 0 .. MaxAttempts]
  /\ reply \in [Processes -> Replies]

Init ==
  /\ now = 0
  /\ history = [l \in Leases |-> <<>>]
  /\ active = None
  /\ ids = {}
  /\ granted = {}
  /\ overtaken = {}
  /\ pc = [p \in Processes |-> "idle"]
  /\ call = [p \in Processes |-> NoCall]
  /\ loaded = [p \in Processes |-> 0]
  /\ read_at = [p \in Processes |-> 0]
  /\ attempt = [p \in Processes |-> 0]
  /\ reply = [p \in Processes |-> [kind |-> None]]

-----------------------------------------------------------------------------
Goto(p, label) == pc' = [pc EXCEPT ![p] = label]

Answer(p, r) ==
  /\ Goto(p, "idle")
  /\ reply' = [reply EXCEPT ![p] = r]
  /\ call' = [call EXCEPT ![p] = NoCall]
  /\ loaded' = [loaded EXCEPT ![p] = 0]
  /\ read_at' = [read_at EXCEPT ![p] = 0]
  /\ attempt' = [attempt EXCEPT ![p] = 0]

Succeed(p) ==
  Answer(p, IF call[p].op \in Promises
            THEN [kind |-> "ok", call |-> call[p], seen |-> loaded[p]]
            ELSE [kind |-> "changed"])
Fail(p, code) == Answer(p, [kind |-> code])

Continue(p, label) == Goto(p, label) /\ UNCHANGED <<call, loaded, read_at, attempt, reply>>

Lease(p) == call[p].lease

\* The record p's call has read.
Seen(p) == history[Lease(p)][loaded[p]]

-----------------------------------------------------------------------------
\* acquire: publish the lease's own locator, then compete for active.json.

Acquire(p, l) ==
  /\ pc[p] = "idle"
  /\ l \notin ids
  /\ ids' = ids \cup {l}
  /\ history' = [history EXCEPT ![l] =
                   <<[status |-> "ACTIVE", epoch |-> 1, expires_at |-> now + Duration]>>]
  /\ Goto(p, "link")
  /\ call' = [call EXCEPT ![p] = [op |-> "acquire", lease |-> l]]
  /\ reply' = [reply EXCEPT ![p] = [kind |-> None]]
  /\ UNCHANGED <<now, active, granted, overtaken, loaded, read_at, attempt>>

\* acquire answers with p's lease; a release that is halfway may overtake it.
Grant(p) ==
  /\ granted' = granted \cup {Lease(p)}
  /\ overtaken' = IF \E q \in Processes : pc[q] = "unlink"
                  THEN overtaken \cup {Lease(p)} ELSE overtaken

\* Fault for the mutation runs: active.json is renamed into place.
RenameActive(p) ==
  /\ pc[p] = "link"
  /\ active' = Lease(p)
  /\ Grant(p)
  /\ Succeed(p)
  /\ UNCHANGED <<now, history, ids>>

LinkActive(p) ==
  /\ pc[p] = "link"
  /\ active = None
  /\ active' = Lease(p)
  /\ Grant(p)
  /\ Succeed(p)
  /\ UNCHANGED <<now, history, ids>>

ActiveExists(p) ==
  /\ pc[p] = "link"
  /\ active # None
  /\ history' = [history EXCEPT ![Lease(p)] = <<>>]
  /\ Fail(p, "project_lock_unavailable")
  /\ UNCHANGED <<now, active, ids, granted, overtaken>>

-----------------------------------------------------------------------------
\* The other operations take a lease id somebody was given.

Begin(p, op, l, expected, frozen) ==
  /\ pc[p] = "idle"
  /\ l \in granted
  /\ \E i \in DOMAIN history[l] : history[l][i].epoch = expected
  /\ IF op = "rotateEpoch"
     THEN /\ frozen \in DOMAIN history[l]
          /\ history[l][frozen].status = "FROZEN"
          /\ history[l][frozen].epoch = expected
     ELSE frozen = 0
  /\ Goto(p, "load")
  /\ call' = [call EXCEPT ![p] =
       [op |-> op, lease |-> l, expected |-> expected, frozen |-> frozen,
        floor |-> IF op = "assertWritable" THEN Len(history[l]) ELSE 0,
        held |-> op = "assertWritable" => active = l]]
  /\ reply' = [reply EXCEPT ![p] = [kind |-> None]]
  /\ UNCHANGED <<now, Files, ids, granted, overtaken, loaded, read_at, attempt>>

\* loadHistory; release looks at the epoch before it looks at active.json.
LoadHistory(p) ==
  /\ pc[p] = "load"
  /\ LET s == history[Lease(p)][Len(history[Lease(p)])]
     IN  IF call[p].op = "release" /\ s.epoch # call[p].expected
         THEN Fail(p, "stale_write_epoch")
         ELSE /\ loaded' = [loaded EXCEPT ![p] = Len(history[Lease(p)])]
              /\ Goto(p, IF call[p].op = "release" /\ s.status = "RELEASED"
                         THEN "readActive" ELSE "checkActive")
              /\ UNCHANGED <<call, read_at, attempt, reply>>
  /\ UNCHANGED <<now, Files, ids, granted, overtaken>>

\* assertLocatorIsActive
CheckActive(p) ==
  /\ pc[p] = "checkActive"
  /\ IF active = Lease(p) THEN Continue(p, "validate") ELSE Fail(p, "lease_lost")
  /\ UNCHANGED <<now, Files, ids, granted, overtaken>>

\* Fault for the mutation runs: only the identity of the lease is validated.
RefuseReleased(p) == IF Seen(p).status = "RELEASED" THEN "lease_lost" ELSE None

\* validateCredentialAndExpiry and what each operation asks besides.
Refusal(p) ==
  LET s == Seen(p)
      c == call[p]
  IN  IF s.status = "RELEASED" THEN "lease_lost"
      ELSE IF s.epoch # c.expected THEN "stale_write_epoch"
      ELSE IF \/ now >= s.expires_at
              \/ c.op \in {"renew", "assertWritable"} /\ s.status # "ACTIVE"
              \/ c.op = "rotateEpoch" /\ (s.status # "FROZEN" \/ loaded[p] # c.frozen)
      THEN "lease_lost" ELSE None

\* assertWritable changes nothing and freezeWrites is idempotent.
NothingToAppend(p) ==
  \/ call[p].op = "assertWritable"
  \/ call[p].op = "freezeWrites" /\ Seen(p).status = "FROZEN"

Validate(p) ==
  /\ pc[p] = "validate"
  /\ IF Refusal(p) # None THEN Fail(p, Refusal(p))
     ELSE IF NothingToAppend(p) THEN Succeed(p)
     ELSE /\ read_at' = [read_at EXCEPT ![p] = now]
          /\ Goto(p, "append")
          /\ UNCHANGED <<call, loaded, attempt, reply>>
  /\ UNCHANGED <<now, Files, ids, granted, overtaken>>

Successor(p) ==
  LET s == Seen(p)
  IN  CASE call[p].op = "renew" -> [s EXCEPT !.expires_at = read_at[p] + Duration]
        [] call[p].op = "freezeWrites" -> [s EXCEPT !.status = "FROZEN"]
        [] call[p].op = "rotateEpoch" ->
             [status |-> "ACTIVE", epoch |-> s.epoch + 1, expires_at |-> read_at[p] + Duration]
        [] OTHER -> [s EXCEPT !.status = "RELEASED"]

\* Fault for the mutation runs: the event goes after whatever was appended meanwhile.
AppendBlindly(p) ==
  /\ pc[p] = "append"
  /\ loaded[p] < MaxEvents
  /\ history' = [history EXCEPT ![Lease(p)] = Append(@, Successor(p))]
  /\ IF call[p].op = "release" THEN Continue(p, "readActive") ELSE Succeed(p)
  /\ UNCHANGED <<now, active, ids, granted, overtaken>>

\* appendEvent: the link succeeds unless the next event file exists.
AppendEvent(p) ==
  /\ pc[p] = "append"
  /\ Len(history[Lease(p)]) = loaded[p]
  /\ loaded[p] < MaxEvents
  /\ history' = [history EXCEPT ![Lease(p)] = Append(@, Successor(p))]
  /\ IF call[p].op = "release" THEN Continue(p, "readActive") ELSE Succeed(p)
  /\ UNCHANGED <<now, active, ids, granted, overtaken>>

Retry(p) ==
  /\ pc[p] = "append"
  /\ Len(history[Lease(p)]) > loaded[p]
  /\ IF attempt[p] + 1 < MaxAttempts
     THEN /\ attempt' = [attempt EXCEPT ![p] = @ + 1]
          /\ Goto(p, "load")
          /\ UNCHANGED <<call, loaded, read_at, reply>>
     ELSE Fail(p, "workspace_guard_persist_failed")
  /\ UNCHANGED <<now, Files, ids, granted, overtaken>>

\* removeActiveLocator: the file that is read and the file that is unlinked
\* need not be the same.
ReadActive(p) ==
  /\ pc[p] = "readActive"
  /\ CASE active = None     -> Succeed(p)
       [] active = Lease(p) -> Continue(p, "unlink")
       [] OTHER             -> Fail(p, "lease_lost")
  /\ UNCHANGED <<now, Files, ids, granted, overtaken>>

Unlink(p) ==
  /\ pc[p] = "unlink"
  /\ active' = None
  /\ IF active = None THEN Fail(p, "workspace_guard_persist_failed") ELSE Succeed(p)
  /\ UNCHANGED <<now, history, ids, granted, overtaken>>

-----------------------------------------------------------------------------
\* The file system refuses a write.
PersistFails(p) ==
  /\ pc[p] \in {"link", "append", "unlink"}
  /\ Fail(p, "workspace_guard_persist_failed")
  /\ UNCHANGED <<now, Files, ids, granted, overtaken>>

\* The process dies; only the files survive.
Crash(p) ==
  /\ Fail(p, None)
  /\ UNCHANGED <<now, Files, ids, granted, overtaken>>

Tick ==
  /\ now < MaxTime
  /\ now' = now + 1
  /\ UNCHANGED <<Files, ids, granted, overtaken, pc, call, loaded, read_at, attempt, reply>>

Next ==
  \/ Tick
  \/ \E p \in Processes :
       \/ \E l \in Leases : Acquire(p, l)
       \/ LinkActive(p)
       \/ ActiveExists(p)
       \/ \E op \in Operations, l \in Leases, e \in 1 .. MaxEvents, f \in 0 .. MaxEvents :
            Begin(p, op, l, e, f)
       \/ LoadHistory(p)
       \/ CheckActive(p)
       \/ Validate(p)
       \/ AppendEvent(p)
       \/ Retry(p)
       \/ ReadActive(p)
       \/ Unlink(p)
       \/ PersistFails(p)
       \/ Crash(p)

Spec == Init /\ [][Next]_vars

-----------------------------------------------------------------------------
\* Properties.

\* The newest event of a granted lease.
Newest(l) == history[l][Len(history[l])]

Released(l) == Newest(l).status = "RELEASED"

\* A lease that was granted keeps active.json until its own release, whoever
\* else acquires, releases late, or dies halfway.  The one way to lose it is the
\* race that removeActiveLocator leaves open: two processes release an earlier
\* lease, the slower one has read active.json when the faster one unlinks it,
\* and the lease is linked before the slower one unlinks in its turn.
GrantedLeaseHoldsWorkspace ==
  \A l \in granted \ overtaken : Released(l) \/ active = l

\* Epochs only go up, one at a time and only out of a freeze, and a released
\* lease never comes back, whichever stale reader appends next.
OldEpochsStayDead ==
  [][\A l \in granted :
       /\ Newest(l)'.epoch \in {Newest(l).epoch, Newest(l).epoch + 1}
       /\ Newest(l)'.epoch # Newest(l).epoch => Newest(l).status = "FROZEN"
       /\ Released(l) => Released(l)']_vars

\* A freeze is lifted only by a rotation: the frozen epoch never writes again.
FreezeIsFinal ==
  \A l \in granted : \A i, j \in DOMAIN history[l] :
    i < j /\ history[l][i].status = "FROZEN" /\ history[l][j].status = "ACTIVE" =>
      history[l][i].epoch < history[l][j].epoch

\* Whoever is told that it may write held the current, unfrozen epoch of its
\* lease at an instant of its call, not before it, and had active.json when the
\* call began: a lease that lost the workspace, be it to the race of two
\* releases, never writes again.
AuthorityIsFresh ==
  \A p \in Processes :
    reply[p].kind = "ok" /\ reply[p].call.op = "assertWritable" =>
      LET c == reply[p].call
          s == history[c.lease][reply[p].seen]
      IN  /\ c.held
          /\ reply[p].seen >= c.floor
          /\ s.status = "ACTIVE"
          /\ s.epoch = c.expected

\* A release that is acknowledged has freed the workspace for good.
ReleaseFreesWorkspace ==
  \A p \in Processes :
    reply[p].kind = "ok" /\ reply[p].call.op = "release" =>
      Released(reply[p].call.lease) /\ active # reply[p].call.lease

=============================================================================
