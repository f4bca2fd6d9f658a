--------------------------- MODULE RunControlProofs ---------------------------
(***************************************************************************)
(* The Run and its lease under any number of command processes, leases and *)
(* versions, with every disturbance: the two agree, acknowledged commands  *)
(* are committed, and the lease always changes before the Run.             *)
(*                                                                         *)
(* The argument: whatever a command knows of the Run is old, so it counts  *)
(* only while the version it loaded is current (Based).  A frozen lease is *)
(* at the epoch of the Run, and only a current resume may be one ahead of  *)
(* it (LeaseAgrees, Rotated); a lease just acquired is known to its        *)
(* process alone until the Run names it (Fresh).  Steps of others keep all *)
(* of this because epochs never fall and RELEASED is final                 *)
(* (OthersWhileLeaseMoves), and because one commit makes every other       *)
(* command's version old (OthersWhileRunMoves).                            *)
(*                                                                         *)
(* The second part is about the journal that brackets the commands: past   *)
(* its claim a call owns the intent, past the execution also the receipt   *)
(* it made, and the files tell one story about each command id.            *)
(***************************************************************************)
EXTENDS RunControl, CommandJournal, TLAPS

\* Statuses a Run may be paused in.
Active == Machine!RunStatuses \ (Stopped \cup {"PAUSED", "NEEDS_USER"})

\* The Run r exists and names the lease l.
Names(r, l) == r # NoRun /\ r.owner = l

Leased(r) == r # NoRun /\ r.owner # None => lease[r.owner] \in LeaseStates

\* What status a paused or failed Run may come back to.
ReturnsToWork(r) ==
  /\ r.epoch > 0
  /\ r.status = "PAUSED" => r.paused_from \in Active
  /\ r.status = "NEEDS_USER" =>
       r.last_successful \notin Machine!TerminalStatuses \cup {"NEEDS_USER"}

\* The lease of the Run is at its epoch or was rotated by a resume that has not
\* committed; then it is not frozen.
LeaseAgrees ==
  /\ lease[run.owner].epoch \in {run.epoch, run.epoch + 1}
  /\ lease[run.owner].status = "FROZEN" => lease[run.owner].epoch = run.epoch
  /\ run.status = "PAUSED" /\ lease[run.owner].status = "ACTIVE" =>
       lease[run.owner].epoch = run.epoch + 1

RunInv ==
  /\ Leased(run)
  /\ run # NoRun => ReturnsToWork(run) /\ run.state_version <= MaxVersion
  /\ run # NoRun /\ run.owner # None => LeaseAgrees

\* p acquired the lease its target names and has told nobody.
Fresh(p) ==
  /\ target[p].owner \in Leases
  /\ target[p].epoch = 1
  /\ lease[target[p].owner].status = "ACTIVE"
  /\ lease[target[p].owner].epoch = 1
  /\ ~Names(run, target[p].owner)
  /\ \A q \in Processes :
       /\ ~Names(base[q], target[p].owner)
       /\ q # p => ~Names(target[q], target[p].owner)

IsCurrent(p) == base[p].state_version = run.state_version

\* What a command that loaded the Run knows of it, however old that is.
Based(p) ==
  /\ base[p] \in Runs /\ target[p] \in Runs /\ run \in Runs
  /\ target[p].state_version = base[p].state_version + 1
  /\ base[p].state_version < MaxVersion
  /\ base[p].state_version <= run.state_version
  /\ IsCurrent(p) => base[p] = run
  /\ ReturnsToWork(base[p]) /\ ReturnsToWork(target[p])
  /\ base[p].owner # None =>
       /\ base[p].epoch <= lease[base[p].owner].epoch
       /\ base[p].owner = run.owner => base[p].epoch <= run.epoch

KeepsLease(p) == target[p].owner = base[p].owner /\ target[p].epoch = base[p].epoch

\* The rotation the target names was done, unless the Run moved on.
Rotated(p) ==
  /\ base[p].owner # None
  /\ target[p].owner = base[p].owner
  /\ IsCurrent(p) =>
       /\ lease[base[p].owner].status = "ACTIVE"
       /\ lease[base[p].owner].epoch = target[p].epoch
       /\ target[p].epoch = base[p].epoch + 1

Idle(p) == pc[p] = "idle" /\ command[p] = None /\ base[p] = NoRun /\ target[p] = NoRun

Starting(p) ==
  /\ command[p] = "start"
  /\ base[p] = NoRun
  /\ \/ pc[p] = "acquire" /\ target[p] = NoRun
     \/ pc[p] = "create" /\ target[p] = InitialRun(target[p].owner) /\ Fresh(p)
     \/ /\ pc[p] = "undo"
        /\ target[p] \in Runs
        /\ target[p].owner \in Leases

\* The commands that leave the lease alone.
Plain(p) ==
  /\ pc[p] \in {"prepare", "cas"}
  /\ command[p] \in {"start", "override", "dispatch"}
  /\ Based(p)
  /\ KeepsLease(p)
  /\ \/ target[p].status = base[p].status
     \/ base[p].status \in Active /\ target[p].status \in Active

Pausing(p) ==
  /\ pc[p] \in {"freeze", "cas"}
  /\ command[p] = "pause"
  /\ Based(p)
  /\ KeepsLease(p)
  /\ base[p].status \in Active /\ target[p].status = "PAUSED"
  /\ pc[p] = "freeze" => base[p].owner # None
  /\ pc[p] = "cas" /\ base[p].owner # None =>
       (lease[base[p].owner].status = "ACTIVE" =>
          lease[base[p].owner].epoch > base[p].epoch)

Ending(p) ==
  /\ pc[p] \in {"release", "cas"}
  /\ command[p] \in {"abort", "finish"}
  /\ Based(p)
  /\ target[p].owner = None
  /\ target[p].status \in Machine!TerminalStatuses
  /\ base[p].status = "PAUSED" => target[p].status = "ABORTED"
  /\ pc[p] = "release" => base[p].owner # None
  /\ pc[p] = "cas" /\ base[p].owner # None => lease[base[p].owner].status = "RELEASED"

Resuming(p) ==
  /\ pc[p] \in {"inspect", "rotate", "acquire", "cas"}
  /\ command[p] = "resume"
  /\ Based(p)
  /\ base[p].status = "PAUSED" /\ target[p].status \in Active
  /\ pc[p] \in {"inspect", "rotate"} => base[p].owner # None
  /\ pc[p] # "cas" => target[p].owner = base[p].owner
  /\ pc[p] = "cas" => Rotated(p) \/ Fresh(p)

Recovering(p) ==
  /\ pc[p] \in {"releaseStale", "reacquire", "cas"}
  /\ command[p] = "resume"
  /\ Based(p)
  /\ base[p].status = "NEEDS_USER" /\ target[p].status \in Active
  /\ pc[p] = "releaseStale" => base[p].owner # None
  /\ KeepsLease(p) \/ (pc[p] = "cas" /\ Fresh(p))

Phase(p) ==
  Idle(p) \/ Starting(p) \/ Plain(p) \/ Pausing(p) \/ Ending(p) \/ Resuming(p) \/ Recovering(p)

\* An acknowledged command is in the history, at a version the Run has reached.
ReplyInv(p) ==
  reply[p].outcome = "OK" =>
    /\ run # NoRun
    /\ reply[p].version <= run.state_version
    /\ reply[p].command # "override" =>
         author[reply[p].version] = [by |-> p, command |-> reply[p].command]

ProcessInv(p) == Leased(base[p]) /\ Leased(target[p]) /\ Phase(p) /\ ReplyInv(p)

Inv == TypeOK /\ RunInv /\ \A p \in Processes : ProcessInv(p)
-----------------------------------------------------------------------------
\* Facts about the constants and the records.

LEMMA StatusFacts ==
  /\ None \notin Machine!RunStatuses
  /\ Active \subseteq Machine!RunStatuses
  /\ {"IDLE", "PREPARING", "SLICE_RUNNING"} \subseteq Active
  /\ {"PAUSED", "NEEDS_USER", "ABORTED", "DONE"} \subseteq Machine!RunStatuses \ Active
  /\ Machine!TerminalStatuses = {"DONE", "ABORTED"}
  /\ Machine!OperationalStatuses \subseteq Active
  /\ WorkStatuses \subseteq Active
  BY WorkStatusesAssumption
  DEF Active, Stopped, None, Machine!None, Machine!RunStatuses, Machine!OperationalStatuses,
      Machine!LegacyAcceptanceStatuses, Machine!TerminalStatuses

LEMMA RecordFacts ==
  /\ \A r \in Runs : r # NoRun
  /\ \A s \in LeaseStates : s # NoLease /\ s.status # None
  BY StatusFacts DEF Runs, NoRun, LeaseStates, NoLease, None, Machine!None

LEMMA InitialRunFacts ==
  ASSUME NEW l \in Leases
  PROVE  /\ InitialRun(l) \in Runs /\ InitialRun(l).owner = l /\ InitialRun(l).epoch = 1
         /\ InitialRun(l).status = "IDLE" /\ InitialRun(l).state_version = 0
  BY StatusFacts DEF InitialRun, Runs

LEMMA PreparedFacts ==
  ASSUME NEW r \in Runs
  PROVE  /\ Prepared(r) \in Runs /\ Prepared(r).owner = r.owner /\ Prepared(r).epoch = r.epoch
         /\ Prepared(r).status = "PREPARING" /\ Prepared(r).state_version = 1
  BY StatusFacts DEF Prepared, Runs

\* What NEEDS_USER may go back to is work or the end.
LEMMA RecoveryTarget ==
  ASSUME NEW s, Machine!IsRunTransitionAllowed("NEEDS_USER", s, None),
         s \notin Machine!TerminalStatuses \cup {"NEEDS_USER"}
  PROVE  s \in Active
  BY StatusFacts
  DEF Machine!IsRunTransitionAllowed, Machine!IsSameStatusActionAllowed,
      Machine!ForwardTransitions, Machine!LegacyAcceptanceStatuses, None, Machine!None

-----------------------------------------------------------------------------
\* What a process knows survives the steps of the others.

\* The local state of q is left alone.
Aside(q) ==
  /\ pc'[q] = pc[q] /\ command'[q] = command[q] /\ reply'[q] = reply[q]
  /\ base'[q] = base[q] /\ target'[q] = target[q]

\* The other processes name no lease that only q knows.
NoNewNames(q) ==
  \A p \in Processes \ {q} : \A l \in Leases :
    Names(base'[p], l) \/ Names(target'[p], l) =>
      Names(base[p], l) \/ Names(target[p], l) \/ Names(run, l) \/ lease[l] = NoLease

\* The lease l is the rotated lease of the Run, or one that only q knows.
IsReserved(l, q) ==
  /\ lease[l].status = "ACTIVE"
  /\ \/ Names(run, l) /\ lease[l].epoch = run.epoch + 1
     \/ pc[q] \in {"create", "cas"} /\ Fresh(q) /\ target[q].owner = l

SoundLeaseStep(q) ==
  \A l \in Leases : lease[l] \in LeaseStates =>
    /\ lease'[l] \in LeaseStates
    /\ lease[l].epoch <= lease'[l].epoch
    /\ lease[l].status = "RELEASED" => lease'[l].status = "RELEASED"
    /\ lease'[l].status = "ACTIVE" =>
         lease[l].status = "ACTIVE" \/ lease[l].epoch < lease'[l].epoch
    /\ IsReserved(l, q) => lease'[l].status = "ACTIVE" /\ lease'[l].epoch = lease[l].epoch

SoundRunStep(q) ==
  /\ run' \in Runs
  /\ run # NoRun =>
       /\ run'.state_version = run.state_version + 1
       /\ \A v \in 0 .. run.state_version : author'[v] = author[v]
  /\ \/ run'.owner = None
     \/ run # NoRun /\ run'.owner = run.owner /\ run.epoch <= run'.epoch
     \/ /\ ~Names(base[q], run'.owner)
        /\ Fresh(q) => run'.owner # target[q].owner

LEMMA FreshStaysFresh ==
  ASSUME TypeOK, NEW q \in Processes, Aside(q), NoNewNames(q), Fresh(q),
         lease'[target[q].owner].status = "ACTIVE", lease'[target[q].owner].epoch = 1,
         ~Names(run, target[q].owner)', lease[target[q].owner] # NoLease
  PROVE  Fresh(q)'
  <1> DEFINE o == target[q].owner
  <1>1. o \in Leases /\ target'[q] = target[q]
    BY DEF Fresh, Aside
  <1>2. ASSUME NEW p \in Processes
        PROVE  ~Names(base'[p], o) /\ (q # p => ~Names(target'[p], o))
    <2>1. CASE p = q
      BY <2>1 DEF Fresh, Aside
    <2>2. CASE p # q
      BY <2>2, <1>1 DEF Fresh, NoNewNames
    <2> QED
      BY <2>1, <2>2
  <1> QED
    BY <1>1, <1>2 DEF Fresh

LEMMA OthersWhileLeaseMoves ==
  ASSUME TypeOK, NEW q \in Processes, ProcessInv(q),
         Aside(q), NoNewNames(q), SoundLeaseStep(q), UNCHANGED <<run, author>>
  PROVE  ProcessInv(q)'
  <1> USE DEF Aside
  <1>1. base[q] # NoRun /\ base[q].owner # None =>
          base[q].owner \in Leases /\ lease[base[q].owner] \in LeaseStates
    BY LeaseNamesAssumption DEF ProcessInv, Leased, TypeOK, Runs
  <1>2. target[q] # NoRun /\ target[q].owner # None =>
          target[q].owner \in Leases /\ lease[target[q].owner] \in LeaseStates
    BY LeaseNamesAssumption DEF ProcessInv, Leased, TypeOK, Runs
  <1>3. Leased(base[q])' /\ Leased(target[q])' /\ ReplyInv(q)'
    BY <1>1, <1>2 DEF ProcessInv, Leased, ReplyInv, SoundLeaseStep
  <1>4. Based(q) => Based(q)'
    <2> SUFFICES ASSUME Based(q) PROVE Based(q)'
      OBVIOUS
    <2>1. base[q].owner # None =>
            /\ lease[base[q].owner] \in LeaseStates
            /\ lease'[base[q].owner] \in LeaseStates
            /\ lease[base[q].owner].epoch <= lease'[base[q].owner].epoch
      BY <1>1, RecordFacts DEF Based, SoundLeaseStep
    <2>2. base[q].owner # None => base[q].epoch <= lease'[base[q].owner].epoch
      BY <2>1 DEF Based, Runs, LeaseStates
    <2> QED
      BY <2>2 DEF Based, IsCurrent, ReturnsToWork
  <1>5. pc[q] \in {"create", "cas"} /\ Fresh(q) => Fresh(q)'
    <2> SUFFICES ASSUME pc[q] \in {"create", "cas"}, Fresh(q) PROVE Fresh(q)'
      OBVIOUS
    <2>1. target[q].owner \in Leases /\ lease[target[q].owner] \in LeaseStates
      BY LeaseNamesAssumption DEF Fresh, TypeOK, NoLease, None, Machine!None
    <2>2. IsReserved(target[q].owner, q)
      BY DEF IsReserved, Fresh
    <2> QED
      BY <2>1, <2>2, FreshStaysFresh, RecordFacts DEF SoundLeaseStep, Fresh
  <1>6. Based(q) /\ Rotated(q) => Rotated(q)'
    <2> SUFFICES ASSUME Based(q), Rotated(q), IsCurrent(q) PROVE Rotated(q)'
      BY DEF Rotated, IsCurrent
    <2>1. base[q].owner \in Leases /\ lease[base[q].owner] \in LeaseStates
      BY <1>1, RecordFacts DEF Based, Rotated
    <2>2. IsReserved(base[q].owner, q)
      BY RecordFacts DEF IsReserved, Based, Rotated, Names
    <2> QED
      BY <2>1, <2>2 DEF SoundLeaseStep, Rotated, IsCurrent
  <1>7. Pausing(q) => Pausing(q)'
    <2> SUFFICES ASSUME Pausing(q) PROVE Pausing(q)'
      OBVIOUS
    <2>1. ASSUME base[q].owner # None, pc[q] = "cas", lease'[base[q].owner].status = "ACTIVE"
          PROVE  lease'[base[q].owner].epoch > base[q].epoch
      <3>1. /\ lease[base[q].owner] \in LeaseStates /\ lease'[base[q].owner] \in LeaseStates
            /\ base[q] \in Runs /\ base[q].owner \in Leases
        BY <2>1, <1>1, RecordFacts DEF Pausing, Based, SoundLeaseStep
      <3>2. /\ base[q].epoch \in Nat /\ lease[base[q].owner].epoch \in Nat
            /\ lease'[base[q].owner].epoch \in Nat
            /\ base[q].epoch <= lease[base[q].owner].epoch
        BY <2>1, <3>1 DEF Pausing, Based, Runs, LeaseStates
      <3>3. CASE lease[base[q].owner].status = "ACTIVE"
        BY <2>1, <3>1, <3>2, <3>3 DEF Pausing, SoundLeaseStep
      <3>4. CASE lease[base[q].owner].epoch < lease'[base[q].owner].epoch
        BY <3>2, <3>4
      <3> QED
        BY <2>1, <3>1, <3>3, <3>4 DEF SoundLeaseStep
    <2> QED
      BY <1>4, <2>1 DEF Pausing, KeepsLease
  <1>8. Ending(q) => Ending(q)'
    BY <1>1, <1>4, RecordFacts DEF Ending, Based, SoundLeaseStep
  <1>9. Phase(q)'
    BY <1>4, <1>5, <1>6, <1>7, <1>8
    DEF ProcessInv, Phase, Idle, Starting, Plain, Resuming, Recovering, KeepsLease
  <1> QED
    BY <1>3, <1>9 DEF ProcessInv

LEMMA OthersWhileRunMoves ==
  ASSUME TypeOK, NEW q \in Processes, ProcessInv(q),
         Aside(q), NoNewNames(q), SoundRunStep(q), UNCHANGED lease
  PROVE  ProcessInv(q)'
  <1> USE DEF Aside
  <1>1. Leased(base[q])' /\ Leased(target[q])'
    BY DEF ProcessInv, Leased
  <1>2. ReplyInv(q)'
    <2> SUFFICES ASSUME reply[q].outcome = "OK" PROVE ReplyInv(q)'
      BY DEF ReplyInv
    <2>1. /\ run # NoRun /\ run \in Runs /\ reply[q].version \in Nat
          /\ reply[q].version <= run.state_version
      BY DEF ProcessInv, ReplyInv, TypeOK, Replies, NoReply, None, Machine!None
    <2>2. run.state_version \in Nat /\ reply[q].version \in 0 .. run.state_version
      BY <2>1 DEF Runs
    <2>3. run' # NoRun /\ run'.state_version = run.state_version + 1
      BY <2>1, RecordFacts DEF SoundRunStep
    <2> QED
      BY <2>1, <2>2, <2>3 DEF ReplyInv, SoundRunStep, ProcessInv
  <1>3. Based(q) => Based(q)' /\ ~IsCurrent(q)'
    <2> SUFFICES ASSUME Based(q) PROVE Based(q)' /\ ~IsCurrent(q)'
      OBVIOUS
    <2>1. run # NoRun /\ run'.state_version = run.state_version + 1
      BY RecordFacts DEF Based, SoundRunStep
    <2>2. /\ base[q].state_version \in Nat /\ run.state_version \in Nat
          /\ base[q].epoch \in Nat /\ run.epoch \in Nat /\ run'.epoch \in Nat
      BY DEF Based, Runs, SoundRunStep
    <2>3. ~IsCurrent(q)' /\ base[q].state_version <= run'.state_version
      BY <2>1, <2>2 DEF Based, IsCurrent
    <2>4. base[q].owner # None /\ base[q].owner = run'.owner => base[q].epoch <= run'.epoch
      BY <2>2, RecordFacts DEF Based, SoundRunStep, Names
    <2> QED
      BY <2>3, <2>4 DEF Based, ReturnsToWork, SoundRunStep
  <1>4. Fresh(q) /\ pc[q] \in {"create", "cas"} => Fresh(q)'
    <2> SUFFICES ASSUME Fresh(q) PROVE Fresh(q)'
      OBVIOUS
    <2>1. ~Names(run, target[q].owner)'
      BY LeaseNamesAssumption DEF Fresh, SoundRunStep, Names
    <2>2. lease[target[q].owner] # NoLease
      BY DEF Fresh, NoLease, None, Machine!None
    <2> QED
      BY <2>1, <2>2, FreshStaysFresh DEF Fresh
  <1>5. Based(q) /\ Rotated(q) => Rotated(q)'
    BY <1>3 DEF Rotated
  <1>6. Phase(q)'
    BY <1>3, <1>4, <1>5
    DEF ProcessInv, Phase, Idle, Starting, Plain, Pausing, Ending, Resuming, Recovering, KeepsLease
  <1> QED
    BY <1>1, <1>2, <1>6 DEF ProcessInv

-----------------------------------------------------------------------------
\* Steps by what they change.

\* Process p names no lease it did not know of, except one nobody had.
CarriesNames(p) ==
  \A l \in Leases :
    Names(base'[p], l) \/ Names(target'[p], l) =>
      Names(base[p], l) \/ Names(target[p], l) \/ Names(run, l) \/ lease[l] = NoLease

OnlyMoves(p) == (\A q \in Processes \ {p} : Aside(q)) /\ CarriesNames(p)

LEMMA OthersAreAside ==
  ASSUME NEW p \in Processes, OnlyMoves(p), NEW q \in Processes \ {p}
  PROVE  Aside(q) /\ NoNewNames(q)
  BY DEF OnlyMoves, CarriesNames, NoNewNames, Aside

LEMMA QuietStep ==
  ASSUME Inv, TypeOK', NEW p \in Processes, OnlyMoves(p),
         ProcessInv(p)', UNCHANGED <<run, lease, author>>
  PROVE  Inv'
  <1>1. RunInv'
    BY DEF Inv, RunInv, Leased, ReturnsToWork, LeaseAgrees
  <1>2. ASSUME NEW q \in Processes \ {p} PROVE ProcessInv(q)'
    <2>1. SoundLeaseStep(q)
      BY DEF SoundLeaseStep, LeaseStates, IsReserved
    <2> QED
      BY <2>1, OthersAreAside, OthersWhileLeaseMoves DEF Inv
  <1> QED
    BY <1>1, <1>2 DEF Inv

LEMMA LeaseStep ==
  ASSUME Inv, TypeOK', RunInv', NEW p \in Processes, OnlyMoves(p), ProcessInv(p)',
         \A q \in Processes \ {p} : SoundLeaseStep(q), UNCHANGED <<run, author>>
  PROVE  Inv'
  <1>1. ASSUME NEW q \in Processes \ {p} PROVE ProcessInv(q)'
    BY OthersAreAside, OthersWhileLeaseMoves DEF Inv
  <1> QED
    BY <1>1 DEF Inv

LEMMA RunStep ==
  ASSUME Inv, TypeOK', RunInv', NEW p \in Processes, OnlyMoves(p), ProcessInv(p)',
         \A q \in Processes \ {p} : SoundRunStep(q), UNCHANGED lease
  PROVE  Inv'
  <1>1. ASSUME NEW q \in Processes \ {p} PROVE ProcessInv(q)'
    BY OthersAreAside, OthersWhileRunMoves DEF Inv
  <1> QED
    BY <1>1 DEF Inv

\* A command that ends without success leaves nothing behind in its process.
LEMMA EndsUnsuccessfully ==
  ASSUME TypeOK, NEW p \in Processes, NEW r \in Replies \cup {NoReply},
         Answer(p, r), r.outcome # "OK"
  PROVE  /\ OnlyMoves(p)
         /\ ProcessInv(p)'
         /\ pc' \in [Processes -> Labels]
         /\ command' \in [Processes -> Commands \cup {None}]
         /\ base' \in [Processes -> Runs \cup {NoRun}]
         /\ target' \in [Processes -> Runs \cup {NoRun}]
         /\ reply' \in [Processes -> Replies \cup {NoReply}]
  <1>1. /\ pc' = [pc EXCEPT ![p] = "idle"]
        /\ command' = [command EXCEPT ![p] = None]
        /\ base' = [base EXCEPT ![p] = NoRun]
        /\ target' = [target EXCEPT ![p] = NoRun]
        /\ reply' = [reply EXCEPT ![p] = r]
    BY DEF Answer, Goto
  <1>2. OnlyMoves(p)
    BY <1>1 DEF OnlyMoves, Aside, CarriesNames, Names, TypeOK
  <1>3. ProcessInv(p)'
    BY <1>1 DEF TypeOK, ProcessInv, Leased, Phase, Idle, ReplyInv
  <1> QED
    BY <1>1, <1>2, <1>3 DEF TypeOK, Labels

LEMMA Refusals ==
  ASSUME NEW c \in Commands \cup {None}, NEW code \in Codes
  PROVE  /\ [outcome |-> "REJECTED", command |-> c, code |-> code] \in Replies
         /\ NoReply.outcome # "OK"
  BY DEF Replies, NoReply, None, Machine!None

\* What a command knows survives its own steps on the lease.
LEMMA BasedStays ==
  ASSUME TypeOK, NEW p \in Processes, Leased(base[p]), Based(p), SoundLeaseStep(p),
         base'[p] = base[p], target'[p] \in Runs,
         target'[p].state_version = target[p].state_version, ReturnsToWork(target'[p]),
         UNCHANGED run
  PROVE  Based(p)' /\ Leased(base[p])'
  <1>1. base[p].owner # None =>
          /\ base[p].owner \in Leases
          /\ lease[base[p].owner] \in LeaseStates
          /\ lease'[base[p].owner] \in LeaseStates
          /\ lease[base[p].owner].epoch <= lease'[base[p].owner].epoch
    BY LeaseNamesAssumption, RecordFacts DEF Based, Leased, SoundLeaseStep, TypeOK, Runs
  <1>2. base[p].owner # None => base[p].epoch <= lease'[base[p].owner].epoch
    BY <1>1 DEF Based, Runs, LeaseStates
  <1> QED
    BY <1>1, <1>2 DEF Based, IsCurrent, ReturnsToWork, Leased

\* A step on a lease that a command knows from the Run, at the epoch it knows or
\* while the lease is not active, takes nothing from anybody who relies on it.
LEMMA KnownLeaseStep ==
  ASSUME Inv, NEW p \in Processes, Based(p), base[p].owner # None, NEW e \in LeaseStates,
         \/ lease[base[p].owner].epoch = base[p].epoch
         \/ lease[base[p].owner].status # "ACTIVE",
         lease' = [lease EXCEPT ![base[p].owner] = e],
         lease[base[p].owner].epoch <= e.epoch,
         lease[base[p].owner].status = "RELEASED" => e.status = "RELEASED",
         e.status = "ACTIVE" => lease[base[p].owner].epoch < e.epoch
  PROVE  \A q \in Processes : SoundLeaseStep(q)
  <1> DEFINE l == base[p].owner
  <1>1. /\ base[p] \in Runs /\ run \in Runs /\ base[p] # NoRun /\ run # NoRun
        /\ l \in Leases /\ lease[l] \in LeaseStates
    BY RecordFacts, LeaseNamesAssumption DEF Based, Inv, ProcessInv, Leased, Runs
  <1>2. ASSUME NEW q \in Processes PROVE ~IsReserved(l, q)
    <2>1. CASE lease[l].status # "ACTIVE"
      BY <2>1 DEF IsReserved
    <2>2. CASE lease[l].epoch = base[p].epoch
      <3>1. Names(run, l) => lease[l].epoch <= run.epoch
        BY <2>2 DEF Based, Names
      <3>2. lease[l].epoch \in Nat /\ run.epoch \in Nat
        BY <1>1 DEF LeaseStates, Runs
      <3>3. Fresh(q) => target[q].owner # l
        BY <1>1 DEF Fresh, Names
      <3> QED
        BY <3>1, <3>2, <3>3 DEF IsReserved
    <2> QED
      BY <2>1, <2>2
  <1>3. /\ lease' \in [Leases -> LeaseStates \cup {NoLease}]
        /\ lease'[l] = e
        /\ \A k \in Leases : k # l => lease'[k] = lease[k]
    BY <1>1 DEF Inv, TypeOK
  <1> SUFFICES ASSUME NEW q \in Processes, NEW k \in Leases, lease[k] \in LeaseStates
               PROVE  /\ lease'[k] \in LeaseStates
                      /\ lease[k].epoch <= lease'[k].epoch
                      /\ lease[k].status = "RELEASED" => lease'[k].status = "RELEASED"
                      /\ lease'[k].status = "ACTIVE" =>
                           lease[k].status = "ACTIVE" \/ lease[k].epoch < lease'[k].epoch
                      /\ IsReserved(k, q) =>
                           lease'[k].status = "ACTIVE" /\ lease'[k].epoch = lease[k].epoch
    BY DEF SoundLeaseStep
  <1>4. CASE k = l
    BY <1>2, <1>3, <1>4
  <1>5. CASE k # l
    BY <1>3, <1>5 DEF LeaseStates, IsReserved
  <1> QED
    BY <1>4, <1>5

-----------------------------------------------------------------------------
\* Commands begin.

LEMMA LoadedRun ==
  ASSUME Inv, NEW p \in Processes, Loads(p)
  PROVE  /\ run \in Runs /\ run # NoRun /\ ReturnsToWork(run) /\ Leased(run)
         /\ run.state_version < MaxVersion
         /\ UNCHANGED <<run, lease, active, author>>
  BY DEF Inv, TypeOK, RunInv, Loads

LEMMA IntendStep ==
  ASSUME Inv, NEW p \in Processes, Loads(p),
         NEW c \in Commands, NEW label \in Labels, NEW t \in Runs,
         Intend(p, c, label, run, t), ReturnsToWork(t), t.owner \in {run.owner, None}
  PROVE  /\ TypeOK' /\ OnlyMoves(p)
         /\ Leased(base[p])' /\ Leased(target[p])' /\ ReplyInv(p)' /\ Based(p)'
         /\ pc'[p] = label /\ command'[p] = c /\ base'[p] = run
         /\ target'[p] = [t EXCEPT !.state_version = run.state_version + 1]
  <1> DEFINE s == [t EXCEPT !.state_version = run.state_version + 1]
  <1>1. /\ run \in Runs /\ run # NoRun /\ ReturnsToWork(run) /\ Leased(run)
        /\ run.state_version < MaxVersion /\ run.state_version \in Nat
        /\ UNCHANGED <<run, lease, active, author>>
    BY LoadedRun DEF Runs
  <1>2. s \in Runs /\ s # NoRun
    BY <1>1, RecordFacts DEF Runs
  <1>3. /\ pc' = [pc EXCEPT ![p] = label] /\ command' = [command EXCEPT ![p] = c]
        /\ reply' = [reply EXCEPT ![p] = NoReply] /\ base' = [base EXCEPT ![p] = run]
        /\ target' = [target EXCEPT ![p] = s]
    BY DEF Intend, Goto
  <1>4. TypeOK'
    BY <1>1, <1>2, <1>3 DEF Inv, TypeOK
  <1>5. /\ pc'[p] = label /\ command'[p] = c /\ reply'[p] = NoReply /\ base'[p] = run
        /\ target'[p] = s
    BY <1>3 DEF Inv, TypeOK
  <1>6. s.owner \in {run.owner, None} /\ s.state_version = run.state_version + 1
    BY <1>2 DEF Runs
  <1>7. OnlyMoves(p)
    <2>1. \A q \in Processes \ {p} : Aside(q)
      BY <1>3 DEF Aside, Inv, TypeOK
    <2>2. CarriesNames(p)
      BY <1>1, <1>5, <1>6, LeaseNamesAssumption DEF CarriesNames, Names
    <2> QED
      BY <2>1, <2>2 DEF OnlyMoves
  <1>8. Leased(base[p])' /\ Leased(target[p])'
    BY <1>1, <1>5, <1>6 DEF Leased
  <1>9. ReplyInv(p)'
    BY <1>5 DEF ReplyInv, NoReply, None, Machine!None
  <1>10. Based(p)'
    <2>1. ReturnsToWork(s)
      BY <1>1 DEF ReturnsToWork, Runs
    <2>2. run.owner # None => run.epoch <= lease[run.owner].epoch
      BY <1>1 DEF Inv, RunInv, LeaseAgrees, Runs
    <2>3. run.epoch <= run.epoch /\ run.state_version <= run.state_version
      BY <1>1 DEF Runs
    <2>4. UNCHANGED <<run, lease>>
      BY <1>1
    <2> HIDE DEF s
    <2> QED
      BY <1>1, <1>2, <1>5, <1>6, <2>1, <2>2, <2>3, <2>4 DEF Based, IsCurrent, ReturnsToWork
  <1> QED
    BY <1>4, <1>5, <1>7, <1>8, <1>9, <1>10

LEMMA PauseKeepsInv ==
  ASSUME Inv, NEW p \in Processes, Pause(p)
  PROVE  Inv'
  <1> DEFINE t == [run EXCEPT !.status = "PAUSED", !.paused_from = run.status]
             label == IF run.owner = None THEN "cas" ELSE "freeze"
  <1>1. Loads(p) /\ Intend(p, "pause", label, run, t) /\ run.status \in Active
    BY LoadedRun, StatusFacts DEF Pause, ControlLoads, PauseAllowed, Active, Runs
  <1>2. /\ t \in Runs /\ t.status = "PAUSED" /\ t.paused_from = run.status
        /\ t.owner = run.owner /\ t.epoch = run.epoch
    BY <1>1, LoadedRun, StatusFacts DEF Runs
  <1>3. ReturnsToWork(t)
    BY <1>1, <1>2, LoadedRun DEF ReturnsToWork
  <1>4. label \in Labels /\ "pause" \in Commands
    BY DEF Labels, Commands
  <1> HIDE DEF t, label
  <1>5. /\ TypeOK' /\ OnlyMoves(p)
        /\ Leased(base[p])' /\ Leased(target[p])' /\ ReplyInv(p)' /\ Based(p)'
        /\ pc'[p] = label /\ command'[p] = "pause" /\ base'[p] = run
        /\ target'[p] = [t EXCEPT !.state_version = run.state_version + 1]
    BY <1>1, <1>2, <1>3, <1>4, IntendStep
  <1>6. Pausing(p)'
    BY <1>1, <1>2, <1>5 DEF label, Pausing, KeepsLease, Runs
  <1> QED
    BY <1>1, <1>5, <1>6, QuietStep, LoadedRun DEF ProcessInv, Phase

LEMMA AbortKeepsInv ==
  ASSUME Inv, NEW p \in Processes, Abort(p)
  PROVE  Inv'
  <1> DEFINE t == [run EXCEPT !.status = "ABORTED", !.owner = None, !.paused_from = None]
             label == IF run.owner = None THEN "cas" ELSE "release"
  <1>1. Loads(p) /\ Intend(p, "abort", label, run, t)
    BY DEF Abort, ControlLoads
  <1>2. t \in Runs /\ t.status = "ABORTED" /\ t.owner = None /\ t.epoch = run.epoch
    BY <1>1, LoadedRun, StatusFacts DEF Runs
  <1>3. ReturnsToWork(t)
    BY <1>1, <1>2, LoadedRun DEF ReturnsToWork
  <1>4. label \in Labels /\ "abort" \in Commands
    BY DEF Labels, Commands
  <1> HIDE DEF t, label
  <1>5. /\ TypeOK' /\ OnlyMoves(p)
        /\ Leased(base[p])' /\ Leased(target[p])' /\ ReplyInv(p)' /\ Based(p)'
        /\ pc'[p] = label /\ command'[p] = "abort" /\ base'[p] = run
        /\ target'[p] = [t EXCEPT !.state_version = run.state_version + 1]
    BY <1>1, <1>2, <1>3, <1>4, IntendStep
  <1>6. Ending(p)'
    BY <1>2, <1>5, StatusFacts DEF label, Ending, Runs
  <1> QED
    BY <1>1, <1>5, <1>6, QuietStep, LoadedRun DEF ProcessInv, Phase

LEMMA FinishKeepsInv ==
  ASSUME Inv, Finish
  PROVE  Inv'
  <1> DEFINE p == Production
             t == [run EXCEPT !.status = "DONE", !.owner = None]
  <1>1. /\ p \in Processes /\ Loads(p) /\ run.status = "SLICE_RUNNING" /\ run.owner # None
        /\ Intend(p, "finish", "release", run, t)
    BY DEF Finish, Processes
  <1>2. t \in Runs /\ t.status = "DONE" /\ t.owner = None /\ t.epoch = run.epoch
    BY <1>1, LoadedRun, StatusFacts DEF Runs
  <1>3. ReturnsToWork(t)
    BY <1>1, <1>2, LoadedRun DEF ReturnsToWork
  <1>4. "release" \in Labels /\ "finish" \in Commands
    BY DEF Labels, Commands
  <1> HIDE DEF t, p
  <1>5. /\ TypeOK' /\ OnlyMoves(p)
        /\ Leased(base[p])' /\ Leased(target[p])' /\ ReplyInv(p)' /\ Based(p)'
        /\ pc'[p] = "release" /\ command'[p] = "finish" /\ base'[p] = run
        /\ target'[p] = [t EXCEPT !.state_version = run.state_version + 1]
    BY <1>1, <1>2, <1>3, <1>4, IntendStep
  <1>6. Ending(p)'
    BY <1>1, <1>2, <1>5, StatusFacts DEF Ending, Runs
  <1> QED
    BY <1>1, <1>5, <1>6, QuietStep, LoadedRun DEF ProcessInv, Phase

LEMMA DispatchKeepsInv ==
  ASSUME Inv, Dispatch
  PROVE  Inv'
  <1> DEFINE p == Production
             t == [run EXCEPT !.status = "SLICE_RUNNING", !.dispatched = TRUE]
  <1>1. /\ p \in Processes /\ Loads(p) /\ run.status = "PREPARING"
        /\ Intend(p, "dispatch", "cas", run, t)
    BY DEF Dispatch, Processes
  <1>2. /\ t \in Runs /\ t.status = "SLICE_RUNNING"
        /\ t.owner = run.owner /\ t.epoch = run.epoch
    BY <1>1, LoadedRun, StatusFacts DEF Runs
  <1>3. ReturnsToWork(t)
    BY <1>1, <1>2, LoadedRun DEF ReturnsToWork
  <1>4. "cas" \in Labels /\ "dispatch" \in Commands
    BY DEF Labels, Commands
  <1> HIDE DEF t, p
  <1>5. /\ TypeOK' /\ OnlyMoves(p)
        /\ Leased(base[p])' /\ Leased(target[p])' /\ ReplyInv(p)' /\ Based(p)'
        /\ pc'[p] = "cas" /\ command'[p] = "dispatch" /\ base'[p] = run
        /\ target'[p] = [t EXCEPT !.state_version = run.state_version + 1]
    BY <1>1, <1>2, <1>3, <1>4, IntendStep
  <1>6. Plain(p)'
    BY <1>1, <1>2, <1>5, StatusFacts DEF Plain, KeepsLease, Runs
  <1> QED
    BY <1>1, <1>5, <1>6, QuietStep, LoadedRun DEF ProcessInv, Phase

LEMMA ResumePausedKeepsInv ==
  ASSUME Inv, NEW p \in Processes, ResumePaused(p)
  PROVE  Inv'
  <1> DEFINE t == [run EXCEPT !.status = run.paused_from, !.paused_from = None]
             label == IF run.owner = None THEN "acquire" ELSE "inspect"
  <1>1. Loads(p) /\ Intend(p, "resume", label, run, t) /\ run.status = "PAUSED"
    BY DEF ResumePaused, ControlLoads
  <1>2. run.paused_from \in Active
    BY <1>1, LoadedRun DEF ReturnsToWork
  <1>3. /\ t \in Runs /\ t.status = run.paused_from
        /\ t.owner = run.owner /\ t.epoch = run.epoch
    BY <1>1, <1>2, LoadedRun, StatusFacts DEF Runs
  <1>4. ReturnsToWork(t)
    BY <1>1, <1>2, <1>3, LoadedRun, StatusFacts DEF ReturnsToWork
  <1>5. label \in Labels /\ "resume" \in Commands
    BY DEF Labels, Commands
  <1> HIDE DEF t, label
  <1>6. /\ TypeOK' /\ OnlyMoves(p)
        /\ Leased(base[p])' /\ Leased(target[p])' /\ ReplyInv(p)' /\ Based(p)'
        /\ pc'[p] = label /\ command'[p] = "resume" /\ base'[p] = run
        /\ target'[p] = [t EXCEPT !.state_version = run.state_version + 1]
    BY <1>1, <1>3, <1>4, <1>5, IntendStep
  <1>7. Resuming(p)'
    BY <1>1, <1>2, <1>3, <1>6 DEF label, Resuming, Runs
  <1> QED
    BY <1>1, <1>6, <1>7, QuietStep, LoadedRun DEF ProcessInv, Phase

LEMMA RecoverKeepsInv ==
  ASSUME Inv, NEW p \in Processes, NEW resolution \in Resolutions, Recover(p, resolution)
  PROVE  Inv'
  <1> DEFINE t == [run EXCEPT !.status = run.last_successful, !.last_successful = None,
                              !.error = None]
  <1>1. PICK label \in {"cas", "reacquire", "releaseStale"} :
          /\ Intend(p, "resume", label, run, t)
          /\ label = "releaseStale" => run.owner # None
    BY Z3 DEF Recover
  <1>2. Loads(p) /\ run.status = "NEEDS_USER" /\ run.last_successful \in Active
    <2>1. /\ Loads(p) /\ run.status = "NEEDS_USER"
          /\ Machine!IsRunTransitionAllowed("NEEDS_USER", run.last_successful, None)
      BY DEF Recover, ControlLoads, Recoverable
    <2> QED
      BY <2>1, LoadedRun, RecoveryTarget DEF ReturnsToWork
  <1>3. /\ t \in Runs /\ t.status = run.last_successful
        /\ t.owner = run.owner /\ t.epoch = run.epoch
    BY <1>2, LoadedRun, StatusFacts DEF Runs
  <1>4. ReturnsToWork(t)
    BY <1>2, <1>3, LoadedRun, StatusFacts DEF ReturnsToWork
  <1>5. label \in Labels /\ "resume" \in Commands
    BY DEF Labels, Commands
  <1> HIDE DEF t
  <1>6. /\ TypeOK' /\ OnlyMoves(p)
        /\ Leased(base[p])' /\ Leased(target[p])' /\ ReplyInv(p)' /\ Based(p)'
        /\ pc'[p] = label /\ command'[p] = "resume" /\ base'[p] = run
        /\ target'[p] = [t EXCEPT !.state_version = run.state_version + 1]
    BY <1>1, <1>2, <1>3, <1>4, <1>5, IntendStep
  <1>7. Recovering(p)'
    BY <1>1, <1>2, <1>3, <1>6 DEF Recovering, KeepsLease, Runs
  <1> QED
    BY <1>2, <1>6, <1>7, QuietStep, LoadedRun DEF ProcessInv, Phase

LEMMA OverrideKeepsInv ==
  ASSUME Inv, NEW p \in Processes, NEW mode \in Modes, Override(p, mode)
  PROVE  Inv'
  <1> DEFINE t == [run EXCEPT !.mode = mode]
  <1>1. Loads(p)
    BY DEF Override, ControlLoads
  <1>2. CASE Intend(p, "override", "cas", run, t)
    <2>1. /\ t \in Runs /\ t.status = run.status
          /\ t.owner = run.owner /\ t.epoch = run.epoch
      BY <1>1, LoadedRun, StatusFacts DEF Runs
    <2>2. ReturnsToWork(t)
      BY <1>1, <2>1, LoadedRun DEF ReturnsToWork, Runs
    <2>3. "cas" \in Labels /\ "override" \in Commands
      BY DEF Labels, Commands
    <2> HIDE DEF t
    <2>4. /\ TypeOK' /\ OnlyMoves(p)
          /\ Leased(base[p])' /\ Leased(target[p])' /\ ReplyInv(p)' /\ Based(p)'
          /\ pc'[p] = "cas" /\ command'[p] = "override" /\ base'[p] = run
          /\ target'[p] = [t EXCEPT !.state_version = run.state_version + 1]
      BY <1>1, <1>2, <2>1, <2>2, <2>3, IntendStep
    <2>5. Plain(p)'
      BY <2>1, <2>4 DEF Plain, KeepsLease, Runs
    <2> QED
      BY <1>1, <2>4, <2>5, QuietStep, LoadedRun DEF ProcessInv, Phase
  <1>3. CASE Answer(p, [outcome |-> "OK", command |-> "override",
                        version |-> run.state_version])
    <2> DEFINE r == [outcome |-> "OK", command |-> "override", version |-> run.state_version]
    <2>1. r \in Replies
      BY <1>1, LoadedRun DEF Replies, Commands, Runs
    <2>2. /\ pc' = [pc EXCEPT ![p] = "idle"] /\ command' = [command EXCEPT ![p] = None]
          /\ base' = [base EXCEPT ![p] = NoRun] /\ target' = [target EXCEPT ![p] = NoRun]
          /\ reply' = [reply EXCEPT ![p] = r] /\ UNCHANGED <<run, lease, active, author>>
      BY <1>1, <1>3, LoadedRun DEF Answer, Goto
    <2>3. TypeOK'
      BY <2>1, <2>2 DEF Inv, TypeOK, Labels
    <2>4. OnlyMoves(p)
      BY <2>2 DEF OnlyMoves, Aside, CarriesNames, Names, Inv, TypeOK
    <2>5. ProcessInv(p)'
      BY <1>1, <2>2, LoadedRun
      DEF ProcessInv, Leased, Phase, Idle, ReplyInv, Inv, TypeOK, Runs
    <2> QED
      BY <2>2, <2>3, <2>4, <2>5, QuietStep
  <1> QED
    BY <1>2, <1>3 DEF Override

LEMMA StartKeepsInv ==
  ASSUME Inv, NEW p \in Processes, Start(p)
  PROVE  Inv'
  <1>1. /\ pc[p] = "idle" /\ pc' = [pc EXCEPT ![p] = "acquire"]
        /\ command' = [command EXCEPT ![p] = "start"] /\ reply' = [reply EXCEPT ![p] = NoReply]
        /\ UNCHANGED <<run, lease, active, base, target, author>>
    BY DEF Start, Goto
  <1>2. base[p] = NoRun /\ target[p] = NoRun
    BY <1>1
    DEF Inv, ProcessInv, Phase, Idle, Starting, Plain, Pausing, Ending, Resuming, Recovering
  <1>3. TypeOK'
    BY <1>1 DEF Inv, TypeOK, Labels, Commands
  <1>4. OnlyMoves(p)
    BY <1>1 DEF OnlyMoves, Aside, CarriesNames, Names, Inv, TypeOK
  <1>5. ProcessInv(p)'
    BY <1>1, <1>2
    DEF ProcessInv, Leased, Phase, Starting, ReplyInv, Inv, TypeOK, NoReply, None, Machine!None
  <1> QED
    BY <1>1, <1>3, <1>4, <1>5, QuietStep

\* Refuse, Crash, and every other step that answers and changes nothing.
LEMMA RejectionKeepsInv ==
  ASSUME Inv, NEW p \in Processes, NEW r \in Replies \cup {NoReply}, r.outcome # "OK",
         Answer(p, r), UNCHANGED <<run, lease, active, author>>
  PROVE  Inv'
  <1>1. /\ OnlyMoves(p) /\ ProcessInv(p)'
        /\ pc' \in [Processes -> Labels]
        /\ command' \in [Processes -> Commands \cup {None}]
        /\ base' \in [Processes -> Runs \cup {NoRun}]
        /\ target' \in [Processes -> Runs \cup {NoRun}]
        /\ reply' \in [Processes -> Replies \cup {NoReply}]
    BY EndsUnsuccessfully DEF Inv
  <1>2. TypeOK'
    BY <1>1 DEF Inv, TypeOK
  <1> QED
    BY <1>1, <1>2, QuietStep

LEMMA RejectKeepsInv ==
  ASSUME Inv, NEW p \in Processes, NEW code \in Codes, Reject(p, code),
         UNCHANGED <<run, lease, active, author>>
  PROVE  Inv'
  BY Refusals, RejectionKeepsInv DEF Reject, Inv, TypeOK

LEMMA RefuseKeepsInv ==
  ASSUME Inv, NEW p \in Processes, Refuse(p)
  PROVE  Inv'
  <1>1. "refused" \in Codes /\ None \in Commands \cup {None}
    BY DEF Codes
  <1> QED
    BY <1>1, Refusals, RejectionKeepsInv DEF Refuse

LEMMA CrashKeepsInv ==
  ASSUME Inv, NEW p \in Processes, Crash(p)
  PROVE  Inv'
  BY RejectionKeepsInv DEF Crash, NoReply, None, Machine!None

LEMMA FailureCodes == \A p \in Processes : GuardFailure(p) \in Codes
  BY Z3 DEF GuardFailure, Codes

-----------------------------------------------------------------------------
\* Calls on the guard.

\* Where a command is says what it is and what it knows.
LEMMA Situations ==
  ASSUME NEW p \in Processes, Phase(p)
  PROVE  /\ pc[p] = "freeze" => Pausing(p)
         /\ pc[p] \in {"inspect", "rotate"} => Resuming(p)
         /\ pc[p] \in {"releaseStale", "reacquire"} => Recovering(p)
         /\ pc[p] = "release" => Ending(p)
         /\ pc[p] = "acquire" => Resuming(p) \/ Starting(p)
         /\ pc[p] \in {"create", "undo"} => Starting(p)
         /\ pc[p] = "prepare" => Plain(p)
         /\ pc[p] = "cas" =>
              Plain(p) \/ Pausing(p) \/ Ending(p) \/ Resuming(p) \/ Recovering(p)
  BY DEF Phase, Idle, Starting, Plain, Pausing, Ending, Resuming, Recovering

\* The Run t names no lease that p did not know of, except one nobody had.
NamesNoOther(p, t) ==
  \A l \in Leases : Names(t, l) =>
    Names(base[p], l) \/ Names(target[p], l) \/ lease[l] = NoLease

LEMMA ContinueStep ==
  ASSUME TypeOK, NEW p \in Processes, NEW label \in Labels, Continue(p, label),
         base' = base, NEW t \in Runs \cup {NoRun}, target' = [target EXCEPT ![p] = t],
         NamesNoOther(p, t)
  PROVE  /\ OnlyMoves(p)
         /\ pc' \in [Processes -> Labels] /\ pc'[p] = label
         /\ command' = command /\ reply' = reply
         /\ target' \in [Processes -> Runs \cup {NoRun}] /\ target'[p] = t
  BY DEF Continue, Goto, TypeOK, OnlyMoves, Aside, CarriesNames, NamesNoOther

\* The invariant of the Run under a step on one lease that is at a known epoch.
LEMMA RunInvOfLeaseStep ==
  ASSUME Inv, NEW l \in Leases, NEW e \in LeaseStates, lease[l] \in LeaseStates,
         lease' = [lease EXCEPT ![l] = e], UNCHANGED run,
         Names(run, l) =>
           /\ e.epoch \in {run.epoch, run.epoch + 1}
           /\ e.status = "FROZEN" => e.epoch = run.epoch
           /\ run.status = "PAUSED" /\ e.status = "ACTIVE" => e.epoch = run.epoch + 1
  PROVE  RunInv'
  <1>1. /\ lease'[l] = e /\ \A k \in Leases : k # l => lease'[k] = lease[k]
        /\ run # NoRun /\ run.owner # None => run.owner \in Leases
    BY LeaseNamesAssumption DEF Inv, TypeOK, Runs
  <1>2. CASE Names(run, l)
    BY <1>1, <1>2 DEF Inv, RunInv, Leased, ReturnsToWork, LeaseAgrees, Names
  <1>3. CASE ~Names(run, l)
    BY <1>1, <1>3 DEF Inv, RunInv, Leased, ReturnsToWork, LeaseAgrees, Names
  <1> QED
    BY <1>2, <1>3

\* What a command that is about to call the guard knows of the lease of its Run.
LEMMA KnownLease ==
  ASSUME Inv, NEW p \in Processes, Based(p), base[p].owner # None
  PROVE  LET l == base[p].owner IN
         /\ l \in Leases /\ lease[l] \in LeaseStates
         /\ base[p] \in Runs /\ run \in Runs
         /\ Names(run, l) =>
              /\ base[p].epoch <= run.epoch
              /\ LeaseAgrees /\ run.owner = l /\ ReturnsToWork(run)
  BY RecordFacts, LeaseNamesAssumption
  DEF Based, Inv, TypeOK, ProcessInv, RunInv, Leased, Runs, Names

LEMMA FreezeKeepsInv ==
  ASSUME Inv, NEW p \in Processes, Freeze(p)
  PROVE  Inv'
  <1> DEFINE l == base[p].owner
             e == [lease[l] EXCEPT !.status = "FROZEN"]
  <1>1. Pausing(p) /\ Based(p) /\ l # None /\ UNCHANGED <<run, active, author>>
    BY Situations DEF Freeze, Inv, ProcessInv, Pausing
  <1>2. CASE Reject(p, GuardFailure(p)) /\ UNCHANGED lease
    BY <1>1, <1>2, RejectKeepsInv, FailureCodes
  <1>3. CASE /\ IsValid(l, base[p].epoch) /\ lease' = [lease EXCEPT ![l].status = "FROZEN"]
             /\ Continue(p, "cas") /\ UNCHANGED <<base, target>>
    <2>1. /\ l \in Leases /\ lease[l] \in LeaseStates /\ base[p] \in Runs /\ run \in Runs
          /\ Names(run, l) =>
               /\ base[p].epoch <= run.epoch
               /\ lease[l].epoch \in {run.epoch, run.epoch + 1}
      BY <1>1, KnownLease DEF LeaseAgrees
    <2>2. /\ lease[l].epoch = base[p].epoch /\ lease[l].status # "RELEASED"
          /\ lease' = [lease EXCEPT ![l] = e]
      BY <1>3 DEF IsValid
    <2>3. /\ e \in LeaseStates /\ e.status = "FROZEN" /\ e.epoch = lease[l].epoch
          /\ lease[l].epoch <= e.epoch
      BY <2>1 DEF LeaseStates
    <2> HIDE DEF e
    <2>4. \A q \in Processes : SoundLeaseStep(q)
      BY <1>1, <2>1, <2>2, <2>3, KnownLeaseStep
    <2>5. RunInv'
      <3>1. Names(run, l) => lease[l].epoch = run.epoch
        BY <2>1, <2>2 DEF Runs, LeaseStates
      <3> QED
        BY <1>1, <2>1, <2>2, <2>3, <3>1, RunInvOfLeaseStep
    <2>6. target[p] \in Runs \cup {NoRun} /\ target' = [target EXCEPT ![p] = target[p]]
      BY <1>3 DEF Inv, TypeOK
    <2>7. /\ OnlyMoves(p) /\ pc'[p] = "cas" /\ command' = command /\ reply' = reply
          /\ pc' \in [Processes -> Labels]
      BY <1>3, <2>6, ContinueStep DEF Inv, Labels, NamesNoOther
    <2>8. TypeOK'
      BY <1>1, <1>3, <2>2, <2>3, <2>7 DEF Inv, TypeOK
    <2>9. Based(p)' /\ Leased(base[p])'
      BY <1>1, <1>3, <2>4, BasedStays DEF Inv, ProcessInv, Based
    <2>10. lease'[l] = e
      BY <2>1, <2>2 DEF Inv, TypeOK
    <2>11. Pausing(p)'
      BY <1>1, <1>3, <2>3, <2>7, <2>9, <2>10 DEF Pausing, KeepsLease
    <2>12. Leased(target[p])' /\ ReplyInv(p)'
      BY <1>1, <1>3, <2>7, <2>9, RecordFacts DEF Inv, ProcessInv, Pausing, KeepsLease, Based, Leased, ReplyInv
    <2> QED
      BY <1>1, <2>4, <2>5, <2>7, <2>8, <2>9, <2>11, <2>12, LeaseStep DEF ProcessInv, Phase
  <1> QED
    BY <1>2, <1>3 DEF Freeze

LEMMA InspectKeepsInv ==
  ASSUME Inv, NEW p \in Processes, Inspect(p)
  PROVE  Inv'
  <1> DEFINE l == base[p].owner
  <1>1. /\ Resuming(p) /\ Based(p) /\ l # None /\ pc[p] = "inspect"
        /\ UNCHANGED <<run, lease, active, base, author>>
    BY Situations DEF Inspect, Inv, ProcessInv, Resuming
  <1>2. /\ l \in Leases /\ lease[l] \in LeaseStates /\ lease[l].epoch \in Nat
        /\ base[p] \in Runs /\ base[p] # NoRun /\ run \in Runs
        /\ target[p] \in Runs /\ target[p] # NoRun /\ target[p].owner = l
    BY <1>1, KnownLease, RecordFacts DEF LeaseStates, Based, Resuming
  <1>3. PICK label \in {"rotate", "cas", "acquire"}, t \in Runs :
          /\ Continue(p, label) /\ target' = [target EXCEPT ![p] = t]
          /\ t.owner = l /\ t.state_version = target[p].state_version
          /\ t.status = target[p].status /\ t.paused_from = target[p].paused_from
          /\ t.last_successful = target[p].last_successful /\ t.epoch > 0
          /\ label = "cas" => lease[l].status = "ACTIVE" /\ t.epoch = lease[l].epoch
    <2>1. CASE lease[l].status = "FROZEN"
      <3> DEFINE t == [target[p] EXCEPT !.epoch = lease[l].epoch + 1]
      <3>1. Continue(p, "rotate") /\ target' = [target EXCEPT ![p] = t]
        BY <2>1 DEF Inspect
      <3>2. /\ t \in Runs /\ t.owner = l /\ t.state_version = target[p].state_version
            /\ t.status = target[p].status /\ t.paused_from = target[p].paused_from
            /\ t.last_successful = target[p].last_successful /\ t.epoch > 0
        BY <1>2 DEF Runs
      <3> QED
        BY <3>1, <3>2
    <2>2. CASE lease[l].status = "ACTIVE"
      <3> DEFINE t == [target[p] EXCEPT !.epoch = lease[l].epoch]
      <3>1. Continue(p, "cas") /\ target' = [target EXCEPT ![p] = t]
        BY <2>2 DEF Inspect
      <3>2. /\ t \in Runs /\ t.owner = l /\ t.state_version = target[p].state_version
            /\ t.status = target[p].status /\ t.paused_from = target[p].paused_from
            /\ t.last_successful = target[p].last_successful /\ t.epoch = lease[l].epoch
            /\ lease[l].epoch > 0
        BY <1>2 DEF Runs, LeaseStates
      <3> QED
        BY <2>2, <3>1, <3>2
    <2>3. CASE lease[l].status \notin {"FROZEN", "ACTIVE"}
      <3>1. Continue(p, "acquire") /\ target' = [target EXCEPT ![p] = target[p]]
        BY <2>3 DEF Inspect, Inv, TypeOK
      <3>2. target[p].epoch > 0
        BY <1>1 DEF Based, ReturnsToWork
      <3> QED
        BY <1>2, <3>1, <3>2
    <2> QED
      BY <2>1, <2>2, <2>3
  <1>4. label \in Labels
    BY DEF Labels
  <1>5. NamesNoOther(p, t)
    BY <1>2, <1>3, RecordFacts DEF NamesNoOther, Names
  <1>6. /\ OnlyMoves(p) /\ pc'[p] = label /\ target'[p] = t
        /\ command' = command /\ reply' = reply
        /\ pc' \in [Processes -> Labels] /\ target' \in [Processes -> Runs \cup {NoRun}]
    BY <1>1, <1>3, <1>4, <1>5, ContinueStep DEF Inv
  <1>7. TypeOK'
    BY <1>1, <1>6 DEF Inv, TypeOK
  <1>8. SoundLeaseStep(p)
    BY <1>1 DEF SoundLeaseStep, LeaseStates, IsReserved
  <1>9. ReturnsToWork(t)
    BY <1>1, <1>3 DEF Based, ReturnsToWork
  <1>10. Based(p)' /\ Leased(base[p])'
    BY <1>1, <1>3, <1>6, <1>8, <1>9, BasedStays DEF Inv, ProcessInv
  <1>11. ASSUME label = "cas" PROVE Rotated(p)'
    <2>1. IsCurrent(p) => t.epoch = base[p].epoch + 1
      <3> SUFFICES ASSUME IsCurrent(p) PROVE t.epoch = base[p].epoch + 1
        OBVIOUS
      <3>1. base[p] = run /\ run.status = "PAUSED" /\ LeaseAgrees
        BY <1>1, <1>2 DEF Based, Resuming, Inv, RunInv
      <3> QED
        BY <1>3, <1>11, <3>1 DEF LeaseAgrees
    <2> QED
      BY <1>1, <1>3, <1>6, <1>11, <2>1 DEF Rotated, IsCurrent
  <1>12. Resuming(p)'
    BY <1>1, <1>2, <1>3, <1>6, <1>10, <1>11 DEF Resuming
  <1>13. Leased(target[p])' /\ ReplyInv(p)'
    BY <1>1, <1>2, <1>3, <1>6 DEF Inv, ProcessInv, Leased, ReplyInv
  <1> QED
    BY <1>1, <1>6, <1>7, <1>10, <1>12, <1>13, QuietStep DEF ProcessInv, Phase

LEMMA RotateKeepsInv ==
  ASSUME Inv, NEW p \in Processes, Rotate(p)
  PROVE  Inv'
  <1> DEFINE l == base[p].owner
             e == [status |-> "ACTIVE", epoch |-> target[p].epoch, expired |-> FALSE]
  <1>1. /\ Resuming(p) /\ Based(p) /\ l # None /\ pc[p] = "rotate" /\ target[p].owner = l
        /\ UNCHANGED <<run, active, author>>
    BY Situations DEF Rotate, Inv, ProcessInv, Resuming
  <1>2. CASE Reject(p, GuardFailure(p)) /\ UNCHANGED lease
    BY <1>1, <1>2, RejectKeepsInv, FailureCodes
  <1>3. CASE /\ IsValid(l, target[p].epoch - 1) /\ lease[l].status = "FROZEN"
             /\ lease' = [lease EXCEPT ![l] = e]
             /\ Continue(p, "cas") /\ UNCHANGED <<base, target>>
    <2>1. /\ l \in Leases /\ lease[l] \in LeaseStates /\ base[p] \in Runs /\ run \in Runs
          /\ target[p] \in Runs /\ target[p].epoch \in Nat /\ run.epoch \in Nat
          /\ base[p].epoch \in Nat
          /\ Names(run, l) =>
               /\ lease[l].epoch = run.epoch
      BY <1>1, <1>3, KnownLease DEF LeaseAgrees, Based, Runs
    <2>2. lease[l].epoch = target[p].epoch - 1 /\ lease[l].epoch \in Nat
      BY <1>3, <2>1 DEF IsValid, LeaseStates
    <2>3. /\ e \in LeaseStates /\ e.status = "ACTIVE" /\ e.epoch = lease[l].epoch + 1
          /\ e.epoch = target[p].epoch
          /\ lease[l].epoch < e.epoch /\ lease[l].epoch <= e.epoch
      BY <2>1, <2>2 DEF LeaseStates
    <2>4. lease' = [lease EXCEPT ![l] = e]
      BY <1>3
    <2> HIDE DEF e
    <2>5. \A q \in Processes : SoundLeaseStep(q)
      BY <1>1, <1>3, <2>3, <2>4, KnownLeaseStep
    <2>6. RunInv'
      BY <1>1, <2>1, <2>3, <2>4, RunInvOfLeaseStep
    <2>7. target[p] \in Runs \cup {NoRun} /\ target' = [target EXCEPT ![p] = target[p]]
      BY <1>3 DEF Inv, TypeOK
    <2>8. /\ OnlyMoves(p) /\ pc'[p] = "cas" /\ command' = command /\ reply' = reply
          /\ pc' \in [Processes -> Labels]
      BY <1>3, <2>7, ContinueStep DEF Inv, Labels, NamesNoOther
    <2>9. TypeOK'
      BY <1>1, <1>3, <2>3, <2>4, <2>8 DEF Inv, TypeOK
    <2>10. Based(p)' /\ Leased(base[p])'
      BY <1>1, <1>3, <2>5, BasedStays DEF Inv, ProcessInv, Based
    <2>11. lease'[l] = e
      BY <2>1, <2>4 DEF Inv, TypeOK
    <2>12. IsCurrent(p) => target[p].epoch = base[p].epoch + 1
      BY <1>1, <2>1, <2>3, RecordFacts DEF Based, Names
    <2>13. Resuming(p)'
      BY <1>1, <1>3, <2>3, <2>8, <2>10, <2>11, <2>12 DEF Resuming, Rotated, IsCurrent
    <2>14. Leased(target[p])' /\ ReplyInv(p)'
      BY <1>1, <1>3, <2>3, <2>8, <2>11 DEF Inv, ProcessInv, Leased, ReplyInv
    <2> QED
      BY <1>1, <2>5, <2>6, <2>8, <2>9, <2>10, <2>13, <2>14, LeaseStep DEF ProcessInv, Phase
  <1> QED
    BY <1>2, <1>3 DEF Rotate

\* A lease nobody had is acquired.
LEMMA AcquireKeepsInv ==
  ASSUME Inv, NEW p \in Processes, NEW l \in Leases, Acquire(p, l)
  PROVE  Inv'
  <1> DEFINE e == [status |-> "ACTIVE", epoch |-> 1, expired |-> FALSE]
             acquired == IF command[p] = "start" THEN InitialRun(l)
                         ELSE [target[p] EXCEPT !.owner = l, !.epoch = 1]
             next == IF command[p] = "start" THEN "create" ELSE "cas"
  <1>1. /\ lease[l] = NoLease /\ pc[p] \in {"acquire", "reacquire"}
        /\ UNCHANGED <<run, author>>
    BY DEF Acquire
  <1>2. CASE Reject(p, GuardFailure(p)) /\ UNCHANGED <<active, lease>>
    BY <1>1, <1>2, RejectKeepsInv, FailureCodes
  <1>3. CASE /\ active' = l /\ lease' = [lease EXCEPT ![l] = e]
             /\ target' = [target EXCEPT ![p] = acquired]
             /\ Continue(p, next) /\ UNCHANGED base
    <2>1. \/ /\ Starting(p) /\ base[p] = NoRun /\ acquired = InitialRun(l) /\ next = "create"
          \/ /\ Resuming(p) \/ Recovering(p)
             /\ Based(p) /\ command[p] = "resume"
             /\ acquired = [target[p] EXCEPT !.owner = l, !.epoch = 1] /\ next = "cas"
      BY <1>1, Situations DEF Inv, ProcessInv, Starting, Resuming, Recovering
    <2>2. PICK t \in Runs, label \in Labels :
            /\ target' = [target EXCEPT ![p] = t] /\ Continue(p, label)
            /\ t # NoRun /\ t.owner = l /\ t.epoch = 1
            /\ \/ /\ Starting(p) /\ base[p] = NoRun /\ t = InitialRun(l) /\ label = "create"
               \/ /\ Resuming(p) \/ Recovering(p)
                  /\ Based(p) /\ command[p] = "resume" /\ label = "cas"
                  /\ t.state_version = target[p].state_version
                  /\ t.status = target[p].status /\ ReturnsToWork(t)
      <3> HIDE DEF acquired, next
      <3>1. CASE /\ Starting(p) /\ base[p] = NoRun
                 /\ acquired = InitialRun(l) /\ next = "create"
        <4>1. /\ acquired \in Runs /\ acquired.owner = l /\ acquired.epoch = 1
              /\ next \in Labels
          BY <3>1, InitialRunFacts DEF Labels
        <4> QED
          BY <1>3, <3>1, <4>1, RecordFacts
      <3>2. CASE /\ Resuming(p) \/ Recovering(p)
                 /\ Based(p) /\ command[p] = "resume"
                 /\ acquired = [target[p] EXCEPT !.owner = l, !.epoch = 1] /\ next = "cas"
        <4>1. /\ acquired \in Runs /\ acquired.owner = l /\ acquired.epoch = 1
              /\ acquired.state_version = target[p].state_version
              /\ acquired.status = target[p].status
              /\ acquired.paused_from = target[p].paused_from
              /\ acquired.last_successful = target[p].last_successful
              /\ next \in Labels
          BY <3>2 DEF Based, Runs, Labels
        <4>2. ReturnsToWork(acquired)
          BY <3>2, <4>1 DEF Based, ReturnsToWork
        <4> QED
          BY <1>3, <3>2, <4>1, <4>2, RecordFacts
      <3> QED
        BY <2>1, <3>1, <3>2
    <2>4. /\ e \in LeaseStates /\ e.status = "ACTIVE" /\ e.epoch = 1
          /\ lease' = [lease EXCEPT ![l] = e]
      BY <1>3 DEF LeaseStates
    <2> HIDE DEF e, acquired, next
    <2>5. lease'[l] = e /\ \A k \in Leases : k # l => lease'[k] = lease[k]
      BY <2>4 DEF Inv, TypeOK
    <2>6. /\ ~Names(run, l)
          /\ \A q \in Processes : ~Names(base[q], l) /\ ~Names(target[q], l)
      BY <1>1, RecordFacts, LeaseNamesAssumption
      DEF Inv, RunInv, ProcessInv, Leased, Names
    <2>7. \A q \in Processes : SoundLeaseStep(q)
      <3> SUFFICES ASSUME NEW q \in Processes, NEW k \in Leases, lease[k] \in LeaseStates
                   PROVE  lease'[k] = lease[k] /\ lease[k].epoch <= lease'[k].epoch
        BY DEF SoundLeaseStep, IsReserved
      <3> QED
        BY <1>1, <2>5, RecordFacts DEF LeaseStates
    <2>8. RunInv'
      <3>1. run # NoRun /\ run.owner # None => lease'[run.owner] = lease[run.owner]
        BY <2>5, <2>6, LeaseNamesAssumption DEF Names, Inv, TypeOK, Runs
      <3> QED
        BY <1>1, <3>1 DEF Inv, RunInv, Leased, ReturnsToWork, LeaseAgrees
    <2>9. /\ OnlyMoves(p) /\ pc'[p] = label /\ target'[p] = t
          /\ command' = command /\ reply' = reply
          /\ pc' \in [Processes -> Labels] /\ target' \in [Processes -> Runs \cup {NoRun}]
      <3>1. NamesNoOther(p, t)
        BY <1>1, <2>2 DEF NamesNoOther, Names
      <3>2. /\ TypeOK /\ Continue(p, label) /\ UNCHANGED base
            /\ target' = [target EXCEPT ![p] = t]
        BY <1>3, <2>2 DEF Inv
      <3> QED
        BY <3>1, <3>2, ContinueStep
    <2>10. TypeOK'
      BY <1>1, <1>3, <2>4, <2>9 DEF Inv, TypeOK
    <2>11. Fresh(p)'
      <3>1. ASSUME NEW q \in Processes
            PROVE  ~Names(base[q], l)' /\ (q # p => ~Names(target[q], l)')
        BY <1>3, <2>6, <2>9 DEF OnlyMoves, Aside
      <3> QED
        BY <1>1, <2>2, <2>4, <2>5, <2>6, <2>9, <3>1 DEF Fresh
    <2>12. Leased(base[p])' /\ Leased(target[p])' /\ ReplyInv(p)'
      <3>1. Leased(target[p])'
        BY <2>2, <2>4, <2>5, <2>9 DEF Leased
      <3>2. Leased(base[p])'
        <4>1. base[p] # NoRun /\ base[p].owner # None =>
                base[p].owner \in Leases /\ base[p].owner # l
          BY <2>6, LeaseNamesAssumption DEF Inv, TypeOK, Runs, Names
        <4> QED
          BY <1>3, <2>5, <4>1 DEF Inv, ProcessInv, Leased
      <3>3. ReplyInv(p)'
        BY <1>1, <2>9 DEF Inv, ProcessInv, ReplyInv
      <3> QED
        BY <3>1, <3>2, <3>3
    <2>13. Phase(p)'
      <3>1. CASE Starting(p) /\ base[p] = NoRun /\ t = InitialRun(l) /\ label = "create"
        BY <1>3, <2>2, <2>9, <2>11, <3>1 DEF Phase, Starting, InitialRun
      <3>2. CASE /\ Resuming(p) \/ Recovering(p)
                 /\ Based(p) /\ command[p] = "resume" /\ label = "cas"
                 /\ t.state_version = target[p].state_version
                 /\ t.status = target[p].status /\ ReturnsToWork(t)
        <4>1. Based(p)'
          BY <1>1, <1>3, <2>2, <2>7, <2>9, <3>2, BasedStays DEF Inv, ProcessInv
        <4> QED
          BY <1>3, <2>9, <2>11, <3>2, <4>1 DEF Phase, Resuming, Recovering
      <3> QED
        BY <2>2, <3>1, <3>2
    <2> QED
      BY <1>1, <2>7, <2>8, <2>9, <2>10, <2>12, <2>13, LeaseStep DEF ProcessInv
  <1> QED
    BY <1>2, <1>3 DEF Acquire

\* Releasing a lease at the epoch a command knows, with or without the removal
\* of active.json.
LEMMA ReleaseOfKnownLease ==
  ASSUME Inv, NEW p \in Processes, Based(p), base[p].owner # None,
         CanRelease(base[p].owner, base[p].epoch),
         lease' = [lease EXCEPT ![base[p].owner].status = "RELEASED"],
         UNCHANGED run
  PROVE  /\ \A q \in Processes : SoundLeaseStep(q)
         /\ RunInv'
         /\ lease' \in [Leases -> LeaseStates \cup {NoLease}]
         /\ lease'[base[p].owner].status = "RELEASED"
  <1> DEFINE l == base[p].owner
             e == [lease[l] EXCEPT !.status = "RELEASED"]
  <1>1. /\ l \in Leases /\ lease[l] \in LeaseStates
        /\ Names(run, l) => lease[l].epoch \in {run.epoch, run.epoch + 1}
    BY KnownLease DEF LeaseAgrees
  <1>2. lease[l].epoch = base[p].epoch /\ lease' = [lease EXCEPT ![l] = e]
    BY DEF CanRelease
  <1>3. /\ e \in LeaseStates /\ e.status = "RELEASED" /\ e.epoch = lease[l].epoch
        /\ lease[l].epoch <= e.epoch
    BY <1>1 DEF LeaseStates
  <1> HIDE DEF e
  <1>4. \A q \in Processes : SoundLeaseStep(q)
    BY <1>1, <1>2, <1>3, KnownLeaseStep
  <1>5. RunInv'
    BY <1>1, <1>2, <1>3, RunInvOfLeaseStep
  <1> QED
    BY <1>1, <1>2, <1>3, <1>4, <1>5 DEF Inv, TypeOK

LEMMA ReleaseKeepsInv ==
  ASSUME Inv, NEW p \in Processes, Release(p)
  PROVE  Inv'
  <1> DEFINE l == base[p].owner
  <1>1. Ending(p) /\ Based(p) /\ l # None /\ UNCHANGED <<run, author>>
    BY Situations DEF Release, Inv, ProcessInv, Ending
  <1>2. CASE Reject(p, GuardFailure(p)) /\ UNCHANGED <<lease, active>>
    BY <1>1, <1>2, RejectKeepsInv, FailureCodes
  <1>3. CASE /\ CanRelease(l, base[p].epoch) /\ ReleaseEffect(l)
             /\ Continue(p, "cas") /\ UNCHANGED <<base, target>>
    <2>1. /\ \A q \in Processes : SoundLeaseStep(q)
          /\ RunInv'
          /\ lease' \in [Leases -> LeaseStates \cup {NoLease}]
          /\ lease'[l].status = "RELEASED"
      BY <1>1, <1>3, ReleaseOfKnownLease DEF ReleaseEffect
    <2>2. target[p] \in Runs \cup {NoRun} /\ target' = [target EXCEPT ![p] = target[p]]
      BY <1>3 DEF Inv, TypeOK
    <2>3. /\ OnlyMoves(p) /\ pc'[p] = "cas" /\ command' = command /\ reply' = reply
          /\ pc' \in [Processes -> Labels]
      BY <1>3, <2>2, ContinueStep DEF Inv, Labels, NamesNoOther
    <2>4. active' \in Leases \cup {None}
      BY <1>3 DEF ReleaseEffect, Inv, TypeOK
    <2>5. TypeOK'
      BY <1>1, <1>3, <2>1, <2>3, <2>4 DEF Inv, TypeOK
    <2>6. Based(p)' /\ Leased(base[p])'
      BY <1>1, <1>3, <2>1, BasedStays DEF Inv, ProcessInv, Based
    <2>7. Ending(p)'
      BY <1>1, <1>3, <2>1, <2>3, <2>6 DEF Ending
    <2>8. Leased(target[p])' /\ ReplyInv(p)'
      BY <1>1, <1>3, <2>3 DEF Inv, ProcessInv, Ending, Leased, ReplyInv
    <2> QED
      BY <1>1, <2>1, <2>3, <2>5, <2>6, <2>7, <2>8, LeaseStep DEF ProcessInv, Phase
  <1> QED
    BY <1>2, <1>3 DEF Release

LEMMA ReleaseStaleKeepsInv ==
  ASSUME Inv, NEW p \in Processes, ReleaseStale(p)
  PROVE  Inv'
  <1> DEFINE l == base[p].owner
  <1>1. /\ Recovering(p) /\ Based(p) /\ l # None /\ KeepsLease(p) /\ pc[p] = "releaseStale"
        /\ UNCHANGED <<run, author>>
    BY Situations DEF ReleaseStale, Inv, ProcessInv, Recovering
  <1>2. CASE Reject(p, GuardFailure(p)) /\ UNCHANGED <<lease, active>>
    BY <1>1, <1>2, RejectKeepsInv, FailureCodes
  <1>3. CASE /\ Continue(p, "reacquire") /\ UNCHANGED <<base, target>>
             /\ \/ CanRelease(l, base[p].epoch) /\ ReleaseEffect(l)
                \/ UNCHANGED <<lease, active>>
    <2>1. /\ \A q \in Processes : SoundLeaseStep(q)
          /\ RunInv'
          /\ lease' \in [Leases -> LeaseStates \cup {NoLease}]
          /\ active' \in Leases \cup {None}
      <3>1. CASE CanRelease(l, base[p].epoch) /\ ReleaseEffect(l)
        BY <1>1, <3>1, ReleaseOfKnownLease DEF ReleaseEffect, Inv, TypeOK
      <3>2. CASE UNCHANGED <<lease, active>>
        <4>1. \A q \in Processes : SoundLeaseStep(q)
          BY <3>2 DEF SoundLeaseStep, LeaseStates, IsReserved
        <4>2. RunInv'
          BY <1>1, <3>2 DEF Inv, RunInv, Leased, ReturnsToWork, LeaseAgrees
        <4> QED
          BY <3>2, <4>1, <4>2 DEF Inv, TypeOK
      <3> QED
        BY <1>3, <3>1, <3>2
    <2>2. target[p] \in Runs \cup {NoRun} /\ target' = [target EXCEPT ![p] = target[p]]
      BY <1>3 DEF Inv, TypeOK
    <2>3. /\ OnlyMoves(p) /\ pc'[p] = "reacquire" /\ command' = command /\ reply' = reply
          /\ pc' \in [Processes -> Labels]
      BY <1>3, <2>2, ContinueStep DEF Inv, Labels, NamesNoOther
    <2>4. TypeOK'
      BY <1>1, <1>3, <2>1, <2>3 DEF Inv, TypeOK
    <2>5. Based(p)' /\ Leased(base[p])'
      BY <1>1, <1>3, <2>1, BasedStays DEF Inv, ProcessInv, Based
    <2>6. Recovering(p)'
      BY <1>1, <1>3, <2>3, <2>5 DEF Recovering, KeepsLease
    <2>7. Leased(target[p])'
      BY <1>1, <1>3, <2>5, RecordFacts DEF Recovering, KeepsLease, Leased, Based
    <2>8. ReplyInv(p)'
      BY <1>1, <2>3 DEF Inv, ProcessInv, ReplyInv
    <2> QED
      BY <1>1, <2>1, <2>3, <2>4, <2>5, <2>6, <2>7, <2>8, LeaseStep DEF ProcessInv, Phase
  <1> QED
    BY <1>2, <1>3 DEF ReleaseStale

\* start gives back the lease it acquired, which may have become that of the Run
\* whose creation it was told had failed.
LEMMA UndoKeepsInv ==
  ASSUME Inv, NEW p \in Processes, Undo(p)
  PROVE  Inv'
  <1> DEFINE l == target[p].owner
             e == [lease[l] EXCEPT !.status = "RELEASED"]
  <1>1. /\ pc[p] = "undo" /\ Starting(p) /\ target[p] \in Runs /\ l \in Leases
        /\ UNCHANGED <<run, author>>
    BY Situations DEF Undo, Inv, ProcessInv, Starting
  <1>2. PICK code \in Codes : Reject(p, code)
    BY DEF Undo, Codes
  <1>3. CASE UNCHANGED <<lease, active>>
    BY <1>1, <1>2, <1>3, RejectKeepsInv
  <1>4. CASE CanRelease(l, 1) /\ ReleaseEffect(l)
    <2>1. lease[l] \in LeaseStates /\ l # None
      BY <1>1, RecordFacts, LeaseNamesAssumption DEF Inv, ProcessInv, Leased
    <2>2. lease[l].epoch = 1 /\ lease' = [lease EXCEPT ![l] = e]
      BY <1>4 DEF CanRelease, ReleaseEffect
    <2>3. e \in LeaseStates /\ e.status = "RELEASED" /\ e.epoch = 1
      BY <2>1, <2>2 DEF LeaseStates
    <2> HIDE DEF e
    <2>4. lease'[l] = e /\ \A k \in Leases : k # l => lease'[k] = lease[k]
      BY <1>1, <2>2 DEF Inv, TypeOK
    <2>5. ASSUME NEW q \in Processes \ {p} PROVE SoundLeaseStep(q)
      <3>1. ~IsReserved(l, q)
        <4>1. ~(Names(run, l) /\ lease[l].epoch = run.epoch + 1)
          BY <2>2 DEF Names, Inv, TypeOK, RunInv, ReturnsToWork, Runs
        <4>2. ~(Fresh(q) /\ target[q].owner = l)
          BY <1>1, RecordFacts DEF Fresh, Names
        <4> QED
          BY <4>1, <4>2 DEF IsReserved
      <3> SUFFICES ASSUME NEW k \in Leases, lease[k] \in LeaseStates
                   PROVE  /\ lease'[k] \in LeaseStates
                          /\ lease[k].epoch <= lease'[k].epoch
                          /\ lease[k].status = "RELEASED" => lease'[k].status = "RELEASED"
                          /\ lease'[k].status = "ACTIVE" =>
                               lease[k].status = "ACTIVE" \/ lease[k].epoch < lease'[k].epoch
                          /\ IsReserved(k, q) => lease'[k].status = "ACTIVE"
                                                  /\ lease'[k].epoch = lease[k].epoch
        BY DEF SoundLeaseStep
      <3>2. CASE k = l
        BY <2>2, <2>3, <2>4, <3>1, <3>2
      <3>3. CASE k # l
        BY <2>4, <3>3 DEF LeaseStates, IsReserved
      <3> QED
        BY <3>2, <3>3
    <2>6. RunInv'
      <3>1. Names(run, l) => lease[l].epoch \in {run.epoch, run.epoch + 1}
        BY <2>1 DEF Names, Inv, RunInv, LeaseAgrees
      <3> QED
        BY <1>1, <2>1, <2>2, <2>3, <3>1, RunInvOfLeaseStep
    <2>7. /\ OnlyMoves(p) /\ ProcessInv(p)'
          /\ pc' \in [Processes -> Labels]
          /\ command' \in [Processes -> Commands \cup {None}]
          /\ base' \in [Processes -> Runs \cup {NoRun}]
          /\ target' \in [Processes -> Runs \cup {NoRun}]
          /\ reply' \in [Processes -> Replies \cup {NoReply}]
      BY <1>2, Refusals, EndsUnsuccessfully DEF Reject, Inv, TypeOK
    <2>8. lease' \in [Leases -> LeaseStates \cup {NoLease}] /\ active' \in Leases \cup {None}
      BY <1>1, <1>4, <2>2, <2>3 DEF ReleaseEffect, Inv, TypeOK
    <2>9. TypeOK'
      BY <1>1, <2>7, <2>8 DEF Inv, TypeOK
    <2> QED
      BY <1>1, <2>5, <2>6, <2>7, <2>9, LeaseStep
  <1> QED
    BY <1>3, <1>4 DEF Undo

LEMMA GuardFailsKeepsInv ==
  ASSUME Inv, NEW p \in Processes, GuardFails(p)
  PROVE  Inv'
  <1>1. UNCHANGED <<run, active, author>> /\ Reject(p, GuardFailure(p))
    BY DEF GuardFails
  <1>2. CASE UNCHANGED lease
    BY <1>1, <1>2, RejectKeepsInv, FailureCodes
  <1>3. CASE /\ pc[p] \in {"release", "releaseStale"}
             /\ CanRelease(base[p].owner, base[p].epoch)
             /\ lease' = [lease EXCEPT ![base[p].owner].status = "RELEASED"]
    <2>1. Based(p) /\ base[p].owner # None
      BY <1>3, Situations DEF Inv, ProcessInv, Ending, Recovering
    <2>2. /\ \A q \in Processes : SoundLeaseStep(q)
          /\ RunInv'
          /\ lease' \in [Leases -> LeaseStates \cup {NoLease}]
      BY <1>1, <1>3, <2>1, ReleaseOfKnownLease
    <2>3. /\ OnlyMoves(p) /\ ProcessInv(p)'
          /\ pc' \in [Processes -> Labels]
          /\ command' \in [Processes -> Commands \cup {None}]
          /\ base' \in [Processes -> Runs \cup {NoRun}]
          /\ target' \in [Processes -> Runs \cup {NoRun}]
          /\ reply' \in [Processes -> Replies \cup {NoReply}]
      BY <1>1, FailureCodes, Refusals, EndsUnsuccessfully DEF Reject, Inv, TypeOK
    <2>4. TypeOK'
      BY <1>1, <2>2, <2>3 DEF Inv, TypeOK
    <2> QED
      BY <1>1, <2>2, <2>3, <2>4, LeaseStep
  <1> QED
    BY <1>2, <1>3 DEF GuardFails

LEMMA ExpireKeepsInv ==
  ASSUME Inv, NEW l \in Leases, Expire(l)
  PROVE  Inv'
  <1> DEFINE e == [lease[l] EXCEPT !.expired = TRUE]
  <1>1. /\ lease[l].status \in {"ACTIVE", "FROZEN"} /\ lease' = [lease EXCEPT ![l] = e]
        /\ UNCHANGED <<run, active, pc, command, base, target, reply, author>>
    BY DEF Expire
  <1>2. lease[l] \in LeaseStates
    BY <1>1 DEF Inv, TypeOK, NoLease, None, Machine!None
  <1>3. e \in LeaseStates /\ e.status = lease[l].status /\ e.epoch = lease[l].epoch
    BY <1>2 DEF LeaseStates
  <1> HIDE DEF e
  <1>4. lease'[l] = e /\ \A k \in Leases : k # l => lease'[k] = lease[k]
    BY <1>1 DEF Inv, TypeOK
  <1>5. ASSUME NEW q \in Processes PROVE ProcessInv(q)'
    <2>1. ASSUME NEW k \in Leases, lease[k] \in LeaseStates
          PROVE  /\ lease'[k] \in LeaseStates /\ lease'[k].epoch = lease[k].epoch
                 /\ lease'[k].status = lease[k].status
      BY <1>3, <1>4, <2>1
    <2>2. SoundLeaseStep(q)
      BY <2>1 DEF SoundLeaseStep, IsReserved, LeaseStates
    <2>3. Aside(q) /\ NoNewNames(q)
      BY <1>1 DEF Aside, NoNewNames
    <2> QED
      BY <1>1, <2>2, <2>3, OthersWhileLeaseMoves DEF Inv
  <1>6. RunInv'
    <2>1. Names(run, l) => LeaseAgrees /\ run.owner = l
      BY LeaseNamesAssumption DEF Inv, RunInv, Names
    <2> QED
      BY <1>1, <1>2, <1>3, <2>1, RunInvOfLeaseStep DEF LeaseAgrees
  <1>7. TypeOK'
    BY <1>1, <1>3 DEF Inv, TypeOK
  <1> QED
    BY <1>5, <1>6, <1>7 DEF Inv

-----------------------------------------------------------------------------
\* Calls on the run store, and the work of production.

\* Every process that is about to commit has loaded the Run.
LEMMA CommitterIsBased ==
  ASSUME NEW p \in Processes, Phase(p), pc[p] \in {"prepare", "cas"}
  PROVE  Based(p) /\ command[p] \in Commands
  BY Situations DEF Plain, Pausing, Ending, Resuming, Recovering, Commands

LEMMA CommitStep ==
  ASSUME Inv, NEW p \in Processes, pc[p] \in {"prepare", "cas"},
         run.state_version = base[p].state_version, Committed(p), UNCHANGED lease
  PROVE  /\ run' \in Runs /\ run # NoRun /\ run'.state_version = target[p].state_version
         /\ RunInv'
         /\ \A q \in Processes \ {p} : SoundRunStep(q)
         /\ author' \in [0 .. MaxVersion -> Authors \cup {NoAuthor}]
         /\ author'[target[p].state_version] = [by |-> p, command |-> command[p]]
  <1>1. /\ Based(p) /\ command[p] \in Commands /\ Leased(target[p])
        /\ base[p] = run /\ IsCurrent(p) /\ target[p] \in Runs /\ run \in Runs /\ run # NoRun
    BY CommitterIsBased, RecordFacts DEF Inv, ProcessInv, Based, IsCurrent
  <1>2. /\ run' = target[p]
        /\ author' = [author EXCEPT ![target[p].state_version] =
                        [by |-> p, command |-> command[p]]]
    BY DEF Committed
  <1>3. /\ run.state_version \in Nat /\ MaxVersion \in Nat
        /\ target[p].state_version = run.state_version + 1
        /\ run.state_version < MaxVersion
    BY <1>1, MaxVersionAssumption DEF Based, Runs
  <1>4. target[p].state_version \in 0 .. MaxVersion
    BY <1>3
  <1>5. [by |-> p, command |-> command[p]] \in Authors
    BY <1>1 DEF Authors
  <1>6. /\ author' \in [0 .. MaxVersion -> Authors \cup {NoAuthor}]
        /\ author'[target[p].state_version] = [by |-> p, command |-> command[p]]
        /\ \A v \in 0 .. run.state_version : author'[v] = author[v]
    BY <1>2, <1>3, <1>4, <1>5 DEF Inv, TypeOK
  <1>7. \/ Plain(p) \/ Pausing(p) \/ Ending(p) \/ Resuming(p) \/ Recovering(p)
    BY Situations DEF Inv, ProcessInv
  <1>8. /\ run.epoch \in Nat /\ target[p].epoch \in Nat
        /\ \/ target[p].owner = None
           \/ target[p].owner = run.owner /\ run.epoch <= target[p].epoch
           \/ Fresh(p)
    <2>1. run.epoch \in Nat /\ target[p].epoch \in Nat
      BY <1>1 DEF Runs
    <2>2. CASE Plain(p) \/ Pausing(p) \/ (Recovering(p) /\ KeepsLease(p))
      BY <1>1, <2>1, <2>2 DEF Plain, Pausing, KeepsLease
    <2>3. CASE Ending(p)
      BY <2>1, <2>3 DEF Ending
    <2>4. CASE Recovering(p) /\ ~KeepsLease(p)
      BY <2>1, <2>4 DEF Recovering
    <2>5. CASE Resuming(p)
      <3>1. Rotated(p) \/ Fresh(p)
        BY <2>5 DEF Resuming
      <3> QED
        BY <1>1, <2>1, <3>1 DEF Rotated
    <2> QED
      BY <1>7, <2>2, <2>3, <2>4, <2>5
  <1>9. ASSUME NEW q \in Processes \ {p} PROVE SoundRunStep(q)
    <2>1. Fresh(p) => ~Names(base[q], target[p].owner)
      BY DEF Fresh
    <2>2. Fresh(q) => target[p].owner # target[q].owner
      BY <1>1, RecordFacts DEF Fresh, Names
    <2> QED
      BY <1>1, <1>2, <1>3, <1>6, <1>8, <2>1, <2>2 DEF SoundRunStep
  <1>10. run'.state_version <= MaxVersion /\ ReturnsToWork(run)' /\ Leased(run)'
    BY <1>1, <1>2, <1>3 DEF Based, ReturnsToWork, Leased
  <1>11. ASSUME run'.owner # None PROVE LeaseAgrees'
    <2> DEFINE l == target[p].owner
    <2>1. l # None /\ l \in Leases /\ lease[l] \in LeaseStates
      BY <1>1, <1>2, <1>11, RecordFacts DEF Leased, Runs
    <2>2. CASE Fresh(p)
      <3>1. /\ lease[l].status = "ACTIVE" /\ lease[l].epoch = 1 /\ target[p].epoch = 1
            /\ target[p].status # "PAUSED"
        <4>1. ~KeepsLease(p)
          BY <1>1, <2>2 DEF Fresh, KeepsLease, Names
        <4>2. Resuming(p) \/ Recovering(p)
          BY <1>7, <2>1, <4>1 DEF Plain, Pausing, Ending
        <4> QED
          BY <2>2, <4>2, StatusFacts DEF Fresh, Resuming, Recovering
      <3> QED
        BY <1>2, <3>1 DEF LeaseAgrees
    <2>3. CASE Resuming(p) /\ Rotated(p)
      <3>1. /\ lease[l].status = "ACTIVE" /\ lease[l].epoch = target[p].epoch
            /\ target[p].status # "PAUSED" /\ target[p].epoch \in Nat
        BY <1>1, <2>3, StatusFacts DEF Rotated, Resuming, Runs
      <3> QED
        BY <1>2, <3>1 DEF LeaseAgrees
    <2>4. CASE KeepsLease(p)
      <3>1. LeaseAgrees /\ l = run.owner /\ target[p].epoch = run.epoch
        BY <1>1, <2>1, <2>4 DEF KeepsLease, Inv, RunInv
      <3>2. target[p].status = "PAUSED" /\ lease[l].status = "ACTIVE" =>
              lease[l].epoch = run.epoch + 1
        <4>1. CASE Pausing(p)
          BY <1>1, <2>1, <3>1, <4>1, RecordFacts DEF Pausing, LeaseAgrees, Runs
        <4>2. CASE target[p].status # "PAUSED"
          BY <4>2
        <4>3. CASE target[p].status = run.status
          BY <3>1, <4>3 DEF LeaseAgrees
        <4> QED
          BY <1>1, <1>7, <4>1, <4>2, <4>3, StatusFacts DEF Plain, Ending, Resuming, Recovering
      <3> QED
        BY <1>2, <3>1, <3>2 DEF LeaseAgrees
    <2> QED
      BY <1>7, <2>1, <2>2, <2>3, <2>4 DEF Plain, Pausing, Ending, Resuming, Recovering
  <1> QED
    BY <1>1, <1>2, <1>6, <1>9, <1>10, <1>11 DEF RunInv

LEMMA CompareAndSwapKeepsInv ==
  ASSUME Inv, NEW p \in Processes, CompareAndSwap(p)
  PROVE  Inv'
  <1>1. pc[p] \in {"prepare", "cas"} /\ UNCHANGED <<lease, active>>
    BY DEF CompareAndSwap
  <1>2. CASE Reject(p, "stale_state") /\ UNCHANGED <<run, author>>
    BY <1>1, <1>2, RejectKeepsInv DEF Codes
  <1>3. CASE /\ run.state_version = base[p].state_version
             /\ Committed(p) /\ Accept(p, target[p].state_version)
    <2> DEFINE r == [outcome |-> "OK", command |-> command[p], version |-> target[p].state_version]
    <2>1. Based(p) /\ command[p] \in Commands
      BY <1>1, CommitterIsBased DEF Inv, ProcessInv
    <2>2. /\ run' \in Runs /\ run # NoRun /\ run'.state_version = target[p].state_version
          /\ RunInv'
          /\ \A q \in Processes \ {p} : SoundRunStep(q)
          /\ author' \in [0 .. MaxVersion -> Authors \cup {NoAuthor}]
          /\ author'[target[p].state_version] = [by |-> p, command |-> command[p]]
      BY <1>1, <1>3, CommitStep
    <2>3. r \in Replies /\ target[p].state_version \in Nat
      BY <2>1 DEF Replies, Based, Runs
    <2>4. /\ pc' = [pc EXCEPT ![p] = "idle"] /\ command' = [command EXCEPT ![p] = None]
          /\ base' = [base EXCEPT ![p] = NoRun] /\ target' = [target EXCEPT ![p] = NoRun]
          /\ reply' = [reply EXCEPT ![p] = r]
      BY <1>3 DEF Accept, Answer, Goto
    <2>5. TypeOK'
      BY <1>1, <2>2, <2>3, <2>4 DEF Inv, TypeOK, Labels
    <2>6. OnlyMoves(p)
      BY <2>4 DEF OnlyMoves, Aside, CarriesNames, Names, Inv, TypeOK
    <2>7. /\ pc'[p] = "idle" /\ command'[p] = None /\ base'[p] = NoRun /\ target'[p] = NoRun
          /\ reply'[p] = r
      BY <2>4 DEF Inv, TypeOK
    <2>8. ReplyInv(p)'
      <3>1. run' # NoRun /\ r.version <= run'.state_version
        BY <2>2, <2>3, RecordFacts
      <3> QED
        BY <2>2, <2>7, <3>1 DEF ReplyInv
    <2>9. ProcessInv(p)'
      BY <2>7, <2>8 DEF ProcessInv, Leased, Phase, Idle
    <2> QED
      BY <1>1, <2>2, <2>5, <2>6, <2>9, RunStep
  <1> QED
    BY <1>2, <1>3 DEF CompareAndSwap

\* start creates the Run, or the store fails after it did.
LEMMA CreationStep ==
  ASSUME Inv, NEW p \in Processes, pc[p] = "create", run = NoRun, Committed(p), UNCHANGED lease
  PROVE  /\ RunInv'
         /\ \A q \in Processes \ {p} : SoundRunStep(q)
         /\ author' \in [0 .. MaxVersion -> Authors \cup {NoAuthor}]
         /\ run' = target[p] /\ target[p] = InitialRun(target[p].owner)
         /\ target[p] \in Runs /\ target[p].owner \in Leases /\ Leased(target[p])
         /\ target[p].status = "IDLE" /\ target[p].epoch = 1 /\ target[p].state_version = 0
         /\ ReturnsToWork(target[p])
         /\ lease[target[p].owner].epoch = 1 /\ base[p] = NoRun
  <1> DEFINE l == target[p].owner
  <1>1. /\ target[p] = InitialRun(l) /\ Fresh(p) /\ l \in Leases
        /\ command[p] = "start" /\ base[p] = NoRun /\ Leased(target[p])
        /\ lease[l].epoch = 1
    BY Situations DEF Inv, ProcessInv, Starting, Fresh
  <1>2. /\ run' = target[p]
        /\ author' = [author EXCEPT ![target[p].state_version] =
                        [by |-> p, command |-> command[p]]]
    BY DEF Committed
  <1>3. /\ InitialRun(l) \in Runs /\ InitialRun(l).status = "IDLE" /\ InitialRun(l).epoch = 1
        /\ InitialRun(l).state_version = 0
    BY <1>1, InitialRunFacts
  <1>4. target[p] \in Runs /\ ReturnsToWork(target[p])
    BY <1>1, <1>3 DEF ReturnsToWork
  <1>5. [by |-> p, command |-> command[p]] \in Authors
    BY <1>1 DEF Authors, Commands
  <1>6. author' \in [0 .. MaxVersion -> Authors \cup {NoAuthor}]
    BY <1>2, <1>5 DEF Inv, TypeOK
  <1>7. RunInv'
    BY <1>1, <1>2, <1>3, <1>4, MaxVersionAssumption
    DEF RunInv, Leased, ReturnsToWork, LeaseAgrees
  <1>8. ASSUME NEW q \in Processes \ {p} PROVE SoundRunStep(q)
    <2>1. ~Names(base[q], l)
      BY <1>1 DEF Fresh
    <2>2. Fresh(q) => l # target[q].owner
      BY <1>1, <1>4, RecordFacts DEF Fresh, Names
    <2> QED
      BY <1>2, <1>4, <2>1, <2>2 DEF SoundRunStep
  <1> QED
    BY <1>1, <1>2, <1>3, <1>4, <1>6, <1>7, <1>8

LEMMA UndoFollows ==
  ASSUME Inv, NEW p \in Processes, pc[p] = "create",
         Continue(p, "undo"), UNCHANGED <<base, target, lease, active>>
  PROVE  /\ OnlyMoves(p) /\ pc' \in [Processes -> Labels]
         /\ command' = command /\ reply' = reply
         /\ (ReplyInv(p)' => ProcessInv(p)')
  <1>1. target[p] \in Runs \cup {NoRun} /\ target' = [target EXCEPT ![p] = target[p]]
    BY DEF Inv, TypeOK
  <1>2. /\ OnlyMoves(p) /\ pc'[p] = "undo" /\ command' = command /\ reply' = reply
        /\ pc' \in [Processes -> Labels]
    BY <1>1, ContinueStep DEF Inv, Labels, NamesNoOther
  <1>3. /\ command[p] = "start" /\ base[p] = NoRun
        /\ target[p] = InitialRun(target[p].owner) /\ target[p].owner \in Leases
    BY Situations DEF Inv, ProcessInv, Starting, Fresh
  <1>4. target[p] \in Runs
    <2>1. PICK r \in Runs : r = InitialRun(target[p].owner)
      BY <1>3, InitialRunFacts
    <2> QED
      BY <1>3, <2>1
  <1>5. Starting(p)'
    BY <1>2, <1>3, <1>4 DEF Starting
  <1>6. Leased(base[p])' /\ Leased(target[p])'
    BY DEF Inv, ProcessInv, Leased
  <1> QED
    BY <1>2, <1>5, <1>6 DEF ProcessInv, Phase

\* Nobody was acknowledged before the Run exists.
LEMMA NoReplyBeforeTheRun ==
  ASSUME Inv, NEW p \in Processes, run = NoRun
  PROVE  reply[p].outcome # "OK"
  BY DEF Inv, ProcessInv, ReplyInv

LEMMA CreateKeepsInv ==
  ASSUME Inv, NEW p \in Processes, Create(p)
  PROVE  Inv'
  <1>1. pc[p] = "create" /\ UNCHANGED <<lease, active>>
    BY DEF Create
  <1>2. CASE run # NoRun
    <2>1. Continue(p, "undo") /\ UNCHANGED <<run, author, base, target>>
      BY <1>2 DEF Create
    <2>2. /\ OnlyMoves(p) /\ pc' \in [Processes -> Labels]
          /\ command' = command /\ reply' = reply
          /\ (ReplyInv(p)' => ProcessInv(p)')
      BY <1>1, <2>1, UndoFollows
    <2>3. ReplyInv(p)'
      BY <2>1, <2>2 DEF Inv, ProcessInv, ReplyInv
    <2>4. TypeOK'
      BY <1>1, <2>1, <2>2 DEF Inv, TypeOK
    <2> QED
      BY <1>1, <2>1, <2>2, <2>3, <2>4, QuietStep
  <1>3. CASE run = NoRun
    <2>1. /\ Committed(p) /\ Continue(p, "prepare")
          /\ target' = [target EXCEPT ![p] = Prepared(target[p])]
          /\ base' = [base EXCEPT ![p] = target[p]]
      BY <1>3 DEF Create, Inv, TypeOK
    <2>2. /\ RunInv'
          /\ \A q \in Processes \ {p} : SoundRunStep(q)
          /\ author' \in [0 .. MaxVersion -> Authors \cup {NoAuthor}]
          /\ run' = target[p] /\ target[p] \in Runs /\ target[p].owner \in Leases
          /\ Leased(target[p]) /\ target[p].status = "IDLE" /\ target[p].epoch = 1
          /\ target[p].state_version = 0 /\ ReturnsToWork(target[p])
          /\ lease[target[p].owner].epoch = 1 /\ base[p] = NoRun
      BY <1>1, <1>3, <2>1, CreationStep
    <2>3. PICK t \in Runs :
            /\ t = Prepared(target[p]) /\ t.owner = target[p].owner /\ t.epoch = 1
            /\ t.state_version = 1 /\ t.status = "PREPARING"
      BY <2>2, PreparedFacts
    <2>4. /\ pc' = [pc EXCEPT ![p] = "prepare"] /\ command' = command /\ reply' = reply
          /\ target' = [target EXCEPT ![p] = t] /\ base' = [base EXCEPT ![p] = target[p]]
      BY <2>1, <2>3 DEF Continue, Goto
    <2>5. TypeOK'
      BY <1>1, <2>2, <2>4 DEF Inv, TypeOK, Labels
    <2>6. /\ pc'[p] = "prepare" /\ base'[p] = target[p] /\ target'[p] = t
          /\ command'[p] = "start"
      BY <1>1, <2>4, Situations DEF Inv, TypeOK, ProcessInv, Starting
    <2>7. OnlyMoves(p)
      BY <2>3, <2>4, <2>6, <2>2, RecordFacts
      DEF OnlyMoves, Aside, CarriesNames, Names, Inv, TypeOK
    <2>8. Based(p)'
      BY <1>1, <2>2, <2>3, <2>6, MaxVersionAssumption DEF Based, IsCurrent, ReturnsToWork
    <2>9. Plain(p)'
      BY <2>2, <2>3, <2>6, <2>8, StatusFacts DEF Plain, KeepsLease
    <2>10. Leased(base[p])' /\ Leased(target[p])' /\ ReplyInv(p)'
      BY <1>1, <1>3, <2>2, <2>3, <2>4, <2>6, RecordFacts, NoReplyBeforeTheRun
      DEF Leased, ReplyInv
    <2> QED
      BY <1>1, <2>2, <2>5, <2>7, <2>9, <2>10, RunStep DEF ProcessInv, Phase
  <1> QED
    BY <1>2, <1>3

LEMMA StoreFailsKeepsInv ==
  ASSUME Inv, NEW p \in Processes, StoreFails(p)
  PROVE  Inv'
  <1>1. pc[p] \in {"create", "prepare", "cas"} /\ UNCHANGED <<lease, active>>
    BY DEF StoreFails
  <1>2. CASE pc[p] = "create"
    <2>1. Continue(p, "undo") /\ UNCHANGED <<base, target>>
      BY <1>2 DEF StoreFails
    <2>2. /\ OnlyMoves(p) /\ pc' \in [Processes -> Labels]
          /\ command' = command /\ reply' = reply
          /\ (ReplyInv(p)' => ProcessInv(p)')
      BY <1>1, <1>2, <2>1, UndoFollows
    <2>3. CASE UNCHANGED <<run, author>>
      <3>1. ReplyInv(p)'
        BY <2>2, <2>3 DEF Inv, ProcessInv, ReplyInv
      <3>2. TypeOK'
        BY <1>1, <2>1, <2>2, <2>3 DEF Inv, TypeOK
      <3> QED
        BY <1>1, <2>2, <2>3, <3>1, <3>2, QuietStep
    <2>4. CASE run = NoRun /\ Committed(p)
      <3>1. /\ RunInv'
            /\ \A q \in Processes \ {p} : SoundRunStep(q)
            /\ author' \in [0 .. MaxVersion -> Authors \cup {NoAuthor}]
            /\ run' = target[p] /\ target[p] \in Runs
        BY <1>1, <1>2, <2>4, CreationStep
      <3>2. ReplyInv(p)'
        BY <2>2, <2>4, NoReplyBeforeTheRun DEF ReplyInv
      <3>3. TypeOK'
        BY <1>1, <2>1, <2>2, <3>1 DEF Inv, TypeOK
      <3> QED
        BY <1>1, <2>2, <3>1, <3>2, <3>3, RunStep
    <2> QED
      BY <1>2, <2>3, <2>4 DEF StoreFails
  <1>3. CASE pc[p] # "create"
    <2>1. Reject(p, "state_persist_failed") /\ pc[p] \in {"prepare", "cas"}
      BY <1>1, <1>3 DEF StoreFails
    <2>2. CASE UNCHANGED <<run, author>>
      BY <1>1, <2>1, <2>2, RejectKeepsInv DEF Codes
    <2>3. CASE run.state_version = base[p].state_version /\ Committed(p)
      <3>1. /\ run' \in Runs /\ RunInv'
            /\ \A q \in Processes \ {p} : SoundRunStep(q)
            /\ author' \in [0 .. MaxVersion -> Authors \cup {NoAuthor}]
        BY <1>1, <2>1, <2>3, CommitStep
      <3>2. "state_persist_failed" \in Codes
        BY DEF Codes
      <3>3. /\ OnlyMoves(p) /\ ProcessInv(p)'
            /\ pc' \in [Processes -> Labels]
            /\ command' \in [Processes -> Commands \cup {None}]
            /\ base' \in [Processes -> Runs \cup {NoRun}]
            /\ target' \in [Processes -> Runs \cup {NoRun}]
            /\ reply' \in [Processes -> Replies \cup {NoReply}]
        BY <2>1, <3>2, Refusals, EndsUnsuccessfully DEF Reject, Inv, TypeOK
      <3>4. TypeOK'
        BY <1>1, <3>1, <3>3 DEF Inv, TypeOK
      <3> QED
        BY <1>1, <3>1, <3>3, <3>4, RunStep
    <2> QED
      BY <1>3, <2>2, <2>3 DEF StoreFails
  <1> QED
    BY <1>2, <1>3

\* One transition of production that keeps the lease.
LEMMA WorkKeepsInv ==
  ASSUME Inv, run # NoRun, NEW s \in Runs, Work(s), ReturnsToWork(s),
         s.owner = run.owner, s.epoch = run.epoch, s.status # "PAUSED"
  PROVE  Inv'
  <1> DEFINE t == [s EXCEPT !.state_version = run.state_version + 1]
  <1>1. /\ run \in Runs /\ run.state_version \in Nat /\ run.state_version < MaxVersion
        /\ run.epoch \in Nat /\ run.state_version + 1 \in 0 .. MaxVersion
        /\ run.state_version + 1 <= MaxVersion
    BY MaxVersionAssumption DEF Work, Inv, TypeOK, Runs
  <1>2. /\ t \in Runs /\ t.state_version = run.state_version + 1
        /\ t.owner = run.owner /\ t.epoch = run.epoch /\ t.status = s.status
        /\ t.paused_from = s.paused_from /\ t.last_successful = s.last_successful
    BY <1>1 DEF Runs
  <1>3. /\ run' = t /\ UNCHANGED <<lease, active, pc, command, base, target, reply>>
        /\ author' = [author EXCEPT ![run.state_version + 1] =
                        [by |-> Production, command |-> "work"]]
    BY DEF Work
  <1> HIDE DEF t
  <1>4. [by |-> Production, command |-> "work"] \in Authors
    BY DEF Authors, Processes
  <1>5. TypeOK'
    BY <1>2, <1>3, <1>4 DEF Inv, TypeOK
  <1>6. RunInv'
    BY <1>1, <1>2, <1>3 DEF Inv, RunInv, Leased, ReturnsToWork, LeaseAgrees
  <1>7. ASSUME NEW q \in Processes PROVE ProcessInv(q)'
    <2>1. Aside(q) /\ NoNewNames(q)
      BY <1>3 DEF Aside, NoNewNames
    <2>2. \A v \in 0 .. run.state_version : author'[v] = author[v]
      BY <1>1, <1>3, MaxVersionAssumption DEF Inv, TypeOK
    <2>3. SoundRunStep(q)
      BY <1>1, <1>2, <1>3, <2>2 DEF SoundRunStep
    <2> QED
      BY <1>3, <2>1, <2>3, OthersWhileRunMoves DEF Inv
  <1> QED
    BY <1>5, <1>6, <1>7 DEF Inv

LEMMA ProceedKeepsInv ==
  ASSUME Inv, NEW to \in WorkStatuses, Proceed(to)
  PROVE  Inv'
  <1> DEFINE s == [run EXCEPT !.status = to]
  <1>1. Work(s) /\ run # NoRun /\ run \in Runs /\ ReturnsToWork(run)
    BY DEF Proceed, Work, Inv, TypeOK, RunInv
  <1>2. /\ s \in Runs /\ s.owner = run.owner /\ s.epoch = run.epoch /\ s.status = to
    BY <1>1, StatusFacts DEF Runs
  <1>3. ReturnsToWork(s) /\ s.status # "PAUSED"
    BY <1>1, <1>2, StatusFacts DEF ReturnsToWork
  <1> QED
    BY <1>1, <1>2, <1>3, WorkKeepsInv

LEMMA CloseFailureKeepsInv ==
  ASSUME Inv, NEW error \in Errors, CloseFailure(error)
  PROVE  Inv'
  <1> DEFINE s == [run EXCEPT !.status = "NEEDS_USER", !.last_successful = run.status,
                              !.error = error]
  <1>1. /\ Work(s) /\ run # NoRun /\ run \in Runs /\ ReturnsToWork(run)
        /\ run.status \notin {"NEEDS_USER", "DONE", "ABORTED"}
    BY DEF CloseFailure, Work, Inv, TypeOK, RunInv
  <1>2. /\ s \in Runs /\ s.owner = run.owner /\ s.epoch = run.epoch
        /\ s.status = "NEEDS_USER" /\ s.last_successful = run.status
    BY <1>1, StatusFacts DEF Runs
  <1>3. ReturnsToWork(s) /\ s.status # "PAUSED"
    BY <1>1, <1>2, StatusFacts DEF ReturnsToWork
  <1> QED
    BY <1>1, <1>2, <1>3, WorkKeepsInv

-----------------------------------------------------------------------------
\* Theorems.

LEMMA InitEstablishesInv == Init => Inv
  <1> SUFFICES ASSUME Init PROVE Inv
    OBVIOUS
  <1>1. TypeOK
    BY DEF Init, TypeOK, Labels
  <1>2. RunInv
    BY DEF Init, RunInv, Leased
  <1>3. ASSUME NEW p \in Processes PROVE ProcessInv(p)
    BY DEF Init, ProcessInv, Leased, Phase, Idle, ReplyInv, NoReply, None, Machine!None
  <1> QED
    BY <1>1, <1>2, <1>3 DEF Inv

LEMMA StepKeepsInv == Inv /\ [Next]_vars => Inv'
  <1> SUFFICES ASSUME Inv, [Next]_vars PROVE Inv'
    OBVIOUS
  <1>1. CASE Dispatch \/ Finish
    BY <1>1, DispatchKeepsInv, FinishKeepsInv
  <1>2. ASSUME NEW p \in Processes,
               \/ Start(p) \/ Pause(p) \/ Abort(p) \/ ResumePaused(p) \/ Refuse(p)
               \/ \E resolution \in Resolutions : Recover(p, resolution)
               \/ \E mode \in Modes : Override(p, mode)
        PROVE  Inv'
    BY <1>2, StartKeepsInv, PauseKeepsInv, AbortKeepsInv, ResumePausedKeepsInv, RefuseKeepsInv,
       RecoverKeepsInv, OverrideKeepsInv
  <1>3. ASSUME NEW p \in Processes,
               \/ Freeze(p) \/ Inspect(p) \/ Rotate(p) \/ Release(p) \/ ReleaseStale(p)
               \/ Undo(p) \/ GuardFails(p)
               \/ \E l \in Leases : Acquire(p, l)
        PROVE  Inv'
    BY <1>3, FreezeKeepsInv, InspectKeepsInv, RotateKeepsInv, ReleaseKeepsInv,
       ReleaseStaleKeepsInv, UndoKeepsInv, GuardFailsKeepsInv, AcquireKeepsInv
  <1>4. ASSUME NEW p \in Processes,
               Create(p) \/ CompareAndSwap(p) \/ StoreFails(p) \/ Crash(p)
        PROVE  Inv'
    BY <1>4, CreateKeepsInv, CompareAndSwapKeepsInv, StoreFailsKeepsInv, CrashKeepsInv
  <1>5. CASE \E l \in Leases : Expire(l)
    BY <1>5, ExpireKeepsInv
  <1>6. CASE \E to \in WorkStatuses : Proceed(to)
    BY <1>6, ProceedKeepsInv
  <1>7. CASE \E error \in Errors : CloseFailure(error)
    BY <1>7, CloseFailureKeepsInv
  <1>8. CASE UNCHANGED vars
    BY <1>8
    DEF vars, Inv, TypeOK, RunInv, ProcessInv, Leased, ReturnsToWork, LeaseAgrees, Phase, Idle,
        Starting, Plain, Pausing, Ending, Resuming, Recovering, Based, KeepsLease, Fresh,
        Rotated, IsCurrent, ReplyInv
  <1> QED
    BY <1>1, <1>2, <1>3, <1>4, <1>5, <1>6, <1>7, <1>8 DEF Next

LEMMA ControlInvariant == Spec => []Inv
  BY InitEstablishesInv, StepKeepsInv, PTL DEF Spec

LEMMA InvImpliesAgreement == Inv => RunAndLeaseAgree
  <1> SUFFICES ASSUME Inv, run # NoRun, run.owner # None
               PROVE  /\ lease[run.owner].epoch \in {run.epoch, run.epoch + 1}
                      /\ run.status = "PAUSED" /\ lease[run.owner].status = "ACTIVE" =>
                           lease[run.owner].epoch > run.epoch
    BY DEF Inv, RunAndLeaseAgree, PausedRunCannotWrite, EpochsStayTogether
  <1>1. LeaseAgrees /\ run.epoch \in Nat
    BY DEF Inv, RunInv, TypeOK, Runs
  <1> QED
    BY <1>1 DEF LeaseAgrees

\* Whatever commands, production, expiries, failures and crashes do to each other:
\* nobody writes for a paused Run, and a Run and its lease are at most one rotation
\* apart (control-plane/runtime.ts, the order of guard and store calls).
THEOREM ControlRunAndLeaseAgree == Spec => []RunAndLeaseAgree
  BY ControlInvariant, InvImpliesAgreement, PTL

\* A command that was answered OK is in the history of the Run under its own name,
\* at the version it was told (control-plane.ts, the results of compareAndSwap).
THEOREM ControlAcknowledgedCommandsAreCommitted == Spec => []AcknowledgedCommandsAreCommitted
  <1>1. Inv => AcknowledgedCommandsAreCommitted
    BY DEF Inv, ProcessInv, ReplyInv, AcknowledgedCommandsAreCommitted
  <1> QED
    BY <1>1, ControlInvariant, PTL

\* What a change of the Run's status needs of the lease.
LeaseWentFirst ==
  /\ run # NoRun /\ run.status = "PAUSED" /\ run'.status \notin {"PAUSED", "NEEDS_USER", "ABORTED"} =>
       /\ lease[run'.owner].status = "ACTIVE"
       /\ lease[run'.owner].epoch = run'.epoch
       /\ (run'.owner = run.owner => run'.epoch > run.epoch)
  /\ run # NoRun /\ run.status \notin Machine!TerminalStatuses
       /\ run'.status \in Machine!TerminalStatuses
       /\ run.owner # None =>
       lease[run.owner].status = "RELEASED"

LEMMA CommitsFollowTheLease ==
  ASSUME Inv, NEW p \in Processes, pc[p] \in {"prepare", "cas"},
         run.state_version = base[p].state_version, Committed(p)
  PROVE  LeaseWentFirst
  <1>1. /\ Based(p) /\ base[p] = run /\ IsCurrent(p) /\ run' = target[p]
        /\ run \in Runs /\ run # NoRun /\ target[p] \in Runs
    BY CommitterIsBased, RecordFacts DEF Inv, ProcessInv, Based, IsCurrent, Committed
  <1>2. Plain(p) \/ Pausing(p) \/ Ending(p) \/ Resuming(p) \/ Recovering(p)
    BY Situations DEF Inv, ProcessInv
  <1>3. CASE Plain(p) \/ Pausing(p) \/ Recovering(p)
    BY <1>1, <1>3, StatusFacts DEF Plain, Pausing, Recovering, LeaseWentFirst
  <1>4. CASE Ending(p)
    BY <1>1, <1>4, StatusFacts DEF Ending, LeaseWentFirst
  <1>5. CASE Resuming(p)
    <2>1. pc[p] = "cas" /\ run.status = "PAUSED" /\ target[p].status \in Active
      BY <1>1, <1>5 DEF Resuming
    <2>2. CASE Rotated(p)
      BY <1>1, <2>1, <2>2, StatusFacts DEF Rotated, LeaseWentFirst, Runs
    <2>3. CASE Fresh(p)
      BY <1>1, <2>1, <2>3, StatusFacts DEF Fresh, Names, LeaseWentFirst
    <2> QED
      BY <1>5, <2>1, <2>2, <2>3 DEF Resuming
  <1> QED
    BY <1>2, <1>3, <1>4, <1>5

LEMMA StepsFollowTheLease ==
  ASSUME Inv, [Next]_vars
  PROVE  LeaseWentFirst
  <1>1. CASE run' = run
    BY <1>1 DEF LeaseWentFirst
  <1>2. CASE run = NoRun
    BY <1>2 DEF LeaseWentFirst
  <1>3. ASSUME NEW p \in Processes, CompareAndSwap(p) PROVE LeaseWentFirst
    BY <1>1, <1>3, CommitsFollowTheLease DEF CompareAndSwap
  <1>4. ASSUME NEW p \in Processes, StoreFails(p) PROVE LeaseWentFirst
    BY <1>1, <1>2, <1>4, CommitsFollowTheLease DEF StoreFails
  <1>5. ASSUME NEW p \in Processes, Create(p) PROVE LeaseWentFirst
    BY <1>1, <1>2, <1>5 DEF Create
  <1>6. ASSUME NEW to \in WorkStatuses, Proceed(to) PROVE LeaseWentFirst
    <2>1. run # NoRun /\ run \in Runs /\ run.status \in Active
      BY <1>6, StatusFacts DEF Proceed, Work, Inv, TypeOK
    <2>2. run'.status = to
      BY <1>6, <2>1 DEF Proceed, Work, Runs
    <2> QED
      BY <1>6, <2>1, <2>2, StatusFacts DEF LeaseWentFirst
  <1>7. ASSUME NEW error \in Errors, CloseFailure(error) PROVE LeaseWentFirst
    <2>1. run # NoRun /\ run \in Runs
      BY <1>7 DEF CloseFailure, Work, Inv, TypeOK
    <2>2. run'.status = "NEEDS_USER"
      BY <1>7, <2>1 DEF CloseFailure, Work, Runs
    <2> QED
      BY <2>2, StatusFacts DEF LeaseWentFirst
  <1>8. \/ run' = run \/ run = NoRun
        \/ \E p \in Processes : CompareAndSwap(p) \/ StoreFails(p) \/ Create(p)
        \/ \E to \in WorkStatuses : Proceed(to)
        \/ \E error \in Errors : CloseFailure(error)
    BY DEF Next, vars, Dispatch, Finish, Loads, Start, Pause, Abort, ResumePaused, Recover,
           Override, Refuse, ControlLoads, Freeze, Inspect, Rotate, Acquire, Release,
           ReleaseStale, Undo, GuardFails, Crash, Expire
  <1> QED
    BY <1>1, <1>2, <1>3, <1>4, <1>5, <1>6, <1>7, <1>8

\* The lease is thawed at a new epoch before a resume commits, and released before
\* an end does (runtime.ts: resumeFromSafePoint; control-plane.ts: abortLoaded;
\* production-orchestrator.ts: the end of run).
THEOREM ControlLeaseChangesFirst == Spec => LeaseChangesFirst
  <1>1. Inv /\ [Next]_vars => LeaseWentFirst
    BY StepsFollowTheLease
  <1>2. Inv /\ [Next]_vars =>
          [run # NoRun /\ run.status = "PAUSED"
             /\ run'.status \notin {"PAUSED", "NEEDS_USER", "ABORTED"} =>
             /\ lease[run'.owner].status = "ACTIVE"
             /\ lease[run'.owner].epoch = run'.epoch
             /\ (run'.owner = run.owner => run'.epoch > run.epoch)]_vars
    BY <1>1 DEF LeaseWentFirst
  <1>3. Inv /\ [Next]_vars =>
          [run # NoRun /\ run.status \notin Machine!TerminalStatuses
             /\ run'.status \in Machine!TerminalStatuses
             /\ run.owner # None =>
             lease[run.owner].status = "RELEASED"]_vars
    BY <1>1 DEF LeaseWentFirst
  <1> QED
    BY <1>2, <1>3, ControlInvariant, PTL
    DEF Spec, LeaseChangesFirst, ResumedRunOwnsNewEpoch, EndedRunGaveUpItsLease

-----------------------------------------------------------------------------
\* The journal that brackets the commands, for every number of callers, command
\* ids and requests. It shares no state with the Run: what a command does is one
\* step of it.

\* A call in progress has its arguments; past the claim it owns the intent, past
\* the execution also the receipt it made, and nothing is journaled yet.
CallInProgress(p) ==
  /\ at[p] # "idle" => call[p] \in Calls
  /\ at[p] = "readCompletion" =>
       /\ intent[call[p].id] # NoIntent
       /\ intent[call[p].id].request = call[p].request
  /\ at[p] \in {"execute", "publishCompletion"} =>
       /\ intent[call[p].id] = [claimant |-> p, request |-> call[p].request]
       /\ completion[call[p].id] = NoReceipt
  /\ at[p] = "execute" => executions[call[p].id] = 0
  /\ at[p] = "publishCompletion" =>
       /\ executions[call[p].id] = 1
       /\ receipt[p] \in Receipts
       /\ receipt[p].by = p

CallsInv == \A p \in Callers : CallInProgress(p)

\* What the two files of a command id say about its execution.
FilesOf(i) ==
  /\ executions[i] \in {0, 1}
  /\ intent[i] = NoIntent => executions[i] = 0 /\ completion[i] = NoReceipt
  /\ completion[i] # NoReceipt =>
       executions[i] = 1 /\ completion[i].by = intent[i].claimant

FilesInv == \A i \in Ids : FilesOf(i)

JournalReplyInv ==
  \A p \in Callers :
    told[p].kind = "receipt" =>
      /\ told[p].call \in Calls
      /\ told[p].receipt # NoReceipt
      /\ told[p].receipt = completion[told[p].call.id]
      /\ intent[told[p].call.id] # NoIntent
      /\ told[p].call.request = intent[told[p].call.id].request

JournalInv == JournalTypeOK /\ CallsInv /\ FilesInv /\ JournalReplyInv

\* The records that stand for absent files lack a field.
LEMMA AbsentRecords == NoIntent \notin Intents /\ NoReceipt \notin Receipts
  <1>1. DOMAIN NoIntent = {"claimant"} /\ DOMAIN NoReceipt = {"by"}
    BY DEF NoIntent, NoReceipt
  <1>2. \A r \in Intents : "request" \in DOMAIN r
    BY DEF Intents
  <1>3. \A r \in Receipts : "outcome" \in DOMAIN r
    BY DEF Receipts
  <1> QED
    BY <1>1, <1>2, <1>3

LEMMA JournalStarts == JournalInit => JournalInv
  <1> SUFFICES ASSUME JournalInit PROVE JournalInv
    OBVIOUS
  <1>1. JournalTypeOK
    BY DEF JournalInit, JournalTypeOK, Operations, Answers
  <1>2. CallsInv /\ FilesInv
    BY DEF JournalInit, CallsInv, CallInProgress, FilesInv, FilesOf
  <1>3. JournalReplyInv
    BY DEF JournalInit, JournalReplyInv, Absent
  <1> QED
    BY <1>1, <1>2, <1>3 DEF JournalInv

\* Every step of a caller keeps the account of the files.
LEMMA JournalKeeps == JournalInv /\ [JournalNext]_journalVars => JournalInv'
  <1> SUFFICES ASSUME JournalInv, [JournalNext]_journalVars PROVE JournalInv'
    OBVIOUS
  <1> USE DEF Files, MoveTo, Operations
  <1>1. ASSUME NEW p \in Callers, NEW c \in Calls, Begin(p, c)
        PROVE  JournalInv'
    <2>1. JournalTypeOK'
      BY <1>1 DEF JournalInv, Begin, JournalTypeOK, Answers
    <2>2. CallsInv'
      BY <1>1 DEF JournalInv, Begin, JournalTypeOK, CallsInv, CallInProgress
    <2>3. FilesInv' /\ JournalReplyInv'
      BY <1>1 DEF JournalInv, Begin, JournalTypeOK, FilesInv, FilesOf, JournalReplyInv, Absent
    <2> QED
      BY <2>1, <2>2, <2>3 DEF JournalInv
  <1>2. ASSUME NEW p \in Callers, at[p] # "idle", UNCHANGED <<Files, executions>>,
               Recognize(p), intent[call[p].id] # NoIntent
        PROVE  JournalInv'
    <2>1. call[p] \in Calls
      BY <1>2 DEF JournalInv, CallsInv, CallInProgress
    <2>2. CASE intent[call[p].id].request = call[p].request
      <3>1. JournalTypeOK'
        BY <1>2, <2>2 DEF JournalInv, Recognize, Advance, JournalTypeOK
      <3>2. CallsInv'
        BY <1>2, <2>1, <2>2 DEF JournalInv, Recognize, Advance, JournalTypeOK, CallsInv,
           CallInProgress
      <3>3. FilesInv' /\ JournalReplyInv'
        BY <1>2, <2>2 DEF JournalInv, Recognize, Advance, JournalTypeOK, FilesInv,
           FilesOf, JournalReplyInv
      <3> QED
        BY <3>1, <3>2, <3>3 DEF JournalInv
    <2>3. CASE intent[call[p].id].request # call[p].request
      <3>1. JournalTypeOK'
        BY <1>2, <2>3 DEF JournalInv, Recognize, Fail, Reply, JournalTypeOK,
           Answers, JournalErrors
      <3>2. CallsInv'
        BY <1>2, <2>3 DEF JournalInv, Recognize, Fail, Reply, JournalTypeOK,
           CallsInv, CallInProgress
      <3>3. FilesInv' /\ JournalReplyInv'
        BY <1>2, <2>3 DEF JournalInv, Recognize, Fail, Reply, JournalTypeOK,
           FilesInv, FilesOf, JournalReplyInv
      <3> QED
        BY <3>1, <3>2, <3>3 DEF JournalInv
    <2> QED
      BY <2>2, <2>3
  <1>3. ASSUME NEW p \in Callers, ReadIntent(p)
        PROVE  JournalInv'
    <2>1. CASE intent[call[p].id] = NoIntent
      <3>1. JournalTypeOK'
        BY <1>3, <2>1 DEF JournalInv, ReadIntent, Advance, JournalTypeOK
      <3>2. CallsInv'
        BY <1>3, <2>1 DEF JournalInv, ReadIntent, Advance, JournalTypeOK, CallsInv,
           CallInProgress
      <3>3. FilesInv' /\ JournalReplyInv'
        BY <1>3, <2>1 DEF JournalInv, ReadIntent, Advance, JournalTypeOK, FilesInv,
           FilesOf, JournalReplyInv
      <3> QED
        BY <3>1, <3>2, <3>3 DEF JournalInv
    <2>2. CASE intent[call[p].id] # NoIntent
      BY <1>2, <1>3, <2>2 DEF ReadIntent
    <2> QED
      BY <2>1, <2>2
  <1>4. ASSUME NEW p \in Callers, Claim(p)
        PROVE  JournalInv'
    <2> DEFINE i == call[p].id
    <2>1. call[p] \in Calls /\ i \in Ids /\ call[p].request \in Requests
      BY <1>4 DEF JournalInv, Claim, CallsInv, CallInProgress, Calls
    <2>2. executions[i] = 0 /\ completion[i] = NoReceipt
      BY <1>4, <2>1 DEF JournalInv, Claim, FilesInv, FilesOf
    <2>3. intent'[i] = [claimant |-> p, request |-> call[p].request]
      BY <1>4, <2>1 DEF JournalInv, Claim, JournalTypeOK
    <2>4. intent'[i] \in Intents /\ intent'[i] # NoIntent
      BY <2>1, <2>3, AbsentRecords DEF Intents
    <2>5. JournalTypeOK'
      BY <1>4, <2>1, <2>4 DEF JournalInv, Claim, Advance, JournalTypeOK, Intents
    <2>6. CallsInv'
      <3> SUFFICES ASSUME NEW q \in Callers PROVE CallInProgress(q)'
        BY DEF CallsInv
      <3>1. CallInProgress(q)
        BY DEF JournalInv, CallsInv
      <3>2. CASE q = p
        BY <1>4, <2>1, <2>2, <2>3, <3>2 DEF JournalInv, Claim, Advance, JournalTypeOK,
           CallInProgress
      <3>3. CASE q # p
        <4>1. at[q] # "idle" => call[q].id \in Ids /\ call[q].request \in Requests
          BY <3>1 DEF CallInProgress, Calls
        <4>2. at[q] \in {"readCompletion", "execute", "publishCompletion"} => call[q].id # i
          BY <1>4, <3>1, <4>1, AbsentRecords DEF Claim, CallInProgress, Intents
        <4>3. at'[q] = at[q] /\ call'[q] = call[q] /\ receipt'[q] = receipt[q]
          BY <1>4, <3>3 DEF JournalInv, Claim, Advance, JournalTypeOK
        <4>4. call[q].id # i => intent'[call[q].id] = intent[call[q].id]
          BY <1>4 DEF Claim
        <4> QED
          BY <1>4, <3>1, <4>2, <4>3, <4>4 DEF Claim, CallInProgress
      <3> QED
        BY <3>2, <3>3
    <2>7. FilesInv'
      BY <1>4, <2>1, <2>2, <2>4 DEF JournalInv, Claim, Advance, JournalTypeOK, FilesInv,
         FilesOf
    <2>8. JournalReplyInv'
      BY <1>4, <2>1 DEF JournalInv, Claim, Advance, JournalTypeOK, JournalReplyInv
    <2> QED
      BY <2>5, <2>6, <2>7, <2>8 DEF JournalInv
  <1>5. ASSUME NEW p \in Callers, ClaimLost(p)
        PROVE  JournalInv'
    BY <1>2, <1>5 DEF ClaimLost
  <1>6. ASSUME NEW p \in Callers, NEW r \in Answers, at[p] # "idle",
               Reply(p, r), UNCHANGED <<Files, executions>>,
               r.kind = "receipt" =>
                 /\ r.call = call[p]
                 /\ r.receipt # NoReceipt
                 /\ r.receipt = completion[call[p].id]
                 /\ intent[call[p].id] # NoIntent
                 /\ intent[call[p].id].request = call[p].request
        PROVE  JournalInv'
    <2>1. call[p] \in Calls
      BY <1>6 DEF JournalInv, CallsInv, CallInProgress
    <2>2. JournalTypeOK'
      BY <1>6 DEF JournalInv, Reply, JournalTypeOK
    <2>3. CallsInv'
      BY <1>6 DEF JournalInv, Reply, JournalTypeOK, CallsInv, CallInProgress
    <2>4. FilesInv'
      BY <1>6 DEF JournalInv, FilesInv, FilesOf
    <2>5. JournalReplyInv'
      BY <1>6, <2>1 DEF JournalInv, Reply, JournalTypeOK, JournalReplyInv
    <2> QED
      BY <2>2, <2>3, <2>4, <2>5 DEF JournalInv
  <1>7. ASSUME NEW p \in Callers, ReadCompletion(p)
        PROVE  JournalInv'
    <2>1. call[p] \in Calls /\ call[p].id \in Ids
      BY <1>7 DEF JournalInv, ReadCompletion, CallsInv, CallInProgress, Calls
    <2>2. intent[call[p].id] # NoIntent /\ intent[call[p].id].request = call[p].request
      BY <1>7 DEF JournalInv, ReadCompletion, CallsInv, CallInProgress
    <2>3. CASE completion[call[p].id] = NoReceipt
      <3>1. [kind |-> "command_in_progress"] \in Answers
        BY DEF Answers, JournalErrors
      <3> QED
        BY <1>6, <1>7, <2>3, <3>1 DEF ReadCompletion, Fail
    <2>4. CASE completion[call[p].id] # NoReceipt
      <3>1. completion[call[p].id] \in Receipts
        BY <2>1, <2>4 DEF JournalInv, JournalTypeOK
      <3>2. [kind |-> "receipt", call |-> call[p], receipt |-> completion[call[p].id]] \in Answers
        BY <2>1, <3>1 DEF Answers
      <3> QED
        BY <1>6, <1>7, <2>2, <2>4, <3>2 DEF ReadCompletion, Deliver
    <2> QED
      BY <2>3, <2>4
  <1>8. ASSUME NEW p \in Callers, NEW outcome \in Outcomes, Execute(p, outcome)
        PROVE  JournalInv'
    <2> DEFINE i == call[p].id
    <2>1. call[p] \in Calls /\ i \in Ids
      BY <1>8 DEF JournalInv, Execute, CallsInv, CallInProgress, Calls
    <2>2. /\ executions[i] = 0
          /\ completion[i] = NoReceipt
          /\ intent[i] = [claimant |-> p, request |-> call[p].request]
      BY <1>8 DEF JournalInv, Execute, CallsInv, CallInProgress
    <2>3. intent[i] # NoIntent
      BY <2>1, <2>2, AbsentRecords DEF Intents, Calls
    <2>4. executions' = [executions EXCEPT ![i] = 1]
      BY <1>8, <2>1, <2>2 DEF Execute
    <2>5. JournalTypeOK'
      BY <1>8, <2>1, <2>4 DEF JournalInv, Execute, JournalTypeOK, Receipts
    <2>6. CallsInv'
      <3> SUFFICES ASSUME NEW q \in Callers PROVE CallInProgress(q)'
        BY DEF CallsInv
      <3>1. CallInProgress(q)
        BY DEF JournalInv, CallsInv
      <3>2. CASE q = p
        BY <1>8, <2>1, <2>2, <2>4, <3>1, <3>2 DEF JournalInv, Execute, JournalTypeOK,
           CallInProgress, Receipts
      <3>3. CASE q # p
        <4>1. at[q] \in {"execute", "publishCompletion"} => call[q].id # i
          BY <2>2, <3>1, <3>3 DEF CallInProgress
        <4>2. at'[q] = at[q] /\ call'[q] = call[q] /\ receipt'[q] = receipt[q]
          BY <1>8, <3>3 DEF JournalInv, Execute, JournalTypeOK
        <4>3. call[q].id # i => executions'[call[q].id] = executions[call[q].id]
          BY <2>4
        <4> QED
          BY <1>8, <3>1, <4>1, <4>2, <4>3 DEF Execute, CallInProgress
      <3> QED
        BY <3>2, <3>3
    <2>7. FilesInv'
      BY <1>8, <2>1, <2>2, <2>3, <2>4 DEF JournalInv, Execute, JournalTypeOK, FilesInv, FilesOf
    <2>8. JournalReplyInv'
      BY <1>8 DEF JournalInv, Execute, JournalReplyInv
    <2> QED
      BY <2>5, <2>6, <2>7, <2>8 DEF JournalInv
  <1>9. ASSUME NEW p \in Callers, PublishCompletion(p)
        PROVE  JournalInv'
    <2> DEFINE i == call[p].id
    <2>1. call[p] \in Calls /\ i \in Ids
      BY <1>9 DEF JournalInv, PublishCompletion, CallsInv, CallInProgress, Calls
    <2>2. /\ executions[i] = 1
          /\ completion[i] = NoReceipt
          /\ intent[i] = [claimant |-> p, request |-> call[p].request]
          /\ receipt[p] \in Receipts
          /\ receipt[p].by = p
      BY <1>9 DEF JournalInv, PublishCompletion, CallsInv, CallInProgress
    <2>3. receipt[p] # NoReceipt /\ intent[i] # NoIntent
      BY <2>1, <2>2, AbsentRecords DEF Intents, Calls
    <2>4. /\ completion' = [completion EXCEPT ![i] = receipt[p]]
          /\ Deliver(p, receipt[p])
          /\ UNCHANGED <<intent, executions>>
      BY <1>9, <2>2 DEF PublishCompletion
    <2>5. [kind |-> "receipt", call |-> call[p], receipt |-> receipt[p]] \in Answers
      BY <2>1, <2>2 DEF Answers
    <2>6. JournalTypeOK'
      BY <2>1, <2>2, <2>4, <2>5 DEF JournalInv, Deliver, Reply, JournalTypeOK
    <2>7. CallsInv'
      <3> SUFFICES ASSUME NEW q \in Callers PROVE CallInProgress(q)'
        BY DEF CallsInv
      <3>1. CallInProgress(q)
        BY DEF JournalInv, CallsInv
      <3>2. CASE q = p
        BY <2>4, <3>2 DEF JournalInv, Deliver, Reply, JournalTypeOK, CallInProgress
      <3>3. CASE q # p
        <4>1. at[q] \in {"execute", "publishCompletion"} => call[q].id # i
          BY <2>2, <3>1, <3>3 DEF CallInProgress
        <4>2. at'[q] = at[q] /\ call'[q] = call[q] /\ receipt'[q] = receipt[q]
          BY <2>4, <3>3 DEF JournalInv, Deliver, Reply, JournalTypeOK
        <4>3. call[q].id # i => completion'[call[q].id] = completion[call[q].id]
          BY <2>4
        <4> QED
          BY <2>4, <3>1, <4>1, <4>2, <4>3 DEF CallInProgress
      <3> QED
        BY <3>2, <3>3
    <2>8. FilesInv'
      BY <2>1, <2>2, <2>3, <2>4 DEF JournalInv, JournalTypeOK, FilesInv, FilesOf
    <2>9. JournalReplyInv'
      <3> SUFFICES ASSUME NEW q \in Callers, told'[q].kind = "receipt"
                   PROVE  /\ told'[q].call \in Calls
                          /\ told'[q].receipt # NoReceipt
                          /\ told'[q].receipt = completion'[told'[q].call.id]
                          /\ intent'[told'[q].call.id] # NoIntent
                          /\ told'[q].call.request = intent'[told'[q].call.id].request
        BY DEF JournalReplyInv
      <3>1. CASE q = p
        <4>1. told'[p] = [kind |-> "receipt", call |-> call[p], receipt |-> receipt[p]]
          BY <2>4 DEF JournalInv, Deliver, Reply, JournalTypeOK
        <4>2. completion'[i] = receipt[p]
          BY <2>1, <2>4 DEF JournalInv, JournalTypeOK
        <4> QED
          BY <2>1, <2>2, <2>3, <2>4, <3>1, <4>1, <4>2
      <3>2. CASE q # p
        <4>1. told'[q] = told[q]
          BY <2>4, <3>2 DEF JournalInv, Deliver, Reply, JournalTypeOK
        <4>2. told[q].call.id # i
          BY <2>2, <4>1 DEF JournalInv, JournalReplyInv
        <4> QED
          BY <2>4, <4>1, <4>2 DEF JournalInv, JournalReplyInv
      <3> QED
        BY <3>1, <3>2
    <2> QED
      BY <2>6, <2>7, <2>8, <2>9 DEF JournalInv
  <1>10. ASSUME NEW p \in Callers, PersistFails(p) \/ CallerDies(p)
         PROVE  JournalInv'
    <2>1. [kind |-> "command_journal_failed"] \in Answers
          /\ [kind |-> Absent] \in Answers
      BY DEF Answers, JournalErrors
    <2> QED
      BY <1>6, <1>10, <2>1 DEF PersistFails, CallerDies, Fail, Absent
  <1>11. CASE UNCHANGED journalVars
    BY <1>11 DEF JournalInv, journalVars, JournalTypeOK, CallsInv, CallInProgress, FilesInv, FilesOf,
       JournalReplyInv
  <1> QED
    BY <1>1, <1>3, <1>4, <1>5, <1>7, <1>8, <1>9, <1>10, <1>11 DEF JournalNext

LEMMA JournalInvariant == JournalSpec => []JournalInv
  BY JournalStarts, JournalKeeps, PTL DEF JournalSpec

\* The journal's variables keep their types.
THEOREM JournalTypeCorrect == JournalSpec => []JournalTypeOK
  BY JournalInvariant, PTL DEF JournalInv

\* A command id is executed at most once, whoever sends it and whoever dies.
THEOREM JournalExecutesOnce == JournalSpec => []ExecutedAtMostOnce
  <1>1. JournalInv => ExecutedAtMostOnce
    BY DEF JournalInv, FilesInv, FilesOf, ExecutedAtMostOnce
  <1> QED
    BY <1>1, JournalInvariant, PTL

\* Every receipt anybody was given is the one in completion.json.
THEOREM JournalRepliesAgree == JournalSpec => []RepliesAreTheJournaledReceipt
  <1>1. JournalInv => RepliesAreTheJournaledReceipt
    BY DEF JournalInv, JournalReplyInv, RepliesAreTheJournaledReceipt
  <1> QED
    BY <1>1, JournalInvariant, PTL

\* completion.json holds the receipt of the process that claimed and executed.
THEOREM JournalReceiptsAreEarned == JournalSpec => []ReceiptsAreEarned
  <1>1. JournalInv => ReceiptsAreEarned
    BY DEF JournalInv, FilesInv, FilesOf, ReceiptsAreEarned
  <1> QED
    BY <1>1, JournalInvariant, PTL

=============================================================================
