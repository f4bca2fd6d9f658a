-------------------------- MODULE WriteLeaseProofs --------------------------
(***************************************************************************)
(* Theorems about WriteLease for every set of processes and leases and     *)
(* every duration, clock and bound.                                        *)
(***************************************************************************)
EXTENDS WriteLease, TLAPS

-----------------------------------------------------------------------------
\* The inductive invariant.

\* What p's call holds between two of its operations.
Shape(p) ==
  /\ pc[p] # "idle" => call[p] \in Calls /\ reply[p].kind # "ok"
  /\ pc[p] = "link" =>
       /\ call[p].op = "acquire"
       /\ Lease(p) \in ids \ granted
       /\ history[Lease(p)] # <<>>
  /\ pc[p] \notin {"idle", "link"} =>
       /\ call[p].op \in Operations
       /\ Lease(p) \in granted
       /\ call[p].floor <= Len(history[Lease(p)])
       /\ ~call[p].held => active # Lease(p)
  /\ pc[p] = "validate" => call[p].held
  /\ pc[p] \in {"checkActive", "validate", "append"} =>
       /\ loaded[p] \in 1 .. Len(history[Lease(p)])
       /\ call[p].floor <= loaded[p]
  /\ pc[p] = "append" =>
       /\ Seen(p).status # "RELEASED"
       /\ call[p].op \in {"renew", "freezeWrites"} => Seen(p).status = "ACTIVE"
       /\ call[p].op = "rotateEpoch" => Seen(p).status = "FROZEN"
       /\ call[p].op # "assertWritable"
  /\ pc[p] \in {"readActive", "unlink"} =>
       call[p].op = "release" /\ Released(Lease(p))

\* What an answer still promises.
ReplyShape(p) ==
  reply[p].kind = "ok" =>
    LET c == reply[p].call
    IN  /\ c \in Calls
        /\ c.lease \in granted
        /\ c.op \in Promises
        /\ c.op = "assertWritable" =>
             /\ c.held
             /\ reply[p].seen \in 1 .. Len(history[c.lease])
             /\ reply[p].seen >= c.floor
             /\ history[c.lease][reply[p].seen].status = "ACTIVE"
             /\ history[c.lease][reply[p].seen].epoch = c.expected
        /\ c.op = "release" => Released(c.lease) /\ active # c.lease

\* One process publishes one lease.
LinksAreDistinct ==
  \A p, q \in Processes :
    p # q /\ pc[p] = "link" /\ pc[q] = "link" => Lease(p) # Lease(q)

\* Any earlier event of a history against any later one.
Precedes(s, t) ==
  /\ s.status # "RELEASED"
  /\ s.epoch <= t.epoch
  /\ s.status = "FROZEN" /\ t.status = "ACTIVE" => s.epoch < t.epoch

HistoryInOrder ==
  \A l \in Leases : \A i, j \in DOMAIN history[l] :
    i < j => Precedes(history[l][i], history[l][j])

LeasesAreKnown ==
  /\ granted \subseteq ids
  /\ active # None => active \in granted
  /\ \A l \in granted : history[l] # <<>>

LeaseInv ==
  /\ TypeOK
  /\ LeasesAreKnown
  /\ HistoryInOrder
  /\ LinksAreDistinct
  /\ \A p \in Processes : Shape(p)
  /\ \A p \in Processes : ReplyShape(p)

-----------------------------------------------------------------------------
LEMMA LeaseInit == Init => LeaseInv
<1> SUFFICES ASSUME Init PROVE LeaseInv
  OBVIOUS
<1>1. TypeOK
  <2>1. [kind |-> None] \in Replies
    BY DEF Replies
  <2>2. 0 \in 0 .. MaxAttempts
    BY MaxAttemptsAssumption
  <2>3. \A l \in Leases : <<>> \in Seq(LeaseStates)
    OBVIOUS
  <2>4. QED
    BY <2>1, <2>2, <2>3 DEF Init, TypeOK, Labels
<1>2. LeasesAreKnown /\ HistoryInOrder /\ LinksAreDistinct
  BY DEF Init, LeasesAreKnown, HistoryInOrder, LinksAreDistinct
<1>3. \A p \in Processes : Shape(p)
  BY DEF Init, Shape, NoCall, None
<1>4. \A p \in Processes : ReplyShape(p)
  BY DEF Init, ReplyShape, None
<1>5. QED
  BY <1>1, <1>2, <1>3, <1>4 DEF LeaseInv

\* What every step does to the files of granted leases: it only adds to them.
Grows ==
  /\ granted \subseteq granted'
  /\ ids \subseteq ids'
  /\ \A l \in granted :
       /\ Len(history[l]) <= Len(history'[l])
       /\ \A i \in 1 .. Len(history[l]) : history'[l][i] = history[l][i]
       /\ Released(l) => Released(l)'

\* A process that does not take the step keeps its shape.
LEMMA OthersKeep ==
  ASSUME LeaseInv, Grows, TypeOK', NEW q \in Processes,
         pc'[q] = pc[q], call'[q] = call[q], loaded'[q] = loaded[q], reply'[q] = reply[q],
         pc[q] = "link" => Lease(q) \notin granted' /\ history'[Lease(q)] # <<>>,
         active' = active \/ active' = None \/ active' \notin granted
  PROVE  Shape(q)' /\ ReplyShape(q)'
<1>1. /\ \A l \in granted : history[l] \in Seq(LeaseStates) /\ history'[l] \in Seq(LeaseStates)
      /\ loaded[q] \in Nat
  BY DEF LeaseInv, TypeOK
<1>2. Shape(q)'
  <2>1. Shape(q)
    BY DEF LeaseInv
  <2>2. pc[q] \notin {"idle", "link"} =>
          /\ Lease(q) \in granted
          /\ Len(history[Lease(q)]) <= Len(history'[Lease(q)])
          /\ call[q].floor <= Len(history'[Lease(q)])
    BY <1>1, <2>1 DEF Shape, Grows, Calls, Operations
  <2>3. pc[q] \in {"checkActive", "validate", "append"} =>
          /\ loaded[q] \in 1 .. Len(history'[Lease(q)])
          /\ history'[Lease(q)][loaded[q]] = history[Lease(q)][loaded[q]]
    BY <1>1, <2>1, <2>2 DEF Shape, Grows
  <2>4. pc[q] \in {"readActive", "unlink"} => Released(Lease(q))'
    BY <2>1, <2>2 DEF Shape, Grows, Released, Newest, Lease
  <2>5. pc[q] \notin {"idle", "link"} /\ ~call[q].held => active' # Lease(q)
    BY <2>1, <2>2, NamesAssumption DEF Shape, LeaseInv, TypeOK
  <2>6. QED
    BY <2>1, <2>2, <2>3, <2>4, <2>5 DEF Shape, Grows, Lease, Seen
<1>3. ReplyShape(q)'
  <2>1. ReplyShape(q) /\ reply[q] \in Replies
    BY DEF LeaseInv, TypeOK
  <2>2. CASE reply[q].kind # "ok"
    BY <2>2 DEF ReplyShape
  <2>3. CASE reply[q].kind = "ok"
    <3> DEFINE c == reply[q].call
    <3>1. c \in Calls /\ c.lease \in granted /\ c.op \in Promises
      BY <2>1, <2>3 DEF ReplyShape
    <3>2. c.op = "assertWritable" =>
            /\ reply[q].seen \in 1 .. Len(history'[c.lease])
            /\ history'[c.lease][reply[q].seen] = history[c.lease][reply[q].seen]
      BY <1>1, <2>1, <2>3, <3>1 DEF ReplyShape, Grows
    <3>3. c.op = "release" => Released(c.lease)' /\ active' # c.lease
      BY <2>1, <2>3, <3>1, NamesAssumption DEF ReplyShape, Grows, Released, Newest, LeaseInv, TypeOK
    <3>4. QED
      BY <2>1, <2>3, <3>1, <3>2, <3>3 DEF ReplyShape, Grows
  <2>4. QED
    BY <2>2, <2>3
<1>4. QED
  BY <1>2, <1>3

\* The answer that ends a call keeps the type.
LEMMA AnswerType ==
  ASSUME TypeOK, NEW p \in Processes, NEW r \in Replies, Answer(p, r),
         now' \in Nat, history' \in [Leases -> Seq(LeaseStates)],
         active' \in Leases \cup {None}, ids' \subseteq Leases, granted' \subseteq Leases,
         overtaken' \subseteq granted'
  PROVE  /\ TypeOK'
         /\ pc'[p] = "idle" /\ call'[p] = NoCall /\ loaded'[p] = 0 /\ reply'[p] = r
         /\ \A q \in Processes \ {p} :
              /\ pc'[q] = pc[q] /\ call'[q] = call[q]
              /\ loaded'[q] = loaded[q] /\ reply'[q] = reply[q]
<1>1. 0 \in 0 .. MaxAttempts
  BY MaxAttemptsAssumption
<1>2. "idle" \in Labels
  BY DEF Labels
<1>3. QED
  BY <1>1, <1>2 DEF TypeOK, Answer, Goto

\* A step of p that leaves the files alone keeps LeaseInv when p keeps its shape.
LEMMA QuietLeaseStep ==
  ASSUME LeaseInv, UNCHANGED <<Files, ids, granted, overtaken>>, TypeOK', NEW p \in Processes,
         Shape(p)', ReplyShape(p)', pc'[p] # "link",
         \A q \in Processes \ {p} :
           /\ pc'[q] = pc[q] /\ call'[q] = call[q]
           /\ loaded'[q] = loaded[q] /\ reply'[q] = reply[q]
  PROVE  LeaseInv'
<1>1. LeasesAreKnown' /\ HistoryInOrder'
  BY DEF LeaseInv, LeasesAreKnown, HistoryInOrder, Files
<1>2. LinksAreDistinct'
  BY DEF LeaseInv, LinksAreDistinct, Lease
<1>3. Grows
  <2>1. \A l \in granted : history[l] \in Seq(LeaseStates)
    BY DEF LeaseInv, TypeOK
  <2>2. QED
    BY <2>1 DEF Grows, Files, Released, Newest
<1>4. ASSUME NEW q \in Processes
      PROVE  Shape(q)' /\ ReplyShape(q)'
  <2>1. CASE q = p
    BY <2>1
  <2>2. CASE q # p
    <3>1. pc[q] = "link" => Lease(q) \notin granted' /\ history'[Lease(q)] # <<>>
      BY DEF LeaseInv, Shape, Files
    <3>2. QED
      BY <1>3, <2>2, <3>1, OthersKeep DEF Files
  <2>3. QED
    BY <2>1, <2>2
<1>5. QED
  BY <1>1, <1>2, <1>4 DEF LeaseInv

\* A call that ends without an acknowledgement.
LEMMA QuietFailure ==
  ASSUME LeaseInv, UNCHANGED <<now, Files, ids, granted, overtaken>>, NEW p \in Processes,
         NEW code \in Errors \cup {None}, Fail(p, code)
  PROVE  LeaseInv'
<1>1. [kind |-> code] \in Replies /\ code # "ok"
  BY DEF Replies, Errors, None
<1>2. /\ now' \in Nat /\ history' \in [Leases -> Seq(LeaseStates)]
      /\ active' \in Leases \cup {None} /\ ids' \subseteq Leases /\ granted' \subseteq Leases
      /\ overtaken' \subseteq granted'
  BY DEF LeaseInv, TypeOK, Files
<1>3. /\ TypeOK'
      /\ pc'[p] = "idle" /\ call'[p] = NoCall /\ reply'[p] = [kind |-> code]
      /\ \A q \in Processes \ {p} :
           /\ pc'[q] = pc[q] /\ call'[q] = call[q]
           /\ loaded'[q] = loaded[q] /\ reply'[q] = reply[q]
  BY <1>1, <1>2, AnswerType DEF Fail, LeaseInv
<1>4. Shape(p)' /\ ReplyShape(p)'
  BY <1>1, <1>3 DEF Shape, ReplyShape, NoCall, None
<1>5. QED
  BY <1>3, <1>4, QuietLeaseStep

\* A call that ends with its operation done, the files as they were.
LEMMA QuietSuccess ==
  ASSUME LeaseInv, UNCHANGED <<now, Files, ids, granted, overtaken>>, NEW p \in Processes,
         pc[p] \notin {"idle", "link"}, Succeed(p),
         call[p].op = "assertWritable" =>
           /\ call[p].held
           /\ loaded[p] \in 1 .. Len(history[Lease(p)])
           /\ loaded[p] >= call[p].floor
           /\ Seen(p).status = "ACTIVE"
           /\ Seen(p).epoch = call[p].expected,
         call[p].op = "release" => Released(Lease(p)) /\ active # Lease(p)
  PROVE  LeaseInv'
<1> DEFINE r == IF call[p].op \in Promises
                THEN [kind |-> "ok", call |-> call[p], seen |-> loaded[p]]
                ELSE [kind |-> "changed"]
<1>1. /\ call[p] \in Calls /\ Lease(p) \in granted /\ loaded[p] \in Nat
  BY DEF LeaseInv, Shape, TypeOK
<1>2. r \in Replies /\ Answer(p, r)
  BY <1>1 DEF Replies, Succeed
<1>3. /\ now' \in Nat /\ history' \in [Leases -> Seq(LeaseStates)]
      /\ active' \in Leases \cup {None} /\ ids' \subseteq Leases /\ granted' \subseteq Leases
      /\ overtaken' \subseteq granted'
  BY DEF LeaseInv, TypeOK, Files
<1>4. /\ TypeOK'
      /\ pc'[p] = "idle" /\ call'[p] = NoCall /\ reply'[p] = r
      /\ \A q \in Processes \ {p} :
           /\ pc'[q] = pc[q] /\ call'[q] = call[q]
           /\ loaded'[q] = loaded[q] /\ reply'[q] = reply[q]
  BY <1>2, <1>3, AnswerType DEF LeaseInv
<1>5. Shape(p)'
  BY <1>4 DEF Shape, NoCall, None
<1>6. ReplyShape(p)'
  BY <1>1, <1>4 DEF ReplyShape, Promises, Files, Released, Newest, Lease, Seen
<1>7. QED
  BY <1>4, <1>5, <1>6, QuietLeaseStep

\* A step that moves p's call to its next operation.
LEMMA QuietMove ==
  ASSUME LeaseInv, UNCHANGED <<now, Files, ids, granted, overtaken, reply>>, NEW p \in Processes,
         NEW label \in Labels \ {"link"}, Goto(p, label),
         call' \in [Processes -> Calls \cup {NoCall}],
         loaded' \in [Processes -> Nat],
         read_at' \in [Processes -> Nat],
         attempt' \in [Processes -> 0 .. MaxAttempts],
         \A q \in Processes \ {p} : call'[q] = call[q] /\ loaded'[q] = loaded[q],
         Shape(p)'
  PROVE  LeaseInv'
<1>1. /\ pc'[p] = label
      /\ \A q \in Processes \ {p} : pc'[q] = pc[q]
      /\ pc' \in [Processes -> Labels]
  BY DEF Goto, LeaseInv, TypeOK
<1>2. TypeOK'
  BY <1>1 DEF LeaseInv, TypeOK, Files
<1>3. ReplyShape(p)'
  BY DEF LeaseInv, ReplyShape, Files, Released, Newest
<1>4. QED
  BY <1>1, <1>2, <1>3, QuietLeaseStep

LEMMA AcquireInv ==
  ASSUME LeaseInv, NEW p \in Processes, NEW l \in Leases, Acquire(p, l)
  PROVE  LeaseInv'
<1> DEFINE s == [status |-> "ACTIVE", epoch |-> 1, expires_at |-> now + Duration]
           c == [op |-> "acquire", lease |-> l]
<1>1. /\ pc[p] = "idle" /\ l \notin ids /\ ids' = ids \cup {l}
      /\ history' = [history EXCEPT ![l] = <<s>>]
      /\ pc' = [pc EXCEPT ![p] = "link"]
      /\ call' = [call EXCEPT ![p] = c]
      /\ reply' = [reply EXCEPT ![p] = [kind |-> None]]
      /\ UNCHANGED <<now, active, granted, overtaken, loaded, read_at, attempt>>
  BY DEF Acquire, Goto
<1>2. s \in LeaseStates /\ <<s>> \in Seq(LeaseStates) /\ <<s>> # <<>>
  BY DurationAssumption DEF LeaseStates, LeaseInv, TypeOK
<1>3. TypeOK'
  <2>1. c \in Calls /\ [kind |-> None] \in Replies /\ "link" \in Labels
    BY DEF Calls, Replies, Labels
  <2>2. history' \in [Leases -> Seq(LeaseStates)]
    BY <1>1, <1>2 DEF LeaseInv, TypeOK
  <2>3. QED
    BY <1>1, <2>1, <2>2 DEF LeaseInv, TypeOK
<1>4. l \notin granted
  BY <1>1 DEF LeaseInv, LeasesAreKnown
<1>5. \A k \in Leases \ {l} : history'[k] = history[k]
  BY <1>1 DEF LeaseInv, TypeOK
<1>6. history'[l] = <<s>>
  BY <1>1 DEF LeaseInv, TypeOK
<1>7. Grows
  <2>1. \A k \in granted : k \in Leases /\ history'[k] = history[k] /\ history[k] \in Seq(LeaseStates)
    BY <1>4, <1>5 DEF LeaseInv, TypeOK
  <2>2. \A k \in granted : Released(k) => Released(k)'
    BY <2>1 DEF Released, Newest
  <2>3. \A k \in granted : Len(history[k]) <= Len(history'[k])
    BY <2>1
  <2>4. granted \subseteq granted' /\ ids \subseteq ids'
    BY <1>1
  <2>5. QED
    BY <2>1, <2>2, <2>3, <2>4, Zenon DEF Grows
<1>8. LeasesAreKnown'
  BY <1>1, <1>4, <1>5 DEF LeaseInv, LeasesAreKnown, TypeOK
<1>9. HistoryInOrder'
  <2>1. \A i, j \in DOMAIN <<s>> : ~(i < j)
    OBVIOUS
  <2>2. QED
    BY <1>5, <1>6, <2>1 DEF LeaseInv, HistoryInOrder
<1>10. \A q \in Processes \ {p} :
         /\ pc'[q] = pc[q] /\ call'[q] = call[q]
         /\ loaded'[q] = loaded[q] /\ reply'[q] = reply[q]
  BY <1>1 DEF LeaseInv, TypeOK
<1>11. pc'[p] = "link" /\ call'[p] = c /\ reply'[p] = [kind |-> None]
  BY <1>1 DEF LeaseInv, TypeOK
<1>12. \A q \in Processes : pc[q] = "link" => Lease(q) # l
  BY <1>1 DEF LeaseInv, Shape
<1>13. LinksAreDistinct'
  BY <1>10, <1>11, <1>12 DEF LeaseInv, LinksAreDistinct, Lease
<1>14. ASSUME NEW q \in Processes
       PROVE  Shape(q)' /\ ReplyShape(q)'
  <2>1. CASE q = p
    <3>1. Shape(p)'
      BY <1>1, <1>2, <1>4, <1>6, <1>11 DEF Shape, Lease, Calls, None
    <3>2. ReplyShape(p)'
      BY <1>11 DEF ReplyShape, None
    <3>3. QED
      BY <2>1, <3>1, <3>2
  <2>2. CASE q # p
    <3>1. pc[q] = "link" => Lease(q) \notin granted' /\ history'[Lease(q)] # <<>>
      BY <1>1, <1>5, <1>12 DEF LeaseInv, Shape, TypeOK
    <3>2. QED
      BY <1>1, <1>3, <1>7, <1>10, <2>2, <3>1, OthersKeep
  <2>3. QED
    BY <2>1, <2>2
<1>15. QED
  BY <1>3, <1>8, <1>9, <1>13, <1>14 DEF LeaseInv

LEMMA LinkActiveInv ==
  ASSUME LeaseInv, NEW p \in Processes, LinkActive(p)
  PROVE  LeaseInv'
<1> DEFINE l == Lease(p)
<1>1. /\ pc[p] = "link" /\ call[p].op = "acquire"
      /\ l \in ids \ granted /\ history[l] # <<>> /\ l \in Leases
      /\ active' = l /\ granted' = granted \cup {l} /\ overtaken' \subseteq overtaken \cup {l}
      /\ UNCHANGED <<now, history, ids>>
      /\ Answer(p, [kind |-> "changed"])
  BY DEF LinkActive, Grant, Succeed, Promises, LeaseInv, Shape, TypeOK
<1>2. /\ TypeOK'
      /\ pc'[p] = "idle" /\ call'[p] = NoCall /\ reply'[p] = [kind |-> "changed"]
      /\ \A q \in Processes \ {p} :
           /\ pc'[q] = pc[q] /\ call'[q] = call[q]
           /\ loaded'[q] = loaded[q] /\ reply'[q] = reply[q]
  <2>1. [kind |-> "changed"] \in Replies
    BY DEF Replies
  <2>2. /\ now' \in Nat /\ history' \in [Leases -> Seq(LeaseStates)]
        /\ active' \in Leases \cup {None} /\ ids' \subseteq Leases /\ granted' \subseteq Leases
      /\ overtaken' \subseteq granted'
    BY <1>1 DEF LeaseInv, TypeOK
  <2>3. QED
    BY <1>1, <2>1, <2>2, AnswerType DEF LeaseInv
<1>3. Grows
  <2>1. \A k \in granted : history[k] \in Seq(LeaseStates)
    BY DEF LeaseInv, TypeOK
  <2>2. QED
    BY <1>1, <2>1 DEF Grows, Released, Newest
<1>4. LeasesAreKnown' /\ HistoryInOrder'
  BY <1>1 DEF LeaseInv, LeasesAreKnown, HistoryInOrder
<1>5. LinksAreDistinct'
  BY <1>2 DEF LeaseInv, LinksAreDistinct, Lease
<1>6. ASSUME NEW q \in Processes
      PROVE  Shape(q)' /\ ReplyShape(q)'
  <2>1. CASE q = p
    BY <1>2, <2>1 DEF Shape, ReplyShape, NoCall, None
  <2>2. CASE q # p
    <3>1. pc[q] = "link" => Lease(q) \notin granted' /\ history'[Lease(q)] # <<>>
      BY <1>1, <2>2 DEF LeaseInv, Shape, LinksAreDistinct
    <3>2. QED
      BY <1>1, <1>2, <1>3, <2>2, <3>1, OthersKeep
  <2>3. QED
    BY <2>1, <2>2
<1>7. QED
  BY <1>2, <1>4, <1>5, <1>6 DEF LeaseInv

LEMMA ActiveExistsInv ==
  ASSUME LeaseInv, NEW p \in Processes, ActiveExists(p)
  PROVE  LeaseInv'
<1> DEFINE l == Lease(p)
           r == [kind |-> "project_lock_unavailable"]
<1>1. /\ pc[p] = "link" /\ l \in ids \ granted /\ l \in Leases
      /\ history' = [history EXCEPT ![l] = <<>>]
      /\ UNCHANGED <<now, active, ids, granted, overtaken>>
      /\ Answer(p, r)
  BY DEF ActiveExists, Fail, LeaseInv, Shape, TypeOK
<1>2. /\ TypeOK'
      /\ pc'[p] = "idle" /\ call'[p] = NoCall /\ reply'[p] = r
      /\ \A q \in Processes \ {p} :
           /\ pc'[q] = pc[q] /\ call'[q] = call[q]
           /\ loaded'[q] = loaded[q] /\ reply'[q] = reply[q]
  <2>1. r \in Replies
    BY DEF Replies, Errors
  <2>2. /\ now' \in Nat /\ history' \in [Leases -> Seq(LeaseStates)]
        /\ active' \in Leases \cup {None} /\ ids' \subseteq Leases /\ granted' \subseteq Leases
      /\ overtaken' \subseteq granted'
    BY <1>1 DEF LeaseInv, TypeOK
  <2>3. QED
    BY <1>1, <2>1, <2>2, AnswerType DEF LeaseInv
<1>3. history'[l] = <<>> /\ \A k \in Leases \ {l} : history'[k] = history[k]
  BY <1>1 DEF LeaseInv, TypeOK
<1>4. Grows
  <2>1. \A k \in granted : history[k] \in Seq(LeaseStates) /\ history'[k] = history[k]
    BY <1>1, <1>3 DEF LeaseInv, TypeOK
  <2>2. QED
    BY <1>1, <2>1 DEF Grows, Released, Newest
<1>5. LeasesAreKnown' /\ HistoryInOrder'
  BY <1>1, <1>3 DEF LeaseInv, LeasesAreKnown, HistoryInOrder, TypeOK
<1>6. LinksAreDistinct'
  BY <1>2 DEF LeaseInv, LinksAreDistinct, Lease
<1>7. ASSUME NEW q \in Processes
      PROVE  Shape(q)' /\ ReplyShape(q)'
  <2>1. CASE q = p
    BY <1>2, <2>1 DEF Shape, ReplyShape, NoCall, None
  <2>2. CASE q # p
    <3>1. pc[q] = "link" => Lease(q) \notin granted' /\ history'[Lease(q)] # <<>>
      BY <1>1, <1>3, <2>2 DEF LeaseInv, Shape, LinksAreDistinct, TypeOK
    <3>2. QED
      BY <1>1, <1>2, <1>4, <2>2, <3>1, OthersKeep
  <2>3. QED
    BY <2>1, <2>2
<1>8. QED
  BY <1>2, <1>5, <1>6, <1>7 DEF LeaseInv

\* The event an append publishes may follow what its process has read.
LEMMA SuccessorFollows ==
  ASSUME LeaseInv, NEW p \in Processes, pc[p] = "append"
  PROVE  /\ Seen(p) \in LeaseStates /\ Successor(p) \in LeaseStates
         /\ Precedes(Seen(p), Successor(p))
         /\ call[p].op = "release" => Successor(p).status = "RELEASED"
         /\ call[p].op = "renew" => Seen(p).status = "ACTIVE"
         /\ Successor(p).status = "ACTIVE" =>
              \/ Seen(p).status = "ACTIVE"
              \/ Seen(p).epoch < Successor(p).epoch
<1>1. /\ call[p].op \in {"renew", "freezeWrites", "rotateEpoch", "release"}
      /\ Lease(p) \in granted /\ Lease(p) \in Leases
      /\ loaded[p] \in 1 .. Len(history[Lease(p)])
      /\ Seen(p).status # "RELEASED"
      /\ call[p].op \in {"renew", "freezeWrites"} => Seen(p).status = "ACTIVE"
      /\ call[p].op = "rotateEpoch" => Seen(p).status = "FROZEN"
  BY DEF LeaseInv, Shape, Operations, TypeOK
<1>2. Seen(p) \in LeaseStates /\ read_at[p] + Duration \in Nat
  BY <1>1, DurationAssumption DEF Seen, LeaseInv, TypeOK
<1>3. CASE call[p].op = "renew"
  BY <1>1, <1>2, <1>3 DEF Successor, Precedes, LeaseStates
<1>4. CASE call[p].op = "freezeWrites"
  BY <1>1, <1>2, <1>4 DEF Successor, Precedes, LeaseStates
<1>5. CASE call[p].op = "rotateEpoch"
  BY <1>1, <1>2, <1>5 DEF Successor, Precedes, LeaseStates
<1>6. CASE call[p].op = "release"
  BY <1>1, <1>2, <1>6 DEF Successor, Precedes, LeaseStates
<1>7. QED
  BY <1>1, <1>3, <1>4, <1>5, <1>6

LEMMA AppendEventInv ==
  ASSUME LeaseInv, NEW p \in Processes, AppendEvent(p)
  PROVE  LeaseInv'
<1> DEFINE l == Lease(p)
           h == history[l]
           t == Successor(p)
           n == Len(h)
<1>1. /\ pc[p] = "append" /\ call[p] \in Calls /\ call[p].op \in Operations
      /\ l \in granted /\ l \in Leases /\ h \in Seq(LeaseStates)
      /\ loaded[p] = n /\ n \in 1 .. Len(h) /\ Seen(p) = h[n]
      /\ history' = [history EXCEPT ![l] = Append(h, t)]
      /\ UNCHANGED <<now, active, ids, granted, overtaken>>
      /\ call[p].op # "assertWritable"
  BY DEF AppendEvent, LeaseInv, Shape, TypeOK, Seen
<1>2. /\ t \in LeaseStates
      /\ Precedes(h[n], t) /\ h[n] \in LeaseStates
      /\ call[p].op = "release" => t.status = "RELEASED"
  BY <1>1, SuccessorFollows
<1>3. /\ history'[l] = Append(h, t)
      /\ \A k \in Leases \ {l} : history'[k] = history[k]
      /\ history' \in [Leases -> Seq(LeaseStates)]
  BY <1>1, <1>2 DEF LeaseInv, TypeOK
<1>4. /\ Len(history'[l]) = n + 1 /\ history'[l][n + 1] = t
      /\ \A i \in 1 .. n : history'[l][i] = h[i]
      /\ DOMAIN history'[l] = 1 .. (n + 1) /\ DOMAIN h = 1 .. n /\ n \in Nat
  BY <1>1, <1>2, <1>3
<1>5. Grows
  <2>1. ASSUME NEW k \in granted
        PROVE  /\ Len(history[k]) <= Len(history'[k])
               /\ \A i \in 1 .. Len(history[k]) : history'[k][i] = history[k][i]
               /\ Released(k) => Released(k)'
    <3>1. CASE k = l
      <4>1. ~Released(l)
        BY <1>2 DEF Precedes, Released, Newest
      <4>2. QED
        BY <1>4, <3>1, <4>1
    <3>2. CASE k # l
      <4>1. history'[k] = history[k] /\ Len(history[k]) \in Nat
        BY <1>3, <3>2 DEF LeaseInv, TypeOK
      <4>2. Released(k) => Released(k)'
        BY <4>1 DEF Released, Newest
      <4>3. QED
        BY <4>1, <4>2
    <3>3. QED
      BY <3>1, <3>2
  <2>2. granted \subseteq granted' /\ ids \subseteq ids'
    BY <1>1
  <2>3. QED
    BY <2>1, <2>2, Zenon DEF Grows
<1>6. HistoryInOrder'
  <2>1. SUFFICES ASSUME NEW k \in Leases, NEW i \in DOMAIN history'[k],
                        NEW j \in DOMAIN history'[k], i < j
                 PROVE  Precedes(history'[k][i], history'[k][j])
    BY DEF HistoryInOrder, Precedes
  <2>2. CASE k # l
    BY <1>3, <2>1, <2>2 DEF LeaseInv, HistoryInOrder
  <2>3. CASE k = l /\ j # n + 1
    BY <1>1, <1>4, <2>1, <2>3 DEF LeaseInv, HistoryInOrder
  <2>4. CASE k = l /\ j = n + 1 /\ i = n
    BY <1>2, <1>4, <2>4
  <2>5. CASE k = l /\ j = n + 1 /\ i # n
    <3>1. i \in 1 .. n /\ i < n
      BY <1>4, <2>1, <2>5
    <3>2. Precedes(h[i], h[n]) /\ h[i] \in LeaseStates
      BY <1>1, <1>4, <3>1 DEF LeaseInv, HistoryInOrder
    <3>3. t.status = "ACTIVE" => h[n].status = "ACTIVE" \/ h[n].epoch < t.epoch
      BY <1>1, SuccessorFollows
    <3>4. Precedes(h[i], t)
      BY <1>2, <3>2, <3>3 DEF Precedes, LeaseStates
    <3>5. QED
      BY <1>4, <2>5, <3>1, <3>4
  <2>6. QED
    BY <2>2, <2>3, <2>4, <2>5
<1>7. LeasesAreKnown'
  <2>1. Append(h, t) # <<>>
    BY <1>1, <1>2
  <2>2. QED
    BY <1>1, <1>3, <2>1 DEF LeaseInv, LeasesAreKnown, TypeOK
<1>8. /\ TypeOK'
      /\ pc'[p] \in {"idle", "readActive"}
      /\ pc'[p] = "readActive" =>
           call[p].op = "release" /\ call'[p] = call[p] /\ reply'[p] = reply[p] /\ loaded'[p] = loaded[p]
      /\ pc'[p] = "idle" => reply'[p] = [kind |-> "changed"] /\ call'[p] = NoCall
      /\ \A q \in Processes \ {p} :
           /\ pc'[q] = pc[q] /\ call'[q] = call[q]
           /\ loaded'[q] = loaded[q] /\ reply'[q] = reply[q]
  <2>1. /\ now' \in Nat
        /\ active' \in Leases \cup {None} /\ ids' \subseteq Leases /\ granted' \subseteq Leases
      /\ overtaken' \subseteq granted'
    BY <1>1 DEF LeaseInv, TypeOK
  <2>2. CASE call[p].op = "release"
    <3>1. Continue(p, "readActive") /\ "readActive" \in Labels
      BY <2>2 DEF AppendEvent, Labels
    <3>2. QED
      BY <1>3, <2>1, <2>2, <3>1 DEF Continue, Goto, LeaseInv, TypeOK
  <2>3. CASE call[p].op # "release"
    <3>1. Answer(p, [kind |-> "changed"])
      BY <1>1, <2>3 DEF AppendEvent, Succeed, Promises
    <3>2. [kind |-> "changed"] \in Replies
      BY DEF Replies
    <3>3. QED
      BY <1>3, <2>1, <3>1, <3>2, AnswerType DEF LeaseInv
  <2>4. QED
    BY <2>2, <2>3
<1>9. LinksAreDistinct'
  BY <1>8 DEF LeaseInv, LinksAreDistinct, Lease
<1>10. ASSUME NEW q \in Processes
       PROVE  Shape(q)' /\ ReplyShape(q)'
  <2>1. CASE q = p /\ pc'[p] = "idle"
    BY <1>8, <2>1 DEF Shape, ReplyShape, NoCall, None
  <2>2. CASE q = p /\ pc'[p] = "readActive"
    <3>1. Released(l)' /\ call[p].floor <= Len(history'[l])
      <4>1. call[p].floor <= n /\ call[p].floor \in Nat
        BY <1>1 DEF LeaseInv, Shape, Calls, Operations
      <4>2. Released(l)'
        BY <1>2, <1>4, <1>8, <2>2 DEF Released, Newest, Lease
      <4>3. QED
        BY <1>4, <4>1, <4>2
    <3>2. Shape(p)'
      BY <1>1, <1>8, <2>2, <3>1 DEF LeaseInv, Shape, Lease, Released, Newest
    <3>3. ReplyShape(p)'
      BY <1>1, <1>8, <2>2 DEF LeaseInv, Shape, ReplyShape
    <3>4. QED
      BY <2>2, <3>2, <3>3
  <2>3. CASE q # p
    <3>1. pc[q] = "link" => Lease(q) \notin granted' /\ history'[Lease(q)] # <<>>
      BY <1>1, <1>3 DEF LeaseInv, Shape, TypeOK
    <3>2. QED
      BY <1>1, <1>5, <1>8, <2>3, <3>1, OthersKeep
  <2>4. QED
    BY <1>8, <2>1, <2>2, <2>3
<1>11. QED
  BY <1>6, <1>7, <1>8, <1>9, <1>10 DEF LeaseInv

LEMMA UnlinkInv ==
  ASSUME LeaseInv, NEW p \in Processes, Unlink(p)
  PROVE  LeaseInv'
<1> DEFINE r == IF active = None THEN [kind |-> "workspace_guard_persist_failed"]
                ELSE [kind |-> "ok", call |-> call[p], seen |-> loaded[p]]
<1>1. /\ pc[p] = "unlink" /\ call[p] \in Calls /\ call[p].op = "release"
      /\ Lease(p) \in granted /\ Released(Lease(p)) /\ loaded[p] \in Nat
      /\ active' = None
      /\ UNCHANGED <<now, history, ids, granted, overtaken>>
  BY DEF Unlink, LeaseInv, Shape, TypeOK
<1>2. Answer(p, r) /\ r \in Replies
  BY <1>1 DEF Unlink, Succeed, Fail, Promises, Replies, Errors
<1>3. /\ TypeOK'
      /\ pc'[p] = "idle" /\ call'[p] = NoCall /\ reply'[p] = r
      /\ \A q \in Processes \ {p} :
           /\ pc'[q] = pc[q] /\ call'[q] = call[q]
           /\ loaded'[q] = loaded[q] /\ reply'[q] = reply[q]
  <2>1. /\ now' \in Nat /\ history' \in [Leases -> Seq(LeaseStates)]
        /\ active' \in Leases \cup {None} /\ ids' \subseteq Leases /\ granted' \subseteq Leases
      /\ overtaken' \subseteq granted'
    BY <1>1 DEF LeaseInv, TypeOK
  <2>2. QED
    BY <1>2, <2>1, AnswerType DEF LeaseInv
<1>4. Grows
  <2>1. \A k \in granted : history[k] \in Seq(LeaseStates)
    BY DEF LeaseInv, TypeOK
  <2>2. QED
    BY <1>1, <2>1 DEF Grows, Released, Newest
<1>5. LeasesAreKnown' /\ HistoryInOrder' /\ LinksAreDistinct'
  BY <1>1, <1>3 DEF LeaseInv, LeasesAreKnown, HistoryInOrder, LinksAreDistinct, Lease
<1>6. ASSUME NEW q \in Processes
      PROVE  Shape(q)' /\ ReplyShape(q)'
  <2>1. CASE q = p
    <3>1. Shape(p)'
      BY <1>3 DEF Shape, NoCall, None
    <3>2. ReplyShape(p)'
      <4>1. Lease(p) \in Leases /\ Lease(p) # None
        BY <1>1, NamesAssumption DEF LeaseInv, TypeOK
      <4>2. QED
        BY <1>1, <1>3, <4>1 DEF ReplyShape, Promises, Released, Newest, Lease
    <3>3. QED
      BY <2>1, <3>1, <3>2
  <2>2. CASE q # p
    <3>1. pc[q] = "link" => Lease(q) \notin granted' /\ history'[Lease(q)] # <<>>
      BY <1>1 DEF LeaseInv, Shape
    <3>2. QED
      BY <1>1, <1>3, <1>4, <2>2, <3>1, OthersKeep
  <2>3. QED
    BY <2>1, <2>2
<1>7. QED
  BY <1>3, <1>5, <1>6 DEF LeaseInv

LEMMA BeginInv ==
  ASSUME LeaseInv, NEW p \in Processes, NEW op \in Operations, NEW l \in Leases,
         NEW e \in 1 .. MaxEvents, NEW f \in 0 .. MaxEvents, Begin(p, op, l, e, f)
  PROVE  LeaseInv'
<1> DEFINE c == [op |-> op, lease |-> l, expected |-> e, frozen |-> f,
                 floor |-> IF op = "assertWritable" THEN Len(history[l]) ELSE 0,
                 held |-> op = "assertWritable" => active = l]
<1>1. /\ l \in granted
      /\ pc' = [pc EXCEPT ![p] = "load"]
      /\ call' = [call EXCEPT ![p] = c]
      /\ reply' = [reply EXCEPT ![p] = [kind |-> None]]
      /\ UNCHANGED <<now, Files, ids, granted, overtaken, loaded, read_at, attempt>>
  BY DEF Begin, Goto
<1>2. history[l] \in Seq(LeaseStates) /\ Len(history[l]) \in Nat
  BY DEF LeaseInv, TypeOK
<1>3. c \in Calls
  BY <1>2, MaxEventsAssumption DEF Calls
<1>4. [kind |-> None] \in Replies /\ "load" \in Labels
  BY DEF Replies, Labels
<1>5. TypeOK'
  BY <1>1, <1>3, <1>4 DEF LeaseInv, TypeOK, Files
<1>6. pc'[p] = "load" /\ call'[p] = c /\ reply'[p] = [kind |-> None]
  BY <1>1 DEF LeaseInv, TypeOK
<1>7. /\ c.op = op /\ c.lease = l /\ c.floor <= Len(history[l])
      /\ ~c.held => active # l
  <2>1. c.op = op /\ c.lease = l /\ c.floor <= Len(history[l])
    BY <1>2
  <2>2. c.held = (op = "assertWritable" => active = l)
    BY Zenon
  <2>3. QED
    BY <2>1, <2>2, Zenon
<1> HIDE DEF c
<1>8. Shape(p)' /\ ReplyShape(p)'
  BY <1>1, <1>2, <1>3, <1>6, <1>7 DEF Shape, ReplyShape, Lease, Files, None
<1>9. QED
  BY <1>1, <1>5, <1>6, <1>8, QuietLeaseStep DEF LeaseInv, TypeOK

LEMMA LoadHistoryInv ==
  ASSUME LeaseInv, NEW p \in Processes, LoadHistory(p)
  PROVE  LeaseInv'
<1> DEFINE n == Len(history[Lease(p)])
           label == IF call[p].op = "release" /\ Newest(Lease(p)).status = "RELEASED"
                    THEN "readActive" ELSE "checkActive"
<1>1. CASE Fail(p, "stale_write_epoch")
  BY <1>1, QuietFailure DEF LoadHistory, Errors
<1>2. CASE /\ loaded' = [loaded EXCEPT ![p] = n]
           /\ Goto(p, label)
           /\ UNCHANGED <<call, read_at, attempt, reply>>
  <2>1. /\ UNCHANGED <<now, Files, ids, granted, overtaken>> /\ pc[p] = "load"
        /\ Lease(p) \in granted /\ history[Lease(p)] \in Seq(LeaseStates)
        /\ history[Lease(p)] # <<>>
        /\ call[p] \in Calls /\ call[p].op \in Operations /\ call[p].floor <= n
        /\ ~call[p].held => active # Lease(p)
        /\ reply[p].kind # "ok"
    BY DEF LoadHistory, LeaseInv, Shape, TypeOK, LeasesAreKnown
  <2>2. n \in 1 .. n /\ n \in Nat
    BY <2>1
  <2>3. label \in Labels \ {"link"}
    BY DEF Labels
  <2>4. pc'[p] = label /\ loaded'[p] = n /\ loaded' \in [Processes -> Nat]
    BY <1>2, <2>2 DEF Goto, LeaseInv, TypeOK
  <2>5. Shape(p)'
    BY <1>2, <2>1, <2>2, <2>4 DEF Shape, Lease, Files, Released, Newest
  <2>6. QED
    BY <1>2, <2>1, <2>3, <2>4, <2>5, QuietMove DEF LeaseInv, TypeOK
<1>3. QED
  BY <1>1, <1>2 DEF LoadHistory, Newest

LEMMA CheckActiveInv ==
  ASSUME LeaseInv, NEW p \in Processes, CheckActive(p)
  PROVE  LeaseInv'
<1>1. CASE active # Lease(p)
  BY <1>1, QuietFailure DEF CheckActive, Errors
<1>2. CASE active = Lease(p)
  <2>1. /\ UNCHANGED <<now, Files, ids, granted, overtaken>> /\ pc[p] = "checkActive"
        /\ UNCHANGED <<call, loaded, read_at, attempt, reply>>
        /\ Goto(p, "validate") /\ "validate" \in Labels \ {"link"}
    BY <1>2 DEF CheckActive, Continue, Labels
  <2>2. pc'[p] = "validate" /\ Shape(p)
    BY <2>1 DEF Goto, LeaseInv, TypeOK
  <2>3. call[p].held
    <3>1. ~call[p].held => active # Lease(p)
      BY <2>1, <2>2 DEF Shape
    <3>2. QED
      BY <1>2, <3>1, Zenon
  <2>4. Shape(p)'
    BY <2>1, <2>2, <2>3 DEF Shape, Lease, Files
  <2>5. QED
    BY <2>1, <2>4, QuietMove DEF LeaseInv, TypeOK
<1>3. QED
  BY <1>1, <1>2

LEMMA ValidateInv ==
  ASSUME LeaseInv, NEW p \in Processes, Validate(p)
  PROVE  LeaseInv'
<1>1. /\ UNCHANGED <<now, Files, ids, granted, overtaken>> /\ pc[p] = "validate"
      /\ call[p] \in Calls /\ call[p].op \in Operations /\ Lease(p) \in granted
      /\ call[p].floor <= loaded[p] /\ loaded[p] \in 1 .. Len(history[Lease(p)])
      /\ call[p].held /\ Shape(p)
  BY DEF Validate, LeaseInv, Shape
<1>2. Seen(p) \in LeaseStates
  BY <1>1 DEF Seen, LeaseInv, TypeOK
<1>3. CASE Refusal(p) # None
  <2>1. Refusal(p) \in Errors
    BY <1>3, Zenon DEF Refusal, Errors
  <2>2. QED
    BY <1>1, <1>3, <2>1, QuietFailure DEF Validate
<1>4. CASE Refusal(p) = None
  <2>1. /\ Seen(p).status # "RELEASED"
        /\ Seen(p).epoch = call[p].expected
        /\ call[p].op \in {"renew", "assertWritable"} => Seen(p).status = "ACTIVE"
        /\ call[p].op = "rotateEpoch" => Seen(p).status = "FROZEN"
    BY <1>4 DEF Refusal, None
  <2>2. CASE NothingToAppend(p)
    <3>1. Succeed(p)
      BY <1>4, <2>2 DEF Validate
    <3>2. call[p].op # "release"
      BY <2>2 DEF NothingToAppend
    <3>3. loaded[p] >= call[p].floor
      BY <1>1 DEF Calls, Operations
    <3>4. QED
      BY <1>1, <2>1, <3>1, <3>2, <3>3, QuietSuccess
  <2>3. CASE ~NothingToAppend(p)
    <3>1. /\ read_at' = [read_at EXCEPT ![p] = now]
          /\ Goto(p, "append")
          /\ UNCHANGED <<call, loaded, attempt, reply>>
      BY <1>4, <2>3 DEF Validate
    <3>2. "append" \in Labels \ {"link"} /\ pc'[p] = "append"
      BY <3>1 DEF Goto, Labels, LeaseInv, TypeOK
    <3>3. call[p].op \in {"renew", "freezeWrites"} => Seen(p).status = "ACTIVE"
      BY <1>2, <2>1, <2>3 DEF NothingToAppend, LeaseStates
    <3>4. Shape(p)'
      BY <1>1, <2>1, <2>3, <3>1, <3>2, <3>3 DEF Shape, Lease, Seen, Files, NothingToAppend
    <3>5. read_at' \in [Processes -> Nat]
      BY <3>1 DEF LeaseInv, TypeOK
    <3>6. QED
      BY <1>1, <3>1, <3>2, <3>4, <3>5, QuietMove DEF LeaseInv, TypeOK
  <2>4. QED
    BY <2>2, <2>3
<1>5. QED
  BY <1>3, <1>4

LEMMA RetryInv ==
  ASSUME LeaseInv, NEW p \in Processes, Retry(p)
  PROVE  LeaseInv'
<1>1. UNCHANGED <<now, Files, ids, granted, overtaken>> /\ pc[p] = "append"
  BY DEF Retry
<1>2. CASE Fail(p, "workspace_guard_persist_failed")
  BY <1>1, <1>2, QuietFailure DEF Errors
<1>3. CASE /\ attempt[p] + 1 < MaxAttempts
           /\ attempt' = [attempt EXCEPT ![p] = @ + 1]
           /\ Goto(p, "load")
           /\ UNCHANGED <<call, loaded, read_at, reply>>
  <2>1. attempt' \in [Processes -> 0 .. MaxAttempts]
    <3>1. attempt[p] + 1 \in 0 .. MaxAttempts
      BY <1>3, MaxAttemptsAssumption DEF LeaseInv, TypeOK
    <3>2. QED
      BY <1>3, <3>1 DEF LeaseInv, TypeOK
  <2>2. "load" \in Labels \ {"link"} /\ pc'[p] = "load" /\ Shape(p)
    BY <1>3 DEF Goto, Labels, LeaseInv, TypeOK
  <2>3. Shape(p)'
    BY <1>1, <1>3, <2>2 DEF Shape, Lease, Files
  <2>4. QED
    BY <1>1, <1>3, <2>1, <2>2, <2>3, QuietMove DEF LeaseInv, TypeOK
<1>4. QED
  BY <1>2, <1>3 DEF Retry

LEMMA ReadActiveInv ==
  ASSUME LeaseInv, NEW p \in Processes, ReadActive(p)
  PROVE  LeaseInv'
<1>1. /\ UNCHANGED <<now, Files, ids, granted, overtaken>> /\ pc[p] = "readActive" /\ Shape(p)
      /\ call[p].op = "release" /\ Lease(p) \in Leases /\ Released(Lease(p))
  BY DEF ReadActive, LeaseInv, Shape, TypeOK
<1>2. CASE active = None
  <2>1. Succeed(p) /\ active # Lease(p)
    BY <1>1, <1>2, NamesAssumption DEF ReadActive
  <2>2. QED
    BY <1>1, <2>1, QuietSuccess
<1>3. CASE active # None /\ active = Lease(p)
  <2>1. /\ UNCHANGED <<call, loaded, read_at, attempt, reply>>
        /\ Goto(p, "unlink") /\ "unlink" \in Labels \ {"link"}
    BY <1>3 DEF ReadActive, Continue, Labels
  <2>2. pc'[p] = "unlink"
    BY <2>1 DEF Goto, LeaseInv, TypeOK
  <2>3. Shape(p)'
    BY <1>1, <2>1, <2>2 DEF Shape, Lease, Files, Released, Newest
  <2>4. QED
    BY <1>1, <2>1, <2>3, QuietMove DEF LeaseInv, TypeOK
<1>4. CASE active # None /\ active # Lease(p)
  BY <1>1, <1>4, QuietFailure DEF ReadActive, Errors
<1>5. QED
  BY <1>2, <1>3, <1>4

\* Every step of the guard keeps LeaseInv.
LEMMA LeaseNext == LeaseInv /\ [Next]_vars => LeaseInv'
<1> SUFFICES ASSUME LeaseInv, [Next]_vars PROVE LeaseInv'
  OBVIOUS
<1>1. CASE UNCHANGED vars
  BY <1>1 DEF vars, LeaseInv, TypeOK, LeasesAreKnown, HistoryInOrder, LinksAreDistinct,
     Shape, ReplyShape, Lease, Seen, Released, Newest
<1>2. CASE Tick
  <2>1. now' \in Nat
    BY <1>2 DEF Tick, LeaseInv, TypeOK
  <2>2. QED
    BY <1>2, <2>1 DEF Tick, Files, LeaseInv, TypeOK, LeasesAreKnown, HistoryInOrder,
       LinksAreDistinct, Shape, ReplyShape, Lease, Seen, Released, Newest
<1>3. ASSUME NEW p \in Processes, PersistFails(p) \/ Crash(p)
      PROVE  LeaseInv'
  BY <1>3, QuietFailure DEF PersistFails, Crash, Errors
<1>4. QED
  BY <1>1, <1>2, <1>3, AcquireInv, LinkActiveInv, ActiveExistsInv, BeginInv, LoadHistoryInv,
     CheckActiveInv, ValidateInv, AppendEventInv, RetryInv, ReadActiveInv, UnlinkInv DEF Next

LEMMA LeaseInvAlways == Spec => []LeaseInv
BY LeaseInit, LeaseNext, PTL DEF Spec

-----------------------------------------------------------------------------
\* The theorems.

\* Whatever the processes do, every variable stays in its type.
THEOREM LeaseTypeCorrect == Spec => []TypeOK
<1>1. LeaseInv => TypeOK
  BY DEF LeaseInv
<1>2. QED
  BY <1>1, LeaseInvAlways, PTL

\* A frozen epoch never writes again: only a rotation ends a freeze.
THEOREM LeaseFreezeIsFinal == Spec => []FreezeIsFinal
<1>1. LeaseInv => FreezeIsFinal
  BY DEF LeaseInv, FreezeIsFinal, HistoryInOrder, Precedes, TypeOK
<1>2. QED
  BY <1>1, LeaseInvAlways, PTL

\* assertWritable never answers from before its call, however long it stalls
\* between reading the history, the active file and the clock, and never to a
\* lease that had lost active.json when it was asked.
THEOREM LeaseAuthorityIsFresh == Spec => []AuthorityIsFresh
<1>1. LeaseInv => AuthorityIsFresh
  BY DEF LeaseInv, AuthorityIsFresh, ReplyShape
<1>2. QED
  BY <1>1, LeaseInvAlways, PTL

\* A lease whose release was acknowledged never holds the workspace again.
THEOREM LeaseReleaseFreesWorkspace == Spec => []ReleaseFreesWorkspace
<1>1. LeaseInv => ReleaseFreesWorkspace
  BY DEF LeaseInv, ReleaseFreesWorkspace, ReplyShape
<1>2. QED
  BY <1>1, LeaseInvAlways, PTL

\* One step adds at most one event to a granted lease, and a valid one.
LEMMA NewestStep ==
  ASSUME LeaseInv, Next, NEW l \in granted
  PROVE  /\ Newest(l)'.epoch \in {Newest(l).epoch, Newest(l).epoch + 1}
         /\ Newest(l)'.epoch # Newest(l).epoch => Newest(l).status = "FROZEN"
         /\ Released(l) => Released(l)'
<1>1. CASE history'[l] = history[l]
  BY <1>1 DEF Newest, Released
<1>2. ASSUME NEW p \in Processes, AppendEvent(p)
      PROVE  \/ history'[l] = history[l]
             \/ /\ Newest(l) = Seen(p) /\ Newest(l)' = Successor(p)
                /\ Precedes(Seen(p), Successor(p))
                /\ Seen(p) \in LeaseStates /\ pc[p] = "append"
  <2>1. /\ Lease(p) \in Leases /\ history \in [Leases -> Seq(LeaseStates)]
        /\ history' = [history EXCEPT ![Lease(p)] = Append(@, Successor(p))]
        /\ pc[p] = "append" /\ loaded[p] = Len(history[Lease(p)]) /\ l \in Leases
    BY <1>2 DEF AppendEvent, LeaseInv, Shape, TypeOK
  <2>2. CASE l # Lease(p)
    BY <2>1, <2>2
  <2>3. CASE l = Lease(p)
    <3>1. Seen(p) \in LeaseStates /\ Successor(p) \in LeaseStates /\ Precedes(Seen(p), Successor(p))
      BY <2>1, SuccessorFollows
    <3>2. history'[l] = Append(history[l], Successor(p))
      BY <2>1, <2>3
    <3>3. Newest(l)' = Successor(p)
      BY <2>1, <3>1, <3>2 DEF Newest
    <3>4. Newest(l) = Seen(p)
      BY <2>1, <2>3 DEF Newest, Seen
    <3>5. QED
      BY <2>1, <3>1, <3>3, <3>4
  <2>4. QED
    BY <2>2, <2>3
<1>3. ASSUME NEW p \in Processes, Newest(l) = Seen(p), Newest(l)' = Successor(p),
             Precedes(Seen(p), Successor(p)), Seen(p) \in LeaseStates, pc[p] = "append"
      PROVE  /\ Newest(l)'.epoch \in {Newest(l).epoch, Newest(l).epoch + 1}
             /\ Newest(l)'.epoch # Newest(l).epoch => Newest(l).status = "FROZEN"
             /\ Released(l) => Released(l)'
  <2>1. call[p].op = "rotateEpoch" => Seen(p).status = "FROZEN"
    BY <1>3 DEF LeaseInv, Shape
  <2>2. /\ Successor(p).epoch \in {Seen(p).epoch, Seen(p).epoch + 1}
        /\ Successor(p).epoch # Seen(p).epoch => Seen(p).status = "FROZEN"
    BY <1>3, <2>1 DEF Successor, LeaseStates
  <2>3. ~Released(l)
    BY <1>3 DEF Precedes, Released
  <2>4. QED
    BY <1>3, <2>2, <2>3
<1>4. ASSUME NEW p \in Processes, NEW k \in Leases, Acquire(p, k)
      PROVE  history'[l] = history[l]
  BY <1>4 DEF Acquire, LeaseInv, LeasesAreKnown, TypeOK
<1>5. ASSUME NEW p \in Processes, ActiveExists(p)
      PROVE  history'[l] = history[l]
  BY <1>5 DEF ActiveExists, LeaseInv, Shape, TypeOK
<1>6. \/ Tick
      \/ \E p \in Processes :
           \/ \E k \in Leases : Acquire(p, k)
           \/ ActiveExists(p)
           \/ AppendEvent(p)
           \/ history' = history
  BY DEF Next, LinkActive, Begin, LoadHistory, CheckActive, Validate, Retry, ReadActive, Unlink,
     PersistFails, Crash, Files
<1>7. QED
  BY <1>1, <1>2, <1>3, <1>4, <1>5, <1>6 DEF Tick, Files

\* Epochs only go up and released leases stay released.
THEOREM LeaseOldEpochsStayDead == Spec => OldEpochsStayDead
<1>1. LeaseInv /\ [Next]_vars =>
        [\A l \in granted :
           /\ Newest(l)'.epoch \in {Newest(l).epoch, Newest(l).epoch + 1}
           /\ Newest(l)'.epoch # Newest(l).epoch => Newest(l).status = "FROZEN"
           /\ Released(l) => Released(l)']_vars
  BY NewestStep
<1>2. QED
  BY <1>1, LeaseInvAlways, PTL DEF Spec, OldEpochsStayDead

\* Whoever is about to unlink has read the active.json of a released lease.
\* It is still there, or gone, or that of a lease linked since.
HolderInv ==
  /\ GrantedLeaseHoldsWorkspace
  /\ \A p \in Processes : pc[p] = "unlink" =>
       \/ active = Lease(p)
       \/ active = None
       \/ active \in overtaken

LEMMA HolderNext ==
  ASSUME LeaseInv, HolderInv, [Next]_vars
  PROVE  HolderInv'
<1>1. CASE UNCHANGED vars
  BY <1>1 DEF vars, HolderInv, GrantedLeaseHoldsWorkspace, Released, Newest, Lease
<1>2. CASE Next
  <2>1. \A l \in granted : Released(l) => Released(l)'
    BY <1>2, NewestStep
  <2>2. ASSUME NEW p \in Processes, LinkActive(p)
        PROVE  HolderInv'
    <3>1. /\ active = None /\ active' = Lease(p) /\ granted' = granted \cup {Lease(p)}
          /\ overtaken \subseteq overtaken'
          /\ \/ Lease(p) \in overtaken'
             \/ \A q \in Processes : pc[q] # "unlink"
          /\ pc' = [pc EXCEPT ![p] = "idle"]
      BY <2>2 DEF LinkActive, Grant, Succeed, Answer, Goto
    <3>2. GrantedLeaseHoldsWorkspace'
      <4>1. \A l \in granted \ overtaken : Released(l)
        BY <3>1, NamesAssumption DEF HolderInv, GrantedLeaseHoldsWorkspace, LeaseInv, TypeOK
      <4>2. QED
        BY <2>1, <3>1, <4>1 DEF GrantedLeaseHoldsWorkspace
    <3>3. \A q \in Processes : pc'[q] = "unlink" => active' \in overtaken'
      BY <3>1 DEF LeaseInv, TypeOK
    <3>4. QED
      BY <3>2, <3>3 DEF HolderInv
  <2>3. ASSUME NEW p \in Processes, Unlink(p)
        PROVE  HolderInv'
    <3>1. /\ active = Lease(p) \/ active = None \/ active \in overtaken
          /\ active' = None /\ granted' = granted /\ overtaken' = overtaken
          /\ Released(Lease(p)) /\ granted \subseteq Leases
      BY <2>3 DEF Unlink, HolderInv, LeaseInv, TypeOK, Shape
    <3>2. GrantedLeaseHoldsWorkspace'
      BY <2>1, <3>1, NamesAssumption DEF HolderInv, GrantedLeaseHoldsWorkspace
    <3>3. QED
      BY <3>1, <3>2 DEF HolderInv
  <2>4. ASSUME active' = active, granted' = granted, overtaken' = overtaken
        PROVE  GrantedLeaseHoldsWorkspace'
    BY <2>1, <2>4 DEF HolderInv, GrantedLeaseHoldsWorkspace
  <2>5. ASSUME NEW p \in Processes, ReadActive(p)
        PROVE  HolderInv'
    <3>1. active' = active /\ granted' = granted /\ overtaken' = overtaken
      BY <2>5 DEF ReadActive, Files
    <3>2. ASSUME NEW q \in Processes, pc'[q] = "unlink"
          PROVE  active' = Lease(q)' \/ active' = None \/ active' \in overtaken'
      BY <2>5, <3>1, <3>2 DEF ReadActive, Succeed, Fail, Continue, Answer, Goto, HolderInv,
         LeaseInv, TypeOK, Lease
    <3>3. QED
      BY <2>4, <3>1, <3>2 DEF HolderInv
  <2>6. ASSUME active' = active, granted' = granted, overtaken' = overtaken,
               \A q \in Processes : pc'[q] = "unlink" => pc[q] = "unlink" /\ call'[q] = call[q]
        PROVE  HolderInv'
    BY <2>4, <2>6 DEF HolderInv, Lease
  <2>7. ASSUME NEW p \in Processes, NEW label \in Labels \ {"unlink"}, Goto(p, label),
               \A q \in Processes \ {p} : call'[q] = call[q]
        PROVE  \A q \in Processes : pc'[q] = "unlink" => pc[q] = "unlink" /\ call'[q] = call[q]
    BY <2>7 DEF Goto, LeaseInv, TypeOK
  <2>8. ASSUME NEW p \in Processes, NEW r, Answer(p, r)
        PROVE  \A q \in Processes : pc'[q] = "unlink" => pc[q] = "unlink" /\ call'[q] = call[q]
    BY <2>8 DEF Answer, Goto, LeaseInv, TypeOK
  <2>9. CASE Tick
    BY <2>6, <2>9 DEF Tick, Files
  <2>10. ASSUME NEW p \in Processes,
                \/ \E l \in Leases : Acquire(p, l)
                \/ \E op \in Operations, l \in Leases, e \in 1 .. MaxEvents, f \in 0 .. MaxEvents :
                     Begin(p, op, l, e, f)
         PROVE  HolderInv'
    <3>1. /\ active' = active /\ granted' = granted /\ overtaken' = overtaken
          /\ Goto(p, "link") \/ Goto(p, "load")
          /\ \A q \in Processes \ {p} : call'[q] = call[q]
      BY <2>10 DEF Acquire, Begin, Files, LeaseInv, TypeOK
    <3>2. QED
      BY <3>1, <2>6, <2>7 DEF Labels
  <2>11. ASSUME NEW p \in Processes,
                \/ ActiveExists(p) \/ LoadHistory(p) \/ CheckActive(p) \/ Validate(p)
                \/ AppendEvent(p) \/ Retry(p) \/ PersistFails(p) \/ Crash(p)
         PROVE  HolderInv'
    <3>1. active' = active /\ granted' = granted /\ overtaken' = overtaken
      BY <2>11 DEF ActiveExists, LoadHistory, CheckActive, Validate, AppendEvent, Retry,
         PersistFails, Crash, Files
    <3>2. \/ \E r : Answer(p, r)
          \/ /\ call' = call
             /\ \E label \in Labels \ {"unlink"} : Goto(p, label)
      BY <2>11 DEF ActiveExists, LoadHistory, CheckActive, Validate, AppendEvent, Retry,
         PersistFails, Crash, Succeed, Fail, Continue, Labels
    <3>3. QED
      BY <3>1, <3>2, <2>6, <2>7, <2>8
  <2>12. QED
    BY <1>2, <2>2, <2>3, <2>5, <2>9, <2>10, <2>11 DEF Next
<1>3. QED
  BY <1>1, <1>2

\* However many processes release, and however late, a granted lease owns the
\* workspace until its own release, unless it was linked while the release of an
\* earlier lease stood between reading active.json and unlinking it: the race of
\* removeActiveLocator is the only way to lose the workspace.
THEOREM LeaseHoldsWorkspace == Spec => []GrantedLeaseHoldsWorkspace
<1>1. Init => HolderInv
  BY DEF Init, HolderInv, GrantedLeaseHoldsWorkspace
<1>2. LeaseInv /\ HolderInv /\ [Next]_vars => HolderInv'
  BY HolderNext
<1>3. HolderInv => GrantedLeaseHoldsWorkspace
  BY DEF HolderInv
<1>4. QED
  BY <1>1, <1>2, <1>3, LeaseInvAlways, PTL DEF Spec

=============================================================================
