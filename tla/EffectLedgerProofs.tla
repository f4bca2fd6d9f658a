------------------------- MODULE EffectLedgerProofs -------------------------
(* The effect ledger keeps its promises, and implements the register, for    *)
(* every number of processes, keys, payloads, receipts and versions; and the *)
(* production runtime does its slices in order, for every number of          *)
(* invocations, plans, tasks and times.                                      *)
EXTENDS EffectLedger, ProductionRuntime, TLAPS

\* The Run and the files never fall behind what p found when it called.
StartReached(p) ==
  /\ start[p].version <= version
  /\ \A k \in start[p].intended : Intended(k)
  /\ \A k \in start[p].completed : Completed(k)

\* What p's call knows at each of its labels.
CallInProgress(p) ==
  /\ StartReached(p)
  /\ pc[p] = "idle" => call[p] = NoCall
  /\ pc[p] # "idle" => call[p] \in Calls
  /\ pc[p] = "readIntent" => call[p].op \in {"append", "complete"}
  /\ pc[p] \in {"makeDirectory", "publishIntent"} =>
       /\ call[p].op = "append"
       /\ VersionOf[call[p].key] \in start[p].version .. version
  /\ pc[p] = "publishIntent" => call[p].key \in directories
  /\ pc[p] \in {"readCompletion", "publishCompletion"} =>
       /\ call[p].op \in {"append", "complete"}
       /\ Intended(call[p].key)
       /\ seen[p] = intent[call[p].key]
  /\ pc[p] = "publishCompletion" => call[p].op = "complete"
  /\ pc[p] \in {"listEffects", "visitEffects"} => call[p].op = "recover"
  /\ pc[p] # "visitEffects" => found[p] = {}
  /\ pc[p] = "visitEffects" =>
       /\ \A k \in start[p].intended : Completed(k) \/ k \in found[p] \/ k \in todo[p]
       /\ \A k \in found[p] : Intended(k) /\ k \notin start[p].completed

CallsInv == \A p \in Processes : CallInProgress(p)

\* An acknowledged record r is the ledger's and answers its call.
RecordHolds(r) ==
  /\ r.call \in Calls /\ r.call.op \in {"append", "complete"}
  /\ Intended(r.call.key)
  /\ intent[r.call.key] = r.intent
  /\ r.receipt # None => completion[r.call.key].receipt = r.receipt
  /\ r.call.op = "append" => r.intent.payload = r.call.payload
  /\ r.call.op = "complete" => r.receipt = r.call.receipt

RepliesInv == \A p \in Processes : reply[p].kind = "record" => RecordHolds(reply[p])

Inv == TypeOK /\ LedgerStaysIntact /\ CallsInv /\ RepliesInv

\* Nothing on the disk is replaced or taken back.
Grows ==
  /\ version <= version'
  /\ directories \subseteq directories'
  /\ \A k \in Keys :
       /\ Intended(k) => intent'[k] = intent[k]
       /\ Completed(k) => completion'[k] = completion[k]

-----------------------------------------------------------------------------
\* The records that stand for absent files are no intents and no completions.
LEMMA AbsentRecords ==
  /\ NoIntent \notin Intents
  /\ NoCompletion \notin Completions
  BY ProcessesAssumption, ReceiptsAssumption
     DEF NoIntent, Intents, NoCompletion, Completions, None

\* A key's call arguments are members of their sets.
LEMMA CallArguments ==
  ASSUME NEW c \in Calls
  PROVE  /\ c.op \in {"append", "complete"} => c.key \in Keys
         /\ c.op = "append" => c.payload \in Payloads
         /\ c.op = "complete" => c.receipt \in Receipts
  BY DEF Calls

LEMMA CompletedReceipt ==
  ASSUME TypeOK, NEW k \in Keys
  PROVE  /\ Completed(k) => completion[k] \in Completions
         /\ Completed(k) => completion[k].receipt \in Receipts
         /\ ~Completed(k) => completion[k].receipt = None
         /\ Completed(k) <=> completion[k].receipt # None
         /\ Intended(k) => intent[k] \in Intents
  BY ReceiptsAssumption DEF TypeOK, Completed, Completions, NoCompletion, Intended

LEMMA InitInv == Init => Inv
<1> SUFFICES ASSUME Init PROVE Inv
  OBVIOUS
<1>1. TypeOK
  BY DEF Init, TypeOK, Labels, Replies, Starts, NoStart
<1>2. LedgerStaysIntact
  BY DEF Init, LedgerStaysIntact, Intended, Completed
<1>3. CallsInv
  <2> SUFFICES ASSUME NEW p \in Processes PROVE CallInProgress(p)
    BY DEF CallsInv
  <2>1. pc[p] = "idle" /\ call[p] = NoCall /\ start[p] = NoStart /\ found[p] = {} /\ version = 0
    BY DEF Init
  <2> QED
    BY <2>1 DEF CallInProgress, StartReached, NoStart
<1>4. RepliesInv
  BY DEF Init, RepliesInv, None
<1> QED
  BY <1>1, <1>2, <1>3, <1>4 DEF Inv

\* A call that did not move stays well-formed while the disk grows.
LEMMA OthersStay ==
  ASSUME Inv, TypeOK', Grows, NEW q \in Processes,
         UNCHANGED <<pc[q], call[q], seen[q], todo[q], found[q], start[q]>>
  PROVE  CallInProgress(q)'
<1>1. CallInProgress(q) /\ TypeOK
  BY DEF Inv, CallsInv
<1>2. \A k \in Keys : (Intended(k) => Intended(k)') /\ (Completed(k) => Completed(k)')
  BY DEF Grows, Intended, Completed
<1>3. start[q].intended \subseteq Keys /\ start[q].completed \subseteq Keys /\ found[q] \subseteq Keys
      /\ start[q].version \in Nat /\ version \in Nat /\ version' \in Nat
  BY <1>1 DEF TypeOK, Starts
<1>4. StartReached(q)'
  BY <1>1, <1>2, <1>3 DEF CallInProgress, StartReached, Grows
<1>5. pc[q] \in {"makeDirectory", "publishIntent"} =>
        (VersionOf[call[q].key] \in start[q].version .. version)'
  <2> SUFFICES ASSUME pc[q] \in {"makeDirectory", "publishIntent"}
               PROVE  VersionOf[call[q].key] \in start[q].version .. version'
    OBVIOUS
  <2>1. VersionOf[call[q].key] \in start[q].version .. version
    BY <1>1 DEF CallInProgress
  <2> QED
    BY <2>1, <1>3 DEF Grows
<1>6. pc[q] \in {"readCompletion", "publishCompletion"} =>
        (Intended(call[q].key) /\ seen[q] = intent[call[q].key])'
  <2> SUFFICES ASSUME pc[q] \in {"readCompletion", "publishCompletion"}
               PROVE  (Intended(call[q].key) /\ seen[q] = intent[call[q].key])'
    OBVIOUS
  <2>1. Intended(call[q].key) /\ seen[q] = intent[call[q].key] /\ call[q].key \in Keys
    BY <1>1, CallArguments DEF CallInProgress
  <2> QED
    BY <2>1, <1>2 DEF Grows
<1>7. pc[q] = "visitEffects" =>
        (/\ \A k \in start[q].intended : Completed(k) \/ k \in found[q] \/ k \in todo[q]
         /\ \A k \in found[q] : Intended(k) /\ k \notin start[q].completed)'
  BY <1>1, <1>2, <1>3 DEF CallInProgress
<1>8. pc[q] = "publishIntent" => call[q].key \in directories'
  BY <1>1 DEF CallInProgress, Grows
<1> QED
  BY <1>1, <1>4, <1>5, <1>6, <1>7, <1>8 DEF CallInProgress

\* A record once acknowledged stays true while the disk grows.
LEMMA RecordsStay ==
  ASSUME TypeOK, Grows, NEW r, RecordHolds(r)
  PROVE  RecordHolds(r)'
<1>1. r.call.key \in Keys
  BY CallArguments DEF RecordHolds
<1>2. r.receipt # None => Completed(r.call.key)
  BY <1>1, CompletedReceipt DEF RecordHolds
<1> QED
  BY <1>1, <1>2 DEF RecordHolds, Grows, Intended

\* What remains to be shown of a step of p.
LEMMA StepKeepsInv ==
  ASSUME Inv, NEW p \in Processes, TypeOK', Grows, LedgerStaysIntact', CallInProgress(p)',
         \A q \in Processes \ {p} :
           UNCHANGED <<pc[q], call[q], seen[q], todo[q], found[q], start[q], reply[q]>>,
         reply'[p].kind = "record" => reply'[p] = reply[p] \/ RecordHolds(reply[p])'
  PROVE  Inv'
<1>1. CallsInv'
  <2> SUFFICES ASSUME NEW q \in Processes PROVE CallInProgress(q)'
    BY DEF CallsInv
  <2> QED
    BY OthersStay
<1>2. RepliesInv'
  <2> SUFFICES ASSUME NEW q \in Processes, (reply[q].kind = "record")'
               PROVE  RecordHolds(reply[q])'
    BY DEF RepliesInv
  <2>1. CASE reply'[q] = reply[q]
    <3>1. PICK r : r = reply[q]
      OBVIOUS
    <3>2. RecordHolds(r)
      BY <2>1, <3>1 DEF Inv, RepliesInv
    <3>3. RecordHolds(r)'
      BY <3>2, RecordsStay DEF Inv
    <3> QED
      BY <2>1, <3>1, <3>3 DEF RecordHolds
  <2> QED
    BY <2>1
<1> QED
  BY <1>1, <1>2 DEF Inv

\* A step that leaves Run and files alone only has to answer for its own call.
LEMMA QuietStep ==
  ASSUME Inv, NEW p \in Processes, UNCHANGED <<version, Files>>, TypeOK',
         CallInProgress(p)',
         \A q \in Processes \ {p} :
           UNCHANGED <<pc[q], call[q], seen[q], todo[q], found[q], start[q], reply[q]>>,
         reply'[p].kind = "record" => reply'[p] = reply[p] \/ RecordHolds(reply'[p])
  PROVE  Inv'
<1>1. Grows
  BY DEF Grows, Files, Inv, TypeOK
<1>2. LedgerStaysIntact'
  BY DEF LedgerStaysIntact, Files, Inv, Intended, Completed
<1>3. PICK r : r = reply'[p]
  OBVIOUS
<1>4. RecordHolds(r) => RecordHolds(reply[p])'
  BY <1>1, <1>3, RecordsStay DEF Inv, RecordHolds
<1>5. RecordHolds(reply'[p]) => RecordHolds(r)
  BY <1>3 DEF RecordHolds
<1> QED
  BY <1>1, <1>2, <1>4, <1>5, StepKeepsInv

\* A call that ends leaves nothing behind but its answer.
LEMMA AnsweredCall ==
  ASSUME Inv, NEW p \in Processes, NEW r \in Replies, Answer(p, r), version' \in Nat
  PROVE  /\ CallInProgress(p)'
         /\ reply'[p] = r
         /\ \A q \in Processes \ {p} :
              UNCHANGED <<pc[q], call[q], seen[q], todo[q], found[q], start[q], reply[q]>>
         /\ pc' \in [Processes -> Labels]
         /\ call' \in [Processes -> Calls \cup {NoCall}]
         /\ seen' \in [Processes -> Intents \cup {NoIntent}]
         /\ todo' \in [Processes -> SUBSET Keys]
         /\ found' \in [Processes -> SUBSET Keys]
         /\ reply' \in [Processes -> Replies]
         /\ start' \in [Processes -> Starts]
<1>1. /\ pc'[p] = "idle" /\ call'[p] = NoCall /\ start'[p] = NoStart /\ found'[p] = {}
      /\ reply'[p] = r
  BY DEF Answer, Goto, Inv, TypeOK
<1>2. CallInProgress(p)'
  BY <1>1 DEF CallInProgress, StartReached, NoStart
<1>3. NoStart \in Starts
  BY DEF NoStart, Starts
<1> QED
  BY <1>1, <1>2, <1>3 DEF Answer, Goto, Inv, TypeOK, Labels

LEMMA QuietAnswer ==
  ASSUME Inv, NEW p \in Processes, NEW r \in Replies, Answer(p, r),
         UNCHANGED <<version, Files>>, corruptRuns' \in [Processes -> BOOLEAN],
         r.kind = "record" => RecordHolds(r)
  PROVE  Inv'
<1>1. version' \in Nat
  BY DEF Inv, TypeOK
<1>2. TypeOK'
  BY <1>1, AnsweredCall DEF Inv, TypeOK, Files
<1>3. RecordHolds(r) => RecordHolds(reply'[p])
  BY <1>1, AnsweredCall DEF RecordHolds
<1> QED
  BY <1>1, <1>2, <1>3, AnsweredCall, QuietStep

\* Errors and crashes.
LEMMA QuietFailure ==
  ASSUME Inv, NEW p \in Processes, UNCHANGED <<version, Files>>,
         \/ \E code \in {"stale_state", "refused", "state_persist_failed"} : Fail(p, code)
         \/ FailCorrupt(p)
         \/ Answer(p, [kind |-> None]) /\ corruptRuns' = [corruptRuns EXCEPT ![p] = FALSE]
  PROVE  Inv'
<1>1. PICK r \in {[kind |-> None], [kind |-> "stale_state"], [kind |-> "refused"],
                  [kind |-> "state_persist_failed"]} : Answer(p, r)
  BY DEF Fail, FailCorrupt
<1>2. r \in Replies /\ r.kind # "record"
  BY DEF Replies, None
<1>3. corruptRuns' \in [Processes -> BOOLEAN]
  BY DEF Fail, FailCorrupt, Inv, TypeOK
<1> QED
  BY <1>1, <1>2, <1>3, QuietAnswer

\* A step to another label, with nothing else changed.
LEMMA QuietContinue ==
  ASSUME Inv, NEW p \in Processes, NEW label \in Labels, Continue(p, label),
         UNCHANGED <<version, Files, corruptRuns>>, CallInProgress(p)'
  PROVE  Inv'
<1>1. TypeOK'
  BY DEF Continue, Goto, memory, Files, Inv, TypeOK
<1>2. \A q \in Processes \ {p} :
        UNCHANGED <<pc[q], call[q], seen[q], todo[q], found[q], start[q], reply[q]>>
  BY DEF Continue, Goto, memory, Inv, TypeOK
<1>3. reply'[p] = reply[p]
  BY DEF Continue, memory
<1> QED
  BY <1>1, <1>2, <1>3, QuietStep

-----------------------------------------------------------------------------
\* The actions, one lemma each where there is something to show.

LEMMA BeginInv ==
  ASSUME Inv, NEW p \in Processes, NEW c \in Calls, Begin(p, c)
  PROVE  Inv'
<1> DEFINE here == [version |-> version, intended |-> {k \in Keys : Intended(k)},
                    completed |-> {k \in Keys : Completed(k)}]
<1>1. here \in Starts
  BY DEF Starts, Inv, TypeOK
<1>2. TypeOK'
  BY <1>1 DEF Begin, Goto, Files, Inv, TypeOK, Labels, Replies
<1>3. \A q \in Processes \ {p} :
        UNCHANGED <<pc[q], call[q], seen[q], todo[q], found[q], start[q], reply[q]>>
  BY DEF Begin, Goto, Inv, TypeOK
<1>4. /\ pc'[p] = (IF c.op = "append" THEN "readIntent" ELSE "load")
      /\ call'[p] = c /\ start'[p] = here /\ reply'[p] = [kind |-> None]
  BY DEF Begin, Goto, Inv, TypeOK
<1>5. StartReached(p)' /\ found'[p] = {}
  BY <1>4 DEF StartReached, CallsInv, CallInProgress, Begin, Files, Intended, Completed, Inv, TypeOK
<1>6. CallInProgress(p)'
  BY <1>4, <1>5 DEF CallInProgress
<1>7. reply'[p].kind # "record"
  BY <1>4 DEF None
<1> QED
  BY <1>2, <1>3, <1>6, <1>7, QuietStep DEF Begin

LEMMA ReadIntentInv ==
  ASSUME Inv, NEW p \in Processes, ReadIntent(p)
  PROVE  Inv'
<1> DEFINE k == call[p].key
<1>1. CallInProgress(p) /\ call[p] \in Calls /\ call[p].op \in {"append", "complete"} /\ k \in Keys
  BY CallArguments DEF Inv, CallsInv, CallInProgress, ReadIntent
<1>2. CASE Intended(k)
  <2>1. /\ pc' = [pc EXCEPT ![p] = "readCompletion"]
        /\ seen' = [seen EXCEPT ![p] = intent[k]]
        /\ UNCHANGED <<version, Files, corruptRuns, call, todo, found, reply, start>>
    BY <1>2 DEF ReadIntent, Goto
  <2>2. intent[k] \in Intents
    BY <1>1, <1>2, CompletedReceipt DEF Inv
  <2>3. TypeOK'
    BY <2>1, <2>2 DEF Files, Inv, TypeOK, Labels
  <2>4. CallInProgress(p)'
    BY <1>1, <1>2, <2>1 DEF CallInProgress, StartReached, Files, Intended, Completed, Inv, TypeOK
  <2>5. \A q \in Processes \ {p} :
          UNCHANGED <<pc[q], call[q], seen[q], todo[q], found[q], start[q], reply[q]>>
    BY <2>1 DEF Inv, TypeOK
  <2> QED
    BY <2>1, <2>3, <2>4, <2>5, QuietStep
<1>3. CASE ~Intended(k) /\ call[p].op = "append"
  <2>1. Continue(p, "load") /\ UNCHANGED <<version, Files, corruptRuns>>
    BY <1>3 DEF ReadIntent
  <2>2. CallInProgress(p)'
    BY <1>1, <2>1 DEF Continue, Goto, memory, CallInProgress, StartReached, Files,
       Intended, Completed, Inv, TypeOK
  <2> QED
    BY <2>1, <2>2, QuietContinue DEF Labels
<1>4. CASE ~Intended(k) /\ call[p].op # "append"
  BY <1>4, QuietFailure DEF ReadIntent
<1> QED
  BY <1>2, <1>3, <1>4

LEMMA ReadCompletionInv ==
  ASSUME Inv, NEW p \in Processes, ReadCompletion(p)
  PROVE  Inv'
<1> DEFINE k == call[p].key
           r == [kind |-> "record", call |-> call[p], intent |-> seen[p],
                 receipt |-> completion[k].receipt]
<1>1. /\ CallInProgress(p) /\ call[p] \in Calls /\ call[p].op \in {"append", "complete"}
      /\ k \in Keys /\ Intended(k) /\ seen[p] = intent[k]
  BY CallArguments DEF Inv, CallsInv, CallInProgress, ReadCompletion
<1>2. CASE ~Completed(k) /\ call[p].op = "complete"
  <2>1. Continue(p, "publishCompletion") /\ UNCHANGED <<version, Files, corruptRuns>>
    BY <1>2 DEF ReadCompletion
  <2>2. CallInProgress(p)'
    BY <1>1, <1>2, <2>1 DEF Continue, Goto, memory, CallInProgress, StartReached, Files,
       Intended, Completed, Inv, TypeOK
  <2> QED
    BY <2>1, <2>2, QuietContinue DEF Labels
<1>3. CASE ~(~Completed(k) /\ call[p].op = "complete") /\ (Completed(k) => FollowsIntent(p)) /\ Agrees(p)
  <2>1. Answer(p, r) /\ UNCHANGED <<version, Files, corruptRuns>>
    BY <1>3 DEF ReadCompletion, Deliver
  <2>2. seen[p] \in Intents /\ completion[k].receipt \in Receipts \cup {None}
    BY <1>1, CompletedReceipt DEF Inv
  <2>3. r \in Replies
    BY <1>1, <2>2 DEF Replies, Records
  <2>4. RecordHolds(r)
    <3>1. call[p].op = "append" => seen[p].payload = call[p].payload
      BY <1>3 DEF Agrees
    <3>2. call[p].op = "complete" => completion[k].receipt = call[p].receipt
      BY <1>3 DEF Agrees
    <3> QED
      BY <1>1, <3>1, <3>2 DEF RecordHolds
  <2>5. corruptRuns' \in [Processes -> BOOLEAN]
    BY <2>1 DEF Inv, TypeOK
  <2> QED
    BY <2>1, <2>3, <2>4, <2>5, QuietAnswer
<1>4. CASE ~(~Completed(k) /\ call[p].op = "complete") /\ ~((Completed(k) => FollowsIntent(p)) /\ Agrees(p))
  BY <1>4, QuietFailure DEF ReadCompletion
<1> QED
  BY <1>2, <1>3, <1>4

LEMMA LoadInv ==
  ASSUME Inv, NEW p \in Processes, Load(p)
  PROVE  Inv'
<1>1. CallInProgress(p) /\ call[p] \in Calls /\ pc[p] = "load" /\ UNCHANGED <<version, Files>>
  BY DEF Inv, CallsInv, CallInProgress, Load
<1>2. CASE call[p].op = "append" /\ version # VersionOf[call[p].key]
  BY <1>1, <1>2, QuietFailure DEF Load
<1>3. CASE call[p].op = "append" /\ version = VersionOf[call[p].key]
  <2>1. Continue(p, "makeDirectory") /\ UNCHANGED corruptRuns
    BY <1>3 DEF Load
  <2>2. VersionOf[call[p].key] \in start[p].version .. version
    BY <1>1, <1>3 DEF CallInProgress, StartReached, Inv, TypeOK, Starts
  <2>3. CallInProgress(p)'
    BY <1>1, <1>3, <2>1, <2>2 DEF Continue, Goto, memory, CallInProgress, StartReached, Files,
       Intended, Completed, Inv, TypeOK
  <2> QED
    BY <1>1, <2>1, <2>3, QuietContinue DEF Labels
<1>4. ASSUME call[p].op = "complete"
      PROVE  Inv'
  <2>1. Continue(p, "readIntent") /\ UNCHANGED corruptRuns
    BY <1>4 DEF Load
  <2>2. CallInProgress(p)'
    BY <1>1, <1>4, <2>1 DEF Continue, Goto, memory, CallInProgress, StartReached, Files,
       Intended, Completed, Inv, TypeOK
  <2> QED
    BY <1>1, <2>1, <2>2, QuietContinue DEF Labels
<1>5. ASSUME call[p].op = "recover"
      PROVE  Inv'
  <2>1. Continue(p, "listEffects") /\ UNCHANGED corruptRuns
    BY <1>5 DEF Load
  <2>2. CallInProgress(p)'
    BY <1>1, <1>5, <2>1 DEF Continue, Goto, memory, CallInProgress, StartReached, Files,
       Intended, Completed, Inv, TypeOK
  <2> QED
    BY <1>1, <2>1, <2>2, QuietContinue DEF Labels
<1> QED
  BY <1>1, <1>2, <1>3, <1>4, <1>5 DEF Calls

LEMMA MakeDirectoryInv ==
  ASSUME Inv, NEW p \in Processes, MakeDirectory(p)
  PROVE  Inv'
<1>1. CallInProgress(p) /\ call[p] \in Calls /\ call[p].op = "append" /\ call[p].key \in Keys
  BY CallArguments DEF Inv, CallsInv, CallInProgress, MakeDirectory
<1>2. TypeOK'
  BY <1>1 DEF MakeDirectory, Continue, Goto, memory, Inv, TypeOK, Labels
<1>3. Grows
  BY DEF MakeDirectory, Grows, Inv, TypeOK
<1>4. LedgerStaysIntact'
  BY DEF MakeDirectory, LedgerStaysIntact, Inv, Intended, Completed
<1>5. CallInProgress(p)'
  BY <1>1 DEF MakeDirectory, Continue, Goto, memory, CallInProgress, StartReached,
     Intended, Completed, Inv, TypeOK
<1>6. \A q \in Processes \ {p} :
        UNCHANGED <<pc[q], call[q], seen[q], todo[q], found[q], start[q], reply[q]>>
  BY DEF MakeDirectory, Continue, Goto, memory, Inv, TypeOK
<1>7. reply'[p] = reply[p]
  BY DEF MakeDirectory, Continue, memory
<1> QED
  BY <1>2, <1>3, <1>4, <1>5, <1>6, <1>7, StepKeepsInv

\* What the link of an intent changes.
LEMMA IntentPublished ==
  ASSUME Inv, NEW p \in Processes, PublishIntent(p)
  PROVE  LET k == call[p].key
             i == [author |-> p, payload |-> call[p].payload]
             r == [kind |-> "record", call |-> call[p], intent |-> i, receipt |-> None]
         IN  /\ call[p] \in Calls /\ call[p].op = "append" /\ k \in Keys
             /\ VersionOf[k] \in start[p].version .. version
             /\ k \in directories /\ ~Intended(k) /\ ~Completed(k)
             /\ i \in Intents /\ i # NoIntent
             /\ intent' = [intent EXCEPT ![k] = i]
             /\ r \in Replies /\ Answer(p, r)
             /\ UNCHANGED <<version, directories, completion, corruptRuns>>
<1> DEFINE k == call[p].key
           i == [author |-> p, payload |-> call[p].payload]
           r == [kind |-> "record", call |-> call[p], intent |-> i, receipt |-> None]
<1>1. /\ call[p] \in Calls /\ call[p].op = "append" /\ k \in Keys /\ k \in directories
      /\ VersionOf[k] \in start[p].version .. version /\ call[p].payload \in Payloads
  BY CallArguments DEF Inv, CallsInv, CallInProgress, PublishIntent
<1>2. i \in Intents /\ i # NoIntent
  BY <1>1, AbsentRecords DEF Intents
<1>3. r \in Replies
  BY <1>1, <1>2 DEF Replies, Records
<1>4. ~Intended(k) /\ ~Completed(k)
  BY <1>1 DEF PublishIntent, Inv, LedgerStaysIntact
<1> QED
  BY <1>1, <1>2, <1>3, <1>4 DEF PublishIntent, Deliver

LEMMA PublishIntentInv ==
  ASSUME Inv, NEW p \in Processes, PublishIntent(p)
  PROVE  Inv'
<1> DEFINE k == call[p].key
           i == [author |-> p, payload |-> call[p].payload]
           r == [kind |-> "record", call |-> call[p], intent |-> i, receipt |-> None]
<1>1. /\ call[p] \in Calls /\ call[p].op = "append" /\ k \in Keys
      /\ k \in directories /\ ~Intended(k) /\ ~Completed(k)
      /\ i \in Intents /\ i # NoIntent
      /\ intent' = [intent EXCEPT ![k] = i]
      /\ r \in Replies /\ Answer(p, r)
      /\ UNCHANGED <<version, directories, completion, corruptRuns>>
  BY IntentPublished
<1>2. TypeOK'
  BY <1>1, AnsweredCall DEF Inv, TypeOK
<1>3. intent'[k] = i /\ \A j \in Keys \ {k} : intent'[j] = intent[j]
  BY <1>1 DEF Inv, TypeOK
<1>4. Grows
  BY <1>1, <1>3 DEF Grows, Inv, TypeOK
<1>5. LedgerStaysIntact'
  BY <1>1, <1>3 DEF LedgerStaysIntact, Inv, Intended, Completed
<1>6. /\ CallInProgress(p)' /\ reply'[p] = r
      /\ \A q \in Processes \ {p} :
           UNCHANGED <<pc[q], call[q], seen[q], todo[q], found[q], start[q], reply[q]>>
  BY <1>1, <1>2, AnsweredCall DEF TypeOK
<1>7. RecordHolds(reply[p])'
  BY <1>1, <1>3, <1>6 DEF RecordHolds, Intended
<1> QED
  BY <1>2, <1>4, <1>5, <1>6, <1>7, StepKeepsInv

LEMMA IntentExistsInv ==
  ASSUME Inv, NEW p \in Processes, IntentExists(p)
  PROVE  Inv'
<1>1. CallInProgress(p)
  BY DEF Inv, CallsInv
<1>2. CallInProgress(p)'
  BY <1>1 DEF IntentExists, Continue, Goto, memory, CallInProgress, StartReached, Files,
     Intended, Completed, Inv, TypeOK
<1> QED
  BY <1>2, QuietContinue DEF IntentExists, Labels

\* What the link of a completion changes.
LEMMA CompletionPublished ==
  ASSUME Inv, NEW p \in Processes, PublishCompletion(p)
  PROVE  LET k == call[p].key
             c == [receipt |-> call[p].receipt, previous |-> intent[k]]
             r == [kind |-> "record", call |-> call[p], intent |-> intent[k],
                   receipt |-> call[p].receipt]
         IN  /\ call[p] \in Calls /\ call[p].op = "complete" /\ k \in Keys
             /\ Intended(k) /\ ~Completed(k)
             /\ c \in Completions /\ c # NoCompletion
             /\ completion' = [completion EXCEPT ![k] = c]
             /\ r \in Replies /\ Answer(p, r)
             /\ UNCHANGED <<version, directories, intent, corruptRuns>>
<1> DEFINE k == call[p].key
           c == [receipt |-> call[p].receipt, previous |-> intent[k]]
           r == [kind |-> "record", call |-> call[p], intent |-> intent[k],
                 receipt |-> call[p].receipt]
<1>1. /\ call[p] \in Calls /\ call[p].op = "complete" /\ k \in Keys /\ Intended(k)
      /\ seen[p] = intent[k] /\ call[p].receipt \in Receipts
  BY CallArguments DEF Inv, CallsInv, CallInProgress, PublishCompletion
<1>2. intent[k] \in Intents
  BY <1>1, CompletedReceipt DEF Inv
<1>3. c \in Completions /\ c # NoCompletion
  BY <1>1, <1>2, AbsentRecords DEF Completions
<1>4. r \in Replies
  BY <1>1, <1>2 DEF Replies, Records
<1> QED
  BY <1>1, <1>3, <1>4 DEF PublishCompletion, Deliver

LEMMA PublishCompletionInv ==
  ASSUME Inv, NEW p \in Processes, PublishCompletion(p)
  PROVE  Inv'
<1> DEFINE k == call[p].key
           c == [receipt |-> call[p].receipt, previous |-> intent[k]]
           r == [kind |-> "record", call |-> call[p], intent |-> intent[k],
                 receipt |-> call[p].receipt]
<1>1. /\ call[p] \in Calls /\ call[p].op = "complete" /\ k \in Keys
      /\ Intended(k) /\ ~Completed(k)
      /\ c \in Completions /\ c # NoCompletion
      /\ completion' = [completion EXCEPT ![k] = c]
      /\ r \in Replies /\ Answer(p, r)
      /\ UNCHANGED <<version, directories, intent, corruptRuns>>
  BY CompletionPublished
<1>2. TypeOK'
  BY <1>1, AnsweredCall DEF Inv, TypeOK
<1>3. completion'[k] = c /\ \A j \in Keys \ {k} : completion'[j] = completion[j]
  BY <1>1 DEF Inv, TypeOK
<1>4. Grows
  BY <1>1, <1>3 DEF Grows, Inv, TypeOK
<1>5. LedgerStaysIntact'
  BY <1>1, <1>3 DEF LedgerStaysIntact, Inv, Intended, Completed
<1>6. /\ CallInProgress(p)' /\ reply'[p] = r
      /\ \A q \in Processes \ {p} :
           UNCHANGED <<pc[q], call[q], seen[q], todo[q], found[q], start[q], reply[q]>>
  BY <1>1, <1>2, AnsweredCall DEF TypeOK
<1>7. RecordHolds(reply[p])'
  BY <1>1, <1>3, <1>6 DEF RecordHolds, Intended
<1> QED
  BY <1>2, <1>4, <1>5, <1>6, <1>7, StepKeepsInv

LEMMA CompletionExistsInv ==
  ASSUME Inv, NEW p \in Processes, CompletionExists(p)
  PROVE  Inv'
<1>1. CallInProgress(p)
  BY DEF Inv, CallsInv
<1>2. CallInProgress(p)'
  BY <1>1 DEF CompletionExists, Continue, Goto, memory, CallInProgress, StartReached, Files,
     Intended, Completed, Inv, TypeOK
<1> QED
  BY <1>2, QuietContinue DEF CompletionExists, Labels

LEMMA ListEffectsInv ==
  ASSUME Inv, NEW p \in Processes, ListEffects(p)
  PROVE  Inv'
<1>1. CallInProgress(p) /\ call[p] \in Calls /\ call[p].op = "recover"
  BY DEF Inv, CallsInv, CallInProgress, ListEffects
<1>2. TypeOK'
  BY DEF ListEffects, Goto, Files, Inv, TypeOK, Labels
<1>3. \A q \in Processes \ {p} :
        UNCHANGED <<pc[q], call[q], seen[q], todo[q], found[q], start[q], reply[q]>>
  BY DEF ListEffects, Goto, Inv, TypeOK
<1>4. pc'[p] = "visitEffects" /\ todo'[p] = directories /\ found'[p] = {} /\ reply'[p] = reply[p]
  <2>1. found[p] = {}
    BY DEF Inv, CallsInv, CallInProgress, ListEffects
  <2> QED
    BY <2>1 DEF ListEffects, Goto, Inv, TypeOK
<1>5. \A k \in start[p].intended : k \in directories
  <2>1. start[p].intended \subseteq Keys
    BY DEF Inv, TypeOK, Starts
  <2> QED
    BY <1>1, <2>1 DEF CallInProgress, StartReached, Inv, LedgerStaysIntact
<1>6. CallInProgress(p)'
  BY <1>1, <1>4, <1>5 DEF ListEffects, CallInProgress, StartReached, Files, Intended, Completed
<1> QED
  BY <1>2, <1>3, <1>4, <1>6, QuietStep DEF ListEffects

LEMMA VisitEffectInv ==
  ASSUME Inv, NEW p \in Processes, NEW k \in Keys, VisitEffect(p, k)
  PROVE  Inv'
<1>1. CallInProgress(p) /\ pc[p] = "visitEffects" /\ call[p] \in Calls /\ call[p].op = "recover"
  BY DEF Inv, CallsInv, CallInProgress, VisitEffect
<1>2. ~(Completed(k) /\ completion[k].previous # intent[k])
  BY DEF Inv, LedgerStaysIntact
<1>3. /\ todo' = [todo EXCEPT ![p] = @ \ {k}]
      /\ found' = [found EXCEPT ![p] = IF Intended(k) /\ ~Completed(k) THEN @ \cup {k} ELSE @]
      /\ UNCHANGED <<version, Files, corruptRuns, pc, call, seen, reply, start>>
  BY <1>2 DEF VisitEffect
<1>4. TypeOK'
  BY <1>3 DEF Files, Inv, TypeOK
<1>5. \A q \in Processes \ {p} :
        UNCHANGED <<pc[q], call[q], seen[q], todo[q], found[q], start[q], reply[q]>>
  BY <1>3 DEF Inv, TypeOK
<1>6. todo'[p] = todo[p] \ {k} /\ found'[p] = (IF Intended(k) /\ ~Completed(k) THEN found[p] \cup {k} ELSE found[p])
  BY <1>3 DEF Inv, TypeOK
<1>7. \A j \in start[p].intended : Completed(j) \/ j \in found'[p] \/ j \in todo'[p]
  BY <1>1, <1>6 DEF CallInProgress, StartReached
<1>8. \A j \in found'[p] : Intended(j) /\ j \notin start[p].completed
  BY <1>1, <1>6 DEF CallInProgress, StartReached
<1>9. CallInProgress(p)'
  BY <1>1, <1>3, <1>7, <1>8 DEF CallInProgress, StartReached, Files, Intended, Completed
<1> QED
  BY <1>3, <1>4, <1>5, <1>9, QuietStep

LEMMA ReturnEffectsInv ==
  ASSUME Inv, NEW p \in Processes, ReturnEffects(p)
  PROVE  Inv'
<1> DEFINE r == [kind |-> "effects", keys |-> found[p]]
<1>1. r \in Replies
  BY DEF Replies, Inv, TypeOK
<1> QED
  BY <1>1, QuietAnswer DEF ReturnEffects, Inv, TypeOK

LEMMA CommitInv ==
  ASSUME Inv, Commit
  PROVE  Inv'
<1>1. TypeOK' /\ Grows /\ UNCHANGED <<Files, pc, memory>>
  BY DEF Commit, Grows, Files, memory, Inv, TypeOK
<1>2. LedgerStaysIntact'
  BY <1>1 DEF LedgerStaysIntact, Files, Intended, Completed, Inv
<1>3. CallsInv'
  <2> SUFFICES ASSUME NEW q \in Processes PROVE CallInProgress(q)'
    BY DEF CallsInv
  <2> QED
    BY <1>1, OthersStay DEF memory
<1>4. RepliesInv'
  BY <1>1 DEF RepliesInv, RecordHolds, Intended, Files, memory, Inv
<1> QED
  BY <1>1, <1>2, <1>3, <1>4 DEF Inv

LEMMA NextInv == Inv /\ [Next]_vars => Inv'
<1> SUFFICES ASSUME Inv, [Next]_vars PROVE Inv'
  OBVIOUS
<1>1. CASE UNCHANGED vars
  BY <1>1 DEF vars, memory, Files, Inv, TypeOK, LedgerStaysIntact, CallsInv, CallInProgress,
     StartReached, RepliesInv, RecordHolds, Intended, Completed
<1>2. ASSUME NEW p \in Processes,
             RefuseMutation(p) \/ LoadMisreads(p) \/ PersistFails(p) \/ Crash(p)
      PROVE  Inv'
  BY <1>2, QuietFailure DEF RefuseMutation, LoadMisreads, PersistFails, Crash
<1> QED
  BY <1>1, <1>2, BeginInv, ReadIntentInv, ReadCompletionInv, LoadInv, MakeDirectoryInv,
     PublishIntentInv, IntentExistsInv, PublishCompletionInv, CompletionExistsInv,
     ListEffectsInv, VisitEffectInv, ReturnEffectsInv, CommitInv DEF Next, Step

LEMMA InvAlways == Spec => []Inv
  BY InitInv, NextInv, PTL DEF Spec

-----------------------------------------------------------------------------
\* The ledger's variables keep their types.
THEOREM LedgerTypeCorrect == Spec => []TypeOK
  BY InvAlways, PTL DEF Inv

\* Every completion follows the intent that lies beside it.
THEOREM LedgerIntact == Spec => []LedgerStaysIntact
  BY InvAlways, PTL DEF Inv

\* Whoever was given a record was given the ledger's, about the arguments of its call.
THEOREM LedgerRecordsAgree == Spec => []AcknowledgedRecordsAgree
<1>1. Inv => AcknowledgedRecordsAgree
  BY DEF Inv, RepliesInv, RecordHolds, AcknowledgedRecordsAgree
<1> QED
  BY <1>1, InvAlways, PTL

\* Only a contradiction or a disturbed load puts a process in diagnostic mode.
THEOREM LedgerDiagnosisIsEarned == Spec => DiagnosisIsEarned
<1>1. Inv /\ [Next]_vars =>
        [\A p \in Processes :
           corruptRuns'[p] /\ ~corruptRuns[p] => pc[p] = "load" \/ Contradicts(p)]_vars
  <2> SUFFICES ASSUME Inv, Next, NEW p \in Processes, corruptRuns'[p], ~corruptRuns[p]
               PROVE  pc[p] = "load" \/ Contradicts(p)
    BY DEF vars
  <2>1. PICK q \in Processes : Step(q)
    BY DEF Next, Commit
  <2>2. \/ (ReadIntent(q) \/ ReadCompletion(q) \/ LoadMisreads(q)
          \/ \E j \in Keys : VisitEffect(q, j)) /\ FailCorrupt(q)
        \/ corruptRuns' = corruptRuns
        \/ corruptRuns' = [corruptRuns EXCEPT ![q] = FALSE]
    <3>1. ASSUME NEW c \in Calls, Begin(q, c) PROVE corruptRuns' = corruptRuns
      BY <3>1 DEF Begin
    <3>2. CASE \/ RefuseMutation(q) \/ Load(q) \/ MakeDirectory(q) \/ PublishIntent(q)
               \/ IntentExists(q) \/ PublishCompletion(q) \/ CompletionExists(q)
               \/ ListEffects(q) \/ ReturnEffects(q) \/ PersistFails(q)
      <4>1. Load(q) => corruptRuns' = corruptRuns
        <5>1. Load(q) => call[q] \in Calls
          BY DEF Load, Inv, CallsInv, CallInProgress
        <5> QED
          BY <5>1 DEF Load, Fail, Calls
      <4> QED
        BY <3>2, <4>1 DEF RefuseMutation, MakeDirectory, PublishIntent, IntentExists,
           PublishCompletion, CompletionExists, ListEffects, ReturnEffects, PersistFails, Fail
    <3>3. CASE ReadIntent(q) \/ ReadCompletion(q) \/ LoadMisreads(q)
      BY <3>3 DEF ReadIntent, ReadCompletion, LoadMisreads
    <3>4. ASSUME NEW j \in Keys, VisitEffect(q, j)
          PROVE  FailCorrupt(q) \/ corruptRuns' = corruptRuns
      BY <3>4 DEF VisitEffect
    <3>5. Crash(q) => corruptRuns' = [corruptRuns EXCEPT ![q] = FALSE]
      BY DEF Crash
    <3> QED
      BY <2>1, <3>1, <3>2, <3>3, <3>4, <3>5 DEF Step
  <2>3. (ReadIntent(q) \/ ReadCompletion(q) \/ LoadMisreads(q)
          \/ \E j \in Keys : VisitEffect(q, j)) /\ FailCorrupt(q) /\ q = p
    BY <2>2 DEF FailCorrupt, Inv, TypeOK
  <2>4. CallInProgress(p) /\ LedgerStaysIntact /\ (pc'[p] = "idle") /\ (pc[p] # "idle" => call[p] \in Calls)
    BY <2>3 DEF Inv, CallsInv, CallInProgress, FailCorrupt, Answer, Goto, TypeOK
  <2>5. CASE ReadIntent(p)
    BY <2>4, <2>5 DEF ReadIntent, Contradicts, CallInProgress, Goto, Inv, TypeOK, Continue
  <2>6. CASE ReadCompletion(p)
    <3>1. /\ call[p].op \in {"append", "complete"} /\ call[p].key \in Keys /\ Intended(call[p].key)
          /\ seen[p] = intent[call[p].key]
      BY <2>4, <2>6, CallArguments DEF ReadCompletion, CallInProgress
    <3>2. Completed(call[p].key) => FollowsIntent(p)
      BY <3>1 DEF FollowsIntent, Inv, LedgerStaysIntact
    <3>3. ~(~Completed(call[p].key) /\ call[p].op = "complete") /\ ~Agrees(p)
      BY <2>6, <3>2 DEF ReadCompletion
    <3> QED
      BY <3>1, <3>3 DEF Agrees, Contradicts
  <2>7. CASE LoadMisreads(p)
    BY <2>7 DEF LoadMisreads
  <2>8. ~ \E j \in Keys : VisitEffect(p, j) /\ FailCorrupt(p)
    <3> SUFFICES ASSUME NEW j \in Keys, VisitEffect(p, j), FailCorrupt(p) PROVE FALSE
      OBVIOUS
    <3>1. ~(Completed(j) /\ completion[j].previous # intent[j])
      BY DEF Inv, LedgerStaysIntact
    <3>2. corruptRuns' = corruptRuns
      BY <3>1 DEF VisitEffect
    <3> QED
      BY <3>2
  <2> QED
    BY <2>3, <2>5, <2>6, <2>7, <2>8
<1> QED
  BY <1>1, InvAlways, PTL DEF Spec, DiagnosisIsEarned

-----------------------------------------------------------------------------
\* The ledger implements the register: linking a file is the instant at which a
\* mutation takes effect, and it answers in the same step.

ReceiptsOf == [k \in Keys |-> completion[k].receipt]

LEMMA RegisterTerms ==
  ASSUME TypeOK, NEW k \in Keys
  PROVE  /\ Register!Intended(k) <=> Intended(k)
         /\ Register!Completed(k) <=> Completed(k)
         /\ ReceiptsOf[k] = completion[k].receipt
  BY CompletedReceipt
     DEF Register!Intended, Intended, Register!NoIntent, NoIntent, Register!None, None,
         Register!Completed, ReceiptsOf

LEMMA InitMaps == Init => Register!Init
  BY DEF Init, Register!Init, Register!NoIntent, NoIntent, Register!None, None, NoCompletion,
     Register!NoCall, NoCall, Register!NoStart, NoStart

LEMMA AnswerMaps ==
  ASSUME NEW p \in Processes, NEW r, Answer(p, r), version' = version
  PROVE  Register!Answer(p, r)
  BY DEF Answer, Register!Answer, Register!NoCall, NoCall, Register!None, None,
     Register!NoStart, NoStart

\* The files as the register sees them.
LEMMA FilesMap ==
  ASSUME UNCHANGED Files
  PROVE  UNCHANGED <<intent, ReceiptsOf>>
  BY DEF Files, ReceiptsOf

LEMMA BeginMaps ==
  ASSUME Inv, NEW p \in Processes, NEW c \in Calls, Begin(p, c)
  PROVE  Register!Next
<1>1. call[p] = Register!NoCall
  BY DEF Begin, Inv, CallsInv, CallInProgress, Register!NoCall, NoCall, Register!None, None
<1>2. [version |-> version, intended |-> {k \in Keys : Intended(k)},
       completed |-> {k \in Keys : Completed(k)}] = Register!Here
  BY RegisterTerms DEF Register!Here, Inv
<1>3. Register!Invoke(p, c)
  BY <1>1, <1>2, FilesMap DEF Begin, Register!Invoke, ReceiptsOf, Files, Register!None, None
<1>4. c \in Register!Calls
  BY DEF Calls, Register!Calls
<1> QED
  BY <1>3, <1>4 DEF Register!Next

LEMMA CommitMaps ==
  ASSUME Commit
  PROVE  Register!Next
  BY FilesMap DEF Commit, Register!Next, Register!Commit, memory, ReceiptsOf

\* A call in progress is one in the register, too.
LEMMA CallsMap ==
  ASSUME Inv, NEW p \in Processes, pc[p] # "idle"
  PROVE  call[p] # Register!NoCall /\ call[p] \in Calls
  BY DEF Inv, CallsInv, CallInProgress, Calls, Register!NoCall, Register!None

LEMMA FailureMaps ==
  ASSUME Inv, NEW p \in Processes, UNCHANGED <<version, Files>>,
         \/ pc[p] # "idle" /\ (Fail(p, "refused") \/ Fail(p, "state_persist_failed") \/ FailCorrupt(p))
         \/ Answer(p, [kind |-> None])
  PROVE  Register!Next
<1>1. UNCHANGED <<intent, ReceiptsOf>>
  BY FilesMap
<1>2. ASSUME NEW code \in {"refused", "state_persist_failed"}, pc[p] # "idle",
             Answer(p, [kind |-> code])
      PROVE  Register!Next
  <2>1. Register!Answer(p, [kind |-> code])
    BY <1>2, AnswerMaps
  <2>2. Register!AnswerError(p)
    BY <1>1, <1>2, <2>1, CallsMap DEF Register!AnswerError, ReceiptsOf
  <2> QED
    BY <2>2 DEF Register!Next
<1>3. CASE Answer(p, [kind |-> None])
  <2>1. Register!Answer(p, [kind |-> None])
    BY <1>3, AnswerMaps
  <2>2. Register!Crash(p)
    BY <1>1, <2>1 DEF Register!Crash, ReceiptsOf, Register!None, None
  <2> QED
    BY <2>2 DEF Register!Next
<1> QED
  BY <1>2, <1>3 DEF Fail, FailCorrupt

\* Steps inside a call.
LEMMA InnerStepStutters ==
  ASSUME UNCHANGED <<version, intent, completion, call, start, reply>>
  PROVE  UNCHANGED Register!vars
  BY DEF Register!vars

LEMMA ReadCompletionMaps ==
  ASSUME Inv, NEW p \in Processes, ReadCompletion(p)
  PROVE  Register!Next \/ UNCHANGED Register!vars
<1> DEFINE k == call[p].key
           r == [kind |-> "record", call |-> call[p], intent |-> seen[p],
                 receipt |-> completion[k].receipt]
<1>1. /\ call[p] \in Calls /\ call[p].op \in {"append", "complete"}
      /\ k \in Keys /\ Intended(k) /\ seen[p] = intent[k]
  BY CallArguments DEF Inv, CallsInv, CallInProgress, ReadCompletion
<1>2. pc[p] # "idle" /\ UNCHANGED <<version, Files>>
  BY DEF ReadCompletion
<1>3. CASE ~Completed(k) /\ call[p].op = "complete"
  BY <1>3, InnerStepStutters DEF ReadCompletion, Continue, memory, Files
<1>4. CASE ~(~Completed(k) /\ call[p].op = "complete") /\ (Completed(k) => FollowsIntent(p)) /\ Agrees(p)
  <2>1. Register!Answer(p, r)
    BY <1>2, <1>4, AnswerMaps DEF ReadCompletion, Deliver
  <2>2. \/ call[p].op = "append" /\ intent[k].payload = call[p].payload
        \/ call[p].op = "complete" /\ ReceiptsOf[k] = call[p].receipt
    BY <1>1, <1>4 DEF Agrees, ReceiptsOf
  <2>3. Register!Intended(k) /\ ReceiptsOf[k] = completion[k].receipt
    BY <1>1, RegisterTerms DEF Inv
  <2>4. UNCHANGED <<intent, ReceiptsOf>>
    BY <1>2, FilesMap
  <2>5. Register!AnswerRecorded(p)
    BY <1>1, <2>1, <2>2, <2>3, <2>4 DEF Register!AnswerRecorded, Register!Record, ReceiptsOf
  <2> QED
    BY <2>5 DEF Register!Next
<1>5. CASE ~(~Completed(k) /\ call[p].op = "complete") /\ ~((Completed(k) => FollowsIntent(p)) /\ Agrees(p))
  BY <1>2, <1>5, FailureMaps DEF ReadCompletion
<1> QED
  BY <1>3, <1>4, <1>5

LEMMA LoadMaps ==
  ASSUME Inv, NEW p \in Processes, Load(p)
  PROVE  Register!Next \/ UNCHANGED Register!vars
<1>1. call[p] \in Calls /\ UNCHANGED <<version, Files>> /\ pc[p] # "idle"
  BY DEF Load, Inv, CallsInv, CallInProgress
<1>2. CASE call[p].op = "append" /\ version # VersionOf[call[p].key]
  <2>1. Register!Answer(p, [kind |-> "stale_state"])
    BY <1>1, <1>2, AnswerMaps DEF Load, Fail
  <2>2. version \in start[p].version .. version
    BY DEF Inv, CallsInv, CallInProgress, StartReached, TypeOK, Starts
  <2>3. Register!AnswerStale(p)
    BY <1>1, <1>2, <2>1, <2>2, FilesMap DEF Register!AnswerStale, ReceiptsOf
  <2> QED
    BY <2>3 DEF Register!Next
<1>3. CASE ~(call[p].op = "append" /\ version # VersionOf[call[p].key])
  <2>1. UNCHANGED memory
    BY <1>1, <1>3 DEF Load, Continue, Calls
  <2> QED
    BY <1>1, <2>1, InnerStepStutters DEF memory, Files
<1> QED
  BY <1>2, <1>3

LEMMA PublishIntentMaps ==
  ASSUME Inv, NEW p \in Processes, PublishIntent(p)
  PROVE  Register!Next
<1> DEFINE k == call[p].key
           i == [author |-> p, payload |-> call[p].payload]
           r == [kind |-> "record", call |-> call[p], intent |-> i, receipt |-> None]
<1>1. /\ call[p] \in Calls /\ call[p].op = "append" /\ k \in Keys
      /\ VersionOf[k] \in start[p].version .. version
      /\ ~Intended(k)
      /\ intent' = [intent EXCEPT ![k] = i]
      /\ Answer(p, r)
      /\ UNCHANGED <<version, completion>>
  BY IntentPublished
<1>2. Register!Answer(p, r) /\ ~Register!Intended(k) /\ ReceiptsOf' = ReceiptsOf
  BY <1>1, AnswerMaps, RegisterTerms DEF Inv, ReceiptsOf
<1>3. Register!AnswerIntended(p)
  BY <1>1, <1>2 DEF Register!AnswerIntended, Register!Record, ReceiptsOf, Register!None, None
<1> QED
  BY <1>3 DEF Register!Next

LEMMA PublishCompletionMaps ==
  ASSUME Inv, NEW p \in Processes, PublishCompletion(p)
  PROVE  Register!Next
<1> DEFINE k == call[p].key
           c == [receipt |-> call[p].receipt, previous |-> intent[k]]
           r == [kind |-> "record", call |-> call[p], intent |-> intent[k],
                 receipt |-> call[p].receipt]
<1>1. /\ call[p] \in Calls /\ call[p].op = "complete" /\ k \in Keys
      /\ Intended(k) /\ ~Completed(k)
      /\ completion' = [completion EXCEPT ![k] = c]
      /\ Answer(p, r)
      /\ UNCHANGED <<version, intent>>
  BY CompletionPublished
<1>2. ReceiptsOf' = [ReceiptsOf EXCEPT ![k] = call[p].receipt]
  BY <1>1 DEF ReceiptsOf, Inv, TypeOK
<1>3. Register!Answer(p, r) /\ Register!Intended(k) /\ ~Register!Completed(k)
  BY <1>1, AnswerMaps, RegisterTerms DEF Inv
<1>4. Register!AnswerCompleted(p)
  BY <1>1, <1>2, <1>3 DEF Register!AnswerCompleted, Register!Record, ReceiptsOf
<1> QED
  BY <1>4 DEF Register!Next

LEMMA ReturnEffectsMaps ==
  ASSUME Inv, NEW p \in Processes, ReturnEffects(p)
  PROVE  Register!Next
<1>1. /\ call[p].op = "recover" /\ todo[p] = {} /\ UNCHANGED <<version, Files>>
      /\ \A k \in start[p].intended : Completed(k) \/ k \in found[p]
      /\ \A k \in found[p] : Intended(k) /\ k \notin start[p].completed
  BY DEF ReturnEffects, Inv, CallsInv, CallInProgress
<1>2. found[p] \in SUBSET Keys /\ start[p].intended \subseteq Keys
  BY DEF Inv, TypeOK, Starts
<1>3. /\ {k \in start[p].intended : ~Register!Completed(k)} \subseteq found[p]
      /\ found[p] \subseteq {k \in Keys : Register!Intended(k)} \ start[p].completed
  BY <1>1, <1>2, RegisterTerms DEF Inv
<1>4. Register!Answer(p, [kind |-> "effects", keys |-> found[p]])
  BY <1>1, AnswerMaps DEF ReturnEffects
<1>5. Register!AnswerEffects(p)
  BY <1>1, <1>2, <1>3, <1>4, FilesMap DEF Register!AnswerEffects, ReceiptsOf
<1> QED
  BY <1>5 DEF Register!Next

\* Every step of the ledger is a step of the register or invisible in it.
LEMMA NextMaps == Inv /\ [Next]_vars => [Register!Next]_Register!vars
<1> SUFFICES ASSUME Inv, [Next]_vars PROVE Register!Next \/ UNCHANGED Register!vars
  OBVIOUS
<1>1. CASE UNCHANGED vars
  BY <1>1, InnerStepStutters DEF vars, Files, memory
<1>2. ASSUME NEW p \in Processes,
             RefuseMutation(p) \/ LoadMisreads(p) \/ PersistFails(p) \/ Crash(p)
      PROVE  Register!Next
  BY <1>2, FailureMaps DEF RefuseMutation, LoadMisreads, PersistFails, Crash
<1>3. ASSUME NEW p \in Processes,
             MakeDirectory(p) \/ IntentExists(p) \/ CompletionExists(p) \/ ListEffects(p)
      PROVE  UNCHANGED Register!vars
  BY <1>3, InnerStepStutters
     DEF MakeDirectory, IntentExists, CompletionExists, ListEffects, Continue, Files, memory
<1>4. ASSUME NEW p \in Processes, ReadIntent(p)
      PROVE  Register!Next \/ UNCHANGED Register!vars
  <2>1. CASE ~Intended(call[p].key) /\ call[p].op # "append"
    BY <1>4, <2>1, FailureMaps DEF ReadIntent
  <2>2. CASE ~(~Intended(call[p].key) /\ call[p].op # "append")
    BY <1>4, <2>2, InnerStepStutters DEF ReadIntent, Continue, Files, memory
  <2> QED
    BY <2>1, <2>2
<1>5. ASSUME NEW p \in Processes, NEW k \in Keys, VisitEffect(p, k)
      PROVE  Register!Next \/ UNCHANGED Register!vars
  <2>1. CASE Completed(k) /\ completion[k].previous # intent[k]
    BY <1>5, <2>1, FailureMaps DEF VisitEffect
  <2>2. CASE ~(Completed(k) /\ completion[k].previous # intent[k])
    BY <1>5, <2>2, InnerStepStutters DEF VisitEffect, Files
  <2> QED
    BY <2>1, <2>2
<1> QED
  BY <1>1, <1>2, <1>3, <1>4, <1>5, BeginMaps, CommitMaps, ReadCompletionMaps, LoadMaps,
     PublishIntentMaps, PublishCompletionMaps, ReturnEffectsMaps DEF Next, Step

\* Every behaviour of the ledger is a behaviour of the register: racing, failing and
\* dying calls take effect one at a time, an intent only for a version the Run had
\* during its call, and recovery returns exactly what was open.
THEOREM LedgerImplementsRegister == Spec => ImplementsRegister
<1>1. Register!Init /\ [][Register!Next]_Register!vars => ImplementsRegister
  BY DEF ImplementsRegister, Register!Spec
<1> QED
  BY <1>1, InvAlways, InitMaps, NextMaps, PTL DEF Spec

-----------------------------------------------------------------------------
(* The production runtime: its inductive invariant.                           *)

ValidPlans == {p \in Plans : Len(p.slices) \in Nat \ {0}}
IdsOf(plan) == {plan.slices[k].slice_id : k \in 1..Len(plan.slices)}
SliceIds == UNION {IdsOf(p) : p \in ValidPlans}

RunStatuses == {"CREATED", "PREPARING", "SLICE_RUNNING", "NEEDS_USER", "DONE"}
RunRecords ==
  [status: RunStatuses, version: Nat, plan: ValidPlans, slice: SliceIds, binding: ValidPlans \X SliceIds,
   thread: Nat \cup {Null, "continuation"}, leased: BOOLEAN, epoch: Nat]
TaskRecords == [slice: SliceIds, by: Invocations \cup {Null}, status: {"running", "completed", "failed"}]

(* No value stands for the absence of one.                                    *)
NullIsNoValue ==
  Null \notin RunRecords \cup {"PREPARING", "production_run_invalid", "production_plan_invalid"}

(* The steps of the loop over the slices; those in which the invocation holds the *)
(* Run as it is before the slice, its task, or the Run as it is after it.        *)
BeforeSlice == {"slice", "dispatch", "dispatched"}
WithTask == {"dispatched", "working"}
AfterSlice == {"prepare", "release", "done"}
InLoop == BeforeSlice \cup WithTask \cup AfterSlice

Fields == {"step", "plan", "timing", "current", "index", "task", "lost", "result"}
IsInvocation(v) == v = [f \in Fields |-> v[f]]

(* What an invocation holds is the Run, or a Run of an earlier version.          *)
HoldsRun(v, r) ==
  /\ v.current \in RunRecords /\ v.current.plan = r.plan /\ v.current.version <= r.version
  /\ v.current.version = r.version => v.current = r

(* An invocation in the loop works on the Run's plan, and was told the end of every *)
(* slice before its own.                                                     *)
LoopInv(v, r, ts) ==
  /\ v.plan = r.plan /\ v.index \in 1..Len(r.plan.slices)
  /\ HoldsRun(v, r)
  /\ \A j \in 1..(v.index - 1) : IsDone(ts, r.plan, j, Len(ts))

InvocationInv(v, r, ts, l) ==
  /\ IsInvocation(v)
  /\ v.step \notin {"idle", "start", "starting"} => r \in RunRecords
  /\ v.step # "idle" => v.plan \in ValidPlans
  /\ v.step \in InLoop => LoopInv(v, r, ts)
  /\ v.step \in BeforeSlice => v.current.status = "PREPARING"
  /\ v.step \in WithTask => v.task \in 1..Len(ts) /\ ts[v.task].slice = r.plan.slices[v.index].slice_id
  /\ v.step \in AfterSlice => v.current.status = "SLICE_RUNNING" /\ IsDone(ts, r.plan, v.index, Len(ts))
  /\ v.step \in {"release", "done"} => v.index = Len(r.plan.slices)
  /\ v.step = "prepare" => v.index # Len(r.plan.slices)
  /\ v.step = "done" /\ v.current.version = r.version => l = Null

InOrder(ts, plan) ==
  \A t \in 1..Len(ts) : \E k \in 1..Len(plan.slices) :
    /\ ts[t].slice = plan.slices[k].slice_id
    /\ \A j \in 1..(k - 1) : IsDone(ts, plan, j, t - 1)

EarnedBy(r, ts, l) ==
  r.status = "DONE" =>
    /\ l = Null /\ ~r.leased
    /\ \A k \in 1..Len(r.plan.slices) : IsDone(ts, r.plan, k, Len(ts))

(* What is left of the invocations: the Run with its tasks and its lease.          *)
RunInv(r, ts, l) ==
  /\ ts \in Seq(TaskRecords)
  /\ (r = Null /\ ts = << >>) \/ r \in RunRecords
  /\ r \in RunRecords => InOrder(ts, r.plan) /\ EarnedBy(r, ts, l)

RuntimeInv ==
  /\ RunInv(run, tasks, lease)
  /\ command = [p \in Plans |-> command[p]]
  /\ \A p \in Plans : command[p] = "PREPARING" => run \in RunRecords
  /\ inv = [i \in Invocations |-> inv[i]]
  /\ \A i \in Invocations : InvocationInv(inv[i], run, tasks, lease)

-----------------------------------------------------------------------------
(* What an invocation's record keeps when it goes on.                              *)

LEMMA GoesFacts ==
  ASSUME NEW v, IsInvocation(v), NEW s
  PROVE  LET w == [v EXCEPT !.step = s]
         IN /\ IsInvocation(w) /\ w.step = s /\ w.plan = v.plan /\ w.current = v.current
            /\ w.index = v.index /\ w.task = v.task
BY DEF IsInvocation, Fields

LEMMA HeldFacts ==
  ASSUME NEW v, IsInvocation(v), NEW s, NEW r
  PROVE  LET w == [v EXCEPT !.step = s, !.current = r]
         IN /\ IsInvocation(w) /\ w.step = s /\ w.plan = v.plan /\ w.current = r
            /\ w.index = v.index /\ w.task = v.task
BY DEF IsInvocation, Fields

LEMMA IndexFacts ==
  ASSUME NEW v, IsInvocation(v), NEW s, NEW r, NEW n
  PROVE  LET w == [v EXCEPT !.step = s, !.current = r, !.index = n]
         IN /\ IsInvocation(w) /\ w.step = s /\ w.plan = v.plan /\ w.current = r
            /\ w.index = n /\ w.task = v.task
BY DEF IsInvocation, Fields

LEMMA TaskFacts ==
  ASSUME NEW v, IsInvocation(v), NEW s, NEW n
  PROVE  LET w == [v EXCEPT !.step = s, !.task = n]
         IN /\ IsInvocation(w) /\ w.step = s /\ w.plan = v.plan /\ w.current = v.current
            /\ w.index = v.index /\ w.task = n
BY DEF IsInvocation, Fields

LEMMA LostFacts ==
  ASSUME NEW v, IsInvocation(v)
  PROVE  LET w == [v EXCEPT !.lost = TRUE]
         IN /\ IsInvocation(w) /\ w.step = v.step /\ w.plan = v.plan /\ w.current = v.current
            /\ w.index = v.index /\ w.task = v.task
BY DEF IsInvocation, Fields

LEMMA NewFacts ==
  ASSUME NEW p, NEW t, NEW x
  PROVE  LET w == [NoInvocation EXCEPT !.step = "start", !.plan = p, !.timing = t]
             u == [NoInvocation EXCEPT !.result = x]
         IN /\ IsInvocation(w) /\ w.step = "start" /\ w.plan = p
            /\ IsInvocation(u) /\ u.step = "idle"
            /\ IsInvocation(NoInvocation) /\ NoInvocation.step = "idle"
BY DEF IsInvocation, Fields, NoInvocation

-----------------------------------------------------------------------------
(* How the Run and the tasks go on beside an invocation.                           *)

(* Tasks are only added, keep their slice, and stay completed.                     *)
Extends(ts, us) ==
  /\ ts \in Seq(TaskRecords) /\ us \in Seq(TaskRecords) /\ Len(ts) <= Len(us)
  /\ \A t \in 1..Len(ts) :
       us[t].slice = ts[t].slice /\ (ts[t].status = "completed" => us[t].status = "completed")

(* The Run keeps its plan, and every change of it is a new version.                *)
Onward(r, s) == s \in RunRecords /\ s.plan = r.plan /\ (s = r \/ s.version > r.version)

LEMMA DoneStays ==
  ASSUME NEW ts, NEW us, Extends(ts, us), NEW plan, NEW k, NEW n \in 0..Len(ts), NEW m \in Nat, n <= m,
         IsDone(ts, plan, k, n)
  PROVE  IsDone(us, plan, k, m)
BY DEF Extends, IsDone

LEMMA TasksExtend == ASSUME NEW ts \in Seq(TaskRecords) PROVE Extends(ts, ts)
BY DEF Extends

LEMMA RunGoesOn == ASSUME NEW r \in RunRecords PROVE Onward(r, r)
BY DEF Onward

LEMMA InvocationKeeps ==
  ASSUME NEW v, NEW r, NEW ts, NEW l, NEW s, NEW us, NEW m,
         InvocationInv(v, r, ts, l), r \in RunRecords => Onward(r, s), Extends(ts, us),
         s = r /\ l = Null => m = Null
  PROVE  InvocationInv(v, s, us, m)
<1>a. CASE r \notin RunRecords
  BY <1>a DEF InvocationInv, InLoop, BeforeSlice, WithTask, AfterSlice
<1>b. CASE r \in RunRecords
  <2>0. r.version \in Nat /\ s.version \in Nat /\ s.plan = r.plan /\ s \in RunRecords
    BY <1>b DEF RunRecords, Onward
  <2>1. ASSUME NEW j, NEW n, IsDone(ts, r.plan, j, n), n = Len(ts)
        PROVE  IsDone(us, r.plan, j, Len(us))
    <3>1. Len(ts) \in 0..Len(ts) /\ Len(us) \in Nat /\ Len(ts) <= Len(us)
      BY DEF Extends
    <3> QED BY <2>1, <3>1, DoneStays
  <2>2. v.step \in InLoop => LoopInv(v, s, us)
    <3> SUFFICES ASSUME LoopInv(v, r, ts) PROVE LoopInv(v, s, us)
      BY DEF InvocationInv
    <3>1. HoldsRun(v, s)
      <4>1. v.current.version \in Nat
        BY DEF LoopInv, HoldsRun, RunRecords
      <4> QED BY <1>b, <2>0, <4>1 DEF LoopInv, HoldsRun, Onward
    <3> QED BY <2>0, <2>1, <3>1 DEF LoopInv
  <2>3. v.step = "done" /\ v.current.version = s.version => m = Null
    <3> SUFFICES ASSUME v.step = "done", v.current.version = s.version PROVE m = Null
      OBVIOUS
    <3>1. HoldsRun(v, r)
      BY DEF InvocationInv, InLoop, AfterSlice, LoopInv
    <3>2. v.current.version \in Nat
      BY <3>1 DEF HoldsRun, RunRecords
    <3>3. s = r
      BY <1>b, <2>0, <3>1, <3>2 DEF HoldsRun, Onward
    <3> QED BY <3>3 DEF InvocationInv
  <2>4. v.step \in WithTask => v.task \in 1..Len(us) /\ us[v.task].slice = s.plan.slices[v.index].slice_id
    BY <2>0 DEF InvocationInv, Extends
  <2>5. v.step \in AfterSlice => v.current.status = "SLICE_RUNNING" /\ IsDone(us, s.plan, v.index, Len(us))
    BY <2>0, <2>1 DEF InvocationInv
  <2> QED BY <2>0, <2>2, <2>3, <2>4, <2>5 DEF InvocationInv
<1> QED BY <1>a, <1>b

LEMMA RunKeeps ==
  ASSUME NEW r, NEW ts, NEW l, NEW s, NEW us, NEW m, Null \notin RunRecords,
         RunInv(r, ts, l), r \in RunRecords => Onward(r, s), r \notin RunRecords => s = r,
         Extends(ts, us), Len(us) = Len(ts), s \in RunRecords /\ s.status = "DONE" => s = r,
         s = r /\ l = Null => m = Null
  PROVE  RunInv(s, us, m)
<1>1. CASE r \notin RunRecords
  <2>1. us = << >>
    BY <1>1 DEF RunInv, Extends
  <2> QED BY <1>1, <2>1 DEF RunInv, Extends
<1>2. CASE r \in RunRecords
  <2>1. s \in RunRecords /\ s.plan = r.plan
    BY <1>2 DEF Onward
  <2>2. InOrder(us, s.plan)
    <3>1. SUFFICES ASSUME NEW t \in 1..Len(us)
                   PROVE  \E k \in 1..Len(r.plan.slices) :
                            /\ us[t].slice = r.plan.slices[k].slice_id
                            /\ \A j \in 1..(k - 1) : IsDone(us, r.plan, j, t - 1)
      BY <2>1 DEF InOrder
    <3>2. PICK k \in 1..Len(r.plan.slices) :
            /\ ts[t].slice = r.plan.slices[k].slice_id
            /\ \A j \in 1..(k - 1) : IsDone(ts, r.plan, j, t - 1)
      BY <1>2 DEF RunInv, InOrder
    <3>3. t \in 1..Len(ts) /\ t - 1 \in 0..Len(ts) /\ t - 1 \in Nat /\ t - 1 <= t - 1
      BY DEF Extends
    <3>4. \A j \in 1..(k - 1) : IsDone(us, r.plan, j, t - 1)
      BY <3>2, <3>3, DoneStays
    <3> QED BY <3>2, <3>3, <3>4 DEF Extends
  <2>3. EarnedBy(s, us, m)
    <3>1. SUFFICES ASSUME s.status = "DONE" PROVE EarnedBy(s, us, m)
      BY DEF EarnedBy
    <3>2. s = r
      BY <2>1, <3>1
    <3>3. Len(ts) \in 0..Len(ts) /\ Len(us) \in Nat /\ Len(ts) <= Len(us)
      BY DEF Extends
    <3> QED BY <1>2, <3>1, <3>2, <3>3, DoneStays DEF RunInv, EarnedBy
  <2> QED BY <2>1, <2>2, <2>3 DEF RunInv, Extends
<1> QED BY <1>1, <1>2

-----------------------------------------------------------------------------
(* A step of an invocation keeps the invariant if it keeps what it says of the Run  *)
(* and of the invocation itself.                                                *)

LEMMA StepKeeps ==
  ASSUME RuntimeInv, NEW i \in Invocations,
         inv' = [j \in Invocations |-> inv'[j]], \A j \in Invocations \ {i} : inv'[j] = inv[j],
         InvocationInv(inv[i], run, tasks, lease) => InvocationInv(inv'[i], run', tasks', lease'),
         run \in RunRecords => Onward(run, run'), Extends(tasks, tasks'),
         run' = run /\ lease = Null => lease' = Null, RunInv(run', tasks', lease'),
         command' = [p \in Plans |-> command'[p]],
         \A p \in Plans : command'[p] = "PREPARING" => run' \in RunRecords
  PROVE  RuntimeInv'
<1>1. ASSUME NEW j \in Invocations PROVE InvocationInv(inv'[j], run', tasks', lease')
  <2>1. CASE j = i
    BY <2>1 DEF RuntimeInv
  <2>2. CASE j # i
    <3>1. InvocationInv(inv[j], run, tasks, lease) /\ inv'[j] = inv[j]
      BY <2>2 DEF RuntimeInv
    <3> QED BY <3>1, InvocationKeeps
  <2> QED BY <2>1, <2>2
<1> QED BY <1>1 DEF RuntimeInv

(* The step that changes nothing but an invocation, or a command besides.          *)
LEMMA OwnStepKeeps ==
  ASSUME RuntimeInv, NEW i \in Invocations,
         inv' = [j \in Invocations |-> inv'[j]], \A j \in Invocations \ {i} : inv'[j] = inv[j],
         InvocationInv(inv[i], run, tasks, lease) => InvocationInv(inv'[i], run, tasks, lease),
         UNCHANGED <<run, tasks, lease>>,
         command' = [p \in Plans |-> command'[p]],
         \A p \in Plans : command'[p] = "PREPARING" => command[p] = "PREPARING" \/ run \in RunRecords
  PROVE  RuntimeInv'
<1>1. tasks \in Seq(TaskRecords)
  BY DEF RuntimeInv, RunInv
<1>2. run \in RunRecords => Onward(run, run')
  BY RunGoesOn
<1>3. Extends(tasks, tasks')
  BY <1>1, TasksExtend
<1>4. \A p \in Plans : command'[p] = "PREPARING" => run' \in RunRecords
  BY DEF RuntimeInv
<1>5. RunInv(run', tasks', lease')
  BY DEF RuntimeInv
<1> QED BY <1>2, <1>3, <1>4, <1>5, StepKeeps

LEMMA GoesOn ==
  ASSUME RuntimeInv, NEW i \in Invocations, NEW s, Goes(i, s)
  PROVE  /\ inv' = [j \in Invocations |-> inv'[j]] /\ \A j \in Invocations \ {i} : inv'[j] = inv[j]
         /\ IsInvocation(inv'[i]) /\ inv'[i].step = s /\ inv'[i].plan = inv[i].plan
         /\ inv'[i].current = inv[i].current /\ inv'[i].index = inv[i].index
         /\ inv'[i].task = inv[i].task
<1>1. inv = [j \in Invocations |-> inv[j]] /\ IsInvocation(inv[i])
  BY DEF RuntimeInv, InvocationInv
<1>2. inv' = [j \in Invocations |-> IF j = i THEN [inv[i] EXCEPT !.step = s] ELSE inv[j]]
  BY <1>1 DEF Goes
<1>3. inv'[i] = [inv[i] EXCEPT !.step = s]
  BY <1>2
<1> QED BY <1>1, <1>2, <1>3, GoesFacts

LEMMA ResultIs ==
  ASSUME RuntimeInv, NEW i \in Invocations, NEW x, Result(i, x)
  PROVE  /\ inv' = [j \in Invocations |-> inv'[j]] /\ \A j \in Invocations \ {i} : inv'[j] = inv[j]
         /\ \A r, ts, l : InvocationInv(inv'[i], r, ts, l)
<1>1. inv = [j \in Invocations |-> inv[j]] /\ IsInvocation(inv[i])
  BY DEF RuntimeInv, InvocationInv
<1>2. inv' = [j \in Invocations |-> IF j = i THEN [inv[i] EXCEPT !.step = "idle", !.result = x] ELSE inv[j]]
  BY <1>1 DEF Result
<1>3. inv'[i] = [inv[i] EXCEPT !.step = "idle", !.result = x]
  BY <1>2
<1>4. IsInvocation(inv'[i]) /\ inv'[i].step = "idle"
  BY <1>1, <1>3 DEF IsInvocation, Fields
<1> QED BY <1>2, <1>4 DEF InvocationInv, InLoop, BeforeSlice, WithTask, AfterSlice

LEMMA OutOfTheLoop ==
  ASSUME NEW w, NEW r, NEW ts, NEW l, IsInvocation(w), w.plan \in ValidPlans,
         w.step \in {"start", "starting"} \/ (w.step \in {"started", "run", "closing"} /\ r \in RunRecords)
  PROVE  InvocationInv(w, r, ts, l)
BY DEF InvocationInv, InLoop, BeforeSlice, WithTask, AfterSlice

(* The plans that are accepted have slices.                                      *)
LEMMA FirstIsFound ==
  ASSUME NEW a, NEW b, NEW c, NEW d, NEW e, a # Null PROVE FirstOf(<<a, b, c, d, e>>) # Null
<1> DEFINE five == <<a, b, c, d, e>>
           given == {i \in DOMAIN five : five[i] # Null}
<1>1. DOMAIN five = 1..5 /\ five[1] = a
  OBVIOUS
<1> HIDE DEF five
<1>2. 1 \in given /\ \A j \in given : 1 <= j
  BY <1>1
<1>3. (CHOOSE i \in given : \A j \in given : i <= j) \in given
  BY <1>2
<1> QED BY <1>2, <1>3 DEF FirstOf, five

LEMMA ParsedPlansAreValid ==
  ASSUME NullIsNoValue, NEW plan \in Plans, NEW time, ParseFailure(plan, time) = Null
  PROVE  plan \in ValidPlans
<1>1. FieldsAreValid(plan)
  <2> SUFFICES ASSUME ~FieldsAreValid(plan) PROVE FALSE
    OBVIOUS
  <2>1. PICK b, c, d, e : Failures(plan, time) = <<"production_plan_invalid", b, c, d, e>>
    BY DEF Failures
  <2> QED BY <2>1, FirstIsFound DEF ParseFailure, NullIsNoValue
<1> QED BY <1>1 DEF FieldsAreValid, ValidPlans

-----------------------------------------------------------------------------
(* Before the Run.                                                          *)

LEMMA TickKeepsRuntime == ASSUME RuntimeInv, Tick PROVE RuntimeInv'
BY DEF RuntimeInv, Tick

LEMMA InvokeKeeps ==
  ASSUME NullIsNoValue, RuntimeInv, NEW i \in Invocations, NEW plan \in Plans, NEW timing, NEW outside,
         Invoke(i, plan, timing, outside)
  PROVE  RuntimeInv'
<1> DEFINE failure == IF ~outside \/ ~TimingIsValid(timing) THEN "production_run_invalid"
                      ELSE ParseFailure(plan, now)
           w == IF failure # Null THEN [NoInvocation EXCEPT !.result = failure]
                ELSE [NoInvocation EXCEPT !.step = "start", !.plan = plan, !.timing = timing]
<1>1. inv = [j \in Invocations |-> inv[j]] /\ inv' = [inv EXCEPT ![i] = w]
  BY DEF RuntimeInv, Invoke
<1>2. IsInvocation(w) /\ (w.step = "idle" \/ (w.step = "start" /\ w.plan \in ValidPlans))
  <2>1. CASE failure # Null
    BY <2>1, NewFacts
  <2>2. CASE failure = Null
    <3>1. plan \in ValidPlans
      BY <2>2, ParsedPlansAreValid DEF NullIsNoValue
    <3>2. w = [NoInvocation EXCEPT !.step = "start", !.plan = plan, !.timing = timing]
      BY <2>2
    <3>3. IsInvocation(w) /\ w.step = "start" /\ w.plan = plan
      BY <3>2 DEF NoInvocation, IsInvocation, Fields
    <3> QED BY <3>1, <3>3
  <2> QED BY <2>1, <2>2
<1> HIDE DEF w
<1>3. InvocationInv(w, run, tasks, lease)
  BY <1>2, OutOfTheLoop DEF InvocationInv, InLoop, BeforeSlice, WithTask, AfterSlice
<1>4. command' = [p \in Plans |-> command'[p]]
  BY DEF Invoke, RuntimeInv
<1>5. inv' = [j \in Invocations |-> inv'[j]] /\ inv'[i] = w
      /\ \A j \in Invocations \ {i} : inv'[j] = inv[j]
  BY <1>1
<1>6. UNCHANGED <<now, command, run, lease, tasks>>
  BY DEF Invoke
<1> QED BY <1>3, <1>4, <1>5, <1>6, OwnStepKeeps

LEMMA ClaimStartKeeps == ASSUME RuntimeInv, NEW i \in Invocations, ClaimStart(i) PROVE RuntimeInv'
<1>0. inv[i].plan \in ValidPlans /\ inv[i].plan \in Plans
  BY DEF ClaimStart, RuntimeInv, InvocationInv, ValidPlans
<1>1. CASE command[inv[i].plan] = Null
  <2>1. Goes(i, "starting") /\ command' = [command EXCEPT ![inv[i].plan] = "begun"]
    BY <1>1 DEF ClaimStart
  <2>2. InvocationInv(inv'[i], run, tasks, lease)
    BY <1>0, <2>1, GoesOn, OutOfTheLoop
  <2>3. /\ command' = [p \in Plans |-> command'[p]]
        /\ \A p \in Plans : command'[p] = "PREPARING" => command[p] = "PREPARING"
    BY <2>1 DEF RuntimeInv
  <2> QED BY <2>1, <2>2, <2>3, GoesOn, OwnStepKeeps DEF ClaimStart
<1>2. CASE command[inv[i].plan] = "PREPARING" /\ Goes(i, "run") /\ UNCHANGED command
  <2>1. run \in RunRecords
    BY <1>0, <1>2 DEF RuntimeInv
  <2>2. InvocationInv(inv'[i], run, tasks, lease)
    BY <1>0, <1>2, <2>1, GoesOn, OutOfTheLoop
  <2> QED BY <1>2, <2>2, GoesOn, OwnStepKeeps DEF ClaimStart, RuntimeInv
<1>3. CASE Result(i, "failed") /\ UNCHANGED command
  BY <1>3, ResultIs, OwnStepKeeps DEF ClaimStart, RuntimeInv
<1> QED BY <1>1, <1>2, <1>3 DEF ClaimStart

LEMMA StartIsRejectedKeeps ==
  ASSUME RuntimeInv, NEW i \in Invocations, StartIsRejected(i) PROVE RuntimeInv'
<1>1. /\ command' = [p \in Plans |-> command'[p]]
      /\ \A p \in Plans : command'[p] = "PREPARING" => command[p] = "PREPARING"
  BY DEF RuntimeInv, StartIsRejected
<1> QED BY <1>1, ResultIs, OwnStepKeeps DEF StartIsRejected

LEMMA CompleteStartKeeps ==
  ASSUME RuntimeInv, NEW i \in Invocations, CompleteStart(i) PROVE RuntimeInv'
<1>1. run \in RunRecords /\ inv[i].plan \in ValidPlans
  BY DEF RuntimeInv, CompleteStart, InvocationInv
<1>2. command' = [p \in Plans |-> command'[p]]
  BY DEF RuntimeInv, CompleteStart
<1>3. InvocationInv(inv'[i], run, tasks, lease)
  BY <1>1, GoesOn, OutOfTheLoop DEF CompleteStart
<1> QED BY <1>1, <1>2, <1>3, GoesOn, OwnStepKeeps DEF CompleteStart

LEMMA NewRunIsRecord ==
  ASSUME NEW plan \in ValidPlans, NEW status \in {"CREATED", "PREPARING"}, NEW n \in Nat
  PROVE  /\ NewRun(plan) \in RunRecords /\ NewRun(plan).status = "PREPARING"
         /\ LET r == [NewRun(plan) EXCEPT !.status = "CREATED", !.version = 0]
            IN r \in RunRecords /\ r.status = "CREATED"
<1>1. 1 \in 1..Len(plan.slices) /\ plan.slices[1].slice_id \in SliceIds
  BY DEF ValidPlans, SliceIds, IdsOf
<1>2. NewRun(plan) \in RunRecords /\ NewRun(plan).status = "PREPARING"
  BY <1>1 DEF NewRun, RunRecords, RunStatuses, Binding
<1> HIDE DEF NewRun
<1> QED BY <1>2 DEF RunRecords, RunStatuses

LEMMA StartRunKeeps ==
  ASSUME NullIsNoValue, RuntimeInv, NEW i \in Invocations, StartRun(i) PROVE RuntimeInv'
<1>1. run \notin RunRecords /\ tasks = << >> /\ inv[i].plan \in ValidPlans
  BY DEF RuntimeInv, StartRun, NullIsNoValue, RunInv, InvocationInv
<1>2. run' \in RunRecords /\ run'.status # "DONE"
  BY <1>1, NewRunIsRecord DEF StartRun
<1>3. tasks \in Seq(TaskRecords) /\ tasks' = tasks
  BY DEF RuntimeInv, RunInv, StartRun
<1>4. RunInv(run', tasks', lease')
  BY <1>1, <1>2, <1>3 DEF RunInv, InOrder, EarnedBy
<1>5. run' # run
  BY <1>1, <1>2
<1>6. Extends(tasks, tasks')
  BY <1>3, TasksExtend
<1>7. CASE Goes(i, "started") /\ UNCHANGED command
  <2>1. InvocationInv(inv'[i], run', tasks', lease')
    BY <1>1, <1>2, <1>7, GoesOn, OutOfTheLoop
  <2>2. command' = [p \in Plans |-> command'[p]]
    BY <1>7 DEF RuntimeInv
  <2> QED BY <1>1, <1>2, <1>4, <1>5, <1>6, <1>7, <2>1, <2>2, GoesOn, StepKeeps
<1>8. CASE command' = [command EXCEPT ![inv[i].plan] = "REJECTED"] /\ Result(i, "failed")
  <2>1. command' = [p \in Plans |-> command'[p]]
    BY <1>8 DEF RuntimeInv
  <2> QED BY <1>1, <1>2, <1>4, <1>5, <1>6, <1>8, <2>1, ResultIs, StepKeeps
<1> QED BY <1>7, <1>8 DEF StartRun

-----------------------------------------------------------------------------
(* The loop over the slices.                                                 *)

LEMMA SameLoop ==
  ASSUME NEW v, NEW w, NEW r, NEW ts, LoopInv(v, r, ts), w.plan = v.plan, w.current = v.current,
         w.index = v.index
  PROVE  LoopInv(w, r, ts)
BY DEF LoopInv, HoldsRun

LEMMA LoopFacts ==
  ASSUME RuntimeInv, NEW i \in Invocations, inv[i].step \in InLoop
  PROVE  /\ run \in RunRecords /\ LoopInv(inv[i], run, tasks) /\ inv[i].current \in RunRecords
         /\ inv[i].plan \in ValidPlans /\ inv[i].plan = run.plan /\ inv[i].current.plan = run.plan
         /\ inv[i].index \in 1..Len(run.plan.slices) /\ Len(run.plan.slices) \in Nat
         /\ Slice(i).slice_id \in SliceIds /\ tasks \in Seq(TaskRecords)
<1>1. run \in RunRecords /\ LoopInv(inv[i], run, tasks) /\ inv[i].plan \in ValidPlans
  BY DEF RuntimeInv, InvocationInv, InLoop, BeforeSlice, WithTask, AfterSlice
<1>2. /\ inv[i].current \in RunRecords /\ inv[i].plan = run.plan /\ inv[i].current.plan = run.plan
      /\ inv[i].index \in 1..Len(run.plan.slices)
  BY <1>1 DEF LoopInv, HoldsRun
<1>3. Len(run.plan.slices) \in Nat /\ Slice(i).slice_id \in SliceIds
  BY <1>1, <1>2 DEF ValidPlans, SliceIds, IdsOf, Slice
<1> QED BY <1>1, <1>2, <1>3 DEF RuntimeInv, RunInv

LEMMA BeginRunKeeps == ASSUME RuntimeInv, NEW i \in Invocations, BeginRun(i) PROVE RuntimeInv'
<1> DEFINE s == IF IsStartOf(inv[i].plan) THEN "slice" ELSE "closing"
           w == [inv[i] EXCEPT !.step = s, !.current = run, !.index = 1]
<1>1. /\ inv = [j \in Invocations |-> inv[j]] /\ IsInvocation(inv[i])
      /\ run \in RunRecords /\ inv[i].plan \in ValidPlans
  BY DEF RuntimeInv, InvocationInv, BeginRun
<1>2. inv' = [j \in Invocations |-> IF j = i THEN w ELSE inv[j]]
  BY <1>1 DEF BeginRun
<1>3. /\ IsInvocation(w) /\ w.step = s /\ w.plan = inv[i].plan /\ w.current = run /\ w.index = 1
  BY <1>1 DEF IsInvocation, Fields
<1> HIDE DEF w
<1>4. CASE IsStartOf(inv[i].plan)
  <2>1. run.version \in Nat /\ 1 \in 1..Len(run.plan.slices) /\ run.plan = inv[i].plan
    BY <1>1, <1>4 DEF ValidPlans, RunRecords, IsStartOf
  <2>2. LoopInv(w, run, tasks)
    BY <1>1, <1>3, <2>1 DEF LoopInv, HoldsRun
  <2>3. InvocationInv(w, run, tasks, lease)
    BY <1>1, <1>3, <1>4, <2>2
    DEF InvocationInv, InLoop, BeforeSlice, WithTask, AfterSlice, IsStartOf
  <2> QED BY <1>2, <2>3, OwnStepKeeps DEF BeginRun, RuntimeInv
<1>5. CASE ~IsStartOf(inv[i].plan)
  <2>1. InvocationInv(w, run, tasks, lease)
    BY <1>1, <1>3, <1>5, OutOfTheLoop
  <2> QED BY <1>2, <2>1, OwnStepKeeps DEF BeginRun, RuntimeInv
<1> QED BY <1>4, <1>5

LEMMA AssertWritableKeeps == ASSUME RuntimeInv, NEW i \in Invocations, AssertWritable(i) PROVE RuntimeInv'
<1>1. inv[i].step = "slice" /\ inv[i].step \in InLoop
  BY DEF AssertWritable, InLoop, BeforeSlice
<1>2. InvocationInv(inv'[i], run, tasks, lease)
  <2>1. CASE Goes(i, "dispatch")
    <3>1. LoopInv(inv'[i], run, tasks)
      BY <1>1, <2>1, LoopFacts, GoesOn, SameLoop
    <3>2. inv'[i].current.status = "PREPARING"
      BY <1>1, <2>1, GoesOn DEF RuntimeInv, InvocationInv, BeforeSlice
    <3> QED BY <1>1, <2>1, <3>1, <3>2, LoopFacts, GoesOn
        DEF InvocationInv, InLoop, BeforeSlice, WithTask, AfterSlice
  <2>2. CASE Goes(i, "closing")
    BY <1>1, <2>2, LoopFacts, GoesOn, OutOfTheLoop
  <2> QED BY <2>1, <2>2 DEF AssertWritable
<1>3. \E s : Goes(i, s)
  BY DEF AssertWritable
<1> QED BY <1>2, <1>3, GoesOn, OwnStepKeeps DEF AssertWritable, RuntimeInv

LEMMA DispatchKeeps == ASSUME RuntimeInv, NEW i \in Invocations, Dispatch(i) PROVE RuntimeInv'
<1>0. inv[i].step = "dispatch" /\ inv[i].step \in InLoop
  BY DEF Dispatch, InLoop, BeforeSlice
<1>1. CASE UNCHANGED tasks /\ Goes(i, "closing")
  <2>1. InvocationInv(inv'[i], run, tasks, lease)
    BY <1>0, <1>1, LoopFacts, GoesOn, OutOfTheLoop
  <2> QED BY <1>1, <2>1, GoesOn, OwnStepKeeps DEF Dispatch, RuntimeInv
<1>2. CASE /\ tasks' = Append(tasks, [slice |-> Slice(i).slice_id, by |-> i, status |-> "running"])
           /\ inv' = [inv EXCEPT ![i].step = "dispatched", ![i].task = Len(tasks')]
  <2> DEFINE new == [slice |-> Slice(i).slice_id, by |-> i, status |-> "running"]
             n == Len(tasks')
             w == [inv[i] EXCEPT !.step = "dispatched", !.task = n]
  <2>1. /\ inv = [j \in Invocations |-> inv[j]] /\ IsInvocation(inv[i])
        /\ inv[i].current.status = "PREPARING"
    BY <1>0 DEF RuntimeInv, InvocationInv, BeforeSlice
  <2>2. inv' = [j \in Invocations |-> IF j = i THEN w ELSE inv[j]]
    BY <1>2, <2>1
  <2>3. /\ IsInvocation(w) /\ w.step = "dispatched" /\ w.plan = inv[i].plan /\ w.current = inv[i].current
        /\ w.index = inv[i].index /\ w.task = n
    BY <2>1 DEF IsInvocation, Fields
  <2> HIDE DEF w
  <2>4. new \in TaskRecords /\ new.slice = Slice(i).slice_id
    BY <1>0, LoopFacts DEF TaskRecords
  <2> HIDE DEF new
  <2>5. /\ tasks \in Seq(TaskRecords) /\ tasks' \in Seq(TaskRecords) /\ n = Len(tasks) + 1
        /\ tasks'[n].slice = Slice(i).slice_id /\ \A t \in 1..Len(tasks) : tasks'[t] = tasks[t]
    BY <1>0, <1>2, <2>4, LoopFacts DEF new
  <2>6. Extends(tasks, tasks')
    BY <2>5 DEF Extends
  <2>7. \A j \in 1..(inv[i].index - 1) : IsDone(tasks', run.plan, j, n - 1)
    <3>1. Len(tasks) \in 0..Len(tasks) /\ n - 1 \in Nat /\ Len(tasks) <= n - 1
      BY <2>5
    <3>2. \A j \in 1..(inv[i].index - 1) : IsDone(tasks, run.plan, j, Len(tasks))
      BY <1>0, LoopFacts DEF LoopInv
    <3> QED BY <2>6, <3>1, <3>2, DoneStays
  <2>8. RunInv(run, tasks', lease)
    <3>1. InOrder(tasks', run.plan)
      <4> SUFFICES ASSUME NEW t \in 1..n
                   PROVE  \E k \in 1..Len(run.plan.slices) :
                            /\ tasks'[t].slice = run.plan.slices[k].slice_id
                            /\ \A j \in 1..(k - 1) : IsDone(tasks', run.plan, j, t - 1)
        BY DEF InOrder
      <4>1. CASE t = n
        BY <1>0, <2>5, <2>7, <4>1, LoopFacts DEF Slice
      <4>2. CASE t # n
        <5>1. t \in 1..Len(tasks) /\ t - 1 \in 0..Len(tasks) /\ t - 1 \in Nat /\ t - 1 <= t - 1
          BY <2>5, <4>2
        <5>2. PICK k \in 1..Len(run.plan.slices) :
                /\ tasks[t].slice = run.plan.slices[k].slice_id
                /\ \A j \in 1..(k - 1) : IsDone(tasks, run.plan, j, t - 1)
          BY <1>0, <5>1, LoopFacts DEF RuntimeInv, RunInv, InOrder
        <5>3. \A j \in 1..(k - 1) : IsDone(tasks', run.plan, j, t - 1)
          BY <2>6, <5>1, <5>2, DoneStays
        <5> QED BY <2>5, <5>1, <5>2, <5>3
      <4> QED BY <4>1, <4>2
    <3>2. EarnedBy(run, tasks', lease)
      <4>1. Len(tasks) \in 0..Len(tasks) /\ n \in Nat /\ Len(tasks) <= n
        BY <2>5
      <4>2. EarnedBy(run, tasks, lease)
        BY <1>0, LoopFacts DEF RuntimeInv, RunInv
      <4> QED BY <2>6, <4>1, <4>2, DoneStays DEF EarnedBy
    <3> QED BY <1>0, <2>5, <3>1, <3>2, LoopFacts DEF RunInv
  <2>9. InvocationInv(w, run, tasks', lease)
    <3>1. LoopInv(w, run, tasks')
      <4>1. \A j \in 1..(inv[i].index - 1) : IsDone(tasks', run.plan, j, n)
        <5>1. n - 1 \in 0..n /\ n \in Nat /\ n - 1 <= n /\ Extends(tasks', tasks')
          BY <2>5 DEF Extends
        <5> QED BY <2>7, <5>1, DoneStays
      <4> QED BY <1>0, <2>3, <4>1, LoopFacts DEF LoopInv, HoldsRun
    <3>2. w.task \in 1..Len(tasks') /\ tasks'[w.task].slice = run.plan.slices[w.index].slice_id
      BY <1>0, <2>3, <2>5, LoopFacts DEF Slice
    <3> QED BY <1>0, <2>1, <2>3, <3>1, <3>2, LoopFacts
        DEF InvocationInv, InLoop, BeforeSlice, WithTask, AfterSlice
  <2>10. run \in RunRecords => Onward(run, run)
    BY RunGoesOn
  <2>11. inv' = [j \in Invocations |-> inv'[j]] /\ inv'[i] = w
         /\ \A j \in Invocations \ {i} : inv'[j] = inv[j]
    BY <2>2
  <2>12. UNCHANGED <<command, run, lease>>
    BY DEF Dispatch
  <2>13. run \in RunRecords
    BY <1>0, LoopFacts
  <2>14. command' = [p \in Plans |-> command'[p]]
    BY <2>12 DEF RuntimeInv
  <2> QED BY <2>6, <2>8, <2>9, <2>10, <2>11, <2>12, <2>13, <2>14, StepKeeps
<1> QED BY <1>1, <1>2 DEF Dispatch

(* A write of the Run the invocation holds: it succeeds over the Run, or changes     *)
(* nothing.                                                                *)
LEMMA SwapFacts ==
  ASSUME RuntimeInv, NEW i \in Invocations, inv[i].step \in InLoop, NEW change \in RunRecords,
         change.plan = run.plan, change.version = inv[i].current.version, Swap(i, change)
  PROVE  /\ run \in RunRecords /\ Onward(run, run')
         /\ run.version # inv[i].current.version => run' = run
         /\ run.version = inv[i].current.version =>
              /\ inv[i].current = run /\ run' # run /\ run'.version > run.version
              /\ run'.status = change.status /\ run'.leased = change.leased
<1>1. run \in RunRecords /\ (inv[i].current.version = run.version => inv[i].current = run)
  BY LoopFacts DEF LoopInv, HoldsRun
<1>2. CASE run.version = inv[i].current.version
  <2>1. run' = [change EXCEPT !.version = change.version + 1]
    BY <1>2 DEF Swap
  <2>2. /\ run' \in RunRecords /\ run'.version = change.version + 1 /\ run'.plan = change.plan
        /\ run'.status = change.status /\ run'.leased = change.leased
    BY <2>1 DEF RunRecords
  <2>3. run.version \in Nat /\ run'.version > run.version
    BY <1>1, <1>2, <2>2 DEF RunRecords
  <2>4. run' # run
    BY <2>3
  <2> QED BY <1>1, <1>2, <2>2, <2>3, <2>4 DEF Onward
<1>3. CASE run.version # inv[i].current.version
  BY <1>1, <1>3, RunGoesOn DEF Swap
<1> QED BY <1>2, <1>3

LEMMA LoopStays ==
  ASSUME NEW v, NEW r, NEW ts, NEW s, r \in RunRecords, LoopInv(v, r, ts), Onward(r, s)
  PROVE  LoopInv(v, s, ts)
<1>1. v.current.version \in Nat /\ r.version \in Nat
  BY DEF LoopInv, HoldsRun, RunRecords
<1> QED BY <1>1 DEF LoopInv, HoldsRun, Onward, RunRecords

LEMMA StartSliceKeeps ==
  ASSUME NullIsNoValue, RuntimeInv, NEW i \in Invocations, StartSlice(i) PROVE RuntimeInv'
<1> DEFINE old == inv[i].current
           id == Slice(i).slice_id
           next == [old EXCEPT !.status = "SLICE_RUNNING", !.slice = id, !.thread = inv[i].task,
                               !.binding = Binding(inv[i].plan, id)]
           agrees == (old.slice # id) = (old.binding # Binding(inv[i].plan, id))
           s == IF agrees /\ run.version = old.version THEN "working" ELSE "closing"
<1>1. inv[i].step = "dispatched" /\ inv[i].step \in InLoop
  BY DEF StartSlice, InLoop, BeforeSlice
<1>2. /\ run \in RunRecords /\ tasks \in Seq(TaskRecords) /\ inv[i].plan \in ValidPlans
      /\ LoopInv(inv[i], run, tasks) /\ old \in RunRecords /\ old.plan = run.plan
  BY <1>1, LoopFacts
<1>3. inv[i].task \in 1..Len(tasks) /\ tasks[inv[i].task].slice = run.plan.slices[inv[i].index].slice_id
  BY <1>1 DEF RuntimeInv, InvocationInv, WithTask
<1>4. /\ next \in RunRecords /\ next.plan = run.plan /\ next.version = old.version
      /\ next.status = "SLICE_RUNNING"
  <2>1. id \in SliceIds /\ Binding(inv[i].plan, id) \in ValidPlans \X SliceIds
    BY <1>1, LoopFacts DEF Binding
  <2>2. inv[i].task \in Nat
    BY <1>2, <1>3
  <2> HIDE DEF id
  <2> QED BY <1>2, <2>1, <2>2 DEF RunRecords, RunStatuses
<1>5. IF agrees THEN Swap(i, next) ELSE UNCHANGED run
  BY DEF StartSlice
<1>6. Goes(i, s) /\ UNCHANGED <<now, command, lease, tasks>>
  BY DEF StartSlice
<1> HIDE DEF next
<1>7. /\ Onward(run, run') /\ (run' # run => run'.status = "SLICE_RUNNING")
      /\ s = "working" => run.version = old.version /\ run' # run
  BY <1>1, <1>2, <1>4, <1>5, SwapFacts, RunGoesOn
<1> HIDE DEF s
<1>8. InvocationInv(inv'[i], run', tasks', lease')
  <2>1. run' \in RunRecords /\ run'.plan = run.plan
    BY <1>7 DEF Onward
  <2>2. CASE s = "working"
    <3>1. LoopInv(inv'[i], run', tasks)
      BY <1>2, <1>6, <1>7, LoopStays, SameLoop, GoesOn
    <3> QED BY <1>3, <1>6, <2>1, <2>2, <3>1, GoesOn, LoopFacts, <1>2
        DEF InvocationInv, InLoop, BeforeSlice, WithTask, AfterSlice
  <2>3. CASE s = "closing"
    BY <1>2, <1>6, <2>1, <2>3, GoesOn, OutOfTheLoop
  <2> QED BY <2>2, <2>3 DEF s
<1>9. RunInv(run', tasks', lease')
  <2>1. run' \in RunRecords /\ run'.status = "DONE" => run' = run
    BY <1>7
  <2>2. RunInv(run, tasks, lease) /\ Null \notin RunRecords /\ Extends(tasks, tasks')
        /\ Len(tasks') = Len(tasks) /\ lease' = lease
    BY <1>2, <1>6, TasksExtend DEF RuntimeInv, NullIsNoValue
  <2> QED BY <1>2, <1>7, <2>1, <2>2, RunKeeps
<1>10. Extends(tasks, tasks') /\ lease' = lease /\ run' \in RunRecords
       /\ command' = [p \in Plans |-> command'[p]]
  BY <1>2, <1>6, <1>7, TasksExtend DEF RuntimeInv, Onward
<1> QED BY <1>6, <1>7, <1>8, <1>9, <1>10, GoesOn, StepKeeps

LEMMA TaskReturnsKeeps == ASSUME RuntimeInv, NEW i \in Invocations, TaskReturns(i) PROVE RuntimeInv'
<1> DEFINE s == IF ~IsAccepted(i) THEN "closing" ELSE IF IsFinal(i) THEN "release" ELSE "prepare"
           w == [inv[i] EXCEPT !.step = s, !.current = run]
<1>1. inv[i].step = "working" /\ inv[i].step \in InLoop
  BY DEF TaskReturns, InLoop, WithTask
<1>2. /\ run \in RunRecords /\ LoopInv(inv[i], run, tasks) /\ inv[i].plan \in ValidPlans
      /\ inv[i].plan = run.plan /\ inv[i].index \in 1..Len(run.plan.slices)
  BY <1>1, LoopFacts
<1>3. /\ inv = [j \in Invocations |-> inv[j]] /\ IsInvocation(inv[i])
      /\ inv[i].task \in 1..Len(tasks)
      /\ tasks[inv[i].task].slice = run.plan.slices[inv[i].index].slice_id
  BY <1>1 DEF RuntimeInv, InvocationInv, WithTask
<1>4. inv' = [j \in Invocations |-> IF j = i THEN w ELSE inv[j]]
  BY <1>3 DEF TaskReturns
<1>5. /\ IsInvocation(w) /\ w.step = s /\ w.plan = inv[i].plan /\ w.current = run
      /\ w.index = inv[i].index /\ w.task = inv[i].task
  BY <1>3 DEF IsInvocation, Fields
<1> HIDE DEF w
<1>6. InvocationInv(w, run, tasks, lease)
  <2>1. CASE IsAccepted(i)
    <3>1. run.status = "SLICE_RUNNING" /\ IsDone(tasks, run.plan, w.index, Len(tasks))
      BY <1>3, <1>5, <2>1 DEF IsAccepted, IsDone
    <3>2. LoopInv(w, run, tasks)
      BY <1>2, <1>5 DEF LoopInv, HoldsRun, RunRecords
    <3>3. w.step = IF w.index = Len(run.plan.slices) THEN "release" ELSE "prepare"
      BY <1>2, <1>5, <2>1 DEF IsFinal
    <3> QED BY <1>2, <1>5, <3>1, <3>2, <3>3
        DEF InvocationInv, InLoop, BeforeSlice, WithTask, AfterSlice
  <2>2. CASE ~IsAccepted(i)
    BY <1>2, <1>5, <2>2, OutOfTheLoop
  <2> QED BY <2>1, <2>2
<1>7. inv' = [j \in Invocations |-> inv'[j]] /\ inv'[i] = w
      /\ \A j \in Invocations \ {i} : inv'[j] = inv[j]
  BY <1>4
<1>8. UNCHANGED <<run, tasks, lease>> /\ command' = command /\ command' = [p \in Plans |-> command'[p]]
  BY DEF TaskReturns, RuntimeInv
<1> QED BY <1>6, <1>7, <1>8, OwnStepKeeps

LEMMA PrepareNextSliceKeeps ==
  ASSUME NullIsNoValue, RuntimeInv, NEW i \in Invocations, PrepareNextSlice(i) PROVE RuntimeInv'
<1> DEFINE old == inv[i].current
           next == [old EXCEPT !.status = "PREPARING"]
           s == IF run' # run THEN "slice" ELSE "closing"
           n == IF run' # run THEN inv[i].index + 1 ELSE inv[i].index
           w == [inv[i] EXCEPT !.step = s, !.index = n, !.current = run']
<1>1. inv[i].step = "prepare" /\ inv[i].step \in InLoop
  BY DEF PrepareNextSlice, InLoop, AfterSlice
<1>2. /\ run \in RunRecords /\ tasks \in Seq(TaskRecords) /\ inv[i].plan \in ValidPlans
      /\ LoopInv(inv[i], run, tasks) /\ old \in RunRecords /\ old.plan = run.plan
      /\ inv[i].plan = run.plan /\ inv[i].index \in 1..Len(run.plan.slices)
      /\ Len(run.plan.slices) \in Nat
  BY <1>1, LoopFacts
<1>3. /\ inv = [j \in Invocations |-> inv[j]] /\ IsInvocation(inv[i])
      /\ inv[i].index # Len(run.plan.slices) /\ IsDone(tasks, run.plan, inv[i].index, Len(tasks))
  BY <1>1 DEF RuntimeInv, InvocationInv, AfterSlice
<1>4. /\ next \in RunRecords /\ next.plan = run.plan /\ next.version = old.version
      /\ next.status = "PREPARING"
  BY <1>2 DEF RunRecords, RunStatuses
<1>5. Swap(i, next) /\ UNCHANGED <<now, command, lease, tasks>>
  BY DEF PrepareNextSlice
<1> HIDE DEF next
<1>6. Onward(run, run') /\ (run' # run => run'.status = "PREPARING")
  BY <1>1, <1>2, <1>4, <1>5, SwapFacts
<1>7. run' \in RunRecords /\ run'.plan = run.plan /\ run'.version \in Nat
  BY <1>6 DEF Onward, RunRecords
<1>8. inv' = [j \in Invocations |-> IF j = i THEN w ELSE inv[j]]
  BY <1>3 DEF PrepareNextSlice
<1>9. IsInvocation(w) /\ w.step = s /\ w.plan = inv[i].plan /\ w.current = run' /\ w.index = n
  BY <1>3 DEF IsInvocation, Fields
<1> HIDE DEF w
<1>10. InvocationInv(w, run', tasks', lease')
  <2>1. CASE run' # run
    <3>1. LoopInv(w, run', tasks)
      <4>1. n \in 1..Len(run.plan.slices)
        BY <1>2, <1>3, <2>1
      <4>2. \A j \in 1..(n - 1) : IsDone(tasks, run.plan, j, Len(tasks))
        BY <1>2, <1>3, <2>1 DEF LoopInv
      <4> QED BY <1>2, <1>7, <1>9, <4>1, <4>2 DEF LoopInv, HoldsRun
    <3> QED BY <1>2, <1>5, <1>6, <1>7, <1>9, <2>1, <3>1
        DEF InvocationInv, InLoop, BeforeSlice, WithTask, AfterSlice
  <2>2. CASE run' = run
    BY <1>2, <1>7, <1>9, <2>2, OutOfTheLoop
  <2> QED BY <2>1, <2>2
<1>11. RunInv(run', tasks', lease')
  <2>1. RunInv(run, tasks, lease) /\ Null \notin RunRecords /\ Extends(tasks, tasks')
        /\ Len(tasks') = Len(tasks) /\ lease' = lease
    BY <1>2, <1>5, TasksExtend DEF RuntimeInv, NullIsNoValue
  <2> QED BY <1>2, <1>6, <2>1, RunKeeps
<1>12. Extends(tasks, tasks') /\ lease' = lease /\ command' = [p \in Plans |-> command'[p]]
  BY <1>2, <1>5, TasksExtend DEF RuntimeInv
<1>13. inv' = [j \in Invocations |-> inv'[j]] /\ inv'[i] = w
       /\ \A j \in Invocations \ {i} : inv'[j] = inv[j]
  BY <1>8
<1> QED BY <1>6, <1>7, <1>10, <1>11, <1>12, <1>13, StepKeeps

LEMMA ReleaseKeeps == ASSUME NullIsNoValue, RuntimeInv, NEW i \in Invocations, Release(i) PROVE RuntimeInv'
<1>1. inv[i].step = "release" /\ inv[i].step \in InLoop
  BY DEF Release, InLoop, AfterSlice
<1>2. /\ run \in RunRecords /\ tasks \in Seq(TaskRecords) /\ inv[i].plan \in ValidPlans
      /\ LoopInv(inv[i], run, tasks)
  BY <1>1, LoopFacts
<1>3. UNCHANGED <<now, command, run, tasks>> /\ command' = [p \in Plans |-> command'[p]]
  BY DEF Release, RuntimeInv
<1>4. CASE lease' = Null /\ Goes(i, "done")
  <2>1. InvocationInv(inv'[i], run, tasks, lease')
    <3>1. LoopInv(inv'[i], run, tasks)
      BY <1>2, <1>4, GoesOn, SameLoop
    <3>2. /\ inv[i].current.status = "SLICE_RUNNING" /\ inv[i].index = Len(run.plan.slices)
          /\ IsDone(tasks, run.plan, inv[i].index, Len(tasks))
      BY <1>1 DEF RuntimeInv, InvocationInv, AfterSlice
    <3> QED BY <1>2, <1>4, <3>1, <3>2, GoesOn
        DEF InvocationInv, InLoop, BeforeSlice, WithTask, AfterSlice
  <2>2. RunInv(run, tasks, lease')
    BY <1>4 DEF RuntimeInv, RunInv, EarnedBy
  <2> QED BY <1>2, <1>3, <1>4, <2>1, <2>2, RunGoesOn, TasksExtend, GoesOn, StepKeeps
<1>5. CASE UNCHANGED lease /\ Goes(i, "closing")
  <2>1. InvocationInv(inv'[i], run, tasks, lease)
    BY <1>2, <1>5, GoesOn, OutOfTheLoop
  <2> QED BY <1>3, <1>5, <2>1, GoesOn, OwnStepKeeps
<1> QED BY <1>4, <1>5 DEF Release

LEMMA FinishKeeps == ASSUME NullIsNoValue, RuntimeInv, NEW i \in Invocations, Finish(i) PROVE RuntimeInv'
<1> DEFINE old == inv[i].current
           next == [old EXCEPT !.status = "DONE", !.leased = FALSE]
<1>1. inv[i].step = "done" /\ inv[i].step \in InLoop
  BY DEF Finish, InLoop, AfterSlice
<1>2. /\ run \in RunRecords /\ tasks \in Seq(TaskRecords) /\ LoopInv(inv[i], run, tasks)
      /\ old \in RunRecords /\ old.plan = run.plan /\ Len(run.plan.slices) \in Nat
  BY <1>1, LoopFacts
<1>3. /\ inv[i].index = Len(run.plan.slices) /\ IsDone(tasks, run.plan, inv[i].index, Len(tasks))
      /\ old.version = run.version => lease = Null
  BY <1>1 DEF RuntimeInv, InvocationInv, AfterSlice
<1>4. /\ next \in RunRecords /\ next.plan = run.plan /\ next.version = old.version
      /\ next.status = "DONE" /\ next.leased = FALSE
  BY <1>2 DEF RunRecords, RunStatuses
<1>5. /\ Swap(i, next) /\ UNCHANGED <<now, command, lease, tasks>>
      /\ \E x : Result(i, x)
  BY DEF Finish
<1> HIDE DEF next
<1>6. /\ Onward(run, run')
      /\ run' # run => run'.status = "DONE" /\ run'.leased = FALSE /\ lease = Null
  BY <1>1, <1>2, <1>3, <1>4, <1>5, SwapFacts
<1>7. run' \in RunRecords /\ run'.plan = run.plan
  BY <1>6 DEF Onward
<1>8. RunInv(run', tasks', lease')
  <2>1. CASE run' = run
    BY <1>5, <2>1 DEF RuntimeInv
  <2>2. CASE run' # run
    <3>1. \A k \in 1..Len(run.plan.slices) : IsDone(tasks, run.plan, k, Len(tasks))
      BY <1>2, <1>3 DEF LoopInv
    <3>2. EarnedBy(run', tasks', lease')
      BY <1>5, <1>6, <1>7, <2>2, <3>1 DEF EarnedBy
    <3> QED BY <1>2, <1>5, <1>7, <3>2 DEF RuntimeInv, RunInv
  <2> QED BY <2>1, <2>2
<1>9. Extends(tasks, tasks') /\ lease' = lease /\ command' = [p \in Plans |-> command'[p]]
  BY <1>2, <1>5, TasksExtend DEF RuntimeInv
<1> QED BY <1>5, <1>6, <1>7, <1>8, <1>9, ResultIs, StepKeeps

-----------------------------------------------------------------------------
(* The tasks end, and the invocations with them.                                  *)

LEMMA HostGoes ==
  ASSUME NEW i, tasks \in Seq(TaskRecords), NEW us \in {WithoutHost(i), Orphaned(i)}
  PROVE  Extends(tasks, us) /\ Len(us) = Len(tasks)
<1>1. DOMAIN us = 1..Len(tasks)
  BY DEF WithoutHost, Orphaned
<1>2. ASSUME NEW t \in 1..Len(tasks)
      PROVE  /\ us[t] \in TaskRecords /\ us[t].slice = tasks[t].slice
             /\ tasks[t].status = "completed" => us[t].status = "completed"
  <2>1. tasks[t] \in TaskRecords
    OBVIOUS
  <2>2. \/ us[t] = tasks[t]
        \/ us[t] = [tasks[t] EXCEPT !.by = Null]
        \/ tasks[t].status = "running" /\ us[t] = [tasks[t] EXCEPT !.status = "failed"]
    <3>1. t \in DOMAIN tasks
      OBVIOUS
    <3>2. CASE us = WithoutHost(i)
      BY <3>1, <3>2 DEF WithoutHost, IsRunningFor
    <3>3. CASE us = Orphaned(i)
      BY <3>1, <3>3 DEF Orphaned
    <3> QED BY <3>2, <3>3
  <2> QED BY <2>1, <2>2 DEF TaskRecords
<1>3. us = [t \in 1..Len(tasks) |-> us[t]]
  BY <1>1 DEF WithoutHost, Orphaned
<1>4. us \in Seq(TaskRecords) /\ Len(us) = Len(tasks)
  BY <1>1, <1>2, <1>3
<1> QED BY <1>2, <1>4 DEF Extends

LEMMA TaskEndsKeeps == ASSUME RuntimeInv, NullIsNoValue, NEW t \in DOMAIN tasks, TaskEnds(t) PROVE RuntimeInv'
<1>1. tasks \in Seq(TaskRecords) /\ RunInv(run, tasks, lease)
  BY DEF RuntimeInv, RunInv
<1>2. PICK status \in {"completed", "failed"} : tasks' = [tasks EXCEPT ![t].status = status]
  BY DEF TaskEnds
<1>3. Extends(tasks, tasks') /\ Len(tasks') = Len(tasks)
  <2>1. t \in 1..Len(tasks) /\ tasks[t] \in TaskRecords /\ tasks[t].status = "running"
    BY <1>1 DEF TaskEnds
  <2> DEFINE e == [tasks[t] EXCEPT !.status = status]
  <2>2. e \in TaskRecords /\ e.slice = tasks[t].slice
    BY <2>1 DEF TaskRecords
  <2>3. tasks' = [tasks EXCEPT ![t] = e]
    BY <1>2
  <2> HIDE DEF e
  <2>4. tasks' \in Seq(TaskRecords) /\ Len(tasks') = Len(tasks)
    BY <1>1, <2>1, <2>2, <2>3
  <2>5. \A u \in 1..Len(tasks) : tasks'[u] = IF u = t THEN e ELSE tasks[u]
    BY <1>1, <2>1, <2>3
  <2> QED BY <1>1, <2>1, <2>2, <2>4, <2>5 DEF Extends
<1>4. UNCHANGED <<now, command, run, lease, inv>>
  BY DEF TaskEnds
<1>5. run \in RunRecords => Onward(run, run)
  BY RunGoesOn
<1>6. RunInv(run', tasks', lease')
  BY <1>1, <1>3, <1>4, <1>5, RunKeeps DEF NullIsNoValue
<1>7. \A i \in Invocations : InvocationInv(inv[i], run, tasks', lease)
  BY <1>3, <1>5, InvocationKeeps DEF RuntimeInv
<1> QED BY <1>4, <1>6, <1>7 DEF RuntimeInv

(* An invocation goes, with the tasks of its host, after a write of the Run.         *)
LEMMA GoesWithHost ==
  ASSUME NullIsNoValue, RuntimeInv, NEW i \in Invocations, tasks' \in {WithoutHost(i), Orphaned(i)},
         UNCHANGED command,
         inv' = [j \in Invocations |-> inv'[j]], \A j \in Invocations \ {i} : inv'[j] = inv[j],
         \A r, ts, l : InvocationInv(inv'[i], r, ts, l),
         run \in RunRecords => Onward(run, run'), run \notin RunRecords => run' = run,
         run' # run => run'.status # "DONE",
         run' = run /\ lease = Null => lease' = Null
  PROVE  RuntimeInv'
<1>1. tasks \in Seq(TaskRecords) /\ RunInv(run, tasks, lease)
  BY DEF RuntimeInv, RunInv
<1>2. Extends(tasks, tasks') /\ Len(tasks') = Len(tasks)
  BY <1>1, HostGoes
<1>3. RunInv(run', tasks', lease')
  BY <1>1, <1>2, RunKeeps DEF NullIsNoValue
<1>4. /\ command' = [p \in Plans |-> command'[p]]
      /\ \A p \in Plans : command'[p] = "PREPARING" => run' \in RunRecords
  BY DEF RuntimeInv, Onward
<1> QED BY <1>2, <1>3, <1>4, StepKeeps

LEMMA NextVersion ==
  ASSUME NEW r \in RunRecords
  PROVE  LET s == [r EXCEPT !.version = @ + 1]
         IN s \in RunRecords /\ Onward(r, s) /\ s # r /\ s.status = r.status
<1> DEFINE s == [r EXCEPT !.version = @ + 1]
<1>1. s \in RunRecords /\ s.version = r.version + 1 /\ s.plan = r.plan /\ s.status = r.status
  BY DEF RunRecords
<1> HIDE DEF s
<1>2. r.version \in Nat /\ s.version > r.version
  BY <1>1 DEF RunRecords
<1>3. s \in RunRecords /\ Onward(r, s) /\ s # r /\ s.status = r.status
  BY <1>1, <1>2 DEF Onward
<1> QED BY <1>3 DEF s

LEMMA RelayKeeps == ASSUME NullIsNoValue, RuntimeInv, NEW i \in Invocations, Relay(i) PROVE RuntimeInv'
<1>1. inv[i].step = "working" /\ inv[i].step \in InLoop
  BY DEF Relay, InLoop, WithTask
<1>2. run \in RunRecords /\ inv[i].plan \in ValidPlans /\ tasks \in Seq(TaskRecords)
  BY <1>1, LoopFacts
<1>3. CASE /\ run' = [run EXCEPT !.version = @ + 1, !.thread = "continuation", !.epoch = @ + 1]
           /\ Result(i, "CONTINUATION_STARTED")
  <2>1. Onward(run, run') /\ run'.status = run.status /\ run' # run /\ run.status = "SLICE_RUNNING"
    <3> DEFINE next == [run EXCEPT !.version = @ + 1]
    <3>1. next \in RunRecords /\ Onward(run, next) /\ next.status = run.status
      BY <1>2, NextVersion
    <3> DEFINE moved == [next EXCEPT !.thread = "continuation"]
    <3>2. run' = [moved EXCEPT !.epoch = next.epoch + 1] /\ run.status = "SLICE_RUNNING"
      BY <1>2, <1>3 DEF Relay, RunRecords
    <3>3. next.version > run.version /\ run.version \in Nat
      BY <1>2 DEF RunRecords
    <3> HIDE DEF next
    <3>4. /\ moved \in RunRecords /\ moved.plan = next.plan /\ moved.version = next.version
          /\ moved.status = next.status
      BY <3>1 DEF RunRecords
    <3> HIDE DEF moved
    <3>5. /\ run' \in RunRecords /\ run'.plan = next.plan /\ run'.version = next.version
          /\ run'.status = next.status
      BY <3>1, <3>2, <3>4 DEF RunRecords
    <3>6. run'.version > run.version /\ run' # run
      BY <3>3, <3>5
    <3> QED BY <3>1, <3>2, <3>5, <3>6 DEF Onward
  <2>2. run' # run => run'.status # "DONE"
    BY <2>1
  <2> QED BY <1>2, <1>3, <2>1, <2>2, ResultIs, GoesWithHost DEF Relay
<1>4. CASE UNCHANGED <<run, lease>> /\ Goes(i, "closing")
  <2>1. Extends(tasks, tasks') /\ Len(tasks') = Len(tasks)
    BY <1>2, HostGoes DEF Relay
  <2>2. run \in RunRecords => Onward(run, run')
    BY <1>4, RunGoesOn
  <2>3. RunInv(run', tasks', lease')
    BY <1>2, <1>4, <2>1, <2>2, RunKeeps DEF NullIsNoValue, RuntimeInv
  <2>4. InvocationInv(inv'[i], run', tasks', lease')
    BY <1>2, <1>4, GoesOn, OutOfTheLoop
  <2>5. command' = [p \in Plans |-> command'[p]]
    BY DEF Relay, RuntimeInv
  <2> QED BY <1>2, <1>4, <2>1, <2>2, <2>3, <2>4, <2>5, GoesOn, StepKeeps
<1> QED BY <1>3, <1>4 DEF Relay

LEMMA CloseFailureKeeps ==
  ASSUME NullIsNoValue, RuntimeInv, NEW i \in Invocations, CloseFailure(i) PROVE RuntimeInv'
<1>1. run \in RunRecords
  BY DEF CloseFailure, RuntimeInv, InvocationInv
<1>2. Onward(run, run') /\ (run' # run => run'.status # "DONE")
  <2>1. CASE run' = run
    BY <1>1, <2>1, RunGoesOn
  <2>2. CASE run' = [run EXCEPT !.status = "NEEDS_USER", !.version = @ + 1]
    <3> DEFINE next == [run EXCEPT !.version = @ + 1]
    <3>1. next \in RunRecords /\ Onward(run, next)
      BY <1>1, NextVersion
    <3>2. run' = [next EXCEPT !.status = "NEEDS_USER"]
      BY <1>1, <2>2 DEF RunRecords
    <3>3. next.version > run.version /\ run.version \in Nat
      BY <1>1 DEF RunRecords
    <3> HIDE DEF next
    <3>4. /\ run' \in RunRecords /\ run'.plan = next.plan /\ run'.version = next.version
          /\ run'.status = "NEEDS_USER"
      BY <3>1, <3>2 DEF RunRecords, RunStatuses
    <3> QED BY <3>1, <3>3, <3>4 DEF Onward
  <2> QED BY <2>1, <2>2 DEF CloseFailure
<1> QED BY <1>1, <1>2, ResultIs, GoesWithHost DEF CloseFailure

LEMMA DiesKeeps == ASSUME NullIsNoValue, RuntimeInv, NEW i \in Invocations, Dies(i) PROVE RuntimeInv'
<1>1. inv' = [j \in Invocations |-> IF j = i THEN NoInvocation ELSE inv[j]]
  BY DEF Dies, RuntimeInv
<1>2. \A r, ts, l : InvocationInv(NoInvocation, r, ts, l)
  <2>1. IsInvocation(NoInvocation) /\ NoInvocation.step = "idle"
    BY NewFacts
  <2> QED BY <2>1 DEF InvocationInv, InLoop, BeforeSlice, WithTask, AfterSlice
<1>3. inv' = [j \in Invocations |-> inv'[j]] /\ inv'[i] = NoInvocation
      /\ \A j \in Invocations \ {i} : inv'[j] = inv[j]
  BY <1>1
<1>4. UNCHANGED <<now, command, run, lease>> /\ tasks' \in {WithoutHost(i), Orphaned(i)}
  BY DEF Dies
<1>5. run \in RunRecords => Onward(run, run')
  BY <1>4, RunGoesOn
<1> QED BY <1>2, <1>3, <1>4, <1>5, GoesWithHost

LEMMA BeatKeeps == ASSUME NullIsNoValue, RuntimeInv, NEW i \in Invocations, Beat(i) PROVE RuntimeInv'
<1>0. UNCHANGED <<now, command, run>> /\ (run \in RunRecords => Onward(run, run'))
  BY RunGoesOn DEF Beat
<1>1. CASE LeaseIsGood(run.epoch) /\ lease' = Renewed(i, run.epoch) /\ UNCHANGED <<inv, tasks>>
  <2>1. lease # Null
    BY <1>1 DEF LeaseIsGood
  <2>2. RunInv(run', tasks', lease')
    BY <1>0, <1>1, <2>1 DEF RuntimeInv, RunInv, EarnedBy
  <2>3. Extends(tasks, tasks)
    BY TasksExtend DEF RuntimeInv, RunInv
  <2>4. ASSUME NEW j \in Invocations PROVE InvocationInv(inv[j], run, tasks, lease')
    <3>1. InvocationInv(inv[j], run, tasks, lease)
      BY DEF RuntimeInv
    <3> QED BY <1>0, <2>1, <2>3, <3>1, InvocationKeeps
  <2> QED BY <1>0, <1>1, <2>2, <2>4 DEF RuntimeInv
<1>2. CASE inv' = [inv EXCEPT ![i].lost = TRUE] /\ tasks' = WithoutHost(i) /\ UNCHANGED lease
  <2>1. inv = [j \in Invocations |-> inv[j]] /\ IsInvocation(inv[i])
    BY DEF RuntimeInv, InvocationInv
  <2>2. inv' = [j \in Invocations |-> IF j = i THEN [inv[i] EXCEPT !.lost = TRUE] ELSE inv[j]]
    BY <1>2, <2>1
  <2>3. inv'[i] = [inv[i] EXCEPT !.lost = TRUE]
    BY <2>2
  <2>4. /\ IsInvocation(inv'[i]) /\ inv'[i].step = inv[i].step /\ inv'[i].plan = inv[i].plan
        /\ inv'[i].current = inv[i].current /\ inv'[i].index = inv[i].index /\ inv'[i].task = inv[i].task
    BY <2>1, <2>3, LostFacts
  <2>5. tasks \in Seq(TaskRecords) /\ RunInv(run, tasks, lease) /\ Null \notin RunRecords
    BY DEF RuntimeInv, RunInv, NullIsNoValue
  <2>6. Extends(tasks, tasks') /\ Len(tasks') = Len(tasks)
    BY <1>2, <2>5, HostGoes
  <2>7. RunInv(run', tasks', lease')
    BY <1>0, <1>2, <2>5, <2>6, RunKeeps
  <2>8. InvocationInv(inv'[i], run', tasks', lease')
    <3>1. InvocationInv(inv[i], run, tasks', lease)
      BY <1>0, <2>6, InvocationKeeps DEF RuntimeInv
    <3>2. inv[i].step \in InLoop => LoopInv(inv'[i], run, tasks')
      BY <2>4, <3>1, SameLoop DEF InvocationInv
    <3>3. InvocationInv(inv'[i], run, tasks', lease)
      BY <2>4, <3>1, <3>2 DEF InvocationInv
    <3> QED BY <1>0, <1>2, <3>3
  <2>9. command' = [p \in Plans |-> command'[p]] /\ \A p \in Plans : command'[p] = "PREPARING" => run' \in RunRecords
    BY <1>0 DEF RuntimeInv
  <2> QED BY <1>0, <1>2, <2>2, <2>6, <2>7, <2>8, <2>9, StepKeeps
<1> QED BY <1>1, <1>2 DEF Beat

LEMMA RuntimeInvStarts == ASSUME NullIsNoValue, RuntimeInit PROVE RuntimeInv
<1>1. RunInv(run, tasks, lease)
  BY DEF RuntimeInit, RunInv, NullIsNoValue
<1>2. \A i \in Invocations : InvocationInv(inv[i], run, tasks, lease)
  <2>1. IsInvocation(NoInvocation) /\ NoInvocation.step = "idle"
    BY NewFacts
  <2> QED BY <2>1 DEF RuntimeInit, InvocationInv, InLoop, BeforeSlice, WithTask, AfterSlice
<1> QED BY <1>1, <1>2 DEF RuntimeInit, RuntimeInv, NullIsNoValue

LEMMA RuntimeInvIsKept == ASSUME NullIsNoValue, RuntimeInv, [RuntimeNext]_runtimeVars PROVE RuntimeInv'
<1>1. CASE UNCHANGED runtimeVars
  BY <1>1 DEF RuntimeInv, runtimeVars
<1>2. CASE RuntimeNext
  <2>1. CASE Tick
    BY <2>1, TickKeepsRuntime
  <2>2. CASE \E t \in DOMAIN tasks : TaskEnds(t)
    BY <2>2, TaskEndsKeeps
  <2>3. ASSUME NEW i \in Invocations,
               \/ \E plan \in Plans, timing \in Timings, outside \in BOOLEAN : Invoke(i, plan, timing, outside)
               \/ ClaimStart(i) \/ StartRun(i) \/ StartIsRejected(i) \/ CompleteStart(i)
               \/ BeginRun(i) \/ AssertWritable(i) \/ Dispatch(i) \/ StartSlice(i)
               \/ TaskReturns(i) \/ PrepareNextSlice(i) \/ Relay(i) \/ Release(i) \/ Finish(i)
               \/ CloseFailure(i) \/ Beat(i) \/ Dies(i)
        PROVE  RuntimeInv'
    BY <2>3, InvokeKeeps, ClaimStartKeeps, StartRunKeeps, StartIsRejectedKeeps, CompleteStartKeeps,
       BeginRunKeeps, AssertWritableKeeps, DispatchKeeps, StartSliceKeeps, TaskReturnsKeeps,
       PrepareNextSliceKeeps, RelayKeeps, ReleaseKeeps, FinishKeeps, CloseFailureKeeps, BeatKeeps, DiesKeeps
  <2> QED BY <1>2, <2>1, <2>2, <2>3 DEF RuntimeNext
<1> QED BY <1>1, <1>2

(* What an invocation of run-plan holds is the Run or an earlier version of it, and  *)
(* every slice before the one it works on has been completed (runProductionPlanFile   *)
(* and the loop of the ProductionOrchestrator, whichever invocations overlap and die).*)
THEOREM RuntimeIsConsistent == ASSUME NullIsNoValue PROVE RuntimeSpec => []RuntimeInv
BY RuntimeInvStarts, RuntimeInvIsKept, PTL DEF RuntimeSpec

(* A development task is started only for a slice of the Run's plan, when every slice  *)
(* before it has been completed (runSlice, prepare_next_slice).                     *)
THEOREM RuntimeSlicesInOrder == ASSUME NullIsNoValue PROVE RuntimeSpec => []SlicesInOrder
<1>1. RuntimeInv => SlicesInOrder
  <2> SUFFICES ASSUME RuntimeInv, NEW t \in DOMAIN tasks
               PROVE  \E k \in 1..Len(run.plan.slices) :
                        /\ tasks[t].slice = run.plan.slices[k].slice_id
                        /\ \A j \in 1..(k - 1) : IsDone(tasks, run.plan, j, t - 1)
    BY DEF SlicesInOrder
  <2>1. tasks \in Seq(TaskRecords) /\ t \in 1..Len(tasks) /\ run \in RunRecords
    BY DEF RuntimeInv, RunInv
  <2> QED BY <2>1 DEF RuntimeInv, RunInv, InOrder
<1> QED BY <1>1, RuntimeIsConsistent, PTL

(* A Run that is DONE has completed every slice of its plan and has no lease, which    *)
(* no invocation that outlived it renews (the release before the last transition,     *)
(* and the heartbeat).                                                         *)
THEOREM RuntimeDoneIsEarned == ASSUME NullIsNoValue PROVE RuntimeSpec => []DoneIsEarned
<1>1. RuntimeInv => DoneIsEarned
  BY DEF RuntimeInv, RunInv, EarnedBy, DoneIsEarned
<1> QED BY <1>1, RuntimeIsConsistent, PTL

LEMMA OverDone ==
  ASSUME NullIsNoValue, RuntimeInv, NEW i \in Invocations, inv[i].step \in InLoop,
         inv[i].current.status # "DONE"
  PROVE  run # Null /\ run.status = "DONE" => run.version # inv[i].current.version
BY LoopFacts DEF LoopInv, HoldsRun

LEMMA DoneIsKept ==
  ASSUME NullIsNoValue, RuntimeInv, [RuntimeNext]_runtimeVars, run # Null, run.status = "DONE"
  PROVE  run' = run
<1>1. CASE UNCHANGED runtimeVars
  BY <1>1 DEF runtimeVars
<1>2. CASE RuntimeNext
  <2>1. ASSUME NEW i \in Invocations, inv[i].step \in BeforeSlice \cup AfterSlice
        PROVE  run.version # inv[i].current.version
    <3>1. inv[i].current.status # "DONE" /\ inv[i].step \in InLoop
      BY <2>1 DEF RuntimeInv, InvocationInv, InLoop
    <3> QED BY <3>1, OverDone
  <2>2. ASSUME NEW i \in Invocations, StartSlice(i) PROVE run' = run
    BY <2>1, <2>2 DEF StartSlice, BeforeSlice, Swap
  <2>3. ASSUME NEW i \in Invocations, PrepareNextSlice(i) PROVE run' = run
    BY <2>1, <2>3 DEF PrepareNextSlice, AfterSlice, Swap
  <2>4. ASSUME NEW i \in Invocations, Finish(i) PROVE run' = run
    BY <2>1, <2>4 DEF Finish, AfterSlice, Swap
  <2>5. ASSUME NEW i \in Invocations, StartRun(i) \/ Relay(i) \/ CloseFailure(i) PROVE run' = run
    BY <2>5 DEF StartRun, Relay, CloseFailure
  <2>6. ASSUME NEW i \in Invocations,
               \/ \E plan \in Plans, timing \in Timings, outside \in BOOLEAN : Invoke(i, plan, timing, outside)
               \/ ClaimStart(i) \/ StartIsRejected(i) \/ CompleteStart(i) \/ BeginRun(i)
               \/ AssertWritable(i) \/ Dispatch(i) \/ TaskReturns(i) \/ Release(i) \/ Beat(i) \/ Dies(i)
        PROVE  run' = run
    BY <2>6 DEF Invoke, ClaimStart, StartIsRejected, CompleteStart, BeginRun, AssertWritable, Dispatch,
       TaskReturns, Release, Beat, Dies
  <2>7. CASE Tick \/ \E t \in DOMAIN tasks : TaskEnds(t)
    BY <2>7 DEF Tick, TaskEnds
  <2> QED BY <1>2, <2>2, <2>3, <2>4, <2>5, <2>6, <2>7 DEF RuntimeNext
<1> QED BY <1>1, <1>2

(* No invocation changes a Run that is DONE: one that is still in its loop holds an    *)
(* earlier version, and closeFailure leaves it alone.                              *)
THEOREM RuntimeDoneIsFinal == ASSUME NullIsNoValue PROVE RuntimeSpec => DoneIsFinal
<1>1. RuntimeInv /\ [RuntimeNext]_runtimeVars =>
        [run # Null /\ run.status = "DONE" => run' = run]_runtimeVars
  BY DoneIsKept
<1> QED BY <1>1, RuntimeIsConsistent, PTL DEF RuntimeSpec, DoneIsFinal

=============================================================================
