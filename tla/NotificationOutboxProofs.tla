---------------------- MODULE NotificationOutboxProofs ----------------------
(***************************************************************************)
(* What holds of the notification worker for every value of the constants. *)
(***************************************************************************)
EXTENDS NotificationOutbox, SequenceTheorems, FiniteSetTheorems, TLAPS

(***************************************************************************)
(* Lemmas about the data.                                                  *)
(***************************************************************************)

\* A delay is a number of ticks up to the cap.
LEMMA DelaysAreBounded ==
    ASSUME NEW attempt \in 0..MaxAttempts, NEW delay \in Delays(attempt)
    PROVE  delay \in 0..Cap
<1>1. Base * 2^attempt \in Nat /\ Cap \in Nat
    BY BackoffAssumption, OutboxSizesAssumption
<1> DEFINE interval == Lesser(Base * 2^attempt, Cap)
<1>2. interval \in Nat
    BY <1>1 DEF Lesser
<1> HIDE DEF interval
<1>3. PICK jitter \in {0} \cup 0..(interval \div 4 - 1) : delay = Lesser(interval + jitter, Cap)
    BY DEF Delays, interval
<1>4. jitter \in Nat
    BY <1>2, <1>3
<1> QED
    BY <1>1, <1>2, <1>3, <1>4 DEF Lesser

\* A batch is a sequence of due entries without repetition.
LEMMA BatchesAreSequences ==
    ASSUME NEW b \in Batches, Due # {}
    PROVE  /\ b \in Seq(Due)
           /\ b # <<>>
           /\ \A i, j \in 1..Len(b) : i # j => b[i] # b[j]
<1>1. IsFiniteSet(Due)
  <2>1. IsFiniteSet(Entries)
    BY FS_Interval, OutboxSizesAssumption DEF Entries
  <2> QED
    BY <2>1, FS_Subset DEF Due
<1>2. Cardinality(Due) \in Nat /\ Cardinality(Due) # 0
    BY <1>1, FS_CardinalityType, FS_EmptySet
<1> DEFINE n == Lesser(BatchSize, Cardinality(Due))
<1>3. n \in Nat /\ n # 0
    BY <1>2, OutboxSizesAssumption DEF Lesser
<1> HIDE DEF n
<1>4. /\ b \in [1..n -> Due]
      /\ \A i, j \in 1..n : i < j => b[i] # b[j]
    BY DEF Batches, n
<1>5. b \in Seq(Due) /\ Len(b) = n
    BY <1>3, <1>4
<1>6. ASSUME NEW i \in 1..n, NEW j \in 1..n, i # j
      PROVE  b[i] # b[j]
    BY <1>3, <1>4, <1>6
<1> QED
    BY <1>3, <1>5, <1>6

-----------------------------------------------------------------------------
(***************************************************************************)
(* Type correctness.                                                       *)
(***************************************************************************)
LEMMA InitTypes == Init => TypeOK
<1> USE DEF Init
<1> SUFFICES ASSUME Init PROVE TypeOK
    OBVIOUS
<1>1. NoEntry \in Row
    BY OutboxSizesAssumption DEF NoEntry, Row
<1>2. OutboxTypeOK
    BY <1>1 DEF OutboxTypeOK
<1>3. WorkerTypeOK
    BY DEF WorkerTypeOK
<1>4. EnvironmentTypeOK
    BY OutboxBoundsAssumption DEF EnvironmentTypeOK
<1> QED
    BY <1>2, <1>3, <1>4 DEF TypeOK

\* A worker that is not idle has a first entry in hand, and goes on or ends.
LEMMA HeadIsEntry ==
    ASSUME WorkerTypeOK, step # "idle"
    PROVE  /\ batch # <<>>
           /\ Head(batch) \in Entries
           /\ Head(batch) = batch[1]
BY DEF WorkerTypeOK

LEMMA NextEntryTypes ==
    ASSUME WorkerTypeOK, step # "idle"
    PROVE  /\ NextEntry => WorkerTypeOK'
           /\ EndCycle => WorkerTypeOK'
<1>1. batch # <<>> /\ batch \in Seq(Entries)
    BY DEF WorkerTypeOK
<1>2. EndCycle => WorkerTypeOK'
    BY DEF WorkerTypeOK, EndCycle
<1>3. ASSUME Len(batch) # 1
      PROVE  Tail(batch) \in Seq(Entries) /\ Tail(batch) # <<>>
  <2>1. Len(batch) \in Nat /\ Len(batch) # 0
    BY <1>1, EmptySeq
  <2>2. Tail(batch) \in Seq(Entries) /\ Len(Tail(batch)) = Len(batch) - 1
    BY <1>1, HeadTailProperties
  <2>3. Len(Tail(batch)) # 0
    BY <1>3, <2>1, <2>2
  <2>4. Tail(batch) # <<>>
    BY <2>2, <2>3, EmptySeq, Zenon
  <2> QED
    BY <2>2, <2>4
<1> QED
    BY <1>2, <1>3 DEF NextEntry, WorkerTypeOK

\* A mark that is a row keeps the outbox a set of rows.
LEMMA MarkKeepsRows ==
    ASSUME entry \in [Entries -> Row], NEW e \in Entries, NEW new,
           Pending(e) => new \in Row, Mark(e, new)
    PROVE  entry' \in [Entries -> Row]
BY DEF Mark

LEMMA NextTypes == TypeOK /\ [Next]_vars => TypeOK'
<1> SUFFICES ASSUME TypeOK, [Next]_vars
             PROVE  TypeOK'
    OBVIOUS
<1> USE DEF TypeOK, faults
<1>1. CASE InsertEntry
  <2>1. [status |-> "pending", attempts |-> 0, due |-> 0] \in Row
    BY OutboxSizesAssumption DEF Row
  <2> QED
    BY <1>1, <2>1 DEF InsertEntry, OutboxTypeOK, WorkerTypeOK, EnvironmentTypeOK
<1>2. CASE Tick
  <2>1. ASSUME NEW e \in Entries
        PROVE  [entry[e] EXCEPT !.due = Greater(@ - 1, -Late)] \in Row
    <3>1. entry[e] \in Row
      BY DEF OutboxTypeOK
    <3>2. entry[e].due \in (-Late)..Cap
      BY <3>1 DEF Row
    <3>3. Greater(entry[e].due - 1, -Late) \in (-Late)..Cap
      BY <3>2, OutboxSizesAssumption DEF Greater
    <3> QED
      BY <3>1, <3>3 DEF Row
  <2>2. OutboxTypeOK'
    BY <1>2, <2>1 DEF Tick, OutboxTypeOK
  <2> QED
    BY <1>2, <2>2 DEF Tick, WorkerTypeOK, EnvironmentTypeOK
<1>3. CASE Reload
    BY <1>3, OutboxBoundsAssumption DEF Reload, OutboxTypeOK, WorkerTypeOK, EnvironmentTypeOK
<1>4. CASE Retention
  <2>1. [NoEntry EXCEPT !.status = "deleted"] \in Row
    BY OutboxSizesAssumption DEF Row, NoEntry
  <2>2. OutboxTypeOK'
    BY <1>4, <2>1 DEF Retention, OutboxTypeOK
  <2> QED
    BY <1>4, <2>2 DEF Retention, WorkerTypeOK, EnvironmentTypeOK
<1>5. CASE BeginCycle
  <2>1. batch' \in Seq(Due) /\ batch' # <<>>
    BY <1>5, BatchesAreSequences DEF BeginCycle
  <2>2. batch' \in Seq(Entries)
    BY <2>1 DEF Due
  <2> QED
    BY <1>5, <2>1, <2>2 DEF BeginCycle, OutboxTypeOK, WorkerTypeOK, EnvironmentTypeOK
<1>6. CASE PrepareSend
  <2>1. failures' \in 0..MaxFailures
    BY <1>6, OutboxBoundsAssumption DEF PrepareSend, EnvironmentTypeOK
  <2> QED
    BY <1>6, <2>1 DEF PrepareSend, OutboxTypeOK, WorkerTypeOK, EnvironmentTypeOK
<1>7. CASE SendSucceeds
  <2>1. Head(batch) \in Entries
    BY <1>7, HeadIsEntry DEF SendSucceeds
  <2>2. OutboxTypeOK'
    BY <1>7, <2>1 DEF SendSucceeds, Receive, OutboxTypeOK
  <2> QED
    BY <1>7, <2>2 DEF SendSucceeds, WorkerTypeOK, EnvironmentTypeOK
<1>8. CASE SendRefused
    BY <1>8 DEF SendRefused, OutboxTypeOK, WorkerTypeOK, EnvironmentTypeOK
<1>9. CASE AnswerLost
  <2>1. Head(batch) \in Entries
    BY <1>9, HeadIsEntry DEF AnswerLost
  <2>2. OutboxTypeOK'
    BY <1>9, <2>1 DEF AnswerLost, Receive, Unrecorded, OutboxTypeOK
  <2>3. lost' \in 0..MaxLost
    BY <1>9, OutboxBoundsAssumption DEF AnswerLost, EnvironmentTypeOK
  <2> QED
    BY <1>9, <2>2, <2>3 DEF AnswerLost, WorkerTypeOK, EnvironmentTypeOK
<1>10. CASE MarkDelivered
  <2> DEFINE e == Head(batch)
             new == [status |-> "delivered", attempts |-> entry[e].attempts + 1, due |-> 0]
  <2>1. e \in Entries /\ entry[e] \in Row
    BY <1>10, HeadIsEntry DEF MarkDelivered, OutboxTypeOK
  <2>2. Pending(e) => new \in Row
    BY <2>1, OutboxSizesAssumption DEF Pending, Row
  <2>3. OutboxTypeOK'
    BY <1>10, <2>1, <2>2, MarkKeepsRows DEF MarkDelivered, OutboxTypeOK
  <2>4. WorkerTypeOK'
    BY <1>10, NextEntryTypes DEF MarkDelivered
  <2> QED
    BY <1>10, <2>3, <2>4 DEF MarkDelivered, EnvironmentTypeOK
<1>11. CASE MarkAttempt
  <2> DEFINE e == Head(batch)
             fail == [status |-> "failed", attempts |-> entry[e].attempts + 1, due |-> 0]
             retry(delay) == [status |-> "pending", attempts |-> entry[e].attempts + 1,
                              due |-> delay]
  <2>1. e \in Entries /\ entry[e] \in Row
    BY <1>11, HeadIsEntry DEF MarkAttempt, OutboxTypeOK
  <2>2. entry[e].attempts \in 0..MaxAttempts /\ MaxAttempts \in Nat
    BY <2>1, OutboxSizesAssumption DEF Row
  <2>3. ASSUME GivesUp(entry[e].attempts)
        PROVE  entry' \in [Entries -> Row]
    <3>1. Pending(e) => fail \in Row
      BY <2>1, <2>2, <2>3, OutboxSizesAssumption DEF Pending, Row, GivesUp
    <3>2. Mark(e, fail)
      BY <1>11, <2>3 DEF MarkAttempt
    <3> QED
      BY <2>1, <3>1, <3>2, MarkKeepsRows DEF OutboxTypeOK
  <2>4. ASSUME ~GivesUp(entry[e].attempts)
        PROVE  entry' \in [Entries -> Row]
    <3>1. PICK delay \in Delays(entry[e].attempts) : Retry(e, delay)
      BY <1>11, <2>4 DEF MarkAttempt
    <3>2. delay \in 0..Cap
      BY <2>2, <3>1, DelaysAreBounded
    <3>3. retry(delay) \in Row
      BY <2>2, <2>4, <3>2, OutboxSizesAssumption DEF Row, GivesUp
    <3>4. Mark(e, retry(delay))
      BY <3>1 DEF Retry
    <3> QED
      BY <2>1, <3>3, <3>4, MarkKeepsRows DEF OutboxTypeOK
  <2>5. entry' \in [Entries -> Row]
    BY <2>3, <2>4
  <2>6. OutboxTypeOK'
    BY <1>11, <2>5 DEF MarkAttempt, OutboxTypeOK
  <2>7. WorkerTypeOK'
    BY <1>11, NextEntryTypes DEF MarkAttempt
  <2> QED
    BY <1>11, <2>6, <2>7 DEF MarkAttempt, EnvironmentTypeOK
<1>12. CASE MarkFails
  <2>1. Head(batch) \in Entries
    BY <1>12, HeadIsEntry DEF MarkFails
  <2>2. OutboxTypeOK'
    BY <1>12, <2>1 DEF MarkFails, Unrecorded, OutboxTypeOK
  <2>3. WorkerTypeOK'
    BY <1>12, NextEntryTypes DEF MarkFails
  <2>4. failures' \in 0..MaxFailures
    BY <1>12, OutboxBoundsAssumption DEF MarkFails, EnvironmentTypeOK
  <2> QED
    BY <1>12, <2>2, <2>3, <2>4 DEF MarkFails, EnvironmentTypeOK
<1>13. CASE Crash
  <2>1. Head(batch) \in Entries
    BY <1>13, HeadIsEntry DEF Crash
  <2>2. OutboxTypeOK'
    BY <1>13, <2>1 DEF Crash, Receive, Unrecorded, OutboxTypeOK
  <2>3. WorkerTypeOK'
    BY <1>13, NextEntryTypes DEF Crash
  <2>4. crashes' \in 0..MaxCrashes
    BY <1>13, OutboxBoundsAssumption DEF Crash, EnvironmentTypeOK
  <2> QED
    BY <1>13, <2>2, <2>3, <2>4 DEF Crash, EnvironmentTypeOK
<1>14. CASE UNCHANGED vars
    BY <1>14 DEF vars, OutboxTypeOK, WorkerTypeOK, EnvironmentTypeOK
<1> QED
    BY <1>1, <1>2, <1>3, <1>4, <1>5, <1>6, <1>7, <1>8, <1>9, <1>10, <1>11, <1>12, <1>13, <1>14
    DEF Next, CycleStep

\* The variables of the notification worker keep their types: an entry is
\* pending exactly while it has attempts left, and one that failed has none.
THEOREM OutboxTypeCorrect == Spec => []TypeOK
BY InitTypes, NextTypes, PTL DEF Spec
-----------------------------------------------------------------------------

-----------------------------------------------------------------------------
(***************************************************************************)
(* Deliveries.  What the theorems say of an entry holds because of what is *)
(* known while it waits: a batch names no entry twice and none that is     *)
(* settled, so that no entry is sent after its mark; and an entry that may *)
(* still be sent was received no more often than deliveries went           *)
(* unrecorded, but for the one that is about to be marked.                 *)
(***************************************************************************)
NoneTwice == \A i, j \in 1..Len(batch) : i # j => batch[i] # batch[j]

NoneSettled == \A i \in 1..Len(batch) : entry[batch[i]].status \in {"pending", "deleted"}

InBatch(e) == \E i \in 1..Len(batch) : batch[i] = e

\* The deliveries of an entry that are waiting for their mark.
Unmarked(e) == IF step = "sent" /\ e = Head(batch) THEN 1 ELSE 0

MayBeSent(e) == entry[e].status = "none" \/ Pending(e) \/ InBatch(e)

Accounted ==
    \A e \in Entries : MayBeSent(e) => received[e] <= excuses[e] + Unmarked(e)

SentIsReceived == step = "sent" => received[Head(batch)] > 0

DeliveryInv ==
    /\ NoneTwice /\ NoneSettled /\ Accounted /\ SentIsReceived
    /\ DuplicatesExplained /\ DeliveredReceived

LEMMA InitDelivery == Init => DeliveryInv
BY DEF Init, DeliveryInv, NoneTwice, NoneSettled, Accounted, SentIsReceived, InBatch, Unmarked,
       DuplicatesExplained, DeliveredReceived, NoEntry

\* What is left of a batch.
LEMMA NextEntryLeaves ==
    ASSUME TypeOK, step # "idle", NoneTwice, NextEntry \/ EndCycle
    PROVE  /\ NoneTwice'
           /\ step' \in {"idle", "next"}
           /\ \A i \in 1..Len(batch') : \E j \in 1..Len(batch) : j # 1 /\ batch'[i] = batch[j]
<1>1. batch \in Seq(Entries) /\ batch # <<>>
    BY DEF TypeOK, WorkerTypeOK
<1>2. CASE batch' = <<>> /\ step' = "idle"
    BY <1>2 DEF NoneTwice
<1>3. CASE batch' = Tail(batch) /\ step' = "next"
  <2>1. /\ Len(batch) \in Nat /\ Len(batch') = Len(batch) - 1
        /\ \A i \in 1..Len(batch') : batch'[i] = batch[i + 1]
    BY <1>1, <1>3, HeadTailProperties
  <2>2. NoneTwice'
    BY <2>1 DEF NoneTwice
  <2>3. ASSUME NEW i \in 1..Len(batch')
        PROVE  \E j \in 1..Len(batch) : j # 1 /\ batch'[i] = batch[j]
    <3>1. i + 1 \in 1..Len(batch) /\ i + 1 # 1
      BY <2>1
    <3> QED
      BY <2>1, <3>1
  <2> QED
    BY <1>3, <2>2, <2>3
<1> QED
    BY <1>2, <1>3 DEF NextEntry, EndCycle

\* Where the batch is left alone and no entry is settled, none in it is.
LEMMA HeadIsUnsettled ==
    ASSUME TypeOK, step # "idle", NoneSettled
    PROVE  /\ Head(batch) \in Entries
           /\ 1 \in 1..Len(batch) /\ Head(batch) = batch[1]
           /\ InBatch(Head(batch))
           /\ entry[Head(batch)].status \in {"pending", "deleted"}
<1>1. batch \in Seq(Entries) /\ batch # <<>>
    BY DEF TypeOK, WorkerTypeOK
<1>2. 1 \in 1..Len(batch) /\ Head(batch) = batch[1] /\ Head(batch) \in Entries
    BY <1>1
<1> QED
    BY <1>2 DEF InBatch, NoneSettled

\* A mark of the first entry, whichever it is, accounts for its delivery.
LEMMA MarkLeavesDelivery ==
    ASSUME TypeOK, DeliveryInv, step # "idle", NextEntry,
           UNCHANGED <<received, excuses>>,
           \A e \in Entries : e # Head(batch) => entry'[e] = entry[e],
           \/ step = "sent" /\ entry'[Head(batch)].status \in {"delivered", "deleted"}
           \/ step # "sent" /\ entry'[Head(batch)].status \in {"failed", "pending", "deleted"}
    PROVE  DeliveryInv'
<1> DEFINE h == Head(batch)
<1>1. /\ h \in Entries /\ h = batch[1] /\ 1 \in 1..Len(batch) /\ InBatch(h)
      /\ entry[h].status \in {"pending", "deleted"}
    BY HeadIsUnsettled DEF DeliveryInv
<1>2. /\ NoneTwice' /\ step' \in {"idle", "next"}
      /\ \A i \in 1..Len(batch') : \E j \in 1..Len(batch) : j # 1 /\ batch'[i] = batch[j]
    BY NextEntryLeaves DEF DeliveryInv
<1>3. received \in [Entries -> Nat] /\ excuses \in [Entries -> Nat]
    BY DEF TypeOK, OutboxTypeOK
<1>4. \A j \in 1..Len(batch) : batch[j] \in Entries
    BY DEF TypeOK, WorkerTypeOK
<1>5. \A i \in 1..Len(batch') : batch'[i] # h /\ InBatch(batch'[i]) /\ batch'[i] \in Entries
    BY <1>1, <1>2, <1>4 DEF DeliveryInv, NoneTwice, InBatch
<1>6. NoneSettled'
    BY <1>2, <1>4, <1>5 DEF DeliveryInv, NoneSettled
<1>7. Accounted'
  <2> SUFFICES ASSUME NEW e \in Entries, MayBeSent(e)'
               PROVE  received[e] <= excuses[e]
    BY <1>2, <1>3 DEF Accounted, Unmarked
  <2>1. CASE e = h
    <3>1. ~InBatch(e)'
      BY <1>5, <2>1 DEF InBatch
    <3>2. entry'[e].status \in {"none", "pending"}
      BY <3>1 DEF MayBeSent, Pending
    <3>3. step # "sent"
      BY <2>1, <3>2
    <3>4. MayBeSent(e) /\ Unmarked(e) = 0
      BY <1>1, <2>1, <3>3 DEF MayBeSent, Unmarked
    <3>5. received[e] <= excuses[e] + Unmarked(e)
      BY <3>4 DEF DeliveryInv, Accounted
    <3> QED
      BY <1>3, <3>4, <3>5
  <2>2. CASE e # h
    <3>1. MayBeSent(e)
      BY <1>5, <2>2 DEF MayBeSent, InBatch, Pending
    <3> QED
      BY <1>3, <2>2, <3>1 DEF DeliveryInv, Accounted, Unmarked
  <2> QED
    BY <2>1, <2>2
<1>8. DeliveredReceived'
    BY <1>1 DEF DeliveryInv, DeliveredReceived, SentIsReceived
<1> QED
    BY <1>2, <1>6, <1>7, <1>8 DEF DeliveryInv, SentIsReceived, DuplicatesExplained

\* So does the end of a cycle: a delivery without a mark is counted, and one
\* that happened while the process died.
LEMMA EndLeavesDelivery ==
    ASSUME TypeOK, DeliveryInv, step # "idle", EndCycle, UNCHANGED entry,
           \/ /\ step = "sent" /\ UNCHANGED received
              /\ excuses' = [excuses EXCEPT ![Head(batch)] = @ + 1]
           \/ /\ step = "sending"
              /\ received' = [received EXCEPT ![Head(batch)] = @ + 1]
              /\ excuses' = [excuses EXCEPT ![Head(batch)] = @ + 1]
           \/ step # "sent" /\ UNCHANGED <<received, excuses>>
    PROVE  DeliveryInv'
<1> DEFINE h == Head(batch)
<1>1. h \in Entries /\ InBatch(h)
    BY HeadIsUnsettled DEF DeliveryInv
<1>2. received \in [Entries -> Nat] /\ excuses \in [Entries -> Nat]
    BY DEF TypeOK, OutboxTypeOK
<1>3. batch' = <<>> /\ step' = "idle"
    BY DEF EndCycle
<1>4. NoneTwice' /\ NoneSettled' /\ SentIsReceived'
    BY <1>3 DEF NoneTwice, NoneSettled, SentIsReceived
<1>5. \A e \in Entries : MayBeSent(e)' => MayBeSent(e)
    BY <1>3 DEF MayBeSent, InBatch, Pending
<1>6. \A e \in Entries : MayBeSent(e) => received[e] <= excuses[e] + Unmarked(e)
    BY DEF DeliveryInv, Accounted
<1>7. ASSUME NEW e \in Entries
      PROVE  /\ received'[e] >= received[e] /\ excuses'[e] >= excuses[e]
             /\ received'[e] \in Nat /\ excuses'[e] \in Nat
             /\ received'[e] - received[e] <= excuses'[e] - excuses[e]
             /\ received'[e] - received[e] + Unmarked(e) <= excuses'[e] - excuses[e]
    BY <1>1, <1>2 DEF Unmarked
<1>8. Accounted'
  <2> SUFFICES ASSUME NEW e \in Entries, MayBeSent(e)'
               PROVE  received'[e] <= excuses'[e]
    BY <1>3, <1>7 DEF Accounted, Unmarked
  <2>1. Unmarked(e) \in {0, 1} /\ received[e] \in Nat /\ excuses[e] \in Nat
    BY <1>2 DEF Unmarked
  <2>2. received[e] <= excuses[e] + Unmarked(e)
    BY <1>5, <1>6
  <2> QED
    BY <1>7, <2>1, <2>2
<1>9. DuplicatesExplained'
    BY <1>2, <1>7 DEF DeliveryInv, DuplicatesExplained
<1>10. DeliveredReceived'
    BY <1>2, <1>7 DEF DeliveryInv, DeliveredReceived
<1> QED
    BY <1>4, <1>8, <1>9, <1>10 DEF DeliveryInv

LEMMA NextDelivery == TypeOK /\ DeliveryInv /\ [Next]_vars => DeliveryInv'
<1> SUFFICES ASSUME TypeOK, DeliveryInv, [Next]_vars
             PROVE  DeliveryInv'
    OBVIOUS
<1> USE DEF faults
<1>a. /\ entry \in [Entries -> Row] /\ received \in [Entries -> Nat]
      /\ excuses \in [Entries -> Nat]
    BY DEF TypeOK, OutboxTypeOK
<1>b. \A i \in 1..Len(batch) : batch[i] \in Entries
    BY DEF TypeOK, WorkerTypeOK
<1>c. batch = <<>> <=> step = "idle"
    BY DEF TypeOK, WorkerTypeOK
<1>1. CASE InsertEntry
  <2>1. PICK e \in Entries :
            /\ entry[e].status = "none"
            /\ entry' = [entry EXCEPT ![e] = [status |-> "pending", attempts |-> 0, due |-> 0]]
    BY <1>1 DEF InsertEntry
  <2>2. \A f \in Entries : /\ f # e => entry'[f] = entry[f]
                           /\ f = e => entry'[f].status = "pending"
    BY <1>a, <2>1
  <2>3. UNCHANGED <<batch, step, received, excuses>>
    BY <1>1 DEF InsertEntry
  <2>4. NoneTwice' /\ SentIsReceived' /\ DuplicatesExplained'
    BY <2>3 DEF DeliveryInv, NoneTwice, SentIsReceived, DuplicatesExplained
  <2>5. NoneSettled'
    BY <1>b, <2>1, <2>2, <2>3 DEF DeliveryInv, NoneSettled
  <2>6. \A f \in Entries : MayBeSent(f)' => MayBeSent(f)
    BY <2>1, <2>2, <2>3 DEF MayBeSent, InBatch, Pending
  <2>7. Accounted'
    BY <2>3, <2>6 DEF DeliveryInv, Accounted, Unmarked
  <2>8. DeliveredReceived'
    BY <2>2, <2>3 DEF DeliveryInv, DeliveredReceived
  <2> QED
    BY <2>4, <2>5, <2>7, <2>8 DEF DeliveryInv
<1>2. CASE Tick
  <2>1. \A e \in Entries : entry'[e].status = entry[e].status
    BY <1>2, <1>a DEF Tick, Row
  <2>2. UNCHANGED <<batch, step, received, excuses>>
    BY <1>2 DEF Tick
  <2>3. NoneSettled'
    BY <1>b, <2>1, <2>2 DEF DeliveryInv, NoneSettled
  <2>4. \A e \in Entries : MayBeSent(e)' => MayBeSent(e)
    BY <2>1, <2>2 DEF MayBeSent, InBatch, Pending
  <2> QED
    BY <2>1, <2>2, <2>3, <2>4
    DEF DeliveryInv, NoneTwice, SentIsReceived, DuplicatesExplained, Accounted, Unmarked,
        DeliveredReceived
<1>3. CASE Reload
    BY <1>3 DEF Reload, DeliveryInv, NoneTwice, NoneSettled, SentIsReceived, Accounted, Unmarked,
        MayBeSent, InBatch, Pending, DuplicatesExplained, DeliveredReceived
<1>4. CASE Retention
  <2>1. \A e \in Entries : entry'[e] = entry[e] \/ entry'[e].status = "deleted"
    BY <1>4 DEF Retention, NoEntry
  <2>2. UNCHANGED <<batch, step, received, excuses>>
    BY <1>4 DEF Retention
  <2>3. NoneSettled'
    BY <1>b, <2>1, <2>2 DEF DeliveryInv, NoneSettled
  <2>4. \A e \in Entries : MayBeSent(e)' => MayBeSent(e)
    BY <2>1, <2>2 DEF MayBeSent, InBatch, Pending
  <2> QED
    BY <2>1, <2>2, <2>3, <2>4
    DEF DeliveryInv, NoneTwice, SentIsReceived, DuplicatesExplained, Accounted, Unmarked,
        DeliveredReceived
<1>5. CASE BeginCycle
  <2>1. /\ batch' \in Seq(Due) /\ NoneTwice' /\ step = "idle" /\ step' = "next"
        /\ UNCHANGED <<entry, received, excuses>>
    BY <1>5, BatchesAreSequences DEF BeginCycle, NoneTwice
  <2>2. \A i \in 1..Len(batch') : batch'[i] \in Entries /\ Pending(batch'[i])
    BY <2>1 DEF Due
  <2>3. NoneSettled'
    BY <2>1, <2>2 DEF NoneSettled, Pending
  <2>4. \A e \in Entries : MayBeSent(e)' => MayBeSent(e)
    BY <2>1, <2>2 DEF MayBeSent, InBatch, Pending
  <2> QED
    BY <2>1, <2>3, <2>4
    DEF DeliveryInv, SentIsReceived, DuplicatesExplained, Accounted, Unmarked, DeliveredReceived
<1>6. CASE PrepareSend
  <2>1. step = "next" /\ step' \in {"sending", "refused"}
        /\ UNCHANGED <<entry, batch, received, excuses>>
    BY <1>6 DEF PrepareSend
  <2> QED
    BY <2>1 DEF DeliveryInv, NoneTwice, NoneSettled, SentIsReceived, Accounted, Unmarked,
        MayBeSent, InBatch, Pending, DuplicatesExplained, DeliveredReceived
<1>7. CASE SendSucceeds
  <2> DEFINE h == Head(batch)
  <2>1. /\ step = "sending" /\ step' = "sent" /\ UNCHANGED <<entry, batch, excuses>>
        /\ received' = [received EXCEPT ![h] = @ + 1]
    BY <1>7 DEF SendSucceeds, Receive
  <2>2. h \in Entries /\ MayBeSent(h)
    BY <2>1, HeadIsUnsettled DEF DeliveryInv, MayBeSent
  <2>3. received[h] <= excuses[h] /\ received'[h] = received[h] + 1
    BY <1>a, <2>1, <2>2 DEF DeliveryInv, Accounted, Unmarked
  <2>4. \A e \in Entries : e # h => received'[e] = received[e]
    BY <1>a, <2>1, <2>2
  <2>5. NoneTwice' /\ NoneSettled'
    BY <2>1 DEF DeliveryInv, NoneTwice, NoneSettled
  <2>6. Accounted'
    BY <1>a, <2>1, <2>2, <2>3, <2>4
    DEF DeliveryInv, Accounted, Unmarked, MayBeSent, InBatch, Pending
  <2>7. SentIsReceived'
    BY <1>a, <2>1, <2>2, <2>3 DEF SentIsReceived
  <2>8. DuplicatesExplained'
    BY <1>a, <2>1, <2>2, <2>3, <2>4 DEF DeliveryInv, DuplicatesExplained
  <2>9. DeliveredReceived'
    BY <1>a, <2>1, <2>2, <2>3, <2>4 DEF DeliveryInv, DeliveredReceived
  <2> QED
    BY <2>5, <2>6, <2>7, <2>8, <2>9 DEF DeliveryInv
<1>8. CASE SendRefused
    BY <1>8 DEF SendRefused, DeliveryInv, NoneTwice, NoneSettled, SentIsReceived, Accounted,
        Unmarked, MayBeSent, InBatch, Pending, DuplicatesExplained, DeliveredReceived
<1>9. CASE AnswerLost
  <2> DEFINE h == Head(batch)
  <2>1. /\ step = "sending" /\ step' = "refused" /\ UNCHANGED <<entry, batch>>
        /\ received' = [received EXCEPT ![h] = @ + 1]
        /\ excuses' = [excuses EXCEPT ![h] = @ + 1]
    BY <1>9 DEF AnswerLost, Receive, Unrecorded
  <2>2. h \in Entries
    BY <2>1, HeadIsUnsettled DEF DeliveryInv
  <2>3. \A e \in Entries : IF e = h
            THEN received'[e] = received[e] + 1 /\ excuses'[e] = excuses[e] + 1
            ELSE received'[e] = received[e] /\ excuses'[e] = excuses[e]
    BY <1>a, <2>1, <2>2
  <2>4. NoneTwice' /\ NoneSettled' /\ SentIsReceived'
    BY <2>1 DEF DeliveryInv, NoneTwice, NoneSettled, SentIsReceived
  <2>5. Accounted'
    BY <1>a, <2>1, <2>3 DEF DeliveryInv, Accounted, Unmarked, MayBeSent, InBatch, Pending
  <2>6. DuplicatesExplained' /\ DeliveredReceived'
    BY <1>a, <2>1, <2>3 DEF DeliveryInv, DuplicatesExplained, DeliveredReceived
  <2> QED
    BY <2>4, <2>5, <2>6 DEF DeliveryInv
<1>10. CASE MarkDelivered
  <2> DEFINE h == Head(batch)
  <2>1. step = "sent" /\ UNCHANGED <<received, excuses>>
    BY <1>10 DEF MarkDelivered
  <2>2. /\ h \in Entries /\ h = batch[1] /\ 1 \in 1..Len(batch)
        /\ entry[h].status \in {"pending", "deleted"}
    BY <2>1, HeadIsUnsettled DEF DeliveryInv
  <2>3. \A e \in Entries : e # h => entry'[e] = entry[e]
    BY <1>10, <1>a, <2>2 DEF MarkDelivered, Mark
  <2>4. entry'[h].status \in {"delivered", "deleted"}
    BY <1>10, <1>a, <2>2 DEF MarkDelivered, Mark, Pending
  <2> QED
    BY <1>10, <2>1, <2>2, <2>3, <2>4, MarkLeavesDelivery DEF MarkDelivered
<1>11. CASE MarkAttempt
  <2> DEFINE h == Head(batch)
  <2>1. step = "refused" /\ UNCHANGED <<received, excuses>>
    BY <1>11 DEF MarkAttempt
  <2>2. /\ h \in Entries /\ h = batch[1] /\ 1 \in 1..Len(batch)
        /\ entry[h].status \in {"pending", "deleted"}
    BY <2>1, HeadIsUnsettled DEF DeliveryInv
  <2>3. \A e \in Entries : e # h => entry'[e] = entry[e]
    BY <1>11, <1>a, <2>2 DEF MarkAttempt, Mark, Retry
  <2>4. entry'[h].status \in {"failed", "pending", "deleted"}
    <3>1. CASE ~Pending(h)
      BY <1>11, <2>2, <3>1 DEF MarkAttempt, Mark, Retry, Pending
    <3>2. CASE Pending(h) /\ GivesUp(entry[h].attempts)
      <4>1. entry' = [entry EXCEPT ![h] = [status |-> "failed",
                                           attempts |-> entry[h].attempts + 1, due |-> 0]]
        BY <1>11, <3>2 DEF MarkAttempt, Mark
      <4> QED
        BY <1>a, <2>2, <4>1
    <3>3. CASE Pending(h) /\ ~GivesUp(entry[h].attempts)
      <4>1. PICK delay \in Delays(entry[h].attempts) :
                entry' = [entry EXCEPT ![h] = [status |-> "pending",
                                               attempts |-> entry[h].attempts + 1, due |-> delay]]
        BY <1>11, <3>3 DEF MarkAttempt, Mark, Retry
      <4> QED
        BY <1>a, <2>2, <4>1
    <3> QED
      BY <3>1, <3>2, <3>3
  <2> QED
    BY <1>11, <2>1, <2>2, <2>3, <2>4, MarkLeavesDelivery DEF MarkAttempt
<1>12. CASE MarkFails
  <2> DEFINE h == Head(batch)
  <2>1. /\ step \in {"sent", "refused"} /\ EndCycle /\ UNCHANGED <<entry, received>>
        /\ IF step = "sent" THEN excuses' = [excuses EXCEPT ![h] = @ + 1]
                            ELSE UNCHANGED excuses
    BY <1>12 DEF MarkFails, Unrecorded
  <2> QED
    BY <2>1, EndLeavesDelivery
<1>13. CASE Crash
  <2> DEFINE h == Head(batch)
  <2>1. step # "idle" /\ EndCycle /\ UNCHANGED entry
    BY <1>13 DEF Crash
  <2>2. CASE step = "sending" /\ Receive /\ Unrecorded
    BY <2>1, <2>2, EndLeavesDelivery DEF Receive, Unrecorded
  <2>3. CASE step = "sent" /\ Unrecorded /\ UNCHANGED received
    BY <2>1, <2>3, EndLeavesDelivery DEF Unrecorded
  <2>4. CASE step # "sent" /\ UNCHANGED <<received, excuses>>
    BY <2>1, <2>4, EndLeavesDelivery
  <2> QED
    BY <1>13, <2>2, <2>3, <2>4 DEF Crash
<1>14. CASE UNCHANGED vars
    BY <1>14 DEF vars, DeliveryInv, NoneTwice, NoneSettled, SentIsReceived, Accounted, Unmarked,
        MayBeSent, InBatch, Pending, DuplicatesExplained, DeliveredReceived
<1> QED
    BY <1>1, <1>2, <1>3, <1>4, <1>5, <1>6, <1>7, <1>8, <1>9, <1>10, <1>11, <1>12, <1>13, <1>14
    DEF Next, CycleStep

\* A notifier receives an entry once, and once more for each delivery that went
\* unrecorded; and nothing is marked delivered that was not received.
THEOREM DeliveriesCorrect == Spec => [](DuplicatesExplained /\ DeliveredReceived)
<1>1. DeliveryInv => DuplicatesExplained /\ DeliveredReceived
    BY DEF DeliveryInv
<1> QED
    BY <1>1, InitTypes, NextTypes, InitDelivery, NextDelivery, PTL DEF Spec

\* An entry that is delivered or given up is not sent again.
THEOREM SettledStaysSettled == Spec => SettledIsFinal
<1>1. ASSUME TypeOK, DeliveryInv, [Next]_vars
      PROVE  [\A e \in Entries : Settled(e) => received'[e] = received[e]]_vars
  <2>1. ASSUME NEW e \in Entries, Settled(e), step # "idle"
        PROVE  e # Head(batch)
    BY <1>1, <2>1, HeadIsUnsettled DEF DeliveryInv, Settled
  <2>2. UNCHANGED received \/ (step # "idle" /\ Receive)
    BY <1>1 DEF Next, vars, CycleStep, InsertEntry, Tick, Reload, Retention, BeginCycle, PrepareSend,
        SendSucceeds, SendRefused, AnswerLost, MarkDelivered, MarkAttempt, MarkFails, Crash, faults
  <2> QED
    BY <1>1, <2>1, <2>2 DEF Receive, TypeOK, OutboxTypeOK
<1> QED
    BY <1>1, InitTypes, NextTypes, InitDelivery, NextDelivery, PTL DEF Spec, SettledIsFinal
=============================================================================
