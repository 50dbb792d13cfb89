------------------------- MODULE OutboundQueueProofs -------------------------
(***************************************************************************)
(* Proofs about OutboundQueue, for every set of ids, either database, every *)
(* MAX_ATTEMPTS and every bound on retries and failures.                   *)
(***************************************************************************)
EXTENDS OutboundQueue, SequenceTheorems, TLAPS

-----------------------------------------------------------------------------
(* The due list *)

\* Taking an id out of a list of ids leaves a list of ids.
LEMMA WithoutType ==
  ASSUME NEW S, NEW s \in Seq(S), NEW id
  PROVE  Without(s, id) \in Seq(S)
<1>1. CASE \E i \in DOMAIN s : s[i] = id
  <2> DEFINE k == CHOOSE i \in DOMAIN s : s[i] = id
  <2>1. k \in 1 .. Len(s)
    BY <1>1, LenProperties
  <2> HIDE DEF k
  <2>2. Len(s) \in Nat /\ k \in Int /\ \A i \in 1 .. Len(s) : s[i] \in S
    BY <2>1, LenProperties, ElementOfSeq
  <2>a. SubSeq(s, 1, k - 1) \in Seq(S)
    <3>1. \A i \in 1 .. k - 1 : s[i] \in S
      BY <2>1, <2>2
    <3>2. QED
      BY <3>1, <2>2, SubSeqProperties
  <2>b. SubSeq(s, k + 1, Len(s)) \in Seq(S)
    <3>1. \A i \in k + 1 .. Len(s) : s[i] \in S
      BY <2>1, <2>2
    <3>2. QED
      BY <3>1, <2>2, SubSeqProperties
  <2>3. SubSeq(s, 1, k - 1) \o SubSeq(s, k + 1, Len(s)) \in Seq(S)
    BY <2>a, <2>b, ConcatProperties
  <2>4. QED
    BY <1>1, <2>3 DEF Without, RemoveAt, k
<1>2. CASE ~ \E i \in DOMAIN s : s[i] = id
  BY <1>2 DEF Without
<1>3. QED
  BY <1>1, <1>2

\* Rescheduling keeps the due list a list of ids.
LEMMA RescheduleType ==
  ASSUME due \in Seq(Ids), NEW id \in Ids, NEW delay, Reschedule(id, delay)
  PROVE  due' \in Seq(Ids)
<1>1. Without(due, id) \in Seq(Ids)
  BY WithoutType
<1>2. Append(Without(due, id), id) \in Seq(Ids)
  BY <1>1, AppendProperties
<1>3. QED
  BY <1>1, <1>2 DEF Reschedule

-----------------------------------------------------------------------------
(* Type correctness *)

\* Changing the status of a row keeps it a row.
LEMMA StatusUpdate ==
  ASSUME NEW T \in [Ids -> Row], NEW id, NEW st \in QueueStatus \cup {"unborn", "deleted"}
  PROVE  [T EXCEPT ![id].status = st] \in [Ids -> Row]
BY DEF Row

LEMMA TypeInit == Init => TypeOK
BY AttemptsAssumption DEF Init, TypeOK, Row, PC, InFlight, Ids, QueueStatus

\* Every step keeps every variable in its type.
LEMMA TypeNext == TypeOK /\ [Next]_vars => TypeOK'
<1> SUFFICES ASSUME TypeOK, [Next]_vars PROVE TypeOK'
  OBVIOUS
<1> USE IdsAssumption
    DEF TypeOK, PC, InFlight, QueueStatus, InTable, Drop, vars, table, worker, history, trouble
<1>b. backend' = backend
  BY DEF Next
<1>1. CASE Wake
  BY <1>1, <1>b DEF Wake
<1>2. CASE PopNone
  BY <1>2, <1>b DEF PopNone
<1>3. CASE PopUpdate
  <2>1. tbl' \in [Ids -> Row]
    BY <1>3, <1>b, StatusUpdate DEF PopUpdate, Claimed
  <2>2. QED
    BY <1>3, <1>b, <2>1 DEF PopUpdate
<1>4. CASE PoisonPill
  BY <1>4, <1>b DEF PoisonPill
<1>5. CASE SendOk
  BY <1>5, <1>b DEF SendOk
<1>6. CASE SendErr
  BY <1>6, <1>b DEF SendErr
<1>7. CASE Ack
  <2>1. tbl' \in [Ids -> Row]
    BY <1>7, <1>b, StatusUpdate DEF Ack
  <2>2. due' \in Seq(Ids)
    BY <1>7, <1>b, WithoutType DEF Ack
  <2>3. QED
    BY <1>7, <1>b, <2>1, <2>2 DEF Ack
<1>8. CASE NackRead
  <2>1. held \in Ids /\ tbl[held].attempts \in Nat /\ tbl[held].log \in Nat
    BY <1>8, <1>b DEF NackRead, Row
  <2>2. read' \in [attempts : Nat, log : Nat]
    BY <1>8, <1>b, <2>1 DEF NackRead
  <2>3. pc' = "record" /\ held' = held
    BY <1>8, <1>b DEF NackRead
  <2>4. QED
    BY <1>8, <1>b, <2>1, <2>2, <2>3 DEF NackRead
<1>9. CASE NackWrite
  <2>1. held \in Ids
    BY <1>9, <1>b DEF NackWrite
  <2>2. NackRow \in Row
    BY DEF NackRow, Row, retry_delay_secs
  <2>3. tbl' \in [Ids -> Row]
    BY <1>9, <1>b, <2>1, <2>2 DEF NackWrite
  <2>4. due' \in Seq(Ids)
    BY <1>9, <1>b, <2>1, RescheduleType DEF NackWrite
  <2>5. QED
    BY <1>9, <1>b, <2>3, <2>4 DEF NackWrite
<1>10. CASE PopFails
  <2>1. tbl' = tbl \/ \E id : tbl' = Claimed(id)
    BY <1>10, <1>b DEF PopFails
  <2>a. tbl' \in [Ids -> Row]
    <3>1. ASSUME NEW id, tbl' = Claimed(id) PROVE tbl' \in [Ids -> Row]
      BY <3>1, StatusUpdate DEF Claimed
    <3>2. QED
      BY <2>1, <3>1
  <2>2. /\ pc' = "sleep" /\ held' = NoId /\ faults' \in Nat
        /\ snap' \in Nat /\ read' \in [attempts : Nat, log : Nat]
        /\ UNCHANGED <<due, flush, clean, fails, forced, stops>>
    BY <1>10, <1>b DEF PopFails, Fault
  <2>3. QED
    BY <1>b, <2>a, <2>2
<1>11. CASE AckOrNackFails
  BY <1>11, <1>b DEF AckOrNackFails, Fault
<1>12. CASE Stop
  BY <1>12, <1>b DEF Stop
<1>13. CASE Start
  BY <1>13, <1>b DEF Start
<1>14. CASE FlushList
  BY <1>14, <1>b DEF FlushList
<1>15. ASSUME NEW id \in Ids, Pop(id) PROVE TypeOK'
  <2>1. tbl' \in [Ids -> Row]
    BY <1>15, <1>b, StatusUpdate DEF Pop, Claimed
  <2>2. QED
    BY <1>15, <1>b, <2>1 DEF Pop
<1>16. ASSUME NEW id \in Ids, PopSelect(id) PROVE TypeOK'
  <2>1. snap' \in Nat /\ held' \in Ids /\ held' # NoId
    BY <1>16, <1>b DEF PopSelect, Row
  <2>2. QED
    BY <1>16, <1>b, <2>1 DEF PopSelect
<1>17. ASSUME NEW id \in Ids, push(id) PROVE TypeOK'
  BY <1>17, <1>b, StatusUpdate, AppendProperties DEF push
<1>18. ASSUME NEW id \in Ids, push_local(id) PROVE TypeOK'
  BY <1>18, <1>b, StatusUpdate DEF push_local
<1>19. ASSUME NEW id \in Ids, force_retry(id)
       PROVE  tbl' \in [Ids -> Row] /\ due' \in Seq(Ids) /\ forced' \in [Ids -> Nat]
  <2> DEFINE fresh == [status |-> "pending", attempts |-> 0, log |-> tbl[id].log, delay |-> 0]
  <2>a. fresh \in Row
    BY DEF Row
  <2>b. tbl' = [tbl EXCEPT ![id] = fresh]
    BY <1>19, <1>b DEF force_retry
  <2>1. tbl' \in [Ids -> Row]
    BY <2>a, <2>b
  <2>2. due' \in Seq(Ids)
    BY <1>19, <1>b, RescheduleType DEF force_retry
  <2>3. QED
    BY <1>19, <1>b, <2>1, <2>2 DEF force_retry
<1>20. ASSUME NEW id \in Ids, Retry(id) PROVE TypeOK'
  BY <1>19, <1>20, <1>b DEF Retry
<1>21. ASSUME NEW id \in Ids, FlushOne(id) PROVE TypeOK'
  <2>1. tbl' \in [Ids -> Row] /\ due' \in Seq(Ids) /\ forced' \in [Ids -> Nat]
    BY <1>19, <1>b, <1>21 DEF FlushOne
  <2>2. QED
    BY <1>21, <1>b, <2>1 DEF FlushOne
<1>22. ASSUME NEW id \in Ids, Abandon(id) PROVE TypeOK'
  BY <1>22, <1>b, StatusUpdate DEF Abandon
<1>23. ASSUME NEW id \in Ids, TimePasses(id) PROVE TypeOK'
  BY <1>23, <1>b, AppendProperties DEF TimePasses
<1>24. CASE UNCHANGED vars
  BY <1>24
<1>25. QED
  BY <1>1, <1>b, <1>2, <1>3, <1>4, <1>5, <1>6, <1>7, <1>8, <1>9, <1>10, <1>11, <1>12, <1>13, <1>14,
     <1>15, <1>16, <1>17, <1>18, <1>20, <1>21, <1>22, <1>23, <1>24
  DEF Next, OwnStep, SendStep, SessionStep, FailureStep, OperatorStep, ClockStep

\* Every variable of the queue keeps its type, and the worker holds an entry
\* exactly between pop and ack or nack, whatever fails and whatever the
\* operator does.
THEOREM TypeCorrect == Spec => []TypeOK
<1>1. QED
  BY TypeInit, TypeNext, PTL DEF Spec

-----------------------------------------------------------------------------
(* The inductive invariant *)

\* The table after the status of one row was set.
LEMMA StatusFrame ==
  ASSUME NEW T \in [Ids -> Row], NEW id \in Ids, NEW st, NEW U,
         U = [T EXCEPT ![id].status = st]
  PROVE  \A j \in Ids : /\ U[j].attempts = T[j].attempts
                        /\ U[j].log = T[j].log
                        /\ U[j].status = IF j = id THEN st ELSE T[j].status
BY DEF Row

LEMMA IInvInit == Init => IInv
BY TypeInit, AttemptsAssumption, IdsAssumption
DEF Init, IInv, HeldHasRow, Credit, Attempts, NoSilentLoss, ReadIsCurrent, AuditForced,
    DeliveringIsHeld, LogCounts, Unborn, InFlight, Left, Ids

\* The invariant without its typing.
Rest == /\ HeldHasRow /\ Credit /\ Attempts /\ NoSilentLoss /\ ReadIsCurrent
        /\ AuditForced /\ DeliveringIsHeld /\ LogCounts /\ Unborn

\* No step breaks the invariant: one step of the proof for each action, and
\* under it one for each conjunct.
LEMMA RestNext == TypeOK /\ Rest /\ [Next]_vars => Rest'
<1> SUFFICES ASSUME TypeOK, Rest, [Next]_vars PROVE Rest'
  OBVIOUS
<1> USE IdsAssumption, AttemptsAssumption
    DEF Ids, InFlight, InTable, QueueStatus, Undisturbed, Left, Drop, CanInsert, table, worker, history, trouble
<1>r. \A j \in Ids :
        /\ tbl[j].attempts \in Nat /\ tbl[j].log \in Nat
        /\ tbl[j].status \in QueueStatus \cup {"unborn", "deleted"}
        /\ clean[j] \in Nat /\ fails[j] \in Nat /\ forced[j] \in Nat
  BY DEF TypeOK, Row
<1>t. /\ held \in Ids \cup {NoId} /\ InFlight <=> held # NoId
      /\ snap \in Nat /\ read.attempts \in Nat /\ read.log \in Nat
      /\ tbl \in [Ids -> Row]
      /\ clean \in [Ids -> Nat] /\ fails \in [Ids -> Nat] /\ forced \in [Ids -> Nat]
      /\ faults \in Nat /\ stops \in Nat
  BY DEF TypeOK
<1>b. backend' = backend
  BY DEF Next, vars
<1>1. CASE Wake
  BY <1>1, <1>b, <1>r, <1>t DEF Wake, Rest, HeldHasRow, Credit, Attempts, NoSilentLoss, ReadIsCurrent, AuditForced, DeliveringIsHeld, LogCounts, Unborn
<1>2. CASE PopNone
  BY <1>2, <1>b, <1>r, <1>t DEF PopNone, Rest, HeldHasRow, Credit, Attempts, NoSilentLoss, ReadIsCurrent, AuditForced, DeliveringIsHeld, LogCounts, Unborn
<1>3. CASE PoisonPill
  BY <1>3, <1>b, <1>r, <1>t DEF PoisonPill, Rest, HeldHasRow, Credit, Attempts, NoSilentLoss, ReadIsCurrent, AuditForced, DeliveringIsHeld, LogCounts, Unborn
<1>4. CASE SendOk
  <2>1. \A j \in Ids : clean'[j] = IF j = held THEN clean[j] + 1 ELSE clean[j]
    BY <1>4, <1>b, <1>r, <1>t DEF SendOk
  <2>2. tbl' = tbl /\ forced' = forced /\ held' = held /\ pc = "deliver" /\ pc' = "ack" /\ held \in Ids
    BY <1>4, <1>b, <1>r, <1>t DEF SendOk
  <2>3. HeldHasRow'
    BY <1>4, <1>b, <1>r, <1>t, <2>1, <2>2 DEF SendOk, Rest, HeldHasRow
  <2>4. Credit'
    BY <1>4, <1>b, <1>r, <1>t, <2>1, <2>2 DEF SendOk, Rest, Credit, HeldHasRow
  <2>5. Attempts'
    BY <1>4, <1>b, <1>r, <1>t, <2>1, <2>2 DEF SendOk, Rest, Attempts, HeldHasRow
  <2>6. NoSilentLoss'
    BY <1>4, <1>b, <1>r, <1>t, <2>1, <2>2 DEF SendOk, Rest, NoSilentLoss, Attempts
  <2>7. ReadIsCurrent'
    BY <1>4, <1>b, <1>r, <1>t, <2>1, <2>2 DEF SendOk, Rest, ReadIsCurrent, HeldHasRow
  <2>8. AuditForced'
    BY <1>4, <1>b, <1>r, <1>t, <2>1, <2>2 DEF SendOk, Rest, AuditForced, HeldHasRow
  <2>9. DeliveringIsHeld'
    BY <1>4, <1>b, <1>r, <1>t, <2>1, <2>2 DEF SendOk, Rest, DeliveringIsHeld
  <2>10. LogCounts'
    BY <1>4, <1>b, <1>r, <1>t, <2>1, <2>2 DEF SendOk, Rest, LogCounts, HeldHasRow, ReadIsCurrent
  <2>11. Unborn'
    BY <1>4, <1>b, <1>r, <1>t, <2>1, <2>2 DEF SendOk, Rest, Unborn, HeldHasRow
  <2>12. QED
    BY <2>3, <2>4, <2>5, <2>6, <2>7, <2>8, <2>9, <2>10, <2>11 DEF Rest
<1>5. CASE SendErr
  <2>1. HeldHasRow'
    BY <1>5, <1>b, <1>r, <1>t DEF SendErr, Rest, HeldHasRow, GivesUp
  <2>2. Credit'
    BY <1>5, <1>b, <1>r, <1>t DEF SendErr, Rest, Credit, HeldHasRow, GivesUp
  <2>3. Attempts'
    BY <1>5, <1>b, <1>r, <1>t DEF SendErr, Rest, Attempts, HeldHasRow, GivesUp
  <2>4. NoSilentLoss'
    BY <1>5, <1>b, <1>r, <1>t DEF SendErr, Rest, NoSilentLoss, Attempts, GivesUp
  <2>5. ReadIsCurrent'
    BY <1>5, <1>b, <1>r, <1>t DEF SendErr, Rest, ReadIsCurrent, HeldHasRow, GivesUp
  <2>6. AuditForced'
    BY <1>5, <1>b, <1>r, <1>t DEF SendErr, Rest, AuditForced, HeldHasRow
  <2>7. DeliveringIsHeld'
    BY <1>5, <1>b, <1>r, <1>t DEF SendErr, Rest, DeliveringIsHeld
  <2>8. LogCounts'
    BY <1>5, <1>b, <1>r, <1>t DEF SendErr, Rest, LogCounts, HeldHasRow, ReadIsCurrent, GivesUp
  <2>9. Unborn'
    BY <1>5, <1>b, <1>r, <1>t DEF SendErr, Rest, Unborn, HeldHasRow, GivesUp
  <2>10. QED
    BY <2>1, <2>2, <2>3, <2>4, <2>5, <2>6, <2>7, <2>8, <2>9 DEF Rest
<1>6. CASE NackRead
  <2>1. HeldHasRow'
    BY <1>6, <1>b, <1>r, <1>t DEF NackRead, Rest, HeldHasRow
  <2>2. Credit'
    BY <1>6, <1>b, <1>r, <1>t DEF NackRead, Rest, Credit, HeldHasRow
  <2>3. Attempts'
    BY <1>6, <1>b, <1>r, <1>t DEF NackRead, Rest, Attempts, HeldHasRow
  <2>4. NoSilentLoss'
    BY <1>6, <1>b, <1>r, <1>t DEF NackRead, Rest, NoSilentLoss, Attempts
  <2>5. ReadIsCurrent'
    BY <1>6, <1>b, <1>r, <1>t DEF NackRead, Rest, ReadIsCurrent, HeldHasRow
  <2>6. AuditForced'
    BY <1>6, <1>b, <1>r, <1>t DEF NackRead, Rest, AuditForced, HeldHasRow
  <2>7. DeliveringIsHeld'
    BY <1>6, <1>b, <1>r, <1>t DEF NackRead, Rest, DeliveringIsHeld
  <2>8. LogCounts'
    BY <1>6, <1>b, <1>r, <1>t DEF NackRead, Rest, LogCounts, HeldHasRow, ReadIsCurrent
  <2>9. Unborn'
    BY <1>6, <1>b, <1>r, <1>t DEF NackRead, Rest, Unborn, HeldHasRow
  <2>10. QED
    BY <2>1, <2>2, <2>3, <2>4, <2>5, <2>6, <2>7, <2>8, <2>9 DEF Rest
<1>7. CASE AckOrNackFails
  BY <1>7, <1>b, <1>r, <1>t DEF AckOrNackFails, Fault, Rest, HeldHasRow, Credit, Attempts, NoSilentLoss, ReadIsCurrent, AuditForced, DeliveringIsHeld, LogCounts, Unborn
<1>8. CASE Stop
  BY <1>8, <1>b, <1>r, <1>t DEF Stop, Rest, HeldHasRow, Credit, Attempts, NoSilentLoss, ReadIsCurrent, AuditForced, DeliveringIsHeld, LogCounts, Unborn
<1>9. CASE Start
  BY <1>9, <1>b, <1>r, <1>t DEF Start, Rest, HeldHasRow, Credit, Attempts, NoSilentLoss, ReadIsCurrent, AuditForced, DeliveringIsHeld, LogCounts, Unborn
<1>10. CASE FlushList
  BY <1>10, <1>b, <1>r, <1>t DEF FlushList, Rest, HeldHasRow, Credit, Attempts, NoSilentLoss, ReadIsCurrent, AuditForced, DeliveringIsHeld, LogCounts, Unborn
<1>11. ASSUME NEW id \in Ids, TimePasses(id) PROVE Rest'
  BY <1>11, <1>b, <1>r, <1>t DEF TimePasses, Rest, HeldHasRow, Credit, Attempts, NoSilentLoss, ReadIsCurrent, AuditForced, DeliveringIsHeld, LogCounts, Unborn
<1>12. CASE PopUpdate
  <2>1. \A j \in Ids : /\ tbl'[j].attempts = tbl[j].attempts /\ tbl'[j].log = tbl[j].log
                     /\ tbl'[j].status = IF j = held THEN "delivering" ELSE tbl[j].status
    BY <1>12, <1>b, <1>r, <1>t, StatusFrame DEF PopUpdate, Claimed, Rest, HeldHasRow
  <2>2. HeldHasRow'
    BY <1>12, <1>b, <1>r, <1>t, <2>1 DEF PopUpdate, Rest, HeldHasRow
  <2>3. Credit'
    BY <1>12, <1>b, <1>r, <1>t, <2>1 DEF PopUpdate, Rest, Credit, HeldHasRow
  <2>4. Attempts'
    BY <1>12, <1>b, <1>r, <1>t, <2>1 DEF PopUpdate, Rest, Attempts, HeldHasRow
  <2>5. NoSilentLoss'
    BY <1>12, <1>b, <1>r, <1>t, <2>1 DEF PopUpdate, Rest, NoSilentLoss, Attempts
  <2>6. ReadIsCurrent'
    BY <1>12, <1>b, <1>r, <1>t, <2>1 DEF PopUpdate, Rest, ReadIsCurrent, HeldHasRow
  <2>7. AuditForced'
    BY <1>12, <1>b, <1>r, <1>t, <2>1 DEF PopUpdate, Rest, AuditForced, HeldHasRow
  <2>8. DeliveringIsHeld'
    BY <1>12, <1>b, <1>r, <1>t, <2>1 DEF PopUpdate, Rest, DeliveringIsHeld
  <2>9. LogCounts'
    BY <1>12, <1>b, <1>r, <1>t, <2>1 DEF PopUpdate, Rest, LogCounts, HeldHasRow, ReadIsCurrent
  <2>10. Unborn'
    BY <1>12, <1>b, <1>r, <1>t, <2>1 DEF PopUpdate, Rest, Unborn, HeldHasRow
  <2>11. QED
    BY <2>2, <2>3, <2>4, <2>5, <2>6, <2>7, <2>8, <2>9, <2>10 DEF Rest
<1>13. CASE Ack
  <2>1. \A j \in Ids : /\ tbl'[j].attempts = tbl[j].attempts /\ tbl'[j].log = tbl[j].log
                     /\ tbl'[j].status = IF j = held THEN "deleted" ELSE tbl[j].status
    BY <1>13, <1>b, <1>r, <1>t, StatusFrame DEF Ack, Rest, HeldHasRow
  <2>2. HeldHasRow'
    BY <1>13, <1>b, <1>r, <1>t, <2>1 DEF Ack, Rest, HeldHasRow
  <2>3. Credit'
    BY <1>13, <1>b, <1>r, <1>t, <2>1 DEF Ack, Rest, Credit, HeldHasRow
  <2>4. Attempts'
    BY <1>13, <1>b, <1>r, <1>t, <2>1 DEF Ack, Rest, Attempts, HeldHasRow
  <2>5. NoSilentLoss'
    BY <1>13, <1>b, <1>r, <1>t, <2>1 DEF Ack, Rest, NoSilentLoss, Attempts
  <2>6. ReadIsCurrent'
    BY <1>13, <1>b, <1>r, <1>t, <2>1 DEF Ack, Rest, ReadIsCurrent, HeldHasRow
  <2>7. AuditForced'
    BY <1>13, <1>b, <1>r, <1>t, <2>1 DEF Ack, Rest, AuditForced, HeldHasRow
  <2>8. DeliveringIsHeld'
    BY <1>13, <1>b, <1>r, <1>t, <2>1 DEF Ack, Rest, DeliveringIsHeld
  <2>9. LogCounts'
    BY <1>13, <1>b, <1>r, <1>t, <2>1 DEF Ack, Rest, LogCounts, HeldHasRow, ReadIsCurrent
  <2>10. Unborn'
    BY <1>13, <1>b, <1>r, <1>t, <2>1 DEF Ack, Rest, Unborn, HeldHasRow
  <2>11. QED
    BY <2>2, <2>3, <2>4, <2>5, <2>6, <2>7, <2>8, <2>9, <2>10 DEF Rest
<1>14. ASSUME NEW id \in Ids, Pop(id) PROVE Rest'
  <2>1. \A j \in Ids : /\ tbl'[j].attempts = tbl[j].attempts /\ tbl'[j].log = tbl[j].log
                     /\ tbl'[j].status = IF j = id THEN "delivering" ELSE tbl[j].status
    BY <1>14, <1>b, <1>r, <1>t, StatusFrame DEF Pop, Claimed
  <2>2. Eligible(id) /\ tbl[id].status \in {"pending", "failed"}
    BY <1>14, <1>b, <1>r, <1>t DEF Pop, FirstDue, Eligible
  <2>3. HeldHasRow'
    BY <1>14, <1>b, <1>r, <1>t, <2>1, <2>2 DEF Pop, Rest, HeldHasRow
  <2>4. Credit'
    BY <1>14, <1>b, <1>r, <1>t, <2>1, <2>2 DEF Pop, Rest, Credit, HeldHasRow
  <2>5. Attempts'
    BY <1>14, <1>b, <1>r, <1>t, <2>1, <2>2 DEF Pop, Rest, Attempts, HeldHasRow
  <2>6. NoSilentLoss'
    BY <1>14, <1>b, <1>r, <1>t, <2>1, <2>2 DEF Pop, Rest, NoSilentLoss, Attempts
  <2>7. ReadIsCurrent'
    BY <1>14, <1>b, <1>r, <1>t, <2>1, <2>2 DEF Pop, Rest, ReadIsCurrent, HeldHasRow
  <2>8. AuditForced'
    BY <1>14, <1>b, <1>r, <1>t, <2>1, <2>2 DEF Pop, Rest, AuditForced, HeldHasRow
  <2>9. DeliveringIsHeld'
    BY <1>14, <1>b, <1>r, <1>t, <2>1, <2>2 DEF Pop, Rest, DeliveringIsHeld
  <2>10. LogCounts'
    BY <1>14, <1>b, <1>r, <1>t, <2>1, <2>2 DEF Pop, Rest, LogCounts, HeldHasRow, ReadIsCurrent
  <2>11. Unborn'
    BY <1>14, <1>b, <1>r, <1>t, <2>1, <2>2 DEF Pop, Rest, Unborn, HeldHasRow
  <2>12. QED
    BY <2>3, <2>4, <2>5, <2>6, <2>7, <2>8, <2>9, <2>10, <2>11 DEF Rest
<1>15. ASSUME NEW id \in Ids, PopSelect(id) PROVE Rest'
  <2>1. Eligible(id) /\ tbl[id].status \in {"pending", "failed"}
    BY <1>15, <1>b, <1>r, <1>t DEF PopSelect, FirstDue, Eligible
  <2>2. HeldHasRow'
    BY <1>15, <1>b, <1>r, <1>t, <2>1 DEF PopSelect, Rest, HeldHasRow
  <2>3. Credit'
    BY <1>15, <1>b, <1>r, <1>t, <2>1 DEF PopSelect, Rest, Credit, HeldHasRow
  <2>4. Attempts'
    BY <1>15, <1>b, <1>r, <1>t, <2>1 DEF PopSelect, Rest, Attempts, HeldHasRow
  <2>5. NoSilentLoss'
    BY <1>15, <1>b, <1>r, <1>t, <2>1 DEF PopSelect, Rest, NoSilentLoss, Attempts
  <2>6. ReadIsCurrent'
    BY <1>15, <1>b, <1>r, <1>t, <2>1 DEF PopSelect, Rest, ReadIsCurrent, HeldHasRow
  <2>7. AuditForced'
    BY <1>15, <1>b, <1>r, <1>t, <2>1 DEF PopSelect, Rest, AuditForced, HeldHasRow
  <2>8. DeliveringIsHeld'
    BY <1>15, <1>b, <1>r, <1>t, <2>1 DEF PopSelect, Rest, DeliveringIsHeld
  <2>9. LogCounts'
    BY <1>15, <1>b, <1>r, <1>t, <2>1 DEF PopSelect, Rest, LogCounts, HeldHasRow, ReadIsCurrent
  <2>10. Unborn'
    BY <1>15, <1>b, <1>r, <1>t, <2>1 DEF PopSelect, Rest, Unborn, HeldHasRow
  <2>11. QED
    BY <2>2, <2>3, <2>4, <2>5, <2>6, <2>7, <2>8, <2>9, <2>10 DEF Rest
<1>16. ASSUME NEW id \in Ids, push(id) PROVE Rest'
  <2>1. \A j \in Ids : /\ tbl'[j].attempts = tbl[j].attempts /\ tbl'[j].log = tbl[j].log
                     /\ tbl'[j].status = IF j = id THEN "pending" ELSE tbl[j].status
    BY <1>16, <1>b, <1>r, <1>t, StatusFrame DEF push
  <2>2. HeldHasRow'
    BY <1>16, <1>b, <1>r, <1>t, <2>1 DEF push, Rest, HeldHasRow
  <2>3. Credit'
    BY <1>16, <1>b, <1>r, <1>t, <2>1 DEF push, Rest, Credit, HeldHasRow
  <2>4. Attempts'
    BY <1>16, <1>b, <1>r, <1>t, <2>1 DEF push, Rest, Attempts, HeldHasRow
  <2>5. NoSilentLoss'
    BY <1>16, <1>b, <1>r, <1>t, <2>1 DEF push, Rest, NoSilentLoss, Attempts
  <2>6. ReadIsCurrent'
    BY <1>16, <1>b, <1>r, <1>t, <2>1 DEF push, Rest, ReadIsCurrent, HeldHasRow
  <2>7. AuditForced'
    BY <1>16, <1>b, <1>r, <1>t, <2>1 DEF push, Rest, AuditForced, HeldHasRow
  <2>8. DeliveringIsHeld'
    BY <1>16, <1>b, <1>r, <1>t, <2>1 DEF push, Rest, DeliveringIsHeld
  <2>9. LogCounts'
    BY <1>16, <1>b, <1>r, <1>t, <2>1 DEF push, Rest, LogCounts, HeldHasRow, ReadIsCurrent
  <2>10. Unborn'
    BY <1>16, <1>b, <1>r, <1>t, <2>1 DEF push, Rest, Unborn, HeldHasRow
  <2>11. QED
    BY <2>2, <2>3, <2>4, <2>5, <2>6, <2>7, <2>8, <2>9, <2>10 DEF Rest
<1>17. ASSUME NEW id \in Ids, push_local(id) PROVE Rest'
  <2>1. \A j \in Ids : /\ tbl'[j].attempts = tbl[j].attempts /\ tbl'[j].log = tbl[j].log
                     /\ tbl'[j].status = IF j = id THEN "delivered" ELSE tbl[j].status
    BY <1>17, <1>b, <1>r, <1>t, StatusFrame DEF push_local
  <2>2. HeldHasRow'
    BY <1>17, <1>b, <1>r, <1>t, <2>1 DEF push_local, Rest, HeldHasRow
  <2>3. Credit'
    BY <1>17, <1>b, <1>r, <1>t, <2>1 DEF push_local, Rest, Credit, HeldHasRow
  <2>4. Attempts'
    BY <1>17, <1>b, <1>r, <1>t, <2>1 DEF push_local, Rest, Attempts, HeldHasRow
  <2>5. NoSilentLoss'
    BY <1>17, <1>b, <1>r, <1>t, <2>1 DEF push_local, Rest, NoSilentLoss, Attempts
  <2>6. ReadIsCurrent'
    BY <1>17, <1>b, <1>r, <1>t, <2>1 DEF push_local, Rest, ReadIsCurrent, HeldHasRow
  <2>7. AuditForced'
    BY <1>17, <1>b, <1>r, <1>t, <2>1 DEF push_local, Rest, AuditForced, HeldHasRow
  <2>8. DeliveringIsHeld'
    BY <1>17, <1>b, <1>r, <1>t, <2>1 DEF push_local, Rest, DeliveringIsHeld
  <2>9. LogCounts'
    BY <1>17, <1>b, <1>r, <1>t, <2>1 DEF push_local, Rest, LogCounts, HeldHasRow, ReadIsCurrent
  <2>10. Unborn'
    BY <1>17, <1>b, <1>r, <1>t, <2>1 DEF push_local, Rest, Unborn, HeldHasRow
  <2>11. QED
    BY <2>2, <2>3, <2>4, <2>5, <2>6, <2>7, <2>8, <2>9, <2>10 DEF Rest
<1>18. ASSUME NEW id \in Ids, Abandon(id) PROVE Rest'
  <2>1. \A j \in Ids : /\ tbl'[j].attempts = tbl[j].attempts /\ tbl'[j].log = tbl[j].log
                     /\ tbl'[j].status = IF j = id THEN "abandoned" ELSE tbl[j].status
    BY <1>18, <1>b, <1>r, <1>t, StatusFrame DEF Abandon
  <2>2. HeldHasRow'
    BY <1>18, <1>b, <1>r, <1>t, <2>1 DEF Abandon, Rest, HeldHasRow
  <2>3. Credit'
    BY <1>18, <1>b, <1>r, <1>t, <2>1 DEF Abandon, Rest, Credit, HeldHasRow
  <2>4. Attempts'
    BY <1>18, <1>b, <1>r, <1>t, <2>1 DEF Abandon, Rest, Attempts, HeldHasRow
  <2>5. NoSilentLoss'
    BY <1>18, <1>b, <1>r, <1>t, <2>1 DEF Abandon, Rest, NoSilentLoss, Attempts
  <2>6. ReadIsCurrent'
    BY <1>18, <1>b, <1>r, <1>t, <2>1 DEF Abandon, Rest, ReadIsCurrent, HeldHasRow
  <2>7. AuditForced'
    BY <1>18, <1>b, <1>r, <1>t, <2>1 DEF Abandon, Rest, AuditForced, HeldHasRow
  <2>8. DeliveringIsHeld'
    BY <1>18, <1>b, <1>r, <1>t, <2>1 DEF Abandon, Rest, DeliveringIsHeld
  <2>9. LogCounts'
    BY <1>18, <1>b, <1>r, <1>t, <2>1 DEF Abandon, Rest, LogCounts, HeldHasRow, ReadIsCurrent
  <2>10. Unborn'
    BY <1>18, <1>b, <1>r, <1>t, <2>1 DEF Abandon, Rest, Unborn, HeldHasRow
  <2>11. QED
    BY <2>2, <2>3, <2>4, <2>5, <2>6, <2>7, <2>8, <2>9, <2>10 DEF Rest
<1>19. ASSUME NEW id \in Ids, force_retry(id), UNCHANGED <<worker, clean, fails, trouble>>
      PROVE  Rest'
  <2>1. /\ tbl'[id].status = "pending" /\ tbl'[id].attempts = 0 /\ tbl'[id].log = tbl[id].log
        /\ \A j \in Ids : j # id => tbl'[j] = tbl[j]
    BY <1>19, <1>b, <1>r, <1>t DEF force_retry
  <2>2. forced' = [forced EXCEPT ![id] = @ + 1] /\ InTable(id)
    BY <1>19 DEF force_retry
  <2>3. HeldHasRow'
    BY <1>19, <1>b, <1>r, <1>t, <2>1, <2>2 DEF Rest, HeldHasRow
  <2>4. Credit'
    BY <1>19, <1>b, <1>r, <1>t, <2>1, <2>2 DEF Rest, Credit, HeldHasRow
  <2>5. Attempts'
    BY <1>19, <1>b, <1>r, <1>t, <2>1, <2>2 DEF Rest, Attempts, HeldHasRow
  <2>6. NoSilentLoss'
    BY <1>19, <1>b, <1>r, <1>t, <2>1, <2>2 DEF Rest, NoSilentLoss, Attempts
  <2>7. ReadIsCurrent'
    BY <1>19, <1>b, <1>r, <1>t, <2>1, <2>2 DEF Rest, ReadIsCurrent, HeldHasRow
  <2>8. AuditForced'
    BY <1>19, <1>b, <1>r, <1>t, <2>1, <2>2 DEF Rest, AuditForced, HeldHasRow
  <2>9. DeliveringIsHeld'
    BY <1>19, <1>b, <1>r, <1>t, <2>1, <2>2 DEF Rest, DeliveringIsHeld
  <2>10. LogCounts'
    BY <1>19, <1>b, <1>r, <1>t, <2>1, <2>2 DEF Rest, LogCounts, HeldHasRow, ReadIsCurrent
  <2>11. Unborn'
    BY <1>19, <1>b, <1>r, <1>t, <2>1, <2>2 DEF Rest, Unborn, HeldHasRow
  <2>12. QED
    BY <2>3, <2>4, <2>5, <2>6, <2>7, <2>8, <2>9, <2>10, <2>11 DEF Rest
<1>20. ASSUME NEW id \in Ids, Retry(id) PROVE Rest'
  BY <1>19, <1>20 DEF Retry
<1>21. ASSUME NEW id \in Ids, FlushOne(id) PROVE Rest'
  <2>1. CASE force_retry(id)
    BY <1>19, <1>21, <2>1 DEF FlushOne
  <2>2. CASE UNCHANGED <<table, forced>>
    BY <1>b, <1>21, <2>2 DEF FlushOne, Rest, HeldHasRow, Credit, Attempts, NoSilentLoss, ReadIsCurrent, AuditForced, DeliveringIsHeld, LogCounts, Unborn
  <2>3. QED
    BY <1>21, <2>1, <2>2 DEF FlushOne
<1>22. CASE NackWrite
  <2>1. held \in Ids /\ InTable(held)
    BY <1>22, <1>b, <1>r, <1>t DEF NackWrite, Rest, HeldHasRow
  <2>2. /\ tbl'[held].attempts = read.attempts + 1 /\ tbl'[held].log = read.log + 1
        /\ tbl'[held].status = "failed"
        /\ \A j \in Ids : j # held => tbl'[j] = tbl[j]
    BY <1>22, <1>b, <1>r, <1>t, <2>1 DEF NackWrite, NackRow, Rest, Attempts
  <2>3. HeldHasRow'
    BY <1>22, <1>b, <1>r, <1>t, <2>1, <2>2 DEF NackWrite, Rest, HeldHasRow
  <2>4. Credit'
    BY <1>22, <1>b, <1>r, <1>t, <2>1, <2>2 DEF NackWrite, Rest, Credit, HeldHasRow
  <2>5. Attempts'
    BY <1>22, <1>b, <1>r, <1>t, <2>1, <2>2 DEF NackWrite, Rest, Attempts, HeldHasRow
  <2>6. NoSilentLoss'
    BY <1>22, <1>b, <1>r, <1>t, <2>1, <2>2 DEF NackWrite, Rest, NoSilentLoss, Attempts
  <2>7. ReadIsCurrent'
    BY <1>22, <1>b, <1>r, <1>t, <2>1, <2>2 DEF NackWrite, Rest, ReadIsCurrent, HeldHasRow
  <2>8. AuditForced'
    BY <1>22, <1>b, <1>r, <1>t, <2>1, <2>2 DEF NackWrite, Rest, AuditForced, HeldHasRow
  <2>9. DeliveringIsHeld'
    BY <1>22, <1>b, <1>r, <1>t, <2>1, <2>2 DEF NackWrite, Rest, DeliveringIsHeld
  <2>10. LogCounts'
    BY <1>22, <1>b, <1>r, <1>t, <2>1, <2>2 DEF NackWrite, Rest, LogCounts, HeldHasRow, ReadIsCurrent
  <2>11. Unborn'
    BY <1>22, <1>b, <1>r, <1>t, <2>1, <2>2 DEF NackWrite, Rest, Unborn, HeldHasRow
  <2>12. QED
    BY <2>3, <2>4, <2>5, <2>6, <2>7, <2>8, <2>9, <2>10, <2>11 DEF Rest
<1>23. CASE PopFails
  <2>1. /\ pc' = "sleep" /\ held' = NoId /\ faults' = faults + 1
        /\ snap' = 0 /\ read' = [attempts |-> 0, log |-> 0]
        /\ UNCHANGED <<clean, fails, forced>>
    BY <1>23 DEF PopFails, Fault
  <2>2. CASE tbl' = tbl
    BY <2>1, <2>2, <1>b, <1>r, <1>t DEF Rest, HeldHasRow, Credit, Attempts, NoSilentLoss, ReadIsCurrent, AuditForced, DeliveringIsHeld, LogCounts, Unborn
  <2>3. ASSUME NEW id \in Ids, tbl' = Claimed(id),
               \/ tbl[id].status \in {"pending", "failed"}
               \/ held = id /\ InTable(id)
        PROVE  Rest'
    <3>1. \A j \in Ids : /\ tbl'[j].attempts = tbl[j].attempts /\ tbl'[j].log = tbl[j].log
                     /\ tbl'[j].status = IF j = id THEN "delivering" ELSE tbl[j].status
      BY <2>3, <1>t, StatusFrame DEF Claimed
    <3>2. HeldHasRow' /\ ReadIsCurrent' /\ DeliveringIsHeld' /\ LogCounts'
      BY <2>1, <1>b, <1>t DEF HeldHasRow, ReadIsCurrent, DeliveringIsHeld, LogCounts
    <3>3. Credit'
      BY <2>1, <2>3, <3>1, <1>b, <1>r, <1>t DEF Rest, Credit
    <3>4. Attempts'
      BY <2>1, <2>3, <3>1, <1>b, <1>r, <1>t DEF Rest, Attempts
    <3>5. NoSilentLoss' /\ AuditForced' /\ Unborn'
      BY <2>1, <2>3, <3>1, <1>b, <1>r, <1>t DEF Rest, NoSilentLoss, AuditForced, Unborn
    <3>6. QED
      BY <3>2, <3>3, <3>4, <3>5 DEF Rest
  <2>4. CASE pc = "claim" /\ InTable(held) /\ tbl' = Claimed(held)
    BY <2>3, <2>4, <1>t
  <2>5. QED
    BY <1>23, <2>2, <2>4 DEF PopFails
<1>24. CASE UNCHANGED vars
  BY <1>24 DEF vars, Rest, HeldHasRow, Credit, Attempts, NoSilentLoss, ReadIsCurrent, AuditForced, DeliveringIsHeld, LogCounts, Unborn
<1>25. QED
  BY <1>1, <1>2, <1>3, <1>4, <1>5, <1>6, <1>7, <1>8, <1>9, <1>10, <1>11, <1>12, <1>13,
     <1>14, <1>15, <1>16, <1>17, <1>18, <1>20, <1>21, <1>22, <1>23, <1>24
  DEF Next, OwnStep, SendStep, SessionStep, FailureStep, OperatorStep, ClockStep

\* The strengthening that makes the safety properties inductive holds in
\* every reachable state.
THEOREM Invariance == Spec => []IInv
<1>1. Init => TypeOK /\ Rest
  BY IInvInit DEF IInv, Rest
<1>2. TypeOK /\ Rest /\ [Next]_vars => (TypeOK /\ Rest)'
  BY TypeNext, RestNext
<1>3. TypeOK /\ Rest => IInv
  BY DEF IInv, Rest
<1>4. QED
  BY <1>1, <1>2, <1>3, PTL DEF Spec

-----------------------------------------------------------------------------
(* The properties *)

\* An entry leaves the queue only after a delivery or after MAX_ATTEMPTS
\* failed ones, however retries change `attempts' while the worker holds it.
THEOREM NoLoss == Spec => []NoSilentLoss
<1>1. IInv => NoSilentLoss
  BY DEF IInv
<1>2. QED
  BY <1>1, Invariance, PTL

\* The worker never sends a delivered message again of its own accord,
\* whatever fails and however often the process is restarted.
THEOREM NoUnaskedResend == Spec => []ResendOnlyOnRequest
<1>1. IInv => ResendOnlyOnRequest
  BY DEF IInv, Credit, ResendOnlyOnRequest
<1>2. QED
  BY <1>1, Invariance, PTL

\* On SQLite `delivering' means held by the worker as long as nothing failed.
THEOREM DeliveringHeld == Spec => []DeliveringIsHeld
<1>1. IInv => DeliveringIsHeld
  BY DEF IInv
<1>2. QED
  BY <1>1, Invariance, PTL

\* No row ever reaches MAX_ATTEMPTS.
THEOREM NotStranded == Spec => []NeverStranded
<1>1. IInv => NeverStranded
  BY DEF IInv, Attempts, NeverStranded
<1>2. QED
  BY <1>1, Invariance, PTL

\* The delivery log has one line for each failed attempt as long as no
\* statement failed and the process did not end.
THEOREM LogComplete == Spec => []LogIsComplete
<1>1. IInv => LogIsComplete
  BY DEF IInv, LogCounts, LogIsComplete, InTable, QueueStatus
<1>2. QED
  BY <1>1, Invariance, PTL

\* The record of a local delivery is removed only after an operator's retry.
THEOREM AuditKept == Spec => []AuditIsKept
<1>1. IInv => AuditIsKept
  BY DEF IInv, AuditForced, AuditIsKept
<1>2. QED
  BY <1>1, Invariance, PTL

-----------------------------------------------------------------------------
(* Steps *)

\* nack rewrites the log from what it read, which is still what the row holds.
THEOREM LogAppendOnly == Spec => LogIsAppendOnly
<1>1. IInv /\ [Next]_vars => [LogGrows]_vars
  <2> SUFFICES ASSUME IInv, Next PROVE LogGrows
    OBVIOUS
  <2>t. tbl \in [Ids -> Row] /\ held \in Ids \cup {NoId}
    BY DEF IInv, TypeOK
  <2>1. CASE NackWrite
    <3>1. held \in Ids => tbl[held].log = read.log
      BY <2>1 DEF NackWrite, IInv, ReadIsCurrent
    <3>2. \A j \in Ids : j # held => tbl'[j] = tbl[j]
      BY <2>1, <2>t DEF NackWrite, table
    <3>3. held \in Ids => tbl' = tbl \/ tbl'[held].log = read.log + 1
      BY <2>1, <2>t DEF NackWrite, NackRow, table
    <3>4. QED
      BY <3>1, <3>2, <3>3, <2>t DEF LogGrows
  <2>2. CASE PopUpdate \/ Ack
    <3>1. \A j \in Ids : tbl'[j].log = tbl[j].log
      BY <2>2, <2>t DEF PopUpdate, Ack, Claimed, Row
    <3>2. QED
      BY <3>1 DEF LogGrows
  <2>3. CASE PopFails
    <3>1. tbl' = tbl \/ \E i : tbl' = Claimed(i)
      BY <2>3 DEF PopFails
    <3>2. ASSUME NEW i, tbl' = Claimed(i) PROVE \A j \in Ids : tbl'[j].log = tbl[j].log
      BY <3>2, <2>t DEF Claimed, Row
    <3>3. QED
      BY <3>1, <3>2 DEF LogGrows
  <2>4. ASSUME NEW i \in Ids, Pop(i) \/ push(i) \/ push_local(i) \/ Abandon(i) PROVE LogGrows
    <3>1. \E st : tbl' = [tbl EXCEPT ![i].status = st]
      BY <2>4 DEF Pop, push, push_local, Abandon, Claimed
    <3>2. \A j \in Ids : tbl'[j].log = tbl[j].log
      BY <3>1, <2>t, StatusFrame
    <3>3. QED
      BY <3>2 DEF LogGrows
  <2>5. ASSUME NEW i \in Ids, Retry(i) \/ FlushOne(i) PROVE LogGrows
    <3>1. \A j \in Ids : tbl'[j].log = tbl[j].log
      BY <2>5, <2>t DEF Retry, FlushOne, force_retry, table
    <3>2. QED
      BY <3>1 DEF LogGrows
  <2>6. ASSUME tbl' = tbl PROVE LogGrows
    BY <2>6 DEF LogGrows
  <2>7. Wake \/ PopNone \/ PoisonPill \/ SendOk \/ SendErr \/ NackRead \/ AckOrNackFails
        \/ Stop \/ Start \/ FlushList \/ (\E i \in Ids : PopSelect(i) \/ TimePasses(i))
        => tbl' = tbl
    BY DEF Wake, PopNone, PoisonPill, SendOk, SendErr, NackRead, AckOrNackFails, Stop, Start,
           FlushList, PopSelect, TimePasses, table
  <2>8. QED
    BY <2>1, <2>2, <2>3, <2>4, <2>5, <2>6, <2>7
    DEF Next, OwnStep, SendStep, SessionStep, FailureStep, OperatorStep, ClockStep
<1>2. QED
  BY <1>1, Invariance, PTL DEF Spec, LogIsAppendOnly

-----------------------------------------------------------------------------
(* Refinement *)

LEMMA PromiseInit == Init => Promise!PInit
BY DEF Init, Ids, Promise!PInit, phaseBar, creditBar, cleanBar, failsBar

\* A step that leaves the history and the existence of rows alone is a stutter.
LEMMA Stutter ==
  ASSUME TypeOK, UNCHANGED history,
         \A j \in Emails : /\ tbl'[j].status = "unborn" <=> tbl[j].status = "unborn"
                           /\ tbl'[j].status = "deleted" <=> tbl[j].status = "deleted"
  PROVE  UNCHANGED Promise!promise
BY DEF history, Promise!promise, phaseBar, creditBar, cleanBar, failsBar

\* Every step of the queue is a step of MailPromise or leaves it unchanged.
LEMMA PromiseNext == IInv /\ [Next]_vars => [Promise!PNext]_(Promise!promise)
<1> SUFFICES ASSUME IInv, [Next]_vars, UNCHANGED Promise!promise => FALSE
             PROVE  Promise!PNext
  OBVIOUS
<1> USE IdsAssumption DEF InFlight, InTable, QueueStatus, Drop, CanInsert, table, worker, history, trouble
<1>t. /\ TypeOK
      /\ tbl \in [Ids -> Row] /\ held \in Ids \cup {NoId} /\ (InFlight <=> held # NoId)
      /\ clean \in [Ids -> Nat] /\ fails \in [Ids -> Nat] /\ forced \in [Ids -> Nat]
      /\ Emails \subseteq Ids
  BY DEF IInv, TypeOK, Ids
<1>1. CASE SendOk
  <2>1. held \in Emails /\ InTable(held) /\ clean[held] <= forced[held]
    BY <1>1, <1>t DEF SendOk, IInv, HeldHasRow, Credit
  <2>2. tbl' = tbl /\ fails' = fails /\ forced' = forced /\ clean' = [clean EXCEPT ![held] = @ + 1]
    BY <1>1 DEF SendOk
  <2>3. Promise!Deliver(held)
    <3>1. phaseBar[held] = "queued" /\ creditBar[held] > 0
      BY <2>1, <1>t DEF phaseBar, creditBar
    <3>2. creditBar' = [creditBar EXCEPT ![held] = @ - 1]
      <4>1. \A j \in Emails : creditBar'[j] = IF j = held THEN creditBar[j] - 1 ELSE creditBar[j]
        BY <2>1, <2>2, <1>t DEF creditBar
      <4>2. QED
        BY <4>1, Zenon DEF creditBar
    <3>3. cleanBar' = [cleanBar EXCEPT ![held] = @ + 1]
      BY <2>1, <2>2, <1>t DEF cleanBar
    <3>4. UNCHANGED <<phaseBar, failsBar>>
      BY <2>2 DEF phaseBar, failsBar
    <3>5. QED
      BY <3>1, <3>2, <3>3, <3>4 DEF Promise!Deliver
  <2>4. QED
    BY <2>1, <2>3 DEF Promise!PNext
<1>2. CASE SendErr
  <2>1. held \in Emails /\ InTable(held)
    BY <1>2, <1>t DEF SendErr, IInv, HeldHasRow
  <2>2. tbl' = tbl /\ clean' = clean /\ forced' = forced /\ fails' = [fails EXCEPT ![held] = @ + 1]
    BY <1>2 DEF SendErr
  <2>3. Promise!Fail(held)
    BY <2>1, <2>2, <1>t DEF Promise!Fail, phaseBar, creditBar, cleanBar, failsBar
  <2>4. QED
    BY <2>1, <2>3 DEF Promise!PNext
<1>3. CASE Ack
  <2>1. held \in Ids /\ InTable(held) /\ UNCHANGED <<clean, fails, forced>>
    BY <1>3, <1>t DEF Ack, IInv, HeldHasRow
  <2>2. \A j \in Ids : tbl'[j].status = IF j = held THEN "deleted" ELSE tbl[j].status
    BY <1>3, <2>1, <1>t, StatusFrame DEF Ack
  <2>3. CASE held \in Audits
    BY <2>1, <2>2, <2>3, <1>t, Stutter
  <2>4. CASE held \in Emails
    <3>1. clean[held] > 0 \/ fails[held] >= MAX_ATTEMPTS
      BY <1>3, <2>4 DEF Ack, IInv, Attempts
    <3>2. phaseBar[held] = "queued" /\ (cleanBar[held] > 0 \/ failsBar[held] >= MAX_ATTEMPTS)
      BY <2>1, <2>4, <3>1, <1>t DEF phaseBar, cleanBar, failsBar
    <3>3. phaseBar' = [phaseBar EXCEPT ![held] = "settled"]
      BY <2>1, <2>2, <2>4, <1>t DEF phaseBar
    <3>4. UNCHANGED <<creditBar, cleanBar, failsBar>>
      BY <2>1, <2>2, <1>t DEF creditBar, cleanBar, failsBar
    <3>5. Promise!Settle(held)
      BY <3>2, <3>3, <3>4 DEF Promise!Settle
    <3>6. QED
      BY <2>4, <3>5 DEF Promise!PNext
  <2>5. QED
    BY <2>1, <2>3, <2>4 DEF Ids
<1>4. ASSUME NEW id \in Ids, push(id) PROVE Promise!PNext
  <2>1. id \in Emails /\ tbl[id].status = "unborn" /\ UNCHANGED <<clean, fails, forced>>
    BY <1>4 DEF push
  <2>2. \A j \in Ids : tbl'[j].status = IF j = id THEN "pending" ELSE tbl[j].status
    BY <1>4, <1>t, StatusFrame DEF push
  <2>3. phaseBar[id] = "new" /\ phaseBar' = [phaseBar EXCEPT ![id] = "queued"]
    BY <2>1, <2>2, <1>t DEF phaseBar
  <2>4. forced[id] = 0 /\ clean[id] = 0
    BY <2>1, <1>t DEF IInv, Unborn
  <2>5. creditBar' = [creditBar EXCEPT ![id] = 1]
    <3>1. \A j \in Emails : creditBar'[j] = IF j = id THEN 1 ELSE creditBar[j]
      BY <2>1, <2>2, <2>4, <1>t DEF creditBar
    <3>2. QED
      BY <3>1, Zenon DEF creditBar
  <2>6. UNCHANGED <<cleanBar, failsBar>>
    BY <2>1 DEF cleanBar, failsBar
  <2>7. Promise!AcceptMail(id)
    BY <2>3, <2>5, <2>6 DEF Promise!AcceptMail
  <2>8. QED
    BY <2>1, <2>7 DEF Promise!PNext
<1>5. ASSUME NEW id \in Ids, force_retry(id), UNCHANGED <<clean, fails>> PROVE Promise!PNext
  <2>1. InTable(id) /\ forced' = [forced EXCEPT ![id] = @ + 1]
    BY <1>5 DEF force_retry
  <2>2. \A j \in Ids : tbl'[j].status = IF j = id THEN "pending" ELSE tbl[j].status
    BY <1>5, <1>t DEF force_retry
  <2>3. CASE id \in Emails
    <3>1. phaseBar[id] = "queued" /\ UNCHANGED <<phaseBar, cleanBar, failsBar>>
      BY <1>5, <2>1, <2>2, <2>3, <1>t DEF phaseBar, cleanBar, failsBar
    <3>2. creditBar' = [creditBar EXCEPT ![id] = @ + 1]
      <4>1. \A j \in Emails : creditBar'[j] = IF j = id THEN creditBar[j] + 1 ELSE creditBar[j]
        <5>1. \A j \in Emails : /\ clean'[j] = clean[j]
                                /\ forced'[j] = IF j = id THEN forced[j] + 1 ELSE forced[j]
                                /\ tbl'[j].status = "unborn" <=> tbl[j].status = "unborn"
          <6>1. \A j \in Emails : clean'[j] = clean[j]
            BY <1>5
          <6>2. \A j \in Emails : forced'[j] = IF j = id THEN forced[j] + 1 ELSE forced[j]
            BY <2>1, <1>t
          <6>3. \A j \in Emails : (tbl'[j].status = "unborn") <=> (tbl[j].status = "unborn")
            BY <2>1, <2>2, <1>t
          <6>4. QED
            BY <6>1, <6>2, <6>3
        <5>2. forced[id] \in Nat /\ clean[id] \in Nat /\ tbl[id].status # "unborn"
          BY <2>1, <1>t
        <5>3. ASSUME NEW j \in Emails
              PROVE  creditBar'[j] = IF j = id THEN creditBar[j] + 1 ELSE creditBar[j]
          <6>1. /\ creditBar[j] = IF tbl[j].status = "unborn" THEN 0 ELSE 1 + forced[j] - clean[j]
                /\ creditBar'[j] = IF tbl'[j].status = "unborn" THEN 0 ELSE 1 + forced'[j] - clean'[j]
            BY DEF creditBar
          <6>2. forced[j] \in Nat /\ clean[j] \in Nat
            BY <1>t
          <6>3. QED
            BY <5>1, <5>2, <6>1, <6>2
        <5>4. QED
          BY <5>3
      <4>2. QED
        BY <4>1, Zenon DEF creditBar
    <3>3. Promise!AskAgain(id)
      BY <3>1, <3>2 DEF Promise!AskAgain
    <3>4. QED
      BY <2>3, <3>3 DEF Promise!PNext
  <2>4. CASE id \in Audits
    <3>1. \A j \in Emails : tbl'[j].status = tbl[j].status /\ forced'[j] = forced[j]
      BY <2>1, <2>2, <2>4, <1>t
    <3>2. UNCHANGED Promise!promise
      BY <3>1, <1>5, <1>t DEF Promise!promise, phaseBar, creditBar, cleanBar, failsBar
    <3>3. QED
      BY <3>2
  <2>5. QED
    BY <2>3, <2>4 DEF Ids
<1>6. ASSUME NEW id \in Ids, Retry(id) \/ FlushOne(id) PROVE Promise!PNext
  <2>1. CASE force_retry(id)
    BY <1>5, <1>6, <2>1 DEF Retry, FlushOne
  <2>2. CASE UNCHANGED <<table, forced>>
    BY <1>6, <2>2, <1>t, Stutter DEF Retry, FlushOne
  <2>3. QED
    BY <1>6, <2>1, <2>2 DEF Retry, FlushOne
<1>7. ASSUME NEW id \in Ids, push_local(id) PROVE Promise!PNext
  <2>1. \A j \in Emails : tbl'[j].status = tbl[j].status
    BY <1>7, <1>t DEF push_local
  <2>2. QED
    BY <2>1, <1>7, <1>t, Stutter DEF push_local
<1>8. ASSUME NEW id \in Ids, InTable(id), tbl' = Claimed(id), UNCHANGED history PROVE Promise!PNext
  <2>1. \A j \in Ids : tbl'[j].status = IF j = id THEN "delivering" ELSE tbl[j].status
    BY <1>8, <1>t, StatusFrame DEF Claimed
  <2>2. QED
    BY <2>1, <1>8, <1>t, Stutter
<1>9. ASSUME tbl' = tbl, UNCHANGED history PROVE Promise!PNext
  BY <1>9, <1>t, Stutter
<1>10. CASE PopUpdate
  BY <1>10, <1>8, <1>9, <1>t DEF PopUpdate
<1>11. CASE PopFails
  <2>1. tbl' = tbl \/ \E i \in Ids : InTable(i) /\ tbl' = Claimed(i)
    BY <1>11, <1>t DEF PopFails, FirstDue, Eligible
  <2>2. QED
    BY <2>1, <1>8, <1>9, <1>11 DEF PopFails
<1>12. ASSUME NEW id \in Ids, Pop(id) PROVE Promise!PNext
  <2>1. InTable(id) /\ tbl' = Claimed(id) /\ UNCHANGED history
    BY <1>12 DEF Pop, FirstDue, Eligible
  <2>2. QED
    BY <2>1, <1>8
<1>13. ASSUME NEW id \in Ids, Abandon(id) PROVE Promise!PNext
  <2>1. \A j \in Ids : tbl'[j].status = IF j = id THEN "abandoned" ELSE tbl[j].status
    BY <1>13, <1>t, StatusFrame DEF Abandon
  <2>2. QED
    BY <2>1, <1>13, <1>t, Stutter DEF Abandon
<1>14. CASE NackWrite
  <2>1. held \in Ids /\ InTable(held) /\ NackRow.status \in QueueStatus
    BY <1>14, <1>t DEF NackWrite, NackRow, IInv, HeldHasRow
  <2>2. \A j \in Ids : tbl'[j] = IF j = held THEN NackRow ELSE tbl[j]
    BY <1>14, <2>1, <1>t DEF NackWrite
  <2>3. QED
    BY <2>1, <2>2, <1>14, <1>t, Stutter DEF NackWrite
<1>15. Wake \/ PopNone \/ PoisonPill \/ NackRead \/ AckOrNackFails
        \/ Stop \/ Start \/ FlushList \/ (\E i \in Ids : PopSelect(i) \/ TimePasses(i))
        \/ UNCHANGED vars => tbl' = tbl /\ UNCHANGED history
  BY DEF Wake, PopNone, PoisonPill, NackRead, AckOrNackFails, Stop, Start,
         FlushList, PopSelect, TimePasses, vars
<1>16. QED
  BY <1>1, <1>2, <1>3, <1>4, <1>6, <1>7, <1>9, <1>10, <1>11, <1>12, <1>13, <1>14, <1>15
  DEF Next, OwnStep, SendStep, SessionStep, FailureStep, OperatorStep, ClockStep

\* The queue with its rows, statements, worker, operator and failures
\* implements MailPromise.
THEOREM Refinement == Spec => KeepsPromise
<1>1. QED
  BY PromiseInit, PromiseNext, Invariance, PTL DEF Spec, KeepsPromise, Promise!PSpec
=============================================================================
