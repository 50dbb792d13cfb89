------------------------- MODULE ImapQueriesProofs --------------------------
(***************************************************************************)
(* Proofs about the IMAP queries: MailboxView, for any number of messages, *)
(* commands and removals, and SearchCommand, for all folders and all       *)
(* well-written requests.                                                  *)
(*                                                                         *)
(* The argument for SearchCommand has four parts.  What is parsed, judged  *)
(* and matched is a function of places that depends only on later places,  *)
(* so that there is such a function (Recursion).  The parser               *)
(* gives, at the place of each key that is meant, that key (KeysMeant).    *)
(* The verdict of each key on a message, unless it panics, is whether the  *)
(* message matches (VerdictsMeant).  The text of a set says the numbers it *)
(* was made from (SetOfResults), and what the next command makes of it are *)
(* the messages with these numbers (SelectedSet, StoredSet).               *)
(***************************************************************************)
EXTENDS MailboxView, SearchCommand, FiniteSetTheorems, SequenceTheorems, TLAPS

-----------------------------------------------------------------------------
(* Lemmas about counts and maxima *)

\* The maximum of a set that has one.
LEMMA MaxIsMax ==
  ASSUME NEW S \in SUBSET Nat, NEW m \in S, \A y \in S : m >= y
  PROVE  Max(S) \in S /\ \A y \in S : Max(S) >= y
  BY DEF Max

\* Whatever is where, the files of a folder are finitely many.
LEMMA InIsFinite ==
  ASSUME NEW sub PROVE IsFiniteSet(In(sub)) /\ Cardinality(In(sub)) \in Nat
<1>1. IsFiniteSet(Ids)
  BY FS_Interval, BoundAssumption DEF Ids
<1>2. IsFiniteSet(In(sub))
  BY <1>1, FS_Subset DEF In
<1> QED BY <1>2, FS_CardinalityType

\* A file is in one of the two directories: the sum of their counts is the
\* number of messages.
LEMMA CountsAdd == Cardinality(Present) = Cardinality(In("cur")) + Cardinality(In("new"))
<1>1. In("new") \cap In("cur") = {}
  BY DEF In
<1>2. Cardinality(In("new") \cap In("cur")) = 0
  BY <1>1, FS_EmptySet
<1>3. Cardinality(In("new") \cup In("cur"))
        = Cardinality(In("new")) + Cardinality(In("cur")) - Cardinality(In("new") \cap In("cur"))
  BY InIsFinite, FS_Union
<1> QED BY <1>2, <1>3, InIsFinite DEF Present

-----------------------------------------------------------------------------
(* The inductive invariant of MailboxView *)

\* The first count of IDLE is still right when nothing is noticed or hidden.
CountInv == At("idle count") /\ ~event /\ ~hidden => c.count = Cardinality(In("cur"))

Uids == {0} \cup {uid[i] : i \in Rows}

\* The UIDs given out have a greatest one, and UIDNEXT was one more.
UidInv ==
  /\ old \subseteq Rows
  /\ \E m \in Uids : \A u \in Uids : m >= u
  /\ uidnext <= get_uid_for_folder + 1

\* Every action, for the proofs by cases.
LEMMA NextCases ==
  ASSUME Next, NEW P,
         ServerStep => P, SELECT => P, NOOP => P, IDLE => P, DONE => P, FETCH => P, EXPUNGE => P,
         \A S : MOVE(S) => P, \A lo, hi, told : STORE(lo, hi, told) => P,
         OtherEvent => P, \A i \in Ids : Insert(i) => P, \A i \in Ids : See(i) => P, \A i \in Ids : TakeAway(i) => P,
         \A i \in Ids, sub \in {"new", "cur"} : Write(i, sub) => P
  PROVE  P
  BY DEF Next, ClientStep, Others

LEMMA UidIsNat ==
  ASSUME TypeOK, UidInv
  PROVE  get_uid_for_folder \in Nat /\ \A i \in Rows : uid[i] <= get_uid_for_folder
<1>1. Uids \in SUBSET Nat
  <2>1. \A i \in Rows : uid[i] \in Nat
    BY DEF TypeOK, Rows
  <2> QED BY <2>1 DEF Uids
<1>2. PICK m \in Uids : \A u \in Uids : m >= u
  BY DEF UidInv
<1>3. Max(Uids) \in Uids /\ \A u \in Uids : Max(Uids) >= u
  BY <1>1, <1>2, MaxIsMax
<1>4. \A i \in Rows : uid[i] \in Uids
  BY DEF Uids
<1> QED BY <1>1, <1>3, <1>4 DEF get_uid_for_folder, Uids

-----------------------------------------------------------------------------
(* Types *)

LEMMA TypeServer == TypeOK /\ UidInv /\ ServerStep => TypeOK'
<1> SUFFICES ASSUME TypeOK, UidInv, ServerStep PROVE TypeOK'
  OBVIOUS
<1> USE DEF TypeOK, At, Ready, Nothing, folder, client, history, bounds
<1>1. CASE SelectCur
  BY <1>1, InIsFinite DEF SelectCur, count_cur, CountCur, In
<1>2. CASE SelectNew
  BY <1>2, InIsFinite DEF SelectNew, Total, In
<1>3. CASE SelectUidNext
  <2>1. uidnext' \in Nat
    <3> HIDE DEF TypeOK
    <3> QED BY <1>3, UidIsNat DEF SelectUidNext, UidNext
  <2>2. old' \subseteq Ids
    BY <1>3 DEF SelectUidNext, Rows
  <2> QED BY <1>3, <2>1, <2>2 DEF SelectUidNext
<1>4. CASE NoopCur
  BY <1>4, InIsFinite DEF NoopCur, count_cur, CountCur, In
<1>5. CASE NoopNew
  BY <1>5, InIsFinite DEF NoopNew, Total, Told, In
<1>6. CASE Watch
  <2>1. c' = [Ready EXCEPT !.pc = "watching"] \/ c' = Ready
    BY <1>6 DEF Watch
  <2>2. CASE c' = [Ready EXCEPT !.pc = "watching"]
    BY <1>6, <2>2 DEF Watch
  <2>3. CASE c' = Ready
    BY <1>6, <2>3 DEF Watch
  <2> QED BY <2>1, <2>2, <2>3
<1>7. CASE Event
  BY <1>7, InIsFinite DEF Event, CountCur, In
<1>8. CASE Announce
  <2>1. Total \in Nat
    <3>1. Cardinality(In("new")) \in Nat
      BY InIsFinite
    <3>2. c.count \in Nat
      OBVIOUS
    <3> HIDE DEF TypeOK
    <3> QED BY <3>1, <3>2 DEF Total
  <2>2. owed' \subseteq Ids
    BY <1>8 DEF Announce
  <2> QED BY <1>8, <2>1, <2>2 DEF Announce
<1>9. CASE ListRows
  BY <1>9, InIsFinite DEF ListRows, Rows
<1>10. CASE ListNew
  BY <1>10, InIsFinite DEF ListNew, In
<1>11. CASE FetchFiles
  BY <1>11, InIsFinite DEF FetchFiles, Renumber, In
<1>12. CASE MoveFiles
  BY <1>12, InIsFinite DEF MoveFiles, Renumber, In
<1>13. CASE RemoveFile
  BY <1>13, InIsFinite DEF RemoveFile
<1>14. CASE RemoveFails
  BY <1>14, InIsFinite DEF RemoveFails
<1>15. CASE Removed
  BY <1>15, InIsFinite DEF Removed
<1> QED BY <1>1, <1>2, <1>3, <1>4, <1>5, <1>6, <1>7, <1>8, <1>9, <1>10, <1>11, <1>12, <1>13, <1>14, <1>15 DEF ServerStep

LEMMA BeginType ==
  ASSUME TypeOK, NEW next, Begin(next)
  PROVE  commands' \in Nat /\ c' = next /\ At("ready")
<1>1. commands + 1 \in Nat
  <2>1. commands \in Nat
    BY DEF TypeOK
  <2> QED BY <2>1
<1>2. commands' = commands + 1 /\ c' = next /\ At("ready")
  BY DEF Begin
<1> QED BY <1>1, <1>2

LEMMA TypeNext == TypeOK /\ UidInv /\ [Next]_vars => TypeOK'
<1> SUFFICES ASSUME TypeOK, UidInv, [Next]_vars PROVE TypeOK'
  OBVIOUS
<1> USE DEF At, Ready, Nothing, folder, client, history, bounds
<1>1. ServerStep => TypeOK'
  BY TypeServer
<1>2. SELECT \/ NOOP \/ IDLE \/ FETCH => TypeOK'
  <2>1. SUFFICES ASSUME NEW pc \in {"select count", "noop count", "idling", "fetch rows"}, Ask(pc) PROVE TypeOK'
    BY DEF SELECT, NOOP, IDLE, FETCH
  <2>2. commands' \in Nat /\ c' = [Ready EXCEPT !.pc = pc]
    <3> HIDE DEF Ready
    <3> QED BY <2>1, BeginType DEF Ask
  <2> QED BY <2>1, <2>2 DEF TypeOK, Ask
<1>3. DONE => TypeOK'
  <2> SUFFICES ASSUME DONE PROVE TypeOK'
    OBVIOUS
  <2>1. event' \in BOOLEAN /\ hidden' \in BOOLEAN
    BY DEF DONE
  <2> QED BY <2>1 DEF TypeOK, DONE
<1>4. ASSUME NEW S, MOVE(S) PROVE TypeOK'
  <2>1. S \in SUBSET Nat
    BY <1>4 DEF MOVE
  <2>2. commands' \in Nat /\ c' = [Ready EXCEPT !.pc = "move rows", !.pick = S]
    <3> HIDE DEF Ready
    <3> QED BY <1>4, BeginType DEF MOVE
  <2> QED BY <1>4, <2>1, <2>2 DEF TypeOK, MOVE
<1>5. ASSUME NEW lo, NEW hi, NEW told, STORE(lo, hi, told) PROVE TypeOK'
  <2> DEFINE S == {i \in Present : uid[i] \in lo .. hi}
  <2>1. place' \in [Ids -> {"none", "new", "cur", "gone"}]
    <3>1. place' = [i \in Ids |-> IF i \in S THEN "cur" ELSE place[i]] \/ place' = place
      BY <1>5 DEF STORE
    <3> HIDE DEF S
    <3>2. place \in [Ids -> {"none", "new", "cur", "gone"}]
      BY DEF TypeOK
    <3> QED BY <3>1, <3>2
  <2>2. trashed' \subseteq Ids
    <3>1. trashed \subseteq Ids /\ S \subseteq Ids
      BY DEF TypeOK, Present, In
    <3>2. trashed' \in {trashed \cup S, trashed, trashed \ S}
      BY <1>5 DEF STORE
    <3> HIDE DEF S
    <3> QED BY <3>1, <3>2
  <2>4. renumbered' \in BOOLEAN
    BY <1>5 DEF STORE, TypeOK
  <2>3. commands' \in Nat /\ c' = Ready
    <3> HIDE DEF Ready
    <3> QED BY <1>5, BeginType DEF STORE
  <2> QED BY <1>5, <2>1, <2>2, <2>3, <2>4 DEF TypeOK, STORE
<1>6. EXPUNGE => TypeOK'
  <2> SUFFICES ASSUME EXPUNGE PROVE TypeOK'
    OBVIOUS
  <2>1. commands' \in Nat /\ c' = [Ready EXCEPT !.pc = "remove"]
    <3> HIDE DEF Ready
    <3> QED BY BeginType DEF EXPUNGE
  <2>2. renumbered' \in BOOLEAN
    BY DEF EXPUNGE
  <2> QED BY <2>1, <2>2 DEF TypeOK, EXPUNGE
<1>7. OtherEvent => TypeOK'
  BY DEF TypeOK, OtherEvent
<1>8. ASSUME NEW i \in Ids, Insert(i) PROVE TypeOK'
  <2>1. get_uid_for_folder + 1 \in Nat
    BY UidIsNat
  <2> QED BY <1>8, <2>1 DEF TypeOK, Insert
<1>9. ASSUME NEW i \in Ids, See(i) PROVE TypeOK'
  BY <1>9 DEF TypeOK, See, Notice, Hide
<1>10. ASSUME NEW i \in Ids, TakeAway(i) PROVE TypeOK'
  <2>1. removals' \in Nat /\ renumbered' \in BOOLEAN
    <3>1. removals + 1 \in Nat
      <4>1. removals \in Nat
        BY DEF TypeOK
      <4> QED BY <4>1
    <3> QED BY <1>10, <3>1 DEF TakeAway
  <2>2. event' \in BOOLEAN /\ hidden' \in BOOLEAN
    BY <1>10 DEF TakeAway, Notice, Hide
  <2> QED BY <1>10, <2>1, <2>2 DEF TypeOK, TakeAway
<1>11. ASSUME NEW i \in Ids, NEW sub \in {"new", "cur"}, Write(i, sub) PROVE TypeOK'
  BY <1>11 DEF TypeOK, Write, Notice, Hide
<1>12. UNCHANGED vars => TypeOK'
  BY DEF TypeOK, vars
<1> QED BY <1>1, <1>2, <1>3, <1>4, <1>5, <1>6, <1>7, <1>8, <1>9, <1>10, <1>11, <1>12, NextCases

-----------------------------------------------------------------------------
(* IDLE *)

CountGoal == CountInv' /\ IdleIsCurrent'

\* Nothing is claimed outside IDLE, nor when something is noticed or hidden.
LEMMA Elsewhere ==
  ASSUME c'.pc \notin {"watching", "idle count"} \/ event' \/ hidden'
  PROVE  CountGoal
  BY DEF CountGoal, CountInv, IdleIsCurrent, At

\* Steps that leave the files and the connection alone.
LEMMA SameFiles ==
  ASSUME CountInv, IdleIsCurrent, place' = place, c' = c, ~event' => ~event, ~hidden' => ~hidden
  PROVE  CountGoal
  BY DEF CountGoal, CountInv, IdleIsCurrent, At, In, Present

\* Whatever happens to a file while IDLE runs is noticed or hidden.
LEMMA FileStep ==
  ASSUME NEW subs, subs \in {{"new"}, {"cur"}, {"new", "cur"}}, c' = c, Notice(subs), Hide(subs)
  PROVE  CountGoal
<1>1. CASE Watching
  <2>1. CASE subs = {"cur"}
    BY <1>1, <2>1, Elsewhere DEF Hide
  <2>2. CASE "new" \in subs
    BY <1>1, <2>2, Elsewhere DEF Notice, watched
  <2> QED BY <2>1, <2>2
<1>2. CASE ~Watching
  BY <1>2, Elsewhere DEF Watching
<1> QED BY <1>1, <1>2

LEMMA CountNext == TypeOK /\ CountInv /\ IdleIsCurrent /\ [Next]_vars => CountGoal
<1> SUFFICES ASSUME TypeOK, CountInv, IdleIsCurrent, [Next]_vars PROVE CountGoal
  OBVIOUS
<1> USE DEF Ready
<1>1. ServerStep => CountGoal
  <2>1. SelectCur \/ NoopCur => CountGoal
    <3>1. SelectCur \/ NoopCur => c'.pc \notin {"watching", "idle count"}
      BY DEF SelectCur, NoopCur, count_cur, CountCur, TypeOK
    <3> QED BY <3>1, Elsewhere
  <2>2. SelectNew \/ SelectUidNext \/ NoopNew => CountGoal
    <3>1. SelectNew => c'.pc \notin {"watching", "idle count"}
      BY DEF SelectNew
    <3>2. SelectUidNext => c'.pc \notin {"watching", "idle count"}
      BY DEF SelectUidNext
    <3>3. NoopNew => c'.pc \notin {"watching", "idle count"}
      <4> SUFFICES ASSUME NoopNew PROVE c'.pc = "ready"
        OBVIOUS
      <4>1. c' = Ready
        <5> HIDE DEF Ready
        <5> QED BY DEF NoopNew
      <4> QED BY <4>1
    <3> QED BY <3>1, <3>2, <3>3, Elsewhere
  <2>3. ListRows \/ ListNew => CountGoal
    <3>1. ListRows \/ ListNew => c'.pc \notin {"watching", "idle count"}
      BY DEF ListRows, ListNew, TypeOK
    <3> QED BY <3>1, Elsewhere
  <2>4. FetchFiles \/ MoveFiles \/ RemoveFails \/ Removed => CountGoal
    <3>1. FetchFiles => c'.pc \notin {"watching", "idle count"}
      <4> SUFFICES ASSUME FetchFiles PROVE c'.pc = "ready"
        OBVIOUS
      <4>1. c' = Ready
        <5> HIDE DEF Ready
        <5> QED BY DEF FetchFiles
      <4> QED BY <4>1
    <3>2. MoveFiles => c'.pc \notin {"watching", "idle count"}
      BY DEF MoveFiles
    <3>3. RemoveFails => c'.pc \notin {"watching", "idle count"}
      BY DEF RemoveFails
    <3>4. Removed => c'.pc \notin {"watching", "idle count"}
      BY DEF Removed
    <3> QED BY <3>1, <3>2, <3>3, <3>4, Elsewhere
  <2>5. RemoveFile => CountGoal
    BY Elsewhere DEF RemoveFile, At
  <2>6. Watch => CountGoal
    <3> SUFFICES ASSUME Watch PROVE CountGoal
      OBVIOUS
    <3>1. CASE c' = Ready
      BY <3>1, Elsewhere
    <3>2. CASE c' = [Ready EXCEPT !.pc = "watching"]
      BY <3>2 DEF CountGoal, CountInv, IdleIsCurrent, At
    <3> QED BY <3>1, <3>2 DEF Watch
  <2>7. Event => CountGoal
    <3> SUFFICES ASSUME Event PROVE CountGoal
      OBVIOUS
    <3>1. c'.pc = "idle count" /\ c'.count = Cardinality(In("cur")) /\ place' = place
      BY DEF Event, CountCur, TypeOK, folder
    <3> QED BY <3>1 DEF CountGoal, CountInv, IdleIsCurrent, At, In
  <2>8. Announce => CountGoal
    <3> SUFFICES ASSUME Announce, ~event', ~hidden' PROVE CountGoal
      BY Elsewhere
    <3>1. c'.pc = "watching" /\ c'.said = Total /\ place' = place /\ ~event /\ ~hidden /\ c.pc = "idle count"
      BY DEF Announce, folder, At
    <3>2. Total = Cardinality(Present)
      BY <3>1, CountsAdd DEF Total, CountInv, At
    <3>3. Cardinality(Present)' = Cardinality(Present)
      BY <3>1 DEF Present, In
    <3> QED BY <3>1, <3>2, <3>3 DEF CountGoal, CountInv, IdleIsCurrent, At
  <2> QED BY <2>1, <2>2, <2>3, <2>4, <2>5, <2>6, <2>7, <2>8 DEF ServerStep
<1>2. SELECT \/ NOOP \/ IDLE \/ FETCH => CountGoal
  <2>1. SUFFICES ASSUME NEW pc \in {"select count", "noop count", "idling", "fetch rows"}, Ask(pc) PROVE CountGoal
    BY DEF SELECT, NOOP, IDLE, FETCH
  <2> QED BY <2>1, Elsewhere DEF Ask, Begin
<1>3. DONE => CountGoal
  BY Elsewhere DEF DONE
<1>4. ASSUME NEW S, MOVE(S) PROVE CountGoal
  BY <1>4, Elsewhere DEF MOVE, Begin
<1>5. ASSUME NEW lo, NEW hi, NEW told, STORE(lo, hi, told) PROVE CountGoal
  BY <1>5, Elsewhere DEF STORE, Begin
<1>6. EXPUNGE => CountGoal
  BY Elsewhere DEF EXPUNGE, Begin
<1>7. OtherEvent => CountGoal
  BY Elsewhere DEF OtherEvent
<1>8. ASSUME NEW i \in Ids, Insert(i) PROVE CountGoal
  BY <1>8, SameFiles DEF Insert, history
<1>9. ASSUME NEW i \in Ids, See(i) PROVE CountGoal
  BY <1>9, FileStep DEF See
<1>10. ASSUME NEW i \in Ids, TakeAway(i) PROVE CountGoal
  <2>1. place[i] \in {"new", "cur"}
    BY <1>10 DEF TakeAway, Present, In
  <2> QED BY <1>10, <2>1, FileStep DEF TakeAway
<1>11. ASSUME NEW i \in Ids, NEW sub \in {"new", "cur"}, Write(i, sub) PROVE CountGoal
  BY <1>11, FileStep DEF Write
<1>12. UNCHANGED vars => CountGoal
  BY SameFiles DEF vars, folder, history
<1> QED BY <1>1, <1>2, <1>3, <1>4, <1>5, <1>6, <1>7, <1>8, <1>9, <1>10, <1>11, <1>12, NextCases

-----------------------------------------------------------------------------
(* UIDNEXT *)

UidGoal == UidInv' /\ UidNextIsABound'

\* Steps that neither give out a UID nor read UIDNEXT.
LEMMA SameUids ==
  ASSUME UidInv, UidNextIsABound, uid' = uid, old' = old, uidnext' = uidnext
  PROVE  UidGoal
<1>1. Rows' = Rows /\ Uids' = Uids /\ get_uid_for_folder' = get_uid_for_folder
  BY DEF Rows, Uids, get_uid_for_folder
<1> QED BY <1>1 DEF UidGoal, UidInv, UidNextIsABound

\* The row of a new message has a UID above all others.
LEMMA InsertUid ==
  ASSUME TypeOK, UidInv, UidNextIsABound, NEW i \in Ids, Insert(i)
  PROVE  UidGoal
<1> DEFINE top == get_uid_for_folder
<1>1. top \in Nat /\ \A j \in Rows : uid[j] <= top
  BY UidIsNat
<1>2. /\ uid' = [uid EXCEPT ![i] = top + 1] /\ uid[i] = 0
      /\ old' = old /\ uidnext' = uidnext
  BY DEF Insert, history, client
<1>3. uid \in [Ids -> Nat] /\ uidnext \in Nat
  BY DEF TypeOK
<1>4. uidnext <= top + 1 /\ old \subseteq Rows
  BY DEF UidInv
<1> HIDE DEF top
<1>5. i \notin Rows
  BY <1>2 DEF Rows
<1>6. uid'[i] = top + 1 /\ \A j \in Ids \ {i} : uid'[j] = uid[j]
  BY <1>2, <1>3
<1>7. Rows' = Rows \cup {i}
  BY <1>1, <1>6 DEF Rows
<1>8. Uids' = Uids \cup {top + 1}
  <2>1. {uid'[j] : j \in Rows'} = {uid'[j] : j \in Rows} \cup {uid'[i]}
    BY <1>7
  <2>2. {uid'[j] : j \in Rows} = {uid[j] : j \in Rows}
    BY <1>5, <1>6 DEF Rows
  <2> QED BY <2>1, <2>2, <1>6 DEF Uids
<1>9. \A u \in Uids' : u \in Nat /\ u <= top + 1
  <2>1. \A u \in Uids : u \in Nat /\ u <= top
    BY <1>1, <1>3 DEF Uids, Rows
  <2> QED BY <2>1, <1>1, <1>8
<1>10. Max(Uids') = top + 1
  <2>1. Max(Uids') \in Uids' /\ \A u \in Uids' : Max(Uids') >= u
    BY <1>8, <1>9, MaxIsMax
  <2> QED BY <2>1, <1>1, <1>8, <1>9
<1>11. UidInv'
  <2>1. \E u \in Uids' : \A v \in Uids' : u >= v
    BY <1>1, <1>8, <1>9
  <2>2. get_uid_for_folder' = top + 1
    BY <1>10 DEF get_uid_for_folder, Uids
  <2>3. uidnext' <= get_uid_for_folder' + 1
    BY <2>2, <1>1, <1>2, <1>3, <1>4
  <2>4. old' \subseteq Rows'
    BY <1>2, <1>4, <1>7
  <2> QED BY <2>1, <2>3, <2>4 DEF UidInv
<1>12. UidNextIsABound'
  <2> SUFFICES ASSUME uidnext # 0, NEW j \in Rows' PROVE uid'[j] >= uidnext <=> j \notin old
    BY <1>2 DEF UidNextIsABound
  <2>1. CASE j = i
    BY <2>1, <1>1, <1>3, <1>4, <1>5, <1>6
  <2>2. CASE j # i
    BY <2>2, <1>6, <1>7 DEF UidNextIsABound, Rows
  <2> QED BY <2>1, <2>2
<1> QED BY <1>11, <1>12 DEF UidGoal

\* UIDNEXT is above the UIDs of all rows there are.
LEMMA SelectUid ==
  ASSUME TypeOK, UidInv, SelectUidNext
  PROVE  UidGoal
<1> DEFINE top == get_uid_for_folder
<1>1. top \in Nat /\ \A j \in Rows : uid[j] <= top
  BY UidIsNat
<1>2. uid' = uid /\ uidnext' = top + 1 /\ old' = Rows
  BY DEF SelectUidNext, UidNext, folder
<1>3. Rows' = Rows /\ Uids' = Uids /\ get_uid_for_folder' = top
  BY <1>2 DEF Rows, Uids, get_uid_for_folder
<1>4. uid \in [Ids -> Nat]
  BY DEF TypeOK
<1> HIDE DEF top
<1>5. UidInv'
  BY <1>1, <1>2, <1>3 DEF UidInv
<1>6. \A j \in Rows : ~(uid[j] >= top + 1)
  BY <1>1, <1>4 DEF Rows
<1>7. UidNextIsABound'
  BY <1>2, <1>3, <1>6 DEF UidNextIsABound
<1> QED BY <1>5, <1>7 DEF UidGoal

LEMMA UidNextStep == TypeOK /\ UidInv /\ UidNextIsABound /\ [Next]_vars => UidGoal
<1> SUFFICES ASSUME TypeOK, UidInv, UidNextIsABound, [Next]_vars PROVE UidGoal
  OBVIOUS
<1> DEFINE Same == uid' = uid /\ old' = old /\ uidnext' = uidnext
<1> USE DEF folder, client, history
<1>1. ServerStep => UidGoal
  <2>1. SelectCur \/ NoopCur \/ SelectNew \/ NoopNew => Same
    BY DEF SelectCur, NoopCur, count_cur, SelectNew, NoopNew
  <2>2. Watch \/ Event \/ Announce => Same
    BY DEF Watch, Event, Announce
  <2>3. ListRows \/ ListNew \/ FetchFiles \/ MoveFiles => Same
    BY DEF ListRows, ListNew, FetchFiles, MoveFiles
  <2>4. RemoveFile \/ RemoveFails \/ Removed => Same
    BY DEF RemoveFile, RemoveFails, Removed
  <2> QED BY <2>1, <2>2, <2>3, <2>4, SelectUid, SameUids DEF ServerStep
<1>2. SELECT \/ NOOP \/ IDLE \/ FETCH \/ DONE \/ EXPUNGE => Same
  BY DEF SELECT, NOOP, IDLE, FETCH, Ask, DONE, EXPUNGE
<1>3. ASSUME NEW S, MOVE(S) PROVE Same
  BY <1>3 DEF MOVE
<1>4. ASSUME NEW lo, NEW hi, NEW told, STORE(lo, hi, told) PROVE Same
  BY <1>4 DEF STORE
<1>5. OtherEvent => Same
  BY DEF OtherEvent
<1>6. \A i \in Ids : Insert(i) => UidGoal
  BY InsertUid
<1>7. ASSUME NEW i \in Ids, See(i) PROVE Same
  BY <1>7 DEF See
<1>8. ASSUME NEW i \in Ids, TakeAway(i) PROVE Same
  BY <1>8 DEF TakeAway
<1>9. ASSUME NEW i \in Ids, NEW sub \in {"new", "cur"}, Write(i, sub) PROVE Same
  BY <1>9 DEF Write
<1>10. UNCHANGED vars => Same
  BY DEF vars
<1>11. Same => UidGoal
  BY SameUids
<1> HIDE DEF Same
<1> QED BY <1>1, <1>2, <1>3, <1>4, <1>5, <1>6, <1>7, <1>8, <1>9, <1>10, <1>11, NextCases

-----------------------------------------------------------------------------
(* Numbers: the rank of a message among those with a file and a row *)

\* The place of x when the members of S are put in the order of their keys.
RankIn(S, key, x) == Cardinality({y \in S : key[y] <= key[x]})

Keys(S, key) ==
  IsFiniteSet(S) /\ (\A x \in S : key[x] \in Nat) /\ (\A x, y \in S : key[x] = key[y] => x = y)

LEMMA RankGrows ==
  ASSUME NEW S, NEW key, Keys(S, key), NEW x \in S, NEW y \in S
  PROVE  /\ RankIn(S, key, x) \in 1 .. Cardinality(S)
         /\ key[x] < key[y] => RankIn(S, key, x) < RankIn(S, key, y)
<1> DEFINE X == {z \in S : key[z] <= key[x]}  Y == {z \in S : key[z] <= key[y]}
<1>1. key[x] \in Nat /\ key[y] \in Nat /\ \A z \in S : key[z] \in Nat
  BY DEF Keys
<1>2. X \in SUBSET S /\ Y \in SUBSET S /\ x \in X /\ y \in Y /\ IsFiniteSet(S)
  BY <1>1 DEF Keys
<1>3. key[x] < key[y] => X \in SUBSET Y /\ y \notin X
  BY <1>1
<1>4. RankIn(S, key, x) = Cardinality(X) /\ RankIn(S, key, y) = Cardinality(Y)
  BY DEF RankIn
<1> HIDE DEF X, Y
<1>5. IsFiniteSet(X) /\ IsFiniteSet(Y) /\ Cardinality(X) <= Cardinality(S)
  BY <1>2, FS_Subset
<1>6. Cardinality(X) \in Nat /\ Cardinality(Y) \in Nat /\ Cardinality(S) \in Nat /\ Cardinality(X) # 0
  BY <1>2, <1>5, FS_CardinalityType, FS_EmptySet
<1>7. key[x] < key[y] => Cardinality(X) <= Cardinality(Y) /\ Cardinality(X) # Cardinality(Y)
  BY <1>2, <1>3, <1>5, FS_Subset
<1> QED BY <1>4, <1>5, <1>6, <1>7

LEMMA RankOrder ==
  ASSUME NEW S, NEW key, Keys(S, key), NEW x \in S, NEW y \in S, RankIn(S, key, x) < RankIn(S, key, y)
  PROVE  key[x] < key[y]
<1>1. key[x] \in Nat /\ key[y] \in Nat /\ (key[x] = key[y] => x = y)
  BY DEF Keys
<1>2. RankIn(S, key, x) \in Nat /\ RankIn(S, key, y) \in Nat
  BY RankGrows
<1>3. key[y] < key[x] => RankIn(S, key, y) < RankIn(S, key, x)
  BY RankGrows
<1> QED BY <1>1, <1>2, <1>3

\* Every place is taken, so the definition of Ascending chooses what it says.
LEMMA Ascends ==
  ASSUME NEW S, NEW key, Keys(S, key)
  PROVE  /\ Ascending(S, key) \in Seq(S) /\ Len(Ascending(S, key)) = Cardinality(S)
         /\ \A n \in 1 .. Cardinality(S) : RankIn(S, key, Ascending(S, key)[n]) = n
<1> DEFINE size == Cardinality(S)
           r == [x \in S |-> RankIn(S, key, x)]
<1>1. IsFiniteSet(S) /\ size \in Nat
  BY FS_CardinalityType DEF Keys
<1>2. r \in [S -> 1 .. size]
  BY RankGrows
<1>3. ASSUME NEW x \in S, NEW y \in S, r[x] = r[y] PROVE x = y
  <2>1. RankIn(S, key, x) = RankIn(S, key, y) /\ RankIn(S, key, x) \in Nat
    BY <1>3, RankGrows
  <2>2. key[x] \in Nat /\ key[y] \in Nat /\ (key[x] = key[y] => x = y)
    BY DEF Keys
  <2>3. ~ (key[x] < key[y]) /\ ~ (key[y] < key[x])
    BY <2>1, RankGrows
  <2> QED BY <2>2, <2>3
<1> HIDE DEF r, size
<1>4. r \in Injection(S, 1 .. size)
  BY <1>2, <1>3 DEF Injection, IsInjective
<1>5. IsFiniteSet(1 .. size) /\ Cardinality(1 .. size) = size
  BY <1>1, FS_Interval
<1>6. r \in Surjection(S, 1 .. size)
  BY <1>4, <1>5, FS_Injection DEF size
<1>7. \A n \in 1 .. size : \E x \in S : RankIn(S, key, x) = n
  BY <1>6 DEF Surjection, r
<1>8. Ascending(S, key) = [n \in 1 .. size |-> CHOOSE x \in S : RankIn(S, key, x) = n]
  BY DEF Ascending, RankIn, size
<1>9. \A n \in 1 .. size : Ascending(S, key)[n] \in S /\ RankIn(S, key, Ascending(S, key)[n]) = n
  BY <1>7, <1>8
<1>10. PICK a : a = Ascending(S, key)
  OBVIOUS
<1>11. a \in [1 .. size -> S]
  BY <1>8, <1>9, <1>10
<1>12. a \in Seq(S) /\ Len(a) = size
  BY <1>1, <1>11
<1> QED BY <1>9, <1>10, <1>12 DEF size

Placed  == Present \cap Rows
Rank(i) == RankIn(Placed, uid, i)

\* UIDs tell messages apart, and a row comes after its file.
RowsInv ==
  /\ \A i, j \in Rows : uid[i] = uid[j] => i = j
  /\ \A i \in Ids : place[i] = "none" => uid[i] = 0

\* Rows that came after a listing of the rows have greater UIDs.
Listing == c.pc \in {"fetch new", "fetch cur", "move new", "move cur"}
KnownInv == Listing => c.known \subseteq Rows /\ \A i \in c.known, j \in Rows \ c.known : uid[i] < uid[j]

\* Files that came into "new" after it was listed have rows that came after.
ListedAll == c.pc \in {"fetch cur", "move cur"}
ListedInv ==
  ListedAll /\ ~renumbered =>
    c.counted \subseteq Present /\ c.known \cap In("new") \subseteq c.counted

\* Each file to be removed will have the number told when its turn comes.
Job == [id : Ids, sub : {"new", "cur"}, seq : Int]
Ranked(jobs) ==
  /\ jobs \in Seq(Job)
  /\ \A k \in 1 .. Len(jobs) :
       /\ jobs[k].id \in Placed /\ Rank(jobs[k].id) = jobs[k].seq + k - 1
       /\ \A j \in 1 .. k - 1 : uid[jobs[j].id] < uid[jobs[k].id]
TodoInv == At("remove") /\ ~renumbered => Ranked(todo)

\* The client's numbers are the ranks, also between two commands' steps.
NumbersInv ==
  ~renumbered =>
    /\ view \in Seq(Nat)
    /\ \A n \in 1 .. Len(view) : view[n] # 0 => \E i \in Placed : uid[i] = view[n] /\ Rank(i) = n

RankInv == RowsInv /\ KnownInv /\ ListedInv /\ TodoInv /\ NumbersInv

LEMMA PlacedKeys ==
  ASSUME TypeOK, RowsInv PROVE Keys(Placed, uid) /\ Placed \subseteq Ids /\ \A i \in Placed : Rank(i) \in Nat \ {0}
<1>1. IsFiniteSet(Placed) /\ Placed \subseteq Ids
  <2>1. IsFiniteSet(Ids) /\ Placed \in SUBSET Ids
    BY FS_Interval, BoundAssumption DEF Ids, Placed, Rows
  <2> QED BY <2>1, FS_Subset
<1>2. (\A i \in Placed : uid[i] \in Nat) /\ \A i, j \in Placed : uid[i] = uid[j] => i = j
  BY DEF Placed, Rows, TypeOK, RowsInv
<1>3. Keys(Placed, uid)
  BY <1>1, <1>2 DEF Keys
<1>4. \A i \in Placed : Rank(i) \in Nat \ {0}
  BY <1>3, RankGrows DEF Rank
<1> QED BY <1>1, <1>3, <1>4

\* Messages that gain a row, as they do above all others, change no rank.
Grows ==
  /\ Placed \subseteq Placed'
  /\ \A i \in Placed : uid'[i] = uid[i]
  /\ \A i \in Placed, j \in Placed' \ Placed : uid[i] < uid'[j]

LEMMA RanksKept ==
  ASSUME TypeOK, TypeOK', RowsInv, Grows
  PROVE  \A i \in Placed : Rank(i)' = Rank(i)
<1> SUFFICES ASSUME NEW i \in Placed PROVE Rank(i)' = Rank(i)
  OBVIOUS
<1>1. \A j \in Placed : uid[j] \in Nat
  BY DEF Placed, Rows, TypeOK
<1>2. \A j \in Placed' : uid'[j] \in Nat
  BY DEF Placed, Rows, TypeOK
<1>3. \A j \in Placed' : uid'[j] <= uid'[i] => j \in Placed
  BY <1>1, <1>2 DEF Grows
<1>4. {j \in Placed' : uid'[j] <= uid'[i]} = {j \in Placed : uid[j] <= uid[i]}
  BY <1>3 DEF Grows
<1> QED BY <1>4 DEF Rank, RankIn

\* When a message is removed, those after it have the rank before.
LEMMA RankRemoved ==
  ASSUME TypeOK, RowsInv, NEW g \in Placed, Placed' = Placed \ {g}, uid' = uid
  PROVE  \A i \in Placed' : Rank(i)' = IF uid[i] < uid[g] THEN Rank(i) ELSE Rank(i) - 1
<1> SUFFICES ASSUME NEW i \in Placed' PROVE Rank(i)' = IF uid[i] < uid[g] THEN Rank(i) ELSE Rank(i) - 1
  OBVIOUS
<1> DEFINE U == {j \in Placed : uid[j] <= uid[i]}
<1>1. \A j \in Placed : uid[j] \in Nat
  BY DEF Placed, Rows, TypeOK
<1>2. i \in Placed /\ uid[i] # uid[g]
  BY PlacedKeys DEF Keys
<1>3. {j \in Placed' : uid'[j] <= uid'[i]} = U \ {g}
  OBVIOUS
<1>4. g \in U <=> ~ (uid[i] < uid[g])
  BY <1>1, <1>2
<1>5. IsFiniteSet(U)
  <2>1. IsFiniteSet(Placed) /\ U \in SUBSET Placed
    BY PlacedKeys DEF Keys
  <2> QED BY <2>1, FS_Subset
<1>6. Rank(i) = Cardinality(U) /\ Rank(i)' = Cardinality(U \ {g})
  BY <1>3 DEF Rank, RankIn
<1> HIDE DEF U
<1>7. Cardinality(U \ {g}) = IF g \in U THEN Cardinality(U) - 1 ELSE Cardinality(U)
  BY <1>5, FS_RemoveElement
<1> QED BY <1>4, <1>6, <1>7

\* What the client knows, and what is to be removed, stay right as ranks do.
LEMMA NumbersKept ==
  ASSUME TypeOK, TypeOK', RowsInv, Grows, NumbersInv, ~renumbered' => ~renumbered,
         view \in Seq(Nat) => view' \in Seq(Nat)
           /\ \A n \in 1 .. Len(view') : view'[n] # 0 => n \in 1 .. Len(view) /\ view'[n] = view[n]
  PROVE  NumbersInv'
<1> SUFFICES ASSUME ~renumbered' PROVE NumbersInv'
  BY DEF NumbersInv
<1>1. view \in Seq(Nat) /\ view' \in Seq(Nat)
  BY DEF NumbersInv
<1>2. ASSUME NEW n \in 1 .. Len(view'), view'[n] # 0
      PROVE  \E i \in Placed' : uid'[i] = view'[n] /\ Rank(i)' = n
  <2>1. n \in 1 .. Len(view) /\ view'[n] = view[n]
    BY <1>1, <1>2
  <2>2. PICK i \in Placed : uid[i] = view[n] /\ Rank(i) = n
    BY <1>2, <2>1 DEF NumbersInv
  <2>3. i \in Placed' /\ uid'[i] = uid[i] /\ Rank(i)' = Rank(i)
    BY RanksKept DEF Grows
  <2> QED BY <2>1, <2>2, <2>3
<1> QED BY <1>1, <1>2 DEF NumbersInv

LEMMA RankedKept ==
  ASSUME TypeOK, TypeOK', RowsInv, Grows, NEW jobs, Ranked(jobs), todo' = jobs
  PROVE  Ranked(todo)'
<1>1. ASSUME NEW k \in 1 .. Len(jobs)
      PROVE  /\ jobs[k].id \in Placed' /\ Rank(jobs[k].id)' = jobs[k].seq + k - 1
             /\ \A j \in 1 .. k - 1 : uid'[jobs[j].id] < uid'[jobs[k].id]
  <2>1. Len(jobs) \in Nat /\ \A j \in 1 .. k - 1 : j \in 1 .. Len(jobs)
    BY DEF Ranked
  <2>2. \A j \in 1 .. Len(jobs) : jobs[j].id \in Placed
    BY DEF Ranked
  <2>3. Rank(jobs[k].id)' = Rank(jobs[k].id)
    <3>1. PICK i \in Placed : i = jobs[k].id
      BY <2>2
    <3> QED BY <3>1, RanksKept
  <2>4. \A j \in 1 .. k - 1 : uid'[jobs[j].id] < uid'[jobs[k].id]
    <3> SUFFICES ASSUME NEW j \in 1 .. k - 1 PROVE uid'[jobs[j].id] < uid'[jobs[k].id]
      OBVIOUS
    <3>1. uid[jobs[j].id] < uid[jobs[k].id]
      BY DEF Ranked
    <3>2. uid'[jobs[j].id] = uid[jobs[j].id] /\ uid'[jobs[k].id] = uid[jobs[k].id]
      BY <2>1, <2>2 DEF Grows
    <3> QED BY <3>1, <3>2
  <2> QED BY <2>2, <2>3, <2>4 DEF Grows, Ranked
<1>2. jobs \in Seq(Job)
  BY DEF Ranked
<1> QED BY <1>1, <1>2 DEF Ranked, Job

-----------------------------------------------------------------------------
(* Listings *)

LEMMA Arranged ==
  ASSUME NEW S, IsFiniteSet(S), NEW f \in Arrangements(S)
  PROVE  f \in Seq(S) /\ (S # {} => Len(f) # 0) /\ (S = {} => f = <<>>)
<1>1. PICK n : n = Cardinality(S)
  OBVIOUS
<1>2. n \in Nat /\ (n = 0 <=> S = {})
  BY <1>1, FS_CardinalityType, FS_EmptySet
<1>3. f \in [1 .. n -> S]
  BY <1>1 DEF Arrangements
<1>4. f \in Seq(S) /\ Len(f) = n
  BY <1>2, <1>3
<1> QED BY <1>2, <1>4

LEMMA IdsFinite == IsFiniteSet(Ids)
BY FS_Interval, BoundAssumption DEF Ids

LEMMA FilesFacts ==
  ASSUME TypeOK, ListedInv, ListedAll, ~renumbered, c.counted \cap In("cur") = {}
  PROVE  /\ IsFiniteSet(Files) /\ Files \subseteq [id : Ids, sub : {"new", "cur"}]
         /\ \A f \in Files : f.id \in Present
         /\ \A f, g \in Files : f.id = g.id => f = g
         /\ \A i \in c.counted \cup In("cur") : \E f \in Files : f.id = i
<1>1. c.counted \subseteq Ids /\ c.counted \subseteq Present /\ In("cur") \subseteq Ids /\ In("cur") \subseteq Present
  <2>1. c.counted \subseteq Ids
    BY DEF TypeOK
  <2>2. c.counted \subseteq Present
    BY DEF ListedInv
  <2> QED BY <2>1, <2>2 DEF In, Present
<1>2. ASSUME NEW f \in Files
      PROVE  /\ f \in [id : Ids, sub : {"new", "cur"}] /\ f.id \in Present
             /\ (f.id \in c.counted /\ f.sub = "new") \/ (f.id \in In("cur") /\ f.sub = "cur")
  BY <1>1 DEF Files
<1>3. ASSUME NEW f \in Files, NEW g \in Files, f.id = g.id PROVE f = g
  <2>1. f.sub = g.sub
    BY <1>2, <1>3
  <2>2. f \in [id : Ids, sub : {"new", "cur"}] /\ g \in [id : Ids, sub : {"new", "cur"}]
    BY <1>2
  <2> QED BY <1>3, <2>1, <2>2
<1>4. IsFiniteSet(Files)
  <2> DEFINE h == [f \in Files |-> f.id]
  <2>1. h \in [Files -> Ids] /\ \A f, g \in Files : h[f] = h[g] => f = g
    BY <1>2, <1>3
  <2> HIDE DEF h
  <2>2. h \in Injection(Files, Ids)
    BY <2>1 DEF Injection, IsInjective
  <2> QED BY <2>2, IdsFinite, FS_Injection
<1>5. \A i \in c.counted \cup In("cur") : \E f \in Files : f.id = i
  <2>1. \A i \in c.counted : [id |-> i, sub |-> "new"] \in Files
    BY DEF Files
  <2>2. \A i \in In("cur") : [id |-> i, sub |-> "cur"] \in Files
    BY DEF Files
  <2> QED BY <2>1, <2>2
<1> QED BY <1>2, <1>3, <1>4, <1>5

\* When all that was listed has a row, and nothing was listed twice, the place in
\* the listing is the rank.
AllHaveRows(list) == \A k \in DOMAIN list : Listed(list[k].id) # 0

LEMMA ListingRanks ==
  ASSUME TypeOK, RowsInv, KnownInv, ListedInv, ListedAll, ~renumbered,
         NEW list, list \in Listings, c.counted \cap In("cur") = {}, AllHaveRows(list)
  PROVE  /\ list \in Seq([id : Ids, sub : {"new", "cur"}])
         /\ \A k \in 1 .. Len(list) : /\ list[k].id \in Placed /\ Rank(list[k].id) = k
                                      /\ Listed(list[k].id) = uid[list[k].id]
<1> DEFINE key == ByUid
           F == WithRow
<1> USE DEF ByUid, WithRow
<1>1. /\ IsFiniteSet(Files) /\ Files \subseteq [id : Ids, sub : {"new", "cur"}]
      /\ \A f \in Files : f.id \in Ids /\ f.id \in Present
      /\ \A f, g \in Files : f.id = g.id => f = g
      /\ \A i \in c.counted \cup In("cur") : \E f \in Files : f.id = i
  BY FilesFacts
<1>2. /\ \A i \in Ids : uid[i] \in Nat /\ Listed(i) \in Nat
      /\ \A i \in Ids : Listed(i) # 0 => i \in c.known /\ Listed(i) = uid[i]
  BY DEF TypeOK, Listed
<1>3. /\ c.known \subseteq Rows /\ \A i \in c.known, j \in Rows \ c.known : uid[i] < uid[j]
      /\ c.known \cap In("new") \subseteq c.counted
  BY DEF KnownInv, Listing, ListedInv, ListedAll
<1>4. F \in SUBSET Files /\ IsFiniteSet(F)
  BY <1>1, FS_Subset
<1>5. ASSUME NEW f \in F
      PROVE  /\ f.id \in Placed /\ f.id \in c.known /\ f.id \in Ids /\ uid[f.id] \in Nat
             /\ Listed(f.id) = uid[f.id]
             /\ key[f] = 2 * uid[f.id] \/ key[f] = 2 * uid[f.id] + 1
  <2>1. f.id \in Ids /\ f.id \in Present /\ Listed(f.id) # 0
    BY <1>1
  <2>2. f.id \in c.known /\ Listed(f.id) = uid[f.id] /\ uid[f.id] \in Nat
    BY <1>2, <2>1
  <2>3. f.id \in Placed
    BY <1>3, <2>1, <2>2 DEF Placed
  <2>4. key[f] = 2 * uid[f.id] + (IF f.sub = "new" THEN 0 ELSE 1)
    BY <2>2
  <2>5. key[f] = 2 * uid[f.id] \/ key[f] = 2 * uid[f.id] + 1
    <3> HIDE DEF key
    <3> QED BY <2>2, <2>4
  <2> QED BY <2>1, <2>2, <2>3, <2>5
<1>6. ASSUME NEW f \in F, NEW g \in F, uid[f.id] = uid[g.id] PROVE f = g
  <2>1. f.id = g.id
    BY <1>5, <1>6 DEF RowsInv, Placed
  <2> QED BY <1>1, <2>1
<1> HIDE DEF ByUid, WithRow, key, F
<1>7. Keys(F, key)
  <2>1. \A f \in F : key[f] \in Nat
    BY <1>5
  <2>2. ASSUME NEW f \in F, NEW g \in F, key[f] = key[g] PROVE f = g
    <3>1. PICK a \in Nat, b \in Nat : a = uid[f.id] /\ b = uid[g.id]
      BY <1>5
    <3>2. key[f] = 2 * a \/ key[f] = 2 * a + 1
      BY <1>5, <3>1
    <3>3. key[g] = 2 * b \/ key[g] = 2 * b + 1
      BY <1>5, <3>1
    <3>4. a = b
      BY <2>2, <3>2, <3>3
    <3> QED BY <1>6, <3>1, <3>4
  <2> QED BY <1>4, <2>1, <2>2 DEF Keys
<1>8. PICK asc : asc = Ascending(F, key)
  OBVIOUS
<1>9. asc \in Seq(F) /\ Len(asc) = Cardinality(F) /\ \A n \in 1 .. Cardinality(F) : RankIn(F, key, asc[n]) = n
  BY <1>7, <1>8, Ascends
<1>10. PICK new \in Arrangements(Rowless("new")), cur \in Arrangements(Rowless("cur")) : list = new \o cur \o asc
  BY <1>8 DEF Listings, key, F
<1>11. list = asc
  <2>1. /\ Rowless("new") \in SUBSET Files /\ Rowless("cur") \in SUBSET Files
        /\ \A f \in Rowless("new") \cup Rowless("cur") : Listed(f.id) = 0
    BY DEF Rowless
  <2>2. IsFiniteSet(Rowless("new")) /\ IsFiniteSet(Rowless("cur"))
    BY <1>1, <2>1, FS_Subset
  <2>3. new \in Seq(Rowless("new")) /\ (Rowless("new") # {} => Len(new) # 0) /\ (Rowless("new") = {} => new = <<>>)
    BY <2>2, Arranged
  <2>4. cur \in Seq(Rowless("cur")) /\ (Rowless("cur") # {} => Len(cur) # 0) /\ (Rowless("cur") = {} => cur = <<>>)
    BY <2>2, Arranged
  <2>5. new \in Seq(Files) /\ cur \in Seq(Files) /\ asc \in Seq(Files)
    BY <1>4, <1>9, <2>1, <2>3, <2>4, SeqMonotonic
  <2>0. PICK t : t = new \o cur
    OBVIOUS
  <2>m. /\ t \in Seq(Files) /\ list \in Seq(Files) /\ Len(new) \in Nat /\ Len(cur) \in Nat
        /\ Len(list) = Len(new) + Len(cur) + Len(asc) /\ Len(asc) \in Nat
        /\ Len(new) # 0 => list[1] = new[1]
        /\ Len(new) = 0 /\ Len(cur) # 0 => list[1] = cur[1]
    <3>1. /\ t \in Seq(Files) /\ Len(t) = Len(new) + Len(cur) /\ Len(new) \in Nat /\ Len(cur) \in Nat
          /\ Len(new) # 0 => t[1] = new[1]
          /\ Len(new) = 0 /\ Len(cur) # 0 => t[1] = cur[1]
      BY <2>5, <2>0, ConcatProperties, LenProperties
    <3>2. list = t \o asc
      BY <1>10, <2>0
    <3>3. /\ list \in Seq(Files) /\ Len(list) = Len(t) + Len(asc) /\ Len(asc) \in Nat
          /\ Len(t) # 0 => list[1] = t[1]
      <4>1. /\ t \o asc \in Seq(Files) /\ Len(t \o asc) = Len(t) + Len(asc)
            /\ \A i \in 1 .. Len(t) + Len(asc) : (t \o asc)[i] = IF i <= Len(t) THEN t[i] ELSE asc[i - Len(t)]
        BY <2>5, <3>1, ConcatProperties
      <4>2. Len(t) \in Nat /\ Len(asc) \in Nat
        BY <2>5, <3>1, LenProperties
      <4>3. Len(t) # 0 => 1 \in 1 .. Len(t) + Len(asc) /\ 1 <= Len(t)
        BY <4>2
      <4> QED BY <3>2, <4>1, <4>2, <4>3
    <3>4. Len(new) # 0 \/ Len(cur) # 0 => Len(t) # 0
      BY <3>1
    <3> QED BY <3>1, <3>3, <3>4
  <2>6. new = <<>>
    <3> SUFFICES ASSUME Len(new) # 0 PROVE FALSE
      BY <2>3
    <3>1. 1 \in DOMAIN list /\ list[1] = new[1]
      BY <2>m
    <3>2. new[1] \in Rowless("new")
      BY <2>3, <2>m
    <3> QED BY <2>1, <3>1, <3>2 DEF AllHaveRows
  <2>7. cur = <<>>
    <3> SUFFICES ASSUME Len(cur) # 0 PROVE FALSE
      BY <2>4
    <3>1. 1 \in DOMAIN list /\ list[1] = cur[1]
      BY <2>m, <2>6
    <3>2. cur[1] \in Rowless("cur")
      BY <2>4, <2>m
    <3> QED BY <2>1, <3>1, <3>2 DEF AllHaveRows
  <2>8. <<>> \o <<>> = <<>> /\ <<>> \o asc = asc
    BY <2>5, ConcatEmptySeq, EmptySeq
  <2> QED BY <1>10, <2>6, <2>7, <2>8
<1>12. ASSUME NEW f \in F PROVE Rank(f.id) = RankIn(F, key, f)
  <2> DEFINE X == {g \in F : key[g] <= key[f]}
             Y == {j \in Placed : uid[j] <= uid[f.id]}
             h == [g \in X |-> g.id]
  <2>1. \A g \in F : key[g] <= key[f] <=> uid[g.id] <= uid[f.id]
    <3> SUFFICES ASSUME NEW g \in F PROVE key[g] <= key[f] <=> uid[g.id] <= uid[f.id]
      OBVIOUS
    <3>1. uid[g.id] = uid[f.id] => key[g] = key[f]
      BY <1>6
    <3>2. PICK a \in Nat, b \in Nat : a = uid[f.id] /\ b = uid[g.id]
      BY <1>5
    <3>3. key[f] = 2 * a \/ key[f] = 2 * a + 1
      BY <1>5, <3>2
    <3>4. key[g] = 2 * b \/ key[g] = 2 * b + 1
      BY <1>5, <3>2
    <3> QED BY <3>1, <3>2, <3>3, <3>4
  <2>2. \A j \in Y : \E g \in F : g.id = j
    <3> SUFFICES ASSUME NEW j \in Y PROVE \E g \in F : g.id = j
      OBVIOUS
    <3>1. j \in Rows /\ j \in Present /\ j \in Ids /\ uid[j] \in Nat \ {0} /\ uid[j] <= uid[f.id]
      BY <1>2 DEF Placed, Rows
    <3>2. j \in c.known
      <4>1. f.id \in c.known /\ uid[f.id] \in Nat
        BY <1>5
      <4>2. ~ (uid[f.id] < uid[j])
        BY <3>1, <4>1
      <4> QED BY <1>3, <3>1, <4>1, <4>2
    <3>3. j \in c.counted \cup In("cur")
      BY <1>3, <3>1, <3>2 DEF Present
    <3>4. PICK g \in Files : g.id = j
      BY <1>1, <3>3
    <3>5. Listed(j) # 0
      BY <3>1, <3>2 DEF Listed
    <3> QED BY <3>4, <3>5 DEF F, WithRow
  <2>3. h \in Bijection(X, Y)
    <3>1. h \in [X -> Y]
      BY <1>5, <2>1
    <3>2. \A g, k \in X : h[g] = h[k] => g = k
      BY <1>1, <1>4
    <3>3. \A j \in Y : \E g \in X : h[g] = j
      BY <2>1, <2>2
    <3> HIDE DEF h, X, Y
    <3> QED BY <3>1, <3>2, <3>3 DEF Bijection, Injection, Surjection, IsInjective
  <2>4. IsFiniteSet(X)
    <3>1. X \in SUBSET F
      OBVIOUS
    <3> QED BY <1>4, <3>1, FS_Subset
  <2>5. Cardinality(Y) = Cardinality(X)
    <3> HIDE DEF h, X, Y
    <3> QED BY <2>3, <2>4, FS_Bijection DEF ExistsBijection
  <2> QED BY <2>5 DEF Rank, RankIn
<1>13. ASSUME NEW k \in 1 .. Len(list)
       PROVE  list[k].id \in Placed /\ Rank(list[k].id) = k /\ Listed(list[k].id) = uid[list[k].id]
  <2>1. list[k] \in F /\ RankIn(F, key, list[k]) = k
    <3>1. k \in 1 .. Cardinality(F) /\ k \in 1 .. Len(asc)
      BY <1>9, <1>11
    <3> QED BY <1>9, <1>11, <3>1, ElementOfSeq
  <2> QED BY <1>5, <1>12, <2>1
<1>14. list \in Seq([id : Ids, sub : {"new", "cur"}])
  <2>1. F \subseteq [id : Ids, sub : {"new", "cur"}]
    BY <1>1, <1>4
  <2> QED BY <1>9, <1>11, <2>1, SeqMonotonic
<1> QED BY <1>13, <1>14

\* The jobs made of ranked messages have their ranks less the jobs before them.
LEMMA JobsRanked ==
  ASSUME TypeOK, RowsInv, NEW list \in Seq([id : Ids, sub : {"new", "cur"}]), NEW S \in SUBSET (1 .. Len(list)),
         \A k \in S : list[k].id \in Placed /\ Rank(list[k].id) = k
  PROVE  Ranked(Jobs(list, S))
<1> DEFINE key == [k \in S |-> k]
<1>1. Len(list) \in Nat /\ S \subseteq Nat
  OBVIOUS
<1>2. IsFiniteSet(S)
  <2>1. IsFiniteSet(1 .. Len(list))
    BY <1>1, FS_Interval
  <2> QED BY <2>1, FS_Subset
<1>3. Keys(S, key)
  BY <1>1, <1>2 DEF Keys
<1>4. PICK picked : picked = Ascending(S, key)
  OBVIOUS
<1>5. PICK n \in Nat : n = Cardinality(S)
  BY <1>2, FS_CardinalityType
<1>6. picked \in Seq(S) /\ Len(picked) = n /\ \A k \in 1 .. n : RankIn(S, key, picked[k]) = k
  BY <1>3, <1>4, <1>5, Ascends
<1>7. \A k \in 1 .. n : picked[k] \in S
  BY <1>6
<1>8. ASSUME NEW j \in 1 .. n, NEW k \in 1 .. n, j < k PROVE picked[j] < picked[k]
  <2>1. RankIn(S, key, picked[j]) < RankIn(S, key, picked[k])
    BY <1>6, <1>8
  <2>2. key[picked[j]] < key[picked[k]]
    <3> HIDE DEF key
    <3> QED BY <1>3, <1>7, <2>1, RankOrder
  <2> QED BY <1>7, <2>2
<1>9. PICK jobs : jobs = Jobs(list, S)
  OBVIOUS
<1>10. jobs = [k \in 1 .. n |-> [id |-> list[picked[k]].id, sub |-> list[picked[k]].sub, seq |-> picked[k] - (k - 1)]]
  <2>1. DOMAIN picked = 1 .. n
    BY <1>6
  <2> QED BY <1>4, <1>9, <2>1 DEF Jobs, adjusted_seq
<1>11. ASSUME NEW k \in 1 .. n
       PROVE  /\ jobs[k] \in Job /\ jobs[k].id = list[picked[k]].id /\ jobs[k].seq = picked[k] - (k - 1)
              /\ jobs[k].id \in Placed /\ Rank(jobs[k].id) = picked[k] /\ picked[k] \in Nat
  <2>1. picked[k] \in 1 .. Len(list) /\ picked[k] \in S /\ picked[k] \in Nat
    BY <1>1, <1>7
  <2>2. list[picked[k]] \in [id : Ids, sub : {"new", "cur"}]
    <3>1. PICK there \in 1 .. Len(list) : there = picked[k]
      BY <2>1
    <3> QED BY <3>1, ElementOfSeq
  <2>3. jobs[k] = [id |-> list[picked[k]].id, sub |-> list[picked[k]].sub, seq |-> picked[k] - (k - 1)]
    BY <1>10
  <2>4. jobs[k] \in Job /\ jobs[k].id = list[picked[k]].id /\ jobs[k].seq = picked[k] - (k - 1)
    BY <2>1, <2>2, <2>3 DEF Job
  <2> QED BY <2>1, <2>4
<1>12. jobs \in Seq(Job) /\ Len(jobs) = n
  <2>1. jobs \in [1 .. n -> Job]
    BY <1>10, <1>11
  <2> QED BY <2>1
<1>13. ASSUME NEW k \in 1 .. n, NEW j \in 1 .. k - 1 PROVE uid[jobs[j].id] < uid[jobs[k].id]
  <2>1. j \in 1 .. n /\ j < k
    OBVIOUS
  <2>2. Rank(jobs[j].id) < Rank(jobs[k].id)
    BY <1>8, <1>11, <2>1
  <2>3. jobs[j].id \in Placed /\ jobs[k].id \in Placed
    BY <1>11, <2>1
  <2> QED BY <2>2, <2>3, PlacedKeys, RankOrder DEF Rank
<1>14. \A k \in 1 .. n : Rank(jobs[k].id) = jobs[k].seq + k - 1
  BY <1>11
<1> QED BY <1>9, <1>11, <1>12, <1>13, <1>14 DEF Ranked

-----------------------------------------------------------------------------
(* Numbers: the steps *)

LEMMA SamePlaced ==
  ASSUME uid' = uid, Placed' = Placed PROVE Grows
BY DEF Grows

LEMMA SameRowsInv ==
  ASSUME RowsInv, uid' = uid, \A i \in Ids : place'[i] = "none" => place[i] = "none"
  PROVE  RowsInv'
BY DEF RowsInv, Rows

\* EXISTS adds numbers of which nothing is known.
LEMMA ToldZeros ==
  ASSUME NEW n \in Nat, Told(n), view \in Seq(Nat)
  PROVE  /\ view' \in Seq(Nat)
         /\ \A m \in 1 .. Len(view') : view'[m] # 0 => m \in 1 .. Len(view) /\ view'[m] = view[m]
<1>1. Len(view) \in Nat
  OBVIOUS
<1>2. CASE n > Len(view)
  <2>1. PICK zeros : zeros = [k \in 1 .. n - Len(view) |-> 0]
    OBVIOUS
  <2>2. n - Len(view) \in Nat
    BY <1>1, <1>2
  <2>3. zeros \in Seq(Nat) /\ Len(zeros) = n - Len(view) /\ \A k \in 1 .. Len(zeros) : zeros[k] = 0
    BY <2>1, <2>2
  <2>4. view' = view \o zeros
    BY <1>2, <2>1 DEF Told
  <2>5. /\ view' \in Seq(Nat) /\ Len(view') = Len(view) + Len(zeros)
        /\ \A m \in 1 .. Len(view) + Len(zeros) : view'[m] = IF m <= Len(view) THEN view[m] ELSE zeros[m - Len(view)]
    BY <2>3, <2>4, ConcatProperties
  <2>6. ASSUME NEW m \in 1 .. Len(view'), view'[m] # 0 PROVE m \in 1 .. Len(view) /\ view'[m] = view[m]
    <3>1. ~ (m <= Len(view)) => m - Len(view) \in 1 .. Len(zeros)
      BY <1>1, <2>2, <2>3, <2>5
    <3>2. m <= Len(view)
      BY <2>3, <2>5, <2>6, <3>1
    <3> QED BY <1>1, <2>5, <3>2
  <2> QED BY <2>5, <2>6
<1>3. CASE ~ (n > Len(view))
  BY <1>3 DEF Told
<1> QED BY <1>2, <1>3

\* Steps that end neither in a listing nor in a removal, and change no rank.
LEMMA PlainStep ==
  ASSUME TypeOK, TypeOK', RankInv, uid' = uid, Placed' = Placed,
         \A i \in Ids : place'[i] = "none" => place[i] = "none",
         ~Listing', c'.pc # "remove", renumbered' = renumbered,
         view' = view \/ \E n \in Nat : Told(n)
  PROVE  RankInv'
<1>1. RowsInv'
  BY SameRowsInv DEF RankInv
<1>2. KnownInv' /\ ListedInv' /\ TodoInv'
  BY DEF KnownInv, ListedInv, ListedAll, TodoInv, Listing, At
<1>3. view \in Seq(Nat) => view' \in Seq(Nat)
        /\ \A n \in 1 .. Len(view') : view'[n] # 0 => n \in 1 .. Len(view) /\ view'[n] = view[n]
  BY ToldZeros
<1>4. NumbersInv'
  BY <1>3, SamePlaced, NumbersKept DEF RankInv
<1> QED BY <1>1, <1>2, <1>4 DEF RankInv

LEMMA SamePlaces ==
  ASSUME place' = place, uid' = uid PROVE Placed' = Placed /\ Rows' = Rows /\ Present' = Present
  BY DEF Placed, Present, In, Rows

\* Steps that neither tell numbers nor change a rank.
LEMMA SameNumbers ==
  ASSUME TypeOK, TypeOK', RowsInv, NumbersInv, Grows, view' = view, ~renumbered' => ~renumbered
  PROVE  NumbersInv'
<1>1. view \in Seq(Nat) => view' \in Seq(Nat)
        /\ \A n \in 1 .. Len(view') : view'[n] # 0 => n \in 1 .. Len(view) /\ view'[n] = view[n]
  OBVIOUS
<1> QED BY <1>1, NumbersKept

\* SELECT forgets what the client knew.
LEMMA SelectNewStep ==
  ASSUME TypeOK, RankInv, SelectNew PROVE RankInv'
<1>1. place' = place /\ uid' = uid /\ view' = [k \in 1 .. Total |-> 0] /\ c'.pc = "uidnext"
  BY DEF SelectNew, folder, Ready
<1>2. PICK n \in Nat : n = Total
  <2>1. Cardinality(In("new")) \in Nat
    BY InIsFinite
  <2>2. c.count \in Nat
    BY DEF TypeOK
  <2> QED BY <2>1, <2>2 DEF Total
<1>3. RowsInv'
  BY <1>1, SameRowsInv DEF RankInv
<1>4. KnownInv' /\ ListedInv' /\ TodoInv'
  BY <1>1 DEF KnownInv, ListedInv, ListedAll, TodoInv, Listing, At
<1>5. view' \in Seq(Nat) /\ \A k \in 1 .. Len(view') : view'[k] = 0
  BY <1>1, <1>2
<1> QED BY <1>3, <1>4, <1>5 DEF RankInv, NumbersInv

LEMMA ListRowsStep ==
  ASSUME TypeOK, TypeOK', RankInv, ListRows PROVE RankInv'
<1>1. /\ place' = place /\ uid' = uid /\ view' = view /\ renumbered' = renumbered
      /\ c'.pc \in {"fetch new", "move new"} /\ c'.known = Rows
  BY DEF ListRows, TypeOK, folder, client, history
<1>2. Placed' = Placed /\ Rows' = Rows
  BY <1>1, SamePlaces
<1>3. RowsInv'
  BY <1>1, SameRowsInv DEF RankInv
<1>4. KnownInv' /\ ListedInv' /\ TodoInv'
  BY <1>1, <1>2 DEF KnownInv, ListedInv, ListedAll, TodoInv, At
<1>5. NumbersInv'
  BY <1>1, <1>2, SamePlaced, SameNumbers DEF RankInv
<1> QED BY <1>3, <1>4, <1>5 DEF RankInv

LEMMA ListNewStep ==
  ASSUME TypeOK, TypeOK', RankInv, ListNew PROVE RankInv'
<1>1. /\ place' = place /\ uid' = uid /\ view' = view /\ renumbered' = renumbered /\ Listing
      /\ c'.pc \in {"fetch cur", "move cur"} /\ c'.known = c.known /\ c'.counted = In("new")
  BY DEF ListNew, TypeOK, folder, client, history, Listing
<1>2. Placed' = Placed /\ Rows' = Rows /\ Present' = Present /\ In("new")' = In("new")
  BY <1>1, SamePlaces DEF In
<1>3. RowsInv'
  BY <1>1, SameRowsInv DEF RankInv
<1>4. KnownInv'
  BY <1>1, <1>2 DEF KnownInv, RankInv
<1>5. ListedInv' /\ TodoInv'
  BY <1>1, <1>2 DEF ListedInv, ListedAll, TodoInv, At, Present
<1>6. NumbersInv'
  BY <1>1, <1>2, SamePlaced, SameNumbers DEF RankInv
<1> QED BY <1>3, <1>4, <1>5, <1>6 DEF RankInv

\* FETCH tells the UID of each number it listed.
LEMMA FetchFilesStep ==
  ASSUME TypeOK, TypeOK', RankInv, FetchFiles PROVE RankInv'
<1>1. place' = place /\ uid' = uid /\ c'.pc = "ready" /\ ListedAll
  BY DEF FetchFiles, folder, Ready, At, ListedAll
<1>2. PICK list \in Listings :
        /\ view' = [k \in 1 .. Max({Len(list), Len(view)}) |-> IF k <= Len(list) THEN Listed(list[k].id) ELSE view[k]]
        /\ Renumber(list)
  BY DEF FetchFiles
<1>3. Placed' = Placed /\ Rank(0)' = Rank(0) /\ \A i : Rank(i)' = Rank(i)
  BY <1>1, SamePlaces DEF Rank, RankIn
<1>4. RowsInv'
  BY <1>1, SameRowsInv DEF RankInv
<1>5. KnownInv' /\ ListedInv' /\ TodoInv'
  <2> USE <1>1
  <2> HIDE DEF ListedAll
  <2> QED BY DEF KnownInv, ListedInv, ListedAll, TodoInv, Listing, At
<1>6. NumbersInv'
  <2> SUFFICES ASSUME ~renumbered' PROVE NumbersInv'
    BY DEF NumbersInv
  <2>1. ~renumbered /\ c.counted \cap In("cur") = {} /\ AllHaveRows(list)
    BY <1>2 DEF Renumber, AllHaveRows
  <2>2. /\ list \in Seq([id : Ids, sub : {"new", "cur"}])
        /\ \A k \in 1 .. Len(list) : /\ list[k].id \in Placed /\ Rank(list[k].id) = k
                                     /\ Listed(list[k].id) = uid[list[k].id]
    BY <1>1, <2>1, ListingRanks DEF RankInv
  <2>3. view \in Seq(Nat) /\ \A n \in 1 .. Len(view) : view[n] # 0 => \E i \in Placed : uid[i] = view[n] /\ Rank(i) = n
    BY <2>1 DEF RankInv, NumbersInv
  <2>4. PICK a \in Nat, b \in Nat : a = Len(list) /\ b = Len(view)
    BY <2>2, <2>3
  <2>5. PICK m \in Nat : m = Max({a, b}) /\ a <= m /\ b <= m /\ (m = a \/ m = b)
    <3>1. PICK t \in {a, b} : \A y \in {a, b} : t >= y
      <4>1. a >= b \/ b >= a
        OBVIOUS
      <4> QED BY <4>1
    <3>2. Max({a, b}) \in {a, b} /\ \A y \in {a, b} : Max({a, b}) >= y
      BY <3>1, MaxIsMax
    <3> QED BY <3>2
  <2>6. view' = [k \in 1 .. m |-> IF k <= a THEN Listed(list[k].id) ELSE view[k]]
    BY <1>2, <2>4, <2>5
  <2>7. ASSUME NEW k \in 1 .. m
        PROVE  /\ k <= a => k \in 1 .. Len(list) /\ view'[k] = uid[list[k].id] /\ view'[k] \in Nat
               /\ ~ (k <= a) => k \in 1 .. Len(view) /\ view'[k] = view[k] /\ view'[k] \in Nat
    <3>1. CASE k <= a
      <4>1. k \in 1 .. Len(list)
        BY <2>4, <3>1
      <4>2. list[k].id \in Placed /\ Listed(list[k].id) = uid[list[k].id]
        BY <2>2, <4>1
      <4>3. uid[list[k].id] \in Nat
        BY <4>2 DEF TypeOK, Placed, Rows
      <4> QED BY <2>6, <3>1, <4>1, <4>2, <4>3
    <3>2. CASE ~ (k <= a)
      <4>1. k \in 1 .. Len(view)
        BY <2>4, <2>5, <3>2
      <4>2. view[k] \in Nat
        BY <2>3, <4>1
      <4> QED BY <2>6, <3>2, <4>1, <4>2
    <3> QED BY <3>1, <3>2
  <2>8. view' \in Seq(Nat) /\ Len(view') = m
    <3>1. PICK v : v = view'
      OBVIOUS
    <3>2. v \in [1 .. m -> Nat]
      BY <2>6, <2>7, <3>1
    <3>3. v \in Seq(Nat) /\ Len(v) = m
      BY <3>2
    <3> QED BY <3>1, <3>3
  <2>9. ASSUME NEW n \in 1 .. m, view'[n] # 0 PROVE \E i \in Placed : uid[i] = view'[n] /\ Rank(i) = n
    <3>1. CASE n <= a
      BY <2>2, <2>7, <3>1
    <3>2. CASE ~ (n <= a)
      BY <2>3, <2>7, <2>9, <3>2
    <3> QED BY <3>1, <3>2
  <2>10. \A n \in 1 .. Len(view') : view'[n] # 0 => \E i \in Placed' : uid'[i] = view'[n] /\ Rank(i)' = n
    BY <1>1, <1>3, <2>8, <2>9
  <2> QED BY <2>8, <2>10 DEF NumbersInv
<1> QED BY <1>4, <1>5, <1>6 DEF RankInv

\* MOVE removes files under the numbers it listed.
LEMMA MoveFilesStep ==
  ASSUME TypeOK, TypeOK', RankInv, MoveFiles PROVE RankInv'
<1>1. place' = place /\ uid' = uid /\ view' = view /\ c'.pc = "remove" /\ ListedAll
  BY DEF MoveFiles, folder, client, Ready, At, ListedAll
<1>2. PICK list \in Listings : todo' = Jobs(list, c.pick \cap DOMAIN list) /\ Renumber(list)
  BY DEF MoveFiles
<1>3. Placed' = Placed
  BY <1>1, SamePlaces
<1>4. RowsInv'
  BY <1>1, SameRowsInv DEF RankInv
<1>5. KnownInv' /\ ListedInv'
  BY <1>1 DEF KnownInv, ListedInv, ListedAll, Listing
<1>6. NumbersInv'
  <2>1. ~renumbered' => ~renumbered
    BY <1>2 DEF Renumber
  <2> QED BY <1>1, <1>3, <2>1, SamePlaced, SameNumbers DEF RankInv
<1>7. TodoInv'
  <2> SUFFICES ASSUME ~renumbered' PROVE Ranked(todo)'
    BY DEF TodoInv
  <2>1. ~renumbered /\ c.counted \cap In("cur") = {} /\ AllHaveRows(list)
    BY <1>2 DEF Renumber, AllHaveRows
  <2>2. /\ list \in Seq([id : Ids, sub : {"new", "cur"}])
        /\ \A k \in 1 .. Len(list) : list[k].id \in Placed /\ Rank(list[k].id) = k
    BY <1>1, <2>1, ListingRanks DEF RankInv
  <2>3. PICK S : S = c.pick \cap DOMAIN list
    OBVIOUS
  <2>4. S \in SUBSET (1 .. Len(list))
    <3>1. DOMAIN list = 1 .. Len(list)
      BY <2>2
    <3> QED BY <2>3, <3>1
  <2>5. Ranked(Jobs(list, S))
    BY <2>2, <2>4, JobsRanked DEF RankInv
  <2>6. Grows
    BY <1>1, <1>3, SamePlaced
  <2>7. todo' = Jobs(list, S)
    BY <1>2, <2>3
  <2> QED BY <2>5, <2>6, <2>7, RankedKept DEF RankInv
<1> QED BY <1>4, <1>5, <1>6, <1>7 DEF RankInv

\* STORE moves and flags; a UID it tells as a number is one that names its message,
\* or the numbers are no longer claimed.
LEMMA StoreStep ==
  ASSUME TypeOK, TypeOK', RankInv, NEW lo, NEW hi, NEW told, STORE(lo, hi, told)
  PROVE  RankInv'
<1>1. PICK S : S = {i \in Present : uid[i] \in lo .. hi}
  OBVIOUS
<1>2. /\ uid' = uid /\ c'.pc = "ready"
      /\ place' = [i \in Ids |-> IF i \in S THEN "cur" ELSE place[i]] \/ place' = place
  BY <1>1 DEF STORE, Begin, Ready
<1>3. PICK uids : uids = {uid[i] : i \in S}
  OBVIOUS
<1>4. /\ view' = [n \in DOMAIN view |-> IF told /\ n \in uids THEN n ELSE view[n]]
      /\ renumbered' = (renumbered \/ (told /\ \E i \in S : ~Holds(uid[i], i)))
  BY <1>1, <1>3 DEF STORE
<1>5. S \subseteq Present
  BY <1>1
<1>6. Present' = Present /\ Rows' = Rows /\ \A j \in Ids : place'[j] = "none" => place[j] = "none"
  <2>1. Rows' = Rows
    BY <1>2 DEF Rows
  <2>2. CASE place' = place
    BY <2>1, <2>2 DEF Present, In
  <2>3. CASE place' = [i \in Ids |-> IF i \in S THEN "cur" ELSE place[i]]
    <3>1. \A j \in Ids : place'[j] = IF j \in S THEN "cur" ELSE place[j]
      BY <2>3
    <3>2. \A j \in S : j \in Ids /\ place[j] \in {"new", "cur"}
      BY <1>5 DEF Present, In
    <3> QED BY <2>1, <3>1, <3>2 DEF Present, In
  <2> QED BY <1>2, <2>2, <2>3
<1>7. Placed' = Placed
  BY <1>6 DEF Placed
<1>8. RowsInv'
  BY <1>2, <1>6, SameRowsInv DEF RankInv
<1>9. KnownInv' /\ ListedInv' /\ TodoInv'
  BY <1>2 DEF KnownInv, ListedInv, ListedAll, TodoInv, Listing, At
<1>10. NumbersInv'
  <2>1. SUFFICES ASSUME ~renumbered'
        PROVE  /\ view' \in Seq(Nat)
               /\ \A n \in 1 .. Len(view') : view'[n] # 0 => \E i \in Placed' : uid'[i] = view'[n] /\ Rank(i)' = n
    BY DEF NumbersInv
  <2>2. ~renumbered /\ (told => \A i \in S : Holds(uid[i], i))
    BY <1>4, <2>1
  <2>3. PICK v : v = view
    OBVIOUS
  <2>4. /\ v \in Seq(Nat)
        /\ \A n \in 1 .. Len(v) : v[n] # 0 => \E i \in Placed : uid[i] = v[n] /\ Rank(i) = n
    BY <2>2, <2>3 DEF RankInv, NumbersInv
  <2>5. PICK w : w = view'
    OBVIOUS
  <2>6. w = [n \in 1 .. Len(v) |-> IF told /\ n \in uids THEN n ELSE v[n]]
    BY <1>4, <2>3, <2>4, <2>5
  <2>7. w \in Seq(Nat) /\ Len(w) = Len(v)
    <3>1. \A n \in 1 .. Len(v) : (IF told /\ n \in uids THEN n ELSE v[n]) \in Nat
      BY <2>4, ElementOfSeq
    <3> QED BY <2>4, <2>6, <3>1
  <2>8. \A i \in Placed : Rank(i)' = Rank(i) /\ uid'[i] = uid[i]
    <3>1. Grows
      BY <1>2, <1>7, SamePlaced
    <3> QED BY <1>2, <3>1, RanksKept DEF RankInv
  <2>9. ASSUME NEW n \in 1 .. Len(v), w[n] # 0 PROVE \E i \in Placed : uid[i] = w[n] /\ Rank(i) = n
    <3>1. CASE told /\ n \in uids
      <4>1. PICK i \in S : uid[i] = n
        BY <1>3, <3>1
      <4>2. PICK order : order = Order
        OBVIOUS
      <4>3. n \in DOMAIN order /\ order[n] = i
        BY <2>2, <3>1, <4>1, <4>2 DEF Holds
      <4>4. Keys(Placed, uid)
        BY PlacedKeys DEF RankInv
      <4>5. order \in Seq(Placed) /\ \A k \in 1 .. Len(order) : RankIn(Placed, uid, order[k]) = k
        BY <4>2, <4>4, Ascends DEF Order, Placed
      <4>6. n \in 1 .. Len(order)
        BY <4>3, <4>5
      <4>7. order[n] \in Placed
        BY <4>5, <4>6, ElementOfSeq
      <4>8. w[n] = n
        BY <2>6, <3>1
      <4>9. i \in Placed /\ Rank(i) = n
        BY <4>3, <4>5, <4>6, <4>7 DEF Rank
      <4> QED BY <4>1, <4>8, <4>9
    <3>2. CASE ~(told /\ n \in uids)
      <4>1. w[n] = v[n]
        BY <2>6, <3>2
      <4> QED BY <2>4, <2>9, <4>1
    <3> QED BY <3>1, <3>2
  <2> QED BY <1>7, <2>5, <2>7, <2>8, <2>9
<1> QED BY <1>8, <1>9, <1>10 DEF RankInv

\* EXPUNGE lists "cur" in the order of the directory; when the numbers it tells
\* are right for the messages it removes, they are their ranks.
LEMMA ExpungeStep ==
  ASSUME TypeOK, TypeOK', RankInv, EXPUNGE PROVE RankInv'
<1> DEFINE C == [id : In("cur"), sub : {"cur"}]
<1>1. place' = place /\ uid' = uid /\ view' = view /\ c'.pc = "remove"
  BY DEF EXPUNGE, Begin, folder, client, Ready
<1>2. PICK list \in Arrangements(C) :
        LET hits == {k \in DOMAIN list : list[k].id \in trashed}
        IN /\ todo' = Jobs(list, hits)
           /\ renumbered' = (renumbered \/ \E k \in hits : ~Holds(k, list[k].id))
  BY DEF EXPUNGE
<1>3. PICK hits : hits = {k \in DOMAIN list : list[k].id \in trashed}
  OBVIOUS
<1>4. /\ todo' = Jobs(list, hits)
      /\ ~renumbered' => ~renumbered /\ \A k \in hits : Holds(k, list[k].id)
  BY <1>2, <1>3
<1>5. Placed' = Placed
  BY <1>1, SamePlaces
<1>6. RowsInv'
  BY <1>1, SameRowsInv DEF RankInv
<1>7. KnownInv' /\ ListedInv'
  BY <1>1 DEF KnownInv, ListedInv, ListedAll, Listing
<1>8. NumbersInv'
  BY <1>1, <1>4, <1>5, SamePlaced, SameNumbers DEF RankInv
<1>9. IsFiniteSet(C) /\ C \subseteq [id : Ids, sub : {"new", "cur"}]
  <2>1. \A f \in C : f.id \in Ids /\ f \in [id : Ids, sub : {"new", "cur"}]
    BY DEF In
  <2>2. \A f, g \in C : f.id = g.id => f = g
    OBVIOUS
  <2> DEFINE h == [f \in C |-> f.id]
  <2>3. h \in [C -> Ids] /\ \A f, g \in C : h[f] = h[g] => f = g
    BY <2>1, <2>2
  <2> HIDE DEF h, C
  <2>4. h \in Injection(C, Ids)
    BY <2>3 DEF Injection, IsInjective
  <2> QED BY <2>1, <2>4, IdsFinite, FS_Injection
<1>10. list \in Seq([id : Ids, sub : {"new", "cur"}])
  <2> HIDE DEF C
  <2>1. list \in Seq(C)
    BY <1>9, Arranged
  <2> QED BY <1>9, <2>1, SeqMonotonic
<1>11. hits \in SUBSET (1 .. Len(list))
  BY <1>3, <1>10
<1>12. TodoInv'
  <2> SUFFICES ASSUME ~renumbered' PROVE Ranked(todo)'
    BY DEF TodoInv
  <2>1. Keys(Placed, uid)
    BY PlacedKeys DEF RankInv
  <2>2. PICK order : order = Order
    OBVIOUS
  <2>3. order \in Seq(Placed) /\ \A n \in 1 .. Len(order) : RankIn(Placed, uid, order[n]) = n
    BY <2>1, <2>2, Ascends DEF Order, Placed
  <2>4. ASSUME NEW k \in hits PROVE list[k].id \in Placed /\ Rank(list[k].id) = k
    <3>1. k \in DOMAIN order /\ order[k] = list[k].id
      BY <1>4, <2>2 DEF Holds
    <3>2. k \in 1 .. Len(order)
      BY <2>3, <3>1
    <3> QED BY <2>3, <3>1, <3>2 DEF Rank
  <2>5. Ranked(Jobs(list, hits))
    BY <1>10, <1>11, <2>4, JobsRanked DEF RankInv
  <2>6. Grows
    BY <1>1, <1>5, SamePlaced
  <2> QED BY <1>4, <2>5, <2>6, RankedKept DEF RankInv
<1> QED BY <1>6, <1>7, <1>8, <1>12 DEF RankInv

\* The client takes out the number it is told, and every later one moves up, as
\* the ranks do; so do those of the messages still to be removed.
LEMMA RemoveFileStep ==
  ASSUME TypeOK, TypeOK', RankInv, RemoveFile PROVE RankInv'
<1>1. PICK g : g = Head(todo).id
  OBVIOUS
<1>2. PICK seq : seq = Head(todo).seq
  OBVIOUS
<1>3. /\ place' = [place EXCEPT ![g] = "gone"] /\ uid' = uid /\ c' = c /\ c.pc = "remove" /\ renumbered' = renumbered
      /\ todo # <<>> /\ todo' = Tail(todo)
      /\ view' = IF seq \in DOMAIN view THEN RemoveAt(view, seq) ELSE view
  BY <1>1, <1>2 DEF RemoveFile, At, history
<1>4. RowsInv'
  <2>1. \A i \in Ids : place'[i] = "none" => place[i] = "none"
    BY <1>3 DEF TypeOK
  <2> QED BY <1>3, <2>1, SameRowsInv DEF RankInv
<1>5. KnownInv' /\ ListedInv'
  BY <1>3 DEF KnownInv, ListedInv, ListedAll, Listing
<1>6. SUFFICES ASSUME ~renumbered' PROVE TodoInv' /\ NumbersInv'
  BY <1>4, <1>5 DEF RankInv, TodoInv, NumbersInv
<1>7. Ranked(todo)
  BY <1>3, <1>6 DEF RankInv, TodoInv, At
<1>8. PICK jobs : jobs = todo
  OBVIOUS
<1>9. /\ jobs \in Seq(Job) /\ jobs # <<>> /\ Len(jobs) \in Nat /\ Len(jobs) # 0
      /\ \A k \in 1 .. Len(jobs) : jobs[k].id \in Placed /\ Rank(jobs[k].id) = jobs[k].seq + k - 1
      /\ \A k \in 1 .. Len(jobs), j \in Nat : j \in 1 .. k - 1 => uid[jobs[j].id] < uid[jobs[k].id]
  <2>1. jobs \in Seq(Job) /\ jobs # <<>>
    BY <1>3, <1>7, <1>8 DEF Ranked
  <2> QED BY <1>7, <1>8, <2>1 DEF Ranked
<1>10. g = jobs[1].id /\ seq = jobs[1].seq /\ g \in Placed /\ seq = Rank(g) /\ seq \in Nat \ {0}
  <2>1. 1 \in 1 .. Len(jobs) /\ Head(jobs) = jobs[1] /\ jobs[1] \in Job
    BY <1>9
  <2>2. seq \in Int /\ Rank(jobs[1].id) = seq + 1 - 1 /\ jobs[1].id \in Placed
    BY <1>2, <1>8, <1>9, <2>1 DEF Job
  <2>3. Rank(jobs[1].id) \in Nat \ {0}
    BY <2>2, PlacedKeys DEF RankInv
  <2> QED BY <1>1, <1>2, <1>8, <2>1, <2>2, <2>3
<1>11. Placed' = Placed \ {g}
  <2>1. g \in Ids
    BY <1>10 DEF Placed, Rows
  <2>2. Present' = Present \ {g}
    BY <1>3, <2>1 DEF Present, In, TypeOK
  <2>3. Rows' = Rows
    BY <1>3 DEF Rows
  <2> QED BY <2>2, <2>3 DEF Placed
<1>12. \A i \in Placed' : Rank(i)' = IF uid[i] < uid[g] THEN Rank(i) ELSE Rank(i) - 1
  BY <1>3, <1>10, <1>11, RankRemoved DEF RankInv
<1>13. Keys(Placed, uid) /\ (\A i \in Placed : uid[i] \in Nat /\ Rank(i) \in Nat) /\ \A i \in Placed : uid[i] = uid[g] => i = g
  BY <1>10, PlacedKeys DEF RankInv, Keys
<1>14. TodoInv'
  <2>1. PICK rest : rest = Tail(jobs)
    OBVIOUS
  <2>2. /\ rest \in Seq(Job) /\ Len(rest) = Len(jobs) - 1
        /\ \A k \in 1 .. Len(rest) : rest[k] = jobs[k + 1] /\ k + 1 \in 1 .. Len(jobs)
    BY <1>9, <2>1, HeadTailProperties
  <2>3. ASSUME NEW k \in 1 .. Len(rest)
        PROVE  /\ rest[k].id \in Placed' /\ Rank(rest[k].id)' = rest[k].seq + k - 1
               /\ \A j \in 1 .. k - 1 : uid'[rest[j].id] < uid'[rest[k].id]
    <3>1. rest[k] = jobs[k + 1] /\ k + 1 \in 1 .. Len(jobs) /\ k \in Nat \ {0}
      BY <2>2
    <3>2. PICK i : i = rest[k].id
      OBVIOUS
    <3>3. PICK s \in Int : s = rest[k].seq
      <4>1. rest[k] \in Job
        BY <2>2
      <4> QED BY <4>1 DEF Job
    <3>4. i \in Placed /\ Rank(i) = s + (k + 1) - 1
      BY <1>9, <3>1, <3>2, <3>3
    <3>5. uid[g] < uid[i]
      <4>1. 1 \in 1 .. (k + 1) - 1
        BY <3>1
      <4> QED BY <1>9, <1>10, <3>1, <3>2, <4>1
    <3>6. i # g /\ ~ (uid[i] < uid[g])
      BY <1>10, <1>13, <3>4, <3>5
    <3>7. i \in Placed' /\ Rank(i)' = s + k - 1
      <4>1. i \in Placed' /\ Rank(i)' = Rank(i) - 1
        BY <1>11, <1>12, <3>4, <3>6
      <4> QED BY <3>1, <3>3, <3>4, <4>1
    <3>8. ASSUME NEW j \in 1 .. k - 1 PROVE uid'[rest[j].id] < uid'[rest[k].id]
      <4>1. j \in 1 .. Len(rest) /\ j + 1 \in 1 .. (k + 1) - 1 /\ j + 1 \in Nat
        BY <2>2, <3>1
      <4>2. rest[j] = jobs[j + 1]
        BY <2>2, <4>1
      <4> QED BY <1>3, <1>9, <3>1, <4>1, <4>2
    <3> QED BY <3>2, <3>3, <3>7, <3>8
  <2>4. todo' = rest
    BY <1>3, <1>8, <2>1
  <2>5. Ranked(todo)'
    BY <2>2, <2>3, <2>4 DEF Ranked, Job
  <2> QED BY <2>5 DEF TodoInv
<1>15. NumbersInv'
  <2>1. PICK v : v = view
    OBVIOUS
  <2>2. v \in Seq(Nat) /\ Len(v) \in Nat /\ \A n \in 1 .. Len(v) : v[n] # 0 => \E i \in Placed : uid[i] = v[n] /\ Rank(i) = n
    BY <1>3, <1>6, <2>1 DEF RankInv, NumbersInv
  <2>3. ASSUME NEW n \in 1 .. Len(v), n < seq, v[n] # 0
        PROVE  \E i \in Placed' : uid'[i] = v[n] /\ Rank(i)' = n
    <3>1. PICK i \in Placed : uid[i] = v[n] /\ Rank(i) = n
      BY <2>2, <2>3
    <3>2. uid[i] < uid[g] /\ i # g
      <4>1. RankIn(Placed, uid, i) < RankIn(Placed, uid, g)
        BY <1>10, <2>3, <3>1 DEF Rank
      <4> QED BY <1>10, <1>13, <4>1, RankOrder
    <3> QED BY <1>3, <1>11, <1>12, <3>1, <3>2
  <2>4. ASSUME NEW n \in 1 .. Len(v), seq < n, v[n] # 0
        PROVE  \E i \in Placed' : uid'[i] = v[n] /\ Rank(i)' = n - 1
    <3>1. PICK i \in Placed : uid[i] = v[n] /\ Rank(i) = n
      BY <2>2, <2>4
    <3>2. uid[g] < uid[i] /\ i # g
      <4>1. RankIn(Placed, uid, g) < RankIn(Placed, uid, i)
        BY <1>10, <2>4, <3>1 DEF Rank
      <4> QED BY <1>10, <1>13, <4>1, RankOrder
    <3>3. ~ (uid[i] < uid[g])
      BY <1>10, <1>13, <3>2
    <3> QED BY <1>3, <1>11, <1>12, <3>1, <3>2, <3>3
  <2>5. CASE seq \in DOMAIN v
    <3>1. seq \in 1 .. Len(v)
      BY <2>2, <2>5
    <3>2. PICK front : front = SubSeq(v, 1, seq - 1)
      OBVIOUS
    <3>3. PICK back : back = SubSeq(v, seq + 1, Len(v))
      OBVIOUS
    <3>4. /\ front \in Seq(Nat) /\ Len(front) = seq - 1
          /\ \A n \in 1 .. seq - 1 : front[n] = v[n]
      <4>1. \A n \in 1 .. seq - 1 : v[n] \in Nat
        BY <2>2, <3>1
      <4>2. /\ front \in Seq(Nat) /\ Len(front) = IF 1 <= seq - 1 THEN seq - 1 - 1 + 1 ELSE 0
            /\ \A n \in 1 .. seq - 1 - 1 + 1 : front[n] = v[1 + n - 1]
        BY <3>1, <3>2, <4>1, SubSeqProperties
      <4> QED BY <3>1, <4>2
    <3>5. /\ back \in Seq(Nat) /\ Len(back) = Len(v) - seq
          /\ \A n \in 1 .. Len(v) - seq : back[n] = v[seq + n]
      <4>1. \A n \in seq + 1 .. Len(v) : v[n] \in Nat
        BY <2>2, <3>1
      <4>2. /\ back \in Seq(Nat) /\ Len(back) = IF seq + 1 <= Len(v) THEN Len(v) - (seq + 1) + 1 ELSE 0
            /\ \A n \in 1 .. Len(v) - (seq + 1) + 1 : back[n] = v[(seq + 1) + n - 1]
        BY <2>2, <3>1, <3>3, <4>1, SubSeqProperties
      <4> QED BY <2>2, <3>1, <4>2
    <3>6. PICK w : w = view'
      OBVIOUS
    <3>7. w = front \o back
      BY <1>3, <2>1, <2>5, <3>2, <3>3, <3>6 DEF RemoveAt
    <3>8. /\ w \in Seq(Nat) /\ Len(w) = Len(front) + Len(back)
          /\ \A n \in 1 .. Len(front) + Len(back) : w[n] = IF n <= Len(front) THEN front[n] ELSE back[n - Len(front)]
      BY <3>4, <3>5, <3>7, ConcatProperties
    <3>9. ASSUME NEW n \in 1 .. Len(w), w[n] # 0 PROVE \E i \in Placed' : uid'[i] = w[n] /\ Rank(i)' = n
      <4>1. CASE n < seq
        <5>1. n \in 1 .. seq - 1 /\ n \in 1 .. Len(v) /\ n <= Len(front) /\ n \in 1 .. Len(front) + Len(back)
          BY <2>2, <3>1, <3>4, <3>8, <4>1
        <5>2. w[n] = v[n]
          BY <3>4, <3>8, <5>1
        <5> QED BY <2>3, <3>9, <4>1, <5>1, <5>2
      <4>2. CASE ~ (n < seq)
        <5>1. /\ n + 1 \in 1 .. Len(v) /\ seq < n + 1 /\ ~ (n <= Len(front)) /\ n \in 1 .. Len(front) + Len(back)
              /\ n - Len(front) \in 1 .. Len(v) - seq /\ seq + (n - Len(front)) = n + 1 /\ (n + 1) - 1 = n
          BY <2>2, <3>1, <3>4, <3>5, <3>8, <4>2
        <5>2. w[n] = v[n + 1]
          BY <3>5, <3>8, <5>1
        <5> QED BY <2>4, <3>9, <5>1, <5>2
      <4> QED BY <4>1, <4>2
    <3> QED BY <3>6, <3>8, <3>9 DEF NumbersInv
  <2>6. CASE seq \notin DOMAIN v
    <3>1. \A n \in 1 .. Len(v) : n < seq
      BY <1>10, <2>2, <2>6
    <3>2. view' = v
      BY <1>3, <2>1, <2>6
    <3> QED BY <2>2, <2>3, <3>1, <3>2 DEF NumbersInv
  <2> QED BY <2>5, <2>6
<1> QED BY <1>14, <1>15

-----------------------------------------------------------------------------
(* Numbers: the steps of others *)

LEMMA OtherKeeps ==
  ASSUME TypeOK, TypeOK', RankInv, Grows, RowsInv', KnownInv', ListedInv',
         c' = c, todo' = todo, view' = view, renumbered' = renumbered
  PROVE  RankInv'
<1>1. NumbersInv'
  BY SameNumbers DEF RankInv
<1>2. TodoInv'
  <2> SUFFICES ASSUME At("remove")', ~renumbered' PROVE Ranked(todo)'
    BY DEF TodoInv
  <2>1. Ranked(todo)
    BY DEF RankInv, TodoInv, At
  <2> QED BY <2>1, RankedKept DEF RankInv
<1> QED BY <1>1, <1>2 DEF RankInv

\* A new row has a UID above all others, so a listing made before it and the
\* numbers told before it stay right.
LEMMA InsertStep ==
  ASSUME TypeOK, TypeOK', UidInv, RankInv, NEW i \in Ids, Insert(i) PROVE RankInv'
<1>1. PICK top : top = get_uid_for_folder
  OBVIOUS
<1>2. /\ uid' = [uid EXCEPT ![i] = top + 1] /\ uid[i] = 0 /\ place[i] # "none"
      /\ place' = place /\ c' = c /\ todo' = todo /\ view' = view /\ renumbered' = renumbered
  BY <1>1 DEF Insert, client, history
<1>3. top \in Nat /\ \A j \in Rows : uid[j] <= top
  BY <1>1, UidIsNat
<1>4. uid \in [Ids -> Nat]
  BY DEF TypeOK
<1>5. uid'[i] = top + 1 /\ \A j \in Ids \ {i} : uid'[j] = uid[j]
  BY <1>2, <1>4
<1>6. Rows' = Rows \cup {i} /\ i \notin Rows /\ Rows \subseteq Ids
  BY <1>2, <1>3, <1>5 DEF Rows
<1>7. Present' = Present /\ In("new")' = In("new")
  BY <1>2 DEF Present, In
<1>8. \A j \in Rows : uid'[j] = uid[j] /\ uid[j] < uid'[i] /\ uid[j] \in Nat
  BY <1>3, <1>4, <1>5, <1>6
<1>9. Grows
  BY <1>6, <1>7, <1>8 DEF Grows, Placed
<1>10. RowsInv'
  <2>1. ASSUME NEW j \in Rows', NEW k \in Rows', uid'[j] = uid'[k] PROVE j = k
    <3>1. CASE j = i /\ k # i
      BY <1>3, <1>5, <1>6, <1>8, <2>1, <3>1
    <3>2. CASE j # i /\ k = i
      BY <1>3, <1>5, <1>6, <1>8, <2>1, <3>2
    <3>3. CASE j # i /\ k # i
      BY <1>6, <1>8, <2>1, <3>3 DEF RankInv, RowsInv
    <3> QED BY <3>1, <3>2, <3>3
  <2>2. \A j \in Ids : place'[j] = "none" => uid'[j] = 0
    BY <1>2, <1>5 DEF RankInv, RowsInv
  <2> QED BY <2>1, <2>2 DEF RowsInv
<1>11. KnownInv'
  <2> SUFFICES ASSUME Listing PROVE c.known \subseteq Rows' /\ \A j \in c.known, k \in Rows' \ c.known : uid'[j] < uid'[k]
    BY <1>2 DEF KnownInv, Listing
  <2>1. c.known \subseteq Rows /\ \A j \in c.known, k \in Rows \ c.known : uid[j] < uid[k]
    BY DEF RankInv, KnownInv
  <2> QED BY <2>1, <1>6, <1>8
<1>12. ListedInv'
  BY <1>2, <1>7 DEF RankInv, ListedInv, ListedAll
<1> QED BY <1>2, <1>9, <1>10, <1>11, <1>12, OtherKeeps

LEMMA SeeStep ==
  ASSUME TypeOK, TypeOK', RankInv, NEW i \in Ids, See(i) PROVE RankInv'
<1>1. /\ place' = [place EXCEPT ![i] = "cur"] /\ place[i] = "new" /\ uid' = uid
      /\ c' = c /\ todo' = todo /\ view' = view /\ renumbered' = renumbered
  BY DEF See, client
<1>2. Present' = Present /\ In("new")' \subseteq In("new") /\ Rows' = Rows
  <2>1. place \in [Ids -> {"none", "new", "cur", "gone"}]
    BY DEF TypeOK
  <2>2. \A j \in Ids : place'[j] = IF j = i THEN "cur" ELSE place[j]
    BY <1>1, <2>1
  <2>3. Rows' = Rows
    BY <1>1 DEF Rows
  <2> QED BY <1>1, <2>2, <2>3 DEF Present, In
<1>3. RowsInv'
  <2>1. \A j \in Ids : place'[j] = "none" => place[j] = "none"
    BY <1>1 DEF TypeOK
  <2> QED BY <1>1, <2>1, SameRowsInv DEF RankInv
<1>4. KnownInv' /\ ListedInv'
  BY <1>1, <1>2 DEF RankInv, KnownInv, ListedInv, ListedAll, Listing
<1>5. Grows
  BY <1>1, <1>2, SamePlaced DEF Placed
<1> QED BY <1>1, <1>3, <1>4, <1>5, OtherKeeps

LEMMA TakeAwayStep ==
  ASSUME TypeOK, RankInv, NEW i \in Ids, TakeAway(i) PROVE RankInv'
<1>1. place' = [place EXCEPT ![i] = "gone"] /\ uid' = uid /\ c' = c /\ renumbered'
  BY DEF TakeAway
<1>2. RowsInv'
  <2>1. \A j \in Ids : place'[j] = "none" => place[j] = "none"
    BY <1>1 DEF TypeOK
  <2> QED BY <1>1, <2>1, SameRowsInv DEF RankInv
<1>3. KnownInv' /\ ListedInv' /\ TodoInv' /\ NumbersInv'
  BY <1>1 DEF RankInv, KnownInv, ListedInv, TodoInv, NumbersInv, Listing, Rows
<1> QED BY <1>2, <1>3 DEF RankInv

\* A new file has no row yet.
LEMMA WriteStep ==
  ASSUME TypeOK, TypeOK', RankInv, NEW i \in Ids, NEW sub \in {"new", "cur"}, Write(i, sub) PROVE RankInv'
<1>1. /\ place' = [place EXCEPT ![i] = sub] /\ place[i] = "none" /\ uid' = uid
      /\ c' = c /\ todo' = todo /\ view' = view /\ renumbered' = renumbered
  BY DEF Write, client
<1>2. i \notin Rows /\ Rows' = Rows
  BY <1>1 DEF RankInv, RowsInv, Rows
<1>3. Present' = Present \cup {i} /\ In("new")' \subseteq In("new") \cup {i}
  <2>1. place \in [Ids -> {"none", "new", "cur", "gone"}]
    BY DEF TypeOK
  <2>2. \A j \in Ids : place'[j] = IF j = i THEN sub ELSE place[j]
    BY <1>1, <2>1
  <2> QED BY <1>1, <2>2 DEF Present, In
<1>4. RowsInv'
  <2>1. \A j \in Ids : place'[j] = "none" => place[j] = "none"
    BY <1>1 DEF TypeOK
  <2> QED BY <1>1, <2>1, SameRowsInv DEF RankInv
<1>5. KnownInv'
  BY <1>1, <1>2 DEF RankInv, KnownInv, Listing
<1>6. ListedInv'
  <2> SUFFICES ASSUME ListedAll, ~renumbered PROVE c.counted \subseteq Present' /\ c.known \cap In("new")' \subseteq c.counted
    BY <1>1 DEF ListedInv, ListedAll
  <2>1. c.known \subseteq Rows
    BY DEF RankInv, KnownInv, Listing, ListedAll
  <2>2. c.counted \subseteq Present /\ c.known \cap In("new") \subseteq c.counted
    BY DEF RankInv, ListedInv
  <2> QED BY <2>1, <2>2, <1>2, <1>3
<1>7. Grows
  BY <1>1, <1>2, <1>3, SamePlaced DEF Placed
<1> QED BY <1>1, <1>4, <1>5, <1>6, <1>7, OtherKeeps

LEMMA IdleStep ==
  ASSUME TypeOK, TypeOK', RankInv,
         place' = place, uid' = uid, c' = c, todo' = todo, view' = view, renumbered' = renumbered
  PROVE  RankInv'
<1>1. Placed' = Placed /\ Rows' = Rows /\ Present' = Present /\ In("new")' = In("new")
  BY SamePlaces DEF In
<1>2. RowsInv'
  BY SameRowsInv DEF RankInv
<1>3. KnownInv' /\ ListedInv'
  BY <1>1 DEF RankInv, KnownInv, ListedInv, ListedAll, Listing, Present
<1> QED BY <1>1, <1>2, <1>3, SamePlaced, OtherKeeps

-----------------------------------------------------------------------------
(* Numbers: every step *)

\* A plain step that leaves the files alone.
LEMMA QuietStep ==
  ASSUME TypeOK, TypeOK', RankInv, place' = place, uid' = uid, renumbered' = renumbered,
         c'.pc \notin {"fetch new", "fetch cur", "move new", "move cur", "remove"},
         view' = view \/ \E n \in Nat : Told(n)
  PROVE  RankInv'
<1>1. Placed' = Placed /\ \A i \in Ids : place'[i] = "none" => place[i] = "none"
  BY SamePlaces
<1>2. ~Listing' /\ c'.pc # "remove"
  BY DEF Listing
<1> QED BY <1>1, <1>2, PlainStep

LEMMA TotalIsNat == ASSUME TypeOK PROVE Total \in Nat
<1>1. Cardinality(In("new")) \in Nat
  BY InIsFinite
<1>2. c.count \in Nat
  BY DEF TypeOK
<1> QED BY <1>1, <1>2 DEF Total

LEMMA RanksServer == TypeOK /\ TypeOK' /\ RankInv /\ ServerStep => RankInv'
<1> SUFFICES ASSUME TypeOK, TypeOK', RankInv, ServerStep PROVE RankInv'
  OBVIOUS
<1> USE DEF folder, client, history
<1>1. SelectCur \/ NoopCur => RankInv'
  <2>1. SelectCur \/ NoopCur => c'.pc \in {"select new", "noop new"}
    BY DEF SelectCur, NoopCur, count_cur, CountCur, TypeOK
  <2>2. SelectCur \/ NoopCur => place' = place /\ uid' = uid /\ renumbered' = renumbered /\ view' = view
    BY DEF SelectCur, NoopCur, count_cur
  <2> QED BY <2>1, <2>2, QuietStep
<1>2. NoopNew => RankInv'
  <2> SUFFICES ASSUME NoopNew PROVE RankInv'
    OBVIOUS
  <2>1. place' = place /\ uid' = uid /\ renumbered' = renumbered /\ c' = Ready /\ \E n \in Nat : Told(n)
    <3> HIDE DEF Ready
    <3> QED BY TotalIsNat DEF NoopNew
  <2>2. c'.pc = "ready"
    BY <2>1 DEF Ready
  <2> QED BY <2>1, <2>2, QuietStep
<1>3. SelectUidNext => RankInv'
  <2> SUFFICES ASSUME SelectUidNext PROVE RankInv'
    OBVIOUS
  <2>1. place' = place /\ uid' = uid /\ renumbered' = renumbered /\ view' = view /\ c'.pc = "ready"
    BY DEF SelectUidNext, Ready
  <2> QED BY <2>1, QuietStep
<1>4. Watch => RankInv'
  <2> SUFFICES ASSUME Watch PROVE RankInv'
    OBVIOUS
  <2>1. place' = place /\ uid' = uid /\ renumbered' = renumbered /\ view' = view
    BY DEF Watch
  <2>2. c'.pc \in {"watching", "ready"}
    <3>1. c' = [Ready EXCEPT !.pc = "watching"] \/ c' = Ready
      BY DEF Watch
    <3> QED BY <3>1 DEF Ready
  <2> QED BY <2>1, <2>2, QuietStep
<1>5. Event => RankInv'
  <2> SUFFICES ASSUME Event PROVE RankInv'
    OBVIOUS
  <2>1. place' = place /\ uid' = uid /\ renumbered' = renumbered /\ view' = view /\ c'.pc = "idle count"
    BY DEF Event, CountCur, TypeOK
  <2> QED BY <2>1, QuietStep
<1>6. Announce => RankInv'
  <2> SUFFICES ASSUME Announce PROVE RankInv'
    OBVIOUS
  <2>1. place' = place /\ uid' = uid /\ renumbered' = renumbered /\ \E n \in Nat : Told(n)
    BY TotalIsNat DEF Announce
  <2>2. c'.pc = "watching"
    BY DEF Announce, Ready
  <2> QED BY <2>1, <2>2, QuietStep
<1>7. RemoveFails => RankInv'
  <2> SUFFICES ASSUME RemoveFails PROVE RankInv'
    OBVIOUS
  <2>1. place' = place /\ uid' = uid /\ renumbered' = renumbered /\ view' = view /\ c'.pc = "closed"
    BY DEF RemoveFails, Ready
  <2> QED BY <2>1, QuietStep
<1>8. Removed => RankInv'
  <2> SUFFICES ASSUME Removed PROVE RankInv'
    OBVIOUS
  <2>1. place' = place /\ uid' = uid /\ renumbered' = renumbered /\ view' = view /\ c'.pc = "ready"
    BY DEF Removed, Ready
  <2> QED BY <2>1, QuietStep
<1> QED BY <1>1, <1>2, <1>3, <1>4, <1>5, <1>6, <1>7, <1>8, SelectNewStep, ListRowsStep, ListNewStep,
           FetchFilesStep, MoveFilesStep, RemoveFileStep DEF ServerStep

LEMMA RanksNext == TypeOK /\ TypeOK' /\ UidInv /\ RankInv /\ [Next]_vars => RankInv'
<1> SUFFICES ASSUME TypeOK, TypeOK', UidInv, RankInv, [Next]_vars PROVE RankInv'
  OBVIOUS
<1> USE DEF folder, client, history
<1>1. ServerStep => RankInv'
  BY RanksServer
<1>2. SELECT \/ NOOP \/ IDLE \/ FETCH => RankInv'
  <2>1. SUFFICES ASSUME NEW pc \in {"select count", "noop count", "idling", "fetch rows"}, Ask(pc) PROVE RankInv'
    BY DEF SELECT, NOOP, IDLE, FETCH
  <2>2. place' = place /\ uid' = uid /\ renumbered' = renumbered /\ view' = view /\ c'.pc = pc
    BY <2>1 DEF Ask, Begin, Ready
  <2> QED BY <2>2, QuietStep
<1>3. DONE => RankInv'
  <2> SUFFICES ASSUME DONE PROVE RankInv'
    OBVIOUS
  <2>1. place' = place /\ uid' = uid /\ renumbered' = renumbered /\ view' = view /\ c'.pc = "ready"
    BY DEF DONE, Ready
  <2> QED BY <2>1, QuietStep
<1>4. ASSUME NEW S, MOVE(S) PROVE RankInv'
  <2>1. place' = place /\ uid' = uid /\ renumbered' = renumbered /\ view' = view /\ c'.pc = "move rows"
    BY <1>4 DEF MOVE, Begin, Ready
  <2> QED BY <2>1, QuietStep
<1>5. \A lo, hi, told : STORE(lo, hi, told) => RankInv'
  BY StoreStep
<1>6. EXPUNGE => RankInv'
  BY ExpungeStep
<1>7. OtherEvent => RankInv'
  BY IdleStep DEF OtherEvent
<1>8. \A i \in Ids : Insert(i) => RankInv'
  BY InsertStep
<1>9. \A i \in Ids : See(i) => RankInv'
  BY SeeStep
<1>10. \A i \in Ids : TakeAway(i) => RankInv'
  BY TakeAwayStep
<1>11. \A i \in Ids, sub \in {"new", "cur"} : Write(i, sub) => RankInv'
  BY WriteStep
<1>12. UNCHANGED vars => RankInv'
  BY IdleStep DEF vars
<1> QED BY <1>1, <1>2, <1>3, <1>4, <1>5, <1>6, <1>7, <1>8, <1>9, <1>10, <1>11, <1>12, NextCases

\* A number of the client names what the server's next command finds under it:
\* its message is the one of that rank.
LEMMA RanksAgree ==
  ASSUME TypeOK, RankInv PROVE NumbersAgree
<1> SUFFICES ASSUME ~renumbered, NEW n \in 1 .. Len(view), view[n] # 0, view \in Seq(Nat)
             PROVE  n <= Len(Order) /\ uid[Order[n]] = view[n]
  BY DEF NumbersAgree, RankInv, NumbersInv
<1>1. PICK i \in Placed : uid[i] = view[n] /\ Rank(i) = n
  BY DEF RankInv, NumbersInv
<1>2. Keys(Placed, uid)
  BY PlacedKeys DEF RankInv
<1>3. PICK order : order = Order
  OBVIOUS
<1>4. /\ order \in Seq(Placed) /\ Len(order) = Cardinality(Placed)
      /\ \A k \in 1 .. Cardinality(Placed) : RankIn(Placed, uid, order[k]) = k
  BY <1>2, <1>3, Ascends DEF Order, Placed
<1>5. n \in 1 .. Cardinality(Placed)
  BY <1>1, <1>2, RankGrows DEF Rank
<1>6. PICK j \in Placed : j = order[n] /\ RankIn(Placed, uid, j) = n
  BY <1>4, <1>5, ElementOfSeq
<1>7. uid[i] \in Nat /\ uid[j] \in Nat
  BY <1>2, <1>6 DEF Keys
<1>8. ~ (uid[i] < uid[j]) /\ ~ (uid[j] < uid[i])
  <2>1. RankIn(Placed, uid, i) = n
    BY <1>1 DEF Rank
  <2>2. n \in Nat
    OBVIOUS
  <2> QED BY <1>2, <1>6, <2>1, <2>2, RankGrows
<1>9. uid[j] = view[n]
  BY <1>1, <1>7, <1>8
<1>10. n <= Len(order)
  BY <1>4, <1>5
<1> QED BY <1>3, <1>6, <1>9, <1>10

-----------------------------------------------------------------------------
(* The theorems about MailboxView *)

IInv == TypeOK /\ CountInv /\ IdleIsCurrent /\ UidInv /\ UidNextIsABound /\ RankInv

LEMMA InitInv == Init => IInv
<1> SUFFICES ASSUME Init PROVE IInv
  OBVIOUS
<1>1. TypeOK
  <2>1. c = [Ready EXCEPT !.pc = "select count"] /\ c.pc = "select count"
    BY DEF Init, Ready
  <2>2. uid \in [Ids -> Nat]
    <3>1. \A i \in Ids : (IF i <= Before THEN i ELSE 0) \in Nat
      BY BoundAssumption DEF Ids
    <3>2. uid = [i \in Ids |-> IF i <= Before THEN i ELSE 0]
      BY DEF Init
    <3> QED BY <3>1, <3>2
  <2>4. trashed \subseteq Ids
    BY DEF Init, In
  <2>3. place \in [Ids -> {"none", "new", "cur", "gone"}]
    BY DEF Init
  <2>5. /\ event \in BOOLEAN /\ renumbered \in BOOLEAN /\ hidden \in BOOLEAN
        /\ uidnext \in Nat /\ old \subseteq Ids /\ owed \subseteq Ids
        /\ removals \in Nat /\ commands \in Nat
    BY DEF Init
  <2> QED BY <2>1, <2>2, <2>3, <2>4, <2>5 DEF TypeOK, Ready, Nothing
<1>2. CountInv /\ IdleIsCurrent /\ UidNextIsABound
  BY DEF Init, CountInv, IdleIsCurrent, UidNextIsABound, At, Ready
<1>3. UidInv
  <2>1. \A i \in Rows : uid[i] = i /\ i <= Before /\ i \in Ids
    BY DEF Init, Rows
  <2>2. \E m \in Uids : \A u \in Uids : m >= u
    <3>1. CASE Rows = {}
      BY <3>1 DEF Uids
    <3>2. CASE Rows # {}
      <4>1. PICK n \in Nat : n = IF Before <= MaxIds THEN Before ELSE MaxIds
        BY BoundAssumption
      <4>2. PICK k \in Rows : k \in Ids /\ k <= Before
        BY <2>1, <3>2
      <4>3. n \in Ids /\ n <= Before /\ n # 0
        BY <4>1, <4>2, BoundAssumption DEF Ids
      <4>4. uid[n] = n
        BY <4>3 DEF Init
      <4>5. n \in Rows
        BY <4>3, <4>4 DEF Rows
      <4>6. \A i \in Rows : i <= n
        BY <2>1, <4>1, BoundAssumption DEF Ids
      <4>7. n \in Uids
        BY <4>4, <4>5 DEF Uids
      <4>8. \A u \in Uids : n >= u
        <5>1. \A i \in Rows : n >= uid[i]
          BY <2>1, <4>6, <4>1 DEF Ids
        <5>2. n >= 0
          BY <4>1
        <5> QED BY <5>1, <5>2 DEF Uids
      <4> QED BY <4>7, <4>8
    <3> QED BY <3>1, <3>2
  <2>3. uidnext <= get_uid_for_folder + 1
    <3>1. Uids \in SUBSET Nat
      BY <2>1 DEF Uids, Ids
    <3>2. Max(Uids) \in Nat
      BY <2>2, <3>1, MaxIsMax
    <3>3. get_uid_for_folder \in Nat
      BY <3>2 DEF get_uid_for_folder, Uids
    <3>4. uidnext = 0
      BY DEF Init
    <3> QED BY <3>3, <3>4
  <2>4. old \subseteq Rows
    BY DEF Init
  <2> QED BY <2>2, <2>3, <2>4 DEF UidInv
<1>4. RankInv
  <2>1. uid = [i \in Ids |-> IF i <= Before THEN i ELSE 0] /\ view = <<>> /\ c.pc = "select count"
    BY DEF Init, Ready
  <2>2. RowsInv
    <3>1. \A i, j \in Rows : uid[i] = uid[j] => i = j
      BY <2>1 DEF Rows
    <3>2. \A i \in Ids : place[i] = "none" => uid[i] = 0
      BY <2>1 DEF Init
    <3> QED BY <3>1, <3>2 DEF RowsInv
  <2>3. KnownInv /\ ListedInv /\ TodoInv
    BY <2>1 DEF KnownInv, ListedInv, ListedAll, TodoInv, Listing, At
  <2>4. NumbersInv
    <3>1. view \in Seq(Nat) /\ Len(view) = 0
      BY <2>1, EmptySeq
    <3> QED BY <3>1 DEF NumbersInv
  <2> QED BY <2>2, <2>3, <2>4 DEF RankInv
<1> QED BY <1>1, <1>2, <1>3, <1>4 DEF IInv

LEMMA NextInv == IInv /\ [Next]_vars => IInv'
<1>1. IInv /\ [Next]_vars => TypeOK'
  BY TypeNext DEF IInv
<1>2. IInv /\ [Next]_vars => CountGoal /\ UidGoal
  BY CountNext, UidNextStep DEF IInv
<1>3. IInv /\ [Next]_vars => RankInv'
  BY <1>1, RanksNext DEF IInv
<1> QED BY <1>1, <1>2, <1>3 DEF IInv, CountGoal, UidGoal

\* The inductive invariant: types, the first count of IDLE, the greatest UID, and
\* numbers that are ranks.
THEOREM Invariant == Spec => []IInv
  BY InitInv, NextInv, PTL DEF Spec

\* Every variable but the client's numbers keeps its type.
THEOREM TypeCorrect == Spec => []TypeOK
<1>1. IInv => TypeOK
  BY DEF IInv
<1> QED BY <1>1, Invariant, PTL

\* While IDLE waits, the last EXISTS is the number of messages, however the
\* two counts interleave with deliveries, moves and removals.
THEOREM IdleCountsRight == Spec => []IdleIsCurrent
<1>1. IInv => IdleIsCurrent
  BY DEF IInv
<1> QED BY <1>1, Invariant, PTL

\* UIDNEXT of SELECT separates the messages that had a row from those that get
\* one later, however late a row follows its file.
THEOREM UidNextSeparates == Spec => []UidNextIsABound
<1>1. IInv => UidNextIsABound
  BY DEF IInv
<1> QED BY <1>1, Invariant, PTL

\* A number the client has learnt names the message that the server's next FETCH or
\* MOVE finds under it, whatever is delivered, moved, stored and expunged in between,
\* with the exceptions of NumbersAgree: removals by others, listings that met a message
\* without a row, EXPUNGE's order, and a UID that STORE told as another's number.
THEOREM NumbersNameTheSame == Spec => []NumbersAgree
<1>1. IInv => NumbersAgree
  BY RanksAgree DEF IInv
<1> QED BY <1>1, Invariant, PTL

-----------------------------------------------------------------------------
(* SearchCommand: recursion over places *)

\* A set of natural numbers has a least element.
LEMMA Least == ASSUME NEW T \in SUBSET Nat, T # {} PROVE \E x \in T : \A y \in T : x <= y
<1> DEFINE F == {0..x : x \in T}
<1>1. F \subseteq FiniteSubsetsOf(Nat) /\ F # {}
  <2>1. \A x \in T : IsFiniteSet(0..x) /\ 0..x \subseteq Nat
    BY FS_Interval
  <2> QED BY <2>1 DEF FiniteSubsetsOf
<1>2. IsWellFoundedOn(StrictSubsetOrdering(Nat), FiniteSubsetsOf(Nat))
  BY FS_StrictSubsetOrderingWellFounded
<1>3. \E s \in F : \A r \in F : ~ (<<r, s>> \in StrictSubsetOrdering(Nat))
  <2> HIDE DEF F
  <2> QED BY <1>1, <1>2, WFMin
<1>4. PICK x \in T : \A y \in T : ~ (<<0..y, 0..x>> \in StrictSubsetOrdering(Nat))
  BY <1>3
<1>5. \A y \in T : x <= y
  <2> SUFFICES ASSUME NEW y \in T, ~ (x <= y) PROVE FALSE
    OBVIOUS
  <2>1. x \in Nat /\ y \in Nat
    OBVIOUS
  <2>2. 0..y \subseteq 0..x /\ x \in 0..x /\ x \notin 0..y
    BY <2>1
  <2>3. 0..y \in SUBSET Nat /\ 0..x \in SUBSET Nat /\ 0..y # 0..x
    BY <2>1, <2>2
  <2>4. <<0..y, 0..x>> \in StrictSubsetOrdering(Nat)
    <3> DEFINE a == 0..y  b == 0..x
    <3>1. <<a, b>> \in (SUBSET Nat) \X (SUBSET Nat) /\ a \subseteq b /\ a # b
      BY <2>2, <2>3
    <3> HIDE DEF a, b
    <3> QED BY <3>1 DEF StrictSubsetOrdering
  <2> QED BY <1>4, <2>4
<1> QED BY <1>5

\* Up to n: what holds at 0 and, where it holds, at the next number.
LEMMA Upward ==
  ASSUME NEW n \in Nat, NEW T \in SUBSET Nat, 0 \in T, \A k \in T : k < n => k + 1 \in T
  PROVE  n \in T
<1> SUFFICES ASSUME n \notin T PROVE FALSE
  OBVIOUS
<1> DEFINE F == (0 .. n) \ T
<1>1. F \in SUBSET Nat /\ n \in F
  OBVIOUS
<1>2. PICK k \in F : \A j \in F : k <= j
  BY <1>1, Least
<1>3. k \in Nat /\ k \notin T /\ k <= n /\ k # 0
  OBVIOUS
<1>4. k - 1 \in T
  <2>1. k - 1 \in 0 .. n /\ ~ (k <= k - 1)
    BY <1>3
  <2> QED BY <1>2, <2>1
<1>5. (k - 1) + 1 \in T
  BY <1>3, <1>4
<1> QED BY <1>3, <1>5

\* From the last place to the first: what holds at a place if it holds at all later
\* ones holds at every place.
LEMMA Places ==
  ASSUME NEW n \in Nat, NEW P, \A i \in 1 .. n : (\A k \in i + 1 .. n : k \in P) => i \in P
  PROVE  \A i \in 1 .. n : i \in P
<1> DEFINE T == {m \in 0 .. n : \A i \in n - m + 1 .. n : i \in P}
<1>1. 0 \in T
  <2>1. 0 \in 0 .. n /\ n - 0 + 1 .. n = {}
    OBVIOUS
  <2>2. \A i \in n - 0 + 1 .. n : i \in P
    BY <2>1
  <2> QED BY <2>1, <2>2
<1>2. ASSUME NEW m \in T, m < n PROVE m + 1 \in T
  <2>1. m \in Nat /\ n - m \in 1 .. n /\ m + 1 \in 0 .. n
    BY <1>2
  <2>2. \A k \in (n - m) + 1 .. n : k \in P
    BY <2>1
  <2>3. n - m \in P
    BY <2>1, <2>2
  <2>4. \A i \in n - (m + 1) + 1 .. n : i = n - m \/ i \in (n - m) + 1 .. n
    BY <2>1
  <2>5. \A i \in n - (m + 1) + 1 .. n : i \in P
    BY <2>2, <2>3, <2>4
  <2> QED BY <2>1, <2>5
<1>3. n \in T
  <2>1. T \in SUBSET Nat
    OBVIOUS
  <2> HIDE DEF T
  <2> QED BY <1>1, <1>2, <2>1, Upward
<1>4. \A i \in n - n + 1 .. n : i \in P
  BY <1>3
<1> QED BY <1>4

\* R gives the value of a function on D at each argument by its values at those of
\* smaller rank, for the functions of G, which are those with the right types V.
Recursive(L, D, rank, W, V, G, R) ==
  /\ L \in Nat /\ rank \in [D -> 0 .. L] /\ V \in [D -> SUBSET W]
  /\ G \in SUBSET [D -> W] /\ G # {} /\ \A g \in [D -> W] : g \in G <=> \A i \in D : g[i] \in V[i]
  /\ R \in [D -> [G -> W]] /\ \A i \in D : \A g \in G : R[i][g] \in V[i]
  /\ \A i \in D : \A g, h \in G : (\A k \in D : rank[k] < rank[i] => g[k] = h[k]) => R[i][g] = R[i][h]

\* There is such a function.
LEMMA Recursion ==
  ASSUME NEW L, NEW D, NEW rank, NEW W, NEW V, NEW G, NEW R, Recursive(L, D, rank, W, V, G, R)
  PROVE  \E f \in G : \A i \in D : f[i] = R[i][f]
<1>0. L \in Nat /\ rank \in [D -> 0 .. L] /\ V \in [D -> SUBSET W] /\ R \in [D -> [G -> W]]
  BY DEF Recursive
<1> DEFINE Solves(g, n) == \A i \in D : rank[i] < n => g[i] = R[i][g]
           T == {n \in Nat : \E g \in G : Solves(g, n)}
<1>1. 0 \in T
  <2>1. PICK g : g \in G
    BY DEF Recursive
  <2>2. \A i \in D : ~ (rank[i] < 0)
    BY <1>0
  <2> QED BY <2>1, <2>2
<1>2. ASSUME NEW n \in T PROVE n + 1 \in T
  <2>1. PICK g \in G : Solves(g, n)
    OBVIOUS
  <2>2. PICK h : h = [i \in D |-> IF rank[i] = n THEN R[i][g] ELSE g[i]]
    OBVIOUS
  <2>3. \A i \in D : h[i] \in V[i] /\ (rank[i] # n => h[i] = g[i]) /\ (rank[i] = n => h[i] = R[i][g])
    <3>1. \A i \in D : g[i] \in V[i] /\ R[i][g] \in V[i]
      BY DEF Recursive
    <3> QED BY <2>2, <3>1
  <2>4. h \in G
    <3>1. \A i \in D : V[i] \subseteq W
      BY <1>0
    <3>2. h \in [D -> W]
      BY <2>2, <2>3, <3>1
    <3> QED BY <2>3, <3>2 DEF Recursive
  <2>5. ASSUME NEW i \in D, rank[i] < n + 1 PROVE h[i] = R[i][h]
    <3>1. \A k \in D : rank[k] < rank[i] => g[k] = h[k]
      <4>1. n \in Nat /\ \A k \in D : rank[k] \in Nat
        BY <1>0
      <4> QED BY <2>3, <2>5, <4>1
    <3>2. R[i][g] = R[i][h]
      BY <2>4, <3>1 DEF Recursive
    <3>3. rank[i] \in Nat /\ n \in Nat
      BY <1>0
    <3>4. rank[i] = n \/ rank[i] < n
      <4> DEFINE q == rank[i]
      <4>1. q \in Nat /\ n \in Nat /\ q < n + 1
        BY <2>5, <3>3
      <4> HIDE DEF q
      <4>2. q = n \/ q < n
        BY <4>1
      <4> QED BY <4>2 DEF q
    <3> QED BY <2>1, <2>3, <3>2, <3>4
  <2> QED BY <2>4, <2>5
<1>3. L + 1 \in T
  <2>1. T \in SUBSET Nat /\ L + 1 \in Nat
    BY <1>0
  <2> HIDE DEF T
  <2> QED BY <1>1, <1>2, <2>1, Upward
<1>4. PICK f \in G : Solves(f, L + 1)
  BY <1>3
<1>5. \A i \in D : rank[i] < L + 1
  <2>1. \A i \in D : rank[i] \in 0 .. L
    BY <1>0
  <2> QED BY <1>0, <2>1
<1> QED BY <1>4, <1>5
\* The same for functions into one set.
RecursiveIn(L, D, rank, W, R) ==
  /\ L \in Nat /\ rank \in [D -> 0 .. L] /\ W # {} /\ R \in [D -> [[D -> W] -> W]]
  /\ \A i \in D : \A g, h \in [D -> W] : (\A k \in D : rank[k] < rank[i] => g[k] = h[k]) => R[i][g] = R[i][h]

\* The same for a recursion that is given as a function of places.
LEMMA RecursionIn ==
  ASSUME NEW L, NEW D, NEW rank, NEW W, NEW R, RecursiveIn(L, D, rank, W, R)
  PROVE  \E f \in [D -> W] : \A i \in D : f[i] = R[i][f]
<1> DEFINE V == [i \in D |-> W]
           G == [D -> W]
<1>1. V \in [D -> SUBSET W] /\ \A i \in D : V[i] = W
  OBVIOUS
<1>2. G \in SUBSET [D -> W] /\ \A g \in [D -> W] : g \in G <=> \A i \in D : g[i] \in V[i]
  BY <1>1
<1>3. G # {}
  <2>1. PICK w \in W : TRUE
    BY DEF RecursiveIn
  <2>2. [i \in D |-> w] \in [D -> W]
    OBVIOUS
  <2> QED BY <2>2
<1>4. R \in [D -> [G -> W]] /\ \A i \in D : \A g \in G : R[i][g] \in V[i]
  <2>1. R \in [D -> [G -> W]]
    BY DEF RecursiveIn
  <2>2. \A i \in D : R[i] \in [G -> W]
    BY <2>1
  <2>3. \A i \in D, g \in G : R[i][g] \in W
    BY <2>2
  <2> QED BY <1>1, <2>1, <2>3
<1>5. \A i \in D : \A g, h \in G : (\A k \in D : rank[k] < rank[i] => g[k] = h[k]) => R[i][g] = R[i][h]
  BY DEF RecursiveIn
<1>6. L \in Nat /\ rank \in [D -> 0 .. L]
  BY DEF RecursiveIn
<1> HIDE DEF V, G
<1>7. Recursive(L, D, rank, W, V, G, R)
  BY <1>1, <1>2, <1>3, <1>4, <1>5, <1>6 DEF Recursive
<1>8. \E f \in G : \A i \in D : f[i] = R[i][f]
  BY <1>7, Recursion
<1> QED BY <1>8 DEF G

-----------------------------------------------------------------------------
(* Sets as text *)

\* A range as text is a sequence of tokens.
LEMMA RangeTextType ==
  ASSUME NEW r \in Spans
  PROVE  RangeText(r) \in Seq(Tokens)
<1>1. MaxNumber \in Nat /\ r.lo \in Int /\ r.hi \in Int
  BY NumberAssumption DEF Spans, All
<1>2. Number(r.lo) \in Tokens /\ Number(r.hi) \in Tokens /\ Word(":") \in Tokens /\ Word("*") \in Tokens
  BY <1>1 DEF Tokens, Marks, Leaves, Fields, Number, Word, Token
<1>3. \A a, b, d \in Tokens : <<a>> \in Seq(Tokens) /\ <<a, b, d>> \in Seq(Tokens)
  OBVIOUS
<1>4. <<Number(r.lo)>> \in Seq(Tokens)
  BY <1>2, <1>3
<1>5. \A d \in Tokens : <<Number(r.lo), Word(":"), d>> \in Seq(Tokens)
  BY <1>2, <1>3
<1>6. <<Number(r.lo), Word(":"), Word("*")>> \in Seq(Tokens) /\ <<Number(r.lo), Word(":"), Number(r.hi)>> \in Seq(Tokens)
  BY <1>2, <1>5
<1> QED BY <1>4, <1>6 DEF RangeText

\* The text from one range on depends only on the text from the next.
LEMMA JoinTextFacts ==
  ASSUME NEW ranges \in Seq(Spans), NEW j \in 1 .. Len(ranges), NEW g
  PROVE  /\ (j # Len(ranges) => g[j + 1] \in Seq(Tokens)) => JoinText(ranges, j, g) \in Seq(Tokens)
         /\ \A h : (j # Len(ranges) => g[j + 1] = h[j + 1]) => JoinText(ranges, j, g) = JoinText(ranges, j, h)
<1>1. RangeText(ranges[j]) \in Seq(Tokens)
  BY RangeTextType
<1>2. Word("comma") \in Tokens
  BY DEF Tokens, Marks, Leaves, Fields, Word, Token
<1>3. <<>> \in Seq(Tokens) /\ <<Word("comma")>> \in Seq(Tokens)
  <2>1. \A a \in Tokens : <<a>> \in Seq(Tokens)
    OBVIOUS
  <2> QED BY <1>2, <2>1, EmptySeq
<1>4. \A a, b \in Seq(Tokens) : a \o b \in Seq(Tokens)
  OBVIOUS
<1>5. ASSUME j # Len(ranges) => g[j + 1] \in Seq(Tokens) PROVE JoinText(ranges, j, g) \in Seq(Tokens)
  BY <1>1, <1>3, <1>4, <1>5 DEF JoinText
<1>6. ASSUME NEW h, j # Len(ranges) => g[j + 1] = h[j + 1] PROVE JoinText(ranges, j, g) = JoinText(ranges, j, h)
  BY <1>6 DEF JoinText
<1> QED BY <1>5, <1>6

\* What SetText computes: the text of the last ranges from each on.
LEMMA SetTextFacts ==
  ASSUME NEW ranges \in Seq(Spans), ranges # <<>>
  PROVE  \E text \in [1 .. Len(ranges) -> Seq(Tokens)] :
           SetText(ranges) = text[1] /\ \A j \in 1 .. Len(ranges) : text[j] = JoinText(ranges, j, text)
<1>1. PICK L \in Nat \ {0} : L = Len(ranges)
  OBVIOUS
<1>2. PICK D : D = 1 .. L
  OBVIOUS
<1>3. PICK W : W = Seq(Tokens)
  OBVIOUS
<1>4. PICK rank : rank = [j \in D |-> L - j]
  OBVIOUS
<1>5. PICK R : R = [j \in D |-> [g \in [D -> W] |-> JoinText(ranges, j, g)]]
  OBVIOUS
<1>6. rank \in [D -> 0 .. L] /\ \A j \in D : j # L => j + 1 \in D /\ rank[j + 1] < rank[j]
  BY <1>1, <1>2, <1>4
<1>7. ASSUME NEW j \in D, NEW g \in [D -> W]
      PROVE  /\ JoinText(ranges, j, g) \in W
             /\ \A h : (j # L => g[j + 1] = h[j + 1]) => JoinText(ranges, j, g) = JoinText(ranges, j, h)
  <2>1. j # L => g[j + 1] \in W
    BY <1>6
  <2> QED BY <1>1, <1>2, <1>3, <2>1, JoinTextFacts
<1>8. R \in [D -> [[D -> W] -> W]] /\ \A j \in D, g \in [D -> W] : R[j][g] = JoinText(ranges, j, g)
  BY <1>5, <1>7
<1>9. ASSUME NEW j \in D, NEW g \in [D -> W], NEW h \in [D -> W], \A k \in D : rank[k] < rank[j] => g[k] = h[k]
      PROVE  R[j][g] = R[j][h]
  <2>1. j # L => g[j + 1] = h[j + 1]
    BY <1>6, <1>9
  <2> QED BY <1>7, <1>8, <2>1
<1>10. W # {}
  BY <1>3, EmptySeq
<1>11. RecursiveIn(L, D, rank, W, R)
  BY <1>1, <1>6, <1>8, <1>9, <1>10 DEF RecursiveIn
<1>18. PICK f \in [D -> W] : \A j \in D : f[j] = R[j][f]
  BY <1>11, RecursionIn
<1>12. f = [j \in D |-> JoinText(ranges, j, f)]
  BY <1>8, <1>18
<1>13. DOMAIN ranges = D
  BY <1>1, <1>2
<1>14. PICK text : text = CHOOSE t : t = [j \in D |-> JoinText(ranges, j, t)]
  OBVIOUS
<1>15. text = [j \in D |-> JoinText(ranges, j, text)]
  BY <1>12, <1>14
<1>16. SetText(ranges) = text[1]
  BY <1>13, <1>14 DEF SetText
<1>17. ASSUME NEW j \in 1 .. L, \A k \in j + 1 .. L : text[k] \in W PROVE text[j] \in W
  <2>1. j # L => text[j + 1] \in W
    BY <1>6, <1>17
  <2> QED BY <1>1, <1>2, <1>3, <1>15, <2>1, JoinTextFacts
<1>19. \A j \in 1 .. L : text[j] \in W
  <2> DEFINE P == {j \in 1 .. L : text[j] \in W}
  <2>1. \A j \in 1 .. L : (\A k \in j + 1 .. L : k \in P) => j \in P
    BY <1>17
  <2> HIDE DEF P
  <2>2. \A j \in 1 .. L : j \in P
    BY <2>1, Places
  <2> QED BY <2>2 DEF P
<1>20. text \in [1 .. Len(ranges) -> Seq(Tokens)] /\ \A j \in 1 .. Len(ranges) : text[j] = JoinText(ranges, j, text)
  BY <1>1, <1>2, <1>3, <1>15, <1>19
<1> QED BY <1>16, <1>20

\* The texts of sets, token by token: numbers, a colon only inside a pair in its
\* order, and commas between.
FitsAt(x, i) ==
  /\ x[i].t \in {"number", ":", "comma"}
  /\ x[i].t = "number" => x[i].n \in 0 .. MaxNumber /\ Kind(x, i + 1) \in {":", "comma", "end"}
  /\ x[i].t \in {":", "comma"} => Kind(x, i + 1) = "number"
  /\ x[i].t = ":" => Kind(x, i + 2) # ":"
  /\ x[i].t = "number" /\ Kind(x, i + 1) = ":" => x[i].n <= Look(x, i + 2).n
SetLike(x) ==
  /\ x \in Seq(Tokens) /\ x # <<>> /\ x[1].t = "number"
  /\ \A i \in 1 .. Len(x) : FitsAt(x, i)

\* What the token at place i says of the set.
ReadAt(x, i) == IF Kind(x, i + 1) = ":" THEN x[i].n .. Look(x, i + 2).n ELSE {x[i].n}

\* A set says what its numbers say, each at its place.
LEMMA ReadsFacts ==
  ASSUME NEW x \in Seq(Tokens), NEW n
  PROVE  n \in Reads(x) <=> \E i \in 1 .. Len(x) : x[i].t = "number" /\ n \in ReadAt(x, i)
<1>1. DOMAIN x = 1 .. Len(x)
  OBVIOUS
<1> QED BY <1>1 DEF Reads, ReadAt

\* The places of a sequence.
LEMMA SeqDomain ==
  ASSUME NEW S, NEW s \in Seq(S) PROVE DOMAIN s = 1 .. Len(s) /\ Len(s) \in Nat
  OBVIOUS

\* A word is a token.
LEMMA WordType ==
  ASSUME NEW k \in Leaves \cup Marks PROVE Word(k) \in Tokens /\ Word(k).t = k
  BY DEF Tokens, Fields, Word, Token

\* A comma is a token.
LEMMA CommaType == Word("comma") \in Tokens /\ Word("comma").t = "comma"
<1>1. "comma" \in Leaves \cup Marks
  BY DEF Marks
<1> QED BY <1>1, WordType

\* Looking at a place inside a text and outside of it.
LEMMA KindFacts ==
  ASSUME NEW x \in Seq(Tokens), NEW i \in Int
  PROVE  /\ i \in 1 .. Len(x) => Look(x, i) = x[i] /\ Kind(x, i) = x[i].t /\ Kind(x, i) # "end"
         /\ i \notin 1 .. Len(x) => Kind(x, i) = "end"
<1>1. DOMAIN x = 1 .. Len(x)
  OBVIOUS
<1>2. i \in 1 .. Len(x) => x[i].t \in Leaves \cup Marks
  <2>1. i \in 1 .. Len(x) => x[i] \in Tokens
    OBVIOUS
  <2> QED BY <2>1 DEF Tokens
<1>3. "end" \notin Leaves \cup Marks
  BY DEF Leaves, Marks
<1> QED BY <1>1, <1>2, <1>3 DEF Look, Kind, Word, Token

HasComma(x) == Occurs("comma", x)

\* The spans of answers.
SentSpans == {r \in Spans : r.lo <= r.hi /\ r.hi <= MaxNumber}

\* The text of one range is a set without a comma that says the range.
LEMMA OneRange ==
  ASSUME NEW r \in SentSpans
  PROVE  /\ SetLike(RangeText(r)) /\ ~HasComma(RangeText(r))
         /\ \A n : n \in Reads(RangeText(r)) <=> n \in r.lo .. r.hi
<1>1. MaxNumber \in Nat /\ r.lo \in 0 .. MaxNumber /\ r.hi \in 0 .. MaxNumber /\ r.lo <= r.hi /\ r.hi # All
  BY NumberAssumption DEF SentSpans, Spans, All
<1>2. PICK x : x = RangeText(r)
  OBVIOUS
<1>3. x \in Seq(Tokens)
  BY <1>2, RangeTextType DEF SentSpans
<1>4. CASE r.lo = r.hi
  <2>0. x = <<Number(r.lo)>>
    BY <1>1, <1>2, <1>4 DEF RangeText
  <2>1. Len(x) = 1 /\ x[1].t = "number" /\ x[1].n = r.lo
    BY <2>0 DEF Number, Token
  <2>2. \A i \in 1 .. Len(x) : i = 1
    BY <2>1
  <2>3. Kind(x, 1 + 1) = "end"
    BY <1>3, <2>1, KindFacts
  <2>7. FitsAt(x, 1)
    BY <1>1, <2>1, <2>3 DEF FitsAt
  <2>4. SetLike(x)
    <3>1. x # <<>>
      BY <2>1
    <3> QED BY <1>3, <2>1, <2>2, <2>7, <3>1 DEF SetLike
  <2>5. \A n : n \in Reads(x) <=> n \in r.lo .. r.hi
    <3>1. ReadAt(x, 1) = {r.lo}
      BY <2>1, <2>3 DEF ReadAt
    <3>2. \A n : n \in r.lo .. r.hi <=> n = r.lo
      BY <1>1, <1>4
    <3>4. 1 \in 1 .. Len(x)
      BY <2>1
    <3>3. \A n : n \in Reads(x) <=> n \in ReadAt(x, 1)
      <4> SUFFICES ASSUME NEW n PROVE n \in Reads(x) <=> n \in ReadAt(x, 1)
        OBVIOUS
      <4>1. n \in Reads(x) <=> \E i \in 1 .. Len(x) : x[i].t = "number" /\ n \in ReadAt(x, i)
        BY <1>3, ReadsFacts
      <4> QED BY <2>1, <2>2, <3>4, <4>1
    <3> QED BY <3>1, <3>2, <3>3
  <2>6. ~HasComma(x)
    <3>1. DOMAIN x = 1 .. Len(x)
      BY <1>3
    <3> QED BY <2>1, <2>2, <3>1 DEF HasComma, Occurs
  <2> QED BY <1>2, <2>4, <2>5, <2>6
<1>5. CASE r.lo # r.hi
  <2>1. x = <<Number(r.lo), Word(":"), Number(r.hi)>>
    BY <1>1, <1>2, <1>5 DEF RangeText
  <2>2. /\ Len(x) = 3 /\ x[1].t = "number" /\ x[1].n = r.lo /\ x[2].t = ":"
        /\ x[3].t = "number" /\ x[3].n = r.hi
    BY <2>1 DEF Number, Word, Token
  <2>3. \A i \in 1 .. Len(x) : i = 1 \/ i = 2 \/ i = 3
    BY <2>2
  <2>4. Kind(x, 1 + 1) = ":" /\ Kind(x, 2 + 1) = "number" /\ Kind(x, 3 + 1) = "end" /\ Kind(x, 2 + 2) = "end"
        /\ Look(x, 1 + 2) = x[3]
    <3>1. 2 \in 1 .. Len(x) /\ 3 \in 1 .. Len(x) /\ 4 \notin 1 .. Len(x) /\ 2 \in Int /\ 3 \in Int /\ 4 \in Int
      BY <2>2
    <3>2. Kind(x, 2) = ":" /\ Kind(x, 3) = "number" /\ Kind(x, 4) = "end" /\ Look(x, 3) = x[3]
      BY <1>3, <2>2, <3>1, KindFacts
    <3> QED BY <3>2
  <2>8. FitsAt(x, 1)
    BY <1>1, <2>2, <2>4 DEF FitsAt
  <2>9. FitsAt(x, 2)
    BY <1>1, <2>2, <2>4 DEF FitsAt
  <2>10. FitsAt(x, 3)
    BY <1>1, <2>2, <2>4 DEF FitsAt
  <2>5. SetLike(x)
    <3>1. x # <<>>
      BY <2>2
    <3> QED BY <1>3, <2>2, <2>3, <2>8, <2>9, <2>10, <3>1 DEF SetLike
  <2>6. \A n : n \in Reads(x) <=> n \in r.lo .. r.hi
    <3>1. ReadAt(x, 1) = r.lo .. r.hi /\ ReadAt(x, 3) = {r.hi}
      BY <2>2, <2>4 DEF ReadAt
    <3>2. r.hi \in r.lo .. r.hi /\ 1 \in 1 .. Len(x)
      BY <1>1, <2>2
    <3> QED BY <1>3, <2>2, <2>3, <3>1, <3>2, ReadsFacts
  <2>7. ~HasComma(x)
    <3>1. DOMAIN x = 1 .. Len(x)
      BY <1>3
    <3> QED BY <2>2, <2>3, <3>1 DEF HasComma, Occurs
  <2> QED BY <1>2, <2>5, <2>6, <2>7
<1> QED BY <1>4, <1>5

\* A text, a comma and a text.
Joined(a, b) == a \o (<<Word("comma")>> \o b)

\* Two texts with a comma between them, token by token.
LEMMA JoinedTokens ==
  ASSUME NEW a \in Seq(Tokens), NEW b \in Seq(Tokens)
  PROVE  /\ Joined(a, b) \in Seq(Tokens) /\ Len(Joined(a, b)) = Len(a) + 1 + Len(b)
         /\ \A i \in 1 .. Len(a) : Joined(a, b)[i] = a[i]
         /\ Joined(a, b)[Len(a) + 1] = Word("comma")
         /\ \A i \in 1 .. Len(b) : Joined(a, b)[Len(a) + 1 + i] = b[i]
<1>1. Word("comma") \in Tokens
  BY CommaType
<1>2. PICK w \in Tokens : w = Word("comma")
  BY <1>1
<1>3. PICK c1 : c1 = <<w>> \o b
  OBVIOUS
<1>4. c1 \in Seq(Tokens) /\ Len(c1) = 1 + Len(b) /\ c1[1] = w /\ \A i \in 1 .. Len(b) : c1[1 + i] = b[i]
  BY <1>3
<1>5. PICK x : x = a \o c1
  OBVIOUS
<1>6. /\ x \in Seq(Tokens) /\ Len(x) = Len(a) + Len(c1)
      /\ (\A i \in 1 .. Len(a) : x[i] = a[i]) /\ \A i \in 1 .. Len(c1) : x[Len(a) + i] = c1[i]
  <2>1. c1 \in Seq(Tokens)
    BY <1>4
  <2> QED BY <1>5, <2>1
<1>7. x[Len(a) + 1] = w
  <2>1. 1 \in 1 .. Len(c1)
    BY <1>4
  <2> QED BY <1>4, <1>6, <2>1
<1>8. \A i \in 1 .. Len(b) : x[Len(a) + 1 + i] = b[i]
  <2>1. \A i \in 1 .. Len(b) : 1 + i \in 1 .. Len(c1) /\ Len(a) + 1 + i = Len(a) + (1 + i)
    BY <1>4
  <2> QED BY <1>4, <1>6, <2>1
<1>9. Len(x) = Len(a) + 1 + Len(b)
  BY <1>4, <1>6
<1>10. x = Joined(a, b)
  BY <1>2, <1>3, <1>5 DEF Joined
<1> QED BY <1>2, <1>6, <1>7, <1>8, <1>9, <1>10

\* The places of the parts in the whole.
LEMMA JoinedKinds ==
  ASSUME NEW a \in Seq(Tokens), NEW b \in Seq(Tokens)
  PROVE  /\ \A i \in 1 .. Len(a) : Look(Joined(a, b), i) = Look(a, i) /\ Kind(Joined(a, b), i) = Kind(a, i)
         /\ Kind(Joined(a, b), Len(a) + 1) = "comma"
         /\ \A i \in 1 .. Len(b) + 2 : /\ Look(Joined(a, b), Len(a) + 1 + i) = Look(b, i)
                                       /\ Kind(Joined(a, b), Len(a) + 1 + i) = Kind(b, i)
<1>0. PICK x : x = Joined(a, b)
  OBVIOUS
<1>1. /\ x \in Seq(Tokens) /\ Len(x) = Len(a) + 1 + Len(b)
      /\ \A i \in 1 .. Len(a) : x[i] = a[i]
      /\ x[Len(a) + 1] = Word("comma")
      /\ \A i \in 1 .. Len(b) : x[Len(a) + 1 + i] = b[i]
  BY <1>0, JoinedTokens
<1>2. DOMAIN x = 1 .. Len(x) /\ DOMAIN a = 1 .. Len(a) /\ DOMAIN b = 1 .. Len(b)
  BY <1>1, SeqDomain
<1>9. Len(a) \in Nat /\ Len(b) \in Nat
  OBVIOUS
<1>10. Len(x) = Len(a) + 1 + Len(b)
  BY <1>1
<1>3. ASSUME NEW i \in 1 .. Len(a) PROVE Look(x, i) = Look(a, i)
  <2>1. i \in 1 .. Len(x)
    BY <1>9, <1>10
  <2> QED BY <1>1, <1>2, <2>1 DEF Look
<1>4. Look(x, Len(a) + 1) = Word("comma")
  <2>1. Len(a) + 1 \in 1 .. Len(x)
    BY <1>9, <1>10
  <2> QED BY <1>1, <1>2, <2>1 DEF Look
<1>5. ASSUME NEW i \in 1 .. Len(b) + 2 PROVE Look(x, Len(a) + 1 + i) = Look(b, i)
  <2>1. CASE i \in 1 .. Len(b)
    <3>1. Len(a) + 1 + i \in 1 .. Len(x)
      BY <1>9, <1>10, <2>1
    <3> QED BY <1>1, <1>2, <2>1, <3>1 DEF Look
  <2>2. CASE i \notin 1 .. Len(b)
    <3>1. Len(a) + 1 + i \notin 1 .. Len(x)
      BY <1>9, <1>10, <2>2
    <3> QED BY <1>1, <1>2, <2>2, <3>1 DEF Look
  <2> QED BY <2>1, <2>2
<1>6. Kind(x, Len(a) + 1) = "comma"
  BY <1>4, CommaType DEF Kind
<1> QED BY <1>0, <1>3, <1>4, <1>5, <1>6 DEF Kind

\* In the first part, at the comma, in the last part.
LEMMA JoinedPlaces ==
  ASSUME NEW a \in Seq(Tokens), NEW b \in Seq(Tokens), NEW i \in 1 .. Len(Joined(a, b))
  PROVE  i \in 1 .. Len(a) \/ i = Len(a) + 1 \/ \E k \in 1 .. Len(b) : i = Len(a) + 1 + k
<1>1. Len(a) \in Nat /\ Len(b) \in Nat /\ i \in Int /\ 1 <= i
  OBVIOUS
<1>2. Len(Joined(a, b)) = Len(a) + 1 + Len(b)
  BY JoinedTokens
<1>3. i <= Len(a) + 1 + Len(b)
  BY <1>1, <1>2
<1>4. CASE i > Len(a) + 1
  <2>1. i - (Len(a) + 1) \in 1 .. Len(b) /\ i = Len(a) + 1 + (i - (Len(a) + 1))
    BY <1>1, <1>3, <1>4
  <2> QED BY <2>1
<1> QED BY <1>1, <1>3, <1>4

\* Kinds at the places after those of the first part.
LEMMA FirstPart ==
  ASSUME NEW a \in Seq(Tokens), NEW b \in Seq(Tokens), NEW i \in 1 .. Len(a) + 1
  PROVE  Kind(Joined(a, b), i) = IF i = Len(a) + 1 THEN "comma" ELSE Kind(a, i)
<1>1. Len(a) \in Nat
  OBVIOUS
<1>2. i = Len(a) + 1 \/ i \in 1 .. Len(a)
  BY <1>1
<1> QED BY <1>1, <1>2, JoinedKinds

\* The tokens before the comma mean what they meant alone.
LEMMA JoinedFitsFirst ==
  ASSUME NEW a, SetLike(a), NEW b, SetLike(b), NEW i \in 1 .. Len(a)
  PROVE  /\ FitsAt(Joined(a, b), i)
         /\ Joined(a, b)[i] = a[i] /\ (a[i].t = "number" => ReadAt(Joined(a, b), i) = ReadAt(a, i))
<1>1. PICK x : x = Joined(a, b)
  OBVIOUS
<1>2. a \in Seq(Tokens) /\ b \in Seq(Tokens) /\ FitsAt(a, i) /\ Len(a) \in Nat /\ i \in Nat
  BY DEF SetLike
<1>3. x[i] = a[i]
  BY <1>1, <1>2, JoinedTokens
<1>4. Kind(x, i + 1) = IF i = Len(a) THEN "comma" ELSE Kind(a, i + 1)
  <2>1. i + 1 \in 1 .. Len(a) + 1 /\ (i + 1 = Len(a) + 1 <=> i = Len(a))
    BY <1>2
  <2> QED BY <1>1, <1>2, <2>1, FirstPart
<1>5. Kind(a, i + 1) # "end" => i + 1 \in 1 .. Len(a) /\ i # Len(a)
  <2>1. i + 1 \in Int
    BY <1>2
  <2>2. Kind(a, i + 1) # "end" => i + 1 \in 1 .. Len(a)
    BY <1>2, <2>1, KindFacts
  <2> QED BY <1>2, <2>2
<1>6. i = Len(a) => Kind(a, i + 1) = "end"
  BY <1>5
<1>7. i # Len(a) => Kind(x, i + 2) = IF i + 1 = Len(a) THEN "comma" ELSE Kind(a, i + 2)
  <2>1. i # Len(a) => i + 2 \in 1 .. Len(a) + 1 /\ (i + 2 = Len(a) + 1 <=> i + 1 = Len(a))
    BY <1>2
  <2> QED BY <1>1, <1>2, <2>1, FirstPart
<1>10. Kind(a, i + 1) = ":" => Look(x, i + 2) = Look(a, i + 2) /\ i # Len(a)
  <2> SUFFICES ASSUME Kind(a, i + 1) = ":" PROVE Look(x, i + 2) = Look(a, i + 2) /\ i # Len(a)
    OBVIOUS
  <2>1. i + 1 \in 1 .. Len(a) /\ i # Len(a)
    BY <1>5
  <2>2. FitsAt(a, i + 1) /\ a[i + 1].t = ":"
    BY <1>2, <2>1, KindFacts DEF SetLike
  <2>3. Kind(a, (i + 1) + 1) = "number"
    BY <2>2 DEF FitsAt
  <2>4. (i + 1) + 1 = i + 2 /\ i + 2 \in Int
    BY <1>2
  <2>5. i + 2 \in 1 .. Len(a)
    BY <1>2, <2>3, <2>4, KindFacts
  <2>6. Look(x, i + 2) = Look(a, i + 2)
    BY <1>1, <1>2, <2>5, JoinedKinds
  <2> QED BY <2>1, <2>6
<1>8. FitsAt(x, i)
  <2>1. x[i].t \in {"number", ":", "comma"}
    BY <1>2, <1>3 DEF FitsAt
  <2>2. x[i].t = "number" => x[i].n \in 0 .. MaxNumber /\ Kind(x, i + 1) \in {":", "comma", "end"}
    BY <1>2, <1>3, <1>4 DEF FitsAt
  <2>3. x[i].t \in {":", "comma"} => Kind(x, i + 1) = "number"
    BY <1>2, <1>3, <1>4, <1>6 DEF FitsAt
  <2>4. x[i].t = ":" => Kind(x, i + 2) # ":"
    <3>1. x[i].t = ":" => i # Len(a) /\ Kind(a, i + 2) # ":"
      BY <1>2, <1>3, <1>6 DEF FitsAt
    <3> QED BY <1>7, <3>1
  <2>5. x[i].t = "number" /\ Kind(x, i + 1) = ":" => x[i].n <= Look(x, i + 2).n
    <3>1. Kind(x, i + 1) = ":" => Kind(a, i + 1) = ":"
      BY <1>4
    <3> QED BY <1>2, <1>3, <1>10, <3>1 DEF FitsAt
  <2> QED BY <2>1, <2>2, <2>3, <2>4, <2>5 DEF FitsAt
<1>9. ASSUME a[i].t = "number" PROVE ReadAt(x, i) = ReadAt(a, i)
  <2>1. CASE Kind(a, i + 1) = ":"
    <3>1. Look(x, i + 2) = Look(a, i + 2) /\ Kind(x, i + 1) = ":"
      BY <1>4, <1>10, <2>1
    <3> QED BY <1>3, <2>1, <3>1 DEF ReadAt
  <2>2. CASE Kind(a, i + 1) # ":"
    <3>1. Kind(x, i + 1) # ":"
      BY <1>4, <2>2
    <3> QED BY <1>3, <2>2, <3>1 DEF ReadAt
  <2> QED BY <2>1, <2>2
<1> QED BY <1>1, <1>3, <1>8, <1>9

\* So do the tokens after it.
LEMMA JoinedFitsLast ==
  ASSUME NEW a, SetLike(a), NEW b, SetLike(b), NEW k \in 1 .. Len(b)
  PROVE  /\ FitsAt(Joined(a, b), Len(a) + 1 + k)
         /\ Joined(a, b)[Len(a) + 1 + k] = b[k] /\ ReadAt(Joined(a, b), Len(a) + 1 + k) = ReadAt(b, k)
<1>1. PICK x : x = Joined(a, b)
  OBVIOUS
<1>2. a \in Seq(Tokens) /\ b \in Seq(Tokens) /\ FitsAt(b, k) /\ Len(a) \in Nat /\ Len(b) \in Nat /\ k \in Nat
  BY DEF SetLike
<1>3. PICK i \in Nat : i = Len(a) + 1 + k
  BY <1>2
<1>4. x[i] = b[k]
  BY <1>1, <1>2, <1>3, JoinedTokens
<1>5. /\ k + 1 \in 1 .. Len(b) + 2 /\ k + 2 \in 1 .. Len(b) + 2
      /\ i + 1 = Len(a) + 1 + (k + 1) /\ i + 2 = Len(a) + 1 + (k + 2)
  BY <1>2, <1>3
<1>6. Kind(x, i + 1) = Kind(b, k + 1)
  BY <1>1, <1>2, <1>5, JoinedKinds
<1>7. Kind(x, i + 2) = Kind(b, k + 2) /\ Look(x, i + 2) = Look(b, k + 2)
  <2>1. PICK j \in 1 .. Len(b) + 2 : j = k + 2
    BY <1>5
  <2>2. Look(x, Len(a) + 1 + j) = Look(b, j) /\ Kind(x, Len(a) + 1 + j) = Kind(b, j)
    BY <1>1, <1>2, JoinedKinds
  <2> QED BY <1>5, <2>1, <2>2
<1>8. FitsAt(x, i)
  BY <1>2, <1>4, <1>6, <1>7 DEF FitsAt
<1>9. ReadAt(x, i) = ReadAt(b, k)
  BY <1>4, <1>6, <1>7 DEF ReadAt
<1> QED BY <1>1, <1>3, <1>4, <1>8, <1>9

\* Two sets with a comma between them are a set of what both say.
LEMMA JoinedSet ==
  ASSUME NEW a, SetLike(a), NEW b, SetLike(b)
  PROVE  /\ SetLike(Joined(a, b)) /\ HasComma(Joined(a, b))
         /\ \A n : n \in Reads(Joined(a, b)) <=> n \in Reads(a) \/ n \in Reads(b)
<1>1. PICK x : x = Joined(a, b)
  OBVIOUS
<1>2. /\ a \in Seq(Tokens) /\ b \in Seq(Tokens) /\ x \in Seq(Tokens)
      /\ Len(a) \in Nat \ {0} /\ Len(b) \in Nat \ {0} /\ a[1].t = "number" /\ b[1].t = "number"
  <2>1. x \in Seq(Tokens)
    BY <1>1, JoinedTokens DEF SetLike
  <2> QED BY <2>1 DEF SetLike
<1>3. Len(x) = Len(a) + 1 + Len(b)
  BY <1>1, <1>2, JoinedTokens
<1>4. 1 \in 1 .. Len(a) /\ 1 \in 1 .. Len(b) /\ Len(a) + 1 \in 1 .. Len(x) /\ x # <<>>
  <2>1. Len(a) + 1 \in 1 .. Len(x) /\ 1 \in 1 .. Len(a) /\ 1 \in 1 .. Len(b) /\ Len(x) # 0
    BY <1>2, <1>3
  <2> QED BY <1>2, <2>1
<1>5. FitsAt(x, Len(a) + 1) /\ x[Len(a) + 1].t = "comma"
  <2>1. x[Len(a) + 1].t = "comma"
    BY <1>1, <1>2, JoinedTokens, CommaType
  <2>2. Kind(x, (Len(a) + 1) + 1) = "number"
    <3>1. 1 \in 1 .. Len(b) + 2 /\ (Len(a) + 1) + 1 = Len(a) + 1 + 1
      BY <1>2
    <3>2. Kind(x, Len(a) + 1 + 1) = Kind(b, 1)
      BY <1>1, <1>2, <3>1, JoinedKinds
    <3>3. Kind(b, 1) = "number"
      BY <1>2, <1>4, KindFacts
    <3> QED BY <3>1, <3>2, <3>3
  <2> QED BY <2>1, <2>2 DEF FitsAt
<1>6. \A i \in 1 .. Len(a) : FitsAt(x, i) /\ x[i] = a[i] /\ (a[i].t = "number" => ReadAt(x, i) = ReadAt(a, i))
  BY <1>1, JoinedFitsFirst
<1>7. \A k \in 1 .. Len(b) :
        LET i == Len(a) + 1 + k IN FitsAt(x, i) /\ x[i] = b[k] /\ ReadAt(x, i) = ReadAt(b, k) /\ i \in 1 .. Len(x)
  <2> SUFFICES ASSUME NEW k \in 1 .. Len(b)
               PROVE LET i == Len(a) + 1 + k
                     IN FitsAt(x, i) /\ x[i] = b[k] /\ ReadAt(x, i) = ReadAt(b, k) /\ i \in 1 .. Len(x)
    OBVIOUS
  <2>1. Len(a) + 1 + k \in 1 .. Len(x)
    BY <1>2, <1>3
  <2> QED BY <1>1, <2>1, JoinedFitsLast
<1>8. \A i \in 1 .. Len(x) : i \in 1 .. Len(a) \/ i = Len(a) + 1 \/ \E k \in 1 .. Len(b) : i = Len(a) + 1 + k
  BY <1>1, <1>2, JoinedPlaces
<1>9. SetLike(x)
  <2>1. x[1].t = "number"
    BY <1>2, <1>4, <1>6
  <2>2. ASSUME NEW i \in 1 .. Len(x) PROVE FitsAt(x, i)
    BY <1>5, <1>6, <1>7, <1>8
  <2> QED BY <1>2, <1>4, <2>1, <2>2 DEF SetLike
<1>10. HasComma(x)
  BY <1>2, <1>4, <1>5, SeqDomain DEF HasComma, Occurs
<1>11. ASSUME NEW n PROVE n \in Reads(x) <=> n \in Reads(a) \/ n \in Reads(b)
  <2>1. n \in Reads(x) <=> \E i \in 1 .. Len(x) : x[i].t = "number" /\ n \in ReadAt(x, i)
    BY <1>2, ReadsFacts
  <2>2. n \in Reads(a) <=> \E i \in 1 .. Len(a) : a[i].t = "number" /\ n \in ReadAt(a, i)
    BY <1>2, ReadsFacts
  <2>3. n \in Reads(b) <=> \E i \in 1 .. Len(b) : b[i].t = "number" /\ n \in ReadAt(b, i)
    BY <1>2, ReadsFacts
  <2>4. ASSUME n \in Reads(x) PROVE n \in Reads(a) \/ n \in Reads(b)
    <3>1. PICK i \in 1 .. Len(x) : x[i].t = "number" /\ n \in ReadAt(x, i)
      BY <2>1, <2>4
    <3>2. CASE i \in 1 .. Len(a)
      BY <1>6, <2>2, <3>1, <3>2
    <3>3. CASE i = Len(a) + 1
      BY <1>5, <3>1, <3>3
    <3>4. CASE \E k \in 1 .. Len(b) : i = Len(a) + 1 + k
      BY <1>7, <2>3, <3>1, <3>4
    <3> QED BY <1>8, <3>2, <3>3, <3>4
  <2>5. ASSUME n \in Reads(a) PROVE n \in Reads(x)
    <3>1. PICK i \in 1 .. Len(a) : a[i].t = "number" /\ n \in ReadAt(a, i)
      BY <2>2, <2>5
    <3>2. i \in 1 .. Len(x)
      BY <1>2, <1>3
    <3> QED BY <1>6, <2>1, <3>1, <3>2
  <2>6. ASSUME n \in Reads(b) PROVE n \in Reads(x)
    BY <1>7, <2>1, <2>3, <2>6
  <2> QED BY <2>4, <2>5, <2>6
<1> QED BY <1>1, <1>9, <1>10, <1>11

\* The text of a set says what its ranges say.
LEMMA SentSet ==
  ASSUME NEW ranges \in Seq(SentSpans), ranges # <<>>
  PROVE  /\ SetLike(SetText(ranges)) /\ (HasComma(SetText(ranges)) <=> Len(ranges) > 1)
         /\ \A n : n \in Reads(SetText(ranges)) <=> \E j \in 1 .. Len(ranges) : n \in ranges[j].lo .. ranges[j].hi
<1>1. ranges \in Seq(Spans)
  BY DEF SentSpans
<1>2. PICK text \in [1 .. Len(ranges) -> Seq(Tokens)] :
        SetText(ranges) = text[1] /\ \A j \in 1 .. Len(ranges) : text[j] = JoinText(ranges, j, text)
  BY <1>1, SetTextFacts
<1>3. PICK L \in Nat \ {0} : L = Len(ranges)
  OBVIOUS
<1> DEFINE Good(j) ==
      /\ SetLike(text[j]) /\ (HasComma(text[j]) <=> j < L)
      /\ \A n : n \in Reads(text[j]) <=> \E k \in j .. L : n \in ranges[k].lo .. ranges[k].hi
<1>4. ASSUME NEW j \in 1 .. L, j < L => Good(j + 1) PROVE Good(j)
  <2>1. ranges[j] \in SentSpans
    BY <1>3
  <2>2. PICK a : a = RangeText(ranges[j])
    OBVIOUS
  <2>3. SetLike(a) /\ ~HasComma(a) /\ \A n : n \in Reads(a) <=> n \in ranges[j].lo .. ranges[j].hi
    BY <2>1, <2>2, OneRange
  <2>4. CASE j = L
    <3>1. text[j] = a
      <4>1. text[j] = a \o <<>>
        BY <1>2, <1>3, <2>2, <2>4 DEF JoinText
      <4>2. a \in Seq(Tokens)
        BY <2>3 DEF SetLike
      <4> QED BY <4>1, <4>2
    <3>2. \A k : k \in j .. L <=> k = j
      BY <2>4
    <3>3. ~(j < L)
      BY <2>4
    <3> QED BY <2>3, <3>1, <3>2, <3>3
  <2>5. CASE j # L
    <3>1. j < L /\ j + 1 \in 1 .. L
      BY <2>5
    <3>2. PICK b : b = text[j + 1]
      OBVIOUS
    <3>3. SetLike(b) /\ \A n : n \in Reads(b) <=> \E k \in j + 1 .. L : n \in ranges[k].lo .. ranges[k].hi
      BY <1>4, <3>1, <3>2
    <3>4. text[j] = Joined(a, b)
      BY <1>2, <1>3, <2>2, <2>5, <3>2 DEF JoinText, Joined
    <3>5. SetLike(text[j]) /\ HasComma(text[j])
      <4>1. SetLike(a) /\ SetLike(b)
        BY <2>3, <3>3
      <4> HIDE DEF Good
      <4>2. SetLike(Joined(a, b)) /\ HasComma(Joined(a, b))
        BY <4>1, JoinedSet
      <4> QED BY <3>4, <4>2
    <3>6. ASSUME NEW n PROVE n \in Reads(text[j]) <=> \E k \in j .. L : n \in ranges[k].lo .. ranges[k].hi
      <4>1. n \in Reads(text[j]) <=> n \in Reads(a) \/ n \in Reads(b)
        BY <2>3, <3>3, <3>4, JoinedSet
      <4>2. \A k : k \in j .. L <=> k = j \/ k \in j + 1 .. L
        BY <3>1
      <4> QED BY <2>3, <3>3, <4>1, <4>2
    <3> QED BY <3>1, <3>5, <3>6
  <2> QED BY <2>4, <2>5
<1>5. \A j \in 1 .. L : Good(j)
  <2> DEFINE P == {j \in 1 .. L : Good(j)}
  <2>1. ASSUME NEW j \in 1 .. L, \A k \in j + 1 .. L : k \in P PROVE j \in P
    <3>1. j < L => j + 1 \in j + 1 .. L
      OBVIOUS
    <3> HIDE DEF Good
    <3>2. j < L => Good(j + 1)
      BY <2>1, <3>1
    <3> QED BY <1>4, <3>2
  <2> HIDE DEF P
  <2>2. \A j \in 1 .. L : j \in P
    BY <2>1, Places
  <2> QED BY <2>2 DEF P
<1>6. 1 \in 1 .. L /\ (1 < L <=> Len(ranges) > 1)
  BY <1>3
<1>7. Good(1)
  BY <1>5, <1>6
<1> QED BY <1>2, <1>3, <1>6, <1>7

-----------------------------------------------------------------------------
(* The runs of an answer *)

\* A number is in a range of the list.
Covers(ranges, n) == \E j \in 1 .. Len(ranges) : n \in ranges[j].lo .. ranges[j].hi
\* A number is one of the first i results.
Among(results, i, n) == \E j \in 1 .. i : results[j] = n

\* The elements of a sequence.
LEMMA ElementType == ASSUME NEW S, NEW s \in Seq(S), NEW i \in 1 .. Len(s) PROVE s[i] \in S
  OBVIOUS
\* A sequence with one more element.
LEMMA AppendType ==
  ASSUME NEW S, NEW s \in Seq(S), NEW e \in S
  PROVE  /\ Append(s, e) \in Seq(S) /\ Len(Append(s, e)) = Len(s) + 1 /\ Append(s, e)[Len(s) + 1] = e
         /\ \A i \in 1 .. Len(s) : Append(s, e)[i] = s[i]
  OBVIOUS

\* One more range covers its own numbers and nothing else.
LEMMA AppendCovers ==
  ASSUME NEW ranges \in Seq(SentSpans), NEW r \in SentSpans, NEW n
  PROVE  /\ Append(ranges, r) \in Seq(SentSpans) /\ Append(ranges, r) # <<>>
         /\ Covers(Append(ranges, r), n) <=> Covers(ranges, n) \/ n \in r.lo .. r.hi
<1>1. PICK s \in Seq(SentSpans) : s = Append(ranges, r)
  BY AppendType
<1>2. PICK L \in Nat : L = Len(ranges)
  OBVIOUS
<1>3. Len(s) = L + 1 /\ s[L + 1] = r /\ \A j \in 1 .. L : s[j] = ranges[j]
  BY <1>1, <1>2, AppendType
<1>4. \A j : j \in 1 .. L + 1 <=> j \in 1 .. L \/ j = L + 1
  BY <1>2
<1>5. Covers(s, n) <=> Covers(ranges, n) \/ n \in r.lo .. r.hi
  BY <1>2, <1>3, <1>4 DEF Covers
<1>6. s # <<>>
  BY <1>2, <1>3
<1> QED BY <1>1, <1>5, <1>6

RunsSet == [done : Seq(SentSpans), cur : SentSpans]
RunsCover(runs, n) == Covers(runs.done, n) \/ n \in runs.cur.lo .. runs.cur.hi

\* A span of numbers in their order.
LEMMA SpanType ==
  ASSUME NEW lo \in 0 .. MaxNumber, NEW hi \in 0 .. MaxNumber, lo <= hi
  PROVE  Span(lo, hi) \in SentSpans /\ Span(lo, hi).lo = lo /\ Span(lo, hi).hi = hi
<1>1. hi \in 0 .. All
  BY NumberAssumption DEF All
<1> QED BY <1>1 DEF SentSpans, Spans, Span

\* The runs that are complete and the one that is open.
LEMMA RunsType ==
  ASSUME NEW done \in Seq(SentSpans), NEW cur \in SentSpans
  PROVE  Runs(done, cur) \in RunsSet /\ Runs(done, cur).done = done /\ Runs(done, cur).cur = cur
BY DEF Runs, RunsSet

\* A result is added to the runs, which lose nothing but 0.
LEMMA AddFacts ==
  ASSUME NEW runs \in RunsSet, NEW n \in 0 .. MaxNumber
  PROVE  /\ add(runs, n) \in RunsSet
         /\ \A k : k # 0 => (RunsCover(add(runs, n), k) <=> RunsCover(runs, k) \/ k = n)
<1>1. runs.done \in Seq(SentSpans) /\ runs.cur \in SentSpans
  BY DEF RunsSet
<1>2. /\ runs.cur.lo \in 0 .. MaxNumber /\ runs.cur.hi \in 0 .. MaxNumber /\ runs.cur.lo <= runs.cur.hi
      /\ MaxNumber \in Nat
  BY <1>1, NumberAssumption DEF SentSpans, Spans
<1>3. PICK one : one = Span(n, n)
  OBVIOUS
<1>4. one \in SentSpans /\ one.lo = n /\ one.hi = n /\ \A k : k \in one.lo .. one.hi <=> k = n
  <2>1. one \in SentSpans /\ one.lo = n /\ one.hi = n
    BY <1>2, <1>3, SpanType
  <2> QED BY <2>1
<1>5. CASE runs.cur.hi = 0
  <2>1. add(runs, n) = Runs(runs.done, one)
    BY <1>3, <1>5 DEF add
  <2>2. \A k : k # 0 => k \notin runs.cur.lo .. runs.cur.hi
    BY <1>2, <1>5
  <2>3. Runs(runs.done, one) \in RunsSet /\ Runs(runs.done, one).done = runs.done /\ Runs(runs.done, one).cur = one
    BY <1>1, <1>4, RunsType
  <2> QED BY <1>4, <2>1, <2>2, <2>3 DEF RunsCover
<1>6. CASE runs.cur.hi # 0 /\ runs.cur.hi + 1 = n
  <2>1. PICK r : r = Span(runs.cur.lo, n)
    OBVIOUS
  <2>2. r \in SentSpans /\ r.lo = runs.cur.lo /\ r.hi = n
    <3>1. runs.cur.lo <= n
      BY <1>2, <1>6
    <3> QED BY <1>2, <2>1, <3>1, SpanType
  <2>3. add(runs, n) = Runs(runs.done, r)
    BY <1>6, <2>1 DEF add
  <2>4. Runs(runs.done, r) \in RunsSet /\ Runs(runs.done, r).done = runs.done /\ Runs(runs.done, r).cur = r
    BY <1>1, <2>2, RunsType
  <2>5. \A k : k \in runs.cur.lo .. n <=> k \in runs.cur.lo .. runs.cur.hi \/ k = n
    BY <1>2, <1>6
  <2> QED BY <2>2, <2>3, <2>4, <2>5 DEF RunsCover
<1>7. CASE runs.cur.hi # 0 /\ runs.cur.hi + 1 # n
  <2>1. PICK s : s = Append(runs.done, runs.cur)
    OBVIOUS
  <2>2. add(runs, n) = Runs(s, one)
    BY <1>3, <1>7, <2>1 DEF add
  <2>3. s \in Seq(SentSpans)
    BY <1>1, <2>1, AppendCovers
  <2>4. Runs(s, one) \in RunsSet /\ Runs(s, one).done = s /\ Runs(s, one).cur = one
    BY <1>4, <2>3, RunsType
  <2>5. \A k : Covers(s, k) <=> Covers(runs.done, k) \/ k \in runs.cur.lo .. runs.cur.hi
    BY <1>1, <2>1, AppendCovers
  <2> QED BY <1>4, <2>2, <2>4, <2>5 DEF RunsCover
<1> QED BY <1>5, <1>6, <1>7

\* Before the first result no number is covered, apart from 0.
LEMMA NoRuns ==
  /\ Runs(<<>>, Span(0, 0)) \in RunsSet
  /\ \A n : n # 0 => ~RunsCover(Runs(<<>>, Span(0, 0)), n)
<1>1. PICK r : r = Span(0, 0)
  OBVIOUS
<1>2. r \in SentSpans /\ r.lo = 0 /\ r.hi = 0
  BY <1>1, NumberAssumption, SpanType
<1>3. PICK s : s = <<>>
  OBVIOUS
<1>4. s \in Seq(SentSpans) /\ Len(s) = 0
  BY <1>3, EmptySeq
<1>5. Runs(s, r) \in RunsSet /\ Runs(s, r).done = s /\ Runs(s, r).cur = r
  BY <1>2, <1>4, RunsType
<1>6. \A n : ~Covers(s, n)
  BY <1>4 DEF Covers
<1>7. \A n : n # 0 => n \notin r.lo .. r.hi
  BY <1>2
<1> QED BY <1>1, <1>3, <1>5, <1>6, <1>7 DEF RunsCover

\* The runs after one more result depend only on the runs before it.
LEMMA RunsToFacts ==
  ASSUME NEW results \in Seq(0 .. MaxNumber), NEW i \in 0 .. Len(results), NEW g, i # 0 => g[i - 1] \in RunsSet
  PROVE  /\ runs_to(results, i, g) \in RunsSet
         /\ \A h : (i # 0 => g[i - 1] = h[i - 1]) => runs_to(results, i, g) = runs_to(results, i, h)
<1>1. CASE i = 0
  BY <1>1, NoRuns DEF runs_to
<1>2. CASE i # 0
  <2>1. results[i] \in 0 .. MaxNumber
    <3>1. i \in 1 .. Len(results)
      BY <1>2
    <3> QED BY <3>1, ElementType
  <2>2. add(g[i - 1], results[i]) \in RunsSet
    BY <1>2, <2>1, AddFacts
  <2> QED BY <1>2, <2>2 DEF runs_to
<1> QED BY <1>1, <1>2

\* The ranges of an answer are those of the results.
LEMMA GeneratedRanges ==
  ASSUME NEW results \in Seq(0 .. MaxNumber)
  PROVE  /\ generate_ranges(results) \in Seq(SentSpans) /\ generate_ranges(results) # <<>>
         /\ \A n : n # 0 => (Covers(generate_ranges(results), n) <=> Among(results, Len(results), n))
<1>1. PICK L \in Nat : L = Len(results)
  OBVIOUS
<1>2. PICK D : D = 0 .. L
  OBVIOUS
<1>3. PICK W : W = RunsSet
  OBVIOUS
<1>4. PICK rank : rank = [i \in D |-> i]
  OBVIOUS
<1>5. PICK R : R = [i \in D |-> [g \in [D -> W] |-> runs_to(results, i, g)]]
  OBVIOUS
<1>6. rank \in [D -> 0 .. L] /\ \A i \in D : i # 0 => i - 1 \in D /\ rank[i - 1] < rank[i]
  BY <1>1, <1>2, <1>4
<1>7. ASSUME NEW i \in D, NEW g \in [D -> W]
      PROVE  /\ runs_to(results, i, g) \in W
             /\ \A h : (i # 0 => g[i - 1] = h[i - 1]) => runs_to(results, i, g) = runs_to(results, i, h)
  <2>1. i # 0 => g[i - 1] \in W
    BY <1>6
  <2> QED BY <1>1, <1>2, <1>3, <2>1, RunsToFacts
<1>8. R \in [D -> [[D -> W] -> W]] /\ \A i \in D, g \in [D -> W] : R[i][g] = runs_to(results, i, g)
  BY <1>5, <1>7
<1>9. ASSUME NEW i \in D, NEW g \in [D -> W], NEW h \in [D -> W], \A k \in D : rank[k] < rank[i] => g[k] = h[k]
      PROVE  R[i][g] = R[i][h]
  <2>1. i # 0 => g[i - 1] = h[i - 1]
    BY <1>6, <1>9
  <2> QED BY <1>7, <1>8, <2>1
<1>10. W # {}
  BY <1>3, NoRuns
<1>11. RecursiveIn(L, D, rank, W, R)
  BY <1>1, <1>6, <1>8, <1>9, <1>10 DEF RecursiveIn
<1>12. PICK f \in [D -> W] : \A i \in D : f[i] = R[i][f]
  BY <1>11, RecursionIn
<1>13. f = [i \in D |-> runs_to(results, i, f)]
  BY <1>8, <1>12
<1>14. PICK runs : runs = CHOOSE t : t = [i \in D |-> runs_to(results, i, t)]
  OBVIOUS
<1>15. \A i \in D : runs[i] = runs_to(results, i, runs)
  BY <1>13, <1>14
<1>16. generate_ranges(results) = Append(runs[L].done, runs[L].cur)
  BY <1>1, <1>2, <1>14 DEF generate_ranges
<1> DEFINE Good(i) == runs[i] \in RunsSet /\ \A n : n # 0 => (RunsCover(runs[i], n) <=> Among(results, i, n))
<1>17. Good(0)
  <2>1. 0 \in D
    BY <1>1, <1>2
  <2>2. runs[0] = Runs(<<>>, Span(0, 0))
    BY <1>15, <2>1 DEF runs_to
  <2>3. \A n : ~Among(results, 0, n)
    BY DEF Among
  <2> QED BY <2>2, <2>3, NoRuns
<1>18. ASSUME NEW i \in Nat, i < L, Good(i) PROVE Good(i + 1)
  <2>1. i + 1 \in D /\ i + 1 # 0 /\ (i + 1) - 1 = i /\ i + 1 \in 1 .. L
    BY <1>1, <1>2, <1>18
  <2>2. runs[i + 1] = add(runs[i], results[i + 1])
    BY <1>15, <2>1 DEF runs_to
  <2>3. results[i + 1] \in 0 .. MaxNumber
    BY <1>1, <2>1, ElementType
  <2>4. /\ add(runs[i], results[i + 1]) \in RunsSet
        /\ \A n : n # 0 => (RunsCover(add(runs[i], results[i + 1]), n) <=> RunsCover(runs[i], n) \/ n = results[i + 1])
    BY <1>18, <2>3, AddFacts
  <2>5. \A j : j \in 1 .. i + 1 <=> j \in 1 .. i \/ j = i + 1
    BY <1>18
  <2>6. \A n : Among(results, i + 1, n) <=> Among(results, i, n) \/ n = results[i + 1]
    BY <2>5 DEF Among
  <2> QED BY <1>18, <2>2, <2>4, <2>6
<1>19. Good(L)
  <2> DEFINE T == {i \in Nat : Good(i)}
  <2>1. T \in SUBSET Nat /\ 0 \in T
    BY <1>17
  <2>2. \A i \in T : i < L => i + 1 \in T
    BY <1>18
  <2> HIDE DEF T
  <2>3. L \in T
    BY <2>1, <2>2, Upward
  <2> QED BY <2>3 DEF T
<1>20. runs[L].done \in Seq(SentSpans) /\ runs[L].cur \in SentSpans
  BY <1>19 DEF RunsSet
<1>21. /\ generate_ranges(results) \in Seq(SentSpans) /\ generate_ranges(results) # <<>>
       /\ \A n : Covers(generate_ranges(results), n) <=> RunsCover(runs[L], n)
  BY <1>16, <1>20, AppendCovers DEF RunsCover
<1> QED BY <1>1, <1>19, <1>21

\* The legacy answer has one range for each result.
LEMMA SinglesRanges ==
  ASSUME NEW results \in Seq(0 .. MaxNumber)
  PROVE  /\ Singles(results) \in Seq(SentSpans) /\ (Singles(results) = <<>> <=> results = <<>>)
         /\ \A n : Covers(Singles(results), n) <=> Among(results, Len(results), n)
<1>1. PICK s : s = Singles(results)
  OBVIOUS
<1>2. PICK L \in Nat : L = Len(results) /\ DOMAIN results = 1 .. L
  OBVIOUS
<1>3. \A i \in 1 .. L : Span(results[i], results[i]) \in SentSpans
  <2> SUFFICES ASSUME NEW i \in 1 .. L PROVE Span(results[i], results[i]) \in SentSpans
    OBVIOUS
  <2>1. results[i] \in 0 .. MaxNumber
    BY <1>2, ElementType
  <2>2. results[i] <= results[i]
    BY <2>1, NumberAssumption
  <2> QED BY <2>1, <2>2, SpanType
<1>4. s = [i \in 1 .. L |-> Span(results[i], results[i])]
  BY <1>1, <1>2 DEF Singles
<1>5. s \in [1 .. L -> SentSpans]
  BY <1>3, <1>4
<1>6. s \in Seq(SentSpans) /\ Len(s) = L
  BY <1>5
<1>7. \A i \in 1 .. L : s[i].lo = results[i] /\ s[i].hi = results[i] /\ results[i] \in Int
  <2> SUFFICES ASSUME NEW i \in 1 .. L PROVE s[i].lo = results[i] /\ s[i].hi = results[i] /\ results[i] \in Int
    OBVIOUS
  <2>1. results[i] \in 0 .. MaxNumber
    BY <1>2, ElementType
  <2>2. s[i] = Span(results[i], results[i])
    BY <1>4
  <2> QED BY <2>1, <2>2 DEF Span
<1>8. \A i \in 1 .. L : \A n : n \in s[i].lo .. s[i].hi <=> n = results[i]
  BY <1>7
<1>9. \A n : Covers(s, n) <=> Among(results, L, n)
  BY <1>6, <1>8 DEF Covers, Among
<1>10. s = <<>> <=> results = <<>>
  BY <1>2, <1>6
<1> QED BY <1>1, <1>2, <1>6, <1>9, <1>10

\* The set of an answer, as text.
LEMMA SetOfResults ==
  ASSUME NEW results \in Seq(0 .. MaxNumber), NEW ranges \in {generate_ranges(results), Singles(results)}, ranges # <<>>
  PROVE  /\ SetLike(SetText(ranges))
         /\ \A n : n # 0 => (n \in Reads(SetText(ranges)) <=> Among(results, Len(results), n))
<1>1. ranges \in Seq(SentSpans) /\ \A n : n # 0 => (Covers(ranges, n) <=> Among(results, Len(results), n))
  BY GeneratedRanges, SinglesRanges
<1> QED BY <1>1, SentSet DEF Covers

-----------------------------------------------------------------------------
(* Parsing a set *)

\* Ranges of a text, whatever their order.
AnySpans == [lo : Int, hi : Int]
\* What parsing a set can give at a place of a text of length L.
Parses(L) == {Panic} \cup [is : {"ok"}, value : Seq(AnySpans), next : 1 .. L + 1]
Hits(ranges, n) == \E j \in DOMAIN ranges : contains(ranges[j], n)

\* A parse that succeeds.
LEMMA OkType ==
  ASSUME NEW L \in Nat, NEW value \in Seq(AnySpans), NEW next \in 1 .. L + 1
  PROVE  Ok(value, next) \in Parses(L)
BY DEF Ok, Parses

\* What parsing a set gives.
LEMMA ParsesFacts ==
  ASSUME NEW L \in Nat, NEW r \in Parses(L)
  PROVE  /\ r.is \in {"ok", "panic"}
         /\ r.is = "ok" => r.value \in Seq(AnySpans) /\ r.next \in 1 .. L + 1
BY DEF Panic, Parses

\* A range takes one token or three.
LEMMA InnerFacts ==
  ASSUME NEW x \in Seq(Tokens), NEW i \in 1 .. Len(x) + 1,
         NEW first, first = parse_selected_range_inner(x, i)
  PROVE  /\ first.is \in {"ok", "fail", "panic"}
         /\ first.is = "ok" => /\ first.value \in AnySpans /\ first.next \in {i + 1, i + 3}
                               /\ first.next \in i + 1 .. Len(x) + 1
<1>0. Len(x) \in Nat /\ i \in Int /\ i + 1 \in Int /\ i + 2 \in Int
  OBVIOUS
<1>1. Kind(x, i) = "number" => i \in 1 .. Len(x) /\ x[i].n \in Int
  <2>1. i \in 1 .. Len(x) => x[i] \in Tokens
    BY ElementType
  <2>2. "number" # "end"
    OBVIOUS
  <2> QED BY <1>0, <2>1, <2>2, KindFacts DEF Tokens
<1>2. Kind(x, i + 2) \in {"number", "*"} => i + 2 \in 1 .. Len(x) /\ Look(x, i + 2).n \in Int
  <2>1. i + 2 \in 1 .. Len(x) => x[i + 2] \in Tokens
    BY ElementType
  <2>2. "end" \notin {"number", "*"}
    OBVIOUS
  <2>3. Kind(x, i + 2) \in {"number", "*"} => i + 2 \in 1 .. Len(x)
    BY <1>0, <2>2, KindFacts
  <2>4. i + 2 \in 1 .. Len(x) => Look(x, i + 2) = x[i + 2]
    BY <1>0, KindFacts
  <2> QED BY <2>1, <2>3, <2>4 DEF Tokens
<1>3. All \in Int
  BY NumberAssumption DEF All
<1>4. \A lo, hi \in Int : Span(lo, hi) \in AnySpans
  BY DEF Span, AnySpans
<1>5. Kind(x, i) # "number" => first.is = "fail"
  BY DEF parse_selected_range_inner, Fail
<1> DEFINE pair == Kind(x, i + 1) = ":" /\ Look(x, i + 2).t \in {"number", "*"}
<1>6. ASSUME Kind(x, i) = "number"
      PROVE  \/ first = Panic
             \/ pair /\ \E hi \in Int : first = Ok(Span(x[i].n, hi), i + 3)
             \/ ~pair /\ first = Ok(Span(x[i].n, x[i].n), i + 1)
  <2>1. pair => Look(x, i + 2).n \in Int
    BY <1>2 DEF Kind
  <2> QED BY <1>3, <1>6, <2>1 DEF parse_selected_range_inner
<1>7. pair => i + 3 \in i + 1 .. Len(x) + 1
  BY <1>0, <1>2 DEF Kind
<1>8. Kind(x, i) = "number" => i + 1 \in i + 1 .. Len(x) + 1
  BY <1>0, <1>1
<1> HIDE DEF pair
<1>9. CASE Kind(x, i) = "number" /\ first = Panic
  BY <1>9 DEF Panic
<1>10. CASE Kind(x, i) = "number" /\ pair /\ \E hi \in Int : first = Ok(Span(x[i].n, hi), i + 3)
  BY <1>1, <1>4, <1>7, <1>10 DEF Ok
<1>11. CASE Kind(x, i) = "number" /\ first = Ok(Span(x[i].n, x[i].n), i + 1)
  BY <1>1, <1>4, <1>8, <1>11 DEF Ok
<1> QED BY <1>5, <1>6, <1>9, <1>10, <1>11

\* What is parsed at a place depends only on later places.
LEMMA RangesAtFacts ==
  ASSUME NEW x \in Seq(Tokens), NEW i \in 1 .. Len(x) + 1, NEW g, \A k \in i + 1 .. Len(x) + 1 : g[k] \in Parses(Len(x))
  PROVE  /\ ranges_at(x, i, g) \in Parses(Len(x))
         /\ \A h : (\A k \in i + 1 .. Len(x) + 1 : g[k] = h[k]) => ranges_at(x, i, g) = ranges_at(x, i, h)
<1>1. PICK first : first = parse_selected_range_inner(x, i)
  OBVIOUS
<1>2. /\ first.is \in {"ok", "fail", "panic"}
      /\ first.is = "ok" => /\ first.value \in AnySpans /\ first.next \in {i + 1, i + 3}
                            /\ first.next \in i + 1 .. Len(x) + 1
  BY <1>1, InnerFacts
<1>3. PICK L \in Nat : L = Len(x)
  OBVIOUS
<1>4. PICK next : next = first.next
  OBVIOUS
<1>5. <<>> \in Seq(AnySpans) /\ i \in 1 .. L + 1 /\ i \in Int
  BY <1>3, EmptySeq
<1>6. Panic \in Parses(L) /\ Ok(<<>>, i) \in Parses(L)
  <2>1. Panic \in Parses(L)
    BY DEF Parses
  <2> QED BY <1>5, <2>1, OkType
<1>7. ASSUME first.is = "ok", Kind(x, next) = "comma" PROVE next + 1 \in i + 1 .. L + 1
  <2>1. next \in i + 1 .. L + 1 /\ next \in Int
    <3>1. next \in i + 1 .. L + 1
      BY <1>2, <1>3, <1>4, <1>7
    <3> QED BY <1>5, <3>1
  <2>2. next \in 1 .. L
    <3>1. "comma" # "end"
      OBVIOUS
    <3> QED BY <1>3, <1>7, <2>1, <3>1, KindFacts
  <2> QED BY <1>5, <2>1, <2>2
<1> DEFINE rest(g1) == IF Kind(x, next) = "comma" THEN g1[next + 1] ELSE Ok(<<>>, next)
<1>8. \A g1 : ranges_at(x, i, g1) =
        IF first.is = "fail" THEN Ok(<<>>, i)
        ELSE IF first.is = "panic" \/ rest(g1).is = "panic" THEN Panic
        ELSE Ok(<<first.value>> \o rest(g1).value, IF rest(g1).value = <<>> THEN next ELSE rest(g1).next)
  BY <1>1, <1>4 DEF ranges_at
<1>9. ASSUME first.is = "ok" PROVE rest(g) \in Parses(L)
  <2>1. next \in 1 .. L + 1
    BY <1>2, <1>3, <1>4, <1>5, <1>9
  <2>2. Ok(<<>>, next) \in Parses(L)
    BY <1>5, <2>1, OkType
  <2> QED BY <1>3, <1>7, <1>9, <2>2
<1>10. ASSUME NEW h, \A k \in i + 1 .. Len(x) + 1 : g[k] = h[k], first.is = "ok" PROVE rest(g) = rest(h)
  BY <1>3, <1>7, <1>10
<1> HIDE DEF rest
<1>11. ranges_at(x, i, g) \in Parses(L)
  <2>1. CASE first.is = "fail"
    BY <1>6, <1>8, <2>1
  <2>2. CASE first.is = "panic" \/ (first.is = "ok" /\ rest(g).is = "panic")
    <3>1. first.is # "fail"
      BY <2>2
    <3> QED BY <1>6, <1>8, <2>2, <3>1
  <2>3. CASE first.is = "ok" /\ rest(g).is # "panic"
    <3>1. rest(g).value \in Seq(AnySpans) /\ rest(g).next \in 1 .. L + 1 /\ next \in 1 .. L + 1
      BY <1>2, <1>3, <1>4, <1>5, <1>9, <2>3, ParsesFacts
    <3>2. PICK n \in 1 .. L + 1 : n = IF rest(g).value = <<>> THEN next ELSE rest(g).next
      BY <3>1
    <3>3. <<first.value>> \o rest(g).value \in Seq(AnySpans)
      <4>1. \A r \in AnySpans : \A s \in Seq(AnySpans) : <<r>> \o s \in Seq(AnySpans)
        OBVIOUS
      <4> QED BY <1>2, <2>3, <3>1, <4>1
    <3>4. Ok(<<first.value>> \o rest(g).value, n) \in Parses(L)
      BY <3>3, OkType
    <3>5. ranges_at(x, i, g) = Ok(<<first.value>> \o rest(g).value, n)
      BY <1>8, <2>3, <3>2
    <3> QED BY <3>4, <3>5
  <2> QED BY <1>2, <2>1, <2>2, <2>3
<1>12. ASSUME NEW h, \A k \in i + 1 .. Len(x) + 1 : g[k] = h[k] PROVE ranges_at(x, i, g) = ranges_at(x, i, h)
  <2>1. CASE first.is = "ok"
    <3>1. rest(g) = rest(h)
      BY <1>10, <1>12, <2>1
    <3> QED BY <1>8, <3>1
  <2>2. CASE first.is \in {"fail", "panic"}
    BY <1>8, <2>2
  <2> QED BY <1>2, <2>1, <2>2
<1> QED BY <1>3, <1>11, <1>12

\* What parse_selected_range computes.
LEMMA ParsedRanges ==
  ASSUME NEW x \in Seq(Tokens)
  PROVE  \E at \in [1 .. Len(x) + 1 -> Parses(Len(x))] :
           parse_selected_range(x) = at /\ \A i \in 1 .. Len(x) + 1 : at[i] = ranges_at(x, i, at)
<1>1. PICK N \in Nat \ {0} : N = Len(x) + 1
  OBVIOUS
<1>2. PICK D : D = 1 .. N
  OBVIOUS
<1>3. PICK W : W = Parses(Len(x))
  OBVIOUS
<1>4. PICK rank : rank = [i \in D |-> N - i]
  OBVIOUS
<1>5. PICK R : R = [i \in D |-> [g \in [D -> W] |-> ranges_at(x, i, g)]]
  OBVIOUS
<1>6. rank \in [D -> 0 .. N] /\ \A i \in D : \A k \in i + 1 .. N : k \in D /\ rank[k] < rank[i]
  BY <1>1, <1>2, <1>4
<1>7. ASSUME NEW i \in D, NEW g \in [D -> W]
      PROVE  /\ ranges_at(x, i, g) \in W
             /\ \A h : (\A k \in i + 1 .. N : g[k] = h[k]) => ranges_at(x, i, g) = ranges_at(x, i, h)
  <2>1. \A k \in i + 1 .. N : g[k] \in W
    BY <1>6
  <2> QED BY <1>1, <1>2, <1>3, <2>1, RangesAtFacts
<1>8. R \in [D -> [[D -> W] -> W]] /\ \A i \in D, g \in [D -> W] : R[i][g] = ranges_at(x, i, g)
  BY <1>5, <1>7
<1>9. ASSUME NEW i \in D, NEW g \in [D -> W], NEW h \in [D -> W], \A k \in D : rank[k] < rank[i] => g[k] = h[k]
      PROVE  R[i][g] = R[i][h]
  <2>1. \A k \in i + 1 .. N : g[k] = h[k]
    BY <1>6, <1>9
  <2> QED BY <1>7, <1>8, <2>1
<1>10. W # {}
  BY <1>3 DEF Parses
<1>11. RecursiveIn(N, D, rank, W, R)
  BY <1>1, <1>6, <1>8, <1>9, <1>10 DEF RecursiveIn
<1>12. PICK f \in [D -> W] : \A i \in D : f[i] = R[i][f]
  BY <1>11, RecursionIn
<1>13. f = [i \in D |-> ranges_at(x, i, f)]
  BY <1>8, <1>12
<1>14. PICK at : at = CHOOSE t : t = [i \in D |-> ranges_at(x, i, t)]
  OBVIOUS
<1>15. at = [i \in D |-> ranges_at(x, i, at)]
  BY <1>13, <1>14
<1>16. parse_selected_range(x) = at
  BY <1>1, <1>2, <1>14 DEF parse_selected_range
<1>17. ASSUME NEW i \in 1 .. N, \A k \in i + 1 .. N : at[k] \in W PROVE at[i] \in W
  <2>1. \A k \in i + 1 .. Len(x) + 1 : at[k] \in Parses(Len(x))
    BY <1>1, <1>3, <1>17
  <2>2. ranges_at(x, i, at) \in W
    BY <1>1, <1>3, <2>1, RangesAtFacts
  <2> QED BY <1>2, <1>15, <2>2
<1>18. \A i \in 1 .. N : at[i] \in W
  <2> DEFINE P == {i \in 1 .. N : at[i] \in W}
  <2>1. \A i \in 1 .. N : (\A k \in i + 1 .. N : k \in P) => i \in P
    BY <1>17
  <2> HIDE DEF P
  <2>2. \A i \in 1 .. N : i \in P
    BY <2>1, Places
  <2> QED BY <2>2 DEF P
<1>19. at \in [1 .. Len(x) + 1 -> Parses(Len(x))] /\ \A i \in 1 .. Len(x) + 1 : at[i] = ranges_at(x, i, at)
  BY <1>1, <1>2, <1>3, <1>15, <1>18
<1> QED BY <1>16, <1>19

\* What the numbers at the places from i up to k say.
ReadFrom(x, i, k, n) == \E p \in i .. k : x[p].t = "number" /\ n \in ReadAt(x, p)

\* A number within u32.
LEMMA Within ==
  ASSUME NEW a, a \in 0 .. MaxNumber PROVE a \in Int /\ a \in Nat /\ ~(a > MaxNumber) /\ a <= MaxNumber
BY NumberAssumption
\* The places of a text of length L.
LEMMA InPlaces == ASSUME NEW L \in Nat, NEW p \in 1 .. L PROVE p \in Int /\ p \in Nat /\ L \in Int /\ p <= L /\ 1 <= p
  OBVIOUS
\* The ends of an interval.
LEMMA Upper == ASSUME NEW a \in Int, NEW b \in Int, a <= b PROVE b \in a .. b /\ a \in a .. b
  OBVIOUS
\* An interval is its lower end and the rest.
LEMMA FromNext == ASSUME NEW a \in Int, NEW b \in Int, a <= b PROVE \A p : p \in a .. b <=> p = a \/ p \in a + 1 .. b
  OBVIOUS

\* A range of a set, and the place after it.
LEMMA OneOfSet ==
  ASSUME NEW x, SetLike(x), NEW i \in 1 .. Len(x), x[i].t = "number"
  PROVE  \E r \in AnySpans, next \in i + 1 .. Len(x) + 1 :
           /\ parse_selected_range_inner(x, i) = Ok(r, next) /\ Kind(x, next) \in {"comma", "end"}
           /\ \A n \in Int : contains(r, n) <=> ReadFrom(x, i, next - 1, n)
<1>1. x \in Seq(Tokens) /\ FitsAt(x, i) /\ Len(x) \in Nat /\ i \in Nat
  BY DEF SetLike
<1>2. Kind(x, i) = "number" /\ x[i].n \in 0 .. MaxNumber /\ MaxNumber \in Nat
  <2>1. Kind(x, i) = "number"
    BY <1>1, KindFacts
  <2>2. x[i].n \in 0 .. MaxNumber
    BY <1>1 DEF FitsAt
  <2> QED BY <2>1, <2>2, NumberAssumption
<1>3. CASE Kind(x, i + 1) = ":"
  <2>1. i + 1 \in 1 .. Len(x) /\ x[i + 1].t = ":"
    <3>1. i + 1 \in Int /\ ":" # "end"
      BY <1>1
    <3> QED BY <1>1, <1>3, <3>1, KindFacts
  <2>2. FitsAt(x, i + 1)
    BY <2>1 DEF SetLike
  <2>3. (i + 1) + 1 = i + 2 /\ (i + 1) + 2 = i + 3 /\ i + 2 \in Int /\ i + 3 \in Int
    BY <1>1
  <2>4. Kind(x, i + 2) = "number" /\ Kind(x, i + 3) # ":"
    BY <2>1, <2>2, <2>3 DEF FitsAt
  <2>5. i + 2 \in 1 .. Len(x) /\ Look(x, i + 2) = x[i + 2] /\ x[i + 2].t = "number"
    <3>1. "number" # "end"
      OBVIOUS
    <3> QED BY <1>1, <2>3, <2>4, <3>1, KindFacts
  <2>6. FitsAt(x, i + 2)
    BY <2>5 DEF SetLike
  <2>7. (i + 2) + 1 = i + 3
    BY <1>1
  <2>8. x[i + 2].n \in 0 .. MaxNumber /\ Kind(x, i + 3) \in {"comma", "end"}
    BY <2>4, <2>5, <2>6, <2>7 DEF FitsAt
  <2>9. x[i].n <= x[i + 2].n
    BY <1>1, <1>3, <2>5 DEF FitsAt
  <2>10. PICK r : r = Span(x[i].n, x[i + 2].n)
    OBVIOUS
  <2>11. r \in AnySpans /\ r.lo = x[i].n /\ r.hi = x[i + 2].n
    <3>1. x[i].n \in Int /\ x[i + 2].n \in Int
      BY <1>2, <2>8, Within
    <3> QED BY <2>10, <3>1 DEF Span, AnySpans
  <2>12. parse_selected_range_inner(x, i) = Ok(r, i + 3)
    <3>1. ~(x[i].n > MaxNumber) /\ ~(x[i + 2].n > MaxNumber)
      BY <1>2, <2>8, Within
    <3>2. Look(x, i + 2).t = "number" /\ Look(x, i + 2).n = x[i + 2].n /\ Look(x, i + 2).t # "*"
      BY <2>5
    <3> QED BY <1>2, <1>3, <2>10, <3>1, <3>2 DEF parse_selected_range_inner
  <2>13. i + 3 \in i + 1 .. Len(x) + 1
    BY <1>1, <2>5
  <2>14. \A n \in Int : contains(r, n) <=> ReadFrom(x, i, (i + 3) - 1, n)
    <3>1. ReadAt(x, i) = x[i].n .. x[i + 2].n
      BY <1>3, <2>5 DEF ReadAt
    <3>2. ReadAt(x, i + 2) = {x[i + 2].n}
      BY <2>4, <2>7 DEF ReadAt
    <3>3. \A p : p \in i .. (i + 3) - 1 <=> p = i \/ p = i + 1 \/ p = i + 2
      BY <1>1
    <3>4. \A n : ReadFrom(x, i, (i + 3) - 1, n) <=> n \in ReadAt(x, i) \/ n \in ReadAt(x, i + 2)
      BY <2>1, <2>5, <3>3 DEF ReadFrom
    <3>5. \A n \in Int : contains(r, n) <=> n \in x[i].n .. x[i + 2].n
      <4>1. x[i].n \in Int /\ x[i + 2].n \in Int
        BY <1>2, <2>8, Within
      <4> QED BY <2>11, <4>1 DEF contains
    <3>6. x[i + 2].n \in x[i].n .. x[i + 2].n
      BY <1>2, <2>8, <2>9, Within, Upper
    <3> QED BY <3>1, <3>2, <3>4, <3>5, <3>6
  <2> QED BY <2>8, <2>11, <2>12, <2>13, <2>14
<1>4. CASE Kind(x, i + 1) # ":"
  <2>1. Kind(x, i + 1) \in {"comma", "end"}
    BY <1>1, <1>4 DEF FitsAt
  <2>2. PICK r : r = Span(x[i].n, x[i].n)
    OBVIOUS
  <2>3. r \in AnySpans /\ r.lo = x[i].n /\ r.hi = x[i].n /\ x[i].n \in Int
    <3>1. x[i].n \in Int
      BY <1>2
    <3> QED BY <2>2, <3>1 DEF Span, AnySpans
  <2>4. parse_selected_range_inner(x, i) = Ok(r, i + 1)
    <3>1. ~(x[i].n > MaxNumber)
      BY <1>2
    <3> QED BY <1>2, <1>4, <2>2, <3>1 DEF parse_selected_range_inner
  <2>5. i + 1 \in i + 1 .. Len(x) + 1
    BY <1>1
  <2>6. \A n \in Int : contains(r, n) <=> ReadFrom(x, i, (i + 1) - 1, n)
    <3>1. ReadAt(x, i) = {x[i].n}
      BY <1>4 DEF ReadAt
    <3>2. \A p : p \in i .. (i + 1) - 1 <=> p = i
      BY <1>1
    <3>3. \A n : ReadFrom(x, i, (i + 1) - 1, n) <=> n = x[i].n
      BY <3>1, <3>2 DEF ReadFrom
    <3>4. \A n \in Int : contains(r, n) <=> n = x[i].n
      BY <2>3 DEF contains
    <3> QED BY <3>3, <3>4
  <2> QED BY <2>1, <2>3, <2>4, <2>5, <2>6
<1> QED BY <1>3, <1>4

\* A number is in the first range or in the others.
LEMMA ConsHits ==
  ASSUME NEW r \in AnySpans, NEW ranges \in Seq(AnySpans), NEW n
  PROVE  Hits(<<r>> \o ranges, n) <=> contains(r, n) \/ Hits(ranges, n)
<1>1. PICK s : s = <<r>> \o ranges
  OBVIOUS
<1>2. PICK L \in Nat : L = Len(ranges)
  OBVIOUS
<1>3. s \in Seq(AnySpans) /\ Len(s) = L + 1 /\ s[1] = r /\ \A j \in 1 .. L : s[j + 1] = ranges[j]
  BY <1>1, <1>2
<1>4. DOMAIN s = 1 .. L + 1 /\ DOMAIN ranges = 1 .. L
  BY <1>2, <1>3, SeqDomain
<1>5. ASSUME Hits(s, n) PROVE contains(r, n) \/ Hits(ranges, n)
  <2>1. PICK j \in 1 .. L + 1 : contains(s[j], n)
    BY <1>4, <1>5 DEF Hits
  <2>2. CASE j # 1
    <3>1. j - 1 \in 1 .. L /\ (j - 1) + 1 = j
      BY <1>2, <2>2
    <3>2. s[j] = ranges[j - 1]
      BY <1>3, <3>1
    <3> QED BY <1>4, <2>1, <3>1, <3>2 DEF Hits
  <2> QED BY <1>3, <2>1, <2>2
<1>6. ASSUME contains(r, n) PROVE Hits(s, n)
  <2>1. 1 \in 1 .. L + 1
    BY <1>2
  <2> QED BY <1>3, <1>4, <1>6, <2>1 DEF Hits
<1>7. ASSUME Hits(ranges, n) PROVE Hits(s, n)
  <2>1. PICK j \in 1 .. L : contains(ranges[j], n)
    BY <1>4, <1>7 DEF Hits
  <2>2. j + 1 \in 1 .. L + 1
    BY <1>2
  <2> QED BY <1>3, <1>4, <2>1, <2>2 DEF Hits
<1> QED BY <1>1, <1>5, <1>6, <1>7

\* The parser of FETCH, COPY and MOVE reads what the set says.
LEMMA ParsedSet ==
  ASSUME NEW x, SetLike(x)
  PROVE  \A n \in Int : Hits(parse_selected_range(x)[1].value, n) <=> n \in Reads(x)
<1>1. x \in Seq(Tokens) /\ Len(x) \in Nat \ {0} /\ x[1].t = "number"
  BY DEF SetLike
<1>2. PICK at : /\ at \in [1 .. Len(x) + 1 -> Parses(Len(x))] /\ parse_selected_range(x) = at
                /\ \A i \in 1 .. Len(x) + 1 : at[i] = ranges_at(x, i, at)
  BY <1>1, ParsedRanges
<1>3. PICK L \in Nat \ {0} : L = Len(x)
  BY <1>1
<1> DEFINE Good(i) == x[i].t = "number" =>
      at[i].is = "ok" /\ \A n \in Int : Hits(at[i].value, n) <=> ReadFrom(x, i, L, n)
<1>4. ASSUME NEW i \in 1 .. L, \A k \in i + 1 .. L : Good(k), x[i].t = "number"
      PROVE  at[i].is = "ok" /\ \A n \in Int : Hits(at[i].value, n) <=> ReadFrom(x, i, L, n)
  <2>0. i \in Nat /\ i \in 1 .. Len(x) /\ i \in 1 .. Len(x) + 1
    BY <1>3
  <2>1. PICK r \in AnySpans, next \in i + 1 .. L + 1 :
           /\ parse_selected_range_inner(x, i) = Ok(r, next) /\ Kind(x, next) \in {"comma", "end"}
           /\ \A n \in Int : contains(r, n) <=> ReadFrom(x, i, next - 1, n)
    BY <1>3, <1>4, <2>0, OneOfSet
  <2>2. PICK rest : rest = IF Kind(x, next) = "comma" THEN at[next + 1] ELSE Ok(<<>>, next)
    OBVIOUS
  <2>3. Ok(r, next).is = "ok" /\ Ok(r, next).value = r /\ Ok(r, next).next = next /\ next \in Nat
    <3>1. next \in Nat
      BY <2>0
    <3> QED BY <3>1 DEF Ok
  <2>4. ranges_at(x, i, at) =
          IF rest.is = "panic" THEN Panic
          ELSE Ok(<<r>> \o rest.value, IF rest.value = <<>> THEN next ELSE rest.next)
    <3>1. Ok(r, next).is # "fail" /\ Ok(r, next).is # "panic"
      BY <2>3
    <3> QED BY <2>1, <2>2, <2>3, <3>1 DEF ranges_at
  <2>5. /\ rest.is = "ok" /\ rest.value \in Seq(AnySpans)
        /\ \A n \in Int : Hits(rest.value, n) <=> ReadFrom(x, next, L, n)
    <3>1. CASE Kind(x, next) = "comma"
      <4>1. next \in 1 .. L /\ x[next].t = "comma"
        <5>1. "comma" # "end" /\ next \in Int
          BY <2>3
        <5> QED BY <1>1, <1>3, <3>1, <5>1, KindFacts
      <4>2. FitsAt(x, next)
        BY <1>3, <4>1 DEF SetLike
      <4>3. Kind(x, next + 1) = "number"
        BY <4>1, <4>2 DEF FitsAt
      <4>4. next + 1 \in 1 .. L /\ x[next + 1].t = "number"
        <5>1. "number" # "end" /\ next + 1 \in Int
          BY <2>3
        <5> QED BY <1>1, <1>3, <4>3, <5>1, KindFacts
      <4>5. next + 1 \in i + 1 .. L
        BY <2>0, <4>4
      <4>6. at[next + 1].is = "ok" /\ \A n \in Int : Hits(at[next + 1].value, n) <=> ReadFrom(x, next + 1, L, n)
        BY <1>4, <4>4, <4>5
      <4>7. at[next + 1] \in Parses(L)
        <5>1. next + 1 \in 1 .. Len(x) + 1
          BY <1>3, <4>4
        <5> QED BY <1>2, <1>3, <5>1
      <4>8. at[next + 1].value \in Seq(AnySpans)
        BY <4>6, <4>7, ParsesFacts
      <4>9. \A p : p \in next .. L <=> p = next \/ p \in next + 1 .. L
        <5>1. next \in Int /\ L \in Int /\ next <= L
          BY <1>3, <4>1, InPlaces
        <5> QED BY <5>1, FromNext
      <4>10. \A n : ReadFrom(x, next, L, n) <=> ReadFrom(x, next + 1, L, n)
        BY <4>1, <4>9 DEF ReadFrom
      <4> QED BY <2>2, <3>1, <4>6, <4>8, <4>10
    <3>2. CASE Kind(x, next) = "end"
      <4>1. next \notin 1 .. L
        BY <1>1, <1>3, <2>3, <3>2, KindFacts
      <4>2. next .. L = {}
        BY <2>3, <4>1
      <4>3. rest = Ok(<<>>, next)
        BY <2>2, <3>2
      <4>4. rest.is = "ok" /\ rest.value = <<>>
        BY <4>3 DEF Ok
      <4>5. PICK none : none = rest.value
        OBVIOUS
      <4>6. none \in Seq(AnySpans) /\ Len(none) = 0
        BY <4>4, <4>5, EmptySeq
      <4>7. DOMAIN none = {}
        BY <4>6, SeqDomain
      <4> QED BY <4>2, <4>4, <4>5, <4>6, <4>7 DEF Hits, ReadFrom
    <3> QED BY <2>1, <3>1, <3>2
  <2>6. at[i].is = "ok" /\ at[i].value = <<r>> \o rest.value
    BY <1>2, <2>0, <2>4, <2>5 DEF Ok
  <2>7. \A n : Hits(at[i].value, n) <=> contains(r, n) \/ Hits(rest.value, n)
    BY <2>5, <2>6, ConsHits
  <2>8. \A p : p \in i .. L <=> p \in i .. next - 1 \/ p \in next .. L
    BY <1>3, <2>0
  <2>9. \A n : ReadFrom(x, i, L, n) <=> ReadFrom(x, i, next - 1, n) \/ ReadFrom(x, next, L, n)
    BY <2>8 DEF ReadFrom
  <2> QED BY <2>1, <2>5, <2>6, <2>7, <2>9
<1>5. \A i \in 1 .. L : Good(i)
  <2> DEFINE P == {i \in 1 .. L : Good(i)}
  <2>1. \A i \in 1 .. L : (\A k \in i + 1 .. L : k \in P) => i \in P
    BY <1>4
  <2> HIDE DEF P
  <2>2. \A i \in 1 .. L : i \in P
    BY <2>1, Places
  <2> QED BY <2>2 DEF P
<1>6. \A n \in Int : Hits(at[1].value, n) <=> ReadFrom(x, 1, L, n)
  <2>1. 1 \in 1 .. L
    BY <1>3
  <2> QED BY <1>1, <1>5, <2>1
<1>7. \A n : ReadFrom(x, 1, L, n) <=> n \in Reads(x)
  BY <1>1, <1>3, ReadsFacts DEF ReadFrom
<1> QED BY <1>2, <1>6, <1>7

-----------------------------------------------------------------------------
(* What the second command selects *)

\* FETCH, COPY and MOVE act on the messages whose number is in the set.
LEMMA SelectedSet ==
  ASSUME NEW text, SetLike(text), NEW list, NEW is_uid,
         \A i \in DOMAIN list : list[i].uid \in Int /\ i \in Int
  PROVE  Selected(list, text, is_uid) =
           UidsOf(list, {i \in DOMAIN list : (IF is_uid THEN list[i].uid ELSE i) \in Reads(text)})
<1>1. PICK value : value = parse_selected_range(text)[1].value
  OBVIOUS
<1>2. \A i \in DOMAIN list : selects(list, i, value, is_uid) <=> (IF is_uid THEN list[i].uid ELSE i) \in Reads(text)
  <2> SUFFICES ASSUME NEW i \in DOMAIN list
               PROVE selects(list, i, value, is_uid) <=> (IF is_uid THEN list[i].uid ELSE i) \in Reads(text)
    OBVIOUS
  <2>1. PICK n \in Int : n = IF is_uid THEN list[i].uid ELSE i
    OBVIOUS
  <2>2. Hits(value, n) <=> n \in Reads(text)
    BY <1>1, ParsedSet
  <2>3. selects(list, i, value, is_uid) <=> Hits(value, n)
    BY <2>1 DEF selects, Hits
  <2> QED BY <2>1, <2>2, <2>3
<1>3. {i \in DOMAIN list : selects(list, i, value, is_uid)}
        = {i \in DOMAIN list : (IF is_uid THEN list[i].uid ELSE i) \in Reads(text)}
  BY <1>2
<1> QED BY <1>1, <1>3 DEF Selected

\* The least element of one.
LEMMA MinOfOne == ASSUME NEW a \in Int PROVE Min({a}) = a
<1>1. \E x \in {a} : \A y \in {a} : x <= y
  OBVIOUS
<1> QED BY <1>1 DEF Min

\* A number as STORE reads it.
LEMMA ParsedNumber ==
  ASSUME NEW x \in Seq(Tokens), NEW i \in 1 .. Len(x), x[i].t = "number", x[i].n \in 0 .. MaxNumber, NEW default
  PROVE  Parsed(SubSeq(x, i, i), default) = x[i].n
<1>1. i \in Int /\ \A k \in i .. i : x[k] \in Tokens
  <2>1. \A k \in i .. i : k = i
    OBVIOUS
  <2>2. x[i] \in Tokens
    BY ElementType
  <2> QED BY <2>1, <2>2
<1>2. PICK p : p = SubSeq(x, i, i)
  OBVIOUS
<1>3. Len(p) = (IF i <= i THEN i - i + 1 ELSE 0) /\ \A k \in 1 .. i - i + 1 : p[k] = x[i + k - 1]
  BY <1>1, <1>2, SubSeqProperties
<1>4. Len(p) = 1 /\ 1 \in 1 .. i - i + 1 /\ i + 1 - 1 = i
  BY <1>1, <1>3
<1>5. p[1] = x[i]
  BY <1>3, <1>4
<1>6. x[i].n <= MaxNumber
  BY Within
<1> QED BY <1>2, <1>4, <1>5, <1>6 DEF Parsed

\* A set without a comma is one number or one pair.
LEMMA OneOrThree ==
  ASSUME NEW x, SetLike(x), ~HasComma(x)
  PROVE  /\ x[1].t = "number" /\ x[1].n \in 0 .. MaxNumber
         /\ \/ Len(x) = 1
            \/ Len(x) = 3 /\ x[2].t = ":" /\ x[3].t = "number" /\ x[3].n \in 0 .. MaxNumber /\ x[1].n <= x[3].n
<1>1. x \in Seq(Tokens) /\ Len(x) \in Nat \ {0} /\ x[1].t = "number"
  BY DEF SetLike
<1>2. \A i \in 1 .. Len(x) : FitsAt(x, i) /\ x[i].t # "comma" /\ i \in DOMAIN x
  BY <1>1, SeqDomain DEF SetLike, HasComma, Occurs
<1>3. \A i \in Nat : Kind(x, i) # "comma"
  <2> SUFFICES ASSUME NEW i \in Nat PROVE Kind(x, i) # "comma"
    OBVIOUS
  <2>1. "end" # "comma" /\ i \in Int
    OBVIOUS
  <2>2. CASE i \in 1 .. Len(x)
    <3>1. Kind(x, i) = x[i].t
      BY <1>1, <2>1, <2>2, KindFacts
    <3> QED BY <1>2, <2>2, <3>1
  <2>3. CASE i \notin 1 .. Len(x)
    <3>1. Kind(x, i) = "end"
      BY <1>1, <2>1, <2>3, KindFacts
    <3> QED BY <2>1, <3>1
  <2> QED BY <2>2, <2>3
<1>4. 1 \in 1 .. Len(x) /\ 1 + 1 = 2 /\ 1 + 2 = 3 /\ 2 + 1 = 3 /\ 2 + 2 = 4 /\ 3 + 1 = 4
  BY <1>1
<1>5. x[1].n \in 0 .. MaxNumber /\ Kind(x, 2) \in {":", "end"} /\ (Kind(x, 2) = ":" => x[1].n <= Look(x, 3).n)
  <2>1. FitsAt(x, 1) /\ Kind(x, 2) # "comma"
    BY <1>2, <1>3, <1>4
  <2> QED BY <1>1, <1>4, <2>1 DEF FitsAt
<1>6. CASE Kind(x, 2) = "end"
  <2>1. 2 \notin 1 .. Len(x)
    BY <1>1, <1>6, KindFacts
  <2>2. Len(x) = 1
    <3>1. PICK L \in Nat \ {0} : L = Len(x)
      BY <1>1
    <3>2. 2 \notin 1 .. L
      BY <2>1, <3>1
    <3>3. L = 1
      BY <3>2
    <3> QED BY <3>1, <3>3
  <2> QED BY <1>1, <1>5, <2>2
<1>7. CASE Kind(x, 2) = ":"
  <2>1. 2 \in 1 .. Len(x) /\ x[2].t = ":"
    BY <1>1, <1>7, KindFacts
  <2>2. FitsAt(x, 2)
    BY <1>2, <2>1
  <2>3. Kind(x, 3) = "number" /\ Kind(x, 4) # ":"
    BY <1>4, <2>1, <2>2 DEF FitsAt
  <2>4. 3 \in 1 .. Len(x) /\ x[3].t = "number" /\ Look(x, 3) = x[3]
    BY <1>1, <2>3, KindFacts
  <2>5. FitsAt(x, 3)
    BY <1>2, <2>4
  <2>6. x[3].n \in 0 .. MaxNumber /\ Kind(x, 4) = "end"
    <3>1. Kind(x, 4) # "comma"
      BY <1>3
    <3> QED BY <1>4, <2>3, <2>4, <2>5, <3>1 DEF FitsAt
  <2>7. 4 \notin 1 .. Len(x)
    BY <1>1, <2>6, KindFacts
  <2>8. Len(x) = 3
    <3>1. PICK L \in Nat \ {0} : L = Len(x)
      BY <1>1
    <3>2. 4 \notin 1 .. L /\ 3 \in 1 .. L
      BY <2>4, <2>7, <3>1
    <3>3. L = 3
      BY <3>2
    <3> QED BY <3>1, <3>3
  <2> QED BY <1>1, <1>5, <1>7, <2>1, <2>4, <2>6, <2>8
<1> QED BY <1>5, <1>6, <1>7

\* STORE acts on the messages whose UID is in a set without a comma.
LEMMA StoredSet ==
  ASSUME NEW x, SetLike(x), ~HasComma(x), NEW list, \A i \in DOMAIN list : list[i].uid \in Int
  PROVE  StoreSelected(list, x) = UidsOf(list, {i \in DOMAIN list : list[i].uid \in Reads(x)})
<1>1. /\ x \in Seq(Tokens) /\ Len(x) \in Nat \ {0} /\ x[1].t = "number" /\ x[1].n \in 0 .. MaxNumber
      /\ \/ Len(x) = 1
         \/ Len(x) = 3 /\ x[2].t = ":" /\ x[3].t = "number" /\ x[3].n \in 0 .. MaxNumber /\ x[1].n <= x[3].n
  BY OneOrThree DEF SetLike
<1>2. DOMAIN x = 1 .. Len(x)
  BY <1>1, SeqDomain
<1>3. PICK colons : colons = {i \in DOMAIN x : x[i].t = ":"}
  OBVIOUS
<1>4. PICK first : first = Min(colons)
  OBVIOUS
<1>5. PICK next : next = Min((colons \ {first}) \cup {Len(x) + 1})
  OBVIOUS
<1>6. PICK wanted : wanted = IF colons = {} THEN Span(Parsed(x, 1), Parsed(x, 1))
                             ELSE Span(Parsed(SubSeq(x, 1, first - 1), 1),
                                       Parsed(SubSeq(x, first + 1, next - 1), MaxNumber))
  OBVIOUS
<1>7. StoreSelected(list, x) = UidsOf(list, {i \in DOMAIN list : contains(wanted, list[i].uid)})
  BY <1>3, <1>4, <1>5, <1>6 DEF StoreSelected
<1>8. \A n \in Int : contains(wanted, n) <=> n \in Reads(x)
  <2>1. CASE Len(x) = 1
    <3>1. \A i \in 1 .. Len(x) : i = 1
      BY <2>1
    <3>2. colons = {}
      BY <1>1, <1>2, <1>3, <3>1
    <3>3. Parsed(x, 1) = x[1].n /\ x[1].n \in Int
      <4>1. x[1].n <= MaxNumber /\ x[1].n \in Int
        BY <1>1, Within
      <4> QED BY <1>1, <2>1, <4>1 DEF Parsed
    <3>4. \A n \in Int : contains(wanted, n) <=> n = x[1].n
      BY <1>6, <3>2, <3>3 DEF contains, Span
    <3>5. Kind(x, 1 + 1) = "end"
      <4>1. 1 + 1 \notin 1 .. Len(x) /\ 1 + 1 \in Int
        BY <2>1
      <4> QED BY <1>1, <4>1, KindFacts
    <3>6. ReadAt(x, 1) = {x[1].n}
      BY <3>5 DEF ReadAt
    <3>7. \A n : n \in Reads(x) <=> n = x[1].n
      <4> SUFFICES ASSUME NEW n PROVE n \in Reads(x) <=> n = x[1].n
        OBVIOUS
      <4>1. n \in Reads(x) <=> \E i \in 1 .. Len(x) : x[i].t = "number" /\ n \in ReadAt(x, i)
        BY <1>1, ReadsFacts
      <4>2. 1 \in 1 .. Len(x)
        BY <2>1
      <4> QED BY <1>1, <3>1, <3>6, <4>1, <4>2
    <3> QED BY <3>4, <3>7
  <2>2. CASE Len(x) # 1
    <3>1. /\ Len(x) = 3 /\ x[2].t = ":" /\ x[3].t = "number" /\ x[3].n \in 0 .. MaxNumber /\ x[1].n <= x[3].n
      BY <1>1, <2>2
    <3>2. \A i : i \in 1 .. Len(x) <=> i = 1 \/ i = 2 \/ i = 3
      BY <3>1
    <3>3. colons = {2}
      BY <1>1, <1>2, <1>3, <3>1, <3>2
    <3>4. first = 2
      BY <1>4, <3>3, MinOfOne
    <3>5. next = 4
      <4>1. (colons \ {first}) \cup {Len(x) + 1} = {4}
        BY <3>1, <3>3, <3>4
      <4> QED BY <1>5, <4>1, MinOfOne
    <3>6. first - 1 = 1 /\ first + 1 = 3 /\ next - 1 = 3 /\ colons # {}
      BY <3>3, <3>4, <3>5
    <3>7. Parsed(SubSeq(x, 1, 1), 1) = x[1].n /\ Parsed(SubSeq(x, 3, 3), MaxNumber) = x[3].n
      BY <1>1, <3>1, <3>2, ParsedNumber
    <3>8. wanted = Span(x[1].n, x[3].n)
      BY <1>6, <3>6, <3>7
    <3>9. x[1].n \in Int /\ x[3].n \in Int
      BY <1>1, <3>1, Within
    <3>10. \A n \in Int : contains(wanted, n) <=> n \in x[1].n .. x[3].n
      BY <3>8, <3>9 DEF contains, Span
    <3>11. Kind(x, 1 + 1) = ":" /\ Kind(x, 3 + 1) = "end" /\ Look(x, 1 + 2) = x[3]
      <4>1. 2 \in 1 .. Len(x) /\ 3 \in 1 .. Len(x) /\ 4 \notin 1 .. Len(x) /\ 2 \in Int /\ 3 \in Int /\ 4 \in Int
        BY <3>1
      <4>2. Kind(x, 2) = ":" /\ Kind(x, 4) = "end" /\ Look(x, 3) = x[3]
        BY <1>1, <3>1, <4>1, KindFacts
      <4> QED BY <4>2
    <3>12. ReadAt(x, 1) = x[1].n .. x[3].n /\ ReadAt(x, 3) = {x[3].n}
      BY <3>11 DEF ReadAt
    <3>13. \A n : n \in Reads(x) <=> n \in x[1].n .. x[3].n
      <4> SUFFICES ASSUME NEW n PROVE n \in Reads(x) <=> n \in x[1].n .. x[3].n
        OBVIOUS
      <4>1. n \in Reads(x) <=> \E i \in 1 .. Len(x) : x[i].t = "number" /\ n \in ReadAt(x, i)
        BY <1>1, ReadsFacts
      <4>2. x[3].n \in x[1].n .. x[3].n
        BY <3>1, <3>9, Upper
      <4>3. x[2].t # "number"
        BY <3>1
      <4> QED BY <1>1, <3>1, <3>2, <3>12, <4>1, <4>2, <4>3
    <3> QED BY <3>10, <3>13
  <2> QED BY <2>1, <2>2
<1>9. {i \in DOMAIN list : contains(wanted, list[i].uid)} = {i \in DOMAIN list : list[i].uid \in Reads(x)}
  BY <1>8
<1> QED BY <1>7, <1>9

-----------------------------------------------------------------------------
(* Parsing keys *)

\* A text whose numbers are within u32.
Small(x) == x \in Seq(Tokens) /\ \A i \in 1 .. Len(x) : x[i].t = "number" => x[i].n \in 0 .. MaxNumber

\* The keys that can be parsed at place i, with the keys inside at later places.
AnyTokens == Tokens \cup {Word("Range"), Word("AND")}
NodeAt(x, i) ==
  {p \in [k : Kinds, token : AnyTokens, range : AnySpans, parts : Seq(i + 1 .. Len(x) + 1)] :
     /\ p.k \in Leaves => i \in 1 .. Len(x) /\ p.token = x[i] /\ x[i].t = p.k
     /\ p.k = "NOT" => Len(p.parts) = 1
     /\ p.k = "OR" => Len(p.parts) = 2
     /\ p.k = "AND" => p.parts # <<>>}
KeyAt(x, i) == {Fail} \cup [is : {"ok"}, value : NodeAt(x, i), next : i + 1 .. Len(x) + 1]
ListAt(x, i) == {Fail} \cup [is : {"ok"}, value : Seq(i .. Len(x) + 1) \ {<<>>}, next : i + 1 .. Len(x) + 1]
TreeAt(x, i) == [key : KeyAt(x, i), list : ListAt(x, i)]

\* What parsing a key and a list of keys gives, and what it takes.
LEMMA KeyAtFacts ==
  ASSUME NEW x \in Seq(Tokens), NEW i \in 1 .. Len(x) + 1
  PROVE  /\ Fail \in KeyAt(x, i) /\ Fail \in ListAt(x, i) /\ Fail.is = "fail"
         /\ \A p \in NodeAt(x, i), next \in i + 1 .. Len(x) + 1 : Ok(p, next) \in KeyAt(x, i)
         /\ \A s \in Seq(i .. Len(x) + 1) \ {<<>>}, next \in i + 1 .. Len(x) + 1 : Ok(s, next) \in ListAt(x, i)
         /\ \A r \in KeyAt(x, i) : /\ r.is \in {"ok", "fail"} /\ (r.is = "fail" => r = Fail)
                                   /\ r.is = "ok" => r.value \in NodeAt(x, i) /\ r.next \in i + 1 .. Len(x) + 1
         /\ \A r \in ListAt(x, i) : /\ r.is \in {"ok", "fail"} /\ (r.is = "fail" => r = Fail)
                                    /\ r.is = "ok" => /\ r.value \in Seq(i .. Len(x) + 1) \ {<<>>}
                                                      /\ r.next \in i + 1 .. Len(x) + 1
<1> USE DEF KeyAt, ListAt, Fail, Ok
<1>1. Fail \in KeyAt(x, i) /\ Fail \in ListAt(x, i) /\ Fail.is = "fail"
  OBVIOUS
<1>2. \A p \in NodeAt(x, i), next \in i + 1 .. Len(x) + 1 : Ok(p, next) \in KeyAt(x, i)
  OBVIOUS
<1>3. \A s \in Seq(i .. Len(x) + 1) \ {<<>>}, next \in i + 1 .. Len(x) + 1 : Ok(s, next) \in ListAt(x, i)
  OBVIOUS
<1>4. \A r \in KeyAt(x, i) : /\ r.is \in {"ok", "fail"} /\ (r.is = "fail" => r = Fail)
                             /\ r.is = "ok" => r.value \in NodeAt(x, i) /\ r.next \in i + 1 .. Len(x) + 1
  OBVIOUS
<1>5. \A r \in ListAt(x, i) : /\ r.is \in {"ok", "fail"} /\ (r.is = "fail" => r = Fail)
                              /\ r.is = "ok" => /\ r.value \in Seq(i .. Len(x) + 1) \ {<<>>}
                                                /\ r.next \in i + 1 .. Len(x) + 1
  OBVIOUS
<1> QED BY <1>1, <1>2, <1>3, <1>4, <1>5

\* What is parsed at a place: a key and a list of keys.
LEMMA TreeAtFacts ==
  ASSUME NEW x \in Seq(Tokens), NEW i \in 1 .. Len(x) + 1, NEW e \in TreeAt(x, i)
  PROVE  e.key \in KeyAt(x, i) /\ e.list \in ListAt(x, i)
BY DEF TreeAt

\* Nodes of the three shapes.
LEMMA NoRangeType == NoRange \in AnySpans
BY DEF NoRange, Span, AnySpans
\* A key that is one token.
LEMMA SimpleNode ==
  ASSUME NEW x \in Seq(Tokens), NEW i \in 1 .. Len(x), x[i].t \in Leaves
  PROVE  Simple(x[i]) \in NodeAt(x, i)
<1>1. PICK p : p = Simple(x[i])
  OBVIOUS
<1>2. p.k = x[i].t /\ p.token = x[i] /\ p.parts = <<>> /\ p.range = NoRange
      /\ p = [k |-> p.k, token |-> p.token, range |-> p.range, parts |-> p.parts]
  BY <1>1 DEF Simple
<1>3. p.k \in Kinds /\ p.k \notin {"NOT", "OR", "AND"}
  BY <1>2 DEF Kinds, Leaves
<1>4. p.token \in AnyTokens
  <2>1. x[i] \in Tokens
    BY ElementType
  <2> QED BY <1>2, <2>1 DEF AnyTokens
<1>5. p.range \in AnySpans /\ p.parts \in Seq(i + 1 .. Len(x) + 1)
  BY <1>2, NoRangeType, EmptySeq
<1>6. p \in [k : Kinds, token : AnyTokens, range : AnySpans, parts : Seq(i + 1 .. Len(x) + 1)]
  BY <1>2, <1>3, <1>4, <1>5
<1> QED BY <1>1, <1>2, <1>3, <1>6 DEF NodeAt

\* The words of keys with keys or ranges inside.
LEMMA AnyWord == ASSUME NEW k \in {"UID", "Range", "NOT", "OR", "AND"} PROVE Word(k) \in AnyTokens
<1>1. k \in {"UID", "NOT", "OR"} => Word(k) \in Tokens
  <2>1. k \in {"UID", "NOT", "OR"} => k \in Leaves \cup Marks
    BY DEF Marks
  <2> QED BY <2>1, WordType
<1> QED BY <1>1 DEF AnyTokens

\* A key that is a range.
LEMMA RangedNode ==
  ASSUME NEW x \in Seq(Tokens), NEW i \in 1 .. Len(x), NEW k \in {"UID", "Range"}, NEW range \in AnySpans
  PROVE  Ranged(k, range) \in NodeAt(x, i)
<1>1. PICK p : p = Ranged(k, range)
  OBVIOUS
<1>2. p.k = k /\ p.token = Word(k) /\ p.parts = <<>> /\ p.range = range
      /\ p = [k |-> p.k, token |-> p.token, range |-> p.range, parts |-> p.parts]
  BY <1>1 DEF Ranged
<1>3. p.k \in Kinds /\ p.k \notin {"NOT", "OR", "AND"} /\ p.k \notin Leaves
  BY <1>2 DEF Kinds, Leaves
<1>4. p.token \in AnyTokens
  BY <1>2, AnyWord
<1>5. p.parts \in Seq(i + 1 .. Len(x) + 1)
  BY <1>2, EmptySeq
<1>6. p \in [k : Kinds, token : AnyTokens, range : AnySpans, parts : Seq(i + 1 .. Len(x) + 1)]
  BY <1>2, <1>3, <1>4, <1>5
<1> QED BY <1>1, <1>3, <1>6 DEF NodeAt

\* A key with keys inside, which are at later places.
LEMMA AroundNode ==
  ASSUME NEW x \in Seq(Tokens), NEW i \in 1 .. Len(x), NEW k \in {"NOT", "OR", "AND"},
         NEW parts \in Seq(i + 1 .. Len(x) + 1),
         (k = "NOT" => Len(parts) = 1) /\ (k = "OR" => Len(parts) = 2) /\ (k = "AND" => parts # <<>>)
  PROVE  Around(k, parts) \in NodeAt(x, i)
<1>1. PICK p : p = Around(k, parts)
  OBVIOUS
<1>2. p.k = k /\ p.token = Word(k) /\ p.parts = parts /\ p.range = NoRange
      /\ p = [k |-> p.k, token |-> p.token, range |-> p.range, parts |-> p.parts]
  BY <1>1 DEF Around
<1>3. p.k \in Kinds /\ p.k \notin Leaves
  BY <1>2 DEF Kinds, Leaves
<1>4. p.token \in AnyTokens
  BY <1>2, AnyWord
<1>6. p \in [k : Kinds, token : AnyTokens, range : AnySpans, parts : Seq(i + 1 .. Len(x) + 1)]
  BY <1>2, <1>3, <1>4, NoRangeType
<1> QED BY <1>1, <1>2, <1>3, <1>6 DEF NodeAt

\* With numbers within u32 nothing panics.
LEMMA NoPanic ==
  ASSUME NEW x, Small(x), NEW i \in 1 .. Len(x) + 1, NEW first, first = parse_selected_range_inner(x, i)
  PROVE  /\ first.is \in {"ok", "fail"} /\ (first.is = "fail" <=> Kind(x, i) # "number") /\ (first.is = "fail" => first = Fail)
         /\ first.is = "ok" => first.value \in AnySpans /\ first.next \in i + 1 .. Len(x) + 1
<1>1. x \in Seq(Tokens) /\ i \in Int /\ i + 2 \in Int
  BY DEF Small
<1>2. /\ first.is \in {"ok", "fail", "panic"}
      /\ first.is = "ok" => first.value \in AnySpans /\ first.next \in i + 1 .. Len(x) + 1
  BY <1>1, InnerFacts
<1>3. Kind(x, i) = "number" => ~(x[i].n > MaxNumber)
  <2>1. Kind(x, i) = "number" => i \in 1 .. Len(x) /\ x[i].t = "number"
    <3>1. "number" # "end"
      OBVIOUS
    <3> QED BY <1>1, <3>1, KindFacts
  <2>2. Kind(x, i) = "number" => x[i].n \in 0 .. MaxNumber
    BY <2>1 DEF Small
  <2> QED BY <2>2, Within
<1>4. Look(x, i + 2).t = "number" => ~(Look(x, i + 2).n > MaxNumber)
  <2>1. Kind(x, i + 2) = "number" => i + 2 \in 1 .. Len(x) /\ x[i + 2].t = "number" /\ Look(x, i + 2) = x[i + 2]
    <3>1. "number" # "end"
      OBVIOUS
    <3> QED BY <1>1, <3>1, KindFacts
  <2>2. Kind(x, i + 2) = "number" => Look(x, i + 2).n \in 0 .. MaxNumber
    BY <2>1 DEF Small
  <2> QED BY <2>2, Within DEF Kind
<1>5. first.is # "panic" /\ (first.is = "fail" <=> Kind(x, i) # "number") /\ (first.is = "fail" => first = Fail)
  BY <1>3, <1>4 DEF parse_selected_range_inner, Ok, Fail
<1> QED BY <1>2, <1>5

\* The alternatives of a key.
RangedKey(k, r) == IF r.is = "ok" THEN Ok(Ranged(k, r.value), r.next) ELSE r
NotKey(i, first) == IF first.is = "ok" THEN Ok(Around("NOT", <<i + 2>>), first.next) ELSE first
OrKey(i, first, second) ==
  IF first.is # "ok" THEN first
  ELSE IF second.is # "ok" THEN second
  ELSE Ok(Around("OR", <<i + 2, first.next + 1>>), second.next)
AndKey(x, inside) ==
  IF inside.is # "ok" THEN inside
  ELSE IF Kind(x, inside.next) # ")" THEN Fail
  ELSE Ok(Around("AND", inside.value), inside.next + 1)
Second(x, g, next) == IF Kind(x, next) = "blank" THEN g[next + 1].key ELSE Fail

\* Which alternative of a key is taken, by its first tokens.
LEMMA SearchKeyIs ==
  ASSUME NEW x, NEW i, NEW g, NEW t, t = Kind(x, i)
  PROVE  /\ t \in {"UID", "NOT", "OR"} /\ Kind(x, i + 1) # "blank" => search_key(x, i, g) = Fail
         /\ t = "number" => search_key(x, i, g) = RangedKey("Range", parse_selected_range_inner(x, i))
         /\ t = "UID" /\ Kind(x, i + 1) = "blank" =>
              search_key(x, i, g) = RangedKey("UID", parse_selected_range_inner(x, i + 2))
         /\ t = "NOT" /\ Kind(x, i + 1) = "blank" => search_key(x, i, g) = NotKey(i, g[i + 2].key)
         /\ t = "OR" /\ Kind(x, i + 1) = "blank" =>
              search_key(x, i, g) = OrKey(i, g[i + 2].key, Second(x, g, g[i + 2].key.next))
         /\ t = "(" => search_key(x, i, g) = AndKey(x, g[i + 1].list)
         /\ t \in {")", "blank", "comma", ":", "*", "rest", "refused", "end"} => search_key(x, i, g) = Fail
         /\ t \in Leaves => search_key(x, i, g) = Ok(Simple(x[i]), i + 1)
<1>1. t \in {"UID", "NOT", "OR"} /\ Kind(x, i + 1) # "blank" => search_key(x, i, g) = Fail
  BY DEF search_key
<1>2. t = "number" => search_key(x, i, g) = RangedKey("Range", parse_selected_range_inner(x, i))
  BY DEF search_key, RangedKey
<1>3. t = "UID" /\ Kind(x, i + 1) = "blank" =>
        search_key(x, i, g) = RangedKey("UID", parse_selected_range_inner(x, i + 2))
  BY DEF search_key, RangedKey
<1>4. t = "NOT" /\ Kind(x, i + 1) = "blank" => search_key(x, i, g) = NotKey(i, g[i + 2].key)
  BY DEF search_key, NotKey
<1>5. t = "OR" /\ Kind(x, i + 1) = "blank" =>
        search_key(x, i, g) = OrKey(i, g[i + 2].key, Second(x, g, g[i + 2].key.next))
  BY DEF search_key, OrKey, Second
<1>6. t = "(" => search_key(x, i, g) = AndKey(x, g[i + 1].list)
  BY DEF search_key, AndKey
<1>7. t \in {")", "blank", "comma", ":", "*", "rest", "refused", "end"} => search_key(x, i, g) = Fail
  BY DEF search_key
<1>8. t \in Leaves => search_key(x, i, g) = Ok(Simple(x[i]), i + 1)
  <2>1. t \in Leaves => t \notin {"number", "UID", "NOT", "OR", "(", ")", "blank", "comma", ":", "*", "rest", "refused", "end"}
    BY DEF Leaves
  <2> QED BY <2>1 DEF search_key
<1> QED BY <1>1, <1>2, <1>3, <1>4, <1>5, <1>6, <1>7, <1>8

\* The kinds of tokens, at each place.
LEMMA KindOf ==
  ASSUME NEW x \in Seq(Tokens), NEW i \in 1 .. Len(x) + 1
  PROVE  Kind(x, i) \in {"number", "UID", "NOT", "OR", "("} \cup {")", "blank", "comma", ":", "*", "rest", "refused", "end"} \cup Leaves
<1>1. i \in Int /\ (i \in 1 .. Len(x) => x[i] \in Tokens)
  BY ElementType
<1>2. i \in 1 .. Len(x) => Kind(x, i) \in Leaves \cup Marks
  BY <1>1, KindFacts DEF Tokens
<1>3. i \notin 1 .. Len(x) => Kind(x, i) = "end"
  BY <1>1, KindFacts
<1> QED BY <1>2, <1>3 DEF Marks

Later(x, i, g) == \A k \in i + 1 .. Len(x) + 1 : g[k] \in TreeAt(x, k)
Agree(x, i, g, h) == \A k \in i + 1 .. Len(x) + 1 : g[k] = h[k]

\* The place after a token of the text.
LEMMA After ==
  ASSUME NEW x \in Seq(Tokens), NEW i \in Nat \ {0}, Kind(x, i) # "end"
  PROVE  i \in 1 .. Len(x) /\ i + 1 \in 1 .. Len(x) + 1 /\ x[i].t = Kind(x, i)
<1>1. i \in 1 .. Len(x) /\ x[i].t = Kind(x, i)
  BY KindFacts
<1>2. PICK L \in Nat : L = Len(x)
  OBVIOUS
<1>3. i + 1 \in 1 .. L + 1
  BY <1>1, <1>2
<1> QED BY <1>1, <1>2, <1>3

\* What a key computes has its type, and looks at later places only.
KeyGood(x, i, g) ==
  /\ search_key(x, i, g) \in KeyAt(x, i)
  /\ \A h : Agree(x, i, g, h) => search_key(x, i, g) = search_key(x, i, h)

\* A range and UID look at three or five tokens only.
LEMMA KeyRanged ==
  ASSUME NEW x, Small(x), NEW i \in 1 .. Len(x) + 1, NEW g,
         Kind(x, i) = "number" \/ (Kind(x, i) = "UID" /\ Kind(x, i + 1) = "blank")
  PROVE  KeyGood(x, i, g)
<1>1. x \in Seq(Tokens) /\ i \in Nat \ {0} /\ i + 1 \in Nat \ {0} /\ Len(x) \in Nat
  BY DEF Small
<1>2. i \in 1 .. Len(x)
  <2>1. Kind(x, i) # "end"
    OBVIOUS
  <2> QED BY <1>1, <2>1, After
<1>3. PICK k \in {"UID", "Range"}, j \in {i, i + 2} :
        /\ j \in 1 .. Len(x) + 1
        /\ \A h : search_key(x, i, h) = RangedKey(k, parse_selected_range_inner(x, j))
  <2>1. CASE Kind(x, i) = "number"
    <3>1. \A h : search_key(x, i, h) = RangedKey("Range", parse_selected_range_inner(x, i))
      BY <2>1, SearchKeyIs
    <3> QED BY <3>1
  <2>2. CASE Kind(x, i) = "UID" /\ Kind(x, i + 1) = "blank"
    <3>1. \A h : search_key(x, i, h) = RangedKey("UID", parse_selected_range_inner(x, i + 2))
      BY <2>2, SearchKeyIs
    <3>2. (i + 1) + 1 \in 1 .. Len(x) + 1
      <4>1. Kind(x, i + 1) # "end"
        BY <2>2
      <4> QED BY <1>1, <4>1, After
    <3>3. i + 2 \in 1 .. Len(x) + 1
      BY <1>1, <3>2
    <3> QED BY <3>1, <3>3
  <2> QED BY <2>1, <2>2
<1>4. PICK r : r = parse_selected_range_inner(x, j)
  OBVIOUS
<1>5. /\ r.is \in {"ok", "fail"} /\ (r.is = "fail" => r = Fail)
      /\ r.is = "ok" => r.value \in AnySpans /\ r.next \in j + 1 .. Len(x) + 1
  BY <1>3, <1>4, NoPanic
<1>6. RangedKey(k, r) \in KeyAt(x, i)
  <2>1. CASE r.is = "ok"
    <3>1. r.next \in i + 1 .. Len(x) + 1
      <4>1. \A n \in j + 1 .. Len(x) + 1 : n \in i + 1 .. Len(x) + 1
        BY <1>1, <1>3
      <4> QED BY <1>5, <2>1, <4>1
    <3>2. Ranged(k, r.value) \in NodeAt(x, i)
      BY <1>1, <1>2, <1>5, <2>1, RangedNode
    <3>3. Ok(Ranged(k, r.value), r.next) \in KeyAt(x, i)
      BY <1>1, <3>1, <3>2, KeyAtFacts
    <3> QED BY <2>1, <3>3 DEF RangedKey
  <2>2. CASE r = Fail
    BY <1>1, <2>2, KeyAtFacts DEF RangedKey
  <2> QED BY <1>5, <2>1, <2>2
<1> QED BY <1>3, <1>4, <1>6 DEF KeyGood

\* What begins no key is refused.
LEMMA KeyFails ==
  ASSUME NEW x, Small(x), NEW i \in 1 .. Len(x) + 1, NEW g,
         \/ Kind(x, i) \in {"UID", "NOT", "OR"} /\ Kind(x, i + 1) # "blank"
         \/ Kind(x, i) \in {")", "blank", "comma", ":", "*", "rest", "refused", "end"}
  PROVE  KeyGood(x, i, g)
<1>1. \A h : search_key(x, i, h) = Fail
  BY SearchKeyIs
<1>2. Fail \in KeyAt(x, i)
  BY KeyAtFacts DEF Small
<1> QED BY <1>1, <1>2 DEF KeyGood

\* A key that is one token looks at no other.
LEMMA KeySimple ==
  ASSUME NEW x, Small(x), NEW i \in 1 .. Len(x) + 1, NEW g, Kind(x, i) \in Leaves
  PROVE  KeyGood(x, i, g)
<1>1. \A h : search_key(x, i, h) = Ok(Simple(x[i]), i + 1)
  BY SearchKeyIs
<1>2. x \in Seq(Tokens) /\ i \in Nat \ {0} /\ Len(x) \in Nat
  BY DEF Small
<1>3. i \in 1 .. Len(x) /\ x[i].t \in Leaves
  <2>1. Kind(x, i) # "end"
    BY DEF Leaves
  <2> QED BY <1>2, <2>1, After
<1>4. Simple(x[i]) \in NodeAt(x, i) /\ i + 1 \in i + 1 .. Len(x) + 1
  <2>1. i + 1 \in i + 1 .. Len(x) + 1
    BY <1>2, <1>3
  <2> QED BY <1>2, <1>3, <2>1, SimpleNode
<1>5. Ok(Simple(x[i]), i + 1) \in KeyAt(x, i)
  BY <1>2, <1>4, KeyAtFacts
<1> QED BY <1>1, <1>5 DEF KeyGood

\* NOT depends only on later places.
LEMMA KeyNot ==
  ASSUME NEW x, Small(x), NEW i \in 1 .. Len(x) + 1, NEW g, Later(x, i, g),
         Kind(x, i) = "NOT", Kind(x, i + 1) = "blank"
  PROVE  KeyGood(x, i, g)
<1>1. x \in Seq(Tokens) /\ i \in Nat \ {0} /\ i + 1 \in Nat \ {0} /\ Len(x) \in Nat
  BY DEF Small
<1>2. i \in 1 .. Len(x) /\ i + 1 \in 1 .. Len(x)
  <2>1. Kind(x, i) # "end" /\ Kind(x, i + 1) # "end"
    OBVIOUS
  <2> QED BY <1>1, <2>1, After
<1>3. i + 2 \in i + 1 .. Len(x) + 1 /\ i + 2 \in 1 .. Len(x) + 1
  BY <1>1, <1>2
<1>4. \A h : search_key(x, i, h) = NotKey(i, h[i + 2].key)
  BY SearchKeyIs
<1>5. PICK first : first = g[i + 2].key
  OBVIOUS
<1>6. first \in KeyAt(x, i + 2)
  BY <1>1, <1>3, <1>5, TreeAtFacts DEF Later
<1>7. /\ first.is \in {"ok", "fail"} /\ (first.is = "fail" => first = Fail)
      /\ first.is = "ok" => first.next \in (i + 2) + 1 .. Len(x) + 1
  BY <1>1, <1>3, <1>6, KeyAtFacts
<1>8. NotKey(i, first) \in KeyAt(x, i)
  <2>1. CASE first.is = "ok"
    <3>1. first.next \in i + 1 .. Len(x) + 1
      <4>1. \A n \in (i + 2) + 1 .. Len(x) + 1 : n \in i + 1 .. Len(x) + 1
        BY <1>1
      <4> QED BY <1>7, <2>1, <4>1
    <3>2. Around("NOT", <<i + 2>>) \in NodeAt(x, i)
      <4>1. <<i + 2>> \in Seq(i + 1 .. Len(x) + 1) /\ Len(<<i + 2>>) = 1
        <5>1. \A S : \A a \in S : <<a>> \in Seq(S) /\ Len(<<a>>) = 1
          OBVIOUS
        <5> QED BY <1>3, <5>1
      <4> QED BY <1>1, <1>2, <4>1, AroundNode
    <3>3. Ok(Around("NOT", <<i + 2>>), first.next) \in KeyAt(x, i)
      BY <1>1, <3>1, <3>2, KeyAtFacts
    <3> QED BY <2>1, <3>3 DEF NotKey
  <2>2. CASE first = Fail
    BY <1>1, <2>2, KeyAtFacts DEF NotKey
  <2> QED BY <1>7, <2>1, <2>2
<1>9. \A h : Agree(x, i, g, h) => g[i + 2] = h[i + 2]
  BY <1>3 DEF Agree
<1> QED BY <1>4, <1>5, <1>8, <1>9 DEF KeyGood

\* So does OR.
LEMMA KeyOr ==
  ASSUME NEW x, Small(x), NEW i \in 1 .. Len(x) + 1, NEW g, Later(x, i, g),
         Kind(x, i) = "OR", Kind(x, i + 1) = "blank"
  PROVE  KeyGood(x, i, g)
<1>1. x \in Seq(Tokens) /\ i \in Nat \ {0} /\ i + 1 \in Nat \ {0} /\ Len(x) \in Nat
  BY DEF Small
<1>2. i \in 1 .. Len(x) /\ i + 1 \in 1 .. Len(x)
  <2>1. Kind(x, i) # "end" /\ Kind(x, i + 1) # "end"
    OBVIOUS
  <2> QED BY <1>1, <2>1, After
<1>3. i + 2 \in i + 1 .. Len(x) + 1 /\ i + 2 \in 1 .. Len(x) + 1
  BY <1>1, <1>2
<1>4. \A h : search_key(x, i, h) = OrKey(i, h[i + 2].key, Second(x, h, h[i + 2].key.next))
  BY SearchKeyIs
<1>5. PICK first : first = g[i + 2].key
  OBVIOUS
<1>6. first \in KeyAt(x, i + 2)
  BY <1>1, <1>3, <1>5, TreeAtFacts DEF Later
<1>7. /\ first.is \in {"ok", "fail"} /\ (first.is = "fail" => first = Fail)
      /\ first.is = "ok" => first.next \in (i + 2) + 1 .. Len(x) + 1
  BY <1>1, <1>3, <1>6, KeyAtFacts
<1>8. CASE first = Fail
  <2>1. \A h : Agree(x, i, g, h) => search_key(x, i, h) = Fail
    <3>1. \A h : Agree(x, i, g, h) => h[i + 2].key = Fail
      BY <1>3, <1>5, <1>8 DEF Agree
    <3>2. Fail.is # "ok"
      BY <1>1, KeyAtFacts
    <3> QED BY <1>4, <3>1, <3>2 DEF OrKey
  <2>2. Fail \in KeyAt(x, i) /\ Agree(x, i, g, g)
    BY <1>1, KeyAtFacts DEF Agree
  <2> QED BY <2>1, <2>2 DEF KeyGood
<1>9. CASE first.is = "ok"
  <2>1. PICK next : next = first.next
    OBVIOUS
  <2>2. next \in i + 3 .. Len(x) + 1 /\ next \in Nat \ {0}
    <3>1. (i + 2) + 1 = i + 3
      BY <1>1
    <3>2. next \in i + 3 .. Len(x) + 1
      BY <1>7, <1>9, <2>1, <3>1
    <3> QED BY <1>1, <3>2
  <2>3. Kind(x, next) = "blank" => next + 1 \in i + 1 .. Len(x) + 1 /\ next + 1 \in 1 .. Len(x) + 1
    <3>1. Kind(x, next) = "blank" => next + 1 \in 1 .. Len(x) + 1
      <4>1. "blank" # "end"
        OBVIOUS
      <4> QED BY <1>1, <2>2, <4>1, After
    <3>2. next + 1 \in 1 .. Len(x) + 1 => next + 1 \in i + 1 .. Len(x) + 1
      BY <1>1, <2>2
    <3> QED BY <3>1, <3>2
  <2>4. PICK second : second = Second(x, g, next)
    OBVIOUS
  <2>5. second = Fail \/ (second.is = "ok" /\ Kind(x, next) = "blank" /\ second.next \in i + 1 .. Len(x) + 1)
    <3>1. CASE Kind(x, next) = "blank"
      <4>1. second = g[next + 1].key
        BY <2>4, <3>1 DEF Second
      <4>2. second \in KeyAt(x, next + 1)
        BY <1>1, <2>3, <3>1, <4>1, TreeAtFacts DEF Later
      <4>3. second = Fail \/ (second.is = "ok" /\ second.next \in (next + 1) + 1 .. Len(x) + 1)
        BY <1>1, <2>3, <3>1, <4>2, KeyAtFacts
      <4>4. \A n \in (next + 1) + 1 .. Len(x) + 1 : n \in i + 1 .. Len(x) + 1
        BY <1>1, <2>2
      <4> QED BY <3>1, <4>3, <4>4
    <3>2. CASE Kind(x, next) # "blank"
      BY <2>4, <3>2 DEF Second
    <3> QED BY <3>1, <3>2
  <2>6. \A h : Agree(x, i, g, h) => h[i + 2].key = first /\ Second(x, h, next) = second
    <3>1. \A h : Agree(x, i, g, h) => h[i + 2].key = first
      BY <1>3, <1>5 DEF Agree
    <3>2. \A h : Agree(x, i, g, h) => Second(x, h, next) = second
      BY <2>3, <2>4 DEF Agree, Second
    <3> QED BY <3>1, <3>2
  <2>7. \A h : Agree(x, i, g, h) => search_key(x, i, h) = OrKey(i, first, second)
    BY <1>4, <2>1, <2>6
  <2>8. OrKey(i, first, second) \in KeyAt(x, i)
    <3>1. CASE second = Fail
      <4>1. Fail \in KeyAt(x, i) /\ Fail.is # "ok"
        BY <1>1, KeyAtFacts
      <4> QED BY <1>9, <3>1, <4>1 DEF OrKey
    <3>2. CASE second.is = "ok" /\ Kind(x, next) = "blank" /\ second.next \in i + 1 .. Len(x) + 1
      <4>1. PICK parts : parts = <<i + 2, next + 1>>
        OBVIOUS
      <4>2. parts \in Seq(i + 1 .. Len(x) + 1) /\ Len(parts) = 2
        <5>1. \A S : \A a, b \in S : <<a, b>> \in Seq(S) /\ Len(<<a, b>>) = 2
          OBVIOUS
        <5> QED BY <1>3, <2>3, <3>2, <4>1, <5>1
      <4>3. Around("OR", parts) \in NodeAt(x, i)
        BY <1>1, <1>2, <4>2, AroundNode
      <4>4. Ok(Around("OR", parts), second.next) \in KeyAt(x, i)
        BY <1>1, <3>2, <4>3, KeyAtFacts
      <4> QED BY <1>9, <2>1, <3>2, <4>1, <4>4 DEF OrKey
    <3> QED BY <2>5, <3>1, <3>2
  <2>9. Agree(x, i, g, g)
    BY DEF Agree
  <2> QED BY <2>7, <2>8, <2>9 DEF KeyGood
<1> QED BY <1>7, <1>8, <1>9

\* So does a list in parentheses.
LEMMA KeyAnd ==
  ASSUME NEW x, Small(x), NEW i \in 1 .. Len(x) + 1, NEW g, Later(x, i, g), Kind(x, i) = "("
  PROVE  KeyGood(x, i, g)
<1>1. x \in Seq(Tokens) /\ i \in Nat \ {0} /\ Len(x) \in Nat
  BY DEF Small
<1>2. i \in 1 .. Len(x)
  <2>1. Kind(x, i) # "end"
    OBVIOUS
  <2> QED BY <1>1, <2>1, After
<1>3. i + 1 \in i + 1 .. Len(x) + 1 /\ i + 1 \in 1 .. Len(x) + 1
  BY <1>1, <1>2
<1>4. \A h : search_key(x, i, h) = AndKey(x, h[i + 1].list)
  BY SearchKeyIs
<1>5. PICK inside : inside = g[i + 1].list
  OBVIOUS
<1>6. inside \in ListAt(x, i + 1)
  BY <1>1, <1>3, <1>5, TreeAtFacts DEF Later
<1>7. /\ inside.is \in {"ok", "fail"} /\ (inside.is = "fail" => inside = Fail)
      /\ inside.is = "ok" => /\ inside.value \in Seq(i + 1 .. Len(x) + 1) \ {<<>>}
                             /\ inside.next \in (i + 1) + 1 .. Len(x) + 1
  BY <1>1, <1>3, <1>6, KeyAtFacts
<1>8. AndKey(x, inside) \in KeyAt(x, i)
  <2>1. CASE inside.is = "ok" /\ Kind(x, inside.next) = ")"
    <3>1. inside.next + 1 \in i + 1 .. Len(x) + 1
      <4>1. inside.next \in Nat \ {0}
        <5>1. \A n \in (i + 1) + 1 .. Len(x) + 1 : n \in Nat \ {0}
          BY <1>1
        <5> QED BY <1>7, <2>1, <5>1
      <4>2. inside.next + 1 \in 1 .. Len(x) + 1
        <5>1. Kind(x, inside.next) # "end"
          BY <2>1
        <5> QED BY <1>1, <4>1, <5>1, After
      <4>3. \A n \in (i + 1) + 1 .. Len(x) + 1 : n + 1 \in 1 .. Len(x) + 1 => n + 1 \in i + 1 .. Len(x) + 1
        BY <1>1
      <4> QED BY <1>7, <2>1, <4>2, <4>3
    <3>2. Around("AND", inside.value) \in NodeAt(x, i)
      <4>1. inside.value \in Seq(i + 1 .. Len(x) + 1) /\ inside.value # <<>>
        BY <1>7, <2>1
      <4> QED BY <1>1, <1>2, <4>1, AroundNode
    <3>3. Ok(Around("AND", inside.value), inside.next + 1) \in KeyAt(x, i)
      BY <1>1, <3>1, <3>2, KeyAtFacts
    <3> QED BY <2>1, <3>3 DEF AndKey
  <2>2. CASE inside = Fail \/ Kind(x, inside.next) # ")"
    <3>1. Fail \in KeyAt(x, i)
      BY <1>1, KeyAtFacts
    <3>2. AndKey(x, inside) = Fail
      <4>1. inside.is = "ok" \/ (inside.is # "ok" /\ inside = Fail)
        BY <1>7
      <4>2. CASE inside.is # "ok" /\ inside = Fail
        BY <4>2 DEF AndKey
      <4>3. CASE inside.is = "ok" /\ Kind(x, inside.next) # ")"
        BY <4>3 DEF AndKey
      <4>4. Fail.is # "ok"
        BY <1>1, KeyAtFacts
      <4> QED BY <2>2, <4>1, <4>2, <4>3, <4>4
    <3> QED BY <3>1, <3>2
  <2> QED BY <1>7, <2>1, <2>2
<1>9. \A h : Agree(x, i, g, h) => g[i + 1] = h[i + 1]
  BY <1>3 DEF Agree
<1> QED BY <1>4, <1>5, <1>8, <1>9 DEF KeyGood

\* So does every key.
LEMMA KeyIsGood ==
  ASSUME NEW x, Small(x), NEW i \in 1 .. Len(x) + 1, NEW g, Later(x, i, g)
  PROVE  KeyGood(x, i, g)
<1>1. Kind(x, i) \in {"number", "UID", "NOT", "OR", "("} \cup {")", "blank", "comma", ":", "*", "rest", "refused", "end"} \cup Leaves
  BY KindOf DEF Small
<1>2. CASE Kind(x, i) = "number" \/ (Kind(x, i) = "UID" /\ Kind(x, i + 1) = "blank")
  BY <1>2, KeyRanged
<1>3. CASE \/ Kind(x, i) \in {"UID", "NOT", "OR"} /\ Kind(x, i + 1) # "blank"
           \/ Kind(x, i) \in {")", "blank", "comma", ":", "*", "rest", "refused", "end"}
  BY <1>3, KeyFails
<1>4. CASE Kind(x, i) \in Leaves
  BY <1>4, KeySimple
<1>5. CASE Kind(x, i) = "NOT" /\ Kind(x, i + 1) = "blank"
  BY <1>5, KeyNot
<1>6. CASE Kind(x, i) = "OR" /\ Kind(x, i + 1) = "blank"
  BY <1>6, KeyOr
<1>7. CASE Kind(x, i) = "("
  BY <1>7, KeyAnd
<1> QED BY <1>1, <1>2, <1>3, <1>4, <1>5, <1>6, <1>7

Rest(x, g, next) == IF Kind(x, next) = "blank" THEN g[next + 1].list ELSE Fail
ListOf(i, first, rest) ==
  IF rest.is = "ok" THEN Ok(<<i>> \o rest.value, rest.next)
  ELSE IF rest.is = "fail" THEN Ok(<<i>>, first.next)
  ELSE rest

\* A list of keys, by its first key.
LEMMA ListIs ==
  ASSUME NEW x, NEW i, NEW first, NEW g
  PROVE  separated_list1(x, i, first, g) = IF first.is # "ok" THEN first ELSE ListOf(i, first, Rest(x, g, first.next))
BY DEF separated_list1, ListOf, Rest

\* A function of the numbers up to n is a sequence.
LEMMA FunctionSeq == ASSUME NEW S, NEW n \in Nat, NEW f \in [1 .. n -> S] PROVE f \in Seq(S) /\ Len(f) = n
  OBVIOUS
\* A list of keys that is parsed.
LEMMA OkList ==
  ASSUME NEW x \in Seq(Tokens), NEW i \in 1 .. Len(x) + 1, NEW s \in Seq(i .. Len(x) + 1) \ {<<>>},
         NEW next \in i + 1 .. Len(x) + 1
  PROVE  Ok(s, next) \in ListAt(x, i)
BY KeyAtFacts

\* A place before the places of a sequence.
LEMMA ConsPlaces ==
  ASSUME NEW n \in Nat, NEW i \in 1 .. n, NEW j \in i + 1 .. n, NEW s \in Seq(j .. n)
  PROVE  <<i>> \o s \in Seq(i .. n) \ {<<>>} /\ <<i>> \in Seq(i .. n) \ {<<>>}
<1>1. PICK S : S = i .. n
  OBVIOUS
<1>2. i \in S /\ s \in Seq(S)
  <2>1. \A k \in j .. n : k \in S
    BY <1>1
  <2>2. s \in Seq(S)
    <3>1. Len(s) \in Nat /\ DOMAIN s = 1 .. Len(s) /\ \A k \in 1 .. Len(s) : s[k] \in j .. n
      BY ElementType
    <3>2. \A k \in 1 .. Len(s) : s[k] \in S
      BY <2>1, <3>1
    <3>3. s = [k \in 1 .. Len(s) |-> s[k]]
      BY <3>1
    <3>4. s \in [1 .. Len(s) -> S]
      BY <3>2, <3>3
    <3> QED BY <3>1, <3>4, FunctionSeq
  <2> QED BY <1>1, <2>2
<1>3. \A T : \A a \in T : \A t \in Seq(T) : /\ <<a>> \o t \in Seq(T) /\ <<a>> \in Seq(T)
                                           /\ Len(<<a>> \o t) = 1 + Len(t) /\ Len(<<a>>) = 1
  OBVIOUS
<1>4. /\ <<i>> \o s \in Seq(S) /\ <<i>> \in Seq(S) /\ Len(<<i>> \o s) = 1 + Len(s) /\ Len(<<i>>) = 1 /\ Len(s) \in Nat
  BY <1>2, <1>3
<1>5. <<i>> \o s # <<>> /\ <<i>> # <<>>
  BY <1>4
<1> QED BY <1>1, <1>4, <1>5

\* A list of keys depends only on later places.
LEMMA ListIsGood ==
  ASSUME NEW x, Small(x), NEW i \in 1 .. Len(x) + 1, NEW first \in KeyAt(x, i), NEW g, Later(x, i, g)
  PROVE  /\ separated_list1(x, i, first, g) \in ListAt(x, i)
         /\ \A h : Agree(x, i, g, h) => separated_list1(x, i, first, g) = separated_list1(x, i, first, h)
<1>1. x \in Seq(Tokens) /\ i \in Nat \ {0} /\ Len(x) \in Nat
  BY DEF Small
<1>2. /\ first.is \in {"ok", "fail"} /\ (first.is = "fail" => first = Fail)
      /\ first.is = "ok" => first.next \in i + 1 .. Len(x) + 1
  BY <1>1, KeyAtFacts
<1>3. \A h : separated_list1(x, i, first, h) =
        IF first.is # "ok" THEN first ELSE ListOf(i, first, Rest(x, h, first.next))
  BY ListIs
<1>4. CASE first.is = "fail"
  <2>1. \A h : separated_list1(x, i, first, h) = Fail
    BY <1>2, <1>3, <1>4
  <2>2. Fail \in ListAt(x, i)
    BY <1>1, KeyAtFacts
  <2> QED BY <2>1, <2>2
<1>5. CASE first.is = "ok"
  <2>1. PICK next : next = first.next
    OBVIOUS
  <2>2. next \in i + 1 .. Len(x) + 1 /\ next \in Nat \ {0}
    <3>1. next \in i + 1 .. Len(x) + 1
      BY <1>2, <1>5, <2>1
    <3> QED BY <1>1, <3>1
  <2>3. Kind(x, next) = "blank" => next + 1 \in i + 1 .. Len(x) + 1 /\ next + 1 \in 1 .. Len(x) + 1
    <3>1. Kind(x, next) = "blank" => next + 1 \in 1 .. Len(x) + 1
      <4>1. "blank" # "end"
        OBVIOUS
      <4> QED BY <1>1, <2>2, <4>1, After
    <3>2. next + 1 \in 1 .. Len(x) + 1 => next + 1 \in i + 1 .. Len(x) + 1
      BY <1>1, <2>2
    <3> QED BY <3>1, <3>2
  <2>4. PICK rest : rest = Rest(x, g, next)
    OBVIOUS
  <2>5. Kind(x, next) = "blank" => rest \in ListAt(x, next + 1)
    BY <1>1, <2>3, <2>4, TreeAtFacts DEF Later, Rest
  <2>6. \/ rest = Fail
        \/ /\ Kind(x, next) = "blank" /\ rest.is = "ok" /\ rest.value \in Seq(next + 1 .. Len(x) + 1)
           /\ rest.next \in (next + 1) + 1 .. Len(x) + 1
    <3>1. CASE Kind(x, next) = "blank"
      BY <1>1, <2>3, <2>5, <3>1, KeyAtFacts
    <3>2. CASE Kind(x, next) # "blank"
      BY <2>4, <3>2 DEF Rest
    <3> QED BY <3>1, <3>2
  <2>7. \A h : Agree(x, i, g, h) => Rest(x, h, next) = rest
    BY <2>3, <2>4 DEF Agree, Rest
  <2>8. \A h : Agree(x, i, g, h) => separated_list1(x, i, first, h) = ListOf(i, first, rest)
    BY <1>3, <1>5, <2>1, <2>7
  <2>9. ListOf(i, first, rest) \in ListAt(x, i)
    <3>1. CASE rest = Fail
      <4>1. ListOf(i, first, rest) = Ok(<<i>>, next)
        <5>1. Fail.is = "fail" /\ "fail" # "ok"
          BY <1>1, KeyAtFacts
        <5> QED BY <2>1, <3>1, <5>1 DEF ListOf
      <4>2. <<i>> \in Seq(i .. Len(x) + 1) \ {<<>>}
        <5>1. \A T : \A a \in T : <<a>> \in Seq(T) /\ Len(<<a>>) = 1
          OBVIOUS
        <5>2. i \in i .. Len(x) + 1
          BY <1>1
        <5> QED BY <5>1, <5>2
      <4> QED BY <1>1, <2>2, <4>1, <4>2, OkList
    <3>2. CASE /\ Kind(x, next) = "blank" /\ rest.is = "ok" /\ rest.value \in Seq(next + 1 .. Len(x) + 1)
               /\ rest.next \in (next + 1) + 1 .. Len(x) + 1
      <4>1. ListOf(i, first, rest) = Ok(<<i>> \o rest.value, rest.next)
        BY <3>2 DEF ListOf
      <4>2. <<i>> \o rest.value \in Seq(i .. Len(x) + 1) \ {<<>>}
        <5>1. PICK n \in Nat : n = Len(x) + 1
          BY <1>1
        <5>2. i \in 1 .. n /\ next + 1 \in i + 1 .. n /\ rest.value \in Seq(next + 1 .. n)
          BY <2>3, <3>2, <5>1
        <5>3. <<i>> \o rest.value \in Seq(i .. n) \ {<<>>}
          BY <5>2, ConsPlaces
        <5> QED BY <5>1, <5>3
      <4>3. rest.next \in i + 1 .. Len(x) + 1
        <5>1. \A k \in (next + 1) + 1 .. Len(x) + 1 : k \in i + 1 .. Len(x) + 1
          BY <1>1, <2>2
        <5> QED BY <3>2, <5>1
      <4> QED BY <1>1, <4>1, <4>2, <4>3, OkList
    <3> QED BY <2>6, <3>1, <3>2
  <2>10. Agree(x, i, g, g)
    BY DEF Agree
  <2> QED BY <2>8, <2>9, <2>10
<1> QED BY <1>2, <1>4, <1>5

\* What is parsed at a place depends only on later places.
LEMMA ParsedAtFacts ==
  ASSUME NEW x, Small(x), NEW i \in 1 .. Len(x) + 1, NEW g, Later(x, i, g)
  PROVE  /\ parsed_at(x, i, g) \in TreeAt(x, i)
         /\ \A h : Agree(x, i, g, h) => parsed_at(x, i, g) = parsed_at(x, i, h)
<1>1. PICK key : key = search_key(x, i, g)
  OBVIOUS
<1>2. key \in KeyAt(x, i) /\ \A h : Agree(x, i, g, h) => search_key(x, i, h) = key
  BY <1>1, KeyIsGood DEF KeyGood
<1>3. \A h : parsed_at(x, i, h) =
        [key |-> search_key(x, i, h), list |-> separated_list1(x, i, search_key(x, i, h), h)]
  BY DEF parsed_at
<1>4. PICK list : list = separated_list1(x, i, key, g)
  OBVIOUS
<1>5. list \in ListAt(x, i) /\ \A h : Agree(x, i, g, h) => separated_list1(x, i, key, h) = list
  BY <1>2, <1>4, ListIsGood
<1>6. \A h : Agree(x, i, g, h) => parsed_at(x, i, h) = [key |-> key, list |-> list]
  BY <1>2, <1>3, <1>5
<1>7. parsed_at(x, i, g) = [key |-> key, list |-> list]
  BY <1>1, <1>3, <1>4
<1>8. [key |-> key, list |-> list] \in TreeAt(x, i)
  BY <1>2, <1>5 DEF TreeAt
<1> QED BY <1>6, <1>7, <1>8

\* What Parse computes.
LEMMA ParsedTree ==
  ASSUME NEW x, Small(x)
  PROVE  /\ DOMAIN Parse(x) = 1 .. Len(x) + 1
         /\ \A i \in 1 .. Len(x) + 1 : Parse(x)[i] \in TreeAt(x, i) /\ Parse(x)[i] = parsed_at(x, i, Parse(x))
<1>1. PICK N \in Nat \ {0} : N = Len(x) + 1
  BY DEF Small
<1>2. PICK D : D = 1 .. N
  OBVIOUS
<1>3. PICK V : V = [i \in D |-> TreeAt(x, i)]
  OBVIOUS
<1>4. PICK W : W = UNION {V[i] : i \in D}
  OBVIOUS
<1>5. PICK G : G = {g \in [D -> W] : \A i \in D : g[i] \in V[i]}
  OBVIOUS
<1>6. PICK rank : rank = [i \in D |-> N - i]
  OBVIOUS
<1>7. PICK R : R = [i \in D |-> [g \in G |-> parsed_at(x, i, g)]]
  OBVIOUS
<1>8. rank \in [D -> 0 .. N] /\ \A i \in D : \A k \in i + 1 .. N : k \in D /\ rank[k] < rank[i]
  BY <1>1, <1>2, <1>6
<1>9. V \in [D -> SUBSET W] /\ \A i \in D : V[i] = TreeAt(x, i) /\ V[i] \subseteq W
  BY <1>3, <1>4
<1>10. ASSUME NEW i \in D, NEW g \in G
       PROVE  /\ parsed_at(x, i, g) \in V[i] /\ parsed_at(x, i, g) \in W
              /\ \A h : Agree(x, i, g, h) => parsed_at(x, i, g) = parsed_at(x, i, h)
  <2>1. Later(x, i, g)
    <3>1. \A k \in i + 1 .. N : g[k] \in V[k] /\ k \in D
      BY <1>5, <1>8
    <3> QED BY <1>1, <1>9, <3>1 DEF Later
  <2> QED BY <1>1, <1>2, <1>9, <2>1, ParsedAtFacts
<1>11. R \in [D -> [G -> W]] /\ \A i \in D, g \in G : R[i][g] = parsed_at(x, i, g)
  BY <1>7, <1>10
<1>12. ASSUME NEW i \in D, NEW g \in G, NEW h \in G, \A k \in D : rank[k] < rank[i] => g[k] = h[k]
       PROVE  R[i][g] = R[i][h]
  <2>1. Agree(x, i, g, h)
    BY <1>1, <1>8, <1>12 DEF Agree
  <2> QED BY <1>10, <1>11, <2>1
<1>13. G # {}
  <2>1. \A i \in D : [key |-> Fail, list |-> Fail] \in V[i]
    <3>1. \A i \in D : Fail \in KeyAt(x, i) /\ Fail \in ListAt(x, i)
      BY <1>1, <1>2, KeyAtFacts DEF Small
    <3> QED BY <1>9, <3>1 DEF TreeAt
  <2>2. PICK e : e = [key |-> Fail, list |-> Fail]
    OBVIOUS
  <2>3. \A i \in D : e \in V[i] /\ e \in W
    BY <1>9, <2>1, <2>2
  <2>4. [i \in D |-> e] \in G
    BY <1>5, <2>3
  <2> QED BY <2>4
<1>14. G \in SUBSET [D -> W] /\ \A g \in [D -> W] : g \in G <=> \A i \in D : g[i] \in V[i]
  BY <1>5
<1>15. \A i \in D : \A g \in G : R[i][g] \in V[i]
  BY <1>10, <1>11
<1>16. Recursive(N, D, rank, W, V, G, R)
  BY <1>1, <1>8, <1>9, <1>11, <1>12, <1>13, <1>14, <1>15 DEF Recursive
<1>17. PICK f \in G : \A i \in D : f[i] = R[i][f]
  BY <1>16, Recursion
<1>18. f = [i \in D |-> parsed_at(x, i, f)]
  BY <1>5, <1>11, <1>17
<1>19. PICK at : at = CHOOSE t : t = [i \in D |-> parsed_at(x, i, t)]
  OBVIOUS
<1>20. at = [i \in D |-> parsed_at(x, i, at)]
  BY <1>18, <1>19
<1>21. Parse(x) = at
  BY <1>1, <1>2, <1>19 DEF Parse
<1>22. ASSUME NEW i \in 1 .. N, \A k \in i + 1 .. N : at[k] \in TreeAt(x, k) PROVE at[i] \in TreeAt(x, i)
  <2>1. Later(x, i, at)
    BY <1>1, <1>22 DEF Later
  <2>2. parsed_at(x, i, at) \in TreeAt(x, i)
    BY <1>1, <2>1, ParsedAtFacts
  <2> QED BY <1>2, <1>20, <2>2
<1>23. \A i \in 1 .. N : at[i] \in TreeAt(x, i)
  <2> DEFINE P == {i \in 1 .. N : at[i] \in TreeAt(x, i)}
  <2>1. \A i \in 1 .. N : (\A k \in i + 1 .. N : k \in P) => i \in P
    BY <1>22
  <2> HIDE DEF P
  <2>2. \A i \in 1 .. N : i \in P
    BY <2>1, Places
  <2> QED BY <2>2 DEF P
<1>24. DOMAIN at = 1 .. Len(x) + 1 /\ \A i \in 1 .. Len(x) + 1 : at[i] \in TreeAt(x, i) /\ at[i] = parsed_at(x, i, at)
  BY <1>1, <1>2, <1>20, <1>23
<1> QED BY <1>21, <1>24

-----------------------------------------------------------------------------
(* Requests are parsed as they are meant *)

\* The parts of a request that is well written.
LEMMA WrittenFacts ==
  ASSUME NEW r, WellWritten(r)
  PROVE  /\ Small(r.text) /\ r.text \in Seq(Tokens) /\ Len(r.text) \in Nat
         /\ \A i \in DOMAIN r.keys :
              /\ i \in 1 .. Len(r.text) /\ i \in 1 .. Len(r.text) + 1 /\ i \in Nat \ {0}
              /\ r.keys[i].k \in Kinds /\ r.keys[i].ranges \in Seq(Spans) /\ r.keys[i].parts \in Seq(DOMAIN r.keys)
              /\ r.keys[i].end \in i + 1 .. Len(r.text) + 1 /\ WrittenKey(r, i)
              /\ Kind(r.text, r.keys[i].end) \in {"blank", ")", "end"}
<1>1. r.text \in Seq(Tokens) /\ DOMAIN r.text = 1 .. Len(r.text) /\ Len(r.text) \in Nat
  <2>1. r.text \in Seq(Tokens)
    BY DEF WellWritten
  <2> QED BY <2>1, SeqDomain
<1>2. Small(r.text)
  BY <1>1 DEF WellWritten, Small
<1>3. ASSUME NEW i \in DOMAIN r.keys
      PROVE  /\ i \in 1 .. Len(r.text)
             /\ r.keys[i].k \in Kinds /\ r.keys[i].ranges \in Seq(Spans) /\ r.keys[i].parts \in Seq(DOMAIN r.keys)
             /\ r.keys[i].end \in i + 1 .. Len(r.text) + 1 /\ WrittenKey(r, i)
             /\ Kind(r.text, r.keys[i].end) \in {"blank", ")", "end"}
  <2>1. i \in 1 .. Len(r.text)
    BY <1>1, <1>3 DEF WellWritten
  <2>2. /\ r.keys[i] \in [k : Kinds, ranges : Seq(Spans), parts : Seq(DOMAIN r.keys), end : i + 1 .. Len(r.text) + 1]
        /\ WrittenKey(r, i) /\ Kind(r.text, r.keys[i].end) \in {"blank", ")", "end"}
    BY <1>3 DEF WellWritten
  <2>3. \A K, S, T, U : \A e \in [k : K, ranges : S, parts : T, end : U] :
          e.k \in K /\ e.ranges \in S /\ e.parts \in T /\ e.end \in U
    OBVIOUS
  <2> QED BY <2>1, <2>2, <2>3
<1>4. \A i \in 1 .. Len(r.text) : i \in 1 .. Len(r.text) + 1 /\ i \in Nat \ {0}
  BY <1>1
<1> QED BY <1>1, <1>2, <1>3, <1>4

\* How the text of a set begins.
LEMMA SetTextStart ==
  ASSUME NEW ranges \in Seq(Spans), ranges # <<>>
  PROVE  /\ SetText(ranges) \in Seq(Tokens) /\ Len(SetText(ranges)) \in Nat \ {0} /\ SetText(ranges)[1].t = "number"
         /\ Len(ranges) = 1 => SetText(ranges) = RangeText(ranges[1])
         /\ Len(ranges) # 1 => HasComma(SetText(ranges))
<1>1. PICK text \in [1 .. Len(ranges) -> Seq(Tokens)] :
        SetText(ranges) = text[1] /\ \A j \in 1 .. Len(ranges) : text[j] = JoinText(ranges, j, text)
  BY SetTextFacts
<1>2. PICK L \in Nat \ {0} : L = Len(ranges)
  OBVIOUS
<1>3. 1 \in 1 .. L /\ (L # 1 => 2 \in 1 .. L)
  BY <1>2
<1>4. PICK a : a = RangeText(ranges[1])
  OBVIOUS
<1>5. a \in Seq(Tokens) /\ Len(a) \in Nat \ {0} /\ a[1].t = "number"
  <2>1. ranges[1] \in Spans
    BY <1>2, <1>3
  <2>2. a \in Seq(Tokens)
    BY <1>4, <2>1, RangeTextType
  <2>3. Len(a) \in {1, 3} /\ a[1].t = "number"
    BY <1>4 DEF RangeText, Number, Token
  <2> QED BY <2>2, <2>3
<1>6. text[1] = JoinText(ranges, 1, text)
  BY <1>1, <1>2, <1>3
<1>7. CASE L = 1
  <2>1. text[1] = a \o <<>>
    BY <1>2, <1>4, <1>6, <1>7 DEF JoinText
  <2>2. text[1] = a
    BY <1>5, <2>1
  <2> QED BY <1>1, <1>2, <1>4, <1>5, <1>7, <2>2
<1>8. CASE L # 1
  <2>1. PICK b : b = text[2]
    OBVIOUS
  <2>2. b \in Seq(Tokens)
    BY <1>1, <1>2, <1>3, <1>8, <2>1
  <2>3. text[1] = Joined(a, b)
    <3>1. 1 + 1 = 2
      OBVIOUS
    <3> QED BY <1>2, <1>4, <1>6, <1>8, <2>1, <3>1 DEF JoinText, Joined
  <2>4. PICK x : x = text[1]
    OBVIOUS
  <2>5. x \in Seq(Tokens) /\ Len(x) = Len(a) + 1 + Len(b) /\ Len(b) \in Nat
        /\ (\A i \in 1 .. Len(a) : x[i] = a[i]) /\ x[Len(a) + 1] = Word("comma")
    <3>1. x = Joined(a, b) /\ a \in Seq(Tokens) /\ Len(b) \in Nat
      BY <1>5, <2>2, <2>3, <2>4
    <3> QED BY <2>2, <3>1, JoinedTokens
  <2>6. Len(a) + 1 \in 1 .. Len(x) /\ 1 \in 1 .. Len(a) /\ Len(x) \in Nat \ {0}
    BY <1>5, <2>5
  <2>7. HasComma(x)
    BY <2>5, <2>6, SeqDomain, CommaType DEF HasComma, Occurs
  <2>8. x[1].t = "number"
    BY <1>5, <2>5, <2>6
  <2> QED BY <1>1, <1>2, <1>8, <2>4, <2>5, <2>6, <2>7, <2>8
<1> QED BY <1>7, <1>8

\* A set as it stands in a text.
LEMMA WrittenSetFacts ==
  ASSUME NEW x \in Seq(Tokens), NEW i \in Nat \ {0}, NEW end \in Nat, end <= Len(x) + 1,
         NEW ranges \in Seq(Spans), WrittenSet(x, i, ranges, end)
  PROVE  /\ i \in 1 .. Len(x) /\ Kind(x, i) = "number" /\ end - i = Len(SetText(ranges))
         /\ \A k \in 1 .. end - i : x[i + k - 1] = SetText(ranges)[k] /\ i + k - 1 \in 1 .. Len(x)
<1>1. ranges # <<>> /\ i <= end /\ SubSeq(x, i, end - 1) = SetText(ranges)
  BY DEF WrittenSet
<1>2. PICK s : s = SetText(ranges)
  OBVIOUS
<1>3. s \in Seq(Tokens) /\ Len(s) \in Nat \ {0} /\ s[1].t = "number"
  BY <1>1, <1>2, SetTextStart
<1>4. Len(x) \in Nat /\ end - 1 \in Int /\ i \in Int
  OBVIOUS
<1>5. \A k \in i .. end - 1 : k \in 1 .. Len(x)
  BY <1>4
<1>6. \A k \in i .. end - 1 : x[k] \in Tokens
  BY <1>5, ElementType
<1>7. /\ Len(s) = IF i <= end - 1 THEN (end - 1) - i + 1 ELSE 0
      /\ \A k \in 1 .. (end - 1) - i + 1 : s[k] = x[i + k - 1]
  <2>1. s = SubSeq(x, i, end - 1)
    BY <1>1, <1>2
  <2> QED BY <1>4, <1>6, <2>1, SubSeqProperties
<1>8. i <= end - 1 /\ Len(s) = end - i /\ (end - 1) - i + 1 = end - i
  BY <1>3, <1>4, <1>7
<1>9. \A k \in 1 .. end - i : x[i + k - 1] = s[k]
  BY <1>7, <1>8
<1>10. \A k \in 1 .. end - i : i + k - 1 \in 1 .. Len(x)
  BY <1>4
<1>11. i \in 1 .. Len(x) /\ x[i].t = "number"
  <2>1. 1 \in 1 .. end - i /\ i + 1 - 1 = i
    BY <1>4, <1>8
  <2>2. i + 1 - 1 \in 1 .. Len(x) /\ x[i + 1 - 1] = s[1]
    BY <1>9, <1>10, <2>1
  <2> QED BY <1>3, <2>1, <2>2
<1>12. Kind(x, i) = "number"
  BY <1>4, <1>11, KindFacts
<1> QED BY <1>2, <1>8, <1>9, <1>10, <1>11, <1>12

\* A set of one range is parsed as this range, up to its end.
LEMMA OneRangeParsed ==
  ASSUME NEW x, Small(x), NEW i \in Nat \ {0}, NEW end \in Nat, end <= Len(x) + 1,
         NEW ranges \in Seq(Spans), WrittenSet(x, i, ranges, end), ~HasComma(x),
         Kind(x, end) \in {"blank", ")", "end"}
  PROVE  /\ Len(ranges) = 1 /\ parse_selected_range_inner(x, i) = Ok(ranges[1], end)
<1>1. x \in Seq(Tokens) /\ Len(x) \in Nat /\ i \in Int /\ end \in Int
  BY DEF Small
<1>2. /\ i \in 1 .. Len(x) /\ Kind(x, i) = "number" /\ end - i = Len(SetText(ranges))
      /\ \A k \in 1 .. end - i : x[i + k - 1] = SetText(ranges)[k] /\ i + k - 1 \in 1 .. Len(x)
  BY <1>1, WrittenSetFacts
<1>3. PICK s : s = SetText(ranges)
  OBVIOUS
<1>4. /\ s \in Seq(Tokens) /\ Len(s) \in Nat
      /\ Len(ranges) = 1 => s = RangeText(ranges[1])
      /\ Len(ranges) # 1 => HasComma(s)
  <2>1. ranges # <<>>
    BY DEF WrittenSet
  <2> QED BY <1>3, <2>1, SetTextStart
<1>5. ~HasComma(s)
  <2> SUFFICES ASSUME HasComma(s) PROVE HasComma(x)
    OBVIOUS
  <2>1. DOMAIN s = 1 .. Len(s) /\ DOMAIN x = 1 .. Len(x)
    BY <1>1, <1>4, SeqDomain
  <2>2. PICK k \in 1 .. Len(s) : s[k].t = "comma"
    BY <2>1 DEF HasComma, Occurs
  <2>3. x[i + k - 1].t = "comma" /\ i + k - 1 \in 1 .. Len(x)
    BY <1>2, <1>3, <2>2
  <2> QED BY <2>1, <2>3 DEF HasComma, Occurs
<1>6. PICK q : q = ranges[1]
  OBVIOUS
<1>7. Len(ranges) = 1 /\ s = RangeText(q) /\ q \in Spans
  <2>1. Len(ranges) = 1
    BY <1>4, <1>5
  <2>2. 1 \in 1 .. Len(ranges)
    BY <2>1
  <2>3. q \in Spans
    BY <1>6, <2>2, ElementType
  <2> QED BY <1>4, <1>6, <2>1, <2>3
<1>8. q.lo \in 0 .. MaxNumber /\ q.hi \in 0 .. All /\ q = Span(q.lo, q.hi) /\ (q.hi # All => q.hi \in 0 .. MaxNumber)
  <2>1. q.lo \in 0 .. MaxNumber /\ q.hi \in 0 .. All /\ q = Span(q.lo, q.hi)
    BY <1>7 DEF Spans, Span
  <2>2. q.hi # All => q.hi \in 0 .. MaxNumber
    BY <2>1, NumberAssumption DEF All
  <2> QED BY <2>1, <2>2
<1>9. CASE q.lo = q.hi
  <2>1. s = <<Number(q.lo)>>
    BY <1>7, <1>9 DEF RangeText
  <2>2. Len(s) = 1 /\ s[1].n = q.lo
    BY <2>1 DEF Number, Token
  <2>3. end = i + 1 /\ 1 \in 1 .. end - i /\ i + 1 - 1 = i
    BY <1>1, <1>2, <1>3, <2>2
  <2>4. x[i].n = q.lo
    BY <1>2, <1>3, <2>2, <2>3
  <2>5. Kind(x, i + 1) # ":"
    BY <2>3
  <2>6. ~(x[i].n > MaxNumber)
    BY <1>8, <2>4, Within
  <2>7. parse_selected_range_inner(x, i) = Ok(Span(x[i].n, x[i].n), i + 1)
    BY <1>2, <2>5, <2>6 DEF parse_selected_range_inner
  <2>8. Span(x[i].n, x[i].n) = q
    BY <1>8, <1>9, <2>4
  <2> QED BY <1>6, <1>7, <2>3, <2>7, <2>8
<1>10. CASE q.lo # q.hi
  <2>1. s = <<Number(q.lo), Word(":"), IF q.hi = All THEN Word("*") ELSE Number(q.hi)>>
    BY <1>7, <1>10 DEF RangeText
  <2>2. Len(s) = 3 /\ s[1].n = q.lo /\ s[2].t = ":" /\ (q.hi = All => s[3].t = "*")
        /\ (q.hi # All => s[3].t = "number" /\ s[3].n = q.hi)
    BY <2>1 DEF Number, Word, Token
  <2>3. end = i + 3 /\ 1 \in 1 .. end - i /\ 2 \in 1 .. end - i /\ 3 \in 1 .. end - i
        /\ i + 1 - 1 = i /\ i + 2 - 1 = i + 1 /\ i + 3 - 1 = i + 2
    BY <1>1, <1>2, <1>3, <2>2
  <2>4. x[i] = s[1] /\ x[i + 1] = s[2] /\ x[i + 2] = s[3] /\ i + 1 \in 1 .. Len(x) /\ i + 2 \in 1 .. Len(x)
    BY <1>2, <1>3, <2>3
  <2>5. Kind(x, i + 1) = ":" /\ Look(x, i + 2) = s[3]
    <3>1. i + 1 \in Int /\ i + 2 \in Int
      BY <1>1
    <3> QED BY <1>1, <2>2, <2>4, <3>1, KindFacts
  <2>6. ~(x[i].n > MaxNumber) /\ (s[3].t = "number" => ~(s[3].n > MaxNumber))
    <3>1. ~(q.lo > MaxNumber) /\ (q.hi # All => ~(q.hi > MaxNumber))
      BY <1>8, Within
    <3>2. s[3].t = "number" => q.hi # All
      BY <2>2
    <3> QED BY <2>2, <2>4, <3>1, <3>2
  <2>7. parse_selected_range_inner(x, i) = Ok(Span(x[i].n, IF s[3].t = "*" THEN All ELSE s[3].n), i + 3)
    <3>1. s[3].t \in {"number", "*"}
      BY <2>2
    <3> QED BY <1>2, <2>5, <2>6, <3>1 DEF parse_selected_range_inner
  <2>8. (IF s[3].t = "*" THEN All ELSE s[3].n) = q.hi
    BY <2>2
  <2>9. parse_selected_range_inner(x, i) = Ok(Span(q.lo, q.hi), i + 3)
    BY <2>2, <2>4, <2>7, <2>8
  <2> QED BY <1>6, <1>7, <1>8, <2>3, <2>9
<1> QED BY <1>9, <1>10

\* What is parsed at a place is one step of the parser on what is parsed
\* later.
LEMMA TreeStep ==
  ASSUME NEW x, Small(x), NEW i \in 1 .. Len(x) + 1
  PROVE  /\ Parse(x)[i].key = search_key(x, i, Parse(x)) /\ Parse(x)[i].key \in KeyAt(x, i)
         /\ Parse(x)[i].list = separated_list1(x, i, Parse(x)[i].key, Parse(x)) /\ Parse(x)[i].list \in ListAt(x, i)
<1>1. Parse(x)[i] \in TreeAt(x, i) /\ Parse(x)[i] = parsed_at(x, i, Parse(x))
  BY ParsedTree
<1>2. PICK tree : tree = Parse(x)
  OBVIOUS
<1>3. PICK e : e = tree[i]
  OBVIOUS
<1>4. PICK key : key = search_key(x, i, tree)
  OBVIOUS
<1>5. e = [key |-> key, list |-> separated_list1(x, i, key, tree)]
  BY <1>1, <1>2, <1>3, <1>4 DEF parsed_at
<1>6. e.key = key /\ e.list = separated_list1(x, i, key, tree)
  BY <1>5
<1>7. e.key \in KeyAt(x, i) /\ e.list \in ListAt(x, i)
  <2>1. x \in Seq(Tokens)
    BY DEF Small
  <2> QED BY <1>1, <1>2, <1>3, <2>1, TreeAtFacts
<1> QED BY <1>2, <1>3, <1>4, <1>6, <1>7

\* A list of keys is not before the first.
LEMMA ListPlaces ==
  ASSUME NEW r, WellWritten(r), NEW list \in Seq(DOMAIN r.keys), NEW from, NEW to, Lists(r, list, from, to)
  PROVE  \A n \in 1 .. Len(list) : list[n] \in DOMAIN r.keys /\ list[n] \in Nat /\ list[n] >= from
<1>1. DOMAIN list = 1 .. Len(list) /\ Len(list) \in Nat \ {0} /\ list[1] = from
  <2>1. list # <<>>
    BY DEF Lists
  <2> QED BY <2>1, SeqDomain DEF Lists
<1>2. \A n \in 1 .. Len(list) : list[n] \in DOMAIN r.keys /\ list[n] \in Nat
  <2> SUFFICES ASSUME NEW n \in 1 .. Len(list) PROVE list[n] \in DOMAIN r.keys /\ list[n] \in Nat
    OBVIOUS
  <2>1. list[n] \in DOMAIN r.keys
    BY ElementType
  <2> QED BY <2>1, WrittenFacts
<1>3. PICK L \in Nat \ {0} : L = Len(list)
  BY <1>1
<1>4. ASSUME NEW n \in 1 .. L, n < L, list[n] >= from PROVE list[n + 1] >= from
  <2>1. n \in 1 .. Len(list) - 1 /\ n + 1 \in 1 .. Len(list) /\ n \in 1 .. Len(list)
    BY <1>3, <1>4
  <2>2. list[n + 1] = r.keys[list[n]].end + 1
    BY <2>1 DEF Lists
  <2>3. list[n] \in DOMAIN r.keys /\ list[n] \in Nat
    BY <1>2, <2>1
  <2>4. r.keys[list[n]].end \in list[n] + 1 .. Len(r.text) + 1 /\ Len(r.text) \in Nat
    BY <2>3, WrittenFacts
  <2>5. from \in Nat
    <3>1. 1 \in 1 .. Len(list)
      BY <1>1
    <3> QED BY <1>1, <1>2, <3>1
  <2> QED BY <1>4, <2>2, <2>3, <2>4, <2>5
<1>5. \A n \in 1 .. L : list[n] >= from
  <2> SUFFICES ASSUME NEW n \in 1 .. L PROVE list[n] >= from
    OBVIOUS
  <2> DEFINE T == {k \in Nat : k + 1 <= L => list[k + 1] >= from}
  <2>1. T \in SUBSET Nat /\ 0 \in T
    <3>1. from \in Nat /\ list[0 + 1] = from
      <4>1. 1 \in 1 .. Len(list)
        BY <1>1
      <4> QED BY <1>1, <1>2, <4>1
    <3> QED BY <3>1
  <2>2. ASSUME NEW k \in T, k < n - 1 PROVE k + 1 \in T
    <3>1. k + 1 \in 1 .. L /\ k + 1 < L
      BY <2>2
    <3>2. list[k + 1] >= from
      BY <3>1
    <3>3. list[(k + 1) + 1] >= from
      BY <1>4, <3>1, <3>2
    <3> QED BY <3>3
  <2>3. n - 1 \in Nat
    OBVIOUS
  <2>5. n - 1 \in T
    <3> HIDE DEF T
    <3> QED BY <2>1, <2>2, <2>3, Upward
  <2>6. (n - 1) + 1 = n /\ n <= L
    OBVIOUS
  <2> QED BY <2>5, <2>6
<1> QED BY <1>2, <1>3, <1>5

\* What the parser makes of a key is the key that is meant.
NodeMeant(p, key) ==
  /\ p.k = key.k
  /\ key.k \in {"UID", "Range"} => Len(key.ranges) = 1 /\ p.range = key.ranges[1]
  /\ key.k \in {"NOT", "OR", "AND"} => p.parts = key.parts
KeyMeant(r, i) ==
  LET e == Parse(r.text)[i].key
  IN e.is = "ok" /\ e.next = r.keys[i].end /\ NodeMeant(e.value, r.keys[i])

\* The parts of a parse that succeeds.
LEMMA OkIs == ASSUME NEW v, NEW n PROVE Ok(v, n).is = "ok" /\ Ok(v, n).value = v /\ Ok(v, n).next = n
BY DEF Ok

\* A list of keys that are meant is parsed as a whole.
LEMMA ListMeant ==
  ASSUME NEW r, WellWritten(r), NEW list \in Seq(DOMAIN r.keys), NEW from, NEW to, Lists(r, list, from, to),
         Kind(r.text, to) # "blank", \A n \in 1 .. Len(list) : KeyMeant(r, list[n])
  PROVE  Parse(r.text)[from].list = Ok(list, to)
<1>1. PICK x : x = r.text
  OBVIOUS
<1>2. PICK tree : tree = Parse(x)
  OBVIOUS
<1>3. PICK L \in Nat \ {0} : L = Len(list)
  BY DEF Lists
<1>4. \A n \in 1 .. L : list[n] \in DOMAIN r.keys /\ list[n] \in 1 .. Len(x) + 1
  BY <1>1, <1>3, ListPlaces, WrittenFacts
<1>5. Small(x)
  BY <1>1, WrittenFacts
<1>6. ASSUME NEW n \in 1 .. L
      PROVE  tree[list[n]].list = ListOf(list[n], tree[list[n]].key, Rest(x, tree, r.keys[list[n]].end))
             /\ tree[list[n]].key.next = r.keys[list[n]].end
  <2>1. PICK i : i = list[n]
    OBVIOUS
  <2>2. i \in 1 .. Len(x) + 1 /\ KeyMeant(r, i)
    BY <1>3, <1>4, <2>1
  <2>3. tree[i].list = separated_list1(x, i, tree[i].key, tree)
    BY <1>2, <1>5, <2>2, TreeStep
  <2>4. tree[i].key.is = "ok" /\ tree[i].key.next = r.keys[i].end
    BY <1>1, <1>2, <2>2 DEF KeyMeant
  <2> QED BY <2>1, <2>3, <2>4, ListIs
<1> DEFINE Good(n) == tree[list[n]].list = Ok(SubSeq(list, n, L), to)
<1>7. ASSUME NEW n \in 1 .. L, n < L => Good(n + 1) PROVE Good(n)
  <2>1. PICK i : i = list[n]
    OBVIOUS
  <2>2. CASE n = L
    <3>1. r.keys[i].end = to
      BY <1>3, <2>1, <2>2 DEF Lists
    <3>2. Rest(x, tree, to) = Fail
      BY <1>1 DEF Rest
    <3>3. Fail.is = "fail" /\ "fail" # "ok"
      BY DEF Fail
    <3>4. tree[i].list = Ok(<<i>>, to)
      BY <1>6, <2>1, <3>1, <3>2, <3>3 DEF ListOf
    <3>5. SubSeq(list, n, L) = <<i>>
      <4>1. n \in 1 .. Len(list) /\ L \in n .. Len(list)
        BY <1>3, <2>2
      <4>2. SubSeq(list, n, L) = <<list[n]>> \o SubSeq(list, n + 1, L)
        BY <4>1, SubSeqRecursiveFirst
      <4>3. n + 1 \in Int /\ L \in Int /\ L < n + 1
        BY <2>2
      <4>4. SubSeq(list, n + 1, L) = <<>>
        BY <4>3, SubSeqEmpty
      <4>5. \A a : <<a>> \o <<>> = <<a>>
        OBVIOUS
      <4> QED BY <2>1, <4>2, <4>4, <4>5
    <3> QED BY <2>1, <3>4, <3>5
  <2>3. CASE n # L
    <3>1. n < L /\ n \in 1 .. Len(list) - 1 /\ n \in 1 .. Len(list) /\ L \in n .. Len(list)
      BY <1>3, <2>3
    <3>2. PICK end : end = r.keys[i].end
      OBVIOUS
    <3>3. Kind(x, end) = "blank" /\ list[n + 1] = end + 1
      BY <1>1, <2>1, <3>1, <3>2 DEF Lists
    <3>4. PICK rest : rest = SubSeq(list, n + 1, L)
      OBVIOUS
    <3>5. Rest(x, tree, end) = Ok(rest, to)
      BY <1>7, <3>1, <3>3, <3>4 DEF Rest
    <3>6. tree[i].list = Ok(<<i>> \o rest, to)
      BY <1>6, <2>1, <3>2, <3>5, OkIs DEF ListOf
    <3>7. SubSeq(list, n, L) = <<list[n]>> \o rest
      BY <3>1, <3>4, SubSeqRecursiveFirst
    <3> QED BY <2>1, <3>6, <3>7
  <2> QED BY <2>2, <2>3
<1>8. \A n \in 1 .. L : Good(n)
  <2> DEFINE P == {n \in 1 .. L : Good(n)}
  <2>1. ASSUME NEW n \in 1 .. L, \A k \in n + 1 .. L : k \in P PROVE n \in P
    <3>1. n < L => n + 1 \in n + 1 .. L
      OBVIOUS
    <3> HIDE DEF Good
    <3>2. n < L => Good(n + 1)
      BY <2>1, <3>1
    <3> QED BY <1>7, <3>2
  <2> HIDE DEF P
  <2>2. \A n \in 1 .. L : n \in P
    BY <2>1, Places
  <2> QED BY <2>2 DEF P
<1>9. tree[list[1]].list = Ok(SubSeq(list, 1, L), to)
  <2>1. 1 \in 1 .. L
    BY <1>3
  <2> QED BY <1>8, <2>1
<1>10. list[1] = from /\ SubSeq(list, 1, L) = list
  BY <1>3, SubSeqFull DEF Lists
<1> QED BY <1>1, <1>2, <1>9, <1>10

\* A plain text has none of the tokens at which the parser stops.
LEMMA PlainFacts ==
  ASSUME NEW x \in Seq(Tokens), Plain(x)
  PROVE  /\ ~HasComma(x) /\ ~Occurs("rest", x) /\ ~Occurs("refused", x)
         /\ \A i \in Int : Kind(x, i) \notin {"comma", "rest", "refused"}
<1>1. ~HasComma(x) /\ ~Occurs("rest", x) /\ ~Occurs("refused", x)
  BY DEF Plain, HasComma, Occurs
<1>2. \A i \in 1 .. Len(x) : x[i].t \notin {"comma", "rest", "refused"}
  BY SeqDomain DEF Plain
<1>3. \A i \in Int : Kind(x, i) \notin {"comma", "rest", "refused"}
  <2> SUFFICES ASSUME NEW i \in Int PROVE Kind(x, i) \notin {"comma", "rest", "refused"}
    OBVIOUS
  <2>1. CASE i \in 1 .. Len(x)
    <3>1. Kind(x, i) = x[i].t
      BY <2>1, KindFacts
    <3> QED BY <1>2, <2>1, <3>1
  <2>2. CASE i \notin 1 .. Len(x)
    <3>1. Kind(x, i) = "end"
      BY <2>2, KindFacts
    <3> QED BY <3>1
  <2> QED BY <2>1, <2>2
<1> QED BY <1>1, <1>3

\* A key that is not refused is written so that the parser takes it.
Taken(x, i) == Kind(x, i) # "refused"

\* Which alternative a key is written in.
LEMMA WrittenKinds ==
  ASSUME NEW r, NEW i, WrittenKey(r, i)
  PROVE  /\ r.keys[i].k = "UID" /\ Taken(r.text, i) =>
              /\ Kind(r.text, i) = "UID" /\ Kind(r.text, i + 1) = "blank"
              /\ WrittenSet(r.text, i + 2, r.keys[i].ranges, r.keys[i].end)
         /\ r.keys[i].k = "Range" /\ Taken(r.text, i) => WrittenSet(r.text, i, r.keys[i].ranges, r.keys[i].end)
         /\ r.keys[i].k = "NOT" => /\ Kind(r.text, i) = "NOT" /\ Kind(r.text, i + 1) = "blank"
                                   /\ Lists(r, r.keys[i].parts, i + 2, r.keys[i].end) /\ Len(r.keys[i].parts) = 1
         /\ r.keys[i].k = "OR" => /\ Kind(r.text, i) = "OR" /\ Kind(r.text, i + 1) = "blank"
                                  /\ Lists(r, r.keys[i].parts, i + 2, r.keys[i].end) /\ Len(r.keys[i].parts) = 2
         /\ r.keys[i].k = "AND" => /\ Kind(r.text, i) = "(" /\ Lists(r, r.keys[i].parts, i + 1, r.keys[i].end - 1)
                                   /\ Kind(r.text, r.keys[i].end - 1) = ")"
         /\ r.keys[i].k \in Leaves /\ Taken(r.text, i) =>
              /\ Kind(r.text, i) = r.keys[i].k
              /\ Kind(r.text, i + 1) # "rest" => r.keys[i].end = i + 1
         /\ r.keys[i].k \in {"UID", "Range", "NOT", "OR", "AND"} \cup Leaves
<1>1. Worded \subseteq Leaves /\ \A k \in {"UID", "Range", "NOT", "OR", "AND"} : k \notin Leaves /\ k \notin Worded
  BY DEF Leaves, Worded
<1> QED BY <1>1 DEF WrittenKey, Taken

\* A range is parsed as it is meant.
LEMMA MeantRanged ==
  ASSUME NEW r, WellWritten(r), Plain(r.text), NEW i \in DOMAIN r.keys, r.keys[i].k \in {"UID", "Range"}
  PROVE  KeyMeant(r, i)
<1>1. PICK x : x = r.text
  OBVIOUS
<1>2. PICK key : key = r.keys[i]
  OBVIOUS
<1>3. /\ Small(x) /\ x \in Seq(Tokens) /\ Len(x) \in Nat /\ i \in 1 .. Len(x) + 1 /\ i \in Nat \ {0}
      /\ key.ranges \in Seq(Spans) /\ key.end \in i + 1 .. Len(x) + 1 /\ WrittenKey(r, i)
      /\ Kind(x, key.end) \in {"blank", ")", "end"}
  BY <1>1, <1>2, WrittenFacts
<1>4. key.end \in Nat /\ key.end <= Len(x) + 1 /\ Taken(x, i) /\ ~HasComma(x)
  <2>1. Kind(x, i) # "refused" /\ ~HasComma(x)
    BY <1>1, <1>3, PlainFacts
  <2> QED BY <1>3, <2>1 DEF Taken
<1>5. PICK j \in Nat \ {0} :
        /\ WrittenSet(x, j, key.ranges, key.end)
        /\ search_key(x, i, Parse(x)) = RangedKey(key.k, parse_selected_range_inner(x, j))
  <2>1. CASE key.k = "UID"
    <3>1. Kind(x, i) = "UID" /\ Kind(x, i + 1) = "blank" /\ WrittenSet(x, i + 2, key.ranges, key.end)
      BY <1>1, <1>2, <1>3, <1>4, <2>1, WrittenKinds
    <3>2. search_key(x, i, Parse(x)) = RangedKey("UID", parse_selected_range_inner(x, i + 2))
      BY <3>1, SearchKeyIs
    <3>3. i + 2 \in Nat \ {0}
      BY <1>3
    <3> QED BY <2>1, <3>1, <3>2, <3>3
  <2>2. CASE key.k = "Range"
    <3>1. WrittenSet(x, i, key.ranges, key.end)
      BY <1>1, <1>2, <1>3, <1>4, <2>2, WrittenKinds
    <3>2. Kind(x, i) = "number"
      BY <1>3, <1>4, <3>1, WrittenSetFacts
    <3>3. search_key(x, i, Parse(x)) = RangedKey("Range", parse_selected_range_inner(x, i))
      BY <3>2, SearchKeyIs
    <3> QED BY <1>3, <2>2, <3>1, <3>3
  <2> QED BY <1>2, <2>1, <2>2
<1>6. Len(key.ranges) = 1 /\ parse_selected_range_inner(x, j) = Ok(key.ranges[1], key.end)
  BY <1>1, <1>3, <1>4, <1>5, OneRangeParsed
<1>7. search_key(x, i, Parse(x)) = Ok(Ranged(key.k, key.ranges[1]), key.end)
  BY <1>5, <1>6, OkIs DEF RangedKey
<1>8. Parse(x)[i].key = Ok(Ranged(key.k, key.ranges[1]), key.end)
  BY <1>3, <1>7, TreeStep
<1>9. PICK p : p = Ranged(key.k, key.ranges[1])
  OBVIOUS
<1>10. p.k = key.k /\ p.range = key.ranges[1]
  BY <1>9 DEF Ranged
<1>11. NodeMeant(p, key)
  BY <1>2, <1>6, <1>10 DEF NodeMeant
<1> QED BY <1>1, <1>2, <1>8, <1>9, <1>11, OkIs DEF KeyMeant

\* So is a key that is one token.
LEMMA MeantLeaf ==
  ASSUME NEW r, WellWritten(r), Plain(r.text), NEW i \in DOMAIN r.keys, r.keys[i].k \in Leaves
  PROVE  KeyMeant(r, i)
<1>1. PICK x : x = r.text
  OBVIOUS
<1>2. PICK key : key = r.keys[i]
  OBVIOUS
<1>3. Small(x) /\ x \in Seq(Tokens) /\ i \in 1 .. Len(x) /\ i \in 1 .. Len(x) + 1 /\ WrittenKey(r, i)
  BY <1>1, <1>2, WrittenFacts
<1>4. Kind(x, i) = key.k /\ key.end = i + 1
  <2>1. i \in Int /\ i + 1 \in Int
    BY <1>3
  <2>2. Kind(x, i) # "refused" /\ Kind(x, i + 1) # "rest"
    BY <1>1, <1>3, <2>1, PlainFacts
  <2> QED BY <1>1, <1>2, <1>3, <2>2, WrittenKinds DEF Taken
<1>5. search_key(x, i, Parse(x)) = Ok(Simple(x[i]), i + 1)
  BY <1>2, <1>4, SearchKeyIs
<1>6. Parse(x)[i].key = Ok(Simple(x[i]), key.end)
  BY <1>3, <1>4, <1>5, TreeStep
<1>7. Simple(x[i]).k = key.k
  <2>1. i \in Int
    BY WrittenFacts
  <2> QED BY <1>3, <1>4, <2>1, KindFacts DEF Simple
<1>8. key.k \notin {"UID", "Range", "NOT", "OR", "AND"}
  BY <1>2 DEF Leaves
<1>9. NodeMeant(Simple(x[i]), key)
  BY <1>7, <1>8 DEF NodeMeant
<1> QED BY <1>1, <1>2, <1>6, <1>9, OkIs DEF KeyMeant

\* So is NOT, when the keys behind it are.
LEMMA MeantNot ==
  ASSUME NEW r, WellWritten(r), NEW i \in DOMAIN r.keys, r.keys[i].k = "NOT",
         \A k \in DOMAIN r.keys : k > i => KeyMeant(r, k)
  PROVE  KeyMeant(r, i)
<1>1. PICK x : x = r.text
  OBVIOUS
<1>2. PICK key : key = r.keys[i]
  OBVIOUS
<1>3. /\ Small(x) /\ i \in 1 .. Len(x) + 1 /\ i \in Nat \ {0}
      /\ key.parts \in Seq(DOMAIN r.keys) /\ WrittenKey(r, i)
  BY <1>1, <1>2, WrittenFacts
<1>4. Kind(x, i) = "NOT" /\ Kind(x, i + 1) = "blank" /\ Lists(r, key.parts, i + 2, key.end) /\ Len(key.parts) = 1
  BY <1>1, <1>2, <1>3, WrittenKinds
<1>5. key.parts[1] = i + 2 /\ r.keys[i + 2].end = key.end /\ i + 2 \in DOMAIN r.keys
  <2>1. 1 \in 1 .. Len(key.parts)
    BY <1>4
  <2>2. key.parts[1] \in DOMAIN r.keys
    BY <1>3, <2>1, ElementType
  <2> QED BY <1>4, <2>2 DEF Lists
<1>6. KeyMeant(r, i + 2)
  <2>1. i + 2 > i
    BY <1>3
  <2> QED BY <1>5, <2>1
<1>7. PICK first : first = Parse(x)[i + 2].key
  OBVIOUS
<1>8. first.is = "ok" /\ first.next = key.end
  BY <1>1, <1>5, <1>6, <1>7 DEF KeyMeant
<1>9. search_key(x, i, Parse(x)) = NotKey(i, first)
  BY <1>4, <1>7, SearchKeyIs
<1>10. key.parts = <<i + 2>>
  <2>1. \A S : \A s \in Seq(S) : Len(s) = 1 => s = <<s[1]>>
    OBVIOUS
  <2> QED BY <1>3, <1>4, <1>5, <2>1
<1>11. Parse(x)[i].key = Ok(Around("NOT", key.parts), key.end)
  BY <1>3, <1>8, <1>9, <1>10, TreeStep DEF NotKey
<1>12. NodeMeant(Around("NOT", key.parts), key)
  BY <1>2 DEF NodeMeant, Around
<1> QED BY <1>1, <1>2, <1>11, <1>12, OkIs DEF KeyMeant

\* So is OR, when the keys behind it are.
LEMMA MeantOr ==
  ASSUME NEW r, WellWritten(r), NEW i \in DOMAIN r.keys, r.keys[i].k = "OR",
         \A k \in DOMAIN r.keys : k > i => KeyMeant(r, k)
  PROVE  KeyMeant(r, i)
<1>1. PICK x : x = r.text
  OBVIOUS
<1>2. PICK key : key = r.keys[i]
  OBVIOUS
<1>3. /\ Small(x) /\ i \in 1 .. Len(x) + 1 /\ i \in Nat \ {0} /\ Len(x) \in Nat
      /\ key.parts \in Seq(DOMAIN r.keys) /\ WrittenKey(r, i)
  BY <1>1, <1>2, WrittenFacts
<1>4. Kind(x, i) = "OR" /\ Kind(x, i + 1) = "blank" /\ Lists(r, key.parts, i + 2, key.end) /\ Len(key.parts) = 2
  BY <1>1, <1>2, <1>3, WrittenKinds
<1>5. PICK end : end = r.keys[i + 2].end
  OBVIOUS
<1>6. /\ key.parts[1] = i + 2 /\ i + 2 \in DOMAIN r.keys
      /\ Kind(x, end) = "blank" /\ key.parts[2] = end + 1
      /\ r.keys[end + 1].end = key.end /\ end + 1 \in DOMAIN r.keys
  <2>1. 1 \in 1 .. Len(key.parts) /\ 2 \in 1 .. Len(key.parts) /\ 1 \in 1 .. Len(key.parts) - 1 /\ 1 + 1 = 2
    BY <1>4
  <2>2. key.parts[1] \in DOMAIN r.keys /\ key.parts[2] \in DOMAIN r.keys
    BY <1>3, <2>1, ElementType
  <2>3. key.parts[1] = i + 2 /\ r.keys[key.parts[2]].end = key.end
    BY <1>4 DEF Lists
  <2>4. Kind(x, end) = "blank" /\ key.parts[1 + 1] = end + 1
    BY <1>1, <1>4, <1>5, <2>1, <2>3 DEF Lists
  <2> QED BY <2>1, <2>2, <2>3, <2>4
<1>7. KeyMeant(r, i + 2) /\ KeyMeant(r, end + 1)
  <2>1. i + 2 > i
    BY <1>3
  <2>2. end \in (i + 2) + 1 .. Len(x) + 1
    BY <1>1, <1>5, <1>6, WrittenFacts
  <2>3. end + 1 > i
    BY <1>3, <2>2
  <2> QED BY <1>6, <2>1, <2>3
<1>8. PICK first : first = Parse(x)[i + 2].key
  OBVIOUS
<1>9. PICK second : second = Parse(x)[end + 1].key
  OBVIOUS
<1>10. first.is = "ok" /\ first.next = end /\ second.is = "ok" /\ second.next = key.end
  BY <1>1, <1>5, <1>6, <1>7, <1>8, <1>9 DEF KeyMeant
<1>11. search_key(x, i, Parse(x)) = OrKey(i, first, second)
  <2>1. Second(x, Parse(x), end) = second
    BY <1>6, <1>9 DEF Second
  <2> QED BY <1>4, <1>8, <1>10, <2>1, SearchKeyIs
<1>12. key.parts = <<i + 2, end + 1>>
  <2>1. \A S : \A s \in Seq(S) : Len(s) = 2 => s = <<s[1], s[2]>>
    OBVIOUS
  <2> QED BY <1>3, <1>4, <1>6, <2>1
<1>13. Parse(x)[i].key = Ok(Around("OR", key.parts), key.end)
  BY <1>3, <1>10, <1>11, <1>12, TreeStep DEF OrKey
<1>14. NodeMeant(Around("OR", key.parts), key)
  BY <1>2 DEF NodeMeant, Around
<1> QED BY <1>1, <1>2, <1>13, <1>14, OkIs DEF KeyMeant

\* So is a list in parentheses, when the keys behind its beginning are.
LEMMA MeantAnd ==
  ASSUME NEW r, WellWritten(r), NEW i \in DOMAIN r.keys, r.keys[i].k = "AND",
         \A k \in DOMAIN r.keys : k > i => KeyMeant(r, k)
  PROVE  KeyMeant(r, i)
<1>1. PICK x : x = r.text
  OBVIOUS
<1>2. PICK key : key = r.keys[i]
  OBVIOUS
<1>3. /\ Small(x) /\ i \in 1 .. Len(x) + 1 /\ i \in Nat \ {0} /\ Len(x) \in Nat
      /\ key.parts \in Seq(DOMAIN r.keys) /\ WrittenKey(r, i) /\ key.end \in i + 1 .. Len(x) + 1
  BY <1>1, <1>2, WrittenFacts
<1>4. Kind(x, i) = "(" /\ Lists(r, key.parts, i + 1, key.end - 1) /\ Kind(x, key.end - 1) = ")"
  BY <1>1, <1>2, <1>3, WrittenKinds
<1>5. \A n \in 1 .. Len(key.parts) : KeyMeant(r, key.parts[n])
  <2> SUFFICES ASSUME NEW n \in 1 .. Len(key.parts) PROVE KeyMeant(r, key.parts[n])
    OBVIOUS
  <2>1. key.parts[n] \in DOMAIN r.keys /\ key.parts[n] \in Nat /\ key.parts[n] >= i + 1
    BY <1>3, <1>4, ListPlaces
  <2>2. key.parts[n] > i
    BY <1>3, <2>1
  <2> QED BY <2>1, <2>2
<1>6. PICK inside : inside = Parse(x)[i + 1].list
  OBVIOUS
<1>7. inside = Ok(key.parts, key.end - 1)
  <2>1. Kind(x, key.end - 1) # "blank"
    BY <1>4
  <2> QED BY <1>1, <1>3, <1>4, <1>5, <1>6, <2>1, ListMeant
<1>8. search_key(x, i, Parse(x)) = AndKey(x, inside)
  BY <1>4, <1>6, SearchKeyIs
<1>9. AndKey(x, inside) = Ok(Around("AND", key.parts), (key.end - 1) + 1)
  BY <1>4, <1>7, OkIs DEF AndKey
<1>10. (key.end - 1) + 1 = key.end
  BY <1>3
<1>11. Parse(x)[i].key = Ok(Around("AND", key.parts), key.end)
  BY <1>3, <1>8, <1>9, <1>10, TreeStep
<1>12. NodeMeant(Around("AND", key.parts), key)
  BY <1>2 DEF NodeMeant, Around
<1> QED BY <1>1, <1>2, <1>11, <1>12, OkIs DEF KeyMeant

\* In a plain text every key is parsed as it is meant.
LEMMA KeysMeant ==
  ASSUME NEW r, WellWritten(r), Plain(r.text)
  PROVE  \A i \in DOMAIN r.keys : KeyMeant(r, i)
<1>1. PICK N \in Nat : N = Len(r.text)
  BY WrittenFacts
<1>2. PICK P : P = {i \in 1 .. N : i \in DOMAIN r.keys => KeyMeant(r, i)}
  OBVIOUS
<1>3. \A i \in DOMAIN r.keys : i \in 1 .. N
  BY <1>1, WrittenFacts
<1>4. ASSUME NEW i \in 1 .. N, \A k \in i + 1 .. N : k \in P PROVE i \in P
  <2> SUFFICES ASSUME i \in DOMAIN r.keys PROVE KeyMeant(r, i)
    BY <1>2
  <2>1. \A k \in DOMAIN r.keys : k > i => KeyMeant(r, k)
    <3> SUFFICES ASSUME NEW k \in DOMAIN r.keys, k > i PROVE KeyMeant(r, k)
      OBVIOUS
    <3>1. k \in i + 1 .. N
      BY <1>3
    <3> QED BY <1>2, <1>4, <3>1
  <2>2. r.keys[i].k \in {"UID", "Range", "NOT", "OR", "AND"} \cup Leaves
    <3>1. WrittenKey(r, i)
      BY WrittenFacts
    <3> QED BY <3>1, WrittenKinds
  <2> QED BY <2>1, <2>2, MeantRanged, MeantLeaf, MeantNot, MeantOr, MeantAnd
<1>5. \A i \in 1 .. N : i \in P
  BY <1>4, Places
<1> QED BY <1>2, <1>3, <1>5

\* Without parentheses and OR every key is parsed, also up to a comma or a rest.
LEMMA KeysParsed ==
  ASSUME NEW r, WellWritten(r), ~Occurs("(", r.text), ~Occurs("OR", r.text), ~Occurs("refused", r.text)
  PROVE  \A i \in DOMAIN r.keys : Parse(r.text)[i].key.is = "ok"
<1>1. PICK x : x = r.text
  OBVIOUS
<1>2. PICK N \in Nat : N = Len(x)
  BY <1>1, WrittenFacts
<1>3. PICK P : P = {i \in 1 .. N : i \in DOMAIN r.keys => Parse(x)[i].key.is = "ok"}
  OBVIOUS
<1>4. \A i \in DOMAIN r.keys : i \in 1 .. N
  BY <1>1, <1>2, WrittenFacts
<1>5. ASSUME NEW i \in 1 .. N, \A k \in i + 1 .. N : k \in P PROVE i \in P
  <2> SUFFICES ASSUME i \in DOMAIN r.keys PROVE Parse(x)[i].key.is = "ok"
    BY <1>3
  <2>1. PICK key : key = r.keys[i]
    OBVIOUS
  <2>2. /\ Small(x) /\ x \in Seq(Tokens) /\ Len(x) \in Nat /\ i \in 1 .. Len(x) + 1 /\ i \in Nat \ {0} /\ i \in 1 .. Len(x)
        /\ key.ranges \in Seq(Spans) /\ key.end \in i + 1 .. Len(x) + 1 /\ WrittenKey(r, i)
        /\ key.parts \in Seq(DOMAIN r.keys)
    BY <1>1, <2>1, WrittenFacts
  <2>3. key.end \in Nat /\ key.end <= Len(x) + 1 /\ i + 2 \in Nat \ {0} /\ Taken(x, i)
    <3>1. DOMAIN x = 1 .. Len(x) /\ i \in Int
      BY <2>2, SeqDomain
    <3>2. Kind(x, i) = x[i].t
      BY <2>2, <3>1, KindFacts
    <3>3. x[i].t # "refused"
      BY <1>1, <2>2, <3>1 DEF Occurs
    <3>4. Kind(x, i) # "refused"
      BY <3>2, <3>3
    <3> QED BY <2>2, <3>4 DEF Taken
  <2>4. Parse(x)[i].key = search_key(x, i, Parse(x))
    BY <2>2, TreeStep
  <2>5. key.k \in {"UID", "Range", "NOT", "OR", "AND"} \cup Leaves
    BY <1>1, <2>1, <2>2, WrittenKinds
  <2>6. CASE key.k = "UID"
    <3>1. Kind(x, i) = "UID" /\ Kind(x, i + 1) = "blank" /\ WrittenSet(x, i + 2, key.ranges, key.end)
      BY <1>1, <2>1, <2>2, <2>3, <2>6, WrittenKinds
    <3>2. Kind(x, i + 2) = "number" /\ i + 2 \in 1 .. Len(x)
      BY <2>2, <2>3, <3>1, WrittenSetFacts
    <3>3. i + 2 \in 1 .. Len(x) + 1
      BY <2>2, <3>2
    <3>4. parse_selected_range_inner(x, i + 2).is = "ok"
      BY <2>2, <3>2, <3>3, NoPanic
    <3>5. search_key(x, i, Parse(x)) = RangedKey("UID", parse_selected_range_inner(x, i + 2))
      BY <3>1, SearchKeyIs
    <3> QED BY <2>4, <3>4, <3>5, OkIs DEF RangedKey
  <2>7. CASE key.k = "Range"
    <3>1. WrittenSet(x, i, key.ranges, key.end)
      BY <1>1, <2>1, <2>2, <2>3, <2>7, WrittenKinds
    <3>2. Kind(x, i) = "number"
      BY <2>2, <2>3, <3>1, WrittenSetFacts
    <3>3. parse_selected_range_inner(x, i).is = "ok"
      BY <2>2, <3>2, NoPanic
    <3>4. search_key(x, i, Parse(x)) = RangedKey("Range", parse_selected_range_inner(x, i))
      BY <3>2, SearchKeyIs
    <3> QED BY <2>4, <3>3, <3>4, OkIs DEF RangedKey
  <2>8. CASE key.k = "NOT"
    <3>1. Kind(x, i) = "NOT" /\ Kind(x, i + 1) = "blank" /\ Lists(r, key.parts, i + 2, key.end) /\ Len(key.parts) = 1
      BY <1>1, <2>1, <2>2, <2>8, WrittenKinds
    <3>2. i + 2 \in DOMAIN r.keys
      <4>1. 1 \in 1 .. Len(key.parts) /\ key.parts[1] = i + 2
        BY <3>1 DEF Lists
      <4> QED BY <2>2, <4>1, ElementType
    <3>3. i + 2 \in i + 1 .. N
      BY <1>4, <3>2
    <3>4. Parse(x)[i + 2].key.is = "ok"
      BY <1>3, <1>5, <3>2, <3>3
    <3>5. search_key(x, i, Parse(x)) = NotKey(i, Parse(x)[i + 2].key)
      BY <3>1, SearchKeyIs
    <3> QED BY <2>4, <3>4, <3>5, OkIs DEF NotKey
  <2>9. key.k # "OR" /\ key.k # "AND"
    <3>1. DOMAIN x = 1 .. Len(x) /\ i \in Int
      BY <2>2, SeqDomain
    <3>2. Kind(x, i) # "OR" /\ Kind(x, i) # "("
      BY <1>1, <2>2, <3>1, KindFacts DEF Occurs
    <3> QED BY <1>1, <2>1, <2>2, <3>2, WrittenKinds
  <2>10. CASE key.k \in Leaves
    <3>1. Kind(x, i) \in Leaves
      BY <1>1, <2>1, <2>2, <2>3, <2>10, WrittenKinds
    <3>2. search_key(x, i, Parse(x)) = Ok(Simple(x[i]), i + 1)
      BY <3>1, SearchKeyIs
    <3> QED BY <2>4, <3>2, OkIs
  <2> QED BY <2>5, <2>6, <2>7, <2>8, <2>9, <2>10
<1>6. \A i \in 1 .. N : i \in P
  BY <1>5, Places
<1> QED BY <1>1, <1>3, <1>4, <1>6

\* A program that can be parsed: a key of the text, or an AND of such keys.
SomeNode(x, p) ==
  \/ \E i \in 1 .. Len(x) + 1 : p \in NodeAt(x, i)
  \/ \E list \in Seq(1 .. Len(x) + 1) \ {<<>>} : p = Around("AND", list)

\* The first element of a sequence.
LEMMA ConsFirst == ASSUME NEW S, NEW a \in S, NEW s \in Seq(S) PROVE (<<a>> \o s)[1] = a /\ <<a>>[1] = a
  OBVIOUS

\* A sequence over a larger set.
LEMMA WiderSeq ==
  ASSUME NEW S, NEW T, S \subseteq T, NEW s \in Seq(S)
  PROVE  s \in Seq(T)
<1>1. Len(s) \in Nat /\ DOMAIN s = 1 .. Len(s) /\ \A k \in 1 .. Len(s) : s[k] \in S
  BY ElementType
<1>2. s = [k \in 1 .. Len(s) |-> s[k]]
  BY <1>1
<1>3. s \in [1 .. Len(s) -> T]
  BY <1>1, <1>2
<1> QED BY <1>1, <1>3, FunctionSeq

\* A list begins with the key at its place.
LEMMA ListHead ==
  ASSUME NEW x, Small(x), NEW i \in 1 .. Len(x) + 1
  PROVE  /\ Parse(x)[i].list.is = Parse(x)[i].key.is /\ Parse(x)[i].key.is \in {"ok", "fail"}
         /\ Parse(x)[i].key.is = "ok" => Parse(x)[i].list.value[1] = i
<1>1. PICK tree : tree = Parse(x)
  OBVIOUS
<1>2. PICK key : key = tree[i].key
  OBVIOUS
<1>3. key \in KeyAt(x, i) /\ tree[i].list = separated_list1(x, i, key, tree) /\ tree[i].list \in ListAt(x, i)
  BY <1>1, <1>2, TreeStep
<1>4. x \in Seq(Tokens)
  BY DEF Small
<1>5. key.is \in {"ok", "fail"} /\ (key.is = "fail" => key = Fail)
  BY <1>3, <1>4, KeyAtFacts
<1>6. CASE key.is = "fail"
  BY <1>1, <1>2, <1>3, <1>6, ListIs
<1>7. CASE key.is = "ok"
  <2>1. PICK rest : rest = Rest(x, tree, key.next)
    OBVIOUS
  <2>2. tree[i].list = ListOf(i, key, rest)
    BY <1>3, <1>7, <2>1, ListIs
  <2>3. rest = Fail \/ \E j \in 1 .. Len(x) + 1 : rest \in ListAt(x, j)
    <3>1. CASE Kind(x, key.next) = "blank"
      <4>1. rest = tree[key.next + 1].list
        BY <2>1, <3>1 DEF Rest
      <4>2. key.next \in i + 1 .. Len(x) + 1
        BY <1>3, <1>4, <1>7, KeyAtFacts
      <4>3. key.next \in Nat \ {0}
        <5>1. Len(x) \in Nat
          BY <1>4
        <5> QED BY <4>2, <5>1
      <4>4. key.next + 1 \in 1 .. Len(x) + 1
        <5>1. Kind(x, key.next) # "end"
          BY <3>1
        <5> QED BY <1>4, <4>3, <5>1, After
      <4> QED BY <1>1, <4>1, <4>4, TreeStep
    <3>2. CASE Kind(x, key.next) # "blank"
      BY <2>1, <3>2 DEF Rest
    <3> QED BY <3>1, <3>2
  <2>4. \/ rest.is = "fail"
        \/ rest.is = "ok" /\ \E j \in 1 .. Len(x) + 1 : rest.value \in Seq(j .. Len(x) + 1)
    BY <1>4, <2>3, KeyAtFacts DEF Fail
  <2>5. CASE rest.is = "fail"
    <3>1. tree[i].list = Ok(<<i>>, key.next)
      BY <2>2, <2>5 DEF ListOf
    <3>2. <<i>>[1] = i
      OBVIOUS
    <3> QED BY <1>1, <1>2, <1>7, <3>1, <3>2, OkIs
  <2>6. CASE rest.is = "ok" /\ \E j \in 1 .. Len(x) + 1 : rest.value \in Seq(j .. Len(x) + 1)
    <3>5. PICK v : v = <<i>> \o rest.value
      OBVIOUS
    <3>1. tree[i].list = Ok(v, rest.next)
      BY <2>2, <2>6, <3>5 DEF ListOf
    <3>2. rest.value \in Seq(Int)
      <4>1. PICK j \in 1 .. Len(x) + 1 : rest.value \in Seq(j .. Len(x) + 1)
        BY <2>6
      <4>2. j .. Len(x) + 1 \subseteq Int
        BY <1>4
      <4> QED BY <4>1, <4>2, WiderSeq
    <3>3. (<<i>> \o rest.value)[1] = i
      <4>1. i \in Int
        BY <1>4
      <4> QED BY <3>2, <4>1, ConsFirst
    <3>4. tree[i].list.is = "ok" /\ tree[i].list.value[1] = i
      <4>1. tree[i].list.is = "ok" /\ tree[i].list.value = v
        BY <3>1, OkIs
      <4> QED BY <3>3, <3>5, <4>1
    <3> QED BY <1>1, <1>2, <1>7, <3>4
  <2> QED BY <2>4, <2>5, <2>6
<1> QED BY <1>5, <1>6, <1>7

\* The program is a key of the text, or an AND of keys.
LEMMA ProgramType ==
  ASSUME NEW x, Small(x)
  PROVE  /\ search_program(Parse(x)).is = Parse(x)[1].key.is /\ Parse(x)[1].key.is \in {"ok", "fail"}
         /\ search_program(Parse(x)).is = "ok" => SomeNode(x, search_program(Parse(x)).value)
<1>1. 1 \in 1 .. Len(x) + 1 /\ x \in Seq(Tokens) /\ Len(x) \in Nat
  <2>1. x \in Seq(Tokens) /\ Len(x) \in Nat
    BY DEF Small
  <2> QED BY <2>1
<1>2. PICK tree : tree = Parse(x)
  OBVIOUS
<1>3. PICK list : list = tree[1].list
  OBVIOUS
<1>4. list \in ListAt(x, 1) /\ list.is = tree[1].key.is /\ (list.is = "ok" => list.value[1] = 1)
      /\ tree[1].key \in KeyAt(x, 1) /\ list.is \in {"ok", "fail"}
  BY <1>1, <1>2, <1>3, TreeStep, ListHead
<1>5. search_program(tree) =
        IF list.is # "ok" THEN list
        ELSE Ok(IF Len(list.value) > 1 THEN Around("AND", list.value) ELSE tree[list.value[1]].key.value, list.next)
  BY <1>3 DEF search_program
<1>6. CASE list.is # "ok"
  BY <1>2, <1>4, <1>5, <1>6
<1>7. CASE list.is = "ok"
  <2>1. PICK p : p = IF Len(list.value) > 1 THEN Around("AND", list.value) ELSE tree[list.value[1]].key.value
    OBVIOUS
  <2>2. search_program(tree).is = "ok" /\ search_program(tree).value = p
    BY <1>5, <1>7, <2>1, OkIs
  <2>3. list.value \in Seq(1 .. Len(x) + 1) \ {<<>>}
    BY <1>1, <1>4, <1>7, KeyAtFacts
  <2>4. tree[1].key.value \in NodeAt(x, 1)
    BY <1>1, <1>4, <1>7, KeyAtFacts
  <2>5. SomeNode(x, p)
    <3>1. CASE Len(list.value) > 1
      BY <2>1, <2>3, <3>1 DEF SomeNode
    <3>2. CASE ~(Len(list.value) > 1)
      BY <1>1, <1>4, <1>7, <2>1, <2>4, <3>2 DEF SomeNode
    <3> QED BY <3>1, <3>2
  <2> QED BY <1>2, <1>4, <1>7, <2>2, <2>5
<1> QED BY <1>6, <1>7

\* The first key begins where the text begins.
LEMMA TopFacts ==
  ASSUME NEW r, WellWritten(r)
  PROVE  /\ r.top \in Seq(DOMAIN r.keys) /\ Lists(r, r.top, 1, Len(r.text) + 1) /\ r.top # <<>>
         /\ 1 \in DOMAIN r.keys /\ r.top[1] = 1
<1>1. r.top \in Seq(DOMAIN r.keys) /\ Lists(r, r.top, 1, Len(r.text) + 1)
  BY DEF WellWritten
<1>2. r.top # <<>> /\ r.top[1] = 1
  BY <1>1 DEF Lists
<1>3. r.top[1] \in DOMAIN r.keys
  <2>1. 1 \in 1 .. Len(r.top)
    BY <1>1, <1>2
  <2> QED BY <1>1, <2>1, ElementType
<1> QED BY <1>1, <1>2, <1>3

\* Why a search is refused as it cannot be parsed.
RefusalCause(x) ==
  \/ Occurs("refused", x)
  \/ (Occurs("comma", x) \/ Occurs("rest", x)) /\ (Occurs("(", x) \/ Occurs("OR", x))

\* A search without such a cause can be parsed.
LEMMA ProgramParsed ==
  ASSUME NEW r, WellWritten(r), ~RefusalCause(r.text)
  PROVE  search_program(Parse(r.text)).is = "ok"
<1>1. Parse(r.text)[1].key.is = "ok"
  <2>1. 1 \in DOMAIN r.keys
    BY TopFacts
  <2>2. CASE Plain(r.text)
    <3>1. KeyMeant(r, 1)
      BY <2>1, <2>2, KeysMeant
    <3> QED BY <3>1 DEF KeyMeant
  <2>3. CASE ~Occurs("(", r.text) /\ ~Occurs("OR", r.text)
    <3>1. ~Occurs("refused", r.text)
      BY DEF RefusalCause
    <3> QED BY <2>1, <2>3, <3>1, KeysParsed
  <2>4. ~Plain(r.text) => Occurs("comma", r.text) \/ Occurs("rest", r.text) \/ Occurs("refused", r.text)
    BY DEF Plain, Occurs
  <2> QED BY <2>2, <2>3, <2>4 DEF RefusalCause
<1>2. Small(r.text)
  BY WrittenFacts
<1> QED BY <1>1, <1>2, ProgramType

\* In a plain text the program is the keys that are meant.
LEMMA ProgramMeant ==
  ASSUME NEW r, WellWritten(r), Plain(r.text)
  PROVE  /\ search_program(Parse(r.text)).value =
              IF Len(r.top) > 1 THEN Around("AND", r.top) ELSE Parse(r.text)[1].key.value
<1>1. PICK x : x = r.text
  OBVIOUS
<1>2. r.top \in Seq(DOMAIN r.keys) /\ Lists(r, r.top, 1, Len(x) + 1) /\ r.top[1] = 1
  BY <1>1, TopFacts
<1>3. \A n \in 1 .. Len(r.top) : KeyMeant(r, r.top[n])
  <2>1. \A n \in 1 .. Len(r.top) : r.top[n] \in DOMAIN r.keys
    BY <1>2, ElementType
  <2> QED BY <2>1, KeysMeant
<1>4. Kind(x, Len(x) + 1) # "blank"
  <2>1. x \in Seq(Tokens) /\ Len(x) \in Nat
    BY <1>1, WrittenFacts
  <2>2. Len(x) + 1 \notin 1 .. Len(x) /\ Len(x) + 1 \in Int
    BY <2>1
  <2>3. Kind(x, Len(x) + 1) = "end"
    BY <2>1, <2>2, KindFacts
  <2> QED BY <2>3
<1>5. Parse(x)[1].list = Ok(r.top, Len(x) + 1)
  BY <1>1, <1>2, <1>3, <1>4, ListMeant
<1>6. Parse(x)[1].list.is = "ok" /\ Parse(x)[1].list.value = r.top
  BY <1>5, OkIs
<1>7. search_program(Parse(x)).value = IF Len(r.top) > 1 THEN Around("AND", r.top) ELSE Parse(x)[r.top[1]].key.value
  BY <1>6, OkIs DEF search_program
<1> QED BY <1>1, <1>2, <1>7

-----------------------------------------------------------------------------
(* Verdicts *)

\* What a key can say of a message, and the keys that look at keys inside.
VerdictSet == {"yes", "no", "panic"}
Joins == {"NOT", "OR", "AND"}

\* A key whose keys inside are at the places of S.
Node(p, S) ==
  /\ p.k \in Kinds /\ p.parts \in Seq(S)
  /\ p.k = "NOT" => Len(p.parts) = 1
  /\ p.k = "OR" => Len(p.parts) = 2

\* A verdict that is not a panic.
LEMMA YesType == ASSUME NEW b PROVE Yes(b) \in {"yes", "no"} /\ (Yes(b) = "yes" <=> b)
BY DEF Yes

\* A key without keys inside gives a verdict of its own; only headers and days
\* panic.
LEMMA LeafVerdict ==
  ASSUME NEW p, p.k \in Kinds \ Joins, NEW m, NEW number, NEW is_uid, NEW check
  PROVE  /\ check_search_condition(p, m, number, is_uid, check) \in VerdictSet
         /\ \A d : check_search_condition(p, m, number, is_uid, check) = check_search_condition(p, m, number, is_uid, d)
         /\ check_search_condition(p, m, number, is_uid, check) = "panic" =>
              (p.k = "header" /\ m.broken) \/ (p.k \in Dates /\ p.token.n = BadDay)
<1>1. p.k \in Leaves \cup {"UID", "Range"}
  BY DEF Kinds, Joins
<1>2. PICK t : t = p.token
  OBVIOUS
<1>3. CASE p.k \in {"ALL", "KEYWORD", "UNKEYWORD"}
  BY <1>3 DEF check_search_condition, VerdictSet
<1>4. CASE p.k \in {"flag", "unflag"}
  BY <1>4, YesType DEF check_search_condition, VerdictSet
<1>5. CASE p.k = "header"
  BY <1>5, YesType DEF check_search_condition, VerdictSet, header_contains
<1>6. CASE p.k = "text"
  BY <1>6, YesType DEF check_search_condition, VerdictSet, body_contains
<1>7. CASE p.k \in Dates
  BY <1>7, YesType DEF check_search_condition, VerdictSet, Dates
<1>8. CASE p.k \in {"LARGER", "SMALLER"}
  BY <1>8, YesType DEF check_search_condition, VerdictSet
<1>9. CASE p.k \in {"UID", "Range"}
  BY <1>9, YesType DEF check_search_condition, VerdictSet
<1> QED BY <1>1, <1>3, <1>4, <1>5, <1>6, <1>7, <1>8, <1>9 DEF Leaves, Dates

\* The verdict of keys that are joined.
Stops(p, check) == {n \in DOMAIN p.parts : check[p.parts[n]] # "yes"}
\* The verdict of a key with keys inside.
LEMMA JoinVerdict ==
  ASSUME NEW p, NEW m, NEW number, NEW is_uid, NEW check
  PROVE  /\ p.k = "NOT" => check_search_condition(p, m, number, is_uid, check) =
                             IF check[p.parts[1]] = "panic" THEN "panic" ELSE Yes(check[p.parts[1]] = "no")
         /\ p.k = "OR" => check_search_condition(p, m, number, is_uid, check) =
                            IF check[p.parts[1]] = "no" THEN check[p.parts[2]] ELSE check[p.parts[1]]
         /\ p.k = "AND" => check_search_condition(p, m, number, is_uid, check) =
                             IF Stops(p, check) = {} THEN "yes" ELSE check[p.parts[Min(Stops(p, check))]]
<1>1. p.k = "NOT" => check_search_condition(p, m, number, is_uid, check) =
                       IF check[p.parts[1]] = "panic" THEN "panic" ELSE Yes(check[p.parts[1]] = "no")
  BY DEF check_search_condition
<1>2. p.k = "OR" => check_search_condition(p, m, number, is_uid, check) =
                      IF check[p.parts[1]] = "no" THEN check[p.parts[2]] ELSE check[p.parts[1]]
  BY DEF check_search_condition
<1>3. p.k = "AND" => check_search_condition(p, m, number, is_uid, check) =
                       IF Stops(p, check) = {} THEN "yes" ELSE check[p.parts[Min(Stops(p, check))]]
  BY DEF check_search_condition, Stops
<1> QED BY <1>1, <1>2, <1>3

\* The least element of a set of natural numbers is in it.
LEMMA MinIn == ASSUME NEW S \in SUBSET Nat, S # {} PROVE Min(S) \in S /\ \A y \in S : Min(S) <= y
<1>1. \E x \in S : \A y \in S : x <= y
  BY Least
<1> QED BY <1>1 DEF Min

\* The verdict of a key follows from those of the keys inside.
LEMMA CheckFacts ==
  ASSUME NEW S, NEW p, Node(p, S), NEW m, NEW number, NEW is_uid, NEW check, \A k \in S : check[k] \in VerdictSet
  PROVE  /\ check_search_condition(p, m, number, is_uid, check) \in VerdictSet
         /\ \A d : (\A k \in S : check[k] = d[k]) =>
              check_search_condition(p, m, number, is_uid, check) = check_search_condition(p, m, number, is_uid, d)
         /\ check_search_condition(p, m, number, is_uid, check) = "panic" =>
              \/ p.k = "header" /\ m.broken
              \/ p.k \in Dates /\ p.token.n = BadDay
              \/ \E k \in S : check[k] = "panic"
<1>1. p.k \in Kinds /\ p.parts \in Seq(S)
  BY DEF Node
<1>2. DOMAIN p.parts = 1 .. Len(p.parts) /\ Len(p.parts) \in Nat /\ \A n \in 1 .. Len(p.parts) : p.parts[n] \in S
  BY <1>1, ElementType
<1>3. CASE p.k \in Kinds \ Joins
  BY <1>3, LeafVerdict
<1>4. CASE p.k = "NOT"
  <2>1. p.parts[1] \in S
    <3>1. Len(p.parts) = 1
      BY <1>4 DEF Node
    <3> QED BY <1>2, <3>1
  <2> QED BY <1>4, <2>1, JoinVerdict, YesType DEF VerdictSet
<1>5. CASE p.k = "OR"
  <2>1. p.parts[1] \in S /\ p.parts[2] \in S
    <3>1. Len(p.parts) = 2
      BY <1>5 DEF Node
    <3> QED BY <1>2, <3>1
  <2> QED BY <1>5, <2>1, JoinVerdict DEF VerdictSet
<1>6. CASE p.k = "AND"
  <2>1. PICK stops : stops = Stops(p, check)
    OBVIOUS
  <2>2. stops \in SUBSET Nat /\ \A n \in stops : p.parts[n] \in S
    BY <1>2, <2>1 DEF Stops
  <2>3. \A d : (\A k \in S : check[k] = d[k]) => Stops(p, d) = stops
    BY <1>2, <2>1 DEF Stops
  <2>4. CASE stops = {}
    BY <1>6, <2>1, <2>3, <2>4, JoinVerdict DEF VerdictSet
  <2>5. CASE stops # {}
    <3>1. p.parts[Min(stops)] \in S
      BY <2>2, <2>5, MinIn
    <3>2. check_search_condition(p, m, number, is_uid, check) = check[p.parts[Min(stops)]]
      BY <1>6, <2>1, <2>5, JoinVerdict
    <3>3. \A d : (\A k \in S : check[k] = d[k]) => check_search_condition(p, m, number, is_uid, d) = d[p.parts[Min(stops)]]
      BY <1>6, <2>3, <2>5, JoinVerdict
    <3> QED BY <3>1, <3>2, <3>3
  <2> QED BY <2>4, <2>5
<1> QED BY <1>1, <1>3, <1>4, <1>5, <1>6 DEF Joins

\* The keys inside a key that is parsed are at later places.
LEMMA NodeAtNode ==
  ASSUME NEW x, NEW i, NEW p \in NodeAt(x, i)
  PROVE  Node(p, i + 1 .. Len(x) + 1) /\ (p.k \in Leaves => i \in 1 .. Len(x) /\ p.token = x[i] /\ x[i].t = p.k)
BY DEF NodeAt, Node

CheckedAt(x, m, number, is_uid, i, check) == checked_at(Parse(x), m, number, is_uid, i, check)

\* The verdict at a place depends only on the verdicts at later places.
LEMMA CheckedAtFacts ==
  ASSUME NEW x, Small(x), NEW i \in 1 .. Len(x) + 1, NEW m, NEW number, NEW is_uid, NEW check,
         \A k \in i + 1 .. Len(x) + 1 : check[k] \in VerdictSet
  PROVE  /\ CheckedAt(x, m, number, is_uid, i, check) \in VerdictSet
         /\ \A d : Agree(x, i, check, d) => CheckedAt(x, m, number, is_uid, i, check) = CheckedAt(x, m, number, is_uid, i, d)
<1>1. PICK key : key = Parse(x)[i].key
  OBVIOUS
<1>2. key \in KeyAt(x, i) /\ x \in Seq(Tokens)
  BY <1>1, TreeStep DEF Small
<1>3. \A d : CheckedAt(x, m, number, is_uid, i, d) =
        IF key.is = "ok" THEN check_search_condition(key.value, m, number, is_uid, d) ELSE "no"
  BY <1>1 DEF CheckedAt, checked_at
<1>4. CASE key.is = "ok"
  <2>1. Node(key.value, i + 1 .. Len(x) + 1)
    BY <1>2, <1>4, KeyAtFacts, NodeAtNode
  <2>2. PICK S : S = i + 1 .. Len(x) + 1
    OBVIOUS
  <2>3. /\ check_search_condition(key.value, m, number, is_uid, check) \in VerdictSet
        /\ \A d : (\A k \in S : check[k] = d[k]) =>
             check_search_condition(key.value, m, number, is_uid, check) = check_search_condition(key.value, m, number, is_uid, d)
    BY <2>1, <2>2, CheckFacts
  <2> QED BY <1>3, <1>4, <2>2, <2>3 DEF Agree
<1>5. CASE key.is # "ok"
  BY <1>3, <1>5 DEF VerdictSet
<1> QED BY <1>4, <1>5

\* What Verdicts computes.
LEMMA VerdictFacts ==
  ASSUME NEW x, Small(x), NEW m, NEW number, NEW is_uid
  PROVE  \A i \in 1 .. Len(x) + 1 :
           /\ Verdicts(Parse(x), m, number, is_uid)[i] \in VerdictSet
           /\ Verdicts(Parse(x), m, number, is_uid)[i] =
                CheckedAt(x, m, number, is_uid, i, Verdicts(Parse(x), m, number, is_uid))
<1>1. PICK N \in Nat \ {0} : N = Len(x) + 1
  BY DEF Small
<1>2. PICK D : D = 1 .. N
  OBVIOUS
<1>3. PICK W : W = VerdictSet
  OBVIOUS
<1>4. PICK rank : rank = [i \in D |-> N - i]
  OBVIOUS
<1>5. PICK R : R = [i \in D |-> [g \in [D -> W] |-> CheckedAt(x, m, number, is_uid, i, g)]]
  OBVIOUS
<1>6. rank \in [D -> 0 .. N] /\ \A i \in D : \A k \in i + 1 .. N : k \in D /\ rank[k] < rank[i]
  BY <1>1, <1>2, <1>4
<1>7. ASSUME NEW i \in D, NEW g \in [D -> W]
      PROVE  /\ CheckedAt(x, m, number, is_uid, i, g) \in W
             /\ \A h : Agree(x, i, g, h) =>
                  CheckedAt(x, m, number, is_uid, i, g) = CheckedAt(x, m, number, is_uid, i, h)
  <2>1. \A k \in i + 1 .. N : g[k] \in W
    BY <1>6
  <2> QED BY <1>1, <1>2, <1>3, <2>1, CheckedAtFacts
<1>8. R \in [D -> [[D -> W] -> W]] /\ \A i \in D, g \in [D -> W] : R[i][g] = CheckedAt(x, m, number, is_uid, i, g)
  BY <1>5, <1>7
<1>9. ASSUME NEW i \in D, NEW g \in [D -> W], NEW h \in [D -> W], \A k \in D : rank[k] < rank[i] => g[k] = h[k]
      PROVE  R[i][g] = R[i][h]
  <2>1. Agree(x, i, g, h)
    BY <1>1, <1>6, <1>9 DEF Agree
  <2> QED BY <1>7, <1>8, <2>1
<1>10. W # {}
  BY <1>3 DEF VerdictSet
<1>11. RecursiveIn(N, D, rank, W, R)
  BY <1>1, <1>6, <1>8, <1>9, <1>10 DEF RecursiveIn
<1>12. PICK f \in [D -> W] : \A i \in D : f[i] = R[i][f]
  BY <1>11, RecursionIn
<1>13. f = [i \in D |-> CheckedAt(x, m, number, is_uid, i, f)]
  BY <1>8, <1>12
<1>14. PICK table : table = CHOOSE t : t = [i \in D |-> CheckedAt(x, m, number, is_uid, i, t)]
  OBVIOUS
<1>15. table = [i \in D |-> CheckedAt(x, m, number, is_uid, i, table)]
  BY <1>13, <1>14
<1>16. Verdicts(Parse(x), m, number, is_uid) = table
  <2>1. DOMAIN Parse(x) = D
    BY <1>1, <1>2, ParsedTree
  <2> QED BY <1>14, <2>1 DEF Verdicts, CheckedAt
<1>17. ASSUME NEW i \in 1 .. N, \A k \in i + 1 .. N : table[k] \in W PROVE table[i] \in W
  <2>1. \A k \in i + 1 .. Len(x) + 1 : table[k] \in VerdictSet
    BY <1>1, <1>3, <1>17
  <2>2. CheckedAt(x, m, number, is_uid, i, table) \in W
    BY <1>1, <1>3, <2>1, CheckedAtFacts
  <2> QED BY <1>2, <1>15, <2>2
<1>18. \A i \in 1 .. N : table[i] \in W
  <2> DEFINE P == {i \in 1 .. N : table[i] \in W}
  <2>1. \A i \in 1 .. N : (\A k \in i + 1 .. N : k \in P) => i \in P
    BY <1>17
  <2> HIDE DEF P
  <2>2. \A i \in 1 .. N : i \in P
    BY <2>1, Places
  <2> QED BY <2>2 DEF P
<1> QED BY <1>1, <1>2, <1>3, <1>15, <1>16, <1>18

\* A search of a message panics over its headers, or over a day.
PanicCause(x, m) == (Occurs("header", x) /\ m.broken) \/ \E i \in DOMAIN x : x[i].n = BadDay

\* A key panics for a cause of its own, or because a key inside does.
LEMMA NodePanics ==
  ASSUME NEW x \in Seq(Tokens), NEW i, NEW p \in NodeAt(x, i), NEW m, NEW number, NEW is_uid, NEW check,
         \A k \in i + 1 .. Len(x) + 1 : check[k] \in VerdictSet,
         check_search_condition(p, m, number, is_uid, check) = "panic"
  PROVE  PanicCause(x, m) \/ \E k \in i + 1 .. Len(x) + 1 : check[k] = "panic"
<1>1. PICK S : S = i + 1 .. Len(x) + 1
  OBVIOUS
<1>2. Node(p, S) /\ (p.k \in Leaves => i \in 1 .. Len(x) /\ p.token = x[i] /\ x[i].t = p.k)
  BY <1>1, NodeAtNode
<1>3. \/ p.k = "header" /\ m.broken
      \/ p.k \in Dates /\ p.token.n = BadDay
      \/ \E k \in S : check[k] = "panic"
  <2>1. \A k \in S : check[k] \in VerdictSet
    BY <1>1
  <2>2. check_search_condition(p, m, number, is_uid, check) = "panic" =>
          \/ p.k = "header" /\ m.broken
          \/ p.k \in Dates /\ p.token.n = BadDay
          \/ \E k \in S : check[k] = "panic"
    BY <1>2, <2>1, CheckFacts
  <2> QED BY <2>2
<1>4. DOMAIN x = 1 .. Len(x)
  BY SeqDomain
<1>5. p.k = "header" => Occurs("header", x)
  <2>1. "header" \in Leaves
    BY DEF Leaves
  <2> QED BY <1>2, <1>4, <2>1 DEF Occurs
<1>6. p.k \in Dates => i \in DOMAIN x /\ p.token = x[i]
  <2>1. Dates \subseteq Leaves
    BY DEF Leaves, Dates
  <2> QED BY <1>2, <1>4, <2>1
<1> QED BY <1>1, <1>3, <1>5, <1>6 DEF PanicCause

\* A verdict that is a panic has a cause in the text.
LEMMA VerdictPanics ==
  ASSUME NEW x, Small(x), NEW m, NEW number, NEW is_uid
  PROVE  \A i \in 1 .. Len(x) + 1 : Verdicts(Parse(x), m, number, is_uid)[i] = "panic" => PanicCause(x, m)
<1>1. PICK N \in Nat : N = Len(x) + 1
  BY DEF Small
<1>2. PICK table : table = Verdicts(Parse(x), m, number, is_uid)
  OBVIOUS
<1>3. \A i \in 1 .. N : table[i] \in VerdictSet /\ table[i] = CheckedAt(x, m, number, is_uid, i, table)
  BY <1>1, <1>2, VerdictFacts
<1>4. PICK P : P = {i \in 1 .. N : table[i] = "panic" => PanicCause(x, m)}
  OBVIOUS
<1>5. ASSUME NEW i \in 1 .. N, \A k \in i + 1 .. N : k \in P PROVE i \in P
  <2> SUFFICES ASSUME table[i] = "panic" PROVE PanicCause(x, m)
    BY <1>4
  <2>1. PICK key : key = Parse(x)[i].key
    OBVIOUS
  <2>2. key.is = "ok" /\ check_search_condition(key.value, m, number, is_uid, table) = "panic"
    BY <1>3, <2>1 DEF CheckedAt, checked_at
  <2>3. key.value \in NodeAt(x, i) /\ x \in Seq(Tokens)
    <3>1. x \in Seq(Tokens) /\ key \in KeyAt(x, i)
      BY <1>1, <2>1, TreeStep DEF Small
    <3> QED BY <1>1, <2>2, <3>1, KeyAtFacts
  <2>4. \A k \in i + 1 .. N : k \in 1 .. N
    BY <1>1
  <2>5. PanicCause(x, m) \/ \E k \in i + 1 .. N : table[k] = "panic"
    BY <1>1, <1>3, <2>2, <2>3, <2>4, NodePanics
  <2> QED BY <1>4, <1>5, <2>5
<1>6. \A i \in 1 .. N : i \in P
  BY <1>5, Places
<1> QED BY <1>1, <1>2, <1>4, <1>6

\* The verdict of a program.
Judged(r, p, m, number) ==
  check_search_condition(p, m, number, r.is_uid, Verdicts(Parse(r.text), m, number, r.is_uid))

\* The parts of a key with keys inside.
LEMMA AroundFacts == ASSUME NEW k, NEW parts PROVE Around(k, parts).k = k /\ Around(k, parts).parts = parts
BY DEF Around

\* So has the verdict of the whole program.
LEMMA ProgramPanics ==
  ASSUME NEW r, Small(r.text), NEW p, SomeNode(r.text, p), NEW m, NEW number
  PROVE  /\ Judged(r, p, m, number) \in VerdictSet
         /\ Judged(r, p, m, number) = "panic" => PanicCause(r.text, m)
<1>1. PICK x : x = r.text
  OBVIOUS
<1>2. x \in Seq(Tokens) /\ Len(x) \in Nat
  BY <1>1 DEF Small
<1>3. PICK check : check = Verdicts(Parse(x), m, number, r.is_uid)
  OBVIOUS
<1>4. \A i \in 1 .. Len(x) + 1 : check[i] \in VerdictSet /\ (check[i] = "panic" => PanicCause(x, m))
  BY <1>1, <1>3, VerdictFacts, VerdictPanics
<1>5. Judged(r, p, m, number) = check_search_condition(p, m, number, r.is_uid, check)
  BY <1>1, <1>3 DEF Judged
<1>6. CASE \E i \in 1 .. Len(x) + 1 : p \in NodeAt(x, i)
  <2>1. PICK i \in 1 .. Len(x) + 1 : p \in NodeAt(x, i)
    BY <1>6
  <2>2. \A k \in i + 1 .. Len(x) + 1 : k \in 1 .. Len(x) + 1
    BY <1>2
  <2>3. PICK S : S = i + 1 .. Len(x) + 1
    OBVIOUS
  <2>4. Node(p, S) /\ \A k \in S : check[k] \in VerdictSet
    BY <1>4, <2>1, <2>2, <2>3, NodeAtNode
  <2>5. check_search_condition(p, m, number, r.is_uid, check) \in VerdictSet
    BY <2>4, CheckFacts
  <2>6. check_search_condition(p, m, number, r.is_uid, check) = "panic" => PanicCause(x, m)
    BY <1>2, <1>4, <2>1, <2>2, NodePanics
  <2> QED BY <1>1, <1>5, <2>5, <2>6
<1>7. CASE \E list \in Seq(1 .. Len(x) + 1) \ {<<>>} : p = Around("AND", list)
  <2>1. PICK list \in Seq(1 .. Len(x) + 1) \ {<<>>} : p = Around("AND", list)
    BY <1>7
  <2>2. PICK S : S = 1 .. Len(x) + 1
    OBVIOUS
  <2>3. p.k = "AND" /\ p.parts = list
    BY <2>1, AroundFacts
  <2>4. Node(p, S)
    BY <2>1, <2>2, <2>3 DEF Node, Kinds
  <2>5. p.k # "header" /\ p.k \notin Dates
    BY <2>3 DEF Dates
  <2>6. \A k \in S : check[k] \in VerdictSet
    BY <1>4, <2>2
  <2>7. check_search_condition(p, m, number, r.is_uid, check) \in VerdictSet
    BY <2>4, <2>6, CheckFacts
  <2>8. check_search_condition(p, m, number, r.is_uid, check) = "panic" => \E k \in S : check[k] = "panic"
    BY <2>4, <2>5, <2>6, CheckFacts
  <2> QED BY <1>1, <1>4, <1>5, <2>2, <2>7, <2>8
<1> QED BY <1>1, <1>6, <1>7 DEF SomeNode

-----------------------------------------------------------------------------
(* The messages that match *)

\* The number by which a range means a message.
NumberOf(r, set, k, m) ==
  IF r.is_uid \/ k = "UID" THEN m.uid ELSE Cardinality({o \in set : o.uid <= m.uid})
InRanges(ranges, n) == \E j \in DOMAIN ranges : n \in ranges[j].lo .. ranges[j].hi

\* Which messages each kind of key matches.
LEMMA MatchingLeaf ==
  ASSUME NEW r, NEW set, NEW i, NEW of, NEW k, NEW t, k = r.keys[i].k, t = r.text[i]
  PROVE  /\ k \in {"ALL", "UNKEYWORD"} => MatchingKey(r, set, i, of) = set
         /\ k = "KEYWORD" => MatchingKey(r, set, i, of) = {}
         /\ k = "flag" => MatchingKey(r, set, i, of) = {m \in set : t.v \in m.flags}
         /\ k = "unflag" => MatchingKey(r, set, i, of) = {m \in set : t.v \notin m.flags}
         /\ k = "header" => MatchingKey(r, set, i, of) = {m \in set : t.n \in m.words["header"]}
         /\ k = "text" => MatchingKey(r, set, i, of) = {m \in set : t.n \in m.words[t.v]}
         /\ k = "BEFORE" => MatchingKey(r, set, i, of) = {m \in set : t.n # NotADate /\ date(m, t.v) \in 0 .. 2 * t.n - 1}
         /\ k = "ON" => MatchingKey(r, set, i, of) = {m \in set : t.n # NotADate /\ date(m, t.v) = 2 * t.n}
         /\ k = "SINCE" => MatchingKey(r, set, i, of) = {m \in set : t.n # NotADate /\ date(m, t.v) > 2 * t.n}
         /\ k = "LARGER" => MatchingKey(r, set, i, of) = {m \in set : m.size > t.n}
         /\ k = "SMALLER" => MatchingKey(r, set, i, of) = {m \in set : m.size < t.n}
<1>1. k \in {"ALL", "UNKEYWORD"} => MatchingKey(r, set, i, of) = set
  BY DEF MatchingKey
<1>2. k = "KEYWORD" => MatchingKey(r, set, i, of) = {}
  BY DEF MatchingKey
<1>3. k = "flag" => MatchingKey(r, set, i, of) = {m \in set : t.v \in m.flags}
  BY DEF MatchingKey
<1>4. k = "unflag" => MatchingKey(r, set, i, of) = {m \in set : t.v \notin m.flags}
  BY DEF MatchingKey
<1>5. k = "header" => MatchingKey(r, set, i, of) = {m \in set : t.n \in m.words["header"]}
  BY DEF MatchingKey
<1>6. k = "text" => MatchingKey(r, set, i, of) = {m \in set : t.n \in m.words[t.v]}
  BY DEF MatchingKey
<1>7. k = "BEFORE" => MatchingKey(r, set, i, of) = {m \in set : t.n # NotADate /\ date(m, t.v) \in 0 .. 2 * t.n - 1}
  BY DEF MatchingKey
<1>8. k = "ON" => MatchingKey(r, set, i, of) = {m \in set : t.n # NotADate /\ date(m, t.v) = 2 * t.n}
  BY DEF MatchingKey
<1>9. k = "SINCE" => MatchingKey(r, set, i, of) = {m \in set : t.n # NotADate /\ date(m, t.v) > 2 * t.n}
  BY DEF MatchingKey
<1>10. k = "LARGER" => MatchingKey(r, set, i, of) = {m \in set : m.size > t.n}
  BY DEF MatchingKey
<1>11. k = "SMALLER" => MatchingKey(r, set, i, of) = {m \in set : m.size < t.n}
  BY DEF MatchingKey
<1> QED BY <1>1, <1>2, <1>3, <1>4, <1>5, <1>6, <1>7, <1>8, <1>9, <1>10, <1>11

\* The messages that match a key with ranges or keys inside.
LEMMA MatchingJoin ==
  ASSUME NEW r, NEW set, NEW i, NEW of, NEW key, key = r.keys[i]
  PROVE  /\ key.k \in {"UID", "Range"} =>
              MatchingKey(r, set, i, of) = {m \in set : InRanges(key.ranges, NumberOf(r, set, key.k, m))}
         /\ key.k = "NOT" => MatchingKey(r, set, i, of) = set \ of[key.parts[1]]
         /\ key.k = "OR" => MatchingKey(r, set, i, of) = of[key.parts[1]] \cup of[key.parts[2]]
         /\ key.k = "AND" => MatchingKey(r, set, i, of) = {m \in set : \A n \in DOMAIN key.parts : m \in of[key.parts[n]]}
<1>1. key.k = "UID" =>
        MatchingKey(r, set, i, of) = {m \in set : InRanges(key.ranges, NumberOf(r, set, key.k, m))}
  BY DEF MatchingKey, NumberOf, InRanges
<1>2. key.k = "Range" =>
        MatchingKey(r, set, i, of) = {m \in set : InRanges(key.ranges, NumberOf(r, set, key.k, m))}
  BY DEF MatchingKey, NumberOf, InRanges
<1>3. key.k = "NOT" => MatchingKey(r, set, i, of) = set \ of[key.parts[1]]
  BY DEF MatchingKey
<1>4. key.k = "OR" => MatchingKey(r, set, i, of) = of[key.parts[1]] \cup of[key.parts[2]]
  BY DEF MatchingKey
<1>5. key.k = "AND" => MatchingKey(r, set, i, of) = {m \in set : \A n \in DOMAIN key.parts : m \in of[key.parts[n]]}
  BY DEF MatchingKey
<1> QED BY <1>1, <1>2, <1>3, <1>4, <1>5

\* The keys inside a key of a well-written text are at later places.
LaterKeys(r, i) == {k \in DOMAIN r.keys : k > i}
\* The keys inside a key are written after its beginning.
LEMMA PartsLater ==
  ASSUME NEW r, WellWritten(r), NEW i \in DOMAIN r.keys, r.keys[i].k \in Joins
  PROVE  /\ r.keys[i].parts \in Seq(LaterKeys(r, i))
         /\ DOMAIN r.keys[i].parts = 1 .. Len(r.keys[i].parts) /\ Len(r.keys[i].parts) \in Nat
         /\ \A n \in 1 .. Len(r.keys[i].parts) : r.keys[i].parts[n] \in LaterKeys(r, i)
         /\ r.keys[i].k = "NOT" => Len(r.keys[i].parts) = 1
         /\ r.keys[i].k = "OR" => Len(r.keys[i].parts) = 2
<1>1. PICK key : key = r.keys[i]
  OBVIOUS
<1>2. key.parts \in Seq(DOMAIN r.keys) /\ WrittenKey(r, i) /\ i \in Nat
  BY <1>1, WrittenFacts
<1>3. PICK from : from > i /\ \E to : Lists(r, key.parts, from, to)
  <2>1. key.k = "NOT" \/ key.k = "OR" => \E to : Lists(r, key.parts, i + 2, to)
    BY <1>1, <1>2, WrittenKinds
  <2>2. key.k = "AND" => \E to : Lists(r, key.parts, i + 1, to)
    BY <1>1, <1>2, WrittenKinds
  <2>3. i + 2 > i /\ i + 1 > i
    BY <1>2
  <2> QED BY <1>1, <2>1, <2>2, <2>3 DEF Joins
<1>4. DOMAIN key.parts = 1 .. Len(key.parts) /\ Len(key.parts) \in Nat
  BY <1>2, SeqDomain
<1>5. \A n \in 1 .. Len(key.parts) : key.parts[n] \in LaterKeys(r, i)
  <2> SUFFICES ASSUME NEW n \in 1 .. Len(key.parts) PROVE key.parts[n] \in LaterKeys(r, i)
    OBVIOUS
  <2>1. PICK q : q = key.parts[n]
    OBVIOUS
  <2>2. q \in DOMAIN r.keys /\ q \in Nat /\ q >= from
    BY <1>2, <1>3, <2>1, ListPlaces
  <2>3. from \in Nat
    <3>1. 1 \in 1 .. Len(key.parts) /\ key.parts[1] = from
      <4>1. key.parts[1] = from /\ key.parts # <<>>
        BY <1>3 DEF Lists
      <4> QED BY <1>2, <4>1
    <3>2. key.parts[1] \in Nat
      BY <1>2, <1>3, <3>1, ListPlaces
    <3> QED BY <3>1, <3>2
  <2>4. q > i
    BY <1>2, <1>3, <2>2, <2>3
  <2> QED BY <2>1, <2>2, <2>4 DEF LaterKeys
<1>6. key.parts \in Seq(LaterKeys(r, i))
  <2>1. key.parts = [n \in 1 .. Len(key.parts) |-> key.parts[n]]
    BY <1>2, <1>4
  <2>2. key.parts \in [1 .. Len(key.parts) -> LaterKeys(r, i)]
    BY <1>5, <2>1
  <2> QED BY <1>4, <2>2, FunctionSeq
<1>7. (key.k = "NOT" => Len(key.parts) = 1) /\ (key.k = "OR" => Len(key.parts) = 2)
  BY <1>1, <1>2, WrittenKinds
<1> QED BY <1>1, <1>4, <1>5, <1>6, <1>7

\* A key without keys inside matches the same whatever other keys match.
LEMMA MatchingConstant ==
  ASSUME NEW r, NEW set, NEW i, r.keys[i].k \in Leaves \cup {"UID", "Range"}
  PROVE  \E V \in SUBSET set : \A h : MatchingKey(r, set, i, h) = V
<1>1. PICK k : k = r.keys[i].k
  OBVIOUS
<1>2. PICK t : t = r.text[i]
  OBVIOUS
<1>3. CASE k \in {"ALL", "UNKEYWORD"}
  <2>1. \A h : MatchingKey(r, set, i, h) = set
    BY <1>1, <1>2, <1>3, MatchingLeaf
  <2> QED BY <2>1
<1>4. CASE k = "KEYWORD"
  <2>1. \A h : MatchingKey(r, set, i, h) = {}
    BY <1>1, <1>4 DEF MatchingKey
  <2> QED BY <2>1
<1>5. CASE k = "flag"
  <2>1. PICK V : V = {m \in set : t.v \in m.flags}
    OBVIOUS
  <2>2. \A h : MatchingKey(r, set, i, h) = V
    BY <1>1, <1>2, <1>5, <2>1 DEF MatchingKey
  <2>3. V \in SUBSET set
    BY <2>1
  <2> QED BY <2>2, <2>3
<1>6. CASE k = "unflag"
  <2>1. PICK V : V = {m \in set : t.v \notin m.flags}
    OBVIOUS
  <2>2. \A h : MatchingKey(r, set, i, h) = V
    BY <1>1, <1>2, <1>6, <2>1 DEF MatchingKey
  <2>3. V \in SUBSET set
    BY <2>1
  <2> QED BY <2>2, <2>3
<1>7. CASE k = "header"
  <2>1. PICK V : V = {m \in set : t.n \in m.words["header"]}
    OBVIOUS
  <2>2. \A h : MatchingKey(r, set, i, h) = V
    BY <1>1, <1>2, <1>7, <2>1 DEF MatchingKey
  <2>3. V \in SUBSET set
    BY <2>1
  <2> QED BY <2>2, <2>3
<1>8. CASE k = "text"
  <2>1. PICK V : V = {m \in set : t.n \in m.words[t.v]}
    OBVIOUS
  <2>2. \A h : MatchingKey(r, set, i, h) = V
    BY <1>1, <1>2, <1>8, <2>1 DEF MatchingKey
  <2>3. V \in SUBSET set
    BY <2>1
  <2> QED BY <2>2, <2>3
<1>9. CASE k = "BEFORE"
  <2>1. PICK V : V = {m \in set : t.n # NotADate /\ date(m, t.v) \in 0 .. 2 * t.n - 1}
    OBVIOUS
  <2>2. \A h : MatchingKey(r, set, i, h) = V
    BY <1>1, <1>2, <1>9, <2>1 DEF MatchingKey
  <2>3. V \in SUBSET set
    BY <2>1
  <2> QED BY <2>2, <2>3
<1>10. CASE k = "ON"
  <2>1. PICK V : V = {m \in set : t.n # NotADate /\ date(m, t.v) = 2 * t.n}
    OBVIOUS
  <2>2. \A h : MatchingKey(r, set, i, h) = V
    BY <1>1, <1>2, <1>10, <2>1 DEF MatchingKey
  <2>3. V \in SUBSET set
    BY <2>1
  <2> QED BY <2>2, <2>3
<1>11. CASE k = "SINCE"
  <2>1. PICK V : V = {m \in set : t.n # NotADate /\ date(m, t.v) > 2 * t.n}
    OBVIOUS
  <2>2. \A h : MatchingKey(r, set, i, h) = V
    BY <1>1, <1>2, <1>11, <2>1 DEF MatchingKey
  <2>3. V \in SUBSET set
    BY <2>1
  <2> QED BY <2>2, <2>3
<1>12. CASE k = "LARGER"
  <2>1. PICK V : V = {m \in set : m.size > t.n}
    OBVIOUS
  <2>2. \A h : MatchingKey(r, set, i, h) = V
    BY <1>1, <1>2, <1>12, <2>1 DEF MatchingKey
  <2>3. V \in SUBSET set
    BY <2>1
  <2> QED BY <2>2, <2>3
<1>13. CASE k = "SMALLER"
  <2>1. PICK V : V = {m \in set : m.size < t.n}
    OBVIOUS
  <2>2. \A h : MatchingKey(r, set, i, h) = V
    BY <1>1, <1>2, <1>13, <2>1 DEF MatchingKey
  <2>3. V \in SUBSET set
    BY <2>1
  <2> QED BY <2>2, <2>3
<1>14. CASE k \in {"UID", "Range"}
  <2>1. PICK V : V = {m \in set : InRanges(r.keys[i].ranges, NumberOf(r, set, k, m))}
    OBVIOUS
  <2>2. \A h : MatchingKey(r, set, i, h) = V
    BY <1>1, <1>14, <2>1, MatchingJoin
  <2>3. V \in SUBSET set
    BY <2>1
  <2> QED BY <2>2, <2>3
<1> QED BY <1>1, <1>3, <1>4, <1>5, <1>6, <1>7, <1>8, <1>9, <1>10, <1>11, <1>12, <1>13, <1>14 DEF Leaves

\* A key matches messages of the folder, by what the keys inside match.
LEMMA MatchingStep ==
  ASSUME NEW r, WellWritten(r), NEW set, NEW i \in DOMAIN r.keys, NEW of \in [DOMAIN r.keys -> SUBSET set]
  PROVE  /\ MatchingKey(r, set, i, of) \in SUBSET set
         /\ \A h : (\A k \in LaterKeys(r, i) : of[k] = h[k]) =>
              MatchingKey(r, set, i, of) = MatchingKey(r, set, i, h)
<1>1. PICK key : key = r.keys[i]
  OBVIOUS
<1>2. key.k \in Leaves \cup {"UID", "Range"} \cup Joins
  <2>1. key.k \in Kinds
    BY <1>1, WrittenFacts
  <2> QED BY <2>1 DEF Kinds, Joins
<1>3. CASE key.k \in Leaves \cup {"UID", "Range"}
  <2>1. PICK V \in SUBSET set : \A h : MatchingKey(r, set, i, h) = V
    BY <1>1, <1>3, MatchingConstant
  <2> QED BY <2>1
<1>4. CASE key.k \in Joins
  <2>1. /\ DOMAIN key.parts = 1 .. Len(key.parts)
        /\ \A n \in 1 .. Len(key.parts) : key.parts[n] \in LaterKeys(r, i) /\ of[key.parts[n]] \in SUBSET set
        /\ key.k = "NOT" => Len(key.parts) = 1
        /\ key.k = "OR" => Len(key.parts) = 2
    BY <1>1, <1>4, PartsLater DEF LaterKeys
  <2>2. CASE key.k = "NOT"
    <3>1. Len(key.parts) = 1
      BY <2>1, <2>2
    <3>2. key.parts[1] \in LaterKeys(r, i)
      BY <2>1, <3>1
    <3>3. \A h : MatchingKey(r, set, i, h) = set \ h[key.parts[1]]
      BY <1>1, <2>2, MatchingJoin
    <3> QED BY <3>2, <3>3
  <2>3. CASE key.k = "OR"
    <3>1. Len(key.parts) = 2
      BY <2>1, <2>3
    <3>2. /\ key.parts[1] \in LaterKeys(r, i) /\ of[key.parts[1]] \in SUBSET set
          /\ key.parts[2] \in LaterKeys(r, i) /\ of[key.parts[2]] \in SUBSET set
      BY <2>1, <3>1
    <3>3. \A h : MatchingKey(r, set, i, h) = h[key.parts[1]] \cup h[key.parts[2]]
      BY <1>1, <2>3, MatchingJoin
    <3> QED BY <3>2, <3>3
  <2>4. CASE key.k = "AND"
    <3>1. \A h : MatchingKey(r, set, i, h) = {m \in set : \A n \in DOMAIN key.parts : m \in h[key.parts[n]]}
      BY <1>1, <2>4 DEF MatchingKey
    <3> QED BY <2>1, <3>1
  <2> QED BY <1>4, <2>2, <2>3, <2>4 DEF Joins
<1> QED BY <1>2, <1>3, <1>4

\* The messages that match are defined key by key.
LEMMA MatchingFacts ==
  ASSUME NEW r, WellWritten(r), NEW set
  PROVE  /\ MatchingKeys(r, set) \in [DOMAIN r.keys -> SUBSET set]
         /\ \A i \in DOMAIN r.keys : MatchingKeys(r, set)[i] = MatchingKey(r, set, i, MatchingKeys(r, set))
<1>1. PICK N \in Nat : N = Len(r.text)
  BY WrittenFacts
<1>2. PICK D : D = DOMAIN r.keys
  OBVIOUS
<1>3. PICK W : W = SUBSET set
  OBVIOUS
<1>4. \A i \in D : i \in 1 .. N
  BY <1>1, <1>2, WrittenFacts
<1>5. PICK rank : rank = [i \in D |-> N - i]
  OBVIOUS
<1>6. PICK R : R = [i \in D |-> [g \in [D -> W] |-> MatchingKey(r, set, i, g)]]
  OBVIOUS
<1>7. rank \in [D -> 0 .. N] /\ \A i \in D : \A k \in LaterKeys(r, i) : k \in D /\ rank[k] < rank[i]
  <2>1. \A i \in D : N - i \in 0 .. N
    BY <1>4
  <2>2. \A i, k \in D : k > i => N - k < N - i
    BY <1>4
  <2> QED BY <1>2, <1>5, <2>1, <2>2 DEF LaterKeys
<1>8. ASSUME NEW i \in D, NEW g \in [D -> W]
      PROVE  /\ MatchingKey(r, set, i, g) \in W
             /\ \A h : (\A k \in LaterKeys(r, i) : g[k] = h[k]) =>
                  MatchingKey(r, set, i, g) = MatchingKey(r, set, i, h)
  BY <1>2, <1>3, MatchingStep
<1>9. R \in [D -> [[D -> W] -> W]] /\ \A i \in D, g \in [D -> W] : R[i][g] = MatchingKey(r, set, i, g)
  BY <1>6, <1>8
<1>10. ASSUME NEW i \in D, NEW g \in [D -> W], NEW h \in [D -> W], \A k \in D : rank[k] < rank[i] => g[k] = h[k]
       PROVE  R[i][g] = R[i][h]
  <2>1. \A k \in LaterKeys(r, i) : g[k] = h[k]
    BY <1>7, <1>10
  <2>2. MatchingKey(r, set, i, g) = MatchingKey(r, set, i, h)
    BY <1>8, <2>1
  <2> QED BY <1>9, <2>2
<1>11. W # {}
  BY <1>3
<1>12. RecursiveIn(N, D, rank, W, R)
  BY <1>1, <1>7, <1>9, <1>10, <1>11 DEF RecursiveIn
<1>13. PICK f \in [D -> W] : \A i \in D : f[i] = R[i][f]
  BY <1>12, RecursionIn
<1>14. f = [i \in D |-> MatchingKey(r, set, i, f)]
  BY <1>9, <1>13
<1>15. PICK of : of = CHOOSE g : g = [i \in D |-> MatchingKey(r, set, i, g)]
  OBVIOUS
<1>16. of = [i \in D |-> MatchingKey(r, set, i, of)]
  BY <1>14, <1>15
<1>17. MatchingKeys(r, set) = of
  BY <1>2, <1>15 DEF MatchingKeys
<1>18. \A i \in D : of[i] \in W
  <2> SUFFICES ASSUME NEW j \in D PROVE of[j] \in W
    OBVIOUS
  <2>1. PICK P : P = {i \in 1 .. N : i \in D => of[i] \in W}
    OBVIOUS
  <2>2. ASSUME NEW i \in 1 .. N, \A k \in i + 1 .. N : k \in P PROVE i \in P
    <3> SUFFICES ASSUME i \in D PROVE of[i] \in W
      BY <2>1
    <3>1. \A k \in LaterKeys(r, i) : k \in D /\ of[k] \in W
      <4>1. \A k \in D : k > i => k \in i + 1 .. N
        BY <1>4
      <4> QED BY <1>2, <2>1, <2>2, <4>1 DEF LaterKeys
    <3>2. PICK g : g = [k \in D |-> IF k \in LaterKeys(r, i) THEN of[k] ELSE {}]
      OBVIOUS
    <3>3. g \in [D -> W] /\ \A k \in LaterKeys(r, i) : g[k] = of[k]
      <4>1. {} \in W
        BY <1>3
      <4> QED BY <3>1, <3>2, <4>1
    <3>4. MatchingKey(r, set, i, g) \in W /\ MatchingKey(r, set, i, g) = MatchingKey(r, set, i, of)
      BY <1>8, <3>3
    <3>5. of[i] = MatchingKey(r, set, i, of)
      BY <1>16
    <3> QED BY <3>4, <3>5
  <2>3. \A i \in 1 .. N : i \in P
    BY <2>2, Places
  <2> QED BY <1>4, <2>1, <2>3
<1>19. of \in [D -> W] /\ \A i \in D : of[i] = MatchingKey(r, set, i, of)
  BY <1>16, <1>18
<1> QED BY <1>2, <1>3, <1>17, <1>19

-----------------------------------------------------------------------------
(* A verdict is whether the message matches *)

Right(v, b) == v # "panic" => (v = "yes" <=> b)

\* The fields of a message.
LEMMA MessageType ==
  ASSUME NEW m \in Messages
  PROVE  /\ m.uid \in Nat /\ m.size \in Int /\ m.sent \in Nat \cup {NoDate} /\ m.received \in Nat \cup {NoDate}
         /\ \A which : date(m, which) \in Nat \cup {NoDate}
BY DEF Messages, date

\* A condition of a message is decided as it is meant.
LEMMA LeafRight ==
  ASSUME NEW r, NEW i, NEW k, NEW t, k = r.keys[i].k, t = r.text[i], k \in Leaves,
         k \in Dates => t.n \in Nat \cup {NotADate, BadDay},
         NEW p, p.k = k, p.token = t, NEW set \in SUBSET Messages, NEW m \in set, NEW number, NEW is_uid, NEW check, NEW of
  PROVE  Right(check_search_condition(p, m, number, is_uid, check), m \in MatchingKey(r, set, i, of))
<1>1. PICK v : v = check_search_condition(p, m, number, is_uid, check)
  OBVIOUS
<1>2. PICK V : V = MatchingKey(r, set, i, of)
  OBVIOUS
<1>3. CASE k \in {"ALL", "UNKEYWORD"}
  <2>1. v = "yes" /\ V = set
    BY <1>1, <1>2, <1>3 DEF check_search_condition, MatchingKey
  <2> QED BY <1>1, <1>2, <2>1 DEF Right
<1>4. CASE k = "KEYWORD"
  <2>1. v = "no" /\ V = {}
    BY <1>1, <1>2, <1>4 DEF check_search_condition, MatchingKey
  <2> QED BY <1>1, <1>2, <2>1 DEF Right
<1>5. CASE k = "flag"
  <2>1. v = Yes(t.v \in m.flags)
    BY <1>1, <1>5 DEF check_search_condition
  <2>2. m \in V <=> t.v \in m.flags
    BY <1>2, <1>5 DEF MatchingKey
  <2> QED BY <1>1, <1>2, <2>1, <2>2 DEF Right, Yes
<1>6. CASE k = "unflag"
  <2>1. v = Yes(t.v \notin m.flags)
    BY <1>1, <1>6 DEF check_search_condition
  <2>2. m \in V <=> t.v \notin m.flags
    BY <1>2, <1>6 DEF MatchingKey
  <2> QED BY <1>1, <1>2, <2>1, <2>2 DEF Right, Yes
<1>7. CASE k = "header"
  <2>1. v = IF m.broken THEN "panic" ELSE Yes(t.n \in m.words["header"])
    BY <1>1, <1>7 DEF check_search_condition, header_contains
  <2>2. m \in V <=> t.n \in m.words["header"]
    BY <1>2, <1>7 DEF MatchingKey
  <2> QED BY <1>1, <1>2, <2>1, <2>2 DEF Right, Yes
<1>8. CASE k = "text"
  <2>1. v = Yes(t.n \in m.words[t.v])
    BY <1>1, <1>8 DEF check_search_condition, body_contains
  <2>2. m \in V <=> t.n \in m.words[t.v]
    BY <1>2, <1>8 DEF MatchingKey
  <2> QED BY <1>1, <1>2, <2>1, <2>2 DEF Right, Yes
<1>9. CASE k \in Dates
  <2>1. PICK n : n = t.n
    OBVIOUS
  <2>2. PICK time : time = date(m, t.v)
    OBVIOUS
  <2>3. n \in Nat \cup {-1, -2} /\ time \in Nat \cup {-1}
    BY <1>9, <2>1, <2>2, MessageType DEF NotADate, BadDay, NoDate
  <2>4. CASE k = "BEFORE"
    <3>1. v = IF n = -2 THEN "panic" ELSE Yes(n # -1 /\ time # -1 /\ time < 2 * n)
      BY <1>1, <2>1, <2>2, <2>4 DEF check_search_condition, NotADate, BadDay, NoDate
    <3>2. m \in V <=> n # -1 /\ time \in 0 .. 2 * n - 1
      BY <1>2, <2>1, <2>2, <2>4 DEF MatchingKey, NotADate
    <3>3. n # -2 => ((n # -1 /\ time # -1 /\ time < 2 * n) <=> (n # -1 /\ time \in 0 .. 2 * n - 1))
      BY <2>3
    <3> QED BY <1>1, <1>2, <3>1, <3>2, <3>3 DEF Right, Yes
  <2>5. CASE k = "ON"
    <3>1. v = IF n = -2 THEN "panic" ELSE Yes(n # -1 /\ time # -1 /\ time = 2 * n)
      BY <1>1, <2>1, <2>2, <2>5 DEF check_search_condition, NotADate, BadDay, NoDate
    <3>2. m \in V <=> n # -1 /\ time = 2 * n
      BY <1>2, <2>1, <2>2, <2>5 DEF MatchingKey, NotADate
    <3>3. n # -2 => ((n # -1 /\ time # -1 /\ time = 2 * n) <=> (n # -1 /\ time = 2 * n))
      BY <2>3
    <3> QED BY <1>1, <1>2, <3>1, <3>2, <3>3 DEF Right, Yes
  <2>6. CASE k = "SINCE"
    <3>1. v = IF n = -2 THEN "panic" ELSE Yes(n # -1 /\ time # -1 /\ time > 2 * n)
      BY <1>1, <2>1, <2>2, <2>6 DEF check_search_condition, NotADate, BadDay, NoDate
    <3>2. m \in V <=> n # -1 /\ time > 2 * n
      BY <1>2, <2>1, <2>2, <2>6 DEF MatchingKey, NotADate
    <3>3. n # -2 => ((n # -1 /\ time # -1 /\ time > 2 * n) <=> (n # -1 /\ time > 2 * n))
      BY <2>3
    <3> QED BY <1>1, <1>2, <3>1, <3>2, <3>3 DEF Right, Yes
  <2> QED BY <1>9, <2>4, <2>5, <2>6 DEF Dates
<1>10. CASE k = "LARGER"
  <2>1. v = Yes(m.size > t.n)
    BY <1>1, <1>10 DEF check_search_condition
  <2>2. m \in V <=> m.size > t.n
    BY <1>2, <1>10 DEF MatchingKey
  <2> QED BY <1>1, <1>2, <2>1, <2>2 DEF Right, Yes
<1>11. CASE k = "SMALLER"
  <2>1. v = Yes(m.size < t.n)
    BY <1>1, <1>11 DEF check_search_condition
  <2>2. m \in V <=> m.size < t.n
    BY <1>2, <1>11 DEF MatchingKey
  <2> QED BY <1>1, <1>2, <2>1, <2>2 DEF Right, Yes
<1> QED BY <1>3, <1>4, <1>5, <1>6, <1>7, <1>8, <1>9, <1>10, <1>11 DEF Leaves, Dates

\* The number of a message of the folder.
PlaceIn(set, m) == Cardinality({o \in set : o.uid <= m.uid})
\* The place of a message is a number.
LEMMA PlacedType ==
  ASSUME NEW set, IsFiniteSet(set), NEW m PROVE PlaceIn(set, m) \in Nat
<1>1. PICK S : S = {o \in set : o.uid <= m.uid}
  OBVIOUS
<1>2. S \subseteq set
  BY <1>1
<1>3. IsFiniteSet(S)
  BY <1>2, FS_Subset
<1> QED BY <1>1, <1>3, FS_CardinalityType DEF PlaceIn

\* So is a range.
LEMMA RangeRight ==
  ASSUME NEW r, NEW i, NEW key, key = r.keys[i], key.k \in {"UID", "Range"},
         key.ranges \in Seq(Spans), Len(key.ranges) = 1,
         NEW p, p.k = key.k, p.range = key.ranges[1],
         NEW set \in SUBSET Messages, IsFiniteSet(set), NEW m \in set, NEW check, NEW of
  PROVE  Right(check_search_condition(p, m, PlaceIn(set, m), r.is_uid, check), m \in MatchingKey(r, set, i, of))
<1>1. PICK v : v = check_search_condition(p, m, PlaceIn(set, m), r.is_uid, check)
  OBVIOUS
<1>2. PICK V : V = MatchingKey(r, set, i, of)
  OBVIOUS
<1>3. PICK q : q = key.ranges[1]
  OBVIOUS
<1>4. PICK n : n = NumberOf(r, set, key.k, m)
  OBVIOUS
<1>5. v = Yes(contains(q, n))
  <2>1. key.k = "UID" => v = Yes(contains(q, n))
    BY <1>1, <1>3, <1>4 DEF check_search_condition, NumberOf
  <2>2. key.k = "Range" => v = Yes(contains(q, n))
    BY <1>1, <1>3, <1>4 DEF check_search_condition, NumberOf, PlaceIn
  <2> QED BY <2>1, <2>2
<1>6. n \in Nat
  <2>1. m.uid \in Nat /\ PlaceIn(set, m) \in Nat
    BY PlacedType, MessageType
  <2> QED BY <1>4, <2>1 DEF NumberOf, PlaceIn
<1>7. DOMAIN key.ranges = {1} /\ q \in Spans
  <2>1. DOMAIN key.ranges = 1 .. 1 /\ 1 \in 1 .. Len(key.ranges)
    BY SeqDomain
  <2>2. 1 .. 1 = {1}
    OBVIOUS
  <2> QED BY <1>3, <2>1, <2>2, ElementType
<1>8. q.lo \in Int /\ q.hi \in Int
  BY <1>7, NumberAssumption DEF Spans, All
<1>9. m \in V <=> InRanges(key.ranges, n)
  BY <1>2, <1>4, MatchingJoin
<1>10. InRanges(key.ranges, n) <=> n \in q.lo .. q.hi
  BY <1>3, <1>7 DEF InRanges
<1>11. contains(q, n) <=> n \in q.lo .. q.hi
  BY <1>6, <1>8 DEF contains
<1> QED BY <1>1, <1>2, <1>5, <1>9, <1>10, <1>11 DEF Right, Yes

\* So are keys that are joined, if those inside are.
LEMMA JoinRight ==
  ASSUME NEW S, NEW p, Node(p, S), NEW m, NEW number, NEW is_uid, NEW check, NEW of,
         \A k \in S : check[k] \in VerdictSet /\ Right(check[k], m \in of[k])
  PROVE  /\ p.k = "NOT" => Right(check_search_condition(p, m, number, is_uid, check), m \notin of[p.parts[1]])
         /\ p.k = "OR" => Right(check_search_condition(p, m, number, is_uid, check),
                                m \in of[p.parts[1]] \cup of[p.parts[2]])
         /\ p.k = "AND" => Right(check_search_condition(p, m, number, is_uid, check),
                                 \A n \in DOMAIN p.parts : m \in of[p.parts[n]])
<1>1. PICK v : v = check_search_condition(p, m, number, is_uid, check)
  OBVIOUS
<1>2. p.parts \in Seq(S) /\ DOMAIN p.parts = 1 .. Len(p.parts)
  <2>1. p.parts \in Seq(S)
    BY DEF Node
  <2> QED BY <2>1, SeqDomain
<1>3. \A n \in 1 .. Len(p.parts) : p.parts[n] \in S
  BY <1>2, ElementType
<1>4. ASSUME p.k = "NOT" PROVE Right(v, m \notin of[p.parts[1]])
  <2>1. Len(p.parts) = 1
    BY <1>4 DEF Node
  <2>2. PICK a : a = p.parts[1]
    OBVIOUS
  <2>3. a \in S
    BY <1>3, <2>1, <2>2
  <2>4. v = IF check[a] = "panic" THEN "panic" ELSE Yes(check[a] = "no")
    BY <1>1, <1>4, <2>2, JoinVerdict
  <2>5. check[a] \in VerdictSet /\ Right(check[a], m \in of[a])
    BY <2>3
  <2> QED BY <2>2, <2>4, <2>5 DEF VerdictSet, Right, Yes
<1>5. ASSUME p.k = "OR" PROVE Right(v, m \in of[p.parts[1]] \cup of[p.parts[2]])
  <2>1. Len(p.parts) = 2
    BY <1>5 DEF Node
  <2>2. PICK a : a = p.parts[1]
    OBVIOUS
  <2>3. PICK b : b = p.parts[2]
    OBVIOUS
  <2>4. a \in S /\ b \in S
    BY <1>3, <2>1, <2>2, <2>3
  <2>5. v = IF check[a] = "no" THEN check[b] ELSE check[a]
    BY <1>1, <1>5, <2>2, <2>3, JoinVerdict
  <2>6. check[a] \in VerdictSet /\ Right(check[a], m \in of[a]) /\ check[b] \in VerdictSet /\ Right(check[b], m \in of[b])
    BY <2>4
  <2> QED BY <2>2, <2>3, <2>5, <2>6 DEF VerdictSet, Right
<1>6. ASSUME p.k = "AND" PROVE Right(v, \A n \in DOMAIN p.parts : m \in of[p.parts[n]])
  <2>1. PICK stops : stops = Stops(p, check)
    OBVIOUS
  <2>2. v = IF stops = {} THEN "yes" ELSE check[p.parts[Min(stops)]]
    BY <1>1, <1>6, <2>1, JoinVerdict
  <2>3. stops \in SUBSET (1 .. Len(p.parts)) /\ \A n \in 1 .. Len(p.parts) : n \in stops <=> check[p.parts[n]] # "yes"
    BY <1>2, <2>1 DEF Stops
  <2>4. CASE stops = {}
    <3>1. \A n \in 1 .. Len(p.parts) : check[p.parts[n]] = "yes"
      BY <2>3, <2>4
    <3>2. \A n \in 1 .. Len(p.parts) : m \in of[p.parts[n]]
      BY <1>3, <3>1 DEF Right
    <3> QED BY <1>2, <2>2, <2>4, <3>2 DEF Right
  <2>5. CASE stops # {}
    <3>1. PICK n : n = Min(stops)
      OBVIOUS
    <3>2. n \in stops /\ n \in 1 .. Len(p.parts)
      <4>1. stops \in SUBSET Nat
        BY <2>3
      <4> QED BY <2>3, <2>5, <3>1, <4>1, MinIn
    <3>3. PICK a : a = p.parts[n]
      OBVIOUS
    <3>4. v = check[a] /\ check[a] # "yes" /\ a \in S
      BY <1>3, <2>2, <2>3, <2>5, <3>1, <3>2, <3>3
    <3>5. v # "panic" => m \notin of[a]
      BY <3>4 DEF Right
    <3> QED BY <1>2, <3>2, <3>3, <3>4, <3>5 DEF Right
  <2> QED BY <2>4, <2>5
<1> QED BY <1>1, <1>4, <1>5, <1>6

\* Messages of a folder.
Box(set) ==
  IsFiniteSet(set) /\ set \in SUBSET Messages /\ \A m, o \in set : m.uid = o.uid => m = o

\* The verdict of each key on a message, unless it panics, is whether the message
\* matches the key that is meant.
LEMMA VerdictsMeant ==
  ASSUME NEW r, WellWritten(r), Plain(r.text), NEW set, Box(set), NEW m \in set
  PROVE  \A i \in DOMAIN r.keys :
           Right(Verdicts(Parse(r.text), m, PlaceIn(set, m), r.is_uid)[i], m \in MatchingKeys(r, set)[i])
<1>1. PICK x : x = r.text
  OBVIOUS
<1>2. PICK check : check = Verdicts(Parse(x), m, PlaceIn(set, m), r.is_uid)
  OBVIOUS
<1>3. PICK of : of = MatchingKeys(r, set)
  OBVIOUS
<1>4. Small(x) /\ x \in Seq(Tokens) /\ \A i \in DOMAIN r.keys : i \in 1 .. Len(x) /\ i \in 1 .. Len(x) + 1
  BY <1>1, WrittenFacts
<1>5. \A i \in 1 .. Len(x) + 1 : /\ check[i] \in VerdictSet
                                 /\ check[i] = CheckedAt(x, m, PlaceIn(set, m), r.is_uid, i, check)
  BY <1>2, <1>4, VerdictFacts
<1>6. \A i \in DOMAIN r.keys : of[i] = MatchingKey(r, set, i, of)
  BY <1>3, MatchingFacts
<1>7. \A i \in DOMAIN r.keys : KeyMeant(r, i)
  BY KeysMeant
<1>8. ASSUME NEW i \in DOMAIN r.keys, \A k \in LaterKeys(r, i) : Right(check[k], m \in of[k])
      PROVE  Right(check[i], m \in of[i])
  <2>1. PICK key : key = r.keys[i]
    OBVIOUS
  <2>2. PICK p : p = Parse(x)[i].key.value
    OBVIOUS
  <2>3. NodeMeant(p, key) /\ Parse(x)[i].key.is = "ok"
    BY <1>1, <1>7, <2>1, <2>2 DEF KeyMeant
  <2>4. check[i] = check_search_condition(p, m, PlaceIn(set, m), r.is_uid, check)
    BY <1>4, <1>5, <2>2, <2>3 DEF CheckedAt, checked_at
  <2>5. of[i] = MatchingKey(r, set, i, of)
    BY <1>6
  <2>6. p \in NodeAt(x, i) /\ p.k = key.k
    <3>1. Parse(x)[i].key \in KeyAt(x, i)
      BY <1>4, TreeStep
    <3> QED BY <1>4, <2>2, <2>3, <3>1, KeyAtFacts DEF NodeMeant
  <2>7. key.k \in Leaves \cup {"UID", "Range"} \cup Joins
    <3>1. key.k \in Kinds
      BY <2>1, WrittenFacts
    <3> QED BY <3>1 DEF Kinds, Joins
  <2>8. IsFiniteSet(set) /\ set \in SUBSET Messages
    BY DEF Box
  <2>9. CASE key.k \in Leaves
    <3>1. p.token = x[i]
      BY <2>6, <2>9, NodeAtNode
    <3>2. key.k \in Dates => x[i].n \in Nat \cup {NotADate, BadDay}
      <4>1. x[i].t = key.k /\ i \in DOMAIN x
        <5>1. DOMAIN x = 1 .. Len(x)
          BY <1>4, SeqDomain
        <5> QED BY <1>4, <2>6, <2>9, <5>1, NodeAtNode
      <4> QED BY <1>1, <4>1 DEF WellWritten
    <3>3. PICK t : t = x[i]
      OBVIOUS
    <3>4. Right(check_search_condition(p, m, PlaceIn(set, m), r.is_uid, check), m \in MatchingKey(r, set, i, of))
      BY <1>1, <2>1, <2>6, <2>8, <2>9, <3>1, <3>2, <3>3, LeafRight
    <3> QED BY <2>4, <2>5, <3>4
  <2>10. CASE key.k \in {"UID", "Range"}
    <3>1. key.ranges \in Seq(Spans) /\ Len(key.ranges) = 1 /\ p.range = key.ranges[1]
      BY <2>1, <2>3, <2>10, WrittenFacts DEF NodeMeant
    <3>2. Right(check_search_condition(p, m, PlaceIn(set, m), r.is_uid, check), m \in MatchingKey(r, set, i, of))
      BY <2>1, <2>6, <2>8, <2>10, <3>1, RangeRight
    <3> QED BY <2>4, <2>5, <3>2
  <2>11. CASE key.k \in Joins
    <3>1. PICK S : S = LaterKeys(r, i)
      OBVIOUS
    <3>2. p.parts = key.parts
      BY <2>3, <2>11 DEF NodeMeant, Joins
    <3>3. Node(p, S)
      <4>1. key.parts \in Seq(S) /\ (key.k = "NOT" => Len(key.parts) = 1) /\ (key.k = "OR" => Len(key.parts) = 2)
        BY <2>1, <2>11, <3>1, PartsLater
      <4>2. key.k \in Kinds
        BY <2>1, WrittenFacts
      <4> QED BY <2>6, <3>2, <4>1, <4>2 DEF Node
    <3>4. \A k \in S : check[k] \in VerdictSet /\ Right(check[k], m \in of[k])
      <4>1. \A k \in S : k \in 1 .. Len(x) + 1
        BY <1>4, <3>1 DEF LaterKeys
      <4> QED BY <1>5, <1>8, <3>1, <4>1
    <3>5. PICK v : v = check_search_condition(p, m, PlaceIn(set, m), r.is_uid, check)
      OBVIOUS
    <3>6. /\ p.k = "NOT" => Right(v, m \notin of[p.parts[1]])
          /\ p.k = "OR" => Right(v, m \in of[p.parts[1]] \cup of[p.parts[2]])
          /\ p.k = "AND" => Right(v, \A n \in DOMAIN p.parts : m \in of[p.parts[n]])
      BY <3>3, <3>4, <3>5, JoinRight
    <3>7. CASE key.k = "NOT"
      <4>1. m \in of[i] <=> m \notin of[key.parts[1]]
        BY <2>1, <2>5, <3>7, MatchingJoin
      <4> QED BY <2>4, <2>6, <3>2, <3>5, <3>6, <3>7, <4>1 DEF Right
    <3>8. CASE key.k = "OR"
      <4>1. m \in of[i] <=> m \in of[key.parts[1]] \cup of[key.parts[2]]
        BY <2>1, <2>5, <3>8, MatchingJoin
      <4> QED BY <2>4, <2>6, <3>2, <3>5, <3>6, <3>8, <4>1 DEF Right
    <3>9. CASE key.k = "AND"
      <4>1. m \in of[i] <=> \A n \in DOMAIN key.parts : m \in of[key.parts[n]]
        BY <2>1, <2>5, <3>9, MatchingJoin
      <4> QED BY <2>4, <2>6, <3>2, <3>5, <3>6, <3>9, <4>1 DEF Right
    <3> QED BY <2>11, <3>7, <3>8, <3>9 DEF Joins
  <2> QED BY <2>7, <2>9, <2>10, <2>11
<1>9. PICK N \in Nat : N = Len(x)
  BY <1>4
<1>10. PICK P : P = {i \in 1 .. N : i \in DOMAIN r.keys => Right(check[i], m \in of[i])}
  OBVIOUS
<1>11. ASSUME NEW i \in 1 .. N, \A k \in i + 1 .. N : k \in P PROVE i \in P
  <2> SUFFICES ASSUME i \in DOMAIN r.keys PROVE Right(check[i], m \in of[i])
    BY <1>10
  <2>1. \A k \in LaterKeys(r, i) : k \in DOMAIN r.keys /\ k \in i + 1 .. N
    BY <1>4, <1>9 DEF LaterKeys
  <2>2. \A k \in LaterKeys(r, i) : Right(check[k], m \in of[k])
    BY <1>10, <1>11, <2>1
  <2> QED BY <1>8, <2>2
<1>12. \A i \in 1 .. N : i \in P
  BY <1>11, Places
<1> QED BY <1>1, <1>2, <1>3, <1>4, <1>9, <1>10, <1>12

\* The verdict of the program is whether the message matches the search.
LEMMA ProgramRight ==
  ASSUME NEW r, WellWritten(r), Plain(r.text), NEW set, Box(set), NEW m \in set,
         NEW p, p = search_program(Parse(r.text)).value
  PROVE  Right(Judged(r, p, m, PlaceIn(set, m)), m \in Matching(r, set))
<1>1. PICK x : x = r.text
  OBVIOUS
<1>2. PICK check : check = Verdicts(Parse(x), m, PlaceIn(set, m), r.is_uid)
  OBVIOUS
<1>3. PICK of : of = MatchingKeys(r, set)
  OBVIOUS
<1>4. PICK v : v = Judged(r, p, m, PlaceIn(set, m))
  OBVIOUS
<1>5. v = check_search_condition(p, m, PlaceIn(set, m), r.is_uid, check)
  BY <1>1, <1>2, <1>4 DEF Judged
<1>6. Small(x) /\ x \in Seq(Tokens) /\ \A i \in DOMAIN r.keys : i \in 1 .. Len(x) /\ i \in 1 .. Len(x) + 1
  BY <1>1, WrittenFacts
<1>7. /\ \A i \in 1 .. Len(x) + 1 : check[i] \in VerdictSet
      /\ \A i \in 1 .. Len(x) + 1 : check[i] = CheckedAt(x, m, PlaceIn(set, m), r.is_uid, i, check)
      /\ \A i \in DOMAIN r.keys : Right(check[i], m \in of[i])
  BY <1>1, <1>2, <1>3, <1>6, VerdictFacts, VerdictsMeant
<1>8. r.top \in Seq(DOMAIN r.keys) /\ r.top # <<>> /\ 1 \in DOMAIN r.keys /\ r.top[1] = 1
  BY TopFacts
<1>9. m \in Matching(r, set) <=> \A n \in DOMAIN r.top : m \in of[r.top[n]]
  BY <1>3 DEF Matching
<1>10. CASE Len(r.top) > 1
  <2>1. p.k = "AND" /\ p.parts = r.top
    BY <1>10, ProgramMeant, AroundFacts
  <2>2. PICK S : S = DOMAIN r.keys
    OBVIOUS
  <2>3. Node(p, S)
    BY <1>8, <2>1, <2>2 DEF Node, Kinds
  <2>4. \A k \in S : check[k] \in VerdictSet /\ Right(check[k], m \in of[k])
    BY <1>6, <1>7, <2>2
  <2>5. Right(v, \A n \in DOMAIN p.parts : m \in of[p.parts[n]])
    BY <1>5, <2>1, <2>3, <2>4, JoinRight
  <2> QED BY <1>4, <1>9, <2>1, <2>5 DEF Right
<1>11. CASE ~(Len(r.top) > 1)
  <2>1. p = Parse(x)[1].key.value
    BY <1>1, <1>11, ProgramMeant
  <2>2. Parse(x)[1].key.is = "ok"
    <3>1. KeyMeant(r, 1)
      BY <1>8, KeysMeant
    <3> QED BY <1>1, <3>1 DEF KeyMeant
  <2>3. check[1] = v
    <3>1. check[1] = CheckedAt(x, m, PlaceIn(set, m), r.is_uid, 1, check)
      BY <1>6, <1>7, <1>8
    <3> QED BY <1>5, <2>1, <2>2, <3>1 DEF CheckedAt, checked_at
  <2>4. DOMAIN r.top = {1}
    <3>1. Len(r.top) \in Nat /\ Len(r.top) # 0 /\ DOMAIN r.top = 1 .. Len(r.top)
      BY <1>8, SeqDomain
    <3>2. Len(r.top) = 1
      <4>1. PICK L : L = Len(r.top)
        OBVIOUS
      <4>2. L \in Nat /\ L # 0 /\ ~(L > 1)
        BY <1>11, <3>1, <4>1
      <4>3. L = 1
        BY <4>2
      <4> QED BY <4>1, <4>3
    <3>3. 1 .. 1 = {1}
      OBVIOUS
    <3> QED BY <3>1, <3>2, <3>3
  <2>5. m \in Matching(r, set) <=> m \in of[1]
    BY <1>8, <1>9, <2>4
  <2>6. Right(check[1], m \in of[1])
    BY <1>7, <1>8
  <2> QED BY <1>4, <2>3, <2>5, <2>6 DEF Right
<1> QED BY <1>10, <1>11

-----------------------------------------------------------------------------
(* Messages and numbers in their order *)

\* The messages in their order: the place of each is its number.
LEMMA InOrderFacts ==
  ASSUME NEW set, Box(set), NEW list, list = InOrder(set)
  PROVE  /\ list \in Seq(set) /\ DOMAIN list = 1 .. Cardinality(set) /\ Cardinality(set) \in Nat
         /\ \A i \in 1 .. Cardinality(set) : list[i] \in set /\ PlaceIn(set, list[i]) = i
         /\ \A m \in set : PlaceIn(set, m) \in 1 .. Cardinality(set) /\ list[PlaceIn(set, m)] = m
<1>1. PICK key : key = [m \in set |-> m.uid]
  OBVIOUS
<1>2. IsFiniteSet(set) /\ set \in SUBSET Messages /\ \A m, o \in set : m.uid = o.uid => m = o
  BY DEF Box
<1>3. \A m \in set : key[m] = m.uid /\ m.uid \in Nat
  BY <1>1, <1>2, MessageType
<1>4. Keys(set, key)
  BY <1>2, <1>3 DEF Keys
<1>5. list \in Seq(set) /\ Len(list) = Cardinality(set) /\ \A i \in 1 .. Cardinality(set) : RankIn(set, key, list[i]) = i
  BY <1>1, <1>4, Ascends DEF InOrder
<1>6. \A m \in set : RankIn(set, key, m) = PlaceIn(set, m)
  BY <1>3 DEF RankIn, PlaceIn
<1>7. Cardinality(set) \in Nat /\ DOMAIN list = 1 .. Cardinality(set) /\ \A i \in 1 .. Cardinality(set) : list[i] \in set
  BY <1>2, <1>5, FS_CardinalityType, SeqDomain, ElementType
<1>8. \A i \in 1 .. Cardinality(set) : PlaceIn(set, list[i]) = i
  BY <1>5, <1>6, <1>7
<1>9. ASSUME NEW m \in set PROVE PlaceIn(set, m) \in 1 .. Cardinality(set) /\ list[PlaceIn(set, m)] = m
  <2>1. PlaceIn(set, m) \in 1 .. Cardinality(set)
    BY <1>4, <1>6, RankGrows
  <2>2. PICK o : o = list[PlaceIn(set, m)]
    OBVIOUS
  <2>3. o \in set /\ RankIn(set, key, o) = RankIn(set, key, m)
    BY <1>6, <1>7, <1>8, <2>1, <2>2
  <2>4. RankIn(set, key, m) \in Nat
    BY <1>4, RankGrows
  <2>5. ~(RankIn(set, key, o) < RankIn(set, key, m)) /\ ~(RankIn(set, key, m) < RankIn(set, key, o))
    BY <2>3, <2>4
  <2>6. ~(key[o] < key[m]) /\ ~(key[m] < key[o])
    BY <1>4, <2>3, <2>5, RankGrows
  <2>7. o.uid = m.uid
    BY <1>3, <2>3, <2>6
  <2> QED BY <1>2, <2>1, <2>2, <2>3, <2>7
<1> QED BY <1>5, <1>7, <1>8, <1>9

\* Numbers in their order.
LEMMA SortedFacts ==
  ASSUME NEW S, S \in SUBSET Nat, IsFiniteSet(S), NEW s, s = Sorted(S)
  PROVE  /\ s \in Seq(S) /\ Len(s) = Cardinality(S) /\ Len(s) \in Nat /\ DOMAIN s = 1 .. Len(s)
         /\ \A n : n \in S <=> Among(s, Len(s), n)
         /\ \A i, j \in 1 .. Len(s) : i < j => s[i] < s[j]
<1>1. PICK key : key = [n \in S |-> n]
  OBVIOUS
<1>2. Keys(S, key)
  BY <1>1 DEF Keys
<1>3. s \in Seq(S) /\ Len(s) = Cardinality(S) /\ \A i \in 1 .. Cardinality(S) : RankIn(S, key, s[i]) = i
  BY <1>1, <1>2, Ascends DEF Sorted
<1>4. Len(s) \in Nat /\ DOMAIN s = 1 .. Len(s) /\ \A i \in 1 .. Len(s) : s[i] \in S
  BY <1>3, FS_CardinalityType, SeqDomain, ElementType
<1>5. ASSUME NEW i \in 1 .. Len(s), NEW j \in 1 .. Len(s), i < j PROVE s[i] < s[j]
  <2>1. RankIn(S, key, s[i]) < RankIn(S, key, s[j]) /\ s[i] \in S /\ s[j] \in S
    BY <1>3, <1>4, <1>5
  <2>2. key[s[i]] < key[s[j]]
    BY <1>2, <2>1, RankOrder
  <2> QED BY <1>1, <2>1, <2>2
<1>6. ASSUME NEW n \in S PROVE \E i \in 1 .. Len(s) : s[i] = n
  <2>1. PICK i \in 1 .. Len(s) : i = RankIn(S, key, n)
    BY <1>2, <1>3, RankGrows
  <2>2. s[i] \in S /\ RankIn(S, key, s[i]) = i /\ i \in Nat
    BY <1>3, <1>4
  <2>3. ~(RankIn(S, key, s[i]) < RankIn(S, key, n)) /\ ~(RankIn(S, key, n) < RankIn(S, key, s[i]))
    BY <2>1, <2>2
  <2>4. ~(key[s[i]] < key[n]) /\ ~(key[n] < key[s[i]])
    BY <1>2, <2>2, <2>3, RankGrows
  <2>5. s[i] \in Nat /\ n \in Nat /\ ~(s[i] < n) /\ ~(n < s[i])
    BY <1>1, <2>2, <2>4
  <2>6. s[i] = n
    BY <2>5
  <2> QED BY <2>6
<1>7. \A n : n \in S <=> Among(s, Len(s), n)
  BY <1>4, <1>6 DEF Among
<1> QED BY <1>3, <1>4, <1>5, <1>7

\* The first is the least, the last the greatest.
LEMMA SortedEnds ==
  ASSUME NEW S, S \in SUBSET Nat, IsFiniteSet(S), NEW s, s = Sorted(S), s # <<>>
  PROVE  s[1] = Min(S) /\ s[Len(s)] = Max(S)
<1>1. /\ s \in Seq(S) /\ Len(s) \in Nat
      /\ \A n : n \in S <=> Among(s, Len(s), n)
      /\ \A i, j \in 1 .. Len(s) : i < j => s[i] < s[j]
  <2>1. s \in Seq(S) /\ Len(s) \in Nat
    BY SortedFacts
  <2>2. \A n : n \in S <=> Among(s, Len(s), n)
    BY SortedFacts
  <2>3. \A i, j \in 1 .. Len(s) : i < j => s[i] < s[j]
    BY SortedFacts
  <2> QED BY <2>1, <2>2, <2>3
<1>2. PICK L \in Nat \ {0} : L = Len(s)
  BY <1>1
<1>3. 1 \in 1 .. L /\ L \in 1 .. L /\ \A i \in 1 .. L : (i = 1 \/ 1 < i) /\ (i = L \/ i < L)
  BY <1>2
<1>4. \A i \in 1 .. L : s[i] \in S /\ s[i] \in Nat
  <2>1. \A i \in 1 .. L : s[i] \in S
    BY <1>1, <1>2, ElementType
  <2> QED BY <2>1
<1>5. \A i \in 1 .. L : s[1] <= s[i] /\ s[L] >= s[i]
  <2> SUFFICES ASSUME NEW i \in 1 .. L PROVE s[1] <= s[i] /\ s[L] >= s[i]
    OBVIOUS
  <2>1. (i = 1 \/ s[1] < s[i]) /\ (i = L \/ s[i] < s[L])
    BY <1>1, <1>2, <1>3
  <2>2. PICK a \in Nat : a = s[1]
    BY <1>3, <1>4
  <2>3. PICK b \in Nat : b = s[i]
    BY <1>4
  <2>4. PICK e \in Nat : e = s[L]
    BY <1>3, <1>4
  <2> QED BY <2>1, <2>2, <2>3, <2>4
<1>6. \A n \in S : s[1] <= n /\ s[L] >= n
  BY <1>1, <1>2, <1>5 DEF Among
<1>7. s[1] \in S /\ s[L] \in S
  BY <1>3, <1>4
<1>8. \A y \in S : (\A n \in S : y <= n) => y = s[1]
  <2> SUFFICES ASSUME NEW y \in S, \A n \in S : y <= n PROVE y = s[1]
    OBVIOUS
  <2>1. PICK a : a = s[1]
    OBVIOUS
  <2>2. a \in Nat /\ y \in Nat /\ y <= a /\ a <= y
    BY <1>6, <1>7, <2>1
  <2> QED BY <2>1, <2>2
<1>9. \A y \in S : (\A n \in S : y >= n) => y = s[L]
  <2> SUFFICES ASSUME NEW y \in S, \A n \in S : y >= n PROVE y = s[L]
    OBVIOUS
  <2>1. PICK a : a = s[L]
    OBVIOUS
  <2>2. a \in Nat /\ y \in Nat /\ y >= a /\ a >= y
    BY <1>6, <1>7, <2>1
  <2> QED BY <2>1, <2>2
<1>10. Min(S) = s[1]
  BY <1>6, <1>7, <1>8 DEF Min
<1>11. Max(S) = s[L]
  BY <1>6, <1>7, <1>9 DEF Max
<1> QED BY <1>2, <1>10, <1>11

\* A folder when it is searched.
SmallBox(set) == Box(set) /\ Cardinality(set) <= MaxNumber /\ \A m \in set : m.uid <= MaxNumber

\* Every folder that is searched is small enough for u32.
LEMMA MailboxFacts == ASSUME NEW set \in Mailboxes PROVE SmallBox(set)
<1>1. IsFiniteSet(set) /\ Cardinality(set) <= MaxNumber /\ set \subseteq Messages
      /\ \A m, o \in set : m.uid <= MaxNumber /\ (m.uid = o.uid => m = o)
  BY MailboxesAssumption
<1> QED BY <1>1 DEF SmallBox, Box

\* The numbers by which a search names messages.
Named(is_uid, set, found) ==
  IF is_uid THEN {m.uid : m \in found}
  ELSE {i \in DOMAIN InOrder(set) : InOrder(set)[i] \in found}

\* The numbers of messages are within u32; there are none only for no message.
LEMMA NamedFacts ==
  ASSUME NEW set, SmallBox(set), NEW found \in SUBSET set, NEW is_uid
  PROVE  /\ Named(is_uid, set, found) \in SUBSET (0 .. MaxNumber) /\ Named(is_uid, set, found) \in SUBSET Nat
         /\ IsFiniteSet(Named(is_uid, set, found))
         /\ Named(is_uid, set, found) = {} <=> found = {}
         /\ ~is_uid => Named(is_uid, set, found) = {PlaceIn(set, m) : m \in found}
<1>1. PICK list : list = InOrder(set)
  OBVIOUS
<1>2. PICK N \in Nat : N = Cardinality(set)
  BY FS_CardinalityType DEF SmallBox, Box
<1>3. /\ DOMAIN list = 1 .. N
      /\ \A i \in 1 .. N : list[i] \in set /\ PlaceIn(set, list[i]) = i
      /\ \A m \in set : PlaceIn(set, m) \in 1 .. N /\ list[PlaceIn(set, m)] = m
  BY <1>1, <1>2, InOrderFacts DEF SmallBox
<1>4. N <= MaxNumber /\ MaxNumber \in Nat /\ \A m \in set : m.uid \in 0 .. MaxNumber
  <2>1. \A m \in set : m.uid \in Nat /\ m.uid <= MaxNumber
    BY MessageType DEF SmallBox, Box
  <2> QED BY <1>2, <2>1, NumberAssumption DEF SmallBox
<1>7. \A S \in SUBSET (0 .. MaxNumber) : S \in SUBSET Nat /\ IsFiniteSet(S)
  <2>1. PICK I : I = 0 .. MaxNumber
    OBVIOUS
  <2>2. 0 \in Int /\ MaxNumber \in Int
    BY <1>4
  <2>3. IsFiniteSet(I) /\ I \in SUBSET Nat
    BY <2>1, <2>2, FS_Interval
  <2>4. \A S \in SUBSET I : IsFiniteSet(S)
    BY <2>3, FS_Subset
  <2> QED BY <2>1, <2>3, <2>4
<1>5. CASE is_uid
  <2>1. Named(is_uid, set, found) = {m.uid : m \in found}
    BY <1>5 DEF Named
  <2>2. Named(is_uid, set, found) \in SUBSET (0 .. MaxNumber)
    BY <1>4, <2>1
  <2>3. Named(is_uid, set, found) = {} <=> found = {}
    BY <2>1
  <2> QED BY <1>5, <1>7, <2>2, <2>3
<1>6. CASE ~is_uid
  <2>1. Named(is_uid, set, found) = {i \in 1 .. N : list[i] \in found}
    BY <1>1, <1>3, <1>6 DEF Named
  <2>2. Named(is_uid, set, found) \in SUBSET (0 .. MaxNumber)
    <3>1. \A i \in 1 .. N : i \in 0 .. MaxNumber
      BY <1>4
    <3> QED BY <2>1, <3>1
  <2>3. Named(is_uid, set, found) = {PlaceIn(set, m) : m \in found}
    BY <1>3, <2>1
  <2>4. Named(is_uid, set, found) = {} <=> found = {}
    BY <2>3
  <2> QED BY <1>7, <2>2, <2>3, <2>4
<1> QED BY <1>5, <1>6

\* What the search finds.
Result(r, set) ==
  LET tree   == Parse(r.text)
      parsed == search_program(tree)
  IN IF parsed.is = "ok"
     THEN parse_search_program(InOrder(set), tree, parsed.value, r.is_uid) ELSE parsed

\* A search panics or fails for a known cause, and else finds the numbers of
\* the messages that match.
LEMMA ResultFacts ==
  ASSUME NEW r, WellWritten(r), NEW set, Box(set)
  PROVE  /\ Result(r, set).is \in {"ok", "fail", "panic"}
         /\ Result(r, set).is = "panic" => \E m \in set : PanicCause(r.text, m)
         /\ Result(r, set).is = "fail" => RefusalCause(r.text)
         /\ Result(r, set).is = "ok" /\ Plain(r.text) =>
              Result(r, set).value = Sorted(Named(r.is_uid, set, Matching(r, set)))
<1>1. PICK x : x = r.text
  OBVIOUS
<1>2. PICK parsed : parsed = search_program(Parse(x))
  OBVIOUS
<1>3. PICK p : p = parsed.value
  OBVIOUS
<1>4. PICK list : list = InOrder(set)
  OBVIOUS
<1>5. PICK N \in Nat : N = Cardinality(set)
  BY FS_CardinalityType DEF Box
<1>6. /\ DOMAIN list = 1 .. N
      /\ \A i \in 1 .. N : list[i] \in set /\ PlaceIn(set, list[i]) = i
  BY <1>4, <1>5, InOrderFacts
<1>7. Small(x) /\ parsed.is \in {"ok", "fail"} /\ (parsed.is = "ok" => SomeNode(x, p))
  <2>1. Small(x)
    BY <1>1, WrittenFacts
  <2> QED BY <1>2, <1>3, <2>1, ProgramType
<1>8. parsed.is = "fail" => RefusalCause(x)
  BY <1>1, <1>2, ProgramParsed
<1>9. CASE parsed.is = "fail"
  <2>1. Result(r, set) = parsed
    BY <1>1, <1>2, <1>9 DEF Result
  <2> QED BY <1>1, <1>8, <1>9, <2>1
<1>10. CASE parsed.is = "ok"
  <2>1. PICK v : v = [i \in 1 .. N |-> Judged(r, p, list[i], i)]
    OBVIOUS
  <2>2. Result(r, set) = parse_search_program(list, Parse(x), p, r.is_uid)
    BY <1>1, <1>2, <1>3, <1>4, <1>10 DEF Result
  <2>3. PICK hits : hits = {i \in 1 .. N : v[i] = "yes"}
    OBVIOUS
  <2>4. parse_search_program(list, Parse(x), p, r.is_uid) =
          IF \E i \in 1 .. N : v[i] = "panic" THEN Panic
          ELSE Ok(Sorted({IF r.is_uid THEN list[i].uid ELSE i : i \in hits}), 0)
    BY <1>1, <1>6, <2>1, <2>3 DEF parse_search_program, Judged
  <2>5. \A i \in 1 .. N : v[i] \in VerdictSet /\ (v[i] = "panic" => PanicCause(x, list[i]))
    BY <1>1, <1>7, <1>10, <2>1, ProgramPanics
  <2>6. CASE \E i \in 1 .. N : v[i] = "panic"
    <3>1. Result(r, set).is = "panic"
      BY <2>2, <2>4, <2>6 DEF Panic
    <3>2. \E m \in set : PanicCause(x, m)
      BY <1>6, <2>5, <2>6
    <3> QED BY <1>1, <3>1, <3>2
  <2>7. CASE ~\E i \in 1 .. N : v[i] = "panic"
    <3>1. PICK s : s = Sorted({IF r.is_uid THEN list[i].uid ELSE i : i \in hits})
      OBVIOUS
    <3>2. Result(r, set) = Ok(s, 0)
      BY <2>2, <2>4, <2>7, <3>1
    <3>3. Result(r, set).is = "ok" /\ Result(r, set).value = s
      BY <3>2, OkIs
    <3>4. ASSUME Plain(x) PROVE s = Sorted(Named(r.is_uid, set, Matching(r, set)))
      <4>1. PICK found : found = Matching(r, set)
        OBVIOUS
      <4>2. \A i \in 1 .. N : v[i] = "yes" <=> list[i] \in found
        <5> SUFFICES ASSUME NEW i \in 1 .. N PROVE v[i] = "yes" <=> list[i] \in found
          OBVIOUS
        <5>1. PICK m \in set : m = list[i]
          BY <1>6
        <5>2. v[i] = Judged(r, p, m, PlaceIn(set, m)) /\ v[i] # "panic"
          BY <1>6, <2>1, <2>7, <5>1
        <5>3. Right(v[i], m \in found)
          BY <1>1, <1>2, <1>3, <3>4, <4>1, <5>2, ProgramRight
        <5> QED BY <5>1, <5>2, <5>3 DEF Right
      <4>3. found \in SUBSET set
        BY <4>1 DEF Matching
      <4>4. hits = {i \in 1 .. N : list[i] \in found}
        BY <2>3, <4>2
      <4>5. CASE r.is_uid
        <5>1. \A m \in found : \E i \in hits : list[i] = m
          <6>1. \A m \in set : \E i \in 1 .. N : list[i] = m
            BY <1>4, <1>5, InOrderFacts
          <6> QED BY <4>3, <4>4, <6>1
        <5>2. \A i \in hits : list[i] \in found
          BY <4>4
        <5>3. {list[i].uid : i \in hits} = {m.uid : m \in found}
          BY <5>1, <5>2
        <5>4. s = Sorted({list[i].uid : i \in hits})
          BY <3>1, <4>5
        <5>5. Named(r.is_uid, set, found) = {m.uid : m \in found}
          BY <4>5 DEF Named
        <5> QED BY <4>1, <5>3, <5>4, <5>5
      <4>6. CASE ~r.is_uid
        <5>1. Named(r.is_uid, set, found) = hits
          BY <1>4, <1>6, <4>4, <4>6 DEF Named
        <5>2. s = Sorted({i : i \in hits})
          BY <3>1, <4>6
        <5>3. {i : i \in hits} = hits
          OBVIOUS
        <5> QED BY <4>1, <5>1, <5>2, <5>3
      <4> QED BY <4>5, <4>6
    <3> QED BY <1>1, <3>3, <3>4
  <2> QED BY <2>6, <2>7
<1> QED BY <1>7, <1>9, <1>10

-----------------------------------------------------------------------------
(* The answer *)

\* The options that are answered.
Answered == {"ALL", "MIN", "MAX", "COUNT"}

\* What is left of the options without SAVE.
LEMMA ListedFacts ==
  ASSUME NEW options \in Seq(Options), IsInjective(options), options # <<"SAVE">>,
         NEW listed, listed = Listed_options(options)
  PROVE  /\ DOMAIN listed = 1 .. Len(listed) /\ Len(listed) \in Nat \ {0}
         /\ \A i \in 1 .. Len(listed) : listed[i] \in Answered
         /\ Len(options) - Len(listed) = -1 \/ Len(options) - Len(listed) \in Nat
         /\ Len(options) - Len(listed) > 0 => \E i \in DOMAIN options : options[i] = "SAVE"
<1>1. PICK L \in Nat : L = Len(options) /\ DOMAIN options = 1 .. L
  BY SeqDomain
<1>2. CASE options = <<>>
  <2>1. listed = <<"ALL">>
    BY <1>2 DEF Listed_options
  <2>2. Len(listed) = 1 /\ DOMAIN listed = 1 .. 1 /\ listed[1] = "ALL"
    BY <2>1
  <2>3. Len(options) = 0
    BY <1>2
  <2>4. \A i \in 1 .. Len(listed) : i = 1
    BY <2>2
  <2> QED BY <2>2, <2>3, <2>4 DEF Answered
<1>3. CASE options # <<>>
  <2>1. PICK S : S = {i \in 1 .. L : options[i] # "SAVE"}
    OBVIOUS
  <2>2. PICK places : places = Sorted(S)
    OBVIOUS
  <2>3. S \in SUBSET Nat /\ IsFiniteSet(S) /\ Cardinality(S) \in Nat /\ Cardinality(S) <= L /\ (Cardinality(S) = L => S = 1 .. L)
    <3>1. PICK I : I = 1 .. L
      OBVIOUS
    <3>2. IsFiniteSet(I) /\ Cardinality(I) = L
      <4>1. 1 \in Int /\ L \in Int
        BY <1>1
      <4>2. IsFiniteSet(1 .. L) /\ Cardinality(1 .. L) = IF 1 > L THEN 0 ELSE L - 1 + 1
        BY <4>1, FS_Interval
      <4>3. (IF 1 > L THEN 0 ELSE L - 1 + 1) = L
        BY <1>1
      <4> QED BY <3>1, <4>2, <4>3
    <3>3. S \in SUBSET I /\ S \in SUBSET Nat
      BY <2>1, <3>1
    <3>4. IsFiniteSet(S) /\ Cardinality(S) <= Cardinality(I) /\ (Cardinality(S) = Cardinality(I) => S = I)
      BY <3>2, <3>3, FS_Subset
    <3> QED BY <3>1, <3>2, <3>3, <3>4, FS_CardinalityType
  <2>4. places \in Seq(S) /\ Len(places) = Cardinality(S) /\ DOMAIN places = 1 .. Len(places)
    BY <2>2, <2>3, SortedFacts
  <2>5. listed = [i \in 1 .. Len(places) |-> options[places[i]]]
    BY <1>1, <1>3, <2>1, <2>2, <2>4 DEF Listed_options
  <2>6. \A i \in 1 .. Len(places) : places[i] \in S
    BY <2>4, ElementType
  <2>7. \A j \in S : options[j] \in Answered
    <3> SUFFICES ASSUME NEW j \in S PROVE options[j] \in Answered
      OBVIOUS
    <3>1. j \in 1 .. Len(options) /\ options[j] # "SAVE"
      BY <1>1, <2>1
    <3>2. options[j] \in Options
      BY <3>1, ElementType
    <3> QED BY <3>1, <3>2 DEF Options, Answered
  <2>8. \A i \in 1 .. Len(places) : listed[i] \in Answered
    BY <2>5, <2>6, <2>7
  <2>9. listed \in [1 .. Len(places) -> Answered]
    BY <2>5, <2>8
  <2>10. listed \in Seq(Answered) /\ Len(listed) = Len(places)
    <3>1. Len(places) \in Nat
      BY <2>3, <2>4
    <3> QED BY <2>9, <3>1, FunctionSeq
  <2>11. S # {}
    <3> SUFFICES ASSUME S = {} PROVE FALSE
      OBVIOUS
    <3>1. \A i \in 1 .. L : options[i] = "SAVE"
      BY <2>1
    <3>2. \A i, j \in 1 .. L : i = j
      BY <1>1, <3>1 DEF IsInjective
    <3>3. L = 1
      <4>1. L # 0
        BY <1>1, <1>3
      <4>2. L >= 2 => 1 \in 1 .. L /\ 2 \in 1 .. L
        BY <1>1
      <4>3. ~(L >= 2)
        BY <3>2, <4>2
      <4> QED BY <1>1, <4>1, <4>3
    <3>4. options[1] = "SAVE"
      BY <3>1, <3>3
    <3>5. \A T : \A s \in Seq(T) : Len(s) = 1 => s = <<s[1]>>
      OBVIOUS
    <3> QED BY <1>1, <3>3, <3>4, <3>5
  <2>12. Cardinality(S) # 0
    BY <2>3, <2>11, FS_EmptySet
  <2>13. Cardinality(S) < L => \E i \in DOMAIN options : options[i] = "SAVE"
    <3>1. Cardinality(S) < L => S # 1 .. L
      <4>1. Cardinality(1 .. L) = L
        <5>1. 1 \in Int /\ L \in Int
          BY <1>1
        <5>2. Cardinality(1 .. L) = IF 1 > L THEN 0 ELSE L - 1 + 1
          BY <5>1, FS_Interval
        <5> QED BY <1>1, <5>2
      <4> QED BY <1>1, <2>3, <4>1
    <3> QED BY <1>1, <2>1, <3>1
  <2>14. PICK K \in Nat \ {0} : K = Cardinality(S) /\ K = Len(listed) /\ K <= L
    BY <2>3, <2>4, <2>10, <2>12
  <2>15. DOMAIN listed = 1 .. Len(listed) /\ Len(listed) \in Nat \ {0}
    BY <2>10, <2>14, SeqDomain
  <2>16. Len(options) - Len(listed) \in Nat /\ (Len(options) - Len(listed) > 0 => K < L)
    BY <1>1, <2>14
  <2> QED BY <2>8, <2>10, <2>13, <2>14, <2>15, <2>16
<1> QED BY <1>2, <1>3

\* What an item says of the numbers that were found.
Says(item, numbers) ==
  /\ item.option \in Answered
  /\ item.option = "ALL" => Reads(item.text) \cup {0} = numbers \cup {0} /\ (item.text # <<>> => SetLike(item.text))
  /\ item.option = "MIN" => item.text[1].n = Min(numbers)
  /\ item.option = "MAX" => item.text[1].n = Max(numbers)
  /\ item.option = "COUNT" => item.text[1].n = Cardinality(numbers)

\* The set of an answer says the numbers that were found, apart from 0.
LEMMA SetSays ==
  ASSUME NEW S \in SUBSET (0 .. MaxNumber), S \in SUBSET Nat, IsFiniteSet(S), NEW s, s = Sorted(S),
         NEW ranges \in {generate_ranges(s), Singles(s)}, ranges = <<>> => s = <<>>,
         NEW text, text = SetText(ranges)
  PROVE  Reads(text) \cup {0} = S \cup {0} /\ (text # <<>> => SetLike(text))
<1>1. s \in Seq(S) /\ \A n : n \in S <=> Among(s, Len(s), n)
  BY SortedFacts
<1>2. s \in Seq(0 .. MaxNumber)
  BY <1>1, WiderSeq
<1>3. CASE ranges = <<>>
  <2>1. text = <<>> /\ s = <<>>
    BY <1>3 DEF SetText
  <2>2. S = {}
    <3>1. \A n : ~Among(<<>>, Len(<<>>), n)
      BY DEF Among
    <3> QED BY <1>1, <2>1, <3>1
  <2>3. Reads(<<>>) = {}
    BY DEF Reads
  <2> QED BY <2>1, <2>2, <2>3
<1>4. CASE ranges # <<>>
  <2>1. SetLike(text) /\ \A n : n # 0 => (n \in Reads(text) <=> Among(s, Len(s), n))
    BY <1>2, <1>4, SetOfResults
  <2> QED BY <1>1, <2>1
<1> QED BY <1>3, <1>4

\* Every item of the answer says the numbers that were found.
LEMMA ItemSays ==
  ASSUME NEW S \in SUBSET (0 .. MaxNumber), S \in SUBSET Nat, IsFiniteSet(S), NEW s, s = Sorted(S), s # <<>>,
         NEW option \in Answered
  PROVE  Says(Item(option, s), S)
<1>1. PICK item : item = Item(option, s)
  OBVIOUS
<1>2. item.option = option
  BY <1>1 DEF Item
<1>3. s[1] = Min(S) /\ s[Len(s)] = Max(S) /\ Len(s) = Cardinality(S) /\ s \in Seq(S)
  BY SortedEnds, SortedFacts
<1>4. \A n : <<Number(n)>>[1].n = n
  BY DEF Number, Token
<1>5. CASE option = "ALL"
  <2>1. item.text = SetText(generate_ranges(s))
    BY <1>1, <1>5 DEF Item
  <2>2. generate_ranges(s) # <<>>
    <3>1. s \in Seq(0 .. MaxNumber)
      BY <1>3, WiderSeq
    <3> QED BY <3>1, GeneratedRanges
  <2>3. Reads(item.text) \cup {0} = S \cup {0} /\ (item.text # <<>> => SetLike(item.text))
    BY <2>1, <2>2, SetSays
  <2> QED BY <1>1, <1>2, <1>5, <2>3 DEF Says
<1>6. CASE option = "MIN"
  <2>1. item.text = <<Number(s[1])>>
    BY <1>1, <1>6 DEF Item
  <2> QED BY <1>1, <1>2, <1>3, <1>4, <1>6, <2>1 DEF Says
<1>7. CASE option = "MAX"
  <2>1. item.text = <<Number(s[Len(s)])>>
    BY <1>1, <1>7 DEF Item
  <2> QED BY <1>1, <1>2, <1>3, <1>4, <1>7, <2>1 DEF Says
<1>8. CASE option = "COUNT"
  <2>1. item.text = <<Number(Len(s))>>
    BY <1>1, <1>8 DEF Item
  <2> QED BY <1>1, <1>2, <1>3, <1>4, <1>8, <2>1 DEF Says
<1> QED BY <1>5, <1>6, <1>7, <1>8 DEF Answered

\* The last tagged answer is the OK behind the refusals.
LEMMA TaggedFacts ==
  ASSUME NEW k, k = -1 \/ k \in Nat, NEW t, t = [i \in 1 .. k |-> "BAD"] \o <<"OK">>
  PROVE  t # <<>> /\ t[Len(t)] = "OK" /\ (Len(t) > 1 => k > 0)
<1>1. PICK T : T = {"BAD", "OK"}
  OBVIOUS
<1>2. PICK n \in Nat : 1 .. k = 1 .. n /\ (n > 0 => k > 0)
  <2>1. CASE k = -1
    <3>1. 1 .. k = 1 .. 0
      BY <2>1
    <3> QED BY <3>1
  <2> QED BY <2>1
<1>3. PICK s : s = [i \in 1 .. n |-> "BAD"]
  OBVIOUS
<1>4. s \in Seq(T) /\ Len(s) = n
  <2>1. s \in [1 .. n -> T]
    BY <1>1, <1>3
  <2> QED BY <2>1, FunctionSeq
<1>5. t = s \o <<"OK">>
  BY <1>2, <1>3
<1>6. \A a \in T : Len(s \o <<a>>) = n + 1 /\ (s \o <<a>>)[n + 1] = a /\ s \o <<a>> # <<>>
  BY <1>4
<1>7. Len(t) = n + 1 /\ t[n + 1] = "OK" /\ t # <<>>
  BY <1>1, <1>5, <1>6
<1>8. t[Len(t)] = "OK"
  BY <1>7
<1>9. n + 1 > 1 => n > 0
  OBVIOUS
<1>10. Len(t) > 1 => k > 0
  BY <1>2, <1>7, <1>9
<1> QED BY <1>7, <1>8, <1>10

\* One tagged answer is the first and the last.
LEMMA OneTag == ASSUME NEW a, NEW t, t = <<a>> PROVE t # <<>> /\ t[Len(t)] = a /\ ~(Len(t) > 1)
  OBVIOUS

\* What is answered to a client.
LEMMA ReplyFacts ==
  ASSUME NEW res, res.is \in {"ok", "fail", "panic"}, NEW esearch \in BOOLEAN,
         NEW options \in Seq(Options), IsInjective(options), NEW reply, reply = Search_reply(res, esearch, options)
  PROVE  /\ reply.kind = "panic" => res.is = "panic"
         /\ reply.kind # "panic" => reply.tagged # <<>>
         /\ reply.tagged # <<>> /\ reply.tagged[Len(reply.tagged)] = "BAD" => options = <<"SAVE">> \/ res.is = "fail"
         /\ Len(reply.tagged) > 1 => \E i \in DOMAIN options : options[i] = "SAVE"
<1>1. \A k, e, t : Reply(k, e, t).kind = k /\ Reply(k, e, t).tagged = t
  BY DEF Reply
<1>2. PICK tagged : tagged = reply.tagged
  OBVIOUS
<1>3. CASE res.is = "fail"
  <2>1. reply = Reply("none", <<>>, <<"BAD">>)
    BY <1>3 DEF Search_reply
  <2>2. reply.kind = "none" /\ tagged = <<"BAD">>
    BY <1>1, <1>2, <2>1
  <2> QED BY <1>2, <1>3, <2>2, OneTag
<1>4. CASE res.is = "panic"
  <2>1. reply = Reply("panic", <<>>, <<>>)
    BY <1>4 DEF Search_reply
  <2>2. reply.kind = "panic" /\ tagged = <<>>
    BY <1>1, <1>2, <2>1
  <2>3. ~(Len(<<>>) > 1)
    OBVIOUS
  <2> QED BY <1>2, <1>4, <2>2, <2>3
<1>5. CASE res.is = "ok" /\ (~esearch \/ res.value = <<>>)
  <2>1. reply.kind \in {"SEARCH", "ESEARCH"} /\ reply.tagged = <<"OK">>
    <3>1. ~esearch => reply.kind = "SEARCH" /\ reply.tagged = <<"OK">>
      BY <1>1, <1>5 DEF Search_reply
    <3>2. esearch => reply.kind = "ESEARCH" /\ reply.tagged = <<"OK">>
      BY <1>1, <1>5 DEF Search_reply
    <3> QED BY <3>1, <3>2
  <2>2. tagged = <<"OK">> /\ "OK" # "BAD"
    BY <1>2, <2>1
  <2> QED BY <1>2, <2>1, <2>2, OneTag
<1>6. CASE res.is = "ok" /\ esearch /\ res.value # <<>> /\ options = <<"SAVE">>
  <2>1. reply = Reply("none", <<>>, <<"BAD">>)
    BY <1>6 DEF Search_reply
  <2>2. reply.kind = "none" /\ tagged = <<"BAD">>
    BY <1>1, <1>2, <2>1
  <2> QED BY <1>2, <1>6, <2>2, OneTag
<1>7. CASE res.is = "ok" /\ esearch /\ res.value # <<>> /\ options # <<"SAVE">>
  <2>1. PICK listed : listed = Listed_options(options)
    OBVIOUS
  <2>2. PICK k : k = Len(options) - Len(listed)
    OBVIOUS
  <2>3. reply.kind = "ESEARCH" /\ reply.tagged = [i \in 1 .. k |-> "BAD"] \o <<"OK">>
    <3>1. PICK e : e = [i \in DOMAIN listed |-> Item(listed[i], res.value)]
      OBVIOUS
    <3>2. PICK t : t = [i \in 1 .. Len(options) - Len(listed) |-> "BAD"] \o <<"OK">>
      OBVIOUS
    <3>3. reply = Reply("ESEARCH", e, t)
      BY <1>7, <2>1, <3>1, <3>2 DEF Search_reply
    <3>4. reply.kind = "ESEARCH" /\ reply.tagged = t
      BY <1>1, <3>3
    <3>5. t = [i \in 1 .. k |-> "BAD"] \o <<"OK">>
      BY <2>2, <3>2
    <3> QED BY <3>4, <3>5
  <2>4. (k = -1 \/ k \in Nat) /\ (k > 0 => \E i \in DOMAIN options : options[i] = "SAVE")
    BY <1>7, <2>1, <2>2, ListedFacts
  <2>5. /\ reply.tagged # <<>> /\ reply.tagged[Len(reply.tagged)] = "OK"
        /\ Len(reply.tagged) > 1 => \E i \in DOMAIN options : options[i] = "SAVE"
    BY <2>3, <2>4, TaggedFacts
  <2> QED BY <1>2, <2>3, <2>5
<1> QED BY <1>3, <1>4, <1>5, <1>6, <1>7

\* The items of the answer say the numbers that were found.
LEMMA ItemsFacts ==
  ASSUME NEW res, res.is \in {"ok", "fail", "panic"}, NEW esearch \in BOOLEAN,
         NEW options \in Seq(Options), IsInjective(options), NEW reply, reply = Search_reply(res, esearch, options),
         NEW S \in SUBSET (0 .. MaxNumber), S \in SUBSET Nat, IsFiniteSet(S),
         res.is = "ok" => res.value = Sorted(S)
  PROVE  /\ \A i \in DOMAIN reply.items : Says(reply.items[i], S)
         /\ reply.kind \in {"SEARCH", "ESEARCH"} /\ reply.items = <<>> => S = {}
<1>1. \A k, e, t : Reply(k, e, t).kind = k /\ Reply(k, e, t).items = e
  BY DEF Reply
<1>2. PICK s : s = Sorted(S)
  OBVIOUS
<1>3. s = <<>> => S = {}
  <2>1. \A n : n \in S <=> Among(s, Len(s), n)
    BY <1>2, SortedFacts
  <2>2. \A n : ~Among(<<>>, Len(<<>>), n)
    BY DEF Among
  <2> QED BY <2>1, <2>2
<1>4. CASE res.is \in {"fail", "panic"} \/ (res.is = "ok" /\ esearch /\ s # <<>> /\ options = <<"SAVE">>)
  <2>1. reply.kind \in {"none", "panic"} /\ reply.items = <<>>
    <3>1. res.is = "fail" => reply = Reply("none", <<>>, <<"BAD">>)
      BY DEF Search_reply
    <3>2. res.is = "panic" => reply = Reply("panic", <<>>, <<>>)
      BY DEF Search_reply
    <3>3. res.is = "ok" /\ esearch /\ s # <<>> /\ options = <<"SAVE">> => reply = Reply("none", <<>>, <<"BAD">>)
      BY <1>2 DEF Search_reply
    <3> QED BY <1>1, <1>4, <3>1, <3>2, <3>3
  <2> QED BY <2>1
<1>5. CASE res.is = "ok" /\ ~esearch
  <2>1. PICK item : item = [option |-> "ALL", text |-> SetText(Singles(s))]
    OBVIOUS
  <2>2. reply.items = <<item>>
    BY <1>1, <1>2, <1>5, <2>1 DEF Search_reply
  <2>3. Singles(s) = <<>> => s = <<>>
    <3>1. s \in Seq(S)
      BY <1>2, SortedFacts
    <3>2. s \in Seq(0 .. MaxNumber)
      BY <3>1, WiderSeq
    <3> QED BY <3>2, SinglesRanges
  <2>4. item.option = "ALL" /\ item.text = SetText(Singles(s))
    BY <2>1
  <2>5. Says(item, S)
    <3>1. Reads(item.text) \cup {0} = S \cup {0} /\ (item.text # <<>> => SetLike(item.text))
      BY <1>2, <2>3, <2>4, SetSays
    <3> QED BY <2>4, <3>1 DEF Says, Answered
  <2>6. PICK e : e = <<item>>
    OBVIOUS
  <2>7. e # <<>> /\ \A i \in DOMAIN e : e[i] = item
    BY <2>6
  <2>8. reply.items = e
    BY <2>2, <2>6
  <2>9. \A i \in DOMAIN reply.items : Says(reply.items[i], S)
    BY <2>5, <2>7, <2>8
  <2>10. reply.items # <<>>
    BY <2>7, <2>8
  <2> QED BY <2>9, <2>10
<1>6. CASE res.is = "ok" /\ esearch /\ s = <<>>
  <2>1. reply.items = <<>>
    BY <1>1, <1>2, <1>6 DEF Search_reply
  <2>2. S = {}
    BY <1>3, <1>6
  <2>3. \A i \in DOMAIN reply.items : Says(reply.items[i], S)
    BY <2>1
  <2> QED BY <2>2, <2>3
<1>7. CASE res.is = "ok" /\ esearch /\ s # <<>> /\ options # <<"SAVE">>
  <2>1. PICK listed : listed = Listed_options(options)
    OBVIOUS
  <2>2. reply.items = [i \in DOMAIN listed |-> Item(listed[i], s)]
    BY <1>1, <1>2, <1>7, <2>1 DEF Search_reply
  <2>3. /\ DOMAIN listed = 1 .. Len(listed) /\ Len(listed) \in Nat \ {0}
        /\ \A i \in 1 .. Len(listed) : listed[i] \in Answered
    BY <1>7, <2>1, ListedFacts
  <2>4. \A i \in DOMAIN listed : Says(Item(listed[i], s), S)
    BY <1>2, <1>7, <2>3, ItemSays
  <2>5. reply.items # <<>>
    <3>1. 1 \in DOMAIN reply.items
      BY <2>2, <2>3
    <3> QED BY <3>1
  <2> QED BY <2>2, <2>4, <2>5
<1> QED BY <1>4, <1>5, <1>6, <1>7

-----------------------------------------------------------------------------
(* The inductive invariant of SearchCommand *)

\* Finite sets of numbers have a greatest.
LEMMA MaxIn ==
  ASSUME NEW S \in SUBSET Nat, IsFiniteSet(S), S # {} PROVE Max(S) \in S /\ \A n \in S : n <= Max(S)
<1>1. PICK s : s = Sorted(S)
  OBVIOUS
<1>2. s \in Seq(S) /\ Len(s) = Cardinality(S) /\ Len(s) \in Nat
  BY <1>1, SortedFacts
<1>3. \A i, j \in 1 .. Len(s) : i < j => s[i] < s[j]
  BY <1>1, SortedFacts
<1>4. \A n : n \in S <=> Among(s, Len(s), n)
  BY <1>1, SortedFacts
<1>5. s # <<>>
  <2>1. Cardinality(S) # 0
    BY FS_EmptySet
  <2> QED BY <1>2, <2>1
<1>6. PICK L \in Nat \ {0} : L = Len(s)
  BY <1>2, <1>5
<1>7. Max(S) = s[L]
  BY <1>1, <1>5, <1>6, SortedEnds
<1>8. L \in 1 .. L /\ s[L] \in S
  <2>1. L \in 1 .. L
    BY <1>6
  <2> QED BY <1>2, <1>6, <2>1, ElementType
<1>9. \A n \in S : n <= s[L]
  <2> SUFFICES ASSUME NEW n \in S PROVE n <= s[L]
    OBVIOUS
  <2>1. PICK i \in 1 .. L : s[i] = n
    BY <1>4, <1>6 DEF Among
  <2>2. i = L \/ i < L
    BY <1>6
  <2>3. n = s[L] \/ n < s[L]
    BY <1>3, <1>6, <1>8, <2>1, <2>2
  <2>4. n \in Nat /\ s[L] \in Nat
    BY <1>8
  <2> QED BY <2>3, <2>4
<1> QED BY <1>7, <1>8, <1>9

\* A new UID is greater than all others.
LEMMA NextUidFacts ==
  ASSUME Box(mails) PROVE NextUid \in Nat \ {0} /\ \A m \in mails : m.uid < NextUid
<1>1. PICK U : U = {0} \cup {m.uid : m \in mails}
  OBVIOUS
<1>2. \A m \in mails : m.uid \in Nat
  BY MessageType DEF Box
<1>3. U \in SUBSET Nat /\ U # {}
  BY <1>1, <1>2
<1>4. IsFiniteSet(U)
  <2>1. IsFiniteSet({m.uid : m \in mails})
    <3>1. PICK V : V = {m.uid : m \in mails}
      OBVIOUS
    <3>2. PICK f : f = [m \in mails |-> m.uid]
      OBVIOUS
    <3>3. f \in [mails -> V] /\ \A n \in V : \E m \in mails : f[m] = n
      BY <3>1, <3>2
    <3>4. f \in Surjection(mails, V)
      BY <3>3 DEF Surjection
    <3>5. IsFiniteSet(mails)
      BY DEF Box
    <3>6. IsFiniteSet(V)
      BY <3>4, <3>5, FS_Surjection
    <3> QED BY <3>1, <3>6
  <2>2. IsFiniteSet({0})
    BY FS_Singleton
  <2> QED BY <1>1, <2>1, <2>2, FS_Union
<1>5. Max(U) \in Nat /\ \A n \in U : n <= Max(U)
  BY <1>3, <1>4, MaxIn
<1>6. NextUid = Max(U) + 1
  BY <1>1 DEF NextUid
<1>7. \A m \in mails : m.uid <= Max(U)
  BY <1>1, <1>5
<1> QED BY <1>2, <1>5, <1>6, <1>7

\* A folder without some of its messages.
LEMMA ShrunkBox ==
  ASSUME NEW set, Box(set), NEW part \in SUBSET set PROVE Box(part)
BY FS_Subset DEF Box

\* A folder with one more message of another UID.
LEMMA GrownBox ==
  ASSUME NEW set, Box(set), NEW e \in Messages, \A o \in set : o.uid # e.uid PROVE Box(set \cup {e})
<1>1. IsFiniteSet(set \cup {e})
  BY FS_AddElement DEF Box
<1> QED BY <1>1 DEF Box

\* A message that is given a UID.
LEMMA GivenUid ==
  ASSUME NEW m \in Messages, NEW n \in Nat
  PROVE  [m EXCEPT !.uid = n] \in Messages /\ [m EXCEPT !.uid = n].uid = n
BY DEF Messages

\* A message after all others leaves their numbers as they are.
LEMMA PlacesStay ==
  ASSUME NEW set, Box(set), NEW e \in Messages, \A o \in set : o.uid < e.uid, NEW m \in set
  PROVE  PlaceIn(set \cup {e}, m) = PlaceIn(set, m)
<1>1. m.uid \in Nat /\ e.uid \in Nat /\ m.uid < e.uid
  BY MessageType DEF Box
<1>2. ~(e.uid <= m.uid)
  BY <1>1
<1>3. {o \in set \cup {e} : o.uid <= m.uid} = {o \in set : o.uid <= m.uid}
  BY <1>2
<1> QED BY <1>3 DEF PlaceIn

SearchTypes ==
  /\ Box(mails) /\ changes \in Nat
  /\ step \in {"start", "asked", "answered", "done"}
  /\ step # "start" => request \in Requests
  /\ step \in {"start", "asked"} => mails \in Mailboxes

\* The sets of the answer name the messages that matched: by UID, or by their
\* numbers as long as these are kept.
SetNames(text) ==
  /\ SetLike(text)
  /\ request.is_uid => Reads(text) \cup {0} = {m.uid : m \in meant} \cup {0}
  /\ ~request.is_uid /\ kept =>
       /\ meant \in SUBSET mails
       /\ Reads(text) \cup {0} = {PlaceIn(mails, m) : m \in meant} \cup {0}
SetsName ==
  step = "answered" /\ Plain(request.text) => \A text \in SetsOf(answer) \ {<<>>} : SetNames(text)

SearchInvariant == SearchTypes /\ SetsName /\ AnswerIsTheMatches /\ AnswersWhatItMust /\ UseActsOnTheMatches

\* The inductive invariant holds at first.
LEMMA SearchInitInv == SearchInit => SearchInvariant
<1> SUFFICES ASSUME SearchInit PROVE SearchInvariant
  OBVIOUS
<1>1. step = "start" /\ mails \in Mailboxes /\ changes = 0
  BY DEF SearchInit
<1>2. Box(mails)
  BY <1>1, MailboxFacts DEF SmallBox
<1> QED BY <1>1, <1>2 DEF SearchInvariant, SearchTypes, SetsName, AnswerIsTheMatches, AnswersWhatItMust, UseActsOnTheMatches

\* What clients ask for is well written.
LEMMA RequestFacts ==
  ASSUME NEW r \in Requests
  PROVE  WellWritten(r) /\ (r.rev2 \/ r.explicit) \in BOOLEAN /\ r.options \in Seq(Options) /\ IsInjective(r.options)
<1>1. WellWritten(r)
  BY RequestsAssumption
<1> QED BY <1>1 DEF WellWritten

\* The answer to a search.
SearchReply(r, set) == Search_reply(Result(r, set), r.rev2 \/ r.explicit, r.options)

\* When the answer to a request is a panic, a refusal, or more than one.
LEMMA AnswerFacts ==
  ASSUME NEW r \in Requests, NEW set \in Mailboxes, NEW reply, reply = SearchReply(r, set)
  PROVE  /\ reply.kind = "panic" => \E m \in set : PanicCause(r.text, m)
         /\ reply.kind # "panic" => reply.tagged # <<>>
         /\ reply.tagged # <<>> /\ reply.tagged[Len(reply.tagged)] = "BAD" =>
              r.options = <<"SAVE">> \/ RefusalCause(r.text)
         /\ Len(reply.tagged) > 1 => \E i \in DOMAIN r.options : r.options[i] = "SAVE"
<1>1. WellWritten(r) /\ (r.rev2 \/ r.explicit) \in BOOLEAN /\ r.options \in Seq(Options) /\ IsInjective(r.options)
  BY RequestFacts
<1>2. Box(set)
  BY MailboxFacts DEF SmallBox
<1>3. PICK res : res = Result(r, set)
  OBVIOUS
<1>4. /\ res.is \in {"ok", "fail", "panic"}
      /\ res.is = "panic" => \E m \in set : PanicCause(r.text, m)
      /\ res.is = "fail" => RefusalCause(r.text)
  BY <1>1, <1>2, <1>3, ResultFacts
<1>5. PICK esearch \in BOOLEAN : esearch = (r.rev2 \/ r.explicit)
  BY <1>1
<1>6. reply = Search_reply(res, esearch, r.options)
  BY <1>3, <1>5 DEF SearchReply
<1>7. /\ reply.kind = "panic" => res.is = "panic"
      /\ reply.kind # "panic" => reply.tagged # <<>>
      /\ reply.tagged # <<>> /\ reply.tagged[Len(reply.tagged)] = "BAD" => r.options = <<"SAVE">> \/ res.is = "fail"
      /\ Len(reply.tagged) > 1 => \E i \in DOMAIN r.options : r.options[i] = "SAVE"
  BY <1>1, <1>4, <1>6, ReplyFacts
<1> QED BY <1>4, <1>7

\* What the answer to a request the parser takes as a whole says.
LEMMA MatchesFacts ==
  ASSUME NEW r \in Requests, Plain(r.text), NEW set \in Mailboxes, NEW reply, reply = SearchReply(r, set),
         NEW numbers, numbers = Named(r.is_uid, set, Matching(r, set))
  PROVE  /\ \A i \in DOMAIN reply.items : Says(reply.items[i], numbers)
         /\ reply.kind \in {"SEARCH", "ESEARCH"} /\ reply.items = <<>> => Matching(r, set) = {}
         /\ ~r.is_uid => numbers = {PlaceIn(set, m) : m \in Matching(r, set)}
<1>1. WellWritten(r) /\ (r.rev2 \/ r.explicit) \in BOOLEAN /\ r.options \in Seq(Options) /\ IsInjective(r.options)
  BY RequestFacts
<1>2. SmallBox(set) /\ Box(set)
  BY MailboxFacts DEF SmallBox
<1>3. PICK res : res = Result(r, set)
  OBVIOUS
<1>4. res.is \in {"ok", "fail", "panic"} /\ (res.is = "ok" => res.value = Sorted(numbers))
  BY <1>1, <1>2, <1>3, ResultFacts
<1>5. PICK found \in SUBSET set : found = Matching(r, set)
  BY DEF Matching
<1>6. /\ numbers \in SUBSET (0 .. MaxNumber) /\ numbers \in SUBSET Nat /\ IsFiniteSet(numbers)
      /\ numbers = {} <=> found = {}
      /\ ~r.is_uid => numbers = {PlaceIn(set, m) : m \in found}
  BY <1>2, <1>5, NamedFacts
<1>7. PICK esearch \in BOOLEAN : esearch = (r.rev2 \/ r.explicit)
  BY <1>1
<1>8. reply = Search_reply(res, esearch, r.options)
  BY <1>3, <1>7 DEF SearchReply
<1>9. /\ \A i \in DOMAIN reply.items : Says(reply.items[i], numbers)
      /\ reply.kind \in {"SEARCH", "ESEARCH"} /\ reply.items = <<>> => numbers = {}
  BY <1>1, <1>4, <1>6, <1>8, ItemsFacts
<1> QED BY <1>5, <1>6, <1>9

-----------------------------------------------------------------------------
(* The steps of SearchCommand *)

\* An item that says what it must of the numbers is right.
LEMMA SaysRight ==
  ASSUME NEW item, NEW numbers, Says(item, numbers)
  PROVE  CASE item.option = "ALL"   -> Reads(item.text) \cup {0} = numbers \cup {0}
           [] item.option = "MIN"   -> item.text[1].n = Min(numbers)
           [] item.option = "MAX"   -> item.text[1].n = Max(numbers)
           [] item.option = "COUNT" -> item.text[1].n = Cardinality(numbers)
<1>1. item.option = "ALL" \/ item.option = "MIN" \/ item.option = "MAX" \/ item.option = "COUNT"
  BY DEF Says, Answered
<1>2. CASE item.option = "ALL"
  BY <1>2 DEF Says
<1>3. CASE item.option = "MIN"
  BY <1>3 DEF Says
<1>4. CASE item.option = "MAX"
  BY <1>4 DEF Says
<1>5. CASE item.option = "COUNT"
  BY <1>5 DEF Says
<1> QED BY <1>1, <1>2, <1>3, <1>4, <1>5

\* The search itself establishes what the answer says.
LEMMA SearchKeeps == ASSUME SearchInvariant, Search PROVE SearchInvariant'
<1>1. /\ step = "asked" /\ step' = "answered" /\ request \in Requests /\ request' = request
      /\ mails \in Mailboxes /\ mails' = mails /\ Box(mails) /\ changes \in Nat /\ changes' = changes
  BY DEF SearchInvariant, SearchTypes, Search
<1>2. answer' = SearchReply(request, mails)
  BY DEF Search, SearchReply, Result
<1>3. meant' = Matching(request, mails)
  BY DEF Search
<1>4. PICK reply : reply = SearchReply(request, mails)
  OBVIOUS
<1>5. PICK numbers : numbers = Named(request.is_uid, mails, Matching(request, mails))
  OBVIOUS
<1>6. NumbersOf(meant)' = numbers
  BY <1>1, <1>3, <1>5 DEF NumbersOf, Named
<1>7. SearchTypes'
  BY <1>1 DEF SearchTypes
<1>8. AnswersWhatItMust'
  <2>1. /\ reply.kind = "panic" => \E m \in mails : PanicCause(request.text, m)
        /\ reply.kind # "panic" => reply.tagged # <<>>
        /\ reply.tagged # <<>> /\ reply.tagged[Len(reply.tagged)] = "BAD" =>
             \/ request.options = <<"SAVE">>
             \/ RefusalCause(request.text)
        /\ Len(reply.tagged) > 1 => \E i \in DOMAIN request.options : request.options[i] = "SAVE"
    BY <1>1, <1>4, AnswerFacts
  <2>2. reply.kind = "panic" => \/ Occurs("header", request.text) /\ \E m \in mails : m.broken
                                \/ \E i \in DOMAIN request.text : request.text[i].n = BadDay
    BY <2>1 DEF PanicCause
  <2>3. answer' = reply
    BY <1>2, <1>4
  <2> QED BY <1>1, <2>1, <2>2, <2>3 DEF AnswersWhatItMust, RefusalCause
<1>9. /\ Plain(request.text) =>
           /\ \A i \in DOMAIN reply.items : Says(reply.items[i], numbers)
           /\ reply.kind \in {"SEARCH", "ESEARCH"} /\ reply.items = <<>> => Matching(request, mails) = {}
           /\ ~request.is_uid => numbers = {PlaceIn(mails, m) : m \in Matching(request, mails)}
  BY <1>1, <1>4, <1>5, MatchesFacts
<1>10. AnswerIsTheMatches'
  <2>1. SUFFICES ASSUME Plain(request.text), reply.kind \in {"SEARCH", "ESEARCH"}
                 PROVE  /\ reply.items = <<>> => meant' = {}
                        /\ \A i \in DOMAIN reply.items :
                             LET item == reply.items[i]
                             IN CASE item.option = "ALL"   -> Reads(item.text) \cup {0} = numbers \cup {0}
                                  [] item.option = "MIN"   -> item.text[1].n = Min(numbers)
                                  [] item.option = "MAX"   -> item.text[1].n = Max(numbers)
                                  [] item.option = "COUNT" -> item.text[1].n = Cardinality(numbers)
    BY <1>1, <1>2, <1>4, <1>6 DEF AnswerIsTheMatches
  <2>2. reply.items = <<>> => meant' = {}
    BY <1>3, <1>9, <2>1
  <2>3. \A i \in DOMAIN reply.items : Says(reply.items[i], numbers)
    BY <1>9, <2>1
  <2> QED BY <2>2, <2>3, SaysRight
<1>11. SetsName'
  <2>1. SUFFICES ASSUME Plain(request.text), NEW text \in SetsOf(reply) \ {<<>>}
                 PROVE  SetNames(text)'
    BY <1>1, <1>2, <1>4 DEF SetsName
  <2>2. PICK i \in DOMAIN reply.items : reply.items[i].option = "ALL" /\ text = reply.items[i].text
    BY <2>1 DEF SetsOf
  <2>3. PICK item : item = reply.items[i]
    OBVIOUS
  <2>4. Says(item, numbers)
    BY <1>9, <2>1, <2>3
  <2>5. Reads(text) \cup {0} = numbers \cup {0} /\ SetLike(text)
    BY <2>1, <2>2, <2>3, <2>4 DEF Says
  <2>6. request.is_uid => numbers = {m.uid : m \in meant'}
    BY <1>3, <1>5 DEF Named
  <2>7. ~request.is_uid => numbers = {PlaceIn(mails, m) : m \in meant'}
    BY <1>3, <1>9, <2>1
  <2>8. meant' \in SUBSET mails
    BY <1>3 DEF Matching
  <2> QED BY <1>1, <2>5, <2>6, <2>7, <2>8 DEF SetNames
<1>12. UseActsOnTheMatches'
  BY <1>1 DEF UseActsOnTheMatches
<1> QED BY <1>7, <1>8, <1>10, <1>11, <1>12 DEF SearchInvariant

\* Nothing has been answered when the arguments have been read.
LEMMA ArgumentsKeep == ASSUME SearchInvariant, NEW r \in Requests, SearchArguments(r) PROVE SearchInvariant'
<1>1. /\ step = "start" /\ step' = "asked" /\ request' = r /\ mails' = mails /\ changes' = changes
  BY DEF SearchArguments
<1>2. SearchTypes'
  BY <1>1 DEF SearchInvariant, SearchTypes
<1> QED BY <1>1, <1>2 DEF SearchInvariant, SetsName, AnswerIsTheMatches, AnswersWhatItMust, UseActsOnTheMatches

\* What a command acts on, by UID.
LEMMA ChosenByUid ==
  ASSUME NEW set, Box(set), NEW text, SetLike(text), NEW found, Reads(text) \cup {0} = {m.uid : m \in found} \cup {0},
         NEW command \in {"FETCH", "STORE"}, command = "STORE" => ~HasComma(text)
  PROVE  (IF command = "STORE" THEN StoreSelected(InOrder(set), text) ELSE Selected(InOrder(set), text, TRUE)) \ {0}
           = ({m.uid : m \in found} \cap {m.uid : m \in set}) \ {0}
<1>1. PICK list : list = InOrder(set)
  OBVIOUS
<1>2. PICK n \in Nat : n = Cardinality(set)
  BY InOrderFacts
<1>3. DOMAIN list = 1 .. n /\ \A i \in 1 .. n : list[i] \in set
  BY <1>1, <1>2, InOrderFacts
<1>4. \A m \in set : \E i \in 1 .. n : list[i] = m
  BY <1>1, <1>2, InOrderFacts
<1>5. \A i \in DOMAIN list : list[i].uid \in Int /\ i \in Int
  <2>1. \A i \in 1 .. n : list[i].uid \in Nat /\ i \in Int
    BY <1>3, MessageType DEF Box
  <2> QED BY <1>3, <2>1
<1>6. PICK acted : acted = UidsOf(list, {i \in DOMAIN list : list[i].uid \in Reads(text)})
  OBVIOUS
<1>7. command = "STORE" => StoreSelected(list, text) = acted
  BY <1>5, <1>6, StoredSet
<1>8. Selected(list, text, TRUE) = acted
  <2>1. Selected(list, text, TRUE) =
          UidsOf(list, {i \in DOMAIN list : (IF TRUE THEN list[i].uid ELSE i) \in Reads(text)})
    BY <1>5, SelectedSet
  <2>2. {i \in DOMAIN list : (IF TRUE THEN list[i].uid ELSE i) \in Reads(text)} =
          {i \in DOMAIN list : list[i].uid \in Reads(text)}
    OBVIOUS
  <2> QED BY <1>6, <2>1, <2>2
<1>9. \A k : k \in acted <=> k \in {m.uid : m \in set} /\ k \in Reads(text)
  BY <1>3, <1>4, <1>6 DEF UidsOf
<1>10. acted \ {0} = ({m.uid : m \in found} \cap {m.uid : m \in set}) \ {0}
  BY <1>9
<1> QED BY <1>1, <1>7, <1>8, <1>10

\* What a command acts on, by number.
LEMMA ChosenByNumber ==
  ASSUME NEW set, Box(set), NEW text, SetLike(text), NEW found \in SUBSET set,
         Reads(text) \cup {0} = {PlaceIn(set, m) : m \in found} \cup {0}
  PROVE  Selected(InOrder(set), text, FALSE) = {m.uid : m \in found} \cap {m.uid : m \in set}
<1>1. PICK list : list = InOrder(set)
  OBVIOUS
<1>2. PICK n \in Nat : n = Cardinality(set)
  BY InOrderFacts
<1>3. DOMAIN list = 1 .. n /\ \A i \in 1 .. n : list[i] \in set /\ PlaceIn(set, list[i]) = i
  BY <1>1, <1>2, InOrderFacts
<1>4. \A m \in set : PlaceIn(set, m) \in 1 .. n /\ list[PlaceIn(set, m)] = m
  BY <1>1, <1>2, InOrderFacts
<1>5. \A i \in DOMAIN list : list[i].uid \in Int /\ i \in Int
  <2>1. \A i \in 1 .. n : list[i].uid \in Nat /\ i \in Int
    BY <1>3, MessageType DEF Box
  <2> QED BY <1>3, <2>1
<1>6. PICK acted : acted = UidsOf(list, {i \in DOMAIN list : i \in Reads(text)})
  OBVIOUS
<1>7. Selected(list, text, FALSE) = acted
  BY <1>5, <1>6, SelectedSet
<1>8. \A i \in 1 .. n : i \in Reads(text) <=> list[i] \in found
  <2> SUFFICES ASSUME NEW i \in 1 .. n PROVE i \in Reads(text) <=> list[i] \in found
    OBVIOUS
  <2>1. i # 0
    BY <1>2
  <2>2. i \in Reads(text) <=> \E m \in found : PlaceIn(set, m) = i
    BY <2>1
  <2> QED BY <1>3, <1>4, <2>2
<1>9. acted = {m.uid : m \in found}
  <2>1. acted \in SUBSET {m.uid : m \in found}
    BY <1>3, <1>6, <1>8 DEF UidsOf
  <2>2. ASSUME NEW m \in found PROVE m.uid \in acted
    <3>1. PlaceIn(set, m) \in 1 .. n /\ list[PlaceIn(set, m)] = m
      BY <1>4
    <3>2. PlaceIn(set, m) \in DOMAIN list /\ PlaceIn(set, m) \in Reads(text)
      BY <1>3, <1>8, <3>1
    <3> QED BY <1>6, <3>1, <3>2 DEF UidsOf
  <2> QED BY <2>1, <2>2
<1>10. {m.uid : m \in found} \in SUBSET {m.uid : m \in set}
  OBVIOUS
<1> QED BY <1>1, <1>7, <1>9, <1>10

\* The second command acts on the messages the sets name.
LEMMA UseKeeps ==
  ASSUME SearchInvariant, NEW command \in {"FETCH", "STORE"}, NEW text, Use(command, text)
  PROVE  SearchInvariant'
<1>1. /\ step = "answered" /\ step' = "done" /\ mails' = mails /\ request' = request /\ answer' = answer
      /\ changes' = changes /\ meant' = meant /\ kept' = kept /\ text \in SetsOf(answer) \ {<<>>}
  BY DEF Use
<1>2. /\ chosen'.command = command /\ chosen'.text = text
      /\ chosen'.uids = IF command = "STORE" THEN StoreSelected(InOrder(mails), text)
                        ELSE Selected(InOrder(mails), text, request.is_uid)
  BY DEF Use
<1>3. SearchTypes'
  BY <1>1 DEF SearchInvariant, SearchTypes
<1>4. Box(mails) /\ request.is_uid \in BOOLEAN
  BY <1>1, RequestFacts DEF SearchInvariant, SearchTypes, WellWritten
<1>5. UseActsOnTheMatches'
  <2>1. SUFFICES ASSUME Plain(request.text), command = "FETCH" => request.is_uid \/ kept,
                        command = "STORE" => request.is_uid /\ ~HasComma(text)
                 PROVE  chosen'.uids \ {0} = ({m.uid : m \in meant} \cap {m.uid : m \in mails}) \ {0}
    BY <1>1, <1>2 DEF UseActsOnTheMatches, HasComma
  <2>2. SetNames(text)
    BY <1>1, <2>1 DEF SearchInvariant, SetsName
  <2>3. SetLike(text)
    BY <2>2 DEF SetNames
  <2>4. CASE request.is_uid
    <3>1. Reads(text) \cup {0} = {m.uid : m \in meant} \cup {0}
      BY <2>2, <2>4 DEF SetNames
    <3>2. request.is_uid = TRUE
      BY <1>4, <2>4
    <3>3. command = "STORE" => ~HasComma(text)
      BY <2>1
    <3>4. (IF command = "STORE" THEN StoreSelected(InOrder(mails), text) ELSE Selected(InOrder(mails), text, TRUE)) \ {0}
            = ({m.uid : m \in meant} \cap {m.uid : m \in mails}) \ {0}
      BY <1>4, <2>3, <3>1, <3>3, ChosenByUid
    <3> QED BY <1>2, <3>2, <3>4
  <2>5. CASE ~request.is_uid
    <3>1. command = "FETCH" /\ kept
      BY <2>1, <2>5
    <3>2. meant \in SUBSET mails /\ Reads(text) \cup {0} = {PlaceIn(mails, m) : m \in meant} \cup {0}
      BY <2>2, <2>5, <3>1 DEF SetNames
    <3>3. request.is_uid = FALSE
      BY <1>4, <2>5
    <3>4. Selected(InOrder(mails), text, FALSE) = {m.uid : m \in meant} \cap {m.uid : m \in mails}
      BY <1>4, <2>3, <3>2, ChosenByNumber
    <3>5. chosen'.uids = {m.uid : m \in meant} \cap {m.uid : m \in mails}
      BY <1>2, <3>1, <3>3, <3>4
    <3> QED BY <3>5
  <2> QED BY <2>4, <2>5
<1> QED BY <1>1, <1>3, <1>5 DEF SearchInvariant, SetsName, AnswerIsTheMatches, AnswersWhatItMust

\* What others change leaves the sets of the answer their meaning.
LEMMA ChangeKeeps ==
  ASSUME SearchInvariant, NEW now, Box(now), NEW renumbers \in BOOLEAN, Change(now, renumbers),
         ~renumbers => mails \in SUBSET now /\ \A m \in mails : PlaceIn(now, m) = PlaceIn(mails, m)
  PROVE  SearchInvariant'
<1>1. /\ step = "answered" /\ step' = step /\ mails' = now /\ changes' = changes + 1
      /\ kept' = (kept /\ ~renumbers) /\ request' = request /\ answer' = answer /\ meant' = meant
  BY DEF Change
<1>2. changes \in Nat /\ changes' \in Nat /\ changes' # 0
  BY <1>1 DEF SearchInvariant, SearchTypes
<1>3. SearchTypes'
  BY <1>1, <1>2 DEF SearchInvariant, SearchTypes, Box
<1>4. SetsName'
  <2>1. SUFFICES ASSUME Plain(request.text), NEW text \in SetsOf(answer) \ {<<>>}
                 PROVE  SetNames(text)'
    BY <1>1 DEF SetsName
  <2>2. SetNames(text)
    BY <1>1, <2>1 DEF SearchInvariant, SetsName
  <2>3. ASSUME ~request.is_uid, kept'
        PROVE  meant \in SUBSET now /\ Reads(text) \cup {0} = {PlaceIn(now, m) : m \in meant} \cup {0}
    <3>1. kept /\ ~renumbers
      BY <1>1, <2>3
    <3>2. meant \in SUBSET mails /\ Reads(text) \cup {0} = {PlaceIn(mails, m) : m \in meant} \cup {0}
      BY <2>2, <2>3, <3>1 DEF SetNames
    <3>3. \A m \in meant : PlaceIn(now, m) = PlaceIn(mails, m)
      BY <3>1, <3>2
    <3>4. {PlaceIn(now, m) : m \in meant} = {PlaceIn(mails, m) : m \in meant}
      BY <3>3
    <3> QED BY <3>1, <3>2, <3>4
  <2> QED BY <1>1, <2>2, <2>3 DEF SetNames
<1> QED BY <1>1, <1>2, <1>3, <1>4 DEF SearchInvariant, AnswerIsTheMatches, AnswersWhatItMust, UseActsOnTheMatches

\* A message that arrives with a UID is after all others, whose numbers stay.
LEMMA ArriveKeeps == ASSUME SearchInvariant, NEW m \in mails, Arrive(m) PROVE SearchInvariant'
<1>1. PICK given \in {0, NextUid} \ {o.uid : o \in mails} :
        Change(mails \cup {[m EXCEPT !.uid = given]}, given = 0)
  BY DEF Arrive
<1>2. Box(mails)
  BY DEF SearchInvariant, SearchTypes
<1>3. NextUid \in Nat \ {0} /\ \A o \in mails : o.uid < NextUid
  BY <1>2, NextUidFacts
<1>4. PICK e : e = [m EXCEPT !.uid = given]
  OBVIOUS
<1>5. given \in Nat /\ e \in Messages /\ e.uid = given
  <2>1. given \in Nat /\ m \in Messages
    BY <1>2, <1>3 DEF Box
  <2> QED BY <1>4, <2>1, GivenUid
<1>6. PICK now : now = mails \cup {e}
  OBVIOUS
<1>7. \A o \in mails : o.uid # e.uid
  BY <1>5
<1>8. Box(now)
  BY <1>2, <1>5, <1>6, <1>7, GrownBox
<1>9. PICK renumbers \in BOOLEAN : renumbers = (given = 0)
  OBVIOUS
<1>10. Change(now, renumbers)
  BY <1>1, <1>4, <1>6, <1>9
<1>11. ASSUME ~renumbers PROVE mails \in SUBSET now /\ \A o \in mails : PlaceIn(now, o) = PlaceIn(mails, o)
  <2>1. given = NextUid
    BY <1>9, <1>11
  <2>2. \A o \in mails : o.uid < e.uid
    BY <1>3, <1>5, <2>1
  <2>3. \A o \in mails : PlaceIn(now, o) = PlaceIn(mails, o)
    BY <1>2, <1>5, <1>6, <2>2, PlacesStay
  <2> QED BY <1>6, <2>3
<1> QED BY <1>8, <1>10, <1>11, ChangeKeeps

\* A message that gets its UID may move the numbers of others.
LEMMA CompleteKeeps == ASSUME SearchInvariant, NEW m \in mails, Complete(m) PROVE SearchInvariant'
<1>1. Change((mails \ {m}) \cup {[m EXCEPT !.uid = NextUid]}, TRUE)
  BY DEF Complete
<1>2. Box(mails)
  BY DEF SearchInvariant, SearchTypes
<1>3. NextUid \in Nat \ {0} /\ \A o \in mails : o.uid < NextUid
  BY <1>2, NextUidFacts
<1>4. PICK e : e = [m EXCEPT !.uid = NextUid]
  OBVIOUS
<1>5. e \in Messages /\ e.uid = NextUid
  <2>1. NextUid \in Nat /\ m \in Messages
    BY <1>2, <1>3 DEF Box
  <2> QED BY <1>4, <2>1, GivenUid
<1>6. PICK others : others = mails \ {m}
  OBVIOUS
<1>7. Box(others) /\ \A o \in others : o.uid # e.uid
  <2>1. others \in SUBSET mails
    BY <1>6
  <2>2. \A o \in others : o.uid \in Nat /\ o.uid < NextUid
    BY <1>2, <1>3, <2>1, MessageType DEF Box
  <2>3. \A o \in others : o.uid # e.uid
    BY <1>3, <1>5, <2>2
  <2> QED BY <1>2, <2>1, <2>3, ShrunkBox
<1>8. PICK now : now = others \cup {e}
  OBVIOUS
<1>9. Box(now)
  BY <1>5, <1>7, <1>8, GrownBox
<1>10. Change(now, TRUE)
  BY <1>1, <1>4, <1>6, <1>8
<1> QED BY <1>9, <1>10, ChangeKeeps

\* So may one that is removed.
LEMMA DisappearKeeps == ASSUME SearchInvariant, NEW m \in mails, Disappear(m) PROVE SearchInvariant'
<1>1. PICK now : now = mails \ {m}
  OBVIOUS
<1>2. Change(now, TRUE)
  BY <1>1 DEF Disappear
<1>3. Box(mails)
  BY DEF SearchInvariant, SearchTypes
<1>4. Box(now)
  BY <1>1, <1>3, ShrunkBox
<1> QED BY <1>2, <1>4, ChangeKeeps

\* Every step of the two commands keeps the inductive invariant.
LEMMA SearchNextInv == SearchInvariant /\ [SearchNext]_searchVars => SearchInvariant'
<1> SUFFICES ASSUME SearchInvariant, [SearchNext]_searchVars PROVE SearchInvariant'
  OBVIOUS
<1>1. ASSUME NEW r \in Requests, SearchArguments(r) PROVE SearchInvariant'
  BY <1>1, ArgumentsKeep
<1>2. CASE Search
  BY <1>2, SearchKeeps
<1>3. ASSUME NEW command \in {"FETCH", "STORE"}, NEW text \in SetsOf(answer), Use(command, text)
      PROVE  SearchInvariant'
  BY <1>3, UseKeeps
<1>4. ASSUME NEW m \in mails, Arrive(m) PROVE SearchInvariant'
  BY <1>4, ArriveKeeps
<1>5. ASSUME NEW m \in mails, Complete(m) PROVE SearchInvariant'
  BY <1>5, CompleteKeeps
<1>6. ASSUME NEW m \in mails, Disappear(m) PROVE SearchInvariant'
  BY <1>6, DisappearKeeps
<1>7. CASE UNCHANGED searchVars
  <2>1. /\ mails' = mails /\ step' = step /\ request' = request /\ answer' = answer /\ chosen' = chosen
        /\ changes' = changes /\ meant' = meant /\ kept' = kept
    BY <1>7 DEF searchVars
  <2>2. SearchTypes' /\ SetsName'
    BY <2>1 DEF SearchInvariant, SearchTypes, SetsName, SetNames
  <2>3. NumbersOf(meant)' = NumbersOf(meant)
    BY <2>1 DEF NumbersOf
  <2>4. AnswerIsTheMatches'
    BY <2>1, <2>3 DEF SearchInvariant, AnswerIsTheMatches
  <2> QED BY <2>1, <2>2, <2>4 DEF SearchInvariant, AnswersWhatItMust, UseActsOnTheMatches
<1> QED BY <1>1, <1>2, <1>3, <1>4, <1>5, <1>6, <1>7 DEF SearchNext

\* The inductive invariant holds: the answer says what the search finds, and
\* its sets name the messages that matched until one of them gets another
\* number.
THEOREM SearchAlways == SearchSpec => []SearchInvariant
BY SearchInitInv, SearchNextInv, PTL DEF SearchSpec

\* For every folder and every well-written request of which the parser takes every
\* token, the answer of SEARCH and UID SEARCH is exactly the messages that match,
\* whatever keys are nested.
THEOREM SearchAnswers == SearchSpec => []AnswerIsTheMatches
<1>1. SearchInvariant => AnswerIsTheMatches
  BY DEF SearchInvariant
<1> QED BY <1>1, SearchAlways, PTL

\* Every well-written search gets an answer, and is refused or ends the connection
\* only for the causes that AnswersWhatItMust names.
THEOREM SearchIsAnswered == SearchSpec => []AnswersWhatItMust
<1>1. SearchInvariant => AnswersWhatItMust
  BY DEF SearchInvariant
<1> QED BY <1>1, SearchAlways, PTL

\* The command after the search acts on the messages that matched and are
\* still there.
THEOREM SearchIsUsed == SearchSpec => []UseActsOnTheMatches
<1>1. SearchInvariant => UseActsOnTheMatches
  BY DEF SearchInvariant
<1> QED BY <1>1, SearchAlways, PTL
=============================================================================
