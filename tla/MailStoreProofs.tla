--------------------------- MODULE MailStoreProofs ---------------------------
(***************************************************************************)
(* Proofs about MailStore, for any connections, folders, flags and         *)
(* messages: no acknowledged message is lost except by expunging it, on    *)
(* either database, and UIDs ascend on PostgreSQL.                         *)
(***************************************************************************)
EXTENDS MailStore, TLAPS

-----------------------------------------------------------------------------
(* The inductive invariant *)

Path == [id : Ids, sub : {"new", "cur"}, flags : SUBSET Flags]
File == [folder : Folders \cup {None}, sub : {"new", "cur"}, flags : SUBSET Flags]

Listing == {"copy", "move", "expunge", "flags", "+flags", "-flags"}

\* Messages get ids in order, and a copy has the origin of an earlier one.
IdInv ==
  /\ used \in Nat /\ used <= MaxIds
  /\ origin \in [Ids -> Ids]
  /\ \A i \in Ids : i <= used => origin[i] <= used

\* Only what has been stored has a file or a row.
FileInv ==
  /\ dirs \subseteq Folders
  /\ files \in [Ids -> File]
  /\ \A i \in Ids : files[i].folder # None => i <= used
RowInv ==
  /\ rows = [i \in Ids |-> rows[i]]
  /\ \A i \in Ids : rows[i] # NoRow => i <= used

\* The record of a connection, by its fields.
Session(r) ==
  [op |-> r.op, pc |-> r.pc, folder |-> r.folder, dest |-> r.dest, arg |-> r.arg, subs |-> r.subs,
   known |-> r.known, list |-> r.list, todo |-> r.todo, paths |-> r.paths, id |-> r.id, uid |-> r.uid]

\* Among the first n messages, with origins o, there is a later copy of i.
Copied(i, n, o) == \E k \in Ids : k <= n /\ k > i /\ o[k] = o[i]

\* With n messages of origins o: what a connection still works on was stored;
\* what it still expunges had \Deleted when it was listed; what it still
\* removes after a MOVE has been copied.
SessionOK(r, n, o) ==
  /\ r = Session(r)
  /\ r.arg \subseteq Flags
  /\ \A x \in r.list : x.path \in Path /\ x.path.id <= n
  /\ \A e \in r.todo : e \in Path /\ e.id <= n /\ (r.op = "expunge" => "Deleted" \in e.flags)
  /\ \A e \in r.paths : e \in Path /\ Copied(e.id, n, o)
  /\ r.pc \in {"uid", "insert"} => r.id \in Ids /\ r.id <= n /\ r.dest \in Folders
  /\ r.op \in Listing \/ r.pc \in {"rows", "files", "adopt"} => r.folder \in Folders
SessionsInv ==
  /\ s = [p \in Sessions |-> s[p]]
  /\ \A p \in Sessions : SessionOK(s[p], used, origin)

\* The last copy of a message has its file, unless one was expunged.
LastCopy(i, j, n, o) == j <= n /\ o[j] = o[i] /\ \A k \in Ids : k <= n /\ o[k] = o[i] => k <= j
KeptInv ==
  \A i \in Ids : i <= used =>
    \E j \in Ids : LastCopy(i, j, used, origin) /\ (files[j] # NoFile \/ origin[i] \in expunged)

IInv == IdInv /\ FileInv /\ RowInv /\ SessionsInv /\ KeptInv

\* The counter of a mailbox is as high as every UID it has had, but for those
\* that came from another mailbox.
CounterInv ==
  /\ counter \in [Folders -> Nat]
  /\ held = [f \in Folders |-> held[f]] /\ inherited = [f \in Folders |-> inherited[f]]
  /\ \A f \in Folders : \A v \in held[f] : v \in inherited[f] \/ v \in 0 .. counter[f]

-----------------------------------------------------------------------------
(* What does not change *)

\* Messages keep their ids and origins.
Grows == used' \in Nat /\ used <= used' /\ \A i \in Ids : i <= used => origin'[i] = origin[i]

\* What is known of a connection stays true while others store messages.
LEMMA SessionStays ==
  ASSUME NEW n \in Nat, NEW m \in Nat, n <= m, NEW o, NEW o2, \A i \in Ids : i <= n => o2[i] = o[i],
         NEW r, SessionOK(r, n, o)
  PROVE  SessionOK(r, m, o2)
<1>1. \A e \in r.paths : Copied(e.id, m, o2)
  <2> SUFFICES ASSUME NEW e \in r.paths PROVE Copied(e.id, m, o2)
    OBVIOUS
  <2>1. e.id \in Ids
    BY DEF SessionOK, Path
  <2>2. PICK k \in Ids : k <= n /\ k > e.id /\ o[k] = o[e.id]
    BY DEF SessionOK, Copied
  <2>3. k <= m /\ e.id <= n
    BY <2>1, <2>2 DEF Ids
  <2> QED BY <2>1, <2>2, <2>3 DEF Copied
<1>2. \A e \in r.todo : e.id <= m
  <2>1. \A e \in r.todo : e.id \in Ids /\ e.id <= n
    BY DEF SessionOK, Path
  <2> QED BY <2>1 DEF Ids
<1>3. \A x \in r.list : x.path.id <= m
  <2>1. \A x \in r.list : x.path.id \in Ids /\ x.path.id <= n
    BY DEF SessionOK, Path
  <2> QED BY <2>1 DEF Ids
<1>4. r.pc \in {"uid", "insert"} => r.id <= m
  <2>1. r.pc \in {"uid", "insert"} => r.id \in Ids /\ r.id <= n
    BY DEF SessionOK
  <2> QED BY <2>1 DEF Ids
<1> QED BY <1>1, <1>2, <1>3, <1>4 DEF SessionOK

\* A step of one connection.
LEMMA OneSession ==
  ASSUME IdInv, SessionsInv, Grows, NEW p \in Sessions, s' = [s EXCEPT ![p] = s'[p]],
         SessionOK(s'[p], used', origin')
  PROVE  SessionsInv'
<1>1. s' = [q \in Sessions |-> s'[q]]
  BY DEF SessionsInv
<1>2. \A q \in Sessions : SessionOK(s'[q], used', origin')
  <2> SUFFICES ASSUME NEW q \in Sessions, q # p PROVE SessionOK(s'[q], used', origin')
    OBVIOUS
  <2>1. s'[q] = s[q]
    BY DEF SessionsInv
  <2>2. SessionOK(s[q], used, origin)
    BY DEF SessionsInv
  <2> QED BY <2>1, <2>2, SessionStays DEF IdInv, Grows
<1> QED BY <1>1, <1>2 DEF SessionsInv

\* A connection with nothing to do.
LEMMA IdleOK == \A n, o : SessionOK(Idle, n, o)
  BY DEF SessionOK, Session, Idle, Listing

LEMMA Finished ==
  ASSUME IdInv, SessionsInv, Grows, NEW p \in Sessions, Finish(p)
  PROVE  SessionsInv'
<1>1. s'[p] = Idle
  BY DEF SessionsInv, Finish
<1> QED BY <1>1, OneSession, IdleOK DEF Finish

\* Steps that touch no file and no row.
LEMMA Untouched ==
  ASSUME IInv, UNCHANGED <<dirs, files, rows, counter, renames, history>>, SessionsInv'
  PROVE  IInv'
<1> USE DEF history
<1>1. IdInv'
  BY DEF IInv, IdInv
<1>2. FileInv'
  BY DEF IInv, FileInv
<1>3. RowInv'
  BY DEF IInv, RowInv
<1>4. KeptInv'
  BY DEF IInv, KeptInv
<1> QED BY <1>1, <1>2, <1>3, <1>4 DEF IInv

LEMMA SameIds == IdInv /\ UNCHANGED history => IdInv' /\ Grows
  BY DEF IdInv, Grows, history

-----------------------------------------------------------------------------
(* Storing *)

\* A new file is the last copy of its message.
LEMMA WriteKept ==
  ASSUME IdInv, FileInv, KeptInv, NEW f \in Folders, NEW sub \in {"new", "cur"}, NEW flags \in SUBSET Flags,
         NEW of, of = 0 \/ (of \in Ids /\ of <= used), Write(f, sub, flags, of), expunged' = expunged,
         dirs' \subseteq Folders
  PROVE  /\ IdInv' /\ FileInv' /\ KeptInv' /\ Grows
         /\ used' = used + 1 /\ used + 1 \in Ids
         /\ of # 0 => Copied(of, used', origin')
<1> DEFINE n == used + 1
           o == IF of = 0 THEN n ELSE origin[of]
<1>1. used \in Nat /\ n \in Nat /\ n \in Ids /\ used' = n /\ used < n
  <2>1. used \in Nat /\ used < MaxIds /\ used' = used + 1
    BY DEF IdInv, Write
  <2> QED BY <2>1, BoundAssumption DEF Ids
<1>2. /\ files' = [files EXCEPT ![n] = [folder |-> f, sub |-> sub, flags |-> flags]]
      /\ origin' = [origin EXCEPT ![n] = o]
  BY DEF Write
<1>3. o \in Ids /\ o <= n
  <2>1. CASE of = 0
    BY <2>1, <1>1
  <2>2. CASE of # 0
    <3>1. origin[of] \in Ids /\ origin[of] <= used
      BY <2>2 DEF IdInv
    <3> QED BY <3>1, <2>2, <1>1 DEF Ids
  <2> QED BY <2>1, <2>2
<1> HIDE DEF n, o
<1>4. \A i \in Ids : i <= n <=> i <= used \/ i = n
  <2>1. n = used + 1
    BY DEF n
  <2> QED BY <2>1, <1>1 DEF Ids
<1>5. origin' \in [Ids -> Ids] /\ origin'[n] = o /\ \A i \in Ids \ {n} : origin'[i] = origin[i]
  BY <1>1, <1>2, <1>3 DEF IdInv
<1>6. \A i \in Ids : i <= used => i # n /\ origin'[i] = origin[i] /\ origin[i] <= used
  BY <1>1, <1>5 DEF Ids, IdInv
<1>7. IdInv'
  <2>1. \A i \in Ids : i <= n => origin'[i] <= n
    <3> SUFFICES ASSUME NEW i \in Ids, i <= n PROVE origin'[i] <= n
      OBVIOUS
    <3>1. CASE i = n
      BY <3>1, <1>3, <1>5
    <3>2. CASE i <= used
      <4>1. origin[i] \in Ids
        BY DEF IdInv
      <4> QED BY <3>2, <4>1, <1>1, <1>6 DEF Ids
    <3> QED BY <3>1, <3>2, <1>4
  <2>2. n <= MaxIds
    BY <1>1 DEF Ids
  <2> QED BY <2>1, <2>2, <1>1, <1>5 DEF IdInv
<1>8. files' \in [Ids -> File] /\ files'[n].folder = f /\ \A i \in Ids \ {n} : files'[i] = files[i]
  BY <1>1, <1>2 DEF FileInv, File
<1>9. FileInv'
  <2>1. \A i \in Ids : files'[i].folder # None => i <= n
    BY <1>4, <1>8 DEF FileInv
  <2> QED BY <2>1, <1>1, <1>8 DEF FileInv
<1>10. Grows
  BY <1>1, <1>6 DEF Grows
<1>11. of # 0 => Copied(of, used', origin')
  <2>1. ASSUME of # 0 PROVE origin'[n] = origin'[of] /\ n > of
    <3>1. of \in Ids /\ of <= used
      BY <2>1
    <3>2. o = origin[of]
      BY <2>1 DEF o
    <3> QED BY <3>1, <3>2, <1>1, <1>5, <1>6 DEF Ids
  <2>2. n \in Ids /\ n <= used'
    BY <1>1
  <2> QED BY <2>1, <2>2 DEF Copied
<1>12. KeptInv'
  <2> SUFFICES ASSUME NEW i \in Ids, i <= n
               PROVE \E j \in Ids : LastCopy(i, j, n, origin') /\ (files'[j] # NoFile \/ origin'[i] \in expunged)
    BY <1>1 DEF KeptInv
  <2>1. CASE origin'[i] = o
    <3>1. \A k \in Ids : k <= n => k <= n
      OBVIOUS
    <3>2. LastCopy(i, n, n, origin')
      BY <2>1, <1>1, <1>5 DEF LastCopy
    <3>3. files'[n] # NoFile
      BY <1>8, FolderAssumption DEF NoFile
    <3> QED BY <3>2, <3>3, <1>1
  <2>2. CASE origin'[i] # o
    <3>1. i <= used /\ origin'[i] = origin[i]
      BY <2>2, <1>4, <1>5, <1>6
    <3>2. PICK j \in Ids : LastCopy(i, j, used, origin) /\ (files[j] # NoFile \/ origin[i] \in expunged)
      BY <3>1 DEF KeptInv
    <3>3. j <= used /\ j # n /\ origin'[j] = origin'[i]
      BY <3>1, <3>2, <1>6 DEF LastCopy
    <3>4. \A k \in Ids : k <= n /\ origin'[k] = origin'[i] => k <= j
      BY <2>2, <3>1, <3>2, <1>4, <1>5, <1>6 DEF LastCopy
    <3>5. j <= n
      BY <3>3, <1>4
    <3>6. files'[j] = files[j]
      BY <3>3, <1>8
    <3> QED BY <3>1, <3>2, <3>3, <3>4, <3>5, <3>6 DEF LastCopy
  <2> QED BY <2>1, <2>2
<1> QED BY <1>1, <1>7, <1>9, <1>10, <1>11, <1>12 DEF n

LEMMA RowsStay == ASSUME IdInv, RowInv, Grows, rows' = rows PROVE RowInv'
<1>1. \A i \in Ids : i <= used => i <= used'
  BY DEF Grows, IdInv, Ids
<1> QED BY <1>1 DEF RowInv

\* A connection that has just written the file of message i.
LEMMA NewOK ==
  ASSUME NEW op, op \notin Listing, NEW f \in Folders, NEW i \in Ids, NEW o,
         NEW r, r = [Idle EXCEPT !.op = op, !.pc = "uid", !.dest = f, !.id = i]
  PROVE  SessionOK(r, i, o)
<1>1. r = Session(r)
  BY DEF Session, Idle
<1>2. /\ r.arg = {} /\ r.list = {} /\ r.todo = {} /\ r.paths = {}
      /\ r.op = op /\ r.pc = "uid" /\ r.id = i /\ r.dest = f
  BY DEF Idle
<1>3. i <= i
  BY DEF Ids
<1> QED BY <1>1, <1>2, <1>3 DEF SessionOK

LEMMA StoreStep ==
  ASSUME IInv, NEW p \in Sessions, NEW op \in {"deliver", "append"}, NEW f \in Folders, NEW flags \in SUBSET Flags,
         Store(p, op, f, flags)
  PROVE  IInv'
<1> DEFINE sub == IF op = "deliver" THEN "new" ELSE "cur"
<1>1. Write(f, sub, flags, 0) /\ dirs' \subseteq Folders /\ expunged' = expunged /\ rows' = rows
  BY DEF Store, IInv, FileInv
<1>2. /\ IdInv' /\ FileInv' /\ KeptInv' /\ Grows
      /\ used' = used + 1 /\ used + 1 \in Ids
  <2>1. sub \in {"new", "cur"}
    OBVIOUS
  <2> HIDE DEF sub
  <2> QED BY <2>1, <1>1, WriteKept DEF IInv
<1>3. RowInv'
  BY <1>1, <1>2, RowsStay DEF IInv
<1>4. s' = [s EXCEPT ![p] = [Idle EXCEPT !.op = op, !.pc = "uid", !.dest = f, !.id = used + 1]]
  BY DEF Store
<1>5. SessionsInv'
  <2>1. s'[p] = [Idle EXCEPT !.op = op, !.pc = "uid", !.dest = f, !.id = used + 1]
    BY <1>4 DEF IInv, SessionsInv
  <2>2. SessionOK([Idle EXCEPT !.op = op, !.pc = "uid", !.dest = f, !.id = used + 1], used', origin')
    <3>1. op \notin Listing
      BY DEF Listing
    <3> QED BY <1>2, <3>1, NewOK
  <2> QED BY <1>2, <1>4, <2>1, <2>2, OneSession DEF IInv
<1> QED BY <1>2, <1>3, <1>5 DEF IInv

-----------------------------------------------------------------------------
(* Steps of a command *)

\* A connection that goes on with the same work, or with less.
LEMMA SameWork ==
  ASSUME NEW n, NEW o, NEW r, SessionOK(r, n, o), NEW t, t = Session(t),
         t.op = r.op, t.folder = r.folder, t.dest = r.dest, t.arg = r.arg, t.id = r.id,
         t.list \subseteq r.list, t.todo \subseteq r.todo, t.paths \subseteq r.paths,
         t.pc \in {"uid", "insert"} => r.pc \in {"uid", "insert"},
         t.pc \in {"rows", "files", "adopt"} => r.pc \in {"rows", "files", "adopt"}
  PROVE  SessionOK(t, n, o)
  BY DEF SessionOK

\* A step of a connection that leaves files and rows alone.
LEMMA QuietStep ==
  ASSUME IInv, NEW p \in Sessions, UNCHANGED <<dirs, files, rows, counter, renames, history>>,
         s' = [s EXCEPT ![p] = s'[p]], SessionOK(s'[p], used, origin)
  PROVE  IInv'
<1>1. used' = used /\ origin' = origin
  BY DEF history
<1>2. SessionsInv'
  BY <1>1, OneSession, SameIds DEF IInv
<1> QED BY <1>2, Untouched

LEMMA SelectUidStep == ASSUME IInv, NEW p \in Sessions, SelectUid(p) PROVE IInv'
<1>1. UNCHANGED <<dirs, files, rows, counter, renames, history>> /\ s[p].pc = "uid"
  BY DEF SelectUid, At
<1>2. PICK uid : s' = [s EXCEPT ![p].uid = uid, ![p].pc = "insert"]
  BY DEF SelectUid
<1>3. s'[p] = [s[p] EXCEPT !.uid = uid, !.pc = "insert"] /\ s' = [s EXCEPT ![p] = s'[p]]
  BY <1>2 DEF IInv, SessionsInv
<1>4. SessionOK(s[p], used, origin) /\ s[p] = Session(s[p])
  BY DEF IInv, SessionsInv, SessionOK
<1>5. SessionOK(s'[p], used, origin)
  <2>1. s'[p] = Session(s'[p])
    BY <1>3, <1>4 DEF Session
  <2>2. LET r == s[p] t == s'[p] IN
        /\ t.op = r.op /\ t.folder = r.folder /\ t.dest = r.dest /\ t.arg = r.arg /\ t.id = r.id
        /\ t.list = r.list /\ t.todo = r.todo /\ t.paths = r.paths /\ t.pc = "insert"
    BY <1>3, <1>4 DEF Session
  <2> QED BY <2>1, <2>2, <1>1, <1>4, SameWork
<1> QED BY <1>1, <1>3, <1>5, QuietStep

LEMMA ReportStep == ASSUME IInv, NEW p \in Sessions, Report(p) PROVE IInv'
<1>1. UNCHANGED <<dirs, files, rows, counter, renames, history>>
  BY DEF Report
<1>2. CASE Finish(p)
  BY <1>1, <1>2, Finished, SameIds, Untouched DEF IInv
<1>3. CASE s' = [s EXCEPT ![p].pc = "loop"]
  <2>1. s'[p] = [s[p] EXCEPT !.pc = "loop"] /\ s' = [s EXCEPT ![p] = s'[p]]
    BY <1>3 DEF IInv, SessionsInv
  <2>2. SessionOK(s[p], used, origin) /\ s[p] = Session(s[p])
    BY DEF IInv, SessionsInv, SessionOK
  <2>3. s'[p] = Session(s'[p])
    BY <2>1, <2>2 DEF Session
  <2>4. LET r == s[p] t == s'[p] IN
        /\ t.op = r.op /\ t.folder = r.folder /\ t.dest = r.dest /\ t.arg = r.arg /\ t.id = r.id
        /\ t.list = r.list /\ t.todo = r.todo /\ t.paths = r.paths /\ t.pc = "loop"
    BY <2>1, <2>2 DEF Session
  <2>5. SessionOK(s'[p], used, origin)
    BY <2>2, <2>3, <2>4, SameWork
  <2> QED BY <1>1, <2>1, <2>5, QuietStep
<1> QED BY <1>2, <1>3 DEF Report

LEMMA InsertStep == ASSUME IInv, NEW p \in Sessions, Insert(p) PROVE IInv'
<1>1. /\ UNCHANGED <<dirs, files, renames, used, origin, expunged>> /\ s[p].pc = "insert"
      /\ \E row : rows' = [rows EXCEPT ![s[p].id] = row]
  BY DEF Insert, At
<1>2. SessionOK(s[p], used, origin) /\ s[p] = Session(s[p])
  BY DEF IInv, SessionsInv, SessionOK
<1>3. IdInv' /\ FileInv' /\ KeptInv' /\ Grows
  BY <1>1 DEF IInv, IdInv, FileInv, KeptInv, Grows
<1>4. RowInv'
  <2>1. s[p].id \in Ids /\ s[p].id <= used
    BY <1>1, <1>2 DEF SessionOK
  <2> QED BY <1>1, <2>1 DEF IInv, RowInv
<1>5. SessionsInv'
  <2>1. CASE Finish(p)
    BY <2>1, <1>3, Finished DEF IInv
  <2>2. CASE s' = [s EXCEPT ![p].pc = "report"]
    <3>1. s'[p] = [s[p] EXCEPT !.pc = "report"] /\ s' = [s EXCEPT ![p] = s'[p]]
      BY <2>2 DEF IInv, SessionsInv
    <3>2. s'[p] = Session(s'[p])
      BY <3>1, <1>2 DEF Session
    <3>3. LET r == s[p] t == s'[p] IN
          /\ t.op = r.op /\ t.folder = r.folder /\ t.dest = r.dest /\ t.arg = r.arg /\ t.id = r.id
          /\ t.list = r.list /\ t.todo = r.todo /\ t.paths = r.paths /\ t.pc = "report"
      BY <3>1, <1>2 DEF Session
    <3>4. SessionOK(s'[p], used', origin')
      BY <1>1, <1>2, <3>2, <3>3, SameWork
    <3> QED BY <1>3, <3>1, <3>4, OneSession DEF IInv
  <2> QED BY <2>1, <2>2 DEF Insert
<1> QED BY <1>3, <1>4, <1>5 DEF IInv

LEMMA SelectRowsStep == ASSUME IInv, NEW p \in Sessions, SelectRows(p) PROVE IInv'
<1>1. UNCHANGED <<dirs, files, rows, counter, renames, history>> /\ s[p].pc = "rows"
  BY DEF SelectRows, At
<1>2. PICK known : s' = [s EXCEPT ![p].known = known, ![p].pc = "files"]
  BY DEF SelectRows
<1>3. s'[p] = [s[p] EXCEPT !.known = known, !.pc = "files"] /\ s' = [s EXCEPT ![p] = s'[p]]
  BY <1>2 DEF IInv, SessionsInv
<1>4. SessionOK(s[p], used, origin) /\ s[p] = Session(s[p])
  BY DEF IInv, SessionsInv, SessionOK
<1>5. SessionOK(s'[p], used, origin)
  <2>1. s'[p] = Session(s'[p])
    BY <1>3, <1>4 DEF Session
  <2>2. LET r == s[p] t == s'[p] IN
        /\ t.op = r.op /\ t.folder = r.folder /\ t.dest = r.dest /\ t.arg = r.arg /\ t.id = r.id
        /\ t.list = r.list /\ t.todo = r.todo /\ t.paths = r.paths /\ t.pc = "files"
    BY <1>3, <1>4 DEF Session
  <2> QED BY <2>1, <2>2, <1>1, <1>4, SameWork
<1> QED BY <1>1, <1>3, <1>5, QuietStep

LEMMA StartStep ==
  ASSUME IInv, NEW p \in Sessions, NEW op \in Ops, NEW f \in Folders, NEW g \in Folders,
         NEW arg \in SUBSET Flags, Start(p, op, f, g, arg)
  PROVE  IInv'
<1>1. UNCHANGED <<dirs, files, rows, counter, renames, history>>
  BY DEF Start
<1>2. PICK dest, subs :
        s' = [s EXCEPT ![p] = [Idle EXCEPT
               !.op = op, !.pc = "rows", !.folder = f, !.dest = dest,
               !.arg = IF op \in {"flags", "+flags", "-flags"} THEN arg ELSE {}, !.subs = subs]]
  BY DEF Start
<1>3. /\ s' = [s EXCEPT ![p] = s'[p]]
      /\ s'[p] = [Idle EXCEPT
               !.op = op, !.pc = "rows", !.folder = f, !.dest = dest,
               !.arg = IF op \in {"flags", "+flags", "-flags"} THEN arg ELSE {}, !.subs = subs]
  BY <1>2 DEF IInv, SessionsInv
<1>4. s'[p] = Session(s'[p])
  BY <1>3 DEF Session, Idle
<1>5. LET t == s'[p] IN
      t.arg \subseteq Flags /\ t.list = {} /\ t.todo = {} /\ t.paths = {} /\ t.pc = "rows" /\ t.folder = f
  BY <1>3 DEF Idle
<1>6. SessionOK(s'[p], used, origin)
  BY <1>4, <1>5 DEF SessionOK
<1> QED BY <1>1, <1>3, <1>6, QuietStep

LEMMA ReadDirStep == ASSUME IInv, NEW p \in Sessions, ReadDir(p) PROVE IInv'
<1> DEFINE here == {i \in Ids : files[i].folder = s[p].folder /\ files[i].sub = Head(Head(s[p].subs))}
           path(i) == [id |-> i, sub |-> files[i].sub, flags |-> files[i].flags]
           uid(i) == Max({0} \cup {k.uid : k \in {r \in s[p].known : r.id = i}})
           found == {[path |-> path(i), uid |-> uid(i)] : i \in here}
<1>1. UNCHANGED <<dirs, files, rows, counter, renames, history>> /\ s[p].pc = "files"
  BY DEF ReadDir, At
<1>2. SessionOK(s[p], used, origin) /\ s[p] = Session(s[p])
  BY DEF IInv, SessionsInv, SessionOK
<1>3. s[p].folder \in Folders
  BY <1>1, <1>2 DEF SessionOK
<1>4. \A i \in here : path(i) \in Path /\ i <= used
  <2> SUFFICES ASSUME NEW i \in here PROVE path(i) \in Path /\ i <= used
    OBVIOUS
  <2>1. i \in Ids /\ files[i] \in File /\ files[i].folder # None
    BY <1>3, FolderAssumption DEF IInv, FileInv
  <2> QED BY <2>1 DEF IInv, FileInv, File, Path
<1>5. \A x \in found : x.path \in Path /\ x.path.id <= used
  <2> SUFFICES ASSUME NEW i \in here, NEW u, NEW x, x = [path |-> path(i), uid |-> u]
               PROVE x.path \in Path /\ x.path.id <= used
    BY Zenon
  <2> QED BY <1>4
<1>6. PICK subs, pc :
        s' = [s EXCEPT ![p].list = @ \cup found, ![p].subs[1] = subs, ![p].pc = pc]
             /\ pc \in {"files", "adopt"}
  BY DEF ReadDir
<1> HIDE DEF found
<1>7. /\ s' = [s EXCEPT ![p] = s'[p]]
      /\ s'[p] = [s[p] EXCEPT !.list = @ \cup found, !.subs[1] = subs, !.pc = pc]
  BY <1>6 DEF IInv, SessionsInv
<1>8. s'[p] = Session(s'[p])
  BY <1>2, <1>7 DEF Session
<1>9. LET r == s[p] t == s'[p] IN
      /\ t.op = r.op /\ t.folder = r.folder /\ t.arg = r.arg
      /\ t.list = r.list \cup found /\ t.todo = r.todo /\ t.paths = r.paths /\ t.pc = pc
  BY <1>2, <1>7 DEF Session
<1>10. SessionOK(s'[p], used, origin)
  BY <1>2, <1>3, <1>5, <1>6, <1>8, <1>9 DEF SessionOK
<1> QED BY <1>1, <1>7, <1>10, QuietStep

LEMMA AdoptStep == ASSUME IInv, NEW p \in Sessions, Adopt(p) PROVE IInv'
<1>1. UNCHANGED <<dirs, files, counter, renames, used, origin, expunged>> /\ s[p].pc = "adopt"
  BY DEF Adopt, At
<1>2. SessionOK(s[p], used, origin) /\ s[p] = Session(s[p])
  BY DEF IInv, SessionsInv, SessionOK
<1>3. IdInv' /\ FileInv' /\ KeptInv' /\ Grows
  BY <1>1 DEF IInv, IdInv, FileInv, KeptInv, Grows
<1>4. rows' = [i \in Ids |-> rows'[i]] /\ \A i \in Ids : rows'[i] # NoRow => rows[i] # NoRow
  <2> DEFINE adopted == {i \in {e.path.id : e \in s[p].list} \ {k.id : k \in s[p].known} : rows[i] # NoRow}
  <2>1. rows' = [i \in Ids |-> IF i \in adopted THEN [rows[i] EXCEPT !.mailbox = s[p].folder] ELSE rows[i]]
    BY DEF Adopt
  <2>2. \A i \in adopted : rows[i] # NoRow
    OBVIOUS
  <2> HIDE DEF adopted
  <2> QED BY <2>1, <2>2
<1>5. RowInv'
  BY <1>1, <1>4 DEF IInv, RowInv
<1>6. SessionOK(s'[p], used, origin) /\ s' = [s EXCEPT ![p] = s'[p]]
  <2>1. CASE Len(s[p].subs) > 1
    <3>1. PICK subs : s' = [s EXCEPT ![p].subs = subs, ![p].pc = "rows"]
      BY <2>1 DEF Adopt
    <3>2. s'[p] = [s[p] EXCEPT !.subs = subs, !.pc = "rows"] /\ s' = [s EXCEPT ![p] = s'[p]]
      BY <3>1 DEF IInv, SessionsInv
    <3>3. s'[p] = Session(s'[p])
      BY <3>2, <1>2 DEF Session
    <3>4. LET r == s[p] t == s'[p] IN
          /\ t.op = r.op /\ t.folder = r.folder /\ t.dest = r.dest /\ t.arg = r.arg /\ t.id = r.id
          /\ t.list = r.list /\ t.todo = r.todo /\ t.paths = r.paths /\ t.pc = "rows"
      BY <3>2, <1>2 DEF Session
    <3> QED BY <1>1, <1>2, <3>2, <3>3, <3>4, SameWork
  <2>2. CASE ~ (Len(s[p].subs) > 1)
    <3>1. PICK chosen \in SUBSET Wanted(s[p]) :
            s' = [s EXCEPT ![p].todo = chosen, ![p].list = {}, ![p].known = {},
                           ![p].subs = <<>>, ![p].pc = "loop"]
      BY <2>2 DEF Adopt
    <3>2. /\ s' = [s EXCEPT ![p] = s'[p]]
          /\ s'[p] = [s[p] EXCEPT !.todo = chosen, !.list = {}, !.known = {}, !.subs = <<>>, !.pc = "loop"]
      BY <3>1 DEF IInv, SessionsInv
    <3>3. s'[p] = Session(s'[p])
      BY <3>2, <1>2 DEF Session
    <3>4. LET r == s[p] t == s'[p] IN
          /\ t.op = r.op /\ t.folder = r.folder /\ t.arg = r.arg
          /\ t.list = {} /\ t.todo = chosen /\ t.paths = r.paths /\ t.pc = "loop"
      BY <3>2, <1>2 DEF Session
    <3>5. \A e \in chosen : e \in Path /\ e.id <= used /\ (s[p].op = "expunge" => "Deleted" \in e.flags)
      <4>1. \A e \in chosen : /\ \E x \in s[p].list : e = x.path
                              /\ s[p].op = "expunge" => "Deleted" \in e.flags
        BY <3>1 DEF Wanted
      <4> QED BY <1>2, <4>1 DEF SessionOK
    <3> QED BY <1>2, <3>2, <3>3, <3>4, <3>5 DEF SessionOK
  <2> QED BY <2>1, <2>2
<1>7. SessionsInv'
  BY <1>1, <1>3, <1>6, OneSession DEF IInv, history
<1> QED BY <1>3, <1>5, <1>7 DEF IInv

LEMMA CopyOneStep == ASSUME IInv, NEW p \in Sessions, NEW e \in s[p].todo, CopyOne(p, e) PROVE IInv'
<1>1. /\ Write(s[p].dest, "cur", e.flags, e.id) /\ s[p].dest \in dirs /\ s[p].pc = "loop" /\ s[p].op \in Listing
      /\ UNCHANGED <<dirs, rows, counter, renames, expunged, held, inherited>>
  BY DEF CopyOne, At, Listing
<1>2. SessionOK(s[p], used, origin) /\ s[p] = Session(s[p])
  BY DEF IInv, SessionsInv, SessionOK
<1>3. e \in Path /\ e.id <= used /\ s[p].folder \in Folders
  BY <1>1, <1>2 DEF SessionOK
<1>4. e.id \in Ids /\ e.flags \in SUBSET Flags /\ e.id # 0
  BY <1>3 DEF Path, Ids
<1>5. s[p].dest \in Folders /\ dirs' \subseteq Folders
  BY <1>1 DEF IInv, FileInv
<1>6. /\ IdInv' /\ FileInv' /\ KeptInv' /\ Grows /\ used' = used + 1 /\ used + 1 \in Ids
      /\ Copied(e.id, used', origin')
  BY <1>1, <1>3, <1>4, <1>5, WriteKept DEF IInv
<1>7. RowInv'
  BY <1>1, <1>6, RowsStay DEF IInv
<1>8. SessionOK(s[p], used', origin')
  BY <1>2, <1>6, SessionStays DEF IInv, IdInv, Grows
<1>9. PICK paths : /\ paths \subseteq s[p].paths \cup {e}
                   /\ s' = [s EXCEPT ![p].todo = @ \ {e}, ![p].paths = paths, ![p].id = used + 1, ![p].pc = "uid"]
  <2>1. s' = [s EXCEPT ![p].todo = @ \ {e},
                       ![p].paths = IF s[p].op = "move" THEN s[p].paths \cup {e} ELSE s[p].paths,
                       ![p].id = used + 1, ![p].pc = "uid"]
    BY DEF CopyOne
  <2> QED BY <2>1
<1>10. /\ s' = [s EXCEPT ![p] = s'[p]]
       /\ s'[p] = [s[p] EXCEPT !.todo = @ \ {e}, !.paths = paths, !.id = used + 1, !.pc = "uid"]
  BY <1>9 DEF IInv, SessionsInv
<1>11. s'[p] = Session(s'[p])
  BY <1>2, <1>10 DEF Session
<1>12. LET r == s[p] t == s'[p] IN
       /\ t.op = r.op /\ t.folder = r.folder /\ t.dest = r.dest /\ t.arg = r.arg /\ t.id = used + 1
       /\ t.list = r.list /\ t.todo = r.todo \ {e} /\ t.paths = paths /\ t.pc = "uid"
  BY <1>2, <1>10 DEF Session
<1>13. used + 1 <= used'
  BY <1>6 DEF Ids
<1>14. \A x \in paths : x \in Path /\ Copied(x.id, used', origin')
  BY <1>3, <1>6, <1>8, <1>9 DEF SessionOK
<1>15. SessionOK(s'[p], used', origin')
  BY <1>3, <1>5, <1>6, <1>8, <1>11, <1>12, <1>13, <1>14 DEF SessionOK
<1>16. SessionsInv'
  BY <1>6, <1>10, <1>15, OneSession DEF IInv
<1> QED BY <1>6, <1>7, <1>16 DEF IInv

\* A step of a listing command that removes from what it has still to do and
\* changes one file, other than the last copy of a message that nobody expunged.
LEMMA FileStep ==
  ASSUME IInv, NEW p \in Sessions, NEW x \in Ids, NEW file \in File,
         file.folder # None => x <= used,
         files' = [files EXCEPT ![x] = file],
         file # NoFile \/ Copied(x, used, origin) \/ origin[x] \in expunged',
         expunged \subseteq expunged', UNCHANGED <<dirs, rows, used, origin>>,
         s' = [s EXCEPT ![p] = s'[p]], SessionOK(s'[p], used, origin)
  PROVE  IInv'
<1>1. IdInv' /\ Grows
  BY DEF IInv, IdInv, Grows
<1>2. files' \in [Ids -> File] /\ files'[x] = file /\ \A i \in Ids \ {x} : files'[i] = files[i]
  BY DEF IInv, FileInv
<1>3. FileInv' /\ RowInv'
  BY <1>2 DEF IInv, FileInv, RowInv
<1>4. KeptInv'
  <2> SUFFICES ASSUME NEW i \in Ids, i <= used
               PROVE \E j \in Ids : LastCopy(i, j, used, origin) /\ (files'[j] # NoFile \/ origin[i] \in expunged')
    BY DEF KeptInv
  <2>1. PICK j \in Ids : LastCopy(i, j, used, origin) /\ (files[j] # NoFile \/ origin[i] \in expunged)
    BY DEF IInv, KeptInv
  <2>2. CASE j # x
    BY <2>1, <2>2, <1>2
  <2>3. CASE j = x
    <3>1. ~ Copied(x, used, origin)
      <4> SUFFICES ASSUME NEW k \in Ids, k <= used, k > x, origin[k] = origin[x] PROVE FALSE
        BY DEF Copied
      <4>1. origin[k] = origin[i] /\ k <= x
        BY <2>1, <2>3 DEF LastCopy
      <4> QED BY <4>1 DEF Ids
    <3>2. origin[i] = origin[x]
      BY <2>1, <2>3 DEF LastCopy
    <3> QED BY <2>1, <2>3, <3>1, <3>2, <1>2
  <2> QED BY <2>2, <2>3
<1>5. SessionsInv'
  BY <1>1, OneSession DEF IInv
<1> QED BY <1>1, <1>3, <1>4, <1>5 DEF IInv

\* A connection in its loop that has one thing less to do.
LEMMA LessToDo ==
  ASSUME SessionsInv, NEW p \in Sessions, s[p].pc = "loop", NEW e,
         s' = [s EXCEPT ![p].todo = @ \ {e}] \/ s' = [s EXCEPT ![p].paths = @ \ {e}]
  PROVE  s' = [s EXCEPT ![p] = s'[p]] /\ SessionOK(s'[p], used, origin)
<1>1. SessionOK(s[p], used, origin) /\ s[p] = Session(s[p])
  BY DEF SessionsInv, SessionOK
<1>2. PICK todo, paths : todo \subseteq s[p].todo /\ paths \subseteq s[p].paths
        /\ s' = [s EXCEPT ![p] = [s[p] EXCEPT !.todo = todo, !.paths = paths]]
  <2>1. s[p].todo \ {e} \subseteq s[p].todo /\ s[p].paths \ {e} \subseteq s[p].paths
    OBVIOUS
  <2>2. [s[p] EXCEPT !.todo = s[p].todo] = s[p] /\ [s[p] EXCEPT !.paths = s[p].paths] = s[p]
    BY <1>1 DEF Session
  <2>3. CASE s' = [s EXCEPT ![p].todo = @ \ {e}]
    <3>1. s' = [s EXCEPT ![p] = [s[p] EXCEPT !.todo = s[p].todo \ {e}, !.paths = s[p].paths]]
      <4>1. [s[p] EXCEPT !.todo = s[p].todo \ {e}, !.paths = s[p].paths] = [s[p] EXCEPT !.todo = s[p].todo \ {e}]
        BY <1>1 DEF Session
      <4> QED BY <2>3, <4>1
    <3> QED BY <2>1, <3>1
  <2>4. CASE s' = [s EXCEPT ![p].paths = @ \ {e}]
    <3>1. s' = [s EXCEPT ![p] = [s[p] EXCEPT !.todo = s[p].todo, !.paths = s[p].paths \ {e}]]
      <4>1. [s[p] EXCEPT !.todo = s[p].todo, !.paths = s[p].paths \ {e}] = [s[p] EXCEPT !.paths = s[p].paths \ {e}]
        BY <1>1 DEF Session
      <4> QED BY <2>4, <4>1
    <3> QED BY <2>1, <3>1
  <2> QED BY <2>3, <2>4
<1>3. s'[p] = [s[p] EXCEPT !.todo = todo, !.paths = paths] /\ s' = [s EXCEPT ![p] = s'[p]]
  BY <1>2 DEF SessionsInv
<1>4. s'[p] = Session(s'[p])
  BY <1>1, <1>3 DEF Session
<1>5. LET r == s[p] t == s'[p] IN
      /\ t.op = r.op /\ t.folder = r.folder /\ t.dest = r.dest /\ t.arg = r.arg /\ t.id = r.id
      /\ t.list = r.list /\ t.todo = todo /\ t.paths = paths /\ t.pc = "loop"
  BY <1>1, <1>3 DEF Session
<1> QED BY <1>1, <1>2, <1>3, <1>4, <1>5, SameWork

LEMMA NoFileIsFile == NoFile \in File
  BY DEF NoFile, File

LEMMA ExpungeOneStep == ASSUME IInv, NEW p \in Sessions, NEW e \in s[p].todo, ExpungeOne(p, e) PROVE IInv'
<1>1. /\ s[p].pc = "loop" /\ s[p].op = "expunge" /\ Found(s[p].folder, e)
      /\ files' = [files EXCEPT ![e.id] = NoFile]
      /\ expunged' = IF "Deleted" \in files[e.id].flags THEN expunged \cup {origin[e.id]} ELSE expunged
      /\ s' = [s EXCEPT ![p].todo = @ \ {e}]
      /\ UNCHANGED <<dirs, rows, counter, renames, used, origin, held, inherited>>
  BY DEF ExpungeOne, At, Remove, Removable
<1>2. e \in Path /\ "Deleted" \in e.flags
  BY <1>1 DEF IInv, SessionsInv, SessionOK
<1>3. "Deleted" \in files[e.id].flags
  BY <1>1, <1>2 DEF Found
<1>4. e.id \in Ids /\ origin[e.id] \in expunged' /\ expunged \subseteq expunged'
  BY <1>1, <1>2, <1>3 DEF Path
<1>5. s' = [s EXCEPT ![p] = s'[p]] /\ SessionOK(s'[p], used, origin)
  BY <1>1, LessToDo DEF IInv
<1>6. NoFile.folder = None
  BY DEF NoFile
<1> QED BY <1>1, <1>4, <1>5, <1>6, NoFileIsFile, FileStep

LEMMA MoveOneStep == ASSUME IInv, NEW p \in Sessions, NEW e \in s[p].paths, MoveOne(p, e) PROVE IInv'
<1>1. /\ s[p].pc = "loop"
      /\ files' = [files EXCEPT ![e.id] = NoFile]
      /\ s' = [s EXCEPT ![p].paths = @ \ {e}]
      /\ UNCHANGED <<dirs, rows, counter, renames, history>>
  BY DEF MoveOne, At, Remove
<1>2. e \in Path /\ Copied(e.id, used, origin)
  BY DEF IInv, SessionsInv, SessionOK
<1>3. e.id \in Ids
  BY <1>2 DEF Path
<1>4. s' = [s EXCEPT ![p] = s'[p]] /\ SessionOK(s'[p], used, origin)
  BY <1>1, LessToDo DEF IInv
<1>5. NoFile.folder = None
  BY DEF NoFile
<1> QED BY <1>1, <1>2, <1>3, <1>4, <1>5, NoFileIsFile, FileStep DEF history

LEMMA StoreOneStep == ASSUME IInv, NEW p \in Sessions, NEW e \in s[p].todo, StoreOne(p, e) PROVE IInv'
<1> DEFINE old  == IF e.sub = "new" THEN {} ELSE files[e.id].flags
           file == [folder |-> s[p].folder, sub |-> "cur", flags |-> NewFlags(s[p].op, old, s[p].arg)]
<1>1. /\ s[p].pc = "loop" /\ s[p].op \in Listing
      /\ files' = [files EXCEPT ![e.id] = file] \/ files' = files
      /\ s' = [s EXCEPT ![p].todo = @ \ {e}]
      /\ UNCHANGED <<dirs, rows, counter, renames, history>>
  BY DEF StoreOne, At, Listing
<1>2. e \in Path /\ e.id <= used /\ s[p].folder \in Folders /\ s[p].arg \subseteq Flags
  BY <1>1 DEF IInv, SessionsInv, SessionOK
<1>3. e.id \in Ids
  BY <1>2 DEF Path
<1>4. file \in File
  <2>1. files[e.id].flags \subseteq Flags
    BY <1>3 DEF IInv, FileInv, File
  <2>2. NewFlags(s[p].op, old, s[p].arg) \subseteq Flags
    BY <1>2, <2>1 DEF NewFlags
  <2> QED BY <1>2, <2>2 DEF File
<1>5. file # NoFile
  BY <1>2, FolderAssumption DEF NoFile
<1>6. s' = [s EXCEPT ![p] = s'[p]] /\ SessionOK(s'[p], used, origin)
  BY <1>1, LessToDo DEF IInv
<1> HIDE DEF file
<1>7. CASE files' = [files EXCEPT ![e.id] = file]
  BY <1>1, <1>2, <1>3, <1>4, <1>5, <1>6, <1>7, FileStep DEF history
<1>8. CASE files' = files
  BY <1>1, <1>6, <1>8, QuietStep
<1> QED BY <1>1, <1>7, <1>8

LEMMA EndStep == ASSUME IInv, NEW p \in Sessions, Complete(p) \/ Abort(p) PROVE IInv'
<1>1. Finish(p) /\ UNCHANGED <<dirs, files, rows, counter, renames, history>>
  BY DEF Complete, Abort
<1> QED BY <1>1, Finished, SameIds, Untouched DEF IInv

LEMMA CreateStep == ASSUME IInv, NEW f \in Folders, Create(f) PROVE IInv'
  BY DEF Create, history, IInv, IdInv, FileInv, RowInv, SessionsInv, KeptInv

LEMMA RenameStep == ASSUME IInv, NEW f \in Folders, NEW g \in Folders, Rename(f, g) PROVE IInv'
<1>1. /\ dirs' = (dirs \ {f}) \cup {g}
      /\ files' = [i \in Ids |-> IF files[i].folder = f THEN [files[i] EXCEPT !.folder = g] ELSE files[i]]
      /\ UNCHANGED <<rows, s, used, origin, expunged>>
  BY DEF Rename, history
<1>2. IdInv' /\ RowInv' /\ SessionsInv'
  BY <1>1 DEF IInv, IdInv, RowInv, SessionsInv
<1>3. \A i \in Ids : /\ files'[i] \in File
                     /\ files'[i].folder # None <=> files[i].folder # None
                     /\ files'[i] = NoFile => files[i] = NoFile
  <2> SUFFICES ASSUME NEW i \in Ids
               PROVE /\ files'[i] \in File
                     /\ files'[i].folder # None <=> files[i].folder # None
                     /\ files'[i] = NoFile => files[i] = NoFile
    OBVIOUS
  <2>1. files[i] \in File
    BY DEF IInv, FileInv
  <2>2. files'[i] = IF files[i].folder = f THEN [files[i] EXCEPT !.folder = g] ELSE files[i]
    BY <1>1
  <2>3. CASE files[i].folder = f
    <3>1. files'[i] = [files[i] EXCEPT !.folder = g]
      BY <2>2, <2>3
    <3>2. files'[i] \in File /\ files'[i].folder = g
      BY <3>1, <2>1 DEF File
    <3> QED BY <3>2, <2>3, FolderAssumption DEF NoFile
  <2>4. CASE files[i].folder # f
    BY <2>1, <2>2, <2>4
  <2> QED BY <2>3, <2>4
<1>4. FileInv'
  BY <1>1, <1>3 DEF IInv, FileInv
<1>5. KeptInv'
  BY <1>1, <1>3 DEF IInv, KeptInv
<1> QED BY <1>2, <1>4, <1>5 DEF IInv

-----------------------------------------------------------------------------
(* The theorems *)

LEMMA InitInv == Init => IInv
<1> SUFFICES ASSUME Init PROVE IInv
  OBVIOUS
<1>1. IdInv
  BY BoundAssumption DEF Init, IdInv, Ids
<1>2. FileInv
  BY NoFileIsFile DEF Init, FileInv, NoFile
<1>3. RowInv
  BY DEF Init, RowInv
<1>4. SessionsInv
  BY IdleOK DEF Init, SessionsInv
<1>5. KeptInv
  BY DEF Init, KeptInv, Ids
<1> QED BY <1>1, <1>2, <1>3, <1>4, <1>5 DEF IInv

LEMMA NextInv == IInv /\ [Next]_vars => IInv'
<1> SUFFICES ASSUME IInv, [Next]_vars PROVE IInv'
  OBVIOUS
<1>1. CASE UNCHANGED vars
  BY <1>1 DEF vars, IInv, IdInv, FileInv, RowInv, SessionsInv, KeptInv
<1>2. ASSUME NEW p \in Sessions, Request(p) PROVE IInv'
  <2>1. CASE Deliver(p)
    BY <2>1, StoreStep, FolderAssumption DEF Deliver
  <2>2. CASE \E f \in Folders, a \in SUBSET Flags : append(p, f, a)
    BY <2>2, StoreStep DEF append
  <2>3. CASE \E op \in Ops \ {"create", "deliver", "append"}, f, g \in Folders, a \in SUBSET Flags :
               Start(p, op, f, g, a)
    BY <2>3, StartStep
  <2> QED BY <1>2, <2>1, <2>2, <2>3 DEF Request
<1>3. ASSUME NEW p \in Sessions, Step(p) PROVE IInv'
  BY <1>3, SelectUidStep, InsertStep, ReportStep, SelectRowsStep, ReadDirStep, AdoptStep,
     CopyOneStep, ExpungeOneStep, StoreOneStep, MoveOneStep, EndStep DEF Step
<1>4. ASSUME NEW p \in Sessions, Abort(p) PROVE IInv'
  BY <1>4, EndStep
<1>5. ASSUME NEW f \in Folders, Create(f) PROVE IInv'
  BY <1>5, CreateStep
<1>6. ASSUME NEW f \in Folders, NEW g \in Folders, Rename(f, g) PROVE IInv'
  BY <1>6, RenameStep
<1> QED BY <1>1, <1>2, <1>3, <1>4, <1>5, <1>6 DEF Next

\* In every behaviour messages get ids in order, only stored messages have
\* files and rows, connections work on messages that were stored, and the last
\* copy of a message keeps its file until it is expunged.
THEOREM Invariant == Spec => []IInv
  BY InitInv, NextInv, PTL DEF Spec

LEMMA IInvSaves == IInv => NothingLost
<1> SUFFICES ASSUME IInv, NEW i \in Ids, rows[i] # NoRow
             PROVE  \/ origin[i] \in expunged
                    \/ \E j \in Ids : origin[j] = origin[i] /\ files[j] # NoFile
  BY DEF NothingLost, Stored
<1>1. i <= used
  BY DEF IInv, RowInv
<1> QED BY <1>1 DEF IInv, KeptInv, LastCopy

\* However many connections store, copy, move, flag, expunge and rename at the
\* same time, and wherever they stop, a message whose storing was acknowledged
\* has a copy left unless one of its copies was removed with \Deleted.
THEOREM NoMailLost == Spec => []NothingLost
  BY Invariant, IInvSaves, PTL

-----------------------------------------------------------------------------
(* UIDs on PostgreSQL *)

\* The UID of a new row is above all its mailbox has had and not inherited.
NewUid ==
  \A i \in Ids : rows[i] = NoRow /\ rows'[i] # NoRow
    => LET f == rows'[i].mailbox
       IN \A uid \in held[f] : rows'[i].uid > uid \/ uid \in inherited[f]

\* On PostgreSQL the next value of the counter is such a UID.
LEMMA InsertAscends ==
  ASSUME Dialect = "postgres", IInv, CounterInv, NEW p \in Sessions, Insert(p)
  PROVE  CounterInv' /\ NewUid
<1> DEFINE f == s[p].dest
           x == s[p].id
           n == counter[f] + 1
<1>1. s[p].pc = "insert"
  BY DEF Insert, At
<1>2. f \in Folders /\ x \in Ids
  BY <1>1 DEF IInv, SessionsInv, SessionOK
<1>3. /\ rows' = [rows EXCEPT ![x] = [mailbox |-> f, uid |-> n]]
      /\ counter' = [counter EXCEPT ![f] = n]
      /\ held' = [held EXCEPT ![f] = @ \cup {n}] /\ inherited' = inherited
  BY DEF Insert, next_uid_for_folder
<1>4. counter[f] \in Nat /\ n = counter[f] + 1
  BY <1>2 DEF CounterInv
<1> HIDE DEF f, x, n
<1>5. CounterInv'
  <2>1. held' = [g \in Folders |-> held'[g]]
    BY <1>3 DEF CounterInv
  <2>4. counter \in [Folders -> Nat] /\ n \in Nat
    BY <1>4 DEF CounterInv
  <2>5. counter' \in [Folders -> Nat]
    BY <1>3, <2>4
  <2> SUFFICES ASSUME NEW g \in Folders, NEW v \in held'[g], v \notin inherited[g]
               PROVE  v \in 0 .. counter'[g]
    BY <1>3, <2>1, <2>5 DEF CounterInv
  <2>2. CASE g = f
    <3>1. counter'[g] = n /\ v \in held[f] \cup {n}
      BY <1>2, <1>3, <2>2 DEF CounterInv
    <3>2. v \in held[f] => v \in 0 .. counter[f]
      BY <1>2, <2>2 DEF CounterInv
    <3> QED BY <1>4, <3>1, <3>2
  <2>3. CASE g # f
    <3>1. counter'[g] = counter[g] /\ held'[g] = held[g]
      BY <1>3, <2>3 DEF CounterInv
    <3> QED BY <3>1 DEF CounterInv
  <2> QED BY <2>2, <2>3
<1>6. \A i \in Ids \ {x} : rows'[i] = rows[i]
  BY <1>2, <1>3 DEF IInv, RowInv
<1>7. rows'[x] = [mailbox |-> f, uid |-> n]
  BY <1>2, <1>3 DEF IInv, RowInv
<1>8. \A v \in held[f] : n > v \/ v \in inherited[f]
  BY <1>2, <1>4 DEF CounterInv
<1>9. NewUid
  BY <1>6, <1>7, <1>8 DEF NewUid
<1> QED BY <1>5, <1>9

\* A listing that moves rows to its mailbox makes none, and what it adds to the
\* UIDs of the mailbox is inherited.
LEMMA AdoptAscends ==
  ASSUME IInv, CounterInv, NEW p \in Sessions, Adopt(p)
  PROVE  CounterInv' /\ NewUid
<1> DEFINE f == s[p].folder
           adopted == {i \in {e.path.id : e \in s[p].list} \ {k.id : k \in s[p].known} : rows[i] # NoRow}
           uids == {rows[i].uid : i \in {j \in adopted : rows[j].mailbox # f}}
<1>1. /\ rows' = [i \in Ids |-> IF i \in adopted THEN [rows[i] EXCEPT !.mailbox = f] ELSE rows[i]]
      /\ held' = [held EXCEPT ![f] = @ \cup uids]
      /\ inherited' = [inherited EXCEPT ![f] = @ \cup uids] /\ counter' = counter
  BY DEF Adopt
<1>2. \A i \in adopted : rows[i] # NoRow
  OBVIOUS
<1> HIDE DEF f, adopted, uids
<1>3. CounterInv'
  <2>1. /\ counter' \in [Folders -> Nat]
        /\ held' = [g \in Folders |-> held'[g]] /\ inherited' = [g \in Folders |-> inherited'[g]]
    BY <1>1 DEF CounterInv
  <2>2. \A g \in Folders : \A v \in held'[g] : v \in inherited'[g] \/ v \in held[g]
    BY <1>1 DEF CounterInv
  <2>3. \A g \in Folders : inherited[g] \subseteq inherited'[g]
    BY <1>1 DEF CounterInv
  <2> QED BY <1>1, <2>1, <2>2, <2>3 DEF CounterInv
<1>4. NewUid
  BY <1>1, <1>2 DEF NewUid
<1> QED BY <1>3, <1>4

\* No other step makes a row.
LEMMA OthersMakeNoRow ==
  ASSUME IInv, [Next]_vars, \A p \in Sessions : ~ Insert(p) /\ ~ Adopt(p)
  PROVE  UNCHANGED <<rows, counter, held, inherited>>
<1> DEFINE Same == UNCHANGED <<rows, counter, held, inherited>>
<1>1. CASE UNCHANGED vars
  BY <1>1 DEF vars
<1>2. ASSUME NEW p \in Sessions, Request(p) \/ Abort(p) PROVE Same
  BY <1>2 DEF Request, Deliver, append, Store, Start, Abort, history
<1>3. ASSUME NEW p \in Sessions, Step(p) PROVE Same
  <2>1. SelectUid(p) \/ Report(p) \/ SelectRows(p) \/ ReadDir(p) \/ Complete(p) => Same
    BY DEF SelectUid, Report, SelectRows, ReadDir, Complete, history
  <2>2. \A e \in s[p].todo : CopyOne(p, e) \/ ExpungeOne(p, e) \/ StoreOne(p, e) => Same
    BY DEF CopyOne, ExpungeOne, StoreOne, history
  <2>3. \A e \in s[p].paths : MoveOne(p, e) => Same
    BY DEF MoveOne, history
  <2> QED BY <1>3, <2>1, <2>2, <2>3 DEF Step
<1>4. ASSUME NEW f \in Folders, Create(f) PROVE Same
  BY <1>4 DEF Create, history
<1>5. ASSUME NEW f \in Folders, NEW g \in Folders, Rename(f, g) PROVE Same
  BY <1>5 DEF Rename, history
<1> QED BY <1>1, <1>2, <1>3, <1>4, <1>5 DEF Next

\* Every step keeps the counters above the UIDs and makes rows only above them.
LEMMA Ascends ==
  ASSUME Dialect = "postgres", IInv, CounterInv, [Next]_vars
  PROVE  CounterInv' /\ NewUid
<1>1. CASE \E p \in Sessions : Insert(p)
  BY <1>1, InsertAscends
<1>2. CASE \E p \in Sessions : Adopt(p)
  BY <1>2, AdoptAscends
<1>3. CASE \A p \in Sessions : ~ Insert(p) /\ ~ Adopt(p)
  BY <1>3, OthersMakeNoRow DEF CounterInv, NewUid
<1> QED BY <1>1, <1>2, <1>3

\* With the counter of PostgreSQL a new message of a mailbox has a UID above all
\* that the mailbox has had, whatever is stored at the same time, removed or
\* moved in between, except those of rows that came with a renamed mailbox.
THEOREM UidsAscendOnPostgres == Dialect = "postgres" => (Spec => UidsAscend)
<1> SUFFICES ASSUME Dialect = "postgres" PROVE Spec => UidsAscend
  OBVIOUS
<1>1. Init => CounterInv
  BY DEF Init, CounterInv
<1>2. IInv /\ CounterInv /\ [Next]_vars => CounterInv'
  BY Ascends
<1>3. IInv /\ CounterInv /\ [Next]_vars
        => [\A i \in Ids : rows[i] = NoRow /\ rows'[i] # NoRow
              => LET f == rows'[i].mailbox
                 IN \A uid \in held[f] : rows'[i].uid > uid \/ uid \in inherited[f]]_vars
  BY Ascends DEF NewUid
<1> QED BY <1>1, <1>2, <1>3, Invariant, PTL DEF Spec, UidsAscend
==============================================================================
