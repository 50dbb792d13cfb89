----------------------------- MODULE MailStore -----------------------------
(***************************************************************************)
(* The messages of one user: files in maildir folders and rows of the      *)
(* table mails, which gives each message of a mailbox its UID.  Several    *)
(* connections deliver, append, copy, move, expunge and flag messages and  *)
(* rename folders; no lock or transaction spans the directory and the      *)
(* table, so each system call and each SQL statement is a step.            *)
(*                                                                         *)
(* A maildir file is found by its path, which contains the subdirectory,   *)
(* the id of the message and, in "cur", its flags.                         *)
(***************************************************************************)
EXTENDS Integers, FiniteSets, FiniteSetsExt, Sequences

CONSTANTS
  Sessions,    \* connections, SMTP and IMAP
  Folders,
  Inbox,       \* the folder SMTP delivers to
  Flags,       \* maildir flags that are told apart, among them "Deleted"
  None,        \* no folder, no row
  Dialect,     \* "postgres" or "sqlite"
  Ops,         \* the commands clients send
  MaxIds,      \* bound: messages ever stored
  MaxRenames   \* bound: folders renamed

ASSUME FolderAssumption  == None \notin Folders /\ Inbox \in Folders
ASSUME DialectAssumption == Dialect \in {"postgres", "sqlite"}
ASSUME OpsAssumption ==
  Ops \subseteq {"create", "deliver", "append", "copy", "move", "expunge", "flags", "+flags", "-flags"}
ASSUME BoundAssumption   == MaxIds \in Nat /\ MaxRenames \in Nat

Ids == 1 .. MaxIds

VARIABLES
  dirs,     \* the folders that exist
  files,    \* where the file of each message is, and its flags
  rows,     \* table mails
  counter,  \* table mailbox_uid_counter
  s,        \* what each connection is doing
  renames,
  \* history, read by no action of the program
  used,     \* messages stored so far
  origin,   \* the message each message is a copy of, itself if it is none
  expunged, \* origins of messages removed while they had \Deleted
  held,     \* the UIDs of the rows each mailbox has had
  inherited \* those among them of rows that came from another mailbox

vars == <<dirs, files, rows, counter, s, renames, used, origin, expunged, held, inherited>>
history == <<used, origin, expunged, held, inherited>>

NoFile == [folder |-> None, sub |-> "new", flags |-> {}]
NoRow  == [mailbox |-> None, uid |-> 0]

Idle ==
  [op |-> "idle", pc |-> "idle", folder |-> None, dest |-> None, arg |-> {}, subs |-> <<>>,
   known |-> {}, list |-> {}, todo |-> {}, paths |-> {}, id |-> 0, uid |-> 0]

Finish(p) == s' = [s EXCEPT ![p] = Idle]
At(p, pc) == s[p].pc = pc

\* SELECT MAX(uid) FROM mails WHERE mailbox = f, 0 without rows
get_uid_for_folder(f) == Max({0} \cup {rows[i].uid : i \in {j \in Ids : rows[j].mailbox = f}})

\* Is the file still where the listing of folder f found it?
Found(f, e) == files[e.id] = [folder |-> f, sub |-> e.sub, flags |-> e.flags]

-----------------------------------------------------------------------------
(* Storing a message: the file, SELECT MAX(uid) + 1, INSERT *)

\* maildir.store_new, maildir.store_cur_with_flags: a new id.
Write(f, sub, flags, of) ==
  /\ used < MaxIds
  /\ used' = used + 1
  /\ files' = [files EXCEPT ![used + 1] = [folder |-> f, sub |-> sub, flags |-> flags]]
  /\ origin' = [origin EXCEPT ![used + 1] = IF of = 0 THEN used + 1 ELSE origin[of]]

\* DATA delivers into "new", APPEND stores into "cur"; both create the folder.
Store(p, op, f, flags) ==
  /\ s[p] = Idle
  /\ dirs' = dirs \cup {f}
  /\ Write(f, IF op = "deliver" THEN "new" ELSE "cur", flags, 0)
  /\ s' = [s EXCEPT ![p] = [Idle EXCEPT !.op = op, !.pc = "uid", !.dest = f, !.id = used + 1]]
  /\ UNCHANGED <<rows, counter, renames, expunged, held, inherited>>
Deliver(p) == "deliver" \in Ops /\ Store(p, "deliver", Inbox, {})
append(p, f, flags) == "append" \in Ops /\ Store(p, "append", f, flags)

SelectUid(p) ==
  /\ At(p, "uid")
  /\ s' = [s EXCEPT ![p].uid = get_uid_for_folder(s[p].dest) + 1, ![p].pc = "insert"]
  /\ UNCHANGED <<dirs, files, rows, counter, renames, history>>

\* The PostgreSQL trigger replaces the UID by the next value of a counter.
Bug_next_uid_for_folder(f, uid) == uid
next_uid_for_folder(f, uid) == IF Dialect = "postgres" THEN counter[f] + 1 ELSE uid

Insert(p) ==
  LET f   == s[p].dest
      uid == next_uid_for_folder(f, s[p].uid)
  IN /\ At(p, "insert")
     /\ rows' = [rows EXCEPT ![s[p].id] = [mailbox |-> f, uid |-> uid]]
     /\ counter' = IF Dialect = "postgres" THEN [counter EXCEPT ![f] = uid] ELSE counter
     /\ held' = [held EXCEPT ![f] = @ \cup {uid}]
     /\ IF s[p].op = "deliver" THEN Finish(p) ELSE s' = [s EXCEPT ![p].pc = "report"]
     /\ UNCHANGED <<dirs, files, renames, used, origin, expunged, inherited>>

\* APPENDUID and COPYUID name the UID that get_uid_for_folder returns here.
Report(p) ==
  /\ At(p, "report")
  /\ IF s[p].op = "append" THEN Finish(p) ELSE s' = [s EXCEPT ![p].pc = "loop"]
  /\ UNCHANGED <<dirs, files, rows, counter, renames, history>>

-----------------------------------------------------------------------------
(* Listing a folder: SELECT, readdir, UPDATE *)

\* COPY, MOVE, EXPUNGE, UID EXPUNGE, CLOSE and STORE begin with a listing;
\* expunging lists "cur", then "new".
Start(p, op, f, g, arg) ==
  /\ s[p] = Idle /\ op \in Ops
  /\ f \in dirs
  /\ op \in {"copy", "move"} => g \in dirs
  /\ s' = [s EXCEPT ![p] = [Idle EXCEPT
             !.op = op, !.pc = "rows", !.folder = f,
             !.dest = IF op \in {"copy", "move"} THEN g ELSE None,
             !.arg = IF op \in {"flags", "+flags", "-flags"} THEN arg ELSE {},
             !.subs = IF op = "expunge" THEN <<<<"cur">>, <<"new">>>> ELSE <<<<"new", "cur">>>>]]
  /\ UNCHANGED <<dirs, files, rows, counter, renames, history>>

SelectRows(p) ==
  /\ At(p, "rows")
  /\ s' = [s EXCEPT ![p].known = {[id |-> i, uid |-> rows[i].uid] :
                                    i \in {j \in Ids : rows[j].mailbox = s[p].folder}},
                    ![p].pc = "files"]
  /\ UNCHANGED <<dirs, files, rows, counter, renames, history>>

\* One directory after the other: a message that is moved in between can be
\* listed twice.  A file without a known row has UID 0.
ReadDir(p) ==
  LET here == {i \in Ids : files[i].folder = s[p].folder /\ files[i].sub = Head(Head(s[p].subs))}
      uid(i) == Max({0} \cup {k.uid : k \in {r \in s[p].known : r.id = i}})
  IN /\ At(p, "files")
     /\ s' = [s EXCEPT ![p].list = @ \cup {[path |-> [id |-> i, sub |-> files[i].sub, flags |-> files[i].flags],
                                           uid |-> uid(i)] : i \in here},
                       ![p].subs[1] = Tail(@),
                       ![p].pc = IF Len(Head(s[p].subs)) > 1 THEN "files" ELSE "adopt"]
     /\ UNCHANGED <<dirs, files, rows, counter, renames, history>>

\* The client names messages by UID or number; those without \Deleted are not
\* expunged.
Wanted(session) ==
  {e \in {entry.path : entry \in session.list} : session.op = "expunge" => "Deleted" \in e.flags}

\* UPDATE mails SET mailbox = folder for what was listed without a row: what a
\* RENAME has left in another mailbox comes with the UID it had there.
Adopt(p) ==
  LET f       == s[p].folder
      unknown == {e.path.id : e \in s[p].list} \ {k.id : k \in s[p].known}
      adopted == {i \in unknown : rows[i] # NoRow}
      uids    == {rows[i].uid : i \in {j \in adopted : rows[j].mailbox # f}}
  IN /\ At(p, "adopt")
     /\ rows' = [i \in Ids |-> IF i \in adopted THEN [rows[i] EXCEPT !.mailbox = f] ELSE rows[i]]
     /\ held' = [held EXCEPT ![f] = @ \cup uids]
     /\ inherited' = [inherited EXCEPT ![f] = @ \cup uids]
     /\ IF Len(s[p].subs) > 1
        THEN s' = [s EXCEPT ![p].subs = Tail(@), ![p].pc = "rows"]
        ELSE \E chosen \in SUBSET Wanted(s[p]) :
               s' = [s EXCEPT ![p].todo = chosen, ![p].list = {}, ![p].known = {},
                              ![p].subs = <<>>, ![p].pc = "loop"]
     /\ UNCHANGED <<dirs, files, counter, renames, used, origin, expunged>>

-----------------------------------------------------------------------------
(* What is done with the listed messages *)

\* COPY and MOVE read the file and store it in the other folder.
Bug_CopyOne(p, e) ==
  /\ At(p, "loop") /\ s[p].op \in {"copy", "move"}
  /\ e \in s[p].todo
  /\ Found(s[p].folder, e) /\ s[p].dest \in dirs
  /\ IF s[p].dest # s[p].folder THEN Write(s[p].dest, "cur", e.flags, e.id)
                                ELSE UNCHANGED <<used, files, origin>>
  /\ s' = [s EXCEPT ![p].todo = @ \ {e}, ![p].paths = IF s[p].op = "move" THEN @ \cup {e} ELSE @,
                    ![p].id = used', ![p].pc = IF s[p].dest # s[p].folder THEN "uid" ELSE "loop"]
  /\ UNCHANGED <<dirs, rows, counter, renames, expunged, held, inherited>>
CopyOne(p, e) ==
  /\ At(p, "loop") /\ s[p].op \in {"copy", "move"}
  /\ e \in s[p].todo
  /\ Found(s[p].folder, e) /\ s[p].dest \in dirs
  /\ Write(s[p].dest, "cur", e.flags, e.id)
  /\ s' = [s EXCEPT ![p].todo = @ \ {e}, ![p].paths = IF s[p].op = "move" THEN @ \cup {e} ELSE @,
                    ![p].id = used + 1, ![p].pc = "uid"]
  /\ UNCHANGED <<dirs, rows, counter, renames, expunged, held, inherited>>

\* fs::remove_file(path) fails when the path is gone, flags included.
Bug_Removable(f, e) == files[e.id].folder = f
Removable(f, e) == Found(f, e)
Remove(p, e) ==
  /\ Removable(s[p].folder, e)
  /\ files' = [files EXCEPT ![e.id] = NoFile]

\* EXPUNGE, UID EXPUNGE and CLOSE remove what the listing showed as deleted.
ExpungeOne(p, e) ==
  /\ At(p, "loop") /\ s[p].op = "expunge"
  /\ e \in s[p].todo
  /\ Remove(p, e)
  /\ expunged' = IF "Deleted" \in files[e.id].flags
                 THEN expunged \cup {origin[e.id]} ELSE expunged
  /\ s' = [s EXCEPT ![p].todo = @ \ {e}]
  /\ UNCHANGED <<dirs, rows, counter, renames, used, origin, held, inherited>>

\* After the last copy MOVE removes the originals.
MoveOne(p, e) ==
  /\ At(p, "loop") /\ s[p].todo = {}
  /\ e \in s[p].paths
  /\ Remove(p, e)
  /\ s' = [s EXCEPT ![p].paths = @ \ {e}]
  /\ UNCHANGED <<dirs, rows, counter, renames, history>>

\* The flags STORE leaves: remove_flags sets the flags it should remove.
NewFlags(op, old, arg) == IF op = "+flags" THEN old \cup arg ELSE arg

\* STORE on one message; a message listed in "new" is moved to "cur", except
\* by -FLAGS, which does not find it.  Errors are logged.
StoreOne(p, e) ==
  LET file == files[e.id]
      from == IF s[p].op = "-flags" THEN "cur" ELSE e.sub
      old  == IF e.sub = "new" THEN {} ELSE file.flags
  IN /\ At(p, "loop") /\ s[p].op \in {"flags", "+flags", "-flags"}
     /\ e \in s[p].todo
     /\ files' = IF file.folder = s[p].folder /\ file.sub = from
                 THEN [files EXCEPT ![e.id] = [folder |-> s[p].folder, sub |-> "cur",
                                               flags |-> NewFlags(s[p].op, old, s[p].arg)]]
                 ELSE files
     /\ s' = [s EXCEPT ![p].todo = @ \ {e}]
     /\ UNCHANGED <<dirs, rows, counter, renames, history>>

Complete(p) ==
  /\ At(p, "loop") /\ s[p].todo = {} /\ s[p].paths = {}
  /\ Finish(p)
  /\ UNCHANGED <<dirs, files, rows, counter, renames, history>>

\* A system call or a statement fails, a path is gone, or the server is
\* killed: nothing that has been done is undone.
Abort(p) ==
  /\ s[p] # Idle
  /\ Finish(p)
  /\ UNCHANGED <<dirs, files, rows, counter, renames, history>>

\* CREATE makes the directory, or finds it.
Create(f) ==
  /\ "create" \in Ops
  /\ dirs' = dirs \cup {f}
  /\ UNCHANGED <<files, rows, counter, s, renames, history>>

\* RENAME moves the directory; the rows keep the name they have.
Rename(f, g) ==
  /\ renames < MaxRenames /\ renames' = renames + 1
  /\ f \in dirs /\ g \notin dirs
  /\ dirs' = (dirs \ {f}) \cup {g}
  /\ files' = [i \in Ids |-> IF files[i].folder = f THEN [files[i] EXCEPT !.folder = g]
                             ELSE files[i]]
  /\ UNCHANGED <<rows, counter, s, history>>

-----------------------------------------------------------------------------
(* Specification *)

Init ==
  /\ dirs = {} /\ files = [i \in Ids |-> NoFile] /\ rows = [i \in Ids |-> NoRow]
  /\ counter = [f \in Folders |-> 0]
  /\ s = [p \in Sessions |-> Idle] /\ renames = 0
  /\ used = 0 /\ origin = [i \in Ids |-> i] /\ expunged = {}
  /\ held = [f \in Folders |-> {}] /\ inherited = [f \in Folders |-> {}]

Request(p) ==
  \/ Deliver(p)
  \/ \E f \in Folders, a \in SUBSET Flags : append(p, f, a)
  \/ \E op \in Ops \ {"create", "deliver", "append"}, f, g \in Folders, a \in SUBSET Flags : Start(p, op, f, g, a)
Step(p) ==
  \/ SelectUid(p) \/ Insert(p) \/ Report(p)
  \/ SelectRows(p) \/ ReadDir(p) \/ Adopt(p)
  \/ \E e \in s[p].todo : CopyOne(p, e) \/ ExpungeOne(p, e) \/ StoreOne(p, e)
  \/ \E e \in s[p].paths : MoveOne(p, e)
  \/ Complete(p)

Next ==
  \/ \E p \in Sessions : Request(p) \/ Step(p) \/ Abort(p)
  \/ \E f \in Folders : Create(f)
  \/ \E f, g \in Folders : Rename(f, g)

Spec == Init /\ [][Next]_vars

-----------------------------------------------------------------------------
(* Properties *)

\* store_new or store_cur_with_flags has returned.
Stored == {i \in Ids : rows[i] # NoRow}

\* A message whose storing was acknowledged is lost to its owner, in all its
\* copies, only when one of them was removed while it had the flag \Deleted:
\* not when flags change between a listing and the removal, and not in a MOVE
\* that is interrupted or meets another one.
NothingLost ==
  \A i \in Stored :
    \/ origin[i] \in expunged
    \/ \E j \in Ids : origin[j] = origin[i] /\ files[j] # NoFile

\* A new message of a mailbox gets a UID above all that the mailbox has had
\* before, also those of messages that are gone, and also when two messages are
\* stored at the same time.  The exception is what the code does to a mailbox
\* that was renamed (rename.rs:50): the counter belongs to the name, so the UIDs
\* of the rows that come along are given out once more.
UidsAscend ==
  [][\A i \in Ids : rows[i] = NoRow /\ rows'[i] # NoRow
       => LET f == rows'[i].mailbox
          IN \A uid \in held[f] : rows'[i].uid > uid \/ uid \in inherited[f]]_vars

=============================================================================
