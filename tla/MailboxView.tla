----------------------------- MODULE MailboxView -----------------------------
(***************************************************************************)
(* What one IMAP client has been told about its selected folder, and the   *)
(* folder: the numbers of EXISTS, FETCH and EXPUNGE, UIDNEXT, and the      *)
(* announcements of IDLE.  Meanwhile messages are delivered or appended,   *)
(* file first and row later, and other connections move messages from      *)
(* "new" to "cur" and remove them.                                         *)
(*                                                                         *)
(* The folder is INBOX on PostgreSQL, where a row gets the next value of   *)
(* the mailbox's counter and stays when its file is removed.               *)
(***************************************************************************)
EXTENDS Integers, FiniteSets, Sequences, SequencesExt, FiniteSetsExt, Numbering

CONSTANTS
  Before,      \* messages that are there at the start
  MaxIds,      \* bound: messages there ever are
  MaxRemovals, \* bound: messages removed by other connections
  MaxCommands  \* bound: commands of the client

ASSUME BoundAssumption == Before \in Nat /\ MaxIds \in Nat /\ MaxRemovals \in Nat /\ MaxCommands \in Nat

Ids == 1 .. MaxIds

VARIABLES
  place,   \* where the file of each message is: "none", "new", "cur", "gone"
  uid,     \* UID of its row, 0 without one
  trashed, \* messages with \Deleted
  c,       \* what the connection is doing
  todo,    \* files MOVE or EXPUNGE still removes, with the numbers told
  event,   \* an event of the watched directory waits to be read
  \* what the client knows
  view,    \* UID of each numbered message, 0 if it has not been fetched
  uidnext, \* UIDNEXT of SELECT, 0 before
  \* history
  old,     \* messages that had a row when UIDNEXT was read
  renumbered, \* a command saw, or STORE told, other numbers than those of the messages
  owed,    \* messages that arrived while the folder was watched, not yet counted
  hidden,  \* since the last count another connection changed "cur" alone
  removals, commands

folder  == <<place, uid, trashed>>
client  == <<view, uidnext>>
history == <<old, renumbered, owed, hidden>>
bounds  == <<removals, commands>>
vars == <<folder, c, todo, event, client, history, bounds>>

In(sub) == {i \in Ids : place[i] = sub}
Present == In("new") \cup In("cur")
Rows    == {i \in Ids : uid[i] # 0}

\* SELECT MAX(uid), 0 without rows; the counter of the trigger has this value
\* too, as no row of INBOX is ever deleted.
get_uid_for_folder == Max({0} \cup {uid[i] : i \in Rows})

Nothing == -1   \* IDLE has announced nothing yet
Ready == [pc |-> "ready", count |-> 0, counted |-> {}, known |-> {}, pick |-> {}, said |-> Nothing]
At(pc) == c.pc = pc
Watching == c.pc \in {"watching", "idle count"}

-----------------------------------------------------------------------------
(* Other connections *)

\* notify reports what happens in "new"; the channel holds its events until
\* they are read.
Bug_watched(sub) == sub = "cur"
watched(sub) == sub = "new"
Notice(subs) == event' = (event \/ (Watching /\ \E sub \in subs : watched(sub)))
\* What is counted again only after some other event.
Hide(subs) == hidden' = (hidden \/ (Watching /\ subs = {"cur"}))

\* DATA stores into "new"; APPEND, COPY and MOVE store into "cur".
Write(i, sub) ==
  /\ place[i] = "none" /\ \A j \in Ids : j < i => place[j] # "none"
  /\ place' = [place EXCEPT ![i] = sub]
  /\ Notice({sub}) /\ Hide({sub})
  /\ owed' = IF Watching /\ sub = "new" THEN owed \cup {i} ELSE owed
  /\ UNCHANGED <<todo, uid, trashed, c, client, old, renumbered, bounds>>

Insert(i) ==
  /\ place[i] # "none" /\ uid[i] = 0
  /\ uid' = [uid EXCEPT ![i] = get_uid_for_folder + 1]
  /\ UNCHANGED <<todo, place, trashed, c, event, client, history, bounds>>

\* move_new_to_cur
See(i) ==
  /\ place[i] = "new"
  /\ place' = [place EXCEPT ![i] = "cur"]
  /\ Notice({"new", "cur"}) /\ Hide({"new", "cur"})
  /\ UNCHANGED <<todo, uid, trashed, c, client, old, renumbered, owed, bounds>>

TakeAway(i) ==
  /\ i \in Present /\ removals < MaxRemovals
  /\ place' = [place EXCEPT ![i] = "gone"]
  /\ removals' = removals + 1
  /\ renumbered' = TRUE
  /\ owed' = owed \ {i}
  /\ Notice({place[i]}) /\ Hide({place[i]})
  /\ UNCHANGED <<todo, uid, trashed, c, client, old, commands>>

\* Events of which nothing is known, as those of opening files.
OtherEvent ==
  /\ Watching /\ event' = TRUE
  /\ UNCHANGED <<todo, folder, c, client, history, bounds>>

Others == OtherEvent \/ \E i \in Ids : Insert(i) \/ See(i) \/ TakeAway(i) \/ \E sub \in {"new", "cur"} : Write(i, sub)

-----------------------------------------------------------------------------
(* SELECT, NOOP and the events of IDLE count "cur", then "new" *)

Begin(next) ==
  /\ At("ready") /\ commands < MaxCommands
  /\ commands' = commands + 1
  /\ c' = next
Ask(pc) == Begin([Ready EXCEPT !.pc = pc]) /\ UNCHANGED <<todo, folder, event, client, history, removals>>

SELECT == Ask("select count")
NOOP   == Ask("noop count")

CountCur(now) == [c EXCEPT !.pc = now, !.count = Cardinality(In("cur")), !.counted = In("cur")]
count_cur(from, now) ==
  /\ At(from)
  /\ c' = CountCur(now)
  /\ UNCHANGED <<todo, folder, event, client, history, bounds>>
SelectCur == count_cur("select count", "select new")
NoopCur   == count_cur("noop count", "noop new")

Total == c.count + Cardinality(In("new"))
Told(n) == view' = IF n > Len(view) THEN view \o [k \in 1 .. n - Len(view) |-> 0] ELSE view

SelectNew ==
  /\ At("select new")
  /\ c' = [Ready EXCEPT !.pc = "uidnext"]
  /\ view' = [k \in 1 .. Total |-> 0]
  /\ renumbered' = FALSE
  /\ UNCHANGED <<todo, folder, event, uidnext, old, owed, hidden, bounds>>
NoopNew ==
  /\ At("noop new")
  /\ c' = Ready
  /\ Told(Total)
  /\ UNCHANGED <<todo, folder, event, uidnext, history, bounds>>

Bug_UidNext == get_uid_for_folder
UidNext == get_uid_for_folder + 1
SelectUidNext ==
  /\ At("uidnext")
  /\ c' = Ready
  /\ uidnext' = UidNext /\ old' = Rows
  /\ UNCHANGED <<todo, folder, event, view, renumbered, owed, hidden, bounds>>

-----------------------------------------------------------------------------
(* IDLE *)

IDLE == Ask("idling")

\* A watcher that cannot be made ends IDLE, without a word.
Watch ==
  /\ At("idling")
  /\ c' \in {[Ready EXCEPT !.pc = "watching"], Ready}
  /\ UNCHANGED <<todo, folder, event, client, history, bounds>>

\* rx.recv(), then the first of the two counts.
Event ==
  /\ At("watching") /\ event
  /\ event' = FALSE /\ hidden' = FALSE
  /\ c' = CountCur("idle count")
  /\ UNCHANGED <<todo, folder, client, old, renumbered, owed, bounds>>
Bug_Announce ==
  /\ At("idle count")
  /\ c' = [Ready EXCEPT !.pc = "watching", !.said = Total]
  /\ Told(Total)
  /\ owed' = owed \ (c.counted \cup In("new"))
  /\ event' = FALSE
  /\ UNCHANGED <<todo, folder, uidnext, old, renumbered, hidden, bounds>>
Announce ==
  /\ At("idle count")
  /\ c' = [Ready EXCEPT !.pc = "watching", !.said = Total]
  /\ Told(Total)
  /\ owed' = owed \ (c.counted \cup In("new"))
  /\ UNCHANGED <<todo, folder, event, uidnext, old, renumbered, hidden, bounds>>
DONE ==
  /\ At("watching")
  /\ c' = Ready /\ event' = FALSE /\ owed' = {} /\ hidden' = FALSE
  /\ UNCHANGED <<todo, folder, client, old, renumbered, bounds>>

-----------------------------------------------------------------------------
(* FETCH 1:* and MOVE number the messages in the order of their UIDs; a     *)
(* message whose row the listing did not find has the UID 0.                *)

FETCH   == Ask("fetch rows")
MOVE(S) ==
  /\ S # {} /\ S \subseteq 1 .. Len(view)
  /\ Begin([Ready EXCEPT !.pc = "move rows", !.pick = S])
  /\ UNCHANGED <<todo, folder, event, client, history, removals>>

ListRows ==
  /\ c.pc \in {"fetch rows", "move rows"}
  /\ c' = [c EXCEPT !.pc = IF @ = "fetch rows" THEN "fetch new" ELSE "move new", !.known = Rows]
  /\ UNCHANGED <<todo, folder, event, client, history, bounds>>
ListNew ==
  /\ c.pc \in {"fetch new", "move new"}
  /\ c' = [c EXCEPT !.pc = IF @ = "fetch new" THEN "fetch cur" ELSE "move cur", !.counted = In("new")]
  /\ UNCHANGED <<todo, folder, event, client, history, bounds>>

Listed(i) == IF i \in c.known THEN uid[i] ELSE 0
\* A message that is moved in between is listed twice.
Files == [id : c.counted, sub : {"new"}] \cup [id : In("cur"), sub : {"cur"}]
\* The sort by UID is stable: what has no row comes first, in an arbitrary
\* order within "new" and within "cur".
Rowless(sub) == {file \in Files : Listed(file.id) = 0 /\ file.sub = sub}
WithRow == {file \in Files : Listed(file.id) # 0}
ByUid   == [file \in Files |-> 2 * Listed(file.id) + (IF file.sub = "new" THEN 0 ELSE 1)]
Listings == {new \o cur \o Ascending(WithRow, ByUid) :
               new \in Arrangements(Rowless("new")), cur \in Arrangements(Rowless("cur"))}
Renumber(list) ==
  renumbered' = (renumbered \/ c.counted \cap In("cur") # {} \/ \E k \in DOMAIN list : Listed(list[k].id) = 0)

FetchFiles ==
  /\ At("fetch cur")
  /\ c' = Ready
  /\ \E list \in Listings :
    /\ view' = [k \in 1 .. Max({Len(list), Len(view)}) |-> IF k <= Len(list) THEN Listed(list[k].id) ELSE view[k]]
    /\ Renumber(list)
  /\ UNCHANGED <<todo, folder, event, uidnext, old, owed, hidden, bounds>>

\* The k-th message to be removed has its number less the k - 1 before it.
Bug_adjusted_seq(seq, offset) == seq
adjusted_seq(seq, offset) == seq - offset
Jobs(list, indices) ==
  LET chosen == Ascending(indices, [k \in indices |-> k])
  IN [k \in DOMAIN chosen |-> [id |-> list[chosen[k]].id, sub |-> list[chosen[k]].sub,
                               seq |-> adjusted_seq(chosen[k], k - 1)]]
MoveFiles ==
  /\ At("move cur")
  /\ c' = [Ready EXCEPT !.pc = "remove"]
  /\ \E list \in Listings :
    /\ todo' = Jobs(list, c.pick \cap DOMAIN list)
    /\ Renumber(list)
  /\ UNCHANGED <<folder, event, client, old, owed, hidden, bounds>>

-----------------------------------------------------------------------------
(* STORE takes its numbers for UIDs, and so does what it answers.  EXPUNGE
   numbers "cur" in the order of the directory. *)

Order == Ascending(Present \cap Rows, uid)
Holds(n, i) == n \in DOMAIN Order /\ Order[n] = i

\* A UID STORE that is not silent answers "* uid FETCH (UID uid ...)" for each
\* message: the client learns the UID under the number of the same value.
STORE(lo, hi, told) ==
  LET S == {i \in Present : uid[i] \in lo .. hi}
      uids == {uid[i] : i \in S}
  IN /\ Begin(Ready)
     /\ \/ /\ place' = [i \in Ids |-> IF i \in S THEN "cur" ELSE place[i]]
           /\ trashed' \in {trashed \cup S, trashed, trashed \ S}
        \/ place' = place /\ trashed' = trashed \ S   \* -FLAGS
     /\ view' = [n \in DOMAIN view |-> IF told /\ n \in uids THEN n ELSE view[n]]
     /\ renumbered' = (renumbered \/ (told /\ \E i \in S : ~Holds(uid[i], i)))
     /\ UNCHANGED <<todo, uid, event, uidnext, old, owed, hidden, removals>>

EXPUNGE ==
  \E list \in Arrangements([id : In("cur"), sub : {"cur"}]) :
    LET hits == {k \in DOMAIN list : list[k].id \in trashed}
    IN /\ Begin([Ready EXCEPT !.pc = "remove"])
       /\ todo' = Jobs(list, hits)
       /\ renumbered' = (renumbered \/ \E k \in hits : ~Holds(k, list[k].id))
       /\ UNCHANGED <<folder, event, client, old, owed, hidden, removals>>

\* A path that another connection has changed ends the connection; in "cur"
\* a flag is enough, which is not told apart here.
RemoveFile ==
  LET job == Head(todo)
  IN /\ At("remove") /\ todo # <<>> /\ place[job.id] = job.sub
     /\ place' = [place EXCEPT ![job.id] = "gone"]
     /\ todo' = Tail(todo)
     /\ view' = IF job.seq \in DOMAIN view THEN RemoveAt(view, job.seq) ELSE view
     /\ UNCHANGED <<c, uid, trashed, event, uidnext, history, bounds>>
RemoveFails ==
  /\ At("remove") /\ todo # <<>>
  /\ todo' = <<>> /\ c' = [Ready EXCEPT !.pc = "closed"]
  /\ UNCHANGED <<folder, event, client, history, bounds>>
Removed ==
  /\ At("remove") /\ todo = <<>>
  /\ c' = Ready
  /\ UNCHANGED <<todo, folder, event, client, history, bounds>>

-----------------------------------------------------------------------------
Init ==
  /\ place \in [Ids -> {"none", "new", "cur"}] /\ \A i \in Ids : i <= Before <=> place[i] # "none"
  /\ uid = [i \in Ids |-> IF i <= Before THEN i ELSE 0] /\ trashed \in SUBSET In("cur")
  /\ c = [Ready EXCEPT !.pc = "select count"] /\ todo = <<>> /\ event = FALSE
  /\ view = <<>> /\ uidnext = 0
  /\ old = {} /\ renumbered = FALSE /\ owed = {} /\ hidden = FALSE
  /\ removals = 0 /\ commands = 0

ServerStep ==
  \/ SelectCur \/ SelectNew \/ SelectUidNext \/ NoopCur \/ NoopNew
  \/ Watch \/ Event \/ Announce
  \/ ListRows \/ ListNew \/ FetchFiles \/ MoveFiles \/ RemoveFile \/ RemoveFails \/ Removed
ClientStep ==
  \/ SELECT \/ NOOP \/ IDLE \/ DONE \/ FETCH \/ EXPUNGE
  \/ \E S \in SUBSET (1 .. Len(view)) : MOVE(S)
  \/ \E lo \in 0 .. MaxIds, hi \in 0 .. MaxIds, told \in BOOLEAN : STORE(lo, hi, told)

Next == ServerStep \/ ClientStep \/ Others
Spec == Init /\ [][Next]_vars

\* The task of the connection is scheduled, and select! takes each of its
\* branches that stays ready.
FairSpec == Spec /\ WF_vars(ServerStep)

-----------------------------------------------------------------------------
(* Properties *)

\* The type of everything but the client's view and the messages to be
\* removed.
TypeOK ==
  /\ place \in [Ids -> {"none", "new", "cur", "gone"}]
  /\ uid \in [Ids -> Nat] /\ trashed \subseteq Ids
  /\ c \in [pc : {"ready", "select count", "select new", "uidnext", "noop count", "noop new", "idling", "watching",
                  "idle count", "fetch rows", "fetch new", "fetch cur", "move rows", "move new", "move cur",
                  "remove", "closed"},
            count : Nat, counted : SUBSET Ids, known : SUBSET Ids, pick : SUBSET Nat, said : Nat \cup {Nothing}]
  /\ event \in BOOLEAN /\ renumbered \in BOOLEAN /\ hidden \in BOOLEAN
  /\ uidnext \in Nat /\ old \subseteq Ids /\ owed \subseteq Ids
  /\ removals \in Nat /\ commands \in Nat

\* The numbers the client has learnt name the messages that the server's next
\* FETCH or MOVE finds under them, whatever arrives and however much is moved,
\* stored and expunged, unless another connection removed messages, a listing
\* met a message without a row or one that was being moved, EXPUNGE found the
\* directory in another order (expunge.rs:78), or a UID STORE answered with a
\* UID that is not the number of its message (store.rs:98-110).
NumbersAgree ==
  At("ready") /\ ~renumbered /\ Present \subseteq Rows =>
    \A n \in DOMAIN view : view[n] # 0 => n <= Len(Order) /\ uid[Order[n]] = view[n]

\* Exactly the messages that had no row yet when SELECT read UIDNEXT have UIDs
\* from UIDNEXT on: a client that asks for UIDNEXT:* misses none and sees none
\* twice.
UidNextIsABound ==
  uidnext # 0 => \A i \in Rows : uid[i] >= uidnext <=> i \notin old

\* While IDLE waits, the last number it announced is the number of messages,
\* although the counts of "cur" and "new" are taken one after the other; it
\* cannot know what changed in "cur" alone or before it watched.
IdleIsCurrent ==
  At("watching") /\ c.said # Nothing /\ ~event /\ ~hidden => c.said = Cardinality(Present)

\* Messages delivered while the folder is watched are announced, each counted
\* by an EXISTS, unless the client ends IDLE or the message is taken away.
AnnouncedWhileIdle == owed # {} ~> owed = {}
=============================================================================
