----------------------------- MODULE FolderFiles -----------------------------
(***************************************************************************)
(* The directory of one special-use folder (".Sent") of one user and the   *)
(* two files the server keeps in it: .erooster_folder_flags, with a flag   *)
(* on each line, and .uidvalidity.  The connections of the user work on    *)
(* them without locks, and tokio's files write in the background: a write  *)
(* is waited for by the next one of the same handle, and by nobody when    *)
(* the handle is dropped.                                                  *)
(*                                                                         *)
(* The flags file is a sequence of cells of six bytes: "\Sent\n" is one    *)
(* cell, "\Subscribed\n" two, and overwritten bytes can cut it in half.    *)
(***************************************************************************)
EXTENDS Integers, Sequences

CONSTANTS
  Conns,       \* connections of the user
  MaxCommands, \* bound: commands of all of them
  MaxCrashes,  \* bound: restarts of the server
  Times        \* what the clock may show, in seconds: never 0 or 1

Sent       == <<"sent">>
Subscribed == <<"subsc", "ribed">>
LineEnds   == {"sent", "ribed"}
NoFile     == <<"no file">>
Nul        == "nul"   \* a hole

ASSUME TimesAssumption == Times \subseteq Nat \ {0, 1}

None  == -1  \* no .uidvalidity
Empty == 0   \* .uidvalidity between its creation and its write

VARIABLES
  dir,      \* "none", "bare" (no cur, new, tmp) or "maildir"
  flags,    \* .erooster_folder_flags
  validity, \* .uidvalidity
  writes,   \* writes to the flags file that have not happened yet
  c,        \* what each connection is doing
  \* history
  known,    \* what the answers say of the subscription
  special,  \* \Sent was there before the last UNSUBSCRIBE, which ran alone
  settled,  \* UIDVALIDITY told while nobody was creating it, 0 before
  commands, crashes

history == <<known, special, settled>>
vars == <<dir, flags, validity, writes, c, history, commands, crashes>>

Idle == [pc |-> "idle", cmd |-> "none", no |-> 0, add |-> <<>>, text |-> <<>>, lines |-> {}, at |-> 0,
         gone |-> FALSE, value |-> 0, clean |-> FALSE, expect |-> 0]
At(n, pc) == c[n].pc = pc
Step(n, next) == c' = [c EXCEPT ![n] = next]

\* Where add_flag writes: at the end, wherever that is then.
End == -1
Bug_Position == 0
Position == End
Write(n, at, cells) == [cmd |-> c[n].cmd, no |-> c[n].no, at |-> at, line |-> cells]

Running == {c[n].cmd : n \in Conns} \cup {w.cmd : w \in writes}
Adding  == {"SUBSCRIBE", "CREATE", "APPEND"}

\* Commands that, running at the same time, make an answer say nothing.
Undoes(cmd) == CASE cmd = "SUBSCRIBE"   -> {"UNSUBSCRIBE", "DELETE"}
                 [] cmd = "UNSUBSCRIBE" -> Adding \cup {"UNSUBSCRIBE"}
                 [] OTHER               -> {}

-----------------------------------------------------------------------------
(* The files *)

\* The lines of a file, by the positions of their first and last cells.
IsLine(file, i, j) ==
  /\ file[j] \in LineEnds
  /\ i <= j /\ (i = 1 \/ file[i - 1] \in LineEnds)
  /\ \A k \in i .. j - 1 : file[k] \notin LineEnds
lines_from_file(file) == {x \in (DOMAIN file) \X (DOMAIN file) : IsLine(file, x[1], x[2])}
line(file, x) == SubSeq(file, x[1], x[2])

get_flags == {line(flags, x) : x \in lines_from_file(flags)}

Overwrite(file, at, cells) ==
  LET from == IF at = End THEN Len(file) ELSE at
      to   == from + Len(cells)
  IN [k \in 1 .. (IF to > Len(file) THEN to ELSE Len(file)) |->
        IF k > from /\ k <= to THEN cells[k - from] ELSE IF k <= Len(file) THEN file[k] ELSE Nul]

Land(w) ==
  /\ flags' = Overwrite(flags, w.at, w.line)
  /\ writes' = writes \ {w}
  /\ UNCHANGED <<dir, validity, c, history, commands, crashes>>

Bug_HasEntries == dir = "maildir"
HasEntries == dir = "maildir" \/ flags # NoFile \/ validity # None

-----------------------------------------------------------------------------
(* Commands: a client sends one, and the directory is looked at *)

Begin(n, cmd, next) ==
  /\ At(n, "idle") /\ commands < MaxCommands
  /\ commands' = commands + 1
  /\ c' = [m \in Conns |->
             IF m = n
               THEN [next EXCEPT !.cmd = cmd, !.no = commands + 1, !.clean = Running \cap Undoes(cmd) = {}]
               ELSE [c[m] EXCEPT !.clean = @ /\ cmd \notin Undoes(c[m].cmd)]]
  /\ known' = IF \/ known = "subscribed" /\ cmd = "UNSUBSCRIBE"
                 \/ known = "unsubscribed" /\ cmd \in Adding
                THEN "unknown" ELSE known
  /\ UNCHANGED <<dir, flags, validity, writes, settled, crashes>>

Add(pc, list) == [Idle EXCEPT !.pc = pc, !.add = list]
Both == <<Sent, Subscribed>>

SUBSCRIBE(n) ==
  /\ Begin(n, "SUBSCRIBE", IF dir = "none" THEN Add("mkdir", Both) ELSE Add("add", <<Subscribed>>))
  /\ UNCHANGED special
CREATE(n) == Begin(n, "CREATE", Add("mkdir", Both)) /\ UNCHANGED special
\* The folder of APPEND, before its literal arrives.
APPEND(n) ==
  /\ Begin(n, "APPEND", Add("mkdir", IF dir = "none" THEN Both ELSE <<>>))
  /\ UNCHANGED special

UNSUBSCRIBE(n) ==
  /\ Begin(n, "UNSUBSCRIBE", [Idle EXCEPT !.pc = IF dir = "none" THEN "add" ELSE "read lines"])
  /\ special' = (Sent \in get_flags /\ "UNSUBSCRIBE" \notin Running)

Bug_Missing == TRUE
Missing == validity = None

\* SELECT, STATUS, COPY and MOVE ask for UIDVALIDITY.
STATUS(n) ==
  /\ IF Missing THEN \E now \in Times : Begin(n, "STATUS", [Idle EXCEPT !.pc = "make parent", !.value = now, !.expect = settled])
                ELSE Begin(n, "STATUS", [Idle EXCEPT !.pc = "read value", !.expect = settled])
  /\ UNCHANGED special

\* A folder with anything in it is said to have inferior mailboxes.
DELETE(n) ==
  /\ dir # "none" /\ ~HasEntries
  /\ Begin(n, "DELETE", [Idle EXCEPT !.pc = "remove entries"])
  /\ UNCHANGED special

\* An error ends the connection.
Fail(n) == Step(n, Idle) /\ UNCHANGED history

Answer(n) ==
  /\ Step(n, Idle)
  /\ known' = CASE c[n].clean /\ c[n].cmd = "SUBSCRIBE"   -> "subscribed"
                [] c[n].clean /\ c[n].cmd = "UNSUBSCRIBE" -> "unsubscribed"
                [] OTHER -> known
  /\ UNCHANGED <<special, settled>>

-----------------------------------------------------------------------------
(* create_dirs and add_flag *)

create_dirs(n) ==
  /\ At(n, "mkdir") /\ Step(n, [c[n] EXCEPT !.pc = "subdirs"])
  /\ dir' = IF dir = "none" THEN "bare" ELSE dir
  /\ UNCHANGED <<flags, validity, writes, history, commands, crashes>>
Subdirs(n) ==
  /\ At(n, "subdirs") /\ Step(n, [c[n] EXCEPT !.pc = "add"])
  /\ dir' = "maildir"
  /\ UNCHANGED <<flags, validity, writes, history, commands, crashes>>

add_flag(n) ==
  /\ At(n, "add") /\ c[n].add # <<>>
  /\ Step(n, IF Head(c[n].add) \in get_flags THEN [c[n] EXCEPT !.add = Tail(@)]
                                              ELSE [c[n] EXCEPT !.pc = "append"])
  /\ UNCHANGED <<dir, flags, validity, writes, history, commands, crashes>>

AppendLine(n) ==
  /\ At(n, "append") /\ dir # "none"
  /\ flags' = IF flags = NoFile THEN <<>> ELSE flags
  /\ writes' = writes \cup {Write(n, Position, Head(c[n].add))}
  /\ Step(n, [c[n] EXCEPT !.pc = "add", !.add = Tail(@)])
  /\ UNCHANGED <<dir, validity, history, commands, crashes>>

Added(n) ==
  /\ At(n, "add") /\ c[n].add = <<>> /\ Answer(n)
  /\ UNCHANGED <<dir, flags, validity, writes, commands, crashes>>

-----------------------------------------------------------------------------
(* remove_flag *)

retained(text, x) == line(text, x) # Subscribed
Bug_retain(text) ==
  {x \in lines_from_file(text) : retained(text, x) \/ \E y \in lines_from_file(text) : y[1] < x[1] /\ ~retained(text, y)}
retain(text) == {x \in lines_from_file(text) : retained(text, x)}

remove_flag(n) ==
  /\ At(n, "read lines") /\ flags # NoFile
  /\ Step(n, [c[n] EXCEPT !.pc = "truncate", !.text = flags, !.lines = retain(flags)])
  /\ UNCHANGED <<dir, flags, validity, writes, history, commands, crashes>>

Truncate(n) ==
  /\ At(n, "truncate") /\ dir # "none"
  /\ flags' = <<>>
  /\ Step(n, [c[n] EXCEPT !.pc = "rewrite"])
  /\ UNCHANGED <<dir, validity, writes, history, commands, crashes>>

Rewrite(n) ==
  /\ At(n, "rewrite")
  /\ \A w \in writes : w.no # c[n].no
  /\ \E x \in c[n].lines :
       /\ \A y \in c[n].lines : x[1] <= y[1]
       /\ writes' = IF c[n].gone THEN writes ELSE writes \cup {Write(n, c[n].at, line(c[n].text, x))}
       /\ Step(n, [c[n] EXCEPT !.lines = @ \ {x}, !.at = @ + 1 + x[2] - x[1]])
  /\ UNCHANGED <<dir, flags, validity, history, commands, crashes>>

Removed(n) ==
  /\ At(n, "rewrite") /\ c[n].lines = {} /\ Answer(n)
  /\ UNCHANGED <<dir, flags, validity, writes, commands, crashes>>

-----------------------------------------------------------------------------
(* get_or_create_uidvalidity *)

\* The value read from a file that is not a number is 1.
Parse(v) == IF v = Empty THEN 1 ELSE v

Creating(n) == c[n].pc \in {"make parent", "create", "write value"}
Tell(n, v) ==
  /\ Step(n, Idle)
  /\ settled' = IF c[n].gone \/ \E m \in Conns \ {n} : Creating(m) THEN settled ELSE v
  /\ UNCHANGED <<known, special>>

ReadValue(n) ==
  /\ At(n, "read value") /\ validity # None
  /\ Tell(n, Parse(validity))
  /\ UNCHANGED <<dir, flags, validity, writes, commands, crashes>>

create_dir_all(n) ==
  /\ At(n, "make parent") /\ Step(n, [c[n] EXCEPT !.pc = "create"])
  /\ dir' = IF dir = "none" THEN "bare" ELSE dir
  /\ UNCHANGED <<flags, validity, writes, history, commands, crashes>>

CreateFile(n) ==
  /\ At(n, "create") /\ dir # "none"
  /\ validity' = Empty
  /\ Step(n, [c[n] EXCEPT !.pc = "write value"])
  /\ UNCHANGED <<dir, flags, writes, history, commands, crashes>>

WriteValue(n) ==
  /\ At(n, "write value")
  /\ validity' = IF c[n].gone THEN validity ELSE c[n].value
  /\ Tell(n, c[n].value)
  /\ UNCHANGED <<dir, flags, writes, commands, crashes>>

-----------------------------------------------------------------------------
(* remove_dir_all: what is written to a removed file is lost *)

RemoveEntries(n) ==
  /\ At(n, "remove entries") /\ dir # "none"
  /\ dir' = "bare" /\ flags' = NoFile /\ validity' = None /\ writes' = {}
  /\ c' = [m \in Conns |->
             IF m = n THEN [c[n] EXCEPT !.pc = "remove directory"]
             ELSE [c[m] EXCEPT !.gone = @ \/ c[m].pc \in {"rewrite", "write value"}, !.expect = 0]]
  /\ special' = FALSE /\ settled' = 0
  /\ UNCHANGED <<known, commands, crashes>>

RemoveDirectory(n) ==
  /\ At(n, "remove directory") /\ dir = "bare" /\ ~HasEntries
  /\ dir' = "none" /\ Answer(n)
  /\ UNCHANGED <<flags, validity, writes, commands, crashes>>

\* A file, or a directory, that is expected is not there, or one that is not
\* expected is.
Fails(n) ==
  /\ \/ c[n].pc \in {"append", "truncate", "create", "remove entries"} /\ dir = "none"
     \/ At(n, "read lines") /\ flags = NoFile
     \/ At(n, "read value") /\ validity = None
     \/ At(n, "remove directory") /\ (dir # "bare" \/ HasEntries)
  /\ Fail(n)
  /\ UNCHANGED <<dir, flags, validity, writes, commands, crashes>>

-----------------------------------------------------------------------------
\* What is written in the background dies with the process.
Crash ==
  /\ crashes < MaxCrashes /\ crashes' = crashes + 1
  /\ c' = [n \in Conns |-> Idle] /\ writes' = {}
  /\ known' = IF writes = {} THEN known ELSE "unknown"
  /\ special' = (special /\ "UNSUBSCRIBE" \notin Running)
  /\ UNCHANGED <<dir, flags, validity, settled, commands>>

\* The server starts; an earlier process may have left anything of the folder.
Before == {NoFile, <<>>, Sent, Sent \o Subscribed, Subscribed \o Sent, Sent \o Subscribed \o Subscribed,
           <<"sent", "ribed">>}

Init ==
  /\ dir \in {"none", "bare", "maildir"} /\ flags \in Before /\ validity \in {None, Empty} \cup Times
  /\ dir = "none" => flags = NoFile /\ validity = None
  /\ writes = {}
  /\ c = [n \in Conns |-> Idle]
  /\ known = "unknown" /\ special = FALSE /\ settled = 0
  /\ commands = 0 /\ crashes = 0

Command(n) == SUBSCRIBE(n) \/ CREATE(n) \/ APPEND(n) \/ UNSUBSCRIBE(n) \/ STATUS(n) \/ DELETE(n)
ServerStep(n) ==
  \/ create_dirs(n) \/ Subdirs(n) \/ add_flag(n) \/ AppendLine(n) \/ Added(n)
  \/ remove_flag(n) \/ Truncate(n) \/ Rewrite(n) \/ Removed(n)
  \/ ReadValue(n) \/ create_dir_all(n) \/ CreateFile(n) \/ WriteValue(n)
  \/ RemoveEntries(n) \/ RemoveDirectory(n) \/ Fails(n)

Next == (\E n \in Conns : Command(n) \/ ServerStep(n)) \/ (\E w \in writes : Land(w)) \/ Crash
Spec == Init /\ [][Next]_vars

-----------------------------------------------------------------------------
(* Properties *)

\* A folder whose SUBSCRIBE was answered, while nobody removed the
\* subscription or the folder, stays subscribed until somebody sends
\* UNSUBSCRIBE: through other SUBSCRIBEs, CREATEs and DELETEs that begin
\* later, and through restarts once the flag is in the file.
SubscriptionHolds ==
  known = "subscribed" => Subscribed \in get_flags \/ \E w \in writes : w.line = Subscribed

\* After an UNSUBSCRIBE that nobody who adds or removes flags overlapped, the
\* folder is not subscribed, however many times the flag was in the file,
\* until somebody adds it again.
UnsubscribedIsGone == known = "unsubscribed" => Subscribed \notin get_flags

\* UNSUBSCRIBE, which empties the file and writes it again, keeps the flag
\* \Sent, whatever others append in between, unless another one runs at the
\* same time, the server goes down in it or the folder is deleted.
SpecialUseKept == special /\ "UNSUBSCRIBE" \notin Running => Sent \in get_flags

\* Once UIDVALIDITY was told while nobody else was creating it, everybody who
\* asks later is told the same, also when the server went down before the
\* value was in the file, until the folder is deleted.
UidValidityIsStable ==
  \A n \in Conns : c[n].expect # 0 =>
    /\ (Creating(n) => c[n].value = c[n].expect)
    /\ (At(n, "read value") /\ validity # None => Parse(validity) = c[n].expect)
=============================================================================
