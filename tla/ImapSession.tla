---------------------------- MODULE ImapSession ----------------------------
(***************************************************************************)
(* One IMAP connection: which command each state allows, the login, the    *)
(* selected folder and its access, the literal of APPEND, IDLE, STARTTLS.  *)
(*                                                                         *)
(* Messages and folders are not modelled (MailStore does that): `touched`  *)
(* says whose mail the commands read or changed, `seen` at whose folders   *)
(* LIST looked, `cut` from which folders messages were removed.  A line of *)
(* a literal is its length in octets without the line end.  An error or a  *)
(* panic of a handler ends the connection, and can come at any time, like  *)
(* the client's leaving.                                                   *)
(***************************************************************************)
EXTENDS Integers

CONSTANTS Users,       \* the accounts of the server
          Folders,     \* names of folders
          NoUser,      \* Connection.username is None
          MaxLiteral   \* bound on the octets of a literal and of a line

ASSUME UserAssumption == NoUser \notin Users
ASSUME LiteralAssumption == MaxLiteral \in Nat

VARIABLES
    link,       \* "plain" (port 143), "handshake", "tls" or "closed"; "none" before
    state,      \* Connection.state
    username,   \* Connection.username
    idle,       \* "no", "starting", "watching" a folder, or "waiting" without one
    rest,       \* octets of a literal the client has yet to send, or Sent
    tail,       \* octets its APPEND has after the literal: 0, or 1 for the ")" of UTF8 (~{n})
    first,      \* octets of the first line the literal came in
    \* what happened, for the properties
    asked,      \* the SELECT or EXAMINE in force, by what the client sent
    verified,   \* users whose password was verified on this connection
    touched,    \* users whose mail a command read or changed
    seen,       \* users whose folders, with their flags, LIST looked up
    cut,        \* removals of messages: the folder, and what was asked then
    stored      \* the last message APPEND stored, against its literal

conn == <<link, state, username, idle>>
client == <<rest, tail, first>>
history == <<verified, touched, seen, cut, stored>>
vars == <<conn, client, asked, history>>

Sent == -1
Nothing == [folder |-> "", access |-> ""]
NoMessage == [announced |-> 0, tail |-> 0, first |-> 0, last |-> 0, got |-> 0, left |-> Sent]

AccessMode == {"ReadOnly", "ReadWrite"}
NotAuthenticated == [is |-> "NotAuthenticated"]
Authenticating == [is |-> "Authenticating"]
Authenticated == [is |-> "Authenticated"]
Selected(f, a) == [is |-> "Selected", folder |-> f, access |-> a]
\* `data` counts the octets in the buffer; 0 is None, since a line adds at least two.
Appending(n, buffered, before) ==
    [is |-> "Appending", datalen |-> n, data |-> buffered, previous |-> before]

SelectedStates == {Selected(f, a) : f \in Folders, a \in AccessMode}
UserStates == {Authenticated} \cup SelectedStates
AppendingStates ==
    {Appending(n, d, s) : n \in 0..MaxLiteral, d \in 0..(MaxLiteral + 3), s \in UserStates}
State == {NotAuthenticated, Authenticating} \cup UserStates \cup AppendingStates

-----------------------------------------------------------------------------
Init ==
    /\ link = "none" /\ state = NotAuthenticated /\ username = NoUser /\ idle = "no"
    /\ rest = Sent /\ tail = 0 /\ first = 0 /\ asked = Nothing
    /\ verified = {} /\ touched = {} /\ seen = {} /\ cut = {} /\ stored = NoMessage

Accept(l) ==
    /\ link = "none"
    /\ link' = l
    /\ UNCHANGED <<state, username, idle, client, asked, history>>

\* The loop over the lines ends, and with it the connection and its Data.
EndOfLines ==
    /\ link' = "closed"
    /\ state' = NotAuthenticated /\ username' = NoUser /\ idle' = "no"
    /\ rest' = Sent /\ tail' = 0 /\ first' = 0 /\ asked' = Nothing
    /\ UNCHANGED history

\* The end of the input, an error or a panic of a handler, a failed handshake.
Disconnect == link \in {"plain", "handshake", "tls"} /\ EndOfLines

\* A line that parse() takes, and one that it takes for a command.
Ready == link \in {"plain", "tls"} /\ idle = "no"
Command == Ready /\ state.is \notin {"Authenticating", "Appending"} /\ rest = Sent

LOGOUT == Command /\ EndOfLines

\* Under TLS the loop ignores the response, and no one answers.
STARTTLS ==
    /\ Command
    /\ link = "plain"
    /\ link' = "handshake"
    /\ UNCHANGED <<state, username, idle, client, asked, history>>

\* listen_tls goes on with the Data of the plain connection.
Handshake ==
    /\ link = "handshake"
    /\ link' = "tls"
    /\ UNCHANGED <<state, username, idle, client, asked, history>>

-----------------------------------------------------------------------------
(* AUTHENTICATE *)

StartAuthentication ==
    /\ Command
    /\ state = NotAuthenticated
    /\ state' = Authenticating
    /\ UNCHANGED <<link, username, idle, client, asked, history>>

LoggedIn(u) ==
    /\ username' = u
    /\ state' = Authenticated
    /\ verified' = verified \cup {u}

LoginFails ==
    /\ state' = NotAuthenticated
    /\ UNCHANGED <<username, verified>>

Bug_plain(u, valid) ==
    /\ \/ Ready /\ state = Authenticating
       \/ Command /\ state = NotAuthenticated
    /\ IF valid
       THEN LoggedIn(u)
       ELSE state' = NotAuthenticated /\ username' = u /\ UNCHANGED verified
    /\ UNCHANGED <<link, idle, client, asked, touched, seen, cut, stored>>

\* The credentials come on a line of their own or as the argument.
plain(u, valid) ==
    /\ \/ Ready /\ state = Authenticating
       \/ Command /\ state = NotAuthenticated
    /\ IF valid THEN LoggedIn(u) ELSE LoginFails
    /\ UNCHANGED <<link, idle, client, asked, touched, seen, cut, stored>>

-----------------------------------------------------------------------------
(* Folders and messages *)

HasUserState == state = Authenticated \/ state.is = "Selected"
Touch == touched' = touched \cup {username}

select(f, access) ==
    /\ Command
    /\ HasUserState
    /\ state' = Selected(f, access)
    /\ asked' = [folder |-> f, access |-> access]
    /\ Touch
    /\ UNCHANGED <<link, username, idle, client, verified, seen, cut, stored>>

UNSELECT ==
    /\ Command
    /\ state.is = "Selected"
    /\ state' = Authenticated
    /\ asked' = Nothing
    /\ UNCHANGED <<link, username, idle, client, history>>

Writable == state.is = "Selected" /\ state.access # "ReadOnly"
Remove == cut' = cut \cup {[folder |-> state.folder, asked |-> asked]}

CLOSE ==
    /\ Command
    /\ Writable
    /\ Remove
    /\ Touch
    /\ state' = Authenticated
    /\ asked' = Nothing
    /\ UNCHANGED <<link, username, idle, client, verified, seen, stored>>

RemoveMessages ==
    /\ Command
    /\ Writable
    /\ Remove
    /\ Touch
    /\ UNCHANGED <<conn, client, asked, verified, seen, stored>>

EXPUNGE == RemoveMessages
UIDEXPUNGE == RemoveMessages
MOVE == RemoveMessages

\* A command that leaves the connection as it is, where `allowed` holds.
Use(allowed) ==
    /\ Command
    /\ allowed
    /\ Touch
    /\ UNCHANGED <<conn, client, asked, verified, seen, cut, stored>>

FETCH == Use(state.is = "Selected")
SEARCH == Use(state.is = "Selected")
STORE == Use(state.is = "Selected")
CHECK == Use(state.is = "Selected")
NOOP == Use(state.is = "Selected")
COPY == Use(Writable)
CREATE == Use(HasUserState)

\* The reference and the pattern become part of a path as they are: nothing keeps the
\* folders that LIST looks up within the directory of the user.
LIST ==
    /\ Command
    /\ state # NotAuthenticated
    /\ \E u \in Users : seen' = seen \cup {u}
    /\ UNCHANGED <<conn, client, asked, verified, touched, cut, stored>>

\* These look at the name alone: without one the handler fails, which ends the connection.
ByName ==
    \/ Use(username # NoUser)
    \/ Command /\ username = NoUser /\ EndOfLines

DELETE == ByName
RENAME == ByName
SUBSCRIBE == ByName
UNSUBSCRIBE == ByName
STATUS == ByName

-----------------------------------------------------------------------------
(* APPEND *)

\* The folder is created even when the arguments are refused afterwards.
AppendRefused == Use(HasUserState)

APPEND(n, t) ==
    /\ Command
    /\ HasUserState
    /\ state' = Appending(n, 0, state)
    /\ rest' = n /\ tail' = t /\ first' = 0
    /\ Touch
    /\ UNCHANGED <<link, username, idle, asked, verified, seen, cut, stored>>

\* The next line of the client has n octets.  A line of the literal is followed by its
\* end, which counts, or it is the rest of the literal and what its APPEND has after it.
\* A client that has sent that goes on with its next command.
ClientLine(n) ==
    \/ /\ n + 2 <= rest
       /\ rest' = rest - (n + 2)
    \/ /\ rest # Sent => n = rest + tail
       /\ rest' = Sent

\* The first line: it is not compared with the announced length.
FirstLine(n) ==
    /\ Ready
    /\ state.is = "Appending" /\ state.data = 0
    /\ ClientLine(n)
    /\ state' = [state EXCEPT !.data = n + 2]
    /\ first' = n
    /\ UNCHANGED <<link, username, idle, tail, asked, history>>

Reached(n) == state.data + n + 2 >= state.datalen

NextLine(n) ==
    /\ Ready
    /\ state.is = "Appending" /\ state.data # 0
    /\ ~ Reached(n)
    /\ ClientLine(n)
    /\ state' = [state EXCEPT !.data = @ + n + 2]
    /\ UNCHANGED <<link, username, idle, tail, first, asked, history>>

Bug_Kept(n) == state.data + n + 2

\* buf.truncate(buf.len() - 2): the last two octets are taken for the end of the command.
Kept(n) == state.data + n

\* Restore the state we were in before APPEND.
Bug_DropsSelection == Authenticated
Bug_ForgetsAccess == IF state.previous.is = "Selected"
                     THEN Selected(state.previous.folder, "ReadWrite") ELSE Authenticated

Restored == state.previous

LastLine(n) ==
    /\ Ready
    /\ state.is = "Appending" /\ state.data # 0
    /\ Reached(n)
    /\ ClientLine(n)
    /\ stored' = [announced |-> state.datalen, tail |-> tail, first |-> first, last |-> n,
                  got |-> Kept(n), left |-> rest']
    /\ state' = Restored
    /\ Touch
    /\ UNCHANGED <<link, username, idle, tail, first, asked, verified, seen, cut>>

\* What an APPEND has after a literal that was complete before is no command: the line
\* end alone is answered with BAD, the ")" of UTF8 (~{n}) not at all.
EndOfCommand ==
    /\ Ready
    /\ state.is # "Appending"
    /\ rest = 0
    /\ rest' = Sent
    /\ UNCHANGED <<conn, tail, first, asked, history>>

-----------------------------------------------------------------------------
(* IDLE *)

IDLE ==
    /\ Command
    /\ HasUserState
    /\ idle' = IF state.is = "Selected" THEN "starting" ELSE "waiting"
    /\ UNCHANGED <<link, state, username, client, asked, history>>

\* The watcher is set up after "+ idling"; where that fails, IDLE ends without an answer.
Watch ==
    /\ idle = "starting"
    /\ idle' \in {"watching", "no"}
    /\ UNCHANGED <<link, state, username, client, asked, history>>

\* Each event is answered with a count of the folder's files.
IdleEvent ==
    /\ idle = "watching"
    /\ Touch
    /\ UNCHANGED <<conn, client, asked, verified, seen, cut, stored>>

DONE ==
    /\ idle \in {"watching", "waiting"}
    /\ idle' = "no"
    /\ UNCHANGED <<link, state, username, client, asked, history>>

-----------------------------------------------------------------------------
Next ==
    \/ \E l \in {"plain", "tls"} : Accept(l)
    \/ Disconnect
    \/ LOGOUT
    \/ STARTTLS
    \/ Handshake
    \/ StartAuthentication
    \/ \E u \in Users, valid \in BOOLEAN : plain(u, valid)
    \/ \E f \in Folders, a \in AccessMode : select(f, a)
    \/ UNSELECT
    \/ CLOSE
    \/ EXPUNGE \/ UIDEXPUNGE \/ MOVE
    \/ FETCH \/ SEARCH \/ STORE \/ CHECK \/ NOOP \/ COPY
    \/ CREATE \/ LIST \/ DELETE \/ RENAME \/ SUBSCRIBE \/ UNSUBSCRIBE \/ STATUS
    \/ AppendRefused
    \/ \E n \in 0..MaxLiteral, t \in {0, 1} : APPEND(n, t)
    \/ \E n \in 0..(MaxLiteral + 1) : FirstLine(n) \/ NextLine(n) \/ LastLine(n)
    \/ EndOfCommand
    \/ IDLE
    \/ Watch
    \/ IdleEvent
    \/ DONE

Spec == Init /\ [][Next]_vars

-----------------------------------------------------------------------------
(* Properties *)

Ask == {Nothing} \cup [folder : Folders, access : AccessMode]

\* The type invariant; a message never exceeds the literal by more than one line of a
\* command and its end.
TypeOK ==
    /\ link \in {"none", "plain", "handshake", "tls", "closed"}
    /\ state \in State
    /\ username \in Users \cup {NoUser}
    /\ idle \in {"no", "starting", "watching", "waiting"}
    /\ rest \in -1..MaxLiteral /\ tail \in {0, 1} /\ first \in 0..(MaxLiteral + 1)
    /\ asked \in Ask
    /\ verified \subseteq Users
    /\ touched \subseteq Users \cup {NoUser} /\ seen \subseteq Users
    /\ cut \subseteq [folder : Folders, asked : Ask]
    /\ stored \in [announced : 0..MaxLiteral, tail : {0, 1}, first : 0..(MaxLiteral + 1),
                   last : 0..(MaxLiteral + 1), got : 0..(2 * MaxLiteral + 4),
                   left : -1..MaxLiteral]

\* Only the mail of users who logged in on this connection is read or changed, though
\* five commands (delete.rs, rename.rs, subscribe.rs, unsubscribe.rs, status.rs) check
\* no state and rely on the name alone.  LIST is the exception: it shows the folders and
\* flags of anybody (list.rs:118-131), but it too only to somebody who logged in.
OnlyOwnMail ==
    /\ touched \subseteq verified
    /\ seen # {} => verified # {}

\* Messages disappear only from the folder the client asked for last, and only if it
\* asked for SELECT and not EXAMINE, whatever APPEND, IDLE and STARTTLS came in between.
ReadOnlyKeepsMail ==
    \A r \in cut : r.asked = [folder |-> r.folder, access |-> "ReadWrite"]

\* The state to which APPEND returns is the one it came from: a literal leaves folder and
\* access as the client chose them (append.rs:189).
SelectionIsAsAsked ==
    LET now == IF state.is = "Appending" THEN state.previous ELSE state IN
    asked = IF now.is = "Selected"
            THEN [folder |-> now.folder, access |-> now.access]
            ELSE Nothing

\* The message APPEND stores is the literal, and the ")" of UTF8 (~{n}) if there is one,
\* or it is the literal without the line end it ends with, and then line end or ")" of the
\* command are still to come.  The one exception is a literal that is a single line
\* without a line end: it is never found complete, and the next line, a command, becomes
\* the end of the message (append.rs:164-169).
LiteralIsWhole ==
    \/ stored = NoMessage
    \/ stored.got = stored.announced + stored.tail /\ stored.left = Sent
    \/ stored.got = stored.announced - 2 /\ stored.left = 0
    \/ /\ stored.first = stored.announced + stored.tail
       /\ stored.got = stored.first + 2 + stored.last

=============================================================================
