-------------------------- MODULE ImapSessionProofs --------------------------
(***************************************************************************)
(* Proofs about ImapSession, for every set of users and folders and for    *)
(* literals of every length.                                               *)
(***************************************************************************)
EXTENDS ImapSession, TLAPS

-----------------------------------------------------------------------------
(* The inductive invariant *)

\* A name is that of somebody who logged in, and a state for users has one.
LoginInv ==
  /\ username # NoUser => username \in verified
  /\ state.is \in {"Authenticated", "Selected", "Appending"} => username # NoUser

\* A folder is watched while it is selected.
IdleInv == idle \in {"starting", "watching"} => state.is = "Selected"

\* Buffer and the rest of the literal make up the literal, unless the first line was all
\* of it: then the buffer has what followed and the line end too.
LiteralInv ==
  state.is = "Appending" =>
    IF rest = Sent THEN first = state.datalen + tail /\ state.data = first + 2
    ELSE rest = state.datalen - state.data

IInv ==
  /\ TypeOK /\ LoginInv /\ IdleInv /\ LiteralInv
  /\ OnlyOwnMail /\ ReadOnlyKeepsMail /\ SelectionIsAsAsked /\ LiteralIsWhole

-----------------------------------------------------------------------------
(* States of the connection *)

USE DEF NotAuthenticated, Authenticating, Authenticated, Selected, Appending

\* What a state for users is made of.
LEMMA UserShape ==
  ASSUME NEW s \in UserStates
  PROVE  /\ s \in State
         /\ s.is = "Authenticated" \/ s.is = "Selected"
         /\ s.is = "Authenticated" => s = Authenticated
         /\ s.is = "Selected" => s.folder \in Folders /\ s.access \in AccessMode
BY DEF UserStates, SelectedStates, State

\* What a state is made of.
LEMMA StateShape ==
  ASSUME NEW s \in State
  PROVE  /\ s.is \in {"NotAuthenticated", "Authenticating", "Authenticated", "Selected", "Appending"}
         /\ s.is \in {"Authenticated", "Selected"} <=> s \in UserStates
         /\ s.is = "Appending" =>
              /\ s.datalen \in 0 .. MaxLiteral /\ s.data \in 0 .. (MaxLiteral + 3)
              /\ s.previous \in UserStates
              /\ s = Appending(s.datalen, s.data, s.previous)
<1>1. CASE s \in {NotAuthenticated, Authenticating}
  BY <1>1, UserShape
<1>2. CASE s \in UserStates
  BY <1>2, UserShape
<1>3. CASE s \in AppendingStates
  <2>1. PICK n \in 0 .. MaxLiteral, d \in 0 .. (MaxLiteral + 3), p \in UserStates :
          s = Appending(n, d, p)
    BY <1>3 DEF AppendingStates
  <2>2. s.is = "Appending" /\ s.datalen = n /\ s.data = d /\ s.previous = p
    BY <2>1
  <2>3. QED
    BY <2>1, <2>2, UserShape
<1>4. QED
  BY <1>1, <1>2, <1>3 DEF State

\* The states a step puts the connection into.
LEMMA NewStates ==
  /\ NotAuthenticated \in State /\ Authenticating \in State /\ Authenticated \in UserStates
  /\ \A f \in Folders, a \in AccessMode : Selected(f, a) \in UserStates
  /\ \A n \in 0 .. MaxLiteral, d \in 0 .. (MaxLiteral + 3), p \in UserStates :
       Appending(n, d, p) \in State
  /\ UserStates \subseteq State
<1>1. NotAuthenticated \in State /\ Authenticating \in State /\ UserStates \subseteq State
  BY DEF State
<1>2. \A f \in Folders, a \in AccessMode : Selected(f, a) \in UserStates
  <2> HIDE DEF Selected
  <2>1. \A f \in Folders, a \in AccessMode : Selected(f, a) \in SelectedStates
    BY DEF SelectedStates
  <2>2. QED
    BY <2>1, Zenon DEF UserStates
<1>3. \A n \in 0 .. MaxLiteral, d \in 0 .. (MaxLiteral + 3), p \in UserStates :
        Appending(n, d, p) \in State
  <2> HIDE DEF Appending
  <2>1. \A n \in 0 .. MaxLiteral, d \in 0 .. (MaxLiteral + 3), p \in UserStates :
          Appending(n, d, p) \in AppendingStates
    BY DEF AppendingStates
  <2>2. QED
    BY <2>1, Zenon DEF State
<1>4. QED
  BY <1>1, <1>2, <1>3 DEF UserStates

\* A line put into the buffer.
LEMMA Buffered ==
  ASSUME NEW n \in 0 .. MaxLiteral, NEW d \in 0 .. (MaxLiteral + 3), NEW p \in UserStates, NEW e
  PROVE  [Appending(n, d, p) EXCEPT !.data = e] = Appending(n, e, p)
OBVIOUS

-----------------------------------------------------------------------------
(* Steps *)

\* Before a client connects the invariant holds.
LEMMA InvInit == Init => IInv
<1> SUFFICES ASSUME Init PROVE IInv
  OBVIOUS
<1>1. state = NotAuthenticated /\ state \in State
  BY NewStates DEF Init
<1>2. TypeOK
  BY <1>1, LiteralAssumption DEF Init, TypeOK, Ask, Sent, NoMessage
<1>3. LoginInv /\ IdleInv /\ LiteralInv
  BY <1>1 DEF Init, LoginInv, IdleInv, LiteralInv
<1>4. OnlyOwnMail /\ ReadOnlyKeepsMail /\ LiteralIsWhole /\ SelectionIsAsAsked
  BY <1>1 DEF Init, OnlyOwnMail, ReadOnlyKeepsMail, LiteralIsWhole, SelectionIsAsAsked
<1>5. QED
  BY <1>2, <1>3, <1>4 DEF IInv

\* A step that leaves the session as it is and reads no mail.
LEMMA Still ==
  ASSUME IInv, UNCHANGED <<state, username, client, asked, history>>,
         link' \in {"none", "plain", "handshake", "tls", "closed"},
         idle' \in {"no", "starting", "watching", "waiting"},
         idle' \in {"starting", "watching"} => state.is = "Selected"
  PROVE  IInv'
<1>1. TypeOK'
  BY DEF IInv, TypeOK, history, client
<1>2. LoginInv' /\ IdleInv' /\ LiteralInv'
  BY DEF IInv, LoginInv, IdleInv, LiteralInv, history, client
<1>3. OnlyOwnMail' /\ ReadOnlyKeepsMail' /\ LiteralIsWhole' /\ SelectionIsAsAsked'
  BY DEF IInv, OnlyOwnMail, ReadOnlyKeepsMail, LiteralIsWhole, SelectionIsAsAsked, history
<1>4. QED
  BY <1>1, <1>2, <1>3 DEF IInv

\* The end of the connection forgets who it was.
LEMMA End == ASSUME IInv, EndOfLines PROVE IInv'
<1>1. state' = NotAuthenticated /\ state' \in State
  BY NewStates DEF EndOfLines
<1>2. TypeOK'
  BY <1>1, LiteralAssumption DEF EndOfLines, IInv, TypeOK, Ask, Sent, history
<1>3. LoginInv' /\ IdleInv' /\ LiteralInv'
  BY <1>1 DEF EndOfLines, LoginInv, IdleInv, LiteralInv
<1>4. OnlyOwnMail' /\ ReadOnlyKeepsMail' /\ LiteralIsWhole' /\ SelectionIsAsAsked'
  BY <1>1 DEF EndOfLines, IInv, OnlyOwnMail, ReadOnlyKeepsMail, LiteralIsWhole,
              SelectionIsAsAsked, history
<1>5. QED
  BY <1>2, <1>3, <1>4 DEF IInv

\* A command of a user that leaves the session as it is.
Look == username # NoUser /\ Touch /\ UNCHANGED <<conn, client, asked, verified, seen, cut, stored>>

LEMMA Looking == ASSUME IInv, Look PROVE IInv'
<1>1. username \in verified /\ username \in Users
  BY DEF IInv, LoginInv, TypeOK, Look
<1>2. TypeOK'
  BY <1>1 DEF Look, Touch, IInv, TypeOK, conn, client
<1>3. LoginInv' /\ IdleInv' /\ LiteralInv'
  BY DEF Look, IInv, LoginInv, IdleInv, LiteralInv, conn, client
<1>4. OnlyOwnMail' /\ ReadOnlyKeepsMail' /\ LiteralIsWhole' /\ SelectionIsAsAsked'
  BY <1>1 DEF Look, Touch, IInv, OnlyOwnMail, ReadOnlyKeepsMail, LiteralIsWhole,
              SelectionIsAsAsked, conn
<1>5. QED
  BY <1>2, <1>3, <1>4 DEF IInv

\* The commands that look at a folder do so for a user, whatever they check.
LEMMA Uses ==
  ASSUME IInv,
         \/ FETCH \/ SEARCH \/ STORE \/ CHECK \/ NOOP \/ COPY \/ CREATE
         \/ DELETE \/ RENAME \/ SUBSCRIBE \/ UNSUBSCRIBE \/ STATUS
         \/ AppendRefused \/ IdleEvent
  PROVE  Look \/ EndOfLines
<1>2. state.is \in {"Authenticated", "Selected", "Appending"} => username # NoUser
  BY DEF IInv, LoginInv
<1>3. CASE FETCH \/ SEARCH \/ STORE \/ CHECK \/ NOOP \/ COPY
  BY <1>2, <1>3 DEF FETCH, SEARCH, STORE, CHECK, NOOP, COPY, Use, Writable, Look
<1>4. CASE CREATE \/ AppendRefused
  BY <1>2, <1>4 DEF CREATE, AppendRefused, Use, HasUserState, Look
<1>6. CASE DELETE \/ RENAME \/ SUBSCRIBE \/ UNSUBSCRIBE \/ STATUS
  BY <1>6 DEF DELETE, RENAME, SUBSCRIBE, UNSUBSCRIBE, STATUS, ByName, Use, Look
<1>7. CASE IdleEvent
  BY <1>2, <1>7 DEF IInv, IdleInv, IdleEvent, Look
<1>8. QED
  BY <1>3, <1>4, <1>6, <1>7

\* LIST is for somebody who logged in, whosever folders it looks up.
LEMMA ListStep == ASSUME IInv, LIST PROVE IInv'
<1>1. state.is \in {"NotAuthenticated", "Authenticating", "Authenticated", "Selected", "Appending"}
      /\ (state.is = "NotAuthenticated" => state = NotAuthenticated)
  <2>1. state \in State
    BY DEF IInv, TypeOK
  <2>2. QED
    BY <2>1, StateShape, UserShape DEF State, AppendingStates
<1>2. verified # {}
  BY <1>1 DEF LIST, Command, IInv, LoginInv
<1>3. TypeOK'
  BY DEF LIST, IInv, TypeOK, conn, client
<1>4. LoginInv' /\ IdleInv' /\ LiteralInv'
  BY DEF LIST, IInv, LoginInv, IdleInv, LiteralInv, conn, client
<1>5. OnlyOwnMail' /\ ReadOnlyKeepsMail' /\ LiteralIsWhole' /\ SelectionIsAsAsked'
  BY <1>2 DEF LIST, IInv, OnlyOwnMail, ReadOnlyKeepsMail, LiteralIsWhole, SelectionIsAsAsked, conn
<1>6. QED
  BY <1>3, <1>4, <1>5 DEF IInv

-----------------------------------------------------------------------------
(* Login and selection *)

\* The dialogue of AUTHENTICATE begins without a selection.
LEMMA StartStep == ASSUME IInv, StartAuthentication PROVE IInv'
<1>1. state = NotAuthenticated /\ state' = Authenticating /\ state' \in State
  BY NewStates DEF StartAuthentication
<1>2. TypeOK'
  BY <1>1 DEF StartAuthentication, IInv, TypeOK, history, client
<1>3. LoginInv' /\ IdleInv' /\ LiteralInv'
  BY <1>1 DEF StartAuthentication, IInv, LoginInv, IdleInv, LiteralInv, history, client
<1>4. OnlyOwnMail' /\ ReadOnlyKeepsMail' /\ LiteralIsWhole' /\ SelectionIsAsAsked'
  BY <1>1 DEF StartAuthentication, IInv, OnlyOwnMail, ReadOnlyKeepsMail, LiteralIsWhole,
              SelectionIsAsAsked, history
<1>5. QED
  BY <1>2, <1>3, <1>4 DEF IInv

\* A name is set together with its verification, and a failure sets none.
LEMMA LoginStep ==
  ASSUME IInv, NEW u \in Users, NEW valid \in BOOLEAN, plain(u, valid)
  PROVE  IInv'
<1>1. state \in {NotAuthenticated, Authenticating} /\ idle = "no"
  BY DEF plain, Ready, Command
<1>2. \/ state' = Authenticated /\ username' = u /\ verified' = verified \cup {u}
      \/ state' = NotAuthenticated /\ username' = username /\ verified' = verified
  BY DEF plain, LoggedIn, LoginFails
<1>3. state' \in State
  BY <1>2, NewStates
<1>4. UNCHANGED <<link, idle, client, asked, touched, seen, cut, stored>>
  BY DEF plain
<1>5. TypeOK'
  BY <1>2, <1>3, <1>4 DEF IInv, TypeOK, client
<1>6. LoginInv' /\ IdleInv' /\ LiteralInv'
  BY <1>1, <1>2, <1>4, UserAssumption DEF IInv, LoginInv, IdleInv, LiteralInv, client
<1>7. OnlyOwnMail' /\ ReadOnlyKeepsMail' /\ LiteralIsWhole' /\ SelectionIsAsAsked'
  BY <1>1, <1>2, <1>4 DEF IInv, OnlyOwnMail, ReadOnlyKeepsMail, LiteralIsWhole, SelectionIsAsAsked
<1>8. QED
  BY <1>5, <1>6, <1>7 DEF IInv

\* A step of a user from one state for users to another.
LEMMA Selecting ==
  ASSUME IInv, HasUserState, idle = "no", UNCHANGED <<link, username, idle, client, verified, stored>>,
         state' \in UserStates, asked' \in Ask,
         touched' \subseteq touched \cup {username}, seen' = seen,
         cut' \subseteq [folder : Folders, asked : Ask],
         ReadOnlyKeepsMail', SelectionIsAsAsked'
  PROVE  IInv'
<1>1. username \in verified /\ username \in Users /\ username # NoUser
  BY DEF IInv, LoginInv, TypeOK, HasUserState
<1>2. state' \in State /\ state'.is \in {"Authenticated", "Selected"}
  BY UserShape
<1>3. TypeOK'
  BY <1>1, <1>2 DEF IInv, TypeOK, client
<1>4. LoginInv' /\ IdleInv' /\ LiteralInv'
  BY <1>1, <1>2 DEF IInv, LoginInv, IdleInv, LiteralInv, client
<1>5. OnlyOwnMail' /\ LiteralIsWhole'
  BY <1>1 DEF IInv, OnlyOwnMail, LiteralIsWhole
<1>6. QED
  BY <1>3, <1>4, <1>5 DEF IInv

\* SELECT and EXAMINE.
LEMMA SelectStep ==
  ASSUME IInv, NEW f \in Folders, NEW a \in AccessMode, select(f, a)
  PROVE  IInv'
<1>1. state' = Selected(f, a) /\ asked' = [folder |-> f, access |-> a]
  BY DEF select
<1>2. state' \in UserStates /\ asked' \in Ask
  BY <1>1, NewStates DEF Ask
<1>3. SelectionIsAsAsked'
  BY <1>1 DEF SelectionIsAsAsked
<1>4. cut' = cut /\ ReadOnlyKeepsMail' /\ cut' \subseteq [folder : Folders, asked : Ask]
  BY DEF select, IInv, TypeOK, ReadOnlyKeepsMail
<1>5. QED
  BY <1>2, <1>3, <1>4, Selecting DEF select, Command, Ready, Touch

\* UNSELECT.
LEMMA UnselectStep == ASSUME IInv, UNSELECT PROVE IInv'
<1>1. state' = Authenticated /\ asked' = Nothing
  BY DEF UNSELECT
<1>2. state' \in UserStates /\ asked' \in Ask
  BY <1>1, NewStates DEF Ask
<1>3. SelectionIsAsAsked'
  BY <1>1 DEF SelectionIsAsAsked
<1>4. cut' = cut /\ ReadOnlyKeepsMail' /\ cut' \subseteq [folder : Folders, asked : Ask]
  BY DEF UNSELECT, IInv, TypeOK, ReadOnlyKeepsMail, history
<1>5. QED
  BY <1>2, <1>3, <1>4, Selecting DEF UNSELECT, Command, Ready, HasUserState, history

\* Messages are removed from the folder asked for, which was asked for with SELECT.
LEMMA Removing ==
  ASSUME IInv, Writable, Remove
  PROVE  ReadOnlyKeepsMail' /\ cut' \subseteq [folder : Folders, asked : Ask]
<1>1. state \in State /\ state.is = "Selected" /\ state.access # "ReadOnly"
  BY DEF Writable, IInv, TypeOK
<1>2. state.folder \in Folders /\ state.access = "ReadWrite"
  BY <1>1, StateShape, UserShape DEF AccessMode
<1>3. asked = [folder |-> state.folder, access |-> "ReadWrite"] /\ asked \in Ask
  BY <1>1, <1>2 DEF IInv, SelectionIsAsAsked, TypeOK
<1>4. cut' = cut \cup {[folder |-> state.folder, asked |-> asked]}
  BY DEF Remove
<1>5. ReadOnlyKeepsMail'
  <2>1. SUFFICES ASSUME NEW r \in cut'
                 PROVE  r.asked = [folder |-> r.folder, access |-> "ReadWrite"]
    BY DEF ReadOnlyKeepsMail
  <2>2. CASE r \in cut
    BY <2>2 DEF IInv, ReadOnlyKeepsMail
  <2>3. CASE r = [folder |-> state.folder, asked |-> asked]
    BY <1>3, <2>3
  <2>4. QED
    BY <1>4, <2>1, <2>2, <2>3
<1>6. cut' \subseteq [folder : Folders, asked : Ask]
  BY <1>2, <1>3, <1>4 DEF IInv, TypeOK
<1>7. QED
  BY <1>5, <1>6

\* CLOSE.
LEMMA CloseStep == ASSUME IInv, CLOSE PROVE IInv'
<1>1. state' = Authenticated /\ asked' = Nothing /\ Writable
  BY DEF CLOSE
<1>2. state' \in UserStates /\ asked' \in Ask
  BY <1>1, NewStates DEF Ask
<1>3. SelectionIsAsAsked'
  BY <1>1 DEF SelectionIsAsAsked
<1>4. ReadOnlyKeepsMail' /\ cut' \subseteq [folder : Folders, asked : Ask]
  BY Removing DEF CLOSE
<1>5. HasUserState
  BY <1>1 DEF Writable, HasUserState
<1>6. QED
  BY <1>2, <1>3, <1>4, <1>5, Selecting DEF CLOSE, Command, Ready, Touch

\* EXPUNGE, UID EXPUNGE and MOVE.
LEMMA RemoveStep == ASSUME IInv, RemoveMessages PROVE IInv'
<1>1. state' = state /\ asked' = asked /\ Writable
  BY DEF RemoveMessages, conn
<1>2. state' \in UserStates /\ asked' \in Ask
  BY <1>1, StateShape DEF IInv, TypeOK, Writable
<1>3. SelectionIsAsAsked'
  BY <1>1 DEF IInv, SelectionIsAsAsked
<1>4. ReadOnlyKeepsMail' /\ cut' \subseteq [folder : Folders, asked : Ask]
  BY Removing DEF RemoveMessages
<1>5. HasUserState
  BY <1>1 DEF Writable, HasUserState
<1>6. QED
  BY <1>2, <1>3, <1>4, <1>5, Selecting DEF RemoveMessages, Command, Ready, Touch, conn

-----------------------------------------------------------------------------
(* APPEND *)

\* APPEND suspends the state of its user.
LEMMA AppendStep ==
  ASSUME IInv, NEW n \in 0 .. MaxLiteral, NEW t \in {0, 1}, APPEND(n, t)
  PROVE  IInv'
<1>1. state' = Appending(n, 0, state) /\ rest' = n /\ tail' = t /\ first' = 0 /\ state \in State
  BY DEF APPEND, IInv, TypeOK
<1>2. state \in UserStates /\ n \in Nat
  BY <1>1, StateShape, LiteralAssumption DEF APPEND, HasUserState
<1>3. state' \in State /\ state'.is = "Appending" /\ state'.previous = state
      /\ state'.data = 0 /\ state'.datalen = n
  BY <1>1, <1>2, NewStates, LiteralAssumption
<1>4. username \in verified /\ username \in Users /\ username # NoUser
  BY DEF APPEND, IInv, LoginInv, TypeOK, HasUserState
<1>5. UNCHANGED <<link, username, idle, asked, verified, seen, cut, stored>> /\ idle = "no"
      /\ touched' = touched \cup {username}
  BY DEF APPEND, Touch, Command, Ready
<1>6. TypeOK'
  BY <1>1, <1>3, <1>4, <1>5, LiteralAssumption DEF IInv, TypeOK
<1>7. LoginInv' /\ IdleInv'
  BY <1>3, <1>4, <1>5 DEF IInv, LoginInv, IdleInv
<1>8. LiteralInv'
  BY <1>1, <1>2, <1>3 DEF LiteralInv, Sent
<1>9. OnlyOwnMail' /\ ReadOnlyKeepsMail' /\ LiteralIsWhole'
  BY <1>4, <1>5 DEF IInv, OnlyOwnMail, ReadOnlyKeepsMail, LiteralIsWhole
<1>10. SelectionIsAsAsked'
  BY <1>2, <1>3, <1>5, UserShape DEF IInv, SelectionIsAsAsked
<1>11. QED
  BY <1>6, <1>7, <1>8, <1>9, <1>10 DEF IInv

\* A line that goes into the buffer.
LEMMA Buffering ==
  ASSUME IInv, state.is = "Appending", NEW d \in 0 .. (MaxLiteral + 3),
         state' = [state EXCEPT !.data = d], rest' \in -1 .. MaxLiteral,
         first' \in 0 .. (MaxLiteral + 1), tail' = tail,
         IF rest' = Sent THEN first' = state.datalen + tail /\ d = first' + 2
         ELSE rest' = state.datalen - d,
         idle = "no", UNCHANGED <<link, username, idle, asked, history>>
  PROVE  IInv'
<1>1. state \in State
  BY DEF IInv, TypeOK
<1>2. /\ state.datalen \in 0 .. MaxLiteral /\ state.data \in 0 .. (MaxLiteral + 3)
      /\ state.previous \in UserStates
      /\ state = Appending(state.datalen, state.data, state.previous)
  BY <1>1, StateShape
<1>3. state' = Appending(state.datalen, d, state.previous)
  BY <1>2, Buffered
<1>4. state' \in State /\ state'.is = "Appending" /\ state'.previous = state.previous
      /\ state'.data = d /\ state'.datalen = state.datalen
  BY <1>2, <1>3, NewStates
<1>5. TypeOK'
  BY <1>4 DEF IInv, TypeOK, history, client
<1>6. LoginInv' /\ IdleInv' /\ LiteralInv'
  BY <1>4 DEF IInv, LoginInv, IdleInv, LiteralInv, history, client
<1>7. OnlyOwnMail' /\ ReadOnlyKeepsMail' /\ LiteralIsWhole' /\ SelectionIsAsAsked'
  BY <1>4 DEF IInv, OnlyOwnMail, ReadOnlyKeepsMail, LiteralIsWhole, SelectionIsAsAsked, history
<1>8. QED
  BY <1>5, <1>6, <1>7 DEF IInv

\* What the invariant says of a literal on its way.
LEMMA LiteralFacts ==
  ASSUME IInv, state.is = "Appending"
  PROVE  /\ MaxLiteral \in Nat /\ rest \in -1 .. MaxLiteral
         /\ state.datalen \in 0 .. MaxLiteral /\ state.data \in 0 .. (MaxLiteral + 3)
         /\ state.previous \in UserStates
         /\ tail \in {0, 1} /\ first \in 0 .. (MaxLiteral + 1)
         /\ IF rest = Sent THEN first = state.datalen + tail /\ state.data = first + 2
            ELSE rest = state.datalen - state.data
BY StateShape, LiteralAssumption DEF IInv, TypeOK, LiteralInv

\* The first line.
LEMMA FirstLineStep ==
  ASSUME IInv, NEW n \in 0 .. (MaxLiteral + 1), FirstLine(n)
  PROVE  IInv'
<1>1. state.is = "Appending" /\ state.data = 0 /\ state' = [state EXCEPT !.data = n + 2]
  BY DEF FirstLine
<1>2. n + 2 \in 0 .. (MaxLiteral + 3)
  BY LiteralAssumption
<1>3. rest # Sent /\ rest = state.datalen
  BY <1>1, LiteralFacts DEF Sent
<1>4. /\ rest' \in -1 .. MaxLiteral
      /\ IF rest' = Sent THEN n = state.datalen + tail ELSE rest' = state.datalen - (n + 2)
  BY <1>1, <1>3, LiteralFacts DEF FirstLine, ClientLine, Sent
<1>5. QED
  BY <1>1, <1>2, <1>4, Buffering DEF FirstLine, Ready

\* A line in the middle of the literal is not the last one of the client.
LEMMA NextLineStep ==
  ASSUME IInv, NEW n \in 0 .. (MaxLiteral + 1), NextLine(n)
  PROVE  IInv'
<1>1. state.is = "Appending" /\ state' = [state EXCEPT !.data = state.data + n + 2]
  BY DEF NextLine
<1>2. ~ (state.data + n + 2 >= state.datalen)
  BY DEF NextLine, Reached
<1>3. state.data + n + 2 \in 0 .. (MaxLiteral + 3)
  BY <1>1, <1>2, LiteralFacts
<1>4. n + 2 <= rest /\ rest' = rest - (n + 2)
  BY <1>1, <1>2, LiteralFacts DEF NextLine, ClientLine, Sent
<1>5. /\ rest' \in -1 .. MaxLiteral /\ rest' # Sent
      /\ rest' = state.datalen - (state.data + n + 2)
  BY <1>1, <1>4, LiteralFacts DEF Sent
<1>6. tail' = tail /\ first' = first /\ first' \in 0 .. (MaxLiteral + 1)
  BY <1>1, LiteralFacts DEF NextLine
<1>7. QED
  BY <1>1, <1>3, <1>5, <1>6, Buffering DEF NextLine, Ready

\* The last line completes the literal, and the state of before is back.
LEMMA LastLineStep ==
  ASSUME IInv, NEW n \in 0 .. (MaxLiteral + 1), LastLine(n)
  PROVE  IInv'
<1>1. state.is = "Appending" /\ state' = state.previous /\ state \in State
  BY DEF LastLine, Restored, IInv, TypeOK
<1>2. state' \in UserStates /\ state' \in State /\ state'.is \in {"Authenticated", "Selected"}
  BY <1>1, LiteralFacts, UserShape
<1>3. username \in verified /\ username \in Users /\ username # NoUser
  BY <1>1 DEF IInv, LoginInv, TypeOK
<1>4. UNCHANGED <<link, username, idle, asked, verified, seen, cut>> /\ idle = "no"
      /\ touched' = touched \cup {username}
  BY DEF LastLine, Touch, Ready
<1>5. rest' \in -1 .. MaxLiteral
  BY <1>1, LiteralFacts DEF LastLine, ClientLine, Sent
<1>6. stored' = [announced |-> state.datalen, tail |-> tail, first |-> first, last |-> n,
                 got |-> state.data + n, left |-> rest']
  BY DEF LastLine, Kept
<1>7. state.data + n \in 0 .. (2 * MaxLiteral + 4)
  BY <1>1, LiteralFacts
<1>8. stored' \in [announced : 0 .. MaxLiteral, tail : {0, 1}, first : 0 .. (MaxLiteral + 1),
                   last : 0 .. (MaxLiteral + 1), got : 0 .. (2 * MaxLiteral + 4),
                   left : -1 .. MaxLiteral]
  BY <1>1, <1>5, <1>6, <1>7, LiteralFacts
<1>9. TypeOK'
  <2>1. tail' \in {0, 1} /\ first' \in 0 .. (MaxLiteral + 1)
    BY <1>1, LiteralFacts DEF LastLine
  <2>2. QED
    BY <1>2, <1>3, <1>4, <1>5, <1>8, <2>1 DEF IInv, TypeOK
<1>10. LoginInv' /\ IdleInv' /\ LiteralInv'
  BY <1>2, <1>3, <1>4 DEF IInv, LoginInv, IdleInv, LiteralInv
<1>11. OnlyOwnMail' /\ ReadOnlyKeepsMail'
  BY <1>3, <1>4 DEF IInv, OnlyOwnMail, ReadOnlyKeepsMail
<1>12. SelectionIsAsAsked'
  BY <1>1, <1>2, <1>4 DEF IInv, SelectionIsAsAsked
<1>13. LiteralIsWhole'
  <2>1. /\ stored'.announced = state.datalen /\ stored'.got = state.data + n
        /\ stored'.left = rest' /\ stored'.tail = tail
        /\ stored'.first = first /\ stored'.last = n
    BY <1>6
  <2>2. CASE rest = Sent
    <3>1. first = state.datalen + tail /\ state.data + n = first + 2 + n
      BY <1>1, <2>2, LiteralFacts
    <3>2. QED
      BY <2>1, <3>1 DEF LiteralIsWhole
  <2>3. CASE rest # Sent
    <3>1. state.data + n + 2 >= state.datalen
      BY DEF LastLine, Reached
    <3>2. \/ state.data + n = state.datalen + tail /\ rest' = Sent
          \/ state.data + n = state.datalen - 2 /\ rest' = 0
      BY <1>1, <2>3, <3>1, LiteralFacts DEF LastLine, ClientLine, Sent
    <3>3. QED
      BY <2>1, <3>2 DEF LiteralIsWhole
  <2>4. QED
    BY <2>2, <2>3
<1>14. QED
  BY <1>9, <1>10, <1>11, <1>12, <1>13 DEF IInv

\* The line end after a literal.
LEMMA EndOfCommandStep == ASSUME IInv, EndOfCommand PROVE IInv'
<1>1. rest' = Sent /\ UNCHANGED <<link, state, username, idle, tail, first, asked, history>>
      /\ state.is # "Appending"
  BY DEF EndOfCommand, conn
<1>2. TypeOK'
  BY <1>1, LiteralAssumption DEF IInv, TypeOK, Sent, history
<1>3. LoginInv' /\ IdleInv' /\ LiteralInv'
  BY <1>1 DEF IInv, LoginInv, IdleInv, LiteralInv, history, client
<1>4. OnlyOwnMail' /\ ReadOnlyKeepsMail' /\ LiteralIsWhole' /\ SelectionIsAsAsked'
  BY <1>1 DEF IInv, OnlyOwnMail, ReadOnlyKeepsMail, LiteralIsWhole, SelectionIsAsAsked, history
<1>5. QED
  BY <1>2, <1>3, <1>4 DEF IInv

-----------------------------------------------------------------------------
(* The theorems *)

\* Every step keeps the invariant.
LEMMA InvNext == IInv /\ [Next]_vars => IInv'
<1> SUFFICES ASSUME IInv, [Next]_vars PROVE IInv'
  OBVIOUS
<1>t. /\ link \in {"none", "plain", "handshake", "tls", "closed"}
      /\ idle \in {"no", "starting", "watching", "waiting"}
      /\ idle \in {"starting", "watching"} => state.is = "Selected"
  BY DEF IInv, TypeOK, IdleInv
<1>1. CASE UNCHANGED vars
  BY <1>t, <1>1, Still DEF vars, conn
<1>2. CASE \E l \in {"plain", "tls"} : Accept(l)
  BY <1>t, <1>2, Still DEF Accept
<1>3. CASE Disconnect \/ LOGOUT
  BY <1>3, End DEF Disconnect, LOGOUT
<1>4. CASE STARTTLS \/ Handshake
  BY <1>t, <1>4, Still DEF STARTTLS, Handshake
<1>5. CASE StartAuthentication
  BY <1>5, StartStep
<1>6. CASE \E u \in Users, valid \in BOOLEAN : plain(u, valid)
  BY <1>6, LoginStep
<1>7. CASE \E f \in Folders, a \in AccessMode : select(f, a)
  BY <1>7, SelectStep
<1>8. CASE UNSELECT
  BY <1>8, UnselectStep
<1>9. CASE CLOSE
  BY <1>9, CloseStep
<1>10. CASE EXPUNGE \/ UIDEXPUNGE \/ MOVE
  BY <1>10, RemoveStep DEF EXPUNGE, UIDEXPUNGE, MOVE
<1>11. CASE \/ FETCH \/ SEARCH \/ STORE \/ CHECK \/ NOOP \/ COPY \/ CREATE
            \/ DELETE \/ RENAME \/ SUBSCRIBE \/ UNSUBSCRIBE \/ STATUS
            \/ AppendRefused \/ IdleEvent
  BY <1>11, Uses, Looking, End
<1>12. CASE \/ \E n \in 0 .. MaxLiteral, t \in {0, 1} : APPEND(n, t)
            \/ \E n \in 0 .. (MaxLiteral + 1) : FirstLine(n) \/ NextLine(n) \/ LastLine(n)
  BY <1>12, AppendStep, FirstLineStep, NextLineStep, LastLineStep
<1>13. CASE EndOfCommand
  BY <1>13, EndOfCommandStep
<1>14. CASE IDLE \/ Watch \/ DONE
  BY <1>t, <1>14, Still DEF IDLE, Watch, DONE, Command, Ready
<1>15. CASE LIST
  BY <1>15, ListStep
<1>16. QED
  BY <1>1, <1>2, <1>3, <1>4, <1>5, <1>6, <1>7, <1>8, <1>9, <1>10, <1>11, <1>12, <1>13, <1>14,
     <1>15
     DEF Next

\* The invariant holds in every state that the program reaches.
THEOREM Invariance == Spec => []IInv
BY InvInit, InvNext, PTL DEF Spec

\* The state of a connection has its type, and a stored message is at most one line
\* longer than its literal (append.rs:152-160).
THEOREM TypeCorrect == Spec => []TypeOK
<1>1. IInv => TypeOK
  BY DEF IInv
<1>2. QED
  BY <1>1, Invariance, PTL

\* The mail of those who did not log in on a connection is neither read nor changed by
\* it, also by the commands that check no state (delete.rs:52, status.rs:34).  LIST shows
\* the folders of others too, but to nobody who has not logged in (list.rs:118-131).
THEOREM MailIsPrivate == Spec => []OnlyOwnMail
<1>1. IInv => OnlyOwnMail
  BY DEF IInv
<1>2. QED
  BY <1>1, Invariance, PTL

\* EXAMINE gives no way to remove a message (close.rs:33, expunge.rs:39, uid.rs:73,
\* move_.rs:48), whatever commands come in between.
THEOREM ExamineIsReadOnly == Spec => []ReadOnlyKeepsMail
<1>1. IInv => ReadOnlyKeepsMail
  BY DEF IInv
<1>2. QED
  BY <1>1, Invariance, PTL

\* The folder and the access in force are those the client asked for last, also around an
\* APPEND, which suspends and restores them (append.rs:189-191).
THEOREM SelectionPersists == Spec => []SelectionIsAsAsked
<1>1. IInv => SelectionIsAsAsked
  BY DEF IInv
<1>2. QED
  BY <1>1, Invariance, PTL

\* APPEND counts the lines of a literal so that it stores the announced octets, up to a
\* last line end or with the ")" that follows, unless the literal is a single line without
\* a line end (append.rs:147-170).
THEOREM AppendStoresLiteral == Spec => []LiteralIsWhole
<1>1. IInv => LiteralIsWhole
  BY DEF IInv
<1>2. QED
  BY <1>1, Invariance, PTL

=============================================================================
