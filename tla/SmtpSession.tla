---------------------------- MODULE SmtpSession ----------------------------
(***************************************************************************)
(* One SMTP connection: the command dispatcher, the envelope it collects,  *)
(* authentication, STARTTLS and what DATA does with a message: store it in *)
(* a maildir, queue it for another server, or refuse it.                   *)
(*                                                                         *)
(* The client may send any line at any time.  The verdicts of SPF, DKIM,   *)
(* DMARC and Rspamd and the failures of storage and database are free      *)
(* choices.  A line is abstracted to the command it is, an address to its  *)
(* class.                                                                  *)
(***************************************************************************)
EXTENDS Integers, Sequences

CONSTANTS
  Users,      \* addresses of the server's accounts
  Unknown,    \* addresses at the server's host name without an account
  Remote,     \* addresses of other domains
  Bare,       \* addresses without an "@"
  Senders,    \* addresses that MAIL names: which one it is decides nothing here
  Nobody,     \* no user, no sender
  MaxEnvelopes, \* bound: envelopes used up in one connection
  MaxLines    \* bound: lines of one message that are told apart

Addresses == Users \cup Unknown \cup Remote \cup Bare

ASSUME AddressAssumption == Nobody \notin Addresses /\ Senders \subseteq Addresses
ASSUME BoundAssumption   == MaxEnvelopes \in Nat /\ MaxLines \in Nat

VARIABLES
  link,     \* "none", "open", "closed"
  port,     \* the server's port the client connected to
  con,      \* con_state
  reply,    \* what the last line was answered
  \* history, read by no action of the program
  out,      \* messages stored or queued
  accepted, \* messages acknowledged with 250 that had a recipient
  epoch,    \* envelopes used up so far, by an acknowledgement or a refusal
  refused,  \* DKIM or DMARC refused the message that is being received
  mailed,   \* the epoch of the last accepted MAIL, and whether one asked for TLS in it
  rcpted,   \* the epoch of the last accepted RCPT
  everAuth  \* somebody has authenticated on this connection

vars == <<link, port, con, reply, out, accepted, epoch, refused, mailed, rcpted, everAuth>>
history == <<out, accepted, epoch, refused, mailed, rcpted, everAuth>>

Ports == {25, 587, 465}
\* receipts is None, or a set: RCPT takes a single address, so it has no order.
None == {Nobody}
Receipts == {None} \cup SUBSET Addresses

\* State, with the fields its variants carry.
State ==
  [tag  : {"NotAuthenticated", "Authenticated", "Plain", "Username", "Password", "ReceivingData"},
   user : Users \cup {Nobody},
   data : 0 .. MaxLines]

NotAuthenticated == [tag |-> "NotAuthenticated", user |-> Nobody, data |-> 0]
Authenticated(u) == [tag |-> "Authenticated", user |-> u, data |-> 0]
ReceivingData(u) == [tag |-> "ReceivingData", user |-> u, data |-> 0]
Authenticating(step, u) == [tag |-> step, user |-> u, data |-> 0]

Connection ==
  [state : State, secure : BOOLEAN, require_tls : BOOLEAN, is_submission : BOOLEAN,
   receipts : Receipts, sender : Addresses \cup {Nobody}, ehlo : BOOLEAN]

New(secure, is_submission) ==
  [state |-> NotAuthenticated, secure |-> secure, require_tls |-> FALSE,
   is_submission |-> is_submission, receipts |-> None, sender |-> Nobody, ehlo |-> FALSE]

Answer(code) == reply' = code /\ UNCHANGED <<link, port>>

\* An error of a handler: "500 This should not happen" and the end.
Fail == link' = "closed" /\ reply' = 500 /\ UNCHANGED <<port, con>>

\* A panic ends the connection's task without a reply.
Panic == link' = "closed" /\ reply' = 0 /\ UNCHANGED <<port, con>>

\* The dispatcher hands the line to a command.
Ready == link = "open" /\ con.state.tag \in {"NotAuthenticated", "Authenticated"}

-----------------------------------------------------------------------------
(* The connection *)

\* is_submission is computed from the peer's port on the plain listener.
Accept(p, peer) ==
  /\ link = "none"
  /\ link' = "open" /\ port' = p /\ reply' = 220
  /\ con' = IF p = 465 THEN New(TRUE, TRUE) ELSE New(FALSE, peer = 587)
  /\ UNCHANGED history

\* The client goes away, the line codec reports an overlong line, TLS cannot be
\* set up or the server shuts down.
Disconnect ==
  /\ link = "open" /\ link' = "closed"
  /\ UNCHANGED <<port, con, reply, history>>

QUIT ==
  /\ Ready
  /\ link' = "closed" /\ reply' = 221
  /\ UNCHANGED <<port, con, history>>

\* On the plain listener the state goes over to TLS; under TLS the response
\* of the dispatcher is ignored and nothing is sent.
STARTTLS ==
  /\ Ready
  /\ IF con.secure
     THEN Answer(0) /\ UNCHANGED con
     ELSE Answer(220) /\ con' = [con EXCEPT !.secure = TRUE]
  /\ UNCHANGED history

\* NOOP, RSET, VRFY and commands that are not known change nothing.
NOOP ==
  /\ Ready
  /\ \E code \in {250, 252, 500, 550} :
       (code = 550 => con.state.tag = "Authenticated") /\ Answer(code)
  /\ UNCHANGED <<con, history>>

EHLO ==
  /\ Ready
  /\ \/ Answer(250) /\ con' = [con EXCEPT !.ehlo = TRUE]
     \/ Answer(550) /\ UNCHANGED con          \* SPF fails
     \/ Fail                                  \* no argument, no resolver
  /\ UNCHANGED history

-----------------------------------------------------------------------------
(* The envelope *)

\* A sender of "<>" has no first element: the handler panics.
MAILFROM(sender, require_tls) ==
  /\ Ready
  /\ IF con.is_submission /\ con.state.tag # "Authenticated"
     THEN Answer(530) /\ UNCHANGED <<con, mailed>>
     ELSE \/ Answer(552) /\ UNCHANGED <<con, mailed>>          \* SIZE
          \/ Answer(550) /\ con.ehlo /\ UNCHANGED <<con, mailed>>  \* SPF
          \/ Fail /\ UNCHANGED mailed                          \* bad argument, no EHLO
          \/ Panic /\ UNCHANGED mailed                         \* <>
          \/ /\ con.ehlo
             /\ Answer(250)
             /\ con' = [con EXCEPT !.sender = sender, !.require_tls = @ \/ require_tls]
             /\ mailed' = [epoch |-> epoch,
                           require_tls |-> require_tls \/ (mailed.epoch = epoch /\ mailed.require_tls)]
  /\ UNCHANGED <<out, accepted, epoch, refused, rcpted, everAuth>>

\* Each RCPT replaces the recipients; "<>" leaves none of them.
Bug_RCPTTO(receipts) ==
  /\ Ready
  /\ Answer(250)
  /\ con' = [con EXCEPT !.receipts = receipts]
  /\ rcpted' = epoch
  /\ UNCHANGED <<out, accepted, epoch, refused, mailed, everAuth>>
RCPTTO(receipts) ==
  /\ Ready
  /\ IF con.state.tag = "NotAuthenticated" /\ \E r \in receipts : r \notin Users
     THEN /\ \E r \in receipts : Answer(IF r \in Unknown THEN 550 ELSE 551)
          /\ UNCHANGED <<con, rcpted>>
     ELSE /\ Answer(250)
          /\ con' = [con EXCEPT !.receipts = receipts]
          /\ rcpted' = epoch
  /\ UNCHANGED <<out, accepted, epoch, refused, mailed, everAuth>>

\* RCPT without an argument, or one that does not parse.
RcptMalformed ==
  /\ Ready
  /\ Fail \/ Panic
  /\ UNCHANGED history

-----------------------------------------------------------------------------
(* Authentication *)

\* AUTH, up to the point where credentials are checked.
Bug_AUTH ==
  /\ Ready
  /\ \/ Answer(454) /\ UNCHANGED con
     \/ Answer(535) /\ UNCHANGED con
     \/ /\ \E step \in {"Username", "Plain"} : con' = [con EXCEPT !.state = Authenticating(step, Nobody)]
        /\ Answer(334)
  /\ UNCHANGED history
AUTH ==
  /\ Ready
  /\ IF ~con.secure
     THEN Answer(538) /\ UNCHANGED con
     ELSE \/ Answer(454) /\ UNCHANGED con     \* no mechanism
          \/ Answer(535) /\ UNCHANGED con     \* neither LOGIN nor PLAIN
          \/ /\ \E step \in {"Username", "Plain"} :
                  con' = [con EXCEPT !.state = Authenticating(step, Nobody)]
             /\ Answer(334)
  /\ UNCHANGED history

\* The credentials are right ...
LoggedIn(u) ==
  /\ con' = [con EXCEPT !.state = Authenticated(u)]
  /\ Answer(235)
  /\ everAuth' = TRUE

\* ... or not.
LoginFails ==
  /\ con' = [con EXCEPT !.state = NotAuthenticated]
  /\ \E code \in {432, 535} : Answer(code)
  /\ UNCHANGED everAuth

\* PLAIN, with the credentials in the AUTH line or in the line that follows.
plain ==
  /\ \/ Ready /\ con.secure
     \/ link = "open" /\ con.state.tag = "Plain"
  /\ LoginFails \/ \E u \in Users : LoggedIn(u)
  /\ UNCHANGED <<out, accepted, epoch, refused, mailed, rcpted>>

\* A line that is not base64 leaves the dialogue where it is.
username ==
  /\ link = "open" /\ con.state.tag = "Username"
  /\ \/ Answer(535) /\ UNCHANGED con
     \/ \E u \in Users \cup {Nobody} :
          con' = [con EXCEPT !.state = Authenticating("Password", u)] /\ Answer(334)
     \/ Fail
  /\ UNCHANGED history

password ==
  /\ link = "open" /\ con.state.tag = "Password"
  /\ \/ Answer(454) /\ UNCHANGED <<con, everAuth>>
     \/ LoginFails
     \/ con.state.user # Nobody /\ LoggedIn(con.state.user)
     \/ Fail /\ UNCHANGED everAuth
  /\ UNCHANGED <<out, accepted, epoch, refused, mailed, rcpted>>

-----------------------------------------------------------------------------
(* DATA *)

\* DATA asks for no envelope; the user goes with the data.
DATA ==
  /\ Ready
  /\ con' = [con EXCEPT !.state = ReceivingData(con.state.user)]
  /\ Answer(354)
  /\ UNCHANGED history

\* Every line but ".", commands included, is part of the message.
DataLine ==
  /\ link = "open" /\ con.state.tag = "ReceivingData"
  /\ con' = [con EXCEPT !.state.data = IF @ < MaxLines THEN @ + 1 ELSE @]
  /\ reply' = 0
  /\ UNCHANGED <<link, port, history>>

EndOfData == link = "open" /\ con.state.tag = "ReceivingData"

Recipient == CHOOSE r \in con.receipts : TRUE
SomeRecipient == con.receipts # None /\ con.receipts # {}

\* The domain of the recipient is the second part of its address.
NoDomain == con.state.user # Nobody /\ SomeRecipient /\ Recipient \in Bare

\* The envelope has served its message.
UseUp == epoch < MaxEnvelopes /\ epoch' = epoch + 1

\* receipts = None; sender = None; the state from before DATA.
Reset(connection) ==
  /\ UseUp /\ refused' = FALSE
  /\ con' = [connection EXCEPT !.receipts = None,
                               !.state = IF @.user = Nobody THEN NotAuthenticated
                                         ELSE Authenticated(@.user)]
Bug_ResetEnvelope == Reset(con)
ResetEnvelope == Reset([con EXCEPT !.sender = Nobody])

Bug_HandOn(how) == UNCHANGED out
HandOn(how) ==
  out' = Append(out, [how |-> how, to |-> Recipient, user |-> con.state.user,
                      secure |-> con.secure, require_tls |-> con.require_tls,
                      asked |-> mailed.require_tls, again |-> refused,
                      current |-> {mailed.epoch, rcpted} = {epoch}])

\* "." before a RCPT, before a MAIL, or when storage, the database, Rspamd or a
\* parser reports an error.
DataFails ==
  /\ EndOfData /\ ~NoDomain
  /\ Fail
  /\ UNCHANGED history

\* An address without a domain and, where arithmetic is checked, an
\* authenticated user's message without a line make the handler panic.
DataPanics ==
  /\ EndOfData
  /\ NoDomain \/ (con.state.user # Nobody /\ con.receipts # None /\ con.state.data = 0)
  /\ Panic
  /\ UNCHANGED history

\* "RCPT TO:<>": nothing to do for any recipient, 250.
DataForNobody ==
  /\ EndOfData /\ con.receipts = {}
  /\ ResetEnvelope /\ Answer(250)
  /\ UNCHANGED <<out, accepted, mailed, rcpted, everAuth>>

\* Both MAIL and RCPT have been accepted, and the address can be used.
Complete == EndOfData /\ SomeRecipient /\ con.sender # Nobody /\ ~NoDomain

\* Rspamd rejects the message, for now or for good.
RspamdRejects ==
  /\ Complete
  /\ ResetEnvelope
  /\ \E code \in {550, 451} : Answer(code)
  /\ UNCHANGED <<out, accepted, mailed, rcpted, everAuth>>

\* An authenticated user's message goes into a maildir when the domain is the
\* server's, else into the queue; anybody else's goes into a maildir.
Destination ==
  IF con.state.user = Nobody THEN "inbound"
  ELSE IF Recipient \in Remote THEN "queued" ELSE "local"

\* The message is stored or queued, then acknowledged.
Accepted ==
  /\ Complete
  /\ HandOn(Destination)
  /\ ResetEnvelope /\ Answer(250) /\ accepted' = accepted + 1
  /\ UNCHANGED <<mailed, rcpted, everAuth>>

\* A message from another server fails DKIM or DMARC: the handler returns
\* before it resets anything.  The client has its answer, but the session still
\* receives the message, with its lines, sender and recipients; the next "."
\* judges it again.
InboundRejected ==
  /\ EndOfData /\ SomeRecipient /\ con.ehlo
  /\ con.state.user = Nobody
  /\ \E code \in {550, 451} : Answer(code)
  /\ UseUp /\ refused' = TRUE
  /\ UNCHANGED <<con, out, accepted, mailed, rcpted, everAuth>>

\* The message is stored or queued, but the client gets no 250: the record of a
\* local delivery cannot be written, or the connection breaks.
NotAcknowledged ==
  /\ Complete
  /\ HandOn(Destination)
  /\ link' = "closed" /\ reply' \in {0, 500}
  /\ UNCHANGED <<port, con, accepted, epoch, refused, mailed, rcpted, everAuth>>

-----------------------------------------------------------------------------
(* Specification *)

Init ==
  /\ link = "none" /\ port = 25 /\ con = New(FALSE, FALSE) /\ reply = 0
  /\ out = <<>> /\ accepted = 0 /\ epoch = 0 /\ refused = FALSE
  /\ mailed = [epoch |-> 0, require_tls |-> FALSE] /\ rcpted = 0 /\ everAuth = FALSE

\* What a line of the client sets off.
Command ==
  \/ QUIT \/ STARTTLS \/ NOOP \/ EHLO \/ RcptMalformed \/ AUTH \/ DATA
  \/ \E a \in Senders, b \in BOOLEAN : MAILFROM(a, b)
  \/ RCPTTO({}) \/ \E a \in Addresses : RCPTTO({a})
AuthLine == plain \/ username \/ password
Message ==
  \/ DataLine \/ DataFails \/ DataPanics \/ DataForNobody \/ RspamdRejects
  \/ Accepted \/ InboundRejected \/ NotAcknowledged

Next ==
  \/ \E p \in Ports, peer \in {587, 40000} : Accept(p, peer)
  \/ Disconnect \/ Command \/ AuthLine \/ Message

Spec == Init /\ [][Next]_vars

-----------------------------------------------------------------------------
(* Properties *)

\* Every variable has its type, and a user's name and the lines of a message
\* are kept only in the states that carry them.
TypeOK ==
  /\ link \in {"none", "open", "closed"} /\ port \in Ports
  /\ con \in Connection
  /\ con.state.tag = "NotAuthenticated" => con.state.user = Nobody
  /\ con.state.data > 0 => con.state.tag = "ReceivingData"
  /\ reply \in 0 .. 599
  /\ \A i \in DOMAIN out : out[i].how \in {"local", "queued", "inbound"} /\ out[i].to \in Addresses
  /\ accepted \in Nat /\ epoch \in 0 .. MaxEnvelopes
  /\ mailed \in [epoch : 0 .. MaxEnvelopes, require_tls : BOOLEAN]
  /\ rcpted \in 0 .. MaxEnvelopes /\ refused \in BOOLEAN /\ everAuth \in BOOLEAN

\* No open relay: a message goes into the queue for other servers only on
\* behalf of a user who logged in, and only over TLS (auth.rs, data.rs).
NoRelayWithoutAuth ==
  \A i \in DOMAIN out :
    out[i].how = "queued" => out[i].user \in Users /\ out[i].secure

\* A message that is stored or queued has the sender and the recipients that
\* MAIL and RCPT named after the message before it was acknowledged or refused,
\* whatever was rejected, logged in to or upgraded in between (mail.rs, rcpt.rs,
\* data.rs).  The one exception is what the code does after DKIM or DMARC refused
\* a message (data.rs:388-448): whatever the same DATA then hands on has the
\* refused envelope.  In either case it demands TLS if the last MAIL did; that it
\* demands TLS only then is not claimed, for require_tls is never cleared.
EnvelopeIsCurrent ==
  \A i \in DOMAIN out :
    /\ out[i].current \/ out[i].again
    /\ out[i].asked => out[i].require_tls

\* As long as nobody has logged in on the connection, a message is stored only
\* for accounts of the server, although DATA checks no address again.
InboundIsLocal ==
  ~everAuth => \A i \in DOMAIN out : out[i].how = "inbound" /\ out[i].to \in Users

\* Each acknowledged message was stored or queued, and only the last one of a
\* connection that broke may be stored or queued without being acknowledged.
AcknowledgedOnce ==
  /\ accepted <= Len(out)
  /\ Len(out) <= accepted + (IF link = "closed" THEN 1 ELSE 0)

=============================================================================
