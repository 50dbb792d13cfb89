-------------------------- MODULE SmtpSessionProofs --------------------------
(***************************************************************************)
(* Proofs about SmtpSession, for every set of accounts and addresses, any  *)
(* number of envelopes in a connection and of lines in a message.          *)
(***************************************************************************)
EXTENDS SmtpSession, SequenceTheorems, TLAPS

-----------------------------------------------------------------------------
(* The inductive invariant *)

Mail ==
  [how : {"local", "queued", "inbound"}, to : Addresses, user : Users \cup {Nobody},
   secure : BOOLEAN, require_tls : BOOLEAN, asked : BOOLEAN, again : BOOLEAN,
   current : BOOLEAN]

\* What was handed on is a sequence of mails.
TypeInv == TypeOK /\ out \in Seq(Mail)

\* A name in a state in which it counts is that of somebody who logged in, over
\* TLS; the dialogue of AUTH is only entered over TLS.
LoginInv ==
  /\ con.state.tag \in {"Authenticated", "ReceivingData"} /\ con.state.user # Nobody
       => con.secure /\ everAuth
  /\ con.state.tag = "Authenticated" => con.state.user # Nobody
  /\ con.state.tag \in {"Plain", "Username", "Password"} => con.secure

\* What there is of an envelope was named in this epoch, unless the message it
\* was for has been refused and is still being received.
EnvelopeInv ==
  /\ refused \/ con.sender = Nobody \/ mailed.epoch = epoch
  /\ refused \/ con.receipts = None \/ rcpted = epoch
  /\ mailed.require_tls => con.require_tls
  /\ link = "none" => ~con.require_tls

\* Without a login RCPT lets only accounts pass.
ReceiptsInv == everAuth \/ con.receipts = None \/ con.receipts \subseteq Users

\* A mail that a connection may hand on.
Proper(mail, auth) ==
  /\ mail.how = "queued" => mail.user \in Users /\ mail.secure
  /\ (mail.current \/ mail.again) /\ (mail.asked => mail.require_tls)
  /\ auth \/ (mail.how = "inbound" /\ mail.to \in Users)

OutInv == \A i \in 1 .. Len(out) : Proper(out[i], everAuth)

IInv == TypeInv /\ LoginInv /\ EnvelopeInv /\ ReceiptsInv /\ OutInv /\ AcknowledgedOnce

\* It says what the invariants of the module say.
LEMMA IInvImplies ==
  IInv => TypeOK /\ NoRelayWithoutAuth /\ EnvelopeIsCurrent /\ InboundIsLocal /\ AcknowledgedOnce
<1> SUFFICES ASSUME IInv
             PROVE TypeOK /\ NoRelayWithoutAuth /\ EnvelopeIsCurrent /\ InboundIsLocal /\ AcknowledgedOnce
  OBVIOUS
<1>1. TypeOK /\ out \in Seq(Mail) /\ accepted \in Nat
  BY DEF IInv, TypeInv, TypeOK
<1>2. DOMAIN out = 1 .. Len(out) /\ Len(out) \in Nat
  BY <1>1, LenProperties
<1>3. \A i \in DOMAIN out : Proper(out[i], everAuth)
  BY <1>2 DEF IInv, OutInv
<1>4. NoRelayWithoutAuth /\ EnvelopeIsCurrent /\ InboundIsLocal
  BY <1>3 DEF Proper, NoRelayWithoutAuth, EnvelopeIsCurrent, InboundIsLocal
<1>5. QED
  BY <1>1, <1>4 DEF IInv

-----------------------------------------------------------------------------
(* Connections *)

\* The connection after a change of its state.
LEMMA StateUpdate ==
  ASSUME NEW c \in Connection, NEW st \in State
  PROVE  /\ [c EXCEPT !.state = st] \in Connection
         /\ [c EXCEPT !.state = st].state = st
         /\ [c EXCEPT !.state = st].secure = c.secure
         /\ [c EXCEPT !.state = st].require_tls = c.require_tls
         /\ [c EXCEPT !.state = st].receipts = c.receipts
         /\ [c EXCEPT !.state = st].sender = c.sender
BY DEF Connection

\* The states a connection can be put into are states.
LEMMA States ==
  ASSUME NEW u \in Users \cup {Nobody}
  PROVE  /\ NotAuthenticated \in State /\ ReceivingData(u) \in State
         /\ Authenticated(u) \in State
         /\ \A step \in {"Plain", "Username", "Password"} : Authenticating(step, u) \in State
BY BoundAssumption DEF NotAuthenticated, ReceivingData, Authenticated, Authenticating, State

\* A connection begins with the type of one.
LEMMA NewType ==
  ASSUME NEW a \in BOOLEAN, NEW b \in BOOLEAN
  PROVE  New(a, b) \in Connection
<1>1. NotAuthenticated \in State
  BY States
<1>2. None \in Receipts
  BY DEF Receipts
<1>3. QED
  BY <1>1, <1>2 DEF New, Connection

\* The invariant holds before a client connects.
LEMMA InvInit == Init => IInv
<1> SUFFICES ASSUME Init PROVE IInv
  OBVIOUS
<1>1. con \in Connection
  BY NewType DEF Init
<1>2. out \in Seq(Mail) /\ Len(out) = 0
  BY EmptySeq DEF Init
<1>3. TypeInv
  <2>1. con.state = NotAuthenticated
    BY DEF Init, New
  <2>2. DOMAIN out = {}
    BY <1>2, LenProperties
  <2>3. mailed \in [epoch : 0 .. MaxEnvelopes, require_tls : BOOLEAN]
    BY BoundAssumption DEF Init
  <2>4. /\ link \in {"none", "open", "closed"} /\ port \in Ports /\ reply \in 0 .. 599
        /\ accepted \in Nat /\ epoch \in 0 .. MaxEnvelopes
        /\ rcpted \in 0 .. MaxEnvelopes
    BY BoundAssumption DEF Init, Ports
  <2>e. refused \in BOOLEAN /\ everAuth \in BOOLEAN
    BY DEF Init
  <2>5. con.state.user = Nobody /\ con.state.data = 0
    BY <2>1 DEF NotAuthenticated
  <2>6. QED
    BY <1>1, <1>2, <2>2, <2>3, <2>4, <2>e, <2>5 DEF TypeInv, TypeOK
<1>4. LoginInv /\ EnvelopeInv /\ ReceiptsInv /\ OutInv /\ AcknowledgedOnce
  BY <1>2 DEF Init, LoginInv, EnvelopeInv, ReceiptsInv, OutInv, AcknowledgedOnce, New, NotAuthenticated
<1>5. QED
  BY <1>3, <1>4 DEF IInv

-----------------------------------------------------------------------------
(* Steps of the connection, of the envelope and of authentication *)

\* A step that hands nothing on and acknowledges nothing that was, keeps the
\* invariant if it keeps what the invariant says of the connection.
LEMMA Quiet ==
  ASSUME IInv, UNCHANGED <<out, accepted>>,
         link' \in {link, "open", "closed"}, link # "closed",
         port' \in Ports, reply' \in 0 .. 599, epoch' \in 0 .. MaxEnvelopes,
         con' \in Connection,
         con'.state.tag = "NotAuthenticated" => con'.state.user = Nobody,
         con'.state.data > 0 => con'.state.tag = "ReceivingData",
         mailed' \in [epoch : 0 .. MaxEnvelopes, require_tls : BOOLEAN],
         rcpted' \in 0 .. MaxEnvelopes, refused' \in BOOLEAN, everAuth' \in BOOLEAN, everAuth => everAuth',
         LoginInv', EnvelopeInv', ReceiptsInv'
  PROVE  IInv'
<1>1. TypeInv'
  <2>1. /\ link' \in {"none", "open", "closed"} /\ accepted' \in Nat
        /\ out' \in Seq(Mail)
    BY DEF IInv, TypeInv, TypeOK
  <2>2. \A i \in DOMAIN out' : /\ out'[i].how \in {"local", "queued", "inbound"}
                               /\ out'[i].to \in Addresses
    BY DEF IInv, TypeInv, TypeOK
  <2>3. QED
    BY <2>1, <2>2 DEF TypeInv, TypeOK
<1>2. OutInv'
  BY DEF IInv, OutInv, Proper
<1>3. AcknowledgedOnce'
  <2>1. accepted \in Nat /\ Len(out) \in Nat
    BY LenProperties DEF IInv, TypeInv, TypeOK
  <2>2. QED
    BY <2>1 DEF IInv, AcknowledgedOnce
<1>4. QED
  BY <1>1, <1>2, <1>3 DEF IInv

\* In particular if it leaves the connection as it is and answers or ends it.
LEMMA Harmless ==
  ASSUME IInv, link # "closed", UNCHANGED <<con, port, history>>,
         link' \in {link, "closed"}, reply' \in 0 .. 599
  PROVE  IInv'
<1> USE DEF history
<1>1. TypeOK
  BY DEF IInv, TypeInv
<1>2. /\ con' \in Connection /\ port' \in Ports /\ epoch' \in 0 .. MaxEnvelopes
      /\ mailed' \in [epoch : 0 .. MaxEnvelopes, require_tls : BOOLEAN]
      /\ rcpted' \in 0 .. MaxEnvelopes
  BY <1>1 DEF TypeOK
<1>3. everAuth' \in BOOLEAN /\ everAuth' = everAuth
  BY <1>1 DEF TypeOK
<1>4. /\ con'.state.tag = "NotAuthenticated" => con'.state.user = Nobody
      /\ con'.state.data > 0 => con'.state.tag = "ReceivingData"
  BY <1>1 DEF TypeOK
<1>5. LoginInv' /\ EnvelopeInv' /\ ReceiptsInv'
  BY DEF IInv, LoginInv, EnvelopeInv, ReceiptsInv
<1>r. refused' = refused /\ refused' \in BOOLEAN
  BY <1>1 DEF TypeOK
<1>6. QED
  BY <1>r, <1>2, <1>3, <1>4, <1>5, Quiet

\* A step that only changes the state of the connection.
LEMMA StateStep ==
  ASSUME IInv, link = "open", NEW st \in State,
         con' = [con EXCEPT !.state = st], UNCHANGED <<link, port, out, accepted, epoch, refused, mailed, rcpted>>,
         reply' \in 0 .. 599, everAuth' \in BOOLEAN, everAuth => everAuth',
         st.tag = "NotAuthenticated" => st.user = Nobody,
         st.data > 0 => st.tag = "ReceivingData",
         st.tag \in {"Authenticated", "ReceivingData"} /\ st.user # Nobody => con.secure /\ everAuth',
         st.tag = "Authenticated" => st.user # Nobody,
         st.tag \in {"Plain", "Username", "Password"} => con.secure
  PROVE  IInv'
<1>1. TypeOK
  BY DEF IInv, TypeInv
<1>2. con \in Connection
  BY <1>1 DEF TypeOK
<1>3. /\ con' \in Connection /\ con'.state = st /\ con'.secure = con.secure
      /\ con'.require_tls = con.require_tls /\ con'.receipts = con.receipts
      /\ con'.sender = con.sender
  BY <1>2, StateUpdate
<1>4. /\ port' \in Ports /\ epoch' \in 0 .. MaxEnvelopes
      /\ mailed' \in [epoch : 0 .. MaxEnvelopes, require_tls : BOOLEAN]
      /\ rcpted' \in 0 .. MaxEnvelopes
  BY <1>1 DEF TypeOK
<1>5. LoginInv'
  BY <1>3 DEF LoginInv
<1>6. EnvelopeInv'
  BY <1>3 DEF IInv, EnvelopeInv
<1>7. ReceiptsInv'
  BY <1>3 DEF IInv, ReceiptsInv
<1>r. refused' = refused /\ refused' \in BOOLEAN
  BY <1>1 DEF TypeOK
<1>8. QED
  BY <1>r, <1>3, <1>4, <1>5, <1>6, <1>7, Quiet

-----------------------------------------------------------------------------
(* Every step but those that hand a message on *)

\* A connection begins without an envelope and without a login.
LEMMA AcceptStep ==
  ASSUME IInv, NEW p \in Ports, NEW peer \in {587, 40000}, Accept(p, peer)
  PROVE  IInv'
<1>1. TypeOK /\ EnvelopeInv
  BY DEF IInv, TypeInv
<1>2. NotAuthenticated \in State /\ None \in Receipts
  BY States DEF Receipts
<1>3. con' \in Connection
  <2>1. CASE p = 465
    BY <1>2, <2>1 DEF Accept, New, Connection
  <2>2. CASE p # 465
    BY <1>2, <2>2 DEF Accept, New, Connection
  <2>3. QED
    BY <2>1, <2>2
<1>4. /\ con'.state = NotAuthenticated /\ con'.receipts = None /\ con'.sender = Nobody
      /\ con'.require_tls = FALSE
  BY DEF Accept, New
<1>5. con'.state.tag = "NotAuthenticated" /\ con'.state.user = Nobody /\ con'.state.data = 0
  BY <1>4 DEF NotAuthenticated
<1>6. /\ link' = "open" /\ link = "none" /\ port' \in Ports /\ reply' \in 0 .. 599
      /\ UNCHANGED <<out, accepted, epoch, refused, mailed, rcpted, everAuth>>
  BY DEF Accept, history
<1>7. LoginInv'
  BY <1>5 DEF LoginInv
<1>8. EnvelopeInv'
  <2>1. ~con.require_tls
    BY <1>1, <1>6 DEF EnvelopeInv
  <2>2. QED
    BY <1>1, <1>4, <1>6, <2>1 DEF EnvelopeInv
<1>9. ReceiptsInv'
  BY <1>4 DEF ReceiptsInv
<1>10. /\ epoch' \in 0 .. MaxEnvelopes /\ rcpted' \in 0 .. MaxEnvelopes
       /\ mailed' \in [epoch : 0 .. MaxEnvelopes, require_tls : BOOLEAN]
  BY <1>1, <1>6 DEF TypeOK
<1>11. everAuth' \in BOOLEAN /\ everAuth' = everAuth
  BY <1>1, <1>6 DEF TypeOK
<1>12. link' \in {link, "open", "closed"} /\ link # "closed" /\ UNCHANGED <<out, accepted>>
  BY <1>6
<1>13. /\ con'.state.tag = "NotAuthenticated" => con'.state.user = Nobody
       /\ con'.state.data > 0 => con'.state.tag = "ReceivingData"
  BY <1>5
<1>r. refused' = refused /\ refused' \in BOOLEAN
  BY <1>1, <1>6 DEF TypeOK
<1>14. QED
  BY <1>r, <1>3, <1>6, <1>7, <1>8, <1>9, <1>10, <1>11, <1>12, <1>13, Quiet

\* A step that changes other fields of the connection than its state.
LEMMA FieldStep ==
  ASSUME IInv, link = "open", UNCHANGED <<link, port, out, accepted, epoch, refused, everAuth>>,
         reply' \in 0 .. 599, con' \in Connection, con'.state = con.state,
         con.secure => con'.secure,
         mailed' \in [epoch : 0 .. MaxEnvelopes, require_tls : BOOLEAN],
         rcpted' \in 0 .. MaxEnvelopes,
         EnvelopeInv', ReceiptsInv'
  PROVE  IInv'
<1>1. TypeOK
  BY DEF IInv, TypeInv
<1>2. LoginInv'
  BY DEF IInv, LoginInv
<1>3. port' \in Ports /\ epoch' \in 0 .. MaxEnvelopes
  BY <1>1 DEF TypeOK
<1>4. /\ con'.state.tag = "NotAuthenticated" => con'.state.user = Nobody
      /\ con'.state.data > 0 => con'.state.tag = "ReceivingData"
  BY <1>1 DEF TypeOK
<1>5. everAuth' \in BOOLEAN /\ everAuth' = everAuth
  BY <1>1 DEF TypeOK
<1>r. refused' = refused /\ refused' \in BOOLEAN
  BY <1>1 DEF TypeOK
<1>6. QED
  BY <1>r, <1>2, <1>3, <1>4, <1>5, Quiet

\* STARTTLS keeps the session and makes it secure.
LEMMA StarttlsStep ==
  ASSUME IInv, STARTTLS
  PROVE  IInv'
<1>1. TypeOK /\ con \in Connection
  BY DEF IInv, TypeInv, TypeOK
<1>2. CASE con.secure
  BY <1>2, Harmless DEF STARTTLS, Ready, Answer
<1>3. CASE ~con.secure
  <2>1. /\ link = "open" /\ con' = [con EXCEPT !.secure = TRUE] /\ reply' \in 0 .. 599
        /\ UNCHANGED <<link, port, history>>
    BY <1>3 DEF STARTTLS, Ready, Answer
  <2>2. /\ con' \in Connection /\ con'.state = con.state /\ con'.secure = TRUE
        /\ con'.receipts = con.receipts /\ con'.sender = con.sender
        /\ con'.require_tls = con.require_tls
    BY <1>1, <2>1 DEF Connection
  <2>3. /\ mailed' \in [epoch : 0 .. MaxEnvelopes, require_tls : BOOLEAN]
        /\ rcpted' \in 0 .. MaxEnvelopes
    BY <1>1, <2>1 DEF TypeOK, history
  <2>4. EnvelopeInv' /\ ReceiptsInv'
    BY <2>1, <2>2 DEF IInv, EnvelopeInv, ReceiptsInv, history
  <2>5. QED
    BY <2>1, <2>2, <2>3, <2>4, FieldStep DEF history
<1>4. QED
  BY <1>2, <1>3

\* EHLO only sets the name the client gave.
LEMMA EhloStep ==
  ASSUME IInv, EHLO
  PROVE  IInv'
<1>1. TypeOK /\ con \in Connection
  BY DEF IInv, TypeInv, TypeOK
<1>2. CASE Answer(250) /\ con' = [con EXCEPT !.ehlo = TRUE]
  <2>1. /\ link = "open" /\ reply' \in 0 .. 599 /\ UNCHANGED <<link, port, history>>
    BY <1>2 DEF EHLO, Ready, Answer
  <2>2. /\ con' \in Connection /\ con'.state = con.state /\ con'.secure = con.secure
        /\ con'.receipts = con.receipts /\ con'.sender = con.sender
        /\ con'.require_tls = con.require_tls
    BY <1>1, <1>2 DEF Connection
  <2>3. /\ mailed' \in [epoch : 0 .. MaxEnvelopes, require_tls : BOOLEAN]
        /\ rcpted' \in 0 .. MaxEnvelopes
    BY <1>1, <2>1 DEF TypeOK, history
  <2>4. EnvelopeInv' /\ ReceiptsInv'
    BY <2>1, <2>2 DEF IInv, EnvelopeInv, ReceiptsInv, history
  <2>5. QED
    BY <2>1, <2>2, <2>3, <2>4, FieldStep DEF history
<1>3. CASE (Answer(550) /\ UNCHANGED con) \/ Fail
  BY <1>3, Harmless DEF EHLO, Ready, Answer, Fail
<1>4. QED
  BY <1>2, <1>3 DEF EHLO

\* MAIL names a sender, and the epoch knows it.
LEMMA MailStep ==
  ASSUME IInv, NEW sender \in Addresses, NEW require_tls \in BOOLEAN,
         MAILFROM(sender, require_tls)
  PROVE  IInv'
<1>1. TypeOK /\ con \in Connection /\ EnvelopeInv /\ ReceiptsInv
  BY DEF IInv, TypeInv, TypeOK
<1> DEFINE Taken ==
      /\ Answer(250)
      /\ con' = [con EXCEPT !.sender = sender, !.require_tls = @ \/ require_tls]
      /\ mailed' = [epoch |-> epoch,
                    require_tls |-> require_tls \/ (mailed.epoch = epoch /\ mailed.require_tls)]
<1>2. CASE Taken
  <2>1. /\ link = "open" /\ reply' \in 0 .. 599
        /\ UNCHANGED <<link, port, out, accepted, epoch, refused, rcpted, everAuth>>
    BY <1>2 DEF MAILFROM, Ready, Answer
  <2>2. con.require_tls \in BOOLEAN /\ (con.require_tls \/ require_tls) \in BOOLEAN
    BY <1>1 DEF Connection
  <2>3. /\ con' \in Connection /\ con'.state = con.state /\ con'.secure = con.secure
        /\ con'.receipts = con.receipts /\ con'.sender = sender
        /\ con'.require_tls = (con.require_tls \/ require_tls)
    BY <1>1, <1>2, <2>2 DEF Connection
  <2>4. epoch \in 0 .. MaxEnvelopes /\ rcpted' \in 0 .. MaxEnvelopes
    BY <1>1, <2>1 DEF TypeOK
  <2>5. mailed' \in [epoch : 0 .. MaxEnvelopes, require_tls : BOOLEAN]
    BY <1>2, <2>4
  <2>6. /\ mailed'.epoch = epoch'
        /\ mailed'.require_tls = (require_tls \/ (mailed.epoch = epoch /\ mailed.require_tls))
    BY <1>2, <2>1
  <2>7. EnvelopeInv'
    BY <1>1, <2>1, <2>3, <2>4, <2>6, BoundAssumption DEF EnvelopeInv
  <2>8. ReceiptsInv'
    BY <1>1, <2>1, <2>3 DEF ReceiptsInv
  <2>9. QED
    BY <2>1, <2>3, <2>4, <2>5, <2>7, <2>8, FieldStep
<1>3. CASE ~Taken
  <2>1. /\ link = "open" /\ UNCHANGED <<con, port, history>>
        /\ link' \in {link, "closed"} /\ reply' \in 0 .. 599
    BY <1>3 DEF MAILFROM, Ready, Answer, Fail, Panic, history
  <2>2. QED
    BY <2>1, Harmless
<1>4. QED
  BY <1>2, <1>3

\* RCPT lets only accounts pass before a login.
LEMMA RcptStep ==
  ASSUME IInv, NEW receipts \in SUBSET Addresses, RCPTTO(receipts)
  PROVE  IInv'
<1>1. TypeOK /\ con \in Connection /\ EnvelopeInv /\ LoginInv
  BY DEF IInv, TypeInv, TypeOK
<1>2. CASE con.state.tag = "NotAuthenticated" /\ \E r \in receipts : r \notin Users
  <2>1. /\ link = "open" /\ UNCHANGED <<con, port, history, link>> /\ reply' \in 0 .. 599
    BY <1>2 DEF RCPTTO, Ready, Answer, history
  <2>2. QED
    BY <2>1, Harmless
<1>3. CASE ~(con.state.tag = "NotAuthenticated" /\ \E r \in receipts : r \notin Users)
  <2>1. /\ link = "open" /\ reply' \in 0 .. 599 /\ rcpted' = epoch
        /\ con' = [con EXCEPT !.receipts = receipts]
        /\ con.state.tag \in {"NotAuthenticated", "Authenticated"}
        /\ UNCHANGED <<link, port, out, accepted, epoch, refused, mailed, everAuth>>
    BY <1>3 DEF RCPTTO, Ready, Answer
  <2>2. /\ con' \in Connection /\ con'.state = con.state /\ con'.secure = con.secure
        /\ con'.receipts = receipts /\ con'.sender = con.sender
        /\ con'.require_tls = con.require_tls
    BY <1>1, <2>1 DEF Connection, Receipts
  <2>3. /\ mailed' \in [epoch : 0 .. MaxEnvelopes, require_tls : BOOLEAN]
        /\ rcpted' \in 0 .. MaxEnvelopes
    BY <1>1, <2>1 DEF TypeOK
  <2>4. EnvelopeInv'
    BY <1>1, <2>1, <2>2 DEF EnvelopeInv
  <2>5. ReceiptsInv'
    <3>1. CASE con.state.tag = "NotAuthenticated"
      BY <1>3, <2>2, <3>1 DEF ReceiptsInv
    <3>2. CASE con.state.tag = "Authenticated"
      BY <1>1, <2>1, <3>2 DEF LoginInv, ReceiptsInv
    <3>3. QED
      BY <2>1, <3>1, <3>2
  <2>6. QED
    BY <2>1, <2>2, <2>3, <2>4, <2>5, FieldStep
<1>4. QED
  BY <1>2, <1>3

-----------------------------------------------------------------------------
(* Authentication *)

\* AUTH enters its dialogue only over TLS.
LEMMA AuthStep ==
  ASSUME IInv, AUTH
  PROVE  IInv'
<1>1. TypeOK
  BY DEF IInv, TypeInv
<1>2. CASE \E step \in {"Username", "Plain"} :
             con' = [con EXCEPT !.state = Authenticating(step, Nobody)] /\ con.secure /\ Answer(334)
  <2>1. PICK step \in {"Username", "Plain"} :
          con' = [con EXCEPT !.state = Authenticating(step, Nobody)] /\ con.secure /\ Answer(334)
    BY <1>2
  <2> DEFINE st == Authenticating(step, Nobody)
  <2>2. st \in State /\ st.tag \in {"Plain", "Username"} /\ st.data = 0
    BY States DEF Authenticating
  <2>3. /\ link = "open" /\ reply' \in 0 .. 599 /\ everAuth' = everAuth
        /\ UNCHANGED <<link, port, out, accepted, epoch, refused, mailed, rcpted>>
    BY <2>1 DEF AUTH, Ready, Answer, history
  <2>4. everAuth' \in BOOLEAN
    BY <1>1, <2>3 DEF TypeOK
  <2> HIDE DEF st
  <2>5. con' = [con EXCEPT !.state = st]
    BY <2>1 DEF st
  <2>6. QED
    BY <2>1, <2>2, <2>3, <2>4, <2>5, StateStep
<1>3. CASE UNCHANGED con
  BY <1>3, Harmless DEF AUTH, Ready, Answer
<1>4. QED
  BY <1>2, <1>3 DEF AUTH

\* Where the right credentials can be given, the connection is secure.
LEMMA LoggedInStep ==
  ASSUME IInv, link = "open", con.secure, NEW u \in Users, LoggedIn(u),
         UNCHANGED <<out, accepted, epoch, refused, mailed, rcpted>>
  PROVE  IInv'
<1> DEFINE st == Authenticated(u)
<1>1. st \in State /\ st.tag = "Authenticated" /\ st.user = u /\ st.data = 0
  BY States DEF Authenticated
<1>2. u # Nobody
  BY AddressAssumption DEF Addresses
<1>3. con' = [con EXCEPT !.state = st] /\ reply' \in 0 .. 599 /\ UNCHANGED <<link, port>>
  BY DEF LoggedIn, Answer
<1>4. everAuth'
  BY DEF LoggedIn
<1>5. everAuth' \in BOOLEAN
  BY DEF LoggedIn
<1> HIDE DEF st
<1>6. QED
  BY <1>1, <1>2, <1>3, <1>4, <1>5, StateStep

\* After wrong credentials nobody is logged in.
LEMMA LoginFailsStep ==
  ASSUME IInv, link = "open", LoginFails,
         UNCHANGED <<out, accepted, epoch, refused, mailed, rcpted>>
  PROVE  IInv'
<1> DEFINE st == NotAuthenticated
<1>1. st \in State /\ st.tag = "NotAuthenticated" /\ st.user = Nobody /\ st.data = 0
  BY States DEF NotAuthenticated
<1>2. con' = [con EXCEPT !.state = st] /\ reply' \in 0 .. 599 /\ UNCHANGED <<link, port>>
  BY DEF LoginFails, Answer
<1>3. everAuth' = everAuth /\ everAuth' \in BOOLEAN
  BY DEF LoginFails, IInv, TypeInv, TypeOK
<1> HIDE DEF st
<1>4. QED
  BY <1>1, <1>2, <1>3, StateStep

\* PLAIN logs in or does not.
LEMMA PlainStep ==
  ASSUME IInv, plain
  PROVE  IInv'
<1>1. link = "open" /\ con.secure /\ UNCHANGED <<out, accepted, epoch, refused, mailed, rcpted>>
  BY DEF plain, Ready, IInv, LoginInv
<1>2. CASE LoginFails
  BY <1>1, <1>2, LoginFailsStep
<1>3. CASE \E u \in Users : LoggedIn(u)
  BY <1>1, <1>3, LoggedInStep
<1>4. QED
  BY <1>2, <1>3 DEF plain

\* The name of the LOGIN dialogue is no login yet.
LEMMA UsernameStep ==
  ASSUME IInv, username
  PROVE  IInv'
<1>1. TypeOK
  BY DEF IInv, TypeInv
<1>2. link = "open" /\ con.secure /\ UNCHANGED history
  BY DEF username, IInv, LoginInv
<1>3. CASE \E u \in Users \cup {Nobody} :
             con' = [con EXCEPT !.state = Authenticating("Password", u)] /\ Answer(334)
  <2>1. PICK u \in Users \cup {Nobody} :
          con' = [con EXCEPT !.state = Authenticating("Password", u)] /\ Answer(334)
    BY <1>3
  <2> DEFINE st == Authenticating("Password", u)
  <2>2. st \in State /\ st.tag = "Password" /\ st.data = 0
    BY States DEF Authenticating
  <2>3. /\ reply' \in 0 .. 599 /\ everAuth' = everAuth
        /\ UNCHANGED <<link, port, out, accepted, epoch, refused, mailed, rcpted>>
    BY <1>2, <2>1 DEF Answer, history
  <2>4. everAuth' \in BOOLEAN
    BY <1>1, <2>3 DEF TypeOK
  <2> HIDE DEF st
  <2>5. con' = [con EXCEPT !.state = st]
    BY <2>1 DEF st
  <2>6. QED
    BY <1>2, <2>2, <2>3, <2>4, <2>5, StateStep
<1>4. CASE (Answer(535) /\ UNCHANGED con) \/ Fail
  BY <1>2, <1>4, Harmless DEF Answer, Fail
<1>5. QED
  BY <1>3, <1>4 DEF username

\* The password of the LOGIN dialogue decides.
LEMMA PasswordStep ==
  ASSUME IInv, password
  PROVE  IInv'
<1>1. TypeOK
  BY DEF IInv, TypeInv
<1>2. /\ link = "open" /\ con.secure
      /\ UNCHANGED <<out, accepted, epoch, refused, mailed, rcpted>>
  BY DEF password, IInv, LoginInv
<1>3. CASE LoginFails
  BY <1>2, <1>3, LoginFailsStep
<1>4. CASE con.state.user # Nobody /\ LoggedIn(con.state.user)
  <2>1. con.state.user \in Users
    BY <1>1, <1>4 DEF TypeOK, Connection, State
  <2>2. QED
    BY <1>2, <1>4, <2>1, LoggedInStep
<1>5. CASE (Answer(454) /\ UNCHANGED <<con, everAuth>>) \/ (Fail /\ UNCHANGED everAuth)
  BY <1>2, <1>5, Harmless DEF Answer, Fail, history
<1>6. QED
  BY <1>3, <1>4, <1>5 DEF password

-----------------------------------------------------------------------------
(* Messages *)

\* DATA takes the user along.
LEMMA DataStep ==
  ASSUME IInv, DATA
  PROVE  IInv'
<1>1. TypeOK /\ LoginInv
  BY DEF IInv, TypeInv
<1>2. con.state \in State
  BY <1>1 DEF TypeOK, Connection
<1> DEFINE st == ReceivingData(con.state.user)
<1>3. /\ link = "open" /\ con' = [con EXCEPT !.state = st] /\ reply' \in 0 .. 599
      /\ con.state.tag \in {"NotAuthenticated", "Authenticated"}
      /\ UNCHANGED <<link, port, out, accepted, epoch, refused, mailed, rcpted>>
  BY DEF DATA, Ready, Answer, history
<1>4. everAuth' \in BOOLEAN /\ everAuth' = everAuth
  BY <1>1 DEF DATA, history, TypeOK
<1>5. con.state.user \in Users \cup {Nobody}
  BY <1>2 DEF State
<1>6. st \in State /\ st.tag = "ReceivingData" /\ st.user = con.state.user
  BY <1>5, States DEF ReceivingData
<1>7. st.user # Nobody => con.secure /\ everAuth
  BY <1>1, <1>3, <1>6 DEF TypeOK, LoginInv
<1> HIDE DEF st
<1>8. QED
  BY <1>3, <1>4, <1>6, <1>7, StateStep

\* A line of the message changes nothing but their number.
LEMMA DataLineStep ==
  ASSUME IInv, DataLine
  PROVE  IInv'
<1>1. TypeOK /\ LoginInv
  BY DEF IInv, TypeInv
<1>2. con.state \in State
  BY <1>1 DEF TypeOK, Connection
<1> DEFINE n  == IF con.state.data < MaxLines THEN con.state.data + 1 ELSE con.state.data
           st == [con.state EXCEPT !.data = n]
<1>3. /\ link = "open" /\ con' = [con EXCEPT !.state = st] /\ reply' \in 0 .. 599
      /\ con.state.tag = "ReceivingData"
      /\ UNCHANGED <<link, port, out, accepted, epoch, refused, mailed, rcpted>>
  BY DEF DataLine, history
<1>4. everAuth' \in BOOLEAN /\ everAuth' = everAuth
  BY <1>1 DEF DataLine, history, TypeOK
<1>5. n \in 0 .. MaxLines
  BY <1>2, BoundAssumption DEF State
<1> HIDE DEF n
<1>6. st \in State /\ st.tag = "ReceivingData" /\ st.user = con.state.user
  BY <1>2, <1>3, <1>5 DEF State
<1>7. st.user # Nobody => con.secure /\ everAuth
  BY <1>1, <1>3, <1>6 DEF LoginInv
<1> HIDE DEF st
<1>8. QED
  BY <1>3, <1>4, <1>6, <1>7, StateStep

\* Resetting the envelope starts an epoch in which nothing has been named.
LEMMA ResetFacts ==
  ASSUME IInv, EndOfData, ResetEnvelope, link' = "open", everAuth' = everAuth,
         UNCHANGED <<mailed, rcpted>>
  PROVE  /\ con' \in Connection
         /\ con'.state.tag = "NotAuthenticated" => con'.state.user = Nobody
         /\ con'.state.data > 0 => con'.state.tag = "ReceivingData"
         /\ epoch' \in 0 .. MaxEnvelopes
         /\ mailed' \in [epoch : 0 .. MaxEnvelopes, require_tls : BOOLEAN]
         /\ rcpted' \in 0 .. MaxEnvelopes
         /\ LoginInv' /\ EnvelopeInv' /\ ReceiptsInv'
<1>1. TypeOK /\ LoginInv /\ EnvelopeInv
  BY DEF IInv, TypeInv
<1>2. con \in Connection /\ con.state \in State /\ con.state.user \in Users \cup {Nobody}
  BY <1>1 DEF TypeOK, Connection, State
<1> DEFINE st == IF con.state.user = Nobody THEN NotAuthenticated
                 ELSE Authenticated(con.state.user)
<1>3. st \in State /\ st.data = 0 /\ st.user = con.state.user
      /\ st.tag = (IF con.state.user = Nobody THEN "NotAuthenticated" ELSE "Authenticated")
  BY <1>2, States DEF Authenticated, NotAuthenticated
<1>4. con' = [con EXCEPT !.sender = Nobody, !.receipts = None, !.state = st]
  BY <1>2 DEF ResetEnvelope, Reset, Connection
<1> HIDE DEF st
<1>5. /\ con' \in Connection /\ con'.state = st /\ con'.secure = con.secure
      /\ con'.receipts = None /\ con'.sender = Nobody /\ con'.require_tls = con.require_tls
  BY <1>2, <1>3, <1>4 DEF Connection, Receipts
<1>6. epoch' = epoch + 1 /\ epoch' \in 0 .. MaxEnvelopes /\ epoch \in Nat
  BY <1>1, BoundAssumption DEF ResetEnvelope, Reset, UseUp, TypeOK
<1>7. /\ mailed' \in [epoch : 0 .. MaxEnvelopes, require_tls : BOOLEAN]
      /\ rcpted' \in 0 .. MaxEnvelopes
  BY <1>1 DEF TypeOK
<1>8. LoginInv'
  BY <1>1, <1>3, <1>5 DEF LoginInv, EndOfData
<1>9. EnvelopeInv'
  BY <1>1, <1>5 DEF EnvelopeInv, EndOfData
<1>10. ReceiptsInv'
  BY <1>5 DEF ReceiptsInv
<1>11. QED
  BY <1>3, <1>5, <1>6, <1>7, <1>8, <1>9, <1>10

\* What is handed on is a proper mail.
LEMMA HandOnFacts ==
  ASSUME IInv, Complete, HandOn(Destination), everAuth' = everAuth
  PROVE  out' \in Seq(Mail) /\ Len(out') = Len(out) + 1 /\ OutInv'
<1> DEFINE mail == [how |-> Destination, to |-> Recipient, user |-> con.state.user,
                    secure |-> con.secure, require_tls |-> con.require_tls,
                    asked |-> mailed.require_tls, again |-> refused,
                    current |-> {mailed.epoch, rcpted} = {epoch}]
<1>1. TypeOK /\ out \in Seq(Mail) /\ LoginInv /\ EnvelopeInv /\ ReceiptsInv /\ OutInv
  BY DEF IInv, TypeInv
<1>2. /\ con \in Connection /\ con.state.user \in Users \cup {Nobody}
      /\ con.secure \in BOOLEAN /\ con.require_tls \in BOOLEAN
      /\ con.receipts \in Receipts /\ mailed.require_tls \in BOOLEAN /\ refused \in BOOLEAN
  BY <1>1 DEF TypeOK, Connection, State
<1>3. con.state.tag = "ReceivingData" /\ con.receipts # None /\ con.receipts # {} /\ con.sender # Nobody
  BY DEF Complete, EndOfData, SomeRecipient
<1>4. Recipient \in con.receipts /\ con.receipts \subseteq Addresses
  BY <1>2, <1>3 DEF Recipient, Receipts
<1>5. /\ refused \/ (mailed.epoch = epoch /\ rcpted = epoch)
      /\ mailed.require_tls => con.require_tls
  BY <1>1, <1>3 DEF EnvelopeInv
<1>6. /\ Destination \in {"local", "queued", "inbound"}
      /\ con.state.user = Nobody => Destination = "inbound"
      /\ con.state.user # Nobody => Destination # "inbound"
  BY DEF Destination
<1>7. con.state.user # Nobody => con.secure /\ everAuth /\ con.state.user \in Users
  BY <1>1, <1>2, <1>3 DEF LoginInv
<1>8. everAuth \/ Recipient \in Users
  BY <1>1, <1>3, <1>4 DEF ReceiptsInv
<1>9. refused \/ {mailed.epoch, rcpted} = {epoch}
  BY <1>5
<1>10. mail \in Mail
  <2> DEFINE d == Destination
             r == Recipient
             c == {mailed.epoch, rcpted} = {epoch}
  <2>1. d \in {"local", "queued", "inbound"} /\ r \in Addresses /\ c \in BOOLEAN
    BY <1>4, <1>6
  <2> HIDE DEF d, r, c
  <2>2. [how |-> d, to |-> r, user |-> con.state.user, secure |-> con.secure,
         require_tls |-> con.require_tls, asked |-> mailed.require_tls, again |-> refused, current |-> c] \in Mail
    BY <1>2, <2>1 DEF Mail
  <2>3. QED
    BY <2>2 DEF d, r, c
<1>11. Proper(mail, everAuth)
  <2>1. mail.how = "queued" => mail.user \in Users /\ mail.secure
    BY <1>6, <1>7
  <2>2. (mail.current \/ mail.again) /\ (mail.asked => mail.require_tls)
    BY <1>5, <1>9
  <2>3. everAuth \/ (mail.how = "inbound" /\ mail.to \in Users)
    BY <1>6, <1>7, <1>8
  <2> HIDE DEF mail
  <2>4. QED
    BY <2>1, <2>2, <2>3 DEF Proper
<1>12. out' = Append(out, mail)
  BY DEF HandOn
<1> HIDE DEF mail
<1>13. /\ out' \in Seq(Mail) /\ Len(out') = Len(out) + 1
       /\ \A i \in 1 .. Len(out) : out'[i] = out[i]
       /\ out'[Len(out) + 1] = mail
  BY <1>1, <1>10, <1>12, AppendProperties
<1>14. OutInv'
  <2> SUFFICES ASSUME NEW i \in 1 .. Len(out')
               PROVE  Proper(out'[i], everAuth)
    BY DEF OutInv, Proper
  <2>1. Len(out) \in Nat
    BY <1>1, LenProperties
  <2>2. CASE i = Len(out) + 1
    BY <1>11, <1>13, <2>2
  <2>3. CASE i \in 1 .. Len(out)
    BY <1>1, <1>13, <2>3 DEF OutInv
  <2>4. QED
    BY <1>13, <2>1, <2>2, <2>3
<1>15. QED
  BY <1>13, <1>14

\* The type of a sequence of mails, index by index.
LEMMA MailsType ==
  ASSUME NEW q \in Seq(Mail)
  PROVE  \A i \in DOMAIN q : q[i].how \in {"local", "queued", "inbound"} /\ q[i].to \in Addresses
<1> SUFFICES ASSUME NEW i \in DOMAIN q
             PROVE  q[i].how \in {"local", "queued", "inbound"} /\ q[i].to \in Addresses
  OBVIOUS
<1>1. i \in 1 .. Len(q)
  BY LenProperties
<1>2. q[i] \in Mail
  BY <1>1, ElementOfSeq
<1>3. QED
  BY <1>2 DEF Mail

\* The message is gone and the envelope reset, without anything handed on.
LEMMA TakenOffStep ==
  ASSUME IInv, EndOfData, ResetEnvelope, reply' \in 0 .. 599,
         UNCHANGED <<link, port, out, accepted, mailed, rcpted, everAuth>>
  PROVE  IInv'
<1>1. TypeOK
  BY DEF IInv, TypeInv
<1>2. link' = "open" /\ link # "closed" /\ port' \in Ports /\ everAuth' = everAuth
  BY <1>1 DEF EndOfData, TypeOK
<1>3. everAuth' \in BOOLEAN
  BY <1>1, <1>2 DEF TypeOK
<1>r. refused' \in BOOLEAN
  BY DEF ResetEnvelope, Reset
<1>4. QED
  BY <1>r, <1>2, <1>3, ResetFacts, Quiet

\* A refused message stays with its envelope, which has been used up.
LEMMA InboundRejectedStep ==
  ASSUME IInv, InboundRejected
  PROVE  IInv'
<1>1. TypeOK /\ LoginInv /\ EnvelopeInv /\ ReceiptsInv
  BY DEF IInv, TypeInv
<1>2. /\ link = "open" /\ reply' \in 0 .. 599 /\ refused' = TRUE /\ epoch' = epoch + 1
      /\ epoch < MaxEnvelopes
      /\ UNCHANGED <<link, port, con, out, accepted, mailed, rcpted, everAuth>>
  BY DEF InboundRejected, EndOfData, Answer, UseUp
<1>3. /\ con' \in Connection /\ port' \in Ports /\ epoch' \in 0 .. MaxEnvelopes
      /\ mailed' \in [epoch : 0 .. MaxEnvelopes, require_tls : BOOLEAN]
      /\ rcpted' \in 0 .. MaxEnvelopes
  BY <1>1, <1>2, BoundAssumption DEF TypeOK
<1>4. /\ con'.state.tag = "NotAuthenticated" => con'.state.user = Nobody
      /\ con'.state.data > 0 => con'.state.tag = "ReceivingData"
  BY <1>1, <1>2 DEF TypeOK
<1>5. everAuth' = everAuth /\ everAuth' \in BOOLEAN /\ refused' \in BOOLEAN
  BY <1>1, <1>2 DEF TypeOK
<1>6. LoginInv' /\ EnvelopeInv' /\ ReceiptsInv'
  BY <1>1, <1>2 DEF LoginInv, EnvelopeInv, ReceiptsInv
<1>7. QED
  BY <1>2, <1>3, <1>4, <1>5, <1>6, Quiet

\* A message is handed on and acknowledged, and the envelope reset.
LEMMA AcceptedStep ==
  ASSUME IInv, Accepted
  PROVE  IInv'
<1>1. /\ TypeOK /\ out \in Seq(Mail) /\ AcknowledgedOnce
      /\ accepted \in Nat /\ Len(out) \in Nat
  BY LenProperties DEF IInv, TypeInv, TypeOK
<1>2. /\ Complete /\ EndOfData /\ HandOn(Destination) /\ ResetEnvelope /\ link' = "open"
      /\ link = "open" /\ accepted' = accepted + 1 /\ reply' = 250
      /\ UNCHANGED <<port, mailed, rcpted, everAuth>>
  BY DEF Accepted, Complete, EndOfData, Answer
<1>3. everAuth' = everAuth /\ everAuth' \in BOOLEAN
  BY <1>1, <1>2 DEF TypeOK
<1>4. out' \in Seq(Mail) /\ Len(out') = Len(out) + 1 /\ OutInv'
  BY <1>2, <1>3, HandOnFacts
<1>5. /\ con' \in Connection
      /\ con'.state.tag = "NotAuthenticated" => con'.state.user = Nobody
      /\ con'.state.data > 0 => con'.state.tag = "ReceivingData"
      /\ epoch' \in 0 .. MaxEnvelopes
      /\ mailed' \in [epoch : 0 .. MaxEnvelopes, require_tls : BOOLEAN]
      /\ rcpted' \in 0 .. MaxEnvelopes
      /\ LoginInv' /\ EnvelopeInv' /\ ReceiptsInv'
  BY <1>2, <1>3, ResetFacts
<1>6. port' \in Ports
  BY <1>1, <1>2 DEF TypeOK
<1>7. \A i \in DOMAIN out' : /\ out'[i].how \in {"local", "queued", "inbound"}
                             /\ out'[i].to \in Addresses
  BY <1>4, MailsType
<1>8. link' \in {"none", "open", "closed"} /\ reply' \in 0 .. 599 /\ accepted' \in Nat
  BY <1>1, <1>2
<1>r. refused' \in BOOLEAN
  BY <1>2 DEF ResetEnvelope, Reset
<1>9. TypeInv'
  BY <1>r, <1>3, <1>4, <1>5, <1>6, <1>7, <1>8 DEF TypeInv, TypeOK
<1>10. AcknowledgedOnce'
  BY <1>1, <1>2, <1>4 DEF AcknowledgedOnce
<1>11. QED
  BY <1>4, <1>5, <1>9, <1>10 DEF IInv

\* A message is handed on, but the connection ends.
LEMMA NotAcknowledgedStep ==
  ASSUME IInv, NotAcknowledged
  PROVE  IInv'
<1>1. /\ TypeOK /\ out \in Seq(Mail) /\ AcknowledgedOnce
      /\ accepted \in Nat /\ Len(out) \in Nat
  BY LenProperties DEF IInv, TypeInv, TypeOK
<1>2. /\ Complete /\ HandOn(Destination) /\ link = "open" /\ link' = "closed"
      /\ reply' \in 0 .. 599 /\ UNCHANGED <<port, con, accepted, epoch, refused, mailed, rcpted, everAuth>>
  BY DEF NotAcknowledged, Complete, EndOfData
<1>3. everAuth' = everAuth /\ everAuth' \in BOOLEAN
  BY <1>1, <1>2 DEF TypeOK
<1>4. out' \in Seq(Mail) /\ Len(out') = Len(out) + 1 /\ OutInv'
  BY <1>2, <1>3, HandOnFacts
<1>5. /\ con' \in Connection
      /\ con'.state.tag = "NotAuthenticated" => con'.state.user = Nobody
      /\ con'.state.data > 0 => con'.state.tag = "ReceivingData"
      /\ epoch' \in 0 .. MaxEnvelopes
      /\ mailed' \in [epoch : 0 .. MaxEnvelopes, require_tls : BOOLEAN]
      /\ rcpted' \in 0 .. MaxEnvelopes /\ port' \in Ports
      /\ accepted' \in Nat /\ link' \in {"none", "open", "closed"}
  BY <1>1, <1>2 DEF TypeOK
<1>6. LoginInv' /\ EnvelopeInv' /\ ReceiptsInv'
  BY <1>2 DEF IInv, LoginInv, EnvelopeInv, ReceiptsInv
<1>7. \A i \in DOMAIN out' : /\ out'[i].how \in {"local", "queued", "inbound"}
                             /\ out'[i].to \in Addresses
  BY <1>4, MailsType
<1>r. refused' = refused /\ refused' \in BOOLEAN
  BY <1>1, <1>2 DEF TypeOK
<1>8. TypeInv'
  BY <1>r, <1>2, <1>3, <1>4, <1>5, <1>7 DEF TypeInv, TypeOK
<1>9. AcknowledgedOnce'
  BY <1>1, <1>2, <1>4 DEF AcknowledgedOnce
<1>10. QED
  BY <1>4, <1>6, <1>8, <1>9 DEF IInv

-----------------------------------------------------------------------------
(* Every step keeps the invariant *)

\* A command line keeps the invariant.
LEMMA CommandStep ==
  ASSUME IInv, Command
  PROVE  IInv'
<1>1. CASE QUIT
  BY <1>1, Harmless DEF QUIT, Ready
<1>2. CASE STARTTLS
  BY <1>2, StarttlsStep
<1>3. CASE NOOP
  BY <1>3, Harmless DEF NOOP, Ready, Answer
<1>4. CASE EHLO
  BY <1>4, EhloStep
<1>5. CASE RcptMalformed
  BY <1>5, Harmless DEF RcptMalformed, Ready, Fail, Panic
<1>6. CASE AUTH
  BY <1>6, AuthStep
<1>7. CASE DATA
  BY <1>7, DataStep
<1>8. CASE \E a \in Senders, b \in BOOLEAN : MAILFROM(a, b)
  BY <1>8, AddressAssumption, MailStep
<1>9. CASE RCPTTO({})
  BY <1>9, RcptStep
<1>10. CASE \E a \in Addresses : RCPTTO({a})
  BY <1>10, RcptStep
<1>11. QED
  BY <1>1, <1>2, <1>3, <1>4, <1>5, <1>6, <1>7, <1>8, <1>9, <1>10 DEF Command

\* A line of a message, or its end, keeps the invariant.
LEMMA MessageStep ==
  ASSUME IInv, Message
  PROVE  IInv'
<1>1. CASE DataLine
  BY <1>1, DataLineStep
<1>2. CASE DataFails
  BY <1>2, Harmless DEF DataFails, EndOfData, Fail
<1>3. CASE DataPanics
  BY <1>3, Harmless DEF DataPanics, EndOfData, Panic
<1>4. CASE DataForNobody
  BY <1>4, TakenOffStep DEF DataForNobody, Answer
<1>5. CASE RspamdRejects
  BY <1>5, TakenOffStep DEF RspamdRejects, Complete, Answer
<1>6. CASE Accepted
  BY <1>6, AcceptedStep
<1>7. CASE InboundRejected
  BY <1>7, InboundRejectedStep
<1>8. CASE NotAcknowledged
  BY <1>8, NotAcknowledgedStep
<1>9. QED
  BY <1>1, <1>2, <1>3, <1>4, <1>5, <1>6, <1>7, <1>8 DEF Message

\* Every step keeps the invariant.
LEMMA InvNext == IInv /\ [Next]_vars => IInv'
<1> SUFFICES ASSUME IInv, [Next]_vars PROVE IInv'
  OBVIOUS
<1>1. CASE \E p \in Ports, peer \in {587, 40000} : Accept(p, peer)
  BY <1>1, AcceptStep
<1>2. CASE Disconnect
  <2>1. reply \in 0 .. 599
    BY DEF IInv, TypeInv, TypeOK
  <2>2. QED
    BY <1>2, <2>1, Harmless DEF Disconnect
<1>3. CASE Command
  BY <1>3, CommandStep
<1>4. CASE AuthLine
  BY <1>4, PlainStep, UsernameStep, PasswordStep DEF AuthLine
<1>5. CASE Message
  BY <1>5, MessageStep
<1>6. CASE UNCHANGED vars
  <2> USE <1>6 DEF vars
  <2>1. TypeInv'
    BY DEF IInv, TypeInv, TypeOK
  <2>2. LoginInv' /\ EnvelopeInv' /\ ReceiptsInv'
    BY DEF IInv, LoginInv, EnvelopeInv, ReceiptsInv
  <2>3. OutInv' /\ AcknowledgedOnce'
    BY DEF IInv, OutInv, Proper, AcknowledgedOnce
  <2>4. QED
    BY <2>1, <2>2, <2>3 DEF IInv
<1>7. QED
  BY <1>1, <1>2, <1>3, <1>4, <1>5, <1>6 DEF Next

-----------------------------------------------------------------------------
(* Theorems *)

\* The inductive invariant holds throughout.
THEOREM Invariance == Spec => []IInv
BY InvInit, InvNext, PTL DEF Spec

\* Every variable keeps its type, and the state its name and its lines.
THEOREM TypeCorrect == Spec => []TypeOK
BY Invariance, IInvImplies, PTL

\* Mail goes to other servers only for users who logged in, over TLS.
THEOREM NoOpenRelay == Spec => []NoRelayWithoutAuth
BY Invariance, IInvImplies, PTL

\* A message never goes out with a part of another message's envelope, unless
\* that is one DKIM or DMARC refused in the same DATA.
THEOREM CurrentEnvelope == Spec => []EnvelopeIsCurrent
BY Invariance, IInvImplies, PTL

\* Nobody is delivered to before a login but the server's accounts.
THEOREM OnlyLocalInbound == Spec => []InboundIsLocal
BY Invariance, IInvImplies, PTL

\* What is acknowledged was handed on, and all but the last message of a broken
\* connection that was handed on is acknowledged.
THEOREM Acknowledgements == Spec => []AcknowledgedOnce
BY Invariance, IInvImplies, PTL

=============================================================================
