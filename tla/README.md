# Verification of the erooster mail server

This directory holds TLA+ modules of erooster, a mail server in Rust: SMTP sessions, a
persistent outbound queue with its delivery worker, IMAP sessions, a maildir store with an
index of UIDs in PostgreSQL or SQLite, and `eroosterctl`, the operator's tool. TLC checks
the modules on small instances, TLAPS proves every safety property of all nine
specifications for every value of the constants. Paths below are relative to `src/crates/`.

## 1. Inventory

| Component | State | Operations | Interacts with | What is hard |
|---|---|---|---|---|
| Outbound queue, `erooster_core/src/backend/queue.rs` | table `outbound_queue` (status, attempts, next_retry_at, delivery_log) | push, push_local, pop, ack, nack, force_retry, abandon, list | sessions push, the worker pops, the operator retries and abandons from another process | `nack` is two statements, `pop` too on SQLite; restarts; a retry under the worker's feet |
| Delivery worker, `erooster_smtp/src/servers/worker.rs` | the entry in its hands | poll, deliver, give up | queue, `send_email_job` | decides on a snapshot; every statement may fail; ends without notice |
| Delivery to other servers, `.../servers/sending.rs` | the connection, the list of MX hosts | MX lookup, STARTTLS, checks, dialogue | DNS, peers, MTA-STS, DANE | partial failure over domains and hosts, lost replies, duplicates |
| MTA-STS, `.../servers/mta_sts.rs` | `POLICY_CACHE` | fetch, cache, match a host | DNS, HTTPS, sending | stale policies, the id read before the policy |
| DANE, `.../servers/dane.rs` | none | match a certificate | sending | a pure decision |
| SMTP session, `erooster_smtp/src/commands/`, `.../servers/state.rs` | `Data.con_state` | EHLO, MAIL, RCPT, AUTH, DATA, STARTTLS, ... | storage, queue, users, rspamd | any order of commands; what one message leaves to the next; seven exits of DATA |
| SMTP listeners, `.../servers/{un,}encrypted.rs` | connections | accept, upgrade, close | session | the plain listener serves one connection at a time |
| Mail storage, `erooster_core/src/backend/storage/` | maildir files, tables `mails` and `mailbox_uid_counter` | store, list, flags, UIDs, folder flags | DATA, IMAP | no transaction spans directory and table |
| IMAP message commands, `erooster_imap/src/commands/{append,copy,move_,expunge,uid,close,store,create,rename}.rs` | none of their own | as named | storage | concurrent connections work on stale listings, break off half-way |
| IMAP session, `.../commands/{mod,auth,login,select,...}.rs`, `.../servers/state.rs` | `State`, selected folder, access, APPEND in progress | SELECT, EXAMINE, AUTHENTICATE, ... | users, storage | which command each state allows; read-only access |
| IMAP listeners and IDLE, `erooster_imap/src/servers/` | connections | accept, STARTTLS, IDLE | session | the plain listener serves one connection at a time |
| IMAP folders, `.../{delete,list,subscribe,unsubscribe,status}.rs` | `.erooster_folder_flags`, `.uidvalidity` | DELETE, SUBSCRIBE, LIST | storage | both files are read, emptied and written without a lock, some writes in the background |
| IMAP queries, `.../{fetch,search,parsers}.rs` | none; what the client has been told | FETCH, SEARCH | storage | a grammar of ordered alternatives, the compression of answers, numbers that shift between commands |
| Line codec, `erooster_core/src/line_codec.rs` | position, discarding | decode | all listeners | input split anywhere, overlong lines |
| User database, `erooster_core/src/backend/database/` | table `users` | add, delete, verify, change password | AUTH, RCPT | one statement each |
| Administration, `backend/admin.rs`, `eroosterctl/src/` | none | users, domains, status | database, queue | one statement each |
| Mail authentication and spam verdicts, `erooster_smtp/src/utils/` | none | SPF, DKIM, DMARC, rspamd | DATA, EHLO, MAIL | verdicts of other services |
| Configuration, startup, web, `erooster/src/main.rs`, `erooster_core/src/config.rs`, `erooster_web` | none | read once, serve | all | nothing |

How they work together: a client hands a message to an **SMTP session**, which stores it in
a **maildir** (for accounts of the server) or pushes it to the **queue** (an authenticated
user, another domain). The **worker** pops one entry at a time, runs **send_email_job** over
the recipients' domains, and acks or nacks. **IMAP sessions** read and rearrange the
maildirs. The **operator** changes the queue from a process of its own. The database and the
file system are shared; nothing else is, and no lock spans two of their operations.

What makes each part correct:

* queue and worker: no message is dropped undelivered before its attempts are used up, none
  is sent again unless asked for, the log tells what happened, every message is settled as long
  as the peers answer;
* delivery: nothing is sent over a connection that the message, the policy or TLSA records
  forbid; passing a domain means it was delivered; each copy has a cause;
* SMTP session: no relaying without a login; an envelope serves one message, acknowledged or
  refused; what is acknowledged was handed on;
* storage and IMAP commands: no acknowledged message is lost except by expunging it, UIDs
  ascend and are unique, flags are changed as asked;
* IMAP session: only the mail of those who logged in is touched; EXAMINE keeps messages; a
  literal is stored whole and leaves the selection alone;
* IMAP folders: a subscription lasts until it is taken back, and is gone then; special-use
  flags survive; UIDVALIDITY is told once and for all;
* IMAP queries: SEARCH answers with the messages that match, and what the client does with
  the answer is done to these; numbers, EXISTS and UIDNEXT agree with the folder;
* line codec: the lines of the whole input, however it arrives, within the limit.

`PROJECT.json` lists the hazards behind these, each at its line.

## 2. Modules

| Module | What it is | Actions and the code they stand for |
|---|---|---|
| `OutboundQueue` | the table, the worker, sessions that push, the operator | one action for each SQL statement: `push`, `push_local`; `Pop` (PostgreSQL: one statement, whose answer cannot be read) or `PopSelect`, `PopUpdate` (SQLite); `SendOk`, `SendErr`, `PoisonPill` for `deliver`; `Ack`; `NackRead`, `NackWrite`; `Retry`, `FlushList`, `FlushOne`, `Abandon`; failures `PopFails`, `AckOrNackFails`, `Stop`, `Start` |
| `MailPromise` | abstract specification of the queue: accepted, delivered against credits, settled | |
| `Delivery` | `send_email_job`, its MTA-STS cache and TLSA checks | one action for each exchange with DNS or a host |
| `SmtpSession` | one connection and its envelope | one action for each command or line |
| `MailStore` | files and rows of one user, several connections | one action for each system call or SQL statement |
| `ImapSession` | one connection: state, login, selection, literals, IDLE, STARTTLS | one action for each command or line; EXAMINE is `select` with `ReadOnly` |
| `FolderFiles` | the flags file and the UIDVALIDITY file of one folder, several connections of its user | one action for each system call; `Land` for a write in the background; `Crash` |
| `MailboxView` | one folder and what one client has been told about it: numbers, UIDNEXT, IDLE | one action for each directory or table that a command reads; `Write`, `Insert`, `See`, `TakeAway` for the other connections |
| `SearchCommand` | a SEARCH and the next command with its answer | the parser and the evaluation as functions of the places of the text; `SearchArguments`, then `Search` (the listing and the answer) and `Use`; `Arrive`, `Complete`, `Disappear` for the other connections |
| `Numbering` | how sets of messages become lists; used by `MailboxView` and `SearchCommand` | |
| `LineCodec` | `LinesCodec` under `Framed` | one action for each branch of `decode` and `decode_eof`; `Receive`, `Close` for the socket |
| `OutboundQueueProofs`, `DeliveryProofs`, `SmtpSessionProofs`, `ImapSessionProofs`, `MailStoreProofs`, `FolderFilesProofs`, `ImapQueriesProofs`, `LineCodecProofs` | theorems; `ImapQueriesProofs` is about `MailboxView` and `SearchCommand` | |
| `MCOutboundQueue`, `MCDelivery`, `MCSmtpSession`, `MCMailStore`, `MCImapSession`, `MCFolderFiles`, `MCMailboxView`, `MCSearchCommand`, `MCLineCodec` | instances for TLC | |

Definitions named `Bug_...` are not part of any specification: each is a plausible bug in
the definition it stands before, and shows that the property it belongs to would notice it.

### Abstractions

* A statement of the database and a system call are atomic; two of them are two steps.
* `OutboundQueue`: times are the sequence `due` of ids whose `next_retry_at` has passed, in
  that order, and `delay` keeps the back-off that was computed. A payload is well-formed
  (`Emails`) or that of a local delivery's record (`Audits`). One worker runs, as in
  `main.rs`, so `FOR UPDATE SKIP LOCKED` has nobody to skip. That sqlx refuses to decode an
  enum type as a `String` is a fact about the library, read off queue.rs:156 and 229 and the
  migration that creates the type.
* `Delivery`: a reply is accepted or not; certificates and TLSA records are members of a
  small set; a policy is its version; the id of a policy is a version too.
* `SmtpSession`: an address is an account, a name at the server's host without an account,
  an address elsewhere, or one without "@". Verdicts and failures are free choices. An error
  of a handler and a panic end the connection. Content and headers are left out.
* `MailStore`: a path is the folder, "new" or "cur", the id and the flags. Message data is
  left out. `Abort` lets a command end before any of its steps, for whatever reason: an
  error, a path that is gone, the end of the process.
* `ImapSession`: messages and folders are those of `MailStore`; here a command only records
  whose mail it touches, whose folders it shows (LIST joins the client's text to the user's
  directory and can reach anybody's) and which folder it removes from. Commands that answer
  and change nothing (CAPABILITY, ENABLE, NAMESPACE, LOGIN, which is refused) are left out. A
  line of a literal is its length; what follows the literal in its command is nothing, or
  the ")" of `UTF8 (~{n}`. The tag, the flags and the folder of an APPEND play no part.
* `FolderFiles`: one special-use folder; the flags file is a sequence of cells of six bytes,
  of which "\Sent\n" fills one and "\Subscribed\n" two, so an overwritten line can be cut in
  half. A line of a text is the pair of its first and last cell. tokio's files hand a write to a thread and wait for it at the next write or not at
  all. The process may end between two steps, and the writes it had not made are lost.
* `MailboxView`: the folder is INBOX on PostgreSQL; message data is left out. What a client
  keeps of EXISTS, FETCH and EXPUNGE is a sequence of UIDs, 0 where it has not asked.
  Directories are read in any order, one after the other. `notify` may report anything in
  the watched directory (`OtherEvent`). STORE is one step: it reads the folder, moves and flags,
  and what it answers is learnt by the client. Commands with several UIDs and BODY sections
  are not told apart from those with one.
* `SearchCommand`: a text is a sequence of tokens. A key with as much of its argument as the
  parser takes is one token: an argument is letters and digits (parsers.rs:526-654). What an
  argument has beyond them (`FROM a@b`) is the token "rest", and a key that no alternative
  takes is "refused": a quoted argument, a header name with a hyphen, CHARSET, a key that does
  not exist. Sizes are within u64. The parser takes the alternatives as the code does, ignores
  what is left over (search.rs:55), and a key is named by the place at which it begins, so that
  what the code computes by recursion is a function of the places. A request carries, beside
  its text, the keys that are meant, as what the answer is compared with: `WellWritten` says
  that the text is theirs, by the grammar. The parser sees the text only. Message content is
  whether it can be parsed and which words it contains. A listing and the next command are
  one step each, with changes by other connections in between.
* `LineCodec`: bytes have four kinds (line end, carriage return, one that is not UTF-8,
  another). The buffer is the part of the input between two positions. The servers stop at
  the first error; the model goes on, as the codec's comment promises.

## 3. Runs

| Run | Question | Bounds |
|---|---|---|
| `queue` | is no message lost or sent unasked, is the log complete, is every message settled or left in `delivering`? (both databases) | two entries, messages or an audit record; 3 attempts; any two of a retry by the operator, a failed statement and an end of the process |
| `delivery` | transport requirements, duplicates, failover, policies | a domain with two MX hosts and a policy that becomes stricter, one without; two runs |
| `smtp_session` | relaying, envelopes, local delivery, acknowledgements | a recipient of each class, one sender (only whether there is one decides anything), two envelopes used up and a third one |
| `mail_moves` | are messages lost or UIDs reused in MOVEs that meet or break off, and a RENAME? (PostgreSQL) | two connections, two folders, three messages, one rename |
| `mail_flags` | does a stale listing expunge the wrong message? (SQLite) | two connections, two messages |
| `imap_session` | whose mail is touched, what EXAMINE forbids, what APPEND stores and restores | two users, two folders, literals and lines of up to 7 octets |
| `folder_files` | do subscriptions, special-use flags and UIDVALIDITY survive each other's commands and a restart? | two connections, three commands, one restart, any state of the folder at the start |
| `mailbox_view` | do numbers, UIDNEXT and the announcements of IDLE agree with the folder? | two messages before SELECT, one more; two commands after SELECT, one message taken away by others |
| `search` | does SEARCH answer with what was asked for, and does the next command act on it? | programs of up to five keys, also with commas, arguments like a@b, refused keys; folders of up to four messages with several gaps in their UIDs, one change in between |
| `line_codec` | are lines cut right, however the input arrives? does `decode` return? | all inputs of up to 6 bytes of 4 kinds, a limit of 2 |
| `doc_durable`, `doc_delivering` | statements of the documentation that the code does not keep, section 5 | one message, two attempts; one failure (`doc_durable`), none (`doc_delivering`) |

Why the bounds are enough to be interesting: a queue entry's life has three phases (first
attempt, a retry after a failure, the last one), which three attempts tell apart; the
hazards need one retry inside each window of the worker and, for what a retry resets, a
second one, or a failure beside it (`MaxTrouble`, which counts all of these together). Two MX hosts and two domains give every kind of failover and of partial
success. A third envelope shows what a refused and an acknowledged one left. Two connections and three files
let two MOVEs take the same message, and each copy be taken again. Seven octets hold a
literal of two lines with content, each kind of end, and a first line that is the literal.
Three commands let a SUBSCRIBE and an UNSUBSCRIBE overlap and a third one find what they
left. Three messages, of which one arrives and one is taken away, move every number, and
two commands after SELECT are a FETCH and a change (MOVE, STORE, EXPUNGE of what was flagged
before, IDLE), after which the numbers are compared with the folder; longer sessions are
covered by the proofs. Four
messages give a run and a gap on either side of it. Six bytes hold an overlong line, longer
than two searches of `decode`, and a line after it.

`CHECK_DEADLOCK FALSE` appears where the system ends or a client may stop: a connection
closes (`smtp_session`, `imap_session`, `mailbox_view`), the clients send nothing more
(`folder_files`, `search`), the job has used up its runs (`delivery`), the input is at its
end (`line_codec`). The connections of `mail_moves`, `mail_flags` and `folder_files`, the
users and the folders of `imap_session` are interchangeable, and these runs check no
liveness, so symmetry is sound there.

The properties, by the line they are about:

* `NoSilentLoss`: `deliver` deletes on three paths (worker.rs:58-83); that an entry an operator
  has just retried may be among them is in section 5. `ResendOnlyOnRequest`: a lost ack or a
  restart must not send again. `NeverStranded`: the worker gives up at the same count as
  `pop`'s WHERE clause. `LogIsComplete`, `LogIsAppendOnly`: `nack` rewrites the log it read
  before. `AuditIsKept`: what the operator's commands protect. `DeliveringIsHeld`: on SQLite
  and without failures a row that is `delivering` is the one the worker has, although
  retries and abandons do not look at the status. `KeepsPromise`: refinement of
  `MailPromise`. `EventuallySettled`: unless the worker waits for a silent peer for good, every
  message that waits is deleted, abandoned, or left in `delivering` with nobody; none starves.
* `TransportIsAsRequired` (sending.rs:416-471), `PassedMeansDelivered` and
  `CopiesHaveACause` (sending.rs:473-496), `FailoverIsUsed` (`continue 'mx`),
  `PolicyIsCurrent` (mta_sts.rs:92-127).
* `NoRelayWithoutAuth` (data.rs:167-220, auth.rs), `EnvelopeIsCurrent` (data.rs:256-265 and
  the exits before it), `InboundIsLocal` (rcpt.rs:45), `AcknowledgedOnce`. A message that is
  refused uses its envelope up as one that is acknowledged does; the one exception in
  `EnvelopeIsCurrent` is the code's own, DKIM and DMARC (section 5).
* `NothingLost` (move_.rs:172-186, expunge.rs:81-97), `UidsAscend` (the counter of the
  PostgreSQL trigger): over all the UIDs a mailbox has had (`held`), except those of rows
  that a RENAME brought (`inherited`), which the code gives out again (section 5).
* `OnlyOwnMail`: DELETE, RENAME, SUBSCRIBE, UNSUBSCRIBE and STATUS check no state
  (delete.rs:52); LIST shows folders of anybody, but to those who logged in only
  (list.rs:118-131). `ReadOnlyKeepsMail` (close.rs:33, expunge.rs:39, uid.rs:73, move_.rs:48),
  `SelectionIsAsAsked` (append.rs:189-191), `LiteralIsWhole` (append.rs:147-170): the
  literal, with the ")" that may follow it, or without its last line end; the one exception
  is a literal of a single line without a line end.
* `SubscriptionHolds`, `UnsubscribedIsGone`, `SpecialUseKept` (maildir.rs:109-146: read and
  append; read, empty and rewrite), `UidValidityIsStable` (select.rs:33-47). They say what an
  answer is worth that no opposite command overlapped; what overlapping ones do is in
  section 5.
* `NumbersAgree` (move_.rs:172-179, expunge.rs:78-97): the client's numbers are those of the
  next FETCH or MOVE, over any sequence of FETCH, MOVE, STORE, EXPUNGE and arrivals. What the
  code itself gets wrong is excepted from the moment it happens until the next SELECT: a
  removal by another connection (never announced), a listing that met a message without a row
  or one being moved, EXPUNGE when the directory is not in the order of UIDs (expunge.rs:78),
  and a UID STORE whose answer gives a UID as a number that is another message's
  (store.rs:98-110). `UidNextIsABound` (select.rs:142). `IdleIsCurrent` and
  `AnnouncedWhileIdle` (encrypted.rs:241-250) begin with the watch.
* `AnswerIsTheMatches`: what a client reads of the answer, in the old or the new form, is what
  the keys that were meant say, by set operations on the folder (parsers.rs:472-733,
  search.rs:307-490), for searches of which the parser takes every token and answers of one
  item. The others are in section 5: a search that is cut short is answered without notice.
  `AnswersWhatItMust`: which searches are refused, and which end the connection, and no others.
  `UseActsOnTheMatches`: the FETCH or STORE that follows acts on the messages found
  (fetch.rs:71-95, store.rs:46-74), with the exceptions the property names.
* `SliceInRange` (line_codec.rs:127), `MatchesReference` (the whole output, against a
  recursive function over the whole input), `DecodeReturns` (the loop that discards).

### Fairness

`queue` and `doc_durable` assume weak fairness of the worker's own steps, of the passing of
retry times and of a restart after a stop. The worker is a task that loops for ever,
`next_retry_at` is a time that comes, and a service manager restarts a server. No fairness is
assumed of the step in which the worker sends: after the connection is made
`send_email_job` has no timeout, so a peer may keep it for good. `EventuallySettled` and
`SurvivesRestart` say `<>[]WaitsForPeer` for that case. `delivery` assumes no fairness and
claims no liveness. `line_codec` assumes weak fairness of the branches of `decode`: `Framed`
calls it again as long as it returns items.
`mailbox_view` assumes weak fairness of the steps of the connection's own task: the runtime
schedules it, and `select!` takes a branch that stays ready. Nothing is assumed
of clients, of the operator, of other connections, of `notify` beyond what it reports, or of
the domains that change their policies.

## 4. Proofs

`OutboundQueueProofs`, from `IdsAssumption` and `AttemptsAssumption`, for
any set of messages and records, either database, any `MAX_ATTEMPTS` and any number of
retries, failed statements and restarts:

* `TypeCorrect`, `Invariance`, `NoLoss`, `NoUnaskedResend`, `DeliveringHeld`, `NotStranded`,
  `LogComplete`, `AuditKept`, `LogAppendOnly`, and `Refinement`: the queue implements
  `MailPromise`.
* The inductive invariant `IInv` adds to the properties
  what the worker relies on between two statements. `Credit`: a delivery still to come is
  covered by a retry that is not used up; an entry that was queued again while it is being
  sent has two to come. Without it nothing bounds the deliveries of an entry in the worker's
  hands. `Attempts`: the worker's snapshot is never behind the row, since only retries, which
  set `attempts` to 0, come in between; so giving up on the snapshot is giving up on
  `MAX_ATTEMPTS` real failures, counted in `fails`. `ReadIsCurrent`: the log that `nack` read
  is the row's log when it writes, because no one else writes logs.
* `Refinement` maps a row's status to the phase and `1 + forced - clean` to the credit. Each
  action is shown to be a step of `MailPromise` or to leave its variables alone.

`DeliveryProofs`, from `TargetsAssumption`, `MxAssumption`, `RcptsAssumption`,
`PolicyAssumption`, `TlsaAssumption` and `RunsAssumption`, for any domains, hosts, policies,
TLSA records and number of runs:

* `Invariant`, `TypeCorrect`, `Transport` (`TransportIsAsRequired`), `NoDomainSkipped`
  (`PassedMeansDelivered`), `NoNeedlessCopy` (`CopiesHaveACause`), `Failover`
  (`FailoverIsUsed`), `CurrentPolicy` (`PolicyIsCurrent`).
* What each property says of one state was decided several exchanges before. `VersionInv`: a
  domain publishes a policy before its id, and a cached policy was fetched after its id was
  seen, so an id never stands for a policy newer than the one that is applied.
  `TransportInv`: the host was allowed before the connection was made, the connection was
  checked before MAIL FROM, and at DATA every recipient has been named. `CopiesInv`: the
  copies a domain has are those due to repeated runs, at most one for each lost reply, and
  that of this run. `FailoverInv`: each failed run met two setbacks in some domain; those of
  this run and the hosts that are left make two more.

`SmtpSessionProofs`, from `AddressAssumption` and `BoundAssumption`, for any accounts and
addresses and any number of envelopes:

* `TypeCorrect`, `Invariance`, `NoOpenRelay`, `CurrentEnvelope`, `OnlyLocalInbound`,
  `Acknowledgements`.
* Its `IInv` says what the fields of a connection stand for: `LoginInv`, a name counts only
  in `Authenticated` and `ReceivingData`, where its owner has logged in over TLS (a name in
  the password dialogue is only a claim); `EnvelopeInv`, sender and recipients were named in
  this epoch, which ends when a message is acknowledged or refused, or belong to one that DKIM
  or DMARC refused (`refused`); `ReceiptsInv`, without a login only accounts are recipients. `OutInv` carries
  this to what was handed on.

`ImapSessionProofs`, from `UserAssumption` and `LiteralAssumption`, for any users and folders
and literals of any length:

* `TypeCorrect`, `Invariance`, `MailIsPrivate`, `ExamineIsReadOnly`, `SelectionPersists`,
  `AppendStoresLiteral`.
* `IInv` adds `LoginInv`: a name is set only with its verification, and each state for users
  has one; the commands that check the name alone are safe because of it. `IdleInv`: a
  watched folder is the selected one. `LiteralInv`: buffer and the rest still to come make
  up the literal; if nothing is to come, the first line was all of it, with the ")" where
  there is one, and the buffer holds its line end too. From this follows which lines can complete a literal.

`LineCodecProofs`, from `LengthAssumption`, for any limit, any input and any pieces:

* `TypeCorrect`, `Invariance`, `DecodeDoesNotPanic`, `SearchIsComplete`, `LinesKeepTheLimit`,
  `LinesOfTheWhole` (`MatchesReference`).
* `IInv` joins position and search: `next_index` never passes the end of the next search
  (`SliceInRange`), nothing before it ends a line, and when `decode` gives up at the end of
  the input the rest has been searched and is within the limit (`RestInv`), which is what
  makes the item of `decode_eof` a line.
* `LinesOfTheWhole`: `ReferenceInv`, what was returned and what is ahead of the position are
  the lines of the whole input, for whatever amount of it is still to arrive; `PauseInv`,
  when `decode` asks for more, all that arrived has been searched or discarded, so nothing
  that arrives changes what was ahead. The reference is a recursive function; that it is
  defined at every position follows from the least position at which it would not be.

`MailStoreProofs`, from `FolderAssumption` and `BoundAssumption`, for any connections,
folders, flags and number of messages:

* `Invariant`, `NoMailLost` (`NothingLost`, on either back end), and `UidsAscendOnPostgres`
  (`UidsAscend`; on SQLite two connections can give out the same UID, section 5; on either a
  renamed mailbox gives out those it brought along again, which `UidsAscend` excepts).
* `NothingLost` is not inductive: MOVE removes an original because of a copy it made many
  steps earlier, whose file others may have flagged, moved on or renamed. `IInv` orders the
  copies of a message by age. `KeptInv`: the last copy has its file, unless some copy was
  removed with `\Deleted`. `SessionsInv`: what a MOVE still removes has a later copy
  (`Copied`), so it is not the last; what an EXPUNGE still removes had `\Deleted` in its
  path, and a file is only found under that path. One lemma for each action shows that
  files change in no other way (`WriteKept`, `FileStep`).
* `CounterInv`: on PostgreSQL no UID a mailbox has had is above its counter, but those that a
  RENAME brought; only INSERT makes rows (`OthersMakeNoRow`).

`FolderFilesProofs`, from `TimesAssumption`, for any connections, clock, commands and
restarts:

* `Invariant`, `TypeCorrect`, `SubscriptionKept` (`SubscriptionHolds`), `UnsubscribedStays`
  (`UnsubscribedIsGone`), `SpecialKept` (`SpecialUseKept`), `StableUidValidity`
  (`UidValidityIsStable`).
* `SubscribedInv`: the flag is in the file or in a write that has not landed, and no command
  runs that rewrites or removes the file. `SpecialInv`: while `remove_flag` works, \Sent is in
  the file it will read, in what it has read, in the write under way or before the place of
  the next one (`Keeps`, `KeepsWith`), whatever others append. `CleanInv`: alone, it writes
  the lines it keeps one after the other. `UnsubscribedInv`: there is a text g, what the last
  UNSUBSCRIBE left, of which everything that is in the file, was read from it or will be
  written to it is a part, at its own place; later UNSUBSCRIBEs that overlap can leave holes,
  but a hole ends no line, so they never put together a flag that g has not. `UidInv`: once a
  value was told while nobody was creating one, nobody creates another.

`ImapQueriesProofs`, about `MailboxView` from `BoundAssumption`, for any number of messages,
removals and commands:

* `Invariant`, `TypeCorrect`, `IdleCountsRight` (`IdleIsCurrent`), `UidNextSeparates`
  (`UidNextIsABound`), `NumbersNameTheSame` (`NumbersAgree`).
* `IInv` adds `CountInv`: between the two counts of IDLE the first one is still right, or
  an event is waiting or the change is one that no event reports; every step on a file is
  one of these (`FileStep`), and the two counts add up because a file is in one directory
  (`CountsAdd`). `UidInv`: the UIDs given out have a greatest one, and UIDNEXT is at most
  one more, so a new row's UID is never below it.
* `RankInv` is what makes numbers agree: the number of a message is its rank by UID among the
  messages with a file and a row (`NumbersInv`), at every step and not only between
  commands. New rows come above all others and change no rank (`Grows`, `RanksKept`); a
  removal lowers the ranks after it by one, as the client does with its numbers
  (`RankRemoved`); a UID that STORE tells as a number is that of the message of this rank, or
  the numbers are no longer claimed (`StoreStep`). `KnownInv` and `ListedInv`: rows and files that came after a listing read
  them rank above all it knows, so a place in the sorted listing is a rank
  (`ListingRanks`). `TodoInv`: each file MOVE or EXPUNGE still removes has the number it
  will be told when its turn comes. That the model's sorting of a set puts some message at
  each place is itself proved, by counting (`Ascends`).

`ImapQueriesProofs`, about `SearchCommand`, from three assumptions on its constants:
`NumberAssumption` (the bounds are numbers), `RequestsAssumption` (every request is
`WellWritten`: a text by the grammar, however long and however nested, also one the parser
cuts short or refuses, with numbers within u32) and `MailboxesAssumption` (folders are finite, their UIDs distinct and within u32):

* `SearchAlways`, `SearchAnswers` (`AnswerIsTheMatches`), `SearchIsAnswered`
  (`AnswersWhatItMust`), `SearchIsUsed` (`UseActsOnTheMatches`).
* What is parsed at a place, what a key's verdict is and which messages match it are
  recursive functions over places, each of which looks at later places only. `Recursion`
  proves once that such a definition has a solution, extending it from place to place
  (`Upward`, which rests on `Least`), so that no induction theorem is needed; each of the
  three then has its defining equation (`TreeStep`, `CheckedAtFacts`, `MatchingFacts`).
* `KeysMeant`: at the place of each key that is meant the parser gives that key and the
  place after it, last place first; one lemma for each alternative (`MeantRanged` to
  `MeantAnd`). This needs the text to be `Plain`, and is where a set with a comma and an argument
  with "@" are lost. For other texts `RefusalCause` finds the token that refuses them.
* `VerdictsMeant`: the verdict of each key on a message, unless it panics, is whether the
  message matches; `VerdictPanics` has the causes of a panic.
* `GeneratedRanges`: the loop that builds the runs keeps the numbers it was given, apart
  from 0, whatever gaps they have; `SentSet`: the text of ranges says their numbers;
  `SelectedSet`, `StoredSet`: the parser of FETCH and that of STORE read it back, the latter
  without a comma. So the set of an answer goes through the client and back unchanged.
* `SetsName` is what makes the invariant inductive: until a message gets another number, a
  set that was answered names the messages that matched, by UID or by place; a message that
  arrives with a UID comes after all others and moves no place (`PlacesStay`).

Only model-checked: liveness (`EventuallySettled`, `DecodeReturns`, `AnnouncedWhileIdle`), which is out of the prover's reach.

## 5. Where code and documentation disagree

With a run: `doc_durable`. queue.rs:9 promises that emails survive restarts; a row that is
`delivering` when the process ends is never selected again. `doc_delivering`. queue.rs:28 says
that `delivering` means "currently being delivered by the worker"; on PostgreSQL `pop` sets it
and then returns the column `status`, of the type `outbound_queue_status`, without a cast
(queue.rs:229), which sqlx does not decode as the `String` of `EntryRow` (queue.rs:156). The
UPDATE has taken effect, `pop` is an error each time, and no message is delivered from the
queue on PostgreSQL.

Seen in the models, without a run of their own: `list_all`, and with it flush, asks
for the same column in the same way; an entry that an operator retries while its last attempt is
under way is deleted when this attempt fails, for the worker decides on its snapshot
(worker.rs:77); queue.rs:13 calls abandoning permanent, but
an abandon while the message is being sent is overwritten by `nack`, and the message is
tried again; `is_submission` (unencrypted.rs:85) looks at the client's port, so the
submission port demands no login before MAIL (state.rs:14); the worker deletes an exhausted entry, so
`nack`'s automatic `abandoned` is never reached (worker.rs:83, queue.rs:17); the delay is
computed from the attempts before the failure, so the second attempt has none
(queue.rs:278, queue.rs:16); an operator's retry of a local delivery's record hands it to
the worker, which deletes it (queue.rs:310, queue.rs:190); a retry between the two
statements of `nack` is overwritten (queue.rs:12); on SQLite an entry abandoned between
the two statements of `pop` is sent (queue.rs:493); `None` of `fetch_mta_sts_policy` also
stands for a failed lookup (mta_sts.rs:91); REQUIRETLS is never cleared and
outlives its message (mail.rs:115);
on SQLite two concurrent stores get the same UID (maildir.rs:209); a listing that overlaps
with a store shows UID 0 (maildir.rs:389); COPYUID and APPENDUID may name another
connection's message (move_.rs:146); MOVE is not atomic (move_.rs:141, move_.rs:7);
STORE -FLAGS sets the flags it should remove (maildir.rs:550); a renamed folder keeps the UIDs of its messages, but the counter of its
new name starts at 1, so that UIDs are given out twice (rename.rs:50); after a DKIM or DMARC
rejection the session stays in `ReceivingData` and keeps sender and recipients, so the next
lines up to a "." become part of the rejected message, and are stored under its envelope if
they are accepted then (data.rs:388-448).

In the IMAP session: STORE is allowed after EXAMINE (store.rs:37; `ReadOnlyKeepsMail` is
about messages, not flags); a literal of one line without a line end is not found complete,
and swallows the next command (append.rs:164-169); a line end at the end of a literal is cut
off (append.rs:159), and the line end of the command is then answered with BAD; after
`UTF8 (~{n}` (parsers.rs:973-976) the ")" that ends the command is stored with a literal that
does not end in a line end, and with one of a single line that does; LIST joins
reference and pattern to the user's directory as they come (list.rs:118-131, 160-186, 215-226),
so that ".." leads to the folders and flags of other accounts; a folder named "." is the
directory above; APPEND
without flags or date is refused (append.rs:46); UIDVALIDITY is called stable (select.rs:25)
but is read, chosen and written in three steps; UIDNEXT is looked for under the on-disk name
(select.rs:142), APPEND stores under the other (append.rs:181-184); IDLE announces nothing
that arrives between its answer and the start of the watch (encrypted.rs:235). In the codec:
after an error of `decode_eof` `next_index` is not reset (line_codec.rs:187), so a call after
it would be out of range; `Framed` makes none.

In folders: the test at maildir.rs:871 says that duplicate `add_flag` calls must not duplicate
flags, which holds one after the other but not for two connections, nor for two calls whose
first write is still in the background; an UNSUBSCRIBE that a SUBSCRIBE overlaps can leave
half a line in the flags file; UNSUBSCRIBE without a flags file is an error that ends the
connection; DELETE refuses every folder that CREATE made, since cur, new and tmp count as
inferior mailboxes, and removes a bare directory with whatever came into it since it looked
(delete.rs:72-85); STATUS of a folder that does not exist creates its directory, after which
SUBSCRIBE and APPEND set no special-use flag; when the process ends between the directory
and the flag, APPEND's folder stays unsubscribed; a reader of the empty `.uidvalidity` is
told 1, and after a crash in between this is the value for ever (select.rs:34-46); LIST "*"
shows the flags of the user's root directory as those of INBOX.

In the view of a client: EXPUNGE numbers "cur" in the order of the directory, while FETCH
and MOVE sort by UID (expunge.rs:78 says "in order"); STORE takes numbers for UIDs and answers
with UIDs as numbers, so that after `* 7 FETCH (UID 7 ...)` a client has a wrong number unless
the message happens to be the seventh (store.rs:98-110); a message without a row has UID 0,
comes first and shifts all numbers; a message that another connection moves during a
listing is listed twice; APPEND, COPY and removals in "cur" are not announced by IDLE until
something happens in "new"; a watcher that fails ends IDLE without a tagged answer
(encrypted.rs:268); the watch of a folder without "new" is of the folder itself.

In searches: a comma in a set of numbers ends the set, and whatever follows is dropped
(parsers.rs:809-842); an argument ends at its first character that is neither a letter nor a
digit, and what follows is dropped, so that `FROM smith@example.org UNSEEN` is answered as
`FROM smith` (parsers.rs:526-654, search.rs:55); a key that is refused after another one drops
itself and the rest of the list; quoted arguments, header names with a hyphen and CHARSET are
refused; a day of one digit, which the comment at parsers.rs:1002 allows, panics; RETURN (MIN
SAVE) answers BAD and then OK; several return options are written without blanks between them
(`COUNT 3ALL 1:3`, search.rs:177-226); UID 0 is dropped from ranges; ON matches midnight alone and
SINCE excludes it; numbers over 2^32 - 1, unreadable headers and days that no month has
panic; UID SEARCH takes plain numbers as UIDs.

## 6. Plan

Done: the queue with its worker and operator (the core: the only place where the server
holds mail that nobody else has), delivery, the SMTP session, the mail store, the IMAP
session, folders, the view of a client, searches, the line codec; proofs of every safety
property of all of these.

Next:

* A composition of sessions, queue and delivery: `push` by DATA, `SendOk` and `SendErr` by
  a run of `Delivery`; abstract specification: a message accepted for a domain reaches it,
  is given up or abandoned.

## 7. Not modelled, and why

The user database, administration and configuration are single statements or are read once.
SPF, DKIM, DMARC and rspamd are other services and libraries: their verdicts are free
choices. The parser of FETCH items and the layout of answers are pure text. Digests and
certificate chains of DANE, and the patterns of MTA-STS, are abstracted to equality and
membership. That a plain listener serves one connection at a time, and that no exchange with
a peer has a timeout, are hazards without a property: the code sets no bound, so a property
could only restate the assumption that peers and clients go on or go away.
