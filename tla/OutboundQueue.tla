--------------------------- MODULE OutboundQueue ---------------------------
(***************************************************************************)
(* The persistent outbound queue of the mail server and everything that    *)
(* writes to it: the SMTP sessions that push, the single worker task that  *)
(* pops, sends and acknowledges, and the operator's tool that retries,     *)
(* flushes and abandons entries from a process of its own.                 *)
(*                                                                         *)
(* A statement sent to the database is one atomic step; two statements of  *)
(* one function are two steps.  Time is the order in which next_retry_at   *)
(* passes: `due' lists the ids whose retry time has come, oldest first,    *)
(* which is the order of "ORDER BY next_retry_at".                         *)
(***************************************************************************)
EXTENDS Integers, FiniteSets, Sequences, SequencesExt

CONSTANTS
  Emails,        \* ids of messages pushed for remote delivery
  Audits,        \* ids of the audit records of local deliveries
  NoId,          \* the worker holds no entry
  MAX_ATTEMPTS,  \* delivery attempts before an entry is given up
  Backends,      \* the databases a server may be built for
  MaxTrouble,    \* bound: the operator's retries, failed statements, lost answers
                 \* and ends of the process, together
  MaxEntries     \* bound: rows ever inserted

Ids == Emails \cup Audits

ASSUME IdsAssumption     == Emails \cap Audits = {} /\ NoId \notin Ids
ASSUME AttemptsAssumption == MAX_ATTEMPTS \in Nat \ {0}
ASSUME BackendAssumption == Backends \subseteq {"postgres", "sqlite"}
ASSUME BoundsAssumption  == {MaxTrouble, MaxEntries} \subseteq Nat

VARIABLES
  backend, \* the database this server was built for
  tbl,     \* the table outbound_queue: one row for each id ever inserted
  due,     \* ids whose next_retry_at <= NOW(), in that order
  pc,      \* where the worker task is
  held,    \* id of the QueueEntry the worker took
  snap,    \* entry.attempts in that QueueEntry
  read,    \* what nack's SELECT returned
  flush,   \* ids a running "queue flush" has still to retry
  \* history, read by no action of the program
  clean,   \* per id: send_email_job returned Ok
  fails,   \* per id: send_email_job returned Err
  forced,  \* per id: force_retry reached the row
  faults,  \* failed statements so far
  stops    \* ends of the process so far

table   == <<tbl, due>>
worker  == <<pc, held, snap, read>>
history == <<clean, fails, forced>>
trouble == <<faults, stops>>
vars    == <<backend, table, worker, flush, history, trouble>>

\* The bound is not reached: r is the n-th retry of an entry.
MoreTrouble ==
  faults + stops + Cardinality({r \in Ids \X (1 .. MaxTrouble) : r[2] <= forced[r[1]]})
    < MaxTrouble

-----------------------------------------------------------------------------
(* Rows *)

QueueStatus == {"pending", "delivering", "failed", "abandoned", "delivered"}

\* "unborn": the UUID is not used yet; "deleted": its row has been removed.
Row == [status   : QueueStatus \cup {"unborn", "deleted"},
        attempts : Nat,
        log      : Nat,    \* length of delivery_log
        delay    : Nat]    \* seconds added to NOW() by the last reschedule

InTable(id) == tbl[id].status \in QueueStatus

\* Seconds before the next retry.
retry_delay_secs(n) ==
  CASE n = 0 -> 0
    [] n = 1 -> 5 * 60
    [] n = 2 -> 15 * 60
    [] n = 3 -> 60 * 60
    [] OTHER -> 4 * 60 * 60

\* The WHERE clause of pop, without the due time.  (Names that begin with Bug_
\* are mutated forms of the definition they precede; no action uses them.)
Bug_EligibleInFlight(id)  == tbl[id].status \in {"pending", "failed", "delivering"}
                             /\ tbl[id].attempts < MAX_ATTEMPTS
Bug_EligibleShort(id)     == tbl[id].status \in {"pending", "failed"}
                             /\ tbl[id].attempts + 1 < MAX_ATTEMPTS
Eligible(id) == tbl[id].status \in {"pending", "failed"}
                /\ tbl[id].attempts < MAX_ATTEMPTS

\* ORDER BY next_retry_at LIMIT 1.
FirstDue(id) ==
  \E k \in DOMAIN due :
    /\ due[k] = id
    /\ Eligible(id)
    /\ \A j \in 1 .. k - 1 : ~Eligible(due[j])

Without(s, id) ==
  IF \E i \in DOMAIN s : s[i] = id
  THEN RemoveAt(s, CHOOSE i \in DOMAIN s : s[i] = id)
  ELSE s

\* next_retry_at := NOW() + delay.
Reschedule(id, delay) ==
  due' = IF delay = 0 THEN Append(Without(due, id), id) ELSE Without(due, id)

-----------------------------------------------------------------------------
(* The SMTP sessions: DATA queues one entry per accepted message *)

\* A server runs, and id is a fresh UUID.
CanInsert(id) ==
  /\ pc # "down"
  /\ tbl[id].status = "unborn"
  /\ Cardinality({i \in Ids : tbl[i].status # "unborn"}) < MaxEntries

push(id) ==
  /\ id \in Emails /\ CanInsert(id)
  /\ tbl' = [tbl EXCEPT ![id].status = "pending"]
  /\ due' = Append(due, id)
  /\ UNCHANGED <<worker, flush, history, trouble>>

\* A local delivery is only recorded: next_retry_at is the year 9999.
Bug_push_local(id) ==
  /\ id \in Audits /\ CanInsert(id)
  /\ tbl' = [tbl EXCEPT ![id].status = "pending"]
  /\ due' = Append(due, id)
  /\ UNCHANGED <<worker, flush, history, trouble>>
push_local(id) ==
  /\ id \in Audits /\ CanInsert(id)
  /\ tbl' = [tbl EXCEPT ![id].status = "delivered"]
  /\ UNCHANGED <<due, worker, flush, history, trouble>>

\* A scheduled retry time passes.
TimePasses(id) ==
  /\ InTable(id) /\ tbl[id].status # "delivered"
  /\ \A i \in DOMAIN due : due[i] # id
  /\ due' = Append(due, id)
  /\ UNCHANGED <<tbl, worker, flush, history, trouble>>

-----------------------------------------------------------------------------
(* The worker task *)

\* The QueueEntry goes out of scope.
Drop == held' = NoId /\ snap' = 0 /\ read' = [attempts |-> 0, log |-> 0]

\* The poll interval elapses and process_queue starts.
Wake ==
  /\ pc = "sleep"
  /\ pc' = "poll"
  /\ UNCHANGED <<table, held, snap, read, flush, history, trouble>>

\* pop returns None: process_queue returns to the sleep.
PopNone ==
  /\ pc = "poll"
  /\ ~ \E id \in Ids : FirstDue(id)
  /\ pc' = "sleep"
  /\ UNCHANGED <<table, held, snap, read, flush, history, trouble>>

Claimed(id) == [tbl EXCEPT ![id].status = "delivering"]

\* PostgreSQL: one UPDATE ... RETURNING.  The row is claimed, and then the
\* answer cannot be read: `status' comes as outbound_queue_status, a type of its
\* own, and a String is decoded from text types only.  So pop is an error every
\* time there is an entry, and process_queue returns.
Pop(id) ==
  /\ backend = "postgres" /\ pc = "poll"
  /\ FirstDue(id)
  /\ tbl' = Claimed(id)
  /\ pc' = "sleep"
  /\ UNCHANGED <<due, held, snap, read, flush, history, trouble>>

\* SQLite: a SELECT, then an UPDATE by id.
PopSelect(id) ==
  /\ backend = "sqlite" /\ pc = "poll"
  /\ FirstDue(id)
  /\ held' = id /\ snap' = tbl[id].attempts
  /\ pc' = "claim"
  /\ UNCHANGED <<table, read, flush, history, trouble>>

PopUpdate ==
  /\ pc = "claim"
  /\ tbl' = IF InTable(held) THEN Claimed(held) ELSE tbl
  /\ pc' = "deliver"
  /\ UNCHANGED <<due, held, snap, read, flush, history, trouble>>

\* deliver: the audit record of a local delivery is no EmailPayload, and a
\* malformed entry is acknowledged.
PoisonPill ==
  /\ pc = "deliver" /\ held \in Audits
  /\ pc' = "ack"
  /\ UNCHANGED <<table, held, snap, read, flush, history, trouble>>

SendOk ==
  /\ pc = "deliver" /\ held \in Emails
  /\ clean' = [clean EXCEPT ![held] = @ + 1]
  /\ pc' = "ack"
  /\ UNCHANGED <<table, held, snap, read, flush, fails, forced, trouble>>

\* next_attempt >= MAX_ATTEMPTS.
Bug_GivesUpEarly == snap + 2 >= MAX_ATTEMPTS
Bug_NeverGivesUp == FALSE
GivesUp == snap + 1 >= MAX_ATTEMPTS

Bug_SendErr ==
  /\ pc = "deliver" /\ held \in Emails
  /\ fails' = [fails EXCEPT ![held] = @ + 1]
  /\ IF GivesUp THEN pc' = "poll" /\ Drop ELSE pc' = "nack" /\ UNCHANGED <<held, snap, read>>
  /\ UNCHANGED <<table, flush, clean, forced, trouble>>
SendErr ==
  /\ pc = "deliver" /\ held \in Emails
  /\ fails' = [fails EXCEPT ![held] = @ + 1]
  /\ pc' = IF GivesUp THEN "ack" ELSE "nack"
  /\ UNCHANGED <<table, held, snap, read, flush, clean, forced, trouble>>

\* DELETE: after a delivery, for a malformed entry and for an exhausted one.
Ack ==
  /\ pc = "ack"
  /\ tbl' = IF InTable(held) THEN [tbl EXCEPT ![held].status = "deleted"] ELSE tbl
  /\ due' = Without(due, held)
  /\ pc' = "poll" /\ Drop
  /\ UNCHANGED <<flush, history, trouble>>

\* nack, first statement; without a row it goes on with (0, "[]").
NackRead ==
  /\ pc = "nack"
  /\ read' = IF InTable(held)
             THEN [attempts |-> tbl[held].attempts, log |-> tbl[held].log]
             ELSE [attempts |-> 0, log |-> 0]
  /\ pc' = "record"
  /\ UNCHANGED <<table, held, snap, flush, history, trouble>>

\* The row nack writes from what it read.
Bug_NackRow == [status   |-> IF read.attempts + 1 >= MAX_ATTEMPTS THEN "abandoned" ELSE "failed",
                attempts |-> read.attempts + 1,
                log      |-> 1,
                delay    |-> retry_delay_secs(read.attempts)]
NackRow ==
  [status   |-> IF read.attempts + 1 >= MAX_ATTEMPTS THEN "abandoned" ELSE "failed",
   attempts |-> read.attempts + 1,
   log      |-> read.log + 1,
   delay    |-> retry_delay_secs(read.attempts)]

\* nack, second statement: UPDATE by id, whatever the row holds by now.
NackWrite ==
  /\ pc = "record"
  /\ IF InTable(held)
     THEN tbl' = [tbl EXCEPT ![held] = NackRow] /\ Reschedule(held, NackRow.delay)
     ELSE UNCHANGED table
  /\ pc' = "poll" /\ Drop
  /\ UNCHANGED <<flush, history, trouble>>

-----------------------------------------------------------------------------
(* Failures *)

Fault == MoreTrouble /\ faults' = faults + 1 /\ UNCHANGED stops

\* pop fails: process_queue returns.  The UPDATE may have been applied.
PopFails ==
  /\ Fault
  /\ pc \in {"poll", "claim"}
  /\ pc' = "sleep" /\ Drop
  /\ \/ UNCHANGED tbl
     \/ pc = "claim" /\ InTable(held) /\ tbl' = Claimed(held)
  /\ UNCHANGED <<due, flush, history>>

\* ack or nack fails before its statement took effect: logged, and the loop
\* goes on with the next entry.
AckOrNackFails ==
  /\ Fault
  /\ pc \in {"ack", "nack", "record"}
  /\ pc' = "poll" /\ Drop
  /\ UNCHANGED <<table, flush, history>>

\* The process ends: on a signal main returns without waiting for the worker.
Stop ==
  /\ MoreTrouble /\ stops' = stops + 1
  /\ pc # "down"
  /\ pc' = "down" /\ Drop
  /\ UNCHANGED <<table, flush, history, faults>>

\* A new process starts its worker; nothing looks at rows left `delivering'.
Start ==
  /\ pc = "down"
  /\ pc' = "sleep"
  /\ UNCHANGED <<table, held, snap, read, flush, history, trouble>>

-----------------------------------------------------------------------------
(* The operator: eroosterctl queue retry | flush | abandon *)

\* UPDATE by id; there is no condition on the status.
Bug_force_retry(id) ==
  /\ MoreTrouble
  /\ InTable(id)
  /\ tbl' = [tbl EXCEPT ![id] =
              [status |-> "pending", attempts |-> 0, log |-> 0, delay |-> 0]]
  /\ Reschedule(id, 0)
  /\ forced' = [forced EXCEPT ![id] = @ + 1]
force_retry(id) ==
  /\ MoreTrouble
  /\ InTable(id)
  /\ tbl' = [tbl EXCEPT ![id] =
              [status |-> "pending", attempts |-> 0, log |-> @.log, delay |-> 0]]
  /\ Reschedule(id, 0)
  /\ forced' = [forced EXCEPT ![id] = @ + 1]

Retry(id) ==
  /\ force_retry(id)
  /\ UNCHANGED <<worker, flush, clean, fails, trouble>>

\* flush lists the failed entries, then retries them one by one.
FlushList ==
  /\ flush = {}
  /\ flush' = {id \in Ids : tbl[id].status = "failed"}
  /\ UNCHANGED <<table, worker, history, trouble>>

FlushOne(id) ==
  /\ id \in flush
  /\ flush' = flush \ {id}
  /\ \/ force_retry(id)
     \/ ~InTable(id) /\ UNCHANGED <<table, forced>>
  /\ UNCHANGED <<worker, clean, fails, trouble>>

Abandon(id) ==
  /\ InTable(id)
  /\ tbl' = [tbl EXCEPT ![id].status = "abandoned"]
  /\ UNCHANGED <<due, worker, flush, history, trouble>>

-----------------------------------------------------------------------------
(* Specification *)

Init ==
  /\ backend \in Backends
  /\ tbl = [id \in Ids |-> [status |-> "unborn", attempts |-> 0, log |-> 0, delay |-> 0]]
  /\ due = <<>>
  /\ pc = "sleep" /\ held = NoId /\ snap = 0
  /\ read = [attempts |-> 0, log |-> 0]
  /\ flush = {}
  /\ clean  = [id \in Ids |-> 0]
  /\ fails  = [id \in Ids |-> 0]
  /\ forced = [id \in Ids |-> 0]
  /\ faults = 0 /\ stops = 0

\* What the worker does by itself, and the two ends of send_email_job.
OwnStep ==
  \/ Wake \/ PopNone \/ PopUpdate \/ PoisonPill
  \/ Ack \/ NackRead \/ NackWrite
  \/ \E id \in Ids : Pop(id) \/ PopSelect(id)
SendStep == SendOk \/ SendErr

SessionStep  == \E id \in Ids : push(id) \/ push_local(id)
FailureStep  == PopFails \/ AckOrNackFails \/ Stop \/ Start
OperatorStep == FlushList \/ \E id \in Ids : Retry(id) \/ FlushOne(id) \/ Abandon(id)
ClockStep    == \E id \in Ids : TimePasses(id)

Next ==
  /\ OwnStep \/ SendStep \/ SessionStep \/ FailureStep \/ OperatorStep \/ ClockStep
  /\ UNCHANGED backend

Spec == Init /\ [][Next]_vars

\* The worker task is scheduled, retry times pass, a stopped server is started
\* again.  Nothing is assumed of the sessions, of the operator and of the other
\* servers: send_email_job has no timeout once it is connected, so SendStep
\* may never happen.
Fairness ==
  /\ WF_vars(OwnStep /\ UNCHANGED backend)
  /\ WF_vars(Start /\ UNCHANGED backend)
  /\ \A id \in Ids : WF_vars(TimePasses(id) /\ UNCHANGED backend)

FairSpec == Spec /\ Fairness

-----------------------------------------------------------------------------
(* Invariants *)

PC == {"sleep", "poll", "claim", "deliver", "ack", "nack", "record", "down"}

\* The worker has popped an entry and has not settled it yet.
InFlight == pc \in {"claim", "deliver", "ack", "nack", "record"}

\* Every variable has its type, and the worker holds an entry exactly while
\* it is between pop and ack or nack.
TypeOK ==
  /\ backend \in Backends
  /\ tbl \in [Ids -> Row]
  /\ due \in Seq(Ids)
  /\ pc \in PC
  /\ held \in Ids \cup {NoId}
  /\ InFlight <=> held # NoId
  /\ snap \in Nat
  /\ read \in [attempts : Nat, log : Nat]
  /\ flush \subseteq Ids
  /\ clean \in [Ids -> Nat] /\ fails \in [Ids -> Nat] /\ forced \in [Ids -> Nat]
  /\ faults \in Nat /\ stops \in Nat

Undisturbed == faults = 0 /\ stops = 0

\* deliver deletes a row on three paths.  A message is never removed from the
\* queue unless a delivery succeeded or MAX_ATTEMPTS deliveries failed, however
\* the operator's retries change `attempts' under the worker's snapshot.
NoSilentLoss ==
  \A id \in Emails :
    tbl[id].status = "deleted" => clean[id] > 0 \/ fails[id] >= MAX_ATTEMPTS

\* The worker, its retries, restarts and failed statements alone never send a
\* delivered message again: each further delivery has a force_retry of its own.
ResendOnlyOnRequest == \A id \in Ids : clean[id] <= 1 + forced[id]

Left(id) == tbl[id].status = "delivering" /\ held # id

\* On SQLite and as long as nothing failed, `delivering' means what QueueStatus
\* says of it, whatever the operator does meanwhile: the worker has the entry
\* in its hands.  A row for which it has not is one that no pop will select.
DeliveringIsHeld ==
  backend = "sqlite" /\ Undisturbed => \A id \in Ids : ~Left(id)

\* The worker gives an entry up before nack would: the snapshot it decides on
\* is never behind the row, so no row reaches MAX_ATTEMPTS and none is left
\* that pop would skip for its attempts.
NeverStranded ==
  \A id \in Ids : InTable(id) => tbl[id].attempts < MAX_ATTEMPTS

\* delivery_log records every failed attempt and nothing else, although nack
\* rewrites the whole array from an earlier SELECT.  (A nack that fails loses
\* its line, hence the condition.)
LogIsComplete ==
  Undisturbed =>
    \A id \in Ids : InTable(id) /\ held # id => tbl[id].log = fails[id]

\* The record of a local delivery is in the table until an operator retries it.
AuditIsKept ==
  \A id \in Audits : tbl[id].status = "deleted" => forced[id] > 0

-----------------------------------------------------------------------------
(* The inductive invariant *)

\* Only Ack deletes, so the held entry has a row.
HeldHasRow == InFlight => InTable(held)

\* A further delivery of id can only come after a retry that is not used up;
\* an entry queued again while it is being sent has two deliveries to come.
Credit ==
  \A id \in Ids :
    /\ clean[id] <= 1 + forced[id]
    /\ \/ tbl[id].status \in {"unborn", "pending", "failed"}
       \/ held = id /\ pc \in {"claim", "deliver", "nack", "record"}
       => clean[id] <= forced[id]
    /\ held = id /\ pc = "deliver" /\ tbl[id].status \in {"pending", "failed"}
       => clean[id] + 1 <= forced[id]

\* `attempts' counts failures since the last retry; the snapshot the worker
\* decides on is at least the row's value, because only retries intervene.
Attempts ==
  /\ \A id \in Ids : tbl[id].attempts < MAX_ATTEMPTS /\ tbl[id].attempts <= fails[id]
  /\ InFlight => tbl[held].attempts <= snap /\ snap <= fails[held]
  /\ pc \in {"nack", "record"} => snap + 1 < MAX_ATTEMPTS /\ snap + 1 <= fails[held]
  /\ pc = "record" => read.attempts <= snap
  /\ pc = "ack" /\ held \in Emails => clean[held] > 0 \/ fails[held] >= MAX_ATTEMPTS

\* The log nack read is still the row's log when nack writes it.
ReadIsCurrent == pc = "record" => read.log = tbl[held].log

\* An audit record gets into the worker's hands through a retry only.
AuditForced ==
  \A id \in Audits :
    held = id \/ tbl[id].status \in {"pending", "delivering", "failed", "deleted"} => forced[id] > 0

\* A UUID without a row has no history.
Unborn ==
  \A id \in Ids : tbl[id].status = "unborn" => clean[id] = 0 /\ forced[id] = 0

LogCounts ==
  Undisturbed =>
    /\ \A id \in Ids : held # id /\ tbl[id].status # "deleted" => tbl[id].log = fails[id]
    /\ pc \in {"claim", "deliver"} => tbl[held].log = fails[held]
    /\ pc \in {"nack", "record"} => tbl[held].log + 1 = fails[held]

IInv ==
  /\ TypeOK
  /\ HeldHasRow
  /\ Credit
  /\ Attempts
  /\ NoSilentLoss
  /\ ReadIsCurrent
  /\ AuditForced
  /\ DeliveringIsHeld
  /\ LogCounts
  /\ Unborn

-----------------------------------------------------------------------------
(* Action properties *)

\* delivery_log is append-only: as long as its row exists it never shrinks,
\* and it grows by one line at a time.
LogGrows ==
  \A id \in Ids : InTable(id) /\ InTable(id)' =>
    tbl'[id].log \in {tbl[id].log, tbl[id].log + 1}

LogIsAppendOnly == [][LogGrows]_vars

-----------------------------------------------------------------------------
(* Liveness *)

WaitsForPeer == pc = "deliver" /\ held \in Emails
Settled(id) == tbl[id].status \in {"deleted", "abandoned"}

\* A worker that does not wait for a silent peer for good settles every message
\* that is queued, or leaves it `delivering' after a failed statement, a stop or
\* an answer it cannot read: none starves behind others that keep failing, and
\* none is left pending or failed where pop no longer selects it.
EventuallySettled ==
  \/ <>[]WaitsForPeer
  \/ \A id \in Emails :
       tbl[id].status \in {"pending", "failed"} ~> (Settled(id) \/ Left(id))

-----------------------------------------------------------------------------
(* Refinement *)

phaseBar == [id \in Emails |-> CASE tbl[id].status = "unborn"  -> "new"
                                 [] tbl[id].status = "deleted" -> "settled"
                                 [] OTHER -> "queued"]
creditBar == [id \in Emails |-> IF tbl[id].status = "unborn" THEN 0 ELSE 1 + forced[id] - clean[id]]
cleanBar == [id \in Emails |-> clean[id]]
failsBar == [id \in Emails |-> fails[id]]

Promise == INSTANCE MailPromise WITH
  Messages <- Emails, phase <- phaseBar, credit <- creditBar,
  delivered <- cleanBar, failures <- failsBar

\* The rows, the worker and the operator's tool together keep the promise of
\* MailPromise: no delivery without a credit, no removal of a message that is
\* neither delivered nor out of attempts, nothing sent after its removal.
KeepsPromise == Promise!PSpec

-----------------------------------------------------------------------------
(* What the documentation says of the queue *)

\* "emails survive server restarts": a queued message is settled although the
\* server was restarted.
SurvivesRestart ==
  \/ <>[]WaitsForPeer
  \/ \A id \in Emails : tbl[id].status = "pending" ~> (Settled(id) \/ faults > 0)

\* "Currently being delivered by the worker": what QueueStatus says of
\* `delivering', on any database.
DeliveringIsCurrent == Undisturbed => \A id \in Ids : ~Left(id)
=============================================================================
