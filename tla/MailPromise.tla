----------------------------- MODULE MailPromise -----------------------------
(***************************************************************************)
(* What the outbound queue promises for each message, without rows,        *)
(* statements or a worker: a message that was accepted stays queued until  *)
(* it was delivered or MAX_ATTEMPTS deliveries failed, and every delivery  *)
(* uses up a credit.  Accepting the message gives one credit and each      *)
(* retry the operator asks for gives another.                              *)
(***************************************************************************)
EXTENDS Integers

CONSTANTS Messages, MAX_ATTEMPTS

VARIABLES phase, credit, delivered, failures

promise == <<phase, credit, delivered, failures>>

PInit ==
  /\ phase = [m \in Messages |-> "new"]
  /\ credit = [m \in Messages |-> 0]
  /\ delivered = [m \in Messages |-> 0]
  /\ failures = [m \in Messages |-> 0]

AcceptMail(m) ==
  /\ phase[m] = "new"
  /\ phase' = [phase EXCEPT ![m] = "queued"]
  /\ credit' = [credit EXCEPT ![m] = 1]
  /\ UNCHANGED <<delivered, failures>>

Deliver(m) ==
  /\ phase[m] = "queued"
  /\ credit[m] > 0
  /\ credit' = [credit EXCEPT ![m] = @ - 1]
  /\ delivered' = [delivered EXCEPT ![m] = @ + 1]
  /\ UNCHANGED <<phase, failures>>

Fail(m) ==
  /\ phase[m] = "queued"
  /\ failures' = [failures EXCEPT ![m] = @ + 1]
  /\ UNCHANGED <<phase, credit, delivered>>

AskAgain(m) ==
  /\ phase[m] = "queued"
  /\ credit' = [credit EXCEPT ![m] = @ + 1]
  /\ UNCHANGED <<phase, delivered, failures>>

Settle(m) ==
  /\ phase[m] = "queued"
  /\ delivered[m] > 0 \/ failures[m] >= MAX_ATTEMPTS
  /\ phase' = [phase EXCEPT ![m] = "settled"]
  /\ UNCHANGED <<credit, delivered, failures>>

PNext == \E m \in Messages : AcceptMail(m) \/ Deliver(m) \/ Fail(m) \/ AskAgain(m) \/ Settle(m)

PSpec == PInit /\ [][PNext]_promise
=============================================================================
