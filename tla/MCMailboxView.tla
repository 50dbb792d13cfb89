---------------------------- MODULE MCMailboxView ----------------------------
(* The model of MailboxView: its constants are numbers, given in the .cfg. *)
EXTENDS MailboxView
=============================================================================
