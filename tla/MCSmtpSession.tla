--------------------------- MODULE MCSmtpSession ---------------------------
(* One account, an address without one, an address of another domain and one *)
(* without a domain.                                                         *)
EXTENDS SmtpSession

CONSTANTS u1, x1, r1, b1
=============================================================================
