--------------------------- MODULE MCMailStore ---------------------------
(* The inbox, another folder and one or two connections, which are         *)
(* interchangeable.                                                        *)
EXTENDS MailStore, TLC

CONSTANTS p1, p2, inbox, sent

Interchangeable == Permutations({p1, p2})
=============================================================================
