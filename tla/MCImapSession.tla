--------------------------- MODULE MCImapSession ---------------------------
(* Two users, two folders, literals of at most MaxLiteral octets. *)
EXTENDS ImapSession, TLC

Symmetry == Permutations(Users) \cup Permutations(Folders)
=============================================================================
