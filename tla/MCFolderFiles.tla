---------------------------- MODULE MCFolderFiles ----------------------------
(* Two connections of the user, which the model does not tell apart. *)
EXTENDS FolderFiles, TLC
Symmetry == Permutations(Conns)
=============================================================================
