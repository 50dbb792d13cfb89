---------------------------- MODULE MCLineCodec ----------------------------
(* All inputs of MaxInput bytes and their prefixes, in all pieces. *)
EXTENDS LineCodec
=============================================================================
