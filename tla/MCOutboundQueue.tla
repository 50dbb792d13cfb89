--------------------------- MODULE MCOutboundQueue ---------------------------
(* The model of OutboundQueue.  Its constants are sets of model values,    *)
(* given in the .cfg files; no symmetry, as the runs check liveness.       *)
EXTENDS OutboundQueue
=============================================================================
