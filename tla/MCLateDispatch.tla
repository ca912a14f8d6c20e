--------------------------- MODULE MCLateDispatch ---------------------------
(* The instance of MCRescueFanout with the history of late phases.         *)
EXTENDS LateDispatch, MCRescueFanout
=============================================================================
