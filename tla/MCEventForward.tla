--------------------------- MODULE MCEventForward ---------------------------
(* A small instance of EventForward for TLC.                               *)
EXTENDS EventForward
=============================================================================
