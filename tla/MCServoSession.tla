--------------------------- MODULE MCServoSession ---------------------------
(***************************************************************************)
(* ServoSession with two joints: one servo's failure leaves the other in   *)
(* the state the sequence gave it.                                         *)
(***************************************************************************)
EXTENDS ServoSession

HoldAndCurrent == {"position", "current"}
CurrentMode == {"current"}
=============================================================================
