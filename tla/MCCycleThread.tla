--------------------------- MODULE MCCycleThread ---------------------------
(***************************************************************************)
(* CycleThread with a deadman of one cycle, no controller deadline beyond  *)
(* the cycle itself, and an escalation on the second failed read in a row  *)
(* or the first failed write.                                              *)
(***************************************************************************)
EXTENDS CycleThread

VelocityMode == {"velocity"}
PositionMode == {"position"}
Synchronized == {TRUE}
EitherStart == {TRUE, FALSE}
=============================================================================
