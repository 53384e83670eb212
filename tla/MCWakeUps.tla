----------------------------- MODULE MCWakeUps -----------------------------
(***************************************************************************)
(* WakeUps with two failed reads in a row.                                 *)
(***************************************************************************)
EXTENDS WakeUps

Synchronized == {TRUE}
Periodic == {FALSE}
EitherStart == {TRUE, FALSE}
=============================================================================
