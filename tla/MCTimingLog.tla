---------------------------- MODULE MCTimingLog ----------------------------
(* A ring of two slots whose indices wrap at four, and five cycles in two  *)
(* thread runs.                                                            *)
EXTENDS TimingLog

MCRecord == 0..MaxCycles
=============================================================================
