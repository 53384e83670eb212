----------------------------- MODULE MCIdentRun -----------------------------
(* Units of half a second; windows, holds and captures are shortened. *)
EXTENDS IdentRun

MCOffsets == {0, 6, 9, 32}
MCRamps == {1}
=============================================================================
