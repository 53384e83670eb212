--------------------------- MODULE MCAsyncWriter ---------------------------
(***************************************************************************)
(* AsyncWriter with a four-byte queue and rows of one, two and three       *)
(* bytes: a long row can be dropped while a short one behind it would fit, *)
(* and several rows share a batch.                                         *)
(***************************************************************************)
EXTENDS AsyncWriter

MCRowSizes == {1, 2, 3}
=============================================================================
