--------------------------- MODULE MCRedLabWriter ---------------------------
(***************************************************************************)
(* RedLabWriter with a queue of two batches, entries of one, two and three *)
(* batches (three never fits) and up to four entries.                       *)
(***************************************************************************)
EXTENDS RedLabWriter

Sizes == {1, 2, 3}
=============================================================================
