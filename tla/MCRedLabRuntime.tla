-------------------------- MODULE MCRedLabRuntime --------------------------
(***************************************************************************)
(* One runtime with a review of two readings, a queue of two batches and   *)
(* up to three entries.                                                    *)
(***************************************************************************)
EXTENDS RedLabRuntime

Sizes == 1 .. ReviewBatches
=============================================================================
