-------------------------- MODULE MCRedLabRegistry --------------------------
(***************************************************************************)
(* Two confirmations, a cooldown of one tick, and two devices with two     *)
(* faults.                                                                 *)
(***************************************************************************)
EXTENDS RedLabRegistry

CONSTANTS d1, d2

TwoDevices == {d1, d2}
=============================================================================
