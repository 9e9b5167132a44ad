----------------------------- MODULE MCMsclPage -----------------------------
(***************************************************************************)
(* Two nodes; two runs, so that a timer may wake in a run that is not its    *)
(* own, with the page as the client; and two requests on their way, so that   *)
(* one is answered between the two parts of the other.                       *)
(***************************************************************************)
EXTENDS MsclPage, TLC

AnyNode == Permutations(Nodes)
=============================================================================
