------------------------- MODULE MCEventRecording --------------------------
(***************************************************************************)
(* Windows of one unit before and two after, over eight units of time, with *)
(* a window that waits at most four units for its video.                   *)
(***************************************************************************)
EXTENDS EventRecording
=============================================================================
