--------------------------- MODULE MCAlmemoStreams ---------------------------
(***************************************************************************)
(* Both streams, and a reader for each that four requests may start.       *)
(***************************************************************************)
EXTENDS AlmemoStreams

CONSTANTS live, fast

TwoStreams == {live, fast}
LiveFirst == <<live, fast>>
=============================================================================
