------------------------ MODULE MCServiceController ------------------------
(***************************************************************************)
(* mscl is kept without its device (MSCL_UI_ALLOW_WITHOUT_SERIAL), redlab  *)
(* is not.                                                                 *)
(***************************************************************************)
EXTENDS ServiceController, TLC

CONSTANTS mscl, redlab, msclC, redlabC

AllTargets == {mscl, redlab}
AllContainers == {msclC, redlabC}
Map == mscl :> <<msclC>> @@ redlab :> <<redlabC>>
OneKept == {mscl}
=============================================================================
