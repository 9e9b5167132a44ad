SPECIFICATION FairControllerSpec
CONSTANTS
  mscl = mscl
  redlab = redlab
  msclC = msclC
  redlabC = redlabC
  Targets <- AllTargets
  Containers <- AllContainers
  TargetMap <- Map
  Guarded <- AllTargets
  Kept <- OneKept
  Settle = 1
  Retry = 2
  MaxRequests = 2
  MaxFaults = 2
PROPERTY StartsSettled
