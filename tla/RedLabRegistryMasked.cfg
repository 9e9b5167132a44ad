SPECIFICATION FairRegistrySpec
CONSTANTS
  d1 = d1
  d2 = d2
  Devices <- TwoDevices
  Confirmations = 2
  Cooldown = 1
  NoLife = NoLife
  MaxFaults = 2
PROPERTY EveryFailedReplaced
