SPECIFICATION PageSpec
CONSTANTS
  Nodes = {n1, n2}
  NoNode = NoNode
  MaxStarts = 2
  MaxInFlight = 2
INVARIANTS
  WritesIdleNode
