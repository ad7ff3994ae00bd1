SPECIFICATION Spec
CONSTANTS
  n1 = n1
  Nodes = {n1}
  NodeIds = {1, 2}
  Receivers = {3, 7}
  MaxId = 7
  MaxDevices = 8
  CounterRange = 3
  InitialOwnId <- OneNode
  MaxSends = 5
  MaxRenames = 1
  MaxDepth = 2
INVARIANTS TypeOK NoMissUnlessNested
PROPERTY MissesAreGaps
