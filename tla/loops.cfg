SPECIFICATION FairSpec
CONSTANTS
  ListHead = ListHead
  AllInterfaces = AllInterfaces
  TheBridge = TheBridge
  a = a  b = b  c = c  h1 = h1  h2 = h2  n1 = n1  n2 = n2  k1 = k1  k2 = k2
  Interfaces = {a, b}
  Handlers = {h1, h2}
  Nodes = {n1}
  NodeHandlers = {k1, k2}
  DeviceIds = {1, 2}
  TableIds = {1, 2}
  Broadcast <- Broadcasting
  Senders = {2}
  NodeIds = {1}
  InitialInterfaces <- LoopInterfaces
  InitialMirrors = {}
  InitialQuiet = {h1, k1}
  InitialHandlers <- LoopHandlers
  InitialNodeHandlers <- LoopNodeHandlers
  InitialOwnId <- LoopOwnId
  Api <- LoopApi
  Discipline <- AllRules
  MaxCalls = 3
  MaxReads = 1
  MaxChunk = 2
INVARIANTS TypeOK RoutesAreLive NoUseAfterRemoval NoHandlerSkipped
PROPERTY EveryCallReturns
