SPECIFICATION OwnershipSpec
CONSTANTS
  ListHead = ListHead
  AllInterfaces = AllInterfaces
  TheBridge = TheBridge
  a = a  b = b  h1 = h1  h2 = h2  n1 = n1  k1 = k1
  Interfaces = {a, b}
  Handlers = {h1, h2}
  Nodes = {n1}
  NodeHandlers = {k1}
  DeviceIds = {1, 2, 3}
  TableIds = {1, 2, 3}
  Broadcast = 3
  Senders = {2}
  NodeIds = {1}
  IdRange = 4
  RoutingNumbers <- Numbers
  InitialInterfaces <- OneInterface
  InitialMirrors = {}
  InitialQuiet = {}
  InitialHandlers <- HandlerAndNode
  InitialNodeHandlers <- OneNodeHandler
  InitialOwnId <- OneOwnId
  Api <- OwnershipApi
  Discipline <- AnyNumbers
  MaxCalls = 3
  MaxReads = 1
  MaxChunk = 1
PROPERTIES BroadcastReachesAll
CHECK_DEADLOCK FALSE
