SPECIFICATION Spec
CONSTANTS
  ListHead = ListHead
  AllInterfaces = AllInterfaces
  TheBridge = TheBridge
  a = a  b = b  c = c  h1 = h1  h2 = h2  n1 = n1  n2 = n2  k1 = k1  k2 = k2
  Interfaces = {a, b, c}
  Handlers = {h1}
  Nodes = {n1, n2}
  NodeHandlers = {}
  DeviceIds <- RoutingIds
  TableIds <- RoutingIds
  Broadcast <- Broadcasting
  Senders = {3, 255}
  NodeIds = {1, 2}
  InitialInterfaces <- RoutingInterfaces
  InitialMirrors = {c}
  InitialQuiet = {}
  InitialHandlers <- RoutingHandlers
  InitialNodeHandlers <- RoutingNodeHandlers
  InitialOwnId <- RoutingOwnId
  Api <- RoutingApi
  Discipline <- AllRules
  MaxCalls = 3
  MaxReads = 2
  MaxChunk = 1
PROPERTIES BroadcastReachesAll
