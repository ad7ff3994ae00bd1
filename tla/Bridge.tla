------------------------------- MODULE Bridge -------------------------------
(***************************************************************************)
(* One bridge with its external interfaces, bridge handlers and nodes:     *)
(* src/Bridge.c, src/Node.c and the setters of src/BridgeHandler.c,        *)
(* src/NodeHandler.c and src/ExternalInterface.c.                          *)
(*                                                                         *)
(* The library is single-threaded, but every handler it calls is code of   *)
(* the application, which may call back into the library: send, register   *)
(* and deregister what the library is looping over.  The call stack is     *)
(* therefore explicit: stack[1] is the innermost active call, and each     *)
(* frame holds the local variables and the place where the call is.        *)
(***************************************************************************)
EXTENDS LinkedList, Routing

CONSTANTS
  Interfaces, Handlers, Nodes, NodeHandlers,
  TheBridge,            \* the bridge pointer, as a route and as an origin
  DeviceIds, Broadcast,
  Senders,              \* sender ids of the messages other devices send
  NodeIds,              \* ids the application gives to its nodes
  InitialInterfaces, InitialMirrors, InitialHandlers, InitialQuiet,
  InitialNodeHandlers, InitialOwnId,    \* what the set-up phase registered
  Api,                  \* the calls this application makes
  Discipline,           \* the rules this application keeps, see below
  MaxCalls,             \* bound: calls of the application after set-up
  MaxReads, MaxChunk    \* bounds: reads that return bytes, messages in one

BridgeHandlers == Handlers \cup Nodes

ASSUME BridgeAssumption ==
  /\ ListHead \notin Interfaces \cup BridgeHandlers \cup NodeHandlers
  /\ TheBridge \notin Interfaces \cup {AllInterfaces} /\ AllInterfaces \notin Interfaces
  /\ Handlers \cap Nodes = {}
  /\ Senders \subseteq DeviceIds /\ NodeIds \subseteq DeviceIds
  /\ IsList(InitialInterfaces, Interfaces) /\ InitialMirrors \subseteq Interfaces
  /\ IsList(InitialHandlers, BridgeHandlers)
  /\ InitialQuiet \subseteq Handlers \cup NodeHandlers
  /\ InitialOwnId \in [Nodes -> DeviceIds]
  /\ "ids" \in Discipline =>
       \A m, n \in Nodes \cap Linked(InitialHandlers) : InitialOwnId[m] = InitialOwnId[n] => m = n
  /\ InitialNodeHandlers \in [Nodes -> Seq(NodeHandlers)]
  /\ \A n \in Nodes : IsList(InitialNodeHandlers[n], NodeHandlers)
  /\ MaxCalls \in Nat /\ MaxReads \in Nat /\ MaxChunk \in Nat

VARIABLES
  externalInterfaceList, bridgeHandlerList, nodeHandlerList,
  routingTable,
  forwarding,   \* NDLCOM_BRIDGE_FLAGS_FORWARDING_ENABLED
  mirrors,      \* the interfaces with FLAGS_DEBUG_MIRROR
  quiet,        \* the handlers with FLAGS_NO_MESSAGES_FROM_INTERNAL
  ownId,        \* headerConfig.mOwnSenderId of each node
  stack,
  calls, reads  \* how much of the bounds is used

lists == <<externalInterfaceList, bridgeHandlerList, nodeHandlerList>>
config == <<forwarding, mirrors, quiet, ownId>>
bounds == <<calls, reads>>
vars == <<lists, routingTable, config, stack, bounds>>

Messages == [sender : DeviceIds, receiver : DeviceIds]
Packets == [sender : Senders, receiver : DeviceIds]
Chunks == UNION {[1 .. n -> Packets] : n \in 0 .. MaxChunk}

(***************************************************************************)
(* The frames.  called and steady are history: the handlers a loop has     *)
(* called, and those that were neither removed nor reconfigured since it   *)
(* started.  mirrored and routed are the interfaces a message was written  *)
(* to, as a mirror and by its route.                                       *)
(***************************************************************************)
OnceFrame == [at : {"once.read", "once.check"}, pos : Interfaces \cup {ListHead},
              temp : Interfaces \cup {ListHead}, again : BOOLEAN, got : BOOLEAN]

ExternalFrame == [at : {"ext.parse", "ext.after"}, interface : Interfaces, chunk : Seq(Packets)]

DecodedFrame == [at : {"dec.loop", "dec.check"}, pos : BridgeHandlers \cup {ListHead},
                 temp : BridgeHandlers \cup {ListHead},
                 msg : Messages, origin : Interfaces \cup {TheBridge},
                 mirrored : SUBSET Interfaces, routed : SUBSET Interfaces,
                 called : SUBSET BridgeHandlers, steady : SUBSET BridgeHandlers]

NodeFrame == [at : {"node.loop", "node.next"}, pos : NodeHandlers \cup {ListHead},
              node : Nodes, origin : Interfaces \cup {TheBridge},
              called : SUBSET NodeHandlers, steady : SUBSET NodeHandlers]

UserFrame == [at : {"user"}]

Frames == OnceFrame \cup ExternalFrame \cup DecodedFrame \cup NodeFrame \cup UserFrame

Waiting == {"once.check", "ext.after", "dec.check", "node.next", "user"}

Top == stack[1]
Active(at) == stack # <<>> /\ Top.at = at
Push(frame, caller) == <<frame, caller>> \o Tail(stack)
Replace(frame) == <<frame>> \o Tail(stack)
Call(frame) == <<frame>> \o stack

TypeOK ==
  /\ externalInterfaceList \in Seq(Interfaces)
  /\ bridgeHandlerList \in Seq(BridgeHandlers)
  /\ nodeHandlerList \in [Nodes -> Seq(NodeHandlers)]
  /\ routingTable \in [TableIds -> Interfaces \cup {TheBridge, AllInterfaces}]
  /\ forwarding \in BOOLEAN
  /\ mirrors \subseteq Interfaces
  /\ quiet \subseteq Handlers \cup NodeHandlers
  /\ ownId \in [Nodes -> DeviceIds]
  /\ stack \in Seq(Frames)
  /\ calls \in 0 .. MaxCalls
  /\ reads \in 0 .. MaxReads

Registered == Linked(externalInterfaceList)
Attached == Linked(bridgeHandlerList)

(***************************************************************************)
(* The state after ndlcomBridgeInit() and the set-up calls.                *)
(***************************************************************************)
Init ==
  /\ externalInterfaceList = InitialInterfaces
  /\ bridgeHandlerList = InitialHandlers
  /\ nodeHandlerList = InitialNodeHandlers
  /\ routingTable = [id \in TableIds |->
       IF \E n \in Nodes \cap Linked(InitialHandlers) : InitialOwnId[n] = id
       THEN TheBridge ELSE RoutingTableInit[id]]
  /\ forwarding = TRUE
  /\ mirrors = InitialMirrors
  /\ quiet = InitialQuiet
  /\ ownId = InitialOwnId
  /\ stack = <<>>
  /\ calls = 0
  /\ reads = 0

-----------------------------------------------------------------------------
(***************************************************************************)
(* ndlcomBridgeProcessOutgoingMessage: who gets the bytes.                 *)
(***************************************************************************)
Destination(table, msg) == RoutingGetDestination(table, msg.receiver)

Mirrored(origin) == {i \in Registered : i # origin /\ i \in mirrors}

(***************************************************************************)
(* Mutation: without forwarding, the own messages stay inside, too.        *)
(***************************************************************************)
SuppressedAll(table, msg, origin) ==
  ~forwarding /\ Destination(table, msg) # TheBridge

Suppressed(table, msg, origin) ==
  ~forwarding /\ origin # TheBridge /\ Destination(table, msg) # TheBridge

(***************************************************************************)
(* Mutation: a message for the bridge itself is written to the bridge.     *)
(***************************************************************************)
RoutedToBridge(table, msg, origin) ==
  IF Suppressed(table, msg, origin) THEN {}
  ELSE IF Destination(table, msg) = AllInterfaces
       THEN {i \in Registered : i # origin /\ i \notin mirrors}
       ELSE {Destination(table, msg)} \ {origin}

Routed(table, msg, origin) ==
  IF Suppressed(table, msg, origin) THEN {}
  ELSE IF Destination(table, msg) = AllInterfaces
       THEN {i \in Registered : i # origin /\ i \notin mirrors}
       ELSE {Destination(table, msg)} \ {origin, TheBridge}

(***************************************************************************)
(* ndlcomBridgeProcessDecodedMessage up to the start of its loop: outgoing *)
(* first, then the handlers.                                               *)
(***************************************************************************)
Decoded(table, msg, origin) ==
  [at |-> "dec.loop",
   pos |-> SafeLoopPos(bridgeHandlerList), temp |-> SafeLoopTemp(bridgeHandlerList),
   msg |-> msg, origin |-> origin,
   mirrored |-> Mirrored(origin), routed |-> Routed(table, msg, origin),
   called |-> {}, steady |-> Attached]

Note(f, h) == [f EXCEPT !.called = @ \cup {h}]

(***************************************************************************)
(* A handler that is removed or reconfigured is no longer steady in any    *)
(* loop that is running.                                                   *)
(***************************************************************************)
Unsteady(h) ==
  [k \in 1 .. Len(stack) |->
     IF stack[k].at \in {"dec.check", "node.next"}
     THEN [stack[k] EXCEPT !.steady = @ \ {h}] ELSE stack[k]]

-----------------------------------------------------------------------------
(***************************************************************************)
(* ndlcomBridgeProcess (again = TRUE) and ndlcomBridgeProcessOnce, called  *)
(* by the main loop of the program and never from a handler.               *)
(***************************************************************************)
OnceLoop(again) ==
  [at |-> "once.read",
   pos |-> SafeLoopPos(externalInterfaceList), temp |-> SafeLoopTemp(externalInterfaceList),
   again |-> again, got |-> FALSE]

Process(again) ==
  /\ stack = <<>>
  /\ stack' = <<OnceLoop(again)>>
  /\ UNCHANGED <<lists, routingTable, config, bounds>>

(***************************************************************************)
(* The read of ndlcomBridgeProcessExternalInterface: nothing, or bytes     *)
(* that complete zero or more messages in the interface's parser.          *)
(***************************************************************************)
ReadNothing ==
  /\ Active("once.read") /\ Top.pos # ListHead
  /\ stack' = Replace([Top EXCEPT !.at = "once.check"])
  /\ UNCHANGED <<lists, routingTable, config, bounds>>

ReadBytes(chunk) ==
  /\ Active("once.read") /\ Top.pos # ListHead
  /\ reads < MaxReads
  /\ reads' = reads + 1
  /\ stack' = Push([at |-> "ext.parse", interface |-> Top.pos, chunk |-> chunk],
                   [Top EXCEPT !.at = "once.check", !.got = TRUE])
  /\ UNCHANGED <<lists, routingTable, config, calls>>

OnceCheck ==
  /\ Active("once.check")
  /\ stack' = Replace(CheckListInLoop(externalInterfaceList, [Top EXCEPT !.at = "once.read"]))
  /\ UNCHANGED <<lists, routingTable, config, bounds>>

OnceReturn ==
  /\ Active("once.read") /\ Top.pos = ListHead
  /\ stack' = IF Top.again /\ Top.got THEN Replace(OnceLoop(TRUE)) ELSE Tail(stack)
  /\ UNCHANGED <<lists, routingTable, config, bounds>>

(***************************************************************************)
(* Mutations: a device may claim an internal id; a mirror is learned from; *)
(* a device that moved to another interface is not followed.               *)
(***************************************************************************)
LearnedInternal(interface, msg) ==
  IF interface \notin mirrors
  THEN RoutingTableUpdate(routingTable, msg.sender, interface) ELSE routingTable

LearnedMirror(interface, msg) ==
  IF RoutingGetDestination(routingTable, msg.sender) # TheBridge
  THEN RoutingTableUpdate(routingTable, msg.sender, interface) ELSE routingTable

LearnedOnce(interface, msg) ==
  IF interface \notin mirrors /\ RoutingGetDestination(routingTable, msg.sender) = AllInterfaces
  THEN RoutingTableUpdate(routingTable, msg.sender, interface) ELSE routingTable

(***************************************************************************)
(* One message of the chunk: learn its sender, then process it.            *)
(***************************************************************************)
Learned(interface, msg) ==
  IF interface \notin mirrors /\ RoutingGetDestination(routingTable, msg.sender) # TheBridge
  THEN RoutingTableUpdate(routingTable, msg.sender, interface)
  ELSE routingTable

HandlePacket ==
  /\ Active("ext.parse") /\ Top.chunk # <<>>
  /\ routingTable' = Learned(Top.interface, Head(Top.chunk))
  /\ stack' = Push(Decoded(routingTable', Head(Top.chunk), Top.interface),
                   [Top EXCEPT !.at = "ext.after", !.chunk = Tail(@)])
  /\ UNCHANGED <<lists, config, bounds>>

(***************************************************************************)
(* Mutation: the bytes of a removed interface are parsed to the end.       *)
(***************************************************************************)
ExternalAfterUnchecked ==
  /\ Active("ext.after")
  /\ stack' = Replace([Top EXCEPT !.at = "ext.parse"])
  /\ UNCHANGED <<lists, routingTable, config, bounds>>

ExternalAfter ==
  /\ Active("ext.after")
  /\ stack' = IF ListEmpty(externalInterfaceList, Top.interface)
              THEN Tail(stack) ELSE Replace([Top EXCEPT !.at = "ext.parse"])
  /\ UNCHANGED <<lists, routingTable, config, bounds>>

ExternalReturn ==
  /\ Active("ext.parse") /\ Top.chunk = <<>>
  /\ stack' = Tail(stack)
  /\ UNCHANGED <<lists, routingTable, config, bounds>>

-----------------------------------------------------------------------------
(***************************************************************************)
(* The loop of ndlcomBridgeProcessDecodedMessage over the bridge handlers. *)
(***************************************************************************)
OptedOut(h, origin) == h \in quiet /\ origin = TheBridge

SkipHandler ==
  /\ Active("dec.loop") /\ Top.pos # ListHead
  /\ OptedOut(Top.pos, Top.origin)
  /\ stack' = Replace(SafeLoopNext(bridgeHandlerList, Top))
  /\ UNCHANGED <<lists, routingTable, config, bounds>>

CallHandler ==
  /\ Active("dec.loop") /\ Top.pos \in Handlers
  /\ ~OptedOut(Top.pos, Top.origin)
  /\ stack' = Push([at |-> "user"], Note([Top EXCEPT !.at = "dec.check"], Top.pos))
  /\ UNCHANGED <<lists, routingTable, config, bounds>>

(***************************************************************************)
(* ndlcomNodeMessageHandler: a node takes what is addressed to it, and     *)
(* broadcasts.                                                             *)
(***************************************************************************)
Accepts(n, msg) == msg.receiver = ownId[n] \/ msg.receiver = Broadcast

NodeLoop(n, origin) ==
  [at |-> "node.loop", pos |-> ListNext(nodeHandlerList[n], ListHead), node |-> n, origin |-> origin,
   called |-> {}, steady |-> Linked(nodeHandlerList[n])]

CallNode ==
  /\ Active("dec.loop") /\ Top.pos \in Nodes
  /\ LET caller == Note([Top EXCEPT !.at = "dec.check"], Top.pos)
     IN  stack' = IF Accepts(Top.pos, Top.msg)
                  THEN Push(NodeLoop(Top.pos, Top.origin), caller) ELSE Replace(caller)
  /\ UNCHANGED <<lists, routingTable, config, bounds>>

DecodedCheck ==
  /\ Active("dec.check")
  /\ stack' = Replace(CheckListInLoop(bridgeHandlerList, [Top EXCEPT !.at = "dec.loop"]))
  /\ UNCHANGED <<lists, routingTable, config, bounds>>

DecodedReturn ==
  /\ Active("dec.loop") /\ Top.pos = ListHead
  /\ stack' = Tail(stack)
  /\ UNCHANGED <<lists, routingTable, config, bounds>>

(***************************************************************************)
(* The plain list_for_each_entry over the handlers of a node.              *)
(***************************************************************************)
NodeLoopNext(f) == [f EXCEPT !.at = "node.loop", !.pos = ListNext(nodeHandlerList[f.node], f.pos)]

SkipNodeHandler ==
  /\ Active("node.loop") /\ Top.pos # ListHead
  /\ OptedOut(Top.pos, Top.origin)
  /\ stack' = Replace(NodeLoopNext(Top))
  /\ UNCHANGED <<lists, routingTable, config, bounds>>

CallNodeHandler ==
  /\ Active("node.loop") /\ Top.pos # ListHead
  /\ ~OptedOut(Top.pos, Top.origin)
  /\ stack' = Push([at |-> "user"], Note([Top EXCEPT !.at = "node.next"], Top.pos))
  /\ UNCHANGED <<lists, routingTable, config, bounds>>

NodeNext ==
  /\ Active("node.next")
  /\ stack' = Replace(NodeLoopNext(Top))
  /\ UNCHANGED <<lists, routingTable, config, bounds>>

NodeReturn ==
  /\ Active("node.loop") /\ Top.pos = ListHead
  /\ stack' = Tail(stack)
  /\ UNCHANGED <<lists, routingTable, config, bounds>>

UserReturn ==
  /\ Active("user")
  /\ stack' = Tail(stack)
  /\ UNCHANGED <<lists, routingTable, config, bounds>>

-----------------------------------------------------------------------------
(***************************************************************************)
(* The calls of the application, from its main program (the stack is       *)
(* empty) or from a handler.  What it never does, by the rules it keeps:   *)
(*   "removals"  a handler does not unlink both the entry a loop is at and *)
(*               the one it goes to next, nor the node handler that is     *)
(*               running;                                                  *)
(*   "ids"       no two registered nodes share an id, and no route is set  *)
(*               for the id of a registered node;                          *)
(*   "mirrors"   no route leads to a mirror.                               *)
(***************************************************************************)
Calls(name) ==
  /\ name \in Api
  /\ stack # <<>> => Top.at = "user"
  /\ calls < MaxCalls
  /\ calls' = calls + 1
  /\ UNCHANGED reads

(***************************************************************************)
(* A safe loop can go on from here: one of its two variables is still on   *)
(* the list.                                                               *)
(***************************************************************************)
Anchored(list, f) == f.temp = ListHead \/ f.temp \in Linked(list) \/ f.pos \in Linked(list)

LoopsAnchored(at, list) == \A k \in 1 .. Len(stack) : stack[k].at = at => Anchored(list, stack[k])

OwnIds(handlers) == {ownId[n] : n \in Nodes \cap Linked(handlers)}

FreeId(id, n) ==
  "ids" \in Discipline => \A m \in (Nodes \cap Attached) \ {n} : ownId[m] # id

RegisterExternalInterface(i) ==
  /\ Calls("register_interface")
  /\ i \notin Registered
  /\ externalInterfaceList' = ListAdd(externalInterfaceList, i)
  /\ UNCHANGED <<bridgeHandlerList, nodeHandlerList, routingTable, config, stack>>

DeregisterExternalInterface(i) ==
  /\ Calls("deregister_interface")
  /\ i \in Registered
  /\ routingTable' = RoutingTableInvalidateInterface(routingTable, i)
  /\ externalInterfaceList' = ListDelInit(externalInterfaceList, i)
  /\ "removals" \in Discipline => LoopsAnchored("once.check", externalInterfaceList')
  /\ UNCHANGED <<bridgeHandlerList, nodeHandlerList, config, stack>>

AttachHandler(h) ==
  bridgeHandlerList' = IF h \in Attached THEN bridgeHandlerList ELSE ListAdd(bridgeHandlerList, h)

DetachHandler(h) ==
  /\ bridgeHandlerList' = ListDelInit(bridgeHandlerList, h)
  /\ "removals" \in Discipline => LoopsAnchored("dec.check", bridgeHandlerList')
  /\ stack' = Unsteady(h)

RegisterBridgeHandler(h) ==
  /\ Calls("register_handler")
  /\ h \notin Attached
  /\ AttachHandler(h)
  /\ UNCHANGED <<externalInterfaceList, nodeHandlerList, routingTable, config, stack>>

DeregisterBridgeHandler(h) ==
  /\ Calls("deregister_handler")
  /\ h \in Attached
  /\ DetachHandler(h)
  /\ UNCHANGED <<externalInterfaceList, nodeHandlerList, routingTable, config>>

(***************************************************************************)
(* ndlcomBridgeMarkDeviceIdAsInternal, ndlcomBridgeClearInternalDeviceId.  *)
(***************************************************************************)
MarkInternal(table, id) == RoutingTableUpdate(table, id, TheBridge)
ClearInternal(table, id) == RoutingTableUpdate(table, id, AllInterfaces)

NodeRegister(n) ==
  /\ Calls("register_node")
  /\ FreeId(ownId[n], n)
  /\ AttachHandler(n)
  /\ routingTable' = MarkInternal(routingTable, ownId[n])
  /\ UNCHANGED <<externalInterfaceList, nodeHandlerList, config, stack>>

(***************************************************************************)
(* These three follow the node's bridge pointer, which is null unless the  *)
(* node is registered.                                                     *)
(***************************************************************************)
NodeDeregister(n) ==
  /\ Calls("deregister_node")
  /\ n \in Attached
  /\ routingTable' = ClearInternal(routingTable, ownId[n])
  /\ DetachHandler(n)
  /\ UNCHANGED <<externalInterfaceList, nodeHandlerList, config>>

NodeSetOwnSenderId(n, id) ==
  /\ Calls("set_own_id")
  /\ n \in Attached
  /\ FreeId(id, n)
  /\ routingTable' = MarkInternal(ClearInternal(routingTable, ownId[n]), id)
  /\ ownId' = [ownId EXCEPT ![n] = id]
  /\ UNCHANGED <<lists, forwarding, mirrors, quiet, stack>>

NodeSend(n, receiver) ==
  /\ Calls("node_send")
  /\ n \in Attached
  /\ stack' = Call(Decoded(routingTable, [sender |-> ownId[n], receiver |-> receiver], TheBridge))
  /\ UNCHANGED <<lists, routingTable, config>>

SendRaw(msg) ==
  /\ Calls("send_raw")
  /\ stack' = Call(Decoded(routingTable, msg, TheBridge))
  /\ UNCHANGED <<lists, routingTable, config>>

(***************************************************************************)
(* Mutation: the interface need not be registered.                         *)
(***************************************************************************)
SetRoutingUnregistered(i, id) ==
  /\ Calls("set_routing")
  /\ "ids" \in Discipline => id \notin OwnIds(bridgeHandlerList)
  /\ "mirrors" \in Discipline => i \notin mirrors
  /\ routingTable' = RoutingTableUpdate(routingTable, id, i)
  /\ UNCHANGED <<lists, config, stack>>

(***************************************************************************)
(* ndlcomExternalInterfaceSetRoutingForDeviceId.                           *)
(***************************************************************************)
SetRoutingForDeviceId(i, id) ==
  /\ Calls("set_routing")
  /\ i \in Registered
  /\ "ids" \in Discipline => id \notin OwnIds(bridgeHandlerList)
  /\ "mirrors" \in Discipline => i \notin mirrors
  /\ routingTable' = RoutingTableUpdate(routingTable, id, i)
  /\ UNCHANGED <<lists, config, stack>>

BridgeSetFlags(forward) ==
  /\ Calls("set_bridge_flags")
  /\ forwarding' = forward
  /\ UNCHANGED <<lists, routingTable, mirrors, quiet, ownId, stack>>

ExternalInterfaceSetFlags(i, mirror) ==
  /\ Calls("set_interface_flags")
  /\ "mirrors" \in Discipline /\ mirror => \A id \in TableIds : routingTable[id] # i
  /\ mirrors' = IF mirror THEN mirrors \cup {i} ELSE mirrors \ {i}
  /\ UNCHANGED <<lists, routingTable, forwarding, quiet, ownId, stack>>

(***************************************************************************)
(* ndlcomBridgeHandlerSetFlags and ndlcomNodeHandlerSetFlags.              *)
(***************************************************************************)
HandlerSetFlags(h, silent) ==
  /\ Calls("set_handler_flags")
  /\ quiet' = IF silent THEN quiet \cup {h} ELSE quiet \ {h}
  /\ stack' = Unsteady(h)
  /\ UNCHANGED <<lists, routingTable, forwarding, mirrors, ownId>>

(***************************************************************************)
(* A node handler is registered once: list_add would corrupt the list      *)
(* otherwise, and the code does not check.                                 *)
(***************************************************************************)
RegisterNodeHandler(n, k) ==
  /\ Calls("register_node_handler")
  /\ \A m \in Nodes : k \notin Linked(nodeHandlerList[m])
  /\ nodeHandlerList' = [nodeHandlerList EXCEPT ![n] = ListAdd(@, k)]
  /\ UNCHANGED <<externalInterfaceList, bridgeHandlerList, routingTable, config, stack>>

DeregisterNodeHandler(n, k) ==
  /\ Calls("deregister_node_handler")
  /\ k \in Linked(nodeHandlerList[n])
  /\ nodeHandlerList' = [nodeHandlerList EXCEPT ![n] = ListDelInit(@, k)]
  /\ "removals" \in Discipline =>
       \A j \in 1 .. Len(stack) : stack[j].at = "node.next" => stack[j].pos # k
  /\ stack' = Unsteady(k)
  /\ UNCHANGED <<externalInterfaceList, bridgeHandlerList, routingTable, config>>

-----------------------------------------------------------------------------
(***************************************************************************)
(* What the program does by itself once a call is active.                  *)
(***************************************************************************)
Run ==
  \/ ReadNothing
  \/ \E chunk \in Chunks : ReadBytes(chunk)
  \/ OnceCheck
  \/ OnceReturn
  \/ HandlePacket
  \/ ExternalAfter
  \/ ExternalReturn
  \/ SkipHandler
  \/ CallHandler
  \/ CallNode
  \/ DecodedCheck
  \/ DecodedReturn
  \/ SkipNodeHandler
  \/ CallNodeHandler
  \/ NodeNext
  \/ NodeReturn
  \/ UserReturn

Application ==
  \/ \E i \in Interfaces : RegisterExternalInterface(i)
  \/ \E i \in Interfaces : DeregisterExternalInterface(i)
  \/ \E h \in Handlers : RegisterBridgeHandler(h)
  \/ \E h \in Handlers : DeregisterBridgeHandler(h)
  \/ \E n \in Nodes : NodeRegister(n)
  \/ \E n \in Nodes : NodeDeregister(n)
  \/ \E n \in Nodes, id \in NodeIds : NodeSetOwnSenderId(n, id)
  \/ \E n \in Nodes, id \in DeviceIds : NodeSend(n, id)
  \/ \E msg \in Packets : SendRaw(msg)
  \/ \E i \in Interfaces, id \in Senders : SetRoutingForDeviceId(i, id)
  \/ \E forward \in BOOLEAN : BridgeSetFlags(forward)
  \/ \E i \in Interfaces, mirror \in BOOLEAN : ExternalInterfaceSetFlags(i, mirror)
  \/ \E h \in Handlers \cup NodeHandlers, silent \in BOOLEAN : HandlerSetFlags(h, silent)
  \/ \E n \in Nodes, k \in NodeHandlers : RegisterNodeHandler(n, k)
  \/ \E n \in Nodes, k \in NodeHandlers : DeregisterNodeHandler(n, k)

Next ==
  \/ \E again \in BOOLEAN : Process(again)
  \/ Run
  \/ Application

Spec == Init /\ [][Next]_vars

(***************************************************************************)
(* One thread executes the program: a call that is active keeps running,   *)
(* and a handler of the application returns.                               *)
(***************************************************************************)
FairSpec == Spec /\ WF_vars(Run)

-----------------------------------------------------------------------------
(***************************************************************************)
(* Why the loops are safe, as an inductive invariant.  Only the innermost  *)
(* call is at a place where it reads its loop variables; the others wait   *)
(* for a call to return.  Whoever is about to use a loop variable finds it *)
(* on the list, and whoever waits still has one of the two there.          *)
(***************************************************************************)
FrameInv(f) ==
  /\ f.at = "once.read" => {f.pos, f.temp} \subseteq Registered \cup {ListHead}
  /\ f.at = "once.check" => Anchored(externalInterfaceList, f)
  /\ f.at = "ext.parse" => f.interface \in Registered
  /\ f.at = "dec.loop" => {f.pos, f.temp} \subseteq Attached \cup {ListHead}
  /\ f.at = "dec.check" => Anchored(bridgeHandlerList, f)
  /\ f.at = "node.loop" => f.pos \in Linked(nodeHandlerList[f.node]) \cup {ListHead}
  /\ f.at = "node.next" => f.pos \in Linked(nodeHandlerList[f.node])

StackInv ==
  \A k \in 1 .. Len(stack) : FrameInv(stack[k]) /\ (k > 1 => stack[k].at \in Waiting)

ListsInv ==
  /\ IsList(externalInterfaceList, Interfaces)
  /\ IsList(bridgeHandlerList, BridgeHandlers)
  /\ \A n \in Nodes : IsList(nodeHandlerList[n], NodeHandlers)

(***************************************************************************)
(* No two registered nodes have the same id.                               *)
(***************************************************************************)
OwnIdsDistinct == \A m, n \in Nodes \cap Attached : ownId[m] = ownId[n] => m = n

-----------------------------------------------------------------------------
(***************************************************************************)
(* No dangling route: whatever interface the routing table names is        *)
(* registered, so ProcessOutgoingMessage never writes through a pointer to *)
(* a removed interface, also when a handler removes interfaces while their *)
(* messages are being processed.                                           *)
(***************************************************************************)
RoutesAreLive == \A id \in TableIds : routingTable[id] \in Interfaces => routingTable[id] \in Registered

(***************************************************************************)
(* The ids marked as internal are exactly those of the registered nodes,   *)
(* whatever is received, renamed or removed meanwhile: nobody outside can  *)
(* take over the id of a node, and no id stays cut off from the network.   *)
(***************************************************************************)
InternalIdsMarked ==
  \A id \in TableIds : routingTable[id] = TheBridge <=> id \in OwnIds(bridgeHandlerList)

(***************************************************************************)
(* Despite the removals of entries during a loop, the bridge reads only    *)
(* from registered interfaces and calls only registered handlers.          *)
(***************************************************************************)
NoUseAfterRemoval ==
  /\ Active("once.read") => Top.pos \in Registered \cup {ListHead}
  /\ Active("ext.parse") => Top.interface \in Registered
  /\ Active("dec.loop") => Top.pos \in Attached \cup {ListHead}
  /\ Active("node.loop") => Top.pos \in Linked(nodeHandlerList[Top.node]) \cup {ListHead}

(***************************************************************************)
(* Every handler that stays registered while a message is handled sees it, *)
(* unless its flag opts out, whatever other handlers add and remove.       *)
(***************************************************************************)
NoHandlerSkipped ==
  (Active("dec.loop") \/ Active("node.loop")) /\ Top.pos = ListHead =>
    \A h \in Top.steady : h \in Top.called \/ OptedOut(h, Top.origin)

(***************************************************************************)
(* An interface gets one copy of a message: a mirror "already got the      *)
(* message" and is not used again by the route.                            *)
(***************************************************************************)
NoSecondCopy == Active("dec.loop") => Top.mirrored \cap Top.routed = {}

(***************************************************************************)
(* A new message enters ProcessDecodedMessage.                             *)
(***************************************************************************)
Entered == Len(stack') > Len(stack) /\ stack'[1].at = "dec.loop"

(***************************************************************************)
(* A broadcast goes to every registered interface but its origin, or, with *)
(* forwarding switched off and a foreign origin, to the mirrors only.      *)
(***************************************************************************)
BroadcastReachesAll ==
  [][Entered /\ stack'[1].msg.receiver = Broadcast =>
       LET f == stack'[1]
           allowed == forwarding \/ f.origin = TheBridge
       IN  f.mirrored \cup f.routed =
             {i \in Registered : i # f.origin /\ (allowed \/ i \in mirrors)}]_vars

(***************************************************************************)
(* The message a handler is called for: that of the innermost loop.        *)
(***************************************************************************)
Handled == stack[CHOOSE k \in 1 .. Len(stack) :
                   /\ stack[k].at = "dec.check"
                   /\ \A j \in 1 .. k - 1 : stack[j].at # "dec.check"]

(***************************************************************************)
(* "Updating the table before processing the message allows readily        *)
(* responding on the right interface": an answer a handler sends while it  *)
(* handles a message from an interface goes out on that interface, if it   *)
(* is still there and the sender's id is not that of a local node.         *)
(***************************************************************************)
RepliesReachOrigin ==
  [][Entered /\ stack'[1].origin = TheBridge /\ stack # <<>> =>
       LET f == stack'[1]
       IN  f.msg.receiver = Handled.msg.sender
           /\ Handled.origin \in Registered
           /\ f.msg.receiver \notin OwnIds(bridgeHandlerList)
           => Handled.origin \in f.mirrored \cup f.routed]_vars

(***************************************************************************)
(* Every call into the library returns, so the main loop goes on: no loop  *)
(* over a list runs forever because entries were removed from it.          *)
(***************************************************************************)
EveryCallReturns == stack # <<>> ~> stack = <<>>
=============================================================================
