------------------------------ MODULE Ownership ------------------------------
(***************************************************************************)
(* The C++ layer over the bridge: include/ndlcom/Bridge.hpp, src/Bridge.cpp*)
(* include/ndlcom/Node.hpp and src/Node.cpp.  Bridge models what the C code*)
(* does with the entries of its lists; here the entries are objects that   *)
(* are created, owned through a vector of shared pointers, held by the     *)
(* application with lock(), and freed with the last pointer to them.  The C*)
(* lists, the routing table and the loop variables point into the objects. *)
(*                                                                         *)
(* An object that is freed may be created again: malloc reuses addresses.  *)
(***************************************************************************)
EXTENDS Bridge, SequencesExt

CONSTANTS RoutingNumbers,    \* the numbers a uri may list after its last '&'
          IdRange            \* 2 to the power of the bits of NDLComId

(***************************************************************************)
(* Objects of different classes are different objects, and a node that does*)
(* not exist has no handlers.                                              *)
(***************************************************************************)
ASSUME OwnershipAssumption ==
  /\ RoutingNumbers \subseteq Int /\ IdRange \in Nat \ {0}
  /\ Interfaces \cap (BridgeHandlers \cup NodeHandlers) = {}
  /\ BridgeHandlers \cap NodeHandlers = {}
  /\ \A n \in Nodes \ Linked(InitialHandlers) : InitialNodeHandlers[n] = <<>>

VARIABLES
  externalInterfaces, bridgeHandler, nodes,    \* the vectors of ndlcom::Bridge
  allHandler,                                  \* the vector of each ndlcom::Node
  held,        \* the objects the application has a shared pointer to
  teardown     \* how far ~Bridge has come

vectors == <<externalInterfaces, bridgeHandler, nodes, allHandler>>
ownershipVars == <<vars, vectors, held, teardown>>

Objects == Interfaces \cup BridgeHandlers \cup NodeHandlers

Owned == Linked(externalInterfaces) \cup Linked(bridgeHandler) \cup Linked(nodes)
           \cup UNION {Linked(allHandler[n]) : n \in Nodes}

Alive == Owned \cup held

(***************************************************************************)
(* Where the calls that are active still read objects: their loop variables*)
(* the interface a packet is taken from, and the node whose list is read.  *)
(***************************************************************************)
Pointers(f) ==
  CASE f.at \in {"once.read", "once.check", "dec.loop", "dec.check"} -> {f.pos, f.temp} \ {ListHead}
    [] f.at \in {"ext.parse", "ext.after"} -> {f.interface}
    [] f.at \in {"node.loop", "node.next"} -> {f.node} \cup ({f.pos} \ {ListHead})
    [] f.at = "user" -> {}

InUse == UNION {Pointers(stack[k]) : k \in 1 .. Len(stack)}

OwnershipTypeOK ==
  /\ TypeOK
  /\ IsList(externalInterfaces, Interfaces)
  /\ IsList(bridgeHandler, Handlers)
  /\ IsList(nodes, Nodes)
  /\ \A n \in Nodes : IsList(allHandler[n], NodeHandlers)
  /\ held \subseteq Objects
  /\ teardown \in {"no", "interfaces", "handlers", "nodes", "done"}

(***************************************************************************)
(* The set-up phase made its objects with the factories below: each was put*)
(* in front of its list and at the end of its vector.  Handlers and nodes  *)
(* share a list; those that were taken off it by hand and put back have    *)
(* another place there than in their vector.                               *)
(***************************************************************************)
OwnershipInit ==
  /\ Init
  /\ externalInterfaces = Reverse(InitialInterfaces)
  /\ bridgeHandler \in SetToSeqs(Handlers \cap Linked(InitialHandlers))
  /\ nodes \in SetToSeqs(Nodes \cap Linked(InitialHandlers))
  /\ allHandler = [n \in Nodes |-> Reverse(InitialNodeHandlers[n])]
  /\ held = {}
  /\ teardown = "no"

-----------------------------------------------------------------------------
(***************************************************************************)
(* A call of the application into the C++ layer.                           *)
(***************************************************************************)
CppCalls(name) == Calls(name) /\ teardown = "no" /\ UNCHANGED teardown

(***************************************************************************)
(* The factories: construct, register, push back.  A constructor that      *)
(* throws leaves nothing behind.                                           *)
(***************************************************************************)
CreateExternalInterface(i, mirror) ==
  /\ i \notin Alive
  /\ externalInterfaceList' = ListAdd(externalInterfaceList, i)
  /\ externalInterfaces' = Append(externalInterfaces, i)
  /\ mirrors' = IF mirror THEN mirrors \cup {i} ELSE mirrors \ {i}
  /\ UNCHANGED <<bridgeHandlerList, nodeHandlerList, forwarding, quiet, ownId, stack,
                 bridgeHandler, nodes, allHandler, held>>

CreateBridgeHandler(h) ==
  /\ CppCalls("create_handler")
  /\ h \notin Alive
  /\ AttachHandler(h)
  /\ bridgeHandler' = Append(bridgeHandler, h)
  /\ quiet' = quiet \ {h}
  /\ UNCHANGED <<externalInterfaceList, nodeHandlerList, routingTable, forwarding, mirrors, ownId,
                 stack, externalInterfaces, nodes, allHandler, held>>

CreateNode(n, id) ==
  /\ CppCalls("create_node")
  /\ n \notin Alive
  /\ FreeId(id, n)
  /\ AttachHandler(n)
  /\ nodes' = Append(nodes, n)
  /\ ownId' = [ownId EXCEPT ![n] = id]
  /\ routingTable' = MarkInternal(routingTable, id)
  /\ UNCHANGED <<externalInterfaceList, nodeHandlerList, forwarding, mirrors, quiet, stack,
                 externalInterfaces, bridgeHandler, allHandler, held>>

CreateNodeHandler(n, k) ==
  /\ CppCalls("create_node_handler")
  /\ n \in Alive /\ k \notin Alive
  /\ nodeHandlerList' = [nodeHandlerList EXCEPT ![n] = ListAdd(@, k)]
  /\ allHandler' = [allHandler EXCEPT ![n] = Append(@, k)]
  /\ quiet' = quiet \ {k}
  /\ UNCHANGED <<externalInterfaceList, bridgeHandlerList, routingTable, forwarding, mirrors, ownId,
                 stack, externalInterfaces, bridgeHandler, nodes, held>>

(***************************************************************************)
(* convertStringToIds: the broadcast id is left out before the number is   *)
(* cut to the width of an id, and a number out of range is kept.  Mutation:*)
(* it is not left out.                                                     *)
(***************************************************************************)
ConvertAllStringsToIds(numbers) == {number % IdRange : number \in numbers}

ConvertStringToIds(numbers) == {number % IdRange : number \in numbers \ {Broadcast}}

(***************************************************************************)
(* createInterface(uri): the factory, then setRoutingByString.  When one of*)
(* the numbers cannot be read, that throws before it sets any route, after *)
(* the interface was registered, and the caller gets no pointer to it.  The*)
(* rule "numbers": a uri gives no number out of range that is cut to the   *)
(* broadcast id, as 511 and -1 are.                                        *)
(***************************************************************************)
CreateInterface(i, mirror, numbers, readable) ==
  /\ CppCalls("create_interface")
  /\ CreateExternalInterface(i, mirror)
  /\ routingTable' =
       [id \in TableIds |-> IF readable /\ id \in ConvertStringToIds(numbers) THEN i ELSE routingTable[id]]
  /\ "ids" \in Discipline => ConvertStringToIds(numbers) \cap OwnIds(bridgeHandlerList) = {}
  /\ "mirrors" \in Discipline /\ mirror => numbers = {}
  /\ "numbers" \in Discipline /\ readable =>
       \A number \in numbers \ {Broadcast} : number % IdRange # Broadcast

-----------------------------------------------------------------------------
(***************************************************************************)
(* What goes with the last pointer to an object.  ~Node destroys the       *)
(* node's handlers.                                                        *)
(***************************************************************************)
Freed(o) == {o} \cup (IF o \in Nodes THEN Linked(allHandler[o]) \ held ELSE {})

(***************************************************************************)
(* The rule "destroys": a handler frees nothing that an active call still  *)
(* uses.  It holds what it wants to survive the call.                      *)
(***************************************************************************)
MayFree(o) == "destroys" \in Discipline => Freed(o) \cap InUse = {}

MayDestroy(o) == o \in held \/ MayFree(o)

(***************************************************************************)
(* The erase-remove of a vector, which holds no object twice.              *)
(***************************************************************************)
Without(vector, o) == ListDelInit(vector, o)

(***************************************************************************)
(* ~Node destroys the first of its handlers until none is left.            *)
(***************************************************************************)
Deregistered(list, vector) ==
  LET left[k \in 0 .. Len(vector)] == IF k = 0 THEN list ELSE ListDelInit(left[k - 1], vector[k])
  IN  left[Len(vector)]

NodeDtor(n) ==
  /\ nodeHandlerList' = [nodeHandlerList EXCEPT ![n] = Deregistered(@, allHandler[n])]
  /\ allHandler' = [allHandler EXCEPT ![n] = <<>>]

(***************************************************************************)
(* Mutations: the routes of the interface stay; the handler leaves only the*)
(* vector; the handler leaves only the list.                               *)
(***************************************************************************)
UnlinkInterface(i) ==
  /\ externalInterfaceList' = ListDelInit(externalInterfaceList, i)
  /\ externalInterfaces' = Without(externalInterfaces, i)
  /\ UNCHANGED <<bridgeHandlerList, nodeHandlerList, routingTable, config, stack,
                 bridgeHandler, nodes, allHandler>>

ForgetHandler(h) ==
  /\ bridgeHandler' = Without(bridgeHandler, h)
  /\ UNCHANGED <<lists, routingTable, config, stack, externalInterfaces, nodes, allHandler>>

UnlinkHandler(h) ==
  /\ DetachHandler(h)
  /\ UNCHANGED <<externalInterfaceList, nodeHandlerList, routingTable, config, vectors>>

(***************************************************************************)
(* destroyExternalInterface, destroyBridgeHandler, destroyNode and         *)
(* destroyNodeHandler: deregister, then erase from the vector.  A node is  *)
(* deregistered through its bridge pointer, which must not be null.        *)
(***************************************************************************)
RemoveInterface(i) ==
  /\ externalInterfaceList' = ListDelInit(externalInterfaceList, i)
  /\ routingTable' = IF i \in Registered THEN RoutingTableInvalidateInterface(routingTable, i)
                     ELSE routingTable
  /\ externalInterfaces' = Without(externalInterfaces, i)
  /\ UNCHANGED <<bridgeHandlerList, nodeHandlerList, config, stack, bridgeHandler, nodes, allHandler>>

RemoveHandler(h) ==
  /\ DetachHandler(h)
  /\ bridgeHandler' = Without(bridgeHandler, h)
  /\ UNCHANGED <<externalInterfaceList, nodeHandlerList, routingTable, config,
                 externalInterfaces, nodes, allHandler>>

RemoveNode(n) ==
  /\ n \in Attached
  /\ routingTable' = ClearInternal(routingTable, ownId[n])
  /\ DetachHandler(n)
  /\ nodes' = Without(nodes, n)
  /\ IF n \in held THEN UNCHANGED <<nodeHandlerList, allHandler>> ELSE NodeDtor(n)
  /\ UNCHANGED <<externalInterfaceList, config, externalInterfaces, bridgeHandler>>

DestroyExternalInterface(i) ==
  /\ CppCalls("destroy_interface")
  /\ i \in Linked(externalInterfaces) /\ MayDestroy(i)
  /\ RemoveInterface(i)
  /\ "removals" \in Discipline => LoopsAnchored("once.check", externalInterfaceList')
  /\ UNCHANGED held

DestroyBridgeHandler(h) ==
  /\ CppCalls("destroy_handler")
  /\ h \in Linked(bridgeHandler) /\ MayDestroy(h)
  /\ RemoveHandler(h)
  /\ UNCHANGED held

DestroyNode(n) ==
  /\ CppCalls("destroy_node")
  /\ n \in Linked(nodes) /\ MayDestroy(n)
  /\ RemoveNode(n)
  /\ UNCHANGED held

DestroyNodeHandler(n, k) ==
  /\ CppCalls("destroy_node_handler")
  /\ k \in Linked(allHandler[n]) /\ MayDestroy(k)
  /\ "removals" \in Discipline =>
       \A j \in 1 .. Len(stack) : stack[j].at = "node.next" => stack[j].pos # k
  /\ nodeHandlerList' = [nodeHandlerList EXCEPT ![n] = ListDelInit(@, k)]
  /\ allHandler' = [allHandler EXCEPT ![n] = Without(@, k)]
  /\ stack' = Unsteady(k)
  /\ UNCHANGED <<externalInterfaceList, bridgeHandlerList, routingTable, config,
                 externalInterfaces, bridgeHandler, nodes, held>>

(***************************************************************************)
(* lock() on the weak pointer a factory returned, and the end of the shared*)
(* pointer it gives.                                                       *)
(***************************************************************************)
Lock(o) ==
  /\ CppCalls("lock")
  /\ o \in Owned \ held
  /\ held' = held \cup {o}
  /\ UNCHANGED <<lists, routingTable, config, stack, vectors>>

Release(o) ==
  /\ stack # <<>> => Top.at = "user"
  /\ teardown \in {"no", "done"}
  /\ o \in held
  /\ held' = held \ {o}
  /\ IF o \in Owned THEN UNCHANGED <<nodeHandlerList, allHandler>>
     ELSE /\ MayFree(o)
          /\ IF o \in Nodes THEN NodeDtor(o) ELSE UNCHANGED <<nodeHandlerList, allHandler>>
  /\ UNCHANGED <<externalInterfaceList, bridgeHandlerList, routingTable, config, stack, bounds,
                 externalInterfaces, bridgeHandler, nodes, teardown>>

-----------------------------------------------------------------------------
(***************************************************************************)
(* registerHandler and deregisterHandler are public: an interface or a     *)
(* handler the bridge owns can be taken off its list and put back, and get *)
(* flags and routes (nobody sets a route for the broadcast id).  A node    *)
(* cannot: destroyNode follows the bridge pointer that its deregistration  *)
(* cleared.                                                                *)
(***************************************************************************)
ByHand ==
  \/ \E i \in Linked(externalInterfaces) :
       \/ RegisterExternalInterface(i) \/ DeregisterExternalInterface(i)
       \/ \E mirror \in BOOLEAN : ExternalInterfaceSetFlags(i, mirror)
       \/ \E id \in TableIds \ {Broadcast} : SetRoutingForDeviceId(i, id)
  \/ \E h \in Linked(bridgeHandler) : RegisterBridgeHandler(h) \/ DeregisterBridgeHandler(h)

Sends ==
  \/ \E n \in Nodes, id \in DeviceIds : NodeSend(n, id)
  \/ \E msg \in Messages : SendRaw(msg)

(***************************************************************************)
(* ~Bridge destroys the first object of each vector until it is empty.     *)
(***************************************************************************)
StartTeardown ==
  /\ teardown = "no" /\ stack = <<>>
  /\ teardown' = "interfaces"
  /\ UNCHANGED <<vars, vectors, held>>

TeardownObject ==
  /\ \/ teardown = "interfaces" /\ externalInterfaces # <<>> /\ RemoveInterface(Head(externalInterfaces))
     \/ teardown = "handlers" /\ bridgeHandler # <<>> /\ RemoveHandler(Head(bridgeHandler))
     \/ teardown = "nodes" /\ nodes # <<>> /\ RemoveNode(Head(nodes))
  /\ UNCHANGED <<bounds, held, teardown>>

TeardownNext ==
  /\ \/ teardown = "interfaces" /\ externalInterfaces = <<>> /\ teardown' = "handlers"
     \/ teardown = "handlers" /\ bridgeHandler = <<>> /\ teardown' = "nodes"
     \/ teardown = "nodes" /\ nodes = <<>> /\ teardown' = "done"
  /\ UNCHANGED <<vars, vectors, held>>

Teardown == TeardownObject \/ TeardownNext

Factories ==
  \/ \E i \in Interfaces, mirror, readable \in BOOLEAN, numbers \in SUBSET RoutingNumbers :
       CreateInterface(i, mirror, numbers, readable)
  \/ \E h \in Handlers : CreateBridgeHandler(h)
  \/ \E n \in Nodes, id \in NodeIds : CreateNode(n, id)
  \/ \E n \in Nodes, k \in NodeHandlers : CreateNodeHandler(n, k)

Destroys ==
  \/ \E i \in Interfaces : DestroyExternalInterface(i)
  \/ \E h \in Handlers : DestroyBridgeHandler(h)
  \/ \E n \in Nodes : DestroyNode(n)
  \/ \E n \in Nodes, k \in NodeHandlers : DestroyNodeHandler(n, k)

Running == Run /\ UNCHANGED <<vectors, held, teardown>>

OwnershipNext ==
  \/ teardown = "no" /\ Process(TRUE) /\ UNCHANGED <<vectors, held, teardown>>
  \/ Running
  \/ teardown = "no" /\ (ByHand \/ Sends) /\ UNCHANGED <<vectors, held, teardown>>
  \/ Factories
  \/ Destroys
  \/ \E o \in Objects : Lock(o) \/ Release(o)
  \/ StartTeardown
  \/ Teardown

(***************************************************************************)
(* One thread: an active call goes on, and so does a destructor.           *)
(***************************************************************************)
OwnershipSpec ==
  /\ OwnershipInit /\ [][OwnershipNext]_ownershipVars
  /\ WF_ownershipVars(Running) /\ WF_ownershipVars(Teardown)

-----------------------------------------------------------------------------
(***************************************************************************)
(* Why nothing dangles, as an inductive invariant: what a C list holds is  *)
(* owned through the vector of its class, and a node that is gone owns     *)
(* nothing.                                                                *)
(***************************************************************************)
OwnedInv ==
  /\ Registered \subseteq Linked(externalInterfaces)
  /\ Attached \subseteq Linked(bridgeHandler) \cup Linked(nodes)
  /\ \A n \in Nodes : Linked(nodeHandlerList[n]) \subseteq Linked(allHandler[n])
  /\ \A n \in Nodes : allHandler[n] # <<>> => n \in Linked(nodes) \cup held

(***************************************************************************)
(* Nothing is called while the bridge is destroyed, and its vectors are    *)
(* emptied one after the other.                                            *)
(***************************************************************************)
TeardownInv ==
  /\ teardown # "no" => stack = <<>>
  /\ teardown \in {"handlers", "nodes", "done"} => externalInterfaces = <<>>
  /\ teardown \in {"nodes", "done"} => bridgeHandler = <<>>
  /\ teardown = "done" => nodes = <<>>

-----------------------------------------------------------------------------
(***************************************************************************)
(* Nothing points into freed memory: neither the C lists and the routing   *)
(* table, nor the loop variables of the calls that are active, although    *)
(* handlers destroy what the loops above them are at ("otherwise attached  *)
(* objects may call into this bridge, use-after-free").                    *)
(***************************************************************************)
NoDanglingPointer ==
  /\ Registered \cup Attached \cup UNION {Linked(nodeHandlerList[n]) : n \in Nodes} \subseteq Alive
  /\ \A id \in TableIds : routingTable[id] \in Registered \cup {TheBridge, AllInterfaces}
  /\ InUse \subseteq Alive

(***************************************************************************)
(* ~Bridge leaves nothing behind: both C lists are empty, so it never      *)
(* prints "Attention, something went wrong during teardown", no route is   *)
(* left, and only what the application still holds is alive.               *)
(***************************************************************************)
TornDown ==
  teardown = "done" =>
    /\ externalInterfaceList = <<>> /\ bridgeHandlerList = <<>>
    /\ \A id \in TableIds : routingTable[id] \notin Interfaces
    /\ Alive \subseteq held \cup UNION {Linked(allHandler[n]) : n \in Nodes \cap held}

(***************************************************************************)
(* The destructor of the bridge returns: every turn of its loops makes the *)
(* vector shorter, and no node meets it with a null bridge pointer.        *)
(***************************************************************************)
TeardownCompletes == teardown = "interfaces" ~> teardown = "done"
=============================================================================
