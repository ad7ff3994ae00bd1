--------------------------- MODULE OwnershipProofs ---------------------------
(***************************************************************************)
(* The objects behind the list entries: that nothing the C code points to  *)
(* is freed, and that the destructor of the bridge leaves nothing behind,  *)
(* for any number of objects, and whatever is created, destroyed, locked   *)
(* and released from inside handlers.                                      *)
(***************************************************************************)
EXTENDS Ownership, BridgeProofs, Induction, FiniteSetTheorems

-----------------------------------------------------------------------------
(***************************************************************************)
(* push_back of an object that is not in the vector.                       *)
(***************************************************************************)
LEMMA AppendIsList ==
  ASSUME NEW S, NEW vector, IsList(vector, S), NEW o \in S, o \notin Linked(vector)
  PROVE  /\ IsList(Append(vector, o), S)
         /\ Linked(Append(vector, o)) = Linked(vector) \cup {o}
         /\ Append(vector, o) # <<>>
<1> DEFINE l == Append(vector, o)
<1>1. /\ l \in Seq(S) /\ Len(vector) \in Nat /\ Len(l) = Len(vector) + 1 /\ l[Len(vector) + 1] = o
      /\ \A k \in 1 .. Len(vector) : l[k] = vector[k]
  BY DEF IsList
<1> HIDE DEF l
<1>2. \A k \in 1 .. Len(vector) : vector[k] # o
  BY DEF Linked
<1>3. \A k \in 1 .. Len(l) : k \in 1 .. Len(vector) \/ k = Len(vector) + 1
  BY <1>1
<1>4. ASSUME NEW j \in 1 .. Len(l), NEW k \in 1 .. Len(l), l[j] = l[k] PROVE j = k
  BY <1>1, <1>2, <1>3, <1>4 DEF IsList
<1>5. Linked(l) = Linked(vector) \cup {o}
  BY <1>1, <1>3 DEF Linked
<1>6. l # <<>>
  BY <1>1
<1> QED BY <1>1, <1>4, <1>5, <1>6 DEF IsList, l

(***************************************************************************)
(* A list is empty when nothing is linked.                                 *)
(***************************************************************************)
LEMMA NothingLinked ==
  ASSUME NEW S, NEW list \in Seq(S)
  PROVE  list = <<>> <=> Linked(list) = {}
<1>1. ASSUME list # <<>> PROVE list[1] \in Linked(list)
  <2>1. 1 \in 1 .. Len(list)
    BY <1>1
  <2> QED BY <2>1 DEF Linked
<1>2. ASSUME list = <<>> PROVE Linked(list) = {}
  BY <1>2 DEF Linked
<1> QED BY <1>1, <1>2

(***************************************************************************)
(* ~Node takes every handler of the vector off the list.                   *)
(***************************************************************************)
LEMMA DeregisteredUnlinks ==
  ASSUME NEW S, NEW list, IsList(list, S), NEW vector \in Seq(S)
  PROVE  /\ IsList(Deregistered(list, vector), S)
         /\ Linked(Deregistered(list, vector)) = Linked(list) \ Linked(vector)
<1> DEFINE Lists == {l \in Seq(S) : IsList(l, S)}
           step == [p \in Lists \X Nat |-> ListDelInit(p[1], vector[p[2] + 1])]
           N == Len(vector)
           F(g) == [k \in 0 .. N |-> IF k = 0 THEN list ELSE ListDelInit(g[k - 1], vector[k])]
           left == CHOOSE g : g = F(g)
<1>1. \A l \in Lists : \A e : ListDelInit(l, e) \in Lists
  BY ListDelInitUnlinks DEF IsList
<1>2. step \in [Lists \X Nat -> Lists]
  BY <1>1
<1>3. list \in Lists
  BY DEF IsList
<1>4. \A l \in Lists, n \in Nat : step[<<l, n>>] = ListDelInit(l, vector[n + 1])
  OBVIOUS
<1> HIDE DEF step, Lists
<1>5. PICK f : IsRecursive(f, Lists, list, step)
  BY <1>2, <1>3, Recursion
<1>6. f \in [Nat -> Lists] /\ f[0] = list /\ \A n \in Nat : f[n + 1] = step[<<f[n], n>>]
  BY <1>5 DEF IsRecursive
<1>7. ASSUME NEW k \in Nat \ {0} PROVE f[k] = ListDelInit(f[k - 1], vector[k])
  <2>1. k - 1 \in Nat /\ (k - 1) + 1 = k /\ f[k - 1] \in Lists
    BY <1>6
  <2>2. f[(k - 1) + 1] = step[<<f[k - 1], k - 1>>]
    BY <1>6, <2>1
  <2> QED BY <1>4, <2>1, <2>2
<1>8. N \in Nat
  OBVIOUS
<1> DEFINE h == [k \in 0 .. N |-> f[k]]
<1> HIDE DEF N
<1>9. h = F(h)
  <2>1. \A k \in 0 .. N : h[k] = IF k = 0 THEN list ELSE ListDelInit(h[k - 1], vector[k])
    BY <1>6, <1>7, <1>8
  <2> QED BY <2>1
<1> HIDE DEF F, h
<1>10. left = F(left)
  BY <1>9
<1> HIDE DEF left
<1>11. \A k \in 0 .. N : left[k] = IF k = 0 THEN list ELSE ListDelInit(left[k - 1], vector[k])
  BY <1>10 DEF F
<1> DEFINE T == {n \in Nat : n <= N => /\ IsList(left[n], S)
                                       /\ Linked(left[n]) = Linked(list) \ {vector[k] : k \in 1 .. n}}
<1>12. 0 \in T
  BY <1>8, <1>11
<1>13. ASSUME NEW n \in Nat, n \in T PROVE n + 1 \in T
  <2> SUFFICES ASSUME n + 1 <= N
               PROVE  /\ IsList(left[n + 1], S)
                      /\ Linked(left[n + 1]) = Linked(list) \ {vector[k] : k \in 1 .. n + 1}
    OBVIOUS
  <2>1. IsList(left[n], S) /\ Linked(left[n]) = Linked(list) \ {vector[k] : k \in 1 .. n}
    BY <1>8, <1>13
  <2>2. n + 1 \in 0 .. N /\ n + 1 # 0 /\ (n + 1) - 1 = n
    BY <1>8
  <2>3. left[n + 1] = ListDelInit(left[n], vector[n + 1])
    BY <1>11, <2>2
  <2>4. {vector[k] : k \in 1 .. n + 1} = {vector[k] : k \in 1 .. n} \cup {vector[n + 1]}
    OBVIOUS
  <2> QED BY <2>1, <2>3, <2>4, ListDelInitUnlinks
<1> HIDE DEF T
<1>14. N \in T
  BY <1>8, <1>12, <1>13, SetInduction
<1>15. Linked(vector) = {vector[k] : k \in 1 .. N}
  BY DEF Linked, N
<1>16. IsList(left[N], S) /\ Linked(left[N]) = Linked(list) \ Linked(vector)
  BY <1>8, <1>14, <1>15 DEF T
<1> QED BY <1>16 DEF Deregistered, left, F, N

(***************************************************************************)
(* The entries of a list are finitely many.                                *)
(***************************************************************************)
LEMMA LinkedFinite ==
  ASSUME NEW S, NEW list \in Seq(S)
  PROVE  IsFiniteSet(Linked(list))
<1>1. list \in [1 .. Len(list) -> Linked(list)] /\ Len(list) \in Nat
  BY DEF Linked
<1>2. \A e \in Linked(list) : \E k \in 1 .. Len(list) : list[k] = e
  BY DEF Linked
<1>3. list \in Surjection(1 .. Len(list), Linked(list))
  BY <1>1, <1>2 DEF Surjection
<1> QED BY <1>1, <1>3, FS_NatSurjection DEF ExistsSurjection

(***************************************************************************)
(* A vector that holds each object of a finite set once.                   *)
(***************************************************************************)
LEMMA OrderIsList ==
  ASSUME NEW S, IsFiniteSet(S), NEW v \in SetToSeqs(S)
  PROVE  IsList(v, S) /\ Linked(v) = S
<1> DEFINE n == Cardinality(S)
<1>1. n \in Nat
  BY FS_CardinalityType
<1>2. v \in [1 .. n -> S] /\ \A j, k \in 1 .. n : j # k => v[j] # v[k]
  BY DEF SetToSeqs
<1>3. IsFiniteSet(1 .. n) /\ Cardinality(1 .. n) = n
  BY <1>1, FS_Interval
<1>4. v \in Injection(1 .. n, S)
  BY <1>2 DEF Injection, IsInjective
<1>5. v \in Surjection(1 .. n, S)
  BY <1>3, <1>4, FS_Injection
<1> HIDE DEF n
<1>6. v \in Seq(S) /\ Len(v) = n
  BY <1>1, <1>2
<1>7. Linked(v) = S
  BY <1>2, <1>5, <1>6 DEF Linked, Surjection
<1> QED BY <1>2, <1>6, <1>7 DEF IsList

(***************************************************************************)
(* A list the other way round holds the same.                              *)
(***************************************************************************)
LEMMA ReverseIsList ==
  ASSUME NEW S, NEW list, IsList(list, S)
  PROVE  IsList(Reverse(list), S) /\ Linked(Reverse(list)) = Linked(list)
<1> DEFINE r == Reverse(list)
           N == Len(list)
<1>1. list \in Seq(S) /\ N \in Nat
  BY DEF IsList
<1>2. r = [k \in 1 .. N |-> list[(N - k) + 1]]
  BY DEF Reverse
<1> HIDE DEF r
<1>3. \A k \in 1 .. N : (N - k) + 1 \in 1 .. N
  BY <1>1
<1>4. r \in Seq(S) /\ Len(r) = N
  BY <1>1, <1>2, <1>3
<1>5. ASSUME NEW j \in 1 .. N, NEW k \in 1 .. N, r[j] = r[k] PROVE j = k
  <2>1. (N - j) + 1 = (N - k) + 1
    BY <1>2, <1>3, <1>5 DEF IsList
  <2> QED BY <1>1, <2>1
<1>6. Linked(r) \subseteq Linked(list)
  BY <1>2, <1>3, <1>4 DEF Linked
<1>7. ASSUME NEW k \in 1 .. N PROVE list[k] \in Linked(r)
  <2>1. (N - k) + 1 \in 1 .. N /\ (N - ((N - k) + 1)) + 1 = k
    BY <1>1
  <2>2. r[(N - k) + 1] = list[k]
    BY <1>2, <2>1
  <2> QED BY <1>4, <2>1, <2>2 DEF Linked
<1>8. Linked(r) = Linked(list)
  BY <1>6, <1>7 DEF Linked
<1> QED BY <1>4, <1>5, <1>8 DEF IsList, r

-----------------------------------------------------------------------------
(***************************************************************************)
(* The vectors have their types and hold no object twice.                  *)
(***************************************************************************)
VectorsInv ==
  /\ IsList(externalInterfaces, Interfaces)
  /\ IsList(bridgeHandler, Handlers)
  /\ IsList(nodes, Nodes)
  /\ \A n \in Nodes : IsList(allHandler[n], NodeHandlers)
  /\ allHandler \in [Nodes -> Seq(NodeHandlers)]

HeldInv ==
  /\ held \subseteq Objects
  /\ teardown \in {"no", "interfaces", "handlers", "nodes", "done"}

(***************************************************************************)
(* What holds without any rule: types, lists and vectors, who owns what.   *)
(***************************************************************************)
PlainInv == TypeOK /\ ListsInv /\ VectorsInv /\ HeldInv /\ OwnedInv /\ TeardownInv

(***************************************************************************)
(* The set-up leaves a state in which the bridge owns what it lists.       *)
(***************************************************************************)
LEMMA OwnershipInitInv == OwnershipInit => PlainInv
<1> SUFFICES ASSUME OwnershipInit PROVE PlainInv
  OBVIOUS
<1>1. Init /\ TypeOK /\ ListsInv
  BY InitTypes DEF OwnershipInit
<1> DEFINE H == Handlers \cap Linked(InitialHandlers)
           M == Nodes \cap Linked(InitialHandlers)
<1>2. IsFiniteSet(H) /\ IsFiniteSet(M)
  <2>1. IsFiniteSet(Linked(InitialHandlers))
    BY LinkedFinite, BridgeAssumption DEF IsList
  <2> QED BY <2>1, FS_Subset
<1>3. IsList(bridgeHandler, H) /\ Linked(bridgeHandler) = H /\ IsList(nodes, M) /\ Linked(nodes) = M
  BY <1>2, OrderIsList DEF OwnershipInit
<1> HIDE DEF H, M
<1>4. IsList(bridgeHandler, Handlers) /\ IsList(nodes, Nodes)
  <2>1. H \subseteq Handlers /\ M \subseteq Nodes
    BY DEF H, M
  <2> QED BY <1>3, <2>1 DEF IsList
<1>5. IsList(externalInterfaces, Interfaces) /\ Linked(externalInterfaces) = Registered
  BY ReverseIsList, BridgeAssumption DEF OwnershipInit, Init, Registered
<1>6. allHandler = [n \in Nodes |-> Reverse(InitialNodeHandlers[n])]
  BY DEF OwnershipInit
<1>7. ASSUME NEW n \in Nodes
      PROVE  IsList(allHandler[n], NodeHandlers) /\ Linked(allHandler[n]) = Linked(nodeHandlerList[n])
  <2>1. IsList(InitialNodeHandlers[n], NodeHandlers)
    BY BridgeAssumption
  <2>2. allHandler[n] = Reverse(InitialNodeHandlers[n]) /\ nodeHandlerList[n] = InitialNodeHandlers[n]
    BY <1>1, <1>6 DEF Init
  <2> QED BY <2>1, <2>2, ReverseIsList
<1>8. allHandler \in [Nodes -> Seq(NodeHandlers)]
  BY <1>6, <1>7 DEF IsList
<1>9. VectorsInv /\ HeldInv
  BY <1>4, <1>5, <1>7, <1>8 DEF VectorsInv, HeldInv, OwnershipInit
<1>10. Attached \subseteq Linked(bridgeHandler) \cup Linked(nodes)
  <2>1. Linked(InitialHandlers) \subseteq Handlers \cup Nodes
    BY LinkedType, BridgeAssumption DEF IsList, BridgeHandlers
  <2> QED BY <1>1, <1>3, <2>1 DEF Attached, Init, H, M
<1>11. ASSUME NEW n \in Nodes, allHandler[n] # <<>> PROVE n \in Linked(nodes) \cup held
  <2>1. Linked(allHandler[n]) # {}
    BY <1>8, <1>11, NothingLinked
  <2>2. Linked(nodeHandlerList[n]) # {} /\ nodeHandlerList[n] \in Seq(NodeHandlers)
    BY <1>1, <1>7, <2>1 DEF TypeOK
  <2>3. nodeHandlerList[n] # <<>>
    BY <2>2, NothingLinked
  <2>4. n \in M
    BY <1>1, <2>3, OwnershipAssumption DEF Init, M
  <2> QED BY <1>3, <2>4
<1>12. OwnedInv
  BY <1>5, <1>7, <1>10, <1>11 DEF OwnedInv
<1>13. TeardownInv
  BY DEF TeardownInv, OwnershipInit
<1> QED BY <1>1, <1>9, <1>12, <1>13 DEF PlainInv

(***************************************************************************)
(* What the library does by itself, and what is registered, set and sent by*)
(* hand, is a step of the bridge.                                          *)
(***************************************************************************)
LEMMA BridgeStep ==
  ASSUME PlainInv, Process(TRUE) \/ Run \/ ByHand \/ Sends
  PROVE  AnyStep
<1>1. Linked(externalInterfaces) \subseteq Interfaces /\ Linked(bridgeHandler) \subseteq Handlers
  BY LinkedType DEF PlainInv, VectorsInv, IsList
<1>2. CASE Process(TRUE) \/ Run
  BY <1>2 DEF AnyStep, Next
<1>3. CASE ByHand
  BY <1>1, <1>3 DEF ByHand, AnyStep, Next, Application, SendsOrRoutes
<1>4. CASE Sends
  BY <1>4 DEF Sends, AnyStep, Next, Application, SendsOrRoutes
<1> QED BY <1>2, <1>3, <1>4

(***************************************************************************)
(* What the library does by itself leaves the lists alone and belongs to a *)
(* call.                                                                   *)
(***************************************************************************)
LEMMA RunStacks ==
  ASSUME Run
  PROVE  UNCHANGED lists /\ stack # <<>>
  BY DEF Run, ReadNothing, ReadBytes, OnceCheck, OnceReturn, HandlePacket, ExternalAfter,
    ExternalReturn, SkipHandler, CallHandler, CallNode, DecodedCheck, DecodedReturn,
    SkipNodeHandler, CallNodeHandler, NodeNext, NodeReturn, UserReturn, Active

(***************************************************************************)
(* Such a step links only what is owned.                                   *)
(***************************************************************************)
LEMMA BridgeStepPlain ==
  ASSUME PlainInv, Process(TRUE) \/ Run \/ ByHand \/ Sends, Run \/ teardown = "no",
         UNCHANGED <<vectors, held, teardown>>
  PROVE  PlainInv'
<1>1. TypeOK' /\ ListsInv'
  BY BridgeStep, TypeStep, ListsStep DEF PlainInv
<1>2. VectorsInv' /\ HeldInv'
  BY DEF PlainInv, VectorsInv, HeldInv, vectors
<1>3. TeardownInv'
  BY RunStacks DEF PlainInv, TeardownInv, vectors
<1>4. ASSUME Registered' \subseteq Linked(externalInterfaces),
             Attached' \subseteq Linked(bridgeHandler) \cup Linked(nodes),
             UNCHANGED nodeHandlerList
      PROVE  OwnedInv'
  BY <1>4 DEF PlainInv, OwnedInv, vectors
<1>5. ASSUME UNCHANGED lists PROVE OwnedInv'
  BY <1>4, <1>5 DEF lists, Registered, Attached, PlainInv, OwnedInv
<1>6. CASE Process(TRUE) \/ Run \/ Sends
  BY <1>1, <1>2, <1>3, <1>5, <1>6, RunStacks DEF Process, Sends, NodeSend, SendRaw, PlainInv
<1>7. ASSUME NEW i \in Linked(externalInterfaces),
             RegisterExternalInterface(i) \/ DeregisterExternalInterface(i)
      PROVE  OwnedInv'
  <2>1. i \in Interfaces
    BY LinkedType DEF PlainInv, VectorsInv, IsList
  <2>2. Registered' \subseteq Registered \cup {i}
    BY <1>7, <2>1, ListAddLinks, ListDelInitUnlinks
       DEF RegisterExternalInterface, DeregisterExternalInterface, PlainInv, TypeOK, ListsInv, Registered
  <2>3. UNCHANGED <<bridgeHandlerList, nodeHandlerList>>
    BY <1>7 DEF RegisterExternalInterface, DeregisterExternalInterface
  <2> QED BY <1>4, <2>2, <2>3 DEF PlainInv, OwnedInv, Attached
<1>8. ASSUME NEW h \in Linked(bridgeHandler), RegisterBridgeHandler(h) \/ DeregisterBridgeHandler(h)
      PROVE  OwnedInv'
  <2>1. h \in BridgeHandlers
    BY LinkedType DEF PlainInv, VectorsInv, IsList, BridgeHandlers
  <2>2. Attached' \subseteq Attached \cup {h}
    BY <1>8, <2>1, ListAddLinks, ListDelInitUnlinks
       DEF RegisterBridgeHandler, DeregisterBridgeHandler, AttachHandler, DetachHandler,
           PlainInv, TypeOK, ListsInv, Attached
  <2>3. UNCHANGED <<externalInterfaceList, nodeHandlerList>>
    BY <1>8 DEF RegisterBridgeHandler, DeregisterBridgeHandler
  <2> QED BY <1>4, <2>2, <2>3 DEF PlainInv, OwnedInv, Registered
<1>9. CASE ByHand
  BY <1>1, <1>2, <1>3, <1>5, <1>7, <1>8, <1>9
     DEF ByHand, ExternalInterfaceSetFlags, SetRoutingForDeviceId, PlainInv
<1> QED BY <1>6, <1>9

-----------------------------------------------------------------------------
(***************************************************************************)
(* Where the objects of each class are owned.                              *)
(***************************************************************************)
LEMMA ClassesOwned ==
  ASSUME PlainInv
  PROVE  /\ Linked(externalInterfaces) \subseteq Interfaces /\ Linked(bridgeHandler) \subseteq Handlers
         /\ Linked(nodes) \subseteq Nodes /\ \A n \in Nodes : Linked(allHandler[n]) \subseteq NodeHandlers
         /\ Owned \subseteq Objects
         /\ Owned \cap Interfaces = Linked(externalInterfaces)
         /\ Owned \cap Handlers = Linked(bridgeHandler)
         /\ Owned \cap Nodes = Linked(nodes)
<1>1. /\ Linked(externalInterfaces) \subseteq Interfaces /\ Linked(bridgeHandler) \subseteq Handlers
      /\ Linked(nodes) \subseteq Nodes /\ \A n \in Nodes : Linked(allHandler[n]) \subseteq NodeHandlers
  BY LinkedType DEF PlainInv, VectorsInv, IsList
<1>2. /\ Interfaces \cap BridgeHandlers = {} /\ Interfaces \cap NodeHandlers = {}
      /\ BridgeHandlers \cap NodeHandlers = {} /\ Handlers \cap Nodes = {}
  BY BridgeAssumption, OwnershipAssumption
<1> QED BY <1>1, <1>2 DEF Owned, Objects, BridgeHandlers

(***************************************************************************)
(* An object that does not exist is on no list and has no handlers.        *)
(***************************************************************************)
LEMMA NewObject ==
  ASSUME PlainInv, NEW o, o \notin Alive
  PROVE  /\ o \notin Linked(externalInterfaces) /\ o \notin Linked(bridgeHandler) /\ o \notin Linked(nodes)
         /\ \A n \in Nodes : o \notin Linked(allHandler[n]) /\ o \notin Linked(nodeHandlerList[n])
         /\ o \notin Registered /\ o \notin Attached
         /\ o \in Nodes => allHandler[o] = <<>> /\ Linked(nodeHandlerList[o]) = {}
<1>1. /\ o \notin Linked(externalInterfaces) /\ o \notin Linked(bridgeHandler) /\ o \notin Linked(nodes)
      /\ \A n \in Nodes : o \notin Linked(allHandler[n])
  BY DEF Alive, Owned
<1>2. ASSUME o \in Nodes PROVE allHandler[o] = <<>> /\ Linked(nodeHandlerList[o]) = {}
  <2>1. allHandler[o] = <<>>
    BY <1>2 DEF PlainInv, OwnedInv, Alive, Owned
  <2>2. Linked(allHandler[o]) = {}
    BY <2>1 DEF Linked
  <2> QED BY <1>2, <2>1, <2>2 DEF PlainInv, OwnedInv
<1> QED BY <1>1, <1>2 DEF PlainInv, OwnedInv

(***************************************************************************)
(* What is created is owned before it is listed.                           *)
(***************************************************************************)
LEMMA FactoriesPlain ==
  ASSUME PlainInv, Factories
  PROVE  PlainInv'
<1> USE DEF PlainInv
<1>1. ASSUME NEW name, CppCalls(name), UNCHANGED held
      PROVE  TeardownInv' /\ HeldInv' /\ calls' \in 0 .. MaxCalls /\ reads' \in 0 .. MaxReads
  BY <1>1, CallsType DEF CppCalls, TeardownInv, HeldInv
<1>2. ASSUME NEW i \in Interfaces, NEW mirror \in BOOLEAN, NEW readable \in BOOLEAN, NEW numbers,
             CreateInterface(i, mirror, numbers, readable)
      PROVE  PlainInv'
  <2>1. /\ i \notin Alive /\ externalInterfaceList' = ListAdd(externalInterfaceList, i)
        /\ externalInterfaces' = Append(externalInterfaces, i)
        /\ mirrors' \in {mirrors \cup {i}, mirrors \ {i}}
        /\ UNCHANGED <<bridgeHandlerList, nodeHandlerList, forwarding, quiet, ownId, stack,
                       bridgeHandler, nodes, allHandler, held>>
    BY <1>2 DEF CreateInterface, CreateExternalInterface
  <2>2. routingTable' \in [TableIds -> Interfaces \cup {TheBridge, AllInterfaces}]
    BY <1>2 DEF CreateInterface, TypeOK
  <2>3. TeardownInv' /\ HeldInv' /\ calls' \in 0 .. MaxCalls /\ reads' \in 0 .. MaxReads
    BY <1>1, <1>2, <2>1 DEF CreateInterface
  <2>4. /\ IsList(externalInterfaceList', Interfaces) /\ Registered' = Registered \cup {i}
        /\ externalInterfaceList' \in Seq(Interfaces)
    BY <2>1, NewObject, ListAddIsList, ListAddLinks DEF TypeOK, ListsInv, Registered
  <2>5. IsList(externalInterfaces', Interfaces)
        /\ Linked(externalInterfaces') = Linked(externalInterfaces) \cup {i}
    BY <2>1, NewObject, AppendIsList DEF VectorsInv
  <2>6. TypeOK'
    BY <2>1, <2>2, <2>3, <2>4 DEF TypeOK
  <2>7. ListsInv' /\ VectorsInv'
    BY <2>1, <2>4, <2>5 DEF ListsInv, VectorsInv
  <2>8. OwnedInv'
    BY <2>1, <2>4, <2>5 DEF OwnedInv, Attached
  <2> QED BY <2>3, <2>6, <2>7, <2>8
<1>3. ASSUME NEW h \in BridgeHandlers, h \notin Alive, AttachHandler(h)
      PROVE  /\ IsList(bridgeHandlerList', BridgeHandlers) /\ Attached' = Attached \cup {h}
             /\ bridgeHandlerList' \in Seq(BridgeHandlers)
  <2>1. h \notin Attached
    BY <1>3, NewObject
  <2> QED BY <1>3, <2>1, ListAddIsList, ListAddLinks DEF AttachHandler, TypeOK, ListsInv, Attached
<1>4. ASSUME NEW h \in Handlers, CreateBridgeHandler(h)
      PROVE  PlainInv'
  <2>1. /\ h \notin Alive /\ AttachHandler(h) /\ bridgeHandler' = Append(bridgeHandler, h)
        /\ quiet' = quiet \ {h} /\ h \in BridgeHandlers
        /\ UNCHANGED <<externalInterfaceList, nodeHandlerList, routingTable, forwarding, mirrors, ownId,
                       stack, externalInterfaces, nodes, allHandler, held>>
    BY <1>4 DEF CreateBridgeHandler, BridgeHandlers
  <2>3. TeardownInv' /\ HeldInv' /\ calls' \in 0 .. MaxCalls /\ reads' \in 0 .. MaxReads
    BY <1>1, <1>4, <2>1 DEF CreateBridgeHandler
  <2>4. /\ IsList(bridgeHandlerList', BridgeHandlers) /\ Attached' = Attached \cup {h}
        /\ bridgeHandlerList' \in Seq(BridgeHandlers)
    BY <1>3, <2>1
  <2>5. IsList(bridgeHandler', Handlers) /\ Linked(bridgeHandler') = Linked(bridgeHandler) \cup {h}
    BY <2>1, NewObject, AppendIsList DEF VectorsInv
  <2>6. TypeOK'
    BY <2>1, <2>3, <2>4 DEF TypeOK
  <2>7. ListsInv' /\ VectorsInv'
    BY <2>1, <2>4, <2>5 DEF ListsInv, VectorsInv
  <2>8. OwnedInv'
    BY <2>1, <2>4, <2>5 DEF OwnedInv, Registered
  <2> QED BY <2>3, <2>6, <2>7, <2>8
<1>5. ASSUME NEW n \in Nodes, NEW id \in NodeIds, CreateNode(n, id)
      PROVE  PlainInv'
  <2>1. /\ n \notin Alive /\ AttachHandler(n) /\ nodes' = Append(nodes, n) /\ n \in BridgeHandlers
        /\ ownId' = [ownId EXCEPT ![n] = id] /\ routingTable' = MarkInternal(routingTable, id)
        /\ UNCHANGED <<externalInterfaceList, nodeHandlerList, forwarding, mirrors, quiet, stack,
                       externalInterfaces, bridgeHandler, allHandler, held>>
    BY <1>5 DEF CreateNode, BridgeHandlers
  <2>2. /\ routingTable' \in [TableIds -> Interfaces \cup {TheBridge, AllInterfaces}]
        /\ ownId' \in [Nodes -> DeviceIds]
    BY <2>1, BridgeAssumption DEF MarkInternal, RoutingTableUpdate, TypeOK
  <2>3. TeardownInv' /\ HeldInv' /\ calls' \in 0 .. MaxCalls /\ reads' \in 0 .. MaxReads
    BY <1>1, <1>5, <2>1 DEF CreateNode
  <2>4. /\ IsList(bridgeHandlerList', BridgeHandlers) /\ Attached' = Attached \cup {n}
        /\ bridgeHandlerList' \in Seq(BridgeHandlers)
    BY <1>3, <2>1
  <2>5. IsList(nodes', Nodes) /\ Linked(nodes') = Linked(nodes) \cup {n}
    BY <2>1, NewObject, AppendIsList DEF VectorsInv
  <2>6. TypeOK'
    BY <2>1, <2>2, <2>3, <2>4 DEF TypeOK
  <2>7. ListsInv' /\ VectorsInv'
    BY <2>1, <2>4, <2>5 DEF ListsInv, VectorsInv
  <2>8. OwnedInv'
    BY <2>1, <2>4, <2>5 DEF OwnedInv, Registered
  <2> QED BY <2>3, <2>6, <2>7, <2>8
<1>6. ASSUME NEW n \in Nodes, NEW k \in NodeHandlers, CreateNodeHandler(n, k)
      PROVE  PlainInv'
  <2>1. /\ n \in Alive /\ k \notin Alive /\ quiet' = quiet \ {k}
        /\ nodeHandlerList' = [nodeHandlerList EXCEPT ![n] = ListAdd(@, k)]
        /\ allHandler' = [allHandler EXCEPT ![n] = Append(@, k)]
        /\ UNCHANGED <<externalInterfaceList, bridgeHandlerList, routingTable, forwarding, mirrors,
                       ownId, stack, externalInterfaces, bridgeHandler, nodes, held>>
    BY <1>6 DEF CreateNodeHandler
  <2>2. TeardownInv' /\ HeldInv' /\ calls' \in 0 .. MaxCalls /\ reads' \in 0 .. MaxReads
    BY <1>1, <1>6, <2>1 DEF CreateNodeHandler
  <2>3. /\ nodeHandlerList \in [Nodes -> Seq(NodeHandlers)] /\ IsList(nodeHandlerList[n], NodeHandlers)
        /\ allHandler \in [Nodes -> Seq(NodeHandlers)] /\ IsList(allHandler[n], NodeHandlers)
        /\ k \notin Linked(nodeHandlerList[n]) /\ k \notin Linked(allHandler[n])
    BY <2>1, NewObject DEF TypeOK, ListsInv, VectorsInv
  <2>4. /\ IsList(ListAdd(nodeHandlerList[n], k), NodeHandlers)
        /\ Linked(ListAdd(nodeHandlerList[n], k)) = Linked(nodeHandlerList[n]) \cup {k}
    BY <2>3, ListAddIsList, ListAddLinks
  <2>5. /\ IsList(Append(allHandler[n], k), NodeHandlers)
        /\ Linked(Append(allHandler[n], k)) = Linked(allHandler[n]) \cup {k}
    BY <2>3, AppendIsList
  <2>6. /\ nodeHandlerList' \in [Nodes -> Seq(NodeHandlers)] /\ allHandler' \in [Nodes -> Seq(NodeHandlers)]
        /\ nodeHandlerList'[n] = ListAdd(nodeHandlerList[n], k) /\ allHandler'[n] = Append(allHandler[n], k)
        /\ \A m \in Nodes \ {n} : nodeHandlerList'[m] = nodeHandlerList[m] /\ allHandler'[m] = allHandler[m]
    BY <2>1, <2>3, <2>4, <2>5 DEF IsList
  <2>7. TypeOK'
    BY <2>1, <2>2, <2>6 DEF TypeOK
  <2>8. ListsInv' /\ VectorsInv'
    BY <2>1, <2>4, <2>5, <2>6 DEF ListsInv, VectorsInv
  <2>9. n \in Linked(nodes) \cup held
    BY <2>1, ClassesOwned DEF Alive
  <2>10. OwnedInv'
    BY <2>1, <2>4, <2>5, <2>6, <2>9 DEF OwnedInv, Registered, Attached
  <2> QED BY <2>2, <2>7, <2>8, <2>10
<1> QED BY <1>2, <1>4, <1>5, <1>6 DEF Factories

-----------------------------------------------------------------------------
(***************************************************************************)
(* What a removal does to the lists: ~Node leaves the node no handler.     *)
(***************************************************************************)
LEMMA NodeDtorUnlinks ==
  ASSUME PlainInv, NEW n \in Nodes, NodeDtor(n)
  PROVE  /\ nodeHandlerList' \in [Nodes -> Seq(NodeHandlers)] /\ allHandler' \in [Nodes -> Seq(NodeHandlers)]
         /\ \A m \in Nodes : IsList(nodeHandlerList'[m], NodeHandlers) /\ IsList(allHandler'[m], NodeHandlers)
         /\ allHandler'[n] = <<>> /\ Linked(nodeHandlerList'[n]) = {}
         /\ \A m \in Nodes \ {n} : nodeHandlerList'[m] = nodeHandlerList[m] /\ allHandler'[m] = allHandler[m]
<1> DEFINE l == Deregistered(nodeHandlerList[n], allHandler[n])
<1>1. /\ nodeHandlerList \in [Nodes -> Seq(NodeHandlers)] /\ allHandler \in [Nodes -> Seq(NodeHandlers)]
      /\ \A m \in Nodes : IsList(nodeHandlerList[m], NodeHandlers) /\ IsList(allHandler[m], NodeHandlers)
  BY DEF PlainInv, TypeOK, ListsInv, VectorsInv
<1>2. IsList(nodeHandlerList[n], NodeHandlers) /\ allHandler[n] \in Seq(NodeHandlers)
      /\ Linked(nodeHandlerList[n]) \subseteq Linked(allHandler[n])
  BY <1>1 DEF PlainInv, OwnedInv
<1>3. IsList(l, NodeHandlers) /\ Linked(l) = {}
  BY <1>2, DeregisteredUnlinks
<1>4. nodeHandlerList' = [nodeHandlerList EXCEPT ![n] = l] /\ allHandler' = [allHandler EXCEPT ![n] = <<>>]
  BY DEF NodeDtor
<1> HIDE DEF l
<1>5. l \in Seq(NodeHandlers) /\ IsList(<<>>, NodeHandlers)
  BY <1>3 DEF IsList
<1> QED BY <1>1, <1>3, <1>4, <1>5

(***************************************************************************)
(* Whatever is removed from its list is removed from its vector.           *)
(***************************************************************************)
LEMMA RemovesPlain ==
  ASSUME PlainInv, UNCHANGED held, calls' \in 0 .. MaxCalls, reads' \in 0 .. MaxReads,
         \/ \E i \in Interfaces : RemoveInterface(i)
         \/ \E h \in Handlers : RemoveHandler(h)
         \/ \E n \in Nodes : RemoveNode(n)
  PROVE  TypeOK' /\ ListsInv' /\ VectorsInv' /\ OwnedInv'
<1> USE DEF PlainInv
<1>1. stack \in Seq(Frames) /\ \A h : Unsteady(h) \in Seq(Frames)
  BY UnsteadyType DEF TypeOK
<1>2. ASSUME NEW i \in Interfaces, RemoveInterface(i)
      PROVE  TypeOK' /\ ListsInv' /\ VectorsInv' /\ OwnedInv'
  <2>1. /\ externalInterfaceList' = ListDelInit(externalInterfaceList, i)
        /\ externalInterfaces' = ListDelInit(externalInterfaces, i)
        /\ UNCHANGED <<bridgeHandlerList, nodeHandlerList, forwarding, mirrors, quiet, ownId, stack,
                       bridgeHandler, nodes, allHandler>>
    BY <1>2 DEF RemoveInterface, Without, config
  <2>2. routingTable' \in [TableIds -> Interfaces \cup {TheBridge, AllInterfaces}]
    BY <1>2 DEF RemoveInterface, RoutingTableInvalidateInterface, TypeOK
  <2>3. IsList(externalInterfaceList', Interfaces) /\ Registered' = Registered \ {i}
    BY <2>1, ListDelInitUnlinks DEF ListsInv, Registered
  <2>4. IsList(externalInterfaces', Interfaces)
        /\ Linked(externalInterfaces') = Linked(externalInterfaces) \ {i}
    BY <2>1, ListDelInitUnlinks DEF VectorsInv
  <2>5. externalInterfaceList' \in Seq(Interfaces)
    BY <2>3 DEF IsList
  <2>6. TypeOK'
    BY <2>1, <2>2, <2>5 DEF TypeOK
  <2>7. ListsInv' /\ VectorsInv'
    BY <2>1, <2>3, <2>4 DEF ListsInv, VectorsInv
  <2>8. OwnedInv'
    BY <2>1, <2>3, <2>4 DEF OwnedInv, Attached
  <2> QED BY <2>6, <2>7, <2>8
<1>3. ASSUME NEW h \in BridgeHandlers, DetachHandler(h)
      PROVE  /\ IsList(bridgeHandlerList', BridgeHandlers) /\ Attached' = Attached \ {h}
             /\ bridgeHandlerList' \in Seq(BridgeHandlers) /\ stack' \in Seq(Frames)
  <2>1. IsList(bridgeHandlerList', BridgeHandlers) /\ Attached' = Attached \ {h}
    BY <1>3, ListDelInitUnlinks DEF DetachHandler, ListsInv, Attached
  <2> QED BY <1>1, <1>3, <2>1 DEF DetachHandler, IsList
<1>4. ASSUME NEW h \in Handlers, RemoveHandler(h)
      PROVE  TypeOK' /\ ListsInv' /\ VectorsInv' /\ OwnedInv'
  <2>1. /\ DetachHandler(h) /\ bridgeHandler' = ListDelInit(bridgeHandler, h) /\ h \in BridgeHandlers
        /\ UNCHANGED <<externalInterfaceList, nodeHandlerList, routingTable, forwarding, mirrors, quiet,
                       ownId, externalInterfaces, nodes, allHandler>>
    BY <1>4 DEF RemoveHandler, Without, config, BridgeHandlers
  <2>2. /\ IsList(bridgeHandlerList', BridgeHandlers) /\ Attached' = Attached \ {h}
        /\ bridgeHandlerList' \in Seq(BridgeHandlers) /\ stack' \in Seq(Frames)
    BY <1>3, <2>1
  <2>3. IsList(bridgeHandler', Handlers) /\ Linked(bridgeHandler') = Linked(bridgeHandler) \ {h}
    BY <2>1, ListDelInitUnlinks DEF VectorsInv
  <2>4. TypeOK'
    BY <2>1, <2>2 DEF TypeOK
  <2>5. ListsInv' /\ VectorsInv'
    BY <2>1, <2>2, <2>3 DEF ListsInv, VectorsInv
  <2>6. OwnedInv'
    BY <2>1, <2>2, <2>3 DEF OwnedInv, Registered
  <2> QED BY <2>4, <2>5, <2>6
<1>5. ASSUME NEW n \in Nodes, RemoveNode(n)
      PROVE  TypeOK' /\ ListsInv' /\ VectorsInv' /\ OwnedInv'
  <2>1. /\ DetachHandler(n) /\ nodes' = ListDelInit(nodes, n) /\ n \in BridgeHandlers
        /\ routingTable' = ClearInternal(routingTable, ownId[n])
        /\ UNCHANGED <<externalInterfaceList, forwarding, mirrors, quiet, ownId,
                       externalInterfaces, bridgeHandler>>
    BY <1>5 DEF RemoveNode, Without, config, BridgeHandlers
  <2>2. /\ IsList(bridgeHandlerList', BridgeHandlers) /\ Attached' = Attached \ {n}
        /\ bridgeHandlerList' \in Seq(BridgeHandlers) /\ stack' \in Seq(Frames)
    BY <1>3, <2>1
  <2>3. IsList(nodes', Nodes) /\ Linked(nodes') = Linked(nodes) \ {n}
    BY <2>1, ListDelInitUnlinks DEF VectorsInv
  <2>4. routingTable' \in [TableIds -> Interfaces \cup {TheBridge, AllInterfaces}]
    BY <2>1 DEF ClearInternal, RoutingTableUpdate, TypeOK
  <2>5. ASSUME nodeHandlerList' \in [Nodes -> Seq(NodeHandlers)], allHandler' \in [Nodes -> Seq(NodeHandlers)],
               \A m \in Nodes : IsList(nodeHandlerList'[m], NodeHandlers) /\ IsList(allHandler'[m], NodeHandlers),
               \A m \in Nodes : Linked(nodeHandlerList'[m]) \subseteq Linked(allHandler'[m]),
               \A m \in Nodes : allHandler'[m] # <<>> => m \in Linked(nodes') \cup held'
        PROVE  TypeOK' /\ ListsInv' /\ VectorsInv' /\ OwnedInv'
    <3>1. TypeOK'
      BY <2>1, <2>2, <2>4, <2>5 DEF TypeOK
    <3>2. ListsInv' /\ VectorsInv'
      BY <2>1, <2>2, <2>3, <2>5 DEF ListsInv, VectorsInv
    <3>3. OwnedInv'
      BY <2>1, <2>2, <2>3, <2>5 DEF OwnedInv, Registered
    <3> QED BY <3>1, <3>2, <3>3
  <2>6. CASE n \in held
    <3>1. UNCHANGED <<nodeHandlerList, allHandler>>
      BY <1>5, <2>6 DEF RemoveNode
    <3>2. \A m \in Nodes : allHandler'[m] # <<>> => m \in Linked(nodes') \cup held'
      BY <2>3, <2>6, <3>1 DEF OwnedInv
    <3> QED BY <2>5, <3>1, <3>2 DEF TypeOK, ListsInv, VectorsInv, OwnedInv
  <2>7. CASE n \notin held
    <3>1. NodeDtor(n)
      BY <1>5, <2>7 DEF RemoveNode
    <3>2. /\ nodeHandlerList' \in [Nodes -> Seq(NodeHandlers)] /\ allHandler' \in [Nodes -> Seq(NodeHandlers)]
          /\ \A m \in Nodes : IsList(nodeHandlerList'[m], NodeHandlers) /\ IsList(allHandler'[m], NodeHandlers)
          /\ allHandler'[n] = <<>> /\ Linked(nodeHandlerList'[n]) = {}
          /\ \A m \in Nodes \ {n} : nodeHandlerList'[m] = nodeHandlerList[m] /\ allHandler'[m] = allHandler[m]
      BY <3>1, NodeDtorUnlinks
    <3>3. \A m \in Nodes : Linked(nodeHandlerList'[m]) \subseteq Linked(allHandler'[m])
      BY <3>2 DEF OwnedInv
    <3>4. \A m \in Nodes : allHandler'[m] # <<>> => m \in Linked(nodes') \cup held'
      BY <2>3, <3>2 DEF OwnedInv
    <3> QED BY <2>5, <3>2, <3>3, <3>4
  <2> QED BY <2>6, <2>7
<1> QED BY <1>2, <1>4, <1>5

(***************************************************************************)
(* A handler of a node leaves its list and its vector.                     *)
(***************************************************************************)
LEMMA NodeHandlerPlain ==
  ASSUME PlainInv, NEW n \in Nodes, NEW k \in NodeHandlers, DestroyNodeHandler(n, k)
  PROVE  TypeOK' /\ ListsInv' /\ VectorsInv' /\ OwnedInv'
<1> USE DEF PlainInv
<1>1. /\ nodeHandlerList' = [nodeHandlerList EXCEPT ![n] = ListDelInit(@, k)]
      /\ allHandler' = [allHandler EXCEPT ![n] = ListDelInit(@, k)]
      /\ stack' = Unsteady(k)
      /\ UNCHANGED <<externalInterfaceList, bridgeHandlerList, routingTable, forwarding, mirrors, quiet,
                     ownId, externalInterfaces, bridgeHandler, nodes, held>>
  BY DEF DestroyNodeHandler, Without, config
<1>2. stack' \in Seq(Frames) /\ calls' \in 0 .. MaxCalls /\ reads' \in 0 .. MaxReads
  BY <1>1, UnsteadyType, CallsType DEF TypeOK, DestroyNodeHandler, CppCalls
<1>3. /\ nodeHandlerList \in [Nodes -> Seq(NodeHandlers)] /\ IsList(nodeHandlerList[n], NodeHandlers)
      /\ allHandler \in [Nodes -> Seq(NodeHandlers)] /\ IsList(allHandler[n], NodeHandlers)
  BY DEF TypeOK, ListsInv, VectorsInv
<1>4. /\ IsList(ListDelInit(nodeHandlerList[n], k), NodeHandlers)
      /\ Linked(ListDelInit(nodeHandlerList[n], k)) = Linked(nodeHandlerList[n]) \ {k}
      /\ IsList(ListDelInit(allHandler[n], k), NodeHandlers)
      /\ Linked(ListDelInit(allHandler[n], k)) = Linked(allHandler[n]) \ {k}
  BY <1>3, ListDelInitUnlinks
<1>5. /\ nodeHandlerList' \in [Nodes -> Seq(NodeHandlers)] /\ allHandler' \in [Nodes -> Seq(NodeHandlers)]
      /\ nodeHandlerList'[n] = ListDelInit(nodeHandlerList[n], k) /\ allHandler'[n] = ListDelInit(allHandler[n], k)
      /\ \A m \in Nodes \ {n} : nodeHandlerList'[m] = nodeHandlerList[m] /\ allHandler'[m] = allHandler[m]
  BY <1>1, <1>3, <1>4 DEF IsList
<1>6. TypeOK'
  BY <1>1, <1>2, <1>5 DEF TypeOK
<1>7. ListsInv' /\ VectorsInv'
  BY <1>1, <1>4, <1>5 DEF ListsInv, VectorsInv
<1>8. allHandler'[n] # <<>> => allHandler[n] # <<>>
  <2>1. ListDelInit(<<>>, k) = <<>>
    BY DEF ListDelInit, Linked
  <2> QED BY <1>5, <2>1
<1>9. OwnedInv'
  BY <1>1, <1>4, <1>5, <1>8 DEF OwnedInv, Registered, Attached
<1> QED BY <1>6, <1>7, <1>9

(***************************************************************************)
(* The calls that destroy, and the turns of the loops of ~Bridge.          *)
(***************************************************************************)
LEMMA DestroysPlain ==
  ASSUME PlainInv, Destroys \/ TeardownObject
  PROVE  PlainInv'
<1> USE DEF PlainInv
<1>1. ASSUME NEW name, CppCalls(name), UNCHANGED held
      PROVE  TeardownInv' /\ HeldInv' /\ calls' \in 0 .. MaxCalls /\ reads' \in 0 .. MaxReads
  BY <1>1, CallsType DEF CppCalls, TeardownInv, HeldInv
<1>2. ASSUME NEW i \in Interfaces, DestroyExternalInterface(i) PROVE PlainInv'
  BY <1>1, <1>2, RemovesPlain DEF DestroyExternalInterface
<1>3. ASSUME NEW h \in Handlers, DestroyBridgeHandler(h) PROVE PlainInv'
  BY <1>1, <1>3, RemovesPlain DEF DestroyBridgeHandler
<1>4. ASSUME NEW n \in Nodes, DestroyNode(n) PROVE PlainInv'
  BY <1>1, <1>4, RemovesPlain DEF DestroyNode
<1>5. ASSUME NEW n \in Nodes, NEW k \in NodeHandlers, DestroyNodeHandler(n, k) PROVE PlainInv'
  <2>1. TeardownInv' /\ HeldInv'
    BY <1>1, <1>5 DEF DestroyNodeHandler
  <2> QED BY <1>5, <2>1, NodeHandlerPlain
<1>6. CASE TeardownObject
  <2>1. /\ calls' \in 0 .. MaxCalls /\ reads' \in 0 .. MaxReads /\ UNCHANGED <<held, teardown>>
        /\ stack = <<>>
    BY <1>6 DEF TeardownObject, bounds, TypeOK, TeardownInv
  <2>2. HeldInv' /\ \A h : Unsteady(h) = <<>>
    BY <2>1 DEF HeldInv, Unsteady
  <2>3. CASE teardown = "interfaces" /\ externalInterfaces # <<>> /\ RemoveInterface(Head(externalInterfaces))
    <3>1. Head(externalInterfaces) \in Interfaces
      BY <2>3 DEF VectorsInv, IsList
    <3>2. TypeOK' /\ ListsInv' /\ VectorsInv' /\ OwnedInv'
      BY <2>1, <2>3, <3>1, RemovesPlain
    <3>3. TeardownInv'
      BY <2>1, <2>3 DEF TeardownInv, RemoveInterface
    <3> QED BY <2>2, <3>2, <3>3
  <2>4. CASE teardown = "handlers" /\ bridgeHandler # <<>> /\ RemoveHandler(Head(bridgeHandler))
    <3>1. Head(bridgeHandler) \in Handlers
      BY <2>4 DEF VectorsInv, IsList
    <3>2. TypeOK' /\ ListsInv' /\ VectorsInv' /\ OwnedInv'
      BY <2>1, <2>4, <3>1, RemovesPlain
    <3>3. TeardownInv'
      BY <2>1, <2>2, <2>4 DEF TeardownInv, RemoveHandler, DetachHandler
    <3> QED BY <2>2, <3>2, <3>3
  <2>5. CASE teardown = "nodes" /\ nodes # <<>> /\ RemoveNode(Head(nodes))
    <3>1. Head(nodes) \in Nodes
      BY <2>5 DEF VectorsInv, IsList
    <3>2. TypeOK' /\ ListsInv' /\ VectorsInv' /\ OwnedInv'
      BY <2>1, <2>5, <3>1, RemovesPlain
    <3>3. TeardownInv'
      BY <2>1, <2>2, <2>5 DEF TeardownInv, RemoveNode, DetachHandler
    <3> QED BY <2>2, <3>2, <3>3
  <2> QED BY <1>6, <2>3, <2>4, <2>5 DEF TeardownObject
<1> QED BY <1>2, <1>3, <1>4, <1>5, <1>6 DEF Destroys

(***************************************************************************)
(* The shared pointers of the application.  A node that goes with the last *)
(* of them takes its handlers off its list.                                *)
(***************************************************************************)
LEMMA LockPlain ==
  ASSUME PlainInv, NEW o \in Objects, Lock(o) \/ Release(o)
  PROVE  PlainInv'
<1> USE DEF PlainInv
<1>1. CASE Lock(o)
  <2>1. held' = held \cup {o} /\ UNCHANGED <<lists, routingTable, config, stack, vectors, teardown>>
        /\ calls' \in 0 .. MaxCalls /\ reads' \in 0 .. MaxReads
    BY <1>1, CallsType DEF Lock, CppCalls
  <2>2. TypeOK' /\ ListsInv' /\ TeardownInv'
    BY <2>1 DEF TypeOK, ListsInv, TeardownInv, lists, config, vectors
  <2>3. VectorsInv' /\ HeldInv'
    BY <2>1 DEF VectorsInv, HeldInv, vectors
  <2>4. OwnedInv'
    BY <2>1 DEF OwnedInv, Registered, Attached, lists, vectors
  <2> QED BY <2>2, <2>3, <2>4
<1>2. CASE Release(o)
  <2>1. /\ held' = held \ {o}
        /\ UNCHANGED <<externalInterfaceList, bridgeHandlerList, routingTable, forwarding, mirrors, quiet,
                       ownId, stack, calls, reads, externalInterfaces, bridgeHandler, nodes, teardown>>
    BY <1>2 DEF Release, config, bounds
  <2>2. ASSUME nodeHandlerList' \in [Nodes -> Seq(NodeHandlers)], allHandler' \in [Nodes -> Seq(NodeHandlers)],
               \A m \in Nodes : IsList(nodeHandlerList'[m], NodeHandlers) /\ IsList(allHandler'[m], NodeHandlers),
               \A m \in Nodes : Linked(nodeHandlerList'[m]) \subseteq Linked(allHandler'[m]),
               \A m \in Nodes : allHandler'[m] # <<>> => m \in Linked(nodes') \cup held'
        PROVE  PlainInv'
    <3>1. TypeOK' /\ ListsInv' /\ TeardownInv'
      BY <2>1, <2>2 DEF TypeOK, ListsInv, TeardownInv
    <3>2. VectorsInv' /\ HeldInv'
      BY <2>1, <2>2 DEF VectorsInv, HeldInv
    <3>3. OwnedInv'
      BY <2>1, <2>2 DEF OwnedInv, Registered, Attached
    <3> QED BY <3>1, <3>2, <3>3
  <2>3. ASSUME UNCHANGED <<nodeHandlerList, allHandler>>, o \in Nodes => o \in Linked(nodes)
        PROVE  PlainInv'
    <3>1. \A m \in Nodes : allHandler'[m] # <<>> => m \in Linked(nodes') \cup held'
      BY <2>1, <2>3 DEF OwnedInv
    <3> QED BY <2>2, <2>3, <3>1 DEF TypeOK, ListsInv, VectorsInv, OwnedInv
  <2>4. CASE o \in Owned
    <3>1. UNCHANGED <<nodeHandlerList, allHandler>>
      BY <1>2, <2>4 DEF Release
    <3> QED BY <2>3, <2>4, <3>1, ClassesOwned
  <2>5. CASE o \notin Owned /\ o \notin Nodes
    <3>1. UNCHANGED <<nodeHandlerList, allHandler>>
      BY <1>2, <2>5 DEF Release
    <3> QED BY <2>3, <2>5, <3>1
  <2>6. CASE o \notin Owned /\ o \in Nodes
    <3>1. NodeDtor(o)
      BY <1>2, <2>6 DEF Release
    <3>2. /\ nodeHandlerList' \in [Nodes -> Seq(NodeHandlers)] /\ allHandler' \in [Nodes -> Seq(NodeHandlers)]
          /\ \A m \in Nodes : IsList(nodeHandlerList'[m], NodeHandlers) /\ IsList(allHandler'[m], NodeHandlers)
          /\ allHandler'[o] = <<>> /\ Linked(nodeHandlerList'[o]) = {}
          /\ \A m \in Nodes \ {o} : nodeHandlerList'[m] = nodeHandlerList[m] /\ allHandler'[m] = allHandler[m]
      BY <2>6, <3>1, NodeDtorUnlinks
    <3>3. \A m \in Nodes : Linked(nodeHandlerList'[m]) \subseteq Linked(allHandler'[m])
      BY <3>2 DEF OwnedInv
    <3>4. \A m \in Nodes : allHandler'[m] # <<>> => m \in Linked(nodes') \cup held'
      BY <2>1, <3>2 DEF OwnedInv
    <3> QED BY <2>2, <3>2, <3>3, <3>4
  <2> QED BY <2>4, <2>5, <2>6
<1> QED BY <1>1, <1>2

(***************************************************************************)
(* Nothing changes but the progress of ~Bridge.                            *)
(***************************************************************************)
LEMMA SameObjects ==
  ASSUME PlainInv, UNCHANGED <<vars, vectors, held>>, HeldInv', TeardownInv'
  PROVE  PlainInv'
<1> USE DEF PlainInv
<1>1. TypeOK' /\ ListsInv'
  BY DEF TypeOK, ListsInv, vars, lists, config, bounds
<1>2. VectorsInv' /\ OwnedInv'
  BY DEF VectorsInv, OwnedInv, vectors, vars, lists, Registered, Attached
<1> QED BY <1>1, <1>2

(***************************************************************************)
(* Every step of the C++ layer.                                            *)
(***************************************************************************)
LEMMA PlainStep ==
  ASSUME PlainInv, [OwnershipNext]_ownershipVars
  PROVE  PlainInv'
<1>1. CASE teardown = "no" /\ Process(TRUE) /\ UNCHANGED <<vectors, held, teardown>>
  BY <1>1, BridgeStepPlain
<1>2. CASE Running
  BY <1>2, BridgeStepPlain DEF Running
<1>3. CASE teardown = "no" /\ (ByHand \/ Sends) /\ UNCHANGED <<vectors, held, teardown>>
  BY <1>3, BridgeStepPlain
<1>4. CASE StartTeardown
  <2>1. UNCHANGED <<vars, vectors, held>> /\ HeldInv' /\ TeardownInv'
    BY <1>4 DEF StartTeardown, HeldInv, TeardownInv, PlainInv, vars
  <2> QED BY <2>1, SameObjects
<1>5. CASE TeardownNext
  <2>1. UNCHANGED <<vars, vectors, held>>
    BY <1>5 DEF TeardownNext
  <2>2. HeldInv' /\ TeardownInv'
    BY <1>5 DEF TeardownNext, HeldInv, TeardownInv, PlainInv, vars, vectors
  <2> QED BY <2>1, <2>2, SameObjects
<1>6. CASE UNCHANGED ownershipVars
  <2>1. UNCHANGED <<vars, vectors, held, teardown>>
    BY <1>6 DEF ownershipVars
  <2>2. HeldInv' /\ TeardownInv'
    BY <2>1 DEF HeldInv, TeardownInv, PlainInv, vars, vectors
  <2> QED BY <2>1, <2>2, SameObjects
<1> QED BY <1>1, <1>2, <1>3, <1>4, <1>5, <1>6, FactoriesPlain, DestroysPlain, LockPlain
     DEF OwnershipNext, Teardown

(***************************************************************************)
(* Without any rule on the application: lists and vectors stay typed and   *)
(* free of repetitions, what the C lists hold is owned by the vector of its*)
(* class, and ~Bridge meets no call that is still active.                  *)
(***************************************************************************)
THEOREM OwnershipTypesCorrect ==
  OwnershipSpec => [](OwnershipTypeOK /\ OwnedInv /\ TeardownInv)
<1>1. OwnershipInit => PlainInv
  BY OwnershipInitInv
<1>2. PlainInv /\ [OwnershipNext]_ownershipVars => PlainInv'
  BY PlainStep
<1>3. PlainInv => OwnershipTypeOK /\ OwnedInv /\ TeardownInv
  BY DEF PlainInv, OwnershipTypeOK, VectorsInv, HeldInv
<1> QED BY <1>1, <1>2, <1>3, PTL DEF OwnershipSpec

-----------------------------------------------------------------------------
(***************************************************************************)
(* What the active calls point to is alive.                                *)
(***************************************************************************)
UsesInv == \A k \in 1 .. Len(stack) : Pointers(stack[k]) \subseteq Alive

(***************************************************************************)
(* What the C lists hold is alive.                                         *)
(***************************************************************************)
LEMMA ListedAlive ==
  ASSUME PlainInv
  PROVE  /\ Registered \subseteq Alive /\ Attached \subseteq Alive
         /\ \A n \in Nodes : Linked(nodeHandlerList[n]) \subseteq Alive
  BY DEF PlainInv, OwnedInv, Alive, Owned

(***************************************************************************)
(* The pointers of each kind of frame.                                     *)
(***************************************************************************)
LEMMA PointersOf ==
  ASSUME NEW f
  PROVE  /\ f.at \in {"once.read", "once.check", "dec.loop", "dec.check"} =>
              Pointers(f) = {f.pos, f.temp} \ {ListHead}
         /\ f.at \in {"ext.parse", "ext.after"} => Pointers(f) = {f.interface}
         /\ f.at \in {"node.loop", "node.next"} => Pointers(f) = {f.node} \cup ({f.pos} \ {ListHead})
         /\ f.at = "user" => Pointers(f) = {}
<1>1. CASE f.at \in {"once.read", "once.check", "dec.loop", "dec.check"}
  BY <1>1 DEF Pointers
<1>2. CASE f.at \in {"ext.parse", "ext.after"}
  BY <1>2 DEF Pointers
<1>3. CASE f.at \in {"node.loop", "node.next"}
  BY <1>3 DEF Pointers
<1>4. CASE f.at = "user"
  BY <1>4 DEF Pointers
<1> QED BY <1>1, <1>2, <1>3, <1>4

(***************************************************************************)
(* A step of the library: the new frames point to what is alive.           *)
(***************************************************************************)
LEMMA PointersStep ==
  ASSUME TypeOK, UsesInv, UNCHANGED Alive,
         NEW f \in Frames, Pointers(f) \subseteq Alive, NEW g \in Frames, Pointers(g) \subseteq Alive,
         \/ stack # <<>> /\ stack' \in {Tail(stack), Replace(f), Push(f, g)}
         \/ stack' = Call(f)
  PROVE  UsesInv'
<1>1. stack \in Seq(Frames) /\ Len(stack) \in Nat /\ (stack # <<>> => Len(stack) > 0)
  BY DEF TypeOK
<1>2. \A k \in 1 .. Len(stack) : Pointers(stack[k]) \subseteq Alive
  BY DEF UsesInv
<1>3. SUFFICES \A k \in 1 .. Len(stack') : Pointers(stack'[k]) \subseteq Alive
  BY DEF UsesInv, Pointers
<1>4. /\ Len(Call(f)) = Len(stack) + 1
      /\ Call(f)[1] = f /\ \A k \in 2 .. Len(stack) + 1 : Call(f)[k] = stack[k - 1]
  BY <1>1, StackOps
<1>5. ASSUME stack # <<>>
      PROVE  /\ Len(Tail(stack)) = Len(stack) - 1
             /\ \A k \in 1 .. Len(stack) - 1 : Tail(stack)[k] = stack[k + 1]
             /\ Len(Replace(f)) = Len(stack)
             /\ Replace(f)[1] = f /\ \A k \in 2 .. Len(stack) : Replace(f)[k] = stack[k]
             /\ Len(Push(f, g)) = Len(stack) + 1
             /\ Push(f, g)[1] = f /\ Push(f, g)[2] = g
             /\ \A k \in 3 .. Len(stack) + 1 : Push(f, g)[k] = stack[k - 1]
  <2>1. /\ Len(Tail(stack)) = Len(stack) - 1
        /\ \A k \in 1 .. Len(stack) - 1 : Tail(stack)[k] = stack[k + 1]
    BY <1>1, <1>5
  <2>2. /\ Len(Replace(f)) = Len(stack)
        /\ Replace(f)[1] = f /\ \A k \in 2 .. Len(stack) : Replace(f)[k] = stack[k]
    BY <1>1, <1>5, StackOps
  <2>3. /\ Len(Push(f, g)) = Len(stack) + 1
        /\ Push(f, g)[1] = f /\ Push(f, g)[2] = g
        /\ \A k \in 3 .. Len(stack) + 1 : Push(f, g)[k] = stack[k - 1]
    BY <1>1, <1>5, StackOps
  <2> QED BY <2>1, <2>2, <2>3
<1>6. CASE stack # <<>> /\ stack' = Tail(stack)
  BY <1>1, <1>2, <1>5, <1>6
<1>7. CASE stack # <<>> /\ stack' = Replace(f)
  BY <1>1, <1>2, <1>5, <1>7
<1>8. CASE stack # <<>> /\ stack' = Push(f, g)
  BY <1>1, <1>2, <1>5, <1>8
<1>9. CASE stack' = Call(f)
  BY <1>1, <1>2, <1>4, <1>9
<1> QED BY <1>6, <1>7, <1>8, <1>9

(***************************************************************************)
(* A frame whose history changes points to the same.                       *)
(***************************************************************************)
LEMMA UnsteadyPointers ==
  ASSUME stack \in Seq(Frames), NEW h
  PROVE  /\ Len(Unsteady(h)) = Len(stack)
         /\ \A k \in 1 .. Len(stack) : Pointers(Unsteady(h)[k]) = Pointers(stack[k])
<1>1. Len(Unsteady(h)) = Len(stack)
  BY UnsteadyType
<1>2. ASSUME NEW k \in 1 .. Len(stack) PROVE Pointers(Unsteady(h)[k]) = Pointers(stack[k])
  <2>1. CASE stack[k].at \notin {"dec.check", "node.next"}
    BY <2>1 DEF Unsteady
  <2>2. CASE stack[k].at = "dec.check"
    <3>1. /\ Unsteady(h)[k].at = "dec.check"
          /\ Unsteady(h)[k].pos = stack[k].pos /\ Unsteady(h)[k].temp = stack[k].temp
      BY <2>2, UnsteadyType
    <3> QED BY <2>2, <3>1, PointersOf
  <2>3. CASE stack[k].at = "node.next"
    <3>1. /\ Unsteady(h)[k].at = "node.next"
          /\ Unsteady(h)[k].pos = stack[k].pos /\ Unsteady(h)[k].node = stack[k].node
      BY <2>3, UnsteadyType
    <3> QED BY <2>3, <3>1, PointersOf
  <2> QED BY <2>1, <2>2, <2>3
<1> QED BY <1>1, <1>2

(***************************************************************************)
(* A message enters the loop over the handlers, and the loop over the      *)
(* interfaces starts, at objects that are alive.                           *)
(***************************************************************************)
LEMMA LoopsStartAlive ==
  ASSUME PlainInv
  PROVE  /\ \A again \in BOOLEAN : OnceLoop(again) \in Frames /\ Pointers(OnceLoop(again)) \subseteq Alive
         /\ \A table \in [TableIds -> Interfaces \cup {TheBridge, AllInterfaces}] :
              \A msg \in Messages, origin \in Interfaces \cup {TheBridge} :
                Decoded(table, msg, origin) \in Frames /\ Pointers(Decoded(table, msg, origin)) \subseteq Alive
<1>1. TypeOK /\ externalInterfaceList \in Seq(Interfaces) /\ bridgeHandlerList \in Seq(BridgeHandlers)
  BY DEF PlainInv, TypeOK
<1>2. ASSUME NEW again \in BOOLEAN
      PROVE  OnceLoop(again) \in Frames /\ Pointers(OnceLoop(again)) \subseteq Alive
  <2>1. {SafeLoopPos(externalInterfaceList), SafeLoopTemp(externalInterfaceList)}
          \subseteq Registered \cup {ListHead}
    BY <1>1, ListNextLinked DEF SafeLoopPos, SafeLoopTemp, Registered
  <2>2. /\ OnceLoop(again).at = "once.read" /\ OnceLoop(again).pos = SafeLoopPos(externalInterfaceList)
        /\ OnceLoop(again).temp = SafeLoopTemp(externalInterfaceList)
    BY DEF OnceLoop
  <2>3. Pointers(OnceLoop(again)) = {OnceLoop(again).pos, OnceLoop(again).temp} \ {ListHead}
    BY <2>2, PointersOf
  <2> QED BY <1>1, <2>1, <2>2, <2>3, OnceLoopType, KindsAreFrames, ListedAlive
<1>3. ASSUME NEW table \in [TableIds -> Interfaces \cup {TheBridge, AllInterfaces}],
             NEW msg \in Messages, NEW origin \in Interfaces \cup {TheBridge}
      PROVE  /\ Decoded(table, msg, origin) \in Frames
             /\ Pointers(Decoded(table, msg, origin)) \subseteq Alive
  <2> DEFINE f == Decoded(table, msg, origin)
  <2>1. {SafeLoopPos(bridgeHandlerList), SafeLoopTemp(bridgeHandlerList)} \subseteq Attached \cup {ListHead}
    BY <1>1, ListNextLinked DEF SafeLoopPos, SafeLoopTemp, Attached
  <2>2. /\ f.at = "dec.loop" /\ f.pos = SafeLoopPos(bridgeHandlerList)
        /\ f.temp = SafeLoopTemp(bridgeHandlerList)
    BY DEF Decoded
  <2>3. f \in Frames
    BY <1>1, DecodedType, KindsAreFrames
  <2> HIDE DEF f
  <2>4. Pointers(f) = {f.pos, f.temp} \ {ListHead}
    BY <2>2, PointersOf
  <2>5. f \in Frames /\ Pointers(f) \subseteq Alive
    BY <2>1, <2>2, <2>3, <2>4, ListedAlive
  <2> QED BY <2>5 DEF f
<1> QED BY <1>2, <1>3

(***************************************************************************)
(* The library by itself goes on at objects that are alive: what its loops *)
(* and its parsers point to was alive, or is on a list.                    *)
(***************************************************************************)
LEMMA OnceUses ==
  ASSUME PlainInv, UsesInv, UNCHANGED Alive,
         \/ Process(TRUE) \/ ReadNothing \/ OnceCheck \/ OnceReturn
         \/ \E chunk \in Chunks : ReadBytes(chunk)
  PROVE  UsesInv'
<1> DEFINE l == externalInterfaceList
           u == [at |-> "user"]
<1>0. TypeOK /\ stack \in Seq(Frames) /\ l \in Seq(Interfaces) /\ Linked(l) \subseteq Alive
  BY ListedAlive DEF PlainInv, TypeOK, Registered
<1>1. u \in Frames /\ Pointers(u) \subseteq Alive
  BY KindsAreFrames, PointersOf
<1>2. OnceLoop(TRUE) \in Frames /\ Pointers(OnceLoop(TRUE)) \subseteq Alive
  BY LoopsStartAlive
<1> HIDE DEF u
<1>3. CASE Process(TRUE)
  <2>1. stack' = Call(OnceLoop(TRUE))
    BY <1>3 DEF Process, Call
  <2> QED BY <1>0, <1>1, <1>2, <2>1, PointersStep
<1>4. ASSUME stack # <<>>, Top.at \in {"once.read", "once.check"}
      PROVE  Top \in OnceFrame /\ {Top.pos, Top.temp} \ {ListHead} \subseteq Alive
  <2>1. Top \in OnceFrame /\ 1 \in 1 .. Len(stack)
    BY <1>0, <1>4, TopIsFrame, FrameKinds
  <2>2. Pointers(Top) \subseteq Alive
    BY <2>1 DEF UsesInv, Top
  <2> QED BY <1>4, <2>1, <2>2, PointersOf
<1>5. ASSUME NEW chunk \in Chunks, ReadBytes(chunk) PROVE UsesInv'
  <2> DEFINE f == [at |-> "ext.parse", interface |-> Top.pos, chunk |-> chunk]
             g == [Top EXCEPT !.at = "once.check", !.got = TRUE]
  <2>1. stack # <<>> /\ Top \in OnceFrame /\ Top.pos # ListHead /\ {Top.pos, Top.temp} \ {ListHead} \subseteq Alive
    BY <1>4, <1>5 DEF ReadBytes, Active
  <2>2. chunk \in Seq(Packets) /\ Top.pos \in Interfaces
    BY <2>1 DEF Chunks, OnceFrame
  <2>3. f \in ExternalFrame /\ f.at = "ext.parse" /\ f.interface = Top.pos
    BY <2>2 DEF ExternalFrame
  <2>4. g \in OnceFrame /\ g.at = "once.check" /\ g.temp = Top.temp /\ g.pos = Top.pos
    BY <2>1 DEF OnceFrame
  <2>5. stack' = Push(f, g)
    BY <1>5 DEF ReadBytes
  <2> HIDE DEF f, g
  <2>6. Pointers(f) \subseteq Alive /\ Pointers(g) \subseteq Alive
    BY <2>1, <2>3, <2>4, PointersOf
  <2> QED BY <1>0, <2>1, <2>3, <2>4, <2>5, <2>6, KindsAreFrames, PointersStep
<1>6. CASE ReadNothing
  <2> DEFINE g == [Top EXCEPT !.at = "once.check"]
  <2>1. stack # <<>> /\ Top \in OnceFrame /\ {Top.pos, Top.temp} \ {ListHead} \subseteq Alive
    BY <1>4, <1>6 DEF ReadNothing, Active
  <2>2. g \in OnceFrame /\ g.at = "once.check" /\ g.temp = Top.temp /\ g.pos = Top.pos
    BY <2>1 DEF OnceFrame
  <2>3. stack' = Replace(g)
    BY <1>6 DEF ReadNothing
  <2> HIDE DEF g
  <2>4. Pointers(g) \subseteq Alive
    BY <2>1, <2>2, PointersOf
  <2> QED BY <1>0, <1>1, <2>1, <2>2, <2>3, <2>4, KindsAreFrames, PointersStep
<1>7. CASE OnceCheck
  <2> DEFINE h == [Top EXCEPT !.at = "once.read"]
             next == TempAfterCheck(l, h)
             f == CheckListInLoop(l, h)
  <2>1. stack # <<>> /\ Top \in OnceFrame /\ {Top.pos, Top.temp} \ {ListHead} \subseteq Alive
    BY <1>4, <1>7 DEF OnceCheck, Active
  <2>2. h \in OnceFrame /\ h.at = "once.read" /\ h.pos = Top.pos /\ h.temp = Top.temp
    BY <2>1 DEF OnceFrame
  <2>3. next \in {Top.pos, Top.temp} /\ next \in Interfaces \cup {ListHead}
    BY <2>1, <2>2 DEF TempAfterCheck, OnceFrame
  <2> HIDE DEF h
  <2>4. ListNext(l, next) \in Linked(l) \cup {ListHead, next} /\ ListNext(l, next) \in Interfaces \cup {ListHead}
    BY <1>0, <2>3, ListNextLinked, SafeLoopType
  <2>5. f \in OnceFrame /\ f.at = "once.read" /\ f.pos = next /\ f.temp = ListNext(l, next)
    BY <2>2, <2>3, <2>4 DEF CheckListInLoop, SafeLoopNext, OnceFrame
  <2>6. stack' = Replace(f)
    BY <1>7 DEF OnceCheck, h
  <2> HIDE DEF f, next
  <2>7. Pointers(f) \subseteq Alive
    BY <1>0, <2>1, <2>3, <2>4, <2>5, PointersOf
  <2> QED BY <1>0, <1>1, <2>1, <2>5, <2>6, <2>7, KindsAreFrames, PointersStep
<1>8. CASE OnceReturn
  <2>1. stack # <<>> /\ stack' \in {Tail(stack), Replace(OnceLoop(TRUE))}
    BY <1>8 DEF OnceReturn, Active
  <2> QED BY <1>0, <1>1, <1>2, <2>1, PointersStep
<1> QED BY <1>3, <1>5, <1>6, <1>7, <1>8

(***************************************************************************)
(* The messages of an interface.                                           *)
(***************************************************************************)
LEMMA ExternalUses ==
  ASSUME PlainInv, UsesInv, UNCHANGED Alive, HandlePacket \/ ExternalAfter \/ ExternalReturn
  PROVE  UsesInv'
<1> DEFINE u == [at |-> "user"]
<1>0. TypeOK /\ stack \in Seq(Frames) /\ stack # <<>>
  BY DEF PlainInv, TypeOK, HandlePacket, ExternalAfter, ExternalReturn, Active
<1>1. u \in Frames /\ Pointers(u) \subseteq Alive
  BY KindsAreFrames, PointersOf
<1> HIDE DEF u
<1>2. Top \in ExternalFrame /\ Top.interface \in Alive
  <2>1. Top.at \in {"ext.parse", "ext.after"} /\ 1 \in 1 .. Len(stack)
    BY <1>0, TopIsFrame DEF HandlePacket, ExternalAfter, ExternalReturn, Active
  <2>2. Pointers(Top) \subseteq Alive
    BY <2>1 DEF UsesInv, Top
  <2> QED BY <1>0, <2>1, <2>2, TopIsFrame, FrameKinds, PointersOf
<1>3. CASE HandlePacket
  <2> DEFINE msg == Head(Top.chunk)
             f == Decoded(routingTable', msg, Top.interface)
             g == [Top EXCEPT !.at = "ext.after", !.chunk = Tail(@)]
  <2>1. Top.chunk \in Seq(Packets) /\ Top.chunk # <<>> /\ Top.interface \in Interfaces
    BY <1>2, <1>3 DEF HandlePacket, ExternalFrame
  <2>2. msg \in Messages /\ Tail(Top.chunk) \in Seq(Packets)
    <3>1. msg \in Packets /\ Tail(Top.chunk) \in Seq(Packets)
      BY <2>1
    <3> QED BY <3>1, PacketsAreMessages
  <2>3. routingTable' \in [TableIds -> Interfaces \cup {TheBridge, AllInterfaces}]
    BY <1>0, <1>3, ExternalType DEF TypeOK
  <2>4. f \in Frames /\ Pointers(f) \subseteq Alive
    BY <2>1, <2>2, <2>3, LoopsStartAlive
  <2>5. g \in ExternalFrame /\ g.at = "ext.after" /\ g.interface = Top.interface
    BY <1>2, <2>2 DEF ExternalFrame
  <2>6. stack' = Push(f, g)
    BY <1>3 DEF HandlePacket
  <2> HIDE DEF f, g
  <2>7. Pointers(g) \subseteq Alive
    BY <1>2, <2>5, PointersOf
  <2> QED BY <1>0, <2>4, <2>5, <2>6, <2>7, KindsAreFrames, PointersStep
<1>4. CASE ExternalAfter
  <2> DEFINE f == [Top EXCEPT !.at = "ext.parse"]
  <2>1. f \in ExternalFrame /\ f.at = "ext.parse" /\ f.interface = Top.interface
    BY <1>2 DEF ExternalFrame
  <2>2. stack' \in {Tail(stack), Replace(f)}
    BY <1>4 DEF ExternalAfter
  <2> HIDE DEF f
  <2>3. Pointers(f) \subseteq Alive
    BY <1>2, <2>1, PointersOf
  <2> QED BY <1>0, <1>1, <2>1, <2>2, <2>3, KindsAreFrames, PointersStep
<1>5. CASE ExternalReturn
  BY <1>0, <1>1, <1>5, PointersStep DEF ExternalReturn
<1> QED BY <1>3, <1>4, <1>5

(***************************************************************************)
(* The loop over the bridge handlers.                                      *)
(***************************************************************************)
LEMMA HandlerUses ==
  ASSUME PlainInv, UsesInv, UNCHANGED Alive,
         SkipHandler \/ CallHandler \/ CallNode \/ DecodedCheck \/ DecodedReturn
  PROVE  UsesInv'
<1> DEFINE l == bridgeHandlerList
           u == [at |-> "user"]
           g == [Top EXCEPT !.at = "dec.check"]
           caller == Note(g, Top.pos)
<1>0. TypeOK /\ stack \in Seq(Frames) /\ stack # <<>> /\ l \in Seq(BridgeHandlers) /\ Linked(l) \subseteq Alive
  BY ListedAlive
     DEF PlainInv, TypeOK, SkipHandler, CallHandler, CallNode, DecodedCheck, DecodedReturn, Active, Attached
<1>1. u \in Frames /\ Pointers(u) \subseteq Alive
  BY KindsAreFrames, PointersOf
<1>2. Top \in DecodedFrame /\ {Top.pos, Top.temp} \ {ListHead} \subseteq Alive
  <2>1. Top.at \in {"dec.loop", "dec.check"} /\ 1 \in 1 .. Len(stack)
    BY <1>0, TopIsFrame DEF SkipHandler, CallHandler, CallNode, DecodedCheck, DecodedReturn, Active
  <2>2. Pointers(Top) \subseteq Alive
    BY <2>1 DEF UsesInv, Top
  <2> QED BY <1>0, <2>1, <2>2, TopIsFrame, FrameKinds, PointersOf
<1>3. ASSUME Top.pos \in BridgeHandlers
      PROVE  caller \in Frames /\ Pointers(caller) \subseteq Alive
  <2>1. g \in DecodedFrame /\ g.called = Top.called /\ g.at = "dec.check" /\ g.temp = Top.temp /\ g.pos = Top.pos
    BY <1>2 DEF DecodedFrame
  <2>2. /\ caller \in DecodedFrame /\ caller.at = "dec.check"
        /\ caller.temp = Top.temp /\ caller.pos = Top.pos
    BY <1>3, <2>1 DEF Note, DecodedFrame
  <2> HIDE DEF caller
  <2> QED BY <1>2, <2>2, KindsAreFrames, PointersOf
<1>4. ASSUME NEW next \in {Top.pos, Top.temp}
      PROVE  /\ ListNext(l, next) \in BridgeHandlers \cup {ListHead}
             /\ {next, ListNext(l, next)} \ {ListHead} \subseteq Alive
  <2>1. next \in BridgeHandlers \cup {ListHead}
    BY <1>2 DEF DecodedFrame
  <2>2. ListNext(l, next) \in Linked(l) \cup {ListHead, next} /\ ListNext(l, next) \in BridgeHandlers \cup {ListHead}
    BY <1>0, <2>1, ListNextLinked, SafeLoopType
  <2> QED BY <1>0, <1>2, <2>2
<1>5. CASE SkipHandler
  <2> DEFINE f == SafeLoopNext(l, Top)
  <2>1. f \in DecodedFrame /\ f.at = "dec.loop" /\ f.pos = Top.temp /\ f.temp = ListNext(l, Top.temp)
    BY <1>2, <1>4, <1>5 DEF SkipHandler, Active, SafeLoopNext, DecodedFrame
  <2>2. stack' = Replace(f)
    BY <1>5 DEF SkipHandler
  <2> HIDE DEF f
  <2>3. Pointers(f) \subseteq Alive
    BY <1>4, <2>1, PointersOf
  <2> QED BY <1>0, <1>1, <2>1, <2>2, <2>3, KindsAreFrames, PointersStep
<1>6. CASE CallHandler
  <2>1. Top.pos \in BridgeHandlers /\ stack' = Push(u, caller)
    BY <1>6 DEF CallHandler, BridgeHandlers
  <2> HIDE DEF caller, u
  <2> QED BY <1>0, <1>1, <1>3, <2>1, PointersStep
<1>7. CASE CallNode
  <2> DEFINE n == Top.pos
             f == NodeLoop(n, Top.origin)
  <2>1. n \in Nodes /\ n \in BridgeHandlers /\ Top.origin \in Interfaces \cup {TheBridge} /\ n # ListHead
    BY <1>2, <1>7, BridgeAssumption DEF CallNode, BridgeHandlers, DecodedFrame
  <2>2. nodeHandlerList[n] \in Seq(NodeHandlers) /\ Linked(nodeHandlerList[n]) \subseteq Alive
    BY <1>0, <2>1, ListedAlive DEF TypeOK
  <2>3. f.pos \in Linked(nodeHandlerList[n]) \cup {ListHead} /\ f.at = "node.loop" /\ f.node = n
    BY <2>2, ListNextLinked DEF NodeLoop
  <2>4. f \in Frames
    BY <2>1, <2>2, <2>3, LinkedType, KindsAreFrames DEF NodeLoop, NodeFrame
  <2>5. stack' \in {Push(f, caller), Replace(caller)}
    BY <1>7 DEF CallNode
  <2> HIDE DEF f, caller, u
  <2>6. Pointers(f) \subseteq Alive
    BY <1>2, <2>1, <2>2, <2>3, PointersOf
  <2>7. CASE stack' = Push(f, caller)
    BY <1>0, <1>3, <2>1, <2>4, <2>6, <2>7, PointersStep
  <2>8. CASE stack' = Replace(caller)
    BY <1>0, <1>1, <1>3, <2>1, <2>8, PointersStep
  <2> QED BY <2>5, <2>7, <2>8
<1>8. CASE DecodedCheck
  <2> DEFINE h == [Top EXCEPT !.at = "dec.loop"]
             next == TempAfterCheck(l, h)
             f == CheckListInLoop(l, h)
  <2>1. h \in DecodedFrame /\ h.at = "dec.loop" /\ h.pos = Top.pos /\ h.temp = Top.temp
    BY <1>2 DEF DecodedFrame
  <2>2. next \in {Top.pos, Top.temp} /\ next \in BridgeHandlers \cup {ListHead}
    BY <1>2, <2>1 DEF TempAfterCheck, DecodedFrame
  <2>3. stack' = Replace(f)
    BY <1>8 DEF DecodedCheck
  <2>4. f \in DecodedFrame /\ f.at = "dec.loop" /\ f.pos = next /\ f.temp = ListNext(l, next)
    <3>1. ListNext(l, next) \in BridgeHandlers \cup {ListHead}
      BY <1>4, <2>2
    <3> HIDE DEF h
    <3> QED BY <2>1, <2>2, <3>1 DEF CheckListInLoop, SafeLoopNext, DecodedFrame
  <2> HIDE DEF f, next
  <2>5. Pointers(f) \subseteq Alive
    BY <1>4, <2>2, <2>4, PointersOf
  <2> QED BY <1>0, <1>1, <2>3, <2>4, <2>5, KindsAreFrames, PointersStep
<1>9. CASE DecodedReturn
  BY <1>0, <1>1, <1>9, PointersStep DEF DecodedReturn
<1> QED BY <1>5, <1>6, <1>7, <1>8, <1>9

(***************************************************************************)
(* The loop over the handlers of a node, and the return of a handler.      *)
(***************************************************************************)
LEMMA NodeUses ==
  ASSUME PlainInv, UsesInv, UNCHANGED Alive,
         SkipNodeHandler \/ CallNodeHandler \/ NodeNext \/ NodeReturn \/ UserReturn
  PROVE  UsesInv'
<1> DEFINE u == [at |-> "user"]
<1>0. TypeOK /\ stack \in Seq(Frames) /\ stack # <<>>
  BY DEF PlainInv, TypeOK, SkipNodeHandler, CallNodeHandler, NodeNext, NodeReturn, UserReturn, Active
<1>1. u \in Frames /\ Pointers(u) \subseteq Alive
  BY KindsAreFrames, PointersOf
<1>2. ASSUME Top.at \in {"node.loop", "node.next"}
      PROVE  Top \in NodeFrame /\ {Top.node} \cup ({Top.pos} \ {ListHead}) \subseteq Alive
  <2>1. 1 \in 1 .. Len(stack)
    BY <1>0
  <2>2. Pointers(Top) \subseteq Alive
    BY <2>1 DEF UsesInv, Top
  <2> QED BY <1>0, <1>2, <2>2, TopIsFrame, FrameKinds, PointersOf
<1>3. CASE SkipNodeHandler \/ NodeNext
  <2> DEFINE l == nodeHandlerList[Top.node]
             f == NodeLoopNext(Top)
  <2>1. Top \in NodeFrame /\ {Top.node} \cup ({Top.pos} \ {ListHead}) \subseteq Alive
    BY <1>2, <1>3 DEF SkipNodeHandler, NodeNext, Active
  <2>2. Top.node \in Nodes /\ Top.pos \in NodeHandlers \cup {ListHead}
    BY <2>1 DEF NodeFrame
  <2>3. l \in Seq(NodeHandlers) /\ Linked(l) \subseteq Alive
    BY <1>0, <2>2, ListedAlive DEF TypeOK
  <2>4. ListNext(l, Top.pos) \in Linked(l) \cup {ListHead, Top.pos}
        /\ ListNext(l, Top.pos) \in NodeHandlers \cup {ListHead}
    BY <2>2, <2>3, ListNextLinked, LinkedType
  <2>5. f \in NodeFrame /\ f.at = "node.loop" /\ f.node = Top.node /\ f.pos = ListNext(l, Top.pos)
    BY <2>1, <2>4 DEF NodeLoopNext, NodeFrame
  <2>6. stack' = Replace(f)
    BY <1>3 DEF SkipNodeHandler, NodeNext
  <2> HIDE DEF f
  <2>7. Pointers(f) \subseteq Alive
    BY <2>1, <2>3, <2>4, <2>5, PointersOf
  <2> QED BY <1>0, <1>1, <2>5, <2>6, <2>7, KindsAreFrames, PointersStep
<1>4. CASE CallNodeHandler
  <2> DEFINE g == [Top EXCEPT !.at = "node.next"]
             caller == Note(g, Top.pos)
  <2>1. Top \in NodeFrame /\ {Top.node} \cup ({Top.pos} \ {ListHead}) \subseteq Alive /\ Top.pos \in NodeHandlers
    BY <1>2, <1>4 DEF CallNodeHandler, Active, NodeFrame
  <2>2. g \in NodeFrame /\ g.called = Top.called /\ g.at = "node.next"
        /\ g.node = Top.node /\ g.pos = Top.pos
    BY <2>1 DEF NodeFrame
  <2>3. caller \in NodeFrame /\ caller.at = "node.next"
        /\ caller.node = Top.node /\ caller.pos = Top.pos
    BY <2>1, <2>2 DEF Note, NodeFrame
  <2>4. stack' = Push(u, caller)
    BY <1>4 DEF CallNodeHandler
  <2> HIDE DEF caller, u
  <2>5. Pointers(caller) \subseteq Alive
    BY <2>1, <2>3, PointersOf
  <2> QED BY <1>0, <1>1, <2>3, <2>4, <2>5, KindsAreFrames, PointersStep
<1>5. CASE NodeReturn \/ UserReturn
  BY <1>0, <1>1, <1>5, PointersStep DEF NodeReturn, UserReturn
<1> QED BY <1>3, <1>4, <1>5

-----------------------------------------------------------------------------
(***************************************************************************)
(* Calls that leave the loop variables alone are harmless if they free     *)
(* nothing that is used.                                                   *)
(***************************************************************************)
LEMMA KeptAlive ==
  ASSUME TypeOK, UsesInv, InUse \subseteq Alive', stack' = stack \/ \E h : stack' = Unsteady(h)
  PROVE  UsesInv'
<1>1. \A k \in 1 .. Len(stack) : Pointers(stack[k]) \subseteq Alive'
  BY DEF InUse
<1>2. stack \in Seq(Frames)
  BY DEF TypeOK
<1>3. Len(stack') = Len(stack) /\ \A k \in 1 .. Len(stack) : Pointers(stack'[k]) = Pointers(stack[k])
  BY <1>2, UnsteadyPointers
<1> QED BY <1>1, <1>3 DEF UsesInv, Pointers

(***************************************************************************)
(* What the active calls use is alive.                                     *)
(***************************************************************************)
LEMMA UsesAlive ==
  ASSUME UsesInv
  PROVE  InUse \subseteq Alive
  BY DEF UsesInv, InUse

(***************************************************************************)
(* Under the rule "destroys", a call frees nothing that is used.           *)
(***************************************************************************)
LEMMA DestroysKeep ==
  ASSUME PlainInv, UsesInv, "destroys" \in Discipline, Destroys
  PROVE  InUse \subseteq Alive'
<1> USE DEF PlainInv
<1>0. InUse \subseteq Alive
  BY UsesAlive
<1>1. ASSUME NEW o, MayDestroy(o), UNCHANGED held,
             Owned \ (IF o \in held THEN {o} ELSE Freed(o)) \subseteq Owned'
      PROVE  InUse \subseteq Alive'
  BY <1>0, <1>1 DEF MayDestroy, MayFree, Alive
<1>2. ASSUME NEW o PROVE o \in Freed(o)
  BY DEF Freed
<1>3. ASSUME NEW i \in Interfaces, DestroyExternalInterface(i) PROVE InUse \subseteq Alive'
  <2>1. /\ externalInterfaces' = ListDelInit(externalInterfaces, i) /\ MayDestroy(i)
        /\ UNCHANGED <<bridgeHandler, nodes, allHandler, held>>
    BY <1>3 DEF DestroyExternalInterface, RemoveInterface, Without
  <2>2. Linked(externalInterfaces') = Linked(externalInterfaces) \ {i}
    BY <2>1, ListDelInitUnlinks DEF VectorsInv
  <2>3. Owned \ {i} \subseteq Owned'
    BY <2>1, <2>2 DEF Owned
  <2> QED BY <1>1, <1>2, <2>1, <2>3
<1>4. ASSUME NEW h \in Handlers, DestroyBridgeHandler(h) PROVE InUse \subseteq Alive'
  <2>1. /\ bridgeHandler' = ListDelInit(bridgeHandler, h) /\ MayDestroy(h)
        /\ UNCHANGED <<externalInterfaces, nodes, allHandler, held>>
    BY <1>4 DEF DestroyBridgeHandler, RemoveHandler, Without
  <2>2. Linked(bridgeHandler') = Linked(bridgeHandler) \ {h}
    BY <2>1, ListDelInitUnlinks DEF VectorsInv
  <2>3. Owned \ {h} \subseteq Owned'
    BY <2>1, <2>2 DEF Owned
  <2> QED BY <1>1, <1>2, <2>1, <2>3
<1>5. ASSUME NEW n \in Nodes, DestroyNode(n) PROVE InUse \subseteq Alive'
  <2>1. /\ nodes' = ListDelInit(nodes, n) /\ MayDestroy(n)
        /\ UNCHANGED <<externalInterfaces, bridgeHandler, held>>
        /\ n \in held => UNCHANGED allHandler
        /\ n \notin held => NodeDtor(n)
    BY <1>5 DEF DestroyNode, RemoveNode, Without
  <2>2. Linked(nodes') = Linked(nodes) \ {n}
    BY <2>1, ListDelInitUnlinks DEF VectorsInv
  <2>3. CASE n \in held
    <3>1. Owned \ {n} \subseteq Owned'
      BY <2>1, <2>2, <2>3 DEF Owned
    <3> QED BY <1>1, <2>1, <2>3, <3>1
  <2>4. CASE n \notin held
    <3>1. \A m \in Nodes \ {n} : allHandler'[m] = allHandler[m]
      BY <2>1, <2>4, NodeDtorUnlinks
    <3>2. Owned \ ({n} \cup Linked(allHandler[n])) \subseteq Owned'
      BY <2>1, <2>2, <3>1 DEF Owned
    <3>3. Freed(n) = {n} \cup (Linked(allHandler[n]) \ held)
      BY DEF Freed
    <3>4. Freed(n) \cap InUse = {}
      BY <2>1, <2>4 DEF MayDestroy, MayFree
    <3> QED BY <1>0, <2>1, <3>2, <3>3, <3>4 DEF Alive
  <2> QED BY <2>3, <2>4
<1>6. ASSUME NEW n \in Nodes, NEW k \in NodeHandlers, DestroyNodeHandler(n, k) PROVE InUse \subseteq Alive'
  <2>1. /\ allHandler' = [allHandler EXCEPT ![n] = ListDelInit(@, k)] /\ MayDestroy(k)
        /\ UNCHANGED <<externalInterfaces, bridgeHandler, nodes, held>>
    BY <1>6 DEF DestroyNodeHandler, Without
  <2>2. IsList(allHandler[n], NodeHandlers) /\ allHandler \in [Nodes -> Seq(NodeHandlers)]
    BY DEF VectorsInv
  <2>3. Linked(ListDelInit(allHandler[n], k)) = Linked(allHandler[n]) \ {k}
    BY <2>2, ListDelInitUnlinks
  <2>4. \A m \in Nodes : Linked(allHandler[m]) \ {k} \subseteq Linked(allHandler'[m])
    BY <2>1, <2>2, <2>3
  <2>5. Owned \ {k} \subseteq Owned'
    BY <2>1, <2>4 DEF Owned
  <2> QED BY <1>1, <1>2, <2>1, <2>5
<1> QED BY <1>3, <1>4, <1>5, <1>6 DEF Destroys

(***************************************************************************)
(* Nor does the end of a shared pointer, nor does a factory.               *)
(***************************************************************************)
LEMMA OthersKeep ==
  ASSUME PlainInv, UsesInv, "destroys" \in Discipline,
         Factories \/ \E o \in Objects : Lock(o) \/ Release(o)
  PROVE  InUse \subseteq Alive' /\ UNCHANGED stack
<1> USE DEF PlainInv
<1>0. InUse \subseteq Alive
  BY UsesAlive
<1>1. CASE Factories
  <2>1. ASSUME NEW i, NEW mirror, NEW readable, NEW numbers, CreateInterface(i, mirror, numbers, readable)
        PROVE  UNCHANGED <<bridgeHandler, nodes, allHandler, held, stack>>
               /\ externalInterfaces' = Append(externalInterfaces, i)
    BY <2>1 DEF CreateInterface, CreateExternalInterface
  <2>2. ASSUME NEW S, NEW vector \in Seq(S), NEW o
        PROVE  Linked(vector) \subseteq Linked(Append(vector, o))
    <3>1. ASSUME NEW k \in 1 .. Len(vector) PROVE vector[k] \in Linked(Append(vector, o))
      <4>1. k \in 1 .. Len(Append(vector, o)) /\ Append(vector, o)[k] = vector[k]
        OBVIOUS
      <4> QED BY <4>1 DEF Linked
    <3> QED BY <3>1 DEF Linked
  <2>3. /\ externalInterfaces \in Seq(Interfaces) /\ bridgeHandler \in Seq(Handlers)
        /\ nodes \in Seq(Nodes) /\ allHandler \in [Nodes -> Seq(NodeHandlers)]
    BY DEF VectorsInv, IsList
  <2>4. ASSUME NEW i, NEW mirror, NEW readable, NEW numbers, CreateInterface(i, mirror, numbers, readable)
        PROVE  Owned \subseteq Owned'
    <3>1. Linked(externalInterfaces) \subseteq Linked(externalInterfaces')
      BY <2>1, <2>2, <2>3, <2>4
    <3> QED BY <2>1, <2>4, <3>1 DEF Owned
  <2>5. ASSUME NEW h, CreateBridgeHandler(h) PROVE Owned \subseteq Owned' /\ UNCHANGED <<held, stack>>
    <3>1. UNCHANGED <<externalInterfaces, nodes, allHandler, held, stack>>
          /\ bridgeHandler' = Append(bridgeHandler, h)
      BY <2>5 DEF CreateBridgeHandler
    <3>2. Linked(bridgeHandler) \subseteq Linked(bridgeHandler')
      BY <2>2, <2>3, <3>1
    <3> QED BY <3>1, <3>2 DEF Owned
  <2>6. ASSUME NEW n, NEW id, CreateNode(n, id) PROVE Owned \subseteq Owned' /\ UNCHANGED <<held, stack>>
    <3>1. UNCHANGED <<externalInterfaces, bridgeHandler, allHandler, held, stack>>
          /\ nodes' = Append(nodes, n)
      BY <2>6 DEF CreateNode
    <3>2. Linked(nodes) \subseteq Linked(nodes')
      BY <2>2, <2>3, <3>1
    <3> QED BY <3>1, <3>2 DEF Owned
  <2>7. ASSUME NEW n \in Nodes, NEW k, CreateNodeHandler(n, k)
        PROVE  Owned \subseteq Owned' /\ UNCHANGED <<held, stack>>
    <3>1. UNCHANGED <<externalInterfaces, bridgeHandler, nodes, held, stack>>
          /\ allHandler' = [allHandler EXCEPT ![n] = Append(@, k)]
      BY <2>7 DEF CreateNodeHandler
    <3>2. \A m \in Nodes : Linked(allHandler[m]) \subseteq Linked(allHandler'[m])
      BY <2>2, <2>3, <3>1
    <3> QED BY <3>1, <3>2 DEF Owned
  <2> QED BY <1>0, <1>1, <2>1, <2>4, <2>5, <2>6, <2>7 DEF Factories, Alive
<1>2. ASSUME NEW o \in Objects, Lock(o) PROVE InUse \subseteq Alive' /\ UNCHANGED stack
  BY <1>0, <1>2 DEF Lock, vectors, Alive, Owned
<1>3. ASSUME NEW o \in Objects, Release(o) PROVE InUse \subseteq Alive' /\ UNCHANGED stack
  <2>1. /\ held' = held \ {o}
        /\ UNCHANGED <<stack, externalInterfaces, bridgeHandler, nodes>>
    BY <1>3 DEF Release
  <2>2. CASE o \in Owned \/ (o \notin Nodes /\ MayFree(o) /\ UNCHANGED allHandler)
    <3>1. UNCHANGED allHandler
      BY <1>3, <2>2 DEF Release
    <3>2. Owned' = Owned
      BY <2>1, <3>1 DEF Owned
    <3>3. o \in Owned \/ o \notin InUse
      BY <2>2 DEF MayFree, Freed
    <3> QED BY <1>0, <2>1, <3>2, <3>3 DEF Alive
  <2>3. CASE o \notin Owned /\ o \in Nodes
    <3>1. NodeDtor(o) /\ MayFree(o)
      BY <1>3, <2>3 DEF Release
    <3>2. \A m \in Nodes \ {o} : allHandler'[m] = allHandler[m]
      BY <2>3, <3>1, NodeDtorUnlinks
    <3>3. Owned \ Linked(allHandler[o]) \subseteq Owned'
      BY <2>1, <3>2 DEF Owned
    <3>4. ({o} \cup (Linked(allHandler[o]) \ held)) \cap InUse = {}
      BY <2>3, <3>1 DEF MayFree, Freed
    <3> QED BY <1>0, <2>1, <3>3, <3>4 DEF Alive
  <2>4. CASE o \notin Owned /\ o \notin Nodes
    BY <1>3, <2>2, <2>4 DEF Release
  <2> QED BY <2>2, <2>3, <2>4
<1> QED BY <1>1, <1>2, <1>3

(***************************************************************************)
(* Every step leaves the active calls what they use.                       *)
(***************************************************************************)
LEMMA UsesStep ==
  ASSUME PlainInv, UsesInv, "destroys" \in Discipline, [OwnershipNext]_ownershipVars
  PROVE  UsesInv'
<1>0. TypeOK /\ PlainInv'
  BY PlainStep DEF PlainInv
<1>1. ASSUME UNCHANGED <<vectors, held>> PROVE UNCHANGED Alive
  BY <1>1 DEF vectors, Alive, Owned
<1>2. CASE teardown = "no" /\ Process(TRUE) /\ UNCHANGED <<vectors, held, teardown>>
  BY <1>1, <1>2, OnceUses
<1>3. CASE Running
  BY <1>1, <1>3, OnceUses, ExternalUses, HandlerUses, NodeUses DEF Running, Run
<1>4. CASE Sends /\ UNCHANGED <<vectors, held, teardown>>
  <2> DEFINE u == [at |-> "user"]
  <2>1. u \in Frames /\ Pointers(u) \subseteq Alive
    BY KindsAreFrames, PointersOf
  <2> HIDE DEF u
  <2>2. routingTable \in [TableIds -> Interfaces \cup {TheBridge, AllInterfaces}]
        /\ TheBridge \in Interfaces \cup {TheBridge}
    BY <1>0 DEF TypeOK
  <2>3. ASSUME NEW msg \in Messages, stack' = Call(Decoded(routingTable, msg, TheBridge)) PROVE UsesInv'
    <3>1. /\ Decoded(routingTable, msg, TheBridge) \in Frames
          /\ Pointers(Decoded(routingTable, msg, TheBridge)) \subseteq Alive
      BY <2>2, LoopsStartAlive
    <3> QED BY <1>0, <1>1, <1>4, <2>1, <2>3, <3>1, PointersStep
  <2>4. ASSUME NEW n \in Nodes, NEW id \in DeviceIds, NodeSend(n, id) PROVE UsesInv'
    <3>1. [sender |-> ownId[n], receiver |-> id] \in Messages
      BY <1>0 DEF TypeOK, Messages
    <3> QED BY <2>3, <2>4, <3>1 DEF NodeSend
  <2>5. ASSUME NEW msg \in Messages, SendRaw(msg) PROVE UsesInv'
    BY <2>3, <2>5 DEF SendRaw
  <2> QED BY <1>4, <2>4, <2>5 DEF Sends
<1>5. CASE ByHand /\ UNCHANGED <<vectors, held, teardown>>
  <2>1. stack' = stack \/ \E h : stack' = Unsteady(h)
    BY <1>5 DEF ByHand, RegisterExternalInterface, DeregisterExternalInterface, ExternalInterfaceSetFlags,
      SetRoutingForDeviceId, RegisterBridgeHandler, DeregisterBridgeHandler, DetachHandler
  <2> QED BY <1>0, <1>1, <1>5, <2>1, UsesAlive, KeptAlive
<1>6. CASE Destroys
  <2>1. stack' = stack \/ \E h : stack' = Unsteady(h)
    BY <1>6 DEF Destroys, DestroyExternalInterface, DestroyBridgeHandler, DestroyNode, DestroyNodeHandler,
      RemoveInterface, RemoveHandler, RemoveNode, DetachHandler
  <2> QED BY <1>0, <1>6, <2>1, DestroysKeep, KeptAlive
<1>7. CASE Factories \/ \E o \in Objects : Lock(o) \/ Release(o)
  BY <1>0, <1>7, OthersKeep, KeptAlive
<1>8. CASE StartTeardown \/ Teardown
  <2>1. teardown' # "no"
    BY <1>8 DEF StartTeardown, Teardown, TeardownObject, TeardownNext
  <2>2. stack' = <<>>
    BY <1>0, <2>1 DEF PlainInv, TeardownInv
  <2> QED BY <2>2 DEF UsesInv
<1>9. CASE UNCHANGED ownershipVars
  <2>1. stack' = stack /\ UNCHANGED <<vectors, held>>
    BY <1>9 DEF ownershipVars, vars
  <2> QED BY <1>0, <1>1, <2>1, UsesAlive, KeptAlive
<1> QED BY <1>2, <1>3, <1>4, <1>5, <1>6, <1>7, <1>8, <1>9 DEF OwnershipNext

-----------------------------------------------------------------------------
(***************************************************************************)
(* The loops and the routes, when objects are created and destroyed.       *)
(***************************************************************************)
LEMMA FactoriesSafe ==
  ASSUME PlainInv, StackInv, RoutesAreLive, Factories
  PROVE  StackInv' /\ RoutesAreLive'
<1>0. TypeOK /\ stack \in Seq(Frames)
  BY DEF PlainInv, TypeOK
<1>1. ASSUME NEW name, CppCalls(name) PROVE \A k \in 1 .. Len(stack) : stack[k].at \in Waiting /\ FrameInv(stack[k])
  BY <1>0, <1>1, CallersWait DEF CppCalls
<1>2. ASSUME NEW i \in Interfaces, NEW mirror \in BOOLEAN, NEW readable \in BOOLEAN, NEW numbers,
             CreateInterface(i, mirror, numbers, readable)
      PROVE  StackInv' /\ RoutesAreLive'
  <2>1. /\ externalInterfaceList' = ListAdd(externalInterfaceList, i)
        /\ UNCHANGED <<bridgeHandlerList, nodeHandlerList, stack>>
    BY <1>2 DEF CreateInterface, CreateExternalInterface
  <2>2. Registered' = Registered \cup {i}
    BY <1>0, <2>1, ListAddLinks DEF TypeOK, Registered
  <2>3. \A k \in 1 .. Len(stack) : stack[k].at \in Waiting /\ FrameInv(stack[k])
    BY <1>1, <1>2 DEF CreateInterface
  <2>4. StackInv'
    BY <1>0, <2>1, <2>2, <2>3, ListChangeSafe DEF FrameInv, Anchored, Registered
  <2>5. \A id \in TableIds : routingTable'[id] \in {routingTable[id], i}
    BY <1>2 DEF CreateInterface
  <2> QED BY <2>2, <2>4, <2>5 DEF RoutesAreLive
<1>3. ASSUME NEW h \in Handlers, CreateBridgeHandler(h) PROVE StackInv' /\ RoutesAreLive'
  <2>1. /\ AttachHandler(h) /\ h \in BridgeHandlers
        /\ UNCHANGED <<externalInterfaceList, nodeHandlerList, routingTable, stack>>
    BY <1>3 DEF CreateBridgeHandler, BridgeHandlers
  <2>2. \A k \in 1 .. Len(stack) : stack[k].at \in Waiting
    BY <1>1, <1>3 DEF CreateBridgeHandler
  <2> QED BY <1>0, <2>1, <2>2, AttachSafe, RoutesUnchanged
<1>4. ASSUME NEW n \in Nodes, NEW id, CreateNode(n, id) PROVE StackInv' /\ RoutesAreLive'
  <2>1. /\ AttachHandler(n) /\ n \in BridgeHandlers /\ routingTable' = MarkInternal(routingTable, id)
        /\ UNCHANGED <<externalInterfaceList, nodeHandlerList, stack>>
    BY <1>4 DEF CreateNode, BridgeHandlers
  <2>2. \A k \in 1 .. Len(stack) : stack[k].at \in Waiting
    BY <1>1, <1>4 DEF CreateNode
  <2>3. \A j \in TableIds : routingTable'[j] \in {routingTable[j], TheBridge}
    BY <2>1 DEF MarkInternal, RoutingTableUpdate
  <2>4. RoutesAreLive'
    BY <2>1, <2>3, BridgeAssumption DEF RoutesAreLive, Registered
  <2> QED BY <1>0, <2>1, <2>2, <2>4, AttachSafe
<1>5. ASSUME NEW n \in Nodes, NEW h \in NodeHandlers, CreateNodeHandler(n, h) PROVE StackInv' /\ RoutesAreLive'
  <2>1. /\ nodeHandlerList' = [nodeHandlerList EXCEPT ![n] = ListAdd(@, h)]
        /\ UNCHANGED <<externalInterfaceList, bridgeHandlerList, routingTable, stack>>
    BY <1>5 DEF CreateNodeHandler
  <2>2. \A k \in 1 .. Len(stack) : stack[k].at \in Waiting /\ FrameInv(stack[k])
    BY <1>1, <1>5 DEF CreateNodeHandler
  <2>3. nodeHandlerList \in [Nodes -> Seq(NodeHandlers)]
    BY <1>0 DEF TypeOK
  <2>4. Linked(ListAdd(nodeHandlerList[n], h)) = Linked(nodeHandlerList[n]) \cup {h}
    BY <2>3, ListAddLinks
  <2>5. \A m \in Nodes : Linked(nodeHandlerList[m]) \subseteq Linked(nodeHandlerList'[m])
    BY <2>1, <2>3, <2>4
  <2>6. \A k \in 1 .. Len(stack) : stack[k].at = "node.next" => stack[k].node \in Nodes
    BY <1>0, FrameKinds DEF NodeFrame
  <2>7. \A k \in 1 .. Len(stack) :
          stack[k].at = "node.next" => stack[k].pos \in Linked(nodeHandlerList'[stack[k].node])
    BY <2>2, <2>5, <2>6 DEF FrameInv
  <2>8. StackInv'
    BY <1>0, <2>1, <2>2, <2>7, ListChangeSafe DEF FrameInv
  <2> QED BY <2>1, <2>8, RoutesUnchanged
<1> QED BY <1>2, <1>3, <1>4, <1>5 DEF Factories

(***************************************************************************)
(* A node that is freed is not in use, so none of its loops is running.    *)
(***************************************************************************)
LEMMA FreedNodeUnused ==
  ASSUME PlainInv, StackInv, "destroys" \in Discipline, NEW n \in Nodes, MayFree(n), NodeDtor(n),
         NEW k \in 1 .. Len(stack), stack[k].at = "node.next"
  PROVE  stack[k].pos \in Linked(nodeHandlerList'[stack[k].node])
<1>1. stack[k] \in Frames
  BY DEF PlainInv, TypeOK
<1>2. stack[k].node \in Nodes
  BY <1>1, FrameKinds DEF NodeFrame
<1>3. stack[k].node \in InUse
  BY PointersOf DEF InUse
<1>4. n \notin InUse
  BY DEF MayFree, Freed
<1>5. nodeHandlerList'[stack[k].node] = nodeHandlerList[stack[k].node]
  BY <1>2, <1>3, <1>4, NodeDtorUnlinks
<1> QED BY <1>5 DEF StackInv, FrameInv

(***************************************************************************)
(* A removal takes the routes of the interface with it.                    *)
(***************************************************************************)
LEMMA RemovesRoutes ==
  ASSUME PlainInv, RoutesAreLive,
         \/ \E i \in Interfaces : RemoveInterface(i)
         \/ \E h \in Handlers : RemoveHandler(h)
         \/ \E n \in Nodes : RemoveNode(n)
  PROVE  RoutesAreLive'
<1>1. ASSUME NEW i \in Interfaces, RemoveInterface(i) PROVE RoutesAreLive'
  <2>1. Registered' = Registered \ {i}
    BY <1>1, ListDelInitUnlinks DEF RemoveInterface, PlainInv, ListsInv, Registered
  <2>2. \A id \in TableIds :
          routingTable'[id] = IF routingTable[id] = i THEN (IF i \in Registered THEN AllInterfaces ELSE i)
                              ELSE routingTable[id]
    BY <1>1 DEF RemoveInterface, RoutingTableInvalidateInterface
  <2> QED BY <2>1, <2>2, BridgeAssumption DEF RoutesAreLive
<1>2. ASSUME NEW h \in Handlers, RemoveHandler(h) PROVE RoutesAreLive'
  BY <1>2, RoutesUnchanged DEF RemoveHandler
<1>3. ASSUME NEW n \in Nodes, RemoveNode(n) PROVE RoutesAreLive'
  <2>1. \A j \in TableIds : routingTable'[j] \in {routingTable[j], AllInterfaces}
    BY <1>3 DEF RemoveNode, ClearInternal, RoutingTableUpdate
  <2> QED BY <1>3, <2>1, BridgeAssumption DEF RemoveNode, RoutesAreLive, Registered
<1> QED BY <1>1, <1>2, <1>3

(***************************************************************************)
(* A call that destroys keeps the loops safe by the rule "removals", and by*)
(* the rule "destroys" those over the handlers of a node.                  *)
(***************************************************************************)
LEMMA DestroysSafe ==
  ASSUME PlainInv, StackInv, "removals" \in Discipline, "destroys" \in Discipline, Destroys
  PROVE  StackInv'
<1>0. TypeOK /\ stack \in Seq(Frames)
  BY DEF PlainInv, TypeOK
<1>1. ASSUME NEW name, CppCalls(name) PROVE \A k \in 1 .. Len(stack) : stack[k].at \in Waiting /\ FrameInv(stack[k])
  BY <1>0, <1>1, CallersWait DEF CppCalls
<1>2. ASSUME NEW i \in Interfaces, DestroyExternalInterface(i) PROVE StackInv'
  <2>1. /\ LoopsAnchored("once.check", externalInterfaceList')
        /\ UNCHANGED <<bridgeHandlerList, nodeHandlerList, stack>>
    BY <1>2 DEF DestroyExternalInterface, RemoveInterface
  <2>2. \A k \in 1 .. Len(stack) : stack[k].at \in Waiting /\ FrameInv(stack[k])
    BY <1>1, <1>2 DEF DestroyExternalInterface
  <2>3. \A k \in 1 .. Len(stack) : stack[k].at = "once.check" => Anchored(externalInterfaceList', stack[k])
    BY <2>1 DEF LoopsAnchored
  <2> QED BY <1>0, <2>1, <2>2, <2>3, ListChangeSafe DEF FrameInv
<1>3. ASSUME NEW h \in Handlers, DestroyBridgeHandler(h) PROVE StackInv'
  <2>1. /\ DetachHandler(h) /\ h \in BridgeHandlers
        /\ UNCHANGED <<externalInterfaceList, nodeHandlerList>>
    BY <1>3 DEF DestroyBridgeHandler, RemoveHandler, BridgeHandlers
  <2>2. \A k \in 1 .. Len(stack) : stack[k].at \in Waiting
    BY <1>1, <1>3 DEF DestroyBridgeHandler
  <2> QED BY <1>0, <2>1, <2>2, DetachSafe
<1>4. ASSUME NEW n \in Nodes, DestroyNode(n) PROVE StackInv'
  <2>1. /\ DetachHandler(n) /\ UNCHANGED externalInterfaceList /\ MayDestroy(n)
        /\ n \in held => UNCHANGED nodeHandlerList
        /\ n \notin held => NodeDtor(n)
    BY <1>4 DEF DestroyNode, RemoveNode
  <2>2. \A k \in 1 .. Len(stack) : stack[k].at \in Waiting /\ FrameInv(stack[k])
    BY <1>1, <1>4 DEF DestroyNode
  <2>3. stack' = Unsteady(n)
        /\ \A k \in 1 .. Len(stack) : stack[k].at = "dec.check" => Anchored(bridgeHandlerList', stack[k])
    BY <2>1 DEF DetachHandler, LoopsAnchored
  <2>4. ASSUME NEW k \in 1 .. Len(stack)
        PROVE  /\ stack[k].at = "once.check" => Anchored(externalInterfaceList', stack[k])
               /\ stack[k].at = "node.next" => stack[k].pos \in Linked(nodeHandlerList'[stack[k].node])
    <3>1. stack[k].at = "once.check" => Anchored(externalInterfaceList', stack[k])
      BY <2>1, <2>2 DEF FrameInv
    <3>2. CASE n \in held
      BY <2>1, <2>2, <3>1, <3>2 DEF FrameInv
    <3>3. CASE n \notin held
      BY <2>1, <3>1, <3>3, FreedNodeUnused DEF MayDestroy
    <3> QED BY <3>2, <3>3
  <2> QED BY <1>0, <2>2, <2>3, <2>4, UnsteadySafe
<1>5. ASSUME NEW n \in Nodes, NEW h \in NodeHandlers, DestroyNodeHandler(n, h) PROVE StackInv'
  <2>1. /\ nodeHandlerList' = [nodeHandlerList EXCEPT ![n] = ListDelInit(@, h)]
        /\ UNCHANGED <<externalInterfaceList, bridgeHandlerList>>
        /\ \A k \in 1 .. Len(stack) : stack[k].at = "node.next" => stack[k].pos # h
        /\ stack' = Unsteady(h)
    BY <1>5 DEF DestroyNodeHandler
  <2>2. \A k \in 1 .. Len(stack) : stack[k].at \in Waiting /\ FrameInv(stack[k])
    BY <1>1, <1>5 DEF DestroyNodeHandler
  <2>3. nodeHandlerList \in [Nodes -> Seq(NodeHandlers)] /\ IsList(nodeHandlerList[n], NodeHandlers)
    BY <1>0 DEF PlainInv, TypeOK, ListsInv
  <2>4. Linked(ListDelInit(nodeHandlerList[n], h)) = Linked(nodeHandlerList[n]) \ {h}
    BY <2>3, ListDelInitUnlinks
  <2>5. \A m \in Nodes : Linked(nodeHandlerList[m]) \ {h} \subseteq Linked(nodeHandlerList'[m])
    BY <2>1, <2>3, <2>4
  <2>6. \A k \in 1 .. Len(stack) : stack[k].at = "node.next" => stack[k].node \in Nodes
    BY <1>0, FrameKinds DEF NodeFrame
  <2>7. \A k \in 1 .. Len(stack) :
          stack[k].at = "node.next" => stack[k].pos \in Linked(nodeHandlerList'[stack[k].node])
    BY <2>1, <2>2, <2>5, <2>6 DEF FrameInv
  <2>8. \A k \in 1 .. Len(stack) :
          /\ stack[k].at = "once.check" => Anchored(externalInterfaceList', stack[k])
          /\ stack[k].at = "dec.check" => Anchored(bridgeHandlerList', stack[k])
    BY <2>1, <2>2 DEF FrameInv
  <2> QED BY <1>0, <2>1, <2>2, <2>7, <2>8, UnsteadySafe
<1> QED BY <1>2, <1>3, <1>4, <1>5, <1>1 DEF Destroys

(***************************************************************************)
(* So does the end of a shared pointer.                                    *)
(***************************************************************************)
LEMMA LockSafe ==
  ASSUME PlainInv, StackInv, RoutesAreLive, "destroys" \in Discipline, NEW o \in Objects, Lock(o) \/ Release(o)
  PROVE  StackInv' /\ RoutesAreLive'
<1>0. TypeOK /\ stack \in Seq(Frames)
  BY DEF PlainInv, TypeOK
<1>1. UNCHANGED <<externalInterfaceList, bridgeHandlerList, routingTable, stack>>
  BY DEF Lock, Release, lists
<1>2. stack # <<>> => Top.at = "user"
  BY DEF Lock, Release, CppCalls, Calls
<1>3. \A k \in 1 .. Len(stack) : stack[k].at \in Waiting /\ FrameInv(stack[k])
  BY <1>0, <1>2 DEF StackInv, Top, Waiting
<1>4. UNCHANGED nodeHandlerList \/ (o \in Nodes /\ MayFree(o) /\ NodeDtor(o))
  BY DEF Lock, Release, lists
<1>5. ASSUME NEW k \in 1 .. Len(stack), stack[k].at = "node.next"
      PROVE  stack[k].pos \in Linked(nodeHandlerList'[stack[k].node])
  BY <1>3, <1>4, <1>5, FreedNodeUnused DEF FrameInv
<1>6. StackInv'
  BY <1>0, <1>1, <1>3, <1>5, ListChangeSafe DEF FrameInv
<1> QED BY <1>1, <1>6, RoutesUnchanged

(***************************************************************************)
(* Every step of the C++ layer keeps the loops safe and the routes live.   *)
(***************************************************************************)
LEMMA SafeStep ==
  ASSUME PlainInv, StackInv, RoutesAreLive, "removals" \in Discipline, "destroys" \in Discipline,
         [OwnershipNext]_ownershipVars
  PROVE  StackInv' /\ RoutesAreLive'
<1>0. TypeOK /\ ListsInv /\ PlainInv'
  BY PlainStep DEF PlainInv
<1>1. ASSUME Process(TRUE) \/ Run \/ ByHand \/ Sends PROVE StackInv' /\ RoutesAreLive'
  BY <1>0, <1>1, BridgeStep, StackStep, RoutesStep
<1>2. ASSUME NEW o \in Objects, Lock(o) \/ Release(o) PROVE StackInv' /\ RoutesAreLive'
  BY <1>2, LockSafe
<1>3. CASE Destroys
  <2>1. RoutesAreLive'
    BY <1>3, RemovesRoutes, RoutesUnchanged
       DEF Destroys, DestroyExternalInterface, DestroyBridgeHandler, DestroyNode, DestroyNodeHandler
  <2> QED BY <1>3, <2>1, DestroysSafe
<1>4. CASE StartTeardown \/ Teardown
  <2>1. teardown' # "no"
    BY <1>4 DEF StartTeardown, Teardown, TeardownObject, TeardownNext
  <2>2. stack' = <<>>
    BY <1>0, <2>1 DEF PlainInv, TeardownInv
  <2>3. StackInv'
    BY <2>2 DEF StackInv
  <2>4. CASE TeardownObject
    <3>1. /\ externalInterfaces # <<>> => Head(externalInterfaces) \in Interfaces
          /\ bridgeHandler # <<>> => Head(bridgeHandler) \in Handlers
          /\ nodes # <<>> => Head(nodes) \in Nodes
      BY DEF PlainInv, VectorsInv, IsList
    <3>2. \/ \E i \in Interfaces : RemoveInterface(i)
          \/ \E h \in Handlers : RemoveHandler(h)
          \/ \E n \in Nodes : RemoveNode(n)
      BY <2>4, <3>1 DEF TeardownObject
    <3> QED BY <2>3, <3>2, RemovesRoutes
  <2>5. CASE StartTeardown \/ TeardownNext
    BY <2>3, <2>5, RoutesUnchanged DEF StartTeardown, TeardownNext, vars, lists
  <2> QED BY <1>4, <2>4, <2>5 DEF Teardown
<1>5. CASE UNCHANGED ownershipVars
  BY <1>5 DEF ownershipVars, vars, lists, StackInv, FrameInv, Registered, Attached, Anchored, RoutesAreLive
<1> QED BY <1>1, <1>2, <1>3, <1>4, <1>5, FactoriesSafe DEF OwnershipNext, Running

-----------------------------------------------------------------------------
(***************************************************************************)
(* The inductive invariant of the C++ layer under the rules "removals" and *)
(* "destroys".                                                             *)
(***************************************************************************)
AliveInv == PlainInv /\ UsesInv /\ StackInv /\ RoutesAreLive

LEMMA AliveInductive ==
  ASSUME {"removals", "destroys"} \subseteq Discipline
  PROVE  /\ OwnershipInit => AliveInv
         /\ AliveInv /\ [OwnershipNext]_ownershipVars => AliveInv'
<1>1. ASSUME OwnershipInit PROVE AliveInv
  <2>1. PlainInv /\ stack = <<>> /\ Init
    BY <1>1, OwnershipInitInv DEF OwnershipInit, Init
  <2>2. \A id \in TableIds : routingTable[id] \in {TheBridge, AllInterfaces}
    BY <2>1 DEF Init, RoutingTableInit
  <2>3. UsesInv /\ StackInv
    BY <2>1 DEF UsesInv, StackInv
  <2> QED BY <2>1, <2>2, <2>3, BridgeAssumption DEF AliveInv, RoutesAreLive
<1>2. ASSUME AliveInv, [OwnershipNext]_ownershipVars PROVE AliveInv'
  BY <1>2, PlainStep, UsesStep, SafeStep DEF AliveInv
<1> QED BY <1>1, <1>2

(***************************************************************************)
(* No use after free: whatever the handlers create, destroy, lock and      *)
(* release while messages are handled, at any depth of nested calls, the C *)
(* lists, the routing table and the loop variables of the active calls     *)
(* point only to objects that are alive.  It rests on the rules "removals" *)
(* and "destroys".                                                         *)
(***************************************************************************)
THEOREM NothingDangles ==
  {"removals", "destroys"} \subseteq Discipline => (OwnershipSpec => []NoDanglingPointer)
<1> SUFFICES ASSUME {"removals", "destroys"} \subseteq Discipline
             PROVE  OwnershipSpec => []NoDanglingPointer
  OBVIOUS
<1>1. OwnershipInit => AliveInv
  BY AliveInductive
<1>2. AliveInv /\ [OwnershipNext]_ownershipVars => AliveInv'
  BY AliveInductive
<1>3. ASSUME AliveInv PROVE NoDanglingPointer
  <2>1. InUse \subseteq Alive
    BY <1>3, UsesAlive DEF AliveInv
  <2>2. Registered \cup Attached \cup UNION {Linked(nodeHandlerList[n]) : n \in Nodes} \subseteq Alive
    BY <1>3, ListedAlive DEF AliveInv
  <2>3. \A id \in TableIds : routingTable[id] \in Registered \cup {TheBridge, AllInterfaces}
    BY <1>3 DEF AliveInv, RoutesAreLive, PlainInv, TypeOK
  <2> QED BY <2>1, <2>2, <2>3 DEF NoDanglingPointer
<1> QED BY <1>1, <1>2, <1>3, PTL DEF OwnershipSpec

(***************************************************************************)
(* When ~Bridge is done, both C lists are empty, no route is left, and all *)
(* that is alive belongs to what the application holds: whatever was       *)
(* created, and taken off its list by hand, before.                        *)
(***************************************************************************)
THEOREM BridgeTornDown ==
  {"removals", "destroys"} \subseteq Discipline => (OwnershipSpec => []TornDown)
<1> SUFFICES ASSUME {"removals", "destroys"} \subseteq Discipline
             PROVE  OwnershipSpec => []TornDown
  OBVIOUS
<1>1. OwnershipInit => AliveInv
  BY AliveInductive
<1>2. AliveInv /\ [OwnershipNext]_ownershipVars => AliveInv'
  BY AliveInductive
<1>3. ASSUME AliveInv, teardown = "done"
      PROVE  /\ externalInterfaceList = <<>> /\ bridgeHandlerList = <<>>
             /\ \A id \in TableIds : routingTable[id] \notin Interfaces
             /\ Alive \subseteq held \cup UNION {Linked(allHandler[n]) : n \in Nodes \cap held}
  <2>1. externalInterfaces = <<>> /\ bridgeHandler = <<>> /\ nodes = <<>>
    BY <1>3 DEF AliveInv, PlainInv, TeardownInv
  <2>2. Linked(externalInterfaces) = {} /\ Linked(bridgeHandler) = {} /\ Linked(nodes) = {}
    BY <2>1 DEF Linked
  <2>3. Registered = {} /\ Attached = {}
    BY <1>3, <2>2 DEF AliveInv, PlainInv, OwnedInv
  <2>4. externalInterfaceList \in Seq(Interfaces) /\ bridgeHandlerList \in Seq(BridgeHandlers)
    BY <1>3 DEF AliveInv, PlainInv, TypeOK
  <2>5. externalInterfaceList = <<>> /\ bridgeHandlerList = <<>>
    BY <2>3, <2>4, NothingLinked DEF Registered, Attached
  <2>6. \A id \in TableIds : routingTable[id] \notin Interfaces
    BY <1>3, <2>3 DEF AliveInv, RoutesAreLive
  <2>7. ASSUME NEW n \in Nodes, n \notin held PROVE Linked(allHandler[n]) = {}
    <3>1. allHandler[n] = <<>>
      BY <1>3, <2>2, <2>7 DEF AliveInv, PlainInv, OwnedInv
    <3> QED BY <3>1 DEF Linked
  <2>8. Alive \subseteq held \cup UNION {Linked(allHandler[n]) : n \in Nodes \cap held}
    BY <2>2, <2>7 DEF Alive, Owned
  <2> QED BY <2>5, <2>6, <2>8
<1>4. AliveInv => TornDown
  BY <1>3 DEF TornDown
<1> QED BY <1>1, <1>2, <1>4, PTL DEF OwnershipSpec
=============================================================================
