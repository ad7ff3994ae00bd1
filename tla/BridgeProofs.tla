---------------------------- MODULE BridgeProofs ----------------------------
(***************************************************************************)
(* Type correctness, loop safety and delivery of the bridge, for any number*)
(* of interfaces, handlers, nodes, ids and nested calls.                   *)
(***************************************************************************)
EXTENDS Bridge, TLAPS

-----------------------------------------------------------------------------
(***************************************************************************)
(* The list operations, for every list.                                    *)
(***************************************************************************)

(***************************************************************************)
(* The entries of a list belong to its type.                               *)
(***************************************************************************)
LEMMA LinkedType ==
  ASSUME NEW S, NEW list \in Seq(S)
  PROVE  Linked(list) \subseteq S
  BY DEF Linked

(***************************************************************************)
(* list_add links the new entry and keeps the others.                      *)
(***************************************************************************)
LEMMA ListAddLinks ==
  ASSUME NEW S, NEW list \in Seq(S), NEW e \in S
  PROVE  /\ ListAdd(list, e) \in Seq(S)
         /\ Linked(ListAdd(list, e)) = Linked(list) \cup {e}
<1> DEFINE l == ListAdd(list, e)
<1>1. /\ l \in Seq(S) /\ Len(l) = Len(list) + 1
      /\ l[1] = e
      /\ \A k \in 1 .. Len(list) : l[k + 1] = list[k]
  BY DEF ListAdd
<1>2. \A k \in 2 .. Len(l) : l[k] = list[k - 1] /\ k - 1 \in 1 .. Len(list)
  BY <1>1
<1>3. Linked(l) \subseteq Linked(list) \cup {e}
  BY <1>1, <1>2 DEF Linked
<1>4. Linked(list) \cup {e} \subseteq Linked(l)
  BY <1>1 DEF Linked
<1> QED BY <1>1, <1>3, <1>4

(***************************************************************************)
(* list_add of an entry that is not on the list keeps it without           *)
(* repetitions.                                                            *)
(***************************************************************************)
LEMMA ListAddIsList ==
  ASSUME NEW S, NEW list, IsList(list, S), NEW e \in S, e \notin Linked(list)
  PROVE  IsList(ListAdd(list, e), S)
<1> DEFINE l == ListAdd(list, e)
<1>1. /\ l \in Seq(S) /\ Len(l) = Len(list) + 1
      /\ l[1] = e
      /\ \A k \in 2 .. Len(l) : l[k] = list[k - 1] /\ k - 1 \in 1 .. Len(list)
  BY DEF ListAdd, IsList
<1>2. \A k \in 2 .. Len(l) : l[k] # e
  BY <1>1 DEF Linked
<1>3. ASSUME NEW j \in 1 .. Len(l), NEW k \in 1 .. Len(l), l[j] = l[k]
      PROVE  j = k
  <2>1. CASE j = 1 \/ k = 1
    BY <1>1, <1>2, <1>3, <2>1
  <2>2. CASE j # 1 /\ k # 1
    <3>1. list[j - 1] = list[k - 1] /\ j - 1 \in 1 .. Len(list) /\ k - 1 \in 1 .. Len(list)
      BY <1>1, <1>3, <2>2
    <3>2. j - 1 = k - 1
      BY <3>1 DEF IsList
    <3> QED BY <3>2
  <2> QED BY <2>1, <2>2
<1> HIDE DEF l
<1>4. IsList(l, S)
  BY <1>1, <1>3 DEF IsList
<1> QED BY <1>4 DEF l

(***************************************************************************)
(* list_del_init unlinks the entry, and only that.                         *)
(***************************************************************************)
LEMMA ListDelInitUnlinks ==
  ASSUME NEW S, NEW list, IsList(list, S), NEW e
  PROVE  /\ IsList(ListDelInit(list, e), S)
         /\ Linked(ListDelInit(list, e)) = Linked(list) \ {e}
<1> DEFINE l == ListDelInit(list, e)
<1>1. CASE e \notin Linked(list)
  BY <1>1 DEF ListDelInit
<1>2. CASE e \in Linked(list)
  <2> DEFINE i == Place(list, e)
  <2>1. i \in 1 .. Len(list) /\ list[i] = e
    BY <1>2 DEF Linked, Place
  <2>2. /\ Len(list) \in Nat /\ Len(list) - 1 \in Nat
        /\ l = [k \in 1 .. Len(list) - 1 |-> IF k < i THEN list[k] ELSE list[k + 1]]
    BY <1>2, <2>1 DEF ListDelInit, IsList
  <2> HIDE DEF i, l
  <2>3. \A k \in 1 .. Len(list) - 1 : l[k] \in S
    BY <2>1, <2>2 DEF IsList
  <2>4. l \in Seq(S) /\ Len(l) = Len(list) - 1
    BY <2>2, <2>3
  <2>5. ASSUME NEW j \in 1 .. Len(l), NEW k \in 1 .. Len(l), l[j] = l[k]
        PROVE  j = k
    BY <2>1, <2>2, <2>4, <2>5 DEF IsList
  <2>6. Linked(l) \subseteq Linked(list) \ {e}
    <3> SUFFICES ASSUME NEW k \in 1 .. Len(l)
                 PROVE  l[k] \in Linked(list) /\ l[k] # e
      BY DEF Linked
    <3>1. CASE k < i
      BY <3>1, <2>1, <2>2, <2>4 DEF Linked, IsList
    <3>2. CASE ~(k < i)
      <4>1. l[k] = list[k + 1] /\ k + 1 \in 1 .. Len(list) /\ k + 1 # i
        BY <3>2, <2>1, <2>2, <2>4
      <4> QED BY <4>1, <2>1 DEF Linked, IsList
    <3> QED BY <3>1, <3>2
  <2>7. Linked(list) \ {e} \subseteq Linked(l)
    <3> SUFFICES ASSUME NEW k \in 1 .. Len(list), list[k] # e
                 PROVE  \E j \in 1 .. Len(l) : l[j] = list[k]
      BY DEF Linked
    <3>1. CASE k < i
      BY <3>1, <2>1, <2>2, <2>4
    <3>2. CASE k > i
      <4>1. k - 1 \in 1 .. Len(l) /\ l[k - 1] = list[k]
        BY <3>2, <2>1, <2>2, <2>4
      <4> QED BY <4>1
    <3> QED BY <3>1, <3>2, <2>1
  <2>8. IsList(l, S) /\ Linked(l) = Linked(list) \ {e}
    BY <2>4, <2>5, <2>6, <2>7 DEF IsList
  <2> QED BY <2>8 DEF l
<1> QED BY <1>1, <1>2

(***************************************************************************)
(* From the sentinel, or from an entry of the list, ->next stays on the    *)
(* list; from an unlinked entry it stays where it is.                      *)
(***************************************************************************)
LEMMA ListNextLinked ==
  ASSUME NEW S, NEW list \in Seq(S), NEW e
  PROVE  /\ e \in Linked(list) \cup {ListHead} => ListNext(list, e) \in Linked(list) \cup {ListHead}
         /\ ListNext(list, e) \in Linked(list) \cup {ListHead, e}
<1> DEFINE n == ListNext(list, e)
<1>0. \A k \in 1 .. Len(list) : list[k] \in Linked(list)
  BY DEF Linked
<1>1. CASE e = ListHead
  <2>1. n = IF 0 < Len(list) THEN list[0 + 1] ELSE ListHead
    BY <1>1 DEF ListNext
  <2> QED BY <1>0, <1>1, <2>1
<1>2. CASE e # ListHead /\ e \notin Linked(list)
  BY <1>2 DEF ListNext
<1>3. CASE e # ListHead /\ e \in Linked(list)
  <2>1. Place(list, e) \in 1 .. Len(list)
    BY <1>3 DEF Linked, Place
  <2>2. n = IF Place(list, e) < Len(list) THEN list[Place(list, e) + 1] ELSE ListHead
    BY <1>3 DEF ListNext
  <2>3. n \in Linked(list) \cup {ListHead}
    BY <1>0, <2>1, <2>2
  <2> QED BY <1>3, <2>3
<1> QED BY <1>1, <1>2, <1>3

-----------------------------------------------------------------------------
(***************************************************************************)
(* The stack operations.                                                   *)
(***************************************************************************)
LEMMA StackOps ==
  ASSUME NEW S, stack \in Seq(S), NEW f \in S, NEW g \in S
  PROVE  /\ /\ Call(f) \in Seq(S) /\ Len(Call(f)) = Len(stack) + 1
            /\ Call(f)[1] = f /\ \A k \in 2 .. Len(stack) + 1 : Call(f)[k] = stack[k - 1]
         /\ stack # <<>> =>
              /\ Tail(stack) \in Seq(S) /\ Len(Tail(stack)) = Len(stack) - 1
              /\ \A k \in 1 .. Len(stack) - 1 : Tail(stack)[k] = stack[k + 1]
              /\ Replace(f) \in Seq(S) /\ Len(Replace(f)) = Len(stack)
              /\ Replace(f)[1] = f /\ \A k \in 2 .. Len(stack) : Replace(f)[k] = stack[k]
              /\ Push(f, g) \in Seq(S) /\ Len(Push(f, g)) = Len(stack) + 1
              /\ Push(f, g)[1] = f /\ Push(f, g)[2] = g
              /\ \A k \in 3 .. Len(stack) + 1 : Push(f, g)[k] = stack[k - 1]
<1>1. /\ Call(f) \in Seq(S) /\ Len(Call(f)) = Len(stack) + 1
      /\ Call(f)[1] = f /\ \A k \in 2 .. Len(stack) + 1 : Call(f)[k] = stack[k - 1]
  BY DEF Call
<1>2. ASSUME stack # <<>>
      PROVE  /\ Tail(stack) \in Seq(S) /\ Len(Tail(stack)) = Len(stack) - 1
             /\ \A k \in 1 .. Len(stack) - 1 : Tail(stack)[k] = stack[k + 1]
  BY <1>2
<1>3. ASSUME stack # <<>>
      PROVE  /\ Replace(f) \in Seq(S) /\ Len(Replace(f)) = Len(stack)
             /\ Replace(f)[1] = f /\ \A k \in 2 .. Len(stack) : Replace(f)[k] = stack[k]
  BY <1>2, <1>3 DEF Replace
<1>4. ASSUME stack # <<>>
      PROVE  /\ Push(f, g) \in Seq(S) /\ Len(Push(f, g)) = Len(stack) + 1
             /\ Push(f, g)[1] = f /\ Push(f, g)[2] = g
             /\ \A k \in 3 .. Len(stack) + 1 : Push(f, g)[k] = stack[k - 1]
  BY <1>2, <1>4 DEF Push
<1> QED BY <1>1, <1>2, <1>3, <1>4

(***************************************************************************)
(* The place a frame is at tells what kind of frame it is.                 *)
(***************************************************************************)
LEMMA FrameKinds ==
  ASSUME NEW f \in Frames
  PROVE  /\ f.at \in {"once.read", "once.check"} => f \in OnceFrame
         /\ f.at \in {"ext.parse", "ext.after"} => f \in ExternalFrame
         /\ f.at \in {"dec.loop", "dec.check"} => f \in DecodedFrame
         /\ f.at \in {"node.loop", "node.next"} => f \in NodeFrame
  BY DEF Frames, OnceFrame, ExternalFrame, DecodedFrame, NodeFrame, UserFrame

(***************************************************************************)
(* Every kind of frame is a frame.                                         *)
(***************************************************************************)
LEMMA KindsAreFrames ==
  /\ OnceFrame \subseteq Frames /\ ExternalFrame \subseteq Frames
  /\ DecodedFrame \subseteq Frames /\ NodeFrame \subseteq Frames
  /\ [at |-> "user"] \in Frames
  BY DEF Frames, UserFrame

(***************************************************************************)
(* The innermost frame of a call that is active.                           *)
(***************************************************************************)
LEMMA TopIsFrame ==
  ASSUME stack \in Seq(Frames), stack # <<>>
  PROVE  Top \in Frames /\ 1 \in 1 .. Len(stack)
  BY DEF Top

(***************************************************************************)
(* What other devices send is a message.                                   *)
(***************************************************************************)
LEMMA PacketsAreMessages == Packets \subseteq Messages
BY BridgeAssumption DEF Packets, Messages

(***************************************************************************)
(* The frame of a message that enters ProcessDecodedMessage is typed.      *)
(***************************************************************************)
LEMMA DecodedType ==
  ASSUME TypeOK, NEW table \in [TableIds -> Interfaces \cup {TheBridge, AllInterfaces}],
         NEW msg \in Messages, NEW origin \in Interfaces \cup {TheBridge}
  PROVE  Decoded(table, msg, origin) \in DecodedFrame
<1> DEFINE l == bridgeHandlerList
<1>1. l \in Seq(BridgeHandlers) /\ Linked(l) \subseteq BridgeHandlers
  BY LinkedType DEF TypeOK
<1>2. SafeLoopPos(l) \in BridgeHandlers \cup {ListHead} /\ SafeLoopTemp(l) \in BridgeHandlers \cup {ListHead}
  BY <1>1, ListNextLinked DEF SafeLoopPos, SafeLoopTemp
<1>3. Registered \subseteq Interfaces
  BY LinkedType DEF TypeOK, Registered
<1>4. Mirrored(origin) \in SUBSET Interfaces
  BY <1>3 DEF Mirrored
<1>5. Destination(table, msg) \in Interfaces \cup {TheBridge, AllInterfaces}
  BY DEF Destination, RoutingGetDestination
<1>6. Routed(table, msg, origin) \in SUBSET Interfaces
  BY <1>3, <1>5 DEF Routed
<1> QED BY <1>1, <1>2, <1>4, <1>6 DEF Decoded, DecodedFrame, Attached

(***************************************************************************)
(* The frame of a loop over the interfaces that starts is typed.           *)
(***************************************************************************)
LEMMA OnceLoopType ==
  ASSUME TypeOK, NEW again \in BOOLEAN
  PROVE  OnceLoop(again) \in OnceFrame
<1> DEFINE l == externalInterfaceList
<1>1. l \in Seq(Interfaces) /\ Linked(l) \subseteq Interfaces
  BY LinkedType DEF TypeOK
<1>2. SafeLoopPos(l) \in Interfaces \cup {ListHead} /\ SafeLoopTemp(l) \in Interfaces \cup {ListHead}
  BY <1>1, ListNextLinked DEF SafeLoopPos, SafeLoopTemp
<1> QED BY <1>2 DEF OnceLoop, OnceFrame

(***************************************************************************)
(* The increments of the loops.                                            *)
(***************************************************************************)
LEMMA SafeLoopType ==
  ASSUME NEW S, NEW list \in Seq(S), NEW pos, NEW temp,
         pos \in S \cup {ListHead}, temp \in S \cup {ListHead}
  PROVE  ListNext(list, pos) \in S \cup {ListHead} /\ ListNext(list, temp) \in S \cup {ListHead}
  BY LinkedType, ListNextLinked

(***************************************************************************)
(* A step that changes only the stack preserves the types of the rest.     *)
(***************************************************************************)
LEMMA StackOnlyType ==
  ASSUME TypeOK, UNCHANGED <<lists, routingTable, config, bounds>>, stack' \in Seq(Frames)
  PROVE  TypeOK'
  BY DEF TypeOK, lists, config, bounds

(***************************************************************************)
(* The steps of ndlcomBridgeProcessOnce but the read preserve the types.   *)
(***************************************************************************)
LEMMA OnceType ==
  ASSUME TypeOK, ReadNothing \/ OnceCheck \/ OnceReturn
  PROVE  TypeOK'
<1> DEFINE l == externalInterfaceList
<1>0. stack \in Seq(Frames) /\ stack # <<>> /\ l \in Seq(Interfaces)
  BY DEF TypeOK, ReadNothing, OnceCheck, OnceReturn, Active
<1>1. Top \in OnceFrame
  BY <1>0, TopIsFrame, FrameKinds DEF ReadNothing, OnceCheck, OnceReturn, Active
<1>2. ASSUME NEW f \in OnceFrame PROVE Replace(f) \in Seq(Frames)
  BY <1>0, StackOps, KindsAreFrames
<1>3. CASE ReadNothing
  <2>1. [Top EXCEPT !.at = "once.check"] \in OnceFrame
    BY <1>1 DEF OnceFrame
  <2> QED BY <1>2, <1>3, <2>1, StackOnlyType DEF ReadNothing
<1>4. CASE OnceCheck
  <2> DEFINE f == [Top EXCEPT !.at = "once.read"]
  <2>1. f \in OnceFrame
    BY <1>1 DEF OnceFrame
  <2>2. ASSUME NEW e \in Interfaces \cup {ListHead}
        PROVE  ListNext(l, e) \in Interfaces \cup {ListHead}
    BY <1>0, SafeLoopType
  <2>3. CheckListInLoop(l, f) \in OnceFrame
    BY <2>1, <2>2 DEF OnceFrame, CheckListInLoop, TempAfterCheck, SafeLoopNext
  <2> QED BY <1>2, <1>4, <2>3, StackOnlyType DEF OnceCheck
<1>5. CASE OnceReturn
  <2>1. OnceLoop(TRUE) \in OnceFrame /\ Tail(stack) \in Seq(Frames)
    BY <1>0, OnceLoopType, StackOps, KindsAreFrames
  <2> QED BY <1>2, <1>5, <2>1, StackOnlyType DEF OnceReturn
<1> QED BY <1>3, <1>4, <1>5

(***************************************************************************)
(* The read of bytes from an interface preserves the types.                *)
(***************************************************************************)
LEMMA ReadBytesType ==
  ASSUME TypeOK, NEW chunk \in Chunks, ReadBytes(chunk)
  PROVE  TypeOK'
<1> DEFINE f == [at |-> "ext.parse", interface |-> Top.pos, chunk |-> chunk]
           g == [Top EXCEPT !.at = "once.check", !.got = TRUE]
<1>1. stack \in Seq(Frames) /\ stack # <<>> /\ Top \in OnceFrame /\ Top.pos # ListHead
  BY TopIsFrame, FrameKinds DEF TypeOK, ReadBytes, Active
<1>2. chunk \in Seq(Packets)
  BY DEF Chunks
<1>3. f \in ExternalFrame /\ g \in OnceFrame
  BY <1>1, <1>2 DEF ExternalFrame, OnceFrame
<1>4. stack' \in Seq(Frames)
  BY <1>1, <1>3, StackOps, KindsAreFrames DEF ReadBytes
<1>5. reads' \in 0 .. MaxReads
  BY BridgeAssumption DEF TypeOK, ReadBytes
<1> QED BY <1>4, <1>5 DEF TypeOK, ReadBytes, lists, config

(***************************************************************************)
(* The steps of ndlcomBridgeProcessExternalInterface preserve the types.   *)
(***************************************************************************)
LEMMA ExternalType ==
  ASSUME TypeOK, HandlePacket \/ ExternalAfter \/ ExternalReturn
  PROVE  TypeOK'
<1>0. stack \in Seq(Frames) /\ stack # <<>>
  BY DEF TypeOK, HandlePacket, ExternalAfter, ExternalReturn, Active
<1>1. Top \in ExternalFrame
  BY <1>0, TopIsFrame, FrameKinds DEF HandlePacket, ExternalAfter, ExternalReturn, Active
<1>2. CASE HandlePacket
  <2> DEFINE msg == Head(Top.chunk)
             g == [Top EXCEPT !.at = "ext.after", !.chunk = Tail(@)]
  <2>1. Top.chunk \in Seq(Packets) /\ Top.chunk # <<>> /\ Top.interface \in Interfaces
    BY <1>1, <1>2 DEF HandlePacket, ExternalFrame
  <2>2. msg \in Packets /\ Tail(Top.chunk) \in Seq(Packets)
    BY <2>1
  <2>3. msg \in Messages
    BY <2>2, BridgeAssumption DEF Packets, Messages
  <2>4. routingTable' \in [TableIds -> Interfaces \cup {TheBridge, AllInterfaces}]
    BY <1>2, <2>1 DEF HandlePacket, TypeOK, Learned, RoutingTableUpdate
  <2>5. Decoded(routingTable', msg, Top.interface) \in DecodedFrame
    BY <2>1, <2>3, <2>4, DecodedType
  <2>6. g \in ExternalFrame
    BY <1>1, <2>2 DEF ExternalFrame
  <2>7. stack' \in Seq(Frames)
    BY <1>0, <1>2, <2>5, <2>6, StackOps, KindsAreFrames DEF HandlePacket
  <2> QED BY <1>2, <2>4, <2>7 DEF TypeOK, HandlePacket, lists, config, bounds
<1>3. CASE ExternalAfter
  <2>1. [Top EXCEPT !.at = "ext.parse"] \in ExternalFrame
    BY <1>1 DEF ExternalFrame
  <2>2. stack' \in Seq(Frames)
    BY <1>0, <1>3, <2>1, StackOps, KindsAreFrames DEF ExternalAfter
  <2> QED BY <1>3, <2>2, StackOnlyType DEF ExternalAfter
<1>4. CASE ExternalReturn
  <2>1. stack' \in Seq(Frames)
    BY <1>0, <1>4 DEF ExternalReturn
  <2> QED BY <1>4, <2>1, StackOnlyType DEF ExternalReturn
<1> QED BY <1>2, <1>3, <1>4

(***************************************************************************)
(* The loop over the bridge handlers preserves the types.                  *)
(***************************************************************************)
LEMMA DecodedStepType ==
  ASSUME TypeOK, SkipHandler \/ CallHandler \/ CallNode \/ DecodedCheck \/ DecodedReturn
  PROVE  TypeOK'
<1> DEFINE l == bridgeHandlerList
           g == [Top EXCEPT !.at = "dec.check"]
<1>0. stack \in Seq(Frames) /\ stack # <<>> /\ l \in Seq(BridgeHandlers)
  BY DEF TypeOK, SkipHandler, CallHandler, CallNode, DecodedCheck, DecodedReturn, Active
<1>1. Top \in DecodedFrame
  BY <1>0, TopIsFrame, FrameKinds
     DEF SkipHandler, CallHandler, CallNode, DecodedCheck, DecodedReturn, Active
<1>2. ASSUME NEW e \in BridgeHandlers \cup {ListHead}
      PROVE  ListNext(l, e) \in BridgeHandlers \cup {ListHead}
  BY <1>0, SafeLoopType
<1>3. g \in DecodedFrame /\ g.called = Top.called
  BY <1>1 DEF DecodedFrame
<1>4. ASSUME NEW h \in BridgeHandlers PROVE Note(g, h) \in DecodedFrame
  BY <1>3, <1>4 DEF DecodedFrame, Note
<1>5. CASE SkipHandler
  <2>1. SafeLoopNext(l, Top) \in DecodedFrame
    BY <1>1, <1>2 DEF DecodedFrame, SafeLoopNext
  <2>2. stack' \in Seq(Frames)
    BY <1>0, <1>5, <2>1, StackOps, KindsAreFrames DEF SkipHandler
  <2> QED BY <1>5, <2>2, StackOnlyType DEF SkipHandler
<1>6. CASE CallHandler
  <2>1. Top.pos \in BridgeHandlers
    BY <1>6 DEF CallHandler, BridgeHandlers
  <2>2. stack' \in Seq(Frames)
    BY <1>0, <1>4, <1>6, <2>1, StackOps, KindsAreFrames DEF CallHandler
  <2> QED BY <1>6, <2>2, StackOnlyType DEF CallHandler
<1>7. CASE CallNode
  <2> DEFINE n == Top.pos
  <2>1. n \in Nodes /\ n \in BridgeHandlers /\ Top.origin \in Interfaces \cup {TheBridge}
    BY <1>1, <1>7 DEF CallNode, BridgeHandlers, DecodedFrame
  <2>2. nodeHandlerList[n] \in Seq(NodeHandlers)
    BY <2>1 DEF TypeOK
  <2>3. NodeLoop(n, Top.origin) \in NodeFrame
    BY <2>1, <2>2, LinkedType, ListNextLinked DEF NodeLoop, NodeFrame
  <2>4. stack' \in Seq(Frames)
    BY <1>0, <1>4, <1>7, <2>1, <2>3, StackOps, KindsAreFrames DEF CallNode
  <2> QED BY <1>7, <2>4, StackOnlyType DEF CallNode
<1>8. CASE DecodedCheck
  <2> DEFINE f == [Top EXCEPT !.at = "dec.loop"]
  <2>1. f \in DecodedFrame
    BY <1>1 DEF DecodedFrame
  <2>2. CheckListInLoop(l, f) \in DecodedFrame
    BY <1>2, <2>1 DEF DecodedFrame, CheckListInLoop, TempAfterCheck, SafeLoopNext
  <2>3. stack' \in Seq(Frames)
    BY <1>0, <1>8, <2>2, StackOps, KindsAreFrames DEF DecodedCheck
  <2> QED BY <1>8, <2>3, StackOnlyType DEF DecodedCheck
<1>9. CASE DecodedReturn
  <2>1. stack' \in Seq(Frames)
    BY <1>0, <1>9 DEF DecodedReturn
  <2> QED BY <1>9, <2>1, StackOnlyType DEF DecodedReturn
<1> QED BY <1>5, <1>6, <1>7, <1>8, <1>9

(***************************************************************************)
(* The loop over the handlers of a node, and returns, preserve the types.  *)
(***************************************************************************)
LEMMA NodeStepType ==
  ASSUME TypeOK, SkipNodeHandler \/ CallNodeHandler \/ NodeNext \/ NodeReturn \/ UserReturn
  PROVE  TypeOK'
<1> DEFINE g == [Top EXCEPT !.at = "node.next"]
<1>0. stack \in Seq(Frames) /\ stack # <<>>
  BY DEF TypeOK, SkipNodeHandler, CallNodeHandler, NodeNext, NodeReturn, UserReturn, Active
<1>2. CASE SkipNodeHandler \/ NodeNext
  <2>1. Top \in NodeFrame
    BY <1>0, <1>2, TopIsFrame, FrameKinds DEF SkipNodeHandler, NodeNext, Active
  <2>2. ListNext(nodeHandlerList[Top.node], Top.pos) \in NodeHandlers \cup {ListHead}
    BY <2>1, SafeLoopType DEF NodeFrame, TypeOK
  <2>3. NodeLoopNext(Top) \in NodeFrame
    BY <2>1, <2>2 DEF NodeLoopNext, NodeFrame
  <2>4. stack' \in Seq(Frames)
    BY <1>0, <1>2, <2>3, StackOps, KindsAreFrames DEF SkipNodeHandler, NodeNext
  <2> QED BY <1>2, <2>4, StackOnlyType DEF SkipNodeHandler, NodeNext
<1>3. CASE CallNodeHandler
  <2>1. Top \in NodeFrame /\ Top.pos \in NodeHandlers
    BY <1>0, <1>3, TopIsFrame, FrameKinds DEF CallNodeHandler, Active, NodeFrame
  <2>2. g \in NodeFrame /\ g.called = Top.called
    BY <2>1 DEF NodeFrame
  <2>3. Note(g, Top.pos) \in NodeFrame
    BY <2>1, <2>2 DEF NodeFrame, Note
  <2>4. stack' \in Seq(Frames)
    BY <1>0, <1>3, <2>3, StackOps, KindsAreFrames DEF CallNodeHandler
  <2> QED BY <1>3, <2>4, StackOnlyType DEF CallNodeHandler
<1>4. CASE NodeReturn \/ UserReturn
  <2>1. stack' \in Seq(Frames)
    BY <1>0, <1>4 DEF NodeReturn, UserReturn
  <2> QED BY <1>4, <2>1, StackOnlyType DEF NodeReturn, UserReturn
<1> QED BY <1>2, <1>3, <1>4

(***************************************************************************)
(* Unsteady changes the history in the frames and nothing else.            *)
(***************************************************************************)
LEMMA UnsteadyType ==
  ASSUME stack \in Seq(Frames), NEW h
  PROVE  /\ Unsteady(h) \in Seq(Frames) /\ Len(Unsteady(h)) = Len(stack)
         /\ \A k \in 1 .. Len(stack) :
              /\ Unsteady(h)[k].at = stack[k].at
              /\ stack[k].at \in {"once.read", "once.check", "dec.loop", "dec.check"} =>
                   Unsteady(h)[k].pos = stack[k].pos /\ Unsteady(h)[k].temp = stack[k].temp
              /\ stack[k].at \in {"node.loop", "node.next"} =>
                   Unsteady(h)[k].pos = stack[k].pos /\ Unsteady(h)[k].node = stack[k].node
              /\ stack[k].at = "ext.parse" => Unsteady(h)[k].interface = stack[k].interface
<1> DEFINE u == Unsteady(h)
<1>1. ASSUME NEW f \in Frames
      PROVE  /\ f.at = "dec.check" => [f EXCEPT !.steady = @ \ {h}] \in DecodedFrame
             /\ f.at = "node.next" => [f EXCEPT !.steady = @ \ {h}] \in NodeFrame
  <2>1. f.at = "dec.check" => f \in DecodedFrame
    BY FrameKinds
  <2>2. f.at = "node.next" => f \in NodeFrame
    BY FrameKinds
  <2> QED BY <2>1, <2>2 DEF DecodedFrame, NodeFrame
<1>2. u = [k \in 1 .. Len(stack) |->
             IF stack[k].at \in {"dec.check", "node.next"}
             THEN [stack[k] EXCEPT !.steady = @ \ {h}] ELSE stack[k]]
  BY DEF Unsteady
<1>3. \A k \in 1 .. Len(stack) : stack[k] \in Frames
  OBVIOUS
<1>4. \A k \in 1 .. Len(stack) : u[k] \in Frames
  BY <1>1, <1>2, <1>3, KindsAreFrames
<1>5. u \in Seq(Frames) /\ Len(u) = Len(stack)
  BY <1>2, <1>4
<1>6. ASSUME NEW k \in 1 .. Len(stack)
      PROVE  /\ u[k].at = stack[k].at
             /\ stack[k].at \in {"once.read", "once.check", "dec.loop", "dec.check"} =>
                  u[k].pos = stack[k].pos /\ u[k].temp = stack[k].temp
             /\ stack[k].at \in {"node.loop", "node.next"} =>
                  u[k].pos = stack[k].pos /\ u[k].node = stack[k].node
             /\ stack[k].at = "ext.parse" => u[k].interface = stack[k].interface
  <2>1. CASE stack[k].at = "dec.check"
    <3>1. stack[k] \in DecodedFrame /\ u[k] = [stack[k] EXCEPT !.steady = @ \ {h}]
      BY <1>2, <1>3, <2>1, FrameKinds
    <3> QED BY <2>1, <3>1 DEF DecodedFrame
  <2>2. CASE stack[k].at = "node.next"
    <3>1. stack[k] \in NodeFrame /\ u[k] = [stack[k] EXCEPT !.steady = @ \ {h}]
      BY <1>2, <1>3, <2>2, FrameKinds
    <3> QED BY <2>2, <3>1 DEF NodeFrame
  <2>3. CASE stack[k].at \notin {"dec.check", "node.next"}
    BY <1>2, <2>3
  <2> QED BY <2>1, <2>2, <2>3
<1> QED BY <1>5, <1>6

(***************************************************************************)
(* A call of the application stays within the bounds.                      *)
(***************************************************************************)
LEMMA CallsType ==
  ASSUME TypeOK, NEW name, Calls(name)
  PROVE  calls' \in 0 .. MaxCalls /\ reads' \in 0 .. MaxReads
  BY BridgeAssumption DEF TypeOK, Calls

(***************************************************************************)
(* Adding and removing list entries preserves the types.                   *)
(***************************************************************************)
LEMMA RegistrationType ==
  ASSUME TypeOK,
         \/ \E i \in Interfaces : RegisterExternalInterface(i) \/ DeregisterExternalInterface(i)
         \/ \E h \in Handlers : RegisterBridgeHandler(h) \/ DeregisterBridgeHandler(h)
         \/ \E n \in Nodes, k \in NodeHandlers :
              RegisterNodeHandler(n, k) \/ DeregisterNodeHandler(n, k),
         ListsInv
  PROVE  TypeOK'
<1>1. ASSUME NEW i \in Interfaces, RegisterExternalInterface(i) PROVE TypeOK'
  BY <1>1, CallsType, ListAddLinks DEF TypeOK, RegisterExternalInterface, config
<1>2. ASSUME NEW i \in Interfaces, DeregisterExternalInterface(i) PROVE TypeOK'
  <2>1. externalInterfaceList' \in Seq(Interfaces)
    BY <1>2, ListDelInitUnlinks DEF ListsInv, IsList, DeregisterExternalInterface
  <2>2. routingTable' \in [TableIds -> Interfaces \cup {TheBridge, AllInterfaces}]
    BY <1>2 DEF TypeOK, DeregisterExternalInterface, RoutingTableInvalidateInterface
  <2> QED BY <1>2, <2>1, <2>2, CallsType DEF TypeOK, DeregisterExternalInterface, config
<1>3. ASSUME NEW h \in Handlers, RegisterBridgeHandler(h) PROVE TypeOK'
  <2>1. bridgeHandlerList' \in Seq(BridgeHandlers)
    BY <1>3, ListAddLinks DEF TypeOK, RegisterBridgeHandler, AttachHandler, BridgeHandlers
  <2> QED BY <1>3, <2>1, CallsType DEF TypeOK, RegisterBridgeHandler, config
<1>4. ASSUME NEW h \in Handlers, DeregisterBridgeHandler(h) PROVE TypeOK'
  <2>1. bridgeHandlerList' \in Seq(BridgeHandlers)
    BY <1>4, ListDelInitUnlinks DEF ListsInv, IsList, DeregisterBridgeHandler, DetachHandler
  <2>2. stack' \in Seq(Frames)
    BY <1>4, UnsteadyType DEF TypeOK, DeregisterBridgeHandler, DetachHandler
  <2> QED BY <1>4, <2>1, <2>2, CallsType DEF TypeOK, DeregisterBridgeHandler, config
<1>5. ASSUME NEW n \in Nodes, NEW k \in NodeHandlers, RegisterNodeHandler(n, k) PROVE TypeOK'
  <2>1. ListAdd(nodeHandlerList[n], k) \in Seq(NodeHandlers)
    BY ListAddLinks DEF TypeOK
  <2> QED BY <1>5, <2>1, CallsType DEF TypeOK, RegisterNodeHandler, config
<1>6. ASSUME NEW n \in Nodes, NEW k \in NodeHandlers, DeregisterNodeHandler(n, k) PROVE TypeOK'
  <2>1. ListDelInit(nodeHandlerList[n], k) \in Seq(NodeHandlers)
    BY ListDelInitUnlinks DEF ListsInv, IsList
  <2>2. stack' \in Seq(Frames)
    BY <1>6, UnsteadyType DEF TypeOK, DeregisterNodeHandler
  <2> QED BY <1>6, <2>1, <2>2, CallsType DEF TypeOK, DeregisterNodeHandler, config
<1> QED BY <1>1, <1>2, <1>3, <1>4, <1>5, <1>6

(***************************************************************************)
(* Registering, renaming and sending of nodes preserve the types.          *)
(***************************************************************************)
LEMMA NodeCallType ==
  ASSUME TypeOK, ListsInv,
         \/ \E n \in Nodes : NodeRegister(n) \/ NodeDeregister(n)
         \/ \E n \in Nodes, id \in NodeIds : NodeSetOwnSenderId(n, id)
         \/ \E n \in Nodes, id \in DeviceIds : NodeSend(n, id)
         \/ \E msg \in Messages : SendRaw(msg)
  PROVE  TypeOK'
<1>0. ASSUME NEW table \in [TableIds -> Interfaces \cup {TheBridge, AllInterfaces}], NEW id
      PROVE  /\ MarkInternal(table, id) \in [TableIds -> Interfaces \cup {TheBridge, AllInterfaces}]
             /\ ClearInternal(table, id) \in [TableIds -> Interfaces \cup {TheBridge, AllInterfaces}]
  BY DEF MarkInternal, ClearInternal, RoutingTableUpdate
<1>1. ASSUME NEW n \in Nodes, NodeRegister(n) PROVE TypeOK'
  <2>1. bridgeHandlerList' \in Seq(BridgeHandlers)
    BY <1>1, ListAddLinks DEF TypeOK, NodeRegister, AttachHandler, BridgeHandlers
  <2> QED BY <1>0, <1>1, <2>1, CallsType DEF TypeOK, NodeRegister, config
<1>2. ASSUME NEW n \in Nodes, NodeDeregister(n) PROVE TypeOK'
  <2>1. bridgeHandlerList' \in Seq(BridgeHandlers)
    BY <1>2, ListDelInitUnlinks DEF ListsInv, IsList, NodeDeregister, DetachHandler
  <2>2. stack' \in Seq(Frames)
    BY <1>2, UnsteadyType DEF TypeOK, NodeDeregister, DetachHandler
  <2> QED BY <1>0, <1>2, <2>1, <2>2, CallsType DEF TypeOK, NodeDeregister, config
<1>3. ASSUME NEW n \in Nodes, NEW id \in NodeIds, NodeSetOwnSenderId(n, id) PROVE TypeOK'
  <2>1. ownId' \in [Nodes -> DeviceIds]
    BY <1>3, BridgeAssumption DEF TypeOK, NodeSetOwnSenderId
  <2>2. routingTable' \in [TableIds -> Interfaces \cup {TheBridge, AllInterfaces}]
    BY <1>0, <1>3 DEF TypeOK, NodeSetOwnSenderId
  <2> QED BY <1>3, <2>1, <2>2, CallsType DEF TypeOK, NodeSetOwnSenderId, lists
<1>4. ASSUME NEW msg \in Messages, stack' = Call(Decoded(routingTable, msg, TheBridge))
      PROVE  stack' \in Seq(Frames)
  <2>1. Decoded(routingTable, msg, TheBridge) \in DecodedFrame
    BY DecodedType DEF TypeOK
  <2> QED BY <1>4, <2>1, StackOps, KindsAreFrames DEF TypeOK
<1>5. ASSUME NEW n \in Nodes, NEW id \in DeviceIds, NodeSend(n, id) PROVE TypeOK'
  <2>1. [sender |-> ownId[n], receiver |-> id] \in Messages
    BY DEF TypeOK, Messages
  <2> QED BY <1>4, <1>5, <2>1, CallsType DEF TypeOK, NodeSend, lists, config
<1>6. ASSUME NEW msg \in Messages, SendRaw(msg) PROVE TypeOK'
  BY <1>4, <1>6, CallsType DEF TypeOK, SendRaw, lists, config
<1> QED BY <1>1, <1>2, <1>3, <1>5, <1>6

(***************************************************************************)
(* The setters of flags and routes preserve the types.                     *)
(***************************************************************************)
LEMMA SettingType ==
  ASSUME TypeOK,
         \/ \E i \in Interfaces : \E id : SetRoutingForDeviceId(i, id)
         \/ \E forward \in BOOLEAN : BridgeSetFlags(forward)
         \/ \E i \in Interfaces, mirror \in BOOLEAN : ExternalInterfaceSetFlags(i, mirror)
         \/ \E h \in Handlers \cup NodeHandlers, silent \in BOOLEAN : HandlerSetFlags(h, silent)
  PROVE  TypeOK'
<1>1. ASSUME NEW i \in Interfaces, NEW id, SetRoutingForDeviceId(i, id) PROVE TypeOK'
  <2>1. routingTable' \in [TableIds -> Interfaces \cup {TheBridge, AllInterfaces}]
    BY <1>1 DEF TypeOK, SetRoutingForDeviceId, RoutingTableUpdate
  <2> QED BY <1>1, <2>1, CallsType DEF TypeOK, SetRoutingForDeviceId, lists, config
<1>2. ASSUME NEW forward \in BOOLEAN, BridgeSetFlags(forward) PROVE TypeOK'
  BY <1>2, CallsType DEF TypeOK, BridgeSetFlags, lists
<1>3. ASSUME NEW i \in Interfaces, NEW mirror \in BOOLEAN, ExternalInterfaceSetFlags(i, mirror)
      PROVE  TypeOK'
  BY <1>3, CallsType DEF TypeOK, ExternalInterfaceSetFlags, lists
<1>4. ASSUME NEW h \in Handlers \cup NodeHandlers, NEW silent \in BOOLEAN, HandlerSetFlags(h, silent)
      PROVE  TypeOK'
  <2>1. stack' \in Seq(Frames)
    BY <1>4, UnsteadyType DEF TypeOK, HandlerSetFlags
  <2> QED BY <1>4, <2>1, CallsType DEF TypeOK, HandlerSetFlags, lists
<1> QED BY <1>1, <1>2, <1>3, <1>4

-----------------------------------------------------------------------------
(***************************************************************************)
(* Next bounds what the application sends and which routes it sets; nothing*)
(* that follows depends on that.                                           *)
(***************************************************************************)
SendsOrRoutes ==
  \/ \E msg \in Messages : SendRaw(msg)
  \/ \E i \in Interfaces : \E id : id # Broadcast /\ SetRoutingForDeviceId(i, id)

AnyStep == Next \/ SendsOrRoutes

LEMMA NextIsAStep == [Next]_vars => [AnyStep]_vars
BY DEF AnyStep

(***************************************************************************)
(* The lists stay without repetitions: list_add is only ever called for an *)
(* entry that is not linked.                                               *)
(***************************************************************************)
LEMMA ListsStep ==
  ASSUME TypeOK, ListsInv, [AnyStep]_vars
  PROVE  ListsInv'
<1>0. ASSUME UNCHANGED lists PROVE ListsInv'
  BY <1>0 DEF ListsInv, lists
<1>1. ASSUME NEW again \in BOOLEAN, Process(again) PROVE ListsInv'
  BY <1>0, <1>1 DEF Process
<1>2. ASSUME Run PROVE ListsInv'
  <2>1. UNCHANGED lists
    BY <1>2 DEF Run, ReadNothing, ReadBytes, OnceCheck, OnceReturn, HandlePacket, ExternalAfter,
      ExternalReturn, SkipHandler, CallHandler, CallNode, DecodedCheck, DecodedReturn,
      SkipNodeHandler, CallNodeHandler, NodeNext, NodeReturn, UserReturn
  <2> QED BY <1>0, <2>1
<1>3. ASSUME NEW i \in Interfaces, RegisterExternalInterface(i) \/ DeregisterExternalInterface(i)
      PROVE  ListsInv'
  <2>1. IsList(externalInterfaceList', Interfaces)
    BY <1>3, ListAddIsList, ListDelInitUnlinks
       DEF ListsInv, RegisterExternalInterface, DeregisterExternalInterface, Registered
  <2> QED BY <1>3, <2>1 DEF ListsInv, RegisterExternalInterface, DeregisterExternalInterface
<1>4. ASSUME NEW h \in BridgeHandlers, AttachHandler(h) \/ DetachHandler(h)
      PROVE  IsList(bridgeHandlerList', BridgeHandlers)
  BY <1>4, ListAddIsList, ListDelInitUnlinks DEF ListsInv, AttachHandler, DetachHandler, Attached
<1>5. ASSUME NEW h \in Handlers, RegisterBridgeHandler(h) \/ DeregisterBridgeHandler(h)
      PROVE  ListsInv'
  BY <1>4, <1>5 DEF BridgeHandlers, ListsInv, RegisterBridgeHandler, DeregisterBridgeHandler
<1>6. ASSUME NEW n \in Nodes, NodeRegister(n) \/ NodeDeregister(n) PROVE ListsInv'
  BY <1>4, <1>6 DEF BridgeHandlers, ListsInv, NodeRegister, NodeDeregister
<1>7. ASSUME NEW n \in Nodes, NEW k \in NodeHandlers,
             RegisterNodeHandler(n, k) \/ DeregisterNodeHandler(n, k)
      PROVE  ListsInv'
  <2>1. IsList(nodeHandlerList[n], NodeHandlers) /\ nodeHandlerList \in [Nodes -> Seq(NodeHandlers)]
    BY DEF ListsInv, TypeOK
  <2>2. IsList(ListDelInit(nodeHandlerList[n], k), NodeHandlers)
    BY <2>1, ListDelInitUnlinks
  <2>3. CASE RegisterNodeHandler(n, k)
    <3>1. IsList(ListAdd(nodeHandlerList[n], k), NodeHandlers)
      BY <2>1, <2>3, ListAddIsList DEF RegisterNodeHandler
    <3> QED BY <2>1, <2>3, <3>1 DEF ListsInv, RegisterNodeHandler
  <2>4. CASE DeregisterNodeHandler(n, k)
    BY <2>1, <2>2, <2>4 DEF ListsInv, DeregisterNodeHandler
  <2> QED BY <1>7, <2>3, <2>4
<1>8. ASSUME NEW n \in Nodes, NEW id, NodeSetOwnSenderId(n, id) \/ NodeSend(n, id) PROVE ListsInv'
  BY <1>0, <1>8 DEF NodeSetOwnSenderId, NodeSend
<1>9. ASSUME NEW msg, SendRaw(msg) PROVE ListsInv'
  BY <1>0, <1>9 DEF SendRaw
<1>10. ASSUME NEW x, NEW y,
              \/ SetRoutingForDeviceId(x, y) \/ BridgeSetFlags(x)
              \/ ExternalInterfaceSetFlags(x, y) \/ HandlerSetFlags(x, y)
       PROVE  ListsInv'
  BY <1>0, <1>10 DEF SetRoutingForDeviceId, BridgeSetFlags, ExternalInterfaceSetFlags, HandlerSetFlags
<1>11. ASSUME UNCHANGED vars PROVE ListsInv'
  BY <1>0, <1>11 DEF vars
<1> QED BY <1>1, <1>2, <1>3, <1>5, <1>6, <1>7, <1>8, <1>9, <1>10, <1>11
     DEF AnyStep, SendsOrRoutes, Next, Application

(***************************************************************************)
(* Every step preserves the types.                                         *)
(***************************************************************************)
LEMMA TypeStep ==
  ASSUME TypeOK, ListsInv, [AnyStep]_vars
  PROVE  TypeOK'
<1>1. ASSUME NEW again \in BOOLEAN, Process(again) PROVE TypeOK'
  <2>1. OnceLoop(again) \in Frames
    BY OnceLoopType, KindsAreFrames
  <2>2. stack' \in Seq(Frames)
    BY <1>1, <2>1 DEF Process
  <2> QED BY <1>1, <2>2, StackOnlyType DEF Process
<1>2. ASSUME Run PROVE TypeOK'
  BY <1>2, OnceType, ReadBytesType, ExternalType, DecodedStepType, NodeStepType DEF Run
<1>3. ASSUME Application PROVE TypeOK'
  BY <1>3, PacketsAreMessages, RegistrationType, NodeCallType, SettingType DEF Application
<1>4. ASSUME UNCHANGED vars PROVE TypeOK'
  BY <1>4 DEF TypeOK, vars, lists, config, bounds
<1>5. ASSUME SendsOrRoutes PROVE TypeOK'
  BY <1>5, NodeCallType, SettingType DEF SendsOrRoutes
<1> QED BY <1>1, <1>2, <1>3, <1>4, <1>5 DEF AnyStep, Next

(***************************************************************************)
(* The set-up leaves a typed state.                                        *)
(***************************************************************************)
LEMMA InitTypes == Init => TypeOK /\ ListsInv
<1> SUFFICES ASSUME Init PROVE TypeOK /\ ListsInv
  OBVIOUS
<1>1. ListsInv
  BY BridgeAssumption DEF Init, ListsInv
<1>2. routingTable \in [TableIds -> Interfaces \cup {TheBridge, AllInterfaces}]
  BY DEF Init, RoutingTableInit
<1>3. stack \in Seq(Frames) /\ calls \in 0 .. MaxCalls /\ reads \in 0 .. MaxReads
  BY BridgeAssumption DEF Init
<1>4. /\ externalInterfaceList \in Seq(Interfaces) /\ bridgeHandlerList \in Seq(BridgeHandlers)
      /\ nodeHandlerList \in [Nodes -> Seq(NodeHandlers)]
  BY BridgeAssumption DEF Init, IsList
<1>5. forwarding \in BOOLEAN /\ mirrors \subseteq Interfaces
      /\ quiet \subseteq Handlers \cup NodeHandlers /\ ownId \in [Nodes -> DeviceIds]
  BY BridgeAssumption DEF Init
<1> QED BY <1>1, <1>2, <1>3, <1>4, <1>5 DEF TypeOK

(***************************************************************************)
(* Type correctness: every variable, the frames of nested calls included,  *)
(* has its type, and no list of src/Bridge.c and src/Node.c ever holds an  *)
(* entry twice.                                                            *)
(***************************************************************************)
THEOREM TypeCorrect == Spec => [](TypeOK /\ ListsInv)
<1>1. Init => TypeOK /\ ListsInv
  BY InitTypes
<1>2. TypeOK /\ ListsInv /\ [Next]_vars => (TypeOK /\ ListsInv)'
  BY TypeStep, ListsStep, NextIsAStep
<1> QED BY <1>1, <1>2, PTL DEF Spec

-----------------------------------------------------------------------------
(***************************************************************************)
(* Loops that survive removals, live routes and protected ids, for every   *)
(* bridge whose application keeps the rules these rest on.                 *)
(***************************************************************************)

(***************************************************************************)
(* CHECK_LIST_IN_LOOP does its job: a loop that still has one of its two   *)
(* variables on the list continues at an entry of the list, or ends.       *)
(***************************************************************************)
LEMMA CheckRepairsLoop ==
  ASSUME NEW S, NEW list \in Seq(S), ListHead \notin S, NEW f, Anchored(list, f)
  PROVE  LET next == TempAfterCheck(list, f)
         IN  /\ next \in Linked(list) \cup {ListHead}
             /\ ListNext(list, next) \in Linked(list) \cup {ListHead}
<1>1. ListHead \notin Linked(list)
  BY LinkedType
<1>2. TempAfterCheck(list, f) \in Linked(list) \cup {ListHead}
  BY <1>1 DEF TempAfterCheck, Anchored, ListEmpty, Linked
<1> QED BY <1>2, ListNextLinked

(***************************************************************************)
(* A step of the library: the frames below the innermost one wait as they  *)
(* were, so only the new frames need a look.                               *)
(***************************************************************************)
LEMMA LibraryStep ==
  ASSUME TypeOK, StackInv, UNCHANGED lists,
         NEW f \in Frames, FrameInv(f), NEW g \in Frames, FrameInv(g), g.at \in Waiting,
         \/ stack # <<>> /\ stack' \in {Tail(stack), Replace(f), Push(f, g)}
         \/ stack' = Call(f) /\ (stack # <<>> => Top.at \in Waiting)
  PROVE  StackInv'
<1>1. stack \in Seq(Frames) /\ Len(stack) \in Nat /\ (stack # <<>> => Len(stack) > 0)
  BY DEF TypeOK
<1>2. \A k \in 1 .. Len(stack) : FrameInv(stack[k]) /\ (k > 1 => stack[k].at \in Waiting)
  BY DEF StackInv
<1>3. \A h : FrameInv(h) => FrameInv(h)'
  BY DEF FrameInv, Registered, Attached, lists, Anchored
<1>4. SUFFICES \A k \in 1 .. Len(stack') : FrameInv(stack'[k]) /\ (k > 1 => stack'[k].at \in Waiting)
  BY <1>3 DEF StackInv, FrameInv, Registered, Attached, lists, Anchored
<1>5. /\ Len(Call(f)) = Len(stack) + 1
      /\ Call(f)[1] = f /\ \A k \in 2 .. Len(stack) + 1 : Call(f)[k] = stack[k - 1]
  BY <1>1, StackOps
<1>6. ASSUME stack # <<>>
      PROVE  /\ Len(Tail(stack)) = Len(stack) - 1
             /\ \A k \in 1 .. Len(stack) - 1 : Tail(stack)[k] = stack[k + 1]
             /\ Len(Replace(f)) = Len(stack)
             /\ Replace(f)[1] = f /\ \A k \in 2 .. Len(stack) : Replace(f)[k] = stack[k]
             /\ Len(Push(f, g)) = Len(stack) + 1
             /\ Push(f, g)[1] = f /\ Push(f, g)[2] = g
             /\ \A k \in 3 .. Len(stack) + 1 : Push(f, g)[k] = stack[k - 1]
  <2>1. /\ Tail(stack) \in Seq(Frames) /\ Len(Tail(stack)) = Len(stack) - 1
        /\ \A k \in 1 .. Len(stack) - 1 : Tail(stack)[k] = stack[k + 1]
    BY <1>1, <1>6
  <2>2. /\ Len(Replace(f)) = Len(stack)
        /\ Replace(f)[1] = f /\ \A k \in 2 .. Len(stack) : Replace(f)[k] = stack[k]
    BY <1>1, <1>6, <2>1 DEF Replace
  <2>3. /\ Len(Push(f, g)) = Len(stack) + 1
        /\ Push(f, g)[1] = f /\ Push(f, g)[2] = g
        /\ \A k \in 3 .. Len(stack) + 1 : Push(f, g)[k] = stack[k - 1]
    BY <1>1, <1>6, <2>1 DEF Push
  <2> QED BY <2>1, <2>2, <2>3
<1>7. CASE stack # <<>> /\ stack' = Tail(stack)
  BY <1>1, <1>2, <1>6, <1>7
<1>8. CASE stack # <<>> /\ stack' = Replace(f)
  BY <1>1, <1>2, <1>6, <1>8
<1>9. CASE stack # <<>> /\ stack' = Push(f, g)
  BY <1>1, <1>2, <1>6, <1>9
<1>10. CASE stack' = Call(f) /\ (stack # <<>> => Top.at \in Waiting)
  BY <1>1, <1>2, <1>5, <1>10 DEF Top
<1> QED BY <1>7, <1>8, <1>9, <1>10
(***************************************************************************)
(* The frame of a running handler of the application constrains nothing.   *)
(***************************************************************************)
LEMMA UserWaits ==
  /\ [at |-> "user"] \in Frames
  /\ FrameInv([at |-> "user"])
  /\ [at |-> "user"].at \in Waiting
  BY KindsAreFrames DEF FrameInv, Waiting

(***************************************************************************)
(* A loop over the interfaces starts, and its steps go on, at a registered *)
(* interface or at the end.                                                *)
(***************************************************************************)
LEMMA OnceSafe ==
  ASSUME TypeOK, StackInv,
         \/ \E again \in BOOLEAN : Process(again)
         \/ \E chunk \in Chunks : ReadBytes(chunk)
         \/ ReadNothing \/ OnceCheck \/ OnceReturn
  PROVE  StackInv'
<1> DEFINE l == externalInterfaceList
           u == [at |-> "user"]
<1>1. l \in Seq(Interfaces) /\ ListHead \notin Interfaces /\ stack \in Seq(Frames)
  BY BridgeAssumption DEF TypeOK
<1>2. ASSUME NEW again \in BOOLEAN
      PROVE  OnceLoop(again) \in Frames /\ FrameInv(OnceLoop(again))
  <2>1. OnceLoop(again) \in Frames
    BY OnceLoopType, KindsAreFrames
  <2>2. {SafeLoopPos(l), SafeLoopTemp(l)} \subseteq Linked(l) \cup {ListHead}
    BY <1>1, ListNextLinked DEF SafeLoopPos, SafeLoopTemp
  <2> QED BY <2>1, <2>2 DEF OnceLoop, FrameInv, Registered
<1>3. ASSUME NEW again \in BOOLEAN, Process(again) PROVE StackInv'
  <2>1. Call(OnceLoop(again)) = <<OnceLoop(again)>>
    BY <1>3 DEF Process, Call
  <2> QED BY <1>2, <1>3, <2>1, UserWaits, LibraryStep DEF Process
<1>4. ASSUME stack # <<>>, Top.at \in {"once.read", "once.check"}
      PROVE  Top \in OnceFrame /\ FrameInv(Top)
  BY <1>1, <1>4, TopIsFrame, FrameKinds DEF StackInv, Top
<1>5. ASSUME NEW chunk \in Chunks, ReadBytes(chunk) PROVE StackInv'
  <2> DEFINE f == [at |-> "ext.parse", interface |-> Top.pos, chunk |-> chunk]
             g == [Top EXCEPT !.at = "once.check", !.got = TRUE]
  <2>1. stack # <<>> /\ Top \in OnceFrame /\ Top.pos # ListHead /\ {Top.pos, Top.temp} \subseteq Registered \cup {ListHead}
    BY <1>4, <1>5 DEF ReadBytes, Active, FrameInv
  <2>2. f \in Frames /\ g \in Frames /\ g.at = "once.check" /\ g.temp = Top.temp /\ g.pos = Top.pos
    <3>1. chunk \in Seq(Packets) /\ Top.pos \in Interfaces
      BY <2>1 DEF Chunks, OnceFrame
    <3>2. f \in ExternalFrame
      BY <3>1 DEF ExternalFrame
    <3>3. g \in OnceFrame /\ g.at = "once.check" /\ g.temp = Top.temp /\ g.pos = Top.pos
      BY <2>1 DEF OnceFrame
    <3> QED BY <3>2, <3>3, KindsAreFrames
  <2>3. FrameInv(f)
    BY <2>1 DEF FrameInv
  <2>4. FrameInv(g) /\ g.at \in Waiting
    BY <2>1, <2>2 DEF FrameInv, Anchored, Registered, Waiting
  <2> HIDE DEF f, g
  <2>5. stack' = Push(f, g) /\ UNCHANGED lists
    BY <1>5 DEF ReadBytes, f, g
  <2> QED BY <2>1, <2>2, <2>3, <2>4, <2>5, LibraryStep
<1>6. CASE ReadNothing
  <2> DEFINE g == [Top EXCEPT !.at = "once.check"]
  <2>1. stack # <<>> /\ Top \in OnceFrame /\ {Top.pos, Top.temp} \subseteq Registered \cup {ListHead}
    BY <1>4, <1>6 DEF ReadNothing, Active, FrameInv
  <2>2. g \in Frames /\ g.at = "once.check" /\ g.temp = Top.temp /\ g.pos = Top.pos
    BY <2>1, KindsAreFrames DEF OnceFrame
  <2>3. FrameInv(g)
    BY <2>1, <2>2 DEF FrameInv, Anchored, Registered
  <2> HIDE DEF g
  <2>4. stack' = Replace(g) /\ UNCHANGED lists
    BY <1>6 DEF ReadNothing, g
  <2> QED BY <2>1, <2>2, <2>3, <2>4, UserWaits, LibraryStep
<1>7. CASE OnceCheck
  <2> DEFINE h == [Top EXCEPT !.at = "once.read"]
             f == CheckListInLoop(l, h)
  <2>1. stack # <<>> /\ Top \in OnceFrame /\ Anchored(l, Top)
    BY <1>4, <1>7 DEF OnceCheck, Active, FrameInv
  <2>2. h \in OnceFrame /\ Anchored(l, h) /\ h.at = "once.read"
    BY <2>1 DEF OnceFrame, Anchored
  <2>3. /\ TempAfterCheck(l, h) \in Linked(l) \cup {ListHead}
        /\ ListNext(l, TempAfterCheck(l, h)) \in Linked(l) \cup {ListHead}
    BY <1>1, <2>2, CheckRepairsLoop
  <2>4. f \in OnceFrame /\ f.at = "once.read"
        /\ f.pos = TempAfterCheck(l, h) /\ f.temp = ListNext(l, TempAfterCheck(l, h))
    <3>1. Linked(l) \subseteq Interfaces
      BY <1>1, LinkedType
    <3> QED BY <2>2, <2>3, <3>1 DEF CheckListInLoop, SafeLoopNext, OnceFrame
  <2> HIDE DEF f, h
  <2>5. FrameInv(f)
    BY <2>3, <2>4 DEF FrameInv, Registered
  <2>6. stack' = Replace(f) /\ UNCHANGED lists
    BY <1>7 DEF OnceCheck, f, h
  <2> QED BY <2>1, <2>4, <2>5, <2>6, KindsAreFrames, UserWaits, LibraryStep
<1>8. CASE OnceReturn
  <2>1. stack # <<>> /\ stack' \in {Tail(stack), Replace(OnceLoop(TRUE))} /\ UNCHANGED lists
    BY <1>8 DEF OnceReturn, Active
  <2> QED BY <1>2, <2>1, UserWaits, LibraryStep
<1> QED BY <1>3, <1>5, <1>6, <1>7, <1>8

(***************************************************************************)
(* A message enters the loop over the handlers at a registered handler.    *)
(***************************************************************************)
LEMMA DecodedSafe ==
  ASSUME TypeOK, NEW table \in [TableIds -> Interfaces \cup {TheBridge, AllInterfaces}],
         NEW msg \in Messages, NEW origin \in Interfaces \cup {TheBridge}
  PROVE  Decoded(table, msg, origin) \in Frames /\ FrameInv(Decoded(table, msg, origin))
<1> DEFINE l == bridgeHandlerList
<1>1. l \in Seq(BridgeHandlers)
  BY DEF TypeOK
<1>2. {SafeLoopPos(l), SafeLoopTemp(l)} \subseteq Linked(l) \cup {ListHead}
  BY <1>1, ListNextLinked DEF SafeLoopPos, SafeLoopTemp
<1> QED BY <1>2, DecodedType, KindsAreFrames DEF Decoded, FrameInv, Attached

(***************************************************************************)
(* The messages of an interface are handled only while it is registered.   *)
(***************************************************************************)
LEMMA ExternalSafe ==
  ASSUME TypeOK, StackInv, HandlePacket \/ ExternalAfter \/ ExternalReturn
  PROVE  StackInv'
<1>0. stack \in Seq(Frames) /\ stack # <<>> /\ UNCHANGED lists
  BY DEF TypeOK, HandlePacket, ExternalAfter, ExternalReturn, Active
<1>1. Top \in ExternalFrame /\ FrameInv(Top)
  BY <1>0, TopIsFrame, FrameKinds DEF HandlePacket, ExternalAfter, ExternalReturn, Active, StackInv, Top
<1>2. CASE HandlePacket
  <2> DEFINE msg == Head(Top.chunk)
             f == Decoded(routingTable', msg, Top.interface)
             g == [Top EXCEPT !.at = "ext.after", !.chunk = Tail(@)]
  <2>1. Top.chunk \in Seq(Packets) /\ Top.chunk # <<>> /\ Top.interface \in Interfaces
    BY <1>1, <1>2 DEF HandlePacket, ExternalFrame
  <2>2. msg \in Messages /\ Tail(Top.chunk) \in Seq(Packets)
    <3>1. msg \in Packets /\ Tail(Top.chunk) \in Seq(Packets)
      BY <2>1
    <3> QED BY <3>1, BridgeAssumption DEF Packets, Messages
  <2>3. routingTable' \in [TableIds -> Interfaces \cup {TheBridge, AllInterfaces}]
    BY <1>2, ExternalType DEF TypeOK
  <2>4. f \in Frames /\ FrameInv(f)
    BY <2>1, <2>2, <2>3, DecodedSafe
  <2>5. g \in Frames /\ g.at = "ext.after"
    BY <1>1, <2>2, KindsAreFrames DEF ExternalFrame
  <2>6. FrameInv(g) /\ g.at \in Waiting
    BY <2>5 DEF FrameInv, Waiting
  <2>7. stack' = Push(f, g)
    BY <1>2 DEF HandlePacket
  <2> HIDE DEF f, g
  <2> QED BY <1>0, <2>4, <2>5, <2>6, <2>7, LibraryStep
<1>3. CASE ExternalAfter
  <2> DEFINE f == [Top EXCEPT !.at = "ext.parse"]
  <2>1. f \in Frames /\ f.at = "ext.parse" /\ f.interface = Top.interface /\ f.interface \in Interfaces
    BY <1>1, KindsAreFrames DEF ExternalFrame
  <2>2. CASE ListEmpty(externalInterfaceList, Top.interface)
    BY <1>0, <1>3, <2>2, UserWaits, LibraryStep DEF ExternalAfter
  <2>3. CASE ~ListEmpty(externalInterfaceList, Top.interface)
    <3>1. FrameInv(f)
      BY <2>1, <2>3, BridgeAssumption DEF ListEmpty, FrameInv, Registered
    <3>2. stack' = Replace(f)
      BY <1>3, <2>3 DEF ExternalAfter
    <3> HIDE DEF f
    <3> QED BY <1>0, <2>1, <3>1, <3>2, UserWaits, LibraryStep
  <2> QED BY <2>2, <2>3
<1>4. CASE ExternalReturn
  BY <1>0, <1>4, UserWaits, LibraryStep DEF ExternalReturn
<1> QED BY <1>2, <1>3, <1>4

(***************************************************************************)
(* The loop over the bridge handlers goes on at a registered handler.      *)
(***************************************************************************)
LEMMA HandlerLoopSafe ==
  ASSUME TypeOK, StackInv, SkipHandler \/ CallHandler \/ CallNode \/ DecodedCheck \/ DecodedReturn
  PROVE  StackInv'
<1> DEFINE l == bridgeHandlerList
           g == [Top EXCEPT !.at = "dec.check"]
           caller == Note(g, Top.pos)
           f == [Top EXCEPT !.at = "dec.loop"]
<1>0. stack \in Seq(Frames) /\ stack # <<>> /\ l \in Seq(BridgeHandlers) /\ UNCHANGED lists
  BY DEF TypeOK, SkipHandler, CallHandler, CallNode, DecodedCheck, DecodedReturn, Active
<1>1. Top \in DecodedFrame /\ FrameInv(Top)
  BY <1>0, TopIsFrame, FrameKinds
     DEF SkipHandler, CallHandler, CallNode, DecodedCheck, DecodedReturn, Active, StackInv, Top
<1>2. ListHead \notin BridgeHandlers /\ Linked(l) \subseteq BridgeHandlers
  BY <1>0, BridgeAssumption, LinkedType
<1>3. ASSUME Top.at = "dec.loop", Top.pos \in BridgeHandlers
      PROVE  caller \in Frames /\ FrameInv(caller) /\ caller.at \in Waiting
  <2>1. g \in DecodedFrame /\ g.called = Top.called /\ g.at = "dec.check" /\ g.temp = Top.temp
    BY <1>1 DEF DecodedFrame
  <2>2. caller \in DecodedFrame /\ caller.at = "dec.check" /\ caller.temp = Top.temp
    BY <1>3, <2>1 DEF Note, DecodedFrame
  <2>3. Top.temp \in Attached \cup {ListHead}
    BY <1>1, <1>3 DEF FrameInv
  <2> HIDE DEF caller
  <2> QED BY <2>2, <2>3, KindsAreFrames DEF FrameInv, Anchored, Attached, Waiting
<1>4. CASE SkipHandler
  <2> DEFINE h == SafeLoopNext(l, Top)
  <2>1. Top.at = "dec.loop" /\ Top.temp \in Linked(l) \cup {ListHead}
    BY <1>1, <1>4 DEF SkipHandler, Active, FrameInv, Attached
  <2>2. ListNext(l, Top.temp) \in Linked(l) \cup {ListHead}
    BY <1>0, <2>1, ListNextLinked
  <2>3. /\ h \in DecodedFrame /\ h.at = "dec.loop"
        /\ h.pos = Top.temp /\ h.temp = ListNext(l, Top.temp)
    BY <1>1, <1>2, <2>1, <2>2 DEF SafeLoopNext, DecodedFrame
  <2>4. stack' = Replace(h)
    BY <1>4 DEF SkipHandler
  <2> HIDE DEF h
  <2>5. FrameInv(h)
    BY <2>1, <2>2, <2>3 DEF FrameInv, Attached
  <2> QED BY <1>0, <2>3, <2>4, <2>5, KindsAreFrames, UserWaits, LibraryStep
<1>5. CASE CallHandler
  <2>1. Top.at = "dec.loop" /\ Top.pos \in BridgeHandlers /\ stack' = Push([at |-> "user"], caller)
    BY <1>5 DEF CallHandler, Active, BridgeHandlers
  <2> HIDE DEF caller
  <2> QED BY <1>0, <1>3, <2>1, UserWaits, LibraryStep
<1>6. CASE CallNode
  <2> DEFINE n == Top.pos
             k == NodeLoop(n, Top.origin)
  <2>1. Top.at = "dec.loop" /\ n \in Nodes /\ n \in BridgeHandlers /\ Top.origin \in Interfaces \cup {TheBridge}
    BY <1>1, <1>6 DEF CallNode, Active, BridgeHandlers, DecodedFrame
  <2>2. nodeHandlerList[n] \in Seq(NodeHandlers)
    BY <2>1 DEF TypeOK
  <2>3. k.pos \in Linked(nodeHandlerList[n]) \cup {ListHead} /\ k.at = "node.loop" /\ k.node = n
    BY <2>2, ListNextLinked DEF NodeLoop
  <2>4. k \in Frames
    BY <2>1, <2>2, <2>3, LinkedType, KindsAreFrames DEF NodeLoop, NodeFrame
  <2>5. stack' \in {Push(k, caller), Replace(caller)}
    BY <1>6 DEF CallNode
  <2> HIDE DEF k, caller
  <2>6. FrameInv(k)
    BY <2>3 DEF FrameInv
  <2>7. CASE stack' = Push(k, caller)
    BY <1>0, <1>3, <2>1, <2>4, <2>6, <2>7, LibraryStep
  <2>8. CASE stack' = Replace(caller)
    BY <1>0, <1>3, <2>1, <2>8, UserWaits, LibraryStep
  <2> QED BY <2>5, <2>7, <2>8
<1>7. CASE DecodedCheck
  <2> DEFINE h == CheckListInLoop(l, f)
  <2>1. Anchored(l, Top)
    BY <1>1, <1>7 DEF DecodedCheck, Active, FrameInv
  <2>2. f \in DecodedFrame /\ Anchored(l, f) /\ f.at = "dec.loop"
    BY <1>1, <2>1 DEF DecodedFrame, Anchored
  <2>3. /\ TempAfterCheck(l, f) \in Linked(l) \cup {ListHead}
        /\ ListNext(l, TempAfterCheck(l, f)) \in Linked(l) \cup {ListHead}
    BY <1>0, <1>2, <2>2, CheckRepairsLoop
  <2>4. h \in DecodedFrame /\ h.at = "dec.loop"
        /\ h.pos = TempAfterCheck(l, f) /\ h.temp = ListNext(l, TempAfterCheck(l, f))
    BY <1>2, <2>2, <2>3 DEF CheckListInLoop, SafeLoopNext, DecodedFrame
  <2>5. stack' = Replace(h)
    BY <1>7 DEF DecodedCheck
  <2> HIDE DEF h, f
  <2>6. FrameInv(h)
    BY <2>3, <2>4 DEF FrameInv, Attached
  <2> QED BY <1>0, <2>4, <2>5, <2>6, KindsAreFrames, UserWaits, LibraryStep
<1>8. CASE DecodedReturn
  BY <1>0, <1>8, UserWaits, LibraryStep DEF DecodedReturn
<1> QED BY <1>4, <1>5, <1>6, <1>7, <1>8

(***************************************************************************)
(* The loop over the handlers of a node goes on at a registered handler.   *)
(***************************************************************************)
LEMMA NodeLoopSafe ==
  ASSUME TypeOK, StackInv, SkipNodeHandler \/ CallNodeHandler \/ NodeNext \/ NodeReturn \/ UserReturn
  PROVE  StackInv'
<1>0. stack \in Seq(Frames) /\ stack # <<>> /\ UNCHANGED lists
  BY DEF TypeOK, SkipNodeHandler, CallNodeHandler, NodeNext, NodeReturn, UserReturn, Active
<1>1. ASSUME Top.at \in {"node.loop", "node.next"} PROVE Top \in NodeFrame /\ FrameInv(Top)
  BY <1>0, <1>1, TopIsFrame, FrameKinds DEF StackInv, Top
<1>2. CASE SkipNodeHandler \/ NodeNext
  <2> DEFINE l == nodeHandlerList[Top.node]
             f == NodeLoopNext(Top)
  <2>1. Top \in NodeFrame /\ Top.pos \in Linked(l) /\ l \in Seq(NodeHandlers)
    BY <1>1, <1>2 DEF SkipNodeHandler, NodeNext, Active, FrameInv, TypeOK, NodeFrame
  <2>2. ListNext(l, Top.pos) \in Linked(l) \cup {ListHead} /\ Linked(l) \subseteq NodeHandlers
    BY <2>1, ListNextLinked, LinkedType
  <2>3. f \in NodeFrame /\ f.at = "node.loop" /\ f.node = Top.node /\ f.pos = ListNext(l, Top.pos)
    BY <2>1, <2>2 DEF NodeLoopNext, NodeFrame
  <2>4. stack' = Replace(f)
    BY <1>2 DEF SkipNodeHandler, NodeNext
  <2> HIDE DEF f
  <2>5. FrameInv(f)
    BY <2>2, <2>3 DEF FrameInv
  <2> QED BY <1>0, <2>3, <2>4, <2>5, KindsAreFrames, UserWaits, LibraryStep
<1>3. CASE CallNodeHandler
  <2> DEFINE l == nodeHandlerList[Top.node]
             g == [Top EXCEPT !.at = "node.next"]
             caller == Note(g, Top.pos)
  <2>1. Top \in NodeFrame /\ Top.pos \in Linked(l) /\ Top.pos \in NodeHandlers
    BY <1>1, <1>3 DEF CallNodeHandler, Active, FrameInv, NodeFrame
  <2>2. g \in NodeFrame /\ g.called = Top.called /\ g.at = "node.next"
        /\ g.node = Top.node /\ g.pos = Top.pos
    BY <2>1 DEF NodeFrame
  <2>3. caller \in NodeFrame /\ caller.at = "node.next"
        /\ caller.node = Top.node /\ caller.pos = Top.pos
    BY <2>1, <2>2 DEF Note, NodeFrame
  <2>4. stack' = Push([at |-> "user"], caller)
    BY <1>3 DEF CallNodeHandler
  <2> HIDE DEF caller
  <2>5. FrameInv(caller) /\ caller.at \in Waiting
    BY <2>1, <2>3 DEF FrameInv, Waiting
  <2> QED BY <1>0, <2>3, <2>4, <2>5, KindsAreFrames, UserWaits, LibraryStep
<1>4. CASE NodeReturn \/ UserReturn
  BY <1>0, <1>4, UserWaits, LibraryStep DEF NodeReturn, UserReturn
<1> QED BY <1>2, <1>3, <1>4

(***************************************************************************)
(* When the application makes a call, every frame waits.                   *)
(***************************************************************************)
LEMMA CallersWait ==
  ASSUME TypeOK, StackInv, NEW name, Calls(name)
  PROVE  /\ \A k \in 1 .. Len(stack) : stack[k].at \in Waiting /\ FrameInv(stack[k])
         /\ stack # <<>> => Top.at \in Waiting
  BY DEF TypeOK, StackInv, Calls, Top, Waiting

(***************************************************************************)
(* A change of the lists is harmless to the loops that wait if their entries*)
(* stay linked, or if one of them does.                                    *)
(***************************************************************************)
LEMMA ListChangeSafe ==
  ASSUME StackInv, stack' \in Seq(Frames), Len(stack') = Len(stack),
         \A k \in 1 .. Len(stack) :
           /\ stack[k].at \in Waiting /\ stack'[k].at = stack[k].at
           /\ stack[k].at = "once.check" => Anchored(externalInterfaceList', stack'[k])
           /\ stack[k].at = "dec.check" => Anchored(bridgeHandlerList', stack'[k])
           /\ stack[k].at = "node.next" => stack'[k].pos \in Linked(nodeHandlerList'[stack'[k].node])
  PROVE  StackInv'
<1>1. \A k \in 1 .. Len(stack') : stack'[k].at \in Waiting
  OBVIOUS
<1>2. SUFFICES ASSUME NEW k \in 1 .. Len(stack') PROVE FrameInv(stack[k])'
  BY <1>1 DEF StackInv, FrameInv
<1> QED BY <1>1 DEF FrameInv, Waiting

(***************************************************************************)
(* An entry that is added to a list leaves every waiting loop something to *)
(* go on from.                                                             *)
(***************************************************************************)
LEMMA AttachSafe ==
  ASSUME TypeOK, StackInv, \A k \in 1 .. Len(stack) : stack[k].at \in Waiting,
         NEW h \in BridgeHandlers, AttachHandler(h),
         UNCHANGED <<externalInterfaceList, nodeHandlerList, stack>>
  PROVE  StackInv'
<1>1. Linked(bridgeHandlerList) \subseteq Linked(bridgeHandlerList') /\ stack \in Seq(Frames)
  BY ListAddLinks DEF AttachHandler, TypeOK
<1>2. \A k \in 1 .. Len(stack) : FrameInv(stack[k])
  BY DEF StackInv
<1> QED BY <1>1, <1>2, ListChangeSafe DEF FrameInv, Anchored

(***************************************************************************)
(* So does a change of the lists with which only history changes in the    *)
(* frames, if what it needs is left to each of them.                       *)
(***************************************************************************)
LEMMA UnsteadySafe ==
  ASSUME TypeOK, StackInv, \A k \in 1 .. Len(stack) : stack[k].at \in Waiting,
         NEW h, stack' = Unsteady(h),
         \A k \in 1 .. Len(stack) :
           /\ stack[k].at = "once.check" => Anchored(externalInterfaceList', stack[k])
           /\ stack[k].at = "dec.check" => Anchored(bridgeHandlerList', stack[k])
           /\ stack[k].at = "node.next" => stack[k].pos \in Linked(nodeHandlerList'[stack[k].node])
  PROVE  StackInv'
<1>0. stack \in Seq(Frames)
  BY DEF TypeOK
<1>1. /\ stack' \in Seq(Frames) /\ Len(stack') = Len(stack)
      /\ \A k \in 1 .. Len(stack) :
           /\ stack'[k].at = stack[k].at
           /\ stack[k].at \in {"once.check", "dec.check"} =>
                stack'[k].pos = stack[k].pos /\ stack'[k].temp = stack[k].temp
           /\ stack[k].at = "node.next" =>
                stack'[k].pos = stack[k].pos /\ stack'[k].node = stack[k].node
  BY <1>0, UnsteadyType
<1>2. \A k \in 1 .. Len(stack) :
        /\ stack[k].at = "once.check" => Anchored(externalInterfaceList', stack'[k])
        /\ stack[k].at = "dec.check" => Anchored(bridgeHandlerList', stack'[k])
        /\ stack[k].at = "node.next" => stack'[k].pos \in Linked(nodeHandlerList'[stack'[k].node])
  BY <1>1 DEF Anchored
<1> QED BY <1>1, <1>2, ListChangeSafe

(***************************************************************************)
(* So does a removal the rule allows.                                      *)
(***************************************************************************)
LEMMA DetachSafe ==
  ASSUME TypeOK, StackInv, "removals" \in Discipline, \A k \in 1 .. Len(stack) : stack[k].at \in Waiting,
         NEW h \in BridgeHandlers, DetachHandler(h),
         UNCHANGED <<externalInterfaceList, nodeHandlerList>>
  PROVE  StackInv'
<1>1. stack' = Unsteady(h)
      /\ \A k \in 1 .. Len(stack) : stack[k].at = "dec.check" => Anchored(bridgeHandlerList', stack[k])
  BY DEF DetachHandler, LoopsAnchored
<1>2. \A k \in 1 .. Len(stack) :
        /\ stack[k].at = "once.check" => Anchored(externalInterfaceList', stack[k])
        /\ stack[k].at = "node.next" => stack[k].pos \in Linked(nodeHandlerList'[stack[k].node])
  BY DEF StackInv, FrameInv
<1> QED BY <1>1, <1>2, UnsteadySafe

(***************************************************************************)
(* The calls that register and deregister keep the loops safe.             *)
(***************************************************************************)
LEMMA RegistrationSafe ==
  ASSUME TypeOK, ListsInv, StackInv, "removals" \in Discipline,
         \/ \E i \in Interfaces : RegisterExternalInterface(i) \/ DeregisterExternalInterface(i)
         \/ \E h \in Handlers : RegisterBridgeHandler(h) \/ DeregisterBridgeHandler(h)
         \/ \E n \in Nodes : NodeRegister(n) \/ NodeDeregister(n)
  PROVE  StackInv'
<1>0. stack \in Seq(Frames) /\ \A k \in 1 .. Len(stack) : stack[k] \in Frames
  BY DEF TypeOK
<1>1. ASSUME NEW name, Calls(name) PROVE \A k \in 1 .. Len(stack) : FrameInv(stack[k])
  BY <1>1, CallersWait
<1>2. ASSUME NEW name, Calls(name) PROVE \A k \in 1 .. Len(stack) : stack[k].at \in Waiting
  BY <1>2, CallersWait
<1>4. ASSUME NEW i \in Interfaces, RegisterExternalInterface(i) PROVE StackInv'
  <2>1. Linked(externalInterfaceList) \subseteq Linked(externalInterfaceList')
    BY <1>4, ListAddLinks DEF RegisterExternalInterface, TypeOK
  <2>2. Calls("register_interface") /\ UNCHANGED <<bridgeHandlerList, nodeHandlerList, stack>>
    BY <1>4 DEF RegisterExternalInterface
  <2>3. \A k \in 1 .. Len(stack) : FrameInv(stack[k])
    BY <1>1, <2>2
  <2> QED BY <1>0, <1>2, <2>1, <2>2, <2>3, ListChangeSafe DEF FrameInv, Anchored
<1>5. ASSUME NEW i \in Interfaces, DeregisterExternalInterface(i) PROVE StackInv'
  <2>1. \A k \in 1 .. Len(stack) : stack[k].at = "once.check" => Anchored(externalInterfaceList', stack[k])
    BY <1>5 DEF DeregisterExternalInterface, LoopsAnchored
  <2>2. Calls("deregister_interface") /\ UNCHANGED <<bridgeHandlerList, nodeHandlerList, stack>>
    BY <1>5 DEF DeregisterExternalInterface
  <2>3. \A k \in 1 .. Len(stack) : FrameInv(stack[k])
    BY <1>1, <2>2
  <2> QED BY <1>0, <1>2, <2>1, <2>2, <2>3, ListChangeSafe DEF FrameInv, Anchored
<1>6. ASSUME NEW h \in Handlers, RegisterBridgeHandler(h) PROVE StackInv'
  BY <1>2, <1>6, AttachSafe DEF RegisterBridgeHandler, BridgeHandlers
<1>7. ASSUME NEW h \in Handlers, DeregisterBridgeHandler(h) PROVE StackInv'
  BY <1>2, <1>7, DetachSafe DEF DeregisterBridgeHandler, BridgeHandlers
<1>8. ASSUME NEW n \in Nodes, NodeRegister(n) PROVE StackInv'
  BY <1>2, <1>8, AttachSafe DEF NodeRegister, BridgeHandlers
<1>9. ASSUME NEW n \in Nodes, NodeDeregister(n) PROVE StackInv'
  BY <1>2, <1>9, DetachSafe DEF NodeDeregister, BridgeHandlers
<1> QED BY <1>4, <1>5, <1>6, <1>7, <1>8, <1>9

(***************************************************************************)
(* The same for the handlers of a node, of which the running one stays.    *)
(***************************************************************************)
LEMMA NodeHandlersSafe ==
  ASSUME TypeOK, ListsInv, StackInv, "removals" \in Discipline,
         NEW n \in Nodes, NEW k \in NodeHandlers, RegisterNodeHandler(n, k) \/ DeregisterNodeHandler(n, k)
  PROVE  StackInv'
<1>0. /\ stack \in Seq(Frames) /\ \A j \in 1 .. Len(stack) : stack[j] \in Frames
      /\ nodeHandlerList \in [Nodes -> Seq(NodeHandlers)]
      /\ IsList(nodeHandlerList[n], NodeHandlers)
  BY DEF TypeOK, ListsInv
<1>1. PICK name : Calls(name)
  BY DEF RegisterNodeHandler, DeregisterNodeHandler
<1>2. UNCHANGED <<externalInterfaceList, bridgeHandlerList>>
  BY DEF RegisterNodeHandler, DeregisterNodeHandler
<1>3. \A j \in 1 .. Len(stack) : FrameInv(stack[j]) /\ stack[j].at \in Waiting
  BY <1>1, CallersWait
<1>4. \A j \in 1 .. Len(stack) : stack[j].at = "node.next" => stack[j].node \in Nodes
  BY <1>0, FrameKinds DEF NodeFrame
<1>5. CASE RegisterNodeHandler(n, k)
  <2>1. Linked(nodeHandlerList[n]) \subseteq Linked(ListAdd(nodeHandlerList[n], k))
    BY <1>0, ListAddLinks
  <2>2. \A m \in Nodes : Linked(nodeHandlerList[m]) \subseteq Linked(nodeHandlerList'[m])
    BY <1>0, <1>5, <2>1 DEF RegisterNodeHandler
  <2>3. UNCHANGED stack
    BY <1>5 DEF RegisterNodeHandler
  <2> QED BY <1>0, <1>1, <1>2, <1>3, <1>4, <2>2, <2>3, ListChangeSafe DEF FrameInv
<1>6. CASE DeregisterNodeHandler(n, k)
  <2>1. Linked(ListDelInit(nodeHandlerList[n], k)) = Linked(nodeHandlerList[n]) \ {k}
    BY <1>0, ListDelInitUnlinks
  <2>2. \A m \in Nodes : Linked(nodeHandlerList[m]) \ {k} \subseteq Linked(nodeHandlerList'[m])
    BY <1>0, <1>6, <2>1 DEF DeregisterNodeHandler
  <2>3. \A j \in 1 .. Len(stack) : stack[j].at = "node.next" => stack[j].pos # k
    BY <1>6 DEF DeregisterNodeHandler
  <2>4. \A j \in 1 .. Len(stack) :
          /\ stack[j].at = "once.check" => Anchored(externalInterfaceList', stack[j])
          /\ stack[j].at = "dec.check" => Anchored(bridgeHandlerList', stack[j])
          /\ stack[j].at = "node.next" => stack[j].pos \in Linked(nodeHandlerList'[stack[j].node])
    BY <1>2, <1>3, <1>4, <2>2, <2>3 DEF FrameInv
  <2>5. stack' = Unsteady(k)
    BY <1>6 DEF DeregisterNodeHandler
  <2> QED BY <1>3, <2>4, <2>5, UnsteadySafe
<1> QED BY <1>5, <1>6

(***************************************************************************)
(* The other calls leave the lists alone, or start a new loop.             *)
(***************************************************************************)
LEMMA SettingSafe ==
  ASSUME TypeOK, StackInv,
         \/ \E n \in Nodes, id \in NodeIds : NodeSetOwnSenderId(n, id)
         \/ \E n \in Nodes, id \in DeviceIds : NodeSend(n, id)
         \/ \E msg \in Messages : SendRaw(msg)
         \/ \E i \in Interfaces : \E id : SetRoutingForDeviceId(i, id)
         \/ \E forward \in BOOLEAN : BridgeSetFlags(forward)
         \/ \E i \in Interfaces, mirror \in BOOLEAN : ExternalInterfaceSetFlags(i, mirror)
         \/ \E h \in Handlers \cup NodeHandlers, silent \in BOOLEAN : HandlerSetFlags(h, silent)
  PROVE  StackInv'
<1>0. stack \in Seq(Frames)
  BY DEF TypeOK
<1>1. ASSUME UNCHANGED <<lists, stack>> PROVE StackInv'
  BY <1>1 DEF StackInv, FrameInv, Registered, Attached, lists, Anchored
<1>2. ASSUME NEW msg \in Messages, NEW name, Calls(name), UNCHANGED lists,
             stack' = Call(Decoded(routingTable, msg, TheBridge))
      PROVE  StackInv'
  <2>1. /\ Decoded(routingTable, msg, TheBridge) \in Frames
        /\ FrameInv(Decoded(routingTable, msg, TheBridge))
    BY DecodedSafe DEF TypeOK
  <2> QED BY <1>2, <2>1, CallersWait, UserWaits, LibraryStep
<1>3. ASSUME NEW n \in Nodes, NEW id \in DeviceIds, NodeSend(n, id) PROVE StackInv'
  <2>1. [sender |-> ownId[n], receiver |-> id] \in Messages
    BY DEF TypeOK, Messages
  <2> QED BY <1>2, <1>3, <2>1 DEF NodeSend
<1>4. ASSUME NEW msg \in Messages, SendRaw(msg) PROVE StackInv'
  BY <1>2, <1>4 DEF SendRaw
<1>5. ASSUME NEW h, NEW silent, HandlerSetFlags(h, silent) PROVE StackInv'
  <2>1. UNCHANGED lists /\ stack' = Unsteady(h) /\ Calls("set_handler_flags")
    BY <1>5 DEF HandlerSetFlags
  <2>2. \A k \in 1 .. Len(stack) : FrameInv(stack[k]) /\ stack[k].at \in Waiting
    BY <2>1, CallersWait
  <2> QED BY <2>1, <2>2, UnsteadySafe DEF FrameInv, lists
<1> QED BY <1>1, <1>3, <1>4, <1>5
    DEF NodeSetOwnSenderId, SetRoutingForDeviceId, BridgeSetFlags, ExternalInterfaceSetFlags

(***************************************************************************)
(* Every step keeps the loops safe.                                        *)
(***************************************************************************)
LEMMA StackStep ==
  ASSUME TypeOK, ListsInv, StackInv, "removals" \in Discipline, [AnyStep]_vars
  PROVE  StackInv'
<1>1. ASSUME Run PROVE StackInv'
  BY <1>1, OnceSafe, ExternalSafe, HandlerLoopSafe, NodeLoopSafe DEF Run
<1>2. ASSUME Application PROVE StackInv'
  BY <1>2, PacketsAreMessages, RegistrationSafe, NodeHandlersSafe, SettingSafe DEF Application
<1>3. ASSUME UNCHANGED vars PROVE StackInv'
  BY <1>3 DEF vars, StackInv, FrameInv, Registered, Attached, lists, Anchored
<1>4. ASSUME SendsOrRoutes PROVE StackInv'
  BY <1>4, SettingSafe DEF SendsOrRoutes
<1> QED BY <1>1, <1>2, <1>3, <1>4, OnceSafe DEF AnyStep, Next

(***************************************************************************)
(* In every state of a bridge whose handlers keep the rule of removals, each*)
(* nested loop is safe.                                                    *)
(***************************************************************************)
THEOREM LoopsSafe == "removals" \in Discipline => (Spec => []StackInv)
<1> SUFFICES ASSUME "removals" \in Discipline PROVE Spec => []StackInv
  OBVIOUS
<1>1. Init => StackInv
  BY DEF Init, StackInv
<1>2. TypeOK /\ ListsInv /\ StackInv /\ [Next]_vars => StackInv'
  BY StackStep, NextIsAStep
<1> QED BY <1>1, <1>2, TypeCorrect, PTL DEF Spec

(***************************************************************************)
(* No use after removal: with any number of interfaces, handlers and nested*)
(* calls, the bridge reads only from registered interfaces and calls only  *)
(* registered handlers, although its handlers remove entries from the lists*)
(* it is looping over.                                                     *)
(***************************************************************************)
THEOREM RemovalsAreSafe == "removals" \in Discipline => (Spec => []NoUseAfterRemoval)
<1> SUFFICES ASSUME "removals" \in Discipline PROVE Spec => []NoUseAfterRemoval
  OBVIOUS
<1>1. TypeOK /\ StackInv => NoUseAfterRemoval
  <2> SUFFICES ASSUME TypeOK, StackInv, stack # <<>> PROVE NoUseAfterRemoval
    BY DEF NoUseAfterRemoval, Active
  <2>1. FrameInv(Top)
    BY DEF TypeOK, StackInv, Top
  <2> QED BY <2>1 DEF FrameInv, NoUseAfterRemoval, Active
<1> QED BY <1>1, TypeCorrect, LoopsSafe, PTL

-----------------------------------------------------------------------------
(***************************************************************************)
(* A step that touches neither the table nor the interfaces keeps the routes.*)
(***************************************************************************)
LEMMA RoutesUnchanged ==
  ASSUME RoutesAreLive, UNCHANGED <<routingTable, externalInterfaceList>>
  PROVE  RoutesAreLive'
  BY DEF RoutesAreLive, Registered

(***************************************************************************)
(* Every step keeps the routes live: an interface is learned only while it *)
(* is registered, and forgotten when it is removed.                        *)
(***************************************************************************)
LEMMA RoutesStep ==
  ASSUME TypeOK, ListsInv, StackInv, RoutesAreLive, [AnyStep]_vars
  PROVE  RoutesAreLive'
<1>0. ASSUME NEW table, NEW id, NEW d, d \in Interfaces => d \in Registered,
             \A j \in TableIds : table[j] \in Interfaces => table[j] \in Registered
      PROVE  \A j \in TableIds : RoutingTableUpdate(table, id, d)[j] \in Interfaces =>
                                   RoutingTableUpdate(table, id, d)[j] \in Registered
  BY <1>0 DEF RoutingTableUpdate
<1>1. ASSUME NEW again \in BOOLEAN, Process(again) PROVE RoutesAreLive'
  BY <1>1, RoutesUnchanged DEF Process, lists
<1>2. ASSUME Run, ~HandlePacket PROVE RoutesAreLive'
  <2>1. UNCHANGED <<lists, routingTable>>
    BY <1>2 DEF Run, ReadNothing, ReadBytes, OnceCheck, OnceReturn, ExternalAfter,
      ExternalReturn, SkipHandler, CallHandler, CallNode, DecodedCheck, DecodedReturn,
      SkipNodeHandler, CallNodeHandler, NodeNext, NodeReturn, UserReturn
  <2> QED BY <2>1, RoutesUnchanged DEF lists
<1>3. ASSUME HandlePacket PROVE RoutesAreLive'
  <2>1. FrameInv(Top) /\ Top.at = "ext.parse"
    BY <1>3, TopIsFrame DEF HandlePacket, Active, StackInv, TypeOK, Top
  <2>2. Top.interface \in Registered
    BY <2>1 DEF FrameInv
  <2>3. UNCHANGED externalInterfaceList /\ routingTable' = Learned(Top.interface, Head(Top.chunk))
    BY <1>3 DEF HandlePacket, lists
  <2> QED BY <1>0, <2>2, <2>3 DEF RoutesAreLive, Registered, Learned
<1>4. ASSUME NEW i \in Interfaces, RegisterExternalInterface(i) PROVE RoutesAreLive'
  <2>1. Registered \subseteq Registered'
    BY <1>4, ListAddLinks DEF RegisterExternalInterface, TypeOK, Registered
  <2> QED BY <1>4, <2>1 DEF RegisterExternalInterface, RoutesAreLive
<1>5. ASSUME NEW i \in Interfaces, DeregisterExternalInterface(i) PROVE RoutesAreLive'
  <2>1. Registered' = Registered \ {i}
    BY <1>5, ListDelInitUnlinks DEF DeregisterExternalInterface, ListsInv, Registered
  <2>2. \A id \in TableIds :
          routingTable'[id] = IF routingTable[id] = i THEN AllInterfaces ELSE routingTable[id]
    BY <1>5 DEF DeregisterExternalInterface, RoutingTableInvalidateInterface
  <2> QED BY <2>1, <2>2, BridgeAssumption DEF RoutesAreLive
<1>6. ASSUME NEW n \in Nodes, NEW id,
             NodeRegister(n) \/ NodeDeregister(n) \/ NodeSetOwnSenderId(n, id)
      PROVE  RoutesAreLive'
  <2>1. UNCHANGED externalInterfaceList
    BY <1>6 DEF NodeRegister, NodeDeregister, NodeSetOwnSenderId, lists
  <2>2. TheBridge \notin Interfaces /\ AllInterfaces \notin Interfaces
    BY BridgeAssumption
  <2>3. \A j \in TableIds : routingTable'[j] \in {routingTable[j], TheBridge, AllInterfaces}
    BY <1>6 DEF NodeRegister, NodeDeregister, NodeSetOwnSenderId, MarkInternal, ClearInternal, RoutingTableUpdate
  <2> QED BY <2>1, <2>2, <2>3 DEF RoutesAreLive, Registered
<1>7. ASSUME NEW i \in Interfaces, NEW id, SetRoutingForDeviceId(i, id) PROVE RoutesAreLive'
  BY <1>0, <1>7 DEF SetRoutingForDeviceId, RoutesAreLive, Registered, lists
<1>8. ASSUME NEW x, NEW y,
             \/ RegisterBridgeHandler(x) \/ DeregisterBridgeHandler(x) \/ NodeSend(x, y) \/ SendRaw(x)
             \/ BridgeSetFlags(x) \/ ExternalInterfaceSetFlags(x, y) \/ HandlerSetFlags(x, y)
             \/ RegisterNodeHandler(x, y) \/ DeregisterNodeHandler(x, y)
      PROVE  RoutesAreLive'
  BY <1>8, RoutesUnchanged
     DEF RegisterBridgeHandler, DeregisterBridgeHandler, NodeSend, SendRaw, BridgeSetFlags,
       ExternalInterfaceSetFlags, HandlerSetFlags, RegisterNodeHandler, DeregisterNodeHandler, lists
<1>9. ASSUME UNCHANGED vars PROVE RoutesAreLive'
  BY <1>9, RoutesUnchanged DEF vars, lists
<1> QED BY <1>1, <1>2, <1>3, <1>4, <1>5, <1>6, <1>7, <1>8, <1>9
     DEF AnyStep, SendsOrRoutes, Next, Application

(***************************************************************************)
(* No dangling route: whatever the handlers remove while messages are being*)
(* handled, the routing table names only registered interfaces.  It rests on*)
(* the rule of removals: without it the bridge reads from a removed interface*)
(* and learns it again.                                                    *)
(***************************************************************************)
THEOREM RoutesStayLive == "removals" \in Discipline => (Spec => []RoutesAreLive)
<1> SUFFICES ASSUME "removals" \in Discipline PROVE Spec => []RoutesAreLive
  OBVIOUS
<1>1. Init => RoutesAreLive
  <2> SUFFICES ASSUME Init, NEW id \in TableIds PROVE routingTable[id] \in {TheBridge, AllInterfaces}
    BY BridgeAssumption DEF RoutesAreLive
  <2> QED BY DEF Init, RoutingTableInit
<1>2. TypeOK /\ ListsInv /\ StackInv /\ RoutesAreLive /\ [Next]_vars => RoutesAreLive'
  BY RoutesStep, NextIsAStep
<1> QED BY <1>1, <1>2, TypeCorrect, LoopsSafe, PTL DEF Spec

-----------------------------------------------------------------------------
(***************************************************************************)
(* The ids of the registered nodes and their marks in the table do not change*)
(* unless the table, the nodes or their ids do.                            *)
(***************************************************************************)
LEMMA IdsUnchanged ==
  ASSUME InternalIdsMarked, OwnIdsDistinct, UNCHANGED ownId,
         Nodes \cap Attached' = Nodes \cap Attached,
         \A id \in TableIds : routingTable'[id] = TheBridge <=> routingTable[id] = TheBridge
  PROVE  InternalIdsMarked' /\ OwnIdsDistinct'
  BY DEF InternalIdsMarked, OwnIdsDistinct, OwnIds, Attached

(***************************************************************************)
(* Every step keeps exactly the ids of the registered nodes marked.        *)
(***************************************************************************)
LEMMA IdsStep ==
  ASSUME TypeOK, ListsInv, InternalIdsMarked, OwnIdsDistinct, "ids" \in Discipline, [Next]_vars
  PROVE  InternalIdsMarked' /\ OwnIdsDistinct'
<1> DEFINE Kept == InternalIdsMarked' /\ OwnIdsDistinct'
<1>0. TheBridge # AllInterfaces /\ TheBridge \notin Interfaces /\ Handlers \cap Nodes = {}
  BY BridgeAssumption
<1>1. ASSUME UNCHANGED <<bridgeHandlerList, routingTable, ownId>> PROVE Kept
  BY <1>1, IdsUnchanged DEF Attached
<1>2. ASSUME NEW again \in BOOLEAN, Process(again) PROVE Kept
  BY <1>1, <1>2 DEF Process, lists, config
<1>3. ASSUME Run, ~HandlePacket PROVE Kept
  <2>1. UNCHANGED <<lists, routingTable, config>>
    BY <1>3 DEF Run, ReadNothing, ReadBytes, OnceCheck, OnceReturn, ExternalAfter,
      ExternalReturn, SkipHandler, CallHandler, CallNode, DecodedCheck, DecodedReturn,
      SkipNodeHandler, CallNodeHandler, NodeNext, NodeReturn, UserReturn
  <2> QED BY <1>1, <2>1 DEF lists, config
<1>4. ASSUME HandlePacket PROVE Kept
  <2>1. Top.interface \in Interfaces
    BY <1>4, TopIsFrame, FrameKinds DEF HandlePacket, Active, TypeOK, ExternalFrame
  <2>2. \A id \in TableIds : routingTable'[id] = TheBridge <=> routingTable[id] = TheBridge
    BY <1>0, <1>4, <2>1 DEF HandlePacket, Learned, RoutingTableUpdate, RoutingGetDestination
  <2>3. UNCHANGED <<bridgeHandlerList, ownId>>
    BY <1>4 DEF HandlePacket, lists, config
  <2> QED BY <2>2, <2>3, IdsUnchanged DEF Attached
<1>5. ASSUME NEW i \in Interfaces, DeregisterExternalInterface(i) PROVE Kept
  <2>1. \A id \in TableIds : routingTable'[id] = TheBridge <=> routingTable[id] = TheBridge
    BY <1>0, <1>5 DEF DeregisterExternalInterface, RoutingTableInvalidateInterface
  <2> QED BY <1>5, <2>1, IdsUnchanged DEF DeregisterExternalInterface, Attached, config
<1>6. ASSUME NEW h \in BridgeHandlers, AttachHandler(h) PROVE Attached' = Attached \cup {h}
  BY <1>6, ListAddLinks DEF AttachHandler, TypeOK, Attached
<1>7. ASSUME NEW h \in BridgeHandlers, DetachHandler(h) PROVE Attached' = Attached \ {h}
  BY <1>7, ListDelInitUnlinks DEF DetachHandler, ListsInv, Attached
<1>8. ASSUME NEW h \in Handlers, RegisterBridgeHandler(h) \/ DeregisterBridgeHandler(h) PROVE Kept
  <2>1. Nodes \cap Attached' = Nodes \cap Attached
    BY <1>0, <1>6, <1>7, <1>8 DEF RegisterBridgeHandler, DeregisterBridgeHandler, BridgeHandlers
  <2> QED BY <1>8, <2>1, IdsUnchanged DEF RegisterBridgeHandler, DeregisterBridgeHandler, config
<1>9. ASSUME NEW n \in Nodes, NodeRegister(n) PROVE Kept
  <2>1. Attached' = Attached \cup {n} /\ UNCHANGED ownId
    BY <1>6, <1>9 DEF NodeRegister, BridgeHandlers, config
  <2>2. \A m \in (Nodes \cap Attached) \ {n} : ownId[m] # ownId[n]
    BY <1>9 DEF NodeRegister, FreeId
  <2>3. OwnIdsDistinct'
    BY <2>1, <2>2 DEF OwnIdsDistinct
  <2>4. OwnIds(bridgeHandlerList)' = OwnIds(bridgeHandlerList) \cup {ownId[n]}
    BY <2>1 DEF OwnIds, Attached
  <2>5. \A id \in TableIds : routingTable'[id] = IF id = ownId[n] THEN TheBridge ELSE routingTable[id]
    BY <1>9 DEF NodeRegister, MarkInternal, RoutingTableUpdate
  <2> QED BY <2>3, <2>4, <2>5 DEF InternalIdsMarked
<1>10. ASSUME NEW n \in Nodes, NodeDeregister(n) PROVE Kept
  <2>1. Attached' = Attached \ {n} /\ UNCHANGED ownId /\ n \in Attached
    BY <1>7, <1>10 DEF NodeDeregister, BridgeHandlers, config
  <2>2. OwnIdsDistinct'
    BY <2>1 DEF OwnIdsDistinct
  <2>3. OwnIds(bridgeHandlerList)' = OwnIds(bridgeHandlerList) \ {ownId[n]}
    BY <2>1 DEF OwnIds, OwnIdsDistinct, Attached
  <2>4. \A id \in TableIds : routingTable'[id] = IF id = ownId[n] THEN AllInterfaces ELSE routingTable[id]
    BY <1>10 DEF NodeDeregister, ClearInternal, RoutingTableUpdate
  <2> QED BY <1>0, <2>2, <2>3, <2>4 DEF InternalIdsMarked
<1>11. ASSUME NEW n \in Nodes, NEW id \in NodeIds, NodeSetOwnSenderId(n, id) PROVE Kept
  <2>1. UNCHANGED Attached /\ n \in Attached /\ ownId \in [Nodes -> DeviceIds]
        /\ ownId' = [ownId EXCEPT ![n] = id]
    BY <1>11 DEF NodeSetOwnSenderId, lists, Attached, TypeOK
  <2>2. \A m \in (Nodes \cap Attached) \ {n} : ownId[m] # id
    BY <1>11 DEF NodeSetOwnSenderId, FreeId
  <2>3. \A m \in Nodes : ownId'[m] = IF m = n THEN id ELSE ownId[m]
    BY <2>1
  <2>4. OwnIdsDistinct'
    BY <2>1, <2>2, <2>3 DEF OwnIdsDistinct
  <2>5. OwnIds(bridgeHandlerList)' = (OwnIds(bridgeHandlerList) \ {ownId[n]}) \cup {id}
    BY <2>1, <2>3 DEF OwnIds, OwnIdsDistinct, Attached
  <2>6. \A j \in TableIds :
          routingTable'[j] = IF j = id THEN TheBridge
                             ELSE IF j = ownId[n] THEN AllInterfaces ELSE routingTable[j]
    BY <1>11 DEF NodeSetOwnSenderId, MarkInternal, ClearInternal, RoutingTableUpdate
  <2> QED BY <1>0, <2>4, <2>5, <2>6 DEF InternalIdsMarked
<1>12. ASSUME NEW i \in Interfaces, NEW id, SetRoutingForDeviceId(i, id) PROVE Kept
  <2>1. id \notin OwnIds(bridgeHandlerList)
    BY <1>12 DEF SetRoutingForDeviceId
  <2>2. \A j \in TableIds : routingTable'[j] = TheBridge <=> routingTable[j] = TheBridge
    BY <1>0, <1>12, <2>1 DEF SetRoutingForDeviceId, RoutingTableUpdate, InternalIdsMarked
  <2> QED BY <1>12, <2>2, IdsUnchanged DEF SetRoutingForDeviceId, lists, config, Attached
<1>13. ASSUME NEW x, NEW y,
              \/ RegisterExternalInterface(x) \/ NodeSend(x, y) \/ SendRaw(x)
              \/ BridgeSetFlags(x) \/ ExternalInterfaceSetFlags(x, y) \/ HandlerSetFlags(x, y)
              \/ RegisterNodeHandler(x, y) \/ DeregisterNodeHandler(x, y)
       PROVE  Kept
  BY <1>1, <1>13
     DEF RegisterExternalInterface, NodeSend, SendRaw, BridgeSetFlags, ExternalInterfaceSetFlags,
       HandlerSetFlags, RegisterNodeHandler, DeregisterNodeHandler, lists, config
<1>14. ASSUME UNCHANGED vars PROVE Kept
  BY <1>1, <1>14 DEF vars, lists, config
<1> HIDE DEF Kept
<1>15. Kept
  BY <1>2, <1>3, <1>4, <1>5, <1>8, <1>9, <1>10, <1>11, <1>12, <1>13, <1>14 DEF Next, Application
<1> QED BY <1>15 DEF Kept

(***************************************************************************)
(* Nobody outside takes over the id of a node, and no id stays marked when *)
(* its node is gone: whatever is received, registered or renamed, the table*)
(* marks exactly the ids of the registered nodes, if no two of them ever   *)
(* share one.                                                              *)
(***************************************************************************)
THEOREM InternalIdsStayMarked == "ids" \in Discipline => (Spec => []InternalIdsMarked)
<1> SUFFICES ASSUME "ids" \in Discipline PROVE Spec => []InternalIdsMarked
  OBVIOUS
<1>1. Init => InternalIdsMarked /\ OwnIdsDistinct
  <2> SUFFICES ASSUME Init PROVE InternalIdsMarked /\ OwnIdsDistinct
    OBVIOUS
  <2>1. OwnIdsDistinct
    BY BridgeAssumption DEF Init, OwnIdsDistinct, Attached
  <2>2. \A id \in TableIds : routingTable[id] =
          IF \E n \in Nodes \cap Linked(InitialHandlers) : InitialOwnId[n] = id
          THEN TheBridge ELSE AllInterfaces
    BY DEF Init, RoutingTableInit
  <2>3. InternalIdsMarked
    BY <2>2, BridgeAssumption DEF Init, InternalIdsMarked, OwnIds
  <2> QED BY <2>1, <2>3
<1>2. TypeOK /\ ListsInv /\ InternalIdsMarked /\ OwnIdsDistinct /\ [Next]_vars
      => (InternalIdsMarked /\ OwnIdsDistinct)'
  BY IdsStep
<1> QED BY <1>1, <1>2, TypeCorrect, PTL DEF Spec

-----------------------------------------------------------------------------
(***************************************************************************)
(* Who gets a message: no interface gets it twice, broadcasts reach all,   *)
(* replies reach the origin, and no handler that stays registered is       *)
(* skipped.                                                                *)
(***************************************************************************)

(***************************************************************************)
(* Every frame after a step of the library is one of the new frames, or was*)
(* there before.                                                           *)
(***************************************************************************)
LEMMA FramesAfter ==
  ASSUME stack \in Seq(Frames), NEW f \in Frames, NEW g \in Frames,
         \/ stack # <<>> /\ stack' \in {Tail(stack), Replace(f), Push(f, g)}
         \/ stack' = Call(f),
         NEW k \in 1 .. Len(stack')
  PROVE  stack'[k] \in {f, g} \/ \E j \in 1 .. Len(stack) : stack'[k] = stack[j]
<1>1. Len(stack) \in Nat /\ (stack # <<>> => Len(stack) > 0)
  OBVIOUS
<1>2. stack # <<>> =>
        /\ Tail(stack) \in Seq(Frames) /\ Len(Tail(stack)) = Len(stack) - 1
        /\ \A j \in 1 .. Len(stack) - 1 : Tail(stack)[j] = stack[j + 1]
  OBVIOUS
<1>3. CASE stack # <<>> /\ stack' = Tail(stack)
  <2>1. k + 1 \in 1 .. Len(stack) /\ stack'[k] = stack[k + 1]
    BY <1>1, <1>3
  <2> QED BY <2>1
<1>4. CASE stack # <<>> /\ stack' = Replace(f)
  <2>1. Len(Replace(f)) = Len(stack) /\ Replace(f)[1] = f /\ \A j \in 2 .. Len(stack) : Replace(f)[j] = stack[j]
    BY <1>2, <1>4 DEF Replace
  <2> QED BY <1>1, <1>4, <2>1
<1>5. CASE stack # <<>> /\ stack' = Push(f, g)
  <2>1. /\ Len(Push(f, g)) = Len(stack) + 1 /\ Push(f, g)[1] = f /\ Push(f, g)[2] = g
        /\ \A j \in 3 .. Len(stack) + 1 : Push(f, g)[j] = stack[j - 1]
    BY <1>2, <1>5 DEF Push
  <2>2. CASE k \in 3 .. Len(stack) + 1
    <3>1. k - 1 \in 1 .. Len(stack) /\ stack'[k] = stack[k - 1]
      BY <1>1, <1>5, <2>1, <2>2
    <3> QED BY <3>1
  <2>3. CASE k \in {1, 2}
    BY <1>5, <2>1, <2>3
  <2> QED BY <1>1, <1>5, <2>1, <2>2, <2>3
<1>6. CASE stack' = Call(f)
  <2>1. /\ Len(Call(f)) = Len(stack) + 1 /\ Call(f)[1] = f
        /\ \A j \in 2 .. Len(stack) + 1 : Call(f)[j] = stack[j - 1]
    BY StackOps
  <2>2. CASE k \in 2 .. Len(stack) + 1
    <3>1. k - 1 \in 1 .. Len(stack) /\ stack'[k] = stack[k - 1]
      BY <1>1, <1>6, <2>1, <2>2
    <3> QED BY <3>1
  <2> QED BY <1>1, <1>6, <2>1, <2>2
<1> QED BY <1>3, <1>4, <1>5, <1>6

(***************************************************************************)
(* A frame of the loop over the bridge handlers, and one that handles the  *)
(* message of a frame on the stack.                                        *)
(***************************************************************************)
Handles(f) == f.at \in {"dec.loop", "dec.check"}

SameMessage(f, g) ==
  /\ f.msg = g.msg /\ f.origin = g.origin
  /\ f.mirrored = g.mirrored /\ f.routed = g.routed

Continues(f) == \E j \in 1 .. Len(stack) : Handles(stack[j]) /\ SameMessage(f, stack[j])

(***************************************************************************)
(* The steps of the library keep the message of each frame; only one of    *)
(* them starts to handle another.                                          *)
(***************************************************************************)
LEMMA LibraryContinues ==
  ASSUME TypeOK, Run \/ \E again \in BOOLEAN : Process(again), ~HandlePacket,
         NEW k \in 1 .. Len(stack'), Handles(stack'[k])
  PROVE  Continues(stack'[k])
<1> DEFINE u == [at |-> "user"]
<1>0. stack \in Seq(Frames) /\ u \in Frames /\ ~Handles(u)
  BY KindsAreFrames DEF TypeOK, Handles
<1>1. ASSUME NEW f \in Frames, NEW g \in Frames,
             \/ stack # <<>> /\ stack' \in {Tail(stack), Replace(f), Push(f, g)}
             \/ stack' = Call(f),
             Handles(f) => Continues(f), Handles(g) => Continues(g)
      PROVE  Continues(stack'[k])
  <2>1. CASE stack'[k] \in {f, g}
    BY <1>1, <2>1
  <2>2. CASE \E j \in 1 .. Len(stack) : stack'[k] = stack[j]
    BY <2>2 DEF Continues, SameMessage
  <2> QED BY <1>0, <1>1, <2>1, <2>2, FramesAfter
<1>2. ASSUME stack # <<>>, Handles(Top), NEW f, SameMessage(f, Top) PROVE Continues(f)
  BY <1>0, <1>2 DEF Continues, Top
<1> HIDE DEF u
<1>3. \A again \in BOOLEAN : OnceLoop(again) \in Frames /\ ~Handles(OnceLoop(again))
  BY OnceLoopType, KindsAreFrames DEF OnceLoop, Handles
<1>4. ASSUME NEW again \in BOOLEAN, Process(again) PROVE Continues(stack'[k])
  <2>1. stack' = Call(OnceLoop(again))
    BY <1>4 DEF Process, Call
  <2> QED BY <1>0, <1>1, <1>3, <2>1
<1>5. CASE ReadNothing \/ OnceCheck
  <2>1. stack # <<>> /\ Top \in OnceFrame
    BY <1>0, <1>5, TopIsFrame, FrameKinds DEF ReadNothing, OnceCheck, Active
  <2>2. PICK f \in OnceFrame : stack' = Replace(f) /\ ~Handles(f)
    <3>1. CASE ReadNothing
      <4>1. [Top EXCEPT !.at = "once.check"] \in OnceFrame /\ [Top EXCEPT !.at = "once.check"].at = "once.check"
        BY <2>1 DEF OnceFrame
      <4> QED BY <3>1, <4>1 DEF ReadNothing, Handles
    <3>2. CASE OnceCheck
      <4> DEFINE h == [Top EXCEPT !.at = "once.read"]
      <4>1. h \in OnceFrame /\ h.at = "once.read"
        BY <2>1 DEF OnceFrame
      <4>2. \A e \in Interfaces \cup {ListHead} : ListNext(externalInterfaceList, e) \in Interfaces \cup {ListHead}
        BY SafeLoopType DEF TypeOK
      <4> HIDE DEF h
      <4>3. CheckListInLoop(externalInterfaceList, h) \in OnceFrame
            /\ CheckListInLoop(externalInterfaceList, h).at = "once.read"
        BY <4>1, <4>2 DEF OnceFrame, CheckListInLoop, TempAfterCheck, SafeLoopNext
      <4> QED BY <3>2, <4>3 DEF OnceCheck, Handles, h
    <3> QED BY <1>5, <3>1, <3>2
  <2> QED BY <1>0, <1>1, <2>1, <2>2, KindsAreFrames
<1>6. ASSUME NEW chunk \in Chunks, ReadBytes(chunk) PROVE Continues(stack'[k])
  <2> DEFINE f == [at |-> "ext.parse", interface |-> Top.pos, chunk |-> chunk]
             g == [Top EXCEPT !.at = "once.check", !.got = TRUE]
  <2>1. stack # <<>> /\ Top \in OnceFrame /\ Top.pos # ListHead
    BY <1>0, <1>6, TopIsFrame, FrameKinds DEF ReadBytes, Active
  <2>2. chunk \in Seq(Packets) /\ Top.pos \in Interfaces
    BY <2>1 DEF Chunks, OnceFrame
  <2>3. f \in ExternalFrame /\ f.at = "ext.parse"
    BY <2>2 DEF ExternalFrame
  <2>4. g \in OnceFrame /\ g.at = "once.check"
    BY <2>1 DEF OnceFrame
  <2>5. stack' = Push(f, g)
    BY <1>6 DEF ReadBytes
  <2> HIDE DEF f, g
  <2> QED BY <1>1, <2>1, <2>3, <2>4, <2>5, KindsAreFrames DEF Handles
<1>7. CASE OnceReturn
  <2>1. stack # <<>> /\ stack' \in {Tail(stack), Replace(OnceLoop(TRUE))}
    BY <1>7 DEF OnceReturn, Active
  <2> QED BY <1>0, <1>1, <1>3, <2>1
<1>8. CASE ExternalAfter \/ ExternalReturn
  <2> DEFINE f == [Top EXCEPT !.at = "ext.parse"]
  <2>1. stack # <<>> /\ Top \in ExternalFrame
    BY <1>0, <1>8, TopIsFrame, FrameKinds DEF ExternalAfter, ExternalReturn, Active
  <2>2. f \in ExternalFrame /\ f.at = "ext.parse"
    BY <2>1 DEF ExternalFrame
  <2>3. stack' \in {Tail(stack), Replace(f)}
    BY <1>8 DEF ExternalAfter, ExternalReturn
  <2> HIDE DEF f
  <2> QED BY <1>0, <1>1, <2>1, <2>2, <2>3, KindsAreFrames DEF Handles
<1>9. CASE SkipHandler \/ CallHandler \/ CallNode \/ DecodedCheck \/ DecodedReturn
  <2> DEFINE l == bridgeHandlerList
             g == [Top EXCEPT !.at = "dec.check"]
             caller == Note(g, Top.pos)
  <2>1. stack # <<>> /\ Top \in DecodedFrame /\ Handles(Top)
    BY <1>0, <1>9, TopIsFrame, FrameKinds
       DEF SkipHandler, CallHandler, CallNode, DecodedCheck, DecodedReturn, Active, Handles
  <2>2. \A e \in BridgeHandlers \cup {ListHead} : ListNext(l, e) \in BridgeHandlers \cup {ListHead}
    BY SafeLoopType DEF TypeOK
  <2>3. ASSUME Top.pos \in BridgeHandlers PROVE caller \in DecodedFrame /\ SameMessage(caller, Top)
    <3>1. g \in DecodedFrame /\ g.called = Top.called /\ SameMessage(g, Top)
      BY <2>1 DEF DecodedFrame, SameMessage
    <3> QED BY <2>3, <3>1 DEF Note, DecodedFrame, SameMessage
  <2>4. CASE SkipHandler
    <3> DEFINE f == SafeLoopNext(l, Top)
    <3>1. f \in DecodedFrame /\ SameMessage(f, Top)
      BY <2>1, <2>2 DEF SafeLoopNext, DecodedFrame, SameMessage
    <3>2. stack' = Replace(f)
      BY <2>4 DEF SkipHandler
    <3> HIDE DEF f
    <3> QED BY <1>0, <1>1, <1>2, <2>1, <3>1, <3>2, KindsAreFrames
  <2>5. CASE CallHandler
    <3>1. Top.pos \in BridgeHandlers /\ stack' = Push(u, caller)
      BY <2>5 DEF CallHandler, BridgeHandlers, u
    <3> HIDE DEF caller
    <3> QED BY <1>0, <1>1, <1>2, <2>1, <2>3, <3>1, KindsAreFrames
  <2>6. CASE CallNode
    <3> DEFINE n == Top.pos
               f == NodeLoop(n, Top.origin)
    <3>1. n \in Nodes /\ n \in BridgeHandlers /\ Top.origin \in Interfaces \cup {TheBridge}
      BY <2>1, <2>6 DEF CallNode, BridgeHandlers, DecodedFrame
    <3>2. nodeHandlerList[n] \in Seq(NodeHandlers)
      BY <3>1 DEF TypeOK
    <3>3. f \in Frames /\ ~Handles(f)
      BY <3>1, <3>2, ListNextLinked, LinkedType, KindsAreFrames DEF NodeLoop, NodeFrame, Handles
    <3>4. stack' \in {Push(f, caller), Replace(caller)}
      BY <2>6 DEF CallNode
    <3> HIDE DEF f, caller
    <3> QED BY <1>0, <1>1, <1>2, <2>1, <2>3, <3>1, <3>3, <3>4, KindsAreFrames
  <2>7. CASE DecodedCheck
    <3> DEFINE h == [Top EXCEPT !.at = "dec.loop"]
               f == CheckListInLoop(l, h)
    <3>1. h \in DecodedFrame /\ SameMessage(h, Top)
      BY <2>1 DEF DecodedFrame, SameMessage
    <3>2. stack' = Replace(f)
      BY <2>7 DEF DecodedCheck
    <3>3. f \in DecodedFrame /\ SameMessage(f, Top)
      <4> HIDE DEF h
      <4> QED BY <2>2, <3>1 DEF CheckListInLoop, TempAfterCheck, SafeLoopNext, DecodedFrame, SameMessage
    <3> HIDE DEF f
    <3> QED BY <1>0, <1>1, <1>2, <2>1, <3>2, <3>3, KindsAreFrames
  <2>8. CASE DecodedReturn
    BY <1>0, <1>1, <2>1, <2>8 DEF DecodedReturn
  <2> QED BY <1>9, <2>4, <2>5, <2>6, <2>7, <2>8
<1>10. CASE SkipNodeHandler \/ NodeNext \/ CallNodeHandler
  <2> DEFINE l == nodeHandlerList[Top.node]
             f == NodeLoopNext(Top)
             g == [Top EXCEPT !.at = "node.next"]
             caller == Note(g, Top.pos)
  <2>1. stack # <<>> /\ Top \in NodeFrame
    BY <1>0, <1>10, TopIsFrame, FrameKinds DEF SkipNodeHandler, NodeNext, CallNodeHandler, Active
  <2>2. ListNext(l, Top.pos) \in NodeHandlers \cup {ListHead}
    <3>1. l \in Seq(NodeHandlers) /\ Top.pos \in NodeHandlers \cup {ListHead}
      BY <2>1 DEF TypeOK, NodeFrame
    <3> QED BY <3>1, SafeLoopType
  <2>3. f \in NodeFrame /\ ~Handles(f)
    BY <2>1, <2>2 DEF NodeLoopNext, NodeFrame, Handles
  <2>4. ASSUME Top.pos # ListHead PROVE caller \in NodeFrame /\ ~Handles(caller)
    <3>1. g \in NodeFrame /\ g.called = Top.called /\ g.at = "node.next" /\ Top.pos \in NodeHandlers
      BY <2>1, <2>4 DEF NodeFrame
    <3> QED BY <3>1 DEF Note, NodeFrame, Handles
  <2>5. \/ stack' = Replace(f)
        \/ Top.pos # ListHead /\ stack' = Push(u, caller)
    BY <1>10 DEF SkipNodeHandler, NodeNext, CallNodeHandler, u
  <2> HIDE DEF f, caller
  <2> QED BY <1>0, <1>1, <2>1, <2>3, <2>4, <2>5, KindsAreFrames
<1>11. CASE NodeReturn \/ UserReturn
  <2>1. stack # <<>> /\ stack' = Tail(stack)
    BY <1>11 DEF NodeReturn, UserReturn, Active
  <2> QED BY <1>0, <1>1, <2>1
<1> QED BY <1>4, <1>5, <1>6, <1>7, <1>8, <1>9, <1>10, <1>11 DEF Run

(***************************************************************************)
(* A message enters the loop over the handlers, sent through the table as  *)
(* it is then: a packet of an interface, or a message of the application.  *)
(***************************************************************************)
Enters(f) ==
  /\ UNCHANGED <<lists, config>>
  /\ \E msg \in Messages, origin \in Interfaces \cup {TheBridge} :
       /\ f = Decoded(routingTable', msg, origin)
       /\ origin # TheBridge => HandlePacket /\ msg = Head(Top.chunk) /\ origin = Top.interface

(***************************************************************************)
(* In every step, a frame handles the message it handled before, or it is  *)
(* the innermost and handles a message that enters.                        *)
(***************************************************************************)
LEMMA StepContinues ==
  ASSUME TypeOK, [AnyStep]_vars, NEW k \in 1 .. Len(stack'), Handles(stack'[k])
  PROVE  Continues(stack'[k]) \/ (k = 1 /\ Enters(stack'[k]))
<1>0. stack \in Seq(Frames)
  BY DEF TypeOK
<1>1. ASSUME stack' = stack PROVE Continues(stack'[k])
  BY <1>1 DEF Continues, SameMessage
<1>2. ASSUME NEW h, stack' = Unsteady(h) PROVE Continues(stack'[k])
  <2>1. /\ Len(stack') = Len(stack) /\ k \in 1 .. Len(stack) /\ stack[k] \in Frames
        /\ stack'[k].at = stack[k].at
    BY <1>0, <1>2, UnsteadyType
  <2>2. stack'[k] = IF stack[k].at \in {"dec.check", "node.next"}
                    THEN [stack[k] EXCEPT !.steady = @ \ {h}] ELSE stack[k]
    BY <1>2, <2>1 DEF Unsteady
  <2>3. stack[k] \in DecodedFrame /\ Handles(stack[k])
    BY <2>1, FrameKinds DEF Handles
  <2>4. SameMessage(stack'[k], stack[k])
    BY <2>2, <2>3 DEF DecodedFrame, SameMessage
  <2> QED BY <2>1, <2>3, <2>4 DEF Continues
<1>3. CASE (Run /\ ~HandlePacket) \/ \E again \in BOOLEAN : Process(again)
  BY <1>3, LibraryContinues DEF Run, Process, Active, HandlePacket
<1>4. CASE HandlePacket
  <2> DEFINE msg == Head(Top.chunk)
             f == Decoded(routingTable', msg, Top.interface)
             g == [Top EXCEPT !.at = "ext.after", !.chunk = Tail(@)]
  <2>1. stack # <<>> /\ Top \in ExternalFrame /\ Top.chunk # <<>>
    BY <1>0, <1>4, TopIsFrame, FrameKinds DEF HandlePacket, Active
  <2>2. Top.chunk \in Seq(Packets) /\ Top.interface \in Interfaces
    BY <2>1 DEF ExternalFrame
  <2>3. msg \in Packets /\ Tail(Top.chunk) \in Seq(Packets)
    BY <2>1, <2>2
  <2>4. msg \in Messages
    BY <2>3, PacketsAreMessages
  <2>5. g \in ExternalFrame /\ ~Handles(g)
    BY <2>1, <2>3 DEF ExternalFrame, Handles
  <2>6. stack' = Push(f, g) /\ UNCHANGED <<lists, config>>
    BY <1>4 DEF HandlePacket
  <2>7. Enters(f)
    BY <1>4, <2>2, <2>4, <2>6 DEF Enters
  <2> HIDE DEF f, g
  <2>8. /\ Len(Push(f, g)) = Len(stack) + 1 /\ Push(f, g)[1] = f /\ Push(f, g)[2] = g
        /\ \A j \in 3 .. Len(stack) + 1 : Push(f, g)[j] = stack[j - 1]
    BY <1>0, <2>1 DEF Push
  <2>9. CASE k \in 3 .. Len(stack) + 1
    <3>1. k - 1 \in 1 .. Len(stack) /\ stack'[k] = stack[k - 1]
      BY <1>0, <2>6, <2>8, <2>9
    <3> QED BY <3>1 DEF Continues, SameMessage
  <2>10. k \in 3 .. Len(stack) + 1 \/ k = 1 \/ k = 2
    BY <1>0, <2>6, <2>8
  <2> QED BY <2>5, <2>6, <2>7, <2>8, <2>9, <2>10
<1>5. ASSUME NEW msg \in Messages, stack' = Call(Decoded(routingTable, msg, TheBridge)),
             UNCHANGED <<lists, routingTable, config>>
      PROVE  Continues(stack'[k]) \/ (k = 1 /\ Enters(stack'[k]))
  <2> DEFINE f == Decoded(routingTable, msg, TheBridge)
  <2>1. Enters(f)
    BY <1>5 DEF Enters
  <2>2. stack' = Call(f)
    BY <1>5
  <2> HIDE DEF f
  <2>3. Len(Call(f)) = Len(stack) + 1 /\ Call(f)[1] = f /\ \A j \in 2 .. Len(stack) + 1 : Call(f)[j] = stack[j - 1]
    BY <1>0 DEF Call
  <2>4. CASE k \in 2 .. Len(stack) + 1
    <3>1. k - 1 \in 1 .. Len(stack) /\ stack'[k] = stack[k - 1]
      BY <1>0, <2>2, <2>3, <2>4
    <3> QED BY <3>1 DEF Continues, SameMessage
  <2>5. k \in 2 .. Len(stack) + 1 \/ k = 1
    BY <1>0, <2>2, <2>3
  <2> QED BY <2>1, <2>2, <2>3, <2>4, <2>5
<1>6. ASSUME NEW msg \in Messages, SendRaw(msg) PROVE Continues(stack'[k]) \/ (k = 1 /\ Enters(stack'[k]))
  BY <1>5, <1>6 DEF SendRaw
<1>7. ASSUME NEW n \in Nodes, NEW id \in DeviceIds, NodeSend(n, id)
      PROVE  Continues(stack'[k]) \/ (k = 1 /\ Enters(stack'[k]))
  <2>1. [sender |-> ownId[n], receiver |-> id] \in Messages
    BY DEF TypeOK, Messages
  <2> QED BY <1>5, <1>7, <2>1 DEF NodeSend
<1>8. ASSUME NEW x, NEW y,
             \/ RegisterExternalInterface(x) \/ DeregisterExternalInterface(x) \/ RegisterBridgeHandler(x)
             \/ NodeRegister(x) \/ NodeSetOwnSenderId(x, y) \/ SetRoutingForDeviceId(x, y) \/ BridgeSetFlags(x)
             \/ ExternalInterfaceSetFlags(x, y) \/ RegisterNodeHandler(x, y) \/ UNCHANGED vars
      PROVE  Continues(stack'[k])
  BY <1>1, <1>8
     DEF RegisterExternalInterface, DeregisterExternalInterface, RegisterBridgeHandler, NodeRegister,
       NodeSetOwnSenderId, SetRoutingForDeviceId, BridgeSetFlags, ExternalInterfaceSetFlags,
       RegisterNodeHandler, vars
<1>9. ASSUME NEW x, NEW y,
             \/ DeregisterBridgeHandler(x) \/ NodeDeregister(x) \/ HandlerSetFlags(x, y)
             \/ DeregisterNodeHandler(x, y)
      PROVE  Continues(stack'[k])
  BY <1>2, <1>9
     DEF DeregisterBridgeHandler, DetachHandler, NodeDeregister, HandlerSetFlags, DeregisterNodeHandler
<1> QED BY <1>3, <1>4, <1>6, <1>7, <1>8, <1>9, PacketsAreMessages
     DEF AnyStep, Next, Application, SendsOrRoutes

-----------------------------------------------------------------------------
(***************************************************************************)
(* No route leads to a mirror.                                             *)
(***************************************************************************)
RoutesMissMirrors == \A id \in TableIds : routingTable[id] \notin mirrors

(***************************************************************************)
(* No message that is being handled was written twice to an interface.     *)
(***************************************************************************)
CopiesInv == \A k \in 1 .. Len(stack) : Handles(stack[k]) => stack[k].mirrored \cap stack[k].routed = {}

(***************************************************************************)
(* A message that enters takes its mirrors and its routes to different     *)
(* interfaces.                                                             *)
(***************************************************************************)
LEMMA EntersOnce ==
  ASSUME TypeOK, NEW table \in [TableIds -> Interfaces \cup {TheBridge, AllInterfaces}],
         \A id \in TableIds : table[id] \notin mirrors,
         NEW msg, NEW origin
  PROVE  Mirrored(origin) \cap Routed(table, msg, origin) = {}
<1>1. mirrors \subseteq Interfaces /\ AllInterfaces \notin Interfaces
  BY BridgeAssumption DEF TypeOK
<1>2. Destination(table, msg) \notin mirrors
  BY <1>1 DEF Destination, RoutingGetDestination
<1> QED BY <1>2 DEF Mirrored, Routed

(***************************************************************************)
(* A packet is learned only from an interface that is not a mirror, and the*)
(* application routes to no mirror and mirrors to no route.                *)
(***************************************************************************)
LEMMA MirrorsStep ==
  ASSUME TypeOK, "mirrors" \in Discipline, RoutesMissMirrors, [AnyStep]_vars
  PROVE  RoutesMissMirrors'
<1>0. mirrors \subseteq Interfaces /\ AllInterfaces \notin Interfaces /\ TheBridge \notin Interfaces
  BY BridgeAssumption DEF TypeOK
<1>1. ASSUME UNCHANGED <<routingTable, mirrors>> PROVE RoutesMissMirrors'
  BY <1>1 DEF RoutesMissMirrors
<1>2. ASSUME NEW again \in BOOLEAN, Process(again) PROVE RoutesMissMirrors'
  BY <1>1, <1>2 DEF Process, config
<1>3. ASSUME Run, ~HandlePacket PROVE RoutesMissMirrors'
  <2>1. UNCHANGED <<routingTable, config>>
    BY <1>3 DEF Run, ReadNothing, ReadBytes, OnceCheck, OnceReturn, ExternalAfter,
      ExternalReturn, SkipHandler, CallHandler, CallNode, DecodedCheck, DecodedReturn,
      SkipNodeHandler, CallNodeHandler, NodeNext, NodeReturn, UserReturn
  <2> QED BY <1>1, <2>1 DEF config
<1>4. ASSUME HandlePacket PROVE RoutesMissMirrors'
  BY <1>4 DEF HandlePacket, config, RoutesMissMirrors, Learned, RoutingTableUpdate
<1>5. ASSUME NEW i \in Interfaces, DeregisterExternalInterface(i) PROVE RoutesMissMirrors'
  BY <1>0, <1>5 DEF DeregisterExternalInterface, config, RoutesMissMirrors, RoutingTableInvalidateInterface
<1>6. ASSUME NEW n \in Nodes, NEW id,
             NodeRegister(n) \/ NodeDeregister(n) \/ NodeSetOwnSenderId(n, id)
      PROVE  RoutesMissMirrors'
  <2>1. UNCHANGED mirrors
    BY <1>6 DEF NodeRegister, NodeDeregister, NodeSetOwnSenderId, config
  <2>2. \A j \in TableIds : routingTable'[j] \in {routingTable[j], TheBridge, AllInterfaces}
    BY <1>6 DEF NodeRegister, NodeDeregister, NodeSetOwnSenderId, MarkInternal, ClearInternal, RoutingTableUpdate
  <2> QED BY <1>0, <2>1, <2>2 DEF RoutesMissMirrors
<1>7. ASSUME NEW i \in Interfaces, NEW id, SetRoutingForDeviceId(i, id) PROVE RoutesMissMirrors'
  BY <1>7 DEF SetRoutingForDeviceId, config, RoutesMissMirrors, RoutingTableUpdate
<1>8. ASSUME NEW i \in Interfaces, NEW mirror \in BOOLEAN, ExternalInterfaceSetFlags(i, mirror)
      PROVE  RoutesMissMirrors'
  BY <1>8 DEF ExternalInterfaceSetFlags, RoutesMissMirrors
<1>9. ASSUME NEW x, NEW y,
             \/ RegisterExternalInterface(x) \/ RegisterBridgeHandler(x) \/ DeregisterBridgeHandler(x)
             \/ NodeSend(x, y) \/ SendRaw(x) \/ BridgeSetFlags(x) \/ HandlerSetFlags(x, y)
             \/ RegisterNodeHandler(x, y) \/ DeregisterNodeHandler(x, y) \/ UNCHANGED vars
      PROVE  RoutesMissMirrors'
  BY <1>1, <1>9
     DEF RegisterExternalInterface, RegisterBridgeHandler, DeregisterBridgeHandler, NodeSend, SendRaw,
       BridgeSetFlags, HandlerSetFlags, RegisterNodeHandler, DeregisterNodeHandler, config, vars
<1> QED BY <1>2, <1>3, <1>4, <1>5, <1>6, <1>7, <1>8, <1>9 DEF AnyStep, SendsOrRoutes, Next, Application

LEMMA CopiesStep ==
  ASSUME TypeOK, TypeOK', RoutesMissMirrors', CopiesInv, [AnyStep]_vars
  PROVE  CopiesInv'
<1> SUFFICES ASSUME NEW k \in 1 .. Len(stack'), Handles(stack'[k])
             PROVE  stack'[k].mirrored \cap stack'[k].routed = {}
  BY DEF CopiesInv, Handles
<1>1. CASE Continues(stack'[k])
  BY <1>1 DEF Continues, SameMessage, CopiesInv
<1>2. CASE Enters(stack'[k])
  <2>1. PICK msg \in Messages, origin \in Interfaces \cup {TheBridge} :
          stack'[k] = Decoded(routingTable', msg, origin)
    BY <1>2 DEF Enters
  <2>2. \A id \in TableIds : routingTable'[id] \notin mirrors
    BY <1>2 DEF Enters, config, RoutesMissMirrors
  <2>3. routingTable' \in [TableIds -> Interfaces \cup {TheBridge, AllInterfaces}]
    BY DEF TypeOK
  <2>4. Mirrored(origin) \cap Routed(routingTable', msg, origin) = {}
    BY <2>2, <2>3, EntersOnce
  <2> QED BY <2>1, <2>4 DEF Decoded
<1> QED BY <1>1, <1>2, StepContinues

(***************************************************************************)
(* An interface gets one copy of a message: no mirror is ever a route, so  *)
(* what went to the mirrors is not written there again by the route.       *)
(***************************************************************************)
THEOREM OneCopyEach == "mirrors" \in Discipline => (Spec => []NoSecondCopy)
<1> SUFFICES ASSUME "mirrors" \in Discipline PROVE Spec => []NoSecondCopy
  OBVIOUS
<1>1. Init => RoutesMissMirrors /\ CopiesInv
  <2> SUFFICES ASSUME Init PROVE RoutesMissMirrors /\ CopiesInv
    OBVIOUS
  <2>1. \A id \in TableIds : routingTable[id] \in {TheBridge, AllInterfaces}
    BY DEF Init, RoutingTableInit
  <2>2. TheBridge \notin mirrors /\ AllInterfaces \notin mirrors /\ stack = <<>>
    BY BridgeAssumption DEF Init
  <2> QED BY <2>1, <2>2 DEF RoutesMissMirrors, CopiesInv
<1>2. TypeOK /\ RoutesMissMirrors /\ [Next]_vars => RoutesMissMirrors'
  BY MirrorsStep, NextIsAStep
<1>3. TypeOK /\ TypeOK' /\ RoutesMissMirrors' /\ CopiesInv /\ [Next]_vars => CopiesInv'
  BY CopiesStep, NextIsAStep
<1>4. TypeOK /\ CopiesInv => NoSecondCopy
  BY TopIsFrame DEF TypeOK, CopiesInv, NoSecondCopy, Active, Handles, Top
<1> QED BY <1>1, <1>2, <1>3, <1>4, TypeCorrect, PTL DEF Spec

-----------------------------------------------------------------------------
(***************************************************************************)
(* A message enters in three ways: with a packet, or sent by the           *)
(* application, from the main loop or from a handler.                      *)
(***************************************************************************)
Sent(msg) ==
  /\ stack' = Call(Decoded(routingTable, msg, TheBridge))
  /\ stack # <<>> => Top.at = "user"
  /\ UNCHANGED <<lists, routingTable, config>>

LEMMA EnteredHow ==
  ASSUME TypeOK, [AnyStep]_vars, Entered
  PROVE  HandlePacket \/ \E msg \in Messages : Sent(msg)
<1> DEFINE u == [at |-> "user"]
<1>0. stack \in Seq(Frames) /\ Len(stack) \in Nat /\ (stack # <<>> => Len(stack) > 0) /\ u \in Frames
  BY KindsAreFrames DEF TypeOK
<1>1. ASSUME stack # <<>>, NEW f, stack' \in {Tail(stack), Replace(f)} PROVE FALSE
  <2>1. Tail(stack) \in Seq(Frames) /\ Len(Tail(stack)) = Len(stack) - 1
    BY <1>0, <1>1
  <2>2. Len(Replace(f)) = Len(stack)
    BY <1>0, <1>1, <2>1 DEF Replace
  <2> QED BY <1>0, <1>1, <2>1, <2>2 DEF Entered
<1>2. ASSUME NEW f, NEW g, f.at # "dec.loop", stack' = Push(f, g) PROVE FALSE
  BY <1>2 DEF Push, Entered
<1>3. ASSUME NEW again \in BOOLEAN, Process(again) PROVE FALSE
  BY <1>3 DEF Process, OnceLoop, Entered
<1>4. CASE ReadNothing \/ OnceCheck \/ OnceReturn \/ ExternalAfter \/ ExternalReturn \/ SkipHandler
           \/ DecodedCheck \/ DecodedReturn \/ SkipNodeHandler \/ NodeNext \/ NodeReturn \/ UserReturn
  <2>1. PICK f : stack # <<>> /\ stack' \in {Tail(stack), Replace(f)}
    BY <1>4 DEF ReadNothing, OnceCheck, OnceReturn, ExternalAfter, ExternalReturn, SkipHandler,
      DecodedCheck, DecodedReturn, SkipNodeHandler, NodeNext, NodeReturn, UserReturn, Active
  <2> QED BY <1>1, <2>1
<1>5. ASSUME NEW chunk \in Chunks, ReadBytes(chunk) PROVE FALSE
  BY <1>2, <1>5 DEF ReadBytes
<1>6. CASE CallHandler \/ CallNodeHandler
  <2> HIDE <1>0
  <2> QED BY <1>2, <1>6 DEF CallHandler, CallNodeHandler
<1>7. CASE CallNode
  <2> DEFINE f == NodeLoop(Top.pos, Top.origin)
             g == Note([Top EXCEPT !.at = "dec.check"], Top.pos)
  <2>1. stack # <<>> /\ stack' \in {Push(f, g), Replace(g)}
    BY <1>7 DEF CallNode, Active
  <2>2. f.at # "dec.loop"
    BY DEF NodeLoop
  <2> HIDE DEF f, g
  <2> QED BY <1>1, <1>2, <2>1, <2>2
<1>8. CASE Run
  BY <1>4, <1>5, <1>6, <1>7, <1>8 DEF Run
<1>9. ASSUME NEW msg \in Messages, SendRaw(msg) PROVE Sent(msg)
  BY <1>9 DEF SendRaw, Sent, Calls
<1>10. ASSUME NEW n \in Nodes, NEW id \in DeviceIds, NodeSend(n, id)
       PROVE  \E msg \in Messages : Sent(msg)
  <2>1. [sender |-> ownId[n], receiver |-> id] \in Messages
    BY DEF TypeOK, Messages
  <2>2. Sent([sender |-> ownId[n], receiver |-> id])
    BY <1>10 DEF NodeSend, Sent, Calls
  <2> QED BY <2>1, <2>2
<1>11. ASSUME NEW x, NEW y,
              \/ RegisterExternalInterface(x) \/ DeregisterExternalInterface(x) \/ RegisterBridgeHandler(x)
              \/ NodeRegister(x) \/ NodeSetOwnSenderId(x, y) \/ SetRoutingForDeviceId(x, y) \/ BridgeSetFlags(x)
              \/ ExternalInterfaceSetFlags(x, y) \/ RegisterNodeHandler(x, y) \/ UNCHANGED vars
       PROVE  FALSE
  <2>1. stack' = stack
    BY <1>11
       DEF RegisterExternalInterface, DeregisterExternalInterface, RegisterBridgeHandler, NodeRegister,
         NodeSetOwnSenderId, SetRoutingForDeviceId, BridgeSetFlags, ExternalInterfaceSetFlags,
         RegisterNodeHandler, vars
  <2> QED BY <1>0, <2>1 DEF Entered
<1>12. ASSUME NEW x, NEW y,
              \/ DeregisterBridgeHandler(x) \/ NodeDeregister(x) \/ HandlerSetFlags(x, y)
              \/ DeregisterNodeHandler(x, y)
       PROVE  FALSE
  <2>1. PICK h : stack' = Unsteady(h)
    BY <1>12
       DEF DeregisterBridgeHandler, DetachHandler, NodeDeregister, HandlerSetFlags, DeregisterNodeHandler
  <2> QED BY <1>0, <2>1, UnsteadyType DEF Entered
<1> QED BY <1>3, <1>8, <1>9, <1>10, <1>11, <1>12, PacketsAreMessages
     DEF AnyStep, Next, Application, SendsOrRoutes

(***************************************************************************)
(* However it entered, its frame is the one that the lists and the table   *)
(* give then.                                                              *)
(***************************************************************************)
LEMMA EnteredFrame ==
  ASSUME TypeOK, [AnyStep]_vars, Entered
  PROVE  Enters(stack'[1])
<1>1. CASE HandlePacket
  <2>1. stack # <<>> /\ Top \in ExternalFrame /\ Top.chunk # <<>>
    BY <1>1, TopIsFrame, FrameKinds DEF HandlePacket, Active, TypeOK
  <2>2. Top.chunk \in Seq(Packets) /\ Top.interface \in Interfaces
    BY <2>1 DEF ExternalFrame
  <2>3. Head(Top.chunk) \in Packets
    BY <2>1, <2>2
  <2>4. Head(Top.chunk) \in Messages
    BY <2>3, PacketsAreMessages
  <2>5. stack'[1] = Decoded(routingTable', Head(Top.chunk), Top.interface) /\ UNCHANGED <<lists, config>>
    BY <1>1 DEF HandlePacket, Push
  <2> QED BY <1>1, <2>2, <2>4, <2>5 DEF Enters
<1>2. ASSUME NEW msg \in Messages, Sent(msg) PROVE Enters(stack'[1])
  BY <1>2 DEF Sent, Call, Enters
<1> QED BY <1>1, <1>2, EnteredHow

-----------------------------------------------------------------------------
(***************************************************************************)
(* The rule for the broadcast id: no device sends with it, and no node has *)
(* it.  Nothing in the code enforces it.                                   *)
(***************************************************************************)
BroadcastIsNoDevice == Broadcast \notin Senders \cup NodeIds \cup {InitialOwnId[n] : n \in Nodes}

(***************************************************************************)
(* Then no route is ever set for it.                                       *)
(***************************************************************************)
BroadcastUnrouted ==
  /\ Broadcast \in TableIds => routingTable[Broadcast] = AllInterfaces
  /\ \A n \in Nodes : ownId[n] # Broadcast

LEMMA BroadcastStep ==
  ASSUME TypeOK, BroadcastIsNoDevice, BroadcastUnrouted, [AnyStep]_vars
  PROVE  BroadcastUnrouted'
<1>1. ASSUME UNCHANGED <<routingTable, ownId>> PROVE BroadcastUnrouted'
  BY <1>1 DEF BroadcastUnrouted
<1>2. ASSUME NEW again \in BOOLEAN, Process(again) PROVE BroadcastUnrouted'
  BY <1>1, <1>2 DEF Process, config
<1>3. ASSUME Run, ~HandlePacket PROVE BroadcastUnrouted'
  <2>1. UNCHANGED <<routingTable, config>>
    BY <1>3 DEF Run, ReadNothing, ReadBytes, OnceCheck, OnceReturn, ExternalAfter,
      ExternalReturn, SkipHandler, CallHandler, CallNode, DecodedCheck, DecodedReturn,
      SkipNodeHandler, CallNodeHandler, NodeNext, NodeReturn, UserReturn
  <2> QED BY <1>1, <2>1 DEF config
<1>4. ASSUME HandlePacket PROVE BroadcastUnrouted'
  <2>1. stack # <<>> /\ Top \in ExternalFrame /\ Top.chunk # <<>>
    BY <1>4, TopIsFrame, FrameKinds DEF HandlePacket, Active, TypeOK
  <2>2. Top.chunk \in Seq(Packets)
    BY <2>1 DEF ExternalFrame
  <2>3. Head(Top.chunk) \in Packets
    BY <2>1, <2>2
  <2>4. Head(Top.chunk).sender # Broadcast
    BY <2>3 DEF Packets, BroadcastIsNoDevice
  <2> QED BY <1>4, <2>4 DEF HandlePacket, config, BroadcastUnrouted, Learned, RoutingTableUpdate
<1>5. ASSUME NEW i \in Interfaces, DeregisterExternalInterface(i) PROVE BroadcastUnrouted'
  BY <1>5 DEF DeregisterExternalInterface, config, BroadcastUnrouted, RoutingTableInvalidateInterface
<1>6. ASSUME NEW n \in Nodes, NodeRegister(n) \/ NodeDeregister(n) PROVE BroadcastUnrouted'
  BY <1>6 DEF NodeRegister, NodeDeregister, config, BroadcastUnrouted, MarkInternal, ClearInternal,
    RoutingTableUpdate
<1>7. ASSUME NEW n \in Nodes, NEW id \in NodeIds, NodeSetOwnSenderId(n, id) PROVE BroadcastUnrouted'
  <2>1. id # Broadcast
    BY DEF BroadcastIsNoDevice
  <2>2. \A m \in Nodes : ownId'[m] # Broadcast
    BY <1>7, <2>1 DEF NodeSetOwnSenderId, TypeOK, BroadcastUnrouted
  <2>3. Broadcast \in TableIds => routingTable'[Broadcast] = AllInterfaces
    BY <1>7, <2>1 DEF NodeSetOwnSenderId, BroadcastUnrouted, MarkInternal, ClearInternal, RoutingTableUpdate
  <2> QED BY <2>2, <2>3 DEF BroadcastUnrouted
<1>8. ASSUME NEW i \in Interfaces, NEW id, id # Broadcast, SetRoutingForDeviceId(i, id)
      PROVE  BroadcastUnrouted'
  BY <1>8 DEF SetRoutingForDeviceId, config, BroadcastUnrouted, RoutingTableUpdate
<1>9. ASSUME NEW x, NEW y,
             \/ RegisterExternalInterface(x) \/ RegisterBridgeHandler(x) \/ DeregisterBridgeHandler(x)
             \/ NodeSend(x, y) \/ SendRaw(x) \/ BridgeSetFlags(x) \/ ExternalInterfaceSetFlags(x, y)
             \/ HandlerSetFlags(x, y) \/ RegisterNodeHandler(x, y) \/ DeregisterNodeHandler(x, y)
             \/ UNCHANGED vars
      PROVE  BroadcastUnrouted'
  BY <1>1, <1>9
     DEF RegisterExternalInterface, RegisterBridgeHandler, DeregisterBridgeHandler, NodeSend, SendRaw,
       BridgeSetFlags, ExternalInterfaceSetFlags, HandlerSetFlags, RegisterNodeHandler,
       DeregisterNodeHandler, config, vars
<1>10. \A id \in Senders : id # Broadcast
  BY DEF BroadcastIsNoDevice
<1> QED BY <1>2, <1>3, <1>4, <1>5, <1>6, <1>7, <1>8, <1>9, <1>10
     DEF AnyStep, SendsOrRoutes, Next, Application

(***************************************************************************)
(* What a broadcast that enters reaches.                                   *)
(***************************************************************************)
LEMMA BroadcastEnters ==
  ASSUME TypeOK, BroadcastUnrouted', [AnyStep]_vars, Entered, stack'[1].msg.receiver = Broadcast
  PROVE  LET f == stack'[1]
             allowed == forwarding \/ f.origin = TheBridge
         IN  f.mirrored \cup f.routed = {i \in Registered : i # f.origin /\ (allowed \/ i \in mirrors)}
<1> DEFINE f == stack'[1]
<1>1. PICK msg \in Messages, origin \in Interfaces \cup {TheBridge} :
        f = Decoded(routingTable', msg, origin)
  BY EnteredFrame DEF Enters
<1>2. f.msg = msg /\ f.origin = origin /\ f.mirrored = Mirrored(origin)
      /\ f.routed = Routed(routingTable', msg, origin)
  BY <1>1 DEF Decoded
<1> HIDE DEF f
<1>3. Destination(routingTable', msg) = AllInterfaces
  <2>1. msg.receiver = Broadcast
    BY <1>2 DEF f
  <2> QED BY <2>1 DEF BroadcastUnrouted, Destination, RoutingGetDestination
<1>4. AllInterfaces # TheBridge
  BY BridgeAssumption
<1>5. Mirrored(origin) \cup Routed(routingTable', msg, origin)
        = {i \in Registered : i # origin /\ (forwarding \/ origin = TheBridge \/ i \in mirrors)}
  BY <1>3, <1>4 DEF Mirrored, Routed, Suppressed
<1> QED BY <1>2, <1>5 DEF f

(***************************************************************************)
(* A broadcast goes to every registered interface but its origin, or, with *)
(* forwarding switched off and a foreign origin, to the mirrors only: if no*)
(* device and no node has the broadcast id.  The run broadcast_sender shows*)
(* that it needs this rule.                                                *)
(***************************************************************************)
THEOREM BroadcastsGoEverywhere == BroadcastIsNoDevice => (Spec => BroadcastReachesAll)
<1> SUFFICES ASSUME BroadcastIsNoDevice PROVE Spec => BroadcastReachesAll
  OBVIOUS
<1>1. Init => BroadcastUnrouted
  <2> SUFFICES ASSUME Init PROVE BroadcastUnrouted
    OBVIOUS
  <2>1. \A n \in Nodes : InitialOwnId[n] # Broadcast
    BY DEF BroadcastIsNoDevice
  <2> QED BY <2>1 DEF Init, BroadcastUnrouted, RoutingTableInit
<1>2. TypeOK /\ BroadcastUnrouted /\ [Next]_vars => BroadcastUnrouted'
  BY BroadcastStep, NextIsAStep
<1>3. TypeOK /\ BroadcastUnrouted' /\ [Next]_vars =>
        [Entered /\ stack'[1].msg.receiver = Broadcast =>
           LET f == stack'[1]
               allowed == forwarding \/ f.origin = TheBridge
           IN  f.mirrored \cup f.routed =
                 {i \in Registered : i # f.origin /\ (allowed \/ i \in mirrors)}]_vars
  BY BroadcastEnters, NextIsAStep
<1> QED BY <1>1, <1>2, <1>3, TypeCorrect, PTL DEF Spec, BroadcastReachesAll

-----------------------------------------------------------------------------
(***************************************************************************)
(* Which call runs on which: the interfaces are processed by the main loop *)
(* only, their messages handled one by one on top of that, and a handler   *)
(* of the application runs on one of the two loops over handlers.          *)
(***************************************************************************)
Shape == \A k \in 1 .. Len(stack) :
  /\ stack[k].at \in {"once.read", "once.check"} => k = Len(stack)
  /\ stack[k].at \in {"ext.parse", "ext.after"} => k + 1 = Len(stack) /\ stack[k + 1].at = "once.check"
  /\ stack[k].at \in {"node.loop", "node.next"} => k < Len(stack) /\ stack[k + 1].at = "dec.check"
  /\ stack[k].at = "user" => k < Len(stack) /\ stack[k + 1].at \in {"dec.check", "node.next"}

(***************************************************************************)
(* A frame that replaces the innermost one is a frame of the same call.    *)
(***************************************************************************)
SameCall(f, g) ==
  \/ f.at \in {"once.read", "once.check"} /\ g.at \in {"once.read", "once.check"}
  \/ f.at \in {"ext.parse", "ext.after"} /\ g.at \in {"ext.parse", "ext.after"}
  \/ f.at \in {"dec.loop", "dec.check"} /\ g.at \in {"dec.loop", "dec.check"}
  \/ f.at \in {"node.loop", "node.next"} /\ g.at \in {"node.loop", "node.next"}

RunsOn(f, g) ==
  \/ f.at = "ext.parse" /\ g.at = "once.check"
  \/ f.at = "dec.loop" /\ g.at = "ext.after"
  \/ f.at = "node.loop" /\ g.at = "dec.check"
  \/ f.at = "user" /\ g.at \in {"dec.check", "node.next"}

LEMMA ShapeKept ==
  ASSUME stack \in Seq(Frames), Shape, NEW f \in Frames, NEW g \in Frames,
         \/ stack # <<>> /\ stack' = Tail(stack)
         \/ stack # <<>> /\ stack' = Replace(f) /\ SameCall(f, Top)
         \/ stack # <<>> /\ stack' = Push(f, g) /\ SameCall(g, Top) /\ RunsOn(f, g)
         \/ stack' = Call(f) /\ f.at = "dec.loop"
         \/ stack' = Call(f) /\ f.at = "once.read" /\ stack = <<>>
  PROVE  Shape'
<1> DEFINE n == Len(stack)
<1>1. n \in Nat /\ (stack # <<>> => n > 0) /\ (stack = <<>> => n = 0)
  OBVIOUS
<1>2. stack # <<>> => Tail(stack) \in Seq(Frames) /\ Len(Tail(stack)) = n - 1
                      /\ \A j \in 1 .. n - 1 : Tail(stack)[j] = stack[j + 1]
  OBVIOUS
<1>3. \A k \in 1 .. n :
        /\ stack[k].at \in {"once.read", "once.check"} => k = n
        /\ stack[k].at \in {"ext.parse", "ext.after"} => k + 1 = n /\ stack[k + 1].at = "once.check"
        /\ stack[k].at \in {"node.loop", "node.next"} => k < n /\ stack[k + 1].at = "dec.check"
        /\ stack[k].at = "user" => k < n /\ stack[k + 1].at \in {"dec.check", "node.next"}
  BY DEF Shape
<1>4. CASE stack # <<>> /\ stack' = Tail(stack)
  <2>1. Len(stack') = n - 1 /\ \A k \in 1 .. n - 1 : stack'[k] = stack[k + 1] /\ k + 1 \in 1 .. n
    BY <1>1, <1>2, <1>4
  <2> HIDE DEF n
  <2> SUFFICES ASSUME NEW k \in 1 .. n - 1
               PROVE  /\ stack'[k].at \in {"once.read", "once.check"} => k = n - 1
                      /\ stack'[k].at \in {"ext.parse", "ext.after"} => k + 1 = n - 1 /\ stack'[k + 1].at = "once.check"
                      /\ stack'[k].at \in {"node.loop", "node.next"} => k < n - 1 /\ stack'[k + 1].at = "dec.check"
                      /\ stack'[k].at = "user" => k < n - 1 /\ stack'[k + 1].at \in {"dec.check", "node.next"}
    BY <2>1 DEF Shape
  <2>2. stack'[k] = stack[k + 1] /\ k + 1 \in 1 .. n
    BY <2>1
  <2>3. k + 1 < n => stack'[k + 1] = stack[k + 1 + 1]
    BY <1>1, <2>1
  <2> QED BY <1>1, <1>3, <2>2, <2>3
<1>5. CASE stack # <<>> /\ stack' = Replace(f) /\ SameCall(f, Top)
  <2>1. Len(stack') = n /\ stack'[1] = f /\ \A k \in 2 .. n : stack'[k] = stack[k]
    BY <1>1, <1>2, <1>5 DEF Replace
  <2> HIDE DEF n
  <2>2. ASSUME NEW k \in 1 .. n
        PROVE  /\ stack'[k].at \in {"once.read", "once.check"} => k = n
               /\ stack'[k].at \in {"ext.parse", "ext.after"} => k + 1 = n /\ stack'[k + 1].at = "once.check"
               /\ stack'[k].at \in {"node.loop", "node.next"} => k < n /\ stack'[k + 1].at = "dec.check"
               /\ stack'[k].at = "user" => k < n /\ stack'[k + 1].at \in {"dec.check", "node.next"}
    <3>1. k + 1 \in 2 .. n => stack'[k + 1] = stack[k + 1]
      BY <2>1
    <3>2. CASE k = 1
      BY <1>1, <1>3, <1>5, <2>1, <3>1, <3>2 DEF SameCall, Top
    <3>3. CASE k \in 2 .. n
      BY <1>1, <1>3, <2>1, <3>1, <3>3
    <3> QED BY <1>1, <3>2, <3>3
  <2> QED BY <2>1, <2>2 DEF Shape
<1>6. CASE stack # <<>> /\ stack' = Push(f, g) /\ SameCall(g, Top) /\ RunsOn(f, g)
  <2>1. /\ Len(stack') = n + 1 /\ stack'[1] = f /\ stack'[2] = g
        /\ \A k \in 3 .. n + 1 : stack'[k] = stack[k - 1]
    BY <1>1, <1>2, <1>6 DEF Push
  <2> HIDE DEF n
  <2>2. ASSUME NEW k \in 1 .. n + 1
        PROVE  /\ stack'[k].at \in {"once.read", "once.check"} => k = n + 1
               /\ stack'[k].at \in {"ext.parse", "ext.after"} => k + 1 = n + 1 /\ stack'[k + 1].at = "once.check"
               /\ stack'[k].at \in {"node.loop", "node.next"} => k < n + 1 /\ stack'[k + 1].at = "dec.check"
               /\ stack'[k].at = "user" => k < n + 1 /\ stack'[k + 1].at \in {"dec.check", "node.next"}
    <3>1. \A j \in 2 .. n : stack'[j + 1] = stack[j]
      BY <1>1, <2>1
    <3>2. CASE k = 1
      BY <1>1, <1>3, <1>6, <2>1, <3>2 DEF SameCall, RunsOn, Top
    <3>3. CASE k = 2
      <4>1. stack'[k] = g /\ k + 1 = 3 /\ 1 \in 1 .. n /\ (1 < n => 2 \in 2 .. n)
        BY <1>1, <1>6, <2>1, <3>3
      <4>2. 1 < n => stack'[3] = stack[2]
        <5>1. 1 < n => stack'[2 + 1] = stack[2]
          BY <3>1, <4>1
        <5> QED BY <5>1
      <4>3. /\ stack[1].at \in {"once.read", "once.check"} => 1 = n
            /\ stack[1].at \in {"ext.parse", "ext.after"} => 2 = n /\ stack[2].at = "once.check"
            /\ stack[1].at \in {"node.loop", "node.next"} => 1 < n /\ stack[2].at = "dec.check"
        <5>1. /\ stack[1].at \in {"once.read", "once.check"} => 1 = n
              /\ stack[1].at \in {"ext.parse", "ext.after"} => 1 + 1 = n /\ stack[1 + 1].at = "once.check"
              /\ stack[1].at \in {"node.loop", "node.next"} => 1 < n /\ stack[1 + 1].at = "dec.check"
          BY <1>3, <4>1
        <5> QED BY <5>1
      <4>4. g.at # "user"
        BY <1>6 DEF SameCall
      <4> QED BY <1>1, <1>6, <3>3, <4>1, <4>2, <4>3, <4>4 DEF SameCall, Top
    <3>4. CASE k \in 3 .. n + 1
      <4>1. PICK j \in 2 .. n : k = j + 1
        <5>1. k - 1 \in 2 .. n /\ k = (k - 1) + 1
          BY <1>1, <3>4
        <5> QED BY <5>1
      <4>2. stack'[k] = stack[j] /\ (j < n => stack'[k + 1] = stack[j + 1])
        <5>1. stack'[j + 1] = stack[j]
          BY <3>1
        <5>2. j < n => j + 1 \in 2 .. n
          BY <1>1
        <5> QED BY <3>1, <4>1, <5>1, <5>2
      <4>3. j \in 1 .. n
        BY <1>1
      <4>4. k = n + 1 <=> j = n
        BY <1>1, <4>1
      <4>5. k < n + 1 <=> j < n
        BY <1>1, <4>1
      <4>6. k + 1 = n + 1 <=> j + 1 = n
        BY <1>1, <4>1
      <4>7. j + 1 = n => j < n
        BY <1>1
      <4>8. /\ stack[j].at \in {"once.read", "once.check"} => j = n
            /\ stack[j].at \in {"ext.parse", "ext.after"} => j + 1 = n /\ stack[j + 1].at = "once.check"
            /\ stack[j].at \in {"node.loop", "node.next"} => j < n /\ stack[j + 1].at = "dec.check"
            /\ stack[j].at = "user" => j < n /\ stack[j + 1].at \in {"dec.check", "node.next"}
        BY <1>3, <4>3
      <4> HIDE <4>1
      <4> QED BY <4>2, <4>4, <4>5, <4>6, <4>7, <4>8
    <3> QED BY <1>1, <3>2, <3>3, <3>4
  <2> QED BY <2>1, <2>2 DEF Shape
<1>7. CASE stack' = Call(f) /\ (f.at = "dec.loop" \/ (f.at = "once.read" /\ stack = <<>>))
  <2>1. Len(stack') = n + 1 /\ stack'[1] = f /\ \A k \in 2 .. n + 1 : stack'[k] = stack[k - 1]
    <3>1. /\ Len(Call(f)) = n + 1 /\ Call(f)[1] = f
          /\ \A k \in 2 .. n + 1 : Call(f)[k] = stack[k - 1]
      BY DEF Call
    <3> QED BY <1>7, <3>1
  <2> HIDE DEF n
  <2>2. ASSUME NEW k \in 1 .. n + 1
        PROVE  /\ stack'[k].at \in {"once.read", "once.check"} => k = n + 1
               /\ stack'[k].at \in {"ext.parse", "ext.after"} => k + 1 = n + 1 /\ stack'[k + 1].at = "once.check"
               /\ stack'[k].at \in {"node.loop", "node.next"} => k < n + 1 /\ stack'[k + 1].at = "dec.check"
               /\ stack'[k].at = "user" => k < n + 1 /\ stack'[k + 1].at \in {"dec.check", "node.next"}
    <3>1. CASE k = 1
      BY <1>1, <1>7, <2>1, <3>1
    <3>2. CASE k \in 2 .. n + 1
      <4>1. stack'[k] = stack[k - 1] /\ k - 1 \in 1 .. n
        BY <1>1, <2>1, <3>2
      <4>2. k < n + 1 => stack'[k + 1] = stack[(k - 1) + 1]
        BY <1>1, <2>1, <3>2
      <4> QED BY <1>1, <1>3, <3>2, <4>1, <4>2
    <3> QED BY <1>1, <3>1, <3>2
  <2> QED BY <2>1, <2>2 DEF Shape
<1> QED BY <1>4, <1>5, <1>6, <1>7

LEMMA ShapeStep ==
  ASSUME TypeOK, Shape, [AnyStep]_vars
  PROVE  Shape'
<1> DEFINE u == [at |-> "user"]
<1>0. stack \in Seq(Frames) /\ u \in Frames /\ u.at = "user"
  BY KindsAreFrames DEF TypeOK
<1> HIDE DEF u
<1>1. ASSUME NEW again \in BOOLEAN PROVE OnceLoop(again) \in Frames /\ OnceLoop(again).at = "once.read"
  BY OnceLoopType, KindsAreFrames DEF OnceLoop
<1>2. ASSUME NEW again \in BOOLEAN, Process(again) PROVE Shape'
  <2>1. stack = <<>> /\ stack' = Call(OnceLoop(again))
    BY <1>2 DEF Process, Call
  <2> QED BY <1>0, <1>1, <2>1, ShapeKept
<1>3. CASE ReadNothing \/ OnceCheck \/ OnceReturn
  <2>1. stack # <<>> /\ Top \in OnceFrame
    BY <1>0, <1>3, TopIsFrame, FrameKinds DEF ReadNothing, OnceCheck, OnceReturn, Active
  <2>2. CASE ReadNothing
    <3> DEFINE f == [Top EXCEPT !.at = "once.check"]
    <3>1. f \in OnceFrame /\ f.at = "once.check" /\ stack' = Replace(f)
      BY <2>1, <2>2 DEF OnceFrame, ReadNothing
    <3> HIDE DEF f
    <3>2. SameCall(f, Top)
      BY <2>2, <3>1 DEF SameCall, ReadNothing, Active
    <3> QED BY <1>0, <2>1, <3>1, <3>2, ShapeKept, KindsAreFrames
  <2>3. CASE OnceCheck
    <3> DEFINE h == [Top EXCEPT !.at = "once.read"]
               f == CheckListInLoop(externalInterfaceList, h)
    <3>1. h \in OnceFrame /\ h.at = "once.read" /\ stack' = Replace(f)
      BY <2>1, <2>3 DEF OnceFrame, OnceCheck
    <3>2. \A e \in Interfaces \cup {ListHead} : ListNext(externalInterfaceList, e) \in Interfaces \cup {ListHead}
      BY SafeLoopType DEF TypeOK
    <3> HIDE DEF h
    <3>3. f \in OnceFrame /\ f.at = "once.read"
      BY <3>1, <3>2 DEF OnceFrame, CheckListInLoop, TempAfterCheck, SafeLoopNext
    <3> HIDE DEF f
    <3>4. SameCall(f, Top)
      BY <2>3, <3>3 DEF SameCall, OnceCheck, Active
    <3> QED BY <1>0, <2>1, <3>1, <3>3, <3>4, ShapeKept, KindsAreFrames
  <2>4. CASE OnceReturn
    <3>1. stack' \in {Tail(stack), Replace(OnceLoop(TRUE))}
      BY <2>4 DEF OnceReturn
    <3>2. SameCall(OnceLoop(TRUE), Top)
      BY <1>1, <2>4 DEF SameCall, OnceReturn, Active
    <3> QED BY <1>0, <1>1, <2>1, <3>1, <3>2, ShapeKept
  <2> QED BY <1>3, <2>2, <2>3, <2>4
<1>4. ASSUME NEW chunk \in Chunks, ReadBytes(chunk) PROVE Shape'
  <2> DEFINE f == [at |-> "ext.parse", interface |-> Top.pos, chunk |-> chunk]
             g == [Top EXCEPT !.at = "once.check", !.got = TRUE]
  <2>1. stack # <<>> /\ Top \in OnceFrame /\ Top.pos # ListHead
    BY <1>0, <1>4, TopIsFrame, FrameKinds DEF ReadBytes, Active
  <2>2. chunk \in Seq(Packets) /\ Top.pos \in Interfaces
    BY <2>1 DEF Chunks, OnceFrame
  <2>3. f \in ExternalFrame /\ f.at = "ext.parse"
    BY <2>2 DEF ExternalFrame
  <2>4. g \in OnceFrame /\ g.at = "once.check"
    BY <2>1 DEF OnceFrame
  <2>5. stack' = Push(f, g)
    BY <1>4 DEF ReadBytes
  <2> HIDE DEF f, g
  <2>6. SameCall(g, Top) /\ RunsOn(f, g)
    BY <1>4, <2>3, <2>4 DEF SameCall, RunsOn, ReadBytes, Active
  <2> QED BY <1>0, <2>1, <2>3, <2>4, <2>5, <2>6, ShapeKept, KindsAreFrames
<1>5. CASE HandlePacket \/ ExternalAfter \/ ExternalReturn
  <2>1. stack # <<>> /\ Top \in ExternalFrame
    BY <1>0, <1>5, TopIsFrame, FrameKinds DEF HandlePacket, ExternalAfter, ExternalReturn, Active
  <2>2. CASE HandlePacket
    <3> DEFINE msg == Head(Top.chunk)
               f == Decoded(routingTable', msg, Top.interface)
               g == [Top EXCEPT !.at = "ext.after", !.chunk = Tail(@)]
    <3>1. Top.chunk \in Seq(Packets) /\ Top.chunk # <<>> /\ Top.interface \in Interfaces
      BY <2>1, <2>2 DEF HandlePacket, ExternalFrame
    <3>2. msg \in Packets /\ Tail(Top.chunk) \in Seq(Packets)
      BY <3>1
    <3>3. msg \in Messages
      BY <3>2, PacketsAreMessages
    <3>4. routingTable' \in [TableIds -> Interfaces \cup {TheBridge, AllInterfaces}]
      BY <2>2, ExternalType DEF TypeOK
    <3>5. f \in Frames /\ f.at = "dec.loop"
      BY <3>1, <3>3, <3>4, DecodedType, KindsAreFrames DEF Decoded
    <3>6. g \in ExternalFrame /\ g.at = "ext.after"
      BY <2>1, <3>2 DEF ExternalFrame
    <3>7. stack' = Push(f, g)
      BY <2>2 DEF HandlePacket
    <3> HIDE DEF f, g
    <3>8. SameCall(g, Top) /\ RunsOn(f, g)
      BY <2>2, <3>5, <3>6 DEF SameCall, RunsOn, HandlePacket, Active
    <3> QED BY <1>0, <2>1, <3>5, <3>6, <3>7, <3>8, ShapeKept, KindsAreFrames
  <2>3. CASE ExternalAfter \/ ExternalReturn
    <3> DEFINE f == [Top EXCEPT !.at = "ext.parse"]
    <3>1. f \in ExternalFrame /\ f.at = "ext.parse" /\ stack' \in {Tail(stack), Replace(f)}
      BY <2>1, <2>3 DEF ExternalFrame, ExternalAfter, ExternalReturn
    <3> HIDE DEF f
    <3>2. SameCall(f, Top)
      BY <2>3, <3>1 DEF SameCall, ExternalAfter, ExternalReturn, Active
    <3> QED BY <1>0, <2>1, <3>1, <3>2, ShapeKept, KindsAreFrames
  <2> QED BY <1>5, <2>2, <2>3
<1>6. CASE SkipHandler \/ CallHandler \/ CallNode \/ DecodedCheck \/ DecodedReturn
  <2> DEFINE l == bridgeHandlerList
             c == [Top EXCEPT !.at = "dec.check"]
             g == Note(c, Top.pos)
  <2>1. stack # <<>> /\ Top \in DecodedFrame
    BY <1>0, <1>6, TopIsFrame, FrameKinds
       DEF SkipHandler, CallHandler, CallNode, DecodedCheck, DecodedReturn, Active
  <2>2. \A e \in BridgeHandlers \cup {ListHead} : ListNext(l, e) \in BridgeHandlers \cup {ListHead}
    BY SafeLoopType DEF TypeOK
  <2>3. ASSUME Top.pos \in BridgeHandlers PROVE g \in Frames /\ SameCall(g, Top) /\ g.at = "dec.check"
    <3>1. c \in DecodedFrame /\ c.called = Top.called /\ c.at = "dec.check"
      BY <2>1 DEF DecodedFrame
    <3>2. g \in DecodedFrame /\ g.at = "dec.check"
      BY <2>3, <3>1 DEF Note, DecodedFrame
    <3> HIDE DEF g
    <3> QED BY <2>1, <3>2, KindsAreFrames DEF SameCall, DecodedFrame
  <2> HIDE DEF g
  <2>4. CASE SkipHandler
    <3> DEFINE f == SafeLoopNext(l, Top)
    <3>1. f \in DecodedFrame /\ f.at = "dec.loop" /\ stack' = Replace(f)
      BY <2>1, <2>2, <2>4 DEF SafeLoopNext, DecodedFrame, SkipHandler, Active
    <3> HIDE DEF f
    <3>2. SameCall(f, Top)
      BY <2>1, <3>1 DEF SameCall, DecodedFrame
    <3> QED BY <1>0, <2>1, <3>1, <3>2, ShapeKept, KindsAreFrames
  <2>5. CASE CallHandler
    <3>1. Top.pos \in BridgeHandlers /\ stack' = Push(u, g)
      BY <2>5 DEF CallHandler, BridgeHandlers, u, g
    <3> QED BY <1>0, <2>1, <2>3, <3>1, ShapeKept DEF RunsOn
  <2>6. CASE CallNode
    <3> DEFINE n == Top.pos
               f == NodeLoop(n, Top.origin)
    <3>1. n \in Nodes /\ n \in BridgeHandlers /\ Top.origin \in Interfaces \cup {TheBridge}
      BY <2>1, <2>6 DEF CallNode, BridgeHandlers, DecodedFrame
    <3>2. nodeHandlerList[n] \in Seq(NodeHandlers)
      BY <3>1 DEF TypeOK
    <3>3. f \in Frames /\ f.at = "node.loop"
      BY <3>1, <3>2, ListNextLinked, LinkedType, KindsAreFrames DEF NodeLoop, NodeFrame
    <3>4. stack' \in {Push(f, g), Replace(g)}
      BY <2>6 DEF CallNode, g
    <3> HIDE DEF f
    <3> QED BY <1>0, <2>1, <2>3, <3>1, <3>3, <3>4, ShapeKept DEF RunsOn
  <2>7. CASE DecodedCheck
    <3> DEFINE h == [Top EXCEPT !.at = "dec.loop"]
               f == CheckListInLoop(l, h)
    <3>1. h \in DecodedFrame /\ h.at = "dec.loop" /\ stack' = Replace(f)
      BY <2>1, <2>7 DEF DecodedFrame, DecodedCheck
    <3>2. f \in DecodedFrame /\ f.at = "dec.loop"
      <4> HIDE DEF h
      <4> QED BY <2>2, <3>1 DEF CheckListInLoop, TempAfterCheck, SafeLoopNext, DecodedFrame
    <3> HIDE DEF f
    <3>3. SameCall(f, Top)
      BY <2>1, <3>2 DEF SameCall, DecodedFrame
    <3> QED BY <1>0, <2>1, <3>1, <3>2, <3>3, ShapeKept, KindsAreFrames
  <2>8. CASE DecodedReturn
    BY <1>0, <2>1, <2>8, ShapeKept DEF DecodedReturn
  <2> QED BY <1>6, <2>4, <2>5, <2>6, <2>7, <2>8
<1>7. CASE SkipNodeHandler \/ NodeNext \/ CallNodeHandler
  <2> DEFINE l == nodeHandlerList[Top.node]
             f == NodeLoopNext(Top)
             c == [Top EXCEPT !.at = "node.next"]
             g == Note(c, Top.pos)
  <2>1. stack # <<>> /\ Top \in NodeFrame
    BY <1>0, <1>7, TopIsFrame, FrameKinds DEF SkipNodeHandler, NodeNext, CallNodeHandler, Active
  <2>2. ListNext(l, Top.pos) \in NodeHandlers \cup {ListHead}
    <3>1. l \in Seq(NodeHandlers) /\ Top.pos \in NodeHandlers \cup {ListHead}
      BY <2>1 DEF TypeOK, NodeFrame
    <3> QED BY <3>1, SafeLoopType
  <2>3. f \in NodeFrame /\ f.at = "node.loop"
    BY <2>1, <2>2 DEF NodeLoopNext, NodeFrame
  <2>4. ASSUME Top.pos # ListHead PROVE g \in NodeFrame /\ g.at = "node.next"
    <3>1. c \in NodeFrame /\ c.called = Top.called /\ c.at = "node.next" /\ Top.pos \in NodeHandlers
      BY <2>1, <2>4 DEF NodeFrame
    <3> QED BY <3>1 DEF Note, NodeFrame
  <2>5. \/ stack' = Replace(f)
        \/ Top.pos # ListHead /\ stack' = Push(u, g)
    BY <1>7 DEF SkipNodeHandler, NodeNext, CallNodeHandler, u
  <2> HIDE DEF f, g
  <2>6. SameCall(f, Top)
    BY <2>1, <2>3 DEF SameCall, NodeFrame
  <2>7. Top.pos # ListHead => SameCall(g, Top) /\ RunsOn(u, g)
    BY <1>0, <2>1, <2>4 DEF SameCall, NodeFrame, RunsOn
  <2> QED BY <1>0, <2>1, <2>3, <2>4, <2>5, <2>6, <2>7, ShapeKept, KindsAreFrames
<1>8. CASE NodeReturn \/ UserReturn
  <2>1. stack # <<>> /\ stack' = Tail(stack)
    BY <1>8 DEF NodeReturn, UserReturn, Active
  <2> QED BY <1>0, <2>1, ShapeKept
<1>9. ASSUME NEW msg \in Messages, Sent(msg) PROVE Shape'
  <2> DEFINE f == Decoded(routingTable, msg, TheBridge)
  <2>1. f \in Frames /\ f.at = "dec.loop"
    BY DecodedType, KindsAreFrames DEF TypeOK, Decoded
  <2>2. stack' = Call(f)
    BY <1>9 DEF Sent
  <2> HIDE DEF f
  <2> QED BY <1>0, <2>1, <2>2, ShapeKept
<1>10. ASSUME NEW msg \in Messages, SendRaw(msg) PROVE Shape'
  BY <1>9, <1>10 DEF SendRaw, Sent, Calls
<1>11. ASSUME NEW n \in Nodes, NEW id \in DeviceIds, NodeSend(n, id) PROVE Shape'
  <2>1. [sender |-> ownId[n], receiver |-> id] \in Messages
    BY DEF TypeOK, Messages
  <2> QED BY <1>9, <1>11, <2>1 DEF NodeSend, Sent, Calls
<1>12. ASSUME NEW x, NEW y,
              \/ RegisterExternalInterface(x) \/ DeregisterExternalInterface(x) \/ RegisterBridgeHandler(x)
              \/ NodeRegister(x) \/ NodeSetOwnSenderId(x, y) \/ SetRoutingForDeviceId(x, y) \/ BridgeSetFlags(x)
              \/ ExternalInterfaceSetFlags(x, y) \/ RegisterNodeHandler(x, y) \/ UNCHANGED vars
       PROVE  Shape'
  <2>1. stack' = stack
    BY <1>12
       DEF RegisterExternalInterface, DeregisterExternalInterface, RegisterBridgeHandler, NodeRegister,
         NodeSetOwnSenderId, SetRoutingForDeviceId, BridgeSetFlags, ExternalInterfaceSetFlags,
         RegisterNodeHandler, vars
  <2> QED BY <2>1 DEF Shape
<1>13. ASSUME NEW x, NEW y,
              \/ DeregisterBridgeHandler(x) \/ NodeDeregister(x) \/ HandlerSetFlags(x, y)
              \/ DeregisterNodeHandler(x, y)
       PROVE  Shape'
  <2>1. PICK h : stack' = Unsteady(h)
    BY <1>13
       DEF DeregisterBridgeHandler, DetachHandler, NodeDeregister, HandlerSetFlags, DeregisterNodeHandler
  <2>2. Len(stack') = Len(stack) /\ \A k \in 1 .. Len(stack) : stack'[k].at = stack[k].at
    BY <1>0, <2>1, UnsteadyType
  <2>3. \A k \in 1 .. Len(stack) : k < Len(stack) => stack'[k + 1].at = stack[k + 1].at
    BY <1>0, <2>2
  <2> QED BY <1>0, <2>2, <2>3 DEF Shape
<1> QED BY <1>2, <1>3, <1>4, <1>5, <1>6, <1>7, <1>8, <1>10, <1>11, <1>12, <1>13, PacketsAreMessages
     DEF AnyStep, Run, Next, Application, SendsOrRoutes

-----------------------------------------------------------------------------
(***************************************************************************)
(* While the message of an interface that is no mirror is handled, its     *)
(* sender is routed there, unless the id was given to a node or forgotten. *)
(***************************************************************************)
RouteBack(table, mirror, f) ==
  f.origin \in Interfaces /\ f.msg.sender \in TableIds =>
    table[f.msg.sender] \in {f.origin, TheBridge, AllInterfaces} \/ f.origin \in mirror

RepliesInv == \A k \in 1 .. Len(stack) : Handles(stack[k]) => RouteBack(routingTable, mirrors, stack[k])

(***************************************************************************)
(* No step routes an id to another interface, but a packet, and the calls  *)
(* that set routes and flags.                                              *)
(***************************************************************************)
LEMMA RoutesBackKept ==
  ASSUME TypeOK, [Next]_vars, ~HandlePacket, {"set_routing", "set_interface_flags"} \cap Api = {},
         NEW f, RouteBack(routingTable, mirrors, f)
  PROVE  RouteBack(routingTable', mirrors', f)
<1> SUFFICES UNCHANGED mirrors
               /\ \A id \in TableIds : routingTable'[id] \in {routingTable[id], TheBridge, AllInterfaces}
  BY DEF RouteBack
<1>1. CASE UNCHANGED <<routingTable, mirrors>>
  BY <1>1
<1>2. ASSUME NEW again \in BOOLEAN, Process(again) PROVE UNCHANGED <<routingTable, mirrors>>
  BY <1>2 DEF Process, config
<1>3. ASSUME Run PROVE UNCHANGED <<routingTable, mirrors>>
  BY <1>3 DEF Run, ReadNothing, ReadBytes, OnceCheck, OnceReturn, ExternalAfter,
      ExternalReturn, SkipHandler, CallHandler, CallNode, DecodedCheck, DecodedReturn,
      SkipNodeHandler, CallNodeHandler, NodeNext, NodeReturn, UserReturn, config
<1>4. ASSUME NEW i \in Interfaces, DeregisterExternalInterface(i)
      PROVE  UNCHANGED mirrors
               /\ \A id \in TableIds : routingTable'[id] \in {routingTable[id], TheBridge, AllInterfaces}
  BY <1>4 DEF DeregisterExternalInterface, config, RoutingTableInvalidateInterface
<1>5. ASSUME NEW n \in Nodes, NEW id, NodeRegister(n) \/ NodeDeregister(n) \/ NodeSetOwnSenderId(n, id)
      PROVE  UNCHANGED mirrors
               /\ \A j \in TableIds : routingTable'[j] \in {routingTable[j], TheBridge, AllInterfaces}
  BY <1>5 DEF NodeRegister, NodeDeregister, NodeSetOwnSenderId, MarkInternal, ClearInternal,
    RoutingTableUpdate, config
<1>6. ASSUME NEW i, NEW id, SetRoutingForDeviceId(i, id) \/ ExternalInterfaceSetFlags(i, id) PROVE FALSE
  BY <1>6 DEF SetRoutingForDeviceId, ExternalInterfaceSetFlags, Calls
<1>7. ASSUME NEW x, NEW y,
             \/ RegisterExternalInterface(x) \/ RegisterBridgeHandler(x) \/ DeregisterBridgeHandler(x)
             \/ NodeSend(x, y) \/ SendRaw(x) \/ BridgeSetFlags(x) \/ HandlerSetFlags(x, y)
             \/ RegisterNodeHandler(x, y) \/ DeregisterNodeHandler(x, y) \/ UNCHANGED vars
      PROVE  UNCHANGED <<routingTable, mirrors>>
  BY <1>7
     DEF RegisterExternalInterface, RegisterBridgeHandler, DeregisterBridgeHandler, NodeSend, SendRaw,
       BridgeSetFlags, HandlerSetFlags, RegisterNodeHandler, DeregisterNodeHandler, config, vars
<1> QED BY <1>1, <1>2, <1>3, <1>4, <1>5, <1>6, <1>7 DEF Next, Application

(***************************************************************************)
(* A packet is handled while no other is, and learned before.              *)
(***************************************************************************)
LEMMA RepliesStep ==
  ASSUME TypeOK, Shape, RepliesInv, [Next]_vars, {"set_routing", "set_interface_flags"} \cap Api = {}
  PROVE  RepliesInv'
<1>0. TheBridge \notin Interfaces
  BY BridgeAssumption
<1> SUFFICES ASSUME NEW k \in 1 .. Len(stack'), Handles(stack'[k]) PROVE RouteBack(routingTable', mirrors', stack'[k])
  BY DEF RepliesInv, Handles, RouteBack
<1>1. CASE Continues(stack'[k])
  <2>1. PICK j \in 1 .. Len(stack) : Handles(stack[j]) /\ SameMessage(stack'[k], stack[j])
    BY <1>1 DEF Continues
  <2>2. ~HandlePacket
    <3>1. SUFFICES ASSUME HandlePacket PROVE FALSE
      OBVIOUS
    <3>2. stack[1].at = "ext.parse" /\ stack \in Seq(Frames) /\ stack # <<>>
      BY <3>1 DEF HandlePacket, Active, Top, TypeOK
    <3>3. 1 \in 1 .. Len(stack)
      BY <3>2
    <3>4. 1 + 1 = Len(stack) /\ stack[1 + 1].at = "once.check"
      BY <3>2, <3>3 DEF Shape
    <3>5. Len(stack) = 2 /\ stack[2].at = "once.check"
      BY <3>4
    <3>6. j = 1 \/ j = 2
      BY <3>5
    <3> QED BY <2>1, <3>2, <3>5, <3>6 DEF Handles
  <2>3. RouteBack(routingTable, mirrors, stack[j])
    BY <2>1 DEF RepliesInv
  <2>4. RouteBack(routingTable, mirrors, stack'[k])
    BY <2>1, <2>3 DEF RouteBack, SameMessage
  <2> QED BY <2>2, <2>4, RoutesBackKept
<1>2. CASE Enters(stack'[k])
  <2>1. PICK msg \in Messages, origin \in Interfaces \cup {TheBridge} :
          /\ stack'[k] = Decoded(routingTable', msg, origin)
          /\ origin # TheBridge => HandlePacket /\ msg = Head(Top.chunk) /\ origin = Top.interface
    BY <1>2 DEF Enters
  <2>2. stack'[k].msg = msg /\ stack'[k].origin = origin
    BY <2>1 DEF Decoded
  <2>3. ASSUME origin \in Interfaces, msg.sender \in TableIds
        PROVE  routingTable'[msg.sender] \in {origin, TheBridge, AllInterfaces} \/ origin \in mirrors'
    <3>1. routingTable' = Learned(origin, msg) /\ UNCHANGED mirrors
      BY <1>0, <2>1, <2>3 DEF HandlePacket, config
    <3> QED BY <2>3, <3>1 DEF Learned, RoutingTableUpdate, RoutingGetDestination
  <2> QED BY <2>2, <2>3 DEF RouteBack
<1> QED BY <1>1, <1>2, StepContinues, NextIsAStep

(***************************************************************************)
(* A handler of the application was called for a message: that of the      *)
(* innermost loop over the bridge handlers.                                *)
(***************************************************************************)
LEMMA HandledIsBelow ==
  ASSUME TypeOK, Shape, stack # <<>>, Top.at = "user"
  PROVE  \E k \in 1 .. Len(stack) : Handled = stack[k] /\ Handles(stack[k])
<1> DEFINE Innermost(k) == /\ stack[k].at = "dec.check"
                           /\ \A j \in 1 .. k - 1 : stack[j].at # "dec.check"
<1>1. stack \in Seq(Frames) /\ Len(stack) \in Nat /\ 1 \in 1 .. Len(stack) /\ stack[1].at = "user"
  BY DEF TypeOK, Top
<1>2. 2 \in 1 .. Len(stack) /\ stack[2].at \in {"dec.check", "node.next"}
  <2>1. 1 < Len(stack) /\ stack[1 + 1].at \in {"dec.check", "node.next"}
    BY <1>1 DEF Shape
  <2> QED BY <1>1, <2>1
<1>3. stack[2].at = "node.next" => 3 \in 1 .. Len(stack) /\ stack[3].at = "dec.check"
  <2>1. stack[2].at = "node.next" => 2 < Len(stack) /\ stack[2 + 1].at = "dec.check"
    BY <1>2 DEF Shape
  <2> QED BY <1>1, <2>1
<1>4. \E k \in 1 .. Len(stack) : Innermost(k)
  <2>1. CASE stack[2].at = "dec.check"
    <3>1. \A j \in 1 .. 2 - 1 : j = 1
      OBVIOUS
    <3> QED BY <1>1, <1>2, <2>1, <3>1
  <2>2. CASE stack[2].at = "node.next"
    <3>1. \A j \in 1 .. 3 - 1 : j = 1 \/ j = 2
      OBVIOUS
    <3> QED BY <1>1, <1>3, <2>2, <3>1
  <2> QED BY <1>2, <2>1, <2>2
<1>5. \E k \in 1 .. Len(stack) : Handled = stack[k] /\ Innermost(k)
  BY <1>4 DEF Handled
<1> QED BY <1>5 DEF Handles

LEMMA ReplyEnters ==
  ASSUME TypeOK, Shape, RepliesInv, InternalIdsMarked, [Next]_vars,
         Entered, stack'[1].origin = TheBridge, stack # <<>>,
         stack'[1].msg.receiver = Handled.msg.sender,
         Handled.origin \in Registered,
         stack'[1].msg.receiver \notin OwnIds(bridgeHandlerList)
  PROVE  Handled.origin \in stack'[1].mirrored \cup stack'[1].routed
<1>0. Registered \subseteq Interfaces /\ TheBridge \notin Interfaces /\ AllInterfaces \notin Interfaces
      /\ TheBridge # AllInterfaces
  BY LinkedType, BridgeAssumption DEF TypeOK, Registered
<1>1. ~HandlePacket
  <2>1. ASSUME HandlePacket PROVE FALSE
    <3>1. Top.interface \in Interfaces
      BY <2>1, TopIsFrame, FrameKinds DEF HandlePacket, Active, TypeOK, ExternalFrame
    <3>2. stack'[1].origin = Top.interface
      BY <2>1 DEF HandlePacket, Push, Decoded
    <3> QED BY <1>0, <3>1, <3>2
  <2> QED BY <2>1
<1>2. PICK msg \in Messages : Sent(msg)
  BY <1>1, EnteredHow, NextIsAStep
<1>3. stack'[1] = Decoded(routingTable, msg, TheBridge) /\ Top.at = "user"
  BY <1>2 DEF Sent, Call
<1>4. /\ stack'[1].msg = msg
      /\ stack'[1].mirrored = Mirrored(TheBridge)
      /\ stack'[1].routed = Routed(routingTable, msg, TheBridge)
  BY <1>3 DEF Decoded
<1> DEFINE o == Handled.origin
           id == Handled.msg.sender
<1>5. RouteBack(routingTable, mirrors, Handled)
  BY <1>3, HandledIsBelow DEF RepliesInv
<1>6. id \in TableIds => routingTable[id] \in {o, AllInterfaces} \/ o \in mirrors
  <2>1. id \in TableIds => routingTable[id] # TheBridge
    BY <1>4 DEF InternalIdsMarked
  <2> QED BY <1>0, <1>5, <2>1 DEF RouteBack
<1>7. o \in Registered /\ o # TheBridge /\ o # AllInterfaces /\ msg.receiver = id
  BY <1>0, <1>4
<1> HIDE DEF o, id
<1>8. CASE o \in mirrors
  BY <1>4, <1>7, <1>8 DEF Mirrored, o
<1>9. CASE o \notin mirrors
  <2>1. Destination(routingTable, msg) \in {o, AllInterfaces}
    BY <1>6, <1>7, <1>9 DEF Destination, RoutingGetDestination
  <2>2. o \in Routed(routingTable, msg, TheBridge)
    BY <1>0, <1>7, <1>9, <2>1 DEF Routed, Suppressed
  <2> QED BY <1>4, <2>2 DEF o
<1> QED BY <1>8, <1>9

(***************************************************************************)
(* An answer goes out on the interface its message came from, at any depth *)
(* of nested calls, whatever interfaces and nodes come and go meanwhile: if*)
(* the application leaves routes and mirrors to the bridge, and keeps the  *)
(* rule of ids.                                                            *)
(***************************************************************************)
THEOREM RepliesGoBack ==
  "ids" \in Discipline /\ {"set_routing", "set_interface_flags"} \cap Api = {}
  => (Spec => RepliesReachOrigin)
<1> SUFFICES ASSUME "ids" \in Discipline, {"set_routing", "set_interface_flags"} \cap Api = {}
             PROVE  Spec => RepliesReachOrigin
  OBVIOUS
<1>1. Init => Shape /\ RepliesInv
  BY DEF Init, Shape, RepliesInv
<1>2. TypeOK /\ Shape /\ [Next]_vars => Shape'
  BY ShapeStep, NextIsAStep
<1>3. TypeOK /\ Shape /\ RepliesInv /\ [Next]_vars => RepliesInv'
  BY RepliesStep
<1>4. TypeOK /\ Shape /\ RepliesInv /\ InternalIdsMarked /\ [Next]_vars =>
        [Entered /\ stack'[1].origin = TheBridge /\ stack # <<>> =>
           LET f == stack'[1]
           IN  f.msg.receiver = Handled.msg.sender
               /\ Handled.origin \in Registered
               /\ f.msg.receiver \notin OwnIds(bridgeHandlerList)
               => Handled.origin \in f.mirrored \cup f.routed]_vars
  BY ReplyEnters
<1>5. Spec => []InternalIdsMarked
  BY InternalIdsStayMarked
<1> QED BY <1>1, <1>2, <1>3, <1>4, <1>5, TypeCorrect, PTL DEF Spec, RepliesReachOrigin

-----------------------------------------------------------------------------
(***************************************************************************)
(* The places of a list without repetitions.                               *)
(***************************************************************************)
LEMMA PlaceOf ==
  ASSUME NEW S, NEW list, IsList(list, S)
  PROVE  /\ \A e \in Linked(list) : Place(list, e) \in 1 .. Len(list) /\ list[Place(list, e)] = e
         /\ \A k \in 1 .. Len(list) : list[k] \in Linked(list) /\ Place(list, list[k]) = k
<1>1. ASSUME NEW e \in Linked(list)
      PROVE  Place(list, e) \in 1 .. Len(list) /\ list[Place(list, e)] = e
  BY DEF Linked, Place
<1>2. ASSUME NEW k \in 1 .. Len(list)
      PROVE  list[k] \in Linked(list) /\ Place(list, list[k]) = k
  <2>1. list[k] \in Linked(list)
    BY DEF Linked
  <2> QED BY <1>1, <2>1 DEF IsList
<1> QED BY <1>1, <1>2

(***************************************************************************)
(* While there is an entry behind e, the successor of e comes no later.    *)
(***************************************************************************)
LEMMA NextComes ==
  ASSUME NEW S, NEW list, IsList(list, S), ListHead \notin S, NEW h \in Linked(list),
         NEW e, e = ListHead \/ (e \in Linked(list) /\ Place(list, h) > Place(list, e))
  PROVE  /\ ListNext(list, e) \in Linked(list) /\ ListNext(list, e) # ListHead
         /\ Place(list, h) >= Place(list, ListNext(list, e))
<1>1. Len(list) \in Nat /\ ListHead \notin Linked(list)
  BY LinkedType DEF IsList
<1>2. Place(list, h) \in 1 .. Len(list)
  BY PlaceOf
<1>3. CASE e = ListHead
  <2>1. 1 \in 1 .. Len(list) /\ 0 < Len(list)
    BY <1>1, <1>2
  <2>2. ListNext(list, e) = list[1]
    BY <1>3, <2>1 DEF ListNext
  <2>3. list[1] \in Linked(list) /\ Place(list, list[1]) = 1
    BY <2>1, PlaceOf
  <2> QED BY <1>1, <1>2, <2>2, <2>3
<1>4. CASE e \in Linked(list) /\ Place(list, h) > Place(list, e)
  <2> DEFINE i == Place(list, e)
  <2>1. i \in 1 .. Len(list)
    BY <1>4, PlaceOf
  <2>2. e # ListHead
    BY <1>1, <1>4
  <2>3. i < Len(list) => ListNext(list, e) = list[i + 1]
    BY <1>4, <2>2 DEF ListNext
  <2> HIDE DEF i
  <2>4. i < Len(list) /\ i + 1 \in 1 .. Len(list) /\ Place(list, h) >= i + 1
    BY <1>1, <1>2, <1>4, <2>1 DEF i
  <2> DEFINE j == i + 1
  <2>5. j \in 1 .. Len(list) /\ ListNext(list, e) = list[j] /\ Place(list, h) >= j
    BY <2>3, <2>4
  <2> HIDE DEF j
  <2>6. list[j] \in Linked(list) /\ Place(list, list[j]) = j
    BY <2>5, PlaceOf
  <2> QED BY <1>1, <2>5, <2>6
<1> QED BY <1>3, <1>4

(***************************************************************************)
(* A new entry comes before all others, which keep their order.            *)
(***************************************************************************)
LEMMA ListAddPlaces ==
  ASSUME NEW S, NEW list, IsList(list, S), NEW e \in S, e \notin Linked(list)
  PROVE  /\ Place(ListAdd(list, e), e) = 1
         /\ \A h \in Linked(list) : Place(ListAdd(list, e), h) = Place(list, h) + 1
         /\ \A h \in Linked(list) : Place(list, h) \in Nat \ {0}
<1> DEFINE l == ListAdd(list, e)
<1>1. IsList(l, S) /\ list \in Seq(S)
  BY ListAddIsList DEF IsList
<1>2. Len(l) = Len(list) + 1 /\ l[1] = e /\ Len(list) \in Nat /\ \A k \in 1 .. Len(list) : l[k + 1] = list[k]
  BY <1>1 DEF ListAdd
<1> HIDE DEF l
<1>3. Place(l, e) = 1
  <2>1. 1 \in 1 .. Len(l)
    BY <1>2
  <2> QED BY <1>1, <1>2, <2>1, PlaceOf
<1>4. ASSUME NEW h \in Linked(list) PROVE Place(l, h) = Place(list, h) + 1 /\ Place(list, h) \in Nat \ {0}
  <2> DEFINE k == Place(list, h)
  <2>1. k \in 1 .. Len(list) /\ list[k] = h
    BY PlaceOf
  <2> HIDE DEF k
  <2> DEFINE j == k + 1
  <2>2. j \in 1 .. Len(l) /\ l[j] = h
    BY <1>2, <2>1
  <2> HIDE DEF j
  <2>3. Place(l, h) = j
    BY <1>1, <2>2, PlaceOf
  <2> QED BY <2>1, <2>3 DEF j, k
<1> QED BY <1>3, <1>4 DEF l

(***************************************************************************)
(* Whatever is removed, the others keep their order.                       *)
(***************************************************************************)
LEMMA ListDelInitOrder ==
  ASSUME NEW S, NEW list, IsList(list, S), NEW x,
         NEW g \in Linked(list), NEW h \in Linked(list), g # x, h # x,
         Place(list, g) < Place(list, h)
  PROVE  Place(ListDelInit(list, x), g) < Place(ListDelInit(list, x), h)
<1> DEFINE l == ListDelInit(list, x)
<1>1. CASE x \notin Linked(list)
  BY <1>1 DEF ListDelInit
<1>2. CASE x \in Linked(list)
  <2> DEFINE i == Place(list, x)
  <2>1. i \in 1 .. Len(list) /\ list[i] = x /\ Len(list) \in Nat /\ Len(list) - 1 \in Nat
    <3>1. i \in 1 .. Len(list) /\ list[i] = x /\ Len(list) \in Nat
      BY <1>2, PlaceOf DEF IsList
    <3> QED BY <3>1
  <2>2. l = [k \in 1 .. Len(list) - 1 |-> IF k < i THEN list[k] ELSE list[k + 1]]
    BY <1>2 DEF ListDelInit
  <2>3. IsList(l, S)
    BY ListDelInitUnlinks
  <2> HIDE DEF l, i
  <2>4. /\ Len(l) = Len(list) - 1
        /\ \A k \in 1 .. Len(list) - 1 : l[k] = IF k < i THEN list[k] ELSE list[k + 1]
    BY <2>1, <2>2
  <2>5. ASSUME NEW e \in Linked(list), e # x
        PROVE  Place(list, e) \in 1 .. Len(list) /\ Place(list, e) # i
               /\ Place(l, e) = IF Place(list, e) < i THEN Place(list, e) ELSE Place(list, e) - 1
    <3> DEFINE k == Place(list, e)
               j == IF k < i THEN k ELSE k - 1
    <3>1. k \in 1 .. Len(list) /\ list[k] = e
      BY PlaceOf
    <3>2. k # i
      BY <2>1, <2>5, <3>1
    <3> HIDE DEF k
    <3>3. j \in 1 .. Len(l) /\ j \in 1 .. Len(list) - 1
      BY <2>1, <2>4, <3>1, <3>2
    <3>4. l[j] = e
      <4>1. CASE k < i
        <5>1. j = k
          BY <4>1
        <5>2. l[k] = list[k]
          BY <2>4, <3>3, <4>1, <5>1
        <5> QED BY <3>1, <5>1, <5>2
      <4>2. CASE ~(k < i)
        <5>1. j = k - 1 /\ ~(k - 1 < i) /\ (k - 1) + 1 = k
          BY <2>1, <3>1, <3>2, <4>2
        <5>2. l[k - 1] = list[(k - 1) + 1]
          BY <2>4, <3>3, <5>1
        <5> QED BY <3>1, <5>1, <5>2
      <4> QED BY <4>1, <4>2
    <3> HIDE DEF j
    <3>5. Place(l, e) = j
      BY <2>3, <3>3, <3>4, PlaceOf
    <3> QED BY <3>1, <3>2, <3>5 DEF j, k
  <2>6. /\ Place(list, g) \in 1 .. Len(list) /\ Place(list, g) # i
        /\ Place(l, g) = IF Place(list, g) < i THEN Place(list, g) ELSE Place(list, g) - 1
    BY <2>5
  <2>7. /\ Place(list, h) \in 1 .. Len(list) /\ Place(list, h) # i
        /\ Place(l, h) = IF Place(list, h) < i THEN Place(list, h) ELSE Place(list, h) - 1
    BY <2>5
  <2>8. Place(l, g) < Place(l, h)
    BY <2>1, <2>6, <2>7
  <2> QED BY <2>8 DEF l
<1> QED BY <1>1, <1>2

-----------------------------------------------------------------------------
(***************************************************************************)
(* How far a loop has come: a handler that is steady has had its turn, or  *)
(* is still ahead of both loop variables.  An entry that was unlinked is   *)
(* nowhere, and nothing is ahead of the sentinel.                          *)
(***************************************************************************)
HadItsTurn(f, h) == h \in f.called \/ OptedOut(h, f.origin)

Behind(list, e, h) == e \in Linked(list) => Place(list, h) > Place(list, e)

NotBefore(list, e, h) == e \in Linked(list) => Place(list, h) >= Place(list, e)

AheadOf(f, h) ==
  /\ f.at = "dec.loop" => f.pos # ListHead /\ NotBefore(bridgeHandlerList, f.pos, h)
  /\ f.at = "dec.check" => /\ f.temp # ListHead
                           /\ Behind(bridgeHandlerList, f.pos, h)
                           /\ NotBefore(bridgeHandlerList, f.temp, h)
  /\ f.at = "node.loop" => f.pos # ListHead /\ NotBefore(nodeHandlerList[f.node], f.pos, h)
  /\ f.at = "node.next" => Behind(nodeHandlerList[f.node], f.pos, h)

(***************************************************************************)
(* The list a loop runs over.                                              *)
(***************************************************************************)
LoopList(f) == IF f.at \in {"dec.loop", "dec.check"} THEN bridgeHandlerList ELSE nodeHandlerList[f.node]

FrameProgress(f) ==
  f.at \in {"dec.loop", "dec.check", "node.loop", "node.next"} =>
    /\ f.steady \subseteq Linked(LoopList(f))
    /\ f.at = "dec.loop" => f.temp = ListNext(bridgeHandlerList, f.pos)
    /\ \A h \in f.steady : HadItsTurn(f, h) \/ AheadOf(f, h)

ProgressInv == \A k \in 1 .. Len(stack) : FrameProgress(stack[k])

(***************************************************************************)
(* A step of the library: only the new frames need a look.                 *)
(***************************************************************************)
LEMMA ProgressKept ==
  ASSUME stack \in Seq(Frames), ProgressInv, UNCHANGED <<lists, quiet>>,
         NEW f \in Frames, FrameProgress(f), NEW g \in Frames, FrameProgress(g),
         \/ stack # <<>> /\ stack' \in {Tail(stack), Replace(f), Push(f, g)}
         \/ stack' = Call(f)
  PROVE  ProgressInv'
<1>1. UNCHANGED <<bridgeHandlerList, nodeHandlerList, quiet>>
  BY DEF lists
<1>2. \A h : FrameProgress(h) => FrameProgress(h)'
  BY <1>1 DEF FrameProgress, LoopList, HadItsTurn, OptedOut, AheadOf
<1>3. SUFFICES ASSUME NEW k \in 1 .. Len(stack') PROVE FrameProgress(stack'[k])
  BY <1>1, <1>2 DEF ProgressInv, FrameProgress, LoopList, HadItsTurn, OptedOut, AheadOf
<1>4. stack'[k] \in {f, g} \/ \E j \in 1 .. Len(stack) : stack'[k] = stack[j]
  BY FramesAfter
<1> QED BY <1>4 DEF ProgressInv

(***************************************************************************)
(* The calls that are no loop over handlers.                               *)
(***************************************************************************)
LEMMA NoLoopProgress ==
  ASSUME NEW f, f.at \notin {"dec.loop", "dec.check", "node.loop", "node.next"}
  PROVE  FrameProgress(f)
  BY DEF FrameProgress

(***************************************************************************)
(* A loop over the bridge handlers starts in front of all of them.         *)
(***************************************************************************)
LEMMA DecodedProgress ==
  ASSUME TypeOK, ListsInv, NEW table, NEW msg, NEW origin
  PROVE  FrameProgress(Decoded(table, msg, origin))
<1> DEFINE l == bridgeHandlerList
           f == Decoded(table, msg, origin)
<1>1. IsList(l, BridgeHandlers) /\ ListHead \notin BridgeHandlers
  BY BridgeAssumption DEF ListsInv
<1>2. /\ f.at = "dec.loop" /\ f.pos = ListNext(l, ListHead) /\ f.temp = ListNext(l, f.pos)
      /\ f.steady = Linked(l)
  BY DEF Decoded, SafeLoopPos, SafeLoopTemp, Attached
<1> HIDE DEF f
<1>3. ASSUME NEW h \in Linked(l)
      PROVE  f.pos # ListHead /\ Place(l, h) >= Place(l, f.pos)
  BY <1>1, <1>2, NextComes
<1> QED BY <1>2, <1>3 DEF FrameProgress, LoopList, AheadOf, NotBefore, f

(***************************************************************************)
(* So does one over the handlers of a node.                                *)
(***************************************************************************)
LEMMA NodeLoopProgress ==
  ASSUME TypeOK, ListsInv, NEW n \in Nodes, NEW origin
  PROVE  FrameProgress(NodeLoop(n, origin))
<1> DEFINE l == nodeHandlerList[n]
           f == NodeLoop(n, origin)
<1>1. IsList(l, NodeHandlers) /\ ListHead \notin NodeHandlers
  BY BridgeAssumption DEF ListsInv
<1>2. f.at = "node.loop" /\ f.pos = ListNext(l, ListHead) /\ f.steady = Linked(l) /\ f.node = n
  BY DEF NodeLoop
<1> HIDE DEF f
<1>3. ASSUME NEW h \in Linked(l)
      PROVE  f.pos # ListHead /\ Place(l, h) >= Place(l, f.pos)
  BY <1>1, <1>2, NextComes
<1> QED BY <1>2, <1>3 DEF FrameProgress, LoopList, AheadOf, NotBefore, f

(***************************************************************************)
(* An entry of a list that is not before another, and not that one, is     *)
(* behind it.                                                              *)
(***************************************************************************)
LEMMA ComesLater ==
  ASSUME NEW S, NEW list, IsList(list, S), NEW e \in Linked(list), NEW h \in Linked(list),
         h # e, Place(list, h) >= Place(list, e)
  PROVE  Place(list, h) > Place(list, e)
<1>1. /\ Place(list, e) \in Int /\ list[Place(list, e)] = e
      /\ Place(list, h) \in Int /\ list[Place(list, h)] = h
  BY PlaceOf
<1>2. Place(list, e) # Place(list, h)
  BY <1>1
<1> QED BY <1>1, <1>2

(***************************************************************************)
(* Each turn of the loop over the bridge handlers.                         *)
(***************************************************************************)
LEMMA HandlerTurn ==
  ASSUME TypeOK, ListsInv, StackInv, ProgressInv,
         SkipHandler \/ CallHandler \/ CallNode \/ DecodedCheck \/ DecodedReturn
  PROVE  ProgressInv'
<1> DEFINE l == bridgeHandlerList
           p == Top.pos
           u == [at |-> "user"]
           c == [Top EXCEPT !.at = "dec.check"]
           g == Note(c, p)
<1>0. stack \in Seq(Frames) /\ stack # <<>> /\ l \in Seq(BridgeHandlers) /\ UNCHANGED <<lists, quiet>>
  BY DEF TypeOK, config, SkipHandler, CallHandler, CallNode, DecodedCheck, DecodedReturn, Active
<1>1. Top \in DecodedFrame /\ FrameInv(Top) /\ FrameProgress(Top)
  BY <1>0, TopIsFrame, FrameKinds
     DEF SkipHandler, CallHandler, CallNode, DecodedCheck, DecodedReturn, Active, StackInv, ProgressInv, Top
<1>2. ListHead \notin BridgeHandlers /\ Linked(l) \subseteq BridgeHandlers /\ IsList(l, BridgeHandlers)
  BY <1>0, BridgeAssumption, LinkedType DEF ListsInv
<1>3. u \in Frames /\ FrameProgress(u)
  BY KindsAreFrames, NoLoopProgress
<1> HIDE DEF u
<1>4. Top.steady \subseteq Linked(l)
  BY <1>1 DEF FrameProgress, LoopList, DecodedFrame
<1>5. ASSUME Top.at = "dec.loop", p # ListHead,
             NEW h \in Top.steady, ~HadItsTurn(Top, h), h # p
      PROVE  /\ Place(l, h) > Place(l, p)
             /\ Top.temp # ListHead /\ Place(l, h) >= Place(l, Top.temp)
  <2>1. p \in Linked(l) /\ Top.temp = ListNext(l, p)
    BY <1>1, <1>5 DEF FrameInv, FrameProgress, Attached
  <2>2. Place(l, h) >= Place(l, p)
    BY <1>1, <1>5, <2>1 DEF FrameProgress, AheadOf, NotBefore
  <2>3. h \in Linked(l)
    BY <1>4
  <2>4. Place(l, h) > Place(l, p)
    BY <1>2, <1>5, <2>1, <2>2, <2>3, ComesLater
  <2> QED BY <1>2, <2>1, <2>3, <2>4, NextComes
<1>6. CASE SkipHandler
  <2> DEFINE f == SafeLoopNext(l, Top)
  <2>1. Top.at = "dec.loop" /\ p # ListHead /\ OptedOut(p, Top.origin) /\ stack' = Replace(f)
    BY <1>6 DEF SkipHandler, Active
  <2>2. \A e \in BridgeHandlers \cup {ListHead} : ListNext(l, e) \in BridgeHandlers \cup {ListHead}
    BY <1>0, SafeLoopType
  <2>3. /\ f \in DecodedFrame /\ f.at = "dec.loop" /\ f.pos = Top.temp /\ f.temp = ListNext(l, Top.temp)
        /\ f.called = Top.called /\ f.origin = Top.origin /\ f.steady = Top.steady
    BY <1>1, <2>1, <2>2 DEF SafeLoopNext, DecodedFrame
  <2> HIDE DEF f
  <2>4. ASSUME NEW h \in f.steady, ~HadItsTurn(f, h) PROVE AheadOf(f, h)
    <3>1. h \in Top.steady /\ ~HadItsTurn(Top, h) /\ h # p
      BY <2>1, <2>3, <2>4 DEF HadItsTurn
    <3>2. Top.temp # ListHead /\ Place(l, h) >= Place(l, Top.temp)
      BY <1>5, <2>1, <3>1
    <3> QED BY <2>3, <3>2 DEF AheadOf, NotBefore
  <2>5. FrameProgress(f)
    BY <1>4, <2>3, <2>4 DEF FrameProgress, LoopList
  <2> QED BY <1>0, <1>3, <2>1, <2>3, <2>5, KindsAreFrames, ProgressKept
<1>7. ASSUME Top.at = "dec.loop", p \in BridgeHandlers PROVE g \in DecodedFrame /\ FrameProgress(g)
  <2>1. /\ c \in DecodedFrame /\ c.at = "dec.check" /\ c.pos = p /\ c.temp = Top.temp
        /\ c.called = Top.called /\ c.origin = Top.origin /\ c.steady = Top.steady
    BY <1>1 DEF DecodedFrame
  <2> HIDE DEF c
  <2>2. /\ g \in DecodedFrame /\ g.at = "dec.check" /\ g.pos = p /\ g.temp = Top.temp
        /\ g.called = Top.called \cup {p} /\ g.origin = Top.origin /\ g.steady = Top.steady
    BY <1>7, <2>1 DEF Note, DecodedFrame
  <2> HIDE DEF g
  <2>3. ASSUME NEW h \in g.steady, ~HadItsTurn(g, h) PROVE AheadOf(g, h)
    <3>1. h \in Top.steady /\ ~HadItsTurn(Top, h) /\ h # p
      BY <2>2, <2>3 DEF HadItsTurn
    <3>2. /\ Place(l, h) > Place(l, p)
          /\ Top.temp # ListHead /\ Place(l, h) >= Place(l, Top.temp)
      BY <1>2, <1>5, <1>7, <3>1
    <3> QED BY <2>2, <3>2 DEF AheadOf, NotBefore, Behind
  <2> QED BY <1>4, <2>2, <2>3 DEF FrameProgress, LoopList
<1>8. CASE CallHandler
  <2>1. Top.at = "dec.loop" /\ p \in BridgeHandlers /\ stack' = Push(u, g)
    BY <1>8 DEF CallHandler, Active, BridgeHandlers, u
  <2> HIDE DEF g
  <2> QED BY <1>0, <1>3, <1>7, <2>1, KindsAreFrames, ProgressKept
<1>9. CASE CallNode
  <2> DEFINE f == NodeLoop(p, Top.origin)
  <2>1. Top.at = "dec.loop" /\ p \in Nodes /\ p \in BridgeHandlers /\ Top.origin \in Interfaces \cup {TheBridge}
    BY <1>1, <1>9 DEF CallNode, Active, BridgeHandlers, DecodedFrame
  <2>2. nodeHandlerList[p] \in Seq(NodeHandlers)
    BY <2>1 DEF TypeOK
  <2>3. f \in Frames
    BY <2>1, <2>2, ListNextLinked, LinkedType, KindsAreFrames DEF NodeLoop, NodeFrame
  <2>4. FrameProgress(f)
    BY <2>1, NodeLoopProgress
  <2>5. stack' \in {Push(f, g), Replace(g)}
    BY <1>9 DEF CallNode
  <2> HIDE DEF f, g
  <2>6. CASE stack' = Push(f, g)
    BY <1>0, <1>7, <2>1, <2>3, <2>4, <2>6, KindsAreFrames, ProgressKept
  <2>7. CASE stack' = Replace(g)
    BY <1>0, <1>3, <1>7, <2>1, <2>7, KindsAreFrames, ProgressKept
  <2> QED BY <2>5, <2>6, <2>7
<1>10. CASE DecodedCheck
  <2> DEFINE h == [Top EXCEPT !.at = "dec.loop"]
             f == CheckListInLoop(l, h)
             next == TempAfterCheck(l, h)
  <2>1. Anchored(l, Top) /\ Top.at = "dec.check"
    BY <1>1, <1>10 DEF DecodedCheck, Active, FrameInv
  <2>2. /\ h \in DecodedFrame /\ Anchored(l, h) /\ h.at = "dec.loop" /\ h.pos = p /\ h.temp = Top.temp
        /\ h.called = Top.called /\ h.origin = Top.origin /\ h.steady = Top.steady
    BY <1>1, <2>1 DEF DecodedFrame, Anchored
  <2>3. next \in Linked(l) \cup {ListHead} /\ ListNext(l, next) \in Linked(l) \cup {ListHead}
    BY <1>0, <1>2, <2>2, CheckRepairsLoop
  <2>4. stack' = Replace(f)
    BY <1>10 DEF DecodedCheck
  <2> HIDE DEF h
  <2>5. /\ f \in DecodedFrame /\ f.at = "dec.loop" /\ f.pos = next /\ f.temp = ListNext(l, next)
        /\ f.called = Top.called /\ f.origin = Top.origin /\ f.steady = Top.steady
    BY <1>2, <2>2, <2>3 DEF CheckListInLoop, SafeLoopNext, DecodedFrame
  <2> HIDE DEF f
  <2>6. next \in {p, Top.temp} /\ (next # Top.temp => p \in Linked(l) /\ next = p)
    BY <2>1, <2>2 DEF TempAfterCheck, ListEmpty, Anchored, Linked
  <2> HIDE DEF next
  <2>7. ASSUME NEW e \in f.steady, ~HadItsTurn(f, e) PROVE AheadOf(f, e)
    <3>1. e \in Top.steady /\ ~HadItsTurn(Top, e)
      BY <2>5, <2>7 DEF HadItsTurn
    <3>2. Top.temp # ListHead /\ Behind(l, p, e) /\ NotBefore(l, Top.temp, e)
      BY <1>1, <2>1, <3>1 DEF FrameProgress, AheadOf
    <3>3. CASE next = Top.temp
      BY <2>5, <3>2, <3>3 DEF AheadOf
    <3>4. CASE next # Top.temp
      <4>1. p \in Linked(l) /\ next = p /\ Place(l, e) > Place(l, p) /\ e \in Linked(l)
        BY <1>4, <2>6, <3>1, <3>2, <3>4 DEF Behind
      <4>2. Place(l, e) \in Int /\ Place(l, p) \in Int
        BY <1>2, <4>1, PlaceOf
      <4>3. Place(l, e) >= Place(l, p)
        BY <4>1, <4>2
      <4> QED BY <1>2, <2>5, <4>1, <4>3 DEF AheadOf, NotBefore
    <3> QED BY <3>3, <3>4
  <2>8. FrameProgress(f)
    BY <1>4, <2>5, <2>7 DEF FrameProgress, LoopList
  <2> QED BY <1>0, <1>3, <2>4, <2>5, <2>8, KindsAreFrames, ProgressKept
<1>11. CASE DecodedReturn
  BY <1>0, <1>3, <1>11, ProgressKept DEF DecodedReturn
<1> QED BY <1>6, <1>8, <1>9, <1>10, <1>11

(***************************************************************************)
(* Each turn of the loop over the handlers of a node.                      *)
(***************************************************************************)
LEMMA NodeTurn ==
  ASSUME TypeOK, ListsInv, StackInv, ProgressInv,
         SkipNodeHandler \/ CallNodeHandler \/ NodeNext \/ NodeReturn \/ UserReturn
  PROVE  ProgressInv'
<1> DEFINE l == nodeHandlerList[Top.node]
           p == Top.pos
           u == [at |-> "user"]
           c == [Top EXCEPT !.at = "node.next"]
           g == Note(c, p)
           f == NodeLoopNext(Top)
<1>0. stack \in Seq(Frames) /\ stack # <<>> /\ UNCHANGED <<lists, quiet>>
  BY DEF TypeOK, config, SkipNodeHandler, CallNodeHandler, NodeNext, NodeReturn, UserReturn, Active
<1>1. u \in Frames /\ FrameProgress(u)
  BY KindsAreFrames, NoLoopProgress
<1> HIDE DEF u
<1>2. CASE NodeReturn \/ UserReturn
  BY <1>0, <1>1, <1>2, ProgressKept DEF NodeReturn, UserReturn
<1>3. CASE SkipNodeHandler \/ CallNodeHandler \/ NodeNext
  <2>1. Top \in NodeFrame /\ FrameInv(Top) /\ FrameProgress(Top)
    BY <1>0, <1>3, TopIsFrame, FrameKinds
       DEF SkipNodeHandler, CallNodeHandler, NodeNext, Active, StackInv, ProgressInv, Top
  <2>2. Top.node \in Nodes /\ p \in NodeHandlers \cup {ListHead}
    BY <2>1 DEF NodeFrame
  <2>3. IsList(l, NodeHandlers) /\ l \in Seq(NodeHandlers) /\ ListHead \notin NodeHandlers
    BY <2>2, BridgeAssumption DEF ListsInv, IsList
  <2>4. Top.steady \subseteq Linked(l) /\ (p # ListHead => p \in Linked(l))
    BY <2>1, <2>2, <2>3, LinkedType DEF FrameProgress, LoopList, FrameInv, NodeFrame
  <2>5. ASSUME p # ListHead, NEW h \in Top.steady, ~HadItsTurn(Top, h), Top.at = "node.loop" => h # p
        PROVE  Place(l, h) > Place(l, p)
    <3>1. CASE Top.at = "node.loop"
      <4>1. Place(l, h) >= Place(l, p) /\ h \in Linked(l)
        BY <2>1, <2>4, <2>5, <3>1 DEF FrameProgress, AheadOf, NotBefore
      <4> QED BY <2>3, <2>4, <2>5, <3>1, <4>1, ComesLater
    <3>2. CASE Top.at = "node.next"
      BY <2>1, <2>4, <2>5, <3>2 DEF FrameProgress, AheadOf, Behind
    <3> QED BY <2>1, <3>1, <3>2 DEF NodeFrame
  <2>6. ListNext(l, p) \in NodeHandlers \cup {ListHead}
    BY <2>2, <2>3, SafeLoopType
  <2>7. /\ f \in NodeFrame /\ f.at = "node.loop" /\ f.pos = ListNext(l, p) /\ f.node = Top.node
        /\ f.called = Top.called /\ f.origin = Top.origin /\ f.steady = Top.steady
    BY <2>1, <2>6 DEF NodeLoopNext, NodeFrame
  <2>8. CASE SkipNodeHandler \/ NodeNext
    <3>1. /\ stack' = Replace(f)
          /\ Top.at = "node.loop" => p # ListHead /\ OptedOut(p, Top.origin)
          /\ Top.at = "node.next" => p \in Linked(l)
      BY <2>1, <2>8 DEF SkipNodeHandler, NodeNext, Active, FrameInv
    <3>2. p # ListHead
      BY <2>1, <2>3, <3>1, LinkedType DEF NodeFrame
    <3> HIDE DEF f
    <3>3. ASSUME NEW h \in f.steady, ~HadItsTurn(f, h) PROVE AheadOf(f, h)
      <4>1. h \in Top.steady /\ ~HadItsTurn(Top, h) /\ (Top.at = "node.loop" => h # p)
        BY <2>7, <3>1, <3>3 DEF HadItsTurn
      <4>2. Place(l, h) > Place(l, p) /\ h \in Linked(l) /\ p \in Linked(l)
        BY <2>4, <2>5, <3>2, <4>1
      <4>3. ListNext(l, p) # ListHead /\ Place(l, h) >= Place(l, ListNext(l, p))
        BY <2>3, <4>2, NextComes
      <4> QED BY <2>7, <4>3 DEF AheadOf, NotBefore
    <3>4. FrameProgress(f)
      BY <2>4, <2>7, <3>3 DEF FrameProgress, LoopList
    <3> QED BY <1>0, <1>1, <2>7, <3>1, <3>4, KindsAreFrames, ProgressKept
  <2>9. CASE CallNodeHandler
    <3>1. Top.at = "node.loop" /\ p # ListHead /\ p \in NodeHandlers /\ stack' = Push(u, g)
      BY <2>2, <2>9 DEF CallNodeHandler, Active, u
    <3>2. /\ c \in NodeFrame /\ c.at = "node.next" /\ c.pos = p /\ c.node = Top.node
          /\ c.called = Top.called /\ c.origin = Top.origin /\ c.steady = Top.steady
      BY <2>1 DEF NodeFrame
    <3> HIDE DEF c
    <3>3. /\ g \in NodeFrame /\ g.at = "node.next" /\ g.pos = p /\ g.node = Top.node
          /\ g.called = Top.called \cup {p} /\ g.origin = Top.origin /\ g.steady = Top.steady
      BY <3>1, <3>2 DEF Note, NodeFrame
    <3> HIDE DEF g
    <3>4. ASSUME NEW h \in g.steady, ~HadItsTurn(g, h) PROVE AheadOf(g, h)
      <4>1. h \in Top.steady /\ ~HadItsTurn(Top, h) /\ h # p
        BY <3>3, <3>4 DEF HadItsTurn
      <4> QED BY <2>5, <3>1, <3>3, <4>1 DEF AheadOf, Behind
    <3>5. FrameProgress(g)
      BY <2>4, <3>3, <3>4 DEF FrameProgress, LoopList
    <3> QED BY <1>0, <1>1, <3>1, <3>3, <3>5, KindsAreFrames, ProgressKept
  <2> QED BY <1>3, <2>8, <2>9
<1> QED BY <1>2, <1>3

(***************************************************************************)
(* The main loop, and the messages it reads.                               *)
(***************************************************************************)
LEMMA OuterTurn ==
  ASSUME TypeOK, TypeOK', ListsInv, ProgressInv,
         \/ \E again \in BOOLEAN : Process(again)
         \/ \E chunk \in Chunks : ReadBytes(chunk)
         \/ ReadNothing \/ OnceCheck \/ OnceReturn
         \/ HandlePacket \/ ExternalAfter \/ ExternalReturn
  PROVE  ProgressInv'
<1> DEFINE u == [at |-> "user"]
<1>0. stack \in Seq(Frames) /\ UNCHANGED <<lists, quiet>> /\ u \in Frames /\ FrameProgress(u)
  BY KindsAreFrames, NoLoopProgress
     DEF TypeOK, config, Process, ReadBytes, ReadNothing, OnceCheck, OnceReturn, HandlePacket,
         ExternalAfter, ExternalReturn
<1> HIDE DEF u
<1>1. ASSUME NEW again \in BOOLEAN PROVE OnceLoop(again) \in Frames /\ FrameProgress(OnceLoop(again))
  BY OnceLoopType, KindsAreFrames, NoLoopProgress DEF OnceLoop
<1>2. ASSUME NEW again \in BOOLEAN, Process(again) PROVE ProgressInv'
  <2>1. stack' = Call(OnceLoop(again))
    BY <1>2 DEF Process, Call
  <2> QED BY <1>0, <1>1, <2>1, ProgressKept
<1>3. CASE ReadNothing \/ OnceCheck \/ OnceReturn \/ \E chunk \in Chunks : ReadBytes(chunk)
  <2>1. stack # <<>> /\ Top \in OnceFrame
    BY <1>0, <1>3, TopIsFrame, FrameKinds DEF ReadNothing, OnceCheck, OnceReturn, ReadBytes, Active
  <2>2. CASE ReadNothing
    <3> DEFINE f == [Top EXCEPT !.at = "once.check"]
    <3>1. f \in OnceFrame /\ f.at = "once.check" /\ stack' = Replace(f)
      BY <2>1, <2>2 DEF OnceFrame, ReadNothing
    <3> HIDE DEF f
    <3> QED BY <1>0, <2>1, <3>1, ProgressKept, NoLoopProgress, KindsAreFrames
  <2>3. CASE OnceCheck
    <3> DEFINE h == [Top EXCEPT !.at = "once.read"]
               f == CheckListInLoop(externalInterfaceList, h)
    <3>1. h \in OnceFrame /\ h.at = "once.read" /\ stack' = Replace(f)
      BY <2>1, <2>3 DEF OnceFrame, OnceCheck
    <3>2. \A e \in Interfaces \cup {ListHead} : ListNext(externalInterfaceList, e) \in Interfaces \cup {ListHead}
      BY SafeLoopType DEF TypeOK
    <3> HIDE DEF h
    <3>3. f \in OnceFrame /\ f.at = "once.read"
      BY <3>1, <3>2 DEF OnceFrame, CheckListInLoop, TempAfterCheck, SafeLoopNext
    <3> HIDE DEF f
    <3> QED BY <1>0, <2>1, <3>1, <3>3, ProgressKept, NoLoopProgress, KindsAreFrames
  <2>4. CASE OnceReturn
    <3>1. stack' \in {Tail(stack), Replace(OnceLoop(TRUE))}
      BY <2>4 DEF OnceReturn
    <3> QED BY <1>0, <1>1, <2>1, <3>1, ProgressKept
  <2>5. ASSUME NEW chunk \in Chunks, ReadBytes(chunk) PROVE ProgressInv'
    <3> DEFINE f == [at |-> "ext.parse", interface |-> Top.pos, chunk |-> chunk]
               g == [Top EXCEPT !.at = "once.check", !.got = TRUE]
    <3>1. chunk \in Seq(Packets) /\ Top.pos \in Interfaces
      BY <2>1, <2>5 DEF Chunks, OnceFrame, ReadBytes
    <3>2. f \in ExternalFrame /\ f.at = "ext.parse"
      BY <3>1 DEF ExternalFrame
    <3>3. g \in OnceFrame /\ g.at = "once.check"
      BY <2>1 DEF OnceFrame
    <3>4. stack' = Push(f, g)
      BY <2>5 DEF ReadBytes
    <3> HIDE DEF f, g
    <3> QED BY <1>0, <2>1, <3>2, <3>3, <3>4, ProgressKept, NoLoopProgress, KindsAreFrames
  <2> QED BY <1>3, <2>2, <2>3, <2>4, <2>5
<1>4. CASE HandlePacket \/ ExternalAfter \/ ExternalReturn
  <2>1. stack # <<>> /\ Top \in ExternalFrame
    BY <1>0, <1>4, TopIsFrame, FrameKinds DEF HandlePacket, ExternalAfter, ExternalReturn, Active
  <2>2. CASE HandlePacket
    <3> DEFINE msg == Head(Top.chunk)
               f == Decoded(routingTable', msg, Top.interface)
               g == [Top EXCEPT !.at = "ext.after", !.chunk = Tail(@)]
    <3>1. Top.chunk \in Seq(Packets) /\ Top.chunk # <<>> /\ Top.interface \in Interfaces
      BY <2>1, <2>2 DEF HandlePacket, ExternalFrame
    <3>2. msg \in Packets /\ Tail(Top.chunk) \in Seq(Packets)
      BY <3>1
    <3>3. msg \in Messages /\ routingTable' \in [TableIds -> Interfaces \cup {TheBridge, AllInterfaces}]
      BY <3>2, PacketsAreMessages DEF TypeOK
    <3>4. f \in Frames /\ FrameProgress(f)
      BY <3>1, <3>3, DecodedType, DecodedProgress, KindsAreFrames
    <3>5. g \in ExternalFrame /\ g.at = "ext.after"
      BY <2>1, <3>2 DEF ExternalFrame
    <3>6. stack' = Push(f, g)
      BY <2>2 DEF HandlePacket
    <3> HIDE DEF f, g
    <3> QED BY <1>0, <2>1, <3>4, <3>5, <3>6, ProgressKept, NoLoopProgress, KindsAreFrames
  <2>3. CASE ExternalAfter \/ ExternalReturn
    <3> DEFINE f == [Top EXCEPT !.at = "ext.parse"]
    <3>1. f \in ExternalFrame /\ f.at = "ext.parse" /\ stack' \in {Tail(stack), Replace(f)}
      BY <2>1, <2>3 DEF ExternalFrame, ExternalAfter, ExternalReturn
    <3> HIDE DEF f
    <3> QED BY <1>0, <2>1, <3>1, ProgressKept, NoLoopProgress, KindsAreFrames
  <2> QED BY <1>4, <2>2, <2>3
<1> QED BY <1>2, <1>3, <1>4

-----------------------------------------------------------------------------
(***************************************************************************)
(* A list that changes may not put an entry e in front of what it was      *)
(* behind.                                                                 *)
(***************************************************************************)
OrderKept(old, new, e) ==
  /\ e \in Linked(new)
  /\ \A p : Behind(old, p, e) => Behind(new, p, e)
  /\ \A p : NotBefore(old, p, e) => NotBefore(new, p, e)

LEMMA AddKeepsOrder ==
  ASSUME NEW S, NEW list, IsList(list, S), NEW x \in S, x \notin Linked(list), NEW e \in Linked(list)
  PROVE  OrderKept(list, ListAdd(list, x), e)
<1> DEFINE l == ListAdd(list, x)
<1>1. Linked(l) = Linked(list) \cup {x}
  BY ListAddLinks DEF IsList
<1>2. /\ Place(l, x) = 1
      /\ \A h \in Linked(list) : Place(l, h) = Place(list, h) + 1 /\ Place(list, h) \in Nat \ {0}
  BY ListAddPlaces
<1> HIDE DEF l
<1>3. ASSUME NEW p, p \in Linked(l)
      PROVE  /\ Behind(list, p, e) => Place(l, e) > Place(l, p)
             /\ NotBefore(list, p, e) => Place(l, e) >= Place(l, p)
  <2>1. CASE p = x
    BY <1>2, <2>1
  <2>2. CASE p \in Linked(list)
    BY <1>2, <2>2 DEF Behind, NotBefore
  <2> QED BY <1>1, <1>3, <2>1, <2>2
<1> QED BY <1>1, <1>3 DEF OrderKept, Behind, NotBefore, l

LEMMA DelKeepsOrder ==
  ASSUME NEW S, NEW list, IsList(list, S), NEW x, NEW e \in Linked(list), e # x
  PROVE  OrderKept(list, ListDelInit(list, x), e)
<1> DEFINE l == ListDelInit(list, x)
<1>1. IsList(l, S) /\ Linked(l) = Linked(list) \ {x}
  BY ListDelInitUnlinks
<1>2. \A h \in Linked(list) : Place(list, h) \in Int /\ list[Place(list, h)] = h
  BY PlaceOf
<1>3. \A h \in Linked(l) : Place(l, h) \in Int
  BY <1>1, PlaceOf
<1>4. ASSUME NEW p \in Linked(l), Place(list, e) > Place(list, p) PROVE Place(l, e) > Place(l, p)
  <2>1. p \in Linked(list) /\ p # x /\ Place(list, p) < Place(list, e)
    BY <1>1, <1>2, <1>4
  <2>2. Place(l, p) < Place(l, e)
    BY <2>1, ListDelInitOrder
  <2> HIDE DEF l
  <2>3. Place(l, p) \in Int /\ Place(l, e) \in Int
    BY <1>1, <1>3
  <2> QED BY <2>2, <2>3
<1> HIDE DEF l
<1>5. ASSUME NEW p \in Linked(l), Place(list, e) >= Place(list, p) PROVE Place(l, e) >= Place(l, p)
  <2>1. Place(l, p) \in Int /\ Place(l, e) \in Int /\ Place(list, e) \in Int /\ Place(list, p) \in Int
    BY <1>1, <1>2, <1>3
  <2>2. CASE Place(list, e) = Place(list, p)
    <3>1. e = p
      BY <1>1, <1>2, <2>2
    <3> QED BY <2>1, <3>1
  <2>3. CASE Place(list, e) > Place(list, p)
    <3>1. Place(l, e) > Place(l, p)
      BY <1>4, <2>3
    <3> QED BY <2>1, <3>1
  <2> QED BY <1>5, <2>1, <2>2, <2>3
<1> QED BY <1>1, <1>4, <1>5 DEF OrderKept, Behind, NotBefore, l

LEMMA SameOrder ==
  ASSUME NEW list, NEW e \in Linked(list)
  PROVE  OrderKept(list, list, e)
  BY DEF OrderKept

(***************************************************************************)
(* What a handler changes leaves the loops above it where they were: the   *)
(* frames lose what became unsteady, and the rest keeps its order.         *)
(***************************************************************************)
SameLoop(f, g) ==
  /\ f.at = g.at /\ f.pos = g.pos /\ f.called = g.called /\ f.origin = g.origin
  /\ g.at = "dec.check" => f.temp = g.temp
  /\ g.at = "node.next" => f.node = g.node
  /\ f.steady \subseteq g.steady

LEMMA LoopsKept ==
  ASSUME stack \in Seq(Frames), ProgressInv, Len(stack') = Len(stack),
         \A k \in 1 .. Len(stack) : stack[k].at \in Waiting /\ stack'[k].at = stack[k].at,
         \A k \in 1 .. Len(stack) : stack[k].at \in {"dec.check", "node.next"} =>
           /\ SameLoop(stack'[k], stack[k])
           /\ \A e \in stack'[k].steady : e \in quiet' <=> e \in quiet,
         \A k \in 1 .. Len(stack) : stack[k].at = "dec.check" =>
           \A e \in stack'[k].steady : OrderKept(bridgeHandlerList, bridgeHandlerList', e),
         \A k \in 1 .. Len(stack) : stack[k].at = "node.next" =>
           \A e \in stack'[k].steady :
             OrderKept(nodeHandlerList[stack[k].node], nodeHandlerList'[stack[k].node], e)
  PROVE  ProgressInv'
<1> SUFFICES ASSUME NEW k \in 1 .. Len(stack), stack'[k].at \in {"dec.check", "node.next"}
             PROVE  /\ stack'[k].at = "dec.check" =>
                         /\ stack'[k].steady \subseteq Linked(bridgeHandlerList')
                         /\ \A e \in stack'[k].steady :
                              \/ e \in stack'[k].called \/ (e \in quiet' /\ stack'[k].origin = TheBridge)
                              \/ /\ stack'[k].temp # ListHead
                                 /\ Behind(bridgeHandlerList', stack'[k].pos, e)
                                 /\ NotBefore(bridgeHandlerList', stack'[k].temp, e)
                    /\ stack'[k].at = "node.next" =>
                         /\ stack'[k].steady \subseteq Linked(nodeHandlerList'[stack'[k].node])
                         /\ \A e \in stack'[k].steady :
                              \/ e \in stack'[k].called \/ (e \in quiet' /\ stack'[k].origin = TheBridge)
                              \/ Behind(nodeHandlerList'[stack'[k].node], stack'[k].pos, e)
  BY DEF ProgressInv, FrameProgress, LoopList, HadItsTurn, OptedOut, AheadOf, Waiting, Behind, NotBefore
<1>1. FrameProgress(stack[k]) /\ SameLoop(stack'[k], stack[k])
  BY DEF ProgressInv
<1>2. CASE stack[k].at = "dec.check"
  BY <1>1, <1>2 DEF SameLoop, FrameProgress, HadItsTurn, OptedOut, AheadOf, OrderKept
<1>3. CASE stack[k].at = "node.next"
  BY <1>1, <1>3 DEF SameLoop, FrameProgress, HadItsTurn, OptedOut, AheadOf, OrderKept
<1> QED BY <1>1, <1>2, <1>3 DEF SameLoop

(***************************************************************************)
(* What Unsteady(h) does to the loops that wait for a handler to return.   *)
(***************************************************************************)
LEMMA UnsteadyLoops ==
  ASSUME stack \in Seq(Frames), NEW h
  PROVE  /\ Len(Unsteady(h)) = Len(stack)
         /\ \A k \in 1 .. Len(stack) :
              /\ Unsteady(h)[k].at = stack[k].at
              /\ stack[k].at \in {"dec.check", "node.next"} =>
                   SameLoop(Unsteady(h)[k], stack[k]) /\ h \notin Unsteady(h)[k].steady
<1>1. ASSUME NEW k \in 1 .. Len(stack), stack[k].at \in {"dec.check", "node.next"}
      PROVE  SameLoop(Unsteady(h)[k], stack[k]) /\ h \notin Unsteady(h)[k].steady
  <2>1. Unsteady(h)[k] = [stack[k] EXCEPT !.steady = @ \ {h}] /\ stack[k] \in Frames
    BY <1>1 DEF Unsteady
  <2>2. stack[k].at = "dec.check" => stack[k] \in DecodedFrame
    BY <2>1, FrameKinds
  <2>3. stack[k].at = "node.next" => stack[k] \in NodeFrame
    BY <2>1, FrameKinds
  <2>4. CASE stack[k].at = "dec.check"
    BY <2>1, <2>2, <2>4 DEF SameLoop, DecodedFrame
  <2>5. CASE stack[k].at = "node.next"
    BY <2>1, <2>3, <2>5 DEF SameLoop, NodeFrame
  <2> QED BY <1>1, <2>4, <2>5
<1> QED BY <1>1, UnsteadyType

(***************************************************************************)
(* The calls of the application keep every loop on its way.                *)
(***************************************************************************)
LEMMA ApplicationTurn ==
  ASSUME TypeOK, ListsInv, StackInv, ProgressInv, Application
  PROVE  ProgressInv'
<1> USE DEF config, lists
<1>0. stack \in Seq(Frames) /\ Handlers \cap Nodes = {}
  BY BridgeAssumption DEF TypeOK
<1>1. stack # <<>> => Top.at = "user"
  BY DEF Application, RegisterExternalInterface, DeregisterExternalInterface, RegisterBridgeHandler,
       DeregisterBridgeHandler, NodeRegister, NodeDeregister, NodeSetOwnSenderId, NodeSend, SendRaw,
       SetRoutingForDeviceId, BridgeSetFlags, ExternalInterfaceSetFlags, HandlerSetFlags,
       RegisterNodeHandler, DeregisterNodeHandler, Calls
<1>2. \A k \in 1 .. Len(stack) : stack[k].at \in Waiting /\ FrameProgress(stack[k])
  BY <1>0, <1>1 DEF StackInv, Top, Waiting, ProgressInv
<1>3. \A k \in 1 .. Len(stack) :
        /\ stack[k].at = "dec.check" => stack[k].steady \subseteq Attached
        /\ stack[k].at = "node.next" =>
             /\ stack[k].node \in Nodes
             /\ stack[k].steady \subseteq Linked(nodeHandlerList[stack[k].node])
  BY <1>0, <1>2, FrameKinds DEF FrameProgress, LoopList, Attached, NodeFrame
<1>4. \A k \in 1 .. Len(stack) : SameLoop(stack[k], stack[k])
  BY DEF SameLoop
<1>5. /\ IsList(bridgeHandlerList, BridgeHandlers) /\ \A n \in Nodes : IsList(nodeHandlerList[n], NodeHandlers)
      /\ nodeHandlerList \in [Nodes -> Seq(NodeHandlers)]
  BY DEF ListsInv, TypeOK
<1>6. ASSUME UNCHANGED <<bridgeHandlerList, nodeHandlerList, quiet, stack>> PROVE ProgressInv'
  BY <1>2, <1>6 DEF ProgressInv, FrameProgress, LoopList, HadItsTurn, OptedOut, AheadOf
<1>7. ASSUME NEW x, NEW y,
             \/ RegisterExternalInterface(x) \/ DeregisterExternalInterface(x) \/ NodeSetOwnSenderId(x, y)
             \/ SetRoutingForDeviceId(x, y) \/ BridgeSetFlags(x) \/ ExternalInterfaceSetFlags(x, y)
      PROVE  ProgressInv'
  BY <1>6, <1>7
     DEF RegisterExternalInterface, DeregisterExternalInterface, NodeSetOwnSenderId,
       SetRoutingForDeviceId, BridgeSetFlags, ExternalInterfaceSetFlags
<1>8. ASSUME NEW h \in BridgeHandlers, AttachHandler(h), UNCHANGED <<nodeHandlerList, quiet, stack>>
      PROVE  ProgressInv'
  <2>1. CASE h \in Attached
    BY <1>6, <1>8, <2>1 DEF AttachHandler
  <2>2. CASE h \notin Attached
    <3>1. bridgeHandlerList' = ListAdd(bridgeHandlerList, h)
      BY <1>8, <2>2 DEF AttachHandler
    <3>2. \A e \in Attached : OrderKept(bridgeHandlerList, bridgeHandlerList', e)
      BY <1>5, <2>2, <3>1, AddKeepsOrder DEF Attached
    <3>3. \A k \in 1 .. Len(stack) : stack[k].at = "node.next" =>
            \A e \in stack[k].steady :
              OrderKept(nodeHandlerList[stack[k].node], nodeHandlerList'[stack[k].node], e)
      BY <1>3, <1>8, SameOrder
    <3> QED BY <1>0, <1>2, <1>3, <1>4, <1>8, <3>2, <3>3, LoopsKept
  <2> QED BY <2>1, <2>2
<1>9. ASSUME NEW h \in BridgeHandlers, DetachHandler(h), UNCHANGED <<nodeHandlerList, quiet>>
      PROVE  ProgressInv'
  <2>1. bridgeHandlerList' = ListDelInit(bridgeHandlerList, h) /\ stack' = Unsteady(h)
    BY <1>9 DEF DetachHandler
  <2>2. \A e \in Attached \ {h} : OrderKept(bridgeHandlerList, bridgeHandlerList', e)
    BY <1>5, <2>1, DelKeepsOrder DEF Attached
  <2>3. /\ Len(stack') = Len(stack)
        /\ \A k \in 1 .. Len(stack) :
             /\ stack'[k].at = stack[k].at
             /\ stack[k].at \in {"dec.check", "node.next"} =>
                  SameLoop(stack'[k], stack[k]) /\ h \notin stack'[k].steady
    BY <1>0, <2>1, UnsteadyLoops
  <2>4. \A k \in 1 .. Len(stack) : stack[k].at \in {"dec.check", "node.next"} =>
          stack'[k].steady \subseteq stack[k].steady \ {h}
    BY <2>3 DEF SameLoop
  <2>5. \A k \in 1 .. Len(stack) : stack[k].at = "dec.check" =>
          \A e \in stack'[k].steady : OrderKept(bridgeHandlerList, bridgeHandlerList', e)
    BY <1>3, <2>2, <2>4
  <2>6. \A k \in 1 .. Len(stack) : stack[k].at = "node.next" =>
          \A e \in stack'[k].steady :
            OrderKept(nodeHandlerList[stack[k].node], nodeHandlerList'[stack[k].node], e)
    BY <1>3, <1>9, <2>4, SameOrder
  <2> QED BY <1>0, <1>2, <1>9, <2>3, <2>5, <2>6, LoopsKept
<1>10. ASSUME NEW h \in Handlers, RegisterBridgeHandler(h) \/ DeregisterBridgeHandler(h) PROVE ProgressInv'
  BY <1>8, <1>9, <1>10 DEF RegisterBridgeHandler, DeregisterBridgeHandler, BridgeHandlers
<1>11. ASSUME NEW n \in Nodes, NodeRegister(n) \/ NodeDeregister(n) PROVE ProgressInv'
  BY <1>8, <1>9, <1>11 DEF NodeRegister, NodeDeregister, BridgeHandlers
<1>12. ASSUME NEW msg \in Messages, Sent(msg) PROVE ProgressInv'
  <2> DEFINE f == Decoded(routingTable, msg, TheBridge)
  <2>1. f \in Frames /\ FrameProgress(f)
    BY DecodedType, DecodedProgress, KindsAreFrames DEF TypeOK
  <2>2. stack' = Call(f) /\ UNCHANGED <<lists, quiet>>
    BY <1>12 DEF Sent
  <2> HIDE DEF f
  <2> QED BY <1>0, <2>1, <2>2, ProgressKept
<1>13. ASSUME NEW msg \in Messages, SendRaw(msg) PROVE ProgressInv'
  BY <1>12, <1>13 DEF SendRaw, Sent, Calls
<1>14. ASSUME NEW n \in Nodes, NEW id \in DeviceIds, NodeSend(n, id) PROVE ProgressInv'
  <2>1. [sender |-> ownId[n], receiver |-> id] \in Messages
    BY DEF TypeOK, Messages
  <2> QED BY <1>12, <1>14, <2>1 DEF NodeSend, Sent, Calls
<1>15. ASSUME NEW h \in Handlers \cup NodeHandlers, NEW silent \in BOOLEAN, HandlerSetFlags(h, silent)
       PROVE  ProgressInv'
  <2>1. stack' = Unsteady(h) /\ UNCHANGED <<bridgeHandlerList, nodeHandlerList>>
        /\ \A e : e # h => (e \in quiet' <=> e \in quiet)
    BY <1>15 DEF HandlerSetFlags
  <2>2. /\ Len(stack') = Len(stack)
        /\ \A k \in 1 .. Len(stack) :
             /\ stack'[k].at = stack[k].at
             /\ stack[k].at \in {"dec.check", "node.next"} =>
                  SameLoop(stack'[k], stack[k]) /\ h \notin stack'[k].steady
    BY <1>0, <2>1, UnsteadyLoops
  <2>3. \A k \in 1 .. Len(stack) : stack[k].at \in {"dec.check", "node.next"} =>
          stack'[k].steady \subseteq stack[k].steady \ {h}
    BY <2>2 DEF SameLoop
  <2>4. \A k \in 1 .. Len(stack) : stack[k].at = "dec.check" =>
          \A e \in stack'[k].steady : OrderKept(bridgeHandlerList, bridgeHandlerList', e)
    BY <1>3, <2>1, <2>3, SameOrder DEF Attached
  <2>5. \A k \in 1 .. Len(stack) : stack[k].at = "node.next" =>
          \A e \in stack'[k].steady :
            OrderKept(nodeHandlerList[stack[k].node], nodeHandlerList'[stack[k].node], e)
    BY <1>3, <2>1, <2>3, SameOrder
  <2>6. \A k \in 1 .. Len(stack) : stack[k].at \in {"dec.check", "node.next"} =>
          \A e \in stack'[k].steady : e \in quiet' <=> e \in quiet
    BY <2>1, <2>2
  <2> QED BY <1>0, <1>2, <2>2, <2>4, <2>5, <2>6, LoopsKept
<1>16. ASSUME NEW n \in Nodes, NEW h \in NodeHandlers, RegisterNodeHandler(n, h) PROVE ProgressInv'
  <2>1. /\ h \notin Linked(nodeHandlerList[n]) /\ UNCHANGED <<bridgeHandlerList, quiet, stack>>
        /\ nodeHandlerList' = [nodeHandlerList EXCEPT ![n] = ListAdd(@, h)]
    BY <1>16 DEF RegisterNodeHandler
  <2>2. \A m \in Nodes : \A e \in Linked(nodeHandlerList[m]) : OrderKept(nodeHandlerList[m], nodeHandlerList'[m], e)
    <3> TAKE m \in Nodes
    <3> TAKE e \in Linked(nodeHandlerList[m])
    <3>1. CASE m = n
      <4>1. nodeHandlerList'[m] = ListAdd(nodeHandlerList[m], h)
        BY <1>5, <2>1, <3>1
      <4> QED BY <1>5, <2>1, <3>1, <4>1, AddKeepsOrder
    <3>2. CASE m # n
      <4>1. nodeHandlerList'[m] = nodeHandlerList[m]
        BY <1>5, <2>1, <3>2
      <4> QED BY <4>1, SameOrder
    <3> QED BY <3>1, <3>2
  <2>3. \A k \in 1 .. Len(stack) : stack[k].at = "node.next" =>
          \A e \in stack'[k].steady :
            OrderKept(nodeHandlerList[stack[k].node], nodeHandlerList'[stack[k].node], e)
    BY <1>3, <2>1, <2>2
  <2>4. \A k \in 1 .. Len(stack) : stack[k].at = "dec.check" =>
          \A e \in stack'[k].steady : OrderKept(bridgeHandlerList, bridgeHandlerList', e)
    BY <1>3, <2>1, SameOrder DEF Attached
  <2> QED BY <1>0, <1>2, <1>4, <2>1, <2>3, <2>4, LoopsKept
<1>17. ASSUME NEW n \in Nodes, NEW h \in NodeHandlers, DeregisterNodeHandler(n, h) PROVE ProgressInv'
  <2>1. /\ stack' = Unsteady(h) /\ UNCHANGED <<bridgeHandlerList, quiet>>
        /\ nodeHandlerList' = [nodeHandlerList EXCEPT ![n] = ListDelInit(@, h)]
    BY <1>17 DEF DeregisterNodeHandler
  <2>2. \A m \in Nodes : \A e \in Linked(nodeHandlerList[m]) \ {h} :
          OrderKept(nodeHandlerList[m], nodeHandlerList'[m], e)
    <3> TAKE m \in Nodes
    <3> TAKE e \in Linked(nodeHandlerList[m]) \ {h}
    <3>1. CASE m = n
      <4>1. nodeHandlerList'[m] = ListDelInit(nodeHandlerList[m], h)
        BY <1>5, <2>1, <3>1
      <4> QED BY <1>5, <4>1, DelKeepsOrder
    <3>2. CASE m # n
      <4>1. nodeHandlerList'[m] = nodeHandlerList[m]
        BY <1>5, <2>1, <3>2
      <4> QED BY <4>1, SameOrder
    <3> QED BY <3>1, <3>2
  <2>3. /\ Len(stack') = Len(stack)
        /\ \A k \in 1 .. Len(stack) :
             /\ stack'[k].at = stack[k].at
             /\ stack[k].at \in {"dec.check", "node.next"} =>
                  SameLoop(stack'[k], stack[k]) /\ h \notin stack'[k].steady
    BY <1>0, <2>1, UnsteadyLoops
  <2>4. \A k \in 1 .. Len(stack) : stack[k].at \in {"dec.check", "node.next"} =>
          stack'[k].steady \subseteq stack[k].steady \ {h}
    BY <2>3 DEF SameLoop
  <2>5. \A k \in 1 .. Len(stack) : stack[k].at = "node.next" =>
          \A e \in stack'[k].steady :
            OrderKept(nodeHandlerList[stack[k].node], nodeHandlerList'[stack[k].node], e)
    BY <1>3, <2>2, <2>4
  <2>6. \A k \in 1 .. Len(stack) : stack[k].at = "dec.check" =>
          \A e \in stack'[k].steady : OrderKept(bridgeHandlerList, bridgeHandlerList', e)
    BY <1>3, <2>1, <2>4, SameOrder DEF Attached
  <2> QED BY <1>0, <1>2, <2>1, <2>3, <2>5, <2>6, LoopsKept
<1> QED BY <1>7, <1>10, <1>11, <1>13, <1>14, <1>15, <1>16, <1>17, PacketsAreMessages DEF Application

(***************************************************************************)
(* Every handler that stays registered and keeps its flags while a message *)
(* is handled sees it, or opted out: whatever the handlers before it add,  *)
(* remove and send, at any depth of nested calls.  It rests on the rule    *)
(* "removals".                                                             *)
(***************************************************************************)
THEOREM NobodyIsSkipped == "removals" \in Discipline => (Spec => []NoHandlerSkipped)
<1> SUFFICES ASSUME "removals" \in Discipline PROVE Spec => []NoHandlerSkipped
  OBVIOUS
<1>1. Init => ProgressInv
  BY DEF Init, ProgressInv
<1>2. ASSUME TypeOK, TypeOK', ListsInv, StackInv, ProgressInv, [Next]_vars PROVE ProgressInv'
  <2>1. CASE UNCHANGED vars
    BY <1>2, <2>1 DEF vars, lists, config, ProgressInv, FrameProgress, LoopList, HadItsTurn, OptedOut, AheadOf
  <2> QED BY <1>2, <2>1, OuterTurn, HandlerTurn, NodeTurn, ApplicationTurn DEF Next, Run
<1>3. ASSUME TypeOK, ProgressInv PROVE NoHandlerSkipped
  <2> SUFFICES ASSUME Active("dec.loop") \/ Active("node.loop"), Top.pos = ListHead, NEW h \in Top.steady
               PROVE  h \in Top.called \/ OptedOut(h, Top.origin)
    BY DEF NoHandlerSkipped
  <2>1. FrameProgress(Top)
    BY <1>3, TopIsFrame DEF TypeOK, ProgressInv, Active, Top
  <2> QED BY <2>1 DEF Active, FrameProgress, AheadOf, HadItsTurn
<1>4. TypeOK /\ TypeOK' /\ ListsInv /\ StackInv /\ ProgressInv /\ [Next]_vars => ProgressInv'
  BY <1>2
<1>5. TypeOK /\ ProgressInv => NoHandlerSkipped
  BY <1>3
<1> QED BY <1>1, <1>4, <1>5, TypeCorrect, LoopsSafe, PTL DEF Spec
=============================================================================
