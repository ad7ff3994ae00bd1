------------------------------- MODULE Counters -------------------------------
(***************************************************************************)
(* The packet counters: src/HeaderPrepare.c numbers the messages of a node *)
(* for each receiver, and the BridgeMissEvents of src/BridgeHandler.cpp    *)
(* looks at the numbers of passing messages to notice lost ones.  Two such *)
(* observers are modelled: a local one at the bridge of the nodes, and a   *)
(* remote one at the end of a path that may lose messages.                 *)
(***************************************************************************)
EXTENDS Integers, Sequences

CONSTANTS
  Nodes, NodeIds, Receivers,
  MaxId,                       \* the largest NDLComId, the broadcast id
  MaxDevices,                  \* NDLCOM_MAX_NUMBER_OF_DEVICES
  CounterRange,                \* 2^8: the values of NDLComCounter
  InitialOwnId,
  MaxSends, MaxRenames, MaxDepth

DeviceIds == 0 .. MaxId
TableIds == {id \in DeviceIds : id < MaxDevices}
Pairs == TableIds \X TableIds
Counter == 0 .. CounterRange - 1

(***************************************************************************)
(* A build with MaxDevices = MaxId is left out: there the observer takes   *)
(* the broadcast id for an index (BridgeHandler.cpp:72).                   *)
(***************************************************************************)
ASSUME CountersAssumption ==
  /\ MaxId \in Nat /\ MaxDevices \in 1 .. MaxId + 1 /\ MaxDevices # MaxId
  /\ CounterRange \in Nat \ {0}
  /\ NodeIds \subseteq DeviceIds \ {MaxId} /\ Receivers \subseteq DeviceIds
  /\ InitialOwnId \in [Nodes -> NodeIds]
  /\ \A m, n \in Nodes : InitialOwnId[m] = InitialOwnId[n] => m = n
  /\ MaxSends \in Nat /\ MaxRenames \in Nat /\ MaxDepth \in Nat

VARIABLES
  headerConfig,   \* of each node
  calls,          \* local sends the local observer has not been called for, innermost first
  path,           \* messages under way to the remote observer
  local, remote,  \* the observers
  failed,         \* an observer has thrown an exception
  fresh,          \* history: receivers not sent to since a node's counters were reset
  nested,         \* history: pairs with a send inside another one, or after a reset
  lost,           \* history: messages lost since the remote observer saw the pair
  restarted,      \* history: one of them was the first after a reset
  sends, renames

history == <<fresh, nested, lost, restarted>>
vars == <<headerConfig, calls, path, local, remote, failed, history, sends, renames>>

Headers == [sender : DeviceIds, receiver : DeviceIds, counter : Counter, first : BOOLEAN]
Pair(header) == <<header.sender, header.receiver>>

HeaderConfigs == [mOwnSenderId : DeviceIds, mCounterForReceiver : [TableIds -> Counter]]

Observers == [alreadySeen : SUBSET Pairs,
              expectedNextPacketCounter : [Pairs -> Counter],
              numberOfPacketMissEvents : [Pairs -> Nat]]

TypeOK ==
  /\ headerConfig \in [Nodes -> HeaderConfigs]
  /\ calls \in Seq(Headers)
  /\ path \in Seq(Headers)
  /\ {local, remote} \subseteq Observers
  /\ fresh \in [Nodes -> SUBSET DeviceIds]
  /\ nested \subseteq DeviceIds \X DeviceIds
  /\ lost \in [DeviceIds \X DeviceIds -> Nat]
  /\ restarted \in [DeviceIds \X DeviceIds -> BOOLEAN]
  /\ failed \in BOOLEAN

HeaderPrepareInit(id) ==
  [mOwnSenderId |-> id, mCounterForReceiver |-> [receiver \in TableIds |-> 0]]

BridgeMissEvents ==
  [alreadySeen |-> {}, expectedNextPacketCounter |-> [p \in Pairs |-> 0],
   numberOfPacketMissEvents |-> [p \in Pairs |-> 0]]

Init ==
  /\ headerConfig = [n \in Nodes |-> HeaderPrepareInit(InitialOwnId[n])]
  /\ calls = <<>>
  /\ path = <<>>
  /\ local = BridgeMissEvents
  /\ remote = BridgeMissEvents
  /\ failed = FALSE
  /\ fresh = [n \in Nodes |-> DeviceIds]
  /\ nested = {}
  /\ lost = [p \in DeviceIds \X DeviceIds |-> 0]
  /\ restarted = [p \in DeviceIds \X DeviceIds |-> FALSE]
  /\ sends = 0
  /\ renames = 0

-----------------------------------------------------------------------------
(***************************************************************************)
(* The counter of the next message: for a receiver outside the table the   *)
(* field is not written, and holds what happens to be on the stack.        *)
(***************************************************************************)
NextCounters(config, receiver) ==
  IF receiver \in TableIds THEN {config.mCounterForReceiver[receiver]} ELSE Counter

(***************************************************************************)
(* Mutation: one counter for all receivers.                                *)
(***************************************************************************)
CountedForAll(config, receiver) ==
  [config EXCEPT !.mCounterForReceiver = [r \in TableIds |-> (@[r] + 1) % CounterRange]]

Counted(config, receiver) ==
  IF receiver \in TableIds
  THEN [config EXCEPT !.mCounterForReceiver[receiver] = (@ + 1) % CounterRange]
  ELSE config

(***************************************************************************)
(* History: the local observer cannot expect the counter of this message.  *)
(***************************************************************************)
OutOfOrder(header) ==
  \/ \E i \in DOMAIN calls : Pair(calls[i]) = Pair(header)
  \/ header.first /\ Pair(header) \in local.alreadySeen

(***************************************************************************)
(* ndlcomNodeSend: first the message is written to the interfaces, then    *)
(* the handlers of the own bridge are called.  A handler in front of the   *)
(* observer may send before the observer is called.                        *)
(***************************************************************************)
NodeSend(n, receiver) ==
  /\ ~failed
  /\ sends < MaxSends /\ Len(calls) < MaxDepth
  /\ sends' = sends + 1
  /\ \E counter \in NextCounters(headerConfig[n], receiver) :
       LET header == [sender |-> headerConfig[n].mOwnSenderId, receiver |-> receiver,
                      counter |-> counter, first |-> receiver \in fresh[n]]
       IN  /\ path' = Append(path, header)
           /\ calls' = <<header>> \o calls
           /\ nested' = nested \cup {p \in {Pair(header)} : OutOfOrder(header)}
  /\ headerConfig' = [headerConfig EXCEPT ![n] = Counted(@, receiver)]
  /\ fresh' = [fresh EXCEPT ![n] = @ \ {receiver}]
  /\ UNCHANGED <<local, remote, failed, lost, restarted, renames>>

(***************************************************************************)
(* ndlcomNodeSetOwnSenderId: a new personality counts from zero.           *)
(***************************************************************************)
NodeSetOwnSenderId(n, id) ==
  /\ ~failed
  /\ renames < MaxRenames
  /\ \A m \in Nodes \ {n} : headerConfig[m].mOwnSenderId # id
  /\ renames' = renames + 1
  /\ headerConfig' = [headerConfig EXCEPT ![n] = HeaderPrepareInit(id)]
  /\ fresh' = [fresh EXCEPT ![n] = DeviceIds]
  /\ UNCHANGED <<calls, path, local, remote, failed, nested, lost, restarted, sends>>

-----------------------------------------------------------------------------
(***************************************************************************)
(* BridgeMissEvents::isMiss.                                               *)
(***************************************************************************)
Ignored(header) ==
  \/ header.sender = MaxId
  \/ MaxDevices < MaxId /\ (header.sender >= MaxDevices \/ header.receiver >= MaxDevices)

(***************************************************************************)
(* sender << 8 | receiver is an index into MaxDevices * MaxDevices bits,   *)
(* and std::bitset::test throws when it is too large.                      *)
(***************************************************************************)
Throws(header) ==
  ~Ignored(header) /\ header.sender * (MaxId + 1) + header.receiver >= MaxDevices * MaxDevices

IsMiss(observer, header) ==
  /\ ~Ignored(header)
  /\ Pair(header) \in observer.alreadySeen
  /\ observer.expectedNextPacketCounter[Pair(header)] # header.counter

(***************************************************************************)
(* Mutation: the expectation is not wrapped to eight bits.                 *)
(***************************************************************************)
ObservedUnwrapped(observer, header) ==
  IF Ignored(header) THEN observer
  ELSE [alreadySeen |-> observer.alreadySeen \cup {Pair(header)},
        expectedNextPacketCounter |->
          [observer.expectedNextPacketCounter EXCEPT ![Pair(header)] = header.counter + 1],
        numberOfPacketMissEvents |->
          [observer.numberOfPacketMissEvents EXCEPT
             ![Pair(header)] = IF IsMiss(observer, header) THEN @ + 1 ELSE @]]

Observed(observer, header) ==
  IF Ignored(header) THEN observer
  ELSE [alreadySeen |-> observer.alreadySeen \cup {Pair(header)},
        expectedNextPacketCounter |->
          [observer.expectedNextPacketCounter EXCEPT
             ![Pair(header)] = (header.counter + 1) % CounterRange],
        numberOfPacketMissEvents |->
          [observer.numberOfPacketMissEvents EXCEPT
             ![Pair(header)] = IF IsMiss(observer, header) THEN @ + 1 ELSE @]]

LocalHandle ==
  /\ ~failed /\ calls # <<>>
  /\ failed' = Throws(Head(calls))
  /\ local' = IF failed' THEN local ELSE Observed(local, Head(calls))
  /\ calls' = Tail(calls)
  /\ UNCHANGED <<headerConfig, path, remote, history, sends, renames>>

RemoteHandle ==
  /\ ~failed /\ path # <<>>
  /\ failed' = Throws(Head(path))
  /\ remote' = IF failed' THEN remote ELSE Observed(remote, Head(path))
  /\ path' = Tail(path)
  /\ lost' = [lost EXCEPT ![Pair(Head(path))] = 0]
  /\ restarted' = [restarted EXCEPT ![Pair(Head(path))] = FALSE]
  /\ UNCHANGED <<headerConfig, calls, local, fresh, nested, sends, renames>>

(***************************************************************************)
(* The path loses a message.                                               *)
(***************************************************************************)
Lose ==
  /\ ~failed /\ path # <<>>
  /\ path' = Tail(path)
  /\ lost' = [lost EXCEPT ![Pair(Head(path))] = @ + 1]
  /\ restarted' = [restarted EXCEPT ![Pair(Head(path))] = @ \/ Head(path).first]
  /\ UNCHANGED <<headerConfig, calls, local, remote, failed, fresh, nested, sends, renames>>

(***************************************************************************)
(* BridgeMissEvents::resetMissEvents, of the remote observer.              *)
(***************************************************************************)
ResetMissEvents ==
  /\ ~failed
  /\ remote' = [remote EXCEPT !.numberOfPacketMissEvents = [p \in Pairs |-> 0]]
  /\ UNCHANGED <<headerConfig, calls, path, local, failed, history, sends, renames>>

Next ==
  \/ \E n \in Nodes, receiver \in Receivers : NodeSend(n, receiver)
  \/ \E n \in Nodes, id \in NodeIds : NodeSetOwnSenderId(n, id)
  \/ LocalHandle
  \/ RemoteHandle
  \/ Lose
  \/ ResetMissEvents

Spec == Init /\ [][Next]_vars

-----------------------------------------------------------------------------
(***************************************************************************)
(* The step of a message that reaches the remote observer.                 *)
(***************************************************************************)
Arrives == path # <<>> /\ path' = Tail(path) /\ lost'[Pair(Head(path))] = 0

(***************************************************************************)
(* The remote observer counts one miss event for every gap and none without*)
(* one, although sender and observer only keep counters of eight bits for  *)
(* each pair: a gap goes unnoticed only if its length is a multiple of     *)
(* their range, or if the sender started to count anew.                    *)
(***************************************************************************)
MissesAreGaps ==
  [][Arrives =>
       LET header == Head(path)
           p == Pair(header)
       IN  p \in remote.alreadySeen /\ ~restarted[p] /\ ~header.first =>
             remote'.numberOfPacketMissEvents[p] =
               remote.numberOfPacketMissEvents[p]
                 + (IF lost[p] % CounterRange = 0 THEN 0 ELSE 1)]_vars

(***************************************************************************)
(* The local observer, to which nothing is lost, reports a miss event of a *)
(* pair only if a handler sent to the receiver from inside a send to it,   *)
(* which shows the observer the later counter first, or if the sender      *)
(* started to count anew.  Sends to other receivers do no harm.            *)
(***************************************************************************)
NoMissUnlessNested ==
  \A p \in Pairs \ nested : local.numberOfPacketMissEvents[p] = 0
=============================================================================
