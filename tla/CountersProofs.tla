---------------------------- MODULE CountersProofs ----------------------------
(***************************************************************************)
(* What the packet counters tell about lost messages, for every width of   *)
(* the counters, all nodes and ids, and however long the system runs.      *)
(***************************************************************************)
EXTENDS Counters, TLAPS

-----------------------------------------------------------------------------
(***************************************************************************)
(* Arithmetic modulo the range of the counters.                            *)
(***************************************************************************)

(***************************************************************************)
(* Division leaves one remainder only.                                     *)
(***************************************************************************)
LEMMA RemainderUnique ==
  ASSUME NEW m \in Nat \ {0}, NEW q \in Int, NEW u \in Int, NEW r \in 0 .. m - 1, NEW s \in 0 .. m - 1,
         m * q + r = m * u + s
  PROVE  q = u /\ r = s
<1>1. m * (q - u) = s - r
  OBVIOUS
<1>2. q - u \in Int
  OBVIOUS
<1>3. ASSUME NEW d \in Int, m * d = s - r PROVE d = 0
  <2>1. CASE d >= 1
    <3>1. m * d >= m
      BY <2>1
    <3> QED BY <1>3, <3>1
  <2>2. CASE d <= -1
    <3>1. m * d <= -m
      BY <2>2
    <3> QED BY <1>3, <3>1
  <2> QED BY <2>1, <2>2
<1>4. q - u = 0
  BY <1>1, <1>2, <1>3
<1> QED BY <1>4

(***************************************************************************)
(* The remainder of a sum is the one it was put together from.             *)
(***************************************************************************)
LEMMA RemainderOf ==
  ASSUME NEW m \in Nat \ {0}, NEW q \in Int, NEW r \in 0 .. m - 1
  PROVE  (m * q + r) % m = r
<1> DEFINE x == m * q + r
<1>1. x \in Int
  OBVIOUS
<1>2. ASSUME NEW y \in Int PROVE y \div m \in Int /\ y % m \in 0 .. m - 1 /\ y = (m * (y \div m)) + (y % m)
  BY <1>2
<1>3. x \div m \in Int /\ x % m \in 0 .. m - 1 /\ x = m * (x \div m) + (x % m)
  BY <1>1, <1>2
<1>4. m * q + r = m * (x \div m) + (x % m)
  BY <1>3
<1> HIDE DEF x
<1>5. r = x % m
  BY <1>3, <1>4, RemainderUnique
<1> QED BY <1>5 DEF x

(***************************************************************************)
(* Counting on from a counter: one by one, or by a gap, comes to the same. *)
(***************************************************************************)
LEMMA CountOn ==
  ASSUME NEW e \in Counter, NEW l \in Nat
  PROVE  /\ (e + l) % CounterRange \in Counter
         /\ (((e + l) % CounterRange) + 1) % CounterRange = (e + (l + 1)) % CounterRange
         /\ (e + 0) % CounterRange = e
         /\ (e + l) % CounterRange = e <=> l % CounterRange = 0
<1> DEFINE m == CounterRange
<1>1. m \in Nat \ {0} /\ e \in 0 .. m - 1
  BY CountersAssumption DEF Counter
<1> HIDE DEF m
<1>2. ASSUME NEW y \in Int PROVE y \div m \in Int /\ y % m \in 0 .. m - 1 /\ y = (m * (y \div m)) + (y % m)
  BY <1>1, <1>2
<1>3. PICK q \in Int, r \in 0 .. m - 1 : e + l = m * q + r
  <2>1. e + l \in Int
    BY <1>1
  <2> QED BY <1>2, <2>1
<1>4. (e + l) % m = r
  BY <1>1, <1>3, RemainderOf
<1>5. (r + 1) % m = (e + (l + 1)) % m
  <2>1. CASE r + 1 < m
    <3>1. r + 1 \in 0 .. m - 1 /\ m * q + (r + 1) = e + (l + 1) /\ m * 0 + (r + 1) = r + 1
      BY <1>1, <1>3, <2>1
    <3>2. (m * q + (r + 1)) % m = r + 1
      BY <1>1, <1>3, <3>1, RemainderOf
    <3>3. (m * 0 + (r + 1)) % m = r + 1
      BY <1>1, <3>1, RemainderOf, 0 \in Int
    <3> QED BY <3>1, <3>2, <3>3
  <2>2. CASE r + 1 = m
    <3>1. m * (q + 1) + 0 = e + (l + 1) /\ m * 1 + 0 = r + 1 /\ 0 \in 0 .. m - 1 /\ q + 1 \in Int
      BY <1>1, <1>3, <2>2
    <3>2. (m * (q + 1) + 0) % m = 0
      BY <1>1, <3>1, RemainderOf
    <3>3. (m * 1 + 0) % m = 0
      BY <1>1, <3>1, RemainderOf, 1 \in Int
    <3> QED BY <3>1, <3>2, <3>3
  <2> QED BY <1>1, <2>1, <2>2
<1>6. (e + 0) % m = e
  <2>1. m * 0 + e = e + 0
    BY <1>1
  <2> QED BY <1>1, <2>1, RemainderOf
<1>7. r = e <=> l % m = 0
  <2>1. PICK u \in Int, s \in 0 .. m - 1 : l = m * u + s
    BY <1>2
  <2>2. l % m = s
    BY <1>1, <2>1, RemainderOf
  <2>3. CASE r = e
    <3>1. m * q + 0 = m * u + s
      BY <1>1, <1>3, <2>1, <2>3
    <3> QED BY <1>1, <2>2, <2>3, <3>1, RemainderUnique
  <2>4. CASE s = 0
    <3>1. m * q + r = m * u + e
      BY <1>1, <1>3, <2>1, <2>4
    <3> QED BY <1>1, <2>2, <2>4, <3>1, RemainderUnique
  <2> QED BY <2>2, <2>3, <2>4
<1> QED BY <1>1, <1>4, <1>5, <1>6, <1>7 DEF m, Counter

-----------------------------------------------------------------------------
(***************************************************************************)
(* The state and its types.                                                *)
(***************************************************************************)

(***************************************************************************)
(* The places of a sequence that grows at an end or loses its head.        *)
(***************************************************************************)
LEMMA SequenceFacts ==
  ASSUME NEW S, NEW s \in Seq(S), NEW x \in S
  PROVE  /\ Append(s, x) \in Seq(S) /\ Len(Append(s, x)) = Len(s) + 1
         /\ Append(s, x)[Len(s) + 1] = x
         /\ \A i \in 1 .. Len(s) : Append(s, x)[i] = s[i]
         /\ <<x>> \o s \in Seq(S) /\ Len(<<x>> \o s) = Len(s) + 1
         /\ (<<x>> \o s)[1] = x
         /\ \A i \in 1 .. Len(s) : (<<x>> \o s)[i + 1] = s[i]
  OBVIOUS

LEMMA TailFacts ==
  ASSUME NEW S, NEW s \in Seq(S), s # <<>>
  PROVE  /\ Head(s) \in S /\ Head(s) = s[1] /\ 1 \in 1 .. Len(s)
         /\ Tail(s) \in Seq(S) /\ Len(Tail(s)) = Len(s) - 1
         /\ \A i \in 1 .. Len(s) - 1 : Tail(s)[i] = s[i + 1]
  OBVIOUS

(***************************************************************************)
(* A pair is made of two ids of the table.                                 *)
(***************************************************************************)
LEMMA PairFacts ==
  ASSUME NEW p \in Pairs
  PROVE  p = <<p[1], p[2]>> /\ p[1] \in TableIds /\ p[2] \in TableIds /\ p \in DeviceIds \X DeviceIds
  BY DEF Pairs, TableIds

(***************************************************************************)
(* What is not ignored belongs to a pair with a counter.                   *)
(***************************************************************************)
LEMMA ObservedPairs ==
  ASSUME NEW header \in Headers
  PROVE  /\ Pair(header) = <<header.sender, header.receiver>>
         /\ Pair(header) \in DeviceIds \X DeviceIds
         /\ header.counter \in Counter
         /\ ~Ignored(header) => Pair(header) \in Pairs
<1>1. header.sender \in DeviceIds /\ header.receiver \in DeviceIds /\ header.counter \in Counter
  BY DEF Headers
<1>2. ASSUME ~Ignored(header) PROVE header.sender \in TableIds /\ header.receiver \in TableIds
  <2>1. MaxId \in Nat /\ MaxDevices \in 1 .. MaxId + 1 /\ MaxDevices # MaxId
    BY CountersAssumption
  <2>2. CASE MaxDevices < MaxId
    BY <1>1, <1>2, <2>1, <2>2 DEF Ignored, TableIds, DeviceIds
  <2>3. CASE MaxDevices = MaxId + 1
    BY <1>1, <2>1, <2>3 DEF TableIds, DeviceIds
  <2> QED BY <2>1, <2>2, <2>3
<1> QED BY <1>1, <1>2 DEF Pair, Pairs

(***************************************************************************)
(* The next counter of a counter.                                          *)
(***************************************************************************)
LEMMA NextCounter ==
  ASSUME NEW c \in Counter
  PROVE  (c + 1) % CounterRange \in Counter /\ c \in Nat /\ 0 \in Counter
<1>1. (c + 1) % CounterRange \in Counter
  BY CountOn
<1> QED BY <1>1, CountersAssumption DEF Counter

(***************************************************************************)
(* An observer changes only what it keeps of the pair of the message.      *)
(***************************************************************************)
LEMMA ObservedType ==
  ASSUME NEW observer \in Observers, NEW header \in Headers
  PROVE  /\ Observed(observer, header) \in Observers
         /\ \A p \in Pairs \ {Pair(header)} :
              /\ p \in Observed(observer, header).alreadySeen <=> p \in observer.alreadySeen
              /\ Observed(observer, header).expectedNextPacketCounter[p] = observer.expectedNextPacketCounter[p]
              /\ Observed(observer, header).numberOfPacketMissEvents[p] = observer.numberOfPacketMissEvents[p]
         /\ ~Ignored(header) =>
              /\ Observed(observer, header).alreadySeen = observer.alreadySeen \cup {Pair(header)}
              /\ Observed(observer, header).expectedNextPacketCounter[Pair(header)] = (header.counter + 1) % CounterRange
              /\ Observed(observer, header).numberOfPacketMissEvents[Pair(header)] =
                   IF IsMiss(observer, header) THEN observer.numberOfPacketMissEvents[Pair(header)] + 1
                   ELSE observer.numberOfPacketMissEvents[Pair(header)]
<1>1. CASE Ignored(header)
  BY <1>1 DEF Observed
<1>2. CASE ~Ignored(header)
  <2> DEFINE q == Pair(header)
             c == (header.counter + 1) % CounterRange
             e == IF IsMiss(observer, header) THEN observer.numberOfPacketMissEvents[q] + 1
                  ELSE observer.numberOfPacketMissEvents[q]
  <2>1. q \in Pairs /\ c \in Counter
    BY <1>2, ObservedPairs, NextCounter
  <2>2. observer.alreadySeen \subseteq Pairs /\ observer.expectedNextPacketCounter \in [Pairs -> Counter]
        /\ observer.numberOfPacketMissEvents \in [Pairs -> Nat]
    BY DEF Observers
  <2>3. e \in Nat
    BY <2>1, <2>2
  <2>4. Observed(observer, header) =
          [alreadySeen |-> observer.alreadySeen \cup {q},
           expectedNextPacketCounter |-> [observer.expectedNextPacketCounter EXCEPT ![q] = c],
           numberOfPacketMissEvents |-> [observer.numberOfPacketMissEvents EXCEPT ![q] = e]]
    BY <1>2 DEF Observed
  <2> HIDE DEF q, c, e
  <2>5. Observed(observer, header) \in Observers
    BY <2>1, <2>2, <2>3, <2>4 DEF Observers
  <2>6. \A p \in Pairs \ {q} :
          /\ p \in Observed(observer, header).alreadySeen <=> p \in observer.alreadySeen
          /\ Observed(observer, header).expectedNextPacketCounter[p] = observer.expectedNextPacketCounter[p]
          /\ Observed(observer, header).numberOfPacketMissEvents[p] = observer.numberOfPacketMissEvents[p]
    BY <2>2, <2>4
  <2>7. Observed(observer, header).expectedNextPacketCounter[q] = c
        /\ Observed(observer, header).numberOfPacketMissEvents[q] = e
        /\ Observed(observer, header).alreadySeen = observer.alreadySeen \cup {q}
    BY <2>1, <2>2, <2>4
  <2> QED BY <2>5, <2>6, <2>7 DEF q, c, e
<1> QED BY <1>1, <1>2

(***************************************************************************)
(* A send of node n: the header it puts on the path, and what it leaves    *)
(* behind.                                                                 *)
(***************************************************************************)
Sends(n, header) ==
  /\ header \in Headers
  /\ header.sender = headerConfig[n].mOwnSenderId
  /\ header.counter \in NextCounters(headerConfig[n], header.receiver)
  /\ header.first = (header.receiver \in fresh[n])
  /\ path' = Append(path, header)
  /\ calls' = <<header>> \o calls
  /\ nested' = nested \cup {p \in {Pair(header)} : OutOfOrder(header)}
  /\ headerConfig' = [headerConfig EXCEPT ![n] = Counted(@, header.receiver)]
  /\ fresh' = [fresh EXCEPT ![n] = @ \ {header.receiver}]
  /\ UNCHANGED <<local, remote, failed, lost, restarted>>

LEMMA SendIsThat ==
  ASSUME TypeOK, NEW n \in Nodes, NEW receiver \in Receivers, NodeSend(n, receiver)
  PROVE  \E header \in Headers : Sends(n, header)
<1>1. PICK counter \in NextCounters(headerConfig[n], receiver) :
        LET header == [sender |-> headerConfig[n].mOwnSenderId, receiver |-> receiver,
                       counter |-> counter, first |-> receiver \in fresh[n]]
        IN  /\ path' = Append(path, header)
            /\ calls' = <<header>> \o calls
            /\ nested' = nested \cup {p \in {Pair(header)} : OutOfOrder(header)}
  BY DEF NodeSend
<1> DEFINE header == [sender |-> headerConfig[n].mOwnSenderId, receiver |-> receiver,
                      counter |-> counter, first |-> receiver \in fresh[n]]
<1>2. headerConfig[n] \in HeaderConfigs /\ receiver \in DeviceIds
  BY CountersAssumption DEF TypeOK
<1>3. headerConfig[n].mOwnSenderId \in DeviceIds /\ headerConfig[n].mCounterForReceiver \in [TableIds -> Counter]
  BY <1>2 DEF HeaderConfigs
<1>4. counter \in Counter
  BY <1>1, <1>3 DEF NextCounters
<1>5. header \in Headers
  BY <1>2, <1>3, <1>4 DEF Headers
<1>6. header.sender = headerConfig[n].mOwnSenderId /\ header.receiver = receiver /\ header.counter = counter
      /\ header.first = (receiver \in fresh[n])
  OBVIOUS
<1>7. path' = Append(path, header) /\ calls' = <<header>> \o calls
      /\ nested' = nested \cup {p \in {Pair(header)} : OutOfOrder(header)}
  BY <1>1
<1> HIDE DEF header
<1>8. Sends(n, header)
  BY <1>1, <1>5, <1>6, <1>7 DEF Sends, NodeSend
<1> QED BY <1>5, <1>8

(***************************************************************************)
(* A configuration that counted a message is one again.                    *)
(***************************************************************************)
LEMMA CountedFacts ==
  ASSUME NEW config \in HeaderConfigs, NEW receiver \in DeviceIds
  PROVE  /\ Counted(config, receiver) \in HeaderConfigs
         /\ Counted(config, receiver).mOwnSenderId = config.mOwnSenderId
         /\ \A r \in TableIds :
              Counted(config, receiver).mCounterForReceiver[r] =
                IF r = receiver THEN (config.mCounterForReceiver[r] + 1) % CounterRange
                ELSE config.mCounterForReceiver[r]
<1>1. config.mCounterForReceiver \in [TableIds -> Counter]
  BY DEF HeaderConfigs
<1>2. CASE receiver \in TableIds
  <2> DEFINE c == (config.mCounterForReceiver[receiver] + 1) % CounterRange
  <2>1. c \in Counter
    BY <1>1, <1>2, NextCounter
  <2>2. Counted(config, receiver) = [config EXCEPT !.mCounterForReceiver =
                                       [config.mCounterForReceiver EXCEPT ![receiver] = c]]
    BY <1>2 DEF Counted, HeaderConfigs
  <2>3. \A r \in TableIds : r = receiver => c = (config.mCounterForReceiver[r] + 1) % CounterRange
    OBVIOUS
  <2> HIDE DEF c
  <2> QED BY <1>1, <1>2, <2>1, <2>2, <2>3 DEF HeaderConfigs
<1>3. CASE receiver \notin TableIds
  BY <1>3 DEF Counted
<1> QED BY <1>2, <1>3

LEMMA FirstConfig ==
  ASSUME NEW id \in DeviceIds
  PROVE  HeaderPrepareInit(id) \in HeaderConfigs /\ HeaderPrepareInit(id).mOwnSenderId = id
  BY CountersAssumption DEF HeaderPrepareInit, HeaderConfigs, Counter

LEMMA InitTypes == Init => TypeOK
<1> SUFFICES ASSUME Init PROVE TypeOK
  OBVIOUS
<1>1. \A n \in Nodes : InitialOwnId[n] \in DeviceIds
  BY CountersAssumption
<1>2. headerConfig \in [Nodes -> HeaderConfigs]
  BY <1>1, FirstConfig DEF Init
<1>3. BridgeMissEvents \in Observers
  BY CountersAssumption DEF BridgeMissEvents, Observers, Counter
<1>4. lost \in [DeviceIds \X DeviceIds -> Nat] /\ restarted \in [DeviceIds \X DeviceIds -> BOOLEAN]
  BY DEF Init
<1>5. calls \in Seq(Headers) /\ path \in Seq(Headers)
  BY DEF Init
<1>6. fresh \in [Nodes -> SUBSET DeviceIds] /\ nested = {} /\ failed \in BOOLEAN
      /\ local = BridgeMissEvents /\ remote = BridgeMissEvents
  BY DEF Init
<1> QED BY <1>2, <1>3, <1>4, <1>5, <1>6 DEF TypeOK

LEMMA NextTypes == TypeOK /\ [Next]_vars => TypeOK'
<1> SUFFICES ASSUME TypeOK, [Next]_vars PROVE TypeOK'
  OBVIOUS
<1>1. CASE UNCHANGED vars
  BY <1>1 DEF TypeOK, vars, history
<1>2. ASSUME NEW n \in Nodes, NEW receiver \in Receivers, NodeSend(n, receiver) PROVE TypeOK'
  <2>1. PICK header \in Headers : Sends(n, header)
    BY <1>2, SendIsThat
  <2>2. header.receiver \in DeviceIds /\ headerConfig[n] \in HeaderConfigs
    BY DEF Headers, TypeOK
  <2>3. headerConfig' \in [Nodes -> HeaderConfigs]
    BY <2>1, <2>2, CountedFacts DEF TypeOK, Sends
  <2>4. path' \in Seq(Headers) /\ calls' \in Seq(Headers)
    BY <2>1, SequenceFacts DEF TypeOK, Sends
  <2>5. Pair(header) \in DeviceIds \X DeviceIds
    BY ObservedPairs
  <2>6. fresh' \in [Nodes -> SUBSET DeviceIds] /\ nested' \subseteq DeviceIds \X DeviceIds
    BY <2>1, <2>5 DEF TypeOK, Sends
  <2> QED BY <2>1, <2>3, <2>4, <2>6 DEF TypeOK, Sends
<1>3. ASSUME NEW n \in Nodes, NEW id \in NodeIds, NodeSetOwnSenderId(n, id) PROVE TypeOK'
  <2>1. id \in DeviceIds
    BY CountersAssumption
  <2>2. HeaderPrepareInit(id) \in HeaderConfigs
    BY <2>1, FirstConfig
  <2>3. headerConfig' \in [Nodes -> HeaderConfigs] /\ fresh' \in [Nodes -> SUBSET DeviceIds]
    BY <1>3, <2>2 DEF TypeOK, NodeSetOwnSenderId
  <2> QED BY <1>3, <2>3 DEF TypeOK, NodeSetOwnSenderId
<1>4. CASE LocalHandle
  <2>1. Head(calls) \in Headers /\ Tail(calls) \in Seq(Headers)
    BY <1>4, TailFacts DEF TypeOK, LocalHandle
  <2>2. local' \in Observers /\ failed' \in BOOLEAN
    BY <1>4, <2>1, ObservedType DEF TypeOK, LocalHandle, Throws
  <2> QED BY <1>4, <2>1, <2>2 DEF TypeOK, LocalHandle, history
<1>5. CASE RemoteHandle
  <2>1. Head(path) \in Headers /\ Tail(path) \in Seq(Headers)
    BY <1>5, TailFacts DEF TypeOK, RemoteHandle
  <2>2. remote' \in Observers /\ failed' \in BOOLEAN
    BY <1>5, <2>1, ObservedType DEF TypeOK, RemoteHandle, Throws
  <2>3. lost' \in [DeviceIds \X DeviceIds -> Nat] /\ restarted' \in [DeviceIds \X DeviceIds -> BOOLEAN]
    BY <1>5 DEF TypeOK, RemoteHandle
  <2> QED BY <1>5, <2>1, <2>2, <2>3 DEF TypeOK, RemoteHandle
<1>6. CASE Lose
  <2>1. Head(path) \in Headers /\ Tail(path) \in Seq(Headers)
    BY <1>6, TailFacts DEF TypeOK, Lose
  <2>2. Pair(Head(path)) \in DeviceIds \X DeviceIds /\ Head(path).first \in BOOLEAN
    BY <2>1, ObservedPairs DEF Headers
  <2>3. lost' \in [DeviceIds \X DeviceIds -> Nat]
    BY <1>6, <2>2 DEF TypeOK, Lose
  <2>4. restarted' \in [DeviceIds \X DeviceIds -> BOOLEAN]
    BY <1>6, <2>2 DEF TypeOK, Lose
  <2> QED BY <1>6, <2>1, <2>3, <2>4 DEF TypeOK, Lose
<1>7. CASE ResetMissEvents
  <2>1. remote \in Observers
    BY DEF TypeOK
  <2>2. remote' \in Observers
    BY <1>7, <2>1 DEF ResetMissEvents, Observers
  <2> QED BY <1>7, <2>2 DEF TypeOK, ResetMissEvents, history
<1> QED BY <1>1, <1>2, <1>3, <1>4, <1>5, <1>6, <1>7 DEF Next

(***************************************************************************)
(* The counters, the observers and what they have seen keep their types,   *)
(* whatever is sent, lost or renamed: no counter ever leaves its range.    *)
(***************************************************************************)
THEOREM CountersTypesCorrect == Spec => []TypeOK
<1> QED BY InitTypes, NextTypes, PTL DEF Spec

-----------------------------------------------------------------------------
(***************************************************************************)
(* The inductive invariants.                                               *)
(***************************************************************************)

(***************************************************************************)
(* No two nodes go by one id.                                              *)
(***************************************************************************)
NamesInv ==
  \A m, n \in Nodes : headerConfig[m].mOwnSenderId = headerConfig[n].mOwnSenderId => m = n

(***************************************************************************)
(* An observer has seen only pairs whose messages it can count.            *)
(***************************************************************************)
SeenInv(observer) ==
  \A header \in Headers :
    Pair(header) \in observer.alreadySeen => ~Ignored(header) /\ ~Throws(header)

(***************************************************************************)
(* Node n has numbered a message of the pair since it last began anew, and *)
(* this is the number it gives the next one.                               *)
(***************************************************************************)
Numbers(n, p) == headerConfig[n].mOwnSenderId = p[1] /\ p[2] \notin fresh[n]
CounterOf(n, p) == headerConfig[n].mCounterForReceiver[p[2]]

(***************************************************************************)
(* Of a pair that is not nested, one send is open at most; the local       *)
(* observer expects the counter of that send, or else the one the node     *)
(* gives next.                                                             *)
(***************************************************************************)
LocalInvOf(p) ==
  /\ local.numberOfPacketMissEvents[p] = 0
  /\ \A i, j \in 1 .. Len(calls) : Pair(calls[i]) = p /\ Pair(calls[j]) = p => i = j
  /\ \A i \in 1 .. Len(calls) :
       Pair(calls[i]) = p /\ p \in local.alreadySeen =>
         calls[i].counter = local.expectedNextPacketCounter[p]
  /\ \A n \in Nodes, i \in 1 .. Len(calls) :
       Numbers(n, p) /\ Pair(calls[i]) = p => CounterOf(n, p) = (calls[i].counter + 1) % CounterRange
  /\ \A n \in Nodes :
       Numbers(n, p) /\ p \in local.alreadySeen /\ (\A i \in 1 .. Len(calls) : Pair(calls[i]) # p) =>
         CounterOf(n, p) = local.expectedNextPacketCounter[p]

LocalInv == \A p \in Pairs \ nested : LocalInvOf(p)

(***************************************************************************)
(* The messages of a pair on the path, and then the node that sends them,  *)
(* count on from each other, unless a message is the first after a reset.  *)
(***************************************************************************)
Consecutive(p) ==
  /\ \A i \in 1 .. Len(path), j \in 1 .. Len(path) :
       /\ j < i /\ Pair(path[i]) = p /\ ~path[i].first /\ Pair(path[j]) = p
       /\ \A k \in 1 .. Len(path) : j < k /\ k < i => Pair(path[k]) # p
       => path[i].counter = (path[j].counter + 1) % CounterRange
  /\ \A n \in Nodes, j \in 1 .. Len(path) :
       /\ Numbers(n, p) /\ Pair(path[j]) = p
       /\ \A k \in 1 .. Len(path) : j < k => Pair(path[k]) # p
       => CounterOf(n, p) = (path[j].counter + 1) % CounterRange

(***************************************************************************)
(* The next message of the pair to arrive has the counter c.               *)
(***************************************************************************)
Follows(p, c) ==
  /\ \A i \in 1 .. Len(path) :
       /\ Pair(path[i]) = p /\ ~path[i].first
       /\ \A k \in 1 .. Len(path) : k < i => Pair(path[k]) # p
       => path[i].counter = c
  /\ \A n \in Nodes :
       Numbers(n, p) /\ (\A k \in 1 .. Len(path) : Pair(path[k]) # p) => CounterOf(n, p) = c

(***************************************************************************)
(* A message that arrives is as many counters ahead of what the remote     *)
(* observer expects as messages of the pair were lost.                     *)
(***************************************************************************)
RemoteInvOf(p) ==
  /\ Consecutive(p)
  /\ p \in remote.alreadySeen /\ ~restarted[p] =>
       Follows(p, (remote.expectedNextPacketCounter[p] + lost[p]) % CounterRange)

RemoteInv == \A p \in Pairs : RemoteInvOf(p)

-----------------------------------------------------------------------------
(***************************************************************************)
(* The nodes.                                                              *)
(***************************************************************************)
LEMMA InitNames == Init => NamesInv /\ SeenInv(local) /\ SeenInv(remote)
  BY CountersAssumption DEF Init, NamesInv, SeenInv, HeaderPrepareInit, BridgeMissEvents

(***************************************************************************)
(* A send leaves the counters of other pairs alone; of its own pair, the   *)
(* message has the counter of the node, and the node counts on.            *)
(***************************************************************************)
LEMMA SendNames ==
  ASSUME TypeOK, NamesInv, NEW n \in Nodes, NEW header, Sends(n, header)
  PROVE  /\ NamesInv'
         /\ \A p \in Pairs \ {Pair(header)} : \A m \in Nodes :
              Numbers(m, p)' => Numbers(m, p) /\ CounterOf(m, p)' = CounterOf(m, p)
         /\ \A p \in Pairs : p = Pair(header) =>
              /\ ~header.first => Numbers(n, p)
              /\ header.counter = CounterOf(n, p)
              /\ \A m \in Nodes : Numbers(m, p)' => CounterOf(m, p)' = (header.counter + 1) % CounterRange
<1>1. header \in Headers /\ header.receiver \in DeviceIds /\ header.sender = headerConfig[n].mOwnSenderId
      /\ Pair(header) = <<header.sender, header.receiver>>
  BY ObservedPairs DEF Sends, Headers
<1>2. headerConfig[n] \in HeaderConfigs
  BY DEF TypeOK
<1>3. headerConfig' = [headerConfig EXCEPT ![n] = Counted(headerConfig[n], header.receiver)]
      /\ fresh' = [fresh EXCEPT ![n] = fresh[n] \ {header.receiver}]
  BY DEF Sends, TypeOK
<1>4. \A m \in Nodes : headerConfig'[m].mOwnSenderId = headerConfig[m].mOwnSenderId
  BY <1>1, <1>2, <1>3, CountedFacts DEF TypeOK
<1>5. \A m \in Nodes : m # n => headerConfig'[m] = headerConfig[m] /\ fresh'[m] = fresh[m]
  BY <1>3 DEF TypeOK
<1>6. fresh'[n] = fresh[n] \ {header.receiver}
  BY <1>3 DEF TypeOK
<1>7. \A r \in TableIds : headerConfig'[n].mCounterForReceiver[r] =
        IF r = header.receiver THEN (headerConfig[n].mCounterForReceiver[r] + 1) % CounterRange
        ELSE headerConfig[n].mCounterForReceiver[r]
  BY <1>1, <1>2, <1>3, CountedFacts DEF TypeOK
<1>8. NamesInv'
  BY <1>4 DEF NamesInv
<1>9. ASSUME NEW p \in Pairs \ {Pair(header)}, NEW m \in Nodes, Numbers(m, p)'
      PROVE  Numbers(m, p) /\ CounterOf(m, p)' = CounterOf(m, p)
  <2>1. p = <<p[1], p[2]>> /\ p[2] \in TableIds
    BY PairFacts
  <2>2. headerConfig'[m].mOwnSenderId = p[1] /\ p[2] \notin fresh'[m]
    BY <1>9 DEF Numbers
  <2>3. CASE m # n
    BY <1>5, <2>2, <2>3 DEF Numbers, CounterOf
  <2>4. CASE m = n
    <3>1. p[2] # header.receiver
      BY <1>1, <1>4, <2>1, <2>2, <2>4
    <3> QED BY <1>4, <1>6, <1>7, <2>1, <2>2, <2>4, <3>1 DEF Numbers, CounterOf
  <2> QED BY <2>3, <2>4
<1>10. ASSUME NEW p \in Pairs, p = Pair(header)
       PROVE  /\ ~header.first => Numbers(n, p)
              /\ header.counter = CounterOf(n, p)
              /\ \A m \in Nodes : Numbers(m, p)' => CounterOf(m, p)' = (header.counter + 1) % CounterRange
  <2>1. p[1] = headerConfig[n].mOwnSenderId /\ p[2] = header.receiver /\ p[2] \in TableIds
    BY <1>1, <1>10, PairFacts
  <2>2. header.counter = headerConfig[n].mCounterForReceiver[p[2]]
    BY <2>1 DEF Sends, NextCounters
  <2>3. ~header.first => p[2] \notin fresh[n]
    BY <2>1 DEF Sends
  <2>4. ASSUME NEW m \in Nodes, Numbers(m, p)' PROVE CounterOf(m, p)' = (header.counter + 1) % CounterRange
    <3>1. m = n
      BY <1>4, <2>1, <2>4 DEF Numbers, NamesInv
    <3> QED BY <1>7, <2>1, <2>2, <3>1 DEF CounterOf
  <2> QED BY <2>1, <2>2, <2>3, <2>4 DEF Numbers, CounterOf
<1> QED BY <1>8, <1>9, <1>10

(***************************************************************************)
(* A node with a new name has numbered nothing; the others are as before.  *)
(***************************************************************************)
LEMMA RenameNames ==
  ASSUME TypeOK, NamesInv, NEW n \in Nodes, NEW id \in NodeIds, NodeSetOwnSenderId(n, id)
  PROVE  /\ NamesInv'
         /\ \A p \in Pairs : \A m \in Nodes :
              Numbers(m, p)' => Numbers(m, p) /\ CounterOf(m, p)' = CounterOf(m, p)
<1>1. id \in DeviceIds
  BY CountersAssumption
<1>2. headerConfig' = [headerConfig EXCEPT ![n] = HeaderPrepareInit(id)] /\ fresh' = [fresh EXCEPT ![n] = DeviceIds]
      /\ \A m \in Nodes \ {n} : headerConfig[m].mOwnSenderId # id
  BY DEF NodeSetOwnSenderId
<1>3. headerConfig'[n].mOwnSenderId = id /\ fresh'[n] = DeviceIds
  BY <1>1, <1>2, FirstConfig DEF TypeOK
<1>4. \A m \in Nodes : m # n => headerConfig'[m] = headerConfig[m] /\ fresh'[m] = fresh[m]
  BY <1>2 DEF TypeOK
<1>5. NamesInv'
  BY <1>2, <1>3, <1>4 DEF NamesInv
<1>6. ASSUME NEW p \in Pairs, NEW m \in Nodes, Numbers(m, p)'
      PROVE  Numbers(m, p) /\ CounterOf(m, p)' = CounterOf(m, p)
  <2>1. p[2] \in DeviceIds
    BY PairFacts DEF TableIds
  <2>2. m # n
    BY <1>3, <1>6, <2>1 DEF Numbers
  <2> QED BY <1>4, <1>6, <2>2 DEF Numbers, CounterOf
<1> QED BY <1>5, <1>6

(***************************************************************************)
(* A message an observer counts is one it can count.                       *)
(***************************************************************************)
LEMMA SeenKept ==
  ASSUME NEW observer \in Observers, NEW header \in Headers, SeenInv(observer), ~Throws(header)
  PROVE  SeenInv(Observed(observer, header))
<1> SUFFICES ASSUME NEW other \in Headers, Pair(other) \in Observed(observer, header).alreadySeen
             PROVE  ~Ignored(other) /\ ~Throws(other)
  BY DEF SeenInv
<1>1. CASE Pair(other) \in observer.alreadySeen
  BY <1>1 DEF SeenInv
<1>2. CASE Pair(other) \notin observer.alreadySeen
  <2>1. ~Ignored(header)
    BY <1>2 DEF Observed
  <2>2. Pair(other) = Pair(header)
    BY <1>2, <2>1, ObservedType
  <2>3. other.sender = header.sender /\ other.receiver = header.receiver
    BY <2>2, ObservedPairs
  <2> QED BY <2>1, <2>3 DEF Ignored, Throws
<1> QED BY <1>1, <1>2

LEMMA NextNames ==
  TypeOK /\ NamesInv /\ SeenInv(local) /\ SeenInv(remote) /\ [Next]_vars =>
    (NamesInv /\ SeenInv(local) /\ SeenInv(remote))'
<1> SUFFICES ASSUME TypeOK, NamesInv, SeenInv(local), SeenInv(remote), [Next]_vars
             PROVE  NamesInv' /\ SeenInv(local)' /\ SeenInv(remote)'
  OBVIOUS
<1>1. CASE UNCHANGED vars
  BY <1>1 DEF vars, history, NamesInv, SeenInv
<1>2. ASSUME NEW n \in Nodes, NEW receiver \in Receivers, NodeSend(n, receiver)
      PROVE  NamesInv' /\ SeenInv(local)' /\ SeenInv(remote)'
  <2>1. PICK header \in Headers : Sends(n, header)
    BY <1>2, SendIsThat
  <2>2. NamesInv'
    BY <2>1, SendNames
  <2> QED BY <2>1, <2>2 DEF Sends, SeenInv
<1>3. ASSUME NEW n \in Nodes, NEW id \in NodeIds, NodeSetOwnSenderId(n, id)
      PROVE  NamesInv' /\ SeenInv(local)' /\ SeenInv(remote)'
  <2>1. NamesInv'
    BY <1>3, RenameNames
  <2> QED BY <1>3, <2>1 DEF NodeSetOwnSenderId, SeenInv
<1>4. CASE LocalHandle
  <2>1. Head(calls) \in Headers /\ local \in Observers
    BY <1>4, TailFacts DEF TypeOK, LocalHandle
  <2>2. local' = local \/ (~Throws(Head(calls)) /\ local' = Observed(local, Head(calls)))
    BY <1>4 DEF LocalHandle
  <2>3. SeenInv(local)'
    BY <2>1, <2>2, SeenKept DEF SeenInv
  <2> QED BY <1>4, <2>3 DEF LocalHandle, NamesInv, SeenInv
<1>5. CASE RemoteHandle
  <2>1. Head(path) \in Headers /\ remote \in Observers
    BY <1>5, TailFacts DEF TypeOK, RemoteHandle
  <2>2. remote' = remote \/ (~Throws(Head(path)) /\ remote' = Observed(remote, Head(path)))
    BY <1>5 DEF RemoteHandle
  <2>3. SeenInv(remote)'
    BY <2>1, <2>2, SeenKept DEF SeenInv
  <2> QED BY <1>5, <2>3 DEF RemoteHandle, NamesInv, SeenInv
<1>6. CASE Lose
  BY <1>6 DEF Lose, NamesInv, SeenInv
<1>7. CASE ResetMissEvents
  <2>1. remote \in Observers
    BY DEF TypeOK
  <2>2. remote'.alreadySeen = remote.alreadySeen
    BY <1>7, <2>1 DEF ResetMissEvents, Observers
  <2> QED BY <1>7, <2>2 DEF ResetMissEvents, NamesInv, SeenInv
<1> QED BY <1>1, <1>2, <1>3, <1>4, <1>5, <1>6, <1>7 DEF Next

-----------------------------------------------------------------------------
(***************************************************************************)
(* The local observer.                                                     *)
(***************************************************************************)

(***************************************************************************)
(* A send opens a call: if it leaves its pair un-nested, the call carries  *)
(* what the observer expects.                                              *)
(***************************************************************************)
LEMMA SendLocal ==
  ASSUME TypeOK, NamesInv, NEW n \in Nodes, NEW header, Sends(n, header), NEW p \in Pairs \ nested',
         LocalInvOf(p)
  PROVE  LocalInvOf(p)'
<1>1. header \in Headers /\ calls \in Seq(Headers) /\ calls' = <<header>> \o calls /\ UNCHANGED local
  BY DEF Sends, TypeOK
<1>2. /\ Len(calls') = Len(calls) + 1 /\ Len(calls) \in Nat
      /\ calls'[1] = header
      /\ \A i \in 1 .. Len(calls) : calls'[i + 1] = calls[i]
  BY <1>1, SequenceFacts
<1>3. \A i \in 1 .. Len(calls') : i = 1 \/ (i - 1 \in 1 .. Len(calls) /\ calls'[i] = calls[i - 1])
  <2>1. ASSUME NEW i \in 1 .. Len(calls'), i # 1
        PROVE  i - 1 \in 1 .. Len(calls) /\ calls'[i] = calls[i - 1]
    <3>1. i - 1 \in 1 .. Len(calls) /\ (i - 1) + 1 = i
      BY <1>2, <2>1
    <3> QED BY <1>2, <3>1
  <2> QED BY <2>1
<1>4. ASSUME NEW i \in 1 .. Len(calls) PROVE i + 1 \in 1 .. Len(calls') /\ calls'[i + 1] = calls[i]
  BY <1>2
<1>5. CASE p # Pair(header)
  <2>1. \A m \in Nodes : Numbers(m, p)' => Numbers(m, p) /\ CounterOf(m, p)' = CounterOf(m, p)
    BY <1>5, SendNames
  <2>2. Pair(calls'[1]) # p
    BY <1>2, <1>5
  <2>3. ASSUME NEW i \in 1 .. Len(calls'), Pair(calls'[i]) = p
        PROVE  i - 1 \in 1 .. Len(calls) /\ calls'[i] = calls[i - 1]
    BY <1>3, <2>2, <2>3
  <2>4. ASSUME NEW i \in 1 .. Len(calls'), NEW j \in 1 .. Len(calls'), Pair(calls'[i]) = p, Pair(calls'[j]) = p
        PROVE  i = j
    <3>1. i - 1 = j - 1
      BY <2>3, <2>4 DEF LocalInvOf
    <3> QED BY <3>1
  <2>5. ASSUME NEW m \in Nodes, NEW i \in 1 .. Len(calls'), Numbers(m, p)', Pair(calls'[i]) = p
        PROVE  CounterOf(m, p)' = (calls'[i].counter + 1) % CounterRange
    BY <2>1, <2>3, <2>5 DEF LocalInvOf
  <2>6. ASSUME NEW i \in 1 .. Len(calls'), Pair(calls'[i]) = p, p \in local.alreadySeen
        PROVE  calls'[i].counter = local.expectedNextPacketCounter[p]
    BY <2>3, <2>6 DEF LocalInvOf
  <2>7. ASSUME \A i \in 1 .. Len(calls') : Pair(calls'[i]) # p, NEW i \in 1 .. Len(calls)
        PROVE  Pair(calls[i]) # p
    BY <1>4, <2>7
  <2>8. ASSUME NEW m \in Nodes, Numbers(m, p)', p \in local.alreadySeen,
               \A i \in 1 .. Len(calls') : Pair(calls'[i]) # p
        PROVE  CounterOf(m, p)' = local.expectedNextPacketCounter[p]
    BY <2>1, <2>7, <2>8 DEF LocalInvOf
  <2>9. local.numberOfPacketMissEvents[p] = 0
    BY DEF LocalInvOf
  <2> QED BY <1>1, <2>4, <2>5, <2>6, <2>8, <2>9 DEF LocalInvOf
<1>6. CASE p = Pair(header)
  <2>1. /\ ~header.first => Numbers(n, p)
        /\ header.counter = CounterOf(n, p)
        /\ \A m \in Nodes : Numbers(m, p)' => CounterOf(m, p)' = (header.counter + 1) % CounterRange
    BY <1>6, SendNames
  <2>2. ~OutOfOrder(header)
    BY <1>6 DEF Sends
  <2>3. \A i \in 1 .. Len(calls) : Pair(calls[i]) # p
    BY <1>1, <1>6, <2>2 DEF OutOfOrder
  <2>4. p \in local.alreadySeen => ~header.first
    BY <1>6, <2>2 DEF OutOfOrder
  <2>5. \A i \in 1 .. Len(calls') : Pair(calls'[i]) = p => i = 1 /\ calls'[i] = header
    BY <1>2, <1>3, <2>3
  <2>6. p \in local.alreadySeen => header.counter = local.expectedNextPacketCounter[p]
    BY <2>1, <2>3, <2>4 DEF LocalInvOf
  <2>7. ~ (\A i \in 1 .. Len(calls') : Pair(calls'[i]) # p)
    BY <1>2, <1>6
  <2>8. local.numberOfPacketMissEvents[p] = 0
    BY DEF LocalInvOf
  <2> QED BY <1>1, <2>1, <2>5, <2>6, <2>7, <2>8 DEF LocalInvOf
<1> QED BY <1>5, <1>6

(***************************************************************************)
(* The observer sees the innermost open send: what it expects of a pair    *)
(* that is not nested is what it gets.                                     *)
(***************************************************************************)
LEMMA HandleLocal ==
  ASSUME TypeOK, SeenInv(local), LocalHandle, NEW p \in Pairs \ nested, LocalInvOf(p)
  PROVE  LocalInvOf(p)'
<1> DEFINE h == Head(calls)
<1>1. h \in Headers /\ h = calls[1] /\ 1 \in 1 .. Len(calls) /\ Len(calls') = Len(calls) - 1 /\ Len(calls) \in Nat
      /\ \A i \in 1 .. Len(calls) - 1 : calls'[i] = calls[i + 1]
  BY TailFacts DEF TypeOK, LocalHandle
<1>2. \A i \in 1 .. Len(calls') : i + 1 \in 1 .. Len(calls) /\ calls'[i] = calls[i + 1]
  <2>1. ASSUME NEW i \in 1 .. Len(calls') PROVE i + 1 \in 1 .. Len(calls) /\ i \in 1 .. Len(calls) - 1
    BY <1>1
  <2> QED BY <1>1, <2>1
<1>3. \A i \in 1 .. Len(calls) : i # 1 => i - 1 \in 1 .. Len(calls') /\ calls'[i - 1] = calls[i]
  <2>1. ASSUME NEW i \in 1 .. Len(calls), i # 1 PROVE i - 1 \in 1 .. Len(calls) - 1 /\ (i - 1) + 1 = i
    BY <1>1, <2>1
  <2> QED BY <1>1, <2>1
<1>4. \A m \in Nodes : (Numbers(m, p)' <=> Numbers(m, p)) /\ CounterOf(m, p)' = CounterOf(m, p)
  BY DEF LocalHandle, history, Numbers, CounterOf
<1>5. local \in Observers
  BY DEF TypeOK
<1>6. failed' = Throws(h) /\ local' = IF failed' THEN local ELSE Observed(local, h)
  BY DEF LocalHandle
<1> HIDE DEF h
<1>7. ASSUME NEW i \in 1 .. Len(calls'), NEW j \in 1 .. Len(calls'), Pair(calls'[i]) = p, Pair(calls'[j]) = p
      PROVE  i = j
  <2>1. i + 1 = j + 1
    BY <1>2, <1>7 DEF LocalInvOf
  <2> QED BY <2>1
<1>8. ASSUME NEW m \in Nodes, NEW i \in 1 .. Len(calls'), Numbers(m, p)', Pair(calls'[i]) = p
      PROVE  CounterOf(m, p)' = (calls'[i].counter + 1) % CounterRange
  BY <1>2, <1>4, <1>8 DEF LocalInvOf
<1>9. CASE p # Pair(h) \/ (~Throws(h) /\ Ignored(h))
  <2>1. /\ p \in local'.alreadySeen <=> p \in local.alreadySeen
        /\ local'.expectedNextPacketCounter[p] = local.expectedNextPacketCounter[p]
        /\ local'.numberOfPacketMissEvents[p] = local.numberOfPacketMissEvents[p]
    <3>1. CASE p # Pair(h)
      BY <1>1, <1>5, <1>6, <3>1, ObservedType
    <3>2. CASE ~Throws(h) /\ Ignored(h)
      BY <1>6, <3>2 DEF Observed
    <3> QED BY <1>9, <3>1, <3>2
  <2>2. p = Pair(h) => p \notin local.alreadySeen
    BY <1>1, <1>9 DEF SeenInv
  <2>3. ASSUME NEW i \in 1 .. Len(calls'), Pair(calls'[i]) = p, p \in local'.alreadySeen
        PROVE  calls'[i].counter = local'.expectedNextPacketCounter[p]
    BY <1>2, <2>1, <2>3 DEF LocalInvOf
  <2>4. ASSUME NEW m \in Nodes, Numbers(m, p)', p \in local'.alreadySeen,
               \A i \in 1 .. Len(calls') : Pair(calls'[i]) # p
        PROVE  CounterOf(m, p)' = local'.expectedNextPacketCounter[p]
    <3>1. \A i \in 1 .. Len(calls) : Pair(calls[i]) # p
      BY <1>1, <1>3, <2>1, <2>2, <2>4
    <3> QED BY <1>4, <2>1, <2>4, <3>1 DEF LocalInvOf
  <2>5. local'.numberOfPacketMissEvents[p] = 0
    BY <2>1 DEF LocalInvOf
  <2> QED BY <1>7, <1>8, <2>3, <2>4, <2>5 DEF LocalInvOf
<1>10. CASE p = Pair(h) /\ Throws(h)
  <2>1. local' = local /\ p \notin local.alreadySeen
    BY <1>1, <1>6, <1>10 DEF SeenInv
  <2>2. local'.numberOfPacketMissEvents[p] = 0
    BY <2>1 DEF LocalInvOf
  <2> QED BY <1>7, <1>8, <2>1, <2>2 DEF LocalInvOf
<1>11. CASE p = Pair(h) /\ ~Throws(h) /\ ~Ignored(h)
  <2>1. local' = Observed(local, h)
    BY <1>6, <1>11
  <2>2. ~IsMiss(local, h)
    BY <1>1, <1>11 DEF LocalInvOf, IsMiss
  <2>3. local'.expectedNextPacketCounter[p] = (h.counter + 1) % CounterRange
        /\ local'.numberOfPacketMissEvents[p] = local.numberOfPacketMissEvents[p]
    BY <1>1, <1>5, <1>11, <2>1, <2>2, ObservedType
  <2>4. \A i \in 1 .. Len(calls') : Pair(calls'[i]) # p
    <3>1. ASSUME NEW i \in 1 .. Len(calls'), Pair(calls'[i]) = p PROVE FALSE
      <4>1. i + 1 = 1
        BY <1>1, <1>2, <1>11, <3>1 DEF LocalInvOf
      <4> QED BY <4>1
    <3> QED BY <3>1
  <2>5. ASSUME NEW m \in Nodes, Numbers(m, p)' PROVE CounterOf(m, p)' = local'.expectedNextPacketCounter[p]
    BY <1>1, <1>4, <1>11, <2>3, <2>5 DEF LocalInvOf
  <2>6. local'.numberOfPacketMissEvents[p] = 0
    BY <2>3 DEF LocalInvOf
  <2> QED BY <2>4, <2>5, <2>6 DEF LocalInvOf
<1> QED BY <1>9, <1>10, <1>11

LEMMA NextLocal ==
  TypeOK /\ NamesInv /\ SeenInv(local) /\ LocalInv /\ [Next]_vars => LocalInv'
<1> SUFFICES ASSUME TypeOK, NamesInv, SeenInv(local), LocalInv, [Next]_vars, NEW p \in Pairs \ nested'
             PROVE  LocalInvOf(p)'
  BY DEF LocalInv
<1>1. nested \subseteq nested'
  <2>1. ASSUME NEW n \in Nodes, NEW receiver \in Receivers, NodeSend(n, receiver) PROVE nested \subseteq nested'
    BY <2>1 DEF NodeSend
  <2> QED BY <2>1 DEF Next, vars, history, NodeSetOwnSenderId, LocalHandle, RemoteHandle, Lose, ResetMissEvents
<1>2. LocalInvOf(p)
  BY <1>1 DEF LocalInv
<1>3. ASSUME UNCHANGED <<calls, local, headerConfig, fresh>> PROVE LocalInvOf(p)'
  BY <1>2, <1>3 DEF LocalInvOf, Numbers, CounterOf
<1>4. ASSUME NEW n \in Nodes, NEW receiver \in Receivers, NodeSend(n, receiver) PROVE LocalInvOf(p)'
  <2>1. PICK header \in Headers : Sends(n, header)
    BY <1>4, SendIsThat
  <2> QED BY <1>2, <2>1, SendLocal
<1>5. ASSUME NEW n \in Nodes, NEW id \in NodeIds, NodeSetOwnSenderId(n, id) PROVE LocalInvOf(p)'
  <2>1. \A m \in Nodes : Numbers(m, p)' => Numbers(m, p) /\ CounterOf(m, p)' = CounterOf(m, p)
    BY <1>5, RenameNames
  <2>2. UNCHANGED <<calls, local>>
    BY <1>5 DEF NodeSetOwnSenderId
  <2> QED BY <1>2, <2>1, <2>2 DEF LocalInvOf
<1>6. CASE LocalHandle
  BY <1>1, <1>2, <1>6, HandleLocal
<1>7. CASE UNCHANGED vars \/ RemoteHandle \/ Lose \/ ResetMissEvents
  BY <1>3, <1>7 DEF vars, history, RemoteHandle, Lose, ResetMissEvents
<1> QED BY <1>4, <1>5, <1>6, <1>7 DEF Next

LEMMA InitLocal == Init => LocalInv
<1> SUFFICES ASSUME Init, NEW p \in Pairs PROVE LocalInvOf(p)
  BY DEF LocalInv
<1>1. calls = <<>> /\ p \notin local.alreadySeen
  BY DEF Init, BridgeMissEvents
<1>2. local.numberOfPacketMissEvents[p] = 0
  BY DEF Init, BridgeMissEvents
<1>3. 1 .. Len(calls) = {}
  BY <1>1
<1> QED BY <1>1, <1>2, <1>3 DEF LocalInvOf

(***************************************************************************)
(* Whatever counters wrap around and whoever is renamed, the observer at   *)
(* the bridge of the sender reports a miss of a pair only after a send     *)
(* inside a send to the same receiver, or a restart of the counting.       *)
(***************************************************************************)
THEOREM NoMissWithoutNesting == Spec => []NoMissUnlessNested
<1>1. LocalInv => NoMissUnlessNested
  BY DEF LocalInv, LocalInvOf, NoMissUnlessNested
<1> QED BY <1>1, InitTypes, NextTypes, InitNames, NextNames, InitLocal, NextLocal, PTL DEF Spec

-----------------------------------------------------------------------------
(***************************************************************************)
(* The remote observer.                                                    *)
(***************************************************************************)

(***************************************************************************)
(* A send puts the message that is next at the end of the path.            *)
(***************************************************************************)
LEMMA SendRemote ==
  ASSUME TypeOK, NamesInv, NEW n \in Nodes, NEW header, Sends(n, header), NEW p \in Pairs, NEW c,
         Consecutive(p)
  PROVE  Consecutive(p)' /\ (Follows(p, c) => Follows(p, c)')
<1> DEFINE l == Len(path)
<1>1. header \in Headers /\ path \in Seq(Headers) /\ path' = Append(path, header) /\ l \in Nat
  BY DEF Sends, TypeOK
<1>2. Len(path') = l + 1 /\ path'[l + 1] = header /\ l + 1 \in 1 .. Len(path')
      /\ \A i \in 1 .. l : path'[i] = path[i] /\ i \in 1 .. Len(path')
  BY <1>1, SequenceFacts
<1>3. \A i \in 1 .. Len(path') : i = l + 1 \/ i \in 1 .. l
  BY <1>1, <1>2
<1>4. ASSUME NEW i \in 1 .. l PROVE i < l + 1 /\ ~ (l + 1 < i) /\ path'[i] = path[i] /\ i \in 1 .. Len(path')
  BY <1>1, <1>2
<1>5. ~ (l + 1 < l + 1)
  BY <1>1
<1> HIDE DEF l
<1>6. ASSUME NEW i \in 1 .. l, NEW j \in 1 .. Len(path'), j < i,
             Pair(path[i]) = p, ~path[i].first, Pair(path'[j]) = p,
             \A k \in 1 .. Len(path') : j < k /\ k < i => Pair(path'[k]) # p
      PROVE  path[i].counter = (path'[j].counter + 1) % CounterRange
  <2>1. j \in 1 .. l /\ path'[j] = path[j]
    BY <1>3, <1>4, <1>6
  <2>2. \A k \in 1 .. l : j < k /\ k < i => Pair(path[k]) # p
    BY <1>4, <1>6
  <2> QED BY <1>6, <2>1, <2>2 DEF Consecutive, l
<1>7. CASE p # Pair(header)
  <2>1. \A m \in Nodes : Numbers(m, p)' => Numbers(m, p) /\ CounterOf(m, p)' = CounterOf(m, p)
    BY <1>7, SendNames
  <2>2. ASSUME NEW i \in 1 .. Len(path'), Pair(path'[i]) = p PROVE i \in 1 .. l /\ path'[i] = path[i]
    BY <1>2, <1>3, <1>7, <2>2
  <2>3. ASSUME NEW i \in 1 .. Len(path'), NEW j \in 1 .. Len(path'), j < i,
               Pair(path'[i]) = p, ~path'[i].first, Pair(path'[j]) = p,
               \A k \in 1 .. Len(path') : j < k /\ k < i => Pair(path'[k]) # p
        PROVE  path'[i].counter = (path'[j].counter + 1) % CounterRange
    BY <1>6, <2>2, <2>3
  <2>4. ASSUME NEW m \in Nodes, NEW j \in 1 .. Len(path'), Numbers(m, p)', Pair(path'[j]) = p,
               \A k \in 1 .. Len(path') : j < k => Pair(path'[k]) # p
        PROVE  CounterOf(m, p)' = (path'[j].counter + 1) % CounterRange
    <3>1. \A k \in 1 .. l : j < k => Pair(path[k]) # p
      BY <1>4, <2>4
    <3> QED BY <2>1, <2>2, <2>4, <3>1 DEF Consecutive, l
  <2>5. ASSUME Follows(p, c), NEW i \in 1 .. Len(path'), Pair(path'[i]) = p, ~path'[i].first,
               \A k \in 1 .. Len(path') : k < i => Pair(path'[k]) # p
        PROVE  path'[i].counter = c
    <3>1. \A k \in 1 .. l : k < i => Pair(path[k]) # p
      BY <1>4, <2>5
    <3> QED BY <2>2, <2>5, <3>1 DEF Follows, l
  <2>6. ASSUME Follows(p, c), NEW m \in Nodes, Numbers(m, p)', \A k \in 1 .. Len(path') : Pair(path'[k]) # p
        PROVE  CounterOf(m, p)' = c
    <3>1. \A k \in 1 .. l : Pair(path[k]) # p
      BY <1>4, <2>6
    <3> QED BY <2>1, <2>6, <3>1 DEF Follows, l
  <2> QED BY <2>3, <2>4, <2>5, <2>6 DEF Consecutive, Follows
<1>8. CASE p = Pair(header)
  <2>1. /\ ~header.first => Numbers(n, p)
        /\ header.counter = CounterOf(n, p)
        /\ \A m \in Nodes : Numbers(m, p)' => CounterOf(m, p)' = (header.counter + 1) % CounterRange
    BY <1>8, SendNames
  <2>2. Pair(path'[l + 1]) = p
    BY <1>2, <1>8
  <2>3. ASSUME NEW i \in 1 .. Len(path'), NEW j \in 1 .. Len(path'), j < i,
               Pair(path'[i]) = p, ~path'[i].first, Pair(path'[j]) = p,
               \A k \in 1 .. Len(path') : j < k /\ k < i => Pair(path'[k]) # p
        PROVE  path'[i].counter = (path'[j].counter + 1) % CounterRange
    <3>1. CASE i \in 1 .. l
      BY <1>4, <1>6, <2>3, <3>1
    <3>2. CASE i = l + 1
      <4>1. j \in 1 .. l /\ path'[j] = path[j]
        BY <1>3, <1>4, <1>5, <2>3, <3>2
      <4>2. \A k \in 1 .. l : j < k => Pair(path[k]) # p
        BY <1>4, <2>3, <3>2
      <4>3. CounterOf(n, p) = (path[j].counter + 1) % CounterRange
        BY <1>2, <2>1, <2>3, <3>2, <4>1, <4>2 DEF Consecutive, l
      <4> QED BY <1>2, <2>1, <3>2, <4>1, <4>3
    <3> QED BY <1>3, <3>1, <3>2
  <2>4. ASSUME NEW m \in Nodes, NEW j \in 1 .. Len(path'), Numbers(m, p)', Pair(path'[j]) = p,
               \A k \in 1 .. Len(path') : j < k => Pair(path'[k]) # p
        PROVE  CounterOf(m, p)' = (path'[j].counter + 1) % CounterRange
    <3>1. j = l + 1
      BY <1>2, <1>3, <1>4, <2>2, <2>4
    <3> QED BY <1>2, <2>1, <2>4, <3>1
  <2>5. ASSUME Follows(p, c), NEW i \in 1 .. Len(path'), Pair(path'[i]) = p, ~path'[i].first,
               \A k \in 1 .. Len(path') : k < i => Pair(path'[k]) # p
        PROVE  path'[i].counter = c
    <3>1. \A k \in 1 .. l : k < i => Pair(path[k]) # p
      BY <1>4, <2>5
    <3>2. CASE i \in 1 .. l
      BY <1>4, <2>5, <3>1, <3>2 DEF Follows, l
    <3>3. CASE i = l + 1
      <4>1. \A k \in 1 .. l : Pair(path[k]) # p
        BY <1>4, <3>1, <3>3
      <4> QED BY <1>2, <2>1, <2>5, <3>3, <4>1 DEF Follows, l
    <3> QED BY <1>3, <3>2, <3>3
  <2>6. ~ (\A k \in 1 .. Len(path') : Pair(path'[k]) # p)
    BY <1>2, <2>2
  <2> QED BY <2>3, <2>4, <2>5, <2>6 DEF Consecutive, Follows
<1> QED BY <1>7, <1>8

(***************************************************************************)
(* The head leaves the path: what follows it is what followed before, or,  *)
(* if it was of the pair, what its counter says.                           *)
(***************************************************************************)
LEMMA TailRemote ==
  ASSUME TypeOK, path # <<>>, path' = Tail(path), UNCHANGED <<headerConfig, fresh>>,
         NEW p \in Pairs, NEW c, Consecutive(p)
  PROVE  /\ Consecutive(p)'
         /\ (IF Pair(Head(path)) = p THEN c = (Head(path).counter + 1) % CounterRange ELSE Follows(p, c))
              => Follows(p, c)'
<1> DEFINE l == Len(path)
           Right == IF Pair(Head(path)) = p THEN c = (Head(path).counter + 1) % CounterRange ELSE Follows(p, c)
<1>1. Head(path) = path[1] /\ 1 \in 1 .. l /\ Len(path') = l - 1 /\ l \in Nat
      /\ \A i \in 1 .. l - 1 : path'[i] = path[i + 1]
  BY TailFacts DEF TypeOK
<1> HIDE DEF l
<1>2. ASSUME NEW i \in 1 .. Len(path')
      PROVE  i + 1 \in 1 .. l /\ path'[i] = path[i + 1] /\ 1 < i + 1 /\ i \in Nat /\ ~ (i + 1 < 1)
  <2>1. i \in 1 .. l - 1
    BY <1>1
  <2> QED BY <1>1, <2>1
<1>3. ASSUME NEW k \in 1 .. l, k # 1
      PROVE  k - 1 \in 1 .. Len(path') /\ path'[k - 1] = path[k] /\ k \in Nat
  <2>1. k - 1 \in 1 .. l - 1 /\ (k - 1) + 1 = k
    BY <1>1, <1>3
  <2> QED BY <1>1, <2>1
<1>4. \A m \in Nodes : (Numbers(m, p)' <=> Numbers(m, p)) /\ CounterOf(m, p)' = CounterOf(m, p)
  BY DEF Numbers, CounterOf
<1>5. ASSUME NEW i \in 1 .. Len(path'), NEW j \in 1 .. Len(path'), j < i,
             Pair(path'[i]) = p, ~path'[i].first, Pair(path'[j]) = p,
             \A k \in 1 .. Len(path') : j < k /\ k < i => Pair(path'[k]) # p
      PROVE  path'[i].counter = (path'[j].counter + 1) % CounterRange
  <2>1. ASSUME NEW k \in 1 .. l, j + 1 < k, k < i + 1 PROVE Pair(path[k]) # p
    <3>1. k # 1
      BY <1>2, <2>1
    <3>2. j < k - 1 /\ k - 1 < i
      BY <1>2, <1>3, <2>1, <3>1
    <3> QED BY <1>3, <1>5, <3>1, <3>2
  <2>2. j + 1 < i + 1
    BY <1>2, <1>5
  <2> QED BY <1>2, <1>5, <2>1, <2>2 DEF Consecutive, l
<1>6. ASSUME NEW m \in Nodes, NEW j \in 1 .. Len(path'), Numbers(m, p)', Pair(path'[j]) = p,
             \A k \in 1 .. Len(path') : j < k => Pair(path'[k]) # p
      PROVE  CounterOf(m, p)' = (path'[j].counter + 1) % CounterRange
  <2>1. ASSUME NEW k \in 1 .. l, j + 1 < k PROVE Pair(path[k]) # p
    <3>1. k # 1
      BY <1>2, <2>1
    <3>2. j < k - 1
      BY <1>2, <1>3, <2>1, <3>1
    <3> QED BY <1>3, <1>6, <3>1, <3>2
  <2> QED BY <1>2, <1>4, <1>6, <2>1 DEF Consecutive, l
<1>7. ASSUME Right, NEW i \in 1 .. Len(path'), Pair(path'[i]) = p, ~path'[i].first,
             \A k \in 1 .. Len(path') : k < i => Pair(path'[k]) # p
      PROVE  path'[i].counter = c
  <2>1. ASSUME NEW k \in 1 .. l, k # 1, k < i + 1 PROVE Pair(path[k]) # p
    <3>1. k - 1 < i
      BY <1>2, <1>3, <2>1
    <3> QED BY <1>3, <1>7, <2>1, <3>1
  <2>2. CASE Pair(Head(path)) = p
    <3>1. \A k \in 1 .. l : 1 < k /\ k < i + 1 => Pair(path[k]) # p
      BY <2>1
    <3> QED BY <1>1, <1>2, <1>7, <2>2, <3>1 DEF Consecutive, l
  <2>3. CASE Pair(Head(path)) # p
    <3>1. \A k \in 1 .. l : k < i + 1 => Pair(path[k]) # p
      BY <1>1, <2>1, <2>3
    <3> QED BY <1>2, <1>7, <2>3, <3>1 DEF Follows, l
  <2> QED BY <2>2, <2>3
<1>8. ASSUME Right, NEW m \in Nodes, Numbers(m, p)', \A k \in 1 .. Len(path') : Pair(path'[k]) # p
      PROVE  CounterOf(m, p)' = c
  <2>1. ASSUME NEW k \in 1 .. l, k # 1 PROVE Pair(path[k]) # p
    BY <1>3, <1>8, <2>1
  <2>2. CASE Pair(Head(path)) = p
    <3>1. \A k \in 1 .. l : 1 < k => Pair(path[k]) # p
      BY <2>1
    <3> QED BY <1>1, <1>4, <1>8, <2>2, <3>1 DEF Consecutive, l
  <2>3. CASE Pair(Head(path)) # p
    <3>1. \A k \in 1 .. l : Pair(path[k]) # p
      BY <1>1, <2>1, <2>3
    <3> QED BY <1>4, <1>8, <2>3, <3>1 DEF Follows, l
  <2> QED BY <2>2, <2>3
<1> QED BY <1>5, <1>6, <1>7, <1>8 DEF Consecutive, Follows

LEMMA InitRemote == Init => RemoteInv
<1> SUFFICES ASSUME Init, NEW p \in Pairs PROVE RemoteInvOf(p)
  BY DEF RemoteInv
<1>1. path = <<>> /\ p \notin remote.alreadySeen
  BY DEF Init, BridgeMissEvents
<1>2. 1 .. Len(path) = {}
  BY <1>1
<1> QED BY <1>1, <1>2 DEF RemoteInvOf, Consecutive

(***************************************************************************)
(* A message that arrives or is lost.                                      *)
(***************************************************************************)
LEMMA HandleRemote ==
  ASSUME TypeOK, SeenInv(remote), RemoteHandle, NEW p \in Pairs, RemoteInvOf(p)
  PROVE  RemoteInvOf(p)'
<1> DEFINE h == Head(path)
<1>1. h \in Headers /\ path # <<>> /\ path' = Tail(path) /\ UNCHANGED <<headerConfig, fresh>>
  BY TailFacts DEF TypeOK, RemoteHandle
<1>2. failed' = Throws(h) /\ remote' = IF failed' THEN remote ELSE Observed(remote, h)
  BY DEF RemoteHandle
<1>3. lost' = [lost EXCEPT ![Pair(h)] = 0] /\ restarted' = [restarted EXCEPT ![Pair(h)] = FALSE]
  BY DEF RemoteHandle
<1>4. Consecutive(p)'
  BY <1>1, TailRemote DEF RemoteInvOf
<1>5. remote \in Observers /\ p \in DeviceIds \X DeviceIds /\ h.counter \in Counter
  BY <1>1, ObservedPairs, PairFacts DEF TypeOK
<1> HIDE DEF h
<1>6. ASSUME p \in remote'.alreadySeen, ~restarted'[p]
      PROVE  Follows(p, (remote.expectedNextPacketCounter[p] + lost[p]) % CounterRange)'
  <2>1. CASE p # Pair(h)
    <3> DEFINE c == (remote.expectedNextPacketCounter[p] + lost[p]) % CounterRange
    <3>1. /\ p \in remote'.alreadySeen <=> p \in remote.alreadySeen
          /\ remote'.expectedNextPacketCounter[p] = remote.expectedNextPacketCounter[p]
      BY <1>1, <1>2, <1>5, <2>1, ObservedType
    <3>2. lost'[p] = lost[p] /\ restarted'[p] = restarted[p]
      BY <1>3, <1>5, <2>1 DEF TypeOK
    <3>3. Follows(p, c)
      BY <1>6, <3>1, <3>2 DEF RemoteInvOf
    <3>4. PICK d : d = c
      OBVIOUS
    <3>5. Follows(p, d)
      BY <3>3, <3>4
    <3>6. Follows(p, d)'
      BY <1>1, <2>1, <3>5, TailRemote DEF RemoteInvOf, h
    <3>7. (remote'.expectedNextPacketCounter[p] + lost'[p]) % CounterRange = d
      BY <3>1, <3>2, <3>4
    <3> QED BY <3>6, <3>7 DEF Follows
  <2>2. CASE p = Pair(h)
    <3>1. ~Throws(h) /\ ~Ignored(h)
      <4>1. ASSUME Throws(h) \/ Ignored(h) PROVE p \in remote.alreadySeen
        BY <1>2, <1>6, <4>1 DEF Observed
      <4> QED BY <1>1, <2>2, <4>1 DEF SeenInv
    <3>2. remote'.expectedNextPacketCounter[p] = (h.counter + 1) % CounterRange
      BY <1>1, <1>2, <1>5, <2>2, <3>1, ObservedType
    <3>3. lost'[p] = 0
      BY <1>3, <1>5, <2>2 DEF TypeOK
    <3>4. PICK d : d = (h.counter + 1) % CounterRange
      OBVIOUS
    <3>5. Follows(p, d)'
      BY <1>1, <2>2, <3>4, TailRemote DEF RemoteInvOf, h
    <3>6. (remote'.expectedNextPacketCounter[p] + lost'[p]) % CounterRange = d
      <4>1. (h.counter + 1) % CounterRange \in Counter
        BY <1>5, NextCounter
      <4>2. (d + 0) % CounterRange = d
        BY <3>4, <4>1, CountOn
      <4> QED BY <3>2, <3>3, <3>4, <4>2
    <3> QED BY <3>5, <3>6 DEF Follows
  <2> QED BY <2>1, <2>2
<1> QED BY <1>4, <1>6 DEF RemoteInvOf

LEMMA LoseRemote ==
  ASSUME TypeOK, Lose, NEW p \in Pairs, RemoteInvOf(p)
  PROVE  RemoteInvOf(p)'
<1> DEFINE h == Head(path)
           c == (remote.expectedNextPacketCounter[p] + lost[p]) % CounterRange
<1>1. h \in Headers /\ path # <<>> /\ path' = Tail(path) /\ UNCHANGED <<headerConfig, fresh, remote>>
      /\ h = path[1] /\ 1 \in 1 .. Len(path)
  BY TailFacts DEF TypeOK, Lose
<1>2. lost' = [lost EXCEPT ![Pair(h)] = lost[Pair(h)] + 1]
      /\ restarted' = [restarted EXCEPT ![Pair(h)] = restarted[Pair(h)] \/ h.first]
  BY DEF Lose
<1>3. Consecutive(p)'
  BY <1>1, TailRemote DEF RemoteInvOf
<1>4. p \in DeviceIds \X DeviceIds /\ remote.expectedNextPacketCounter[p] \in Counter /\ lost[p] \in Nat
  BY PairFacts DEF TypeOK, Observers
<1> HIDE DEF h
<1>5. ASSUME p \in remote.alreadySeen, ~restarted'[p]
      PROVE  Follows(p, (remote.expectedNextPacketCounter[p] + lost[p]) % CounterRange)'
  <2>1. CASE p # Pair(h)
    <3>1. lost'[p] = lost[p] /\ restarted'[p] = restarted[p]
      BY <1>2, <1>4, <2>1 DEF TypeOK
    <3>2. Follows(p, c)
      BY <1>5, <3>1 DEF RemoteInvOf
    <3>3. PICK d : d = c
      OBVIOUS
    <3>4. Follows(p, d)'
      BY <1>1, <2>1, <3>2, <3>3, TailRemote DEF RemoteInvOf, h
    <3>5. (remote'.expectedNextPacketCounter[p] + lost'[p]) % CounterRange = d
      BY <1>1, <3>1, <3>3
    <3> QED BY <3>4, <3>5 DEF Follows
  <2>2. CASE p = Pair(h)
    <3>1. lost'[p] = lost[p] + 1
      BY <1>2, <1>4, <2>2 DEF TypeOK
    <3>2. ~restarted[p] /\ ~h.first
      BY <1>2, <1>4, <1>5, <2>2 DEF TypeOK
    <3>3. h.counter = c
      <4>1. Follows(p, c)
        BY <1>5, <3>2 DEF RemoteInvOf
      <4>2. \A k \in 1 .. Len(path) : ~ (k < 1)
        OBVIOUS
      <4> QED BY <1>1, <2>2, <3>2, <4>1, <4>2 DEF Follows
    <3>4. PICK d : d = (h.counter + 1) % CounterRange
      OBVIOUS
    <3>5. Follows(p, d)'
      BY <1>1, <2>2, <3>4, TailRemote DEF RemoteInvOf, h
    <3>6. d = (remote.expectedNextPacketCounter[p] + (lost[p] + 1)) % CounterRange
      BY <1>4, <3>3, <3>4, CountOn
    <3>7. (remote'.expectedNextPacketCounter[p] + lost'[p]) % CounterRange = d
      BY <1>1, <3>1, <3>6
    <3> QED BY <3>5, <3>7 DEF Follows
  <2> QED BY <2>1, <2>2
<1> QED BY <1>1, <1>3, <1>5 DEF RemoteInvOf

LEMMA NextRemote ==
  TypeOK /\ NamesInv /\ SeenInv(remote) /\ RemoteInv /\ [Next]_vars => RemoteInv'
<1> SUFFICES ASSUME TypeOK, NamesInv, SeenInv(remote), RemoteInv, [Next]_vars, NEW p \in Pairs
             PROVE  RemoteInvOf(p)'
  BY DEF RemoteInv
<1>1. RemoteInvOf(p)
  BY DEF RemoteInv
<1>2. ASSUME UNCHANGED <<path, lost, restarted, headerConfig, fresh>>,
             remote'.alreadySeen = remote.alreadySeen,
             remote'.expectedNextPacketCounter = remote.expectedNextPacketCounter
      PROVE  RemoteInvOf(p)'
  BY <1>1, <1>2 DEF RemoteInvOf, Consecutive, Follows, Numbers, CounterOf
<1>3. ASSUME NEW n \in Nodes, NEW receiver \in Receivers, NodeSend(n, receiver) PROVE RemoteInvOf(p)'
  <2>1. PICK header \in Headers : Sends(n, header)
    BY <1>3, SendIsThat
  <2>2. PICK d : d = (remote.expectedNextPacketCounter[p] + lost[p]) % CounterRange
    OBVIOUS
  <2>3. Consecutive(p)' /\ (Follows(p, d) => Follows(p, d)')
    BY <1>1, <2>1, SendRemote DEF RemoteInvOf
  <2>4. UNCHANGED <<remote, lost, restarted>>
    BY <2>1 DEF Sends
  <2> QED BY <1>1, <2>2, <2>3, <2>4 DEF RemoteInvOf, Follows
<1>4. ASSUME NEW n \in Nodes, NEW id \in NodeIds, NodeSetOwnSenderId(n, id) PROVE RemoteInvOf(p)'
  <2>1. \A m \in Nodes : Numbers(m, p)' => Numbers(m, p) /\ CounterOf(m, p)' = CounterOf(m, p)
    BY <1>4, RenameNames
  <2>2. UNCHANGED <<path, remote, lost, restarted>>
    BY <1>4 DEF NodeSetOwnSenderId
  <2> QED BY <1>1, <2>1, <2>2 DEF RemoteInvOf, Consecutive, Follows
<1>5. CASE ResetMissEvents
  <2>1. remote \in Observers
    BY DEF TypeOK
  <2>2. remote'.alreadySeen = remote.alreadySeen
        /\ remote'.expectedNextPacketCounter = remote.expectedNextPacketCounter
    BY <1>5, <2>1 DEF ResetMissEvents, Observers
  <2> QED BY <1>2, <1>5, <2>2 DEF ResetMissEvents, history
<1>6. CASE UNCHANGED vars \/ LocalHandle
  BY <1>2, <1>6 DEF vars, history, LocalHandle
<1> QED BY <1>1, <1>3, <1>4, <1>5, <1>6, HandleRemote, LoseRemote DEF Next

(***************************************************************************)
(* Only the remote observer takes a message off the path and forgets what  *)
(* was lost before it.                                                     *)
(***************************************************************************)
LEMMA OnlyHandled == TypeOK /\ [Next]_vars /\ Arrives => RemoteHandle
<1> SUFFICES ASSUME TypeOK, [Next]_vars, Arrives PROVE RemoteHandle
  OBVIOUS
<1>1. path # <<>> /\ path' = Tail(path) /\ lost'[Pair(Head(path))] = 0
  BY DEF Arrives
<1>2. Len(path') = Len(path) - 1 /\ Len(path) \in Nat /\ Head(path) \in Headers /\ path \in Seq(Headers)
  BY <1>1, TailFacts DEF TypeOK
<1>3. path' # path
  BY <1>2
<1>4. ASSUME NEW n \in Nodes, NEW receiver \in Receivers, NodeSend(n, receiver) PROVE FALSE
  <2>1. PICK header \in Headers : Sends(n, header)
    BY <1>4, SendIsThat
  <2>2. Len(path') = Len(path) + 1
    BY <1>2, <2>1, SequenceFacts DEF Sends
  <2> QED BY <1>2, <2>2
<1>5. CASE Lose
  <2>1. lost[Pair(Head(path))] \in Nat /\ lost'[Pair(Head(path))] = lost[Pair(Head(path))] + 1
    BY <1>2, <1>5, ObservedPairs DEF TypeOK, Lose
  <2> QED BY <1>1, <2>1
<1> QED BY <1>3, <1>4, <1>5 DEF Next, vars, history, NodeSetOwnSenderId, LocalHandle, ResetMissEvents

(***************************************************************************)
(* The remote observer counts a miss event for each gap and none without   *)
(* one, whatever is sent, lost or renamed: a gap goes unnoticed only if    *)
(* the sender began anew, or if its length is a multiple of the range.     *)
(***************************************************************************)
THEOREM GapsAreCounted == Spec => MissesAreGaps
<1> DEFINE Counts ==
      Arrives =>
       LET header == Head(path)
           p == Pair(header)
       IN  p \in remote.alreadySeen /\ ~restarted[p] /\ ~header.first =>
             remote'.numberOfPacketMissEvents[p] =
               remote.numberOfPacketMissEvents[p]
                 + (IF lost[p] % CounterRange = 0 THEN 0 ELSE 1)
<1>1. TypeOK /\ SeenInv(remote) /\ RemoteInv /\ [Next]_vars => Counts
  <2> DEFINE h == Head(path)
             p == Pair(h)
  <2> SUFFICES ASSUME TypeOK, SeenInv(remote), RemoteInv, [Next]_vars, Arrives,
                      p \in remote.alreadySeen, ~restarted[p], ~h.first
               PROVE  remote'.numberOfPacketMissEvents[p] =
                        remote.numberOfPacketMissEvents[p] + (IF lost[p] % CounterRange = 0 THEN 0 ELSE 1)
    OBVIOUS
  <2>1. RemoteHandle
    BY OnlyHandled
  <2>2. h \in Headers /\ h = path[1] /\ 1 \in 1 .. Len(path) /\ path # <<>> /\ remote \in Observers
    BY <2>1, TailFacts DEF TypeOK, RemoteHandle
  <2> HIDE DEF h
  <2>3. ~Ignored(h) /\ ~Throws(h) /\ p \in Pairs
    BY <2>2, ObservedPairs DEF SeenInv
  <2>4. remote' = Observed(remote, h)
    BY <2>1, <2>3 DEF RemoteHandle, h
  <2>5. Follows(p, (remote.expectedNextPacketCounter[p] + lost[p]) % CounterRange)
    BY <2>3 DEF RemoteInv, RemoteInvOf
  <2>6. \A k \in 1 .. Len(path) : ~ (k < 1)
    OBVIOUS
  <2>7. h.counter = (remote.expectedNextPacketCounter[p] + lost[p]) % CounterRange
    BY <2>2, <2>5, <2>6 DEF Follows
  <2>8. remote.expectedNextPacketCounter[p] \in Counter /\ lost[p] \in Nat
        /\ remote.numberOfPacketMissEvents[p] \in Nat
    BY <2>2, <2>3, PairFacts DEF TypeOK, Observers
  <2>9. IsMiss(remote, h) <=> lost[p] % CounterRange # 0
    BY <2>3, <2>7, <2>8, CountOn DEF IsMiss
  <2>10. remote'.numberOfPacketMissEvents[p] =
           IF IsMiss(remote, h) THEN remote.numberOfPacketMissEvents[p] + 1
           ELSE remote.numberOfPacketMissEvents[p]
    BY <2>2, <2>3, <2>4, ObservedType
  <2> QED BY <2>8, <2>9, <2>10
<1>2. TypeOK /\ SeenInv(remote) /\ RemoteInv /\ [Next]_vars => [Counts]_vars
  BY <1>1
<1>3. [][Counts]_vars => MissesAreGaps
  BY PTL DEF MissesAreGaps
<1> QED BY <1>2, <1>3, InitTypes, NextTypes, InitNames, NextNames, InitRemote, NextRemote, PTL
        DEF Spec
=============================================================================
