---------------------------- MODULE TransferProofs ----------------------------
(***************************************************************************)
(* What holds for every length of frames, every size of the buffer and of  *)
(* the can frames, every pair of kinds, and however many calls are short,  *)
(* fail or are paused.                                                     *)
(***************************************************************************)
EXTENDS Transfer, Induction, SequenceTheorems, FiniteSetTheorems

LEMMA ConcatFacts ==
  ASSUME NEW S, NEW s \in Seq(S), NEW t \in Seq(S)
  PROVE  /\ s \o t \in Seq(S) /\ Len(s \o t) = Len(s) + Len(t) /\ Len(s) \in Nat /\ Len(t) \in Nat
         /\ \A j \in 1 .. Len(s) : (s \o t)[j] = s[j]
         /\ \A j \in 1 .. Len(t) : (s \o t)[Len(s) + j] = t[j]
OBVIOUS

LEMMA TailFacts ==
  ASSUME NEW S, NEW s \in Seq(S), s # <<>>
  PROVE  /\ Head(s) = s[1] /\ s[1] \in S /\ Len(s) \in Nat /\ Len(s) >= 1
         /\ Tail(s) \in Seq(S) /\ Len(Tail(s)) = Len(s) - 1
         /\ \A k \in 1 .. Len(s) - 1 : Tail(s)[k] = s[k + 1]
OBVIOUS

(***************************************************************************)
(* The unsigned difference in the read loop of can does not wrap.          *)
(***************************************************************************)
LEMMA RoomIsExact == (RxBufferSize - CanRoom) % SizeRange = RxBufferSize - CanRoom
<1>1. ASSUME NEW x \in Nat, NEW m \in Nat, x < m PROVE x % m = x
  BY <1>1
<1>2. RxBufferSize - CanRoom \in Nat /\ RxBufferSize - CanRoom < SizeRange /\ SizeRange \in Nat
  BY TransferAssumption
<1> QED BY <1>1, <1>2

(***************************************************************************)
(* What a frame is cut into: no can frame is longer than the room for it,  *)
(* a datagram is a frame, and elsewhere bytes come one by one.             *)
(***************************************************************************)
UnitFits(unit) ==
  /\ rxKind = "can" => Len(unit) <= CanRoom
  /\ rxKind = "udp" => Len(unit) = FrameLength
  /\ rxKind \notin {"can", "udp"} => Len(unit) = 1

LEMMA FirstBytes ==
  ASSUME NEW S, NEW s \in Seq(S), NEW k \in 1 .. Len(s)
  PROVE  SubSeq(s, 1, k) = [j \in 1 .. k |-> s[j]]
OBVIOUS

LEMMA FrameFacts ==
  ASSUME NEW f \in 1 .. Frames
  PROVE  FrameBytes(f) \in Seq(Byte) /\ Len(FrameBytes(f)) = FrameLength
<1>1. \A k \in 1 .. FrameLength : [frame |-> f, place |-> k] \in Byte
  BY DEF Byte
<1>2. FrameLength \in Nat
  BY TransferAssumption
<1> QED BY <1>1, <1>2 DEF FrameBytes

LEMMA ChunkFacts ==
  ASSUME NEW bytes \in Seq(Byte)
  PROVE  /\ Chunks(bytes) \in Seq(Seq(Byte))
         /\ \A k \in 1 .. Len(Chunks(bytes)) : Len(Chunks(bytes)[k]) <= CanData
<1> DEFINE q == (Len(bytes) + CanData - 1) \div CanData
           end(k) == IF k * CanData < Len(bytes) THEN k * CanData ELSE Len(bytes)
           chunk(k) == SubSeq(bytes, (k - 1) * CanData + 1, end(k))
<1>1. CanData \in Nat \ {0} /\ Len(bytes) \in Nat
  BY TransferAssumption
<1>2. ASSUME NEW a \in Nat, NEW c \in Nat \ {0} PROVE a \div c \in Nat /\ c * (a \div c) <= a
  BY <1>2
<1>3. Len(bytes) + CanData - 1 \in Nat
  BY <1>1
<1>4. q \in Nat /\ CanData * q <= Len(bytes) + CanData - 1
  BY <1>1, <1>2, <1>3
<1> HIDE DEF q
<1>5. ASSUME NEW k \in 1 .. q
      PROVE  chunk(k) \in Seq(Byte) /\ Len(chunk(k)) <= CanData
  <2>1. k * CanData <= q * CanData
    BY <1>1, <1>4
  <2>2. (k - 1) * CanData + 1 \in 1 .. Len(bytes) /\ k * CanData - (k - 1) * CanData = CanData
        /\ k * CanData \in Nat
    BY <1>1, <1>4, <2>1
  <2> DEFINE m == (k - 1) * CanData + 1
             n == end(k)
  <2>3. m \in 1 .. Len(bytes) /\ n \in m .. Len(bytes) /\ n - m + 1 <= CanData
    BY <1>1, <2>2
  <2> HIDE DEF m, n
  <2>4. SubSeq(bytes, m, n) \in Seq(Byte) /\ Len(SubSeq(bytes, m, n)) = n - m + 1
    BY <2>3
  <2> QED BY <2>3, <2>4 DEF m, n
<1> HIDE DEF chunk
<1>6. [k \in 1 .. q |-> chunk(k)] \in Seq(Seq(Byte)) /\ Len([k \in 1 .. q |-> chunk(k)]) = q
  BY <1>4, <1>5
<1>7. Chunks(bytes) = [k \in 1 .. q |-> chunk(k)]
  BY DEF Chunks, q, chunk
<1> QED BY <1>4, <1>5, <1>6, <1>7

LEMMA UnitFacts ==
  ASSUME rxKind \in AllKinds, NEW f \in 1 .. Frames
  PROVE  /\ Units(FrameBytes(f)) \in Seq(Seq(Byte))
         /\ \A k \in 1 .. Len(Units(FrameBytes(f))) : UnitFits(Units(FrameBytes(f))[k])
<1> DEFINE bytes == FrameBytes(f)
<1>1. bytes \in Seq(Byte) /\ Len(bytes) = FrameLength /\ FrameLength \in Nat
  BY FrameFacts, TransferAssumption
<1> HIDE DEF bytes
<1>2. CASE rxKind = "udp"
  BY <1>1, <1>2 DEF Units, UnitFits, bytes
<1>3. CASE rxKind = "can"
  <2>1. Units(bytes) = Chunks(bytes)
    BY <1>3 DEF Units
  <2>2. CanData <= CanRoom /\ CanData \in Nat /\ CanRoom \in Nat
    BY TransferAssumption
  <2>3. \A k \in 1 .. Len(Chunks(bytes)) : UnitFits(Chunks(bytes)[k])
    <3> SUFFICES ASSUME NEW k \in 1 .. Len(Chunks(bytes)) PROVE Len(Chunks(bytes)[k]) <= CanRoom
      BY <1>3 DEF UnitFits
    <3>1. Chunks(bytes) \in Seq(Seq(Byte)) /\ Len(Chunks(bytes)[k]) <= CanData
      BY <1>1, ChunkFacts
    <3>2. Len(Chunks(bytes)[k]) \in Nat
      BY <3>1
    <3> QED BY <2>2, <3>1, <3>2
  <2> QED BY <1>1, <2>1, <2>3, ChunkFacts DEF bytes
<1>4. CASE rxKind \notin {"udp", "can"}
  <2>1. Units(bytes) = [k \in 1 .. FrameLength |-> <<bytes[k]>>]
    BY <1>1, <1>4 DEF Units
  <2>2. \A k \in 1 .. FrameLength : <<bytes[k]>> \in Seq(Byte) /\ Len(<<bytes[k]>>) = 1
    BY <1>1
  <2>3. Units(bytes) \in Seq(Seq(Byte)) /\ Len(Units(bytes)) = FrameLength
    BY <1>1, <2>1, <2>2
  <2> QED BY <1>1, <1>4, <2>1, <2>2, <2>3 DEF UnitFits, bytes
<1> QED BY <1>2, <1>3, <1>4
-----------------------------------------------------------------------------
(***************************************************************************)
(* The inductive invariant: what waits to be read fits into the room it is *)
(* read into; while a message is written it is the one in the parser; and  *)
(* nothing is left over from the call before.                              *)
(***************************************************************************)
UnitsFit == \A k \in 1 .. Len(inbox) : UnitFits(inbox[k])

CallsInv ==
  /\ at = "write" => HasPacket /\ alreadyWritten < FrameLength
  /\ at # "write" => alreadyWritten = 0
  /\ at # "read" => got = <<>>
  /\ at \notin {"parse", "write"} => block = <<>>
  /\ txPaused => alreadyWritten = 0

TransferInv == TransferTypeOK /\ UnitsFit /\ CallsInv /\ ReadFits

LEMMA InitInv == Init => TransferInv
<1> SUFFICES ASSUME Init PROVE TransferInv
  OBVIOUS
<1>1. TransferTypeOK
  <2>1. FrameLength \in Nat /\ MaxThrows \in Nat /\ MaxLosses \in Nat /\ Frames \in Nat
    BY TransferAssumption
  <2>2. rxPaused \in BOOLEAN /\ txPaused \in BOOLEAN
    BY DEF Init
  <2>3. /\ rxKind \in Kinds /\ txKind \in Kinds
        /\ at \in {"idle", "read", "parse", "write"}
        /\ inbox \in Seq(Seq(Byte))
        /\ got \in Seq(Byte) /\ block \in Seq(Byte) /\ parser \in Seq(Byte) /\ line \in Seq(Byte)
        /\ delivered \in Seq(Byte) /\ torn \subseteq 1 .. Frames /\ cut \subseteq 1 .. Frames
    BY DEF Init
  <2>4. /\ alreadyWritten \in 0 .. FrameLength /\ bytesReceived \in Nat /\ bytesTransmitted \in Nat
        /\ arrived \in 0 .. Frames /\ throws \in 0 .. MaxThrows /\ losses \in 0 .. MaxLosses
    BY <2>1 DEF Init
  <2> QED BY <2>2, <2>3, <2>4 DEF TransferTypeOK
<1>2. UnitsFit /\ CallsInv /\ ReadFits
  BY TransferAssumption DEF Init, UnitsFit, CallsInv, ReadFits
<1> QED BY <1>1, <1>2 DEF TransferInv

(***************************************************************************)
(* The end of a read, with bytes that fit into the buffer.                 *)
(***************************************************************************)
LEMMA ReadWrapperKeeps ==
  ASSUME TransferInv, at = "read", NEW bytes \in Seq(Byte), Len(bytes) <= RxBufferSize,
         ReadWrapper(bytes), inbox' \in Seq(Seq(Byte)), UnitsFit', losses' \in 0 .. MaxLosses
  PROVE  TransferInv'
<1> DEFINE read == IF rxPaused THEN <<>> ELSE bytes
<1>1. read \in Seq(Byte) /\ Len(read) \in Nat /\ Len(read) <= RxBufferSize
  BY TransferAssumption
<1>2. /\ bytesReceived' = bytesReceived + Len(read)
      /\ block' = read /\ delivered' = delivered \o read
      /\ at' = IF read = <<>> THEN "idle" ELSE "parse"
      /\ got' = <<>>
      /\ UNCHANGED <<kinds, parser, writing, pauses, bytesTransmitted, arrived, torn, cut, throws>>
  BY DEF ReadWrapper
<1> HIDE DEF read
<1>3. delivered' \in Seq(Byte)
  BY <1>1, <1>2, ConcatFacts DEF TransferInv, TransferTypeOK
<1>4. TransferTypeOK'
  BY <1>1, <1>2, <1>3 DEF TransferInv, TransferTypeOK, kinds, writing, pauses
<1>5. CallsInv'
  BY <1>1, <1>2 DEF TransferInv, CallsInv, writing, pauses
<1>6. ReadFits'
  BY <1>1, <1>2, TransferAssumption DEF ReadFits
<1> QED BY <1>4, <1>5, <1>6 DEF TransferInv

(***************************************************************************)
(* An exception forgets the block and the write it came from.              *)
(***************************************************************************)
LEMMA ThrowKeeps ==
  ASSUME TransferInv, Throw, torn' \subseteq 1 .. Frames,
         UNCHANGED <<kinds, inbox, parser, line, pauses, bytesReceived, bytesTransmitted, arrived,
                     delivered, cut, losses>>
  PROVE  TransferInv'
<1>1. TransferTypeOK'
  BY TransferAssumption DEF TransferInv, TransferTypeOK, Throw, kinds, pauses
<1>2. UnitsFit'
  BY DEF TransferInv, UnitsFit, UnitFits, kinds
<1>3. CallsInv' /\ ReadFits'
  BY TransferAssumption DEF TransferInv, CallsInv, ReadFits, Throw, pauses
<1> QED BY <1>1, <1>2, <1>3 DEF TransferInv

(***************************************************************************)
(* A write goes on, or returns.                                            *)
(***************************************************************************)
LEMMA WriteKeeps ==
  ASSUME TransferInv, at = "write", line' \in Seq(Byte), torn' \subseteq 1 .. Frames,
         cut' \subseteq 1 .. Frames, losses' \in 0 .. MaxLosses,
         UNCHANGED <<kinds, reading, block, pauses, bytesReceived, arrived, delivered, throws>>,
         \/ WriteReturns(0) \/ WriteReturns(FrameLength)
         \/ /\ ~txPaused
            /\ alreadyWritten' \in 0 .. FrameLength - 1
            /\ UNCHANGED <<at, parser, bytesTransmitted>>
  PROVE  TransferInv'
<1>1. FrameLength \in Nat
  BY TransferAssumption
<1>2. TransferTypeOK'
  <2>1. /\ alreadyWritten' \in 0 .. FrameLength /\ bytesTransmitted' \in Nat
        /\ at' \in {"idle", "read", "parse", "write"} /\ parser' \in Seq(Byte)
    <3>1. bytesTransmitted \in Nat /\ parser \in Seq(Byte)
      BY DEF TransferInv, TransferTypeOK
    <3>2. ASSUME NEW counted \in {0, FrameLength}, WriteReturns(counted)
          PROVE  /\ alreadyWritten' = 0 /\ bytesTransmitted' \in Nat /\ parser' = <<>>
                 /\ at' \in {"idle", "parse"}
      BY <1>1, <3>1, <3>2 DEF WriteReturns
    <3>3. CASE WriteReturns(0) \/ WriteReturns(FrameLength)
      <4>1. /\ alreadyWritten' = 0 /\ bytesTransmitted' \in Nat /\ parser' = <<>>
            /\ at' \in {"idle", "parse"}
        BY <3>2, <3>3
      <4> QED BY <1>1, <4>1
    <3>4. CASE alreadyWritten' \in 0 .. FrameLength - 1 /\ UNCHANGED <<at, parser, bytesTransmitted>>
      <4>1. at' = "write"
        BY <3>4
      <4> QED BY <1>1, <3>1, <3>4, <4>1
    <3> QED BY <3>3, <3>4
  <2>2. rxPaused' \in BOOLEAN /\ txPaused' \in BOOLEAN
    BY DEF TransferInv, TransferTypeOK, pauses
  <2> QED BY <2>1, <2>2 DEF TransferInv, TransferTypeOK, kinds, reading
<1>3. UnitsFit'
  BY DEF TransferInv, UnitsFit, UnitFits, kinds, reading
<1>4. CallsInv'
  <2>1. CASE WriteReturns(0) \/ WriteReturns(FrameLength)
    <3>1. at' = (IF block' = <<>> THEN "idle" ELSE "parse") /\ alreadyWritten' = 0
      BY <2>1 DEF WriteReturns
    <3>2. got' = <<>>
      BY DEF TransferInv, CallsInv, reading
    <3> QED BY <3>1, <3>2 DEF CallsInv
  <2>2. CASE alreadyWritten' \in 0 .. FrameLength - 1 /\ ~txPaused /\ UNCHANGED <<at, parser, bytesTransmitted>>
    <3>1. HasPacket' <=> HasPacket
      BY <2>2 DEF HasPacket
    <3> QED BY <1>1, <2>2, <3>1 DEF TransferInv, CallsInv, reading, pauses
  <2> QED BY <2>1, <2>2
<1>5. ReadFits'
  BY DEF TransferInv, ReadFits, reading
<1> QED BY <1>2, <1>3, <1>4, <1>5 DEF TransferInv

(***************************************************************************)
(* The other end, and the application.                                     *)
(***************************************************************************)
LEMMA EnvironmentKeeps ==
  ASSUME TransferInv, Arrive \/ Process \/ Pause \/ Resume
  PROVE  TransferInv'
<1>1. CASE Arrive
  <2> DEFINE units == Units(FrameBytes(arrived + 1))
  <2>1. arrived + 1 \in 1 .. Frames /\ rxKind \in AllKinds /\ inbox \in Seq(Seq(Byte))
    BY <1>1, TransferAssumption DEF Arrive, TransferInv, TransferTypeOK
  <2>2. units \in Seq(Seq(Byte)) /\ \A k \in 1 .. Len(units) : UnitFits(units[k])
    BY <2>1, UnitFacts
  <2>3. inbox' = inbox \o units /\ rxKind' = rxKind
    BY <1>1 DEF Arrive, kinds
  <2> HIDE DEF units
  <2>4. inbox' \in Seq(Seq(Byte)) /\ \A k \in 1 .. Len(inbox') : UnitFits(inbox'[k])
    <3>1. /\ inbox' \in Seq(Seq(Byte)) /\ Len(inbox') = Len(inbox) + Len(units)
          /\ Len(inbox) \in Nat /\ Len(units) \in Nat
          /\ \A j \in 1 .. Len(inbox) : inbox'[j] = inbox[j]
          /\ \A j \in 1 .. Len(units) : inbox'[Len(inbox) + j] = units[j]
      BY <2>1, <2>2, <2>3, ConcatFacts
    <3>2. ASSUME NEW k \in 1 .. Len(inbox'), k > Len(inbox) PROVE UnitFits(inbox'[k])
      <4>1. k - Len(inbox) \in 1 .. Len(units) /\ Len(inbox) + (k - Len(inbox)) = k
        BY <3>1, <3>2
      <4> QED BY <2>2, <3>1, <4>1
    <3>3. ASSUME NEW k \in 1 .. Len(inbox'), k <= Len(inbox) PROVE UnitFits(inbox'[k])
      <4>1. k \in 1 .. Len(inbox) /\ inbox'[k] = inbox[k]
        BY <3>1, <3>3
      <4> QED BY <4>1 DEF TransferInv, UnitsFit
    <3>4. ASSUME NEW k \in 1 .. Len(inbox') PROVE k <= Len(inbox) \/ k > Len(inbox)
      BY <3>1
    <3> QED BY <3>1, <3>2, <3>3, <3>4
  <2>5. UnitsFit'
    BY <2>3, <2>4 DEF UnitsFit, UnitFits
  <2>6. TransferTypeOK'
    BY <1>1, <2>1, <2>4 DEF Arrive, TransferInv, TransferTypeOK, kinds, writing, pauses, history
  <2>7. CallsInv'
    BY <1>1 DEF Arrive, TransferInv, CallsInv, HasPacket, writing, pauses
  <2>8. ReadFits'
    BY <1>1 DEF Arrive, TransferInv, ReadFits
  <2> QED BY <2>5, <2>6, <2>7, <2>8 DEF TransferInv
<1>2. CASE Process
  <2>1. TransferTypeOK'
    BY <1>2 DEF Process, TransferInv, TransferTypeOK, kinds, reading, writing, pauses, history
  <2>2. UnitsFit' /\ ReadFits'
    BY <1>2 DEF Process, TransferInv, UnitsFit, UnitFits, ReadFits, kinds, reading
  <2>3. CallsInv'
    BY <1>2 DEF Process, TransferInv, CallsInv, reading, writing, pauses
  <2> QED BY <2>1, <2>2, <2>3 DEF TransferInv
<1>3. CASE Pause \/ Resume
  <2>1. /\ at = "idle"
        /\ UNCHANGED <<kinds, reading, at, block, parser, writing, bytesReceived, bytesTransmitted, arrived,
                       history, throws>>
        /\ rxPaused' \in BOOLEAN /\ txPaused' \in BOOLEAN
    BY <1>3 DEF Pause, Resume, TransferInv, TransferTypeOK
  <2>2. losses' \in 0 .. MaxLosses
    BY <1>3, TransferAssumption DEF Pause, Resume, TransferInv, TransferTypeOK
  <2>3. TransferTypeOK'
    BY <2>1, <2>2 DEF TransferInv, TransferTypeOK, kinds, reading, writing, history
  <2>4. UnitsFit' /\ ReadFits'
    BY <2>1 DEF TransferInv, UnitsFit, UnitFits, ReadFits, kinds, reading
  <2>5. CallsInv'
    BY <2>1 DEF TransferInv, CallsInv, reading, writing
  <2> QED BY <2>3, <2>4, <2>5 DEF TransferInv
<1> QED BY <1>1, <1>2, <1>3

(***************************************************************************)
(* Reads: what is taken from the front of the inbox, and what is left.     *)
(***************************************************************************)
LEMMA TakenFacts ==
  ASSUME TransferInv, rxKind' = rxKind, inbox # <<>>, inbox' = Tail(inbox)
  PROVE  /\ inbox' \in Seq(Seq(Byte)) /\ UnitsFit'
         /\ Head(inbox) \in Seq(Byte) /\ UnitFits(Head(inbox)) /\ Len(Head(inbox)) \in Nat
<1>1. inbox \in Seq(Seq(Byte))
  BY DEF TransferInv, TransferTypeOK
<1>2. /\ Head(inbox) = inbox[1] /\ inbox[1] \in Seq(Byte) /\ Len(inbox) \in Nat /\ Len(inbox) >= 1
      /\ inbox' \in Seq(Seq(Byte)) /\ Len(inbox') = Len(inbox) - 1
      /\ \A k \in 1 .. Len(inbox) - 1 : inbox'[k] = inbox[k + 1]
  BY <1>1, TailFacts
<1>3. ASSUME NEW k \in 1 .. Len(inbox') PROVE UnitFits(inbox'[k])
  <2>1. k + 1 \in 1 .. Len(inbox) /\ inbox'[k] = inbox[k + 1]
    BY <1>2
  <2> QED BY <2>1 DEF TransferInv, UnitsFit
<1>4. UnitsFit'
  BY <1>3 DEF UnitsFit, UnitFits
<1>5. 1 \in 1 .. Len(inbox)
  BY <1>2
<1>6. UnitFits(Head(inbox))
  BY <1>2, <1>5 DEF TransferInv, UnitsFit
<1> QED BY <1>2, <1>4, <1>6

LEMMA ReadStreamKeeps ==
  ASSUME TransferInv, NEW n \in 0 .. RxBufferSize, ReadStream(n)
  PROVE  TransferInv'
<1>1. /\ at = "read" /\ rxKind \in {"stream", "pty", "tcp"} /\ n <= Len(inbox) /\ n <= RxBufferSize
      /\ inbox' = SubSeq(inbox, n + 1, Len(inbox)) /\ ReadWrapper([k \in 1 .. n |-> inbox[k][1]])
      /\ losses' = losses
  BY DEF ReadStream
<1>2. inbox \in Seq(Seq(Byte)) /\ Len(inbox) \in Nat /\ n \in Nat /\ RxBufferSize \in Nat
  BY TransferAssumption DEF TransferInv, TransferTypeOK
<1>3. \A k \in 1 .. Len(inbox) : inbox[k] \in Seq(Byte) /\ Len(inbox[k]) = 1
  BY <1>1, <1>2 DEF TransferInv, UnitsFit, UnitFits
<1>4. ASSUME NEW k \in 1 .. n PROVE inbox[k][1] \in Byte
  <2>1. inbox[k] \in Seq(Byte) /\ Len(inbox[k]) = 1
    BY <1>1, <1>2, <1>3
  <2> QED BY <2>1
<1>5. [k \in 1 .. n |-> inbox[k][1]] \in Seq(Byte) /\ Len([k \in 1 .. n |-> inbox[k][1]]) = n
  <2> DEFINE first(k) == inbox[k][1]
  <2>1. \A k \in 1 .. n : first(k) \in Byte
    BY <1>4
  <2> HIDE DEF first
  <2>2. [k \in 1 .. n |-> first(k)] \in Seq(Byte) /\ Len([k \in 1 .. n |-> first(k)]) = n
    BY <1>2, <2>1
  <2> QED BY <2>2 DEF first
<1>6. /\ inbox' \in Seq(Seq(Byte))
      /\ Len(inbox') = IF n + 1 <= Len(inbox) THEN Len(inbox) - (n + 1) + 1 ELSE 0
      /\ \A k \in 1 .. Len(inbox) - (n + 1) + 1 : inbox'[k] = inbox[n + 1 + k - 1]
  <2>1. n + 1 \in Int /\ Len(inbox) \in Int /\ \A i \in n + 1 .. Len(inbox) : inbox[i] \in Seq(Byte)
    BY <1>2
  <2> QED BY <1>1, <2>1, SubSeqProperties
<1>7. rxKind' = rxKind
  BY <1>1 DEF ReadWrapper, kinds
<1>8. UnitsFit'
  <2> SUFFICES ASSUME NEW k \in 1 .. Len(inbox') PROVE UnitFits(inbox'[k])
    BY <1>7 DEF UnitsFit, UnitFits
  <2>1. k \in 1 .. Len(inbox) - (n + 1) + 1 /\ n + 1 + k - 1 \in 1 .. Len(inbox)
    BY <1>2, <1>6
  <2>2. inbox'[k] = inbox[n + 1 + k - 1]
    BY <1>6, <2>1
  <2> QED BY <2>1, <2>2 DEF TransferInv, UnitsFit
<1>9. losses' \in 0 .. MaxLosses
  BY <1>1 DEF TransferInv, TransferTypeOK
<1> QED BY <1>1, <1>5, <1>6, <1>8, <1>9, ReadWrapperKeeps

LEMMA ReadUdpKeeps ==
  ASSUME TransferInv, ReadUdp
  PROVE  TransferInv'
<1>1. at = "read" /\ losses' = losses /\ losses' \in 0 .. MaxLosses /\ RxBufferSize \in Nat
  BY TransferAssumption DEF ReadUdp, TransferInv, TransferTypeOK
<1>2. CASE inbox = <<>>
  <2>1. ReadWrapper(<<>>) /\ inbox' = inbox
    BY <1>2 DEF ReadUdp
  <2>2. <<>> \in Seq(Byte) /\ Len(<<>>) <= RxBufferSize
    BY <1>1
  <2>3. inbox' \in Seq(Seq(Byte)) /\ UnitsFit'
    BY <2>1 DEF ReadWrapper, kinds, TransferInv, TransferTypeOK, UnitsFit, UnitFits
  <2> QED BY <1>1, <2>1, <2>2, <2>3, ReadWrapperKeeps
<1>3. CASE inbox # <<>>
  <2> DEFINE n == IF Len(Head(inbox)) < RxBufferSize THEN Len(Head(inbox)) ELSE RxBufferSize
             taken == SubSeq(Head(inbox), 1, n)
  <2>1. ReadWrapper(taken) /\ inbox' = Tail(inbox)
    BY <1>3 DEF ReadUdp
  <2>2. /\ inbox' \in Seq(Seq(Byte)) /\ UnitsFit'
        /\ Head(inbox) \in Seq(Byte) /\ Len(Head(inbox)) \in Nat
    BY <1>3, <2>1, TakenFacts DEF ReadWrapper, kinds
  <2>3. n \in Nat /\ n <= Len(Head(inbox)) /\ n <= RxBufferSize
    BY <1>1, <2>2
  <2> HIDE DEF n
  <2>4. taken \in Seq(Byte) /\ Len(taken) = IF 1 <= n THEN n - 1 + 1 ELSE 0
    <3>1. \A i \in 1 .. n : Head(inbox)[i] \in Byte
      BY <2>2, <2>3
    <3> QED BY <2>3, <3>1, SubSeqProperties
  <2> HIDE DEF taken
  <2>5. Len(taken) <= RxBufferSize
    BY <1>1, <2>3, <2>4
  <2> QED BY <1>1, <2>1, <2>2, <2>4, <2>5, ReadWrapperKeeps
<1> QED BY <1>2, <1>3

(***************************************************************************)
(* The loops of can and pipe collect in got what still fits.               *)
(***************************************************************************)
LEMMA CollectKeeps ==
  ASSUME TransferInv, at = "read", inbox # <<>>, inbox' = Tail(inbox), got' = got \o Head(inbox),
         Len(got) + Len(Head(inbox)) <= RxBufferSize,
         UNCHANGED <<kinds, at, block, parser, writing, pauses, bytesReceived, bytesTransmitted,
                     arrived, history, throws, losses>>
  PROVE  TransferInv'
<1>1. /\ inbox' \in Seq(Seq(Byte)) /\ UnitsFit' /\ Head(inbox) \in Seq(Byte)
  BY TakenFacts DEF kinds
<1>2. got' \in Seq(Byte) /\ Len(got') = Len(got) + Len(Head(inbox))
  BY <1>1, ConcatFacts DEF TransferInv, TransferTypeOK
<1>3. TransferTypeOK'
  BY <1>1, <1>2 DEF TransferInv, TransferTypeOK, kinds, writing, pauses, history
<1>4. CallsInv' /\ ReadFits'
  BY <1>2 DEF TransferInv, CallsInv, ReadFits, writing, pauses
<1> QED BY <1>1, <1>3, <1>4 DEF TransferInv

LEMMA ReadCanKeeps ==
  ASSUME TransferInv, ReadCan
  PROVE  TransferInv'
<1>1. /\ at = "read" /\ rxKind = "can" /\ ~CanNoRoom
      /\ inbox # <<>> /\ inbox' = Tail(inbox) /\ got' = got \o Head(inbox)
      /\ UNCHANGED <<kinds, at, block, parser, writing, pauses, bytesReceived, bytesTransmitted,
                     arrived, history, throws, losses>>
  BY DEF ReadCan, CanCopy
<1>2. Len(got) \in Nat /\ Len(got) < RxBufferSize - CanRoom /\ RxBufferSize \in Nat /\ CanRoom \in Nat
  BY <1>1, RoomIsExact, TransferAssumption DEF CanNoRoom, TransferInv, TransferTypeOK
<1>3. Len(Head(inbox)) \in Nat /\ Len(Head(inbox)) <= CanRoom
  BY <1>1, TakenFacts DEF UnitFits, kinds
<1>4. Len(got) + Len(Head(inbox)) <= RxBufferSize
  BY <1>2, <1>3
<1> QED BY <1>1, <1>4, CollectKeeps

LEMMA ReadPipeKeeps ==
  ASSUME TransferInv, ReadPipe \/ ReadPipeCut
  PROVE  TransferInv'
<1>1. /\ at = "read" /\ rxKind = "pipe" /\ Len(got) < RxBufferSize
      /\ inbox # <<>> /\ inbox' = Tail(inbox) /\ rxKind' = rxKind
  BY DEF ReadPipe, ReadPipeCut, ReadWrapper, kinds
<1>2. /\ got \in Seq(Byte) /\ Len(got) \in Nat /\ RxBufferSize \in Nat
      /\ inbox' \in Seq(Seq(Byte)) /\ UnitsFit' /\ Len(Head(inbox)) = 1
  BY <1>1, TakenFacts, TransferAssumption DEF TransferInv, TransferTypeOK, UnitFits
<1>3. CASE ReadPipe
  <2>1. Len(got) + Len(Head(inbox)) <= RxBufferSize
    <3> DEFINE l == Len(Head(inbox))
    <3>1. Len(got) \in Nat /\ RxBufferSize \in Nat /\ Len(got) < RxBufferSize /\ l = 1
      BY <1>1, <1>2
    <3> HIDE DEF l
    <3>2. Len(got) + l <= RxBufferSize
      BY <3>1
    <3> QED BY <3>2 DEF l
  <2>2. /\ got' = got \o Head(inbox)
        /\ UNCHANGED <<kinds, at, block, parser, writing, pauses, bytesReceived, bytesTransmitted,
                       arrived, history, throws, losses>>
    BY <1>3 DEF ReadPipe
  <2> QED BY <1>1, <2>1, <2>2, CollectKeeps
<1>4. CASE ReadPipeCut
  <2> DEFINE bytes == Append(got, Garbled)
  <2>1. Garbled \in Byte
    BY DEF Garbled, Byte
  <2>2. bytes \in Seq(Byte) /\ Len(bytes) = Len(got) + 1
    BY <1>2, <2>1
  <2>3. losses' \in 0 .. MaxLosses
    BY <1>4, TransferAssumption DEF ReadPipeCut, TransferInv, TransferTypeOK
  <2>4. ReadWrapper(bytes)
    BY <1>4 DEF ReadPipeCut
  <2> HIDE DEF bytes
  <2>5. Len(bytes) <= RxBufferSize
    BY <1>1, <1>2, <2>2
  <2> QED BY <1>1, <1>2, <2>2, <2>3, <2>4, <2>5, ReadWrapperKeeps
<1> QED BY <1>3, <1>4

LEMMA ReadCollectedKeeps ==
  ASSUME TransferInv, ReadCollected
  PROVE  TransferInv'
<1>1. at = "read" /\ ReadWrapper(got) /\ inbox' = inbox /\ losses' = losses /\ rxKind' = rxKind
  BY DEF ReadCollected, ReadWrapper, kinds
<1>2. got \in Seq(Byte) /\ Len(got) <= RxBufferSize /\ losses' \in 0 .. MaxLosses
  BY <1>1 DEF TransferInv, TransferTypeOK, ReadFits
<1>3. inbox' \in Seq(Seq(Byte)) /\ UnitsFit'
  BY <1>1 DEF TransferInv, TransferTypeOK, UnitsFit, UnitFits
<1> QED BY <1>1, <1>2, <1>3, ReadWrapperKeeps

(***************************************************************************)
(* Parsing ends in a write exactly when a packet is complete.              *)
(***************************************************************************)
LEMMA ParseKeeps ==
  ASSUME TransferInv, ParseByte \/ ParseKept
  PROVE  TransferInv'
<1>1. /\ at = "parse"
      /\ UNCHANGED <<kinds, reading, writing, pauses, bytesReceived, bytesTransmitted, arrived, history,
                     throws, losses>>
  BY DEF ParseByte, ParseKept
<1>2. /\ alreadyWritten' = 0 /\ got' = <<>> /\ 0 < FrameLength
      /\ Len(block) \in Nat /\ Len(block) <= RxBufferSize /\ RxBufferSize \in Nat
  BY <1>1, TransferAssumption DEF TransferInv, TransferTypeOK, CallsInv, ReadFits, reading, writing
<1>3. /\ at' \in {"idle", "parse", "write"}
      /\ at' = "write" => HasPacket'
      /\ at' = "idle" => block' = <<>>
      /\ parser' \in Seq(Byte) /\ block' \in Seq(Byte) /\ Len(block') <= RxBufferSize
  <2>1. CASE ParseByte
    <3>1. /\ block # <<>> /\ block' = Tail(block) /\ block \in Seq(Byte) /\ parser \in Seq(Byte)
          /\ parser' = IF IsFlag(Head(block)) THEN <<>> ELSE Append(parser, Head(block))
      BY <2>1 DEF ParseByte, TransferInv, TransferTypeOK
    <3>2. Head(block) \in Byte /\ block' \in Seq(Byte) /\ Len(block') = Len(block) - 1
      BY <3>1, TailFacts
    <3>3. /\ at' \in {"idle", "parse", "write"}
          /\ at' = "write" => HasPacket'
          /\ at' = "idle" => block' = <<>>
      BY <2>1 DEF ParseByte, HasPacket
    <3> QED BY <1>2, <3>1, <3>2, <3>3
  <2>2. CASE ParseKept
    <3>1. at' = "write" /\ block' = block /\ parser' = parser /\ HasPacket
      BY <2>2 DEF ParseKept
    <3>2. HasPacket'
      BY <3>1 DEF HasPacket
    <3> QED BY <1>2, <3>1, <3>2 DEF TransferInv, TransferTypeOK
  <2> QED BY <2>1, <2>2
<1>4. TransferTypeOK'
  BY <1>1, <1>3 DEF TransferInv, TransferTypeOK, kinds, reading, writing, pauses, history
<1>5. UnitsFit'
  BY <1>1 DEF TransferInv, UnitsFit, UnitFits, kinds, reading
<1>6. CallsInv' /\ ReadFits'
  BY <1>2, <1>3, TransferAssumption DEF CallsInv, ReadFits
<1> QED BY <1>4, <1>5, <1>6 DEF TransferInv

(***************************************************************************)
(* Writes: the frame is the one in the parser, and what a call sends of it *)
(* are the next bytes.                                                     *)
(***************************************************************************)
LEMMA TheFrameFacts ==
  ASSUME TransferInv, at = "write"
  PROVE  /\ TheFrame \in 1 .. Frames
         /\ alreadyWritten \in 0 .. FrameLength - 1 /\ FrameLength \in Nat /\ Left \in 1 .. FrameLength
<1>1. \E f \in 1 .. Frames : parser = Packet(f)
  BY DEF TransferInv, CallsInv, HasPacket
<1>2. TheFrame \in 1 .. Frames
  BY <1>1 DEF TheFrame
<1>3. alreadyWritten \in 0 .. FrameLength /\ alreadyWritten < FrameLength /\ FrameLength \in Nat
  BY TransferAssumption DEF TransferInv, TransferTypeOK, CallsInv
<1> QED BY <1>2, <1>3 DEF Left

LEMMA SentFacts ==
  ASSUME TransferInv, at = "write", NEW k \in 1 .. Left
  PROVE  /\ Sent(k) \in Seq(Byte) /\ Len(Sent(k)) = k
         /\ \A j \in 1 .. k : Sent(k)[j] = [frame |-> TheFrame, place |-> alreadyWritten + j]
         /\ \A j \in 1 .. k : alreadyWritten + j \in 1 .. FrameLength
<1>1. TheFrame \in 1 .. Frames /\ alreadyWritten \in 0 .. FrameLength - 1 /\ FrameLength \in Nat
  BY TheFrameFacts
<1>2. \A j \in 1 .. k : alreadyWritten + j \in 1 .. FrameLength
  BY <1>1 DEF Left
<1> DEFINE byte(j) == [frame |-> TheFrame, place |-> alreadyWritten + j]
<1>3. \A j \in 1 .. k : byte(j) \in Byte
  BY <1>1, <1>2 DEF Byte
<1>4. k \in Nat
  BY <1>1 DEF Left
<1> HIDE DEF byte
<1>5. [j \in 1 .. k |-> byte(j)] \in Seq(Byte) /\ Len([j \in 1 .. k |-> byte(j)]) = k
  BY <1>3, <1>4
<1>6. Sent(k) = [j \in 1 .. k |-> byte(j)]
  BY DEF Sent, byte
<1>7. \A j \in 1 .. k : Sent(k)[j] = byte(j)
  BY <1>6
<1> QED BY <1>2, <1>5, <1>6, <1>7 DEF byte

LEMMA WriteSomeKeeps ==
  ASSUME TransferInv, at = "write", ~txPaused, NEW k \in 1 .. Left, WriteSome(k)
  PROVE  /\ TransferInv' /\ line' = line \o Sent(k) /\ torn' = torn /\ cut' = cut
         /\ alreadyWritten + k \in 1 .. FrameLength
         /\ alreadyWritten' = IF alreadyWritten + k = FrameLength THEN 0 ELSE alreadyWritten + k
         /\ alreadyWritten + k # FrameLength => parser' = parser
<1>1. alreadyWritten \in 0 .. FrameLength - 1 /\ FrameLength \in Nat /\ alreadyWritten + k \in 1 .. FrameLength
  BY TheFrameFacts DEF Left
<1>2. /\ line' = line \o Sent(k)
      /\ UNCHANGED <<kinds, reading, block, pauses, bytesReceived, arrived, history, throws, losses>>
  BY DEF WriteSome
<1>3. line' \in Seq(Byte)
  BY <1>2, SentFacts, ConcatFacts DEF TransferInv, TransferTypeOK
<1>4. /\ UNCHANGED <<kinds, reading, block, pauses, bytesReceived, arrived, delivered, throws>>
      /\ torn' = torn /\ cut' = cut /\ losses' = losses
  BY <1>2 DEF history
<1>5. torn' \subseteq 1 .. Frames /\ cut' \subseteq 1 .. Frames /\ losses' \in 0 .. MaxLosses
  BY <1>4 DEF TransferInv, TransferTypeOK
<1>6. CASE alreadyWritten + k = FrameLength
  <2>1. WriteReturns(FrameLength)
    BY <1>6 DEF WriteSome
  <2>2. TransferInv'
    BY <1>3, <1>4, <1>5, <2>1, WriteKeeps
  <2> QED BY <1>1, <1>2, <1>4, <1>6, <2>1, <2>2 DEF WriteReturns
<1>7. CASE alreadyWritten + k # FrameLength
  <2>1. alreadyWritten' = alreadyWritten + k /\ UNCHANGED <<at, parser, bytesTransmitted>>
    BY <1>7 DEF WriteSome
  <2>2. alreadyWritten' \in 0 .. FrameLength - 1
    BY <1>1, <1>7, <2>1
  <2>3. TransferInv'
    BY <1>3, <1>4, <1>5, <2>1, <2>2, WriteKeeps
  <2> QED BY <1>1, <1>2, <1>4, <1>7, <2>1, <2>3
<1> QED BY <1>6, <1>7

(***************************************************************************)
(* Sockets and can send at least one byte, and never more than is left.    *)
(***************************************************************************)
LEMMA SocketWrites ==
  ASSUME TransferInv, NEW k \in 0 .. FrameLength, WriteSocket(k) \/ WriteCan
  PROVE  /\ at = "write" /\ ~txPaused /\ txKind' = txKind
         /\ \E n \in 1 .. Left : WriteSome(n)
<1>1. at = "write" /\ ~txPaused
  BY DEF WriteSocket, WriteCan
<1>2. \E n \in 1 .. Left : WriteSome(n)
  <2>1. CASE WriteSocket(k)
    BY <2>1 DEF WriteSocket
  <2>2. CASE WriteCan
    <3>1. alreadyWritten \in 0 .. FrameLength - 1 /\ FrameLength \in Nat /\ CanData \in Nat \ {0}
      BY <1>1, TheFrameFacts, TransferAssumption
    <3>2. CanLength \in 1 .. Left
      BY <3>1 DEF CanLength, Left
    <3>3. WriteSome(CanLength)
      BY <2>2 DEF WriteCan
    <3> QED BY <3>2, <3>3
  <2> QED BY <2>1, <2>2
<1>3. ASSUME NEW n \in 1 .. Left, WriteSome(n) PROVE txKind' = txKind
  BY <1>3 DEF WriteSome, kinds
<1> QED BY <1>1, <1>2, <1>3

LEMMA OtherWritesKeep ==
  ASSUME TransferInv, NEW k \in 0 .. FrameLength, WritePaused \/ WriteStream(k) \/ WriteUdpPipe
  PROVE  TransferInv'
<1>1. at = "write" /\ UNCHANGED <<kinds, reading, block, pauses, bytesReceived, arrived, delivered, throws>>
  BY DEF WritePaused, WriteStream, WriteUdpPipe, history
<1>2. WriteReturns(0) \/ WriteReturns(FrameLength)
  BY DEF WritePaused, WriteStream, WriteUdpPipe
<1>3. line' \in Seq(Byte)
  <2>1. line \in Seq(Byte) /\ TheFrame \in 1 .. Frames /\ FrameLength \in Nat
    BY <1>1, TheFrameFacts DEF TransferInv, TransferTypeOK
  <2>2. CASE WritePaused \/ WriteUdpPipe
    BY <2>1, <2>2 DEF WritePaused, WriteUdpPipe
  <2>3. CASE WriteStream(k)
    <3> DEFINE bytes == FrameBytes(TheFrame)
               taken == SubSeq(bytes, 1, k)
    <3>1. bytes \in Seq(Byte) /\ Len(bytes) = FrameLength
      BY <2>1, FrameFacts
    <3> HIDE DEF bytes
    <3>2. \A i \in 1 .. k : bytes[i] \in Byte
      BY <2>1, <3>1
    <3>3. taken \in Seq(Byte)
      BY <2>1, <3>2, SubSeqProperties
    <3>4. line' = line \o taken
      BY <2>3 DEF WriteStream, bytes
    <3> QED BY <2>1, <3>3, <3>4, ConcatFacts
  <2> QED BY <2>2, <2>3
<1>4. torn' \subseteq 1 .. Frames /\ cut' \subseteq 1 .. Frames
  BY <1>1, TheFrameFacts DEF WritePaused, WriteStream, WriteUdpPipe, history, TransferInv, TransferTypeOK
<1>5. losses' \in 0 .. MaxLosses
  BY TransferAssumption DEF WritePaused, WriteStream, WriteUdpPipe, TransferInv, TransferTypeOK
<1> QED BY <1>1, <1>2, <1>3, <1>4, <1>5, WriteKeeps

LEMMA FailsKeep ==
  ASSUME TransferInv, ReadFails \/ WriteFails
  PROVE  TransferInv'
<1>1. /\ Throw
      /\ UNCHANGED <<kinds, inbox, parser, line, pauses, bytesReceived, bytesTransmitted, arrived,
                     delivered, cut, losses>>
  BY DEF ReadFails, WriteFails, history
<1>2. torn' \subseteq 1 .. Frames
  BY TheFrameFacts DEF ReadFails, WriteFails, history, TransferInv, TransferTypeOK
<1> QED BY <1>1, <1>2, ThrowKeeps

LEMMA StepInv == TransferInv /\ [Next]_vars => TransferInv'
<1> SUFFICES ASSUME TransferInv, [Next]_vars PROVE TransferInv'
  OBVIOUS
<1>1. CASE Arrive \/ Process \/ Pause \/ Resume
  BY <1>1, EnvironmentKeeps
<1>2. CASE Read \/ ReadPipeCut
  BY <1>2, ReadStreamKeeps, ReadUdpKeeps, ReadCanKeeps, ReadPipeKeeps, ReadCollectedKeeps DEF Read
<1>3. CASE ParseByte \/ ParseKept
  BY <1>3, ParseKeeps
<1>4. CASE Write
  <2>1. FrameLength \in Nat
    BY TransferAssumption
  <2>2. ASSUME NEW k \in 0 .. FrameLength, WriteSocket(k) \/ WriteCan PROVE TransferInv'
    BY <2>2, SocketWrites, WriteSomeKeeps
  <2>3. ASSUME NEW k \in 0 .. FrameLength, WritePaused \/ WriteStream(k) PROVE TransferInv'
    BY <2>3, OtherWritesKeep
  <2>4. 0 \in 0 .. FrameLength
    BY <2>1
  <2> QED BY <1>4, <2>2, <2>3, <2>4 DEF Write
<1>5. CASE WriteUdpPipe
  <2>1. 0 \in 0 .. FrameLength
    BY TransferAssumption
  <2> QED BY <1>5, <2>1, OtherWritesKeep
<1>6. CASE ReadFails \/ WriteFails
  BY <1>6, FailsKeep
<1>7. CASE UNCHANGED vars
  <2>1. TransferTypeOK'
    BY <1>7 DEF vars, TransferInv, TransferTypeOK, kinds, reading, writing, pauses, history
  <2>2. UnitsFit' /\ ReadFits'
    BY <1>7 DEF vars, TransferInv, UnitsFit, UnitFits, ReadFits, kinds, reading
  <2>3. CallsInv'
    BY <1>7 DEF vars, TransferInv, CallsInv, HasPacket, reading, writing, pauses
  <2> QED BY <2>1, <2>2, <2>3 DEF TransferInv
<1> QED BY <1>1, <1>2, <1>3, <1>4, <1>5, <1>6, <1>7 DEF Next

(***************************************************************************)
(* The state of a transfer keeps its types, and the invariant above holds. *)
(***************************************************************************)
THEOREM TransferTypesCorrect == Spec => [](TransferTypeOK /\ CallsInv)
<1>1. TransferInv => TransferTypeOK /\ CallsInv
  BY DEF TransferInv
<1> QED BY <1>1, InitInv, StepInv, PTL DEF Spec

(***************************************************************************)
(* No read writes behind the buffer of the bridge, whatever the sizes of   *)
(* the buffer and of can frames are, as long as the longest can frame is   *)
(* shorter than the buffer.                                                *)
(***************************************************************************)
THEOREM ReadsFit == Spec => []ReadFits
<1>1. TransferInv => ReadFits
  BY DEF TransferInv
<1> QED BY <1>1, InitInv, StepInv, PTL DEF Spec

-----------------------------------------------------------------------------
(***************************************************************************)
(* Why nothing is torn: each byte that left follows the one before it in   *)
(* its frame, ends a frame or has an excuse; and while a frame is being    *)
(* written the last byte is the one that alreadyWritten says.  Streams, pty*)
(* and pipe write once.                                                    *)
(***************************************************************************)
ToSocket == txKind \in {"udp", "tcp", "can"}

SentBytes == [frame : 1 .. Frames, place : 1 .. FrameLength]

Follows(j) == line[j].place # 1 => j > 1 /\ line[j - 1] = [line[j] EXCEPT !.place = @ - 1]

Ends(j) ==
  line[j].place # FrameLength /\ (j = Len(line) \/ line[j + 1].place = 1) =>
    \/ line[j].frame \in (IF ToSocket THEN torn ELSE cut)
    \/ j = Len(line) /\ alreadyWritten = line[j].place

Underway ==
  alreadyWritten > 0 => Len(line) > 0 /\ line[Len(line)] = [frame |-> TheFrame, place |-> alreadyWritten]

TornInv ==
  /\ \A j \in 1 .. Len(line) : line[j] \in SentBytes /\ Follows(j) /\ Ends(j)
  /\ Underway
  /\ ~ToSocket => alreadyWritten = 0

(***************************************************************************)
(* Steps that write nothing: the write that is under way goes on, or its   *)
(* frame is torn.                                                          *)
(***************************************************************************)
LEMMA NothingWritten ==
  ASSUME TransferInv, TornInv, txKind' = txKind, line' = line, torn \subseteq torn', cut \subseteq cut',
         \/ alreadyWritten' = alreadyWritten /\ (parser' = parser \/ alreadyWritten = 0)
         \/ alreadyWritten' = 0 /\ TheFrame \in torn'
  PROVE  TornInv'
<1>1. /\ \A j \in 1 .. Len(line) : line[j] \in SentBytes /\ Follows(j) /\ Ends(j)
      /\ Underway
      /\ ~ToSocket => alreadyWritten = 0
      /\ ToSocket' = ToSocket
  BY DEF TornInv, ToSocket
<1>2. alreadyWritten \in Nat /\ Len(line) \in Nat
  BY DEF TransferInv, TransferTypeOK
<1>3. Underway'
  <2>1. CASE alreadyWritten' = alreadyWritten /\ parser' = parser
    <3>1. TheFrame' = TheFrame
      BY <2>1 DEF TheFrame
    <3> QED BY <1>1, <2>1, <3>1 DEF Underway
  <2>2. CASE alreadyWritten' = 0
    BY <2>2 DEF Underway
  <2> QED BY <2>1, <2>2
<1>4. ASSUME NEW j \in 1 .. Len(line') PROVE line'[j] \in SentBytes /\ Follows(j)' /\ Ends(j)'
  <2>1. line[j] \in SentBytes /\ Follows(j) /\ Ends(j)
    BY <1>1
  <2>2. Follows(j)'
    BY <2>1 DEF Follows
  <2>3. Ends(j)'
    <3>1. CASE alreadyWritten' = alreadyWritten
      BY <1>1, <2>1, <3>1 DEF Ends
    <3>2. CASE alreadyWritten' = 0 /\ TheFrame \in torn'
      <4>1. CASE alreadyWritten = line[j].place /\ j = Len(line)
        <5>1. line[j].place > 0 /\ line[j].place \in Nat
          BY <2>1 DEF SentBytes
        <5>2. line[j] = [frame |-> TheFrame, place |-> alreadyWritten]
          BY <1>1, <4>1, <5>1 DEF Underway
        <5>3. line'[j].frame \in torn'
          BY <3>2, <5>2
        <5>4. ToSocket'
          BY <1>1, <4>1, <5>1
        <5> QED BY <5>3, <5>4 DEF Ends
      <4>2. CASE ~(alreadyWritten = line[j].place /\ j = Len(line))
        BY <1>1, <2>1, <4>2 DEF Ends
      <4> QED BY <4>1, <4>2
    <3> QED BY <3>1, <3>2
  <2> QED BY <2>1, <2>2, <2>3
<1>5. SentBytes' = SentBytes /\ (~ToSocket' => alreadyWritten' = 0)
  BY <1>1 DEF SentBytes
<1> QED BY <1>3, <1>4, <1>5 DEF TornInv

(***************************************************************************)
(* The bytes of a call continue those of the calls before; a stream takes  *)
(* the whole frame, or it is cut.                                          *)
(***************************************************************************)
Continues(k) ==
  /\ line' = line \o Sent(k)
  /\ \/ /\ ToSocket
        /\ alreadyWritten' = IF alreadyWritten + k = FrameLength THEN 0 ELSE alreadyWritten + k
        /\ alreadyWritten + k # FrameLength => parser' = parser
     \/ /\ ~ToSocket /\ alreadyWritten' = 0
        /\ alreadyWritten + k = FrameLength \/ TheFrame \in cut'

LEMMA SomeWritten ==
  ASSUME TransferInv, TornInv, at = "write", txKind' = txKind, torn \subseteq torn', cut \subseteq cut',
         NEW k \in 1 .. Left, Continues(k)
  PROVE  TornInv'
<1>a. PICK a \in Nat : a = alreadyWritten
  BY DEF TransferInv, TransferTypeOK
<1>n. PICK n \in Nat : n = Len(line)
  BY DEF TransferInv, TransferTypeOK
<1>1. /\ a + k \in 1 .. FrameLength
      /\ ToSocket' = ToSocket
      /\ \/ alreadyWritten' = a + k /\ a + k # FrameLength /\ ToSocket /\ parser' = parser
         \/ alreadyWritten' = 0 /\ (a + k = FrameLength \/ (~ToSocket /\ TheFrame \in cut'))
  BY <1>a, TheFrameFacts DEF Continues, Left, ToSocket
<1>2. /\ \A j \in 1 .. n : line[j] \in SentBytes /\ Follows(j) /\ Ends(j)
      /\ Underway
  BY <1>n DEF TornInv
<1>3. k \in Nat /\ k >= 1 /\ FrameLength \in Nat /\ TheFrame \in 1 .. Frames
  BY TheFrameFacts DEF Left, TransferInv, TransferTypeOK
<1>4. /\ Len(line') = n + k
      /\ \A j \in 1 .. n : line'[j] = line[j]
      /\ \A j \in 1 .. k : line'[n + j] = [frame |-> TheFrame, place |-> a + j]
      /\ \A j \in 1 .. k : a + j \in 1 .. FrameLength
  <2>1. line \in Seq(Byte) /\ Sent(k) \in Seq(Byte) /\ Len(Sent(k)) = k
    BY SentFacts DEF TransferInv, TransferTypeOK
  <2>2. /\ Len(line') = n + k
        /\ \A j \in 1 .. n : line'[j] = line[j]
        /\ \A j \in 1 .. k : line'[n + j] = Sent(k)[j]
    <3> DEFINE sent == Sent(k)
    <3>1. sent \in Seq(Byte) /\ Len(sent) = k /\ line' = line \o sent
      BY <2>1 DEF Continues
    <3> HIDE DEF sent
    <3>2. /\ Len(line') = Len(line) + Len(sent)
          /\ \A j \in 1 .. Len(line) : line'[j] = line[j]
          /\ \A j \in 1 .. Len(sent) : line'[Len(line) + j] = sent[j]
      <4>1. /\ Len(line \o sent) = Len(line) + Len(sent)
            /\ \A j \in 1 .. Len(line) : (line \o sent)[j] = line[j]
            /\ \A j \in 1 .. Len(sent) : (line \o sent)[Len(line) + j] = sent[j]
        <5>1. line \in Seq(Byte) /\ sent \in Seq(Byte)
          BY <2>1, <3>1
        <5> QED BY ONLY <5>1, ConcatFacts
      <4> QED BY <3>1, <4>1
    <3> QED BY <1>n, <3>1, <3>2 DEF sent
  <2>3. /\ \A j \in 1 .. k : Sent(k)[j] = [frame |-> TheFrame, place |-> a + j]
        /\ \A j \in 1 .. k : a + j \in 1 .. FrameLength
    BY <1>a, SentFacts
  <2>4. ASSUME NEW j \in 1 .. k PROVE line'[n + j] = [frame |-> TheFrame, place |-> a + j]
    BY <2>2, <2>3
  <2> QED BY <2>2, <2>3, <2>4
<1>5. ASSUME NEW j \in 1 .. n
      PROVE  line'[j] \in SentBytes /\ Follows(j)' /\ Ends(j)'
  <2>1. line'[j] = line[j] /\ line[j] \in SentBytes /\ Follows(j) /\ Ends(j)
    BY <1>2, <1>4
  <2>2. Follows(j)'
    <3>1. j > 1 => line'[j - 1] = line[j - 1]
      BY <1>3, <1>4
    <3> QED BY <2>1, <3>1 DEF Follows
  <2>3. Ends(j)'
    <3>1. j # Len(line')
      BY <1>3, <1>4
    <3>2. CASE j < n
      <4>1. j + 1 \in 1 .. n /\ j # Len(line)
        BY <1>3, <1>n, <3>2
      <4>2. line'[j + 1] = line[j + 1]
        BY <1>4, <4>1
      <4> QED BY <1>1, <2>1, <3>1, <4>1, <4>2 DEF Ends
    <3>3. CASE j = n
      <4>1. line'[j + 1].place = a + 1
        <5>1. 1 \in 1 .. k
          BY <1>3
        <5>2. line'[n + 1] = [frame |-> TheFrame, place |-> a + 1]
          BY <1>4, <5>1
        <5> QED BY <3>3, <5>2
      <4>2. line[j].place \in Nat /\ line[j].place >= 1
        BY <2>1 DEF SentBytes
      <4>3. line'[j + 1].place = 1 => a # line[j].place
        BY <1>3, <4>1, <4>2
      <4>4. j = Len(line)
        BY <1>n, <3>3
      <4> QED BY <1>1, <1>a, <2>1, <3>1, <4>3, <4>4 DEF Ends
    <3> QED BY <1>3, <3>2, <3>3
  <2> QED BY <2>1, <2>2, <2>3
<1>6. ASSUME NEW i \in 1 .. k
      PROVE  line'[n + i] \in SentBytes /\ Follows(n + i)' /\ Ends(n + i)'
  <2>1. line'[n + i] = [frame |-> TheFrame, place |-> a + i] /\ a + i \in 1 .. FrameLength /\ i \in Nat /\ i >= 1
    <3>1. i \in Nat /\ i >= 1
      BY <1>3
    <3>2. line'[n + i] = [frame |-> TheFrame, place |-> a + i]
      BY <1>4
    <3>3. a + i \in 1 .. FrameLength
      BY <1>4
    <3> QED BY <3>1, <3>2, <3>3
  <2>2. line'[n + i] \in SentBytes
    BY <1>3, <2>1 DEF SentBytes
  <2>3. [line'[n + i] EXCEPT !.place = @ - 1] = [frame |-> TheFrame, place |-> a + i - 1]
    BY <2>1
  <2>4. Follows(n + i)'
    <3>1. CASE i > 1
      <4>1. i - 1 \in 1 .. k /\ n + (i - 1) = n + i - 1 /\ a + (i - 1) = a + i - 1 /\ n + i > 1
        BY <1>3, <2>1, <3>1
      <4>2. line'[n + i - 1] = [frame |-> TheFrame, place |-> a + i - 1]
        BY <1>4, <4>1
      <4> QED BY <2>3, <4>1, <4>2 DEF Follows
    <3>2. CASE i = 1 /\ a > 0
      <4>1. n > 0 /\ line[n] = [frame |-> TheFrame, place |-> a]
        BY <1>a, <1>n, <1>2, <3>2 DEF Underway
      <4>2. n \in 1 .. n /\ n + i - 1 = n /\ a + i - 1 = a /\ n + i > 1
        BY <1>3, <3>2, <4>1
      <4>3. line'[n + i - 1] = [frame |-> TheFrame, place |-> a + i - 1]
        BY <1>4, <4>1, <4>2
      <4> QED BY <2>3, <4>2, <4>3 DEF Follows
    <3>3. CASE i = 1 /\ a = 0
      <4>1. line'[n + i].place = 1
        BY <2>1, <3>3
      <4> QED BY <4>1 DEF Follows
    <3> QED BY <1>3, <2>1, <3>1, <3>2, <3>3
  <2>5. Ends(n + i)'
    <3>1. CASE i = k
      <4>1. line'[n + i].place = a + k /\ line'[n + i].frame = TheFrame /\ n + i = Len(line')
        BY <1>4, <2>1, <3>1
      <4> QED BY <1>1, <4>1 DEF Ends
    <3>2. CASE i < k
      <4>1. i + 1 \in 1 .. k /\ n + (i + 1) = n + i + 1 /\ n + i # Len(line')
        BY <1>3, <1>4, <2>1, <3>2
      <4>2. line'[n + (i + 1)] = [frame |-> TheFrame, place |-> a + (i + 1)]
        BY <1>4, <4>1
      <4>3. line'[n + i + 1].place # 1
        <5>1. line'[n + i + 1] = [frame |-> TheFrame, place |-> a + (i + 1)] /\ a + (i + 1) # 1
          BY <2>1, <4>1, <4>2
        <5> QED BY <5>1
      <4> QED BY <4>1, <4>3 DEF Ends
    <3> QED BY <1>3, <3>1, <3>2
  <2> QED BY <2>2, <2>4, <2>5
<1>7. ASSUME NEW j \in 1 .. Len(line') PROVE line'[j] \in SentBytes /\ Follows(j)' /\ Ends(j)'
  <2>1. CASE j <= n
    BY <1>3, <1>5, <2>1
  <2>2. CASE j > n
    <3>1. j - n \in 1 .. k /\ n + (j - n) = j
      BY <1>3, <1>4, <2>2
    <3>2. line'[n + (j - n)] \in SentBytes /\ Follows(n + (j - n))' /\ Ends(n + (j - n))'
      BY <1>6, <3>1
    <3> QED BY <3>1, <3>2
  <2> QED BY <1>3, <1>4, <2>1, <2>2
<1>8. Underway'
  <2>1. CASE alreadyWritten' = 0
    BY <2>1 DEF Underway
  <2>2. CASE alreadyWritten' = a + k /\ parser' = parser
    <3>1. TheFrame' = TheFrame
      BY <1>1, <2>2 DEF TheFrame
    <3>2. k \in 1 .. k /\ Len(line') > 0 /\ Len(line') = n + k
      BY <1>3, <1>4
    <3>3. line'[Len(line')] = [frame |-> TheFrame, place |-> a + k]
      BY <1>4, <3>2
    <3> QED BY <2>2, <3>1, <3>2, <3>3 DEF Underway
  <2> QED BY <1>1, <2>1, <2>2
<1>9. SentBytes' = SentBytes /\ (~ToSocket' => alreadyWritten' = 0)
  BY <1>1 DEF SentBytes
<1> QED BY <1>7, <1>8, <1>9 DEF TornInv

(***************************************************************************)
(* A write of a socket or can goes on where the one before ended; one to a *)
(* stream, pty or pipe starts with the first byte; and a paused one writes *)
(* nothing.                                                                *)
(***************************************************************************)
LEMMA SocketWritesTorn ==
  ASSUME TransferInv, TornInv, NEW k \in 0 .. FrameLength, WriteSocket(k) \/ WriteCan
  PROVE  TornInv'
<1>1. at = "write" /\ ~txPaused /\ txKind' = txKind /\ ToSocket
  BY SocketWrites DEF WriteSocket, WriteCan, ToSocket
<1>2. PICK n \in 1 .. Left : WriteSome(n)
  BY SocketWrites
<1>3. Continues(n)
  BY <1>1, <1>2, WriteSomeKeeps DEF Continues
<1>4. torn' = torn /\ cut' = cut
  BY <1>1, <1>2, WriteSomeKeeps
<1> QED BY <1>1, <1>3, <1>4, SomeWritten

LEMMA StreamWritesTorn ==
  ASSUME TransferInv, TornInv, NEW k \in 0 .. FrameLength, WriteStream(k)
  PROVE  TornInv'
<1>1. /\ at = "write" /\ ~ToSocket /\ txKind' = txKind /\ torn' = torn /\ alreadyWritten = 0 /\ alreadyWritten' = 0
      /\ line' = line \o SubSeq(FrameBytes(TheFrame), 1, k)
      /\ cut' = IF k = FrameLength THEN cut ELSE cut \cup {TheFrame}
  BY DEF WriteStream, WriteReturns, kinds, TornInv, ToSocket
<1>2. TheFrame \in 1 .. Frames /\ FrameLength \in Nat /\ Left = FrameLength /\ FrameLength >= 3
  BY <1>1, TheFrameFacts, TransferAssumption DEF Left
<1>3. line \in Seq(Byte)
  BY DEF TransferInv, TransferTypeOK
<1>4. CASE k = 0
  <2>1. SubSeq(FrameBytes(TheFrame), 1, k) = <<>>
    BY <1>2, <1>4, FrameFacts
  <2>2. line' = line
    <3>1. line \o <<>> = line
      BY <1>3
    <3> QED BY <1>1, <2>1, <3>1
  <2>3. torn \subseteq torn' /\ cut \subseteq cut'
    BY <1>1
  <2> QED BY <1>1, <2>2, <2>3, NothingWritten
<1>5. CASE k > 0
  <2>1. k \in 1 .. Left
    BY <1>2, <1>5
  <2>2. SubSeq(FrameBytes(TheFrame), 1, k) = Sent(k)
    <3>1. Sent(k) = [j \in 1 .. k |-> [frame |-> TheFrame, place |-> j]]
      <4>1. \A j \in 1 .. k : alreadyWritten + j = j
        BY <1>1
      <4> QED BY <4>1 DEF Sent
    <3>2. SubSeq(FrameBytes(TheFrame), 1, k) = [j \in 1 .. k |-> FrameBytes(TheFrame)[j]]
      BY <1>2, <2>1, FrameFacts, FirstBytes
    <3>3. \A j \in 1 .. k : FrameBytes(TheFrame)[j] = [frame |-> TheFrame, place |-> j]
      BY <1>2 DEF FrameBytes
    <3> QED BY <3>1, <3>2, <3>3
  <2>3. alreadyWritten + k = FrameLength \/ TheFrame \in cut'
    BY <1>1, <1>2
  <2>4. Continues(k)
    BY <1>1, <2>2, <2>3 DEF Continues
  <2>5. cut \subseteq cut' /\ torn \subseteq torn'
    BY <1>1
  <2> QED BY <1>1, <2>1, <2>4, <2>5, SomeWritten
<1> QED BY <1>2, <1>4, <1>5

LEMMA OtherWritesTorn ==
  ASSUME TransferInv, TornInv, NEW k \in 0 .. FrameLength, WritePaused \/ WriteStream(k) \/ WriteUdpPipe
  PROVE  TornInv'
<1>1. CASE WritePaused
  <2>1. /\ txKind' = txKind /\ line' = line /\ alreadyWritten' = 0 /\ alreadyWritten = 0
        /\ torn' = torn /\ cut' = cut
    BY <1>1 DEF WritePaused, WriteReturns, kinds, history, TransferInv, CallsInv
  <2> QED BY <2>1, NothingWritten
<1>2. CASE WriteStream(k)
  BY <1>2, StreamWritesTorn
<1>3. CASE WriteUdpPipe
  <2>1. /\ txKind' = txKind /\ line' = line /\ torn' = torn \cup {TheFrame} /\ cut' = cut /\ alreadyWritten' = 0
    BY <1>3 DEF WriteUdpPipe, WriteReturns, kinds
  <2> QED BY <2>1, NothingWritten
<1> QED BY <1>1, <1>2, <1>3

LEMMA StepTorn == TransferInv /\ TornInv /\ [Next]_vars => TornInv'
<1> SUFFICES ASSUME TransferInv, TornInv, [Next]_vars PROVE TornInv'
  OBVIOUS
<1>1. CASE Arrive \/ Process \/ Pause \/ Resume \/ Read \/ ReadPipeCut \/ UNCHANGED vars
  <2>1. UNCHANGED <<kinds, parser, writing, torn, cut>>
    BY <1>1 DEF Arrive, Process, Pause, Resume, Read, ReadStream, ReadUdp, ReadCan, ReadPipe, ReadPipeCut,
                ReadCollected, ReadWrapper, history, vars
  <2> QED BY <2>1, NothingWritten DEF kinds, writing
<1>2. CASE ParseByte \/ ParseKept
  <2>1. at = "parse" /\ UNCHANGED <<kinds, writing, history>>
    BY <1>2 DEF ParseByte, ParseKept
  <2>2. alreadyWritten = 0
    BY <2>1 DEF TransferInv, CallsInv
  <2> QED BY <2>1, <2>2, NothingWritten DEF kinds, writing, history
<1>3. CASE Write \/ WriteUdpPipe
  <2>1. 0 \in 0 .. FrameLength
    BY TransferAssumption
  <2>2. ASSUME NEW k \in 0 .. FrameLength, WriteSocket(k) \/ WriteCan PROVE TornInv'
    BY <2>2, SocketWritesTorn
  <2>3. ASSUME NEW k \in 0 .. FrameLength, WritePaused \/ WriteStream(k) \/ WriteUdpPipe PROVE TornInv'
    BY <2>3, OtherWritesTorn
  <2> QED BY <1>3, <2>1, <2>2, <2>3 DEF Write
<1>4. CASE ReadFails
  <2>1. /\ txKind' = txKind /\ line' = line /\ alreadyWritten' = 0 /\ alreadyWritten = 0
        /\ torn' = torn /\ cut' = cut
    BY <1>4 DEF ReadFails, Throw, kinds, history, TransferInv, CallsInv
  <2> QED BY <2>1, NothingWritten
<1>5. CASE WriteFails
  <2>1. /\ txKind' = txKind /\ line' = line /\ torn' = torn \cup {TheFrame} /\ cut' = cut /\ alreadyWritten' = 0
    BY <1>5 DEF WriteFails, Throw, kinds
  <2> QED BY <2>1, NothingWritten
<1> QED BY <1>1, <1>2, <1>3, <1>4, <1>5 DEF Next

(***************************************************************************)
(* A frame that left only in part is under way, or a call of its write     *)
(* failed, or a stream, pty or pipe took no more of it, for any length of  *)
(* frames and of can frames and however the calls divide them.             *)
(***************************************************************************)
THEOREM OnlyFailuresTear == Spec => []TornOnlyIfFailed
<1>1. Init => TornInv
  BY DEF Init, TornInv, Underway
<1>2. TransferInv /\ TornInv => TornOnlyIfFailed
  <2> SUFFICES ASSUME TornInv, NEW j \in 1 .. Len(line)
               PROVE  /\ line[j].place # 1 => j > 1 /\ line[j - 1] = [line[j] EXCEPT !.place = @ - 1]
                      /\ line[j].place # FrameLength /\ (j = Len(line) \/ line[j + 1].place = 1) =>
                           \/ line[j].frame \in (IF txKind \in {"udp", "tcp", "can"} THEN torn ELSE cut)
                           \/ j = Len(line) /\ alreadyWritten = line[j].place
    BY DEF TornOnlyIfFailed
  <2>1. Follows(j) /\ Ends(j)
    BY DEF TornInv
  <2> QED BY <2>1 DEF Follows, Ends, ToSocket
<1> QED BY <1>1, <1>2, InitInv, StepInv, StepTorn, PTL DEF Spec
-----------------------------------------------------------------------------
(***************************************************************************)
(* f holds what the first k sequences of ss are, one after the other.      *)
(***************************************************************************)
Joins(f, ss, S) ==
  /\ f \in [0 .. Len(ss) -> Seq(S)]
  /\ f[0] = <<>>
  /\ \A k \in 1 .. Len(ss) : f[k] = f[k - 1] \o ss[k]

(***************************************************************************)
(* There are such prefixes, and FlattenSeq gives the last of them.         *)
(***************************************************************************)
LEMMA JoinsExist ==
  ASSUME NEW S, NEW ss \in Seq(Seq(S))
  PROVE  \E f : Joins(f, ss, S)
<1> DEFINE N == Len(ss)
           step == [p \in Seq(S) \X (1 .. N) |-> p[1] \o ss[p[2]]]
<1>1. N \in Nat /\ <<>> \in Seq(S) /\ \A k \in 1 .. N : ss[k] \in Seq(S)
  OBVIOUS
<1>2. step \in [Seq(S) \X (1 .. N) -> Seq(S)]
  BY <1>1
<1>3. \A s \in Seq(S), k \in 1 .. N : step[<<s, k>>] = s \o ss[k]
  OBVIOUS
<1> HIDE DEF N, step
<1>4. PICK f : IsLoop(f, Seq(S), <<>>, N, step)
  BY <1>1, <1>2, BoundedRecursion
<1>5. f \in [0 .. N -> Seq(S)] /\ f[0] = <<>> /\ \A k \in 1 .. N : f[k] = step[<<f[k - 1], k>>]
  BY <1>4 DEF IsLoop
<1>6. ASSUME NEW k \in 1 .. N PROVE f[k] = f[k - 1] \o ss[k]
  <2>1. k - 1 \in 0 .. N
    BY <1>1
  <2>2. f[k - 1] \in Seq(S)
    BY <1>5, <2>1
  <2> QED BY <1>3, <1>5, <2>2
<1>7. Joins(f, ss, S)
  BY <1>5, <1>6 DEF Joins, N
<1> QED BY <1>7

LEMMA FlattenJoins ==
  ASSUME NEW S, NEW ss \in Seq(Seq(S)), NEW f, Joins(f, ss, S)
  PROVE  FlattenSeq(ss) = f[Len(ss)]
<1> DEFINE N == Len(ss)
           F(g) == [i \in 1 .. N |-> IF i = 1 THEN ss[i] ELSE g[i - 1] \o ss[i]]
           flatten == CHOOSE g : g = F(g)
           own == [i \in 1 .. N |-> f[i]]
<1>1. N \in Nat /\ f[0] = <<>> /\ \A k \in 1 .. N : f[k] = f[k - 1] \o ss[k] /\ ss[k] \in Seq(S)
  BY DEF Joins
<1>2. CASE N = 0
  <2>1. ss = <<>> /\ Len(ss) = 0
    BY <1>2
  <2> QED BY <1>1, <2>1 DEF FlattenSeq
<1>3. CASE N # 0
  <2>1. FlattenSeq(ss) = flatten[N]
    BY <1>3 DEF FlattenSeq
  <2> HIDE DEF N
  <2>2. own = F(own)
    <3>1. ASSUME NEW i \in 1 .. N PROVE f[i] = IF i = 1 THEN ss[i] ELSE own[i - 1] \o ss[i]
      <4>1. CASE i = 1
        <5>1. f[i] = f[i - 1] \o ss[i] /\ ss[i] \in Seq(S)
          BY <1>1
        <5>2. <<>> \o ss[i] = ss[i] /\ i - 1 = 0
          BY <4>1, <5>1
        <5> QED BY <1>1, <4>1, <5>1, <5>2
      <4>2. CASE i # 1
        <5>1. i - 1 \in 1 .. N
          BY <1>1, <4>2
        <5> QED BY <1>1, <4>2, <5>1
      <4> QED BY <4>1, <4>2
    <3> QED BY <3>1 DEF F
  <2> HIDE DEF own, F
  <2>3. flatten = F(flatten)
    BY <2>2
  <2> HIDE DEF flatten
  <2>4. \A i \in 1 .. N : flatten[i] = IF i = 1 THEN ss[i] ELSE flatten[i - 1] \o ss[i]
    BY <2>3 DEF F
  <2> DEFINE T == {k \in Nat : k > 0 /\ k <= N => flatten[k] = f[k]}
  <2>5. 0 \in T
    OBVIOUS
  <2>6. ASSUME NEW k \in Nat, k \in T PROVE k + 1 \in T
    <3> SUFFICES ASSUME k + 1 <= N PROVE flatten[k + 1] = f[k + 1]
      OBVIOUS
    <3>1. k + 1 \in 1 .. N /\ (k + 1) - 1 = k /\ (k > 0 => flatten[k] = f[k])
      BY <1>1, <2>6
    <3>2. PICK j : j = k + 1
      OBVIOUS
    <3>3. j \in 1 .. N /\ j - 1 = k
      BY <3>1, <3>2
    <3>4. f[j] = f[k] \o ss[j] /\ ss[j] \in Seq(S)
      BY <1>1, <3>3
    <3>5. CASE k = 0
      <4>1. flatten[j] = ss[j] /\ <<>> \o ss[j] = ss[j]
        BY <2>4, <3>2, <3>3, <3>4, <3>5
      <4> QED BY <1>1, <3>2, <3>4, <3>5, <4>1
    <3>6. CASE k # 0
      <4>1. j # 1
        BY <3>2, <3>6
      <4>2. flatten[j] = flatten[k] \o ss[j]
        BY <2>4, <3>3, <4>1
      <4>3. flatten[k] = f[k]
        BY <3>1, <3>6
      <4> QED BY <3>2, <3>4, <4>2, <4>3
    <3> QED BY <3>5, <3>6
  <2> HIDE DEF T
  <2>7. N \in T
    BY <1>1, <2>5, <2>6, SetInduction
  <2>8. flatten[N] = f[N]
    BY <1>1, <1>3, <2>7 DEF T
  <2> QED BY <2>1, <2>8 DEF N
<1> QED BY <1>2, <1>3

(***************************************************************************)
(* Pieces that follow each other in a sequence are the sequence.           *)
(***************************************************************************)
LEMMA FlattenPieces ==
  ASSUME NEW S, NEW s \in Seq(S), NEW n \in Nat, NEW end \in [0 .. n -> 0 .. Len(s)],
         end[0] = 0, NEW ss \in Seq(Seq(S)), Len(ss) = n,
         \A k \in 1 .. n : end[k - 1] <= end[k] /\ ss[k] = SubSeq(s, end[k - 1] + 1, end[k])
  PROVE  FlattenSeq(ss) = SubSeq(s, 1, end[n])
<1> DEFINE f == [k \in 0 .. n |-> SubSeq(s, 1, end[k])]
<1>1. ASSUME NEW k \in 0 .. n PROVE SubSeq(s, 1, end[k]) \in Seq(S)
  <2>1. end[k] \in 0 .. Len(s)
    OBVIOUS
  <2> QED BY <2>1
<1>2. f[0] = <<>>
  BY SubSeqEmpty
<1>3. ASSUME NEW k \in 1 .. n PROVE f[k] = f[k - 1] \o ss[k]
  <2>1. k - 1 \in 0 .. n /\ k \in 0 .. n
    OBVIOUS
  <2>2. PICK a, b : a = end[k - 1] /\ b = end[k]
    OBVIOUS
  <2>3. a \in 0 .. Len(s) /\ b \in a .. Len(s) /\ Len(s) \in Nat
    BY <2>1, <2>2
  <2>4. 1 \in 1 .. Len(s) + 1 /\ a \in 1 - 1 .. Len(s)
    BY <2>3
  <2>5. SubSeq(s, 1, a) \o SubSeq(s, a + 1, b) = SubSeq(s, 1, b)
    BY <2>3, <2>4, ConcatAdjacentSubSeq
  <2> QED BY <2>1, <2>2, <2>5
<1>4. f \in [0 .. n -> Seq(S)]
  BY <1>1
<1>a. f[n] = SubSeq(s, 1, end[n])
  OBVIOUS
<1> HIDE DEF f
<1>5. Joins(f, ss, S)
  BY <1>2, <1>3, <1>4 DEF Joins
<1> QED BY <1>5, <1>a, FlattenJoins

(***************************************************************************)
(* Sequences of sequences one after the other.                             *)
(***************************************************************************)
LEMMA FlattenConcat ==
  ASSUME NEW S, NEW ss \in Seq(Seq(S)), NEW tt \in Seq(Seq(S))
  PROVE  FlattenSeq(ss) \in Seq(S) /\ FlattenSeq(ss \o tt) = FlattenSeq(ss) \o FlattenSeq(tt)
<1>1. PICK f : Joins(f, ss, S)
  BY JoinsExist
<1>2. PICK g : Joins(g, tt, S)
  BY JoinsExist
<1>3. PICK m, n : m = Len(ss) /\ n = Len(tt)
  OBVIOUS
<1>4. m \in Nat /\ n \in Nat
  BY <1>3
<1>5. f \in [0 .. m -> Seq(S)] /\ f[0] = <<>> /\ \A k \in 1 .. m : f[k] = f[k - 1] \o ss[k]
  BY <1>1, <1>3 DEF Joins
<1>6. g \in [0 .. n -> Seq(S)] /\ g[0] = <<>> /\ \A k \in 1 .. n : g[k] = g[k - 1] \o tt[k]
  BY <1>2, <1>3 DEF Joins
<1>7. PICK uu : uu = ss \o tt
  OBVIOUS
<1>8. /\ uu \in Seq(Seq(S)) /\ Len(uu) = m + n
      /\ \A k \in 1 .. m : uu[k] = ss[k]
      /\ \A k \in 1 .. n : uu[m + k] = tt[k]
  BY <1>3, <1>7
<1>9. f[m] \in Seq(S) /\ \A k \in 0 .. n : g[k] \in Seq(S)
  BY <1>4, <1>5, <1>6
<1> DEFINE h == [k \in 0 .. m + n |-> IF k <= m THEN f[k] ELSE f[m] \o g[k - m]]
<1>10. ASSUME NEW k \in 0 .. m + n PROVE h[k] \in Seq(S)
  <2>1. CASE k <= m
    BY <1>4, <1>5, <2>1
  <2>2. CASE k > m
    <3>1. k - m \in 0 .. n
      BY <1>4, <2>2
    <3>2. f[m] \o g[k - m] \in Seq(S)
      BY <1>9, <3>1
    <3>3. ~(k <= m)
      BY <1>4, <2>2
    <3> QED BY <3>2, <3>3
  <2> QED BY <1>4, <2>1, <2>2
<1>11. h \in [0 .. m + n -> Seq(S)]
  BY <1>10
<1>12. h[0] = <<>>
  BY <1>4, <1>5
<1>13. \A k \in 0 .. n : h[m + k] = f[m] \o g[k]
  <2> SUFFICES ASSUME NEW k \in 0 .. n PROVE h[m + k] = f[m] \o g[k]
    OBVIOUS
  <2>1. m + k \in 0 .. m + n /\ (m + k <= m <=> k = 0) /\ (m + k) - m = k
    BY <1>4
  <2>2. f[m] \o <<>> = f[m]
    BY <1>9
  <2>3. CASE k = 0
    <3>1. m + k = m /\ g[k] = <<>>
      BY <1>4, <1>6, <2>3
    <3> QED BY <1>4, <2>1, <2>2, <3>1
  <2>4. CASE k # 0
    BY <2>1, <2>4
  <2> QED BY <2>3, <2>4
<1>14. \A k \in 0 .. m : h[k] = f[k]
  BY <1>4
<1> HIDE DEF h
<1>15. ASSUME NEW k \in 1 .. m + n PROVE h[k] = h[k - 1] \o uu[k]
  <2>1. CASE k <= m
    <3>1. k \in 1 .. m /\ k - 1 \in 0 .. m /\ k \in 0 .. m
      BY <1>4, <2>1
    <3> QED BY <1>5, <1>8, <1>14, <3>1
  <2>2. CASE k > m
    <3>1. PICK j : j = k - m
      OBVIOUS
    <3>2. j \in 1 .. n /\ j \in 0 .. n /\ j - 1 \in 0 .. n /\ k = m + j /\ k - 1 = m + (j - 1)
      BY <1>4, <2>2, <3>1
    <3>3. PICK x, y, z : x = f[m] /\ y = g[j - 1] /\ z = tt[j]
      OBVIOUS
    <3>4. x \in Seq(S) /\ y \in Seq(S) /\ z \in Seq(S)
      BY <1>3, <1>9, <3>2, <3>3
    <3>5. x \o (y \o z) = (x \o y) \o z
      BY <3>4, ConcatAssociative
    <3>6. h[k] = x \o (y \o z)
      <4>1. g[j] = y \o z
        BY <1>6, <3>2, <3>3
      <4> QED BY <1>13, <3>2, <3>3, <4>1
    <3>7. h[k - 1] = x \o y
      BY <1>13, <3>2, <3>3
    <3>8. uu[k] = z
      BY <1>8, <3>2, <3>3
    <3> QED BY <3>5, <3>6, <3>7, <3>8
  <2>3. k <= m \/ k > m
    BY <1>4
  <2> QED BY <2>1, <2>2, <2>3
<1>16. Joins(h, uu, S)
  BY <1>8, <1>11, <1>12, <1>15 DEF Joins
<1>17. FlattenSeq(uu) = h[m + n]
  BY <1>8, <1>16, FlattenJoins
<1>18. FlattenSeq(ss) = f[m] /\ FlattenSeq(tt) = g[n]
  BY <1>1, <1>2, <1>3, FlattenJoins
<1>19. h[m + n] = f[m] \o g[n]
  <2>1. n \in 0 .. n
    BY <1>4
  <2> QED BY <1>13, <2>1
<1> QED BY <1>7, <1>9, <1>17, <1>18, <1>19

(***************************************************************************)
(* One sequence, none, and a first one.                                    *)
(***************************************************************************)
LEMMA FlattenOne ==
  ASSUME NEW S, NEW s \in Seq(S)
  PROVE  FlattenSeq(<<s>>) = s /\ FlattenSeq(<<>>) = <<>>
<1> DEFINE f == [k \in 0 .. 1 |-> IF k = 0 THEN <<>> ELSE s]
<1>1. f \in [0 .. 1 -> Seq(S)] /\ f[0] = <<>> /\ f[1] = s
  OBVIOUS
<1>2. PICK ss : ss = <<s>>
  OBVIOUS
<1>3. ss \in Seq(Seq(S)) /\ Len(ss) = 1 /\ ss[1] = s
  BY <1>2
<1> HIDE DEF f
<1>4. <<>> \o s = s
  OBVIOUS
<1>5. \A k \in 1 .. 1 : f[k] = f[k - 1] \o ss[k]
  <2> SUFFICES ASSUME NEW k \in 1 .. 1 PROVE f[k] = f[k - 1] \o ss[k]
    OBVIOUS
  <2>1. k = 1 /\ k - 1 = 0
    OBVIOUS
  <2> QED BY <1>1, <1>3, <1>4, <2>1
<1>6. Joins(f, ss, S)
  BY <1>1, <1>3, <1>5 DEF Joins
<1>7. FlattenSeq(ss) = s
  BY <1>1, <1>3, <1>6, FlattenJoins
<1>8. FlattenSeq(<<>>) = <<>>
  BY DEF FlattenSeq
<1> QED BY <1>2, <1>7, <1>8

LEMMA FlattenHead ==
  ASSUME NEW S, NEW ss \in Seq(Seq(S)), ss # <<>>
  PROVE  FlattenSeq(ss) = Head(ss) \o FlattenSeq(Tail(ss))
<1>1. PICK s, tt : s = Head(ss) /\ tt = Tail(ss)
  OBVIOUS
<1>2. s \in Seq(S) /\ tt \in Seq(Seq(S)) /\ ss = <<s>> \o tt
  BY <1>1
<1>3. <<s>> \in Seq(Seq(S))
  BY <1>2
<1>4. FlattenSeq(<<s>> \o tt) = FlattenSeq(<<s>>) \o FlattenSeq(tt)
  BY <1>2, <1>3, FlattenConcat
<1> QED BY <1>1, <1>2, <1>4, FlattenOne
-----------------------------------------------------------------------------
(***************************************************************************)
(* The frames that were sent to the reading interface.                     *)
(***************************************************************************)
SentFrames == [f \in 1 .. arrived |-> FrameBytes(f)]

(***************************************************************************)
(* However a frame is cut, its pieces are the frame.                       *)
(***************************************************************************)
LEMMA ChunksJoin ==
  ASSUME NEW bytes \in Seq(Byte)
  PROVE  FlattenSeq(Chunks(bytes)) = bytes
<1> DEFINE l == Len(bytes)
           q == (l + CanData - 1) \div CanData
           end(k) == IF k * CanData < l THEN k * CanData ELSE l
           ends == [k \in 0 .. q |-> end(k)]
<1>1. CanData \in Nat \ {0} /\ l \in Nat
  BY TransferAssumption
<1>2. ASSUME NEW a \in Nat, NEW c \in Nat \ {0} PROVE a \div c \in Nat /\ c * (a \div c) <= a /\ a < c * (a \div c) + c
  BY <1>2
<1>3. l + CanData - 1 \in Nat
  BY <1>1
<1>4. q \in Nat /\ CanData * q <= l + CanData - 1 /\ l + CanData - 1 < CanData * q + CanData
  BY <1>1, <1>2, <1>3
<1>5. Chunks(bytes) = [k \in 1 .. q |-> SubSeq(bytes, (k - 1) * CanData + 1, end(k))]
  BY DEF Chunks
<1>6. Chunks(bytes) \in Seq(Seq(Byte))
  BY ChunkFacts
<1> HIDE DEF q, l
<1>7. ASSUME NEW k \in 0 .. q PROVE k * CanData \in Nat /\ end(k) \in 0 .. l
  BY <1>1, <1>4
<1>8. end(0) = 0
  BY <1>1
<1>9. end(q) = l
  BY <1>1, <1>4
<1>10. ASSUME NEW k \in 1 .. q PROVE end(k - 1) = (k - 1) * CanData /\ end(k - 1) <= end(k)
  <2>1. (k - 1) * CanData + CanData = k * CanData /\ k * CanData <= q * CanData /\ (k - 1) * CanData \in Nat
    BY <1>1, <1>4
  <2>2. q * CanData = CanData * q
    BY <1>1, <1>4
  <2> QED BY <1>1, <1>4, <2>1, <2>2
<1>11. ends \in [0 .. q -> 0 .. l] /\ ends[0] = 0 /\ ends[q] = l
  BY <1>4, <1>7, <1>8, <1>9
<1>12. ASSUME NEW k \in 1 .. q
       PROVE  ends[k - 1] <= ends[k] /\ Chunks(bytes)[k] = SubSeq(bytes, ends[k - 1] + 1, ends[k])
  <2>1. k - 1 \in 0 .. q /\ k \in 0 .. q
    BY <1>4
  <2>2. ends[k - 1] = (k - 1) * CanData /\ ends[k] = end(k)
    BY <1>10, <2>1
  <2>3. ends[k - 1] <= ends[k]
    BY <1>10, <2>1
  <2> QED BY <1>5, <2>2, <2>3
<1>13. Len(Chunks(bytes)) = q
  BY <1>4, <1>5
<1> HIDE DEF ends, end
<1>14. FlattenSeq(Chunks(bytes)) = SubSeq(bytes, 1, ends[q])
  BY <1>4, <1>6, <1>11, <1>12, <1>13, FlattenPieces DEF l
<1> QED BY <1>11, <1>14, SubSeqFull DEF l

(***************************************************************************)
(* Bytes one by one are the bytes.                                         *)
(***************************************************************************)
LEMMA BytesJoin ==
  ASSUME NEW S, NEW bytes \in Seq(S), NEW ss \in Seq(Seq(S)), Len(ss) = Len(bytes),
         \A k \in 1 .. Len(bytes) : ss[k] = <<bytes[k]>>
  PROVE  FlattenSeq(ss) = bytes
<1> DEFINE n == Len(bytes)
           ends == [k \in 0 .. n |-> k]
<1>1. n \in Nat
  OBVIOUS
<1>2. ends \in [0 .. n -> 0 .. n] /\ ends[0] = 0 /\ ends[n] = n
  BY <1>1
<1>3. ASSUME NEW k \in 1 .. n
      PROVE  ends[k - 1] <= ends[k] /\ ss[k] = SubSeq(bytes, ends[k - 1] + 1, ends[k])
  <2>1. k - 1 \in 0 .. n /\ k \in 0 .. n
    BY <1>1
  <2>2. ends[k - 1] = k - 1 /\ ends[k] = k /\ (k - 1) + 1 = k /\ k - 1 <= k
    BY <2>1
  <2>3. SubSeq(bytes, k, k) = <<bytes[k]>>
    <3>1. k \in k .. Len(bytes)
      BY <1>1
    <3>2. SubSeq(bytes, k, k) = <<bytes[k]>> \o SubSeq(bytes, k + 1, k)
      BY <3>1, SubSeqRecursiveFirst
    <3>3. SubSeq(bytes, k + 1, k) = <<>>
      BY SubSeqEmpty
    <3>4. bytes[k] \in S /\ <<bytes[k]>> \o <<>> = <<bytes[k]>>
      OBVIOUS
    <3> QED BY <3>2, <3>3, <3>4
  <2> QED BY <2>2, <2>3
<1> HIDE DEF ends
<1>4. FlattenSeq(ss) = SubSeq(bytes, 1, ends[n])
  BY <1>1, <1>2, <1>3, FlattenPieces
<1> QED BY <1>2, <1>4, SubSeqFull

(***************************************************************************)
(* Bytes, datagrams or can frames.                                         *)
(***************************************************************************)
LEMMA UnitsJoin ==
  ASSUME rxKind \in AllKinds, NEW f \in 1 .. Frames
  PROVE  FlattenSeq(Units(FrameBytes(f))) = FrameBytes(f)
<1>1. PICK bytes : bytes = FrameBytes(f)
  OBVIOUS
<1>2. bytes \in Seq(Byte) /\ Units(bytes) \in Seq(Seq(Byte))
  BY <1>1, FrameFacts, UnitFacts
<1>3. CASE rxKind = "udp"
  <2>1. Units(bytes) = <<bytes>>
    BY <1>3 DEF Units
  <2> QED BY <1>1, <1>2, <2>1, FlattenOne
<1>4. CASE rxKind = "can"
  <2>1. Units(bytes) = Chunks(bytes)
    BY <1>4 DEF Units
  <2> QED BY <1>1, <1>2, <2>1, ChunksJoin
<1>5. CASE rxKind \notin {"udp", "can"}
  <2>1. Units(bytes) = [k \in 1 .. Len(bytes) |-> <<bytes[k]>>]
    BY <1>5 DEF Units
  <2>2. Len(Units(bytes)) = Len(bytes) /\ \A k \in 1 .. Len(bytes) : Units(bytes)[k] = <<bytes[k]>>
    BY <1>2, <2>1
  <2> QED BY <1>1, <1>2, <2>2, BytesJoin
<1> QED BY <1>3, <1>4, <1>5
-----------------------------------------------------------------------------
(***************************************************************************)
(* What the reads keep: nothing is read from a paused interface without    *)
(* being lost, only can and pipe collect, and what was delivered, what is  *)
(* collected and what waits are the frames that were sent.                 *)
(***************************************************************************)
ReadInv ==
  /\ rxPaused => losses > 0
  /\ got # <<>> => rxKind \in {"can", "pipe"}
  /\ ReadsLoseNothing

ReadTypes ==
  /\ inbox \in Seq(Seq(Byte)) /\ got \in Seq(Byte) /\ delivered \in Seq(Byte)
  /\ FlattenSeq(inbox) \in Seq(Byte)

LEMMA ReadTypesHold ==
  ASSUME TransferInv
  PROVE  ReadTypes
<1>1. inbox \in Seq(Seq(Byte)) /\ got \in Seq(Byte) /\ delivered \in Seq(Byte)
  BY DEF TransferInv, TransferTypeOK
<1>2. FlattenSeq(inbox) \in Seq(Byte)
  BY <1>1, FlattenConcat
<1> QED BY <1>1, <1>2 DEF ReadTypes

(***************************************************************************)
(* A call that throws, or that loses bytes, and one that does not touch    *)
(* what is read.                                                           *)
(***************************************************************************)
LEMMA NothingRead ==
  ASSUME ReadInv, UNCHANGED <<rxKind, arrived, delivered>>,
         \/ UNCHANGED reading
         \/ got' = <<>> /\ throws' > 0,
         TransferTypeOK, throws' = throws \/ throws' > 0, losses' = losses \/ losses' > 0, rxPaused' => rxPaused \/ losses' > 0
  PROVE  ReadInv'
<1>1. losses \in Nat /\ throws \in Nat
  BY TransferAssumption DEF TransferTypeOK
<1>2. (rxPaused => losses > 0)'
  BY <1>1 DEF ReadInv
<1>3. (got # <<>> => rxKind \in {"can", "pipe"})'
  BY DEF ReadInv, reading
<1>4. ReadsLoseNothing'
  <2>1. CASE UNCHANGED reading
    BY <1>1, <2>1 DEF ReadInv, ReadsLoseNothing, reading
  <2>2. CASE throws' > 0
    BY <2>2 DEF ReadsLoseNothing
  <2> QED BY <2>1, <2>2
<1> QED BY <1>2, <1>3, <1>4 DEF ReadInv

(***************************************************************************)
(* A read that returns hands on what it took from the front of the inbox.  *)
(***************************************************************************)
LEMMA ReadReturns ==
  ASSUME ReadInv, ReadTypes, NEW bytes \in Seq(Byte), ReadWrapper(bytes), losses' = losses,
         FlattenSeq(inbox') \in Seq(Byte),
         got \o FlattenSeq(inbox) = bytes \o FlattenSeq(inbox')
  PROVE  ReadInv'
<1>1. /\ rxKind' = rxKind /\ rxPaused' = rxPaused /\ arrived' = arrived /\ throws' = throws /\ got' = <<>>
      /\ delivered' = delivered \o (IF rxPaused THEN <<>> ELSE bytes)
  BY DEF ReadWrapper, kinds, pauses
<1>2. ASSUME throws = 0, losses = 0
      PROVE  delivered' \o got' \o FlattenSeq(inbox') = delivered \o got \o FlattenSeq(inbox)
  <2>1. delivered' = delivered \o bytes
    BY <1>1, <1>2 DEF ReadInv
  <2>2. PICK d, g, i, j : d = delivered /\ g = got /\ i = FlattenSeq(inbox) /\ j = FlattenSeq(inbox')
    OBVIOUS
  <2>3. d \in Seq(Byte) /\ g \in Seq(Byte) /\ i \in Seq(Byte) /\ j \in Seq(Byte)
    BY <2>2 DEF ReadTypes
  <2>4. (d \o bytes) \o <<>> = d \o bytes
    BY <2>3
  <2>5. (d \o bytes) \o j = d \o (bytes \o j)
    BY <2>3, ConcatAssociative
  <2>6. (d \o g) \o i = d \o (g \o i)
    BY <2>3, ConcatAssociative
  <2>7. g \o i = bytes \o j
    BY <2>2
  <2> QED BY <1>1, <2>1, <2>2, <2>4, <2>5, <2>6, <2>7
<1>3. ReadsLoseNothing'
  BY <1>1, <1>2 DEF ReadsLoseNothing, ReadInv
<1> QED BY <1>1, <1>3 DEF ReadInv

(***************************************************************************)
(* A read takes bytes from the front of what waits; lost is what it takes  *)
(* and does not hand on.                                                   *)
(***************************************************************************)
Takes(bytes, lost) ==
  /\ ReadWrapper(bytes)
  /\ FlattenSeq(inbox') \in Seq(Byte)
  /\ FlattenSeq(inbox) = bytes \o (lost \o FlattenSeq(inbox'))

LEMMA TakesAll ==
  ASSUME NEW bytes \in Seq(Byte), ReadWrapper(bytes), FlattenSeq(inbox') \in Seq(Byte),
         FlattenSeq(inbox) = bytes \o FlattenSeq(inbox')
  PROVE  Takes(bytes, <<>>)
<1>1. <<>> \o FlattenSeq(inbox') = FlattenSeq(inbox')
  OBVIOUS
<1> QED BY <1>1 DEF Takes

LEMMA StreamTakes ==
  ASSUME TransferInv, NEW n \in 0 .. RxBufferSize, ReadStream(n)
  PROVE  \E bytes \in Seq(Byte) : Takes(bytes, <<>>)
<1>1. /\ rxKind \in {"stream", "pty", "tcp"} /\ n <= Len(inbox)
      /\ inbox' = SubSeq(inbox, n + 1, Len(inbox)) /\ ReadWrapper([k \in 1 .. n |-> inbox[k][1]])
      /\ losses' = losses
  BY DEF ReadStream
<1>2. PICK s, bytes : s = inbox /\ bytes = [k \in 1 .. n |-> inbox[k][1]]
  OBVIOUS
<1>3. s \in Seq(Seq(Byte)) /\ ReadTypes
  BY <1>2, ReadTypesHold DEF ReadTypes
<1>4. \A k \in 1 .. Len(s) : Len(s[k]) = 1
  BY <1>1, <1>2 DEF TransferInv, UnitsFit, UnitFits
<1>5. n \in 0 .. Len(s) /\ Len(s) \in Nat
  BY <1>1, <1>2, <1>3, TransferAssumption
<1>6. ASSUME NEW k \in 1 .. n PROVE s[k][1] \in Byte /\ s[k] = <<s[k][1]>>
  <2>1. s[k] \in Seq(Byte) /\ Len(s[k]) = 1
    BY <1>3, <1>4, <1>5
  <2> QED BY <2>1
<1> DEFINE first(k) == s[k][1]
<1>7. \A k \in 1 .. n : first(k) \in Byte /\ s[k] = <<first(k)>>
  BY <1>6
<1>8. bytes = [k \in 1 .. n |-> first(k)]
  BY <1>2
<1> HIDE DEF first
<1>9. bytes \in Seq(Byte) /\ Len(bytes) = n /\ \A k \in 1 .. n : bytes[k] = first(k)
  BY <1>5, <1>7, <1>8
<1>10. PICK t, u : t = SubSeq(s, 1, n) /\ u = SubSeq(s, n + 1, Len(s))
  OBVIOUS
<1>11. t \in Seq(Seq(Byte)) /\ Len(t) = n /\ \A k \in 1 .. n : t[k] = s[k]
  <2>1. n \in Int /\ 1 \in Int /\ \A i \in 1 .. n : s[i] \in Seq(Byte)
    BY <1>3, <1>5
  <2>2. /\ t \in Seq(Seq(Byte)) /\ Len(t) = (IF 1 <= n THEN n - 1 + 1 ELSE 0)
        /\ \A k \in 1 .. n - 1 + 1 : t[k] = s[1 + k - 1]
    BY <1>10, <2>1, SubSeqProperties
  <2> QED BY <1>5, <2>2
<1>12. u \in Seq(Seq(Byte))
  <2>1. n + 1 \in Int /\ Len(s) \in Int /\ \A i \in n + 1 .. Len(s) : s[i] \in Seq(Byte)
    BY <1>3, <1>5
  <2> QED BY <1>10, <2>1, SubSeqProperties
<1>13. t \o u = s
  <2>1. 1 \in 1 .. Len(s) + 1 /\ n \in 1 - 1 .. Len(s) /\ Len(s) \in n .. Len(s)
    BY <1>5
  <2>2. t \o u = SubSeq(s, 1, Len(s))
    BY <1>3, <1>10, <2>1, ConcatAdjacentSubSeq
  <2> QED BY <1>3, <2>2, SubSeqFull
<1>14. FlattenSeq(t) = bytes
  <2>1. \A k \in 1 .. Len(bytes) : t[k] = <<bytes[k]>>
    BY <1>7, <1>9, <1>11
  <2> QED BY <1>9, <1>11, <2>1, BytesJoin
<1>15. FlattenSeq(s) = bytes \o FlattenSeq(u) /\ FlattenSeq(u) \in Seq(Byte)
  BY <1>11, <1>12, <1>13, <1>14, FlattenConcat
<1>16. inbox' = u
  BY <1>1, <1>2, <1>10
<1>17. ReadWrapper(bytes) /\ FlattenSeq(inbox') \in Seq(Byte)
       /\ FlattenSeq(inbox) = bytes \o FlattenSeq(inbox')
  BY <1>1, <1>2, <1>15, <1>16
<1> QED BY <1>9, <1>17, TakesAll

(***************************************************************************)
(* The default of NDLCOM_BRIDGE_TEMPORARY_RXBUFFER_SIZE is the size of the *)
(* longest encoded message (Bridge.c:16), so a datagram is read as a whole.*)
(* A smaller one, set at compile time, truncates it.                       *)
(***************************************************************************)
FrameFitsBuffer == FrameLength <= RxBufferSize \/ "udp" \notin Kinds

LEMMA UdpTakes ==
  ASSUME TransferInv, ReadUdp
  PROVE  \E bytes \in Seq(Byte), lost \in Seq(Byte) : Takes(bytes, lost) /\ (FrameFitsBuffer => lost = <<>>)
<1>1. rxKind = "udp" /\ rxKind \in Kinds /\ ReadTypes
  BY ReadTypesHold DEF ReadUdp, TransferInv, TransferTypeOK
<1>2. CASE inbox = <<>>
  <2>1. ReadWrapper(<<>>) /\ inbox' = inbox
    BY <1>2 DEF ReadUdp
  <2>2. <<>> \in Seq(Byte) /\ FlattenSeq(inbox') \in Seq(Byte)
    BY <1>1, <2>1 DEF ReadTypes
  <2>3. FlattenSeq(inbox) = <<>> \o FlattenSeq(inbox')
    BY <2>1, <2>2
  <2>4. Takes(<<>>, <<>>)
    BY <2>1, <2>2, <2>3, TakesAll
  <2> QED BY <2>2, <2>4
<1>3. CASE inbox # <<>>
  <2>1. PICK h, r, n : h = Head(inbox) /\ r = Tail(inbox) /\ n = IF Len(h) < RxBufferSize THEN Len(h) ELSE RxBufferSize
    OBVIOUS
  <2>2. ReadWrapper(SubSeq(h, 1, n)) /\ inbox' = r /\ rxKind' = rxKind
    BY <1>3, <2>1 DEF ReadUdp, ReadWrapper, kinds
  <2>3. h \in Seq(Byte) /\ Len(h) = FrameLength /\ Len(h) \in Nat /\ r \in Seq(Seq(Byte))
    BY <1>1, <1>3, <2>1, <2>2, TakenFacts DEF UnitFits
  <2>4. n \in 0 .. Len(h) /\ RxBufferSize \in Nat /\ (FrameLength <= RxBufferSize => n = Len(h))
    BY <2>1, <2>3, TransferAssumption
  <2>5. PICK bytes, lost, rest : bytes = SubSeq(h, 1, n) /\ lost = SubSeq(h, n + 1, Len(h)) /\ rest = FlattenSeq(r)
    OBVIOUS
  <2>6. bytes \in Seq(Byte)
    <3>1. \A i \in 1 .. n : h[i] \in Byte
      BY <2>3, <2>4
    <3> QED BY <2>4, <2>5, <3>1, SubSeqProperties
  <2>7. lost \in Seq(Byte)
    <3>1. \A i \in n + 1 .. Len(h) : h[i] \in Byte
      BY <2>3, <2>4
    <3>2. n + 1 \in Int /\ Len(h) \in Int
      BY <2>3, <2>4
    <3> QED BY <2>5, <3>1, <3>2, SubSeqProperties
  <2>8. bytes \o lost = h
    <3>1. 1 \in 1 .. Len(h) + 1 /\ n \in 1 - 1 .. Len(h) /\ Len(h) \in n .. Len(h)
      BY <2>3, <2>4
    <3>2. bytes \o lost = SubSeq(h, 1, Len(h))
      BY <2>3, <2>5, <3>1, ConcatAdjacentSubSeq
    <3> QED BY <2>3, <3>2, SubSeqFull
  <2>9. FlattenSeq(inbox) = h \o rest /\ rest \in Seq(Byte)
    BY <1>1, <1>3, <2>1, <2>3, <2>5, FlattenHead, FlattenConcat DEF ReadTypes
  <2>10. (bytes \o lost) \o rest = bytes \o (lost \o rest)
    <3>1. rest \in Seq(Byte)
      BY <2>9
    <3> QED BY <2>6, <2>7, <3>1, ConcatAssociative
  <2>11. Takes(bytes, lost)
    BY <2>2, <2>5, <2>8, <2>9, <2>10 DEF Takes
  <2>12. FrameFitsBuffer => lost = <<>>
    <3> SUFFICES ASSUME FrameFitsBuffer PROVE lost = <<>>
      OBVIOUS
    <3>1. n + 1 > Len(h) /\ n + 1 \in Int /\ Len(h) \in Int
      BY <1>1, <2>3, <2>4 DEF FrameFitsBuffer
    <3> QED BY <2>5, <3>1, SubSeqEmpty
  <2> QED BY <2>6, <2>7, <2>11, <2>12
<1> QED BY <1>2, <1>3

LEMMA StreamReads ==
  ASSUME FrameFitsBuffer, ReadInv, TransferInv, ReadUdp \/ \E n \in 0 .. RxBufferSize : ReadStream(n)
  PROVE  ReadInv'
<1>1. PICK bytes \in Seq(Byte) : Takes(bytes, <<>>)
  BY StreamTakes, UdpTakes
<1>2. ReadTypes /\ got = <<>> /\ losses' = losses
  BY ReadTypesHold DEF ReadInv, ReadStream, ReadUdp
<1>3. ReadWrapper(bytes) /\ FlattenSeq(inbox') \in Seq(Byte)
  BY <1>1 DEF Takes
<1>4. <<>> \o FlattenSeq(inbox) = FlattenSeq(inbox) /\ <<>> \o FlattenSeq(inbox') = FlattenSeq(inbox')
  BY <1>2, <1>3 DEF ReadTypes
<1>5. got \o FlattenSeq(inbox) = bytes \o FlattenSeq(inbox')
  BY <1>1, <1>2, <1>4 DEF Takes
<1> QED BY <1>2, <1>3, <1>5, ReadReturns

(***************************************************************************)
(* The loops of can and pipe: what moves from the inbox to got stays in    *)
(* its place, and all of it is handed on.                                  *)
(***************************************************************************)
LEMMA CollectingReads ==
  ASSUME ReadInv, TransferInv, ReadCan \/ ReadPipe
  PROVE  ReadInv'
<1>1. /\ rxKind \in {"can", "pipe"} /\ inbox # <<>> /\ inbox' = Tail(inbox) /\ got' = got \o Head(inbox)
      /\ UNCHANGED <<rxKind, rxPaused, arrived, delivered, throws, losses>> /\ ReadTypes
  BY ReadTypesHold DEF ReadCan, ReadPipe, CanCopy, kinds, pauses, history
<1>2. PICK d, g, h, r : d = delivered /\ g = got /\ h = Head(inbox) /\ r = Tail(inbox)
  OBVIOUS
<1>3. d \in Seq(Byte) /\ g \in Seq(Byte) /\ h \in Seq(Byte) /\ r \in Seq(Seq(Byte))
  BY <1>1, <1>2, TailFacts DEF ReadTypes
<1>4. PICK x : x = FlattenSeq(r)
  OBVIOUS
<1>5. FlattenSeq(inbox) = h \o x /\ x \in Seq(Byte)
  BY <1>1, <1>2, <1>3, <1>4, FlattenHead, FlattenConcat DEF ReadTypes
<1>6. (d \o (g \o h)) \o x = (d \o g) \o (h \o x)
  <2>1. PICK gh, hx : gh = g \o h /\ hx = h \o x
    OBVIOUS
  <2>2. gh \in Seq(Byte) /\ hx \in Seq(Byte)
    BY <1>3, <1>5, <2>1
  <2>3. (d \o gh) \o x = d \o (gh \o x)
    <3>1. x \in Seq(Byte)
      BY <1>5
    <3> QED BY <1>3, <2>2, <3>1, ConcatAssociative
  <2>4. gh \o x = g \o hx
    BY <1>3, <1>5, <2>1, ConcatAssociative
  <2>5. (d \o g) \o hx = d \o (g \o hx)
    BY <1>3, <2>2, ConcatAssociative
  <2> QED BY <2>1, <2>3, <2>4, <2>5
<1>7. delivered' \o got' \o FlattenSeq(inbox') = delivered \o got \o FlattenSeq(inbox)
  BY <1>1, <1>2, <1>4, <1>5, <1>6
<1>8. ReadsLoseNothing'
  BY <1>1, <1>7 DEF ReadsLoseNothing, ReadInv
<1> QED BY <1>1, <1>8 DEF ReadInv

LEMMA CollectedReads ==
  ASSUME ReadInv, TransferInv, ReadCollected
  PROVE  ReadInv'
<1>1. ReadWrapper(got) /\ inbox' = inbox /\ losses' = losses /\ ReadTypes
  BY ReadTypesHold DEF ReadCollected
<1> QED BY <1>1, ReadReturns DEF ReadTypes

(***************************************************************************)
(* A number that is cut in a pipe counts as a loss.                        *)
(***************************************************************************)
LEMMA CutReads ==
  ASSUME ReadInv, TransferInv, ReadPipeCut
  PROVE  ReadInv'
<1>1. losses \in Nat /\ losses' = losses + 1 /\ got' = <<>>
  BY TransferAssumption DEF ReadPipeCut, ReadWrapper, TransferInv, TransferTypeOK
<1>2. losses' > 0
  BY <1>1
<1> QED BY <1>1, <1>2 DEF ReadInv, ReadsLoseNothing

(***************************************************************************)
(* A frame that is sent comes behind what waits.                           *)
(***************************************************************************)
LEMMA ArriveReads ==
  ASSUME ReadInv, TransferInv, Arrive
  PROVE  ReadInv'
<1>1. /\ arrived < Frames /\ arrived' = arrived + 1 /\ inbox' = inbox \o Units(FrameBytes(arrived + 1))
      /\ UNCHANGED <<rxKind, rxPaused, got, delivered, throws, losses>> /\ ReadTypes
  BY ReadTypesHold DEF Arrive, kinds, pauses, history
<1>2. rxKind \in AllKinds /\ arrived \in 0 .. Frames /\ Frames \in Nat
  BY TransferAssumption DEF TransferInv, TransferTypeOK
<1>3. PICK n, bytes, units : n = arrived + 1 /\ bytes = FrameBytes(n) /\ units = Units(bytes)
  OBVIOUS
<1>4. n \in 1 .. Frames
  BY <1>1, <1>2, <1>3
<1>5. bytes \in Seq(Byte) /\ units \in Seq(Seq(Byte)) /\ FlattenSeq(units) = bytes
  BY <1>2, <1>3, <1>4, FrameFacts, UnitFacts, UnitsJoin
<1>6. FlattenSeq(inbox') = FlattenSeq(inbox) \o bytes
  BY <1>1, <1>3, <1>5, FlattenConcat DEF ReadTypes
<1>7. PICK sf : sf = SentFrames
  OBVIOUS
<1>8. sf \in Seq(Seq(Byte)) /\ SentFrames' = sf \o <<bytes>>
  <2>1. \A f \in 1 .. arrived + 1 : FrameBytes(f) \in Seq(Byte)
    BY <1>1, <1>2, FrameFacts
  <2> DEFINE frame(f) == FrameBytes(f)
  <2>2. SentFrames = [f \in 1 .. arrived |-> frame(f)] /\ SentFrames' = [f \in 1 .. arrived + 1 |-> frame(f)]
    BY <1>1 DEF SentFrames
  <2>3. \A f \in 1 .. arrived + 1 : frame(f) \in Seq(Byte)
    BY <2>1
  <2>4. frame(arrived + 1) = bytes /\ arrived \in Nat
    BY <1>2, <1>3
  <2> HIDE DEF frame
  <2>5. sf \in Seq(Seq(Byte)) /\ Len(sf) = arrived /\ \A f \in 1 .. arrived : sf[f] = frame(f)
    BY <1>7, <2>2, <2>3, <2>4
  <2>6. PICK st : st = SentFrames'
    OBVIOUS
  <2>7. st \in Seq(Seq(Byte)) /\ Len(st) = arrived + 1 /\ \A f \in 1 .. arrived + 1 : st[f] = frame(f)
    BY <2>2, <2>3, <2>4, <2>6
  <2>8. <<bytes>> \in Seq(Seq(Byte)) /\ Len(<<bytes>>) = 1 /\ <<bytes>>[1] = bytes
    BY <1>5
  <2>9. PICK app : app = sf \o <<bytes>>
    OBVIOUS
  <2>10. /\ app \in Seq(Seq(Byte)) /\ Len(app) = arrived + 1
         /\ \A f \in 1 .. arrived : app[f] = frame(f)
         /\ app[arrived + 1] = bytes
    <3>1. PICK one : one = <<bytes>>
      OBVIOUS
    <3>2. one \in Seq(Seq(Byte)) /\ Len(one) = 1 /\ one[1] = bytes /\ 1 \in 1 .. Len(one)
      BY <2>8, <3>1
    <3>3. /\ sf \o one \in Seq(Seq(Byte)) /\ Len(sf \o one) = Len(sf) + Len(one)
          /\ \A f \in 1 .. Len(sf) : (sf \o one)[f] = sf[f]
          /\ \A f \in 1 .. Len(one) : (sf \o one)[Len(sf) + f] = one[f]
      <4>1. sf \in Seq(Seq(Byte)) /\ one \in Seq(Seq(Byte))
        BY <2>5, <3>2
      <4> QED BY <4>1, ConcatFacts
    <3> QED BY <2>5, <2>9, <3>1, <3>2, <3>3
  <2>11. \A f \in 1 .. Len(st) : st[f] = app[f]
    <3> SUFFICES ASSUME NEW f \in 1 .. arrived + 1 PROVE st[f] = app[f]
      BY <2>7
    <3>1. f \in 1 .. arrived \/ f = arrived + 1
      BY <2>4
    <3> QED BY <2>4, <2>7, <2>10, <3>1
  <2>12. st = app
    BY <2>7, <2>10, <2>11, SeqEqual
  <2> QED BY <2>5, <2>6, <2>9, <2>12
<1>9. FlattenSeq(SentFrames') = FlattenSeq(sf) \o bytes
  <2>1. PICK one : one = <<bytes>>
    OBVIOUS
  <2>2. one \in Seq(Seq(Byte)) /\ FlattenSeq(one) = bytes
    BY <1>5, <2>1, FlattenOne
  <2>3. FlattenSeq(sf \o one) = FlattenSeq(sf) \o FlattenSeq(one)
    BY <1>8, <2>2, FlattenConcat
  <2> QED BY <1>8, <2>1, <2>2, <2>3
<1>10. ASSUME throws = 0, losses = 0
       PROVE  delivered' \o got' \o FlattenSeq(inbox') = FlattenSeq(SentFrames')
  <2>1. PICK dg, x : dg = delivered \o got /\ x = FlattenSeq(inbox)
    OBVIOUS
  <2>2. dg \in Seq(Byte) /\ x \in Seq(Byte)
    <3>1. delivered \in Seq(Byte) /\ got \in Seq(Byte) /\ FlattenSeq(inbox) \in Seq(Byte)
      BY <1>1 DEF ReadTypes
    <3> QED BY <2>1, <3>1
  <2>3. dg \o x = FlattenSeq(sf)
    BY <1>7, <1>10, <2>1 DEF ReadInv, ReadsLoseNothing, SentFrames
  <2>4. dg \o (x \o bytes) = (dg \o x) \o bytes
    BY <1>5, <2>2, ConcatAssociative
  <2> QED BY <1>1, <1>6, <1>9, <2>1, <2>3, <2>4
<1>11. ReadsLoseNothing'
  BY <1>1, <1>10 DEF ReadsLoseNothing, SentFrames
<1> QED BY <1>1, <1>11 DEF ReadInv

LEMMA StepRead ==
  ASSUME FrameFitsBuffer, TransferInv, ReadInv, [Next]_vars
  PROVE  ReadInv'
<1>t. TransferTypeOK /\ throws \in Nat /\ losses \in Nat
  BY TransferAssumption DEF TransferInv, TransferTypeOK
<1>1. CASE Arrive
  BY <1>1, ArriveReads
<1>2. CASE Read \/ ReadPipeCut
  BY <1>2, StreamReads, CollectingReads, CollectedReads, CutReads DEF Read
<1>3. CASE Process \/ ParseByte \/ ParseKept \/ Resume \/ UNCHANGED vars
  BY <1>t, <1>3, NothingRead DEF Process, ParseByte, ParseKept, Resume, kinds, pauses, history, vars
<1>4. CASE ReadFails \/ WriteFails
  <2>1. UNCHANGED <<rxKind, rxPaused, arrived, delivered, losses>> /\ got' = <<>> /\ throws' = throws + 1
    BY <1>4 DEF ReadFails, WriteFails, Throw, kinds, pauses, history
  <2>2. throws' > 0
    BY <1>t, <2>1
  <2> QED BY <1>t, <2>1, <2>2, NothingRead
<1>5. CASE Pause \/ WriteUdpPipe
  <2>1. UNCHANGED <<rxKind, arrived, delivered, throws, reading>> /\ losses' = losses + 1
    BY <1>5 DEF Pause, WriteUdpPipe, kinds, history
  <2>2. losses' > 0
    BY <1>t, <2>1
  <2> QED BY <1>t, <2>1, <2>2, NothingRead
<1>6. CASE Write
  <2>1. UNCHANGED <<rxKind, rxPaused, arrived, delivered, throws, reading>> /\ (losses' = losses \/ losses' = losses + 1)
    BY <1>6 DEF Write, WritePaused, WriteStream, WriteSocket, WriteCan, WriteSome, kinds, pauses, history
  <2>2. losses' = losses \/ losses' > 0
    BY <1>t, <2>1
  <2> QED BY <1>t, <2>1, <2>2, NothingRead
<1> QED BY <1>1, <1>2, <1>3, <1>4, <1>5, <1>6 DEF Next

LEMMA InitRead == Init => ReadInv
<1> SUFFICES ASSUME Init PROVE ReadInv
  OBVIOUS
<1>1. delivered = <<>> /\ got = <<>> /\ inbox = <<>> /\ arrived = 0 /\ rxPaused = FALSE
  BY DEF Init
<1>2. <<>> \in Seq(Byte) /\ <<>> \o <<>> = <<>>
  OBVIOUS
<1>4. FlattenSeq(<<>>) = <<>>
  BY <1>2, FlattenOne
<1>3. [f \in 1 .. arrived |-> FrameBytes(f)] = <<>>
  BY <1>1
<1> QED BY <1>1, <1>2, <1>3, <1>4 DEF ReadInv, ReadsLoseNothing

(***************************************************************************)
(* Reads lose nothing, for any kinds, frames and buffers in which a        *)
(* datagram fits, and however the calls cut what arrives.                  *)
(***************************************************************************)
THEOREM NothingIsLost == FrameFitsBuffer => (Spec => []ReadsLoseNothing)
<1> SUFFICES ASSUME FrameFitsBuffer PROVE Spec => []ReadsLoseNothing
  OBVIOUS
<1>1. ReadInv => ReadsLoseNothing
  BY DEF ReadInv
<1>2. TransferInv /\ ReadInv /\ [Next]_vars => ReadInv'
  BY StepRead
<1> QED BY <1>1, <1>2, InitInv, InitRead, StepInv, PTL DEF Spec
-----------------------------------------------------------------------------
(***************************************************************************)
(* How often a value is in a sequence.                                     *)
(***************************************************************************)
Count(s, b) == Cardinality({j \in 1 .. Len(s) : s[j] = b})

LEMMA CountFinite ==
  ASSUME NEW S, NEW s \in Seq(S), NEW b
  PROVE  /\ IsFiniteSet({j \in 1 .. Len(s) : s[j] = b}) /\ Count(s, b) \in Nat
<1> DEFINE T == {j \in 1 .. Len(s) : s[j] = b}
<1>1. Len(s) \in Nat
  OBVIOUS
<1>2. IsFiniteSet(1 .. Len(s)) /\ T \in SUBSET (1 .. Len(s))
  BY <1>1, FS_Interval
<1>3. IsFiniteSet(T)
  BY <1>2, FS_Subset
<1>4. Cardinality(T) \in Nat
  BY <1>3, FS_CardinalityType
<1> QED BY <1>3, <1>4 DEF Count

LEMMA CountNone ==
  ASSUME NEW S, NEW s \in Seq(S), NEW b, \A j \in 1 .. Len(s) : s[j] # b
  PROVE  Count(s, b) = 0
<1>1. {j \in 1 .. Len(s) : s[j] = b} = {}
  OBVIOUS
<1> QED BY <1>1, FS_EmptySet DEF Count

LEMMA CountSingle ==
  ASSUME NEW S, NEW s \in Seq(S), NEW b, NEW i \in 1 .. Len(s),
         \A j \in 1 .. Len(s) : s[j] = b <=> j = i
  PROVE  Count(s, b) = 1
<1>1. {j \in 1 .. Len(s) : s[j] = b} = {i}
  OBVIOUS
<1> QED BY <1>1, FS_Singleton DEF Count

(***************************************************************************)
(* One more byte at the end counts when it is the one.                     *)
(***************************************************************************)
LEMMA CountAppend ==
  ASSUME NEW S, NEW s \in Seq(S), NEW d \in S, NEW b
  PROVE  Count(Append(s, d), b) = Count(s, b) + (IF d = b THEN 1 ELSE 0)
<1> DEFINE t == Append(s, d)
           A == {j \in 1 .. Len(s) : s[j] = b}
           B == {j \in 1 .. Len(t) : t[j] = b}
           n == Len(s)
<1>1. t \in Seq(S) /\ Len(t) = n + 1 /\ n \in Nat /\ (\A j \in 1 .. n : t[j] = s[j]) /\ t[n + 1] = d
  BY AppendProperties
<1>2. IsFiniteSet(A) /\ Cardinality(A) \in Nat
  BY CountFinite DEF Count
<1>3. n + 1 \notin A
  BY <1>1
<1> HIDE DEF t, n
<1>4. CASE d = b
  <2>1. B = A \cup {n + 1}
    BY <1>1, <1>4 DEF n
  <2> HIDE DEF A, B
  <2>2. Cardinality(B) = Cardinality(A) + 1
    BY <1>2, <1>3, <2>1, FS_AddElement
  <2> QED BY <1>4, <2>2 DEF Count, A, B, t
<1>5. CASE d # b
  <2>1. B = A
    BY <1>1, <1>5 DEF n
  <2> HIDE DEF A, B
  <2>2. Cardinality(B) = Cardinality(A) + 0
    BY <1>2, <2>1
  <2> QED BY <1>5, <2>2 DEF Count, A, B, t
<1> QED BY <1>4, <1>5

(***************************************************************************)
(* Sequences one after the other: along the second, byte by byte.          *)
(***************************************************************************)
LEMMA CountConcat ==
  ASSUME NEW S, NEW s \in Seq(S), NEW t \in Seq(S), NEW b
  PROVE  Count(s \o t, b) = Count(s, b) + Count(t, b)
<1> DEFINE p(k) == SubSeq(t, 1, k)
           T == {k \in Nat : k <= Len(t) => Count(s \o p(k), b) = Count(s, b) + Count(p(k), b)}
<1>1. 0 \in T
  <2>1. p(0) = <<>> /\ s \o <<>> = s
    BY SubSeqEmpty
  <2>2. <<>> \in Seq(S) /\ \A j \in 1 .. Len(<<>>) : <<>>[j] # b
    OBVIOUS
  <2>3. Count(<<>>, b) = 0
    BY <2>2, CountNone
  <2>4. Count(s, b) \in Nat
    BY CountFinite
  <2>5. PICK c : c = Count(s, b)
    OBVIOUS
  <2>6. c = c + 0
    BY <2>4, <2>5
  <2>7. Count(s \o p(0), b) = Count(s, b) + Count(p(0), b)
    BY <2>1, <2>3, <2>5, <2>6
  <2> QED BY <2>7
<1>2. ASSUME NEW k \in Nat, k \in T PROVE k + 1 \in T
  <2> SUFFICES ASSUME k + 1 <= Len(t) PROVE Count(s \o p(k + 1), b) = Count(s, b) + Count(p(k + 1), b)
    OBVIOUS
  <2>1. PICK q, d : q = SubSeq(t, 1, k) /\ d = t[k + 1]
    OBVIOUS
  <2>2. q \in Seq(S) /\ d \in S /\ p(k + 1) = Append(q, d)
    <3>1. k + 1 \in 1 .. Len(t) /\ 1 \in 1 .. Len(t)
      OBVIOUS
    <3>2. k + 1 \in 1 .. Len(t) /\ (k + 1) - 1 = k
      BY <3>1
    <3>3. q \in Seq(S) /\ d \in S
      BY <2>1, <3>1
    <3>4. SubSeq(t, 1, k + 1) = SubSeq(t, 1, (k + 1) - 1) \o <<t[k + 1]>>
      BY <3>1, SubSeqRecursiveSecond
    <3>5. Append(q, d) = q \o <<d>>
      BY <3>3, AppendIsConcat
    <3> QED BY <2>1, <3>2, <3>3, <3>4, <3>5
  <2>3. PICK sq : sq = s \o q
    OBVIOUS
  <2>4. sq \in Seq(S) /\ s \o Append(q, d) = Append(sq, d)
    BY <2>2, <2>3
  <2>5. Count(sq, b) = Count(s, b) + Count(q, b)
    BY <1>2, <2>1, <2>3
  <2>6. PICK one : one = IF d = b THEN 1 ELSE 0
    OBVIOUS
  <2>7. Count(Append(sq, d), b) = Count(sq, b) + one
    BY <2>2, <2>4, <2>6, CountAppend
  <2>8. Count(Append(q, d), b) = Count(q, b) + one
    BY <2>2, <2>6, CountAppend
  <2>9. Count(s, b) \in Nat /\ Count(q, b) \in Nat /\ one \in Nat
    BY <2>2, <2>6, CountFinite
  <2>10. PICK x, y, z : x = Count(s, b) /\ y = Count(q, b) /\ z = Count(sq, b)
    OBVIOUS
  <2>11. z + one = x + (y + one)
    BY <2>5, <2>9, <2>10
  <2> QED BY <2>2, <2>4, <2>7, <2>8, <2>10, <2>11
<1> HIDE DEF T
<1>3. Len(t) \in Nat
  OBVIOUS
<1>4. Len(t) \in T
  BY <1>1, <1>2, <1>3, SetInduction
<1>5. Count(s \o p(Len(t)), b) = Count(s, b) + Count(p(Len(t)), b)
  BY <1>3, <1>4 DEF T
<1> QED BY <1>5, SubSeqFull
-----------------------------------------------------------------------------
(***************************************************************************)
(* The first byte of a frame on the line is a copy of it; the byte behind  *)
(* the flag, while it is not parsed or kept in the parser, will make one.  *)
(***************************************************************************)
At(f, p) == [frame |-> f, place |-> p]
First(f) == At(f, 1)
Second(f) == At(f, 2)

PendingParser(f) == IF alreadyWritten = 0 THEN Count(parser, Second(f)) ELSE 0

PendingInput(f) ==
  Count(block, Second(f)) + (Count(got, Second(f)) + Count(FlattenSeq(inbox), Second(f)))

(***************************************************************************)
(* The copies of a frame that left or may still leave: one, and one more   *)
(* for every exception; one only unless its own write threw; none of a     *)
(* frame that was not sent.                                                *)
(***************************************************************************)
Total(f) == Copies(f) + (PendingParser(f) + PendingInput(f))

Allowed(f) ==
  /\ Total(f) <= 1 + throws
  /\ f \notin torn => Total(f) <= 1
  /\ f > arrived => Total(f) = 0

(***************************************************************************)
(* The inductive invariant.  A write that goes on is one to udp, tcp or    *)
(* can, of a frame that was sent: if it throws, the copy that began and    *)
(* the one that the parser keeps are both counted.                         *)
(***************************************************************************)
CopiesInv ==
  /\ alreadyWritten > 0 => ToSocket /\ TheFrame <= arrived
  /\ \A f \in 1 .. Frames : Allowed(f)

(***************************************************************************)
(* All of these are natural numbers.                                       *)
(***************************************************************************)
LEMMA Counts ==
  ASSUME TransferInv, NEW f
  PROVE  /\ Copies(f) = Count(line, First(f)) /\ Copies(f) \in Nat
         /\ PendingParser(f) \in Nat /\ PendingInput(f) \in Nat /\ Total(f) \in Nat
         /\ Count(parser, Second(f)) \in Nat /\ Count(block, Second(f)) \in Nat
         /\ Count(got, Second(f)) \in Nat /\ Count(FlattenSeq(inbox), Second(f)) \in Nat
<1>1. Copies(f) = Count(line, First(f))
  BY DEF Copies, Count, First, At
<1>2. /\ line \in Seq(Byte) /\ parser \in Seq(Byte) /\ block \in Seq(Byte) /\ got \in Seq(Byte)
      /\ FlattenSeq(inbox) \in Seq(Byte)
  BY ReadTypesHold DEF TransferInv, TransferTypeOK, ReadTypes
<1>3. Count(line, First(f)) \in Nat
  BY <1>2, CountFinite
<1>4. Count(parser, Second(f)) \in Nat
  BY <1>2, CountFinite
<1>5. Count(block, Second(f)) \in Nat
  BY <1>2, CountFinite
<1>6. Count(got, Second(f)) \in Nat
  BY <1>2, CountFinite
<1>7. Count(FlattenSeq(inbox), Second(f)) \in Nat
  BY <1>2, CountFinite
<1>8. PendingParser(f) \in Nat /\ PendingInput(f) \in Nat
  BY <1>4, <1>5, <1>6, <1>7 DEF PendingParser, PendingInput
<1> QED BY <1>1, <1>3, <1>4, <1>5, <1>6, <1>7, <1>8 DEF Total

LEMMA TotalType == TransferInv => \A f \in 1 .. Frames : Total(f) \in Nat
  BY Counts

LEMMA TotalTypeNext == TransferInv' => \A f \in 1 .. Frames : Total(f)' \in Nat
<1>1. TransferInv' => (\A f \in 1 .. Frames : Total(f) \in Nat)'
  BY TotalType, PTL
<1> QED BY <1>1

(***************************************************************************)
(* A step that makes no more of them.                                      *)
(***************************************************************************)
LEMMA NoMoreOfIt ==
  ASSUME TransferInv, TransferInv', NEW f \in 1 .. Frames, Allowed(f), Total(f)' <= Total(f),
         throws' = throws \/ throws' = throws + 1, torn \subseteq torn', arrived' = arrived
  PROVE  Allowed(f)'
<1>1. Total(f) \in Nat
  BY Counts
<1>2. Total(f)' \in Nat
  BY TotalTypeNext
<1>3. throws \in Nat /\ throws' \in Nat
  BY TransferAssumption DEF TransferInv, TransferTypeOK
<1>a. PICK a, b, t : a = Total(f) /\ b = Total(f)' /\ t = throws'
  OBVIOUS
<1>4. a \in Nat /\ b \in Nat /\ b <= a /\ t \in Nat
  BY <1>1, <1>2, <1>3, <1>a
<1>5. a <= 1 + throws /\ (f \notin torn => a <= 1) /\ (f > arrived => a = 0)
  BY <1>a DEF Allowed
<1>6. b <= 1 + t
  <2>1. a <= 1 + throws
    BY <1>5
  <2>2. throws <= t
    BY <1>3, <1>a
  <2> QED BY <1>3, <1>4, <2>1, <2>2
<1>7. f \notin torn' => b <= 1
  <2>1. a <= 1 => b <= 1
    BY <1>4
  <2> QED BY <1>5, <2>1
<1>8. f > arrived' => b = 0
  <2>1. a = 0 => b = 0
    BY <1>4
  <2> QED BY <1>5, <2>1
<1> QED BY <1>6, <1>7, <1>8, <1>a DEF Allowed

(***************************************************************************)
(* Reads take from the front of the inbox, and lose at most something.     *)
(***************************************************************************)
LEMMA WrapperPends ==
  ASSUME TransferInv, at = "read", NEW bytes \in Seq(Byte), ReadWrapper(bytes), NEW f, NEW n \in Nat,
         Count(FlattenSeq(inbox'), Second(f)) = n,
         Count(bytes, Second(f)) + n <= Count(got, Second(f)) + Count(FlattenSeq(inbox), Second(f))
  PROVE  PendingInput(f)' <= PendingInput(f)
<1>1. block = <<>>
  BY DEF TransferInv, CallsInv
<1>2. Count(<<>>, Second(f)) = 0
  <2>1. <<>> \in Seq(Byte) /\ \A j \in 1 .. Len(<<>>) : <<>>[j] # Second(f)
    OBVIOUS
  <2> QED BY <2>1, CountNone
<1>3. Count(bytes, Second(f)) \in Nat
  BY CountFinite
<1>4. got' = <<>> /\ (block' = bytes \/ block' = <<>>)
  BY DEF ReadWrapper
<1>5. Count(block', Second(f)) = Count(bytes, Second(f)) \/ Count(block', Second(f)) = 0
  BY <1>2, <1>4
<1>6. PendingInput(f)' = Count(block', Second(f)) + (0 + n)
  BY <1>2, <1>4 DEF PendingInput, Second
<1>7. PendingInput(f) = 0 + (Count(got, Second(f)) + Count(FlattenSeq(inbox), Second(f)))
  BY <1>1, <1>2 DEF PendingInput
<1>8. Count(got, Second(f)) \in Nat /\ Count(FlattenSeq(inbox), Second(f)) \in Nat
  BY Counts
<1>9. PICK a, b, c, d : /\ a = Count(block', Second(f)) /\ b = Count(bytes, Second(f))
                        /\ c = Count(got, Second(f)) /\ d = Count(FlattenSeq(inbox), Second(f))
  OBVIOUS
<1>10. b \in Nat /\ c \in Nat /\ d \in Nat /\ (a = b \/ a = 0) /\ b + n <= c + d
  BY <1>3, <1>5, <1>8, <1>9
<1>11. a + (0 + n) <= 0 + (c + d)
  BY <1>10
<1> QED BY <1>6, <1>7, <1>9, <1>11

(***************************************************************************)
(* A read that takes from the front of the inbox, and perhaps cuts a       *)
(* datagram, leaves no more pending.                                       *)
(***************************************************************************)
LEMMA TakenPends ==
  ASSUME TransferInv, at = "read", NEW bytes \in Seq(Byte), NEW lost \in Seq(Byte), Takes(bytes, lost), NEW f
  PROVE  PendingInput(f)' <= PendingInput(f)
<1>1. PICK rest : rest = FlattenSeq(inbox')
  OBVIOUS
<1>2. rest \in Seq(Byte) /\ ReadWrapper(bytes) /\ FlattenSeq(inbox) = bytes \o (lost \o rest)
  BY <1>1 DEF Takes
<1>3. PICK cr : cr = lost \o rest
  OBVIOUS
<1>4. cr \in Seq(Byte)
  BY <1>2, <1>3
<1>5. Count(bytes \o cr, Second(f)) = Count(bytes, Second(f)) + Count(cr, Second(f))
  BY <1>4, CountConcat
<1>6. Count(cr, Second(f)) = Count(lost, Second(f)) + Count(rest, Second(f))
  BY <1>2, <1>3, CountConcat
<1>7. Count(bytes, Second(f)) \in Nat /\ Count(lost, Second(f)) \in Nat
  BY CountFinite
<1>8. Count(rest, Second(f)) \in Nat
  BY <1>2, CountFinite
<1>9. Count(got, Second(f)) \in Nat
  BY Counts
<1>10. PICK a, b, c, d, n : /\ a = Count(bytes, Second(f)) /\ b = Count(lost, Second(f)) /\ n = Count(rest, Second(f))
                            /\ c = Count(got, Second(f)) /\ d = Count(FlattenSeq(inbox), Second(f))
  OBVIOUS
<1>11. d = a + (b + n) /\ a \in Nat /\ b \in Nat /\ n \in Nat /\ c \in Nat
  BY <1>2, <1>3, <1>5, <1>6, <1>7, <1>8, <1>9, <1>10
<1>12. a + n <= c + d
  BY <1>11
<1> QED BY <1>1, <1>2, <1>10, <1>11, <1>12, WrapperPends

(***************************************************************************)
(* Collecting moves bytes from the inbox to the buffer.                    *)
(***************************************************************************)
LEMMA CollectedPends ==
  ASSUME TransferInv, ReadCan \/ ReadPipe, NEW f
  PROVE  PendingInput(f)' <= PendingInput(f)
<1>1. inbox # <<>> /\ inbox' = Tail(inbox) /\ got' = got \o Head(inbox) /\ block' = block /\ ReadTypes
  BY ReadTypesHold DEF ReadCan, ReadPipe, CanCopy
<1>2. PICK g, h, r : g = got /\ h = Head(inbox) /\ r = Tail(inbox)
  OBVIOUS
<1>3. g \in Seq(Byte) /\ h \in Seq(Byte) /\ r \in Seq(Seq(Byte))
  BY <1>1, <1>2, TailFacts DEF ReadTypes
<1>4. PICK x : x = FlattenSeq(r)
  OBVIOUS
<1>5. FlattenSeq(inbox) = h \o x /\ x \in Seq(Byte)
  BY <1>1, <1>2, <1>3, <1>4, FlattenHead, FlattenConcat DEF ReadTypes
<1>6. x \in Seq(Byte)
  BY <1>5
<1>7. Count(h \o x, Second(f)) = Count(h, Second(f)) + Count(x, Second(f))
  BY <1>3, <1>6, CountConcat
<1>8. Count(g \o h, Second(f)) = Count(g, Second(f)) + Count(h, Second(f))
  BY <1>3, CountConcat
<1>9. Count(g, Second(f)) \in Nat /\ Count(h, Second(f)) \in Nat
  BY <1>3, CountFinite
<1>10. Count(x, Second(f)) \in Nat
  BY <1>6, CountFinite
<1>11. Count(block, Second(f)) \in Nat
  BY Counts
<1>12. PICK a, b, c, d : /\ a = Count(block, Second(f)) /\ b = Count(g, Second(f))
                         /\ c = Count(h, Second(f)) /\ d = Count(x, Second(f))
  OBVIOUS
<1>13. PendingInput(f) = a + (b + (c + d))
  BY <1>2, <1>5, <1>7, <1>12 DEF PendingInput
<1>14. PendingInput(f)' = a + ((b + c) + d)
  BY <1>1, <1>2, <1>4, <1>8, <1>12 DEF PendingInput, Second
<1>15. a + ((b + c) + d) <= a + (b + (c + d))
  BY <1>9, <1>10, <1>11, <1>12
<1> QED BY <1>13, <1>14, <1>15

(***************************************************************************)
(* A number that is cut in a pipe costs a byte.                            *)
(***************************************************************************)
LEMMA CutPends ==
  ASSUME TransferInv, ReadPipeCut, NEW f
  PROVE  PendingInput(f)' <= PendingInput(f)
<1>1. at = "read" /\ inbox # <<>> /\ inbox' = Tail(inbox) /\ ReadWrapper(Append(got, Garbled)) /\ ReadTypes
  BY ReadTypesHold DEF ReadPipeCut
<1>2. PICK g, h, r : g = got /\ h = Head(inbox) /\ r = Tail(inbox)
  OBVIOUS
<1>3. g \in Seq(Byte) /\ h \in Seq(Byte) /\ r \in Seq(Seq(Byte))
  BY <1>1, <1>2, TailFacts DEF ReadTypes
<1>4. PICK x : x = FlattenSeq(r)
  OBVIOUS
<1>5. FlattenSeq(inbox) = h \o x
  BY <1>1, <1>2, <1>3, <1>4, FlattenHead DEF ReadTypes
<1>6. x \in Seq(Byte)
  BY <1>3, <1>4, FlattenConcat
<1>7. Count(h \o x, Second(f)) = Count(h, Second(f)) + Count(x, Second(f))
  BY <1>3, <1>6, CountConcat
<1>8. Garbled \in Byte /\ Garbled # Second(f)
  BY DEF Garbled, Byte, Second, At
<1>9. PICK bytes : bytes = Append(g, Garbled)
  OBVIOUS
<1>10. bytes \in Seq(Byte)
  BY <1>3, <1>8, <1>9
<1>11. Count(g, Second(f)) \in Nat /\ Count(h, Second(f)) \in Nat
  BY <1>3, CountFinite
<1>12. Count(x, Second(f)) \in Nat
  BY <1>6, CountFinite
<1>13. Count(bytes, Second(f)) = Count(g, Second(f))
  <2>1. Count(bytes, Second(f)) = Count(g, Second(f)) + 0
    BY <1>3, <1>8, <1>9, CountAppend
  <2> QED BY <1>11, <2>1
<1>14. PICK a, b, n : a = Count(g, Second(f)) /\ b = Count(h, Second(f)) /\ n = Count(x, Second(f))
  OBVIOUS
<1>15. a + n <= a + (b + n)
  BY <1>11, <1>12, <1>14
<1>16. Count(bytes, Second(f)) + n <= Count(got, Second(f)) + Count(FlattenSeq(inbox), Second(f))
  BY <1>2, <1>5, <1>7, <1>13, <1>14, <1>15
<1>17. Count(FlattenSeq(inbox'), Second(f)) = n /\ ReadWrapper(bytes)
  BY <1>1, <1>2, <1>4, <1>9, <1>14
<1>18. n \in Nat
  BY <1>12, <1>14
<1> QED BY <1>1, <1>10, <1>16, <1>17, <1>18, WrapperPends

LEMMA ReadsPend ==
  ASSUME TransferInv, Read \/ ReadPipeCut, NEW f
  PROVE  PendingInput(f)' <= PendingInput(f)
<1>1. <<>> \in Seq(Byte)
  OBVIOUS
<1>2. ASSUME NEW n \in 0 .. RxBufferSize, ReadStream(n) PROVE PendingInput(f)' <= PendingInput(f)
  BY <1>1, <1>2, StreamTakes, TakenPends DEF ReadStream
<1>3. CASE ReadUdp
  BY <1>3, UdpTakes, TakenPends DEF ReadUdp
<1>4. CASE ReadCollected
  <2>1. at = "read" /\ ReadWrapper(got) /\ inbox' = inbox
    BY <1>4 DEF ReadCollected
  <2>2. got \in Seq(Byte)
    BY DEF TransferInv, TransferTypeOK
  <2>3. Count(FlattenSeq(inbox), Second(f)) \in Nat /\ Count(got, Second(f)) \in Nat
    BY Counts
  <2>4. PICK n : n = Count(FlattenSeq(inbox), Second(f))
    OBVIOUS
  <2>5. /\ n \in Nat /\ Count(FlattenSeq(inbox'), Second(f)) = n
        /\ Count(got, Second(f)) + n <= Count(got, Second(f)) + Count(FlattenSeq(inbox), Second(f))
    BY <2>1, <2>3, <2>4
  <2> QED BY <2>1, <2>2, <2>5, WrapperPends
<1>5. CASE ReadPipeCut
  BY <1>5, CutPends
<1>6. CASE ReadCan \/ ReadPipe
  BY <1>6, CollectedPends
<1> QED BY <1>2, <1>3, <1>4, <1>5, <1>6 DEF Read
-----------------------------------------------------------------------------
(***************************************************************************)
(* A byte is once in a run of bytes of its frame that passes its place.    *)
(***************************************************************************)
IsRun(s, g, start) == s \in Seq(Byte) /\ \A j \in 1 .. Len(s) : s[j] = At(g, start + j)

InRun(s, start, p) == start < p /\ p <= start + Len(s)

LEMMA CountRun ==
  ASSUME NEW s, NEW g, NEW f, NEW start \in Nat, NEW p \in Nat, IsRun(s, g, start)
  PROVE  Count(s, At(f, p)) = IF f = g /\ InRun(s, start, p) THEN 1 ELSE 0
<1> DEFINE n == Len(s)
<1>1. s \in Seq(Byte) /\ n \in Nat
  BY DEF IsRun
<1>2. \A j \in 1 .. n : s[j] = At(f, p) <=> g = f /\ start + j = p
  <2> SUFFICES ASSUME NEW j \in 1 .. n PROVE s[j] = At(f, p) <=> g = f /\ start + j = p
    OBVIOUS
  <2>1. PICK q : q = start + j
    OBVIOUS
  <2>2. s[j] = At(g, q)
    BY <2>1 DEF IsRun
  <2>3. At(g, q) = At(f, p) <=> g = f /\ q = p
    BY DEF At
  <2> QED BY <2>1, <2>2, <2>3
<1>3. CASE f = g /\ InRun(s, start, p)
  <2>1. PICK i : i = p - start
    OBVIOUS
  <2>2. i \in 1 .. n
    BY <1>1, <1>3, <2>1 DEF InRun
  <2>3. \A j \in 1 .. n : s[j] = At(f, p) <=> j = i
    <3>1. \A j \in 1 .. n : start + j = p <=> j = i
      BY <1>1, <2>1
    <3> QED BY <1>2, <1>3, <3>1
  <2>4. Count(s, At(f, p)) = 1
    BY <1>1, <2>2, <2>3, CountSingle
  <2> QED BY <1>3, <2>4
<1>4. CASE ~(f = g /\ InRun(s, start, p))
  <2>1. \A j \in 1 .. n : start + j = p => InRun(s, start, p)
    BY <1>1 DEF InRun
  <2>2. \A j \in 1 .. n : s[j] # At(f, p)
    BY <1>2, <1>4, <2>1
  <2>3. Count(s, At(f, p)) = 0
    BY <1>1, <2>2, CountNone
  <2> QED BY <1>4, <2>3
<1> QED BY <1>3, <1>4

LEMMA FrameByte ==
  ASSUME NEW f \in 1 .. Frames, NEW j \in 1 .. FrameLength
  PROVE  FrameBytes(f)[j] = At(f, j)
  BY DEF FrameBytes, At

(***************************************************************************)
(* The byte behind the flag is once in a frame, and once in its packet.    *)
(***************************************************************************)
LEMMA FrameCount ==
  ASSUME NEW f \in 1 .. Frames, NEW g \in 1 .. Frames
  PROVE  Count(FrameBytes(g), Second(f)) = IF f = g THEN 1 ELSE 0
<1>1. PICK s : s = FrameBytes(g)
  OBVIOUS
<1>2. s \in Seq(Byte) /\ Len(s) = FrameLength /\ FrameLength \in Nat /\ FrameLength >= 3
  BY <1>1, FrameFacts, TransferAssumption
<1>3. \A j \in 1 .. Len(s) : s[j] = At(g, 0 + j)
  <2> SUFFICES ASSUME NEW j \in 1 .. FrameLength PROVE s[j] = At(g, 0 + j)
    BY <1>2
  <2>1. 0 + j = j
    BY <1>2
  <2> QED BY <1>1, <2>1, FrameByte
<1>4. IsRun(s, g, 0) /\ InRun(s, 0, 2)
  BY <1>2, <1>3 DEF IsRun, InRun
<1>5. Count(s, At(f, 2)) = IF f = g /\ InRun(s, 0, 2) THEN 1 ELSE 0
  BY <1>4, CountRun
<1> QED BY <1>1, <1>4, <1>5 DEF Second

LEMMA PacketCount ==
  ASSUME NEW f \in 1 .. Frames, NEW g \in 1 .. Frames
  PROVE  Count(Packet(g), Second(f)) = IF f = g THEN 1 ELSE 0
<1>1. PICK s, t : s = FrameBytes(g) /\ t = Packet(g)
  OBVIOUS
<1>2. s \in Seq(Byte) /\ Len(s) = FrameLength /\ FrameLength \in Nat /\ FrameLength >= 3
  BY <1>1, FrameFacts, TransferAssumption
<1>3. t = SubSeq(s, 2, FrameLength - 1)
  BY <1>1 DEF Packet
<1>4. /\ t \in Seq(Byte) /\ Len(t) = (IF 2 <= FrameLength - 1 THEN (FrameLength - 1) - 2 + 1 ELSE 0)
      /\ \A j \in 1 .. (FrameLength - 1) - 2 + 1 : t[j] = s[2 + j - 1]
  <2>1. 2 \in Int /\ FrameLength - 1 \in Int /\ \A i \in 2 .. FrameLength - 1 : s[i] \in Byte
    BY <1>2
  <2> QED BY <1>3, <2>1, SubSeqProperties
<1>5. Len(t) = FrameLength - 2
  BY <1>2, <1>4
<1>6. \A j \in 1 .. Len(t) : t[j] = At(g, 1 + j)
  <2> SUFFICES ASSUME NEW j \in 1 .. FrameLength - 2 PROVE t[j] = At(g, 1 + j)
    BY <1>5
  <2>1. j \in 1 .. (FrameLength - 1) - 2 + 1 /\ 2 + j - 1 = 1 + j /\ 1 + j \in 1 .. FrameLength
    BY <1>2
  <2>2. t[j] = s[1 + j]
    BY <1>4, <2>1
  <2> QED BY <1>1, <2>1, <2>2, FrameByte
<1>7. IsRun(t, g, 1) /\ InRun(t, 1, 2)
  BY <1>2, <1>4, <1>5, <1>6 DEF IsRun, InRun
<1>8. Count(t, At(f, 2)) = IF f = g /\ InRun(t, 1, 2) THEN 1 ELSE 0
  BY <1>7, CountRun
<1> QED BY <1>1, <1>7, <1>8 DEF Second

(***************************************************************************)
(* While a message is written, it is the one in the parser.                *)
(***************************************************************************)
LEMMA WritingPends ==
  ASSUME TransferInv, at = "write", NEW f \in 1 .. Frames
  PROVE  /\ TheFrame \in 1 .. Frames
         /\ Count(parser, Second(f)) = IF f = TheFrame THEN 1 ELSE 0
<1>1. \E g \in 1 .. Frames : parser = Packet(g)
  BY DEF TransferInv, CallsInv, HasPacket
<1>2. TheFrame \in 1 .. Frames /\ parser = Packet(TheFrame)
  BY <1>1 DEF TheFrame
<1> QED BY <1>2, PacketCount

(***************************************************************************)
(* What goes to the line was pending in the parser.                        *)
(***************************************************************************)
LEMMA LineTotal ==
  ASSUME TransferInv, NEW f \in 1 .. Frames, NEW sent \in Seq(Byte), line' = line \o sent,
         NEW n \in Nat, Count(sent, First(f)) = n, n <= PendingParser(f), PendingParser(f)' = 0,
         UNCHANGED <<reading, block>>
  PROVE  Total(f)' <= Total(f)
<1>1. line \in Seq(Byte)
  BY DEF TransferInv, TransferTypeOK
<1>2. Copies(f) = Count(line, First(f)) /\ Copies(f)' = Count(line', First(f))
  BY DEF Copies, Count, First, At
<1>3. Count(line', First(f)) = Count(line, First(f)) + n
  BY <1>1, CountConcat
<1>4. PendingInput(f)' = PendingInput(f)
  BY DEF PendingInput, reading, Second
<1>5. Copies(f) \in Nat /\ PendingParser(f) \in Nat /\ PendingInput(f) \in Nat
  BY Counts
<1>6. PICK a, b, c : a = Copies(f) /\ b = PendingParser(f) /\ c = PendingInput(f)
  OBVIOUS
<1>7. Total(f)' = (a + n) + (0 + c) /\ Total(f) = a + (b + c)
  BY <1>2, <1>3, <1>4, <1>6 DEF Total
<1>8. (a + n) + (0 + c) <= a + (b + c)
  BY <1>5, <1>6
<1> QED BY <1>7, <1>8

LEMMA EmptyCount ==
  ASSUME NEW b
  PROVE  Count(<<>>, b) = 0
<1>1. <<>> \in Seq(Byte) /\ \A j \in 1 .. Len(<<>>) : <<>>[j] # b
  OBVIOUS
<1> QED BY <1>1, CountNone

LEMMA ReturnsPend ==
  ASSUME NEW counted, WriteReturns(counted), NEW f
  PROVE  PendingParser(f)' = 0
<1>1. parser' = <<>>
  BY DEF WriteReturns
<1> QED BY <1>1, EmptyCount DEF PendingParser, Second

(***************************************************************************)
(* Writes to udp, tcp and can: the first call sends the first byte.        *)
(***************************************************************************)
LEMMA SocketTotal ==
  ASSUME TransferInv, NEW k \in 0 .. FrameLength, WriteSocket(k) \/ WriteCan, NEW f \in 1 .. Frames
  PROVE  Total(f)' <= Total(f)
<1>1. at = "write" /\ ~txPaused /\ \E n \in 1 .. Left : WriteSome(n)
  BY SocketWrites
<1>2. PICK n \in 1 .. Left : WriteSome(n)
  BY <1>1
<1>3. /\ line' = line \o Sent(n) /\ UNCHANGED <<reading, block>>
  BY <1>2 DEF WriteSome
<1>4. alreadyWritten \in 0 .. FrameLength - 1 /\ FrameLength \in Nat /\ n \in Nat /\ n >= 1
  BY <1>1, TheFrameFacts DEF Left
<1>5. PICK sent : sent = Sent(n)
  OBVIOUS
<1>6. /\ sent \in Seq(Byte) /\ Len(sent) = n
      /\ \A j \in 1 .. Len(sent) : sent[j] = At(TheFrame, alreadyWritten + j)
  BY <1>1, <1>5, SentFacts DEF At
<1>7. Count(sent, First(f)) = IF f = TheFrame /\ alreadyWritten = 0 THEN 1 ELSE 0
  <2>1. alreadyWritten \in Nat /\ IsRun(sent, TheFrame, alreadyWritten)
    BY <1>4, <1>6 DEF IsRun
  <2>2. Count(sent, At(f, 1)) = IF f = TheFrame /\ InRun(sent, alreadyWritten, 1) THEN 1 ELSE 0
    BY <2>1, CountRun
  <2>3. InRun(sent, alreadyWritten, 1) <=> alreadyWritten = 0
    BY <1>4, <1>6 DEF InRun
  <2> QED BY <2>2, <2>3 DEF First
<1>8. PendingParser(f)' = 0
  <2>1. CASE alreadyWritten + n = FrameLength
    BY <1>2, <2>1, ReturnsPend DEF WriteSome
  <2>2. CASE alreadyWritten + n # FrameLength
    <3>1. alreadyWritten' = alreadyWritten + n
      BY <1>2, <2>2 DEF WriteSome
    <3> QED BY <1>4, <3>1 DEF PendingParser
  <2> QED BY <2>1, <2>2
<1>9. PICK c : c = Count(sent, First(f))
  OBVIOUS
<1>10. c \in Nat /\ c <= PendingParser(f)
  <2>1. CASE f = TheFrame /\ alreadyWritten = 0
    <3>1. PendingParser(f) = 1
      BY <1>1, <2>1, WritingPends DEF PendingParser
    <3> QED BY <1>7, <1>9, <3>1
  <2>2. CASE ~(f = TheFrame /\ alreadyWritten = 0)
    <3>1. c = 0
      BY <1>4, <1>7, <1>9, <2>2
    <3>2. PendingParser(f) \in Nat
      BY Counts
    <3> QED BY <3>1, <3>2
  <2> QED BY <2>1, <2>2
<1> QED BY <1>3, <1>5, <1>6, <1>8, <1>9, <1>10, LineTotal

(***************************************************************************)
(* Writes to streams and pipes are over after one call.                    *)
(***************************************************************************)
LEMMA StreamTotal ==
  ASSUME TransferInv, CopiesInv, NEW k \in 0 .. FrameLength, WriteStream(k), NEW f \in 1 .. Frames
  PROVE  Total(f)' <= Total(f)
<1>1. /\ at = "write" /\ txKind \in {"stream", "pty", "pipe"} /\ WriteReturns(FrameLength)
      /\ line' = line \o SubSeq(FrameBytes(TheFrame), 1, k) /\ UNCHANGED <<reading, block>>
  BY DEF WriteStream
<1>2. alreadyWritten = 0
  BY <1>1, TransferAssumption DEF CopiesInv, ToSocket, TransferInv, TransferTypeOK
<1>3. TheFrame \in 1 .. Frames /\ PendingParser(f) = IF f = TheFrame THEN 1 ELSE 0
  BY <1>1, <1>2, WritingPends DEF PendingParser
<1>4. PICK s, sent : s = FrameBytes(TheFrame) /\ sent = SubSeq(s, 1, k)
  OBVIOUS
<1>5. s \in Seq(Byte) /\ Len(s) = FrameLength /\ FrameLength \in Nat /\ k \in Nat /\ k <= FrameLength
  BY <1>3, <1>4, FrameFacts, TransferAssumption
<1>6. sent \in Seq(Byte) /\ Len(sent) = k /\ \A j \in 1 .. k : sent[j] = s[j]
  <2>1. k \in Int /\ 1 \in Int /\ \A i \in 1 .. k : s[i] \in Byte
    BY <1>5
  <2>2. /\ sent \in Seq(Byte) /\ Len(sent) = (IF 1 <= k THEN k - 1 + 1 ELSE 0)
        /\ \A j \in 1 .. k - 1 + 1 : sent[j] = s[1 + j - 1]
    BY <1>4, <2>1, SubSeqProperties
  <2> QED BY <1>5, <2>2
<1>7. \A j \in 1 .. Len(sent) : sent[j] = At(TheFrame, 0 + j)
  <2> SUFFICES ASSUME NEW j \in 1 .. k PROVE sent[j] = At(TheFrame, 0 + j)
    BY <1>6
  <2>1. j \in 1 .. FrameLength /\ 0 + j = j
    BY <1>5
  <2> QED BY <1>3, <1>4, <1>6, <2>1, FrameByte
<1>8. Count(sent, First(f)) = IF f = TheFrame /\ InRun(sent, 0, 1) THEN 1 ELSE 0
  <2>1. IsRun(sent, TheFrame, 0)
    BY <1>6, <1>7 DEF IsRun
  <2> QED BY <2>1, CountRun DEF First
<1>9. PICK c : c = Count(sent, First(f))
  OBVIOUS
<1>10. c \in Nat /\ c <= PendingParser(f)
  BY <1>3, <1>8, <1>9
<1>11. PendingParser(f)' = 0
  BY <1>1, ReturnsPend
<1> QED BY <1>1, <1>4, <1>6, <1>9, <1>10, <1>11, LineTotal

(***************************************************************************)
(* Parsing takes a byte of the block into the parser, or drops what is     *)
(* there.                                                                  *)
(***************************************************************************)
LEMMA ParseTotal ==
  ASSUME TransferInv, ParseByte, NEW f \in 1 .. Frames
  PROVE  Total(f)' <= Total(f)
<1>1. /\ at = "parse" /\ block # <<>> /\ block' = Tail(block) /\ UNCHANGED <<reading, writing>>
      /\ parser' = IF IsFlag(Head(block)) THEN <<>> ELSE Append(parser, Head(block))
  BY DEF ParseByte
<1>2. alreadyWritten = 0 /\ alreadyWritten' = 0 /\ line' = line /\ block \in Seq(Byte) /\ parser \in Seq(Byte)
  BY <1>1 DEF writing, TransferInv, TransferTypeOK, CallsInv
<1>3. PICK d, r, one : d = Head(block) /\ r = Tail(block) /\ one = <<d>>
  OBVIOUS
<1>4. d \in Byte /\ r \in Seq(Byte) /\ one \in Seq(Byte) /\ block = one \o r
  BY <1>1, <1>2, <1>3
<1>5. Count(one, Second(f)) = IF d = Second(f) THEN 1 ELSE 0
  <2>1. <<>> \in Seq(Byte) /\ one = Append(<<>>, d)
    BY <1>3
  <2>2. Count(Append(<<>>, d), Second(f)) = Count(<<>>, Second(f)) + (IF d = Second(f) THEN 1 ELSE 0)
    BY <1>4, <2>1, CountAppend
  <2> QED BY <2>1, <2>2, EmptyCount
<1>6. Count(block, Second(f)) = Count(one, Second(f)) + Count(r, Second(f))
  BY <1>4, CountConcat
<1>7. Count(parser', Second(f)) = 0 \/ Count(parser', Second(f)) = Count(parser, Second(f)) + Count(one, Second(f))
  <2>1. CASE IsFlag(d)
    BY <1>1, <1>3, <2>1, EmptyCount
  <2>2. CASE ~IsFlag(d)
    <3>1. Count(Append(parser, d), Second(f)) = Count(parser, Second(f)) + (IF d = Second(f) THEN 1 ELSE 0)
      BY <1>2, <1>4, CountAppend
    <3> QED BY <1>1, <1>3, <1>5, <2>2, <3>1
  <2> QED BY <2>1, <2>2
<1>8. /\ Count(parser, Second(f)) \in Nat /\ Count(got, Second(f)) \in Nat /\ Copies(f) \in Nat
      /\ Count(FlattenSeq(inbox), Second(f)) \in Nat
  BY Counts
<1>9. Count(r, Second(f)) \in Nat /\ Count(one, Second(f)) \in Nat
  BY <1>4, CountFinite
<1>10. PICK l, p, q, o, b, g, i : /\ l = Copies(f) /\ p = Count(parser, Second(f)) /\ q = Count(parser', Second(f))
                                  /\ o = Count(one, Second(f)) /\ b = Count(r, Second(f))
                                  /\ g = Count(got, Second(f)) /\ i = Count(FlattenSeq(inbox), Second(f))
  OBVIOUS
<1>11. Copies(f)' = l
  BY <1>2, <1>10 DEF Copies
<1>12. PendingParser(f) = p /\ PendingParser(f)' = q
  BY <1>2, <1>10 DEF PendingParser, Second, At
<1>13. PendingInput(f) = (o + b) + (g + i) /\ PendingInput(f)' = b + (g + i)
  BY <1>1, <1>3, <1>6, <1>10 DEF PendingInput, reading, Second, At
<1>14. (q = 0 \/ q = p + o) /\ l \in Nat /\ p \in Nat /\ o \in Nat /\ b \in Nat /\ g \in Nat /\ i \in Nat
  BY <1>7, <1>8, <1>9, <1>10
<1>15. l + (q + (b + (g + i))) <= l + (p + ((o + b) + (g + i)))
  BY <1>14
<1> QED BY <1>10, <1>11, <1>12, <1>13, <1>15 DEF Total

(***************************************************************************)
(* What does not touch the line and the parser.                            *)
(***************************************************************************)
LEMMA SameLineTotal ==
  ASSUME TransferInv, NEW f, UNCHANGED <<line, parser, alreadyWritten>>, PendingInput(f)' = PendingInput(f)
                      \/ (PendingInput(f)' \in Nat /\ PendingInput(f)' <= PendingInput(f))
  PROVE  Total(f)' <= Total(f)
<1>1. Copies(f)' = Copies(f) /\ PendingParser(f)' = PendingParser(f)
  BY DEF Copies, PendingParser, Second, At
<1>2. Copies(f) \in Nat /\ PendingParser(f) \in Nat /\ PendingInput(f) \in Nat
  BY Counts
<1>3. PICK a, b, c, d : a = Copies(f) /\ b = PendingParser(f) /\ c = PendingInput(f) /\ d = PendingInput(f)'
  OBVIOUS
<1>4. a \in Nat /\ b \in Nat /\ c \in Nat /\ d \in Nat /\ d <= c
  BY <1>2, <1>3
<1>5. a + (b + d) <= a + (b + c)
  BY <1>4
<1> QED BY <1>1, <1>3, <1>5 DEF Total

LEMMA InputTypeNext == TransferInv' => \A f \in 1 .. Frames : PendingInput(f)' \in Nat
<1>1. TransferInv => \A f \in 1 .. Frames : PendingInput(f) \in Nat
  BY Counts
<1>2. TransferInv' => (\A f \in 1 .. Frames : PendingInput(f) \in Nat)'
  BY <1>1, PTL
<1> QED BY <1>2

(***************************************************************************)
(* An exception leaves the message in the parser: one more copy may come,  *)
(* of the message whose write threw.                                       *)
(***************************************************************************)
LEMMA ThrowInput ==
  ASSUME TransferInv, Throw, inbox' = inbox, NEW f
  PROVE  PendingInput(f)' = Count(FlattenSeq(inbox), Second(f)) /\ PendingInput(f)' <= PendingInput(f)
<1>1. PICK a, b, c : /\ a = Count(block, Second(f)) /\ b = Count(got, Second(f))
                     /\ c = Count(FlattenSeq(inbox), Second(f))
  OBVIOUS
<1>2. a \in Nat /\ b \in Nat /\ c \in Nat
  BY <1>1, Counts
<1>3. block' = <<>> /\ got' = <<>>
  BY DEF Throw
<1>4. Count(<<>>, Second(f)) = 0
  BY EmptyCount
<1>5. PendingInput(f)' = 0 + (0 + c)
  BY <1>1, <1>3, <1>4 DEF PendingInput, Second, At
<1>6. PendingInput(f) = a + (b + c)
  BY <1>1 DEF PendingInput
<1>7. 0 + (0 + c) = c /\ 0 + (0 + c) <= a + (b + c)
  BY <1>2
<1> QED BY <1>1, <1>5, <1>6, <1>7

LEMMA ReadFailsTotal ==
  ASSUME TransferInv, TransferInv', ReadFails, NEW f \in 1 .. Frames
  PROVE  Total(f)' <= Total(f)
<1>1. at = "read" /\ Throw /\ inbox' = inbox /\ line' = line /\ parser' = parser /\ alreadyWritten' = 0
  BY DEF ReadFails, Throw
<1>2. alreadyWritten' = alreadyWritten
  BY <1>1 DEF TransferInv, CallsInv
<1>3. PendingInput(f)' <= PendingInput(f) /\ PendingInput(f)' \in Nat
  BY <1>1, ThrowInput, InputTypeNext
<1> QED BY <1>1, <1>2, <1>3, SameLineTotal

(***************************************************************************)
(* Only frames that were sent are written.                                 *)
(***************************************************************************)
LEMMA KnownFrame ==
  ASSUME TransferInv, CopiesInv, at = "write"
  PROVE  TheFrame \in 1 .. Frames /\ TheFrame <= arrived
<1>1. TheFrame \in 1 .. Frames /\ Count(parser, Second(TheFrame)) = 1
  <2>1. PICK g : g = TheFrame
    OBVIOUS
  <2>2. g \in 1 .. Frames
    BY <2>1, TheFrameFacts
  <2>3. Count(parser, Second(g)) = IF g = TheFrame THEN 1 ELSE 0
    BY <2>2, WritingPends
  <2> QED BY <2>1, <2>2, <2>3
<1>2. alreadyWritten \in Nat /\ arrived \in Nat /\ TheFrame \in Nat
  BY <1>1, TransferAssumption DEF TransferInv, TransferTypeOK
<1>3. CASE alreadyWritten > 0
  BY <1>1, <1>3 DEF CopiesInv
<1>4. CASE alreadyWritten = 0
  <2>1. PendingParser(TheFrame) = 1
    BY <1>1, <1>4 DEF PendingParser
  <2>2. Copies(TheFrame) \in Nat /\ PendingInput(TheFrame) \in Nat
    BY Counts
  <2>3. Total(TheFrame) # 0
    BY <2>1, <2>2 DEF Total
  <2>4. ~(TheFrame > arrived)
    BY <1>1, <2>3 DEF CopiesInv, Allowed
  <2> QED BY <1>1, <1>2, <2>4
<1> QED BY <1>2, <1>3, <1>4

LEMMA WriteFailsAllowed ==
  ASSUME TransferInv, TransferInv', CopiesInv, WriteFails, NEW f \in 1 .. Frames
  PROVE  Allowed(f)'
<1>1. /\ at = "write" /\ Throw /\ UNCHANGED <<inbox, line, parser, arrived>> /\ alreadyWritten' = 0
      /\ throws' = throws + 1 /\ torn' = torn \cup {TheFrame}
  BY DEF WriteFails, Throw
<1>2. TheFrame \in 1 .. Frames /\ TheFrame <= arrived /\ Allowed(f)
  BY <1>1, KnownFrame DEF CopiesInv
<1>3. PendingInput(f)' <= PendingInput(f) /\ PendingInput(f)' \in Nat
  BY <1>1, ThrowInput, InputTypeNext
<1>4. Copies(f)' = Copies(f)
  BY <1>1 DEF Copies
<1>5. PendingParser(f)' = IF f = TheFrame THEN 1 ELSE 0
  <2>1. Count(parser, Second(f)) = IF f = TheFrame THEN 1 ELSE 0
    BY <1>1, WritingPends
  <2>2. PendingParser(f)' = Count(parser, Second(f))
    BY <1>1 DEF PendingParser, Second, At
  <2> QED BY <2>1, <2>2
<1>6. Copies(f) \in Nat /\ PendingParser(f) \in Nat /\ PendingInput(f) \in Nat
  BY Counts
<1>7. PICK a, b, c, d, e : /\ a = Copies(f) /\ b = PendingParser(f) /\ c = PendingInput(f)
                           /\ d = PendingInput(f)' /\ e = PendingParser(f)'
  OBVIOUS
<1>8. Total(f) = a + (b + c) /\ Total(f)' = a + (e + d)
  BY <1>4, <1>7 DEF Total
<1>9. a \in Nat /\ b \in Nat /\ c \in Nat /\ d \in Nat /\ d <= c
  BY <1>3, <1>6, <1>7
<1>10. CASE f # TheFrame
  <2>1. e = 0
    BY <1>5, <1>7, <1>10
  <2>2. a + (e + d) <= a + (b + c)
    BY <1>9, <2>1
  <2>3. Total(f)' <= Total(f)
    BY <1>8, <2>2
  <2> QED BY <1>1, <1>2, <2>3, NoMoreOfIt
<1>11. CASE f = TheFrame
  <2>1. PICK t, u : t = throws /\ u = throws'
    OBVIOUS
  <2>2. t \in Nat /\ u = t + 1
    BY <1>1, <2>1, TransferAssumption DEF TransferInv, TransferTypeOK
  <2>3. a + (b + c) <= 1 + t
    BY <1>2, <1>8, <2>1 DEF Allowed
  <2>4. e = 1
    BY <1>5, <1>7, <1>11
  <2>5. a + (e + d) <= 1 + u
    BY <1>9, <2>2, <2>3, <2>4
  <2>6. f \in torn'
    BY <1>1, <1>11
  <2>7. ~(f > arrived')
    <3>1. f \in Nat /\ arrived \in Nat /\ arrived' = arrived /\ f <= arrived
      BY <1>1, <1>2, <1>11, TransferAssumption DEF TransferInv, TransferTypeOK
    <3> QED BY <3>1
  <2> QED BY <1>8, <2>1, <2>5, <2>6, <2>7 DEF Allowed
<1> QED BY <1>10, <1>11

(***************************************************************************)
(* A frame that is sent brings one byte of its kind.                       *)
(***************************************************************************)
LEMMA ArriveAllowed ==
  ASSUME TransferInv, TransferInv', CopiesInv, Arrive, NEW f \in 1 .. Frames
  PROVE  Allowed(f)'
<1>1. /\ arrived < Frames /\ arrived' = arrived + 1 /\ inbox' = inbox \o Units(FrameBytes(arrived + 1))
      /\ UNCHANGED <<line, parser, alreadyWritten, block, got, throws, torn>> /\ ReadTypes
  BY ReadTypesHold DEF Arrive, writing, history
<1>2. rxKind \in AllKinds /\ arrived \in 0 .. Frames /\ Frames \in Nat /\ throws \in Nat
  BY TransferAssumption DEF TransferInv, TransferTypeOK
<1>3. PICK n, bytes, units : n = arrived + 1 /\ bytes = FrameBytes(n) /\ units = Units(bytes)
  OBVIOUS
<1>4. n \in 1 .. Frames
  BY <1>1, <1>2, <1>3
<1>5. bytes \in Seq(Byte) /\ units \in Seq(Seq(Byte)) /\ FlattenSeq(units) = bytes
  BY <1>2, <1>3, <1>4, FrameFacts, UnitFacts, UnitsJoin
<1>6. PICK x : x = FlattenSeq(inbox)
  OBVIOUS
<1>7. FlattenSeq(inbox') = x \o bytes /\ x \in Seq(Byte)
  BY <1>1, <1>3, <1>5, <1>6, FlattenConcat DEF ReadTypes
<1>8. Count(x \o bytes, Second(f)) = Count(x, Second(f)) + Count(bytes, Second(f))
  <2>1. x \in Seq(Byte)
    BY <1>7
  <2> QED BY <1>5, <2>1, CountConcat
<1>9. Count(bytes, Second(f)) = IF f = n THEN 1 ELSE 0
  BY <1>3, <1>4, FrameCount
<1>10. PICK a, b, c, d, e, o : /\ a = Copies(f) /\ b = PendingParser(f) /\ c = Count(block, Second(f))
                               /\ d = Count(got, Second(f)) /\ e = Count(x, Second(f)) /\ o = Count(bytes, Second(f))
  OBVIOUS
<1>11. a \in Nat /\ b \in Nat /\ c \in Nat /\ d \in Nat /\ e \in Nat
  BY <1>6, <1>10, Counts
<1>12. Total(f) = a + (b + (c + (d + e)))
  BY <1>6, <1>10 DEF Total, PendingInput
<1>13. Total(f)' = a + (b + (c + (d + (e + o))))
  <2>1. Copies(f)' = a /\ PendingParser(f)' = b
    BY <1>1, <1>10 DEF Copies, PendingParser, Second, At
  <2>2. PendingInput(f)' = c + (d + (e + o))
    BY <1>1, <1>7, <1>8, <1>10 DEF PendingInput, Second, At
  <2> QED BY <2>1, <2>2 DEF Total
<1>14. PICK z : z = a + (b + (c + (d + e)))
  OBVIOUS
<1>15. z <= 1 + throws /\ (f \notin torn => z <= 1) /\ (f > arrived => z = 0)
  BY <1>12, <1>14 DEF CopiesInv, Allowed
<1>16. Total(f)' = z + o /\ z \in Nat
  <2>1. a + (b + (c + (d + (e + o)))) = z + o
    BY <1>9, <1>10, <1>11, <1>14
  <2> QED BY <1>11, <1>13, <1>14, <2>1
<1>17. CASE f = n
  <2>1. f > arrived /\ ~(f > arrived')
    BY <1>1, <1>2, <1>3, <1>17
  <2>2. Total(f)' = 1
    BY <1>9, <1>10, <1>15, <1>16, <1>17, <2>1
  <2>3. 1 <= 1 + throws'
    BY <1>1, <1>2
  <2> QED BY <2>1, <2>2, <2>3 DEF Allowed
<1>18. CASE f # n
  <2>1. f > arrived' => f > arrived
    BY <1>1, <1>2
  <2>2. Total(f)' = z
    BY <1>9, <1>10, <1>16, <1>18
  <2> QED BY <1>1, <1>15, <2>1, <2>2 DEF Allowed
<1> QED BY <1>17, <1>18

(***************************************************************************)
(* A write that goes on is one to udp, tcp or can, of a frame that was     *)
(* sent.                                                                   *)
(***************************************************************************)
UnderwayInv == alreadyWritten > 0 => ToSocket /\ TheFrame <= arrived

LEMMA StepUnderway ==
  ASSUME TransferInv, CopiesInv, [Next]_vars
  PROVE  UnderwayInv'
<1>1. alreadyWritten \in Nat /\ arrived \in Nat /\ FrameLength \in Nat
  BY TransferAssumption DEF TransferInv, TransferTypeOK
<1>2. ASSUME alreadyWritten' = 0 PROVE UnderwayInv'
  BY <1>2 DEF UnderwayInv
<1>3. ASSUME at # "write", alreadyWritten' = alreadyWritten PROVE UnderwayInv'
  BY <1>2, <1>3 DEF TransferInv, CallsInv
<1>4. ASSUME txKind' = txKind, alreadyWritten' = alreadyWritten, parser' = parser, arrived' >= arrived, arrived' \in Nat
      PROVE  UnderwayInv'
  <2> SUFFICES ASSUME alreadyWritten > 0 PROVE ToSocket' /\ TheFrame' <= arrived'
    BY <1>4 DEF UnderwayInv
  <2>1. ToSocket /\ TheFrame <= arrived /\ at = "write"
    BY DEF CopiesInv, TransferInv, CallsInv
  <2>2. TheFrame' = TheFrame /\ ToSocket'
    BY <1>4, <2>1 DEF TheFrame, ToSocket
  <2>3. TheFrame \in 1 .. Frames
    BY <2>1, TheFrameFacts
  <2>4. PICK g : g = TheFrame
    OBVIOUS
  <2>5. g <= arrived'
    BY <1>1, <1>4, <2>1, <2>3, <2>4, TransferAssumption
  <2> QED BY <2>2, <2>4, <2>5
<1>5. CASE Arrive \/ UNCHANGED vars
  <2>1. txKind' = txKind /\ alreadyWritten' = alreadyWritten /\ parser' = parser /\ (arrived' = arrived \/ arrived' = arrived + 1)
    BY <1>5 DEF Arrive, kinds, writing, vars
  <2> QED BY <1>1, <1>4, <2>1
<1>6. CASE Process \/ Pause \/ Resume \/ Read \/ ReadPipeCut \/ ParseByte \/ ParseKept
  <2>1. at # "write" /\ alreadyWritten' = alreadyWritten
    BY <1>6 DEF Process, Pause, Resume, Read, ReadStream, ReadUdp, ReadCan, ReadPipe, ReadPipeCut, ReadCollected,
                ReadWrapper, ParseByte, ParseKept, writing
  <2> QED BY <1>3, <2>1
<1>7. CASE ReadFails \/ WriteFails
  BY <1>2, <1>7 DEF ReadFails, WriteFails, Throw
<1>8. ASSUME NEW k \in 0 .. FrameLength, WritePaused \/ WriteStream(k) \/ WriteUdpPipe PROVE UnderwayInv'
  BY <1>2, <1>8 DEF WritePaused, WriteStream, WriteUdpPipe, WriteReturns
<1>9. ASSUME NEW k \in 0 .. FrameLength, WriteSocket(k) \/ WriteCan PROVE UnderwayInv'
  <2>1. at = "write" /\ \E n \in 1 .. Left : WriteSome(n)
    BY <1>9, SocketWrites
  <2>2. ToSocket /\ txKind' = txKind
    BY <1>9, SocketWrites DEF WriteSocket, WriteCan, ToSocket
  <2>3. PICK n \in 1 .. Left : WriteSome(n)
    BY <2>1
  <2>4. CASE alreadyWritten + n = FrameLength
    BY <1>2, <2>3, <2>4 DEF WriteSome, WriteReturns
  <2>5. CASE alreadyWritten + n # FrameLength
    <3>1. parser' = parser /\ arrived' = arrived
      BY <2>3, <2>5 DEF WriteSome
    <3>2. TheFrame' = TheFrame /\ ToSocket'
      BY <2>2, <3>1 DEF TheFrame, ToSocket
    <3>3. TheFrame <= arrived
      BY <2>1, KnownFrame
    <3> QED BY <3>1, <3>2, <3>3 DEF UnderwayInv
  <2> QED BY <2>4, <2>5
<1>10. CASE Write \/ WriteUdpPipe
  <2>1. 0 \in 0 .. FrameLength
    BY <1>1
  <2> QED BY <1>8, <1>9, <1>10, <2>1 DEF Write
<1> QED BY <1>5, <1>6, <1>7, <1>10 DEF Next

LEMMA WriteTotal ==
  ASSUME TransferInv, CopiesInv, Write \/ WriteUdpPipe, NEW f \in 1 .. Frames
  PROVE  Total(f)' <= Total(f)
<1>1. 0 \in 0 .. FrameLength
  BY TransferAssumption
<1>2. ASSUME WritePaused \/ WriteUdpPipe PROVE Total(f)' <= Total(f)
  <2>1. line \in Seq(Byte) /\ <<>> \in Seq(Byte)
    BY DEF TransferInv, TransferTypeOK
  <2>2. line' = line /\ line \o <<>> = line /\ UNCHANGED <<reading, block>>
    BY <1>2, <2>1 DEF WritePaused, WriteUdpPipe
  <2>3. Count(<<>>, First(f)) = 0 /\ PendingParser(f) \in Nat
    BY Counts, EmptyCount
  <2>4. PendingParser(f)' = 0
    BY <1>2, ReturnsPend DEF WritePaused, WriteUdpPipe
  <2>5. 0 \in Nat /\ 0 <= PendingParser(f)
    BY <2>3
  <2>6. line' = line \o <<>>
    BY <2>2
  <2> QED BY <2>1, <2>2, <2>3, <2>4, <2>5, <2>6, LineTotal
<1>3. ASSUME NEW k \in 0 .. FrameLength, WriteStream(k) PROVE Total(f)' <= Total(f)
  BY <1>3, StreamTotal
<1>4. ASSUME NEW k \in 0 .. FrameLength, WriteSocket(k) \/ WriteCan PROVE Total(f)' <= Total(f)
  BY <1>4, SocketTotal
<1> QED BY <1>1, <1>2, <1>3, <1>4 DEF Write

LEMMA StepCopies ==
  ASSUME TransferInv, TransferInv', CopiesInv, [Next]_vars
  PROVE  CopiesInv'
<1>1. UnderwayInv'
  BY StepUnderway
<1>2. ASSUME NEW f \in 1 .. Frames PROVE Allowed(f)'
  <2>1. Allowed(f)
    BY DEF CopiesInv
  <2>2. CASE Arrive
    BY <2>2, ArriveAllowed
  <2>3. CASE WriteFails
    BY <2>3, WriteFailsAllowed
  <2>4. CASE Process \/ ParseKept \/ Pause \/ Resume \/ UNCHANGED vars
    <3>1. UNCHANGED <<line, parser, alreadyWritten, block, got, inbox, arrived, throws, torn>>
      BY <2>4 DEF Process, ParseKept, Pause, Resume, vars, reading, writing, history
    <3>2. PendingInput(f)' = PendingInput(f)
      BY <3>1 DEF PendingInput, Second, At
    <3>3. Total(f)' <= Total(f)
      BY <3>1, <3>2, SameLineTotal
    <3> QED BY <2>1, <3>1, <3>3, NoMoreOfIt
  <2>5. CASE Read \/ ReadPipeCut
    <3>1. UNCHANGED <<line, parser, alreadyWritten, arrived, throws, torn>>
      BY <2>5 DEF Read, ReadStream, ReadUdp, ReadCan, ReadPipe, ReadPipeCut, ReadCollected, ReadWrapper,
                  writing, history
    <3>2. PendingInput(f)' <= PendingInput(f) /\ PendingInput(f)' \in Nat
      BY <2>5, ReadsPend, InputTypeNext
    <3>3. Total(f)' <= Total(f)
      BY <3>1, <3>2, SameLineTotal
    <3> QED BY <2>1, <3>1, <3>3, NoMoreOfIt
  <2>6. CASE ReadFails
    <3>1. UNCHANGED <<arrived, torn>> /\ throws' = throws + 1
      BY <2>6 DEF ReadFails, Throw, history
    <3> QED BY <2>1, <2>6, <3>1, ReadFailsTotal, NoMoreOfIt
  <2>7. CASE ParseByte
    <3>1. UNCHANGED <<arrived, torn, throws>>
      BY <2>7 DEF ParseByte, history
    <3> QED BY <2>1, <2>7, <3>1, ParseTotal, NoMoreOfIt
  <2>8. CASE Write \/ WriteUdpPipe
    <3>1. UNCHANGED <<arrived, throws>> /\ torn \subseteq torn'
      BY <2>8 DEF Write, WritePaused, WriteStream, WriteSocket, WriteCan, WriteSome, WriteUdpPipe, history
    <3> QED BY <2>1, <2>8, <3>1, WriteTotal, NoMoreOfIt
  <2> QED BY <2>2, <2>3, <2>4, <2>5, <2>6, <2>7, <2>8 DEF Next
<1> QED BY <1>1, <1>2 DEF CopiesInv, UnderwayInv

LEMMA InitCopies == Init => CopiesInv
<1> SUFFICES ASSUME Init PROVE CopiesInv
  OBVIOUS
<1>1. /\ line = <<>> /\ parser = <<>> /\ block = <<>> /\ got = <<>> /\ inbox = <<>>
      /\ alreadyWritten = 0 /\ throws = 0
  BY DEF Init
<1>2. FlattenSeq(inbox) = <<>>
  <2>1. <<>> \in Seq(Byte)
    OBVIOUS
  <2> QED BY <1>1, <2>1, FlattenOne
<1>3. ASSUME NEW f \in 1 .. Frames PROVE Allowed(f)
  <2>1. Copies(f) = 0
    <3>1. Count(line, At(f, 1)) = 0
      BY <1>1, EmptyCount
    <3> QED BY <3>1 DEF Copies, Count, At
  <2>2. PendingParser(f) = 0 /\ PendingInput(f) = 0 + (0 + 0)
    BY <1>1, <1>2, EmptyCount DEF PendingParser, PendingInput
  <2>3. Total(f) = 0
    BY <2>1, <2>2 DEF Total
  <2> QED BY <1>1, <2>3 DEF Allowed
<1> QED BY <1>1, <1>3 DEF CopiesInv

(***************************************************************************)
(* A message goes out once, and once more for every exception that kept it *)
(* in the parser, for any kinds, frames and buffers, however reads and     *)
(* writes are cut, and wherever calls fail.                                *)
(***************************************************************************)
THEOREM OnceEach == Spec => []OnceUnlessThrown
<1>1. TransferInv /\ CopiesInv => OnceUnlessThrown
  <2> SUFFICES ASSUME TransferInv, CopiesInv, NEW f \in 1 .. Frames
               PROVE  Copies(f) <= 1 + throws /\ (f \notin torn => Copies(f) <= 1)
    BY DEF OnceUnlessThrown
  <2>1. PICK a, b, c : a = Copies(f) /\ b = PendingParser(f) /\ c = PendingInput(f)
    OBVIOUS
  <2>2. a \in Nat /\ b \in Nat /\ c \in Nat /\ throws \in Nat
    BY <2>1, Counts, TransferAssumption DEF TransferInv, TransferTypeOK
  <2>3. a + (b + c) <= 1 + throws /\ (f \notin torn => a + (b + c) <= 1)
    BY <2>1 DEF CopiesInv, Allowed, Total
  <2>4. a <= 1 + throws
    BY <2>2, <2>3
  <2>5. f \notin torn => a <= 1
    BY <2>2, <2>3
  <2> QED BY <2>1, <2>4, <2>5
<1>2. TransferInv /\ TransferInv' /\ CopiesInv /\ [Next]_vars => CopiesInv'
  BY StepCopies
<1> QED BY <1>1, <1>2, InitInv, InitCopies, StepInv, PTL DEF Spec
=============================================================================
