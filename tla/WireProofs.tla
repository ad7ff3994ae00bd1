----------------------------- MODULE WireProofs -----------------------------
(***************************************************************************)
(* The parser stays inside its buffers, whatever bytes arrive: for every   *)
(* alphabet, checksum, payload limit, block size and amount of noise.      *)
(***************************************************************************)
EXTENDS Wire, Induction, SequenceTheorems

(***************************************************************************)
(* The bounds of one parser; BufferBounds is Bounds(parser).               *)
(***************************************************************************)
Bounds(p) ==
  /\ Len(p.header) <= HeaderSize
  /\ Len(p.data) <= MaxPayload
  /\ p.state = "mcWAIT_HEADER" => Len(p.header) < HeaderSize /\ p.data = <<>>
  /\ p.state = "mcWAIT_DATA" => Len(p.header) = HeaderSize /\ Len(p.data) < DataLen(p.header)
                                /\ DataLen(p.header) <= MaxPayload
  /\ p.state \in {"mcWAIT_FIRST_CRC_BYTE", "mcWAIT_SECOND_CRC_BYTE", "mcCOMPLETE"} =>
       Len(p.header) = HeaderSize /\ Len(p.data) = DataLen(p.header)

(***************************************************************************)
(* A new parser, and one whose packet was destroyed, is within bounds.     *)
(***************************************************************************)
LEMMA DestroyPacketBounds ==
  ASSUME NEW p \in Parsers
  PROVE  DestroyPacket(p) \in Parsers /\ Bounds(DestroyPacket(p)) /\ ParserCreate \in Parsers /\ Bounds(ParserCreate)
<1>1. ParserCreate \in Parsers
  BY ParserAssumption DEF ParserCreate, Parsers, ParserStates
<1>2. Bounds(ParserCreate)
  BY ParserAssumption DEF ParserCreate, Bounds, HeaderSize
<1>3. p.crcFails \in Nat
  BY DEF Parsers
<1>4. ParserCreate.state = "mcWAIT_HEADER" /\ ParserCreate.header = <<>> /\ ParserCreate.data = <<>>
  BY DEF ParserCreate
<1>5. /\ DestroyPacket(p) \in Parsers
      /\ DestroyPacket(p).state = "mcWAIT_HEADER"
      /\ DestroyPacket(p).header = <<>> /\ DestroyPacket(p).data = <<>>
  BY <1>1, <1>3, <1>4 DEF DestroyPacket, Parsers
<1>6. Bounds(DestroyPacket(p))
  BY <1>5, ParserAssumption DEF Bounds, HeaderSize
<1> QED BY <1>1, <1>2, <1>5, <1>6

(***************************************************************************)
(* The byte that completes the header decides whether there is room for    *)
(* the data it announces; any other byte of the header leaves room.        *)
(***************************************************************************)
LEMMA HeaderByteBounds ==
  ASSUME NEW p \in Parsers, Bounds(p), p.state = "mcWAIT_HEADER", NEW d \in Bytes
  PROVE  HeaderByte(p, d) \in Parsers /\ Bounds(HeaderByte(p, d))
<1> DEFINE header == Append(p.header, d)
           crc == DoCrc(p.crc, d)
           state == IF Len(header) = HeaderSize THEN AfterHeader(header) ELSE "mcWAIT_HEADER"
           q == [p EXCEPT !.header = header, !.crc = crc, !.state = state]
<1>1. p.header \in Seq(Bytes) /\ Len(p.header) < HeaderSize /\ p.data = <<>> /\ p.crc \in CrcValues
  BY DEF Parsers, Bounds
<1>2. MaxPayload \in Nat /\ Bytes \subseteq Nat /\ crc \in CrcValues
  BY <1>1, ParserAssumption
<1>3. header \in Seq(Bytes) /\ Len(header) = Len(p.header) + 1
  BY <1>1
<1>4. HeaderByte(p, d) = q
  BY DEF HeaderByte
<1> HIDE DEF header, crc
<1>5. ASSUME Len(header) = HeaderSize PROVE DataLen(header) \in Nat
  <2>1. 4 \in 1 .. Len(header)
    BY <1>5 DEF HeaderSize
  <2>2. header[4] \in Bytes
    BY <1>3, <2>1
  <2> QED BY <1>2, <2>2 DEF DataLen
<1>6. /\ state \in ParserStates
      /\ Len(header) # HeaderSize => state = "mcWAIT_HEADER"
      /\ Len(header) = HeaderSize =>
           /\ state \in {"mcERROR", "mcWAIT_FIRST_CRC_BYTE", "mcWAIT_DATA"}
           /\ state = "mcWAIT_FIRST_CRC_BYTE" => DataLen(header) = 0
           /\ state = "mcWAIT_DATA" => DataLen(header) > 0 /\ DataLen(header) <= MaxPayload
  BY <1>2, <1>5 DEF AfterHeader, ParserStates
<1> HIDE DEF state
<1>7. /\ q \in Parsers
      /\ q.header = header /\ q.data = <<>> /\ q.state = state
  BY <1>1, <1>2, <1>3, <1>6 DEF Parsers
<1> HIDE DEF q
<1>8. Bounds(q)
  <2>0. Len(<<>>) = 0
    OBVIOUS
  <2>1. Len(header) \in 0 .. 4
    BY <1>1, <1>3 DEF HeaderSize
  <2>2. CASE Len(header) # HeaderSize
    <3>1. q.state = "mcWAIT_HEADER" /\ q.header = header /\ q.data = <<>>
      BY <1>1, <1>6, <1>7, <2>2
    <3>2. Len(header) \in 0 .. 3
      BY <2>1, <2>2 DEF HeaderSize
    <3>3. Len(q.data) = 0 /\ 0 <= MaxPayload
      BY <1>2, <2>0, <3>1
    <3>4. Len(q.header) <= 4 /\ Len(q.header) < 4 /\ Len(q.data) <= MaxPayload
      <4>1. Len(q.header) = Len(header)
        BY <3>1
      <4>2. Len(q.header) \in 0 .. 3
        BY <3>2, <4>1
      <4>3. Len(q.data) <= MaxPayload
        BY <1>2, <3>3
      <4>4. \A n \in 0 .. 3 : n <= 4 /\ n < 4
        OBVIOUS
      <4> QED BY <4>2, <4>3, <4>4
    <3> QED BY <3>1, <3>4 DEF Bounds, HeaderSize
  <2>3. CASE Len(header) = HeaderSize
    <3>1. DataLen(header) \in Nat /\ Len(q.data) = 0 /\ q.header = header /\ q.state = state
      BY <1>5, <1>7, <2>0, <2>3
    <3>2. /\ state \in {"mcERROR", "mcWAIT_FIRST_CRC_BYTE", "mcWAIT_DATA"}
          /\ state = "mcWAIT_FIRST_CRC_BYTE" => DataLen(header) = 0
          /\ state = "mcWAIT_DATA" => DataLen(header) > 0 /\ DataLen(header) <= MaxPayload
      BY <1>6, <2>3
    <3>3. Len(q.header) = 4 /\ Len(q.data) = 0 /\ 0 <= MaxPayload
      BY <1>2, <2>3, <3>1 DEF HeaderSize
    <3>4. CASE state = "mcERROR"
      BY <3>1, <3>3, <3>4 DEF Bounds, HeaderSize
    <3>5. CASE state = "mcWAIT_FIRST_CRC_BYTE"
      BY <3>1, <3>2, <3>3, <3>5 DEF Bounds, HeaderSize
    <3>6. CASE state = "mcWAIT_DATA"
      BY <3>1, <3>2, <3>3, <3>6 DEF Bounds, HeaderSize
    <3> QED BY <3>2, <3>4, <3>5, <3>6
  <2> QED BY <2>2, <2>3
<1> QED BY <1>4, <1>7, <1>8

(***************************************************************************)
(* A data byte is written only below the announced length.                 *)
(***************************************************************************)
LEMMA DataByteBounds ==
  ASSUME NEW p \in Parsers, Bounds(p), p.state = "mcWAIT_DATA", NEW d \in Bytes
  PROVE  DataByte(p, d) \in Parsers /\ Bounds(DataByte(p, d))
<1> DEFINE data == Append(p.data, d)
           crc == DoCrc(p.crc, d)
           state == IF Len(data) = DataLen(p.header) THEN "mcWAIT_FIRST_CRC_BYTE" ELSE "mcWAIT_DATA"
           q == [p EXCEPT !.data = data, !.crc = crc, !.state = state]
<1>1. /\ p.header \in Seq(Bytes) /\ Len(p.header) = HeaderSize
      /\ p.data \in Seq(Bytes) /\ Len(p.data) < DataLen(p.header) /\ DataLen(p.header) <= MaxPayload
      /\ p.crc \in CrcValues
  BY DEF Parsers, Bounds
<1>2. MaxPayload \in Nat /\ Bytes \subseteq Nat /\ crc \in CrcValues
  BY <1>1, ParserAssumption
<1>3. DataLen(p.header) \in Nat
  <2>1. 4 \in 1 .. Len(p.header)
    BY <1>1 DEF HeaderSize
  <2>2. p.header[4] \in Bytes
    BY <1>1, <2>1
  <2> QED BY <1>2, <2>2 DEF DataLen
<1>4. data \in Seq(Bytes) /\ Len(data) = Len(p.data) + 1 /\ Len(p.data) \in Nat
  BY <1>1
<1>5. DataByte(p, d) = q
  BY DEF DataByte
<1>6. state \in ParserStates /\ state \in {"mcWAIT_FIRST_CRC_BYTE", "mcWAIT_DATA"}
      /\ (state = "mcWAIT_FIRST_CRC_BYTE" <=> Len(data) = DataLen(p.header))
  BY DEF ParserStates
<1> HIDE DEF data, crc, state
<1>7. /\ q \in Parsers
      /\ q.header = p.header /\ q.data = data /\ q.state = state
  BY <1>1, <1>2, <1>4, <1>6 DEF Parsers
<1> HIDE DEF q
<1>8. Bounds(q)
  <2>1. CASE Len(data) = DataLen(p.header)
    BY <1>1, <1>2, <1>3, <1>4, <1>6, <1>7, <2>1 DEF Bounds
  <2>2. CASE Len(data) # DataLen(p.header)
    BY <1>1, <1>2, <1>3, <1>4, <1>6, <1>7, <2>2 DEF Bounds
  <2> QED BY <2>1, <2>2
<1> QED BY <1>5, <1>7, <1>8

(***************************************************************************)
(* The checksum bytes and the error state write to no buffer.              *)
(***************************************************************************)
LEMMA CrcByteBounds ==
  ASSUME NEW p \in Parsers, Bounds(p), NEW d \in Bytes
  PROVE  /\ p.state = "mcWAIT_FIRST_CRC_BYTE" =>
              FirstCrcByte(p, d) \in Parsers /\ Bounds(FirstCrcByte(p, d))
         /\ p.state = "mcWAIT_SECOND_CRC_BYTE" =>
              SecondCrcByte(p, d) \in Parsers /\ Bounds(SecondCrcByte(p, d))
<1>1. DoCrc(p.crc, d) \in CrcValues
  BY ParserAssumption DEF Parsers
<1>2. ASSUME p.state = "mcWAIT_FIRST_CRC_BYTE"
      PROVE  FirstCrcByte(p, d) \in Parsers /\ Bounds(FirstCrcByte(p, d))
  BY <1>1, <1>2 DEF FirstCrcByte, Parsers, ParserStates, Bounds
<1>3. ASSUME p.state = "mcWAIT_SECOND_CRC_BYTE"
      PROVE  SecondCrcByte(p, d) \in Parsers /\ Bounds(SecondCrcByte(p, d))
  <2> DEFINE q == [p EXCEPT !.crc = DoCrc(p.crc, d), !.state = "mcCOMPLETE"]
             r == [p EXCEPT !.crcFails = @ + 1]
  <2>1. q \in Parsers /\ Bounds(q)
    BY <1>1, <1>3 DEF Parsers, ParserStates, Bounds
  <2>2. r \in Parsers
    BY DEF Parsers
  <2> QED BY <2>1, <2>2, DestroyPacketBounds DEF SecondCrcByte
<1> QED BY <1>2, <1>3

(***************************************************************************)
(* ndlcomParserReceive keeps the bounds for every byte.                    *)
(***************************************************************************)
LEMMA ReceiveBounds ==
  ASSUME NEW p \in Parsers, Bounds(p), NEW c \in Bytes
  PROVE  Receive(p, c) \in Parsers /\ Bounds(Receive(p, c))
<1> DEFINE q == [p EXCEPT !.lastWasEsc = FALSE]
           d == IF p.lastWasEsc THEN Complement(c) ELSE c
<1>1. q \in Parsers /\ Bounds(q) /\ d \in Bytes
  BY ParserAssumption DEF Parsers, Bounds
<1>2. [p EXCEPT !.lastWasEsc = TRUE] \in Parsers /\ Bounds([p EXCEPT !.lastWasEsc = TRUE])
  BY DEF Parsers, Bounds
<1> HIDE DEF q, d
<1>3. Accept(q, d) \in Parsers /\ Bounds(Accept(q, d))
  BY <1>1, DestroyPacketBounds, HeaderByteBounds, DataByteBounds, CrcByteBounds DEF Accept
<1> QED BY <1>2, <1>3, DestroyPacketBounds DEF Receive, q, d

-----------------------------------------------------------------------------
(***************************************************************************)
(* What is written for a byte.                                             *)
(***************************************************************************)
LEMMA EscapeType ==
  ASSUME NEW d \in Bytes
  PROVE  E!Escape(d) \in Seq(Bytes) /\ Len(E!Escape(d)) \in 1 .. 2
  BY ParserAssumption DEF E!Escape

(***************************************************************************)
(* The loop over the data writes nothing for no byte, and for one more     *)
(* byte what escaping that byte gives.                                     *)
(***************************************************************************)
LEMMA EscapedSteps ==
  ASSUME NEW data \in Seq(Bytes)
  PROVE  \E f \in [0 .. Len(data) -> Seq(Bytes)] :
           /\ f[0] = <<>>
           /\ \A k \in 1 .. Len(data) : f[k] = f[k - 1] \o E!Escape(data[k])
           /\ E!Escaped(data) = f[Len(data)]
<1> DEFINE N == Len(data)
           F(g) == [k \in 0 .. N |-> IF k = 0 THEN <<>> ELSE g[k - 1] \o E!Escape(data[k])]
           written == CHOOSE g : g = F(g)
           step == [p \in Seq(Bytes) \X (1 .. N) |-> p[1] \o E!Escape(data[p[2]])]
<1>1. N \in Nat /\ \A k \in 1 .. N : E!Escape(data[k]) \in Seq(Bytes)
  BY EscapeType
<1>2. <<>> \in Seq(Bytes)
  OBVIOUS
<1> HIDE DEF N
<1>3. step \in [Seq(Bytes) \X (1 .. N) -> Seq(Bytes)]
  BY <1>1
<1>4. \A s \in Seq(Bytes), k \in 1 .. N : step[<<s, k>>] = s \o E!Escape(data[k])
  OBVIOUS
<1> HIDE DEF step
<1>5. PICK f : IsLoop(f, Seq(Bytes), <<>>, N, step)
  BY <1>1, <1>2, <1>3, BoundedRecursion
<1>6. f \in [0 .. N -> Seq(Bytes)] /\ f[0] = <<>>
  BY <1>5 DEF IsLoop
<1>a. ASSUME NEW k \in 1 .. N PROVE f[k] = f[k - 1] \o E!Escape(data[k])
  <2>1. k - 1 \in 0 .. N
    BY <1>1
  <2>2. f[k - 1] \in Seq(Bytes)
    BY <1>6, <2>1
  <2>3. f[k] = step[<<f[k - 1], k>>]
    BY <1>5 DEF IsLoop
  <2> QED BY <1>4, <2>2, <2>3
<1>7. f = F(f)
  <2>1. ASSUME NEW k \in 0 .. N PROVE f[k] = IF k = 0 THEN <<>> ELSE f[k - 1] \o E!Escape(data[k])
    <3>1. CASE k = 0
      BY <1>6, <3>1
    <3>2. CASE k # 0
      <4>1. k \in 1 .. N
        BY <1>1, <3>2
      <4> QED BY <1>a, <3>2, <4>1
    <3> QED BY <3>1, <3>2
  <2> QED BY <1>6, <2>1 DEF F
<1> HIDE DEF F
<1>8. written = F(written)
  BY <1>7
<1>9. E!Escaped(data) = written[N]
  BY DEF E!Escaped, F, N
<1> HIDE DEF written
<1>10. \A k \in 0 .. N : written[k] = IF k = 0 THEN <<>> ELSE written[k - 1] \o E!Escape(data[k])
  BY <1>8 DEF F
<1> DEFINE T == {k \in Nat : k <= N => written[k] = f[k]}
<1>11. 0 \in T
  <2>1. 0 \in 0 .. N
    BY <1>1
  <2>2. written[0] = <<>>
    BY <1>10, <2>1
  <2> QED BY <1>6, <2>2
<1>12. ASSUME NEW k \in Nat, k \in T PROVE k + 1 \in T
  <2> SUFFICES ASSUME k + 1 <= N PROVE written[k + 1] = f[k + 1]
    OBVIOUS
  <2>1. k + 1 \in 1 .. N /\ k + 1 # 0 /\ (k + 1) - 1 = k /\ written[k] = f[k]
    BY <1>1, <1>12
  <2> DEFINE j == k + 1
  <2>0. j \in 0 .. N /\ j \in 1 .. N /\ j # 0 /\ j - 1 = k
    BY <1>1, <2>1
  <2> HIDE DEF j
  <2>2. written[j] = written[k] \o E!Escape(data[j])
    <3>1. written[j] = written[j - 1] \o E!Escape(data[j])
      BY <1>10, <2>0
    <3> QED BY <2>0, <3>1
  <2>3. f[j] = f[k] \o E!Escape(data[j])
    <3>1. f[j] = f[j - 1] \o E!Escape(data[j])
      BY <1>a, <2>0
    <3> QED BY <2>0, <3>1
  <2> QED BY <2>1, <2>2, <2>3 DEF j
<1> HIDE DEF T
<1>13. N \in T
  BY <1>1, <1>11, <1>12, SetInduction
<1>14. E!Escaped(data) = f[N]
  BY <1>1, <1>9, <1>13 DEF T
<1> QED BY <1>6, <1>a, <1>14 DEF N
(***************************************************************************)
(* The same for the checksum.                                              *)
(***************************************************************************)
LEMMA ChecksumSteps ==
  ASSUME NEW data \in Seq(Bytes)
  PROVE  \E f \in [0 .. Len(data) -> CrcValues] :
           /\ f[0] = CrcInitial
           /\ \A k \in 1 .. Len(data) : f[k] = DoCrc(f[k - 1], data[k])
           /\ E!Checksum(data) = f[Len(data)]
<1> DEFINE N == Len(data)
           F(g) == [k \in 0 .. N |-> IF k = 0 THEN CrcInitial ELSE DoCrc(g[k - 1], data[k])]
           crc == CHOOSE g : g = F(g)
           step == [p \in CrcValues \X (1 .. N) |-> DoCrc(p[1], data[p[2]])]
<1>1. N \in Nat /\ (\A k \in 1 .. N : data[k] \in Bytes) /\ CrcInitial \in CrcValues
  BY ParserAssumption
<1> HIDE DEF N
<1>2. step \in [CrcValues \X (1 .. N) -> CrcValues]
  BY <1>1, ParserAssumption
<1>3. \A s \in CrcValues, k \in 1 .. N : step[<<s, k>>] = DoCrc(s, data[k])
  OBVIOUS
<1> HIDE DEF step
<1>4. PICK f : IsLoop(f, CrcValues, CrcInitial, N, step)
  BY <1>1, <1>2, BoundedRecursion
<1>5. f \in [0 .. N -> CrcValues] /\ f[0] = CrcInitial
  BY <1>4 DEF IsLoop
<1>6. ASSUME NEW k \in 1 .. N PROVE f[k] = DoCrc(f[k - 1], data[k])
  <2>1. k - 1 \in 0 .. N
    BY <1>1
  <2>2. f[k - 1] \in CrcValues
    BY <1>5, <2>1
  <2>3. f[k] = step[<<f[k - 1], k>>]
    BY <1>4 DEF IsLoop
  <2> QED BY <1>3, <2>2, <2>3
<1>7. f = F(f)
  <2>1. ASSUME NEW k \in 0 .. N PROVE f[k] = IF k = 0 THEN CrcInitial ELSE DoCrc(f[k - 1], data[k])
    <3>1. CASE k = 0
      BY <1>5, <3>1
    <3>2. CASE k # 0
      <4>1. k \in 1 .. N
        BY <1>1, <3>2
      <4> QED BY <1>6, <3>2, <4>1
    <3> QED BY <3>1, <3>2
  <2> QED BY <1>5, <2>1 DEF F
<1> HIDE DEF F
<1>8. crc = F(crc)
  BY <1>7
<1>9. E!Checksum(data) = crc[N]
  BY DEF E!Checksum, F, N
<1> HIDE DEF crc
<1>10. \A k \in 0 .. N : crc[k] = IF k = 0 THEN CrcInitial ELSE DoCrc(crc[k - 1], data[k])
  BY <1>8 DEF F
<1> DEFINE T == {k \in Nat : k <= N => crc[k] = f[k]}
<1>11. 0 \in T
  <2>1. 0 \in 0 .. N
    BY <1>1
  <2>2. crc[0] = CrcInitial
    BY <1>10, <2>1
  <2> QED BY <1>5, <2>2
<1>12. ASSUME NEW k \in Nat, k \in T PROVE k + 1 \in T
  <2> SUFFICES ASSUME k + 1 <= N PROVE crc[k + 1] = f[k + 1]
    OBVIOUS
  <2> DEFINE j == k + 1
  <2>1. j \in 0 .. N /\ j \in 1 .. N /\ j # 0 /\ j - 1 = k /\ crc[k] = f[k]
    BY <1>1, <1>12
  <2> HIDE DEF j
  <2>2. crc[j] = DoCrc(crc[k], data[j])
    <3>1. crc[j] = DoCrc(crc[j - 1], data[j])
      BY <1>10, <2>1
    <3> QED BY <2>1, <3>1
  <2>3. f[j] = DoCrc(f[k], data[j])
    <3>1. f[j] = DoCrc(f[j - 1], data[j])
      BY <1>6, <2>1
    <3> QED BY <2>1, <3>1
  <2> QED BY <2>1, <2>2, <2>3 DEF j
<1> HIDE DEF T
<1>13. N \in T
  BY <1>1, <1>11, <1>12, SetInduction
<1>14. E!Checksum(data) = f[N]
  BY <1>1, <1>9, <1>13 DEF T
<1> QED BY <1>5, <1>6, <1>14 DEF N

(***************************************************************************)
(* One more byte is escaped behind what was written for those before it,   *)
(* and goes into the checksum after them.                                  *)
(***************************************************************************)
LEMMA AppendByte ==
  ASSUME NEW s \in Seq(Bytes), NEW d \in Bytes
  PROVE  /\ E!Escaped(<<>>) = <<>>
         /\ E!Escaped(s) \in Seq(Bytes)
         /\ E!Escaped(Append(s, d)) = E!Escaped(s) \o E!Escape(d)
         /\ E!Checksum(<<>>) = CrcInitial
         /\ E!Checksum(s) \in CrcValues
         /\ E!Checksum(Append(s, d)) = DoCrc(E!Checksum(s), d)
<1> DEFINE N == Len(s)
           t == Append(s, d)
<1>1. N \in Nat /\ t \in Seq(Bytes) /\ Len(t) = N + 1 /\ t[N + 1] = d /\ \A k \in 1 .. N : t[k] = s[k]
  OBVIOUS
<1>2. <<>> \in Seq(Bytes) /\ Len(<<>>) = 0
  OBVIOUS
<1>3. E!Escaped(<<>>) = <<>> /\ E!Checksum(<<>>) = CrcInitial
  BY <1>2, EscapedSteps, ChecksumSteps
<1> HIDE DEF N, t
<1>4. PICK f \in [0 .. N -> Seq(Bytes)] :
        /\ f[0] = <<>>
        /\ \A k \in 1 .. N : f[k] = f[k - 1] \o E!Escape(s[k])
        /\ E!Escaped(s) = f[N]
  BY EscapedSteps DEF N
<1>5. PICK g \in [0 .. N + 1 -> Seq(Bytes)] :
        /\ g[0] = <<>>
        /\ \A k \in 1 .. N + 1 : g[k] = g[k - 1] \o E!Escape(t[k])
        /\ E!Escaped(t) = g[N + 1]
  BY <1>1, EscapedSteps
<1>6. PICK c \in [0 .. N -> CrcValues] :
        /\ c[0] = CrcInitial
        /\ \A k \in 1 .. N : c[k] = DoCrc(c[k - 1], s[k])
        /\ E!Checksum(s) = c[N]
  BY ChecksumSteps DEF N
<1>7. PICK e \in [0 .. N + 1 -> CrcValues] :
        /\ e[0] = CrcInitial
        /\ \A k \in 1 .. N + 1 : e[k] = DoCrc(e[k - 1], t[k])
        /\ E!Checksum(t) = e[N + 1]
  BY <1>1, ChecksumSteps
<1> DEFINE T == {k \in Nat : k <= N => f[k] = g[k] /\ c[k] = e[k]}
<1>8. 0 \in T
  BY <1>4, <1>5, <1>6, <1>7
<1>9. ASSUME NEW k \in Nat, k \in T PROVE k + 1 \in T
  <2> SUFFICES ASSUME k + 1 <= N PROVE f[k + 1] = g[k + 1] /\ c[k + 1] = e[k + 1]
    OBVIOUS
  <2> DEFINE j == k + 1
  <2>1. /\ j \in 1 .. N /\ j \in 1 .. N + 1 /\ j - 1 = k
        /\ f[k] = g[k] /\ c[k] = e[k]
    BY <1>1, <1>9
  <2> HIDE DEF j
  <2>2. f[j] = f[j - 1] \o E!Escape(s[j]) /\ g[j] = g[j - 1] \o E!Escape(t[j]) /\ t[j] = s[j]
    BY <1>1, <1>4, <1>5, <2>1
  <2>3. c[j] = DoCrc(c[j - 1], s[j]) /\ e[j] = DoCrc(e[j - 1], t[j])
    BY <1>6, <1>7, <2>1
  <2>4. f[j] = g[j] /\ c[j] = e[j]
    BY <2>1, <2>2, <2>3
  <2> QED BY <2>4 DEF j
<1> HIDE DEF T
<1>10. N \in T
  BY <1>1, <1>8, <1>9, SetInduction
<1>11. f[N] = g[N] /\ c[N] = e[N]
  BY <1>1, <1>10 DEF T
<1> DEFINE M == N + 1
<1>12. M \in 1 .. M /\ M - 1 = N
  BY <1>1
<1>13. g[M] = g[M - 1] \o E!Escape(t[M]) /\ e[M] = DoCrc(e[M - 1], t[M])
  BY <1>5, <1>7, <1>12
<1>14. g[M] = f[N] \o E!Escape(d) /\ e[M] = DoCrc(c[N], d)
  BY <1>1, <1>11, <1>12, <1>13
<1>15. f[N] \in Seq(Bytes) /\ c[N] \in CrcValues
  BY <1>1, <1>4, <1>6
<1> QED BY <1>3, <1>4, <1>5, <1>6, <1>7, <1>14, <1>15 DEF t

(***************************************************************************)
(* A prefix grows by one byte; the whole sequence is its longest prefix.   *)
(***************************************************************************)
LEMMA PrefixGrows ==
  ASSUME NEW S, NEW s \in Seq(S), NEW k \in Nat, k < Len(s)
  PROVE  /\ SubSeq(s, 1, k) \in Seq(S) /\ Len(SubSeq(s, 1, k)) = k
         /\ s[k + 1] \in S
         /\ SubSeq(s, 1, k + 1) = Append(SubSeq(s, 1, k), s[k + 1])
<1>1. k + 1 \in 1 .. Len(s) /\ k \in 0 .. Len(s) /\ k + 1 \in 0 .. Len(s)
  OBVIOUS
<1>2. s[k + 1] \in S
  BY <1>1
<1>3. SubSeq(s, 1, k) \in Seq(S) /\ Len(SubSeq(s, 1, k)) = k /\ \A j \in 1 .. k : SubSeq(s, 1, k)[j] = s[j]
  BY <1>1
<1>4. /\ SubSeq(s, 1, k + 1) \in Seq(S) /\ Len(SubSeq(s, 1, k + 1)) = k + 1
      /\ \A j \in 1 .. k + 1 : SubSeq(s, 1, k + 1)[j] = s[j]
  BY <1>1
<1> DEFINE p == SubSeq(s, 1, k)
           q == SubSeq(s, 1, k + 1)
<1>5. p \in Seq(S) /\ Len(p) = k /\ \A j \in 1 .. k : p[j] = s[j]
  BY <1>3
<1>6. q \in Seq(S) /\ Len(q) = k + 1 /\ \A j \in 1 .. k + 1 : q[j] = s[j]
  BY <1>4
<1> HIDE DEF p, q
<1>7. q = Append(p, s[k + 1])
  BY <1>1, <1>2, <1>5, <1>6
<1> QED BY <1>2, <1>3, <1>7 DEF p, q

(***************************************************************************)
(* The whole sequence is its longest prefix, nothing its shortest.         *)
(***************************************************************************)
LEMMA PrefixEnds ==
  ASSUME NEW S, NEW s \in Seq(S)
  PROVE  SubSeq(s, 1, 0) = <<>> /\ SubSeq(s, 1, Len(s)) = s
  OBVIOUS

(***************************************************************************)
(* Sections that are escaped one by one are escaped together, and what is  *)
(* written is at most twice as long.                                       *)
(***************************************************************************)
LEMMA EscapedSections ==
  ASSUME NEW s \in Seq(Bytes), NEW t \in Seq(Bytes)
  PROVE  /\ E!Escaped(s) \in Seq(Bytes)
         /\ E!Escaped(s \o t) = E!Escaped(s) \o E!Escaped(t)
         /\ Len(E!Escaped(t)) <= 2 * Len(t)
<1> DEFINE p(k) == SubSeq(t, 1, k)
           Joined(k) == E!Escaped(s \o p(k)) = E!Escaped(s) \o E!Escaped(p(k))
           Short(k) == Len(E!Escaped(p(k))) <= 2 * k
           T == {k \in Nat : k <= Len(t) => Joined(k) /\ Short(k)}
<1>1. E!Escaped(<<>>) = <<>> /\ E!Escaped(s) \in Seq(Bytes)
  <2>1. FLAG \in Bytes
    BY ParserAssumption
  <2> QED BY <2>1, AppendByte
<1>2. 0 \in T
  <2>1. p(0) = <<>>
    BY PrefixEnds
  <2>2. s \o <<>> = s /\ E!Escaped(s) \o <<>> = E!Escaped(s) /\ Len(<<>>) = 0
    BY <1>1
  <2>3. Joined(0)
    BY <1>1, <2>1, <2>2
  <2>4. Len(E!Escaped(p(0))) = 0
    BY <1>1, <2>1, <2>2
  <2>5. Short(0)
    BY <2>4
  <2> QED BY <2>3, <2>5
<1>3. ASSUME NEW k \in Nat, k \in T PROVE k + 1 \in T
  <2> SUFFICES ASSUME k + 1 <= Len(t) PROVE Joined(k + 1) /\ Short(k + 1)
    OBVIOUS
  <2>1. k < Len(t) /\ Joined(k) /\ Short(k)
    BY <1>3
  <2>2. PICK q, d : q = SubSeq(t, 1, k) /\ d = t[k + 1]
    OBVIOUS
  <2>3. q \in Seq(Bytes) /\ d \in Bytes /\ Len(q) = k /\ p(k + 1) = Append(q, d)
    BY <2>1, <2>2, PrefixGrows
  <2>4. /\ E!Escaped(s \o q) = E!Escaped(s) \o E!Escaped(q)
        /\ Len(E!Escaped(q)) <= 2 * k
    BY <2>1, <2>2
  <2>5. s \o q \in Seq(Bytes) /\ s \o Append(q, d) = Append(s \o q, d)
    BY <2>3
  <2>6. PICK es, eq, ed : es = E!Escaped(s) /\ eq = E!Escaped(q) /\ ed = E!Escape(d)
    OBVIOUS
  <2>7. es \in Seq(Bytes) /\ eq \in Seq(Bytes) /\ ed \in Seq(Bytes) /\ Len(ed) \in 1 .. 2
    BY <1>1, <2>3, <2>6, AppendByte, EscapeType
  <2>8. E!Escaped(s \o Append(q, d)) = E!Escaped(s \o q) \o ed
    BY <2>3, <2>5, <2>6, AppendByte
  <2>9. E!Escaped(Append(q, d)) = eq \o ed
    BY <2>3, <2>6, AppendByte
  <2>10. (es \o eq) \o ed = es \o (eq \o ed)
    BY <2>7
  <2>11. Len(eq \o ed) <= 2 * (k + 1)
    <3>1. Len(eq) <= 2 * k
      BY <2>4, <2>6
    <3>2. Len(eq \o ed) = Len(eq) + Len(ed) /\ Len(eq) \in Nat
      BY <2>7
    <3>3. \A x \in Nat, y \in 1 .. 2 : x <= 2 * k => x + y <= 2 * (k + 1)
      OBVIOUS
    <3> QED BY <2>7, <3>1, <3>2, <3>3
  <2>12. Joined(k + 1)
    BY <2>3, <2>4, <2>6, <2>8, <2>9, <2>10
  <2>13. Short(k + 1)
    BY <2>3, <2>9, <2>11
  <2> QED BY <2>12, <2>13
<1> HIDE DEF T
<1>4. Len(t) \in Nat
  OBVIOUS
<1>5. Len(t) \in T
  BY <1>2, <1>3, <1>4, SetInduction
<1>6. Joined(Len(t)) /\ Short(Len(t))
  BY <1>4, <1>5 DEF T
<1> QED BY <1>1, <1>6, PrefixEnds

(***************************************************************************)
(* Concatenation: length and elements.                                     *)
(***************************************************************************)
LEMMA Concat ==
  ASSUME NEW S, NEW s \in Seq(S), NEW t \in Seq(S)
  PROVE  /\ s \o t \in Seq(S) /\ Len(s \o t) = Len(s) + Len(t)
         /\ Len(s) \in Nat /\ Len(t) \in Nat
         /\ \A k \in 1 .. Len(s) : (s \o t)[k] = s[k]
         /\ \A k \in 1 .. Len(t) : (s \o t)[Len(s) + k] = t[k]
  OBVIOUS

(***************************************************************************)
(* The bytes of a message before they are escaped.                         *)
(***************************************************************************)
Covered(m) == m.header \o m.payload

Body(m) == Covered(m) \o CrcBytes(E!Checksum(Covered(m)))

(***************************************************************************)
(* A message and its parts.                                                *)
(***************************************************************************)
LEMMA MessageParts ==
  ASSUME NEW m \in Messages
  PROVE  /\ m = [header |-> m.header, payload |-> m.payload]
         /\ m.header \in Seq(Bytes) /\ Len(m.header) = 4
         /\ m.payload \in Seq(Bytes) /\ Len(m.payload) = m.header[4]
         /\ m.header[4] \in Nat /\ m.header[4] <= MaxPayload
         /\ Covered(m) \in Seq(Bytes) /\ Len(Covered(m)) = 4 + Len(m.payload)
         /\ E!Checksum(Covered(m)) \in CrcValues
         /\ CrcBytes(E!Checksum(Covered(m))) \in Seq(Bytes)
         /\ Len(CrcBytes(E!Checksum(Covered(m)))) = 2
         /\ Body(m) \in Seq(Bytes) /\ Len(Body(m)) = 6 + Len(m.payload)
<1>1. m \in [header : Seq(Bytes), payload : Seq(Bytes)]
  BY MessageAssumption DEF Packets
<1>2. /\ Len(m.header) = 4 /\ Len(m.payload) = m.header[4]
      /\ m.header[4] <= MaxPayload
  BY MessageAssumption DEF HeaderSize, DataLen
<1>3. Covered(m) \in Seq(Bytes) /\ Len(Covered(m)) = 4 + Len(m.payload)
  <2>1. PICK h, p : h = m.header /\ p = m.payload
    OBVIOUS
  <2>2. h \in Seq(Bytes) /\ p \in Seq(Bytes) /\ Len(h) = 4
    BY <1>1, <1>2, <2>1
  <2>3. h \o p \in Seq(Bytes) /\ Len(h \o p) = Len(h) + Len(p)
    BY <2>2, Concat
  <2> QED BY <2>1, <2>2, <2>3 DEF Covered
<1>4. E!Checksum(Covered(m)) \in CrcValues
  <2>1. FLAG \in Bytes
    BY ParserAssumption
  <2> QED BY <1>3, <2>1, AppendByte
<1>5. /\ CrcBytes(E!Checksum(Covered(m))) \in Seq(Bytes)
      /\ Len(CrcBytes(E!Checksum(Covered(m)))) = 2
  BY <1>4, CodeAssumption
<1>6. Body(m) \in Seq(Bytes) /\ Len(Body(m)) = 6 + Len(m.payload)
  <2>1. Len(m.payload) \in Nat
    BY <1>1
  <2>2. PICK s, t, n : s = Covered(m) /\ t = CrcBytes(E!Checksum(Covered(m))) /\ n = Len(m.payload)
    OBVIOUS
  <2>3. s \in Seq(Bytes) /\ Len(s) = 4 + n /\ t \in Seq(Bytes) /\ Len(t) = 2 /\ n \in Nat
    BY <1>3, <1>5, <2>1, <2>2
  <2>4. s \o t \in Seq(Bytes) /\ Len(s \o t) = Len(s) + Len(t)
    BY <2>3, Concat
  <2>5. Len(s \o t) = 6 + n
    BY <2>3, <2>4
  <2> QED BY <2>2, <2>4, <2>5 DEF Body
<1>7. m.header[4] \in Nat
  BY <1>1, <1>2
<1> QED BY <1>1, <1>2, <1>3, <1>4, <1>5, <1>6, <1>7

(***************************************************************************)
(* Everything fits into the buffer of the bridge: a frame is its escaped   *)
(* body between two flags.                                                 *)
(***************************************************************************)
LEMMA FrameIs ==
  ASSUME NEW m \in Messages
  PROVE  /\ Frame(m) = (<<FLAG>> \o E!Escaped(Body(m))) \o <<FLAG>>
         /\ E!Escaped(Body(m)) \in Seq(Bytes)
<1> DEFINE h == m.header
           pl == m.payload
           size == E!MaxEncodedSize(h)
           start == E!EncodeInit(size)
           wh == start \o E!EncodeAppendPayload(size - Len(start), h)
           wp == wh \o E!EncodeAppendPayload(size - Len(wh), pl)
           cov == (IF size - Len(start) >= 2 * Len(h) THEN h ELSE <<>>)
                  \o (IF size - Len(wh) >= 2 * Len(pl) THEN pl ELSE <<>>)
           cb == CrcBytes(E!Checksum(cov))
           wc == wp \o E!EncodeAppendPayload(size - Len(wp), cb)
<1>1. Frame(m) = IF Len(pl) # h[4] THEN <<>> ELSE wc \o E!EncodeFinalize(size - Len(wc))
  BY DEF Frame, Frames, E!Encode
<1>2. /\ h \in Seq(Bytes) /\ Len(h) = 4 /\ pl \in Seq(Bytes)
      /\ Len(pl) = h[4] /\ Len(pl) \in Nat
  BY MessageParts
<1>n. PICK n \in Nat : n = Len(pl)
  BY <1>2
<1>3. size = 14 + (2 * n)
  BY <1>2, <1>n DEF E!MaxEncodedSize
<1> HIDE DEF size
<1>4. start = <<FLAG>> /\ Len(start) = 1 /\ start \in Seq(Bytes)
  <2>1. ~(size < 1) /\ FLAG \in Bytes
    BY <1>2, <1>3, ParserAssumption
  <2> QED BY <2>1 DEF E!EncodeInit
<1> HIDE DEF start
<1> DEFINE eh == E!Escaped(h)
           ep == E!Escaped(pl)
<1>5. eh \in Seq(Bytes) /\ Len(eh) <= 8 /\ ep \in Seq(Bytes) /\ Len(ep) <= 2 * Len(pl)
  <2>1. eh \in Seq(Bytes) /\ ep \in Seq(Bytes) /\ Len(eh) <= 2 * Len(h) /\ Len(ep) <= 2 * Len(pl)
    BY <1>2, EscapedSections
  <2> QED BY <1>2, <2>1
<1>len. Len(pl) = n /\ Len(h) = 4
  BY <1>2, <1>n
<1> HIDE DEF h, pl
<1>6. wh = start \o eh
  <2>1. ~(size - Len(start) < 2 * Len(h))
    BY <1>2, <1>3, <1>4
  <2> QED BY <2>1 DEF E!EncodeAppendPayload
<1> HIDE DEF eh, ep
<1>7. wh \in Seq(Bytes) /\ Len(wh) \in 1 .. 9
  <2>1. /\ Len(start \o eh) = Len(start) + Len(eh) /\ Len(eh) \in Nat
        /\ start \o eh \in Seq(Bytes)
    BY <1>4, <1>5, Concat
  <2>2. 1 + Len(eh) \in 1 .. 9
    BY <1>5, <2>1
  <2> QED BY <1>4, <1>6, <2>1, <2>2
<1> HIDE DEF wh
<1>fit. size - Len(wh) >= 2 * Len(pl)
  <2>1. PICK x : x = Len(wh)
    OBVIOUS
  <2>2. x \in 1 .. 9
    BY <1>7, <2>1
  <2>3. size - x >= 2 * n
    BY <1>3, <2>2
  <2> QED BY <1>len, <2>1, <2>3
<1>8. wp = wh \o ep
  <2>1. ~(size - Len(wh) < 2 * Len(pl))
    <3>1. \A x, y \in Int : x >= y => ~(x < y)
      OBVIOUS
    <3>2. size - Len(wh) \in Int /\ 2 * Len(pl) \in Int
      <4>1. size \in Int /\ Len(wh) \in Int /\ Len(pl) \in Int
        BY <1>3, <1>7, <1>len
      <4> QED BY <4>1
    <3> QED BY <1>fit, <3>1, <3>2
  <2> QED BY <2>1 DEF E!EncodeAppendPayload, ep
<1>9. wp \in Seq(Bytes) /\ Len(wp) \in 1 .. 9 + (2 * n)
  <2>1. Len(wh \o ep) = Len(wh) + Len(ep) /\ Len(ep) \in Nat /\ wh \o ep \in Seq(Bytes)
    BY <1>5, <1>7, Concat
  <2>2. Len(wh) + Len(ep) \in 1 .. 9 + (2 * n)
    <3>1. PICK x, y : x = Len(wh) /\ y = Len(ep)
      OBVIOUS
    <3>2. x \in 1 .. 9 /\ y \in Nat /\ y <= 2 * n
      BY <1>5, <1>7, <1>len, <2>1, <3>1
    <3>3. x + y \in 1 .. 9 + (2 * n)
      BY <3>2
    <3> QED BY <1>len, <3>1, <3>3
  <2> QED BY <1>8, <2>1, <2>2
<1>10. cov = Covered(m)
  <2>1. size - Len(start) >= 2 * Len(h)
    BY <1>3, <1>4, <1>len
  <2>2. size - Len(wh) >= 2 * Len(pl)
    BY <1>fit
  <2> QED BY <2>1, <2>2 DEF Covered, h, pl
<1> HIDE DEF cov, wp
<1>11. cb = CrcBytes(E!Checksum(Covered(m))) /\ cb \in Seq(Bytes) /\ Len(cb) = 2
  BY <1>10, MessageParts
<1> HIDE DEF cb
<1> DEFINE ec == E!Escaped(cb)
<1>12. ec \in Seq(Bytes) /\ Len(ec) <= 4
  <2>1. ec \in Seq(Bytes) /\ Len(ec) <= 2 * Len(cb)
    BY <1>11, EscapedSections
  <2> QED BY <1>11, <2>1
<1>13. wc = wp \o ec
  <2>1. ~(size - Len(wp) < 2 * Len(cb))
    BY <1>2, <1>3, <1>9, <1>11
  <2> QED BY <2>1 DEF E!EncodeAppendPayload
<1> HIDE DEF ec
<1>14. Len(wc) <= 13 + (2 * n) /\ Len(wc) \in Nat
  <2>1. Len(wp \o ec) = Len(wp) + Len(ec) /\ Len(ec) \in Nat
    BY <1>9, <1>12, Concat
  <2>2. Len(wp) + Len(ec) <= 13 + (2 * n) /\ Len(wp) + Len(ec) \in Nat
    BY <1>9, <1>12, <1>len, <2>1
  <2> QED BY <1>13, <2>1, <2>2
<1> HIDE DEF wc
<1>15. E!EncodeFinalize(size - Len(wc)) = <<FLAG>>
  <2>1. ~(size - Len(wc) < 1)
    BY <1>2, <1>3, <1>14
  <2> QED BY <2>1 DEF E!EncodeFinalize, E!EncodeInit
<1>16. E!Escaped(Covered(m)) = eh \o ep
  BY <1>2, EscapedSections DEF Covered, eh, ep, h, pl
<1>17. E!Escaped(Body(m)) = (eh \o ep) \o ec
  <2>1. Covered(m) \in Seq(Bytes) /\ Body(m) = Covered(m) \o cb
    BY <1>11, MessageParts DEF Body
  <2>2. E!Escaped(Covered(m) \o cb) = E!Escaped(Covered(m)) \o E!Escaped(cb)
    BY <1>11, <2>1, EscapedSections
  <2> QED BY <1>16, <2>1, <2>2 DEF ec
<1>18. wc = <<FLAG>> \o ((eh \o ep) \o ec)
  <2>1. wc = ((start \o eh) \o ep) \o ec
    BY <1>6, <1>8, <1>13
  <2>2. (start \o eh) \o ep = start \o (eh \o ep)
    BY <1>4, <1>5, ConcatAssociative
  <2>3. eh \o ep \in Seq(Bytes)
    BY <1>5, Concat
  <2>4. (start \o (eh \o ep)) \o ec = start \o ((eh \o ep) \o ec)
    BY <1>4, <1>12, <2>3, ConcatAssociative
  <2> QED BY <1>4, <2>1, <2>2, <2>4
<1>19. (eh \o ep) \o ec \in Seq(Bytes)
  BY <1>5, <1>12
<1> QED BY <1>1, <1>2, <1>15, <1>17, <1>18, <1>19

(***************************************************************************)
(* The parser has taken the first i bytes of the body of m.                *)
(***************************************************************************)
Holds(p, m, i) ==
  /\ i < 4 => p.state = "mcWAIT_HEADER" /\ p.header = SubSeq(m.header, 1, i) /\ p.data = <<>>
  /\ i >= 4 => p.header = m.header
  /\ i >= 4 /\ i < 4 + Len(m.payload) =>
       p.state = "mcWAIT_DATA" /\ p.data = SubSeq(m.payload, 1, i - 4)
  /\ i >= 4 + Len(m.payload) => p.data = m.payload
  /\ i = 4 + Len(m.payload) => p.state = "mcWAIT_FIRST_CRC_BYTE"
  /\ i = 5 + Len(m.payload) => p.state = "mcWAIT_SECOND_CRC_BYTE"
  /\ i = 6 + Len(m.payload) => p.state = "mcCOMPLETE"
  /\ i < 6 + Len(m.payload) => p.crc = E!Checksum(SubSeq(Body(m), 1, i))

(***************************************************************************)
(* Which byte of the body comes next.                                      *)
(***************************************************************************)
LEMMA BodyBytes ==
  ASSUME NEW m \in Messages, NEW n \in Nat, n = Len(m.payload), NEW i \in Nat, i < 6 + n
  PROVE  LET C == CrcBytes(E!Checksum(Covered(m))) IN
         /\ Body(m)[i + 1] \in Bytes
         /\ i < 4 => Body(m)[i + 1] = m.header[i + 1]
         /\ i >= 4 /\ i < 4 + n => Body(m)[i + 1] = m.payload[(i - 4) + 1]
         /\ i = 4 + n => Body(m)[i + 1] = C[1]
         /\ i = 5 + n => Body(m)[i + 1] = C[2]
<1> DEFINE C == CrcBytes(E!Checksum(Covered(m)))
           V == Covered(m)
           B == Body(m)
           h == m.header
           p == m.payload
<1>1. /\ h \in Seq(Bytes) /\ Len(h) = 4 /\ p \in Seq(Bytes) /\ Len(p) = n
      /\ V \in Seq(Bytes) /\ Len(V) = 4 + n
      /\ C \in Seq(Bytes) /\ Len(C) = 2
      /\ B \in Seq(Bytes) /\ Len(B) = 6 + n
  BY MessageParts
<1>2. V = h \o p /\ B = V \o C
  BY DEF Covered, Body
<1> HIDE DEF C, V, B, h, p
<1>3. i + 1 \in 1 .. 6 + n
  OBVIOUS
<1>4. B[i + 1] \in Bytes
  BY <1>1, <1>3
<1>5. ASSUME i < 4 + n PROVE B[i + 1] = V[i + 1]
  <2>1. i + 1 \in 1 .. Len(V)
    BY <1>1, <1>5
  <2> QED BY <1>1, <1>2, <2>1, Concat
<1>6. ASSUME i < 4 PROVE B[i + 1] = h[i + 1]
  <2>1. i + 1 \in 1 .. Len(h) /\ i < 4 + n
    BY <1>1, <1>6
  <2>2. V[i + 1] = h[i + 1]
    BY <1>1, <1>2, <2>1, Concat
  <2> QED BY <1>5, <2>1, <2>2
<1>7. ASSUME i >= 4, i < 4 + n PROVE B[i + 1] = p[(i - 4) + 1]
  <2>1. PICK k : k = (i - 4) + 1
    OBVIOUS
  <2>2. k \in 1 .. n /\ 4 + k = i + 1
    BY <1>7, <2>1
  <2>3. V[Len(h) + k] = p[k]
    BY <1>1, <1>2, <2>2, Concat
  <2> QED BY <1>1, <1>5, <1>7, <2>1, <2>2, <2>3
<1>8. ASSUME NEW k \in 1 .. 2, i + 1 = (4 + n) + k PROVE B[i + 1] = C[k]
  <2>0. k \in 1 .. Len(C)
    BY <1>1
  <2>1. B[Len(V) + k] = C[k]
    <3>1. V \in Seq(Bytes) /\ C \in Seq(Bytes)
      BY <1>1
    <3>2. (V \o C)[Len(V) + k] = C[k]
      BY <2>0, <3>1, Concat
    <3> QED BY <1>2, <3>2
  <2> QED BY <1>1, <1>8, <2>1
<1>9. i = 4 + n => B[i + 1] = C[1]
  BY <1>8
<1>10. i = 5 + n => B[i + 1] = C[2]
  BY <1>8
<1> QED BY <1>4, <1>6, <1>7, <1>9, <1>10 DEF C, B, h, p

(***************************************************************************)
(* The checksum of a longer part of the body.                              *)
(***************************************************************************)
LEMMA BodyChecksum ==
  ASSUME NEW m \in Messages, NEW i \in Nat, i < Len(Body(m))
  PROVE  E!Checksum(SubSeq(Body(m), 1, i + 1)) = DoCrc(E!Checksum(SubSeq(Body(m), 1, i)), Body(m)[i + 1])
<1>1. PICK s, d : s = SubSeq(Body(m), 1, i) /\ d = Body(m)[i + 1]
  OBVIOUS
<1>2. Body(m) \in Seq(Bytes)
  BY MessageParts
<1>3. s \in Seq(Bytes) /\ d \in Bytes /\ SubSeq(Body(m), 1, i + 1) = Append(s, d)
  BY <1>1, <1>2, PrefixGrows
<1>4. E!Checksum(Append(s, d)) = DoCrc(E!Checksum(s), d)
  BY <1>3, AppendByte
<1> QED BY <1>1, <1>3, <1>4

(***************************************************************************)
(* The checksum over header and payload.                                   *)
(***************************************************************************)
LEMMA CoveredPrefix ==
  ASSUME NEW m \in Messages
  PROVE  SubSeq(Body(m), 1, 4 + Len(m.payload)) = Covered(m)
<1> DEFINE V == Covered(m)
           C == CrcBytes(E!Checksum(Covered(m)))
<1>1. V \in Seq(Bytes) /\ C \in Seq(Bytes) /\ Len(V) = 4 + Len(m.payload)
  BY MessageParts
<1>2. Body(m) = V \o C
  BY DEF Body
<1> HIDE DEF V, C
<1>3. SubSeq(V \o C, 1, Len(V)) = V
  BY <1>1
<1> QED BY <1>1, <1>2, <1>3 DEF V

(***************************************************************************)
(* A byte of the header.                                                   *)
(***************************************************************************)
LEMMA AcceptHeader ==
  ASSUME NEW m \in Messages, NEW i \in Nat, i < 4,
         NEW p \in Parsers, Holds(p, m, i)
  PROVE  LET q == Accept(p, Body(m)[i + 1]) IN
         Holds(q, m, i + 1) /\ q.lastWasEsc = p.lastWasEsc
<1> PICK n \in Nat : n = Len(m.payload)
  BY MessageParts
<1>n. n = Len(m.payload)
  OBVIOUS
<1> PICK d, h, pl, B, c : d = Body(m)[i + 1] /\ h = m.header /\ pl = m.payload /\ B = Body(m)
                          /\ c = DoCrc(p.crc, d)
  OBVIOUS
<1> PICK hh : hh = SubSeq(h, 1, i + 1)
  OBVIOUS
<1>0. d = Body(m)[i + 1] /\ h = m.header /\ pl = m.payload /\ B = Body(m) /\ c = DoCrc(p.crc, d)
      /\ hh = SubSeq(h, 1, i + 1)
  OBVIOUS
<1>1. /\ h \in Seq(Bytes) /\ Len(h) = 4 /\ pl \in Seq(Bytes) /\ Len(pl) = n
      /\ n = h[4] /\ n <= MaxPayload /\ Len(B) = 6 + n
  BY <1>0, <1>n, MessageParts
<1>2. /\ p.state = "mcWAIT_HEADER" /\ p.header = SubSeq(h, 1, i) /\ p.data = <<>>
      /\ p.crc = E!Checksum(SubSeq(B, 1, i))
  <2>1. i < 4 /\ i < 6 + n
    OBVIOUS
  <2> QED BY <1>0, <1>n, <2>1 DEF Holds
<1>3. d = h[i + 1]
  <2>1. i < 6 + n
    OBVIOUS
  <2> QED BY <1>0, <1>n, <2>1, BodyBytes
<1>4. hh = Append(p.header, d) /\ Len(hh) = i + 1
  <2>1. i < Len(h)
    BY <1>1
  <2>2. SubSeq(h, 1, i) \in Seq(Bytes) /\ Len(SubSeq(h, 1, i)) = i /\ d \in Bytes
        /\ hh = Append(SubSeq(h, 1, i), d)
    BY <1>0, <1>1, <1>3, <2>1, PrefixGrows
  <2> QED BY <1>2, <2>2
<1>5. c = E!Checksum(SubSeq(B, 1, i + 1))
  <2>1. i < Len(B)
    BY <1>1
  <2> QED BY <1>0, <1>2, <2>1, BodyChecksum
<1>6. i + 1 = 4 => hh = h
  BY <1>0, <1>1, PrefixEnds
<1>7. Accept(p, d) = [p EXCEPT !.header = hh, !.crc = c,
                               !.state = IF i + 1 = 4 THEN AfterHeader(hh) ELSE p.state]
  BY <1>0, <1>2, <1>4 DEF Accept, HeaderByte, HeaderSize
<1> PICK q : q = Accept(p, d)
  OBVIOUS
<1>8. /\ q.header = hh /\ q.crc = c /\ q.data = <<>> /\ q.lastWasEsc = p.lastWasEsc
      /\ q.state = IF i + 1 = 4 THEN AfterHeader(hh) ELSE "mcWAIT_HEADER"
  BY <1>2, <1>7 DEF Parsers
<1>9. CASE i + 1 < 4
  <2>1. q.state = "mcWAIT_HEADER"
    BY <1>8, <1>9
  <2>2. /\ i + 1 # 4 /\ ~(i + 1 >= 4) /\ ~(i + 1 >= 4 + n) /\ i + 1 # 4 + n /\ i + 1 # 5 + n
        /\ i + 1 # 6 + n
    BY <1>9
  <2>3. Holds(q, m, i + 1)
    BY <1>0, <1>n, <1>5, <1>8, <2>1, <2>2 DEF Holds
  <2> QED BY <1>0, <1>8, <2>3
<1>10. CASE i + 1 = 4
  <2>1. q.state = AfterHeader(h) /\ q.header = h
    BY <1>6, <1>8, <1>10
  <2>2. AfterHeader(h) = IF n = 0 THEN "mcWAIT_FIRST_CRC_BYTE" ELSE "mcWAIT_DATA"
    <3>1. DataLen(h) = n /\ MaxPayload \in Nat
      BY <1>1, ParserAssumption DEF DataLen
    <3>2. ~(DataLen(h) > MaxPayload)
      BY <1>1, <3>1
    <3>3. CASE n = 0
      BY <3>1, <3>2, <3>3 DEF AfterHeader
    <3>4. CASE n # 0
      BY <3>1, <3>2, <3>4 DEF AfterHeader
    <3> QED BY <3>3, <3>4
  <2>3. SubSeq(pl, 1, 0) = <<>> /\ (n = 0 => pl = <<>>)
    <3>1. SubSeq(pl, 1, 0) = <<>> /\ SubSeq(pl, 1, Len(pl)) = pl
      BY <1>1, PrefixEnds
    <3>2. n = 0 => SubSeq(pl, 1, Len(pl)) = SubSeq(pl, 1, 0)
      BY <1>1
    <3> QED BY <3>1, <3>2
  <2>4. /\ ~(i + 1 < 4) /\ (i + 1) - 4 = 0 /\ i + 1 # 5 + n /\ i + 1 # 6 + n
        /\ (i + 1 >= 4 + n <=> n = 0) /\ (i + 1 < 4 + n <=> n # 0) /\ (i + 1 = 4 + n <=> n = 0)
    BY <1>10
  <2>5. Holds(q, m, i + 1)
    <3>1. CASE n = 0
      BY <1>0, <1>n, <1>5, <1>8, <2>1, <2>2, <2>3, <2>4, <3>1 DEF Holds
    <3>2. CASE n # 0
      BY <1>0, <1>n, <1>5, <1>8, <2>1, <2>2, <2>3, <2>4, <3>2 DEF Holds
    <3> QED BY <3>1, <3>2
  <2> QED BY <1>0, <1>8, <2>5
<1>11. i + 1 < 4 \/ i + 1 = 4
  OBVIOUS
<1> QED BY <1>9, <1>10, <1>11

(***************************************************************************)
(* A byte of the payload.                                                  *)
(***************************************************************************)
LEMMA AcceptData ==
  ASSUME NEW m \in Messages, NEW i \in Nat, i >= 4, i < 4 + Len(m.payload),
         NEW p \in Parsers, Holds(p, m, i)
  PROVE  LET q == Accept(p, Body(m)[i + 1]) IN
         Holds(q, m, i + 1) /\ q.lastWasEsc = p.lastWasEsc
<1> PICK n \in Nat : n = Len(m.payload)
  BY MessageParts
<1>n. n = Len(m.payload) /\ i >= 4 /\ i < 4 + n
  OBVIOUS
<1> PICK d, h, pl, B, c, j : d = Body(m)[i + 1] /\ h = m.header /\ pl = m.payload /\ B = Body(m)
                             /\ c = DoCrc(p.crc, d) /\ j = i - 4
  OBVIOUS
<1> PICK dd : dd = SubSeq(pl, 1, j + 1)
  OBVIOUS
<1>0. d = Body(m)[i + 1] /\ h = m.header /\ pl = m.payload /\ B = Body(m) /\ c = DoCrc(p.crc, d)
      /\ j = i - 4 /\ dd = SubSeq(pl, 1, j + 1)
  OBVIOUS
<1>1. /\ h \in Seq(Bytes) /\ Len(h) = 4 /\ pl \in Seq(Bytes) /\ Len(pl) = n
      /\ n = h[4] /\ n <= MaxPayload /\ Len(B) = 6 + n
      /\ j \in Nat /\ j < n
  BY <1>0, <1>n, MessageParts
<1>2. /\ p.state = "mcWAIT_DATA" /\ p.header = h /\ p.data = SubSeq(pl, 1, j)
      /\ p.crc = E!Checksum(SubSeq(B, 1, i))
  <2>1. i < 6 + n
    BY <1>n
  <2> QED BY <1>0, <1>n, <2>1 DEF Holds
<1>3. d = pl[j + 1]
  <2>1. i < 6 + n
    BY <1>n
  <2> QED BY <1>0, <1>n, <2>1, BodyBytes
<1>4. dd = Append(p.data, d) /\ Len(dd) = j + 1
  <2>1. j < Len(pl)
    BY <1>1
  <2>2. /\ SubSeq(pl, 1, j) \in Seq(Bytes) /\ Len(SubSeq(pl, 1, j)) = j
        /\ pl[j + 1] \in Bytes /\ SubSeq(pl, 1, j + 1) = Append(SubSeq(pl, 1, j), pl[j + 1])
    BY <1>1, <2>1, PrefixGrows
  <2>3. dd = Append(p.data, d)
    BY <1>0, <1>2, <1>3, <2>2
  <2>4. Len(Append(SubSeq(pl, 1, j), pl[j + 1])) = j + 1
    <3>1. \A s \in Seq(Bytes), b \in Bytes : Len(s) = j => Len(Append(s, b)) = j + 1
      OBVIOUS
    <3> QED BY <2>2, <3>1
  <2> QED BY <1>0, <2>2, <2>3, <2>4
<1>5. c = E!Checksum(SubSeq(B, 1, i + 1))
  <2>1. i < Len(B)
    BY <1>1, <1>n
  <2> QED BY <1>0, <1>2, <2>1, BodyChecksum
<1>6. j + 1 = n => dd = pl
  BY <1>0, <1>1, PrefixEnds
<1>7. Accept(p, d) = [p EXCEPT !.data = dd, !.crc = c,
                               !.state = IF j + 1 = n THEN "mcWAIT_FIRST_CRC_BYTE" ELSE "mcWAIT_DATA"]
  BY <1>0, <1>1, <1>2, <1>4 DEF Accept, DataByte, DataLen
<1> PICK q : q = Accept(p, d)
  OBVIOUS
<1>8. /\ q.header = h /\ q.crc = c /\ q.data = dd /\ q.lastWasEsc = p.lastWasEsc
      /\ q.state = IF j + 1 = n THEN "mcWAIT_FIRST_CRC_BYTE" ELSE "mcWAIT_DATA"
  BY <1>2, <1>7 DEF Parsers
<1>9. CASE j + 1 = n
  <2>1. /\ i + 1 = 4 + n /\ i + 1 >= 4 /\ ~(i + 1 < 4) /\ ~(i + 1 < 4 + n) /\ i + 1 # 5 + n
        /\ i + 1 # 6 + n
    BY <1>0, <1>1, <1>9
  <2>2. Holds(q, m, i + 1)
    BY <1>0, <1>n, <1>5, <1>6, <1>8, <1>9, <2>1 DEF Holds
  <2> QED BY <1>0, <1>8, <2>2
<1>10. CASE j + 1 # n
  <2>1. /\ i + 1 < 4 + n /\ i + 1 >= 4 /\ ~(i + 1 < 4) /\ ~(i + 1 >= 4 + n) /\ i + 1 # 4 + n
        /\ i + 1 # 5 + n /\ i + 1 # 6 + n /\ (i + 1) - 4 = j + 1
    <3>1. i = j + 4 /\ j \in Nat /\ j < n /\ j + 1 # n
      BY <1>0, <1>1, <1>10
    <3>2. j + 1 < n
      BY <3>1
    <3> QED BY <3>1, <3>2
  <2>2. Holds(q, m, i + 1)
    BY <1>0, <1>n, <1>5, <1>8, <1>10, <2>1 DEF Holds
  <2> QED BY <1>0, <1>8, <2>2
<1> QED BY <1>9, <1>10

(***************************************************************************)
(* The two bytes of the checksum.                                          *)
(***************************************************************************)
LEMMA AcceptCrc ==
  ASSUME NEW m \in Messages, NEW i \in Nat, i >= 4 + Len(m.payload), i < 6 + Len(m.payload),
         NEW p \in Parsers, Holds(p, m, i)
  PROVE  LET q == Accept(p, Body(m)[i + 1]) IN
         Holds(q, m, i + 1) /\ q.lastWasEsc = p.lastWasEsc
<1> PICK n \in Nat : n = Len(m.payload)
  BY MessageParts
<1>n. n = Len(m.payload) /\ i >= 4 + n /\ i < 6 + n /\ i >= 4
  OBVIOUS
<1> PICK d, h, pl, B, c, V : d = Body(m)[i + 1] /\ h = m.header /\ pl = m.payload /\ B = Body(m)
                             /\ c = DoCrc(p.crc, d) /\ V = E!Checksum(Covered(m))
  OBVIOUS
<1>0. d = Body(m)[i + 1] /\ h = m.header /\ pl = m.payload /\ B = Body(m) /\ c = DoCrc(p.crc, d)
      /\ V = E!Checksum(Covered(m))
  OBVIOUS
<1>1. Len(B) = 6 + n /\ V \in CrcValues
  BY <1>0, <1>n, MessageParts
<1>2. /\ p.header = h /\ p.data = pl
      /\ p.crc = E!Checksum(SubSeq(B, 1, i))
  BY <1>0, <1>n DEF Holds
<1>3. c = E!Checksum(SubSeq(B, 1, i + 1))
  <2>1. i < Len(B)
    BY <1>1, <1>n
  <2> QED BY <1>0, <1>2, <2>1, BodyChecksum
<1> PICK q : q = Accept(p, d)
  OBVIOUS
<1>4. CASE i = 4 + n
  <2>1. p.state = "mcWAIT_FIRST_CRC_BYTE"
    BY <1>n, <1>4 DEF Holds
  <2>2. q = [p EXCEPT !.crc = c, !.state = "mcWAIT_SECOND_CRC_BYTE"]
    BY <1>0, <2>1 DEF Accept, FirstCrcByte
  <2>3. /\ q.header = h /\ q.data = pl /\ q.crc = c /\ q.state = "mcWAIT_SECOND_CRC_BYTE"
        /\ q.lastWasEsc = p.lastWasEsc
    BY <1>2, <2>2 DEF Parsers
  <2>4. /\ i + 1 = 5 + n /\ i + 1 >= 4 + n /\ i + 1 >= 4 /\ ~(i + 1 < 4) /\ ~(i + 1 < 4 + n)
        /\ i + 1 # 4 + n /\ i + 1 # 6 + n
    BY <1>4
  <2>5. Holds(q, m, i + 1)
    BY <1>0, <1>n, <1>3, <2>3, <2>4 DEF Holds
  <2> QED BY <1>0, <2>3, <2>5
<1>5. CASE i = 5 + n
  <2>1. p.state = "mcWAIT_SECOND_CRC_BYTE"
    BY <1>n, <1>5 DEF Holds
  <2>2. c = CrcGood
    <3>1. d = CrcBytes(V)[2]
      BY <1>0, <1>n, <1>5, BodyBytes
    <3>2. PICK k \in Nat : k = 4 + n
      OBVIOUS
    <3>3. E!Checksum(SubSeq(B, 1, k)) = V
      BY <1>0, <1>n, <3>2, CoveredPrefix
    <3>4. B[k + 1] = CrcBytes(V)[1] /\ k < Len(B)
      <4>1. k < 6 + n /\ k < Len(B)
        BY <1>1, <3>2
      <4> QED BY <1>0, <1>n, <3>2, <4>1, BodyBytes
    <3>5. E!Checksum(SubSeq(B, 1, k + 1)) = DoCrc(V, CrcBytes(V)[1])
      BY <1>0, <3>3, <3>4, BodyChecksum
    <3>6. k + 1 = i
      BY <1>5, <3>2
    <3>7. p.crc = DoCrc(V, CrcBytes(V)[1])
      BY <1>2, <3>5, <3>6
    <3> QED BY <1>0, <1>1, <3>1, <3>7, CodeAssumption
  <2>3. q = [p EXCEPT !.crc = c, !.state = "mcCOMPLETE"]
    BY <1>0, <2>1, <2>2 DEF Accept, SecondCrcByte
  <2>4. /\ q.header = h /\ q.data = pl /\ q.crc = c /\ q.state = "mcCOMPLETE"
        /\ q.lastWasEsc = p.lastWasEsc
    BY <1>2, <2>3 DEF Parsers
  <2>5. /\ i + 1 = 6 + n /\ i + 1 >= 4 + n /\ i + 1 >= 4 /\ ~(i + 1 < 4) /\ ~(i + 1 < 4 + n)
        /\ i + 1 # 4 + n /\ i + 1 # 5 + n /\ ~(i + 1 < 6 + n)
    BY <1>5
  <2>6. Holds(q, m, i + 1)
    BY <1>0, <1>n, <2>4, <2>5 DEF Holds
  <2> QED BY <1>0, <2>4, <2>6
<1>6. i = 4 + n \/ i = 5 + n
  BY <1>n
<1> QED BY <1>4, <1>5, <1>6

(***************************************************************************)
(* The parser accepts the body of a message byte by byte.                  *)
(***************************************************************************)
LEMMA AcceptHolds ==
  ASSUME NEW m \in Messages, NEW i \in Nat, i < Len(Body(m)),
         NEW p \in Parsers, Holds(p, m, i)
  PROVE  LET q == Accept(p, Body(m)[i + 1]) IN
         Holds(q, m, i + 1) /\ q.lastWasEsc = p.lastWasEsc
<1>1. Len(m.payload) \in Nat /\ Len(Body(m)) = 6 + Len(m.payload)
  BY MessageParts
<1>2. CASE i < 4
  BY <1>2, AcceptHeader
<1>3. CASE i >= 4 /\ i < 4 + Len(m.payload)
  BY <1>3, AcceptData
<1>4. CASE i >= 4 + Len(m.payload)
  BY <1>1, <1>4, AcceptCrc
<1> QED BY <1>1, <1>2, <1>3, <1>4

(***************************************************************************)
(* What is written for the first i bytes of a body.                        *)
(***************************************************************************)
Written(m, i) == E!Escaped(SubSeq(Body(m), 1, i))

Special(d) == d \in {ESC, FLAG}

(***************************************************************************)
(* Where the bytes of a body are in the frame.                             *)
(***************************************************************************)
LEMMA FrameBytes ==
  ASSUME NEW m \in Messages, NEW i \in Nat, i < Len(Body(m))
  PROVE  LET w == Len(Written(m, i))
             e == E!Escape(Body(m)[i + 1])
         IN  /\ w \in Nat /\ Len(e) \in 1 .. 2
             /\ Len(Written(m, i + 1)) = w + Len(e)
             /\ \A x \in 1 .. Len(e) : Frame(m)[(1 + w) + x] = e[x]
             /\ (1 + w) + Len(e) < Len(Frame(m))
<1> PICK B, s, d, t : B = Body(m) /\ s = SubSeq(B, 1, i) /\ d = B[i + 1] /\ t = SubSeq(B, i + 2, Len(B))
  OBVIOUS
<1>0. B = Body(m) /\ s = SubSeq(B, 1, i) /\ d = B[i + 1] /\ t = SubSeq(B, i + 2, Len(B))
  OBVIOUS
<1>1. B \in Seq(Bytes) /\ i < Len(B)
  BY <1>0, MessageParts
<1>2. s \in Seq(Bytes) /\ d \in Bytes /\ SubSeq(B, 1, i + 1) = Append(s, d) /\ Len(s) = i
  BY <1>0, <1>1, PrefixGrows
<1>3. t \in Seq(Bytes)
  <2>1. Len(B) \in Nat /\ i + 2 \in 1 .. Len(B) + 1
    BY <1>1
  <2> QED BY <1>0, <1>1, <2>1
<1>4. B = Append(s, d) \o t
  <2>1. PICK k : k = i + 1
    OBVIOUS
  <2>2. 1 \in 1 .. Len(B) + 1 /\ k \in 1 - 1 .. Len(B) /\ Len(B) \in k .. Len(B)
    BY <1>1, <2>1
  <2>3. SubSeq(B, 1, k) \o SubSeq(B, k + 1, Len(B)) = SubSeq(B, 1, Len(B))
    BY <1>1, <2>2, ConcatAdjacentSubSeq
  <2>4. k + 1 = i + 2
    BY <2>1
  <2> QED BY <1>0, <1>1, <1>2, <2>1, <2>3, <2>4, SubSeqFull
<1> PICK es, e, et : es = E!Escaped(s) /\ e = E!Escape(d) /\ et = E!Escaped(t)
  OBVIOUS
<1>5. es = E!Escaped(s) /\ e = E!Escape(d) /\ et = E!Escaped(t)
  OBVIOUS
<1>6. es \in Seq(Bytes) /\ e \in Seq(Bytes) /\ Len(e) \in 1 .. 2 /\ et \in Seq(Bytes)
  BY <1>2, <1>3, <1>5, AppendByte, EscapeType
<1>7. E!Escaped(Append(s, d)) = es \o e
  BY <1>2, <1>5, AppendByte
<1>8. E!Escaped(B) = (es \o e) \o et
  <2>1. Append(s, d) \in Seq(Bytes)
    BY <1>2
  <2>2. E!Escaped(Append(s, d) \o t) = E!Escaped(Append(s, d)) \o E!Escaped(t)
    BY <1>3, <2>1, EscapedSections
  <2> QED BY <1>4, <1>5, <1>7, <2>2
<1>9. Frame(m) = (<<FLAG>> \o ((es \o e) \o et)) \o <<FLAG>>
  BY <1>0, <1>8, FrameIs
<1> PICK F, f, w : F = Frame(m) /\ f = <<FLAG>> /\ w = Len(es)
  OBVIOUS
<1>10. F = Frame(m) /\ f = <<FLAG>> /\ w = Len(es)
  OBVIOUS
<1>11. F = (f \o ((es \o e) \o et)) \o f /\ f \in Seq(Bytes) /\ Len(f) = 1 /\ w \in Nat
  <2>1. FLAG \in Bytes
    BY ParserAssumption
  <2> QED BY <1>6, <1>9, <1>10, <2>1
<1> PICK a, b, g : a = es \o e /\ b = a \o et /\ g = f \o b
  OBVIOUS
<1>12. a = es \o e /\ b = a \o et /\ g = f \o b
  OBVIOUS
<1>13. /\ a \in Seq(Bytes) /\ Len(a) = w + Len(e)
       /\ \A x \in 1 .. Len(e) : a[w + x] = e[x]
  BY <1>6, <1>10, <1>12, Concat
<1>14. /\ b \in Seq(Bytes) /\ Len(b) = Len(a) + Len(et) /\ Len(et) \in Nat
       /\ \A x \in 1 .. Len(a) : b[x] = a[x]
  BY <1>6, <1>12, <1>13, Concat
<1>15. /\ g \in Seq(Bytes) /\ Len(g) = 1 + Len(b)
       /\ \A x \in 1 .. Len(b) : g[1 + x] = b[x]
  BY <1>11, <1>12, <1>14, Concat
<1>16. /\ Len(F) = Len(g) + 1
       /\ \A x \in 1 .. Len(g) : F[x] = g[x]
  BY <1>11, <1>12, <1>15, Concat
<1>17. ASSUME NEW x \in 1 .. Len(e) PROVE F[(1 + w) + x] = e[x]
  <2>1. PICK y \in Nat : y = w + x
    BY <1>6, <1>11
  <2> PICK z : z = 1 + y
    OBVIOUS
  <2>2. y \in 1 .. Len(a) /\ y \in 1 .. Len(b) /\ z \in 1 .. Len(g)
    BY <1>6, <1>11, <1>13, <1>14, <1>15, <2>1
  <2>3. F[z] = g[z] /\ g[1 + y] = b[y] /\ b[y] = a[y]
    <3>1. F[z] = g[z]
      BY <1>16, <2>2
    <3>2. g[1 + y] = b[y]
      BY <1>15, <2>2
    <3>3. b[y] = a[y]
      BY <1>14, <2>2
    <3> QED BY <3>1, <3>2, <3>3
  <2>4. a[y] = e[x]
    BY <1>13, <2>1
  <2>5. z = 1 + y /\ z = (1 + w) + x
    BY <1>6, <1>11, <2>1
  <2> QED BY <2>3, <2>4, <2>5
<1>18. (1 + w) + Len(e) < Len(F)
  <2>1. PICK y, z : y = Len(e) /\ z = Len(et)
    OBVIOUS
  <2>2. y \in Nat /\ z \in Nat /\ Len(F) = ((1 + ((w + y) + z)) + 1)
    BY <1>6, <1>13, <1>14, <1>15, <1>16, <2>1
  <2> QED BY <1>11, <2>1, <2>2
<1>19. Len(Written(m, i)) = w /\ Len(Written(m, i + 1)) = w + Len(e)
  BY <1>0, <1>2, <1>5, <1>7, <1>10, <1>12, <1>13 DEF Written
<1> QED BY <1>0, <1>5, <1>6, <1>10, <1>11, <1>17, <1>18, <1>19

(***************************************************************************)
(* A frame is between two flags, with something between them.              *)
(***************************************************************************)
LEMMA FrameEnds ==
  ASSUME NEW m \in Messages
  PROVE  /\ Frame(m) \in Seq(Bytes) /\ Len(Frame(m)) \in Nat /\ Len(Frame(m)) >= 3
         /\ Frame(m)[1] = FLAG /\ Frame(m)[Len(Frame(m))] = FLAG
         /\ Len(Frame(m)) = 2 + Len(Written(m, Len(Body(m))))
         /\ Len(Written(m, 0)) = 0
<1> PICK F, f, e : F = Frame(m) /\ f = <<FLAG>> /\ e = E!Escaped(Body(m))
  OBVIOUS
<1>0. F = Frame(m) /\ f = <<FLAG>> /\ e = E!Escaped(Body(m))
  OBVIOUS
<1>1. F = (f \o e) \o f /\ e \in Seq(Bytes)
  BY <1>0, FrameIs
<1>2. f \in Seq(Bytes) /\ Len(f) = 1 /\ f[1] = FLAG
  BY <1>0, ParserAssumption
<1> PICK g : g = f \o e
  OBVIOUS
<1>3. /\ g \in Seq(Bytes) /\ Len(g) = 1 + Len(e) /\ Len(e) \in Nat
      /\ \A k \in 1 .. 1 : g[k] = f[k]
  BY <1>1, <1>2, Concat
<1>4. /\ F \in Seq(Bytes) /\ Len(F) = Len(g) + 1
      /\ (\A k \in 1 .. Len(g) : F[k] = g[k])
      /\ \A k \in 1 .. 1 : F[Len(g) + k] = f[k]
  BY <1>1, <1>2, <1>3, Concat
<1>5. F[1] = FLAG
  <2>1. 1 \in 1 .. Len(g) /\ 1 \in 1 .. 1
    BY <1>3
  <2> QED BY <1>2, <1>3, <1>4, <2>1
<1>6. F[Len(F)] = FLAG
  <2>1. 1 \in 1 .. 1
    OBVIOUS
  <2> QED BY <1>2, <1>4, <2>1
<1>7. Written(m, Len(Body(m))) = e /\ Body(m) \in Seq(Bytes)
  BY <1>0, MessageParts, PrefixEnds DEF Written
<1>8. Written(m, 0) = <<>>
  <2>1. FLAG \in Bytes /\ <<>> \in Seq(Bytes)
    BY ParserAssumption
  <2> QED BY <1>7, <2>1, AppendByte, PrefixEnds DEF Written
<1>9. Len(F) >= 3
  <2>1. Len(m.payload) \in Nat /\ Len(Body(m)) = 6 + Len(m.payload)
    BY MessageParts
  <2>2. 0 \in Nat /\ 0 < Len(Body(m))
    BY <2>1
  <2>3. PICK x : x = Len(E!Escape(Body(m)[0 + 1]))
    OBVIOUS
  <2>4. x \in 1 .. 2 /\ (1 + Len(Written(m, 0))) + x < Len(F)
    BY <1>0, <2>2, <2>3, FrameBytes
  <2>5. Len(Written(m, 0)) = 0 /\ Len(F) \in Nat
    BY <1>3, <1>4, <1>8
  <2> QED BY <2>4, <2>5
<1>10. Len(F) = 2 + Len(e) /\ Len(F) \in Nat
  BY <1>3, <1>4
<1> QED BY <1>0, <1>4, <1>5, <1>6, <1>7, <1>8, <1>9, <1>10

(***************************************************************************)
(* The parser has taken the first c bytes of the frame of m: the opening   *)
(* flag, what was written for the first bytes of the body and, of a byte   *)
(* that is escaped, perhaps the escape character.                          *)
(***************************************************************************)
ReachedAt(p, m, c, i) ==
  /\ Holds(p, m, i)
  /\ \/ ~p.lastWasEsc /\ c = 1 + Len(Written(m, i))
     \/ p.lastWasEsc /\ c = 2 + Len(Written(m, i)) /\ i < Len(Body(m)) /\ Special(Body(m)[i + 1])

Reached(p, m, c) == \E i \in 0 .. Len(Body(m)) : ReachedAt(p, m, c, i)

(***************************************************************************)
(* In front of the last byte of the body, the checksum is not reached.     *)
(***************************************************************************)
LEMMA ReachedBefore ==
  ASSUME NEW m \in Messages, NEW p, NEW c, NEW i \in Nat, i < Len(Body(m)), ReachedAt(p, m, c, i)
  PROVE  c \in Nat /\ c + 1 < Len(Frame(m)) /\ ~HasPacket(p)
<1> PICK w, e : w = Len(Written(m, i)) /\ e = Len(E!Escape(Body(m)[i + 1]))
  OBVIOUS
<1>1. w \in Nat /\ e \in 1 .. 2 /\ (1 + w) + e < Len(Frame(m))
  BY FrameBytes
<1>2. Special(Body(m)[i + 1]) => e = 2
  <2>1. PICK d : d = Body(m)[i + 1]
    OBVIOUS
  <2>2. ASSUME Special(d) PROVE Len(E!Escape(d)) = 2
    BY <2>2 DEF Special, E!Escape
  <2> QED BY <2>1, <2>2
<1>3. (c = 1 + w) \/ (c = 2 + w /\ e = 2)
  BY <1>2 DEF ReachedAt
<1>4. c \in Nat /\ c + 1 < Len(Frame(m))
  <2>1. PICK L : L = Len(Frame(m))
    OBVIOUS
  <2>2. L \in Nat /\ (1 + w) + e < L
    BY <1>1, <2>1, FrameEnds
  <2>3. \A x \in Nat, y \in 1 .. 2, z \in Nat :
          (1 + x) + y < z =>
            /\ 1 + x \in Nat /\ (1 + x) + 1 < z
            /\ y = 2 => 2 + x \in Nat /\ (2 + x) + 1 < z
    OBVIOUS
  <2>4. /\ 1 + w \in Nat /\ (1 + w) + 1 < L
        /\ e = 2 => 2 + w \in Nat /\ (2 + w) + 1 < L
    BY <1>1, <2>2, <2>3
  <2>5. c \in Nat /\ c + 1 < L
    BY <1>3, <2>4
  <2> QED BY <2>1, <2>5
<1>5. ~HasPacket(p)
  <2>1. PICK n \in Nat : n = Len(m.payload)
    BY MessageParts
  <2>2. i < 6 + n
    BY <2>1, MessageParts
  <2>3. \/ i < 4
        \/ i >= 4 /\ i < 4 + n
        \/ i = 4 + n
        \/ i = 5 + n
    BY <2>2
  <2> QED BY <2>1, <2>3 DEF ReachedAt, Holds, HasPacket
<1> QED BY <1>4, <1>5

(***************************************************************************)
(* After all of it, in front of the closing flag, the parser has a packet, *)
(* and it is the message.                                                  *)
(***************************************************************************)
LEMMA ReachedPacket ==
  ASSUME NEW m \in Messages, NEW p, NEW c, Reached(p, m, c)
  PROVE  /\ HasPacket(p) <=> c + 1 = Len(Frame(m))
         /\ HasPacket(p) => m = [header |-> p.header, payload |-> p.data]
<1>0. Len(Body(m)) \in Nat /\ Len(Frame(m)) \in Nat
  BY MessageParts, FrameEnds
<1>1. PICK i \in 0 .. Len(Body(m)) : ReachedAt(p, m, c, i)
  BY DEF Reached
<1>2. CASE i < Len(Body(m))
  <2>1. i \in Nat
    BY <1>0
  <2>2. c \in Nat /\ c + 1 < Len(Frame(m)) /\ ~HasPacket(p)
    BY <1>1, <1>2, <2>1, ReachedBefore
  <2> QED BY <1>0, <2>2
<1>3. CASE i = Len(Body(m))
  <2>1. PICK n \in Nat : n = Len(m.payload)
    BY MessageParts
  <2>2. i = 6 + n
    BY <1>3, <2>1, MessageParts
  <2>3. /\ i >= 4 /\ i >= 4 + n /\ i = 6 + n
    BY <2>2
  <2>4. HasPacket(p) /\ p.header = m.header /\ p.data = m.payload
    BY <1>1, <2>1, <2>3 DEF ReachedAt, Holds, HasPacket
  <2>5. c = 1 + Len(Written(m, i))
    BY <1>0, <1>1, <1>3 DEF ReachedAt
  <2>6. c + 1 = Len(Frame(m))
    <3>1. PICK w : w = Len(Written(m, i))
      OBVIOUS
    <3>2. Len(Frame(m)) = 2 + w /\ c = 1 + w
      BY <1>3, <2>5, <3>1, FrameEnds
    <3>3. w \in Int
      <4>1. E!Escaped(Body(m)) \in Seq(Bytes) /\ Body(m) \in Seq(Bytes)
        BY FrameIs, MessageParts
      <4>2. Written(m, i) = E!Escaped(Body(m))
        BY <1>3, <4>1, SubSeqFull DEF Written
      <4> QED BY <3>1, <4>1, <4>2
    <3> QED BY <3>2, <3>3
  <2> QED BY <2>4, <2>6, MessageParts
<1>4. i < Len(Body(m)) \/ i = Len(Body(m))
  BY <1>0
<1> QED BY <1>2, <1>3, <1>4

(***************************************************************************)
(* A flag starts a frame, whatever was before.                             *)
(***************************************************************************)
LEMMA ReachedFlag ==
  ASSUME NEW m \in Messages, NEW p \in Parsers
  PROVE  Reached(Receive(p, FLAG), m, 1) /\ ~HasPacket(Receive(p, FLAG))
<1> PICK q : q = Receive(p, FLAG)
  OBVIOUS
<1>1. q = DestroyPacket(p)
  BY ParserAssumption DEF Receive
<1>2. /\ q.state = "mcWAIT_HEADER" /\ q.header = <<>> /\ q.data = <<>> /\ q.crc = CrcInitial
      /\ ~q.lastWasEsc
  BY <1>1 DEF DestroyPacket, ParserCreate
<1>3. ~HasPacket(q)
  BY <1>2 DEF HasPacket
<1>4. PICK n \in Nat : n = Len(m.payload) /\ Len(Body(m)) = 6 + n
  BY MessageParts
<1>5. /\ 0 \in 0 .. Len(Body(m)) /\ 0 < 4 /\ ~(0 >= 4) /\ ~(0 >= 4 + n) /\ 0 # 4 + n /\ 0 # 5 + n
      /\ 0 # 6 + n
  BY <1>4
<1>6. SubSeq(m.header, 1, 0) = <<>> /\ SubSeq(Body(m), 1, 0) = <<>>
  BY SubSeqEmpty
<1>7. E!Checksum(<<>>) = CrcInitial
  <2>1. FLAG \in Bytes /\ <<>> \in Seq(Bytes)
    BY ParserAssumption
  <2> QED BY <2>1, AppendByte
<1>8. Holds(q, m, 0)
  BY <1>2, <1>4, <1>5, <1>6, <1>7 DEF Holds
<1>9. 1 = 1 + Len(Written(m, 0))
  BY FrameEnds
<1>10. ReachedAt(q, m, 1, 0)
  BY <1>2, <1>8, <1>9 DEF ReachedAt
<1> QED BY <1>3, <1>5, <1>10 DEF Reached

(***************************************************************************)
(* Every byte of a frame before the closing flag brings the parser one     *)
(* byte further: escape characters, and bytes that were escaped.           *)
(***************************************************************************)
LEMMA ReachedStep ==
  ASSUME NEW m \in Messages, NEW p \in Parsers, NEW c, Reached(p, m, c), c + 1 < Len(Frame(m))
  PROVE  Reached(Receive(p, Frame(m)[c + 1]), m, c + 1)
<1>0. Len(Body(m)) \in Nat /\ Len(Frame(m)) \in Nat
  BY MessageParts, FrameEnds
<1>1. PICK i \in 0 .. Len(Body(m)) : ReachedAt(p, m, c, i)
  BY DEF Reached
<1>2. i \in Nat /\ i < Len(Body(m))
  <2>1. ASSUME i = Len(Body(m)) PROVE FALSE
    <3>1. c = 1 + Len(Written(m, i))
      BY <1>0, <1>1, <2>1 DEF ReachedAt
    <3>2. PICK w : w = Len(Written(m, i))
      OBVIOUS
    <3>3. Len(Frame(m)) = 2 + w /\ c = 1 + w
      BY <2>1, <3>1, <3>2, FrameEnds
    <3>4. w \in Int
      <4>1. E!Escaped(Body(m)) \in Seq(Bytes) /\ Body(m) \in Seq(Bytes)
        BY FrameIs, MessageParts
      <4>2. Written(m, i) = E!Escaped(Body(m))
        BY <2>1, <4>1, SubSeqFull DEF Written
      <4> QED BY <3>2, <4>1, <4>2
    <3> QED BY <3>3, <3>4
  <2> QED BY <1>0, <2>1
<1> PICK w, d, e, byte, q : w = Len(Written(m, i)) /\ d = Body(m)[i + 1] /\ e = E!Escape(d)
                            /\ byte = Frame(m)[c + 1] /\ q = Receive(p, byte)
  OBVIOUS
<1>3. /\ w = Len(Written(m, i)) /\ d = Body(m)[i + 1] /\ e = E!Escape(d)
      /\ byte = Frame(m)[c + 1] /\ q = Receive(p, byte)
  OBVIOUS
<1>4. /\ w \in Nat /\ Len(e) \in 1 .. 2
      /\ Len(Written(m, i + 1)) = w + Len(e)
      /\ \A x \in 1 .. Len(e) : Frame(m)[(1 + w) + x] = e[x]
  BY <1>2, <1>3, FrameBytes
<1>5. d \in Bytes
  <2>1. Body(m) \in Seq(Bytes) /\ i + 1 \in 1 .. Len(Body(m))
    BY <1>0, <1>2, MessageParts
  <2> QED BY <1>3, <2>1
<1>6. Holds(p, m, i)
  BY <1>1 DEF ReachedAt
<1> PICK r : r = [p EXCEPT !.lastWasEsc = FALSE]
  OBVIOUS
<1>7. /\ r \in Parsers /\ ~r.lastWasEsc /\ Holds(r, m, i)
  <2>1. /\ r.state = p.state /\ r.header = p.header /\ r.data = p.data /\ r.crc = p.crc
        /\ r \in Parsers /\ r.lastWasEsc = FALSE
    BY DEF Parsers
  <2> QED BY <1>6, <2>1 DEF Holds
<1>8. Holds(Accept(r, d), m, i + 1) /\ ~Accept(r, d).lastWasEsc
  <2>1. /\ Holds(Accept(r, Body(m)[i + 1]), m, i + 1)
        /\ Accept(r, Body(m)[i + 1]).lastWasEsc = r.lastWasEsc
    BY <1>2, <1>7, AcceptHolds
  <2> QED BY <1>3, <1>7, <2>1
<1>9. i + 1 \in 0 .. Len(Body(m)) /\ i \in 0 .. Len(Body(m))
  BY <1>0, <1>2
<1>10. CASE ~p.lastWasEsc
  <2>1. c = 1 + w
    BY <1>1, <1>3, <1>10 DEF ReachedAt
  <2>2. byte = e[1]
    <3>1. 1 \in 1 .. Len(e)
      <4>1. \A x \in 1 .. 2 : 1 \in 1 .. x
        OBVIOUS
      <4> QED BY <1>4, <4>1
    <3>2. c + 1 = (1 + w) + 1
      BY <1>4, <2>1
    <3> QED BY <1>3, <1>4, <3>1, <3>2
  <2>3. CASE Special(d)
    <3>1. byte = ESC
      BY <1>3, <2>2, <2>3 DEF Special, E!Escape
    <3>2. q = [p EXCEPT !.lastWasEsc = TRUE]
      BY <1>3, <1>10, <3>1, ParserAssumption DEF Receive
    <3>3. /\ q.state = p.state /\ q.header = p.header /\ q.data = p.data /\ q.crc = p.crc
          /\ q.lastWasEsc = TRUE
      BY <3>2 DEF Parsers
    <3>4. Holds(q, m, i)
      BY <1>6, <3>3 DEF Holds
    <3>5. c + 1 = 2 + w
      BY <1>4, <2>1
    <3>6. ReachedAt(q, m, c + 1, i)
      BY <1>2, <1>3, <2>3, <3>3, <3>4, <3>5 DEF ReachedAt
    <3> QED BY <1>3, <1>9, <3>6 DEF Reached
  <2>4. CASE ~Special(d)
    <3>1. byte = d /\ Len(e) = 1
      BY <1>3, <2>2, <2>4 DEF Special, E!Escape
    <3>2. byte # FLAG /\ byte # ESC
      BY <2>4, <3>1 DEF Special
    <3>3. q = Accept(r, d)
      BY <1>3, <1>10, <3>1, <3>2 DEF Receive
    <3>4. c + 1 = 1 + Len(Written(m, i + 1))
      BY <1>4, <2>1, <3>1
    <3>5. ReachedAt(q, m, c + 1, i + 1)
      BY <1>8, <3>3, <3>4 DEF ReachedAt
    <3> QED BY <1>3, <1>9, <3>5 DEF Reached
  <2> QED BY <2>3, <2>4
<1>11. CASE p.lastWasEsc
  <2>1. c = 2 + w /\ Special(d)
    BY <1>1, <1>3, <1>11 DEF ReachedAt
  <2>2. e = <<ESC, Complement(d)>>
    BY <1>3, <2>1 DEF Special, E!Escape
  <2>3. Len(e) = 2 /\ e[2] = Complement(d)
    BY <2>2
  <2>4. byte = Complement(d)
    <3>1. 2 \in 1 .. Len(e) /\ c + 1 = (1 + w) + 2
      BY <1>4, <2>1, <2>3
    <3> QED BY <1>3, <1>4, <2>3, <3>1
  <2>5. byte # FLAG /\ Complement(byte) = d
    BY <1>5, <2>1, <2>4, CodeAssumption DEF Special
  <2>6. q = Accept(r, d)
    BY <1>3, <1>11, <2>5 DEF Receive
  <2>7. c + 1 = 1 + Len(Written(m, i + 1))
    BY <1>4, <2>1, <2>3
  <2>8. ReachedAt(q, m, c + 1, i + 1)
    BY <1>8, <2>6, <2>7 DEF ReachedAt
  <2> QED BY <1>3, <1>9, <2>8 DEF Reached
<1> QED BY <1>10, <1>11

-----------------------------------------------------------------------------
(***************************************************************************)
(* The bytes of an intact frame, and bytes that belong to none.            *)
(***************************************************************************)
LEMMA IntactBytes ==
  ASSUME NEW m \in Messages, sent \in Seq(Messages)
  PROVE  /\ Intact(Frame(m)) \in Seq(LineBytes)
         /\ Len(Intact(Frame(m))) = Len(Frame(m))
         /\ \A k \in 1 .. Len(Frame(m)) :
              Intact(Frame(m))[k] = [byte |-> Frame(m)[k], of |-> Len(sent) + 1, at |-> k]
<1>1. PICK F, L : F = Frame(m) /\ L = Len(Frame(m))
  OBVIOUS
<1>2. F \in Seq(Bytes) /\ L = Len(F) /\ L \in Nat
  BY <1>1, FrameEnds
<1>3. Len(sent) + 1 \in Nat
  OBVIOUS
<1>4. Intact(F) = [k \in 1 .. L |-> [byte |-> F[k], of |-> Len(sent) + 1, at |-> k]]
  BY <1>2 DEF Intact
<1>5. \A k \in 1 .. L : [byte |-> F[k], of |-> Len(sent) + 1, at |-> k] \in LineBytes
  BY <1>2, <1>3 DEF LineBytes
<1> HIDE DEF LineBytes
<1>6. Intact(F) \in Seq(LineBytes) /\ Len(Intact(F)) = L
  BY <1>2, <1>4, <1>5
<1> QED BY <1>1, <1>4, <1>6

LEMMA StrayBytes ==
  ASSUME NEW bytes \in Seq(Bytes), sent \in Seq(Messages)
  PROVE  /\ Stray(bytes) \in Seq(LineBytes)
         /\ Len(Stray(bytes)) = Len(bytes)
         /\ \A k \in 1 .. Len(bytes) :
              Stray(bytes)[k] = [byte |-> bytes[k], of |-> Len(sent), at |-> 0]
<1>1. Len(sent) \in Nat /\ Len(bytes) \in Nat
  OBVIOUS
<1>2. Stray(bytes) = [k \in 1 .. Len(bytes) |-> [byte |-> bytes[k], of |-> Len(sent), at |-> 0]]
  BY DEF Stray
<1>3. \A k \in 1 .. Len(bytes) : [byte |-> bytes[k], of |-> Len(sent), at |-> 0] \in LineBytes
  BY <1>1 DEF LineBytes
<1>4. Stray(bytes) \in Seq(LineBytes) /\ Len(Stray(bytes)) = Len(bytes)
  BY <1>1, <1>2, <1>3
<1> QED BY <1>2, <1>4

(***************************************************************************)
(* What is left of a frame that lost a byte.                               *)
(***************************************************************************)
LEMMA DamagedFrame ==
  ASSUME NEW m \in Messages, NEW k \in 1 .. Len(Frame(m))
  PROVE  RemoveAt(Frame(m), k) \in Seq(Bytes) /\ Len(RemoveAt(Frame(m), k)) = Len(Frame(m)) - 1
<1>1. PICK F : F = Frame(m)
  OBVIOUS
<1>2. F \in Seq(Bytes) /\ Len(F) \in Nat /\ k \in 1 .. Len(F)
  BY <1>1, FrameEnds
<1>3. SubSeq(F, 1, k - 1) \in Seq(Bytes) /\ Len(SubSeq(F, 1, k - 1)) = k - 1
  BY <1>2
<1>4. SubSeq(F, k + 1, Len(F)) \in Seq(Bytes) /\ Len(SubSeq(F, k + 1, Len(F))) = Len(F) - k
  BY <1>2
<1>5. PICK s, t : s = SubSeq(F, 1, k - 1) /\ t = SubSeq(F, k + 1, Len(F))
  OBVIOUS
<1>6. s \in Seq(Bytes) /\ t \in Seq(Bytes) /\ Len(s) = k - 1 /\ Len(t) = Len(F) - k
  BY <1>3, <1>4, <1>5
<1>7. s \o t \in Seq(Bytes) /\ Len(s \o t) = Len(s) + Len(t)
  BY <1>6, ConcatProperties
<1>8. Len(s) + Len(t) = Len(F) - 1
  BY <1>2, <1>6
<1>9. RemoveAt(F, k) = s \o t
  BY <1>5 DEF RemoveAt
<1> QED BY <1>1, <1>7, <1>8, <1>9

(***************************************************************************)
(* Every step preserves the types and the bounds of the parser.            *)
(***************************************************************************)
LEMMA WireStep ==
  ASSUME TypeOK, Bounds(parser), [Next]_wireVars
  PROVE  TypeOK' /\ Bounds(parser)'
<1>0. /\ line \in Seq(LineBytes) /\ buffer \in Seq(LineBytes) /\ parser \in Parsers
      /\ sent \in Seq(Messages) /\ received \in Seq(Packets) /\ noise \in 0 .. MaxNoise
  BY DEF TypeOK
<1>1. ASSUME NEW m \in Messages, Send(m) PROVE TypeOK' /\ Bounds(parser)'
  <2>1. Intact(Frame(m)) \in Seq(LineBytes)
    BY <1>0, IntactBytes
  <2>2. line' \in Seq(LineBytes)
    BY <1>0, <1>1, <2>1, ConcatProperties DEF Send
  <2>3. sent' \in Seq(Messages)
    BY <1>0, <1>1 DEF Send
  <2> QED BY <1>0, <1>1, <2>2, <2>3 DEF Send, TypeOK, Bounds
<1>2. ASSUME NEW m \in Messages, NEW k, SendDamaged(m, k) PROVE TypeOK' /\ Bounds(parser)'
  <2>1. k \in 1 .. Len(Frame(m))
    BY <1>2 DEF SendDamaged
  <2>2. Stray(RemoveAt(Frame(m), k)) \in Seq(LineBytes)
    BY <1>0, <2>1, DamagedFrame, StrayBytes
  <2>3. line' \in Seq(LineBytes)
    BY <1>0, <1>2, <2>2, ConcatProperties DEF SendDamaged
  <2>4. noise' \in 0 .. MaxNoise
    BY <1>0, <1>2, WireAssumption DEF SendDamaged
  <2> QED BY <1>0, <1>2, <2>3, <2>4 DEF SendDamaged, TypeOK, Bounds
<1>3. ASSUME NEW byte \in NoiseBytes, Noise(byte) PROVE TypeOK' /\ Bounds(parser)'
  <2>1. Stray(<<byte>>) \in Seq(LineBytes)
    <3>1. <<byte>> \in Seq(Bytes)
      BY WireAssumption
    <3> QED BY <1>0, <3>1, StrayBytes
  <2>2. line' \in Seq(LineBytes)
    BY <1>0, <1>3, <2>1, ConcatProperties DEF Noise
  <2>3. noise' \in 0 .. MaxNoise
    BY <1>0, <1>3, WireAssumption DEF Noise
  <2> QED BY <1>0, <1>3, <2>2, <2>3 DEF Noise, TypeOK, Bounds
<1>4. ASSUME NEW n \in 1 .. RxBufferSize, Read(n) PROVE TypeOK' /\ Bounds(parser)'
  <2>1. n \in Nat /\ n <= Len(line)
    BY <1>4 DEF Read
  <2>2. SubSeq(line, 1, n) \in Seq(LineBytes) /\ SubSeq(line, n + 1, Len(line)) \in Seq(LineBytes)
    BY <1>0, <2>1
  <2> QED BY <1>0, <1>4, <2>2 DEF Read, TypeOK, Bounds
<1>5. ASSUME ReceiveByte PROVE TypeOK' /\ Bounds(parser)'
  <2>1. Head(buffer) \in LineBytes /\ Tail(buffer) \in Seq(LineBytes)
    BY <1>0, <1>5 DEF ReceiveByte
  <2>2. Head(buffer).byte \in Bytes
    BY <2>1 DEF LineBytes
  <2>3. parser' \in Parsers /\ Bounds(parser)'
    BY <1>0, <1>5, <2>2, ReceiveBounds DEF ReceiveByte, Bounds
  <2> QED BY <1>0, <1>5, <2>1, <2>3 DEF ReceiveByte, TypeOK
<1>6. ASSUME TakePacket PROVE TypeOK' /\ Bounds(parser)'
  <2>1. parser' \in Parsers /\ Bounds(parser)'
    BY <1>0, <1>6, DestroyPacketBounds DEF TakePacket, Bounds
  <2>2. Packet \in Packets
    BY <1>0 DEF Packet, Packets, Parsers
  <2>3. received' \in Seq(Packets)
    BY <1>0, <1>6, <2>2 DEF TakePacket
  <2> QED BY <1>0, <1>6, <2>1, <2>3 DEF TakePacket, TypeOK
<1>7. ASSUME UNCHANGED wireVars PROVE TypeOK' /\ Bounds(parser)'
  BY <1>7 DEF wireVars, TypeOK, Bounds
<1> QED BY <1>1, <1>2, <1>3, <1>4, <1>5, <1>6, <1>7 DEF Next, Receiver

(***************************************************************************)
(* The same for the initial state.                                         *)
(***************************************************************************)
LEMMA WireInit ==
  ASSUME Init
  PROVE  TypeOK /\ Bounds(parser)
<1>1. parser \in Parsers /\ Bounds(parser)
  BY ParserAssumption DEF Init, ParserCreate, Parsers, ParserStates, Bounds, HeaderSize
<1> QED BY <1>1, WireAssumption DEF Init, TypeOK

(***************************************************************************)
(* The parser of src/Parser.c never writes outside its header and payload  *)
(* buffers, whatever the line delivers, and every block of a packet it     *)
(* reports has the length its header announces.                            *)
(***************************************************************************)
THEOREM BuffersStayBounded == Spec => []BufferBounds
<1>1. Init => TypeOK /\ Bounds(parser)
  BY WireInit
<1>2. TypeOK /\ Bounds(parser) /\ [Next]_wireVars => (TypeOK /\ Bounds(parser))'
  BY WireStep
<1>3. Bounds(parser) => BufferBounds
  BY DEF Bounds, BufferBounds
<1> QED BY <1>1, <1>2, <1>3, PTL DEF Spec

-----------------------------------------------------------------------------
(***************************************************************************)
(* The stream of bytes that are not parsed yet, s, when q was sent.  A     *)
(* byte that says it is part of an intact frame is that byte of the frame. *)
(***************************************************************************)
InsideOf(b, q) == b.at > 0 /\ b.at < Len(Frame(q[b.of]))

Good(b, q) ==
  /\ b \in LineBytes /\ b.of <= Len(q)
  /\ b.at > 0 =>
       /\ b.of > 0 /\ b.at <= Len(Frame(q[b.of]))
       /\ b.byte = Frame(q[b.of])[b.at]

(***************************************************************************)
(* The bytes of an intact frame are behind each other, and the frames in   *)
(* the order they were sent in; other bytes are between them.              *)
(***************************************************************************)
Follows(b, c, q) ==
  IF InsideOf(b, q) THEN c.of = b.of /\ c.at = b.at + 1
  ELSE \/ c.at = 0 /\ c.of = b.of
       \/ c.at = 1 /\ c.of = b.of + 1

EndsAt(b, q) == ~InsideOf(b, q) /\ b.of = Len(q)

Chain(s, q) ==
  /\ \A j \in 1 .. Len(s) : Good(s[j], q)
  /\ \A j \in 1 .. Len(s) - 1 : Follows(s[j], s[j + 1], q)
  /\ s # <<>> => EndsAt(s[Len(s)], q)

(***************************************************************************)
(* Arrived, for any stream.                                                *)
(***************************************************************************)
Position(s, q) ==
  IF s = <<>> THEN Len(q) ELSE Head(s).of - IF InsideOf(Head(s), q) THEN 1 ELSE 0

(***************************************************************************)
(* A good byte and its message.                                            *)
(***************************************************************************)
LEMMA GoodByte ==
  ASSUME NEW q \in Seq(Messages), NEW b, Good(b, q)
  PROVE  /\ b.at \in Nat /\ b.of \in 0 .. Len(q) /\ b.byte \in Bytes
         /\ b.at > 0 => /\ b.of \in 1 .. Len(q) /\ q[b.of] \in Messages
                        /\ Len(Frame(q[b.of])) \in Nat /\ Len(Frame(q[b.of])) >= 3
                        /\ b.at \in 1 .. Len(Frame(q[b.of]))
                        /\ b.byte = Frame(q[b.of])[b.at]
<1>1. b.at \in Nat /\ b.of \in Nat /\ b.byte \in Bytes /\ b.of <= Len(q) /\ Len(q) \in Nat
  BY DEF Good, LineBytes
<1>2. ASSUME b.at > 0
      PROVE  /\ b.of \in 1 .. Len(q) /\ q[b.of] \in Messages
             /\ Len(Frame(q[b.of])) \in Nat /\ Len(Frame(q[b.of])) >= 3
             /\ b.at \in 1 .. Len(Frame(q[b.of]))
             /\ b.byte = Frame(q[b.of])[b.at]
  <2>1. b.of \in 1 .. Len(q)
    BY <1>1, <1>2 DEF Good
  <2>2. q[b.of] \in Messages
    BY <2>1
  <2>3. Len(Frame(q[b.of])) \in Nat /\ Len(Frame(q[b.of])) >= 3
    BY <2>2, FrameEnds
  <2>4. b.at <= Len(Frame(q[b.of])) /\ b.byte = Frame(q[b.of])[b.at]
    BY <1>2 DEF Good
  <2>5. b.at \in 1 .. Len(Frame(q[b.of]))
    BY <1>1, <1>2, <2>3, <2>4
  <2> QED BY <2>1, <2>2, <2>3, <2>4, <2>5
<1>3. b.of \in 0 .. Len(q)
  BY <1>1
<1> QED BY <1>1, <1>2, <1>3

(***************************************************************************)
(* Nothing changes for the bytes under way when a message is sent.         *)
(***************************************************************************)
LEMMA GoodGrows ==
  ASSUME NEW q \in Seq(Messages), NEW m \in Messages, NEW b, Good(b, q)
  PROVE  Good(b, Append(q, m)) /\ (InsideOf(b, Append(q, m)) <=> InsideOf(b, q))
<1>1. PICK r : r = Append(q, m)
  OBVIOUS
<1>2. Len(r) = Len(q) + 1 /\ Len(q) \in Nat /\ \A n \in 1 .. Len(q) : r[n] = q[n]
  BY <1>1
<1>3. b.at > 0 => r[b.of] = q[b.of]
  BY <1>2, GoodByte
<1>4. b.of <= Len(r)
  <2>1. b.of \in 0 .. Len(q)
    BY GoodByte
  <2> QED BY <1>2, <2>1
<1>5. Good(b, r)
  BY <1>3, <1>4 DEF Good
<1>6. InsideOf(b, r) <=> InsideOf(b, q)
  BY <1>3 DEF InsideOf
<1> QED BY <1>1, <1>5, <1>6

(***************************************************************************)
(* Bytes are put behind a stream.                                          *)
(***************************************************************************)
LEMMA ChainConcat ==
  ASSUME NEW q, NEW s \in Seq(LineBytes), NEW t \in Seq(LineBytes), t # <<>>,
         \A j \in 1 .. Len(s) : Good(s[j], q),
         \A j \in 1 .. Len(s) - 1 : Follows(s[j], s[j + 1], q),
         \A j \in 1 .. Len(t) : Good(t[j], q),
         \A j \in 1 .. Len(t) - 1 : Follows(t[j], t[j + 1], q),
         s # <<>> => Follows(s[Len(s)], t[1], q),
         EndsAt(t[Len(t)], q)
  PROVE  Chain(s \o t, q)
<1>1. PICK r, M, N : r = s \o t /\ M = Len(s) /\ N = Len(t)
  OBVIOUS
<1>2. /\ r \in Seq(LineBytes) /\ Len(r) = M + N
      /\ \A j \in 1 .. M : r[j] = s[j]
      /\ \A j \in 1 .. N : r[M + j] = t[j]
  BY <1>1, Concat
<1>3. M \in Nat /\ N \in Nat /\ N >= 1
  BY <1>1, EmptySeq
<1>4. ASSUME NEW j \in 1 .. M + N PROVE Good(r[j], q)
  <2>1. CASE j <= M
    <3>1. j \in 1 .. M
      BY <1>3, <2>1
    <3> QED BY <1>1, <1>2, <3>1
  <2>2. CASE j > M
    <3>1. PICK k : k = j - M
      OBVIOUS
    <3>2. k \in 1 .. N /\ M + k = j
      BY <1>3, <2>2, <3>1
    <3>3. r[M + k] = t[k] /\ Good(t[k], q)
      BY <1>1, <1>2, <3>2
    <3> QED BY <3>2, <3>3
  <2> QED BY <1>3, <2>1, <2>2
<1>5. ASSUME NEW j \in 1 .. (M + N) - 1 PROVE Follows(r[j], r[j + 1], q)
  <2>1. CASE j < M
    <3>1. j \in 1 .. M /\ j + 1 \in 1 .. M /\ j \in 1 .. M - 1
      BY <1>3, <2>1
    <3>2. r[j] = s[j] /\ r[j + 1] = s[j + 1]
      BY <1>2, <3>1
    <3> QED BY <1>1, <3>1, <3>2
  <2>2. CASE j = M
    <3>1. j \in 1 .. M /\ 1 \in 1 .. N /\ s # <<>>
      BY <1>1, <1>3, <2>2, EmptySeq
    <3>2. r[j] = s[M] /\ r[j + 1] = t[1]
      BY <1>2, <2>2, <3>1
    <3> QED BY <1>1, <3>1, <3>2
  <2>3. CASE j > M
    <3>1. PICK k : k = j - M
      OBVIOUS
    <3>2. k \in 1 .. N /\ M + k = j /\ k + 1 \in 1 .. N /\ M + (k + 1) = j + 1 /\ k \in 1 .. N - 1
      BY <1>3, <2>3, <3>1
    <3>3. r[M + k] = t[k] /\ r[M + (k + 1)] = t[k + 1] /\ Follows(t[k], t[k + 1], q)
      BY <1>1, <1>2, <3>2
    <3> QED BY <3>2, <3>3
  <2> QED BY <1>3, <2>1, <2>2, <2>3
<1>6. EndsAt(r[M + N], q)
  <2>1. N \in 1 .. N
    BY <1>3
  <2> QED BY <1>1, <1>2, <2>1
<1> QED BY <1>1, <1>2, <1>4, <1>5, <1>6 DEF Chain

(***************************************************************************)
(* The second byte of a chain, and what is left when the first is taken.   *)
(***************************************************************************)
LEMMA ChainTail ==
  ASSUME NEW q, NEW s \in Seq(LineBytes), s # <<>>, Chain(s, q)
  PROVE  /\ Good(Head(s), q) /\ Head(s) = s[1]
         /\ Tail(s) \in Seq(LineBytes) /\ Chain(Tail(s), q)
         /\ IF Tail(s) = <<>> THEN EndsAt(Head(s), q) ELSE Follows(Head(s), Head(Tail(s)), q)
<1>1. PICK t, N : t = Tail(s) /\ N = Len(s)
  OBVIOUS
<1>2. /\ t \in Seq(LineBytes) /\ N \in Nat /\ N >= 1 /\ Len(t) = N - 1
      /\ \A k \in 1 .. N - 1 : t[k] = s[k + 1]
      /\ Head(s) = s[1]
  BY <1>1, HeadTailProperties, EmptySeq
<1>3. Good(Head(s), q)
  <2>1. 1 \in 1 .. Len(s)
    BY <1>1, <1>2
  <2> QED BY <1>2, <2>1 DEF Chain
<1>4. CASE N = 1
  <2>1. t = <<>>
    BY <1>2, <1>4, EmptySeq
  <2>2. EndsAt(s[Len(s)], q) /\ Len(s) = 1
    BY <1>1, <1>4 DEF Chain
  <2>3. Len(t) = 0
    BY <1>2, <1>4
  <2>4. Chain(t, q)
    BY <2>1, <2>3 DEF Chain
  <2> QED BY <1>1, <1>2, <1>3, <2>1, <2>2, <2>4
<1>5. CASE N > 1
  <2>1. t # <<>> /\ Head(t) = t[1]
    BY <1>2, <1>5, EmptySeq, HeadTailProperties
  <2>2. \A j \in 1 .. Len(t) : Good(t[j], q)
    BY <1>1, <1>2 DEF Chain
  <2>3. \A j \in 1 .. Len(t) - 1 : Follows(t[j], t[j + 1], q)
    <3>1. SUFFICES ASSUME NEW j \in 1 .. (N - 1) - 1 PROVE Follows(t[j], t[j + 1], q)
      BY <1>2
    <3>2. j \in 1 .. N - 1 /\ j + 1 \in 1 .. N - 1
      BY <1>2
    <3>3. t[j] = s[j + 1] /\ t[j + 1] = s[(j + 1) + 1] /\ Follows(s[j + 1], s[(j + 1) + 1], q)
      BY <1>1, <1>2, <3>2 DEF Chain
    <3> QED BY <3>3
  <2>4. EndsAt(t[Len(t)], q)
    <3>1. N - 1 \in 1 .. N - 1 /\ (N - 1) + 1 = N
      BY <1>2, <1>5
    <3>2. t[N - 1] = s[N] /\ EndsAt(s[N], q)
      BY <1>1, <1>2, <3>1 DEF Chain
    <3> QED BY <1>2, <3>2
  <2>5. Follows(s[1], t[1], q)
    <3>1. 1 \in 1 .. N - 1
      BY <1>2, <1>5
    <3>2. t[1] = s[1 + 1] /\ Follows(s[1], s[1 + 1], q)
      BY <1>1, <1>2, <3>1 DEF Chain
    <3> QED BY <3>2
  <2>6. Chain(t, q)
    BY <2>2, <2>3, <2>4 DEF Chain
  <2> QED BY <1>1, <1>2, <1>3, <2>1, <2>5, <2>6
<1> QED BY <1>2, <1>4, <1>5

(***************************************************************************)
(* How many messages have arrived changes at one byte of a frame only: the *)
(* last one before the closing flag.                                       *)
(***************************************************************************)
LEMMA PositionOfTail ==
  ASSUME NEW q \in Seq(Messages), NEW s \in Seq(LineBytes), s # <<>>, Chain(s, q)
  PROVE  IF InsideOf(Head(s), q) /\ Head(s).at + 1 = Len(Frame(q[Head(s).of]))
         THEN Position(s, q) + 1 = Head(s).of /\ Position(Tail(s), q) = Head(s).of
         ELSE Position(Tail(s), q) = Position(s, q)
<1> PICK b, t, L : b = Head(s) /\ t = Tail(s) /\ L = Len(Frame(q[b.of]))
  OBVIOUS
<1>1. /\ b = Head(s) /\ t = Tail(s) /\ L = Len(Frame(q[b.of]))
  OBVIOUS
<1>2. Good(b, q) /\ t \in Seq(LineBytes) /\ Chain(t, q)
  BY <1>1, ChainTail
<1>3. IF t = <<>> THEN EndsAt(b, q) ELSE Follows(b, Head(t), q)
  BY <1>1, ChainTail
<1>4. b.at \in Nat /\ b.of \in Nat /\ (b.at > 0 => L \in Nat)
  BY <1>1, <1>2, GoodByte
<1>5. Position(s, q) = b.of - (IF InsideOf(b, q) THEN 1 ELSE 0)
  BY <1>1 DEF Position
<1>6. CASE t = <<>>
  <2>1. ~InsideOf(b, q) /\ b.of = Len(q)
    BY <1>3, <1>6 DEF EndsAt
  <2>2. Position(t, q) = Len(q)
    BY <1>6 DEF Position
  <2> QED BY <1>1, <1>4, <1>5, <2>1, <2>2
<1>7. CASE t # <<>>
  <2>1. PICK c : c = Head(t)
    OBVIOUS
  <2>2. Position(t, q) = c.of - (IF InsideOf(c, q) THEN 1 ELSE 0)
    BY <1>7, <2>1 DEF Position
  <2>3. Follows(b, c, q) /\ Good(c, q)
    BY <1>2, <1>3, <1>7, <2>1, ChainTail
  <2>4. CASE InsideOf(b, q)
    <3>1. c.of = b.of /\ c.at = b.at + 1
      BY <2>3, <2>4 DEF Follows
    <3>2. InsideOf(c, q) <=> b.at + 1 < L
      BY <1>1, <1>4, <3>1 DEF InsideOf
    <3>3. b.at + 1 = L \/ b.at + 1 < L
      BY <1>1, <1>4, <2>4 DEF InsideOf
    <3>4. L \in Nat
      BY <1>4, <2>4 DEF InsideOf
    <3>5. CASE b.at + 1 = L
      BY <1>1, <1>4, <1>5, <2>2, <2>4, <3>1, <3>2, <3>4, <3>5
    <3>6. CASE b.at + 1 < L
      BY <1>1, <1>4, <1>5, <2>2, <2>4, <3>1, <3>2, <3>4, <3>6
    <3> QED BY <3>3, <3>5, <3>6
  <2>5. CASE ~InsideOf(b, q)
    <3>1. CASE c.at = 0 /\ c.of = b.of
      <4>1. ~InsideOf(c, q)
        BY <3>1 DEF InsideOf
      <4> QED BY <1>1, <1>5, <2>2, <2>5, <3>1, <4>1
    <3>2. CASE c.at = 1 /\ c.of = b.of + 1
      <4>1. InsideOf(c, q)
        <5>1. Len(Frame(q[c.of])) \in Nat /\ Len(Frame(q[c.of])) >= 3
          <6>1. c.at > 0
            BY <3>2
          <6> QED BY <2>3, <6>1, GoodByte
        <5>2. PICK M : M = Len(Frame(q[c.of]))
          OBVIOUS
        <5> QED BY <3>2, <5>1, <5>2 DEF InsideOf
      <4> QED BY <1>1, <1>4, <1>5, <2>2, <2>5, <3>2, <4>1
    <3> QED BY <2>3, <2>5, <3>1, <3>2 DEF Follows
  <2> QED BY <2>4, <2>5
<1> QED BY <1>6, <1>7

(***************************************************************************)
(* Never more than were sent.                                              *)
(***************************************************************************)
LEMMA PositionBounds ==
  ASSUME NEW q \in Seq(Messages), NEW s \in Seq(LineBytes), Chain(s, q)
  PROVE  Position(s, q) \in 0 .. Len(q) /\ Len(q) \in Nat
<1>1. CASE s = <<>>
  BY <1>1 DEF Position
<1>2. CASE s # <<>>
  <2>1. PICK b : b = Head(s)
    OBVIOUS
  <2>2. Good(b, q)
    BY <1>2, <2>1, ChainTail
  <2>3. b.of \in 0 .. Len(q) /\ (InsideOf(b, q) => b.of \in 1 .. Len(q)) /\ Len(q) \in Nat
    BY <2>2, GoodByte DEF InsideOf
  <2>4. Position(s, q) = b.of - (IF InsideOf(b, q) THEN 1 ELSE 0)
    BY <1>2, <2>1 DEF Position
  <2> QED BY <2>3, <2>4
<1> QED BY <1>1, <1>2

(***************************************************************************)
(* The head of a concatenation.                                            *)
(***************************************************************************)
LEMMA HeadOfConcat ==
  ASSUME NEW S, NEW s \in Seq(S), NEW t \in Seq(S), t # <<>>
  PROVE  s \o t # <<>> /\ Head(s \o t) = IF s = <<>> THEN t[1] ELSE Head(s)
<1>1. PICK r, M, N : r = s \o t /\ M = Len(s) /\ N = Len(t)
  OBVIOUS
<1>2. /\ r \in Seq(S) /\ Len(r) = M + N
      /\ \A j \in 1 .. M : r[j] = s[j]
      /\ \A j \in 1 .. N : r[M + j] = t[j]
  BY <1>1, Concat
<1>3. M \in Nat /\ N \in Nat /\ N >= 1 /\ (s # <<>> => M >= 1) /\ (s = <<>> => M = 0)
  BY <1>1, EmptySeq
<1>4. r # <<>> /\ Head(r) = r[1]
  BY <1>2, <1>3, EmptySeq, HeadTailProperties
<1>5. CASE s = <<>>
  <2>1. 1 \in 1 .. N /\ M + 1 = 1
    BY <1>3, <1>5
  <2> QED BY <1>1, <1>2, <1>4, <1>5, <2>1
<1>6. CASE s # <<>>
  <2>1. 1 \in 1 .. M /\ Head(s) = s[1]
    BY <1>3, <1>6, HeadTailProperties
  <2> QED BY <1>1, <1>2, <1>4, <1>6, <2>1
<1> QED BY <1>5, <1>6

(***************************************************************************)
(* An intact frame is put on the line: nothing arrived by that.            *)
(***************************************************************************)
LEMMA StreamSend ==
  ASSUME NEW q \in Seq(Messages), NEW m \in Messages,
         NEW s \in Seq(LineBytes), NEW t \in Seq(LineBytes), Chain(s, q),
         Len(t) = Len(Frame(m)),
         \A k \in 1 .. Len(t) : t[k] = [byte |-> Frame(m)[k], of |-> Len(q) + 1, at |-> k]
  PROVE  /\ Chain(s \o t, Append(q, m))
         /\ Position(s \o t, Append(q, m)) = Position(s, q)
         /\ t # <<>> /\ t[1].at = 1 /\ \A k \in 1 .. Len(t) : t[k].at > 0
<1> PICK r, F, N, n : r = Append(q, m) /\ F = Frame(m) /\ N = Len(t) /\ n = Len(q)
  OBVIOUS
<1>1. r = Append(q, m) /\ F = Frame(m) /\ N = Len(t) /\ n = Len(q)
  OBVIOUS
<1>2. /\ F \in Seq(Bytes) /\ Len(F) = N /\ N \in Nat /\ N >= 3 /\ n \in Nat
      /\ r \in Seq(Messages) /\ Len(r) = n + 1 /\ r[n + 1] = m
  BY <1>1, FrameEnds
<1>3. \A k \in 1 .. N : /\ t[k].byte = F[k] /\ t[k].of = n + 1 /\ t[k].at = k /\ k \in Nat
                        /\ t[k] \in LineBytes
  <2>1. ASSUME NEW k \in 1 .. N
        PROVE  t[k].byte = F[k] /\ t[k].of = n + 1 /\ t[k].at = k /\ k \in Nat /\ t[k] \in LineBytes
    <3>1. k \in Nat /\ k \in 1 .. Len(t)
      BY <1>1, <1>2
    <3>2. t[k] = [byte |-> F[k], of |-> n + 1, at |-> k]
      BY <1>1, <3>1
    <3>3. t[k] \in LineBytes
      BY <3>1
    <3> QED BY <3>1, <3>2, <3>3
  <2> QED BY <2>1
<1>4. t # <<>>
  BY <1>1, <1>2, EmptySeq
<1>5. \A k \in 1 .. N : Good(t[k], r) /\ (InsideOf(t[k], r) <=> k < N)
  <2>1. SUFFICES ASSUME NEW k \in 1 .. N PROVE Good(t[k], r) /\ (InsideOf(t[k], r) <=> k < N)
    OBVIOUS
  <2>2. /\ t[k].byte = F[k] /\ t[k].of = n + 1 /\ t[k].at = k /\ k \in Nat /\ k > 0 /\ k <= N
        /\ t[k] \in LineBytes
    BY <1>3
  <2>3. r[t[k].of] = m /\ Frame(r[t[k].of]) = F /\ t[k].of > 0 /\ t[k].of <= Len(r)
    BY <1>1, <1>2, <2>2
  <2>4. Good(t[k], r)
    BY <1>2, <2>2, <2>3 DEF Good
  <2>5. InsideOf(t[k], r) <=> k < N
    BY <1>2, <2>2, <2>3 DEF InsideOf
  <2> QED BY <2>4, <2>5
<1>6. \A k \in 1 .. N - 1 : Follows(t[k], t[k + 1], r)
  <2>1. SUFFICES ASSUME NEW k \in 1 .. N - 1 PROVE Follows(t[k], t[k + 1], r)
    OBVIOUS
  <2>2. k \in 1 .. N /\ k + 1 \in 1 .. N /\ k < N
    BY <1>2
  <2>3. InsideOf(t[k], r) /\ t[k + 1].of = t[k].of /\ t[k + 1].at = t[k].at + 1
    BY <1>3, <1>5, <2>2
  <2> QED BY <2>3 DEF Follows
<1>7. EndsAt(t[N], r)
  <2>1. N \in 1 .. N /\ ~(N < N)
    BY <1>2
  <2> QED BY <1>2, <1>3, <1>5, <2>1 DEF EndsAt
<1>8. \A j \in 1 .. Len(s) : Good(s[j], q) /\ Good(s[j], r) /\ (InsideOf(s[j], r) <=> InsideOf(s[j], q))
  BY <1>1, GoodGrows DEF Chain
<1>9. \A j \in 1 .. Len(s) - 1 : Follows(s[j], s[j + 1], r)
  <2>1. SUFFICES ASSUME NEW j \in 1 .. Len(s) - 1 PROVE Follows(s[j], s[j + 1], r)
    OBVIOUS
  <2>2. j \in 1 .. Len(s)
    <3>1. PICK M : M = Len(s)
      OBVIOUS
    <3>2. M \in Nat
      BY <3>1
    <3> QED BY <3>1, <3>2
  <2>3. Follows(s[j], s[j + 1], q)
    BY DEF Chain
  <2> QED BY <1>8, <2>2, <2>3 DEF Follows
<1>10. 1 \in 1 .. N /\ 1 < N
  BY <1>2
<1>11. s # <<>> => Len(s) \in 1 .. Len(s) /\ 1 \in 1 .. Len(s) /\ Head(s) = s[1]
  <2>1. SUFFICES ASSUME s # <<>> PROVE Len(s) \in 1 .. Len(s) /\ 1 \in 1 .. Len(s) /\ Head(s) = s[1]
    OBVIOUS
  <2>2. PICK M : M = Len(s)
    OBVIOUS
  <2>3. M \in Nat /\ M # 0 /\ Head(s) = s[1]
    BY <2>1, <2>2, EmptySeq, HeadTailProperties
  <2> QED BY <2>2, <2>3
<1>12. s # <<>> => Follows(s[Len(s)], t[1], r)
  <2>1. SUFFICES ASSUME s # <<>> PROVE Follows(s[Len(s)], t[1], r)
    OBVIOUS
  <2>2. PICK b : b = s[Len(s)]
    OBVIOUS
  <2>3. ~InsideOf(b, q) /\ b.of = n
    BY <1>1, <2>1, <2>2 DEF Chain, EndsAt
  <2>4. ~InsideOf(b, r)
    BY <1>8, <1>11, <2>1, <2>2, <2>3
  <2>5. t[1].at = 1 /\ t[1].of = b.of + 1
    BY <1>3, <1>10, <2>3
  <2> QED BY <2>2, <2>4, <2>5 DEF Follows
<1>13. Chain(s \o t, r)
  BY <1>1, <1>4, <1>5, <1>6, <1>7, <1>8, <1>9, <1>12, ChainConcat
<1>14. Position(s \o t, r) = Position(s, q)
  <2>1. PICK w : w = s \o t
    OBVIOUS
  <2>2. w # <<>> /\ Head(w) = IF s = <<>> THEN t[1] ELSE Head(s)
    BY <1>4, <2>1, HeadOfConcat
  <2>3. Position(w, r) = Head(w).of - (IF InsideOf(Head(w), r) THEN 1 ELSE 0)
    BY <2>2 DEF Position
  <2>4. CASE s = <<>>
    <3>1. InsideOf(t[1], r) /\ t[1].of = n + 1
      BY <1>3, <1>5, <1>10
    <3>2. Position(s, q) = n
      BY <1>1, <2>4 DEF Position
    <3>3. Position(w, r) = (n + 1) - 1
      BY <2>2, <2>3, <2>4, <3>1
    <3> QED BY <1>2, <2>1, <3>2, <3>3
  <2>5. CASE s # <<>>
    <3>1. Head(w) = s[1] /\ Head(s) = s[1] /\ (InsideOf(s[1], r) <=> InsideOf(s[1], q))
      BY <1>8, <1>11, <2>2, <2>5
    <3>2. Position(s, q) = s[1].of - (IF InsideOf(s[1], q) THEN 1 ELSE 0)
      BY <2>5, <3>1 DEF Position
    <3> QED BY <2>1, <2>3, <3>1, <3>2
  <2> QED BY <2>4, <2>5
<1>15. t[1].at = 1 /\ \A k \in 1 .. N : t[k].at > 0
  BY <1>3, <1>10
<1> QED BY <1>1, <1>4, <1>13, <1>14, <1>15

(***************************************************************************)
(* The same for bytes that belong to no frame.                             *)
(***************************************************************************)
LEMMA StreamStray ==
  ASSUME NEW q \in Seq(Messages),
         NEW s \in Seq(LineBytes), NEW t \in Seq(LineBytes), t # <<>>, Chain(s, q),
         \A k \in 1 .. Len(t) : t[k].of = Len(q) /\ t[k].at = 0
  PROVE  /\ Chain(s \o t, q)
         /\ Position(s \o t, q) = Position(s, q)
<1> PICK N, n : N = Len(t) /\ n = Len(q)
  OBVIOUS
<1>1. N = Len(t) /\ n = Len(q)
  OBVIOUS
<1>2. N \in Nat /\ N >= 1 /\ n \in Nat /\ 1 \in 1 .. N /\ N \in 1 .. N
  BY <1>1, EmptySeq
<1>3. \A k \in 1 .. N : t[k] \in LineBytes /\ t[k].of = n /\ t[k].at = 0
  BY <1>1
<1>4. \A k \in 1 .. N : Good(t[k], q) /\ ~InsideOf(t[k], q)
  <2>1. n <= Len(q) /\ ~(0 > 0)
    BY <1>1, <1>2
  <2> QED BY <1>3, <2>1 DEF Good, InsideOf
<1>5. \A k \in 1 .. N - 1 : Follows(t[k], t[k + 1], q)
  <2>1. \A k \in 1 .. N - 1 : k \in 1 .. N /\ k + 1 \in 1 .. N
    BY <1>2
  <2> QED BY <1>3, <1>4, <2>1 DEF Follows
<1>6. EndsAt(t[N], q)
  BY <1>1, <1>2, <1>3, <1>4 DEF EndsAt
<1>7. s # <<>> => Follows(s[Len(s)], t[1], q)
  <2>1. SUFFICES ASSUME s # <<>> PROVE Follows(s[Len(s)], t[1], q)
    OBVIOUS
  <2>2. ~InsideOf(s[Len(s)], q) /\ s[Len(s)].of = n
    BY <1>1, <2>1 DEF Chain, EndsAt
  <2>3. t[1].at = 0 /\ t[1].of = s[Len(s)].of
    BY <1>2, <1>3, <2>2
  <2> QED BY <2>2, <2>3 DEF Follows
<1>8. /\ \A j \in 1 .. Len(s) : Good(s[j], q)
      /\ \A j \in 1 .. Len(s) - 1 : Follows(s[j], s[j + 1], q)
  BY DEF Chain
<1>9. Chain(s \o t, q)
  BY <1>1, <1>4, <1>5, <1>6, <1>7, <1>8, ChainConcat
<1>10. Position(s \o t, q) = Position(s, q)
  <2>1. PICK w : w = s \o t
    OBVIOUS
  <2>2. w # <<>> /\ Head(w) = IF s = <<>> THEN t[1] ELSE Head(s)
    BY <2>1, HeadOfConcat
  <2>3. Position(w, q) = Head(w).of - (IF InsideOf(Head(w), q) THEN 1 ELSE 0)
    BY <2>2 DEF Position
  <2>4. CASE s = <<>>
    <3>1. ~InsideOf(t[1], q) /\ t[1].of = n
      BY <1>2, <1>3, <1>4
    <3>2. Position(s, q) = n
      BY <1>1, <2>4 DEF Position
    <3>3. Position(w, q) = n - 0
      BY <2>2, <2>3, <2>4, <3>1
    <3> QED BY <1>2, <2>1, <3>2, <3>3
  <2>5. CASE s # <<>>
    <3>1. Position(s, q) = Head(s).of - (IF InsideOf(Head(s), q) THEN 1 ELSE 0)
      BY <2>5 DEF Position
    <3> QED BY <2>1, <2>2, <2>3, <2>5, <3>1
  <2> QED BY <2>4, <2>5
<1> QED BY <1>9, <1>10

-----------------------------------------------------------------------------
(***************************************************************************)
(* In the middle of a frame the parser has all of it that was before.      *)
(***************************************************************************)
ParserAt(p, s, q) ==
  s # <<>> /\ InsideOf(Head(s), q) /\ Head(s).at > 1 =>
    Reached(p, q[Head(s).of], Head(s).at - 1)

LastBeforeFlag(b, q) == InsideOf(b, q) /\ b.at + 1 = Len(Frame(q[b.of]))

(***************************************************************************)
(* Parsing the next byte: the last one before the closing flag completes   *)
(* the message it belongs to, and no other byte of a frame completes one.  *)
(***************************************************************************)
LEMMA ParseByte ==
  ASSUME NEW q \in Seq(Messages), NEW s \in Seq(LineBytes), NEW p \in Parsers, NEW r,
         s # <<>>, Chain(s, q), ParserAt(p, s, q), r = Receive(p, Head(s).byte)
  PROVE  /\ ParserAt(r, Tail(s), q)
         /\ LastBeforeFlag(Head(s), q) =>
              HasPacket(r) /\ q[Head(s).of] = [header |-> r.header, payload |-> r.data]
         /\ Head(s).at > 0 /\ ~LastBeforeFlag(Head(s), q) => ~HasPacket(r)
<1> PICK b, t, m, L : b = Head(s) /\ t = Tail(s) /\ m = q[b.of] /\ L = Len(Frame(m))
  OBVIOUS
<1>1. b = Head(s) /\ t = Tail(s) /\ m = q[b.of] /\ L = Len(Frame(m))
  OBVIOUS
<1>2. Good(b, q) /\ t \in Seq(LineBytes) /\ Chain(t, q)
  BY <1>1, ChainTail
<1>3. t # <<>> => Follows(b, Head(t), q)
  BY <1>1, ChainTail
<1>4. /\ b.at \in Nat /\ b.of \in 0 .. Len(q)
      /\ b.at > 0 => /\ m \in Messages /\ L \in Nat /\ L >= 3 /\ b.at <= L
                     /\ b.byte = Frame(m)[b.at]
  BY <1>1, <1>2, GoodByte
<1>5. ASSUME b.at > 0, b.at = 1 \/ b.at = L PROVE Reached(r, m, 1) /\ ~HasPacket(r)
  <2>1. b.byte = FLAG
    BY <1>1, <1>4, <1>5, FrameEnds
  <2> QED BY <1>1, <1>4, <1>5, <2>1, ReachedFlag
<1>6. ASSUME b.at > 1, b.at < L
      PROVE  /\ Reached(r, m, b.at) /\ (HasPacket(r) <=> b.at + 1 = L)
             /\ HasPacket(r) => m = [header |-> r.header, payload |-> r.data]
  <2>1. b.at > 0 /\ (b.at - 1) + 1 = b.at /\ (b.at - 1) + 1 < L
    BY <1>4, <1>6
  <2>2. InsideOf(b, q)
    BY <1>1, <1>6, <2>1 DEF InsideOf
  <2>3. m \in Messages
    BY <1>4, <2>1
  <2>4. Reached(p, m, b.at - 1)
    BY <1>1, <1>6, <2>2 DEF ParserAt
  <2>5. PICK c : c = b.at - 1
    OBVIOUS
  <2>6. Reached(p, m, c) /\ c + 1 < Len(Frame(m)) /\ c + 1 = b.at
    BY <1>1, <2>1, <2>4, <2>5
  <2>7. Reached(Receive(p, Frame(m)[c + 1]), m, c + 1)
    BY <2>3, <2>6, ReachedStep
  <2>8. Receive(p, Frame(m)[c + 1]) = r
    BY <1>1, <1>4, <2>1, <2>6
  <2>9. Reached(r, m, b.at)
    BY <2>6, <2>7, <2>8
  <2> QED BY <1>1, <2>3, <2>9, ReachedPacket
<1>7. LastBeforeFlag(b, q) <=> b.at > 0 /\ b.at < L /\ b.at + 1 = L
  BY <1>1 DEF LastBeforeFlag, InsideOf
<1>8. ASSUME LastBeforeFlag(b, q) PROVE HasPacket(r) /\ m = [header |-> r.header, payload |-> r.data]
  <2>1. b.at > 1 /\ b.at < L /\ b.at + 1 = L
    BY <1>4, <1>7, <1>8
  <2> QED BY <1>6, <2>1
<1>9. ASSUME b.at > 0, ~LastBeforeFlag(b, q) PROVE ~HasPacket(r)
  <2>1. CASE b.at = 1 \/ b.at = L
    BY <1>5, <1>9, <2>1
  <2>2. CASE ~(b.at = 1 \/ b.at = L)
    <3>1. b.at > 1 /\ b.at < L
      BY <1>4, <1>9, <2>2
    <3>2. b.at + 1 # L
      BY <1>7, <1>9, <3>1
    <3> QED BY <1>6, <3>1, <3>2
  <2> QED BY <2>1, <2>2
<1>10. ParserAt(r, t, q)
  <2>1. SUFFICES ASSUME t # <<>>, InsideOf(Head(t), q), Head(t).at > 1
                 PROVE  Reached(r, q[Head(t).of], Head(t).at - 1)
    BY DEF ParserAt
  <2>2. PICK c : c = Head(t)
    OBVIOUS
  <2>3. InsideOf(b, q)
    <3>1. ~(c.at = 0) /\ ~(c.at = 1)
      BY <2>1, <2>2
    <3> QED BY <1>3, <2>1, <2>2, <3>1 DEF Follows
  <2>4. c.of = b.of /\ c.at = b.at + 1
    BY <1>3, <2>1, <2>2, <2>3 DEF Follows
  <2>5. b.at > 0 /\ b.at < L /\ c.at - 1 = b.at
    BY <1>1, <1>4, <2>3, <2>4 DEF InsideOf
  <2>6. Reached(r, m, b.at)
    <3>1. b.at = 1 \/ b.at > 1
      BY <1>4, <2>5
    <3> QED BY <1>5, <1>6, <2>5, <3>1
  <2> QED BY <1>1, <2>2, <2>4, <2>5, <2>6
<1> QED BY <1>1, <1>8, <1>9, <1>10

(***************************************************************************)
(* The queue when a message is sent, and when the first one is delivered.  *)
(***************************************************************************)
LEMMA QueueSend ==
  ASSUME NEW q \in Seq(Messages), NEW m \in Messages, NEW n \in 0 .. Len(q)
  PROVE  SubSeq(Append(q, m), n + 1, Len(Append(q, m))) = Append(SubSeq(q, n + 1, Len(q)), m)
<1> PICK N, r, k : N = Len(q) /\ r = Append(q, m) /\ k = n + 1
  OBVIOUS
<1>1. N = Len(q) /\ r = Append(q, m) /\ k = n + 1
  OBVIOUS
<1>2. /\ N \in Nat /\ r \in Seq(Messages) /\ Len(r) = N + 1 /\ r[N + 1] = m
      /\ k \in 1 .. N + 1 /\ N + 1 \in k .. Len(r) /\ (N + 1) - 1 = N
  BY <1>1
<1>3. SubSeq(r, k, N + 1) = SubSeq(r, k, N) \o <<m>>
  BY <1>2, SubSeqRecursiveSecond
<1>4. SubSeq(r, k, N) = SubSeq(q, k, N)
  <2>1. CASE k <= N
    <3>1. <<m>> \in Seq(Messages) /\ r = q \o <<m>>
      BY <1>1, AppendIsConcat
    <3>2. k \in 1 .. Len(q) /\ N \in 1 .. Len(q)
      BY <1>1, <1>2, <2>1
    <3> QED BY <3>1, <3>2, SubSeqOfConcat1
  <2>2. CASE k > N
    <3>1. N < k /\ k \in Int /\ N \in Int
      BY <1>2, <2>2
    <3> QED BY <3>1, SubSeqEmpty
  <2> QED BY <1>2, <2>1, <2>2
<1>5. PICK v : v = SubSeq(q, k, N)
  OBVIOUS
<1>6. v \in Seq(Messages)
  <2>1. \A i \in k .. N : q[i] \in Messages
    <3>1. \A i \in k .. N : i \in 1 .. N
      BY <1>2
    <3> QED BY <1>1, <3>1
  <2>2. k \in Int /\ N \in Int
    BY <1>2
  <2> QED BY <1>5, <2>1, <2>2, SubSeqProperties
<1>7. Append(v, m) = v \o <<m>>
  BY <1>6, AppendIsConcat
<1> QED BY <1>1, <1>2, <1>3, <1>4, <1>5, <1>7

LEMMA QueueDeliver ==
  ASSUME NEW q \in Seq(Messages), NEW k \in 1 .. Len(q), NEW n, n + 1 = k, n \in Nat
  PROVE  /\ SubSeq(q, n + 1, Len(q)) # <<>>
         /\ Head(SubSeq(q, n + 1, Len(q))) = q[k]
         /\ Tail(SubSeq(q, n + 1, Len(q))) = SubSeq(q, k + 1, Len(q))
<1>1. PICK N, u : N = Len(q) /\ u = SubSeq(q, k, N)
  OBVIOUS
<1>2. N \in Nat /\ k \in Nat /\ k >= 1 /\ k <= N
  BY <1>1
<1>3. u \in Seq(Messages) /\ Len(u) = (N - k) + 1 /\ \A j \in 1 .. (N - k) + 1 : u[j] = q[k + j - 1]
  BY <1>1, <1>2
<1>4. u # <<>> /\ Head(u) = u[1]
  BY <1>2, <1>3, EmptySeq, HeadTailProperties
<1>5. u[1] = q[k]
  <2>1. 1 \in 1 .. (N - k) + 1 /\ k + 1 - 1 = k
    BY <1>2
  <2> QED BY <1>3, <2>1
<1>6. Tail(u) = SubSeq(q, k + 1, N)
  <2>1. k \in 1 .. N /\ N \in 1 .. Len(q) /\ k \in 1 .. Len(q)
    BY <1>1, <1>2
  <2> QED BY <1>1, <2>1, HeadTailOfSubSeq
<1> QED BY <1>1, <1>4, <1>5, <1>6

-----------------------------------------------------------------------------
(***************************************************************************)
(* The inductive invariant: the bytes under way are the frames that were   *)
(* sent and have not arrived, perhaps with other bytes between them; the   *)
(* parser is where the next of them says; and as long as nothing disturbed *)
(* the line there are no other bytes.                                      *)
(***************************************************************************)
StreamInv == Chain(Stream, sent)

ParserInv == ParserAt(parser, Stream, sent)

QuietInv == noise = 0 => \A j \in 1 .. Len(Stream) : Stream[j].at > 0

WireInv == TypeOK /\ Bounds(parser) /\ StreamInv /\ ParserInv /\ QuietInv

Queue == SubSeq(sent, Arrived + 1, Len(sent))

Delivered == IF HasPacket(parser) THEN Append(received, Packet) ELSE received

(***************************************************************************)
(* Arrived in terms of the stream, in both states of a step.               *)
(***************************************************************************)
LEMMA ArrivedIs == Arrived = Position(Stream, sent) /\ Arrived' = Position(Stream', sent')
  BY DEF Arrived, Position, Inside, InsideOf

LEMMA StreamType ==
  ASSUME TypeOK
  PROVE  Stream \in Seq(LineBytes) /\ sent \in Seq(Messages) /\ parser \in Parsers
  BY ConcatProperties DEF TypeOK, Stream

(***************************************************************************)
(* The steps of the receiver that parse nothing.                           *)
(***************************************************************************)
LEMMA Idle ==
  ASSUME WireInv, Stream' = Stream, sent' = sent, noise' = noise, ParserInv',
         Delivered' = Delivered
  PROVE  /\ StreamInv' /\ QuietInv'
         /\ UNCHANGED Promise!linkVars
<1>1. StreamInv'
  BY DEF WireInv, StreamInv
<1>2. QuietInv'
  BY DEF WireInv, QuietInv
<1>3. Arrived' = Arrived
  BY ArrivedIs
<1>4. UNCHANGED Promise!linkVars
  BY <1>3 DEF Promise!linkVars, Delivered
<1> QED BY <1>1, <1>2, <1>4

LEMMA ReadStep ==
  ASSUME WireInv, NEW n \in 1 .. RxBufferSize, Read(n)
  PROVE  StreamInv' /\ ParserInv' /\ QuietInv' /\ UNCHANGED Promise!linkVars
<1>1. line \in Seq(LineBytes) /\ buffer = <<>> /\ n \in 1 .. Len(line)
  BY DEF WireInv, TypeOK, Read
<1>2. SubSeq(line, 1, n) \o SubSeq(line, n + 1, Len(line)) = line
  <2>1. PICK N : N = Len(line)
    OBVIOUS
  <2>2. 1 \in 1 .. N + 1 /\ n \in (1 - 1) .. N /\ N \in n .. N
    BY <1>1, <2>1
  <2>3. SubSeq(line, 1, N) = line
    BY <1>1, <2>1, SubSeqFull
  <2> QED BY <1>1, <2>1, <2>2, <2>3, ConcatAdjacentSubSeq
<1>3. Stream' = line
  BY <1>2 DEF Stream, Read
<1>4. Stream = line
  BY <1>1, ConcatProperties, EmptySeq DEF Stream
<1>5. ParserInv'
  BY <1>3, <1>4 DEF WireInv, ParserInv, Read
<1>6. Delivered' = Delivered
  BY DEF Delivered, Read, Packet
<1> QED BY <1>3, <1>4, <1>5, <1>6, Idle DEF Read

LEMMA TakeStep ==
  ASSUME WireInv, TakePacket
  PROVE  StreamInv' /\ ParserInv' /\ QuietInv' /\ UNCHANGED Promise!linkVars
<1>1. Stream' = Stream /\ sent' = sent /\ noise' = noise
  BY DEF TakePacket, Stream
<1>2. ~HasPacket(parser')
  BY DEF TakePacket, HasPacket, DestroyPacket, ParserCreate
<1>3. Delivered' = Delivered
  BY <1>2 DEF Delivered, TakePacket
<1>4. ~(Stream # <<>> /\ InsideOf(Head(Stream), sent) /\ Head(Stream).at > 1)
  <2>1. SUFFICES ASSUME Stream # <<>>, InsideOf(Head(Stream), sent), Head(Stream).at > 1
                 PROVE  FALSE
    OBVIOUS
  <2>2. PICK b, m, c : b = Head(Stream) /\ m = sent[b.of] /\ c = b.at - 1
    OBVIOUS
  <2>3. Good(b, sent)
    BY <2>1, <2>2, StreamType, ChainTail DEF WireInv, StreamInv
  <2>4. m \in Messages /\ b.at \in Nat
    BY <2>1, <2>2, <2>3, StreamType, GoodByte DEF WireInv, InsideOf
  <2>5. Reached(parser, m, c)
    BY <2>1, <2>2 DEF WireInv, ParserInv, ParserAt
  <2>6. c + 1 = Len(Frame(m))
    BY <2>4, <2>5, ReachedPacket DEF TakePacket
  <2>7. b.at < Len(Frame(m))
    BY <2>1, <2>2 DEF InsideOf
  <2> QED BY <2>2, <2>4, <2>6, <2>7
<1>5. ParserInv'
  BY <1>1, <1>4 DEF ParserInv, ParserAt
<1> QED BY <1>1, <1>3, <1>5, Idle

(***************************************************************************)
(* What is put on the line is put behind the stream.                       *)
(***************************************************************************)
LEMMA StreamGrows ==
  ASSUME TypeOK, NEW t \in Seq(LineBytes), buffer' = buffer, line' = line \o t
  PROVE  Stream' = Stream \o t
<1>1. Stream' = buffer \o (line \o t)
  BY DEF Stream
<1>2. buffer \in Seq(LineBytes) /\ line \in Seq(LineBytes)
  BY DEF TypeOK
<1>3. (buffer \o line) \o t = buffer \o (line \o t)
  BY <1>2, ConcatAssociative
<1> QED BY <1>1, <1>3 DEF Stream

(***************************************************************************)
(* A message is sent.                                                      *)
(***************************************************************************)
LEMMA SendStep ==
  ASSUME WireInv, NEW m \in Messages, Send(m)
  PROVE  StreamInv' /\ ParserInv' /\ QuietInv' /\ Promise!Send(m)
<1>1. PICK s, t, q : s = Stream /\ t = Intact(Frame(m)) /\ q = sent
  OBVIOUS
<1>2. s \in Seq(LineBytes) /\ q \in Seq(Messages)
  BY <1>1, StreamType DEF WireInv
<1>3. /\ t \in Seq(LineBytes) /\ Len(t) = Len(Frame(m))
      /\ \A k \in 1 .. Len(t) : t[k] = [byte |-> Frame(m)[k], of |-> Len(q) + 1, at |-> k]
  BY <1>1, <1>2, IntactBytes
<1>4. Chain(s, q)
  BY <1>1 DEF WireInv, StreamInv
<1>5. /\ Chain(s \o t, Append(q, m))
      /\ Position(s \o t, Append(q, m)) = Position(s, q)
      /\ t # <<>> /\ t[1].at = 1 /\ \A k \in 1 .. Len(t) : t[k].at > 0
  BY <1>2, <1>3, <1>4, StreamSend
<1>6. Stream' = s \o t /\ sent' = Append(q, m)
  BY <1>1, <1>3, StreamGrows DEF Send, WireInv
<1>7. StreamInv'
  BY <1>5, <1>6 DEF StreamInv
<1>8. s \o t # <<>> /\ Head(s \o t) = IF s = <<>> THEN t[1] ELSE Head(s)
  BY <1>2, <1>3, <1>5, HeadOfConcat
<1>9. ParserInv'
  <2>1. SUFFICES ASSUME InsideOf(Head(s \o t), Append(q, m)), Head(s \o t).at > 1
                 PROVE  Reached(parser, Append(q, m)[Head(s \o t).of], Head(s \o t).at - 1)
    BY <1>6 DEF ParserInv, ParserAt, Send
  <2>2. s # <<>> /\ Head(s \o t) = Head(s)
    BY <1>5, <1>8, <2>1
  <2>3. PICK b : b = Head(s)
    OBVIOUS
  <2>4. Good(b, q)
    BY <1>2, <1>4, <2>2, <2>3, ChainTail
  <2>5. InsideOf(b, q)
    BY <1>2, <2>1, <2>2, <2>3, <2>4, GoodGrows
  <2>6. Append(q, m)[b.of] = q[b.of]
    <3>1. b.of \in 1 .. Len(q)
      BY <1>2, <2>4, <2>5, GoodByte DEF InsideOf
    <3> QED BY <1>2, <3>1, AppendProperties
  <2>7. Reached(parser, q[b.of], b.at - 1)
    BY <1>1, <2>1, <2>2, <2>3, <2>5 DEF WireInv, ParserInv, ParserAt
  <2> QED BY <2>2, <2>3, <2>6, <2>7
<1>10. QuietInv'
  <2>1. SUFFICES ASSUME noise = 0, NEW j \in 1 .. Len(s \o t) PROVE (s \o t)[j].at > 0
    BY <1>6 DEF QuietInv, Send
  <2>2. \A k \in 1 .. Len(s) : s[k].at > 0
    BY <1>1, <2>1 DEF WireInv, QuietInv
  <2>3. PICK M, N : M = Len(s) /\ N = Len(t)
    OBVIOUS
  <2>4. j \in 1 .. M + N /\ M \in Nat /\ N \in Nat
    BY <1>2, <1>3, <2>3, Concat
  <2>5. CASE j <= M
    <3>1. j \in 1 .. M
      BY <2>4, <2>5
    <3> QED BY <1>2, <1>3, <2>2, <2>3, <3>1, Concat
  <2>6. CASE j > M
    <3>1. PICK k : k = j - M
      OBVIOUS
    <3>2. k \in 1 .. N /\ M + k = j
      BY <2>4, <2>6, <3>1
    <3> QED BY <1>2, <1>3, <1>5, <2>3, <3>2, Concat
  <2> QED BY <2>4, <2>5, <2>6
<1>11. Promise!Send(m)
  <2>1. PICK n : n = Position(s, q)
    OBVIOUS
  <2>2. n \in 0 .. Len(q)
    BY <1>2, <1>4, <2>1, PositionBounds
  <2>3. Arrived = n /\ Arrived' = n
    BY <1>1, <1>5, <1>6, <2>1, ArrivedIs
  <2>4. Queue' = Append(Queue, m)
    BY <1>1, <1>2, <1>6, <2>2, <2>3, QueueSend DEF Queue
  <2>5. Delivered' = Delivered
    BY DEF Delivered, Send, Packet
  <2>6. noise' = noise
    BY DEF Send
  <2> QED BY <2>4, <2>5, <2>6 DEF Promise!Send, Queue, Delivered
<1> QED BY <1>7, <1>9, <1>10, <1>11

(***************************************************************************)
(* Facts about sequences: what a head taken off leaves, and what an        *)
(* element appended does not change.                                       *)
(***************************************************************************)
LEMMA StreamShrinks ==
  ASSUME NEW S, NEW s \in Seq(S), NEW t \in Seq(S), s # <<>>
  PROVE  s \o t # <<>> /\ Head(s \o t) = Head(s) /\ Tail(s \o t) = Tail(s) \o t
<1>1. PICK b, u, f : b = Head(s) /\ u = Tail(s) /\ f = <<b>>
  OBVIOUS
<1>2. b \in S /\ u \in Seq(S) /\ f \in Seq(S) /\ s = f \o u
  BY <1>1, HeadTailProperties
<1>3. s \o t = f \o (u \o t) /\ u \o t \in Seq(S)
  BY <1>2, ConcatAssociative, ConcatProperties
<1>4. PICK w : w = u \o t
  OBVIOUS
<1>5. f \o w # <<>> /\ Head(f \o w) = b /\ Tail(f \o w) = w
  BY <1>1, <1>2, <1>3, <1>4
<1> QED BY <1>1, <1>3, <1>4, <1>5

LEMMA TailElements ==
  ASSUME NEW S, NEW s \in Seq(S), s # <<>>
  PROVE  /\ 1 \in 1 .. Len(s)
         /\ \A j \in 1 .. Len(Tail(s)) : j + 1 \in 1 .. Len(s) /\ Tail(s)[j] = s[j + 1]
<1>1. PICK t, N : t = Tail(s) /\ N = Len(s)
  OBVIOUS
<1>2. N \in Nat /\ N >= 1 /\ Len(t) = N - 1 /\ \A k \in 1 .. N - 1 : t[k] = s[k + 1]
  BY <1>1, HeadTailProperties, EmptySeq
<1>3. \A j \in 1 .. N - 1 : j + 1 \in 1 .. N
  BY <1>2
<1>4. 1 \in 1 .. N
  BY <1>2
<1> QED BY <1>1, <1>2, <1>3, <1>4

LEMMA PrefixOfAppend ==
  ASSUME NEW S, NEW s \in Seq(S), NEW d \in S
  PROVE  Len(Append(s, d)) = Len(s) + 1 /\ SubSeq(Append(s, d), 1, Len(s)) = s
<1>1. <<d>> \in Seq(S) /\ Append(s, d) = s \o <<d>>
  BY AppendIsConcat
<1>2. PICK N : N = Len(s)
  OBVIOUS
<1>3. N \in Nat
  BY <1>2
<1>4. CASE N = 0
  <2>1. s = <<>>
    BY <1>2, <1>4, EmptySeq
  <2>2. SubSeq(Append(s, d), 1, N) = <<>>
    BY <1>4, SubSeqEmpty
  <2> QED BY <1>2, <2>1, <2>2, AppendProperties
<1>5. CASE N > 0
  <2>1. 1 \in 1 .. Len(s) /\ N \in 1 .. Len(s)
    BY <1>2, <1>3, <1>5
  <2>2. SubSeq(s \o <<d>>, 1, N) = SubSeq(s, 1, N)
    BY <1>1, <2>1, SubSeqOfConcat1
  <2> QED BY <1>1, <1>2, <2>2, SubSeqFull, AppendProperties
<1> QED BY <1>3, <1>4, <1>5

(***************************************************************************)
(* The line loses or adds a byte: no longer quiet.                         *)
(***************************************************************************)
LEMMA DisturbStep ==
  ASSUME WireInv, NEW bytes \in Seq(Bytes), bytes # <<>>, line' = line \o Stray(bytes),
         noise' = noise + 1, UNCHANGED <<buffer, parser, sent, received>>
  PROVE  StreamInv' /\ ParserInv' /\ QuietInv' /\ Promise!Disturb
<1>1. PICK s, t, q : s = Stream /\ t = Stray(bytes) /\ q = sent
  OBVIOUS
<1>2. s \in Seq(LineBytes) /\ q \in Seq(Messages)
  BY <1>1, StreamType DEF WireInv
<1>3. /\ t \in Seq(LineBytes) /\ Len(t) = Len(bytes)
      /\ \A k \in 1 .. Len(t) : t[k] = [byte |-> bytes[k], of |-> Len(q), at |-> 0]
  BY <1>1, <1>2, StrayBytes
<1>4. Chain(s, q)
  BY <1>1 DEF WireInv, StreamInv
<1>5. t # <<>> /\ t[1].at = 0 /\ \A k \in 1 .. Len(t) : t[k].of = Len(q) /\ t[k].at = 0
  <2>1. PICK N : N = Len(t)
    OBVIOUS
  <2>2. N \in Nat /\ N # 0
    BY <1>3, <2>1, EmptySeq
  <2>3. t # <<>> /\ 1 \in 1 .. N
    BY <1>3, <2>1, <2>2, EmptySeq
  <2>4. ASSUME NEW k \in 1 .. N PROVE t[k].of = Len(q) /\ t[k].at = 0
    <3>1. t[k] = [byte |-> bytes[k], of |-> Len(q), at |-> 0]
      BY <1>3, <2>1
    <3> QED BY <3>1
  <2> QED BY <2>1, <2>3, <2>4
<1>6. Chain(s \o t, q) /\ Position(s \o t, q) = Position(s, q)
  BY <1>2, <1>3, <1>4, <1>5, StreamStray
<1>7. Stream' = s \o t /\ sent' = q
  BY <1>1, <1>3, StreamGrows DEF WireInv
<1>8. s \o t # <<>> /\ Head(s \o t) = IF s = <<>> THEN t[1] ELSE Head(s)
  BY <1>2, <1>3, <1>5, HeadOfConcat
<1>9. ParserInv'
  <2>1. SUFFICES ASSUME InsideOf(Head(s \o t), q), Head(s \o t).at > 1
                 PROVE  Reached(parser, q[Head(s \o t).of], Head(s \o t).at - 1)
    BY <1>7 DEF ParserInv, ParserAt
  <2>2. ~(t[1].at > 1)
    BY <1>5
  <2>3. s # <<>> /\ Head(s \o t) = Head(s)
    BY <1>8, <2>1, <2>2
  <2> QED BY <1>1, <2>1, <2>3 DEF WireInv, ParserInv, ParserAt
<1>10. noise' # 0 /\ noise' > 0
  BY DEF WireInv, TypeOK
<1>11. Promise!Disturb
  <2>1. Arrived' = Arrived
    BY <1>1, <1>6, <1>7, ArrivedIs
  <2>2. Delivered' = Delivered /\ Queue' = Queue
    BY <2>1 DEF Delivered, Queue, Packet
  <2> QED BY <1>10, <2>2 DEF Promise!Disturb, Queue, Delivered
<1> QED BY <1>6, <1>7, <1>9, <1>10, <1>11 DEF StreamInv, QuietInv

(***************************************************************************)
(* A byte is parsed: a message is delivered with the last byte in front of *)
(* its closing flag; with any other byte something is delivered only after *)
(* noise.                                                                  *)
(***************************************************************************)
LEMMA ReceiveStep ==
  ASSUME WireInv, ReceiveByte
  PROVE  StreamInv' /\ ParserInv' /\ QuietInv' /\ [Promise!Next]_(Promise!linkVars)
<1>1. PICK s, q, b : s = Stream /\ q = sent /\ b = Head(Stream)
  OBVIOUS
<1>2. s \in Seq(LineBytes) /\ q \in Seq(Messages) /\ parser \in Parsers
  BY <1>1, StreamType DEF WireInv
<1>3. s # <<>> /\ b = Head(buffer) /\ Stream' = Tail(s)
  <2>1. buffer \in Seq(LineBytes) /\ line \in Seq(LineBytes) /\ buffer # <<>>
    BY DEF WireInv, TypeOK, ReceiveByte
  <2>2. buffer' = Tail(buffer) /\ line' = line
    BY DEF ReceiveByte
  <2> QED BY <1>1, <2>1, <2>2, StreamShrinks DEF Stream
<1>4. Chain(s, q) /\ ParserAt(parser, s, q)
  BY <1>1 DEF WireInv, StreamInv, ParserInv
<1>5. sent' = q /\ received' = received /\ noise' = noise /\ ~HasPacket(parser)
      /\ parser' = Receive(parser, b.byte)
  BY <1>1, <1>3 DEF ReceiveByte
<1>6. /\ ParserAt(parser', Tail(s), q)
      /\ LastBeforeFlag(b, q) =>
           HasPacket(parser') /\ q[b.of] = [header |-> parser'.header, payload |-> parser'.data]
      /\ b.at > 0 /\ ~LastBeforeFlag(b, q) => ~HasPacket(parser')
  BY <1>1, <1>2, <1>3, <1>4, <1>5, ParseByte
<1>7. Chain(Tail(s), q) /\ Good(b, q) /\ b = s[1] /\ Tail(s) \in Seq(LineBytes)
  BY <1>1, <1>2, <1>3, <1>4, ChainTail
<1>8. StreamInv' /\ ParserInv'
  BY <1>3, <1>5, <1>6, <1>7 DEF StreamInv, ParserInv
<1>9. 1 \in 1 .. Len(s) /\ \A j \in 1 .. Len(Tail(s)) : j + 1 \in 1 .. Len(s) /\ Tail(s)[j] = s[j + 1]
  BY <1>2, <1>3, TailElements
<1>10. QuietInv'
  BY <1>1, <1>3, <1>5, <1>9 DEF WireInv, QuietInv
<1>11. noise = 0 => b.at > 0
  BY <1>1, <1>7, <1>9 DEF WireInv, QuietInv
<1>12. noise \in Nat /\ received \in Seq(Packets) /\ Packet' \in Packets
  <2>1. parser' \in Parsers
    BY WireStep DEF WireInv, Next, Receiver, TypeOK
  <2> QED BY <2>1 DEF WireInv, TypeOK, Packet, Packets, Parsers
<1>13. Delivered = received /\ Delivered' = IF HasPacket(parser') THEN Append(received, Packet') ELSE received
  BY <1>5 DEF Delivered
<1>14. CASE LastBeforeFlag(b, q)
  <2>1. PICK n : n = Position(s, q)
    OBVIOUS
  <2>2. n + 1 = b.of /\ Position(Tail(s), q) = b.of
    BY <1>1, <1>2, <1>3, <1>4, <1>14, <2>1, PositionOfTail DEF LastBeforeFlag
  <2>3. b.of \in 1 .. Len(q)
    BY <1>2, <1>7, <1>14, GoodByte DEF LastBeforeFlag, InsideOf
  <2>4. n \in Nat
    BY <1>2, <1>4, <2>1, PositionBounds
  <2>5. Arrived = n /\ Arrived' = b.of
    BY <1>1, <1>3, <1>5, <2>1, <2>2, ArrivedIs
  <2>6. Queue # <<>> /\ Head(Queue) = q[b.of] /\ Queue' = Tail(Queue)
    BY <1>1, <1>2, <1>5, <2>2, <2>3, <2>4, <2>5, QueueDeliver DEF Queue
  <2>7. Delivered' = Append(Delivered, Head(Queue))
    BY <1>6, <1>13, <1>14, <2>6 DEF Packet
  <2>8. Promise!Deliver
    BY <1>5, <2>6, <2>7 DEF Promise!Deliver, Queue, Delivered
  <2> QED BY <1>8, <1>10, <2>8 DEF Promise!Next
<1>15. CASE ~LastBeforeFlag(b, q)
  <2>1. Position(Tail(s), q) = Position(s, q)
    BY <1>1, <1>2, <1>3, <1>4, <1>15, PositionOfTail DEF LastBeforeFlag
  <2>2. Arrived' = Arrived
    BY <1>1, <1>3, <1>5, <2>1, ArrivedIs
  <2>3. Queue' = Queue
    BY <1>1, <1>5, <2>2 DEF Queue
  <2>4. CASE HasPacket(parser')
    <3>1. noise > 0
      BY <1>6, <1>11, <1>12, <1>15, <2>4
    <3>2. Delivered' = Append(Delivered, Packet')
      BY <1>13, <2>4
    <3>3. Len(Delivered') = Len(Delivered) + 1 /\ SubSeq(Delivered', 1, Len(Delivered)) = Delivered
      BY <1>12, <1>13, <3>2, PrefixOfAppend
    <3>4. Promise!Spurious
      BY <1>5, <2>3, <3>1, <3>3 DEF Promise!Spurious, Queue, Delivered
    <3> QED BY <1>8, <1>10, <3>4 DEF Promise!Next
  <2>5. CASE ~HasPacket(parser')
    <3>1. Delivered' = Delivered
      BY <1>13, <2>5
    <3>2. UNCHANGED Promise!linkVars
      BY <1>5, <2>3, <3>1 DEF Promise!linkVars, Queue, Delivered
    <3> QED BY <1>8, <1>10, <3>2
  <2> QED BY <2>4, <2>5
<1> QED BY <1>14, <1>15

(***************************************************************************)
(* The invariant holds, and every step is one of the link or a stutter.    *)
(***************************************************************************)
LEMMA WireInvInit ==
  ASSUME Init
  PROVE  WireInv /\ Promise!Init
<1>1. TypeOK /\ Bounds(parser)
  BY WireInit
<1>2. Stream = <<>> /\ Len(Stream) = 0 /\ sent = <<>> /\ Len(sent) = 0
  BY DEF Init, Stream
<1>3. StreamInv /\ ParserInv /\ QuietInv
  BY <1>2 DEF StreamInv, ParserInv, QuietInv, Chain, ParserAt
<1>4. Arrived = 0
  BY <1>2 DEF Arrived
<1>5. SubSeq(sent, Arrived + 1, Len(sent)) = <<>>
  BY <1>2, <1>4, SubSeqEmpty
<1>6. ~HasPacket(parser) /\ received = <<>> /\ ~(noise > 0)
  BY DEF Init, ParserCreate, HasPacket
<1>7. Promise!Init
  BY <1>5, <1>6 DEF Promise!Init
<1> QED BY <1>1, <1>3, <1>7 DEF WireInv

LEMMA WireInvStep ==
  ASSUME WireInv, [Next]_wireVars
  PROVE  WireInv' /\ [Promise!Next]_(Promise!linkVars)
<1> DEFINE Goal == StreamInv' /\ ParserInv' /\ QuietInv' /\ [Promise!Next]_(Promise!linkVars)
<1>1. TypeOK' /\ Bounds(parser)'
  BY WireStep DEF WireInv
<1>2. ASSUME NEW m \in Messages, Send(m) PROVE Goal
  BY <1>2, SendStep DEF Promise!Next
<1>3. ASSUME NEW m \in Messages, NEW k \in 1 .. Len(Frame(m)), SendDamaged(m, k) PROVE Goal
  <2>1. RemoveAt(Frame(m), k) \in Seq(Bytes) /\ RemoveAt(Frame(m), k) # <<>>
    <3>1. PICK r, N : r = RemoveAt(Frame(m), k) /\ N = Len(Frame(m))
      OBVIOUS
    <3>2. r \in Seq(Bytes) /\ Len(r) = N - 1 /\ N \in Nat /\ N >= 3
      BY <3>1, DamagedFrame, FrameEnds
    <3> QED BY <3>1, <3>2, EmptySeq
  <2>2. /\ line' = line \o Stray(RemoveAt(Frame(m), k)) /\ noise' = noise + 1
        /\ UNCHANGED <<buffer, parser, sent, received>>
    BY <1>3 DEF SendDamaged
  <2> QED BY <2>1, <2>2, DisturbStep DEF Promise!Next
<1>4. ASSUME NEW byte \in NoiseBytes, Noise(byte) PROVE Goal
  <2>1. <<byte>> \in Seq(Bytes) /\ <<byte>> # <<>>
    BY WireAssumption
  <2>2. /\ line' = line \o Stray(<<byte>>) /\ noise' = noise + 1
        /\ UNCHANGED <<buffer, parser, sent, received>>
    BY <1>4 DEF Noise
  <2> QED BY <2>1, <2>2, DisturbStep DEF Promise!Next
<1>5. ASSUME NEW n \in 1 .. RxBufferSize, Read(n) PROVE Goal
  BY <1>5, ReadStep
<1>6. ASSUME ReceiveByte PROVE Goal
  BY <1>6, ReceiveStep
<1>7. ASSUME TakePacket PROVE Goal
  BY <1>7, TakeStep
<1>8. ASSUME UNCHANGED wireVars PROVE Goal
  <2>1. Stream' = Stream /\ sent' = sent /\ noise' = noise /\ parser' = parser
    BY <1>8 DEF wireVars, Stream
  <2>2. ParserInv'
    BY <2>1 DEF ParserInv, WireInv
  <2>3. Delivered' = Delivered
    BY <1>8 DEF wireVars, Delivered, Packet
  <2> QED BY <2>1, <2>2, <2>3, Idle
<1>9. Goal
  BY <1>2, <1>3, <1>4, <1>5, <1>6, <1>7, <1>8 DEF Next, Receiver
<1> QED BY <1>1, <1>9 DEF WireInv

(***************************************************************************)
(* Encoder, serial line and parser implement the link, for every alphabet, *)
(* checksum, message length, size of the read buffer and schedule: what    *)
(* ndlcomEncode of src/Encoder.c writes and crosses the line undamaged,    *)
(* ndlcomParserReceive reports unchanged, once and in order, whatever came *)
(* before it; it reports anything else only after the line was disturbed.  *)
(***************************************************************************)
THEOREM WireImplementsLink == Spec => ImplementsLink
<1>1. Init => WireInv /\ Promise!Init
  BY WireInvInit
<1>2. WireInv /\ [Next]_wireVars => WireInv' /\ [Promise!Next]_(Promise!linkVars)
  BY WireInvStep
<1> QED BY <1>1, <1>2, PTL DEF Spec, ImplementsLink, Promise!Safety
=============================================================================
