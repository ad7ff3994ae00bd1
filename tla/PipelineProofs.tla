---------------------------- MODULE PipelineProofs ----------------------------
(***************************************************************************)
(* What the consumer prints, for every command line, and any number and    *)
(* length of packets.                                                      *)
(***************************************************************************)
EXTENDS Pipeline, SequenceTheorems, TLAPS

(***************************************************************************)
(* The bytes in the order they are printed; spaces and noise are no bytes. *)
(***************************************************************************)
IsByte(c) == c.packet > 0

ByteOf(p, q) == [packet |-> p, place |-> q]

Earlier(c, d) == c.packet < d.packet \/ (c.packet = d.packet /\ c.place < d.place)

(***************************************************************************)
(* The bytes in r are those of the first n packets from place q of packet  *)
(* p on, each once and in order.                                           *)
(***************************************************************************)
Due(r, n, p, q) ==
  /\ \A i \in 1 .. Len(r) : IsByte(r[i]) => r[i].packet <= n /\ ~Earlier(r[i], ByteOf(p, q))
  /\ \A i, j \in 1 .. Len(r) : i < j /\ IsByte(r[i]) /\ IsByte(r[j]) => Earlier(r[i], r[j])
  /\ \A f \in 1 .. n, k \in 1 .. FrameLength :
       ~Earlier(ByteOf(f, k), ByteOf(p, q)) => \E i \in 1 .. Len(r) : r[i] = ByteOf(f, k)

Ahead == IF consumer = "parse" THEN <<byte>> ELSE stdin

Unread == Ahead \o pipe

(***************************************************************************)
(* The consumer has parsed everything before place q of packet p: a packet *)
(* is handled with the byte before its closing flag.                       *)
(***************************************************************************)
Position(p, q) ==
  /\ p <= Len(packets) \/ (p = Len(packets) + 1 /\ q = 1)
  /\ handled = IF q = FrameLength THEN p ELSE p - 1
  /\ parser = IF q = FrameLength THEN <<>> ELSE [k \in 1 .. q - 2 |-> ByteOf(p, k + 1)]

At(p, q) == Position(p, q) /\ Due(Unread, Len(packets), p, q)

StreamInv ==
  /\ producer = "options" => Len(packets) < MaxPackets
  /\ stdin # <<>> => consumer = "read"
  /\ Len(stdin) <= 1
  /\ consumer = "parse" => IsByte(byte)
  /\ \E p \in 1 .. MaxPackets + 1, q \in 1 .. FrameLength : At(p, q)

Inv == PipelineTypeOK /\ StreamInv

-----------------------------------------------------------------------------
(***************************************************************************)
(* The next place, and what is later than one place is not earlier than    *)
(* the next.                                                               *)
(***************************************************************************)
NextPacket(p, q) == IF q = FrameLength THEN p + 1 ELSE p
NextPlace(q) == IF q = FrameLength THEN 1 ELSE q + 1

LEMMA Discrete ==
  ASSUME NEW p \in Nat, NEW q \in 1 .. FrameLength, NEW f \in Nat, NEW k \in 1 .. FrameLength
  PROVE  /\ Earlier(ByteOf(p, q), ByteOf(f, k)) =>
              ~Earlier(ByteOf(f, k), ByteOf(NextPacket(p, q), NextPlace(q)))
         /\ ~Earlier(ByteOf(f, k), ByteOf(NextPacket(p, q), NextPlace(q))) =>
              /\ ~Earlier(ByteOf(f, k), ByteOf(p, q))
              /\ ByteOf(f, k) # ByteOf(p, q)
         /\ ~Earlier(ByteOf(f, k), ByteOf(p, q)) =>
              ByteOf(f, k) = ByteOf(p, q) \/ Earlier(ByteOf(p, q), ByteOf(f, k))
         /\ NextPacket(p, q) \in Nat /\ NextPlace(q) \in 1 .. FrameLength
  BY PipelineAssumption DEF Earlier, ByteOf, NextPacket, NextPlace

LEMMA IsOfByte == \A c \in Characters : IsByte(c) =>
                    /\ c.packet \in 1 .. MaxPackets /\ c.place \in 1 .. FrameLength
                    /\ c = ByteOf(c.packet, c.place)
  BY DEF Characters, Space, Noise, IsByte, ByteOf

(***************************************************************************)
(* What is read first is no byte, or it is the byte that is due.           *)
(***************************************************************************)
LEMMA PutBefore ==
  ASSUME NEW S, NEW c \in S, NEW s \in Seq(S)
  PROVE  /\ <<c>> \o s \in Seq(S) /\ Len(<<c>> \o s) = Len(s) + 1 /\ (<<c>> \o s)[1] = c
         /\ \A i \in 1 .. Len(s) : (<<c>> \o s)[i + 1] = s[i]
  OBVIOUS

LEMMA SkipOne ==
  ASSUME NEW c \in Characters, NEW s \in Seq(Characters), NEW n \in Nat, NEW p \in Nat, NEW q \in Nat,
         Due(<<c>> \o s, n, p, q), ~IsByte(c)
  PROVE  Due(s, n, p, q)
<1>1. PICK r : r = <<c>> \o s
  OBVIOUS
<1>2. /\ Len(s) \in Nat /\ Len(r) = Len(s) + 1 /\ r[1] = c
      /\ \A i \in 1 .. Len(s) : i + 1 \in 1 .. Len(r) /\ r[i + 1] = s[i]
  BY <1>1, PutBefore
<1>3. Due(r, n, p, q)
  BY <1>1
<1>4. \A i \in 1 .. Len(s) : IsByte(s[i]) => s[i].packet <= n /\ ~Earlier(s[i], ByteOf(p, q))
  BY <1>2, <1>3 DEF Due
<1>5. \A i, j \in 1 .. Len(s) : i < j /\ IsByte(s[i]) /\ IsByte(s[j]) => Earlier(s[i], s[j])
  BY <1>2, <1>3 DEF Due
<1>6. ASSUME NEW f \in 1 .. n, NEW k \in 1 .. FrameLength, ~Earlier(ByteOf(f, k), ByteOf(p, q))
      PROVE  \E i \in 1 .. Len(s) : s[i] = ByteOf(f, k)
  <2>1. PICK i \in 1 .. Len(r) : r[i] = ByteOf(f, k)
    BY <1>3, <1>6 DEF Due
  <2>2. IsByte(ByteOf(f, k))
    BY DEF IsByte, ByteOf
  <2>3. i # 1 /\ i - 1 \in 1 .. Len(s) /\ (i - 1) + 1 = i
    BY <1>2, <2>1, <2>2
  <2> QED BY <1>2, <2>1, <2>3
<1> QED BY <1>4, <1>5, <1>6 DEF Due

LEMMA TakeOne ==
  ASSUME NEW c \in Characters, NEW s \in Seq(Characters), NEW n \in Nat, NEW p \in Nat \ {0},
         NEW q \in 1 .. FrameLength, Due(<<c>> \o s, n, p, q), IsByte(c)
  PROVE  /\ c = ByteOf(p, q) /\ p <= n
         /\ Due(s, n, NextPacket(p, q), NextPlace(q))
<1>1. PICK r : r = <<c>> \o s
  OBVIOUS
<1>2. /\ Len(s) \in Nat /\ Len(r) = Len(s) + 1 /\ r[1] = c
      /\ \A i \in 1 .. Len(s) : i + 1 \in 1 .. Len(r) /\ r[i + 1] = s[i]
      /\ \A i \in 1 .. Len(s) : s[i] \in Characters
  BY <1>1, PutBefore
<1>3. Due(r, n, p, q)
  BY <1>1
<1>4. PICK f, k : f = c.packet /\ k = c.place
  OBVIOUS
<1>5. c = ByteOf(f, k) /\ f \in Nat \ {0} /\ k \in 1 .. FrameLength
  BY <1>4, IsOfByte, PipelineAssumption
<1>6. f <= n /\ ~Earlier(ByteOf(f, k), ByteOf(p, q))
  BY <1>2, <1>3, <1>4, <1>5 DEF Due
<1>7. p <= n
  BY <1>5, <1>6 DEF Earlier, ByteOf
<1>8. c = ByteOf(p, q)
  <2>1. ~Earlier(ByteOf(p, q), ByteOf(p, q)) /\ IsByte(ByteOf(p, q)) /\ p \in 1 .. n
    BY <1>7 DEF Earlier, ByteOf, IsByte
  <2>2. PICK i \in 1 .. Len(r) : r[i] = ByteOf(p, q)
    BY <1>3, <2>1 DEF Due
  <2>3. CASE i = 1
    BY <1>2, <2>2, <2>3
  <2>4. CASE i # 1
    <3>1. 1 \in 1 .. Len(r) /\ 1 < i
      BY <1>2, <2>4
    <3>2. Earlier(c, ByteOf(p, q))
      BY <1>2, <1>3, <2>1, <2>2, <3>1 DEF Due
    <3> QED BY <1>5, <1>6, <3>2
  <2> QED BY <2>3, <2>4
<1>9. ASSUME NEW i \in 1 .. Len(s), IsByte(s[i])
      PROVE  s[i].packet <= n /\ ~Earlier(s[i], ByteOf(NextPacket(p, q), NextPlace(q)))
  <2>1. 1 \in 1 .. Len(r) /\ i + 1 \in 1 .. Len(r) /\ 1 < i + 1 /\ r[i + 1] = s[i] /\ s[i] \in Characters
    BY <1>2
  <2>2. s[i].packet <= n /\ Earlier(ByteOf(p, q), s[i])
    BY <1>2, <1>3, <1>8, <1>9, <2>1 DEF Due
  <2>3. PICK g, h : g = s[i].packet /\ h = s[i].place
    OBVIOUS
  <2>4. s[i] = ByteOf(g, h) /\ g \in Nat /\ h \in 1 .. FrameLength
    BY <1>9, <2>1, <2>3, IsOfByte, PipelineAssumption
  <2> QED BY <2>2, <2>4, Discrete
<1>10. ASSUME NEW i \in 1 .. Len(s), NEW j \in 1 .. Len(s), i < j, IsByte(s[i]), IsByte(s[j])
       PROVE  Earlier(s[i], s[j])
  <2>1. i + 1 \in 1 .. Len(r) /\ r[i + 1] = s[i]
    BY <1>2
  <2>2. j + 1 \in 1 .. Len(r) /\ r[j + 1] = s[j]
    BY <1>2
  <2>3. i + 1 < j + 1
    BY <1>2, <1>10
  <2> QED BY <1>3, <1>10, <2>1, <2>2, <2>3 DEF Due
<1>11. ASSUME NEW g \in 1 .. n, NEW h \in 1 .. FrameLength,
              ~Earlier(ByteOf(g, h), ByteOf(NextPacket(p, q), NextPlace(q)))
       PROVE  \E i \in 1 .. Len(s) : s[i] = ByteOf(g, h)
  <2>1. ~Earlier(ByteOf(g, h), ByteOf(p, q)) /\ ByteOf(g, h) # c
    BY <1>8, <1>11, Discrete
  <2>2. PICK i \in 1 .. Len(r) : r[i] = ByteOf(g, h)
    BY <1>3, <2>1 DEF Due
  <2>3. i - 1 \in 1 .. Len(s) /\ (i - 1) + 1 = i
    BY <1>2, <2>1, <2>2
  <2> QED BY <1>2, <2>2, <2>3
<1> QED BY <1>7, <1>8, <1>9, <1>10, <1>11 DEF Due

-----------------------------------------------------------------------------
(***************************************************************************)
(* What is printed behind it.                                              *)
(***************************************************************************)
LEMMA NoiseBehind ==
  ASSUME NEW c \in Characters, NEW s \in Seq(Characters), NEW n \in Nat, NEW p \in Nat, NEW q \in Nat,
         Due(s, n, p, q), ~IsByte(c)
  PROVE  Due(Append(s, c), n, p, q)
<1>1. PICK r : r = Append(s, c)
  OBVIOUS
<1>2. /\ Len(s) \in Nat /\ Len(r) = Len(s) + 1 /\ r[Len(s) + 1] = c
      /\ \A i \in 1 .. Len(s) : r[i] = s[i]
  BY <1>1
<1>3. \A i \in 1 .. Len(r) : IsByte(r[i]) => i \in 1 .. Len(s) /\ r[i] = s[i]
  BY <1>2
<1>4. \A i \in 1 .. Len(r) : IsByte(r[i]) => r[i].packet <= n /\ ~Earlier(r[i], ByteOf(p, q))
  BY <1>3 DEF Due
<1>5. \A i, j \in 1 .. Len(r) : i < j /\ IsByte(r[i]) /\ IsByte(r[j]) => Earlier(r[i], r[j])
  BY <1>3 DEF Due
<1>6. ASSUME NEW f \in 1 .. n, NEW k \in 1 .. FrameLength, ~Earlier(ByteOf(f, k), ByteOf(p, q))
      PROVE  \E i \in 1 .. Len(r) : r[i] = ByteOf(f, k)
  <2>1. PICK i \in 1 .. Len(s) : s[i] = ByteOf(f, k)
    BY <1>6 DEF Due
  <2> QED BY <1>2, <2>1
<1>7. Due(r, n, p, q)
  BY <1>4, <1>5, <1>6 DEF Due
<1> QED BY <1>1, <1>7

LEMMA TextOfFrame ==
  ASSUME NEW p \in 1 .. MaxPackets
  PROVE  /\ FrameText(p) \in Seq(Characters) /\ Len(FrameText(p)) = 2 * FrameLength
         /\ \A k \in 1 .. FrameLength : FrameText(p)[2 * k - 1] = ByteOf(p, k)
         /\ \A i \in 1 .. 2 * FrameLength :
              IsByte(FrameText(p)[i]) =>
                \E k \in 1 .. FrameLength : i = 2 * k - 1 /\ FrameText(p)[i] = ByteOf(p, k)
<1>1. FrameLength \in Nat
  BY PipelineAssumption
<1>2. ASSUME NEW i \in 1 .. 2 * FrameLength
      PROVE  (i % 2 = 0 \/ \E k \in 1 .. FrameLength : i = 2 * k - 1 /\ (i + 1) \div 2 = k)
  BY <1>1
<1>3. \A k \in 1 .. FrameLength : /\ 2 * k - 1 \in 1 .. 2 * FrameLength
                                  /\ (2 * k - 1) % 2 # 0 /\ (2 * k - 1 + 1) \div 2 = k
  BY <1>1
<1>4. PICK t : t = FrameText(p)
  OBVIOUS
<1>5. /\ t = [i \in 1 .. 2 * FrameLength |-> t[i]]
      /\ \A i \in 1 .. 2 * FrameLength :
           t[i] = IF i % 2 = 0 THEN Space ELSE ByteOf(p, (i + 1) \div 2)
  BY <1>4 DEF FrameText, ByteOf
<1>6. Space \in Characters /\ ~IsByte(Space) /\ \A k \in 1 .. FrameLength : ByteOf(p, k) \in Characters
  BY DEF Characters, Space, IsByte, ByteOf
<1>7. ASSUME NEW i \in 1 .. 2 * FrameLength
      PROVE  /\ t[i] \in Characters
             /\ IsByte(t[i]) => \E k \in 1 .. FrameLength : i = 2 * k - 1 /\ t[i] = ByteOf(p, k)
  <2>1. CASE i % 2 = 0
    BY <1>5, <1>6, <2>1
  <2>2. CASE i % 2 # 0
    <3>1. PICK k \in 1 .. FrameLength : i = 2 * k - 1 /\ (i + 1) \div 2 = k
      BY <1>2, <2>2
    <3>2. t[i] = ByteOf(p, (i + 1) \div 2)
      BY <1>5, <2>2
    <3>3. t[i] = ByteOf(p, k)
      BY <3>1, <3>2
    <3> QED BY <1>6, <3>1, <3>3
  <2> QED BY <2>1, <2>2
<1>8. ASSUME NEW k \in 1 .. FrameLength PROVE t[2 * k - 1] = ByteOf(p, k)
  <2>1. PICK i, m : i = 2 * k - 1 /\ m = (i + 1) \div 2
    OBVIOUS
  <2>2. i \in 1 .. 2 * FrameLength /\ i % 2 # 0 /\ m = k
    BY <1>3, <2>1
  <2>3. t[i] = ByteOf(p, (i + 1) \div 2)
    BY <1>5, <2>2
  <2> QED BY <2>1, <2>2, <2>3
<1>9. 2 * FrameLength \in Nat
  BY <1>1
<1>10. t \in Seq(Characters) /\ Len(t) = 2 * FrameLength
  <2>1. PICK m : m = 2 * FrameLength
    OBVIOUS
  <2>2. t \in [1 .. m -> Characters] /\ m \in Nat
    BY <1>5, <1>7, <1>9, <2>1
  <2> QED BY <2>1, <2>2
<1> QED BY <1>4, <1>7, <1>8, <1>10

LEMMA FrameBehind ==
  ASSUME NEW s \in Seq(Characters), NEW n \in Nat, n < MaxPackets, NEW p \in Nat \ {0},
         NEW q \in 1 .. FrameLength, Due(s, n, p, q), p <= n \/ (p = n + 1 /\ q = 1)
  PROVE  Due(s \o FrameText(n + 1), n + 1, p, q)
<1>1. n + 1 \in 1 .. MaxPackets
  BY PipelineAssumption
<1>2. PICK t : t = FrameText(n + 1)
  OBVIOUS
<1>3. /\ t \in Seq(Characters) /\ Len(t) = 2 * FrameLength
      /\ \A k \in 1 .. FrameLength : t[2 * k - 1] = ByteOf(n + 1, k)
      /\ \A i \in 1 .. 2 * FrameLength :
           IsByte(t[i]) => \E k \in 1 .. FrameLength : i = 2 * k - 1 /\ t[i] = ByteOf(n + 1, k)
  BY <1>1, <1>2, TextOfFrame
<1>4. PICK r, a, b : r = s \o t /\ a = Len(s) /\ b = Len(t)
  OBVIOUS
<1>5. /\ a \in Nat /\ b \in Nat /\ Len(r) = a + b
      /\ \A i \in 1 .. a : r[i] = s[i]
      /\ \A i \in 1 .. b : r[a + i] = t[i]
  <2>1. Len(r) = a + b /\ \A i \in 1 .. Len(r) : r[i] = IF i <= a THEN s[i] ELSE t[i - a]
    BY <1>3, <1>4
  <2>2. a \in Nat /\ b \in Nat
    BY <1>3, <1>4
  <2>3. \A i \in 1 .. a : r[i] = s[i]
    BY <2>1, <2>2
  <2>4. ASSUME NEW i \in 1 .. b PROVE r[a + i] = t[i]
    <3>1. a + i \in 1 .. Len(r) /\ ~(a + i <= a) /\ (a + i) - a = i
      BY <2>1, <2>2
    <3> QED BY <2>1, <3>1
  <2> QED BY <2>1, <2>2, <2>3, <2>4
<1>6. ASSUME NEW i \in 1 .. Len(r), IsByte(r[i])
      PROVE  \/ i \in 1 .. a /\ r[i] = s[i]
             \/ \E k \in 1 .. FrameLength : i = a + (2 * k - 1) /\ r[i] = ByteOf(n + 1, k)
  <2>1. CASE i <= a
    BY <1>5, <2>1
  <2>2. CASE ~(i <= a)
    <3>1. PICK j : j = i - a
      OBVIOUS
    <3>2. j \in 1 .. b /\ i = a + j
      BY <1>5, <2>2, <3>1
    <3>3. r[i] = t[j]
      BY <1>5, <3>2
    <3>4. PICK k \in 1 .. FrameLength : j = 2 * k - 1 /\ t[j] = ByteOf(n + 1, k)
      BY <1>3, <1>4, <1>6, <3>2, <3>3
    <3> QED BY <3>2, <3>3, <3>4
  <2> QED BY <2>1, <2>2
<1>7. FrameLength \in Nat /\ \A k \in 1 .. FrameLength :
        /\ ByteOf(n + 1, k).packet = n + 1 /\ IsByte(ByteOf(n + 1, k))
        /\ ~Earlier(ByteOf(n + 1, k), ByteOf(p, q))
  BY PipelineAssumption DEF ByteOf, IsByte, Earlier
<1>8. \A i \in 1 .. a : IsByte(s[i]) => s[i].packet <= n /\ ~Earlier(s[i], ByteOf(p, q)) /\ s[i].packet \in Nat
  BY <1>4, IsOfByte, PipelineAssumption DEF Due
<1>9. \A i \in 1 .. Len(r) : IsByte(r[i]) => r[i].packet <= n + 1 /\ ~Earlier(r[i], ByteOf(p, q))
  BY <1>6, <1>7, <1>8
<1>10. ASSUME NEW i \in 1 .. Len(r), NEW j \in 1 .. Len(r), i < j, IsByte(r[i]), IsByte(r[j])
       PROVE  Earlier(r[i], r[j])
  <2>1. CASE i \in 1 .. a /\ j \in 1 .. a
    BY <1>4, <1>5, <1>10, <2>1 DEF Due
  <2>2. CASE i \in 1 .. a /\ j \notin 1 .. a
    <3>1. PICK k \in 1 .. FrameLength : r[j] = ByteOf(n + 1, k)
      BY <1>6, <1>10, <2>2
    <3>2. r[i] = s[i] /\ s[i].packet <= n /\ s[i].packet \in Nat
      BY <1>5, <1>8, <1>10, <2>2
    <3>3. r[j].packet = n + 1
      BY <1>7, <3>1
    <3>4. PICK x, y : x = r[i].packet /\ y = r[j].packet
      OBVIOUS
    <3>5. x <= n /\ x \in Nat /\ y = n + 1
      BY <3>2, <3>3, <3>4
    <3>6. x < y
      BY <3>5
    <3> QED BY <3>4, <3>6 DEF Earlier
  <2>3. CASE i \notin 1 .. a
    <3>1. PICK k \in 1 .. FrameLength : i = a + (2 * k - 1) /\ r[i] = ByteOf(n + 1, k)
      BY <1>6, <1>10, <2>3
    <3>2. j \notin 1 .. a
      BY <1>5, <1>10, <2>3
    <3>3. PICK l \in 1 .. FrameLength : j = a + (2 * l - 1) /\ r[j] = ByteOf(n + 1, l)
      BY <1>6, <1>10, <3>2
    <3>4. k < l
      BY <1>5, <1>7, <1>10, <3>1, <3>3
    <3> QED BY <1>7, <3>1, <3>3, <3>4 DEF Earlier, ByteOf
  <2> QED BY <2>1, <2>2, <2>3
<1>11. ASSUME NEW f \in 1 .. n + 1, NEW k \in 1 .. FrameLength, ~Earlier(ByteOf(f, k), ByteOf(p, q))
       PROVE  \E i \in 1 .. Len(r) : r[i] = ByteOf(f, k)
  <2>1. CASE f \in 1 .. n
    <3>1. PICK i \in 1 .. a : s[i] = ByteOf(f, k)
      BY <1>4, <1>11, <2>1 DEF Due
    <3> QED BY <1>5, <3>1
  <2>2. CASE f \notin 1 .. n
    <3>1. f = n + 1
      BY <2>2
    <3>2. PICK i : i = 2 * k - 1
      OBVIOUS
    <3>3. i \in 1 .. b
      BY <1>3, <1>4, <1>7, <3>2
    <3>4. a + i \in 1 .. Len(r)
      BY <1>5, <3>3
    <3>5. r[a + i] = ByteOf(f, k)
      BY <1>3, <1>5, <3>1, <3>2, <3>3
    <3> QED BY <3>4, <3>5
  <2> QED BY <2>1, <2>2
<1>12. Due(r, n + 1, p, q)
  BY <1>9, <1>10, <1>11 DEF Due
<1> QED BY <1>2, <1>4, <1>12

-----------------------------------------------------------------------------
(***************************************************************************)
(* The types, and the place, are inductive together: a packet is handled   *)
(* because all of its bytes were read, and those before them.              *)
(***************************************************************************)
LEMMA IdsAreCut == \A v \in Int : IdOf(v) \in Ids
  BY PipelineAssumption DEF IdOf, Ids

LEMMA DefaultIsHeader == DefaultHeader \in Headers
<1>1. 0 \in Ids /\ 1 \in Ids /\ Broadcast \in Ids
  BY PipelineAssumption DEF Ids, Broadcast
<1> QED BY <1>1 DEF DefaultHeader, Headers

LEMMA UnreadType == Inv => Ahead \in Seq(Characters) /\ Unread \in Seq(Characters)
<1> SUFFICES ASSUME Inv PROVE Ahead \in Seq(Characters) /\ Unread \in Seq(Characters)
  OBVIOUS
<1>1. Ahead \in Seq(Characters) /\ pipe \in Seq(Characters)
  BY DEF Inv, PipelineTypeOK, Ahead
<1>2. Ahead \o pipe \in Seq(Characters)
  BY <1>1
<1> QED BY <1>1, <1>2 DEF Unread

LEMMA InitPipeline == Init => Inv
<1> SUFFICES ASSUME Init PROVE Inv
  OBVIOUS
<1>1. PipelineTypeOK
  <2>1. 0 \in 0 .. Len(line) /\ Len(packets) = 0 /\ line \in Seq(ConsumerOptions)
    BY PipelineAssumption DEF Init
  <2>2. header \in Headers
    BY DefaultIsHeader DEF Init
  <2>3. packets \in Seq(Headers) /\ Len(packets) <= MaxPackets /\ noise \in 0 .. MaxNoise
    BY PipelineAssumption DEF Init
  <2>4. handled \in 0 .. Len(packets) /\ printed \in Seq(1 .. Len(packets))
    BY DEF Init
  <2>5. Space \in Characters
    BY DEF Characters
  <2>6. todo \in Seq(ProducerOptions) /\ pipe \in Seq(Characters) /\ stdin \in Seq(Characters)
        /\ parser \in Seq(Characters)
    BY DEF Init
  <2>7. optind \in 0 .. Len(line) /\ numberOfLinesToRead \in Int /\ byte \in Characters
        /\ filterSenderId \subseteq Ids /\ filterReceiverId \subseteq Ids
    BY <2>1, <2>5 DEF Init
  <2>9. closed \in BOOLEAN
    BY DEF Init
  <2>8. producer = "off" /\ consumer = "options"
    BY DEF Init
  <2> QED BY <2>1, <2>2, <2>3, <2>4, <2>6, <2>7, <2>8, <2>9 DEF PipelineTypeOK
<1>2. At(1, 1)
  <2>1. Position(1, 1)
    <3>1. 1 # FrameLength /\ [k \in 1 .. 1 - 2 |-> ByteOf(1, k + 1)] = <<>>
      BY PipelineAssumption
    <3> QED BY <3>1 DEF Position, Init
  <2>2. Unread = <<>>
    BY DEF Unread, Ahead, Init
  <2>3. Due(<<>>, 0, 1, 1)
    BY DEF Due
  <2> QED BY <2>1, <2>2, <2>3 DEF At, Init
<1>3. 1 \in 1 .. MaxPackets + 1 /\ 1 \in 1 .. FrameLength
  BY PipelineAssumption
<1>4. stdin = <<>> /\ consumer = "options" /\ Len(stdin) = 0 /\ producer = "off"
  BY DEF Init
<1> QED BY <1>1, <1>2, <1>3, <1>4 DEF Inv, StreamInv

LEMMA SamePlace ==
  ASSUME Inv, Unread' = Unread, UNCHANGED <<packets, handled, parser>>
  PROVE  \E p \in 1 .. MaxPackets + 1, q \in 1 .. FrameLength : At(p, q)'
<1>1. PICK p \in 1 .. MaxPackets + 1, q \in 1 .. FrameLength : At(p, q)
  BY DEF Inv, StreamInv
<1>2. At(p, q)'
  BY <1>1 DEF At, Position
<1> QED BY <1>2

(***************************************************************************)
(* Reading one character.                                                  *)
(***************************************************************************)
LEMMA FirstIs ==
  ASSUME Inv, NEW c \in Characters, Unread = <<c>> \o Unread', Unread' \in Seq(Characters), ~IsByte(c),
         UNCHANGED <<packets, handled, parser>>
  PROVE  \E p \in 1 .. MaxPackets + 1, q \in 1 .. FrameLength : At(p, q)'
<1>1. PICK p \in 1 .. MaxPackets + 1, q \in 1 .. FrameLength : At(p, q)
  BY DEF Inv, StreamInv
<1>2. PICK s, n : s = Unread' /\ n = Len(packets)
  OBVIOUS
<1>3. n \in Nat /\ s \in Seq(Characters) /\ p \in Nat /\ q \in Nat
  BY <1>2, PipelineAssumption DEF Inv, PipelineTypeOK
<1>4. Due(<<c>> \o s, n, p, q)
  BY <1>1, <1>2 DEF At
<1>5. Due(s, n, p, q)
  BY <1>3, <1>4, SkipOne
<1>6. At(p, q)'
  BY <1>1, <1>2, <1>5 DEF At, Position
<1> QED BY <1>6

LEMMA ByteIsDue ==
  ASSUME Inv, consumer = "parse"
  PROVE  \E p \in 1 .. MaxPackets, q \in 1 .. FrameLength :
           /\ Position(p, q) /\ byte = ByteOf(p, q) /\ p <= Len(packets)
           /\ Due(pipe, Len(packets), NextPacket(p, q), NextPlace(q))
<1>1. PICK p \in 1 .. MaxPackets + 1, q \in 1 .. FrameLength : At(p, q)
  BY DEF Inv, StreamInv
<1>2. PICK n : n = Len(packets)
  OBVIOUS
<1>3. n \in Nat /\ n <= MaxPackets /\ pipe \in Seq(Characters) /\ p \in Nat \ {0} /\ byte \in Characters /\ IsByte(byte)
  BY <1>2, PipelineAssumption DEF Inv, PipelineTypeOK, StreamInv
<1>4. Due(<<byte>> \o pipe, n, p, q)
  BY <1>1, <1>2 DEF At, Unread, Ahead
<1>5. byte = ByteOf(p, q) /\ p <= n /\ Due(pipe, n, NextPacket(p, q), NextPlace(q))
  BY <1>3, <1>4, TakeOne
<1>6. p \in 1 .. MaxPackets
  BY <1>3, <1>5, PipelineAssumption
<1> QED BY <1>1, <1>2, <1>5, <1>6 DEF At

(***************************************************************************)
(* What the parser makes of the byte that is due.                          *)
(***************************************************************************)
LEMMA ParsedIs ==
  ASSUME NEW p \in 1 .. MaxPackets, NEW q \in 1 .. FrameLength, Position(p, q), byte = ByteOf(p, q)
  PROVE  /\ q \in {1, FrameLength} => Parsed = <<>>
         /\ q \notin {1, FrameLength} => Parsed = [k \in 1 .. q - 1 |-> ByteOf(p, k + 1)]
<1>1. FrameLength \in Nat /\ FrameLength >= 3
  BY PipelineAssumption
<1>2. byte.place = q
  BY DEF ByteOf
<1>3. CASE q \in {1, FrameLength}
  BY <1>2, <1>3 DEF Parsed
<1>4. CASE q \notin {1, FrameLength}
  <2>1. Parsed = Append(parser, ByteOf(p, q)) /\ parser = [k \in 1 .. q - 2 |-> ByteOf(p, k + 1)]
    BY <1>2, <1>4 DEF Parsed, Position
  <2>2. PICK a, m : a = [k \in 1 .. q - 2 |-> ByteOf(p, k + 1)] /\ m = q - 2
    OBVIOUS
  <2>3. m \in Nat /\ q - 1 = m + 1 /\ q = m + 2
    BY <1>1, <1>4, <2>2
  <2>4. DOMAIN a = 1 .. m /\ \A k \in 1 .. m : a[k] = ByteOf(p, k + 1)
    BY <2>2
  <2>5. PICK T, c : T = {ByteOf(p, k + 1) : k \in Nat} /\ c = ByteOf(p, q)
    OBVIOUS
  <2>6. a \in Seq(T) /\ Len(a) = m /\ c \in T
    <3>1. c = ByteOf(p, (m + 1) + 1) /\ \A k \in 1 .. m : ByteOf(p, k + 1) \in T
      BY <2>3, <2>5
    <3>2. c \in T
      BY <2>3, <2>5, <3>1
    <3>3. a = [k \in 1 .. m |-> ByteOf(p, k + 1)]
      BY <2>2
    <3>4. a \in [1 .. m -> T]
      BY <3>1, <3>3
    <3> QED BY <2>3, <3>2, <3>4
  <2>7. PICK b : b = Append(a, c)
    OBVIOUS
  <2>8. b \in Seq(T) /\ Len(b) = m + 1 /\ b[m + 1] = c /\ \A k \in 1 .. m : b[k] = a[k]
    BY <2>3, <2>6, <2>7
  <2>9. b = [k \in 1 .. m + 1 |-> ByteOf(p, k + 1)]
    <3>1. b = [k \in 1 .. m + 1 |-> b[k]]
      BY <2>3, <2>8
    <3>2. ASSUME NEW k \in 1 .. m + 1 PROVE b[k] = ByteOf(p, k + 1)
      <4>1. CASE k \in 1 .. m
        BY <2>4, <2>8, <4>1
      <4>2. CASE k = m + 1
        <5>1. k + 1 = q
          BY <2>3, <4>2
        <5> QED BY <2>5, <2>8, <4>2, <5>1
      <4> QED BY <2>3, <4>1, <4>2
    <3> QED BY <3>1, <3>2
  <2> QED BY <1>4, <2>1, <2>2, <2>3, <2>5, <2>7, <2>9
<1> QED BY <1>3, <1>4

LEMMA PacketIs ==
  ASSUME NEW p \in 1 .. MaxPackets, NEW q \in 1 .. FrameLength, Position(p, q), byte = ByteOf(p, q), NEW f
  PROVE  IsPacket(f) <=> q = FrameLength - 1 /\ f = p
<1>1. FrameLength \in Nat /\ FrameLength >= 3 /\ FrameLength - 2 \in Nat
  BY PipelineAssumption
<1>2. PICK a : a = [k \in 1 .. FrameLength - 2 |-> [packet |-> f, place |-> k + 1]]
  OBVIOUS
<1>3. DOMAIN a = 1 .. FrameLength - 2 /\ a[1].packet = f /\ 1 \in DOMAIN a
  BY <1>1, <1>2
<1>4. IsPacket(f) <=> Parsed = a
  BY <1>2 DEF IsPacket
<1>5. CASE q \in {1, FrameLength}
  <2>1. Parsed = <<>>
    BY <1>5, ParsedIs
  <2>2. \A i : i \notin DOMAIN <<>>
    OBVIOUS
  <2>3. a # <<>>
    BY <1>3, <2>2
  <2> QED BY <1>1, <1>4, <1>5, <2>1, <2>3
<1>6. CASE q \notin {1, FrameLength}
  <2>1. Parsed = [k \in 1 .. q - 1 |-> ByteOf(p, k + 1)]
    BY <1>6, ParsedIs
  <2>2. ASSUME Parsed = a PROVE q = FrameLength - 1 /\ f = p
    <3>1. DOMAIN Parsed = 1 .. q - 1
      BY <2>1
    <3>2. 1 .. q - 1 = 1 .. FrameLength - 2
      BY <1>3, <2>2, <3>1
    <3>3. q - 1 = FrameLength - 2
      BY <1>1, <1>6, <3>2
    <3>4. Parsed[1].packet = p
      BY <1>1, <1>6, <2>1 DEF ByteOf
    <3> QED BY <1>1, <1>3, <2>2, <3>3, <3>4
  <2>3. ASSUME q = FrameLength - 1, f = p PROVE Parsed = a
    <3>1. q - 1 = FrameLength - 2
      BY <1>1, <2>3
    <3> QED BY <1>2, <2>1, <2>3, <3>1 DEF ByteOf
  <2> QED BY <1>4, <2>2, <2>3
<1> QED BY <1>5, <1>6

-----------------------------------------------------------------------------
(***************************************************************************)
(* The steps of the producers.                                             *)
(***************************************************************************)
LEMMA Widen ==
  ASSUME NEW S, NEW T, S \subseteq T, NEW s \in Seq(S)
  PROVE  s \in Seq(T)
  OBVIOUS

LEMMA ProducersStep ==
  ASSUME Inv, StartProducer \/ ProducerOption \/ Close
  PROVE  Inv'
<1>1. UNCHANGED <<packets, pipe, noise, consuming>>
  BY DEF StartProducer, ProducerOption, Close
<1>2. /\ producer' \in {"off", "options"} /\ header' \in Headers /\ todo' \in Seq(ProducerOptions)
      /\ closed' \in BOOLEAN
  <2>1. CASE StartProducer
    BY <2>1, DefaultIsHeader, PipelineAssumption DEF StartProducer, Inv, PipelineTypeOK
  <2>2. CASE Close
    BY <2>2 DEF Close, Inv, PipelineTypeOK
  <2>3. CASE ProducerOption
    <3>1. PICK o : o = Head(todo)
      OBVIOUS
    <3>2. o \in ProducerOptions /\ Tail(todo) \in Seq(ProducerOptions)
      BY <2>3, <3>1 DEF ProducerOption, Inv, PipelineTypeOK
    <3>3. o.value \in Int /\ IdOf(o.value) \in Ids
      BY <3>2, IdsAreCut DEF ProducerOptions
    <3>4. header \in [Fields -> Ids] /\ [header EXCEPT ![o.name] = IdOf(o.value)] \in Headers
      BY <3>3 DEF Inv, PipelineTypeOK, Headers
    <3>5. header' \in Headers
      BY <2>3, <3>1, <3>4 DEF ProducerOption, Headers
    <3> QED BY <2>3, <3>2, <3>5 DEF ProducerOption, Inv, PipelineTypeOK
  <2> QED BY <2>1, <2>2, <2>3
<1>3. Unread' = Unread
  BY <1>1 DEF Unread, Ahead, consuming
<1>4. PipelineTypeOK'
  BY <1>1, <1>2 DEF Inv, PipelineTypeOK, consuming, filters
<1>5. \E p \in 1 .. MaxPackets + 1, q \in 1 .. FrameLength : At(p, q)'
  BY <1>1, <1>3, SamePlace DEF consuming
<1>6. producer' = "options" => Len(packets) < MaxPackets
  BY DEF Inv, StreamInv, StartProducer, ProducerOption, Close
<1> QED BY <1>1, <1>4, <1>5, <1>6 DEF Inv, StreamInv, consuming

LEMMA NoiseStep ==
  ASSUME Inv, MakeNoise
  PROVE  Inv'
<1>1. UNCHANGED <<producer, header, todo, packets, closed, consuming>> /\ pipe' = Append(pipe, Noise)
      /\ noise' \in 0 .. MaxNoise
  BY PipelineAssumption DEF MakeNoise, Inv, PipelineTypeOK
<1>2. Noise \in Characters /\ ~IsByte(Noise)
  BY DEF Characters, Noise, IsByte
<1>3. pipe' \in Seq(Characters)
  BY <1>1, <1>2 DEF Inv, PipelineTypeOK
<1>4. PipelineTypeOK'
  BY <1>1, <1>3 DEF Inv, PipelineTypeOK, consuming, filters
<1>5. Unread' = Append(Unread, Noise)
  <2>1. Ahead' = Ahead
    BY <1>1 DEF Ahead, consuming
  <2>2. PICK a, b, c : a = Ahead /\ b = pipe /\ c = Noise
    OBVIOUS
  <2>3. a \in Seq(Characters) /\ b \in Seq(Characters) /\ c \in Characters
    BY <1>2, <2>2, UnreadType DEF Inv, PipelineTypeOK
  <2>4. a \o Append(b, c) = Append(a \o b, c)
    BY <2>3
  <2> QED BY <1>1, <2>1, <2>2, <2>4 DEF Unread
<1>6. PICK p \in 1 .. MaxPackets + 1, q \in 1 .. FrameLength : At(p, q)
  BY DEF Inv, StreamInv
<1>7. PICK r, n : r = Unread /\ n = Len(packets)
  OBVIOUS
<1>8. r \in Seq(Characters) /\ n \in Nat /\ p \in Nat /\ q \in Nat
  BY <1>7, UnreadType, PipelineAssumption DEF Inv, PipelineTypeOK
<1>9. Due(r, n, p, q)
  BY <1>6, <1>7 DEF At
<1>10. Due(Append(r, Noise), n, p, q)
  BY <1>2, <1>8, <1>9, NoiseBehind
<1>11. At(p, q)'
  BY <1>1, <1>5, <1>6, <1>7, <1>10 DEF At, Position, consuming
<1> QED BY <1>1, <1>4, <1>11 DEF Inv, StreamInv, consuming

LEMMA PrintStep ==
  ASSUME Inv, PrintPacket
  PROVE  Inv'
<1>1. /\ UNCHANGED <<header, todo, closed, noise, consuming>> /\ producer' = "off"
      /\ packets' = Append(packets, header) /\ pipe' = pipe \o FrameText(Len(packets'))
  BY DEF PrintPacket
<1>2. PICK n : n = Len(packets)
  OBVIOUS
<1>3. n \in Nat /\ n < MaxPackets /\ n + 1 \in 1 .. MaxPackets
  BY <1>2, PipelineAssumption DEF PrintPacket, Inv, PipelineTypeOK, StreamInv
<1>4. packets' \in Seq(Headers) /\ Len(packets') = n + 1 /\ \A f \in 1 .. n : packets'[f] = packets[f]
  BY <1>1, <1>2 DEF Inv, PipelineTypeOK
<1>5. FrameText(n + 1) \in Seq(Characters) /\ pipe \in Seq(Characters)
  BY <1>3, TextOfFrame DEF Inv, PipelineTypeOK
<1>6. PICK b, t : b = pipe /\ t = FrameText(n + 1)
  OBVIOUS
<1>7. pipe' = b \o t /\ b \in Seq(Characters) /\ t \in Seq(Characters)
  BY <1>1, <1>4, <1>5, <1>6
<1>8. PipelineTypeOK'
  <2>1. pipe' \in Seq(Characters)
    BY <1>7
  <2>2. printed \in Seq(1 .. n) /\ 1 .. n \subseteq 1 .. n + 1 /\ handled \in 0 .. n
    BY <1>2, <1>3 DEF Inv, PipelineTypeOK
  <2>3. printed' \in Seq(1 .. Len(packets')) /\ handled' \in 0 .. Len(packets')
    BY <1>1, <1>3, <1>4, <2>2, Widen DEF consuming
  <2>4. Len(packets') <= MaxPackets
    BY <1>3, <1>4
  <2> QED BY <1>1, <1>4, <2>1, <2>3, <2>4 DEF Inv, PipelineTypeOK, consuming, filters
<1>9. Unread' = Unread \o t
  <2>1. Ahead' = Ahead
    BY <1>1 DEF Ahead, consuming
  <2>2. PICK a : a = Ahead
    OBVIOUS
  <2>3. a \in Seq(Characters)
    BY <2>2, UnreadType
  <2>4. a \o (b \o t) = (a \o b) \o t
    BY <1>7, <2>3, ConcatAssociative
  <2> QED BY <1>6, <1>7, <2>1, <2>2, <2>4 DEF Unread
<1>10. PICK p \in 1 .. MaxPackets + 1, q \in 1 .. FrameLength : At(p, q)
  BY DEF Inv, StreamInv
<1>11. PICK r : r = Unread
  OBVIOUS
<1>12. r \in Seq(Characters) /\ p \in Nat \ {0}
  BY <1>11, UnreadType, PipelineAssumption
<1>13. Due(r, n, p, q) /\ Position(p, q)
  BY <1>2, <1>10, <1>11 DEF At
<1>14. p <= n \/ (p = n + 1 /\ q = 1)
  BY <1>2, <1>13 DEF Position
<1>15. Due(r \o t, n + 1, p, q)
  BY <1>3, <1>6, <1>12, <1>13, <1>14, FrameBehind
<1>16. Position(p, q)'
  <2>1. p <= n + 1
    BY <1>3, <1>12, <1>14
  <2>2. p <= Len(packets') \/ (p = Len(packets') + 1 /\ q = 1)
    BY <1>4, <2>1
  <2> QED BY <1>1, <1>13, <2>2 DEF Position, consuming
<1>17. At(p, q)'
  BY <1>4, <1>9, <1>11, <1>15, <1>16 DEF At
<1> QED BY <1>1, <1>8, <1>17 DEF Inv, StreamInv, consuming

-----------------------------------------------------------------------------
(***************************************************************************)
(* The steps of the consumer.                                              *)
(***************************************************************************)
LEMMA QuietStep ==
  ASSUME Inv, ConsumerOption \/ StartReading \/ EndOfFile \/ Select
  PROVE  Inv'
<1>1. UNCHANGED <<producing, pipe, line, stdin, byte, parser, handled, printed>>
  BY DEF ConsumerOption, StartReading, EndOfFile, Select, filters
<1>2. /\ optind' \in 0 .. Len(line) /\ filterSenderId' \subseteq Ids /\ filterReceiverId' \subseteq Ids
      /\ numberOfLinesToRead' \in Int
      /\ consumer' \in {"options", "read", "ended", "failed"} /\ consumer \in {"options", "read", "select"}
  <2>1. CASE StartReading \/ EndOfFile \/ Select
    BY <2>1 DEF StartReading, EndOfFile, Select, filters, Inv, PipelineTypeOK
  <2>2. CASE ConsumerOption
    <3>1. PICK o : o = line[optind + 1]
      OBVIOUS
    <3>2. o \in ConsumerOptions /\ optind + 1 \in 0 .. Len(line)
      BY <2>2, <3>1 DEF ConsumerOption, Inv, PipelineTypeOK
    <3>3. o.value \in Int /\ IdOf(o.value) \in Ids
      BY <3>2, IdsAreCut DEF ConsumerOptions
    <3>4. filterSenderId' \subseteq Ids
      BY <2>2, <3>1, <3>3 DEF ConsumerOption, Inv, PipelineTypeOK
    <3>5. filterReceiverId' \subseteq Ids
      BY <2>2, <3>1, <3>3 DEF ConsumerOption, Inv, PipelineTypeOK
    <3>6. numberOfLinesToRead' \in Int
      BY <2>2, <3>1, <3>3 DEF ConsumerOption, Inv, PipelineTypeOK
    <3>7. consumer' \in {"options", "ended", "failed"} /\ consumer = "options"
      BY <2>2 DEF ConsumerOption
    <3> QED BY <2>2, <3>2, <3>4, <3>5, <3>6, <3>7 DEF ConsumerOption
  <2> QED BY <2>1, <2>2
<1>3. PipelineTypeOK'
  BY <1>1, <1>2 DEF Inv, PipelineTypeOK, producing
<1>4. Unread' = Unread
  BY <1>1, <1>2 DEF Unread, Ahead
<1>5. \E p \in 1 .. MaxPackets + 1, q \in 1 .. FrameLength : At(p, q)'
  BY <1>1, <1>4, SamePlace DEF producing
<1>6. stdin # <<>> => consumer' = "read"
  BY DEF Inv, StreamInv, ConsumerOption, StartReading, EndOfFile, Select
<1> QED BY <1>1, <1>2, <1>3, <1>5, <1>6 DEF Inv, StreamInv, producing

LEMMA FillStep ==
  ASSUME Inv, Fill
  PROVE  Inv'
<1>1. /\ UNCHANGED <<producing, consumer, line, optind, filters, numberOfLinesToRead, byte, parser, handled, printed>>
      /\ consumer = "read" /\ stdin = <<>> /\ pipe # <<>>
      /\ stdin' = SubSeq(pipe, 1, 1) /\ pipe' = SubSeq(pipe, 2, Len(pipe))
  BY DEF Fill, Taken
<1>2. PICK s, a, b : s = pipe /\ a = SubSeq(s, 1, 1) /\ b = SubSeq(s, 2, Len(s))
  OBVIOUS
<1>3. s \in Seq(Characters) /\ Len(s) \in Nat /\ 1 <= Len(s)
  <2>1. s \in Seq(Characters) /\ s # <<>>
    BY <1>1, <1>2 DEF Inv, PipelineTypeOK
  <2>2. Len(s) \in Nat /\ Len(s) # 0
    BY <2>1, EmptySeq
  <2> QED BY <2>1, <2>2
<1>4. a \in Seq(Characters) /\ b \in Seq(Characters) /\ Len(a) = 1 /\ a \o b = s
  <2>1. a \in Seq(Characters) /\ Len(a) = 1
    BY <1>2, <1>3, SubSeqProperties
  <2>2. b \in Seq(Characters)
    BY <1>2, <1>3, SubSeqProperties
  <2>3. SubSeq(s, 1, 1) \o SubSeq(s, 1 + 1, Len(s)) = SubSeq(s, 1, Len(s))
    <3>1. s \in Seq(Characters) /\ 1 \in 1 .. Len(s) + 1 /\ 1 \in 1 - 1 .. Len(s) /\ Len(s) \in 1 .. Len(s)
      BY <1>3
    <3> QED BY <3>1, ConcatAdjacentSubSeq
  <2>4. SubSeq(s, 1, Len(s)) = s
    BY <1>3, SubSeqFull
  <2> QED BY <1>2, <2>1, <2>2, <2>3, <2>4
<1>5. PipelineTypeOK'
  <2>1. stdin' \in Seq(Characters) /\ pipe' \in Seq(Characters)
    BY <1>1, <1>2, <1>4
  <2> QED BY <1>1, <2>1 DEF Inv, PipelineTypeOK, producing, filters
<1>6. Unread' = Unread
  <2>1. Ahead = <<>> /\ Ahead' = a
    BY <1>1, <1>2 DEF Ahead
  <2>2. <<>> \o pipe = pipe
    BY DEF Inv, PipelineTypeOK
  <2> QED BY <1>1, <1>2, <1>4, <2>1, <2>2 DEF Unread
<1>7. \E p \in 1 .. MaxPackets + 1, q \in 1 .. FrameLength : At(p, q)'
  BY <1>1, <1>6, SamePlace DEF producing
<1>8. Len(stdin') = 1
  BY <1>1, <1>2, <1>4
<1> QED BY <1>1, <1>5, <1>7, <1>8 DEF Inv, StreamInv, producing

LEMMA OneAhead ==
  ASSUME Inv, stdin # <<>>
  PROVE  \E c \in Characters : stdin = <<c>> /\ Head(stdin) = c /\ Tail(stdin) = <<>>
<1>1. PICK s : s = stdin
  OBVIOUS
<1>2. s \in Seq(Characters) /\ s # <<>> /\ Len(s) <= 1
  BY <1>1 DEF Inv, StreamInv, PipelineTypeOK
<1>3. Len(s) = 1
  <2>1. Len(s) \in Nat /\ Len(s) # 0
    BY <1>2, EmptySeq
  <2>2. PICK l : l = Len(s)
    OBVIOUS
  <2>3. l \in Nat /\ l # 0 /\ l <= 1
    BY <1>2, <2>1, <2>2
  <2>4. l = 1
    BY <2>3
  <2> QED BY <2>2, <2>4
<1>4. Head(s) = s[1] /\ s[1] \in Characters
  BY <1>2, <1>3
<1>5. s = <<s[1]>>
  <2>1. <<s[1]>> \in Seq(Characters) /\ Len(<<s[1]>>) = 1 /\ \A i \in 1 .. 1 : s[i] = <<s[1]>>[i]
    BY <1>4
  <2> QED BY <1>2, <1>3, <2>1, SeqEqual
<1>6. Tail(s) = <<>>
  <2>1. Tail(s) \in Seq(Characters) /\ Len(Tail(s)) = 0
    BY <1>2, <1>3, HeadTailProperties
  <2> QED BY <2>1, EmptySeq
<1> QED BY <1>1, <1>4, <1>5, <1>6

LEMMA SkipStep ==
  ASSUME Inv, SkipCharacter
  PROVE  Inv'
<1>1. /\ UNCHANGED <<producing, pipe, consumer, line, optind, filters, numberOfLinesToRead, byte, parser, handled, printed>>
      /\ consumer = "read" /\ stdin # <<>> /\ Head(stdin) \in {Space, Noise} /\ stdin' = Tail(stdin)
  BY DEF SkipCharacter
<1>2. PICK c \in Characters : stdin = <<c>> /\ Head(stdin) = c /\ Tail(stdin) = <<>>
  BY <1>1, OneAhead
<1>3. PipelineTypeOK' /\ Len(stdin') = 0 /\ stdin' = <<>>
  BY <1>1, <1>2 DEF Inv, PipelineTypeOK, producing, filters
<1>4. ~IsByte(c)
  BY <1>1, <1>2 DEF IsByte, Space, Noise
<1>5. Unread = <<c>> \o pipe /\ Unread' = pipe
  <2>1. Ahead = <<c>> /\ Ahead' = <<>>
    BY <1>1, <1>2 DEF Ahead
  <2>2. <<>> \o pipe = pipe
    BY DEF Inv, PipelineTypeOK
  <2> QED BY <1>1, <2>1, <2>2 DEF Unread
<1>6. Unread = <<c>> \o Unread' /\ Unread' \in Seq(Characters)
  BY <1>5 DEF Inv, PipelineTypeOK
<1>7. \E p \in 1 .. MaxPackets + 1, q \in 1 .. FrameLength : At(p, q)'
  BY <1>1, <1>4, <1>6, FirstIs DEF producing
<1> QED BY <1>1, <1>3, <1>7 DEF Inv, StreamInv, producing

LEMMA ReadByteStep ==
  ASSUME Inv, ReadByte
  PROVE  Inv'
<1>1. /\ UNCHANGED <<producing, pipe, line, optind, filters, numberOfLinesToRead, parser, handled, printed>>
      /\ consumer = "read" /\ stdin # <<>> /\ Head(stdin) \notin {Space, Noise}
      /\ byte' = Head(stdin) /\ stdin' = Tail(stdin) /\ consumer' = "parse"
  BY DEF ReadByte
<1>2. PICK c \in Characters : stdin = <<c>> /\ Head(stdin) = c /\ Tail(stdin) = <<>>
  BY <1>1, OneAhead
<1>3. PipelineTypeOK' /\ Len(stdin') = 0 /\ stdin' = <<>>
  BY <1>1, <1>2 DEF Inv, PipelineTypeOK, producing, filters
<1>4. IsByte(byte')
  BY <1>1, <1>2 DEF IsByte, Characters
<1>5. Unread' = Unread
  BY <1>1, <1>2 DEF Unread, Ahead
<1>6. \E p \in 1 .. MaxPackets + 1, q \in 1 .. FrameLength : At(p, q)'
  BY <1>1, <1>5, SamePlace DEF producing
<1> QED BY <1>1, <1>3, <1>4, <1>6 DEF Inv, StreamInv, producing

(***************************************************************************)
(* Packets are handled one after the other.                                *)
(***************************************************************************)
LEMMA HandledNext ==
  ASSUME Inv, NEW f, HandlePacket(f)
  PROVE  f = handled + 1 /\ f \in 1 .. Len(packets)
<1>1. consumer = "parse" /\ IsPacket(f)
  BY DEF HandlePacket
<1>2. PICK p \in 1 .. MaxPackets, q \in 1 .. FrameLength :
        Position(p, q) /\ byte = ByteOf(p, q) /\ p <= Len(packets)
  BY <1>1, ByteIsDue
<1>3. q = FrameLength - 1 /\ f = p
  BY <1>1, <1>2, PacketIs
<1>4. handled = p - 1 /\ p \in Nat \ {0} /\ Len(packets) \in Nat
  BY <1>2, <1>3, PipelineAssumption DEF Position, Inv, PipelineTypeOK
<1> QED BY <1>2, <1>3, <1>4

LEMMA ParserStep ==
  ASSUME Inv, ParseByte \/ \E f \in 1 .. Len(packets) : HandlePacket(f)
  PROVE  Inv'
<1>1. /\ UNCHANGED <<producing, pipe, line, optind, filters, stdin, byte>>
      /\ consumer = "parse" /\ consumer' = "select"
  BY DEF ParseByte, HandlePacket
<1>2. PICK p \in 1 .. MaxPackets, q \in 1 .. FrameLength :
        /\ Position(p, q) /\ byte = ByteOf(p, q) /\ p <= Len(packets)
        /\ Due(pipe, Len(packets), NextPacket(p, q), NextPlace(q))
  BY <1>1, ByteIsDue
<1>3. FrameLength \in Nat /\ FrameLength >= 3 /\ MaxPackets \in Nat /\ Len(packets) \in Nat
  BY PipelineAssumption DEF Inv, PipelineTypeOK
<1>4. /\ NextPacket(p, q) \in 1 .. MaxPackets + 1 /\ NextPlace(q) \in 1 .. FrameLength
      /\ NextPacket(p, q) <= Len(packets) \/ (NextPacket(p, q) = Len(packets) + 1 /\ NextPlace(q) = 1)
  BY <1>2, <1>3 DEF NextPacket, NextPlace
<1>5. Unread' = pipe /\ stdin = <<>>
  <2>1. stdin = <<>>
    BY <1>1 DEF Inv, StreamInv
  <2>2. Ahead' = <<>>
    BY <1>1, <2>1 DEF Ahead
  <2>3. <<>> \o pipe = pipe
    BY DEF Inv, PipelineTypeOK
  <2> QED BY <1>1, <2>1, <2>2, <2>3 DEF Unread
<1>6. /\ handled' = IF q = FrameLength - 1 THEN p ELSE handled
      /\ parser' = IF q = FrameLength - 1 THEN <<>> ELSE Parsed
  <2>1. \A f : IsPacket(f) <=> q = FrameLength - 1 /\ f = p
    BY <1>2, PacketIs
  <2>2. CASE ParseByte
    <3>1. p \in 1 .. Len(packets)
      BY <1>2, <1>3
    <3>2. q # FrameLength - 1
      BY <2>1, <2>2, <3>1 DEF ParseByte
    <3> QED BY <2>2, <3>2 DEF ParseByte
  <2>3. ASSUME NEW f \in 1 .. Len(packets), HandlePacket(f)
        PROVE  q = FrameLength - 1 /\ handled' = p /\ parser' = <<>>
    <3>1. q = FrameLength - 1 /\ f = p
      BY <2>1, <2>3 DEF HandlePacket
    <3>2. f = handled + 1 /\ handled' = handled + 1 /\ parser' = <<>>
      BY <2>3, HandledNext DEF HandlePacket
    <3> QED BY <3>1, <3>2
  <2> QED BY <2>2, <2>3
<1>7. Position(NextPacket(p, q), NextPlace(q))'
  <2>1. handled = (IF q = FrameLength THEN p ELSE p - 1) /\ p \in Nat \ {0}
    BY <1>2, <1>3 DEF Position
  <2>2. handled' = IF NextPlace(q) = FrameLength THEN NextPacket(p, q) ELSE NextPacket(p, q) - 1
    BY <1>3, <1>6, <2>1 DEF NextPacket, NextPlace
  <2>3. parser' = IF NextPlace(q) = FrameLength THEN <<>>
                  ELSE [k \in 1 .. NextPlace(q) - 2 |-> ByteOf(NextPacket(p, q), k + 1)]
    <3>1. CASE q = FrameLength
      <4>1. Parsed = <<>> /\ NextPlace(q) = 1 /\ q # FrameLength - 1
        BY <1>2, <1>3, <3>1, ParsedIs DEF NextPlace
      <4>2. [k \in 1 .. 1 - 2 |-> ByteOf(NextPacket(p, q), k + 1)] = <<>>
        OBVIOUS
      <4> QED BY <1>3, <1>6, <4>1, <4>2
    <3>2. CASE q = 1
      <4>1. Parsed = <<>> /\ NextPlace(q) = 2 /\ q # FrameLength - 1 /\ 2 # FrameLength
        BY <1>2, <1>3, <3>2, ParsedIs DEF NextPlace
      <4>2. [k \in 1 .. 2 - 2 |-> ByteOf(NextPacket(p, q), k + 1)] = <<>>
        OBVIOUS
      <4> QED BY <1>6, <4>1, <4>2
    <3>3. CASE q \notin {1, FrameLength}
      <4>1. NextPlace(q) = q + 1 /\ NextPacket(p, q) = p
        BY <3>3 DEF NextPlace, NextPacket
      <4>2. Parsed = [k \in 1 .. q - 1 |-> ByteOf(p, k + 1)]
        BY <1>2, <3>3, ParsedIs
      <4>3. (q + 1) - 2 = q - 1 /\ (q + 1 = FrameLength <=> q = FrameLength - 1)
        BY <1>3
      <4> QED BY <1>6, <4>1, <4>2, <4>3
    <3> QED BY <3>1, <3>2, <3>3
  <2>4. packets' = packets
    BY <1>1 DEF producing
  <2> QED BY <1>4, <2>2, <2>3, <2>4 DEF Position
<1>8. At(NextPacket(p, q), NextPlace(q))'
  BY <1>1, <1>2, <1>5, <1>7 DEF At, producing
<1>9. PipelineTypeOK'
  <2>1. handled' \in 0 .. Len(packets)
    BY <1>2, <1>3, <1>6 DEF Inv, PipelineTypeOK
  <2>2. parser' \in Seq(Characters)
    <3>1. Parsed \in Seq(Characters)
      BY DEF Parsed, Inv, PipelineTypeOK
    <3> QED BY <1>6, <3>1
  <2>3. printed' \in Seq(1 .. Len(packets)) /\ numberOfLinesToRead' \in Int
    <3>1. CASE ParseByte
      BY <3>1 DEF ParseByte, Inv, PipelineTypeOK
    <3>2. ASSUME NEW f \in 1 .. Len(packets), HandlePacket(f)
          PROVE  printed' \in Seq(1 .. Len(packets)) /\ numberOfLinesToRead' \in Int
      <4>1. printed \in Seq(1 .. Len(packets)) /\ Append(printed, f) \in Seq(1 .. Len(packets))
        BY DEF Inv, PipelineTypeOK
      <4>2. numberOfLinesToRead \in Int /\ numberOfLinesToRead - 1 \in Int
        BY DEF Inv, PipelineTypeOK
      <4> QED BY <3>2, <4>1, <4>2 DEF HandlePacket, Counted
    <3> QED BY <3>1, <3>2
  <2> QED BY <1>1, <2>1, <2>2, <2>3 DEF Inv, PipelineTypeOK, producing, filters
<1> QED BY <1>1, <1>4, <1>5, <1>8, <1>9 DEF Inv, StreamInv, producing

LEMMA StepPipeline == Inv /\ [Next]_vars => Inv'
<1> SUFFICES ASSUME Inv, [Next]_vars PROVE Inv'
  OBVIOUS
<1>1. CASE UNCHANGED vars
  <2>1. UNCHANGED <<packets, handled, parser>> /\ Unread' = Unread
    BY <1>1 DEF vars, producing, consuming, Unread, Ahead
  <2>2. \E p \in 1 .. MaxPackets + 1, q \in 1 .. FrameLength : At(p, q)'
    BY <2>1, SamePlace
  <2>3. PipelineTypeOK'
    BY <1>1 DEF vars, producing, consuming, filters, Inv, PipelineTypeOK
  <2> QED BY <1>1, <2>2, <2>3 DEF vars, producing, consuming, Inv, StreamInv
<1>2. CASE Next
  BY <1>2, ProducersStep, NoiseStep, PrintStep, QuietStep, FillStep, SkipStep, ReadByteStep, ParserStep
     DEF Next, Consume
<1> QED BY <1>1, <1>2

(***************************************************************************)
(* The types are right, for every command line and whatever the user runs. *)
(***************************************************************************)
THEOREM PipelineTypesCorrect == Spec => []PipelineTypeOK
<1>1. Inv => PipelineTypeOK
  BY DEF Inv
<1> QED BY <1>1, InitPipeline, StepPipeline, PTL DEF Spec

-----------------------------------------------------------------------------
(***************************************************************************)
(* What was printed are the packets handled that no filter skips, and what *)
(* is left to print and what was printed are what was asked for.  Filters  *)
(* are set before anything is handled.                                     *)
(***************************************************************************)
Wanted == {f \in 1 .. handled : ~Skipped(packets[f])}

Ascending == \A j, k \in 1 .. Len(printed) : j < k => printed[j] < printed[k]

LinesInv ==
  /\ consumer = "options" => handled = 0 /\ printed = <<>>
  /\ consumer \in {"options", "read", "parse"} => numberOfLinesToRead # 0
  /\ consumer = "ended" => numberOfLinesToRead = 0
  /\ numberOfLinesToRead >= 0 => Requested(numberOfLinesToRead + Len(printed))

PrintedInv == Range(printed) = Wanted /\ Ascending /\ LinesInv

LEMMA InitPrinted == Init => PrintedInv
<1> SUFFICES ASSUME Init PROVE PrintedInv
  OBVIOUS
<1>1. handled = 0 /\ printed = <<>> /\ consumer = "options" /\ numberOfLinesToRead = -1
  BY DEF Init
<1>2. Len(<<>>) = 0 /\ \A x : x \notin DOMAIN <<>>
  OBVIOUS
<1>3. Range(printed) = {} /\ Wanted = {}
  BY <1>1, <1>2 DEF Range, Wanted
<1>4. Ascending
  BY <1>1, <1>2 DEF Ascending
<1>5. ~(-1 >= 0) /\ -1 # 0
  OBVIOUS
<1> QED BY <1>1, <1>3, <1>4, <1>5 DEF PrintedInv, LinesInv

LEMMA PrintedTypes ==
  Inv => /\ printed \in Seq(1 .. Len(packets)) /\ Len(printed) \in Nat /\ DOMAIN printed = 1 .. Len(printed)
         /\ handled \in Nat /\ handled <= Len(packets) /\ Len(packets) \in Nat
         /\ numberOfLinesToRead \in Int
  BY DEF Inv, PipelineTypeOK

(***************************************************************************)
(* A step that prints nothing: packets are added, none is changed, and     *)
(* filters change only as long as nothing was handled.                     *)
(***************************************************************************)
LEMMA NothingPrinted ==
  ASSUME Inv, PrintedInv, UNCHANGED <<handled, printed>>,
         \/ handled = 0
         \/ UNCHANGED filters /\ \A f \in 1 .. handled : packets'[f] = packets[f]
  PROVE  (Range(printed) = Wanted /\ Ascending)'
<1>1. Wanted' = Wanted
  <2>1. CASE handled = 0
    <3>1. 1 .. handled = {} /\ 1 .. handled' = {}
      BY <2>1
    <3> QED BY <3>1 DEF Wanted
  <2>2. CASE UNCHANGED filters /\ \A f \in 1 .. handled : packets'[f] = packets[f]
    BY <2>2 DEF Wanted, Skipped, filters
  <2> QED BY <2>1, <2>2
<1>2. Range(printed)' = Range(printed)
  BY DEF Range
<1>3. Ascending'
  BY DEF PrintedInv, Ascending
<1> QED BY <1>1, <1>2, <1>3 DEF PrintedInv

LEMMA ProducersPrinted ==
  ASSUME Inv, PrintedInv, StartProducer \/ ProducerOption \/ PrintPacket \/ MakeNoise \/ Close \/ UNCHANGED vars
  PROVE  PrintedInv'
<1>1. UNCHANGED consuming
  BY DEF StartProducer, ProducerOption, PrintPacket, MakeNoise, Close, vars
<1>2. packets' = packets \/ packets' = Append(packets, header)
  BY DEF StartProducer, ProducerOption, PrintPacket, MakeNoise, Close, vars, producing
<1>3. \A f \in 1 .. handled : packets'[f] = packets[f]
  <2>1. packets \in Seq(Headers) /\ \A f \in 1 .. handled : f \in 1 .. Len(packets)
    BY PrintedTypes DEF Inv, PipelineTypeOK
  <2> QED BY <1>2, <2>1
<1>4. (Range(printed) = Wanted /\ Ascending)'
  BY <1>1, <1>3, NothingPrinted DEF consuming
<1>5. LinesInv'
  BY <1>1 DEF PrintedInv, LinesInv, Requested, consuming
<1> QED BY <1>4, <1>5 DEF PrintedInv

LEMMA OptionPrinted ==
  ASSUME Inv, PrintedInv, ConsumerOption
  PROVE  PrintedInv'
<1>1. /\ UNCHANGED <<packets, line, handled, printed>> /\ consumer = "options"
      /\ optind < Len(line) /\ optind' = optind + 1
  BY DEF ConsumerOption, producing
<1>2. handled = 0 /\ printed = <<>> /\ Len(printed) = 0
  BY <1>1 DEF PrintedInv, LinesInv
<1>3. (Range(printed) = Wanted /\ Ascending)'
  BY <1>1, <1>2, NothingPrinted
<1>4. optind \in Nat
  BY DEF Inv, PipelineTypeOK
<1>5. PICK o : o = line[optind + 1]
  OBVIOUS
<1>6. o \in ConsumerOptions /\ o.value \in Int /\ o = [name |-> o.name, value |-> o.value]
  <2>1. optind + 1 \in 1 .. Len(line) /\ line \in Seq(ConsumerOptions)
    BY <1>1, <1>4 DEF Inv, PipelineTypeOK
  <2>2. o \in ConsumerOptions
    BY <1>5, <2>1
  <2> QED BY <2>2 DEF ConsumerOptions
<1>7. /\ consumer' = CASE o.name = "n" /\ o.value = 0 -> "ended" [] o.name = "help" -> "failed" [] OTHER -> "options"
      /\ numberOfLinesToRead' = IF o.name = "n" THEN o.value ELSE numberOfLinesToRead
  BY <1>5 DEF ConsumerOption
<1>8. numberOfLinesToRead # 0 /\ numberOfLinesToRead \in Int
  BY <1>1, PrintedTypes DEF PrintedInv, LinesInv
<1>9. /\ consumer' \in {"options", "ended", "failed"}
      /\ consumer' = "options" => numberOfLinesToRead' # 0
      /\ consumer' = "ended" => numberOfLinesToRead' = 0
  BY <1>7, <1>8
<1>10. PICK m : m = numberOfLinesToRead'
  OBVIOUS
<1>11. ASSUME m >= 0 PROVE Requested(m)'
  <2>1. CASE o.name = "n"
    <3>1. optind + 1 \in 1 .. optind' /\ line' = line
      BY <1>1, <1>4
    <3>2. line[optind + 1] = [name |-> "n", value |-> m]
      BY <1>5, <1>6, <1>7, <1>10, <2>1
    <3> QED BY <3>1, <3>2 DEF Requested
  <2>2. CASE o.name # "n"
    <3>1. m = numberOfLinesToRead
      BY <1>7, <1>10, <2>2
    <3>2. m + Len(printed) = m
      BY <1>2, <1>8, <3>1
    <3>3. Requested(m)
      BY <1>11, <3>1, <3>2 DEF PrintedInv, LinesInv
    <3>4. PICK k \in 1 .. optind : line[k] = [name |-> "n", value |-> m]
      BY <3>3 DEF Requested
    <3>5. k \in 1 .. optind' /\ line' = line
      BY <1>1, <1>4
    <3> QED BY <3>4, <3>5 DEF Requested
  <2> QED BY <2>1, <2>2
<1>12. m \in Int /\ m + 0 = m
  BY <1>6, <1>7, <1>8, <1>10
<1>13. numberOfLinesToRead' + Len(printed') = m
  BY <1>1, <1>2, <1>10, <1>12
<1>14. numberOfLinesToRead' >= 0 => Requested(numberOfLinesToRead + Len(printed))'
  BY <1>10, <1>11, <1>13 DEF Requested
<1>15. LinesInv'
  BY <1>1, <1>2, <1>9, <1>14 DEF LinesInv
<1> QED BY <1>3, <1>15 DEF PrintedInv

LEMMA ReadingPrinted ==
  ASSUME Inv, PrintedInv,
         StartReading \/ Fill \/ SkipCharacter \/ ReadByte \/ EndOfFile \/ ParseByte \/ Select
  PROVE  PrintedInv'
<1>1. UNCHANGED <<packets, line, optind, filters, numberOfLinesToRead, handled, printed>>
  BY DEF StartReading, Fill, SkipCharacter, ReadByte, EndOfFile, ParseByte, Select, producing
<1>2. (Range(printed) = Wanted /\ Ascending)'
  BY <1>1, NothingPrinted
<1>3. /\ consumer' # "options"
      /\ consumer' \in {"read", "parse"} => numberOfLinesToRead # 0
      /\ consumer' = "ended" => numberOfLinesToRead = 0
  BY DEF StartReading, Fill, SkipCharacter, ReadByte, EndOfFile, ParseByte, Select, PrintedInv, LinesInv
<1>4. LinesInv'
  BY <1>1, <1>3 DEF PrintedInv, LinesInv, Requested
<1> QED BY <1>2, <1>4 DEF PrintedInv

(***************************************************************************)
(* The packet that is handled is the next one.                             *)
(***************************************************************************)
LEMMA PacketPrinted ==
  ASSUME Inv, PrintedInv, NEW f \in 1 .. Len(packets), HandlePacket(f)
  PROVE  PrintedInv'
<1>1. /\ UNCHANGED <<packets, line, optind, filters>> /\ consumer = "parse" /\ consumer' = "select"
      /\ handled' = handled + 1 /\ numberOfLinesToRead' = Counted(f)
      /\ printed' = IF Skipped(packets[f]) THEN printed ELSE Append(printed, f)
  BY DEF HandlePacket, producing
<1>2. f = handled + 1
  BY HandledNext
<1>3. PICK s, l : s = printed /\ l = Len(printed)
  OBVIOUS
<1>4. /\ s \in Seq(1 .. Len(packets)) /\ l \in Nat /\ Len(s) = l /\ DOMAIN s = 1 .. l
      /\ handled \in Nat /\ numberOfLinesToRead \in Int
  BY <1>3, PrintedTypes
<1>5. numberOfLinesToRead # 0
  BY <1>1 DEF PrintedInv, LinesInv
<1>6. Wanted' = IF Skipped(packets[f]) THEN Wanted ELSE Wanted \cup {f}
  <2>1. 1 .. handled' = (1 .. handled) \cup {f}
    BY <1>1, <1>2, <1>4
  <2>2. \A g : Skipped(packets[g])' <=> Skipped(packets[g])
    BY <1>1 DEF Skipped, filters
  <2> QED BY <2>1, <2>2 DEF Wanted
<1>7. CASE Skipped(packets[f])
  <2>1. printed' = printed /\ Wanted' = Wanted
    BY <1>1, <1>6, <1>7
  <2>2. numberOfLinesToRead' = numberOfLinesToRead
    BY <1>1, <1>7 DEF Counted
  <2>3. Range(printed)' = Range(printed) /\ Ascending'
    BY <2>1 DEF PrintedInv, Range, Ascending
  <2>4. LinesInv'
    BY <1>1, <2>1, <2>2 DEF PrintedInv, LinesInv, Requested
  <2> QED BY <2>1, <2>3, <2>4 DEF PrintedInv
<1>8. CASE ~Skipped(packets[f])
  <2>1. PICK t : t = Append(s, f)
    OBVIOUS
  <2>2. printed' = t /\ Wanted' = Wanted \cup {f}
    BY <1>1, <1>3, <1>6, <1>8, <2>1
  <2>3. Len(t) = l + 1 /\ DOMAIN t = 1 .. l + 1 /\ t[l + 1] = f /\ \A k \in 1 .. l : t[k] = s[k]
    BY <1>4, <2>1
  <2>4. {t[k] : k \in 1 .. l + 1} = {s[k] : k \in 1 .. l} \cup {f}
    <3>1. 1 .. l + 1 = (1 .. l) \cup {l + 1}
      BY <1>4
    <3> QED BY <2>3, <3>1
  <2>5. Range(printed)' = Wanted'
    <3>1. {s[k] : k \in 1 .. l} = Wanted
      BY <1>3, <1>4 DEF PrintedInv, Range
    <3> QED BY <2>2, <2>3, <2>4, <3>1 DEF Range
  <2>6. \A k \in 1 .. l : s[k] \in Nat /\ s[k] < f
    <3>1. ASSUME NEW k \in 1 .. l PROVE s[k] \in 1 .. handled
      <4>1. s[k] \in Range(printed)
        BY <1>3, <1>4 DEF Range
      <4> QED BY <4>1 DEF PrintedInv, Wanted
    <3> QED BY <1>2, <1>4, <3>1
  <2>7. Ascending'
    <3>1. ASSUME NEW j \in 1 .. l + 1, NEW k \in 1 .. l + 1, j < k
          PROVE  t[j] < t[k]
      <4>1. j \in 1 .. l
        BY <1>4, <3>1
      <4>2. CASE k \in 1 .. l
        BY <1>3, <2>3, <3>1, <4>1, <4>2 DEF PrintedInv, Ascending
      <4>3. CASE k = l + 1
        BY <2>3, <2>6, <4>1, <4>3
      <4> QED BY <1>4, <4>2, <4>3
    <3> QED BY <2>2, <2>3, <3>1 DEF Ascending
  <2>8. LinesInv'
    <3>1. CASE numberOfLinesToRead > 0
      <4>1. numberOfLinesToRead' = numberOfLinesToRead - 1
        BY <1>1, <1>8, <3>1 DEF Counted
      <4>2. numberOfLinesToRead' + Len(printed') = numberOfLinesToRead + Len(printed)
        BY <1>3, <1>4, <2>2, <2>3, <4>1
      <4>3. Requested(numberOfLinesToRead + Len(printed))
        BY <1>4, <3>1 DEF PrintedInv, LinesInv
      <4>4. Requested(numberOfLinesToRead + Len(printed))'
        BY <1>1, <4>2, <4>3 DEF Requested
      <4> QED BY <1>1, <4>2, <4>4 DEF LinesInv
    <3>2. CASE ~(numberOfLinesToRead > 0)
      <4>1. numberOfLinesToRead' = numberOfLinesToRead /\ ~(numberOfLinesToRead >= 0)
        BY <1>1, <1>4, <1>5, <3>2 DEF Counted
      <4> QED BY <1>1, <4>1 DEF LinesInv
    <3> QED BY <3>1, <3>2
  <2> QED BY <2>5, <2>7, <2>8 DEF PrintedInv
<1> QED BY <1>7, <1>8

(***************************************************************************)
(* Without a filter for receivers the packets of the wanted senders are    *)
(* printed in their order, without a gap, and as many as were asked for,   *)
(* for any options, packets, noise and ends of the pipe.                   *)
(***************************************************************************)
THEOREM PrintsInOrder == Spec => []PrintedInOrder
<1>1. Inv /\ PrintedInv => PrintedInOrder
  <2> SUFFICES ASSUME Inv, PrintedInv, filterReceiverId = {}
               PROVE  /\ Range(printed) = {f \in 1 .. handled : OfWantedSender(f)}
                      /\ \A j, k \in 1 .. Len(printed) : j < k => printed[j] < printed[k]
                      /\ consumer = "ended" => Requested(Len(printed))
    BY DEF PrintedInOrder
  <2>1. \A f : Skipped(packets[f]) <=> ~OfWantedSender(f)
    BY DEF Skipped, OfWantedSender
  <2>2. Range(printed) = {f \in 1 .. handled : OfWantedSender(f)}
    BY <2>1 DEF PrintedInv, Wanted
  <2>3. ASSUME consumer = "ended" PROVE Requested(Len(printed))
    <3>1. numberOfLinesToRead = 0 /\ 0 + Len(printed) = Len(printed)
      BY <2>3, PrintedTypes DEF PrintedInv, LinesInv
    <3> QED BY <3>1 DEF PrintedInv, LinesInv
  <2> QED BY <2>2, <2>3 DEF PrintedInv, Ascending
<1>2. Inv /\ PrintedInv /\ [Next]_vars => PrintedInv'
  BY ProducersPrinted, OptionPrinted, ReadingPrinted, PacketPrinted DEF Next, Consume
<1> QED BY <1>1, <1>2, InitPipeline, StepPipeline, InitPrinted, PTL DEF Spec
===============================================================================
