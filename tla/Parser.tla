------------------------------- MODULE Parser -------------------------------
(***************************************************************************)
(* The receiving half of the serial protocol: the state machine of         *)
(* src/Parser.c as operators on its state.  Bytes, the two control         *)
(* characters and the checksum are parameters, so that an instance can use *)
(* bytes of a few bits; the machine does not depend on their width.        *)
(***************************************************************************)
EXTENDS Integers, Sequences

CONSTANTS
  Bytes, FLAG, ESC,         \* NDLCOM_START_STOP_FLAG and NDLCOM_ESC_CHAR
  Complement(_),            \* c ^ 0x20
  CrcValues, CrcInitial, CrcGood,
  DoCrc(_, _),              \* ndlcomDoCrc: the checksum after one more byte
  MaxPayload                \* NDLCOM_MAX_PAYLOAD_SIZE of this build

ASSUME ParserAssumption ==
  /\ FLAG \in Bytes /\ ESC \in Bytes /\ FLAG # ESC
  /\ Bytes \subseteq Nat
  /\ \A byte \in Bytes : Complement(byte) \in Bytes
  /\ CrcInitial \in CrcValues
  /\ \A crc \in CrcValues, byte \in Bytes : DoCrc(crc, byte) \in CrcValues
  /\ MaxPayload \in Nat

HeaderSize == 4

DataLen(header) == header[4]    \* mDataLen is the last field of the header

ParserStates == {"mcWAIT_HEADER", "mcWAIT_DATA", "mcWAIT_FIRST_CRC_BYTE",
                 "mcWAIT_SECOND_CRC_BYTE", "mcCOMPLETE", "mcERROR"}

(***************************************************************************)
(* header and data are the bytes written so far, so their lengths stand    *)
(* for mpHeaderWritePos and mpDataWritePos.                                *)
(***************************************************************************)
Parsers == [state : ParserStates, header : Seq(Bytes), data : Seq(Bytes),
            crc : CrcValues, lastWasEsc : BOOLEAN, crcFails : Nat]

ParserCreate == [state |-> "mcWAIT_HEADER", header |-> <<>>, data |-> <<>>,
                 crc |-> CrcInitial, lastWasEsc |-> FALSE, crcFails |-> 0]

(***************************************************************************)
(* Mutation: an escape character stays pending over the flag.              *)
(***************************************************************************)
DestroyPacketKeepEsc(p) == [ParserCreate EXCEPT !.crcFails = p.crcFails, !.lastWasEsc = p.lastWasEsc]

DestroyPacket(p) == [ParserCreate EXCEPT !.crcFails = p.crcFails]

HasPacket(p) == p.state = "mcCOMPLETE"

(***************************************************************************)
(* The branches of the switch, for a byte d that is already unescaped.     *)
(***************************************************************************)
AfterHeaderUnchecked(header) ==    \* mutation: the announced length is not checked
  IF DataLen(header) = 0 THEN "mcWAIT_FIRST_CRC_BYTE" ELSE "mcWAIT_DATA"

AfterHeader(header) ==
  CASE DataLen(header) > MaxPayload -> "mcERROR"
    [] DataLen(header) = 0 -> "mcWAIT_FIRST_CRC_BYTE"
    [] OTHER -> "mcWAIT_DATA"

HeaderByte(p, d) ==
  LET header == Append(p.header, d)
  IN  [p EXCEPT !.header = header, !.crc = DoCrc(@, d),
                !.state = IF Len(header) = HeaderSize THEN AfterHeader(header) ELSE @]

DataByte(p, d) ==
  LET data == Append(p.data, d)
  IN  [p EXCEPT !.data = data, !.crc = DoCrc(@, d),
                !.state = IF Len(data) = DataLen(p.header) THEN "mcWAIT_FIRST_CRC_BYTE" ELSE @]

FirstCrcByte(p, d) == [p EXCEPT !.crc = DoCrc(@, d), !.state = "mcWAIT_SECOND_CRC_BYTE"]

SecondCrcByte(p, d) ==
  LET crc == DoCrc(p.crc, d)
  IN  IF crc = CrcGood THEN [p EXCEPT !.crc = crc, !.state = "mcCOMPLETE"]
      ELSE DestroyPacket([p EXCEPT !.crcFails = @ + 1])

Accept(p, d) ==
  CASE p.state = "mcWAIT_HEADER" -> HeaderByte(p, d)
    [] p.state = "mcWAIT_DATA" -> DataByte(p, d)
    [] p.state = "mcWAIT_FIRST_CRC_BYTE" -> FirstCrcByte(p, d)
    [] p.state = "mcWAIT_SECOND_CRC_BYTE" -> SecondCrcByte(p, d)
    [] p.state = "mcCOMPLETE" -> p
    [] OTHER -> DestroyPacket(p)

(***************************************************************************)
(* One turn of the loop of ndlcomParserReceive: a flag aborts the packet in*)
(* every state, an escape is remembered, and the byte after it is          *)
(* complemented.                                                           *)
(***************************************************************************)
Receive(p, c) ==
  CASE c = FLAG -> DestroyPacket(p)
    [] c = ESC /\ ~p.lastWasEsc -> [p EXCEPT !.lastWasEsc = TRUE]
    [] OTHER -> Accept([p EXCEPT !.lastWasEsc = FALSE],
                       IF p.lastWasEsc THEN Complement(c) ELSE c)
=============================================================================
