-------------------------------- MODULE Wire --------------------------------
(***************************************************************************)
(* A serial line between two programs: the bytes ndlcomEncode() produces,  *)
(* what the line does to them, and the receiving interface of a bridge     *)
(* that reads them in blocks and feeds its parser                          *)
(* (ndlcomBridgeProcessExternalInterface of src/Bridge.c).                 *)
(***************************************************************************)
EXTENDS Parser, SequencesExt

CONSTANTS
  CrcBytes(_),
  Messages,         \* what is sent: [header, payload]
  RxBufferSize,     \* NDLCOM_BRIDGE_TEMPORARY_RXBUFFER_SIZE
  NoiseBytes,       \* bytes the line may add
  MaxSends, MaxNoise

E == INSTANCE Encoder

VARIABLES
  line,       \* the bytes under way, each marked, see Intact and Stray
  buffer,     \* the part of rawReadBuffer that is not processed yet
  parser,
  sent,       \* history: the messages put on the line undamaged
  received,   \* history: the messages handed to the bridge
  noise       \* how often the line was disturbed

wireVars == <<line, buffer, parser, sent, received, noise>>

(***************************************************************************)
(* What the parser never sees and the refinement needs: of is the number   *)
(* of messages the line got undamaged by then, at the place of the byte in *)
(* the frame of the last of them, or 0 if it belongs to no intact frame.   *)
(***************************************************************************)
LineBytes == [byte : Bytes, of : Nat, at : Nat]

Intact(frame) == [k \in 1 .. Len(frame) |-> [byte |-> frame[k], of |-> Len(sent) + 1, at |-> k]]
Stray(bytes) == [k \in 1 .. Len(bytes) |-> [byte |-> bytes[k], of |-> Len(sent), at |-> 0]]

Frames == [m \in Messages |-> E!Encode(E!MaxEncodedSize(m.header), m.header, m.payload)]

Frame(m) == Frames[m]

(***************************************************************************)
(* A message has a header that announces the length of its payload.        *)
(***************************************************************************)
Packets == [header : Seq(Bytes), payload : Seq(Bytes)]

ASSUME MessageAssumption ==
  /\ Messages \subseteq Packets
  /\ \A m \in Messages :
       /\ Len(m.header) = HeaderSize
       /\ Len(m.payload) = DataLen(m.header) /\ DataLen(m.header) <= MaxPayload

(***************************************************************************)
(* Complementing a byte twice gives it back, and makes no flag of a        *)
(* control character; the checksum of anything with its own checksum       *)
(* behind it is CrcGood (src/Crc.c).                                       *)
(***************************************************************************)
ASSUME CodeAssumption ==
  /\ \A byte \in Bytes : Complement(Complement(byte)) = byte
  /\ Complement(FLAG) # FLAG /\ Complement(ESC) # FLAG
  /\ \A crc \in CrcValues :
       /\ CrcBytes(crc) \in Seq(Bytes) /\ Len(CrcBytes(crc)) = 2
       /\ DoCrc(DoCrc(crc, CrcBytes(crc)[1]), CrcBytes(crc)[2]) = CrcGood

ASSUME WireAssumption ==
  /\ NoiseBytes \subseteq Bytes
  /\ RxBufferSize \in Nat \ {0} /\ MaxNoise \in Nat

TypeOK ==
  /\ line \in Seq(LineBytes)
  /\ buffer \in Seq(LineBytes)
  /\ parser \in Parsers
  /\ sent \in Seq(Messages)
  /\ received \in Seq(Packets)
  /\ noise \in 0 .. MaxNoise

Init ==
  /\ line = <<>>
  /\ buffer = <<>>
  /\ parser = ParserCreate
  /\ sent = <<>>
  /\ received = <<>>
  /\ noise = 0

Send(m) ==
  /\ Len(sent) < MaxSends
  /\ line' = line \o Intact(Frame(m))
  /\ sent' = Append(sent, m)
  /\ UNCHANGED <<buffer, parser, received, noise>>

(***************************************************************************)
(* The line loses the k-th byte of a frame, or adds a byte between two.    *)
(***************************************************************************)
SendDamaged(m, k) ==
  /\ noise < MaxNoise
  /\ noise' = noise + 1
  /\ k \in 1 .. Len(Frame(m))
  /\ line' = line \o Stray(RemoveAt(Frame(m), k))
  /\ UNCHANGED <<buffer, parser, sent, received>>

Noise(byte) ==
  /\ noise < MaxNoise
  /\ noise' = noise + 1
  /\ line' = line \o Stray(<<byte>>)
  /\ UNCHANGED <<buffer, parser, sent, received>>

(***************************************************************************)
(* externalInterface->read: any number of bytes that is available and fits.*)
(***************************************************************************)
Read(n) ==
  /\ buffer = <<>> /\ ~HasPacket(parser)
  /\ n \in 1 .. RxBufferSize /\ n <= Len(line)
  /\ buffer' = SubSeq(line, 1, n)
  /\ line' = SubSeq(line, n + 1, Len(line))
  /\ UNCHANGED <<parser, sent, received, noise>>

(***************************************************************************)
(* The loop of ndlcomParserReceive, which stops at a complete packet.      *)
(***************************************************************************)
ReceiveByte ==
  /\ buffer # <<>> /\ ~HasPacket(parser)
  /\ parser' = Receive(parser, Head(buffer).byte)
  /\ buffer' = Tail(buffer)
  /\ UNCHANGED <<line, sent, received, noise>>

(***************************************************************************)
(* The bridge takes the packet, handles it and destroys it.                *)
(***************************************************************************)
Packet == [header |-> parser.header, payload |-> parser.data]

TakePacketAfterBlock ==    \* mutation: packets are looked for after the whole block
  /\ HasPacket(parser) /\ buffer = <<>>
  /\ received' = Append(received, Packet)
  /\ parser' = DestroyPacket(parser)
  /\ UNCHANGED <<line, buffer, sent, noise>>

TakePacket ==
  /\ HasPacket(parser)
  /\ received' = Append(received, Packet)
  /\ parser' = DestroyPacket(parser)
  /\ UNCHANGED <<line, buffer, sent, noise>>

Receiver == ReceiveByte \/ TakePacket \/ \E n \in 1 .. RxBufferSize : Read(n)

Next ==
  \/ \E m \in Messages : Send(m)
  \/ \E m \in Messages : \E k \in 1 .. Len(Frame(m)) : SendDamaged(m, k)
  \/ \E byte \in NoiseBytes : Noise(byte)
  \/ Receiver

Spec == Init /\ [][Next]_wireVars

(***************************************************************************)
(* The main loop of the program keeps calling ndlcomBridgeProcess().       *)
(***************************************************************************)
FairSpec == Spec /\ WF_wireVars(Receiver)

-----------------------------------------------------------------------------
(***************************************************************************)
(* The parser never writes behind its header or payload buffer, and in     *)
(* each state has exactly the bytes that state implies, whatever arrives:  *)
(* "no out-of-bound check is performed ... this will hopefully never fail".*)
(***************************************************************************)
BufferBounds ==
  /\ Len(parser.header) <= HeaderSize
  /\ Len(parser.data) <= MaxPayload
  /\ parser.state = "mcWAIT_HEADER" => Len(parser.header) < HeaderSize /\ parser.data = <<>>
  /\ parser.state = "mcWAIT_DATA" => Len(parser.data) < DataLen(parser.header)
  /\ parser.state \in {"mcWAIT_FIRST_CRC_BYTE", "mcWAIT_SECOND_CRC_BYTE", "mcCOMPLETE"} =>
       Len(parser.header) = HeaderSize /\ Len(parser.data) = DataLen(parser.header)

(***************************************************************************)
(* The refinement: a message is queued until its last checksum byte is     *)
(* parsed, and delivered from then on.  Inside the bytes of a frame before *)
(* the closing flag, that byte is still ahead.                             *)
(***************************************************************************)
Stream == buffer \o line

Inside(b) == b.at > 0 /\ b.at < Len(Frame(sent[b.of]))

Arrived ==
  IF Stream = <<>> THEN Len(sent)
  ELSE Head(Stream).of - IF Inside(Head(Stream)) THEN 1 ELSE 0

Promise == INSTANCE Link WITH
  queue <- SubSeq(sent, Arrived + 1, Len(sent)),
  delivered <- IF HasPacket(parser) THEN Append(received, Packet) ELSE received,
  disturbed <- noise > 0

(***************************************************************************)
(* Encoder, line and parser together implement Link: every undamaged       *)
(* message arrives unchanged and in order, also right after garbage, and   *)
(* nothing else does unless the line was disturbed.                        *)
(***************************************************************************)
ImplementsLink == Promise!Safety

(***************************************************************************)
(* And it arrives eventually: the receiver is never stuck in front of a    *)
(* message.                                                                *)
(***************************************************************************)
KeepsDelivering == Promise!Fairness
=============================================================================
