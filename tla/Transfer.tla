------------------------------- MODULE Transfer -------------------------------
(***************************************************************************)
(* The way of the bytes through a bridge: one interface of any kind is     *)
(* read, its bytes are parsed, and each message is written to another      *)
(* interface of any kind.  This is where system calls are short, fail and  *)
(* throw through the C code: readEscapedBytes and writeEscapedBytes of     *)
(* src/ExternalInterface.cpp, the wrappers of src/ExternalInterfaceBase.cpp*)
(* and ndlcomBridgeProcessExternalInterface of src/Bridge.c.  The program  *)
(* catches what process() throws and calls it again.                       *)
(*                                                                         *)
(* A call interrupted by a signal (EINTR) is repeated: a stuttering step.  *)
(***************************************************************************)
EXTENDS Integers, Sequences, SequencesExt

CONSTANTS
  Kinds,          \* the kinds of interfaces, a subset of AllKinds
  Frames,         \* the frames that are sent are 1 .. Frames
  FrameLength,    \* bytes of a frame; the first and the last are flags
  RxBufferSize,   \* NDLCOM_BRIDGE_TEMPORARY_RXBUFFER_SIZE
  CanData,        \* max_data_len, the bytes a full can frame carries
  CanRoom,        \* sizeof(frame.data), the bytes it may carry in a CAN FD network
  SizeRange,      \* size_t counts modulo this
  Pausing,        \* whether the application pauses interfaces
  MaxThrows, MaxLosses    \* bounds: failing calls, bytes lost without an exception

AllKinds == {"stream", "pty", "udp", "can", "tcp", "pipe"}

ASSUME TransferAssumption ==
  /\ Kinds \subseteq AllKinds
  /\ Frames \in Nat /\ FrameLength \in Nat /\ FrameLength >= 3
  /\ CanData \in Nat \ {0} /\ CanRoom \in Nat /\ CanData <= CanRoom
  /\ RxBufferSize \in Nat /\ CanRoom < RxBufferSize
  /\ SizeRange \in Nat /\ RxBufferSize < SizeRange
  /\ Pausing \in BOOLEAN /\ MaxThrows \in Nat /\ MaxLosses \in Nat

VARIABLES
  rxKind, txKind,      \* what kind the two interfaces are
  inbox,               \* what the system has for the next reads, in units
  at,                  \* "idle", "read", "parse" or "write"
  got,                 \* the bytes the running read has put into the buffer
  block,               \* rawReadBuffer from bytesProcessed on
  parser,              \* the bytes since the last flag
  alreadyWritten,      \* of the frame that is being written
  line,                \* the bytes that left through the writing interface
  rxPaused, txPaused,
  bytesReceived, bytesTransmitted,
  arrived,             \* how many frames were sent to the reading interface
  delivered,           \* history: the bytes that were handed to the parser
  throws, losses,      \* how much of the bounds is used
  torn,                \* history: the frames whose write threw, or was given up by udp
  cut                  \* history: the frames of which fwrite() or fprintf() took a part

kinds == <<rxKind, txKind>>
reading == <<inbox, got>>
writing == <<alreadyWritten, line>>
pauses == <<rxPaused, txPaused>>
history == <<delivered, torn, cut>>
vars == <<kinds, reading, at, block, parser, writing, pauses, bytesReceived, bytesTransmitted,
          arrived, history, throws, losses>>

Byte == [frame : 1 .. Frames, place : 1 .. FrameLength] \cup {[frame |-> 0, place |-> 0]}
Garbled == [frame |-> 0, place |-> 0]

IsFlag(byte) == byte.place \in {1, FrameLength}

FrameBytes(f) == [k \in 1 .. FrameLength |-> [frame |-> f, place |-> k]]

(***************************************************************************)
(* The parser has a packet once the last byte of the checksum is there.    *)
(* The checksum is good for nothing but the bytes of one frame in order:   *)
(* Wire models the parser in detail.                                       *)
(***************************************************************************)
Packet(f) == SubSeq(FrameBytes(f), 2, FrameLength - 1)

HasPacket == \E f \in 1 .. Frames : parser = Packet(f)

TransferTypeOK ==
  /\ rxKind \in Kinds /\ txKind \in Kinds
  /\ at \in {"idle", "read", "parse", "write"}
  /\ inbox \in Seq(Seq(Byte))
  /\ got \in Seq(Byte) /\ block \in Seq(Byte) /\ parser \in Seq(Byte) /\ line \in Seq(Byte)
  /\ alreadyWritten \in 0 .. FrameLength
  /\ rxPaused \in BOOLEAN /\ txPaused \in BOOLEAN
  /\ bytesReceived \in Nat /\ bytesTransmitted \in Nat
  /\ arrived \in 0 .. Frames
  /\ delivered \in Seq(Byte) /\ torn \subseteq 1 .. Frames /\ cut \subseteq 1 .. Frames
  /\ throws \in 0 .. MaxThrows /\ losses \in 0 .. MaxLosses

Init ==
  /\ rxKind \in Kinds /\ txKind \in Kinds
  /\ inbox = <<>> /\ got = <<>> /\ block = <<>> /\ parser = <<>> /\ line = <<>>
  /\ at = "idle"
  /\ alreadyWritten = 0
  /\ rxPaused = FALSE /\ txPaused = FALSE
  /\ bytesReceived = 0 /\ bytesTransmitted = 0
  /\ arrived = 0
  /\ delivered = <<>> /\ torn = {} /\ cut = {}
  /\ throws = 0 /\ losses = 0

(***************************************************************************)
(* The other end sends a frame: bytes one by one, a datagram, or can frames*)
(* of which the last one is shorter.                                       *)
(***************************************************************************)
Chunks(bytes) ==
  [k \in 1 .. (Len(bytes) + CanData - 1) \div CanData |->
     SubSeq(bytes, (k - 1) * CanData + 1, IF k * CanData < Len(bytes) THEN k * CanData ELSE Len(bytes))]

Units(bytes) ==
  CASE rxKind = "udp" -> <<bytes>>
    [] rxKind = "can" -> Chunks(bytes)
    [] OTHER -> [k \in 1 .. Len(bytes) |-> <<bytes[k]>>]

Arrive ==
  /\ arrived < Frames
  /\ arrived' = arrived + 1
  /\ inbox' = inbox \o Units(FrameBytes(arrived + 1))
  /\ UNCHANGED <<kinds, at, got, block, parser, writing, pauses, bytesReceived, bytesTransmitted,
                 history, throws, losses>>

(***************************************************************************)
(* reportRuntimeError: the C functions in between are left as they are, so *)
(* the rest of the block is gone and a packet stays in the parser.         *)
(***************************************************************************)
Throw ==
  /\ throws < MaxThrows
  /\ throws' = throws + 1
  /\ at' = "idle"
  /\ block' = <<>> /\ got' = <<>> /\ alreadyWritten' = 0

-----------------------------------------------------------------------------
(***************************************************************************)
(* ndlcomBridgeProcessExternalInterface calls read with its whole buffer.  *)
(***************************************************************************)
Process ==
  /\ at = "idle"
  /\ at' = "read"
  /\ UNCHANGED <<kinds, reading, block, parser, writing, pauses, bytesReceived, bytesTransmitted,
                 arrived, history, throws, losses>>

(***************************************************************************)
(* readWrapper: what is read while paused is thrown away, and not counted. *)
(***************************************************************************)
ReadWrapper(bytes) ==
  LET read == IF rxPaused THEN <<>> ELSE bytes
  IN  /\ bytesReceived' = bytesReceived + Len(read)
      /\ block' = read
      /\ delivered' = delivered \o read
      /\ at' = IF read = <<>> THEN "idle" ELSE "parse"
      /\ got' = <<>>
      /\ UNCHANGED <<kinds, parser, writing, pauses, bytesTransmitted, arrived, torn, cut, throws>>

(***************************************************************************)
(* One call that takes what there is: fread() of serial, fpga and pty,     *)
(* recvfrom() of udp (one datagram, which the buffer may cut), recv() of   *)
(* tcp.  0 bytes, EAGAIN, and EIO of a pty, all mean: nothing to read.     *)
(***************************************************************************)
ReadStream(n) ==
  /\ at = "read" /\ rxKind \in {"stream", "pty", "tcp"}
  /\ n <= RxBufferSize /\ n <= Len(inbox)
  /\ inbox' = SubSeq(inbox, n + 1, Len(inbox))
  /\ ReadWrapper([k \in 1 .. n |-> inbox[k][1]])
  /\ UNCHANGED losses

ReadUdp ==
  /\ at = "read" /\ rxKind = "udp"
  /\ IF inbox = <<>> THEN ReadWrapper(<<>>) /\ UNCHANGED inbox
     ELSE /\ ReadWrapper(SubSeq(Head(inbox), 1, IF Len(Head(inbox)) < RxBufferSize THEN Len(Head(inbox))
                                                ELSE RxBufferSize))
          /\ inbox' = Tail(inbox)
  /\ UNCHANGED losses

(***************************************************************************)
(* poll() reports a connection that closed, before what it left to read;   *)
(* other calls fail.  Either way the read throws.                          *)
(***************************************************************************)
ReadFails ==
  /\ at = "read"
  /\ Throw
  /\ UNCHANGED <<kinds, inbox, parser, line, pauses, bytesReceived, bytesTransmitted, arrived,
                 history, losses>>

(***************************************************************************)
(* Can: frames are collected while one more is sure to fit.  Mutations:    *)
(* each frame is copied to the start of the buffer; the loop asks only     *)
(* whether the buffer is full.                                             *)
(***************************************************************************)
CanCopyToStart(bytes) == bytes

CanCopy(bytes) == got \o bytes

CanFull == ~(Len(got) < RxBufferSize)

CanNoRoom == ~(Len(got) < (RxBufferSize - CanRoom) % SizeRange)

ReadCan ==
  /\ at = "read" /\ rxKind = "can" /\ ~CanNoRoom
  /\ inbox # <<>>
  /\ got' = CanCopy(Head(inbox))
  /\ inbox' = Tail(inbox)
  /\ UNCHANGED <<kinds, at, block, parser, writing, pauses, bytesReceived, bytesTransmitted,
                 arrived, history, throws, losses>>

(***************************************************************************)
(* Pipe: one hexadecimal number after the other, until the buffer is full. *)
(* When the text ends inside a number, fscanf() takes the digits it has,   *)
(* and those that follow are skipped later.                                *)
(***************************************************************************)
ReadPipe ==
  /\ at = "read" /\ rxKind = "pipe" /\ Len(got) < RxBufferSize
  /\ inbox # <<>>
  /\ got' = got \o Head(inbox)
  /\ inbox' = Tail(inbox)
  /\ UNCHANGED <<kinds, at, block, parser, writing, pauses, bytesReceived, bytesTransmitted,
                 arrived, history, throws, losses>>

ReadPipeCut ==
  /\ at = "read" /\ rxKind = "pipe" /\ Len(got) < RxBufferSize
  /\ inbox # <<>> /\ losses < MaxLosses
  /\ losses' = losses + 1
  /\ inbox' = Tail(inbox)
  /\ ReadWrapper(Append(got, Garbled))

(***************************************************************************)
(* The loops of can and pipe return with EAGAIN or a full buffer.          *)
(***************************************************************************)
ReadCollected ==
  /\ at = "read"
  /\ \/ rxKind = "can" /\ (inbox = <<>> \/ CanNoRoom)
     \/ rxKind = "pipe" /\ (inbox = <<>> \/ Len(got) = RxBufferSize)
  /\ ReadWrapper(got)
  /\ UNCHANGED <<inbox, losses>>

-----------------------------------------------------------------------------
(***************************************************************************)
(* The loop over the block: a flag starts a new packet; a packet that is   *)
(* complete before a byte was looked at is handled first, which happens    *)
(* when an exception kept it in the parser.                                *)
(***************************************************************************)
ParseByte ==
  /\ at = "parse" /\ block # <<>>
  /\ ~HasPacket \/ IsFlag(Head(block))
  /\ parser' = IF IsFlag(Head(block)) THEN <<>> ELSE Append(parser, Head(block))
  /\ block' = Tail(block)
  /\ at' = IF \E f \in 1 .. Frames : parser' = Packet(f) THEN "write"
           ELSE IF block' = <<>> THEN "idle" ELSE "parse"
  /\ UNCHANGED <<kinds, reading, writing, pauses, bytesReceived, bytesTransmitted, arrived, history,
                 throws, losses>>

ParseKept ==
  /\ at = "parse" /\ HasPacket /\ ~IsFlag(Head(block))
  /\ at' = "write"
  /\ UNCHANGED <<kinds, reading, block, parser, writing, pauses, bytesReceived, bytesTransmitted,
                 arrived, history, throws, losses>>

(***************************************************************************)
(* The message in the parser is encoded again and written.  writeWrapper   *)
(* counts what writeEscapedBytes returned from, and drops it when paused;  *)
(* then the packet is destroyed and the loop goes on.  Mutation: the packet*)
(* stays in the parser.                                                    *)
(***************************************************************************)
TheFrame == CHOOSE f \in 1 .. Frames : parser = Packet(f)
Left == FrameLength - alreadyWritten

WriteReturnsKeeping(counted) ==
  /\ bytesTransmitted' = bytesTransmitted + counted
  /\ alreadyWritten' = 0
  /\ parser' = parser
  /\ at' = IF block = <<>> THEN "idle" ELSE "parse"

WriteReturns(counted) ==
  /\ bytesTransmitted' = bytesTransmitted + counted
  /\ alreadyWritten' = 0
  /\ parser' = <<>>
  /\ at' = IF block = <<>> THEN "idle" ELSE "parse"

WritePaused ==
  /\ at = "write" /\ txPaused
  /\ WriteReturns(0)
  /\ UNCHANGED <<kinds, reading, block, line, pauses, bytesReceived, arrived, history, throws, losses>>

(***************************************************************************)
(* fwrite() and fflush() of stream and pty, fprintf() and fflush() of pipe:*)
(* a slow device takes the first k bytes, the rest is lost, and nobody     *)
(* asks what fflush() returned.                                            *)
(***************************************************************************)
WriteStream(k) ==
  /\ at = "write" /\ ~txPaused /\ txKind \in {"stream", "pty", "pipe"}
  /\ k \in 0 .. FrameLength
  /\ losses' = IF k = FrameLength THEN losses ELSE losses + 1
  /\ losses' <= MaxLosses
  /\ line' = line \o SubSeq(FrameBytes(TheFrame), 1, k)
  /\ cut' = IF k = FrameLength THEN cut ELSE cut \cup {TheFrame}
  /\ WriteReturns(FrameLength)
  /\ UNCHANGED <<kinds, reading, block, pauses, bytesReceived, arrived, delivered, torn, throws>>

(***************************************************************************)
(* The loops of udp and tcp: the call takes the first k bytes that are     *)
(* left.  Mutation: the call starts with the first byte again.             *)
(***************************************************************************)
SentFromStart(k) == SubSeq(FrameBytes(TheFrame), 1, k)

Sent(k) == [j \in 1 .. k |-> [frame |-> TheFrame, place |-> alreadyWritten + j]]

WriteSome(k) ==
  /\ line' = line \o Sent(k)
  /\ IF alreadyWritten + k = FrameLength THEN WriteReturns(FrameLength)
     ELSE /\ alreadyWritten' = alreadyWritten + k
          /\ UNCHANGED <<at, parser, bytesTransmitted>>
  /\ UNCHANGED <<kinds, reading, block, pauses, bytesReceived, arrived, history, throws, losses>>

WriteSocket(k) ==
  /\ at = "write" /\ ~txPaused /\ txKind \in {"udp", "tcp"}
  /\ k \in 1 .. Left
  /\ WriteSome(k)

(***************************************************************************)
(* Can: full frames, and the last one shorter.  Mutation: it keeps its     *)
(* size.                                                                   *)
(***************************************************************************)
CanAlwaysFull == CanData

CanLength == IF alreadyWritten + CanData > FrameLength THEN Left ELSE CanData

WriteCan ==
  /\ at = "write" /\ ~txPaused /\ txKind = "can"
  /\ WriteSome(CanLength)

(***************************************************************************)
(* EPIPE makes udp return as if all had been sent; any other error of udp, *)
(* tcp and can throws, EAGAIN of a full send buffer included.              *)
(***************************************************************************)
WriteUdpPipe ==
  /\ at = "write" /\ ~txPaused /\ txKind = "udp"
  /\ losses < MaxLosses
  /\ losses' = losses + 1
  /\ torn' = torn \cup {TheFrame}
  /\ WriteReturns(FrameLength)
  /\ UNCHANGED <<kinds, reading, block, line, pauses, bytesReceived, arrived, delivered, cut, throws>>

WriteFails ==
  /\ at = "write" /\ ~txPaused /\ txKind \in {"udp", "tcp", "can"}
  /\ Throw
  /\ torn' = torn \cup {TheFrame}
  /\ UNCHANGED <<kinds, inbox, parser, line, pauses, bytesReceived, bytesTransmitted, arrived,
                 delivered, cut, losses>>

(***************************************************************************)
(* pause() and resume() of an interface.                                   *)
(***************************************************************************)
Pause ==
  /\ Pausing /\ at = "idle" /\ losses < MaxLosses
  /\ losses' = losses + 1
  /\ \/ rxPaused' = TRUE /\ UNCHANGED txPaused
     \/ txPaused' = TRUE /\ UNCHANGED rxPaused
  /\ UNCHANGED <<kinds, reading, at, block, parser, writing, bytesReceived, bytesTransmitted, arrived,
                 history, throws>>

Resume ==
  /\ at = "idle" /\ (rxPaused \/ txPaused)
  /\ rxPaused' = FALSE /\ txPaused' = FALSE
  /\ UNCHANGED <<kinds, reading, at, block, parser, writing, bytesReceived, bytesTransmitted, arrived,
                 history, throws, losses>>

Read ==
  \/ \E n \in 0 .. RxBufferSize : ReadStream(n)
  \/ ReadUdp \/ ReadCan \/ ReadPipe \/ ReadCollected

Write ==
  \/ WritePaused
  \/ \E k \in 0 .. FrameLength : WriteStream(k) \/ WriteSocket(k)
  \/ WriteCan

Next ==
  \/ Arrive
  \/ Process \/ Read \/ ReadPipeCut \/ ReadFails
  \/ ParseByte \/ ParseKept
  \/ Write \/ WriteUdpPipe \/ WriteFails
  \/ Pause \/ Resume

Spec == Init /\ [][Next]_vars

(***************************************************************************)
(* The main loop calls process() forever.  Signals do not interrupt a call *)
(* forever, and a read does not return empty-handed forever although       *)
(* something is there.                                                     *)
(***************************************************************************)
FairSpec ==
  /\ Spec
  /\ WF_vars(Process \/ Read \/ ParseByte \/ ParseKept \/ Write)
  /\ SF_vars(\E n \in 1 .. RxBufferSize : ReadStream(n))

-----------------------------------------------------------------------------
(***************************************************************************)
(* No read writes behind the buffer it was given: a can frame is read only *)
(* while the longest one fits ("count - sizeof(frame.data)", an unsigned        *)
(* difference).                                                            *)
(***************************************************************************)
ReadFits == Len(got) <= RxBufferSize /\ Len(block) <= RxBufferSize

(***************************************************************************)
(* Reads hand on what arrived, in order and once, however it was cut into  *)
(* bytes, datagrams or can frames, unless the interface was paused or a    *)
(* call threw: an exception costs a can interface the frames of the running*)
(* read.                                                                   *)
(***************************************************************************)
ReadsLoseNothing ==
  throws = 0 /\ losses = 0 =>
    delivered \o got \o FlattenSeq(inbox) = FlattenSeq([f \in 1 .. arrived |-> FrameBytes(f)])

(***************************************************************************)
(* What leaves is a sequence of frames from their first byte on, and one   *)
(* that is not complete is being written, or a call of its write failed,   *)
(* or it went to a stream, pty or pipe that took only the first bytes:     *)
(* those write once, where ExternalInterface.hpp speaks of "looping-until- *)
(* all-bytes-are-written", and never come back for the rest.               *)
(***************************************************************************)
TornOnlyIfFailed ==
  \A j \in 1 .. Len(line) :
    LET last == j = Len(line)
    IN  /\ line[j].place # 1 => j > 1 /\ line[j - 1] = [line[j] EXCEPT !.place = @ - 1]
        /\ line[j].place # FrameLength /\ (last \/ line[j + 1].place = 1) =>
             \/ line[j].frame \in (IF txKind \in {"udp", "tcp", "can"} THEN torn ELSE cut)
             \/ last /\ alreadyWritten = line[j].place

(***************************************************************************)
(* A message goes out once, and once more only when an exception kept it   *)
(* in the parser.                                                          *)
(***************************************************************************)
Copies(f) == Cardinality({j \in 1 .. Len(line) : line[j] = [frame |-> f, place |-> 1]})

OnceUnlessThrown == \A f \in 1 .. Frames : Copies(f) <= 1 + throws /\ (f \notin torn => Copies(f) <= 1)

(***************************************************************************)
(* Every frame that arrives leaves as a whole, as long as nothing is       *)
(* paused, lost or thrown.                                                 *)
(***************************************************************************)
WholeOnLine(f) ==
  \E j \in 0 .. Len(line) - FrameLength : SubSeq(line, j + 1, j + FrameLength) = FrameBytes(f)

Forwarded ==
  \A f \in 1 .. Frames : arrived >= f ~> WholeOnLine(f) \/ throws > 0 \/ losses > 0
=============================================================================
