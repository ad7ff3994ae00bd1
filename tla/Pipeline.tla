------------------------------- MODULE Pipeline -------------------------------
(***************************************************************************)
(* "ndlcomPacketProducer | ndlcomPacketConsumer": producers that a shell   *)
(* runs one after the other, each printing one packet as hexadecimal       *)
(* numbers, and the consumer that reads them, filters the packets and      *)
(* prints them (tools/ndlcomPacketProducer.cpp, ndlcomPacketConsumer.cpp). *)
(* Counters, payloads, and what a printed line looks like are left out;    *)
(* Wire models the parser in detail.                                       *)
(***************************************************************************)
EXTENDS Integers, Sequences, SequencesExt

CONSTANTS
  ProducerLines, ConsumerLines,   \* sequences of options
  IdRange,        \* ids and lengths are cut to the numbers below this
  FrameLength,    \* bytes of a frame; the first and the last are flags
  MaxPackets,     \* bound: producers that are run
  MaxNoise        \* bound: other characters in the pipe

(***************************************************************************)
(* Options have a name and a number; "other" changes what is left out, and *)
(* "help" ends the program, as every option does that it does not know.    *)
(***************************************************************************)
Fields == {"senderId", "receiverId", "dataLen"}
ProducerOptions == [name : Fields \cup {"randomHeader", "other", "help"}, value : Int]
ConsumerOptions == [name : {"r", "s", "n", "other", "help"}, value : Int]

ASSUME PipelineAssumption ==
  /\ ProducerLines \subseteq Seq(ProducerOptions) /\ ConsumerLines \subseteq Seq(ConsumerOptions)
  /\ IdRange \in Nat /\ IdRange > 2 /\ FrameLength \in Nat /\ FrameLength >= 3
  /\ MaxPackets \in Nat /\ MaxNoise \in Nat

VARIABLES
  producer,       \* "off" or "options"
  header,         \* the header the running producer will print
  todo,           \* its options that are not handled yet
  packets,        \* the headers of the packets that were printed, by all producers
  pipe, closed,   \* what is in the pipe, and whether nobody can write to it any more
  noise,          \* how much of the bound is used
  consumer,       \* "options", "read", "parse", "select", "ended" or "failed"
  line, optind,   \* its options, and how many are handled
  filterSenderId, filterReceiverId,
  numberOfLinesToRead,
  stdin,          \* the characters in the buffer of stdin
  byte,           \* the byte that was read
  parser,         \* the bytes since the last flag
  handled,        \* history: how many packets the parser found
  printed         \* the packets that were printed

producing == <<producer, header, todo, packets, closed, noise>>
filters == <<filterSenderId, filterReceiverId>>
consuming == <<consumer, line, optind, filters, numberOfLinesToRead, stdin, byte, parser, handled, printed>>
vars == <<producing, pipe, consuming>>

Ids == 0 .. IdRange - 1
Headers == [Fields -> Ids]

Space == [packet |-> 0, place |-> 0]
Noise == [packet |-> 0, place |-> 1]
Characters == {Space, Noise} \cup [packet : 1 .. MaxPackets, place : 1 .. FrameLength]

Broadcast == IdRange - 1

(***************************************************************************)
(* The conversion of a number to an id.  Mutation: it keeps its width.     *)
(***************************************************************************)
Uncut(number) == number

IdOf(number) == number % IdRange

PipelineTypeOK ==
  /\ producer \in {"off", "options"} /\ header \in Headers /\ todo \in Seq(ProducerOptions)
  /\ packets \in Seq(Headers) /\ Len(packets) <= MaxPackets
  /\ pipe \in Seq(Characters) /\ closed \in BOOLEAN /\ noise \in 0 .. MaxNoise
  /\ consumer \in {"options", "read", "parse", "select", "ended", "failed"}
  /\ line \in Seq(ConsumerOptions) /\ optind \in 0 .. Len(line)
  /\ filterSenderId \subseteq Ids /\ filterReceiverId \subseteq Ids
  /\ numberOfLinesToRead \in Int
  /\ stdin \in Seq(Characters) /\ byte \in Characters /\ parser \in Seq(Characters)
  /\ handled \in 0 .. Len(packets) /\ printed \in Seq(1 .. Len(packets))

DefaultHeader ==
  [field \in Fields |-> CASE field = "senderId" -> 1 [] field = "receiverId" -> Broadcast [] OTHER -> 0]

Init ==
  /\ producer = "off" /\ header = DefaultHeader /\ todo = <<>> /\ packets = <<>>
  /\ pipe = <<>> /\ closed = FALSE /\ noise = 0
  /\ consumer = "options" /\ line \in ConsumerLines /\ optind = 0
  /\ filterSenderId = {} /\ filterReceiverId = {} /\ numberOfLinesToRead = -1
  /\ stdin = <<>> /\ byte = Space /\ parser = <<>>
  /\ handled = 0 /\ printed = <<>>

-----------------------------------------------------------------------------
(***************************************************************************)
(* The producers.                                                          *)
(***************************************************************************)
StartProducer ==
  /\ producer = "off" /\ ~closed /\ Len(packets) < MaxPackets
  /\ producer' = "options"
  /\ header' = DefaultHeader
  /\ todo' \in ProducerLines
  /\ UNCHANGED <<packets, pipe, closed, noise, consuming>>

(***************************************************************************)
(* Options are handled in their order, a later one overwrites what an      *)
(* earlier one set; numbers are cut to the width of the field.             *)
(***************************************************************************)
ProducerOption ==
  /\ producer = "options" /\ todo # <<>>
  /\ todo' = Tail(todo)
  /\ LET o == Head(todo)
     IN  /\ producer' = IF o.name = "help" THEN "off" ELSE producer
         /\ header' \in CASE o.name = "randomHeader" -> Headers
                          [] o.name \in Fields -> {[header EXCEPT ![o.name] = IdOf(o.value)]}
                          [] OTHER -> {header}
  /\ UNCHANGED <<packets, pipe, closed, noise, consuming>>

(***************************************************************************)
(* The bytes of a frame are printed each with a space behind it.           *)
(***************************************************************************)
FrameText(p) ==
  [k \in 1 .. 2 * FrameLength |-> IF k % 2 = 0 THEN Space ELSE [packet |-> p, place |-> (k + 1) \div 2]]

PrintPacket ==
  /\ producer = "options" /\ todo = <<>>
  /\ producer' = "off"
  /\ packets' = Append(packets, header)
  /\ pipe' = pipe \o FrameText(Len(packets'))
  /\ UNCHANGED <<header, todo, closed, noise, consuming>>

MakeNoise ==
  /\ producer = "off" /\ ~closed /\ noise < MaxNoise
  /\ noise' = noise + 1
  /\ pipe' = Append(pipe, Noise)
  /\ UNCHANGED <<producer, header, todo, packets, closed, consuming>>

Close ==
  /\ producer = "off" /\ ~closed
  /\ closed' = TRUE
  /\ UNCHANGED <<producer, header, todo, packets, pipe, noise, consuming>>

-----------------------------------------------------------------------------
(***************************************************************************)
(* The consumer's options.                                                 *)
(***************************************************************************)
ConsumerOption ==
  /\ consumer = "options" /\ optind < Len(line)
  /\ optind' = optind + 1
  /\ LET o == line[optind + 1]
     IN  /\ consumer' = CASE o.name = "n" /\ o.value = 0 -> "ended"
                          [] o.name = "help" -> "failed"
                          [] OTHER -> "options"
         /\ filterSenderId' = filterSenderId \cup (IF o.name = "s" THEN {IdOf(o.value)} ELSE {})
         /\ filterReceiverId' = filterReceiverId \cup (IF o.name = "r" THEN {IdOf(o.value)} ELSE {})
         /\ numberOfLinesToRead' = IF o.name = "n" THEN o.value ELSE numberOfLinesToRead
  /\ UNCHANGED <<producing, pipe, line, stdin, byte, parser, handled, printed>>

StartReading ==
  /\ consumer = "options" /\ optind = Len(line)
  /\ consumer' = "read"
  /\ UNCHANGED <<producing, pipe, line, optind, filters, numberOfLinesToRead, stdin, byte, parser, handled,
                 printed>>

(***************************************************************************)
(* What a read of stdin takes from the pipe: "unbuffered io" means one     *)
(* character.  Mutation: all there is.                                     *)
(***************************************************************************)
TakenAll == Len(pipe)

Taken == 1

Fill ==
  /\ consumer = "read" /\ stdin = <<>> /\ pipe # <<>>
  /\ stdin' = SubSeq(pipe, 1, Taken)
  /\ pipe' = SubSeq(pipe, Taken + 1, Len(pipe))
  /\ UNCHANGED <<producing, consumer, line, optind, filters, numberOfLinesToRead, byte, parser,
                 handled, printed>>

(***************************************************************************)
(* readBytesBlocking: white space is skipped by fscanf(), other characters *)
(* are thrown away one by one, and the end of the file ends the program.   *)
(***************************************************************************)
SkipCharacter ==
  /\ consumer = "read" /\ stdin # <<>> /\ Head(stdin) \in {Space, Noise}
  /\ stdin' = Tail(stdin)
  /\ UNCHANGED <<producing, pipe, consumer, line, optind, filters, numberOfLinesToRead, byte, parser, handled,
                 printed>>

ReadByte ==
  /\ consumer = "read" /\ stdin # <<>> /\ Head(stdin) \notin {Space, Noise}
  /\ byte' = Head(stdin)
  /\ stdin' = Tail(stdin)
  /\ consumer' = "parse"
  /\ UNCHANGED <<producing, pipe, line, optind, filters, numberOfLinesToRead, parser, handled, printed>>

EndOfFile ==
  /\ consumer = "read" /\ stdin = <<>> /\ pipe = <<>> /\ closed
  /\ consumer' = "failed"
  /\ UNCHANGED <<producing, pipe, line, optind, filters, numberOfLinesToRead, stdin, byte, parser, handled,
                 printed>>

(***************************************************************************)
(* The parser takes the byte; a packet that is complete is filtered,       *)
(* printed, counted and destroyed.  Mutation: packets that are not printed *)
(* count as well.                                                          *)
(***************************************************************************)
Parsed == IF byte.place \in {1, FrameLength} THEN <<>> ELSE Append(parser, byte)

IsPacket(f) == Parsed = [k \in 1 .. FrameLength - 2 |-> [packet |-> f, place |-> k + 1]]

Skipped(h) ==
  \/ filterSenderId # {} /\ h["senderId"] \notin filterSenderId
  \/ filterReceiverId # {} /\ h["receiverId"] \in filterReceiverId

CountedAll(f) == IF numberOfLinesToRead > 0 THEN numberOfLinesToRead - 1 ELSE numberOfLinesToRead

Counted(f) ==
  IF numberOfLinesToRead > 0 /\ ~Skipped(packets[f]) THEN numberOfLinesToRead - 1 ELSE numberOfLinesToRead

ParseByte ==
  /\ consumer = "parse"
  /\ \A f \in 1 .. Len(packets) : ~IsPacket(f)
  /\ parser' = Parsed
  /\ consumer' = "select"
  /\ UNCHANGED <<producing, pipe, line, optind, filters, numberOfLinesToRead, stdin, byte, handled, printed>>

HandlePacket(f) ==
  /\ consumer = "parse"
  /\ IsPacket(f)
  /\ handled' = handled + 1
  /\ printed' = IF Skipped(packets[f]) THEN printed ELSE Append(printed, f)
  /\ numberOfLinesToRead' = Counted(f)
  /\ parser' = <<>>
  /\ consumer' = "select"
  /\ UNCHANGED <<producing, pipe, line, optind, filters, stdin, byte>>

(***************************************************************************)
(* select() waits for the pipe to be readable, or closed, and only then    *)
(* the loop asks whether enough was printed.  It does not know of what is  *)
(* in the buffer.                                                          *)
(***************************************************************************)
Select ==
  /\ consumer = "select"
  /\ pipe # <<>> \/ closed
  /\ consumer' = IF numberOfLinesToRead = 0 THEN "ended" ELSE "read"
  /\ UNCHANGED <<producing, pipe, line, optind, filters, numberOfLinesToRead, stdin, byte, parser, handled,
                 printed>>

Consume ==
  \/ ConsumerOption \/ StartReading
  \/ Fill \/ SkipCharacter \/ ReadByte \/ EndOfFile
  \/ ParseByte \/ \E f \in 1 .. Len(packets) : HandlePacket(f)
  \/ Select

Next ==
  \/ StartProducer \/ ProducerOption \/ PrintPacket \/ MakeNoise \/ Close
  \/ Consume

(***************************************************************************)
(* The system schedules the consumer; whether producers go on, and when    *)
(* the pipe is closed, is up to the user.                                  *)
(***************************************************************************)
Spec == Init /\ [][Next]_vars /\ WF_vars(Consume)

-----------------------------------------------------------------------------
(***************************************************************************)
(* Without a filter for receivers, what is printed are the packets of the  *)
(* wanted senders in the order they were produced, without a gap, and the  *)
(* consumer that ends has printed as many as it was asked for ("only read  *)
(* n packets").                                                            *)
(***************************************************************************)
OfWantedSender(f) == filterSenderId = {} \/ packets[f]["senderId"] \in filterSenderId

Requested(n) == \E k \in 1 .. optind : line[k] = [name |-> "n", value |-> n]

PrintedInOrder ==
  consumer # "options" /\ filterReceiverId = {} =>
    /\ Range(printed) = {f \in 1 .. handled : OfWantedSender(f)}
    /\ \A j, k \in 1 .. Len(printed) : j < k => printed[j] < printed[k]
    /\ consumer = "ended" => Requested(Len(printed))

(***************************************************************************)
(* A packet of a wanted sender is printed as soon as it is in the pipe,    *)
(* also when nothing follows it, unless the consumer has ended ("read any  *)
(* byte available, as soon as it is there").                               *)
(***************************************************************************)
PrintedInTime ==
  \A f \in 1 .. MaxPackets :
    Len(packets) >= f ~>
      \/ filterReceiverId # {} \/ consumer \in {"ended", "failed"}
      \/ f <= Len(packets) /\ (f \in Range(printed) \/ ~OfWantedSender(f))
=============================================================================
