# Verification of the NDLCom library

NDLCom connects devices by short messages. A *bridge* reads bytes from
*external interfaces* (serial lines, sockets, CAN...), parses them, learns behind
which interface each device is, forwards messages and hands them to *handlers*
and *nodes* of the local program. This directory has TLA+ models of its C core, of
the C++ layer that owns the objects and talks to the operating system, and of the
command line programs on top; the TLC runs that check them; and TLAPS proofs about them.

    tlc -config loops.cfg MCBridge.tla       # a run; the other runs are listed below
    tlapm BridgeProofs.tla                   # the proofs of one module

## The system

| component | source | state | operations | talks to |
| --- | --- | --- | --- | --- |
| bridge | `src/Bridge.c` | lists of interfaces and handlers, routing table, flags | process, process once, send raw, (de)register, set flags | reads and writes interfaces, calls handlers, which may call back |
| routing table | `src/Routing.c` | one destination per id | init, get, update, invalidate | used by the bridge |
| lists | `include/ndlcom/list.h` | pointers in the entries | add, delete, loops | used by bridge and node |
| node | `src/Node.c` | own id, list of node handlers, packet counters | (de)register, rename, send, handle | is a bridge handler; marks its id in the routing table |
| handlers | `src/BridgeHandler.c`, `src/NodeHandler.c` | flags | set flags | called by bridge and node |
| external interface | `src/ExternalInterface.c` | parser, flags | set flags, set a route by hand | read and written by the bridge |
| parser | `src/Parser.c` | a state machine | receive, has/get/destroy packet | fed by the bridge, one per interface |
| encoder, checksum | `src/Encoder.c`, `src/Crc.c` | none | encode | used by the bridge |
| packet counters | `src/HeaderPrepare.c` | a counter per receiver | init, prepare | used by the node |
| statistics | `src/BridgeHandler.cpp` | expected counters, misses | handle, reset | a bridge handler |
| C++ ownership | `Bridge.hpp`, `Bridge.cpp`, `Node.hpp`, `Node.cpp` | vectors of shared pointers | create, destroy, create from a uri, destructors | owns what the C lists point into |
| C++ interfaces | `ExternalInterface.cpp`, `ExternalInterfaceBase.cpp` | file descriptors, saved settings, fifos to unlink, pause flags, byte counts | construct, destruct, read, write, pause, resume | files, devices and ports of the machine |
| `ndlcomBridge` | `tools/ndlcomBridge.cpp` | options, stop flag | options, main loop, input, signal | a static C++ bridge |
| producer, consumer | `tools/ndlcomPacketProducer.cpp`, `...Consumer.cpp` | options, filters, parser | print a packet; read, filter, print | a pipe of the shell |

**What is hard.** There is one thread and no lock. The difficulty is re-entrancy:
every handler is code of the application, called from inside loops over linked
lists, and may send (which starts the same loops again, nested), register and
deregister what is being looped over, rename nodes and change flags. The second
difficulty is the byte stream: frames are cut into blocks at any place and
damaged, and the parser has to recover. The third is what is learned from
messages, which must agree with the lists of interfaces and nodes. The C++ layer
adds three more: the C lists point into objects that a handler may free; a call
of the operating system is short, fails and throws through the C code; and the fifos,
symlinks, devices and ports of a machine are shared with other programs, which do
something between any two system calls.
`PROJECT.json` lists these hazards line by line with the properties that cover
them.

**What makes each component correct.** *Bridge and node loops*: they end, follow
no removed entry, skip nobody who stays. *Routing*: a route names a registered
interface; exactly the ids of the registered nodes are internal; a broadcast
reaches every interface but its origin; an answer sent from inside a handler
leaves on the interface the question came from; one copy per interface.
*Encoder, line, parser*: undamaged messages arrive unchanged, in order and
eventually, also after garbage; the parser stays in its buffers. *Ownership*: nothing
points to what was freed, and the destructor leaves nothing. *Interfaces*: reads and
writes lose, repeat and tear nothing but where a call failed; constructors and
destructors change the machine only for as long as the interface exists, and nothing
that is somebody else's. *Programs*: they end when told to; the consumer prints what
it was asked to print, in order and in time.

## The modules

| module | models | |
| --- | --- | --- |
| `LinkedList` | `list.h`, `CHECK_LIST_IN_LOOP` | a list is the sequence of its entries; an entry on no list points to itself |
| `Routing` | `Routing.c` | the table as a function of the ids below `NDLCOM_MAX_NUMBER_OF_DEVICES` |
| `Bridge` | `Bridge.c`, `Node.c`, setters of handlers and interfaces | EXTENDS the two above |
| `MCBridge` | | small instances of `Bridge` |
| `Parser` | `Parser.c` | the state machine as operators on its state |
| `Encoder` | `Encoder.c` | the bytes `ndlcomEncode` writes |
| `Link` | | what a line promises: the abstract specification |
| `Wire` | the read loop of `Bridge.c`, and a line | composes `Encoder` and `Parser`; implements `Link` |
| `MCWire` | | bytes of three bits with a six-bit checksum |
| `Counters` | `HeaderPrepare.c`, `BridgeMissEvents` of `BridgeHandler.cpp` | senders, a path that loses messages, two observers |
| `MCCounters` | | ids of three bits, counters modulo three |
| `Ownership` | `Bridge.hpp`, `Bridge.cpp`, `Node.hpp`, `Node.cpp` | EXTENDS `Bridge`: the objects behind the list entries |
| `MCOwnership` | | two interfaces, two handlers, a node and its handler |
| `Devices` | constructors and destructors of `ExternalInterface.cpp` | one step per system call, on a shared machine |
| `Program` | `ndlcomBridge.cpp` | EXTENDS `Devices`: options, main loop, input, signals, exit |
| `MCProgram` | | two executions of the program |
| `Transfer` | reads and writes of `ExternalInterface.cpp`, `ExternalInterfaceBase.cpp`, the read loop of `Bridge.c` | bytes from an interface of any kind to another |
| `MCTransfer` | | two frames of five bytes, every pair of kinds |
| `Pipeline` | `ndlcomPacketProducer.cpp`, `ndlcomPacketConsumer.cpp` | producers, a pipe, the consumer |
| `MCPipeline` | | command lines for both |
| `Induction`, `BridgeProofs`, `OwnershipProofs`, `WireProofs`, `CountersProofs`, `ProgramProofs`, `TransferProofs`, `PipelineProofs` | | the proofs |

### Bridge: calls and callbacks

`stack` is the C call stack, innermost call first. Its frames are the active
calls of the functions that loop or call the application:

| frame | function | locations |
| --- | --- | --- |
| `OnceFrame` | `ndlcomBridgeProcess`, `...ProcessOnce` | `once.read` before a read, `once.check` at `CHECK_LIST_IN_LOOP` |
| `ExternalFrame` | `...ProcessExternalInterface` | `ext.parse` at the head of the do-loop, `ext.after` once a message was handled |
| `DecodedFrame` | `...ProcessDecodedMessage` | `dec.loop` at the loop's test, `dec.check` while a handler runs |
| `NodeFrame` | `ndlcomNodeMessageHandler` | `node.loop`, `node.next` |
| `UserFrame` | a handler of the application | `user` |

`pos` and `temp` are the loop variables, with `ListHead` for the sentinel. Only
the top frame moves. While the stack is empty (the main program) or the top is
a `UserFrame` (a handler), the application may make any call of
`Application`: that is what re-entrancy is here. `ndlcomBridgeProcessOutgoingMessage`
calls nobody but `write`, so it is one step, merged with the entry of
`ProcessDecodedMessage` (`Decoded`); which interfaces it wrote to is kept as
history in `mirrored` and `routed`. `called`, `twice` and `steady` are history
too: the handlers a loop called, those it called more than once, and those
registered and unchanged since it started. No guard reads history.

A read returns nothing or bytes that complete the messages in `chunk`; parsing
and cutting is the subject of `Wire`.

**Rules of the application.** The code relies on the application for a few
things; each is a member of the constant `Discipline`, guards the calls it is
about, and can be taken away:

- `"removals"`: a handler does not unlink both the entry a loop is at and the one
  it goes to next, nor the node handler that is running. Without it loops do not
  end: run `removals`.
- `"ids"`: registered nodes have different ids, and no route is set by hand for
  the id of a registered node.
- `"mirrors"`: no route is set to a mirror, nor the flag on a destination. Without
  it a mirror that is also a destination gets a message twice (`Bridge.c:160`).

Preconditions the code needs to not follow a null pointer or corrupt a list are
guards: a node is attached when it is renamed, sends or deregisters; a node
handler is registered once.

### Wire: bytes

`line` holds the bytes under way and `buffer` the block that was read. Every byte
carries a mark the program never sees: of which undamaged message it is (`of`), and at
which place of its frame (`at`, 0 for bytes of no undamaged frame). `Send` puts a frame on
the line, `SendDamaged` one that lost any one byte, `Noise` a byte nobody sent. `Read` takes
any number of bytes up to `RxBufferSize`, `ReceiveByte` is one turn of
`ndlcomParserReceive`, and `TakePacket` is the bridge handling a message.
`ImplementsLink` maps the wire to `Link`: the queue is the part of `sent` that has not
`Arrived`, which is read off the mark of the first byte that is not parsed (`Stream`); a
message arrives with its last byte before the closing flag. `Spurious` messages are allowed
only once the line was disturbed, since a 16-bit checksum misses some damage.
`ImplementsLink` is the safety of `Link`, `KeepsDelivering` its fairness: what is queued is
delivered, however the line goes on to be disturbed.

### Counters: who was missed

A node numbers its messages for each receiver; `BridgeMissEvents` compares the numbers
of each sender and receiver with its expectation. `local` is an observer at the
sender's own bridge: it sees every message, but a handler in front of it may
send first, so pending sends form a stack (`calls`) and the inner one is
observed first. `remote` is one behind `path`, which keeps the order and may
lose messages. `fresh`, `nested`, `lost` and `restarted` are history, which says
what an observer should have counted. `headerConfig` is separate from the nodes
of `Bridge`: nothing in the bridge depends on the counters.

### Ownership: objects behind the entries

`Ownership` extends `Bridge` and keeps its whole state; the vectors of
`ndlcom::Bridge` and of each `ndlcom::Node` say who is owned, `held` what the
application holds through `lock()`, and both together are `Alive`. Every factory,
every destroy function, `lock()`, the end of a shared pointer and each turn of the
loops of `~Bridge` is an action; `registerHandler` and `deregisterHandler` are public,
so `Bridge`'s own actions can be used on objects the bridge owns (`ByHand`). A model
value that was freed may be created again, as addresses are.
`CreateInterface` composes the factory with `setRoutingByString`: it converts the
numbers of the uri, and when one cannot be read it throws after the interface was
registered. `InUse` is what the active C calls still read through their loop variables.

Two more rules. `"destroys"`: a handler frees nothing that is in use; it may destroy it
while it holds a shared pointer, and give that back later. `"numbers"`: no uri lists a number
that is out of range and cut to the broadcast id, as 511 and -1 are (without it: run
`broadcast_uri`). Nodes are not taken off by hand:
`destroyNode` would follow the null pointer this leaves (guard of `RemoveNode`).

### Devices and Program: system calls

`at` is where each program is: between two options, before a system call of the
constructor it runs (`rx.open`, `pty.stat`...), in the main loop, before a system call
of the destructor, or over. The machine (`files`, `master`, `settings`, `opened`,
`exclusive`, `bound`) is shared, and every other program may act between two steps.
A step does what the call does to the machine and takes the branch the code takes on its
result. `ConstructorFails` is any other failure: nobody catches an exception, so the
program ends without destructors and the system closes what it had open. `ended` is the
orderly end through `~Bridge`, `terminated` an exception in a destructor, `killed` a signal.
`Getline` reads through the buffer of `stdin`, `Select` looks at the file descriptor;
how much of the input a read takes (`Delivered`) depends on whether it is a terminal.

Rules of the user: `"names"`, no two programs at a time use one symlink (without it:
run `symlink`); `"terminal"`, the program reads from a terminal, which hands out line by line.

### Transfer: short, failing and paused calls

`inbox` holds what the system has for the next reads, in the units of the kind: bytes,
datagrams or CAN frames. `Process`, the reads, `ParseByte` and the writes are one pass of
`ndlcomBridgeProcessExternalInterface`; `alreadyWritten` is the variable of the write
loops. A byte is a frame and a place in it, so that `line` shows what
was torn or repeated. `Throw` is what an exception through the C functions leaves: no
block, and the packet still in the parser, which `ParseKept` handles once more. `torn`, `cut` (by a stream, pty or pipe that took only a part) and
`delivered` are history. A call that is interrupted (`EINTR`) is repeated, a stuttering
step. The parser is reduced to "the bytes since the last flag are those of a frame";
`Wire` has it in detail.

### Pipeline: two programs and a pipe

Producers run one after the other, handle their options and print one packet of
hexadecimal numbers; somebody may write other characters in between, and close the pipe.
The consumer handles its options, then loops over `Fill` (a read of the unbuffered
`stdin`), `ReadByte` or `SkipCharacter`, `ParseByte` or `HandlePacket`, and `Select`.

## The runs

| run | shows | states |
| --- | --- | --- |
| `loops` | `TypeOK`, `RoutesAreLive`, `NoUseAfterRemoval`, `NoHandlerSkipped`, `EveryCallReturns` with everything a loop is over being added and removed from inside it | 1 300 000 |
| `routing` | `RoutesAreLive`, `InternalIdsMarked`, `BroadcastReachesAll`, `RepliesReachOrigin` with nodes that come, go and are renamed, and a rogue that sends with their id | 1 700 000 |
| `wire` | `BufferBounds`, `ImplementsLink`, `KeepsDelivering` | 830 000 |
| `counters` | `TypeOK`, `NoMissUnlessNested`, `MissesAreGaps`: loss is counted once per gap and not without one, except after a gap of a multiple of the counter's range or a reset; nesting makes the local observer report misses of messages that were not lost | 190 000 |
| `ownership` | `OwnershipTypeOK`, `NoDanglingPointer`, `TornDown`, `NoSecondCopy`, `BroadcastReachesAll`, `TeardownCompletes` with objects made and destroyed from inside the C loops, and uris that list the broadcast id and numbers out of range | 630 000 |
| `lifecycle` | `ProgramTypeOK`, `OrderlyExitCleansUp`, `SettingsRestored`, `NoThrowInDestructor`, `OnlyMakerRemovesFifo`, `Quits` with two programs on one machine: what an orderly exit removes includes the symlink of a pty | 990 000 |
| `transfer` | `TransferTypeOK`, `ReadFits`, `ReadsLoseNothing`, `TornOnlyIfFailed`, `OnceUnlessThrown`, `Forwarded` between every pair of kinds | 180 000 |
| `pipeline` | `PipelineTypeOK`, `PrintedInOrder`, `PrintedInTime` | 71 000 |

Four runs end in a counterexample. Each is a place where the code does something else
than a comment or document says:

| run | violated | what happens |
| --- | --- | --- |
| `removals` | `EveryCallReturns` | a handler removes the current entry and the next one: the repaired loop goes to an entry that is its own successor, forever |
| `broadcast_sender` | `BroadcastReachesAll` | a message from sender 255 is learned; broadcasts then go to that interface only |
| `symlink` | `SymlinkStays` | `prepareSymlink()` takes a symlink for dead when its target exists: a second program takes the symlink of a running one |
| `broadcast_uri` | `BroadcastReachesAll` | a number of a uri that is out of range is reported, cut to the broadcast id and stored: broadcasts then go to that interface only |

What the properties leave out on purpose, because the code does not do it:

- after a removal of the next entry a handler may be called twice with the same message
  (`Bridge.c:36`); without that repetition, handlers behind the removed one would be lost;
- `processOnce()` may handle several messages that were in one block (`Bridge.hpp:71`);
- in a build with fewer devices the index into the bitset of `BridgeMissEvents` is too
  large and throws (`BridgeHandler.cpp:78`);
- the rest of a frame that is too long for the receiver is parsed as frames (`Parser.c:161`);
- a serial device that two programs have open at once, one of them before it has exclusive
  access or after it gave it up, may be left with the raw settings (`SettingsRestored`
  excludes such devices, in `shared`);
- SIGINT inside `select()` makes it return -1, and the program waits in `getline()` for one
  more line before it ends (`SigintInSelect`, excluded by `Quits`);
- a program that ends by an exception leaves the fifos and symlinks it made;
- a stream or pty writes a frame with one `fwrite()`, prints "bytes lost" when it was short and
  drops the rest (`ExternalInterface.cpp:95`), although the header says that
  `ExternalInterfaceStream` "adds error-checking and looping-until-all-bytes-are-written"
  (`ExternalInterface.hpp:33`). `TornOnlyIfFailed` counts such a frame as `cut` and says that
  nothing else tears one;
- the filter for receivers of the consumer prints the packets of everybody else
  (`ndlcomPacketConsumer.cpp:244` skips those that are listed, the comment at line 143 says
  "these allow filtering only for wanted ids"). `Consume` does what the code does, and
  `PrintedInOrder` and `PrintedInTime` speak of consumers without that filter.

### Bounds

- `MaxCalls` (3): calls of the application after set-up. Set-up is
  the initial state, so all three go to the interesting part: with three, a
  handler can remove an entry, add it again and remove its neighbour, or send
  from inside a message sent from inside a message. The endless loops need two.
- `MaxReads`, `MaxChunk`: reads that return bytes and messages per read. `loops`
  has one read with two messages, so that an interface can be removed with a
  message of its block left; `routing` has two reads, so that a device can move
  between interfaces.
- `loops` has two interfaces, two bridge handlers around a node and two node
  handlers: a current entry, a next one and one behind. `routing` has three
  interfaces, one a mirror; ids 1 and 2 for the nodes, 3 outside and broadcast.
- `Api` selects the calls the run makes. Together the runs make all of them.
- `wire`: three-bit bytes keep flag, escape character and six values to choose
  from; messages have control characters in header and payload, or no payload.
  Two disturbances (`MaxNoise`) reach a pending escape character before a flag, a truncated
  frame before a good one, and noise between frames. `MaxPayload` is 2 and a
  damaged header announces up to 7. `RxBufferSize` 2 cuts frames everywhere.
- `counters`: five sends (`MaxSends`) with counters modulo three make gaps of one to three
  messages, the last of which must go unnoticed, and let counters wrap around; a
  rename (`MaxRenames`) to the same or another id, sends nested in one another (`MaxDepth`).
- `ownership`: `IdRange` 4 gives ids of two bits; a uri names an ordinary id, the broadcast
  id and two numbers out of range, of which one is cut to an ordinary id and the other to
  the broadcast id (the latter in `broadcast_uri`, and in uris that cannot be read). Three calls make, destroy and release an object
  inside one message, or take it off by hand before it is destroyed.
- `lifecycle`: two programs, two names, two pseudo terminals, one serial device, two ports;
  the command lines have every kind of interface, options that end the program, and an
  interface in front of one that fails; a place may already have a fifo, a regular
  file or an old symlink. Two programs are enough for the races: each promise is
  between a program and somebody else. `MaxLines` 2 is a `q` behind another line.
- `transfer`: frames of five bytes, CAN frames of two in a network that allows three
  (`CanRoom`), a buffer of six: a frame takes three CAN frames, the last one shorter; one read
  takes two of them and stops before the third, and the two may belong to different frames. `MaxThrows` and `MaxLosses` 1: one call
  that throws, and one short write, cut number or pause, in every place.
- `pipeline`: two packets (`MaxPackets`), so that one waits while the other is
  handled, and one other character (`MaxNoise`) anywhere between them.

TLC checks deadlock in the runs of `Bridge`: as long as the main program calls
`Process`, it never stops. In `transfer` the receiver polls forever. It is off where the
system may stop: the senders of `wire` are bounded, a bridge is torn down
(`ownership`), programs end (`lifecycle`, `pipeline` and their counterexamples). It says nothing
in `counters`, whose statistics can always be reset.

### Fairness

`FairSpec` of `Bridge` has weak fairness of `Run`, all that the program does by
itself: one thread executes it, so an active call goes on, and a handler of the
application returns. Nothing is assumed of the application's calls or of what is
read. `OwnershipSpec` adds weak fairness of the turns of `~Bridge`, which nobody interrupts;
that it is ever called is not assumed. `FairSpec` of `Wire` has weak fairness of the receiver: the main loop of
the program (`tools/ndlcomBridge.cpp`) polls forever. Reads are bounded by
`MaxReads`, hence "`Process` returns" is shown for a finite input; while bytes
keep coming it need not return (`Bridge.hpp`: "could therefore run forever").

`FairSpec` of `Program` has weak fairness of each program's own steps: the system schedules
it. Input, signals and failures are not fair. `Transfer` has the same for the loop, and
strong fairness of the reads of a stream that return at least one byte: such a read may
come back empty-handed, but not forever while there is something to read. `Pipeline` has weak
fairness of the consumer only: whether anybody goes on producing is up to the user.

## The proofs

The theorems hold for arbitrary sets of interfaces, handlers, nodes, ids, programs, names and
messages, arbitrary bounds and arbitrary nesting. They assume what the modules say of their
constants, and TLC evaluates on every run: `BridgeAssumption` (the sentinel and the bridge
pointer are no entries, the set-up is well formed), `ParserAssumption` and `WireAssumption`
(bytes are closed under complement, the checksum is total), `MessageAssumption` (a header
announces the length of its payload) and `CodeAssumption` (complementing twice gives a byte
back and makes no flag of a control character; a checksum over data and its own checksum is
the constant the parser compares with), `CountersAssumption` (a counter counts modulo some
positive number), `DevicesAssumption` and `ProgramAssumption` (the shape of uris, command lines
and of the files that are there at the start), `TransferAssumption` (a frame has at least three
bytes, a CAN frame is shorter than the buffer, sizes fit into `size_t`), `PipelineAssumption`
(options are names with numbers, a frame has at least three bytes). A theorem that needs a
rule of the application names it as a hypothesis; the runs `removals`, `broadcast_sender`,
`broadcast_uri` and `symlink` show that it fails without.

`Induction` proves induction over the natural numbers, and that recursion defines a
function, for sets and functions: that is how the proofs get at what recursive functions
compute.

**Bridge** (`BridgeProofs`)

- `TypeCorrect`: `Spec => [](TypeOK /\ ListsInv)`. That a list holds an
  entry once (`ListsInv`) is needed by everything else. It rests on the lemmas about
  `LinkedList`, which say what adding, unlinking and the loop steps do.
- `LoopsSafe`: the inductive invariant `StackInv`, given the rule
  `"removals"`. `NoUseAfterRemoval` alone is not inductive: it speaks of the innermost
  call, and what it needs is established while the call waits.
  `StackInv` therefore says of every frame: whoever is about to use a loop
  variable finds it linked; whoever waits in a loop is `Anchored`: `temp` is the
  sentinel or one of `pos` and `temp` is still on the list. `CheckRepairsLoop`
  is the heart of it: from an anchored frame `CHECK_LIST_IN_LOOP` leads to linked loop
  variables. That is also where both being unlinked breaks the code.
- `RemovalsAreSafe` (`NoUseAfterRemoval`) follows. `RoutesStayLive` (`RoutesAreLive`) uses
  it: an interface is learned only while it is at `ext.parse`, where `StackInv` says it is
  registered, and it is removed together with its routes.
- `InternalIdsStayMarked` (`InternalIdsMarked`), given the rule `"ids"`, with the
  invariant that no two registered nodes have the same id.
- `NobodyIsSkipped` (`NoHandlerSkipped`), given the rule `"removals"`. `ProgressInv` says of
  each handler that stays registered while a loop runs: the loop has called it, or it opted
  out, or it is still ahead, behind the place of `pos` or of `temp` in the list as it is
  now. `OrderKept`: what handlers add and remove never moves such a handler in front of what
  it was behind.
- `OneCopyEach` (`NoSecondCopy`), given the rule `"mirrors"`: no route leads to a mirror
  (`RoutesMissMirrors`), and what was written by flag and what by route are disjoint
  (`CopiesInv`).
- `BroadcastsGoEverywhere` (`BroadcastReachesAll`), given that no device and no node has the
  broadcast id: it is then never in the table (`BroadcastUnrouted`).
- `RepliesGoBack` (`RepliesReachOrigin`), given the rule `"ids"` and an application that
  sets no routes and no flags of interfaces by hand. `RepliesInv`: while a message is
  handled, its sender is routed to the interface it came from, or was given to a node or
  forgotten since, at every depth of the stack.

**Ownership** (`OwnershipProofs`)

- `OwnershipTypesCorrect` (`OwnershipTypeOK`), without any rule: what is on a C list is also
  in the vector of its class (`OwnedInv`), and the loops of `~Bridge` have emptied what they
  are past.
- `NothingDangles` (`NoDanglingPointer`), given `"removals"` and `"destroys"`. `AliveInv`
  joins `StackInv` of the bridge with `UsesInv`: what the frames point to is alive. The
  steps of `Bridge` preserve it because a frame takes new pointers from the lists only, and
  those are owned; the destroying steps because of the guard the rule puts on them.
- `BridgeTornDown` (`TornDown`), from the same invariant.

**Wire** (`WireProofs`)

- `BuffersStayBounded` (`BufferBounds`): per byte, whatever the line does.
- `WireImplementsLink` (`ImplementsLink`), the refinement. The lemmas about the encoder say
  that a frame is a flag, the escaped header, payload and checksum, and a flag, and has no
  flag in between (`FrameIs`, `FrameBytes`); those about the parser that it is, after each
  byte of a frame, just where the frame says (`Reached`, `ReachedStep`), from whatever state
  the opening flag found it in (`ReachedFlag`), and that it reports the message that was
  sent before the closing flag (`ReachedPacket`). The inductive invariant `WireInv` says
  that the bytes that are not parsed yet form a `Chain`: the rest of a frame, then complete
  frames in the order they were sent in, with stray bytes only between frames; that inside a
  frame the parser has `Reached` the byte before; and that there are no stray bytes on a
  line that was not disturbed. `PositionOfTail` shows that what has arrived changes at one
  byte of a frame only.

**Counters** (`CountersProofs`)

- `CountersTypesCorrect` (`TypeOK`).
- `NoMissWithoutNesting` (`NoMissUnlessNested`). `LocalInv`, for every pair that was not
  nested: the open send, or if there is none the next one, carries the number the observer
  expects.
- `GapsAreCounted` (`MissesAreGaps`, an action property). `RemoteInv`: the messages of a
  pair on the path are numbered consecutively up to the counter of the node, and the first
  of them is ahead of the expectation by what was lost, modulo the range. `CountOn` is the
  arithmetic.

**Programs** (`ProgramProofs`)

- `ProgramTypesCorrect` (`ProgramTypeOK`). Types alone are not inductive: what
  a destructor reads was set by a step of the constructor long before. `PlacesInv` ties the
  place a program is at to the kind of the interface it makes or destroys and to what its
  constructor has done so far.
- `FifosOfMakers` (`OnlyMakerRemovesFifo`), whatever the programs' names and
  however they race, without the rule on names. `FifoInv`: what an interface is to unlink
  is a fifo its program made, and no other interface of that program is to unlink it; and
  where a symlink is to be removed, there is no fifo. It is kept because `mkfifo()`
  succeeds only where nothing is, so that a second maker throws.
- `NothingLeftBehind` (`OrderlyExitCleansUp`). `LeftInv`: everything a program has on the
  machine belongs to an interface it owns, constructs or destroys (`Accounted`). `LinksInv`:
  a symlink it made has the name of a pty it still owns, whose destructor removes it. No rule on names is needed: a program whose symlink was taken by another one
  does not end in order.
- `SettingsComeBack` (`SettingsRestored`). `SettingsInv`: unless a device was shared,
  whoever has it open is alone and saved the original settings before changing them.
- `SymlinksStay` (`SymlinkStays`) and `DestructorsDoNotThrow` (`NoThrowInDestructor`), given
  the rule `"names"`. `SymlinksInv`: the symlink of an interface leads to its own pseudo
  terminal, and no other interface of a running program uses the name.

**Transfer** (`TransferProofs`)

- `ReadsFit` (`ReadFits`) and `TransferTypesCorrect`. The invariant says that
  every unit that waits is no longer than the room for it (`UnitsFit`, from what a frame is
  cut into), that the parser has a packet while one is written, and that nothing is left over
  from the call before (`CallsInv`). `RoomIsExact`: the unsigned difference does not wrap.
- `OnlyFailuresTear` (`TornOnlyIfFailed`). `TornInv` adds to the property that
  the last byte on the line is the one `alreadyWritten` names, in the frame that is in the
  parser: then the next call continues it, and one that throws marks just that frame as torn.
  Streams, pty and pipe never leave a frame half written for a later call.
- `NothingIsLost` (`ReadsLoseNothing`), where the bridge's buffer holds a whole frame or no
  interface is udp (`FrameFitsBuffer`: the default of the buffer is the longest encoded
  message; a smaller one truncates datagrams). `ReadInv`: a pause has counted a loss, only
  can and pipe collect bytes for later, and what was delivered, what is collected and what
  waits add up to what arrived. Each read takes bytes off the front of what waits, and only
  a read into a buffer that is too small cuts some away (`Takes`); lemmas about `FlattenSeq`
  carry this from units to bytes.
- `OnceEach` (`OnceUnlessThrown`). A message cannot be counted on its way, since it is cut
  into pieces; `CopiesInv` counts one byte of each copy instead. The copies on the line, and
  the bytes behind the opening flag that still wait, in the interface, in the block or in a
  parser that has not begun to be written (`Total`), are at most one more than the
  exceptions, at most one when no write of the message threw, and none before it arrived
  (`Allowed`). Every read moves such a byte from one place to the next, the first write turns
  the one in the parser into a copy on the line, and an exception puts it back while it marks
  the message as torn.

**Pipeline** (`PipelineProofs`)

- `PipelineTypesCorrect` (`PipelineTypeOK`) needs to know that the consumer finds no packet
  twice. `StreamInv`: the bytes that are not parsed yet, in the pipe and in the buffer of stdin,
  are those of the packets from some place on, each once and in order (`Due`), and the
  parser holds what comes before that place (`Position`). Spaces and noise between them do
  not matter, and a packet is handled with the byte before its closing flag.
- `PrintsInOrder` (`PrintedInOrder`). The packet that is handled is therefore the next one.
  `PrintedInv`: what was printed are, in ascending order, the packets handled that no filter
  skips, and filters do not change once one was handled; what is left to print and
  what was printed add up to a number that was asked for (`LinesInv`), which is never zero
  where the consumer reads on.

**Model-checked only.** All liveness (`EveryCallReturns`, `TeardownCompletes`, `Quits`,
`Forwarded`, `PrintedInTime`, `KeepsDelivering`): fairness and `ENABLED` are out of the
prover's reach. Every safety property of a passing run is proved, in the module that
states it; `BroadcastReachesAll` and `NoSecondCopy` are proved of `Bridge` and only
model-checked with the factories of `Ownership` around it.

## Not modelled

- `BridgeHandlerStatistics`, the handlers that print, and the observer in a build with
  exactly 255 devices, which takes the broadcast id for an index (`BridgeHandler.cpp:72`).
- Of the interfaces: baud rates, addresses and host names, and how a CAN FD network is told
  from a classical one. Of the tools: the format of what is printed, payloads, and the
  two minimal examples.
- Pointer surgery inside `list.h`; a list here is the sequence it represents.
- The 8-bit checksum build, the 256-entry table of `Crc.c` (`MCWire` computes a
  smaller checksum with the same formula), `ndlcomEncodeVar` with several sections.
- `ndlcomBridgeProcess*` called from a handler; calls that follow a null pointer.
- Payload helpers, scripts, tests, lookups by name.

## Plan

1. Done: `LinkedList`, `Routing`, `Bridge` with its runs and safety proofs;
   `Parser`, `Encoder`, `Wire` implementing `Link`, with the proof of the bounds; `Counters`.
2. Done: `Ownership` over `Bridge`; `Devices` and `Program`; `Transfer`; `Pipeline`; proofs
   about `Program` and `Transfer`.
3. `Network`: bridges in a tree, each reduced to learning and forwarding, over
   channels of messages; implements an abstract delivery specification (at
   most one copy per node, to the addressee once every bridge on the path has
   learned it); a cycle as the counterexample.
4. `Pointers`: `list.h` with next and prev, refining `LinkedList`.
5. Proofs: done for the safety properties of all models, as listed above. The models of 3 and
   4 come with proofs of their own.
