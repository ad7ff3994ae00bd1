------------------------------- MODULE Devices -------------------------------
(***************************************************************************)
(* The constructors and destructors of the external interfaces of          *)
(* src/ExternalInterface.cpp, as the programs that share a machine run     *)
(* them: what they open, create, set and remove there, one step per system *)
(* call that another program can come in between.  The calls after which   *)
(* nothing is visible to anybody else (fdopen, fcntl, getaddrinfo...) are  *)
(* part of the step before them, and may fail like it.                     *)
(*                                                                         *)
(* Nobody catches what a constructor throws, and no destructor may throw:  *)
(* either way the program ends at once (std::terminate), no destructor     *)
(* runs, and the system closes what was open.                              *)
(***************************************************************************)
EXTENDS Integers, Sequences

CONSTANTS
  Programs,      \* each is one execution of a program that uses the library
  Uris,          \* the interfaces a command line can ask for
  Names,         \* base names of pipes and of symlinks
  Ttys, Ports,   \* serial devices, udp ports
  Pts,           \* the numbers of the pseudo terminals, /dev/pts/1...
  External,      \* another program, as the creator of a fifo or a symlink
  NoProgram      \* the owner of a pseudo terminal or a port that is free

Sides == {"rx", "tx"}
Nothing == [type |-> "nothing"]
Regular == [type |-> "regular"]
Fifo(maker) == [type |-> "fifo", maker |-> maker]
Link(maker, pts) == [type |-> "link", maker |-> maker, to |-> pts]

LeadsTo(entry, pts) == entry.type = "link" /\ entry.to = pts

Entries == {Nothing, Regular} \cup {Fifo(maker) : maker \in Programs \cup {External}}
             \cup {Link(maker, pts) : maker \in Programs \cup {External}, pts \in Pts}

(***************************************************************************)
(* The places in the constructor of a pipe, for each of its sides.         *)
(***************************************************************************)
OpenAt == [rx |-> "rx.open", tx |-> "tx.open"]
MkfifoAt == [rx |-> "rx.mkfifo", tx |-> "tx.mkfifo"]
ReopenAt == [rx |-> "rx.reopen", tx |-> "tx.reopen"]

ASSUME DevicesAssumption ==
  /\ External \notin Programs /\ NoProgram \notin Programs \cup {External}
  /\ Pts \subseteq Nat \ {0} /\ Uris # {}
  /\ \A uri \in Uris :
       /\ uri.kind \in {"serial", "fpga", "udp", "can", "tcp", "pipe", "pty"} /\ uri.mirror \in BOOLEAN
       /\ uri.kind \in {"pipe", "pty"} => uri.name \in Names
       /\ uri.kind = "serial" => uri.tty \in Ttys
       /\ uri.kind = "udp" => uri.in \in Ports /\ uri.out \in Ports

VARIABLES
  at,          \* where each program is
  this,        \* the interface it constructs
  interfaces,  \* the interfaces its bridge owns
  \* the machine:
  files,       \* the entry of each pipe ("rx", "tx") and symlink ("link")
  master,      \* the program that holds the master side of each pseudo terminal
  settings,    \* the settings of each serial device
  opened,      \* the programs that have it open
  exclusive,   \* the serial devices in exclusive mode
  bound,       \* the program each udp port is bound to
  shared       \* history: the serial devices that two programs had open at once,
               \* or that a program left without its destructor

machine == <<files, master, settings, opened, exclusive, bound, shared>>

(***************************************************************************)
(* An interface: what its destructor needs to know.                        *)
(***************************************************************************)
Interfaces ==
  [uri : Uris, unlinks : SUBSET Sides, pts : Pts \cup {0}, oldtio : {"unset", "original", "raw"}]

Interface(uri) == [uri |-> uri, unlinks |-> {}, pts |-> 0, oldtio |-> "unset"]

(* The constructor has set what the destructor needs. *)
IsConstructed(i) ==
  /\ i \in Interfaces
  /\ i.uri.kind = "serial" => i.oldtio # "unset"
  /\ i.uri.kind = "pty" => i.pts # 0

Constructing == {"serial.open", "serial.get", "serial.exclusive", "serial.set", "fpga.open", "udp.bind",
                 "can.open", "tcp.connect", "rx.open", "rx.mkfifo", "rx.reopen", "tx.open", "tx.mkfifo",
                 "tx.reopen", "pty.open", "pty.lstat", "pty.stat", "pty.unlink", "pty.symlink"}

Destructing == {"exit", "~serial.exclusive", "~serial.set", "~rx", "~tx", "~pty.check", "~pty.unlink"}

Over == {"ended", "aborted", "terminated", "killed"}

Go(p, place) == at' = [at EXCEPT ![p] = place]

Kind(p) == this[p].uri.kind
Tty(p) == this[p].uri.tty
Entry(p, side) == files[<<this[p].uri.name, side>>]

(***************************************************************************)
(* The system closes what a program that ends has open.                    *)
(***************************************************************************)
SystemCloses(p) ==
  /\ master' = [k \in Pts |-> IF master[k] = p THEN NoProgram ELSE master[k]]
  /\ bound' = [q \in Ports |-> IF bound[q] = p THEN NoProgram ELSE bound[q]]
  /\ opened' = [t \in Ttys |-> opened[t] \ {p}]
  /\ exclusive' = {t \in exclusive : opened[t] # {p}}

Dies(p, how) ==
  /\ Go(p, how)
  /\ SystemCloses(p)
  /\ shared' = shared \cup {t \in Ttys : p \in opened[t]}
  /\ interfaces' = [interfaces EXCEPT ![p] = <<>>]
  /\ UNCHANGED <<this, files, settings>>

(***************************************************************************)
(* The constructor throws: a system call failed, or it found something it  *)
(* cannot use.                                                             *)
(***************************************************************************)
Throws(p) == Dies(p, "aborted")

ConstructorFails(p) == at[p] \in Constructing /\ Throws(p)

(***************************************************************************)
(* The constructor is done: the bridge registers and owns the interface.   *)
(***************************************************************************)
Constructed(p, interface) ==
  /\ Go(p, "options")
  /\ interfaces' = [interfaces EXCEPT ![p] = Append(@, interface)]
  /\ UNCHANGED this

Step(p, place) == Go(p, place) /\ UNCHANGED <<this, interfaces>>

-----------------------------------------------------------------------------
(***************************************************************************)
(* Serial: open, save the settings, TIOCEXCL, set raw mode.  Mutation: the *)
(* settings are not saved.                                                 *)
(***************************************************************************)
SerialOpen(p) ==
  /\ at[p] = "serial.open"
  /\ IF Tty(p) \in exclusive THEN Throws(p)
     ELSE /\ Step(p, "serial.get")
          /\ opened' = [opened EXCEPT ![Tty(p)] = @ \cup {p}]
          /\ shared' = IF opened[Tty(p)] = {} THEN shared ELSE shared \cup {Tty(p)}
          /\ UNCHANGED <<files, master, settings, exclusive, bound>>

SerialGetNothing(p) == at[p] = "serial.get" /\ Step(p, "serial.exclusive") /\ UNCHANGED machine

SerialGet(p) ==
  /\ at[p] = "serial.get"
  /\ Go(p, "serial.exclusive")
  /\ this' = [this EXCEPT ![p].oldtio = settings[Tty(p)]]
  /\ UNCHANGED <<interfaces, machine>>

SerialExclusive(p) ==
  /\ at[p] = "serial.exclusive"
  /\ Step(p, "serial.set")
  /\ exclusive' = exclusive \cup {Tty(p)}
  /\ UNCHANGED <<files, master, settings, opened, bound, shared>>

SerialSet(p) ==
  /\ at[p] = "serial.set"
  /\ settings' = [settings EXCEPT ![Tty(p)] = "raw"]
  /\ Constructed(p, this[p])
  /\ UNCHANGED <<files, master, opened, exclusive, bound, shared>>

(***************************************************************************)
(* The fpga module takes no mirrors.  Udp refuses equal ports, and a port  *)
(* that is bound.  Can ignores what bind() returns, tcp connects.          *)
(***************************************************************************)
FpgaOpen(p) ==
  /\ at[p] = "fpga.open"
  /\ IF this[p].uri.mirror THEN Throws(p) ELSE Constructed(p, this[p]) /\ UNCHANGED machine

UdpBind(p) ==
  LET uri == this[p].uri
  IN  /\ at[p] = "udp.bind"
      /\ IF uri.in = uri.out \/ bound[uri.in] # NoProgram THEN Throws(p)
         ELSE /\ Constructed(p, this[p])
              /\ bound' = [bound EXCEPT ![uri.in] = p]
              /\ UNCHANGED <<files, master, settings, opened, exclusive, shared>>

CanOpen(p) == at[p] = "can.open" /\ Constructed(p, this[p]) /\ UNCHANGED machine

TcpConnect(p) == at[p] = "tcp.connect" /\ Constructed(p, this[p]) /\ UNCHANGED machine

-----------------------------------------------------------------------------
(***************************************************************************)
(* Pipe: for each side open() an existing fifo, or mkfifo() and open() it. *)
(* fstat() asks the file that was opened, so it belongs to the open().     *)
(***************************************************************************)
PipeOpened(p, side) ==
  IF Entry(p, side).type # "fifo" THEN Throws(p)
  ELSE /\ IF side = "rx" THEN Step(p, "tx.open") ELSE Constructed(p, this[p])
       /\ UNCHANGED machine

PipeOpen(p, side) ==
  /\ at[p] = OpenAt[side]
  /\ IF Entry(p, side) = Nothing THEN Step(p, MkfifoAt[side]) /\ UNCHANGED machine
     ELSE PipeOpened(p, side)

(***************************************************************************)
(* Mutation: a pipe that appeared since the open() is good enough.         *)
(***************************************************************************)
PipeMkfifoAnyway(p, side) ==
  /\ at[p] = MkfifoAt[side]
  /\ files' = IF Entry(p, side) = Nothing
              THEN [files EXCEPT ![<<this[p].uri.name, side>>] = Fifo(p)] ELSE files
  /\ this' = [this EXCEPT ![p].unlinks = @ \cup {side}]
  /\ Go(p, ReopenAt[side])
  /\ UNCHANGED <<interfaces, master, settings, opened, exclusive, bound, shared>>

PipeMkfifo(p, side) ==
  /\ at[p] = MkfifoAt[side]
  /\ IF Entry(p, side) # Nothing THEN Throws(p)
     ELSE /\ files' = [files EXCEPT ![<<this[p].uri.name, side>>] = Fifo(p)]
          /\ this' = [this EXCEPT ![p].unlinks = @ \cup {side}]
          /\ Go(p, ReopenAt[side])
          /\ UNCHANGED <<interfaces, master, settings, opened, exclusive, bound, shared>>

PipeReopen(p, side) ==
  /\ at[p] = ReopenAt[side]
  /\ IF Entry(p, side) = Nothing THEN Throws(p) ELSE PipeOpened(p, side)

-----------------------------------------------------------------------------
(***************************************************************************)
(* Pty: a new pseudo terminal, then prepareSymlink().  A symlink that is   *)
(* there is removed when stat() finds what it points to, and the           *)
(* constructor throws when it does not.                                    *)
(***************************************************************************)
PtyOpen(p) ==
  /\ at[p] = "pty.open"
  /\ \E k \in Pts :
       /\ master[k] = NoProgram
       /\ master' = [master EXCEPT ![k] = p]
       /\ this' = [this EXCEPT ![p].pts = k]
  /\ Go(p, "pty.lstat")
  /\ UNCHANGED <<interfaces, files, settings, opened, exclusive, bound, shared>>

PtyLstat(p) ==
  /\ at[p] = "pty.lstat"
  /\ CASE Entry(p, "link") = Nothing -> Step(p, "pty.symlink") /\ UNCHANGED machine
       [] Entry(p, "link").type = "link" -> Step(p, "pty.stat") /\ UNCHANGED machine
       [] OTHER -> Throws(p)

(***************************************************************************)
(* readlink() and stat().  A symlink that vanished meanwhile counts as one *)
(* that points to nothing.                                                 *)
(***************************************************************************)
PtyStat(p) ==
  /\ at[p] = "pty.stat"
  /\ IF Entry(p, "link").type = "link" /\ master[Entry(p, "link").to] # NoProgram
     THEN Step(p, "pty.unlink") /\ UNCHANGED machine
     ELSE Throws(p)

(***************************************************************************)
(* Mutation: the symlink stays as it is.                                   *)
(***************************************************************************)
PtyKeepSymlink(p) ==
  /\ at[p] = "pty.unlink"
  /\ Constructed(p, this[p]) /\ UNCHANGED machine

PtyUnlink(p) ==
  /\ at[p] = "pty.unlink"
  /\ IF Entry(p, "link") = Nothing THEN Throws(p)
     ELSE /\ files' = [files EXCEPT ![<<this[p].uri.name, "link">>] = Nothing]
          /\ Step(p, "pty.symlink")
          /\ UNCHANGED <<master, settings, opened, exclusive, bound, shared>>

PtySymlink(p) ==
  /\ at[p] = "pty.symlink"
  /\ IF Entry(p, "link") # Nothing THEN Throws(p)
     ELSE /\ files' = [files EXCEPT ![<<this[p].uri.name, "link">>] = Link(p, this[p].pts)]
          /\ Constructed(p, this[p])
          /\ UNCHANGED <<master, settings, opened, exclusive, bound, shared>>

Construct(p) ==
  \/ SerialOpen(p) \/ SerialGet(p) \/ SerialExclusive(p) \/ SerialSet(p)
  \/ FpgaOpen(p) \/ UdpBind(p) \/ CanOpen(p) \/ TcpConnect(p)
  \/ \E side \in Sides : PipeOpen(p, side) \/ PipeMkfifo(p, side) \/ PipeReopen(p, side)
  \/ PtyOpen(p) \/ PtyLstat(p) \/ PtyStat(p) \/ PtyUnlink(p) \/ PtySymlink(p)

(***************************************************************************)
(* Where the constructor of a kind starts.                                 *)
(***************************************************************************)
FirstStep(kind) ==
  CASE kind = "serial" -> "serial.open"
    [] kind = "fpga" -> "fpga.open"
    [] kind = "udp" -> "udp.bind"
    [] kind = "can" -> "can.open"
    [] kind = "tcp" -> "tcp.connect"
    [] kind = "pipe" -> "rx.open"
    [] kind = "pty" -> "pty.open"

-----------------------------------------------------------------------------
(***************************************************************************)
(* The destructors, of the interface that is the first of the bridge's     *)
(* vector.  They end with the file descriptor closed and the interface     *)
(* gone.                                                                   *)
(***************************************************************************)
First(p) == Head(interfaces[p])
FirstEntry(p, side) == files[<<First(p).uri.name, side>>]

Destructed(p) ==
  /\ Go(p, "exit")
  /\ interfaces' = [interfaces EXCEPT ![p] = Tail(@)]
  /\ UNCHANGED this

(***************************************************************************)
(* ~ExternalInterfaceSerial gives up exclusive access before it restores   *)
(* the settings.  Mutation: it restores nothing.                           *)
(***************************************************************************)
SerialRelease(p) ==
  /\ at[p] = "~serial.exclusive"
  /\ exclusive' = exclusive \ {First(p).uri.tty}
  /\ Step(p, "~serial.set")
  /\ UNCHANGED <<files, master, settings, opened, bound, shared>>

SerialKeep(p) ==
  /\ at[p] = "~serial.set"
  /\ opened' = [opened EXCEPT ![First(p).uri.tty] = @ \ {p}]
  /\ exclusive' = IF opened'[First(p).uri.tty] = {} THEN exclusive \ {First(p).uri.tty} ELSE exclusive
  /\ Destructed(p)
  /\ UNCHANGED <<files, master, settings, bound, shared>>

SerialRestore(p) ==
  /\ at[p] = "~serial.set"
  /\ settings' = [settings EXCEPT ![First(p).uri.tty] = First(p).oldtio]
  /\ opened' = [opened EXCEPT ![First(p).uri.tty] = @ \ {p}]
  /\ exclusive' = IF opened'[First(p).uri.tty] = {} THEN exclusive \ {First(p).uri.tty} ELSE exclusive
  /\ Destructed(p)
  /\ UNCHANGED <<files, master, bound, shared>>

(***************************************************************************)
(* ~ExternalInterfacePipe removes the pipes the constructor made.          *)
(***************************************************************************)
PipeUnlinkRx(p) ==
  /\ at[p] = "~rx"
  /\ files' = IF "rx" \in First(p).unlinks
              THEN [files EXCEPT ![<<First(p).uri.name, "rx">>] = Nothing] ELSE files
  /\ Step(p, "~tx")
  /\ UNCHANGED <<master, settings, opened, exclusive, bound, shared>>

PipeUnlinkTx(p) ==
  /\ at[p] = "~tx"
  /\ files' = IF "tx" \in First(p).unlinks
              THEN [files EXCEPT ![<<First(p).uri.name, "tx">>] = Nothing] ELSE files
  /\ Destructed(p)
  /\ UNCHANGED <<master, settings, opened, exclusive, bound, shared>>

(***************************************************************************)
(* cleanSymlink() of ~ExternalInterfacePty throws unless the symlink leads *)
(* to the own pseudo terminal, and a destructor that throws terminates.    *)
(* Mutation: it checks the symlink and leaves it.                          *)
(***************************************************************************)
PtyCheck(p) ==
  /\ at[p] = "~pty.check"
  /\ IF LeadsTo(FirstEntry(p, "link"), First(p).pts)
     THEN Step(p, "~pty.unlink") /\ UNCHANGED machine
     ELSE Dies(p, "terminated")

PtyForgetSymlink(p) ==
  /\ at[p] = "~pty.unlink"
  /\ master' = [master EXCEPT ![First(p).pts] = NoProgram]
  /\ Destructed(p)
  /\ UNCHANGED <<files, settings, opened, exclusive, bound, shared>>

PtyClean(p) ==
  /\ at[p] = "~pty.unlink"
  /\ IF FirstEntry(p, "link") = Nothing THEN Dies(p, "terminated")
     ELSE /\ files' = [files EXCEPT ![<<First(p).uri.name, "link">>] = Nothing]
          /\ master' = [master EXCEPT ![First(p).pts] = NoProgram]
          /\ Destructed(p)
          /\ UNCHANGED <<settings, opened, exclusive, bound, shared>>

(***************************************************************************)
(* ~Bridge takes the first of its vector; fpga, udp, can and tcp only      *)
(* close their file descriptor.                                            *)
(***************************************************************************)
DestructNext(p) ==
  LET uri == First(p).uri
  IN  /\ at[p] = "exit" /\ interfaces[p] # <<>>
      /\ CASE uri.kind = "serial" -> Step(p, "~serial.exclusive") /\ UNCHANGED machine
           [] uri.kind = "pipe" -> Step(p, "~rx") /\ UNCHANGED machine
           [] uri.kind = "pty" -> Step(p, "~pty.check") /\ UNCHANGED machine
           [] uri.kind = "udp" -> /\ bound' = [bound EXCEPT ![uri.in] = NoProgram]
                                  /\ Destructed(p)
                                  /\ UNCHANGED <<files, master, settings, opened, exclusive, shared>>
           [] OTHER -> Destructed(p) /\ UNCHANGED machine

Destruct(p) ==
  \/ DestructNext(p)
  \/ SerialRelease(p) \/ SerialRestore(p)
  \/ PipeUnlinkRx(p) \/ PipeUnlinkTx(p)
  \/ PtyCheck(p) \/ PtyClean(p)
=============================================================================
