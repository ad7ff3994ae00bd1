---------------------------- MODULE ProgramProofs ----------------------------
(***************************************************************************)
(* What holds for every set of programs, command lines, names, devices and *)
(* ports, and whatever files are there when the programs start.            *)
(***************************************************************************)
EXTENDS Program, TLAPS

LEMMA AppendFacts ==
  ASSUME NEW S, NEW s \in Seq(S), NEW e \in S
  PROVE  /\ Append(s, e) \in Seq(S) /\ Len(Append(s, e)) = Len(s) + 1 /\ Len(s) \in Nat
         /\ \A k \in 1 .. Len(s) : Append(s, e)[k] = s[k]
         /\ Append(s, e)[Len(s) + 1] = e
OBVIOUS

LEMMA TailFacts ==
  ASSUME NEW S, NEW s \in Seq(S), s # <<>>
  PROVE  /\ Head(s) = s[1] /\ s[1] \in S /\ Len(s) \in Nat /\ Len(s) >= 1
         /\ Tail(s) \in Seq(S) /\ Len(Tail(s)) = Len(s) - 1
         /\ \A k \in 1 .. Len(s) - 1 : Tail(s)[k] = s[k + 1]
OBVIOUS

AllPlaces == {"off", "options"} \cup Constructing \cup Looping \cup Destructing \cup Over

(***************************************************************************)
(* The part of the types that says where the programs are.                 *)
(***************************************************************************)
WhereInv ==
  /\ at \in [Programs -> AllPlaces]
  /\ this \in [Programs -> Interfaces]
  /\ interfaces \in [Programs -> Seq(Interfaces)]
  /\ \A p \in Programs : \A k \in 1 .. Len(interfaces[p]) : IsConstructed(interfaces[p][k])
  /\ PlacesInv

(***************************************************************************)
(* A program moves, with the interface it makes and those it owns.         *)
(***************************************************************************)
LEMMA Moves ==
  ASSUME WhereInv, NEW p \in Programs, NEW place \in AllPlaces, NEW i \in Interfaces,
         NEW owned \in Seq(Interfaces), \A k \in 1 .. Len(owned) : IsConstructed(owned[k]),
         PlaceInv(place, i, owned),
         at' = [at EXCEPT ![p] = place],
         this' = [this EXCEPT ![p] = i],
         interfaces' = [interfaces EXCEPT ![p] = owned]
  PROVE  WhereInv'
<1>1. at' \in [Programs -> AllPlaces] /\ this' \in [Programs -> Interfaces]
      /\ interfaces' \in [Programs -> Seq(Interfaces)]
  BY DEF WhereInv
<1>2. ASSUME NEW q \in Programs
      PROVE  /\ \A k \in 1 .. Len(interfaces'[q]) : IsConstructed(interfaces'[q][k])
             /\ PlaceInv(at'[q], this'[q], interfaces'[q])
  <2>1. CASE q = p
    BY <2>1 DEF WhereInv
  <2>2. CASE q # p
    <3>1. at'[q] = at[q] /\ this'[q] = this[q] /\ interfaces'[q] = interfaces[q]
      BY <2>2 DEF WhereInv
    <3> QED BY <3>1 DEF WhereInv, PlacesInv
  <2> QED BY <2>1, <2>2
<1>3. PlacesInv'
  BY <1>2 DEF PlacesInv
<1> QED BY <1>1, <1>2, <1>3 DEF WhereInv

LEMMA StepMoves ==
  ASSUME WhereInv, NEW p \in Programs, NEW place \in AllPlaces, Step(p, place),
         PlaceInv(place, this[p], interfaces[p])
  PROVE  WhereInv'
<1>1. this' = [this EXCEPT ![p] = this[p]] /\ interfaces' = [interfaces EXCEPT ![p] = interfaces[p]]
  BY DEF Step, WhereInv
<1>2. this[p] \in Interfaces /\ interfaces[p] \in Seq(Interfaces)
      /\ \A k \in 1 .. Len(interfaces[p]) : IsConstructed(interfaces[p][k])
  BY DEF WhereInv
<1>3. at' = [at EXCEPT ![p] = place]
  BY DEF Step, Go
<1> QED BY <1>1, <1>2, <1>3, Moves

LEMMA ThisMoves ==
  ASSUME WhereInv, NEW p \in Programs, NEW place \in AllPlaces, NEW i \in Interfaces,
         Go(p, place), this' = [this EXCEPT ![p] = i], UNCHANGED interfaces,
         PlaceInv(place, i, interfaces[p])
  PROVE  WhereInv'
<1>1. interfaces' = [interfaces EXCEPT ![p] = interfaces[p]]
  BY DEF WhereInv
<1>2. interfaces[p] \in Seq(Interfaces)
      /\ \A k \in 1 .. Len(interfaces[p]) : IsConstructed(interfaces[p][k])
  BY DEF WhereInv
<1> QED BY <1>1, <1>2, Moves DEF Go

LEMMA ConstructedMoves ==
  ASSUME WhereInv, NEW p \in Programs, Constructed(p, this[p]), IsConstructed(this[p])
  PROVE  WhereInv'
<1> DEFINE owned == Append(interfaces[p], this[p])
<1>1. this' = [this EXCEPT ![p] = this[p]] /\ interfaces' = [interfaces EXCEPT ![p] = owned]
      /\ at' = [at EXCEPT ![p] = "options"]
  BY DEF Constructed, WhereInv, Go
<1>2. this[p] \in Interfaces /\ interfaces[p] \in Seq(Interfaces)
  BY DEF WhereInv
<1>3. owned \in Seq(Interfaces) /\ \A k \in 1 .. Len(owned) : IsConstructed(owned[k])
  <2>1. ASSUME NEW k \in 1 .. Len(owned) PROVE IsConstructed(owned[k])
    <3>1. k \in 1 .. Len(interfaces[p]) \/ k = Len(interfaces[p]) + 1
      BY <1>2, AppendFacts
    <3> QED BY <3>1, <1>2, AppendFacts DEF WhereInv
  <2> QED BY <2>1, <1>2, AppendFacts
<1>4. PlaceInv("options", this[p], owned)
  BY DEF PlaceInv, Places, Destructing
<1>5. "options" \in AllPlaces
  BY DEF AllPlaces
<1> QED BY <1>1, <1>2, <1>3, <1>4, <1>5, Moves

LEMMA DestructedMoves ==
  ASSUME WhereInv, NEW p \in Programs, Destructed(p), interfaces[p] # <<>>
  PROVE  WhereInv'
<1> DEFINE owned == Tail(interfaces[p])
<1>1. this' = [this EXCEPT ![p] = this[p]] /\ interfaces' = [interfaces EXCEPT ![p] = owned]
      /\ at' = [at EXCEPT ![p] = "exit"]
  BY DEF Destructed, WhereInv, Go
<1>2. this[p] \in Interfaces /\ interfaces[p] \in Seq(Interfaces)
  BY DEF WhereInv
<1>3. owned \in Seq(Interfaces) /\ \A k \in 1 .. Len(owned) : IsConstructed(owned[k])
  <2>1. ASSUME NEW k \in 1 .. Len(owned) PROVE IsConstructed(owned[k])
    <3>1. k + 1 \in 1 .. Len(interfaces[p]) /\ owned[k] = interfaces[p][k + 1]
      BY <1>2, TailFacts
    <3> QED BY <3>1 DEF WhereInv
  <2> QED BY <2>1, <1>2, TailFacts
<1>4. PlaceInv("exit", this[p], owned)
  BY DEF PlaceInv, Places, Destructing
<1>5. "exit" \in AllPlaces
  BY DEF AllPlaces, Destructing
<1> QED BY <1>1, <1>2, <1>3, <1>4, <1>5, Moves

LEMMA DiesMoves ==
  ASSUME WhereInv, NEW p \in Programs, NEW how \in Over, Dies(p, how)
  PROVE  WhereInv'
<1>1. this' = [this EXCEPT ![p] = this[p]] /\ interfaces' = [interfaces EXCEPT ![p] = <<>>]
      /\ at' = [at EXCEPT ![p] = how]
  BY DEF Dies, WhereInv, Go
<1>2. this[p] \in Interfaces /\ <<>> \in Seq(Interfaces) /\ \A k \in 1 .. Len(<<>>) : IsConstructed(<<>>[k])
  BY DEF WhereInv
<1>3. PlaceInv(how, this[p], <<>>)
  BY DEF PlaceInv, Places, Destructing, Over
<1>4. how \in AllPlaces
  BY DEF AllPlaces
<1> QED BY <1>1, <1>2, <1>3, <1>4, Moves

(***************************************************************************)
(* What the places tell about the interface a program constructs.          *)
(***************************************************************************)
LEMMA WhereFacts ==
  ASSUME WhereInv, NEW p \in Programs
  PROVE  /\ this[p] \in Interfaces /\ this[p].uri \in Uris
         /\ interfaces[p] \in Seq(Interfaces)
         /\ PlaceInv(at[p], this[p], interfaces[p])
BY DEF WhereInv, PlacesInv, Interfaces

LEMMA ThrowsMoves ==
  ASSUME WhereInv, NEW p \in Programs, Throws(p)
  PROVE  WhereInv'
BY DiesMoves DEF Throws, Over

(***************************************************************************)
(* The next place of a constructor, of the same kind of interface.         *)
(***************************************************************************)
LEMMA SamePlaces ==
  ASSUME NEW place, NEW kind \in DOMAIN Places, place \in Places[kind], NEW i, NEW owned, i.uri.kind = kind,
         place \in {"serial.exclusive", "serial.set"} => i.oldtio # "unset",
         place \in {"pty.lstat", "pty.stat", "pty.unlink", "pty.symlink"} => i.pts # 0
  PROVE  PlaceInv(place, i, owned) /\ place \in AllPlaces
BY DEF PlaceInv, Places, Destructing, AllPlaces, Constructing

LEMMA SerialWhere ==
  ASSUME ProgramTypeOK, WhereInv, NEW p \in Programs,
         SerialOpen(p) \/ SerialGet(p) \/ SerialExclusive(p) \/ SerialSet(p)
  PROVE  WhereInv'
<1>1. CASE SerialOpen(p)
  <2>1. Kind(p) = "serial"
    BY <1>1, WhereFacts DEF SerialOpen, PlaceInv, Places, Kind
  <2>2. PlaceInv("serial.get", this[p], interfaces[p]) /\ "serial.get" \in AllPlaces
    BY <2>1, SamePlaces DEF Places, Kind
  <2> QED BY <1>1, <2>2, ThrowsMoves, StepMoves DEF SerialOpen
<1>2. CASE SerialGet(p)
  <2> DEFINE i == [this[p] EXCEPT !.oldtio = settings[Tty(p)]]
  <2>1. Kind(p) = "serial" /\ this[p] \in Interfaces /\ this[p].uri \in Uris
    BY <1>2, WhereFacts DEF SerialGet, PlaceInv, Places, Kind
  <2>2. settings[Tty(p)] \in {"original", "raw"}
    BY <2>1, DevicesAssumption DEF ProgramTypeOK, Tty, Kind
  <2>3. i \in Interfaces /\ i.uri.kind = "serial" /\ i.oldtio # "unset"
    BY <2>1, <2>2 DEF Interfaces, Kind
  <2>4. PlaceInv("serial.exclusive", i, interfaces[p]) /\ "serial.exclusive" \in AllPlaces
    BY <2>3, SamePlaces DEF Places
  <2>5. this' = [this EXCEPT ![p] = i]
    BY <1>2 DEF SerialGet
  <2> QED BY <1>2, <2>3, <2>4, <2>5, ThisMoves DEF SerialGet
<1>3. CASE SerialExclusive(p)
  <2>1. Kind(p) = "serial" /\ this[p].oldtio # "unset"
    BY <1>3, WhereFacts DEF SerialExclusive, PlaceInv, Places, Kind
  <2>2. PlaceInv("serial.set", this[p], interfaces[p]) /\ "serial.set" \in AllPlaces
    BY <2>1, SamePlaces DEF Places, Kind
  <2> QED BY <1>3, <2>2, StepMoves DEF SerialExclusive
<1>4. CASE SerialSet(p)
  <2>1. IsConstructed(this[p])
    BY <1>4, WhereFacts DEF SerialSet, PlaceInv, Places, IsConstructed
  <2> QED BY <1>4, <2>1, ConstructedMoves DEF SerialSet
<1> QED BY <1>1, <1>2, <1>3, <1>4

LEMMA SimpleWhere ==
  ASSUME WhereInv, NEW p \in Programs, FpgaOpen(p) \/ UdpBind(p) \/ CanOpen(p) \/ TcpConnect(p)
  PROVE  WhereInv'
<1>1. Throws(p) \/ Constructed(p, this[p])
  BY DEF FpgaOpen, UdpBind, CanOpen, TcpConnect
<1>2. at[p] \in {"fpga.open", "udp.bind", "can.open", "tcp.connect"}
  BY DEF FpgaOpen, UdpBind, CanOpen, TcpConnect
<1>3. IsConstructed(this[p])
  BY <1>2, WhereFacts DEF PlaceInv, Places, IsConstructed
<1> QED BY <1>1, <1>3, ThrowsMoves, ConstructedMoves

LEMMA PipeWhere ==
  ASSUME WhereInv, NEW p \in Programs, NEW side \in Sides,
         PipeOpen(p, side) \/ PipeMkfifo(p, side) \/ PipeReopen(p, side)
  PROVE  WhereInv'
<1>1. at[p] \in Places.pipe
  BY DEF PipeOpen, PipeMkfifo, PipeReopen, OpenAt, MkfifoAt, ReopenAt, Sides, Places
<1>2. Kind(p) = "pipe" /\ this[p] \in Interfaces
  BY <1>1, WhereFacts DEF PlaceInv, Places, Kind
<1>3. ASSUME NEW place \in Places.pipe, NEW i, i.uri.kind = "pipe"
      PROVE  PlaceInv(place, i, interfaces[p]) /\ place \in AllPlaces
  BY <1>3, SamePlaces DEF Places
<1>4. IsConstructed(this[p])
  BY <1>2 DEF IsConstructed, Kind
<1>5. ASSUME PipeOpened(p, side) PROVE WhereInv'
  BY <1>5, <1>2, <1>3, <1>4, ThrowsMoves, StepMoves, ConstructedMoves DEF PipeOpened, Places, Kind
<1>6. CASE PipeOpen(p, side)
  <2>1. MkfifoAt[side] \in Places.pipe
    BY DEF MkfifoAt, Places, Sides
  <2> QED BY <1>6, <1>2, <1>3, <1>5, <2>1, StepMoves DEF PipeOpen, Kind
<1>7. CASE PipeMkfifo(p, side)
  <2> DEFINE i == [this[p] EXCEPT !.unlinks = @ \cup {side}]
  <2>1. i \in Interfaces /\ i.uri.kind = "pipe"
    BY <1>2 DEF Interfaces, Kind
  <2>2. ReopenAt[side] \in Places.pipe
    BY DEF ReopenAt, Places, Sides
  <2>3. CASE Throws(p)
    BY <2>3, ThrowsMoves
  <2>4. CASE /\ this' = [this EXCEPT ![p].unlinks = @ \cup {side}]
             /\ Go(p, ReopenAt[side]) /\ UNCHANGED interfaces
    <3>1. this' = [this EXCEPT ![p] = i]
      BY <2>4
    <3> QED BY <2>4, <3>1, <1>3, <2>1, <2>2, ThisMoves
  <2> QED BY <1>7, <2>3, <2>4 DEF PipeMkfifo
<1>8. CASE PipeReopen(p, side)
  BY <1>8, <1>5, ThrowsMoves DEF PipeReopen
<1> QED BY <1>6, <1>7, <1>8

LEMMA PtyWhere ==
  ASSUME WhereInv, NEW p \in Programs,
         PtyOpen(p) \/ PtyLstat(p) \/ PtyStat(p) \/ PtyUnlink(p) \/ PtySymlink(p)
  PROVE  WhereInv'
<1>1. at[p] \in Places.pty
  BY DEF PtyOpen, PtyLstat, PtyStat, PtyUnlink, PtySymlink, Places
<1>2. Kind(p) = "pty" /\ this[p] \in Interfaces
  BY <1>1, WhereFacts DEF PlaceInv, Places, Kind
<1>3. ASSUME NEW place \in {"pty.lstat", "pty.stat", "pty.unlink", "pty.symlink"},
             NEW i, i.uri.kind = "pty", i.pts # 0
      PROVE  PlaceInv(place, i, interfaces[p]) /\ place \in AllPlaces
  BY <1>3, SamePlaces DEF Places
<1>4. CASE PtyOpen(p)
  <2>1. PICK k \in Pts : this' = [this EXCEPT ![p].pts = k]
    BY <1>4 DEF PtyOpen
  <2> DEFINE i == [this[p] EXCEPT !.pts = k]
  <2>2. i \in Interfaces /\ i.uri.kind = "pty" /\ i.pts # 0
    BY <1>2, DevicesAssumption DEF Interfaces, Kind
  <2>3. this' = [this EXCEPT ![p] = i]
    BY <2>1
  <2> QED BY <1>4, <1>3, <2>2, <2>3, ThisMoves DEF PtyOpen
<1>5. CASE at[p] # "pty.open"
  <2>1. this[p].pts # 0
    BY <1>1, <1>5, WhereFacts DEF PlaceInv, Places
  <2>2. IsConstructed(this[p])
    BY <1>2, <2>1 DEF IsConstructed, Kind
  <2>3. \/ Throws(p)
        \/ \E place \in {"pty.lstat", "pty.stat", "pty.unlink", "pty.symlink"} : Step(p, place)
        \/ Constructed(p, this[p])
    BY <1>5 DEF PtyOpen, PtyLstat, PtyStat, PtyUnlink, PtySymlink
  <2> QED BY <1>2, <1>3, <2>1, <2>2, <2>3, ThrowsMoves, StepMoves, ConstructedMoves DEF Kind
<1> QED BY <1>4, <1>5 DEF PtyLstat, PtyStat, PtyUnlink, PtySymlink

LEMMA ConstructWhere ==
  ASSUME ProgramTypeOK, WhereInv, NEW p \in Programs, Construct(p)
  PROVE  WhereInv'
BY SerialWhere, SimpleWhere, PipeWhere, PtyWhere DEF Construct

LEMMA DestructWhere ==
  ASSUME WhereInv, NEW p \in Programs, Destruct(p)
  PROVE  WhereInv'
<1>1. interfaces[p] # <<>> /\ interfaces[p] \in Seq(Interfaces)
  BY WhereFacts DEF Destruct, DestructNext, SerialRelease, SerialRestore, PipeUnlinkRx, PipeUnlinkTx,
                    PtyCheck, PtyClean, PlaceInv, Destructing
<1>2. ASSUME Destructed(p) PROVE WhereInv'
  BY <1>1, <1>2, DestructedMoves
<1>3. ASSUME NEW place \in Destructing, Step(p, place),
             place \in {"~serial.exclusive", "~serial.set"} => First(p).uri.kind = "serial",
             place \in {"~rx", "~tx"} => First(p).uri.kind = "pipe",
             place \in {"~pty.check", "~pty.unlink"} => First(p).uri.kind = "pty"
      PROVE  WhereInv'
  <2>1. PlaceInv(place, this[p], interfaces[p]) /\ place \in AllPlaces
    BY <1>1, <1>3 DEF PlaceInv, Places, Destructing, AllPlaces, First
  <2> QED BY <1>3, <2>1, StepMoves
<1>4. CASE DestructNext(p)
  <2>1. \/ First(p).uri.kind = "serial" /\ Step(p, "~serial.exclusive")
        \/ First(p).uri.kind = "pipe" /\ Step(p, "~rx")
        \/ First(p).uri.kind = "pty" /\ Step(p, "~pty.check")
        \/ Destructed(p)
    BY <1>4 DEF DestructNext
  <2> QED BY <1>2, <1>3, <2>1 DEF Destructing
<1>5. CASE SerialRelease(p) \/ SerialRestore(p)
  <2>1. First(p).uri.kind = "serial"
    BY <1>5, WhereFacts DEF SerialRelease, SerialRestore, PlaceInv, First
  <2> QED BY <1>2, <1>3, <1>5, <2>1 DEF SerialRelease, SerialRestore, Destructing
<1>6. CASE PipeUnlinkRx(p) \/ PipeUnlinkTx(p)
  <2>1. First(p).uri.kind = "pipe"
    BY <1>6, WhereFacts DEF PipeUnlinkRx, PipeUnlinkTx, PlaceInv, First
  <2> QED BY <1>2, <1>3, <1>6, <2>1 DEF PipeUnlinkRx, PipeUnlinkTx, Destructing
<1>7. CASE PtyCheck(p) \/ PtyClean(p)
  <2>1. First(p).uri.kind = "pty"
    BY <1>7, WhereFacts DEF PtyCheck, PtyClean, PlaceInv, First
  <2>2. ASSUME Dies(p, "terminated") PROVE WhereInv'
    BY <2>2, DiesMoves DEF Over
  <2> QED BY <1>2, <1>3, <1>7, <2>1, <2>2 DEF PtyCheck, PtyClean, Destructing
<1> QED BY <1>4, <1>5, <1>6, <1>7 DEF Destruct

(***************************************************************************)
(* The main program: its options, its loop and its end.                    *)
(***************************************************************************)
LEMMA OptionWhere ==
  ASSUME ProgramTypeOK, WhereInv, NEW p \in Programs, NextOption(p)
  PROVE  WhereInv'
<1> DEFINE o == Head(options[p])
<1>1. o \in Options
  BY TailFacts DEF NextOption, ProgramTypeOK
<1>2. CASE o.kind = "other"
  BY <1>2 DEF NextOption, WhereInv, PlacesInv
<1>3. CASE o.kind = "help"
  <2>1. PlaceInv("exit", this[p], interfaces[p]) /\ "exit" \in AllPlaces
    BY DEF PlaceInv, Places, Destructing, AllPlaces
  <2> QED BY <1>3, <2>1, StepMoves DEF NextOption
<1>4. CASE o.kind = "unmatched"
  BY <1>4, ThrowsMoves DEF NextOption
<1>5. CASE o.kind \notin {"other", "help", "unmatched"}
  <2>1. o \in Uris
    BY <1>1, <1>5 DEF Options
  <2>2. o.kind \in {"serial", "fpga", "udp", "can", "tcp", "pipe", "pty"}
    BY <2>1, DevicesAssumption
  <2>3. Interface(o) \in Interfaces /\ Interface(o).uri.kind = o.kind
    BY <2>1 DEF Interface, Interfaces
  <2>4. /\ FirstStep(o.kind) \in Places[o.kind] /\ o.kind \in DOMAIN Places
        /\ FirstStep(o.kind) \notin {"serial.exclusive", "serial.set", "pty.lstat", "pty.stat", "pty.unlink", "pty.symlink"}
    BY <2>2 DEF FirstStep, Places
  <2>5. PlaceInv(FirstStep(o.kind), Interface(o), interfaces[p]) /\ FirstStep(o.kind) \in AllPlaces
    BY <2>3, <2>4, SamePlaces
  <2>6. /\ this' = [this EXCEPT ![p] = Interface(o)]
        /\ Go(p, FirstStep(o.kind)) /\ UNCHANGED interfaces
    BY <1>5 DEF NextOption
  <2> QED BY <2>3, <2>5, <2>6, ThisMoves
<1> QED BY <1>2, <1>3, <1>4, <1>5

LEMMA LoopWhere ==
  ASSUME WhereInv, NEW p \in Programs, NEW place \in Looping \cup {"options", "exit", "ended"}, Step(p, place)
  PROVE  WhereInv'
<1>1. PlaceInv(place, this[p], interfaces[p]) /\ place \in AllPlaces
  BY DEF PlaceInv, Places, Destructing, AllPlaces, Looping, Over
<1> QED BY <1>1, StepMoves

LEMMA ProgramWhere ==
  ASSUME ProgramTypeOK, WhereInv, [Next]_vars
  PROVE  WhereInv'
<1>1. CASE UNCHANGED vars
  BY <1>1 DEF vars, WhereInv, PlacesInv
<1>2. ASSUME NEW p \in Programs, Runs(p) PROVE WhereInv'
  <2>1. CASE NextOption(p)
    BY <2>1, OptionWhere
  <2>2. CASE EnterLoop(p) \/ Loop(p) \/ Select(p) \/ Getline(p) \/ Ended(p)
    BY <2>2, LoopWhere DEF EnterLoop, Loop, Select, Getline, Ended, Looping
  <2>3. CASE Construct(p) \/ Destruct(p)
    BY <2>3, ConstructWhere, DestructWhere
  <2> QED BY <1>2, <2>1, <2>2, <2>3 DEF Runs
<1>3. ASSUME NEW p \in Programs, ConstructorFails(p) \/ ProcessFails(p) \/ Killed(p) PROVE WhereInv'
  BY <1>3, ThrowsMoves, DiesMoves DEF ConstructorFails, ProcessFails, Killed, Over
<1>4. ASSUME NEW p \in Programs, NEW line, Start(p, line) PROVE WhereInv'
  <2>1. Step(p, "options")
    BY <1>4 DEF Start, Step
  <2> QED BY <2>1, LoopWhere
<1>5. ASSUME NEW p \in Programs, NEW line, Types(p, line) \/ Sigint(p) PROVE WhereInv'
  BY <1>5 DEF Types, Sigint, WhereInv, PlacesInv
<1>6. ASSUME NEW p \in Programs, SigintInSelect(p) PROVE WhereInv'
  BY <1>6, LoopWhere DEF SigintInSelect, Looping
<1> QED BY <1>1, <1>2, <1>3, <1>4, <1>5, <1>6 DEF Next

-----------------------------------------------------------------------------
(***************************************************************************)
(* The types of the machine and of what the users type.                    *)
(***************************************************************************)
MachineOK ==
  /\ files \in [Names \X {"rx", "tx", "link"} -> Entries]
  /\ master \in [Pts -> Programs \cup {NoProgram}]
  /\ settings \in [Ttys -> {"original", "raw"}]
  /\ opened \in [Ttys -> SUBSET Programs]
  /\ exclusive \subseteq Ttys /\ shared \subseteq Ttys
  /\ bound \in [Ports -> Programs \cup {NoProgram}]

InputsOK ==
  /\ options \in [Programs -> Seq(Options)]
  /\ stop \in [Programs -> BOOLEAN]
  /\ terminal \in [Programs -> Seq({"q", "other"})]
  /\ buffer \in [Programs -> Seq({"q", "other"})]
  /\ typed \in 0 .. MaxLines

LEMMA DiesMachine ==
  ASSUME MachineOK, NEW p \in Programs, NEW how, Dies(p, how)
  PROVE  MachineOK'
BY DEF MachineOK, Dies, SystemCloses

LEMMA ConstructMachine ==
  ASSUME MachineOK, WhereInv, NEW p \in Programs, Construct(p)
  PROVE  MachineOK'
<1>0. ASSUME Throws(p) PROVE MachineOK'
  BY <1>0, DiesMachine DEF Throws
<1>1. CASE SerialOpen(p) \/ SerialExclusive(p) \/ SerialSet(p)
  <2>1. Tty(p) \in Ttys
    BY <1>1, WhereFacts, DevicesAssumption
       DEF SerialOpen, SerialExclusive, SerialSet, PlaceInv, Places, Tty
  <2> QED BY <1>0, <1>1, <2>1 DEF SerialOpen, SerialExclusive, SerialSet, MachineOK
<1>2. CASE SerialGet(p) \/ FpgaOpen(p) \/ CanOpen(p) \/ TcpConnect(p)
  BY <1>0, <1>2 DEF SerialGet, FpgaOpen, CanOpen, TcpConnect, MachineOK, machine
<1>3. CASE UdpBind(p)
  BY <1>0, <1>3 DEF UdpBind, MachineOK, machine
<1>4. ASSUME NEW side \in Sides, PipeOpen(p, side) \/ PipeReopen(p, side) PROVE MachineOK'
  BY <1>0, <1>4 DEF PipeOpen, PipeReopen, PipeOpened, MachineOK, machine
<1>5. ASSUME NEW side \in Sides, PipeMkfifo(p, side) PROVE MachineOK'
  <2>1. Fifo(p) \in Entries
    BY DEF Entries
  <2> QED BY <1>0, <1>5, <2>1 DEF PipeMkfifo, MachineOK
<1>6. CASE PtyOpen(p) \/ PtyLstat(p) \/ PtyStat(p)
  BY <1>0, <1>6 DEF PtyOpen, PtyLstat, PtyStat, MachineOK, machine
<1>7. CASE PtyUnlink(p)
  <2>1. Nothing \in Entries
    BY DEF Entries
  <2> QED BY <1>0, <1>7, <2>1 DEF PtyUnlink, MachineOK
<1>8. CASE PtySymlink(p)
  <2>1. this[p].pts \in Pts
    BY <1>8, WhereFacts DEF PtySymlink, PlaceInv, Interfaces
  <2>2. Link(p, this[p].pts) \in Entries
    BY <2>1 DEF Entries
  <2> QED BY <1>0, <1>8, <2>2 DEF PtySymlink, MachineOK
<1> QED BY <1>1, <1>2, <1>3, <1>4, <1>5, <1>6, <1>7, <1>8 DEF Construct

LEMMA DestructMachine ==
  ASSUME MachineOK, WhereInv, NEW p \in Programs, Destruct(p)
  PROVE  MachineOK'
<1>0. Nothing \in Entries
  BY DEF Entries
<1>1. CASE DestructNext(p)
  BY <1>1 DEF DestructNext, MachineOK, machine
<1>2. CASE SerialRelease(p)
  BY <1>2 DEF SerialRelease, MachineOK
<1>3. CASE SerialRestore(p)
  <2>1. First(p).oldtio \in {"original", "raw"}
    <3>1. interfaces[p] # <<>> /\ interfaces[p] \in Seq(Interfaces) /\ First(p).uri.kind = "serial"
      BY <1>3, WhereFacts DEF SerialRestore, PlaceInv, First, Destructing
    <3>2. First(p) = interfaces[p][1] /\ 1 \in 1 .. Len(interfaces[p])
      BY <3>1, TailFacts DEF First
    <3>3. IsConstructed(First(p))
      BY <3>2 DEF WhereInv
    <3> QED BY <3>1, <3>3 DEF IsConstructed, Interfaces
  <2>2. settings' \in [Ttys -> {"original", "raw"}]
    BY <1>3, <2>1 DEF SerialRestore, MachineOK
  <2>3. opened' \in [Ttys -> SUBSET Programs] /\ exclusive' \subseteq Ttys
    BY <1>3 DEF SerialRestore, MachineOK
  <2> QED BY <1>3, <2>2, <2>3 DEF SerialRestore, MachineOK
<1>4. CASE PipeUnlinkRx(p) \/ PipeUnlinkTx(p)
  BY <1>0, <1>4 DEF PipeUnlinkRx, PipeUnlinkTx, MachineOK
<1>5. CASE PtyCheck(p)
  BY <1>5, DiesMachine DEF PtyCheck, MachineOK, machine
<1>6. CASE PtyClean(p)
  BY <1>0, <1>6, DiesMachine DEF PtyClean, MachineOK
<1> QED BY <1>1, <1>2, <1>3, <1>4, <1>5, <1>6 DEF Destruct

LEMMA NextMachine ==
  ASSUME MachineOK, WhereInv, [Next]_vars
  PROVE  MachineOK'
<1>1. CASE UNCHANGED machine
  BY <1>1 DEF machine, MachineOK
<1>2. ASSUME NEW p \in Programs, NEW how, Dies(p, how) PROVE MachineOK'
  BY <1>2, DiesMachine
<1>3. ASSUME NEW p \in Programs, Runs(p) PROVE MachineOK'
  BY <1>1, <1>2, <1>3, ConstructMachine, DestructMachine
     DEF Runs, NextOption, EnterLoop, Loop, Select, Getline, Ended, Throws
<1>4. ASSUME NEW p \in Programs, ConstructorFails(p) \/ ProcessFails(p) \/ Killed(p) PROVE MachineOK'
  BY <1>2, <1>4 DEF ConstructorFails, ProcessFails, Killed, Throws
<1>5. ASSUME NEW p \in Programs, NEW line, Start(p, line) \/ Types(p, line) \/ Sigint(p) \/ SigintInSelect(p)
      PROVE  MachineOK'
  BY <1>1, <1>5 DEF Start, Types, Sigint, SigintInSelect
<1> QED BY <1>1, <1>3, <1>4, <1>5 DEF Next, vars

LEMMA NextInputs ==
  ASSUME InputsOK, [Next]_vars
  PROVE  InputsOK'
<1>1. CASE UNCHANGED <<options, inputs>>
  BY <1>1 DEF inputs, InputsOK
<1>2. ASSUME NEW p \in Programs, NextOption(p) PROVE InputsOK'
  BY <1>2, TailFacts DEF NextOption, InputsOK, inputs
<1>3. ASSUME NEW p \in Programs, Getline(p) PROVE InputsOK'
  <2> DEFINE S == {"q", "other"}
  <2>1. Delivered(p) \in Seq(S) /\ Delivered(p) # <<>>
    <3>1. buffer[p] \in Seq(S) /\ terminal[p] \in Seq(S)
      BY DEF InputsOK
    <3>2. terminal[p] # <<>> => <<Head(terminal[p])>> \in Seq(S)
      BY <3>1, TailFacts
    <3> QED BY <1>3, <3>1, <3>2 DEF Getline, Delivered
  <2>2. Head(Delivered(p)) \in S /\ Tail(Delivered(p)) \in Seq(S)
    BY <2>1, TailFacts
  <2>3. SubSeq(terminal[p], Len(Delivered(p)) + 1, Len(terminal[p])) \in Seq(S)
    <3>1. terminal[p] \in Seq(S) /\ Len(Delivered(p)) \in Nat
      BY <2>1 DEF InputsOK
    <3> QED BY <3>1
  <2>4. /\ stop' = [stop EXCEPT ![p] = @ \/ Head(Delivered(p)) = "q"]
        /\ buffer' = [buffer EXCEPT ![p] = Tail(Delivered(p))]
        /\ \/ terminal' = terminal
           \/ terminal' = [terminal EXCEPT ![p] = SubSeq(@, Len(Delivered(p)) + 1, Len(@))]
        /\ UNCHANGED <<options, typed>>
    BY <1>3 DEF Getline
  <2>5. stop' \in [Programs -> BOOLEAN]
    BY <2>4, Zenon DEF InputsOK
  <2>6. buffer' \in [Programs -> Seq(S)] /\ terminal' \in [Programs -> Seq(S)]
    BY <2>2, <2>3, <2>4 DEF InputsOK
  <2> QED BY <2>4, <2>5, <2>6 DEF InputsOK
<1>4. ASSUME NEW p \in Programs, NEW line \in CommandLines, Start(p, line) PROVE InputsOK'
  BY <1>4, ProgramAssumption DEF Start, InputsOK, inputs
<1>5. ASSUME NEW p \in Programs, NEW line \in {"q", "other"}, Types(p, line) PROVE InputsOK'
  <2>1. typed' \in 0 .. MaxLines
    BY <1>5, ProgramAssumption DEF Types, InputsOK
  <2>2. terminal' \in [Programs -> Seq({"q", "other"})]
    BY <1>5, AppendFacts DEF Types, InputsOK
  <2> QED BY <1>5, <2>1, <2>2 DEF Types, InputsOK
<1>6. ASSUME NEW p \in Programs, Sigint(p) \/ SigintInSelect(p) PROVE InputsOK'
  BY <1>6 DEF Sigint, SigintInSelect, InputsOK
<1>7. ASSUME NEW p \in Programs, Runs(p) PROVE InputsOK'
  BY <1>1, <1>2, <1>3, <1>7 DEF Runs, EnterLoop, Loop, Select, Ended
<1>8. ASSUME NEW p \in Programs, ProcessFails(p) \/ Killed(p) PROVE UNCHANGED <<options, inputs>>
  BY <1>8 DEF ProcessFails, Killed
<1>9. ASSUME UNCHANGED vars PROVE UNCHANGED <<options, inputs>>
  BY <1>9 DEF vars
<1> QED BY <1>1, <1>4, <1>5, <1>6, <1>7, <1>8, <1>9 DEF Next

-----------------------------------------------------------------------------
TypeInv == ProgramTypeOK /\ PlacesInv

LEMMA TypeParts == TypeInv <=> WhereInv /\ MachineOK /\ InputsOK
BY DEF TypeInv, ProgramTypeOK, WhereInv, MachineOK, InputsOK, AllPlaces

LEMMA InitTypes == Init => TypeInv
<1> SUFFICES ASSUME Init PROVE TypeInv
  OBVIOUS
<1>1. PICK uri \in Uris : this = [p \in Programs |-> Interface(uri)]
  BY DevicesAssumption DEF Init
<1>2. Interface(uri) \in Interfaces
  BY DEF Interface, Interfaces
<1>3. PlacesInv
  <2>1. \A p \in Programs : at[p] = "off"
    BY DEF Init
  <2>2. \A i, owned : PlaceInv("off", i, owned)
    BY DEF PlaceInv, Places, Destructing
  <2> QED BY <2>1, <2>2 DEF PlacesInv
<1>4. WhereInv
  BY <1>1, <1>2, <1>3 DEF Init, WhereInv, AllPlaces
<1>5. MachineOK
  BY ProgramAssumption DEF Init, MachineOK
<1>6. InputsOK
  BY ProgramAssumption DEF Init, InputsOK
<1> QED BY <1>4, <1>5, <1>6, TypeParts

LEMMA NextTypes == TypeInv /\ [Next]_vars => TypeInv'
<1> SUFFICES ASSUME TypeInv, [Next]_vars PROVE TypeInv'
  OBVIOUS
<1>1. WhereInv'
  BY TypeParts, ProgramWhere DEF TypeInv
<1>2. MachineOK'
  BY TypeParts, NextMachine
<1>3. InputsOK'
  BY TypeParts, NextInputs
<1> QED BY <1>1, <1>2, <1>3 DEF TypeInv, ProgramTypeOK, WhereInv, MachineOK, InputsOK, AllPlaces

(***************************************************************************)
(* The state of programs and machine keeps its types, and whatever the     *)
(* interleaving, a destructor finds what it needs: the interface it is for,*)
(* of its own kind, and constructed to the end (the saved settings of a    *)
(* serial device, the number of a pseudo terminal).                        *)
(***************************************************************************)
THEOREM ProgramTypesCorrect == Spec => [](ProgramTypeOK /\ PlacesInv)
<1>1. Spec => []TypeInv
  BY InitTypes, NextTypes, PTL DEF Spec
<1> QED BY <1>1, PTL DEF TypeInv

-----------------------------------------------------------------------------
LEMMA EntryFacts ==
  /\ \A p : Fifo(p).type = "fifo" /\ Fifo(p).maker = p
  /\ Nothing.type = "nothing" /\ \A p, k : Link(p, k).type = "link" /\ Link(p, k).maker = p /\ Link(p, k).to = k
BY DEF Fifo, Nothing, Link

(***************************************************************************)
(* What a step of p may do to the files: fill a place that has no fifo, or *)
(* remove a fifo it made.                                                  *)
(***************************************************************************)
ChangesOf(p) ==
  \A x \in Names, side \in {"rx", "tx", "link"} :
    \/ files'[<<x, side>>] = files[<<x, side>>]
    \/ files[<<x, side>>].type # "fifo" /\ (side = "link" => files'[<<x, side>>].type # "fifo")
    \/ files[<<x, side>>] = Fifo(p) /\ at[p] \in {"~rx", "~tx"} /\ side \in Sides

FilesKept(q) ==
  \A x \in Names :
    /\ \A side \in Sides : files[<<x, side>>] = Fifo(q) => files'[<<x, side>>] = Fifo(q)
    /\ files[<<x, "link">>].type # "fifo" => files'[<<x, "link">>].type # "fifo"

LEMMA OthersFilesKept ==
  ASSUME NEW p \in Programs, NEW q, ChangesOf(p), q # p \/ at[p] \notin {"~rx", "~tx"}
  PROVE  FilesKept(q)
<1>1. ASSUME NEW x \in Names, NEW side \in Sides, files[<<x, side>>] = Fifo(q)
      PROVE  files'[<<x, side>>] = Fifo(q)
  <2>1. files[<<x, side>>].type = "fifo" /\ files[<<x, side>>].maker = q
    BY <1>1, EntryFacts
  <2>2. files[<<x, side>>] = Fifo(p) => q = p
    BY <2>1, EntryFacts
  <2> QED BY <1>1, <2>1, <2>2 DEF ChangesOf, Sides
<1>2. ASSUME NEW x \in Names, files[<<x, "link">>].type # "fifo"
      PROVE  files'[<<x, "link">>].type # "fifo"
  BY <1>2, EntryFacts DEF ChangesOf
<1> QED BY <1>1, <1>2 DEF FilesKept

LEMMA UriNames ==
  ASSUME NEW i \in Interfaces, i.uri.kind \in {"pipe", "pty"}
  PROVE  i.uri.name \in Names
BY DevicesAssumption DEF Interfaces

LEMMA FirstFacts ==
  ASSUME WhereInv, NEW p \in Programs, interfaces[p] # <<>>
  PROVE  /\ First(p) = interfaces[p][1] /\ First(p) \in Interfaces
         /\ 1 \in 1 .. Len(interfaces[p]) /\ Len(interfaces[p]) \in Nat
BY TailFacts DEF First, WhereInv

(***************************************************************************)
(* A constructor changes the files only where there is no fifo.            *)
(***************************************************************************)
LEMMA ConstructChanges ==
  ASSUME TypeInv, FifoInv, NEW p \in Programs, Construct(p)
  PROVE  ChangesOf(p)
<1>0. files \in [Names \X {"rx", "tx", "link"} -> Entries] /\ WhereInv
  BY TypeParts DEF MachineOK
<1>1. CASE files' = files
  BY <1>1 DEF ChangesOf
<1>2. ASSUME Throws(p) PROVE files' = files
  BY <1>2 DEF Throws, Dies
<1>3. ASSUME NEW side \in Sides, PipeMkfifo(p, side) PROVE ChangesOf(p)
  <2>1. CASE Throws(p)
    BY <2>1, <1>1, <1>2
  <2>2. CASE files' = [files EXCEPT ![<<this[p].uri.name, side>>] = Fifo(p)] /\ Entry(p, side) = Nothing
    <3>1. ASSUME NEW x \in Names, NEW s \in {"rx", "tx", "link"}
          PROVE  files'[<<x, s>>] = files[<<x, s>>] \/ (files[<<x, s>>] = Nothing /\ s = side)
      BY <2>2, <1>0 DEF Entry
    <3> QED BY <3>1, EntryFacts DEF ChangesOf, Sides
  <2> QED BY <1>3, <2>1, <2>2 DEF PipeMkfifo
<1>4. CASE PtyUnlink(p)
  <2>1. CASE Throws(p)
    BY <2>1, <1>1, <1>2
  <2>2. CASE files' = [files EXCEPT ![<<this[p].uri.name, "link">>] = Nothing]
    <3>1. Entry(p, "link").type # "fifo"
      BY <1>4 DEF FifoInv, FifoInvOf, PtyUnlink
    <3>2. ASSUME NEW x \in Names, NEW s \in {"rx", "tx", "link"}
          PROVE  \/ files'[<<x, s>>] = files[<<x, s>>]
                 \/ files[<<x, s>>] = Entry(p, "link") /\ files'[<<x, s>>] = Nothing
      BY <2>2, <1>0 DEF Entry
    <3> QED BY <3>1, <3>2, EntryFacts DEF ChangesOf
  <2> QED BY <1>4, <2>1, <2>2 DEF PtyUnlink
<1>5. CASE PtySymlink(p)
  <2>1. CASE Throws(p)
    BY <2>1, <1>1, <1>2
  <2>2. CASE files' = [files EXCEPT ![<<this[p].uri.name, "link">>] = Link(p, this[p].pts)]
             /\ Entry(p, "link") = Nothing
    <3>1. ASSUME NEW x \in Names, NEW s \in {"rx", "tx", "link"}
          PROVE  \/ files'[<<x, s>>] = files[<<x, s>>]
                 \/ files[<<x, s>>] = Nothing /\ files'[<<x, s>>] = Link(p, this[p].pts)
      BY <2>2, <1>0 DEF Entry
    <3>2. PICK l : l = Link(p, this[p].pts) /\ l.type = "link"
      BY EntryFacts
    <3> QED BY <3>1, <3>2, EntryFacts DEF ChangesOf
  <2> QED BY <1>5, <2>1, <2>2 DEF PtySymlink
<1>6. CASE SerialOpen(p) \/ SerialGet(p) \/ SerialExclusive(p) \/ SerialSet(p)
  BY <1>1, <1>2, <1>6 DEF SerialOpen, SerialGet, SerialExclusive, SerialSet, machine
<1>7. CASE FpgaOpen(p) \/ UdpBind(p) \/ CanOpen(p) \/ TcpConnect(p)
  BY <1>1, <1>2, <1>7 DEF FpgaOpen, UdpBind, CanOpen, TcpConnect, machine
<1>8. CASE PtyOpen(p) \/ PtyLstat(p) \/ PtyStat(p)
  BY <1>1, <1>2, <1>8 DEF PtyOpen, PtyLstat, PtyStat, machine
<1>9. ASSUME NEW side \in Sides, PipeOpen(p, side) \/ PipeReopen(p, side) PROVE ChangesOf(p)
  BY <1>1, <1>2, <1>9 DEF PipeOpen, PipeReopen, PipeOpened, machine
<1> QED BY <1>3, <1>4, <1>5, <1>6, <1>7, <1>8, <1>9 DEF Construct

(***************************************************************************)
(* A destructor removes a fifo only if its program made it.                *)
(***************************************************************************)
LEMMA UnlinkChanges ==
  ASSUME TypeInv, FifoInv, NEW p \in Programs, NEW side \in Sides,
         at[p] \in {"~rx", "~tx"}, side = IF at[p] = "~rx" THEN "rx" ELSE "tx",
         files' = IF side \in First(p).unlinks
                  THEN [files EXCEPT ![<<First(p).uri.name, side>>] = Nothing] ELSE files
  PROVE  ChangesOf(p)
<1>0. files \in [Names \X {"rx", "tx", "link"} -> Entries] /\ WhereInv
  BY TypeParts DEF MachineOK
<1>1. CASE side \notin First(p).unlinks
  BY <1>1 DEF ChangesOf
<1>2. CASE side \in First(p).unlinks
  <2>1. interfaces[p] # <<>>
    BY <1>0, WhereFacts DEF PlaceInv, Destructing
  <2>2. files[<<First(p).uri.name, side>>] = Fifo(p)
    BY <2>1, <1>0, <1>2, FirstFacts DEF FifoInv, FifoInvOf, Unlinked
  <2>3. ASSUME NEW x \in Names, NEW s \in {"rx", "tx", "link"}
        PROVE  files'[<<x, s>>] = files[<<x, s>>] \/ (files[<<x, s>>] = Fifo(p) /\ s = side)
    BY <1>2, <1>0, <2>2
  <2> QED BY <2>3 DEF ChangesOf
<1> QED BY <1>1, <1>2

LEMMA DestructChanges ==
  ASSUME TypeInv, FifoInv, NEW p \in Programs, Destruct(p)
  PROVE  ChangesOf(p)
<1>0. files \in [Names \X {"rx", "tx", "link"} -> Entries]
  BY TypeParts DEF MachineOK
<1>1. CASE files' = files
  BY <1>1 DEF ChangesOf
<1>2. CASE PipeUnlinkRx(p)
  BY <1>2, UnlinkChanges DEF PipeUnlinkRx, Sides
<1>3. CASE PipeUnlinkTx(p)
  BY <1>3, UnlinkChanges DEF PipeUnlinkTx, Sides
<1>4. CASE PtyClean(p)
  <2>1. CASE Dies(p, "terminated")
    BY <2>1, <1>1 DEF Dies
  <2>2. CASE files' = [files EXCEPT ![<<First(p).uri.name, "link">>] = Nothing]
    <3>1. FirstEntry(p, "link").type # "fifo"
      BY <1>4 DEF FifoInv, FifoInvOf, PtyClean
    <3>2. ASSUME NEW x \in Names, NEW s \in {"rx", "tx", "link"}
          PROVE  \/ files'[<<x, s>>] = files[<<x, s>>]
                 \/ files[<<x, s>>] = FirstEntry(p, "link") /\ files'[<<x, s>>] = Nothing
      BY <2>2, <1>0 DEF FirstEntry
    <3> QED BY <3>1, <3>2, EntryFacts DEF ChangesOf
  <2> QED BY <1>4, <2>1, <2>2 DEF PtyClean
<1>5. CASE DestructNext(p) \/ SerialRelease(p) \/ SerialRestore(p) \/ PtyCheck(p)
  BY <1>1, <1>5 DEF DestructNext, SerialRelease, SerialRestore, PtyCheck, Dies, machine
<1> QED BY <1>2, <1>3, <1>4, <1>5 DEF Destruct

-----------------------------------------------------------------------------
(***************************************************************************)
(* What keeps the invariant for a program: another program's step, or a    *)
(* step of its own that leaves alone what is to be unlinked.               *)
(***************************************************************************)
LEMMA FifoKept ==
  ASSUME WhereInv, NEW p \in Programs, FifoInvOf(p), FilesKept(p),
         this'[p].uri = this[p].uri, this'[p].unlinks = this[p].unlinks,
         interfaces'[p] = interfaces[p],
         at'[p] = at[p] \/ at[p] # "~tx",
         at'[p] \in Constructing => at[p] \in Constructing,
         at'[p] = "pty.unlink" => Kind(p) = "pty" /\ Entry(p, "link").type # "fifo",
         at'[p] = "~pty.unlink" =>
           /\ interfaces[p] # <<>> /\ First(p).uri.kind = "pty"
           /\ FirstEntry(p, "link").type # "fifo"
  PROVE  FifoInvOf(p)'
<1>1. this[p] \in Interfaces /\ interfaces[p] \in Seq(Interfaces)
  BY WhereFacts
<1>2. ASSUME at'[p] \in Constructing, NEW side \in this'[p].unlinks
      PROVE  Kind(p)' = "pipe" /\ Entry(p, side)' = Fifo(p)
  <2>1. Kind(p) = "pipe" /\ Entry(p, side) = Fifo(p) /\ side \in Sides
    BY <1>1, <1>2 DEF FifoInvOf, Interfaces
  <2>2. this[p].uri.name \in Names
    BY <1>1, <2>1, UriNames DEF Kind
  <2> QED BY <2>1, <2>2 DEF FilesKept, Entry, Kind
<1>3. ASSUME NEW k \in 1 .. Len(interfaces[p]), NEW side \in interfaces[p][k].unlinks
      PROVE  /\ interfaces[p][k].uri.kind = "pipe"
             /\ Unlinked(p, k, side)' \/ files'[<<interfaces[p][k].uri.name, side>>] = Fifo(p)
             /\ \A j \in 1 .. Len(interfaces[p]) : SameFifo(interfaces[p][j], interfaces[p][k], side) => j = k
             /\ at'[p] \in Constructing => ~SameFifo(this'[p], interfaces[p][k], side)
  <2>1. interfaces[p][k] \in Interfaces /\ side \in Sides
    <3>1. interfaces[p][k] \in Interfaces
      BY <1>1
    <3> QED BY <3>1 DEF Interfaces
  <2>2. interfaces[p][k].uri.kind = "pipe" /\ interfaces[p][k].uri.name \in Names
    BY <2>1, UriNames DEF FifoInvOf
  <2>3. Unlinked(p, k, side)' \/ files[<<interfaces[p][k].uri.name, side>>] = Fifo(p)
    BY DEF FifoInvOf, Unlinked
  <2>4. Unlinked(p, k, side)' \/ files'[<<interfaces[p][k].uri.name, side>>] = Fifo(p)
    BY <2>1, <2>2, <2>3 DEF FilesKept
  <2>5. /\ \A j \in 1 .. Len(interfaces[p]) : SameFifo(interfaces[p][j], interfaces[p][k], side) => j = k
        /\ at'[p] \in Constructing => ~SameFifo(this'[p], interfaces[p][k], side)
    BY DEF FifoInvOf, SameFifo
  <2> QED BY <2>2, <2>4, <2>5
<1>4. at'[p] = "pty.unlink" => Entry(p, "link")'.type # "fifo"
  <2>1. at'[p] = "pty.unlink" => this[p].uri.name \in Names
    BY <1>1, UriNames DEF Kind
  <2> QED BY <2>1 DEF FilesKept, Entry
<1>5. at'[p] = "~pty.unlink" => FirstEntry(p, "link")'.type # "fifo"
  <2>1. at'[p] = "~pty.unlink" => First(p).uri.name \in Names
    BY FirstFacts, UriNames
  <2> QED BY <2>1 DEF FilesKept, FirstEntry, First
<1> QED BY <1>2, <1>3, <1>4, <1>5 DEF FifoInvOf

LEMMA FifoOthers ==
  ASSUME TypeInv, FifoInv, NEW q \in Programs, FilesKept(q),
         at'[q] = at[q], this'[q] = this[q], interfaces'[q] = interfaces[q]
  PROVE  FifoInvOf(q)'
<1>1. WhereInv /\ FifoInvOf(q) /\ PlaceInv(at[q], this[q], interfaces[q])
  BY TypeParts, WhereFacts DEF FifoInv
<1>2. at[q] = "pty.unlink" => Kind(q) = "pty" /\ Entry(q, "link").type # "fifo"
  BY <1>1 DEF PlaceInv, Places, Kind, FifoInvOf
<1>3. at[q] = "~pty.unlink" =>
        /\ interfaces[q] # <<>> /\ First(q).uri.kind = "pty"
        /\ FirstEntry(q, "link").type # "fifo"
  BY <1>1 DEF PlaceInv, Destructing, First, FifoInvOf
<1> QED BY <1>1, <1>2, <1>3, FifoKept

(***************************************************************************)
(* A program that dies, and one that starts to construct an interface.     *)
(***************************************************************************)
LEMMA FifoDies ==
  ASSUME NEW p \in Programs, NEW how \in Over, Dies(p, how), WhereInv
  PROVE  FifoInvOf(p)'
<1>1. at'[p] = how /\ interfaces'[p] = <<>>
  BY DEF Dies, Go, WhereInv
<1> QED BY <1>1 DEF FifoInvOf, Over, Constructing

LEMMA FifoStarts ==
  ASSUME WhereInv, NEW p \in Programs, FifoInvOf(p), at[p] = "options", files' = files,
         this'[p].unlinks = {}, interfaces'[p] = interfaces[p],
         at'[p] \notin {"pty.unlink", "~pty.unlink"}
  PROVE  FifoInvOf(p)'
BY DEF FifoInvOf, Unlinked, SameFifo

(***************************************************************************)
(* An interface that is to be unlinked has a name, and sides.              *)
(***************************************************************************)
LEMMA OwnedFacts ==
  ASSUME WhereInv, NEW p \in Programs, FifoInvOf(p), NEW k \in 1 .. Len(interfaces[p]),
         NEW side \in interfaces[p][k].unlinks
  PROVE  /\ interfaces[p][k] \in Interfaces /\ side \in Sides
         /\ interfaces[p][k].uri.kind = "pipe" /\ interfaces[p][k].uri.name \in Names
<1>1. interfaces[p][k] \in Interfaces
  BY WhereFacts
<1>2. side \in Sides
  BY <1>1 DEF Interfaces
<1>3. interfaces[p][k].uri.kind = "pipe"
  BY DEF FifoInvOf
<1> QED BY <1>1, <1>2, <1>3, UriNames

(***************************************************************************)
(* The interface is constructed: it joins the ones the program owns.       *)
(***************************************************************************)
LEMMA FifoConstructed ==
  ASSUME WhereInv, NEW p \in Programs, FifoInvOf(p), FilesKept(p), at[p] \in Constructing,
         Constructed(p, this[p])
  PROVE  FifoInvOf(p)'
<1> DEFINE new == Append(interfaces[p], this[p])
           n == Len(interfaces[p])
<1>1. this[p] \in Interfaces /\ interfaces[p] \in Seq(Interfaces)
  BY WhereFacts
<1>2. interfaces'[p] = new /\ at'[p] = "options" /\ this'[p] = this[p]
  BY DEF Constructed, Go, WhereInv
<1>3. /\ n \in Nat /\ Len(new) = n + 1 /\ new[n + 1] = this[p]
      /\ \A k \in 1 .. n : new[k] = interfaces[p][k]
  BY <1>1, AppendFacts
<1>4. ASSUME NEW k \in 1 .. n, NEW side \in interfaces[p][k].unlinks
      PROVE  /\ interfaces[p][k].uri.kind = "pipe"
             /\ files'[<<interfaces[p][k].uri.name, side>>] = Fifo(p)
             /\ \A j \in 1 .. n : SameFifo(interfaces[p][j], interfaces[p][k], side) => j = k
             /\ ~SameFifo(this[p], interfaces[p][k], side)
  <2>1. side \in Sides /\ interfaces[p][k].uri.kind = "pipe" /\ interfaces[p][k].uri.name \in Names
    BY OwnedFacts
  <2>2. files[<<interfaces[p][k].uri.name, side>>] = Fifo(p)
    BY DEF FifoInvOf, Unlinked, Constructing
  <2>3. /\ \A j \in 1 .. n : SameFifo(interfaces[p][j], interfaces[p][k], side) => j = k
        /\ ~SameFifo(this[p], interfaces[p][k], side)
    BY DEF FifoInvOf
  <2> QED BY <2>1, <2>2, <2>3 DEF FilesKept
<1>5. ASSUME NEW side \in this[p].unlinks
      PROVE  /\ this[p].uri.kind = "pipe" /\ files'[<<this[p].uri.name, side>>] = Fifo(p)
             /\ \A j \in 1 .. n : ~SameFifo(interfaces[p][j], this[p], side)
  <2>1. this[p].uri.kind = "pipe" /\ files[<<this[p].uri.name, side>>] = Fifo(p) /\ side \in Sides
    BY <1>1 DEF FifoInvOf, Kind, Entry, Interfaces
  <2>2. this[p].uri.name \in Names
    BY <1>1, <2>1, UriNames
  <2>3. ASSUME NEW j \in 1 .. n, SameFifo(interfaces[p][j], this[p], side) PROVE FALSE
    BY <1>4, <2>3 DEF SameFifo
  <2> QED BY <2>1, <2>2, <2>3 DEF FilesKept
<1>6. ASSUME NEW k \in 1 .. Len(new), NEW side \in new[k].unlinks
      PROVE  /\ new[k].uri.kind = "pipe" /\ files'[<<new[k].uri.name, side>>] = Fifo(p)
             /\ \A j \in 1 .. Len(new) : SameFifo(new[j], new[k], side) => j = k
  <2>1. CASE k \in 1 .. n
    <3>1. ASSUME NEW j \in 1 .. Len(new), SameFifo(new[j], new[k], side) PROVE j = k
      <4>1. j \in 1 .. n \/ j = n + 1
        BY <1>3
      <4> QED BY <1>3, <1>4, <2>1, <3>1, <4>1
    <3> QED BY <1>3, <1>4, <2>1, <3>1
  <2>2. CASE k = n + 1
    <3>1. ASSUME NEW j \in 1 .. Len(new), SameFifo(new[j], new[k], side) PROVE j = k
      <4>1. j \in 1 .. n \/ j = n + 1
        BY <1>3
      <4> QED BY <1>3, <1>5, <2>2, <3>1, <4>1
    <3> QED BY <1>3, <1>5, <2>2, <3>1
  <2> QED BY <1>3, <2>1, <2>2
<1> QED BY <1>2, <1>6 DEF FifoInvOf, Constructing

(***************************************************************************)
(* The first interface is gone.                                            *)
(***************************************************************************)
LEMMA FifoDestructed ==
  ASSUME WhereInv, NEW p \in Programs, FifoInvOf(p), Destructed(p), interfaces[p] # <<>>,
         \A k \in 2 .. Len(interfaces[p]) : \A side \in interfaces[p][k].unlinks :
           files'[<<interfaces[p][k].uri.name, side>>] = files[<<interfaces[p][k].uri.name, side>>]
  PROVE  FifoInvOf(p)'
<1> DEFINE new == Tail(interfaces[p])
           n == Len(interfaces[p])
<1>1. interfaces[p] \in Seq(Interfaces)
  BY WhereFacts
<1>2. interfaces'[p] = new /\ at'[p] = "exit"
  BY DEF Destructed, Go, WhereInv
<1>3. /\ n \in Nat /\ n >= 1 /\ Len(new) = n - 1
      /\ \A k \in 1 .. n - 1 : new[k] = interfaces[p][k + 1]
  BY <1>1, TailFacts
<1>4. ASSUME NEW k \in 2 .. n, NEW side \in interfaces[p][k].unlinks
      PROVE  /\ interfaces[p][k].uri.kind = "pipe"
             /\ files'[<<interfaces[p][k].uri.name, side>>] = Fifo(p)
             /\ \A j \in 1 .. n : SameFifo(interfaces[p][j], interfaces[p][k], side) => j = k
  BY <1>3 DEF FifoInvOf, Unlinked
<1>5. ASSUME NEW k \in 1 .. Len(new), NEW side \in new[k].unlinks
      PROVE  /\ new[k].uri.kind = "pipe" /\ files'[<<new[k].uri.name, side>>] = Fifo(p)
             /\ \A j \in 1 .. Len(new) : SameFifo(new[j], new[k], side) => j = k
  <2>1. k + 1 \in 2 .. n /\ new[k] = interfaces[p][k + 1]
    BY <1>3
  <2>2. ASSUME NEW j \in 1 .. Len(new), SameFifo(new[j], new[k], side) PROVE j = k
    <3>1. j + 1 \in 1 .. n /\ new[j] = interfaces[p][j + 1]
      BY <1>3
    <3>2. j + 1 = k + 1
      BY <1>4, <2>1, <2>2, <3>1
    <3> QED BY <1>3, <3>2
  <2> QED BY <1>4, <2>1, <2>2
<1> QED BY <1>2, <1>5 DEF FifoInvOf, Constructing

-----------------------------------------------------------------------------
(***************************************************************************)
(* mkfifo() succeeds only where there is nothing, so the new fifo is none  *)
(* of those the program made before.                                       *)
(***************************************************************************)
LEMMA FifoMade ==
  ASSUME TypeInv, FifoInv, NEW p \in Programs, NEW side \in Sides, PipeMkfifo(p, side)
  PROVE  FifoInvOf(p)'
<1>0. /\ files \in [Names \X {"rx", "tx", "link"} -> Entries] /\ WhereInv /\ FifoInvOf(p)
      /\ this[p] \in Interfaces /\ PlaceInv(at[p], this[p], interfaces[p])
  BY TypeParts, WhereFacts DEF MachineOK, FifoInv
<1>1. CASE Throws(p)
  BY <1>0, <1>1, FifoDies DEF Throws, Over
<1>2. CASE ~Throws(p)
  <2>1. /\ Entry(p, side) = Nothing
        /\ files' = [files EXCEPT ![<<this[p].uri.name, side>>] = Fifo(p)]
        /\ this' = [this EXCEPT ![p].unlinks = @ \cup {side}]
        /\ Go(p, ReopenAt[side]) /\ UNCHANGED interfaces
    BY <1>2 DEF PipeMkfifo
  <2>2. at[p] \in Places.pipe /\ at[p] \in Constructing /\ at[p] \notin {"~rx", "~tx"}
    BY DEF PipeMkfifo, MkfifoAt, Sides, Places, Constructing
  <2>3. this[p].uri.kind = "pipe" /\ this[p].uri.name \in Names
    BY <1>0, <2>2, UriNames DEF PlaceInv, Places
  <2>4. FilesKept(p)
    <3>1. Construct(p)
      BY DEF Construct
    <3> QED BY <3>1, <2>2, ConstructChanges, OthersFilesKept
  <2>5. at'[p] = ReopenAt[side] /\ at'[p] \in {"rx.reopen", "tx.reopen"}
    BY <1>0, <2>1 DEF Go, WhereInv, ReopenAt, Sides
  <2>6. this'[p].uri = this[p].uri /\ this'[p].unlinks = this[p].unlinks \cup {side}
    BY <1>0, <2>1 DEF WhereInv, Interfaces
  <2>7. files'[<<this[p].uri.name, side>>] = Fifo(p)
    BY <1>0, <2>1, <2>3 DEF Sides
  <2>8. ASSUME NEW s \in this'[p].unlinks PROVE Kind(p)' = "pipe" /\ Entry(p, s)' = Fifo(p)
    <3>1. CASE s = side
      BY <3>1, <2>3, <2>6, <2>7 DEF Kind, Entry
    <3>2. CASE s \in this[p].unlinks
      <4>1. s \in Sides
        BY <1>0, <3>2 DEF Interfaces
      <4>2. files[<<this[p].uri.name, s>>] = Fifo(p)
        BY <1>0, <2>2, <3>2 DEF FifoInvOf, Entry
      <4> QED BY <4>1, <4>2, <2>3, <2>4, <2>6 DEF FilesKept, Kind, Entry
    <3> QED BY <2>6, <2>8, <3>1, <3>2
  <2>9. ASSUME NEW k \in 1 .. Len(interfaces[p]), NEW s \in interfaces[p][k].unlinks
        PROVE  /\ interfaces[p][k].uri.kind = "pipe"
               /\ files'[<<interfaces[p][k].uri.name, s>>] = Fifo(p)
               /\ \A j \in 1 .. Len(interfaces[p]) : SameFifo(interfaces[p][j], interfaces[p][k], s) => j = k
               /\ ~SameFifo(this'[p], interfaces[p][k], s)
    <3>1. s \in Sides /\ interfaces[p][k].uri.kind = "pipe" /\ interfaces[p][k].uri.name \in Names
      BY <1>0, OwnedFacts
    <3>2. files[<<interfaces[p][k].uri.name, s>>] = Fifo(p)
      BY <1>0, <2>2 DEF FifoInvOf, Unlinked
    <3>3. \A j \in 1 .. Len(interfaces[p]) : SameFifo(interfaces[p][j], interfaces[p][k], s) => j = k
      BY <1>0 DEF FifoInvOf
    <3>4. ~SameFifo(this[p], interfaces[p][k], s)
      BY <1>0, <2>2 DEF FifoInvOf
    <3>5. s = side => interfaces[p][k].uri.name # this[p].uri.name
      BY <2>1, <3>2, EntryFacts DEF Entry
    <3>6. ~SameFifo(this'[p], interfaces[p][k], s)
      BY <2>6, <3>4, <3>5 DEF SameFifo
    <3> QED BY <3>1, <3>2, <3>3, <3>6, <2>4 DEF FilesKept
  <2>10. interfaces' = interfaces
    BY <2>1
  <2> QED BY <2>5, <2>8, <2>9, <2>10 DEF FifoInvOf
<1> QED BY <1>1, <1>2

(***************************************************************************)
(* The other steps of a constructor.                                       *)
(***************************************************************************)
LEMMA FifoConstruct ==
  ASSUME TypeInv, FifoInv, NEW p \in Programs, Construct(p)
  PROVE  FifoInvOf(p)'
<1>0. /\ WhereInv /\ FifoInvOf(p) /\ this[p] \in Interfaces
      /\ PlaceInv(at[p], this[p], interfaces[p])
  BY TypeParts, WhereFacts DEF FifoInv
<1>1. at[p] \in Constructing
  BY DEF Construct, SerialOpen, SerialGet, SerialExclusive, SerialSet, FpgaOpen, UdpBind, CanOpen,
         TcpConnect, PipeOpen, PipeMkfifo, PipeReopen, OpenAt, MkfifoAt, ReopenAt, Sides,
         PtyOpen, PtyLstat, PtyStat, PtyUnlink, PtySymlink, Constructing
<1>2. at[p] \notin Destructing /\ FilesKept(p)
  BY <1>1, ConstructChanges, OthersFilesKept DEF Constructing, Destructing
<1>3. ASSUME Throws(p) PROVE FifoInvOf(p)'
  BY <1>0, <1>3, FifoDies DEF Throws, Over
<1>4. ASSUME Constructed(p, this[p]) PROVE FifoInvOf(p)'
  BY <1>0, <1>1, <1>2, <1>4, FifoConstructed
<1>5. ASSUME NEW place \in Constructing, Go(p, place), UNCHANGED interfaces,
             this'[p].uri = this[p].uri, this'[p].unlinks = this[p].unlinks,
             place = "pty.unlink" => Kind(p) = "pty" /\ Entry(p, "link").type # "fifo"
      PROVE  FifoInvOf(p)'
  <2>1. at'[p] = place /\ place \notin Destructing
    BY <1>0, <1>5 DEF Go, WhereInv, Constructing, Destructing
  <2> QED BY <1>0, <1>1, <1>2, <1>5, <2>1, FifoKept DEF Destructing
<1>6. ASSUME NEW place \in Constructing, Step(p, place),
             place = "pty.unlink" => Kind(p) = "pty" /\ Entry(p, "link").type # "fifo"
      PROVE  FifoInvOf(p)'
  BY <1>5, <1>6 DEF Step
<1>7. CASE SerialOpen(p) \/ SerialExclusive(p) \/ SerialSet(p)
  BY <1>3, <1>4, <1>6, <1>7 DEF SerialOpen, SerialExclusive, SerialSet, Constructing
<1>8. CASE SerialGet(p)
  <2>1. this'[p].uri = this[p].uri /\ this'[p].unlinks = this[p].unlinks
    BY <1>0, <1>8 DEF SerialGet, WhereInv, Interfaces
  <2> QED BY <1>5, <1>8, <2>1 DEF SerialGet, Constructing
<1>9. CASE FpgaOpen(p) \/ UdpBind(p) \/ CanOpen(p) \/ TcpConnect(p)
  BY <1>3, <1>4, <1>9 DEF FpgaOpen, UdpBind, CanOpen, TcpConnect
<1>10. ASSUME NEW side \in Sides, PipeOpen(p, side) \/ PipeReopen(p, side) PROVE FifoInvOf(p)'
  <2>1. \/ Throws(p) \/ Constructed(p, this[p])
        \/ \E place \in {"tx.open", "rx.mkfifo", "tx.mkfifo"} : Step(p, place)
    BY <1>10 DEF PipeOpen, PipeReopen, PipeOpened, MkfifoAt, Sides
  <2> QED BY <1>3, <1>4, <1>6, <2>1 DEF Constructing
<1>11. ASSUME NEW side \in Sides, PipeMkfifo(p, side) PROVE FifoInvOf(p)'
  BY <1>11, FifoMade
<1>12. CASE PtyOpen(p)
  <2>1. this'[p].uri = this[p].uri /\ this'[p].unlinks = this[p].unlinks
    BY <1>0, <1>12 DEF PtyOpen, WhereInv, Interfaces
  <2> QED BY <1>5, <1>12, <2>1 DEF PtyOpen, Constructing
<1>13. CASE PtyLstat(p)
  BY <1>3, <1>6, <1>13 DEF PtyLstat, Constructing
<1>14. CASE PtyStat(p)
  <2>1. Kind(p) = "pty"
    BY <1>0, <1>14 DEF PtyStat, PlaceInv, Places, Kind
  <2>2. Throws(p) \/ (Step(p, "pty.unlink") /\ Entry(p, "link").type = "link")
    BY <1>14 DEF PtyStat
  <2> QED BY <1>3, <1>6, <2>1, <2>2 DEF Constructing
<1>15. CASE PtyUnlink(p) \/ PtySymlink(p)
  BY <1>3, <1>4, <1>6, <1>15 DEF PtyUnlink, PtySymlink, Constructing
<1> QED BY <1>7, <1>8, <1>9, <1>10, <1>11, <1>12, <1>13, <1>14, <1>15 DEF Construct

(***************************************************************************)
(* A destructor removes the pipe for reading, which no other interface of  *)
(* its program is to remove.                                               *)
(***************************************************************************)
LEMMA FifoUnlinkRx ==
  ASSUME TypeInv, FifoInv, NEW p \in Programs, PipeUnlinkRx(p)
  PROVE  FifoInvOf(p)'
<1>0. /\ files \in [Names \X {"rx", "tx", "link"} -> Entries] /\ WhereInv /\ FifoInvOf(p)
      /\ interfaces[p] # <<>>
  BY TypeParts, WhereFacts DEF MachineOK, FifoInv, PipeUnlinkRx, PlaceInv, Destructing
<1>1. at[p] = "~rx" /\ at'[p] = "~tx" /\ this' = this /\ interfaces' = interfaces
  BY <1>0 DEF PipeUnlinkRx, Step, Go, WhereInv
<1>2. First(p) = interfaces[p][1] /\ 1 \in 1 .. Len(interfaces[p])
  BY <1>0, FirstFacts
<1>3. ASSUME NEW k \in 1 .. Len(interfaces[p]), NEW side \in interfaces[p][k].unlinks
      PROVE  /\ interfaces[p][k].uri.kind = "pipe"
             /\ Unlinked(p, k, side)' \/ files'[<<interfaces[p][k].uri.name, side>>] = Fifo(p)
             /\ \A j \in 1 .. Len(interfaces[p]) : SameFifo(interfaces[p][j], interfaces[p][k], side) => j = k
  <2>1. side \in Sides /\ interfaces[p][k].uri.kind = "pipe" /\ interfaces[p][k].uri.name \in Names
    BY <1>0, OwnedFacts
  <2>2. files[<<interfaces[p][k].uri.name, side>>] = Fifo(p)
    BY <1>0, <1>1 DEF FifoInvOf, Unlinked
  <2>3. \A j \in 1 .. Len(interfaces[p]) : SameFifo(interfaces[p][j], interfaces[p][k], side) => j = k
    BY <1>0 DEF FifoInvOf
  <2>4. CASE k = 1 /\ side = "rx"
    BY <1>1, <2>1, <2>3, <2>4 DEF Unlinked
  <2>5. CASE ~(k = 1 /\ side = "rx")
    <3>1. ~("rx" \in First(p).unlinks /\ First(p).uri.name = interfaces[p][k].uri.name /\ side = "rx")
      BY <1>2, <2>3, <2>5 DEF SameFifo
    <3>2. files'[<<interfaces[p][k].uri.name, side>>] = files[<<interfaces[p][k].uri.name, side>>]
      BY <1>0, <2>1, <3>1 DEF PipeUnlinkRx, Sides
    <3> QED BY <2>1, <2>2, <2>3, <3>2
  <2> QED BY <2>4, <2>5
<1> QED BY <1>1, <1>3 DEF FifoInvOf, Constructing

LEMMA FifoDestruct ==
  ASSUME TypeInv, FifoInv, NEW p \in Programs, Destruct(p)
  PROVE  FifoInvOf(p)'
<1>0. /\ files \in [Names \X {"rx", "tx", "link"} -> Entries] /\ WhereInv /\ FifoInvOf(p)
      /\ PlaceInv(at[p], this[p], interfaces[p])
  BY TypeParts, WhereFacts DEF MachineOK, FifoInv
<1>1. interfaces[p] # <<>> /\ at[p] \in Destructing /\ at[p] \notin Constructing
  BY <1>0 DEF Destruct, DestructNext, SerialRelease, SerialRestore, PipeUnlinkRx, PipeUnlinkTx,
              PtyCheck, PtyClean, PlaceInv, Destructing, Constructing
<1>2. First(p) = interfaces[p][1] /\ 1 \in 1 .. Len(interfaces[p])
  BY <1>0, <1>1, FirstFacts
<1>3. ASSUME Dies(p, "terminated") PROVE FifoInvOf(p)'
  BY <1>0, <1>3, FifoDies DEF Over
<1>4. ASSUME Destructed(p), files' = files PROVE FifoInvOf(p)'
  BY <1>0, <1>1, <1>4, FifoDestructed
<1>5. ASSUME NEW place \in Destructing, Step(p, place), files' = files, at[p] # "~tx",
             place = "~pty.unlink" => First(p).uri.kind = "pty" /\ FirstEntry(p, "link").type # "fifo"
      PROVE  FifoInvOf(p)'
  <2>1. at'[p] = place /\ place \notin Constructing /\ this' = this /\ interfaces' = interfaces
    BY <1>0, <1>5 DEF Step, Go, WhereInv, Constructing, Destructing
  <2>2. FilesKept(p)
    BY <1>5 DEF FilesKept
  <2>3. place # "pty.unlink"
    BY <2>1 DEF Constructing
  <2> QED BY <1>0, <1>1, <1>5, <2>1, <2>2, <2>3, FifoKept
<1>6. CASE DestructNext(p)
  <2>1. /\ at[p] = "exit" /\ files' = files
        /\ Destructed(p) \/ \E place \in {"~serial.exclusive", "~rx", "~pty.check"} : Step(p, place)
    BY <1>6 DEF DestructNext, machine
  <2> QED BY <1>4, <1>5, <2>1 DEF Destructing
<1>7. CASE SerialRelease(p) \/ SerialRestore(p)
  BY <1>4, <1>5, <1>7 DEF SerialRelease, SerialRestore, Destructing
<1>8. CASE PipeUnlinkRx(p)
  BY <1>8, FifoUnlinkRx
<1>9. CASE PipeUnlinkTx(p)
  <2>1. ASSUME NEW k \in 2 .. Len(interfaces[p]), NEW side \in interfaces[p][k].unlinks
        PROVE  files'[<<interfaces[p][k].uri.name, side>>] = files[<<interfaces[p][k].uri.name, side>>]
    <3>1. k \in 1 .. Len(interfaces[p]) /\ k # 1
      BY <1>2
    <3>2. side \in Sides /\ interfaces[p][k].uri.name \in Names
      BY <1>0, <3>1, OwnedFacts
    <3>3. \A j \in 1 .. Len(interfaces[p]) : SameFifo(interfaces[p][j], interfaces[p][k], side) => j = k
      BY <1>0, <3>1 DEF FifoInvOf
    <3>4. ~("tx" \in First(p).unlinks /\ First(p).uri.name = interfaces[p][k].uri.name /\ side = "tx")
      BY <1>2, <3>1, <3>3 DEF SameFifo
    <3> QED BY <1>0, <1>9, <3>2, <3>4 DEF PipeUnlinkTx, Sides
  <2> QED BY <1>0, <1>1, <1>9, <2>1, FifoDestructed DEF PipeUnlinkTx
<1>10. CASE PtyCheck(p)
  <2>1. First(p).uri.kind = "pty"
    BY <1>0, <1>10 DEF PtyCheck, PlaceInv, First
  <2>2. \/ Dies(p, "terminated")
        \/ Step(p, "~pty.unlink") /\ files' = files /\ FirstEntry(p, "link").type # "fifo"
    BY <1>10, EntryFacts DEF PtyCheck, LeadsTo, machine
  <2> QED BY <1>3, <1>5, <1>10, <2>1, <2>2 DEF Destructing, PtyCheck
<1>11. CASE PtyClean(p)
  <2>1. CASE Dies(p, "terminated")
    BY <2>1, <1>3
  <2>2. CASE /\ files' = [files EXCEPT ![<<First(p).uri.name, "link">>] = Nothing]
             /\ Destructed(p)
    <3>1. ASSUME NEW k \in 2 .. Len(interfaces[p]), NEW side \in interfaces[p][k].unlinks
          PROVE  files'[<<interfaces[p][k].uri.name, side>>] = files[<<interfaces[p][k].uri.name, side>>]
      <4>1. k \in 1 .. Len(interfaces[p])
        BY <1>2
      <4>2. side \in Sides /\ interfaces[p][k].uri.name \in Names
        BY <1>0, <4>1, OwnedFacts
      <4> QED BY <1>0, <2>2, <4>2 DEF Sides
    <3> QED BY <1>0, <1>1, <2>2, <3>1, FifoDestructed
  <2> QED BY <1>11, <2>1, <2>2 DEF PtyClean
<1> QED BY <1>6, <1>7, <1>8, <1>9, <1>10, <1>11 DEF Destruct

-----------------------------------------------------------------------------
(***************************************************************************)
(* The steps of the main program leave the files as they are.              *)
(***************************************************************************)
LEMMA FifoOption ==
  ASSUME TypeInv, FifoInv, NEW p \in Programs, NextOption(p)
  PROVE  FifoInvOf(p)' /\ files' = files
<1> DEFINE o == Head(options[p])
<1>0. WhereInv /\ FifoInvOf(p) /\ InputsOK /\ at[p] = "options"
  BY TypeParts DEF FifoInv, NextOption
<1>1. o \in Options
  BY <1>0, TailFacts DEF NextOption, InputsOK
<1>2. CASE o.kind = "other"
  BY <1>0, <1>2 DEF NextOption, machine, FifoInvOf, Unlinked, Entry, FirstEntry, First, Kind
<1>3. CASE o.kind = "help"
  <2>1. /\ at'[p] = "exit" /\ files' = files /\ this' = this /\ interfaces' = interfaces
    BY <1>0, <1>3 DEF NextOption, Step, Go, machine, WhereInv
  <2> QED BY <1>0, <2>1 DEF FifoInvOf, Unlinked, Constructing
<1>4. CASE o.kind = "unmatched"
  BY <1>0, <1>4, FifoDies DEF NextOption, Throws, Dies, Over
<1>5. CASE o.kind \notin {"other", "help", "unmatched"}
  <2>1. o \in Uris
    BY <1>1, <1>5 DEF Options
  <2>2. FirstStep(o.kind) \notin {"pty.unlink", "~pty.unlink"}
    BY <2>1, DevicesAssumption DEF FirstStep
  <2>3. /\ this' = [this EXCEPT ![p] = Interface(o)]
        /\ Go(p, FirstStep(o.kind)) /\ UNCHANGED <<interfaces, machine>>
    BY <1>5 DEF NextOption
  <2>4. /\ this'[p].unlinks = {} /\ at'[p] = FirstStep(o.kind)
        /\ interfaces'[p] = interfaces[p] /\ files' = files
    BY <1>0, <2>3 DEF Go, WhereInv, Interface, machine
  <2> QED BY <1>0, <2>2, <2>4, FifoStarts
<1> QED BY <1>2, <1>3, <1>4, <1>5

LEMMA FifoLoop ==
  ASSUME TypeInv, FifoInv, NEW p \in Programs, files' = files, UNCHANGED <<this, interfaces>>,
         at[p] # "~tx", at'[p] \notin Constructing \cup {"~pty.unlink"}
  PROVE  FifoInvOf(p)'
BY DEF FifoInv, FifoInvOf, Unlinked, Constructing

(***************************************************************************)
(* What a step of p does to the files, to p and to the others.             *)
(***************************************************************************)
Acts(p) ==
  \/ Runs(p) \/ (ConstructorFails(p) /\ UNCHANGED <<options, inputs>>) \/ ProcessFails(p)
  \/ \E line \in CommandLines : Start(p, line)
  \/ \E line \in {"q", "other"} : Types(p, line)
  \/ Sigint(p) \/ SigintInSelect(p) \/ Killed(p)

LEMMA ActsStep ==
  ASSUME TypeInv, FifoInv, NEW p \in Programs, Acts(p)
  PROVE  ChangesOf(p) /\ FifoInvOf(p)'
<1>0. WhereInv /\ FifoInvOf(p)
  BY TypeParts DEF FifoInv
<1>1. ASSUME files' = files PROVE ChangesOf(p)
  BY <1>1 DEF ChangesOf
<1>2. ASSUME NEW how \in Over, Dies(p, how) PROVE ChangesOf(p) /\ FifoInvOf(p)'
  BY <1>0, <1>1, <1>2, FifoDies DEF Dies
<1>3. ASSUME NEW place \in Looping \cup {"options", "exit", "ended"}, Step(p, place), UNCHANGED machine,
             at[p] \notin Constructing \cup {"~tx", "~pty.unlink"}
      PROVE  ChangesOf(p) /\ FifoInvOf(p)'
  <2>1. at'[p] = place /\ place \notin Constructing \cup {"~pty.unlink"} /\ files' = files
    BY <1>0, <1>3 DEF Step, Go, WhereInv, Looping, Constructing, machine
  <2> QED BY <1>1, <1>3, <2>1, FifoLoop DEF Step
<1>4. CASE NextOption(p)
  BY <1>1, <1>4, FifoOption
<1>5. CASE EnterLoop(p) \/ Loop(p) \/ Select(p) \/ Getline(p) \/ Ended(p) \/ SigintInSelect(p)
  BY <1>3, <1>5 DEF EnterLoop, Loop, Select, Getline, Ended, SigintInSelect, Looping, Constructing
<1>6. CASE Construct(p)
  BY <1>6, ConstructChanges, FifoConstruct
<1>7. CASE Destruct(p)
  BY <1>7, DestructChanges, FifoDestruct
<1>8. CASE ConstructorFails(p) \/ ProcessFails(p) \/ Killed(p)
  BY <1>2, <1>8 DEF ConstructorFails, ProcessFails, Killed, Throws, Over
<1>9. ASSUME NEW line, Start(p, line) PROVE ChangesOf(p) /\ FifoInvOf(p)'
  BY <1>3, <1>9 DEF Start, Step, Constructing
<1>10. ASSUME NEW line, Types(p, line) \/ Sigint(p) PROVE ChangesOf(p) /\ FifoInvOf(p)'
  <2>1. /\ files' = files /\ at' = at /\ this' = this /\ interfaces' = interfaces
        /\ at[p] \in Looping
    BY <1>10 DEF Types, Sigint, machine
  <2>2. at'[p] \notin Constructing \cup {"~pty.unlink", "~tx"}
    BY <2>1 DEF Looping, Constructing
  <2> QED BY <1>1, <2>1, <2>2, FifoLoop
<1>11. CASE Runs(p)
  BY <1>4, <1>5, <1>6, <1>7, <1>11 DEF Runs
<1> QED BY <1>5, <1>8, <1>9, <1>10, <1>11 DEF Acts

LEMMA ActsOthers ==
  ASSUME TypeInv, NEW p \in Programs, Acts(p), NEW q \in Programs, q # p
  PROVE  at'[q] = at[q] /\ this'[q] = this[q] /\ interfaces'[q] = interfaces[q]
<1>0. WhereInv
  BY TypeParts
<1>1. ASSUME UNCHANGED <<at, this, interfaces>>
      PROVE  at'[q] = at[q] /\ this'[q] = this[q] /\ interfaces'[q] = interfaces[q]
  BY <1>1
<1>2. ASSUME NEW place, Go(p, place) PROVE at'[q] = at[q]
  BY <1>0, <1>2 DEF Go, WhereInv
<1>3. ASSUME NEW place, Step(p, place)
      PROVE  at'[q] = at[q] /\ this'[q] = this[q] /\ interfaces'[q] = interfaces[q]
  BY <1>2, <1>3 DEF Step
<1>4. ASSUME NEW how, Dies(p, how)
      PROVE  at'[q] = at[q] /\ this'[q] = this[q] /\ interfaces'[q] = interfaces[q]
  BY <1>0, <1>2, <1>4 DEF Dies, WhereInv
<1>5. ASSUME Throws(p) \/ Constructed(p, this[p]) \/ Destructed(p)
      PROVE  at'[q] = at[q] /\ this'[q] = this[q] /\ interfaces'[q] = interfaces[q]
  BY <1>0, <1>2, <1>4, <1>5 DEF Throws, Constructed, Destructed, WhereInv
<1>6. CASE NextOption(p)
  <2>1. \/ UNCHANGED <<at, this, interfaces>> \/ Step(p, "exit") \/ Throws(p)
        \/ \E i, place : /\ this' = [this EXCEPT ![p] = i]
                          /\ Go(p, place) /\ UNCHANGED interfaces
    BY <1>6 DEF NextOption
  <2> QED BY <1>0, <1>1, <1>2, <1>3, <1>5, <2>1 DEF WhereInv
<1>7. CASE EnterLoop(p) \/ Loop(p) \/ Select(p) \/ Getline(p) \/ Ended(p) \/ SigintInSelect(p)
  BY <1>3, <1>7 DEF EnterLoop, Loop, Select, Getline, Ended, SigintInSelect
<1>8. CASE Construct(p)
  <2>1. CASE SerialGet(p) \/ PtyOpen(p) \/ \E side \in Sides : PipeMkfifo(p, side)
    BY <1>0, <1>2, <1>5, <2>1 DEF SerialGet, PtyOpen, PipeMkfifo, WhereInv
  <2>2. CASE SerialOpen(p) \/ SerialExclusive(p) \/ SerialSet(p)
    BY <1>3, <1>5, <2>2 DEF SerialOpen, SerialExclusive, SerialSet
  <2>3. CASE FpgaOpen(p) \/ UdpBind(p) \/ CanOpen(p) \/ TcpConnect(p)
    BY <1>5, <2>3 DEF FpgaOpen, UdpBind, CanOpen, TcpConnect
  <2>4. ASSUME NEW side \in Sides, PipeOpen(p, side) \/ PipeReopen(p, side)
        PROVE  at'[q] = at[q] /\ this'[q] = this[q] /\ interfaces'[q] = interfaces[q]
    BY <1>3, <1>5, <2>4 DEF PipeOpen, PipeReopen, PipeOpened
  <2>5. CASE PtyLstat(p) \/ PtyStat(p) \/ PtyUnlink(p) \/ PtySymlink(p)
    BY <1>3, <1>5, <2>5 DEF PtyLstat, PtyStat, PtyUnlink, PtySymlink
  <2> QED BY <1>8, <2>1, <2>2, <2>3, <2>4, <2>5 DEF Construct
<1>9. CASE Destruct(p)
  BY <1>3, <1>4, <1>5, <1>9
     DEF Destruct, DestructNext, SerialRelease, SerialRestore, PipeUnlinkRx, PipeUnlinkTx, PtyCheck, PtyClean
<1>10. CASE ConstructorFails(p) \/ ProcessFails(p) \/ Killed(p)
  BY <1>4, <1>5, <1>10 DEF ConstructorFails, ProcessFails, Killed
<1>11. ASSUME NEW line, Start(p, line) \/ Types(p, line) \/ Sigint(p)
       PROVE  at'[q] = at[q] /\ this'[q] = this[q] /\ interfaces'[q] = interfaces[q]
  BY <1>1, <1>2, <1>11 DEF Start, Types, Sigint
<1> QED BY <1>6, <1>7, <1>8, <1>9, <1>10, <1>11 DEF Acts, Runs

LEMMA InitFifos == Init => FifoInv
<1> SUFFICES ASSUME Init, NEW p \in Programs PROVE FifoInvOf(p)
  BY DEF FifoInv
<1>1. at[p] = "off" /\ interfaces[p] = <<>>
  BY DEF Init
<1> QED BY <1>1 DEF FifoInvOf, Constructing

LEMMA NextActs == Next => \E p \in Programs : Acts(p)
BY DEF Next, Acts

LEMMA NextFifos == TypeInv /\ FifoInv /\ [Next]_vars => FifoInv'
<1> SUFFICES ASSUME TypeInv, FifoInv, [Next]_vars PROVE FifoInv'
  OBVIOUS
<1>1. CASE UNCHANGED vars
  BY <1>1 DEF vars, machine, FifoInv, FifoInvOf, Unlinked, Entry, FirstEntry, First, Kind
<1>2. ASSUME NEW p \in Programs, Acts(p), NEW q \in Programs PROVE FifoInvOf(q)'
  <2>1. CASE q = p
    BY <1>2, <2>1, ActsStep
  <2>2. CASE q # p
    BY <1>2, <2>2, ActsStep, ActsOthers, OthersFilesKept, FifoOthers
  <2> QED BY <2>1, <2>2
<1> QED BY <1>1, <1>2, NextActs DEF FifoInv

(***************************************************************************)
(* However many programs share the pipes, race to create them, fail or are *)
(* killed: a fifo goes away only in the destructor of the program that made*)
(* it.  The invariant says why: what an interface is to unlink is a fifo of*)
(* its own program, and no two interfaces are to unlink the same.          *)
(***************************************************************************)
THEOREM FifosOfMakers == Spec => OnlyMakerRemovesFifo
<1> DEFINE Kept == \A path \in DOMAIN files :
                     files[path].type = "fifo" /\ files'[path] # files[path] =>
                       files[path].maker \in Programs /\ at[files[path].maker] \in {"~rx", "~tx"}
<1>1. TypeInv /\ FifoInv /\ [Next]_vars => [Kept]_vars
  <2> SUFFICES ASSUME TypeInv, FifoInv, Next PROVE Kept
    OBVIOUS
  <2>1. PICK p \in Programs : Acts(p)
    BY NextActs
  <2>2. ChangesOf(p) /\ DOMAIN files = Names \X {"rx", "tx", "link"}
    BY <2>1, ActsStep, TypeParts DEF MachineOK
  <2>3. ASSUME NEW path \in DOMAIN files, files[path].type = "fifo", files'[path] # files[path]
        PROVE  files[path].maker \in Programs /\ at[files[path].maker] \in {"~rx", "~tx"}
    <3>1. PICK x \in Names, side \in {"rx", "tx", "link"} : path = <<x, side>>
      BY <2>2
    <3>2. files[path] = Fifo(p) /\ at[p] \in {"~rx", "~tx"}
      BY <2>2, <2>3, <3>1 DEF ChangesOf
    <3> QED BY <3>2, EntryFacts
  <2> QED BY <2>3
<1>2. Spec => [](TypeInv /\ FifoInv)
  BY InitTypes, NextTypes, InitFifos, NextFifos, PTL DEF Spec
<1>3. Spec => [][Kept]_vars
  BY <1>1, <1>2, PTL DEF Spec
<1> QED BY <1>3 DEF OnlyMakerRemovesFifo

-----------------------------------------------------------------------------
(***************************************************************************)
(* What a program is responsible for: the interfaces it owns and the one it*)
(* constructs.                                                             *)
(***************************************************************************)
Mine(p) ==
  {interfaces[p][k] : k \in 1 .. Len(interfaces[p])} \cup {i \in {this[p]} : at[p] \in Constructing}

Makes(p, x, side) == \E i \in Mine(p) : i.uri.kind = "pipe" /\ side \in i.unlinks /\ i.uri.name = x

Died == Over \ {"ended"}

(***************************************************************************)
(* Why a program that ends leaves nothing: whatever it has on the machine  *)
(* belongs to an interface it is responsible for.                          *)
(***************************************************************************)
Accounted(p) ==
  /\ at[p] \notin Died =>
       \A x \in Names, side \in {"rx", "tx", "link"} :
         files[<<x, side>>] = Fifo(p) => Makes(p, x, side)
  /\ \A k \in Pts : master[k] = p => \E i \in Mine(p) : i.uri.kind = "pty" /\ i.pts = k
  /\ \A q \in Ports : bound[q] = p => \E i \in Mine(p) : i.uri.kind = "udp" /\ i.uri.in = q
  /\ \A t \in Ttys : p \in opened[t] => \E i \in Mine(p) : i.uri.kind = "serial" /\ i.uri.tty = t

LeftInvOf(p) ==
  /\ Accounted(p)
  /\ at[p] \in {"off"} \cup Over => interfaces[p] = <<>>
  /\ at[p] = "pty.open" => this[p].pts = 0
  /\ at[p] = "~tx" /\ "rx" \in First(p).unlinks => files[<<First(p).uri.name, "rx">>] # Fifo(p)

LeftInv == \A p \in Programs : LeftInvOf(p)

LEMMA FifosAccounted ==
  ASSUME NEW p, Accounted(p), at[p] \notin Died, NEW x \in Names, NEW side \in {"rx", "tx", "link"},
         files[<<x, side>>] = Fifo(p)
  PROVE  Makes(p, x, side)
<1>1. \A y \in Names, s \in {"rx", "tx", "link"} : files[<<y, s>>] = Fifo(p) => Makes(p, y, s)
  BY Zenon DEF Accounted
<1> QED BY <1>1

(***************************************************************************)
(* A step after which q has nothing on the machine it did not have before. *)
(***************************************************************************)
GivesNothing(q) ==
  /\ \A x \in Names, side \in {"rx", "tx", "link"} :
       files'[<<x, side>>] = Fifo(q) => files[<<x, side>>] = Fifo(q)
  /\ \A k \in Pts : master'[k] = q => master[k] = q
  /\ \A n \in Ports : bound'[n] = q => bound[n] = q
  /\ \A t \in Ttys : q \in opened'[t] => q \in opened[t]

Acquires(p) == SerialOpen(p) \/ UdpBind(p) \/ PtyOpen(p) \/ \E side \in Sides : PipeMkfifo(p, side)

LEMMA DiesGivesNothing ==
  ASSUME NEW p \in Programs, NEW how, Dies(p, how), NEW q \in Programs
  PROVE  GivesNothing(q)
BY DevicesAssumption DEF Dies, SystemCloses, GivesNothing

LEMMA SameGivesNothing ==
  ASSUME UNCHANGED <<files, master, bound, opened>>, NEW q
  PROVE  GivesNothing(q)
BY DEF GivesNothing

LEMMA FilesGiveNothing ==
  ASSUME MachineOK, NEW path, NEW entry, NEW q, entry # Fifo(q),
         files' = [files EXCEPT ![path] = entry], UNCHANGED <<bound, opened>>,
         \A k \in Pts : master'[k] = q => master[k] = q
  PROVE  GivesNothing(q)
<1>1. ASSUME NEW x \in Names, NEW side \in {"rx", "tx", "link"}
      PROVE  files'[<<x, side>>] \in {files[<<x, side>>], entry}
  BY DEF MachineOK
<1> QED BY <1>1 DEF GivesNothing

LEMMA ConstructGives ==
  ASSUME MachineOK, NEW p \in Programs, Construct(p), NEW q \in Programs, q # p \/ ~Acquires(p)
  PROVE  GivesNothing(q)
<1>0. ASSUME Throws(p) PROVE GivesNothing(q)
  BY <1>0, DiesGivesNothing DEF Throws
<1>1. CASE SerialOpen(p)
  <2>1. CASE opened' = [opened EXCEPT ![Tty(p)] = @ \cup {p}] /\ UNCHANGED <<files, master, bound>>
    BY <1>1, <2>1 DEF GivesNothing, MachineOK, Acquires
  <2> QED BY <1>0, <1>1, <2>1 DEF SerialOpen
<1>2. CASE SerialGet(p) \/ SerialExclusive(p) \/ SerialSet(p)
  BY <1>2, SameGivesNothing DEF SerialGet, SerialExclusive, SerialSet, machine
<1>3. CASE FpgaOpen(p) \/ CanOpen(p) \/ TcpConnect(p)
  BY <1>0, <1>3, SameGivesNothing DEF FpgaOpen, CanOpen, TcpConnect, machine
<1>4. CASE UdpBind(p)
  <2>1. CASE bound' = [bound EXCEPT ![this[p].uri.in] = p] /\ UNCHANGED <<files, master, opened>>
    BY <1>4, <2>1 DEF GivesNothing, MachineOK, Acquires
  <2> QED BY <1>0, <1>4, <2>1 DEF UdpBind
<1>5. ASSUME NEW side \in Sides, PipeOpen(p, side) \/ PipeReopen(p, side) PROVE GivesNothing(q)
  BY <1>0, <1>5, SameGivesNothing DEF PipeOpen, PipeReopen, PipeOpened, machine
<1>6. ASSUME NEW side \in Sides, PipeMkfifo(p, side) PROVE GivesNothing(q)
  <2>1. q # p => Fifo(p) # Fifo(q)
    BY DEF Fifo
  <2> QED BY <1>0, <1>6, <2>1, FilesGiveNothing DEF PipeMkfifo, Acquires
<1>7. CASE PtyOpen(p)
  BY <1>7 DEF PtyOpen, GivesNothing, MachineOK, Acquires
<1>8. CASE PtyLstat(p) \/ PtyStat(p)
  BY <1>0, <1>8, SameGivesNothing DEF PtyLstat, PtyStat, machine
<1>9. CASE PtyUnlink(p) \/ PtySymlink(p)
  <2>1. Nothing # Fifo(q) /\ Link(p, this[p].pts) # Fifo(q)
    BY EntryFacts
  <2> QED BY <1>0, <1>9, <2>1, FilesGiveNothing DEF PtyUnlink, PtySymlink
<1> QED BY <1>1, <1>2, <1>3, <1>4, <1>5, <1>6, <1>7, <1>8, <1>9 DEF Construct

LEMMA DestructGives ==
  ASSUME MachineOK, NEW p \in Programs, Destruct(p), NEW q \in Programs
  PROVE  GivesNothing(q)
<1>0. Nothing # Fifo(q)
  BY EntryFacts
<1>1. ASSUME NEW how, Dies(p, how) PROVE GivesNothing(q)
  BY <1>1, DiesGivesNothing
<1>2. CASE DestructNext(p)
  <2>1. CASE bound' = [bound EXCEPT ![First(p).uri.in] = NoProgram] /\ UNCHANGED <<files, master, opened>>
    BY <2>1, DevicesAssumption DEF GivesNothing, MachineOK
  <2> QED BY <1>2, <2>1, SameGivesNothing DEF DestructNext, machine
<1>3. CASE SerialRelease(p)
  BY <1>3, SameGivesNothing DEF SerialRelease
<1>4. CASE SerialRestore(p)
  BY <1>4 DEF SerialRestore, GivesNothing, MachineOK
<1>5. CASE PipeUnlinkRx(p) \/ PipeUnlinkTx(p)
  BY <1>0, <1>5, FilesGiveNothing, SameGivesNothing DEF PipeUnlinkRx, PipeUnlinkTx
<1>6. CASE PtyCheck(p)
  BY <1>1, <1>6, SameGivesNothing DEF PtyCheck, machine
<1>7. CASE PtyClean(p)
  <2>1. CASE /\ files' = [files EXCEPT ![<<First(p).uri.name, "link">>] = Nothing]
             /\ master' = [master EXCEPT ![First(p).pts] = NoProgram] /\ UNCHANGED <<opened, bound>>
    <3>1. \A k \in Pts : master'[k] = q => master[k] = q
      BY <2>1, DevicesAssumption DEF MachineOK
    <3> QED BY <1>0, <2>1, <3>1, FilesGiveNothing
  <2> QED BY <1>1, <1>7, <2>1 DEF PtyClean
<1> QED BY <1>2, <1>3, <1>4, <1>5, <1>6, <1>7 DEF Destruct

LEMMA ActsGive ==
  ASSUME MachineOK, NEW p \in Programs, Acts(p), NEW q \in Programs, q # p \/ ~Acquires(p)
  PROVE  GivesNothing(q)
<1>1. ASSUME UNCHANGED machine PROVE GivesNothing(q)
  BY <1>1, SameGivesNothing DEF machine
<1>2. ASSUME NEW how, Dies(p, how) PROVE GivesNothing(q)
  BY <1>2, DiesGivesNothing
<1>3. CASE NextOption(p)
  BY <1>1, <1>2, <1>3 DEF NextOption, Throws
<1>4. CASE EnterLoop(p) \/ Loop(p) \/ Select(p) \/ Getline(p) \/ Ended(p) \/ SigintInSelect(p)
  BY <1>1, <1>4 DEF EnterLoop, Loop, Select, Getline, Ended, SigintInSelect
<1>5. CASE ConstructorFails(p) \/ ProcessFails(p) \/ Killed(p)
  BY <1>2, <1>5 DEF ConstructorFails, ProcessFails, Killed, Throws
<1>6. ASSUME NEW line, Start(p, line) \/ Types(p, line) \/ Sigint(p) PROVE GivesNothing(q)
  BY <1>1, <1>6 DEF Start, Types, Sigint
<1> QED BY <1>3, <1>4, <1>5, <1>6, ConstructGives, DestructGives DEF Acts, Runs

(***************************************************************************)
(* The steps of the others take nothing from the interfaces of q.          *)
(***************************************************************************)
LEMMA LeftOthers ==
  ASSUME WhereInv, NEW q \in Programs, LeftInvOf(q), GivesNothing(q),
         at'[q] = at[q], this'[q] = this[q], interfaces'[q] = interfaces[q]
  PROVE  LeftInvOf(q)'
<1>1. Mine(q)' = Mine(q)
  BY DEF Mine
<1>2. Accounted(q)'
  BY <1>1 DEF LeftInvOf, Accounted, GivesNothing, Makes
<1>3. ASSUME at'[q] = "~tx", "rx" \in First(q)'.unlinks
      PROVE  files'[<<First(q)'.uri.name, "rx">>] # Fifo(q)
  <2>1. First(q)' = First(q) /\ at[q] = "~tx"
    BY <1>3 DEF First
  <2>2. First(q).uri.name \in Names
    BY <2>1, WhereFacts, FirstFacts, UriNames DEF PlaceInv, Destructing, First
  <2> QED BY <1>3, <2>1, <2>2 DEF LeftInvOf, GivesNothing
<1> QED BY <1>2, <1>3 DEF LeftInvOf

(***************************************************************************)
(* Steps of p between constructors and destructors: its interfaces stay.   *)
(***************************************************************************)
LEMMA LeftMoves ==
  ASSUME WhereInv, NEW p \in Programs, LeftInvOf(p), GivesNothing(p), interfaces'[p] = interfaces[p],
         at[p] \notin Constructing \cup Died, at'[p] # "~tx",
         at'[p] \in {"off"} \cup Over => interfaces[p] = <<>>,
         at'[p] = "pty.open" => this'[p].pts = 0
  PROVE  LeftInvOf(p)'
<1>1. Mine(p) \subseteq Mine(p)'
  BY DEF Mine
<1>2. Accounted(p)'
  BY <1>1 DEF LeftInvOf, Accounted, GivesNothing, Makes
<1> QED BY <1>2 DEF LeftInvOf

(***************************************************************************)
(* A constructor goes on, and its interface knows what it has made.        *)
(***************************************************************************)
LEMMA LeftConstructing ==
  ASSUME WhereInv, NEW p \in Programs, LeftInvOf(p), GivesNothing(p), interfaces'[p] = interfaces[p],
         at[p] \in Constructing, at'[p] \in Constructing \ {"pty.open"},
         this'[p].uri = this[p].uri, this[p].unlinks \subseteq this'[p].unlinks, this'[p].pts = this[p].pts
  PROVE  LeftInvOf(p)'
<1>1. at[p] \notin Died /\ at'[p] \notin {"off", "~tx"} \cup Over
  BY DEF Constructing, Died, Over
<1>2. ASSUME NEW i \in Mine(p)
      PROVE  \E j \in Mine(p)' : j.uri = i.uri /\ i.unlinks \subseteq j.unlinks /\ j.pts = i.pts
  <2>1. CASE i = this[p]
    <3>1. this'[p] \in Mine(p)'
      BY DEF Mine
    <3> QED BY <2>1, <3>1
  <2>2. CASE i # this[p]
    BY <1>2, <2>2 DEF Mine
  <2> QED BY <2>1, <2>2
<1>3. Accounted(p)'
  <2>1. ASSUME NEW x \in Names, NEW side \in {"rx", "tx", "link"}, files'[<<x, side>>] = Fifo(p)
        PROVE  Makes(p, x, side)'
    <3>1. Makes(p, x, side)
      BY <1>1, <2>1, FifosAccounted DEF LeftInvOf, GivesNothing
    <3>2. PICK i \in Mine(p) : i.uri.kind = "pipe" /\ side \in i.unlinks /\ i.uri.name = x
      BY <3>1 DEF Makes
    <3> QED BY <1>2, <3>2 DEF Makes
  <2>2. ASSUME NEW k \in Pts, master'[k] = p PROVE \E j \in Mine(p)' : j.uri.kind = "pty" /\ j.pts = k
    <3>1. PICK i \in Mine(p) : i.uri.kind = "pty" /\ i.pts = k
      BY <2>2 DEF LeftInvOf, Accounted, GivesNothing
    <3> QED BY <1>2, <3>1
  <2>3. ASSUME NEW n \in Ports, bound'[n] = p PROVE \E j \in Mine(p)' : j.uri.kind = "udp" /\ j.uri.in = n
    <3>1. PICK i \in Mine(p) : i.uri.kind = "udp" /\ i.uri.in = n
      BY <2>3 DEF LeftInvOf, Accounted, GivesNothing
    <3> QED BY <1>2, <3>1
  <2>4. ASSUME NEW t \in Ttys, p \in opened'[t] PROVE \E j \in Mine(p)' : j.uri.kind = "serial" /\ j.uri.tty = t
    <3>1. PICK i \in Mine(p) : i.uri.kind = "serial" /\ i.uri.tty = t
      BY <2>4 DEF LeftInvOf, Accounted, GivesNothing
    <3> QED BY <1>2, <3>1
  <2> QED BY <2>1, <2>2, <2>3, <2>4 DEF Accounted
<1> QED BY <1>1, <1>3 DEF LeftInvOf

LEMMA LeftConstructed ==
  ASSUME WhereInv, NEW p \in Programs, LeftInvOf(p), GivesNothing(p), at[p] \in Constructing,
         Constructed(p, this[p])
  PROVE  LeftInvOf(p)'
<1> DEFINE new == Append(interfaces[p], this[p])
<1>0. this[p] \in Interfaces /\ interfaces[p] \in Seq(Interfaces)
  BY WhereFacts
<1>1. at'[p] = "options" /\ interfaces'[p] = new
  BY DEF Constructed, Go, WhereInv
<1>2. Len(new) = Len(interfaces[p]) + 1 /\ Len(interfaces[p]) \in Nat
      /\ (\A k \in 1 .. Len(interfaces[p]) : new[k] = interfaces[p][k])
      /\ new[Len(interfaces[p]) + 1] = this[p]
  BY <1>0, AppendFacts
<1> HIDE DEF new
<1>3. Mine(p) \subseteq Mine(p)'
  <2>1. ASSUME NEW i \in Mine(p) PROVE \E k \in 1 .. Len(new) : i = new[k]
    <3>1. CASE i = this[p]
      BY <1>2, <3>1
    <3>2. CASE i # this[p]
      <4>1. PICK k \in 1 .. Len(interfaces[p]) : i = interfaces[p][k]
        BY <2>1, <3>2 DEF Mine
      <4> QED BY <1>2, <4>1
    <3> QED BY <3>1, <3>2
  <2> QED BY <1>1, <2>1 DEF Mine
<1>4. at[p] \notin Died
  BY DEF Constructing, Died, Over
<1>5. Accounted(p)'
  BY <1>3, <1>4 DEF LeftInvOf, Accounted, GivesNothing, Makes
<1>6. at'[p] \notin {"off", "pty.open", "~tx"} \cup Over
  BY <1>1 DEF Over
<1> QED BY <1>5, <1>6 DEF LeftInvOf

(***************************************************************************)
(* A destructor releases what its interface stands for.                    *)
(***************************************************************************)
LEMMA LeftDestructed ==
  ASSUME WhereInv, NEW p \in Programs, LeftInvOf(p), GivesNothing(p), Destructed(p),
         interfaces[p] # <<>>, at[p] \notin Constructing \cup Died,
         \A x \in Names, side \in {"rx", "tx", "link"} :
           First(p).uri.kind = "pipe" /\ side \in First(p).unlinks /\ First(p).uri.name = x =>
             files'[<<x, side>>] # Fifo(p),
         \A k \in Pts : First(p).uri.kind = "pty" /\ First(p).pts = k => master'[k] # p,
         \A n \in Ports : First(p).uri.kind = "udp" /\ First(p).uri.in = n => bound'[n] # p,
         \A t \in Ttys : First(p).uri.kind = "serial" /\ First(p).uri.tty = t => p \notin opened'[t]
  PROVE  LeftInvOf(p)'
<1> DEFINE new == Tail(interfaces[p])
<1>0. interfaces[p] \in Seq(Interfaces)
  BY WhereFacts
<1>1. at'[p] = "exit" /\ interfaces'[p] = new
  BY DEF Destructed, Go, WhereInv
<1>2. Len(new) = Len(interfaces[p]) - 1 /\ Len(interfaces[p]) \in Nat
      /\ \A k \in 1 .. Len(interfaces[p]) - 1 : new[k] = interfaces[p][k + 1]
  BY <1>0, TailFacts
<1> HIDE DEF new
<1>3. Mine(p) \ {First(p)} \subseteq Mine(p)'
  <2>1. ASSUME NEW i \in Mine(p) \ {First(p)} PROVE \E k \in 1 .. Len(new) : i = new[k]
    <3>1. PICK k \in 1 .. Len(interfaces[p]) : i = interfaces[p][k]
      BY <2>1 DEF Mine
    <3>2. k # 1
      BY <2>1, <3>1, FirstFacts
    <3>3. k - 1 \in 1 .. Len(interfaces[p]) - 1 /\ (k - 1) + 1 = k
      BY <1>2, <3>1, <3>2
    <3>4. new[k - 1] = interfaces[p][k]
      BY <1>2, <3>3
    <3> QED BY <1>2, <3>1, <3>3, <3>4
  <2> QED BY <1>1, <2>1 DEF Mine
<1>4. Accounted(p)'
  BY <1>3 DEF LeftInvOf, Accounted, GivesNothing, Makes
<1>5. at'[p] \notin {"off", "pty.open", "~tx"} \cup Over
  BY <1>1 DEF Over
<1> QED BY <1>4, <1>5 DEF LeftInvOf

(***************************************************************************)
(* The system closes what a program had open that died.                    *)
(***************************************************************************)
LEMMA LeftDies ==
  ASSUME WhereInv, MachineOK, NEW p \in Programs, NEW how \in Died, Dies(p, how)
  PROVE  LeftInvOf(p)'
<1>1. at'[p] = how /\ interfaces'[p] = <<>>
  BY DEF Dies, Go, WhereInv
<1>2. at'[p] \notin {"pty.open", "~tx"} /\ at'[p] \in Died
  BY <1>1 DEF Died, Over
<1>3. /\ \A k \in Pts : master'[k] # p
      /\ \A n \in Ports : bound'[n] # p
      /\ \A t \in Ttys : p \notin opened'[t]
  BY DevicesAssumption DEF Dies, SystemCloses
<1>4. Accounted(p)'
  BY <1>2, <1>3 DEF Accounted
<1> QED BY <1>1, <1>2, <1>4 DEF LeftInvOf

LEMMA LeftConstruct ==
  ASSUME TypeInv, NEW p \in Programs, LeftInvOf(p), Construct(p)
  PROVE  LeftInvOf(p)'
<1>0. WhereInv /\ MachineOK /\ this[p] \in Interfaces /\ PlaceInv(at[p], this[p], interfaces[p])
  BY TypeParts, WhereFacts
<1>1. at[p] \in Constructing
  BY DEF Construct, SerialOpen, SerialGet, SerialExclusive, SerialSet, FpgaOpen, UdpBind, CanOpen, TcpConnect,
         PipeOpen, PipeMkfifo, PipeReopen, PtyOpen, PtyLstat, PtyStat, PtyUnlink, PtySymlink, Constructing,
         OpenAt, MkfifoAt, ReopenAt, Sides
<1>2. ASSUME Throws(p) PROVE LeftInvOf(p)'
  BY <1>0, <1>2, LeftDies DEF Throws, Died, Over
<1>3. ~Acquires(p) => GivesNothing(p)
  BY <1>0, ConstructGives
<1>4. ASSUME GivesNothing(p), Constructed(p, this[p]) PROVE LeftInvOf(p)'
  BY <1>0, <1>1, <1>4, LeftConstructed
<1>5. ASSUME GivesNothing(p), NEW place \in Constructing \ {"pty.open"}, Step(p, place) PROVE LeftInvOf(p)'
  BY <1>0, <1>1, <1>5, LeftConstructing DEF Step, Go, WhereInv
<1>6. ASSUME UNCHANGED machine PROVE GivesNothing(p)
  BY <1>6, SameGivesNothing DEF machine
<1>7. this[p] \in Mine(p)
  BY <1>1 DEF Mine
<1>8. at[p] \notin Died
  BY <1>1 DEF Constructing, Died, Over
<1>9. CASE SerialOpen(p)
  <2>1. CASE /\ Step(p, "serial.get") /\ opened' = [opened EXCEPT ![Tty(p)] = @ \cup {p}]
             /\ UNCHANGED <<files, master, bound>>
    <3>1. Kind(p) = "serial"
      BY <1>0, <1>9 DEF SerialOpen, PlaceInv, Places, Kind
    <3>2. at'[p] = "serial.get" /\ this' = this /\ interfaces' = interfaces
      BY <1>0, <2>1 DEF Step, Go, WhereInv
    <3>3. Mine(p) \subseteq Mine(p)'
      BY <3>2 DEF Mine, Constructing
    <3>4. \A t \in Ttys : p \in opened'[t] => p \in opened[t] \/ t = Tty(p)
      BY <1>0, <2>1 DEF MachineOK
    <3>5. Accounted(p)'
      BY <1>7, <1>8, <2>1, <3>1, <3>3, <3>4 DEF LeftInvOf, Accounted, Kind, Tty, Makes
    <3>6. at'[p] \notin {"off", "pty.open", "~tx"} \cup Over
      BY <3>2 DEF Over
    <3> QED BY <3>5, <3>6 DEF LeftInvOf
  <2> QED BY <1>2, <1>9, <2>1 DEF SerialOpen
<1>10. CASE UdpBind(p)
  <2>1. CASE /\ Constructed(p, this[p]) /\ bound' = [bound EXCEPT ![this[p].uri.in] = p]
             /\ UNCHANGED <<files, master, opened>>
    <3>1. Kind(p) = "udp"
      BY <1>0, <1>10 DEF UdpBind, PlaceInv, Places, Kind
    <3>2. \A n \in Ports : bound'[n] = p => bound[n] = p \/ n = this[p].uri.in
      BY <1>0, <2>1 DEF MachineOK
    <3>3. at'[p] = "options" /\ interfaces'[p] = Append(interfaces[p], this[p])
      BY <1>0, <2>1 DEF Constructed, Go, WhereInv
    <3>4. Mine(p) \subseteq Mine(p)'
      <4> DEFINE new == Append(interfaces[p], this[p])
      <4>1. Len(new) = Len(interfaces[p]) + 1 /\ Len(interfaces[p]) \in Nat
            /\ (\A k \in 1 .. Len(interfaces[p]) : new[k] = interfaces[p][k])
            /\ new[Len(interfaces[p]) + 1] = this[p]
        BY <1>0, WhereFacts, AppendFacts
      <4> HIDE DEF new
      <4>2. ASSUME NEW i \in Mine(p) PROVE \E k \in 1 .. Len(new) : i = new[k]
        <5>1. CASE i = this[p]
          BY <4>1, <5>1
        <5>2. CASE i # this[p]
          <6>1. PICK k \in 1 .. Len(interfaces[p]) : i = interfaces[p][k]
            BY <4>2, <5>2 DEF Mine
          <6> QED BY <4>1, <6>1
        <5> QED BY <5>1, <5>2
      <4>3. interfaces'[p] = new
        BY <3>3 DEF new
      <4> QED BY <4>2, <4>3 DEF Mine
    <3>5. Accounted(p)'
      BY <1>7, <1>8, <2>1, <3>1, <3>2, <3>4 DEF LeftInvOf, Accounted, Kind, Makes
    <3>6. at'[p] \notin {"off", "pty.open", "~tx"} \cup Over
      BY <3>3 DEF Over
    <3> QED BY <3>5, <3>6 DEF LeftInvOf
  <2> QED BY <1>2, <1>10, <2>1 DEF UdpBind
<1>11. ASSUME NEW side \in Sides, PipeMkfifo(p, side) PROVE LeftInvOf(p)'
  <2>1. CASE /\ files' = [files EXCEPT ![<<this[p].uri.name, side>>] = Fifo(p)]
             /\ this' = [this EXCEPT ![p].unlinks = @ \cup {side}] /\ Go(p, ReopenAt[side])
             /\ UNCHANGED <<interfaces, master, opened, bound>>
    <3>0. this[p].uri.kind = "pipe"
      BY <1>0, <1>11 DEF PipeMkfifo, MkfifoAt, Sides, PlaceInv, Places
    <3>1. /\ this'[p] = [this[p] EXCEPT !.unlinks = @ \cup {side}] /\ at'[p] = ReopenAt[side]
          /\ interfaces' = interfaces
      BY <1>0, <2>1 DEF Go, WhereInv
    <3>2. this'[p].uri = this[p].uri /\ this'[p].pts = this[p].pts
          /\ this'[p].unlinks = this[p].unlinks \cup {side}
      BY <1>0, <3>1 DEF Interfaces
    <3>3. at'[p] \in Constructing /\ at'[p] \notin {"off", "pty.open", "~tx"} \cup Over
      BY <3>1 DEF ReopenAt, Sides, Constructing, Over
    <3>4. ASSUME NEW i \in Mine(p)
          PROVE  \E j \in Mine(p)' : j.uri = i.uri /\ i.unlinks \subseteq j.unlinks /\ j.pts = i.pts
      <4>1. CASE i = this[p]
        <5>1. this'[p] \in Mine(p)'
          BY <3>3 DEF Mine
        <5> QED BY <3>2, <4>1, <5>1
      <4>2. CASE i # this[p]
        BY <3>1, <3>4, <4>2 DEF Mine
      <4> QED BY <4>1, <4>2
    <3>5. ASSUME NEW x \in Names, NEW s \in {"rx", "tx", "link"}, files'[<<x, s>>] = Fifo(p)
          PROVE  Makes(p, x, s)'
      <4>1. files[<<x, s>>] = Fifo(p) \/ (x = this[p].uri.name /\ s = side)
        BY <1>0, <2>1, <3>5 DEF MachineOK
      <4>2. CASE x = this[p].uri.name /\ s = side
        <5>1. this'[p] \in Mine(p)'
          BY <3>3 DEF Mine
        <5> QED BY <3>0, <3>2, <4>2, <5>1 DEF Makes
      <4>3. CASE files[<<x, s>>] = Fifo(p)
        <5>1. Makes(p, x, s)
          BY <1>8, <4>3, FifosAccounted DEF LeftInvOf
        <5>2. PICK i \in Mine(p) : i.uri.kind = "pipe" /\ s \in i.unlinks /\ i.uri.name = x
          BY <5>1 DEF Makes
        <5> QED BY <3>4, <5>2 DEF Makes
      <4> QED BY <4>1, <4>2, <4>3
    <3>6. ASSUME NEW k \in Pts, master'[k] = p PROVE \E j \in Mine(p)' : j.uri.kind = "pty" /\ j.pts = k
      <4>1. PICK i \in Mine(p) : i.uri.kind = "pty" /\ i.pts = k
        BY <2>1, <3>6 DEF LeftInvOf, Accounted
      <4> QED BY <3>4, <4>1
    <3>7. ASSUME NEW n \in Ports, bound'[n] = p PROVE \E j \in Mine(p)' : j.uri.kind = "udp" /\ j.uri.in = n
      <4>1. PICK i \in Mine(p) : i.uri.kind = "udp" /\ i.uri.in = n
        BY <2>1, <3>7 DEF LeftInvOf, Accounted
      <4> QED BY <3>4, <4>1
    <3>8. ASSUME NEW t \in Ttys, p \in opened'[t] PROVE \E j \in Mine(p)' : j.uri.kind = "serial" /\ j.uri.tty = t
      <4>1. PICK i \in Mine(p) : i.uri.kind = "serial" /\ i.uri.tty = t
        BY <2>1, <3>8 DEF LeftInvOf, Accounted
      <4> QED BY <3>4, <4>1
    <3>9. Accounted(p)'
      BY <3>5, <3>6, <3>7, <3>8 DEF Accounted
    <3> QED BY <3>3, <3>9 DEF LeftInvOf
  <2> QED BY <1>2, <1>11, <2>1 DEF PipeMkfifo
<1>12. CASE PtyOpen(p)
  <2>1. PICK k \in Pts : master' = [master EXCEPT ![k] = p] /\ this' = [this EXCEPT ![p].pts = k]
    BY <1>12 DEF PtyOpen
  <2>2. /\ this'[p] = [this[p] EXCEPT !.pts = k] /\ at'[p] = "pty.lstat"
        /\ UNCHANGED <<interfaces, files, opened, bound>>
    BY <1>0, <1>12, <2>1 DEF PtyOpen, Go, WhereInv
  <2>0. this[p].uri.kind = "pty"
    BY <1>0, <1>12 DEF PtyOpen, PlaceInv, Places
  <2>3. this'[p].uri = this[p].uri /\ this'[p].pts = k /\ this'[p].unlinks = this[p].unlinks
    BY <1>0, <2>2 DEF Interfaces
  <2>4. at'[p] \in Constructing /\ at'[p] \notin {"off", "pty.open", "~tx"} \cup Over
    BY <2>2 DEF Constructing, Over
  <2>5. this'[p] \in Mine(p)'
    BY <2>4 DEF Mine
  <2>6. this[p].pts \notin Pts
    BY <1>12, DevicesAssumption DEF LeftInvOf, PtyOpen
  <2>7. ASSUME NEW i \in Mine(p), i # this[p] PROVE i \in Mine(p)'
    BY <2>2, <2>7 DEF Mine
  <2>8. ASSUME NEW i \in Mine(p)
        PROVE  \E j \in Mine(p)' : j.uri = i.uri /\ i.unlinks = j.unlinks /\ (i.pts \in Pts => j.pts = i.pts)
    BY <2>3, <2>5, <2>6, <2>7
  <2>9. ASSUME NEW x \in Names, NEW s \in {"rx", "tx", "link"}, files'[<<x, s>>] = Fifo(p)
        PROVE  Makes(p, x, s)'
    <3>0. files[<<x, s>>] = Fifo(p)
      BY <2>2, <2>9
    <3>1. Makes(p, x, s)
      BY <1>8, <3>0, FifosAccounted DEF LeftInvOf
    <3>2. PICK i \in Mine(p) : i.uri.kind = "pipe" /\ s \in i.unlinks /\ i.uri.name = x
      BY <3>1 DEF Makes
    <3> QED BY <2>8, <3>2 DEF Makes
  <2>10. ASSUME NEW l \in Pts, master'[l] = p PROVE \E j \in Mine(p)' : j.uri.kind = "pty" /\ j.pts = l
    <3>1. CASE l = k
      BY <2>0, <2>3, <2>5, <3>1
    <3>2. CASE l # k
      <4>1. PICK i \in Mine(p) : i.uri.kind = "pty" /\ i.pts = l
        BY <1>0, <2>1, <2>10, <3>2 DEF LeftInvOf, Accounted, MachineOK
      <4> QED BY <2>8, <4>1
    <3> QED BY <3>1, <3>2
  <2>11. ASSUME NEW n \in Ports, bound'[n] = p PROVE \E j \in Mine(p)' : j.uri.kind = "udp" /\ j.uri.in = n
    <3>1. PICK i \in Mine(p) : i.uri.kind = "udp" /\ i.uri.in = n
      BY <2>2, <2>11 DEF LeftInvOf, Accounted
    <3> QED BY <2>8, <3>1
  <2>12. ASSUME NEW t \in Ttys, p \in opened'[t] PROVE \E j \in Mine(p)' : j.uri.kind = "serial" /\ j.uri.tty = t
    <3>1. PICK i \in Mine(p) : i.uri.kind = "serial" /\ i.uri.tty = t
      BY <2>2, <2>12 DEF LeftInvOf, Accounted
    <3> QED BY <2>8, <3>1
  <2>13. Accounted(p)'
    BY <2>9, <2>10, <2>11, <2>12 DEF Accounted
  <2> QED BY <2>4, <2>13 DEF LeftInvOf
<1>13. ASSUME ~Acquires(p) PROVE LeftInvOf(p)'
  <2>0. GivesNothing(p)
    BY <1>3, <1>13
  <2>1. CASE SerialGet(p)
    <3>1. this'[p] = [this[p] EXCEPT !.oldtio = settings[Tty(p)]] /\ at'[p] = "serial.exclusive"
          /\ interfaces' = interfaces
      BY <1>0, <2>1 DEF SerialGet, Go, WhereInv
    <3>2. this'[p].uri = this[p].uri /\ this'[p].pts = this[p].pts /\ this'[p].unlinks = this[p].unlinks
      BY <1>0, <3>1 DEF Interfaces
    <3> QED BY <1>0, <1>1, <2>0, <3>1, <3>2, LeftConstructing DEF Constructing
  <2>2. CASE SerialExclusive(p) \/ SerialSet(p)
    BY <1>4, <1>5, <2>0, <2>2 DEF SerialExclusive, SerialSet, Constructing
  <2>3. CASE FpgaOpen(p) \/ CanOpen(p) \/ TcpConnect(p)
    BY <1>2, <1>4, <2>0, <2>3 DEF FpgaOpen, CanOpen, TcpConnect
  <2>4. ASSUME NEW side \in Sides, PipeOpen(p, side) \/ PipeReopen(p, side) PROVE LeftInvOf(p)'
    <3>1. MkfifoAt[side] \in Constructing \ {"pty.open"} /\ "tx.open" \in Constructing \ {"pty.open"}
      BY DEF MkfifoAt, Sides, Constructing
    <3> QED BY <1>2, <1>4, <1>5, <2>0, <2>4, <3>1 DEF PipeOpen, PipeReopen, PipeOpened
  <2>5. CASE PtyLstat(p) \/ PtyStat(p)
    BY <1>2, <1>5, <2>0, <2>5 DEF PtyLstat, PtyStat, Constructing
  <2>6. CASE PtyUnlink(p) \/ PtySymlink(p)
    BY <1>2, <1>4, <1>5, <2>0, <2>6 DEF PtyUnlink, PtySymlink, Constructing
  <2> QED BY <1>9, <1>10, <1>11, <1>12, <2>1, <2>2, <2>3, <2>4, <2>5, <2>6 DEF Construct
<1> QED BY <1>9, <1>10, <1>11, <1>12, <1>13 DEF Acquires

LEMMA LeftDestruct ==
  ASSUME TypeInv, NEW p \in Programs, LeftInvOf(p), Destruct(p)
  PROVE  LeftInvOf(p)'
<1>0. WhereInv /\ MachineOK /\ PlaceInv(at[p], this[p], interfaces[p])
  BY TypeParts, WhereFacts
<1>1. at[p] \notin Constructing \cup Died /\ at[p] \in Destructing
  BY DEF Destruct, DestructNext, SerialRelease, SerialRestore, PipeUnlinkRx, PipeUnlinkTx, PtyCheck, PtyClean,
         Constructing, Died, Over, Destructing
<1>2. interfaces[p] # <<>>
  BY <1>0, <1>1 DEF PlaceInv, Destruct, DestructNext, SerialRelease, SerialRestore, PipeUnlinkRx, PipeUnlinkTx,
                    PtyCheck, PtyClean
<1>3. GivesNothing(p) /\ First(p) \in Interfaces /\ First(p) = Head(interfaces[p])
  BY <1>0, <1>2, DestructGives, FirstFacts DEF First
<1>4. ASSUME NEW place \in Destructing \ {"~tx"}, Step(p, place) PROVE LeftInvOf(p)'
  <2>1. at'[p] = place /\ interfaces' = interfaces
    BY <1>0, <1>4 DEF Step, Go, WhereInv
  <2>2. place \notin {"off", "pty.open"} \cup Over
    BY <1>4 DEF Destructing, Over
  <2> QED BY <1>0, <1>1, <1>3, <2>1, <2>2, LeftMoves
<1>5. ASSUME Dies(p, "terminated") PROVE LeftInvOf(p)'
  BY <1>0, <1>5, LeftDies DEF Died, Over
<1>6. CASE DestructNext(p)
  <2>1. CASE First(p).uri.kind \in {"serial", "pipe", "pty"}
    BY <1>4, <1>6, <2>1 DEF DestructNext, Destructing
  <2>2. CASE First(p).uri.kind = "udp"
    <3>1. Destructed(p) /\ bound' = [bound EXCEPT ![First(p).uri.in] = NoProgram]
      BY <1>6, <2>2 DEF DestructNext
    <3>2. \A n \in Ports : First(p).uri.in = n => bound'[n] # p
      BY <1>0, <3>1, DevicesAssumption DEF MachineOK
    <3> QED BY <1>0, <1>1, <1>2, <1>3, <2>2, <3>1, <3>2, LeftDestructed
  <2>3. CASE First(p).uri.kind \notin {"serial", "pipe", "pty", "udp"}
    <3>1. Destructed(p)
      BY <1>6, <2>3 DEF DestructNext
    <3> QED BY <1>0, <1>1, <1>2, <1>3, <2>3, <3>1, LeftDestructed
  <2> QED BY <2>1, <2>2, <2>3
<1>7. CASE SerialRelease(p)
  BY <1>4, <1>7 DEF SerialRelease, Destructing
<1>8. CASE SerialRestore(p)
  <2>1. First(p).uri.kind = "serial"
    BY <1>0, <1>3, <1>8 DEF SerialRestore, PlaceInv
  <2>2. Destructed(p) /\ opened' = [opened EXCEPT ![First(p).uri.tty] = @ \ {p}]
    BY <1>8 DEF SerialRestore
  <2>3. \A t \in Ttys : First(p).uri.tty = t => p \notin opened'[t]
    BY <1>0, <2>2 DEF MachineOK
  <2> QED BY <1>0, <1>1, <1>2, <1>3, <2>1, <2>2, <2>3, LeftDestructed
<1>9. CASE PipeUnlinkRx(p)
  <2>1. at'[p] = "~tx" /\ this' = this /\ interfaces' = interfaces
    BY <1>0, <1>9 DEF PipeUnlinkRx, Step, Go, WhereInv
  <2>2. Mine(p) \subseteq Mine(p)'
    BY <1>1, <2>1 DEF Mine
  <2>3. Accounted(p)'
    BY <1>1, <1>3, <2>2 DEF LeftInvOf, Accounted, GivesNothing, Makes
  <2>4. First(p)' = First(p)
    BY <2>1 DEF First
  <2>5. First(p).uri.kind = "pipe"
    BY <1>0, <1>3, <1>9 DEF PipeUnlinkRx, PlaceInv
  <2>6. First(p).uri.name \in Names
    BY <1>3, <2>5, UriNames
  <2>7. "rx" \in First(p).unlinks => files'[<<First(p).uri.name, "rx">>] = Nothing
    BY <1>0, <1>9, <2>6 DEF PipeUnlinkRx, MachineOK
  <2>8. "rx" \in First(p).unlinks => files'[<<First(p).uri.name, "rx">>] # Fifo(p)
    BY <2>7, EntryFacts
  <2>9. at'[p] \notin {"off", "pty.open"} \cup Over
    BY <2>1 DEF Over
  <2>10. ASSUME "rx" \in First(p)'.unlinks PROVE files'[<<First(p)'.uri.name, "rx">>] # Fifo(p)
    BY <2>4, <2>8, <2>10
  <2> QED BY <2>3, <2>9, <2>10 DEF LeftInvOf
<1>10. CASE PipeUnlinkTx(p)
  <2>1. First(p).uri.kind = "pipe"
    BY <1>0, <1>3, <1>10 DEF PipeUnlinkTx, PlaceInv
  <2>2. First(p).uri.name \in Names /\ First(p).unlinks \subseteq Sides
    BY <1>3, <2>1, UriNames DEF Interfaces
  <2>3. "tx" \in First(p).unlinks => files'[<<First(p).uri.name, "tx">>] # Fifo(p)
    <3>1. "tx" \in First(p).unlinks => files'[<<First(p).uri.name, "tx">>] = Nothing
      BY <1>0, <1>10, <2>2 DEF PipeUnlinkTx, MachineOK
    <3> QED BY <3>1, EntryFacts
  <2>4. "rx" \in First(p).unlinks => files'[<<First(p).uri.name, "rx">>] # Fifo(p)
    <3>1. "rx" \in First(p).unlinks => files[<<First(p).uri.name, "rx">>] # Fifo(p)
      BY <1>10 DEF LeftInvOf, PipeUnlinkTx
    <3> QED BY <1>3, <2>2, <3>1 DEF GivesNothing
  <2>5. ASSUME NEW x \in Names, NEW side \in {"rx", "tx", "link"}, side \in First(p).unlinks, First(p).uri.name = x
        PROVE  files'[<<x, side>>] # Fifo(p)
    <3>1. side = "rx" \/ side = "tx"
      BY <2>2, <2>5 DEF Sides
    <3> QED BY <2>3, <2>4, <2>5, <3>1
  <2>6. Destructed(p)
    BY <1>10 DEF PipeUnlinkTx
  <2> QED BY <1>0, <1>1, <1>2, <1>3, <2>1, <2>5, <2>6, LeftDestructed
<1>11. CASE PtyCheck(p)
  BY <1>4, <1>5, <1>11 DEF PtyCheck, Destructing
<1>12. CASE PtyClean(p)
  <2>1. CASE Destructed(p) /\ master' = [master EXCEPT ![First(p).pts] = NoProgram]
    <3>1. First(p).uri.kind = "pty"
      BY <1>0, <1>3, <1>12 DEF PtyClean, PlaceInv
    <3>2. \A k \in Pts : First(p).pts = k => master'[k] # p
      BY <1>0, <2>1, DevicesAssumption DEF MachineOK
    <3> QED BY <1>0, <1>1, <1>2, <1>3, <2>1, <3>1, <3>2, LeftDestructed
  <2> QED BY <1>5, <1>12, <2>1 DEF PtyClean
<1> QED BY <1>6, <1>7, <1>8, <1>9, <1>10, <1>11, <1>12 DEF Destruct

LEMMA LeftActs ==
  ASSUME TypeInv, NEW p \in Programs, LeftInvOf(p), Acts(p)
  PROVE  LeftInvOf(p)'
<1>0. WhereInv /\ MachineOK /\ InputsOK
  BY TypeParts
<1>1. ASSUME UNCHANGED machine PROVE GivesNothing(p)
  BY <1>1, SameGivesNothing DEF machine
<1>2. ASSUME NEW how \in Died, Dies(p, how) PROVE LeftInvOf(p)'
  BY <1>0, <1>2, LeftDies
<1>3. ASSUME UNCHANGED machine, NEW place \in Looping \cup {"options", "exit", "ended"}, Go(p, place),
             UNCHANGED interfaces, at[p] \notin Constructing \cup Died, place = "ended" => interfaces[p] = <<>>
      PROVE  LeftInvOf(p)'
  <2>1. at'[p] = place
    BY <1>0, <1>3 DEF Go, WhereInv
  <2>2. place \notin {"off", "pty.open", "~tx"} /\ (place \in Over => place = "ended")
    BY <1>3 DEF Looping, Over
  <2> QED BY <1>0, <1>1, <1>3, <2>1, <2>2, LeftMoves
<1>4. CASE NextOption(p)
  <2> DEFINE o == Head(options[p])
  <2>1. at[p] \notin Constructing \cup Died /\ o \in Options
    BY <1>0, <1>4, TailFacts DEF NextOption, Constructing, Died, Over, InputsOK
  <2>2. CASE UNCHANGED <<at, interfaces, machine>>
    <3>1. at'[p] \notin {"off", "pty.open", "~tx"} \cup Over
      BY <1>4, <2>2 DEF NextOption, Over
    <3> QED BY <1>0, <1>1, <2>1, <2>2, <3>1, LeftMoves
  <2>3. CASE Step(p, "exit") /\ UNCHANGED machine
    BY <1>3, <2>1, <2>3 DEF Step
  <2>4. CASE Throws(p)
    BY <1>2, <2>4 DEF Throws, Died, Over
  <2>5. CASE o \in Uris /\ this' = [this EXCEPT ![p] = Interface(o)] /\ Go(p, FirstStep(o.kind))
             /\ UNCHANGED <<interfaces, machine>>
    <3>1. at'[p] \in {"serial.open", "fpga.open", "udp.bind", "can.open", "tcp.connect", "rx.open", "pty.open"}
      BY <1>0, <2>5, DevicesAssumption DEF Go, WhereInv, FirstStep
    <3>2. this'[p].pts = 0
      BY <1>0, <2>5 DEF Interface, WhereInv
    <3>3. at'[p] \notin {"off", "~tx"} \cup Over
      BY <3>1 DEF Over
    <3> QED BY <1>0, <1>1, <2>1, <2>5, <3>2, <3>3, LeftMoves
  <2>6. o.kind \in {"other", "help", "unmatched"} \/ o \in Uris
    BY <2>1 DEF Options
  <2> QED BY <1>4, <2>2, <2>3, <2>4, <2>5, <2>6, DevicesAssumption DEF NextOption
<1>5. CASE EnterLoop(p) \/ Loop(p) \/ Select(p) \/ Getline(p) \/ Ended(p) \/ SigintInSelect(p)
  <2>1. at[p] \notin Constructing \cup Died
    BY <1>5 DEF EnterLoop, Loop, Select, Getline, Ended, SigintInSelect, Constructing, Died, Over
  <2> QED BY <1>3, <1>5, <2>1 DEF EnterLoop, Loop, Select, Getline, Ended, SigintInSelect, Step, Looping
<1>6. CASE ConstructorFails(p) \/ ProcessFails(p) \/ Killed(p)
  BY <1>2, <1>6 DEF ConstructorFails, ProcessFails, Killed, Throws, Died, Over
<1>7. ASSUME NEW line, Start(p, line) PROVE LeftInvOf(p)'
  BY <1>3, <1>7 DEF Start, Constructing, Died, Over
<1>8. ASSUME NEW line, Types(p, line) \/ Sigint(p) PROVE LeftInvOf(p)'
  <2>1. UNCHANGED <<at, this, interfaces, machine>>
    BY <1>8 DEF Types, Sigint
  <2> QED BY <1>0, <1>1, <2>1, LeftOthers
<1> QED BY <1>4, <1>5, <1>6, <1>7, <1>8, LeftConstruct, LeftDestruct DEF Acts, Runs

LEMMA InitLeft == Init => LeftInv
<1> SUFFICES ASSUME Init, NEW p \in Programs PROVE LeftInvOf(p)
  BY DEF LeftInv
<1>1. at[p] = "off" /\ interfaces[p] = <<>>
  BY DEF Init
<1>2. \A x \in Names, side \in {"rx", "tx", "link"} : files[<<x, side>>] # Fifo(p)
  <2>1. files \in [Names \X {"rx", "tx", "link"} -> Entries] /\ \A path \in DOMAIN files : files[path] # Fifo(p)
    BY ProgramAssumption DEF Init
  <2> QED BY <2>1
<1>3. Accounted(p)
  BY <1>2, DevicesAssumption DEF Init, Accounted
<1> QED BY <1>1, <1>3 DEF LeftInvOf

LEMMA NextLeft == TypeInv /\ LeftInv /\ [Next]_vars => LeftInv'
<1> SUFFICES ASSUME TypeInv, LeftInv, [Next]_vars, NEW q \in Programs PROVE LeftInvOf(q)'
  BY DEF LeftInv
<1>0. WhereInv /\ MachineOK /\ LeftInvOf(q)
  BY TypeParts DEF LeftInv
<1>1. CASE UNCHANGED vars
  BY <1>0, <1>1, SameGivesNothing, LeftOthers DEF vars, machine
<1>2. ASSUME NEW p \in Programs, Acts(p) PROVE LeftInvOf(q)'
  <2>1. CASE q = p
    BY <1>0, <1>2, <2>1, LeftActs
  <2>2. CASE q # p
    BY <1>0, <1>2, <2>2, ActsGive, ActsOthers, LeftOthers
  <2> QED BY <2>1, <2>2
<1> QED BY <1>1, <1>2, NextActs

-----------------------------------------------------------------------------
(***************************************************************************)
(* A serial device between the open() of its constructor and the end of it.*)
(***************************************************************************)
Held(p, t) == at[p] \in {"serial.get", "serial.exclusive", "serial.set"} /\ Tty(p) = t

OwnsTty(p, k, t) == interfaces[p][k].uri.kind = "serial" /\ interfaces[p][k].uri.tty = t

(***************************************************************************)
(* Why the settings come back: unless the device was shared, whoever has it*)
(* open is alone, and has saved the original settings before changing them.*)
(***************************************************************************)
HolderInv(p, t) ==
  /\ Held(p, t) =>
       /\ opened[t] = {p} /\ settings[t] = "original"
       /\ at[p] # "serial.get" => this[p].oldtio = "original"
       /\ \A k \in 1 .. Len(interfaces[p]) : ~OwnsTty(p, k, t)
  /\ \A k \in 1 .. Len(interfaces[p]) : OwnsTty(p, k, t) =>
       /\ opened[t] = {p} /\ interfaces[p][k].oldtio = "original"
       /\ \A j \in 1 .. Len(interfaces[p]) : OwnsTty(p, j, t) => j = k

SettingsInvOf(t) ==
  t \notin shared =>
    /\ opened[t] = {} => settings[t] = "original" /\ t \notin exclusive
    /\ \A p \in Programs : HolderInv(p, t)

SettingsInv == \A t \in Ttys : SettingsInvOf(t)

(***************************************************************************)
(* What keeps the invariant of a program and a device: the device is left  *)
(* alone, and the program has not come to hold it.                         *)
(***************************************************************************)
LEMMA HolderKept ==
  ASSUME NEW p \in Programs, NEW t \in Ttys, HolderInv(p, t), interfaces'[p] = interfaces[p],
         opened'[t] = opened[t], settings'[t] = settings[t],
         Held(p, t)' => Held(p, t),
         Held(p, t)' /\ at'[p] # "serial.get" => this'[p].oldtio = "original"
  PROVE  HolderInv(p, t)'
BY DEF HolderInv, OwnsTty

LEMMA HolderAppends ==
  ASSUME WhereInv, NEW p \in Programs, NEW t \in Ttys, HolderInv(p, t),
         opened'[t] = opened[t], Constructed(p, this[p]), this[p].uri.kind = "serial" => this[p].uri.tty # t
  PROVE  HolderInv(p, t)'
<1> DEFINE new == Append(interfaces[p], this[p])
           n == Len(interfaces[p])
<1>0. this[p] \in Interfaces /\ interfaces[p] \in Seq(Interfaces)
  BY WhereFacts
<1>1. at'[p] = "options" /\ interfaces'[p] = new
  BY DEF Constructed, Go, WhereInv
<1>2. Len(new) = n + 1 /\ n \in Nat /\ (\A k \in 1 .. n : new[k] = interfaces[p][k]) /\ new[n + 1] = this[p]
  BY <1>0, AppendFacts
<1> HIDE DEF new
<1>3. ASSUME NEW k \in 1 .. Len(interfaces'[p]), OwnsTty(p, k, t)'
      PROVE  k \in 1 .. Len(interfaces[p]) /\ interfaces'[p][k] = interfaces[p][k]
  <2>1. k # n + 1
    BY <1>1, <1>2, <1>3 DEF OwnsTty
  <2> QED BY <1>1, <1>2, <1>3, <2>1
<1>4. ~Held(p, t)'
  BY <1>1 DEF Held
<1> QED BY <1>3, <1>4 DEF HolderInv, OwnsTty

LEMMA HolderDrops ==
  ASSUME WhereInv, NEW p \in Programs, NEW t \in Ttys, HolderInv(p, t), Destructed(p), interfaces[p] # <<>>,
         opened'[t] = opened[t] \/ OwnsTty(p, 1, t)
  PROVE  HolderInv(p, t)'
<1> DEFINE new == Tail(interfaces[p])
           n == Len(interfaces[p])
<1>0. interfaces[p] \in Seq(Interfaces)
  BY WhereFacts
<1>1. at'[p] = "exit" /\ interfaces'[p] = new
  BY DEF Destructed, Go, WhereInv
<1>2. Len(new) = n - 1 /\ n \in Nat /\ n >= 1 /\ \A k \in 1 .. n - 1 : new[k] = interfaces[p][k + 1]
  BY <1>0, TailFacts
<1> HIDE DEF new
<1>3. ASSUME NEW k \in 1 .. Len(interfaces'[p])
      PROVE  k + 1 \in 1 .. n /\ k + 1 # 1 /\ interfaces'[p][k] = interfaces[p][k + 1]
  BY <1>1, <1>2, <1>3
<1>4. ~Held(p, t)'
  BY <1>1 DEF Held
<1>5. ASSUME NEW k \in 1 .. Len(interfaces'[p]), OwnsTty(p, k, t)'
      PROVE  /\ opened'[t] = {p} /\ interfaces'[p][k].oldtio = "original"
             /\ \A j \in 1 .. Len(interfaces'[p]) : OwnsTty(p, j, t)' => j = k
  <2>1. k + 1 \in 1 .. n /\ OwnsTty(p, k + 1, t) /\ k + 1 # 1
    BY <1>3, <1>5 DEF OwnsTty
  <2>2. ~OwnsTty(p, 1, t)
    BY <1>2, <2>1 DEF HolderInv
  <2>3. opened'[t] = {p} /\ interfaces'[p][k].oldtio = "original"
    BY <1>3, <1>5, <2>1, <2>2 DEF HolderInv
  <2>4. ASSUME NEW j \in 1 .. Len(interfaces'[p]), OwnsTty(p, j, t)' PROVE j = k
    <3>1. j + 1 \in 1 .. n /\ OwnsTty(p, j + 1, t)
      BY <1>3, <2>4 DEF OwnsTty
    <3>2. j + 1 = k + 1
      BY <2>1, <3>1 DEF HolderInv
    <3>3. j \in Int /\ k \in Int
      OBVIOUS
    <3> QED BY <3>2, <3>3
  <2> QED BY <2>3, <2>4
<1> QED BY <1>4, <1>5 DEF HolderInv

(***************************************************************************)
(* A program that dies leaves every device it had open as a shared one.    *)
(***************************************************************************)
LEMMA SettingsDies ==
  ASSUME WhereInv, MachineOK, SettingsInv, NEW p \in Programs, NEW how \in Over, Dies(p, how), NEW t \in Ttys
  PROVE  SettingsInvOf(t)'
<1> SUFFICES ASSUME t \notin shared'
             PROVE  /\ opened'[t] = {} => settings'[t] = "original" /\ t \notin exclusive'
                    /\ \A q \in Programs : HolderInv(q, t)'
  BY DEF SettingsInvOf
<1>1. t \notin shared /\ p \notin opened[t] /\ settings'[t] = settings[t]
  BY DEF Dies
<1>2. opened'[t] = opened[t] /\ exclusive' \subseteq exclusive
  BY <1>1 DEF Dies, SystemCloses, MachineOK
<1>3. ASSUME NEW q \in Programs PROVE HolderInv(q, t)'
  <2>1. CASE q = p
    <3>1. at'[p] = how /\ interfaces'[p] = <<>>
      BY DEF Dies, Go, WhereInv
    <3> QED BY <2>1, <3>1 DEF HolderInv, Held, Over
  <2>2. CASE q # p
    <3>1. at'[q] = at[q] /\ this' = this /\ interfaces'[q] = interfaces[q]
      BY <2>2 DEF Dies, Go, WhereInv
    <3>2. HolderInv(q, t)
      BY <1>1 DEF SettingsInv, SettingsInvOf
    <3> QED BY <1>1, <1>2, <3>1, <3>2 DEF HolderInv, Held, OwnsTty, Tty
  <2> QED BY <2>1, <2>2
<1> QED BY <1>1, <1>2, <1>3 DEF SettingsInv, SettingsInvOf

(***************************************************************************)
(* The device is left alone.                                               *)
(***************************************************************************)
LEMMA SettingsKept ==
  ASSUME SettingsInv, NEW p \in Programs, NEW t \in Ttys, shared \subseteq shared',
         opened'[t] = opened[t], settings'[t] = settings[t], t \in exclusive' => t \in exclusive \/ opened[t] # {},
         \A q \in Programs \ {p} : at'[q] = at[q] /\ this'[q] = this[q] /\ interfaces'[q] = interfaces[q],
         HolderInv(p, t) => HolderInv(p, t)'
  PROVE  SettingsInvOf(t)'
<1> SUFFICES ASSUME t \notin shared'
             PROVE  /\ opened'[t] = {} => settings'[t] = "original" /\ t \notin exclusive'
                    /\ \A q \in Programs : HolderInv(q, t)'
  BY DEF SettingsInvOf
<1>1. t \notin shared /\ \A q \in Programs : HolderInv(q, t)
  BY DEF SettingsInv, SettingsInvOf
<1>2. ASSUME NEW q \in Programs, q # p PROVE HolderInv(q, t)'
  <2>1. at'[q] = at[q] /\ this'[q] = this[q] /\ interfaces'[q] = interfaces[q] /\ HolderInv(q, t)
    BY <1>1, <1>2
  <2> QED BY <2>1 DEF HolderInv, Held, OwnsTty, Tty
<1> QED BY <1>1, <1>2 DEF SettingsInv, SettingsInvOf

SerialPlaces == {"serial.get", "serial.exclusive", "serial.set"}

(***************************************************************************)
(* A step of p that has nothing to do with serial devices.                 *)
(***************************************************************************)
Quiet(p) ==
  /\ UNCHANGED <<settings, opened, exclusive, shared>>
  /\ \/ interfaces'[p] = interfaces[p]
        /\ (at'[p] \notin SerialPlaces \/ (at'[p] = at[p] /\ this'[p] = this[p]))
     \/ Constructed(p, this[p]) /\ this[p].uri.kind # "serial"
     \/ Destructed(p) /\ interfaces[p] # <<>>

LEMMA SettingsQuiet ==
  ASSUME TypeInv, SettingsInv, NEW p \in Programs, Acts(p), Quiet(p)
  PROVE  SettingsInv'
<1> SUFFICES ASSUME NEW t \in Ttys PROVE SettingsInvOf(t)'
  BY DEF SettingsInv
<1>0. WhereInv /\ UNCHANGED <<settings, opened, exclusive, shared>>
  BY TypeParts DEF Quiet
<1>1. \A q \in Programs \ {p} : at'[q] = at[q] /\ this'[q] = this[q] /\ interfaces'[q] = interfaces[q]
  BY ActsOthers
<1>2. ASSUME HolderInv(p, t) PROVE HolderInv(p, t)'
  <2>1. CASE interfaces'[p] = interfaces[p] /\ at'[p] \notin SerialPlaces
    <3>1. ~Held(p, t)'
      BY <2>1 DEF Held, SerialPlaces
    <3> QED BY <1>0, <1>2, <2>1, <3>1, HolderKept
  <2>2. CASE interfaces'[p] = interfaces[p] /\ at'[p] = at[p] /\ this'[p] = this[p]
    <3>1. (Held(p, t)' => Held(p, t)) /\ this'[p].oldtio = this[p].oldtio
      BY <2>2 DEF Held, Tty
    <3>2. Held(p, t)' /\ at'[p] # "serial.get" => this'[p].oldtio = "original"
      BY <1>2, <2>2, <3>1 DEF HolderInv
    <3> QED BY <1>0, <1>2, <2>2, <3>1, <3>2, HolderKept
  <2>3. CASE Constructed(p, this[p]) /\ this[p].uri.kind # "serial"
    BY <1>0, <1>2, <2>3, HolderAppends
  <2>4. CASE Destructed(p) /\ interfaces[p] # <<>>
    BY <1>0, <1>2, <2>4, HolderDrops
  <2> QED BY <2>1, <2>2, <2>3, <2>4 DEF Quiet
<1> QED BY <1>0, <1>1, <1>2, SettingsKept

LEMMA SettingsSerial ==
  ASSUME TypeInv, SettingsInv, NEW p \in Programs, Acts(p),
         SerialOpen(p) \/ SerialGet(p) \/ SerialExclusive(p) \/ SerialSet(p)
  PROVE  SettingsInv'
<1> SUFFICES ASSUME NEW t \in Ttys PROVE SettingsInvOf(t)'
  BY DEF SettingsInv
<1>0. WhereInv /\ MachineOK /\ this[p] \in Interfaces /\ interfaces[p] \in Seq(Interfaces)
      /\ PlaceInv(at[p], this[p], interfaces[p])
  BY TypeParts, WhereFacts
<1>1. \A q \in Programs \ {p} : at'[q] = at[q] /\ this'[q] = this[q] /\ interfaces'[q] = interfaces[q]
  BY ActsOthers
<1>2. this[p].uri.kind = "serial" /\ Tty(p) \in Ttys /\ this[p].uri.tty = Tty(p)
  <2>1. this[p].uri.kind = "serial"
    BY <1>0 DEF SerialOpen, SerialGet, SerialExclusive, SerialSet, PlaceInv, Places
  <2> QED BY <1>0, <2>1, DevicesAssumption DEF Interfaces, Tty
<1>3. ASSUME Throws(p) PROVE SettingsInvOf(t)'
  BY <1>0, <1>3, SettingsDies DEF Throws, Over
<1>4. CASE SerialOpen(p) /\ ~Throws(p)
  <2>1. /\ Step(p, "serial.get") /\ opened' = [opened EXCEPT ![Tty(p)] = @ \cup {p}]
        /\ shared' = IF opened[Tty(p)] = {} THEN shared ELSE shared \cup {Tty(p)}
        /\ UNCHANGED <<settings, exclusive>>
    BY <1>4 DEF SerialOpen
  <2>2. at'[p] = "serial.get" /\ this' = this /\ interfaces' = interfaces
    BY <1>0, <2>1 DEF Step, Go, WhereInv
  <2>3. CASE t # Tty(p)
    <3>1. ~Held(p, t)' /\ opened'[t] = opened[t]
      BY <1>0, <2>1, <2>2, <2>3 DEF Held, Tty, MachineOK
    <3>2. HolderInv(p, t) => HolderInv(p, t)'
      BY <2>1, <2>2, <3>1, HolderKept
    <3> QED BY <1>1, <2>1, <3>1, <3>2, SettingsKept
  <2>4. CASE t = Tty(p) /\ opened[t] # {}
    BY <2>1, <2>4 DEF SettingsInvOf
  <2>5. CASE t = Tty(p) /\ opened[t] = {} /\ t \in shared
    BY <2>1, <2>5 DEF SettingsInvOf
  <2>6. CASE t = Tty(p) /\ opened[t] = {} /\ t \notin shared
    <3>1. settings[t] = "original" /\ opened'[t] = {p} /\ \A q \in Programs : HolderInv(q, t)
      BY <1>0, <2>1, <2>6 DEF SettingsInv, SettingsInvOf, MachineOK
    <3>2. ASSUME NEW q \in Programs PROVE ~Held(q, t) /\ \A k \in 1 .. Len(interfaces[q]) : ~OwnsTty(q, k, t)
      BY <2>6, <3>1 DEF HolderInv
    <3>3. ASSUME NEW q \in Programs PROVE HolderInv(q, t)'
      <4>1. CASE q = p
        <5>1. \A k \in 1 .. Len(interfaces'[p]) : ~OwnsTty(p, k, t)'
          BY <2>2, <3>2 DEF OwnsTty
        <5> QED BY <2>1, <2>2, <3>1, <4>1, <5>1 DEF HolderInv
      <4>2. CASE q # p
        <5>1. at'[q] = at[q] /\ this'[q] = this[q] /\ interfaces'[q] = interfaces[q]
          BY <1>1, <4>2
        <5>2. ~Held(q, t)' /\ \A k \in 1 .. Len(interfaces'[q]) : ~OwnsTty(q, k, t)'
          BY <3>2, <5>1 DEF Held, OwnsTty, Tty
        <5> QED BY <5>2 DEF HolderInv
      <4> QED BY <4>1, <4>2
    <3> QED BY <3>1, <3>3 DEF SettingsInvOf
  <2> QED BY <2>3, <2>4, <2>5, <2>6
<1>5. CASE SerialGet(p)
  <2>1. /\ this'[p] = [this[p] EXCEPT !.oldtio = settings[Tty(p)]] /\ at'[p] = "serial.exclusive"
        /\ at[p] = "serial.get" /\ UNCHANGED <<interfaces, machine>>
    BY <1>0, <1>5 DEF SerialGet, Go, WhereInv
  <2>2. this'[p].uri = this[p].uri /\ this'[p].oldtio = settings[Tty(p)]
    BY <1>0, <2>1 DEF Interfaces
  <2>3. ASSUME HolderInv(p, t) PROVE HolderInv(p, t)'
    <3>1. Held(p, t)' => Held(p, t) /\ t = Tty(p)
      BY <2>1, <2>2 DEF Held, Tty
    <3>2. Held(p, t)' => this'[p].oldtio = "original"
      BY <2>2, <2>3, <3>1 DEF HolderInv
    <3> QED BY <2>1, <2>3, <3>1, <3>2, HolderKept DEF machine
  <2> QED BY <1>1, <2>1, <2>3, SettingsKept DEF machine
<1>6. CASE SerialExclusive(p)
  <2>1. /\ this' = this /\ at'[p] = "serial.set" /\ at[p] = "serial.exclusive"
        /\ UNCHANGED <<interfaces, settings, opened, shared>> /\ exclusive' = exclusive \cup {Tty(p)}
    BY <1>0, <1>6 DEF SerialExclusive, Step, Go, WhereInv
  <2>2. ASSUME HolderInv(p, t) PROVE HolderInv(p, t)'
    <3>1. Held(p, t)' => Held(p, t)
      BY <2>1 DEF Held, Tty
    <3>2. Held(p, t)' => this'[p].oldtio = "original"
      BY <2>1, <2>2, <3>1 DEF HolderInv
    <3> QED BY <2>1, <2>2, <3>1, <3>2, HolderKept
  <2>3. CASE t \in shared
    BY <2>1, <2>3 DEF SettingsInvOf
  <2>4. CASE t \notin shared
    <3>1. t = Tty(p) => opened[t] = {p}
      BY <2>1, <2>4 DEF SettingsInv, SettingsInvOf, HolderInv, Held
    <3>2. t \in exclusive' => t \in exclusive \/ opened[t] # {}
      BY <2>1, <3>1
    <3> QED BY <1>1, <2>1, <2>2, <3>2, SettingsKept
  <2> QED BY <2>3, <2>4
<1>7. CASE SerialSet(p)
  <2>1. /\ Constructed(p, this[p]) /\ settings' = [settings EXCEPT ![Tty(p)] = "raw"]
        /\ at[p] = "serial.set" /\ UNCHANGED <<opened, exclusive, shared>>
    BY <1>7 DEF SerialSet
  <2>2. CASE t # Tty(p)
    <3>1. settings'[t] = settings[t]
      BY <1>0, <2>1, <2>2 DEF MachineOK
    <3>2. HolderInv(p, t) => HolderInv(p, t)'
      BY <1>0, <1>2, <2>1, <2>2, HolderAppends
    <3> QED BY <1>1, <2>1, <3>1, <3>2, SettingsKept
  <2>3. CASE t = Tty(p) /\ t \in shared
    BY <2>1, <2>3 DEF SettingsInvOf
  <2>4. CASE t = Tty(p) /\ t \notin shared
    <3> DEFINE new == Append(interfaces[p], this[p])
               n == Len(interfaces[p])
    <3>0. Held(p, t) /\ \A q \in Programs : HolderInv(q, t)
      BY <2>1, <2>4 DEF Held, SettingsInv, SettingsInvOf
    <3>1. /\ opened[t] = {p} /\ this[p].oldtio = "original"
          /\ \A k \in 1 .. n : ~OwnsTty(p, k, t)
      BY <2>1, <3>0 DEF HolderInv
    <3>2. at'[p] = "options" /\ interfaces'[p] = new
      BY <1>0, <2>1 DEF Constructed, Go, WhereInv
    <3>3. Len(new) = n + 1 /\ n \in Nat /\ (\A k \in 1 .. n : new[k] = interfaces[p][k]) /\ new[n + 1] = this[p]
      BY <1>0, AppendFacts
    <3> HIDE DEF new
    <3>4. ASSUME NEW k \in 1 .. Len(interfaces'[p]), OwnsTty(p, k, t)'
          PROVE  k = n + 1 /\ interfaces'[p][k] = this[p]
      <4>1. k \in 1 .. n => FALSE
        BY <3>1, <3>2, <3>3, <3>4 DEF OwnsTty
      <4>2. k = n + 1
        BY <3>2, <3>3, <4>1
      <4> QED BY <3>2, <3>3, <4>2
    <3>5. HolderInv(p, t)'
      BY <2>1, <3>1, <3>2, <3>4 DEF HolderInv, Held
    <3>6. ASSUME NEW q \in Programs, q # p PROVE HolderInv(q, t)'
      <4>1. at'[q] = at[q] /\ this'[q] = this[q] /\ interfaces'[q] = interfaces[q]
        BY <1>1, <3>6
      <4>2. ~Held(q, t) /\ \A k \in 1 .. Len(interfaces[q]) : ~OwnsTty(q, k, t)
        BY <3>0, <3>1, <3>6 DEF HolderInv
      <4>3. ~Held(q, t)' /\ \A k \in 1 .. Len(interfaces'[q]) : ~OwnsTty(q, k, t)'
        BY <4>1, <4>2 DEF Held, OwnsTty, Tty
      <4> QED BY <4>3 DEF HolderInv
    <3> QED BY <2>1, <3>1, <3>5, <3>6 DEF SettingsInvOf
  <2> QED BY <2>2, <2>3, <2>4
<1> QED BY <1>3, <1>4, <1>5, <1>6, <1>7

LEMMA SettingsDestruct ==
  ASSUME TypeInv, SettingsInv, NEW p \in Programs, Acts(p), SerialRelease(p) \/ SerialRestore(p)
  PROVE  SettingsInv'
<1> SUFFICES ASSUME NEW t \in Ttys PROVE SettingsInvOf(t)'
  BY DEF SettingsInv
<1>0. WhereInv /\ MachineOK /\ interfaces[p] \in Seq(Interfaces) /\ PlaceInv(at[p], this[p], interfaces[p])
  BY TypeParts, WhereFacts
<1>1. \A q \in Programs \ {p} : at'[q] = at[q] /\ this'[q] = this[q] /\ interfaces'[q] = interfaces[q]
  BY ActsOthers
<1>2. interfaces[p] # <<>>
  BY <1>0 DEF SerialRelease, SerialRestore, PlaceInv, Destructing
<1>3. First(p) = interfaces[p][1] /\ First(p) \in Interfaces /\ 1 \in 1 .. Len(interfaces[p])
  BY <1>0, <1>2, FirstFacts
<1>4. First(p).uri.kind = "serial"
  BY <1>0 DEF SerialRelease, SerialRestore, PlaceInv, First
<1> DEFINE tty == First(p).uri.tty
<1>5. tty \in Ttys /\ OwnsTty(p, 1, tty)
  BY <1>3, <1>4, DevicesAssumption DEF Interfaces, OwnsTty
<1>6. CASE SerialRelease(p)
  <2>1. /\ at'[p] = "~serial.set" /\ interfaces' = interfaces /\ exclusive' = exclusive \ {tty}
        /\ UNCHANGED <<settings, opened, shared>>
    BY <1>0, <1>6 DEF SerialRelease, Step, Go, WhereInv
  <2>2. ~Held(p, t)'
    BY <2>1 DEF Held
  <2>3. HolderInv(p, t) => HolderInv(p, t)'
    BY <2>1, <2>2, HolderKept
  <2> QED BY <1>1, <2>1, <2>3, SettingsKept
<1>7. CASE SerialRestore(p)
  <2>1. /\ Destructed(p) /\ shared' = shared
        /\ settings' = [settings EXCEPT ![tty] = First(p).oldtio]
        /\ opened' = [opened EXCEPT ![tty] = @ \ {p}]
        /\ exclusive' = IF opened'[tty] = {} THEN exclusive \ {tty} ELSE exclusive
    BY <1>7 DEF SerialRestore
  <2>2. CASE t # tty
    <3>1. settings'[t] = settings[t] /\ opened'[t] = opened[t] /\ (t \in exclusive' => t \in exclusive)
      BY <1>0, <2>1, <2>2 DEF MachineOK
    <3>2. HolderInv(p, t) => HolderInv(p, t)'
      BY <1>0, <1>2, <2>1, <3>1, HolderDrops
    <3> QED BY <1>1, <2>1, <3>1, <3>2, SettingsKept
  <2>3. CASE t = tty /\ t \in shared
    BY <2>1, <2>3 DEF SettingsInvOf
  <2>4. CASE t = tty /\ t \notin shared
    <3>0. \A q \in Programs : HolderInv(q, t)
      BY <2>4 DEF SettingsInv, SettingsInvOf
    <3>1. opened[t] = {p} /\ First(p).oldtio = "original"
      BY <1>3, <1>5, <2>4, <3>0 DEF HolderInv
    <3>2. opened'[t] = {} /\ settings'[t] = "original"
      BY <1>0, <2>1, <2>4, <3>1 DEF MachineOK
    <3>3. t \notin exclusive'
      BY <2>1, <2>4, <3>2
    <3>4. HolderInv(p, t)'
      BY <1>0, <1>2, <1>5, <2>1, <2>4, <3>0, HolderDrops
    <3>5. ASSUME NEW q \in Programs, q # p PROVE HolderInv(q, t)'
      <4>1. at'[q] = at[q] /\ this'[q] = this[q] /\ interfaces'[q] = interfaces[q]
        BY <1>1, <3>5
      <4>2. ~Held(q, t) /\ \A k \in 1 .. Len(interfaces[q]) : ~OwnsTty(q, k, t)
        BY <3>0, <3>1, <3>5 DEF HolderInv
      <4>3. ~Held(q, t)' /\ \A k \in 1 .. Len(interfaces'[q]) : ~OwnsTty(q, k, t)'
        BY <4>1, <4>2 DEF Held, OwnsTty, Tty
      <4> QED BY <4>3 DEF HolderInv
    <3> QED BY <3>2, <3>3, <3>4, <3>5 DEF SettingsInvOf
  <2> QED BY <2>2, <2>3, <2>4
<1> QED BY <1>6, <1>7

LEMMA SettingsActs ==
  ASSUME TypeInv, SettingsInv, NEW p \in Programs, Acts(p)
  PROVE  SettingsInv'
<1>0. WhereInv /\ MachineOK /\ InputsOK /\ PlaceInv(at[p], this[p], interfaces[p])
  BY TypeParts, WhereFacts
<1>1. ASSUME NEW how \in Over, Dies(p, how) PROVE SettingsInv'
  BY <1>0, <1>1, SettingsDies DEF SettingsInv
<1>2. ASSUME Throws(p) PROVE SettingsInv'
  BY <1>1, <1>2 DEF Throws, Over
<1>3. ASSUME UNCHANGED <<settings, opened, exclusive, shared>>, UNCHANGED interfaces, NEW place, place \notin SerialPlaces,
             Go(p, place)
      PROVE  SettingsInv'
  <2>1. at'[p] = place
    BY <1>0, <1>3 DEF Go, WhereInv
  <2>2. at'[p] \notin SerialPlaces /\ interfaces'[p] = interfaces[p]
    BY <1>3, <2>1
  <2>3. UNCHANGED <<settings, opened, exclusive, shared>>
    BY <1>3
  <2>4. Quiet(p)
    BY <2>2, <2>3 DEF Quiet
  <2> QED BY <2>4, SettingsQuiet
<1>4. ASSUME UNCHANGED <<settings, opened, exclusive, shared>>, Constructed(p, this[p]), this[p].uri.kind # "serial"
      PROVE  SettingsInv'
  BY <1>4, SettingsQuiet DEF Quiet
<1>5. ASSUME UNCHANGED <<settings, opened, exclusive, shared>>, UNCHANGED <<at, this, interfaces>> PROVE SettingsInv'
  BY <1>5, SettingsQuiet DEF Quiet
<1>6. CASE NextOption(p)
  <2> DEFINE o == Head(options[p])
  <2>1. CASE UNCHANGED <<at, this, interfaces, machine>>
    BY <1>5, <2>1 DEF machine
  <2>2. CASE Step(p, "exit") /\ UNCHANGED machine
    BY <1>3, <2>2 DEF Step, machine, SerialPlaces
  <2>3. CASE o \in Uris /\ Go(p, FirstStep(o.kind)) /\ UNCHANGED <<interfaces, machine>>
    <3>1. FirstStep(o.kind) \notin SerialPlaces
      BY <2>3, DevicesAssumption DEF FirstStep, SerialPlaces
    <3> QED BY <1>3, <2>3, <3>1 DEF machine
  <2>4. o \in Options
    BY <1>0, <1>6, TailFacts DEF NextOption, InputsOK
  <2>5. o.kind \in {"other", "help", "unmatched"} \/ o \in Uris
    BY <2>4 DEF Options
  <2> QED BY <1>2, <1>6, <2>1, <2>2, <2>3, <2>5, DevicesAssumption DEF NextOption
<1>7. CASE EnterLoop(p) \/ Loop(p) \/ Select(p) \/ Getline(p) \/ Ended(p) \/ SigintInSelect(p)
  BY <1>3, <1>7 DEF EnterLoop, Loop, Select, Getline, Ended, SigintInSelect, Step, machine, SerialPlaces
<1>8. CASE ConstructorFails(p) \/ ProcessFails(p) \/ Killed(p)
  BY <1>1, <1>2, <1>8 DEF ConstructorFails, ProcessFails, Killed, Over
<1>9. ASSUME NEW line, Start(p, line) PROVE SettingsInv'
  BY <1>3, <1>9 DEF Start, machine, SerialPlaces
<1>10. ASSUME NEW line, Types(p, line) \/ Sigint(p) PROVE SettingsInv'
  BY <1>5, <1>10 DEF Types, Sigint, machine
<1>11. CASE Construct(p)
  <2>1. CASE SerialOpen(p) \/ SerialGet(p) \/ SerialExclusive(p) \/ SerialSet(p)
    BY <2>1, SettingsSerial
  <2>2. CASE FpgaOpen(p) \/ UdpBind(p) \/ CanOpen(p) \/ TcpConnect(p)
    <3>1. this[p].uri.kind # "serial"
      BY <1>0, <2>2 DEF FpgaOpen, UdpBind, CanOpen, TcpConnect, PlaceInv, Places
    <3> QED BY <1>2, <1>4, <2>2, <3>1 DEF FpgaOpen, UdpBind, CanOpen, TcpConnect, machine
  <2>3. ASSUME NEW side \in Sides, PipeOpen(p, side) \/ PipeMkfifo(p, side) \/ PipeReopen(p, side) PROVE SettingsInv'
    <3>1. this[p].uri.kind # "serial"
      BY <1>0, <2>3 DEF PipeOpen, PipeMkfifo, PipeReopen, PlaceInv, Places, OpenAt, MkfifoAt, ReopenAt, Sides
    <3>2. "tx.open" \notin SerialPlaces /\ MkfifoAt[side] \notin SerialPlaces /\ ReopenAt[side] \notin SerialPlaces
      BY DEF SerialPlaces, MkfifoAt, ReopenAt, Sides
    <3>3. ASSUME PipeOpened(p, side) PROVE SettingsInv'
      BY <1>2, <1>3, <1>4, <3>1, <3>2, <3>3 DEF PipeOpened, Step, machine
    <3>4. CASE PipeOpen(p, side)
      BY <1>3, <3>2, <3>3, <3>4 DEF PipeOpen, Step, machine
    <3>5. CASE PipeMkfifo(p, side)
      BY <1>2, <1>3, <3>2, <3>5 DEF PipeMkfifo
    <3>6. CASE PipeReopen(p, side)
      BY <1>2, <3>3, <3>6 DEF PipeReopen
    <3> QED BY <2>3, <3>4, <3>5, <3>6
  <2>4. CASE PtyOpen(p)
    BY <1>3, <2>4 DEF PtyOpen, SerialPlaces
  <2>5. CASE PtyLstat(p) \/ PtyStat(p) \/ PtyUnlink(p) \/ PtySymlink(p)
    <3>1. this[p].uri.kind # "serial"
      BY <1>0, <2>5 DEF PtyLstat, PtyStat, PtyUnlink, PtySymlink, PlaceInv, Places
    <3> QED BY <1>2, <1>3, <1>4, <2>5, <3>1 DEF PtyLstat, PtyStat, PtyUnlink, PtySymlink, Step, machine, SerialPlaces
  <2> QED BY <1>11, <2>1, <2>2, <2>3, <2>4, <2>5 DEF Construct
<1>12. CASE Destruct(p)
  <2>0. ASSUME UNCHANGED <<settings, opened, exclusive, shared>>, Destructed(p), interfaces[p] # <<>> PROVE SettingsInv'
    BY <2>0, SettingsQuiet DEF Quiet
  <2>1. interfaces[p] # <<>>
    BY <1>0, <1>12 DEF Destruct, DestructNext, SerialRelease, SerialRestore, PipeUnlinkRx, PipeUnlinkTx,
                       PtyCheck, PtyClean, PlaceInv, Destructing
  <2>2. CASE DestructNext(p)
    BY <1>3, <2>0, <2>1, <2>2 DEF DestructNext, Step, machine, SerialPlaces
  <2>3. CASE SerialRelease(p) \/ SerialRestore(p)
    BY <2>3, SettingsDestruct
  <2>4. CASE PipeUnlinkRx(p) \/ PipeUnlinkTx(p)
    BY <1>3, <2>0, <2>1, <2>4 DEF PipeUnlinkRx, PipeUnlinkTx, Step, SerialPlaces
  <2>5. CASE PtyCheck(p) \/ PtyClean(p)
    BY <1>1, <1>3, <2>0, <2>1, <2>5 DEF PtyCheck, PtyClean, Step, machine, SerialPlaces, Over
  <2> QED BY <1>12, <2>2, <2>3, <2>4, <2>5 DEF Destruct
<1> QED BY <1>6, <1>7, <1>8, <1>9, <1>10, <1>11, <1>12 DEF Acts, Runs

LEMMA InitSettings == Init => SettingsInv
<1> SUFFICES ASSUME Init, NEW t \in Ttys, NEW p \in Programs PROVE HolderInv(p, t)
  BY DEF Init, SettingsInv, SettingsInvOf
<1>1. at[p] = "off" /\ interfaces[p] = <<>>
  BY DEF Init
<1> QED BY <1>1 DEF HolderInv, Held

LEMMA NextSettings == TypeInv /\ SettingsInv /\ [Next]_vars => SettingsInv'
<1> SUFFICES ASSUME TypeInv, SettingsInv, [Next]_vars PROVE SettingsInv'
  OBVIOUS
<1>1. CASE UNCHANGED vars
  BY <1>1 DEF vars, machine, SettingsInv, SettingsInvOf, HolderInv, Held, OwnsTty, Tty
<1> QED BY <1>1, SettingsActs, NextActs

(***************************************************************************)
(* A serial device nobody has open has its original settings and is open   *)
(* to everybody, however many programs used it one after the other, unless *)
(* one of them died with it or two had it open at once.                    *)
(***************************************************************************)
THEOREM SettingsComeBack == Spec => []SettingsRestored
<1>1. SettingsInv => SettingsRestored
  BY DEF SettingsInv, SettingsInvOf, SettingsRestored
<1>2. Spec => []TypeInv
  BY InitTypes, NextTypes, PTL DEF Spec
<1> QED BY <1>1, <1>2, InitSettings, NextSettings, PTL DEF Spec

-----------------------------------------------------------------------------
(***************************************************************************)
(* How a program uses a symlink: it will, it makes it, or it has it.       *)
(***************************************************************************)
Running(p) == at[p] \notin {"off"} \cup Over
Wants(p, x) == x \in SymlinksOf(options[p])
Building(p, x) == at[p] \in Constructing /\ Kind(p) = "pty" /\ this[p].uri.name = x
OwnsLink(p, k, x) == interfaces[p][k].uri.kind = "pty" /\ interfaces[p][k].uri.name = x

LEMMA UsesHow ==
  ASSUME NEW p, NEW x
  PROVE  UsesSymlink(p, x) <=>
           Running(p) /\ (Wants(p, x) \/ Building(p, x) \/ \E k \in 1 .. Len(interfaces[p]) : OwnsLink(p, k, x))
BY DEF UsesSymlink, Running, Wants, Building, OwnsLink

(***************************************************************************)
(* Why no destructor finds another symlink than its own: every symlink a   *)
(* program has leads to its pseudo terminal, and it uses no name twice.    *)
(***************************************************************************)
SymlinksInvOf(p) ==
  /\ Running(p) => \A j, k \in PtysOf(options[p]) : options[p][j].name = options[p][k].name => j = k
  /\ \A x \in Names : Building(p, x) =>
       ~Wants(p, x) /\ \A k \in 1 .. Len(interfaces[p]) : ~OwnsLink(p, k, x)
  /\ \A k \in 1 .. Len(interfaces[p]), x \in Names : OwnsLink(p, k, x) =>
       /\ ~Wants(p, x) /\ files[<<x, "link">>] = Link(p, interfaces[p][k].pts)
       /\ \A j \in 1 .. Len(interfaces[p]) : OwnsLink(p, j, x) => j = k

(***************************************************************************)
(* The rule "names", as the programs go on.                                *)
(***************************************************************************)
NobodyElse(p, x) == \A q \in Programs \ {p} : ~(UsesSymlink(p, x) /\ UsesSymlink(q, x))

SymlinksInv == \A p \in Programs : SymlinksInvOf(p) /\ \A x \in Names : NobodyElse(p, x)

(***************************************************************************)
(* The steps of p, as far as symlinks are concerned.                       *)
(***************************************************************************)
SameLink(x) == files'[<<x, "link">>] = files[<<x, "link">>]
Unlinks(x) == files'[<<x, "link">>] = Nothing

StaysPut(p) ==
  /\ options'[p] = options[p] /\ interfaces'[p] = interfaces[p] /\ (Running(p)' => Running(p))
  /\ \A x \in Names : (Building(p, x)' => Building(p, x)) /\ (~Building(p, x) => SameLink(x))
  /\ \A x \in Names : SameLink(x) \/ Unlinks(x)

Completes(p) ==
  /\ options'[p] = options[p] /\ Constructed(p, this[p]) /\ at[p] \in Constructing
  /\ \A x \in Names : ~Building(p, x) => SameLink(x)
  /\ Kind(p) = "pty" => files'[<<this[p].uri.name, "link">>] = Link(p, this[p].pts)

Removes(p) ==
  /\ options'[p] = options[p] /\ Destructed(p) /\ interfaces[p] # <<>> /\ at[p] \in Destructing
  /\ \A x \in Names : IF OwnsLink(p, 1, x) THEN Unlinks(x) ELSE SameLink(x)

Breaks(p) == at'[p] \in Died /\ interfaces'[p] = <<>> /\ files' = files

TakesOption(p) ==
  /\ at[p] = "options" /\ options[p] # <<>> /\ options'[p] = Tail(options[p])
  /\ interfaces'[p] = interfaces[p] /\ files' = files
  /\ \A x \in Names : Building(p, x)' => Head(options[p]).kind = "pty" /\ Head(options[p]).name = x

Begins(p) ==
  /\ at'[p] = "options" /\ at[p] = "off" /\ interfaces'[p] = interfaces[p] /\ files' = files
  /\ "names" \in Discipline => NamesFree(p, options'[p])

Shapes(p) == StaysPut(p) \/ Completes(p) \/ Removes(p) \/ Breaks(p) \/ TakesOption(p) \/ Begins(p)

LEMMA FilesSame ==
  ASSUME files' = files, NEW x
  PROVE  SameLink(x)
BY DEF SameLink

LEMMA ConstructShapes ==
  ASSUME TypeInv, NEW p \in Programs, Construct(p), UNCHANGED options
  PROVE  Shapes(p)
<1>0. WhereInv /\ MachineOK /\ this[p] \in Interfaces /\ PlaceInv(at[p], this[p], interfaces[p])
  BY TypeParts, WhereFacts
<1>1. at[p] \in Constructing
  BY DEF Construct, SerialOpen, SerialGet, SerialExclusive, SerialSet, FpgaOpen, UdpBind, CanOpen, TcpConnect,
         PipeOpen, PipeMkfifo, PipeReopen, PtyOpen, PtyLstat, PtyStat, PtyUnlink, PtySymlink, Constructing,
         OpenAt, MkfifoAt, ReopenAt, Sides
<1>2. ASSUME Throws(p) PROVE Shapes(p)
  <2>1. at'[p] = "aborted" /\ interfaces'[p] = <<>> /\ files' = files
    BY <1>0, <1>2 DEF Throws, Dies, Go, WhereInv
  <2> QED BY <2>1 DEF Shapes, Breaks, Died, Over
<1>3. ASSUME NEW place \in Constructing, Go(p, place), UNCHANGED interfaces, this'[p].uri = this[p].uri,
             \A x \in Names : (~Building(p, x) => SameLink(x)) /\ (SameLink(x) \/ Unlinks(x))
      PROVE  Shapes(p)
  <2>1. at'[p] = place
    BY <1>0, <1>3 DEF Go, WhereInv
  <2>2. \A x : Building(p, x)' => Building(p, x)
    BY <1>1, <1>3 DEF Building, Kind
  <2>3. Running(p)
    BY <1>1 DEF Running, Constructing, Over
  <2> QED BY <1>3, <2>2, <2>3 DEF Shapes, StaysPut
<1>4. ASSUME Constructed(p, this[p]), Kind(p) # "pty", files' = files PROVE Shapes(p)
  BY <1>1, <1>4, FilesSame DEF Shapes, Completes
<1>5. ASSUME NEW place \in Constructing, Step(p, place), files' = files PROVE Shapes(p)
  BY <1>3, <1>5, FilesSame DEF Step
<1>6. CASE SerialOpen(p) \/ SerialExclusive(p) \/ SerialSet(p)
  <2>1. Kind(p) # "pty"
    BY <1>0, <1>6 DEF SerialOpen, SerialExclusive, SerialSet, PlaceInv, Places, Kind
  <2> QED BY <1>2, <1>4, <1>5, <1>6, <2>1 DEF SerialOpen, SerialExclusive, SerialSet, Constructing
<1>7. CASE SerialGet(p)
  <2>1. this'[p] = [this[p] EXCEPT !.oldtio = settings[Tty(p)]]
    BY <1>0, <1>7 DEF SerialGet, WhereInv
  <2>2. this'[p].uri = this[p].uri
    BY <1>0, <2>1 DEF Interfaces
  <2> QED BY <1>3, <1>7, <2>2, FilesSame DEF SerialGet, machine, Constructing
<1>8. CASE FpgaOpen(p) \/ UdpBind(p) \/ CanOpen(p) \/ TcpConnect(p)
  <2>1. Kind(p) # "pty"
    BY <1>0, <1>8 DEF FpgaOpen, UdpBind, CanOpen, TcpConnect, PlaceInv, Places, Kind
  <2> QED BY <1>2, <1>4, <1>8, <2>1 DEF FpgaOpen, UdpBind, CanOpen, TcpConnect, machine
<1>9. ASSUME NEW side \in Sides, PipeOpen(p, side) \/ PipeReopen(p, side) PROVE Shapes(p)
  <2>1. Kind(p) # "pty"
    BY <1>0, <1>9 DEF PipeOpen, PipeReopen, PlaceInv, Places, OpenAt, ReopenAt, Sides, Kind
  <2>2. MkfifoAt[side] \in Constructing /\ "tx.open" \in Constructing
    BY DEF MkfifoAt, Sides, Constructing
  <2>3. ASSUME PipeOpened(p, side) PROVE Shapes(p)
    BY <1>2, <1>4, <1>5, <2>1, <2>2, <2>3 DEF PipeOpened, machine
  <2>4. CASE PipeOpen(p, side)
    BY <1>5, <2>2, <2>3, <2>4 DEF PipeOpen, machine
  <2>5. CASE PipeReopen(p, side)
    BY <1>2, <2>3, <2>5 DEF PipeReopen
  <2> QED BY <1>9, <2>4, <2>5
<1>10. ASSUME NEW side \in Sides, PipeMkfifo(p, side) PROVE Shapes(p)
  <2>1. CASE /\ files' = [files EXCEPT ![<<this[p].uri.name, side>>] = Fifo(p)]
             /\ this' = [this EXCEPT ![p].unlinks = @ \cup {side}]
             /\ Go(p, ReopenAt[side]) /\ UNCHANGED interfaces
    <3>1. this'[p] = [this[p] EXCEPT !.unlinks = @ \cup {side}]
      BY <1>0, <2>1 DEF WhereInv
    <3>2. this'[p].uri = this[p].uri
      BY <1>0, <3>1 DEF Interfaces
    <3>3. \A x \in Names : SameLink(x)
      <4>1. side # "link"
        BY DEF Sides
      <4> QED BY <1>0, <2>1, <4>1 DEF SameLink, MachineOK
    <3>4. ReopenAt[side] \in Constructing
      BY DEF ReopenAt, Sides, Constructing
    <3> QED BY <1>3, <2>1, <3>2, <3>3, <3>4
  <2> QED BY <1>2, <1>10, <2>1 DEF PipeMkfifo
<1>11. CASE PtyOpen(p)
  <2>1. PICK k \in Pts : this' = [this EXCEPT ![p].pts = k]
    BY <1>11 DEF PtyOpen
  <2>2. this'[p] = [this[p] EXCEPT !.pts = k]
    BY <1>0, <2>1 DEF WhereInv
  <2>3. this'[p].uri = this[p].uri
    BY <1>0, <2>2 DEF Interfaces
  <2> QED BY <1>3, <1>11, <2>3, FilesSame DEF PtyOpen, Constructing
<1>12. CASE PtyLstat(p) \/ PtyStat(p)
  BY <1>2, <1>5, <1>12 DEF PtyLstat, PtyStat, machine, Constructing
<1>13. ASSUME NEW entry, files' = [files EXCEPT ![<<this[p].uri.name, "link">>] = entry], Kind(p) = "pty",
              NEW x \in Names, ~Building(p, x)
       PROVE  SameLink(x)
  <2>1. x # this[p].uri.name
    BY <1>1, <1>13 DEF Building
  <2> QED BY <1>0, <1>13, <2>1 DEF SameLink, MachineOK
<1>14. CASE PtyUnlink(p)
  <2>1. Kind(p) = "pty"
    BY <1>0, <1>14 DEF PtyUnlink, PlaceInv, Places, Kind
  <2>2. CASE files' = [files EXCEPT ![<<this[p].uri.name, "link">>] = Nothing] /\ Step(p, "pty.symlink")
    <3>1. \A x \in Names : ~Building(p, x) => SameLink(x)
      BY <1>13, <2>1, <2>2
    <3>2. \A x \in Names : SameLink(x) \/ Unlinks(x)
      BY <1>0, <2>2 DEF SameLink, Unlinks, MachineOK
    <3> QED BY <1>3, <2>2, <3>1, <3>2 DEF Step, Constructing
  <2> QED BY <1>2, <1>14, <2>2 DEF PtyUnlink
<1>15. CASE PtySymlink(p)
  <2>1. Kind(p) = "pty" /\ this[p].uri.name \in Names
    BY <1>0, <1>15, UriNames DEF PtySymlink, PlaceInv, Places, Kind
  <2>2. CASE files' = [files EXCEPT ![<<this[p].uri.name, "link">>] = Link(p, this[p].pts)] /\ Constructed(p, this[p])
    <3>1. \A x \in Names : ~Building(p, x) => SameLink(x)
      BY <1>13, <2>1, <2>2
    <3>2. files'[<<this[p].uri.name, "link">>] = Link(p, this[p].pts)
      BY <1>0, <2>1, <2>2 DEF MachineOK
    <3> QED BY <1>1, <2>2, <3>1, <3>2 DEF Shapes, Completes
  <2> QED BY <1>2, <1>15, <2>2 DEF PtySymlink
<1> QED BY <1>6, <1>7, <1>8, <1>9, <1>10, <1>11, <1>12, <1>14, <1>15 DEF Construct

LEMMA DestructShapes ==
  ASSUME TypeInv, NEW p \in Programs, Destruct(p), UNCHANGED options
  PROVE  Shapes(p)
<1>0. WhereInv /\ MachineOK /\ PlaceInv(at[p], this[p], interfaces[p])
  BY TypeParts, WhereFacts
<1>1. at[p] \in Destructing /\ at[p] \notin Constructing
  BY DEF Destruct, DestructNext, SerialRelease, SerialRestore, PipeUnlinkRx, PipeUnlinkTx, PtyCheck, PtyClean,
         Constructing, Destructing
<1>2. interfaces[p] # <<>>
  BY <1>0, <1>1 DEF PlaceInv, Destruct, DestructNext, SerialRelease, SerialRestore, PipeUnlinkRx, PipeUnlinkTx,
                    PtyCheck, PtyClean
<1>3. First(p) = interfaces[p][1] /\ First(p) \in Interfaces
  BY <1>0, <1>2, FirstFacts
<1>4. ASSUME Dies(p, "terminated") PROVE Shapes(p)
  <2>1. at'[p] = "terminated" /\ interfaces'[p] = <<>> /\ files' = files
    BY <1>0, <1>4 DEF Dies, Go, WhereInv
  <2> QED BY <2>1 DEF Shapes, Breaks, Died, Over
<1>5. ASSUME NEW place \in Destructing, Step(p, place), \A x \in Names : SameLink(x) PROVE Shapes(p)
  <2>1. at'[p] = place /\ place \notin Constructing /\ interfaces' = interfaces
    BY <1>0, <1>5 DEF Step, Go, WhereInv, Destructing, Constructing
  <2>2. Running(p)
    BY <1>1 DEF Running, Destructing, Over
  <2>3. \A x : ~Building(p, x)'
    BY <2>1 DEF Building
  <2> QED BY <1>5, <2>1, <2>2, <2>3 DEF Shapes, StaysPut
<1>6. ASSUME Destructed(p), First(p).uri.kind # "pty", \A x \in Names : SameLink(x) PROVE Shapes(p)
  BY <1>1, <1>2, <1>3, <1>6 DEF Shapes, Removes, OwnsLink
<1>7. ASSUME NEW side \in Sides, NEW x \in Names,
             files' = IF side \in First(p).unlinks
                      THEN [files EXCEPT ![<<First(p).uri.name, side>>] = Nothing] ELSE files
      PROVE  SameLink(x)
  <2>1. side # "link"
    BY DEF Sides
  <2> QED BY <1>0, <1>7, <2>1 DEF SameLink, MachineOK
<1>8. CASE DestructNext(p)
  BY <1>5, <1>6, <1>8, FilesSame DEF DestructNext, machine, Destructing
<1>9. CASE SerialRelease(p) \/ SerialRestore(p)
  <2>1. First(p).uri.kind = "serial"
    BY <1>0, <1>9 DEF SerialRelease, SerialRestore, PlaceInv, First
  <2> QED BY <1>5, <1>6, <1>9, <2>1, FilesSame DEF SerialRelease, SerialRestore, Destructing
<1>10. CASE PipeUnlinkRx(p)
  BY <1>5, <1>7, <1>10 DEF PipeUnlinkRx, Destructing, Sides
<1>11. CASE PipeUnlinkTx(p)
  <2>1. First(p).uri.kind = "pipe"
    BY <1>0, <1>11 DEF PipeUnlinkTx, PlaceInv, First
  <2> QED BY <1>6, <1>7, <1>11, <2>1 DEF PipeUnlinkTx, Sides
<1>12. CASE PtyCheck(p)
  BY <1>4, <1>5, <1>12, FilesSame DEF PtyCheck, machine, Destructing
<1>13. CASE PtyClean(p)
  <2>1. CASE files' = [files EXCEPT ![<<First(p).uri.name, "link">>] = Nothing] /\ Destructed(p)
    <3>1. First(p).uri.kind = "pty"
      BY <1>0, <1>3, <1>13 DEF PtyClean, PlaceInv, First
    <3>2. ASSUME NEW x \in Names, ~OwnsLink(p, 1, x) PROVE SameLink(x)
      <4>1. x # First(p).uri.name
        BY <1>3, <3>1, <3>2 DEF OwnsLink
      <4> QED BY <1>0, <2>1, <4>1 DEF SameLink, MachineOK
    <3>3. ASSUME NEW x \in Names, OwnsLink(p, 1, x) PROVE Unlinks(x)
      BY <1>0, <1>3, <2>1, <3>3 DEF Unlinks, OwnsLink, MachineOK
    <3> QED BY <1>1, <1>2, <2>1, <3>2, <3>3 DEF Shapes, Removes
  <2> QED BY <1>4, <1>13, <2>1 DEF PtyClean
<1> QED BY <1>8, <1>9, <1>10, <1>11, <1>12, <1>13 DEF Destruct

LEMMA ActsShapes ==
  ASSUME TypeInv, NEW p \in Programs, Acts(p)
  PROVE  Shapes(p)
<1>0. WhereInv /\ InputsOK
  BY TypeParts
<1>1. ASSUME NEW how \in Died, Dies(p, how) PROVE Shapes(p)
  <2>1. at'[p] = how /\ interfaces'[p] = <<>> /\ files' = files
    BY <1>0, <1>1 DEF Dies, Go, WhereInv
  <2> QED BY <2>1 DEF Shapes, Breaks
<1>2. ASSUME UNCHANGED <<this, interfaces, machine, options>>, NEW place, place \notin Constructing, Go(p, place),
             Running(p)
      PROVE  Shapes(p)
  <2>1. at'[p] = place /\ files' = files
    BY <1>0, <1>2 DEF Go, WhereInv, machine
  <2>2. \A x : ~Building(p, x)'
    BY <1>2, <2>1 DEF Building
  <2> QED BY <1>2, <2>1, <2>2, FilesSame DEF Shapes, StaysPut
<1>3. CASE NextOption(p)
  <2> DEFINE o == Head(options[p])
  <2>1. at[p] = "options" /\ options[p] # <<>> /\ options'[p] = Tail(options[p]) /\ o \in Options
    BY <1>0, <1>3, TailFacts DEF NextOption, InputsOK
  <2>2. \A x : ~Building(p, x)
    BY <2>1 DEF Building, Constructing
  <2>3. CASE Throws(p)
    BY <1>1, <2>3 DEF Throws, Died, Over
  <2>4. CASE UNCHANGED <<at, this, interfaces, machine>>
    <3>1. \A x : ~Building(p, x)'
      BY <2>2, <2>4 DEF Building, Kind
    <3> QED BY <2>1, <2>4, <3>1 DEF Shapes, TakesOption, machine
  <2>5. CASE Step(p, "exit") /\ UNCHANGED machine
    <3>1. at'[p] = "exit" /\ interfaces' = interfaces /\ files' = files
      BY <1>0, <2>5 DEF Step, Go, WhereInv, machine
    <3>2. \A x : ~Building(p, x)'
      BY <3>1 DEF Building, Constructing
    <3> QED BY <2>1, <3>1, <3>2 DEF Shapes, TakesOption
  <2>6. CASE o \in Uris /\ this' = [this EXCEPT ![p] = Interface(o)] /\ UNCHANGED <<interfaces, machine>>
    <3>1. this'[p].uri = o
      BY <1>0, <2>6 DEF Interface, WhereInv
    <3>2. \A x : Building(p, x)' => o.kind = "pty" /\ o.name = x
      BY <3>1 DEF Building, Kind
    <3> QED BY <2>1, <2>6, <3>2 DEF Shapes, TakesOption, machine
  <2>7. o.kind \in {"other", "help", "unmatched"} \/ o \in Uris
    BY <2>1 DEF Options
  <2> QED BY <1>3, <2>3, <2>4, <2>5, <2>6, <2>7, DevicesAssumption DEF NextOption
<1>4. CASE EnterLoop(p) \/ Loop(p) \/ Select(p) \/ Getline(p) \/ Ended(p) \/ SigintInSelect(p)
  <2>1. Running(p)
    BY <1>4 DEF EnterLoop, Loop, Select, Getline, Ended, SigintInSelect, Running, Over
  <2> QED BY <1>2, <1>4, <2>1 DEF EnterLoop, Loop, Select, Getline, Ended, SigintInSelect, Step, Constructing
<1>5. CASE ConstructorFails(p) \/ ProcessFails(p) \/ Killed(p)
  BY <1>1, <1>5 DEF ConstructorFails, ProcessFails, Killed, Throws, Died, Over
<1>6. ASSUME NEW line \in CommandLines, Start(p, line) PROVE Shapes(p)
  <2>1. at[p] = "off" /\ at'[p] = "options" /\ options'[p] = line /\ interfaces' = interfaces /\ files' = files
    BY <1>0, <1>6 DEF Start, Go, WhereInv, InputsOK, machine
  <2>2. "names" \in Discipline => NamesFree(p, line)
    BY <1>6 DEF Start
  <2> QED BY <2>1, <2>2 DEF Shapes, Begins
<1>7. ASSUME NEW line, Types(p, line) \/ Sigint(p) PROVE Shapes(p)
  <2>1. UNCHANGED <<at, this, interfaces, machine, options>>
    BY <1>7 DEF Types, Sigint
  <2>2. (Running(p)' <=> Running(p)) /\ \A x : Building(p, x)' <=> Building(p, x)
    BY <2>1 DEF Running, Building, Kind
  <2> QED BY <2>1, <2>2, FilesSame DEF Shapes, StaysPut, machine
<1>8. CASE Construct(p) /\ UNCHANGED <<options, inputs>>
  BY <1>8, ConstructShapes
<1>9. CASE Destruct(p) /\ UNCHANGED <<options, inputs>>
  BY <1>9, DestructShapes
<1> QED BY <1>3, <1>4, <1>5, <1>6, <1>7, <1>8, <1>9 DEF Acts, Runs

LEMMA OthersOptions ==
  ASSUME InputsOK, NEW p \in Programs, Acts(p), NEW q \in Programs, q # p
  PROVE  options'[q] = options[q]
<1>1. ASSUME NEW list, options' = [options EXCEPT ![p] = list] PROVE options'[q] = options[q]
  BY <1>1 DEF InputsOK
<1>2. CASE NextOption(p)
  BY <1>1, <1>2 DEF NextOption
<1>3. ASSUME NEW line, Start(p, line) PROVE options'[q] = options[q]
  BY <1>1, <1>3 DEF Start
<1>4. CASE EnterLoop(p) \/ Loop(p) \/ Select(p) \/ Getline(p) \/ Ended(p) \/ SigintInSelect(p)
  BY <1>4 DEF EnterLoop, Loop, Select, Getline, Ended, SigintInSelect
<1>5. CASE UNCHANGED <<options, inputs>>
  BY <1>5
<1>6. CASE ProcessFails(p) \/ Killed(p) \/ Sigint(p) \/ \E line \in {"q", "other"} : Types(p, line)
  BY <1>6 DEF ProcessFails, Killed, Sigint, Types
<1> QED BY <1>2, <1>3, <1>4, <1>5, <1>6 DEF Acts, Runs

(***************************************************************************)
(* A step of p is none of q.                                               *)
(***************************************************************************)
LEMMA SameUses ==
  ASSUME TypeInv, NEW p \in Programs, Acts(p), NEW q \in Programs, q # p, NEW x
  PROVE  /\ UsesSymlink(q, x)' <=> UsesSymlink(q, x)
         /\ Running(q)' <=> Running(q)
         /\ Wants(q, x)' <=> Wants(q, x)
         /\ Building(q, x)' <=> Building(q, x)
         /\ \A k : OwnsLink(q, k, x)' <=> OwnsLink(q, k, x)
<1>1. /\ at'[q] = at[q] /\ this'[q] = this[q] /\ interfaces'[q] = interfaces[q]
      /\ options'[q] = options[q]
  BY ActsOthers, OthersOptions, TypeParts
<1> QED BY <1>1 DEF UsesSymlink, Running, Wants, Building, OwnsLink, Kind

LEMMA WantsLater ==
  ASSUME NEW s \in Seq(Options), s # <<>>
  PROVE  /\ \A k \in PtysOf(Tail(s)) : k + 1 \in PtysOf(s) /\ Tail(s)[k].name = s[k + 1].name
         /\ Head(s).kind = "pty" => 1 \in PtysOf(s)
<1> DEFINE t == Tail(s)
<1>1. /\ Head(s) = s[1] /\ Len(s) \in Nat /\ Len(s) >= 1 /\ Len(t) = Len(s) - 1
      /\ \A k \in 1 .. Len(s) - 1 : t[k] = s[k + 1]
  BY TailFacts
<1> HIDE DEF t
<1>2. \A k \in PtysOf(t) : k + 1 \in PtysOf(s) /\ t[k].name = s[k + 1].name
  BY <1>1 DEF PtysOf
<1>3. Head(s).kind = "pty" => 1 \in PtysOf(s)
  BY <1>1 DEF PtysOf
<1> QED BY <1>2, <1>3 DEF t

LEMMA WantsTail ==
  ASSUME InputsOK, NEW p \in Programs, TakesOption(p), NEW x
  PROVE  Wants(p, x)' => Wants(p, x)
<1>1. options[p] \in Seq(Options) /\ options[p] # <<>>
  BY DEF InputsOK, TakesOption
<1>2. ASSUME Wants(p, x)' PROVE Wants(p, x)
  <2>1. PICK k \in PtysOf(Tail(options[p])) : Tail(options[p])[k].name = x
    BY <1>2 DEF Wants, SymlinksOf, TakesOption
  <2>2. k + 1 \in PtysOf(options[p]) /\ options[p][k + 1].name = x
    BY <1>1, <2>1, WantsLater
  <2> QED BY <2>2 DEF Wants, SymlinksOf
<1> QED BY <1>2

(***************************************************************************)
(* A program touches the symlinks it uses, and comes to use those of its   *)
(* command line when it starts.                                            *)
(***************************************************************************)
LEMMA ShapeLinks ==
  ASSUME TypeInv, NEW p \in Programs, Shapes(p), NEW x \in Names, ~UsesSymlink(p, x)
  PROVE  SameLink(x)
<1>1. ~Building(p, x)
  BY UsesHow DEF Building, Running, Constructing, Over
<1>2. Removes(p) => ~OwnsLink(p, 1, x)
  <2> SUFFICES ASSUME Removes(p) PROVE ~OwnsLink(p, 1, x)
    OBVIOUS
  <2>1. Running(p) /\ 1 \in 1 .. Len(interfaces[p])
    BY FirstFacts, TypeParts DEF Removes, Running, Destructing, Over
  <2> QED BY <2>1, UsesHow
<1> QED BY <1>1, <1>2, FilesSame DEF Shapes, StaysPut, Completes, Removes, Breaks, TakesOption, Begins

LEMMA OwnedAppend ==
  ASSUME WhereInv, NEW p \in Programs, Constructed(p, this[p]), NEW k \in 1 .. Len(interfaces'[p])
  PROVE  \/ k \in 1 .. Len(interfaces[p]) /\ interfaces'[p][k] = interfaces[p][k]
         \/ k = Len(interfaces[p]) + 1 /\ interfaces'[p][k] = this[p]
<1> DEFINE new == Append(interfaces[p], this[p])
<1>1. this[p] \in Interfaces /\ interfaces[p] \in Seq(Interfaces)
  BY WhereFacts
<1>2. interfaces'[p] = new
  BY DEF Constructed, WhereInv
<1>3. /\ Len(new) = Len(interfaces[p]) + 1 /\ Len(interfaces[p]) \in Nat
      /\ \A j \in 1 .. Len(interfaces[p]) : new[j] = interfaces[p][j]
      /\ new[Len(interfaces[p]) + 1] = this[p]
  BY <1>1, AppendFacts
<1> HIDE DEF new
<1> QED BY <1>2, <1>3

LEMMA OwnedTail ==
  ASSUME WhereInv, NEW p \in Programs, Destructed(p), interfaces[p] # <<>>, NEW k \in 1 .. Len(interfaces'[p])
  PROVE  k + 1 \in 1 .. Len(interfaces[p]) /\ k + 1 # 1 /\ interfaces'[p][k] = interfaces[p][k + 1]
<1> DEFINE new == Tail(interfaces[p])
<1>1. interfaces[p] \in Seq(Interfaces)
  BY WhereFacts
<1>2. interfaces'[p] = new
  BY DEF Destructed, WhereInv
<1>3. /\ Len(new) = Len(interfaces[p]) - 1 /\ Len(interfaces[p]) \in Nat
      /\ \A j \in 1 .. Len(interfaces[p]) - 1 : new[j] = interfaces[p][j + 1]
  BY <1>1, TailFacts
<1> HIDE DEF new
<1> QED BY <1>2, <1>3

-----------------------------------------------------------------------------
(***************************************************************************)
(* Why a program that ends leaves no symlink: one it made has the name of  *)
(* an interface it still owns.                                             *)
(***************************************************************************)
LinksInvOf(p) ==
  at[p] \notin Died =>
    \A x \in Names, k \in Pts : files[<<x, "link">>] = Link(p, k) =>
      \E j \in 1 .. Len(interfaces[p]) : OwnsLink(p, j, x)

LinksInv == \A p \in Programs : LinksInvOf(p)

LEMMA ActsLive ==
  ASSUME NEW p \in Programs, Acts(p)
  PROVE  at[p] \notin Died
<1>1. CASE NextOption(p) \/ EnterLoop(p) \/ Loop(p) \/ Select(p) \/ Getline(p) \/ Ended(p) \/ SigintInSelect(p)
  BY <1>1 DEF NextOption, EnterLoop, Loop, Select, Getline, Ended, SigintInSelect, Died, Over
<1>2. CASE Construct(p)
  BY <1>2 DEF Construct, SerialOpen, SerialGet, SerialExclusive, SerialSet, FpgaOpen, UdpBind, CanOpen, TcpConnect,
              PipeOpen, PipeMkfifo, PipeReopen, PtyOpen, PtyLstat, PtyStat, PtyUnlink, PtySymlink,
              OpenAt, MkfifoAt, ReopenAt, Sides, Died, Over
<1>3. CASE Destruct(p)
  BY <1>3 DEF Destruct, DestructNext, SerialRelease, SerialRestore, PipeUnlinkRx, PipeUnlinkTx, PtyCheck, PtyClean,
              Died, Over
<1>4. CASE ConstructorFails(p) \/ ProcessFails(p) \/ Killed(p)
  BY <1>4 DEF ConstructorFails, ProcessFails, Killed, Constructing, Died, Over
<1>5. ASSUME NEW line, Start(p, line) \/ Types(p, line) \/ Sigint(p) PROVE at[p] \notin Died
  BY <1>5 DEF Start, Types, Sigint, Looping, Died, Over
<1> QED BY <1>1, <1>2, <1>3, <1>4, <1>5 DEF Acts, Runs

(***************************************************************************)
(* Where a step of p makes a symlink: at the end of a constructor.         *)
(***************************************************************************)
LEMMA LinkMade ==
  ASSUME NEW p \in Programs, Shapes(p), NEW x \in Names, ~SameLink(x), ~Unlinks(x)
  PROVE  Completes(p) /\ Building(p, x) /\ files'[<<x, "link">>] = Link(p, this[p].pts)
BY FilesSame DEF Shapes, StaysPut, Completes, Removes, Breaks, TakesOption, Begins, Building

LEMMA LinksOthers ==
  ASSUME TypeInv, NEW p \in Programs, Acts(p), NEW q \in Programs, q # p, LinksInvOf(q)
  PROVE  LinksInvOf(q)'
<1>1. at'[q] = at[q] /\ interfaces'[q] = interfaces[q]
  BY ActsOthers, TypeParts
<1>2. ASSUME NEW x \in Names, NEW k \in Pts, files'[<<x, "link">>] = Link(q, k)
      PROVE  files[<<x, "link">>] = Link(q, k)
  <2>1. Link(q, k) # Nothing /\ Link(q, k) # Link(p, this[p].pts)
    BY EntryFacts
  <2>2. SameLink(x)
    BY <1>2, <2>1, ActsShapes, LinkMade DEF Unlinks
  <2> QED BY <1>2, <2>2 DEF SameLink
<1> QED BY <1>1, <1>2 DEF LinksInvOf, OwnsLink

LEMMA LinksOwn ==
  ASSUME TypeInv, LeftInv, NEW p \in Programs, Acts(p), LinksInvOf(p)
  PROVE  LinksInvOf(p)'
<1>0. WhereInv /\ Shapes(p) /\ at[p] \notin Died /\ this[p] \in Interfaces /\ interfaces[p] \in Seq(Interfaces)
  BY TypeParts, ActsShapes, ActsLive, WhereFacts
<1> SUFFICES ASSUME at'[p] \notin Died, NEW x \in Names, NEW k \in Pts, files'[<<x, "link">>] = Link(p, k)
             PROVE  \E j \in 1 .. Len(interfaces'[p]) : OwnsLink(p, j, x)'
  BY DEF LinksInvOf
<1>1. ~Unlinks(x)
  BY EntryFacts DEF Unlinks
<1>2. CASE ~SameLink(x)
  <2>1. Completes(p) /\ Building(p, x)
    BY <1>0, <1>1, <1>2, LinkMade
  <2>2. interfaces'[p] = Append(interfaces[p], this[p])
    BY <1>0, <2>1 DEF Completes, Constructed, WhereInv
  <2>3. Len(interfaces[p]) + 1 \in 1 .. Len(interfaces'[p]) /\ interfaces'[p][Len(interfaces[p]) + 1] = this[p]
    BY <1>0, <2>2, AppendFacts
  <2> QED BY <2>1, <2>3 DEF OwnsLink, Building, Kind
<1>3. CASE SameLink(x)
  <2>1. PICK j \in 1 .. Len(interfaces[p]) : OwnsLink(p, j, x)
    BY <1>0, <1>3 DEF LinksInvOf, SameLink
  <2>2. CASE interfaces'[p] = interfaces[p]
    BY <2>1, <2>2 DEF OwnsLink
  <2>3. CASE Completes(p)
    <3>1. interfaces'[p] = Append(interfaces[p], this[p])
      BY <1>0, <2>3 DEF Completes, Constructed, WhereInv
    <3>2. j \in 1 .. Len(interfaces'[p]) /\ interfaces'[p][j] = interfaces[p][j]
      BY <1>0, <2>1, <3>1, AppendFacts
    <3> QED BY <2>1, <3>2 DEF OwnsLink
  <2>4. CASE Removes(p)
    <3>1. j # 1
      BY <1>1, <2>1, <2>4 DEF Removes
    <3>2. interfaces'[p] = Tail(interfaces[p]) /\ interfaces[p] # <<>>
      BY <1>0, <2>4 DEF Removes, Destructed, WhereInv
    <3>3. j - 1 \in 1 .. Len(interfaces'[p]) /\ interfaces'[p][j - 1] = interfaces[p][j]
      <4>1. j - 1 \in 1 .. Len(interfaces[p]) - 1 /\ (j - 1) + 1 = j
        BY <1>0, <2>1, <3>1
      <4> QED BY <1>0, <3>2, <4>1, TailFacts
    <3> QED BY <2>1, <3>3 DEF OwnsLink
  <2> QED BY <1>0, <2>2, <2>3, <2>4 DEF Shapes, StaysPut, Breaks, TakesOption, Begins
<1> QED BY <1>2, <1>3

LEMMA InitLinks == Init => LinksInv
<1> SUFFICES ASSUME Init, NEW p \in Programs PROVE LinksInvOf(p)
  BY DEF LinksInv
<1>1. /\ files \in [Names \X {"rx", "tx", "link"} -> Entries]
      /\ \A path \in DOMAIN files, k \in Pts : files[path] # Link(p, k)
  BY ProgramAssumption DEF Init
<1> QED BY <1>1 DEF LinksInvOf

LEMMA NextLinks == TypeInv /\ LeftInv /\ LinksInv /\ [Next]_vars => LinksInv'
<1> SUFFICES ASSUME TypeInv, LeftInv, LinksInv, [Next]_vars, NEW q \in Programs PROVE LinksInvOf(q)'
  BY DEF LinksInv
<1>0. LinksInvOf(q)
  BY DEF LinksInv
<1>1. CASE UNCHANGED vars
  BY <1>0, <1>1 DEF vars, machine, LinksInvOf, OwnsLink
<1>2. ASSUME NEW p \in Programs, Acts(p) PROVE LinksInvOf(q)'
  BY <1>0, <1>2, LinksOwn, LinksOthers
<1> QED BY <1>1, <1>2, NextActs

(***************************************************************************)
(* However the programs share names, devices and ports, take symlinks from *)
(* each other, and whoever of them dies meanwhile: one that ends through   *)
(* its destructors leaves no fifo, no symlink, no pseudo terminal and no   *)
(* port, and has no serial device open.                                    *)
(***************************************************************************)
THEOREM NothingLeftBehind == Spec => []OrderlyExitCleansUp
<1>1. TypeInv /\ LeftInv /\ LinksInv => OrderlyExitCleansUp
  <2> SUFFICES ASSUME TypeInv, LeftInv, LinksInv, NEW p \in Programs, at[p] = "ended"
               PROVE  /\ \A path \in DOMAIN files : files[path] # Fifo(p)
                      /\ \A x \in Names, k \in Pts : files[<<x, "link">>] # Link(p, k)
                      /\ \A k \in Pts : master[k] # p
                      /\ \A q \in Ports : bound[q] # p
                      /\ \A t \in Ttys : p \notin opened[t]
    BY DEF OrderlyExitCleansUp
  <2>1. interfaces[p] = <<>> /\ Accounted(p) /\ at[p] \notin Constructing /\ at[p] \notin Died
    BY DEF LeftInv, LeftInvOf, Over, Constructing, Died
  <2>2. Mine(p) = {}
    BY <2>1 DEF Mine
  <2>3. ASSUME NEW path \in DOMAIN files, files[path] = Fifo(p) PROVE FALSE
    <3>1. PICK x \in Names, side \in {"rx", "tx", "link"} : path = <<x, side>>
      BY TypeParts DEF MachineOK
    <3>2. files[<<x, side>>] = Fifo(p)
      BY <2>3, <3>1
    <3>3. Makes(p, x, side)
      BY <2>1, <3>2, FifosAccounted
    <3> QED BY <2>2, <3>3 DEF Makes
  <2>4. ASSUME NEW x \in Names, NEW k \in Pts, files[<<x, "link">>] = Link(p, k) PROVE FALSE
    <3>1. LinksInvOf(p)
      BY DEF LinksInv
    <3>2. PICK j \in 1 .. Len(interfaces[p]) : OwnsLink(p, j, x)
      BY <2>1, <2>4, <3>1 DEF LinksInvOf
    <3>3. 1 .. Len(interfaces[p]) = {}
      BY <2>1
    <3> QED BY <3>2, <3>3
  <2>5. /\ \A k \in Pts : master[k] # p
        /\ \A q \in Ports : bound[q] # p
        /\ \A t \in Ttys : p \notin opened[t]
    BY <2>1, <2>2 DEF Accounted
  <2> QED BY <2>3, <2>4, <2>5
<1>2. Spec => []TypeInv
  BY InitTypes, NextTypes, PTL DEF Spec
<1> QED BY <1>1, <1>2, InitLeft, NextLeft, InitLinks, NextLinks, PTL DEF Spec

-----------------------------------------------------------------------------
LEMMA ShapeUses ==
  ASSUME TypeInv, LeftInv, NEW p \in Programs, Shapes(p), NEW x \in Names, UsesSymlink(p, x)'
  PROVE  UsesSymlink(p, x) \/ (Begins(p) /\ x \in SymlinksOf(options'[p]))
<1>0. WhereInv /\ InputsOK
  BY TypeParts
<1>1. /\ Running(p)'
      /\ Wants(p, x)' \/ Building(p, x)' \/ \E k \in 1 .. Len(interfaces'[p]) : OwnsLink(p, k, x)'
  BY DEF UsesSymlink, Running, Wants, Building, OwnsLink
<1>2. options'[p] = options[p] => (Wants(p, x)' <=> Wants(p, x))
  BY DEF Wants
<1>3. interfaces'[p] = interfaces[p] =>
        ((\E k \in 1 .. Len(interfaces'[p]) : OwnsLink(p, k, x)') <=> \E k \in 1 .. Len(interfaces[p]) : OwnsLink(p, k, x))
  BY DEF OwnsLink
<1>4. CASE StaysPut(p)
  BY <1>1, <1>2, <1>3, <1>4, UsesHow DEF StaysPut
<1>5. CASE Completes(p)
  <2>1. ~Building(p, x)' /\ Running(p)
    BY <1>0, <1>5 DEF Completes, Constructed, Go, WhereInv, Building, Running, Constructing, Over
  <2>2. ASSUME NEW k \in 1 .. Len(interfaces'[p]), OwnsLink(p, k, x)'
        PROVE  Building(p, x) \/ \E j \in 1 .. Len(interfaces[p]) : OwnsLink(p, j, x)
    BY <1>0, <1>5, <2>2, OwnedAppend DEF OwnsLink, Building, Kind, Completes
  <2> QED BY <1>1, <1>2, <1>5, <2>1, <2>2, UsesHow DEF Completes
<1>6. CASE Removes(p)
  <2>1. ~Building(p, x)' /\ Running(p)
    BY <1>0, <1>6 DEF Removes, Destructed, Go, WhereInv, Building, Running, Constructing, Destructing, Over
  <2>2. ASSUME NEW k \in 1 .. Len(interfaces'[p]), OwnsLink(p, k, x)'
        PROVE  \E j \in 1 .. Len(interfaces[p]) : OwnsLink(p, j, x)
    <3>1. k + 1 \in 1 .. Len(interfaces[p]) /\ interfaces'[p][k] = interfaces[p][k + 1]
      BY <1>0, <1>6, OwnedTail DEF Removes
    <3>2. OwnsLink(p, k + 1, x)
      BY <2>2, <3>1 DEF OwnsLink
    <3> QED BY <3>1, <3>2
  <2> QED BY <1>1, <1>2, <1>6, <2>1, <2>2, UsesHow DEF Removes
<1>7. CASE Breaks(p)
  BY <1>1, <1>7 DEF Breaks, Running, Died
<1>8. CASE TakesOption(p)
  <2>1. Wants(p, x)' => Wants(p, x)
    BY <1>0, <1>8, WantsTail
  <2>2. Building(p, x)' => Wants(p, x)
    <3> SUFFICES ASSUME Building(p, x)' PROVE Wants(p, x)
      OBVIOUS
    <3>1. options[p] \in Seq(Options) /\ options[p] # <<>> /\ Head(options[p]).kind = "pty" /\ Head(options[p]).name = x
      BY <1>0, <1>8 DEF InputsOK, TakesOption
    <3>2. 1 \in PtysOf(options[p]) /\ options[p][1].name = x
      BY <3>1, WantsLater, TailFacts
    <3> QED BY <3>2 DEF Wants, SymlinksOf
  <2>3. Running(p) /\ interfaces'[p] = interfaces[p]
    BY <1>8 DEF TakesOption, Running, Over
  <2> QED BY <1>1, <1>3, <2>1, <2>2, <2>3, UsesHow
<1>9. CASE Begins(p)
  <2>1. interfaces'[p] = <<>> /\ at'[p] = "options"
    BY <1>9 DEF Begins, LeftInv, LeftInvOf
  <2>2. ~Building(p, x)' /\ ~\E k \in 1 .. Len(interfaces'[p]) : OwnsLink(p, k, x)'
    BY <2>1 DEF Building, Constructing
  <2> QED BY <1>1, <1>9, <2>2 DEF Wants
<1> QED BY <1>4, <1>5, <1>6, <1>7, <1>8, <1>9 DEF Shapes

(***************************************************************************)
(* What p does to its own symlinks.                                        *)
(***************************************************************************)
LEMMA ShapeOwn ==
  ASSUME "names" \in Discipline, TypeInv, LeftInv, NEW p \in Programs, SymlinksInvOf(p), Shapes(p)
  PROVE  SymlinksInvOf(p)'
<1>0. WhereInv /\ InputsOK /\ this[p] \in Interfaces
  BY TypeParts, WhereFacts
<1>1. CASE StaysPut(p)
  <2>1. options'[p] = options[p] /\ interfaces'[p] = interfaces[p] /\ (Running(p)' => Running(p))
        /\ \A x \in Names : (Building(p, x)' => Building(p, x)) /\ (~Building(p, x) => SameLink(x))
    BY <1>1 DEF StaysPut
  <2>2. ASSUME NEW k \in 1 .. Len(interfaces'[p]), NEW x \in Names, OwnsLink(p, k, x)'
        PROVE  /\ ~Wants(p, x)' /\ files'[<<x, "link">>] = Link(p, interfaces'[p][k].pts)
               /\ \A j \in 1 .. Len(interfaces'[p]) : OwnsLink(p, j, x)' => j = k
    <3>1. k \in 1 .. Len(interfaces[p]) /\ OwnsLink(p, k, x)
      BY <2>1, <2>2 DEF OwnsLink
    <3>2. ~Building(p, x)
      BY <3>1 DEF SymlinksInvOf
    <3>3. SameLink(x)
      BY <2>1, <3>2
    <3> QED BY <2>1, <3>1, <3>3 DEF SymlinksInvOf, SameLink, Wants, OwnsLink
  <2>3. ASSUME NEW x \in Names, Building(p, x)'
        PROVE  ~Wants(p, x)' /\ \A k \in 1 .. Len(interfaces'[p]) : ~OwnsLink(p, k, x)'
    BY <2>1, <2>3 DEF SymlinksInvOf, Wants, OwnsLink
  <2>4. Running(p)' => \A j, k \in PtysOf(options'[p]) : options'[p][j].name = options'[p][k].name => j = k
    BY <2>1 DEF SymlinksInvOf
  <2> QED BY <2>2, <2>3, <2>4 DEF SymlinksInvOf
<1>2. CASE Completes(p)
  <2>1. /\ options'[p] = options[p] /\ Constructed(p, this[p]) /\ at[p] \in Constructing
        /\ \A x \in Names : ~Building(p, x) => SameLink(x)
    BY <1>2 DEF Completes
  <2>2. at'[p] = "options" /\ Running(p)
    BY <1>0, <2>1 DEF Constructed, Go, WhereInv, Running, Constructing, Over
  <2>3. ASSUME NEW k \in 1 .. Len(interfaces'[p]), NEW x \in Names, OwnsLink(p, k, x)'
        PROVE  /\ ~Wants(p, x)' /\ files'[<<x, "link">>] = Link(p, interfaces'[p][k].pts)
               /\ \A j \in 1 .. Len(interfaces'[p]) : OwnsLink(p, j, x)' => j = k
    <3>1. CASE Building(p, x)
      <4>1. ASSUME NEW j \in 1 .. Len(interfaces'[p]), OwnsLink(p, j, x)'
            PROVE  j = Len(interfaces[p]) + 1 /\ interfaces'[p][j] = this[p]
        <5>1. j \in 1 .. Len(interfaces[p]) /\ interfaces'[p][j] = interfaces[p][j] => OwnsLink(p, j, x)
          BY <4>1 DEF OwnsLink
        <5> QED BY <1>0, <2>1, <3>1, <5>1, OwnedAppend DEF SymlinksInvOf
      <4>2. files'[<<x, "link">>] = Link(p, this[p].pts)
        BY <1>2, <3>1 DEF Completes, Building
      <4>3. ~Wants(p, x)'
        BY <2>1, <3>1 DEF SymlinksInvOf, Wants
      <4> QED BY <2>3, <4>1, <4>2, <4>3
    <3>2. CASE ~Building(p, x)
      <4>1. ASSUME NEW j \in 1 .. Len(interfaces'[p]), OwnsLink(p, j, x)'
            PROVE  j \in 1 .. Len(interfaces[p]) /\ interfaces'[p][j] = interfaces[p][j] /\ OwnsLink(p, j, x)
        <5>1. interfaces'[p][j] # this[p]
          BY <2>1, <3>2, <4>1 DEF OwnsLink, Building, Kind
        <5>2. j \in 1 .. Len(interfaces[p]) /\ interfaces'[p][j] = interfaces[p][j]
          BY <1>0, <2>1, <5>1, OwnedAppend
        <5> QED BY <4>1, <5>2 DEF OwnsLink
      <4>2. SameLink(x) /\ (Wants(p, x)' <=> Wants(p, x))
        BY <2>1, <3>2 DEF Wants
      <4>3. k \in 1 .. Len(interfaces[p]) /\ interfaces'[p][k] = interfaces[p][k] /\ OwnsLink(p, k, x)
        BY <2>3, <4>1
      <4> QED BY <4>1, <4>2, <4>3 DEF SymlinksInvOf, SameLink
    <3> QED BY <3>1, <3>2
  <2>4. \A x : ~Building(p, x)'
    BY <2>2 DEF Building, Constructing
  <2>5. Running(p)' => \A j, k \in PtysOf(options'[p]) : options'[p][j].name = options'[p][k].name => j = k
    BY <2>1, <2>2 DEF SymlinksInvOf
  <2> QED BY <2>3, <2>4, <2>5 DEF SymlinksInvOf
<1>3. CASE Removes(p)
  <2>1. /\ options'[p] = options[p] /\ Destructed(p) /\ interfaces[p] # <<>> /\ at[p] \in Destructing
        /\ \A x \in Names : ~OwnsLink(p, 1, x) => SameLink(x)
    BY <1>3 DEF Removes
  <2>2. at'[p] = "exit" /\ Running(p) /\ 1 \in 1 .. Len(interfaces[p])
    BY <1>0, <2>1, FirstFacts DEF Destructed, Go, WhereInv, Running, Destructing, Over
  <2>3. ASSUME NEW k \in 1 .. Len(interfaces'[p]), NEW x \in Names, OwnsLink(p, k, x)'
        PROVE  /\ ~Wants(p, x)' /\ files'[<<x, "link">>] = Link(p, interfaces'[p][k].pts)
               /\ \A j \in 1 .. Len(interfaces'[p]) : OwnsLink(p, j, x)' => j = k
    <3>1. k + 1 \in 1 .. Len(interfaces[p]) /\ k + 1 # 1 /\ interfaces'[p][k] = interfaces[p][k + 1]
      BY <1>0, <2>1, OwnedTail
    <3>2. OwnsLink(p, k + 1, x)
      BY <2>3, <3>1 DEF OwnsLink
    <3>3. ~Wants(p, x) /\ files[<<x, "link">>] = Link(p, interfaces[p][k + 1].pts)
          /\ \A j \in 1 .. Len(interfaces[p]) : OwnsLink(p, j, x) => j = k + 1
      BY <3>1, <3>2 DEF SymlinksInvOf
    <3>4. ~OwnsLink(p, 1, x)
      BY <2>2, <3>1, <3>3
    <3>5. SameLink(x)
      BY <2>1, <3>4
    <3>6. ASSUME NEW j \in 1 .. Len(interfaces'[p]), OwnsLink(p, j, x)' PROVE j = k
      <4>1. j + 1 \in 1 .. Len(interfaces[p]) /\ interfaces'[p][j] = interfaces[p][j + 1]
        BY <1>0, <2>1, OwnedTail
      <4>2. OwnsLink(p, j + 1, x)
        BY <3>6, <4>1 DEF OwnsLink
      <4>3. j + 1 = k + 1
        BY <3>3, <4>1, <4>2
      <4>4. j \in Int /\ k \in Int
        OBVIOUS
      <4> QED BY <4>3, <4>4
    <3> QED BY <2>1, <3>1, <3>3, <3>5, <3>6 DEF SameLink, Wants
  <2>4. \A x : ~Building(p, x)'
    BY <2>2 DEF Building, Constructing
  <2>5. Running(p)' => \A j, k \in PtysOf(options'[p]) : options'[p][j].name = options'[p][k].name => j = k
    BY <2>1, <2>2 DEF SymlinksInvOf
  <2> QED BY <2>3, <2>4, <2>5 DEF SymlinksInvOf
<1>4. CASE Breaks(p)
  <2>1. at'[p] \in Over /\ interfaces'[p] = <<>>
    BY <1>4 DEF Breaks, Died
  <2>2. ~Running(p)' /\ \A x : ~Building(p, x)'
    BY <2>1 DEF Running, Building, Constructing, Over
  <2> QED BY <2>1, <2>2 DEF SymlinksInvOf
<1>5. CASE TakesOption(p)
  <2>1. /\ at[p] = "options" /\ options[p] # <<>> /\ options'[p] = Tail(options[p])
        /\ interfaces'[p] = interfaces[p] /\ files' = files /\ options[p] \in Seq(Options)
    BY <1>0, <1>5 DEF TakesOption, InputsOK
  <2>2. \A j, k \in PtysOf(options[p]) : options[p][j].name = options[p][k].name => j = k
    BY <2>1 DEF SymlinksInvOf, Running, Over
  <2>3. \A k \in PtysOf(options'[p]) : k + 1 \in PtysOf(options[p]) /\ options'[p][k].name = options[p][k + 1].name
                                       /\ k \in Nat \ {0}
    <3>1. \A k \in PtysOf(options'[p]) : k \in Nat \ {0}
      BY DEF PtysOf
    <3> QED BY <2>1, <3>1, WantsLater
  <2>4. \A j, k \in PtysOf(options'[p]) : options'[p][j].name = options'[p][k].name => j = k
    <3> SUFFICES ASSUME NEW j \in PtysOf(options'[p]), NEW k \in PtysOf(options'[p]),
                        options'[p][j].name = options'[p][k].name
                 PROVE  j = k
      OBVIOUS
    <3>1. j + 1 = k + 1
      BY <2>2, <2>3
    <3>2. j \in Nat /\ k \in Nat
      BY <2>3
    <3> QED BY <3>1, <3>2
  <2>5. \A x : Wants(p, x)' => Wants(p, x)
    BY <1>0, <1>5, WantsTail
  <2>6. ASSUME NEW x \in Names, Building(p, x)'
        PROVE  ~Wants(p, x)' /\ \A k \in 1 .. Len(interfaces'[p]) : ~OwnsLink(p, k, x)'
    <3>1. Head(options[p]).kind = "pty" /\ Head(options[p]).name = x
      BY <1>5, <2>6 DEF TakesOption
    <3>2. 1 \in PtysOf(options[p]) /\ options[p][1].name = x
      BY <2>1, <3>1, WantsLater, TailFacts
    <3>3. Wants(p, x)
      BY <3>2 DEF Wants, SymlinksOf
    <3>4. ASSUME Wants(p, x)' PROVE FALSE
      <4>1. PICK k \in PtysOf(options'[p]) : options'[p][k].name = x
        BY <3>4 DEF Wants, SymlinksOf
      <4>2. k + 1 = 1 /\ k \in Nat \ {0}
        BY <2>2, <2>3, <3>2, <4>1
      <4> QED BY <4>2
    <3>5. \A k \in 1 .. Len(interfaces'[p]) : ~OwnsLink(p, k, x)'
      BY <2>1, <3>3 DEF SymlinksInvOf, OwnsLink
    <3> QED BY <3>4, <3>5
  <2>7. ASSUME NEW k \in 1 .. Len(interfaces'[p]), NEW x \in Names, OwnsLink(p, k, x)'
        PROVE  /\ ~Wants(p, x)' /\ files'[<<x, "link">>] = Link(p, interfaces'[p][k].pts)
               /\ \A j \in 1 .. Len(interfaces'[p]) : OwnsLink(p, j, x)' => j = k
    <3>1. k \in 1 .. Len(interfaces[p]) /\ OwnsLink(p, k, x)
      BY <2>1, <2>7 DEF OwnsLink
    <3> QED BY <2>1, <2>5, <3>1 DEF SymlinksInvOf, OwnsLink
  <2> QED BY <2>4, <2>6, <2>7 DEF SymlinksInvOf
<1>6. CASE Begins(p)
  <2>1. interfaces'[p] = <<>> /\ at'[p] = "options" /\ NamesFree(p, options'[p])
    BY <1>6 DEF Begins, LeftInv, LeftInvOf
  <2>2. \A x : ~Building(p, x)'
    BY <2>1 DEF Building, Constructing
  <2> QED BY <2>1, <2>2 DEF SymlinksInvOf, NamesFree
<1> QED BY <1>1, <1>2, <1>3, <1>4, <1>5, <1>6 DEF Shapes

(***************************************************************************)
(* The symlinks of q stay as they are while p, another program, goes on.   *)
(***************************************************************************)
LEMMA ShapeOthers ==
  ASSUME TypeInv, LeftInv, SymlinksInv, NEW p \in Programs, Acts(p), Shapes(p), NEW q \in Programs, q # p
  PROVE  SymlinksInvOf(q)'
<1>1. SymlinksInvOf(q)
  BY DEF SymlinksInv
<1>2. /\ at'[q] = at[q] /\ this'[q] = this[q] /\ interfaces'[q] = interfaces[q]
      /\ options'[q] = options[q]
  BY ActsOthers, OthersOptions, TypeParts
<1>3. ASSUME NEW k \in 1 .. Len(interfaces[q]), NEW x \in Names, OwnsLink(q, k, x)
      PROVE  files'[<<x, "link">>] = Link(q, interfaces[q][k].pts)
  <2>1. interfaces[q] # <<>> => Running(q)
    BY DEF LeftInv, LeftInvOf, Running
  <2>2. interfaces[q] # <<>>
    BY <1>3
  <2>3. UsesSymlink(q, x)
    BY <1>3, <2>1, <2>2, UsesHow
  <2>4. ~UsesSymlink(p, x)
    BY <2>3 DEF SymlinksInv, NobodyElse
  <2>5. SameLink(x)
    BY <2>4, ShapeLinks
  <2> QED BY <1>1, <1>3, <2>5 DEF SymlinksInvOf, SameLink
<1>4. /\ Running(q)' <=> Running(q)
      /\ \A x : (Wants(q, x)' <=> Wants(q, x)) /\ (Building(q, x)' <=> Building(q, x))
      /\ \A x, k : OwnsLink(q, k, x)' <=> OwnsLink(q, k, x)
  BY <1>2 DEF Running, Wants, Building, OwnsLink, Kind
<1> QED BY <1>1, <1>2, <1>3, <1>4 DEF SymlinksInvOf

LEMMA NobodyElseKept ==
  ASSUME "names" \in Discipline, TypeInv, LeftInv, SymlinksInv, NEW p \in Programs, Acts(p), Shapes(p),
         NEW r \in Programs, NEW q \in Programs, r # q, NEW x \in Names, UsesSymlink(r, x)', UsesSymlink(q, x)'
  PROVE  FALSE
<1>1. \A a, b \in Programs : a # b => ~(UsesSymlink(a, x) /\ UsesSymlink(b, x))
  BY DEF SymlinksInv, NobodyElse
<1>2. \A a \in Programs : a # p => (UsesSymlink(a, x)' <=> UsesSymlink(a, x))
  BY SameUses
<1>3. UsesSymlink(p, x)' => UsesSymlink(p, x) \/ (Begins(p) /\ x \in SymlinksOf(options'[p]))
  BY ShapeUses
<1>4. Begins(p) /\ x \in SymlinksOf(options'[p]) => \A a \in Programs : a # p => ~UsesSymlink(a, x)
  BY DEF Begins, NamesFree
<1> QED BY <1>1, <1>2, <1>3, <1>4

LEMMA InitSymlinks == Init => SymlinksInv
<1> SUFFICES ASSUME Init, NEW p \in Programs PROVE SymlinksInvOf(p) /\ \A x \in Names : NobodyElse(p, x)
  BY DEF SymlinksInv
<1>1. at[p] = "off" /\ interfaces[p] = <<>>
  BY DEF Init
<1>2. ~Running(p) /\ \A x : ~Building(p, x)
  BY <1>1 DEF Running, Building, Constructing
<1> QED BY <1>1, <1>2, UsesHow DEF SymlinksInvOf, NobodyElse

LEMMA NextSymlinks ==
  "names" \in Discipline => (TypeInv /\ LeftInv /\ SymlinksInv /\ [Next]_vars => SymlinksInv')
<1> SUFFICES ASSUME "names" \in Discipline, TypeInv, LeftInv, SymlinksInv, [Next]_vars PROVE SymlinksInv'
  OBVIOUS
<1>1. CASE UNCHANGED vars
  BY <1>1 DEF vars, machine, SymlinksInv, SymlinksInvOf, NobodyElse, UsesSymlink, Running, Wants, Building, OwnsLink,
              Kind
<1>2. ASSUME NEW p \in Programs, Acts(p) PROVE SymlinksInv'
  <2>1. Shapes(p)
    BY <1>2, ActsShapes
  <2>2. SymlinksInvOf(p)
    BY DEF SymlinksInv
  <2>3. ASSUME NEW q \in Programs PROVE SymlinksInvOf(q)'
    BY <1>2, <2>1, <2>2, ShapeOwn, ShapeOthers
  <2>4. ASSUME NEW q \in Programs, NEW x \in Names PROVE NobodyElse(q, x)'
    BY <1>2, <2>1, NobodyElseKept DEF NobodyElse
  <2> QED BY <2>3, <2>4 DEF SymlinksInv
<1> QED BY <1>1, <1>2, NextActs

LEMMA SymlinksHold == "names" \in Discipline => (Spec => [](TypeInv /\ SymlinksInv))
<1> SUFFICES ASSUME "names" \in Discipline PROVE Spec => [](TypeInv /\ SymlinksInv)
  OBVIOUS
<1>1. TypeInv /\ LeftInv /\ SymlinksInv /\ [Next]_vars => SymlinksInv'
  BY NextSymlinks
<1>2. Spec => [](TypeInv /\ LeftInv)
  BY InitTypes, NextTypes, InitLeft, NextLeft, PTL DEF Spec
<1> QED BY <1>1, <1>2, InitSymlinks, PTL DEF Spec

(***************************************************************************)
(* While no two programs that run, and no two interfaces of one, use the   *)
(* same symlink: nobody takes a symlink away from a running program.       *)
(***************************************************************************)
THEOREM SymlinksStay == "names" \in Discipline => (Spec => []SymlinkStays)
<1> SUFFICES ASSUME "names" \in Discipline PROVE Spec => []SymlinkStays
  OBVIOUS
<1>0. Spec => [](TypeInv /\ SymlinksInv)
  BY SymlinksHold
<1>1. TypeInv /\ SymlinksInv => SymlinkStays
  <2> SUFFICES ASSUME TypeInv, SymlinksInv, NEW p \in Programs, NEW k \in 1 .. Len(interfaces[p]),
                      interfaces[p][k].uri.kind = "pty"
               PROVE  files[<<interfaces[p][k].uri.name, "link">>] = Link(p, interfaces[p][k].pts)
    BY EntryFacts DEF SymlinkStays, LeadsTo
  <2>1. interfaces[p][k].uri.name \in Names
    <3>1. interfaces[p][k] \in Interfaces
      BY TypeParts, WhereFacts
    <3> QED BY <3>1, UriNames
  <2> QED BY <2>1 DEF SymlinksInv, SymlinksInvOf, OwnsLink
<1> QED BY <1>0, <1>1, PTL

(***************************************************************************)
(* Under the same rule no destructor throws, so a program is never         *)
(* terminated with interfaces left that nobody cleans up.                  *)
(***************************************************************************)
THEOREM DestructorsDoNotThrow == "names" \in Discipline => (Spec => []NoThrowInDestructor)
<1> SUFFICES ASSUME "names" \in Discipline PROVE Spec => []NoThrowInDestructor
  OBVIOUS
<1>0. Spec => [](TypeInv /\ SymlinksInv)
  BY SymlinksHold
<1>1. Init => NoThrowInDestructor
  BY DEF Init, NoThrowInDestructor
<1>2. TypeInv /\ SymlinksInv /\ NoThrowInDestructor /\ [Next]_vars => NoThrowInDestructor'
  <2> SUFFICES ASSUME TypeInv, SymlinksInv, NoThrowInDestructor, [Next]_vars, NEW q \in Programs, at'[q] = "terminated"
               PROVE  FALSE
    BY DEF NoThrowInDestructor
  <2>0. WhereInv /\ at[q] # "terminated"
    BY TypeParts DEF NoThrowInDestructor
  <2>1. Next
    BY <2>0 DEF vars
  <2>2. PICK p \in Programs : Acts(p)
    BY <2>1, NextActs
  <2>3. Acts(q)
    BY <2>0, <2>2, ActsOthers
  <2>4. ASSUME NEW place, Go(q, place), place # "terminated" PROVE FALSE
    BY <2>0, <2>4 DEF Go, WhereInv
  <2>5. PtyCheck(q) \/ PtyClean(q)
    <3>1. CASE NextOption(q)
      <4>1. CASE Head(options[q]) \in Uris /\ Go(q, FirstStep(Head(options[q]).kind))
        <5>1. FirstStep(Head(options[q]).kind) # "terminated"
          BY <4>1, DevicesAssumption DEF FirstStep
        <5> QED BY <2>4, <4>1, <5>1
      <4>2. Head(options[q]) \in Options
        BY <3>1, TailFacts, TypeParts DEF NextOption, InputsOK
      <4>3. Head(options[q]).kind \in {"other", "help", "unmatched"} \/ Head(options[q]) \in Uris
        BY <4>2 DEF Options
      <4>4. ASSUME Step(q, "exit") \/ Throws(q) PROVE FALSE
        BY <2>4, <4>4 DEF Step, Throws, Dies
      <4> QED BY <2>0, <3>1, <4>1, <4>3, <4>4, DevicesAssumption DEF NextOption
    <3>2. CASE EnterLoop(q) \/ Loop(q) \/ Select(q) \/ Getline(q) \/ Ended(q) \/ SigintInSelect(q)
      BY <2>4, <3>2 DEF EnterLoop, Loop, Select, Getline, Ended, SigintInSelect, Step
    <3>3. CASE ConstructorFails(q) \/ ProcessFails(q) \/ Killed(q)
      BY <2>4, <3>3 DEF ConstructorFails, ProcessFails, Killed, Throws, Dies
    <3>4. ASSUME NEW line, Start(q, line) \/ Types(q, line) \/ Sigint(q) PROVE FALSE
      BY <2>0, <2>4, <3>4 DEF Start, Types, Sigint
    <3>5. CASE Construct(q)
      <4>1. ASSUME Throws(q) \/ Constructed(q, this[q]) PROVE FALSE
        BY <2>4, <4>1 DEF Throws, Dies, Constructed
      <4>2. ASSUME NEW place, Step(q, place), place # "terminated" PROVE FALSE
        BY <2>4, <4>2 DEF Step
      <4>3. CASE SerialOpen(q) \/ SerialGet(q) \/ SerialExclusive(q) \/ SerialSet(q)
        BY <2>4, <4>1, <4>2, <4>3 DEF SerialOpen, SerialGet, SerialExclusive, SerialSet
      <4>4. CASE FpgaOpen(q) \/ UdpBind(q) \/ CanOpen(q) \/ TcpConnect(q)
        BY <4>1, <4>4 DEF FpgaOpen, UdpBind, CanOpen, TcpConnect
      <4>5. ASSUME NEW side \in Sides, PipeOpen(q, side) \/ PipeMkfifo(q, side) \/ PipeReopen(q, side) PROVE FALSE
        <5>1. MkfifoAt[side] # "terminated" /\ ReopenAt[side] # "terminated"
          BY DEF MkfifoAt, ReopenAt, Sides
        <5> QED BY <2>4, <4>1, <4>2, <4>5, <5>1 DEF PipeOpen, PipeMkfifo, PipeReopen, PipeOpened
      <4>6. CASE PtyOpen(q)
        BY <2>4, <4>6 DEF PtyOpen
      <4>7. CASE PtyLstat(q) \/ PtyStat(q) \/ PtyUnlink(q) \/ PtySymlink(q)
        BY <4>1, <4>2, <4>7 DEF PtyLstat, PtyStat, PtyUnlink, PtySymlink
      <4> QED BY <3>5, <4>3, <4>4, <4>5, <4>6, <4>7 DEF Construct
    <3>6. CASE Destruct(q)
      BY <2>4, <3>6 DEF Destruct, DestructNext, SerialRelease, SerialRestore, PipeUnlinkRx, PipeUnlinkTx,
                        Step, Destructed
    <3> QED BY <2>3, <3>1, <3>2, <3>3, <3>4, <3>5, <3>6 DEF Acts, Runs
  <2>6. interfaces[q] # <<>> /\ Head(interfaces[q]).uri.kind = "pty"
    BY <2>0, <2>5, WhereFacts DEF PtyCheck, PtyClean, PlaceInv, Destructing
  <2>7. First(q) = interfaces[q][1] /\ First(q) \in Interfaces /\ 1 \in 1 .. Len(interfaces[q])
        /\ First(q).uri.kind = "pty"
    BY <2>0, <2>6, FirstFacts DEF First
  <2>8. FirstEntry(q, "link") = Link(q, First(q).pts)
    BY <2>7, UriNames DEF SymlinksInv, SymlinksInvOf, OwnsLink, FirstEntry
  <2>9. FirstEntry(q, "link") # Nothing
    BY <2>8, EntryFacts
  <2>10. CASE PtyCheck(q)
    BY <2>4, <2>8, <2>10, EntryFacts DEF PtyCheck, Step, LeadsTo
  <2>11. CASE PtyClean(q)
    BY <2>4, <2>9, <2>11 DEF PtyClean, Destructed
  <2> QED BY <2>5, <2>10, <2>11
<1> QED BY <1>0, <1>1, <1>2, PTL DEF Spec
=============================================================================
