------------------------------- MODULE Program -------------------------------
(***************************************************************************)
(* tools/ndlcomBridge.cpp: several executions of the program, each from its*)
(* command line over the main loop to the destructor of the static bridge, *)
(* with the keys its user types, signals, and failures.  What the bridge   *)
(* does with messages is the subject of Bridge.                            *)
(***************************************************************************)
EXTENDS Devices

CONSTANTS
  CommandLines,   \* sequences of options, see IsOption
  InitialFiles,   \* what may be at the places of the pipes and symlinks
  Discipline,     \* what the users take care of, see below
  MaxLines        \* bound: lines the users type

(***************************************************************************)
(* An option is the uri of an interface, "other" (a node, a printing       *)
(* handler, the frequency...), "help" for everything that ends in exit(),  *)
(* or "unmatched" for an uri of an unknown kind.                           *)
(***************************************************************************)
Options == Uris \cup {[kind |-> kind] : kind \in {"other", "help", "unmatched"}}

ASSUME ProgramAssumption ==
  /\ CommandLines \subseteq Seq(Options)
  /\ MaxLines \in Nat
  /\ \A f \in InitialFiles :
       /\ f \in [Names \X {"rx", "tx", "link"} -> Entries]
       /\ \A path \in DOMAIN f, p \in Programs :
            f[path] # Fifo(p) /\ \A k \in Pts : f[path] # Link(p, k)

VARIABLES
  options,    \* the options that are not handled yet
  stop,       \* stopMainLoop
  terminal,   \* the lines the user typed and the program did not read yet
  buffer,     \* the lines in the buffer of stdin
  typed       \* how much of the bound is used

inputs == <<stop, terminal, buffer, typed>>
vars == <<at, this, interfaces, machine, options, inputs>>

Looping == {"loop", "select", "getline"}

ProgramTypeOK ==
  /\ at \in [Programs -> {"off", "options"} \cup Constructing \cup Looping \cup Destructing \cup Over]
  /\ this \in [Programs -> Interfaces]
  /\ interfaces \in [Programs -> Seq(Interfaces)]
  /\ \A p \in Programs : \A k \in 1 .. Len(interfaces[p]) : IsConstructed(interfaces[p][k])
  /\ files \in [Names \X {"rx", "tx", "link"} -> Entries]
  /\ master \in [Pts -> Programs \cup {NoProgram}]
  /\ settings \in [Ttys -> {"original", "raw"}]
  /\ opened \in [Ttys -> SUBSET Programs]
  /\ exclusive \subseteq Ttys /\ shared \subseteq Ttys
  /\ bound \in [Ports -> Programs \cup {NoProgram}]
  /\ options \in [Programs -> Seq(Options)]
  /\ stop \in [Programs -> BOOLEAN]
  /\ terminal \in [Programs -> Seq({"q", "other"})]
  /\ buffer \in [Programs -> Seq({"q", "other"})]
  /\ typed \in 0 .. MaxLines

(***************************************************************************)
(* The pipes may be there, as fifos of somebody else or as other files,    *)
(* and so may the symlinks, which lead nowhere yet.                        *)
(***************************************************************************)
Init ==
  /\ at = [p \in Programs |-> "off"]
  /\ this = [p \in Programs |-> Interface(CHOOSE uri \in Uris : TRUE)]
  /\ interfaces = [p \in Programs |-> <<>>]
  /\ files \in InitialFiles
  /\ master = [k \in Pts |-> NoProgram]
  /\ settings = [t \in Ttys |-> "original"]
  /\ opened = [t \in Ttys |-> {}]
  /\ exclusive = {} /\ shared = {}
  /\ bound = [q \in Ports |-> NoProgram]
  /\ options = [p \in Programs |-> <<>>]
  /\ stop = [p \in Programs |-> FALSE]
  /\ terminal = [p \in Programs |-> <<>>]
  /\ buffer = [p \in Programs |-> <<>>]
  /\ typed = 0

-----------------------------------------------------------------------------
(***************************************************************************)
(* What the users take care of:                                            *)
(*   "names"     no two programs that run, and no two interfaces of one,   *)
(*               use the same symlink;                                     *)
(*   "terminal"  the program reads from a terminal, which hands out one    *)
(*               line per read; a pipe hands out all there is.             *)
(***************************************************************************)
PtysOf(line) == {k \in 1 .. Len(line) : line[k].kind = "pty"}

SymlinksOf(line) == {line[k].name : k \in PtysOf(line)}

UsesSymlink(p, name) ==
  /\ at[p] \notin {"off"} \cup Over
  /\ \/ name \in SymlinksOf(options[p])
     \/ at[p] \in Constructing /\ Kind(p) = "pty" /\ this[p].uri.name = name
     \/ \E k \in 1 .. Len(interfaces[p]) :
          interfaces[p][k].uri.kind = "pty" /\ interfaces[p][k].uri.name = name

NamesFree(p, line) ==
  /\ \A r \in Programs \ {p}, name \in SymlinksOf(line) : ~UsesSymlink(r, name)
  /\ \A j, k \in PtysOf(line) : line[j].name = line[k].name => j = k

Start(p, line) ==
  /\ at[p] = "off"
  /\ "names" \in Discipline => NamesFree(p, line)
  /\ Go(p, "options")
  /\ options' = [options EXCEPT ![p] = line]
  /\ UNCHANGED <<this, interfaces, machine, inputs>>

(***************************************************************************)
(* The loop over the options of main().  createInterface() throws for an   *)
(* uri that no kind of interface matches, before main() can ask whether it *)
(* got an interface; exit() runs the destructor of the bridge.             *)
(***************************************************************************)
NextOption(p) ==
  /\ at[p] = "options" /\ options[p] # <<>>
  /\ LET o == Head(options[p])
     IN  CASE o.kind = "other" -> UNCHANGED <<at, this, interfaces, machine>>
           [] o.kind = "help" -> Step(p, "exit") /\ UNCHANGED machine
           [] o.kind = "unmatched" -> Throws(p)
           [] OTHER -> /\ this' = [this EXCEPT ![p] = Interface(o)]
                       /\ Go(p, FirstStep(o.kind))
                       /\ UNCHANGED <<interfaces, machine>>
  /\ options' = [options EXCEPT ![p] = Tail(@)]
  /\ UNCHANGED inputs

EnterLoop(p) ==
  /\ at[p] = "options" /\ options[p] = <<>>
  /\ Step(p, "loop")
  /\ UNCHANGED <<machine, options, inputs>>

(***************************************************************************)
(* while (!stopMainLoop) process().  An interface that fails throws        *)
(* through process() and main().                                           *)
(***************************************************************************)
Loop(p) ==
  /\ at[p] = "loop"
  /\ Step(p, IF stop[p] THEN "exit" ELSE "select")
  /\ UNCHANGED <<machine, options, inputs>>

ProcessFails(p) ==
  /\ at[p] = "loop" /\ ~stop[p] /\ interfaces[p] # <<>>
  /\ Throws(p)
  /\ UNCHANGED <<options, inputs>>

(***************************************************************************)
(* handleInput(): select() says whether there is something to read, and    *)
(* getline() then waits for a line of it.                                  *)
(***************************************************************************)
Select(p) ==
  /\ at[p] = "select"
  /\ Step(p, IF terminal[p] # <<>> THEN "getline" ELSE "loop")
  /\ UNCHANGED <<machine, options, inputs>>

Delivered(p) ==
  IF buffer[p] # <<>> THEN buffer[p]
  ELSE IF "terminal" \in Discipline /\ terminal[p] # <<>> THEN <<Head(terminal[p])>>
  ELSE terminal[p]

(***************************************************************************)
(* Mutation: what follows the line in the buffer is thrown away.           *)
(***************************************************************************)
GetlineFlush(p) ==
  /\ at[p] = "getline" /\ Delivered(p) # <<>>
  /\ stop' = [stop EXCEPT ![p] = @ \/ Head(Delivered(p)) = "q"]
  /\ buffer' = [buffer EXCEPT ![p] = <<>>]
  /\ terminal' = [terminal EXCEPT ![p] = <<>>]
  /\ Step(p, "loop")
  /\ UNCHANGED <<machine, options, typed>>

Getline(p) ==
  /\ at[p] = "getline" /\ Delivered(p) # <<>>
  /\ stop' = [stop EXCEPT ![p] = @ \/ Head(Delivered(p)) = "q"]
  /\ buffer' = [buffer EXCEPT ![p] = Tail(Delivered(p))]
  /\ terminal' = IF buffer[p] # <<>> THEN terminal
                 ELSE [terminal EXCEPT ![p] = SubSeq(@, Len(Delivered(p)) + 1, Len(@))]
  /\ Step(p, "loop")
  /\ UNCHANGED <<machine, options, typed>>

(***************************************************************************)
(* The destructor of the bridge is done, and so is the program.            *)
(***************************************************************************)
Ended(p) ==
  /\ at[p] = "exit" /\ interfaces[p] = <<>>
  /\ Step(p, "ended")
  /\ UNCHANGED <<machine, options, inputs>>

-----------------------------------------------------------------------------
(***************************************************************************)
(* The user types a line.                                                  *)
(***************************************************************************)
Types(p, line) ==
  /\ at[p] \in Looping /\ typed < MaxLines
  /\ terminal' = [terminal EXCEPT ![p] = Append(@, line)]
  /\ typed' = typed + 1
  /\ UNCHANGED <<at, this, interfaces, machine, options, stop, buffer>>

(***************************************************************************)
(* SIGINT in the main loop sets the flag; getline() is restarted.  Before  *)
(* the handler is installed it ends the program.                           *)
(***************************************************************************)
Sigint(p) ==
  /\ at[p] \in Looping /\ ~stop[p]
  /\ stop' = [stop EXCEPT ![p] = TRUE]
  /\ UNCHANGED <<at, this, interfaces, machine, options, terminal, buffer, typed>>

(***************************************************************************)
(* SIGINT while select() looks and finds nothing: it returns -1, which is  *)
(* not 0 either.                                                           *)
(***************************************************************************)
SigintInSelect(p) ==
  /\ at[p] = "select" /\ terminal[p] = <<>> /\ ~stop[p]
  /\ stop' = [stop EXCEPT ![p] = TRUE]
  /\ Step(p, "getline")
  /\ UNCHANGED <<machine, options, terminal, buffer, typed>>

Killed(p) ==
  /\ at[p] \notin {"off"} \cup Over
  /\ Dies(p, "killed")
  /\ UNCHANGED <<options, inputs>>

(***************************************************************************)
(* What the program does by itself.                                        *)
(***************************************************************************)
Runs(p) ==
  \/ NextOption(p) \/ EnterLoop(p) \/ Loop(p) \/ Select(p) \/ Getline(p) \/ Ended(p)
  \/ (Construct(p) \/ Destruct(p)) /\ UNCHANGED <<options, inputs>>

Next ==
  \E p \in Programs :
    \/ Runs(p)
    \/ ConstructorFails(p) /\ UNCHANGED <<options, inputs>>
    \/ ProcessFails(p)
    \/ \E line \in CommandLines : Start(p, line)
    \/ \E line \in {"q", "other"} : Types(p, line)
    \/ Sigint(p) \/ SigintInSelect(p) \/ Killed(p)

Spec == Init /\ [][Next]_vars

(***************************************************************************)
(* The system schedules every program.                                     *)
(***************************************************************************)
FairSpec == Spec /\ \A p \in Programs : WF_vars(Runs(p))

-----------------------------------------------------------------------------
(***************************************************************************)
(* Where a program is tells the kind of the interface it makes or destroys,*)
(* and what the constructor of that kind has done so far.                  *)
(***************************************************************************)
Places == [
  serial |-> {"serial.open", "serial.get", "serial.exclusive", "serial.set"},
  fpga |-> {"fpga.open"},
  udp |-> {"udp.bind"},
  can |-> {"can.open"},
  tcp |-> {"tcp.connect"},
  pipe |-> {"rx.open", "rx.mkfifo", "rx.reopen", "tx.open", "tx.mkfifo", "tx.reopen"},
  pty |-> {"pty.open", "pty.lstat", "pty.stat", "pty.unlink", "pty.symlink"}]

PlaceInv(place, i, owned) ==
  /\ \A kind \in DOMAIN Places : place \in Places[kind] => i.uri.kind = kind
  /\ place \in {"serial.exclusive", "serial.set"} => i.oldtio # "unset"
  /\ place \in {"pty.lstat", "pty.stat", "pty.unlink", "pty.symlink"} => i.pts # 0
  /\ place \in Destructing \ {"exit"} => owned # <<>>
  /\ place \in {"~serial.exclusive", "~serial.set"} => Head(owned).uri.kind = "serial"
  /\ place \in {"~rx", "~tx"} => Head(owned).uri.kind = "pipe"
  /\ place \in {"~pty.check", "~pty.unlink"} => Head(owned).uri.kind = "pty"

PlacesInv == \A p \in Programs : PlaceInv(at[p], this[p], interfaces[p])

(***************************************************************************)
(* Why fifos are removed by their makers only: what an interface is to     *)
(* unlink is a fifo its program made, and no other interface of the program*)
(* is to unlink it; and where a symlink is to be removed there is no fifo. *)
(***************************************************************************)
Unlinked(p, k, side) == at[p] = "~tx" /\ k = 1 /\ side = "rx"

SameFifo(i, j, side) == side \in i.unlinks \cap j.unlinks /\ i.uri.name = j.uri.name

FifoInvOf(p) ==
  /\ at[p] \in Constructing => \A side \in this[p].unlinks : Kind(p) = "pipe" /\ Entry(p, side) = Fifo(p)
  /\ \A k \in 1 .. Len(interfaces[p]) : \A side \in interfaces[p][k].unlinks :
       /\ interfaces[p][k].uri.kind = "pipe"
       /\ Unlinked(p, k, side) \/ files[<<interfaces[p][k].uri.name, side>>] = Fifo(p)
       /\ \A j \in 1 .. Len(interfaces[p]) : SameFifo(interfaces[p][j], interfaces[p][k], side) => j = k
       /\ at[p] \in Constructing => ~SameFifo(this[p], interfaces[p][k], side)
  /\ at[p] = "pty.unlink" => Entry(p, "link").type # "fifo"
  /\ at[p] = "~pty.unlink" => FirstEntry(p, "link").type # "fifo"

FifoInv == \A p \in Programs : FifoInvOf(p)

-----------------------------------------------------------------------------
(***************************************************************************)
(* "Will also remove the created pipes iff they where not present before": *)
(* a fifo goes away only in the destructor of the program that made it,    *)
(* although programs share pipes and race to make them.                    *)
(***************************************************************************)
OnlyMakerRemovesFifo ==
  [][\A path \in DOMAIN files :
       files[path].type = "fifo" /\ files'[path] # files[path] =>
         files[path].maker \in Programs /\ at[files[path].maker] \in {"~rx", "~tx"}]_vars

(***************************************************************************)
(* A program that ends through its destructors leaves nothing behind: no   *)
(* fifo and no symlink it made, no pseudo terminal, no port, no device in  *)
(* use.                                                                    *)
(***************************************************************************)
OrderlyExitCleansUp ==
  \A p \in Programs : at[p] = "ended" =>
    /\ \A path \in DOMAIN files : files[path] # Fifo(p)
    /\ \A x \in Names, k \in Pts : files[<<x, "link">>] # Link(p, k)
    /\ \A k \in Pts : master[k] # p
    /\ \A q \in Ports : bound[q] # p
    /\ \A t \in Ttys : p \notin opened[t]

(***************************************************************************)
(* "This class tries to be a good citizen: it restores the terminal        *)
(* setting": a device nobody has open is as it was, unless a program that  *)
(* used it died, or two had it open at the same time.                      *)
(***************************************************************************)
SettingsRestored ==
  \A t \in Ttys : opened[t] = {} /\ t \notin shared => settings[t] = "original" /\ t \notin exclusive

(***************************************************************************)
(* No program dies in a destructor while nobody else uses its symlinks:    *)
(* cleanSymlink() finds what prepareSymlink() made, so the interfaces that *)
(* are destroyed after it are not forgotten.                               *)
(***************************************************************************)
NoThrowInDestructor == \A p \in Programs : at[p] # "terminated"

(***************************************************************************)
(* "During runtime the mainloop will listen to 'q' (quit)", "sending a     *)
(* SIGINT will also close the program": once q was typed, or the signal    *)
(* came anywhere in the loop, the program comes to its end, whatever was   *)
(* typed before.  The exception is a signal inside select(), when nothing  *)
(* was typed: getline() then waits for a line (SigintInSelect).            *)
(***************************************************************************)
Quits ==
  \A p \in Programs :
    ((\E k \in 1 .. Len(terminal[p]) : terminal[p][k] = "q") \/ (stop[p] /\ at[p] \in {"loop", "select"}))
      ~> at[p] \in Over

(***************************************************************************)
(* "We will delete an existing but dead symlink to recreate it, but we will*)
(* bail out on anything else": while a program runs, nobody takes over the *)
(* symlink to its pseudo terminal.                                         *)
(***************************************************************************)
SymlinkStays ==
  \A p \in Programs : at[p] \in Looping =>
    \A k \in 1 .. Len(interfaces[p]) :
      interfaces[p][k].uri.kind = "pty" =>
        LeadsTo(files[<<interfaces[p][k].uri.name, "link">>], interfaces[p][k].pts)
=============================================================================
