----------------------------- MODULE MCProgram -----------------------------
(***************************************************************************)
(* Two executions of the program on one machine.                           *)
(***************************************************************************)
EXTENDS Program

CONSTANTS p1, p2, n, m, ttyS

Pipe == [kind |-> "pipe", mirror |-> FALSE, name |-> n]
Pty == [kind |-> "pty", mirror |-> FALSE, name |-> n]
OtherPty == [kind |-> "pty", mirror |-> FALSE, name |-> m]
Serial == [kind |-> "serial", mirror |-> FALSE, tty |-> ttyS]
Udp == [kind |-> "udp", mirror |-> FALSE, in |-> 1, out |-> 2]
UdpEcho == [kind |-> "udp", mirror |-> FALSE, in |-> 1, out |-> 1]
FpgaMirror == [kind |-> "fpga", mirror |-> TRUE]
Fpga == [kind |-> "fpga", mirror |-> FALSE]
Can == [kind |-> "can", mirror |-> TRUE]
Tcp == [kind |-> "tcp", mirror |-> FALSE]

AllUris == {Pipe, Pty, OtherPty, Serial, Udp, UdpEcho, FpgaMirror, Fpga, Can, Tcp}

Option(kind) == [kind |-> kind]

(* Every kind of interface; pipe and pty also in front of something that may fail. *)
Lines == {<<Pty, Pipe>>, <<Pipe, Option("unmatched")>>, <<Serial, Udp>>,
          <<Option("other"), UdpEcho>>, <<FpgaMirror>>, <<Fpga, Can, Tcp, OtherPty, Option("help")>>}

(* Fifos of somebody else and an old symlink, or another file in place of one of them. *)
SomeFiles ==
  {f \in [{n, m} \X {"rx", "tx", "link"} -> {Nothing, Regular, Fifo(External), Link(External, 1)}] :
     /\ \A side \in {"rx", "tx", "link"} : f[m, side] = Nothing
     /\ f[n, "rx"].type # "link" /\ f[n, "tx"].type \in {"nothing", "fifo"} /\ f[n, "link"].type # "fifo"
     /\ f[n, "rx"] # Nothing \/ f[n, "tx"] # Nothing => f[n, "link"] \in {Nothing, Link(External, 1)}
     /\ f[n, "rx"] = Regular => f[n, "tx"] = Nothing /\ f[n, "link"] = Nothing
     /\ f[n, "link"] = Link(External, 1) => f[n, "rx"] = f[n, "tx"]}

PtyLines == {<<Pty>>}
NoFiles == {[path \in {n, m} \X {"rx", "tx", "link"} |-> Nothing]}
TerminalRules == {"names", "terminal"}
=============================================================================
