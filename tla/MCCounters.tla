----------------------------- MODULE MCCounters -----------------------------
(***************************************************************************)
(* Small instances of Counters: ids of three bits, 7 is the broadcast id.  *)
(***************************************************************************)
EXTENDS Counters

CONSTANT n1

OneNode == [n \in {n1} |-> 1]
=============================================================================
