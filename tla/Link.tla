-------------------------------- MODULE Link --------------------------------
(***************************************************************************)
(* What encoder and parser promise together over a serial line: messages   *)
(* that crossed the line undamaged are delivered, all of them, unchanged   *)
(* and in order.  Only once the line has been disturbed may something be   *)
(* delivered that nobody sent (the checksum is not perfect).               *)
(***************************************************************************)
EXTENDS Integers, Sequences

CONSTANT Messages

VARIABLES queue, delivered, disturbed

linkVars == <<queue, delivered, disturbed>>

Init == queue = <<>> /\ delivered = <<>> /\ disturbed = FALSE

Send(m) ==
  /\ queue' = Append(queue, m)
  /\ UNCHANGED <<delivered, disturbed>>

Disturb ==
  /\ disturbed' = TRUE
  /\ UNCHANGED <<queue, delivered>>

Deliver ==
  /\ queue # <<>>
  /\ queue' = Tail(queue)
  /\ delivered' = Append(delivered, Head(queue))
  /\ UNCHANGED disturbed

Spurious ==
  /\ disturbed
  /\ Len(delivered') = Len(delivered) + 1
  /\ SubSeq(delivered', 1, Len(delivered)) = delivered
  /\ UNCHANGED <<queue, disturbed>>

Next ==
  \/ \E m \in Messages : Send(m)
  \/ Disturb
  \/ Deliver
  \/ Spurious

Safety == Init /\ [][Next]_linkVars

Fairness == WF_linkVars(Deliver)

Spec == Safety /\ Fairness
=============================================================================
