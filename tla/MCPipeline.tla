----------------------------- MODULE MCPipeline -----------------------------
(***************************************************************************)
(* Command lines of producers and of the consumer.                         *)
(***************************************************************************)
EXTENDS Pipeline

O(name, value) == [name |-> name, value |-> value]

(* Ids are 0, 1 and 2, and 5 is cut to 2. *)
SomeProducers ==
  {<<>>, <<O("randomHeader", 0), O("dataLen", 5), O("receiverId", 0)>>, <<O("other", 0), O("help", 0)>>}

SomeConsumers ==
  {<<>>, <<O("n", 1), O("s", 5)>>, <<O("other", 0), O("n", -1), O("r", 2)>>, <<O("n", 0)>>,
   <<O("n", 2)>>, <<O("help", 0)>>}
=============================================================================
