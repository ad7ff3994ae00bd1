------------------------------- MODULE Routing -------------------------------
(***************************************************************************)
(* The routing table of src/Routing.c: for every device id below           *)
(* NDLCOM_MAX_NUMBER_OF_DEVICES the interface the id was last seen on, the *)
(* bridge itself for an id that belongs to a node, or AllInterfaces (the   *)
(* null pointer).                                                          *)
(***************************************************************************)
CONSTANTS TableIds,        \* the ids below NDLCOM_MAX_NUMBER_OF_DEVICES
          AllInterfaces    \* NDLCOM_ROUTING_ALL_INTERFACES

RoutingTableInit == [id \in TableIds |-> AllInterfaces]

RoutingGetDestination(table, receiver) ==
  IF receiver \in TableIds THEN table[receiver] ELSE AllInterfaces

RoutingTableUpdate(table, sender, destination) ==
  [id \in TableIds |-> IF id = sender THEN destination ELSE table[id]]

(***************************************************************************)
(* Mutation: only the first entry of the interface is cleared.             *)
(***************************************************************************)
InvalidateFirst(table, interface) ==
  LET first == CHOOSE id \in TableIds : table[id] = interface
  IN  [id \in TableIds |-> IF table[id] = interface /\ id = first THEN AllInterfaces ELSE table[id]]

RoutingTableInvalidateInterface(table, interface) ==
  [id \in TableIds |-> IF table[id] = interface THEN AllInterfaces ELSE table[id]]
=============================================================================
