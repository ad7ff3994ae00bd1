----------------------------- MODULE MCOwnership -----------------------------
(***************************************************************************)
(* A bridge that starts with one interface, one handler and one node, and  *)
(* makes and destroys more of them.                                        *)
(***************************************************************************)
EXTENDS Ownership

CONSTANTS a, b, h1, h2, n1, k1

OneInterface == <<a>>
HandlerAndNode == <<h1, n1>>
OneNodeHandler == [n \in {n1} |-> <<k1>>]
OneOwnId == [n \in {n1} |-> 1]

(***************************************************************************)
(* Ids have two bits, and broadcast is the largest.  6 and 7 are out of    *)
(* range: 6 is cut to an ordinary id, 7 to the broadcast id, as 511 and -1 *)
(* are with eight bits.                                                    *)
(***************************************************************************)
Numbers == {2, 3, 6, 7}

OwnershipApi == {"create_interface", "create_handler", "create_node", "create_node_handler",
                 "destroy_interface", "destroy_handler", "destroy_node", "destroy_node_handler",
                 "lock", "send_raw", "node_send", "register_interface", "deregister_interface",
                 "register_handler", "deregister_handler", "set_routing", "set_interface_flags"}

OwnershipRules == {"removals", "ids", "mirrors", "destroys", "numbers"}

AnyNumbers == OwnershipRules \ {"numbers"}
===============================================================================
