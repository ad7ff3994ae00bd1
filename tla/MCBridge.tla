------------------------------- MODULE MCBridge -------------------------------
(***************************************************************************)
(* Small instances of Bridge for TLC.                                      *)
(***************************************************************************)
EXTENDS Bridge

CONSTANTS a, b, c, h1, h2, n1, n2, k1, k2

(* Interfaces a, b and the mirror c; handlers h1, h2; nodes n1, n2 with handlers k1, k2. *)
Broadcasting == 255

NoRules == {}
AllRules == {"removals", "ids", "mirrors"}

(* Loops: what is looped over is added and removed while it is looped over. *)
LoopInterfaces == <<a, b>>
LoopHandlers == <<h1, n1, h2>>
LoopNodeHandlers == [n \in {n1} |-> <<k1, k2>>]
LoopOwnId == [n \in {n1} |-> 1]
LoopApi == {"register_interface", "deregister_interface", "register_handler", "deregister_handler",
            "register_node", "deregister_node", "register_node_handler", "deregister_node_handler",
            "set_handler_flags", "send_raw", "set_routing", "set_interface_flags"}

(* Routing: two nodes behind three interfaces, one of them a mirror; the   *)
(* world sends from its own id 3 and, as a rogue, from the nodes' id 1.    *)
RoutingInterfaces == <<a, b, c>>
RoutingHandlers == <<h1, n1>>
RoutingNodeHandlers == [n \in {n1, n2} |-> <<>>]
RoutingOwnId == [n \in {n1, n2} |-> IF n = n1 THEN 1 ELSE 2]
RoutingIds == {1, 2, 3, Broadcasting}
RoutingApi == {"register_interface", "deregister_interface", "register_node", "deregister_node",
               "set_own_id", "node_send", "set_bridge_flags"}
===============================================================================
