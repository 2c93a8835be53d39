------------------------------ MODULE MCSysProt ------------------------------
EXTENDS SysProt

(* LWIP_DEFAULT_PRIORITY is 6, the Ethernet driver runs at 7; one LWIP     *)
(* task lowered itself to 11 (lwip_task).                                  *)
CONSTANTS l1, l2, l3, o1
MCPrio == [t \in Tasks |-> CASE t = l3 -> 11 [] t = o1 -> 7 [] OTHER -> 6]
===============================================================================
