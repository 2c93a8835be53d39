------------------------------ MODULE MCSysMbox ------------------------------
(* Small instances of SysMbox for TLC. *)
EXTENDS SysMbox, TLC

CONSTANTS p1, p2, p3, f1

(* p1 has the highest priority, the fetcher stands between the posters. *)
MCPrio == p1 :> 1 @@ f1 :> 2 @@ p2 :> 3 @@ p3 :> 3

(* p1 posts as the driver of the Ethernet does (tcpip_input), the others as  *)
(* the tasks that use sockets.                                               *)
MCPostOps == [p \in Posters |-> IF p = p1 THEN {"trypost"} ELSE {"post"}]
===============================================================================
