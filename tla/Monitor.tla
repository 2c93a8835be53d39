------------------------------- MODULE Monitor -------------------------------
(***************************************************************************)
(* What SYS_ARCH_PROTECT and SYS_ARCH_UNPROTECT promise                    *)
(* (src/lwip-2.1.2/src/include/lwip/sys.h): inter-task protection of       *)
(* critical regions that a task may enter again while it is inside.        *)
(***************************************************************************)
EXTENDS Naturals

CONSTANTS
    Tasks,      (* tasks that enter critical regions                        *)
    MaxNest,    (* bound: regions a task is in at one time                  *)
    MaxCalls    (* bound: regions a task enters                             *)

VARIABLES
    nest,       (* regions each task is in                                  *)
    calls       (* regions each task asked for                              *)

Init ==
    /\ nest = [t \in Tasks |-> 0]
    /\ calls = [t \in Tasks |-> 0]

Ask(t) ==
    /\ nest[t] < MaxNest
    /\ calls[t] < MaxCalls
    /\ calls' = [calls EXCEPT ![t] = @ + 1]
    /\ UNCHANGED nest

Enter(t) ==
    /\ \A u \in Tasks \ {t} : nest[u] = 0
    /\ nest[t] < MaxNest
    /\ nest' = [nest EXCEPT ![t] = @ + 1]
    /\ UNCHANGED calls

Leave(t) ==
    /\ nest[t] > 0
    /\ nest' = [nest EXCEPT ![t] = @ - 1]
    /\ UNCHANGED calls

Next == \E t \in Tasks : Ask(t) \/ Enter(t) \/ Leave(t)

Spec == Init /\ [][Next]_<<nest, calls>>
===============================================================================
