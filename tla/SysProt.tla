------------------------------- MODULE SysProt -------------------------------
(***************************************************************************)
(* Critical regions of the TOPPERS port of lwIP                            *)
(* (src/app_iothub_client/lwip/lwip.c): sys_arch_protect and               *)
(* sys_arch_unprotect.  search_thread finds the task in Sys_Thread, which  *)
(* holds the LWIP tasks only: every other task (the shell, the Ethernet    *)
(* driver, the main task) is NULL to it, and NULL in lwip_thread also      *)
(* means that nobody is inside.                                            *)
(***************************************************************************)
EXTENDS Integers, FiniteSets

CONSTANTS
    LwipTasks,      (* the tasks in Sys_Thread                              *)
    OtherTasks,     (* the tasks that are not                               *)
    Prio,           (* task priorities, a function on both                  *)
    NULL,
    MaxNest,        (* bound: nesting of critical regions                   *)
    MaxCalls        (* bound: regions a task enters                         *)

ASSUME ProtAssumption ==
    /\ LwipTasks \cap OtherTasks = {}
    /\ NULL \notin LwipTasks
    /\ IsFiniteSet(LwipTasks \cup OtherTasks)
    /\ Prio \in [LwipTasks \cup OtherTasks -> Nat]
    /\ MaxNest \in Nat \ {0}
    /\ MaxCalls \in Nat

VARIABLES
    lwip_thread,    (* who is inside, NULL when nobody                      *)
    lwip_count,     (* how deep                                             *)
    semcnt,         (* kernel count of LWIP_PROTECT                         *)
    wait_queue,     (* kernel queue of LWIP_PROTECT                         *)
    pc,             (* where each task is                                   *)
    nest,           (* regions each task is in: sys_arch_protect returned   *)
                    (* and sys_arch_unprotect not yet called                *)
    calls           (* regions each task asked for                          *)

vars == <<lwip_thread, lwip_count, semcnt, wait_queue, pc, nest, calls>>

Tasks  == LwipTasks \cup OtherTasks
Sems   == {"LWIP_PROTECT"}
maxsem == [s \in Sems |-> 1]

Kernel == INSTANCE ToppersSem

search_thread(t) == IF t \in LwipTasks THEN t ELSE NULL

Ready(t, l) == pc[t] = l /\ ~Kernel!Blocked(t)
Goto(t, l)  == pc' = [pc EXCEPT ![t] = l]
-------------------------------------------------------------------------------
(* Faulty variants of actions below, plausible slips in lwip.c: not part   *)
(* of Next.                                                                *)
UnprotectAtOnce(t) ==           \* the nesting count ignored
    /\ Ready(t, "run") /\ nest[t] > 0
    /\ lwip_thread' = NULL /\ lwip_count' = 0
    /\ nest' = [nest EXCEPT ![t] = @ - 1]
    /\ Goto(t, "signal")
    /\ UNCHANGED <<semcnt, wait_queue, calls>>

UnprotectPostfix(t) ==          \* lwip_count-- == 0
    /\ Ready(t, "run") /\ nest[t] > 0
    /\ nest' = [nest EXCEPT ![t] = @ - 1]
    /\ lwip_count' = lwip_count - 1
    /\ IF lwip_count = 0 THEN lwip_thread' = NULL /\ Goto(t, "signal")
                         ELSE UNCHANGED <<lwip_thread, pc>>
    /\ UNCHANGED <<semcnt, wait_queue, calls>>

SignalSkipped(t) ==             \* sig_sem missing
    /\ Ready(t, "signal") /\ Goto(t, "run")
    /\ UNCHANGED <<lwip_thread, lwip_count, semcnt, wait_queue, nest, calls>>

-------------------------------------------------------------------------------
(* sys_arch_protect, from outside or from inside a region. *)
Ask(t) ==
    /\ Ready(t, "run")
    /\ nest[t] < MaxNest
    /\ calls[t] < MaxCalls
    /\ calls' = [calls EXCEPT ![t] = @ + 1]
    /\ Goto(t, "test")
    /\ UNCHANGED <<lwip_thread, lwip_count, semcnt, wait_queue, nest>>

(* lwip_thread != pthread, read without a lock. *)
TestOther(t) ==
    /\ Ready(t, "test")
    /\ lwip_thread # search_thread(t)
    /\ Goto(t, "wait")
    /\ UNCHANGED <<lwip_thread, lwip_count, semcnt, wait_queue, nest, calls>>

TestSame(t) ==
    /\ Ready(t, "test")
    /\ lwip_thread = search_thread(t)
    /\ lwip_count' = lwip_count + 1
    /\ nest' = [nest EXCEPT ![t] = @ + 1]
    /\ Goto(t, "run")
    /\ UNCHANGED <<lwip_thread, semcnt, wait_queue, calls>>

Wait(t) ==
    /\ Ready(t, "wait")
    /\ Kernel!wai_sem(t, "LWIP_PROTECT")
    /\ Goto(t, "own")
    /\ UNCHANGED <<lwip_thread, lwip_count, nest, calls>>

Own(t) ==
    /\ Ready(t, "own")
    /\ lwip_thread' = search_thread(t)
    /\ lwip_count' = 1
    /\ nest' = [nest EXCEPT ![t] = @ + 1]
    /\ Goto(t, "run")
    /\ UNCHANGED <<semcnt, wait_queue, calls>>

(* sys_arch_unprotect, with the thread that sys_arch_protect returned. *)
Unprotect(t) ==
    /\ Ready(t, "run")
    /\ nest[t] > 0
    /\ nest' = [nest EXCEPT ![t] = @ - 1]
    /\ \/ /\ lwip_thread # search_thread(t)
          /\ UNCHANGED <<lwip_thread, lwip_count, pc>>
       \/ /\ lwip_thread = search_thread(t)
          /\ lwip_count' = lwip_count - 1
          /\ IF lwip_count = 1
             THEN lwip_thread' = NULL /\ Goto(t, "signal")
             ELSE UNCHANGED <<lwip_thread, pc>>
    /\ UNCHANGED <<semcnt, wait_queue, calls>>

Signal(t) ==
    /\ Ready(t, "signal")
    /\ Kernel!sig_sem("LWIP_PROTECT")
    /\ Goto(t, "run")
    /\ UNCHANGED <<lwip_thread, lwip_count, nest, calls>>
-------------------------------------------------------------------------------
(* sys_init, once, before a task runs. *)
Init ==
    /\ lwip_thread = NULL /\ lwip_count = 0
    /\ semcnt = [s \in Sems |-> 1]
    /\ wait_queue = [s \in Sems |-> {}]
    /\ pc = [t \in Tasks |-> "run"]
    /\ nest = [t \in Tasks |-> 0]
    /\ calls = [t \in Tasks |-> 0]

Inside(t) ==
    \/ TestOther(t) \/ TestSame(t) \/ Wait(t) \/ Own(t)
    \/ Unprotect(t) \/ Signal(t)

Next == \E t \in Tasks : Ask(t) \/ Inside(t)

Spec == Init /\ [][Next]_vars

(* A task that is inside, or on its way in or out, keeps running when it   *)
(* is ready (regions are short and a ready task runs in the end); it need  *)
(* not ask for another region, nor nest for ever.                          *)
FairSpec == Spec /\ \A t \in Tasks : WF_vars(Inside(t))
-------------------------------------------------------------------------------
Labels == {"run", "test", "wait", "own", "signal"}

(* Every variable has its type. *)
TypeOK ==
    /\ lwip_thread \in LwipTasks \cup {NULL}
    /\ lwip_count \in Nat
    /\ semcnt \in [Sems -> 0 .. 1]
    /\ wait_queue \in [Sems -> SUBSET Tasks]
    /\ pc \in [Tasks -> Labels]
    /\ nest \in [Tasks -> 0 .. MaxNest]
    /\ calls \in [Tasks -> 0 .. MaxCalls]

(* Inter-task protection (sys.h): two tasks are never inside together.     *)
RegionsExclusive == \A t, u \in Tasks : nest[t] > 0 /\ nest[u] > 0 => t = u

(* lwip_thread and lwip_count, read and written without a lock of their    *)
(* own, always describe the task inside: a stale lwip_thread would let its *)
(* task in without waiting, a wrong count would release the semaphore      *)
(* early, twice or never.                                                  *)
OwnerExact ==
    /\ lwip_thread # NULL =>
          /\ nest[lwip_thread] = lwip_count /\ lwip_count > 0
          /\ \A t \in Tasks \ {lwip_thread} : nest[t] = 0
    /\ lwip_thread = NULL => lwip_count = 0 /\ \A t \in Tasks : nest[t] = 0

(* The protection implements a monitor that a task may enter again.        *)
M == INSTANCE Monitor
ImplementsMonitor == M!Spec

(* A task that asks for a region gets in.                                  *)
ProtectReturns == \A t \in Tasks : pc[t] \in {"test", "wait", "own"} ~> pc[t] = "run"
===============================================================================
