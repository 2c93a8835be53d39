------------------------------ MODULE ToppersSem ------------------------------
(***************************************************************************)
(* Counting semaphores of the TOPPERS/HRP3 kernel                          *)
(* (src/hrp3_wo_tecs/kernel/semaphore.c): sig_sem, wai_sem and twai_sem.   *)
(* A task that finds no resource is queued and does not run until          *)
(* sig_sem hands the resource to it directly, without passing through      *)
(* semcnt.  A task is described by the user of this module with its        *)
(* program counter: wai_sem lets it advance to the point after the call,   *)
(* where it may run as soon as it is not Blocked.                          *)
(***************************************************************************)
EXTENDS Naturals

CONSTANTS
    Tasks,      (* the tasks that use the semaphores                       *)
    Sems,       (* the semaphores                                          *)
    maxsem,     (* SEMINIB.maxsem, a function on Sems                      *)
    Prio        (* task priority, a function on Tasks; 1 is the highest    *)

VARIABLES
    semcnt,     (* SEMCB.semcnt, a function on Sems                        *)
    wait_queue  (* SEMCB.wait_queue: the set of queued tasks; TA_TPRI      *)
                (* orders them by priority, equal priorities in any order  *)

semvars == <<semcnt, wait_queue>>

Blocked(t) == \E s \in Sems : t \in wait_queue[s]

(* queue_delete_next of a TA_TPRI queue: a waiter of the highest priority. *)
FirstWaiters(s) ==
    {t \in wait_queue[s] : \A u \in wait_queue[s] : Prio[t] <= Prio[u]}

wai_sem(t, s) ==
    \/ /\ semcnt[s] >= 1
       /\ semcnt' = [semcnt EXCEPT ![s] = @ - 1]
       /\ UNCHANGED wait_queue
    \/ /\ semcnt[s] = 0
       /\ wait_queue' = [wait_queue EXCEPT ![s] = @ \cup {t}]
       /\ UNCHANGED semcnt

(* The three outcomes of sig_sem: hand over, count up, E_QOVR. *)
sig_sem(s) ==
    \/ \E t \in FirstWaiters(s) :
          /\ wait_queue' = [wait_queue EXCEPT ![s] = @ \ {t}]
          /\ UNCHANGED semcnt
    \/ /\ wait_queue[s] = {}
       /\ semcnt[s] < maxsem[s]
       /\ semcnt' = [semcnt EXCEPT ![s] = @ + 1]
       /\ UNCHANGED wait_queue
    \/ /\ wait_queue[s] = {}
       /\ semcnt[s] = maxsem[s]
       /\ UNCHANGED semvars

(* twai_sem ends with E_TMOUT: the kernel's timer removes a queued task. *)
wait_timeout(t, s) ==
    /\ t \in wait_queue[s]
    /\ wait_queue' = [wait_queue EXCEPT ![s] = @ \ {t}]
    /\ UNCHANGED semcnt

===============================================================================
