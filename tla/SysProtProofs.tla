---------------------------- MODULE SysProtProofs ----------------------------
(***************************************************************************)
(* Theorems about SysProt for any number of LWIP tasks, any priorities and *)
(* any nesting, when only LWIP tasks enter critical regions.               *)
(***************************************************************************)
EXTENDS SysProt, TLAPS

(* The tasks of lwIP alone use SYS_ARCH_PROTECT. *)
Closed == OtherTasks = {}

S == "LWIP_PROTECT"

(* The three places where the token of LWIP_PROTECT can be besides the     *)
(* kernel's count: a task that passed wai_sem, the task inside, a task     *)
(* about to call sig_sem.                                                  *)
Has(t) ==
    \/ pc[t] = "own" /\ t \notin wait_queue[S]
    \/ lwip_thread = t
    \/ pc[t] = "signal"

Token ==
    /\ semcnt[S] = 1 => wait_queue[S] = {} /\ \A t \in Tasks : ~Has(t)
    /\ \A t, u \in Tasks : Has(t) /\ Has(u) => t = u

Places ==
    \A t \in Tasks :
        /\ t \in wait_queue[S] => pc[t] = "own"
        /\ pc[t] \in {"wait", "own", "signal"} => nest[t] = 0 /\ lwip_thread # t
        /\ pc[t] \in {"test", "wait", "own"} => nest[t] < MaxNest
        /\ lwip_thread = t => nest[t] = lwip_count /\ lwip_count > 0
        /\ nest[t] > 0 => lwip_thread = t

Count == lwip_thread = NULL => lwip_count = 0

IInv == TypeOK /\ Token /\ Places /\ Count

LEMMA Queue == ASSUME NEW t, Closed
               PROVE  Kernel!Blocked(t) <=> t \in wait_queue[S]
  BY DEF Kernel!Blocked, Sems, S

LEMMA Whole == ASSUME Closed PROVE Tasks = LwipTasks
  BY DEF Closed, Tasks

(* Initially nobody is inside and the token is in the kernel. *)
LEMMA InitInv == ASSUME Closed, Init PROVE IInv
  BY Whole, ProtAssumption
  DEF Init, IInv, TypeOK, Token, Places, Count, Has, Sems, S, Labels

(* Each step keeps the token in one place. *)
LEMMA StepInv == ASSUME Closed, IInv, [Next]_vars PROVE IInv'
  <1> USE Whole, ProtAssumption
  <1>1. CASE UNCHANGED vars
    BY <1>1 DEF vars, IInv, TypeOK, Token, Places, Count, Has
  <1>2. ASSUME NEW t \in Tasks, Ask(t) PROVE IInv'
    BY <1>2 DEF Ask, Ready, Goto, IInv, TypeOK, Token, Places, Count, Has, Labels
  <1>3. ASSUME NEW t \in Tasks, TestOther(t) PROVE IInv'
    BY <1>3 DEF TestOther, Ready, Goto, search_thread,
                IInv, TypeOK, Token, Places, Count, Has, Labels
  <1>4. ASSUME NEW t \in Tasks, TestSame(t) PROVE IInv'
    BY <1>4 DEF TestSame, Ready, Goto, search_thread,
                IInv, TypeOK, Token, Places, Count, Has, Labels
  <1>5. ASSUME NEW t \in Tasks, Wait(t) PROVE IInv'
    BY <1>5, Queue DEF Wait, Ready, Goto, Kernel!wai_sem, Sems, S,
                IInv, TypeOK, Token, Places, Count, Has, Labels
  <1>6. ASSUME NEW t \in Tasks, Own(t) PROVE IInv'
    BY <1>6, Queue DEF Own, Ready, Goto, search_thread,
                IInv, TypeOK, Token, Places, Count, Has, Labels
  <1>7. ASSUME NEW t \in Tasks, Unprotect(t) PROVE IInv'
    BY <1>7 DEF Unprotect, Ready, Goto, search_thread,
                IInv, TypeOK, Token, Places, Count, Has, Labels
  <1>8. ASSUME NEW t \in Tasks, Signal(t) PROVE IInv'
    <2>1. CASE \E u \in Kernel!FirstWaiters(S) :
                   /\ wait_queue' = [wait_queue EXCEPT ![S] = @ \ {u}]
                   /\ UNCHANGED semcnt
      BY <1>8, <2>1 DEF Signal, Ready, Goto, Kernel!FirstWaiters, Sems, S,
                IInv, TypeOK, Token, Places, Count, Has, Labels
    <2>2. CASE /\ wait_queue[S] = {} /\ UNCHANGED wait_queue
               /\ semcnt' = [semcnt EXCEPT ![S] = @ + 1]
               /\ semcnt[S] < maxsem[S]
      BY <1>8, <2>2 DEF Signal, Ready, Goto, Sems, S, maxsem,
                IInv, TypeOK, Token, Places, Count, Has, Labels
    <2>3. CASE semcnt[S] = maxsem[S]
      BY <1>8, <2>3 DEF Sems, S, maxsem, Signal, Ready, IInv, Token, Has
    <2> QED BY <1>8, <2>1, <2>2, <2>3 DEF Signal, Kernel!sig_sem, S
  <1> QED BY <1>1, <1>2, <1>3, <1>4, <1>5, <1>6, <1>7, <1>8 DEF Next, Inside

(* A reachable state satisfies the inductive invariant. *)
LEMMA Inductive == ASSUME Closed PROVE Spec => []IInv
  BY InitInv, StepInv, PTL DEF Spec

(* Every variable keeps its type, lwip_count never becomes negative and     *)
(* LWIP_PROTECT never exceeds its maximum.                                 *)
THEOREM TypeSafety == ASSUME Closed PROVE Spec => []TypeOK
  <1>1. IInv => TypeOK
    BY DEF IInv
  <1> QED BY <1>1, Inductive, PTL

(* Critical regions exclude each other, for every number of LWIP tasks and *)
(* every nesting.                                                          *)
THEOREM ProtSafety == ASSUME Closed PROVE Spec => []RegionsExclusive
  <1>1. IInv => RegionsExclusive
    BY DEF IInv, Places, RegionsExclusive
  <1> QED BY <1>1, Inductive, PTL

(* lwip_thread and lwip_count describe the task inside. *)
THEOREM OwnerSafety == ASSUME Closed PROVE Spec => []OwnerExact
  <1>1. IInv => OwnerExact
    BY Whole, ProtAssumption DEF IInv, TypeOK, Places, Count, OwnerExact
  <1> QED BY <1>1, Inductive, PTL

(* sys_arch_protect and sys_arch_unprotect implement a monitor that a task *)
(* may enter again.                                                        *)
THEOREM ProtRefines == ASSUME Closed PROVE Spec => ImplementsMonitor
  <1>1. Init => M!Init
    BY DEF Init, M!Init
  <1>2. IInv /\ [Next]_vars => [M!Next]_<<nest, calls>>
    <2> SUFFICES ASSUME IInv, [Next]_vars PROVE [M!Next]_<<nest, calls>>
      OBVIOUS
    <2> USE Whole, ProtAssumption
    <2>1. CASE UNCHANGED vars BY <2>1 DEF vars
    <2>2. ASSUME NEW t \in Tasks, Ask(t) PROVE M!Next
      BY <2>2 DEF Ask, M!Next, M!Ask
    <2>3. ASSUME NEW t \in Tasks, TestSame(t) PROVE M!Enter(t)
      BY <2>3 DEF TestSame, Ready, search_thread, IInv, TypeOK, Places, M!Enter
    <2>4. ASSUME NEW t \in Tasks, Own(t) PROVE M!Enter(t)
      BY <2>4, Queue DEF Own, Ready, IInv, TypeOK, Token, Places, Has, M!Enter
    <2>5. ASSUME NEW t \in Tasks, Unprotect(t) PROVE M!Leave(t)
      BY <2>5 DEF Unprotect, M!Leave
    <2>6. ASSUME NEW t \in Tasks, TestOther(t) \/ Wait(t) \/ Signal(t)
          PROVE  UNCHANGED <<nest, calls>>
      BY <2>6 DEF TestOther, Wait, Signal
    <2> QED BY <2>1, <2>2, <2>3, <2>4, <2>5, <2>6 DEF Next, Inside, M!Next
  <1> QED BY <1>1, <1>2, Inductive, PTL DEF Spec, ImplementsMonitor, M!Spec
===============================================================================
