---------------------------- MODULE SysMboxProofs ----------------------------
(***************************************************************************)
(* Theorems about SysMbox for every set of posting and fetching tasks,     *)
(* every priority assignment, mailbox size and number of calls.            *)
(***************************************************************************)
EXTENDS SysMbox, FiniteSetTheorems, SequenceTheorems, TLAPS

USE MboxAssumption

(* The effect of the kernel calls on counts and queues, pointwise. *)
KernelOK ==
    /\ semcnt \in [Sems -> 0 .. 1]
    /\ wait_queue \in [Sems -> SUBSET Tasks]

LEMMA WaiEffect ==
    ASSUME KernelOK, NEW t \in Tasks, NEW s \in Sems, Kernel!wai_sem(t, s)
    PROVE  /\ KernelOK'
           /\ \A r \in Sems \ {s} : semcnt'[r] = semcnt[r] /\ wait_queue'[r] = wait_queue[r]
           /\ semcnt'[s] = 0
           /\ \/ semcnt[s] = 1 /\ wait_queue'[s] = wait_queue[s]
              \/ semcnt[s] = 0 /\ wait_queue'[s] = wait_queue[s] \cup {t}
  BY DEF KernelOK, Kernel!wai_sem

LEMMA SigEffect ==
    ASSUME KernelOK, NEW s \in Sems, Kernel!sig_sem(s)
    PROVE  /\ KernelOK'
           /\ \A r \in Sems \ {s} : semcnt'[r] = semcnt[r] /\ wait_queue'[r] = wait_queue[r]
           /\ \/ /\ semcnt'[s] = semcnt[s]
                 /\ \E u \in wait_queue[s] : wait_queue'[s] = wait_queue[s] \ {u}
              \/ /\ semcnt'[s] = 1
                 /\ wait_queue[s] = {} /\ wait_queue'[s] = {}
  <1>1. CASE \E t \in Kernel!FirstWaiters(s) :
                /\ wait_queue' = [wait_queue EXCEPT ![s] = @ \ {t}]
                /\ UNCHANGED semcnt
    BY <1>1 DEF KernelOK, Kernel!FirstWaiters
  <1>2. CASE /\ wait_queue[s] = {}
             /\ semcnt[s] < maxsem[s]
             /\ semcnt' = [semcnt EXCEPT ![s] = @ + 1]
             /\ UNCHANGED wait_queue
    BY <1>2 DEF KernelOK, maxsem
  <1>3. CASE /\ wait_queue[s] = {}
             /\ semcnt[s] = maxsem[s]
             /\ UNCHANGED <<semcnt, wait_queue>>
    BY <1>3 DEF KernelOK, maxsem
  <1> QED BY <1>1, <1>2, <1>3 DEF Kernel!sig_sem, Kernel!semvars

-------------------------------------------------------------------------------
(* Which points a task can be at, and at which point it waits for what. *)
Roles ==
    /\ \A p \in Posters : /\ pc[p] \in Posting \cup {"idle", "unlock"}
                          /\ pc[p] \in Posting => calls[p] \in 1 .. MaxCalls
    /\ \A f \in Fetchers : pc[f] \in {"idle", "fetch", "fetch_wait", "fetch_lock", "unlock"}

QueuesOK ==
    /\ \A t \in wait_queue["mutex"] : pc[t] \in {"post", "post_awake", "fetch"}
    /\ \A t \in wait_queue["not_full"] : t \in Posters /\ pc[t] = "post_lock"
    /\ \A t \in wait_queue["not_empty"] : t \in Fetchers /\ pc[t] = "fetch_lock"

Waiting  == {p \in Posters : Counted(p)}
TypeInv  == TypeOK /\ Roles /\ QueuesOK /\ WaitSendExact

LEMMA SlotRange == \A n \in Nat : Slot(n) \in 0 .. SYS_MBOX_SIZE - 1
  BY DEF Slot

LEMMA TypeKernel == TypeOK => KernelOK
  BY DEF TypeOK, KernelOK

LEMMA WaitingFinite == IsFiniteSet(Waiting) /\ Cardinality(Waiting) \in Nat
  BY FS_Subset, FS_CardinalityType DEF Waiting

LEMMA TypeInit == Init => TypeInv
  <1> SUFFICES ASSUME Init PROVE TypeInv
    OBVIOUS
  <1>1. TypeOK
    BY DEF Init, TypeOK, Sems, Labels
  <1>2. Roles /\ QueuesOK
    BY DEF Init, Roles, QueuesOK, Tasks, Sems, Posting
  <1>3. Waiting = {}
    BY DEF Init, Waiting, Counted, Tasks
  <1>4. WaitSendExact
    BY <1>3, FS_EmptySet DEF Init, WaitSendExact, Waiting
  <1> QED BY <1>1, <1>2, <1>4 DEF TypeInv

(* A step of task t that moves its pc between points of one side of the    *)
(* count leaves the count alone; the other two change it by one.           *)
LEMMA CountSame ==
    ASSUME TypeInv, wait_send' = wait_send, Waiting' = Waiting
    PROVE  WaitSendExact'
  BY DEF TypeInv, WaitSendExact, Waiting

LEMMA TypePostFull ==
    ASSUME TypeInv, NEW p \in Posters, PostFull(p) PROVE WaitSendExact' /\ wait_send' \in Nat
  <1>1. p \notin Waiting /\ Waiting' = Waiting \cup {p}
    BY DEF TypeInv, TypeOK, PostFull, At, Goto, Waiting, Counted, Tasks
  <1>2. Cardinality(Waiting') = Cardinality(Waiting) + 1
    BY <1>1, WaitingFinite, FS_AddElement
  <1> QED BY <1>2, WaitingFinite DEF TypeInv, TypeOK, WaitSendExact, Waiting, PostFull

LEMMA TypePostAwake ==
    ASSUME TypeInv, NEW p \in Posters, PostAwake(p) PROVE WaitSendExact' /\ wait_send' \in Nat
  <1>1. p \in Waiting /\ Waiting' = Waiting \ {p}
    BY DEF TypeInv, TypeOK, PostAwake, At, Goto, Waiting, Counted, Tasks
  <1>2. /\ Cardinality(Waiting') = Cardinality(Waiting) - 1
        /\ Cardinality(Waiting') \in Nat
    BY <1>1, WaitingFinite, FS_RemoveElement, FS_CardinalityType
  <1> QED BY <1>2, WaitingFinite DEF TypeInv, TypeOK, WaitSendExact, Waiting, PostAwake

LEMMA TypeCallPost ==
    ASSUME TypeInv, NEW p \in Posters, NEW o \in PostOps[p], CallPost(p, o) PROVE TypeInv'
  <1> USE DEF TypeInv
  <1>0. KernelOK /\ "mutex" \in Sems /\ p \in Tasks
    BY TypeKernel DEF Sems, Tasks
  <1>a. o = "post" \/ o = "trypost"
    OBVIOUS
  <1>b. pc' = [pc EXCEPT ![p] = "post"] /\ op' = [op EXCEPT ![p] = o]
    BY DEF CallPost, Goto
  <1>c. op' \in [Tasks -> {"none", "post", "trypost", "fetch", "fetch_tmo", "tryfetch"}]
    BY <1>0, <1>a, <1>b DEF TypeOK
  <1>1. TypeOK'
    BY <1>0, <1>c, WaiEffect DEF TypeOK, KernelOK, CallPost, At, Goto, mbox, Labels, Posting
  <1>2. Roles'
    BY DEF TypeOK, Roles, CallPost, At, Goto, Tasks, Posting
  <1>3. QueuesOK'
    BY <1>0, WaiEffect DEF TypeOK, QueuesOK, CallPost, At, Goto, Tasks, Sems, Kernel!Blocked
  <1>4. WaitSendExact'
    BY CountSame DEF TypeOK, CallPost, At, Goto, mbox, Waiting, Counted, Tasks
  <1> QED BY <1>1, <1>2, <1>3, <1>4

LEMMA TypeStore ==
    ASSUME TypeInv, NEW p \in Posters, Store(p) PROVE TypeInv'
  <1> USE DEF TypeInv
  <1>0. KernelOK /\ {"mutex", "not_empty"} \subseteq Sems /\ p \in Tasks
    BY TypeKernel DEF Sems, Tasks
  <1>a. Kernel!sig_sem("not_empty") \/ Kernel!sig_sem("mutex")
    BY DEF Store
  <1>b. /\ pc[p] = "post"
        /\ pc' = [pc EXCEPT ![p] = "unlock"] \/ pc' = [pc EXCEPT ![p] = "idle"]
    BY DEF Store, At, Goto
  <1>c. msg(p) \in Msgs /\ Slot(last) \in 0 .. SYS_MBOX_SIZE - 1
    BY <1>b, SlotRange DEF Roles, Posting, Msgs, msg, TypeOK
  <1>1. TypeOK'
    <2>1. KernelOK'
      BY <1>0, <1>a, SigEffect
    <2>2. pc' \in [Tasks -> Labels]
      BY <1>0, <1>b DEF TypeOK, Labels
    <2>3. msgs' \in [0 .. SYS_MBOX_SIZE - 1 -> Msgs \cup {NoMsg}]
      BY <1>c DEF TypeOK, Store, Msgs
    <2> QED BY <2>1, <2>2, <2>3 DEF TypeOK, KernelOK, Store, Msgs
  <1>2. Roles'
    <2>1. \A t \in Tasks : pc'[t] = pc[t] \/ (t = p /\ pc'[t] \in {"idle", "unlock"})
      BY <1>b DEF TypeOK
    <2>2. calls' = calls /\ Posters \subseteq Tasks /\ Fetchers \subseteq Tasks
      BY DEF Store, Tasks
    <2> QED BY <2>1, <2>2 DEF Roles, Posting
  <1>3. QueuesOK'
    <2>1. \A s \in Sems : p \notin wait_queue[s]
      BY DEF Store, At, Kernel!Blocked
    <2>2. \A s \in Sems : wait_queue'[s] \subseteq wait_queue[s]
      BY <1>0, <1>a, SigEffect DEF KernelOK
    <2>3. \A t \in Tasks : t # p => pc'[t] = pc[t]
      BY <1>b DEF TypeOK
    <2>4. \A s \in Sems : \A t \in wait_queue'[s] : t \in wait_queue[s] /\ pc'[t] = pc[t]
      BY <2>1, <2>2, <2>3 DEF TypeOK
    <2> QED BY <2>4 DEF QueuesOK, Sems
  <1>4. WaitSendExact'
    <2>1. Waiting' = Waiting
      BY <1>0, <1>b DEF TypeOK, Roles, Waiting, Counted, Tasks
    <2> QED BY <2>1, CountSame DEF Store
  <1> QED BY <1>1, <1>2, <1>3, <1>4

LEMMA TypeRefuse ==
    ASSUME TypeInv, NEW p \in Posters, Refuse(p) PROVE TypeInv'
  <1> USE DEF TypeInv
  <1>0. KernelOK /\ {"mutex"} \subseteq Sems /\ p \in Tasks
    BY TypeKernel DEF Sems, Tasks
  <1>1. TypeOK'
    BY <1>0, WaiEffect, SigEffect DEF TypeOK, KernelOK, Refuse, At, Goto, mbox, Labels, Posting
  <1>2. Roles'
    BY DEF TypeOK, Roles, Refuse, At, Goto, Tasks, Posting
  <1>3. QueuesOK'
    BY <1>0, WaiEffect, SigEffect DEF TypeOK, QueuesOK, Refuse, At, Goto, Tasks, Sems, Kernel!Blocked
  <1>4. WaitSendExact'
    BY CountSame DEF TypeOK, Roles, Refuse, At, Goto, mbox, Waiting, Counted, Tasks
  <1> QED BY <1>1, <1>2, <1>3, <1>4

LEMMA TypeFull ==
    ASSUME TypeInv, NEW p \in Posters, PostFull(p) PROVE TypeInv'
  <1> USE DEF TypeInv
  <1>0. KernelOK /\ {"mutex"} \subseteq Sems /\ p \in Tasks
    BY TypeKernel DEF Sems, Tasks
  <1>1. TypeOK'
    BY <1>0, WaiEffect, SigEffect, TypePostFull DEF TypeOK, KernelOK, PostFull, At, Goto, mbox, Labels, Posting
  <1>2. Roles'
    BY DEF TypeOK, Roles, PostFull, At, Goto, Tasks, Posting
  <1>3. QueuesOK'
    BY <1>0, WaiEffect, SigEffect DEF TypeOK, QueuesOK, PostFull, At, Goto, Tasks, Sems, Kernel!Blocked
  <1>4. WaitSendExact'
    BY TypePostFull
  <1> QED BY <1>1, <1>2, <1>3, <1>4

LEMMA TypePostWait ==
    ASSUME TypeInv, NEW p \in Posters, PostWait(p) PROVE TypeInv'
  <1> USE DEF TypeInv
  <1>0. KernelOK /\ {"not_full"} \subseteq Sems /\ p \in Tasks
    BY TypeKernel DEF Sems, Tasks
  <1>1. TypeOK'
    BY <1>0, WaiEffect, SigEffect DEF TypeOK, KernelOK, PostWait, At, Goto, mbox, Labels, Posting
  <1>2. Roles'
    BY DEF TypeOK, Roles, PostWait, At, Goto, Tasks, Posting
  <1>3. QueuesOK'
    BY <1>0, WaiEffect, SigEffect DEF TypeOK, QueuesOK, PostWait, At, Goto, Tasks, Sems, Kernel!Blocked
  <1>4. WaitSendExact'
    BY CountSame DEF TypeOK, Roles, PostWait, At, Goto, mbox, Waiting, Counted, Tasks
  <1> QED BY <1>1, <1>2, <1>3, <1>4

LEMMA TypePostLock ==
    ASSUME TypeInv, NEW p \in Posters, PostLock(p) PROVE TypeInv'
  <1> USE DEF TypeInv
  <1>0. KernelOK /\ {"mutex"} \subseteq Sems /\ p \in Tasks
    BY TypeKernel DEF Sems, Tasks
  <1>1. TypeOK'
    BY <1>0, WaiEffect, SigEffect DEF TypeOK, KernelOK, PostLock, At, Goto, mbox, Labels, Posting
  <1>2. Roles'
    BY DEF TypeOK, Roles, PostLock, At, Goto, Tasks, Posting
  <1>3. QueuesOK'
    BY <1>0, WaiEffect, SigEffect DEF TypeOK, QueuesOK, PostLock, At, Goto, Tasks, Sems, Kernel!Blocked
  <1>4. WaitSendExact'
    BY CountSame DEF TypeOK, Roles, PostLock, At, Goto, mbox, Waiting, Counted, Tasks
  <1> QED BY <1>1, <1>2, <1>3, <1>4

LEMMA TypeAwake ==
    ASSUME TypeInv, NEW p \in Posters, PostAwake(p) PROVE TypeInv'
  <1> USE DEF TypeInv
  <1>0. KernelOK /\ {"mutex"} \subseteq Sems /\ p \in Tasks
    BY TypeKernel DEF Sems, Tasks
  <1>1. TypeOK'
    BY <1>0, WaiEffect, SigEffect, TypePostAwake DEF TypeOK, KernelOK, PostAwake, At, Goto, mbox, Labels, Posting
  <1>2. Roles'
    BY DEF TypeOK, Roles, PostAwake, At, Goto, Tasks, Posting
  <1>3. QueuesOK'
    BY <1>0, WaiEffect, SigEffect DEF TypeOK, QueuesOK, PostAwake, At, Goto, Tasks, Sems, Kernel!Blocked
  <1>4. WaitSendExact'
    BY TypePostAwake
  <1> QED BY <1>1, <1>2, <1>3, <1>4

LEMMA TypeCallFetch ==
    ASSUME TypeInv, NEW f \in Fetchers, NEW o \in FetchOps, CallFetch(f, o) PROVE TypeInv'
  <1> USE DEF TypeInv
  <1>0. KernelOK /\ {"mutex"} \subseteq Sems /\ f \in Tasks
    BY TypeKernel DEF Sems, Tasks
  <1>1. TypeOK'
    BY <1>0, WaiEffect, SigEffect DEF TypeOK, KernelOK, CallFetch, At, Goto, mbox, Labels, Posting
  <1>2. Roles'
    BY DEF TypeOK, Roles, CallFetch, At, Goto, Tasks, Posting
  <1>3. QueuesOK'
    BY <1>0, WaiEffect, SigEffect DEF TypeOK, QueuesOK, CallFetch, At, Goto, Tasks, Sems, Kernel!Blocked
  <1>4. WaitSendExact'
    BY CountSame DEF TypeOK, Roles, CallFetch, At, Goto, mbox, Waiting, Counted, Tasks
  <1> QED BY <1>1, <1>2, <1>3, <1>4

LEMMA TypeTake ==
    ASSUME TypeInv, NEW f \in Fetchers, Take(f) PROVE TypeInv'
  <1> USE DEF TypeInv
  <1>0. KernelOK /\ {"mutex", "not_full"} \subseteq Sems /\ f \in Tasks
    BY TypeKernel DEF Sems, Tasks
  <1>a. Kernel!sig_sem("not_full") \/ Kernel!sig_sem("mutex")
    BY DEF Take
  <1>b. /\ pc[f] = "fetch"
        /\ pc' = [pc EXCEPT ![f] = "unlock"] \/ pc' = [pc EXCEPT ![f] = "idle"]
    BY DEF Take, At, Goto
  <1>1. TypeOK'
    <2>1. KernelOK'
      BY <1>0, <1>a, SigEffect
    <2>2. pc' \in [Tasks -> Labels]
      BY <1>0, <1>b DEF TypeOK, Labels
    <2>3. got' \in [Fetchers -> Msgs \cup {NoMsg}]
      <3>1. Slot(first) \in 0 .. SYS_MBOX_SIZE - 1
        BY SlotRange DEF TypeOK
      <3> QED BY <3>1 DEF TypeOK, Take
    <2> QED BY <2>1, <2>2, <2>3, SMTT(30) DEF TypeOK, KernelOK, Take, Msgs
  <1>2. Roles'
    <2>1. \A t \in Tasks : pc'[t] = pc[t] \/ (t = f /\ pc'[t] \in {"idle", "unlock"})
      BY <1>b DEF TypeOK
    <2>2. calls' = calls /\ Posters \subseteq Tasks /\ Fetchers \subseteq Tasks
      BY DEF Take, Tasks
    <2> QED BY <2>1, <2>2 DEF Roles, Posting
  <1>3. QueuesOK'
    <2>1. \A s \in Sems : f \notin wait_queue[s]
      BY DEF Take, At, Kernel!Blocked
    <2>2. \A s \in Sems : wait_queue'[s] \subseteq wait_queue[s]
      BY <1>0, <1>a, SigEffect DEF KernelOK
    <2>3. \A t \in Tasks : t # f => pc'[t] = pc[t]
      BY <1>b DEF TypeOK
    <2>4. \A s \in Sems : \A t \in wait_queue'[s] : t \in wait_queue[s] /\ pc'[t] = pc[t]
      BY <2>1, <2>2, <2>3 DEF TypeOK
    <2> QED BY <2>4 DEF QueuesOK, Sems
  <1>4. WaitSendExact'
    <2>1. Waiting' = Waiting
      BY <1>0, <1>b DEF TypeOK, Roles, Waiting, Counted, Tasks
    <2> QED BY <2>1, CountSame DEF Take
  <1> QED BY <1>1, <1>2, <1>3, <1>4

LEMMA TypeFetchEmpty ==
    ASSUME TypeInv, NEW f \in Fetchers, FetchEmpty(f) PROVE TypeInv'
  <1> USE DEF TypeInv
  <1>0. KernelOK /\ {"mutex"} \subseteq Sems /\ f \in Tasks
    BY TypeKernel DEF Sems, Tasks
  <1>1. TypeOK'
    BY <1>0, WaiEffect, SigEffect DEF TypeOK, KernelOK, FetchEmpty, At, Goto, mbox, Labels, Posting
  <1>2. Roles'
    BY DEF TypeOK, Roles, FetchEmpty, At, Goto, Tasks, Posting
  <1>3. QueuesOK'
    BY <1>0, WaiEffect, SigEffect DEF TypeOK, QueuesOK, FetchEmpty, At, Goto, Tasks, Sems, Kernel!Blocked
  <1>4. WaitSendExact'
    BY CountSame DEF TypeOK, Roles, FetchEmpty, At, Goto, mbox, Waiting, Counted, Tasks
  <1> QED BY <1>1, <1>2, <1>3, <1>4

LEMMA TypeFetchWait ==
    ASSUME TypeInv, NEW f \in Fetchers, FetchWait(f) PROVE TypeInv'
  <1> USE DEF TypeInv
  <1>0. KernelOK /\ {"not_empty"} \subseteq Sems /\ f \in Tasks
    BY TypeKernel DEF Sems, Tasks
  <1>1. TypeOK'
    BY <1>0, WaiEffect, SigEffect DEF TypeOK, KernelOK, FetchWait, At, Goto, mbox, Labels, Posting
  <1>2. Roles'
    BY DEF TypeOK, Roles, FetchWait, At, Goto, Tasks, Posting
  <1>3. QueuesOK'
    BY <1>0, WaiEffect, SigEffect DEF TypeOK, QueuesOK, FetchWait, At, Goto, Tasks, Sems, Kernel!Blocked
  <1>4. WaitSendExact'
    BY CountSame DEF TypeOK, Roles, FetchWait, At, Goto, mbox, Waiting, Counted, Tasks
  <1> QED BY <1>1, <1>2, <1>3, <1>4

LEMMA TypeFetchLock ==
    ASSUME TypeInv, NEW f \in Fetchers, FetchLock(f) PROVE TypeInv'
  <1> USE DEF TypeInv
  <1>0. KernelOK /\ {"mutex"} \subseteq Sems /\ f \in Tasks
    BY TypeKernel DEF Sems, Tasks
  <1>1. TypeOK'
    BY <1>0, WaiEffect, SigEffect DEF TypeOK, KernelOK, FetchLock, At, Goto, mbox, Labels, Posting
  <1>2. Roles'
    BY DEF TypeOK, Roles, FetchLock, At, Goto, Tasks, Posting
  <1>3. QueuesOK'
    BY <1>0, WaiEffect, SigEffect DEF TypeOK, QueuesOK, FetchLock, At, Goto, Tasks, Sems, Kernel!Blocked
  <1>4. WaitSendExact'
    BY CountSame DEF TypeOK, Roles, FetchLock, At, Goto, mbox, Waiting, Counted, Tasks
  <1> QED BY <1>1, <1>2, <1>3, <1>4

LEMMA TypeFetchTimeout ==
    ASSUME TypeInv, NEW f \in Fetchers, FetchTimeout(f) PROVE TypeInv'
  <1> USE DEF TypeInv
  <1>0. KernelOK /\ {"not_empty"} \subseteq Sems /\ f \in Tasks
    BY TypeKernel DEF Sems, Tasks
  <1>1. TypeOK'
    BY <1>0, WaiEffect, SigEffect DEF TypeOK, KernelOK, FetchTimeout, At, Goto, mbox, Labels, Posting, Kernel!wait_timeout
  <1>2. Roles'
    BY DEF TypeOK, Roles, FetchTimeout, At, Goto, Tasks, Posting
  <1>3. QueuesOK'
    BY <1>0, WaiEffect, SigEffect DEF TypeOK, QueuesOK, FetchTimeout, At, Goto, Tasks, Sems, Kernel!wait_timeout
  <1>4. WaitSendExact'
    BY CountSame DEF TypeOK, Roles, FetchTimeout, At, Goto, mbox, Waiting, Counted, Tasks
  <1> QED BY <1>1, <1>2, <1>3, <1>4

LEMMA TypeUnlock ==
    ASSUME TypeInv, NEW t \in Tasks, Unlock(t) PROVE TypeInv'
  <1> USE DEF TypeInv
  <1>0. KernelOK /\ {"mutex"} \subseteq Sems /\ t \in Tasks
    BY TypeKernel DEF Sems, Tasks
  <1>1. TypeOK'
    BY <1>0, WaiEffect, SigEffect DEF TypeOK, KernelOK, Unlock, At, Goto, mbox, Labels, Posting
  <1>2. Roles'
    BY DEF TypeOK, Roles, Unlock, At, Goto, Tasks, Posting
  <1>3. QueuesOK'
    BY <1>0, WaiEffect, SigEffect DEF TypeOK, QueuesOK, Unlock, At, Goto, Tasks, Sems, Kernel!Blocked
  <1>4. WaitSendExact'
    BY CountSame DEF TypeOK, Roles, Unlock, At, Goto, mbox, Waiting, Counted, Tasks
  <1> QED BY <1>1, <1>2, <1>3, <1>4

LEMMA TypeStep == TypeInv /\ [Next]_vars => TypeInv'
  <1> SUFFICES ASSUME TypeInv, [Next]_vars PROVE TypeInv'
    OBVIOUS
  <1>1. ASSUME NEW p \in Posters, PostStep(p) PROVE TypeInv'
    BY <1>1, TypeCallPost, TypeStore, TypeRefuse, TypeFull, TypePostWait,
       TypePostLock, TypeAwake, TypeUnlock DEF PostStep, Tasks
  <1>2. ASSUME NEW f \in Fetchers, FetchStep(f) \/ FetchTimeout(f) PROVE TypeInv'
    BY <1>2, TypeCallFetch, TypeTake, TypeFetchEmpty, TypeFetchWait,
       TypeFetchLock, TypeFetchTimeout, TypeUnlock DEF FetchStep, Fetching, Tasks
  <1>3. CASE UNCHANGED vars
    BY <1>3 DEF vars, TypeInv, TypeOK, Roles, QueuesOK, WaitSendExact, Counted
  <1> QED BY <1>1, <1>2, <1>3 DEF Next

(* The types hold, every task is where its role lets it be and queued only *)
(* where it asked to wait: what the other theorems rest on.                *)
THEOREM Typing == Spec => []TypeInv
  BY TypeInit, TypeStep, PTL DEF Spec

(* Every field of the mailbox and the kernel's semaphores keeps its type,    *)
(* and no ring index leaves msgs, for any number of tasks and any size.      *)
THEOREM TypeSafety == Spec => []TypeOK
  <1>1. TypeInv => TypeOK
    BY DEF TypeInv
  <1> QED BY Typing, <1>1, PTL

(* wait_send is the number of posters inside the loop of sys_mbox_post,    *)
(* whoever of them was woken.                                              *)
THEOREM CountSafety == Spec => []WaitSendExact
  <1>1. TypeInv => WaitSendExact
    BY DEF TypeInv
  <1> QED BY <1>1, Typing, PTL

-------------------------------------------------------------------------------
(* A free mutex has no owner and no queue. *)
MutexFree ==
    semcnt["mutex"] = 1 => /\ wait_queue["mutex"] = {}
                           /\ \A t \in Tasks : ~Holds(t)

MutexInv == MutexFree /\ MutualExclusion

LEMMA LockStep ==
    ASSUME TypeInv, MutexInv, NEW t \in Tasks, NEW l \in InMutex,
           pc[t] \notin InMutex, pc' = [pc EXCEPT ![t] = l], Kernel!wai_sem(t, "mutex")
    PROVE  MutexInv'
  <1>1. KernelOK /\ "mutex" \in Sems
    BY TypeKernel DEF TypeInv, Sems
  <1>2. \A u \in Tasks : u # t => (Holds(u)' <=> Holds(u))
    BY <1>1, WaiEffect DEF TypeInv, TypeOK, Holds, KernelOK
  <1>3. CASE semcnt["mutex"] = 1
    BY <1>1, <1>2, <1>3, WaiEffect DEF MutexInv, MutexFree, MutualExclusion
  <1>4. CASE semcnt["mutex"] = 0
    <2>1. ~Holds(t)'
      BY <1>1, <1>4, WaiEffect DEF Holds
    <2> QED BY <1>1, <1>2, <1>4, <2>1, WaiEffect DEF MutexInv, MutexFree, MutualExclusion
  <1> QED BY <1>1, <1>3, <1>4 DEF KernelOK

LEMMA UnlockStep ==
    ASSUME TypeInv, MutexInv, NEW t \in Tasks, NEW l,
           l \notin InMutex, pc' = [pc EXCEPT ![t] = l], Holds(t), Kernel!sig_sem("mutex")
    PROVE  MutexInv'
  <1>1. KernelOK /\ "mutex" \in Sems /\ semcnt["mutex"] = 0
    BY TypeKernel DEF TypeInv, Sems, MutexInv, MutexFree, KernelOK
  <1>2. /\ ~Holds(t)'
        /\ \A u \in Tasks : u # t => ~Holds(u) /\ (pc'[u] = pc[u])
    BY DEF TypeInv, TypeOK, Holds, MutexInv, MutualExclusion
  <1>3. CASE \E u \in wait_queue["mutex"] : wait_queue'["mutex"] = wait_queue["mutex"] \ {u}
    <2>1. PICK u \in wait_queue["mutex"] : wait_queue'["mutex"] = wait_queue["mutex"] \ {u}
      BY <1>3
    <2>2. \A v \in Tasks : Holds(v)' => v = u
      BY <1>2, <2>1 DEF Holds
    <2>3. semcnt'["mutex"] = 0
      BY <1>1, <2>1, SigEffect
    <2> QED BY <2>2, <2>3 DEF MutexInv, MutexFree, MutualExclusion
  <1>4. CASE wait_queue["mutex"] = {} /\ wait_queue'["mutex"] = {}
    <2>1. \A v \in Tasks : ~Holds(v)'
      BY <1>2, <1>4 DEF Holds
    <2> QED BY <1>4, <2>1 DEF MutexInv, MutexFree, MutualExclusion
  <1> QED BY <1>1, <1>3, <1>4, SigEffect

LEMMA OtherStep ==
    ASSUME TypeInv, MutexInv, NEW t \in Tasks, NEW l,
           l \in InMutex <=> pc[t] \in InMutex, pc' = [pc EXCEPT ![t] = l],
           semcnt'["mutex"] = semcnt["mutex"], wait_queue'["mutex"] = wait_queue["mutex"]
    PROVE  MutexInv'
  <1>1. \A u \in Tasks : Holds(u)' <=> Holds(u)
    BY DEF TypeInv, TypeOK, Holds
  <1> QED BY <1>1 DEF MutexInv, MutexFree, MutualExclusion

LEMMA MutexStep == TypeInv /\ MutexInv /\ [Next]_vars => MutexInv'
  <1> SUFFICES ASSUME TypeInv, MutexInv, [Next]_vars PROVE MutexInv'
    OBVIOUS
  <1> USE DEF Goto, At, InMutex
  <1>0. KernelOK /\ {"mutex", "not_full", "not_empty"} \subseteq Sems
    BY TypeKernel DEF Sems, TypeInv
  <1>1. ASSUME NEW t \in Tasks, At(t, pc[t]), pc[t] \in InMutex PROVE Holds(t)
    BY <1>0, <1>1 DEF Holds, Kernel!Blocked
  <1>2. ASSUME NEW p \in Posters, PostStep(p) PROVE MutexInv'
    <2>0. p \in Tasks
      BY DEF Tasks
    <2>1. ASSUME NEW o \in PostOps[p], CallPost(p, o) PROVE MutexInv'
      BY <2>0, <2>1, LockStep DEF CallPost
    <2>2. CASE Store(p)
      <3>1. CASE IsEmpty
        BY <1>0, <2>0, <2>2, <3>1, OtherStep, SigEffect DEF Store, Sems
      <3>2. CASE ~IsEmpty
        BY <1>1, <2>0, <2>2, <3>2, UnlockStep DEF Store
      <3> QED BY <3>1, <3>2
    <2>3. CASE Refuse(p)
      BY <1>1, <2>0, <2>3, UnlockStep DEF Refuse
    <2>4. CASE PostFull(p)
      BY <1>1, <2>0, <2>4, UnlockStep DEF PostFull
    <2>5. CASE PostWait(p)
      BY <1>0, <2>0, <2>5, OtherStep, WaiEffect DEF PostWait, Sems
    <2>6. CASE PostLock(p)
      BY <2>0, <2>6, LockStep DEF PostLock
    <2>7. CASE PostAwake(p)
      BY <2>0, <2>7, OtherStep DEF PostAwake
    <2>8. CASE Unlock(p)
      BY <1>1, <2>0, <2>8, UnlockStep DEF Unlock
    <2> QED BY <1>2, <2>1, <2>2, <2>3, <2>4, <2>5, <2>6, <2>7, <2>8 DEF PostStep
  <1>3. ASSUME NEW f \in Fetchers, FetchStep(f) \/ FetchTimeout(f) PROVE MutexInv'
    <2>0. f \in Tasks
      BY DEF Tasks
    <2>1. ASSUME NEW o \in FetchOps, CallFetch(f, o) PROVE MutexInv'
      BY <2>0, <2>1, LockStep DEF CallFetch
    <2>2. CASE Take(f)
      <3>1. CASE wait_send > 0
        <4>1. /\ Kernel!sig_sem("not_full")
              /\ pc[f] = "fetch" /\ pc' = [pc EXCEPT ![f] = "unlock"]
          BY <2>2, <3>1 DEF Take
        <4>2. semcnt'["mutex"] = semcnt["mutex"] /\ wait_queue'["mutex"] = wait_queue["mutex"]
          BY <1>0, <4>1, SigEffect
        <4> QED BY <2>0, <4>1, <4>2, OtherStep
      <3>2. CASE ~(wait_send > 0)
        BY <1>1, <2>0, <2>2, <3>2, UnlockStep DEF Take
      <3> QED BY <3>1, <3>2
    <2>3. CASE FetchEmpty(f)
      <3>1. CASE op[f] = "tryfetch"
        BY <1>1, <2>0, <2>3, <3>1, UnlockStep DEF FetchEmpty
      <3>2. CASE op[f] # "tryfetch"
        BY <1>1, <2>0, <2>3, <3>2, UnlockStep DEF FetchEmpty
      <3> QED BY <3>1, <3>2
    <2>4. CASE FetchWait(f)
      BY <1>0, <2>0, <2>4, OtherStep, WaiEffect DEF FetchWait, Sems
    <2>5. CASE FetchLock(f)
      BY <2>0, <2>5, LockStep DEF FetchLock
    <2>6. CASE FetchTimeout(f)
      <3>1. /\ semcnt' = semcnt
            /\ wait_queue'["mutex"] = wait_queue["mutex"]
        BY <1>0, <2>6 DEF FetchTimeout, Kernel!wait_timeout, KernelOK
      <3>2. pc[f] = "fetch_lock" /\ pc' = [pc EXCEPT ![f] = "idle"]
        BY <2>6 DEF FetchTimeout
      <3> QED BY <2>0, <3>1, <3>2, OtherStep
    <2>7. CASE Unlock(f)
      BY <1>1, <2>0, <2>7, UnlockStep DEF Unlock
    <2> QED BY <1>3, <2>1, <2>2, <2>3, <2>4, <2>5, <2>6, <2>7 DEF FetchStep, Fetching
  <1>4. CASE UNCHANGED vars
    BY <1>4 DEF vars, MutexInv, MutexFree, MutualExclusion, Holds
  <1> QED BY <1>2, <1>3, <1>4 DEF Next

(* The mailbox mutex admits one task at a time, for any number of tasks.   *)
THEOREM MutexSafety == Spec => []MutualExclusion
  <1>1. Init => MutexInv
    BY DEF Init, MutexInv, MutexFree, MutualExclusion, Holds, Sems, InMutex
  <1>2. MutexInv => MutualExclusion
    BY DEF MutexInv
  <1> QED BY <1>1, <1>2, MutexStep, Typing, PTL DEF Spec

-------------------------------------------------------------------------------
LEMMA BoundsStep == TypeInv /\ MboxBounds /\ [Next]_vars => MboxBounds'
  <1> SUFFICES ASSUME TypeInv, MboxBounds, [Next]_vars PROVE MboxBounds'
    OBVIOUS
  <1>1. first \in Nat /\ last \in Nat
    BY DEF TypeInv, TypeOK
  <1>2. ASSUME NEW p \in Posters, Store(p) PROVE MboxBounds'
    BY <1>1, <1>2 DEF Store, IsFull, MboxBounds
  <1>3. ASSUME NEW f \in Fetchers, Take(f) PROVE MboxBounds'
    BY <1>1, <1>3 DEF Take, IsEmpty, MboxBounds
  <1>4. ASSUME UNCHANGED <<first, last>> PROVE MboxBounds'
    BY <1>4 DEF MboxBounds
  <1>5. ASSUME NEW p \in Posters, PostStep(p), ~Store(p) PROVE UNCHANGED <<first, last>>
    BY <1>5 DEF PostStep, CallPost, Refuse, PostFull, PostWait, PostLock, PostAwake, Unlock, mbox
  <1>6. ASSUME NEW f \in Fetchers, FetchStep(f) \/ FetchTimeout(f), ~Take(f)
        PROVE  UNCHANGED <<first, last>>
    BY <1>6 DEF FetchStep, Fetching, CallFetch, FetchEmpty, FetchWait, FetchLock,
       FetchTimeout, Unlock, mbox
  <1> QED BY <1>2, <1>3, <1>4, <1>5, <1>6 DEF Next, vars

(* The ring never overflows or underruns, for any size of at least two.    *)
THEOREM BoundsSafety == Spec => []MboxBounds
  <1>1. Init => MboxBounds
    BY DEF Init, MboxBounds
  <1> QED BY <1>1, BoundsStep, Typing, PTL DEF Spec

-------------------------------------------------------------------------------
(* Sleepers on not_full, the posters about to join them included, and what *)
(* wakes one of them.                                                      *)
Sleeper(p) == pc[p] = "post_wait" \/ Stranded(p)
Awake(p)   == pc[p] \in {"post", "post_lock", "post_awake"} /\ ~Stranded(p)
Relief     == \/ ~IsEmpty
              \/ semcnt["not_full"] = 1
              \/ \E u \in Posters : Awake(u)
StrandInv  == (\E p \in Posters : Sleeper(p)) => Relief

(* A sleeper is counted, so a fetch signals not_full. *)
LEMMA SleeperCounted ==
    ASSUME TypeInv, NEW p \in Posters, Sleeper(p) PROVE wait_send > 0
  <1>1. p \in Waiting
    BY DEF Sleeper, Stranded, TypeInv, QueuesOK, Waiting, Counted
  <1>2. Cardinality(Waiting) # 0
    BY <1>1, WaitingFinite, FS_EmptySet
  <1> QED BY <1>2, WaitingFinite DEF TypeInv, WaitSendExact, Waiting

(* A step that leaves the ring and not_full alone, and moves no task into  *)
(* or out of the sleepers and the awake.                                   *)
LEMMA StrandFrame ==
    ASSUME StrandInv, UNCHANGED <<first, last>>, semcnt'["not_full"] = semcnt["not_full"],
           \A p \in Posters : (Sleeper(p)' => Sleeper(p)) /\ (Awake(p) => Awake(p)')
    PROVE  StrandInv'
  BY DEF StrandInv, Relief, IsEmpty

LEMMA StrandPost ==
    ASSUME TypeInv, MboxBounds, StrandInv, NEW p \in Posters, PostStep(p)
    PROVE  StrandInv'
  <1> USE DEF TypeInv
  <1>0. /\ KernelOK /\ Sems = {"mutex", "not_full", "not_empty"}
        /\ first \in Nat /\ last \in Nat /\ pc \in [Tasks -> Labels] /\ p \in Tasks
    BY TypeKernel DEF Sems, TypeOK, Tasks
  <1>1. CASE Store(p)
    BY <1>0, <1>1 DEF Store, StrandInv, Relief, IsEmpty, MboxBounds
  <1>2. CASE Refuse(p) \/ PostFull(p)
    BY <1>0, <1>2 DEF Refuse, PostFull, StrandInv, Relief, IsEmpty, IsFull, mbox
  <1>3. CASE PostWait(p)
    <2>1. CASE semcnt["not_full"] = 1
      <3>1. Awake(p)'
        BY <1>0, <1>3, <2>1, WaiEffect DEF PostWait, At, Goto, Awake, Stranded, Kernel!Blocked
      <3> QED BY <3>1 DEF StrandInv, Relief
    <2>2. CASE semcnt["not_full"] = 0
      <3>1. Sleeper(p)
        BY <1>3 DEF PostWait, At, Sleeper
      <3>2. ~IsEmpty \/ \E u \in Posters : Awake(u)
        BY <2>2, <3>1 DEF StrandInv, Relief
      <3>3. ASSUME NEW u \in Posters, Awake(u) PROVE Awake(u)'
        BY <1>0, <1>3, <3>3, WaiEffect DEF PostWait, At, Goto, Awake, Stranded
      <3> QED BY <3>2, <3>3, <1>3 DEF StrandInv, Relief, IsEmpty, PostWait, mbox
    <2> QED BY <1>0, <2>1, <2>2 DEF KernelOK
  <1>4. CASE PostLock(p) \/ PostAwake(p)
    <2>1. Awake(p)'
      BY <1>0, <1>4, WaiEffect DEF PostLock, PostAwake, At, Goto, Awake, Stranded, Kernel!Blocked
    <2> QED BY <2>1 DEF StrandInv, Relief
  <1>5. ASSUME NEW o \in PostOps[p], CallPost(p, o) PROVE StrandInv'
    <2>1. Awake(p)'
      BY <1>0, <1>5, WaiEffect DEF CallPost, At, Goto, Awake, Stranded, Kernel!Blocked
    <2> QED BY <2>1 DEF StrandInv, Relief
  <1>6. CASE Unlock(p)
    <2>1. wait_queue'["not_full"] = wait_queue["not_full"] /\ semcnt'["not_full"] = semcnt["not_full"]
      BY <1>0, <1>6, SigEffect DEF Unlock
    <2>2. \A q \in Posters : q # p => pc'[q] = pc[q]
      BY <1>0, <1>6 DEF Unlock, Goto, Tasks
    <2>3. pc[p] = "unlock" /\ pc'[p] = "idle"
      BY <1>0, <1>6 DEF Unlock, Goto, At
    <2> QED BY <1>6, <2>1, <2>2, <2>3, StrandFrame DEF Unlock, mbox, Sleeper, Awake, Stranded
  <1> QED BY <1>1, <1>2, <1>3, <1>4, <1>5, <1>6 DEF PostStep

LEMMA StrandFetch ==
    ASSUME TypeInv, MboxBounds, StrandInv, NEW f \in Fetchers, FetchStep(f) \/ FetchTimeout(f)
    PROVE  StrandInv'
  <1> USE DEF TypeInv
  <1>0. /\ KernelOK /\ Sems = {"mutex", "not_full", "not_empty"}
        /\ pc \in [Tasks -> Labels] /\ f \in Tasks /\ f \notin Posters
    BY TypeKernel DEF Sems, TypeOK, Tasks
  <1>1. \A q \in Posters : pc'[q] = pc[q]
    BY <1>0 DEF FetchStep, Fetching, FetchTimeout, CallFetch, Take, FetchEmpty, FetchWait, FetchLock,
       Unlock, Goto, Tasks
  <1>2. CASE Take(f)
    <2>1. SUFFICES ASSUME NEW p \in Posters, Sleeper(p)' PROVE Relief'
      BY DEF StrandInv
    <2>2. wait_queue'["not_full"] \subseteq wait_queue["not_full"]
      BY <1>0, <1>2, SigEffect DEF Take, KernelOK
    <2>3. Sleeper(p)
      BY <1>1, <2>1, <2>2 DEF Sleeper, Stranded
    <2>4. Kernel!sig_sem("not_full")
      BY <1>2, <2>3, SleeperCounted DEF Take
    <2>5. CASE \E u \in wait_queue["not_full"] : wait_queue'["not_full"] = wait_queue["not_full"] \ {u}
      <3>1. PICK u \in wait_queue["not_full"] : wait_queue'["not_full"] = wait_queue["not_full"] \ {u}
        BY <2>5
      <3>2. u \in Posters /\ Awake(u)'
        BY <1>1, <3>1 DEF QueuesOK, Awake, Stranded
      <3> QED BY <3>2 DEF Relief
    <2>6. CASE semcnt'["not_full"] = 1
      BY <2>6 DEF Relief
    <2> QED BY <1>0, <2>4, <2>5, <2>6, SigEffect
  <1>3. CASE ~Take(f)
    <2>1. UNCHANGED <<first, last>>
      BY <1>3 DEF FetchStep, Fetching, FetchTimeout, CallFetch, FetchEmpty, FetchWait, FetchLock, Unlock, mbox
    <2>2. semcnt'["not_full"] = semcnt["not_full"] /\ wait_queue'["not_full"] = wait_queue["not_full"]
      BY <1>0, <1>3, SigEffect, WaiEffect DEF FetchStep, Fetching, FetchTimeout, CallFetch, FetchEmpty,
         FetchWait, FetchLock, Unlock, Kernel!wait_timeout, KernelOK
    <2> QED BY <1>1, <2>1, <2>2, StrandFrame DEF Sleeper, Awake, Stranded
  <1> QED BY <1>2, <1>3

LEMMA StrandStep == TypeInv /\ MboxBounds /\ StrandInv /\ [Next]_vars => StrandInv'
  <1>1. ASSUME StrandInv, UNCHANGED vars PROVE StrandInv'
    BY <1>1 DEF vars, StrandInv, Relief, Sleeper, Awake, Stranded, IsEmpty
  <1> QED BY <1>1, StrandPost, StrandFetch DEF Next

(* No poster sleeps on not_full with nothing on its way to wake it.        *)
THEOREM StrandSafety == Spec => []NoStrandedPoster
  <1>1. Init => StrandInv
    BY DEF Init, StrandInv, Sleeper, Stranded, Sems, Tasks
  <1>2. TypeInv /\ StrandInv => NoStrandedPoster
    BY DEF StrandInv, NoStrandedPoster, Sleeper, Relief, Awake
  <1> QED BY <1>1, <1>2, StrandStep, Typing, BoundsSafety, PTL DEF Spec

-------------------------------------------------------------------------------
(* lwIP has one fetching task for each mailbox. *)
OneFetcher == \A f, g \in Fetchers : f = g

LEMMA SleepStep ==
    ASSUME OneFetcher, TypeInv, NoSleepingFetcher, [Next]_vars PROVE NoSleepingFetcher'
  <1> USE DEF TypeInv
  <1>0. /\ KernelOK /\ Sems = {"mutex", "not_full", "not_empty"}
        /\ first \in Nat /\ last \in Nat /\ pc \in [Tasks -> Labels]
        /\ Posters \subseteq Tasks /\ Fetchers \subseteq Tasks
    BY TypeKernel DEF Sems, TypeOK, Tasks
  <1>1. SUFFICES ASSUME NEW f \in Fetchers
                 PROVE  /\ f \in wait_queue'["not_empty"] => IsEmpty'
                        /\ pc'[f] = "fetch_wait" /\ ~IsEmpty' => semcnt'["not_empty"] = 1
    BY DEF NoSleepingFetcher
  <1>2. ASSUME NEW p \in Posters, PostStep(p)
        PROVE  /\ f \in wait_queue'["not_empty"] => IsEmpty'
               /\ pc'[f] = "fetch_wait" /\ ~IsEmpty' => semcnt'["not_empty"] = 1
    <2>1. pc'[f] = pc[f]
      BY <1>0, <1>2 DEF PostStep, CallPost, Store, Refuse, PostFull, PostWait, PostLock,
         PostAwake, Unlock, Goto, Tasks
    <2>2. CASE Store(p) /\ IsEmpty
      <3>1. Kernel!sig_sem("not_empty")
        BY <2>2 DEF Store
      <3>2. wait_queue["not_empty"] \subseteq {f}
        BY <1>0 DEF QueuesOK, OneFetcher
      <3>3. wait_queue'["not_empty"] = {}
        BY <1>0, <3>1, <3>2, SigEffect
      <3>4. pc[f] = "fetch_wait" => wait_queue["not_empty"] = {}
        BY <3>2 DEF QueuesOK
      <3>5. pc[f] = "fetch_wait" => semcnt'["not_empty"] = 1
        BY <1>0, <3>1, <3>4, SigEffect
      <3> QED BY <2>1, <3>3, <3>5
    <2>3. CASE Store(p) /\ ~IsEmpty
      <3>1. f \notin wait_queue["not_empty"] /\ (pc[f] = "fetch_wait" => semcnt["not_empty"] = 1)
        BY <2>3 DEF NoSleepingFetcher
      <3>2. Kernel!sig_sem("mutex")
        BY <2>3 DEF Store
      <3> QED BY <1>0, <2>1, <3>1, <3>2, SigEffect
    <2>4. CASE ~Store(p)
      <3>1. UNCHANGED <<first, last>>
        BY <1>2, <2>4 DEF PostStep, CallPost, Refuse, PostFull, PostWait, PostLock,
           PostAwake, Unlock, mbox
      <3>2. /\ wait_queue'["not_empty"] = wait_queue["not_empty"]
            /\ semcnt'["not_empty"] = semcnt["not_empty"]
        BY <1>0, <1>2, <2>4, SigEffect, WaiEffect DEF PostStep, CallPost, Refuse, PostFull,
           PostWait, PostLock, PostAwake, Unlock
      <3> QED BY <2>1, <3>1, <3>2 DEF NoSleepingFetcher, IsEmpty
    <2> QED BY <2>2, <2>3, <2>4
  <1>3. ASSUME NEW g \in Fetchers, FetchStep(g) \/ FetchTimeout(g)
        PROVE  /\ f \in wait_queue'["not_empty"] => IsEmpty'
               /\ pc'[f] = "fetch_wait" /\ ~IsEmpty' => semcnt'["not_empty"] = 1
    <2>0. g = f
      BY DEF OneFetcher
    <2>1. CASE Take(g)
      <3>1. f \notin wait_queue["not_empty"] /\ pc'[f] # "fetch_wait"
        BY <1>0, <2>0, <2>1 DEF Take, At, Goto, Kernel!Blocked
      <3>2. wait_queue'["not_empty"] = wait_queue["not_empty"]
        BY <1>0, <2>1, SigEffect DEF Take
      <3> QED BY <3>1, <3>2
    <2>2. CASE FetchEmpty(g)
      <3>1. wait_queue'["not_empty"] = wait_queue["not_empty"] /\ IsEmpty /\ IsEmpty'
        BY <1>0, <2>2, SigEffect DEF FetchEmpty, mbox, IsEmpty
      <3> QED BY <3>1
    <2>3. CASE FetchWait(g)
      <3>1. pc[f] = "fetch_wait" /\ pc'[f] = "fetch_lock"
        BY <1>0, <2>0, <2>3 DEF FetchWait, At, Goto
      <3>2. f \notin wait_queue["not_empty"] /\ (~IsEmpty => semcnt["not_empty"] = 1)
        BY <3>1 DEF NoSleepingFetcher, QueuesOK
      <3>3. ~IsEmpty => f \notin wait_queue'["not_empty"]
        BY <1>0, <2>3, <3>2, WaiEffect DEF FetchWait
      <3>4. IsEmpty' <=> IsEmpty
        BY <2>3 DEF FetchWait, mbox, IsEmpty
      <3> QED BY <3>1, <3>3, <3>4
    <2>4. CASE FetchTimeout(g)
      <3>1. pc'[f] = "idle" /\ f \notin wait_queue'["not_empty"]
        BY <1>0, <2>0, <2>4 DEF FetchTimeout, Goto, Kernel!wait_timeout, KernelOK
      <3> QED BY <3>1
    <2>5. CASE FetchLock(g) \/ Unlock(g) \/ \E o \in FetchOps : CallFetch(g, o)
      <3>1. /\ wait_queue'["not_empty"] = wait_queue["not_empty"]
            /\ UNCHANGED <<first, last>>
        BY <1>0, <2>5, SigEffect, WaiEffect DEF FetchLock, Unlock, CallFetch, mbox
      <3>2. pc'[f] # "fetch_wait"
        BY <1>0, <2>0, <2>5 DEF FetchLock, Unlock, CallFetch, Goto
      <3> QED BY <3>1, <3>2 DEF NoSleepingFetcher, IsEmpty
    <2> QED BY <1>3, <2>1, <2>2, <2>3, <2>4, <2>5 DEF FetchStep, Fetching
  <1>4. CASE UNCHANGED vars
    BY <1>4 DEF vars, NoSleepingFetcher, IsEmpty
  <1> QED BY <1>2, <1>3, <1>4 DEF Next

(* With one fetching task, the wake-up of not_empty is never lost, although *)
(* only the post that finds the mailbox empty signals it.                  *)
THEOREM SleepSafety == ASSUME OneFetcher PROVE Spec => []NoSleepingFetcher
  <1>1. Init => NoSleepingFetcher
    BY DEF Init, NoSleepingFetcher, Sems, IsEmpty
  <1>2. TypeInv /\ NoSleepingFetcher /\ [Next]_vars => NoSleepingFetcher'
    BY SleepStep
  <1> QED BY <1>1, <1>2, Typing, PTL DEF Spec

-------------------------------------------------------------------------------
(* The ring read as a sequence, at the size the code gives it: the provers *)
(* know % for a literal divisor only.                                      *)
CodeSize == SYS_MBOX_SIZE = 128

LEMMA SlotDistinct ==
    ASSUME CodeSize, NEW i \in Nat, NEW j \in Nat, i < j, j < i + SYS_MBOX_SIZE
    PROVE  Slot(i) # Slot(j)
  <1>1. i % 128 # j % 128
    BY DEF CodeSize
  <1> QED BY <1>1 DEF CodeSize, Slot

Reads(r, f, l, m, T) ==
    /\ r \in Seq(T) /\ Len(r) = l - f
    /\ \A i \in 1 .. l - f : r[i] = m[Slot(f + i - 1)]

LEMMA ContentsSeq ==
    ASSUME NEW T, NEW f \in Nat, NEW l \in Nat, f <= l, NEW m \in [0 .. SYS_MBOX_SIZE - 1 -> T]
    PROVE  Reads(Contents(f, l, m), f, l, m, T)
  <1>1. \A i \in 1 .. l - f : m[Slot(f + i - 1)] \in T
    <2> TAKE i \in 1 .. l - f
    <2>1. f + i - 1 \in Nat
      OBVIOUS
    <2>2. Slot(f + i - 1) \in 0 .. SYS_MBOX_SIZE - 1
      BY <2>1, SlotRange
    <2> QED BY <2>2
  <1>2. l - f \in Nat
    OBVIOUS
  <1> QED BY <1>1, <1>2 DEF Contents, Reads

(* What a store at the end and a take at the head do to the sequence. *)
Appends(f, l, k, m, x) ==
    Contents(f, k, [m EXCEPT ![Slot(l)] = x]) = Append(Contents(f, l, m), x)

Drops(f, k, l, m) ==
    /\ Contents(f, l, m) # <<>>
    /\ Head(Contents(f, l, m)) = m[Slot(f)]
    /\ Tail(Contents(f, l, m)) = Contents(k, l, m)

(* A message stored at the end is appended and disturbs no other slot. *)
LEMMA ContentsStore ==
    ASSUME CodeSize, NEW T, NEW f \in Nat, NEW l \in Nat, f <= l, l + 1 < f + SYS_MBOX_SIZE,
           NEW m \in [0 .. SYS_MBOX_SIZE - 1 -> T], NEW x \in T, NEW k \in Nat, k = l + 1
    PROVE  Appends(f, l, k, m, x)
  <1> DEFINE r == Contents(f, l, m)
             m1 == [m EXCEPT ![Slot(l)] = x]
             r1 == Contents(f, k, m1)
  <1>1. /\ r \in Seq(T) /\ Len(r) = l - f
        /\ \A i \in 1 .. l - f : r[i] = m[Slot(f + i - 1)]
    <2>1. Reads(r, f, l, m, T)
      BY ContentsSeq
    <2> HIDE DEF r
    <2> QED BY <2>1 DEF Reads
  <1>2. m1 \in [0 .. SYS_MBOX_SIZE - 1 -> T] /\ Slot(l) \in 0 .. SYS_MBOX_SIZE - 1
    BY SlotRange
  <1>3. /\ r1 \in Seq(T) /\ Len(r1) = k - f
        /\ \A i \in 1 .. k - f : r1[i] = m1[Slot(f + i - 1)]
    <2> HIDE DEF m1
    <2>1. f <= k
      OBVIOUS
    <2>2. Reads(r1, f, k, m1, T)
      BY <1>2, <2>1, ContentsSeq
    <2> HIDE DEF r1
    <2> QED BY <2>2 DEF Reads
  <1>4. /\ Append(r, x) \in Seq(T) /\ Len(Append(r, x)) = l - f + 1
        /\ \A i \in 1 .. l - f : Append(r, x)[i] = r[i]
        /\ Append(r, x)[l - f + 1] = x
    <2> HIDE DEF r
    <2>1. /\ Append(r, x) \in Seq(T) /\ Len(Append(r, x)) = Len(r) + 1
          /\ \A i \in 1 .. Len(r) : Append(r, x)[i] = r[i]
          /\ Append(r, x)[Len(r) + 1] = x
      BY <1>1, AppendProperties
    <2> QED BY <1>1, <2>1
  <1>5. \A i \in 1 .. k - f : r1[i] = Append(r, x)[i]
    <2> TAKE i \in 1 .. k - f
    <2>1. CASE i \in 1 .. l - f
      <3>1. f + i - 1 \in Nat /\ f + i - 1 < l /\ l < (f + i - 1) + SYS_MBOX_SIZE
        BY <2>1
      <3>2. Slot(f + i - 1) # Slot(l)
        <4> DEFINE j == f + i - 1
        <4> HIDE DEF j
        <4>1. j \in Nat /\ j < l /\ l < j + SYS_MBOX_SIZE
          BY <3>1 DEF j
        <4>2. Slot(j) # Slot(l)
          BY <4>1, SlotDistinct
        <4> QED BY <4>2 DEF j
      <3>3. Slot(f + i - 1) \in 0 .. SYS_MBOX_SIZE - 1
        BY <3>1, SlotRange
      <3>4. m1[Slot(f + i - 1)] = m[Slot(f + i - 1)]
        BY <3>2, <3>3
      <3> HIDE DEF r, m1, r1
      <3> QED BY <1>1, <1>3, <1>4, <2>1, <3>4
    <2>2. CASE i = l - f + 1
      <3>1. f + i - 1 = l
        BY <2>2
      <3>2. m1[Slot(l)] = x
        BY <1>2
      <3>3. r1[i] = m1[Slot(f + i - 1)]
        <4> HIDE DEF r1, m1
        <4> QED BY <1>3
      <3> HIDE DEF r, m1, r1
      <3>4. r1[i] = x
        BY <3>1, <3>2, <3>3
      <3> QED BY <1>4, <2>2, <3>4
    <2>3. i \in 1 .. l - f \/ i = l - f + 1
      OBVIOUS
    <2> HIDE DEF r, m1, r1
    <2> QED BY <2>1, <2>2, <2>3
  <1> HIDE DEF r, m1, r1
  <1>6. Len(r1) = Len(Append(r, x))
    BY <1>3, <1>4
  <1>7. r1 = Append(r, x)
    BY <1>3, <1>4, <1>5, <1>6, SeqEqual
  <1> QED BY <1>7 DEF r, m1, r1, Appends

(* The message at first is the head, and the rest is the tail. *)
LEMMA ContentsTake ==
    ASSUME NEW T, NEW f \in Nat, NEW l \in Nat, f < l, NEW m \in [0 .. SYS_MBOX_SIZE - 1 -> T],
           NEW k \in Nat, k = f + 1
    PROVE  Drops(f, k, l, m)
  <1> DEFINE r == Contents(f, l, m)  r1 == Contents(k, l, m)
  <1>1. /\ r \in Seq(T) /\ Len(r) = l - f
        /\ \A i \in 1 .. l - f : r[i] = m[Slot(f + i - 1)]
    <2>1. f <= l
      OBVIOUS
    <2>2. Reads(r, f, l, m, T)
      BY <2>1, ContentsSeq
    <2> HIDE DEF r
    <2> QED BY <2>2 DEF Reads
  <1>2. /\ r1 \in Seq(T) /\ Len(r1) = l - k
        /\ \A i \in 1 .. l - k : r1[i] = m[Slot(k + i - 1)]
    <2>1. k <= l
      OBVIOUS
    <2>2. Reads(r1, k, l, m, T)
      BY <2>1, ContentsSeq
    <2> HIDE DEF r1
    <2> QED BY <2>2 DEF Reads
  <1> HIDE DEF r, r1
  <1>3. r # <<>> /\ Head(r) = r[1]
    <2>1. Len(r) # 0
      BY <1>1
    <2> QED BY <1>1, <2>1, EmptySeq
  <1>4. r[1] = m[Slot(f)]
    BY <1>1, f + 1 - 1 = f, 1 \in 1 .. l - f
  <1>5. /\ Tail(r) \in Seq(T) /\ Len(Tail(r)) = l - f - 1
        /\ \A i \in 1 .. l - f - 1 : Tail(r)[i] = r[i + 1]
    <2>1. /\ Tail(r) \in Seq(T) /\ Len(Tail(r)) = Len(r) - 1
          /\ \A i \in 1 .. Len(Tail(r)) : Tail(r)[i] = r[i + 1]
      BY <1>1, <1>3, HeadTailProperties
    <2> QED BY <1>1, <2>1
  <1>6. \A i \in 1 .. l - f - 1 : Tail(r)[i] = r1[i]
    <2> TAKE i \in 1 .. l - f - 1
    <2>0. i + 1 \in 1 .. l - f
      OBVIOUS
    <2>1. Tail(r)[i] = m[Slot(f + (i + 1) - 1)]
      BY <1>1, <1>5, <2>0
    <2>2. f + (i + 1) - 1 = k + i - 1 /\ i \in 1 .. l - k
      OBVIOUS
    <2> QED BY <1>2, <2>1, <2>2
  <1>7. Len(Tail(r)) = Len(r1)
    BY <1>2, <1>5
  <1>8. Tail(r) = r1
    BY <1>2, <1>5, <1>6, <1>7, SeqEqual
  <1> QED BY <1>3, <1>4, <1>8 DEF r, r1, Drops

-------------------------------------------------------------------------------
(* The refinement: Store accepts, Take takes, Refuse refuses, a call       *)
(* begins, and everything else stutters.                                   *)
QueueOf == Contents(first, last, msgs)
Pending == {p \in Posters : pc[p] \in Posting}

LEMMA FifoInit == Init => Fifo!Init
  <1> SUFFICES ASSUME Init PROVE Fifo!Init
    OBVIOUS
  <1>1. Contents(first, last, msgs) = <<>>
    <2>1. Contents(first, last, msgs) = [i \in 1 .. 0 |-> msgs[Slot(first + i - 1)]]
      BY DEF Init, Contents
    <2> QED BY <2>1
  <1>2. Pending = {}
    BY DEF Init, Pending, Posting, Tasks
  <1> QED BY <1>1, <1>2 DEF Init, Fifo!Init, Pending

(* A task outside the posters' points before and after leaves Pending alone. *)
LEMMA PendingSame ==
    ASSUME TypeInv, NEW t \in Tasks, NEW l, pc' = [pc EXCEPT ![t] = l],
           t \notin Posters \/ (pc[t] \in Posting <=> l \in Posting)
    PROVE  Pending' = Pending
  BY DEF TypeInv, TypeOK, Pending

LEMMA PendingLeave ==
    ASSUME TypeInv, NEW p \in Posters, NEW l, l \notin Posting, pc[p] \in Posting,
           pc' = [pc EXCEPT ![p] = l]
    PROVE  p \in Pending /\ Pending' = Pending \ {p}
  BY DEF TypeInv, TypeOK, Pending, Tasks

LEMMA PendingEnter ==
    ASSUME TypeInv, NEW p \in Posters, NEW l, l \in Posting, pc[p] \notin Posting,
           pc' = [pc EXCEPT ![p] = l]
    PROVE  p \notin Pending /\ Pending' = Pending \cup {p}
  BY DEF TypeInv, TypeOK, Pending, Tasks

LEMMA RingFacts ==
    ASSUME TypeInv, MboxBounds
    PROVE  /\ first \in Nat /\ last \in Nat /\ first <= last
           /\ msgs \in [0 .. SYS_MBOX_SIZE - 1 -> Msgs \cup {NoMsg}]
           /\ Len(QueueOf) = last - first
  <1>1. /\ first \in Nat /\ last \in Nat /\ first <= last
        /\ msgs \in [0 .. SYS_MBOX_SIZE - 1 -> Msgs \cup {NoMsg}]
    BY DEF TypeInv, TypeOK, MboxBounds
  <1>2. Reads(QueueOf, first, last, msgs, Msgs \cup {NoMsg})
    BY <1>1, ContentsSeq DEF QueueOf
  <1> QED BY <1>1, <1>2 DEF Reads

LEMMA FifoStore ==
    ASSUME CodeSize, TypeInv, MboxBounds, NEW p \in Posters, Store(p) PROVE Fifo!Accept(p)
  <1>1. p \in Pending /\ Pending' = Pending \ {p}
    <2>1. pc[p] \in Posting
      BY DEF Store, At, Posting
    <2>2. pc' = [pc EXCEPT ![p] = "unlock"] \/ pc' = [pc EXCEPT ![p] = "idle"]
      BY DEF Store, Goto
    <2> QED BY <2>1, <2>2, PendingLeave DEF Posting
  <1>2. /\ last + 1 < first + SYS_MBOX_SIZE /\ last' = last + 1 /\ last' \in Nat
        /\ first' = first /\ msgs' = [msgs EXCEPT ![Slot(last)] = msg(p)]
    BY RingFacts DEF Store, IsFull
  <1>3. msg(p) \in Msgs \cup {NoMsg}
    BY DEF TypeInv, Roles, Store, At, Posting, Msgs, msg
  <1>4. QueueOf' = Append(QueueOf, msg(p))
    <2>1. Contents(first, last', [msgs EXCEPT ![Slot(last)] = msg(p)]) = Append(QueueOf, msg(p))
      <3> DEFINE T == Msgs \cup {NoMsg}  x == msg(p)
      <3>1. /\ first \in Nat /\ last \in Nat /\ first <= last /\ last' \in Nat /\ last' = last + 1
            /\ last + 1 < first + SYS_MBOX_SIZE
            /\ msgs \in [0 .. SYS_MBOX_SIZE - 1 -> T] /\ x \in T
        BY <1>2, <1>3, RingFacts
      <3> HIDE DEF T, x
      <3>2. Appends(first, last, last', msgs, x)
        BY <3>1, ContentsStore
      <3> QED BY <3>2 DEF Appends, QueueOf, x
    <2> QED BY <1>2, <2>1 DEF QueueOf
  <1>5. Len(QueueOf) < SYS_MBOX_SIZE - 1
    BY <1>2, RingFacts
  <1> QED BY <1>1, <1>4, <1>5 DEF Fifo!Accept, Store, QueueOf, Pending, msg

LEMMA FifoTake ==
    ASSUME TypeInv, MboxBounds, NEW f \in Fetchers, Take(f) PROVE Fifo!Take(f)
  <1>1. Pending' = Pending
    <2>1. pc' = [pc EXCEPT ![f] = "unlock"] \/ pc' = [pc EXCEPT ![f] = "idle"]
      BY DEF Take, Goto
    <2> QED BY <2>1, PendingSame DEF Tasks
  <1>2. /\ first < last /\ first' = first + 1 /\ first' \in Nat /\ last' = last /\ msgs' = msgs
        /\ got' = [got EXCEPT ![f] = msgs[Slot(first)]]
    <2>1. first # last
      BY DEF Take, IsEmpty
    <2> QED BY <2>1, RingFacts DEF Take
  <1>3. /\ QueueOf # <<>> /\ Head(QueueOf) = msgs[Slot(first)]
        /\ Tail(QueueOf) = Contents(first', last, msgs)
    <2> DEFINE T == Msgs \cup {NoMsg}
    <2>1. /\ first \in Nat /\ last \in Nat /\ first < last /\ first' \in Nat /\ first' = first + 1
          /\ msgs \in [0 .. SYS_MBOX_SIZE - 1 -> T]
      BY <1>2, RingFacts
    <2> HIDE DEF T
    <2>2. Drops(first, first', last, msgs)
      BY <2>1, ContentsTake
    <2> QED BY <2>2 DEF Drops, QueueOf
  <1>4. QueueOf' = Tail(QueueOf)
    BY <1>2, <1>3 DEF QueueOf
  <1> QED BY <1>1, <1>2, <1>3, <1>4 DEF Fifo!Take, Take, QueueOf, Pending

LEMMA FifoRefuse ==
    ASSUME TypeInv, MboxBounds, NEW p \in Posters, Refuse(p) PROVE Fifo!Refuse(p)
  <1>1. p \in Pending /\ Pending' = Pending \ {p}
    <2>1. pc[p] = "post" /\ pc' = [pc EXCEPT ![p] = "idle"]
      BY DEF Refuse, At, Goto
    <2> QED BY <2>1, PendingLeave DEF Posting
  <1>2. Len(QueueOf) = SYS_MBOX_SIZE - 1
    BY RingFacts DEF Refuse, IsFull, MboxBounds
  <1>3. QueueOf' = QueueOf
    BY DEF Refuse, mbox, QueueOf
  <1> QED BY <1>1, <1>2, <1>3 DEF Fifo!Refuse, Refuse, QueueOf, Pending

LEMMA FifoBegin ==
    ASSUME TypeInv, NEW p \in Posters, NEW o \in PostOps[p], CallPost(p, o) PROVE Fifo!Begin(p)
  <1>1. p \notin Pending /\ Pending' = Pending \cup {p}
    <2>1. pc[p] = "idle" /\ pc' = [pc EXCEPT ![p] = "post"]
      BY DEF CallPost, At, Goto
    <2> QED BY <2>1, PendingEnter DEF Posting
  <1>2. QueueOf' = QueueOf
    BY DEF CallPost, mbox, QueueOf
  <1> QED BY <1>1, <1>2 DEF Fifo!Begin, CallPost, QueueOf, Pending

LEMMA FifoStutter ==
    ASSUME UNCHANGED <<first, last, msgs, calls, got>>, Pending' = Pending
    PROVE  UNCHANGED Fifo!vars
  BY DEF Fifo!vars, Contents, Pending, Slot

LEMMA FifoStep ==
    ASSUME CodeSize, TypeInv, MboxBounds, [Next]_vars PROVE [Fifo!Next]_(Fifo!vars)
  <1>1. ASSUME NEW p \in Posters, PostStep(p) PROVE [Fifo!Next]_(Fifo!vars)
    <2>0. p \in Tasks
      BY DEF Tasks
    <2>1. CASE Store(p)
      BY <2>1, FifoStore DEF Fifo!Next
    <2>2. CASE Refuse(p)
      BY <2>2, FifoRefuse DEF Fifo!Next
    <2>3. ASSUME NEW o \in PostOps[p], CallPost(p, o) PROVE [Fifo!Next]_(Fifo!vars)
      BY <2>3, FifoBegin DEF Fifo!Next
    <2>4. CASE PostFull(p) \/ PostWait(p) \/ PostLock(p) \/ PostAwake(p) \/ Unlock(p)
      <3>1. Pending' = Pending
        BY <2>0, <2>4, PendingSame DEF PostFull, PostWait, PostLock, PostAwake, Unlock, At, Goto, Posting
      <3> QED BY <2>4, <3>1, FifoStutter DEF PostFull, PostWait, PostLock, PostAwake, Unlock, mbox
    <2> QED BY <1>1, <2>1, <2>2, <2>3, <2>4 DEF PostStep
  <1>2. ASSUME NEW f \in Fetchers, FetchStep(f) \/ FetchTimeout(f) PROVE [Fifo!Next]_(Fifo!vars)
    <2>1. CASE Take(f)
      BY <2>1, FifoTake DEF Fifo!Next
    <2>2. CASE ~Take(f)
      <3>1. \E l \in Labels : pc' = [pc EXCEPT ![f] = l]
        BY <1>2, <2>2 DEF FetchStep, Fetching, FetchTimeout, CallFetch, FetchEmpty, FetchWait, FetchLock,
           Unlock, Goto, Labels
      <3>2. Pending' = Pending
        BY <3>1, PendingSame DEF Tasks
      <3> QED BY <1>2, <2>2, <3>2, FifoStutter DEF FetchStep, Fetching, FetchTimeout, CallFetch,
            FetchEmpty, FetchWait, FetchLock, Unlock, mbox
    <2> QED BY <2>1, <2>2
  <1>3. CASE UNCHANGED vars
    BY <1>3, FifoStutter DEF vars, Pending
  <1> QED BY <1>1, <1>2, <1>3 DEF Next

(* At the size of the code, the mailbox implements the bounded FIFO queue. *)
THEOREM Refinement == ASSUME CodeSize PROVE Spec => ImplementsFifo
  <1>1. Init => Fifo!Init
    BY FifoInit
  <1>2. TypeInv /\ MboxBounds /\ [Next]_vars => [Fifo!Next]_(Fifo!vars)
    BY FifoStep
  <1> QED BY <1>1, <1>2, Typing, BoundsSafety, PTL DEF Spec, ImplementsFifo, Fifo!Spec

===============================================================================
