------------------------------ MODULE SysSemPool ------------------------------
(***************************************************************************)
(* Creation and deletion of semaphores and mailboxes in the TOPPERS port   *)
(* of lwIP (src/app_iothub_client/lwip/lwip.c).  The kernel objects are    *)
(* created once, in lwip.cfg: sys_sem_new hands out a free one of Sys_Sem0 *)
(* (initial count 0) or of Sys_Lock (initial count 1), sys_sem_free only   *)
(* marks it free.  A mailbox takes two of the first and one of the second. *)
(* Mailboxes and semaphores are deleted when nobody waits for them, as     *)
(* lwIP requires.                                                          *)
(***************************************************************************)
EXTENDS Naturals, Sequences, FiniteSets, SequencesExt

CONSTANTS
    Users,      (* tasks that create, use and delete                        *)
    NUM_SEM0,   (* LWIP0_SEM_1 .. LWIP0_SEM_N: 28                           *)
    NUM_LOCK,   (* LWIP_LOCK_1 .. LWIP_LOCK_N: 14                           *)
    NoSem

ASSUME PoolAssumption == NUM_SEM0 \in Nat /\ NUM_LOCK \in Nat

Sys_Sem0 == {<<"sem0", i>> : i \in 1 .. NUM_SEM0}
Sys_Lock == {<<"lock", i>> : i \in 1 .. NUM_LOCK}
Slots    == Sys_Sem0 \cup Sys_Lock

VARIABLES
    act,        (* the slots with sys_sem.act                               *)
    semcnt,     (* the kernel's count of each slot's semaphore              *)
    pc,         (* where each user is                                       *)
    cand,       (* psem in sys_sem_new: a slot found free                   *)
    part,       (* the semaphores of the mailbox being created or deleted   *)
    sems,       (* the live semaphores of each user                         *)
    mboxes,     (* the live mailboxes of each user, as                      *)
                (* <<not_empty, not_full, mutex>>                           *)
    leaked      (* slots whose mailbox was given up half-made               *)

vars == <<act, semcnt, pc, cand, part, sems, mboxes, leaked>>
objs == <<part, sems, mboxes, leaked>>

(* Where sys_sem_new is called from decides the count and so the pool.     *)
Pool(l) == IF l = "mutex" THEN Sys_Lock ELSE Sys_Sem0
News    == {"sem", "not_empty", "not_full", "mutex"}

Goto(u, l) == pc' = [pc EXCEPT ![u] = l]

(* The loop of sys_sem_new stops at the first slot that is not in use. *)
Free(l)  == Pool(l) \ act
First(S) == CHOOSE x \in S : \A y \in S : x[2] <= y[2]
-------------------------------------------------------------------------------
(* Faulty variants of actions below, plausible slips in lwip.c: not part   *)
(* of Next.                                                                *)
FreeQueuesOne(u) ==             \* not_full forgotten
    /\ pc[u] = "locked"
    /\ act' = act \ {part[u][1]}
    /\ Goto(u, "freed")
    /\ UNCHANGED <<semcnt, cand, objs>>

UnlockSkipped(u) ==             \* sys_mutex_unlock forgotten
    /\ pc[u] = "freed" /\ Goto(u, "unlocked")
    /\ UNCHANGED <<act, semcnt, cand, objs>>
-------------------------------------------------------------------------------
(* A call of sys_sem_new by lwIP, or of sys_mbox_new, which makes three. *)
Begin(u, l) ==
    /\ pc[u] = "idle"
    /\ Goto(u, l)
    /\ UNCHANGED <<act, semcnt, cand, objs>>

Scan(u) ==
    /\ pc[u] \in News /\ cand[u] = NoSem
    /\ Free(pc[u]) # {}
    /\ cand' = [cand EXCEPT ![u] = First(Free(pc[u]))]
    /\ UNCHANGED <<act, semcnt, pc, objs>>

(* psem->act = true; sys_mbox_new goes on to the next semaphore. *)
Claim(u) ==
    /\ cand[u] # NoSem
    /\ act' = act \cup {cand[u]}
    /\ cand' = [cand EXCEPT ![u] = NoSem]
    /\ \/ /\ pc[u] = "sem"
          /\ sems' = [sems EXCEPT ![u] = @ \cup {cand[u]}]
          /\ Goto(u, "idle")
          /\ UNCHANGED <<part, mboxes>>
       \/ /\ pc[u] \in {"not_empty", "not_full"}
          /\ part' = [part EXCEPT ![u] = Append(@, cand[u])]
          /\ Goto(u, IF pc[u] = "not_empty" THEN "not_full" ELSE "mutex")
          /\ UNCHANGED <<sems, mboxes>>
       \/ /\ pc[u] = "mutex"
          /\ mboxes' = [mboxes EXCEPT ![u] = @ \cup {Append(part[u], cand[u])}]
          /\ part' = [part EXCEPT ![u] = <<>>]
          /\ Goto(u, "idle")
          /\ UNCHANGED sems
    /\ UNCHANGED <<semcnt, leaked>>

(* ERR_MEM.  sys_mbox_new frees the memory, not the semaphores it has.     *)
NewFails(u) ==
    /\ pc[u] \in News /\ cand[u] = NoSem
    /\ Free(pc[u]) = {}
    /\ leaked' = leaked \cup ToSet(part[u])
    /\ part' = [part EXCEPT ![u] = <<>>]
    /\ Goto(u, "idle")
    /\ UNCHANGED <<act, semcnt, cand, sems, mboxes>>

(* sys_sem_free: the slot is free at once, its count stays what it is. *)
FreeSem(u, s) ==
    /\ pc[u] = "idle" /\ s \in sems[u]
    /\ act' = act \ {s}
    /\ sems' = [sems EXCEPT ![u] = @ \ {s}]
    /\ UNCHANGED <<semcnt, pc, cand, part, mboxes, leaked>>

(* sys_mbox_free, step by step. *)
LockMbox(u, m) ==
    /\ pc[u] = "idle" /\ m \in mboxes[u]
    /\ semcnt[m[3]] = 1
    /\ semcnt' = [semcnt EXCEPT ![m[3]] = 0]
    /\ mboxes' = [mboxes EXCEPT ![u] = @ \ {m}]
    /\ part' = [part EXCEPT ![u] = m]
    /\ Goto(u, "locked")
    /\ UNCHANGED <<act, cand, sems, leaked>>

FreeQueues(u) ==
    /\ pc[u] = "locked"
    /\ act' = act \ {part[u][1], part[u][2]}
    /\ Goto(u, "freed")
    /\ UNCHANGED <<semcnt, cand, objs>>

UnlockMbox(u) ==
    /\ pc[u] = "freed"
    /\ semcnt' = [semcnt EXCEPT ![part[u][3]] = 1]
    /\ Goto(u, "unlocked")
    /\ UNCHANGED <<act, cand, objs>>

FreeMutex(u) ==
    /\ pc[u] = "unlocked"
    /\ act' = act \ {part[u][3]}
    /\ part' = [part EXCEPT ![u] = <<>>]
    /\ Goto(u, "idle")
    /\ UNCHANGED <<semcnt, cand, sems, mboxes, leaked>>

(* The use of live objects: a semaphore is signalled or waited for; the    *)
(* posts and fetches of a mailbox do the same to not_empty and not_full    *)
(* and leave the mutex as they found it (SysMbox).                         *)
Live == (UNION {sems[u] : u \in Users})
        \cup UNION {{m[1], m[2]} : m \in UNION {mboxes[u] : u \in Users}}

Signal(s) ==
    /\ s \in Live /\ semcnt[s] = 0
    /\ semcnt' = [semcnt EXCEPT ![s] = 1]
    /\ UNCHANGED <<act, pc, cand, objs>>

Wait(s) ==
    /\ s \in Live /\ semcnt[s] = 1
    /\ semcnt' = [semcnt EXCEPT ![s] = 0]
    /\ UNCHANGED <<act, pc, cand, objs>>
-------------------------------------------------------------------------------
Init ==
    /\ act = {}
    /\ semcnt = [s \in Slots |-> IF s \in Sys_Lock THEN 1 ELSE 0]
    /\ pc = [u \in Users |-> "idle"]
    /\ cand = [u \in Users |-> NoSem]
    /\ part = [u \in Users |-> <<>>]
    /\ sems = [u \in Users |-> {}]
    /\ mboxes = [u \in Users |-> {}]
    /\ leaked = {}

UserStep(u) ==
    \/ Begin(u, "sem") \/ Begin(u, "not_empty")
    \/ Scan(u) \/ Claim(u) \/ NewFails(u)
    \/ \E s \in sems[u] : FreeSem(u, s)
    \/ \E m \in mboxes[u] : LockMbox(u, m)
    \/ FreeQueues(u) \/ UnlockMbox(u) \/ FreeMutex(u)

Next ==
    \/ \E u \in Users : UserStep(u)
    \/ \E s \in Sys_Sem0 : Signal(s) \/ Wait(s)

Spec == Init /\ [][Next]_vars
-------------------------------------------------------------------------------
(* What a user holds, wherever it is in a creation or a deletion. *)
Held(u) ==
    sems[u] \cup (UNION {ToSet(m) : m \in mboxes[u]}) \cup
    (IF pc[u] \in {"freed", "unlocked"} THEN {part[u][3]} ELSE ToSet(part[u]))

(* Every field has its type; a mailbox has semaphores of the right pools.  *)
TypeOK ==
    /\ act \subseteq Slots
    /\ semcnt \in [Slots -> 0 .. 1]
    /\ pc \in [Users -> News \cup {"idle", "locked", "freed", "unlocked"}]
    /\ cand \in [Users -> Slots \cup {NoSem}]
    /\ part \in [Users -> Seq(Slots)]
    /\ sems \in [Users -> SUBSET Sys_Sem0]
    /\ \A u \in Users : mboxes[u] \subseteq Sys_Sem0 \X Sys_Sem0 \X Sys_Lock
    /\ leaked \subseteq Slots

(* The slots in use are those that somebody holds and those given up with  *)
(* a half-made mailbox: a deletion returns all, and nothing in use is free *)
(* to be handed out again.                                                 *)
PoolExact == act = leaked \cup UNION {Held(u) : u \in Users}

(* sys_sem_new makes a new semaphore: no two objects have one in common.   *)
(* Users that are in sys_sem_new at the same time can break it.            *)
SemsDistinct ==
    /\ \A u \in Users : \A m \in mboxes[u] :
          /\ m[1] # m[2]
          /\ \A n \in mboxes[u] \ {m} : ToSet(m) \cap ToSet(n) = {}
          /\ ToSet(m) \cap sems[u] = {}
    /\ \A u, v \in Users : u # v => Held(u) \cap Held(v) = {}

(* A mutex that is free to be handed out is unlocked, so the next mailbox  *)
(* does not start locked.                                                  *)
LocksRestored == \A s \in Sys_Lock \ act : semcnt[s] = 1
===============================================================================
