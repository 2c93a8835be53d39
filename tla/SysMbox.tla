------------------------------- MODULE SysMbox -------------------------------
(***************************************************************************)
(* The lwIP mailbox of the TOPPERS port                                    *)
(* (src/app_iothub_client/lwip/lwip.c): sys_mbox_post, sys_mbox_trypost,   *)
(* sys_arch_mbox_fetch (with and without a timeout) and                    *)
(* sys_arch_mbox_tryfetch over three kernel semaphores, called by any      *)
(* number of posting and fetching tasks.                                   *)
(*                                                                         *)
(* One action is one kernel call together with the local computation next  *)
(* to it; a task is preempted only between such steps.  The mailbox fields *)
(* are touched only by the task that holds the mutex semaphore             *)
(* (MutualExclusion below), so a longer step has no other interleavings.   *)
(***************************************************************************)
EXTENDS Naturals, Sequences, FiniteSets

CONSTANTS
    Posters,        (* tasks that call sys_mbox_post / sys_mbox_trypost     *)
    Fetchers,       (* tasks that call sys_arch_mbox_fetch / _tryfetch      *)
    Prio,           (* task priorities, a function on both                  *)
    PostOps,        (* each poster's calls, of {"post", "trypost"}          *)
    FetchOps,       (* of {"fetch", "fetch_tmo", "tryfetch"}                *)
    SYS_MBOX_SIZE,  (* lwip.c: 128                                          *)
    MaxCalls,       (* bound: calls a poster makes                          *)
    NoMsg           (* what a fetcher holds before its first message        *)

ASSUME MboxAssumption ==
    /\ Posters \cap Fetchers = {}
    /\ IsFiniteSet(Posters)
    /\ Prio \in [Posters \cup Fetchers -> Nat]
    /\ PostOps \in [Posters -> SUBSET {"post", "trypost"}]
    /\ FetchOps \subseteq {"fetch", "fetch_tmo", "tryfetch"}
    /\ SYS_MBOX_SIZE \in Nat \ {0, 1}
    /\ MaxCalls \in Nat

VARIABLES
    first, last,    (* sys_mbox.first, sys_mbox.last: counts of messages    *)
                    (* taken and stored; int in C, unbounded here           *)
    msgs,           (* sys_mbox.msgs                                        *)
    wait_send,      (* sys_mbox.wait_send                                   *)
    semcnt,         (* kernel counts of not_empty, not_full and mutex       *)
    wait_queue,     (* kernel queues of the three                           *)
    pc,             (* where each task is                                   *)
    op,             (* the call each task is in                             *)
    calls,          (* calls each poster has made; numbers its messages     *)
    got             (* *msg: what each fetcher fetched last                 *)

mbox == <<first, last, msgs, wait_send>>
vars == <<first, last, msgs, wait_send, semcnt, wait_queue, pc, op, calls, got>>

Tasks == Posters \cup Fetchers
Sems  == {"not_empty", "not_full", "mutex"}

(* lwip.cfg creates LWIP_LOCK_n and LWIP0_SEM_n with a maximum of 1. *)
maxsem == [s \in Sems |-> 1]

Kernel == INSTANCE ToppersSem

Msgs   == Posters \X (1 .. MaxCalls)
msg(p) == <<p, calls[p]>>
-------------------------------------------------------------------------------
(* Program points.  A task at a point that follows a wait on a semaphore   *)
(* may still be queued there; it runs when it is not.                      *)
IsFullLate == last >= first + SYS_MBOX_SIZE  \* faulty: off by one
IsFull == last + 1 >= first + SYS_MBOX_SIZE
IsEmpty == first = last
Slot(n) == n % SYS_MBOX_SIZE

At(t, l)    == pc[t] = l /\ ~Kernel!Blocked(t)
Goto(t, l)  == pc' = [pc EXCEPT ![t] = l]

(* The message is in the poster's hands, not yet in the mailbox. *)
Posting == {"post", "post_wait", "post_lock", "post_awake"}
Labels  == Posting \cup {"idle", "fetch", "fetch_wait", "fetch_lock", "unlock"}

(***************************************************************************)
(* Faulty variants of actions below: what a plausible slip in lwip.c would *)
(* do.  They are not part of Next; each shows that a property notices it.  *)
(***************************************************************************)
PostFullFlag(p) ==              \* a flag instead of a count
    /\ At(p, "post") /\ IsFull /\ op[p] = "post"
    /\ wait_send' = 1
    /\ Kernel!sig_sem("mutex") /\ Goto(p, "post_wait")
    /\ UNCHANGED <<first, last, msgs, op, calls, got>>

PostAwakeStillCounted(p) ==     \* wait_send-- forgotten
    /\ At(p, "post_awake") /\ Goto(p, "post")
    /\ UNCHANGED <<mbox, semcnt, wait_queue, op, calls, got>>

StoreUnannounced(p) ==          \* first computed after last++
    /\ At(p, "post") /\ ~IsFull
    /\ msgs' = [msgs EXCEPT ![Slot(last)] = msg(p)] /\ last' = last + 1
    /\ Kernel!sig_sem("mutex") /\ Goto(p, "idle")
    /\ UNCHANGED <<first, wait_send, op, calls, got>>

TakeAnnouncesFull(f) ==         \* not_full only if the mailbox was full
    /\ At(f, "fetch") /\ ~IsEmpty
    /\ got' = [got EXCEPT ![f] = msgs[Slot(first)]] /\ first' = first + 1
    /\ IF IsFull THEN Kernel!sig_sem("not_full") /\ Goto(f, "unlock")
                 ELSE Kernel!sig_sem("mutex") /\ Goto(f, "idle")
    /\ UNCHANGED <<last, msgs, wait_send, op, calls>>

FetchTimeoutUnlocks(f) ==       \* the timeout leaves through the unlock
    /\ pc[f] = "fetch_lock" /\ op[f] = "fetch_tmo"
    /\ Kernel!wait_timeout(f, "not_empty") /\ Goto(f, "unlock")
    /\ UNCHANGED <<mbox, op, calls, got>>
-------------------------------------------------------------------------------
(* sys_arch_sem_wait(&mbox->mutex, 0) at the head of each call. *)
CallPost(p, o) ==
    /\ At(p, "idle")
    /\ calls[p] < MaxCalls
    /\ calls' = [calls EXCEPT ![p] = @ + 1]
    /\ op' = [op EXCEPT ![p] = o]
    /\ Kernel!wai_sem(p, "mutex")
    /\ Goto(p, "post")
    /\ UNCHANGED <<mbox, got>>

CallFetch(f, o) ==
    /\ At(f, "idle")
    /\ op' = [op EXCEPT ![f] = o]
    /\ Kernel!wai_sem(f, "mutex")
    /\ Goto(f, "fetch")
    /\ UNCHANGED <<mbox, calls, got>>

(* Room in the mailbox: store, and wake a fetcher if it was empty. *)
Store(p) ==
    /\ At(p, "post")
    /\ ~IsFull
    /\ msgs' = [msgs EXCEPT ![Slot(last)] = msg(p)]
    /\ last' = last + 1
    /\ IF IsEmpty
       THEN Kernel!sig_sem("not_empty") /\ Goto(p, "unlock")
       ELSE Kernel!sig_sem("mutex") /\ Goto(p, "idle")
    /\ UNCHANGED <<first, wait_send, op, calls, got>>

(* sys_mbox_trypost returns ERR_MEM; the caller drops the message. *)
Refuse(p) ==
    /\ At(p, "post")
    /\ IsFull
    /\ op[p] = "trypost"
    /\ Kernel!sig_sem("mutex")
    /\ Goto(p, "idle")
    /\ UNCHANGED <<mbox, op, calls, got>>

(* The body of the while loop in sys_mbox_post, up to each kernel call. *)
PostFull(p) ==
    /\ At(p, "post")
    /\ IsFull
    /\ op[p] = "post"
    /\ wait_send' = wait_send + 1
    /\ Kernel!sig_sem("mutex")
    /\ Goto(p, "post_wait")
    /\ UNCHANGED <<first, last, msgs, op, calls, got>>

PostWait(p) ==
    /\ At(p, "post_wait")
    /\ Kernel!wai_sem(p, "not_full")
    /\ Goto(p, "post_lock")
    /\ UNCHANGED <<mbox, op, calls, got>>

PostLock(p) ==
    /\ At(p, "post_lock")
    /\ Kernel!wai_sem(p, "mutex")
    /\ Goto(p, "post_awake")
    /\ UNCHANGED <<mbox, op, calls, got>>

PostAwake(p) ==
    /\ At(p, "post_awake")
    /\ wait_send' = wait_send - 1
    /\ Goto(p, "post")
    /\ UNCHANGED <<first, last, msgs, semcnt, wait_queue, op, calls, got>>

(* sys_mbox_fetch and _tryfetch: a message is there. *)
Take(f) ==
    /\ At(f, "fetch")
    /\ ~IsEmpty
    /\ got' = [got EXCEPT ![f] = msgs[Slot(first)]]
    /\ first' = first + 1
    /\ IF wait_send > 0
       THEN Kernel!sig_sem("not_full") /\ Goto(f, "unlock")
       ELSE Kernel!sig_sem("mutex") /\ Goto(f, "idle")
    /\ UNCHANGED <<last, msgs, wait_send, op, calls>>

(* No message: tryfetch returns SYS_MBOX_EMPTY, fetch enters its loop. *)
FetchEmpty(f) ==
    /\ At(f, "fetch")
    /\ IsEmpty
    /\ Kernel!sig_sem("mutex")
    /\ Goto(f, IF op[f] = "tryfetch" THEN "idle" ELSE "fetch_wait")
    /\ UNCHANGED <<mbox, op, calls, got>>

FetchWait(f) ==
    /\ At(f, "fetch_wait")
    /\ Kernel!wai_sem(f, "not_empty")
    /\ Goto(f, "fetch_lock")
    /\ UNCHANGED <<mbox, op, calls, got>>

FetchLock(f) ==
    /\ At(f, "fetch_lock")
    /\ Kernel!wai_sem(f, "mutex")
    /\ Goto(f, "fetch")
    /\ UNCHANGED <<mbox, op, calls, got>>

(* twai_sem on not_empty ends with E_TMOUT: return SYS_ARCH_TIMEOUT. *)
FetchTimeout(f) ==
    /\ pc[f] = "fetch_lock"
    /\ op[f] = "fetch_tmo"
    /\ Kernel!wait_timeout(f, "not_empty")
    /\ Goto(f, "idle")
    /\ UNCHANGED <<mbox, op, calls, got>>

(* sys_sem_signal(&mbox->mutex) as the last step of a call. *)
Unlock(t) ==
    /\ At(t, "unlock")
    /\ Kernel!sig_sem("mutex")
    /\ Goto(t, "idle")
    /\ UNCHANGED <<mbox, op, calls, got>>
-------------------------------------------------------------------------------
Init ==
    /\ first = 0 /\ last = 0
    /\ msgs = [i \in 0 .. SYS_MBOX_SIZE - 1 |-> NoMsg]
    /\ wait_send = 0
    /\ semcnt = [s \in Sems |-> IF s = "mutex" THEN 1 ELSE 0]
    /\ wait_queue = [s \in Sems |-> {}]
    /\ pc = [t \in Tasks |-> "idle"]
    /\ op = [t \in Tasks |-> "none"]
    /\ calls = [p \in Posters |-> 0]
    /\ got = [f \in Fetchers |-> NoMsg]

PostStep(p) ==
    \/ \E o \in PostOps[p] : CallPost(p, o)
    \/ Store(p) \/ Refuse(p) \/ PostFull(p)
    \/ PostWait(p) \/ PostLock(p) \/ PostAwake(p) \/ Unlock(p)

Fetching(f) ==
    \/ Take(f) \/ FetchEmpty(f)
    \/ FetchWait(f) \/ FetchLock(f) \/ Unlock(f)

FetchStep(f) == (\E o \in FetchOps : CallFetch(f, o)) \/ Fetching(f)

Next ==
    \/ \E p \in Posters : PostStep(p)
    \/ \E f \in Fetchers : FetchStep(f) \/ FetchTimeout(f)

Spec == Init /\ [][Next]_vars

(* The scheduler runs a ready task of the highest priority, and every task *)
(* blocks in the end, so a task that stays ready runs; the fetching tasks  *)
(* come back for more, as tcpip_thread does.                               *)
FairSpec ==
    /\ Spec
    /\ \A p \in Posters : WF_vars(PostStep(p))
    /\ \A f \in Fetchers : WF_vars(FetchStep(f))
-------------------------------------------------------------------------------
(* A task owns the mutex from the wait on it to the signal of it. *)
InMutex  == {"post", "post_awake", "fetch", "unlock"}
Holds(t) == pc[t] \in InMutex /\ t \notin wait_queue["mutex"]

(* Counted in wait_send, and those of them that only a signal can wake. *)
Counted(p)  == pc[p] \in {"post_wait", "post_lock", "post_awake"}
Stranded(p) == p \in wait_queue["not_full"]

(* Every field has its type; a ring index never leaves msgs. *)
TypeOK ==
    /\ first \in Nat /\ last \in Nat
    /\ msgs \in [0 .. SYS_MBOX_SIZE - 1 -> Msgs \cup {NoMsg}]
    /\ wait_send \in Nat
    /\ semcnt \in [Sems -> 0 .. 1]
    /\ wait_queue \in [Sems -> SUBSET Tasks]
    /\ pc \in [Tasks -> Labels]
    /\ op \in [Tasks -> {"none", "post", "trypost", "fetch", "fetch_tmo", "tryfetch"}]
    /\ calls \in [Posters -> 0 .. MaxCalls]
    /\ got \in [Fetchers -> Msgs \cup {NoMsg}]

(* The mutex semaphore of the mailbox admits one task to the fields, with  *)
(* hand-over by sig_sem, timeouts and the re-lock after each wait.         *)
MutualExclusion == \A t, u \in Tasks : Holds(t) /\ Holds(u) => t = u

(* The ring holds at most SYS_MBOX_SIZE - 1 messages: a post never writes  *)
(* over a message that was not fetched, a fetch never passes the posts.    *)
MboxBounds == first <= last /\ last < first + SYS_MBOX_SIZE

(* wait_send counts the posters in the loop of sys_mbox_post, so the       *)
(* decrement after a spurious wake-up never loses another poster's count.  *)
WaitSendExact == wait_send = Cardinality({p \in Posters : Counted(p)})

(* A poster queued on not_full is woken later: while it sleeps a message   *)
(* is left whose fetch signals not_full, or a token or a woken poster is   *)
(* on its way.  not_full counts to 1 only, so signals are lost (E_QOVR)    *)
(* when several posters sleep; no poster may be lost with them.            *)
NoStrandedPoster ==
    (\E p \in Posters : Stranded(p)) =>
        \/ ~IsEmpty
        \/ semcnt["not_full"] = 1
        \/ \E u \in Posters : pc[u] \in {"post", "post_lock", "post_awake"} /\ ~Stranded(u)

(* not_empty is signalled only by the post that finds the mailbox empty.   *)
(* A fetching task that is queued there has no message to fetch, and one   *)
(* about to wait finds a token if it has.                                  *)
NoSleepingFetcher ==
    \A f \in Fetchers :
        /\ f \in wait_queue["not_empty"] => IsEmpty
        /\ pc[f] = "fetch_wait" /\ ~IsEmpty => semcnt["not_empty"] = 1

(* The messages of a ring, oldest first. *)
Contents(f, l, m) == [i \in 1 .. l - f |-> m[Slot(f + i - 1)]]

(* The mailbox implements the bounded FIFO queue of sys.h; with fairness   *)
(* every posted message is fetched in the end.                             *)
Fifo == INSTANCE MboxFifo WITH
    Capacity <- SYS_MBOX_SIZE - 1,
    queue    <- Contents(first, last, msgs),
    posting  <- {p \in Posters : pc[p] \in Posting}

ImplementsFifo     == Fifo!Spec
ImplementsFairFifo == Fifo!FairSpec

(* A call of sys_mbox_post returns, whatever the other posters do. *)
PostReturns == \A p \in Posters : pc[p] # "idle" ~> pc[p] = "idle"
===============================================================================
