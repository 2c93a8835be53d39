------------------------------- MODULE MboxFifo -------------------------------
(***************************************************************************)
(* What a mailbox promises (src/lwip-2.1.2/src/include/lwip/sys.h): a FIFO *)
(* queue of bounded capacity.  A message is accepted once or refused once, *)
(* it is refused only while the queue is full, and the fetching tasks      *)
(* together take every accepted message exactly once and in order.         *)
(***************************************************************************)
EXTENDS Naturals, Sequences

CONSTANTS
    Posters,    (* tasks that post                                          *)
    Fetchers,   (* tasks that fetch                                         *)
    Capacity,   (* messages the queue holds at most                         *)
    MaxCalls,   (* bound: posting calls of a task                           *)
    NoMsg       (* what a fetcher holds before its first message            *)

VARIABLES
    queue,      (* accepted and not yet taken, oldest first                 *)
    posting,    (* posters with a message neither accepted nor refused      *)
    calls,      (* posting calls begun                                      *)
    got         (* the message each fetcher took last                       *)

vars == <<queue, posting, calls, got>>

Init ==
    /\ queue = <<>>
    /\ posting = {}
    /\ calls = [p \in Posters |-> 0]
    /\ got = [f \in Fetchers |-> NoMsg]

Begin(p) ==
    /\ p \notin posting
    /\ calls[p] < MaxCalls
    /\ calls' = [calls EXCEPT ![p] = @ + 1]
    /\ posting' = posting \cup {p}
    /\ UNCHANGED <<queue, got>>

Accept(p) ==
    /\ p \in posting
    /\ Len(queue) < Capacity
    /\ queue' = Append(queue, <<p, calls[p]>>)
    /\ posting' = posting \ {p}
    /\ UNCHANGED <<calls, got>>

Refuse(p) ==
    /\ p \in posting
    /\ Len(queue) = Capacity
    /\ posting' = posting \ {p}
    /\ UNCHANGED <<queue, calls, got>>

Take(f) ==
    /\ queue # <<>>
    /\ got' = [got EXCEPT ![f] = Head(queue)]
    /\ queue' = Tail(queue)
    /\ UNCHANGED <<posting, calls>>

Next ==
    \/ \E p \in Posters : Begin(p) \/ Accept(p) \/ Refuse(p)
    \/ \E f \in Fetchers : Take(f)

Spec == Init /\ [][Next]_vars

(* An accepted message is taken in the end. *)
FairSpec == Spec /\ WF_vars(\E f \in Fetchers : Take(f))
===============================================================================
