----------------------------- MODULE FrameQueue ------------------------------
(***************************************************************************)
(* What the receiving half of an Ethernet driver promises: frames reach    *)
(* the stack in the order they came in and once each.  A frame may be      *)
(* dropped, but only while Backlog others are waiting to be read.          *)
(***************************************************************************)
EXTENDS Naturals, Sequences

CONSTANTS
    Backlog,    (* frames that must be waiting before one is dropped        *)
    MaxFrames   (* bound: frames that come in                               *)

VARIABLES
    queue,      (* frames kept and not yet handed over, each by its number  *)
    came,       (* frames that came in                                      *)
    got         (* the frame handed over last, 0 before the first           *)

vars == <<queue, came, got>>

Init == queue = <<>> /\ came = 0 /\ got = 0

Keep ==
    /\ came < MaxFrames
    /\ came' = came + 1
    /\ queue' = Append(queue, came + 1)
    /\ UNCHANGED got

Drop ==
    /\ came < MaxFrames /\ Len(queue) >= Backlog
    /\ came' = came + 1
    /\ UNCHANGED <<queue, got>>

HandOver ==
    /\ queue # <<>>
    /\ got' = Head(queue) /\ queue' = Tail(queue)
    /\ UNCHANGED came

Next == Keep \/ Drop \/ HandOver
Spec == Init /\ [][Next]_vars
===============================================================================
