------------------------------ MODULE LossyFifo -------------------------------
(***************************************************************************)
(* What the receive buffer of a connection promises: the bytes that find   *)
(* room are read once and in order, those that find none are counted.      *)
(* Where an overrun is possible, a byte that comes into a full buffer may  *)
(* empty it instead, and nothing of that is counted.                       *)
(***************************************************************************)
EXTENDS Naturals, Sequences

CONSTANTS
    Capacity,   (* bytes it holds                                           *)
    MaxBytes,   (* bound: bytes received                                    *)
    Overruns    (* TRUE: overruns are possible                              *)

VARIABLES
    queue,      (* bytes received and not yet read, each by its number      *)
    count,      (* bytes received                                           *)
    lost,       (* bytes that found no room                                 *)
    got         (* the byte read last, 0 before the first                   *)

vars == <<queue, count, lost, got>>

Init == queue = <<>> /\ count = 0 /\ lost = 0 /\ got = 0

Put ==
    /\ count < MaxBytes
    /\ count' = count + 1
    /\ IF Len(queue) < Capacity
       THEN queue' = Append(queue, count + 1) /\ UNCHANGED lost
       ELSE lost' = lost + 1 /\ UNCHANGED queue
    /\ UNCHANGED got

Overrun ==
    /\ Overruns /\ Len(queue) = Capacity
    /\ count < MaxBytes
    /\ count' = count + 1 /\ queue' = <<>>
    /\ UNCHANGED <<lost, got>>

Take ==
    /\ queue # <<>>
    /\ got' = Head(queue) /\ queue' = Tail(queue)
    /\ UNCHANGED <<count, lost>>

Next == Put \/ Overrun \/ Take
Spec == Init /\ [][Next]_vars
===============================================================================
