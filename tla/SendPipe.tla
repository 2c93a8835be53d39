------------------------------- MODULE SendPipe -------------------------------
(***************************************************************************)
(* What the sending half of an xio promises its user: the messages it      *)
(* accepted go out in the order of the calls and once each, and the user   *)
(* is told of each one after it went.  Only the end of the xio loses any.  *)
(***************************************************************************)
EXTENDS Naturals

CONSTANT MaxSends   (* bound: messages accepted                             *)

VARIABLES
    open,       (* 1: the user was told it may send                         *)
    accepted,   (* messages accepted, numbered from 1                       *)
    wire,       (* the message that went out last                           *)
    told        (* messages the user was told went out                      *)

vars == <<open, accepted, wire, told>>

Init == open = 0 /\ accepted = 0 /\ wire = 0 /\ told = 0

OpenClose == open' = 1 - open /\ UNCHANGED <<accepted, wire, told>>

Accept ==
    /\ open = 1 /\ accepted < MaxSends
    /\ accepted' = accepted + 1
    /\ UNCHANGED <<open, wire, told>>

Deliver ==
    /\ wire < accepted
    /\ wire' = wire + 1 /\ told' = told + 1
    /\ UNCHANGED <<open, accepted>>

Discard == open' = 0 /\ wire' = accepted /\ UNCHANGED <<accepted, told>>

Next == OpenClose \/ Accept \/ Deliver \/ Discard
Spec == Init /\ [][Next]_vars
===============================================================================
