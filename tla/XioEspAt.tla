------------------------------- MODULE XioEspAt -------------------------------
(***************************************************************************)
(* The xio over the ESP-AT sockets                                         *)
(* (src/azure_iot_sdk/c-utility/adapters/socketio_esp_at.c, and            *)
(* tlsio_esp_at.c, which is the same code on a socket with SSL).           *)
(*                                                                         *)
(* Everything runs in the task of the xio's user.  What interleaves is the *)
(* user's code inside the callbacks with the loops that call them: pc is   *)
(* the place in those loops, and the user may send and close at any place  *)
(* where a callback runs.  The socket answers as it likes.                 *)
(***************************************************************************)
EXTENDS Naturals, Sequences

CONSTANTS
    RETRIES,        (* socketio_esp_at.c: 10 sends that take nothing        *)
    MaxSends,       (* bound: messages accepted                             *)
    MaxOpens,       (* bound: connections made, on all instances            *)
    MaxData         (* bound: blocks of bytes received                      *)

ASSUME XioAssumption ==
    RETRIES \in Nat /\ MaxSends \in Nat /\ MaxOpens \in Nat /\ MaxData \in Nat

VARIABLES
    io_state,       (* CLOSED, OPEN or ERROR; the others are never assigned *)
    socket,         (* tcp_socket_connection: its number, 0 for NULL        *)
    pending,        (* pending_io_list: messages by the number of the call  *)
    errors,         (* sends in a row that took nothing                     *)
    pc,
    (* What the user and the network saw. *)
    opens,          (* connections made                                     *)
    data,           (* blocks received                                      *)
    accepted,       (* sends accepted                                       *)
    wire,           (* the message the socket took last                     *)
    told,           (* on_send_complete calls                               *)
    reports,        (* on_io_error calls for this connection                *)
    inloop,         (* 1: the user closed while retrieve_data or            *)
                    (* send_queued_data was to go on                        *)
    wild            (* 1: a socket call was made without a socket           *)

vars == <<io_state, socket, pending, errors, pc,
          opens, data, accepted, wire, told, reports, inloop, wild>>

(* Where callbacks run: on_io_open_complete, on_bytes_received,            *)
(* on_send_complete and on_io_error.                                       *)
Callbacks == {"opened", "bytes", "sent", "erred"}
Places    == Callbacks \cup {"none", "idle", "recv", "head"}

(* The user's code runs between the calls and in the callbacks. *)
UserRuns == pc \in Callbacks \cup {"idle"}
-------------------------------------------------------------------------------
(* Faulty variants, none of them part of Next. *)
indicate_error_always ==        \* without the test of io_state
    /\ io_state' = "ERROR" /\ pc' = "erred" /\ reports' = reports + 1

CloseHalf ==                    \* io_state is left as it is
    /\ UserRuns /\ io_state = "OPEN"
    /\ socket' = 0
    /\ inloop' = IF pc \in {"bytes", "sent"} THEN 1 ELSE inloop
    /\ UNCHANGED <<io_state, pending, errors, pc, opens, data, accepted, wire, told, reports, wild>>

SentKeeps ==                    \* the message is not removed
    /\ pc = "sent"
    /\ errors' = 0 /\ pc' = "head"
    /\ UNCHANGED <<io_state, socket, pending, opens, data, accepted, wire, told, reports, inloop, wild>>

SentForgets ==                  \* the loop ends after one message, and the
    /\ pc = "sent"              \* rest of the list is lost
    /\ pending' = <<>> /\ errors' = 0 /\ pc' = "idle"
    /\ UNCHANGED <<io_state, socket, opens, data, accepted, wire, told, reports, inloop, wild>>

SendNothingFlag ==              \* errors is a flag that a retry flips
    /\ pc = "head" /\ pending # <<>>
    /\ wild' = IF socket = 0 THEN 1 ELSE wild
    /\ errors' = 1 - errors
    /\ UNCHANGED <<io_state, socket, pending, pc, opens, data, accepted, wire, told, reports, inloop>>
-------------------------------------------------------------------------------
(* indicate_error: silent when the xio is closed or has failed before. *)
indicate_error ==
    IF io_state = "OPEN"
    THEN io_state' = "ERROR" /\ pc' = "erred" /\ reports' = reports + 1
    ELSE pc' = "idle" /\ UNCHANGED <<io_state, reports>>

(* A socket call; without a socket it reads an unused address, and what it *)
(* returns is anything.                                                    *)
Call == wild' = IF socket = 0 THEN 1 ELSE wild

(* socketio_esp_at_create. *)
Create ==
    /\ pc = "none"
    /\ io_state' = "CLOSED" /\ socket' = 0 /\ pending' = <<>> /\ pc' = "idle"
    /\ UNCHANGED <<errors, opens, data, accepted, wire, told, reports, inloop, wild>>

(* socketio_esp_at_destroy: what is pending is freed, nobody is told. *)
Destroy ==
    /\ pc = "idle"
    /\ io_state' = "CLOSED" /\ socket' = 0
    /\ pending' = <<>> /\ wire' = accepted
    /\ pc' = "none"
    /\ UNCHANGED <<errors, opens, data, accepted, told, reports, inloop, wild>>

(* socketio_esp_at_open of a closed xio, which may have been open before:  *)
(* its list is not emptied.  In another state nothing changes.             *)
Open ==
    /\ pc = "idle" /\ io_state = "CLOSED" /\ opens < MaxOpens
    /\ opens' = opens + 1
    /\ \/ socket' = opens + 1 /\ io_state' = "OPEN" /\ reports' = 0
       \/ UNCHANGED <<socket, io_state, reports>>
    /\ pc' = "opened"
    /\ UNCHANGED <<pending, errors, data, accepted, wire, told, inloop, wild>>

(* socketio_esp_at_send. *)
Send ==
    /\ UserRuns /\ accepted < MaxSends
    /\ io_state = "OPEN"
    /\ accepted' = accepted + 1
    /\ pending' = Append(pending, accepted + 1)
    /\ UNCHANGED <<io_state, socket, errors, pc, opens, data, wire, told, reports, inloop, wild>>

(* socketio_esp_at_close; in any other state it fails and changes nothing. *)
Close ==
    /\ UserRuns /\ io_state = "OPEN"
    /\ socket' = 0 /\ io_state' = "CLOSED"
    /\ inloop' = IF pc = "bytes" \/ (pc = "sent" /\ Len(pending) > 1) THEN 1 ELSE inloop
    /\ UNCHANGED <<pending, errors, pc, opens, data, accepted, wire, told, reports, wild>>

(* socketio_esp_at_dowork. *)
DoWork ==
    /\ pc = "idle" /\ io_state = "OPEN"
    /\ pc' = "recv"
    /\ UNCHANGED <<io_state, socket, pending, errors, opens, data, accepted, wire, told, reports, inloop, wild>>

(* retrieve_data: receive until nothing comes. *)
ReceiveData ==
    /\ pc = "recv" /\ data < MaxData
    /\ Call
    /\ data' = data + 1 /\ pc' = "bytes"
    /\ UNCHANGED <<io_state, socket, pending, errors, opens, accepted, wire, told, reports, inloop>>

ReceiveNothing ==
    /\ pc = "recv"
    /\ Call
    /\ errors' = 0 /\ pc' = "head"
    /\ UNCHANGED <<io_state, socket, pending, opens, data, accepted, wire, told, reports, inloop>>

ReceiveFails ==
    /\ pc = "recv"
    /\ Call /\ indicate_error
    /\ UNCHANGED <<socket, pending, errors, opens, data, accepted, wire, told, inloop>>

BytesReturn ==
    /\ pc = "bytes"
    /\ pc' = "recv"
    /\ UNCHANGED <<io_state, socket, pending, errors, opens, data, accepted, wire, told, reports, inloop, wild>>

(* send_queued_data: the first of the list goes to the socket, whole, not  *)
(* at all, or with a failure (esp_at_socket_send never takes a part).      *)
QueueEmpty ==
    /\ pc = "head" /\ pending = <<>>
    /\ pc' = "idle"
    /\ UNCHANGED <<io_state, socket, pending, errors, opens, data, accepted, wire, told, reports, inloop, wild>>

SendWhole ==
    /\ pc = "head" /\ pending # <<>>
    /\ Call
    /\ wire' = Head(pending) /\ told' = told + 1
    /\ pc' = "sent"
    /\ UNCHANGED <<io_state, socket, pending, errors, opens, data, accepted, reports, inloop>>

SendNothing ==
    /\ pc = "head" /\ pending # <<>>
    /\ Call
    /\ errors' = errors + 1
    /\ IF errors >= RETRIES THEN indicate_error ELSE UNCHANGED <<io_state, reports, pc>>
    /\ UNCHANGED <<socket, pending, opens, data, accepted, wire, told, inloop>>

SendFails ==
    /\ pc = "head" /\ pending # <<>>
    /\ Call /\ indicate_error
    /\ UNCHANGED <<socket, pending, errors, opens, data, accepted, wire, told, inloop>>

SentReturn ==
    /\ pc = "sent"
    /\ pending' = Tail(pending) /\ errors' = 0
    /\ pc' = "head"
    /\ UNCHANGED <<io_state, socket, opens, data, accepted, wire, told, reports, inloop, wild>>

CallbackReturn ==
    /\ pc \in {"opened", "erred"}
    /\ pc' = "idle"
    /\ UNCHANGED <<io_state, socket, pending, errors, opens, data, accepted, wire, told, reports, inloop, wild>>
-------------------------------------------------------------------------------
Init ==
    /\ io_state = "CLOSED" /\ socket = 0 /\ pending = <<>> /\ errors = 0 /\ pc = "none"
    /\ opens = 0 /\ data = 0 /\ accepted = 0 /\ wire = 0 /\ told = 0
    /\ reports = 0 /\ inloop = 0 /\ wild = 0

User == Create \/ Destroy \/ Open \/ Send \/ Close

Loop == \/ ReceiveData \/ ReceiveNothing \/ ReceiveFails \/ BytesReturn
        \/ QueueEmpty \/ SendWhole \/ SendNothing \/ SendFails \/ SentReturn
        \/ CallbackReturn

Next == User \/ DoWork \/ Loop

Spec == Init /\ [][Next]_vars

(* The code goes on, and the user calls dowork again and again, as         *)
(* IoTHubClient_LL_DoWork does.                                            *)
FairSpec == Spec /\ WF_vars(Loop) /\ WF_vars(DoWork)
-------------------------------------------------------------------------------
TypeOK ==
    /\ io_state \in {"CLOSED", "OPEN", "ERROR"}
    /\ socket \in 0 .. opens /\ opens \in 0 .. MaxOpens
    /\ pending \in Seq(Nat) /\ errors \in 0 .. RETRIES + 1
    /\ pc \in Places
    /\ data \in 0 .. MaxData /\ accepted \in 0 .. MaxSends
    /\ wire \in 0 .. MaxSends /\ told \in 0 .. MaxSends
    /\ reports \in 0 .. 1 /\ inloop \in {0, 1} /\ wild \in {0, 1}

(* Messages go out once, in order and as accepted, although callbacks send *)
(* and close while the list is walked; the message being confirmed is      *)
(* still in the list.                                                      *)
Pipe == INSTANCE SendPipe WITH open <- IF io_state = "OPEN" THEN 1 ELSE 0
ImplementsPipe == Pipe!Spec

(* The socket is called only while there is one, but for the rest of a     *)
(* loop in whose callback the user closed (retrieve_data and               *)
(* send_queued_data do not look at io_state again).                        *)
LiveSocket == wild = 1 => inloop = 1

(* An error is reported once for a connection, and not after the user      *)
(* closed it, whatever the rest of the loops runs into.                    *)
ReportedOnce == [][reports' > reports => io_state = "OPEN" /\ reports = 0]_vars

(* A message accepted goes out, or the user learns why not: by the error,  *)
(* or because the user closed or destroyed the xio itself.                 *)
SendSettles ==
    \A n \in 1 .. MaxSends : accepted >= n ~> wire >= n \/ io_state # "OPEN"

(* dowork returns: it neither receives nor retries for ever.               *)
DoWorkReturns == pc = "recv" ~> pc = "idle"
===============================================================================
