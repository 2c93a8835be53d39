------------------------------- MODULE AtRxRing -------------------------------
(***************************************************************************)
(* The receive buffer of a connection                                      *)
(* (src/app_iothub_client/src/esp_at_socket.c): the state at_receive_data  *)
(* of proc_atc_res, in the task MAIN, writes it byte by byte, and          *)
(* connection_read_data, in a task of lower priority, reads it.  There is  *)
(* no lock: MAIN may run between any two accesses of the reader.           *)
(***************************************************************************)
EXTENDS Naturals, Sequences

CONSTANTS
    SIZE,       (* AT_CONNECTION_RX_BUFF_SIZE: 4096                         *)
    SplitWrap,  (* the two assignments of rx_pos_r: TRUE: as two stores, as *)
                (* they are written; FALSE: the compiler makes one of them  *)
    MaxBytes    (* bound: bytes received                                    *)

ASSUME RingAssumption ==
    SIZE \in Nat \ {0, 1} /\ MaxBytes \in Nat /\ SplitWrap \in BOOLEAN

VARIABLES
    rx_buff, rx_pos_w, rx_pos_r,
    count,      (* bytes received from the module; they are numbered        *)
    lost,       (* current_state.lost, summed over the +IPD lines           *)
    pc,         (* where the reader is                                      *)
    held,       (* *pos, the byte copied out                                *)
    got         (* the last byte counted in ret                             *)

vars == <<rx_buff, rx_pos_w, rx_pos_r, count, lost, pc, held, got>>

Slots == 0 .. SIZE - 1
WrappedLate(p) == IF p > SIZE THEN 0 ELSE p     \* faulty: > for >=
Wrapped(p) == IF p >= SIZE THEN 0 ELSE p

Init ==
    /\ rx_buff = [i \in Slots |-> 0]
    /\ rx_pos_w = 0 /\ rx_pos_r = 0
    /\ count = 0 /\ lost = 0
    /\ pc = "idle" /\ held = 0 /\ got = 0
-------------------------------------------------------------------------------
(* One byte of +IPD: stored, or lost when the buffer is full. *)
ReceiveByteUncounted ==         \* faulty: the lost byte not counted
    LET pos == Wrapped(rx_pos_w + 1) IN
    /\ count < MaxBytes
    /\ count' = count + 1
    /\ IF pos # rx_pos_r
       THEN /\ rx_buff' = [rx_buff EXCEPT ![rx_pos_w] = count + 1]
            /\ rx_pos_w' = pos
       ELSE UNCHANGED <<rx_buff, rx_pos_w>>
    /\ UNCHANGED <<lost, rx_pos_r, pc, held, got>>
ReceiveByte == LET pos == Wrapped(rx_pos_w + 1) IN
    /\ count < MaxBytes
    /\ count' = count + 1
    /\ IF pos # rx_pos_r
       THEN /\ rx_buff' = [rx_buff EXCEPT ![rx_pos_w] = count + 1]
            /\ rx_pos_w' = pos
            /\ UNCHANGED lost
       ELSE /\ lost' = lost + 1
            /\ UNCHANGED <<rx_buff, rx_pos_w>>
    /\ UNCHANGED <<rx_pos_r, pc, held, got>>

(* The loop of connection_read_data: something to read? *)
Test ==
    /\ pc = "idle" /\ rx_pos_w # rx_pos_r
    /\ pc' = "copy"
    /\ UNCHANGED <<rx_buff, rx_pos_w, rx_pos_r, count, lost, held, got>>

Copy ==
    /\ pc = "copy"
    /\ held' = rx_buff[rx_pos_r]
    /\ pc' = "advance"
    /\ UNCHANGED <<rx_buff, rx_pos_w, rx_pos_r, count, lost, got>>

AdvanceFirst ==                 \* faulty: the position moves before the byte is used
    /\ pc = "advance"
    /\ rx_pos_r' = Wrapped(rx_pos_r + 1)
    /\ got' = rx_buff[rx_pos_r'] /\ pc' = "idle"
    /\ UNCHANGED <<rx_buff, rx_pos_w, count, lost, held>>
Advance ==
    /\ pc = "advance"
    /\ rx_pos_r' = IF SplitWrap THEN rx_pos_r + 1 ELSE Wrapped(rx_pos_r + 1)
    /\ pc' = IF rx_pos_r' = SIZE THEN "wrap" ELSE "idle"
    /\ got' = held
    /\ UNCHANGED <<rx_buff, rx_pos_w, count, lost, held>>

Wrap ==
    /\ pc = "wrap"
    /\ rx_pos_r' = Wrapped(rx_pos_r)
    /\ pc' = "idle"
    /\ UNCHANGED <<rx_buff, rx_pos_w, count, lost, held, got>>

Read == Test \/ Copy \/ Advance \/ Wrap
Next == ReceiveByte \/ Read
Spec == Init /\ [][Next]_vars
-------------------------------------------------------------------------------
(* Every variable has its type; the reader's position lies outside the     *)
(* buffer at most between the two stores, and never when it indexes it.    *)
TypeOK ==
    /\ rx_buff \in [Slots -> Nat]
    /\ rx_pos_w \in Slots
    /\ rx_pos_r \in Slots \/ (rx_pos_r = SIZE /\ pc = "wrap")
    /\ count \in 0 .. MaxBytes /\ lost \in 0 .. MaxBytes
    /\ pc \in {"idle", "copy", "advance", "wrap"}
    /\ held \in Nat /\ got \in Nat

(* The bytes between the two positions. *)
Reduced(p) == IF p >= SIZE THEN p - SIZE ELSE p
Stored  == Reduced(rx_pos_w + SIZE - rx_pos_r)
Content == [i \in 1 .. Stored |-> rx_buff[Reduced(rx_pos_r + i - 1)]]

(* The buffer is a queue of SIZE - 1 bytes that counts every byte it has   *)
(* no room for; while the wrap of the reader's position is two stores, a   *)
(* byte that MAIN stores between them into a full buffer empties it, and   *)
(* nothing else goes wrong.                                                *)
Fifo == INSTANCE LossyFifo WITH
    queue <- Content, Capacity <- SIZE - 1, Overruns <- SplitWrap
ImplementsFifo == Fifo!Spec

(* Whichever way the wrap is compiled, a reader never gets a byte twice,   *)
(* out of order or before it was received.                                 *)
InOrder == [][got' # got => got < got' /\ got' <= count]_got
===============================================================================
