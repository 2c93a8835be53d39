------------------------------- MODULE IfRx65n --------------------------------
(***************************************************************************)
(* The Ethernet driver (src/app_iothub_client/lwip/if_rx65n.c): two rings  *)
(* of descriptors shared with the DMA controller of the Ethernet port      *)
(* (EDMAC), the interrupt handler, the driver's task that reads frames     *)
(* and follows the link, and lwIP's task that sends.                       *)
(*                                                                         *)
(* An action lies between two accesses to what another party changes.  The *)
(* interrupt handler is one action: nothing of the CPU runs inside it.     *)
(* The cyclic handler if_rx65n_cyclic_handler is no action: if_rx65n.cfg   *)
(* creates it without TA_STA, and nothing starts it.                       *)
(***************************************************************************)
EXTENDS Naturals, Sequences, FiniteSets

CONSTANTS
    NUM_IF_RX65N_RXBUF, NUM_IF_RX65N_TXBUF,     (* if_rx65n.h: 2 and 2      *)
    FIFO_FRAMES,    (* frames the EDMAC's receive FIFO holds                *)
    Empty,          (* frames, by number, that the EDMAC stores with RFL 0  *)
    RX,             (* TRUE: the compiler defines __RX (ether_phy.c)        *)
    MaxFrames,      (* bound: frames that come in                           *)
    MaxOut,         (* bound: frames lwIP sends                             *)
    MaxFlaps        (* bound: times the cable goes out or in                *)

ASSUME DriverAssumption ==
    /\ NUM_IF_RX65N_RXBUF \in Nat \ {0} /\ NUM_IF_RX65N_TXBUF \in Nat \ {0}
    /\ FIFO_FRAMES \in Nat \ {0}
    /\ MaxFrames \in Nat /\ MaxOut \in Nat /\ MaxFlaps \in Nat
ASSUME CompilerAssumption == RX \in BOOLEAN

VARIABLES
    (* Receive ring. *)
    ract,           (* rx_desc[i].ract: the EDMAC may fill it               *)
    rx_buff,        (* the frame in each receive buffer, by its number      *)
    rx_read,        (* ethernetif.rx_read                                   *)
    inhand,         (* the frame copied to the pbuf                         *)
    (* EDMAC, receiving. *)
    rr, rdpos,      (* EDRRR.RR and its position in the ring                *)
    rstop,          (* it found no active descriptor and is about to stop   *)
    fifo,           (* frames in the receive FIFO                           *)
    (* Transmit ring and the EDMAC's half of it, as for reception. *)
    tact, tx_buff, tx_write, tr, tdpos, tstop,
    (* Link. *)
    link_pre, link_now, state,  (* fields of ethernetif                     *)
    seen,           (* what phy_is_link returned, not yet stored            *)
    netif_up,       (* NETIF_FLAG_LINK_UP                                   *)
    cable, an_done, (* the line has a link; auto-negotiation is complete    *)
    (* Synchronisation. *)
    irq,            (* interrupt causes not yet handled                     *)
    semcnt,         (* count of SEM_IF_RX65N_RBUF_READY                     *)
    pc, opc,        (* where the driver's task and lwIP's sender are        *)
    (* Counters of the environment and history. *)
    came, got,      (* frames that came in; frame handed to lwIP last       *)
    left,           (* what the task's last turn ended with, instead of     *)
                    (* looking for a frame in vain: "link", "pbuf", "empty" *)
                    (* or ""                                                *)
    out, sent,      (* frames given to output; frame transmitted last       *)
    rmissed, tmissed,   (* EDRRR, EDTRR read 1 last while the EDMAC was     *)
                    (* about to stop                                        *)
    flaps           (* cable changes                                       *)

rxvars   == <<ract, rx_buff, rx_read, inhand, rr, rdpos, rstop, rmissed, fifo, came, got, left>>
txvars   == <<tact, tx_buff, tx_write, tr, tdpos, tstop, tmissed, opc, out, sent>>
linkvars == <<link_pre, link_now, state, seen, netif_up>>
linevars == <<cable, an_done, flaps>>
vars     == <<rxvars, txvars, linkvars, linevars, irq, semcnt, pc>>

(* Descriptor bits, register bits and bool_t are 0 or 1. *)
BIT == {0, 1}

(* The causes of an interrupt: frame received, FIFO overflow or no         *)
(* descriptor, frame transmitted, link changed.                            *)
Causes == {"FR", "FROF_RDE", "TC", "LCHNG"}

(* Those that EDMAC_EESIPR lets interrupt: ETHERC's LCHNG is not among     *)
(* them, although ETHERC_ECSIPR passes it on.                              *)
Enabled == {"FR", "FROF_RDE", "TC"}

RxDesc == 0 .. NUM_IF_RX65N_RXBUF - 1
TxDesc == 0 .. NUM_IF_RX65N_TXBUF - 1
RxNext(i) == IF i + 1 = NUM_IF_RX65N_RXBUF THEN 0 ELSE i + 1
TxNext(i) == IF i + 1 = NUM_IF_RX65N_TXBUF THEN 0 ELSE i + 1

(* The next descriptor is the driver's and has a frame (RFL is not 0). *)
Readable == ract[rx_read] = 0 /\ rx_buff[rx_read] \notin Empty

(* sig_sem up to the maximum of if_rx65n.cfg. *)
Signalled(n) == IF semcnt + n > NUM_IF_RX65N_RXBUF THEN NUM_IF_RX65N_RXBUF ELSE semcnt + n
-------------------------------------------------------------------------------
(* External: the line and the EDMAC. *)

(* A frame comes in; the FIFO takes it or overflows. *)
Arrive ==
    /\ cable = 1 /\ came < MaxFrames
    /\ came' = came + 1
    /\ IF Len(fifo) < FIFO_FRAMES
       THEN fifo' = Append(fifo, came + 1) /\ UNCHANGED irq
       ELSE irq' = irq \cup {"FROF_RDE"} /\ UNCHANGED fifo
    /\ UNCHANGED <<ract, rx_buff, rx_read, inhand, rr, rdpos, rstop, rmissed, got, left,
                   txvars, linkvars, linevars, semcnt, pc>>

(* A frame goes to an active descriptor, which becomes the driver's. *)
EdmacStore ==
    /\ rr = 1 /\ rstop = 0 /\ fifo # <<>> /\ ract[rdpos] = 1
    /\ rx_buff' = [rx_buff EXCEPT ![rdpos] = Head(fifo)]
    /\ ract' = [ract EXCEPT ![rdpos] = 0]
    /\ rdpos' = RxNext(rdpos) /\ fifo' = Tail(fifo)
    /\ irq' = irq \cup {"FR"}
    /\ UNCHANGED <<rx_read, inhand, rr, rstop, rmissed, came, got, left,
                   txvars, linkvars, linevars, semcnt, pc>>

(* No active descriptor: reception stops.  The repository does not say     *)
(* that the EDMAC looks at the descriptor and clears RR (or TR) at once.   *)
EdmacRxLook ==
    /\ rr = 1 /\ rstop = 0 /\ fifo # <<>> /\ ract[rdpos] = 0
    /\ rstop' = 1
    /\ UNCHANGED <<ract, rx_buff, rx_read, inhand, rr, rdpos, rmissed, fifo, came, got, left,
                   txvars, linkvars, linevars, irq, semcnt, pc>>

EdmacRxStop ==
    /\ rstop = 1
    /\ rr' = 0 /\ rstop' = 0
    /\ irq' = irq \cup {"FROF_RDE"}
    /\ UNCHANGED <<ract, rx_buff, rx_read, inhand, rdpos, rmissed, fifo, came, got, left,
                   txvars, linkvars, linevars, semcnt, pc>>

EdmacSend ==
    /\ tr = 1 /\ tstop = 0 /\ tact[tdpos] = 1
    /\ sent' = tx_buff[tdpos]
    /\ tact' = [tact EXCEPT ![tdpos] = 0]
    /\ tdpos' = TxNext(tdpos)
    /\ irq' = irq \cup {"TC"}
    /\ UNCHANGED <<tx_buff, tx_write, tr, tstop, tmissed, opc, out, rxvars, linkvars, linevars, semcnt, pc>>

EdmacTxLook ==
    /\ tr = 1 /\ tstop = 0 /\ tact[tdpos] = 0
    /\ tstop' = 1
    /\ UNCHANGED <<tact, tx_buff, tx_write, tr, tdpos, tmissed, opc, out, sent,
                   rxvars, linkvars, linevars, irq, semcnt, pc>>

EdmacTxStop ==
    /\ tstop = 1
    /\ tr' = 0 /\ tstop' = 0
    /\ UNCHANGED <<tact, tx_buff, tx_write, tdpos, tmissed, opc, out, sent,
                   rxvars, linkvars, linevars, irq, semcnt, pc>>

CableChange ==
    /\ flaps < MaxFlaps
    /\ flaps' = flaps + 1
    /\ cable' = 1 - cable /\ an_done' = 0
    /\ irq' = irq \cup {"LCHNG"}
    /\ UNCHANGED <<rxvars, txvars, linkvars, semcnt, pc>>

Negotiated ==
    /\ cable = 1 /\ an_done = 0
    /\ an_done' = 1
    /\ UNCHANGED <<cable, flaps, rxvars, txvars, linkvars, irq, semcnt, pc>>
-------------------------------------------------------------------------------
(* Faulty variants, none of them part of Next. *)
RestartLateCopy ==              \* the frame is copied after ract = 1
    /\ pc = "restart" /\ rr = 1
    /\ got' = rx_buff[IF rx_read = 0 THEN NUM_IF_RX65N_RXBUF - 1 ELSE rx_read - 1]
    /\ inhand' = 0 /\ rmissed' = rstop
    /\ pc' = "input"
    /\ UNCHANGED <<ract, rx_buff, rx_read, rr, rdpos, rstop, fifo, came, left,
                   txvars, linkvars, linevars, irq, semcnt>>

NoPbufRecycles ==               \* the frame is dropped, EDRRR is not written
    /\ pc = "input" /\ Readable
    /\ ract' = [ract EXCEPT ![rx_read] = 1] /\ rx_read' = RxNext(rx_read)
    /\ left' = "pbuf"
    /\ pc' = "wai"
    /\ UNCHANGED <<rx_buff, inhand, rr, rdpos, rstop, rmissed, fifo, came, got,
                   txvars, linkvars, linevars, irq, semcnt>>

HandlerIfWaiting ==             \* signals only a task that waits
    /\ irq \cap Enabled # {}
    /\ irq' = {}
    /\ link_now' = IF "LCHNG" \in irq THEN cable ELSE link_now
    /\ semcnt' = IF pc = "wai" THEN Signalled(Cardinality(irq)) ELSE semcnt
    /\ UNCHANGED <<link_pre, state, seen, netif_up, rxvars, txvars, linevars, pc>>

LinkDoneSilent ==               \* sig_sem forgotten
    /\ pc = "after"
    /\ link_pre' = IF state = "NEGOTIATED" THEN link_pre ELSE 1 - link_now
    /\ left' = "link"
    /\ pc' = "wai"
    /\ UNCHANGED <<link_now, state, seen, netif_up, ract, rx_buff, rx_read, inhand, rr, rdpos,
                   rstop, rmissed, fifo, came, got, txvars, linevars, irq, semcnt>>

LinkDoneAgain ==                \* the test of the state is missing
    /\ pc = "after"
    /\ link_pre' = 1 - link_now /\ semcnt' = Signalled(1)
    /\ left' = "link"
    /\ pc' = "wai"
    /\ UNCHANGED <<link_now, state, seen, netif_up, ract, rx_buff, rx_read, inhand, rr, rdpos,
                   rstop, rmissed, fifo, came, got, txvars, linevars, irq>>

OutputTestOnce ==               \* the EDMAC is started for the first frame only
    /\ opc = "test"
    /\ tmissed' = tstop
    /\ opc' = IF tr = 0 /\ out = 1 THEN "start" ELSE "idle"
    /\ UNCHANGED <<tact, tx_buff, tx_write, tr, tdpos, tstop, out, sent,
                   rxvars, linkvars, linevars, irq, semcnt, pc>>

OutputFillAny ==                \* the wait for tact = 0 is missing
    /\ opc = "fill"
    /\ tx_buff' = [tx_buff EXCEPT ![tx_write] = out]
    /\ tact' = [tact EXCEPT ![tx_write] = 1]
    /\ tx_write' = TxNext(tx_write)
    /\ tmissed' = 0
    /\ opc' = "test"
    /\ UNCHANGED <<tr, tdpos, tstop, out, sent, rxvars, linkvars, linevars, irq, semcnt, pc>>
-------------------------------------------------------------------------------
(* if_rx65n_trx_handler_body.  Each cause signals on its own; a change of  *)
(* the link does only if it differs from what the task saw, and is seen    *)
(* only when another cause interrupts.                                     *)
Handler ==
    /\ irq \cap Enabled # {}
    /\ irq' = {}
    /\ link_now' = IF "LCHNG" \in irq THEN cable ELSE link_now
    /\ semcnt' = Signalled(Cardinality(irq \ {"LCHNG"}) +
                           (IF "LCHNG" \in irq /\ link_pre # link_now' THEN 1 ELSE 0))
    /\ UNCHANGED <<link_pre, state, seen, netif_up, rxvars, txvars, linevars, pc>>

(* if_rx65n_task: wai_sem returns and ethernetif_input is called again. *)
Wake ==
    /\ pc = "wai" /\ semcnt > 0
    /\ semcnt' = semcnt - 1
    /\ left' = ""
    /\ pc' = "test"
    /\ UNCHANGED <<ract, rx_buff, rx_read, inhand, rr, rdpos, rstop, rmissed, fifo, came, got,
                   txvars, linkvars, linevars, irq>>

(* ethernetif_input: has the link changed?  Then only the link is seen to. *)
Test ==
    /\ pc = "test"
    /\ pc' = IF link_pre # link_now THEN "copy" ELSE "input"
    /\ UNCHANGED <<rxvars, txvars, linkvars, linevars, irq, semcnt>>

LinkCopy ==
    /\ pc = "copy"
    /\ link_pre' = link_now
    /\ pc' = "link"
    /\ UNCHANGED <<link_now, state, seen, netif_up, rxvars, txvars, linevars, irq, semcnt>>

phy_is_link == IF RX THEN cable ELSE 1

(* rx65n_link when negotiated: the answer of the PHY comes bit by bit and  *)
(* is stored over what the interrupt handler may have put there since.     *)
LinkRead ==
    /\ pc = "link" /\ state = "NEGOTIATED"
    /\ seen' = phy_is_link
    /\ pc' = "store"
    /\ UNCHANGED <<link_pre, link_now, state, netif_up, rxvars, txvars, linevars, irq, semcnt>>

LinkStore ==
    /\ pc = "store"
    /\ link_now' = seen
    /\ state' = IF seen = 1 THEN state ELSE "RESET"
    /\ netif_up' = 1
    /\ seen' = 0
    /\ pc' = "after"
    /\ UNCHANGED <<link_pre, rxvars, txvars, linevars, irq, semcnt>>

(* phy_initialize: without __RX neither the link nor, the second time,     *)
(* auto-negotiation is waited for.                                         *)
phy_initialize ==
    IF state \in {"RESET", "LINKE_WAIT"} /\ phy_is_link = 0 THEN "LINKE_WAIT"
    ELSE IF an_done = 1 \/ (~RX /\ state = "LINKED") THEN "NEGOTIATED" ELSE "LINKED"

LinkInit ==
    /\ pc = "link" /\ state # "NEGOTIATED"
    /\ state' = phy_initialize
    /\ netif_up' = IF state' = "NEGOTIATED" THEN 1 ELSE 0
    /\ pc' = "after"
    /\ UNCHANGED <<link_pre, link_now, seen, rxvars, txvars, linevars, irq, semcnt>>

(* Until the link is negotiated the task calls itself again. *)
LinkDone ==
    /\ pc = "after"
    /\ IF state = "NEGOTIATED"
       THEN UNCHANGED <<link_pre, semcnt>>
       ELSE link_pre' = 1 - link_now /\ semcnt' = Signalled(1)
    /\ left' = "link"
    /\ pc' = "wai"
    /\ UNCHANGED <<link_now, state, seen, netif_up, ract, rx_buff, rx_read, inhand, rr, rdpos,
                   rstop, rmissed, fifo, came, got, txvars, linevars, irq>>

(* low_level_input: nothing to read, a descriptor with RFL 0 (it stays the *)
(* driver's), no pbuf, or a frame, whose descriptor goes back to the EDMAC *)
(* before reception is restarted.                                          *)
NoFrame ==
    /\ pc = "input"
    /\ \/ ract[rx_read] = 1 /\ left' = ""
       \/ ract[rx_read] = 0 /\ rx_buff[rx_read] \in Empty /\ left' = "empty"
    /\ pc' = "wai"
    /\ UNCHANGED <<ract, rx_buff, rx_read, inhand, rr, rdpos, rstop, rmissed, fifo, came, got,
                   txvars, linkvars, linevars, irq, semcnt>>

NoPbuf ==
    /\ pc = "input" /\ Readable
    /\ left' = "pbuf"
    /\ pc' = "wai"
    /\ UNCHANGED <<ract, rx_buff, rx_read, inhand, rr, rdpos, rstop, rmissed, fifo, came, got,
                   txvars, linkvars, linevars, irq, semcnt>>

Recycle ==
    /\ pc = "input" /\ Readable
    /\ inhand' = rx_buff[rx_read]
    /\ ract' = [ract EXCEPT ![rx_read] = 1]
    /\ rx_read' = RxNext(rx_read)
    /\ rmissed' = 0
    /\ pc' = "restart"
    /\ UNCHANGED <<rx_buff, rr, rdpos, rstop, fifo, came, got, left,
                   txvars, linkvars, linevars, irq, semcnt>>

(* netif->input; the loop of ethernetif_input goes on. *)
HandOver == got' = inhand /\ inhand' = 0 /\ pc' = "input"

(* EDRRR is read, and RR written if it was 0. *)
Restart ==
    /\ pc = "restart" /\ rr = 1
    /\ rmissed' = rstop
    /\ HandOver
    /\ UNCHANGED <<ract, rx_buff, rx_read, rr, rdpos, rstop, fifo, came, left,
                   txvars, linkvars, linevars, irq, semcnt>>

RestartTest ==
    /\ pc = "restart" /\ rr = 0
    /\ pc' = "start"
    /\ UNCHANGED <<ract, rx_buff, rx_read, inhand, rr, rdpos, rstop, rmissed, fifo, came, got, left,
                   txvars, linkvars, linevars, irq, semcnt>>

RestartWrite ==
    /\ pc = "start"
    /\ rr' = 1
    /\ HandOver
    /\ UNCHANGED <<ract, rx_buff, rx_read, rdpos, rstop, rmissed, fifo, came, left,
                   txvars, linkvars, linevars, irq, semcnt>>

(* low_level_output, for a frame that fits one buffer. *)
Output ==
    /\ opc = "idle" /\ out < MaxOut
    /\ out' = out + 1
    /\ opc' = "fill"
    /\ UNCHANGED <<tact, tx_buff, tx_write, tr, tdpos, tstop, tmissed, sent,
                   rxvars, linkvars, linevars, irq, semcnt, pc>>

OutputFill ==
    /\ opc = "fill" /\ tact[tx_write] = 0
    /\ tx_buff' = [tx_buff EXCEPT ![tx_write] = out]
    /\ tact' = [tact EXCEPT ![tx_write] = 1]
    /\ tx_write' = TxNext(tx_write)
    /\ tmissed' = 0
    /\ opc' = "test"
    /\ UNCHANGED <<tr, tdpos, tstop, out, sent, rxvars, linkvars, linevars, irq, semcnt, pc>>

(* EDTRR is read, and TR written if it was 0. *)
OutputTest ==
    /\ opc = "test"
    /\ tmissed' = tstop
    /\ opc' = IF tr = 0 THEN "start" ELSE "idle"
    /\ UNCHANGED <<tact, tx_buff, tx_write, tr, tdpos, tstop, out, sent,
                   rxvars, linkvars, linevars, irq, semcnt, pc>>

OutputStart ==
    /\ opc = "start"
    /\ tr' = 1
    /\ opc' = "idle"
    /\ UNCHANGED <<tact, tx_buff, tx_write, tdpos, tstop, tmissed, out, sent,
                   rxvars, linkvars, linevars, irq, semcnt, pc>>
-------------------------------------------------------------------------------
(* low_level_init and rx65n_init_sub; the cable may be in or out. *)
Init ==
    /\ ract = [i \in RxDesc |-> 1] /\ rx_buff = [i \in RxDesc |-> 0]
    /\ rx_read = 0 /\ inhand = 0 /\ rr = 1 /\ rdpos = 0 /\ rstop = 0 /\ rmissed = 0 /\ fifo = <<>>
    /\ came = 0 /\ got = 0 /\ left = ""
    /\ tact = [i \in TxDesc |-> 0] /\ tx_buff = [i \in TxDesc |-> 0]
    /\ tx_write = 0 /\ tr = 0 /\ tdpos = 0 /\ tstop = 0 /\ tmissed = 0
    /\ opc = "idle" /\ out = 0 /\ sent = 0
    /\ link_pre = 0 /\ link_now = 1 /\ state = "RESET" /\ seen = 0 /\ netif_up = 0
    /\ cable \in BIT /\ an_done = 0 /\ flaps = 0
    /\ irq = {} /\ semcnt = 0 /\ pc = "test"

Edmac  == EdmacStore \/ EdmacRxLook \/ EdmacRxStop
EdmacT == EdmacSend \/ EdmacTxLook \/ EdmacTxStop
Task   == \/ Wake \/ Test \/ LinkCopy \/ LinkRead \/ LinkStore \/ LinkInit \/ LinkDone
          \/ NoFrame \/ NoPbuf \/ Recycle \/ Restart \/ RestartTest \/ RestartWrite
Sender == Output \/ OutputFill \/ OutputTest \/ OutputStart

Next == Arrive \/ CableChange \/ Negotiated \/ Edmac \/ EdmacT \/ Handler \/ Task \/ Sender

Spec == Init /\ [][Next]_vars

(* The EDMAC goes on, an interrupt is taken, a task that is ready runs. *)
FairSpec ==
    /\ Spec
    /\ WF_vars(Edmac) /\ WF_vars(EdmacT) /\ WF_vars(Handler)
    /\ WF_vars(Task) /\ WF_vars(OutputFill \/ OutputTest \/ OutputStart) /\ WF_vars(Negotiated)
-------------------------------------------------------------------------------
RxType ==
    /\ ract \in [RxDesc -> BIT] /\ rx_buff \in [RxDesc -> Nat]
    /\ rx_read \in RxDesc /\ rdpos \in RxDesc /\ inhand \in Nat
    /\ rr \in BIT /\ rstop \in BIT /\ rmissed \in BIT
    /\ fifo \in Seq(Nat) /\ Len(fifo) <= FIFO_FRAMES
    /\ came \in Nat /\ got \in Nat /\ left \in {"", "link", "pbuf", "empty"}

TxType ==
    /\ tact \in [TxDesc -> BIT] /\ tx_buff \in [TxDesc -> Nat]
    /\ tx_write \in TxDesc /\ tdpos \in TxDesc
    /\ tr \in BIT /\ tstop \in BIT /\ tmissed \in BIT
    /\ opc \in {"idle", "fill", "test", "start"}
    /\ out \in Nat /\ sent \in Nat

LinkType ==
    /\ link_pre \in BIT /\ link_now \in BIT /\ seen \in BIT /\ netif_up \in BIT
    /\ state \in {"RESET", "LINKE_WAIT", "LINKED", "NEGOTIATED"}
    /\ cable \in BIT /\ an_done \in BIT /\ flaps \in Nat

SyncType ==
    /\ irq \subseteq Causes
    /\ semcnt \in 0 .. NUM_IF_RX65N_RXBUF
    /\ pc \in {"wai", "test", "copy", "link", "store", "after", "input", "restart", "start"}

TypeOK == RxType /\ TxType /\ LinkType /\ SyncType

(* Frames in the ring, from rx_read on, and the frame on its way to lwIP. *)
Offset(n, a, i) == IF a <= i THEN i - a ELSE i + n - a
Slot(n, a, k)   == IF a + k < n THEN a + k ELSE a + k - n
Filled == IF rx_read = rdpos /\ ract[rx_read] = 0 THEN NUM_IF_RX65N_RXBUF
          ELSE Offset(NUM_IF_RX65N_RXBUF, rx_read, rdpos)
RingFrames == [k \in 1 .. Filled |-> rx_buff[Slot(NUM_IF_RX65N_RXBUF, rx_read, k - 1)]]
Held == (IF pc \in {"restart", "start"} THEN <<inhand>> ELSE <<>>) \o RingFrames \o fifo

(* The rings and the FIFO together hand over every frame they keep once    *)
(* and in order, although the EDMAC fills the descriptors that the driver  *)
(* gives back at the same time.                                            *)
Frames == INSTANCE FrameQueue WITH Backlog <- FIFO_FRAMES, queue <- Held
ImplementsQueue == Frames!Spec

(* The task sleeps beside a frame and nothing is on its way to wake it.    *)
Forgotten == pc = "wai" /\ semcnt = 0 /\ irq \cap Enabled = {} /\ ract[rx_read] = 0

(* No frame is forgotten: a token is left for every frame the task did not *)
(* look at, although the semaphore counts to 2 only and a turn that finds  *)
(* the link changed takes a token and looks at no frame.  Exceptions: no   *)
(* pbuf was to be had, or RFL is 0; or rx65n_link stored over a link_now   *)
(* that the handler had announced, so a second turn for the link takes the *)
(* token of a frame.                                                       *)
NoForgottenFrame == Forgotten => left \in {"pbuf", "empty"} \/ (left = "link" /\ flaps > 0)

(* Reception is stopped only while the driver has a frame to read or is    *)
(* about to restart it.  One exception: it gave a descriptor back and read *)
(* EDRRR after the EDMAC had found that descriptor inactive and before it  *)
(* cleared RR.                                                             *)
StopsOnlyFull == rr = 0 => ract[rx_read] = 0 \/ pc \in {"restart", "start"} \/ rmissed = 1

(* While the link is negotiated and link_pre stands apart from link_now,   *)
(* the task is on its way to try again.                                    *)
NegotiationGoesOn ==
    pc = "wai" /\ state # "NEGOTIATED" /\ link_pre # link_now => semcnt > 0

(* The EDMAC runs whenever a frame is in the transmit ring, or the sender  *)
(* is about to start it.  One exception: for the frame filled in last,     *)
(* EDTRR was read between the EDMAC's look at its descriptor and the end   *)
(* of TR; that frame waits for the next one.                               *)
TransmitterRuns ==
    (\E i \in TxDesc : tact[i] = 1) => tr = 1 \/ opc \in {"test", "start"} \/ tmissed = 1

(* Frames go out once and in the order of the calls. *)
SentInOrder == [][sent' # sent => sent' = sent + 1]_vars

(* While the cable is in, a frame in the ring is read, or forgotten as     *)
(* above: the task neither sleeps nor negotiates for ever.                 *)
FrameRead == (cable = 1 /\ Readable) ~> (pc = "restart" \/ Forgotten \/ cable = 0)
===============================================================================
