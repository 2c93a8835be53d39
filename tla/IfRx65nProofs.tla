---------------------------- MODULE IfRx65nProofs -----------------------------
(***************************************************************************)
(* Theorems about the Ethernet driver, for every size of its rings, of the *)
(* FIFO and of the bounds.                                                 *)
(***************************************************************************)
EXTENDS IfRx65n, FiniteSetTheorems, SequenceTheorems, TLAPS

N == NUM_IF_RX65N_RXBUF
M == NUM_IF_RX65N_TXBUF

USE DriverAssumption

(* Which actions touch which part of the state. *)
RxStep == \/ Arrive \/ EdmacStore \/ EdmacRxLook \/ EdmacRxStop \/ LinkDone \/ Wake
          \/ NoFrame \/ NoPbuf \/ Recycle \/ Restart \/ RestartTest \/ RestartWrite
TxStep == EdmacSend \/ EdmacTxLook \/ EdmacTxStop \/ Output \/ OutputFill \/ OutputTest \/ OutputStart
LinkStep == \/ Handler \/ LinkCopy \/ LinkRead \/ LinkStore \/ LinkInit \/ LinkDone
LineStep == CableChange \/ Negotiated
SemStep == Handler \/ Wake \/ LinkDone

(* A step is one of three kinds, or it leaves the rings and the links.     *)
LEMMA NextSteps ==
    ASSUME Next
    PROVE  RxStep \/ TxStep \/ LinkStep \/ LineStep \/ Test
  BY DEF Next, Edmac, EdmacT, Task, Sender, RxStep, TxStep, LinkStep, LineStep

(* The receive ring is as it was unless the step is one of RxStep. *)
LEMMA RxUntouched ==
    ASSUME [Next]_vars PROVE RxStep \/ UNCHANGED rxvars
<1>1. CASE UNCHANGED vars
  BY <1>1 DEF vars
<1>2. CASE TxStep
  BY <1>2 DEF TxStep, EdmacSend, EdmacTxLook, EdmacTxStop, Output, OutputFill, OutputTest, OutputStart
<1>3. CASE LinkStep
  BY <1>3 DEF LinkStep, RxStep, Handler, LinkCopy, LinkRead, LinkStore, LinkInit
<1>4. CASE LineStep \/ Test
  BY <1>4 DEF LineStep, CableChange, Negotiated, Test
<1> QED BY <1>1, <1>2, <1>3, <1>4, NextSteps

(* The transmit ring is as it was unless the step is one of TxStep. *)
LEMMA TxUntouched ==
    ASSUME [Next]_vars PROVE TxStep \/ UNCHANGED txvars
<1>1. CASE UNCHANGED vars
  BY <1>1 DEF vars
<1>2. CASE RxStep
  BY <1>2 DEF RxStep, Wake, Arrive, EdmacStore, EdmacRxLook, EdmacRxStop, LinkDone, NoFrame, NoPbuf,
              Recycle, Restart, RestartTest, RestartWrite, HandOver, txvars
<1>3. CASE LinkStep
  BY <1>3 DEF LinkStep, Handler, LinkCopy, LinkRead, LinkStore, LinkInit, LinkDone
<1>4. CASE LineStep \/ Wake \/ Test
  BY <1>4 DEF LineStep, CableChange, Negotiated, Wake, Test
<1> QED BY <1>1, <1>2, <1>3, <1>4, NextSteps

(* The link's variables are as they were unless the step is of LinkStep. *)
LEMMA LinkUntouched ==
    ASSUME [Next]_vars PROVE LinkStep \/ UNCHANGED linkvars
<1>1. CASE UNCHANGED vars
  BY <1>1 DEF vars
<1>2. CASE RxStep
  BY <1>2 DEF RxStep, LinkStep, Wake, Arrive, EdmacStore, EdmacRxLook, EdmacRxStop, NoFrame, NoPbuf,
              Recycle, Restart, RestartTest, RestartWrite, HandOver
<1>3. CASE TxStep
  BY <1>3 DEF TxStep, EdmacSend, EdmacTxLook, EdmacTxStop, Output, OutputFill, OutputTest, OutputStart
<1>4. CASE LineStep \/ Wake \/ Test
  BY <1>4 DEF LineStep, CableChange, Negotiated, Wake, Test
<1> QED BY <1>1, <1>2, <1>3, <1>4, NextSteps

(* The count of the semaphore is as it was unless the step is of SemStep. *)
LEMMA SemUntouched ==
    ASSUME [Next]_vars PROVE SemStep \/ UNCHANGED semcnt
<1>1. CASE UNCHANGED vars
  BY <1>1 DEF vars
<1>2. CASE RxStep
  BY <1>2 DEF RxStep, SemStep, Wake, Arrive, EdmacStore, EdmacRxLook, EdmacRxStop, NoFrame, NoPbuf,
              Recycle, Restart, RestartTest, RestartWrite, HandOver
<1>3. CASE TxStep
  BY <1>3 DEF TxStep, EdmacSend, EdmacTxLook, EdmacTxStop, Output, OutputFill, OutputTest, OutputStart
<1>4. CASE LinkStep
  BY <1>4 DEF LinkStep, SemStep, LinkCopy, LinkRead, LinkStore, LinkInit
<1>5. CASE LineStep \/ Wake \/ Test
  BY <1>5 DEF LineStep, SemStep, CableChange, Negotiated, Test
<1> QED BY <1>1, <1>2, <1>3, <1>4, <1>5, NextSteps
-------------------------------------------------------------------------------
(* The descriptor after a descriptor is a descriptor. *)
LEMMA NextDesc ==
    /\ 0 \in RxDesc /\ 0 \in TxDesc
    /\ \A i \in RxDesc : RxNext(i) \in RxDesc
    /\ \A i \in TxDesc : TxNext(i) \in TxDesc
  BY DEF RxDesc, TxDesc, RxNext, TxNext

(* A signal never takes the count past the maximum, nor down. *)
LEMMA SignalledFacts ==
    ASSUME semcnt \in 0 .. N, NEW n \in Nat
    PROVE  /\ Signalled(n) \in 0 .. N /\ Signalled(n) >= semcnt
           /\ n > 0 => Signalled(n) > 0 /\ (Signalled(n) > semcnt \/ Signalled(n) = N)
  BY DEF Signalled, N

(* The causes of an interrupt are finitely many. *)
LEMMA CausesCounted ==
    ASSUME NEW S, S \subseteq Causes
    PROVE  Cardinality(S) \in Nat /\ (S # {} => Cardinality(S) > 0)
<1>1. IsFiniteSet(Causes)
  <2>1. IsFiniteSet({"FR"})
    BY FS_Singleton
  <2>2. IsFiniteSet({"FR"} \cup {"FROF_RDE"})
    BY <2>1, FS_AddElement
  <2>3. IsFiniteSet(({"FR"} \cup {"FROF_RDE"}) \cup {"TC"})
    BY <2>2, FS_AddElement
  <2>4. IsFiniteSet((({"FR"} \cup {"FROF_RDE"}) \cup {"TC"}) \cup {"LCHNG"})
    BY <2>3, FS_AddElement
  <2>5. Causes = (({"FR"} \cup {"FROF_RDE"}) \cup {"TC"}) \cup {"LCHNG"}
    BY DEF Causes
  <2> QED BY <2>4, <2>5
<1>2. IsFiniteSet(S)
  BY <1>1, FS_Subset
<1> DEFINE c == Cardinality(S)
<1>3. c \in Nat /\ (c = 0 <=> S = {})
  BY <1>2, FS_CardinalityType, FS_EmptySet
<1> HIDE DEF c
<1>4. c \in Nat /\ (S # {} => c > 0)
  BY <1>3
<1> QED BY <1>4 DEF c

(* The handler counts what it signals; the count stays in its range, does  *)
(* not fall, and is not zero when a cause other than the link was there.   *)
LEMMA HandlerSignals ==
    ASSUME SyncType, Handler
    PROVE  /\ semcnt' \in 0 .. N /\ semcnt' >= semcnt
           /\ irq \ {"LCHNG"} # {} => semcnt' > 0 /\ (semcnt' > semcnt \/ semcnt' = N)
           /\ "LCHNG" \in irq /\ link_pre # link_now' => semcnt' > 0
<1> DEFINE c == Cardinality(irq \ {"LCHNG"})
           l == IF "LCHNG" \in irq /\ link_pre # link_now' THEN 1 ELSE 0
<1>1. c \in Nat /\ (irq \ {"LCHNG"} # {} => c > 0)
  BY CausesCounted DEF SyncType
<1>2. l \in {0, 1} /\ ("LCHNG" \in irq /\ link_pre # link_now' => l = 1)
  OBVIOUS
<1>3. semcnt' = Signalled(c + l)
  BY DEF Handler
<1>4. semcnt \in 0 .. N
  BY DEF SyncType, N
<1> HIDE DEF c, l
<1>5. c + l \in Nat /\ (c > 0 \/ l = 1 => c + l > 0)
  BY <1>1, <1>2
<1>6. /\ Signalled(c + l) \in 0 .. N /\ Signalled(c + l) >= semcnt
      /\ c + l > 0 => Signalled(c + l) > 0 /\ (Signalled(c + l) > semcnt \/ Signalled(c + l) = N)
  BY <1>4, <1>5, SignalledFacts
<1> QED BY <1>1, <1>2, <1>3, <1>5, <1>6

(* What is taken from and added to the FIFO. *)
LEMMA FifoFacts ==
    ASSUME NEW s \in Seq(Nat), NEW e \in Nat
    PROVE  /\ Len(s) \in Nat
           /\ Append(s, e) \in Seq(Nat) /\ Len(Append(s, e)) = Len(s) + 1
           /\ s # <<>> => Head(s) \in Nat /\ Tail(s) \in Seq(Nat)
           /\ s # <<>> => Len(s) > 0 /\ Len(Tail(s)) = Len(s) - 1
  BY HeadTailProperties, AppendProperties, EmptySeq
-------------------------------------------------------------------------------
(* Type correctness, by the part of the state. *)
LEMMA RxTyped ==
    ASSUME RxType, [Next]_vars PROVE RxType'
<1>0. CASE UNCHANGED rxvars
  BY <1>0 DEF rxvars, RxType
<1>t. /\ came \in Nat /\ fifo \in Seq(Nat) /\ Len(fifo) <= FIFO_FRAMES
      /\ rdpos \in RxDesc /\ rx_read \in RxDesc
  BY DEF RxType
<1>n. FIFO_FRAMES \in Nat /\ Len(fifo) \in Nat
  BY <1>t, FifoFacts
<1>1. CASE Arrive
  <2>1. fifo' \in Seq(Nat) /\ Len(fifo') <= FIFO_FRAMES
    <3>1. CASE Len(fifo) < FIFO_FRAMES
      <4>1. fifo' = Append(fifo, came + 1) /\ came + 1 \in Nat
        BY <1>1, <1>t, <3>1 DEF Arrive
      <4>2. fifo' \in Seq(Nat) /\ Len(fifo') = Len(fifo) + 1
        BY <1>t, <4>1, FifoFacts
      <4> QED BY <1>n, <3>1, <4>2
    <3>2. CASE ~(Len(fifo) < FIFO_FRAMES)
      BY <1>1, <1>t, <3>2 DEF Arrive
    <3> QED BY <3>1, <3>2
  <2>2. UNCHANGED <<ract, rx_buff, rx_read, inhand, rr, rdpos, rstop, rmissed, got, left>>
    BY <1>1 DEF Arrive
  <2>3. came' \in Nat
    BY <1>1, <1>t DEF Arrive
  <2> QED BY <2>1, <2>2, <2>3 DEF RxType
<1>2. CASE EdmacStore
  <2>1. fifo' \in Seq(Nat) /\ Len(fifo') <= FIFO_FRAMES /\ Head(fifo) \in Nat
    <3>1. fifo # <<>> /\ fifo' = Tail(fifo)
      BY <1>2 DEF EdmacStore
    <3>2. Head(fifo) \in Nat /\ Tail(fifo) \in Seq(Nat) /\ Len(Tail(fifo)) = Len(fifo) - 1
      BY <1>t, <3>1, FifoFacts
    <3> QED BY <1>t, <1>n, <3>1, <3>2
  <2>2. ract' \in [RxDesc -> BIT] /\ rx_buff' \in [RxDesc -> Nat]
    BY <1>2, <2>1 DEF EdmacStore, RxType, BIT
  <2>3. rdpos' \in RxDesc
    BY <1>2, <1>t, NextDesc DEF EdmacStore
  <2> QED BY <1>2, <2>1, <2>2, <2>3 DEF EdmacStore, RxType
<1>3. CASE EdmacRxLook \/ EdmacRxStop \/ LinkDone \/ Wake \/ NoFrame \/ NoPbuf
  BY <1>3 DEF EdmacRxLook, EdmacRxStop, LinkDone, Wake, NoFrame, NoPbuf, RxType, BIT
<1>4. CASE Recycle
  <2>1. ract' \in [RxDesc -> BIT] /\ inhand' \in Nat
    BY <1>4 DEF Recycle, RxType, BIT
  <2>2. rx_read' \in RxDesc
    BY <1>4, <1>t, NextDesc DEF Recycle
  <2> QED BY <1>4, <2>1, <2>2 DEF Recycle, RxType, BIT
<1>5. CASE Restart
  BY <1>5 DEF Restart, HandOver, RxType
<1>6. CASE RestartTest
  BY <1>6 DEF RestartTest, RxType
<1>7. CASE RestartWrite
  BY <1>7 DEF RestartWrite, HandOver, RxType, BIT
<1> QED BY <1>0, <1>1, <1>2, <1>3, <1>4, <1>5, <1>6, <1>7, RxUntouched DEF RxStep

LEMMA TxTyped ==
    ASSUME TxType, [Next]_vars PROVE TxType'
<1>0. CASE UNCHANGED txvars
  BY <1>0 DEF txvars, TxType
<1> USE NextDesc DEF BIT
<1>1. CASE EdmacSend
  BY <1>1 DEF EdmacSend, TxType
<1>2. CASE EdmacTxLook \/ EdmacTxStop \/ Output \/ OutputTest \/ OutputStart
  BY <1>2 DEF EdmacTxLook, EdmacTxStop, Output, OutputTest, OutputStart, TxType
<1>3. CASE OutputFill
  BY <1>3 DEF OutputFill, TxType
<1> QED BY <1>0, <1>1, <1>2, <1>3, TxUntouched DEF TxStep

LEMMA LinkTyped ==
    ASSUME LinkType, [Next]_vars PROVE LinkType'
<1> USE DEF BIT
<1>1. CASE Handler
  BY <1>1 DEF Handler, LinkType, linevars
<1>2. CASE LinkCopy \/ LinkDone
  BY <1>2 DEF LinkCopy, LinkDone, LinkType, linevars
<1>3. CASE LinkRead
  BY <1>3 DEF LinkRead, LinkType, linevars, phy_is_link
<1>4. CASE LinkStore
  BY <1>4 DEF LinkStore, LinkType, linevars
<1>5. CASE LinkInit
  BY <1>5 DEF LinkInit, LinkType, linevars, phy_initialize
<1>6. CASE CableChange
  BY <1>6 DEF CableChange, LinkType, linkvars
<1>7. CASE Negotiated
  BY <1>7 DEF Negotiated, LinkType, linkvars
<1>8. CASE UNCHANGED linkvars /\ UNCHANGED linevars
  BY <1>8 DEF linkvars, linevars, LinkType
<1>9. \/ LinkStep \/ LineStep \/ (UNCHANGED linkvars /\ UNCHANGED linevars)
  <2>1. CASE RxStep
    BY <2>1 DEF RxStep, LinkStep, Wake, Arrive, EdmacStore, EdmacRxLook, EdmacRxStop, NoFrame, NoPbuf,
                Recycle, Restart, RestartTest, RestartWrite, HandOver
  <2>2. CASE TxStep
    BY <2>2 DEF TxStep, EdmacSend, EdmacTxLook, EdmacTxStop, Output, OutputFill, OutputTest, OutputStart
  <2>3. CASE Wake \/ Test
    BY <2>3 DEF Wake, Test
  <2>4. CASE UNCHANGED vars
    BY <2>4 DEF vars
  <2> QED BY <2>1, <2>2, <2>3, <2>4, NextSteps
<1> QED BY <1>1, <1>2, <1>3, <1>4, <1>5, <1>6, <1>7, <1>8, <1>9 DEF LinkStep, LineStep

LEMMA SyncTyped ==
    ASSUME SyncType, [Next]_vars PROVE SyncType'
<1>1. irq' \subseteq Causes
  <2>1. CASE RxStep
    BY <2>1 DEF Causes, RxStep, Wake, Arrive, EdmacStore, EdmacRxLook, EdmacRxStop, LinkDone, NoFrame, NoPbuf,
                Recycle, Restart, RestartTest, RestartWrite, HandOver, SyncType
  <2>2. CASE TxStep
    BY <2>2 DEF Causes, TxStep, EdmacSend, EdmacTxLook, EdmacTxStop, Output, OutputFill, OutputTest, OutputStart, SyncType
  <2>3. CASE LinkStep \/ LineStep
    BY <2>3 DEF Causes, LinkStep, LineStep, Handler, LinkCopy, LinkRead, LinkStore, LinkInit,
                LinkDone, CableChange, Negotiated, SyncType
  <2>4. CASE Wake \/ Test \/ UNCHANGED vars
    BY <2>4 DEF Wake, Test, vars, SyncType
  <2> QED BY <2>1, <2>2, <2>3, <2>4, NextSteps
<1>2. semcnt' \in 0 .. NUM_IF_RX65N_RXBUF
  <2>1. CASE Handler
    BY <2>1, HandlerSignals DEF N
  <2>2. CASE Wake
    <3>1. semcnt > 0 /\ semcnt' = semcnt - 1
      BY <2>2 DEF Wake
    <3> QED BY <3>1 DEF SyncType
  <2>3. CASE LinkDone
    BY <2>3, SignalledFacts DEF LinkDone, SyncType, N
  <2>4. CASE UNCHANGED semcnt
    BY <2>4 DEF SyncType
  <2> QED BY <2>1, <2>2, <2>3, <2>4, SemUntouched DEF SemStep
<1>3. pc' \in {"wai", "test", "copy", "link", "store", "after", "input", "restart", "start"}
  <2>1. CASE RxStep
    BY <2>1 DEF RxStep, Wake, Arrive, EdmacStore, EdmacRxLook, EdmacRxStop, LinkDone, NoFrame, NoPbuf,
                Recycle, Restart, RestartTest, RestartWrite, HandOver, SyncType
  <2>2. CASE TxStep
    BY <2>2 DEF TxStep, EdmacSend, EdmacTxLook, EdmacTxStop, Output, OutputFill, OutputTest, OutputStart, SyncType
  <2>3. CASE LinkStep \/ LineStep
    BY <2>3 DEF LinkStep, LineStep, Handler, LinkCopy, LinkRead, LinkStore, LinkInit,
                LinkDone, CableChange, Negotiated, SyncType
  <2>4. CASE Wake \/ Test \/ UNCHANGED vars
    BY <2>4 DEF Wake, Test, vars, SyncType
  <2> QED BY <2>1, <2>2, <2>3, <2>4, NextSteps
<1> QED BY <1>1, <1>2, <1>3 DEF SyncType

(* Types hold in every initial state. *)
LEMMA InitTyped ==
    ASSUME Init PROVE TypeOK
<1>1. RxType
  <2>1. fifo \in Seq(Nat) /\ Len(fifo) = 0
    <3>1. fifo = <<>>
      BY DEF Init
    <3> QED BY <3>1, EmptySeq
  <2>2. ract \in [RxDesc -> BIT] /\ rx_buff \in [RxDesc -> Nat]
    BY DEF Init, BIT
  <2>3. /\ rx_read \in RxDesc /\ rdpos \in RxDesc /\ inhand \in Nat
        /\ rr \in BIT /\ rstop \in BIT /\ rmissed \in BIT
        /\ came \in Nat /\ got \in Nat /\ left \in {"", "link", "pbuf", "empty"}
    BY NextDesc DEF Init, BIT
  <2>4. Len(fifo) <= FIFO_FRAMES
    BY <2>1
  <2> QED BY <2>1, <2>2, <2>3, <2>4 DEF RxType
<1>2. TxType
  BY NextDesc DEF Init, TxType, BIT
<1>3. LinkType
  BY DEF Init, LinkType, BIT
<1>4. SyncType
  <2>1. irq \subseteq Causes /\ pc = "test" /\ semcnt = 0
    BY DEF Init
  <2>2. 0 \in 0 .. NUM_IF_RX65N_RXBUF
    OBVIOUS
  <2> QED BY <2>1, <2>2 DEF SyncType
<1> QED BY <1>1, <1>2, <1>3, <1>4 DEF TypeOK

(* Every variable of the driver, of the EDMAC and of the link stays in its *)
(* range: the count of the semaphore below its maximum, the positions in   *)
(* the rings, the frames in the FIFO below its size.                       *)
THEOREM Typing == Spec => []TypeOK
<1>1. Init => TypeOK
  BY InitTyped
<1>2. TypeOK /\ [Next]_vars => TypeOK'
  BY RxTyped, TxTyped, LinkTyped, SyncTyped DEF TypeOK
<1> QED BY <1>1, <1>2, PTL DEF Spec
-------------------------------------------------------------------------------
(* The link is followed to the end of the negotiation. *)
NegInv == pc \in {"wai", "input", "restart", "start"} /\ state # "NEGOTIATED" /\ link_pre # link_now
          => semcnt > 0

LEMMA NegStep ==
    ASSUME TypeOK, NegInv, [Next]_vars PROVE NegInv'
<1>t. semcnt \in 0 .. N /\ link_pre \in {0, 1} /\ link_now \in {0, 1} /\ N \in Nat \ {0}
  BY DEF TypeOK, SyncType, LinkType, BIT, N
<1>1. CASE Handler
  <2>1. /\ semcnt' \in 0 .. N /\ semcnt' >= semcnt
        /\ "LCHNG" \in irq /\ link_pre # link_now' => semcnt' > 0
    BY <1>1, HandlerSignals DEF TypeOK
  <2>2. CASE "LCHNG" \in irq
    BY <1>1, <2>1, <2>2 DEF Handler, NegInv
  <2>3. CASE "LCHNG" \notin irq
    BY <1>1, <1>t, <2>1, <2>3 DEF Handler, NegInv
  <2> QED BY <2>2, <2>3
<1>2. CASE LinkDone
  <2>1. CASE state = "NEGOTIATED"
    BY <1>2, <2>1 DEF LinkDone, NegInv
  <2>2. CASE state # "NEGOTIATED"
    BY <1>2, <2>2, <1>t, SignalledFacts DEF LinkDone, NegInv
  <2> QED BY <2>1, <2>2
<1>3. CASE LinkCopy \/ LinkRead \/ LinkStore \/ LinkInit
  BY <1>3 DEF LinkCopy, LinkRead, LinkStore, LinkInit, NegInv
<1>4. CASE LineStep
  BY <1>4 DEF LineStep, CableChange, Negotiated, linkvars, NegInv
<1>5. CASE Wake \/ Test
  BY <1>5 DEF Wake, Test, linkvars, NegInv
<1>6. CASE TxStep
  BY <1>6 DEF TxStep, EdmacSend, EdmacTxLook, EdmacTxStop, Output, OutputFill, OutputTest, OutputStart, linkvars, NegInv
<1>7. CASE Arrive \/ EdmacStore \/ EdmacRxLook \/ EdmacRxStop
  BY <1>7 DEF Arrive, EdmacStore, EdmacRxLook, EdmacRxStop, linkvars, NegInv
<1>8. CASE NoFrame \/ NoPbuf \/ Recycle \/ Restart \/ RestartTest \/ RestartWrite
  BY <1>8 DEF NoFrame, NoPbuf, Recycle, Restart, RestartTest, RestartWrite, HandOver, linkvars, NegInv
<1>9. CASE UNCHANGED vars
  BY <1>9 DEF vars, linkvars, NegInv
<1> QED BY <1>1, <1>2, <1>3, <1>4, <1>5, <1>6, <1>7, <1>8, <1>9, NextSteps
        DEF LinkStep, RxStep

(* As long as the link is not negotiated and link_pre stands apart from    *)
(* link_now, the task does not sleep without a signal to wake it.  The     *)
(* invariant says the same of a turn that reads frames: the handler may    *)
(* announce a change after the task tested for one.                        *)
THEOREM NegotiationSafety == Spec => []NegotiationGoesOn
<1>1. Init => NegInv
  BY DEF Init, NegInv
<1>2. TypeOK /\ NegInv /\ [Next]_vars => NegInv'
  BY NegStep
<1>3. NegInv => NegotiationGoesOn
  BY DEF NegInv, NegotiationGoesOn
<1> QED BY <1>1, <1>2, <1>3, Typing, PTL DEF Spec
-------------------------------------------------------------------------------
(* Frames and the signals for them, while the cable has not been touched:  *)
(* a turn for the link gives back the token it takes until the link is     *)
(* negotiated, and the first turn of all took none.                        *)
Announced(n) == ract[rx_read] = 0 => semcnt >= n \/ "FR" \in irq

LinkTurns ==
    /\ "LCHNG" \notin irq /\ link_now = 1 /\ pc # "store"
    /\ state = "NEGOTIATED" => pc \notin {"copy", "link"} /\ link_pre = 1
    /\ state # "NEGOTIATED" => pc \notin {"input", "restart", "start"}
    /\ state # "NEGOTIATED" /\ pc \in {"wai", "test"} => link_pre = 0
    /\ pc \in {"link", "after"} => link_pre = 1

Tokens ==
    /\ state # "NEGOTIATED" /\ pc = "wai" => semcnt >= 1 /\ Announced(2)
    /\ state # "NEGOTIATED" /\ pc \in {"test", "copy", "link", "after"} => Announced(1)
    /\ state = "NEGOTIATED" /\ pc = "after" => Announced(1)
    /\ state = "NEGOTIATED" /\ pc = "wai" /\ left = "link" => Announced(1)

FrameInv ==
    /\ pc = "wai" /\ left = "" => Announced(1)
    /\ flaps = 0 => LinkTurns /\ Tokens

LEMMA FrameInvInit == ASSUME Init PROVE FrameInv
<1>1. ract[rx_read] = 1
  BY NextDesc DEF Init
<1>2. /\ irq = {} /\ link_now = 1 /\ pc = "test" /\ state = "RESET" /\ link_pre = 0
  BY DEF Init
<1>3. LinkTurns
  BY <1>2 DEF LinkTurns
<1>4. Tokens
  BY <1>1, <1>2 DEF Tokens, Announced
<1> QED BY <1>2, <1>3, <1>4 DEF FrameInv

(* Steps that change neither frames nor tokens, or add a cause. *)
LEMMA FrameInvHandler ==
    ASSUME TypeOK, FrameInv, Handler, N >= 2 PROVE FrameInv'
<1>1. /\ semcnt \in Nat /\ semcnt' \in 0 .. N /\ semcnt' >= semcnt
      /\ irq \ {"LCHNG"} # {} => semcnt' > 0 /\ (semcnt' > semcnt \/ semcnt' = N)
  BY HandlerSignals DEF TypeOK, SyncType
<1>2. UNCHANGED <<ract, rx_read, link_pre, state, left, pc, flaps>> /\ irq' = {}
  BY DEF Handler, rxvars, linevars
<1>3. N \in Nat \ {0}
  BY DEF N
<1>4. "FR" \in irq => semcnt' >= 1 /\ (semcnt' > semcnt \/ semcnt' = N)
  BY <1>1, <1>3
<1>5. Announced(1) => Announced(1)'
  BY <1>1, <1>2, <1>3, <1>4 DEF Announced
<1>6. semcnt >= 1 /\ Announced(2) => semcnt' >= 1 /\ Announced(2)'
  BY <1>1, <1>2, <1>3, <1>4 DEF Announced
<1>7. ASSUME flaps = 0 PROVE LinkTurns' /\ Tokens'
  <2>1. LinkTurns'
    BY <1>2, <1>7 DEF Handler, FrameInv, LinkTurns
  <2>2. Tokens'
    BY <1>2, <1>5, <1>6, <1>7 DEF FrameInv, Tokens
  <2> QED BY <2>1, <2>2
<1>8. pc = "wai" /\ left = "" => Announced(1)'
  BY <1>5 DEF FrameInv
<1> QED BY <1>2, <1>7, <1>8 DEF FrameInv

(* The turns of the task. *)
LEMMA FrameInvTask ==
    ASSUME TypeOK, FrameInv, N >= 2,
           \/ Wake \/ Test \/ LinkCopy \/ LinkRead \/ LinkStore \/ LinkInit \/ LinkDone
    PROVE  FrameInv'
<1>t. /\ semcnt \in 0 .. N /\ N \in Nat
      /\ link_pre \in {0, 1} /\ link_now \in {0, 1}
  BY DEF TypeOK, SyncType, LinkType, BIT, N
<1>1. CASE Wake
  <2>1. /\ UNCHANGED <<ract, rx_read, irq, flaps, linkvars>>
        /\ pc = "wai" /\ pc' = "test" /\ semcnt > 0 /\ semcnt' = semcnt - 1
    BY <1>1 DEF Wake, rxvars, linevars
  <2>2. Announced(2) => Announced(1)'
    BY <2>1, <1>t DEF Announced
  <2>3. flaps = 0 => LinkTurns' /\ Tokens'
    BY <2>1, <2>2 DEF FrameInv, LinkTurns, Tokens, linkvars
  <2> QED BY <2>1, <2>3 DEF FrameInv
<1>2. CASE Test
  <2>1. /\ UNCHANGED <<ract, rx_read, irq, left, flaps, semcnt, linkvars>> /\ pc = "test"
        /\ pc' = IF link_pre # link_now THEN "copy" ELSE "input"
    BY <1>2 DEF Test, rxvars, linevars
  <2>2. Announced(1)' = Announced(1)
    BY <2>1 DEF Announced
  <2>3. flaps = 0 => LinkTurns' /\ Tokens'
    BY <2>1, <2>2 DEF FrameInv, LinkTurns, Tokens, linkvars
  <2> QED BY <2>1, <2>3 DEF FrameInv
<1>3. CASE LinkCopy
  <2>1. /\ UNCHANGED <<ract, rx_read, irq, left, flaps, semcnt, link_now, state>>
        /\ pc = "copy" /\ pc' = "link" /\ link_pre' = link_now
    BY <1>3 DEF LinkCopy, rxvars, linevars
  <2>2. Announced(1)' = Announced(1)
    BY <2>1 DEF Announced
  <2>3. flaps = 0 => LinkTurns' /\ Tokens'
    BY <2>1, <2>2 DEF FrameInv, LinkTurns, Tokens
  <2> QED BY <2>1, <2>3 DEF FrameInv
<1>4. CASE LinkRead
  <2>1. flaps' = flaps /\ pc' = "store" /\ flaps # 0
    BY <1>4 DEF LinkRead, linevars, FrameInv, LinkTurns
  <2> QED BY <2>1 DEF FrameInv
<1>5. CASE LinkStore
  <2>1. flaps' = flaps /\ pc' = "after" /\ flaps # 0
    BY <1>5 DEF LinkStore, linevars, FrameInv, LinkTurns
  <2> QED BY <2>1 DEF FrameInv
<1>6. CASE LinkInit
  <2>1. /\ UNCHANGED <<ract, rx_read, irq, left, flaps, semcnt, link_now, link_pre>>
        /\ pc = "link" /\ pc' = "after" /\ state # "NEGOTIATED"
    BY <1>6 DEF LinkInit, rxvars, linevars
  <2>2. Announced(1)' = Announced(1)
    BY <2>1 DEF Announced
  <2>3. link_pre' = link_pre /\ link_now' = link_now /\ state' \in {"LINKE_WAIT", "LINKED", "NEGOTIATED"}
    BY <1>6 DEF LinkInit, phy_initialize
  <2>4. flaps = 0 => LinkTurns'
    BY <2>1, <2>3 DEF FrameInv, LinkTurns
  <2>5. flaps = 0 => Tokens'
    BY <2>1, <2>2 DEF FrameInv, Tokens
  <2> QED BY <2>1, <2>4, <2>5 DEF FrameInv
<1>7. CASE LinkDone
  <2>1. /\ UNCHANGED <<ract, rx_read, irq, flaps, link_now, state>>
        /\ pc = "after" /\ pc' = "wai" /\ left' = "link"
    BY <1>7 DEF LinkDone, linevars
  <2>2. CASE state = "NEGOTIATED"
    <3>1. UNCHANGED <<link_pre, semcnt>>
      BY <1>7, <2>2 DEF LinkDone
    <3>2. Announced(1)' = Announced(1)
      BY <2>1, <3>1 DEF Announced
    <3>3. flaps = 0 => LinkTurns' /\ Tokens'
      BY <2>1, <2>2, <3>1, <3>2 DEF FrameInv, LinkTurns, Tokens
    <3> QED BY <2>1, <3>3 DEF FrameInv
  <2>3. CASE state # "NEGOTIATED"
    <3>1. link_pre' = 1 - link_now /\ semcnt' = Signalled(1)
      BY <1>7, <2>3 DEF LinkDone
    <3>2. semcnt' \in 0 .. N /\ semcnt' >= 1 /\ (semcnt' > semcnt \/ semcnt' = N)
      BY <1>t, <3>1, SignalledFacts
    <3>3. Announced(1) => Announced(2)'
      BY <1>t, <2>1, <3>2 DEF Announced
    <3>4. flaps = 0 => link_pre' = 0
      <4>1. flaps = 0 => link_now = 1
        BY DEF FrameInv, LinkTurns
      <4> QED BY <3>1, <4>1
    <3>5. flaps = 0 => LinkTurns'
      BY <2>1, <2>3, <3>4 DEF FrameInv, LinkTurns
    <3>6. flaps = 0 => Tokens'
      BY <2>1, <2>3, <3>2, <3>3 DEF FrameInv, Tokens
    <3> QED BY <2>1, <3>5, <3>6 DEF FrameInv
  <2> QED BY <2>2, <2>3
<1> QED BY <1>1, <1>2, <1>3, <1>4, <1>5, <1>6, <1>7

(* Frames that come and go. *)
LEMMA FrameInvRing ==
    ASSUME TypeOK, FrameInv,
           \/ Arrive \/ EdmacStore \/ EdmacRxLook \/ EdmacRxStop
           \/ NoFrame \/ NoPbuf \/ Recycle \/ Restart \/ RestartTest \/ RestartWrite
    PROVE  FrameInv'
<1>1. CASE Arrive \/ EdmacRxLook \/ EdmacRxStop
  <2>1. /\ UNCHANGED <<ract, rx_read, left, flaps, semcnt, pc, linkvars>>
        /\ irq' = irq \/ irq' = irq \cup {"FROF_RDE"}
    BY <1>1 DEF Arrive, EdmacRxLook, EdmacRxStop, linevars
  <2>2. Announced(1)' = Announced(1) /\ Announced(2)' = Announced(2)
    BY <2>1 DEF Announced
  <2>a. UNCHANGED <<link_pre, link_now, state>>
    BY <2>1 DEF linkvars
  <2>l. "LCHNG" \notin irq => "LCHNG" \notin irq'
    BY <2>1
  <2>p. pc' = pc
    BY <2>1
  <2>b. flaps = 0 => LinkTurns'
    BY <2>a, <2>l, <2>p DEF FrameInv, LinkTurns
  <2>c. flaps = 0 => Tokens'
    BY <2>1, <2>2, <2>a DEF FrameInv, Tokens
  <2>3. flaps = 0 => LinkTurns' /\ Tokens'
    BY <2>b, <2>c
  <2> QED BY <2>1, <2>2, <2>3 DEF FrameInv
<1>2. CASE EdmacStore
  <2>1. /\ UNCHANGED <<rx_read, left, flaps, semcnt, pc, linkvars>>
        /\ irq' = irq \cup {"FR"}
    BY <1>2 DEF EdmacStore, linevars
  <2>2. Announced(1)' /\ Announced(2)'
    BY <2>1 DEF Announced
  <2>3. flaps = 0 => LinkTurns' /\ Tokens'
    BY <2>1, <2>2 DEF FrameInv, LinkTurns, Tokens, linkvars
  <2> QED BY <2>1, <2>2, <2>3 DEF FrameInv
<1>3. CASE NoFrame \/ NoPbuf
  <2>1. /\ UNCHANGED <<ract, rx_read, irq, flaps, semcnt, linkvars>>
        /\ pc = "input" /\ pc' = "wai" /\ left' \in {"", "pbuf", "empty"}
        /\ left' = "" => ract[rx_read] = 1
    BY <1>3 DEF NoFrame, NoPbuf, linevars
  <2>2. left' = "" => Announced(1)'
    <3>1. ASSUME left' = "" PROVE Announced(1)'
      <4>1. ract'[rx_read'] = 1
        BY <2>1, <3>1
      <4> QED BY <4>1 DEF Announced
    <3> QED BY <3>1
  <2>3. flaps = 0 => LinkTurns' /\ Tokens'
    BY <2>1, <2>2 DEF FrameInv, LinkTurns, Tokens, linkvars
  <2> QED BY <2>1, <2>2, <2>3 DEF FrameInv
<1>4. CASE Recycle \/ Restart \/ RestartTest \/ RestartWrite
  <2>1. /\ UNCHANGED <<irq, flaps, semcnt, linkvars>>
        /\ pc \in {"input", "restart", "start"} /\ pc' \in {"input", "restart", "start"}
    BY <1>4 DEF Recycle, Restart, RestartTest, RestartWrite, HandOver, linevars
  <2>2. flaps = 0 => LinkTurns' /\ Tokens'
    BY <2>1 DEF FrameInv, LinkTurns, Tokens, linkvars
  <2> QED BY <2>1, <2>2 DEF FrameInv
<1> QED BY <1>1, <1>2, <1>3, <1>4

LEMMA FrameInvStep ==
    ASSUME TypeOK, FrameInv, N >= 2, [Next]_vars PROVE FrameInv'
<1>1. CASE TxStep
  <2>1. /\ UNCHANGED <<ract, rx_read, left, flaps, semcnt, pc, linkvars>>
        /\ irq' = irq \/ irq' = irq \cup {"TC"}
    BY <1>1 DEF TxStep, EdmacSend, EdmacTxLook, EdmacTxStop, Output, OutputFill, OutputTest, OutputStart, rxvars, linevars
  <2>2. Announced(1)' = Announced(1) /\ Announced(2)' = Announced(2)
    BY <2>1 DEF Announced
  <2>a. UNCHANGED <<link_pre, link_now, state>>
    BY <2>1 DEF linkvars
  <2>l. "LCHNG" \notin irq => "LCHNG" \notin irq'
    BY <2>1
  <2>p. pc' = pc
    BY <2>1
  <2>b. flaps = 0 => LinkTurns'
    BY <2>a, <2>l, <2>p DEF FrameInv, LinkTurns
  <2>c. flaps = 0 => Tokens'
    BY <2>1, <2>2, <2>a DEF FrameInv, Tokens
  <2>3. flaps = 0 => LinkTurns' /\ Tokens'
    BY <2>b, <2>c
  <2> QED BY <2>1, <2>2, <2>3 DEF FrameInv
<1>2. CASE Negotiated \/ UNCHANGED vars
  <2>1. UNCHANGED <<ract, rx_read, left, flaps, semcnt, pc, linkvars, irq>>
    BY <1>2 DEF Negotiated, rxvars, linevars, vars
  <2>2. Announced(1)' = Announced(1) /\ Announced(2)' = Announced(2)
    BY <2>1 DEF Announced
  <2>3. flaps = 0 => LinkTurns' /\ Tokens'
    BY <2>1, <2>2 DEF FrameInv, LinkTurns, Tokens, linkvars
  <2> QED BY <2>1, <2>2, <2>3 DEF FrameInv
<1>3. CASE CableChange
  <2>1. /\ UNCHANGED <<ract, rx_read, left, semcnt, pc>> /\ flaps' = flaps + 1
        /\ irq' = irq \cup {"LCHNG"} /\ flaps \in Nat
    BY <1>3 DEF CableChange, rxvars, TypeOK, LinkType
  <2>2. Announced(1)' = Announced(1) /\ flaps' # 0
    BY <2>1 DEF Announced
  <2> QED BY <2>1, <2>2 DEF FrameInv
<1> QED BY <1>1, <1>2, <1>3, NextSteps, FrameInvHandler, FrameInvTask, FrameInvRing
        DEF RxStep, LinkStep, LineStep

(* No frame is forgotten in the ring: with two receive buffers or more the *)
(* semaphore keeps a token for every frame the task did not look at, up to *)
(* the first change of the cable, whatever the interrupts and the turns    *)
(* for the link; and at any time when the task's last turn looked at the   *)
(* ring in vain.                                                           *)
THEOREM ForgottenSafety ==
    ASSUME NUM_IF_RX65N_RXBUF >= 2 PROVE Spec => []NoForgottenFrame
<1>1. Init => FrameInv
  BY FrameInvInit
<1>2. TypeOK /\ FrameInv /\ [Next]_vars => FrameInv'
  BY FrameInvStep DEF N
<1>3. TypeOK /\ FrameInv => NoForgottenFrame
  <2> SUFFICES ASSUME TypeOK, FrameInv, Forgotten
               PROVE  left \in {"pbuf", "empty"} \/ (left = "link" /\ flaps > 0)
    BY DEF NoForgottenFrame
  <2>1. left \in {"", "link", "pbuf", "empty"}
    BY DEF TypeOK, RxType
  <2>2. ~Announced(1) /\ semcnt = 0 /\ pc = "wai"
    BY DEF Forgotten, Announced, Enabled
  <2>3. left # ""
    BY <2>2 DEF FrameInv
  <2>4. left = "link" => flaps # 0
    BY <2>2 DEF FrameInv, Tokens
  <2>5. flaps # 0 => flaps > 0
    BY DEF TypeOK, LinkType
  <2> QED BY <2>1, <2>3, <2>4, <2>5
<1> QED BY <1>1, <1>2, <1>3, Typing, PTL DEF Spec
-------------------------------------------------------------------------------
(* A ring of n slots: how far slot i is from slot a, and the slot at a     *)
(* distance.                                                               *)
After(n, a) == IF a + 1 = n THEN 0 ELSE a + 1

LEMMA RingFacts ==
    ASSUME NEW n \in Nat \ {0}, NEW a \in 0 .. n - 1
    PROVE  /\ After(n, a) \in 0 .. n - 1
           /\ Offset(n, a, a) = 0
           /\ \A i \in 0 .. n - 1 : Offset(n, a, i) \in 0 .. n - 1
           /\ \A i \in 0 .. n - 1 : Offset(n, a, i) = 0 => i = a
           /\ \A k \in 0 .. n : Slot(n, a, k) \in 0 .. n - 1
           /\ \A k \in 0 .. n - 1 : Offset(n, a, Slot(n, a, k)) = k
           /\ Slot(n, a, n) = a /\ Slot(n, a, 0) = a
  BY DEF After, Offset, Slot

LEMMA RingSlots ==
    ASSUME NEW n \in Nat \ {0}, NEW a \in 0 .. n - 1
    PROVE  /\ \A i \in 0 .. n - 1 : Slot(n, a, Offset(n, a, i)) = i
           /\ \A k \in 0 .. n - 1 : After(n, Slot(n, a, k)) = Slot(n, a, k + 1)
           /\ \A k \in 0 .. n - 1 : Slot(n, After(n, a), k) = Slot(n, a, k + 1)
  BY DEF After, Offset, Slot

LEMMA RingMoves ==
    ASSUME NEW n \in Nat \ {0}, NEW a \in 0 .. n - 1, NEW i \in 0 .. n - 1
    PROVE  /\ i = a => Offset(n, After(n, a), i) = n - 1
           /\ i # a => Offset(n, After(n, a), i) = Offset(n, a, i) - 1
  BY DEF After, Offset, Slot
-------------------------------------------------------------------------------
(* The transmit ring: the EDMAC's position, the frames behind it.          *)
Queued == out - sent - (IF opc = "fill" THEN 1 ELSE 0)

(* It is about to stop only while it runs, and never beside a frame unless *)
(* the sender will start it or has just missed that it stops.              *)
TxStops ==
    /\ tstop = 1 => tr = 1
    /\ opc = "start" => tr = 0
    /\ (\E i \in TxDesc : tact[i] = 1) =>
          (tr = 1 /\ tstop # 1) \/ opc \in {"test", "start"} \/ tmissed = 1

TxInv ==
    /\ Queued \in 0 .. M
    /\ tx_write = Slot(M, tdpos, Queued)
    /\ \A i \in 0 .. M - 1 : tact[i] = 1 <=> Offset(M, tdpos, i) < Queued
    /\ \A i \in 0 .. M - 1 : tact[i] = 1 => tx_buff[i] = sent + 1 + Offset(M, tdpos, i)
    /\ TxStops

LEMMA TxTypes ==
    ASSUME TypeOK
    PROVE  /\ M \in Nat \ {0} /\ TxDesc = 0 .. M - 1
           /\ tdpos \in 0 .. M - 1 /\ tx_write \in 0 .. M - 1
           /\ out \in Nat /\ sent \in Nat
           /\ tact \in [0 .. M - 1 -> {0, 1}] /\ tx_buff \in [0 .. M - 1 -> Nat]
  BY DEF TypeOK, TxType, TxDesc, M, BIT

LEMMA TxInvInit == ASSUME Init PROVE TxInv
<1>1. M \in Nat \ {0} /\ 0 \in 0 .. M - 1
  BY DEF M
<1>2. /\ out = 0 /\ sent = 0 /\ opc = "idle" /\ tdpos = 0 /\ tx_write = 0
      /\ tact = [i \in 0 .. M - 1 |-> 0]
  BY DEF Init, TxDesc, M
<1>3. Queued = 0
  BY <1>2 DEF Queued
<1>4. \A i \in 0 .. M - 1 : tact[i] = 0 /\ Offset(M, tdpos, i) \in 0 .. M - 1
  BY <1>1, <1>2, RingFacts
<1>5. Slot(M, tdpos, 0) = 0
  BY <1>1, <1>2, RingFacts
<1>6. TxStops
  <2>1. tstop = 0 /\ opc = "idle"
    BY DEF Init
  <2> QED BY <1>4, <2>1 DEF TxStops, TxDesc, M
<1> HIDE DEF Queued
<1>7. \A i \in 0 .. M - 1 : tact[i] = 1 <=> Offset(M, tdpos, i) < Queued
  BY <1>3, <1>4
<1>8. Queued \in 0 .. M
  BY <1>1, <1>3
<1> QED BY <1>2, <1>3, <1>4, <1>5, <1>6, <1>7, <1>8 DEF TxInv

(* The EDMAC sends the frame that is next, and finds no active descriptor  *)
(* only when no frame is queued.                                           *)
LEMMA TxInvSend ==
    ASSUME TypeOK, TxInv, EdmacSend
    PROVE  TxInv' /\ sent' = sent + 1
<1> DEFINE q == Queued
<1>1. /\ M \in Nat \ {0} /\ tdpos \in 0 .. M - 1 /\ out \in Nat /\ sent \in Nat
      /\ tact \in [0 .. M - 1 -> {0, 1}]
  BY TxTypes
<1>2. /\ tact[tdpos] = 1 /\ tr = 1 /\ tr' = tr /\ tstop = 0 /\ tstop' = tstop
      /\ sent' = tx_buff[tdpos] /\ tact' = [tact EXCEPT ![tdpos] = 0]
      /\ tdpos' = After(M, tdpos)
      /\ UNCHANGED <<tx_buff, tx_write, opc, out>>
  BY DEF EdmacSend, TxNext, After, M
<1>3. /\ q \in 0 .. M /\ tx_write = Slot(M, tdpos, q)
      /\ \A i \in 0 .. M - 1 : tact[i] = 1 <=> Offset(M, tdpos, i) < q
      /\ \A i \in 0 .. M - 1 : tact[i] = 1 => tx_buff[i] = sent + 1 + Offset(M, tdpos, i)
  BY DEF TxInv
<1>4. Offset(M, tdpos, tdpos) = 0 /\ After(M, tdpos) \in 0 .. M - 1
  BY <1>1, RingFacts
<1>5. q >= 1 /\ sent' = sent + 1
  BY <1>1, <1>2, <1>3, <1>4
<1>6. Queued' = q - 1
  BY <1>1, <1>2, <1>5 DEF Queued
<1>7. tx_write' = Slot(M, tdpos', q - 1)
  <2>1. q - 1 \in 0 .. M - 1 /\ (q - 1) + 1 = q
    BY <1>1, <1>3, <1>5
  <2>2. Slot(M, After(M, tdpos), q - 1) = Slot(M, tdpos, q)
    BY <1>1, <2>1, RingSlots
  <2> QED BY <1>2, <1>3, <2>2
<1>8. ASSUME NEW i \in 0 .. M - 1
      PROVE  /\ tact'[i] = 1 <=> Offset(M, tdpos', i) < q - 1
             /\ tact'[i] = 1 => tx_buff'[i] = sent' + 1 + Offset(M, tdpos', i)
  <2>1. Offset(M, tdpos, i) \in 0 .. M - 1 /\ (Offset(M, tdpos, i) = 0 => i = tdpos)
    BY <1>1, RingFacts
  <2>2. CASE i = tdpos
    <3>1. Offset(M, tdpos', i) = M - 1 /\ tact'[i] = 0
      BY <1>1, <1>2, <2>2, RingMoves
    <3> QED BY <1>1, <1>3, <3>1
  <2>3. CASE i # tdpos
    <3>1. Offset(M, tdpos', i) = Offset(M, tdpos, i) - 1
      BY <1>1, <1>2, <2>3, RingMoves
    <3>2. tact'[i] = tact[i] /\ tx_buff'[i] = tx_buff[i]
      BY <1>1, <1>2, <2>3
    <3> DEFINE o == Offset(M, tdpos, i)
    <3>3. /\ tact[i] = 1 <=> o < q
          /\ tact[i] = 1 => tx_buff[i] = sent + 1 + o
      BY <1>3
    <3> HIDE DEF o, q
    <3>4. o \in Nat /\ Offset(M, tdpos', i) = o - 1
      BY <2>1, <3>1 DEF o
    <3> QED BY <1>1, <1>3, <1>5, <3>2, <3>3, <3>4
  <2> QED BY <2>2, <2>3
<1>9. TxStops'
  BY <1>2 DEF TxInv, TxStops
<1>10. Queued' \in 0 .. M
  BY <1>1, <1>3, <1>5, <1>6
<1> HIDE DEF q
<1> QED BY <1>5, <1>6, <1>7, <1>8, <1>9, <1>10 DEF TxInv

(* The driver queues a frame behind the last. *)
LEMMA TxInvFill ==
    ASSUME TypeOK, TxInv, OutputFill PROVE TxInv'
<1> DEFINE q == Queued
<1>1. /\ M \in Nat \ {0} /\ tdpos \in 0 .. M - 1 /\ out \in Nat /\ sent \in Nat
      /\ tx_write \in 0 .. M - 1
      /\ tact \in [0 .. M - 1 -> {0, 1}] /\ tx_buff \in [0 .. M - 1 -> Nat]
  BY TxTypes
<1>2. /\ opc = "fill" /\ opc' = "test" /\ tact[tx_write] = 0
      /\ tx_buff' = [tx_buff EXCEPT ![tx_write] = out]
      /\ tact' = [tact EXCEPT ![tx_write] = 1]
      /\ tx_write' = After(M, tx_write)
      /\ UNCHANGED <<tr, tdpos, tstop, out, sent>>
  BY DEF OutputFill, TxNext, After, M
<1>3. /\ q \in 0 .. M /\ tx_write = Slot(M, tdpos, q)
      /\ \A i \in 0 .. M - 1 : tact[i] = 1 <=> Offset(M, tdpos, i) < q
      /\ \A i \in 0 .. M - 1 : tact[i] = 1 => tx_buff[i] = sent + 1 + Offset(M, tdpos, i)
  BY DEF TxInv
<1>4. q < M /\ Offset(M, tdpos, tx_write) = q
  <2>1. CASE q = M
    <3>1. tx_write = tdpos /\ Offset(M, tdpos, tdpos) = 0
      BY <1>1, <1>3, <2>1, RingFacts
    <3>2. tact[tx_write] = 1
      BY <1>1, <1>3, <2>1, <3>1
    <3> QED BY <1>2, <3>2
  <2>2. CASE q # M
    <3>1. q \in 0 .. M - 1
      BY <1>1, <1>3, <2>2
    <3>2. Offset(M, tdpos, Slot(M, tdpos, q)) = q
      BY <1>1, <3>1, RingFacts
    <3> QED BY <1>1, <1>3, <3>1, <3>2
  <2> QED BY <2>1, <2>2
<1>5. out = sent + q + 1
  BY <1>1, <1>2 DEF Queued
<1>6. Queued' = q + 1
  BY <1>1, <1>2, <1>5 DEF Queued
<1>7. tx_write' = Slot(M, tdpos', q + 1)
  <2>1. q \in 0 .. M - 1
    BY <1>1, <1>3, <1>4
  <2>2. After(M, Slot(M, tdpos, q)) = Slot(M, tdpos, q + 1)
    BY <1>1, <2>1, RingSlots
  <2> QED BY <1>2, <1>3, <2>2
<1>8. ASSUME NEW i \in 0 .. M - 1
      PROVE  /\ tact'[i] = 1 <=> Offset(M, tdpos', i) < q + 1
             /\ tact'[i] = 1 => tx_buff'[i] = sent' + 1 + Offset(M, tdpos', i)
  <2>1. Offset(M, tdpos, i) \in 0 .. M - 1
    BY <1>1, RingFacts
  <2>2. CASE i = tx_write
    <3>1. tact'[i] = 1 /\ tx_buff'[i] = out /\ Offset(M, tdpos', i) = q
      BY <1>1, <1>2, <1>4, <2>2
    <3>2. q \in Nat
      BY <1>1, <1>3
    <3> HIDE DEF q
    <3> QED BY <1>1, <1>2, <1>5, <3>1, <3>2
  <2>3. CASE i # tx_write
    <3>1. tact'[i] = tact[i] /\ tx_buff'[i] = tx_buff[i]
      BY <1>1, <1>2, <2>3
    <3>2. Offset(M, tdpos, i) # q
      <4>1. Slot(M, tdpos, Offset(M, tdpos, i)) = i
        BY <1>1, RingSlots
      <4> QED BY <1>3, <2>3, <4>1
    <3> DEFINE o == Offset(M, tdpos, i)
    <3>3. /\ tact[i] = 1 <=> o < q
          /\ tact[i] = 1 => tx_buff[i] = sent + 1 + o
      BY <1>3
    <3>4. o \in Nat /\ Offset(M, tdpos', i) = o /\ o # q
      BY <1>2, <2>1, <3>2
    <3> HIDE DEF o, q
    <3> QED BY <1>1, <1>2, <1>3, <3>1, <3>3, <3>4
  <2> QED BY <2>2, <2>3
<1>9. TxStops'
  BY <1>2 DEF TxInv, TxStops
<1>10. Queued' \in 0 .. M
  BY <1>1, <1>3, <1>4, <1>6
<1> HIDE DEF q
<1> QED BY <1>6, <1>7, <1>8, <1>9, <1>10 DEF TxInv

LEMMA TxInvStep ==
    ASSUME TypeOK, TxInv, [Next]_vars
    PROVE  TxInv' /\ (sent' # sent => sent' = sent + 1)
<1>1. CASE EdmacSend
  BY <1>1, TxInvSend
<1>2. CASE OutputFill
  BY <1>2, TxInvFill DEF OutputFill
<1>t. /\ M \in Nat \ {0} /\ TxDesc = 0 .. M - 1 /\ tdpos \in 0 .. M - 1
      /\ out \in Nat /\ sent \in Nat
  BY TxTypes
<1>3. CASE EdmacTxLook
  <2>1. /\ UNCHANGED <<tact, tx_buff, tx_write, tdpos, opc, out, sent, tr>>
        /\ tact[tdpos] = 0 /\ tr = 1
    BY <1>3 DEF EdmacTxLook
  <2>2. Queued' = Queued
    BY <2>1 DEF Queued
  <2>3. \A i \in TxDesc : tact[i] # 1
    <3>1. Offset(M, tdpos, tdpos) = 0
      BY <1>t, RingFacts
    <3>2. Queued = 0
      <4>1. Queued \in 0 .. M /\ ~(Offset(M, tdpos, tdpos) < Queued)
        BY <1>t, <2>1 DEF TxInv
      <4> HIDE DEF Queued
      <4> QED BY <1>t, <3>1, <4>1
    <3>3. ASSUME NEW i \in 0 .. M - 1 PROVE tact[i] # 1
      <4>1. Offset(M, tdpos, i) \in 0 .. M - 1
        BY <1>t, RingFacts
      <4>2. ~(Offset(M, tdpos, i) < 0)
        BY <1>t, <4>1
      <4> QED BY <3>2, <4>2 DEF TxInv
    <3> QED BY <1>t, <3>3
  <2>4. TxStops'
    BY <2>1, <2>3 DEF TxInv, TxStops
  <2> HIDE DEF Queued
  <2> QED BY <2>1, <2>2, <2>4 DEF TxInv
<1>4. CASE Output
  <2>1. /\ UNCHANGED <<tact, tx_buff, tx_write, tr, tdpos, tstop, tmissed, sent>>
        /\ opc = "idle" /\ opc' = "fill" /\ out' = out + 1
    BY <1>4 DEF Output
  <2>2. Queued' = Queued
    BY <1>t, <2>1 DEF Queued
  <2>3. TxStops'
    BY <2>1 DEF TxInv, TxStops
  <2> HIDE DEF Queued
  <2> QED BY <2>1, <2>2, <2>3 DEF TxInv
<1>5. CASE EdmacTxStop \/ OutputTest \/ OutputStart
  <2>1. /\ UNCHANGED <<tact, tx_buff, tx_write, tdpos, out, sent>>
        /\ opc = "fill" <=> opc' = "fill"
    BY <1>5 DEF EdmacTxStop, OutputTest, OutputStart
  <2>2. Queued' = Queued
    BY <1>t, <2>1 DEF Queued
  <2>3. TxStops'
    <3>t. tr \in {0, 1} /\ tstop \in {0, 1}
      BY DEF TypeOK, TxType, BIT
    <3>1. CASE EdmacTxStop
      BY <3>1 DEF EdmacTxStop, TxInv, TxStops
    <3>2. CASE OutputTest
      BY <3>t, <3>2 DEF OutputTest, TxInv, TxStops
    <3>3. CASE OutputStart
      BY <3>t, <3>3 DEF OutputStart, TxInv, TxStops
    <3> QED BY <1>5, <3>1, <3>2, <3>3
  <2> HIDE DEF Queued
  <2> QED BY <2>1, <2>2, <2>3 DEF TxInv
<1>6. CASE UNCHANGED txvars
  <2>1. UNCHANGED <<tact, tx_buff, tx_write, tr, tdpos, tstop, tmissed, opc, out, sent>>
    BY <1>6 DEF txvars
  <2> QED BY <2>1 DEF TxInv, Queued, TxStops
<1> QED BY <1>1, <1>2, <1>3, <1>4, <1>5, <1>6, TxUntouched DEF TxStep

(* The EDMAC runs as long as the transmit ring holds a frame, or the       *)
(* sender is about to start it, for every size of the ring: the active     *)
(* descriptors follow the EDMAC's position without a gap, so it stops only *)
(* when there is none.                                                     *)
THEOREM TransmitSafety == Spec => []TransmitterRuns
<1>1. Init => TxInv
  BY TxInvInit
<1>2. TypeOK /\ TxInv /\ [Next]_vars => TxInv'
  BY TxInvStep
<1>3. TxInv => TransmitterRuns
  BY DEF TxInv, TxStops, TransmitterRuns
<1> QED BY <1>1, <1>2, <1>3, Typing, PTL DEF Spec

(* Frames are transmitted once each and in the order of the calls of       *)
(* low_level_output: the n-th active descriptor holds the n-th frame that  *)
(* is not sent yet.                                                        *)
THEOREM SentSafety == Spec => SentInOrder
<1>1. Init => TxInv
  BY TxInvInit
<1>2. TypeOK /\ TxInv /\ [Next]_vars => TxInv'
  BY TxInvStep
<1>3. TypeOK /\ TxInv /\ [Next]_vars => [sent' # sent => sent' = sent + 1]_vars
  BY TxInvStep
<1> QED BY <1>1, <1>2, <1>3, Typing, PTL DEF Spec, SentInOrder
-------------------------------------------------------------------------------
(* Sequences of frames. *)
LEMMA OneFrame ==
    ASSUME NEW e \in Nat
    PROVE  <<e>> \in Seq(Nat) /\ Len(<<e>>) = 1 /\ <<e>>[1] = e
  OBVIOUS

LEMMA HeadThenTail ==
    ASSUME NEW s \in Seq(Nat), s # <<>>
    PROVE  Head(s) \in Nat /\ Tail(s) \in Seq(Nat) /\ s = <<Head(s)>> \o Tail(s)
<1>1. /\ Head(s) \in Nat /\ Tail(s) \in Seq(Nat) /\ Len(Tail(s)) = Len(s) - 1
      /\ \A i \in 1 .. Len(Tail(s)) : Tail(s)[i] = s[i + 1]
  BY HeadTailProperties
<1>2. Head(s) = s[1] /\ Len(s) \in Nat \ {0}
  BY EmptySeq
<1> DEFINE h == <<Head(s)>>
<1>3. h \in Seq(Nat) /\ Len(h) = 1 /\ h[1] = s[1]
  BY <1>1, <1>2, OneFrame
<1> HIDE DEF h
<1>4. /\ h \o Tail(s) \in Seq(Nat) /\ Len(h \o Tail(s)) = Len(h) + Len(Tail(s))
      /\ \A i \in 1 .. Len(h) + Len(Tail(s)) :
            (h \o Tail(s))[i] = IF i <= Len(h) THEN h[i] ELSE Tail(s)[i - Len(h)]
  BY <1>1, <1>3, ConcatProperties
<1>5. Len(h \o Tail(s)) = Len(s)
  BY <1>1, <1>2, <1>3, <1>4
<1>6. ASSUME NEW i \in 1 .. Len(s) PROVE s[i] = (h \o Tail(s))[i]
  <2>1. CASE i = 1
    BY <1>1, <1>2, <1>3, <1>4, <2>1
  <2>2. CASE i # 1
    <3>1. i - 1 \in 1 .. Len(Tail(s)) /\ (i - 1) + 1 = i
      BY <1>1, <1>2, <2>2
    <3>2. (h \o Tail(s))[i] = Tail(s)[i - 1]
      BY <1>1, <1>2, <1>3, <1>4, <2>2, SMTT(30)
    <3>3. Tail(s)[i - 1] = s[i]
      BY <1>1, <3>1
    <3> QED BY <3>2, <3>3
  <2> QED BY <2>1, <2>2
<1>7. s = h \o Tail(s)
  BY <1>4, <1>5, <1>6, SeqEqual
<1> QED BY <1>1, <1>7 DEF h

LEMMA JoinsTwice == \A x, y, z \in Seq(Nat) : (x \o y) \o z = x \o (y \o z)
  BY ConcatAssociative, SMTT(60)

(* The first frame of f goes from f to r. *)
LEMMA Passed ==
    ASSUME NEW p \in Seq(Nat), NEW r \in Seq(Nat), NEW h \in Seq(Nat), NEW t \in Seq(Nat)
    PROVE  (p \o (r \o h)) \o t = (p \o r) \o (h \o t)
<1>1. p \o r \in Seq(Nat)
  BY ConcatProperties
<1>2. (p \o r) \o h = p \o (r \o h)
  BY JoinsTwice, ZenonT(60)
<1>3. ((p \o r) \o h) \o t = (p \o r) \o (h \o t)
  BY <1>1, JoinsTwice, ZenonT(60)
<1> QED BY <1>2, <1>3, Zenon

(* The frame at the head of the FIFO goes to the ring. *)
LEMMA HeadPassed ==
    ASSUME NEW p \in Seq(Nat), NEW r \in Seq(Nat), NEW f \in Seq(Nat), f # <<>>
    PROVE  (p \o Append(r, Head(f))) \o Tail(f) = (p \o r) \o f
<1>1. Head(f) \in Nat /\ Tail(f) \in Seq(Nat)
  BY HeadThenTail
<1>2. f = <<Head(f)>> \o Tail(f)
  BY HeadThenTail
<1>3. <<Head(f)>> \in Seq(Nat)
  BY <1>1, OneFrame
<1>4. Append(r, Head(f)) = r \o <<Head(f)>>
  BY <1>1, AppendIsConcat
<1>5. \A h, t \in Seq(Nat) : (p \o (r \o h)) \o t = (p \o r) \o (h \o t)
  BY Passed
<1>6. (p \o (r \o <<Head(f)>>)) \o Tail(f) = (p \o r) \o (<<Head(f)>> \o Tail(f))
  BY <1>1, <1>3, <1>5, Zenon
<1> QED BY <1>2, <1>4, <1>6

(* The frames held: one on its way, the ring, the FIFO. *)
LEMMA Joined ==
    ASSUME NEW p \in Seq(Nat), NEW r \in Seq(Nat), NEW f \in Seq(Nat)
    PROVE  /\ (p \o r) \o f \in Seq(Nat) /\ Len((p \o r) \o f) >= Len(f)
           /\ Len(f) \in Nat
<1>1. p \o r \in Seq(Nat) /\ (p \o r) \o f \in Seq(Nat)
  BY ConcatProperties
<1>2. /\ Len((p \o r) \o f) = Len(p \o r) + Len(f)
      /\ Len(p \o r) \in Nat /\ Len(f) \in Nat
  BY <1>1, LenProperties, ConcatProperties
<1> QED BY <1>1, <1>2

LEMMA FifoGrows ==
    ASSUME NEW p \in Seq(Nat), NEW r \in Seq(Nat), NEW f \in Seq(Nat), NEW e \in Nat
    PROVE  (p \o r) \o Append(f, e) = Append((p \o r) \o f, e)
<1> DEFINE q == p \o r
           u == <<e>>
<1>1. q \in Seq(Nat)
  BY ConcatProperties
<1>2. u \in Seq(Nat)
  BY OneFrame
<1>3. Append(f, e) = f \o u
  BY AppendIsConcat
<1>4. Append(q \o f, e) = (q \o f) \o u
  <2>1. q \o f \in Seq(Nat)
    BY <1>1, ConcatProperties
  <2> HIDE DEF q
  <2> QED BY <2>1, AppendIsConcat
<1> HIDE DEF q, u
<1>5. \A z \in Seq(Nat) : (q \o f) \o z = q \o (f \o z)
  BY <1>1, JoinsTwice, ZenonT(60)
<1>6. (q \o f) \o u = q \o (f \o u)
  BY <1>2, <1>5, Zenon
<1>7. q \o Append(f, e) = Append(q \o f, e)
  BY <1>3, <1>4, <1>6, Zenon
<1> QED BY <1>7 DEF q

LEMMA FirstHanded ==
    ASSUME NEW e \in Nat, NEW r \in Seq(Nat), NEW f \in Seq(Nat)
    PROVE  /\ Head((<<e>> \o r) \o f) = e
           /\ Tail((<<e>> \o r) \o f) = (<<>> \o r) \o f
           /\ (<<e>> \o r) \o f # <<>>
<1> DEFINE u == r \o f
           w == <<e>> \o u
<1>1. <<e>> \in Seq(Nat) /\ Len(<<e>>) = 1 /\ <<e>>[1] = e /\ u \in Seq(Nat)
  BY OneFrame, ConcatProperties
<1>2. (<<e>> \o r) \o f = w
  BY <1>1, JoinsTwice, ZenonT(60)
<1>3. (<<>> \o r) \o f = u
  BY ConcatEmptySeq
<1> HIDE DEF u
<1>4. /\ w \in Seq(Nat) /\ Len(w) = 1 + Len(u)
      /\ \A i \in 1 .. 1 + Len(u) : w[i] = IF i <= 1 THEN <<e>>[i] ELSE u[i - 1]
  BY <1>1, ConcatProperties
<1>5. Len(u) \in Nat
  BY <1>1, LenProperties
<1>6. w # <<>> /\ Head(w) = e
  <2>1. w[1] = e
    BY <1>1, <1>4, <1>5
  <2>2. w # <<>>
    BY <1>4, <1>5, EmptySeq
  <2> HIDE DEF w
  <2> QED BY <2>1, <2>2
<1> HIDE DEF w
<1>7. Tail(w) = u
  <2>1. /\ Tail(w) \in Seq(Nat) /\ Len(Tail(w)) = Len(u)
        /\ \A i \in 1 .. Len(Tail(w)) : Tail(w)[i] = w[i + 1]
    BY <1>4, <1>5, <1>6, HeadTailProperties
  <2>2. ASSUME NEW i \in 1 .. Len(u) PROVE Tail(w)[i] = u[i]
    <3>1. i + 1 \in 1 .. 1 + Len(u) /\ ~(i + 1 <= 1) /\ (i + 1) - 1 = i
      BY <1>5
    <3>2. w[i + 1] = u[i]
      BY <1>4, <3>1
    <3> QED BY <2>1, <3>2
  <2> QED BY <1>1, <2>1, <2>2, SeqEqual
<1> QED BY <1>2, <1>3, <1>6, <1>7
-------------------------------------------------------------------------------
(* The receive ring: the descriptors with a frame follow rx_read without a *)
(* gap, and the EDMAC's position is behind the last of them.               *)
RxStops ==
    /\ rstop = 1 => rr = 1
    /\ pc = "start" => rr = 0
    /\ rr = 0 \/ rstop = 1 =>
          ract[rx_read] = 0 \/ pc \in {"restart", "start"} \/ rmissed = 1

RxInv ==
    /\ \A i \in 0 .. N - 1 : ract[i] = 0 <=> Offset(N, rx_read, i) < Filled
    /\ RxStops

LEMMA RxTypes ==
    ASSUME TypeOK
    PROVE  /\ N \in Nat \ {0} /\ RxDesc = 0 .. N - 1
           /\ rx_read \in 0 .. N - 1 /\ rdpos \in 0 .. N - 1
           /\ ract \in [0 .. N - 1 -> {0, 1}] /\ rx_buff \in [0 .. N - 1 -> Nat]
  BY DEF TypeOK, RxType, RxDesc, N, BIT

(* What Filled says of the position of the EDMAC. *)
LEMMA FilledFacts ==
    ASSUME TypeOK
    PROVE  /\ Filled \in 0 .. N /\ rdpos = Slot(N, rx_read, Filled)
           /\ ract[rdpos] = 1 => Filled < N /\ Offset(N, rx_read, rdpos) = Filled
<1>t. N \in Nat \ {0} /\ rx_read \in 0 .. N - 1 /\ rdpos \in 0 .. N - 1
  BY RxTypes
<1> DEFINE o == Offset(N, rx_read, rdpos)
<1>1. o \in 0 .. N - 1 /\ Slot(N, rx_read, o) = rdpos
  BY <1>t, RingFacts, RingSlots
<1>2. Slot(N, rx_read, N) = rx_read
  BY <1>t, RingFacts
<1>3. CASE rx_read = rdpos /\ ract[rx_read] = 0
  <2>1. Filled = N
    BY <1>3 DEF Filled, N
  <2>2. ract[rdpos] # 1
    BY <1>3
  <2> QED BY <1>t, <1>2, <1>3, <2>1, <2>2
<1>4. CASE ~(rx_read = rdpos /\ ract[rx_read] = 0)
  <2>1. Filled = o
    BY <1>4 DEF Filled, N
  <2> HIDE DEF o
  <2>2. Filled \in 0 .. N /\ Filled < N
    BY <1>t, <1>1, <2>1
  <2> QED BY <1>1, <2>1, <2>2 DEF o
<1> QED BY <1>3, <1>4

(* The number of frames is what the position and the first descriptor say. *)
LEMMA FilledIs ==
    ASSUME NEW n \in Nat \ {0}, NEW a \in 0 .. n - 1, NEW d, NEW b, NEW q \in 0 .. n,
           d = Slot(n, a, q), b = 0 <=> 0 < q
    PROVE  q = IF a = d /\ b = 0 THEN n ELSE Offset(n, a, d)
<1>1. CASE q = n
  BY <1>1, RingFacts
<1>2. CASE q # n
  <2>1. q \in 0 .. n - 1 /\ Offset(n, a, d) = q
    BY <1>2, RingFacts
  <2>2. a = d => q = 0
    BY <2>1, RingFacts
  <2>3. ~(a = d /\ b = 0)
    BY <2>1, <2>2
  <2> QED BY <2>1, <2>3
<1> QED BY <1>1, <1>2

LEMMA RxInvInit == ASSUME Init PROVE RxInv
<1>0. N \in Nat \ {0} /\ 0 \in 0 .. N - 1
  BY DEF N
<1>a. rx_read = 0 /\ rdpos = 0 /\ rr = 1 /\ rstop = 0 /\ pc = "test" /\ ract = [i \in 0 .. N - 1 |-> 1]
  BY DEF Init, RxDesc, N
<1>1. /\ N \in Nat \ {0} /\ 0 \in 0 .. N - 1 /\ rx_read = 0 /\ rdpos = 0 /\ rr = 1
      /\ ract = [i \in 0 .. N - 1 |-> 1]
  BY <1>0, <1>a
<1>2. Filled = 0
  <2>1. ract[0] = 1 /\ Offset(N, 0, 0) = 0
    BY <1>1, RingFacts
  <2> QED BY <1>1, <2>1 DEF Filled, N
<1>3. \A i \in 0 .. N - 1 : ract[i] = 1 /\ Offset(N, rx_read, i) \in 0 .. N - 1
  BY <1>1, RingFacts
<1>4. RxStops
  BY <1>a DEF RxStops
<1> HIDE DEF Filled
<1> QED BY <1>2, <1>3, <1>4 DEF RxInv

LEMMA RxInvStore ==
    ASSUME TypeOK, RxInv, EdmacStore
    PROVE  /\ RxInv' /\ Filled' = Filled + 1 /\ Filled \in 0 .. N - 1
           /\ rdpos = Slot(N, rx_read, Filled)
<1>t. /\ N \in Nat \ {0} /\ rx_read \in 0 .. N - 1 /\ rdpos \in 0 .. N - 1
      /\ ract \in [0 .. N - 1 -> {0, 1}]
  BY RxTypes
<1> DEFINE q == Filled
<1>1. /\ ract[rdpos] = 1 /\ rr = 1 /\ rr' = rr /\ rstop = 0 /\ rstop' = rstop /\ pc' = pc
      /\ ract' = [ract EXCEPT ![rdpos] = 0] /\ rdpos' = After(N, rdpos)
      /\ rx_read' = rx_read
  BY DEF EdmacStore, RxNext, After, N
<1>2. q \in 0 .. N - 1 /\ rdpos = Slot(N, rx_read, q) /\ Offset(N, rx_read, rdpos) = q
  BY <1>t, <1>1, FilledFacts
<1>3. \A i \in 0 .. N - 1 : ract[i] = 0 <=> Offset(N, rx_read, i) < q
  BY DEF RxInv
<1>4. rdpos' = Slot(N, rx_read', q + 1) /\ q + 1 \in 0 .. N
  <2>1. After(N, Slot(N, rx_read, q)) = Slot(N, rx_read, q + 1)
    BY <1>t, <1>2, RingSlots
  <2> QED BY <1>t, <1>1, <1>2, <2>1
<1>5. ASSUME NEW i \in 0 .. N - 1 PROVE ract'[i] = 0 <=> Offset(N, rx_read', i) < q + 1
  <2>1. Offset(N, rx_read, i) \in 0 .. N - 1 /\ Slot(N, rx_read, Offset(N, rx_read, i)) = i
    BY <1>t, RingFacts, RingSlots
  <2>2. CASE i = rdpos
    BY <1>t, <1>1, <1>2, <2>2
  <2>3. CASE i # rdpos
    <3>1. Offset(N, rx_read, i) # q
      BY <1>2, <2>1, <2>3
    <3>2. ract'[i] = ract[i]
      BY <1>t, <1>1, <2>3
    <3> DEFINE o == Offset(N, rx_read, i)
    <3>3. o \in Nat /\ o # q /\ (ract[i] = 0 <=> o < q) /\ Offset(N, rx_read', i) = o
      BY <1>1, <1>3, <2>1, <3>1
    <3> HIDE DEF o, q
    <3> QED BY <1>2, <3>2, <3>3
  <2> QED BY <2>2, <2>3
<1>6. Filled' = q + 1
  <2>1. Offset(N, rx_read', rx_read') = 0
    BY <1>t, <1>1, RingFacts
  <2>2. ract'[rx_read'] = 0 <=> 0 < q + 1
    BY <1>t, <1>1, <1>5, <2>1
  <2> HIDE DEF q
  <2>3. q + 1 = IF rx_read' = rdpos' /\ ract'[rx_read'] = 0 THEN N ELSE Offset(N, rx_read', rdpos')
    BY <1>t, <1>1, <1>4, <2>2, FilledIs
  <2> QED BY <2>3 DEF Filled, N
<1>7. RxStops'
  BY <1>1 DEF RxInv, RxStops
<1> HIDE DEF q
<1>8. RxInv'
  BY <1>5, <1>6, <1>7 DEF RxInv
<1> QED BY <1>2, <1>6, <1>8 DEF q

LEMMA RxInvRecycle ==
    ASSUME TypeOK, RxInv, Recycle
    PROVE  RxInv' /\ Filled' = Filled - 1 /\ Filled \in 1 .. N
<1>t. /\ N \in Nat \ {0} /\ rx_read \in 0 .. N - 1 /\ rdpos \in 0 .. N - 1
      /\ ract \in [0 .. N - 1 -> {0, 1}]
  BY RxTypes
<1> DEFINE q == Filled
<1>1. /\ ract[rx_read] = 0 /\ pc' = "restart" /\ rr' = rr /\ rstop' = rstop
      /\ ract' = [ract EXCEPT ![rx_read] = 1] /\ rx_read' = After(N, rx_read)
      /\ rdpos' = rdpos
  BY DEF Recycle, Readable, RxNext, After, N
<1>2. q \in 0 .. N /\ rdpos = Slot(N, rx_read, q)
  BY FilledFacts
<1>3. \A i \in 0 .. N - 1 : ract[i] = 0 <=> Offset(N, rx_read, i) < q
  BY DEF RxInv
<1>4. q \in 1 .. N
  <2>1. Offset(N, rx_read, rx_read) = 0
    BY <1>t, RingFacts
  <2>2. 0 < q
    BY <1>t, <1>1, <1>3, <2>1
  <2> HIDE DEF q
  <2> QED BY <1>t, <1>2, <2>2
<1>5. rdpos' = Slot(N, rx_read', q - 1) /\ q - 1 \in 0 .. N /\ rx_read' \in 0 .. N - 1
  <2>1. q - 1 \in 0 .. N - 1 /\ (q - 1) + 1 = q
    BY <1>t, <1>4
  <2>2. Slot(N, After(N, rx_read), q - 1) = Slot(N, rx_read, q)
    BY <1>t, <2>1, RingSlots
  <2>3. After(N, rx_read) \in 0 .. N - 1
    BY <1>t, RingFacts
  <2> QED BY <1>t, <1>1, <1>2, <2>1, <2>2, <2>3
<1>6. ASSUME NEW i \in 0 .. N - 1 PROVE ract'[i] = 0 <=> Offset(N, rx_read', i) < q - 1
  <2>1. Offset(N, rx_read, i) \in 0 .. N - 1
    BY <1>t, RingFacts
  <2>2. CASE i = rx_read
    <3>1. Offset(N, rx_read', i) = N - 1 /\ ract'[i] = 1
      BY <1>t, <1>1, <2>2, RingMoves
    <3> HIDE DEF q
    <3> QED BY <1>t, <1>4, <3>1
  <2>3. CASE i # rx_read
    <3>1. Offset(N, rx_read', i) = Offset(N, rx_read, i) - 1
      BY <1>t, <1>1, <2>3, RingMoves
    <3>2. ract'[i] = ract[i]
      BY <1>t, <1>1, <2>3
    <3> DEFINE o == Offset(N, rx_read, i)
    <3>3. o \in Nat /\ (ract[i] = 0 <=> o < q) /\ Offset(N, rx_read', i) = o - 1
      BY <1>3, <2>1, <3>1
    <3> HIDE DEF o, q
    <3> QED BY <1>4, <3>2, <3>3
  <2> QED BY <2>2, <2>3
<1>7. Filled' = q - 1
  <2>1. Offset(N, rx_read', rx_read') = 0
    BY <1>t, <1>5, RingFacts
  <2>2. ract'[rx_read'] = 0 <=> 0 < q - 1
    BY <1>5, <1>6, <2>1
  <2> DEFINE k == q - 1
             b == ract'[rx_read']
  <2>4. k \in 0 .. N /\ rdpos' = Slot(N, rx_read', k) /\ rx_read' \in 0 .. N - 1 /\ (b = 0 <=> 0 < k)
    BY <1>5, <2>2
  <2>3. q - 1 = IF rx_read' = rdpos' /\ ract'[rx_read'] = 0 THEN N ELSE Offset(N, rx_read', rdpos')
    <3> HIDE DEF k, b
    <3>1. k = IF rx_read' = rdpos' /\ b = 0 THEN N ELSE Offset(N, rx_read', rdpos')
      BY <1>t, <2>4, FilledIs
    <3> QED BY <3>1 DEF k, b
  <2> QED BY <2>3 DEF Filled, N
<1>8. RxStops'
  BY <1>1 DEF RxInv, RxStops
<1> HIDE DEF q
<1>9. RxInv'
  BY <1>6, <1>7, <1>8 DEF RxInv
<1> QED BY <1>4, <1>7, <1>9 DEF q

LEMMA RxInvStep ==
    ASSUME TypeOK, RxInv, [Next]_vars PROVE RxInv'
<1>1. CASE EdmacStore
  BY <1>1, RxInvStore
<1>2. CASE Recycle
  BY <1>2, RxInvRecycle
<1>3. CASE EdmacRxLook
  <2>1. UNCHANGED <<ract, rx_read, rdpos, rr, pc>> /\ ract[rdpos] = 0 /\ rr = 1
    BY <1>3 DEF EdmacRxLook
  <2>2. ract[rx_read] = 0
    <3>t. N \in Nat \ {0} /\ rx_read \in 0 .. N - 1 /\ rdpos \in 0 .. N - 1
      BY RxTypes
    <3>1. Offset(N, rx_read, rx_read) = 0 /\ Offset(N, rx_read, rdpos) \in 0 .. N - 1
      BY <3>t, RingFacts
    <3>2. Filled \in 0 .. N /\ Offset(N, rx_read, rdpos) < Filled
      BY <2>1, <3>t, FilledFacts DEF RxInv
    <3> HIDE DEF Filled
    <3>3. 0 < Filled
      BY <3>t, <3>1, <3>2
    <3> QED BY <3>t, <3>1, <3>3 DEF RxInv
  <2>3. RxStops'
    BY <2>1, <2>2 DEF RxInv, RxStops
  <2> QED BY <2>1, <2>3 DEF RxInv, Filled
<1>4. CASE EdmacRxStop \/ Restart \/ RestartTest \/ RestartWrite
  <2>1. UNCHANGED <<ract, rx_read, rdpos>>
    BY <1>4 DEF EdmacRxStop, Restart, RestartTest, RestartWrite
  <2>2. RxStops'
    <3>t. rr \in {0, 1} /\ rstop \in {0, 1}
      BY DEF TypeOK, RxType, BIT
    <3>1. CASE EdmacRxStop
      BY <3>1 DEF EdmacRxStop, RxInv, RxStops
    <3>2. CASE Restart
      BY <3>t, <3>2 DEF Restart, HandOver, RxInv, RxStops
    <3>3. CASE RestartTest
      BY <3>t, <3>3 DEF RestartTest, RxInv, RxStops
    <3>4. CASE RestartWrite
      BY <3>t, <3>4 DEF RestartWrite, HandOver, RxInv, RxStops
    <3> QED BY <1>4, <3>1, <3>2, <3>3, <3>4
  <2> QED BY <2>1, <2>2 DEF RxInv, Filled
<1>5. ASSUME UNCHANGED <<ract, rx_read, rdpos, rr, rstop, rmissed>>,
             pc \in {"restart", "start"} \/ pc' \in {"restart", "start"} => pc' = pc
      PROVE  RxInv'
  BY <1>5 DEF RxInv, Filled, RxStops
<1>6. CASE Arrive \/ LinkDone \/ NoFrame \/ NoPbuf
  BY <1>5, <1>6 DEF Arrive, LinkDone, NoFrame, NoPbuf
<1>7. CASE TxStep
  BY <1>5, <1>7 DEF TxStep, EdmacSend, EdmacTxLook, EdmacTxStop, Output, OutputFill, OutputTest, OutputStart, rxvars
<1>8. CASE Handler \/ LinkCopy \/ LinkRead \/ LinkStore \/ LinkInit
  BY <1>5, <1>8 DEF Handler, LinkCopy, LinkRead, LinkStore, LinkInit, rxvars
<1>9. CASE LineStep \/ Wake \/ Test \/ UNCHANGED vars
  BY <1>5, <1>9 DEF LineStep, CableChange, Negotiated, Wake, Test, rxvars, vars
<1> QED BY <1>1, <1>2, <1>3, <1>4, <1>6, <1>7, <1>8, <1>9, NextSteps DEF RxStep, LinkStep

(* Reception stops only while the driver has a frame to read and so will   *)
(* restart it (EDRRR): with no active descriptor at its position the EDMAC *)
(* has filled the whole ring, the driver's descriptor included.            *)
THEOREM StopSafety == Spec => []StopsOnlyFull
<1>1. Init => RxInv
  BY RxInvInit
<1>2. TypeOK /\ RxInv /\ [Next]_vars => RxInv'
  BY RxInvStep
<1>3. RxInv => StopsOnlyFull
  BY DEF RxInv, RxStops, StopsOnlyFull
<1> QED BY <1>1, <1>2, <1>3, Typing, PTL DEF Spec
-------------------------------------------------------------------------------
(* The rings implement the queue of frames. *)
Ring(a, q, buff) == [k \in 1 .. q |-> buff[Slot(N, a, k - 1)]]
Way(c, h) == IF c \in {"restart", "start"} THEN <<h>> ELSE <<>>

LEMMA HeldIs == Held = (Way(pc, inhand) \o Ring(rx_read, Filled, rx_buff)) \o fifo
  BY DEF Held, RingFrames, Way, Ring, N

LEMMA RingSeq ==
    ASSUME NEW a \in 0 .. N - 1, NEW q \in 0 .. N, NEW b \in [0 .. N - 1 -> Nat]
    PROVE  /\ Ring(a, q, b) \in Seq(Nat) /\ Len(Ring(a, q, b)) = q
           /\ \A k \in 1 .. q : Ring(a, q, b)[k] = b[Slot(N, a, k - 1)]
<1>1. N \in Nat \ {0}
  BY DEF N
<1>2. \A k \in 1 .. q : b[Slot(N, a, k - 1)] \in Nat
  <2> TAKE k \in 1 .. q
  <2>1. k - 1 \in 0 .. N
    BY <1>1
  <2>2. Slot(N, a, k - 1) \in 0 .. N - 1
    BY <1>1, <2>1, RingFacts
  <2> QED BY <2>2
<1> QED BY <1>1, <1>2 DEF Ring

LEMMA RingGrows ==
    ASSUME NEW a \in 0 .. N - 1, NEW q \in 0 .. N - 1, NEW b \in [0 .. N - 1 -> Nat],
           NEW e \in Nat
    PROVE  Ring(a, q + 1, [b EXCEPT ![Slot(N, a, q)] = e]) = Append(Ring(a, q, b), e)
<1>t. N \in Nat \ {0} /\ q \in 0 .. N /\ q + 1 \in 0 .. N /\ Slot(N, a, q) \in 0 .. N - 1
  <2>1. N \in Nat \ {0}
    BY DEF N
  <2>2. q \in 0 .. N /\ q + 1 \in 0 .. N
    BY <2>1
  <2> QED BY <2>1, <2>2, RingFacts
<1> DEFINE c == [b EXCEPT ![Slot(N, a, q)] = e]
           r == Ring(a, q, b)
           t == Ring(a, q + 1, c)
<1>1. c \in [0 .. N - 1 -> Nat]
  BY <1>t
<1>2. r \in Seq(Nat) /\ Len(r) = q /\ \A k \in 1 .. q : r[k] = b[Slot(N, a, k - 1)]
  BY <1>t, RingSeq
<1>3. /\ t \in Seq(Nat) /\ Len(t) = q + 1
      /\ \A k \in 1 .. q + 1 : t[k] = c[Slot(N, a, k - 1)]
  <2> HIDE DEF c
  <2> QED BY <1>t, <1>1, RingSeq
<1>4. c[Slot(N, a, q)] = e
  BY <1>t
<1>5. \A i \in 0 .. N - 1 : i # Slot(N, a, q) => c[i] = b[i]
  BY <1>t
<1> HIDE DEF c, r, t
<1>6. ASSUME NEW k \in 1 .. q PROVE t[k] = r[k]
  <2>1. k - 1 \in 0 .. N - 1 /\ k - 1 # q /\ k \in 1 .. q + 1
    BY <1>t
  <2>a. /\ \A j \in 0 .. N : Slot(N, a, j) \in 0 .. N - 1
        /\ \A j \in 0 .. N - 1 : Offset(N, a, Slot(N, a, j)) = j
    BY <1>t, RingFacts
  <2>2. /\ Slot(N, a, k - 1) \in 0 .. N - 1
        /\ Offset(N, a, Slot(N, a, k - 1)) = k - 1 /\ Offset(N, a, Slot(N, a, q)) = q
    <3> DEFINE j == k - 1
    <3>1. j \in 0 .. N - 1 /\ j \in 0 .. N
      BY <1>t, <2>1
    <3> HIDE DEF j
    <3>2. Slot(N, a, j) \in 0 .. N - 1 /\ Offset(N, a, Slot(N, a, j)) = j
      BY <2>a, <3>1
    <3> QED BY <2>a, <3>2 DEF j
  <2>3. Slot(N, a, k - 1) # Slot(N, a, q)
    BY <2>1, <2>2
  <2>4. t[k] = c[Slot(N, a, k - 1)] /\ r[k] = b[Slot(N, a, k - 1)]
    BY <1>2, <1>3, <2>1
  <2> QED BY <1>5, <2>2, <2>3, <2>4
<1>7. t[q + 1] = e
  <2>1. q + 1 \in 1 .. q + 1 /\ (q + 1) - 1 = q
    BY <1>t
  <2>2. t[q + 1] = c[Slot(N, a, q)]
    BY <1>3, <2>1
  <2> QED BY <1>4, <2>2
<1>8. /\ Append(r, e) \in Seq(Nat) /\ Len(Append(r, e)) = q + 1
      /\ \A k \in 1 .. q : Append(r, e)[k] = r[k]
      /\ Append(r, e)[q + 1] = e
  BY <1>2, AppendProperties
<1>9. ASSUME NEW k \in 1 .. q + 1 PROVE t[k] = Append(r, e)[k]
  <2>1. CASE k = q + 1
    BY <1>7, <1>8, <2>1
  <2>2. CASE k # q + 1
    <3>1. k \in 1 .. q
      BY <1>t, <2>2
    <3> QED BY <1>6, <1>8, <3>1
  <2> QED BY <2>1, <2>2
<1>10. t = Append(r, e)
  BY <1>3, <1>8, <1>9, SeqEqual
<1> QED BY <1>10 DEF c, r, t

LEMMA RingShrinks ==
    ASSUME NEW a \in 0 .. N - 1, NEW q \in 1 .. N, NEW b \in [0 .. N - 1 -> Nat]
    PROVE  Ring(a, q, b) = <<b[a]>> \o Ring(After(N, a), q - 1, b)
<1>t. N \in Nat \ {0} /\ q \in 0 .. N /\ q - 1 \in 0 .. N /\ After(N, a) \in 0 .. N - 1
  <2>1. N \in Nat \ {0}
    BY DEF N
  <2>2. q \in 0 .. N /\ q - 1 \in 0 .. N
    BY <2>1
  <2> QED BY <2>1, <2>2, RingFacts
<1> DEFINE r == Ring(a, q, b)
           t == Ring(After(N, a), q - 1, b)
           h == <<b[a]>>
<1>1. r \in Seq(Nat) /\ Len(r) = q /\ \A k \in 1 .. q : r[k] = b[Slot(N, a, k - 1)]
  BY <1>t, RingSeq
<1>2. /\ t \in Seq(Nat) /\ Len(t) = q - 1
      /\ \A k \in 1 .. q - 1 : t[k] = b[Slot(N, After(N, a), k - 1)]
  BY <1>t, RingSeq
<1>3. h \in Seq(Nat) /\ Len(h) = 1 /\ h[1] = b[a]
  <2>1. b[a] \in Nat
    BY <1>t
  <2> QED BY <2>1, OneFrame
<1> HIDE DEF r, t, h
<1>c. /\ h \o t \in Seq(Nat) /\ Len(h \o t) = Len(h) + Len(t)
      /\ \A k \in 1 .. Len(h) + Len(t) :
            (h \o t)[k] = IF k <= Len(h) THEN h[k] ELSE t[k - Len(h)]
  BY <1>2, <1>3, ConcatProperties, ZenonT(60)
<1>4. /\ h \o t \in Seq(Nat) /\ Len(h \o t) = 1 + (q - 1)
      /\ \A k \in 1 .. 1 + (q - 1) : (h \o t)[k] = IF k <= 1 THEN h[k] ELSE t[k - 1]
  BY <1>2, <1>3, <1>c
<1>5. Len(h \o t) = q
  BY <1>t, <1>4
<1>6. ASSUME NEW k \in 1 .. q PROVE r[k] = (h \o t)[k]
  <2>1. k \in 1 .. 1 + (q - 1)
    BY <1>t
  <2>2. CASE k = 1
    <3>1. Slot(N, a, k - 1) = a
      BY <1>t, <2>2, RingFacts
    <3>2. (h \o t)[k] = b[a]
      BY <1>3, <1>4, <2>1, <2>2
    <3> QED BY <1>1, <3>1, <3>2
  <2>3. CASE k # 1
    <3>1. k - 1 \in 1 .. q - 1 /\ ~(k <= 1) /\ (k - 1) - 1 \in 0 .. N - 1 /\ ((k - 1) - 1) + 1 = k - 1
      BY <1>t, <2>3
    <3>2. (h \o t)[k] = b[Slot(N, After(N, a), (k - 1) - 1)]
      BY <1>2, <1>4, <2>1, <3>1
    <3>3. Slot(N, After(N, a), (k - 1) - 1) = Slot(N, a, k - 1)
      <4> DEFINE j == (k - 1) - 1
      <4>1. j \in 0 .. N - 1 /\ j + 1 = k - 1
        BY <3>1
      <4> HIDE DEF j
      <4>2. Slot(N, After(N, a), j) = Slot(N, a, j + 1)
        BY <1>t, <4>1, RingSlots
      <4> QED BY <4>1, <4>2 DEF j
    <3> QED BY <1>1, <3>2, <3>3
  <2> QED BY <2>2, <2>3
<1>7. r = h \o t
  BY <1>1, <1>4, <1>5, <1>6, SeqEqual
<1> QED BY <1>7 DEF r, t, h

LEMMA HeldTypes ==
    ASSUME TypeOK
    PROVE  /\ Way(pc, inhand) \in Seq(Nat) /\ Ring(rx_read, Filled, rx_buff) \in Seq(Nat)
           /\ fifo \in Seq(Nat) /\ came \in Nat /\ inhand \in Nat
<1>1. inhand \in Nat /\ fifo \in Seq(Nat) /\ came \in Nat
  BY DEF TypeOK, RxType
<1>2. Way(pc, inhand) \in Seq(Nat)
  BY <1>1, OneFrame, EmptySeq DEF Way
<1>3. Ring(rx_read, Filled, rx_buff) \in Seq(Nat)
  BY RxTypes, FilledFacts, RingSeq
<1> QED BY <1>1, <1>2, <1>3

(* A step that leaves the ring and its reader alone leaves the queue.      *)
LEMMA HeldStays ==
    ASSUME UNCHANGED <<ract, rx_buff, rx_read, rdpos, inhand, fifo>>,
           pc \in {"restart", "start"} <=> pc' \in {"restart", "start"}
    PROVE  Held' = Held
  BY DEF Held, RingFrames, Filled

LEMMA QueueStep ==
    ASSUME TypeOK, RxInv, [Next]_vars
    PROVE  [Frames!Next]_(Frames!vars)
<1> DEFINE p == Way(pc, inhand)
           r == Ring(rx_read, Filled, rx_buff)
<1>t. p \in Seq(Nat) /\ r \in Seq(Nat) /\ fifo \in Seq(Nat) /\ came \in Nat /\ inhand \in Nat
  BY HeldTypes
<1>h. Held = (p \o r) \o fifo
  BY HeldIs
<1>0. ASSUME UNCHANGED <<ract, rx_buff, rx_read, rdpos, inhand, fifo, came, got>>,
             pc \in {"restart", "start"} <=> pc' \in {"restart", "start"}
      PROVE  UNCHANGED Frames!vars
  BY <1>0, HeldStays DEF Frames!vars
<1>1. CASE Arrive
  <2>1. /\ came < MaxFrames /\ came' = came + 1
        /\ UNCHANGED <<ract, rx_buff, rx_read, rdpos, inhand, got, pc>>
    BY <1>1 DEF Arrive
  <2>2. CASE Len(fifo) < FIFO_FRAMES
    <3>1. fifo' = Append(fifo, came + 1) /\ came + 1 \in Nat
      BY <1>1, <1>t, <2>2 DEF Arrive
    <3>2. Held' = (p \o r) \o fifo'
      <4>1. Filled' = Filled
        BY <2>1 DEF Filled
      <4> QED BY <2>1, <4>1 DEF Held, RingFrames, Way, Ring, N
    <3>3. (p \o r) \o Append(fifo, came + 1) = Append((p \o r) \o fifo, came + 1)
      <4> HIDE DEF p, r
      <4> DEFINE e == came + 1
      <4>1. e \in Nat
        BY <3>1
      <4> HIDE DEF e
      <4>2. (p \o r) \o Append(fifo, e) = Append((p \o r) \o fifo, e)
        BY <1>t, <4>1, FifoGrows
      <4> QED BY <4>2 DEF e
    <3>4. Held' = Append(Held, came + 1)
      <4> HIDE DEF p, r
      <4> QED BY <1>h, <3>1, <3>2, <3>3
    <3>5. Frames!Keep
      BY <2>1, <3>4 DEF Frames!Keep
    <3> QED BY <3>5 DEF Frames!Next
  <2>3. CASE ~(Len(fifo) < FIFO_FRAMES)
    <3>1. fifo' = fifo
      BY <1>1, <2>3 DEF Arrive
    <3>2. Held' = Held
      BY <2>1, <3>1, HeldStays
    <3>3. Len(Held) >= FIFO_FRAMES
      <4> HIDE DEF p, r
      <4>1. Len((p \o r) \o fifo) >= Len(fifo) /\ Len(fifo) \in Nat /\ (p \o r) \o fifo \in Seq(Nat)
        BY <1>t, Joined
      <4>2. Len((p \o r) \o fifo) \in Nat
        BY <4>1, LenProperties
      <4> QED BY <1>h, <2>3, <4>1, <4>2
    <3>4. Frames!Drop
      BY <2>1, <3>2, <3>3 DEF Frames!Drop
    <3> QED BY <3>4 DEF Frames!Next
  <2> QED BY <2>2, <2>3
<1>2. CASE EdmacStore
  <2>1. /\ fifo # <<>> /\ fifo' = Tail(fifo)
        /\ rx_buff' = [rx_buff EXCEPT ![rdpos] = Head(fifo)]
        /\ UNCHANGED <<rx_read, inhand, came, got, pc>>
    BY <1>2 DEF EdmacStore
  <2>2. Filled' = Filled + 1 /\ Filled \in 0 .. N - 1 /\ rdpos = Slot(N, rx_read, Filled)
    BY <1>2, RxInvStore
  <2>3. Head(fifo) \in Nat
    BY <1>t, <2>1, FifoFacts
  <2>4. Ring(rx_read', Filled', rx_buff') = Append(r, Head(fifo))
    <3>1. rx_read \in 0 .. N - 1 /\ rx_buff \in [0 .. N - 1 -> Nat]
      BY RxTypes
    <3> HIDE DEF Filled
    <3>2. Ring(rx_read, Filled + 1, [rx_buff EXCEPT ![Slot(N, rx_read, Filled)] = Head(fifo)])
          = Append(Ring(rx_read, Filled, rx_buff), Head(fifo))
      BY <2>2, <2>3, <3>1, RingGrows, ZenonT(60)
    <3> QED BY <2>1, <2>2, <3>2
  <2>5. Held' = (p \o Ring(rx_read', Filled', rx_buff')) \o fifo'
    BY <2>1 DEF Held, RingFrames, Way, Ring, N
  <2>6. (p \o Append(r, Head(fifo))) \o Tail(fifo) = (p \o r) \o fifo
    <3> HIDE DEF p, r
    <3> QED BY <1>t, <2>1, HeadPassed
  <2>7. Held' = Held
    <3> HIDE DEF p, r
    <3> QED BY <1>h, <2>1, <2>4, <2>5, <2>6
  <2> QED BY <2>1, <2>7 DEF Frames!vars
<1>3. CASE Recycle
  <2>1. /\ pc = "input" /\ pc' = "restart" /\ inhand' = rx_buff[rx_read]
        /\ rx_read' = After(N, rx_read)
        /\ UNCHANGED <<rx_buff, fifo, came, got>>
    BY <1>3 DEF Recycle, RxNext, After, N
  <2>2. Filled' = Filled - 1 /\ Filled \in 1 .. N
    BY <1>3, RxInvRecycle
  <2>3. p = <<>> /\ Way(pc', inhand') = <<rx_buff[rx_read]>>
    BY <2>1 DEF Way
  <2>4. r = <<rx_buff[rx_read]>> \o Ring(rx_read', Filled', rx_buff')
    <3>1. rx_read \in 0 .. N - 1 /\ rx_buff \in [0 .. N - 1 -> Nat]
      BY RxTypes
    <3> HIDE DEF Filled
    <3> QED BY <2>1, <2>2, <3>1, RingShrinks
  <2>5. p \o r = r
    <3> HIDE DEF r
    <3> QED BY <1>t, <2>3, ConcatEmptySeq
  <2>6. Held' = (Way(pc', inhand') \o Ring(rx_read', Filled', rx_buff')) \o fifo
    BY <2>1 DEF Held, RingFrames, Way, Ring, N
  <2>7. Held' = Held
    <3> HIDE DEF p, r
    <3> QED BY <1>h, <2>3, <2>4, <2>5, <2>6
  <2> QED BY <2>1, <2>7 DEF Frames!vars
<1>4. CASE Restart \/ RestartWrite
  <2>1. /\ pc \in {"restart", "start"} /\ pc' = "input" /\ got' = inhand
        /\ UNCHANGED <<ract, rx_buff, rx_read, rdpos, fifo, came>>
    BY <1>4 DEF Restart, RestartWrite, HandOver
  <2>2. Filled' = Filled
    BY <2>1 DEF Filled
  <2>3. p = <<inhand>> /\ Way(pc', inhand') = <<>>
    BY <2>1 DEF Way
  <2>4. Held' = (<<>> \o r) \o fifo
    BY <2>1, <2>2 DEF Held, RingFrames, Way, Ring, N
  <2>5. /\ Head((<<inhand>> \o r) \o fifo) = inhand
        /\ Tail((<<inhand>> \o r) \o fifo) = (<<>> \o r) \o fifo
        /\ (<<inhand>> \o r) \o fifo # <<>>
    <3> HIDE DEF p, r
    <3> QED BY <1>t, FirstHanded, ZenonT(60)
  <2>6. Held # <<>> /\ Head(Held) = inhand /\ Held' = Tail(Held)
    <3> HIDE DEF p, r
    <3> QED BY <1>h, <2>3, <2>4, <2>5
  <2>7. Frames!HandOver
    BY <2>1, <2>6 DEF Frames!HandOver
  <2> QED BY <2>7 DEF Frames!Next
<1>5. CASE EdmacRxLook \/ EdmacRxStop \/ LinkDone \/ NoFrame \/ NoPbuf \/ RestartTest
  BY <1>0, <1>5 DEF EdmacRxLook, EdmacRxStop, LinkDone, NoFrame, NoPbuf, RestartTest
<1>6. CASE TxStep
  BY <1>0, <1>6 DEF TxStep, EdmacSend, EdmacTxLook, EdmacTxStop, Output, OutputFill, OutputTest, OutputStart, rxvars
<1>7. CASE Handler \/ LinkCopy \/ LinkRead \/ LinkStore \/ LinkInit
  BY <1>0, <1>7 DEF Handler, LinkCopy, LinkRead, LinkStore, LinkInit, rxvars
<1>8. CASE LineStep \/ Wake \/ Test \/ UNCHANGED vars
  BY <1>0, <1>8 DEF LineStep, CableChange, Negotiated, Wake, Test, rxvars, vars
<1> QED BY <1>1, <1>2, <1>3, <1>4, <1>5, <1>6, <1>7, <1>8, NextSteps DEF RxStep, LinkStep

LEMMA QueueInit == ASSUME Init PROVE Frames!Init
<1>t. N \in Nat \ {0} /\ 0 \in 0 .. N - 1
  BY DEF N
<1>1. /\ rx_read = 0 /\ rdpos = 0 /\ ract = [i \in 0 .. N - 1 |-> 1] /\ pc = "test"
      /\ fifo = <<>> /\ came = 0 /\ got = 0
  BY DEF Init, RxDesc, N
<1>2. Filled = 0
  <2>1. ract[0] = 1 /\ Offset(N, 0, 0) = 0
    BY <1>t, <1>1, RingFacts
  <2> QED BY <1>1, <2>1 DEF Filled, N
<1>3. Ring(rx_read, Filled, rx_buff) = <<>>
  BY <1>2 DEF Ring
<1>4. Way(pc, inhand) = <<>>
  BY <1>1 DEF Way
<1>5. (<<>> \o <<>>) \o <<>> = <<>>
  BY EmptySeq, ConcatEmptySeq
<1>6. Held = <<>>
  BY <1>1, <1>3, <1>4, <1>5, HeldIs
<1> QED BY <1>1, <1>6 DEF Frames!Init

(* The two rings' worth of frames, the FIFO's and the one in the task's    *)
(* hand together behave as the queue of FrameQueue, for every size of the  *)
(* ring and the FIFO: frames are handed to lwIP once each in the order     *)
(* they came in, and one is lost only while FIFO_FRAMES others wait.       *)
THEOREM Refinement == Spec => ImplementsQueue
<1>1. Init => Frames!Init
  BY QueueInit
<1>2. Init => RxInv
  BY RxInvInit
<1>3. TypeOK /\ RxInv /\ [Next]_vars => RxInv'
  BY RxInvStep
<1>4. TypeOK /\ RxInv /\ [Next]_vars => [Frames!Next]_(Frames!vars)
  BY QueueStep
<1> QED BY <1>1, <1>2, <1>3, <1>4, Typing, PTL DEF Spec, ImplementsQueue, Frames!Spec
===============================================================================
