---------------------------- MODULE AtRxRingProofs ----------------------------
(***************************************************************************)
(* Theorems about AtRxRing for every size of the buffer and every number   *)
(* of bytes.                                                               *)
(***************************************************************************)
EXTENDS AtRxRing, SequenceTheorems, TLAPS

USE RingAssumption

(* What makes the types inductive: lost counts some of the bytes, and the  *)
(* reader is between its two stores only when they are two.                *)
TypeInv == TypeOK /\ lost <= count /\ (pc = "wrap" => SplitWrap)

LEMMA WrappedSlot == \A p \in Slots : Wrapped(p + 1) \in Slots
  BY DEF Wrapped, Slots

LEMMA WrappedEnd == Wrapped(SIZE) \in Slots /\ \A p \in Slots : Wrapped(p) \in Slots
  BY DEF Wrapped, Slots

LEMMA TypeInit == Init => TypeInv
  BY DEF Init, TypeInv, TypeOK, Slots

LEMMA TypeStep == TypeInv /\ [Next]_vars => TypeInv'
  <1> SUFFICES ASSUME TypeInv, [Next]_vars PROVE TypeInv'
    OBVIOUS
  <1> USE DEF TypeInv, TypeOK
  <1>1. CASE ReceiveByte
    <2>1. Wrapped(rx_pos_w + 1) \in Slots
      BY WrappedSlot
    <2>2. rx_buff' \in [Slots -> Nat] /\ rx_pos_w' \in Slots
      BY <1>1, <2>1 DEF ReceiveByte
    <2>3. count' \in 0 .. MaxBytes /\ lost' \in 0 .. MaxBytes /\ lost' <= count'
      BY <1>1 DEF ReceiveByte
    <2> QED BY <1>1, <2>2, <2>3 DEF ReceiveByte
  <1>2. CASE Test
    BY <1>2 DEF Test
  <1>3. CASE Copy
    <2>1. rx_buff[rx_pos_r] \in Nat
      BY <1>3 DEF Copy
    <2> QED BY <1>3, <2>1 DEF Copy
  <1>4. CASE Advance
    <2>1. rx_pos_r \in Slots
      BY <1>4 DEF Advance
    <2>2. rx_pos_r' \in Slots \/ (rx_pos_r' = SIZE /\ pc' = "wrap" /\ SplitWrap)
      BY <1>4, <2>1 DEF Advance, Wrapped, Slots
    <2>3. SIZE \notin Slots
      BY DEF Slots
    <2> QED BY <1>4, <2>2, <2>3 DEF Advance
  <1>5. CASE Wrap
    <2>1. rx_pos_r' \in Slots
      BY <1>5, WrappedEnd DEF Wrap
    <2> QED BY <1>5, <2>1 DEF Wrap
  <1>6. CASE UNCHANGED vars
    BY <1>6 DEF vars
  <1> QED BY <1>1, <1>2, <1>3, <1>4, <1>5, <1>6 DEF Next, Read

(* Every variable keeps its type: neither the writer nor the reader ever   *)
(* indexes outside the buffer, for every size and however the reader's     *)
(* wrap is compiled.                                                       *)
THEOREM Typing == Spec => []TypeOK
  <1>1. TypeInv => TypeOK
    BY DEF TypeInv
  <1> QED BY TypeInit, TypeStep, <1>1, PTL DEF Spec
-------------------------------------------------------------------------------
(* The slot the reader takes next, between its two stores as well. *)
Front == Reduced(rx_pos_r)

(* What the reader knows between its steps: the writer never removes the   *)
(* byte it saw, nor changes the one it copied.                             *)
ReaderOK ==
    /\ pc = "wrap" => rx_pos_r = SIZE
    /\ pc \in {"copy", "advance"} => rx_pos_w # rx_pos_r
    /\ pc = "advance" => held = rx_buff[rx_pos_r]

RingInv == TypeInv /\ ReaderOK

LEMMA ReaderStep ==
    ASSUME RingInv, [Next]_vars
    PROVE  ReaderOK'
  <1> USE DEF RingInv, TypeInv, TypeOK, ReaderOK
  <1>1. CASE ReceiveByte
    <2>1. CASE Wrapped(rx_pos_w + 1) = rx_pos_r
      BY <1>1, <2>1 DEF ReceiveByte
    <2>2. CASE Wrapped(rx_pos_w + 1) # rx_pos_r
      BY <1>1, <2>2 DEF ReceiveByte
    <2> QED BY <2>1, <2>2
  <1>2. CASE Test
    BY <1>2 DEF Test
  <1>3. CASE Copy
    BY <1>3 DEF Copy
  <1>4. CASE Advance
    BY <1>4, WrappedSlot DEF Advance, Slots
  <1>5. CASE Wrap
    BY <1>5 DEF Wrap
  <1>6. CASE UNCHANGED vars
    BY <1>6 DEF vars
  <1> QED BY <1>1, <1>2, <1>3, <1>4, <1>5, <1>6 DEF Next, Read

LEMMA RingStep == RingInv /\ [Next]_vars => RingInv'
  BY ReaderStep, TypeStep DEF RingInv

LEMMA RingInit == Init => RingInv
  BY TypeInit DEF RingInv, ReaderOK, Init
-------------------------------------------------------------------------------
(* The arithmetic of the two positions: Dist is the number of bytes       *)
(* between them.                                                           *)
Dist(w, r) == Reduced(w + SIZE - r)

LEMMA DistFacts ==
    ASSUME NEW w \in Slots, NEW r \in Slots
    PROVE  /\ Dist(w, r) \in 0 .. SIZE - 1
           /\ (Dist(w, r) = 0) <=> (w = r)
           /\ (Dist(w, r) = SIZE - 1) <=> (Wrapped(w + 1) = r)
           /\ Reduced(r + Dist(w, r)) = w
  <1>1. SIZE \in Nat /\ SIZE >= 2 /\ w \in Nat /\ w < SIZE /\ r \in Nat /\ r < SIZE
    BY DEF Slots
  <1>2. CASE w >= r
    <2>1. Dist(w, r) = w - r
      BY <1>1, <1>2 DEF Dist, Reduced
    <2> QED BY <1>1, <1>2, <2>1 DEF Reduced, Wrapped
  <1>3. CASE w < r
    <2>1. Dist(w, r) = w + SIZE - r
      BY <1>1, <1>3 DEF Dist, Reduced
    <2> QED BY <1>1, <1>3, <2>1 DEF Reduced, Wrapped
  <1> QED BY <1>1, <1>2, <1>3

LEMMA DistSteps ==
    ASSUME NEW w \in Slots, NEW r \in Slots
    PROVE  /\ Wrapped(w + 1) # r => Dist(Wrapped(w + 1), r) = Dist(w, r) + 1
           /\ w # r => Dist(w, Wrapped(r + 1)) = Dist(w, r) - 1
  <1>1. SIZE \in Nat /\ SIZE >= 2 /\ w \in Nat /\ w < SIZE /\ r \in Nat /\ r < SIZE
    BY DEF Slots
  <1>2. CASE w >= r
    BY <1>1, <1>2 DEF Dist, Reduced, Wrapped
  <1>3. CASE w < r
    BY <1>1, <1>3 DEF Dist, Reduced, Wrapped
  <1> QED BY <1>1, <1>2, <1>3

LEMMA OffsetFacts ==
    ASSUME NEW r \in Slots, NEW i \in 0 .. SIZE - 1
    PROVE  /\ Reduced(r + i) \in Slots
           /\ i + 1 < SIZE => Reduced(Wrapped(r + 1) + i) = Reduced(r + (i + 1))
  <1>1. SIZE \in Nat /\ SIZE >= 2 /\ r \in Nat /\ r < SIZE /\ i \in Nat /\ i < SIZE
    BY DEF Slots
  <1>2. Reduced(r + i) \in Slots
    BY <1>1 DEF Reduced, Slots
  <1>3. CASE r + 1 = SIZE
    BY <1>1, <1>2, <1>3 DEF Reduced, Wrapped
  <1>4. CASE r + 1 < SIZE
    <2>1. Wrapped(r + 1) = r + 1
      BY <1>1, <1>4 DEF Wrapped
    <2> QED BY <1>1, <1>2, <1>4, <2>1 DEF Reduced
  <1> QED BY <1>1, <1>3, <1>4

LEMMA Positions ==
    ASSUME RingInv
    PROVE  /\ rx_pos_w \in Slots /\ Front \in Slots /\ Stored = Dist(rx_pos_w, Front)
           /\ rx_pos_r \in Slots => Front = rx_pos_r
           /\ \A i \in 0 .. SIZE - 1 : Reduced(rx_pos_r + i) = Reduced(Front + i)
  <1> USE DEF RingInv, TypeInv, TypeOK, ReaderOK
  <1>1. CASE rx_pos_r \in Slots
    <2>1. Front = rx_pos_r
      BY <1>1 DEF Front, Reduced, Slots
    <2> QED BY <1>1, <2>1 DEF Stored, Dist
  <1>2. CASE rx_pos_r = SIZE
    <2>1. Front = 0 /\ 0 \in Slots /\ rx_pos_r \notin Slots
      BY <1>2 DEF Front, Reduced, Slots
    <2>2. Stored = Dist(rx_pos_w, 0)
      BY <1>2 DEF Stored, Dist, Reduced, Slots
    <2>3. \A i \in 0 .. SIZE - 1 : Reduced(rx_pos_r + i) = Reduced(0 + i)
      BY <1>2 DEF Reduced
    <2> QED BY <2>1, <2>2, <2>3
  <1> QED BY <1>1, <1>2

(* The number of bytes stored follows from the two positions. *)
LEMMA StoredRange ==
    ASSUME RingInv
    PROVE  /\ Stored \in 0 .. SIZE - 1
           /\ (Stored = 0) <=> (rx_pos_w = Front)
           /\ (Stored = SIZE - 1) <=> (Wrapped(rx_pos_w + 1) = Front)
           /\ Reduced(Front + Stored) = rx_pos_w
           /\ \A i \in 0 .. SIZE - 1 : Reduced(Front + i) \in Slots
  <1>1. /\ Dist(rx_pos_w, Front) \in 0 .. SIZE - 1
        /\ (Dist(rx_pos_w, Front) = 0) <=> (rx_pos_w = Front)
        /\ (Dist(rx_pos_w, Front) = SIZE - 1) <=> (Wrapped(rx_pos_w + 1) = Front)
        /\ Reduced(Front + Dist(rx_pos_w, Front)) = rx_pos_w
    BY Positions, DistFacts
  <1>2. \A i \in 0 .. SIZE - 1 : Reduced(Front + i) \in Slots
    BY Positions, OffsetFacts
  <1> QED BY <1>1, <1>2, Positions

(* The same of the next state. *)
LEMMA PositionsNext ==
    ASSUME RingInv'
    PROVE  (Stored = Dist(rx_pos_w, Front))'
  BY Positions, PTL

(* Different offsets from the reader's position are different slots. *)
LEMMA ReducedInjective ==
    ASSUME NEW p \in Slots, NEW i \in 0 .. SIZE - 1, NEW j \in 0 .. SIZE - 1,
           Reduced(p + i) = Reduced(p + j)
    PROVE  i = j
  BY DEF Reduced, Slots

LEMMA ContentFacts ==
    ASSUME RingInv
    PROVE  /\ Content \in Seq(Nat) /\ Len(Content) = Stored
           /\ \A i \in 1 .. Stored : Content[i] = rx_buff[Reduced(Front + i - 1)]
           /\ Content = [i \in 1 .. Stored |-> rx_buff[Reduced(Front + i - 1)]]
  <1>1. \A i \in 1 .. Stored : rx_buff[Reduced(Front + i - 1)] \in Nat
                              /\ Reduced(rx_pos_r + i - 1) = Reduced(Front + i - 1)
    <2> SUFFICES ASSUME NEW i \in 1 .. Stored
                 PROVE  /\ rx_buff[Reduced(Front + i - 1)] \in Nat
                        /\ Reduced(rx_pos_r + i - 1) = Reduced(Front + i - 1)
      OBVIOUS
    <2>0. Stored \in 0 .. SIZE - 1 /\ rx_pos_r \in Nat /\ Front \in Nat
      <3>1. rx_pos_r \in Slots \/ rx_pos_r = SIZE
        BY DEF RingInv, TypeInv, TypeOK
      <3>2. Front \in Slots /\ Stored \in 0 .. SIZE - 1
        BY StoredRange, Positions
      <3> HIDE DEF Stored, Front
      <3> QED BY <3>1, <3>2 DEF Slots
    <2>1. i - 1 \in 0 .. SIZE - 1 /\ rx_pos_r + (i - 1) = rx_pos_r + i - 1
          /\ Front + (i - 1) = Front + i - 1
      <3> HIDE DEF Stored, Front
      <3> QED BY <2>0
    <2>2. Reduced(Front + i - 1) \in Slots
      BY <2>1, StoredRange
    <2>3. Reduced(rx_pos_r + i - 1) = Reduced(Front + i - 1)
      BY <2>1, Positions
    <2> QED BY <2>2, <2>3 DEF RingInv, TypeInv, TypeOK
  <1>2. Stored \in Nat
    BY StoredRange
  <1> QED BY <1>1, <1>2 DEF Content

LEMMA EmptyContent ==
    ASSUME RingInv
    PROVE  Stored = 0 => Content = <<>>
  BY ContentFacts, EmptySeq

LEMMA ContentNext ==
    ASSUME RingInv'
    PROVE  /\ (Content = [i \in 1 .. Stored |-> rx_buff[Reduced(Front + i - 1)]])'
           /\ (Stored = 0 => Content = <<>>)'
  BY EmptyContent, ContentFacts, PTL

(* MAIN's comparison fails to see a full buffer only between the reader's  *)
(* two stores.                                                             *)
LEMMA Compared ==
    ASSUME RingInv
    PROVE  /\ Wrapped(rx_pos_w + 1) # Front => Wrapped(rx_pos_w + 1) # rx_pos_r
           /\ Wrapped(rx_pos_w + 1) # rx_pos_r /\ Wrapped(rx_pos_w + 1) = Front => pc = "wrap"
  <1>1. Wrapped(rx_pos_w + 1) \in Slots /\ SIZE \notin Slots
    BY WrappedSlot, Positions DEF Slots
  <1> QED BY <1>1, Positions DEF RingInv, TypeInv, TypeOK, ReaderOK

(* A byte that finds room is appended to the content. *)
LEMMA StoreAppends ==
    ASSUME RingInv, RingInv', ReceiveByte, Wrapped(rx_pos_w + 1) # Front
    PROVE  Content' = Append(Content, count + 1)
  <1>1. Front' = Front /\ rx_pos_w' = Wrapped(rx_pos_w + 1)
    BY Compared DEF ReceiveByte, Front
  <1>2. Stored < SIZE - 1 /\ Stored' = Stored + 1
    <2>1. Stored' = Dist(rx_pos_w', Front')
      BY PositionsNext
    <2>2. Stored' = Stored + 1
      BY <1>1, <2>1, Positions, DistSteps
    <2> QED BY <2>2, StoredRange
  <1>3. \A i \in 1 .. Stored + 1 :
            rx_buff'[Reduced(Front + i - 1)]
              = IF i <= Stored THEN Content[i] ELSE count + 1
    <2> SUFFICES ASSUME NEW i \in 1 .. Stored + 1
                 PROVE  rx_buff'[Reduced(Front + i - 1)]
                          = IF i <= Stored THEN Content[i] ELSE count + 1
      OBVIOUS
    <2> DEFINE s == Reduced(Front + i - 1)
    <2>1. i - 1 \in 0 .. SIZE - 1 /\ Stored \in 0 .. SIZE - 1 /\ Front \in Slots
          /\ Front + i - 1 = Front + (i - 1)
      <3>1. Stored \in 0 .. SIZE - 1 /\ Front \in Slots
        BY StoredRange, Positions
      <3> HIDE DEF Stored, Front
      <3> QED BY <1>2, <3>1 DEF Slots
    <2>2. s \in Slots /\ Reduced(Front + Stored) = rx_pos_w
      BY <2>1, StoredRange
    <2>3. CASE i <= Stored
      <3>1. s # rx_pos_w
        BY <2>1, <2>2, <2>3, ReducedInjective
      <3>2. rx_buff'[s] = rx_buff[s]
        BY <2>2, <3>1, Compared DEF ReceiveByte, RingInv, TypeInv, TypeOK
      <3> QED BY <2>3, <3>2, ContentFacts
    <2>4. CASE ~(i <= Stored)
      <3>1. i = Stored + 1
        BY <2>1, <2>4
      <3>2. s = rx_pos_w
        BY <2>1, <2>2, <3>1
      <3>3. rx_buff'[rx_pos_w] = count + 1
        BY Compared DEF ReceiveByte, RingInv, TypeInv, TypeOK
      <3> QED BY <2>4, <3>2, <3>3
    <2> QED BY <2>3, <2>4
  <1>4. Content' = [i \in 1 .. Stored + 1 |-> IF i <= Stored THEN Content[i] ELSE count + 1]
    BY <1>1, <1>2, <1>3, ContentNext
  <1>5. Append(Content, count + 1)
          = [i \in 1 .. Stored + 1 |-> IF i <= Stored THEN Content[i] ELSE count + 1]
    BY ContentFacts, SMTT(30) DEF RingInv, TypeInv, TypeOK
  <1> QED BY <1>4, <1>5

(* A byte stored between the reader's two stores into a full buffer makes  *)
(* the positions equal.                                                    *)
LEMMA OverrunEmpties ==
    ASSUME RingInv, RingInv', ReceiveByte,
           Wrapped(rx_pos_w + 1) = Front, Wrapped(rx_pos_w + 1) # rx_pos_r
    PROVE  Content' = <<>>
  <1>1. rx_pos_w' = Front /\ Front' = Front /\ Front \in Slots
    BY Positions DEF ReceiveByte, Front
  <1>2. Stored' = Dist(Front, Front)
    BY <1>1, PositionsNext
  <1>3. Stored' = 0
    BY <1>1, <1>2, DistFacts
  <1> QED BY <1>3, ContentNext

(* The second of the reader's two stores changes nothing but the position. *)
LEMMA WrapKeeps ==
    ASSUME RingInv, RingInv', Wrap
    PROVE  Content' = Content
  <1>1. Front' = Front /\ rx_pos_w' = rx_pos_w /\ rx_buff' = rx_buff
    BY DEF Wrap, RingInv, ReaderOK, Front, Reduced, Wrapped
  <1>2. Stored' = Stored
    BY <1>1, Positions, PositionsNext
  <1> QED BY <1>1, <1>2, ContentFacts, ContentNext

(* The reader's advance takes the first byte of the content. *)
LEMMA AdvanceTakes ==
    ASSUME RingInv, RingInv', Advance
    PROVE  Content # <<>> /\ got' = Head(Content) /\ Content' = Tail(Content)
  <1>1. /\ Front' = Wrapped(Front + 1) /\ rx_pos_w' = rx_pos_w /\ rx_buff' = rx_buff
        /\ got' = rx_buff[Front] /\ rx_pos_w # Front
    <2>1. Front = rx_pos_r /\ rx_pos_r \in Slots
      BY Positions DEF Advance, RingInv, TypeInv, TypeOK
    <2>2. Front' = Wrapped(rx_pos_r + 1)
      BY <2>1 DEF Advance, Front, Reduced, Wrapped, Slots
    <2> QED BY <2>1, <2>2 DEF Advance, RingInv, ReaderOK
  <1>2. Stored \in 1 .. SIZE - 1 /\ Stored' = Stored - 1
    <2>1. Stored' = Dist(rx_pos_w', Front')
      BY PositionsNext
    <2>2. Stored' = Stored - 1
      BY <1>1, <2>1, Positions, DistSteps
    <2> QED BY <1>1, <2>2, StoredRange
  <1>3. Content \in Seq(Nat) /\ Len(Content) = Stored /\ Stored > 0
    BY <1>2, ContentFacts
  <1>4. Content # <<>>
    BY <1>3, EmptySeq
  <1>5. Reduced(Front + 1 - 1) = Front
    <2>1. Front \in Slots
      BY Positions
    <2> HIDE DEF Front
    <2> QED BY <2>1 DEF Reduced, Slots
  <1>6. got' = Head(Content)
    BY <1>1, <1>2, <1>3, <1>4, <1>5, ContentFacts
  <1>7. \A i \in 1 .. Stored - 1 :
            Reduced(Front' + i - 1) = Reduced(Front + (i + 1) - 1)
    <2> SUFFICES ASSUME NEW i \in 1 .. Stored - 1
                 PROVE  Reduced(Front' + i - 1) = Reduced(Front + (i + 1) - 1)
      OBVIOUS
    <2>1. i - 1 \in 0 .. SIZE - 1 /\ (i - 1) + 1 < SIZE
      BY <1>2
    <2>2. Reduced(Wrapped(Front + 1) + (i - 1)) = Reduced(Front + ((i - 1) + 1))
      BY <2>1, Positions, OffsetFacts
    <2>3. /\ Wrapped(Front + 1) + (i - 1) = Front' + i - 1
          /\ Front + ((i - 1) + 1) = Front + (i + 1) - 1
      BY <1>1, <2>1, Positions, WrappedSlot DEF Slots
    <2> QED BY <2>2, <2>3
  <1>8. Content' = [i \in 1 .. Stored - 1 |-> Content[i + 1]]
    <2>1. \A i \in 1 .. Stored - 1 : i + 1 \in 1 .. Stored
      BY <1>2
    <2>2. \A i \in 1 .. Stored - 1 :
              rx_buff'[Reduced(Front' + i - 1)] = Content[i + 1]
      BY <1>1, <1>7, <2>1, ContentFacts
    <2> QED BY <1>2, <2>2, ContentNext
  <1>9. Tail(Content) = [i \in 1 .. Stored - 1 |-> Content[i + 1]]
    <2>1. Len(Tail(Content)) = Stored - 1 /\ Tail(Content) \in Seq(Nat)
      BY <1>3, <1>4, HeadTailProperties
    <2>2. \A i \in 1 .. Stored - 1 : Tail(Content)[i] = Content[i + 1]
      BY <1>3, <1>4, HeadTailProperties
    <2> DEFINE t == Tail(Content)
    <2>3. t \in Seq(Nat) /\ Len(t) = Stored - 1
      BY <2>1
    <2> HIDE DEF t
    <2>4. t = [i \in 1 .. Len(t) |-> t[i]]
      BY <2>3
    <2>5. \A i \in 1 .. Stored - 1 : t[i] = Content[i + 1]
      BY <2>2 DEF t
    <2>6. t = [i \in 1 .. Stored - 1 |-> Content[i + 1]]
      BY <2>3, <2>4, <2>5
    <2> QED BY <2>6 DEF t
  <1> QED BY <1>4, <1>6, <1>8, <1>9
-------------------------------------------------------------------------------
LEMMA FifoInit == Init => Fifo!Init
  <1> SUFFICES ASSUME Init PROVE Fifo!Init
    OBVIOUS
  <1>1. RingInv
    BY RingInit
  <1>2. Stored = 0
    BY <1>1, StoredRange DEF Init, Front, Reduced
  <1>3. Content = <<>>
    BY <1>1, <1>2, ContentFacts, EmptySeq
  <1> QED BY <1>3 DEF Init, Fifo!Init

LEMMA FifoStep ==
    ASSUME RingInv, RingInv', [Next]_vars
    PROVE  [Fifo!Next]_(Fifo!vars)
  <1>1. CASE ReceiveByte /\ Wrapped(rx_pos_w + 1) # Front
    <2>1. Content' = Append(Content, count + 1)
      BY <1>1, StoreAppends
    <2>2. Len(Content) < SIZE - 1
      BY <1>1, ContentFacts, StoredRange
    <2>3. Wrapped(rx_pos_w + 1) # rx_pos_r
      BY <1>1, Compared
    <2> QED BY <1>1, <2>1, <2>2, <2>3 DEF ReceiveByte, Fifo!Next, Fifo!Put
  <1>2. CASE ReceiveByte /\ Wrapped(rx_pos_w + 1) = Front /\ Wrapped(rx_pos_w + 1) = rx_pos_r
    <2>1. ~(Len(Content) < SIZE - 1)
      BY <1>2, ContentFacts, StoredRange
    <2>2. Content' = Content
      BY <1>2 DEF ReceiveByte, Content, Stored
    <2> QED BY <1>2, <2>1, <2>2 DEF ReceiveByte, Fifo!Next, Fifo!Put
  <1>3. CASE ReceiveByte /\ Wrapped(rx_pos_w + 1) = Front /\ Wrapped(rx_pos_w + 1) # rx_pos_r
    <2>1. Len(Content) = SIZE - 1 /\ SplitWrap
      BY <1>3, ContentFacts, StoredRange, Compared DEF RingInv, TypeInv
    <2>2. Content' = <<>>
      BY <1>3, OverrunEmpties
    <2> QED BY <1>3, <2>1, <2>2 DEF ReceiveByte, Fifo!Next, Fifo!Overrun
  <1>4. CASE Test \/ Copy \/ UNCHANGED vars
    BY <1>4 DEF Test, Copy, vars, Content, Stored, Fifo!vars
  <1>5. CASE Advance
    <2>1. Content # <<>> /\ got' = Head(Content) /\ Content' = Tail(Content)
      BY <1>5, AdvanceTakes
    <2> QED BY <1>5, <2>1 DEF Advance, Fifo!Next, Fifo!Take
  <1>6. CASE Wrap
    <2>1. Content' = Content
      BY <1>6, WrapKeeps
    <2> QED BY <1>6, <2>1 DEF Wrap, Fifo!vars
  <1> QED BY <1>1, <1>2, <1>3, <1>4, <1>5, <1>6 DEF Next, Read

(* The buffer of a connection is a queue of SIZE - 1 bytes which loses     *)
(* exactly the bytes it counts, although its two ends are moved by two     *)
(* tasks without a lock; the one exception is an overrun between the two   *)
(* stores of the reader's wrap, if they are two.                           *)
THEOREM Refinement == Spec => ImplementsFifo
  <1>1. RingInv /\ [Next]_vars => RingInv'
    BY RingStep
  <1>2. RingInv /\ RingInv' /\ [Next]_vars => [Fifo!Next]_(Fifo!vars)
    BY FifoStep
  <1> QED BY RingInit, FifoInit, <1>1, <1>2, PTL DEF Spec, ImplementsFifo, Fifo!Spec
-------------------------------------------------------------------------------
(* Order: the bytes of the queue q ascend, later than the byte g read last *)
(* and not later than the byte c received last.                            *)
Ascending(q, g, c) ==
    /\ g <= c
    /\ \A i \in 1 .. Len(q) : g < q[i] /\ q[i] <= c
    /\ \A i, j \in 1 .. Len(q) : i < j => q[i] < q[j]

Ordered == Ascending(Content, got, count)

LEMMA AscendingAppend ==
    ASSUME NEW q \in Seq(Nat), NEW g \in Nat, NEW c \in Nat, Ascending(q, g, c)
    PROVE  Ascending(Append(q, c + 1), g, c + 1)
  <1>1. Len(Append(q, c + 1)) = Len(q) + 1 /\ Append(q, c + 1)[Len(q) + 1] = c + 1
    OBVIOUS
  <1>2. \A i \in 1 .. Len(q) : Append(q, c + 1)[i] = q[i] /\ q[i] \in Nat
    OBVIOUS
  <1>3. Len(q) \in Nat
    OBVIOUS
  <1> QED BY <1>1, <1>2, <1>3 DEF Ascending

LEMMA AscendingTail ==
    ASSUME NEW q \in Seq(Nat), q # <<>>, NEW g \in Nat, NEW c \in Nat, Ascending(q, g, c)
    PROVE  g < Head(q) /\ Head(q) <= c /\ Ascending(Tail(q), Head(q), c)
  <1>1. Len(q) \in Nat /\ Len(q) >= 1 /\ Head(q) = q[1]
    BY EmptySeq
  <1>2. Len(Tail(q)) = Len(q) - 1 /\ \A i \in 1 .. Len(q) - 1 : Tail(q)[i] = q[i + 1]
    BY HeadTailProperties
  <1>3. \A i \in 1 .. Len(q) : q[i] \in Nat
    OBVIOUS
  <1>4. \A i \in 1 .. Len(q) - 1 : i + 1 \in 1 .. Len(q) /\ 1 \in 1 .. Len(q) /\ 1 < i + 1
    BY <1>1
  <1> QED BY <1>1, <1>2, <1>3, <1>4 DEF Ascending

LEMMA OrderStep ==
    ASSUME RingInv, RingInv', Ordered, [Fifo!Next]_(Fifo!vars)
    PROVE  Ordered' /\ (got' # got => got < got' /\ got' <= count)
  <1> DEFINE q == Content
  <1>1. q \in Seq(Nat) /\ got \in Nat /\ count \in Nat
    BY ContentFacts DEF RingInv, TypeInv, TypeOK
  <1>2. Ascending(q, got, count) /\ (Ordered' <=> Ascending(q', got', count'))
    BY DEF Ordered
  <1>3. CASE count' = count + 1 /\ q' = Append(q, count + 1) /\ got' = got
    BY <1>1, <1>2, <1>3, AscendingAppend
  <1>4. CASE count' = count + 1 /\ q' = q /\ got' = got
    <2>1. \A i \in 1 .. Len(q) : q[i] \in Nat
      BY <1>1
    <2> HIDE DEF q
    <2> QED BY <1>1, <1>2, <1>4, <2>1 DEF Ascending
  <1>5. CASE count' = count + 1 /\ q' = <<>> /\ got' = got
    <2>1. Len(<<>>) = 0
      OBVIOUS
    <2> HIDE DEF q
    <2> QED BY <1>1, <1>2, <1>5, <2>1 DEF Ascending
  <1>6. CASE q # <<>> /\ got' = Head(q) /\ q' = Tail(q) /\ count' = count
    <2>1. got < Head(q) /\ Head(q) <= count /\ Ascending(Tail(q), Head(q), count)
      BY <1>1, <1>2, <1>6, AscendingTail
    <2> HIDE DEF q
    <2> QED BY <1>2, <1>6, <2>1
  <1>7. CASE UNCHANGED <<q, got, count>>
    BY <1>2, <1>7
  <1> QED BY <1>3, <1>4, <1>5, <1>6, <1>7
          DEF Fifo!Next, Fifo!Put, Fifo!Overrun, Fifo!Take, Fifo!vars

(* No byte is read twice, out of order or before it came, for every size   *)
(* of the buffer and either compilation of the wrap.                       *)
THEOREM OrderSafety == Spec => InOrder
  <1> DEFINE Inv == RingInv /\ Ordered
  <1>1. Init => Inv
    <2> SUFFICES ASSUME Init PROVE Inv
      OBVIOUS
    <2>1. RingInv /\ Content = <<>>
      BY RingInit, FifoInit DEF Fifo!Init
    <2>2. Len(Content) = 0
      BY <2>1
    <2> QED BY <2>1, <2>2 DEF Ordered, Ascending, Init
  <1>2. Inv /\ [Next]_vars => Inv' /\ [got' # got => got < got' /\ got' <= count]_got
    <2> SUFFICES ASSUME Inv, [Next]_vars
                 PROVE  Inv' /\ [got' # got => got < got' /\ got' <= count]_got
      OBVIOUS
    <2>1. RingInv'
      BY RingStep
    <2>2. [Fifo!Next]_(Fifo!vars)
      BY <2>1, FifoStep
    <2> QED BY <2>1, <2>2, OrderStep
  <1> QED BY <1>1, <1>2, PTL DEF Spec, InOrder
===============================================================================
