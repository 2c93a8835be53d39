--------------------------- MODULE SysSemPoolProofs ---------------------------
(***************************************************************************)
(* Theorems about SysSemPool for pools of any size, when one task creates  *)
(* and deletes.                                                            *)
(***************************************************************************)
EXTENDS SysSemPool, WellFoundedInduction, TLAPS

CONSTANT U          \* the task

(* One task makes all calls, as while lwIP starts. *)
OneUser == Users = {U} /\ NoSem \notin Slots

LEMMA PoolsApart == Sys_Sem0 \cap Sys_Lock = {}
  BY DEF Sys_Sem0, Sys_Lock
-------------------------------------------------------------------------------
(* The loop of sys_sem_new finds a slot if one is free. *)
LEMMA Smallest == ASSUME NEW T, T \subseteq Nat, T # {}
                  PROVE  \E n \in T : \A m \in T : n <= m
  <1> DEFINE Less == OpToRel(<, Nat)
  <1>1. IsWellFoundedOn(Less, Nat)
    BY NatLessThanWellFounded
  <1>2. \A m, n \in Nat : m < n => <<m, n>> \in Less
    BY DEF OpToRel
  <1> HIDE DEF Less
  <1>3. \E n \in T : \A m \in T : ~(<<m, n>> \in Less)
    BY <1>1, WFMin
  <1>4. PICK n \in T : \A m \in T : ~(<<m, n>> \in Less)
    BY <1>3
  <1>5. ASSUME NEW m \in T PROVE n <= m
    <2>1. m \in Nat /\ n \in Nat /\ ~(m < n)
      BY <1>2, <1>4
    <2> QED BY <2>1
  <1> QED BY <1>4, <1>5

LEMMA FirstIn == ASSUME NEW S, S \subseteq Slots, S # {} PROVE First(S) \in S
  <1> DEFINE T == {x[2] : x \in S}
  <1>1. \A x \in S : x[2] \in Nat
    BY DEF Slots, Sys_Sem0, Sys_Lock
  <1>2. T \subseteq Nat /\ T # {}
    BY <1>1
  <1>3. \E n \in T : \A m \in T : n <= m
    BY <1>2, Smallest
  <1>4. \E x \in S : \A y \in S : x[2] <= y[2]
    BY <1>3
  <1> QED BY <1>4 DEF First
-------------------------------------------------------------------------------
Triples == Sys_Sem0 \X Sys_Sem0 \X Sys_Lock

LEMMA NoneOf == ToSet(<<>>) = {}
  BY DEF ToSet

LEMMA OneOf == ASSUME NEW a PROVE ToSet(<<a>>) = {a} /\ Append(<<>>, a) = <<a>>
  BY DEF ToSet

LEMMA AppendIs ==
    ASSUME NEW S, NEW s \in Seq(S), NEW x \in S, NEW t \in Seq(S), Len(t) = Len(s) + 1,
           \A i \in 1 .. Len(s) : t[i] = s[i], t[Len(s) + 1] = x
    PROVE  Append(s, x) = t
  OBVIOUS

LEMMA TwoOf == ASSUME NEW a, NEW b PROVE ToSet(<<a, b>>) = {a, b} /\ Append(<<a>>, b) = <<a, b>>
  <1> DEFINE t == <<a, b>>
  <1>1. DOMAIN t = {1, 2} /\ t[1] = a /\ t[2] = b
    OBVIOUS
  <1>2. Append(<<a>>, b) = t
    <2>1. <<a>> \in Seq({a, b}) /\ Len(<<a>>) = 1 /\ <<a>>[1] = a
      OBVIOUS
    <2>2. t \in Seq({a, b}) /\ Len(t) = 2
      OBVIOUS
    <2> DEFINE S == {a, b}
    <2> DEFINE s == <<a>>
    <2>3. s \in Seq(S) /\ t \in Seq(S) /\ b \in S /\ Len(s) = 1 /\ s[1] = a /\ Len(t) = 2
      BY <2>1, <2>2
    <2> HIDE DEF S, s, t
    <2>4. \A i \in 1 .. Len(s) : t[i] = s[i]
      BY <1>1, <2>3
    <2>5. Len(t) = Len(s) + 1 /\ t[Len(s) + 1] = b
      BY <1>1, <2>3
    <2>6. Append(s, b) = t
      BY <2>3, <2>4, <2>5, AppendIs
    <2> QED BY <2>6 DEF s
  <1> HIDE DEF t
  <1>3. ToSet(t) = {a, b}
    BY <1>1 DEF ToSet
  <1> QED BY <1>2, <1>3 DEF t

LEMMA ThreeOf == ASSUME NEW a, NEW b, NEW c
                 PROVE  /\ ToSet(<<a, b, c>>) = {a, b, c}
                        /\ Append(<<a, b>>, c) = <<a, b, c>>
  <1> DEFINE t == <<a, b, c>>
  <1>1. DOMAIN t = {1, 2, 3} /\ t[1] = a /\ t[2] = b /\ t[3] = c
    OBVIOUS
  <1>2. Append(<<a, b>>, c) = t
    <2>1. /\ <<a, b>> \in Seq({a, b, c}) /\ Len(<<a, b>>) = 2
          /\ <<a, b>>[1] = a /\ <<a, b>>[2] = b
      OBVIOUS
    <2>2. t \in Seq({a, b, c}) /\ Len(t) = 3
      OBVIOUS
    <2> DEFINE S == {a, b, c}
    <2> DEFINE s == <<a, b>>
    <2>3. /\ s \in Seq(S) /\ t \in Seq(S) /\ c \in S
          /\ Len(s) = 2 /\ s[1] = a /\ s[2] = b /\ Len(t) = 3
      BY <2>1, <2>2
    <2> HIDE DEF S, s, t
    <2>4. \A i \in 1 .. Len(s) : t[i] = s[i]
      BY <1>1, <2>3
    <2>5. Len(t) = Len(s) + 1 /\ t[Len(s) + 1] = c
      BY <1>1, <2>3
    <2>6. Append(s, c) = t
      BY <2>3, <2>4, <2>5, AppendIs
    <2> QED BY <2>6 DEF s
  <1> HIDE DEF t
  <1>3. ToSet(t) = {a, b, c}
    BY <1>1 DEF ToSet
  <1> QED BY <1>2, <1>3 DEF t

LEMMA TripleOf ==
    ASSUME NEW m \in Triples
    PROVE  /\ ToSet(m) = {m[1], m[2], m[3]}
           /\ m[1] \in Sys_Sem0 /\ m[2] \in Sys_Sem0 /\ m[3] \in Sys_Lock
  <1>1. m = <<m[1], m[2], m[3]>>
    BY DEF Triples
  <1>2. ToSet(m) = {m[1], m[2], m[3]}
    BY <1>1, ThreeOf
  <1> QED BY <1>2 DEF Triples
-------------------------------------------------------------------------------
Boxes  == UNION {ToSet(m) : m \in mboxes[U]}
InHand == IF pc[U] \in {"freed", "unlocked"} THEN {part[U][3]} ELSE ToSet(part[U])

(* The slots in use fall into those given up, the semaphores, those of the   *)
(* mailboxes and those of the one being made or deleted.                     *)
Partition(a, l, s, b, h) ==
    /\ a = l \cup s \cup b \cup h
    /\ l \cap s = {} /\ l \cap b = {} /\ l \cap h = {}
    /\ s \cap b = {} /\ s \cap h = {} /\ b \cap h = {}

FieldsOK ==
    /\ act \subseteq Slots
    /\ semcnt \in [Slots -> 0 .. 1]
    /\ pc \in [Users -> News \cup {"idle", "locked", "freed", "unlocked"}]
    /\ cand \in [Users -> Slots \cup {NoSem}]
    /\ part \in [Users -> Seq(Slots)]
    /\ sems \in [Users -> SUBSET Sys_Sem0]
    /\ mboxes \in [Users -> SUBSET Triples]
    /\ leaked \subseteq Slots

(* What the semaphores at hand are, by the place in a creation or deletion.  *)
PartOK ==
    /\ pc[U] \in {"idle", "sem", "not_empty"} => part[U] = <<>>
    /\ pc[U] = "not_full" => \E a \in Sys_Sem0 : part[U] = <<a>>
    /\ pc[U] = "mutex" => \E a, b \in Sys_Sem0 : a # b /\ part[U] = <<a, b>>
    /\ pc[U] \in {"locked", "freed", "unlocked"} =>
          part[U] \in Triples /\ part[U][1] # part[U][2]

CandOK == cand[U] # NoSem => pc[U] \in News /\ cand[U] \in Pool(pc[U]) \ act

BoxesOK ==
    /\ \A m \in mboxes[U] : m[1] # m[2]
    /\ \A m, n \in mboxes[U] : m # n => ToSet(m) \cap ToSet(n) = {}

LocksOK ==
    \A s \in Sys_Lock :
        semcnt[s] = 1 \/ (pc[U] \in {"locked", "freed"} /\ s = part[U][3])

SlotsOK == Partition(act, leaked, sems[U], Boxes, InHand)

IInv == FieldsOK /\ PartOK /\ CandOK /\ BoxesOK /\ LocksOK /\ SlotsOK
-------------------------------------------------------------------------------
LEMMA InitInv == ASSUME OneUser, Init PROVE IInv
  <1> USE DEF OneUser, Init
  <1>1. FieldsOK
    BY DEF FieldsOK, Slots
  <1>2. pc[U] = "idle" /\ part[U] = <<>> /\ cand[U] = NoSem /\ sems[U] = {} /\ mboxes[U] = {}
    OBVIOUS
  <1>3. PartOK /\ CandOK /\ BoxesOK
    BY <1>2 DEF PartOK, CandOK, BoxesOK
  <1>4. LocksOK
    BY DEF LocksOK, Slots
  <1>5. SlotsOK
    BY <1>2, NoneOf DEF SlotsOK, Partition, Boxes, InHand
  <1> QED BY <1>1, <1>3, <1>4, <1>5 DEF IInv

(* A slot found free is claimed: for a semaphore, for a mailbox in the       *)
(* making, or for its mutex, which completes it.                             *)
LEMMA ClaimStep == ASSUME OneUser, IInv, Claim(U) PROVE IInv'
  <1> DEFINE c == cand[U]
  <1>0. /\ c # NoSem /\ c \in Pool(pc[U]) /\ c \notin act /\ c \in Slots
        /\ act' = act \cup {c}
        /\ cand' = [cand EXCEPT ![U] = NoSem] /\ cand'[U] = NoSem
        /\ UNCHANGED <<semcnt, leaked>>
    BY DEF Claim, IInv, CandOK, FieldsOK, OneUser, Pool, Slots
  <1>1. CASE pc[U] = "sem"
    <2>1. /\ sems' = [sems EXCEPT ![U] = @ \cup {c}] /\ pc' = [pc EXCEPT ![U] = "idle"]
          /\ UNCHANGED <<part, mboxes>>
      BY <1>1 DEF Claim, Goto
    <2>2. c \in Sys_Sem0 /\ sems'[U] = sems[U] \cup {c} /\ pc'[U] = "idle"
      BY <1>0, <1>1, <2>1 DEF Pool, IInv, FieldsOK, OneUser
    <2>3. FieldsOK'
      BY <1>0, <2>1, <2>2 DEF IInv, FieldsOK, OneUser, Slots
    <2>4. PartOK' /\ CandOK' /\ BoxesOK' /\ LocksOK'
      BY <1>0, <1>1, <2>1, <2>2 DEF IInv, PartOK, CandOK, BoxesOK, LocksOK
    <2>5. Boxes' = Boxes /\ InHand' = InHand
      BY <1>1, <2>1, <2>2 DEF Boxes, InHand
    <2>6. SlotsOK'
      BY <1>0, <2>2, <2>5 DEF IInv, SlotsOK, Partition
    <2> QED BY <2>3, <2>4, <2>6 DEF IInv
  <1>2. CASE pc[U] = "not_empty" \/ pc[U] = "not_full"
    <2>1. /\ part' = [part EXCEPT ![U] = Append(@, c)]
          /\ pc' = [pc EXCEPT ![U] = IF pc[U] = "not_empty" THEN "not_full" ELSE "mutex"]
          /\ UNCHANGED <<sems, mboxes>>
      BY <1>2 DEF Claim, Goto
    <2>2. /\ c \in Sys_Sem0 /\ part'[U] = Append(part[U], c)
          /\ pc'[U] = IF pc[U] = "not_empty" THEN "not_full" ELSE "mutex"
      BY <1>0, <1>2, <2>1 DEF Pool, IInv, FieldsOK, OneUser
    <2>3. FieldsOK'
      <3>1. part[U] \in Seq(Slots)
        BY DEF IInv, FieldsOK, OneUser
      <3>2. Append(part[U], c) \in Seq(Slots)
        BY <1>0, <3>1
      <3>3. part' \in [Users -> Seq(Slots)]
        BY <2>1, <3>2 DEF IInv, FieldsOK, OneUser
      <3>4. pc' \in [Users -> News \cup {"idle", "locked", "freed", "unlocked"}]
        BY <2>1 DEF IInv, FieldsOK, OneUser, News
      <3> QED BY <1>0, <2>1, <3>3, <3>4 DEF IInv, FieldsOK
    <2>4. PartOK' /\ InHand' = InHand \cup {c}
      <3>1. CASE pc[U] = "not_empty"
        <4>1. part[U] = <<>> /\ part'[U] = <<c>> /\ pc'[U] = "not_full"
          BY <2>2, <3>1, OneOf DEF IInv, PartOK
        <4> QED BY <2>2, <3>1, <4>1, NoneOf, OneOf DEF PartOK, InHand
      <3>2. CASE pc[U] = "not_full"
        <4>1. PICK a \in Sys_Sem0 : part[U] = <<a>>
          BY <3>2 DEF IInv, PartOK
        <4>2. part'[U] = <<a, c>> /\ pc'[U] = "mutex"
          BY <2>2, <3>2, <4>1, TwoOf
        <4>3. InHand = {a} /\ InHand' = {a, c}
          BY <3>2, <4>1, <4>2, OneOf, TwoOf DEF InHand
        <4>4. a # c
          BY <1>0, <4>3 DEF IInv, SlotsOK, Partition
        <4> QED BY <2>2, <4>2, <4>3, <4>4 DEF PartOK
      <3> QED BY <1>2, <3>1, <3>2
    <2>5. CandOK' /\ BoxesOK' /\ LocksOK'
      BY <1>0, <1>2, <2>1 DEF IInv, CandOK, BoxesOK, LocksOK
    <2>6. Boxes' = Boxes
      BY <2>1 DEF Boxes
    <2>7. SlotsOK'
      BY <1>0, <2>1, <2>4, <2>6 DEF IInv, SlotsOK, Partition
    <2> QED BY <2>3, <2>4, <2>5, <2>7 DEF IInv
  <1>3. CASE pc[U] = "mutex"
    <2>1. /\ mboxes' = [mboxes EXCEPT ![U] = @ \cup {Append(part[U], c)}]
          /\ part' = [part EXCEPT ![U] = <<>>] /\ pc' = [pc EXCEPT ![U] = "idle"]
          /\ UNCHANGED sems
      BY <1>3 DEF Claim, Goto
    <2>2. PICK a \in Sys_Sem0, b \in Sys_Sem0 : a # b /\ part[U] = <<a, b>>
      BY <1>3 DEF IInv, PartOK
    <2> DEFINE m == <<a, b, c>>
    <2>3. c \in Sys_Lock
      BY <1>0, <1>3 DEF Pool
    <2>4. m \in Triples /\ m[1] # m[2] /\ ToSet(m) = {a, b, c} /\ Append(part[U], c) = m
      BY <2>2, <2>3, ThreeOf DEF Triples
    <2> HIDE DEF m
    <2>5. mboxes'[U] = mboxes[U] \cup {m} /\ part'[U] = <<>> /\ pc'[U] = "idle"
      BY <2>1, <2>4 DEF IInv, FieldsOK, OneUser
    <2>6. FieldsOK'
      <3>1. <<>> \in Seq(Slots)
        OBVIOUS
      <3>2. part' \in [Users -> Seq(Slots)]
        BY <2>1, <3>1 DEF IInv, FieldsOK, OneUser
      <3>3. mboxes' \in [Users -> SUBSET Triples]
        BY <2>1, <2>4 DEF IInv, FieldsOK, OneUser
      <3> QED BY <1>0, <2>1, <3>2, <3>3 DEF IInv, FieldsOK
    <2>7. InHand = {a, b} /\ InHand' = {}
      BY <1>3, <2>2, <2>5, NoneOf, TwoOf DEF InHand
    <2>8. Boxes' = Boxes \cup {a, b, c}
      BY <2>4, <2>5 DEF Boxes
    <2>9. ToSet(m) \cap Boxes = {}
      BY <1>0, <2>4, <2>7 DEF IInv, SlotsOK, Partition
    <2>10. BoxesOK'
      <3>1. \A n \in mboxes[U] : ToSet(n) \subseteq Boxes
        BY DEF Boxes
      <3> QED BY <2>4, <2>5, <2>9, <3>1 DEF IInv, BoxesOK
    <2>11. PartOK' /\ CandOK' /\ LocksOK'
      BY <1>0, <1>3, <2>5 DEF IInv, PartOK, CandOK, LocksOK
    <2>12. SlotsOK'
      BY <1>0, <2>1, <2>7, <2>8 DEF IInv, SlotsOK, Partition
    <2> QED BY <2>6, <2>10, <2>11, <2>12 DEF IInv
  <1> QED BY <1>1, <1>2, <1>3 DEF Claim

(* The start of a creation, the look for a slot and the use of semaphores    *)
(* leave the slots with whom they are.                                       *)
LEMMA BeginStep == ASSUME OneUser, IInv, Begin(U, "sem") \/ Begin(U, "not_empty") PROVE IInv'
  <1>1. /\ pc[U] = "idle" /\ UNCHANGED <<act, semcnt, cand, part, sems, mboxes, leaked>>
        /\ pc' \in [Users -> News \cup {"idle", "locked", "freed", "unlocked"}]
        /\ pc'[U] = "sem" \/ pc'[U] = "not_empty"
    BY DEF Begin, Goto, objs, OneUser, IInv, FieldsOK, News
  <1>2. FieldsOK'
    BY <1>1 DEF IInv, FieldsOK
  <1>3. PartOK' /\ CandOK' /\ BoxesOK' /\ LocksOK'
    BY <1>1 DEF IInv, PartOK, CandOK, BoxesOK, LocksOK, News
  <1>4. Boxes' = Boxes /\ InHand' = InHand
    BY <1>1 DEF Boxes, InHand
  <1> QED BY <1>1, <1>2, <1>3, <1>4 DEF IInv, SlotsOK

LEMMA ScanStep == ASSUME OneUser, IInv, Scan(U) PROVE IInv'
  <1>1. /\ pc[U] \in News /\ Free(pc[U]) # {} /\ Free(pc[U]) \subseteq Slots
        /\ cand' = [cand EXCEPT ![U] = First(Free(pc[U]))]
        /\ UNCHANGED <<act, semcnt, pc, part, sems, mboxes, leaked>>
    BY DEF Scan, objs, Free, Pool, Slots
  <1>2. First(Free(pc[U])) \in Free(pc[U])
    BY <1>1, FirstIn
  <1>3. cand'[U] \in Pool(pc[U]) \ act
    BY <1>1, <1>2 DEF Free, IInv, FieldsOK, OneUser
  <1>4. FieldsOK'
    BY <1>1, <1>2 DEF IInv, FieldsOK, OneUser
  <1>5. CandOK'
    BY <1>1, <1>3 DEF CandOK
  <1>6. PartOK' /\ BoxesOK' /\ LocksOK' /\ SlotsOK'
    BY <1>1 DEF IInv, PartOK, BoxesOK, LocksOK, SlotsOK, Boxes, InHand
  <1> QED BY <1>4, <1>5, <1>6 DEF IInv

LEMMA UseStep == ASSUME OneUser, IInv, NEW s \in Sys_Sem0, Signal(s) \/ Wait(s) PROVE IInv'
  <1>1. /\ UNCHANGED <<act, pc, cand, part, sems, mboxes, leaked>>
        /\ semcnt' = [semcnt EXCEPT ![s] = 0] \/ semcnt' = [semcnt EXCEPT ![s] = 1]
    BY DEF Signal, Wait, objs
  <1>2. \A x \in Sys_Lock : semcnt'[x] = semcnt[x]
    BY <1>1, PoolsApart DEF IInv, FieldsOK, Slots
  <1>3. FieldsOK'
    <2>1. semcnt' \in [Slots -> 0 .. 1]
      BY <1>1 DEF IInv, FieldsOK
    <2> QED BY <1>1, <2>1 DEF IInv, FieldsOK
  <1>4. LocksOK'
    BY <1>1, <1>2 DEF IInv, LocksOK
  <1>5. PartOK' /\ CandOK' /\ BoxesOK' /\ SlotsOK'
    BY <1>1 DEF IInv, PartOK, CandOK, BoxesOK, SlotsOK, Boxes, InHand
  <1> QED BY <1>3, <1>4, <1>5 DEF IInv

(* ERR_MEM: what a mailbox in the making has is given up.                    *)
LEMMA FailStep == ASSUME OneUser, IInv, NewFails(U) PROVE IInv'
  <1>1. /\ pc[U] \in News /\ cand[U] = NoSem
        /\ leaked' = leaked \cup ToSet(part[U])
        /\ part' = [part EXCEPT ![U] = <<>>] /\ pc' = [pc EXCEPT ![U] = "idle"]
        /\ UNCHANGED <<act, semcnt, cand, sems, mboxes>>
    BY DEF NewFails, Goto
  <1>2. part'[U] = <<>> /\ pc'[U] = "idle"
    BY <1>1 DEF IInv, FieldsOK, OneUser
  <1>3. InHand = ToSet(part[U]) /\ InHand' = {} /\ Boxes' = Boxes
    BY <1>1, <1>2, NoneOf DEF InHand, News, Boxes
  <1>4. SlotsOK'
    BY <1>1, <1>3 DEF IInv, SlotsOK, Partition
  <1>5. leaked' \subseteq Slots
    BY <1>1, <1>3 DEF IInv, FieldsOK, SlotsOK, Partition
  <1>6. FieldsOK'
    <2>1. <<>> \in Seq(Slots)
      OBVIOUS
    <2>2. part' \in [Users -> Seq(Slots)]
      BY <1>1, <2>1 DEF IInv, FieldsOK, OneUser
    <2> QED BY <1>1, <1>5, <2>2 DEF IInv, FieldsOK
  <1>7. PartOK' /\ CandOK' /\ BoxesOK' /\ LocksOK'
    BY <1>1, <1>2 DEF IInv, PartOK, CandOK, BoxesOK, LocksOK, News
  <1> QED BY <1>4, <1>6, <1>7 DEF IInv

LEMMA FreeSemStep == ASSUME OneUser, IInv, NEW s \in sems[U], FreeSem(U, s) PROVE IInv'
  <1>1. /\ pc[U] = "idle" /\ act' = act \ {s} /\ sems' = [sems EXCEPT ![U] = @ \ {s}]
        /\ UNCHANGED <<semcnt, pc, cand, part, mboxes, leaked>>
    BY DEF FreeSem
  <1>2. sems'[U] = sems[U] \ {s} /\ FieldsOK'
    BY <1>1 DEF IInv, FieldsOK, OneUser
  <1>3. Boxes' = Boxes /\ InHand' = InHand
    BY <1>1 DEF Boxes, InHand
  <1>4. SlotsOK'
    BY <1>1, <1>2, <1>3 DEF IInv, SlotsOK, Partition
  <1>5. PartOK' /\ CandOK' /\ BoxesOK' /\ LocksOK'
    BY <1>1 DEF IInv, PartOK, CandOK, BoxesOK, LocksOK
  <1> QED BY <1>2, <1>4, <1>5 DEF IInv

(* The deletion of a mailbox: its semaphores pass to the one who deletes and *)
(* from there to the pools, the mutex last and unlocked.                     *)
LEMMA LockStep == ASSUME OneUser, IInv, NEW m \in mboxes[U], LockMbox(U, m) PROVE IInv'
  <1>1. /\ pc[U] = "idle"
        /\ semcnt' = [semcnt EXCEPT ![m[3]] = 0]
        /\ mboxes' = [mboxes EXCEPT ![U] = @ \ {m}]
        /\ part' = [part EXCEPT ![U] = m] /\ pc' = [pc EXCEPT ![U] = "locked"]
        /\ UNCHANGED <<act, cand, sems, leaked>>
    BY DEF LockMbox, Goto
  <1>2. /\ m \in Triples /\ m[3] \in Sys_Lock /\ m[1] # m[2] /\ m \in Seq(Slots)
    <2>1. m \in Triples
      BY DEF IInv, FieldsOK, OneUser
    <2>2. m = <<m[1], m[2], m[3]>> /\ m[1] \in Slots /\ m[2] \in Slots /\ m[3] \in Slots
      BY <2>1 DEF Triples, Slots
    <2>3. <<m[1], m[2], m[3]>> \in Seq(Slots)
      BY <2>2
    <2>4. m \in Seq(Slots)
      BY <2>2, <2>3
    <2> QED BY <2>1, <2>4, TripleOf DEF IInv, BoxesOK
  <1>3. part'[U] = m /\ pc'[U] = "locked" /\ mboxes'[U] = mboxes[U] \ {m}
    BY <1>1 DEF IInv, FieldsOK, OneUser
  <1>4. FieldsOK'
    <2>1. semcnt' \in [Slots -> 0 .. 1]
      BY <1>1, <1>2 DEF IInv, FieldsOK, Slots
    <2>2. part' \in [Users -> Seq(Slots)]
      BY <1>1, <1>2 DEF IInv, FieldsOK, OneUser
    <2>3. mboxes' \in [Users -> SUBSET Triples]
      BY <1>1 DEF IInv, FieldsOK, OneUser
    <2> QED BY <1>1, <2>1, <2>2, <2>3 DEF IInv, FieldsOK
  <1>5. InHand = {} /\ InHand' = ToSet(m)
    BY <1>1, <1>3, NoneOf DEF IInv, PartOK, InHand
  <1>6. Boxes' = Boxes \ ToSet(m) /\ ToSet(m) \subseteq Boxes
    BY <1>3 DEF IInv, BoxesOK, Boxes
  <1>7. SlotsOK'
    BY <1>1, <1>5, <1>6 DEF IInv, SlotsOK, Partition
  <1>8. PartOK' /\ BoxesOK'
    BY <1>2, <1>3 DEF IInv, PartOK, BoxesOK
  <1>9. CandOK'
    BY <1>1 DEF IInv, CandOK, News
  <1>10. LocksOK'
    BY <1>1, <1>2, <1>3 DEF IInv, LocksOK, FieldsOK, Slots
  <1> QED BY <1>4, <1>7, <1>8, <1>9, <1>10 DEF IInv

LEMMA QueuesStep == ASSUME OneUser, IInv, FreeQueues(U) PROVE IInv'
  <1> DEFINE p == part[U]
  <1>1. /\ pc[U] = "locked" /\ act' = act \ {p[1], p[2]} /\ pc' = [pc EXCEPT ![U] = "freed"]
        /\ UNCHANGED <<semcnt, cand, part, sems, mboxes, leaked>>
    BY DEF FreeQueues, Goto, objs
  <1>2. /\ p \in Triples /\ ToSet(p) = {p[1], p[2], p[3]} /\ p[3] # p[1] /\ p[3] # p[2]
    <2>1. p \in Triples
      BY <1>1 DEF IInv, PartOK
    <2> QED BY <2>1, TripleOf, PoolsApart
  <1>3. pc'[U] = "freed"
    BY <1>1 DEF IInv, FieldsOK, OneUser
  <1>4. InHand = {p[1], p[2], p[3]} /\ InHand' = {p[3]} /\ Boxes' = Boxes
    BY <1>1, <1>2, <1>3 DEF InHand, Boxes
  <1>5. SlotsOK'
    BY <1>1, <1>2, <1>4 DEF IInv, SlotsOK, Partition
  <1>6. FieldsOK'
    BY <1>1 DEF IInv, FieldsOK
  <1>7. PartOK' /\ CandOK' /\ BoxesOK' /\ LocksOK'
    BY <1>1, <1>3 DEF IInv, PartOK, CandOK, BoxesOK, LocksOK, News
  <1> QED BY <1>5, <1>6, <1>7 DEF IInv

LEMMA ExceptIn == ASSUME NEW S, NEW T, NEW f \in [S -> T], NEW x, NEW y \in T
                  PROVE  [f EXCEPT ![x] = y] \in [S -> T]
  OBVIOUS

LEMMA UnlockStep == ASSUME OneUser, IInv, UnlockMbox(U) PROVE IInv'
  <1> DEFINE p == part[U]
  <1>1. /\ pc[U] = "freed" /\ semcnt' = [semcnt EXCEPT ![p[3]] = 1]
        /\ pc' = [pc EXCEPT ![U] = "unlocked"]
        /\ UNCHANGED <<act, cand, part, sems, mboxes, leaked>>
    BY DEF UnlockMbox, Goto, objs
  <1>2. p \in Triples /\ p[3] \in Sys_Lock
    <2>1. p \in Triples
      BY <1>1 DEF IInv, PartOK
    <2> QED BY <2>1, TripleOf
  <1>3. pc'[U] = "unlocked"
    BY <1>1 DEF IInv, FieldsOK, OneUser
  <1>4. FieldsOK'
    <2>1. semcnt' \in [Slots -> 0 .. 1]
      <3>1. semcnt \in [Slots -> 0 .. 1] /\ semcnt' = [semcnt EXCEPT ![p[3]] = 1]
        BY <1>1 DEF IInv, FieldsOK
      <3>2. 1 \in 0 .. 1
        OBVIOUS
      <3> QED BY <3>1, <3>2, ExceptIn, Zenon
    <2>2. pc' = [pc EXCEPT ![U] = "unlocked"]
      BY <1>1
    <2> QED BY <1>1, <2>1, <2>2 DEF IInv, FieldsOK
  <1>5. LocksOK'
    BY <1>1, <1>2, <1>3 DEF IInv, LocksOK, FieldsOK, Slots
  <1>6. PartOK' /\ CandOK' /\ BoxesOK'
    BY <1>1, <1>3 DEF IInv, PartOK, CandOK, BoxesOK, News
  <1>7. SlotsOK'
    BY <1>1, <1>3 DEF IInv, SlotsOK, Boxes, InHand
  <1> QED BY <1>4, <1>5, <1>6, <1>7 DEF IInv

LEMMA MutexStep == ASSUME OneUser, IInv, FreeMutex(U) PROVE IInv'
  <1> DEFINE p == part[U]
  <1>1. /\ pc[U] = "unlocked" /\ act' = act \ {p[3]}
        /\ part' = [part EXCEPT ![U] = <<>>] /\ pc' = [pc EXCEPT ![U] = "idle"]
        /\ UNCHANGED <<semcnt, cand, sems, mboxes, leaked>>
    BY DEF FreeMutex, Goto
  <1>2. part'[U] = <<>> /\ pc'[U] = "idle"
    BY <1>1 DEF IInv, FieldsOK, OneUser
  <1>3. InHand = {p[3]} /\ InHand' = {} /\ Boxes' = Boxes
    BY <1>1, <1>2, NoneOf DEF InHand, Boxes
  <1>4. SlotsOK'
    BY <1>1, <1>3 DEF IInv, SlotsOK, Partition
  <1>5. FieldsOK'
    <2>1. <<>> \in Seq(Slots)
      OBVIOUS
    <2>2. part' \in [Users -> Seq(Slots)]
      BY <1>1, <2>1 DEF IInv, FieldsOK, OneUser
    <2> QED BY <1>1, <2>2 DEF IInv, FieldsOK
  <1>6. PartOK' /\ CandOK' /\ BoxesOK' /\ LocksOK'
    BY <1>1, <1>2 DEF IInv, PartOK, CandOK, BoxesOK, LocksOK, News
  <1> QED BY <1>4, <1>5, <1>6 DEF IInv

LEMMA Inductive == ASSUME OneUser PROVE Spec => []IInv
  <1>1. IInv /\ [Next]_vars => IInv'
    <2> SUFFICES ASSUME IInv, [Next]_vars PROVE IInv'
      OBVIOUS
    <2>1. CASE UserStep(U)
      BY <2>1, BeginStep, ScanStep, ClaimStep, FailStep, FreeSemStep, LockStep, QueuesStep,
         UnlockStep, MutexStep DEF UserStep
    <2>2. CASE \E s \in Sys_Sem0 : Signal(s) \/ Wait(s)
      BY <2>2, UseStep
    <2>3. CASE UNCHANGED vars
      BY <2>3 DEF vars, objs, IInv, FieldsOK, PartOK, CandOK, BoxesOK, LocksOK, SlotsOK,
         Boxes, InHand
    <2> QED BY <2>1, <2>2, <2>3 DEF Next, OneUser
  <1> QED BY InitInv, <1>1, PTL DEF Spec

LEMMA HeldIs == ASSUME IInv PROVE Held(U) = sems[U] \cup Boxes \cup InHand
  BY DEF Held, Boxes, InHand

(* The slots in use are exactly those held and those given up half-made, for *)
(* pools of any size.                                                        *)
THEOREM ExactSafety == ASSUME OneUser PROVE Spec => []PoolExact
  <1>1. IInv => PoolExact
    <2> SUFFICES ASSUME IInv PROVE PoolExact
      OBVIOUS
    <2>1. UNION {Held(u) : u \in Users} = Held(U)
      BY DEF OneUser
    <2> QED BY <2>1, HeldIs DEF IInv, SlotsOK, Partition, PoolExact
  <1> QED BY <1>1, Inductive, PTL

(* A mutex that is free to be handed out is unlocked.                        *)
THEOREM LocksSafety == ASSUME OneUser PROVE Spec => []LocksRestored
  <1>1. IInv => LocksRestored
    <2> SUFFICES ASSUME IInv, NEW s \in Sys_Lock, s \notin act PROVE semcnt[s] = 1
      BY DEF LocksRestored
    <2>1. CASE pc[U] \in {"locked", "freed"} /\ s = part[U][3]
      <3>1. part[U] \in Triples
        BY <2>1 DEF IInv, PartOK
      <3>2. part[U][3] \in ToSet(part[U])
        BY <3>1, TripleOf
      <3>3. s \in InHand
        BY <2>1, <3>2 DEF InHand
      <3> QED BY <3>3 DEF IInv, SlotsOK, Partition
    <2> QED BY <2>1 DEF IInv, LocksOK
  <1> QED BY <1>1, Inductive, PTL
===============================================================================
