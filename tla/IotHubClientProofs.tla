-------------------------- MODULE IotHubClientProofs --------------------------
(***************************************************************************)
(* Theorems about IotHubClient for any number of slots, any period and any *)
(* bounds, whatever the SDK calls back and when.                           *)
(***************************************************************************)
EXTENDS IotHubClient, TLAPS

USE ClientAssumption
-------------------------------------------------------------------------------
(* The types, in parts that different actions disturb. *)
LoopOK ==
    /\ pc \in {"turn", "send", "turned", "work", "drain", "destroy", "done"}
    /\ iterator \in Nat /\ iterator <= FIRST + PERIOD
    /\ pc = "send" => iterator = 0
    /\ pc = "turned" => iterator < PERIOD
    /\ drain \in 0 .. DOWORK_LOOP_NUM
    /\ g_continueRunning \in {0, 1}

TwinOK ==
    /\ g_twinReport \in {0, 1} /\ mouse \in {0, 1} /\ unacked \in Nat
    /\ desired \in 0 .. MaxDesired /\ answered \in 0 .. desired

Contexts == [msg : 1 .. made, slot : Slots]

HandlesOK ==
    /\ msgPos \in Slots /\ made \in 0 .. MaxMsgs
    /\ slot \in [Slots -> 0 .. made]
    /\ awaited \subseteq Contexts
    /\ live \subseteq 1 .. made /\ again \subseteq 1 .. made /\ refused \subseteq 1 .. made
    /\ reused \in {0, 1}

(* While no slot was reused, what is live is refused or awaited, and each    *)
(* awaited message is in its own slot.                                       *)
Owned ==
    reused = 0 =>
        /\ again = {}
        /\ \A a \in awaited : slot[a.slot] = a.msg /\ a.msg \in live /\ a.msg \notin refused
        /\ \A a, b \in awaited : a.msg = b.msg => a = b
        /\ refused \subseteq live
        /\ \A m \in live \ refused : \E a \in awaited : a.msg = m

Ended == pc = "done" => awaited = {}

IInv == LoopOK /\ TwinOK /\ HandlesOK /\ Owned /\ Ended
-------------------------------------------------------------------------------
LEMMA InitInv == Init => IInv
  BY DEF Init, IInv, LoopOK, TwinOK, HandlesOK, Owned, Ended, Slots, Contexts

LEMMA LoopStep == LoopOK /\ [Next]_vars => LoopOK'
  <1> SUFFICES ASSUME LoopOK, [Next]_vars PROVE LoopOK'
    OBVIOUS
  <1> USE DEF LoopOK
  <1>1. CASE TurnSends
    BY <1>1 DEF TurnSends
  <1>2. CASE SerializeFails \/ CreateFails \/ CreateAndSend
    BY <1>2 DEF SerializeFails, CreateFails, CreateAndSend
  <1>3. CASE Report \/ TurnIdles
    BY <1>3 DEF Report, TurnIdles
  <1>4. CASE StartWork
    BY <1>4 DEF StartWork
  <1>5. CASE WorkReturns \/ DrainReturns \/ DestroyModels \/ DestroyReturns
    BY <1>5 DEF WorkReturns, DrainReturns, DestroyModels, DestroyReturns
  <1>6. CASE Sdk
    BY <1>6 DEF Sdk, Confirm, Desired, Acknowledge, Quit
  <1>7. CASE UNCHANGED vars
    BY <1>7 DEF vars
  <1> QED BY <1>1, <1>2, <1>3, <1>4, <1>5, <1>6, <1>7 DEF Next, Main

LEMMA TwinStep == TwinOK /\ [Next]_vars => TwinOK'
  <1> SUFFICES ASSUME TwinOK, [Next]_vars PROVE TwinOK'
    OBVIOUS
  <1> USE DEF TwinOK
  <1>1. CASE TurnSends \/ SerializeFails \/ CreateFails \/ CreateAndSend \/ TurnIdles
    BY <1>1 DEF TurnSends, SerializeFails, CreateFails, CreateAndSend, TurnIdles, twinvars
  <1>2. CASE Report
    BY <1>2 DEF Report
  <1>3. CASE StartWork \/ WorkReturns \/ DrainReturns \/ DestroyModels \/ DestroyReturns
    BY <1>3 DEF StartWork, WorkReturns, DrainReturns, DestroyModels, DestroyReturns, twinvars
  <1>4. CASE Desired
    BY <1>4 DEF Desired
  <1>5. CASE Acknowledge
    BY <1>5 DEF Acknowledge
  <1>6. CASE Quit \/ \E a \in awaited : Confirm(a)
    BY <1>6 DEF Quit, Confirm, twinvars
  <1>7. CASE UNCHANGED vars
    BY <1>7 DEF vars, twinvars
  <1> QED BY <1>1, <1>2, <1>3, <1>4, <1>5, <1>6, <1>7 DEF Next, Main, Sdk

(* Every step but three leaves the slots and the handles alone. *)
LEMMA OtherSteps ==
    ASSUME [Next]_vars, ~CreateFails, ~CreateAndSend, ~ \E a \in awaited : Confirm(a)
    PROVE  UNCHANGED slotvars
  <1>1. CASE TurnSends \/ SerializeFails \/ Report \/ TurnIdles \/ StartWork
    BY <1>1 DEF TurnSends, SerializeFails, Report, TurnIdles, StartWork, slotvars
  <1>2. CASE WorkReturns \/ DrainReturns \/ DestroyModels \/ DestroyReturns
    BY <1>2 DEF WorkReturns, DrainReturns, DestroyModels, DestroyReturns, slotvars
  <1>3. CASE Desired \/ Acknowledge \/ Quit
    BY <1>3 DEF Desired, Acknowledge, Quit, slotvars
  <1>4. CASE UNCHANGED vars
    BY <1>4 DEF vars, slotvars
  <1> QED BY <1>1, <1>2, <1>3, <1>4 DEF Next, Main, Sdk

LEMMA NextSlotIn == ASSUME NEW i \in Slots PROVE NextSlot(i) \in Slots
  BY DEF Slots, NextSlot

LEMMA HandlesStep == HandlesOK /\ [Next]_vars => HandlesOK'
  <1> SUFFICES ASSUME HandlesOK, [Next]_vars PROVE HandlesOK'
    OBVIOUS
  <1> USE DEF HandlesOK
  <1>1. CASE CreateFails
    BY <1>1 DEF CreateFails, Contexts
  <1>2. CASE CreateAndSend
    <2> DEFINE new == [msg |-> made + 1, slot |-> msgPos]
    <2>1. /\ made < MaxMsgs /\ made' = made + 1
          /\ live' = live \cup {made + 1} /\ again' = again
          /\ slot' = [slot EXCEPT ![msgPos] = made + 1]
          /\ msgPos' = NextSlot(msgPos) /\ reused' \in {0, 1}
      BY <1>2 DEF CreateAndSend
    <2>2. awaited' \subseteq awaited \cup {new} /\ refused' \subseteq refused \cup {made + 1}
      BY <1>2 DEF CreateAndSend
    <2>3. msgPos' \in Slots
      BY <2>1, NextSlotIn
    <2>4. new \in Contexts' /\ Contexts \subseteq Contexts'
      BY <2>1 DEF Contexts
    <2>5. awaited' \subseteq Contexts'
      BY <2>2, <2>4
    <2>6. slot' \in [Slots -> 0 .. made']
      BY <2>1
    <2> QED BY <2>1, <2>2, <2>3, <2>5, <2>6
  <1>3. ASSUME NEW a \in awaited, Confirm(a) PROVE HandlesOK'
    <2>1. a.slot \in Slots /\ slot[a.slot] \in 0 .. made
      BY DEF Contexts
    <2>2. again' \subseteq 1 .. made
      <3> DEFINE h == slot[a.slot]
      <3>1. h = 0 \/ h \in 1 .. made
        BY <2>1
      <3>2. again' = IF h = 0 \/ h \in live THEN again ELSE again \cup {h}
        BY <1>3 DEF Confirm
      <3> HIDE DEF h
      <3> QED BY <3>1, <3>2
    <2>3. /\ UNCHANGED <<msgPos, made, slot, refused, reused>>
          /\ live' \subseteq live /\ awaited' \subseteq awaited
      BY <1>3 DEF Confirm
    <2>4. Contexts' = Contexts
      BY <2>3 DEF Contexts
    <2>5. awaited' \subseteq Contexts' /\ live' \subseteq 1 .. made'
      BY <2>3, <2>4
    <2> QED BY <2>2, <2>3, <2>5
  <1>4. CASE UNCHANGED slotvars
    BY <1>4 DEF slotvars, Contexts
  <1> QED BY <1>1, <1>2, <1>3, <1>4, OtherSteps

(* A new message takes a number no other has; its slot is nobody's, or it is *)
(* reused; and the confirmation of a message takes its own slot's.           *)
LEMMA OwnedStep == HandlesOK /\ Owned /\ [Next]_vars => Owned'
  <1> SUFFICES ASSUME HandlesOK, Owned, [Next]_vars, reused' = 0
               PROVE  Owned'
    BY DEF Owned
  <1>1. CASE CreateFails
    <2>1. /\ slot' = [slot EXCEPT ![msgPos] = 0]
          /\ \A a \in awaited : a.slot # msgPos
          /\ reused = 0
          /\ UNCHANGED <<made, live, again, refused, awaited>>
      BY <1>1 DEF CreateFails, HandlesOK
    <2>2. \A a \in awaited : slot'[a.slot] = slot[a.slot]
      BY <2>1 DEF HandlesOK, Contexts
    <2> QED BY <2>1, <2>2 DEF Owned
  <1>2. CASE CreateAndSend
    <2> DEFINE new == [msg |-> made + 1, slot |-> msgPos]
    <2>1. /\ live' = live \cup {made + 1} /\ again' = again
          /\ slot' = [slot EXCEPT ![msgPos] = made + 1]
          /\ \A a \in awaited : a.slot # msgPos
          /\ reused = 0
      BY <1>2 DEF CreateAndSend, HandlesOK
    <2>2. \/ awaited' = awaited \cup {new} /\ refused' = refused
          \/ refused' = refused \cup {made + 1} /\ awaited' = awaited
      BY <1>2 DEF CreateAndSend
    <2>3. \A a \in awaited : slot'[a.slot] = slot[a.slot] /\ a.msg # made + 1
      BY <2>1 DEF HandlesOK, Contexts
    <2>4. slot'[msgPos] = made + 1 /\ made + 1 \notin live /\ made + 1 \notin refused
      BY <2>1 DEF HandlesOK
    <2>5. new.msg = made + 1 /\ new.slot = msgPos
      OBVIOUS
    <2> HIDE DEF new
    <2>6. \A a \in awaited' : slot'[a.slot] = a.msg /\ a.msg \in live' /\ a.msg \notin refused'
      BY <2>1, <2>2, <2>3, <2>4, <2>5 DEF Owned
    <2>7. \A a, b \in awaited' : a.msg = b.msg => a = b
      BY <2>1, <2>2, <2>3, <2>5 DEF Owned
    <2>8. \A m \in live' \ refused' : \E a \in awaited' : a.msg = m
      BY <2>1, <2>2, <2>5 DEF Owned
    <2> QED BY <2>1, <2>2, <2>6, <2>7, <2>8 DEF Owned
  <1>3. ASSUME NEW a \in awaited, Confirm(a) PROVE Owned'
    <2>1. /\ awaited' = awaited \ {a} /\ live' = live \ {slot[a.slot]}
          /\ again' = IF slot[a.slot] = 0 \/ slot[a.slot] \in live
                      THEN again ELSE again \cup {slot[a.slot]}
          /\ UNCHANGED <<slot, refused>> /\ reused = 0
      BY <1>3 DEF Confirm
    <2>2. slot[a.slot] = a.msg /\ a.msg \in live /\ a.msg \notin refused
      BY <2>1 DEF Owned
    <2>3. \A b \in awaited' : b.msg # a.msg
      BY <2>1 DEF Owned
    <2> QED BY <2>1, <2>2, <2>3 DEF Owned
  <1>4. CASE UNCHANGED slotvars
    BY <1>4 DEF slotvars, Owned
  <1> QED BY <1>1, <1>2, <1>3, <1>4, OtherSteps

LEMMA EndedStep == Ended /\ [Next]_vars => Ended'
  <1> SUFFICES ASSUME Ended, [Next]_vars PROVE Ended'
    OBVIOUS
  <1> USE DEF Ended
  <1>1. CASE TurnSends \/ SerializeFails \/ CreateFails \/ CreateAndSend \/ Report \/ TurnIdles
    BY <1>1 DEF TurnSends, SerializeFails, CreateFails, CreateAndSend, Report, TurnIdles
  <1>2. CASE StartWork \/ WorkReturns \/ DrainReturns \/ DestroyModels
    BY <1>2 DEF StartWork, WorkReturns, DrainReturns, DestroyModels
  <1>3. CASE DestroyReturns
    BY <1>3 DEF DestroyReturns, slotvars
  <1>4. CASE Sdk
    BY <1>4 DEF Sdk, Confirm, Desired, Acknowledge, Quit, InSdk
  <1>5. CASE UNCHANGED vars
    BY <1>5 DEF vars, slotvars
  <1> QED BY <1>1, <1>2, <1>3, <1>4, <1>5 DEF Next, Main

LEMMA Inductive == Spec => []IInv
  <1>1. IInv /\ [Next]_vars => IInv'
    BY LoopStep, TwinStep, HandlesStep, OwnedStep, EndedStep DEF IInv
  <1> QED BY InitInv, <1>1, PTL DEF Spec

(* Every variable keeps its type: no slot but the array's is used and the    *)
(* turns between two messages do not exceed the period.                      *)
THEOREM TypeSafety == Spec => []TypeOK
  <1>1. IInv => TypeOK
    <2> SUFFICES ASSUME IInv PROVE TypeOK
      OBVIOUS
    <2>1. iterator \in 0 .. FIRST + PERIOD
      BY DEF IInv, LoopOK
    <2> QED BY <2>1 DEF IInv, LoopOK, TwinOK, HandlesOK, Contexts, TypeOK
  <1> QED BY <1>1, Inductive, PTL

(* No handle is destroyed twice and every confirmation finds its own, until  *)
(* a slot is reused while its message is awaited.                            *)
THEOREM DestroySafety == Spec => []DestroyedOnce
  <1>1. IInv => DestroyedOnce
    BY DEF IInv, Owned, DestroyedOnce
  <1> QED BY <1>1, Inductive, PTL

(* At the end only the refused messages are left, with the same exception.   *)
THEOREM LeakSafety == Spec => []NothingLeft
  <1>1. IInv => NothingLeft
    BY DEF IInv, Owned, Ended, NothingLeft
  <1> QED BY <1>1, Inductive, PTL
===============================================================================
