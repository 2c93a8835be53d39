---------------------------- MODULE XioEspAtProofs ----------------------------
(***************************************************************************)
(* Theorems about XioEspAt for any number of retries and any bounds, and   *)
(* whatever the user does in its callbacks.                                *)
(***************************************************************************)
EXTENDS XioEspAt, TLAPS

USE XioAssumption
-------------------------------------------------------------------------------
(* The list holds what was accepted and did not go out: consecutive numbers  *)
(* after b.                                                                  *)
Run(s, b) == s \in Seq(Nat) /\ \A i \in 1 .. Len(s) : s[i] = b + i

LEMMA AppendRun == ASSUME NEW s, NEW b \in Nat, Run(s, b)
                   PROVE  /\ Run(Append(s, b + Len(s) + 1), b)
                          /\ Len(Append(s, b + Len(s) + 1)) = Len(s) + 1
  <1> DEFINE e == b + Len(s) + 1
             t == Append(s, e)
  <1>1. s \in Seq(Nat) /\ Len(s) \in Nat /\ e \in Nat
    BY DEF Run
  <1>2. e = b + (Len(s) + 1)
    BY <1>1
  <1> HIDE DEF e
  <1>3. t \in Seq(Nat) /\ Len(t) = Len(s) + 1 /\ t[Len(s) + 1] = e
    BY <1>1
  <1>4. \A i \in 1 .. Len(s) : t[i] = s[i]
    BY <1>1
  <1> HIDE DEF t
  <1>5. ASSUME NEW i \in 1 .. Len(t) PROVE t[i] = b + i
    <2>1. CASE i = Len(s) + 1
      BY <1>2, <1>3, <2>1
    <2>2. CASE i \in 1 .. Len(s)
      BY <1>4, <2>2 DEF Run
    <2> QED BY <1>1, <1>3, <2>1, <2>2
  <1> QED BY <1>3, <1>5 DEF Run, e, t

LEMMA TailRun == ASSUME NEW s, NEW b \in Nat, Run(s, b), s # <<>>
                 PROVE  /\ Run(Tail(s), b + 1) /\ Len(Tail(s)) = Len(s) - 1
                        /\ Head(s) = b + 1 /\ Len(s) \in Nat \ {0}
  BY DEF Run

LEMMA NoneLeft == ASSUME NEW s \in Seq(Nat), Len(s) = 0 PROVE s = <<>>
  OBVIOUS

LEMMA EmptyRun == ASSUME NEW b PROVE Run(<<>>, b) /\ Len(<<>>) = 0
  BY DEF Run

(* While a message is confirmed it is still in the list. *)
Gone == IF pc = "sent" THEN wire - 1 ELSE wire

ListOK ==
    /\ wire \in Nat /\ accepted \in Nat /\ told \in Nat
    /\ accepted <= MaxSends /\ told <= wire
    /\ Gone \in Nat
    /\ Run(pending, Gone) /\ Len(pending) = accepted - Gone
    /\ pc = "sent" => pending # <<>>
    /\ pc = "none" => pending = <<>>

(* The fields of the instance. *)
FieldsOK ==
    /\ io_state \in {"CLOSED", "OPEN", "ERROR"}
    /\ pc \in Places
    /\ opens \in Nat /\ opens <= MaxOpens
    /\ socket \in Nat /\ socket <= opens
    /\ data \in Nat /\ data <= MaxData

CountsOK ==
    /\ errors \in Nat /\ errors <= RETRIES + 1
    /\ pc = "head" => errors <= RETRIES
    /\ reports \in {0, 1} /\ inloop \in {0, 1} /\ wild \in {0, 1}
    /\ io_state = "OPEN" => reports = 0

(* An open xio has a socket, and one that the loops go on with is open or    *)
(* was closed in a callback; a list that ends with the message just sent     *)
(* gives the loop no reason to go on.                                        *)
SocketOK ==
    /\ io_state = "OPEN" => socket # 0
    /\ pc \in {"recv", "bytes"} => io_state = "OPEN" \/ inloop = 1
    /\ pc = "head" => io_state = "OPEN" \/ inloop = 1 \/ pending = <<>>
    /\ pc = "sent" => io_state = "OPEN" \/ inloop = 1 \/ Len(pending) = 1
    /\ LiveSocket

IInv == ListOK /\ FieldsOK /\ CountsOK /\ SocketOK
-------------------------------------------------------------------------------
LEMMA InitInv == Init => IInv
  <1> SUFFICES ASSUME Init PROVE IInv
    OBVIOUS
  <1>1. ListOK
    BY EmptyRun DEF Init, ListOK, Gone
  <1>2. FieldsOK
    BY DEF Init, FieldsOK, Places, Callbacks
  <1>3. CountsOK /\ SocketOK
    BY DEF Init, CountsOK, SocketOK, LiveSocket
  <1> QED BY <1>1, <1>2, <1>3 DEF IInv

(* The list changes when a message is accepted, confirmed or destroyed. *)
LEMMA ListStep == ListOK /\ FieldsOK /\ [Next]_vars => ListOK'
  <1> SUFFICES ASSUME ListOK, FieldsOK, [Next]_vars PROVE ListOK'
    OBVIOUS
  <1>1. CASE Send
    <2>1. /\ accepted' = accepted + 1 /\ accepted' <= MaxSends
          /\ pending' = Append(pending, accepted + 1)
          /\ pc' = pc /\ wire' = wire /\ told' = told /\ pc # "none"
      BY <1>1 DEF Send, ListOK, UserRuns, Callbacks
    <2>2. Gone' = Gone /\ Gone \in Nat /\ accepted + 1 = Gone + Len(pending) + 1
      BY <2>1 DEF ListOK, Gone, Run
    <2>3. Run(pending', Gone) /\ Len(pending') = Len(pending) + 1
      BY <2>1, <2>2, AppendRun DEF ListOK
    <2> QED BY <2>1, <2>2, <2>3 DEF ListOK, Run
  <1>2. CASE SendWhole
    <2>1. /\ pc = "head" /\ pc' = "sent" /\ pending # <<>>
          /\ wire' = Head(pending) /\ told' = told + 1
          /\ pending' = pending /\ accepted' = accepted
      BY <1>2 DEF SendWhole
    <2>2. Gone = wire /\ Head(pending) = wire + 1
      BY <2>1, TailRun DEF ListOK, Gone
    <2>3. Gone' = wire
      BY <2>1, <2>2 DEF Gone, ListOK
    <2> QED BY <2>1, <2>2, <2>3 DEF ListOK
  <1>3. CASE SentReturn
    <2>1. /\ pc = "sent" /\ pc' = "head" /\ pending # <<>> /\ pending' = Tail(pending)
          /\ wire' = wire /\ told' = told /\ accepted' = accepted
      BY <1>3 DEF SentReturn, ListOK
    <2>2. Gone = wire - 1 /\ Gone' = wire /\ wire = Gone + 1
      BY <2>1 DEF Gone, ListOK
    <2>3. Run(pending', Gone + 1) /\ Len(pending') = Len(pending) - 1
      BY <2>1, TailRun DEF ListOK
    <2> QED BY <2>1, <2>2, <2>3 DEF ListOK
  <1>4. CASE Destroy
    <2>1. /\ pc' = "none" /\ pending' = <<>> /\ wire' = accepted
          /\ told' = told /\ accepted' = accepted /\ pc = "idle"
      BY <1>4 DEF Destroy
    <2>2. Gone' = accepted /\ told <= accepted
      BY <2>1 DEF Gone, ListOK, Run
    <2> QED BY <2>1, <2>2, EmptyRun DEF ListOK
  <1>5. CASE Create
    <2>1. /\ pc = "none" /\ pc' = "idle" /\ pending' = pending
          /\ wire' = wire /\ told' = told /\ accepted' = accepted
      BY <1>5 DEF Create, ListOK
    <2> QED BY <2>1 DEF ListOK, Gone
  <1>6. ASSUME UNCHANGED <<pending, wire, told, accepted>>,
               pc' # "none", pc # "sent", pc' # "sent"
        PROVE  ListOK'
    BY <1>6 DEF ListOK, Gone
  <1>7. CASE Open \/ DoWork \/ ReceiveData \/ ReceiveNothing \/ ReceiveFails \/ BytesReturn
    BY <1>6, <1>7 DEF Open, DoWork, ReceiveData, ReceiveNothing, ReceiveFails, BytesReturn,
       indicate_error
  <1>8. CASE QueueEmpty \/ SendNothing \/ SendFails \/ CallbackReturn
    BY <1>6, <1>8 DEF QueueEmpty, SendNothing, SendFails, CallbackReturn, indicate_error
  <1>9. CASE Close
    BY <1>9 DEF Close, ListOK, Gone
  <1>10. CASE UNCHANGED vars
    BY <1>10 DEF vars, ListOK, Gone
  <1> QED BY <1>1, <1>2, <1>3, <1>4, <1>5, <1>7, <1>8, <1>9, <1>10 DEF Next, User, Loop

(* The fields keep their types. *)
LEMMA FieldsStep == ListOK /\ FieldsOK /\ [Next]_vars => FieldsOK'
  <1> SUFFICES ASSUME ListOK, FieldsOK, [Next]_vars PROVE FieldsOK'
    OBVIOUS
  <1> USE DEF FieldsOK, Places, Callbacks
  <1>1. CASE User
    BY <1>1 DEF User, Create, Destroy, Open, Send, Close, UserRuns
  <1>2. CASE DoWork \/ ReceiveData \/ ReceiveNothing \/ ReceiveFails \/ BytesReturn
    BY <1>2 DEF DoWork, ReceiveData, ReceiveNothing, ReceiveFails, BytesReturn, indicate_error
  <1>3. CASE QueueEmpty \/ SendWhole \/ SendNothing \/ SendFails \/ SentReturn \/ CallbackReturn
    BY <1>3 DEF QueueEmpty, SendWhole, SendNothing, SendFails, SentReturn, CallbackReturn,
       indicate_error
  <1>4. CASE UNCHANGED vars
    BY <1>4 DEF vars
  <1> QED BY <1>1, <1>2, <1>3, <1>4 DEF Next, Loop

(* Tries are counted up to their limit, and an open xio has reported nothing. *)
LEMMA CountsStep == FieldsOK /\ CountsOK /\ [Next]_vars => CountsOK'
  <1> SUFFICES ASSUME FieldsOK, CountsOK, [Next]_vars PROVE CountsOK'
    OBVIOUS
  <1> USE DEF CountsOK
  <1>1. CASE User
    BY <1>1 DEF User, Create, Destroy, Open, Send, Close, UserRuns, Callbacks
  <1>2. CASE DoWork \/ ReceiveData \/ ReceiveNothing \/ ReceiveFails \/ BytesReturn
    BY <1>2 DEF DoWork, ReceiveData, ReceiveNothing, ReceiveFails, BytesReturn, Call,
       indicate_error
  <1>3. CASE QueueEmpty \/ SendWhole \/ SendFails \/ SentReturn \/ CallbackReturn
    BY <1>3 DEF QueueEmpty, SendWhole, SendFails, SentReturn, CallbackReturn, Call,
       indicate_error
  <1>4. CASE SendNothing
    BY <1>4 DEF SendNothing, Call, indicate_error
  <1>5. CASE UNCHANGED vars
    BY <1>5 DEF vars
  <1> QED BY <1>1, <1>2, <1>3, <1>4, <1>5 DEF Next, Loop

(* A loop goes on with an open xio or after a close in its callback. *)
LEMMA SocketStep == ListOK /\ FieldsOK /\ CountsOK /\ SocketOK /\ [Next]_vars => SocketOK'
  <1> SUFFICES ASSUME ListOK, FieldsOK, CountsOK, SocketOK, [Next]_vars PROVE SocketOK'
    OBVIOUS
  <1> USE DEF SocketOK, LiveSocket
  <1>1. CASE Create \/ Destroy \/ Open
    BY <1>1 DEF Create, Destroy, Open, FieldsOK
  <1>2. CASE Send
    BY <1>2 DEF Send, UserRuns, Callbacks
  <1>3. CASE Close
    <2>1. /\ socket' = 0 /\ io_state' = "CLOSED" /\ pc' = pc /\ pending' = pending /\ wild' = wild
          /\ inloop' = IF pc = "bytes" \/ (pc = "sent" /\ Len(pending) > 1) THEN 1 ELSE inloop
          /\ pc # "recv" /\ pc # "head"
      BY <1>3 DEF Close, UserRuns, Callbacks
    <2>2. pc = "sent" => Len(pending) > 1 \/ Len(pending) = 1
      BY TailRun DEF ListOK
    <2> QED BY <2>1, <2>2 DEF CountsOK
  <1>4. CASE DoWork \/ ReceiveData \/ ReceiveNothing \/ BytesReturn
    BY <1>4 DEF DoWork, ReceiveData, ReceiveNothing, BytesReturn, Call
  <1>5. CASE ReceiveFails \/ SendFails
    BY <1>5 DEF ReceiveFails, SendFails, Call, indicate_error
  <1>6. CASE QueueEmpty \/ CallbackReturn
    BY <1>6 DEF QueueEmpty, CallbackReturn
  <1>7. CASE SendWhole \/ SendNothing
    BY <1>7 DEF SendWhole, SendNothing, Call, indicate_error
  <1>8. CASE SentReturn
    <2>1. /\ pc = "sent" /\ pc' = "head" /\ pending' = Tail(pending) /\ pending # <<>>
          /\ UNCHANGED <<io_state, socket, inloop, wild>>
      BY <1>8 DEF SentReturn, ListOK
    <2>2. ASSUME Len(pending) = 1 PROVE Tail(pending) = <<>>
      <3>1. Tail(pending) \in Seq(Nat) /\ Len(Tail(pending)) = 0
        BY <2>1, <2>2, TailRun DEF ListOK, Run
      <3> QED BY <3>1, NoneLeft
    <2> QED BY <2>1, <2>2
  <1>9. CASE UNCHANGED vars
    BY <1>9 DEF vars
  <1> QED BY <1>1, <1>2, <1>3, <1>4, <1>5, <1>6, <1>7, <1>8, <1>9 DEF Next, User, Loop

LEMMA Inductive == Spec => []IInv
  <1>1. IInv /\ [Next]_vars => IInv'
    BY ListStep, FieldsStep, CountsStep, SocketStep DEF IInv
  <1> QED BY InitInv, <1>1, PTL DEF Spec

(* Every field keeps its type, the list holds numbers of messages and the    *)
(* tries end at their limit.                                                 *)
THEOREM TypeSafety == Spec => []TypeOK
  <1>1. IInv => TypeOK
    <2> SUFFICES ASSUME IInv PROVE TypeOK
      OBVIOUS
    <2>1. wire <= accepted
      BY DEF IInv, ListOK, Gone, Run
    <2>2. /\ pending \in Seq(Nat)
          /\ accepted \in 0 .. MaxSends /\ wire \in 0 .. MaxSends /\ told \in 0 .. MaxSends
      BY <2>1 DEF IInv, ListOK, Run
    <2>3. /\ io_state \in {"CLOSED", "OPEN", "ERROR"} /\ pc \in Places
          /\ socket \in 0 .. opens /\ opens \in 0 .. MaxOpens /\ data \in 0 .. MaxData
      BY DEF IInv, FieldsOK
    <2>4. /\ errors \in 0 .. RETRIES + 1 /\ reports \in 0 .. 1
          /\ inloop \in {0, 1} /\ wild \in {0, 1}
      BY DEF IInv, CountsOK
    <2> QED BY <2>2, <2>3, <2>4 DEF TypeOK
  <1> QED BY <1>1, Inductive, PTL

(* No socket call is made without a socket, but for the rest of a loop in    *)
(* whose callback the user closed.                                           *)
THEOREM SocketSafety == Spec => []LiveSocket
  <1>1. IInv => LiveSocket
    BY DEF IInv, SocketOK
  <1> QED BY <1>1, Inductive, PTL

(* An error is reported once for a connection and never after its close.     *)
THEOREM ReportSafety == Spec => ReportedOnce
  <1>1. IInv /\ [Next]_vars => [reports' > reports => io_state = "OPEN" /\ reports = 0]_vars
    <2> SUFFICES ASSUME IInv, Next, reports' > reports PROVE io_state = "OPEN" /\ reports = 0
      OBVIOUS
    <2>0. reports \in {0, 1} /\ (io_state = "OPEN" => reports = 0)
      BY DEF IInv, CountsOK
    <2>1. CASE ReceiveFails \/ SendFails \/ SendNothing
      BY <2>0, <2>1 DEF ReceiveFails, SendFails, SendNothing, indicate_error
    <2>2. CASE Open
      BY <2>0, <2>2 DEF Open
    <2>3. CASE Create \/ Destroy \/ Send \/ Close \/ DoWork
      BY <2>0, <2>3 DEF Create, Destroy, Send, Close, DoWork
    <2>4. CASE ReceiveData \/ ReceiveNothing \/ BytesReturn \/ QueueEmpty \/ SendWhole
               \/ SentReturn \/ CallbackReturn
      BY <2>0, <2>4 DEF ReceiveData, ReceiveNothing, BytesReturn, QueueEmpty, SendWhole,
         SentReturn, CallbackReturn
    <2> QED BY <2>1, <2>2, <2>3, <2>4 DEF Next, User, Loop
  <1> QED BY <1>1, Inductive, PTL DEF Spec, ReportedOnce

(* The xio implements the pipe: messages go out once each, in the order they *)
(* were accepted, whatever the callbacks do.                                 *)
THEOREM Refinement == Spec => ImplementsPipe
  <1>1. Init => Pipe!Init
    BY DEF Init, Pipe!Init
  <1>2. IInv /\ [Next]_vars => [Pipe!Next]_(Pipe!vars)
    <2> SUFFICES ASSUME IInv, [Next]_vars PROVE Pipe!Next \/ UNCHANGED Pipe!vars
      OBVIOUS
    <2> USE DEF Pipe!vars
    <2>1. CASE Send
      BY <2>1 DEF Send, Pipe!Next, Pipe!Accept
    <2>2. CASE SendWhole
      <3>1. /\ pc = "head" /\ pending # <<>> /\ wire' = Head(pending) /\ told' = told + 1
            /\ UNCHANGED <<io_state, accepted>>
        BY <2>2 DEF SendWhole
      <3>2. Gone = wire /\ Run(pending, wire) /\ Len(pending) = accepted - wire /\ wire \in Nat
        BY <3>1 DEF IInv, ListOK, Gone
      <3>3. Head(pending) = wire + 1 /\ Len(pending) \in Nat \ {0}
        BY <3>1, <3>2, TailRun
      <3>4. wire < accepted
        BY <3>2, <3>3 DEF IInv, ListOK
      <3> QED BY <3>1, <3>3, <3>4 DEF Pipe!Next, Pipe!Deliver
    <2>3. CASE Destroy
      BY <2>3 DEF Destroy, Pipe!Next, Pipe!Discard
    <2>4. ASSUME UNCHANGED <<accepted, wire, told>>
          PROVE  Pipe!Next \/ UNCHANGED Pipe!vars
      BY <2>4 DEF Pipe!Next, Pipe!OpenClose
    <2>5. CASE Create \/ Open \/ Close \/ DoWork
      BY <2>4, <2>5 DEF Create, Open, Close, DoWork
    <2>6. CASE Loop /\ ~SendWhole
      BY <2>4, <2>6 DEF Loop, ReceiveData, ReceiveNothing, ReceiveFails, BytesReturn, QueueEmpty,
         SendNothing, SendFails, SentReturn, CallbackReturn, indicate_error
    <2>7. CASE UNCHANGED vars
      BY <2>7 DEF vars
    <2> QED BY <2>1, <2>2, <2>3, <2>5, <2>6, <2>7 DEF Next, User
  <1> QED BY <1>1, <1>2, Inductive, PTL DEF Spec, ImplementsPipe, Pipe!Spec
===============================================================================
