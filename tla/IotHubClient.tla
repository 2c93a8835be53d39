----------------------------- MODULE IotHubClient -----------------------------
(***************************************************************************)
(* The telemetry loop of the firmware (iothub_client_run in                *)
(* src/app_iothub_client/src/client.c): message slots and their            *)
(* confirmations, the twin's desired and reported threshold, and the end   *)
(* of the loop.                                                            *)
(*                                                                         *)
(* Everything runs in one task: the SDK calls the program's callbacks from *)
(* IoTHubClient_LL_DoWork and IoTHubClient_LL_Destroy, when it likes.      *)
(***************************************************************************)
EXTENDS Naturals

CONSTANTS
    MESSAGE_COUNT,      (* client.c: 5 slots                                *)
    DOWORK_LOOP_NUM,    (* client.c: 3 turns after quit                     *)
    PERIOD,             (* client.c: 5000 turns between two messages        *)
    FIRST,              (* client.c: 4000, where the counting starts         *)
    MaxMsgs,            (* bound: messages created                          *)
    MaxDesired          (* bound: changes of the desired threshold          *)

ASSUME ClientAssumption ==
    /\ MESSAGE_COUNT \in Nat \ {0} /\ DOWORK_LOOP_NUM \in Nat /\ FIRST \in Nat
    /\ PERIOD \in Nat \ {0, 1}     \* at 1 no turn is left for a report
    /\ MaxMsgs \in Nat /\ MaxDesired \in Nat

VARIABLES
    pc,
    iterator, drain,    (* counters of the two loops                        *)
    msgPos,             (* msg_id % MESSAGE_COUNT                           *)
    slot,               (* messages[].messageHandle, 0 for NULL             *)
    g_continueRunning, g_twinReport,
    mouse,              (* 1: mouseState exists                             *)
    (* The SDK. *)
    awaited,            (* context of each send not yet confirmed: message  *)
                        (* and slot                                         *)
    unacked,            (* reports not yet acknowledged                     *)
    (* The heap and history. *)
    made,               (* message handles made, numbered from 1            *)
    live,               (* those not destroyed                              *)
    again,              (* those destroyed twice                            *)
    refused,            (* those IoTHubClient_LL_SendEventAsync refused     *)
    reused,             (* 1: a slot was written while its message was      *)
                        (* awaited                                          *)
    desired,            (* changes of the desired threshold, the last of    *)
                        (* them in mouseSettings->threshold.value           *)
    answered            (* the change last reported, or the one whose       *)
                        (* report failed                                    *)

slotvars == <<msgPos, slot, made, live, again, refused, reused, awaited>>
twinvars == <<g_twinReport, mouse, unacked, desired, answered>>
vars     == <<pc, iterator, drain, g_continueRunning, slotvars, twinvars>>

Slots == 0 .. MESSAGE_COUNT - 1
NextSlot(i) == IF i + 1 = MESSAGE_COUNT THEN 0 ELSE i + 1

(* The SDK runs, and may call back. *)
InSdk == pc \in {"work", "drain", "destroy"}
-------------------------------------------------------------------------------
(* Faulty variants, none of them part of Next. *)
ConfirmKeeps(a) ==              \* the handle is not destroyed
    /\ InSdk /\ a \in awaited
    /\ awaited' = awaited \ {a}
    /\ UNCHANGED <<pc, iterator, drain, g_continueRunning,
                   msgPos, slot, made, live, again, refused, reused, twinvars>>

SendAndDestroy ==               \* the handle is destroyed after the send, too
    /\ pc = "send" /\ made < MaxMsgs
    /\ made' = made + 1
    /\ slot' = [slot EXCEPT ![msgPos] = made + 1]
    /\ reused' = IF \E a \in awaited : a.slot = msgPos THEN 1 ELSE reused
    /\ awaited' = awaited \cup {[msg |-> made + 1, slot |-> msgPos]}
    /\ msgPos' = NextSlot(msgPos)
    /\ pc' = "turned"
    /\ UNCHANGED <<iterator, drain, g_continueRunning, live, again, refused, twinvars>>

DesiredUnflagged ==             \* g_twinReport is set for the first change only
    /\ InSdk /\ mouse = 1 /\ desired < MaxDesired
    /\ desired' = desired + 1
    /\ g_twinReport' = IF desired = 0 THEN 1 ELSE g_twinReport
    /\ UNCHANGED <<pc, iterator, drain, g_continueRunning, slotvars, mouse, unacked, answered>>

WorkReturnsBusy ==              \* the loop is left once all is confirmed
    /\ pc = "work"
    /\ pc' = IF g_continueRunning = 1 \/ awaited # {} THEN "turn" ELSE "drain"
    /\ UNCHANGED <<iterator, drain, g_continueRunning, slotvars, twinvars>>
-------------------------------------------------------------------------------
(* One turn of the loop: a message every PERIOD turns, or a report. *)
TurnSends ==
    /\ pc = "turn" /\ iterator >= PERIOD
    /\ iterator' = 0 /\ pc' = "send"
    /\ UNCHANGED <<drain, g_continueRunning, slotvars, twinvars>>

(* SERIALIZE fails: the slot is left alone. *)
SerializeFails ==
    /\ pc = "send"
    /\ pc' = "turned"
    /\ UNCHANGED <<iterator, drain, g_continueRunning, slotvars, twinvars>>

(* IoTHubMessage_CreateFromByteArray fails: the slot becomes NULL. *)
CreateFails ==
    /\ pc = "send"
    /\ slot' = [slot EXCEPT ![msgPos] = 0]
    /\ reused' = IF \E a \in awaited : a.slot = msgPos THEN 1 ELSE reused
    /\ pc' = "turned"
    /\ UNCHANGED <<iterator, drain, g_continueRunning,
                   msgPos, made, live, again, refused, awaited, twinvars>>

(* The message goes into the slot whether or not the one before it there   *)
(* was confirmed, and IoTHubClient_LL_SendEventAsync takes a clone of it,  *)
(* or refuses.                                                             *)
CreateAndSend ==
    /\ pc = "send" /\ made < MaxMsgs
    /\ made' = made + 1 /\ live' = live \cup {made + 1}
    /\ slot' = [slot EXCEPT ![msgPos] = made + 1]
    /\ reused' = IF \E a \in awaited : a.slot = msgPos THEN 1 ELSE reused
    /\ \/ awaited' = awaited \cup {[msg |-> made + 1, slot |-> msgPos]} /\ UNCHANGED refused
       \/ refused' = refused \cup {made + 1} /\ UNCHANGED awaited
    /\ msgPos' = NextSlot(msgPos)
    /\ pc' = "turned"
    /\ UNCHANGED <<iterator, drain, g_continueRunning, again, twinvars>>

(* The reported state goes out, or the call fails and nobody looks. *)
Report ==
    /\ pc = "turn" /\ iterator < PERIOD /\ g_twinReport = 1
    /\ g_twinReport' = 0
    /\ unacked' \in {unacked, unacked + 1}
    /\ answered' = desired
    /\ pc' = "turned"
    /\ UNCHANGED <<iterator, drain, g_continueRunning, slotvars, mouse, desired>>

TurnIdles ==
    /\ pc = "turn" /\ iterator < PERIOD /\ g_twinReport = 0
    /\ pc' = "turned"
    /\ UNCHANGED <<iterator, drain, g_continueRunning, slotvars, twinvars>>

(* iterator++ and IoTHubClient_LL_DoWork. *)
StartWork ==
    /\ pc = "turned"
    /\ iterator' = iterator + 1 /\ pc' = "work"
    /\ UNCHANGED <<drain, g_continueRunning, slotvars, twinvars>>

(* DoWork returns; after quit DOWORK_LOOP_NUM more calls are made. *)
WorkReturns ==
    /\ pc = "work"
    /\ pc' = IF g_continueRunning = 1 THEN "turn" ELSE "drain"
    /\ UNCHANGED <<iterator, drain, g_continueRunning, slotvars, twinvars>>

DrainReturns ==
    /\ pc = "drain" /\ drain < DOWORK_LOOP_NUM
    /\ drain' = drain + 1
    /\ UNCHANGED <<pc, iterator, g_continueRunning, slotvars, twinvars>>

(* The models are destroyed, and then the client. *)
DestroyModels ==
    /\ pc = "drain" /\ drain = DOWORK_LOOP_NUM
    /\ mouse' = 0 /\ pc' = "destroy"
    /\ UNCHANGED <<iterator, drain, g_continueRunning, slotvars,
                   g_twinReport, unacked, desired, answered>>

(* IoTHubClient_LL_Destroy has completed all that was pending. *)
DestroyReturns ==
    /\ pc = "destroy" /\ awaited = {} /\ unacked = 0
    /\ pc' = "done"
    /\ UNCHANGED <<iterator, drain, g_continueRunning, slotvars, twinvars>>
-------------------------------------------------------------------------------
(* Callbacks.  SendConfirmationCallback destroys what its slot holds now;  *)
(* the result (sent, timed out, destroyed) makes no difference.            *)
Confirm(a) ==
    /\ InSdk /\ a \in awaited
    /\ awaited' = awaited \ {a}
    /\ LET h == slot[a.slot] IN
           /\ live' = live \ {h}
           /\ again' = IF h = 0 \/ h \in live THEN again ELSE again \cup {h}
    /\ UNCHANGED <<pc, iterator, drain, g_continueRunning,
                   msgPos, slot, made, refused, reused, twinvars>>

(* onDesiredThreshold; the callback is removed with the models. *)
Desired ==
    /\ InSdk /\ mouse = 1 /\ desired < MaxDesired
    /\ desired' = desired + 1 /\ g_twinReport' = 1
    /\ UNCHANGED <<pc, iterator, drain, g_continueRunning, slotvars, mouse, unacked, answered>>

(* mouseReportedStateCallback reads mouseState. *)
Acknowledge ==
    /\ InSdk /\ unacked > 0
    /\ unacked' = unacked - 1
    /\ UNCHANGED <<pc, iterator, drain, g_continueRunning, slotvars,
                   g_twinReport, mouse, desired, answered>>

(* The message "quit" or the method quit. *)
Quit ==
    /\ pc = "work" /\ g_continueRunning = 1
    /\ g_continueRunning' = 0
    /\ UNCHANGED <<pc, iterator, drain, slotvars, twinvars>>
-------------------------------------------------------------------------------
(* iothub_client_run up to its loop. *)
Init ==
    /\ pc = "turn" /\ iterator = FIRST /\ drain = 0
    /\ msgPos = 0 /\ slot = [i \in Slots |-> 0]
    /\ g_continueRunning = 1 /\ g_twinReport \in {0, 1}
    /\ mouse = 1 /\ awaited = {} /\ unacked = 0
    /\ made = 0 /\ live = {} /\ again = {} /\ refused = {} /\ reused = 0
    /\ desired = 0 /\ answered = 0

Main == \/ TurnSends \/ SerializeFails \/ CreateFails \/ CreateAndSend \/ Report \/ TurnIdles
        \/ StartWork \/ WorkReturns \/ DrainReturns \/ DestroyModels \/ DestroyReturns

Sdk == (\E a \in awaited : Confirm(a)) \/ Desired \/ Acknowledge \/ Quit

Next == Main \/ Sdk

Spec == Init /\ [][Next]_vars

(* DoWork and Sleep return; IoTHubClient_LL_Destroy completes what is pending.  *)
FairSpec ==
    /\ Spec /\ WF_vars(Main)
    /\ WF_vars(pc = "destroy" /\ ((\E a \in awaited : Confirm(a)) \/ Acknowledge))
-------------------------------------------------------------------------------
Messages == 1 .. MaxMsgs

TypeOK ==
    /\ pc \in {"turn", "send", "turned", "work", "drain", "destroy", "done"}
    /\ iterator \in 0 .. FIRST + PERIOD /\ drain \in 0 .. DOWORK_LOOP_NUM
    /\ msgPos \in Slots /\ slot \in [Slots -> 0 .. made] /\ made \in 0 .. MaxMsgs
    /\ g_continueRunning \in {0, 1} /\ g_twinReport \in {0, 1} /\ mouse \in {0, 1}
    /\ awaited \subseteq [msg : 1 .. made, slot : Slots]
    /\ live \subseteq 1 .. made /\ again \subseteq 1 .. made /\ refused \subseteq 1 .. made
    /\ reused \in {0, 1} /\ unacked \in Nat
    /\ desired \in 0 .. MaxDesired /\ answered \in 0 .. desired

(* A message handle is destroyed at most once, and every confirmation to     *)
(* come finds its own message, still live, in its slot, as long as no slot   *)
(* was written while its message waited for its confirmation: the slots are  *)
(* taken in turn and nothing looks whether one is free (client.c:436-480,    *)
(* 279-288).                                                                 *)
DestroyedOnce ==
    reused = 0 => /\ again = {}
                  /\ \A a \in awaited : slot[a.slot] = a.msg /\ a.msg \in live

(* When the client is gone only the handles of the sends the SDK refused are *)
(* left, with the same exception (client.c:469-479, 508).                    *)
NothingLeft == pc = "done" /\ reused = 0 => live = refused

(* The threshold the twin asks for is reported back, the latest one if it    *)
(* changes again on the way, unless the call to report it fails or the loop  *)
(* ends: the turns that send a message do not starve the others, and no      *)
(* change that comes after a report is lost (client.c:171-181, 482-487).     *)
TwinSettles ==
    \A n \in 1 .. MaxDesired :
        (desired = n) ~> (answered >= n \/ g_continueRunning = 0)

(* "quit" ends the loop, whatever waits for a confirmation: all of it is     *)
(* confirmed in the end and the client destroyed (client.c:493-508).         *)
QuitEnds == (g_continueRunning = 0) ~> (pc = "done")
===============================================================================
