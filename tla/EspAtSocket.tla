----------------------------- MODULE EspAtSocket ------------------------------
(***************************************************************************)
(* Sockets over the AT commands of the Wi-Fi module                        *)
(* (src/app_iothub_client/src/esp_at_socket.c).  A task of the application *)
(* calls esp_at_socket_*, in the order socketio_esp_at.c calls them; the   *)
(* task MAIN parses the lines of the module (esp_at_rx_handler), sets the  *)
(* state of the connections and passes the kind of each reply through the  *)
(* data queue DTQ_ESP_AT.  A reply says neither which command nor which    *)
(* link it is for.                                                         *)
(*                                                                         *)
(* The module is configured at the start: the first prepare_esp_at has     *)
(* come to esp_state_done.  +IPD brings one byte; the ring of the bytes is *)
(* in AtRxRing.                                                            *)
(***************************************************************************)
EXTENDS AtModem, FiniteSets, SequencesExt

CONSTANTS
    DTQ_SIZE,   (* entries of DTQ_ESP_AT: 4                                 *)
    RX_SIZE,    (* bytes a connection's buffer holds                        *)
    Prompt,     (* TRUE: the module answers within the timeouts, is never   *)
                (* busy, and its time stays fresh                           *)
    Quiet,      (* TRUE: peers send and close only between the calls        *)
    MaxGen,     (* bound: connections created                               *)
    MaxSends,   (* bound: calls of esp_at_socket_send                       *)
    MaxPreps    (* bound: commands of prepare_esp_at written before its     *)
                (* last pass                                                *)

ASSUME SocketAssumption ==
    /\ DTQ_SIZE \in Nat \ {0} /\ RX_SIZE \in Nat /\ MaxGen \in Nat
    /\ MaxSends \in Nat /\ MaxPreps \in Nat
    /\ Prompt \in BOOLEAN /\ Quiet \in BOOLEAN

VARIABLES
    used,       (* at_connection_t.used                                     *)
    state,      (* at_connection_t.state                                    *)
    rx,         (* at_connection_t.rx_buff between rx_pos_r and rx_pos_w    *)
    gen,        (* the number of the connection last made of each entry     *)
    handle,     (* io_state of the socketio that holds the entry            *)
    dtq,        (* DTQ_ESP_AT                                               *)
    out,        (* response_kind of MAIN, "no_set": nothing to pass on      *)
    op, pc, cur,(* the application: in which call, where, for which entry   *)
    wifi,       (* current_state.wifi_state                                 *)
    esp,        (* esp_serial_state.esp_state                               *)
    preps,      (* commands prepare_esp_at has written so far               *)
    gens,       (* connections created so far                               *)
    sends,      (* calls of esp_at_socket_send so far                       *)
    acked,      (* payloads whose send returned their length                *)
    stray       (* data was stored through the buffer of a deleted entry    *)

prepVars   == <<esp, preps>>
appVars    == <<op, pc, cur, gens, sends, acked, handle, used, gen>>
vars       == <<modemVars, appVars, prepVars, state, rx, dtq, out, stray, wifi>>

Kinds == {"no_set", "ok", "send_ok", "busy", "progress", "connect", "closed",
          "error", "already_connect", "received", "ready"}

Init ==
    /\ ModemInit
    /\ used = [l \in Links |-> FALSE] /\ gen = [l \in Links |-> 0]
    /\ state = [l \in Links |-> "disconnected"]
    /\ rx = [l \in Links |-> <<>>] /\ handle = [l \in Links |-> "CLOSED"]
    /\ dtq = <<>> /\ out = "no_set"
    /\ op = "none" /\ pc = "idle" /\ cur = raw
    /\ gens = 0 /\ sends = 0 /\ acked = {} /\ stray = FALSE
    /\ wifi = "got_ip" /\ esp = "done" /\ preps = 0
-------------------------------------------------------------------------------
(* MAIN: a line has been parsed up to its last character.  The link id     *)
(* before CONNECT, ALREADY CONNECT and CLOSED is read into params, and     *)
(* params is cleared when the name of the line is recognised: the handlers *)
(* find 0 there.  That of +IPD comes after the name and is kept.           *)
ParsedLink(m) == IF m.kind = "ipd" THEN m.link ELSE 0

ConnStateKeepsClosed(m) ==      \* faulty: at_closed_exec only reports
    IF m.kind \in {"connect", "already_connect"} THEN "connected" ELSE state[ParsedLink(m)]
ConnState(m) ==
    CASE m.kind \in {"connect", "already_connect"} -> "connected"
      [] m.kind = "closed" -> "disconnected"
      [] OTHER -> state[ParsedLink(m)]

(* busy is a state of the Wi-Fi, too; WIFI GOT IP is no reply. *)
WifiState(m) ==
    CASE m.kind = "busy"   -> "busy"
      [] m.kind = "ready"  -> "disconnected"
      [] m.kind = "got_ip" -> "got_ip"
      [] OTHER -> wifi
ReplyKind(m) ==
    CASE m.kind = "ipd" -> "received" [] m.kind = "got_ip" -> "no_set" [] OTHER -> m.kind

Parse == LET m == Head(line)
             l == ParsedLink(m) IN
    /\ out = "no_set" /\ line # <<>>
    /\ line' = Tail(line)
    /\ state' = [state EXCEPT ![l] = ConnState(m)]
    /\ IF m.kind = "ipd" /\ Len(rx[l]) < RX_SIZE
       THEN /\ rx' = [rx EXCEPT ![l] = Append(@, m.gen)]
            /\ stray' = (stray \/ ~used[l])
       ELSE UNCHANGED <<rx, stray>>
    /\ out' = ReplyKind(m) /\ wifi' = WifiState(m)
    /\ UNCHANGED <<tx, mode, raw, link, sent, unasked, forgotten, appVars, prepVars, dtq>>

(* tsnd_dtq: into the queue, or given up after 20 ms of a full queue. *)
PassOn ==
    /\ out # "no_set"
    /\ \/ Len(dtq) < DTQ_SIZE /\ dtq' = Append(dtq, out)
       \/ Len(dtq) = DTQ_SIZE /\ UNCHANGED dtq
    /\ out' = "no_set"
    /\ UNCHANGED <<modemVars, appVars, prepVars, wifi, state, rx, stray>>
-------------------------------------------------------------------------------
(* The application's calls.  MAIN has the higher priority: what has come   *)
(* in is parsed before the application goes on, unless it keeps coming.    *)
Settled == line = <<>> /\ out = "no_set"
Goto(p) == pc' = p
Call(o, l) ==
    /\ pc = "idle" /\ (Quiet => Settled)
    /\ op' = o /\ cur' = l /\ Goto("enter")
Return(h) ==
    /\ op' = "none" /\ Goto("idle")
    /\ handle' = [handle EXCEPT ![cur] = h]
(* esp_at_socket_destroy, which socketio calls after a failed connect and  *)
(* after every close *)
DestroyKeepsOpen ==             \* faulty: io_state stays as it is
    used' = [used EXCEPT ![cur] = FALSE] /\ op' = "none" /\ Goto("idle") /\ UNCHANGED handle
Destroy == used' = [used EXCEPT ![cur] = FALSE] /\ Return("CLOSED")
Inside  == UNCHANGED <<op, cur, gens, sends, acked, handle, used, gen>>

(* esp_serial_read: the oldest reply, or none until the timeout. *)
Got(k)   == dtq # <<>> /\ k = Head(dtq) /\ dtq' = Tail(dtq)
TimedOut == dtq = <<>> /\ UNCHANGED dtq
            /\ (Prompt => tx = <<>> /\ line = <<>> /\ out = "no_set")

(* esp_at_socket_create: the first entry that is not in use, zeroed. *)
NewState == "disconnected"
Create(l) ==
    /\ ~used[l] /\ \A e \in Links : e < l => used[e]
    /\ gens < MaxGen
    /\ Call("connect", l)
    /\ gens' = gens + 1 /\ gen' = [gen EXCEPT ![l] = gens + 1]
    /\ used' = [used EXCEPT ![l] = TRUE]
    /\ state' = [state EXCEPT ![l] = NewState]
    /\ rx' = [rx EXCEPT ![l] = <<>>]
    /\ UNCHANGED <<modemVars, prepVars, wifi, dtq, out, sends, acked, handle, stray>>

CallSend(l) ==
    /\ handle[l] = "OPEN" /\ sends < MaxSends
    /\ Call("send", l)
    /\ sends' = sends + 1
    /\ UNCHANGED <<modemVars, prepVars, wifi, dtq, out, state, rx, stray, gens, gen, used, acked, handle>>

CallClose(l) ==
    /\ handle[l] # "CLOSED"
    /\ Call("close", l)
    /\ UNCHANGED <<modemVars, prepVars, wifi, dtq, out, state, rx, stray, gens, gen, used, sends, acked, handle>>

(* esp_at_socket_receive as retrieve_data repeats it, until nothing is left *)
Receive(l) ==
    /\ pc = "idle" /\ handle[l] = "OPEN" /\ (Quiet => Settled)
    /\ \/ /\ state[l] = "connected"
          /\ rx[l] # <<>> /\ rx' = [rx EXCEPT ![l] = <<>>]
          /\ UNCHANGED handle
       \/ /\ state[l] # "connected"
          /\ handle' = [handle EXCEPT ![l] = "ERROR"]
          /\ UNCHANGED rx
    /\ UNCHANGED <<modemVars, prepVars, wifi, dtq, out, state, stray, op, pc, cur, gens, sends, acked, used, gen>>
-------------------------------------------------------------------------------
(* connect: already connected, or the module is prepared: prepare_esp_at   *)
(* only clears the queue.                                                  *)
ConnectEnter ==
    /\ op = "connect" /\ pc = "enter"
    /\ \/ /\ state[cur] = "connected" /\ Return("OPEN")
          /\ UNCHANGED <<dtq, cur, gens, sends, acked, used, gen>>
       \/ /\ state[cur] # "connected" /\ wifi = "got_ip" /\ esp = "done"
          /\ Goto("mark") /\ dtq' = <<>> /\ Inside
    /\ UNCHANGED <<modemVars, prepVars, wifi, state, rx, out, stray>>

(* prepare_esp_at has commands to write: all of them when the Wi-Fi is not *)
(* up, the rest where it gave up, or the time again when the network's is  *)
(* an hour old.  A pass begins at Clear.                                   *)
Pass(e) == preps < MaxPreps /\ esp' = e /\ Goto("clear")
PrepVars == UNCHANGED <<modemVars, preps, wifi, state, rx, out, stray,
                        cur, gens, sends, acked, handle, used, gen>>
Prepare ==
    /\ op = "connect" /\ pc = "enter" /\ state[cur] # "connected"
    /\ \/ wifi # "got_ip" /\ Pass("echo_off")
       \/ wifi = "got_ip" /\ esp # "done" /\ Pass(esp)
       \/ wifi = "got_ip" /\ esp = "done" /\ ~Prompt /\ Pass("get_time")
    /\ op' = "prepare"
    /\ PrepVars /\ UNCHANGED dtq

CloseEnterSkips ==              \* faulty: a connection that is up is left alone
    /\ op = "close" /\ pc = "enter"
    /\ \/ state[cur] = "connected" /\ Destroy /\ UNCHANGED <<cur, gens, sends, acked, gen>>
       \/ state[cur] # "connected" /\ Goto("mark") /\ Inside
    /\ UNCHANGED <<modemVars, prepVars, wifi, state, rx, dtq, out, stray>>
CloseEnter ==
    /\ op = "close" /\ pc = "enter"
    /\ \/ state[cur] = "disconnected" /\ Destroy /\ UNCHANGED <<cur, gens, sends, acked, gen>>
       \/ state[cur] # "disconnected" /\ Goto("mark") /\ Inside
    /\ UNCHANGED <<modemVars, prepVars, wifi, state, rx, dtq, out, stray>>

SendEnter ==
    /\ op = "send" /\ pc = "enter"
    /\ \/ state[cur] # "connected" /\ Return("ERROR") /\ UNCHANGED <<cur, gens, sends, acked, used, gen>>
       \/ state[cur] = "connected" /\ Goto("clear") /\ Inside
    /\ UNCHANGED <<modemVars, prepVars, wifi, state, rx, dtq, out, stray>>

Mark ==
    /\ pc = "mark"
    /\ state' = [state EXCEPT ![cur] = IF op = "connect" THEN "connecting" ELSE "disconnecting"]
    /\ Goto("clear") /\ Inside
    /\ UNCHANGED <<modemVars, prepVars, wifi, rx, dtq, out, stray>>

(* esp_serial_write: ini_dtq, then the text of the command. *)
Clear ==
    /\ pc = "clear"
    /\ dtq' = <<>>
    /\ Goto("write") /\ Inside
    /\ UNCHANGED <<modemVars, prepVars, wifi, state, rx, out, stray>>

Setting ==
    CASE esp = "reset" -> "RST" [] esp = "echo_off" -> "ATE0"
      [] esp = "connect_ap" -> "CWJAP" [] OTHER -> "CIPSNTPTIME"
Command ==
    CASE op = "connect" -> "CIPSTART" [] op = "close" -> "CIPCLOSE"
      [] op = "send" -> "CIPSEND" [] OTHER -> Setting
Text == [cmd  |-> IF pc = "data" THEN "DATA" ELSE Command,
         link |-> cur, gen |-> gen[cur], no |-> IF op = "prepare" THEN preps ELSE sends]
Write ==
    /\ pc \in {"write", "data"} /\ Len(tx) < TxMax
    /\ tx' = Append(tx, Text)
    /\ preps' = IF op = "prepare" THEN preps + 1 ELSE preps
    /\ Goto(IF pc = "write" THEN "first" ELSE "done") /\ Inside
    /\ UNCHANGED <<line, mode, raw, link, sent, unasked, forgotten, esp, wifi, state, rx, dtq, out, stray>>
-------------------------------------------------------------------------------
(* The replies of a call; "no_set" stands for the timeout. *)
Reply(k) == Got(k) \/ (TimedOut /\ k = "no_set")

(* prepare_esp_at: the next command, and after the time the connect; the   *)
(* time again (no year yet, or the local clock an hour ahead); after busy  *)
(* all from the reset on; or it returns FALSE, and connect fails.          *)
NextEsp ==
    CASE esp = "reset" -> "echo_off" [] esp = "echo_off" -> "connect_ap"
      [] esp = "connect_ap" -> "get_time" [] OTHER -> "done"
PrepareGoesOn(k) ==
    /\ op = "prepare" /\ pc \in {"first", "second"}
    /\ Reply(k)
    /\ \/ pc = "first" /\ esp = "reset" /\ k = "ok" /\ Goto("second") /\ UNCHANGED <<op, esp>>
       \/ /\ IF pc = "second" THEN k = "ready" ELSE esp # "reset" /\ k = "ok"
          /\ esp' = NextEsp
          /\ IF NextEsp = "done" THEN op' = "connect" /\ Goto("mark")
                                 ELSE UNCHANGED op /\ Goto("clear")
    /\ PrepVars

PrepareRetries(k) ==
    /\ op = "prepare" /\ pc = "first"
    /\ Reply(k)
    /\ \/ esp = "get_time" /\ k = "ok" /\ Pass("get_time")
       \/ esp # "reset" /\ k = "busy" /\ Pass("reset")
    /\ UNCHANGED op /\ PrepVars

PrepareFails(k) ==
    /\ op = "prepare" /\ pc \in {"first", "second"}
    /\ Reply(k)
    /\ \/ pc = "first" /\ esp = "reset" /\ k # "ok" /\ UNCHANGED esp
       \/ pc = "second" /\ k # "ready" /\ UNCHANGED esp
       \/ /\ pc = "first" /\ esp # "reset" /\ k # "busy"
          /\ k # "ok" \/ esp = "get_time"
          /\ esp' = "echo_off"
    /\ Destroy /\ UNCHANGED <<cur, gens, sends, acked, gen>>
    /\ UNCHANGED <<modemVars, preps, wifi, state, rx, out, stray>>

ConnectReply(k) ==
    /\ op = "connect" /\ pc \in {"first", "second"}
    /\ Reply(k)
    /\ \/ pc = "first" /\ k = "connect" /\ Goto("second") /\ Inside
       \/ pc = "second" /\ k = "ok" /\ Return("OPEN") /\ UNCHANGED <<cur, gens, sends, acked, used, gen>>
       \/ /\ k # IF pc = "first" THEN "connect" ELSE "ok"
          /\ Destroy /\ UNCHANGED <<cur, gens, sends, acked, gen>>
    /\ UNCHANGED <<modemVars, prepVars, wifi, state, rx, out, stray>>

(* After CLOSED one more reply is read; whatever it is, close returns. *)
CloseReply(k) ==
    /\ op = "close" /\ pc \in {"first", "second"}
    /\ Reply(k)
    /\ \/ pc = "first" /\ k = "closed" /\ Goto("second") /\ Inside
       \/ (pc = "first" => k # "closed") /\ Destroy /\ UNCHANGED <<cur, gens, sends, acked, gen>>
    /\ UNCHANGED <<modemVars, prepVars, wifi, state, rx, out, stray>>

SendFails == Return("ERROR") /\ UNCHANGED <<cur, gens, sends, acked, used, gen>>

SendReply(k) ==
    /\ op = "send" /\ pc = "first"
    /\ Reply(k)
    /\ IF k = "ok" THEN Goto("prompt") /\ Inside ELSE SendFails
    /\ UNCHANGED <<modemVars, prepVars, wifi, state, rx, out, stray>>

PromptReplyGivesUp(k) ==        \* faulty: the two kinds compared with || instead of &&
    /\ op = "send" /\ pc = "prompt"
    /\ Reply(k)
    /\ IF k = "ok" THEN Goto("prompt") /\ Inside ELSE SendFails
    /\ UNCHANGED <<modemVars, prepVars, wifi, state, rx, out, stray>>
PromptReply(k) ==
    /\ op = "send" /\ pc = "prompt"
    /\ Reply(k)
    /\ CASE k = "ok"       -> Goto("prompt") /\ Inside
         [] k = "progress" -> Goto("data") /\ Inside
         [] OTHER          -> SendFails
    /\ UNCHANGED <<modemVars, prepVars, wifi, state, rx, out, stray>>

SendOk ==
    /\ Return("OPEN")
    /\ acked' = acked \cup {sends}
    /\ UNCHANGED <<cur, gens, sends, used, gen>>
DoneReplyAny(k) ==              \* faulty: any reply after the payload counts
    /\ op = "send" /\ pc = "done"
    /\ Reply(k)
    /\ IF k = "no_set" THEN SendFails ELSE SendOk
    /\ UNCHANGED <<modemVars, prepVars, wifi, state, rx, out, stray>>
DoneReplyEarly(k) ==            \* faulty: success once the payload is written
    /\ op = "send" /\ pc = "done" /\ k = "no_set"
    /\ SendOk
    /\ UNCHANGED <<modemVars, prepVars, wifi, state, rx, dtq, out, stray>>
DoneReplyWaits(k) ==            \* faulty: the timeout does not leave the loop
    /\ op = "send" /\ pc = "done"
    /\ Reply(k)
    /\ CASE k = "send_ok"          -> SendOk
         [] k \in {"ok", "no_set"} -> Goto("done") /\ Inside
         [] OTHER                  -> SendFails
    /\ UNCHANGED <<modemVars, prepVars, wifi, state, rx, out, stray>>
DoneReply(k) ==
    /\ op = "send" /\ pc = "done"
    /\ Reply(k)
    /\ CASE k = "send_ok" -> SendOk
         [] k = "ok"      -> Goto("done") /\ Inside
         [] OTHER         -> SendFails
    /\ UNCHANGED <<modemVars, prepVars, wifi, state, rx, out, stray>>
-------------------------------------------------------------------------------
Begin == \E l \in Links : Create(l) \/ CallSend(l) \/ CallClose(l) \/ Receive(l)
Step ==
    \/ ConnectEnter \/ Prepare \/ CloseEnter \/ SendEnter \/ Mark \/ Clear \/ Write
    \/ \E k \in Kinds : PrepareGoesOn(k) \/ PrepareRetries(k) \/ PrepareFails(k)
                        \/ ConnectReply(k) \/ CloseReply(k) \/ SendReply(k)
                        \/ PromptReply(k) \/ DoneReply(k)
Modem ==
    /\ Execute \/ (~Prompt /\ Busy) \/ ((Quiet => pc = "idle") /\ Unasked)
    /\ UNCHANGED <<appVars, prepVars, wifi, state, rx, dtq, out, stray>>

Next == Begin \/ Step \/ Parse \/ PassOn \/ Modem

Spec == Init /\ [][Next]_vars

(* The application's task runs when MAIN does not, MAIN when there is      *)
(* input, and the module reads what was sent to it.                        *)
FairSpec ==
    /\ Spec
    /\ WF_vars(Step) /\ WF_vars(Parse) /\ WF_vars(PassOn)
    /\ WF_vars(Execute /\ UNCHANGED <<appVars, prepVars, wifi, state, rx, dtq, out, stray>>)
-------------------------------------------------------------------------------
ConnStates == {"disconnected", "connecting", "connected", "disconnecting"}
Places == {"idle", "enter", "mark", "clear", "write", "first", "second", "prompt", "data", "done"}
EspStates == {"reset", "echo_off", "connect_ap", "get_time", "done"}
Lines  == [kind : Kinds \cup {"ipd", "got_ip"}, link : Links, gen : Nat]

(* Every variable has its type, the queue and the buffers keep to their    *)
(* sizes, and an entry held by a socketio is in use.                       *)
TypeOK ==
    /\ tx \in Seq(Texts) /\ line \in Seq(Lines)
    /\ mode \in {"cmd", "raw"} /\ raw \in Links
    /\ link \in [Links -> 0 .. MaxGen]
    /\ used \in [Links -> BOOLEAN] /\ gen \in [Links -> 0 .. MaxGen]
    /\ state \in [Links -> ConnStates]
    /\ rx \in [Links -> Seq(Nat)] /\ dtq \in Seq(Kinds) /\ out \in Kinds
    /\ handle \in [Links -> {"CLOSED", "OPEN", "ERROR"}]
    /\ wifi \in {"got_ip", "busy", "disconnected"}
    /\ esp \in EspStates /\ preps \in Nat /\ forgotten \subseteq Links
    /\ op \in {"none", "prepare", "connect", "send", "close"} /\ pc \in Places /\ cur \in Links
    /\ gens \in 0 .. MaxGen /\ sends \in 0 .. MaxSends
    /\ Len(dtq) <= DTQ_SIZE /\ (pc = "idle") = (op = "none")
    /\ \A l \in Links : Len(rx[l]) <= RX_SIZE /\ (handle[l] # "CLOSED" => used[l])

(* A connection the driver holds for connected is open in the module, or   *)
(* the line that says it was closed is on its way: at_connect_exec,        *)
(* at_closed_exec and the assignments of connect and close, which run in   *)
(* two tasks, keep connection->state true.  A link the module forgot in    *)
(* the restart prepare_esp_at asked for is the exception: "ready" does not *)
(* reset the connections.                                                  *)
ConnectedReal == \A l \in Links :
    state[l] = "connected" =>
        link[l] # 0 \/ l \in forgotten \/ \E i \in DOMAIN line : line[i] = Line("closed", l)

(* When esp_at_socket_send returns the length, the module has transmitted  *)
(* that payload, whatever was received or closed meanwhile.                *)
SendSound == \A n \in acked : \E t \in sent : t.cmd = "DATA" /\ t.no = n

(* However late or wrong the replies are, esp_at_socket_send does not       *)
(* report success more often than the module has transmitted a text: no    *)
(* other reply passes for SEND OK, and none is taken twice.                *)
SendBacked == Cardinality(acked) <= Cardinality(sent)

(* The module never takes the text of an AT command for payload.           *)
CommandsStayCommands == \A t \in sent : t.cmd = "DATA"

(* Bytes in the buffer of a connection came from the peer this connection  *)
(* was made to, and none was stored for an entry that is not in use.       *)
OwnData ==
    /\ ~stray
    /\ \A l \in Links : \A i \in DOMAIN rx[l] : used[l] => rx[l][i] = gen[l]

(* As long as the peers neither send nor close, no call on an open         *)
(* connection fails.                                                       *)
NoError == unasked = 0 => \A l \in Links : handle[l] # "ERROR"

(* send and close return, and connect once prepare_esp_at has, however     *)
(* late or wrong the replies are.                                          *)
CallReturns ==
    op \in {"send", "close"} \/ (op = "connect" /\ pc # "enter") ~> op = "none"
===============================================================================
