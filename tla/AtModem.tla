------------------------------- MODULE AtModem --------------------------------
(***************************************************************************)
(* The Wi-Fi module behind the serial port AT_PORTID, an ESP running the   *)
(* AT firmware.  It is not part of the repository: what it answers is read *)
(* off the replies src/app_iothub_client/src/esp_at_socket.c waits for and *)
(* the response table of its parser.  Texts are records, one per command   *)
(* or line.                                                                *)
(***************************************************************************)
EXTENDS Naturals, Sequences

CONSTANTS
    Links,          (* link ids: 0 .. 4                                     *)
    TxMax,          (* bound: texts in the sending direction of the port    *)
    LineMax,        (* bound: the module answers while fewer lines wait     *)
    MaxUnsolicited  (* bound: lines the module sends unasked                *)

ASSUME ModemAssumption ==
    Links \subseteq Nat /\ 0 \in Links /\ TxMax \in Nat /\ LineMax \in Nat /\ MaxUnsolicited \in Nat

VARIABLES
    tx,             (* texts written to the port, the module has not read   *)
    line,           (* lines of the module, esp_at_rx_handler has not seen  *)
    mode,           (* "cmd", or "raw" after the prompt of CIPSEND          *)
    raw,            (* the link the next text goes to in raw mode           *)
    link,           (* per link: the connection it is open for, 0: closed   *)
    sent,           (* texts the module has transmitted to a peer           *)
    unasked,        (* lines sent unasked so far                            *)
    forgotten       (* links open when it restarted, not opened since       *)

modemVars == <<tx, line, mode, raw, link, sent, unasked, forgotten>>

(* ATE0 stands for the five settings ATE0 .. AT+CIPDINFO=1, CIPSNTPTIME    *)
(* for AT+CIPSNTPCFG too: each is answered by OK or ERROR.                 *)
Settings == {"RST", "ATE0", "CWJAP", "CIPSNTPTIME"}
Commands == {"CIPSTART", "CIPCLOSE", "CIPSEND", "DATA"} \cup Settings
(* no: the number of the payload of DATA, or of the setting; gen: the      *)
(* connection it is for.                                                   *)
Texts == [cmd : Commands, link : Links, gen : Nat, no : Nat]
Line(k, l) == [kind |-> k, link |-> l, gen |-> 0]
Data(l)    == [kind |-> "ipd", link |-> l, gen |-> link[l]]

ModemInit ==
    /\ tx = <<>> /\ line = <<>> /\ mode = "cmd" /\ raw = (CHOOSE l \in Links : TRUE)
    /\ link = [l \in Links |-> 0]
    /\ sent = {} /\ unasked = 0 /\ forgotten = {}
-------------------------------------------------------------------------------
Reads(c) ==
    /\ tx # <<>> /\ mode = "cmd" /\ Len(line) < LineMax
    /\ Head(tx).cmd = c
    /\ tx' = Tail(tx)
Answers(s) == line' = line \o s

(* AT+CIPSTART: the connection is made, refused, or was there already. *)
StartLink == LET l == Head(tx).link IN
    /\ Reads("CIPSTART")
    /\ \/ /\ link[l] = 0
          /\ link' = [link EXCEPT ![l] = Head(tx).gen]
          /\ forgotten' = forgotten \ {l}
          /\ Answers(<<Line("connect", l), Line("ok", l)>>)
       \/ /\ link[l] = 0
          /\ Answers(<<Line("error", l)>>)
          /\ UNCHANGED <<link, forgotten>>
       \/ /\ link[l] # 0
          /\ Answers(<<Line("already_connect", l), Line("error", l)>>)
          /\ UNCHANGED <<link, forgotten>>
    /\ UNCHANGED <<mode, raw, sent, unasked>>

(* AT+CIPCLOSE *)
CloseLink == LET l == Head(tx).link IN
    /\ Reads("CIPCLOSE")
    /\ IF link[l] # 0 THEN Answers(<<Line("closed", l), Line("ok", l)>>)
                      ELSE Answers(<<Line("error", l)>>)
    /\ link' = [link EXCEPT ![l] = 0]
    /\ UNCHANGED <<mode, raw, sent, unasked, forgotten>>

(* AT+CIPSEND: after the prompt the module takes what comes as payload. *)
PromptLink == LET l == Head(tx).link IN
    /\ Reads("CIPSEND")
    /\ \/ /\ link[l] # 0
          /\ mode' = "raw" /\ raw' = l
          /\ Answers(<<Line("ok", l), Line("progress", l)>>)
       \/ /\ link[l] = 0
          /\ Answers(<<Line("error", l)>>)
          /\ UNCHANGED <<mode, raw>>
    /\ UNCHANGED <<link, sent, unasked, forgotten>>

(* A payload that comes in command mode is no command. *)
NotCommand ==
    /\ Reads("DATA")
    /\ Answers(<<Line("error", Head(tx).link)>>)
    /\ UNCHANGED <<mode, raw, link, sent, unasked, forgotten>>

(* AT+RST: the module restarts and forgets its connections; it says        *)
(* nothing of them.                                                        *)
Restart == LET l == Head(tx).link IN
    /\ Reads("RST")
    /\ link' = [k \in Links |-> 0]
    /\ forgotten' = forgotten \cup {k \in Links : link[k] # 0}
    /\ Answers(<<Line("ok", l), Line("ready", l)>>)
    /\ UNCHANGED <<mode, raw, sent, unasked>>

Configure == \E c \in {"ATE0", "CIPSNTPTIME"} : \E k \in {"ok", "error"} :
    /\ Reads(c)
    /\ Answers(<<Line(k, Head(tx).link)>>)
    /\ UNCHANGED <<mode, raw, link, sent, unasked, forgotten>>

(* AT+CWJAP: the access point is joined, or not. *)
Join == LET l == Head(tx).link IN
    /\ Reads("CWJAP")
    /\ \/ Answers(<<Line("got_ip", l), Line("ok", l)>>)
       \/ Answers(<<Line("error", l)>>)
    /\ UNCHANGED <<mode, raw, link, sent, unasked, forgotten>>

(* In raw mode any text, a command too, is the payload.  "SEND FAIL" is    *)
(* not in the response table and is no line here.                          *)
Transmit ==
    /\ tx # <<>> /\ mode = "raw" /\ Len(line) < LineMax
    /\ tx' = Tail(tx)
    /\ mode' = "cmd"
    /\ \/ /\ link[raw] # 0
          /\ sent' = sent \cup {Head(tx)}
          /\ Answers(<<Line("send_ok", raw)>>)
       \/ /\ link[raw] = 0
          /\ UNCHANGED <<sent, line>>
    /\ UNCHANGED <<raw, link, unasked, forgotten>>

(* A command that comes while one is being executed is refused. *)
Busy == \E c \in Commands \ {"DATA"} :
    /\ Reads(c)
    /\ Answers(<<Line("busy", Head(tx).link)>>)
    /\ UNCHANGED <<mode, raw, link, sent, unasked, forgotten>>

(* The peer sends (+IPD) or closes. *)
PeerSends(l) ==
    /\ link[l] # 0 /\ unasked < MaxUnsolicited /\ Len(line) < LineMax
    /\ unasked' = unasked + 1
    /\ Answers(<<Data(l)>>)
    /\ UNCHANGED <<tx, mode, raw, link, sent, forgotten>>

PeerCloses(l) ==
    /\ link[l] # 0 /\ unasked < MaxUnsolicited /\ Len(line) < LineMax
    /\ unasked' = unasked + 1
    /\ link' = [link EXCEPT ![l] = 0]
    /\ Answers(<<Line("closed", l)>>)
    /\ mode' \in IF mode = "raw" /\ raw = l THEN {"raw", "cmd"} ELSE {mode}
    /\ UNCHANGED <<tx, raw, sent, forgotten>>

Execute    == \/ StartLink \/ CloseLink \/ PromptLink \/ NotCommand \/ Transmit
              \/ Restart \/ Configure \/ Join
Unasked    == \E l \in Links : PeerSends(l) \/ PeerCloses(l)
===============================================================================
