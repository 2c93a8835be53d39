--------------------------- MODULE EspAtSocketProofs --------------------------
(***************************************************************************)
(* Proofs about EspAtSocket, in four parts: the types; that a connection   *)
(* the driver holds for connected is open in the module, its CLOSED is on  *)
(* the way or a restart made the module forget it, from the lines still to *)
(* be parsed (LinesTrue); what holds when application, MAIN and module     *)
(* proceed in step (Protocol): success, no command sent, own data, sound   *)
(* sends, no timeout; and that no more sends succeed than texts were       *)
(* transmitted, by counting (BackInv).                                     *)
(***************************************************************************)
EXTENDS EspAtSocket, FiniteSetTheorems, TLAPS

Ups == {"connect", "already_connect"}

(* Line i of ln, if it says that its link is up, is true of the links k.   *)
UpTrue(ln, k, i) ==
    ln[i].kind \in Ups =>
        ln[i].link \in k \/ \E j \in DOMAIN ln : i < j /\ ln[j] = Line("closed", ln[i].link)
LinesTrue(ln, k) == \A i \in DOMAIN ln : UpTrue(ln, k, i)
Real(st, ln, k) == \A l \in Links :
    st[l] = "connected" => l \in k \/ \E i \in DOMAIN ln : ln[i] = Line("closed", l)
(* The links that are open, and those a restart has made the module forget. *)
Known == forgotten \cup {l \in Links : link[l] # 0}

(* The type invariant in three parts, by who writes the variables. *)
PortOK ==
    /\ tx \in Seq(Texts) /\ line \in Seq(Lines)
    /\ mode \in {"cmd", "raw"} /\ raw \in Links
    /\ link \in [Links -> 0 .. MaxGen] /\ forgotten \subseteq Links
    /\ \A i \in DOMAIN tx : tx[i].gen \in 1 .. MaxGen
BuffersOK ==
    /\ state \in [Links -> ConnStates]
    /\ rx \in [Links -> Seq(Nat)] /\ dtq \in Seq(Kinds) /\ out \in Kinds
    /\ Len(dtq) <= DTQ_SIZE
    /\ \A l \in Links : Len(rx[l]) <= RX_SIZE
CallsOK ==
    /\ used \in [Links -> BOOLEAN] /\ gen \in [Links -> 0 .. MaxGen]
    /\ handle \in [Links -> {"CLOSED", "OPEN", "ERROR"}]
    /\ op \in {"none", "prepare", "connect", "send", "close"} /\ pc \in Places /\ cur \in Links
    /\ gens \in 0 .. MaxGen /\ sends \in 0 .. MaxSends
    /\ (pc = "idle") = (op = "none")
    /\ \A l \in Links : (handle[l] # "CLOSED" => used[l]) /\ (used[l] => gen[l] # 0)
    /\ pc # "idle" => used[cur]

(* With a module in time prepare_esp_at has nothing to write. *)
Strange == {"busy", "ready", "got_ip"}
Undisturbed ==
    /\ wifi = "got_ip" /\ esp = "done" /\ op # "prepare"
    /\ \A i \in DOMAIN tx : tx[i].cmd \notin Settings
    /\ \A i \in DOMAIN line : line[i].kind \notin Strange
PrepOK ==
    /\ wifi \in {"got_ip", "busy", "disconnected"} /\ esp \in EspStates /\ preps \in Nat
    /\ Prompt => Undisturbed

TInv == PortOK /\ BuffersOK /\ CallsOK /\ PrepOK
-------------------------------------------------------------------------------
(* The module appends the lines s and changes its links from k to k2: what *)
(* was true stays true if a link that is closed is announced in s, and s   *)
(* announces only links that are open.                                     *)
LEMMA Announced ==
    ASSUME NEW ln \in Seq(Lines), NEW s \in Seq(Lines), NEW st,
           NEW k, NEW k2,
           LinesTrue(ln, k), Real(st, ln, k),
           \A l \in k : l \in k2 \/ \E j \in DOMAIN s : s[j] = Line("closed", l),
           \A i \in DOMAIN s : s[i].kind \in Ups => s[i].link \in k2
    PROVE  LinesTrue(ln \o s, k2) /\ Real(st, ln \o s, k2)
<1> DEFINE t == ln \o s
<1>1. /\ t \in Seq(Lines) /\ Len(t) = Len(ln) + Len(s)
      /\ Len(ln) \in Nat /\ Len(s) \in Nat
      /\ DOMAIN t = 1 .. Len(t) /\ DOMAIN ln = 1 .. Len(ln) /\ DOMAIN s = 1 .. Len(s)
  OBVIOUS
<1>2. \A i \in 1 .. Len(ln) : t[i] = ln[i]
  OBVIOUS
<1>3. \A i \in 1 .. Len(s) : t[Len(ln) + i] = s[i]
  OBVIOUS
<1>4. \A i \in 1 .. Len(ln) : ln[i].link \in Links
  <2>1. \A i \in 1 .. Len(ln) : ln[i] \in Lines
    OBVIOUS
  <2> QED BY <2>1 DEF Lines
<1> HIDE DEF t
<1>5. ASSUME NEW l \in Links, NEW j \in DOMAIN s, s[j] = Line("closed", l)
      PROVE  Len(ln) + j \in DOMAIN t /\ t[Len(ln) + j] = Line("closed", l)
  BY <1>1, <1>3, <1>5
<1>6. LinesTrue(t, k2)
  <2> SUFFICES ASSUME NEW i \in DOMAIN t, t[i].kind \in Ups
               PROVE  t[i].link \in k2
                      \/ \E j \in DOMAIN t : i < j /\ t[j] = Line("closed", t[i].link)
    BY DEF LinesTrue, UpTrue
  <2>1. CASE i \in 1 .. Len(ln)
    <3>1. t[i] = ln[i] /\ ln[i].link \in Links
      BY <1>2, <1>4, <2>1
    <3>2. ln[i].link \in k \/ \E j \in DOMAIN ln : i < j /\ ln[j] = Line("closed", ln[i].link)
      BY <1>1, <2>1, <3>1 DEF LinesTrue, UpTrue
    <3>3. ASSUME NEW j \in DOMAIN ln, i < j, ln[j] = Line("closed", ln[i].link)
          PROVE  j \in DOMAIN t /\ t[j] = Line("closed", t[i].link)
      BY <1>1, <1>2, <3>1, <3>3
    <3>4. ASSUME NEW j \in DOMAIN s, s[j] = Line("closed", ln[i].link)
          PROVE  Len(ln) + j \in DOMAIN t /\ i < Len(ln) + j /\ t[Len(ln) + j] = Line("closed", t[i].link)
      BY <1>1, <1>5, <2>1, <3>1, <3>4
    <3> QED BY <3>1, <3>2, <3>3, <3>4
  <2>2. CASE i \notin 1 .. Len(ln)
    <3>1. i - Len(ln) \in 1 .. Len(s) /\ t[i] = s[i - Len(ln)]
      BY <1>1, <1>3, <2>2
    <3> QED BY <1>1, <3>1
  <2> QED BY <2>1, <2>2
<1>7. Real(st, t, k2)
  <2> SUFFICES ASSUME NEW l \in Links, st[l] = "connected"
               PROVE  l \in k2 \/ \E i \in DOMAIN t : t[i] = Line("closed", l)
    BY DEF Real
  <2>1. CASE l \in k
    BY <1>5, <2>1
  <2>2. CASE l \notin k
    <3>1. PICK i \in DOMAIN ln : ln[i] = Line("closed", l)
      BY <2>2 DEF Real
    <3>2. i \in DOMAIN t /\ t[i] = Line("closed", l)
      BY <1>1, <1>2, <3>1
    <3> QED BY <3>2
  <2> QED BY <2>1, <2>2
<1> QED BY <1>6, <1>7 DEF t

-------------------------------------------------------------------------------
(* The empty sequence, where it is the value of something. *)
LEMMA EmptyFacts == ASSUME NEW S, NEW q, q = <<>> PROVE q \in Seq(S) /\ Len(q) = 0
<1>1. <<>> \in Seq(S) /\ Len(<<>>) = 0
  OBVIOUS
<1> QED BY <1>1, Zenon

(* The kinds read from the data queue. *)
LEMMA ReplyKeeps ==
    ASSUME BuffersOK, NEW k \in Kinds, Reply(k), UNCHANGED <<state, rx, out>>
    PROVE  BuffersOK'
<1>1. dtq' \in Seq(Kinds) /\ Len(dtq') <= DTQ_SIZE
  <2>1. CASE Got(k)
    <3>1. dtq \in Seq(Kinds) /\ dtq # <<>> /\ dtq' = Tail(dtq)
      BY <2>1 DEF BuffersOK, Got
    <3>2. dtq' \in Seq(Kinds) /\ Len(dtq') <= Len(dtq) /\ Len(dtq') \in Nat /\ Len(dtq) \in Nat
      BY <3>1
    <3> QED BY <3>2, SocketAssumption DEF BuffersOK
  <2>2. CASE dtq' = dtq
    BY <2>2 DEF BuffersOK
  <2> QED BY <2>1, <2>2 DEF Reply, TimedOut
<1> QED BY <1>1 DEF BuffersOK

(* The text of a call is well formed. *)
LEMMA TextOK == ASSUME CallsOK, PrepOK, pc # "idle" PROVE Text \in Texts /\ Text.gen \in 1 .. MaxGen
<1>1. gen[cur] \in 1 .. MaxGen /\ sends \in Nat /\ preps \in Nat /\ cur \in Links
  BY SocketAssumption DEF CallsOK, PrepOK
<1>2. Text.cmd \in Commands
  BY DEF Text, Command, Setting, Commands, Settings
<1>3. Text.link = cur /\ Text.gen = gen[cur] /\ Text.no \in Nat /\ Text = [cmd |-> Text.cmd, link |-> Text.link, gen |-> Text.gen, no |-> Text.no]
  BY <1>1 DEF Text
<1> HIDE DEF Text
<1> QED BY <1>1, <1>2, <1>3 DEF Texts

(* The module reads a text or not, and answers with lines. *)
LEMMA PortKeeps ==
    ASSUME PortOK, NEW s \in Seq(Lines), line' = line \o s,
           tx' = tx \/ (tx # <<>> /\ tx' = Tail(tx)),
           mode' \in {"cmd", "raw"}, raw' \in Links, link' \in [Links -> 0 .. MaxGen],
           forgotten' \subseteq Links
    PROVE  PortOK'
<1>1. line' \in Seq(Lines)
  BY DEF PortOK
<1>2. tx' \in Seq(Texts) /\ \A i \in DOMAIN tx' : \E j \in DOMAIN tx : tx'[i] = tx[j]
  <2>0. tx \in Seq(Texts)
    BY DEF PortOK
  <2>1. CASE tx' = tx
    BY <2>0, <2>1
  <2>2. CASE tx # <<>> /\ tx' = Tail(tx)
    <3>1. Len(tx) \in Nat \ {0} /\ tx' \in Seq(Texts) /\ Len(tx') = Len(tx) - 1
      BY <2>0, <2>2
    <3>2. \A i \in 1 .. Len(tx) - 1 : tx'[i] = tx[i + 1]
      BY <2>0, <2>2
    <3>3. DOMAIN tx = 1 .. Len(tx) /\ DOMAIN tx' = 1 .. Len(tx')
      BY <2>0, <3>1
    <3>4. ASSUME NEW i \in DOMAIN tx' PROVE i + 1 \in DOMAIN tx /\ tx'[i] = tx[i + 1]
      BY <3>1, <3>2, <3>3
    <3> QED BY <3>1, <3>4
  <2> QED BY <2>1, <2>2
<1>3. \A i \in DOMAIN tx' : tx'[i].gen \in 1 .. MaxGen
  BY <1>2 DEF PortOK
<1> QED BY <1>1, <1>2, <1>3 DEF PortOK

(* What a step of the module answers, lines of the right kind, and what    *)
(* it does to the links: a link that is closed is announced, and a link    *)
(* that is announced is open.                                              *)
LEMMA ModemAnswers ==
    ASSUME PortOK, Modem
    PROVE  \E s \in Seq(Lines) :
             /\ line' = line \o s
             /\ PortOK'
             /\ \A l \in Known : l \in Known' \/ \E j \in DOMAIN s : s[j] = Line("closed", l)
             /\ \A i \in DOMAIN s : s[i].kind \in Ups => s[i].link \in Known'
<1> USE SocketAssumption, ModemAssumption
<1>0. \A l \in Links, k \in Kinds \cup {"got_ip"} : Line(k, l) \in Lines
  BY DEF Line, Lines
<1>1. ASSUME tx # <<>> PROVE Head(tx) \in Texts /\ Head(tx).link \in Links /\ Head(tx).gen \in 1 .. MaxGen
  <2>1. tx \in Seq(Texts) /\ \A i \in DOMAIN tx : tx[i].gen \in 1 .. MaxGen
    BY DEF PortOK
  <2>2. Head(tx) = tx[1] /\ 1 \in DOMAIN tx /\ Head(tx) \in Texts
    BY <1>1, <2>1
  <2> QED BY <2>1, <2>2 DEF Texts
<1>2. CASE StartLink
  <2> DEFINE l == Head(tx).link
  <2>1. tx # <<>> /\ tx' = Tail(tx) /\ l \in Links /\ mode' = mode /\ raw' = raw
    BY <1>1, <1>2 DEF StartLink, Reads
  <2> HIDE DEF l
  <2>2. CASE /\ link[l] = 0 /\ link' = [link EXCEPT ![l] = Head(tx).gen] /\ forgotten' = forgotten \ {l}
             /\ line' = line \o <<Line("connect", l), Line("ok", l)>>
    <3> DEFINE s == <<Line("connect", l), Line("ok", l)>>
    <3>1. s \in Seq(Lines) /\ s[1] = Line("connect", l) /\ s[2] = Line("ok", l) /\ DOMAIN s = 1 .. 2
      BY <1>0, <2>1 DEF Kinds
    <3> HIDE DEF s
    <3>0. forgotten' \subseteq Links
      <4>1. forgotten \subseteq Links /\ forgotten' = forgotten \ {l}
        BY <2>2 DEF PortOK
      <4> QED BY <4>1
    <3>2. link' \in [Links -> 0 .. MaxGen] /\ link'[l] # 0 /\ forgotten' \subseteq Links
      BY <1>1, <2>1, <2>2, <3>0 DEF PortOK
    <3>3. line' = line \o s
      BY <2>2 DEF s
    <3>4. PortOK'
      BY <2>1, <3>1, <3>2, <3>3, PortKeeps DEF PortOK
    <3>5. \A i \in DOMAIN s : s[i].kind \in Ups => s[i].link \in Known'
      BY <2>1, <3>1, <3>2 DEF Line, Ups, Known
    <3>6. \A m \in Known : m \in Known'
      BY <1>1, <2>1, <2>2 DEF PortOK, Known
    <3> QED BY <3>1, <3>3, <3>4, <3>5, <3>6
  <2>3. CASE link[l] = 0 /\ UNCHANGED <<link, forgotten>> /\ line' = line \o <<Line("error", l)>>
    <3> DEFINE s == <<Line("error", l)>>
    <3>1. s \in Seq(Lines) /\ s[1] = Line("error", l) /\ DOMAIN s = 1 .. 1
      BY <1>0, <2>1 DEF Kinds
    <3> HIDE DEF s
    <3>3. line' = line \o s
      BY <2>3 DEF s
    <3>4. PortOK'
      BY <2>1, <2>3, <3>1, <3>3, PortKeeps DEF PortOK
    <3>5. \A i \in DOMAIN s : s[i].kind \in Ups => s[i].link \in Known'
      BY <3>1 DEF Line, Ups
    <3>6. Known' = Known
      BY <2>3 DEF Known
    <3> QED BY <3>1, <3>3, <3>4, <3>5, <3>6
  <2>4. CASE link[l] # 0 /\ UNCHANGED <<link, forgotten>> /\ line' = line \o <<Line("already_connect", l), Line("error", l)>>
    <3> DEFINE s == <<Line("already_connect", l), Line("error", l)>>
    <3>1. s \in Seq(Lines) /\ s[1] = Line("already_connect", l) /\ s[2] = Line("error", l) /\ DOMAIN s = 1 .. 2
      BY <1>0, <2>1 DEF Kinds
    <3> HIDE DEF s
    <3>3. line' = line \o s
      BY <2>4 DEF s
    <3>4. PortOK'
      BY <2>1, <2>4, <3>1, <3>3, PortKeeps DEF PortOK
    <3>5. \A i \in DOMAIN s : s[i].kind \in Ups => s[i].link \in Known'
      BY <2>1, <2>4, <3>1 DEF Line, Ups, Known
    <3>6. Known' = Known
      BY <2>4 DEF Known
    <3> QED BY <3>1, <3>3, <3>4, <3>5, <3>6
  <2> QED BY <1>2, <2>2, <2>3, <2>4 DEF StartLink, Answers, l
<1>3. CASE CloseLink
  <2> DEFINE l == Head(tx).link
             s == IF link[l] # 0 THEN <<Line("closed", l), Line("ok", l)>> ELSE <<Line("error", l)>>
  <2>1. tx # <<>> /\ tx' = Tail(tx) /\ l \in Links /\ mode' = mode /\ raw' = raw
        /\ link' = [link EXCEPT ![l] = 0] /\ forgotten' = forgotten
    BY <1>1, <1>3 DEF CloseLink, Reads
  <2>2. line' = line \o s
    BY <1>3 DEF CloseLink, Answers
  <2> HIDE DEF l
  <2>3. s \in Seq(Lines) /\ (link[l] # 0 => s[1] = Line("closed", l) /\ 1 \in DOMAIN s)
        /\ \A i \in DOMAIN s : s[i] \in {Line("closed", l), Line("ok", l), Line("error", l)}
    BY <1>0, <2>1 DEF Kinds
  <2> HIDE DEF s
  <2>4. link' \in [Links -> 0 .. MaxGen]
    BY <2>1 DEF PortOK
  <2>5. PortOK'
    BY <2>1, <2>2, <2>3, <2>4, PortKeeps DEF PortOK
  <2>6. \A i \in DOMAIN s : s[i].kind \notin Ups
    BY <2>3 DEF Line, Ups
  <2>7. \A m \in Known : m \in Known' \/ \E j \in DOMAIN s : s[j] = Line("closed", m)
    BY <2>1, <2>3 DEF PortOK, Known
  <2> QED BY <2>2, <2>3, <2>5, <2>6, <2>7
<1>4. ASSUME UNCHANGED <<link, forgotten>>, NEW s \in Seq(Lines), line' = line \o s,
             tx' = tx \/ (tx # <<>> /\ tx' = Tail(tx)),
             mode' \in {"cmd", "raw"}, raw' \in Links,
             \A i \in DOMAIN s : s[i].kind \notin Ups
      PROVE  \E t \in Seq(Lines) :
               /\ line' = line \o t
               /\ PortOK'
               /\ \A l \in Known : l \in Known' \/ \E j \in DOMAIN t : t[j] = Line("closed", l)
               /\ \A i \in DOMAIN t : t[i].kind \in Ups => t[i].link \in Known'
  <2>1. link' \in [Links -> 0 .. MaxGen] /\ forgotten' \subseteq Links /\ Known' = Known
    BY <1>4 DEF PortOK, Known
  <2>2. PortOK'
    BY <1>4, <2>1, PortKeeps
  <2> QED BY <1>4, <2>1, <2>2
<1>5. ASSUME NEW l \in Links, NEW k \in (Kinds \cup {"got_ip"}) \ Ups
      PROVE  <<Line(k, l)>> \in Seq(Lines) /\ \A i \in DOMAIN <<Line(k, l)>> : <<Line(k, l)>>[i].kind \notin Ups
  BY <1>0 DEF Line
<1>6. CASE PromptLink
  <2> DEFINE l == Head(tx).link
  <2>1. tx # <<>> /\ tx' = Tail(tx) /\ l \in Links /\ UNCHANGED <<link, forgotten>>
    BY <1>1, <1>6 DEF PromptLink, Reads
  <2> HIDE DEF l
  <2>2. CASE mode' = "raw" /\ raw' = l /\ line' = line \o <<Line("ok", l), Line("progress", l)>>
    <3> DEFINE s == <<Line("ok", l), Line("progress", l)>>
    <3>1. s \in Seq(Lines) /\ \A i \in DOMAIN s : s[i] \in {Line("ok", l), Line("progress", l)}
      BY <1>0, <2>1 DEF Kinds
    <3>2. line' = line \o s
      BY <2>2
    <3> HIDE DEF s
    <3>3. \A i \in DOMAIN s : s[i].kind \notin Ups
      BY <3>1 DEF Line, Ups
    <3> QED BY <1>4, <2>1, <2>2, <3>1, <3>2, <3>3
  <2>3. CASE mode' = mode /\ raw' = raw /\ line' = line \o <<Line("error", l)>>
    BY <1>4, <1>5, <2>1, <2>3 DEF Kinds, Ups, PortOK
  <2> QED BY <1>6, <2>2, <2>3 DEF PromptLink, Answers, l
<1>7. CASE NotCommand
  BY <1>1, <1>4, <1>5, <1>7 DEF NotCommand, Reads, Answers, Kinds, Ups, PortOK
<1>8. CASE Transmit
  <2>1. tx # <<>> /\ tx' = Tail(tx) /\ mode' = "cmd" /\ raw' = raw /\ UNCHANGED <<link, forgotten>> /\ raw \in Links
    BY <1>8 DEF Transmit, PortOK
  <2>2. CASE line' = line \o <<Line("send_ok", raw)>>
    BY <1>4, <1>5, <2>1, <2>2 DEF Kinds, Ups
  <2>3. CASE line' = line
    <3>1. line' = line \o <<>> /\ <<>> \in Seq(Lines) /\ DOMAIN (<<>>) = {}
      BY <2>3 DEF PortOK
    <3> QED BY <1>4, <2>1, <3>1
  <2> QED BY <1>8, <2>2, <2>3 DEF Transmit, Answers
<1>9. CASE Busy
  BY <1>1, <1>4, <1>5, <1>9, ZenonT(60) DEF Busy, Reads, Answers, Kinds, Ups, PortOK
<1>10. ASSUME NEW l \in Links, PeerSends(l)
       PROVE  \E s \in Seq(Lines) :
                /\ line' = line \o s
                /\ PortOK'
                /\ \A m \in Known : m \in Known' \/ \E j \in DOMAIN s : s[j] = Line("closed", m)
                /\ \A i \in DOMAIN s : s[i].kind \in Ups => s[i].link \in Known'
  <2>1. Data(l) \in Lines /\ Data(l).kind \notin Ups
    <3>1. link[l] \in Nat
      BY DEF PortOK
    <3> QED BY <3>1 DEF Data, Lines, Ups
  <2>2. <<Data(l)>> \in Seq(Lines) /\ \A i \in DOMAIN <<Data(l)>> : <<Data(l)>>[i].kind \notin Ups
    BY <2>1
  <2> QED BY <1>4, <1>10, <2>2 DEF PeerSends, Answers, PortOK
<1>11. ASSUME NEW l \in Links, PeerCloses(l)
       PROVE  \E s \in Seq(Lines) :
                /\ line' = line \o s
                /\ PortOK'
                /\ \A m \in Known : m \in Known' \/ \E j \in DOMAIN s : s[j] = Line("closed", m)
                /\ \A i \in DOMAIN s : s[i].kind \in Ups => s[i].link \in Known'
  <2> DEFINE s == <<Line("closed", l)>>
  <2>1. s \in Seq(Lines) /\ 1 \in DOMAIN s /\ s[1] = Line("closed", l) /\ \A i \in DOMAIN s : s[i].kind \notin Ups
    BY <1>0, <1>5 DEF Kinds, Ups
  <2>2. /\ tx' = tx /\ line' = line \o s /\ link' = [link EXCEPT ![l] = 0]
        /\ mode' \in {"cmd", "raw"} /\ raw' \in Links /\ forgotten' = forgotten
    BY <1>11 DEF PeerCloses, Answers, PortOK
  <2> HIDE DEF s
  <2>3. link' \in [Links -> 0 .. MaxGen]
    BY <2>2 DEF PortOK
  <2>4. PortOK'
    BY <2>1, <2>2, <2>3, PortKeeps DEF PortOK
  <2>5. \A m \in Known : m \in Known' \/ \E j \in DOMAIN s : s[j] = Line("closed", m)
    BY <2>1, <2>2 DEF PortOK, Known
  <2> QED BY <2>1, <2>2, <2>4, <2>5
<1>12. ASSUME NEW l \in Links, NEW a \in {"ok", "got_ip"}, NEW b \in {"ready", "ok"}, NEW s, s = <<Line(a, l), Line(b, l)>>
       PROVE  s \in Seq(Lines) /\ \A i \in DOMAIN s : s[i].kind \notin Ups
  <2>1. Line(a, l) \in Lines /\ Line(b, l) \in Lines
    BY <1>0 DEF Kinds
  <2>2. Line(a, l).kind \notin Ups /\ Line(b, l).kind \notin Ups
    BY DEF Line, Ups
  <2> QED BY <1>12, <2>1, <2>2
<1>13. CASE Restart
  <2> DEFINE l == Head(tx).link
  <2>1. /\ tx # <<>> /\ tx' = Tail(tx) /\ l \in Links /\ mode' = mode /\ raw' = raw
        /\ link' = [k \in Links |-> 0] /\ forgotten' = forgotten \cup {k \in Links : link[k] # 0}
        /\ line' = line \o <<Line("ok", l), Line("ready", l)>>
    BY <1>1, <1>13 DEF Restart, Reads, Answers
  <2> HIDE DEF l
  <2> PICK s : s = <<Line("ok", l), Line("ready", l)>>
    OBVIOUS
  <2>2. s \in Seq(Lines) /\ \A i \in DOMAIN s : s[i].kind \notin Ups
    BY <1>12, <2>1
  <2>3. link' \in [Links -> 0 .. MaxGen] /\ forgotten' \subseteq Links /\ Known \subseteq Known'
    <3>1. forgotten \subseteq Links /\ link' = [k \in Links |-> 0] /\ 0 \in 0 .. MaxGen
          /\ forgotten' = forgotten \cup {k \in Links : link[k] # 0}
      BY <2>1 DEF PortOK
    <3>2. forgotten' \subseteq Links /\ Known \subseteq Known'
      BY <3>1, Zenon DEF Known
    <3>3. link' \in [Links -> 0 .. MaxGen]
      BY <3>1
    <3> QED BY <3>2, <3>3
  <2>4. PortOK'
    BY <2>1, <2>2, <2>3, PortKeeps DEF PortOK
  <2> QED BY <2>1, <2>2, <2>3, <2>4
<1>14. CASE Configure
  <2>1. PICK k \in {"ok", "error"} : line' = line \o <<Line(k, Head(tx).link)>>
    BY <1>14 DEF Configure, Answers
  <2>2. /\ tx # <<>> /\ tx' = Tail(tx) /\ mode' = mode /\ raw' = raw /\ UNCHANGED <<link, forgotten>>
    BY <1>14 DEF Configure, Reads
  <2> QED BY <1>1, <1>4, <1>5, <2>1, <2>2 DEF Kinds, Ups, PortOK
<1>15. CASE Join
  <2> DEFINE l == Head(tx).link
  <2>1. /\ tx # <<>> /\ tx' = Tail(tx) /\ l \in Links /\ mode' = mode /\ raw' = raw /\ UNCHANGED <<link, forgotten>>
    BY <1>1, <1>15 DEF Join, Reads
  <2>2. line' = line \o <<Line("got_ip", l), Line("ok", l)>> \/ line' = line \o <<Line("error", l)>>
    BY <1>15 DEF Join, Answers
  <2> HIDE DEF l
  <2>3. CASE line' = line \o <<Line("got_ip", l), Line("ok", l)>>
    <3> PICK s : s = <<Line("got_ip", l), Line("ok", l)>>
      OBVIOUS
    <3>1. s \in Seq(Lines) /\ \A i \in DOMAIN s : s[i].kind \notin Ups
      BY <1>12, <2>1
    <3> QED BY <1>4, <2>1, <2>3, <3>1 DEF PortOK
  <2>4. CASE line' = line \o <<Line("error", l)>>
    BY <1>4, <1>5, <2>1, <2>4 DEF Kinds, Ups, PortOK
  <2> QED BY <2>2, <2>3, <2>4
<1> QED BY <1>2, <1>3, <1>6, <1>7, <1>8, <1>9, <1>10, <1>11, <1>13, <1>14, <1>15 DEF Modem, Execute, Unasked

(* A sequence and its tail, and one with an element appended. *)
LEMMA TailFacts ==
    ASSUME NEW S, NEW q \in Seq(S), q # <<>>
    PROVE  /\ Len(q) \in Nat \ {0} /\ Head(q) = q[1] /\ Head(q) \in S /\ 1 \in DOMAIN q
           /\ Tail(q) \in Seq(S) /\ Len(Tail(q)) = Len(q) - 1
           /\ \A i \in 1 .. Len(q) - 1 : Tail(q)[i] = q[i + 1]
           /\ DOMAIN q = 1 .. Len(q) /\ DOMAIN Tail(q) = 1 .. Len(q) - 1
  OBVIOUS

LEMMA AppendFacts ==
    ASSUME NEW S, NEW q \in Seq(S), NEW e \in S
    PROVE  /\ q \o <<e>> \in Seq(S) /\ Len(q \o <<e>>) = Len(q) + 1 /\ Len(q) \in Nat
           /\ \A i \in 1 .. Len(q) : (q \o <<e>>)[i] = q[i]
           /\ (q \o <<e>>)[Len(q) + 1] = e
           /\ DOMAIN q = 1 .. Len(q) /\ DOMAIN (q \o <<e>>) = 1 .. Len(q) + 1
           /\ q \o <<e>> # <<>>
  OBVIOUS

(* A module that is never busy answers the calls without a strange line    *)
(* while no command of prepare_esp_at is written.                          *)
LEMMA ModemCalm ==
    ASSUME PortOK, Prompt, Undisturbed, Modem
    PROVE  \E s \in Seq(Lines) : line' = line \o s /\ \A i \in DOMAIN s : s[i].kind \notin Strange
<1>0. ASSUME tx # <<>> PROVE Head(tx).link \in Links /\ Head(tx).cmd \notin Settings
  <2>1. Head(tx) = tx[1] /\ 1 \in DOMAIN tx /\ Head(tx) \in Texts
    BY <1>0 DEF PortOK
  <2> QED BY <2>1 DEF Texts, Undisturbed
<1>1. ASSUME NEW m \in Lines, m.kind \notin Strange, line' = line \o <<m>>
      PROVE  \E s \in Seq(Lines) : line' = line \o s /\ \A i \in DOMAIN s : s[i].kind \notin Strange
  <2>1. <<m>> \in Seq(Lines) /\ \A i \in DOMAIN <<m>> : <<m>>[i].kind \notin Strange
    BY <1>1
  <2> QED BY <1>1, <2>1
<1>2. ASSUME NEW m \in Lines, NEW n \in Lines, m.kind \notin Strange, n.kind \notin Strange, line' = line \o <<m, n>>
      PROVE  \E s \in Seq(Lines) : line' = line \o s /\ \A i \in DOMAIN s : s[i].kind \notin Strange
  <2>1. <<m, n>> \in Seq(Lines) /\ \A i \in DOMAIN <<m, n>> : <<m, n>>[i].kind \notin Strange
    BY <1>2
  <2> QED BY <1>2, <2>1
<1>3. \A l \in Links, k \in Kinds : Line(k, l) \in Lines /\ Line(k, l).kind = k
  BY DEF Line, Lines
<1>4. CASE StartLink \/ CloseLink \/ PromptLink \/ NotCommand
  <2>1. tx # <<>>
    BY <1>4 DEF StartLink, CloseLink, PromptLink, NotCommand, Reads
  <2> PICK l \in Links : l = Head(tx).link
    BY <1>0, <2>1
  <2>2. \/ line' = line \o <<Line("connect", l), Line("ok", l)>>
        \/ line' = line \o <<Line("error", l)>>
        \/ line' = line \o <<Line("already_connect", l), Line("error", l)>>
        \/ line' = line \o <<Line("closed", l), Line("ok", l)>>
        \/ line' = line \o <<Line("ok", l), Line("progress", l)>>
    BY <1>4 DEF StartLink, CloseLink, PromptLink, NotCommand, Answers
  <2>3. \A k \in {"connect", "ok", "error", "already_connect", "closed", "progress"} :
            Line(k, l) \in Lines /\ Line(k, l).kind \notin Strange
    BY <1>3 DEF Kinds, Strange
  <2>4. /\ "connect" \in {"connect", "ok", "error", "already_connect", "closed", "progress"}
        /\ "ok" \in {"connect", "ok", "error", "already_connect", "closed", "progress"}
        /\ "error" \in {"connect", "ok", "error", "already_connect", "closed", "progress"}
        /\ "already_connect" \in {"connect", "ok", "error", "already_connect", "closed", "progress"}
        /\ "closed" \in {"connect", "ok", "error", "already_connect", "closed", "progress"}
        /\ "progress" \in {"connect", "ok", "error", "already_connect", "closed", "progress"}
    OBVIOUS
  <2> QED BY <1>1, <1>2, <2>2, <2>3, <2>4, Zenon
<1>5. CASE Transmit
  <2>1. line' = line \o <<Line("send_ok", raw)>> \/ line' = line
    BY <1>5 DEF Transmit, Answers
  <2>2. Line("send_ok", raw) \in Lines /\ Line("send_ok", raw).kind \notin Strange
    BY <1>3 DEF Kinds, Strange, PortOK
  <2>3. line = line \o <<>> /\ <<>> \in Seq(Lines) /\ DOMAIN (<<>>) = {}
    BY DEF PortOK
  <2> QED BY <1>1, <2>1, <2>2, <2>3
<1>6. CASE Restart \/ Configure \/ Join
  <2>1. tx # <<>> /\ Head(tx).cmd \in Settings
    BY <1>6 DEF Restart, Configure, Join, Reads, Settings
  <2> QED BY <1>0, <2>1
<1>7. ASSUME NEW l \in Links, PeerSends(l) \/ PeerCloses(l)
      PROVE  \E s \in Seq(Lines) : line' = line \o s /\ \A i \in DOMAIN s : s[i].kind \notin Strange
  <2>1. line' = line \o <<Data(l)>> \/ line' = line \o <<Line("closed", l)>>
    BY <1>7 DEF PeerSends, PeerCloses, Answers
  <2>2. Data(l) \in Lines /\ Data(l).kind \notin Strange
    <3>1. link[l] \in Nat
      BY SocketAssumption DEF PortOK
    <3> QED BY <3>1 DEF Data, Lines, Strange
  <2>3. Line("closed", l) \in Lines /\ Line("closed", l).kind \notin Strange
    BY <1>3 DEF Kinds, Strange
  <2> QED BY <1>1, <2>1, <2>2, <2>3
<1> QED BY <1>4, <1>5, <1>6, <1>7 DEF Modem, Execute, Unasked

(* prepare_esp_at has nothing to write in such a module, and its state     *)
(* stays what it is.                                                       *)
LEMMA PrepKeeps == ASSUME PortOK, BuffersOK, CallsOK, PrepOK, [Next]_vars PROVE PrepOK'
<1>0. /\ tx \in Seq(Texts) /\ line \in Seq(Lines)
      /\ wifi \in {"got_ip", "busy", "disconnected"} /\ esp \in EspStates /\ preps \in Nat
      /\ Prompt => Undisturbed
  BY DEF PortOK, PrepOK
<1>1. ASSUME UNCHANGED <<tx, line, prepVars, wifi>>, op' = op \/ op' # "prepare" PROVE PrepOK'
  BY <1>0, <1>1 DEF PrepOK, Undisturbed, prepVars
<1>2. CASE Begin
  <2>1. UNCHANGED <<tx, line, prepVars, wifi>> /\ (op' = op \/ op' # "prepare")
    BY <1>2 DEF Begin, Create, CallSend, CallClose, Receive, Call, modemVars
  <2> QED BY <1>1, <2>1
<1>3. CASE ConnectEnter \/ CloseEnter \/ SendEnter \/ Mark \/ Clear
  <2>1. UNCHANGED <<tx, line, prepVars, wifi>> /\ (op' = op \/ op' # "prepare")
    BY <1>3 DEF ConnectEnter, CloseEnter, SendEnter, Mark, Clear, Return, Destroy, Inside, modemVars
  <2> QED BY <1>1, <2>1
<1>4. ASSUME NEW k \in Kinds,
             ConnectReply(k) \/ CloseReply(k) \/ SendReply(k) \/ PromptReply(k) \/ DoneReply(k)
      PROVE  PrepOK'
  <2>1. UNCHANGED <<tx, line, prepVars, wifi>> /\ (op' = op \/ op' # "prepare")
    <3>1. CASE ConnectReply(k) \/ CloseReply(k)
      BY <3>1 DEF ConnectReply, CloseReply, Return, Destroy, Inside, modemVars
    <3>2. CASE SendReply(k) \/ PromptReply(k) \/ DoneReply(k)
      BY <3>2 DEF SendReply, PromptReply, DoneReply, SendFails, SendOk, Return, Inside, modemVars
    <3> QED BY <1>4, <3>1, <3>2
  <2> QED BY <1>1, <2>1
<1>5. ASSUME ~Prompt, wifi' = wifi, preps' = preps, esp' \in EspStates PROVE PrepOK'
  BY <1>0, <1>5 DEF PrepOK
<1>6. CASE Prepare
  <2>1. ~Prompt /\ wifi' = wifi /\ preps' = preps
    BY <1>0, <1>6 DEF Prepare, PrepVars, Undisturbed
  <2>2. esp' \in EspStates
    BY <1>0, <1>6 DEF Prepare, Pass, EspStates
  <2> QED BY <1>5, <2>1, <2>2
<1>7. ASSUME NEW k \in Kinds, PrepareGoesOn(k) \/ PrepareRetries(k) \/ PrepareFails(k) PROVE PrepOK'
  <2>1. ~Prompt /\ wifi' = wifi /\ preps' = preps
    BY <1>0, <1>7 DEF PrepareGoesOn, PrepareRetries, PrepareFails, PrepVars, Undisturbed
  <2>2. esp' \in EspStates
    <3>1. NextEsp \in EspStates
      BY DEF NextEsp, EspStates
    <3> QED BY <1>0, <1>7, <3>1 DEF PrepareGoesOn, PrepareRetries, PrepareFails, Pass, EspStates
  <2> QED BY <1>5, <2>1, <2>2
<1>8. CASE Write
  <2>1. tx' = Append(tx, Text) /\ UNCHANGED <<line, esp, wifi, op>>
        /\ preps' = IF op = "prepare" THEN preps + 1 ELSE preps
    BY <1>8 DEF Write, Inside
  <2>2. preps' \in Nat
    BY <1>0, <2>1
  <2>3. Text \in Texts
    BY <1>8, TextOK DEF Write
  <2>4. op # "prepare" /\ pc # "idle" => Text.cmd \notin Settings
    BY DEF Text, Command, Settings, CallsOK
  <2>5. pc # "idle"
    BY <1>8 DEF Write
  <2> HIDE DEF Text
  <2>6. ASSUME op # "prepare", \A i \in DOMAIN tx : tx[i].cmd \notin Settings
        PROVE  \A i \in DOMAIN tx' : tx'[i].cmd \notin Settings
    <3>1. Text.cmd \notin Settings
      BY <2>4, <2>5, <2>6
    <3>2. Len(tx) \in Nat /\ DOMAIN tx = 1 .. Len(tx) /\ DOMAIN tx' = 1 .. Len(tx) + 1
          /\ (\A i \in 1 .. Len(tx) : tx'[i] = tx[i]) /\ tx'[Len(tx) + 1] = Text
      BY <1>0, <2>1, <2>3
    <3> QED BY <2>6, <3>1, <3>2
  <2> QED BY <1>0, <2>1, <2>2, <2>6 DEF PrepOK, Undisturbed
<1>9. CASE Parse
  <2> DEFINE m == Head(line)
  <2>1. /\ line # <<>> /\ line' = Tail(line) /\ wifi' = WifiState(m) /\ UNCHANGED <<tx, op, esp, preps>>
    BY <1>9 DEF Parse, appVars, prepVars
  <2>2. /\ Len(line) \in Nat \ {0} /\ DOMAIN line = 1 .. Len(line) /\ DOMAIN line' = 1 .. Len(line) - 1
        /\ (\A i \in 1 .. Len(line) - 1 : line'[i] = line[i + 1]) /\ m = line[1] /\ 1 \in DOMAIN line
    BY <1>0, <2>1, TailFacts
  <2> HIDE DEF m
  <2>3. wifi' \in {"got_ip", "busy", "disconnected"}
    BY <1>0, <2>1 DEF WifiState
  <2>4. ASSUME Undisturbed PROVE Undisturbed'
    <3>1. m.kind \notin Strange
      BY <2>2, <2>4 DEF Undisturbed
    <3>2. wifi' = "got_ip"
      BY <2>1, <2>4, <3>1 DEF Undisturbed, WifiState, Strange
    <3>3. \A i \in DOMAIN line' : i + 1 \in DOMAIN line /\ line'[i] = line[i + 1]
      BY <2>2
    <3>4. \A i \in DOMAIN line' : line'[i].kind \notin Strange
      BY <2>4, <3>3 DEF Undisturbed
    <3> QED BY <2>1, <2>4, <3>2, <3>4 DEF Undisturbed
  <2> QED BY <1>0, <2>1, <2>3, <2>4 DEF PrepOK
<1>10. CASE PassOn
  <2>1. UNCHANGED <<tx, line, prepVars, wifi>> /\ op' = op
    BY <1>10 DEF PassOn, modemVars, appVars
  <2> QED BY <1>1, <2>1
<1>11. CASE Modem
  <2>1. UNCHANGED <<op, esp, preps, wifi>>
    BY <1>11 DEF Modem, appVars, prepVars
  <2>2. ASSUME Prompt PROVE Undisturbed'
    <3>1. PICK s \in Seq(Lines) : line' = line \o s /\ \A i \in DOMAIN s : s[i].kind \notin Strange
      BY <1>0, <1>11, <2>2, ModemCalm
    <3>2. \A i \in DOMAIN line' : line'[i].kind \notin Strange
      <4>1. /\ Len(line) \in Nat /\ Len(s) \in Nat /\ DOMAIN line = 1 .. Len(line) /\ DOMAIN s = 1 .. Len(s)
            /\ DOMAIN line' = 1 .. Len(line) + Len(s)
        BY <1>0, <3>1
      <4>2. \A i \in 1 .. Len(line) : line'[i] = line[i]
        BY <1>0, <3>1
      <4>3. \A i \in 1 .. Len(s) : line'[Len(line) + i] = s[i]
        BY <1>0, <3>1
      <4>4. ASSUME NEW i \in DOMAIN line', i \notin DOMAIN line
            PROVE  i - Len(line) \in DOMAIN s /\ line'[i] = s[i - Len(line)]
        <5>1. i - Len(line) \in 1 .. Len(s) /\ i = Len(line) + (i - Len(line))
          BY <4>1, <4>4
        <5> QED BY <4>1, <4>3, <5>1
      <4>5. \A i \in DOMAIN line : line[i].kind \notin Strange
        BY <1>0, <2>2 DEF Undisturbed
      <4>6. ASSUME NEW i \in DOMAIN line' PROVE line'[i].kind \notin Strange
        BY <3>1, <4>1, <4>2, <4>4, <4>5
      <4> QED BY <4>6
    <3>3. \A i \in DOMAIN tx' : tx'[i].cmd \notin Settings
      <4>1. tx' = tx \/ (tx # <<>> /\ tx' = Tail(tx))
        BY <1>11 DEF Modem, Execute, Unasked, Busy, StartLink, CloseLink, PromptLink, NotCommand, Transmit,
                     Restart, Configure, Join, Reads, PeerSends, PeerCloses
      <4>2. \A i \in DOMAIN tx' : \E j \in DOMAIN tx : tx'[i] = tx[j]
        <5>1. CASE tx' = tx
          BY <5>1
        <5>2. CASE tx # <<>> /\ tx' = Tail(tx)
          <6>1. /\ Len(tx) \in Nat \ {0} /\ DOMAIN tx = 1 .. Len(tx) /\ DOMAIN tx' = 1 .. Len(tx) - 1
                /\ \A i \in 1 .. Len(tx) - 1 : tx'[i] = tx[i + 1]
            BY <1>0, <5>2, TailFacts
          <6>2. ASSUME NEW i \in DOMAIN tx' PROVE i + 1 \in DOMAIN tx /\ tx'[i] = tx[i + 1]
            BY <6>1
          <6> QED BY <6>2
        <5> QED BY <4>1, <5>1, <5>2
      <4> QED BY <1>0, <2>2, <4>2 DEF Undisturbed
    <3> QED BY <1>0, <2>1, <2>2, <3>2, <3>3 DEF Undisturbed
  <2> QED BY <1>0, <2>1, <2>2 DEF PrepOK
<1>12. CASE UNCHANGED vars
  BY <1>1, <1>12 DEF vars, modemVars, appVars
<1> QED BY <1>2, <1>3, <1>4, <1>6, <1>7, <1>8, <1>9, <1>10, <1>11, <1>12 DEF Next, Step

(* Type correctness, for any number of links, any sizes and any speed of   *)
(* the module: every handler of esp_at_socket.c keeps its variables' types *)
(* and the data queue and the receive buffers within their sizes.          *)
THEOREM Typing == Spec => [](TInv /\ TypeOK)
<1> USE SocketAssumption, ModemAssumption
<1>1. Init => TInv
  BY DEF Init, ModemInit, TInv, PortOK, BuffersOK, CallsOK, PrepOK, Undisturbed,
         Texts, Lines, Kinds, ConnStates, Places, EspStates
<1>2. TInv /\ [Next]_vars => TInv'
  <2> SUFFICES ASSUME TInv, [Next]_vars PROVE TInv'
    OBVIOUS
  <2>0. ASSUME UNCHANGED modemVars PROVE PortOK'
    BY <2>0 DEF TInv, PortOK, modemVars
  <2>00. ASSUME UNCHANGED <<state, rx, dtq, out>> PROVE BuffersOK'
    BY <2>00 DEF TInv, BuffersOK
  <2>000. ASSUME UNCHANGED appVars PROVE CallsOK'
    BY <2>000 DEF TInv, CallsOK, appVars
  <2>p. PrepOK'
    BY PrepKeeps DEF TInv
  <2>1. ASSUME NEW l \in Links, Create(l) PROVE TInv'
    <3>1. PortOK'
      BY <2>1, <2>0 DEF Create
    <3>2. BuffersOK'
      BY <2>1 DEF TInv, BuffersOK, Create, NewState, ConnStates
    <3>3. CallsOK'
      BY <2>1 DEF TInv, CallsOK, Places, Create, Call, Goto
    <3> QED BY <2>p, <3>1, <3>2, <3>3 DEF TInv
  <2>2. ASSUME NEW l \in Links, CallSend(l) PROVE TInv'
    <3>1. PortOK'
      BY <2>2, <2>0 DEF CallSend
    <3>2. BuffersOK'
      BY <2>2, <2>00 DEF CallSend
    <3>3. CallsOK'
      BY <2>2 DEF TInv, CallsOK, Places, CallSend, Call, Goto
    <3> QED BY <2>p, <3>1, <3>2, <3>3 DEF TInv
  <2>3. ASSUME NEW l \in Links, CallClose(l) PROVE TInv'
    <3>1. PortOK'
      BY <2>3, <2>0 DEF CallClose
    <3>2. BuffersOK'
      BY <2>3, <2>00 DEF CallClose
    <3>3. CallsOK'
      BY <2>3 DEF TInv, CallsOK, Places, CallClose, Call, Goto
    <3> QED BY <2>p, <3>1, <3>2, <3>3 DEF TInv
  <2>4. ASSUME NEW l \in Links, Receive(l) PROVE TInv'
    <3>1. PortOK'
      BY <2>4, <2>0 DEF Receive
    <3>2. BuffersOK'
      <4>1. rx' = rx \/ rx' = [rx EXCEPT ![l] = <<>>]
        BY <2>4 DEF Receive
      <4>2. rx' \in [Links -> Seq(Nat)] /\ \A m \in Links : Len(rx'[m]) <= RX_SIZE
        <5>1. PICK e : e = <<>>
          OBVIOUS
        <5>2. e \in Seq(Nat) /\ Len(e) = 0
          BY <5>1, EmptyFacts
        <5>3. rx' = rx \/ rx' = [rx EXCEPT ![l] = e]
          BY <4>1, <5>1, Zenon
        <5> HIDE <5>1
        <5>4. rx' \in [Links -> Seq(Nat)]
          BY <5>2, <5>3 DEF TInv, BuffersOK
        <5>5. ASSUME NEW m \in Links PROVE rx'[m] = rx[m] \/ rx'[m] = e
          BY <5>3 DEF TInv, BuffersOK
        <5> QED BY <5>2, <5>4, <5>5 DEF TInv, BuffersOK
      <4> QED BY <2>4, <4>2 DEF TInv, BuffersOK, Receive
    <3>3. CallsOK'
      BY <2>4 DEF TInv, CallsOK, Places, Receive
    <3> QED BY <2>p, <3>1, <3>2, <3>3 DEF TInv
  <2>5. ASSUME ConnectEnter PROVE TInv'
    <3>1. PortOK'
      BY <2>5, <2>0 DEF ConnectEnter
    <3>2. BuffersOK'
      <4>1. dtq' = dtq \/ dtq' = <<>>
        BY <2>5 DEF ConnectEnter
      <4>2. dtq' \in Seq(Kinds) /\ Len(dtq') <= DTQ_SIZE
        <5>1. CASE dtq' = <<>>
          BY <5>1, EmptyFacts
        <5>2. CASE dtq' = dtq
          BY <5>2 DEF TInv, BuffersOK
        <5> QED BY <4>1, <5>1, <5>2
      <4> QED BY <2>5, <4>2 DEF TInv, BuffersOK, ConnectEnter
    <3>3. CallsOK'
      BY <2>5 DEF TInv, CallsOK, Places, ConnectEnter, Return, Destroy, Goto, Inside
    <3> QED BY <2>p, <3>1, <3>2, <3>3 DEF TInv
  <2>6. ASSUME CloseEnter PROVE TInv'
    <3>1. PortOK'
      BY <2>6, <2>0 DEF CloseEnter
    <3>2. BuffersOK'
      BY <2>6 DEF TInv, BuffersOK, CallsOK, ConnStates, CloseEnter
    <3>3. CallsOK'
      BY <2>6 DEF TInv, CallsOK, Places, CloseEnter, Return, Destroy, Goto, Inside
    <3> QED BY <2>p, <3>1, <3>2, <3>3 DEF TInv
  <2>7. ASSUME SendEnter PROVE TInv'
    <3>1. PortOK'
      BY <2>7, <2>0 DEF SendEnter
    <3>2. BuffersOK'
      BY <2>7 DEF TInv, BuffersOK, CallsOK, ConnStates, SendEnter
    <3>3. CallsOK'
      BY <2>7 DEF TInv, CallsOK, Places, SendEnter, Return, Destroy, Goto, Inside
    <3> QED BY <2>p, <3>1, <3>2, <3>3 DEF TInv
  <2>8. ASSUME Mark PROVE TInv'
    <3>1. PortOK'
      BY <2>8, <2>0 DEF Mark
    <3>2. BuffersOK'
      BY <2>8 DEF TInv, BuffersOK, CallsOK, ConnStates, Mark
    <3>3. CallsOK'
      BY <2>8 DEF TInv, CallsOK, Places, Mark, Return, Destroy, Goto, Inside
    <3> QED BY <2>p, <3>1, <3>2, <3>3 DEF TInv
  <2>9. ASSUME Clear PROVE TInv'
    <3>1. PortOK'
      BY <2>9, <2>0 DEF Clear
    <3>2. BuffersOK'
      BY <2>9 DEF TInv, BuffersOK, CallsOK, ConnStates, Clear
    <3>3. CallsOK'
      BY <2>9 DEF TInv, CallsOK, Places, Clear, Return, Destroy, Goto, Inside
    <3> QED BY <2>p, <3>1, <3>2, <3>3 DEF TInv
  <2>10. ASSUME Write PROVE TInv'
    <3>1. PortOK'
      <4>1. Text \in Texts /\ Text.gen \in 1 .. MaxGen
        BY <2>10, TextOK DEF TInv, Write
      <4>2. tx \in Seq(Texts) /\ \A i \in DOMAIN tx : tx[i].gen \in 1 .. MaxGen
        BY DEF TInv, PortOK
      <4>3. tx' = Append(tx, Text) /\ UNCHANGED <<line, mode, raw, link, forgotten>>
        BY <2>10 DEF Write
      <4> HIDE DEF Text
      <4>4. tx' \in Seq(Texts) /\ \A i \in DOMAIN tx' : tx'[i].gen \in 1 .. MaxGen
        BY <4>1, <4>2, <4>3
      <4> QED BY <4>3, <4>4 DEF TInv, PortOK
    <3>2. BuffersOK'
      BY <2>10, <2>00 DEF Write
    <3>3. CallsOK'
      BY <2>10 DEF TInv, CallsOK, Places, Write, Goto, Inside
    <3> QED BY <2>p, <3>1, <3>2, <3>3 DEF TInv
  <2>11. ASSUME NEW k \in Kinds, ConnectReply(k) PROVE TInv'
    <3>1. PortOK'
      BY <2>11, <2>0 DEF ConnectReply
    <3>2. BuffersOK'
      BY <2>11, ReplyKeeps DEF TInv, ConnectReply
    <3>3. CallsOK'
      BY <2>11 DEF TInv, CallsOK, Places, ConnectReply, Return, Destroy, Goto, Inside, SendFails, SendOk
    <3> QED BY <2>p, <3>1, <3>2, <3>3 DEF TInv
  <2>12. ASSUME NEW k \in Kinds, CloseReply(k) PROVE TInv'
    <3>1. PortOK'
      BY <2>12, <2>0 DEF CloseReply
    <3>2. BuffersOK'
      BY <2>12, ReplyKeeps DEF TInv, CloseReply
    <3>3. CallsOK'
      BY <2>12 DEF TInv, CallsOK, Places, CloseReply, Return, Destroy, Goto, Inside, SendFails, SendOk
    <3> QED BY <2>p, <3>1, <3>2, <3>3 DEF TInv
  <2>13. ASSUME NEW k \in Kinds, SendReply(k) PROVE TInv'
    <3>1. PortOK'
      BY <2>13, <2>0 DEF SendReply
    <3>2. BuffersOK'
      BY <2>13, ReplyKeeps DEF TInv, SendReply
    <3>3. CallsOK'
      BY <2>13 DEF TInv, CallsOK, Places, SendReply, Return, Destroy, Goto, Inside, SendFails, SendOk
    <3> QED BY <2>p, <3>1, <3>2, <3>3 DEF TInv
  <2>14. ASSUME NEW k \in Kinds, PromptReply(k) PROVE TInv'
    <3>1. PortOK'
      BY <2>14, <2>0 DEF PromptReply
    <3>2. BuffersOK'
      BY <2>14, ReplyKeeps DEF TInv, PromptReply
    <3>3. CallsOK'
      BY <2>14 DEF TInv, CallsOK, Places, PromptReply, Return, Destroy, Goto, Inside, SendFails, SendOk
    <3> QED BY <2>p, <3>1, <3>2, <3>3 DEF TInv
  <2>15. ASSUME NEW k \in Kinds, DoneReply(k) PROVE TInv'
    <3>1. PortOK'
      BY <2>15, <2>0 DEF DoneReply
    <3>2. BuffersOK'
      BY <2>15, ReplyKeeps DEF TInv, DoneReply
    <3>3. CallsOK'
      BY <2>15 DEF TInv, CallsOK, Places, DoneReply, Return, Destroy, Goto, Inside, SendFails, SendOk
    <3> QED BY <2>p, <3>1, <3>2, <3>3 DEF TInv
  <2>20. ASSUME Prepare PROVE TInv'
    <3>1. PortOK'
      BY <2>20, <2>0 DEF Prepare, PrepVars
    <3>2. BuffersOK'
      BY <2>20, <2>00 DEF Prepare, PrepVars
    <3>3. CallsOK'
      BY <2>20 DEF TInv, CallsOK, Places, Prepare, Pass, PrepVars, Return, Destroy, Goto
    <3> QED BY <2>p, <3>1, <3>2, <3>3 DEF TInv
  <2>21. ASSUME NEW k \in Kinds, PrepareGoesOn(k) PROVE TInv'
    <3>1. PortOK'
      BY <2>21, <2>0 DEF PrepareGoesOn, PrepVars
    <3>2. BuffersOK'
      BY <2>21, ReplyKeeps DEF TInv, PrepareGoesOn, PrepVars
    <3>3. CallsOK'
      BY <2>21 DEF TInv, CallsOK, Places, PrepareGoesOn, Pass, PrepVars, Return, Destroy, Goto
    <3> QED BY <2>p, <3>1, <3>2, <3>3 DEF TInv
  <2>22. ASSUME NEW k \in Kinds, PrepareRetries(k) PROVE TInv'
    <3>1. PortOK'
      BY <2>22, <2>0 DEF PrepareRetries, PrepVars
    <3>2. BuffersOK'
      BY <2>22, ReplyKeeps DEF TInv, PrepareRetries, PrepVars
    <3>3. CallsOK'
      BY <2>22 DEF TInv, CallsOK, Places, PrepareRetries, Pass, PrepVars, Return, Destroy, Goto
    <3> QED BY <2>p, <3>1, <3>2, <3>3 DEF TInv
  <2>23. ASSUME NEW k \in Kinds, PrepareFails(k) PROVE TInv'
    <3>1. PortOK'
      BY <2>23, <2>0 DEF PrepareFails, PrepVars
    <3>2. BuffersOK'
      BY <2>23, ReplyKeeps DEF TInv, PrepareFails, PrepVars
    <3>3. CallsOK'
      BY <2>23 DEF TInv, CallsOK, Places, PrepareFails, Pass, PrepVars, Return, Destroy, Goto
    <3> QED BY <2>p, <3>1, <3>2, <3>3 DEF TInv
  <2>16. ASSUME Parse PROVE TInv'
    <3>1. PortOK'
      BY <2>16 DEF TInv, PortOK, Parse
    <3>2. BuffersOK'
      <4> DEFINE m == Head(line)
      <4>1. m \in Lines
        BY <2>16 DEF TInv, PortOK, Parse
      <4> DEFINE p == ParsedLink(m)
      <4>2. p \in Links /\ m.gen \in Nat /\ m.kind \in Kinds \cup {"ipd", "got_ip"}
        BY <4>1 DEF Lines, ParsedLink
      <4>3. /\ dtq' = dtq
            /\ state' = [state EXCEPT ![p] = ConnState(m)]
            /\ rx' = rx \/ (Len(rx[p]) < RX_SIZE /\ rx' = [rx EXCEPT ![p] = Append(@, m.gen)])
            /\ out' = ReplyKind(m)
        BY <2>16 DEF Parse
      <4>p. p = ParsedLink(m)
        OBVIOUS
      <4> HIDE DEF m, p
      <4>4. out' \in Kinds
        BY <4>2, <4>3 DEF Kinds, ReplyKind
      <4>5. state' \in [Links -> ConnStates]
        <5>1. ConnState(m) \in ConnStates
          BY <4>2, <4>p DEF ConnState, ConnStates, TInv, BuffersOK
        <5> QED BY <4>2, <4>3, <5>1 DEF TInv, BuffersOK
      <4>6. rx' \in [Links -> Seq(Nat)] /\ \A l \in Links : Len(rx'[l]) <= RX_SIZE
        <5>1. CASE rx' = rx
          BY <5>1 DEF TInv, BuffersOK
        <5>2. CASE Len(rx[p]) < RX_SIZE /\ rx' = [rx EXCEPT ![p] = Append(@, m.gen)]
          <6>1. rx[p] \in Seq(Nat) /\ Append(rx[p], m.gen) \in Seq(Nat)
                /\ Len(Append(rx[p], m.gen)) = Len(rx[p]) + 1 /\ Len(rx[p]) \in Nat
            BY <4>2 DEF TInv, BuffersOK
          <6> QED BY <4>2, <5>2, <6>1 DEF TInv, BuffersOK
        <5> QED BY <4>3, <5>1, <5>2
      <4> QED BY <4>3, <4>4, <4>5, <4>6 DEF TInv, BuffersOK
    <3>3. CallsOK'
      BY <2>16, <2>000 DEF Parse
    <3> QED BY <2>p, <3>1, <3>2, <3>3 DEF TInv
  <2>17. ASSUME PassOn PROVE TInv'
    <3>1. PortOK'
      BY <2>17, <2>0 DEF PassOn
    <3>2. BuffersOK'
      <4>1. dtq \in Seq(Kinds) /\ out \in Kinds /\ Len(dtq) <= DTQ_SIZE /\ Len(dtq) \in Nat
        BY DEF TInv, BuffersOK
      <4>2. dtq' = dtq \/ (Len(dtq) < DTQ_SIZE /\ dtq' = Append(dtq, out))
        BY <2>17 DEF PassOn
      <4>3. dtq' \in Seq(Kinds) /\ Len(dtq') <= DTQ_SIZE
        BY <4>1, <4>2
      <4>4. out' \in Kinds /\ UNCHANGED <<state, rx>>
        BY <2>17 DEF PassOn, Kinds
      <4> QED BY <4>3, <4>4 DEF TInv, BuffersOK
    <3>3. CallsOK'
      BY <2>17, <2>000 DEF PassOn
    <3> QED BY <2>p, <3>1, <3>2, <3>3 DEF TInv
  <2>18. ASSUME Modem PROVE TInv'
    <3>1. PortOK'
      BY <2>18, ModemAnswers DEF TInv
    <3>2. BuffersOK'
      BY <2>18, <2>00 DEF Modem
    <3>3. CallsOK'
      BY <2>18, <2>000 DEF Modem
    <3> QED BY <2>p, <3>1, <3>2, <3>3 DEF TInv
  <2>19. ASSUME UNCHANGED vars PROVE TInv'
    <3>1. PortOK'
      BY <2>19, <2>0 DEF vars
    <3>2. BuffersOK'
      BY <2>19, <2>00 DEF vars
    <3>3. CallsOK'
      BY <2>19, <2>000 DEF vars
    <3> QED BY <2>p, <3>1, <3>2, <3>3 DEF TInv
  <2> QED BY <2>1, <2>2, <2>3, <2>4, <2>5, <2>6, <2>7, <2>8, <2>9, <2>10, <2>11, <2>12, <2>13, <2>14, <2>15, <2>16, <2>17, <2>18, <2>19,
            <2>20, <2>21, <2>22, <2>23 DEF Next, Begin, Step
<1>3. TInv => TypeOK
  BY DEF TInv, TypeOK, PortOK, BuffersOK, CallsOK, PrepOK
<1> QED BY <1>1, <1>2, <1>3, PTL DEF Spec
-------------------------------------------------------------------------------
(* MAIN takes the first line: an announcement of a link that is up makes    *)
(* the connection connected, and is true; the announcement of a closed     *)
(* link that stood for the others still stands.                            *)
LEMMA ParseReal ==
    ASSUME Links = {0}, TInv, LinesTrue(line, Known), ConnectedReal, Parse
    PROVE  LinesTrue(line, Known)' /\ ConnectedReal'
<1> DEFINE m == Head(line)
<1>1. /\ line \in Seq(Lines) /\ line # <<>> /\ line' = Tail(line) /\ Known' = Known
      /\ state' = [state EXCEPT ![ParsedLink(m)] = ConnState(m)] /\ state \in [Links -> ConnStates]
  BY DEF Parse, TInv, PortOK, BuffersOK, Known
<1>2. /\ Len(line) \in Nat \ {0} /\ DOMAIN line = 1 .. Len(line) /\ DOMAIN line' = 1 .. Len(line) - 1
      /\ \A i \in 1 .. Len(line) - 1 : line'[i] = line[i + 1]
      /\ m = line[1] /\ m \in Lines /\ m.link = 0 /\ ParsedLink(m) = 0
  <2>1. m = line[1] /\ m \in Lines /\ 1 \in DOMAIN line
    BY <1>1
  <2>2. m.link = 0 /\ ParsedLink(m) = 0
    BY <2>1 DEF Lines, ParsedLink
  <2> QED BY <1>1, <2>1, <2>2
<1> HIDE DEF m
<1>3. ASSUME NEW j \in DOMAIN line, j # 1
      PROVE  j - 1 \in DOMAIN line' /\ line'[j - 1] = line[j]
  BY <1>2, <1>3
<1>4. LinesTrue(line', Known')
  <2> SUFFICES ASSUME NEW i \in DOMAIN line', line'[i].kind \in Ups
               PROVE  line'[i].link \in Known'
                      \/ \E j \in DOMAIN line' : i < j /\ line'[j] = Line("closed", line'[i].link)
    BY DEF LinesTrue, UpTrue
  <2>1. i + 1 \in DOMAIN line /\ line'[i] = line[i + 1] /\ i \in Nat /\ 1 <= i
    BY <1>2
  <2>2. CASE line[i + 1].link \in Known
    BY <1>1, <2>1, <2>2
  <2>3. CASE line[i + 1].link \notin Known
    <3>1. PICK j \in DOMAIN line : i + 1 < j /\ line[j] = Line("closed", line[i + 1].link)
      BY <2>1, <2>3 DEF LinesTrue, UpTrue
    <3>2. j # 1 /\ i < j - 1
      BY <1>2, <2>1, <3>1
    <3> QED BY <1>3, <2>1, <3>1, <3>2
  <2> QED BY <2>2, <2>3
<1>5. ConnectedReal'
  <2> SUFFICES ASSUME NEW l \in Links, state'[l] = "connected", l \notin Known
               PROVE  \E i \in DOMAIN line' : line'[i] = Line("closed", l)
    <3>1. Known' = Known /\ Line("closed", 0)' = Line("closed", 0)
      BY <1>1 DEF Line
    <3> QED BY <3>1 DEF ConnectedReal, Known, Line
  <2>1. CASE m.link = l /\ m.kind \in Ups
    <3>1. 1 \in DOMAIN line /\ line[1].kind \in Ups /\ line[1].link = l
      BY <1>2, <2>1
    <3>2. PICK j \in DOMAIN line : 1 < j /\ line[j] = Line("closed", l)
      BY <3>1 DEF LinesTrue, UpTrue
    <3> QED BY <1>2, <1>3, <3>2
  <2>2. CASE ~(m.link = l /\ m.kind \in Ups)
    <3>1. state[l] = "connected" /\ m # Line("closed", l)
      BY <1>1, <1>2, <2>2 DEF ConnState, Ups, Line
    <3>2. PICK j \in DOMAIN line : line[j] = Line("closed", l)
      BY <3>1 DEF ConnectedReal, Known
    <3>3. j # 1
      BY <1>2, <3>1, <3>2
    <3> QED BY <1>3, <3>2, <3>3
  <2> QED BY <2>1, <2>2
<1> QED BY <1>4, <1>5 DEF LinesTrue, UpTrue

(* A connection the driver holds for connected is open in the module, its  *)
(* CLOSED is on the way or the module forgot it in a restart, while the    *)
(* application has one connection at a time, for any number of them, any   *)
(* queue size, any delay and any passes of prepare_esp_at: the handlers of *)
(* MAIN and the calls of the application write connection->state without a *)
(* lock and keep this.                                                     *)
THEOREM ConnectedSafety == ASSUME Links = {0} PROVE Spec => []ConnectedReal
<1>1. Init => LinesTrue(line, Known) /\ ConnectedReal
  BY DEF Init, ModemInit, LinesTrue, UpTrue, ConnectedReal
<1>2. TInv /\ LinesTrue(line, Known) /\ ConnectedReal /\ [Next]_vars
      => LinesTrue(line, Known)' /\ ConnectedReal'
  <2> SUFFICES ASSUME TInv, LinesTrue(line, Known), ConnectedReal, [Next]_vars
               PROVE  LinesTrue(line, Known)' /\ ConnectedReal'
    OBVIOUS
  <2>0. ASSUME UNCHANGED <<line, link, forgotten>>,
               \A l \in Links : state'[l] = "connected" => state[l] = "connected"
        PROVE  LinesTrue(line, Known)' /\ ConnectedReal'
    <3>1. Known' = Known
      BY <2>0 DEF Known
    <3>2. LinesTrue(line, Known)'
      BY <2>0, <3>1 DEF LinesTrue, UpTrue, Line
    <3> QED BY <2>0, <3>2 DEF ConnectedReal, Line
  <2>1. ASSUME NEW l \in Links, Create(l) \/ CallSend(l) \/ CallClose(l) \/ Receive(l)
        PROVE  LinesTrue(line, Known)' /\ ConnectedReal'
    <3>1. UNCHANGED <<line, link, forgotten>> /\ (state' = state \/ state' = [state EXCEPT ![l] = "disconnected"])
      BY <2>1 DEF Create, NewState, CallSend, CallClose, Receive, modemVars
    <3> QED BY <2>0, <3>1 DEF TInv, BuffersOK
  <2>2. CASE ConnectEnter \/ Prepare \/ CloseEnter \/ SendEnter \/ Clear \/ Write \/ PassOn
    <3>1. UNCHANGED <<line, link, forgotten, state>>
      BY <2>2 DEF ConnectEnter, Prepare, PrepVars, CloseEnter, SendEnter, Clear, Write, PassOn, modemVars
    <3> QED BY <2>0, <3>1
  <2>3. CASE Mark
    <3>1. /\ UNCHANGED <<line, link, forgotten>>
          /\ \/ state' = [state EXCEPT ![cur] = "connecting"]
             \/ state' = [state EXCEPT ![cur] = "disconnecting"]
      BY <2>3 DEF Mark, modemVars
    <3> QED BY <2>0, <3>1 DEF TInv, BuffersOK
  <2>4. ASSUME NEW k \in Kinds,
               \/ PrepareGoesOn(k) \/ PrepareRetries(k) \/ PrepareFails(k)
               \/ ConnectReply(k) \/ CloseReply(k) \/ SendReply(k) \/ PromptReply(k) \/ DoneReply(k)
        PROVE  LinesTrue(line, Known)' /\ ConnectedReal'
    <3>1. UNCHANGED <<line, link, forgotten, state>>
      BY <2>4 DEF PrepareGoesOn, PrepareRetries, PrepareFails, PrepVars, ConnectReply, CloseReply, SendReply, PromptReply, DoneReply, modemVars
    <3> QED BY <2>0, <3>1
  <2>5. CASE Parse
    BY <2>5, ParseReal
  <2>6. CASE Modem
    <3>1. PICK s \in Seq(Lines) :
            /\ line' = line \o s
            /\ PortOK'
            /\ \A l \in Known : l \in Known' \/ \E j \in DOMAIN s : s[j] = Line("closed", l)
            /\ \A i \in DOMAIN s : s[i].kind \in Ups => s[i].link \in Known'
      BY <2>6, ModemAnswers DEF TInv
    <3>2. line \in Seq(Lines)
      BY DEF TInv, PortOK
    <3>3. Real(state, line, Known)
      BY DEF ConnectedReal, Real, Known
    <3>4. LinesTrue(line \o s, Known') /\ Real(state, line \o s, Known')
      BY <3>1, <3>2, <3>3, Announced
    <3>5. state' = state
      BY <2>6 DEF Modem
    <3> QED BY <3>1, <3>4, <3>5 DEF LinesTrue, UpTrue, Real, ConnectedReal, Known, Line
  <2>7. CASE UNCHANGED vars
    BY <2>0, <2>7 DEF vars, modemVars
  <2> QED BY <2>1, <2>2, <2>3, <2>4, <2>5, <2>6, <2>7 DEF Next, Begin, Step
<1> QED BY <1>1, <1>2, Typing, PTL DEF Spec
-------------------------------------------------------------------------------
(***************************************************************************)
(* One connection at a time, a module that answers within the timeouts and *)
(* peers that act between the calls: the application, MAIN and the module  *)
(* then proceed in step.  Protocol says, for every place of every call,    *)
(* what is in the port, where its replies are on their way through MAIN    *)
(* and the data queue, and what the link is.                               *)
(***************************************************************************)
DataLine == [kind |-> "ipd", link |-> 0, gen |-> gen[0]]
Still    == tx = <<>> /\ line = <<>> /\ out = "no_set"
Up       == link[0] # 0 /\ link[0] = gen[0]
Shut     == link[0] = 0

(* The text of the call has been written, the module has not read it. *)
Unread(c) ==
    /\ line = <<>> /\ out = "no_set" /\ dtq = <<>>
    /\ tx = <<[cmd |-> c, link |-> 0, gen |-> gen[0], no |-> sends]>>

(* The application has one reply to take, a, or two, a and then b. *)
One(a) ==
    /\ tx = <<>>
    /\ \/ line = <<Line(a, 0)>> /\ out = "no_set" /\ dtq = <<>>
       \/ line = <<>> /\ out = a /\ dtq = <<>>
       \/ line = <<>> /\ out = "no_set" /\ dtq = <<a>>
Two(a, b) ==
    /\ tx = <<>>
    /\ \/ line = <<Line(a, 0), Line(b, 0)>> /\ out = "no_set" /\ dtq = <<>>
       \/ line = <<Line(b, 0)>> /\ out = a /\ dtq = <<>>
       \/ line = <<Line(b, 0)>> /\ out = "no_set" /\ dtq = <<a>>
       \/ line = <<>> /\ out = b /\ dtq = <<a>>
       \/ line = <<>> /\ out = "no_set" /\ dtq = <<a, b>>

(* Between the calls: the link is up; or the peer closed it and MAIN has   *)
(* not seen the line, the last one; or has.                                *)
Linked == Up /\ state[0] = "connected" /\ \A i \in DOMAIN line : line[i] = DataLine
Losing ==
    /\ Shut /\ state[0] = "connected" /\ unasked # 0
    /\ line # <<>> /\ line[Len(line)] = Line("closed", 0)
    /\ \A i \in 1 .. Len(line) - 1 : line[i] = DataLine
Lost == Shut /\ state[0] = "disconnected" /\ unasked # 0 /\ line = <<>>
Idle ==
    /\ pc = "idle" /\ tx = <<>> /\ mode = "cmd"
    /\ unasked = 0 => line = <<>> /\ out = "no_set"
    /\ \/ handle[0] = "CLOSED" /\ line = <<>> /\ out = "no_set" /\ Shut
       \/ handle[0] # "CLOSED" /\ (Linked \/ Losing \/ Lost)

Ready == (Up /\ state[0] = "connected") \/ (Shut /\ state[0] = "disconnected" /\ unasked # 0)
Connecting ==
    /\ op = "connect" /\ mode = "cmd"
    /\ \/ pc = "enter" /\ Still /\ Shut /\ state[0] = "disconnected"
       \/ pc = "mark" /\ Still /\ Shut
       \/ pc = "clear" /\ Still /\ Shut
       \/ pc = "write" /\ Still /\ Shut /\ dtq = <<>>
       \/ pc = "first" /\ Shut /\ Unread("CIPSTART")
       \/ pc = "first" /\ Shut /\ One("error")
       \/ pc = "first" /\ Up /\ Two("connect", "ok") /\ (Len(line) = 2 \/ state[0] = "connected")
       \/ pc = "second" /\ Up /\ One("ok") /\ state[0] = "connected"
Closing ==
    /\ op = "close" /\ mode = "cmd"
    /\ \/ pc = "enter" /\ Still /\ Ready
       \/ pc = "mark" /\ Still /\ Up
       \/ pc = "clear" /\ Still /\ Up
       \/ pc = "write" /\ Still /\ Up /\ dtq = <<>>
       \/ pc = "first" /\ Up /\ Unread("CIPCLOSE")
       \/ pc = "first" /\ Shut /\ Two("closed", "ok")
       \/ pc = "second" /\ Shut /\ One("ok")
Transmitted == \E t \in sent : t.cmd = "DATA" /\ t.no = sends
Sending ==
    /\ op = "send"
    /\ \/ pc = "enter" /\ mode = "cmd" /\ Still /\ Ready
       \/ /\ Up /\ state[0] = "connected"
          /\ \/ pc = "clear" /\ mode = "cmd" /\ Still
             \/ pc = "write" /\ mode = "cmd" /\ Still /\ dtq = <<>>
             \/ pc = "first" /\ mode = "cmd" /\ Unread("CIPSEND")
             \/ pc = "first" /\ mode = "raw" /\ Two("ok", "progress")
             \/ pc = "prompt" /\ mode = "raw" /\ One("progress")
             \/ pc = "data" /\ mode = "raw" /\ Still /\ dtq = <<>>
             \/ pc = "done" /\ mode = "raw" /\ Unread("DATA")
             \/ pc = "done" /\ mode = "cmd" /\ One("send_ok") /\ Transmitted

Protocol == Idle \/ Connecting \/ Closing \/ Sending
QInv == Protocol /\ OwnData /\ CommandsStayCommands /\ NoError /\ SendSound

(* Sequences of at most two elements. *)
LEMMA ShortFacts ==
    ASSUME NEW a, NEW b
    PROVE  /\ Head(<<a>>) = a /\ Tail(<<a>>) = <<>> /\ Head(<<a, b>>) = a /\ Tail(<<a, b>>) = <<b>>
           /\ Append(<<>>, a) = <<a>> /\ Append(<<a>>, b) = <<a, b>>
           /\ <<>> \o <<a>> = <<a>> /\ <<>> \o <<a, b>> = <<a, b>>
           /\ <<a>> # <<>> /\ <<a, b>> # <<>>
           /\ Len(<<>>) = 0 /\ Len(<<a>>) = 1 /\ Len(<<a, b>>) = 2
<1>1. Head(<<a>>) = a /\ Tail(<<a>>) = <<>> /\ Head(<<a, b>>) = a /\ Tail(<<a, b>>) = <<b>>
  OBVIOUS
<1>2. Append(<<>>, a) = <<a>>
  OBVIOUS
<1>3. <<>> \o <<a>> = <<a>>
  OBVIOUS
<1>4. <<>> \o <<a, b>> = <<a, b>>
  OBVIOUS
<1>5. <<a>> # <<>> /\ <<a, b>> # <<>>
  OBVIOUS
<1>6. Len(<<>>) = 0 /\ Len(<<a>>) = 1 /\ Len(<<a, b>>) = 2
  OBVIOUS
<1>7. Append(<<a>>, b) = <<a, b>>
  <2> DEFINE s == Append(<<a>>, b)
             t == <<a, b>>
  <2>1. s \in Seq({a, b}) /\ t \in Seq({a, b}) /\ Len(s) = 2 /\ Len(t) = 2
    OBVIOUS
  <2>2. s[1] = t[1] /\ s[2] = t[2]
    OBVIOUS
  <2> HIDE DEF s, t
  <2>3. \A i \in 1 .. 2 : s[i] = t[i]
    BY <2>2
  <2>4. s = [i \in 1 .. Len(s) |-> s[i]] /\ t = [i \in 1 .. Len(t) |-> t[i]]
    BY <2>1
  <2> QED BY <2>1, <2>3, <2>4 DEF s, t
<1> QED BY <1>1, <1>2, <1>3, <1>4, <1>5, <1>6, <1>7

LEMMA ShortLens ==
    ASSUME NEW a, NEW b, DTQ_SIZE >= 2
    PROVE  Len(<<>>) < DTQ_SIZE /\ Len(<<a>>) < DTQ_SIZE /\ <<>> # <<a>> /\ Len(<<>>) # DTQ_SIZE /\ Len(<<a>>) # DTQ_SIZE
  BY ShortFacts, SocketAssumption

(* Before the module reads the text of a call there is no reply, and the   *)
(* call does not run into its timeout.                                     *)
LEMMA NoReply == ASSUME Prompt, NEW c, Unread(c), NEW k, Reply(k) PROVE FALSE
  BY ShortFacts, Zenon DEF Unread, Reply, Got, TimedOut

(* A call waits for its replies and takes them in order. *)
LEMMA OneReply ==
    ASSUME Prompt, NEW a, a # "no_set", One(a), NEW k, Reply(k), UNCHANGED <<tx, line, out>>
    PROVE  k = a /\ Still' /\ dtq' = <<>>
<1>1. CASE line = <<>> /\ out = "no_set" /\ dtq = <<a>>
  BY <1>1, ShortFacts, Zenon DEF Reply, Got, TimedOut, One, Still
<1>2. CASE dtq = <<>> /\ ~(line = <<>> /\ out = "no_set")
  BY <1>2, Zenon DEF Reply, Got, TimedOut
<1> QED BY <1>1, <1>2, ShortFacts, Zenon DEF One

LEMMA TwoReply ==
    ASSUME Prompt, NEW a, NEW b, a # "no_set", b # "no_set", Two(a, b), NEW k, Reply(k),
           UNCHANGED <<tx, line, out>>
    PROVE  k = a /\ One(b)' /\ Len(line) # 2
<1>1. CASE dtq = <<>> /\ ~(line = <<>> /\ out = "no_set")
  BY <1>1, Zenon DEF Reply, Got, TimedOut
<1>2. CASE dtq = <<a>> /\ line = <<Line(b, 0)>> /\ out = "no_set" /\ tx = <<>>
  <2>1. k = a /\ dtq' = <<>> /\ Len(line) = 1
    BY <1>2, ShortFacts, Zenon DEF Reply, Got, TimedOut
  <2> QED BY <1>2, <2>1 DEF One, Line
<1>3. CASE dtq = <<a>> /\ line = <<>> /\ out = b /\ tx = <<>>
  <2>1. k = a /\ dtq' = <<>> /\ Len(line) = 0
    BY <1>3, ShortFacts, Zenon DEF Reply, Got, TimedOut
  <2> QED BY <1>3, <2>1 DEF One
<1>4. CASE dtq = <<a, b>> /\ line = <<>> /\ out = "no_set" /\ tx = <<>>
  <2>1. k = a /\ dtq' = <<b>> /\ Len(line) = 0
    BY <1>4, ShortFacts, ZenonT(30) DEF Reply, Got, TimedOut
  <2> QED BY <1>4, <2>1 DEF One
<1>5. <<Line(a, 0), Line(b, 0)>> # <<>> /\ <<Line(b, 0)>> # <<>>
  BY ShortFacts, Zenon
<1> QED BY <1>1, <1>2, <1>3, <1>4, <1>5, Zenon DEF Two

(* MAIN parses the line of a reply. *)
LEMMA ParseReply ==
    ASSUME Links = {0}, TInv, Parse, NEW a, a \notin {"ipd", "got_ip"}, Head(line) = Line(a, 0)
    PROVE  /\ out = "no_set" /\ line # <<>> /\ line' = Tail(line) /\ out' = a
           /\ UNCHANGED <<rx, stray, tx, dtq>>
           /\ a \in Ups => state'[0] = "connected"
           /\ a \notin Ups \cup {"closed"} => state'[0] = state[0]
<1>1. Line(a, 0).kind = a
  BY DEF Line
<1>2. ParsedLink(Head(line)) = 0 /\ Head(line).kind = a
  BY <1>1 DEF ParsedLink
<1>3. state'[0] = ConnState(Head(line))
  BY <1>2 DEF Parse, TInv, BuffersOK
<1>4. (a \in Ups => state'[0] = "connected") /\ (a \notin Ups \cup {"closed"} => state'[0] = state[0])
  BY <1>2, <1>3 DEF ConnState, Ups
<1> QED BY <1>2, <1>4 DEF Parse, ReplyKind

(* MAIN moves one of the replies on. *)
LEMMA OneKeeps ==
    ASSUME Links = {0}, TInv, DTQ_SIZE >= 2, NEW a, a \notin {"no_set", "ipd", "got_ip"}, One(a), Parse \/ PassOn
    PROVE  One(a)' /\ UNCHANGED <<rx, stray>>
           /\ (a \notin Ups \cup {"closed"} => state'[0] = state[0])
<1>1. CASE Parse
  <2>1. line = <<Line(a, 0)>> /\ dtq = <<>> /\ tx = <<>>
    BY <1>1, Zenon DEF Parse, One
  <2>2. Head(line) = Line(a, 0) /\ Tail(line) = <<>>
    BY <2>1, ShortFacts, Zenon
  <2>3. line' = <<>> /\ out' = a /\ UNCHANGED <<rx, stray, tx, dtq>>
        /\ (a \notin Ups \cup {"closed"} => state'[0] = state[0])
    BY <1>1, <2>2, ParseReply, Zenon
  <2> QED BY <2>1, <2>3, Zenon DEF One
<1>2. CASE PassOn
  <2>1. line = <<>> /\ out = a /\ dtq = <<>> /\ tx = <<>>
    BY <1>2, Zenon DEF PassOn, One
  <2>2. dtq' = <<a>> /\ out' = "no_set" /\ UNCHANGED <<line, tx, rx, stray, state>>
    BY <1>2, <2>1, ShortFacts, ShortLens, Zenon DEF PassOn, modemVars
  <2> QED BY <2>1, <2>2, Zenon DEF One
<1> QED BY <1>1, <1>2

LEMMA TwoKeeps ==
    ASSUME Links = {0}, TInv, DTQ_SIZE >= 2, NEW a, NEW b, a \notin {"no_set", "ipd", "got_ip"},
           b \notin {"no_set", "ipd", "got_ip"}, b \notin Ups \cup {"closed"}, Two(a, b), Parse \/ PassOn
    PROVE  Two(a, b)' /\ UNCHANGED <<rx, stray>>
           /\ (a \in Ups /\ (Len(line) = 2 \/ state[0] = "connected") => state'[0] = "connected")
           /\ (a \notin Ups \cup {"closed"} => state'[0] = state[0])
<1>1. CASE Parse
  <2>0. Parse
    BY <1>1
  <2>1. CASE line = <<Line(a, 0), Line(b, 0)>> /\ out = "no_set" /\ dtq = <<>> /\ tx = <<>>
    <3>1. Head(line) = Line(a, 0) /\ Tail(line) = <<Line(b, 0)>>
      BY <2>1, ShortFacts, ZenonT(30)
    <3>2. line' = <<Line(b, 0)>> /\ out' = a /\ UNCHANGED <<rx, stray, tx, dtq>>
          /\ (a \in Ups => state'[0] = "connected")
          /\ (a \notin Ups \cup {"closed"} => state'[0] = state[0])
      BY <2>0, <3>1, ParseReply, Zenon
    <3>3. Line(b, 0)' = Line(b, 0)
      BY DEF Line
    <3> QED BY <2>1, <3>2, <3>3, Zenon DEF Two
  <2>2. CASE line = <<Line(b, 0)>> /\ out = "no_set" /\ dtq = <<a>> /\ tx = <<>>
    <3>1. Head(line) = Line(b, 0) /\ Tail(line) = <<>> /\ Len(line) # 2
      BY <2>2, ShortFacts
    <3>2. line' = <<>> /\ out' = b /\ UNCHANGED <<rx, stray, tx, dtq>> /\ state'[0] = state[0]
      BY <2>0, <3>1, ParseReply, Zenon
    <3> QED BY <2>2, <3>1, <3>2, Zenon DEF Two
  <2>3. out = "no_set" /\ line # <<>>
    BY <2>0 DEF Parse
  <2> QED BY <2>1, <2>2, <2>3, Zenon DEF Two
<1>2. CASE PassOn
  <2>1. out # "no_set" /\ out' = "no_set" /\ UNCHANGED <<line, tx, rx, stray, state>>
    BY <1>2, Zenon DEF PassOn, modemVars
  <2>2. CASE line = <<Line(b, 0)>> /\ out = a /\ dtq = <<>> /\ tx = <<>>
    <3>1. dtq' = <<a>> /\ Len(line) # 2
      BY <1>2, <2>2, ShortFacts, ShortLens DEF PassOn
    <3>3. Line(b, 0)' = Line(b, 0)
      BY DEF Line
    <3> QED BY <2>1, <2>2, <3>1, <3>3, Zenon DEF Two
  <2>3. CASE line = <<>> /\ out = b /\ dtq = <<a>> /\ tx = <<>>
    <3>1. dtq' = <<a, b>> /\ Len(line) # 2
      BY <1>2, <2>3, ShortFacts, ShortLens DEF PassOn
    <3> QED BY <2>1, <2>3, <3>1, Zenon DEF Two
  <2> QED BY <2>1, <2>2, <2>3, Zenon DEF Two
<1> QED BY <1>1, <1>2

(* What the theorems below take for granted.  The code's queue has four    *)
(* entries; two are enough.                                                *)
Calm == Links = {0} /\ Prompt /\ DTQ_SIZE >= 2

LEMMA Where ==
    ASSUME TInv, Protocol
    PROVE  /\ pc = "idle" => Idle
           /\ op = "connect" => Connecting
           /\ op = "close" => Closing
           /\ op = "send" => Sending
           /\ pc # "idle" => op \in {"connect", "close", "send"}
<1>1. pc = "idle" <=> op = "none"
  BY DEF TInv, CallsOK
<1>2. (Idle => pc = "idle") /\ (Connecting => op = "connect") /\ (Closing => op = "close") /\ (Sending => op = "send")
  BY DEF Idle, Connecting, Closing, Sending
<1> QED BY <1>1, <1>2 DEF Protocol

(* The rest of the invariant is kept by a step that leaves alone what it   *)
(* is about.                                                               *)
LEMMA Frame ==
    ASSUME QInv
    PROVE  /\ UNCHANGED <<stray, rx, used, gen>> => OwnData'
           /\ UNCHANGED sent => CommandsStayCommands'
           /\ UNCHANGED <<unasked, handle>> => NoError'
           /\ UNCHANGED <<acked, sent>> => SendSound'
<1>1. UNCHANGED <<stray, rx, used, gen>> => OwnData'
  BY DEF QInv, OwnData
<1>2. UNCHANGED sent => CommandsStayCommands'
  BY DEF QInv, CommandsStayCommands
<1>3. UNCHANGED <<unasked, handle>> => NoError'
  BY DEF QInv, NoError
<1>4. UNCHANGED <<acked, sent>> => SendSound'
  BY DEF QInv, SendSound
<1> QED BY <1>1, <1>2, <1>3, <1>4

(* The application begins a call, or receives. *)
LEMMA BeginKeeps == ASSUME Calm, Quiet \/ unasked = 0, TInv, QInv, Begin PROVE QInv'
<1>0. pc = "idle" /\ Idle /\ Links = {0} /\ (Quiet \/ (line = <<>> /\ out = "no_set"))
  <2>1. pc = "idle"
    BY DEF Begin, Create, CallSend, CallClose, Receive, Call
  <2>2. Idle
    BY <2>1, Where DEF QInv
  <2>3. Links = {0} /\ (Quiet \/ (line = <<>> /\ out = "no_set"))
    BY <2>2 DEF Calm, Idle
  <2> QED BY <2>1, <2>2, <2>3
<1>t. /\ handle \in [Links -> {"CLOSED", "OPEN", "ERROR"}] /\ state \in [Links -> ConnStates]
      /\ (handle[0] # "CLOSED" => used[0])
  BY <1>0 DEF TInv, CallsOK, BuffersOK
<1>1. CASE Create(0)
  <2>1. handle[0] = "CLOSED" /\ tx = <<>> /\ line = <<>> /\ out = "no_set" /\ link[0] = 0 /\ mode = "cmd"
    BY <1>0, <1>1, <1>t DEF Create, Idle, Shut
  <2>2. op' = "connect" /\ pc' = "enter" /\ UNCHANGED <<modemVars, dtq, out, sends, acked, handle, stray>>
    BY <1>1 DEF Create, Call, Goto
  <2>3. state'[0] = "disconnected"
    BY <1>0, <1>1, <1>t DEF Create, NewState
  <2>4. Connecting'
    BY <2>1, <2>2, <2>3 DEF Connecting, Still, Shut, modemVars
  <2>5. OwnData'
    <3>1. rx'[0] = <<>> /\ stray' = stray /\ ~stray
      BY <1>0, <1>1 DEF Create, TInv, BuffersOK, QInv, OwnData
    <3>2. DOMAIN rx'[0] = {}
      BY <3>1
    <3> QED BY <1>0, <3>1, <3>2 DEF OwnData
  <2> QED BY <2>2, <2>4, <2>5, Frame DEF QInv, Protocol, modemVars
<1>2. ASSUME Call("send", 0) \/ Call("close", 0), handle[0] # "CLOSED",
             UNCHANGED <<modemVars, out, state, rx, stray, gen, used, acked, handle>>
      PROVE  QInv'
  <2>1. line = <<>> /\ out = "no_set" /\ tx = <<>> /\ mode = "cmd" /\ (Linked \/ Lost)
    BY <1>0, <1>2 DEF Call, Settled, Idle, Losing
  <2>2. Still' /\ Ready' /\ mode' = "cmd"
    BY <1>2, <2>1 DEF Still, Ready, Linked, Lost, Up, Shut, modemVars
  <2>3. pc' = "enter" /\ op' \in {"send", "close"}
    BY <1>2 DEF Call, Goto
  <2>4. Protocol'
    BY <2>2, <2>3 DEF Protocol, Sending, Closing
  <2> QED BY <1>2, <2>4, Frame DEF QInv, modemVars
<1>3. CASE CallSend(0)
  BY <1>2, <1>3 DEF CallSend
<1>4. CASE CallClose(0)
  BY <1>2, <1>4 DEF CallClose
<1>5. CASE Receive(0)
  <2>1. handle[0] = "OPEN" /\ tx = <<>> /\ mode = "cmd" /\ line = <<>> /\ (Linked \/ Lost)
    BY <1>0, <1>5 DEF Receive, Settled, Idle, Losing
  <2>2. CASE state[0] = "connected"
    <3>1. rx' = [rx EXCEPT ![0] = <<>>] /\ UNCHANGED <<modemVars, out, handle, state, stray, used, gen, pc, sent, unasked, acked>>
      BY <1>5, <2>2 DEF Receive, modemVars
    <3>2. rx'[0] = <<>>
      BY <1>0, <3>1 DEF TInv, BuffersOK
    <3>3. DOMAIN rx'[0] = {} /\ ~stray'
      BY <3>1, <3>2 DEF QInv, OwnData
    <3>4. OwnData'
      BY <1>0, <3>3 DEF OwnData
    <3>5. Idle'
      BY <1>0, <2>1, <3>1 DEF Idle, Linked, Losing, Lost, Up, Shut, DataLine, modemVars
    <3> QED BY <3>1, <3>4, <3>5, Frame DEF QInv, Protocol
  <2>3. CASE state[0] # "connected"
    <3>1. handle' = [handle EXCEPT ![0] = "ERROR"]
          /\ UNCHANGED <<modemVars, rx, state, stray, used, gen, pc, sent, unasked, acked>>
      BY <1>5, <2>3 DEF Receive, modemVars
    <3>2. handle'[0] = "ERROR"
      BY <1>0, <1>t, <3>1
    <3>3. Lost /\ unasked' # 0
      BY <2>1, <2>3, <3>1 DEF Linked, Lost
    <3>4. Idle'
      BY <1>0, <2>1, <3>1, <3>2, <3>3 DEF Idle, Lost, Shut, modemVars
    <3>5. NoError'
      BY <3>3 DEF NoError
    <3> QED BY <3>1, <3>4, <3>5, Frame DEF QInv, Protocol
  <2> QED BY <2>2, <2>3
<1> QED BY <1>0, <1>1, <1>3, <1>4, <1>5 DEF Begin

(* The places of the calls before the text is written. *)
LEMMA EnterKeeps ==
    ASSUME Calm, TInv, QInv, ConnectEnter \/ CloseEnter \/ SendEnter \/ Mark \/ Clear
    PROVE  QInv'
<1>0. /\ cur = 0 /\ 0 \in Links
      /\ handle \in [Links -> {"CLOSED", "OPEN", "ERROR"}] /\ state \in [Links -> ConnStates]
      /\ used \in [Links -> BOOLEAN] /\ (handle[0] # "CLOSED" => used[0])
  BY DEF Calm, TInv, CallsOK, BuffersOK
<1>1. ASSUME UNCHANGED <<modemVars, stray, rx, used, gen, handle, acked>>, Protocol' PROVE QInv'
  BY <1>1, Frame DEF QInv, modemVars
(* A return that destroys the entry, on a link that is down. *)
<1>2. ASSUME Destroy, UNCHANGED <<modemVars, out, stray, rx, gen, acked>>,
             Still, Shut, mode = "cmd"
      PROVE  QInv'
  <2>1. /\ pc' = "idle" /\ handle'[0] = "CLOSED" /\ \A l \in Links : l = 0
        /\ used' = [used EXCEPT ![0] = FALSE]
    BY <1>0, <1>2 DEF Destroy, Return, Goto, Calm
  <2>2. Idle'
    BY <1>2, <2>1 DEF Idle, Still, Shut, modemVars
  <2>3. OwnData'
    BY <1>0, <1>2, <2>1 DEF QInv, OwnData
  <2>4. NoError'
    BY <2>1 DEF NoError
  <2> QED BY <1>2, <2>2, <2>3, <2>4, Frame DEF QInv, Protocol, modemVars
<1>3. CASE ConnectEnter
  <2>1. Connecting /\ pc = "enter"
    BY <1>3, Where DEF QInv, ConnectEnter
  <2>2. Still /\ Shut /\ state[0] = "disconnected" /\ mode = "cmd" /\ op = "connect"
    BY <2>1 DEF Connecting
  <2>3. pc' = "mark" /\ op' = op /\ UNCHANGED <<modemVars, out, stray, rx, used, gen, handle, acked>>
    BY <1>0, <1>3, <2>2 DEF ConnectEnter, Goto, Inside
  <2>4. Protocol'
    BY <2>2, <2>3 DEF Protocol, Connecting, Still, Shut, modemVars
  <2> QED BY <1>1, <2>3, <2>4
<1>4. CASE CloseEnter
  <2>1. Closing /\ pc = "enter"
    BY <1>4, Where DEF QInv, CloseEnter
  <2>2. Still /\ Ready /\ mode = "cmd" /\ op = "close"
    BY <2>1 DEF Closing
  <2>3. CASE state[0] = "disconnected"
    <3>1. Shut /\ Destroy /\ UNCHANGED <<modemVars, out, stray, rx, gen, acked>>
      BY <1>0, <1>4, <2>2, <2>3 DEF CloseEnter, Ready
    <3> QED BY <1>2, <2>2, <3>1
  <2>4. CASE state[0] # "disconnected"
    <3>1. Up /\ pc' = "mark" /\ op' = op /\ UNCHANGED <<modemVars, out, stray, rx, used, gen, handle, acked>>
      BY <1>0, <1>4, <2>2, <2>4 DEF CloseEnter, Ready, Goto, Inside
    <3>2. Protocol'
      BY <2>2, <3>1 DEF Protocol, Closing, Still, Up, modemVars
    <3> QED BY <1>1, <3>1, <3>2
  <2> QED BY <2>3, <2>4
<1>5. CASE SendEnter
  <2>1. Sending /\ pc = "enter"
    BY <1>5, Where DEF QInv, SendEnter
  <2>2. Still /\ Ready /\ mode = "cmd" /\ op = "send"
    BY <2>1 DEF Sending
  <2>3. CASE state[0] = "connected"
    <3>1. Up /\ pc' = "clear" /\ op' = op /\ UNCHANGED <<modemVars, out, stray, rx, used, gen, handle, acked, state>>
      BY <1>0, <1>5, <2>2, <2>3 DEF SendEnter, Ready, Goto, Inside
    <3>2. Protocol'
      BY <2>2, <2>3, <3>1 DEF Protocol, Sending, Still, Up, modemVars
    <3> QED BY <1>1, <3>1, <3>2
  <2>4. CASE state[0] # "connected"
    <3>1. Shut /\ state[0] = "disconnected" /\ unasked # 0
      BY <2>2, <2>4 DEF Ready
    <3>2. Return("ERROR") /\ UNCHANGED <<modemVars, state, out, stray, rx, used, gen, acked>>
      BY <1>0, <1>5, <2>4 DEF SendEnter
    <3>3. pc' = "idle" /\ handle'[0] = "ERROR"
      BY <1>0, <3>2 DEF Return, Goto
    <3>4. Idle'
      BY <2>2, <3>1, <3>2, <3>3 DEF Idle, Lost, Shut, Still, modemVars
    <3>5. NoError'
      BY <3>1, <3>2 DEF NoError, modemVars
    <3> QED BY <3>2, <3>4, <3>5, Frame DEF QInv, Protocol, modemVars
  <2> QED BY <2>3, <2>4
<1>6. CASE Mark
  <2>1. /\ pc = "mark" /\ pc' = "clear" /\ op' = op
        /\ UNCHANGED <<modemVars, out, stray, rx, used, gen, handle, acked>>
    BY <1>6 DEF Mark, Goto, Inside
  <2>2. (op = "connect" /\ Connecting) \/ (op = "close" /\ Closing)
    BY <2>1, Where DEF QInv, Sending
  <2>3. Protocol'
    BY <2>1, <2>2 DEF Protocol, Connecting, Closing, Still, Up, Shut, modemVars
  <2> QED BY <1>1, <2>1, <2>3
<1>7. CASE Clear
  <2>1. /\ pc = "clear" /\ pc' = "write" /\ op' = op /\ dtq' = <<>>
        /\ UNCHANGED <<modemVars, out, stray, rx, used, gen, handle, acked, state>>
    BY <1>7 DEF Clear, Goto, Inside
  <2>2. (op = "connect" /\ Connecting) \/ (op = "close" /\ Closing) \/ (op = "send" /\ Sending)
    BY <2>1, Where DEF QInv
  <2>3. Protocol'
    BY <2>1, <2>2 DEF Protocol, Connecting, Closing, Sending, Still, Up, Shut, modemVars
  <2> QED BY <1>1, <2>1, <2>3
<1> QED BY <1>3, <1>4, <1>5, <1>6, <1>7

(* The text of a command, or the payload. *)
LEMMA WriteKeeps == ASSUME Calm, TInv, QInv, Write PROVE QInv'
<1>0. cur = 0
  BY DEF Calm, TInv, CallsOK
<1>1. /\ tx' = Append(tx, Text) /\ op' = op
      /\ UNCHANGED <<line, mode, raw, link, sent, unasked, state, rx, dtq, out, stray>>
      /\ UNCHANGED <<handle, used, gen, acked, sends>>
  BY DEF Write, Inside
<1>2. ASSUME tx = <<>> PROVE tx' = <<Text>>
  BY <1>1, <1>2, ShortFacts, Zenon
<1>3. ASSUME Protocol' PROVE QInv'
  BY <1>1, <1>3, Frame DEF QInv
<1>4. CASE pc = "write"
  <2>1. pc' = "first" /\ \A c : Text.cmd = c /\ op # "prepare"
                            => Text = [cmd |-> c, link |-> 0, gen |-> gen[0], no |-> sends]
    BY <1>0, <1>4 DEF Write, Goto, Text, Command
  <2>2. CASE op = "connect"
    <3>1. Still /\ Shut /\ dtq = <<>> /\ mode = "cmd"
      BY <1>4, <2>2, Where DEF QInv, Connecting
    <3>2. Text = [cmd |-> "CIPSTART", link |-> 0, gen |-> gen[0], no |-> sends]
      BY <1>4, <2>1, <2>2 DEF Text, Command
    <3>3. Unread("CIPSTART")'
      BY <1>1, <1>2, <3>1, <3>2 DEF Unread, Still
    <3> QED BY <1>1, <1>3, <2>1, <2>2, <3>1, <3>3 DEF Protocol, Connecting, Shut
  <2>3. CASE op = "close"
    <3>1. Still /\ Up /\ dtq = <<>> /\ mode = "cmd"
      BY <1>4, <2>3, Where DEF QInv, Closing
    <3>2. Text = [cmd |-> "CIPCLOSE", link |-> 0, gen |-> gen[0], no |-> sends]
      BY <1>4, <2>1, <2>3 DEF Text, Command
    <3>3. Unread("CIPCLOSE")'
      BY <1>1, <1>2, <3>1, <3>2 DEF Unread, Still
    <3> QED BY <1>1, <1>3, <2>1, <2>3, <3>1, <3>3 DEF Protocol, Closing, Up
  <2>4. CASE op = "send"
    <3>1. Still /\ Up /\ state[0] = "connected" /\ dtq = <<>> /\ mode = "cmd"
      BY <1>4, <2>4, Where DEF QInv, Sending
    <3>2. Text = [cmd |-> "CIPSEND", link |-> 0, gen |-> gen[0], no |-> sends]
      BY <1>4, <2>1, <2>4 DEF Text, Command
    <3>3. Unread("CIPSEND")'
      BY <1>1, <1>2, <3>1, <3>2 DEF Unread, Still
    <3> QED BY <1>1, <1>3, <2>1, <2>4, <3>1, <3>3 DEF Protocol, Sending, Up
  <2> QED BY <1>4, <2>2, <2>3, <2>4, Where DEF QInv
<1>5. CASE pc = "data"
  <2>1. op = "send" /\ Still /\ Up /\ state[0] = "connected" /\ dtq = <<>> /\ mode = "raw"
    BY <1>5, Where DEF QInv, Sending, Connecting, Closing
  <2>2. pc' = "done"
    BY <1>5 DEF Write, Goto
  <2>3. Text = [cmd |-> "DATA", link |-> 0, gen |-> gen[0], no |-> sends]
    <3>1. op = "send"
      BY <2>1
    <3> QED BY <1>0, <1>5, <3>1 DEF Text
  <2>4. Unread("DATA")'
    BY <1>1, <1>2, <2>1, <2>3 DEF Unread, Still
  <2> QED BY <1>1, <1>3, <2>1, <2>2, <2>4 DEF Protocol, Sending, Up
<1> QED BY <1>4, <1>5 DEF Write

(* The replies: each call finds the ones of its own command, in order. *)
LEMMA RepliesKeep ==
    ASSUME Calm, TInv, QInv, NEW k \in Kinds,
           ConnectReply(k) \/ CloseReply(k) \/ SendReply(k) \/ PromptReply(k) \/ DoneReply(k)
    PROVE  QInv'
<1>0. /\ cur = 0 /\ 0 \in Links /\ Prompt
      /\ handle \in [Links -> {"CLOSED", "OPEN", "ERROR"}]
      /\ used \in [Links -> BOOLEAN]
  BY DEF Calm, TInv, CallsOK
<1>1. Reply(k) /\ UNCHANGED <<modemVars, state, rx, out, stray>>
  BY DEF ConnectReply, CloseReply, SendReply, PromptReply, DoneReply
<1>u. UNCHANGED <<tx, line, mode, raw, link, sent, unasked>>
  BY <1>1 DEF modemVars
<1>2. ASSUME Inside, Protocol' PROVE QInv'
  BY <1>1, <1>2, <1>u, Frame DEF QInv, Inside
<1>3. ASSUME Destroy, UNCHANGED <<cur, gens, sends, acked, gen>>, Still', Shut, mode = "cmd"
      PROVE  QInv'
  <2>1. pc' = "idle" /\ handle'[0] = "CLOSED" /\ (\A l \in Links : l = 0) /\ used' = [used EXCEPT ![0] = FALSE]
    BY <1>0, <1>3 DEF Destroy, Return, Goto, Calm
  <2>2. Idle'
    BY <1>3, <1>u, <2>1 DEF Idle, Still, Shut
  <2>3. OwnData'
    BY <1>0, <1>1, <1>3, <2>1 DEF QInv, OwnData
  <2>4. NoError'
    BY <2>1 DEF NoError
  <2> QED BY <1>3, <1>u, <2>2, <2>3, <2>4, Frame DEF QInv, Protocol
<1>4. ASSUME Return("OPEN"), UNCHANGED <<used, gen>>, Still', Up, state[0] = "connected", mode = "cmd"
      PROVE  Idle' /\ OwnData' /\ NoError' /\ CommandsStayCommands'
  <2>1. pc' = "idle" /\ handle'[0] = "OPEN" /\ (\A l \in Links : l = 0) /\ line' = <<>>
    BY <1>0, <1>4 DEF Return, Goto, Calm, Still
  <2>2. DOMAIN line' = {}
    BY <2>1
  <2>3. Linked'
    BY <1>1, <1>4, <1>u, <2>2 DEF Linked, Up
  <2>4. Idle'
    BY <1>4, <1>u, <2>1, <2>3 DEF Idle, Still
  <2>5. NoError'
    BY <2>1 DEF NoError
  <2> QED BY <1>1, <1>4, <1>u, <2>4, <2>5, Frame
<1>5. CASE ConnectReply(k)
  <2>1. Connecting /\ op = "connect"
    BY <1>5, Where DEF QInv, ConnectReply
  <2>2. CASE pc = "first"
    <3>1. CASE Shut /\ Unread("CIPSTART")
      BY <1>0, <1>1, <3>1, NoReply
    <3>2. CASE Shut /\ One("error")
      <4>1. k = "error" /\ Still'
        BY <1>0, <1>1, <1>u, <3>2, OneReply
      <4>2. Destroy /\ UNCHANGED <<cur, gens, sends, acked, gen>>
        BY <1>5, <2>2, <4>1 DEF ConnectReply
      <4> QED BY <1>3, <2>1, <3>2, <4>1, <4>2 DEF Connecting
    <3>3. CASE Up /\ Two("connect", "ok") /\ (Len(line) = 2 \/ state[0] = "connected")
      <4>1. k = "connect" /\ One("ok")' /\ Len(line) # 2
        BY <1>0, <1>1, <1>u, <3>3, TwoReply
      <4>2. pc' = "second" /\ Inside
        BY <1>5, <2>2, <4>1 DEF ConnectReply, Goto
      <4>3. Protocol'
        BY <1>1, <1>u, <2>1, <3>3, <4>1, <4>2 DEF Protocol, Connecting, Up, Inside
      <4> QED BY <1>2, <4>2, <4>3
    <3> QED BY <2>1, <2>2, <3>1, <3>2, <3>3 DEF Connecting
  <2>3. CASE pc = "second"
    <3>1. Up /\ One("ok") /\ state[0] = "connected" /\ mode = "cmd"
      BY <2>1, <2>3 DEF Connecting
    <3>2. k = "ok" /\ Still'
      BY <1>0, <1>1, <1>u, <3>1, OneReply
    <3>3. Return("OPEN") /\ UNCHANGED <<cur, gens, sends, acked, used, gen>>
      BY <1>5, <2>3, <3>2 DEF ConnectReply
    <3>4. Idle' /\ OwnData' /\ NoError' /\ CommandsStayCommands'
      BY <1>4, <3>1, <3>2, <3>3
    <3> QED BY <1>u, <3>3, <3>4, Frame DEF QInv, Protocol
  <2> QED BY <1>5, <2>2, <2>3 DEF ConnectReply
<1>6. CASE CloseReply(k)
  <2>1. Closing /\ op = "close" /\ mode = "cmd"
    BY <1>6, Where DEF QInv, CloseReply, Closing
  <2>2. CASE pc = "first"
    <3>1. CASE Unread("CIPCLOSE")
      BY <1>0, <1>1, <3>1, NoReply
    <3>2. CASE Shut /\ Two("closed", "ok")
      <4>1. k = "closed" /\ One("ok")'
        BY <1>0, <1>1, <1>u, <3>2, TwoReply
      <4>2. pc' = "second" /\ Inside
        BY <1>6, <2>2, <4>1 DEF CloseReply, Goto
      <4>3. Protocol'
        BY <1>u, <2>1, <3>2, <4>1, <4>2 DEF Protocol, Closing, Shut, Inside
      <4> QED BY <1>2, <4>2, <4>3
    <3> QED BY <2>1, <2>2, <3>1, <3>2 DEF Closing
  <2>3. CASE pc = "second"
    <3>1. Shut /\ One("ok")
      BY <2>1, <2>3 DEF Closing
    <3>2. Still'
      BY <1>0, <1>1, <1>u, <3>1, OneReply
    <3>3. Destroy /\ UNCHANGED <<cur, gens, sends, acked, gen>>
      BY <1>6, <2>3 DEF CloseReply
    <3> QED BY <1>3, <2>1, <3>1, <3>2, <3>3
  <2> QED BY <1>6, <2>2, <2>3 DEF CloseReply
<1>7. CASE SendReply(k)
  <2>1. Sending /\ op = "send" /\ pc = "first"
    BY <1>7, Where DEF QInv, SendReply
  <2>2. Up /\ state[0] = "connected" /\ (Unread("CIPSEND") \/ (mode = "raw" /\ Two("ok", "progress")))
    BY <2>1 DEF Sending
  <2>3. ~Unread("CIPSEND")
    BY <1>0, <1>1, NoReply
  <2>4. k = "ok" /\ One("progress")'
    BY <1>0, <1>1, <1>u, <2>2, <2>3, TwoReply
  <2>5. pc' = "prompt" /\ Inside
    BY <1>7, <2>4 DEF SendReply, Goto
  <2>6. Protocol'
    BY <1>1, <1>u, <2>1, <2>2, <2>3, <2>4, <2>5 DEF Protocol, Sending, Up, Inside
  <2> QED BY <1>2, <2>5, <2>6
<1>8. CASE PromptReply(k)
  <2>1. Sending /\ op = "send" /\ pc = "prompt"
    BY <1>8, Where DEF QInv, PromptReply
  <2>2. Up /\ state[0] = "connected" /\ mode = "raw" /\ One("progress")
    BY <2>1 DEF Sending
  <2>3. k = "progress" /\ Still' /\ dtq' = <<>>
    BY <1>0, <1>1, <1>u, <2>2, OneReply
  <2>4. pc' = "data" /\ Inside
    BY <1>8, <2>3 DEF PromptReply, Goto
  <2>5. Protocol'
    BY <1>1, <1>u, <2>1, <2>2, <2>3, <2>4 DEF Protocol, Sending, Up, Inside
  <2> QED BY <1>2, <2>4, <2>5
<1>9. CASE DoneReply(k)
  <2>1. Sending /\ op = "send" /\ pc = "done"
    BY <1>9, Where DEF QInv, DoneReply
  <2>2. Up /\ state[0] = "connected" /\ (Unread("DATA") \/ (mode = "cmd" /\ One("send_ok") /\ Transmitted))
    BY <2>1 DEF Sending
  <2>3. ~Unread("DATA")
    BY <1>0, <1>1, NoReply
  <2>4. k = "send_ok" /\ Still'
    BY <1>0, <1>1, <1>u, <2>2, <2>3, OneReply
  <2>5. Return("OPEN") /\ acked' = acked \cup {sends} /\ UNCHANGED <<cur, gens, sends, used, gen>>
    BY <1>9, <2>4 DEF DoneReply, SendOk
  <2>6. Idle' /\ OwnData' /\ NoError' /\ CommandsStayCommands'
    BY <1>4, <2>2, <2>3, <2>4, <2>5
  <2>7. SendSound'
    BY <1>u, <2>2, <2>3, <2>5 DEF QInv, SendSound, Transmitted
  <2> QED BY <2>6, <2>7 DEF QInv, Protocol
<1> QED BY <1>5, <1>6, <1>7, <1>8, <1>9

LEMMA StoreFacts ==
    ASSUME NEW S, NEW q \in Seq(S), NEW e \in S
    PROVE  \A i \in DOMAIN Append(q, e) : Append(q, e)[i] = e \/ (i \in DOMAIN q /\ Append(q, e)[i] = q[i])
  OBVIOUS

(* MAIN parses a line the module sent between the calls: the bytes of the  *)
(* connection, or the last line, CLOSED.                                   *)
LEMMA ParseIdle ==
    ASSUME Links = {0}, TInv, QInv, Parse, Idle
    PROVE  Idle' /\ OwnData'
<1>0. /\ pc' = "idle" /\ mode = "cmd" /\ mode' = "cmd" /\ tx' = <<>> /\ handle' = handle
      /\ UNCHANGED <<link, unasked, used, gen>>
      /\ handle[0] # "CLOSED" /\ (Linked \/ Losing) /\ unasked # 0
  BY DEF Parse, Idle, Lost, appVars
<1>1. /\ line \in Seq(Lines) /\ line # <<>> /\ used[0] /\ gen[0] \in Nat
      /\ rx \in [Links -> Seq(Nat)] /\ state \in [Links -> ConnStates]
  BY <1>0, SocketAssumption DEF Parse, TInv, PortOK, CallsOK, BuffersOK
<1>2. /\ Len(line) \in Nat \ {0} /\ Head(line) = line[1] /\ 1 \in DOMAIN line
      /\ DOMAIN line = 1 .. Len(line) /\ line' = Tail(line)
      /\ Len(line') = Len(line) - 1 /\ DOMAIN line' = 1 .. Len(line) - 1
      /\ \A i \in 1 .. Len(line) - 1 : line'[i] = line[i + 1]
  BY <1>1, TailFacts DEF Parse
<1>3. CASE Head(line) = DataLine
  <2>1. Head(line).kind = "ipd" /\ ParsedLink(Head(line)) = 0 /\ Head(line).gen = gen[0]
    BY <1>3 DEF DataLine, ParsedLink
  <2>2. state'[0] = state[0]
    <3>1. state'[0] = ConnState(Head(line))
      BY <1>1, <2>1 DEF Parse
    <3>2. ConnState(Head(line)) = state[0]
      BY <2>1 DEF ConnState
    <3> QED BY <3>1, <3>2
  <2>3. OwnData'
    <3>1. stray' = stray \/ stray' = (stray \/ ~used[0])
      BY <2>1 DEF Parse
    <3>2. ~stray'
      BY <1>1, <3>1 DEF QInv, OwnData
    <3>3. rx'[0] = rx[0] \/ rx'[0] = Append(rx[0], gen[0])
      BY <1>1, <2>1 DEF Parse
    <3>4. \A i \in DOMAIN rx[0] : rx[0][i] = gen[0]
      BY <1>1 DEF QInv, OwnData
    <3>5. \A i \in DOMAIN rx'[0] : rx'[0][i] = gen[0]
      <4>1. rx[0] \in Seq(Nat)
        BY <1>1
      <4>2. CASE rx'[0] = Append(rx[0], gen[0])
        BY <1>1, <3>4, <4>1, <4>2, StoreFacts
      <4> QED BY <3>3, <3>4, <4>2
    <3> QED BY <1>0, <3>2, <3>5 DEF OwnData
  <2>4. DataLine' = DataLine
    BY <1>0 DEF DataLine
  <2>5. CASE Linked
    <3>1. ASSUME NEW i \in DOMAIN line' PROVE line'[i] = DataLine
      BY <1>2, <2>5 DEF Linked
    <3>2. Linked'
      BY <1>0, <2>2, <2>4, <2>5, <3>1 DEF Linked, Up
    <3> QED BY <1>0, <2>3, <3>2 DEF Idle
  <2>6. CASE Losing
    <3>1. DataLine # Line("closed", 0)
      BY DEF DataLine, Line
    <3>2. Len(line) # 1
      BY <1>2, <1>3, <2>6, <3>1 DEF Losing
    <3>3. line'[Len(line')] = line[Len(line)] /\ line' # <<>>
      <4>1. Len(line) - 1 \in 1 .. Len(line) - 1 /\ (Len(line) - 1) + 1 = Len(line)
        BY <1>2, <3>2
      <4>2. line'[Len(line) - 1] = line[Len(line)]
        BY <1>2, <4>1
      <4>3. 1 \in DOMAIN line'
        BY <1>2, <4>1
      <4> QED BY <1>2, <4>2, <4>3
    <3>4. ASSUME NEW i \in 1 .. Len(line') - 1 PROVE line'[i] = DataLine
      <4>1. i \in 1 .. Len(line) - 1 /\ i + 1 \in 1 .. Len(line) - 1
        BY <1>2
      <4> QED BY <1>2, <2>6, <4>1 DEF Losing
    <3>5. Line("closed", 0)' = Line("closed", 0)
      BY DEF Line
    <3>6. Losing'
      BY <1>0, <2>2, <2>4, <2>6, <3>3, <3>4, <3>5 DEF Losing, Shut
    <3> QED BY <1>0, <2>3, <3>6 DEF Idle
  <2> QED BY <1>0, <2>5, <2>6
<1>4. CASE Head(line) # DataLine
  <2>1. Losing /\ Len(line) = 1 /\ Head(line) = Line("closed", 0)
    <3>1. Losing
      BY <1>0, <1>2, <1>4 DEF Linked
    <3>2. Len(line) = 1
      BY <1>2, <1>4, <3>1 DEF Losing
    <3> QED BY <1>2, <3>1, <3>2 DEF Losing
  <2>2. Head(line).kind = "closed" /\ ParsedLink(Head(line)) = 0
    BY <2>1 DEF Line, ParsedLink
  <2>3. state'[0] = "disconnected" /\ UNCHANGED <<rx, stray>>
    <3>1. state'[0] = ConnState(Head(line)) /\ UNCHANGED <<rx, stray>>
      BY <1>1, <2>2 DEF Parse
    <3>2. ConnState(Head(line)) = "disconnected"
      BY <2>2 DEF ConnState
    <3> QED BY <3>1, <3>2
  <2>4. line' = <<>>
    BY <1>1, <1>2, <2>1
  <2>5. Lost'
    BY <1>0, <2>1, <2>3, <2>4 DEF Lost, Losing, Shut
  <2> QED BY <1>0, <2>3, <2>5, Frame DEF Idle
<1> QED BY <1>3, <1>4

(* MAIN parses or passes on, between the calls or during one. *)
LEMMA MainKeeps == ASSUME Calm, TInv, QInv, Parse \/ PassOn PROVE QInv'
<1>0. Links = {0} /\ DTQ_SIZE >= 2
  BY DEF Calm
<1>1. /\ UNCHANGED <<mode, raw, link, sent, unasked, tx>>
      /\ UNCHANGED <<op, pc, cur, gens, sends, acked, handle, used, gen>>
      /\ line # <<>> \/ out # "no_set"
  BY DEF Parse, PassOn, modemVars, appVars
<1>2. ASSUME Protocol', OwnData' PROVE QInv'
  BY <1>1, <1>2, Frame DEF QInv
<1>3. CASE Idle
  <2>1. CASE Parse
    BY <1>0, <1>2, <1>3, <2>1, ParseIdle DEF Protocol
  <2>2. CASE PassOn
    <3>1. UNCHANGED <<line, state, rx, stray>> /\ out # "no_set"
      BY <2>2 DEF PassOn, modemVars
    <3>2. Idle'
      BY <1>1, <1>3, <3>1 DEF Idle, Linked, Losing, Lost, Up, Shut, DataLine, Line
    <3> QED BY <1>1, <1>2, <3>1, <3>2, Frame DEF Protocol
  <2> QED BY <2>1, <2>2
<1>u. ASSUME NEW c PROVE ~Unread(c) /\ ~Still
  BY <1>1 DEF Unread, Still
<1>4. CASE Connecting
  <2>1. CASE pc = "first" /\ Shut /\ One("error")
    <3>1. One("error")' /\ UNCHANGED <<rx, stray>>
      BY <1>0, <2>1, OneKeeps
    <3> QED BY <1>1, <1>2, <1>4, <2>1, <3>1, Frame DEF Protocol, Connecting, Shut
  <2>2. CASE pc = "first" /\ Up /\ Two("connect", "ok") /\ (Len(line) = 2 \/ state[0] = "connected")
    <3>1. Two("connect", "ok")' /\ UNCHANGED <<rx, stray>> /\ state'[0] = "connected"
      BY <1>0, <2>2, TwoKeeps DEF Ups
    <3> QED BY <1>1, <1>2, <1>4, <2>2, <3>1, Frame DEF Protocol, Connecting, Up
  <2>3. CASE pc = "second" /\ Up /\ One("ok") /\ state[0] = "connected"
    <3>1. One("ok")' /\ UNCHANGED <<rx, stray>> /\ state'[0] = state[0]
      BY <1>0, <2>3, OneKeeps DEF Ups
    <3> QED BY <1>1, <1>2, <1>4, <2>3, <3>1, Frame DEF Protocol, Connecting, Up
  <2> QED BY <1>4, <1>u, <2>1, <2>2, <2>3 DEF Connecting
<1>5. CASE Closing
  <2>1. CASE pc = "first" /\ Shut /\ Two("closed", "ok")
    <3>1. Two("closed", "ok")' /\ UNCHANGED <<rx, stray>>
      BY <1>0, <2>1, TwoKeeps DEF Ups
    <3> QED BY <1>1, <1>2, <1>5, <2>1, <3>1, Frame DEF Protocol, Closing, Shut
  <2>2. CASE pc = "second" /\ Shut /\ One("ok")
    <3>1. One("ok")' /\ UNCHANGED <<rx, stray>>
      BY <1>0, <2>2, OneKeeps
    <3> QED BY <1>1, <1>2, <1>5, <2>2, <3>1, Frame DEF Protocol, Closing, Shut
  <2> QED BY <1>5, <1>u, <2>1, <2>2 DEF Closing
<1>6. CASE Sending
  <2>1. CASE pc = "first" /\ mode = "raw" /\ Up /\ state[0] = "connected" /\ Two("ok", "progress")
    <3>1. Two("ok", "progress")' /\ UNCHANGED <<rx, stray>> /\ state'[0] = state[0]
      BY <1>0, <2>1, TwoKeeps DEF Ups
    <3> QED BY <1>1, <1>2, <1>6, <2>1, <3>1, Frame DEF Protocol, Sending, Up
  <2>2. CASE pc = "prompt" /\ mode = "raw" /\ Up /\ state[0] = "connected" /\ One("progress")
    <3>1. One("progress")' /\ UNCHANGED <<rx, stray>> /\ state'[0] = state[0]
      BY <1>0, <2>2, OneKeeps DEF Ups
    <3> QED BY <1>1, <1>2, <1>6, <2>2, <3>1, Frame DEF Protocol, Sending, Up
  <2>3. CASE pc = "done" /\ mode = "cmd" /\ Up /\ state[0] = "connected" /\ One("send_ok") /\ Transmitted
    <3>1. One("send_ok")' /\ UNCHANGED <<rx, stray>> /\ state'[0] = state[0]
      BY <1>0, <2>3, OneKeeps DEF Ups
    <3> QED BY <1>1, <1>2, <1>6, <2>3, <3>1, Frame DEF Protocol, Sending, Up, Transmitted
  <2> QED BY <1>6, <1>u, <2>1, <2>2, <2>3 DEF Sending
<1> QED BY <1>3, <1>4, <1>5, <1>6 DEF QInv, Protocol

(* The module reads the text of the call and answers. *)
LEMMA ExecuteKeeps ==
    ASSUME Calm, TInv, QInv, Execute, UNCHANGED <<appVars, state, rx, dtq, out, stray>>
    PROVE  QInv'
<1>0. /\ cur = 0 /\ Links = {0} /\ link \in [Links -> Nat]
      /\ pc # "idle" => gen[0] # 0
      /\ raw = 0
  BY SocketAssumption DEF Calm, TInv, CallsOK, PortOK
<1>r. StartLink \/ CloseLink \/ PromptLink \/ NotCommand \/ Transmit
  <2>1. tx # <<>> => Head(tx).cmd \notin Settings
    <3>1. tx # <<>> => Head(tx) = tx[1] /\ 1 \in DOMAIN tx
      BY TailFacts DEF TInv, PortOK
    <3> QED BY <3>1 DEF TInv, PrepOK, Undisturbed, Calm
  <2> QED BY <2>1 DEF Execute, Restart, Configure, Join, Reads, Settings
<1>1. /\ UNCHANGED <<op, pc, cur, gens, sends, acked, handle, used, gen>>
      /\ UNCHANGED <<state, rx, dtq, out, stray, unasked>>
  BY <1>r DEF appVars, StartLink, CloseLink, PromptLink, NotCommand, Transmit
<1>2. tx # <<>> /\ tx' = Tail(tx)
  BY <1>r DEF StartLink, CloseLink, PromptLink, NotCommand, Transmit, Reads
<1>3. ASSUME Protocol', sent' = sent PROVE QInv'
  BY <1>1, <1>3, Frame DEF QInv
<1>4. ASSUME NEW c, Unread(c)
      PROVE  /\ tx' = <<>> /\ out' = "no_set" /\ dtq' = <<>>
             /\ Head(tx) = [cmd |-> c, link |-> 0, gen |-> gen[0], no |-> sends]
             /\ \A a : line' = line \o <<a>> => line' = <<a>>
             /\ \A a, b : line' = line \o <<a, b>> => line' = <<a, b>>
  <2>1. Head(tx) = [cmd |-> c, link |-> 0, gen |-> gen[0], no |-> sends] /\ tx' = <<>>
    BY <1>2, <1>4, ShortFacts, Zenon DEF Unread
  <2>2. line = <<>> /\ out' = "no_set" /\ dtq' = <<>>
    BY <1>1, <1>4 DEF Unread
  <2>3. ASSUME NEW a, line' = line \o <<a>> PROVE line' = <<a>>
    BY <2>2, <2>3, ShortFacts, Zenon
  <2>4. ASSUME NEW a, NEW b, line' = line \o <<a, b>> PROVE line' = <<a, b>>
    BY <2>2, <2>4, ShortFacts, Zenon
  <2> QED BY <2>1, <2>2, <2>3, <2>4
<1>5. ASSUME NEW a, line' = <<Line(a, 0)>>, tx' = <<>>, out' = "no_set", dtq' = <<>> PROVE One(a)'
  <2>1. Line(a, 0)' = Line(a, 0)
    BY DEF Line
  <2> QED BY <1>5, <2>1 DEF One
<1>6. ASSUME NEW a, NEW b, line' = <<Line(a, 0), Line(b, 0)>>, tx' = <<>>, out' = "no_set", dtq' = <<>>
      PROVE  Two(a, b)' /\ Len(line') = 2
  <2>1. Line(a, 0)' = Line(a, 0) /\ Line(b, 0)' = Line(b, 0)
    BY DEF Line
  <2>2. Len(line') = 2
    BY <1>6, ShortFacts, Zenon
  <2> QED BY <1>6, <2>1, <2>2 DEF Two
<1>7. CASE op = "connect"
  <2>1. /\ pc = "first" /\ Shut /\ Unread("CIPSTART") /\ mode = "cmd" /\ gen[0] # 0
    BY <1>0, <1>2, <1>7, Where DEF QInv, Connecting, Still, One, Two, Idle
  <2>2. /\ Head(tx).cmd = "CIPSTART" /\ Head(tx).link = 0 /\ Head(tx).gen = gen[0]
        /\ tx' = <<>> /\ out' = "no_set" /\ dtq' = <<>>
    BY <1>4, <2>1
  <2>3. StartLink
    BY <1>r, <2>1, <2>2 DEF CloseLink, PromptLink, NotCommand, Transmit, Reads
  <2>4. CASE link' = [link EXCEPT ![0] = gen[0]] /\ line' = line \o <<Line("connect", 0), Line("ok", 0)>>
    <3>1. line' = <<Line("connect", 0), Line("ok", 0)>>
      BY <1>4, <2>1, <2>4
    <3>2. Two("connect", "ok")' /\ Len(line') = 2
      BY <1>6, <2>2, <3>1
    <3>3. Up'
      BY <1>0, <1>1, <2>1, <2>4 DEF Up
    <3>4. sent' = sent /\ mode' = mode
      BY <2>3 DEF StartLink
    <3> QED BY <1>1, <1>3, <1>7, <2>1, <3>2, <3>3, <3>4 DEF Protocol, Connecting
  <2>5. CASE link' = link /\ line' = line \o <<Line("error", 0)>>
    <3>1. line' = <<Line("error", 0)>>
      BY <1>4, <2>1, <2>5
    <3>2. One("error")'
      BY <1>5, <2>2, <3>1
    <3>3. sent' = sent /\ mode' = mode
      BY <2>3 DEF StartLink
    <3> QED BY <1>1, <1>3, <1>7, <2>1, <2>5, <3>2, <3>3 DEF Protocol, Connecting, Shut
  <2> QED BY <2>1, <2>2, <2>3, <2>4, <2>5 DEF StartLink, Answers, Shut
<1>8. CASE op = "close"
  <2>1. /\ pc = "first" /\ Up /\ Unread("CIPCLOSE") /\ mode = "cmd"
    BY <1>2, <1>8, Where DEF QInv, Closing, Still, One, Two
  <2>2. /\ Head(tx).cmd = "CIPCLOSE" /\ Head(tx).link = 0
        /\ tx' = <<>> /\ out' = "no_set" /\ dtq' = <<>>
    BY <1>4, <2>1
  <2>3. CloseLink
    BY <1>r, <2>1, <2>2 DEF StartLink, PromptLink, NotCommand, Transmit, Reads
  <2>4. /\ line' = line \o <<Line("closed", 0), Line("ok", 0)>> /\ link' = [link EXCEPT ![0] = 0]
        /\ sent' = sent /\ mode' = mode
    BY <2>1, <2>2, <2>3 DEF CloseLink, Answers, Up
  <2>5. line' = <<Line("closed", 0), Line("ok", 0)>>
    BY <1>4, <2>1, <2>4
  <2>6. Two("closed", "ok")' /\ Shut'
    BY <1>0, <1>6, <2>2, <2>4, <2>5 DEF Shut
  <2> QED BY <1>1, <1>3, <1>8, <2>1, <2>4, <2>6 DEF Protocol, Closing
<1>9. CASE op = "send"
  <2>1. /\ Up /\ state[0] = "connected"
        /\ \/ pc = "first" /\ mode = "cmd" /\ Unread("CIPSEND")
           \/ pc = "done" /\ mode = "raw" /\ Unread("DATA")
    BY <1>2, <1>9, Where DEF QInv, Sending, Still, One, Two
  <2>2. CASE pc = "first" /\ mode = "cmd" /\ Unread("CIPSEND")
    <3>1. /\ Head(tx).cmd = "CIPSEND" /\ Head(tx).link = 0
          /\ tx' = <<>> /\ out' = "no_set" /\ dtq' = <<>>
      BY <1>4, <2>2
    <3>2. PromptLink
      BY <1>r, <2>2, <3>1 DEF StartLink, CloseLink, NotCommand, Transmit, Reads
    <3>3. /\ line' = line \o <<Line("ok", 0), Line("progress", 0)>> /\ mode' = "raw"
          /\ link' = link /\ sent' = sent
      BY <2>1, <3>1, <3>2 DEF PromptLink, Answers, Up
    <3>4. line' = <<Line("ok", 0), Line("progress", 0)>>
      BY <1>4, <2>2, <3>3
    <3>5. Two("ok", "progress")'
      BY <1>6, <3>1, <3>4
    <3> QED BY <1>1, <1>3, <1>9, <2>1, <2>2, <3>3, <3>5 DEF Protocol, Sending, Up
  <2>3. CASE pc = "done" /\ mode = "raw" /\ Unread("DATA")
    <3>1. /\ Head(tx).cmd = "DATA" /\ Head(tx).no = sends
          /\ tx' = <<>> /\ out' = "no_set" /\ dtq' = <<>>
      BY <1>4, <2>3
    <3>2. Transmit
      BY <1>r, <2>3, <3>1 DEF StartLink, CloseLink, PromptLink, NotCommand, Reads
    <3>3. /\ line' = line \o <<Line("send_ok", 0)>> /\ mode' = "cmd"
          /\ link' = link /\ sent' = sent \cup {Head(tx)}
      BY <1>0, <2>1, <3>1, <3>2 DEF Transmit, Answers, Up
    <3>4. line' = <<Line("send_ok", 0)>>
      BY <1>4, <2>3, <3>3
    <3>5. One("send_ok")'
      BY <1>5, <3>1, <3>4
    <3>6. Transmitted'
      BY <1>1, <3>1, <3>3 DEF Transmitted
    <3>7. Protocol'
      BY <1>1, <1>9, <2>1, <2>3, <3>3, <3>5, <3>6 DEF Protocol, Sending, Up
    <3>8. CommandsStayCommands' /\ SendSound'
      BY <1>1, <3>1, <3>3 DEF QInv, CommandsStayCommands, SendSound
    <3> QED BY <1>1, <3>7, <3>8, Frame DEF QInv
  <2> QED BY <2>1, <2>2, <2>3
<1>10. pc # "idle"
  BY <1>2, Where DEF QInv, Idle
<1> QED BY <1>7, <1>8, <1>9, <1>10, Where DEF QInv

(* The peer sends or closes, between the calls. *)
LEMMA UnaskedKeeps ==
    ASSUME Calm, TInv, QInv, unasked \in Nat, pc = "idle", Unasked,
           UNCHANGED <<appVars, state, rx, dtq, out, stray>>
    PROVE  QInv' /\ unasked' \in Nat
<1>0. Links = {0} /\ link \in [Links -> Nat] /\ line \in Seq(Lines) /\ Idle /\ gen[0] \in Nat
  BY Where, SocketAssumption DEF Calm, TInv, PortOK, CallsOK, QInv
<1>1. /\ UNCHANGED <<op, pc, cur, gens, sends, acked, handle, used, gen, state, rx, dtq, out, stray>>
      /\ UNCHANGED <<tx, sent>>
      /\ unasked' = unasked + 1 /\ link[0] # 0
  BY <1>0 DEF appVars, Unasked, PeerSends, PeerCloses
<1>2. Linked /\ handle[0] # "CLOSED" /\ tx = <<>> /\ mode = "cmd" /\ Up /\ state[0] = "connected"
  BY <1>0, <1>1 DEF Idle, Losing, Lost, Linked, Shut
<1>3. unasked' # 0 /\ unasked' \in Nat
  BY <1>1
<1>4. DataLine' = DataLine
  BY <1>1 DEF DataLine
<1>5. CASE PeerSends(0)
  <2>1. Data(0) = DataLine /\ DataLine \in Lines
    BY <1>0, <1>2 DEF Data, DataLine, Up, Lines
  <2>2. line' = line \o <<DataLine>> /\ UNCHANGED <<mode, link>>
    BY <1>5, <2>1 DEF PeerSends, Answers
  <2>3. \A i \in DOMAIN line' : line'[i] = DataLine
    <3>1. /\ Len(line) \in Nat /\ DOMAIN line = 1 .. Len(line) /\ DOMAIN line' = 1 .. Len(line) + 1
          /\ \A i \in 1 .. Len(line) : line'[i] = line[i]
          /\ line'[Len(line) + 1] = DataLine
      BY <1>0, <2>1, <2>2, AppendFacts
    <3>2. \A i \in 1 .. Len(line) : line[i] = DataLine
      BY <1>2, <3>1 DEF Linked
    <3>3. ASSUME NEW i \in 1 .. Len(line) + 1 PROVE i \in 1 .. Len(line) \/ i = Len(line) + 1
      BY <3>1
    <3> QED BY <3>1, <3>2, <3>3
  <2>4. Linked'
    BY <1>1, <1>2, <1>4, <2>2, <2>3 DEF Linked, Up
  <2>5. Idle'
    BY <1>0, <1>1, <1>2, <2>2, <2>4 DEF Idle
  <2> QED BY <1>1, <1>3, <2>5, Frame DEF QInv, Protocol, NoError
<1>6. CASE PeerCloses(0)
  <2>1. Line("closed", 0) \in Lines /\ Line("closed", 0)' = Line("closed", 0)
    BY <1>0 DEF Line, Lines, Kinds
  <2>2. line' = line \o <<Line("closed", 0)>> /\ mode' = mode /\ link' = [link EXCEPT ![0] = 0]
    BY <1>2, <1>6 DEF PeerCloses, Answers
  <2>3. /\ Len(line) \in Nat /\ DOMAIN line = 1 .. Len(line) /\ Len(line') = Len(line) + 1
        /\ \A i \in 1 .. Len(line) : line'[i] = line[i]
        /\ line'[Len(line) + 1] = Line("closed", 0) /\ line' # <<>>
    BY <1>0, <2>1, <2>2, AppendFacts
  <2>4. \A i \in 1 .. Len(line') - 1 : line'[i] = DataLine
    BY <1>2, <2>3 DEF Linked
  <2>5. Shut'
    BY <1>0, <2>2 DEF Shut
  <2>6. Losing'
    BY <1>1, <1>2, <1>3, <1>4, <2>1, <2>3, <2>4, <2>5 DEF Losing
  <2>7. Idle'
    BY <1>0, <1>1, <1>2, <2>2, <2>6 DEF Idle
  <2> QED BY <1>1, <1>3, <2>7, Frame DEF QInv, Protocol, NoError
<1> QED BY <1>0, <1>3, <1>5, <1>6 DEF Unasked

(* The invariant, for peers that act between the calls, or that have not   *)
(* acted yet.                                                              *)
Steady == Quiet \/ unasked = 0

(* With one connection at a time and a module in time, the three parties   *)
(* keep in step in every call, across failed connects, closes by either    *)
(* side and reuse of the entry, until a peer acts during a call.           *)
LEMMA InStep == ASSUME Calm PROVE Spec => [](Steady => QInv)
<1>1. Init => QInv /\ unasked \in Nat
  <2> SUFFICES ASSUME Init PROVE QInv /\ unasked \in Nat
    OBVIOUS
  <2>1. Links = {0} /\ 0 \in Links
    BY DEF Calm
  <2>2. Idle
    BY <2>1 DEF Init, ModemInit, Idle, Shut
  <2>3. OwnData
    <3>1. rx[0] = <<>> /\ ~stray
      BY <2>1 DEF Init
    <3>2. DOMAIN rx[0] = {}
      BY <3>1
    <3> QED BY <2>1, <3>1, <3>2 DEF OwnData
  <2>4. CommandsStayCommands /\ NoError /\ SendSound /\ unasked \in Nat
    BY <2>1 DEF Init, ModemInit, CommandsStayCommands, NoError, SendSound
  <2> QED BY <2>2, <2>3, <2>4 DEF QInv, Protocol
<1>2. TInv /\ (Steady => QInv) /\ unasked \in Nat /\ [Next]_vars
      => (Steady => QInv)' /\ (unasked \in Nat)'
  <2> SUFFICES ASSUME TInv, Steady => QInv, unasked \in Nat, [Next]_vars
               PROVE  (Steady => QInv)' /\ unasked' \in Nat
    OBVIOUS
  <2>u. op # "prepare" /\ wifi = "got_ip" /\ esp = "done"
    BY DEF TInv, PrepOK, Undisturbed, Calm
  <2>0. ASSUME unasked' = unasked, Steady /\ QInv => QInv' PROVE (Steady => QInv)' /\ unasked' \in Nat
    BY <2>0 DEF Steady
  <2>1. CASE Begin
    <3>1. unasked' = unasked
      BY <2>1 DEF Begin, Create, CallSend, CallClose, Receive, modemVars
    <3>2. Steady /\ QInv => QInv'
      BY <2>1, BeginKeeps DEF Steady
    <3> QED BY <2>0, <3>1, <3>2
  <2>2. CASE ConnectEnter \/ CloseEnter \/ SendEnter \/ Mark \/ Clear
    <3>1. unasked' = unasked
      BY <2>2 DEF ConnectEnter, CloseEnter, SendEnter, Mark, Clear, modemVars
    <3> QED BY <2>0, <2>2, <3>1, EnterKeeps
  <2>3. CASE Write
    <3>1. unasked' = unasked
      BY <2>3 DEF Write
    <3> QED BY <2>0, <2>3, <3>1, WriteKeeps
  <2>4. ASSUME NEW k \in Kinds,
               ConnectReply(k) \/ CloseReply(k) \/ SendReply(k) \/ PromptReply(k) \/ DoneReply(k)
        PROVE  (Steady => QInv)' /\ unasked' \in Nat
    <3>1. unasked' = unasked
      BY <2>4 DEF ConnectReply, CloseReply, SendReply, PromptReply, DoneReply, modemVars
    <3> QED BY <2>0, <2>4, <3>1, RepliesKeep
  <2>5. CASE Parse \/ PassOn
    <3>1. unasked' = unasked
      BY <2>5 DEF Parse, PassOn, modemVars
    <3> QED BY <2>0, <2>5, <3>1, MainKeeps
  <2>6. CASE Modem
    <3>1. /\ UNCHANGED <<appVars, state, rx, dtq, out, stray>>
          /\ Execute \/ ((Quiet => pc = "idle") /\ Unasked)
      BY <2>6 DEF Modem, Calm
    <3>2. CASE Execute
      <4>1. unasked' = unasked
        BY <3>2 DEF Execute, StartLink, CloseLink, PromptLink, NotCommand, Transmit, Restart, Configure, Join
      <4> QED BY <2>0, <3>1, <3>2, <4>1, ExecuteKeeps
    <3>3. CASE (Quiet => pc = "idle") /\ Unasked
      <4>1. unasked' = unasked + 1
        BY <3>3 DEF Unasked, PeerSends, PeerCloses
      <4>2. unasked' \in Nat /\ unasked' # 0
        BY <4>1
      <4>3. ASSUME Quiet PROVE QInv'
        BY <3>1, <3>3, <4>3, UnaskedKeeps DEF Steady
      <4> QED BY <4>2, <4>3 DEF Steady
    <3> QED BY <3>1, <3>2, <3>3
  <2>7. CASE UNCHANGED vars
    <3>1. UNCHANGED <<tx, line, mode, raw, link, sent, unasked>> /\ UNCHANGED <<op, pc, cur, gens, sends, acked, handle, used, gen>>
          /\ UNCHANGED <<state, rx, dtq, out, stray>>
      BY <2>7 DEF vars, modemVars, appVars
    <3>2. Idle => Idle'
      BY <3>1 DEF Idle, Linked, Losing, Lost, Up, Shut, DataLine, Line
    <3>3. Connecting => Connecting'
      BY <3>1 DEF Connecting, Still, Up, Shut, Unread, One, Two, Line
    <3>4. Closing => Closing'
      BY <3>1 DEF Closing, Still, Up, Shut, Ready, Unread, One, Two, Line
    <3>5. Sending => Sending'
      BY <3>1 DEF Sending, Still, Up, Shut, Ready, Unread, One, Two, Line, Transmitted
    <3>6. QInv => QInv'
      BY <3>1, <3>2, <3>3, <3>4, <3>5, Frame DEF QInv, Protocol
    <3> QED BY <2>0, <3>1, <3>6
  <2>8. ~Prepare /\ \A k : ~(PrepareGoesOn(k) \/ PrepareRetries(k) \/ PrepareFails(k))
    BY <2>u DEF Prepare, PrepareGoesOn, PrepareRetries, PrepareFails, Calm
  <2> QED BY <2>1, <2>2, <2>3, <2>4, <2>5, <2>6, <2>7, <2>8 DEF Next, Step
<1>3. Init => (Steady => QInv) /\ unasked \in Nat
  BY <1>1
<1> QED BY <1>2, <1>3, Typing, PTL DEF Spec

(* No call on an open connection fails as long as no peer has acted, at    *)
(* whatever moment one does: every reply a call takes is the one of its    *)
(* own command, and the data queue has room for it.                        *)
THEOREM CallsSucceed ==
    ASSUME Links = {0}, Prompt, DTQ_SIZE >= 2
    PROVE  Spec => []NoError
<1>1. Calm
  BY DEF Calm
<1>2. (Steady => QInv) => NoError
  BY DEF QInv, NoError, Steady
<1> QED BY <1>1, <1>2, InStep, PTL

(* The module never takes the text of an AT command for payload: a send    *)
(* does not give up between the prompt and the payload.                    *)
THEOREM NoCommandSent ==
    ASSUME Links = {0}, Prompt, Quiet, DTQ_SIZE >= 2
    PROVE  Spec => []CommandsStayCommands
<1>1. Calm
  BY DEF Calm
<1>2. (Steady => QInv) => CommandsStayCommands
  BY DEF QInv, Steady
<1> QED BY <1>1, <1>2, InStep, PTL

(* The bytes of a connection's buffer are those of its own peer, whatever  *)
(* became of the connections made on the entry before it, and none is      *)
(* stored through the buffer of an entry that is not in use.               *)
THEOREM DataSafety ==
    ASSUME Links = {0}, Prompt, Quiet, DTQ_SIZE >= 2
    PROVE  Spec => []OwnData
<1>1. Calm
  BY DEF Calm
<1>2. (Steady => QInv) => OwnData
  BY DEF QInv, Steady
<1> QED BY <1>1, <1>2, InStep, PTL

(* When esp_at_socket_send returns the length, the module has transmitted  *)
(* that payload: the SEND OK it took is not one of an earlier command.     *)
THEOREM SendSafety ==
    ASSUME Links = {0}, Prompt, Quiet, DTQ_SIZE >= 2
    PROVE  Spec => []SendSound
<1>1. Calm
  BY DEF Calm
<1>2. (Steady => QInv) => SendSound
  BY DEF QInv, Steady
<1> QED BY <1>1, <1>2, InStep, PTL

(* A call that waits for a reply gets one: its text, the line, or the kind *)
(* in MAIN or in the data queue is on the way, so that no call runs into   *)
(* its timeout while the peers act between the calls or not at all and the *)
(* module is in time.                                                      *)
ReplyOnTheWay ==
    pc \in {"first", "second", "prompt", "done"} =>
        tx # <<>> \/ line # <<>> \/ out # "no_set" \/ dtq # <<>>
THEOREM RepliesCome ==
    ASSUME Links = {0}, Prompt, DTQ_SIZE >= 2
    PROVE  Spec => [](Quiet \/ unasked = 0 => ReplyOnTheWay)
<1>1. Calm
  BY DEF Calm
<1>2. ASSUME NEW a, a # "no_set", One(a) PROVE line # <<>> \/ out # "no_set" \/ dtq # <<>>
  BY <1>2, ShortFacts, Zenon DEF One
<1>3. ASSUME NEW a, NEW b, Two(a, b) PROVE line # <<>> \/ dtq # <<>>
  BY <1>3, ShortFacts, Zenon DEF Two
<1>4. ASSUME NEW c, Unread(c) PROVE tx # <<>>
  BY <1>4, ShortFacts, Zenon DEF Unread
<1>5. QInv => ReplyOnTheWay
  <2> SUFFICES ASSUME QInv, pc \in {"first", "second", "prompt", "done"}
               PROVE  tx # <<>> \/ line # <<>> \/ out # "no_set" \/ dtq # <<>>
    BY DEF ReplyOnTheWay
  <2>1. ~Idle
    BY DEF Idle
  <2>2. CASE Connecting
    BY <1>2, <1>3, <1>4, <2>2 DEF Connecting
  <2>3. CASE Closing
    BY <1>2, <1>3, <1>4, <2>3 DEF Closing
  <2>4. CASE Sending
    BY <1>2, <1>3, <1>4, <2>4 DEF Sending
  <2> QED BY <2>1, <2>2, <2>3, <2>4 DEF QInv, Protocol
<1>6. (Steady => QInv) => (Quiet \/ unasked = 0 => ReplyOnTheWay)
  BY <1>5 DEF Steady
<1> QED BY <1>1, <1>6, InStep, PTL
-------------------------------------------------------------------------------
(***************************************************************************)
(* Any number of links, any delay: a SEND OK can be late or be taken by    *)
(* another call, but there is one for each text transmitted, and each is   *)
(* taken once.  No text is written twice, so that each transmission adds   *)
(* to sent.                                                                *)
(***************************************************************************)
Written  == {tx[i] : i \in DOMAIN tx} \cup sent
Distinct ==
    /\ \A i, j \in DOMAIN tx : tx[i] = tx[j] => i = j
    /\ \A i \in DOMAIN tx : tx[i] \notin sent

(* What the calls may still write is not among the texts w. *)
Unwritten(w) ==
    /\ \A t \in w : t.gen <= gens
    /\ \A t \in w : IF t.cmd \in Settings THEN t.no < preps ELSE t.no <= sends
    /\ op = "send" /\ pc \in {"enter", "mark", "clear", "write"}
         => \A t \in w : t.no = sends => t.cmd \notin {"CIPSEND", "DATA"}
    /\ op = "send" /\ pc \in {"first", "prompt", "data"}
         => \A t \in w : t.no = sends => t.cmd # "DATA"
    /\ op = "prepare" \/ (op = "connect" /\ pc \in {"enter", "mark", "clear", "write"})
         => \A t \in w : t.gen = gen[cur] => t.cmd # "CIPSTART"
    /\ \A l \in Links : used[l] /\ ~(op = "close" /\ cur = l /\ pc \in {"first", "second"})
         => \A t \in w : t.link = l /\ t.gen = gen[l] => t.cmd # "CIPCLOSE"
    /\ pc = "data" => op = "send"
    /\ \A l \in Links : gen[l] <= gens

(* The SEND OK on their way to the application: lines, replies queued and  *)
(* the one MAIN is about to queue.                                         *)
Oks(q, T) == {i \in DOMAIN q : q[i] \in T}
OkLine    == {m \in Lines : m.kind = "send_ok"}
Owed ==
    Cardinality(Oks(line, OkLine)) + Cardinality(Oks(dtq, {"send_ok"}))
    + (IF out = "send_ok" THEN 1 ELSE 0)
Backed ==
    /\ IsFiniteSet(acked) /\ IsFiniteSet(sent)
    /\ Cardinality(acked) + Owed <= Cardinality(sent)

BackInv == sent \subseteq Texts /\ Distinct /\ Unwritten(Written) /\ Backed

LEMMA OneMore ==
    ASSUME NEW B, IsFiniteSet(B), NEW x
    PROVE  /\ IsFiniteSet(B \cup {x}) /\ Cardinality(B \cup {x}) \in Nat
           /\ Cardinality(B \cup {x}) <= Cardinality(B) + 1
           /\ x \notin B => Cardinality(B \cup {x}) = Cardinality(B) + 1
<1>1. IsFiniteSet(B \cup {x}) /\ Cardinality(B \cup {x}) = IF x \in B THEN Cardinality(B) ELSE Cardinality(B) + 1
  BY FS_AddElement
<1>2. Cardinality(B) \in Nat
  BY FS_CardinalityType
<1> QED BY <1>1, <1>2

LEMMA OksFinite ==
    ASSUME NEW S, NEW q \in Seq(S), NEW T
    PROVE  IsFiniteSet(Oks(q, T)) /\ Cardinality(Oks(q, T)) \in Nat
<1>1. DOMAIN q = 1 .. Len(q) /\ Len(q) \in Nat
  OBVIOUS
<1>2. IsFiniteSet(1 .. Len(q))
  BY <1>1, FS_Interval
<1>3. Oks(q, T) \in SUBSET (1 .. Len(q))
  BY <1>1 DEF Oks
<1>4. IsFiniteSet(Oks(q, T))
  BY <1>2, <1>3, FS_Subset
<1> QED BY <1>4, FS_CardinalityType

(* One is taken from the front, *)
LEMMA OksTail ==
    ASSUME NEW S, NEW q \in Seq(S), q # <<>>, NEW T
    PROVE  /\ Cardinality(Oks(Tail(q), T)) <= Cardinality(Oks(q, T))
           /\ Head(q) \in T => Cardinality(Oks(Tail(q), T)) + 1 <= Cardinality(Oks(q, T))
<1> DEFINE A == Oks(Tail(q), T)
           B == Oks(q, T)
           C == B \ {1}
           f == [i \in A |-> i + 1]
<1>1. /\ Len(q) \in Nat \ {0} /\ Head(q) = q[1] /\ 1 \in DOMAIN q
      /\ Tail(q) \in Seq(S) /\ \A i \in 1 .. Len(q) - 1 : Tail(q)[i] = q[i + 1]
      /\ DOMAIN q = 1 .. Len(q) /\ DOMAIN Tail(q) = 1 .. Len(q) - 1
  BY TailFacts
<1>2. ASSUME NEW i \in A PROVE i \in Nat /\ i + 1 \in C
  BY <1>1 DEF Oks
<1>3. IsFiniteSet(A) /\ IsFiniteSet(B) /\ Cardinality(A) \in Nat /\ Cardinality(B) \in Nat
  BY <1>1, OksFinite
<1>4. IsFiniteSet(C) /\ Cardinality(C) = IF 1 \in B THEN Cardinality(B) - 1 ELSE Cardinality(B)
  BY <1>3, FS_RemoveElement
<1>5. Head(q) \in T => 1 \in B
  BY <1>1 DEF Oks
<1> HIDE DEF A, B, C
<1>6. f \in Injection(A, C)
  <2>1. f \in [A -> C]
    BY <1>2
  <2>2. \A i, j \in A : f[i] = f[j] => i = j
    BY <1>2
  <2>3. DOMAIN f = A
    OBVIOUS
  <2> HIDE DEF f
  <2> QED BY <2>1, <2>2, <2>3 DEF Injection, IsInjective
<1>7. Cardinality(A) <= Cardinality(C)
  <2> HIDE DEF f
  <2> QED BY <1>4, <1>6, FS_Injection
<1> QED BY <1>3, <1>4, <1>5, <1>7 DEF A, B

(* one comes at the end, *)
LEMMA OksAppend ==
    ASSUME NEW S, NEW q \in Seq(S), NEW e \in S, NEW T
    PROVE  /\ Cardinality(Oks(q \o <<e>>, T)) <= Cardinality(Oks(q, T)) + 1
           /\ e \notin T => Oks(q \o <<e>>, T) = Oks(q, T)
<1>1. /\ Len(q) \in Nat /\ \A i \in 1 .. Len(q) : (q \o <<e>>)[i] = q[i]
      /\ (q \o <<e>>)[Len(q) + 1] = e
      /\ DOMAIN q = 1 .. Len(q) /\ DOMAIN (q \o <<e>>) = 1 .. Len(q) + 1
  BY AppendFacts
<1>2. 1 .. Len(q) + 1 = (1 .. Len(q)) \cup {Len(q) + 1} /\ Len(q) + 1 \notin 1 .. Len(q)
  BY <1>1
<1>3. Oks(q \o <<e>>, T) = IF e \in T THEN Oks(q, T) \cup {Len(q) + 1} ELSE Oks(q, T)
  BY <1>1, <1>2 DEF Oks
<1>4. IsFiniteSet(Oks(q, T)) /\ Cardinality(Oks(q, T)) \in Nat
  BY OksFinite
<1>5. Cardinality(Oks(q, T) \cup {Len(q) + 1}) <= Cardinality(Oks(q, T)) + 1
  BY <1>4, OneMore
<1> QED BY <1>3, <1>4, <1>5

(* or lines come that are none. *)
LEMMA OksJoin ==
    ASSUME NEW S, NEW q \in Seq(S), NEW s \in Seq(S), NEW T, \A i \in DOMAIN s : s[i] \notin T
    PROVE  Oks(q \o s, T) = Oks(q, T)
<1>1. /\ Len(q) \in Nat /\ Len(s) \in Nat
      /\ DOMAIN q = 1 .. Len(q) /\ DOMAIN s = 1 .. Len(s) /\ DOMAIN (q \o s) = 1 .. Len(q) + Len(s)
  OBVIOUS
<1>2. \A i \in 1 .. Len(q) : (q \o s)[i] = q[i]
  OBVIOUS
<1>3. \A i \in 1 .. Len(s) : (q \o s)[Len(q) + i] = s[i]
  OBVIOUS
<1> DEFINE t == q \o s
<1>4. t \in Seq(S) /\ DOMAIN t = 1 .. Len(q) + Len(s) /\ (\A i \in 1 .. Len(q) : t[i] = q[i])
      /\ \A i \in 1 .. Len(s) : t[Len(q) + i] = s[i]
  BY <1>1, <1>2, <1>3
<1> HIDE DEF t
<1>5. ASSUME NEW i \in DOMAIN t, t[i] \in T PROVE i \in DOMAIN q
  <2> SUFFICES ASSUME i \notin 1 .. Len(q) PROVE FALSE
    BY <1>1
  <2>1. i - Len(q) \in 1 .. Len(s) /\ t[Len(q) + (i - Len(q))] = t[i]
    BY <1>1, <1>4
  <2>2. t[i] = s[i - Len(q)]
    BY <1>4, <2>1
  <2> QED BY <1>1, <1>5, <2>1, <2>2
<1>6. \A i \in DOMAIN q : i \in DOMAIN t
  BY <1>1, <1>4
<1>7. Oks(t, T) = Oks(q, T)
  BY <1>1, <1>4, <1>5, <1>6 DEF Oks
<1> QED BY <1>7 DEF t

-------------------------------------------------------------------------------
(* The texts stay apart while none is written. *)
LEMMA ReadKeeps ==
    ASSUME PortOK, Distinct
    PROVE  (\/ tx' = tx /\ sent' = sent
            \/ tx # <<>> /\ tx' = Tail(tx) /\ (sent' = sent \/ sent' = sent \cup {Head(tx)}))
           => Distinct' /\ Written' \subseteq Written
<1>1. CASE tx' = tx /\ sent' = sent
  BY <1>1 DEF Distinct, Written
<1>2. CASE tx # <<>> /\ tx' = Tail(tx) /\ (sent' = sent \/ sent' = sent \cup {Head(tx)})
  <2>1. /\ Len(tx) \in Nat \ {0} /\ Head(tx) = tx[1] /\ 1 \in DOMAIN tx
        /\ \A i \in 1 .. Len(tx) - 1 : tx'[i] = tx[i + 1]
        /\ DOMAIN tx = 1 .. Len(tx) /\ DOMAIN tx' = 1 .. Len(tx) - 1
    BY <1>2, TailFacts DEF PortOK
  <2>2. ASSUME NEW i \in DOMAIN tx'
        PROVE  i + 1 \in DOMAIN tx /\ tx'[i] = tx[i + 1] /\ i + 1 # 1 /\ i \in Nat
    <3>2. i \in 1 .. Len(tx) - 1
      BY <2>1, Zenon
    <3>3. Len(tx) \in Nat \ {0}
      BY <2>1
    <3>4. i + 1 \in 1 .. Len(tx) /\ i + 1 # 1 /\ i \in Nat
      BY <3>2, <3>3
    <3> QED BY <2>1, <3>2, <3>4, Zenon
  <2>3. sent' \subseteq sent \cup {tx[1]}
    BY <1>2, <2>1
  <2>4. ASSUME NEW i \in DOMAIN tx', NEW j \in DOMAIN tx', tx'[i] = tx'[j] PROVE i = j
    <3>1. i + 1 = j + 1
      BY <2>2, <2>4 DEF Distinct
    <3> QED BY <2>2, <3>1
  <2>5. ASSUME NEW i \in DOMAIN tx' PROVE tx'[i] \notin sent'
    <3>1. tx[i + 1] \notin sent /\ tx[i + 1] # tx[1]
      BY <2>1, <2>2 DEF Distinct
    <3> QED BY <2>2, <2>3, <3>1
  <2>6. Written' \subseteq Written
    BY <2>1, <2>2, <2>3 DEF Written
  <2> QED BY <2>4, <2>5, <2>6 DEF Distinct
<1> QED BY <1>1, <1>2

(* What the calls will write stays apart from what was written as they go  *)
(* on: sends, gens and preps number the texts.                             *)
LEMMA UnwrittenStays ==
    ASSUME CallsOK, NEW w, NEW v, v \subseteq w, Unwritten(w), \A t \in w : t.no \in Nat /\ t.gen \in Nat,
           preps' = preps,
           \/ UNCHANGED appVars
           \/ Begin
           \/ ConnectEnter \/ Prepare \/ CloseEnter \/ SendEnter \/ Mark \/ Clear
           \/ \E k \in Kinds : PrepareGoesOn(k) \/ PrepareRetries(k) \/ PrepareFails(k)
                               \/ ConnectReply(k) \/ CloseReply(k) \/ SendReply(k)
                               \/ PromptReply(k) \/ DoneReply(k)
    PROVE  Unwritten(v)'
<1>0. /\ gens \in Nat /\ sends \in Nat /\ cur \in Links /\ gen \in [Links -> Nat]
      /\ used \in [Links -> BOOLEAN] /\ (pc = "idle" <=> op = "none")
  BY SocketAssumption DEF CallsOK
<1>1. CASE UNCHANGED appVars
  BY <1>1 DEF Unwritten, appVars
<1>2. ASSUME NEW l \in Links, Create(l) PROVE Unwritten(v)'
  <2>1. /\ op' = "connect" /\ pc' = "enter" /\ cur' = l /\ gens' = gens + 1 /\ sends' = sends
        /\ gen' = [gen EXCEPT ![l] = gens + 1] /\ op = "none"
        /\ used' = [used EXCEPT ![l] = TRUE]
    BY <1>0, <1>2 DEF Create, Call, Goto
  <2>2. \A t \in v : t.gen # gens + 1 /\ t.gen <= gens'
    BY <1>0, <2>1 DEF Unwritten
  <2>n. \A t \in v : IF t.cmd \in Settings THEN t.no < preps' ELSE t.no <= sends'
    BY <2>1 DEF Unwritten
  <2>3. gen'[l] = gens + 1 /\ \A m \in Links \ {l} : gen'[m] = gen[m] /\ used'[m] = used[m]
    BY <1>0, <2>1
  <2>4. \A m \in Links : gen'[m] <= gens'
    BY <1>0, <2>1, <2>3 DEF Unwritten
  <2>5. ASSUME NEW m \in Links, used'[m], NEW t \in v, t.link = m, t.gen = gen'[m]
        PROVE  t.cmd # "CIPCLOSE"
    <3>1. m # l /\ used[m] /\ t.gen = gen[m] /\ t \in w
      BY <2>2, <2>3, <2>5
    <3> QED BY <2>1, <2>5, <3>1 DEF Unwritten
  <2> QED BY <2>1, <2>2, <2>n, <2>3, <2>4, <2>5 DEF Unwritten
<1>3. ASSUME NEW l \in Links, CallSend(l) PROVE Unwritten(v)'
  <2>1. /\ op' = "send" /\ pc' = "enter" /\ sends' = sends + 1 /\ op = "none"
        /\ gens' = gens /\ gen' = gen /\ used' = used
    BY <1>0, <1>3 DEF CallSend, Call, Goto
  <2>2. \A t \in v : t.cmd \notin Settings => t.no # sends + 1 /\ t.no <= sends'
    BY <1>0, <2>1 DEF Unwritten
  <2>3. "CIPSEND" \notin Settings /\ "DATA" \notin Settings
    BY DEF Settings
  <2> QED BY <1>0, <2>1, <2>2, <2>3 DEF Unwritten
<1>4. ASSUME NEW l \in Links, CallClose(l) \/ Receive(l) PROVE Unwritten(v)'
  <2>1. /\ (op' = "close" /\ pc' = "enter") \/ UNCHANGED <<op, pc, cur>>
        /\ UNCHANGED <<sends, gens, gen, used>> /\ op = "none"
    BY <1>0, <1>4 DEF CallClose, Receive, Call, Goto
  <2> QED BY <1>0, <2>1 DEF Unwritten
(* A call goes on to the place p or returns, and no longer uses its entry  *)
(* when it is a close on its way. *)
<1>5. ASSUME UNCHANGED <<gens, sends, gen, cur>>,
             \/ op' = "none" /\ pc' = "idle" /\ used' = [used EXCEPT ![cur] = FALSE]
             \/ op' = "none" /\ pc' = "idle" /\ used' = used /\ op # "close"
             \/ /\ used' = used /\ op \in {"prepare", "connect"} /\ pc # "data" /\ pc' # "data"
                /\ \/ op = "connect" /\ pc = "enter" /\ op' = "prepare"
                   \/ op = "prepare" /\ op' \in {"prepare", "connect"} /\ pc' # "idle"
             \/ /\ op' = op /\ used' = used /\ op # "prepare"
                /\ \/ pc \in {"enter", "mark", "clear"} /\ pc' \in {"mark", "clear", "write"}
                   \/ pc \in {"first", "second"} /\ pc' = "second"
                   \/ op = "send" /\ pc \in {"first", "prompt"} /\ pc' \in {"prompt", "data"}
                   \/ pc = "done" /\ pc' = "done"
      PROVE  Unwritten(v)'
  <2>1. CASE op' = "none"
    BY <1>0, <1>5, <2>1 DEF Unwritten
  <2>2. CASE op' # "none"
    BY <1>0, <1>5, <2>2 DEF Unwritten
  <2> QED BY <2>1, <2>2
<1>8. pc = "data" => op = "send"
  BY DEF Unwritten
<1>9. CASE Prepare
  BY <1>5, <1>9 DEF Prepare, Pass, PrepVars, Goto
<1>10. ASSUME op = "prepare", Clear PROVE Unwritten(v)'
  BY <1>5, <1>10 DEF Clear, Goto, Inside
<1>11. ASSUME NEW k \in Kinds, PrepareGoesOn(k) \/ PrepareRetries(k) \/ PrepareFails(k) PROVE Unwritten(v)'
  <2>1. CASE PrepareGoesOn(k)
    BY <1>5, <1>8, <2>1 DEF PrepareGoesOn, PrepVars, Goto
  <2>2. CASE PrepareRetries(k)
    BY <1>5, <1>8, <2>2 DEF PrepareRetries, Pass, PrepVars, Goto
  <2>3. CASE PrepareFails(k)
    BY <1>5, <2>3 DEF PrepareFails, Return, Destroy, Goto
  <2> QED BY <1>11, <2>1, <2>2, <2>3
<1>6. CASE ConnectEnter \/ CloseEnter \/ SendEnter \/ Mark \/ Clear
  <2>1. CASE ConnectEnter \/ CloseEnter \/ SendEnter
    BY <1>5, <2>1 DEF ConnectEnter, CloseEnter, SendEnter, Return, Destroy, Goto, Inside
  <2>2. CASE op # "prepare" /\ (Mark \/ Clear)
    BY <1>5, <2>2 DEF Mark, Clear, Goto, Inside
  <2>3. CASE op = "prepare" /\ Mark
    BY <1>5, <2>3 DEF Mark, Goto, Inside
  <2> QED BY <1>6, <1>10, <2>1, <2>2, <2>3
<1>7. ASSUME NEW k \in Kinds,
             ConnectReply(k) \/ CloseReply(k) \/ SendReply(k) \/ PromptReply(k) \/ DoneReply(k)
      PROVE  Unwritten(v)'
  <2>1. CASE ConnectReply(k)
    BY <1>5, <2>1 DEF ConnectReply, Return, Destroy, Goto, Inside
  <2>2. CASE CloseReply(k)
    BY <1>5, <2>2 DEF CloseReply, Return, Destroy, Goto, Inside
  <2>3. CASE SendReply(k)
    BY <1>5, <2>3 DEF SendReply, SendFails, Return, Goto, Inside
  <2>4. CASE PromptReply(k)
    BY <1>5, <2>4 DEF PromptReply, SendFails, Return, Goto, Inside
  <2>5. CASE DoneReply(k)
    BY <1>5, <2>5 DEF DoneReply, SendFails, SendOk, Return, Goto, Inside
  <2> QED BY <1>7, <2>1, <2>2, <2>3, <2>4, <2>5
<1> QED BY <1>1, <1>2, <1>3, <1>4, <1>6, <1>7, <1>9, <1>11 DEF Begin

(* A text is written once. *)
LEMMA WriteFresh ==
    ASSUME PortOK, CallsOK, PrepOK, sent \subseteq Texts, NEW w, NEW v, w = Written, v = w \cup {Text},
           Distinct, Unwritten(w), Write
    PROVE  Text \notin w /\ Unwritten(v)'
<1>1. /\ pc \in {"write", "data"} /\ op \in {"prepare", "connect", "send", "close"} /\ used[cur] /\ cur \in Links
      /\ (pc = "data" => op = "send")
      /\ UNCHANGED <<op, cur, gens, sends, gen, used>>
      /\ pc' = IF pc = "write" THEN "first" ELSE "done"
  BY DEF Write, CallsOK, Unwritten, Goto, Inside
<1>2. /\ Text.link = cur /\ Text.gen = gen[cur]
      /\ (op = "prepare" => Text.cmd \in Settings /\ Text.no = preps)
      /\ (op # "prepare" => Text.no = sends)
      /\ (op # "prepare" => Text.cmd = IF pc = "data" THEN "DATA" ELSE IF op = "connect" THEN "CIPSTART"
                                       ELSE IF op = "close" THEN "CIPCLOSE" ELSE "CIPSEND")
  <2>1. Text.link = cur /\ Text.gen = gen[cur] /\ Text.no = IF op = "prepare" THEN preps ELSE sends
    BY DEF Text
  <2>2. Text.cmd = IF pc = "data" THEN "DATA" ELSE Command
    BY DEF Text
  <2>3. op = "prepare" => Command \in Settings
    BY DEF Command, Setting, Settings
  <2>4. op # "prepare" => Command = IF op = "connect" THEN "CIPSTART"
                                    ELSE IF op = "close" THEN "CIPCLOSE" ELSE "CIPSEND"
    BY <1>1 DEF Command
  <2> QED BY <1>1, <2>1, <2>2, <2>3, <2>4
<1>3. sends \in Nat /\ gens \in Nat /\ gen[cur] <= gens /\ gen[cur] \in Nat /\ preps \in Nat
  BY <1>1, SocketAssumption DEF CallsOK, PrepOK, Unwritten
<1>w. \A t \in w : t.no \in Nat
  <2>1. tx \in Seq(Texts) /\ sent \subseteq Texts
    BY DEF PortOK
  <2>2. \A t \in w : t \in Texts
    BY <2>1 DEF Written
  <2> QED BY <2>2 DEF Texts
<1>n. preps' = IF op = "prepare" THEN preps + 1 ELSE preps
  BY DEF Write
<1>s. {"CIPSTART", "CIPCLOSE", "CIPSEND", "DATA"} \cap Settings = {}
  BY DEF Settings
<1> HIDE DEF Text
<1>4. Text \notin w
  <2> SUFFICES ASSUME Text \in w PROVE FALSE
    OBVIOUS
  <2>1. CASE op = "send"
    BY <1>1, <1>2, <2>1 DEF Unwritten
  <2>2. CASE op = "connect"
    BY <1>1, <1>2, <2>2 DEF Unwritten
  <2>3. CASE op = "close"
    BY <1>1, <1>2, <2>3 DEF Unwritten
  <2>4. CASE op = "prepare"
    <3>1. Text.no < preps /\ Text.no = preps
      BY <1>2, <2>4 DEF Unwritten
    <3> QED BY <1>3, <3>1
  <2> QED BY <1>1, <2>1, <2>2, <2>3, <2>4
<1>5. \A t \in v : t \in w \/ t = Text
  OBVIOUS
<1>6. \A t \in v : t.gen <= gens'
  BY <1>1, <1>2, <1>3, <1>5 DEF Unwritten
<1>m. ASSUME NEW t \in v PROVE IF t.cmd \in Settings THEN t.no < preps' ELSE t.no <= sends'
  <2>1. CASE t \in w
    <3>1. IF t.cmd \in Settings THEN t.no < preps ELSE t.no <= sends
      BY <2>1 DEF Unwritten
    <3>2. t.no \in Nat
      BY <2>1, <1>w
    <3>3. t.no < preps => t.no < preps'
      BY <1>3, <1>n, <3>2
    <3> QED BY <1>1, <3>1, <3>3
  <2>2. CASE t = Text
    <3>1. CASE op = "prepare"
      <4>1. Text.cmd \in Settings /\ Text.no < preps'
        BY <1>2, <1>3, <1>n, <3>1
      <4> QED BY <2>2, <4>1
    <3>2. CASE op # "prepare"
      <4>1. Text.cmd \notin Settings
        BY <1>1, <1>2, <1>s, <3>2
      <4>2. Text.no <= sends'
        BY <1>1, <1>2, <1>3, <3>2
      <4> QED BY <2>2, <4>1, <4>2
    <3> QED BY <3>1, <3>2
  <2> QED BY <1>5, <2>1, <2>2
<1>7. op' = "send" /\ pc' \in {"first", "prompt", "data"} => \A t \in v : t.no = sends' => t.cmd # "DATA"
  BY <1>1, <1>2, <1>5 DEF Unwritten
<1>p. op' = "prepare" => \A t \in v : t.gen = gen'[cur'] => t.cmd # "CIPSTART"
  BY <1>1, <1>2, <1>5, <1>s DEF Unwritten
<1>8. ASSUME NEW l \in Links, used'[l], ~(op' = "close" /\ cur' = l /\ pc' \in {"first", "second"}),
             NEW t \in v, t.link = l, t.gen = gen'[l]
      PROVE  t.cmd # "CIPCLOSE"
  <2>1. CASE t \in w
    BY <1>1, <1>8, <2>1 DEF Unwritten
  <2>2. CASE t \notin w
    BY <1>1, <1>2, <1>5, <1>8, <1>s, <2>2
  <2> QED BY <2>1, <2>2
<1>9. \A l \in Links : gen'[l] <= gens'
  BY <1>1 DEF Unwritten
<1> QED BY <1>1, <1>4, <1>6, <1>m, <1>7, <1>p, <1>8, <1>9 DEF Unwritten

LEMMA WriteApart ==
    ASSUME PortOK, CallsOK, PrepOK, Distinct, Text \notin Written, Write
    PROVE  Distinct' /\ Written' = Written \cup {Text}
<1> DEFINE e == Text
<1>1. e \in Texts /\ tx \in Seq(Texts)
  BY TextOK DEF Write, PortOK
<1>2. tx' = Append(tx, e) /\ sent' = sent
  BY DEF Write
<1> HIDE DEF e
<1>3. /\ Len(tx) \in Nat /\ DOMAIN tx = 1 .. Len(tx) /\ DOMAIN tx' = 1 .. Len(tx) + 1
      /\ (\A i \in 1 .. Len(tx) : tx'[i] = tx[i]) /\ tx'[Len(tx) + 1] = e
  BY <1>1, <1>2
<1>4. \A i \in DOMAIN tx : tx[i] # e /\ e \notin sent
  BY DEF Written, e
<1>5. ASSUME NEW i \in DOMAIN tx', NEW j \in DOMAIN tx', tx'[i] = tx'[j] PROVE i = j
  BY <1>3, <1>4, <1>5 DEF Distinct
<1>6. \A i \in DOMAIN tx' : tx'[i] \notin sent'
  <2>1. e \notin sent
    BY DEF Written, e
  <2> QED BY <1>2, <1>3, <2>1 DEF Distinct
<1>7. Written' = Written \cup {e}
  BY <1>2, <1>3 DEF Written
<1> QED BY <1>5, <1>6, <1>7 DEF Distinct, e

(* The module says SEND OK when it transmits, and only then. *)
LEMMA ModemBacks ==
    ASSUME PortOK, Distinct, Modem
    PROVE  /\ \/ tx' = tx /\ sent' = sent
              \/ tx # <<>> /\ tx' = Tail(tx) /\ (sent' = sent \/ sent' = sent \cup {Head(tx)})
           /\ \/ sent' = sent /\ Oks(line', OkLine) = Oks(line, OkLine)
              \/ /\ Head(tx) \notin sent /\ sent' = sent \cup {Head(tx)}
                 /\ Cardinality(Oks(line', OkLine)) <= Cardinality(Oks(line, OkLine)) + 1
<1>0. line \in Seq(Lines) /\ link \in [Links -> Nat] /\ raw \in Links
  BY SocketAssumption DEF PortOK
<1>1. ASSUME NEW l \in Links, NEW k \in (Kinds \cup {"got_ip"}) \ {"send_ok"} PROVE Line(k, l) \in Lines \ OkLine
  BY DEF Line, Lines, OkLine
<1>2. ASSUME NEW a \in Lines \ OkLine, line' = line \o <<a>>
      PROVE  Oks(line', OkLine) = Oks(line, OkLine)
  BY <1>0, <1>2, OksAppend
<1>3. ASSUME NEW a \in Lines \ OkLine, NEW b \in Lines \ OkLine, line' = line \o <<a, b>>
      PROVE  Oks(line', OkLine) = Oks(line, OkLine)
  <2> DEFINE s == <<a, b>>
  <2>1. s \in Seq(Lines) /\ \A i \in DOMAIN s : s[i] \notin OkLine
    OBVIOUS
  <2> HIDE DEF s
  <2>2. line' = line \o s
    BY <1>3 DEF s
  <2> QED BY <1>0, <2>1, <2>2, OksJoin
<1>4. ASSUME tx # <<>> PROVE Head(tx).link \in Links /\ 1 \in DOMAIN tx /\ Head(tx) = tx[1]
  <2>1. Head(tx) \in Texts /\ 1 \in DOMAIN tx /\ Head(tx) = tx[1]
    BY <1>4 DEF PortOK
  <2> QED BY <2>1 DEF Texts
<1>5. CASE StartLink
  <2>1. tx # <<>> /\ tx' = Tail(tx) /\ sent' = sent /\ Head(tx).link \in Links
    BY <1>4, <1>5 DEF StartLink, Reads
  <2> DEFINE l == Head(tx).link
  <2>2. /\ Line("connect", l) \in Lines \ OkLine /\ Line("ok", l) \in Lines \ OkLine
        /\ Line("error", l) \in Lines \ OkLine /\ Line("already_connect", l) \in Lines \ OkLine
    BY <1>1, <2>1 DEF Kinds
  <2>3. \/ line' = line \o <<Line("connect", l), Line("ok", l)>>
        \/ line' = line \o <<Line("error", l)>>
        \/ line' = line \o <<Line("already_connect", l), Line("error", l)>>
    BY <1>5 DEF StartLink, Answers
  <2> QED BY <1>2, <1>3, <2>1, <2>2, <2>3, Zenon
<1>6. CASE CloseLink
  <2>1. tx # <<>> /\ tx' = Tail(tx) /\ sent' = sent /\ Head(tx).link \in Links
    BY <1>4, <1>6 DEF CloseLink, Reads
  <2> DEFINE l == Head(tx).link
  <2>2. /\ Line("closed", l) \in Lines \ OkLine /\ Line("ok", l) \in Lines \ OkLine
        /\ Line("error", l) \in Lines \ OkLine
    BY <1>1, <2>1 DEF Kinds
  <2>3. line' = line \o <<Line("closed", l), Line("ok", l)>> \/ line' = line \o <<Line("error", l)>>
    BY <1>6 DEF CloseLink, Answers
  <2> QED BY <1>2, <1>3, <2>1, <2>2, <2>3, Zenon
<1>7. CASE PromptLink
  <2>1. tx # <<>> /\ tx' = Tail(tx) /\ sent' = sent /\ Head(tx).link \in Links
    BY <1>4, <1>7 DEF PromptLink, Reads
  <2> DEFINE l == Head(tx).link
  <2>2. /\ Line("ok", l) \in Lines \ OkLine /\ Line("progress", l) \in Lines \ OkLine
        /\ Line("error", l) \in Lines \ OkLine
    BY <1>1, <2>1 DEF Kinds
  <2>3. line' = line \o <<Line("ok", l), Line("progress", l)>> \/ line' = line \o <<Line("error", l)>>
    BY <1>7 DEF PromptLink, Answers
  <2> QED BY <1>2, <1>3, <2>1, <2>2, <2>3, Zenon
<1>8. CASE NotCommand \/ Busy
  <2>1. tx # <<>> /\ tx' = Tail(tx) /\ sent' = sent /\ Head(tx).link \in Links
    BY <1>4, <1>8 DEF NotCommand, Busy, Reads
  <2> DEFINE l == Head(tx).link
  <2>2. Line("error", l) \in Lines \ OkLine /\ Line("busy", l) \in Lines \ OkLine
    BY <1>1, <2>1 DEF Kinds
  <2>3. line' = line \o <<Line("error", l)>> \/ line' = line \o <<Line("busy", l)>>
    BY <1>8 DEF NotCommand, Busy, Answers
  <2> QED BY <1>2, <2>1, <2>2, <2>3, Zenon
<1>9. CASE Transmit
  <2>1. tx # <<>> /\ tx' = Tail(tx) /\ Head(tx) \notin sent
    BY <1>4, <1>9 DEF Transmit, Distinct
  <2>2. CASE sent' = sent \cup {Head(tx)} /\ line' = line \o <<Line("send_ok", raw)>>
    <3>1. Line("send_ok", raw) \in Lines
      BY <1>0 DEF Line, Lines, Kinds
    <3>2. Cardinality(Oks(line', OkLine)) <= Cardinality(Oks(line, OkLine)) + 1
      BY <1>0, <2>2, <3>1, OksAppend
    <3> QED BY <2>1, <2>2, <3>2
  <2>3. CASE sent' = sent /\ line' = line
    BY <2>1, <2>3
  <2> QED BY <1>9, <2>2, <2>3 DEF Transmit, Answers
<1>10. ASSUME NEW l \in Links, PeerSends(l) \/ PeerCloses(l)
       PROVE  tx' = tx /\ sent' = sent /\ Oks(line', OkLine) = Oks(line, OkLine)
  <2>1. Data(l) \in Lines \ OkLine
    <3>1. link[l] \in Nat
      BY <1>0
    <3> QED BY <3>1 DEF Data, Lines, OkLine
  <2>2. Line("closed", l) \in Lines \ OkLine
    BY <1>1 DEF Kinds
  <2>3. tx' = tx /\ sent' = sent /\ (line' = line \o <<Data(l)>> \/ line' = line \o <<Line("closed", l)>>)
    BY <1>10 DEF PeerSends, PeerCloses, Answers
  <2> QED BY <1>2, <2>1, <2>2, <2>3, Zenon
<1>11. CASE Restart \/ Configure \/ Join
  <2>1. tx # <<>> /\ tx' = Tail(tx) /\ sent' = sent /\ Head(tx).link \in Links
    BY <1>4, <1>11 DEF Restart, Configure, Join, Reads
  <2> DEFINE l == Head(tx).link
  <2>2. /\ Line("ok", l) \in Lines \ OkLine /\ Line("ready", l) \in Lines \ OkLine
        /\ Line("error", l) \in Lines \ OkLine /\ Line("got_ip", l) \in Lines \ OkLine
    BY <1>1, <2>1 DEF Kinds
  <2>3. \/ line' = line \o <<Line("ok", l), Line("ready", l)>>
        \/ line' = line \o <<Line("got_ip", l), Line("ok", l)>>
        \/ line' = line \o <<Line("ok", l)>>
        \/ line' = line \o <<Line("error", l)>>
    BY <1>11 DEF Restart, Configure, Join, Answers
  <2> QED BY <1>2, <1>3, <2>1, <2>2, <2>3, Zenon
<1> QED BY <1>5, <1>6, <1>7, <1>8, <1>9, <1>10, <1>11 DEF Modem, Execute, Unasked

(* The three places a SEND OK passes, and the payloads reported: what is   *)
(* counted never grows but with sent. *)
LEMMA Counts ==
    ASSUME TInv, Backed
    PROVE  /\ Cardinality(Oks(line, OkLine)) \in Nat /\ Cardinality(Oks(dtq, {"send_ok"})) \in Nat
           /\ Cardinality(acked) \in Nat /\ Cardinality(sent) \in Nat
<1>1. line \in Seq(Lines) /\ dtq \in Seq(Kinds)
  BY DEF TInv, PortOK, BuffersOK
<1> QED BY <1>1, OksFinite, FS_CardinalityType DEF Backed

LEMMA MainBacks == ASSUME TInv, Backed, Parse \/ PassOn PROVE Backed'
<1> DEFINE a == Cardinality(Oks(line, OkLine))
           d == Cardinality(Oks(dtq, {"send_ok"}))
           a2 == Cardinality(Oks(line', OkLine))
           d2 == Cardinality(Oks(dtq', {"send_ok"}))
           n == Cardinality(acked)
           m == Cardinality(sent)
<1>1. /\ a \in Nat /\ d \in Nat /\ n \in Nat /\ m \in Nat
      /\ n + (a + d + (IF out = "send_ok" THEN 1 ELSE 0)) <= m
  BY Counts DEF Backed, Owed
<1>2. /\ line \in Seq(Lines) /\ dtq \in Seq(Kinds) /\ out \in Kinds
      /\ line' \in Seq(Lines) /\ dtq' \in Seq(Kinds)
  <2>1. line \in Seq(Lines) /\ dtq \in Seq(Kinds) /\ out \in Kinds
    BY DEF TInv, PortOK, BuffersOK
  <2>2. CASE Parse
    <3>1. line # <<>> /\ line' = Tail(line) /\ dtq' = dtq
      BY <2>2 DEF Parse
    <3>2. line' \in Seq(Lines)
      BY <2>1, <3>1, TailFacts
    <3> QED BY <2>1, <3>1, <3>2
  <2>3. CASE PassOn
    <3>1. line' = line /\ (dtq' = dtq \/ dtq' = Append(dtq, out))
      BY <2>3 DEF PassOn, modemVars
    <3>2. Append(dtq, out) \in Seq(Kinds)
      BY <2>1
    <3> QED BY <2>1, <3>1, <3>2
  <2> QED BY <2>2, <2>3
<1>3. a2 \in Nat /\ d2 \in Nat
  BY <1>2, OksFinite
<1>4. UNCHANGED <<acked, sent>>
  BY DEF Parse, PassOn, modemVars, appVars
<1>5. Backed' <=> n + (a2 + d2 + (IF out' = "send_ok" THEN 1 ELSE 0)) <= m
  <2>1. IsFiniteSet(acked) /\ IsFiniteSet(sent)
    BY DEF Backed
  <2> QED BY <1>4, <2>1 DEF Backed, Owed, OkLine, Lines
<1>6. CASE Parse
  <2>1. line # <<>> /\ line' = Tail(line) /\ dtq' = dtq
        /\ (out' = "send_ok" => Head(line).kind = "send_ok")
    BY <1>6 DEF Parse, ReplyKind
  <2>2. Head(line).kind = "send_ok" => Head(line) \in OkLine
    BY <1>2, <2>1, TailFacts DEF OkLine
  <2>3. a2 <= a /\ (Head(line) \in OkLine => a2 + 1 <= a) /\ d2 = d
    BY <1>2, <2>1, OksTail
  <2> HIDE DEF a, d, a2, d2, n, m
  <2> QED BY <1>1, <1>3, <1>5, <2>1, <2>2, <2>3
<1>7. CASE PassOn
  <2>1. line' = line /\ out' = "no_set" /\ (dtq' = dtq \/ dtq' = Append(dtq, out))
    BY <1>7 DEF PassOn, modemVars
  <2>2. a2 = a /\ d2 <= d + (IF out = "send_ok" THEN 1 ELSE 0)
    <3>1. CASE dtq' = dtq
      BY <1>1, <2>1, <3>1
    <3>2. CASE dtq' = Append(dtq, out)
      <4>1. dtq' = dtq \o <<out>>
        BY <1>2, <3>2
      <4>2. d2 <= d + 1 /\ (out # "send_ok" => d2 = d)
        BY <1>2, <4>1, OksAppend
      <4> QED BY <1>1, <2>1, <4>2
    <3> QED BY <2>1, <3>1, <3>2
  <2> HIDE DEF a, d, a2, d2, n, m
  <2> QED BY <1>1, <1>3, <1>5, <2>1, <2>2
<1> QED BY <1>6, <1>7

(* A call takes a reply, or clears the queue; only a SEND OK is reported. *)
LEMMA CallBacks ==
    ASSUME TInv, Backed, UNCHANGED <<line, out, sent>>, BuffersOK',
           \/ acked' = acked /\ (dtq' = dtq \/ dtq' = <<>>)
           \/ acked' = acked /\ dtq # <<>> /\ dtq' = Tail(dtq)
           \/ acked' = acked \cup {sends} /\ dtq # <<>> /\ dtq' = Tail(dtq) /\ Head(dtq) = "send_ok"
    PROVE  Backed'
<1> DEFINE a == Cardinality(Oks(line, OkLine)) + (IF out = "send_ok" THEN 1 ELSE 0)
           d == Cardinality(Oks(dtq, {"send_ok"}))
           d2 == Cardinality(Oks(dtq', {"send_ok"}))
           n == Cardinality(acked)
           n2 == Cardinality(acked')
           m == Cardinality(sent)
<1>1. a \in Nat /\ d \in Nat /\ n \in Nat /\ m \in Nat /\ n + (a + d) <= m
  BY Counts DEF Backed, Owed
<1>2. dtq \in Seq(Kinds) /\ dtq' \in Seq(Kinds)
  BY DEF TInv, BuffersOK
<1>3. d2 \in Nat
  BY <1>2, OksFinite
<1>4. IsFiniteSet(acked) /\ IsFiniteSet(sent)
  BY DEF Backed
<1>5. IsFiniteSet(acked') /\ n2 \in Nat /\ n2 <= n + 1 /\ (acked' = acked => n2 = n)
  <2>1. CASE acked' = acked
    BY <1>1, <1>4, <2>1
  <2>2. CASE acked' = acked \cup {sends}
    <3>1. IsFiniteSet(acked \cup {sends}) /\ Cardinality(acked \cup {sends}) \in Nat
          /\ Cardinality(acked \cup {sends}) <= n + 1
      BY <1>4, OneMore
    <3>2. acked' = acked => n2 = n
      OBVIOUS
    <3>3. n2 = Cardinality(acked \cup {sends})
      BY <2>2
    <3> QED BY <2>2, <3>1, <3>2, <3>3
  <2> QED BY <2>1, <2>2
<1>6. n2 + (a + d2) <= m => Backed'
  <2>1. Cardinality(Oks(line, OkLine)) \in Nat
    BY Counts
  <2> QED BY <1>1, <1>3, <1>4, <1>5, <2>1 DEF Backed, Owed, OkLine, Lines
<1>7. CASE acked' = acked
  <2>1. d2 <= d
    <3>1. CASE dtq' = <<>>
      <4>1. DOMAIN dtq' = {}
        BY <3>1
      <4>2. Oks(dtq', {"send_ok"}) = {}
        BY <4>1 DEF Oks
      <4>3. d2 = 0
        BY <4>2, FS_EmptySet
      <4> HIDE DEF d, d2
      <4> QED BY <1>1, <4>3
    <3>2. CASE dtq' = dtq
      BY <1>1, <3>2
    <3>3. CASE dtq # <<>> /\ dtq' = Tail(dtq)
      BY <1>2, <3>3, OksTail
    <3> QED BY <3>1, <3>2, <3>3
  <2> HIDE DEF a, d, d2, n, n2, m
  <2> QED BY <1>1, <1>3, <1>5, <1>6, <1>7, <2>1
<1>8. CASE dtq # <<>> /\ dtq' = Tail(dtq) /\ Head(dtq) = "send_ok"
  <2>1. d2 + 1 <= d
    BY <1>2, <1>8, OksTail
  <2> HIDE DEF a, d, d2, n, n2, m
  <2> QED BY <1>1, <1>3, <1>5, <1>6, <2>1
<1> QED BY <1>7, <1>8

(* The module's steps. *)
LEMMA ModemKeeps == ASSUME TInv, Backed, Distinct, PortOK', Modem PROVE Backed'
<1> DEFINE a == Cardinality(Oks(line, OkLine))
           a2 == Cardinality(Oks(line', OkLine))
           r == Cardinality(acked) + Cardinality(Oks(dtq, {"send_ok"})) + (IF out = "send_ok" THEN 1 ELSE 0)
           m == Cardinality(sent)
           m2 == Cardinality(sent')
<1>1. a \in Nat /\ r \in Nat /\ m \in Nat /\ r + a <= m
  BY Counts DEF Backed, Owed
<1>2. a2 \in Nat
  BY OksFinite DEF PortOK
<1>3. UNCHANGED <<acked, dtq, out>> /\ IsFiniteSet(acked) /\ IsFiniteSet(sent)
  BY DEF Modem, Backed, appVars
<1>4. \/ sent' = sent /\ a2 = a
      \/ Head(tx) \notin sent /\ sent' = sent \cup {Head(tx)} /\ a2 <= a + 1
  BY ModemBacks DEF TInv
<1>5. IsFiniteSet(sent') /\ m2 \in Nat /\ ((m2 = m /\ a2 = a) \/ (m2 = m + 1 /\ a2 <= a + 1))
  <2>1. CASE sent' = sent /\ a2 = a
    BY <1>1, <1>3, <2>1
  <2>2. CASE Head(tx) \notin sent /\ sent' = sent \cup {Head(tx)} /\ a2 <= a + 1
    <3>1. IsFiniteSet(sent \cup {Head(tx)}) /\ Cardinality(sent \cup {Head(tx)}) \in Nat
          /\ Cardinality(sent \cup {Head(tx)}) = m + 1
      BY <1>3, <2>2, OneMore
    <3> QED BY <2>2, <3>1
  <2> QED BY <1>4, <2>1, <2>2
<1>6. r + a2 <= m2 => Backed'
  <2>1. Cardinality(acked) \in Nat /\ Cardinality(Oks(dtq, {"send_ok"})) \in Nat
    BY Counts
  <2> QED BY <1>2, <1>3, <1>5, <2>1 DEF Backed, Owed, OkLine, Lines
<1> HIDE DEF a, a2, r, m, m2
<1> QED BY <1>1, <1>2, <1>5, <1>6

(* esp_at_socket_send does not report success more often than the module   *)
(* has transmitted a text, for any number of links, any sizes, any delay   *)
(* or restart of the module and whatever the peers do: SEND OK comes of a  *)
(* transmission only, reaches the data queue once, is taken once, and no   *)
(* other reply leads out of the last loop of esp_at_socket_send with the   *)
(* length.                                                                 *)
THEOREM BackedSafety == Spec => []SendBacked
<1> USE SocketAssumption
<1>1. Init => BackInv
  <2> SUFFICES ASSUME Init PROVE BackInv
    OBVIOUS
  <2>1. tx = <<>> /\ line = <<>> /\ dtq = <<>> /\ out = "no_set" /\ sent = {} /\ acked = {}
    BY DEF Init, ModemInit
  <2>2. DOMAIN tx = {} /\ DOMAIN line = {} /\ DOMAIN dtq = {}
    BY <2>1
  <2>3. Written = {} /\ Oks(line, OkLine) = {} /\ Oks(dtq, {"send_ok"}) = {}
    BY <2>1, <2>2 DEF Written, Oks
  <2>4. Unwritten(Written)
    BY <2>3 DEF Init, Unwritten
  <2>5. Distinct
    BY <2>2 DEF Distinct
  <2>6. Backed
    <3>1. IsFiniteSet({}) /\ Cardinality({}) = 0
      BY FS_EmptySet
    <3>2. Owed = 0
      <4>1. Cardinality(Oks(line, OkLine)) = 0
        BY <2>3, <3>1, Zenon
      <4>2. Cardinality(Oks(dtq, {"send_ok"})) = 0
        BY <2>3, <3>1, Zenon
      <4>3. out # "send_ok"
        BY <2>1
      <4> QED BY <4>1, <4>2, <4>3 DEF Owed
    <3>3. Cardinality(acked) = 0 /\ Cardinality(sent) = 0 /\ IsFiniteSet(acked) /\ IsFiniteSet(sent)
      BY <2>1, <3>1
    <3> QED BY <3>2, <3>3 DEF Backed
  <2> QED BY <2>1, <2>4, <2>5, <2>6 DEF BackInv
<1>2. TInv /\ TInv' /\ BackInv /\ [Next]_vars => BackInv'
  <2> SUFFICES ASSUME TInv, TInv', BackInv, [Next]_vars PROVE BackInv'
    OBVIOUS
  <2>0. PortOK /\ CallsOK /\ PrepOK /\ PortOK' /\ BuffersOK' /\ Distinct /\ Backed
    BY DEF TInv, BackInv
  <2> PICK w : w = Written
    OBVIOUS
  <2> PICK v : v = Written'
    OBVIOUS
  <2>w. Unwritten(w)
    BY DEF BackInv, Unwritten
  <2>n. \A t \in w : t.no \in Nat /\ t.gen \in Nat
    <3>1. tx \in Seq(Texts) /\ sent \subseteq Texts
      BY <2>0 DEF PortOK, BackInv
    <3>2. \A t \in w : t \in Texts
      BY <3>1 DEF Written
    <3> QED BY <3>2 DEF Texts
  <2>a. ASSUME UNCHANGED <<tx, sent>> PROVE Distinct' /\ v = w /\ sent' \subseteq Texts
    BY <2>a, <2>0 DEF Distinct, Written, BackInv
  <2>u. Unwritten(v)' => Unwritten(Written)'
    BY DEF Unwritten
  <2>b. ASSUME UNCHANGED <<tx, sent>>, Unwritten(v)', Backed' PROVE BackInv'
    BY <2>a, <2>b, <2>u DEF BackInv
  <2>1. CASE Begin
    <3>1. UNCHANGED <<tx, sent, line, out, acked, dtq, preps>>
      BY <2>1 DEF Begin, Create, CallSend, CallClose, Receive, modemVars, prepVars
    <3>2. Unwritten(v)'
      BY <2>0, <2>1, <2>a, <2>n, <2>w, <3>1, UnwrittenStays
    <3>3. Backed'
      BY <2>0, <3>1, CallBacks
    <3> QED BY <2>b, <3>1, <3>2, <3>3
  <2>2. CASE ConnectEnter \/ Prepare \/ CloseEnter \/ SendEnter \/ Mark \/ Clear
    <3>1. UNCHANGED <<tx, sent, line, out, acked, preps>> /\ (dtq' = dtq \/ dtq' = <<>>)
      <4>1. CASE Prepare
        BY <4>1 DEF Prepare, PrepVars, modemVars
      <4>2. CASE ConnectEnter \/ CloseEnter \/ SendEnter \/ Mark \/ Clear
        BY <4>2 DEF ConnectEnter, CloseEnter, SendEnter, Mark, Clear, Inside, modemVars, prepVars
      <4> QED BY <2>2, <4>1, <4>2
    <3>2. Unwritten(v)'
      BY <2>0, <2>2, <2>a, <2>n, <2>w, <3>1, UnwrittenStays
    <3>3. Backed'
      BY <2>0, <3>1, CallBacks
    <3> QED BY <2>b, <3>1, <3>2, <3>3
  <2>3. ASSUME NEW k \in Kinds,
               PrepareGoesOn(k) \/ PrepareRetries(k) \/ PrepareFails(k)
               \/ ConnectReply(k) \/ CloseReply(k) \/ SendReply(k) \/ PromptReply(k) \/ DoneReply(k)
        PROVE  BackInv'
    <3>1. UNCHANGED <<tx, sent, line, out, preps>> /\ Reply(k) /\ (acked' = acked \/ (k = "send_ok" /\ acked' = acked \cup {sends}))
      <4>1. CASE ConnectReply(k) \/ CloseReply(k)
        BY <4>1 DEF ConnectReply, CloseReply, Inside, modemVars, prepVars
      <4>2. CASE SendReply(k) \/ PromptReply(k)
        BY <4>2 DEF SendReply, PromptReply, SendFails, Inside, modemVars, prepVars
      <4>3. CASE DoneReply(k)
        BY <4>3 DEF DoneReply, SendFails, SendOk, Inside, modemVars, prepVars
      <4>4. CASE PrepareGoesOn(k) \/ PrepareRetries(k) \/ PrepareFails(k)
        BY <4>4 DEF PrepareGoesOn, PrepareRetries, PrepareFails, PrepVars, modemVars
      <4> QED BY <2>3, <4>1, <4>2, <4>3, <4>4
    <3>2. Unwritten(v)'
      BY <2>0, <2>3, <2>a, <2>n, <2>w, <3>1, UnwrittenStays
    <3>3. \/ dtq # <<>> /\ dtq' = Tail(dtq) /\ k = Head(dtq)
          \/ dtq' = dtq /\ k = "no_set"
      BY <3>1 DEF Reply, Got, TimedOut
    <3>4. Backed'
      BY <2>0, <3>1, <3>3, CallBacks
    <3> QED BY <2>b, <3>1, <3>2, <3>4
  <2>4. CASE Write
    <3> PICK x : x = w \cup {Text}
      OBVIOUS
    <3>1. Text \notin w /\ Unwritten(x)'
      BY <2>0, <2>4, <2>w, WriteFresh DEF BackInv
    <3>2. Distinct' /\ Written' = Written \cup {Text}
      BY <2>0, <2>4, <3>1, WriteApart
    <3>3. Unwritten(v)'
      BY <3>1, <3>2
    <3>4. UNCHANGED <<line, out, sent, acked, dtq>>
      BY <2>4 DEF Write, Inside
    <3>5. Backed'
      BY <2>0, <3>4, CallBacks
    <3> QED BY <2>u, <3>2, <3>3, <3>4, <3>5 DEF BackInv
  <2>5. CASE Parse \/ PassOn
    <3>1. UNCHANGED <<tx, sent, preps>> /\ UNCHANGED appVars
      BY <2>5 DEF Parse, PassOn, modemVars, prepVars
    <3>2. Unwritten(v)'
      BY <2>0, <2>a, <2>n, <2>w, <3>1, UnwrittenStays
    <3>3. Backed'
      BY <2>0, <2>5, MainBacks
    <3> QED BY <2>b, <3>1, <3>2, <3>3
  <2>6. CASE Modem
    <3>1. \/ tx' = tx /\ sent' = sent
          \/ tx # <<>> /\ tx' = Tail(tx) /\ (sent' = sent \/ sent' = sent \cup {Head(tx)})
      BY <2>0, <2>6, ModemBacks
    <3>2. Distinct' /\ v \subseteq w
      BY <2>0, <3>1, ReadKeeps
    <3>3. UNCHANGED appVars /\ preps' = preps
      BY <2>6 DEF Modem, prepVars
    <3>4. Unwritten(v)'
      BY <2>0, <2>n, <2>w, <3>2, <3>3, UnwrittenStays
    <3>5. Backed'
      BY <2>0, <2>6, ModemKeeps
    <3>6. sent' \subseteq Texts
      <4>1. tx # <<>> => Head(tx) \in Texts
        BY <2>0 DEF PortOK
      <4> QED BY <3>1, <4>1 DEF BackInv
    <3> QED BY <2>u, <3>2, <3>4, <3>5, <3>6 DEF BackInv
  <2>7. CASE UNCHANGED vars
    <3>1. UNCHANGED <<tx, sent, line, out, acked, dtq, preps>> /\ UNCHANGED appVars
      BY <2>7 DEF vars, modemVars, appVars, prepVars
    <3>2. Unwritten(v)'
      BY <2>0, <2>a, <2>n, <2>w, <3>1, UnwrittenStays
    <3>3. Backed'
      BY <2>0, <3>1, CallBacks
    <3> QED BY <2>b, <3>1, <3>2, <3>3
  <2> QED BY <2>1, <2>2, <2>3, <2>4, <2>5, <2>6, <2>7 DEF Next, Step
<1>3. TInv /\ BackInv => SendBacked
  <2> SUFFICES ASSUME TInv, BackInv PROVE SendBacked
    OBVIOUS
  <2>1. Backed
    BY DEF BackInv
  <2>2. Cardinality(Oks(line, OkLine)) \in Nat /\ Cardinality(Oks(dtq, {"send_ok"})) \in Nat
        /\ Cardinality(acked) \in Nat /\ Cardinality(sent) \in Nat
    BY <2>1, Counts
  <2> QED BY <2>1, <2>2 DEF Backed, Owed, SendBacked
<1> QED BY <1>1, <1>2, <1>3, Typing, PTL DEF Spec
===============================================================================
