--------------------------- MODULE LinModemProofs ---------------------------
(***************************************************************************)
(* That two modems of linmodem that are connected are so with the best     *)
(* modulation both have, that none answers a caller that has given up, and *)
(* that each holds the line during its calls only: for any modulations,    *)
(* any lines typed at either modem and any number of them, and whatever    *)
(* happens on the line.                                                    *)
(***************************************************************************)
EXTENDS LinModem, SequenceTheorems, TLAPS

\* The modulations that both modems have.
Both(m) == available[m] \cap available[Peer(m)]

(***************************************************************************)
(* sm_process() and the parser: the line is held from the dial tone or the *)
(* answer on; the parser reads a batch of lines only when the batch began  *)
(* in SM_IDLE, so that a request to hang up can come only before the call  *)
(* has begun, and SM_CALL and SM_RECEIVE forget it.                        *)
(***************************************************************************)
LineOK(m) ==
  /\ offhook[m] <=> sm_state[m] \notin {"IDLE", "CALL", "RECEIVE"}
  /\ sm_state[m] # "IDLE" => at_state[m] # "COMMAND"
  /\ parsing[m] => sm_state[m] \in {"IDLE", "CALL", "RECEIVE"}
  /\ hangup_request[m] => sm_state[m] \in {"CALL", "RECEIVE"}
  /\ sm_state[m] \in {"DTMF_DIAL", "DTMF_DIAL_WAIT", "DTMF_DIAL_WAIT1"} => calling[m]
  /\ sm_state[m] \in DataStates => sm_state[m] = select_modulation(Both(m))

(***************************************************************************)
(* V8_process(): what there is to send in each of its states, and that JM  *)
(* and the modulation of the caller are the common ones.                   *)
(***************************************************************************)
TxOK(m) ==
  sm_state[m] = "V8" =>
    /\ v8[m] \in IF calling[m] THEN V8Calling ELSE V8Answering
    /\ v8[m] \in {"CI", "CI_SEND", "CI_OFF"} => v8_ci_count[m] < MaxCI
    /\ v8[m] \in {"WAIT_1SECOND", "CI", "CI_OFF", "GOT_ANSAM", "WAIT", "CM_WAIT"} =>
         v8_tx[m] = Nothing
    /\ v8[m] = "CI_SEND" => v8_tx[m] \in {Nothing, CI}
    /\ v8[m] = "CM_SEND" => v8_tx[m] \in {Nothing, CM(available[m])}
    /\ v8[m] = "CJ_SEND" => v8_tx[m] \in {Nothing, CJ}
    /\ v8[m] = "JM_SEND" => v8_tx[m] \in {Nothing, CM(Both(m))}
    /\ v8[m] \in {"CJ_SEND", "SIGC", "JM_SEND", "SIGA"} => selected[m] = Both(m)

(***************************************************************************)
(* The decoder: since V8_decode_init() it has heard the other kind of      *)
(* modem only, whose CM has what it has and whose JM what both have.       *)
(***************************************************************************)
Offer(m) == IF calling[m] THEN Both(m) ELSE available[Peer(m)]

RxOK(m) ==
  sm_state[m] = "V8" /\ v8[m] \in {"CM_WAIT", "CM_SEND", "JM_SEND"} =>
    /\ rx_data[m] \in {Nothing, CI, Damaged, CM(Offer(m))}
    /\ cm_data[m] \in {Nothing, Damaged, CM(Offer(m))}
    /\ decoded[m] \in {Nothing, CM(Offer(m))}

(***************************************************************************)
(* CJ is sent by a caller that has JM.  From there it starts the           *)
(* modulation, unless there is none to start, and stays in it.             *)
(***************************************************************************)
HasJM(m) ==
  \/ sm_state[m] = "V8" /\ v8[m] \in {"CJ_SEND", "SIGC"}
  \/ sm_state[m] \in DataStates
  \/ Both(m) = {}

\* The modem answers, and has got CJ.
HasCJ(m) ==
  \/ /\ sm_state[m] = "V8"
     /\ \/ v8[m] \in {"CM_WAIT", "JM_SEND"} /\ got_cj[m]
        \/ v8[m] = "SIGA"
  \/ sm_state[m] \in DataStates /\ ~calling[m]

CjOK(m) == HasCJ(m) => HasJM(Peer(m))

ModemsOK == \A m \in Modems : LineOK(m) /\ TxOK(m) /\ RxOK(m) /\ CjOK(m)

LinInv == TypeOK /\ ModemsOK
-----------------------------------------------------------------------------
LEMMA PeerIs ==
  ASSUME NEW m \in Modems
  PROVE  Peer(m) \in Modems /\ Peer(m) # m /\ Peer(Peer(m)) = m /\ Modems = {m, Peer(m)}
BY DEF Modems, Peer

\* What is at modem p, of all the variables.
SameAt(p) ==
  /\ at_state'[p] = at_state[p] /\ tty'[p] = tty[p] /\ parsing'[p] = parsing[p]
  /\ sm_state'[p] = sm_state[p] /\ calling'[p] = calling[p]
  /\ hangup_request'[p] = hangup_request[p] /\ offhook'[p] = offhook[p]
  /\ v8'[p] = v8[p] /\ v8_ci_count'[p] = v8_ci_count[p] /\ v8_tx'[p] = v8_tx[p]
  /\ ANSam_detected'[p] = ANSam_detected[p]
  /\ rx_data'[p] = rx_data[p] /\ cm_data'[p] = cm_data[p]
  /\ decoded'[p] = decoded[p] /\ got_cj'[p] = got_cj[p] /\ selected'[p] = selected[p]

LEMMA SequenceTypes ==
  /\ \A mods \in SUBSET Modulations : CM(mods) \in CMs /\ CM(mods).mods = mods
  /\ \A mods : CM(mods) \notin {CI, CJ, Damaged, Nothing}
  /\ CI # CJ /\ CI # Nothing /\ CJ # Nothing /\ Damaged \notin {CI, CJ, Nothing}
<1>1. \A mods : CM(mods).type = "CM" /\ CM(mods).mods = mods
  BY DEF CM
<1>2. CI.type = "CI" /\ CJ.type = "CJ" /\ Damaged.type = "damaged" /\ Nothing.type = "nothing"
  BY DEF CI, CJ, Damaged, Nothing
<1>3. \A mods \in SUBSET Modulations : CM(mods) \in CMs
  BY DEF CMs
<1>4. \A mods : CM(mods) \notin {CI, CJ, Damaged, Nothing}
  BY <1>1, <1>2
<1>5. CI # CJ /\ CI # Nothing /\ CJ # Nothing /\ Damaged \notin {CI, CJ, Nothing}
  BY <1>2
<1> QED
  BY <1>1, <1>3, <1>4, <1>5

LEMMA BothIs ==
  ASSUME LinInv, NEW m \in Modems
  PROVE  /\ available[m] \in SUBSET Modulations /\ available[Peer(m)] \in SUBSET Modulations
         /\ Both(m) \in SUBSET Modulations /\ Both(Peer(m)) = Both(m)
<1>1. available \in [Modems -> SUBSET Modulations]
  BY ChoicesAssumption DEF LinInv, TypeOK
<1> QED
  BY <1>1, PeerIs DEF Both

\* select_modulation() starts one of the modulations unless there is none.
LEMMA SelectIs ==
  ASSUME NEW mask \in SUBSET Modulations
  PROVE  /\ mask = {} => select_modulation(mask) = "GO_ONHOOK"
         /\ mask # {} => select_modulation(mask) \in DataStates
BY DEF select_modulation, DataStates, Modulations

(***************************************************************************)
(* A step of one modem that leaves the other one alone.                    *)
(***************************************************************************)
LEMMA OneModemStep ==
  ASSUME LinInv, NEW m \in Modems, TypeOK', available' = available, SameAt(Peer(m)),
         LineOK(m)', TxOK(m)', RxOK(m)', CjOK(m)', HasJM(m) => HasJM(m)'
  PROVE  LinInv'
<1> DEFINE p == Peer(m)
<1>1. p \in Modems /\ Peer(p) = m /\ Modems = {m, p}
  BY PeerIs
<1>2. LineOK(p) /\ TxOK(p) /\ RxOK(p) /\ CjOK(p)
  BY <1>1 DEF LinInv, ModemsOK
<1> HIDE DEF p
<1>3. SameAt(p)
  BY DEF p
<1>4. Both(p)' = Both(p) /\ Offer(p)' = Offer(p)
  BY <1>3 DEF Both, Offer, SameAt
<1>5. LineOK(p)' /\ TxOK(p)' /\ RxOK(p)'
  BY <1>2, <1>3, <1>4 DEF LineOK, TxOK, RxOK, SameAt
<1>6. CjOK(p)'
  <2>1. HasCJ(p)' = HasCJ(p)
    BY <1>3 DEF HasCJ, SameAt
  <2> QED
    BY <1>1, <1>2, <2>1 DEF CjOK
<1>7. ModemsOK'
  BY <1>1, <1>5, <1>6 DEF ModemsOK
<1> QED
  BY <1>7 DEF LinInv

\* What the other modem has heard or done, when it is left alone.
LEMMA PeerSame ==
  ASSUME LinInv, NEW m \in Modems, available' = available, SameAt(Peer(m))
  PROVE  HasJM(Peer(m))' = HasJM(Peer(m)) /\ Both(m)' = Both(m)
<1>1. Both(m)' = Both(m) /\ Both(Peer(m))' = Both(Peer(m))
  BY DEF Both
<1> QED
  BY <1>1 DEF HasJM, SameAt

LEMMA LinInitInv == Init => LinInv
<1> SUFFICES ASSUME Init PROVE LinInv
  OBVIOUS
<1>1. TypeOK
  <2>1. <<>> \in Seq(Lines)
    BY EmptySeq
  <2> QED
    BY <2>1, MaxCIAssumption
    DEF Init, TypeOK, SmStates, V8Answering, V8Calling, CMs, CI, CJ
<1>2. \A m \in Modems : /\ sm_state[m] = "IDLE" /\ ~parsing[m] /\ ~offhook[m]
                         /\ ~hangup_request[m]
  BY DEF Init
<1>3. ModemsOK
  BY <1>2 DEF ModemsOK, LineOK, TxOK, RxOK, CjOK, HasCJ, DataStates, Modulations
<1> QED
  BY <1>1, <1>3 DEF LinInv

LEMMA ModemTypes ==
  ASSUME LinInv, NEW m \in Modems
  PROVE  /\ at_state[m] \in {"COMMAND", "DIALING", "CONNECTED"}
         /\ sm_state[m] \in SmStates /\ v8[m] \in V8Calling \cup V8Answering
         /\ parsing[m] \in BOOLEAN /\ calling[m] \in BOOLEAN
         /\ hangup_request[m] \in BOOLEAN /\ offhook[m] \in BOOLEAN
         /\ got_cj[m] \in BOOLEAN /\ v8_ci_count[m] \in 0..MaxCI
         /\ LineOK(m) /\ TxOK(m) /\ RxOK(m) /\ CjOK(m)
BY DEF LinInv, TypeOK, ModemsOK

\* TypeLine, the parser and SendData, which do not touch V.8.
LEMMA ParserInv ==
  ASSUME LinInv, NEW m \in Modems, TypeLine(m) \/ Parser(m) \/ SendData(m)
  PROVE  LinInv'
<1> DEFINE p == Peer(m)
<1>1. /\ p \in Modems /\ p # m
      /\ LineOK(m) /\ TxOK(m) /\ RxOK(m) /\ CjOK(m)
  BY PeerIs, ModemTypes
<1>2. UNCHANGED <<available, calling, offhook, v8Vars, v8_tx, ANSam_detected, rxVars, selected>>
  BY DEF TypeLine, Parser, StartParsing, parse_at_line, EndParsing, Report, SendData, smVars
<1> HIDE DEF p
<1>3. tty' \in [Modems -> Seq(Lines)] /\ tty'[p] = tty[p]
  <2>1. tty \in [Modems -> Seq(Lines)] /\ tty[m] \in Seq(Lines)
    BY DEF LinInv, TypeOK
  <2>2. CASE TypeLine(m)
    <3>1. PICK line \in Typed[m] : tty' = Set(tty, m, Append(tty[m], line))
      BY <2>2 DEF TypeLine
    <3>2. line \in Lines
      BY TypedAssumption
    <3>3. Append(tty[m], line) \in Seq(Lines)
      BY <2>1, <3>2, AppendProperties
    <3> QED
      BY <1>1, <2>1, <3>1, <3>3 DEF Set
  <2>3. CASE parse_at_line(m) \/ SendData(m)
    <3>1. tty' = Set(tty, m, Tail(tty[m])) /\ tty[m] # <<>>
      BY <2>3 DEF parse_at_line, SendData
    <3>2. Tail(tty[m]) \in Seq(Lines)
      BY <2>1, <3>1, HeadTailProperties
    <3> QED
      BY <1>1, <2>1, <3>1, <3>2 DEF Set
  <2>4. CASE StartParsing(m) \/ EndParsing(m) \/ Report(m)
    <3>1. tty' = tty
      BY <2>4 DEF StartParsing, EndParsing, Report
    <3> QED
      BY <2>1, <3>1
  <2> QED
    BY <2>2, <2>3, <2>4 DEF Parser
<1>4. /\ at_state' \in [Modems -> {"COMMAND", "DIALING", "CONNECTED"}]
      /\ parsing' \in [Modems -> BOOLEAN] /\ hangup_request' \in [Modems -> BOOLEAN]
      /\ sm_state' \in [Modems -> SmStates]
      /\ at_state'[p] = at_state[p] /\ parsing'[p] = parsing[p]
      /\ hangup_request'[p] = hangup_request[p] /\ sm_state'[p] = sm_state[p]
      /\ LineOK(m)'
      /\ sm_state'[m] = sm_state[m]
         \/ (sm_state[m] = "IDLE" /\ sm_state'[m] \in {"CALL", "RECEIVE"})
  <2>1. /\ at_state \in [Modems -> {"COMMAND", "DIALING", "CONNECTED"}]
        /\ parsing \in [Modems -> BOOLEAN] /\ hangup_request \in [Modems -> BOOLEAN]
        /\ sm_state \in [Modems -> SmStates]
    BY DEF LinInv, TypeOK
  <2>2. Both(m)' = Both(m) /\ offhook' = offhook /\ calling' = calling
    BY <1>2 DEF Both
  <2>3. CASE TypeLine(m)
    BY <1>1, <2>1, <2>2, <2>3 DEF TypeLine, smVars, LineOK
  <2>4. CASE StartParsing(m) \/ EndParsing(m)
    <3>1. /\ UNCHANGED <<at_state, smVars>>
          /\ \E b \in BOOLEAN : /\ parsing' = [parsing EXCEPT ![m] = b]
                                /\ b => sm_state[m] = "IDLE"
      BY <1>1, <2>4 DEF StartParsing, EndParsing, Set, LineOK
    <3> QED
      BY <1>1, <2>1, <2>2, <3>1 DEF smVars, LineOK
  <2>5. CASE Report(m)
    <3>1. /\ UNCHANGED <<parsing, smVars>>
          /\ \/ at_state' = [at_state EXCEPT ![m] = "COMMAND"] /\ sm_state[m] = "IDLE"
             \/ at_state' = [at_state EXCEPT ![m] = "CONNECTED"]
      BY <2>5 DEF Report, Set
    <3> QED
      BY <1>1, <2>1, <2>2, <3>1 DEF smVars, LineOK
  <2>6. CASE parse_at_line(m)
    <3>1. /\ parsing[m] /\ parsing' = parsing
          /\ \/ /\ \/ sm_state' = sm_state /\ sm_state[m] # "IDLE"
                   \/ /\ sm_state[m] = "IDLE"
                      /\ \/ sm_state' = [sm_state EXCEPT ![m] = "CALL"]
                         \/ sm_state' = [sm_state EXCEPT ![m] = "RECEIVE"]
                /\ at_state' = [at_state EXCEPT ![m] = "DIALING"]
                /\ hangup_request' = hangup_request
             \/ /\ hangup_request' =
                     [hangup_request EXCEPT ![m] = hangup_request[m] \/ sm_state[m] # "IDLE"]
                /\ UNCHANGED <<sm_state, at_state>>
      BY <2>6 DEF parse_at_line, start, Set
    <3>2. sm_state[m] \in {"IDLE", "CALL", "RECEIVE"}
      BY <1>1, <3>1 DEF LineOK
    <3> QED
      BY <1>1, <2>1, <2>2, <3>1, <3>2 DEF SmStates, LineOK, DataStates, Modulations
  <2>7. CASE SendData(m)
    <3>1. /\ UNCHANGED <<at_state, parsing, hangup_request>>
          /\ sm_state' = [sm_state EXCEPT ![m] = sm_state[m]]
      BY <1>1, <2>7 DEF SendData, Set, LineOK, DataStates, Modulations
    <3>2. sm_state' = sm_state
      BY <2>1, <3>1
    <3> QED
      BY <1>1, <2>1, <2>2, <3>1, <3>2 DEF LineOK
  <2> QED
    BY <2>3, <2>4, <2>5, <2>6, <2>7 DEF Parser
<1>5. TypeOK'
  BY <1>2, <1>3, <1>4 DEF LinInv, TypeOK, v8Vars, rxVars
<1>6. SameAt(p)
  BY <1>2, <1>3, <1>4 DEF SameAt, v8Vars, rxVars
<1>7. HasJM(p)' = HasJM(p) /\ Both(m)' = Both(m)
  BY <1>2, <1>6, PeerSame DEF p
<1>8. TxOK(m)' /\ RxOK(m)'
  BY <1>1, <1>2, <1>4, <1>7 DEF TxOK, RxOK, Offer, v8Vars, rxVars
<1>9. CjOK(m)' /\ (HasJM(m) => HasJM(m)')
  <2>1. HasCJ(m)' => HasCJ(m)
    BY <1>2, <1>4 DEF HasCJ, v8Vars, rxVars, DataStates, Modulations
  <2>2. HasJM(m) => HasJM(m)'
    BY <1>2, <1>4, <1>7 DEF HasJM, v8Vars, DataStates, Modulations
  <2> QED
    BY <1>1, <1>7, <2>1, <2>2 DEF CjOK, p
<1> QED
  BY <1>2, <1>4, <1>5, <1>6, <1>8, <1>9, OneModemStep DEF p

\* GoOnhook, Call, Dial and Receive: the calls of sm_process() before and
\* after V.8, which begins with nothing to send.
LEMMA CallFacts ==
  ASSUME LinInv, NEW m \in Modems, GoOnhook(m) \/ Call(m) \/ Dial(m) \/ Receive(m)
  PROVE  /\ TypeOK' /\ SameAt(Peer(m))
         /\ sm_state[m] \notin {"IDLE", "V8"} \cup DataStates /\ ~hangup_request'[m]
         /\ sm_state'[m] \in {"IDLE", "DTMF_DIAL", "DTMF_DIAL_WAIT", "DTMF_DIAL_WAIT1", "V8"}
         /\ (offhook'[m] <=> sm_state'[m] # "IDLE")
         /\ sm_state'[m] \in {"DTMF_DIAL", "DTMF_DIAL_WAIT", "DTMF_DIAL_WAIT1"} => calling'[m]
         /\ sm_state'[m] = "V8" =>
              v8_tx'[m] = Nothing /\ v8'[m] = IF calling'[m] THEN "WAIT_1SECOND" ELSE "WAIT"
<1> DEFINE p == Peer(m)
<1>1. p \in Modems /\ p # m /\ LineOK(m)
  BY PeerIs, ModemTypes
<1> HIDE DEF p
<1>2. UNCHANGED <<available, at_state, tty, parsing, v8_ci_count, ANSam_detected, rx_data,
                  cm_data, decoded, got_cj, selected>>
  BY DEF GoOnhook, Call, Dial, Receive, atVars, rxVars, v8Vars
<1>3. /\ sm_state \in [Modems -> SmStates] /\ calling \in [Modems -> BOOLEAN]
      /\ hangup_request \in [Modems -> BOOLEAN] /\ offhook \in [Modems -> BOOLEAN]
      /\ v8 \in [Modems -> V8Calling \cup V8Answering]
      /\ v8_tx \in [Modems -> {CI, CJ, Nothing} \cup CMs]
  BY DEF LinInv, TypeOK
<1>4. /\ sm_state' \in [Modems -> SmStates] /\ calling' \in [Modems -> BOOLEAN]
      /\ hangup_request' \in [Modems -> BOOLEAN] /\ offhook' \in [Modems -> BOOLEAN]
      /\ v8' \in [Modems -> V8Calling \cup V8Answering]
      /\ v8_tx' \in [Modems -> {CI, CJ, Nothing} \cup CMs]
      /\ sm_state'[p] = sm_state[p] /\ calling'[p] = calling[p]
      /\ hangup_request'[p] = hangup_request[p] /\ offhook'[p] = offhook[p]
      /\ v8'[p] = v8[p] /\ v8_tx'[p] = v8_tx[p]
      /\ sm_state[m] \notin {"IDLE", "V8"} \cup DataStates /\ ~hangup_request'[m]
      /\ sm_state'[m] \in {"IDLE", "DTMF_DIAL", "DTMF_DIAL_WAIT", "DTMF_DIAL_WAIT1", "V8"}
      /\ (offhook'[m] <=> sm_state'[m] # "IDLE")
      /\ sm_state'[m] \in {"DTMF_DIAL", "DTMF_DIAL_WAIT", "DTMF_DIAL_WAIT1"} => calling'[m]
      /\ sm_state'[m] = "V8" =>
           v8_tx'[m] = Nothing /\ v8'[m] = IF calling'[m] THEN "WAIT_1SECOND" ELSE "WAIT"
  <2>1. CASE GoOnhook(m)
    <3>1. sm_state[m] = "GO_ONHOOK" /\ ~hangup_request[m]
      BY <1>1, <2>1 DEF GoOnhook, process, LineOK
    <3> QED
      BY <1>1, <1>3, <2>1, <3>1
      DEF GoOnhook, Set, v8Vars, SmStates, DataStates, Modulations
  <2>2. CASE Call(m)
    BY <1>1, <1>3, <2>2 DEF Call, process, Set, v8Vars, SmStates, DataStates, Modulations
  <2>3. CASE Receive(m)
    <3>1. /\ sm_state[m] = "RECEIVE" /\ sm_state' = [sm_state EXCEPT ![m] = "V8"]
          /\ calling' = [calling EXCEPT ![m] = FALSE]
          /\ hangup_request' = [hangup_request EXCEPT ![m] = FALSE]
          /\ offhook' = [offhook EXCEPT ![m] = TRUE]
          /\ v8_tx' = [v8_tx EXCEPT ![m] = Nothing]
          /\ v8' = [v8 EXCEPT ![m] = IF calling'[m] THEN "WAIT_1SECOND" ELSE "WAIT"]
      BY <2>3 DEF Receive, process, V8_init, Set
    <3> QED
      BY <1>1, <1>3, <3>1
      DEF SmStates, V8Calling, V8Answering, DataStates, Modulations
  <2>4. CASE Dial(m)
    <3>1. /\ sm_state[m] \in {"DTMF_DIAL", "DTMF_DIAL_WAIT", "DTMF_DIAL_WAIT1"}
          /\ calling[m] /\ ~hangup_request[m] /\ offhook[m]
          /\ UNCHANGED <<calling, hangup_request, offhook>>
      BY <1>1, <2>4 DEF Dial, process, LineOK
    <3>2. \/ sm_state' = [sm_state EXCEPT ![m] = "DTMF_DIAL_WAIT"] /\ UNCHANGED <<v8, v8_tx>>
          \/ sm_state' = [sm_state EXCEPT ![m] = "DTMF_DIAL_WAIT1"] /\ UNCHANGED <<v8, v8_tx>>
          \/ /\ sm_state' = [sm_state EXCEPT ![m] = "V8"]
             /\ v8_tx' = [v8_tx EXCEPT ![m] = Nothing]
             /\ v8' = [v8 EXCEPT ![m] = "WAIT_1SECOND"]
      BY <2>4, <3>1 DEF Dial, process, V8_init, Set
    <3> QED
      BY <1>1, <1>3, <3>1, <3>2
      DEF SmStates, V8Calling, V8Answering, DataStates, Modulations
  <2> QED
    BY <2>1, <2>2, <2>3, <2>4
<1>5. TypeOK'
  BY <1>2, <1>4 DEF LinInv, TypeOK
<1>6. SameAt(p)
  BY <1>2, <1>4 DEF SameAt
<1> QED
  BY <1>4, <1>5, <1>6 DEF p

LEMMA CallInv ==
  ASSUME LinInv, NEW m \in Modems, GoOnhook(m) \/ Call(m) \/ Dial(m) \/ Receive(m)
  PROVE  LinInv'
<1>1. LineOK(m)
  BY ModemTypes
<1>2. available' = available /\ parsing' = parsing /\ at_state' = at_state /\ ~parsing[m]
  BY DEF GoOnhook, Call, Dial, Receive, atVars, process
<1>3. LineOK(m)'
  BY <1>1, <1>2, CallFacts DEF LineOK, DataStates, Modulations
<1>4. TxOK(m)' /\ RxOK(m)' /\ ~HasCJ(m)'
  BY CallFacts
  DEF TxOK, RxOK, HasCJ, V8Calling, V8Answering, DataStates, Modulations
<1>5. CjOK(m)' /\ (HasJM(m) => HasJM(m)')
  <2>1. HasJM(m) => Both(m) = {}
    BY CallFacts DEF HasJM
  <2>2. Both(m)' = Both(m)
    BY <1>2 DEF Both
  <2> QED
    BY <1>4, <2>1, <2>2 DEF CjOK, HasJM
<1> QED
  BY <1>2, <1>3, <1>4, <1>5, CallFacts, OneModemStep

(***************************************************************************)
(* V8_process().  No request to hang up has come.                          *)
(***************************************************************************)
LEMMA V8Facts ==
  ASSUME LinInv, NEW m \in Modems, V8(m)
  PROVE  /\ Peer(m) \in Modems /\ Peer(m) # m
         /\ sm_state[m] = "V8" /\ ~parsing[m] /\ ~hangup_request[m] /\ offhook[m]
         /\ at_state[m] # "COMMAND"
         /\ LineOK(m) /\ TxOK(m) /\ RxOK(m) /\ CjOK(m)
         /\ SendCI(m) \/ SendCM(m) \/ SendJM(m)
         /\ UNCHANGED <<available, at_state, tty, parsing, calling, hangup_request, offhook>>
<1>1. LineOK(m) /\ TxOK(m) /\ RxOK(m) /\ CjOK(m)
  BY ModemTypes
<1>2. sm_state[m] = "V8" /\ ~parsing[m]
  BY DEF V8, process
<1>3. ~hangup_request[m] /\ offhook[m] /\ at_state[m] # "COMMAND"
  BY <1>1, <1>2 DEF LineOK
<1>4. SendCI(m) \/ SendCM(m) \/ SendJM(m)
  BY <1>3 DEF V8
<1>5. UNCHANGED <<available, at_state, tty, parsing, calling, hangup_request, offhook>>
  BY DEF V8, atVars
<1> QED
  BY <1>1, <1>2, <1>3, <1>4, <1>5, PeerIs

LEMMA V8Types ==
  LinInv => /\ sm_state \in [Modems -> SmStates]
            /\ v8 \in [Modems -> V8Calling \cup V8Answering]
            /\ v8_ci_count \in [Modems -> 0..MaxCI]
            /\ v8_tx \in [Modems -> {CI, CJ, Nothing} \cup CMs]
            /\ ANSam_detected \in [Modems -> BOOLEAN]
            /\ rx_data \in [Modems -> {CI, Damaged, Nothing} \cup CMs]
            /\ cm_data \in [Modems -> {Damaged, Nothing} \cup CMs]
            /\ decoded \in [Modems -> {Nothing} \cup CMs]
            /\ got_cj \in [Modems -> BOOLEAN]
            /\ selected \in [Modems -> SUBSET Modulations]
BY DEF LinInv, TypeOK

(***************************************************************************)
(* While V.8 goes on, or comes to an end, nothing else of the modem        *)
(* changes: what is left to show is about V.8.                             *)
(***************************************************************************)
LEMMA V8Step ==
  ASSUME LinInv, NEW m \in Modems, V8(m),
         sm_state' \in [Modems -> SmStates],
         v8' \in [Modems -> V8Calling \cup V8Answering],
         v8_ci_count' \in [Modems -> 0..MaxCI],
         v8_tx' \in [Modems -> {CI, CJ, Nothing} \cup CMs],
         ANSam_detected' \in [Modems -> BOOLEAN],
         rx_data' \in [Modems -> {CI, Damaged, Nothing} \cup CMs],
         cm_data' \in [Modems -> {Damaged, Nothing} \cup CMs],
         decoded' \in [Modems -> {Nothing} \cup CMs],
         got_cj' \in [Modems -> BOOLEAN],
         selected' \in [Modems -> SUBSET Modulations],
         sm_state'[Peer(m)] = sm_state[Peer(m)], v8'[Peer(m)] = v8[Peer(m)],
         v8_ci_count'[Peer(m)] = v8_ci_count[Peer(m)], v8_tx'[Peer(m)] = v8_tx[Peer(m)],
         ANSam_detected'[Peer(m)] = ANSam_detected[Peer(m)],
         rx_data'[Peer(m)] = rx_data[Peer(m)], cm_data'[Peer(m)] = cm_data[Peer(m)],
         decoded'[Peer(m)] = decoded[Peer(m)], got_cj'[Peer(m)] = got_cj[Peer(m)],
         selected'[Peer(m)] = selected[Peer(m)],
         sm_state'[m] \in {"V8", "GO_ONHOOK"} \/ sm_state'[m] = select_modulation(Both(m)),
         TxOK(m)', RxOK(m)', HasCJ(m)' => HasCJ(m), HasJM(m) => HasJM(m)'
  PROVE  LinInv'
<1>1. TypeOK'
  BY V8Facts DEF LinInv, TypeOK
<1>2. SameAt(Peer(m)) /\ available' = available
  BY V8Facts DEF SameAt
<1>3. HasJM(Peer(m))' = HasJM(Peer(m)) /\ Both(m)' = Both(m)
  BY <1>2, PeerSame
<1>4. sm_state'[m] \notin {"IDLE", "CALL", "RECEIVE", "DTMF_DIAL", "DTMF_DIAL_WAIT",
                           "DTMF_DIAL_WAIT1"}
  BY DEF select_modulation
<1>5. sm_state'[m] \in DataStates => sm_state'[m] = select_modulation(Both(m))
  BY DEF DataStates, Modulations
<1>6. LineOK(m)'
  BY <1>3, <1>4, <1>5, V8Facts DEF LineOK
<1>7. CjOK(m)'
  BY <1>3, V8Facts DEF CjOK
<1> QED
  BY <1>1, <1>2, <1>6, <1>7, OneModemStep

LEMMA SendCIInv ==
  ASSUME LinInv, NEW m \in Modems, V8(m), SendCI(m)
  PROVE  LinInv'
<1> DEFINE p == Peer(m)
<1>1. /\ p \in Modems /\ p # m /\ sm_state[m] = "V8" /\ TxOK(m)
      /\ calling' = calling /\ available' = available
  BY V8Facts
<1> HIDE DEF p
<1>2. UNCHANGED <<rx_data, cm_data, decoded, got_cj, selected>>
  BY DEF SendCI, rxVars
<1>3. v8[m] \in {"WAIT_1SECOND", "CI", "CI_SEND", "CI_OFF"} /\ calling[m]
  <2>1. v8[m] \in {"WAIT_1SECOND", "CI", "CI_SEND", "CI_OFF"}
    BY DEF SendCI
  <2> QED
    BY <1>1, <2>1 DEF TxOK, V8Answering
<1>4. /\ sm_state' \in [Modems -> SmStates]
      /\ v8' \in [Modems -> V8Calling \cup V8Answering]
      /\ v8_ci_count' \in [Modems -> 0..MaxCI]
      /\ v8_tx' \in [Modems -> {CI, CJ, Nothing} \cup CMs]
      /\ ANSam_detected' \in [Modems -> BOOLEAN]
      /\ sm_state'[p] = sm_state[p] /\ v8'[p] = v8[p]
      /\ v8_ci_count'[p] = v8_ci_count[p] /\ v8_tx'[p] = v8_tx[p]
      /\ ANSam_detected'[p] = ANSam_detected[p]
      /\ \/ sm_state'[m] = "GO_ONHOOK"
         \/ /\ sm_state'[m] = "V8"
            /\ v8'[m] \in {"CI", "CI_SEND", "CI_OFF", "GOT_ANSAM"}
            /\ v8'[m] # "GOT_ANSAM" => v8_ci_count'[m] < MaxCI
            /\ v8'[m] = "CI_SEND" => v8_tx'[m] = CI
            /\ v8'[m] # "CI_SEND" => v8_tx'[m] = Nothing
  <2>1. /\ v8_ci_count[m] \in 0..MaxCI
        /\ v8[m] # "WAIT_1SECOND" => v8_ci_count[m] < MaxCI
        /\ v8[m] # "CI_SEND" => v8_tx[m] = Nothing
    BY <1>1, <1>3, V8Types DEF TxOK
  <2>2. CASE v8[m] = "WAIT_1SECOND"
    <3>1. /\ v8' = [v8 EXCEPT ![m] = "CI"] /\ v8_ci_count' = [v8_ci_count EXCEPT ![m] = 0]
          /\ ANSam_detected' = [ANSam_detected EXCEPT ![m] = FALSE]
          /\ v8_tx' = v8_tx /\ sm_state' = sm_state
      BY <2>2 DEF SendCI, continue, Set
    <3> QED
      BY <1>1, <2>1, <2>2, <3>1, V8Types, MaxCIAssumption DEF V8Calling
  <2>3. CASE v8[m] = "CI"
    <3>1. /\ v8' = [v8 EXCEPT ![m] = "CI_SEND"] /\ v8_tx' = [v8_tx EXCEPT ![m] = CI]
          /\ UNCHANGED <<sm_state, v8_ci_count, ANSam_detected>>
      BY <2>3 DEF SendCI, continue, Set
    <3> QED
      BY <1>1, <2>1, <2>3, <3>1, V8Types DEF V8Calling
  <2>4. CASE v8[m] = "CI_SEND"
    <3>1. /\ v8' = [v8 EXCEPT ![m] = "CI_OFF"] /\ v8_tx[m] = Nothing
          /\ UNCHANGED <<sm_state, v8_ci_count, v8_tx, ANSam_detected>>
      BY <2>4 DEF SendCI, continue, Set
    <3> QED
      BY <1>1, <2>1, <2>4, <3>1, V8Types DEF V8Calling
  <2>5. CASE v8[m] = "CI_OFF" /\ ANSam_detected[m]
    <3>1. /\ v8' = [v8 EXCEPT ![m] = "GOT_ANSAM"]
          /\ UNCHANGED <<sm_state, v8_ci_count, v8_tx, ANSam_detected>>
      BY <2>5 DEF SendCI, continue, Set
    <3> QED
      BY <1>1, <2>1, <2>5, <3>1, V8Types DEF V8Calling
  <2>6. CASE v8[m] = "CI_OFF" /\ ~ANSam_detected[m]
    <3>1. /\ v8_ci_count' = [v8_ci_count EXCEPT ![m] = v8_ci_count[m] + 1]
          /\ UNCHANGED <<v8_tx, ANSam_detected>>
          /\ \/ sm_state' = [sm_state EXCEPT ![m] = "GO_ONHOOK"] /\ v8' = v8
             \/ /\ v8_ci_count'[m] # MaxCI
                /\ v8' = [v8 EXCEPT ![m] = "CI"] /\ sm_state' = sm_state
      BY <2>6 DEF SendCI, continue, return, last_CI, Set
    <3>2. v8_ci_count[m] + 1 \in 0..MaxCI /\ v8_ci_count'[m] = v8_ci_count[m] + 1
      BY <2>1, <2>6, <3>1, V8Types, MaxCIAssumption
    <3>3. v8_ci_count' \in [Modems -> 0..MaxCI] /\ v8_ci_count'[p] = v8_ci_count[p]
      BY <1>1, <3>1, <3>2, V8Types
    <3>4. v8_ci_count'[m] # MaxCI => v8_ci_count'[m] < MaxCI
      BY <3>2, MaxCIAssumption
    <3> QED
      BY <1>1, <2>1, <2>6, <3>1, <3>3, <3>4, V8Types DEF V8Calling, SmStates
  <2> QED
    BY <1>3, <2>2, <2>3, <2>4, <2>5, <2>6
<1>5. TxOK(m)' /\ RxOK(m)' /\ ~HasCJ(m)'
  BY <1>1, <1>3, <1>4 DEF TxOK, RxOK, HasCJ, V8Calling, DataStates, Modulations
<1>6. HasJM(m) => HasJM(m)'
  <2>1. HasJM(m) => Both(m) = {}
    BY <1>1, <1>3 DEF HasJM, DataStates, Modulations
  <2>2. Both(m)' = Both(m)
    BY <1>1 DEF Both
  <2> QED
    BY <2>1, <2>2 DEF HasJM
<1> QED
  BY <1>2, <1>4, <1>5, <1>6, V8Types, V8Step DEF p

LEMMA SendCMInv ==
  ASSUME LinInv, NEW m \in Modems, V8(m), SendCM(m)
  PROVE  LinInv'
<1> DEFINE p == Peer(m)
           sameRx == UNCHANGED <<rx_data, cm_data, decoded, got_cj>>
<1>1. /\ p \in Modems /\ p # m /\ sm_state[m] = "V8" /\ TxOK(m) /\ RxOK(m)
      /\ calling' = calling /\ available' = available
      /\ sm_state \in [Modems -> SmStates]
      /\ v8 \in [Modems -> V8Calling \cup V8Answering]
      /\ v8_tx \in [Modems -> {CI, CJ, Nothing} \cup CMs]
      /\ rx_data \in [Modems -> {CI, Damaged, Nothing} \cup CMs]
      /\ cm_data \in [Modems -> {Damaged, Nothing} \cup CMs]
      /\ decoded \in [Modems -> {Nothing} \cup CMs]
      /\ got_cj \in [Modems -> BOOLEAN]
      /\ selected \in [Modems -> SUBSET Modulations]
  BY V8Facts, V8Types
<1> HIDE DEF p
<1>2. v8_ci_count' = v8_ci_count /\ ANSam_detected' = ANSam_detected
  BY DEF SendCM
<1>3. v8[m] \in {"GOT_ANSAM", "CM_SEND", "CJ_SEND", "SIGC"} /\ calling[m]
  <2>1. v8[m] \in {"GOT_ANSAM", "CM_SEND", "CJ_SEND", "SIGC"}
    BY DEF SendCM
  <2> QED
    BY <1>1, <2>1 DEF TxOK, V8Answering
<1>4. /\ Both(m)' = Both(m) /\ Offer(m)' = Offer(m) /\ Offer(m) = Both(m)
      /\ Both(m) \in SUBSET Modulations /\ CM(Both(m)).mods = Both(m)
      /\ available[m] \in SUBSET Modulations /\ CM(available[m]) \in CMs
      /\ CM(Both(m)) # Nothing
  BY <1>1, <1>3, BothIs, SequenceTypes DEF Both, Offer
<1>5. ASSUME sm_state'[m] = "V8" => v8'[m] \in {"CM_SEND", "CJ_SEND", "SIGC"}
      PROVE  ~HasCJ(m)'
  BY <1>1, <1>3, <1>5 DEF HasCJ, DataStates, Modulations
<1>6. CASE v8[m] = "GOT_ANSAM"
  <2>1. /\ rx_data' = [rx_data EXCEPT ![m] = Nothing]
        /\ cm_data' = [cm_data EXCEPT ![m] = Nothing]
        /\ decoded' = [decoded EXCEPT ![m] = Nothing]
        /\ got_cj' = [got_cj EXCEPT ![m] = FALSE]
        /\ v8' = [v8 EXCEPT ![m] = "CM_SEND"]
        /\ UNCHANGED <<sm_state, v8_tx, selected>>
    BY <1>6 DEF SendCM, decode_init, continue, Set
  <2>2. TxOK(m)' /\ RxOK(m)' /\ ~HasCJ(m)'
    BY <1>1, <1>3, <1>5, <1>6, <2>1 DEF TxOK, RxOK, V8Calling
  <2>3. HasJM(m) => HasJM(m)'
    BY <1>1, <1>4, <1>6, <2>1 DEF HasJM, DataStates, Modulations
  <2>4. v8' \in [Modems -> V8Calling \cup V8Answering]
    BY <1>1, <2>1 DEF V8Calling
  <2> QED
    BY <1>1, <1>2, <2>1, <2>2, <2>3, <2>4, V8Types, V8Step DEF p
<1>7. CASE v8[m] = "CM_SEND" /\ decoded[m] # Nothing
  <2>1. /\ selected' = [selected EXCEPT ![m] = common(m)]
        /\ v8_tx' = [v8_tx EXCEPT ![m] = CJ]
        /\ v8' = [v8 EXCEPT ![m] = "CJ_SEND"]
        /\ UNCHANGED <<sm_state, rx_data, cm_data, decoded, got_cj>>
    BY <1>7 DEF SendCM, continue, Set, rxVars
  <2>2. common(m) = Both(m)
    <3>1. decoded[m] = CM(Both(m))
      BY <1>1, <1>4, <1>7 DEF RxOK
    <3> QED
      BY <1>4, <3>1 DEF common, Both
  <2>3. TxOK(m)' /\ RxOK(m)' /\ ~HasCJ(m)' /\ HasJM(m)'
    BY <1>1, <1>3, <1>4, <1>5, <2>1, <2>2 DEF TxOK, RxOK, HasJM, V8Calling
  <2>4. /\ v8' \in [Modems -> V8Calling \cup V8Answering]
        /\ v8_tx' \in [Modems -> {CI, CJ, Nothing} \cup CMs]
        /\ selected' \in [Modems -> SUBSET Modulations]
    BY <1>1, <1>4, <2>1, <2>2 DEF V8Calling
  <2> QED
    BY <1>1, <1>2, <2>1, <2>3, <2>4, V8Types, V8Step DEF p
<1>8. CASE v8[m] = "CM_SEND" /\ decoded[m] = Nothing
  <2>1. /\ v8_tx' = [v8_tx EXCEPT ![m] = CM(available[m])]
        /\ UNCHANGED <<sm_state, v8, rx_data, cm_data, decoded, got_cj, selected>>
    BY <1>8 DEF SendCM, Set, rxVars
  <2>2. TxOK(m)' /\ RxOK(m)' /\ ~HasCJ(m)'
    BY <1>1, <1>3, <1>4, <1>5, <1>8, <2>1 DEF TxOK, RxOK, V8Calling
  <2>3. HasJM(m) => HasJM(m)'
    BY <1>4, <2>1 DEF HasJM
  <2>4. v8_tx' \in [Modems -> {CI, CJ, Nothing} \cup CMs]
    BY <1>1, <1>4, <2>1
  <2> QED
    BY <1>1, <1>2, <2>1, <2>2, <2>3, <2>4, V8Types, V8Step DEF p
<1>9. CASE v8[m] = "CJ_SEND"
  <2>1. /\ v8' = [v8 EXCEPT ![m] = "SIGC"]
        /\ UNCHANGED <<sm_state, v8_tx, rx_data, cm_data, decoded, got_cj, selected>>
    BY <1>9 DEF SendCM, continue, Set, rxVars
  <2>2. TxOK(m)' /\ RxOK(m)' /\ ~HasCJ(m)' /\ HasJM(m)'
    BY <1>1, <1>3, <1>4, <1>5, <1>9, <2>1 DEF TxOK, RxOK, HasJM, V8Calling
  <2>3. v8' \in [Modems -> V8Calling \cup V8Answering]
    BY <1>1, <2>1 DEF V8Calling
  <2> QED
    BY <1>1, <1>2, <2>1, <2>2, <2>3, V8Types, V8Step DEF p
<1>10. CASE v8[m] = "SIGC"
  <2>1. /\ sm_state' = [sm_state EXCEPT ![m] = select_modulation(Both(m))]
        /\ UNCHANGED <<v8, v8_tx, rx_data, cm_data, decoded, got_cj, selected>>
    BY <1>1, <1>10 DEF SendCM, return, Set, rxVars, TxOK
  <2>2. /\ sm_state'[m] = select_modulation(Both(m)) /\ sm_state'[m] # "V8"
        /\ sm_state' \in [Modems -> SmStates]
    BY <1>1, <2>1 DEF select_modulation, SmStates, DataStates, Modulations
  <2>3. TxOK(m)' /\ RxOK(m)' /\ ~HasCJ(m)'
    BY <1>5, <2>2 DEF TxOK, RxOK
  <2>4. HasJM(m)'
    BY <1>4, <2>2, SelectIs DEF HasJM
  <2> QED
    BY <1>1, <1>2, <2>1, <2>2, <2>3, <2>4, V8Types, V8Step DEF p
<1> QED
  BY <1>3, <1>6, <1>7, <1>8, <1>9, <1>10

LEMMA SendJMInv ==
  ASSUME LinInv, NEW m \in Modems, V8(m), SendJM(m)
  PROVE  LinInv'
<1> DEFINE p == Peer(m)
<1>1. /\ p \in Modems /\ p # m /\ sm_state[m] = "V8" /\ TxOK(m) /\ RxOK(m)
      /\ calling' = calling /\ available' = available
      /\ sm_state \in [Modems -> SmStates]
      /\ v8 \in [Modems -> V8Calling \cup V8Answering]
      /\ v8_tx \in [Modems -> {CI, CJ, Nothing} \cup CMs]
      /\ rx_data \in [Modems -> {CI, Damaged, Nothing} \cup CMs]
      /\ cm_data \in [Modems -> {Damaged, Nothing} \cup CMs]
      /\ decoded \in [Modems -> {Nothing} \cup CMs]
      /\ got_cj \in [Modems -> BOOLEAN]
      /\ selected \in [Modems -> SUBSET Modulations]
  BY V8Facts, V8Types
<1> HIDE DEF p
<1>2. v8_ci_count' = v8_ci_count /\ ANSam_detected' = ANSam_detected
  BY DEF SendJM
<1>3. v8[m] \in {"WAIT", "CM_WAIT", "JM_SEND", "SIGA"} /\ ~calling[m]
  <2>1. v8[m] \in {"WAIT", "CM_WAIT", "JM_SEND", "SIGA"}
    BY DEF SendJM, times_out
  <2> QED
    BY <1>1, <2>1 DEF TxOK, V8Calling
<1>4. /\ Both(m)' = Both(m) /\ Offer(m)' = Offer(m) /\ Offer(m) = available[Peer(m)]
      /\ Both(m) \in SUBSET Modulations /\ CM(Both(m)) \in CMs
      /\ CM(available[Peer(m)]).mods = available[Peer(m)]
  BY <1>1, <1>3, BothIs, SequenceTypes DEF Both, Offer
<1>5. HasJM(m) => HasJM(m)'
  <2>1. HasJM(m) => Both(m) = {}
    BY <1>1, <1>3 DEF HasJM, DataStates, Modulations
  <2> QED
    BY <1>4, <2>1 DEF HasJM
<1>6. CASE v8[m] = "WAIT"
  <2>1. /\ rx_data' = [rx_data EXCEPT ![m] = Nothing]
        /\ cm_data' = [cm_data EXCEPT ![m] = Nothing]
        /\ decoded' = [decoded EXCEPT ![m] = Nothing]
        /\ got_cj' = [got_cj EXCEPT ![m] = FALSE]
        /\ v8' = [v8 EXCEPT ![m] = "CM_WAIT"]
        /\ UNCHANGED <<sm_state, v8_tx, selected>>
    BY <1>6 DEF SendJM, times_out, decode_init, continue, Set
  <2>2. TxOK(m)' /\ RxOK(m)'
    BY <1>1, <1>3, <1>6, <2>1 DEF TxOK, RxOK, V8Answering
  <2>3. ~HasCJ(m)'
    BY <1>1, <2>1 DEF HasCJ, DataStates, Modulations
  <2>4. v8' \in [Modems -> V8Calling \cup V8Answering]
    BY <1>1, <2>1 DEF V8Answering
  <2> QED
    BY <1>1, <1>2, <1>5, <2>1, <2>2, <2>3, <2>4, V8Types, V8Step DEF p
<1>7. CASE return(m, "GO_ONHOOK") /\ UNCHANGED <<rx_data, cm_data, decoded, got_cj, selected>>
  <2>1. sm_state' = [sm_state EXCEPT ![m] = "GO_ONHOOK"] /\ UNCHANGED <<v8, v8_tx>>
    BY <1>7 DEF return, Set
  <2>2. sm_state'[m] = "GO_ONHOOK" /\ sm_state' \in [Modems -> SmStates]
    BY <1>1, <2>1 DEF SmStates
  <2>3. TxOK(m)' /\ RxOK(m)' /\ ~HasCJ(m)'
    BY <2>2 DEF TxOK, RxOK, HasCJ, DataStates, Modulations
  <2> QED
    BY <1>1, <1>2, <1>5, <1>7, <2>1, <2>2, <2>3, V8Types, V8Step DEF p
<1>8. CASE /\ v8[m] = "CM_WAIT" /\ decoded[m] # Nothing
           /\ selected' = Set(selected, m, common(m))
           /\ continue(m, "JM_SEND")
           /\ UNCHANGED <<v8_tx, rx_data, cm_data, decoded, got_cj>>
  <2>1. /\ selected' = [selected EXCEPT ![m] = common(m)]
        /\ v8' = [v8 EXCEPT ![m] = "JM_SEND"] /\ sm_state' = sm_state
    BY <1>8 DEF continue, Set
  <2>2. common(m) = Both(m)
    <3>1. decoded[m] = CM(available[Peer(m)])
      BY <1>1, <1>4, <1>8 DEF RxOK
    <3> QED
      BY <1>4, <3>1 DEF common, Both
  <2>3. TxOK(m)' /\ RxOK(m)'
    BY <1>1, <1>3, <1>4, <1>8, <2>1, <2>2 DEF TxOK, RxOK, V8Answering
  <2>4. HasCJ(m)' => HasCJ(m)
    BY <1>1, <1>8, <2>1 DEF HasCJ, DataStates, Modulations
  <2>5. /\ v8' \in [Modems -> V8Calling \cup V8Answering]
        /\ selected' \in [Modems -> SUBSET Modulations]
    BY <1>1, <1>4, <2>1, <2>2 DEF V8Answering
  <2> QED
    BY <1>1, <1>2, <1>5, <1>8, <2>1, <2>3, <2>4, <2>5, V8Types, V8Step DEF p
<1>9. CASE /\ v8[m] = "JM_SEND" /\ got_cj[m]
           /\ continue(m, "SIGA")
           /\ UNCHANGED <<v8_tx, rx_data, cm_data, decoded, got_cj, selected>>
  <2>1. v8' = [v8 EXCEPT ![m] = "SIGA"] /\ sm_state' = sm_state
    BY <1>9 DEF continue, Set
  <2>2. TxOK(m)' /\ RxOK(m)'
    BY <1>1, <1>3, <1>4, <1>9, <2>1 DEF TxOK, RxOK, V8Answering
  <2>3. HasCJ(m)
    BY <1>1, <1>9 DEF HasCJ
  <2>4. v8' \in [Modems -> V8Calling \cup V8Answering]
    BY <1>1, <2>1 DEF V8Answering
  <2> QED
    BY <1>1, <1>2, <1>5, <1>9, <2>1, <2>2, <2>3, <2>4, V8Types, V8Step DEF p
<1>10. CASE /\ v8[m] = "JM_SEND" /\ v8_tx' = Set(v8_tx, m, CM(selected[m]))
            /\ UNCHANGED <<sm_state, v8, rx_data, cm_data, decoded, got_cj, selected>>
  <2>1. v8_tx' = [v8_tx EXCEPT ![m] = CM(Both(m))]
    BY <1>1, <1>10 DEF Set, TxOK
  <2>2. TxOK(m)' /\ RxOK(m)'
    BY <1>1, <1>3, <1>4, <1>10, <2>1 DEF TxOK, RxOK, V8Answering
  <2>3. HasCJ(m)' => HasCJ(m)
    BY <1>1, <1>10 DEF HasCJ
  <2>4. v8_tx' \in [Modems -> {CI, CJ, Nothing} \cup CMs]
    BY <1>1, <1>4, <2>1
  <2> QED
    BY <1>1, <1>2, <1>5, <1>10, <2>1, <2>2, <2>3, <2>4, V8Types, V8Step DEF p
<1>11. CASE v8[m] = "SIGA"
  <2>1. /\ sm_state' = [sm_state EXCEPT ![m] = select_modulation(Both(m))]
        /\ UNCHANGED <<v8, v8_tx, rx_data, cm_data, decoded, got_cj, selected>>
    BY <1>1, <1>11 DEF SendJM, times_out, return, Set, rxVars, TxOK
  <2>2. /\ sm_state'[m] = select_modulation(Both(m)) /\ sm_state'[m] # "V8"
        /\ sm_state' \in [Modems -> SmStates]
    BY <1>1, <2>1 DEF select_modulation, SmStates, DataStates, Modulations
  <2>3. TxOK(m)' /\ RxOK(m)' /\ HasCJ(m)
    BY <1>1, <1>11, <2>2 DEF TxOK, RxOK, HasCJ
  <2> QED
    BY <1>1, <1>2, <1>5, <2>1, <2>2, <2>3, V8Types, V8Step DEF p
<1> QED
  BY <1>6, <1>7, <1>8, <1>9, <1>10, <1>11 DEF SendJM, cj_received, rxVars

\* A call of V8_process(), or the hang up that comes before it.
LEMMA V8Inv ==
  ASSUME LinInv, NEW m \in Modems, V8(m)
  PROVE  LinInv'
BY V8Facts, SendCIInv, SendCMInv, SendJMInv

(***************************************************************************)
(* The line.  What a modem sends is what the other one expects of it, or   *)
(* damaged.                                                                *)
(***************************************************************************)
LEMMA Sent ==
  ASSUME LinInv, NEW m \in Modems, NEW p \in Modems, p = Peer(m),
         sm_state[m] = "V8", v8[m] \in {"CI_SEND", "CM_SEND", "CJ_SEND", "JM_SEND"},
         v8_tx[m] # Nothing, listens(p)
  PROVE  /\ v8_tx[m] \in {CI, CJ, CM(Offer(p))}
         /\ v8_tx[m] = CJ => v8[m] = "CJ_SEND"
<1>1. TxOK(m) /\ calling[m] \in BOOLEAN /\ calling[p] \in BOOLEAN
      /\ Peer(p) = m /\ Both(p) = Both(m) /\ calling[m] # calling[p]
  BY ModemTypes, PeerIs, BothIs DEF listens
<1>2. CASE calling[p]
  <2>1. v8[m] = "JM_SEND" /\ Offer(p) = Both(m)
    BY <1>1, <1>2 DEF TxOK, V8Answering, Offer
  <2> QED
    BY <1>1, <2>1, SequenceTypes DEF TxOK
<1>3. CASE ~calling[p]
  <2>1. v8[m] \in {"CI_SEND", "CM_SEND", "CJ_SEND"} /\ Offer(p) = available[m]
    BY <1>1, <1>3 DEF TxOK, V8Calling, Offer
  <2> QED
    BY <1>1, <2>1, SequenceTypes DEF TxOK
<1> QED
  BY <1>2, <1>3

\* put_bit(): only CMs that are alike and not damaged are decoded.
LEMMA Heard ==
  ASSUME LinInv, NEW m \in Modems, NEW p \in Modems, p = Peer(m),
         sm_state[m] = "V8", v8[m] \in {"CI_SEND", "CM_SEND", "CJ_SEND", "JM_SEND"},
         v8_tx[m] # Nothing, listens(p),
         \/ v8_tx[m] # CJ /\ put_sequence(p, v8_tx[m])
         \/ put_sequence(p, Damaged)
         \/ put_octets(p, v8_tx[m] = CJ)
  PROVE  \E r \in {Nothing, CI, Damaged, CM(Offer(p))},
            c \in {Nothing, Damaged, CM(Offer(p))}, d \in {Nothing, CM(Offer(p))},
            j \in BOOLEAN :
           /\ rx_data' = [rx_data EXCEPT ![p] = r] /\ cm_data' = [cm_data EXCEPT ![p] = c]
           /\ decoded' = [decoded EXCEPT ![p] = d] /\ got_cj' = [got_cj EXCEPT ![p] = j]
           /\ j => got_cj[p] \/ v8[m] = "CJ_SEND"
<1> DEFINE O == Offer(p)
<1>1. /\ rx_data[p] \in {Nothing, CI, Damaged, CM(O)}
      /\ cm_data[p] \in {Nothing, Damaged, CM(O)} /\ decoded[p] \in {Nothing, CM(O)}
      /\ got_cj[p] \in BOOLEAN
  BY ModemTypes DEF RxOK, listens
<1>2. /\ rx_data = [rx_data EXCEPT ![p] = rx_data[p]]
      /\ cm_data = [cm_data EXCEPT ![p] = cm_data[p]]
      /\ decoded = [decoded EXCEPT ![p] = decoded[p]]
      /\ got_cj = [got_cj EXCEPT ![p] = got_cj[p]]
  BY V8Types
<1>3. /\ v8_tx[m] \in {CI, CJ, CM(O)} /\ (v8_tx[m] = CJ => v8[m] = "CJ_SEND")
      /\ O \in SUBSET Modulations /\ CM(O).mods = O
      /\ CM(O) \notin {CI, CJ, Damaged, Nothing}
  <2>1. O \in SUBSET Modulations
    BY BothIs DEF Offer
  <2> QED
    BY <2>1, Sent, SequenceTypes
<1> HIDE DEF O
<1>4. ASSUME NEW s \in {CI, Damaged, CM(O)}, put_sequence(p, s)
      PROVE  \E c \in {Nothing, Damaged, CM(O)}, d \in {Nothing, CM(O)} :
               /\ rx_data' = [rx_data EXCEPT ![p] = s] /\ got_cj' = got_cj
               /\ cm_data' = [cm_data EXCEPT ![p] = c]
               /\ decoded' = [decoded EXCEPT ![p] = d]
  <2>1. rx_data' = [rx_data EXCEPT ![p] = s] /\ got_cj' = got_cj /\ cm_decode(p)
    BY <1>4 DEF put_sequence, Set
  <2>2. CASE rx_data[p] \in {CI, Nothing} \/ decoded[p] # Nothing
    <3>1. UNCHANGED <<cm_data, decoded>>
      BY <2>1, <2>2 DEF cm_decode
    <3> QED
      BY <1>1, <1>2, <2>1, <3>1
  <2>3. CASE ~(rx_data[p] \in {CI, Nothing} \/ decoded[p] # Nothing) /\ same_cm(p)
    <3>1. decoded' = [decoded EXCEPT ![p] = CM(rx_data[p].mods)] /\ cm_data' = cm_data
      BY <2>1, <2>3 DEF cm_decode, Set
    <3>2. rx_data[p] = CM(O)
      BY <1>1, <2>3 DEF same_cm
    <3> QED
      BY <1>1, <1>2, <1>3, <2>1, <3>1, <3>2
  <2>4. CASE ~(rx_data[p] \in {CI, Nothing} \/ decoded[p] # Nothing) /\ ~same_cm(p)
    <3>1. cm_data' = [cm_data EXCEPT ![p] = rx_data[p]] /\ decoded' = decoded
      BY <2>1, <2>4 DEF cm_decode, Set
    <3>2. rx_data[p] \in {Damaged, CM(O)}
      BY <1>1, <2>4
    <3> QED
      BY <1>1, <1>2, <2>1, <3>1, <3>2
  <2> QED
    BY <2>2, <2>3, <2>4
<1>5. CASE put_octets(p, v8_tx[m] = CJ)
  <2>1. /\ rx_data' = [rx_data EXCEPT ![p] = IF rx_data[p] = CI THEN CI ELSE Damaged]
        /\ got_cj' = [got_cj EXCEPT ![p] = got_cj[p] \/ v8_tx[m] = CJ]
        /\ UNCHANGED <<cm_data, decoded>>
    BY <1>5 DEF put_octets, Set
  <2> DEFINE r == IF rx_data[p] = CI THEN CI ELSE Damaged
             j == got_cj[p] \/ v8_tx[m] = CJ
  <2>2. r \in {Nothing, CI, Damaged, CM(O)} /\ j \in BOOLEAN
        /\ (j => got_cj[p] \/ v8[m] = "CJ_SEND")
    BY <1>1, <1>3
  <2>3. rx_data' = [rx_data EXCEPT ![p] = r] /\ got_cj' = [got_cj EXCEPT ![p] = j]
    BY <2>1
  <2> HIDE DEF r, j
  <2> QED
    BY <1>1, <1>2, <2>1, <2>2, <2>3 DEF O
<1>6. CASE v8_tx[m] # CJ /\ put_sequence(p, v8_tx[m])
  BY <1>1, <1>2, <1>3, <1>4, <1>6 DEF O
<1>7. CASE put_sequence(p, Damaged)
  BY <1>1, <1>2, <1>4, <1>7 DEF O
<1> QED
  BY <1>5, <1>6, <1>7

LEMMA TransmitInv ==
  ASSUME LinInv, NEW m \in Modems, Transmit(m, Peer(m))
  PROVE  LinInv'
<1> DEFINE p == Peer(m)
<1>1. /\ p \in Modems /\ p # m /\ Modems = {m, p} /\ Peer(p) = m
      /\ LineOK(m) /\ TxOK(m) /\ RxOK(m) /\ CjOK(m)
      /\ LineOK(p) /\ TxOK(p) /\ RxOK(p) /\ CjOK(p)
  BY PeerIs, ModemTypes
<1>2. /\ sm_state[m] = "V8" /\ v8[m] \in {"CI_SEND", "CM_SEND", "CJ_SEND", "JM_SEND"}
      /\ v8_tx[m] # Nothing
      /\ v8_tx' = [v8_tx EXCEPT ![m] = Nothing]
      /\ UNCHANGED <<available, at_state, tty, parsing, sm_state, calling, hangup_request,
                     offhook, v8, v8_ci_count, ANSam_detected, selected>>
      /\ \/ UNCHANGED <<rx_data, cm_data, decoded, got_cj>>
         \/ /\ listens(p)
            /\ \/ v8_tx[m] # CJ /\ put_sequence(p, v8_tx[m])
               \/ put_sequence(p, Damaged)
               \/ put_octets(p, v8_tx[m] = CJ)
  BY DEF Transmit, Set, atVars, smVars, v8Vars, rxVars
<1> HIDE DEF p
<1>3. Both(m)' = Both(m) /\ Both(p)' = Both(p) /\ Offer(m)' = Offer(m) /\ Offer(p)' = Offer(p)
  BY <1>2 DEF Both, Offer
<1>4. LineOK(m)' /\ LineOK(p)' /\ HasJM(m)' = HasJM(m) /\ HasJM(p)' = HasJM(p)
  BY <1>1, <1>2, <1>3 DEF LineOK, HasJM
<1>5. TxOK(m)' /\ TxOK(p)'
  <2>1. v8_tx'[m] = Nothing /\ v8_tx'[p] = v8_tx[p]
    BY <1>1, <1>2, V8Types
  <2> QED
    BY <1>1, <1>2, <1>3, <2>1 DEF TxOK
<1>6. CASE UNCHANGED <<rx_data, cm_data, decoded, got_cj>>
  <2>1. TypeOK'
    <3>1. v8_tx' \in [Modems -> {CI, CJ, Nothing} \cup CMs]
      BY <1>2, V8Types
    <3> QED
      BY <1>2, <1>6, <3>1 DEF LinInv, TypeOK
  <2>2. RxOK(m)' /\ RxOK(p)'
    BY <1>1, <1>2, <1>3, <1>6 DEF RxOK
  <2>3. HasCJ(m)' = HasCJ(m) /\ HasCJ(p)' = HasCJ(p)
    BY <1>2, <1>6 DEF HasCJ
  <2>4. CjOK(m)' /\ CjOK(p)'
    BY <1>1, <1>4, <2>3 DEF CjOK, p
  <2> QED
    BY <1>1, <1>4, <1>5, <2>1, <2>2, <2>4 DEF LinInv, ModemsOK
<1>7. CASE /\ listens(p)
           /\ \/ v8_tx[m] # CJ /\ put_sequence(p, v8_tx[m])
              \/ put_sequence(p, Damaged)
              \/ put_octets(p, v8_tx[m] = CJ)
  <2>1. PICK r \in {Nothing, CI, Damaged, CM(Offer(p))},
             c \in {Nothing, Damaged, CM(Offer(p))}, d \in {Nothing, CM(Offer(p))},
             j \in BOOLEAN :
               /\ rx_data' = [rx_data EXCEPT ![p] = r] /\ cm_data' = [cm_data EXCEPT ![p] = c]
               /\ decoded' = [decoded EXCEPT ![p] = d] /\ got_cj' = [got_cj EXCEPT ![p] = j]
               /\ j => got_cj[p] \/ v8[m] = "CJ_SEND"
    BY <1>1, <1>2, <1>7, Heard DEF p
  <2>2. CM(Offer(p)) \in CMs
    BY <1>1, BothIs, SequenceTypes DEF Offer
  <2>3. /\ rx_data' \in [Modems -> {CI, Damaged, Nothing} \cup CMs]
        /\ cm_data' \in [Modems -> {Damaged, Nothing} \cup CMs]
        /\ decoded' \in [Modems -> {Nothing} \cup CMs]
        /\ got_cj' \in [Modems -> BOOLEAN]
        /\ rx_data'[p] = r /\ cm_data'[p] = c /\ decoded'[p] = d /\ got_cj'[p] = j
        /\ rx_data'[m] = rx_data[m] /\ cm_data'[m] = cm_data[m]
        /\ decoded'[m] = decoded[m] /\ got_cj'[m] = got_cj[m]
    BY <1>1, <2>1, <2>2, V8Types
  <2>4. TypeOK'
    <3>1. v8_tx' \in [Modems -> {CI, CJ, Nothing} \cup CMs]
      BY <1>2, V8Types
    <3> QED
      BY <1>2, <2>3, <3>1 DEF LinInv, TypeOK
  <2>5. RxOK(m)' /\ RxOK(p)'
    BY <1>1, <1>2, <1>3, <2>3 DEF RxOK
  <2>6. HasCJ(m)' = HasCJ(m)
    BY <1>2, <2>3 DEF HasCJ
  <2>7. HasCJ(p)' => HasCJ(p) \/ HasJM(m)
    BY <1>2, <2>1, <2>3 DEF HasCJ, HasJM
  <2>8. CjOK(m)' /\ CjOK(p)'
    BY <1>1, <1>4, <2>6, <2>7 DEF CjOK, p
  <2> QED
    BY <1>1, <1>4, <1>5, <2>4, <2>5, <2>8 DEF LinInv, ModemsOK
<1> QED
  BY <1>2, <1>6, <1>7

LEMMA DetectInv ==
  ASSUME LinInv, NEW m \in Modems, DetectANSam(m, Peer(m))
  PROVE  LinInv'
<1>1. /\ UNCHANGED <<available, at_state, tty, parsing, sm_state, calling, hangup_request,
                     offhook, v8, v8_ci_count, v8_tx, rx_data, cm_data, decoded, got_cj,
                     selected>>
      /\ ANSam_detected' = [ANSam_detected EXCEPT ![m] = TRUE]
  BY DEF DetectANSam, Set, atVars, smVars, v8Vars, rxVars
<1>2. TypeOK'
  BY <1>1 DEF LinInv, TypeOK
<1>3. \A n \in Modems : /\ Both(n)' = Both(n) /\ Offer(n)' = Offer(n)
                         /\ HasCJ(n)' = HasCJ(n) /\ HasJM(n)' = HasJM(n)
                         /\ LineOK(n)' = LineOK(n)
  BY <1>1 DEF Both, Offer, HasCJ, HasJM, LineOK
<1>4. ModemsOK'
  BY <1>1, <1>3, PeerIs DEF LinInv, ModemsOK, LineOK, TxOK, RxOK, CjOK
<1> QED
  BY <1>2, <1>4 DEF LinInv

-----------------------------------------------------------------------------
LEMMA LinStepInv == LinInv /\ [Next]_vars => LinInv'
<1> SUFFICES ASSUME LinInv, [Next]_vars PROVE LinInv'
  OBVIOUS
<1>1. ASSUME NEW m \in Modems, TypeLine(m) \/ Parser(m) \/ SendData(m)
      PROVE  LinInv'
  BY <1>1, ParserInv
<1>2. ASSUME NEW m \in Modems, sm_process(m)
      PROVE  LinInv'
  BY <1>2, CallInv, V8Inv DEF sm_process
<1>3. ASSUME NEW m \in Modems, Line(m)
      PROVE  LinInv'
  BY <1>3, TransmitInv, DetectInv DEF Line
<1>4. CASE UNCHANGED vars
  <2>1. UNCHANGED <<available, at_state, tty, parsing, sm_state, calling, hangup_request,
                    offhook, v8, v8_ci_count, v8_tx, ANSam_detected, rx_data, cm_data,
                    decoded, got_cj, selected>>
    BY <1>4 DEF vars, atVars, smVars, v8Vars, rxVars
  <2>2. TypeOK'
    BY <2>1 DEF LinInv, TypeOK
  <2>3. ModemsOK'
    BY <2>1 DEF LinInv, ModemsOK, LineOK, TxOK, RxOK, CjOK, HasCJ, HasJM, Both, Offer
  <2> QED
    BY <2>2, <2>3 DEF LinInv
<1> QED
  BY <1>1, <1>2, <1>3, <1>4 DEF Next

(***************************************************************************)
(* The parsers, the state machines, the decoders and the negotiations of   *)
(* both modems are always as LinInv says.                                  *)
(***************************************************************************)
THEOREM ModemsCorrect == Spec => []LinInv
<1>1. Init => LinInv
  BY LinInitInv
<1>2. LinInv /\ [Next]_vars => LinInv'
  BY LinStepInv
<1> QED
  BY <1>1, <1>2, PTL DEF Spec

(***************************************************************************)
(* sm_process() holds the line during calls only, and no line is taken for *)
(* a command while a call goes on.                                         *)
(***************************************************************************)
THEOREM LineCorrect == Spec => []LineHeldDuringCall
<1>1. LinInv => LineHeldDuringCall
  BY DEF LinInv, ModemsOK, LineOK, LineHeldDuringCall
<1> QED
  BY <1>1, ModemsCorrect, PTL

(***************************************************************************)
(* cm_decode() and select_modulation(): a connection is with the best      *)
(* modulation that both modems have, however the sequences are damaged.    *)
(***************************************************************************)
THEOREM ModulationCorrect == Spec => []BestCommonModulation
<1>1. LinInv => BestCommonModulation
  BY DEF LinInv, ModemsOK, LineOK, Both, BestCommonModulation
<1> QED
  BY <1>1, ModemsCorrect, PTL

(***************************************************************************)
(* V8_JM_SEND is left for the modulation only when CJ has come, so that    *)
(* the caller has the same modulation or is about to start it.             *)
(***************************************************************************)
THEOREM AnswerCorrect == Spec => []NoAnswerToNobody
<1>1. LinInv => NoAnswerToNobody
  <2> SUFFICES ASSUME LinInv, NEW m \in Modems, sm_state[m] \in DataStates, ~calling[m]
               PROVE  \/ sm_state[Peer(m)] = sm_state[m]
                      \/ /\ sm_state[Peer(m)] = "V8"
                         /\ v8[Peer(m)] \in {"CJ_SEND", "SIGC"}
    BY DEF NoAnswerToNobody
  <2>1. Peer(m) \in Modems /\ Both(Peer(m)) = Both(m)
    BY PeerIs, BothIs
  <2>2. sm_state[m] = select_modulation(Both(m)) /\ HasJM(Peer(m))
    BY DEF LinInv, ModemsOK, LineOK, CjOK, HasCJ
  <2>3. Both(m) # {}
    <3>1. select_modulation({}) \notin DataStates
      BY DEF select_modulation, DataStates, Modulations
    <3> QED
      BY <2>2, <3>1
  <2>4. CASE sm_state[Peer(m)] \in DataStates
    BY <2>1, <2>2, <2>4 DEF LinInv, ModemsOK, LineOK
  <2> QED
    BY <2>1, <2>2, <2>3, <2>4 DEF HasJM
<1> QED
  BY <1>1, ModemsCorrect, PTL
=============================================================================
