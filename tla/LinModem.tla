------------------------------ MODULE LinModem ------------------------------
(***************************************************************************)
(* Two software modems of linmodem (src/linmodem) on one telephone line:   *)
(* the AT command parser (atparser.c), the modem state machine             *)
(* sm_process() (lm.c) and the V.8 negotiation (v8.c) of each of them.     *)
(*                                                                         *)
(* Each modem is one loop of one thread (lmsoundcard.c); each action is a  *)
(* call of lm_at_parser(), of sm_process() or of the bit functions below   *)
(* it that changes the state of the modem.  Time is abstract: a timer may  *)
(* have expired at any call after the one that set it.  On the line a      *)
(* sequence of V.8 (CI, CM or JM, CJ) arrives whole, damaged or not at     *)
(* all; noise does not damage two sequences in the same way, nor make one. *)
(***************************************************************************)
EXTENDS Integers, Sequences

CONSTANTS
  Choices,   \* available_modulations of the modems: a set of functions
  MaxCI,     \* V8_MAX_CI_SEQ
  Typed,     \* the lines typed at each modem
  MaxTyped   \* bound: the lines in the tx_fifo of each modem

Modems == {1, 2}
Peer(m) == 3 - m

Modulations == {"V21", "V23"}
Lines == {"ATD", "ATA", "ATH"}

ASSUME ChoicesAssumption == Choices \subseteq [Modems -> SUBSET Modulations]
ASSUME MaxCIAssumption == MaxCI \in Nat \ {0}
ASSUME TypedAssumption == Typed \in [Modems -> SUBSET Lines]
ASSUME MaxTypedAssumption == MaxTyped \in [Modems -> Nat]
(***************************************************************************)
(* The sequences of V.8: CI; CM or JM with its modulations; CJ; one with   *)
(* wrong or additional octets, which seems to have all modulations; none.  *)
(***************************************************************************)
CI == [type |-> "CI", mods |-> {}]
CM(mods) == [type |-> "CM", mods |-> mods]
CJ == [type |-> "CJ", mods |-> {}]
Damaged == [type |-> "damaged", mods |-> Modulations]
Nothing == [type |-> "nothing", mods |-> {}]

CMs == {CM(mods) : mods \in SUBSET Modulations}

VARIABLES
  available,       \* lm_config->available_modulations
  at_state,        \* lm_at_state::at_state
  tty,             \* tx_fifo of the modem, by lines
  parsing,         \* the loop of lm_at_parser() over tx_fifo is under way
  sm_state,        \* sm_state::state
  calling,         \* sm_state::calling
  hangup_request,  \* sm_state::hangup_request
  offhook,         \* the hardware has the line
  v8,              \* V8State::state
  v8_ci_count,     \* V8State::v8_ci_count
  v8_tx,           \* the sequence in V8State::tx_fifo
  ANSam_detected,  \* v8_rx.v8_ANSam_detected
  rx_data,         \* V8State::data_state and rx_data
  cm_data,         \* V8State::cm_data and cm_count
  decoded,         \* got_cm and decoded_modulations; Nothing before got_cm
  got_cj,          \* V8State::got_cj
  selected         \* V8State::selected_mod_mask

atVars == <<at_state, tty, parsing>>
smVars == <<sm_state, calling, hangup_request, offhook>>
v8Vars == <<v8, v8_ci_count>>
rxVars == <<rx_data, cm_data, decoded, got_cj>>
vars == <<available, atVars, smVars, v8Vars, v8_tx, ANSam_detected, rxVars,
          selected>>

DataStates == Modulations
SmStates == {"IDLE", "GO_ONHOOK", "CALL", "DTMF_DIAL", "DTMF_DIAL_WAIT",
             "DTMF_DIAL_WAIT1", "RECEIVE", "V8"} \cup DataStates
V8Calling == {"WAIT_1SECOND", "CI", "CI_SEND", "CI_OFF", "GOT_ANSAM",
              "CM_SEND", "CJ_SEND", "SIGC"}
V8Answering == {"WAIT", "CM_WAIT", "JM_SEND", "SIGA"}

Init ==
  /\ available \in Choices
  /\ at_state = [m \in Modems |-> "COMMAND"]
  /\ tty = [m \in Modems |-> <<>>]
  /\ parsing = [m \in Modems |-> FALSE]
  /\ sm_state = [m \in Modems |-> "IDLE"]
  /\ calling = [m \in Modems |-> FALSE]
  /\ hangup_request = [m \in Modems |-> FALSE]
  /\ offhook = [m \in Modems |-> FALSE]
  /\ v8 = [m \in Modems |-> "WAIT"]
  /\ v8_ci_count = [m \in Modems |-> 0]
  /\ v8_tx = [m \in Modems |-> Nothing]
  /\ ANSam_detected = [m \in Modems |-> FALSE]
  /\ rx_data = [m \in Modems |-> Nothing]
  /\ cm_data = [m \in Modems |-> Nothing]
  /\ decoded = [m \in Modems |-> Nothing]
  /\ got_cj = [m \in Modems |-> FALSE]
  /\ selected = [m \in Modems |-> {}]

\* Modem m has variable f at v in the next state.
Set(f, m, v) == [f EXCEPT ![m] = v]

-----------------------------------------------------------------------------
(***************************************************************************)
(* The terminal and the AT command parser.                                 *)
(***************************************************************************)

\* A line comes in from the tty, between two calls of the parser.
TypeLine(m) ==
  /\ ~parsing[m]
  /\ Len(tty[m]) < MaxTyped[m]
  /\ \E line \in Typed[m] : tty' = Set(tty, m, Append(tty[m], line))
  /\ UNCHANGED <<available, at_state, parsing, smVars, v8Vars, v8_tx,
                 ANSam_detected, rxVars, selected>>

\* lm_at_parser() in command mode reads all there is, whatever it executes.
StartParsing(m) ==
  /\ ~parsing[m]
  /\ at_state[m] = "COMMAND"
  /\ tty[m] # <<>>
  /\ parsing' = Set(parsing, m, TRUE)
  /\ UNCHANGED <<available, at_state, tty, smVars, v8Vars, v8_tx,
                 ANSam_detected, rxVars, selected>>

\* lm_start_dial() and lm_start_receive(): only when idle, and -1 otherwise.
start(m, state) ==
  sm_state' = IF sm_state[m] = "IDLE" THEN Set(sm_state, m, state) ELSE sm_state

\* parse_at_line() on the next line.  Nobody looks at what the calls return.
parse_at_line(m) ==
  /\ parsing[m]
  /\ tty[m] # <<>>
  /\ tty' = Set(tty, m, Tail(tty[m]))
  /\ \/ /\ Head(tty[m]) = "ATD"
        /\ start(m, "CALL")
        /\ at_state' = Set(at_state, m, "DIALING")
        /\ UNCHANGED hangup_request
     \/ /\ Head(tty[m]) = "ATA"
        /\ start(m, "RECEIVE")
        /\ at_state' = Set(at_state, m, "DIALING")
        /\ UNCHANGED hangup_request
     \/ /\ Head(tty[m]) = "ATH"
        /\ hangup_request' =
             Set(hangup_request, m, hangup_request[m] \/ sm_state[m] # "IDLE")
        /\ UNCHANGED <<sm_state, at_state>>
  /\ UNCHANGED <<available, parsing, calling, offhook, v8Vars, v8_tx,
                 ANSam_detected, rxVars, selected>>

EndParsing(m) ==
  /\ parsing[m]
  /\ tty[m] = <<>>
  /\ parsing' = Set(parsing, m, FALSE)
  /\ UNCHANGED <<available, at_state, tty, smVars, v8Vars, v8_tx,
                 ANSam_detected, rxVars, selected>>

\* lm_at_parser() in the other modes: "ERROR" or "OK", or "CONNECT".
Report(m) ==
  /\ ~parsing[m]
  /\ \/ /\ at_state[m] # "COMMAND"
        /\ sm_state[m] = "IDLE"
        /\ at_state' = Set(at_state, m, "COMMAND")
     \/ /\ at_state[m] = "DIALING"
        /\ sm_state[m] \in DataStates
        /\ at_state' = Set(at_state, m, "CONNECTED")
  /\ UNCHANGED <<available, tty, parsing, smVars, v8Vars, v8_tx,
                 ANSam_detected, rxVars, selected>>

\* SM_V21 or SM_V23: serial_get_bit() takes data for the line from tx_fifo.
SendData(m) ==
  /\ ~parsing[m]
  /\ sm_state[m] \in DataStates
  /\ tty[m] # <<>>
  /\ tty' = Set(tty, m, Tail(tty[m]))
  /\ sm_state' = Set(sm_state, m, IF hangup_request[m] THEN "GO_ONHOOK" ELSE sm_state[m])
  /\ UNCHANGED <<available, at_state, parsing, calling, hangup_request, offhook,
                 v8Vars, v8_tx, ANSam_detected, rxVars, selected>>

-----------------------------------------------------------------------------
(***************************************************************************)
(* sm_process(): the calls before and after V.8.                           *)
(***************************************************************************)

\* sm_process() runs in state s.
process(m, s) ==
  /\ ~parsing[m]
  /\ sm_state[m] = s

V8_init(m) ==
  /\ v8' = Set(v8, m, IF calling'[m] THEN "WAIT_1SECOND" ELSE "WAIT")
  /\ v8_tx' = Set(v8_tx, m, Nothing)

GoOnhook(m) ==
  /\ process(m, "GO_ONHOOK")
  /\ offhook' = Set(offhook, m, FALSE)
  /\ sm_state' = Set(sm_state, m, "IDLE")
  /\ UNCHANGED <<available, atVars, calling, hangup_request, v8Vars, v8_tx,
                 ANSam_detected, rxVars, selected>>

\* SM_CALL: the line is taken, and the dial tone waited for.
Call(m) ==
  /\ process(m, "CALL")
  /\ calling' = Set(calling, m, TRUE)
  /\ hangup_request' = Set(hangup_request, m, FALSE)
  /\ offhook' = Set(offhook, m, TRUE)
  /\ sm_state' = Set(sm_state, m, "DTMF_DIAL")
  /\ UNCHANGED <<available, atVars, v8Vars, v8_tx, ANSam_detected, rxVars, selected>>

\* SM_DTMF_DIAL to SM_DTMF_DIAL_WAIT1: a timer, the digits, a timer.
Dial(m) ==
  /\ \/ /\ process(m, "DTMF_DIAL")
        /\ sm_state' =
             Set(sm_state, m, IF hangup_request[m] THEN "GO_ONHOOK" ELSE "DTMF_DIAL_WAIT")
        /\ UNCHANGED <<v8, v8_tx>>
     \/ /\ process(m, "DTMF_DIAL_WAIT")
        /\ sm_state' = Set(sm_state, m, "DTMF_DIAL_WAIT1")
        /\ UNCHANGED <<v8, v8_tx>>
     \/ /\ process(m, "DTMF_DIAL_WAIT1")
        /\ sm_state' = Set(sm_state, m, "V8")
        /\ UNCHANGED calling
        /\ V8_init(m)
  /\ UNCHANGED <<available, atVars, calling, hangup_request, offhook, v8_ci_count,
                 ANSam_detected, rxVars, selected>>

\* SM_RECEIVE
Receive(m) ==
  /\ process(m, "RECEIVE")
  /\ calling' = Set(calling, m, FALSE)
  /\ hangup_request' = Set(hangup_request, m, FALSE)
  /\ offhook' = Set(offhook, m, TRUE)
  /\ V8_init(m)
  /\ sm_state' = Set(sm_state, m, "V8")
  /\ UNCHANGED <<available, atVars, v8_ci_count, ANSam_detected, rxVars, selected>>

-----------------------------------------------------------------------------
(***************************************************************************)
(* The line, and the decoder of V.8 sequences.                             *)
(***************************************************************************)

\* v8_decode_init()
decode_init(m) ==
  /\ rx_data' = Set(rx_data, m, Nothing)
  /\ cm_data' = Set(cm_data, m, Nothing)
  /\ decoded' = Set(decoded, m, Nothing)
  /\ got_cj' = Set(got_cj, m, FALSE)

\* The first CM or JM that has come in is taken for good.
same_cm_without_repeat(m) == TRUE

\* "we must receive two identical CM sequences"
same_cm(m) == rx_data[m] = cm_data[m] /\ rx_data[m] # Damaged

\* cm_decode(), on the sequence before the one whose sync has come.
cm_decode(m) ==
  IF rx_data[m] \in {CI, Nothing} \/ decoded[m] # Nothing
  THEN UNCHANGED <<cm_data, decoded>>
  ELSE IF same_cm(m)
  THEN /\ decoded' = Set(decoded, m, CM(rx_data[m].mods))
       /\ UNCHANGED cm_data
  ELSE cm_data' = Set(cm_data, m, rx_data[m]) /\ UNCHANGED decoded

\* put_bit(): the sync of a sequence and then its octets, right or wrong.
put_sequence(m, s) ==
  /\ cm_decode(m)
  /\ rx_data' = Set(rx_data, m, s)
  /\ UNCHANGED got_cj

\* put_bit() on octets with no sync before them, three of them 0 in CJ.
put_octets(m, cj) ==
  /\ rx_data[m] # Nothing
  /\ rx_data' = Set(rx_data, m, IF rx_data[m] = CI THEN CI ELSE Damaged)
  /\ got_cj' = Set(got_cj, m, got_cj[m] \/ cj)
  /\ UNCHANGED <<cm_data, decoded>>

\* FSK_demod() is called, for the channel of the other kind of modem.
listens(m) ==
  /\ sm_state[m] = "V8"
  /\ v8[m] \in {"CM_WAIT", "CM_SEND", "JM_SEND"}
  /\ calling[m] # calling[Peer(m)]

\* FSK_mod() has sent what was in tx_fifo of V8State, and p has heard it.
Transmit(m, p) ==
  /\ ~parsing[m]
  /\ sm_state[m] = "V8"
  /\ v8[m] \in {"CI_SEND", "CM_SEND", "CJ_SEND", "JM_SEND"}
  /\ v8_tx[m] # Nothing
  /\ v8_tx' = Set(v8_tx, m, Nothing)
  /\ \/ UNCHANGED rxVars
     \/ listens(p) /\ v8_tx[m] # CJ /\ put_sequence(p, v8_tx[m])
     \/ listens(p) /\ v8_tx[m] # CJ /\ v8_tx[m] # CI /\ put_sequence(p, Damaged)
     \/ listens(p) /\ put_octets(p, v8_tx[m] = CJ)
  /\ UNCHANGED <<available, atVars, smVars, v8Vars, ANSam_detected, selected>>

\* V8_demod() finds the tone ANSam that p sends.
DetectANSam(m, p) ==
  /\ sm_state[m] = "V8" /\ v8[m] \in {"CI", "CI_SEND", "CI_OFF"}
  /\ sm_state[p] = "V8" /\ v8[p] = "CM_WAIT"
  /\ ~ANSam_detected[m]
  /\ ANSam_detected' = Set(ANSam_detected, m, TRUE)
  /\ UNCHANGED <<available, atVars, smVars, v8Vars, v8_tx, rxVars, selected>>

-----------------------------------------------------------------------------
(***************************************************************************)
(* V8_process().  Where it tests a timer both outcomes are possible.       *)
(***************************************************************************)

\* With nothing in common there is nothing more to do.
select_modulation_or_idle(mask) ==
  IF "V23" \in mask THEN "V23" ELSE IF "V21" \in mask THEN "V21" ELSE "IDLE"

\* select_modulation(), as the state of sm_process() that it leads to.
select_modulation(mask) ==
  IF "V23" \in mask THEN "V23"
  ELSE IF "V21" \in mask THEN "V21" ELSE "GO_ONHOOK"

\* modulation_mask & decoded_modulations
common(m) == available[m] \cap decoded[m].mods

\* V8_process() goes on in state s.
continue(m, s) ==
  /\ v8' = Set(v8, m, s)
  /\ UNCHANGED sm_state

\* V8_process() returns: the modem starts a modulation, or hangs up.
return(m, s) ==
  /\ sm_state' = Set(sm_state, m, s)
  /\ UNCHANGED <<v8, v8_tx>>

last_CI(count) == count = MaxCI

\* CI is sent, with pauses, until there is an answer, MaxCI times at most.
SendCI(m) ==
  /\ \/ /\ v8[m] = "WAIT_1SECOND"
        /\ continue(m, "CI")
        /\ v8_ci_count' = Set(v8_ci_count, m, 0)
        /\ ANSam_detected' = Set(ANSam_detected, m, FALSE)
        /\ UNCHANGED v8_tx
     \/ /\ v8[m] = "CI"
        /\ continue(m, "CI_SEND")
        /\ v8_tx' = Set(v8_tx, m, CI)
        /\ UNCHANGED <<v8_ci_count, ANSam_detected>>
     \/ /\ v8[m] = "CI_SEND" /\ v8_tx[m] = Nothing
        /\ continue(m, "CI_OFF")
        /\ UNCHANGED <<v8_ci_count, v8_tx, ANSam_detected>>
     \/ /\ v8[m] = "CI_OFF" /\ ANSam_detected[m]
        /\ continue(m, "GOT_ANSAM")
        /\ UNCHANGED <<v8_ci_count, v8_tx, ANSam_detected>>
     \/ /\ v8[m] = "CI_OFF" /\ ~ANSam_detected[m]
        /\ v8_ci_count' = Set(v8_ci_count, m, v8_ci_count[m] + 1)
        /\ IF last_CI(v8_ci_count'[m])
           THEN return(m, "GO_ONHOOK")
           ELSE continue(m, "CI") /\ UNCHANGED v8_tx
        /\ UNCHANGED ANSam_detected
  /\ UNCHANGED <<rxVars, selected>>

\* CM is sent until JM has been received, and then CJ.
SendCM(m) ==
  /\ \/ /\ v8[m] = "GOT_ANSAM"
        /\ decode_init(m)
        /\ continue(m, "CM_SEND")
        /\ UNCHANGED <<v8_tx, selected>>
     \/ /\ v8[m] = "CM_SEND" /\ decoded[m] # Nothing
        /\ selected' = Set(selected, m, common(m))
        /\ v8_tx' = Set(v8_tx, m, CJ)
        /\ continue(m, "CJ_SEND")
        /\ UNCHANGED rxVars
     \/ /\ v8[m] = "CM_SEND" /\ decoded[m] = Nothing /\ v8_tx[m] = Nothing
        /\ v8_tx' = Set(v8_tx, m, CM(available[m]))
        /\ UNCHANGED <<sm_state, v8, rxVars, selected>>
     \/ /\ v8[m] = "CJ_SEND" /\ v8_tx[m] = Nothing
        /\ continue(m, "SIGC")
        /\ UNCHANGED <<v8_tx, rxVars, selected>>
     \/ /\ v8[m] = "SIGC"
        /\ return(m, select_modulation(selected[m]))
        /\ UNCHANGED <<rxVars, selected>>
  /\ UNCHANGED <<v8_ci_count, ANSam_detected>>

\* The wait for CM is not limited.
times_out_never(m) == FALSE

\* v8_connect_timer, while the answering modem waits for CM, or for CJ.
times_out(m) == v8[m] \in {"CM_WAIT", "JM_SEND"}

\* One JM is enough.
cj_received_or_jm_sent(m) == v8_tx[m] = Nothing

cj_received(m) == got_cj[m]

\* The answering modem sends ANSam until it has CM, and JM until it has CJ.
SendJM(m) ==
  /\ \/ /\ v8[m] = "WAIT"
        /\ decode_init(m)
        /\ continue(m, "CM_WAIT")
        /\ UNCHANGED <<v8_tx, selected>>
     \/ /\ times_out(m)
        /\ return(m, "GO_ONHOOK")
        /\ UNCHANGED <<rxVars, selected>>
     \/ /\ v8[m] = "CM_WAIT" /\ decoded[m] # Nothing
        /\ selected' = Set(selected, m, common(m))
        /\ continue(m, "JM_SEND")
        /\ UNCHANGED <<v8_tx, rxVars>>
     \/ /\ v8[m] = "JM_SEND" /\ cj_received(m)
        /\ continue(m, "SIGA")
        /\ UNCHANGED <<v8_tx, rxVars, selected>>
     \/ /\ v8[m] = "JM_SEND" /\ ~cj_received(m) /\ v8_tx[m] = Nothing
        /\ v8_tx' = Set(v8_tx, m, CM(selected[m]))
        /\ UNCHANGED <<sm_state, v8, rxVars, selected>>
     \/ /\ v8[m] = "SIGA"
        /\ return(m, select_modulation(selected[m]))
        /\ UNCHANGED <<rxVars, selected>>
  /\ UNCHANGED <<v8_ci_count, ANSam_detected>>

\* SM_V8
V8(m) ==
  /\ process(m, "V8")
  /\ IF hangup_request[m]
     THEN /\ sm_state' = Set(sm_state, m, "GO_ONHOOK")
          /\ UNCHANGED <<v8Vars, v8_tx, ANSam_detected, rxVars, selected>>
     ELSE SendCI(m) \/ SendCM(m) \/ SendJM(m)
  /\ UNCHANGED <<available, atVars, calling, hangup_request, offhook>>

-----------------------------------------------------------------------------
Parser(m) == StartParsing(m) \/ parse_at_line(m) \/ EndParsing(m) \/ Report(m)

sm_process(m) == GoOnhook(m) \/ Call(m) \/ Dial(m) \/ Receive(m) \/ V8(m)

Line(m) == Transmit(m, Peer(m)) \/ DetectANSam(m, Peer(m))

Next ==
  \E m \in Modems :
    TypeLine(m) \/ Parser(m) \/ sm_process(m) \/ Line(m) \/ SendData(m)

Spec == Init /\ [][Next]_vars

(***************************************************************************)
(* Both modems run: the loop of lmsoundcard.c comes round with every block *)
(* of samples, and a v8_connect_timer expires although other things go on  *)
(* while it is waited on.  That anything arrives at the other end is not   *)
(* assumed.                                                                *)
(***************************************************************************)
Loop(m) == Parser(m) \/ sm_process(m) \/ Transmit(m, Peer(m))

Timeout(m) == V8(m) /\ times_out(m) /\ sm_state'[m] = "GO_ONHOOK"

Fairness == \A m \in Modems : WF_vars(Loop(m)) /\ WF_vars(Timeout(m))

FairSpec == Spec /\ Fairness

-----------------------------------------------------------------------------
(***************************************************************************)
(* Properties.                                                             *)
(***************************************************************************)

\* Type invariant of the two modems.
TypeOK ==
  /\ available \in Choices
  /\ at_state \in [Modems -> {"COMMAND", "DIALING", "CONNECTED"}]
  /\ tty \in [Modems -> Seq(Lines)]
  /\ parsing \in [Modems -> BOOLEAN]
  /\ sm_state \in [Modems -> SmStates]
  /\ calling \in [Modems -> BOOLEAN]
  /\ hangup_request \in [Modems -> BOOLEAN]
  /\ offhook \in [Modems -> BOOLEAN]
  /\ v8 \in [Modems -> V8Calling \cup V8Answering]
  /\ v8_ci_count \in [Modems -> 0..MaxCI]
  /\ v8_tx \in [Modems -> {CI, CJ, Nothing} \cup CMs]
  /\ ANSam_detected \in [Modems -> BOOLEAN]
  /\ rx_data \in [Modems -> {CI, Damaged, Nothing} \cup CMs]
  /\ cm_data \in [Modems -> {Damaged, Nothing} \cup CMs]
  /\ decoded \in [Modems -> {Nothing} \cup CMs]
  /\ got_cj \in [Modems -> BOOLEAN]
  /\ selected \in [Modems -> SUBSET Modulations]

(***************************************************************************)
(* Two modems that are connected use the same modulation, and it is the    *)
(* best that both have: whatever the line does to CM, JM and CJ, and       *)
(* whatever calls were tried before.                                       *)
(***************************************************************************)
BestCommonModulation ==
  \A m \in Modems :
    sm_state[m] \in DataStates =>
      sm_state[m] = select_modulation(available[m] \cap available[Peer(m)])

(***************************************************************************)
(* An answering modem starts a modulation only when the calling modem has  *)
(* started it or is about to: it has got CJ, so the other one has got JM.  *)
(***************************************************************************)
NoAnswerToNobody ==
  \A m \in Modems :
    sm_state[m] \in DataStates /\ ~calling[m] =>
      \/ sm_state[Peer(m)] = sm_state[m]
      \/ sm_state[Peer(m)] = "V8" /\ v8[Peer(m)] \in {"CJ_SEND", "SIGC"}

(***************************************************************************)
(* The modem has the line exactly during a call, and its parser is in      *)
(* command mode only when there is none (except while it reads a batch of  *)
(* lines): no command ever finds the modem in the middle of a call, and    *)
(* the line is never held with nobody to hang up.                          *)
(***************************************************************************)
LineHeldDuringCall ==
  /\ TypeOK
  /\ \A m \in Modems :
       /\ offhook[m] <=> sm_state[m] \notin {"IDLE", "CALL", "RECEIVE"}
       /\ ~parsing[m] /\ sm_state[m] # "IDLE" => at_state[m] # "COMMAND"

(***************************************************************************)
(* A modem that calls or answers comes to an end of V.8, connected or on   *)
(* the hook, whatever the other one and the line do, or it is the caller   *)
(* and stays in the one state of V8_process() that has no timer, in which  *)
(* it sends CM and waits for JM.                                           *)
(***************************************************************************)
CallsComeToAnEnd ==
  \A m \in Modems :
    sm_state[m] \in {"CALL", "RECEIVE"} ~>
      \/ sm_state[m] \in DataStates \cup {"IDLE"}
      \/ sm_state[m] = "V8" /\ calling[m] /\ v8[m] = "CM_SEND"
=============================================================================
