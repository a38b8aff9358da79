------------------------------ MODULE IaxModem ------------------------------
(***************************************************************************)
(* One modem process of iaxmodem: the function iaxmodem() of iaxmodem.c,   *)
(* with its AT side (the T.31 modem of spandsp, driven by the program on   *)
(* the pseudo terminal, the DTE) and its IAX side (the sessions of         *)
(* libiax2).  The process is one thread: it takes AT commands, timers and  *)
(* IAX events one at a time, and only signals come between them.  An event *)
(* of a session that has been destroyed is dropped by the library, so a    *)
(* call's event is one step: the peer's sending it and the loop's taking   *)
(* it.  Sound, jitter and the codec are left out, except that none passes  *)
(* while digits wait to be dialed.                                         *)
(***************************************************************************)
EXTENDS Integers, FiniteSets

CONSTANTS
    Calls,        \* the sessions libiax2 can hold, used again when destroyed
    NoCall,       \* session[0] before the first call
    S0            \* the DTE's register S0: answer after so many rings, 0 for never

ASSUME CallsAssumption == IsFiniteSet(Calls) /\ NoCall \notin Calls
ASSUME S0Assumption == S0 \in Nat

VARIABLES
    modemstate,   \* MODEM_ONHOOK, ...
    phonestate,   \* PHONE_FREED, ...
    regstate,     \* UNREGISTERED, REGISTERED, PENDING
    asked,        \* a registration is on its way
    due,          \* the registration is refresh - 5 seconds old
    session,      \* session[0]
    sess,         \* each session of the library: see SessionStates
    resting,      \* lasthangup is less than 5 seconds ago
    dialextra,    \* digits after the first comma: none, waiting, with the alarm set
    at,           \* at_rx_mode of the AT interpreter
    rings,        \* rings_indicated
    gothup,       \* a SIGHUP waits for the call to end
    lastdtedata,  \* age of the DTE's last byte: 0, or 1, or 2 for the 45 seconds
    exit,         \* "no" while the process runs, or the signal that ended it
    strayed       \* history: a call was left alone while it was dialed

vars == <<modemstate, phonestate, regstate, asked, due, session, sess, resting,
          dialextra, at, rings, gothup, lastdtedata, exit, strayed>>

line == <<modemstate, phonestate, session, sess, resting, dialextra, at, rings,
          lastdtedata, strayed>>
registration == <<regstate, asked, due>>

ModemStates == {"onhook", "offhook", "ringing", "calling", "connected"}
PhoneStates == {"freed", "accepted", "ringing", "answered", "connected"}

\* "none": not there; "trying", "accepted", "up": a call of ours on its way, taken
\* by the server, answered; "in": a call we were offered.
SessionStates == {"none", "trying", "accepted", "up", "in"}

\* AT_MODE_ONHOOK_COMMAND, AT_MODE_OFFHOOK_COMMAND, and every mode of a call.
AtModes == {"onhook", "offhook", "data"}

Open == {c \in Calls : sess[c] # "none"}
Idle == phonestate = "freed" /\ modemstate = "onhook"

-----------------------------------------------------------------------------

Init ==
    /\ modemstate = "onhook"
    /\ phonestate = "freed"
    /\ regstate = "unregistered"
    /\ asked = FALSE
    /\ due = TRUE
    /\ session = NoCall
    /\ sess = [c \in Calls |-> "none"]
    /\ resting = FALSE
    /\ dialextra = "none"
    /\ at = "onhook"
    /\ rings = 0
    /\ gothup = FALSE
    /\ lastdtedata = 0
    /\ exit = "no"
    /\ strayed = FALSE

\* if (gothup) sighandler(SIGHUP), at the end of a call.
TakeHup == exit' = IF gothup THEN "hup" ELSE "no"

-----------------------------------------------------------------------------
(* The DTE's commands. *)

Command == exit = "no" /\ at \in {"onhook", "offhook"} /\ lastdtedata' = 0

\* ATD<number>, perhaps with commas and more digits, when the line is free.
\* Without a comma an older dialextra stays.
Dial(c, extra) ==
    /\ Command
    /\ modemstate \in {"onhook", "offhook"}
    /\ sess[c] = "none"
    /\ rings' = 0
    /\ session' = c
    /\ sess' = [sess EXCEPT ![c] = "trying"]
    /\ modemstate' = "calling"
    /\ dialextra' = IF extra /\ dialextra # "alarm" THEN "waiting" ELSE dialextra
    /\ UNCHANGED <<phonestate, resting, at, gothup, exit, strayed, registration>>

\* ATD when it is not: an error, or with no number the tone for a call that is up;
\* the rings are counted anew in either case.
DialBusy ==
    /\ Command
    /\ modemstate \notin {"onhook", "offhook"}
    /\ rings' = 0
    /\ at' \in IF modemstate = "connected" THEN {at, "data", "offhook"} ELSE {at}
    /\ UNCHANGED <<modemstate, phonestate, session, sess, resting, dialextra,
                   gothup, exit, strayed, registration>>

\* ATH1: a ringing call is answered without the answering tone.
OffHook ==
    /\ Command
    /\ modemstate' = CASE modemstate = "onhook" -> "offhook"
                       [] modemstate = "ringing" -> "connected"
                       [] OTHER -> modemstate
    /\ at' = "offhook"
    /\ UNCHANGED <<phonestate, session, sess, resting, dialextra, rings, gothup,
                   exit, strayed, registration>>

\* ATA: the tone for a call that is up, or the ringing call is answered.
Answer ==
    /\ Command
    /\ modemstate \in {"connected", "ringing"}
    /\ modemstate' = "connected"
    /\ at' = "data"
    /\ UNCHANGED <<phonestate, session, sess, resting, dialextra, rings, gothup,
                   exit, strayed, registration>>

\* AT_MODEM_CONTROL_HANGUP: the session is given up if the phone is in a call.
HangUpControl ==
    /\ modemstate' = "onhook"
    /\ resting' = TRUE
    /\ phonestate' = "freed"
    /\ IF phonestate # "freed"
       THEN /\ sess' = [sess EXCEPT ![session] = "none"]
            /\ TakeHup
            /\ UNCHANGED strayed
       ELSE /\ strayed' = (strayed \/ modemstate = "calling")
            /\ UNCHANGED <<sess, exit>>

\* ATH, ATZ, AT&F.
HangUp ==
    /\ Command
    /\ HangUpControl
    /\ at' = "onhook"
    /\ rings' = 0
    /\ UNCHANGED <<session, dialextra, gothup, registration>>

\* ATO: the mode of a call, whatever the hook.  On an idle line nothing that comes
\* in a later read() takes the interpreter back.
Online ==
    /\ Command
    /\ at' = "data"
    /\ UNCHANGED <<modemstate, phonestate, session, sess, resting, dialextra,
                   rings, gothup, exit, strayed, registration>>

\* Bytes that are no command, or for an interpreter that is in no command mode.
Type ==
    /\ exit = "no"
    /\ lastdtedata' = 0
    /\ UNCHANGED <<modemstate, phonestate, session, sess, resting, dialextra, at,
                   rings, gothup, exit, strayed, registration>>

\* A class 1 command puts the interpreter in a mode of the call, a byte typed while
\* receiving or the end of a transmission takes it back.
Class1Command ==
    /\ exit = "no"
    /\ at # "onhook"
    /\ lastdtedata' \in {0, lastdtedata}
    /\ at' = IF at = "offhook" THEN "data" ELSE "offhook"
    /\ UNCHANGED <<modemstate, phonestate, session, sess, resting, dialextra,
                   rings, gothup, exit, strayed, registration>>

\* The modem hears no carrier for S7 seconds and hangs up: it listens only while
\* no digits are left.
NoCarrier ==
    /\ exit = "no"
    /\ modemstate = "connected" /\ at = "data" /\ dialextra = "none"
    /\ HangUpControl
    /\ at' = "onhook"
    /\ UNCHANGED <<session, dialextra, rings, gothup, lastdtedata, registration>>

-----------------------------------------------------------------------------
(* Timers. *)

\* AT_CALL_EVENT_ALERTING: RING, and the answer when S0 rings have been counted.
Alerting(counted) ==
    IF S0 # 0 /\ counted + 1 >= S0
    THEN rings' = counted + 1 /\ modemstate' = "connected" /\ at' = "data"
    ELSE /\ rings' = IF S0 = 0 THEN 0 ELSE counted + 1
         /\ modemstate' = "ringing"
         /\ UNCHANGED at

\* 5 seconds after the last RING.
Ring ==
    /\ exit = "no"
    /\ modemstate = "ringing"
    /\ Alerting(rings)
    /\ UNCHANGED <<phonestate, session, sess, resting, dialextra, gothup, exit,
                   strayed, lastdtedata, registration>>

\* Time passes since the DTE's last byte: it counts only in a call being dialed.
Quiet ==
    /\ exit = "no"
    /\ modemstate = "calling"
    /\ lastdtedata < 2
    /\ lastdtedata' = lastdtedata + 1
    /\ UNCHANGED <<modemstate, phonestate, session, sess, resting, dialextra, at,
                   rings, gothup, exit, strayed, registration>>

\* Mutant: the session is left to libiax2.
NoAnswer_keeps_session ==
    /\ exit = "no"
    /\ modemstate = "calling" /\ lastdtedata = 2
    /\ at' = "onhook"
    /\ UNCHANGED sess
    /\ phonestate' = "freed"
    /\ modemstate' = "onhook"
    /\ TakeHup
    /\ UNCHANGED <<session, resting, dialextra, rings, gothup, strayed,
                   lastdtedata, registration>>

\* Mutant: no limit once the server has accepted the call.
NoAnswer_unaccepted ==
    /\ exit = "no"
    /\ modemstate = "calling" /\ lastdtedata = 2 /\ phonestate = "freed"
    /\ at' = "onhook"
    /\ sess' = [sess EXCEPT ![session] = "none"]
    /\ modemstate' = "onhook"
    /\ UNCHANGED <<phonestate, session, resting, dialextra, rings, gothup, exit,
                   strayed, lastdtedata, registration>>

\* 45 seconds after the DTE's last byte, whatever it was: the session is dropped
\* without a word to the server.
NoAnswer ==
    /\ exit = "no"
    /\ modemstate = "calling" /\ lastdtedata = 2
    /\ at' = "onhook"
    /\ sess' = [sess EXCEPT ![session] = "none"]
    /\ phonestate' = "freed"
    /\ modemstate' = "onhook"
    /\ TakeHup
    /\ UNCHANGED <<session, resting, dialextra, rings, gothup, strayed,
                   lastdtedata, registration>>

\* Five seconds since the last hang-up.
Rested ==
    /\ exit = "no"
    /\ resting
    /\ resting' = FALSE
    /\ UNCHANGED <<modemstate, phonestate, session, sess, dialextra, at, rings,
                   gothup, exit, strayed,
                   lastdtedata, registration>>

\* SIGALRM: the digits are sent up to the next run of commas, on whatever session[0] is.
Alarm(more) ==
    /\ exit = "no"
    /\ dialextra = "alarm"
    /\ dialextra' = IF more THEN "alarm" ELSE "none"
    /\ UNCHANGED <<modemstate, phonestate, session, sess, resting, at, rings,
                   gothup, exit, strayed,
                   lastdtedata, registration>>

-----------------------------------------------------------------------------
(* IAX events of the call c. *)

Event == exit = "no"

\* IAX_EVENT_ACCEPT and IAX_EVENT_RINGA.
Accepted(c) ==
    /\ Event
    /\ sess[c] \in {"trying", "accepted"}
    /\ sess' = [sess EXCEPT ![c] = "accepted"]
    /\ phonestate' = IF sess[c] = "trying" THEN "accepted" ELSE "ringing"
    /\ UNCHANGED <<modemstate, session, resting, dialextra, at, rings, gothup,
                   exit, strayed, lastdtedata, registration>>

\* IAX_EVENT_ANSWER, with the first digits of dialextra; ATD...; stays in command mode.
Answered(c) ==
    /\ Event
    /\ sess[c] = "accepted"
    /\ sess' = [sess EXCEPT ![c] = "up"]
    /\ phonestate' = "answered"
    /\ modemstate' = "connected"
    /\ at' \in {"data", "offhook"}
    /\ dialextra' \in IF dialextra = "none" THEN {"none"} ELSE {"none", "alarm"}
    /\ UNCHANGED <<session, resting, rings, gothup, exit, strayed,
                   lastdtedata, registration>>

\* IAX_EVENT_CONNECT: a call comes in.  Any other is rejected, and its session
\* with it: when the modem is in use, rests, or shares no codec.
Connect(c) ==
    /\ Event
    /\ sess[c] = "none"
    /\ Idle /\ ~resting
    /\ phonestate' = "connected"
    /\ session' = c
    /\ sess' = [sess EXCEPT ![c] = "in"]
    /\ Alerting(0)
    /\ UNCHANGED <<resting, dialextra, gothup, exit, strayed,
                   lastdtedata, registration>>

\* Mutant: the waiting SIGHUP is forgotten.
Busy_keeps_hup(c) ==
    /\ Event
    /\ sess[c] = "accepted"
    /\ phonestate' = "freed"
    /\ modemstate' = "onhook"
    /\ at' = "onhook"
    /\ sess' = [sess EXCEPT ![session] = "none"]
    /\ UNCHANGED exit
    /\ UNCHANGED <<session, resting, dialextra, rings, gothup, strayed,
                   lastdtedata, registration>>

\* IAX_EVENT_BUSY: session[0] is hung up, whatever session the event is of.
Busy(c) ==
    /\ Event
    /\ sess[c] = "accepted"
    /\ phonestate' = "freed"
    /\ modemstate' = "onhook"
    /\ at' = "onhook"
    /\ sess' = [sess EXCEPT ![session] = "none"]
    /\ TakeHup
    /\ UNCHANGED <<session, resting, dialextra, rings, gothup, strayed,
                   lastdtedata, registration>>

\* Mutant: the AT interpreter is not told.
RemoteHangup_silent(c) ==
    /\ Event
    /\ sess[c] # "none"
    /\ sess' = [sess EXCEPT ![c] = "none"]
    /\ UNCHANGED at
    /\ modemstate' = "onhook"
    /\ phonestate' = "freed"
    /\ resting' = TRUE
    /\ TakeHup
    /\ UNCHANGED <<session, dialextra, rings, gothup, strayed,
                   lastdtedata, registration>>

\* IAX_EVENT_HANGUP: the library has destroyed the session.
RemoteHangup(c) ==
    /\ Event
    /\ sess[c] # "none"
    /\ sess' = [sess EXCEPT ![c] = "none"]
    /\ at' = IF modemstate # "onhook" THEN "onhook" ELSE at
    /\ modemstate' = "onhook"
    /\ phonestate' = "freed"
    /\ resting' = TRUE
    /\ TakeHup
    /\ UNCHANGED <<session, dialextra, rings, gothup, strayed,
                   lastdtedata, registration>>

\* IAX_EVENT_REJECT.
Rejected(c) ==
    /\ Event
    /\ sess[c] = "trying"
    /\ sess' = [sess EXCEPT ![c] = "none"]
    /\ at' = IF modemstate # "onhook" THEN "onhook" ELSE at
    /\ modemstate' = "onhook"
    /\ phonestate' = "freed"
    /\ TakeHup
    /\ UNCHANGED <<session, resting, dialextra, rings, gothup, strayed,
                   lastdtedata, registration>>

\* IAX_EVENT_TRANSFER.
Transfer(c) ==
    /\ Event
    /\ sess[c] \in {"up", "in"}
    /\ session' = c
    /\ UNCHANGED <<modemstate, phonestate, sess, resting, dialextra, at, rings,
                   gothup, exit, strayed,
                   lastdtedata, registration>>

-----------------------------------------------------------------------------
(* Registration, on session[1]. *)

\* The answer: accepted, or one of rejected and timed out, which leave PENDING.
Registered(ok) ==
    /\ Event
    /\ asked
    /\ asked' = FALSE
    /\ regstate' = IF ok THEN "registered" ELSE regstate
    /\ UNCHANGED <<due, line, gothup, exit>>

RefreshDue ==
    /\ exit = "no"
    /\ ~due
    /\ due' = TRUE
    /\ UNCHANGED <<regstate, asked, line, gothup, exit>>

\* At the end of the loop: the first registration, and one refresh - 5 seconds
\* after the last.
Register ==
    /\ exit = "no"
    /\ regstate = "unregistered" \/ due
    /\ asked' = TRUE
    /\ due' = FALSE
    /\ regstate' = "pending"
    /\ UNCHANGED <<line, gothup, exit>>

-----------------------------------------------------------------------------
(* Signals.  cleanup() destroys session[0] only when registered. *)

\* sighandler_hup()
Hup ==
    /\ exit = "no"
    /\ IF Idle
       THEN exit' = "hup" /\ UNCHANGED gothup
       ELSE gothup' = TRUE /\ UNCHANGED exit
    /\ UNCHANGED <<line, registration>>

\* sighandler() and cleanup()
Term ==
    /\ exit = "no"
    /\ exit' = "term"
    /\ sess' = IF regstate = "registered" /\ session # NoCall
               THEN [sess EXCEPT ![session] = "none"] ELSE sess
    /\ UNCHANGED <<modemstate, phonestate, session, resting, dialextra, at, rings,
                   lastdtedata, strayed, gothup, registration>>

\* The supervisor, or the administrator, starts the modem again.
Restart ==
    /\ exit # "no"
    /\ modemstate' = "onhook" /\ phonestate' = "freed" /\ at' = "onhook"
    /\ regstate' = "unregistered" /\ asked' = FALSE /\ due' = TRUE
    /\ session' = NoCall /\ sess' = [c \in Calls |-> "none"]
    /\ resting' = FALSE /\ dialextra' = "none" /\ rings' = 0
    /\ gothup' = FALSE /\ lastdtedata' = 0 /\ exit' = "no" /\ strayed' = FALSE

-----------------------------------------------------------------------------

DteStep == \/ \E c \in Calls, extra \in BOOLEAN : Dial(c, extra)
           \/ DialBusy \/ OffHook \/ Answer \/ HangUp \/ Online \/ Type
           \/ Class1Command \/ NoCarrier

TimerStep == Ring \/ Quiet \/ NoAnswer \/ Rested \/ \E more \in BOOLEAN : Alarm(more)

EventStep ==
    \E c \in Calls :
        \/ Accepted(c) \/ Answered(c) \/ Connect(c) \/ Busy(c)
        \/ RemoteHangup(c) \/ Rejected(c) \/ Transfer(c)

RegistrationStep == RefreshDue \/ Register \/ \E ok \in BOOLEAN : Registered(ok)

Next == DteStep \/ TimerStep \/ EventStep \/ RegistrationStep
            \/ Hup \/ Term \/ Restart

Spec == Init /\ [][Next]_vars

\* The loop's select() waits no longer than the next of its timers, and time passes;
\* nothing is assumed of the DTE, which may type at any time and put off the end of
\* the 45 seconds, of the server, or of the remote side.
FairSpec == /\ Spec
            /\ WF_vars(Quiet) /\ WF_vars(NoAnswer)
            /\ WF_vars(RefreshDue) /\ WF_vars(Register)

-----------------------------------------------------------------------------

\* Types; the rings of one call are never more than the register asks for.
TypeOK ==
    /\ modemstate \in ModemStates
    /\ phonestate \in PhoneStates
    /\ regstate \in {"unregistered", "registered", "pending"}
    /\ session \in Calls \cup {NoCall}
    /\ sess \in [Calls -> SessionStates]
    /\ dialextra \in {"none", "waiting", "alarm"}
    /\ at \in AtModes
    /\ rings \in 0..S0
    /\ lastdtedata \in 0..2
    /\ exit \in {"no", "hup", "term"}
    /\ {asked, due, resting, gothup, strayed} \subseteq BOOLEAN

\* FAQ: "Each IAXmodem instance can only handle one call at a time."  Unless a call
\* was left alone while it was being dialed, the only session open is
\* the one the modem works with, it is open exactly while the modem calls, rings or
\* talks, and an idle modem has none.
NoStrayCalls ==
    /\ TypeOK
    /\ ~strayed /\ exit = "no" =>
        /\ Open = (IF modemstate \in {"calling", "ringing", "connected"}
                   THEN {session} ELSE {})
        /\ modemstate \in {"onhook", "offhook"} => phonestate = "freed"
        /\ modemstate \in {"ringing", "connected"} => phonestate # "freed"

\* A modem on hook whose interpreter is in a mode off hook.
HookLost == exit = "no" /\ at # "onhook" /\ modemstate = "onhook"

\* The AT interpreter and the line agree on the hook: a line in use has a DTE that
\* knows it, and only ATO, which asks nothing of the hook, gives a DTE the commands
\* and modes of a call without the line: no end of a call does, whoever ends it.
HookAgrees ==
    /\ [](exit = "no" /\ modemstate \in {"offhook", "connected"} => at # "onhook")
    /\ [][HookLost' => HookLost \/ Online]_vars

\* SIGHUP never takes the modem from under a call; and when a call that the server
\* has accepted or offered ends while a SIGHUP waits, the modem restarts, whether the
\* DTE, a timer or the other side ends it.
HupAtEndOfCall ==
    [][/\ gothup /\ phonestate # "freed" /\ phonestate' = "freed" /\ exit = "no"
            => exit' # "no"
       /\ exit' = "hup" /\ ~strayed' => Open' = {}]_vars

\* Dialing comes to an end, though the server may never answer, unless the DTE types
\* again and again, each time before 45 seconds are over; and a registration refused
\* or unanswered is tried again.
WaitingEnds ==
    /\ <>[](modemstate = "calling" /\ exit = "no")
            => []<><<lastdtedata > 0 /\ lastdtedata' = 0>>_vars
    /\ (exit = "no" /\ ~asked /\ regstate # "registered") ~> (asked \/ exit # "no")

=============================================================================
