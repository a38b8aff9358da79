--------------------------- MODULE IaxModemProofs ---------------------------
(***************************************************************************)
(* Theorems about IaxModem, for any number of sessions in the library and  *)
(* any value of S0.                                                        *)
(***************************************************************************)
EXTENDS IaxModem, TLAPS

USE DEF line, registration

-----------------------------------------------------------------------------
(***************************************************************************)
(* The inductive invariant.  While the modem rings, the last ring is still *)
(* to come: it answers with that one.                                      *)
(***************************************************************************)
RingsLeft == modemstate = "ringing" => S0 = 0 \/ rings < S0

\* A line in use has an interpreter in a mode off hook.
HookHeld == exit = "no" /\ modemstate \in {"offhook", "connected"} => at # "onhook"

ModemInv == TypeOK /\ RingsLeft /\ NoStrayCalls /\ HookHeld

\* The sessions after one is opened, closed, or goes from one state to another.
Opened(c) == sess[c] = "none" /\ \E s \in SessionStates \ {"none"} :
               sess' = [sess EXCEPT ![c] = s]
Closed(c) == sess' = [sess EXCEPT ![c] = "none"]
Changed(c) == sess[c] # "none" /\ \E s \in SessionStates \ {"none"} :
                sess' = [sess EXCEPT ![c] = s]

LEMMA OpenedOpen ==
  ASSUME TypeOK, NEW c \in Calls, Opened(c)
  PROVE  Open' = Open \cup {c} /\ sess' \in [Calls -> SessionStates]
BY DEF TypeOK, Open, Opened

LEMMA ClosedOpen ==
  ASSUME TypeOK, NEW c, Closed(c)
  PROVE  Open' = Open \ {c} /\ sess' \in [Calls -> SessionStates]
BY DEF TypeOK, Open, Closed, SessionStates

LEMMA ChangedOpen ==
  ASSUME TypeOK, NEW c \in Calls, Changed(c)
  PROVE  Open' = Open /\ sess' \in [Calls -> SessionStates]
BY DEF TypeOK, Open, Changed

LEMMA SameOpen == sess' = sess => Open' = Open
BY DEF Open

\* A ring does not count too far, and either leaves the call ringing or answers it.
LEMMA AlertingRings ==
  ASSUME TypeOK, NEW n \in 0..S0, S0 = 0 \/ n < S0, Alerting(n), at \in AtModes
  PROVE  /\ rings' \in 0..S0 /\ at' \in AtModes
         /\ \/ modemstate' = "ringing" /\ at' = at
            \/ modemstate' = "connected" /\ at' = "data"
         /\ RingsLeft'
BY S0Assumption DEF Alerting, RingsLeft, AtModes

\* Giving up the line leaves nothing open, or a call that has strayed.
LEMMA HangUpControlOpen ==
  ASSUME ModemInv, exit = "no", HangUpControl
  PROVE  /\ modemstate' = "onhook" /\ phonestate' = "freed" /\ resting' \in BOOLEAN
         /\ strayed' \in BOOLEAN /\ sess' \in [Calls -> SessionStates]
         /\ exit' \in {"no", "hup"}
         /\ ~strayed' => ~strayed /\ Open' = {}
         /\ gothup /\ phonestate # "freed" => exit' = "hup"
         /\ exit' = "hup" => phonestate # "freed"
<1>1. CASE phonestate # "freed"
  <2>1. Closed(session)
    BY <1>1 DEF HangUpControl, Closed
  <2>2. Open' = Open \ {session} /\ sess' \in [Calls -> SessionStates]
    BY <2>1, ClosedOpen DEF ModemInv
  <2>3. ~strayed => Open \subseteq {session}
    BY DEF ModemInv, NoStrayCalls
  <2> QED
    BY <1>1, <2>2, <2>3 DEF HangUpControl, TakeHup, ModemInv, TypeOK
<1>2. CASE phonestate = "freed"
  <2>1. Open' = Open
    BY <1>2, SameOpen DEF HangUpControl
  <2>2. ~strayed /\ modemstate # "calling" => Open = {}
    BY <1>2 DEF ModemInv, NoStrayCalls
  <2> QED
    BY <1>2, <2>1, <2>2 DEF HangUpControl, ModemInv, TypeOK
<1> QED
  BY <1>1, <1>2

-----------------------------------------------------------------------------
(***************************************************************************)
(* Every step of the process keeps the invariant.                          *)
(***************************************************************************)
LEMMA InitInv == Init => ModemInv
<1> SUFFICES ASSUME Init PROVE ModemInv
  OBVIOUS
<1>1. Open = {}
  BY DEF Init, Open
<1>2. sess \in [Calls -> SessionStates]
  BY DEF Init, SessionStates
<1>3. rings \in 0..S0
  BY S0Assumption DEF Init
<1>4. lastdtedata \in 0..2
  BY DEF Init
<1>5. TypeOK
  BY <1>2, <1>3, <1>4 DEF Init, TypeOK, ModemStates, PhoneStates, AtModes
<1> QED
  BY <1>1, <1>5 DEF Init, ModemInv, RingsLeft, NoStrayCalls, HookHeld

LEMMA DteStepInv == ModemInv /\ DteStep => ModemInv'
<1> SUFFICES ASSUME ModemInv, DteStep PROVE ModemInv'
  OBVIOUS
<1> USE DEF ModemInv, TypeOK, RingsLeft, NoStrayCalls, HookHeld
<1>1. ASSUME NEW c \in Calls, NEW extra \in BOOLEAN, Dial(c, extra) PROVE ModemInv'
  <2>1. Opened(c)
    BY <1>1 DEF Dial, Opened, SessionStates
  <2>2. Open' = Open \cup {c} /\ sess' \in [Calls -> SessionStates]
    BY <2>1, OpenedOpen
  <2>3. ~strayed => Open = {} /\ phonestate = "freed"
    BY <1>1 DEF Dial, Command
  <2> QED
    BY <1>1, <2>2, <2>3, S0Assumption DEF Dial, Command, ModemStates
<1>2. CASE DialBusy
  <2>1. Open' = Open
    BY <1>2, SameOpen DEF DialBusy
  <2> QED
    BY <1>2, <2>1, S0Assumption DEF DialBusy, Command, AtModes
<1>3. CASE OffHook
  <2>1. Open' = Open
    BY <1>3, SameOpen DEF OffHook
  <2> QED
    BY <1>3, <2>1 DEF OffHook, Command, AtModes, ModemStates
<1>4. CASE Answer
  <2>1. Open' = Open
    BY <1>4, SameOpen DEF Answer
  <2> QED
    BY <1>4, <2>1 DEF Answer, Command, AtModes, ModemStates
<1>5. CASE HangUp \/ NoCarrier
  <2>1. exit = "no" /\ HangUpControl /\ at' = "onhook"
        /\ rings' \in {0, rings} /\ lastdtedata' \in 0..2
        /\ UNCHANGED <<session, dialextra, gothup, registration>>
    BY <1>5 DEF HangUp, NoCarrier, Command
  <2>2. /\ modemstate' = "onhook" /\ phonestate' = "freed" /\ resting' \in BOOLEAN
        /\ strayed' \in BOOLEAN /\ sess' \in [Calls -> SessionStates]
        /\ exit' \in {"no", "hup"}
        /\ ~strayed' => ~strayed /\ Open' = {}
    BY <2>1, HangUpControlOpen
  <2> QED
    BY <2>1, <2>2, S0Assumption DEF AtModes, ModemStates, PhoneStates
<1>6. CASE Class1Command \/ Online \/ Type
  <2>1. Open' = Open
    BY <1>6, SameOpen DEF Class1Command, Online, Type
  <2> QED
    BY <1>6, <2>1 DEF Class1Command, Online, Type, Command, AtModes
<1> QED
  BY <1>1, <1>2, <1>3, <1>4, <1>5, <1>6 DEF DteStep

LEMMA TimerStepInv == ModemInv /\ TimerStep => ModemInv'
<1> SUFFICES ASSUME ModemInv, TimerStep PROVE ModemInv'
  OBVIOUS
<1> USE DEF ModemInv, TypeOK, NoStrayCalls, HookHeld
<1>1. CASE Ring
  <2>1. Open' = Open
    BY <1>1, SameOpen DEF Ring
  <2>2. S0 = 0 \/ rings < S0
    BY <1>1 DEF Ring, RingsLeft
  <2>3. /\ rings' \in 0..S0 /\ at' \in AtModes
        /\ \/ modemstate' = "ringing" /\ at' = at
           \/ modemstate' = "connected" /\ at' = "data"
        /\ RingsLeft'
    BY <1>1, <2>2, AlertingRings DEF Ring
  <2> QED
    BY <1>1, <2>1, <2>3 DEF Ring, ModemStates
<1>2. CASE NoAnswer
  <2>1. Closed(session)
    BY <1>2 DEF NoAnswer, Closed
  <2>2. Open' = Open \ {session} /\ sess' \in [Calls -> SessionStates]
    BY <2>1, ClosedOpen
  <2> QED
    BY <1>2, <2>2 DEF NoAnswer, TakeHup, AtModes, ModemStates, PhoneStates, RingsLeft
<1>3. CASE Rested \/ \E more \in BOOLEAN : Alarm(more)
  <2>1. Open' = Open
    BY <1>3, SameOpen DEF Rested, Alarm
  <2> QED
    BY <1>3, <2>1 DEF Rested, Alarm, RingsLeft
<1>4. CASE Quiet
  <2>1. Open' = Open
    BY <1>4, SameOpen DEF Quiet
  <2>2. lastdtedata' \in 0..2
    BY <1>4 DEF Quiet
  <2> QED
    BY <1>4, <2>1, <2>2 DEF Quiet, RingsLeft
<1> QED
  BY <1>1, <1>2, <1>3, <1>4 DEF TimerStep

LEMMA EventStepInv == ModemInv /\ EventStep => ModemInv'
<1> SUFFICES ASSUME ModemInv, NEW c \in Calls,
                    \/ Accepted(c) \/ Answered(c) \/ Connect(c) \/ Busy(c)
                    \/ RemoteHangup(c) \/ Rejected(c) \/ Transfer(c)
             PROVE  ModemInv'
  BY DEF EventStep
<1> USE DEF ModemInv, TypeOK, NoStrayCalls, HookHeld, Event
<1>1. CASE Accepted(c)
  <2>1. Changed(c)
    BY <1>1 DEF Accepted, Changed, SessionStates
  <2>2. Open' = Open /\ sess' \in [Calls -> SessionStates]
    BY <2>1, ChangedOpen
  <2>3. c \in Open
    BY <1>1 DEF Accepted, Open
  <2> QED
    BY <1>1, <2>2, <2>3 DEF Accepted, RingsLeft, PhoneStates
<1>2. CASE Answered(c)
  <2>1. Changed(c)
    BY <1>2 DEF Answered, Changed, SessionStates
  <2>2. Open' = Open /\ sess' \in [Calls -> SessionStates]
    BY <2>1, ChangedOpen
  <2>3. c \in Open
    BY <1>2 DEF Answered, Open
  <2> QED
    BY <1>2, <2>2, <2>3 DEF Answered, RingsLeft, PhoneStates, ModemStates, AtModes
<1>3. CASE Connect(c)
  <2>1. Opened(c)
    BY <1>3 DEF Connect, Opened, SessionStates
  <2>2. Open' = Open \cup {c} /\ sess' \in [Calls -> SessionStates]
    BY <2>1, OpenedOpen
  <2>3. ~strayed => Open = {}
    BY <1>3 DEF Connect, Idle
  <2>4. 0 \in 0..S0 /\ (S0 = 0 \/ 0 < S0)
    BY S0Assumption
  <2>5. /\ rings' \in 0..S0 /\ at' \in AtModes
        /\ \/ modemstate' = "ringing" /\ at' = at
           \/ modemstate' = "connected" /\ at' = "data"
        /\ RingsLeft'
    BY <1>3, <2>4, AlertingRings DEF Connect
  <2> QED
    BY <1>3, <2>2, <2>3, <2>5 DEF Connect, ModemStates, PhoneStates
<1>4. CASE Busy(c)
  <2>1. Closed(session)
    BY <1>4 DEF Busy, Closed
  <2>2. Open' = Open \ {session} /\ sess' \in [Calls -> SessionStates]
    BY <2>1, ClosedOpen
  <2> QED
    BY <1>4, <2>2 DEF Busy, TakeHup, RingsLeft, ModemStates, PhoneStates, AtModes
<1>5. CASE RemoteHangup(c) \/ Rejected(c)
  <2>1. Closed(c) /\ c \in Open
    BY <1>5 DEF RemoteHangup, Rejected, Closed, Open
  <2>2. Open' = Open \ {c} /\ sess' \in [Calls -> SessionStates]
    BY <2>1, ClosedOpen
  <2> QED
    BY <1>5, <2>1, <2>2
    DEF RemoteHangup, Rejected, TakeHup, RingsLeft, ModemStates, PhoneStates, AtModes
<1>6. CASE Transfer(c)
  <2>1. Open' = Open /\ c \in Open
    BY <1>6, SameOpen DEF Transfer, Open
  <2> QED
    BY <1>6, <2>1 DEF Transfer, RingsLeft
<1> QED
  BY <1>1, <1>2, <1>3, <1>4, <1>5, <1>6

LEMMA RegistrationStepInv == ModemInv /\ RegistrationStep => ModemInv'
<1> SUFFICES ASSUME ModemInv, RegistrationStep PROVE ModemInv'
  OBVIOUS
<1>1. Open' = Open
  BY SameOpen DEF RegistrationStep, RefreshDue, Register, Registered
<1> QED
  BY <1>1 DEF ModemInv, TypeOK, RingsLeft, NoStrayCalls, HookHeld,
     RegistrationStep, RefreshDue, Register, Registered, Event

LEMMA SignalStepInv == ModemInv /\ (Hup \/ Term \/ Restart) => ModemInv'
<1> SUFFICES ASSUME ModemInv, Hup \/ Term \/ Restart PROVE ModemInv'
  OBVIOUS
<1> USE DEF ModemInv, TypeOK, RingsLeft, NoStrayCalls, HookHeld
<1>1. CASE Hup
  <2>1. Open' = Open
    BY <1>1, SameOpen DEF Hup
  <2> QED
    BY <1>1, <2>1 DEF Hup
<1>2. CASE Term
  <2>1. sess' \in [Calls -> SessionStates]
    BY <1>2 DEF Term, SessionStates
  <2> QED
    BY <1>2, <2>1 DEF Term
<1>3. CASE Restart
  <2>1. Open' = {}
    BY <1>3 DEF Restart, Open
  <2>2. sess' \in [Calls -> SessionStates]
    BY <1>3 DEF Restart, SessionStates
  <2>3. rings' \in 0..S0
    BY <1>3, S0Assumption DEF Restart
  <2>4. lastdtedata' \in 0..2
    BY <1>3 DEF Restart
  <2>5. TypeOK'
    BY <1>3, <2>2, <2>3, <2>4 DEF Restart, ModemStates, PhoneStates, AtModes
  <2> QED
    BY <1>3, <2>1, <2>5 DEF Restart
<1> QED
  BY <1>1, <1>2, <1>3

LEMMA NextInv == ModemInv /\ [Next]_vars => ModemInv'
<1>1. ModemInv /\ UNCHANGED vars => ModemInv'
  BY DEF ModemInv, TypeOK, RingsLeft, NoStrayCalls, HookHeld, Open, vars
<1> QED
  BY <1>1, DteStepInv, TimerStepInv, EventStepInv, RegistrationStepInv,
     SignalStepInv DEF Next

(***************************************************************************)
(* The invariant holds in every reachable state.                           *)
(***************************************************************************)
THEOREM ModemCorrect == Spec => []ModemInv
<1> QED
  BY InitInv, NextInv, PTL DEF Spec

(***************************************************************************)
(* One call at a time: the only session open is the one the modem works    *)
(* with, from ATD or IAX_EVENT_CONNECT to the end of the call, unless a    *)
(* call was given up while it was dialed.                                  *)
(***************************************************************************)
THEOREM NoStrayCallsCorrect == Spec => []NoStrayCalls
<1>1. ModemInv => NoStrayCalls
  BY DEF ModemInv
<1> QED
  BY <1>1, ModemCorrect, PTL

(***************************************************************************)
(* The AT interpreter and modemstate agree on the hook, whichever of the   *)
(* DTE, the timers and the server changed either of them last: only ATO,   *)
(* on an idle line, parts them.                                            *)
(***************************************************************************)
HookStep == HookLost' => HookLost \/ Online

LEMMA NextHook == ModemInv /\ [Next]_vars => HookStep \/ UNCHANGED vars
<1> SUFFICES ASSUME ModemInv, Next PROVE HookStep
  OBVIOUS
<1> USE DEF HookStep, HookLost
<1>1. CASE DteStep
  BY <1>1 DEF DteStep, Dial, DialBusy, OffHook, Answer, HangUp, HangUpControl,
     Class1Command, NoCarrier, Type, Command, ModemInv, HookHeld
<1>2. CASE TimerStep
  BY <1>2 DEF TimerStep, Ring, Alerting, NoAnswer, Quiet, Rested, Alarm
<1>3. CASE EventStep
  BY <1>3 DEF EventStep, Accepted, Answered, Connect, Alerting, Busy,
     RemoteHangup, Rejected, Transfer, Event
<1>4. CASE RegistrationStep \/ Hup
  BY <1>4 DEF RegistrationStep, RefreshDue, Register, Registered, Event, Hup
<1>5. CASE Term \/ Restart
  BY <1>5 DEF Term, Restart
<1> QED
  BY <1>1, <1>2, <1>3, <1>4, <1>5 DEF Next

THEOREM HookCorrect == Spec => HookAgrees
<1>1. ModemInv => (exit = "no" /\ modemstate \in {"offhook", "connected"} => at # "onhook")
  BY DEF ModemInv, HookHeld
<1>2. ModemInv /\ [Next]_vars => [HookLost' => HookLost \/ Online]_vars
  BY NextHook DEF HookStep
<1> QED
  BY <1>1, <1>2, ModemCorrect, PTL DEF Spec, HookAgrees

-----------------------------------------------------------------------------
(***************************************************************************)
(* A SIGHUP that comes in a call waits for its end, and no longer, once    *)
(* the server has accepted or offered the call.                            *)
(***************************************************************************)
HupWaits ==
  /\ (gothup /\ phonestate # "freed" /\ phonestate' = "freed" /\ exit = "no")
       => exit' # "no"
  /\ (exit' = "hup" /\ ~strayed') => Open' = {}

LEMMA NextHupWaits == ModemInv /\ [Next]_vars => HupWaits \/ UNCHANGED vars
<1> SUFFICES ASSUME ModemInv, Next PROVE HupWaits
  OBVIOUS
<1> USE DEF ModemInv, NoStrayCalls
<1>1. CASE HangUp \/ NoCarrier
  <2>1. exit = "no" /\ HangUpControl
    BY <1>1 DEF HangUp, NoCarrier, Command
  <2> QED
    BY <2>1, HangUpControlOpen DEF HupWaits
<1>2. CASE NoAnswer \/ \E c \in Calls : Busy(c)
  <2>1. Closed(session)
    BY <1>2 DEF NoAnswer, Busy, Closed
  <2>2. Open' = Open \ {session}
    BY <2>1, ClosedOpen
  <2>3. ~strayed => Open \subseteq {session}
    BY <1>2 DEF NoAnswer, Busy, Event
  <2> QED
    BY <1>2, <2>2, <2>3 DEF NoAnswer, Busy, TakeHup, HupWaits
<1>3. ASSUME NEW c \in Calls, RemoteHangup(c) \/ Rejected(c) PROVE HupWaits
  <2>1. Closed(c) /\ c \in Open
    BY <1>3 DEF RemoteHangup, Rejected, Closed, Open
  <2>2. Open' = Open \ {c}
    BY <2>1, ClosedOpen
  <2>3. ~strayed => Open \subseteq {c}
    BY <1>3, <2>1 DEF RemoteHangup, Rejected, Event
  <2> QED
    BY <1>3, <2>2, <2>3 DEF RemoteHangup, Rejected, TakeHup, HupWaits
<1>4. CASE Hup
  <2>1. Open' = Open
    BY <1>4, SameOpen DEF Hup
  <2> QED
    BY <1>4, <2>1 DEF Hup, Idle, HupWaits
<1>5. CASE Term \/ Restart
  BY <1>5 DEF Term, Restart, HupWaits
<1>6. CASE \/ \E c \in Calls, extra \in BOOLEAN : Dial(c, extra)
           \/ DialBusy \/ OffHook \/ Answer \/ Class1Command \/ Online \/ Type
           \/ Ring \/ Quiet \/ Rested
           \/ \E more \in BOOLEAN : Alarm(more)
           \/ \E c \in Calls : Accepted(c) \/ Answered(c) \/ Connect(c) \/ Transfer(c)
           \/ RegistrationStep
  <2>1. exit = "no" /\ exit' = "no" /\ (phonestate' = phonestate \/ phonestate' # "freed")
    BY <1>6 DEF Dial, DialBusy, OffHook, Answer, Class1Command, Online, Type, Ring, Quiet,
       Rested, Alarm,
       Accepted, Answered, Connect, Transfer, Command, Event,
       RegistrationStep, RefreshDue, Register, Registered
  <2> QED
    BY <2>1 DEF HupWaits
<1> QED
  BY <1>1, <1>2, <1>3, <1>4, <1>5, <1>6
  DEF Next, DteStep, TimerStep, EventStep

THEOREM HupCorrect == Spec => HupAtEndOfCall
<1>1. ModemInv /\ [Next]_vars => [HupWaits]_vars
  BY NextHupWaits
<1>2. Spec => [][HupWaits]_vars
  BY <1>1, ModemCorrect, PTL DEF Spec
<1> QED
  BY <1>2 DEF HupAtEndOfCall, HupWaits

=============================================================================
