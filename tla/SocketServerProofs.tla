------------------------- MODULE SocketServerProofs -------------------------
(***************************************************************************)
(* Theorems about SocketServer, for any sets of jobs, ports and settings,  *)
(* and whatever the system refuses and whenever the process is killed.     *)
(***************************************************************************)
EXTENDS SocketServer, TLAPS

USE DEF serverVars, threadVars, slotVars, queueVars, saveVars, guiVars

-----------------------------------------------------------------------------
(***************************************************************************)
(* The inductive invariant.                                                *)
(***************************************************************************)

\* From accept() to the end of read_socket() the thread has a job in hand.
Working == {"read", "say_job", "add", "save", "offer"}
JobInHand == job \in Jobs <=> thread \in Working

\* Until add_file() the job has its file and is not on the list, so that
\* nobody removes it; and but for the job in hand what is kept is listed.
JobIsUnlisted ==
  /\ thread \in {"read", "say_job", "add"} => job \in files /\ job \notin filenames
  /\ kept \subseteq filenames \cup (IF thread \in {"say_job", "add"} THEN {job} ELSE {})

\* The rows lag behind the list only while a callback will bring them up to it.
RowsFollowList ==
  thread # "save" /\ Pending("changed") = {} => rows = filenames

(***************************************************************************)
(* A thread that waits for its mailbox to be emptied will be woken: the    *)
(* callback that empties it and signals the condition is pending, also     *)
(* when the main loop runs it between the thread's test and its wait.      *)
(***************************************************************************)
SleeperIsWoken ==
  asleep =>
    \/ thread \in {"say_running", "say_job"} /\ Pending("stdout") # {}
    \/ thread = "offer" /\ Pending("fax") # {}

ServerInv ==
  /\ TypeOK
  /\ JobInHand
  /\ MailboxesMatchCallbacks
  /\ SocketFollowsServer
  /\ JobIsUnlisted
  /\ filenames \subseteq files
  /\ RowsFollowList
  /\ SleeperIsWoken

-----------------------------------------------------------------------------
(***************************************************************************)
(* The callbacks that are pending.                                         *)
(***************************************************************************)
LEMMA Posts ==
  ASSUME posted \in Seq(Notices), NEW n \in Notices, post(n)
  PROVE  /\ posted' \in Seq(Notices)
         /\ Pending(n)' = Pending(n) \cup {Len(posted) + 1}
         /\ \A m \in Notices \ {n} : Pending(m)' = Pending(m)
<1>1. /\ posted' = Append(posted, n) /\ posted' \in Seq(Notices)
      /\ Len(posted) \in Nat
      /\ Len(posted') = Len(posted) + 1
  BY DEF post
<1>2. /\ \A i \in 1..Len(posted) : posted'[i] = posted[i]
      /\ posted'[Len(posted) + 1] = n
  BY <1>1
<1> QED
  BY <1>1, <1>2 DEF Pending

LEMMA SamePending ==
  ASSUME posted' = posted, NEW n
  PROVE  Pending(n)' = Pending(n)
BY DEF Pending

\* The others stay pending, and the one taken was the only one if one was.
LEMMA Dispatches ==
  ASSUME posted \in Seq(Notices), NEW n \in Notices, dispatch(n)
  PROVE  /\ posted' \in Seq(Notices) /\ Pending(n) # {}
         /\ \A m \in Notices : \A i \in Pending(m)' : i + 1 \in Pending(m) /\ i \in Nat \ {0}
         /\ \A m \in Notices \ {n} : Pending(m)' = {} <=> Pending(m) = {}
         /\ (\A i, k \in Pending(n) : i = k) => Pending(n)' = {}
<1>1. /\ posted # <<>> /\ posted' = Tail(posted) /\ posted[1] = n
      /\ posted' \in Seq(Notices)
      /\ Len(posted) \in Nat \ {0}
      /\ Len(posted') = Len(posted) - 1
  BY DEF dispatch
<1>2. \A i \in 1..Len(posted') : posted'[i] = posted[i + 1]
  BY <1>1
<1>3. 1 \in Pending(n)
  BY <1>1 DEF Pending
<1>4. ASSUME NEW m, NEW i \in Pending(m)'
      PROVE  i + 1 \in Pending(m) /\ i \in Nat \ {0}
  BY <1>1, <1>2, <1>4 DEF Pending
<1>5. ASSUME NEW m \in Notices \ {n}, NEW i \in Pending(m)
      PROVE  i - 1 \in Pending(m)'
  BY <1>1, <1>2, <1>5 DEF Pending
<1>6. ASSUME \A i, k \in Pending(n) : i = k
      PROVE  Pending(n)' = {}
  BY <1>3, <1>4, <1>6
<1> QED
  BY <1>1, <1>3, <1>4, <1>5, <1>6

-----------------------------------------------------------------------------
(***************************************************************************)
(* Each step keeps the invariant.                                          *)
(***************************************************************************)
LEMMA InitInv == Init => ServerInv
<1> SUFFICES ASSUME Init PROVE ServerInv
  OBVIOUS
<1>1. \A n : Pending(n) = {}
  BY DEF Init, Pending
<1>2. TypeOK
  <2>1. config \in [on : BOOLEAN, port : Ports] /\ posted \in Seq(Notices)
    BY ConfigsAssumption DEF Init
  <2>2. snapshot \in [{"gui", "thread"} -> SUBSET Jobs]
    BY DEF Init
  <2> QED
    BY <2>1, <2>2 DEF Init, TypeOK, ThreadPlaces, GuiPlaces
<1> QED
  BY <1>1, <1>2, NoJobAssumption
     DEF Init, ServerInv, JobInHand, Working, MailboxesMatchCallbacks,
         SocketFollowsServer, JobIsUnlisted, RowsFollowList,
         SleeperIsWoken

LEMMA ThreadStepInv == ServerInv /\ ThreadStep => ServerInv'
<1> SUFFICES ASSUME ServerInv, ThreadStep PROVE ServerInv'
  OBVIOUS
<1>p. ASSUME NEW n \in {"error", "stdout", "changed", "fax"}, post(n)
      PROVE  /\ posted' \in Seq(Notices) /\ Pending(n)' = Pending(n) \cup {Len(posted) + 1}
             /\ \A m \in {"stdout", "changed", "fax"} \ {n} : Pending(m)' = Pending(m)
  BY <1>p, Posts DEF ServerInv, TypeOK, Notices
<1>s. posted' = posted => \A m \in {"stdout", "changed", "fax"} : Pending(m)' = Pending(m)
  BY SamePending
<1>a. AddFile => thread' = "save" \/ (thread' = "offer" /\ Pending("changed")' # {})
  <2>1. AddFile => thread' = "save" \/ (thread' = "offer" /\ post("changed"))
    BY DEF AddFile
  <2>2. post("changed") => Pending("changed")' # {}
    BY <1>p
  <2> QED
    BY <2>1, <2>2
<1>t. \/ MakeSocket \/ SayRunning \/ Cancelled \/ AcceptFails
      \/ SayJob \/ AddFile \/ FileAdded \/ Offer
  BY DEF ThreadStep
<1> USE NoJobAssumption
    DEF ServerInv, TypeOK, ThreadPlaces, JobInHand, Working,
        MailboxesMatchCallbacks, SocketFollowsServer, JobIsUnlisted, RowsFollowList,
         SleeperIsWoken
<1>1. CASE MakeSocket
  BY <1>1, <1>p, <1>s DEF MakeSocket
<1>2. ASSUME NEW next, ~asleep, write_stdout_from_thread(next)
      PROVE  /\ posted' \in Seq(Notices) /\ stdout_text' \in BOOLEAN /\ asleep' \in BOOLEAN
             /\ stdout_text' <=> Pending("stdout")' # {}
             /\ \A i, k \in Pending("stdout")' : i = k
             /\ \A m \in {"changed", "fax"} : Pending(m)' = Pending(m)
             /\ thread' \in {thread, next}
             /\ asleep' => thread' = thread /\ Pending("stdout")' # {}
  <2>1. CASE /\ stdout_text /\ asleep' = TRUE
             /\ UNCHANGED <<stdout_text, posted, thread>>
    BY <1>s, <2>1
  <2>2. CASE /\ ~stdout_text /\ stdout_text' = TRUE /\ post("stdout")
             /\ thread' = next /\ UNCHANGED asleep
    BY <1>2, <1>p, <2>2
  <2> QED
    BY <1>2, <2>1, <2>2 DEF write_stdout_from_thread
<1>3. CASE SayRunning
  BY <1>2, <1>3 DEF SayRunning
<1>4. CASE Cancelled
  BY <1>4, <1>s DEF Cancelled, may_cancel
<1>5. CASE AcceptFails
  BY <1>5, <1>p DEF AcceptFails
<1>6. CASE SayJob
  BY <1>2, <1>6 DEF SayJob
<1>7. CASE AddFile
  <2>1. posted' \in Seq(Notices) /\ \A m \in {"stdout", "fax"} : Pending(m)' = Pending(m)
    BY <1>7, <1>p, <1>s DEF AddFile
  <2>2. saved' \in SUBSET Jobs /\ snapshot' \in [{"gui", "thread"} -> SUBSET Jobs]
    BY <1>7 DEF AddFile, save_begin
  <2> QED
    BY <1>7, <1>a, <2>1, <2>2 DEF AddFile
<1>8. CASE FileAdded
  <2>1. posted' \in Seq(Notices) /\ \A m \in {"stdout", "fax"} : Pending(m)' = Pending(m)
    BY <1>8, <1>p DEF FileAdded
  <2>2. Pending("changed")' # {}
    BY <1>8, <1>p DEF FileAdded
  <2>3. saved' \in SUBSET Jobs /\ snapshot' \in [{"gui", "thread"} -> SUBSET Jobs]
    BY <1>8 DEF FileAdded, save_end
  <2> QED
    BY <1>8, <2>1, <2>2, <2>3 DEF FileAdded
<1>9. CASE Offer
  <2>1. CASE UNCHANGED <<fax_to_send, posted, thread, job>> /\ asleep' = TRUE
    <3>1. \A m \in {"stdout", "changed", "fax"} : Pending(m)' = Pending(m)
      BY <1>s, <2>1
    <3> QED
      BY <1>9, <2>1, <3>1 DEF Offer, fax_to_send_taken
  <2>2. CASE /\ fax_to_send_taken /\ post("fax") /\ fax_to_send' = job
             /\ thread' = "accept" /\ job' = NoJob /\ UNCHANGED asleep
    <3>1. /\ posted' \in Seq(Notices) /\ Pending("fax")' = Pending("fax") \cup {Len(posted) + 1}
          /\ \A m \in {"stdout", "changed"} : Pending(m)' = Pending(m)
      BY <1>p, <2>2
    <3>2. Pending("fax") = {} /\ job \in Jobs /\ thread = "offer"
      BY <1>9, <2>2 DEF Offer, fax_to_send_taken
    <3>3. UNCHANGED stdout_text /\ fax_to_send' # NoJob /\ Pending("fax")' # {}
          /\ \A i, k \in Pending("fax")' : i = k
      BY <1>9, <2>2, <3>1, <3>2 DEF Offer
    <3> QED
      BY <1>9, <2>2, <3>1, <3>2, <3>3 DEF Offer
  <2> QED
    BY <1>9, <2>1, <2>2 DEF Offer
<1> QED
  BY <1>1, <1>3, <1>4, <1>5, <1>6, <1>7, <1>8, <1>9, <1>t

LEMMA ClientStepInv == ServerInv /\ ClientStep => ServerInv'
<1> SUFFICES ASSUME ServerInv, ClientStep PROVE ServerInv'
  OBVIOUS
<1>p. ASSUME post("error")
      PROVE  /\ posted' \in Seq(Notices)
             /\ \A m \in {"stdout", "changed", "fax"} : Pending(m)' = Pending(m)
  BY <1>p, Posts DEF ServerInv, TypeOK, Notices
<1>s. posted' = posted => \A m \in {"stdout", "changed", "fax"} : Pending(m)' = Pending(m)
  BY SamePending
<1> USE NoJobAssumption
    DEF ServerInv, TypeOK, ThreadPlaces, JobInHand, Working,
        MailboxesMatchCallbacks, SocketFollowsServer, JobIsUnlisted, RowsFollowList,
         SleeperIsWoken
<1>1. CASE ReadEnds
  BY <1>1, <1>s DEF ReadEnds
<1>2. ASSUME NEW j \in Jobs, Accept(j) PROVE ServerInv'
  BY <1>2, <1>p, <1>s DEF Accept
<1> QED
  BY <1>1, <1>2 DEF ClientStep

LEMMA DispatchInv == ServerInv /\ Dispatch => ServerInv'
<1> SUFFICES ASSUME ServerInv, Dispatch PROVE ServerInv'
  OBVIOUS
<1>d. ASSUME NEW n \in {"error", "stdout", "changed", "fax"}, dispatch(n)
      PROVE  /\ posted' \in Seq(Notices) /\ Pending(n) # {}
             /\ \A m \in {"stdout", "changed", "fax"} \ {n} :
                  /\ Pending(m)' = {} <=> Pending(m) = {}
                  /\ (\A i, k \in Pending(m) : i = k) => \A i, k \in Pending(m)' : i = k
             /\ (\A i, k \in Pending(n) : i = k) => Pending(n)' = {}
  <2>1. posted \in Seq(Notices) /\ n \in Notices
    BY DEF ServerInv, TypeOK, Notices
  <2>2. ASSUME NEW m \in Notices, \A i, k \in Pending(m) : i = k,
               NEW i \in Pending(m)', NEW k \in Pending(m)'
        PROVE  i = k
    <3>1. i + 1 \in Pending(m) /\ k + 1 \in Pending(m) /\ i \in Nat /\ k \in Nat
      BY <1>d, <2>1, Dispatches
    <3> QED
      BY <2>2, <3>1
  <2> QED
    BY <1>d, <2>1, <2>2, Dispatches DEF Notices
<1> USE NoJobAssumption
    DEF ServerInv, TypeOK, ThreadPlaces, GuiPlaces, JobInHand, Working,
        MailboxesMatchCallbacks, SocketFollowsServer, JobIsUnlisted, RowsFollowList,
         SleeperIsWoken
<1>1. CASE socket_error_cb
  <2>1. /\ posted' \in Seq(Notices)
        /\ \A m \in {"stdout", "changed", "fax"} :
             /\ Pending(m)' = {} <=> Pending(m) = {}
             /\ (\A i, k \in Pending(m) : i = k) => \A i, k \in Pending(m)' : i = k
    BY <1>1, <1>d DEF socket_error_cb
  <2>2. gui' \in GuiPlaces /\ start_next' \in BOOLEAN /\ crashed' \in BOOLEAN
    BY <1>1 DEF socket_error_cb
  <2> QED
    BY <1>1, <2>1, <2>2 DEF socket_error_cb
<1>2. CASE write_stdout_dispatcher_cb
  <2>1. /\ posted' \in Seq(Notices) /\ Pending("stdout")' = {}
        /\ \A m \in {"changed", "fax"} :
             /\ Pending(m)' = {} <=> Pending(m) = {}
             /\ (\A i, k \in Pending(m) : i = k) => \A i, k \in Pending(m)' : i = k
    BY <1>2, <1>d DEF write_stdout_dispatcher_cb
  <2>2. asleep' \in BOOLEAN /\ stdout_text' \in BOOLEAN /\ ~stdout_text'
    BY <1>2 DEF write_stdout_dispatcher_cb
  <2>3. UNCHANGED <<config, serverVars, thread, job, fax_to_send, queueVars, saveVars, guiVars>>
    BY <1>2 DEF write_stdout_dispatcher_cb
  <2>4. TypeOK'
    BY <2>1, <2>2, <2>3
  <2>5. MailboxesMatchCallbacks'
    BY <2>1, <2>2, <2>3
  <2>6. (JobInHand /\ JobIsUnlisted /\ filenames \subseteq files)'
    BY <2>3
  <2>7. SleeperIsWoken'
    BY <1>2, <2>1, <2>3 DEF write_stdout_dispatcher_cb, woken_by_text
  <2> QED
    BY <2>1, <2>3, <2>4, <2>5, <2>6, <2>7
<1>3. CASE filelist_changed_cb
  BY <1>3, <1>d DEF filelist_changed_cb
<1>4. CASE fax_to_send_notify_cb
  <2>1. /\ posted' \in Seq(Notices) /\ Pending("fax") # {} /\ Pending("fax")' = {}
        /\ \A m \in {"stdout", "changed"} :
             /\ Pending(m)' = {} <=> Pending(m) = {}
             /\ (\A i, k \in Pending(m) : i = k) => \A i, k \in Pending(m)' : i = k
    BY <1>4, <1>d DEF fax_to_send_notify_cb
  <2>2. asleep' \in BOOLEAN /\ (asleep' => asleep /\ thread # "offer")
    BY <1>4 DEF fax_to_send_notify_cb, woken_by_fetch
  <2>3. heard' \in SUBSET Jobs /\ fax_to_send' = NoJob
    BY <1>4, <2>1 DEF fax_to_send_notify_cb
  <2>4. UNCHANGED <<config, serverVars, thread, job, stdout_text, queueVars, saveVars,
                    gui, start_next, rows, crashed>>
    BY <1>4 DEF fax_to_send_notify_cb
  <2> QED
    BY <2>1, <2>2, <2>3, <2>4
<1> QED
  BY <1>1, <1>2, <1>3, <1>4 DEF Dispatch

LEMMA GuiStepInv == ServerInv /\ GuiStep => ServerInv'
<1> SUFFICES ASSUME ServerInv, GuiStep PROVE ServerInv'
  OBVIOUS
<1>s. posted' = posted => \A m \in {"stdout", "changed", "fax"} : Pending(m)' = Pending(m)
  BY SamePending
<1>c. config.port \in Ports
  BY ConfigsAssumption DEF ServerInv, TypeOK
<1> USE NoJobAssumption
    DEF ServerInv, TypeOK, ThreadPlaces, GuiPlaces, JobInHand, Working,
        MailboxesMatchCallbacks, SocketFollowsServer, JobIsUnlisted, RowsFollowList,
         SleeperIsWoken
<1>1. CASE ThreadJoined
  BY <1>1, <1>c, <1>s DEF ThreadJoined, start, close_socket
<1>2. CASE FileRemoved
  <2>1. saved' \in SUBSET Jobs /\ snapshot' \in [{"gui", "thread"} -> SUBSET Jobs]
    BY <1>2 DEF FileRemoved, save_begin, save_end
  <2> QED
    BY <1>2, <1>s, <2>1 DEF FileRemoved
<1> QED
  BY <1>1, <1>2, DispatchInv DEF GuiStep

LEMMA UserStepInv == ServerInv /\ UserStep => ServerInv'
<1> SUFFICES ASSUME ServerInv, UserStep PROVE ServerInv'
  OBVIOUS
<1>p. ASSUME post("changed")
      PROVE  /\ posted' \in Seq(Notices) /\ Pending("changed")' # {}
             /\ \A m \in {"stdout", "fax"} : Pending(m)' = Pending(m)
  BY <1>p, Posts DEF ServerInv, TypeOK, Notices
<1>s. posted' = posted => \A m \in {"stdout", "changed", "fax"} : Pending(m)' = Pending(m)
  BY SamePending
<1> USE NoJobAssumption
    DEF ServerInv, TypeOK, ThreadPlaces, GuiPlaces, JobInHand, Working,
        MailboxesMatchCallbacks, SocketFollowsServer, JobIsUnlisted, RowsFollowList,
         SleeperIsWoken
<1>1. ASSUME NEW c \in Configs, SettingsChanged(c) PROVE ServerInv'
  <2>1. c.port \in Ports
    BY ConfigsAssumption
  <2> QED
    <3>1. /\ UNCHANGED posted /\ config' \in Configs /\ port' \in Ports \cup {NoPort}
          /\ UNCHANGED <<serve_sock, asleep, job, slotVars, queueVars, saveVars, rows, crashed, heard>>
      BY <1>1, <2>1 DEF SettingsChanged, start, stop
    <3>2. /\ cancelled' \in BOOLEAN /\ gui' \in GuiPlaces /\ start_next' \in BOOLEAN
          /\ server_running' \in BOOLEAN
      BY <1>1 DEF SettingsChanged, start, stop
    <3>3. \/ UNCHANGED <<server_running, thread>>
          \/ /\ ~server_running
             /\ \/ server_running' = TRUE /\ thread' = "make"
                \/ server_running' = FALSE /\ thread' = "none"
      BY <1>1 DEF SettingsChanged, start, stop
    <3> QED
      BY <1>s, <3>1, <3>2, <3>3
<1>2. ASSUME NEW f \in Jobs, RemoveFile(f) PROVE ServerInv'
  BY <1>2, <1>p DEF RemoveFile
<1>3. CASE Close
  <2>1. /\ cancelled' \in BOOLEAN /\ gui' \in GuiPlaces /\ start_next' \in BOOLEAN
    BY <1>3 DEF Close, stop
  <2> QED
    BY <1>3, <1>s, <2>1 DEF Close
<1> QED
  BY <1>1, <1>2, <1>3 DEF UserStep

LEMMA RestartInv == ServerInv /\ Restart => ServerInv'
<1> SUFFICES ASSUME ServerInv, Restart PROVE ServerInv'
  OBVIOUS
<1>1. posted' \in Seq(Notices) /\ \A m : Pending(m)' = {}
  BY DEF Restart, Pending
<1>2. config.port \in Ports /\ config' \in Configs
  BY ConfigsAssumption DEF ServerInv, TypeOK, Restart
<1>3. snapshot' \in [{"gui", "thread"} -> SUBSET Jobs]
  BY DEF Restart
<1> QED
  BY <1>1, <1>2, <1>3, NoJobAssumption
     DEF Restart, start, read_queued_faxes, ServerInv, TypeOK, ThreadPlaces, GuiPlaces,
         JobInHand, Working, MailboxesMatchCallbacks, SocketFollowsServer, JobIsUnlisted,
         RowsFollowList, SleeperIsWoken

LEMMA StutterInv == ServerInv /\ UNCHANGED vars => ServerInv'
<1> SUFFICES ASSUME ServerInv, UNCHANGED vars PROVE ServerInv'
  OBVIOUS
<1>1. \A m : Pending(m)' = Pending(m)
  BY SamePending DEF vars
<1> QED
  BY <1>1 DEF vars, ServerInv, TypeOK, JobInHand, MailboxesMatchCallbacks,
              SocketFollowsServer, JobIsUnlisted, RowsFollowList,
         SleeperIsWoken

(***************************************************************************)
(* Theorems.                                                               *)
(***************************************************************************)

\* The inductive invariant of the server holds in every state, over failures,
\* cancellations and kills.
THEOREM ServerCorrect == Spec => []ServerInv
<1>1. ServerInv /\ [Next]_vars => ServerInv'
  BY ThreadStepInv, ClientStepInv, GuiStepInv, UserStepInv, RestartInv, StutterInv DEF Next
<1> QED
  BY <1>1, InitInv, PTL DEF Spec

\* read_socket() and write_stdout_from_thread(): no entry of a mailbox is overwritten,
\* and no callback finds its mailbox empty.
THEOREM MailboxesCorrect == Spec => []MailboxesMatchCallbacks
BY ServerCorrect, PTL DEF ServerInv

\* The waits on stdout_cond and fax_to_send_cond lose no wake-up.
THEOREM NoLostWakeup == Spec => []SleeperIsWoken
BY ServerCorrect, PTL DEF ServerInv

\* start(), stop() and cleanup() leak neither a thread nor a socket.
THEOREM SocketCorrect == Spec => []SocketFollowsServer
BY ServerCorrect, PTL DEF ServerInv

\* A job received whole is listed or in hand until it is removed, and what is listed
\* has its file.
THEOREM JobsCorrect == Spec => []NoJobLost
<1>1. ServerInv => NoJobLost
  BY DEF ServerInv, JobIsUnlisted, NoJobLost
<1> QED
  BY <1>1, ServerCorrect, PTL

\* filelist_changed_notify is emitted after every change of the list.
THEOREM RowsCorrect == Spec => []QueueIsShown
<1>1. ServerInv => QueueIsShown
  BY DEF ServerInv, RowsFollowList, QueueIsShown
<1> QED
  BY <1>1, ServerCorrect, PTL
=============================================================================
