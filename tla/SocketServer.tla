---------------------------- MODULE SocketServer ----------------------------
(***************************************************************************)
(* The socket server of efax-gtk (efax-gtk-3.2.13/src/socket_server.cpp),  *)
(* which takes print jobs from the print system, with the handlers of      *)
(* MainWindow that start and stop it and take the jobs from it.  The GUI   *)
(* thread and the socket thread share two mailboxes of one place each      *)
(* (stdout_text and fax_to_send), the list of queued jobs and its file,    *)
(* and the process may end at any time and be started again.               *)
(*                                                                         *)
(* A handler of the GUI thread is one step, except where it blocks (in     *)
(* cleanup(), joining the thread) and where it works on the queue with no  *)
(* lock (in remove_file()).                                                *)
(***************************************************************************)
EXTENDS Integers, Sequences

CONSTANTS
  Jobs,       \* print jobs, each the temporary file that holds it
  NoJob,      \* no job: fax_to_send.second = 0
  Ports,      \* port, client address and IP family, taken together
  NoPort,     \* the port of a server that was never started
  Configs,    \* what the user may choose in the settings dialog
  Faults,     \* what the system may refuse: see AllFaults
  Kills,      \* whether the process may be killed at any time
  MaxPosted   \* bound: no settings changed with so many callbacks posted

AllFaults == {"thread", "socket", "accept", "tempfile", "read", "save"}

ASSUME NoJobAssumption == NoJob \notin Jobs
ASSUME NoPortAssumption == NoPort \notin Ports
ASSUME ConfigsAssumption == Configs \subseteq [on : BOOLEAN, port : Ports]
ASSUME SocketFaultsAssumption == Faults \subseteq AllFaults
ASSUME KillsAssumption == Kills \in BOOLEAN
ASSUME MaxPostedAssumption == MaxPosted \in Nat

VARIABLES
  config,         \* prog_config.sock_server and the address in prog_config
  port,           \* SocketServer::port, other_sock_client_address, ipv6
  server_running, \* SocketServer::server_running
  serve_sock,     \* the socket that serve_sock_fd stands for
  thread,         \* where the socket thread is; "none" if thread is null
  asleep,         \* the socket thread waits on a condition variable
  cancelled,      \* thread->cancel() was called
  job,            \* the print job the socket thread has in hand
  stdout_text,    \* stdout_text is not empty
  fax_to_send,    \* SocketServer::fax_to_send
  posted,         \* callbacks that the Notifier objects have pending
  gui,            \* where the GUI thread is
  start_next,     \* it will call start() after cleanup()
  filenames,      \* filenames_s: the queue of print jobs
  files,          \* temporary files on disk
  saved,          \* what .efax-gtk_queued_server_files lists
  snapshot,       \* what each save_queued_faxes() under way will write
  rows,           \* the queue as the windows show it
  crashed,        \* undefined behaviour: a member call on a null pointer
  heard,          \* history: jobs the user was told of
  kept            \* history: jobs received and not removed by anybody

serverVars == <<port, server_running, serve_sock, cancelled>>
threadVars == <<thread, asleep, job>>
slotVars == <<stdout_text, fax_to_send>>
queueVars == <<filenames, files, kept>>
saveVars == <<saved, snapshot>>
guiVars == <<gui, start_next, rows, crashed, heard>>
vars == <<config, serverVars, threadVars, slotVars, posted, queueVars,
          saveVars, guiVars>>

ThreadPlaces == {"none", "make", "say_running", "accept", "read", "say_job",
                 "add", "save", "offer", "ended"}
GuiPlaces == {"idle", "join", "unlinked", "save"}
Notices == {"error", "stdout", "changed", "fax"}

Init ==
  /\ config \in Configs
  /\ port = IF config.on THEN config.port ELSE NoPort
  /\ server_running = config.on
  /\ serve_sock = "closed"
  /\ thread = IF config.on THEN "make" ELSE "none"
  /\ asleep = FALSE
  /\ cancelled = FALSE
  /\ job = NoJob
  /\ stdout_text = FALSE
  /\ fax_to_send = NoJob
  /\ posted = <<>>
  /\ gui = "idle"
  /\ start_next = FALSE
  /\ filenames = {}
  /\ files = {}
  /\ saved = {}
  /\ snapshot = [by \in {"gui", "thread"} |-> {}]
  /\ rows = {}
  /\ crashed = FALSE
  /\ heard = {}
  /\ kept = {}

-----------------------------------------------------------------------------
(***************************************************************************)
(* The member functions the steps are made of.  As in EfaxController, a    *)
(* name with "_with_..." or "_without_..." is a version with a bug.        *)
(***************************************************************************)

post(n) == posted' = Append(posted, n)

GuiIdle == gui = "idle" /\ ~crashed

\* start(), called when the server is not running.
start(p) ==
  /\ port' = p
  /\ \/ server_running' = TRUE /\ thread' = "make"
     \/ "thread" \in Faults /\ server_running' = FALSE /\ thread' = "none"

\* stop(), called when it is.
stop(again) ==
  /\ cancelled' = TRUE
  /\ gui' = "join"
  /\ start_next' = again

\* The socket is left open.
close_socket_without_close == serve_sock

\* What cleanup() leaves of the socket.
close_socket == "closed"

\* write_stdout_from_thread(): wait until the last text has been shown.
write_stdout_from_thread(next) ==
  \/ /\ stdout_text
     /\ asleep' = TRUE
     /\ UNCHANGED <<stdout_text, posted, thread>>
  \/ /\ ~stdout_text
     /\ stdout_text' = TRUE
     /\ post("stdout")
     /\ thread' = next
     /\ UNCHANGED asleep

\* save_queued_faxes() opens the file, which empties it, and reads the list.
save_begin(by, list) ==
  /\ saved' = {}
  /\ snapshot' = [snapshot EXCEPT ![by] = list]

\* It writes the list as it was, or with what the other thread appended to it
\* since, and closes; what another saver wrote meanwhile may stay in part.
save_end(by) ==
  /\ \E list \in {snapshot[by], filenames} : saved' \in {list, list \cup saved}
  /\ snapshot' = [snapshot EXCEPT ![by] = {}]

\* read_queued_faxes(): jobs whose file has gone are passed over.
read_queued_faxes == saved \cap files

-----------------------------------------------------------------------------
(***************************************************************************)
(* The socket thread.  It can be cancelled only where it waits in          *)
(* accept(): a CancelBlock covers all the rest.                            *)
(***************************************************************************)

\* make_ipv4_socket() or make_ipv6_socket().
MakeSocket ==
  /\ thread = "make"
  /\ \/ serve_sock' = "listening" /\ thread' = "say_running" /\ UNCHANGED posted
     \/ /\ "socket" \in Faults
        /\ serve_sock' \in {"closed", "open"}
        /\ post("error")
        /\ thread' = "accept"
  /\ UNCHANGED <<config, port, server_running, cancelled, asleep, job, slotVars,
                 queueVars, saveVars, guiVars>>

\* "Socket running on port ..."
SayRunning ==
  /\ thread = "say_running" /\ ~asleep
  /\ write_stdout_from_thread("accept")
  /\ UNCHANGED <<config, serverVars, job, fax_to_send, queueVars, saveVars, guiVars>>

\* Cancellation acts wherever the thread is.
may_cancel_without_block == thread \notin {"none", "ended"} /\ ~asleep

\* Only accept() and the calls of pthread_testcancel() around it.
may_cancel == thread = "accept"

\* The thread ends because of thread->cancel().
Cancelled ==
  /\ cancelled
  /\ may_cancel
  /\ thread' = "ended"
  /\ job' = NoJob
  /\ UNCHANGED <<config, serverVars, asleep, slotVars, posted, queueVars,
                 saveVars, guiVars>>

\* accept_on_client(): a client that may send faxes has connected.
Accept(j) ==
  /\ thread = "accept" /\ ~cancelled
  /\ serve_sock = "listening"
  /\ j \notin files
  /\ \/ /\ files' = files \cup {j}
        /\ job' = j
        /\ thread' = "read"
        /\ UNCHANGED posted
     \/ /\ "tempfile" \in Faults
        /\ post("error")
        /\ thread' = "ended"
        /\ UNCHANGED <<files, job>>
  /\ UNCHANGED <<config, serverVars, asleep, slotVars, filenames, kept, saveVars,
                 guiVars>>

\* accept() fails, as it always does on a socket that does not listen.
AcceptFails ==
  /\ thread = "accept" /\ ~cancelled
  /\ serve_sock # "listening" \/ "accept" \in Faults
  /\ post("error")
  /\ thread' = "ended"
  /\ UNCHANGED <<config, serverVars, asleep, job, slotVars, queueVars, saveVars,
                 guiVars>>

\* read_socket(): the client has sent all and closes, or reading fails.
ReadEnds ==
  /\ thread = "read"
  /\ \/ thread' = "say_job" /\ kept' = kept \cup {job} /\ UNCHANGED job
     \/ /\ "read" \in Faults
        /\ thread' = "accept" /\ job' = NoJob
        /\ UNCHANGED kept
  /\ UNCHANGED <<config, serverVars, asleep, slotVars, posted, filenames, files,
                 saveVars, guiVars>>

\* "Print job received on socket"
SayJob ==
  /\ thread = "say_job" /\ ~asleep
  /\ write_stdout_from_thread("add")
  /\ UNCHANGED <<config, serverVars, job, fax_to_send, queueVars, saveVars, guiVars>>

\* add_file() locks filenames_mutex, appends the job and starts to save.
AddFile ==
  /\ thread = "add"
  /\ filenames' = filenames \cup {job}
  /\ \/ /\ save_begin("thread", filenames')
        /\ thread' = "save"
        /\ UNCHANGED posted
     \/ /\ "save" \in Faults
        /\ post("changed")
        /\ thread' = "offer"
        /\ UNCHANGED saveVars
  /\ UNCHANGED <<config, serverVars, asleep, job, slotVars, files, kept, guiVars>>

\* The list is saved, the mutex released and filelist_changed_notify emitted.
FileAdded ==
  /\ thread = "save"
  /\ save_end("thread")
  /\ post("changed")
  /\ thread' = "offer"
  /\ UNCHANGED <<config, serverVars, asleep, job, slotVars, queueVars, guiVars>>

\* The wait for the last job to be fetched is left out.
fax_to_send_taken_without_wait == TRUE

fax_to_send_taken == fax_to_send = NoJob

\* The end of read_socket(): the job is left in fax_to_send.
Offer ==
  /\ thread = "offer" /\ ~asleep
  /\ \/ /\ ~fax_to_send_taken
        /\ asleep' = TRUE
        /\ UNCHANGED <<fax_to_send, posted, thread, job>>
     \/ /\ fax_to_send_taken
        /\ fax_to_send' = job
        /\ post("fax")
        /\ thread' = "accept"
        /\ job' = NoJob
        /\ UNCHANGED asleep
  /\ UNCHANGED <<config, serverVars, stdout_text, queueVars, saveVars, guiVars>>

-----------------------------------------------------------------------------
(***************************************************************************)
(* The GUI thread.                                                         *)
(***************************************************************************)

\* MainWindow::settings_changed_cb(), the settings being as in c.
SettingsChanged(c) ==
  /\ GuiIdle
  /\ Len(posted) < MaxPosted
  /\ config' = c
  /\ \/ /\ ~c.on /\ server_running
        /\ stop(FALSE)
        /\ UNCHANGED <<port, server_running, thread>>
     \/ /\ c.on /\ ~server_running
        /\ start(c.port)
        /\ UNCHANGED <<cancelled, gui, start_next>>
     \/ /\ c.on = server_running /\ c.port # port
        /\ IF server_running
           THEN stop(TRUE) /\ UNCHANGED <<port, server_running, thread>>
           ELSE start(c.port) /\ UNCHANGED <<cancelled, gui, start_next>>
     \/ /\ c.on = server_running /\ c.port = port
        /\ UNCHANGED <<cancelled, gui, start_next, port, server_running, thread>>
  /\ UNCHANGED <<serve_sock, asleep, job, slotVars, posted, queueVars, saveVars,
                 rows, crashed, heard>>

\* MainWindow::close_impl(): the server is stopped, if there is one.
Close ==
  /\ GuiIdle
  /\ server_running
  /\ stop(FALSE)
  /\ UNCHANGED <<config, port, server_running, serve_sock, threadVars, slotVars,
                 posted, queueVars, saveVars, rows, crashed, heard>>

\* cleanup() once thread->join() has returned, and start() if it follows.
ThreadJoined ==
  /\ gui = "join"
  /\ thread = "ended"
  /\ serve_sock' = close_socket
  /\ cancelled' = FALSE
  /\ gui' = "idle"
  /\ start_next' = FALSE
  /\ \/ start_next /\ start(config.port)
     \/ ~start_next /\ server_running' = FALSE /\ thread' = "none" /\ UNCHANGED port
  /\ UNCHANGED <<config, asleep, job, slotVars, posted, queueVars, saveVars, rows,
                 crashed, heard>>

\* The next callback is taken off the Notifier pipe.
dispatch(n) ==
  /\ GuiIdle
  /\ posted # <<>> /\ Head(posted) = n
  /\ posted' = Tail(posted)

\* socket_error_notify calls cleanup(), which needs a thread to join.
socket_error_cb ==
  /\ dispatch("error")
  /\ IF thread = "none"
     THEN crashed' = TRUE /\ UNCHANGED <<gui, start_next>>
     ELSE gui' = "join" /\ start_next' = FALSE /\ UNCHANGED crashed
  /\ UNCHANGED <<config, serverVars, threadVars, slotVars, queueVars, saveVars,
                 rows, heard>>

\* stdout_cond.signal() wakes the thread if it waits on it.
woken_by_text == thread \in {"say_running", "say_job"}

\* write_stdout_dispatcher_cb(): show the text and signal stdout_cond.
write_stdout_dispatcher_cb ==
  /\ dispatch("stdout")
  /\ stdout_text' = FALSE
  /\ asleep' = (asleep /\ ~woken_by_text)
  /\ UNCHANGED <<config, serverVars, thread, job, fax_to_send, queueVars, saveVars,
                 guiVars>>

\* socket_filelist_changed_notify_cb(), under filenames_mutex.
filelist_changed_cb ==
  /\ dispatch("changed")
  /\ thread # "save"
  /\ rows' = filenames
  /\ UNCHANGED <<config, serverVars, threadVars, slotVars, queueVars, saveVars,
                 gui, start_next, crashed, heard>>

\* The condition variable is not signalled.
woken_by_fetch_without_signal == FALSE

\* fax_to_send_cond.signal() wakes the thread if it waits on it.
woken_by_fetch == thread = "offer"

\* fax_to_send_notify_cb(): get_fax_to_send(), and the user is told.
fax_to_send_notify_cb ==
  /\ dispatch("fax")
  /\ fax_to_send' = NoJob
  /\ heard' = heard \cup {fax_to_send}
  /\ asleep' = (asleep /\ ~woken_by_fetch)
  /\ UNCHANGED <<config, serverVars, thread, job, stdout_text, queueVars, saveVars,
                 gui, start_next, rows, crashed>>

\* filelist_changed_notify is not emitted.
RemoveFile_without_notify(f) ==
  /\ GuiIdle
  /\ thread # "save"
  /\ f \in filenames
  /\ filenames' = filenames \ {f}
  /\ files' = files \ {f}
  /\ kept' = kept \ {f}
  /\ gui' = "unlinked"
  /\ UNCHANGED <<config, serverVars, threadVars, slotVars, posted, saveVars,
                 start_next, rows, crashed, heard>>

(***************************************************************************)
(* remove_file(), for a fax that was sent or that the user deletes: it is  *)
(* taken off the list under the mutex, and unlinked; then the list is      *)
(* saved with no lock.                                                     *)
(***************************************************************************)
RemoveFile(f) ==
  /\ GuiIdle
  /\ thread # "save"
  /\ f \in filenames
  /\ filenames' = filenames \ {f}
  /\ files' = files \ {f}
  /\ kept' = kept \ {f}
  /\ post("changed")
  /\ gui' = "unlinked"
  /\ UNCHANGED <<config, serverVars, threadVars, slotVars, saveVars, start_next, rows,
                 crashed, heard>>

FileRemoved ==
  /\ \/ /\ gui = "unlinked"
        /\ save_begin("gui", filenames)
        /\ gui' = "save"
     \/ /\ gui = "unlinked" /\ "save" \in Faults
        /\ gui' = "idle"
        /\ UNCHANGED saveVars
     \/ /\ gui = "save"
        /\ save_end("gui")
        /\ gui' = "idle"
  /\ UNCHANGED <<config, serverVars, threadVars, slotVars, posted, queueVars,
                 start_next, rows, crashed, heard>>

(***************************************************************************)
(* The process ends (killed, crashed, or having quit) and is started       *)
(* again: SocketServer::SocketServer() and the start() of MainWindow.      *)
(***************************************************************************)
Restart ==
  /\ Kills \/ crashed \/ (gui = "idle" /\ thread = "none")
  /\ filenames' = read_queued_faxes
  /\ rows' = filenames'
  /\ kept' = filenames'
  /\ IF config.on THEN start(config.port)
     ELSE port' = NoPort /\ server_running' = FALSE /\ thread' = "none"
  /\ serve_sock' = "closed"
  /\ asleep' = FALSE
  /\ cancelled' = FALSE
  /\ job' = NoJob
  /\ stdout_text' = FALSE
  /\ fax_to_send' = NoJob
  /\ posted' = <<>>
  /\ gui' = "idle"
  /\ start_next' = FALSE
  /\ snapshot' = [by \in {"gui", "thread"} |-> {}]
  /\ crashed' = FALSE
  /\ heard' = {}
  /\ UNCHANGED <<config, files, saved>>

-----------------------------------------------------------------------------
ThreadStep ==
  /\ ~crashed
  /\ \/ MakeSocket \/ SayRunning \/ Cancelled \/ AcceptFails
     \/ SayJob \/ AddFile \/ FileAdded \/ Offer

ClientStep == ~crashed /\ (ReadEnds \/ \E j \in Jobs : Accept(j))

Dispatch ==
  \/ socket_error_cb \/ write_stdout_dispatcher_cb
  \/ filelist_changed_cb \/ fax_to_send_notify_cb

GuiStep == ThreadJoined \/ FileRemoved \/ Dispatch

UserStep ==
  \/ \E c \in Configs : SettingsChanged(c)
  \/ \E f \in Jobs : RemoveFile(f)
  \/ Close

Next == ThreadStep \/ ClientStep \/ GuiStep \/ UserStep \/ Restart

Spec == Init /\ [][Next]_vars

(***************************************************************************)
(* The socket thread is scheduled, a client that connected ends, and the   *)
(* main loop dispatches what was posted.  Nothing is assumed of the user,  *)
(* of new clients or of restarts.                                          *)
(***************************************************************************)
Fairness ==
  /\ WF_vars(ThreadStep)
  /\ WF_vars(~crashed /\ ReadEnds)
  /\ WF_vars(ThreadJoined \/ FileRemoved)
  /\ SF_vars(Dispatch)

FairSpec == Spec /\ Fairness

-----------------------------------------------------------------------------
(***************************************************************************)
(* Properties.                                                             *)
(***************************************************************************)

\* Type invariant of the server, its thread, mailboxes and queue.
TypeOK ==
  /\ config \in Configs
  /\ port \in Ports \cup {NoPort}
  /\ server_running \in BOOLEAN
  /\ serve_sock \in {"closed", "open", "listening"}
  /\ thread \in ThreadPlaces
  /\ asleep \in BOOLEAN
  /\ cancelled \in BOOLEAN
  /\ job \in Jobs \cup {NoJob}
  /\ stdout_text \in BOOLEAN
  /\ fax_to_send \in Jobs \cup {NoJob}
  /\ posted \in Seq(Notices)
  /\ gui \in GuiPlaces
  /\ start_next \in BOOLEAN
  /\ filenames \in SUBSET Jobs
  /\ files \in SUBSET Jobs
  /\ saved \in SUBSET Jobs
  /\ snapshot \in [{"gui", "thread"} -> SUBSET Jobs]
  /\ rows \in SUBSET Jobs
  /\ crashed \in BOOLEAN
  /\ heard \in SUBSET Jobs
  /\ kept \in SUBSET Jobs

Pending(n) == {i \in 1..Len(posted) : posted[i] = n}

(***************************************************************************)
(* A mailbox is full exactly while one callback that empties it is pending *)
(* (read_socket() and write_stdout_from_thread() use "a Thread::Cond       *)
(* object to avoid overwriting an earlier" entry): no job or message is    *)
(* overwritten and no callback finds its mailbox empty, also across        *)
(* cancellations, errors and restarts of the server.                       *)
(***************************************************************************)
MailboxesMatchCallbacks ==
  /\ fax_to_send # NoJob <=> Pending("fax") # {}
  /\ stdout_text <=> Pending("stdout") # {}
  /\ \A n \in {"fax", "stdout"} : \A i, k \in Pending(n) : i = k

(***************************************************************************)
(* However starts, stops, failures of the socket and of the thread follow  *)
(* each other, a server that is not running has no thread and no open      *)
(* socket, and one that is running has its thread: start() never leaks     *)
(* either of them.                                                         *)
(***************************************************************************)
SocketFollowsServer ==
  /\ TypeOK
  /\ server_running <=> thread # "none"
  /\ serve_sock # "closed" => server_running

(***************************************************************************)
(* A print job that was received whole is on the list or on its way there, *)
(* until it is sent or removed: stop() cancels the thread between two jobs *)
(* and never under one.  And every job on the list has its file, over      *)
(* kills between unlink() and the saving of the list too.                  *)
(***************************************************************************)
NoJobLost ==
  /\ kept \subseteq filenames \cup {job}
  /\ filenames \subseteq files

(***************************************************************************)
(* With no callback pending and nobody at work on the queue, the dialog of *)
(* queued faxes and the red circle show the queue as it is.                *)
(***************************************************************************)
QueueIsShown ==
  /\ gui = "idle" /\ ~crashed
  /\ thread # "save"
  /\ Pending("changed") = {}
  => rows = filenames

(***************************************************************************)
(* A job that was received is announced (README, Sending faxes: "When a    *)
(* fax is received from the print system via the socket server", a dialog  *)
(* may come up) unless the server is stopped before; and the thread does   *)
(* not wait for ever for a text of its own to be shown.                    *)
(***************************************************************************)
EveryJobIsOffered ==
  /\ \A j \in Jobs : job = j /\ thread = "offer" ~> j \in heard \/ cancelled
  /\ asleep ~> ~asleep \/ cancelled

-----------------------------------------------------------------------------
(***************************************************************************)
(* What comments and documents say of the code and the code does not do.   *)
(***************************************************************************)

(***************************************************************************)
(* mainwindow.cpp:1000-1005: close_impl() closes down the server and then  *)
(* efax_closedown(), which "will end the main program loop once any efax   *)
(* session running has been dealt with": stop() comes back.                *)
(***************************************************************************)
StopReturns == gui = "join" ~> gui # "join"
=============================================================================
