--------------------------- MODULE EfaxController ---------------------------
(***************************************************************************)
(* The send/receive controller of efax-gtk                                 *)
(* (efax-gtk-3.2.13/src/efax_controller.cpp) with the parts of MainWindow, *)
(* RedialQueue and FaxListManager that drive it.  Four kinds of actor      *)
(* interleave: the GUI thread, which runs one handler at a time (button    *)
(* presses, timers, callbacks posted to it); the worker threads            *)
(* sendfax_thread() and receive_thread(); the efax child processes; and    *)
(* whoever sends signals to the program.                                   *)
(*                                                                         *)
(* A handler is one step, except that kill_child() holds the GUI thread    *)
(* for a second between SIGTERM and SIGKILL while the others go on.        *)
(***************************************************************************)
EXTENDS Integers, Sequences, FiniteSets

CONSTANTS
  Faxes,        \* requests to send: one Fax_item per press of Send
  SocketFaxes,  \* the requests whose file came from the socket server
  Workers,      \* worker threads that may exist at once
  Pids,         \* process ids the system hands out
  NoFax, NoPid, \* no item yet; efax_controller_child_pid = 0
  Faults,       \* what the environment may refuse: see AllFaults
  FaxLists      \* whether the user opens the fax list dialogs

AllFaults == {"thread", "fork", "exec", "mkdir", "save"}

ASSUME SocketFaxesAssumption == SocketFaxes \subseteq Faxes
ASSUME NoFaxAssumption == NoFax \notin Faxes
ASSUME NoPidAssumption == NoPid \notin Pids
ASSUME FaultsAssumption == Faults \subseteq AllFaults
ASSUME FaxListsAssumption == FaxLists \in BOOLEAN

VARIABLES
  state,              \* EfaxController::state
  shown,              \* the state last passed to display_state()
  close_down,         \* EfaxController::close_down
  last_fax_item_sent, \* EfaxController::last_fax_item_sent
  child_pid,          \* prog_config.efax_controller_child_pid
  stdout_pipe,        \* stdout_pipe is open
  iowatch,            \* iowatch_tag is a live watch
  redial_queue,       \* timers waiting in redial_queue, by fax
  redial,             \* prog_config.redial
  settings_open,      \* SettingsDialog::is_dialog()
  list_iteration,     \* is_fax_received/sent_list_main_iteration()
  killing,            \* the pid kill_child() is waiting a second for
  main_loop,          \* the glib main loop: running, quit, or exit()ed
  posted,             \* callbacks posted by the workers
  sig_pipe,           \* a byte waits in MainWindow's sig_pipe
  worker,             \* the worker threads, each with its efax process
  current,            \* contents of faxin/current
  tiff,               \* faxes with ghostscript output beside their file
  filenames,          \* SocketServer's list of queued print jobs
  outcome,            \* history: what became of each request
  asked               \* somebody asked the program to close

sessionVars == <<state, shown, last_fax_item_sent, stdout_pipe>>
threadVars == <<child_pid, iowatch, posted>>
processVars == <<killing, worker, sig_pipe>>
queueVars == <<redial_queue, outcome>>
configVars == <<redial, settings_open>>
loopVars == <<list_iteration, main_loop>>
closeVars == <<close_down, asked>>
fileVars == <<current, tiff, filenames>>
vars == <<sessionVars, threadVars, processVars, queueVars, configVars,
          loopVars, closeVars, fileVars>>

ReceiveModes == {"receive_answer", "receive_takeover", "receive_standby"}
SendStates == {"sending", "start_send_on_standby", "send_on_standby"}
States == {"inactive"} \cup ReceiveModes \cup SendStates

(***************************************************************************)
(* efax ends with 0 on success, 1 when busy, 3 on a modem error and 5 on a *)
(* signal (standing here for every other code); the worker makes it -1     *)
(* when the process was killed.                                            *)
(***************************************************************************)
Killed == -1
ExitCodes == {0, 1, 3, 5}

WorkerPCs == {"none", "convert", "fork", "publish", "join", "wait", "post"}
ProcStates == {"none", "held", "running", "termed", "zombie", "reaped"}

NoWorker == [pc |-> "none", kind |-> "none", pid |-> NoPid,
             proc |-> "none", code |-> 0]

\* A page of a fax being received is there or not, and has data or not.
DirStates == {"absent", "empty", "zero", "page"}

Outcomes == {"new", "pending", "sent", "failed", "not_made", "refused",
             "removed", "cancelled", "no_thread", "closed"}

Callbacks == [cb : {"child_ended"}, code : ExitCodes \cup {Killed}]
               \cup [cb : {"no_fax_made"}, code : {0}]

Init ==
  /\ state = "inactive"
  /\ shown = "inactive"
  /\ close_down = FALSE
  /\ last_fax_item_sent = NoFax
  /\ child_pid = NoPid
  /\ stdout_pipe = FALSE
  /\ iowatch = FALSE
  /\ redial_queue = [f \in Faxes |-> 0]
  /\ redial \in BOOLEAN
  /\ settings_open = FALSE
  /\ list_iteration = FALSE
  /\ killing = NoPid
  /\ main_loop = "running"
  /\ posted = <<>>
  /\ sig_pipe = FALSE
  /\ worker = [w \in Workers |-> NoWorker]
  /\ current = "absent"
  /\ tiff = {}
  /\ filenames = SocketFaxes
  /\ outcome = [f \in Faxes |-> "new"]
  /\ asked = FALSE

-----------------------------------------------------------------------------
(***************************************************************************)
(* The pieces the handlers are made of.  An operator with primed variables *)
(* is the part of a handler that a member function of the same name does.  *)
(***************************************************************************)

(***************************************************************************)
(* A definition whose name ends in "_with_..." or "_without_..." is not    *)
(* used by the specification: it is the definition after it with a bug of  *)
(* a kind that could be made in that code.  README.md says which property  *)
(* tells each of them from the real one.                                   *)
(***************************************************************************)

\* kill_child() waits for its second in the main loop, not in g_usleep().
GuiReady_with_timer == main_loop = "running"

\* The GUI thread can run a handler.
GuiReady == main_loop = "running" /\ killing = NoPid

Alive(w) == worker[w].proc \in {"held", "running", "termed", "zombie"}

is_receiving_fax == current \in {"zero", "page"}

start_redial_timeout(f, queue) == [queue EXCEPT ![f] = @ + 1]

\* The timer is left to run again.
RedialQueue_remove_without_source(f, queue) == queue

\* RedialQueue::remove(): the timer is removed with its entry.
RedialQueue_remove(f, queue) == [queue EXCEPT ![f] = @ - 1]

\* What is left of faxin/current: an unsaved fax stays where it is.
receive_cleanup ==
  IF current = "page"
  THEN {"absent"} \cup (IF "save" \in Faults THEN {"page"} ELSE {})
  ELSE {"absent"}

\* The ghostscript output left once the sent fax has been copied away.
save_sent_fax(f) ==
  {tiff \ {f}} \cup (IF "save" \in Faults THEN {tiff} ELSE {})

\* The pages are left beside the file.
cleanup_fax_send_fail_without_unlink(f) == tiff

cleanup_fax_send_fail(f) == tiff \ {f}

(***************************************************************************)
(* SIGTERM to the child whose pid is recorded, if it is still ours.  A     *)
(* child that has not reached execvp() still has the program's own handler *)
(* and write end of sig_pipe; efax itself starts to shut down.  sp is      *)
(* sig_pipe as the handler calling this leaves it.                         *)
(***************************************************************************)
kill_child(sp) ==
  LET targets == {w \in Workers : worker[w].pid = child_pid /\ Alive(w)}
  IN  IF child_pid = NoPid \/ targets = {}
      THEN sig_pipe' = sp /\ UNCHANGED <<killing, worker>>
      ELSE /\ killing' = child_pid
           /\ worker' = [w \in Workers |->
                IF w \in targets /\ worker[w].proc = "running"
                THEN [worker[w] EXCEPT !.proc = "termed"] ELSE worker[w]]
           /\ sig_pipe' = (sp \/ \E w \in targets : worker[w].proc = "held")

\* Start a worker thread for the new state s, or fail to.
start_thread(kind, s, firstPC) ==
  \/ \E w \in Workers :
       /\ worker[w].pc = "none"
       /\ worker' = [worker EXCEPT
            ![w] = [NoWorker EXCEPT !.pc = firstPC, !.kind = kind]]
       /\ stdout_pipe' = TRUE
       /\ state' = s
       /\ shown' = s
  \/ /\ "thread" \in Faults
     /\ worker' = worker
     /\ stdout_pipe' = FALSE
     /\ state' = "inactive"
     /\ shown' = "inactive"

\* A directory that is already there is taken for a new one.
receive_body_with_old_dir(mode, dir) ==
  /\ current' = IF dir = "absent" THEN "empty" ELSE dir
  /\ start_thread("receive", mode, "fork")

\* receive() past its check of state, with faxin/current as in dir.
receive_body(mode, dir) ==
  \/ /\ dir # "absent" \/ "mkdir" \in Faults
     /\ state' = "inactive"
     /\ current' = dir
     /\ stdout_pipe' = FALSE
     /\ UNCHANGED <<shown, worker>>
  \/ /\ dir = "absent"
     /\ current' = "empty"
     /\ start_thread("receive", mode, "fork")

\* The session being over, standby is not resumed.
finish_send_without_standby(to_standby) ==
  /\ state' = "inactive"
  /\ shown' = "inactive"
  /\ stdout_pipe' = FALSE
  /\ UNCHANGED <<current, worker>>

\* The display is left to receive(), which is not called.
finish_send_without_display(to_standby) ==
  IF to_standby
  THEN receive_body("receive_standby", current)
  ELSE /\ state' = "inactive"
       /\ stdout_pipe' = FALSE
       /\ UNCHANGED <<shown, current, worker>>

\* The end of a send session: back to standby, or to inactive.
finish_send(to_standby) ==
  IF to_standby
  THEN receive_body("receive_standby", current)
  ELSE /\ state' = "inactive"
       /\ shown' = "inactive"
       /\ stdout_pipe' = FALSE
       /\ UNCHANGED <<current, worker>>

\* The item is stored before the checks.
cannot_send_with_item_set(f, again, queue, result) ==
  /\ redial_queue' = IF again THEN start_redial_timeout(f, queue) ELSE queue
  /\ outcome' = IF again THEN result ELSE [result EXCEPT ![f] = "refused"]
  /\ last_fax_item_sent' = f
  /\ UNCHANGED <<processVars, state, shown, stdout_pipe>>

\* The two branches of sendfax_impl() that do not start anything.
cannot_send(f, again, queue, result) ==
  /\ redial_queue' = IF again THEN start_redial_timeout(f, queue) ELSE queue
  /\ outcome' = IF again THEN result ELSE [result EXCEPT ![f] = "refused"]
  /\ UNCHANGED <<sessionVars, processVars>>

\* The guard in_child_ended_cb is forgotten.
may_start_without_guard(in_child_ended_cb) ==
  state \in {"inactive", "start_send_on_standby"}

\* Only child_ended_cb() may go on from start_send_on_standby.
may_start(in_child_ended_cb) ==
  state = "inactive" \/ (in_child_ended_cb /\ state = "start_send_on_standby")

\* sendfax_impl(), with the redial queue and the history as its caller
\* leaves them.
sendfax_impl(f, in_child_ended_cb, in_redial_cb, queue, result) ==
  \/ /\ state = "receive_standby"
     /\ ~is_receiving_fax
     /\ last_fax_item_sent' = f
     /\ state' = "start_send_on_standby"
     /\ kill_child(sig_pipe)
     /\ redial_queue' = queue
     /\ outcome' = result
     /\ UNCHANGED <<shown, stdout_pipe>>
  \/ /\ state = "receive_standby"
     /\ is_receiving_fax
     /\ cannot_send(f, in_redial_cb \/ redial, queue, result)
  \/ /\ may_start(in_child_ended_cb)
     /\ start_thread("send", IF state = "inactive" THEN "sending"
                                                   ELSE "send_on_standby",
                     "convert")
     /\ last_fax_item_sent' = f
     /\ redial_queue' = queue
     /\ outcome' = IF state' = "inactive"
                   THEN [result EXCEPT ![f] = "no_thread"] ELSE result
     /\ UNCHANGED <<killing, sig_pipe>>
  \/ /\ state # "receive_standby"
     /\ ~may_start(in_child_ended_cb)
     /\ cannot_send(f, redial, queue, result)

\* The program quits as soon as the child has been signalled.
efax_closedown_with_quit(sp) ==
  /\ main_loop' = "quit"
  /\ sig_pipe' = sp
  /\ UNCHANGED <<close_down, killing, worker>>

\* efax_closedown(), with sig_pipe as the caller leaves it.
efax_closedown(sp) ==
  \/ /\ state = "inactive"
     /\ main_loop' = "quit"
     /\ sig_pipe' = sp
     /\ UNCHANGED <<close_down, killing, worker>>
  \/ /\ state # "inactive"
     /\ ~close_down
     /\ close_down' = TRUE
     /\ kill_child(sp)
     /\ UNCHANGED main_loop
  \/ /\ state # "inactive"
     /\ close_down
     /\ sig_pipe' = sp
     /\ UNCHANGED <<close_down, killing, worker, main_loop>>

-----------------------------------------------------------------------------
(***************************************************************************)
(* Handlers of the GUI thread.                                             *)
(***************************************************************************)

\* The Send button (MainWindow::sendfax_cb) for a new request.
SendFax(f) ==
  /\ GuiReady /\ ~settings_open
  /\ outcome[f] = "new"
  /\ f \in SocketFaxes => f \in filenames
  /\ sendfax_impl(f, FALSE, FALSE, redial_queue,
                  [outcome EXCEPT ![f] = "pending"])
  /\ UNCHANGED <<threadVars, configVars, loopVars, closeVars, fileVars>>

\* The Answer call, Take over call and Standby buttons.
Receive(mode) ==
  /\ GuiReady /\ ~settings_open
  /\ state = "inactive"
  /\ receive_body(mode, current)
  /\ UNCHANGED <<threadVars, queueVars, configVars, loopVars, closeVars,
                 last_fax_item_sent, killing, sig_pipe, tiff, filenames>>

\* The Stop button.
Stop ==
  /\ GuiReady /\ ~settings_open
  /\ state # "inactive"
  /\ kill_child(sig_pipe)
  /\ UNCHANGED <<sessionVars, threadVars, queueVars, configVars, loopVars,
                 closeVars, fileVars>>

\* There is no second signal.
KillAfterDelay_without_SIGKILL ==
  /\ main_loop = "running" /\ killing # NoPid
  /\ killing' = NoPid
  /\ UNCHANGED <<sessionVars, threadVars, queueVars, configVars, loopVars,
                 closeVars, fileVars, sig_pipe, worker>>

\* The rest of kill_child() after its one second delay.
KillAfterDelay ==
  /\ main_loop = "running" /\ killing # NoPid
  /\ worker' = [w \in Workers |->
       IF worker[w].pid = killing /\ worker[w].proc \in {"held", "running", "termed"}
       THEN [worker[w] EXCEPT !.proc = "zombie", !.code = Killed]
       ELSE worker[w]]
  /\ killing' = NoPid
  /\ UNCHANGED <<sessionVars, threadVars, queueVars, configVars, loopVars,
                 closeVars, fileVars, sig_pipe>>

\* MainWindow::close_impl() from the window, the menu or the tray.
Close ==
  /\ GuiReady
  /\ efax_closedown(sig_pipe)
  /\ asked' = TRUE
  /\ UNCHANGED <<sessionVars, threadVars, queueVars, configVars, fileVars,
                 list_iteration>>

\* MainWindow::sig_event_cb(): a signal handler wrote to sig_pipe.
SigEvent ==
  /\ GuiReady
  /\ sig_pipe
  /\ efax_closedown(FALSE)
  /\ UNCHANGED <<sessionVars, threadVars, queueVars, configVars, fileVars,
                 list_iteration, asked>>

\* Redial timers take no notice of the settings dialog.
redial_held_without_check == FALSE

\* redial_cb() puts the attempt off while the settings dialog is open.
redial_held == settings_open

\* The redial interval of a queued fax is over.
redial_cb(f) ==
  LET removed == RedialQueue_remove(f, redial_queue)
  IN  /\ GuiReady
      /\ redial_queue[f] > 0
      /\ \/ /\ ~redial
            /\ redial_queue' = removed
            /\ outcome' = [outcome EXCEPT ![f] = "cancelled"]
            /\ UNCHANGED <<sessionVars, processVars>>
         \/ /\ redial /\ redial_held
            \* a timer of one minute takes the place of the old one
            /\ redial_queue' = [removed EXCEPT ![f] = @ + 1]
            /\ UNCHANGED <<sessionVars, processVars, outcome>>
         \/ /\ redial /\ ~redial_held
            /\ state \in {"inactive", "receive_standby"}
            /\ sendfax_impl(f, FALSE, TRUE, removed, outcome)
      /\ UNCHANGED <<threadVars, configVars, loopVars, closeVars, fileVars>>

\* RedialQueueDialog::remove(): the user takes a fax off the queue.
RemoveFromRedialQueue(f) ==
  /\ GuiReady
  /\ redial_queue[f] > 0
  /\ redial_queue' = RedialQueue_remove(f, redial_queue)
  /\ outcome' = [outcome EXCEPT ![f] = "removed"]
  /\ UNCHANGED <<sessionVars, threadVars, processVars, configVars, loopVars,
                 closeVars, fileVars>>

\* SocketListDialog::remove_file(): the user deletes a queued print job.
RemoveSocketFile(f) ==
  /\ GuiReady
  /\ f \in filenames
  /\ filenames' = filenames \ {f}
  /\ UNCHANGED <<sessionVars, threadVars, processVars, queueVars, configVars,
                 loopVars, closeVars, current, tiff>>

\* MainWindow::settings_impl() opens the dialog only when inactive.
OpenSettings ==
  /\ GuiReady
  /\ state = "inactive" /\ ~settings_open
  /\ settings_open' = TRUE
  /\ UNCHANGED <<sessionVars, threadVars, processVars, queueVars, loopVars,
                 closeVars, fileVars, redial>>

\* The settings dialog is closed, automatic redialling as the user left it.
CloseSettings(r) ==
  /\ GuiReady
  /\ settings_open
  /\ settings_open' = FALSE
  /\ redial' = r
  /\ UNCHANGED <<sessionVars, threadVars, processVars, queueVars, loopVars,
                 closeVars, fileVars>>

(***************************************************************************)
(* FaxListManager::populate_fax_list() runs "while (gtk_events_pending())  *)
(* gtk_main_iteration();" for every fax: handlers go on running inside it  *)
(* until nothing is pending.                                               *)
(***************************************************************************)
PopulateFaxList ==
  /\ FaxLists
  /\ GuiReady /\ ~settings_open
  /\ ~list_iteration
  /\ list_iteration' = TRUE
  /\ UNCHANGED <<sessionVars, threadVars, processVars, queueVars, configVars,
                 closeVars, fileVars, main_loop>>

FaxListPopulated ==
  /\ GuiReady
  /\ list_iteration
  /\ posted = <<>> /\ ~sig_pipe
  /\ list_iteration' = FALSE
  /\ UNCHANGED <<sessionVars, threadVars, processVars, queueVars, configVars,
                 closeVars, fileVars, main_loop>>

\* no_fax_made_cb(): ghostscript could not make the pages.
no_fax_made_cb ==
  LET f == last_fax_item_sent
  IN  /\ GuiReady
      /\ posted # <<>> /\ Head(posted).cb = "no_fax_made"
      /\ posted' = Tail(posted)
      /\ tiff' = cleanup_fax_send_fail(f)
      /\ outcome' = [outcome EXCEPT ![f] = "not_made"]
      /\ finish_send(state = "send_on_standby")
      /\ UNCHANGED <<configVars, loopVars, closeVars, last_fax_item_sent,
                     child_pid, iowatch, redial_queue, killing, sig_pipe,
                     filenames>>

-----------------------------------------------------------------------------
(***************************************************************************)
(* child_ended_cb(), one operator per case of its switch.                  *)
(***************************************************************************)

\* unjoin_child() is forgotten.
end_receive_without_unjoin ==
  /\ state' = "inactive"
  /\ shown' = "inactive"
  /\ current' \in receive_cleanup
  /\ UNCHANGED <<processVars, queueVars, stdout_pipe, last_fax_item_sent,
                 tiff, filenames>>

\* end_receive: back to inactive with faxin/current tidied away.
end_receive ==
  /\ state' = "inactive"
  /\ shown' = "inactive"
  /\ stdout_pipe' = FALSE
  /\ current' \in receive_cleanup
  /\ UNCHANGED <<processVars, queueVars, last_fax_item_sent, tiff, filenames>>

\* restart_standby
restart_standby ==
  /\ \E dir \in receive_cleanup : receive_body("receive_standby", dir)
  /\ UNCHANGED <<queueVars, last_fax_item_sent, killing, sig_pipe, tiff,
                 filenames>>

\* case sending, send_on_standby
send_ended(exit_code) ==
  LET f == last_fax_item_sent
      again == exit_code = 1 /\ redial
  IN  /\ IF exit_code = 0
         THEN /\ tiff' \in save_sent_fax(f)
              /\ filenames' = filenames \ {f}
              /\ outcome' = [outcome EXCEPT ![f] = "sent"]
              /\ UNCHANGED redial_queue
         ELSE /\ tiff' = cleanup_fax_send_fail(f)
              /\ filenames' = filenames
              /\ redial_queue' = IF again
                                 THEN start_redial_timeout(f, redial_queue)
                                 ELSE redial_queue
              /\ outcome' = IF again THEN outcome
                            ELSE [outcome EXCEPT ![f] = "failed"]
      /\ finish_send(state = "send_on_standby" /\ ~close_down)
      /\ UNCHANGED <<last_fax_item_sent, killing, sig_pipe>>

\* case start_send_on_standby
standby_ended_to_send ==
  LET f == last_fax_item_sent
  IN  /\ current' \in receive_cleanup
      /\ IF ~close_down
         THEN sendfax_impl(f, TRUE, FALSE, redial_queue, outcome)
         ELSE /\ state' = "inactive"
              /\ shown' = "inactive"
              /\ stdout_pipe' = FALSE
              /\ outcome' = [outcome EXCEPT ![f] = "closed"]
              /\ UNCHANGED <<processVars, last_fax_item_sent, redial_queue>>
      /\ UNCHANGED <<tiff, filenames>>

\* The event is put back while a fax list is being populated.
child_ended_cb_deferred ==
  /\ GuiReady
  /\ posted # <<>> /\ Head(posted).cb = "child_ended"
  /\ list_iteration
  /\ posted' = Append(Tail(posted), Head(posted))
  /\ UNCHANGED <<sessionVars, processVars, queueVars, configVars, loopVars,
                 closeVars, fileVars, child_pid, iowatch>>

\* The state is looked at before the switch.
ready_to_quit_with_old_state == close_down /\ state = "inactive"

\* The last line of child_ended_cb().
ready_to_quit == close_down /\ state' = "inactive"

child_ended_cb ==
  LET exit_code == Head(posted).code
  IN  /\ GuiReady
      /\ posted # <<>> /\ Head(posted).cb = "child_ended"
      /\ ~list_iteration
      /\ posted' = Tail(posted)
      /\ child_pid' = NoPid
      /\ iowatch' = FALSE
      /\ CASE state \in {"sending", "send_on_standby"} -> send_ended(exit_code)
           [] state = "start_send_on_standby" -> standby_ended_to_send
           [] state = "receive_standby" /\ exit_code \in {0, 3} /\ ~close_down
                -> restart_standby
           [] OTHER -> end_receive
      /\ main_loop' = IF ready_to_quit THEN "quit" ELSE main_loop
      /\ UNCHANGED <<configVars, closeVars, list_iteration>>

-----------------------------------------------------------------------------
(***************************************************************************)
(* The worker threads sendfax_thread() and receive_thread().               *)
(***************************************************************************)

\* ps_file_to_tiff_files() for the files of the item: all pages are made.
ConvertSucceeds(w) ==
  LET f == last_fax_item_sent
  IN  /\ main_loop = "running"
      /\ worker[w].pc = "convert"
      /\ f \in SocketFaxes => f \in filenames
      /\ tiff' = tiff \cup {f}
      /\ worker' = [worker EXCEPT ![w].pc = "fork"]
      /\ UNCHANGED <<sessionVars, threadVars, queueVars, configVars, loopVars,
                     closeVars, killing, filenames, sig_pipe, current>>

\* It throws: a file is missing or makes no page; earlier files may have.
ConvertFails(w) ==
  /\ main_loop = "running"
  /\ worker[w].pc = "convert"
  /\ tiff' \in {tiff, tiff \cup {last_fax_item_sent}}
  /\ worker' = [worker EXCEPT ![w] = NoWorker]
  /\ posted' = Append(posted, [cb |-> "no_fax_made", code |-> 0])
  /\ UNCHANGED <<sessionVars, queueVars, configVars, loopVars, closeVars,
                 killing, filenames, child_pid, iowatch, sig_pipe, current>>

\* fork(): the child waits on sync_pipe.
Fork(w) ==
  /\ main_loop = "running"
  /\ worker[w].pc = "fork"
  /\ \/ \E p \in Pids :
          /\ \A v \in Workers : Alive(v) => worker[v].pid # p
          /\ worker' = [worker EXCEPT ![w].pc = "publish", ![w].pid = p,
                                      ![w].proc = "held"]
          /\ UNCHANGED main_loop
     \/ /\ "fork" \in Faults
        /\ main_loop' = "exited"
        /\ UNCHANGED worker
  /\ UNCHANGED <<sessionVars, threadVars, queueVars, configVars, closeVars,
                 fileVars, list_iteration, killing, sig_pipe>>

\* efax_controller_child_pid is set under the mutex.
PublishPid(w) ==
  /\ main_loop = "running"
  /\ worker[w].pc = "publish"
  /\ child_pid' = worker[w].pid
  /\ worker' = [worker EXCEPT ![w].pc = "join"]
  /\ UNCHANGED <<sessionVars, queueVars, configVars, loopVars, closeVars,
                 fileVars, killing, iowatch, posted, sig_pipe>>

\* join_child() and sync_pipe.release().
JoinChild(w) ==
  /\ main_loop = "running"
  /\ worker[w].pc = "join"
  /\ iowatch' = TRUE
  /\ worker' = [worker EXCEPT ![w].pc = "wait"]
  /\ UNCHANGED <<sessionVars, queueVars, configVars, loopVars, closeVars,
                 fileVars, killing, child_pid, posted, sig_pipe>>

\* waitpid() returns: from here the pid may be given to another process.
ReapChild(w) ==
  /\ main_loop = "running"
  /\ worker[w].pc = "wait" /\ worker[w].proc = "zombie"
  /\ worker' = [worker EXCEPT ![w].pc = "post", ![w].proc = "reaped"]
  /\ UNCHANGED <<sessionVars, threadVars, queueVars, configVars, loopVars,
                 closeVars, fileVars, killing, sig_pipe>>

\* child_ended_cb() is posted and the thread ends.
PostChildEnded(w) ==
  /\ main_loop = "running"
  /\ worker[w].pc = "post"
  /\ posted' = Append(posted, [cb |-> "child_ended", code |-> worker[w].code])
  /\ worker' = [worker EXCEPT ![w] = NoWorker]
  /\ UNCHANGED <<sessionVars, queueVars, configVars, loopVars, closeVars,
                 fileVars, killing, child_pid, iowatch, sig_pipe>>

-----------------------------------------------------------------------------
(***************************************************************************)
(* The efax process and the world outside.                                 *)
(***************************************************************************)

\* execvp() once the parent has released the child.
ChildExec(w) ==
  /\ main_loop = "running"
  /\ worker[w].proc = "held" /\ worker[w].pc = "wait"
  /\ \/ worker' = [worker EXCEPT ![w].proc = "running"]
     \/ /\ "exec" \in Faults
        /\ worker' = [worker EXCEPT ![w].proc = "zombie", ![w].code = 5]
  /\ UNCHANGED <<sessionVars, threadVars, queueVars, configVars, loopVars,
                 closeVars, fileVars, killing, sig_pipe>>

\* efax opens the file for the first page of a call, then writes to it.
PageArrives(w) ==
  /\ main_loop = "running"
  /\ worker[w].proc = "running" /\ worker[w].kind = "receive"
  /\ \/ current = "empty" /\ current' = "zero"
     \/ current = "zero" /\ current' = "page"
  /\ UNCHANGED <<sessionVars, threadVars, processVars, queueVars, configVars,
                 loopVars, closeVars, filenames, tiff>>

\* efax ends by itself, or because of SIGTERM.
ChildExits(w) ==
  /\ main_loop = "running"
  /\ \/ /\ worker[w].proc = "running"
        /\ \E c \in ExitCodes :
             worker' = [worker EXCEPT ![w].proc = "zombie", ![w].code = c]
     \/ /\ worker[w].proc = "termed"
        /\ \E c \in {5, Killed} :
             worker' = [worker EXCEPT ![w].proc = "zombie", ![w].code = c]
  /\ UNCHANGED <<sessionVars, threadVars, queueVars, configVars, loopVars,
                 closeVars, fileVars, killing, sig_pipe>>

\* Another process sends the program SIGTERM, SIGINT, SIGQUIT or SIGHUP: once,
\* and only if nobody closed the window before.
ExternalSignal ==
  /\ main_loop = "running"
  /\ ~asked
  /\ sig_pipe' = TRUE
  /\ asked' = TRUE
  /\ UNCHANGED <<sessionVars, threadVars, queueVars, configVars, loopVars,
                 fileVars, close_down, killing, worker>>

\* Nothing happens once the main loop has ended.
Ended == main_loop # "running" /\ UNCHANGED vars

-----------------------------------------------------------------------------
WorkerStep(w) ==
  \/ ConvertSucceeds(w) \/ ConvertFails(w) \/ Fork(w) \/ PublishPid(w)
  \/ JoinChild(w) \/ ReapChild(w) \/ PostChildEnded(w)

ChildStep(w) == ChildExec(w) \/ PageArrives(w) \/ ChildExits(w)

UserStep ==
  \/ \E f \in Faxes : SendFax(f) \/ RemoveFromRedialQueue(f) \/ RemoveSocketFile(f)
  \/ \E mode \in ReceiveModes : Receive(mode)
  \/ Stop \/ Close \/ OpenSettings \/ PopulateFaxList
  \/ \E r \in BOOLEAN : CloseSettings(r)

CallbackStep ==
  \/ KillAfterDelay \/ SigEvent \/ FaxListPopulated \/ no_fax_made_cb
  \/ child_ended_cb_deferred \/ child_ended_cb
  \/ \E f \in Faxes : redial_cb(f)

Next ==
  \/ UserStep
  \/ CallbackStep
  \/ \E w \in Workers : WorkerStep(w) \/ ChildStep(w)
  \/ ExternalSignal
  \/ Ended

Spec == Init /\ [][Next]_vars

(***************************************************************************)
(* The threads are scheduled, a process that was released runs, a second   *)
(* passes, and the main loop dispatches what is pending.  Nothing is       *)
(* assumed of the user, of timers, of callers, or of when efax ends.       *)
(***************************************************************************)
Fairness ==
  /\ WF_vars(KillAfterDelay)
  /\ WF_vars(SigEvent)
  /\ WF_vars(no_fax_made_cb)
  /\ WF_vars(child_ended_cb \/ child_ended_cb_deferred)
  /\ WF_vars(FaxListPopulated)
  /\ \A w \in Workers : WF_vars(WorkerStep(w)) /\ WF_vars(ChildExec(w))

FairSpec == Spec /\ Fairness

-----------------------------------------------------------------------------
(***************************************************************************)
(* Properties.                                                             *)
(***************************************************************************)

WorkerRecords ==
  [pc : WorkerPCs, kind : {"none", "send", "receive"}, pid : Pids \cup {NoPid},
   proc : ProcStates, code : ExitCodes \cup {Killed}]

\* Type invariant of the controller, its threads, processes and files.
TypeOK ==
  /\ state \in States
  /\ shown \in States
  /\ close_down \in BOOLEAN
  /\ last_fax_item_sent \in Faxes \cup {NoFax}
  /\ child_pid \in Pids \cup {NoPid}
  /\ stdout_pipe \in BOOLEAN
  /\ iowatch \in BOOLEAN
  /\ redial_queue \in [Faxes -> Nat]
  /\ redial \in BOOLEAN
  /\ settings_open \in BOOLEAN
  /\ list_iteration \in BOOLEAN
  /\ killing \in Pids \cup {NoPid}
  /\ main_loop \in {"running", "quit", "exited"}
  /\ posted \in Seq(Callbacks)
  /\ sig_pipe \in BOOLEAN
  /\ worker \in [Workers -> WorkerRecords]
  /\ current \in DirStates
  /\ tiff \in SUBSET Faxes
  /\ filenames \in SUBSET SocketFaxes
  /\ outcome \in [Faxes -> Outcomes]
  /\ asked \in BOOLEAN

Active(w) == worker[w].pc # "none"

(***************************************************************************)
(* efax_parms_vec, stdout_pipe and last_fax_item_sent are shared by the    *)
(* GUI thread and the workers with no mutex, because (the comments at      *)
(* lines 103, 535 and 1044 say) a session is one worker and then one       *)
(* callback: never two workers, never a worker beside a posted callback,   *)
(* and neither when, and only when, the controller is inactive.            *)
(***************************************************************************)
OneSession ==
  /\ \A v, w \in Workers : Active(v) /\ Active(w) => v = w
  /\ Len(posted) <= 1
  /\ (\E w \in Workers : Active(w)) => posted = <<>>
  /\ state = "inactive" <=> posted = <<>> /\ \A w \in Workers : ~Active(w)

(***************************************************************************)
(* Through every order of stops, failures and restarts, the pipe is open   *)
(* exactly during a session, the watch that join_child() starts is there   *)
(* for unjoin_child() to remove when a child has ended, and no watch is    *)
(* left on a closed descriptor when the pages could not be made.           *)
(***************************************************************************)
PipeAndWatchPaired ==
  /\ stdout_pipe <=> state # "inactive"
  /\ iowatch => stdout_pipe
  /\ posted # <<>> => (iowatch <=> Head(posted).cb = "child_ended")

(***************************************************************************)
(* kill_child() sleeps between its two signals and does not look at        *)
(* efax_controller_child_pid again.  As lines 1087-1094 argue, it need     *)
(* not: while it sleeps the recorded pid stays the one it signalled, and   *)
(* no other session has a child that SIGKILL could reach.                  *)
(***************************************************************************)
KillTargetIsCurrent ==
  killing # NoPid =>
    /\ killing = child_pid
    /\ \A w \in Workers : Active(w) => worker[w].pid = killing

Sending(f) == state \in SendStates /\ last_fax_item_sent = f

(***************************************************************************)
(* A fax that the user asked for and that has not come to an end is in     *)
(* exactly one place: the redial queue once, or the session in progress.   *)
(* One that has come to an end, or was never asked for, is in neither, so  *)
(* it is not sent again and none is dropped without a reason (README,      *)
(* Automatic redialing).                                                   *)
(***************************************************************************)
ExactlyOnePlace ==
  \A f \in Faxes :
    redial_queue[f] + (IF Sending(f) THEN 1 ELSE 0)
      = IF outcome[f] = "pending" THEN 1 ELSE 0

(***************************************************************************)
(* The program leaves its main loop only when no efax process or worker is *)
(* left and nothing they posted is waiting, whichever way it was closed.   *)
(***************************************************************************)
QuitLeavesNothingRunning ==
  main_loop = "quit" => posted = <<>> /\ \A w \in Workers : ~Active(w)

(***************************************************************************)
(* Settings are only changed while the program is inactive (settings_impl, *)
(* and the check of is_dialog() in redial_cb): no session starts under an  *)
(* open settings dialog.                                                   *)
(***************************************************************************)
NoSessionDuringSettings == settings_open => state = "inactive"

(***************************************************************************)
(* efax -rcurrent writes over what it finds: a receive session reaches     *)
(* efax only with an empty faxin/current, never with a fax that an earlier *)
(* session could not save.                                                 *)
(***************************************************************************)
ReceiveStartsClean ==
  \A w \in Workers :
    worker[w].kind = "receive" /\ worker[w].proc \in {"none", "held"}
      => current = "empty"

(***************************************************************************)
(* When sent faxes can be saved, pages made by ghostscript exist only for  *)
(* the fax being sent: a later conversion of the same file finds no old    *)
(* pages to send with its own.                                             *)
(***************************************************************************)
NoStalePages ==
  "save" \notin Faults =>
    tiff \subseteq IF state \in {"sending", "send_on_standby"}
                   THEN {last_fax_item_sent} ELSE {}

(***************************************************************************)
(* sendfax_thread() reads last_fax_item_sent with no lock: the item never  *)
(* changes between the start of a send session and the end of its clean    *)
(* up, a further press of Send or a redial timer included.                 *)
(***************************************************************************)
ItemFixedWhileSending ==
  [][{state, state'} \subseteq SendStates
       => last_fax_item_sent' = last_fax_item_sent]_vars

(***************************************************************************)
(* After a fax sent from standby the program goes back to standby, whether *)
(* or not the fax was sent (README, Sending faxes), unless the program is  *)
(* closing down or the system refuses a thread or faxin/current.           *)
(***************************************************************************)
ReturnsToStandby ==
  [][state = "send_on_standby" /\ state' # "send_on_standby"
       => \/ state' = "receive_standby"
          \/ close_down
          \/ current # "absent" \/ Faults \cap {"mkdir", "thread"} # {}]_vars

(***************************************************************************)
(* When faxin/current can be made, the window shows the session there is   *)
(* (and standby while standby gives way to a fax), whichever handler       *)
(* changed state last: end of a session calls display_state() itself or    *)
(* leaves it to the receive() that follows.                                *)
(***************************************************************************)
StateIsShown ==
  Faults \cap {"mkdir", "save"} = {} =>
    shown = IF state = "start_send_on_standby" THEN "receive_standby" ELSE state

(***************************************************************************)
(* The callback puts itself off because a fax list is being constructed,   *)
(* and the list is not finished because the callback is pending.  The      *)
(* comment at efax_controller.cpp:788-791 has it wait "until construction  *)
(* has completed"; with fax_list_manager.cpp:758, neither ever ends.       *)
(***************************************************************************)
ListWaitsForCallback ==
  list_iteration /\ posted # <<>> /\ Head(posted).cb = "child_ended"

(***************************************************************************)
(* A session that Stop or a close-down found with a recorded child comes   *)
(* to its end: the child is killed, reaped, reported and cleaned up after, *)
(* unless its end is reported under the construction of a fax list.        *)
(***************************************************************************)
KillIsDealtWith ==
  killing # NoPid
    ~> child_pid = NoPid \/ main_loop # "running" \/ ListWaitsForCallback

\* A child that nobody has told to end.
Unsignalled == \E w \in Workers : worker[w].proc \in {"held", "running"}

(***************************************************************************)
(* A close-down that found a recorded child ends the main loop, whatever   *)
(* the user does meanwhile.  One that came before the child was recorded   *)
(* killed nothing, and is taken up when efax has ended by itself, unless   *)
(* there is no efax because the pages could not be made.  Neither is seen  *)
(* to under the construction of a fax list.                                *)
(***************************************************************************)
CloseDownCompletes ==
  /\ close_down /\ killing # NoPid
       ~> main_loop # "running" \/ ListWaitsForCallback
  /\ []<>~Unsignalled =>
       (close_down ~> \/ main_loop # "running"
                      \/ ListWaitsForCallback
                      \/ state = "inactive")

=============================================================================
