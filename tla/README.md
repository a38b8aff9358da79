# A TLA+ verification of QFax

QFax is a collection of fax and modem programs kept in one tree. Its heart is
`efax-gtk-3.2.13`, a GTK front end that sends and receives faxes by running the
`efax` engine as a child process; beside it are `linmodem` (a software modem),
`iaxmodem` (a fax modem over IAX2) and `extmodem` (an AX.25 sound modem). The Qt
part in the root of the tree is an empty window.

Paths below are relative to `src/`; "controller" is
`efax-gtk-3.2.13/src/efax_controller.cpp`.

## 1. Inventory

| Part | State | Operations | Interacts with | Hard behaviour | What makes it correct |
|---|---|---|---|---|---|
| efax controller (`efax_controller.cpp`) | `state`, `close_down`, last fax, child pid, pipe and its watch, redial timers | `sendfax`, `receive`, `stop`, `efax_closedown`, `child_ended_cb`, `no_fax_made_cb`, `redial_cb`, worker threads | main window (calls, notifiers), workers (posted callbacks), efax (fork, signals, exit code) | GUI thread, workers and children interleave; pid shared late; partial failures | one session at a time; no fax lost or doubled; close-down completes; kills hit their target |
| redial queue (`redial_queue.cpp`) | list of items with timer ids | add, remove, dialog | controller, main window | a timer racing removal | item and timer go together |
| main window (`mainwindow.cpp`) | selected files, dialogs, `sig_pipe` | buttons, menus, close, signal event | all the rest | handlers nested in dialogs; signals | settings only when inactive; orderly close |
| fax list manager (`fax_list_manager.cpp`) | folders, rows, iteration flags | populate, move, delete, trash | controller through the flags | nested main loop while populating | faxes are in one folder; population ends |
| socket server (`socket_server.cpp`) | server thread, list of print jobs, fax offered to the user | start, stop, accept, read, add/remove file, save/restore queue | main window through notifiers, print system | cancellation, join in the GUI thread, two condition variables | no job lost; stop and start leave nothing behind; no deadlock |
| logger (`logger.cpp`) | file, buffer | write, view, reset | all | mutex, partial lines | lines in order |
| settings, program start (`settings.cpp`, `main.cpp`) | configuration | read, write, single instance | all | stale lock pipe | configuration round trip |
| efax engine (`efax/efax.c`, `efaxio.c`, `efaxlib.c`) | label of `c1sndrcv()`, page, `dp`, tries, speed, open page file | training, page, post-page message, answer, next page or same page, hang-up | the efax at the other end, over modem and line | lost and late answers, retries, flags older than the answer they are used with | a page is reported only when it is there, none twice, both ends hang up |
| linmodem core (`lm.c`, `atparser.c`, `lmsoundcard.c`) | modem state, timers, fifos, AT line | AT commands, `sm_process`, sample loop | sound card, terminal | lost hangups, full fifos | fifos keep order; state machine returns to idle |
| linmodem V.8, serial (`v8.c`, `serial.c`) | handshake state, shift registers | CM/JM exchange, framing | core | both ends at once | both ends agree on the modulation; bytes round trip |
| linmodem DSP (`v21.c` ... `v90.c`) | filter state | (de)modulate | core | numerical | not a state-machine question |
| iaxmodem, modem process (`iaxmodem()` in `iaxmodem.c`) | `modemstate`, `phonestate`, `regstate`, `session[0]`, rings, the waiting SIGHUP | AT commands, IAX events, timers, signals | the DTE on a pty (spandsp), the server (libiax2) | calls that cross, events of an older call, SIGHUP in a call | one call at a time; the sides agree on the hook; SIGHUP waits for the end of a call |
| iaxmodem, controlling process (`main()` and the modem list) | list of children, `numchild`, `gothup` | fork, reap, restart, forget, SIGHUP, SIGTERM | the modem processes, by signals and exit status | signals between any two steps, forks that fail | one process per file; all can be reached; stop ends all |
| extmodem, servers (`tcpserver*.cpp`) | sessions, client lists, output queue | accept, read, write, flush, error | recording thread, TCP clients | asynchronous operations that outlive their session, two threads on a queue | no session used after its deletion; every frame once to every client |
| extmodem, radio (`hdlc.cpp`, `encoder_af1200stj.cpp`, `audiosource_*.cpp`) | queue of samples, PTT, buffer, HDLC receiver | encode, play, key, release, receive | sound device, radio | PTT against buffers that are played later | what is sent is heard, whole |
| vendored libraries (`iaxmodem-1.2.0/lib`: spandsp, libiax2) | AT interpreter, IAX sessions, signal processing | AT commands, events, codecs | iaxmodem | | as far as `iaxmodem.c` uses it: commands and sessions |

The hazards of the code, line by line, are the `hazards` of `PROJECT.json`, each
with the properties that would catch it, or a note on why none does.

### How the parts of the fax program interact

The GUI thread runs every handler of the main window and of the controller, one
at a time. A session of the controller is one worker thread
(`sendfax_thread()`, `receive_thread()`), which runs ghostscript, forks efax,
publishes its pid, waits for it and posts one callback to the GUI thread. The
socket server is one more thread, which posts its news through `Notifier`
objects and waits on condition variables for the GUI thread to fetch them.
Signals reach the program through `sig_pipe`. Nested main loops (populating a
fax list) run posted callbacks inside a handler. `linmodem` is a program of its
own: one loop that alternates between the terminal and the sound card.

## 2. Plan

| | Module | State |
|---|---|---|
| 1 | `EfaxController`: sessions, kills, close-down, redialling | modelled, checked |
| 2 | `EfaxControllerProofs`: its invariants and action properties | proved |
| 3 | `FaxJobs` (abstract), `EfaxJobs` (refinement) | checked, proved in `EfaxControllerProofs` |
| 4 | `SocketServer`: the server with its handlers in the main window | modelled, checked |
| 5 | `LinModem`: AT parser, modem state machine, V.8 of two modems | modelled, checked |
| 6 | `EfaxClass1`: the T.30 session of two efax programs; `PageTransfer`: what it promises | modelled, checked |
| 7 | `ExtModem`: TCP sessions and output queue; `AfskLink`: from a packet over the air to a packet | modelled, checked |
| 8 | `IaxModem`: a modem process; `IaxSupervisor`: the controlling process | modelled, checked |
| 9 | `IaxModemProofs`, `IaxSupervisorProofs` | proved |
| 10 | `SocketServerProofs` (mailboxes, wake-ups, socket, no job lost, rows) | proved |
| 11 | `ExtModemProofs` (no use after delete, every frame once, nothing stranded) | proved |
| 12 | `EfaxClass1Proofs` (no page twice, the tries, the refinement of `PageTransfer`) | proved |
| 13 | `LinModemProofs` (the line is held during a call, best modulation, no answer to nobody) | proved |
| 14 | `AfskLinkProofs` (the folds, the CRC, the bit stuffing, the receiver, and that what was sent is heard) | proved |
| 15 | an abstract job queue that `SocketServer` implements, with the notify dialog (`socket_notify.cpp`); ring buffer and framing of linmodem, and the framing of KISS and AGWPE, as pure definitions against reference ones; moving of faxes in the fax list manager; the logger | to do |

Modules to be proved about contain no `RECURSIVE` operator and take every
parameter as a CONSTANT with a named assumption.

## 3. The controller: `EfaxController`, `FaxJobs`, `EfaxJobs`

### Correspondence

| Code | Model |
|---|---|
| a handler of the GUI thread | one action, with every call it makes |
| `kill_child()`: SIGTERM, one second, SIGKILL | `kill_child` in the handler that calls it, then `killing` holds the pid and the GUI thread until `KillAfterDelay`; `GuiReady` is the guard of every other handler |
| `sendfax_impl()`, `receive()`, `stop()`, `efax_closedown()` | `sendfax_impl`, `receive_body`, and the actions `SendFax`, `Receive`, `Stop`, `Close` that reach them through the main window |
| `sendfax_thread()` | `ConvertSucceeds` or `ConvertFails`, `Fork`, `PublishPid`, `JoinChild`, `ReapChild`, `PostChildEnded`: one action for each point between which the GUI thread may act |
| `receive_thread()` | the same from `Fork` on |
| the forked child | `worker[w].proc`: `held` (waits on `sync_pipe`), `running`, `termed` and so on; `ChildExec`, `ChildExits`, `PageArrives` |
| `child_ended_cb()` | `child_ended_cb`, with one operator per case of its switch, and `child_ended_cb_deferred` for its first lines |
| `no_fax_made_cb()`, `redial_cb()`, `sig_event_cb()` | actions of these names |
| `faxin/current`, the ghostscript pages | `current` (absent, empty, with pages) and `tiff` |
| `redial_queue` | number of live timers of each fax, so that a doubled timer would be seen |

`outcome` is a history variable: what became of each request. `asked` says that
somebody outside asked the program to end, which happens once. Arguments, file
names, texts, dialogs and the delay of timers are left out; a redial timer may
fire at any time.

`Faults` names what the system may refuse (a thread, fork, exec, mkdir, saving
a fax). `FaxLists` says whether fax list dialogs are opened.

`FaxJobs` is what the README of efax-gtk promises of a request: it waits, is
being sent, or has come to one of its ends and stays there, and only one is
sent at a time. `EfaxJobs` maps the controller onto it: a fax is `sending`
while `state` is one of the sending states and `last_fax_item_sent` is that fax,
else `waiting` until its outcome is known.

### Runs

| Run | Instance | Shows |
|---|---|---|
| `controller` | 2 faxes of the file dialog, 2 workers, 2 pids, every fault, fax lists; 0.95 million states | the safety properties, and that every step is one of `FaxJobs` or none |
| `fair` | 1 fax of the socket server, 1 worker, 2 pids, fork and exec failing, fax lists; 0.39 million states | a kill that found its child leads to the end of the session, and a close-down to the end of the main loop, with the exceptions below; no ghostscript pages outlive their session, the window shows the session there is, standby is resumed |

Two faxes are enough for one to wait while another is sent and for a stale
entry to be mistaken for the other; the two workers and two pids of `controller`
are one more than a correct program ever has at once, so an overlap of sessions
or a pid of an earlier session can be seen. `fair` has the one worker a session
needs (`controller` shows that there is never a second), and two pids, so that
the pid in `killing` need not be the one of the present child. Each fax is requested once, and redialled without
bound. The only bound on an input is `ExternalSignal`, which comes once (the
main window treats a second one as the first). Faxes of a kind, workers and
pids are used only through equality, so the symmetry of `controller` is sound;
`fair` uses none. Deadlock is checked in both: `Ended` is the one action after
the main loop.

The two liveness properties of `fair` have the exceptions the code has:

* `ListWaitsForCallback`. While a fax list is being constructed,
  `child_ended_cb()` puts itself off, and the list
  (`fax_list_manager.cpp:754-758`) goes on iterating the main loop as long as
  there is something to dispatch, which there always is. The session never
  ends; see Findings.
* A close-down that comes before the pid of efax is recorded kills nothing
  (`efax_controller.cpp:1066`, `child_pid` is 0). It is taken up when efax ends by
  itself, which the premise `[]<>~Unsignalled` of the second half of
  `CloseDownCompletes` asks for; `KillIsDealtWith` and its first half speak of the
  kills that found a child.
* `state = "inactive"` in that second half: a close-down during a conversion that
  fails is forgotten.

### Fairness

`FairSpec` assumes what the operating system and the main loop of glib give:
threads are scheduled (`WorkerStep`), a released child runs (`ChildExec`), a
second passes (`KillAfterDelay`) and pending callbacks are dispatched. Nothing
is assumed of the user, of timers, of callers, or of when efax ends by itself.

### Proofs

All are for any sets of faxes, workers and pids, any `Faults`, and both values
of `FaxLists`; they use the assumptions `NoFaxAssumption`, `NoPidAssumption`,
`SocketFaxesAssumption`, `FaultsAssumption` and `FaxListsAssumption` only.

* `SessionInv` (`EfaxControllerProofs`) is inductive. `OneSession` alone is not:
  its proof distinguishes three phases (`Phases`: nothing going on, one worker,
  one callback) and needs that no handler runs once the loop is left
  (`QuitInactive`), that the settings dialog keeps sessions out, that the
  item of a sending state is a fax (`ItemKnown`), and that ghostscript only runs
  in a sending state (`ConversionIsSending`). From it: `TypeCorrect`,
  `OneSessionCorrect`, `QuitCorrect`, `SettingsCorrect`.
* `ExactlyOnePlace` is inductive relative to `SessionInv` (`PlacesStep`):
  `OnePlaceCorrect`.
* `ChildInv` says to whom the recorded pid and the watch
  belong at each point of a worker's life: nobody's before `PublishPid`, the
  worker's after it, the callback's in the end. It gives `KillTargetCorrect` and
  `PipeCorrect`.
* `CleanInv` follows `faxin/current` from `mkdir()` to `execvp()`:
  `ReceiveCleanCorrect`. `ItemFixedCorrect` is an action property from
  `SessionInv`.
* `NoStalePages` is inductive relative to `SessionInv` (`PagesStep`):
  `PagesCorrect`.
* `ShownInv` gives `StateIsShown` (`ShownCorrect`). The end of a send session
  leaves the display to the `receive()` that follows it, and that calls
  `display_state()` only if it can make `faxin/current`. So the invariant has to
  say that the directory is away while a fax is sent from standby, and for that
  `CleanInv`, and that no receiving process is left to write in it
  (`ReceiverReceives`). `StandbyCorrect` is an action property: it goes through
  the three ways out of `send_on_standby`.
* `JobsCorrect`: `Spec => Jobs!Spec`. Each handler moves at
  most one fax (`Moves`), `SessionInv` gives that the line is free when a
  session starts, and `ExactlyOnePlace` that a redial timer belongs to a
  waiting fax and to no other.

Only model-checked: `KillIsDealtWith` and `CloseDownCompletes`, which are
liveness. Only proved: `TypeOK`.

## 4. The socket server: `SocketServer`

### Correspondence

| Code | Model |
|---|---|
| `start()`, `stop()`, `cleanup()` | operators of the GUI actions `SettingsChanged`, `Close`, `socket_error_cb`; `thread->join()` leaves the GUI thread at `gui = "join"` until `ThreadJoined` |
| `socket_thread()`, `accept_on_client()`, `read_socket()` | `MakeSocket`, `SayRunning`, `Accept`, `AcceptFails`, `ReadEnds`, `SayJob`, `AddFile`, `FileAdded`, `Offer`; `thread` is the place it is at |
| cancellation with `CancelBlock` | `may_cancel`: the places where `pthread_cancel()` takes effect |
| `stdout_text` and `fax_to_send` with their condition variables | `asleep` and the guards `woken_by_text`, `woken_by_fetch`; a wait ends when the callback signals |
| `Notifier` | `posted`, dispatched in order, in no way tied to the life of the server |
| `add_file()`, `remove_file()`, `save_queued_faxes()` | `save_begin` and `save_end` as steps of either thread, because `remove_file()` saves outside the lock; `snapshot` is what each will write |
| end of the process, and the next start | `Restart`, which reads `saved` back with `read_queued_faxes` |

`heard` and `kept` are histories. `crashed` stands for the call on a null
`thread`: the model stops there.

### Runs

`socket`: two jobs, three settings (on at two ports, off), every fault, a kill
at any time. Two jobs are the least with which the second
finds the mailbox of the first full. `MaxPosted = 3` bounds how many callbacks
may be pending when the settings are changed once more: three is two more than
one session of the server leaves behind. `socket_fair`: the same without faults
and kills, one setting, for the liveness properties. `socket_stop` is a
counterexample, see Findings. `CHECK_DEADLOCK FALSE` stands in the runs
where nothing kills the process, because there the program really may stop for
ever: the join of `socket_stop`.

Fairness: the thread is scheduled, a client that has connected ends, the GUI
thread goes on, and posted callbacks are dispatched; that is strong fairness of
`Dispatch`, because dispatching is disabled while the GUI thread is in a
handler and enabled again whenever it comes back to the main loop.

Jobs are used through equality only, and no run with a liveness property uses
symmetry.

### Proofs

`SocketServerProofs`, for any sets of jobs, ports and settings, any faults, any
`MaxPosted`. None of the four invariants is inductive alone; `ServerInv` adds

* `JobInHand`, where in `thread` there is a job, and `JobIsUnlisted`, that this
  job has its file and is not on the list before `add_file()`, so that the user
  cannot remove it meanwhile (for `NoJobLost`: `JobsCorrect`);
* `SocketFollowsServer` and `MailboxesMatchCallbacks` themselves (`SocketCorrect`,
  `MailboxesCorrect`): a mailbox is full exactly while the one callback that
  empties it is pending (lemmas `Posts` and `Dispatches` on `posted`);
* `RowsFollowList`: the rows lag behind the list only while a callback is pending
  (for `QueueIsShown`: `RowsCorrect`);
* `SleeperIsWoken`: a thread that waits on a condition variable has the callback
  that will signal it still pending, also when it was dispatched between the
  test and the wait. `NoLostWakeup` is the safety half of `EveryJobIsOffered`, which
  as liveness is only model-checked.

## 5. linmodem: `LinModem`

### Correspondence

| Code | Model |
|---|---|
| the loop of `soundcard_modem()` | per modem: `TypeLine`, the parser actions, `sm_process`, `Transmit` |
| `lm_at_parser()` | `StartParsing`, `parse_at_line` until `tty` is empty, `EndParsing`; `Report` in the other modes. `sm_process()` does not run in between |
| `sm_process()` | one action per state or run of states: `GoOnhook`, `Call`, `Dial`, `Receive`, `V8`, `SendData` |
| `V8_process()` | `SendCI`, `SendCM`, `SendJM`, one disjunct per case and branch |
| `put_bit()`, `cm_decode()`, CJ detection | `put_sequence`, `cm_decode`, `put_octets` |
| FSK on the line | `Transmit`: what was put in the fifo arrives, is damaged, is lost, or arrives without its sync |
| `V8_demod()` | `DetectANSam`, possible only while the other modem sends the tone |

Time is abstract: a timer that was set may have expired at any later call, so
every race of a timer and a message is there. The line may lose or damage any
sequence; assumed is that it makes none up, and that it does not damage two in
the same way (the code counts on this itself: "we must receive two identical CM
sequences"). The modulations are the two that `default_lm_config` has; modems
with other settings stand for foreign ones. The `SM_TEST_RING` states belong to
the simulator and are left out, as is data after the connection except that it
leaves the fifo.

### Run

`linmodem`: three pairs of modems (same, one with the lesser modulation only,
none in common), `MaxCI = 2` instead of `V8_MAX_CI_SEQ`, one modem typing up to
two lines ahead of `ATD` or `ATH` and one typing `ATA`. Two
rounds of CI are the first number with which a round is followed by another
and then by the hang-up. Calls are repeated without bound, so what one attempt
leaves behind meets the next.

Fairness: the loop of each modem comes round (weak fairness of `Loop`), and a
`v8_connect_timer` expires (`Timeout`). Nothing is assumed of the line, so
`CallsComeToAnEnd` has an exception, which is how the code is: in `V8_CM_SEND`,
alone among the states that wait, there is no timer.

### Proofs

`LinModemProofs`, for any choices of modulations, any lines typed, any `MaxCI`.
`LinInv` has one part for each half of a modem: `LineOK` (the line against
`sm_state`, and when the parser may run: `LineCorrect`), `TxOK` (what there is to
send in each state of V.8), `RxOK` (the decoder has heard only what the other kind
of modem sends, or damage), `CjOK` (who has got CJ has it from a caller with JM:
`AnswerCorrect`). Two equal sequences in a row are the sent one, so what is
decoded is the offer of the peer, and what is selected is what both have:
`ModulationCorrect`. A step of one modem leaves the parts of the other alone
(`OneModemStep`), except that `CjOK` needs `HasJM` to last. Only model-checked:
`CallsComeToAnEnd`.

## 6. The fax engine: `EfaxClass1`, `PageTransfer`

### Correspondence

| Code (`efax/efax.c`, function `c1sndrcv()`) | Model |
|---|---|
| the labels and gotos | `snd.pc` and `rcv.pc` are the labels at which the program waits for its modem (`T`, `D_2`, `sendppm`; `R`, `F`, `train`, `getdata`); an action is all the code from one wait to the next, over any gotos: `A`, `D`, `D_2`, `I`, `I_2`, `F_2`, `E` are operators of the labels' names |
| `dp`, `try`, `pagetry`, `t`, `good`, `writepending`, `rxpage` and the return value | fields of `snd` and `rcv` |
| `rdpage()`, `nextipage()` | `rdpage`, `NoSuchPage`, `ppm` |
| `wrpage()`, `nextopage()` | `files`, a sequence of files with the copies of pages in each |
| `receive_data()`, `gettrain()` | `GetPage`, `GetTCFAsPage`, `NoPage`; `Train` |

The line is half duplex: a machine hears nothing that arrives while it
transmits, and nothing sent before the burst it listens to. It may lose any
signal and spoil any page or training check, and a timer may run out while the
answer is on its way, up to `MaxFaults` times. `good` is not initialised in the
code, so its first value is any.

`PageTransfer` is what a session promises: pages are reported as sent in
increasing order, each after the other machine has it. A page that a
transmission did not get through (`lost`) is the exception the code makes:
`good` keeps its value from the page before when the carrier of a page is
missed, and the page is confirmed.

### Runs

`t30`: two pages of one resolution and one of another, so that all three
post-page messages occur; 2 speeds, `DisTries = 5` (T1 over T2 + 10 seconds, as
in the code), up to 4 failures: one more than the three tries of every counter.
The other machine may answer with RTP and PIP too, which efax knows as answers
and never gives. `t30_skips`: a page between two of another resolution, 2
failures; see Findings.

Fairness: both programs go on (`WF` of `Sender` and `Receiver`). The line is
not made to fail, nor to work. `BothHangUp` is about lines that fail finitely often,
as its premise says and as `MaxFaults` bounds it in the run: once the line has
stopped failing, both machines hang up. It does not say that they do on a line that
goes on spoiling a page, and the code does not either: of the counters only
`pagetry` limits how often a page is transmitted, and it is asked after EOP only
(`efax.c:1676`). A page rejected after MPS or EOM is sent again each time
(1663, 1688-1689), where `efax.1:162-163` says "up to 3 times". Deadlock is checked; `HungUp` is the one action
when both are done.

### Proofs

`EfaxClass1Proofs`, for any number of pages of any resolutions, any chain of
speeds, any `DisTries`, any answers within `Confirm` and `Reject`, and any number
of failures. They use the assumptions of the module on its constants.
`TransferInv` (`TransferCorrect`) has a part for each thing that two machines which
do not see each other know of each other:

* `LineOK`: the line holds the rest of one burst, of one side, and the caller's is
  that of the label it waits at. So an answer that comes late is still an answer
  to the last thing sent.
* `AnswerOK`: what an answer under way says of the machine that gave it: that
  `good` is as it was when it was given, and that after CFR, and after a confirmation
  of MPS, the machine listens for data. `TrainOK`: the training check is awaited
  only while the caller waits for its result.
* `DataOK`: while the data of a page is under way, the machine listens and has
  not got it; afterwards the page is in a file, or `missed`, or `good` is false.
  Here is why a repeated post-page message gets the right answer.
* `PagesOK`: what is in the files or reported is before what is still to be
  transmitted. `FilesOK`: the open file has no page that came to its end, so that
  removing or reopening it loses none (lemmas `WrpageTidy`, `DropTidy`). `Once`.
* `TriesOK`: transmissions of the last page are counted in `pagetry`.

From it: `NoPageTwiceCorrect`, `TriesCorrect`, and `TransferImplemented`, that is
`Spec => Transfer!Spec`: a page that comes to its end is `Save` or no step, a page cut
off or lost is `LosePage`, an answer that counts is `Report`, and every other action
leaves the files as they are but for one without a page (`ReceiverTidies`,
`TidiedKept`). Only model-checked: `BothHangUp`.

Left out: Class 2 modems, polling, sending by the machine that answered,
failures of the local modem and of the disk, the data of pages.

## 7. extmodem: `ExtModem`, `AfskLink`

### The servers: `ExtModem`

| Code | Model |
|---|---|
| the recording thread: decoder, `hdlc`, `modem::dispatch_packet()`, `write_to_all_safe()` | `Dispatch` and `Post`: one action for each mutex or queue it goes through |
| the main thread: handlers of the `io_service` | one action per handler: `HandleAccept`, `HandleRead`, `HandleWrite`, `Flush` |
| `waiting_read_`, `waiting_write_`, the operation under way | `read` and `write` of a session: none, pending, or the result for which a handler waits |
| `on_error()`, `close()`, `delete this` | `on_error`, `close`, `Deleted` |
| the AGWPE switch of raw frames, its replies, its refusals | the alternatives of `HandleRead` |

Operations are external (boost): a read or write ends with data or an error, a
closed socket ends what is pending with an error. Of the three threads the
playing one is in `AfskLink`. Run `extmodem`: one session of each server, two
packets, `MaxHeard = 2` packets heard and `MaxRequests = 2` AGWPE requests; two
are the least with which one packet meets the writing of another, and a reply
may come between. Every session may fail in each state of its operations. The
system stops when the bounds are used up, so deadlock is not checked. Fairness:
`Post`, `Flush` and the handlers run, a write ends (clients read); nothing is
assumed of clients' requests or of the radio. `EveryFrameOnce` and `QueuesDrain`
say together that the main thread neither loses nor repeats a frame for a
client that stays.

Proved in `ExtModemProofs`, for any sessions, packets, `MaxHeard` and `MaxRequests`:
`ClientsCorrect`, `FramesCorrect`, `QueuesCorrect`. `ExtInv` says of each session what
its operations have to do with its queue whoever acts on it (`SessionOK`): it is
untouched until accepted, has no operation once deleted, what is being written
is at the head of its queue, and what is queued is being written. `FlushIsPosted`
is the same for the queue between the threads. The two give `NothingIsStranded`,
the safety half of `QueuesDrain`, which is only model-checked.

### The air: `AfskLink`

From `send()` of one station to the `dispatch_packet()` of another, bit by bit:
`Samples` is preamble, stuffed data with CRC, tail, in NRZI; `Key`, `Fill`,
`Filled`, `Release` are the parts of `output_callback()` between two locks;
`Write` waits for room in the device, `WriteFails` is the error path of
`snd_pcm_writei()`, `Play` lets the other station hear a buffer,
or silence when the PTT is not on; `Demodulate`, `rxbit` and
`ax25_dispatch_packet` are the receiver. A symbol is one sample: tones and
filters are left out, and the line does not err.

The device may stop at any time (`DeviceStops`: it ran dry, or was suspended). The
write that finds it so fails, its buffer is lost, and the recovery
(`audiosource_alsa.cpp:229-230`) drops and prepares the handle of the capture
device, so the playing one stays as it is and every later write fails too: `stopped`
is never reset, packets are taken from the queue and not heard. What the recovery
does to the capturing of the same station, and writes that end short, are left out.

`DelaysCover` says what delays are long enough: `tx-delay` covers a buffer and two
bytes, `tx-tail` covers what the device holds, one buffer more and a byte, because
the PTT is keyed and released when a buffer is filled and not when it is played; and
a buffer is a byte at least. It is no assumption of the module: nothing in
`src/extmodem` checks it, and the defaults (`extconfig.cpp:60-65`: 200 ms and 50 ms,
against buffers of 8192 samples, 372 ms at 22050 Hz) do not meet it. So there are two
properties. `HeardInOrder` is for any delays: what is dispatched was sent, in that
order and once, however much is cut off. `HeardAsSent` says that nothing is cut
off: no packet is skipped, and when nothing is left to play and the device has
not stopped, all are heard. It holds with `DelaysCover` only; with the short delays
of the run below, TLC finds packets without an end. That is a finding.

Run `afsk`: a byte of ones (stuffed), a packet whose CRC is 0, and one longer than
the receiver's buffer with flags as data; up to 3 packets, so that one is dropped by
the limit of the queue (`MaxQueue = 1`) or repeated; buffers of 16 samples, 1 buffer in
the device. The run has two stations, by `covered`, which never changes: one with 4
and 5 flags, as short as `DelaysCover` allows, and one with 1 and 1 (`Short`), whose
delays are to its buffers about what the defaults are. `HeardAsConfigured` is
`HeardInOrder` for both and `HeardAsSent` for the first; the device may stop in both. `Expected` says what of this the
other station can dispatch: not the packet that is too long, not one with the CRC
of the packet dispatched before (`modem::dispatch_packet()` takes it for an echo),
hence not a first packet with the CRC 0, with which `last_packet_crc_` starts.

Proved in `AfskLinkProofs`, for any packets that are not empty, any sizes and bounds:
`KeyedForAReason` for all delays, and `DelaysCover => (Spec => []HeardAsSent)`. That
`DelaysCover` is a hypothesis of the theorem, and of the lemmas that need it, says what
a user has to configure; `HeardInOrder` with delays that do not is only model-checked.
In this order:

* Folds. `FoldLeft` is a CHOOSE over recursive functions on sets. `LeastNumber` gets
  the least element of a set of numbers from the library's theorem that the finite
  sets are well founded; from it `Induction` and `InductionUpTo`, which speak of a set
  of numbers in place of a predicate, and the existence of the functions folds
  are made of. The lemmas on `FoldLeft` that follow (its type, one element more,
  two sequences one behind the other) carry the rest.
* `CrcAccepted`: bits with the result of `calc_crc_ccitt()` behind them pass
  `check_crc_ccitt()`. The register is linear, so each bit of the CRC
  takes what the data left in one place of it out again (`Residue`), and what stays is
  the same for all data.
* Stuffing: what has been sent after each bit of the message, and how many ones
  came last (`StuffSteps`, `StuffBegins`).
* The receiver, symbol by symbol: of the preamble (`Preamble`), of the data
  (`Data`: how many bits of the message `rxbuf` has, unless they are too many for it, and
  how many ones came last), of the tail (`AfterIt`), of silence (`Silent`), and of
  symbols that were muted. At the first flag of the tail it dispatches what
  `Deliver` says of the packet, and nothing anywhere else (`Sync`).
* The buffers. `K` and `P` say of every symbol that waits in a buffer to which
  packet it belongs and which of its symbols it is (`Coded`), so that each is
  followed by its successor, by silence, or by the next packet (`Path`); what is in
  the queue comes after them (`Frontier`).
* The PTT. `Keyed` says that while it is off all that waits may be
  muted (`Muted`: silence, the first buffer of a preamble, what comes after the first
  flag of a tail), and that when it is about to be released the last symbol of all
  packets is in the buffer that has just been filled (`LastIn`).
  This is where the two inequalities of `DelaysCover` are used.

`Inv` is `Typed` and these (`Linked`), or, once the device has stopped, what was heard
until then (`Heard`); `HeardAsSent` alone says nothing of what is
under way, so no step can be shown to keep it. `AlwaysLinked` proves that it is kept by each
action, and `HeardAsSentAlways` that it implies `HeardAsSent`. `Typed` is inductive by
itself; it has what `TypeOK` does not say (`send()` looked at the queue before it
made the samples, a buffer is full once it leaves `Fill`), and gives
`KeyedForAReasonAlways`.

## 8. iaxmodem: `IaxModem`, `IaxSupervisor`

### A modem process: `IaxModem`

The process is one thread, so each AT command, timer and IAX event is an action
with all that its handler does; only signals come between two. `modemstate`,
`phonestate`, `regstate`, `session` (that is `session[0]`), `dialextra`, `rings`
and `gothup` are the variables of the code, `lastdtedata` is the age of the DTE's last
byte in three steps (0, 1, and 2 for the 45 seconds), `at` the mode of spandsp's AT
interpreter, `sess` the sessions libiax2 holds. Events of a destroyed session
do not exist (libiax2 drops them), so the peer's sending an event and the loop's
taking it are one action; an event of a session that is open but is not
`session[0]` is taken as the code takes it, without a look at whose it is.

What the DTE types is `DteStep`: the commands that dial, answer and hang up, the
class 1 commands (`Class1Command`, which takes the interpreter to any mode of a
call and back), `ATO` (`Online`), and any other bytes (`Type`). `at_cmd_O()`
(`at_interpreter.c:1002-1017`) puts the interpreter in data mode without a look at
the hook, so an idle modem can be in data mode on hook. `HookAgrees` says that it is
the only way: a line in use always has a DTE off hook, and no step but `Online`
makes an idle modem one whose interpreter is off hook. What follows an `ATO` in the
same `read()` is in the model only as far as `Class1Command` is free to choose.

`strayed` is a history: `ATH` came while a call was dialed and not accepted yet.
The code then leaves the session open (see below), and `NoStrayCalls` promises
nothing.

Run `iaxmodem`: two sessions, so that a second call can come or go while one is
up, and `S0 = 2`, the least with which a call rings before it is answered.
Deadlock is checked. Fairness: time passes (`Quiet`) and the timers of the loop
are seen to (`NoAnswer`, `RefreshDue`, `Register`); nothing of the DTE, the server or the
remote side. The 45 seconds a call may take to be answered are counted from the
last byte the DTE typed (`iaxmodem.c:1110`, `1124`), so every step of the DTE sets
`lastdtedata` to 0, `NoAnswer` is disabled until it is 2, and fairness does not help
a modem whose DTE types in time again and again: it dials for ever, and
`WaitingEnds` says that this is the only way.

Proved in `IaxModemProofs`, for any set of sessions and any `S0`:
`NoStrayCallsCorrect`, `HookCorrect`, `HupCorrect`. The invariant is `ModemInv`.
Its two properties and the types are inductive together with `RingsLeft` (a
modem that rings has a ring left to count, or would count past `S0`): the
lemmas `OpenedOpen`, `ClosedOpen` and `ChangedOpen` say what an event does to the
set of open sessions, and the proof of every step goes from there. `HupCorrect`
needs the invariant of `NoStrayCalls` for the sessions at the end of a call.
`HookCorrect` has two halves, the invariant `HookHeld`, which is part of `ModemInv`, and
a step, `HookStep`, from that invariant.
The proofs rest on `S0Assumption`. Only model-checked: `WaitingEnds`.

### The controlling process: `IaxSupervisor`

`Fork`, `Add`, `Spawned` are `spawn_modems()`; `Reap`, `RestartModem`,
`RemoveModem`, `WaitEnds` are `wait_for_modems()`; `Hup` and `Term` are the
signal handlers with `reload_modems()` and `terminate_modems()`, and come
between any two steps. A child is `starting` until `iaxmodem()` has installed its
handlers and misses signals before that. It may end by itself in any way at any
time.

Run `iaxsupervisor`: two configuration files, up to `MaxForks = 4` processes, so
each file's process can be started again once. Deadlock is not checked: the
process ends, or the bound is reached. Fairness: the supervisor goes on; nothing
is assumed of modems. The exceptions of the properties are how the code is:
`lost` (the list has been dropped), `refused` (a `fork()` failed), `orderly` (no
reload before SIGTERM).

Proved in `IaxSupervisorProofs`, for any set of files and any `MaxForks`:
`OneProcessCorrect`, `ListCorrect`. In `SupervisorInv`, `AllCounted` is the reason
that the process does not end or reload over a running modem: `numchild` may be
too high, never too low, so at 0 there is no modem left (cardinalities of the
processes not reaped). `OneOwnerPerConfig` says that a file to be started has no
process, `EntriesAgree` and `UnreapedListed` what the list has of a process.
Only model-checked: `RestartedAfterHup`, `StopCompletes`.

## 9. Findings

| Run | What it shows |
|---|---|
| `socket_stop` | `stop()` joins, in the GUI thread, a thread that waits for the GUI thread |
| `t30_skips` | a DIS that comes again after EOM and MCF makes the caller skip a page and still return 0 |

Seen while modelling, in the models as they are, and stated by no run:

*The fax program*

* A close-down during a conversion that fails is forgotten: `no_fax_made_cb()`
  (`efax_controller.cpp:248-258`) does not look at `close_down`, though
  `mainwindow.cpp:1003-1005` says the loop ends once the session is dealt with.
* SIGTERM to a child before its `execvp()` (`efax_controller.cpp:364-381`, `1084`)
  runs the handler inherited from the program (`mainwindow.cpp:915`), which
  closes the program.
* Stop, a close-down, or Send in standby before the pid of efax is published
  (1066, 155-159): nothing is killed, and all wait until efax ends by itself.
* `child_ended_cb()` posts itself anew while a fax list is being constructed
  (`efax_controller.cpp:788-796`), and `populate_fax_list()` iterates the main
  loop `while (gtk_events_pending())` (`fax_list_manager.cpp:754-758`), which the
  callback makes true each time: neither ends, where the comment at 788-791 says that
  the callback only waits "until construction has completed". A kill or a
  close-down does not complete then (`ListWaitsForCallback`).
* Lines 1069-1071 say the recorded child cannot have been reaped; between
  `ReapChild` and `child_ended_cb` it has been, and the `getpgid()` check of line
  1083 is what keeps the signal from it.
* `receive()` returns without `display_state()` when `faxin/current` cannot be
  made (line 603), although lines 839-840 count on it: hence the condition of
  `StateIsShown`.
* `is_receiving_fax()` (156) looks for a page before `kill_child()` is called: a
  call that is answered in between is cut off. `save_sent_fax()` failing (1132)
  leaves pages beside the file, where a later conversion finds them: hence the
  condition of `NoStalePages`.
* A second `cleanup()` of the socket server, when an error is dispatched after
  `stop()`, joins through a null pointer (`socket_server.cpp:276`, `340-342`,
  `362`): the model stops there (`crashed`).
* `remove_file()` saves the list of print jobs after its lock is released
  (`socket_server.cpp:420`), although lines 470-472 say that all callers hold it;
  opening the file empties it (481), so a kill there loses the list; the
  temporary file of a failed read stays (320).
* `settings_changed_cb()` starts a server that is switched off when its address
  has changed (`mainwindow.cpp:1548-1555`); a job may be offered that has been
  removed since (1259).

*efax*

* A frame that is not DIS in phase B, and DCN, end the caller with 0; a last page
  rejected three times is given up with 0 as well; after MPS and EOM a rejected
  page is sent again without limit (`efax.c:1663`, `1688-1689`), where
  `efax.1:162-163` says "up to 3 times".
* A page whose end (RTC) is lost is merged with the next in one file; PIP after
  the last page makes a fax that was confirmed end with 2.

*linmodem*

* `ATH` can set `hangup_request` only in the batch of lines of the `ATD` or `ATA`
  before it, and `SM_CALL` and `SM_RECEIVE` clear it (`lm.c:220`): no call can be
  hung up, so the branches on `hangup_request` never run. What was typed while the
  modem dialed is executed or sent later (`atparser.c:46`).

*extmodem*

* A read error that is handled while a write has ended and its handler has not
  run leaves a closed session that nobody deletes, unless more is queued: the
  handler of the write succeeds and does not look at `closing_`.
* The PTT is released when the last buffer has been filled, before it is written:
  with the default `tx-tail` and `tx-delay` (`extconfig.cpp:60-65`), which a buffer
  outlasts, ends of packets, and beginnings, are not transmitted (`DelaysCover`).
* After one failed `snd_pcm_writei()` nothing is transmitted any more: the playing
  loop recovers the capture handle (`audiosource_alsa.cpp:229-230`).
* Packets are told apart by the last CRC only; `send()` drops packets beyond
  five in the queue without a word; `kiss.cpp:91` takes FESC TFESC for something
  else; an AGWPE frame that arrives in two reads is not put together
  (`tcpserver_agwpe.cpp:395`).

*iaxmodem*

* `ATH` while a call is dialed and not accepted leaves the IAX call open
  (`strayed`), though the FAQ (121-123) says that an instance has one call at a
  time. Events, `IAX_EVENT_TIMEOUT` excepted, are taken without a look at their
  session.
* `ATO` takes an idle modem to data mode, on hook (`at_interpreter.c:1002-1017`): what
  the DTE types is then no command any more. A DTE that
  types while dialing puts the 45 seconds off (`iaxmodem.c:1110`).
* A SIGHUP in `MODEM_OFFHOOK` is not taken when `ATH` leaves it, `dialextra` of a
  call that fails is dialed in the next one that is answered, and SIGALRM may send
  digits on a session that is gone.
* `remove_modem()` never removes the last entry, and drops the list with the
  first; a process it keeps is signalled by its old number. After a reload
  `gothup` stays set, so the next SIGTERM starts all modems anew and only a
  second one, by its default action, ends the supervisor. A child that is
  starting, or forked and not in the list yet, misses SIGTERM. In
  `port = iax_init(port) < 0` the port gets the result of the comparison.

## 10. Mutants

Each property has one definition of the code in a mutated form beside it
(`..._without_...`, `..._with_...`), which breaks it: a guard dropped, an
`unlink()` or a signal forgotten, a check of one message instead of two. They
are operators that nothing else uses.

## 11. What is not modelled

Signal processing, image coding, codecs and the rest of the vendored libraries
(by far most of the lines of the tree): numerical code and tables, of which a
state machine says nothing. Widgets, help, settings pages, the address book and
the start of the program: their state is shallow, and what the controller or
the server use of it is in their modules. The moving of faxes between folders,
the logger, the notify dialog, the ring buffers of linmodem and the parsing of
KISS and AGWPE frames are small sequential parts that are left for later (see
the plan). Each component's status and the reason stand in `PROJECT.json`.

Every safety invariant, action property and refinement that a passing run checks is
proved for every value of the constants, except the part of `HeardAsConfigured` about
delays that do not cover the buffers. Liveness under fairness is out of the
prover's reach and is model-checked only: `KillIsDealtWith`, `CloseDownCompletes`,
`EveryJobIsOffered`, `CallsComeToAnEnd`, `BothHangUp`, `QueuesDrain`, `WaitingEnds`,
`RestartedAfterHup`, `StopCompletes`.
