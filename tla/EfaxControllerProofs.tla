------------------------ MODULE EfaxControllerProofs ------------------------
(***************************************************************************)
(* Theorems about EfaxController for any sets of faxes, workers and pids:  *)
(* its sessions, the place of every fax, that it implements FaxJobs, and   *)
(* the efax child of a session.                                            *)
(***************************************************************************)
EXTENDS EfaxJobs, SequenceTheorems, TLAPS

USE DEF sessionVars, threadVars, processVars, queueVars, configVars, loopVars,
        closeVars, fileVars

-----------------------------------------------------------------------------
(***************************************************************************)
(* What the shared pieces of the handlers do to types.                     *)
(***************************************************************************)

LEMMA NoWorkerType == NoWorker \in WorkerRecords
BY NoPidAssumption DEF NoWorker, WorkerRecords, WorkerPCs, ProcStates, ExitCodes, Killed

LEMMA KillChildType ==
  ASSUME TypeOK, NEW sp \in BOOLEAN, kill_child(sp)
  PROVE  /\ killing' \in Pids \cup {NoPid}
         /\ worker' \in [Workers -> WorkerRecords]
         /\ sig_pipe' \in BOOLEAN
<1> DEFINE targets == {w \in Workers : worker[w].pid = child_pid /\ Alive(w)}
           signalled(w) == IF w \in targets /\ worker[w].proc = "running"
                           THEN [worker[w] EXCEPT !.proc = "termed"]
                           ELSE worker[w]
<1>1. CASE child_pid = NoPid \/ targets = {}
  BY <1>1 DEF TypeOK, kill_child
<1>2. CASE ~(child_pid = NoPid \/ targets = {})
  <2>1. /\ killing' = child_pid
        /\ worker' = [w \in Workers |-> signalled(w)]
        /\ sig_pipe' = (sp \/ \E w \in targets : worker[w].proc = "held")
    BY <1>2 DEF kill_child
  <2>2. \A w \in Workers : signalled(w) \in WorkerRecords
    BY DEF TypeOK, WorkerRecords, ProcStates
  <2>3. sig_pipe' \in BOOLEAN
    <3> HIDE DEF targets
    <3> QED BY <2>1, Zenon
  <2> QED
    BY <2>1, <2>2, <2>3 DEF TypeOK
<1> QED
  BY <1>1, <1>2

LEMMA StartThreadType ==
  ASSUME TypeOK, NEW kind \in {"send", "receive"}, NEW s \in States,
         NEW pc \in WorkerPCs, start_thread(kind, s, pc)
  PROVE  /\ worker' \in [Workers -> WorkerRecords]
         /\ stdout_pipe' \in BOOLEAN
         /\ state' \in States
         /\ shown' \in States
<1>1. [NoWorker EXCEPT !.pc = pc, !.kind = kind] \in WorkerRecords
  BY NoWorkerType DEF WorkerRecords, NoWorker
<1>2. "inactive" \in States
  BY DEF States
<1> QED
  BY <1>1, <1>2 DEF TypeOK, start_thread

LEMMA ReceiveBodyType ==
  ASSUME TypeOK, NEW mode \in ReceiveModes, NEW dir \in DirStates,
         receive_body(mode, dir)
  PROVE  /\ worker' \in [Workers -> WorkerRecords]
         /\ stdout_pipe' \in BOOLEAN
         /\ state' \in States
         /\ shown' \in States
         /\ current' \in DirStates
<1>1. mode \in States /\ "inactive" \in States /\ "fork" \in WorkerPCs
  BY DEF States, WorkerPCs
<1>2. CASE start_thread("receive", mode, "fork") /\ current' = "empty"
  BY <1>1, <1>2, StartThreadType DEF DirStates
<1>3. CASE /\ state' = "inactive"
           /\ current' = dir
           /\ stdout_pipe' = FALSE
           /\ UNCHANGED <<shown, worker>>
  BY <1>1, <1>3 DEF TypeOK
<1> QED
  BY <1>2, <1>3 DEF receive_body

LEMMA FinishSendType ==
  ASSUME TypeOK, NEW b \in BOOLEAN, finish_send(b)
  PROVE  /\ worker' \in [Workers -> WorkerRecords]
         /\ stdout_pipe' \in BOOLEAN
         /\ state' \in States
         /\ shown' \in States
         /\ current' \in DirStates
<1>1. "receive_standby" \in ReceiveModes /\ "inactive" \in States
  BY DEF ReceiveModes, States
<1> QED
  BY <1>1, ReceiveBodyType DEF finish_send, TypeOK

LEMMA SendfaxImplType ==
  ASSUME TypeOK, NEW f \in Faxes, NEW inc \in BOOLEAN, NEW inr \in BOOLEAN,
         NEW queue \in [Faxes -> Nat], NEW result \in [Faxes -> Outcomes],
         sendfax_impl(f, inc, inr, queue, result)
  PROVE  /\ killing' \in Pids \cup {NoPid}
         /\ worker' \in [Workers -> WorkerRecords]
         /\ sig_pipe' \in BOOLEAN
         /\ stdout_pipe' \in BOOLEAN
         /\ state' \in States
         /\ shown' \in States
         /\ last_fax_item_sent' \in Faxes \cup {NoFax}
         /\ redial_queue' \in [Faxes -> Nat]
         /\ outcome' \in [Faxes -> Outcomes]
<1>1. start_redial_timeout(f, queue) \in [Faxes -> Nat]
  BY DEF start_redial_timeout
<1>2. {"refused", "no_thread"} \subseteq Outcomes
  BY DEF Outcomes
<1>3. {"sending", "send_on_standby", "start_send_on_standby"} \subseteq States
  BY DEF States, SendStates
<1>4. ASSUME NEW again, cannot_send(f, again, queue, result)
      PROVE  /\ redial_queue' \in [Faxes -> Nat]
             /\ outcome' \in [Faxes -> Outcomes]
             /\ UNCHANGED <<state, shown, last_fax_item_sent, stdout_pipe,
                            killing, worker, sig_pipe>>
  BY <1>1, <1>2, <1>4 DEF cannot_send
<1>5. CASE /\ last_fax_item_sent' = f
           /\ state' = "start_send_on_standby"
           /\ kill_child(sig_pipe)
           /\ redial_queue' = queue
           /\ outcome' = result
           /\ UNCHANGED <<shown, stdout_pipe>>
  <2>1. sig_pipe \in BOOLEAN
    BY DEF TypeOK
  <2> QED
    BY <1>3, <1>5, <2>1, KillChildType DEF TypeOK
<1>6. CASE /\ start_thread("send", IF state = "inactive" THEN "sending"
                                   ELSE "send_on_standby", "convert")
           /\ last_fax_item_sent' = f
           /\ redial_queue' = queue
           /\ outcome' = IF state' = "inactive"
                         THEN [result EXCEPT ![f] = "no_thread"] ELSE result
           /\ UNCHANGED <<killing, sig_pipe>>
  <2>1. "convert" \in WorkerPCs
    BY DEF WorkerPCs
  <2>2. /\ worker' \in [Workers -> WorkerRecords]
        /\ stdout_pipe' \in BOOLEAN
        /\ state' \in States
        /\ shown' \in States
    BY <1>3, <1>6, <2>1, StartThreadType
  <2>3. outcome' \in [Faxes -> Outcomes]
    BY <1>2, <1>6
  <2> QED
    BY <1>6, <2>2, <2>3 DEF TypeOK
<1>7. CASE \/ cannot_send(f, inr \/ redial, queue, result)
           \/ cannot_send(f, redial, queue, result)
  BY <1>4, <1>7 DEF TypeOK
<1> QED
  BY <1>5, <1>6, <1>7 DEF sendfax_impl

LEMMA ClosedownType ==
  ASSUME TypeOK, NEW sp \in BOOLEAN, efax_closedown(sp)
  PROVE  /\ killing' \in Pids \cup {NoPid}
         /\ worker' \in [Workers -> WorkerRecords]
         /\ sig_pipe' \in BOOLEAN
         /\ close_down' \in BOOLEAN
         /\ main_loop' \in {"running", "quit", "exited"}
BY KillChildType DEF efax_closedown, TypeOK

-----------------------------------------------------------------------------
(***************************************************************************)
(* Type correctness, handler by handler.                                   *)
(***************************************************************************)

LEMMA UserStepType == TypeOK /\ UserStep => TypeOK'
<1> SUFFICES ASSUME TypeOK, UserStep PROVE TypeOK'
  OBVIOUS
<1> USE DEF TypeOK
<1>0. {"pending", "removed"} \subseteq Outcomes
  BY DEF Outcomes
<1>1. ASSUME NEW f \in Faxes, SendFax(f) PROVE TypeOK'
  <2>1. [outcome EXCEPT ![f] = "pending"] \in [Faxes -> Outcomes]
    BY <1>0
  <2> QED
    BY <1>1, <2>1, SendfaxImplType DEF SendFax
<1>2. ASSUME NEW f \in Faxes, RemoveFromRedialQueue(f) PROVE TypeOK'
  BY <1>0, <1>2 DEF RemoveFromRedialQueue, RedialQueue_remove
<1>3. ASSUME NEW f \in Faxes, RemoveSocketFile(f) PROVE TypeOK'
  BY <1>3 DEF RemoveSocketFile
<1>4. ASSUME NEW mode \in ReceiveModes, Receive(mode) PROVE TypeOK'
  BY <1>4, ReceiveBodyType DEF Receive
<1>5. CASE Stop
  BY <1>5, KillChildType DEF Stop
<1>6. CASE Close
  BY <1>6, ClosedownType DEF Close
<1>7. CASE OpenSettings
  BY <1>7 DEF OpenSettings
<1>8. CASE PopulateFaxList
  BY <1>8 DEF PopulateFaxList
<1>9. ASSUME NEW r \in BOOLEAN, CloseSettings(r) PROVE TypeOK'
  <2>1. redial' \in BOOLEAN /\ settings_open' \in BOOLEAN
    BY <1>9, Zenon DEF CloseSettings
  <2> QED
    BY <1>9, <2>1 DEF CloseSettings
<1> QED
  BY <1>1, <1>2, <1>3, <1>4, <1>5, <1>6, <1>7, <1>8, <1>9 DEF UserStep

\* The parts of child_ended_cb() and no_fax_made_cb() that touch the files.
LEMMA CleanupType ==
  ASSUME TypeOK, NEW f
  PROVE  /\ receive_cleanup \subseteq DirStates
         /\ save_sent_fax(f) \subseteq SUBSET Faxes
         /\ cleanup_fax_send_fail(f) \in SUBSET Faxes
BY DEF TypeOK, receive_cleanup, DirStates, save_sent_fax, cleanup_fax_send_fail

\* A callback taken from the queue leaves a queue of callbacks.
LEMMA PostedType ==
  ASSUME TypeOK, posted # <<>>
  PROVE  /\ Head(posted) \in Callbacks
         /\ Tail(posted) \in Seq(Callbacks)
BY DEF TypeOK

LEMMA SendEndedType ==
  ASSUME TypeOK, NEW code, send_ended(code)
  PROVE  /\ killing' \in Pids \cup {NoPid}
         /\ worker' \in [Workers -> WorkerRecords]
         /\ sig_pipe' \in BOOLEAN
         /\ stdout_pipe' \in BOOLEAN
         /\ state' \in States
         /\ shown' \in States
         /\ last_fax_item_sent' \in Faxes \cup {NoFax}
         /\ redial_queue' \in [Faxes -> Nat]
         /\ outcome' \in [Faxes -> Outcomes]
         /\ current' \in DirStates
         /\ tiff' \in SUBSET Faxes
         /\ filenames' \in SUBSET SocketFaxes
<1>1. {"sent", "failed"} \subseteq Outcomes
  BY DEF Outcomes
<1>2. finish_send(state = "send_on_standby" /\ ~close_down)
  BY DEF send_ended
<1>3. /\ worker' \in [Workers -> WorkerRecords]
      /\ stdout_pipe' \in BOOLEAN
      /\ state' \in States
      /\ shown' \in States
      /\ current' \in DirStates
  <2>1. (state = "send_on_standby" /\ ~close_down) \in BOOLEAN
    BY Zenon
  <2> QED
    BY <1>2, <2>1, FinishSendType, Zenon
<1>4. redial_queue' \in [Faxes -> Nat]
  BY DEF send_ended, start_redial_timeout, TypeOK
<1>5. outcome' \in [Faxes -> Outcomes]
  BY <1>1 DEF send_ended, TypeOK
<1>6. tiff' \in SUBSET Faxes /\ filenames' \in SUBSET SocketFaxes
  BY CleanupType DEF send_ended, TypeOK
<1> QED
  BY <1>3, <1>4, <1>5, <1>6 DEF send_ended, TypeOK

LEMMA StandbyEndedType ==
  ASSUME TypeOK, last_fax_item_sent \in Faxes, standby_ended_to_send
  PROVE  /\ killing' \in Pids \cup {NoPid}
         /\ worker' \in [Workers -> WorkerRecords]
         /\ sig_pipe' \in BOOLEAN
         /\ stdout_pipe' \in BOOLEAN
         /\ state' \in States
         /\ shown' \in States
         /\ last_fax_item_sent' \in Faxes \cup {NoFax}
         /\ redial_queue' \in [Faxes -> Nat]
         /\ outcome' \in [Faxes -> Outcomes]
         /\ current' \in DirStates
         /\ tiff' \in SUBSET Faxes
         /\ filenames' \in SUBSET SocketFaxes
<1>1. "closed" \in Outcomes /\ "inactive" \in States
  BY DEF Outcomes, States
<1>2. /\ current' \in DirStates
      /\ tiff' \in SUBSET Faxes
      /\ filenames' \in SUBSET SocketFaxes
  BY CleanupType DEF standby_ended_to_send, TypeOK
<1>3. CASE sendfax_impl(last_fax_item_sent, TRUE, FALSE, redial_queue, outcome)
  <2>1. /\ redial_queue \in [Faxes -> Nat]
        /\ outcome \in [Faxes -> Outcomes]
    BY DEF TypeOK
  <2> QED
    BY <1>2, <1>3, <2>1, SendfaxImplType
<1>4. CASE close_down
  BY <1>1, <1>2, <1>4 DEF standby_ended_to_send, TypeOK
<1> QED
  BY <1>3, <1>4 DEF standby_ended_to_send

(***************************************************************************)
(* The item that a handler or a worker goes on with is a fax, not NoFax:   *)
(* what makes TypeOK inductive.                                            *)
(***************************************************************************)
ItemKnown ==
  /\ state \in SendStates => last_fax_item_sent \in Faxes
  /\ \A w \in Workers : worker[w].pc = "convert" => last_fax_item_sent \in Faxes

LEMMA CallbackStepType == TypeOK /\ ItemKnown /\ CallbackStep => TypeOK'
<1> SUFFICES ASSUME TypeOK, ItemKnown, CallbackStep PROVE TypeOK'
  OBVIOUS
<1>0. {"cancelled", "not_made"} \subseteq Outcomes
  BY DEF Outcomes
<1>1. CASE KillAfterDelay
  <2>1. \A w \in Workers :
          [worker[w] EXCEPT !.proc = "zombie", !.code = Killed] \in WorkerRecords
    BY DEF TypeOK, WorkerRecords, ProcStates
  <2> QED
    BY <1>1, <2>1 DEF KillAfterDelay, TypeOK
<1>2. CASE SigEvent
  BY <1>2, ClosedownType DEF SigEvent, TypeOK
<1>3. CASE FaxListPopulated
  BY <1>3 DEF FaxListPopulated, TypeOK
<1>4. CASE no_fax_made_cb
  <2>1. finish_send(state = "send_on_standby") /\ posted # <<>>
    BY <1>4 DEF no_fax_made_cb
  <2>2. (state = "send_on_standby") \in BOOLEAN
    BY Zenon
  <2>3. /\ worker' \in [Workers -> WorkerRecords]
        /\ stdout_pipe' \in BOOLEAN
        /\ state' \in States
        /\ shown' \in States
        /\ current' \in DirStates
    BY <2>1, <2>2, FinishSendType, Zenon
  <2>4. tiff' \in SUBSET Faxes /\ outcome' \in [Faxes -> Outcomes]
    BY <1>0, <1>4, CleanupType DEF no_fax_made_cb, TypeOK
  <2> QED
    BY <1>4, <2>1, <2>3, <2>4, PostedType DEF no_fax_made_cb, TypeOK
<1>5. CASE child_ended_cb_deferred
  <2>1. posted' \in Seq(Callbacks)
    BY <1>5, PostedType DEF child_ended_cb_deferred
  <2> QED
    BY <1>5, <2>1 DEF child_ended_cb_deferred, TypeOK
<1>6. CASE child_ended_cb
  <2> DEFINE code == Head(posted).code
  <2>1. CASE state \in {"sending", "send_on_standby"} /\ send_ended(code)
    BY <1>6, <2>1, SendEndedType, PostedType DEF child_ended_cb, TypeOK
  <2>2. CASE state = "start_send_on_standby" /\ standby_ended_to_send
    <3>1. last_fax_item_sent \in Faxes
      BY <2>2 DEF ItemKnown, SendStates
    <3> QED
      BY <1>6, <2>2, <3>1, StandbyEndedType, PostedType DEF child_ended_cb, TypeOK
  <2>3. CASE restart_standby
    <3>1. PICK dir \in DirStates : receive_body("receive_standby", dir)
      BY <2>3, CleanupType DEF restart_standby
    <3>2. "receive_standby" \in ReceiveModes
      BY DEF ReceiveModes
    <3> QED
      BY <1>6, <2>3, <3>1, <3>2, ReceiveBodyType, PostedType
        DEF child_ended_cb, restart_standby, TypeOK
  <2>4. CASE end_receive
    <3>1. "inactive" \in States
      BY DEF States
    <3> QED
      BY <1>6, <2>4, <3>1, CleanupType, PostedType
        DEF child_ended_cb, end_receive, TypeOK
  <2> QED
    BY <1>6, <2>1, <2>2, <2>3, <2>4 DEF child_ended_cb
<1>7. ASSUME NEW f \in Faxes, redial_cb(f) PROVE TypeOK'
  <2> DEFINE removed == RedialQueue_remove(f, redial_queue)
  <2>1. removed \in [Faxes -> Nat]
    BY <1>7 DEF redial_cb, RedialQueue_remove, TypeOK
  <2>2. CASE sendfax_impl(f, FALSE, TRUE, removed, outcome)
    BY <1>7, <2>1, <2>2, SendfaxImplType DEF redial_cb, TypeOK
  <2>3. CASE /\ redial_queue' \in {removed, [removed EXCEPT ![f] = @ + 1]}
             /\ outcome' \in {outcome, [outcome EXCEPT ![f] = "cancelled"]}
             /\ UNCHANGED <<sessionVars, processVars>>
    <3>1. redial_queue' \in [Faxes -> Nat]
      BY <2>1, <2>3
    <3>2. outcome' \in [Faxes -> Outcomes]
      BY <1>0, <2>3 DEF TypeOK
    <3>3. UNCHANGED <<threadVars, configVars, loopVars, closeVars, fileVars>>
      BY <1>7 DEF redial_cb
    <3> QED
      BY <2>3, <3>1, <3>2, <3>3 DEF TypeOK
  <2> QED
    BY <1>7, <2>2, <2>3 DEF redial_cb
<1> QED
  BY <1>1, <1>2, <1>3, <1>4, <1>5, <1>6, <1>7 DEF CallbackStep

\* A worker record with some fields changed is a worker record.
LEMMA SetPC ==
  ASSUME NEW r \in WorkerRecords, NEW pc \in WorkerPCs
  PROVE  [r EXCEPT !.pc = pc] \in WorkerRecords
BY DEF WorkerRecords

LEMMA SetProc ==
  ASSUME NEW r \in WorkerRecords, NEW proc \in ProcStates
  PROVE  [r EXCEPT !.proc = proc] \in WorkerRecords
BY DEF WorkerRecords

LEMMA SetProcAndCode ==
  ASSUME NEW r \in WorkerRecords, NEW proc \in ProcStates,
         NEW code \in ExitCodes \cup {Killed}
  PROVE  [r EXCEPT !.proc = proc, !.code = code] \in WorkerRecords
BY DEF WorkerRecords

LEMMA WorkerUpdate ==
  ASSUME TypeOK, NEW w \in Workers, NEW r \in WorkerRecords,
         worker' = [worker EXCEPT ![w] = r]
  PROVE  worker' \in [Workers -> WorkerRecords]
BY DEF TypeOK

LEMMA WorkerStepType ==
  TypeOK /\ ItemKnown /\ (\E w \in Workers : WorkerStep(w)) => TypeOK'
<1> SUFFICES ASSUME TypeOK, ItemKnown, NEW w \in Workers, WorkerStep(w)
             PROVE  TypeOK'
  OBVIOUS
<1>0. worker[w] \in WorkerRecords
  BY DEF TypeOK
<1>1. CASE ConvertSucceeds(w)
  <2>1. worker' = [worker EXCEPT ![w] = [worker[w] EXCEPT !.pc = "fork"]]
    BY <1>0, <1>1 DEF ConvertSucceeds
  <2>2. "fork" \in WorkerPCs
    BY DEF WorkerPCs
  <2>3. worker' \in [Workers -> WorkerRecords]
    BY <1>0, <2>1, <2>2, SetPC, WorkerUpdate
  <2> QED
    BY <1>1, <2>3 DEF ConvertSucceeds, TypeOK, ItemKnown
<1>2. CASE ConvertFails(w)
  <2>1. [cb |-> "no_fax_made", code |-> 0] \in Callbacks
    BY DEF Callbacks
  <2>2. posted' \in Seq(Callbacks)
    BY <1>2, <2>1 DEF ConvertFails, TypeOK
  <2>3. worker' \in [Workers -> WorkerRecords]
    BY <1>2, NoWorkerType DEF ConvertFails, TypeOK
  <2>4. tiff' \in SUBSET Faxes
    BY <1>2 DEF ConvertFails, TypeOK, ItemKnown
  <2> QED
    BY <1>2, <2>2, <2>3, <2>4 DEF ConvertFails, TypeOK
<1>3. CASE Fork(w)
  <2>1. ASSUME NEW p \in Pids,
               worker' = [worker EXCEPT ![w].pc = "publish", ![w].pid = p,
                                        ![w].proc = "held"]
        PROVE  worker' \in [Workers -> WorkerRecords]
    <3>1. [worker[w] EXCEPT !.pc = "publish", !.pid = p, !.proc = "held"]
            \in WorkerRecords
      BY <1>0 DEF WorkerRecords, WorkerPCs, ProcStates
    <3>2. worker' = [worker EXCEPT
            ![w] = [worker[w] EXCEPT !.pc = "publish", !.pid = p, !.proc = "held"]]
      BY <1>0, <2>1 DEF TypeOK, WorkerRecords
    <3> QED
      BY <3>1, <3>2, WorkerUpdate
  <2>2. worker' \in [Workers -> WorkerRecords]
    <3>1. CASE UNCHANGED worker
      BY <3>1 DEF TypeOK
    <3> QED
      BY <1>3, <2>1, <3>1 DEF Fork
  <2>3. main_loop' \in {"running", "quit", "exited"}
    BY <1>3 DEF Fork, TypeOK
  <2>4. UNCHANGED <<sessionVars, threadVars, queueVars, configVars, closeVars,
                    fileVars, list_iteration, killing, sig_pipe>>
    BY <1>3 DEF Fork
  <2> QED
    BY <2>2, <2>3, <2>4 DEF TypeOK
<1>4. CASE PublishPid(w)
  <2>1. worker' = [worker EXCEPT ![w] = [worker[w] EXCEPT !.pc = "join"]]
    BY <1>0, <1>4 DEF PublishPid
  <2>2. "join" \in WorkerPCs
    BY DEF WorkerPCs
  <2>3. worker' \in [Workers -> WorkerRecords]
    BY <1>0, <2>1, <2>2, SetPC, WorkerUpdate
  <2>4. worker[w].pid \in Pids \cup {NoPid}
    BY <1>0 DEF WorkerRecords
  <2> QED
    BY <1>4, <2>3, <2>4 DEF PublishPid, TypeOK
<1>5. CASE JoinChild(w)
  <2>1. worker' = [worker EXCEPT ![w] = [worker[w] EXCEPT !.pc = "wait"]]
    BY <1>0, <1>5 DEF JoinChild
  <2>2. "wait" \in WorkerPCs
    BY DEF WorkerPCs
  <2>3. worker' \in [Workers -> WorkerRecords]
    BY <1>0, <2>1, <2>2, SetPC, WorkerUpdate
  <2> QED
    BY <1>5, <2>3 DEF JoinChild, TypeOK
<1>6. CASE ReapChild(w)
  <2>1. [worker[w] EXCEPT !.pc = "post", !.proc = "reaped"] \in WorkerRecords
    BY <1>0 DEF WorkerRecords, WorkerPCs, ProcStates
  <2>2. worker' = [worker EXCEPT
          ![w] = [worker[w] EXCEPT !.pc = "post", !.proc = "reaped"]]
    BY <1>0, <1>6 DEF ReapChild, TypeOK, WorkerRecords
  <2>3. worker' \in [Workers -> WorkerRecords]
    BY <2>1, <2>2, WorkerUpdate
  <2> QED
    BY <1>6, <2>3 DEF ReapChild, TypeOK
<1>7. CASE PostChildEnded(w)
  <2>1. [cb |-> "child_ended", code |-> worker[w].code] \in Callbacks
    BY <1>0 DEF Callbacks, WorkerRecords
  <2>2. posted' \in Seq(Callbacks)
    BY <1>7, <2>1 DEF PostChildEnded, TypeOK
  <2>3. worker' \in [Workers -> WorkerRecords]
    BY <1>7, NoWorkerType DEF PostChildEnded, TypeOK
  <2> QED
    BY <1>7, <2>2, <2>3 DEF PostChildEnded, TypeOK
<1> QED
  BY <1>1, <1>2, <1>3, <1>4, <1>5, <1>6, <1>7 DEF WorkerStep

LEMMA OutsideStepType ==
  TypeOK /\ ((\E w \in Workers : ChildStep(w)) \/ ExternalSignal \/ Ended)
    => TypeOK'
<1> SUFFICES ASSUME TypeOK,
                    (\E w \in Workers : ChildStep(w)) \/ ExternalSignal \/ Ended
             PROVE  TypeOK'
  OBVIOUS
<1>1. ASSUME NEW w \in Workers, ChildExec(w) PROVE TypeOK'
  <2>0. worker[w] \in WorkerRecords
    BY DEF TypeOK
  <2>1. \/ worker' = [worker EXCEPT ![w] = [worker[w] EXCEPT !.proc = "running"]]
        \/ worker' = [worker EXCEPT
              ![w] = [worker[w] EXCEPT !.proc = "zombie", !.code = 5]]
    BY <1>1, <2>0 DEF ChildExec, TypeOK, WorkerRecords
  <2>2. {"running", "zombie"} \subseteq ProcStates /\ 5 \in ExitCodes
    BY DEF ProcStates, ExitCodes
  <2>3. worker' \in [Workers -> WorkerRecords]
    BY <2>0, <2>1, <2>2, SetProc, SetProcAndCode, WorkerUpdate
  <2> QED
    BY <1>1, <2>3 DEF ChildExec, TypeOK
<1>2. ASSUME NEW w \in Workers, PageArrives(w) PROVE TypeOK'
  BY <1>2 DEF PageArrives, TypeOK, DirStates
<1>3. ASSUME NEW w \in Workers, ChildExits(w) PROVE TypeOK'
  <2>0. worker[w] \in WorkerRecords
    BY DEF TypeOK
  <2>1. PICK c \in ExitCodes \cup {Killed} :
          worker' = [worker EXCEPT
            ![w] = [worker[w] EXCEPT !.proc = "zombie", !.code = c]]
    BY <1>3, <2>0 DEF ChildExits, TypeOK, WorkerRecords, ExitCodes
  <2>2. "zombie" \in ProcStates
    BY DEF ProcStates
  <2>3. worker' \in [Workers -> WorkerRecords]
    BY <2>0, <2>1, <2>2, SetProcAndCode, WorkerUpdate
  <2> QED
    BY <1>3, <2>3 DEF ChildExits, TypeOK
<1>4. CASE ExternalSignal
  BY <1>4 DEF ExternalSignal, TypeOK
<1>5. CASE Ended
  BY <1>5 DEF Ended, vars, TypeOK
<1> QED
  BY <1>1, <1>2, <1>3, <1>4, <1>5 DEF ChildStep

-----------------------------------------------------------------------------
(***************************************************************************)
(* Sessions.  A handler that starts a session does so when there is none,  *)
(* and leaves one worker or, failing that, the inactive state.             *)
(***************************************************************************)

NoActive == \A w \in Workers : ~Active(w)

OneActive == \E w \in Workers : \A v \in Workers : Active(v) <=> v = w

Converting(w) == worker[w].pc = "convert"

\* kill_child() changes processes, not threads.
LEMMA KillChildThreads ==
  ASSUME TypeOK, NEW sp, kill_child(sp)
  PROVE  \A w \in Workers : worker'[w].pc = worker[w].pc
BY DEF TypeOK, WorkerRecords, kill_child

\* What start_thread() leaves of threads and state, when it finds no thread.
LEMMA StartThreadSession ==
  ASSUME TypeOK, NoActive, NEW kind, NEW s, s # "inactive",
         NEW pc, pc # "none", start_thread(kind, s, pc)
  PROVE  /\ (state' = s /\ OneActive') \/ (state' = "inactive" /\ NoActive')
         /\ \A w \in Workers : worker'[w].pc \in {"none", pc}
<1>1. CASE \E w \in Workers :
              /\ worker' = [worker EXCEPT
                   ![w] = [NoWorker EXCEPT !.pc = pc, !.kind = kind]]
              /\ state' = s
  <2>1. PICK w \in Workers :
              /\ worker' = [worker EXCEPT
                   ![w] = [NoWorker EXCEPT !.pc = pc, !.kind = kind]]
              /\ state' = s
    BY <1>1
  <2>2. worker'[w].pc = pc /\ \A v \in Workers \ {w} : worker'[v] = worker[v]
    BY <2>1 DEF TypeOK, NoWorker
  <2> QED
    BY <2>1, <2>2 DEF NoActive, OneActive, Active
<1>2. CASE worker' = worker /\ state' = "inactive"
  BY <1>2 DEF NoActive, Active
<1> QED
  BY <1>1, <1>2 DEF start_thread

LEMMA ReceiveBodySession ==
  ASSUME TypeOK, NoActive, NEW mode \in ReceiveModes, NEW dir,
         receive_body(mode, dir)
  PROVE  /\ (state' = mode /\ OneActive') \/ (state' = "inactive" /\ NoActive')
         /\ \A w \in Workers : ~Converting(w)'
<1>1. mode # "inactive"
  BY DEF ReceiveModes
<1>2. CASE start_thread("receive", mode, "fork")
  <2>1. /\ (state' = mode /\ OneActive') \/ (state' = "inactive" /\ NoActive')
        /\ \A w \in Workers : worker'[w].pc \in {"none", "fork"}
    BY <1>1, <1>2, StartThreadSession
  <2> QED
    BY <2>1 DEF Converting
<1>3. CASE state' = "inactive" /\ worker' = worker
  BY <1>3 DEF NoActive, Active, Converting
<1> QED
  BY <1>2, <1>3 DEF receive_body

LEMMA FinishSendSession ==
  ASSUME TypeOK, NoActive, NEW b, finish_send(b)
  PROVE  /\ \/ state' = "receive_standby" /\ OneActive'
            \/ state' = "inactive" /\ NoActive'
         /\ \A w \in Workers : ~Converting(w)'
<1>1. "receive_standby" \in ReceiveModes
  BY DEF ReceiveModes
<1> QED
  BY <1>1, ReceiveBodySession
    DEF finish_send, NoActive, Active, Converting

(***************************************************************************)
(* sendfax_impl() starts a session only when there is none, makes standby  *)
(* give way, or changes neither state nor threads.                         *)
(***************************************************************************)
LEMMA SendfaxImplSession ==
  ASSUME TypeOK, NEW f, NEW inc \in BOOLEAN, NEW inr \in BOOLEAN,
         NEW queue, NEW result, sendfax_impl(f, inc, inr, queue, result),
         may_start(inc) => NoActive
  PROVE  \/ /\ may_start(inc)
            /\ last_fax_item_sent' = f
            /\ \/ state' = "inactive" /\ NoActive'
               \/ state' \in {"sending", "send_on_standby"} /\ OneActive'
         \/ /\ state = "receive_standby" /\ state' = "start_send_on_standby"
            /\ last_fax_item_sent' = f
            /\ \A w \in Workers : worker'[w].pc = worker[w].pc
         \/ ~may_start(inc) /\ UNCHANGED <<state, last_fax_item_sent, worker>>
<1>1. CASE /\ state = "receive_standby"
           /\ last_fax_item_sent' = f
           /\ state' = "start_send_on_standby"
           /\ kill_child(sig_pipe)
  BY <1>1, KillChildThreads
<1>2. CASE /\ may_start(inc)
           /\ start_thread("send", IF state = "inactive" THEN "sending"
                                   ELSE "send_on_standby", "convert")
           /\ last_fax_item_sent' = f
  <2> DEFINE s == IF state = "inactive" THEN "sending" ELSE "send_on_standby"
  <2>1. s \in {"sending", "send_on_standby"}
    OBVIOUS
  <2> HIDE DEF s
  <2>2. s # "inactive"
    BY <2>1
  <2>3. start_thread("send", s, "convert")
    BY <1>2 DEF s
  <2>4. (state' = s /\ OneActive') \/ (state' = "inactive" /\ NoActive')
    BY <1>2, <2>2, <2>3, StartThreadSession
  <2> QED
    BY <1>2, <2>1, <2>4
<1>3. CASE /\ ~may_start(inc)
           /\ \/ cannot_send(f, inr \/ redial, queue, result)
              \/ cannot_send(f, redial, queue, result)
  BY <1>3 DEF cannot_send
<1>4. state = "receive_standby" => ~may_start(inc)
  BY DEF may_start
<1> QED
  BY <1>1, <1>2, <1>3, <1>4 DEF sendfax_impl

(***************************************************************************)
(* OneSession as three phases: nothing going on, a worker at work, or the  *)
(* callback of a worker that has ended waiting for the GUI thread.         *)
(***************************************************************************)
Idle     == posted = <<>> /\ state = "inactive" /\ NoActive
Working  == posted = <<>> /\ state # "inactive" /\ OneActive
Reported == Len(posted) = 1 /\ state # "inactive" /\ NoActive

LEMMA Phases ==
  ASSUME TypeOK
  PROVE  OneSession <=> Idle \/ Working \/ Reported
<1>1. posted # <<>> <=> Len(posted) # 0
  BY DEF TypeOK
<1>2. Len(posted) \in Nat
  BY DEF TypeOK
<1>3. ASSUME OneSession PROVE Idle \/ Working \/ Reported
  <2>1. CASE posted # <<>>
    <3>1. Len(posted) <= 1
      BY <1>3 DEF OneSession
    <3>2. Len(posted) = 1
      <4> DEFINE n == Len(posted)
      <4>1. n \in Nat /\ n # 0 /\ n <= 1
        BY <1>1, <1>2, <2>1, <3>1
      <4> HIDE DEF n
      <4>2. n = 1
        BY <4>1
      <4> QED
        BY <4>2 DEF n
    <3>3. state # "inactive" /\ NoActive
      BY <1>3, <2>1, Zenon DEF OneSession, NoActive
    <3> QED
      BY <3>2, <3>3 DEF Reported
  <2>2. CASE posted = <<>>
    BY <1>3, <2>2 DEF OneSession, Idle, Working, NoActive, OneActive
  <2> QED
    BY <2>1, <2>2
<1>4. ASSUME Idle PROVE OneSession
  BY <1>1, <1>4 DEF OneSession, Idle, NoActive
<1>5. ASSUME Working PROVE OneSession
  BY <1>1, <1>5 DEF OneSession, Working, OneActive
<1>6. ASSUME Reported PROVE OneSession
  BY <1>1, <1>6 DEF OneSession, Reported, NoActive
<1> QED
  BY <1>3, <1>4, <1>5, <1>6

\* Pages are being made, or could not be made, for a fax being sent.
ConversionIsSending ==
  \/ \E w \in Workers : Converting(w)
  \/ posted # <<>> /\ Head(posted).cb = "no_fax_made"
  => state \in {"sending", "send_on_standby"}

(***************************************************************************)
(* The inductive invariant of the sessions.  Its last two parts are there  *)
(* because OneSession rests on them: no handler runs once the loop is left *)
(* and the settings dialog keeps sessions out.                             *)
(***************************************************************************)
QuitInactive == main_loop = "quit" => state = "inactive"

SessionInv ==
  /\ TypeOK
  /\ ItemKnown
  /\ OneSession
  /\ ConversionIsSending
  /\ QuitInactive
  /\ NoSessionDuringSettings

THEOREM SessionInit == Init => SessionInv
<1> SUFFICES ASSUME Init PROVE SessionInv
  OBVIOUS
<1> USE DEF Init
<1>1. NoActive /\ ~(\E w \in Workers : Converting(w))
  BY DEF NoActive, Active, Converting, NoWorker
<1>2. TypeOK
  <2>1. "inactive" \in States /\ "new" \in Outcomes /\ "absent" \in DirStates
    BY DEF States, Outcomes, DirStates
  <2>2. worker \in [Workers -> WorkerRecords]
    BY NoWorkerType
  <2>3. posted \in Seq(Callbacks)
    OBVIOUS
  <2>4. settings_open \in BOOLEAN /\ redial \in BOOLEAN
    BY Zenon
  <2> QED
    BY <2>1, <2>2, <2>3, <2>4, SocketFaxesAssumption DEF TypeOK
<1>3. OneSession
  BY <1>1, <1>2, Phases DEF Idle
<1>4. ItemKnown /\ ConversionIsSending
  BY <1>1 DEF ItemKnown, ConversionIsSending, Converting, SendStates
<1> QED
  BY <1>2, <1>3, <1>4 DEF SessionInv, QuitInactive, NoSessionDuringSettings

(***************************************************************************)
(* The part of the invariant that says what sessions there are, to prove   *)
(* step by step; the other parts follow from it and from TypeOK.           *)
(***************************************************************************)
Sessions == OneSession /\ ItemKnown /\ ConversionIsSending

\* Steps that leave the session alone.
LEMMA SessionKept ==
  ASSUME SessionInv, TypeOK', UNCHANGED <<state, posted, last_fax_item_sent>>,
         \A w \in Workers : (Active(w) <=> Active(w)') /\ (Converting(w)' => Converting(w))
  PROVE  Sessions'
<1>1. Idle \/ Working \/ Reported
  BY Phases DEF SessionInv
<1>2. Idle' \/ Working' \/ Reported'
  BY <1>1 DEF Idle, Working, Reported, NoActive, OneActive
<1>3. OneSession'
  BY <1>2, Phases, PTL
<1>4. ItemKnown'
  BY DEF SessionInv, ItemKnown, Converting
<1>5. ConversionIsSending'
  BY DEF SessionInv, ConversionIsSending
<1> QED
  BY <1>3, <1>4, <1>5 DEF Sessions

\* A session begins, or does not: from Idle, or from a callback just taken.
LEMMA SessionBegins ==
  ASSUME TypeOK', posted' = <<>>,
         \/ state' = "inactive" /\ NoActive'
         \/ state' # "inactive" /\ OneActive',
         \/ last_fax_item_sent' \in Faxes /\ state' \in {"sending", "send_on_standby"}
         \/ state' \notin SendStates /\ \A w \in Workers : ~Converting(w)'
  PROVE  Sessions'
<1>1. Idle' \/ Working'
  BY DEF Idle, Working
<1>2. OneSession'
  BY <1>1, Phases, PTL
<1> QED
  BY <1>2 DEF Sessions, ItemKnown, ConversionIsSending, Converting, SendStates

\* A worker posts its callback and ends.
LEMMA WorkerPosts ==
  ASSUME SessionInv, TypeOK', NEW w \in Workers, Active(w),
         NEW c \in Callbacks, posted' = Append(posted, c),
         c.cb = "no_fax_made" => Converting(w),
         worker' = [worker EXCEPT ![w] = NoWorker],
         UNCHANGED <<state, last_fax_item_sent>>
  PROVE  Sessions'
<1>1. Working
  BY Phases DEF SessionInv, Idle, Reported, NoActive
<1>2. NoActive' /\ \A v \in Workers : ~Converting(v)'
  <2>1. worker'[w] = NoWorker /\ \A v \in Workers \ {w} : worker'[v] = worker[v]
    BY DEF SessionInv, TypeOK
  <2>2. \A v \in Workers : worker'[v].pc = "none"
    BY <1>1, <2>1 DEF Working, OneActive, Active, NoWorker
  <2> QED
    BY <2>2 DEF NoActive, Active, Converting
<1>3. posted' = <<c>>
  BY <1>1 DEF Working
<1>4. Reported'
  BY <1>1, <1>2, <1>3 DEF Working, Reported
<1>5. OneSession'
  BY <1>4, Phases, PTL
<1>6. ConversionIsSending'
  <2>1. posted' # <<>> /\ Head(posted') = c
    BY <1>3
  <2>2. Converting(w) => state \in {"sending", "send_on_standby"}
    BY DEF SessionInv, ConversionIsSending
  <2> QED
    BY <1>2, <2>1, <2>2 DEF ConversionIsSending
<1>7. ItemKnown'
  BY <1>2 DEF SessionInv, ItemKnown, Converting
<1> QED
  BY <1>5, <1>6, <1>7 DEF Sessions

LEMMA SamePcs ==
  ASSUME SessionInv, TypeOK', UNCHANGED <<state, posted, last_fax_item_sent>>,
         \A w \in Workers : worker'[w].pc = worker[w].pc
  PROVE  Sessions'
BY SessionKept DEF Active, Converting

LEMMA ClosedownThreads ==
  ASSUME TypeOK, NEW sp, efax_closedown(sp)
  PROVE  \A w \in Workers : worker'[w].pc = worker[w].pc
BY KillChildThreads DEF efax_closedown

\* sendfax_impl() of the Send button and of a redial timer.
LEMMA SendRequested ==
  ASSUME SessionInv, TypeOK', posted' = posted, NEW f \in Faxes,
         NEW inr \in BOOLEAN, NEW queue, NEW result,
         sendfax_impl(f, FALSE, inr, queue, result)
  PROVE  Sessions'
<1>0. TypeOK
  BY DEF SessionInv
<1>1. may_start(FALSE) <=> state = "inactive"
  BY DEF may_start
<1>2. state = "inactive" => Idle
  BY <1>0, Phases DEF SessionInv, Working, Reported
<1>3. \/ /\ may_start(FALSE)
         /\ last_fax_item_sent' = f
         /\ \/ state' = "inactive" /\ NoActive'
            \/ state' \in {"sending", "send_on_standby"} /\ OneActive'
      \/ /\ state = "receive_standby" /\ state' = "start_send_on_standby"
         /\ last_fax_item_sent' = f
         /\ \A w \in Workers : worker'[w].pc = worker[w].pc
      \/ UNCHANGED <<state, last_fax_item_sent, worker>>
  BY <1>0, <1>1, <1>2, SendfaxImplSession DEF Idle
<1>4. CASE state = "inactive" /\ last_fax_item_sent' = f /\ state' = "inactive" /\ NoActive'
  BY <1>2, <1>4, SessionBegins DEF Idle, NoActive, Active, Converting, SendStates
<1>5. CASE /\ state = "inactive" /\ last_fax_item_sent' = f
           /\ state' \in {"sending", "send_on_standby"} /\ OneActive'
  BY <1>2, <1>5, SessionBegins DEF Idle
<1>6. CASE /\ state = "receive_standby" /\ state' = "start_send_on_standby"
           /\ last_fax_item_sent' = f
           /\ \A w \in Workers : worker'[w].pc = worker[w].pc
  <2>1. Working \/ Reported
    BY <1>0, <1>6, Phases DEF SessionInv, Idle
  <2>2. Working' \/ Reported'
    BY <1>6, <2>1 DEF Working, Reported, NoActive, OneActive, Active
  <2>3. OneSession'
    BY <2>2, Phases, PTL
  <2>4. ConversionIsSending'
    BY <1>6 DEF SessionInv, ConversionIsSending, Converting
  <2> QED
    BY <1>6, <2>3, <2>4 DEF Sessions, ItemKnown
<1>7. CASE UNCHANGED <<state, last_fax_item_sent, worker>>
  BY <1>7, SamePcs
<1> QED
  BY <1>1, <1>3, <1>4, <1>5, <1>6, <1>7

LEMMA UserStepSession == SessionInv /\ UserStep /\ TypeOK' => Sessions'
<1> SUFFICES ASSUME SessionInv, UserStep, TypeOK' PROVE Sessions'
  OBVIOUS
<1>0. TypeOK
  BY DEF SessionInv
<1>1. ASSUME NEW f \in Faxes, SendFax(f) PROVE Sessions'
  BY <1>1, SendRequested DEF SendFax
<1>2. ASSUME NEW f \in Faxes, RemoveFromRedialQueue(f) \/ RemoveSocketFile(f)
      PROVE  Sessions'
  BY <1>2, SamePcs DEF RemoveFromRedialQueue, RemoveSocketFile
<1>3. ASSUME NEW mode \in ReceiveModes, Receive(mode) PROVE Sessions'
  <2>1. Idle
    BY <1>0, <1>3, Phases DEF Receive, SessionInv, Working, Reported
  <2>2. /\ (state' = mode /\ OneActive') \/ (state' = "inactive" /\ NoActive')
        /\ \A w \in Workers : ~Converting(w)'
    BY <1>0, <1>3, <2>1, ReceiveBodySession DEF Receive, Idle
  <2>3. mode # "inactive" /\ mode \notin SendStates
    BY DEF ReceiveModes, SendStates
  <2>4. "inactive" \notin SendStates
    BY DEF SendStates
  <2> QED
    BY <1>3, <2>1, <2>2, <2>3, <2>4, SessionBegins DEF Receive, Idle
<1>4. CASE Stop
  BY <1>0, <1>4, KillChildThreads, SamePcs DEF Stop
<1>5. CASE Close
  BY <1>0, <1>5, ClosedownThreads, SamePcs DEF Close
<1>6. CASE OpenSettings \/ PopulateFaxList \/ \E r \in BOOLEAN : CloseSettings(r)
  BY <1>6, SamePcs DEF OpenSettings, PopulateFaxList, CloseSettings
<1> QED
  BY <1>1, <1>2, <1>3, <1>4, <1>5, <1>6 DEF UserStep

LEMMA OutsideStepSession ==
  /\ SessionInv /\ TypeOK'
  /\ (\E w \in Workers : ChildStep(w)) \/ ExternalSignal \/ Ended
  => Sessions'
<1> SUFFICES ASSUME SessionInv, TypeOK',
                    (\E w \in Workers : ChildStep(w)) \/ ExternalSignal \/ Ended
             PROVE  Sessions'
  OBVIOUS
<1>0. TypeOK
  BY DEF SessionInv
<1>1. ASSUME NEW w \in Workers, ChildExec(w) \/ ChildExits(w) PROVE Sessions'
  <2>1. \A v \in Workers : worker'[v].pc = worker[v].pc
    BY <1>0, <1>1 DEF ChildExec, ChildExits, TypeOK, WorkerRecords
  <2> QED
    BY <1>1, <2>1, SamePcs DEF ChildExec, ChildExits
<1>2. ASSUME NEW w \in Workers, PageArrives(w) PROVE Sessions'
  BY <1>2, SamePcs DEF PageArrives
<1>3. CASE ExternalSignal \/ Ended
  BY <1>3, SamePcs DEF ExternalSignal, Ended, vars
<1> QED
  BY <1>1, <1>2, <1>3 DEF ChildStep

LEMMA WorkerStepSession ==
  SessionInv /\ TypeOK' /\ (\E w \in Workers : WorkerStep(w)) => Sessions'
<1> SUFFICES ASSUME SessionInv, TypeOK', NEW w \in Workers, WorkerStep(w)
             PROVE  Sessions'
  OBVIOUS
<1>0. TypeOK /\ worker[w] \in WorkerRecords
  BY DEF SessionInv, TypeOK
<1>1. ASSUME NEW pc \in WorkerPCs, pc \notin {"none", "convert"}, Active(w),
             worker'[w].pc = pc, \A v \in Workers \ {w} : worker'[v] = worker[v],
             UNCHANGED <<state, posted, last_fax_item_sent>>
      PROVE  Sessions'
  BY <1>1, SessionKept DEF Active, Converting
<1>2. CASE ConvertSucceeds(w) \/ PublishPid(w) \/ JoinChild(w) \/ ReapChild(w)
  <2>1. /\ worker'[w].pc \in {"fork", "join", "wait", "post"}
        /\ \A v \in Workers \ {w} : worker'[v] = worker[v]
    BY <1>0, <1>2
      DEF ConvertSucceeds, PublishPid, JoinChild, ReapChild, TypeOK, WorkerRecords
  <2>2. UNCHANGED <<state, posted, last_fax_item_sent>> /\ Active(w)
    BY <1>2 DEF ConvertSucceeds, PublishPid, JoinChild, ReapChild, Active
  <2> QED
    BY <1>1, <2>1, <2>2 DEF WorkerPCs
<1>3. CASE Fork(w)
  <2>1. UNCHANGED <<state, posted, last_fax_item_sent>> /\ Active(w)
    BY <1>3 DEF Fork, Active
  <2>2. CASE UNCHANGED worker
    BY <2>1, <2>2, SamePcs
  <2>3. ASSUME NEW p \in Pids,
               worker' = [worker EXCEPT ![w].pc = "publish", ![w].pid = p,
                                        ![w].proc = "held"]
        PROVE  Sessions'
    <3>1. /\ worker'[w].pc = "publish"
          /\ \A v \in Workers \ {w} : worker'[v] = worker[v]
      BY <1>0, <2>3 DEF TypeOK, WorkerRecords
    <3> QED
      BY <1>1, <2>1, <3>1 DEF WorkerPCs
  <2> QED
    BY <1>3, <2>2, <2>3 DEF Fork
<1>4. CASE ConvertFails(w)
  <2>1. [cb |-> "no_fax_made", code |-> 0] \in Callbacks
    BY DEF Callbacks
  <2> QED
    BY <1>4, <2>1, WorkerPosts DEF ConvertFails, Active, Converting
<1>5. CASE PostChildEnded(w)
  <2> DEFINE c == [cb |-> "child_ended", code |-> worker[w].code]
  <2>1. c \in Callbacks /\ c.cb # "no_fax_made"
    BY <1>0 DEF Callbacks, WorkerRecords
  <2>2. /\ Active(w) /\ posted' = Append(posted, c)
        /\ worker' = [worker EXCEPT ![w] = NoWorker]
        /\ UNCHANGED <<state, last_fax_item_sent>>
    BY <1>5 DEF PostChildEnded, Active
  <2> HIDE DEF c
  <2> QED
    BY <2>1, <2>2, WorkerPosts
<1> QED
  BY <1>2, <1>3, <1>4, <1>5 DEF WorkerStep

\* A queue of one callback: taking it, and putting it back.
LEMMA OneCallback ==
  ASSUME NEW S, NEW q \in Seq(S), Len(q) = 1
  PROVE  Tail(q) = <<>> /\ Append(Tail(q), Head(q)) = q
<1>1. q # <<>> /\ Head(q) \in S
  OBVIOUS
<1>2. Tail(q) \in Seq(S) /\ Len(Tail(q)) = 0
  BY <1>1, HeadTailProperties
<1>3. Tail(q) = <<>>
  BY <1>2, EmptySeq
<1>4. /\ Append(<<>>, Head(q)) \in Seq(S)
      /\ Len(Append(<<>>, Head(q))) = 1
      /\ Append(<<>>, Head(q))[1] = q[1]
  BY <1>1
<1>5. Append(<<>>, Head(q)) = q
  BY <1>4, SeqEqual
<1> QED
  BY <1>3, <1>5

LEMMA CallbackStepSession == SessionInv /\ CallbackStep /\ TypeOK' => Sessions'
<1> SUFFICES ASSUME SessionInv, CallbackStep, TypeOK' PROVE Sessions'
  OBVIOUS
<1>0. TypeOK /\ (Idle \/ Working \/ Reported)
  BY Phases DEF SessionInv
<1>1. CASE KillAfterDelay
  <2>1. \A w \in Workers : worker'[w].pc = worker[w].pc
    BY <1>0, <1>1 DEF KillAfterDelay, TypeOK, WorkerRecords
  <2> QED
    BY <1>1, <2>1, SamePcs DEF KillAfterDelay
<1>2. CASE SigEvent
  BY <1>0, <1>2, ClosedownThreads, SamePcs DEF SigEvent
<1>3. CASE FaxListPopulated
  BY <1>3, SamePcs DEF FaxListPopulated
<1>4. ASSUME NEW f \in Faxes, redial_cb(f) PROVE Sessions'
  <2>1. CASE UNCHANGED <<sessionVars, processVars>>
    BY <1>4, <2>1, SamePcs DEF redial_cb
  <2>2. CASE sendfax_impl(f, FALSE, TRUE, RedialQueue_remove(f, redial_queue), outcome)
    BY <1>4, <2>2, SendRequested DEF redial_cb
  <2> QED
    BY <1>4, <2>1, <2>2 DEF redial_cb
<1>5. ASSUME posted # <<>>
      PROVE  Reported /\ NoActive /\ Tail(posted) = <<>>
  <2>1. Reported
    BY <1>0, <1>5 DEF Idle, Working
  <2> QED
    BY <1>0, <2>1, OneCallback DEF Reported, TypeOK
<1>6. CASE child_ended_cb_deferred
  <2>1. posted' = posted
    BY <1>0, <1>5, <1>6, OneCallback DEF child_ended_cb_deferred, Reported, TypeOK
  <2> QED
    BY <1>6, <2>1, SamePcs DEF child_ended_cb_deferred
<1>7. "inactive" \notin SendStates /\ "receive_standby" \notin SendStates
  BY DEF SendStates
<1>8. CASE no_fax_made_cb
  <2>1. /\ posted' = <<>> /\ NoActive
        /\ finish_send(state = "send_on_standby")
    BY <1>5, <1>8 DEF no_fax_made_cb
  <2>2. /\ \/ state' = "receive_standby" /\ OneActive'
           \/ state' = "inactive" /\ NoActive'
        /\ \A w \in Workers : ~Converting(w)'
    BY <1>0, <2>1, FinishSendSession
  <2> QED
    BY <1>7, <2>1, <2>2, SessionBegins
<1>9. CASE child_ended_cb
  <2>1. posted' = <<>> /\ NoActive
    BY <1>5, <1>9 DEF child_ended_cb
  <2>2. ASSUME \/ state' = "receive_standby" /\ OneActive'
               \/ state' = "inactive" /\ NoActive',
               \A w \in Workers : ~Converting(w)'
        PROVE  Sessions'
    BY <1>7, <2>1, <2>2, SessionBegins
  <2>3. ASSUME state' = "inactive", worker' = worker PROVE Sessions'
    <3>1. NoActive' /\ \A w \in Workers : ~Converting(w)'
      BY <2>1, <2>3 DEF NoActive, Active, Converting
    <3> QED
      BY <2>2, <2>3, <3>1
  <2>4. CASE send_ended(Head(posted).code)
    BY <1>0, <2>1, <2>2, <2>4, FinishSendSession DEF send_ended
  <2>5. CASE standby_ended_to_send /\ state = "start_send_on_standby"
    <3>1. CASE sendfax_impl(last_fax_item_sent, TRUE, FALSE, redial_queue, outcome)
      <4>1. may_start(TRUE)
        BY <2>5 DEF may_start
      <4>2. /\ last_fax_item_sent' = last_fax_item_sent
            /\ \/ state' = "inactive" /\ NoActive'
               \/ state' \in {"sending", "send_on_standby"} /\ OneActive'
        BY <1>0, <2>1, <2>5, <3>1, <4>1, SendfaxImplSession
      <4>3. CASE state' = "inactive" /\ NoActive'
        <5>1. \A w \in Workers : ~Converting(w)'
          BY <4>3 DEF NoActive, Active, Converting
        <5> QED
          BY <2>2, <4>3, <5>1
      <4>4. CASE state' \in {"sending", "send_on_standby"} /\ OneActive'
        <5>1. last_fax_item_sent' \in Faxes
          BY <2>5, <4>2 DEF SessionInv, ItemKnown, SendStates
        <5> QED
          BY <2>1, <4>4, <5>1, SessionBegins
      <4> QED
        BY <4>2, <4>3, <4>4
    <3>2. CASE state' = "inactive" /\ worker' = worker
      BY <2>3, <3>2
    <3> QED
      BY <2>5, <3>1, <3>2 DEF standby_ended_to_send
  <2>6. CASE restart_standby
    <3>1. "receive_standby" \in ReceiveModes
      BY DEF ReceiveModes
    <3> QED
      BY <1>0, <2>1, <2>2, <2>6, <3>1, ReceiveBodySession DEF restart_standby
  <2>7. CASE end_receive
    BY <2>3, <2>7 DEF end_receive
  <2> QED
    BY <1>9, <2>4, <2>5, <2>6, <2>7 DEF child_ended_cb
<1> QED
  BY <1>1, <1>2, <1>3, <1>4, <1>6, <1>8, <1>9 DEF CallbackStep

(***************************************************************************)
(* No handler runs once the main loop is left, and one that leaves it does *)
(* so from the inactive state or into it.                                  *)
(***************************************************************************)
LEMMA LoopLeftInactive ==
  ASSUME SessionInv, Next
  PROVE  QuitInactive'
<1>1. CASE Ended
  BY <1>1 DEF Ended, vars, SessionInv, QuitInactive
<1>2. CASE UserStep
  BY <1>2 DEF UserStep, SendFax, RemoveFromRedialQueue, RemoveSocketFile, Receive,
     Stop, Close, OpenSettings, PopulateFaxList, CloseSettings, efax_closedown,
     GuiReady, QuitInactive
<1>3. CASE CallbackStep
  <2>1. CASE child_ended_cb
    BY <2>1 DEF child_ended_cb, ready_to_quit, GuiReady, QuitInactive
  <2>2. CASE SigEvent
    BY <2>2 DEF SigEvent, efax_closedown, GuiReady, QuitInactive
  <2>3. CASE \/ KillAfterDelay \/ FaxListPopulated \/ no_fax_made_cb
             \/ child_ended_cb_deferred \/ \E f \in Faxes : redial_cb(f)
    <3>1. main_loop = "running" /\ main_loop' = main_loop
      BY <2>3 DEF KillAfterDelay, FaxListPopulated, no_fax_made_cb,
         child_ended_cb_deferred, redial_cb, GuiReady
    <3> QED
      BY <3>1 DEF QuitInactive
  <2> QED
    BY <1>3, <2>1, <2>2, <2>3 DEF CallbackStep
<1>4. CASE (\E w \in Workers : WorkerStep(w) \/ ChildStep(w)) \/ ExternalSignal
  <2>1. main_loop = "running" /\ main_loop' \in {"running", "exited"}
    BY <1>4 DEF WorkerStep, ConvertSucceeds, ConvertFails, Fork, PublishPid,
       JoinChild, ReapChild, PostChildEnded, ChildStep, ChildExec, PageArrives,
       ChildExits, ExternalSignal
  <2> QED
    BY <2>1 DEF QuitInactive
<1> QED
  BY <1>1, <1>2, <1>3, <1>4 DEF Next

\* No session starts under an open settings dialog.
LEMMA SettingsKept ==
  ASSUME SessionInv, Next
  PROVE  NoSessionDuringSettings'
<1>0. NoSessionDuringSettings /\ TypeOK
  BY DEF SessionInv
<1>1. posted # <<>> => state # "inactive"
  BY <1>0, Phases DEF SessionInv, Idle, Working, Reported
<1>2. CASE UserStep
  BY <1>0, <1>2 DEF UserStep, SendFax, RemoveFromRedialQueue, RemoveSocketFile,
     Receive, Stop, Close, OpenSettings, PopulateFaxList, CloseSettings,
     NoSessionDuringSettings
<1>3. CASE CallbackStep
  <2>1. CASE child_ended_cb \/ no_fax_made_cb
    BY <1>0, <1>1, <2>1
      DEF child_ended_cb, no_fax_made_cb, NoSessionDuringSettings
  <2>2. CASE \E f \in Faxes : redial_cb(f)
    BY <1>0, <2>2 DEF redial_cb, redial_held, NoSessionDuringSettings
  <2>3. CASE KillAfterDelay \/ SigEvent \/ FaxListPopulated \/ child_ended_cb_deferred
    BY <1>0, <2>3 DEF KillAfterDelay, SigEvent, FaxListPopulated,
       child_ended_cb_deferred, NoSessionDuringSettings
  <2> QED
    BY <1>3, <2>1, <2>2, <2>3 DEF CallbackStep
<1>4. CASE (\E w \in Workers : WorkerStep(w) \/ ChildStep(w)) \/ ExternalSignal \/ Ended
  <2>1. UNCHANGED <<state, settings_open>>
    BY <1>4 DEF WorkerStep, ConvertSucceeds, ConvertFails, Fork, PublishPid,
       JoinChild, ReapChild, PostChildEnded, ChildStep, ChildExec, PageArrives,
       ChildExits, ExternalSignal, Ended, vars
  <2> QED
    BY <1>0, <2>1 DEF NoSessionDuringSettings
<1> QED
  BY <1>2, <1>3, <1>4 DEF Next

THEOREM SessionStep == SessionInv /\ [Next]_vars => SessionInv'
<1> SUFFICES ASSUME SessionInv, [Next]_vars PROVE SessionInv'
  OBVIOUS
<1>1. CASE Next
  <2>1. TypeOK /\ ItemKnown
    BY DEF SessionInv
  <2>2. TypeOK'
    BY <1>1, <2>1, UserStepType, CallbackStepType, WorkerStepType, OutsideStepType
      DEF Next
  <2>3. Sessions'
    BY <1>1, <2>2, UserStepSession, CallbackStepSession, WorkerStepSession,
       OutsideStepSession DEF Next
  <2> QED
    BY <1>1, <2>2, <2>3, LoopLeftInactive, SettingsKept DEF SessionInv, Sessions
<1>2. CASE UNCHANGED vars
  BY <1>2 DEF vars, SessionInv, TypeOK, ItemKnown, OneSession, Active,
     ConversionIsSending, Converting, QuitInactive, NoSessionDuringSettings
<1> QED
  BY <1>1, <1>2

THEOREM SessionCorrect == Spec => []SessionInv
<1> QED
  BY SessionInit, SessionStep, PTL DEF Spec

(***************************************************************************)
(* The types, for any sets of faxes, workers and pids.                     *)
(***************************************************************************)
THEOREM TypeCorrect == Spec => []TypeOK
<1>1. SessionInv => TypeOK
  BY DEF SessionInv
<1> QED
  BY <1>1, SessionCorrect, PTL

(***************************************************************************)
(* However stops, close-downs, timers, failures and fax lists interleave,  *)
(* a session is one worker and then one callback: the data that            *)
(* efax_controller.cpp shares with no mutex has one user at a time.        *)
(***************************************************************************)
THEOREM OneSessionCorrect == Spec => []OneSession
<1>1. SessionInv => OneSession
  BY DEF SessionInv
<1> QED
  BY <1>1, SessionCorrect, PTL

(***************************************************************************)
(* The program never leaves its main loop under a running session, however *)
(* it was asked to close.                                                  *)
(***************************************************************************)
THEOREM QuitCorrect == Spec => []QuitLeavesNothingRunning
<1>1. SessionInv => QuitLeavesNothingRunning
  BY DEF SessionInv, QuitInactive, OneSession, QuitLeavesNothingRunning
<1> QED
  BY <1>1, SessionCorrect, PTL

(***************************************************************************)
(* A session never starts, by hand or by a redial timer, while the         *)
(* settings dialog is open.                                                *)
(***************************************************************************)
THEOREM SettingsCorrect == Spec => []NoSessionDuringSettings
<1>1. SessionInv => NoSessionDuringSettings
  BY DEF SessionInv
<1> QED
  BY <1>1, SessionCorrect, PTL

-----------------------------------------------------------------------------
(***************************************************************************)
(* One place for each fax.  ExactlyOnePlace without the arithmetic: where  *)
(* a fax is, with n timers in the queue, sending or not, and outcome o.    *)
(***************************************************************************)
Place(n, sending, o) ==
  \/ o = "pending" /\ n = 1 /\ ~sending
  \/ o = "pending" /\ n = 0 /\ sending
  \/ o # "pending" /\ n = 0 /\ ~sending

AllPlaced ==
  \A f \in Faxes : Place(redial_queue[f], Sending(f), outcome[f])

LEMMA Places ==
  ASSUME TypeOK
  PROVE  ExactlyOnePlace <=> AllPlaced
<1>1. ASSUME NEW f \in Faxes
      PROVE  redial_queue[f] + (IF Sending(f) THEN 1 ELSE 0)
                 = (IF outcome[f] = "pending" THEN 1 ELSE 0)
               <=> Place(redial_queue[f], Sending(f), outcome[f])
  <2>1. redial_queue[f] \in Nat
    BY DEF TypeOK
  <2>2. CASE Sending(f)
    BY <2>1, <2>2 DEF Place
  <2>3. CASE ~Sending(f)
    BY <2>1, <2>3 DEF Place
  <2> QED
    BY <2>2, <2>3
<1> QED
  BY <1>1 DEF ExactlyOnePlace, AllPlaced

(***************************************************************************)
(* A fax in hand: pending, in no queue, and in no session but the one that *)
(* waits for it.  All the other faxes are in their places.                 *)
(***************************************************************************)
InHand(f, queue, result) ==
  /\ queue[f] = 0
  /\ result[f] = "pending"
  /\ \A g \in Faxes \ {f} : Place(queue[g], Sending(g), result[g])

\* sendfax_impl() puts the fax it is given in one place.
LEMMA SendfaxImplPlaces ==
  ASSUME TypeOK, TypeOK', NEW f \in Faxes, NEW inc \in BOOLEAN, NEW inr \in BOOLEAN,
         NEW queue \in [Faxes -> Nat], NEW result \in [Faxes -> Outcomes],
         InHand(f, queue, result),
         Sending(f) => inc /\ state = "start_send_on_standby",
         sendfax_impl(f, inc, inr, queue, result),
         state = "start_send_on_standby" /\ inc => last_fax_item_sent = f
  PROVE  ExactlyOnePlace'
<1>1. ASSUME NEW g \in Faxes PROVE Place(redial_queue[g], Sending(g), outcome[g])'
  <2> DEFINE others == g # f => Place(queue[g], Sending(g), result[g])
  <2>0. others
    BY DEF InHand
  <2>1. CASE /\ state = "receive_standby"
             /\ last_fax_item_sent' = f
             /\ state' = "start_send_on_standby"
             /\ redial_queue' = queue
             /\ outcome' = result
    BY <2>0, <2>1 DEF Place, Sending, SendStates, InHand
  <2>2. ASSUME NEW again \in BOOLEAN, cannot_send(f, again, queue, result),
               ~Sending(f)
        PROVE  Place(redial_queue[g], Sending(g), outcome[g])'
    <3>1. Sending(g)' <=> Sending(g)
      BY <2>2 DEF cannot_send, Sending
    <3>2. CASE again
      <4>1. redial_queue' = [queue EXCEPT ![f] = @ + 1] /\ outcome' = result
        BY <2>2, <3>2 DEF cannot_send, start_redial_timeout
      <4> QED
        BY <2>0, <2>2, <3>1, <4>1 DEF Place, InHand
    <3>3. CASE ~again
      <4>1. redial_queue' = queue /\ outcome' = [result EXCEPT ![f] = "refused"]
        BY <2>2, <3>3 DEF cannot_send
      <4> QED
        BY <2>0, <2>2, <3>1, <4>1 DEF Place, InHand
    <3> QED
      BY <3>2, <3>3
  <2>3. CASE /\ may_start(inc)
             /\ state' \in {"sending", "send_on_standby", "inactive"}
             /\ last_fax_item_sent' = f
             /\ redial_queue' = queue
             /\ outcome' = IF state' = "inactive"
                           THEN [result EXCEPT ![f] = "no_thread"] ELSE result
    <3>1. g # f => ~Sending(g)
      BY <2>3 DEF may_start, Sending, SendStates
    <3>2. CASE state' = "inactive"
      BY <2>0, <2>3, <3>1, <3>2 DEF Place, Sending, SendStates, InHand
    <3>3. CASE state' # "inactive"
      BY <2>0, <2>3, <3>1, <3>3 DEF Place, Sending, SendStates, InHand
    <3> QED
      BY <3>2, <3>3
  <2>4. ASSUME start_thread("send", IF state = "inactive" THEN "sending"
                                    ELSE "send_on_standby", "convert")
        PROVE  state' \in {"sending", "send_on_standby", "inactive"}
    BY <2>4 DEF start_thread
  <2>5. state = "receive_standby" \/ ~may_start(inc) => ~Sending(f)
    BY DEF may_start, Sending, SendStates
  <2>6. (inr \/ redial) \in BOOLEAN /\ redial \in BOOLEAN
    BY DEF TypeOK
  <2> QED
    BY <2>1, <2>2, <2>3, <2>4, <2>5, <2>6 DEF sendfax_impl
<1>2. AllPlaced'
  BY <1>1 DEF AllPlaced
<1> QED
  BY <1>2, Places, PTL

\* Steps that move no fax.
LEMMA PlacesKept ==
  ASSUME SessionInv, ExactlyOnePlace, TypeOK', UNCHANGED queueVars,
         \A f \in Faxes : Sending(f)' <=> Sending(f)
  PROVE  ExactlyOnePlace'
<1>1. TypeOK /\ \A f \in Faxes : Place(redial_queue[f], Sending(f), outcome[f])
  BY Places DEF SessionInv, AllPlaced
<1>2. AllPlaced'
  BY <1>1 DEF AllPlaced, Place
<1> QED
  BY <1>2, Places, PTL

\* A fax that leaves the queue because it was cancelled or removed.
LEMMA PlacesAfterRemoval ==
  ASSUME SessionInv, ExactlyOnePlace, TypeOK', NEW f \in Faxes,
         redial_queue[f] > 0, NEW o, o # "pending",
         redial_queue' = RedialQueue_remove(f, redial_queue),
         outcome' = [outcome EXCEPT ![f] = o],
         UNCHANGED <<state, last_fax_item_sent>>
  PROVE  ExactlyOnePlace'
<1>1. TypeOK /\ \A g \in Faxes : Place(redial_queue[g], Sending(g), outcome[g])
  BY Places DEF SessionInv, AllPlaced
<1>2. ASSUME NEW g \in Faxes PROVE Place(redial_queue[g], Sending(g), outcome[g])'
  <2>1. Sending(g)' <=> Sending(g)
    BY DEF Sending
  <2> QED
    BY <1>1, <2>1 DEF Place, RedialQueue_remove, TypeOK
<1>3. AllPlaced'
  BY <1>2 DEF AllPlaced
<1> QED
  BY <1>3, Places, PTL

(***************************************************************************)
(* The end of a send session: its fax was sent, failed, could not be made, *)
(* was given up, or goes to the redial queue.                              *)
(***************************************************************************)
LEMMA PlacesAfterSession ==
  ASSUME SessionInv, ExactlyOnePlace, TypeOK', state \in SendStates,
         state' \notin SendStates,
         \/ /\ redial_queue' = redial_queue
            /\ \E o \in Outcomes \ {"pending"} :
                 outcome' = [outcome EXCEPT ![last_fax_item_sent] = o]
         \/ /\ redial_queue' = start_redial_timeout(last_fax_item_sent, redial_queue)
            /\ outcome' = outcome
  PROVE  ExactlyOnePlace'
<1> DEFINE f == last_fax_item_sent
<1>1. TypeOK /\ \A g \in Faxes : Place(redial_queue[g], Sending(g), outcome[g])
  BY Places DEF SessionInv, AllPlaced
<1>2. f \in Faxes /\ Sending(f)
  BY DEF SessionInv, ItemKnown, Sending
<1>3. ASSUME NEW g \in Faxes PROVE Place(redial_queue[g], Sending(g), outcome[g])'
  <2>1. ~Sending(g)' /\ (Sending(g) <=> g = f)
    BY DEF Sending
  <2> QED
    BY <1>1, <1>2, <2>1 DEF Place, start_redial_timeout, TypeOK
<1>4. AllPlaced'
  BY <1>3 DEF AllPlaced
<1> QED
  BY <1>4, Places, PTL

LEMMA UserStepPlaces ==
  SessionInv /\ ExactlyOnePlace /\ UserStep /\ TypeOK' => ExactlyOnePlace'
<1> SUFFICES ASSUME SessionInv, ExactlyOnePlace, UserStep, TypeOK'
             PROVE  ExactlyOnePlace'
  OBVIOUS
<1>0. TypeOK /\ \A g \in Faxes : Place(redial_queue[g], Sending(g), outcome[g])
  BY Places DEF SessionInv, AllPlaced
<1>1. ASSUME NEW f \in Faxes, SendFax(f) PROVE ExactlyOnePlace'
  <2> DEFINE result == [outcome EXCEPT ![f] = "pending"]
  <2>1. result \in [Faxes -> Outcomes] /\ redial_queue \in [Faxes -> Nat]
    BY <1>0 DEF TypeOK, Outcomes
  <2>2. InHand(f, redial_queue, result) /\ ~Sending(f)
    BY <1>0, <1>1 DEF SendFax, InHand, Place, TypeOK
  <2>3. sendfax_impl(f, FALSE, FALSE, redial_queue, result)
    BY <1>1 DEF SendFax
  <2> HIDE DEF result
  <2> QED
    BY <1>0, <2>1, <2>2, <2>3, SendfaxImplPlaces
<1>2. ASSUME NEW f \in Faxes, RemoveFromRedialQueue(f) PROVE ExactlyOnePlace'
  BY <1>2, PlacesAfterRemoval DEF RemoveFromRedialQueue
<1>3. ASSUME NEW mode \in ReceiveModes, Receive(mode) PROVE ExactlyOnePlace'
  <2>1. state = "inactive" /\ receive_body(mode, current) /\ UNCHANGED queueVars
    BY <1>3 DEF Receive
  <2>2. state' \in {mode, "inactive"}
    BY <2>1 DEF receive_body, start_thread
  <2>3. \A f \in Faxes : ~Sending(f) /\ ~Sending(f)'
    BY <2>1, <2>2 DEF Sending, SendStates, ReceiveModes
  <2> QED
    BY <2>1, <2>3, PlacesKept
<1>4. CASE \/ Stop \/ Close \/ OpenSettings \/ PopulateFaxList
           \/ \E r \in BOOLEAN : CloseSettings(r)
           \/ \E f \in Faxes : RemoveSocketFile(f)
  <2>1. UNCHANGED <<queueVars, state, last_fax_item_sent>>
    BY <1>4 DEF Stop, Close, OpenSettings, PopulateFaxList, CloseSettings,
       RemoveSocketFile
  <2> QED
    BY <2>1, PlacesKept DEF Sending
<1> QED
  BY <1>1, <1>2, <1>3, <1>4 DEF UserStep

LEMMA CallbackStepPlaces ==
  SessionInv /\ ExactlyOnePlace /\ CallbackStep /\ TypeOK' => ExactlyOnePlace'
<1> SUFFICES ASSUME SessionInv, ExactlyOnePlace, CallbackStep, TypeOK'
             PROVE  ExactlyOnePlace'
  OBVIOUS
<1>0. TypeOK /\ \A g \in Faxes : Place(redial_queue[g], Sending(g), outcome[g])
  BY Places DEF SessionInv, AllPlaced
<1>1. CASE KillAfterDelay \/ SigEvent \/ FaxListPopulated \/ child_ended_cb_deferred
  <2>1. UNCHANGED <<queueVars, state, last_fax_item_sent>>
    BY <1>1 DEF KillAfterDelay, SigEvent, FaxListPopulated, child_ended_cb_deferred
  <2> QED
    BY <2>1, PlacesKept DEF Sending
<1>2. ASSUME NEW f \in Faxes, redial_cb(f) PROVE ExactlyOnePlace'
  <2> DEFINE removed == RedialQueue_remove(f, redial_queue)
  <2>1. redial_queue[f] > 0
    BY <1>2 DEF redial_cb
  <2>2. redial_queue[f] = 1 /\ outcome[f] = "pending" /\ ~Sending(f)
    BY <1>0, <2>1 DEF Place, TypeOK
  <2>3. /\ removed \in [Faxes -> Nat] /\ removed[f] = 0
        /\ \A g \in Faxes \ {f} : removed[g] = redial_queue[g]
    BY <1>0, <2>2 DEF RedialQueue_remove, TypeOK
  <2>4. CASE /\ redial_queue' = removed
             /\ outcome' = [outcome EXCEPT ![f] = "cancelled"]
             /\ UNCHANGED sessionVars
    BY <2>1, <2>4, PlacesAfterRemoval
  <2>5. CASE /\ redial_queue' = [removed EXCEPT ![f] = @ + 1]
             /\ UNCHANGED <<sessionVars, outcome>>
    <3>1. redial_queue' = redial_queue
      BY <1>0, <2>2, <2>5 DEF RedialQueue_remove, TypeOK
    <3> QED
      BY <2>5, <3>1, PlacesKept DEF Sending
  <2>6. CASE sendfax_impl(f, FALSE, TRUE, removed, outcome)
    <3>1. InHand(f, removed, outcome)
      BY <1>0, <2>2, <2>3 DEF InHand
    <3>2. outcome \in [Faxes -> Outcomes]
      BY <1>0 DEF TypeOK
    <3> HIDE DEF removed
    <3> QED
      BY <1>0, <2>2, <2>3, <2>6, <3>1, <3>2, SendfaxImplPlaces
  <2> QED
    BY <1>2, <2>4, <2>5, <2>6 DEF redial_cb
<1>3. Outcomes \ {"pending"} # {} /\
      {"not_made", "sent", "failed", "closed"} \subseteq Outcomes \ {"pending"}
  BY DEF Outcomes
<1>4. ASSUME NEW b, finish_send(b) PROVE state' \notin SendStates
  BY <1>4 DEF finish_send, receive_body, start_thread, SendStates
<1>5. CASE no_fax_made_cb
  <2>1. state \in SendStates
    BY <1>5 DEF no_fax_made_cb, SessionInv, ConversionIsSending, SendStates
  <2>2. /\ state' \notin SendStates
        /\ redial_queue' = redial_queue
        /\ outcome' = [outcome EXCEPT ![last_fax_item_sent] = "not_made"]
    BY <1>4, <1>5 DEF no_fax_made_cb
  <2> QED
    BY <1>3, <2>1, <2>2, PlacesAfterSession
<1>6. CASE child_ended_cb
  <2> DEFINE code == Head(posted).code
             f == last_fax_item_sent
  <2>1. CASE state \in {"sending", "send_on_standby"} /\ send_ended(code)
    <3>1. state \in SendStates /\ state' \notin SendStates
      BY <1>4, <2>1 DEF send_ended, SendStates
    <3>2. \/ /\ redial_queue' = redial_queue
             /\ \/ outcome' = [outcome EXCEPT ![f] = "sent"]
                \/ outcome' = [outcome EXCEPT ![f] = "failed"]
          \/ /\ redial_queue' = start_redial_timeout(f, redial_queue)
             /\ outcome' = outcome
      BY <2>1 DEF send_ended
    <3> QED
      BY <1>3, <3>1, <3>2, PlacesAfterSession
  <2>2. CASE state = "start_send_on_standby" /\ standby_ended_to_send
    <3>1. f \in Faxes /\ Sending(f)
      BY <2>2 DEF SessionInv, ItemKnown, Sending, SendStates
    <3>2. CASE sendfax_impl(f, TRUE, FALSE, redial_queue, outcome)
      <4>1. InHand(f, redial_queue, outcome)
        BY <1>0, <3>1 DEF InHand, Place
      <4>2. redial_queue \in [Faxes -> Nat] /\ outcome \in [Faxes -> Outcomes]
        BY <1>0 DEF TypeOK
      <4> QED
        BY <1>0, <2>2, <3>1, <3>2, <4>1, <4>2, SendfaxImplPlaces
    <3>3. CASE /\ state' = "inactive"
               /\ redial_queue' = redial_queue
               /\ outcome' = [outcome EXCEPT ![f] = "closed"]
      <4>1. state \in SendStates /\ state' \notin SendStates
        BY <2>2, <3>3 DEF SendStates
      <4> QED
        BY <1>3, <3>3, <4>1, PlacesAfterSession
    <3> QED
      BY <2>2, <3>2, <3>3 DEF standby_ended_to_send
  <2>3. CASE state \notin SendStates /\ (restart_standby \/ end_receive)
    <3>1. state' \notin SendStates /\ UNCHANGED queueVars
      BY <2>3 DEF restart_standby, end_receive, receive_body, start_thread, SendStates
    <3>2. \A g \in Faxes : ~Sending(g) /\ ~Sending(g)'
      BY <2>3, <3>1 DEF Sending
    <3> QED
      BY <3>1, <3>2, PlacesKept
  <2>4. \/ state \in {"sending", "send_on_standby"} /\ send_ended(code)
        \/ state = "start_send_on_standby" /\ standby_ended_to_send
        \/ state \notin SendStates /\ (restart_standby \/ end_receive)
    BY <1>6 DEF child_ended_cb, SendStates
  <2> QED
    BY <2>1, <2>2, <2>3, <2>4
<1> QED
  BY <1>1, <1>2, <1>5, <1>6 DEF CallbackStep

THEOREM PlacesInit == Init => ExactlyOnePlace
BY DEF Init, ExactlyOnePlace, Sending, SendStates

THEOREM PlacesStep ==
  SessionInv /\ SessionInv' /\ ExactlyOnePlace /\ [Next]_vars => ExactlyOnePlace'
<1> SUFFICES ASSUME SessionInv, SessionInv', ExactlyOnePlace, [Next]_vars
             PROVE  ExactlyOnePlace'
  OBVIOUS
<1>0. TypeOK'
  BY DEF SessionInv
<1>1. CASE UserStep
  BY <1>0, <1>1, UserStepPlaces
<1>2. CASE CallbackStep
  BY <1>0, <1>2, CallbackStepPlaces
<1>3. CASE \/ \E w \in Workers : WorkerStep(w) \/ ChildStep(w)
           \/ ExternalSignal \/ Ended \/ UNCHANGED vars
  <2>1. UNCHANGED <<queueVars, state, last_fax_item_sent>>
    BY <1>3 DEF WorkerStep, ConvertSucceeds, ConvertFails, Fork, PublishPid,
       JoinChild, ReapChild, PostChildEnded, ChildStep, ChildExec, PageArrives,
       ChildExits, ExternalSignal, Ended, vars
  <2> QED
    BY <1>0, <2>1, PlacesKept DEF Sending
<1> QED
  BY <1>1, <1>2, <1>3 DEF Next

(***************************************************************************)
(* No fax is lost and none is in two places: whatever the user, timers,    *)
(* failures and close-downs do, a fax that was asked for waits in the      *)
(* redial queue once, or is the one being sent, or has come to an end.     *)
(***************************************************************************)
THEOREM OnePlaceCorrect == Spec => []ExactlyOnePlace
<1> QED
  BY SessionCorrect, PlacesInit, PlacesStep, PTL DEF Spec

-----------------------------------------------------------------------------
(***************************************************************************)
(* The controller implements FaxJobs: what a fax is there, and the moves.  *)
(***************************************************************************)
jobs == [f \in Faxes |-> JobOf(f)]

\* At most the fax f is moved, to s.
Moves(f, s) ==
  /\ JobOf(f)' = s
  /\ \A g \in Faxes \ {f} : JobOf(g)' = JobOf(g)

LEMMA MovesJobs ==
  ASSUME NEW f \in Faxes, NEW s, Moves(f, s)
  PROVE  jobs' = [jobs EXCEPT ![f] = s]
BY DEF Moves, jobs

\* Nothing that FaxJobs sees changes.
LEMMA JobsKept ==
  ASSUME UNCHANGED outcome, \A f \in Faxes : Sending(f)' <=> Sending(f)
  PROVE  jobs' = jobs
BY DEF jobs, JobOf

LEMMA JobStates ==
  ASSUME TypeOK, NEW f \in Faxes
  PROVE  /\ JobOf(f) = "new" <=> outcome[f] = "new"
         /\ JobOf(f) = "sending" <=> outcome[f] = "pending" /\ Sending(f)
         /\ JobOf(f) = "waiting" <=> outcome[f] = "pending" /\ ~Sending(f)
<1>1. outcome[f] \in Outcomes
  BY DEF TypeOK
<1> QED
  BY <1>1 DEF JobOf, Outcomes

LEMMA LineFreeWhenNotSending ==
  ASSUME TypeOK, state \notin SendStates
  PROVE  \A g \in Faxes : jobs[g] # "sending"
BY JobStates DEF Sending, jobs

(***************************************************************************)
(* sendfax_impl() for a new or a waiting fax.                              *)
(***************************************************************************)
LEMMA SendfaxImplJobs ==
  ASSUME TypeOK, NEW f \in Faxes, NEW inr \in BOOLEAN, NEW queue,
         NEW result \in [Faxes -> Outcomes], result[f] = "pending",
         \A g \in Faxes \ {f} : result[g] = outcome[g], ~Sending(f),
         sendfax_impl(f, FALSE, inr, queue, result)
  PROVE  \/ state \notin SendStates /\ (Moves(f, "sending") \/ Moves(f, "no_thread"))
         \/ Moves(f, "waiting")
         \/ ~redial /\ Moves(f, "refused")
<1>1. CASE /\ state = "receive_standby"
           /\ last_fax_item_sent' = f
           /\ state' = "start_send_on_standby"
           /\ outcome' = result
  BY <1>1 DEF Moves, JobOf, Sending, SendStates
<1>2. CASE /\ may_start(FALSE)
           /\ state' \in {"sending", "send_on_standby", "inactive"}
           /\ last_fax_item_sent' = f
           /\ outcome' = IF state' = "inactive"
                         THEN [result EXCEPT ![f] = "no_thread"] ELSE result
  <2>1. state = "inactive"
    BY <1>2 DEF may_start
  <2>2. CASE state' = "inactive"
    BY <1>2, <2>1, <2>2 DEF Moves, JobOf, Sending, SendStates
  <2>3. CASE state' # "inactive"
    BY <1>2, <2>1, <2>3 DEF Moves, JobOf, Sending, SendStates
  <2> QED
    BY <2>2, <2>3
<1>3. ASSUME NEW again \in BOOLEAN, cannot_send(f, again, queue, result)
      PROVE  \/ Moves(f, "waiting")
             \/ ~again /\ Moves(f, "refused")
  <2>1. UNCHANGED <<state, last_fax_item_sent>>
    BY <1>3 DEF cannot_send
  <2>2. CASE again
    BY <1>3, <2>1, <2>2 DEF cannot_send, Moves, JobOf, Sending
  <2>3. CASE ~again
    BY <1>3, <2>1, <2>3 DEF cannot_send, Moves, JobOf, Sending
  <2> QED
    BY <2>2, <2>3
<1>4. (inr \/ redial) \in BOOLEAN /\ redial \in BOOLEAN
  BY DEF TypeOK
<1>5. ASSUME start_thread("send", IF state = "inactive" THEN "sending"
                                  ELSE "send_on_standby", "convert")
      PROVE  state' \in {"sending", "send_on_standby", "inactive"}
  BY <1>5 DEF start_thread
<1>6. CASE cannot_send(f, inr \/ redial, queue, result)
  BY <1>3, <1>4, <1>6
<1>7. CASE cannot_send(f, redial, queue, result)
  BY <1>3, <1>4, <1>7
<1> QED
  BY <1>1, <1>2, <1>5, <1>6, <1>7 DEF sendfax_impl

(***************************************************************************)
(* The steps of FaxJobs, by the fax they move.                             *)
(***************************************************************************)
Step == Jobs!Next \/ UNCHANGED jobs

LEMMA Stays ==
  ASSUME NEW f \in Faxes, Moves(f, JobOf(f))
  PROVE  Step
BY DEF Moves, Step, jobs

LEMMA Submits ==
  ASSUME NEW f \in Faxes, JobOf(f) = "new",
         \/ Moves(f, "sending") /\ \A g \in Faxes : jobs[g] # "sending"
         \/ Moves(f, "waiting") \/ Moves(f, "refused") \/ Moves(f, "no_thread")
  PROVE  Step
<1>1. jobs[f] = "new"
  BY DEF jobs
<1>2. PICK s \in {"sending", "waiting", "refused", "no_thread"} :
             /\ Moves(f, s)
             /\ s = "sending" => \A g \in Faxes : jobs[g] # "sending"
  OBVIOUS
<1>3. jobs' = [jobs EXCEPT ![f] = s]
  BY <1>2, MovesJobs
<1>4. Jobs!Submit(f)
  BY <1>1, <1>2, <1>3 DEF Jobs!Submit, Jobs!LineFree, jobs
<1> QED
  BY <1>4 DEF Step, Jobs!Next

LEMMA Redials ==
  ASSUME NEW f \in Faxes, JobOf(f) = "waiting",
         \A g \in Faxes : jobs[g] # "sending",
         Moves(f, "sending") \/ Moves(f, "no_thread")
  PROVE  Step
<1>1. jobs[f] = "waiting"
  BY DEF jobs
<1>2. \/ jobs' = [jobs EXCEPT ![f] = "sending"]
      \/ jobs' = [jobs EXCEPT ![f] = "no_thread"]
  BY MovesJobs
<1>3. Jobs!Redial(f)
  BY <1>1, <1>2 DEF Jobs!Redial, Jobs!LineFree, jobs
<1> QED
  BY <1>3 DEF Step, Jobs!Next

LEMMA Withdraws ==
  ASSUME NEW f \in Faxes, JobOf(f) = "waiting",
         Moves(f, "removed") \/ Moves(f, "cancelled")
  PROVE  Step
<1>1. jobs[f] = "waiting"
  BY DEF jobs
<1>2. \/ jobs' = [jobs EXCEPT ![f] = "removed"]
      \/ jobs' = [jobs EXCEPT ![f] = "cancelled"]
  BY MovesJobs
<1>3. Jobs!Withdraw(f)
  BY <1>1, <1>2 DEF Jobs!Withdraw, jobs
<1> QED
  BY <1>3 DEF Step, Jobs!Next

LEMMA Finishes ==
  ASSUME NEW f \in Faxes, JobOf(f) = "sending",
         NEW s \in {"sent", "failed", "not_made", "no_thread", "closed", "waiting"},
         Moves(f, s)
  PROVE  Step
<1>1. jobs[f] = "sending" /\ jobs' = [jobs EXCEPT ![f] = s]
  BY MovesJobs DEF jobs
<1>2. Jobs!Finish(f)
  BY <1>1 DEF Jobs!Finish, jobs
<1> QED
  BY <1>2 DEF Step, Jobs!Next

-----------------------------------------------------------------------------
\* An outcome recorded for a fax that is not being sent.
LEMMA Recorded ==
  ASSUME TypeOK, NEW f \in Faxes, NEW o, o # "pending",
         outcome' = [outcome EXCEPT ![f] = o],
         \A g \in Faxes \ {f} : Sending(g)' <=> Sending(g)
  PROVE  Moves(f, o)
BY DEF Moves, JobOf, TypeOK

(***************************************************************************)
(* The end of a send session: for good with outcome o, or to be redialled. *)
(***************************************************************************)
LEMMA SessionJobs ==
  ASSUME SessionInv, ExactlyOnePlace, state \in SendStates, state' \notin SendStates,
         \/ \E o \in {"sent", "failed", "not_made", "closed"} :
              outcome' = [outcome EXCEPT ![last_fax_item_sent] = o]
         \/ outcome' = outcome
  PROVE  Step
<1>0. PICK f \in Faxes : f = last_fax_item_sent
  BY DEF SessionInv, ItemKnown
<1>1. TypeOK /\ \A g \in Faxes : Place(redial_queue[g], Sending(g), outcome[g])
  BY Places DEF SessionInv, AllPlaced
<1>2. Sending(f)
  BY <1>0 DEF Sending
<1>3. JobOf(f) = "sending" /\ outcome[f] = "pending"
  BY <1>1, <1>2, JobStates DEF Place
<1>4. \A g \in Faxes : ~Sending(g)' /\ (Sending(g) <=> g = f)
  BY <1>0 DEF Sending
<1>5. CASE \E o \in {"sent", "failed", "not_made", "closed"} :
             outcome' = [outcome EXCEPT ![f] = o]
  BY <1>1, <1>2, <1>3, <1>4, <1>5, Recorded, Finishes
<1>6. CASE outcome' = outcome
  <2>1. Moves(f, "waiting")
    BY <1>2, <1>3, <1>4, <1>6 DEF Moves, JobOf
  <2> QED
    BY <1>2, <1>3, <2>1, Finishes
<1> QED
  BY <1>0, <1>5, <1>6

LEMMA UserStepJobs == SessionInv /\ ExactlyOnePlace /\ UserStep => Step
<1> SUFFICES ASSUME SessionInv, ExactlyOnePlace, UserStep PROVE Step
  OBVIOUS
<1>0. TypeOK /\ \A g \in Faxes : Place(redial_queue[g], Sending(g), outcome[g])
  BY Places DEF SessionInv, AllPlaced
<1>1. ASSUME NEW f \in Faxes, SendFax(f) PROVE Step
  <2> DEFINE result == [outcome EXCEPT ![f] = "pending"]
  <2>1. /\ result \in [Faxes -> Outcomes] /\ result[f] = "pending"
        /\ \A g \in Faxes \ {f} : result[g] = outcome[g]
    BY <1>0 DEF TypeOK, Outcomes
  <2>2. outcome[f] = "new" /\ ~Sending(f) /\ JobOf(f) = "new"
    BY <1>0, <1>1, JobStates DEF SendFax, Place
  <2>3. sendfax_impl(f, FALSE, FALSE, redial_queue, result)
    BY <1>1 DEF SendFax
  <2> HIDE DEF result
  <2>4. \/ state \notin SendStates /\ (Moves(f, "sending") \/ Moves(f, "no_thread"))
        \/ Moves(f, "waiting")
        \/ Moves(f, "refused")
    BY <1>0, <2>1, <2>2, <2>3, SendfaxImplJobs
  <2>5. state \notin SendStates => \A g \in Faxes : jobs[g] # "sending"
    BY <1>0, LineFreeWhenNotSending
  <2> QED
    BY <2>2, <2>4, <2>5, Submits
<1>2. ASSUME NEW f \in Faxes, RemoveFromRedialQueue(f) PROVE Step
  <2>1. JobOf(f) = "waiting"
    BY <1>0, <1>2, JobStates DEF RemoveFromRedialQueue, Place
  <2>2. \A g \in Faxes : Sending(g)' <=> Sending(g)
    BY <1>2 DEF RemoveFromRedialQueue, Sending
  <2>3. Moves(f, "removed")
    BY <1>0, <1>2, <2>2, Recorded DEF RemoveFromRedialQueue
  <2> QED
    BY <2>1, <2>3, Withdraws
<1>3. ASSUME NEW mode \in ReceiveModes, Receive(mode) PROVE Step
  <2>1. state = "inactive" /\ receive_body(mode, current) /\ UNCHANGED queueVars
    BY <1>3 DEF Receive
  <2>2. state' \in {mode, "inactive"}
    BY <2>1 DEF receive_body, start_thread
  <2>3. \A f \in Faxes : ~Sending(f) /\ ~Sending(f)'
    BY <2>1, <2>2 DEF Sending, SendStates, ReceiveModes
  <2> QED
    BY <2>1, <2>3, JobsKept DEF Step
<1>4. CASE \/ Stop \/ Close \/ OpenSettings \/ PopulateFaxList
           \/ \E r \in BOOLEAN : CloseSettings(r)
           \/ \E f \in Faxes : RemoveSocketFile(f)
  <2>1. UNCHANGED <<queueVars, state, last_fax_item_sent>>
    BY <1>4 DEF Stop, Close, OpenSettings, PopulateFaxList, CloseSettings,
       RemoveSocketFile
  <2> QED
    BY <2>1, JobsKept DEF Sending, Step
<1> QED
  BY <1>1, <1>2, <1>3, <1>4 DEF UserStep

\* The standby session has given way to the fax that waited for it.
LEMMA GivesWayJobs ==
  ASSUME SessionInv, ExactlyOnePlace, state = "start_send_on_standby",
         standby_ended_to_send
  PROVE  Step
<1>0. PICK f \in Faxes : f = last_fax_item_sent
  BY DEF SessionInv, ItemKnown, SendStates
<1>1. TypeOK /\ \A g \in Faxes : Place(redial_queue[g], Sending(g), outcome[g])
  BY Places DEF SessionInv, AllPlaced
<1>2. Sending(f)
  BY <1>0 DEF Sending, SendStates
<1>3. JobOf(f) = "sending" /\ outcome[f] = "pending"
  BY <1>1, <1>2, JobStates DEF Place
<1>5. CASE sendfax_impl(f, TRUE, FALSE, redial_queue, outcome)
  <2>1. /\ state' \in {"send_on_standby", "inactive"}
        /\ last_fax_item_sent' = f
        /\ outcome' = IF state' = "inactive"
                      THEN [outcome EXCEPT ![f] = "no_thread"] ELSE outcome
    BY <1>5 DEF sendfax_impl, may_start, start_thread
  <2>2. \A g \in Faxes \ {f} : Sending(g)' <=> Sending(g)
    BY <1>0, <2>1 DEF Sending
  <2>3. CASE state' = "inactive"
    <3>1. Moves(f, "no_thread")
      BY <1>1, <1>2, <2>1, <2>2, <2>3, Recorded
    <3> QED
      BY <1>2, <1>3, <3>1, Finishes
  <2>4. CASE state' = "send_on_standby"
    <3>1. \A g \in Faxes : Sending(g)' <=> Sending(g)
      BY <1>0, <2>1, <2>4 DEF Sending, SendStates
    <3> QED
      BY <2>1, <2>4, <3>1, JobsKept DEF Step
  <2> QED
    BY <2>1, <2>3, <2>4
<1>6. CASE state' = "inactive" /\ outcome' = [outcome EXCEPT ![f] = "closed"]
  BY <1>0, <1>6, SessionJobs DEF SendStates
<1> QED
  BY <1>0, <1>5, <1>6 DEF standby_ended_to_send

LEMMA CallbackStepJobs == SessionInv /\ ExactlyOnePlace /\ CallbackStep => Step
<1> SUFFICES ASSUME SessionInv, ExactlyOnePlace, CallbackStep PROVE Step
  OBVIOUS
<1>0. TypeOK /\ \A g \in Faxes : Place(redial_queue[g], Sending(g), outcome[g])
  BY Places DEF SessionInv, AllPlaced
<1>1. CASE KillAfterDelay \/ SigEvent \/ FaxListPopulated \/ child_ended_cb_deferred
  <2>1. UNCHANGED <<outcome, state, last_fax_item_sent>>
    BY <1>1 DEF KillAfterDelay, SigEvent, FaxListPopulated, child_ended_cb_deferred
  <2> QED
    BY <2>1, JobsKept DEF Sending, Step
<1>2. ASSUME NEW f \in Faxes, redial_cb(f) PROVE Step
  <2> DEFINE removed == RedialQueue_remove(f, redial_queue)
  <2>1. outcome[f] = "pending" /\ ~Sending(f) /\ JobOf(f) = "waiting"
    BY <1>0, <1>2, JobStates DEF redial_cb, Place
  <2>2. CASE outcome' = [outcome EXCEPT ![f] = "cancelled"] /\ UNCHANGED sessionVars
    <3>1. \A g \in Faxes : Sending(g)' <=> Sending(g)
      BY <2>2 DEF Sending
    <3>2. Moves(f, "cancelled")
      BY <1>0, <2>2, <3>1, Recorded
    <3> QED
      BY <2>1, <3>2, Withdraws
  <2>3. CASE UNCHANGED <<sessionVars, outcome>>
    BY <2>3, JobsKept DEF Sending, Step
  <2>4. CASE redial /\ sendfax_impl(f, FALSE, TRUE, removed, outcome)
    <3>1. outcome \in [Faxes -> Outcomes]
      BY <1>0 DEF TypeOK
    <3> HIDE DEF removed
    <3>2. \/ state \notin SendStates /\ (Moves(f, "sending") \/ Moves(f, "no_thread"))
          \/ Moves(f, "waiting")
      BY <1>0, <2>1, <2>4, <3>1, SendfaxImplJobs
    <3>3. state \notin SendStates => \A g \in Faxes : jobs[g] # "sending"
      BY <1>0, LineFreeWhenNotSending
    <3> QED
      BY <2>1, <3>2, <3>3, Redials, Stays
  <2> QED
    BY <1>2, <2>2, <2>3, <2>4 DEF redial_cb
<1>3. ASSUME NEW b, finish_send(b) PROVE state' \notin SendStates
  BY <1>3 DEF finish_send, receive_body, start_thread, SendStates
<1>4. CASE no_fax_made_cb
  <2>1. state \in SendStates
    BY <1>4 DEF no_fax_made_cb, SessionInv, ConversionIsSending, SendStates
  <2>2. /\ state' \notin SendStates
        /\ outcome' = [outcome EXCEPT ![last_fax_item_sent] = "not_made"]
    BY <1>3, <1>4 DEF no_fax_made_cb
  <2> QED
    BY <2>1, <2>2, SessionJobs
<1>5. CASE child_ended_cb
  <2> DEFINE code == Head(posted).code
  <2>1. CASE state \in {"sending", "send_on_standby"} /\ send_ended(code)
    <3>1. state \in SendStates /\ state' \notin SendStates
      BY <1>3, <2>1 DEF send_ended, SendStates
    <3>2. \/ outcome' = [outcome EXCEPT ![last_fax_item_sent] = "sent"]
          \/ outcome' = [outcome EXCEPT ![last_fax_item_sent] = "failed"]
          \/ outcome' = outcome
      BY <2>1 DEF send_ended
    <3> QED
      BY <3>1, <3>2, SessionJobs
  <2>2. CASE state = "start_send_on_standby" /\ standby_ended_to_send
    BY <2>2, GivesWayJobs
  <2>3. CASE state \notin SendStates /\ (restart_standby \/ end_receive)
    <3>1. state' \notin SendStates /\ UNCHANGED outcome
      BY <2>3 DEF restart_standby, end_receive, receive_body, start_thread, SendStates
    <3>2. \A g \in Faxes : ~Sending(g) /\ ~Sending(g)'
      BY <2>3, <3>1 DEF Sending
    <3> QED
      BY <3>1, <3>2, JobsKept DEF Step
  <2>4. \/ state \in {"sending", "send_on_standby"} /\ send_ended(code)
        \/ state = "start_send_on_standby" /\ standby_ended_to_send
        \/ state \notin SendStates /\ (restart_standby \/ end_receive)
    BY <1>5 DEF child_ended_cb, SendStates
  <2> QED
    BY <2>1, <2>2, <2>3, <2>4
<1> QED
  BY <1>1, <1>2, <1>4, <1>5 DEF CallbackStep

LEMMA JobsInit == Init => Jobs!Init
BY DEF Init, Jobs!Init, JobOf

LEMMA JobsStep == SessionInv /\ ExactlyOnePlace /\ [Next]_vars => Step
<1> SUFFICES ASSUME SessionInv, ExactlyOnePlace, [Next]_vars PROVE Step
  OBVIOUS
<1>1. CASE UserStep
  BY <1>1, UserStepJobs
<1>2. CASE CallbackStep
  BY <1>2, CallbackStepJobs
<1>3. CASE \/ \E w \in Workers : WorkerStep(w) \/ ChildStep(w)
           \/ ExternalSignal \/ Ended \/ UNCHANGED vars
  <2>1. UNCHANGED <<outcome, state, last_fax_item_sent>>
    BY <1>3 DEF WorkerStep, ConvertSucceeds, ConvertFails, Fork, PublishPid,
       JoinChild, ReapChild, PostChildEnded, ChildStep, ChildExec, PageArrives,
       ChildExits, ExternalSignal, Ended, vars
  <2> QED
    BY <2>1, JobsKept DEF Sending, Step
<1> QED
  BY <1>1, <1>2, <1>3 DEF Next

(***************************************************************************)
(* Every behaviour of the controller, with any number of faxes, is one of  *)
(* FaxJobs: a fax is sent beside no other one, again only after it waited  *)
(* in the redial queue, and never after its end.                           *)
(***************************************************************************)
THEOREM JobsCorrect == Spec => ImplementsFaxJobs
<1>1. Step => [Jobs!Next]_jobs
  BY DEF Step
<1> QED
  BY <1>1, JobsInit, JobsStep, SessionCorrect, OnePlaceCorrect, PTL
    DEF Spec, ImplementsFaxJobs, Jobs!Spec, jobs
-----------------------------------------------------------------------------
(***************************************************************************)
(* The efax child of a session: which pid is recorded and signalled, when  *)
(* its pipe is open and watched, what it finds in faxin/current and beside *)
(* the file it sends, and what the window shows of it.                     *)
(***************************************************************************)

\* No pid is recorded yet, or it is.
Early(w) == worker[w].pc \in {"convert", "fork", "publish"}
Late(w)  == worker[w].pc \in {"join", "wait", "post"}

NoChild == child_pid = NoPid /\ ~iowatch

(***************************************************************************)
(* The inductive invariant.  The recorded pid and the watch belong to the  *)
(* worker of the session, or to the callback it left.                      *)
(***************************************************************************)
ChildInv ==
  /\ \A w \in Workers : Early(w) => NoChild
  /\ \A w \in Workers :
       Late(w) => worker[w].pid = child_pid /\ (iowatch <=> worker[w].pc # "join")
  /\ state = "inactive" => NoChild
  /\ posted # <<>> => IF Head(posted).cb = "no_fax_made" THEN NoChild ELSE iowatch
  /\ killing # NoPid => killing = child_pid
  /\ stdout_pipe <=> state # "inactive"

-----------------------------------------------------------------------------
(***************************************************************************)
(* What the pieces of the handlers do to worker and child.                 *)
(***************************************************************************)
LEMMA KillChildWorkers ==
  ASSUME TypeOK, NEW sp, kill_child(sp)
  PROVE  /\ killing' \in {killing, child_pid}
         /\ \A w \in Workers : /\ worker'[w].pc = worker[w].pc
                               /\ worker'[w].pid = worker[w].pid
                               /\ worker'[w].kind = worker[w].kind
                               /\ worker'[w].proc \in {"none", "held"}
                                    => worker'[w].proc = worker[w].proc
BY DEF TypeOK, WorkerRecords, kill_child

LEMMA StartThreadWorkers ==
  ASSUME TypeOK, NoActive, NEW kind, NEW s, s # "inactive",
         NEW pc, start_thread(kind, s, pc)
  PROVE  /\ \A w \in Workers : worker'[w].pc \in {"none", pc}
         /\ stdout_pipe' <=> state' # "inactive"
<1>1. CASE /\ worker' = worker
           /\ stdout_pipe' = FALSE
           /\ state' = "inactive"
  BY <1>1 DEF NoActive, Active
<1>2. ASSUME NEW w \in Workers,
             worker' = [worker EXCEPT
               ![w] = [NoWorker EXCEPT !.pc = pc, !.kind = kind]],
             stdout_pipe' = TRUE, state' = s
      PROVE  /\ \A v \in Workers : worker'[v].pc \in {"none", pc}
             /\ stdout_pipe' <=> state' # "inactive"
  BY <1>2 DEF TypeOK, NoWorker, NoActive, Active
<1> QED
  BY <1>1, <1>2 DEF start_thread

LEMMA ReceiveBodyWorkers ==
  ASSUME TypeOK, NoActive, NEW mode \in ReceiveModes, NEW dir,
         receive_body(mode, dir)
  PROVE  /\ \A w \in Workers : worker'[w].pc \in {"none", "fork"}
         /\ stdout_pipe' <=> state' # "inactive"
<1>1. mode # "inactive"
  BY DEF ReceiveModes
<1>2. CASE start_thread("receive", mode, "fork")
  BY <1>1, <1>2, StartThreadWorkers
<1>3. CASE state' = "inactive" /\ stdout_pipe' = FALSE /\ worker' = worker
  BY <1>3 DEF NoActive, Active
<1> QED
  BY <1>2, <1>3 DEF receive_body

LEMMA FinishSendWorkers ==
  ASSUME TypeOK, NoActive, NEW b, finish_send(b)
  PROVE  /\ \A w \in Workers : worker'[w].pc \in {"none", "fork"}
         /\ stdout_pipe' <=> state' # "inactive"
<1>1. "receive_standby" \in ReceiveModes
  BY DEF ReceiveModes
<1>2. CASE state' = "inactive" /\ stdout_pipe' = FALSE /\ worker' = worker
  BY <1>2 DEF NoActive, Active
<1>3. CASE receive_body("receive_standby", current)
  BY <1>1, <1>3, ReceiveBodyWorkers
<1> QED
  BY <1>2, <1>3 DEF finish_send

LEMMA SendfaxImplWorkers ==
  ASSUME TypeOK, NEW f, NEW inc \in BOOLEAN, NEW inr \in BOOLEAN,
         NEW queue, NEW result, sendfax_impl(f, inc, inr, queue, result),
         may_start(inc) => NoActive
  PROVE  \/ /\ may_start(inc)
            /\ \A w \in Workers : worker'[w].pc \in {"none", "convert"}
            /\ stdout_pipe' <=> state' # "inactive"
            /\ killing' = killing
         \/ /\ ~may_start(inc)
            /\ state # "inactive" /\ state' # "inactive"
            /\ \A w \in Workers : /\ worker'[w].pc = worker[w].pc
                                  /\ worker'[w].pid = worker[w].pid
            /\ stdout_pipe' = stdout_pipe
            /\ killing' \in {killing, child_pid}
<1>1. state = "receive_standby" => ~may_start(inc)
  BY DEF may_start
<1>2. CASE /\ state = "receive_standby"
           /\ state' = "start_send_on_standby"
           /\ kill_child(sig_pipe)
           /\ UNCHANGED stdout_pipe
  BY <1>1, <1>2, KillChildWorkers
<1>3. CASE /\ may_start(inc)
           /\ start_thread("send", IF state = "inactive" THEN "sending"
                                   ELSE "send_on_standby", "convert")
           /\ UNCHANGED killing
  <2> DEFINE s == IF state = "inactive" THEN "sending" ELSE "send_on_standby"
  <2>1. s # "inactive" /\ start_thread("send", s, "convert")
    BY <1>3
  <2> HIDE DEF s
  <2> QED
    BY <1>3, <2>1, StartThreadWorkers
<1>4. CASE /\ ~may_start(inc)
           /\ \/ cannot_send(f, inr \/ redial, queue, result)
              \/ cannot_send(f, redial, queue, result)
  <2>1. state # "inactive"
    BY <1>4 DEF may_start
  <2> QED
    BY <1>4, <2>1 DEF cannot_send
<1> QED
  BY <1>1, <1>2, <1>3, <1>4 DEF sendfax_impl

LEMMA ClosedownWorkers ==
  ASSUME TypeOK, NEW sp, efax_closedown(sp)
  PROVE  /\ killing' \in {killing, child_pid}
         /\ \A w \in Workers : /\ worker'[w].pc = worker[w].pc
                               /\ worker'[w].pid = worker[w].pid
                               /\ worker'[w].kind = worker[w].kind
                               /\ worker'[w].proc \in {"none", "held"}
                                    => worker'[w].proc = worker[w].proc
BY KillChildWorkers DEF efax_closedown

-----------------------------------------------------------------------------
\* Steps that change neither the session nor its child, kills apart.
LEMMA ChildKept ==
  ASSUME TypeOK, ChildInv, UNCHANGED <<child_pid, iowatch, posted, stdout_pipe>>,
         state' = "inactive" <=> state = "inactive",
         killing' \in {killing, child_pid, NoPid},
         \A w \in Workers : worker'[w].pc = worker[w].pc /\ worker'[w].pid = worker[w].pid
  PROVE  ChildInv'
BY DEF ChildInv, Early, Late, NoChild

\* A session begins, or fails to, with no child recorded.
LEMMA ChildOfNewSession ==
  ASSUME TypeOK, ChildInv, NoChild', posted' = <<>>, killing' = NoPid,
         \A w \in Workers : worker'[w].pc \in {"none", "convert", "fork"},
         stdout_pipe' <=> state' # "inactive"
  PROVE  ChildInv'
BY DEF ChildInv, Early, Late

\* The Send button and the redial timers.
LEMMA ChildAfterRequest ==
  ASSUME SessionInv, ChildInv, GuiReady, UNCHANGED threadVars, NEW f,
         NEW inr \in BOOLEAN, NEW queue, NEW result,
         sendfax_impl(f, FALSE, inr, queue, result)
  PROVE  ChildInv'
<1>1. TypeOK /\ (may_start(FALSE) <=> state = "inactive") /\ killing = NoPid
  BY DEF SessionInv, may_start, GuiReady
<1>2. state = "inactive" => Idle /\ NoChild
  BY <1>1, Phases DEF SessionInv, Working, Reported, ChildInv
<1>3. CASE may_start(FALSE)
  <2>1. NoActive /\ posted' = <<>> /\ NoChild'
    BY <1>1, <1>2, <1>3 DEF Idle, NoChild
  <2> QED
    BY <1>1, <1>3, <2>1, SendfaxImplWorkers, ChildOfNewSession
<1>4. CASE ~may_start(FALSE)
  BY <1>1, <1>4, SendfaxImplWorkers, ChildKept
<1> QED
  BY <1>3, <1>4

LEMMA UserStepChild == SessionInv /\ ChildInv /\ UserStep => ChildInv'
<1> SUFFICES ASSUME SessionInv, ChildInv, UserStep PROVE ChildInv'
  OBVIOUS
<1>0. TypeOK
  BY DEF SessionInv
<1>1. ASSUME NEW f \in Faxes, SendFax(f) PROVE ChildInv'
  BY <1>1, ChildAfterRequest DEF SendFax
<1>2. ASSUME NEW mode \in ReceiveModes, Receive(mode) PROVE ChildInv'
  <2>1. Idle /\ NoChild /\ killing = NoPid
    BY <1>0, <1>2, Phases
      DEF Receive, SessionInv, Working, Reported, ChildInv, GuiReady
  <2>2. /\ \A w \in Workers : worker'[w].pc \in {"none", "fork"}
        /\ stdout_pipe' <=> state' # "inactive"
    BY <1>0, <1>2, <2>1, ReceiveBodyWorkers DEF Receive, Idle
  <2>3. NoChild' /\ posted' = <<>> /\ killing' = NoPid
    BY <1>2, <2>1 DEF Receive, NoChild, Idle
  <2> QED
    BY <1>0, <2>2, <2>3, ChildOfNewSession
<1>3. CASE Stop
  BY <1>0, <1>3, KillChildWorkers, ChildKept DEF Stop
<1>4. CASE Close
  BY <1>0, <1>4, ClosedownWorkers, ChildKept DEF Close
<1>5. CASE \/ OpenSettings \/ PopulateFaxList \/ \E r \in BOOLEAN : CloseSettings(r)
           \/ \E f \in Faxes : RemoveFromRedialQueue(f) \/ RemoveSocketFile(f)
  <2>1. UNCHANGED <<threadVars, processVars, sessionVars>>
    BY <1>5 DEF OpenSettings, PopulateFaxList, CloseSettings,
       RemoveFromRedialQueue, RemoveSocketFile
  <2> QED
    BY <1>0, <2>1, ChildKept
<1> QED
  BY <1>1, <1>2, <1>3, <1>4, <1>5 DEF UserStep

LEMMA CallbackStepChild == SessionInv /\ ChildInv /\ CallbackStep => ChildInv'
<1> SUFFICES ASSUME SessionInv, ChildInv, CallbackStep PROVE ChildInv'
  OBVIOUS
<1>0. TypeOK /\ (Idle \/ Working \/ Reported)
  BY Phases DEF SessionInv
<1>1. CASE KillAfterDelay
  <2>1. \A w \in Workers : worker'[w].pc = worker[w].pc /\ worker'[w].pid = worker[w].pid
    BY <1>0, <1>1 DEF KillAfterDelay, TypeOK, WorkerRecords
  <2> QED
    BY <1>0, <1>1, <2>1, ChildKept DEF KillAfterDelay
<1>2. CASE SigEvent
  BY <1>0, <1>2, ClosedownWorkers, ChildKept DEF SigEvent
<1>3. CASE FaxListPopulated
  BY <1>0, <1>3, ChildKept DEF FaxListPopulated
<1>4. ASSUME NEW f \in Faxes, redial_cb(f) PROVE ChildInv'
  <2>1. CASE UNCHANGED <<sessionVars, processVars>>
    BY <1>0, <1>4, <2>1, ChildKept DEF redial_cb
  <2>2. CASE sendfax_impl(f, FALSE, TRUE, RedialQueue_remove(f, redial_queue), outcome)
    BY <1>4, <2>2, ChildAfterRequest DEF redial_cb
  <2> QED
    BY <1>4, <2>1, <2>2 DEF redial_cb
<1>5. ASSUME posted # <<>>, GuiReady
      PROVE  /\ NoActive /\ Tail(posted) = <<>> /\ killing = NoPid
             /\ Append(Tail(posted), Head(posted)) = posted
  <2>1. Reported
    BY <1>0, <1>5 DEF Idle, Working
  <2> QED
    BY <1>0, <1>5, <2>1, OneCallback DEF Reported, TypeOK, GuiReady
<1>6. CASE child_ended_cb_deferred
  <2>1. posted' = posted
    BY <1>5, <1>6 DEF child_ended_cb_deferred
  <2> QED
    BY <1>0, <1>6, <2>1, ChildKept DEF child_ended_cb_deferred
<1>7. CASE no_fax_made_cb
  <2>1. /\ NoActive /\ posted' = <<>> /\ killing' = NoPid
        /\ finish_send(state = "send_on_standby")
    BY <1>5, <1>7 DEF no_fax_made_cb
  <2>2. NoChild'
    BY <1>7 DEF no_fax_made_cb, ChildInv, NoChild
  <2> QED
    BY <1>0, <2>1, <2>2, FinishSendWorkers, ChildOfNewSession
<1>8. CASE child_ended_cb
  <2>1. NoActive /\ posted' = <<>> /\ killing = NoPid /\ NoChild'
    BY <1>5, <1>8 DEF child_ended_cb, NoChild
  <2>2. ASSUME killing' = killing, stdout_pipe' <=> state' # "inactive",
               \A w \in Workers : worker'[w].pc \in {"none", "convert", "fork"}
        PROVE  ChildInv'
    BY <1>0, <2>1, <2>2, ChildOfNewSession
  <2>3. CASE send_ended(Head(posted).code)
    BY <1>0, <2>1, <2>2, <2>3, FinishSendWorkers DEF send_ended
  <2>4. CASE state = "start_send_on_standby" /\ standby_ended_to_send
    <3>1. CASE sendfax_impl(last_fax_item_sent, TRUE, FALSE, redial_queue, outcome)
      <4>1. may_start(TRUE)
        BY <2>4 DEF may_start
      <4> QED
        BY <1>0, <2>1, <2>2, <3>1, <4>1, SendfaxImplWorkers
    <3>2. CASE state' = "inactive" /\ stdout_pipe' = FALSE /\ UNCHANGED processVars
      BY <2>1, <2>2, <3>2 DEF NoActive, Active
    <3> QED
      BY <2>4, <3>1, <3>2 DEF standby_ended_to_send
  <2>5. CASE restart_standby
    <3>1. "receive_standby" \in ReceiveModes
      BY DEF ReceiveModes
    <3> QED
      BY <1>0, <2>1, <2>2, <2>5, <3>1, ReceiveBodyWorkers DEF restart_standby
  <2>6. CASE end_receive
    BY <2>1, <2>2, <2>6 DEF end_receive, NoActive, Active
  <2> QED
    BY <1>8, <2>3, <2>4, <2>5, <2>6 DEF child_ended_cb
<1> QED
  BY <1>1, <1>2, <1>3, <1>4, <1>6, <1>7, <1>8 DEF CallbackStep

LEMMA WorkerStepChild ==
  SessionInv /\ ChildInv /\ (\E w \in Workers : WorkerStep(w)) => ChildInv'
<1> SUFFICES ASSUME SessionInv, ChildInv, NEW w \in Workers, WorkerStep(w)
             PROVE  ChildInv'
  OBVIOUS
<1>0. /\ TypeOK /\ worker[w] \in WorkerRecords
      /\ Idle \/ Working \/ Reported
  BY Phases DEF SessionInv, TypeOK
<1>1. Active(w)
  BY DEF WorkerStep, ConvertSucceeds, ConvertFails, Fork, PublishPid, JoinChild,
     ReapChild, PostChildEnded, Active
<1>2. posted = <<>> /\ state # "inactive" /\ \A v \in Workers \ {w} : ~Active(v)
  BY <1>0, <1>1 DEF Idle, Working, Reported, NoActive, OneActive
<1>3. killing # NoPid => killing = child_pid
  BY DEF ChildInv
<1>4. UNCHANGED <<state, stdout_pipe, killing>>
  BY DEF WorkerStep, ConvertSucceeds, ConvertFails, Fork, PublishPid, JoinChild,
     ReapChild, PostChildEnded
<1>5. stdout_pipe' <=> state' # "inactive"
  BY <1>4 DEF ChildInv
<1>6. ASSUME posted' = posted, killing' # NoPid => killing' = child_pid',
             \A v \in Workers \ {w} : worker'[v] = worker[v],
             Early(w)' => NoChild',
             Late(w)' => worker'[w].pid = child_pid'
                           /\ (iowatch' <=> worker'[w].pc # "join")
      PROVE  ChildInv'
  BY <1>2, <1>4, <1>5, <1>6 DEF ChildInv, Early, Late, Active
<1>7. CASE ConvertSucceeds(w)
  <2>1. worker'[w].pc = "fork" /\ \A v \in Workers \ {w} : worker'[v] = worker[v]
    BY <1>0, <1>7 DEF ConvertSucceeds, TypeOK, WorkerRecords
  <2> QED
    BY <1>3, <1>4, <1>6, <1>7, <2>1 DEF ConvertSucceeds, ChildInv, Early, Late, NoChild
<1>8. CASE Fork(w)
  <2>1. UNCHANGED threadVars /\ NoChild
    BY <1>8 DEF Fork, ChildInv, Early
  <2>2. CASE UNCHANGED worker
    BY <1>0, <1>4, <2>1, <2>2, ChildKept
  <2>3. ASSUME NEW p \in Pids,
               worker' = [worker EXCEPT ![w].pc = "publish", ![w].pid = p,
                                        ![w].proc = "held"]
        PROVE  ChildInv'
    <3>1. /\ worker'[w].pc = "publish"
          /\ \A v \in Workers \ {w} : worker'[v] = worker[v]
      BY <1>0, <2>3 DEF TypeOK, WorkerRecords
    <3> QED
      BY <1>3, <1>4, <1>6, <2>1, <3>1 DEF Early, Late, NoChild
  <2> QED
    BY <1>8, <2>2, <2>3 DEF Fork
<1>9. CASE PublishPid(w)
  <2>1. /\ worker'[w].pc = "join" /\ worker'[w].pid = worker[w].pid
        /\ \A v \in Workers \ {w} : worker'[v] = worker[v]
    BY <1>0, <1>9 DEF PublishPid, TypeOK, WorkerRecords
  <2>2. NoChild /\ killing = NoPid
    BY <1>3, <1>9 DEF PublishPid, ChildInv, Early, NoChild
  <2> QED
    BY <1>4, <1>6, <1>9, <2>1, <2>2 DEF PublishPid, Early, Late, NoChild
<1>10. CASE JoinChild(w)
  <2>1. /\ worker'[w].pc = "wait" /\ worker'[w].pid = worker[w].pid
        /\ \A v \in Workers \ {w} : worker'[v] = worker[v]
    BY <1>0, <1>10 DEF JoinChild, TypeOK, WorkerRecords
  <2>2. worker[w].pid = child_pid
    BY <1>10 DEF JoinChild, ChildInv, Late
  <2> QED
    BY <1>3, <1>4, <1>6, <1>10, <2>1, <2>2 DEF JoinChild, Early, Late
<1>11. CASE ReapChild(w)
  <2>1. /\ worker'[w].pc = "post" /\ worker'[w].pid = worker[w].pid
        /\ \A v \in Workers \ {w} : worker'[v] = worker[v]
    BY <1>0, <1>11 DEF ReapChild, TypeOK, WorkerRecords
  <2>2. worker[w].pid = child_pid /\ iowatch
    BY <1>11 DEF ReapChild, ChildInv, Late
  <2> QED
    BY <1>3, <1>4, <1>6, <1>11, <2>1, <2>2 DEF ReapChild, Early, Late
<1>12. ASSUME NEW c, posted' = Append(posted, c),
              worker' = [worker EXCEPT ![w] = NoWorker],
              UNCHANGED <<child_pid, iowatch>>,
              IF c.cb = "no_fax_made" THEN NoChild ELSE iowatch
       PROVE  ChildInv'
  <2>1. posted' = <<c>>
    BY <1>2, <1>12
  <2>2. Head(posted') = c
    BY <2>1
  <2>3. \A v \in Workers : worker'[v].pc = "none"
    BY <1>0, <1>2, <1>12 DEF TypeOK, Active, NoWorker
  <2> QED
    BY <1>2, <1>3, <1>4, <1>5, <1>12, <2>2, <2>3 DEF ChildInv, Early, Late, NoChild
<1>13. CASE ConvertFails(w)
  <2>1. NoChild
    BY <1>13 DEF ConvertFails, ChildInv, Early
  <2> QED
    BY <1>12, <1>13, <2>1 DEF ConvertFails
<1>14. CASE PostChildEnded(w)
  <2>1. iowatch
    BY <1>14 DEF PostChildEnded, ChildInv, Late
  <2> QED
    BY <1>12, <1>14, <2>1 DEF PostChildEnded
<1> QED
  BY <1>7, <1>8, <1>9, <1>10, <1>11, <1>13, <1>14 DEF WorkerStep

LEMMA OutsideStepChild ==
  /\ SessionInv /\ ChildInv
  /\ (\E w \in Workers : ChildStep(w)) \/ ExternalSignal \/ Ended
  => ChildInv'
<1> SUFFICES ASSUME SessionInv, ChildInv,
                    (\E w \in Workers : ChildStep(w)) \/ ExternalSignal \/ Ended
             PROVE  ChildInv'
  OBVIOUS
<1>0. TypeOK
  BY DEF SessionInv
<1>1. ASSUME NEW w \in Workers, ChildExec(w) \/ ChildExits(w) PROVE ChildInv'
  <2>1. \E proc, code :
          worker' \in {[worker EXCEPT ![w].proc = proc],
                      [worker EXCEPT ![w].proc = proc, ![w].code = code]}
    BY <1>1 DEF ChildExec, ChildExits
  <2>2. worker \in [Workers -> WorkerRecords]
    BY <1>0 DEF TypeOK
  <2>3. \A v \in Workers : worker'[v].pc = worker[v].pc /\ worker'[v].pid = worker[v].pid
    BY <2>1, <2>2 DEF WorkerRecords
  <2> QED
    BY <1>0, <1>1, <2>3, ChildKept DEF ChildExec, ChildExits
<1>2. CASE (\E w \in Workers : PageArrives(w)) \/ ExternalSignal \/ Ended
  BY <1>0, <1>2, ChildKept DEF PageArrives, ExternalSignal, Ended, vars
<1> QED
  BY <1>1, <1>2 DEF ChildStep

-----------------------------------------------------------------------------
THEOREM ChildInit == Init => ChildInv
BY DEF Init, ChildInv, Early, Late, NoChild, NoWorker

THEOREM ChildInductive == SessionInv /\ ChildInv /\ [Next]_vars => ChildInv'
<1> SUFFICES ASSUME SessionInv, ChildInv, [Next]_vars PROVE ChildInv'
  OBVIOUS
<1>1. CASE UNCHANGED vars
  BY <1>1, ChildKept DEF vars, SessionInv
<1> QED
  BY <1>1, UserStepChild, CallbackStepChild, WorkerStepChild, OutsideStepChild
    DEF Next

THEOREM ChildCorrect == Spec => []ChildInv
<1> QED
  BY SessionCorrect, ChildInit, ChildInductive, PTL DEF Spec

(***************************************************************************)
(* The argument of kill_child() for not looking at the pid again: while it *)
(* sleeps, the recorded pid is the one it signalled and no other worker    *)
(* has a child.                                                            *)
(***************************************************************************)
THEOREM KillTargetCorrect == Spec => []KillTargetIsCurrent
<1>1. SessionInv /\ ChildInv => KillTargetIsCurrent
  <2> SUFFICES ASSUME SessionInv, ChildInv, killing # NoPid
               PROVE  /\ killing = child_pid
                      /\ \A w \in Workers : Active(w) => worker[w].pid = killing
    BY DEF KillTargetIsCurrent
  <2>1. killing = child_pid
    BY DEF ChildInv
  <2>2. ASSUME NEW w \in Workers, Active(w) PROVE worker[w].pid = killing
    <3>1. Early(w) \/ Late(w)
      BY <2>2 DEF SessionInv, TypeOK, WorkerRecords, WorkerPCs, Active, Early, Late
    <3> QED
      BY <2>1, <3>1 DEF ChildInv, NoChild
  <2> QED
    BY <2>1, <2>2
<1> QED
  BY <1>1, SessionCorrect, ChildCorrect, PTL

(***************************************************************************)
(* The pipe is open exactly during a session and its watch is there to be  *)
(* removed exactly when a child has ended, in every order of events.       *)
(***************************************************************************)
THEOREM PipeCorrect == Spec => []PipeAndWatchPaired
<1>1. SessionInv /\ ChildInv => PipeAndWatchPaired
  <2> SUFFICES ASSUME SessionInv, ChildInv PROVE PipeAndWatchPaired
    OBVIOUS
  <2>1. stdout_pipe <=> state # "inactive"
    BY DEF ChildInv
  <2>2. iowatch => stdout_pipe
    BY DEF ChildInv, NoChild
  <2>3. posted # <<>> => Head(posted).cb \in {"child_ended", "no_fax_made"}
    BY PostedType DEF SessionInv, Callbacks
  <2>4. posted # <<>> => (iowatch <=> Head(posted).cb = "child_ended")
    BY <2>3 DEF ChildInv, NoChild
  <2> QED
    BY <2>1, <2>2, <2>4 DEF PipeAndWatchPaired
<1> QED
  BY <1>1, SessionCorrect, ChildCorrect, PTL

-----------------------------------------------------------------------------
(***************************************************************************)
(* What efax finds in faxin/current.                                       *)
(***************************************************************************)
CleanFor(w) ==
  /\ ~Active(w) => worker[w].kind = "none"
  /\ worker[w].pc \in {"convert", "fork"} => worker[w].proc = "none"
  /\ worker[w].kind = "receive" /\ worker[w].proc \in {"none", "held"}
       => current = "empty"

CleanInv == \A w \in Workers : CleanFor(w)

\* With no session, no worker counts on the directory.
LEMMA CleanIdle ==
  ASSUME CleanInv, NoActive, worker' = worker
  PROVE  CleanInv'
BY DEF CleanInv, CleanFor, NoActive, Active

LEMMA CleanStart ==
  ASSUME TypeOK, CleanInv, NoActive, NEW kind \in {"send", "receive"}, NEW s,
         NEW pc \in {"convert", "fork"}, start_thread(kind, s, pc),
         kind = "receive" => current' = "empty"
  PROVE  CleanInv'
<1>1. CASE worker' = worker
  BY <1>1, CleanIdle
<1>2. ASSUME NEW w \in Workers,
             worker' = [worker EXCEPT
               ![w] = [NoWorker EXCEPT !.pc = pc, !.kind = kind]]
      PROVE  CleanInv'
  <2>1. /\ worker'[w].pc = pc /\ worker'[w].kind = kind /\ worker'[w].proc = "none"
        /\ \A v \in Workers \ {w} : worker'[v] = worker[v]
    BY <1>2 DEF TypeOK, NoWorker
  <2> QED
    BY <2>1 DEF CleanInv, CleanFor, NoActive, Active
<1> QED
  BY <1>1, <1>2 DEF start_thread

LEMMA CleanReceive ==
  ASSUME TypeOK, CleanInv, NoActive, NEW mode, NEW dir, receive_body(mode, dir)
  PROVE  CleanInv'
BY CleanIdle, CleanStart DEF receive_body

LEMMA CleanFinish ==
  ASSUME TypeOK, CleanInv, NoActive, NEW b, finish_send(b)
  PROVE  CleanInv'
BY CleanIdle, CleanReceive DEF finish_send

\* Steps after which the workers are at most further on, with the same files.
LEMMA CleanKept ==
  ASSUME CleanInv, UNCHANGED current,
         \A w \in Workers : /\ worker'[w].pc = worker[w].pc
                            /\ worker'[w].kind = worker[w].kind
                            /\ \/ worker'[w].proc = worker[w].proc
                               \/ /\ worker'[w].proc \notin {"none", "held"}
                                  /\ worker[w].proc # "none"
  PROVE  CleanInv'
BY DEF CleanInv, CleanFor, Active

LEMMA CleanKill ==
  ASSUME TypeOK, CleanInv, NEW sp, kill_child(sp) \/ efax_closedown(sp),
         UNCHANGED current
  PROVE  CleanInv'
<1>1. CASE worker' = worker
  BY <1>1, CleanKept
<1>2. CASE \A w \in Workers : \/ worker'[w] = worker[w]
                              \/ /\ worker[w].proc = "running"
                                 /\ worker'[w] = [worker[w] EXCEPT !.proc = "termed"]
  <2>1. \A w \in Workers : worker[w] \in WorkerRecords
    BY DEF TypeOK
  <2>2. \A w \in Workers : /\ worker'[w].pc = worker[w].pc
                           /\ worker'[w].kind = worker[w].kind
                           /\ \/ worker'[w].proc = worker[w].proc
                              \/ worker[w].proc = "running" /\ worker'[w].proc = "termed"
    BY <1>2, <2>1 DEF WorkerRecords
  <2> QED
    BY <2>2, CleanKept
<1>3. ASSUME kill_child(sp)
      PROVE  \A w \in Workers : \/ worker'[w] = worker[w]
                                \/ /\ worker[w].proc = "running"
                                   /\ worker'[w] = [worker[w] EXCEPT !.proc = "termed"]
  BY <1>3 DEF TypeOK, kill_child
<1> QED
  BY <1>1, <1>2, <1>3 DEF efax_closedown

LEMMA CleanRequest ==
  ASSUME TypeOK, CleanInv, NEW f, NEW inc, NEW inr, NEW queue, NEW result,
         sendfax_impl(f, inc, inr, queue, result),
         may_start(inc) => NoActive, NoActive \/ UNCHANGED current
  PROVE  CleanInv'
<1>1. CASE kill_child(sig_pipe) /\ UNCHANGED current
  BY <1>1, CleanKill
<1>2. CASE worker' = worker
  BY <1>2, CleanKept, CleanIdle
<1>3. CASE NoActive /\ \E s : start_thread("send", s, "convert")
  BY <1>3, CleanStart
<1>4. CASE NoActive /\ kill_child(sig_pipe)
  <2>1. \A w \in Workers : worker'[w].pc = worker[w].pc /\ worker'[w].kind = worker[w].kind
    BY <1>4, KillChildWorkers
  <2> QED
    BY <1>4, <2>1 DEF CleanInv, CleanFor, NoActive, Active
<1> QED
  BY <1>1, <1>2, <1>3, <1>4 DEF sendfax_impl, cannot_send

THEOREM CleanInit == Init => CleanInv
BY DEF Init, CleanInv, CleanFor, NoWorker, Active

THEOREM CleanStep == SessionInv /\ CleanInv /\ [Next]_vars => CleanInv'
<1> SUFFICES ASSUME SessionInv, CleanInv, [Next]_vars PROVE CleanInv'
  OBVIOUS
<1>0. /\ TypeOK /\ worker \in [Workers -> WorkerRecords]
      /\ Idle \/ Working \/ Reported
  BY Phases DEF SessionInv, TypeOK
<1>1. CASE UNCHANGED vars
  BY <1>1, CleanKept DEF vars
<1>2. state = "inactive" \/ posted # <<>> => NoActive
  BY <1>0 DEF Idle, Working, Reported
<1>3. may_start(FALSE) <=> state = "inactive"
  BY DEF may_start
<1>4. CASE UserStep
  <2>1. ASSUME NEW f \in Faxes, SendFax(f) PROVE CleanInv'
    BY <1>0, <1>2, <1>3, <2>1, CleanRequest DEF SendFax
  <2>2. ASSUME NEW mode \in ReceiveModes, Receive(mode) PROVE CleanInv'
    BY <1>0, <1>2, <2>2, CleanReceive DEF Receive
  <2>3. CASE Stop \/ Close
    BY <1>0, <2>3, CleanKill DEF Stop, Close
  <2>4. CASE \/ OpenSettings \/ PopulateFaxList \/ \E r \in BOOLEAN : CloseSettings(r)
             \/ \E f \in Faxes : RemoveFromRedialQueue(f) \/ RemoveSocketFile(f)
    BY <2>4, CleanKept DEF OpenSettings, PopulateFaxList, CloseSettings,
       RemoveFromRedialQueue, RemoveSocketFile
  <2> QED
    BY <1>4, <2>1, <2>2, <2>3, <2>4 DEF UserStep
<1>5. CASE CallbackStep
  <2>1. CASE KillAfterDelay
    <3>1. \A w \in Workers : /\ worker'[w].pc = worker[w].pc
                             /\ worker'[w].kind = worker[w].kind
                             /\ \/ worker'[w].proc = worker[w].proc
                                \/ /\ worker'[w].proc = "zombie"
                                   /\ worker[w].proc # "none"
      BY <1>0, <2>1 DEF KillAfterDelay, WorkerRecords
    <3> QED
      BY <2>1, <3>1, CleanKept DEF KillAfterDelay
  <2>2. CASE SigEvent
    BY <1>0, <2>2, CleanKill DEF SigEvent
  <2>3. CASE FaxListPopulated \/ child_ended_cb_deferred
    BY <2>3, CleanKept DEF FaxListPopulated, child_ended_cb_deferred
  <2>4. ASSUME NEW f \in Faxes, redial_cb(f) PROVE CleanInv'
    <3>1. CASE UNCHANGED processVars
      BY <2>4, <3>1, CleanKept DEF redial_cb
    <3>2. CASE sendfax_impl(f, FALSE, TRUE, RedialQueue_remove(f, redial_queue), outcome)
      BY <1>0, <1>2, <1>3, <2>4, <3>2, CleanRequest DEF redial_cb
    <3> QED
      BY <2>4, <3>1, <3>2 DEF redial_cb
  <2>5. CASE no_fax_made_cb
    BY <1>0, <1>2, <2>5, CleanFinish DEF no_fax_made_cb
  <2>6. CASE child_ended_cb
    <3>1. NoActive
      BY <1>2, <2>6 DEF child_ended_cb
    <3>2. CASE send_ended(Head(posted).code)
      BY <1>0, <3>1, <3>2, CleanFinish DEF send_ended
    <3>3. CASE standby_ended_to_send
      BY <1>0, <3>1, <3>3, CleanRequest, CleanIdle DEF standby_ended_to_send
    <3>4. CASE restart_standby
      BY <1>0, <3>1, <3>4, CleanReceive DEF restart_standby
    <3>5. CASE end_receive
      BY <3>1, <3>5, CleanIdle DEF end_receive
    <3> QED
      BY <2>6, <3>2, <3>3, <3>4, <3>5 DEF child_ended_cb
  <2> QED
    BY <1>5, <2>1, <2>2, <2>3, <2>4, <2>5, <2>6 DEF CallbackStep
<1>6. ASSUME NEW w \in Workers, WorkerStep(w) PROVE CleanInv'
  <2>1. CASE ConvertFails(w) \/ PostChildEnded(w)
    <3>1. worker'[w] = NoWorker /\ \A v \in Workers \ {w} : worker'[v] = worker[v]
      BY <1>0, <2>1 DEF ConvertFails, PostChildEnded
    <3> QED
      BY <2>1, <3>1
        DEF ConvertFails, PostChildEnded, CleanInv, CleanFor, Active, NoWorker
  <2>2. ASSUME \A v \in Workers \ {w} : worker'[v] = worker[v], UNCHANGED current,
               worker[w].pc # "none", worker'[w].pc # "none",
               worker'[w].kind = worker[w].kind,
               worker'[w].pc \in {"convert", "fork"} => worker'[w].proc = "none",
               worker'[w].proc \in {"none", "held"}
                 => worker[w].proc \in {"none", "held"}
        PROVE  CleanInv'
    BY <2>2 DEF CleanInv, CleanFor, Active
  <2>3. CASE ConvertSucceeds(w) \/ PublishPid(w) \/ JoinChild(w) \/ ReapChild(w)
    <3>1. /\ \A v \in Workers \ {w} : worker'[v] = worker[v]
          /\ worker'[w].pc \in {"fork", "join", "wait", "post"}
          /\ worker'[w].pc = "fork" => worker[w].pc = "convert"
          /\ worker'[w].kind = worker[w].kind
          /\ worker'[w].proc \in {worker[w].proc, "reaped"}
      BY <1>0, <2>3
        DEF ConvertSucceeds, PublishPid, JoinChild, ReapChild, WorkerRecords
    <3>2. worker'[w].pc = "fork" => worker'[w].proc = "none"
      BY <1>0, <2>3, <3>1 DEF ConvertSucceeds, PublishPid, JoinChild, ReapChild,
         WorkerRecords, CleanInv, CleanFor
    <3>3. UNCHANGED current /\ worker[w].pc # "none"
      BY <2>3 DEF ConvertSucceeds, PublishPid, JoinChild, ReapChild
    <3> QED
      BY <2>2, <3>1, <3>2, <3>3
  <2>4. CASE Fork(w)
    <3>1. CASE worker' = worker
      BY <2>4, <3>1, CleanKept DEF Fork
    <3>2. ASSUME NEW p \in Pids,
                 worker' = [worker EXCEPT ![w].pc = "publish", ![w].pid = p,
                                          ![w].proc = "held"]
          PROVE  CleanInv'
      <4>1. /\ \A v \in Workers \ {w} : worker'[v] = worker[v]
            /\ worker'[w].pc = "publish" /\ worker'[w].kind = worker[w].kind
        BY <1>0, <3>2 DEF WorkerRecords
      <4>2. worker[w].pc = "fork" /\ worker[w].proc = "none" /\ UNCHANGED current
        BY <2>4 DEF Fork, CleanInv, CleanFor
      <4> QED
        BY <2>2, <4>1, <4>2
    <3> QED
      BY <2>4, <3>1, <3>2 DEF Fork
  <2> QED
    BY <1>6, <2>1, <2>3, <2>4 DEF WorkerStep
<1>7. ASSUME NEW w \in Workers, ChildStep(w) PROVE CleanInv'
  <2>1. CASE ChildExec(w) \/ ChildExits(w)
    <3>1. \E proc \in {"running", "zombie"} : \E code :
            worker' \in {[worker EXCEPT ![w].proc = proc],
                        [worker EXCEPT ![w].proc = proc, ![w].code = code]}
      BY <2>1 DEF ChildExec, ChildExits
    <3>2. \A v \in Workers :
            /\ worker'[v].pc = worker[v].pc /\ worker'[v].kind = worker[v].kind
            /\ \/ worker'[v].proc = worker[v].proc
               \/ v = w /\ worker'[v].proc \in {"running", "zombie"}
      BY <1>0, <3>1 DEF WorkerRecords
    <3>3. UNCHANGED current /\ worker[w].proc # "none"
      BY <2>1 DEF ChildExec, ChildExits
    <3> QED
      BY <3>2, <3>3, CleanKept
  <2>2. CASE PageArrives(w)
    <3>1. worker[w].kind = "receive" /\ worker[w].proc = "running" /\ worker' = worker
      BY <2>2 DEF PageArrives
    <3>2. Active(w) /\ \A v \in Workers \ {w} : ~Active(v)
      BY <1>0, <3>1 DEF CleanInv, CleanFor, Idle, Working, Reported, NoActive, OneActive
    <3> QED
      BY <3>1, <3>2 DEF CleanInv, CleanFor, Active
  <2> QED
    BY <1>7, <2>1, <2>2 DEF ChildStep
<1>8. CASE ExternalSignal \/ Ended
  BY <1>8, CleanKept DEF ExternalSignal, Ended, vars
<1> QED
  BY <1>1, <1>4, <1>5, <1>6, <1>7, <1>8 DEF Next

(***************************************************************************)
(* A receive session reaches efax only with an empty faxin/current: a fax  *)
(* that could not be saved is never written over.                          *)
(***************************************************************************)
THEOREM ReceiveCleanCorrect == Spec => []ReceiveStartsClean
<1>1. CleanInv => ReceiveStartsClean
  BY DEF CleanInv, CleanFor, ReceiveStartsClean
<1> QED
  BY <1>1, SessionCorrect, CleanInit, CleanStep, PTL DEF Spec

(***************************************************************************)
(* The worker reads last_fax_item_sent with no lock: no handler changes it *)
(* between the start of a send session and the end of its clean-up.        *)
(***************************************************************************)
THEOREM ItemFixedCorrect == Spec => ItemFixedWhileSending
<1> DEFINE Fixed == {state, state'} \subseteq SendStates
                      => last_fax_item_sent' = last_fax_item_sent
<1>1. SessionInv /\ [Next]_vars => [Fixed]_vars
  <2> SUFFICES ASSUME SessionInv, Next, state \in SendStates
               PROVE  last_fax_item_sent' = last_fax_item_sent
    BY DEF SessionInv
  <2>1. state \notin {"inactive", "receive_standby"}
    BY DEF SendStates
  <2>2. ASSUME NEW f, NEW inr, NEW queue, NEW result,
               sendfax_impl(f, FALSE, inr, queue, result)
        PROVE  last_fax_item_sent' = last_fax_item_sent
    BY <2>1, <2>2 DEF sendfax_impl, cannot_send, may_start
  <2>3. CASE UserStep
    BY <2>1, <2>2, <2>3 DEF UserStep, SendFax, RemoveFromRedialQueue,
       RemoveSocketFile, Receive, Stop, Close, OpenSettings, PopulateFaxList,
       CloseSettings
  <2>4. CASE CallbackStep
    <3>1. CASE child_ended_cb
      BY <2>1, <3>1 DEF child_ended_cb, send_ended, standby_ended_to_send,
         sendfax_impl, cannot_send, end_receive
    <3> QED
      BY <2>1, <2>4, <3>1 DEF CallbackStep, KillAfterDelay, SigEvent,
         FaxListPopulated, no_fax_made_cb, child_ended_cb_deferred, redial_cb
  <2>5. CASE (\E w \in Workers : WorkerStep(w) \/ ChildStep(w)) \/ ExternalSignal \/ Ended
    BY <2>5 DEF WorkerStep, ConvertSucceeds, ConvertFails, Fork, PublishPid,
       JoinChild, ReapChild, PostChildEnded, ChildStep, ChildExec, PageArrives,
       ChildExits, ExternalSignal, Ended, vars
  <2> QED
    BY <2>3, <2>4, <2>5 DEF Next
<1> QED
  BY <1>1, SessionCorrect, PTL DEF Spec, ItemFixedWhileSending

-----------------------------------------------------------------------------
(***************************************************************************)
(* The pages ghostscript leaves beside a file.                             *)
(***************************************************************************)

\* The session in which ghostscript makes pages.
Making == state \in {"sending", "send_on_standby"}

\* Pages are made for the item of the session alone, and removed at its end.
LEMMA PagesMade ==
  ASSUME NoStalePages, "save" \notin Faults,
         \/ tiff' \subseteq tiff \ {last_fax_item_sent}
         \/ tiff' \subseteq tiff /\ ~Making
         \/ /\ tiff' \subseteq tiff \cup {last_fax_item_sent}
            /\ Making /\ UNCHANGED <<state, last_fax_item_sent>>
  PROVE  NoStalePages'
<1>1. tiff \subseteq {last_fax_item_sent} /\ (~Making => tiff = {})
  BY DEF NoStalePages, Making
<1>2. CASE tiff' = {}
  BY <1>2 DEF NoStalePages
<1>3. CASE /\ tiff' \subseteq tiff \cup {last_fax_item_sent}
           /\ Making /\ UNCHANGED <<state, last_fax_item_sent>>
  BY <1>1, <1>3 DEF NoStalePages, Making
<1> QED
  BY <1>1, <1>2, <1>3

THEOREM PagesStep == SessionInv /\ NoStalePages /\ [Next]_vars => NoStalePages'
<1> SUFFICES ASSUME SessionInv, NoStalePages, [Next]_vars, "save" \notin Faults
             PROVE  NoStalePages'
  BY DEF NoStalePages
<1>1. ASSUME UNCHANGED tiff, ~Making \/ UNCHANGED <<state, last_fax_item_sent>>
      PROVE  NoStalePages'
  BY <1>1, PagesMade
<1>2. CASE UNCHANGED vars
  BY <1>1, <1>2 DEF vars
<1>3. ASSUME NEW f, NEW inr, NEW queue, NEW result, UNCHANGED tiff,
             sendfax_impl(f, FALSE, inr, queue, result)
      PROVE  NoStalePages'
  BY <1>1, <1>3 DEF sendfax_impl, cannot_send, may_start, Making
<1>4. CASE UserStep
  <2>1. ASSUME NEW mode \in ReceiveModes, Receive(mode) PROVE NoStalePages'
    BY <1>1, <2>1 DEF Receive, Making
  <2> QED
    BY <1>1, <1>3, <1>4, <2>1 DEF UserStep, SendFax, RemoveFromRedialQueue,
       RemoveSocketFile, Stop, Close, OpenSettings, PopulateFaxList, CloseSettings
<1>5. CASE CallbackStep
  <2>1. ASSUME NEW f \in Faxes, redial_cb(f) PROVE NoStalePages'
    BY <1>1, <1>3, <2>1 DEF redial_cb
  <2>2. CASE no_fax_made_cb
    BY <2>2, PagesMade DEF no_fax_made_cb, cleanup_fax_send_fail
  <2>3. CASE child_ended_cb
    <3>1. CASE send_ended(Head(posted).code)
      BY <3>1, PagesMade DEF send_ended, save_sent_fax, cleanup_fax_send_fail
    <3>2. ASSUME ~Making, standby_ended_to_send \/ restart_standby \/ end_receive
          PROVE  NoStalePages'
      BY <1>1, <3>2 DEF standby_ended_to_send, restart_standby, end_receive
    <3> QED
      BY <2>3, <3>1, <3>2 DEF child_ended_cb, Making
  <2> QED
    BY <1>1, <1>5, <2>1, <2>2, <2>3 DEF CallbackStep, KillAfterDelay, SigEvent,
       FaxListPopulated, child_ended_cb_deferred
<1>6. ASSUME NEW w \in Workers, WorkerStep(w) PROVE NoStalePages'
  <2>1. CASE ConvertSucceeds(w) \/ ConvertFails(w)
    <3>1. Making
      BY <2>1 DEF ConvertSucceeds, ConvertFails, SessionInv, ConversionIsSending,
         Converting, Making
    <3> QED
      BY <2>1, <3>1, PagesMade DEF ConvertSucceeds, ConvertFails
  <2> QED
    BY <1>1, <1>6, <2>1
      DEF WorkerStep, Fork, PublishPid, JoinChild, ReapChild, PostChildEnded
<1>7. CASE (\E w \in Workers : ChildStep(w)) \/ ExternalSignal \/ Ended
  BY <1>1, <1>7 DEF ChildStep, ChildExec, PageArrives, ChildExits,
     ExternalSignal, Ended, vars
<1> QED
  BY <1>2, <1>4, <1>5, <1>6, <1>7 DEF Next

(***************************************************************************)
(* A session finds no pages of an earlier one beside the file it converts: *)
(* every way out of a send session removes those of its item.              *)
(***************************************************************************)
THEOREM PagesCorrect == Spec => []NoStalePages
<1>1. Init => NoStalePages
  BY DEF Init, NoStalePages
<1> QED
  BY <1>1, SessionCorrect, PagesStep, PTL DEF Spec

-----------------------------------------------------------------------------
(***************************************************************************)
(* What the window shows.                                                  *)
(***************************************************************************)

\* The state display_state() was last given when the controller is in s.
ShownFor(s) == IF s = "start_send_on_standby" THEN "receive_standby" ELSE s

DirCanBeMade == Faults \cap {"mkdir", "save"} = {}

(***************************************************************************)
(* The inductive invariant.  The end of a send session leaves the display  *)
(* to receive() when standby is resumed, and receive() calls it only when  *)
(* it can make faxin/current: so that directory must stay away while a fax *)
(* is sent, and hence no receiving process may be left to write in it.     *)
(***************************************************************************)
ReceiverReceives ==
  \A w \in Workers : worker[w].kind = "receive"
                      => state \in ReceiveModes \cup {"start_send_on_standby"}

ShowsState ==
  DirCanBeMade => /\ shown = ShownFor(state)
                  /\ state = "send_on_standby" => current = "absent"

ShownInv == CleanInv /\ ReceiverReceives /\ ShowsState

\* How a session starts, as the two parts of the invariant see it.
LEMMA StartThreadShown ==
  ASSUME TypeOK, CleanInv, NoActive, NEW kind, NEW s \in States, NEW pc,
         start_thread(kind, s, pc), s # "start_send_on_standby",
         kind = "receive" => s \in ReceiveModes
  PROVE  ReceiverReceives' /\ shown' = ShownFor(state')
<1>1. \A w \in Workers : worker[w].kind = "none"
  BY DEF CleanInv, CleanFor, NoActive
<1>2. CASE worker' = worker /\ state' = "inactive" /\ shown' = "inactive"
  BY <1>1, <1>2 DEF ReceiverReceives, ShownFor
<1>3. ASSUME NEW w \in Workers, state' = s, shown' = s,
             worker' = [worker EXCEPT
               ![w] = [NoWorker EXCEPT !.pc = pc, !.kind = kind]]
      PROVE  ReceiverReceives' /\ shown' = ShownFor(state')
  <2>1. \A v \in Workers : worker'[v].kind \in {"none", kind}
    BY <1>1, <1>3 DEF TypeOK, NoWorker
  <2> QED
    BY <1>3, <2>1 DEF ReceiverReceives, ShownFor
<1> QED
  BY <1>2, <1>3 DEF start_thread

LEMMA ReceiveBodyShown ==
  ASSUME TypeOK, CleanInv, NoActive, NEW mode \in ReceiveModes, NEW dir,
         receive_body(mode, dir),
         DirCanBeMade => dir = "absent" \/ shown = "inactive"
  PROVE  ReceiverReceives' /\ ShowsState'
<1>1. mode \in States /\ mode \notin {"start_send_on_standby", "send_on_standby", "inactive"}
  BY DEF ReceiveModes, States
<1>2. CASE /\ dir # "absent" \/ "mkdir" \in Faults
           /\ state' = "inactive"
           /\ UNCHANGED <<shown, worker>>
  <2>1. ReceiverReceives'
    BY <1>2 DEF ReceiverReceives, CleanInv, CleanFor, NoActive
  <2> QED
    BY <1>2, <2>1 DEF ShowsState, ShownFor, DirCanBeMade
<1>3. CASE start_thread("receive", mode, "fork")
  BY <1>1, <1>3, StartThreadShown DEF ShowsState, start_thread
<1> QED
  BY <1>2, <1>3 DEF receive_body

LEMMA FinishSendShown ==
  ASSUME TypeOK, ShownInv, NoActive, NEW b, finish_send(b),
         b => state = "send_on_standby"
  PROVE  ReceiverReceives' /\ ShowsState'
<1>1. CASE b
  BY <1>1, ReceiveBodyShown DEF finish_send, ShownInv, ShowsState, ReceiveModes
<1>2. CASE ~b
  BY <1>2 DEF finish_send, ShownInv, ReceiverReceives, ShowsState, ShownFor,
     CleanInv, CleanFor, NoActive
<1> QED
  BY <1>1, <1>2

\* A request: only child_ended_cb() (inc) starts a fax from standby, and it
\* has removed the directory first.
LEMMA SendfaxImplShown ==
  ASSUME TypeOK, ShownInv, NEW f, NEW inc, NEW inr, NEW queue, NEW result,
         sendfax_impl(f, inc, inr, queue, result),
         may_start(inc) => NoActive,
         UNCHANGED current \/ (DirCanBeMade => current' = "absent"),
         inc => (DirCanBeMade => current' = "absent")
  PROVE  ReceiverReceives' /\ ShowsState'
<1>1. CASE /\ state = "receive_standby" /\ state' = "start_send_on_standby"
           /\ kill_child(sig_pipe) /\ UNCHANGED shown
  <2>1. \A w \in Workers : worker'[w].kind = worker[w].kind
    BY <1>1, KillChildWorkers
  <2> QED
    BY <1>1, <2>1 DEF ShownInv, ReceiverReceives, ShowsState, ShownFor
<1>2. CASE /\ may_start(inc)
           /\ start_thread("send", IF state = "inactive" THEN "sending"
                                                         ELSE "send_on_standby",
                           "convert")
  <2>1. {"sending", "send_on_standby"} \subseteq States
    BY DEF States, SendStates
  <2>2. ReceiverReceives' /\ shown' = ShownFor(state')
    BY <1>2, <2>1, StartThreadShown DEF ShownInv
  <2>3. state' = "send_on_standby" => inc
    BY <1>2 DEF start_thread, may_start
  <2> QED
    BY <2>2, <2>3 DEF ShowsState
<1>3. CASE UNCHANGED <<state, shown, worker>>
  BY <1>3 DEF ShownInv, ReceiverReceives, ShowsState
<1> QED
  BY <1>1, <1>2, <1>3 DEF sendfax_impl, cannot_send

LEMMA ShownKept ==
  ASSUME ShownInv, UNCHANGED <<state, shown>>,
         state = "send_on_standby" => UNCHANGED current,
         \A w \in Workers : worker'[w].kind \in {"none", worker[w].kind}
  PROVE  ReceiverReceives' /\ ShowsState'
BY DEF ShownInv, ReceiverReceives, ShowsState

LEMMA ShownUser == SessionInv /\ ShownInv /\ UserStep => ReceiverReceives' /\ ShowsState'
<1> SUFFICES ASSUME SessionInv, ShownInv, UserStep
             PROVE  ReceiverReceives' /\ ShowsState'
  OBVIOUS
<1>0. /\ TypeOK /\ (state = "inactive" => NoActive)
      /\ may_start(FALSE) <=> state = "inactive"
  BY DEF SessionInv, OneSession, NoActive, may_start
<1>1. ASSUME NEW f \in Faxes, SendFax(f) PROVE ReceiverReceives' /\ ShowsState'
  BY <1>0, <1>1, SendfaxImplShown DEF SendFax
<1>2. ASSUME NEW mode \in ReceiveModes, Receive(mode)
      PROVE  ReceiverReceives' /\ ShowsState'
  <2>1. DirCanBeMade => shown = "inactive"
    BY <1>2 DEF Receive, ShownInv, ShowsState, ShownFor
  <2> QED
    BY <1>0, <1>2, <2>1, ReceiveBodyShown DEF Receive, ShownInv
<1>3. CASE Stop \/ Close
  <2>1. \A w \in Workers : worker'[w].kind = worker[w].kind
    BY <1>0, <1>3, KillChildWorkers DEF Stop, Close, efax_closedown
  <2> QED
    BY <1>3, <2>1, ShownKept DEF Stop, Close
<1>4. CASE \/ OpenSettings \/ PopulateFaxList \/ \E r \in BOOLEAN : CloseSettings(r)
           \/ \E f \in Faxes : RemoveFromRedialQueue(f) \/ RemoveSocketFile(f)
  BY <1>4, ShownKept DEF OpenSettings, PopulateFaxList, CloseSettings,
     RemoveFromRedialQueue, RemoveSocketFile
<1> QED
  BY <1>1, <1>2, <1>3, <1>4 DEF UserStep

LEMMA ShownCallback ==
  SessionInv /\ ShownInv /\ CallbackStep => ReceiverReceives' /\ ShowsState'
<1> SUFFICES ASSUME SessionInv, ShownInv, CallbackStep
             PROVE  ReceiverReceives' /\ ShowsState'
  OBVIOUS
<1>0. /\ TypeOK /\ (state = "inactive" \/ posted # <<>> => NoActive)
      /\ may_start(FALSE) <=> state = "inactive"
  BY DEF SessionInv, OneSession, NoActive, may_start
<1>1. CASE KillAfterDelay
  <2>1. \A w \in Workers : worker'[w].kind = worker[w].kind
    BY <1>0, <1>1 DEF KillAfterDelay, TypeOK, WorkerRecords
  <2> QED
    BY <1>1, <2>1, ShownKept DEF KillAfterDelay
<1>2. CASE SigEvent
  <2>1. \A w \in Workers : worker'[w].kind = worker[w].kind
    BY <1>0, <1>2, KillChildWorkers DEF SigEvent, efax_closedown
  <2> QED
    BY <1>2, <2>1, ShownKept DEF SigEvent
<1>3. CASE FaxListPopulated \/ child_ended_cb_deferred
  BY <1>3, ShownKept DEF FaxListPopulated, child_ended_cb_deferred
<1>4. ASSUME NEW f \in Faxes, redial_cb(f) PROVE ReceiverReceives' /\ ShowsState'
  <2>1. CASE UNCHANGED <<sessionVars, processVars>>
    BY <1>4, <2>1, ShownKept DEF redial_cb
  <2>2. CASE sendfax_impl(f, FALSE, TRUE, RedialQueue_remove(f, redial_queue), outcome)
    BY <1>0, <1>4, <2>2, SendfaxImplShown DEF redial_cb
  <2> QED
    BY <1>4, <2>1, <2>2 DEF redial_cb
<1>5. CASE no_fax_made_cb
  BY <1>0, <1>5, FinishSendShown DEF no_fax_made_cb
<1>6. CASE child_ended_cb
  <2>1. NoActive
    BY <1>0, <1>6 DEF child_ended_cb
  <2>2. DirCanBeMade => receive_cleanup = {"absent"}
    BY DEF DirCanBeMade, receive_cleanup
  <2>3. CASE send_ended(Head(posted).code)
    BY <1>0, <2>1, <2>3, FinishSendShown DEF send_ended
  <2>4. CASE standby_ended_to_send
    <3>1. CASE sendfax_impl(last_fax_item_sent, TRUE, FALSE, redial_queue, outcome)
      BY <1>0, <2>1, <2>2, <2>4, <3>1, SendfaxImplShown DEF standby_ended_to_send
    <3>2. CASE state' = "inactive" /\ shown' = "inactive" /\ UNCHANGED worker
      BY <2>1, <3>2 DEF ShownInv, ReceiverReceives, ShowsState, ShownFor,
         CleanInv, CleanFor, NoActive
    <3> QED
      BY <2>4, <3>1, <3>2 DEF standby_ended_to_send
  <2>5. CASE restart_standby
    BY <1>0, <2>1, <2>2, <2>5, ReceiveBodyShown
      DEF restart_standby, ShownInv, ReceiveModes
  <2>6. CASE end_receive
    BY <2>1, <2>6 DEF end_receive, ShownInv, ReceiverReceives, ShowsState,
       ShownFor, CleanInv, CleanFor, NoActive
  <2> QED
    BY <1>6, <2>3, <2>4, <2>5, <2>6 DEF child_ended_cb
<1> QED
  BY <1>1, <1>2, <1>3, <1>4, <1>5, <1>6 DEF CallbackStep

THEOREM ShownStep == SessionInv /\ ShownInv /\ [Next]_vars => ShownInv'
<1> SUFFICES ASSUME SessionInv, ShownInv, [Next]_vars
             PROVE  ReceiverReceives' /\ ShowsState'
  BY CleanStep DEF ShownInv
<1>0. worker \in [Workers -> WorkerRecords]
  BY DEF SessionInv, TypeOK
<1>1. CASE UNCHANGED vars
  BY <1>1, ShownKept DEF vars
<1>2. ASSUME NEW w \in Workers, WorkerStep(w)
      PROVE  ReceiverReceives' /\ ShowsState'
  <2>1. \A v \in Workers : worker'[v].kind \in {"none", worker[v].kind}
    <3>1. CASE ConvertFails(w) \/ PostChildEnded(w)
      BY <1>0, <3>1 DEF ConvertFails, PostChildEnded, NoWorker
    <3>2. CASE ConvertSucceeds(w) \/ PublishPid(w) \/ JoinChild(w) \/ ReapChild(w)
      BY <1>0, <3>2
        DEF ConvertSucceeds, PublishPid, JoinChild, ReapChild, WorkerRecords
    <3>3. CASE Fork(w)
      <4>1. ASSUME NEW p \in Pids,
                   worker' = [worker EXCEPT ![w].pc = "publish", ![w].pid = p,
                                            ![w].proc = "held"]
            PROVE  \A v \in Workers : worker'[v].kind = worker[v].kind
        BY <1>0, <4>1 DEF WorkerRecords
      <4> QED
        BY <3>3, <4>1 DEF Fork
    <3> QED
      BY <1>2, <3>1, <3>2, <3>3 DEF WorkerStep
  <2>2. UNCHANGED <<state, shown, current>>
    BY <1>2 DEF WorkerStep, ConvertSucceeds, ConvertFails, Fork, PublishPid,
       JoinChild, ReapChild, PostChildEnded
  <2> QED
    BY <2>1, <2>2, ShownKept
<1>3. ASSUME NEW w \in Workers, ChildStep(w)
      PROVE  ReceiverReceives' /\ ShowsState'
  <2>1. \A v \in Workers : worker'[v].kind = worker[v].kind
    BY <1>0, <1>3
      DEF ChildStep, ChildExec, PageArrives, ChildExits, WorkerRecords
  <2>2. state = "send_on_standby" => UNCHANGED current
    BY <1>3 DEF ChildStep, ChildExec, PageArrives, ChildExits, ShownInv,
       ReceiverReceives, ReceiveModes
  <2>3. UNCHANGED <<state, shown>>
    BY <1>3 DEF ChildStep, ChildExec, PageArrives, ChildExits
  <2> QED
    BY <2>1, <2>2, <2>3, ShownKept
<1>4. CASE ExternalSignal \/ Ended
  BY <1>4, ShownKept DEF ExternalSignal, Ended, vars
<1> QED
  BY <1>1, <1>2, <1>3, <1>4, ShownUser, ShownCallback DEF Next

(***************************************************************************)
(* When faxin/current can be made, the window shows the state the          *)
(* controller is in, whichever handler changed it last.                    *)
(***************************************************************************)
THEOREM ShownCorrect == Spec => []StateIsShown
<1>1. Init => ShownInv
  BY CleanInit DEF Init, ShownInv, ReceiverReceives, ShowsState, ShownFor, NoWorker
<1>2. ShownInv => StateIsShown
  BY DEF ShownInv, ShowsState, ShownFor, StateIsShown, DirCanBeMade
<1> QED
  BY <1>1, <1>2, SessionCorrect, ShownStep, PTL DEF Spec

(***************************************************************************)
(* A fax sent from standby is followed by standby, unless the program is   *)
(* closing down or the system refuses the thread or the directory.         *)
(***************************************************************************)
THEOREM StandbyCorrect == Spec => ReturnsToStandby
<1> DEFINE Returns ==
      state = "send_on_standby" /\ state' # "send_on_standby"
       => \/ state' = "receive_standby"
          \/ close_down
          \/ current # "absent" \/ Faults \cap {"mkdir", "thread"} # {}
<1>1. [Next]_vars => [Returns]_vars
  <2> SUFFICES ASSUME Next, state = "send_on_standby", state' # "send_on_standby",
                      ~close_down, current = "absent",
                      Faults \cap {"mkdir", "thread"} = {}
               PROVE  state' = "receive_standby"
    OBVIOUS
  <2>1. ASSUME finish_send(TRUE) PROVE state' = "receive_standby"
    BY <2>1 DEF finish_send, receive_body, start_thread
  <2>2. CASE CallbackStep
    <3>1. CASE no_fax_made_cb
      BY <2>1, <3>1 DEF no_fax_made_cb
    <3>2. CASE child_ended_cb
      BY <2>1, <3>2 DEF child_ended_cb, send_ended
    <3>3. ASSUME NEW f \in Faxes, redial_cb(f) PROVE FALSE
      BY <3>3 DEF redial_cb
    <3> QED
      BY <2>2, <3>1, <3>2, <3>3 DEF CallbackStep, KillAfterDelay, SigEvent,
         FaxListPopulated, child_ended_cb_deferred
  <2>3. CASE UserStep
    BY <2>3 DEF UserStep, SendFax, sendfax_impl, cannot_send, may_start, Receive,
       Stop, Close, OpenSettings, PopulateFaxList, CloseSettings,
       RemoveFromRedialQueue, RemoveSocketFile
  <2>4. CASE (\E w \in Workers : WorkerStep(w) \/ ChildStep(w)) \/ ExternalSignal \/ Ended
    BY <2>4 DEF WorkerStep, ConvertSucceeds, ConvertFails, Fork, PublishPid,
       JoinChild, ReapChild, PostChildEnded, ChildStep, ChildExec, PageArrives,
       ChildExits, ExternalSignal, Ended, vars
  <2> QED
    BY <2>2, <2>3, <2>4 DEF Next
<1> QED
  BY <1>1, PTL DEF Spec, ReturnsToStandby

=============================================================================
