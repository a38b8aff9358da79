--------------------------- MODULE IaxSupervisor ---------------------------
(***************************************************************************)
(* The controlling process of iaxmodem (main() and the modem list of       *)
(* iaxmodem.c): it forks one modem process per file of /etc/iaxmodem,      *)
(* waits for them, starts those again that end with SIGHUP, forgets the    *)
(* others, and passes SIGHUP and SIGTERM on to them.                       *)
(* Its handlers run between any two of its steps.  A child runs the        *)
(* handlers it was forked with until iaxmodem() installs its own: these    *)
(* signal only older children, which the parent signals as well, so that a *)
(* starting child just misses the signal.                                  *)
(***************************************************************************)
EXTENDS Integers, Sequences, FiniteSets, SequencesExt

CONSTANTS
    Configs,      \* the files of /etc/iaxmodem
    MaxForks      \* bound: process numbers, none is used twice

ASSUME ForksAssumption == MaxForks \in Nat \ {0}

VARIABLES
    pc,           \* the supervisor: see Places
    todo,         \* the files spawn_modems() has yet to read
    held,         \* the process just forked, or just reaped
    modems,       \* the list of children
    numchild,
    gothup,
    stopping,     \* SIGTERM has been taken
    procs,        \* the processes forked so far
    lost,         \* history: remove_modem() dropped the whole list
    refused,      \* history: a fork() failed
    orderly       \* history: SIGTERM came when all modems could be told, see Term

vars == <<pc, todo, held, modems, numchild, gothup, stopping, procs, lost, refused,
          orderly>>

Places == {"fork", "add", "wait", "reap", "done", "failed"}

Pids == DOMAIN procs
Living == {p \in Pids : procs[p].state \in {"starting", "up"}}
Unreaped == {p \in Pids : procs[p].state # "gone"}

\* "ended" processes wait to be reaped, with hup their status SIGHUP; of a living one
\* hup says that SIGHUP waits for its call to end.
ProcStates == {"starting", "up", "ended", "gone"}
Process(c) == [config |-> c, state |-> "starting", hup |-> FALSE]

\* Places in the list of the process p.
Entries(p) == {i \in DOMAIN modems : modems[i].pid = p}
Listed == {modems[i].pid : i \in DOMAIN modems}

-----------------------------------------------------------------------------

\* main() enters its loop with gothup set.
Init ==
    /\ pc = "fork"
    /\ todo = Configs
    /\ held = 0
    /\ modems = <<>>
    /\ numchild = 0
    /\ gothup = TRUE
    /\ stopping = FALSE
    /\ procs = <<>>
    /\ lost = FALSE
    /\ refused = FALSE
    /\ orderly = FALSE

-----------------------------------------------------------------------------
(* spawn_modems() *)

Fork(c) ==
    /\ pc = "fork"
    /\ c \in todo
    /\ Len(procs) < MaxForks
    /\ procs' = Append(procs, Process(c))
    /\ held' = Len(procs) + 1
    /\ todo' = todo \ {c}
    /\ pc' = "add"
    /\ UNCHANGED <<modems, numchild, gothup, stopping, lost, refused, orderly>>

\* The rest is left out; with no child at all the supervisor gives up.
ForkFails ==
    /\ refused' = TRUE
    /\ pc = "fork"
    /\ todo # {}
    /\ todo' = {}
    /\ pc' = IF numchild > 0 THEN "fork" ELSE "failed"
    /\ UNCHANGED <<held, modems, numchild, gothup, stopping, procs, lost, orderly>>

\* add_modem()
Add ==
    /\ pc = "add"
    /\ modems' = Append(modems, [pid |-> held, config |-> procs[held].config])
    /\ numchild' = numchild + 1
    /\ pc' = "fork"
    /\ UNCHANGED <<todo, held, gothup, stopping, procs, lost, refused, orderly>>

\* A SIGHUP taken while they were forked is forgotten.
Spawned ==
    /\ pc = "fork"
    /\ todo = {}
    /\ gothup' = FALSE
    /\ pc' = "wait"
    /\ UNCHANGED <<todo, held, modems, numchild, stopping, procs, lost,
                   refused, orderly>>

-----------------------------------------------------------------------------
(* wait_for_modems() *)

\* Mutant: the exit status is not shifted down.
Reap_raw_status(p) ==
    /\ pc = "wait"
    /\ numchild > 0
    /\ procs[p].state = "ended"
    /\ procs' = [procs EXCEPT ![p].state = "gone", ![p].hup = FALSE]
    /\ held' = p
    /\ pc' = "reap"
    /\ UNCHANGED <<todo, modems, numchild, gothup, stopping, lost, refused,
                   orderly>>

\* waitpid()
Reap(p) ==
    /\ pc = "wait"
    /\ numchild > 0
    /\ procs[p].state = "ended"
    /\ procs' = [procs EXCEPT ![p].state = "gone"]
    /\ held' = p
    /\ pc' = "reap"
    /\ UNCHANGED <<todo, modems, numchild, gothup, stopping, lost, refused,
                   orderly>>

\* Mutant: m->pid is not set.
RestartModem_keeps_pid ==
    /\ pc = "reap"
    /\ procs[held].hup
    /\ IF Entries(held) = {}
       THEN UNCHANGED <<procs, modems>>
       ELSE \E i \in Entries(held) :
                /\ Len(procs) < MaxForks
                /\ procs' = Append(procs, Process(modems[i].config))
                /\ UNCHANGED modems
    /\ pc' = "wait"
    /\ UNCHANGED <<todo, held, numchild, gothup, stopping, lost, refused, orderly>>

\* restart_modem()
RestartModem ==
    /\ pc = "reap"
    /\ procs[held].hup
    /\ IF Entries(held) = {}
       THEN UNCHANGED <<procs, modems>>
       ELSE \E i \in Entries(held) :
                /\ Len(procs) < MaxForks
                /\ procs' = Append(procs, Process(modems[i].config))
                /\ modems' = [modems EXCEPT ![i].pid = Len(procs) + 1]
    /\ pc' = "wait"
    /\ UNCHANGED <<todo, held, numchild, gothup, stopping, lost, refused, orderly>>

\* restart_modem() when fork() fails: the entry keeps the number of the dead process.
RestartFails ==
    /\ refused' = TRUE
    /\ pc = "reap"
    /\ procs[held].hup
    /\ pc' = "wait"
    /\ UNCHANGED <<todo, held, modems, numchild, gothup, stopping, procs, lost,
                   orderly>>

\* remove_modem(): the last entry is never looked at, and with the first the list goes.
RemoveModem ==
    /\ pc = "reap"
    /\ ~procs[held].hup
    /\ LET found == Entries(held) \ {Len(modems)}
       IN IF found = {}
          THEN UNCHANGED <<modems, numchild, lost>>
          ELSE \E i \in found :
                   /\ modems' = IF i = 1 THEN <<>> ELSE RemoveAt(modems, i)
                   /\ lost' = (lost \/ i = 1)
                   /\ numchild' = numchild - 1
    /\ pc' = "wait"
    /\ UNCHANGED <<todo, held, gothup, stopping, procs, refused, orderly>>

\* Mutant: a waitpid() interrupted by SIGHUP is taken for the last.
WaitEnds_interrupted ==
    /\ pc = "wait"
    /\ numchild <= 0 \/ Unreaped = {} \/ gothup
    /\ pc' = IF gothup THEN "fork" ELSE "done"
    /\ todo' = IF gothup THEN Configs ELSE {}
    /\ UNCHANGED <<held, modems, numchild, gothup, stopping, procs, lost,
                   refused, orderly>>

\* No child is counted, or waitpid() says that there is none: after a SIGHUP all the
\* files are read again.
WaitEnds ==
    /\ pc = "wait"
    /\ numchild <= 0 \/ Unreaped = {}
    /\ pc' = IF gothup THEN "fork" ELSE "done"
    /\ todo' = IF gothup THEN Configs ELSE {}
    /\ UNCHANGED <<held, modems, numchild, gothup, stopping, procs, lost,
                   refused, orderly>>

-----------------------------------------------------------------------------
(* Signals to the supervisor.  After SIGTERM their default action would kill it. *)

Running == pc \notin {"done", "failed"}

\* ctrl_hup_sighandler() and reload_modems()
Hup ==
    /\ Running /\ ~stopping
    /\ gothup' = TRUE
    /\ procs' = [p \in Pids |->
                    IF p \in Listed /\ procs[p].state = "up"
                    THEN [procs[p] EXCEPT !.hup = TRUE] ELSE procs[p]]
    /\ UNCHANGED <<pc, todo, held, modems, numchild, stopping, lost, refused,
                   orderly>>

\* Mutant: the last modem of the list is not signalled.
Term_skips_last ==
    /\ Running /\ ~stopping
    /\ stopping' = TRUE
    /\ orderly' = /\ pc = "wait" /\ ~gothup
                  /\ \A p \in Unreaped : p \in Listed /\ procs[p].state = "up"
    /\ procs' = [p \in Pids |->
                    IF p \in Listed /\ p # modems[Len(modems)].pid /\ procs[p].state = "up"
                    THEN [procs[p] EXCEPT !.state = "ended", !.hup = FALSE]
                    ELSE procs[p]]
    /\ UNCHANGED <<pc, todo, held, modems, numchild, gothup, lost, refused>>

\* ctrl_sighandler() and terminate_modems(); a modem ends on SIGTERM with that status.
Term ==
    /\ Running /\ ~stopping
    /\ stopping' = TRUE
    /\ orderly' = /\ pc = "wait" /\ ~gothup
                  /\ \A p \in Unreaped : p \in Listed /\ procs[p].state = "up"
    /\ procs' = [p \in Pids |->
                    IF p \in Listed /\ procs[p].state = "up"
                    THEN [procs[p] EXCEPT !.state = "ended", !.hup = FALSE]
                    ELSE procs[p]]
    /\ UNCHANGED <<pc, todo, held, modems, numchild, gothup, lost, refused>>

-----------------------------------------------------------------------------
(* The children. *)

\* iaxmodem() has installed its handlers.
Started(p) ==
    /\ procs[p].state = "starting"
    /\ procs' = [procs EXCEPT ![p].state = "up"]
    /\ UNCHANGED <<pc, todo, held, modems, numchild, gothup, stopping, lost,
                   refused, orderly>>

\* The administrator's own SIGHUP to one modem.
HupOne(p) ==
    /\ procs[p].state = "up" /\ ~procs[p].hup
    /\ procs' = [procs EXCEPT ![p].hup = TRUE]
    /\ UNCHANGED <<pc, todo, held, modems, numchild, gothup, stopping, lost,
                   refused, orderly>>

\* The call is over, or there was none.
EndsByHup(p) ==
    /\ procs[p].state = "up" /\ procs[p].hup
    /\ procs' = [procs EXCEPT ![p].state = "ended"]
    /\ UNCHANGED <<pc, todo, held, modems, numchild, gothup, stopping, lost,
                   refused, orderly>>

\* A fatal error, a crash, "nodaemon" in its file, or somebody's SIGTERM.
Ends(p) ==
    /\ p \in Living
    /\ procs' = [procs EXCEPT ![p].state = "ended", ![p].hup = FALSE]
    /\ UNCHANGED <<pc, todo, held, modems, numchild, gothup, stopping, lost,
                   refused, orderly>>

-----------------------------------------------------------------------------

SupervisorStep ==
    \/ \E c \in Configs : Fork(c)
    \/ ForkFails \/ Add \/ Spawned
    \/ \E p \in Pids : Reap(p)
    \/ RestartModem \/ RestartFails \/ RemoveModem \/ WaitEnds

ModemStep == \E p \in Pids : Started(p) \/ HupOne(p) \/ EndsByHup(p) \/ Ends(p)

Next == SupervisorStep \/ ModemStep \/ Hup \/ Term

Spec == Init /\ [][Next]_vars

\* The supervisor is a process of its own and goes on; nothing is assumed of modems.
FairSpec == Spec /\ WF_vars(SupervisorStep)

-----------------------------------------------------------------------------

\* Types; the list never holds a process twice.
TypeOK ==
    /\ pc \in Places
    /\ todo \subseteq Configs
    /\ procs \in Seq([config : Configs, state : ProcStates, hup : BOOLEAN])
    /\ held \in Pids \cup {0}
    /\ modems \in Seq([pid : Pids, config : Configs])
    /\ \A i, j \in DOMAIN modems : modems[i].pid = modems[j].pid => i = j
    /\ numchild \in Nat
    /\ {gothup, stopping, lost, refused, orderly} \subseteq BOOLEAN

\* iaxmodem.1: "spawning one process per config file": two processes of one file would
\* fight for its device and its registration.
OneProcessPerConfig ==
    \A p, q \in Living : procs[p].config = procs[q].config => p = q

\* The supervisor neither ends nor reads the files again while a modem runs, and every
\* modem can be reached by SIGHUP and SIGTERM, unless the list has been lost.
ListKnowsModems ==
    /\ TypeOK
    /\ pc \in {"done", "failed"} => Unreaped = {}
    /\ ~lost => \A p \in Living : p \in Listed \/ (pc = "add" /\ p = held)

\* A modem that ended for SIGHUP is started again, unless the list has been lost, or
\* fork() fails, or the bound on process numbers is reached.
RestartedAfterHup ==
    \A p \in 1..MaxForks :
        (p \in Pids /\ procs[p].state = "ended" /\ procs[p].hup)
            ~> (lost \/ refused \/ Len(procs) = MaxForks
                     \/ \E q \in Living : q > p /\ procs[q].config = procs[p].config)

\* ctrl_sighandler(): "Terminate children": a SIGTERM that comes when all modems can be
\* told, with no reload before it, ends them all and the supervisor.  (After a reload
\* gothup stays set, and the supervisor starts all modems anew.)
StopCompletes == orderly ~> pc = "done"

=============================================================================
