------------------------ MODULE IaxSupervisorProofs ------------------------
(***************************************************************************)
(* Theorems about IaxSupervisor, for any set of configuration files and    *)
(* any number of processes.                                                *)
(***************************************************************************)
EXTENDS IaxSupervisor, FiniteSetTheorems, SequenceTheorems, TLAPS

-----------------------------------------------------------------------------
(***************************************************************************)
(* The inductive invariant.  numchild is never too low: with it at 0 no    *)
(* modem is left to wait for.  (It may be too high, when restart_modem()   *)
(* cannot fork and when remove_modem() does not find its entry.)           *)
(***************************************************************************)
AllCounted ==
  /\ pc \in {"fork", "wait"} => Cardinality(Unreaped) <= numchild
  /\ pc = "add" => Cardinality(Unreaped) <= numchild + 1
  /\ pc = "reap" => Cardinality(Unreaped) + 1 <= numchild
  /\ pc \in {"done", "failed"} => Unreaped = {}

HeldIsNew ==
  /\ pc = "add" => held \in Unreaped /\ held \notin Listed
  /\ pc = "reap" => held \in Pids /\ procs[held].state = "gone"

\* The processes whose configuration file is taken.
Owners == Unreaped \cup (IF pc = "reap" THEN {held} ELSE {})

OneOwnerPerConfig ==
  /\ \A p, q \in Owners : procs[p].config = procs[q].config => p = q
  /\ \A p \in Owners : procs[p].config \notin todo
  /\ pc \notin {"fork", "add"} => todo = {}

EntriesAgree ==
  \A i \in DOMAIN modems : modems[i].config = procs[modems[i].pid].config

UnreapedListed ==
  ~lost => Unreaped \subseteq Listed \cup (IF pc = "add" THEN {held} ELSE {})

SupervisorInv ==
  TypeOK /\ AllCounted /\ HeldIsNew /\ OneOwnerPerConfig /\ EntriesAgree /\ UnreapedListed

-----------------------------------------------------------------------------
(***************************************************************************)
(* The sequence of processes and the list.                                 *)
(***************************************************************************)
Processes == [config : Configs, state : ProcStates, hup : BOOLEAN]

LEMMA PidsAre ==
  ASSUME TypeOK
  PROVE  /\ Len(procs) \in Nat /\ Pids = 1..Len(procs)
         /\ \A p \in Pids : procs[p] \in Processes
         /\ IsFiniteSet(Unreaped) /\ Cardinality(Unreaped) \in Nat
<1>1. procs \in Seq(Processes)
  BY DEF TypeOK, Processes
<1>2. /\ Len(procs) \in Nat /\ Pids = 1..Len(procs)
      /\ \A p \in Pids : procs[p] \in Processes
  BY <1>1 DEF Pids
<1>3. IsFiniteSet(Pids)
  BY <1>2, FS_Interval
<1>4. Unreaped \in SUBSET Pids
  BY DEF Unreaped
<1>5. IsFiniteSet(Unreaped)
  BY <1>3, <1>4, FS_Subset
<1> QED
  BY <1>2, <1>5, FS_CardinalityType

LEMMA EntriesTyped ==
  ASSUME TypeOK
  PROVE  /\ Len(modems) \in Nat /\ DOMAIN modems = 1..Len(modems)
         /\ \A i \in DOMAIN modems : modems[i].pid \in Pids /\ modems[i].config \in Configs
<1>1. modems \in Seq([pid : Pids, config : Configs])
  BY DEF TypeOK
<1>2. \A i \in DOMAIN modems : modems[i] \in [pid : Pids, config : Configs]
  BY <1>1, LenProperties, ElementOfSeq
<1> QED
  BY <1>1, <1>2, LenProperties

\* fork()
LEMMA Forked ==
  ASSUME TypeOK, NEW c \in Configs, procs' = Append(procs, Process(c))
  PROVE  /\ procs' \in Seq(Processes)
         /\ Len(procs) + 1 \notin Pids
         /\ Pids' = Pids \cup {Len(procs) + 1}
         /\ \A p \in Pids : procs'[p] = procs[p]
         /\ procs'[Len(procs) + 1] = Process(c)
         /\ Unreaped' = Unreaped \cup {Len(procs) + 1}
         /\ Cardinality(Unreaped)' = Cardinality(Unreaped) + 1
<1>1. procs \in Seq(Processes) /\ Process(c) \in Processes
  BY DEF TypeOK, Processes, Process, ProcStates
<1>2. /\ procs' \in Seq(Processes) /\ Len(procs') = Len(procs) + 1
      /\ \A p \in 1..Len(procs) : procs'[p] = procs[p]
      /\ procs'[Len(procs) + 1] = Process(c)
  BY <1>1, AppendProperties
<1>3. Pids' = 1..(Len(procs) + 1) /\ Pids = 1..Len(procs) /\ Len(procs) \in Nat
  BY <1>1, <1>2, LenProperties DEF Pids
<1>4. Process(c).state # "gone"
  BY DEF Process
<1>5. Unreaped' = Unreaped \cup {Len(procs) + 1} /\ Len(procs) + 1 \notin Unreaped
  BY <1>2, <1>3, <1>4 DEF Unreaped
<1>6. Cardinality(Unreaped)' = Cardinality(Unreaped) + 1
  BY <1>5, PidsAre, FS_AddElement
<1> QED
  BY <1>2, <1>3, <1>5, <1>6

\* What changes at the processes, but for one that is reaped.
LEMMA SameProcesses ==
  ASSUME TypeOK, procs' \in Seq(Processes), Len(procs') = Len(procs),
         \A p \in Pids : /\ procs'[p].config = procs[p].config
                         /\ (procs'[p].state = "gone" <=> procs[p].state = "gone")
  PROVE  Pids' = Pids /\ Unreaped' = Unreaped
<1>1. Pids' = 1..Len(procs) /\ Pids = 1..Len(procs)
  BY PidsAre, LenProperties DEF Pids
<1> QED
  BY <1>1 DEF Unreaped

LEMMA ProcessStep ==
  ASSUME SupervisorInv,
         UNCHANGED <<pc, todo, held, modems, numchild, lost>>,
         {gothup', stopping', refused', orderly'} \subseteq BOOLEAN,
         procs' \in Seq(Processes), Len(procs') = Len(procs),
         \A p \in Pids : /\ procs'[p].config = procs[p].config
                         /\ (procs'[p].state = "gone" <=> procs[p].state = "gone")
  PROVE  SupervisorInv'
<1>1. Pids' = Pids /\ Unreaped' = Unreaped
  BY SameProcesses DEF SupervisorInv
<1>2. Listed' = Listed
  BY DEF Listed
<1>3. TypeOK'
  BY <1>1 DEF SupervisorInv, TypeOK, Processes
<1>4. Owners' = Owners /\ Owners \subseteq Pids
  BY <1>1 DEF Owners, SupervisorInv, HeldIsNew, Unreaped
<1>5. \A i \in DOMAIN modems : modems[i].pid \in Pids
  BY EntriesTyped DEF SupervisorInv
<1>6. (AllCounted /\ HeldIsNew /\ UnreapedListed)'
  BY <1>1, <1>2 DEF SupervisorInv, AllCounted, HeldIsNew, UnreapedListed
<1>7. (OneOwnerPerConfig /\ EntriesAgree)'
  BY <1>4, <1>5 DEF SupervisorInv, OneOwnerPerConfig, EntriesAgree
<1> QED
  BY <1>3, <1>6, <1>7 DEF SupervisorInv

\* An entry is taken out of the list.
LEMMA EntryRemoved ==
  ASSUME NEW S, NEW list \in Seq(S), NEW i \in DOMAIN list
  PROVE  /\ RemoveAt(list, i) \in Seq(S)
         /\ \A j \in DOMAIN RemoveAt(list, i) :
              \E k \in DOMAIN list \ {i} : RemoveAt(list, i)[j] = list[k] /\ k = IF j < i THEN j ELSE j + 1
         /\ \A k \in DOMAIN list \ {i} :
              \E j \in DOMAIN RemoveAt(list, i) : RemoveAt(list, i)[j] = list[k]
<1> DEFINE a == SubSeq(list, 1, i - 1)
           b == SubSeq(list, i + 1, Len(list))
<1>1. Len(list) \in Nat /\ i \in 1..Len(list) /\ DOMAIN list = 1..Len(list)
      /\ \A k \in 1..Len(list) : list[k] \in S
  BY LenProperties
<1>2. /\ a \in Seq(S) /\ Len(a) = i - 1 /\ \A j \in 1..(i - 1) : a[j] = list[j]
  BY <1>1, SubSeqProperties
<1>3. /\ b \in Seq(S) /\ Len(b) = Len(list) - i
      /\ \A j \in 1..(Len(list) - i) : b[j] = list[i + j]
  BY <1>1, SubSeqProperties
<1>5. RemoveAt(list, i) = a \o b
  BY DEF RemoveAt
<1> HIDE DEF a, b
<1>4. /\ a \o b \in Seq(S) /\ Len(a \o b) = Len(list) - 1
      /\ \A j \in 1..(Len(list) - 1) : (a \o b)[j] = IF j < i THEN list[j] ELSE list[j + 1]
  <2>1. /\ a \o b \in Seq(S) /\ Len(a \o b) = Len(list) - 1
        /\ \A j \in 1..(Len(list) - 1) : (a \o b)[j] = IF j <= i - 1 THEN a[j] ELSE b[j - (i - 1)]
    <3>1. Len(a) + Len(b) = Len(list) - 1 /\ Len(a) = i - 1
      BY <1>1, <1>2, <1>3
    <3>2. a \in Seq(S) /\ b \in Seq(S)
      BY <1>2, <1>3
    <3>3. /\ a \o b \in Seq(S) /\ Len(a \o b) = Len(a) + Len(b)
          /\ \A j \in 1..(Len(a) + Len(b)) :
               (a \o b)[j] = IF j <= Len(a) THEN a[j] ELSE b[j - Len(a)]
      BY <3>2, ConcatProperties
    <3> QED
      BY <3>1, <3>3
  <2>2. ASSUME NEW j \in 1..(Len(list) - 1)
        PROVE  (a \o b)[j] = IF j < i THEN list[j] ELSE list[j + 1]
    <3>1. CASE j < i
      BY <1>1, <1>2, <2>1, <3>1
    <3>2. CASE ~(j < i)
      <4>1. j - (i - 1) \in 1..(Len(list) - i) /\ i + (j - (i - 1)) = j + 1
        BY <1>1, <3>2
      <4> QED
        BY <1>1, <1>3, <2>1, <3>2, <4>1
    <3> QED
      BY <3>1, <3>2
  <2> QED
    BY <2>1, <2>2
<1>6. DOMAIN RemoveAt(list, i) = 1..(Len(list) - 1)
  BY <1>4, <1>5, LenProperties
<1>7. ASSUME NEW j \in 1..(Len(list) - 1)
      PROVE  \E k \in DOMAIN list \ {i} :
               RemoveAt(list, i)[j] = list[k] /\ k = IF j < i THEN j ELSE j + 1
  BY <1>1, <1>4, <1>5
<1>8. ASSUME NEW k \in DOMAIN list \ {i}
      PROVE  \E j \in 1..(Len(list) - 1) : RemoveAt(list, i)[j] = list[k]
  <2>1. CASE k < i
    <3>1. k \in 1..(Len(list) - 1)
      BY <1>1, <2>1
    <3> QED
      BY <1>4, <1>5, <2>1, <3>1
  <2>2. CASE k > i
    <3>1. k - 1 \in 1..(Len(list) - 1) /\ ~(k - 1 < i) /\ (k - 1) + 1 = k
      BY <1>1, <2>2
    <3>2. RemoveAt(list, i)[k - 1] = list[k]
      BY <1>4, <1>5, <3>1
    <3> QED
      BY <3>1, <3>2
  <2> QED
    BY <1>1, <2>1, <2>2
<1> QED
  BY <1>4, <1>5, <1>6, <1>7, <1>8

-----------------------------------------------------------------------------
(***************************************************************************)
(* Each step keeps the invariant.                                          *)
(***************************************************************************)
LEMMA InitInv == Init => SupervisorInv
<1> SUFFICES ASSUME Init PROVE SupervisorInv
  OBVIOUS
<1>1. Pids = {} /\ DOMAIN modems = {}
  BY DEF Init, Pids
<1>2. Unreaped = {} /\ Listed = {} /\ Owners = {}
  BY <1>1 DEF Init, Unreaped, Listed, Owners
<1>3. TypeOK
  <2>1. procs \in Seq([config : Configs, state : ProcStates, hup : BOOLEAN])
        /\ modems \in Seq([pid : Pids, config : Configs])
    BY DEF Init
  <2>2. {gothup, stopping, lost, refused, orderly} \subseteq BOOLEAN
    BY DEF Init
  <2> QED
    BY <1>1, <2>1, <2>2 DEF Init, TypeOK, Places
<1> QED
  BY <1>1, <1>2, <1>3, FS_EmptySet
     DEF Init, SupervisorInv, AllCounted, HeldIsNew, OneOwnerPerConfig, EntriesAgree,
         UnreapedListed

LEMMA ForkInv == ASSUME SupervisorInv, NEW c \in Configs, Fork(c) PROVE SupervisorInv'
<1>1. procs' = Append(procs, Process(c)) /\ held' = Len(procs) + 1 /\ UNCHANGED modems
      /\ pc = "fork" /\ pc' = "add" /\ c \in todo /\ todo' = todo \ {c}
      /\ UNCHANGED <<numchild, gothup, stopping, lost, refused, orderly>>
  BY DEF Fork
<1>2. TypeOK
  BY DEF SupervisorInv
<1> DEFINE new == Len(procs) + 1
<1>3. /\ procs' \in Seq(Processes) /\ new \notin Pids /\ Pids' = Pids \cup {new}
      /\ \A p \in Pids : procs'[p] = procs[p]
      /\ procs'[new].config = c /\ procs'[new].state # "gone"
      /\ Unreaped' = Unreaped \cup {new} /\ Unreaped \subseteq Pids
      /\ Cardinality(Unreaped)' = Cardinality(Unreaped) + 1
  <2>1. Process(c).config = c /\ Process(c).state # "gone" /\ Unreaped \subseteq Pids
    BY DEF Process, Unreaped
  <2> QED
    BY <1>1, <1>2, <2>1, Forked
<1> HIDE DEF new
<1>4. Listed' = Listed /\ Listed \subseteq Pids
  BY <1>1, <1>2, EntriesTyped DEF Listed
<1>5. TypeOK'
  <2>1. [pid : Pids, config : Configs] \subseteq [pid : Pids', config : Configs]
    BY <1>3
  <2>2. modems' \in Seq([pid : Pids', config : Configs])
    BY <1>1, <1>2, <2>1, SeqMonotonic DEF TypeOK
  <2>3. held' = new
    BY <1>1 DEF new
  <2> QED
    BY <1>1, <1>2, <1>3, <2>2, <2>3 DEF TypeOK, Processes, Places
<1>6. Owners' = Unreaped \cup {new} /\ Owners = Unreaped /\ held' = new
  BY <1>1, <1>3 DEF Owners, new
<1>7. OneOwnerPerConfig'
  <2>1. \A p \in Unreaped : procs'[p].config = procs[p].config /\ procs[p].config \notin todo
    BY <1>3, <1>6 DEF SupervisorInv, OneOwnerPerConfig
  <2>2. \A p, q \in Unreaped : procs'[p].config = procs'[q].config => p = q
    BY <1>6, <2>1 DEF SupervisorInv, OneOwnerPerConfig
  <2>3. \A p \in Unreaped : procs'[p].config # c
    BY <1>1, <2>1
  <2> QED
    <3>1. \A p, q \in Owners' : procs'[p].config = procs'[q].config => p = q
      BY <1>3, <1>6, <2>2, <2>3
    <3>2. \A p \in Owners' : procs'[p].config \notin todo'
      BY <1>1, <1>3, <1>6, <2>1
    <3> QED
      BY <1>1, <3>1, <3>2 DEF OneOwnerPerConfig
<1>8. EntriesAgree'
  BY <1>1, <1>2, <1>3, EntriesTyped DEF SupervisorInv, EntriesAgree
<1>9. (AllCounted /\ HeldIsNew /\ UnreapedListed)'
  BY <1>1, <1>2, <1>3, <1>4, <1>6, PidsAre
     DEF SupervisorInv, AllCounted, HeldIsNew, UnreapedListed, TypeOK
<1> QED
  BY <1>5, <1>7, <1>8, <1>9 DEF SupervisorInv

\* The steps of the supervisor alone, between two of which it holds nothing.
LEMMA OwnStep ==
  ASSUME SupervisorInv, UNCHANGED <<modems, procs, numchild, lost>>,
         held' = held, pc' \in Places \ {"add", "reap"}, pc # "add",
         {gothup', stopping', refused', orderly'} \subseteq BOOLEAN,
         \/ todo' = {}
         \/ pc' = "fork" /\ todo' \subseteq Configs /\ Unreaped = {},
         pc' \in {"done", "failed"} => Unreaped = {}
  PROVE  SupervisorInv'
<1>1. Pids' = Pids /\ Unreaped' = Unreaped /\ Listed' = Listed
  BY DEF Pids, Unreaped, Listed
<1>2. Owners' = Unreaped /\ Unreaped \subseteq Owners
  BY <1>1 DEF Owners
<1>3. TypeOK'
  BY <1>1 DEF SupervisorInv, TypeOK
<1>4. Cardinality(Unreaped) <= numchild \/ Unreaped = {}
  BY PidsAre DEF SupervisorInv, AllCounted, TypeOK, Places
<1>5. AllCounted'
  <2>1. Cardinality(Unreaped) <= numchild
    <3>1. CASE Unreaped = {}
      <4>1. Cardinality(Unreaped) = 0
        BY <3>1, FS_EmptySet
      <4> QED
        BY <4>1 DEF SupervisorInv, TypeOK
    <3> QED
      BY <1>4, <3>1
  <2> QED
    BY <1>1, <2>1 DEF AllCounted, Places
<1>6. OneOwnerPerConfig'
  BY <1>2 DEF SupervisorInv, OneOwnerPerConfig
<1>7. (HeldIsNew /\ EntriesAgree /\ UnreapedListed)'
  BY <1>1 DEF SupervisorInv, HeldIsNew, EntriesAgree, UnreapedListed
<1> QED
  BY <1>3, <1>5, <1>6, <1>7 DEF SupervisorInv

LEMMA NoneLeft ==
  ASSUME SupervisorInv, pc \in {"fork", "wait"}, ~(numchild > 0)
  PROVE  Unreaped = {}
BY PidsAre, FS_EmptySet DEF SupervisorInv, AllCounted, TypeOK

LEMMA AddInv == SupervisorInv /\ Add => SupervisorInv'
<1> SUFFICES ASSUME SupervisorInv, Add PROVE SupervisorInv'
  OBVIOUS
<1> DEFINE entry == [pid |-> held, config |-> procs[held].config]
<1>1. /\ pc = "add" /\ pc' = "fork" /\ modems' = Append(modems, entry)
      /\ numchild' = numchild + 1
      /\ UNCHANGED <<todo, held, gothup, stopping, procs, lost, refused, orderly>>
  BY DEF Add
<1>2. TypeOK /\ held \in Unreaped /\ held \notin Listed /\ held \in Pids
  BY <1>1 DEF SupervisorInv, HeldIsNew, Unreaped
<1>3. Pids' = Pids /\ Unreaped' = Unreaped
  BY <1>1 DEF Pids, Unreaped
<1>4. entry \in [pid : Pids, config : Configs] /\ modems \in Seq([pid : Pids, config : Configs])
  BY <1>2, PidsAre DEF Processes, TypeOK
<1>5. /\ modems' \in Seq([pid : Pids, config : Configs])
      /\ DOMAIN modems = 1..Len(modems) /\ Len(modems) \in Nat
      /\ DOMAIN modems' = 1..(Len(modems) + 1)
      /\ \A i \in DOMAIN modems : modems'[i] = modems[i]
      /\ modems'[Len(modems) + 1] = entry
  BY <1>1, <1>4, AppendProperties, LenProperties
<1> HIDE DEF entry
<1>6. entry.pid = held /\ entry.config = procs[held].config
  BY DEF entry
<1>7. Listed' = Listed \cup {held}
  BY <1>5, <1>6 DEF Listed
<1>8. \A i \in DOMAIN modems : modems[i].pid # held
  BY <1>2 DEF Listed
<1>9. TypeOK'
  <2>1. \A i, j \in DOMAIN modems' : modems'[i].pid = modems'[j].pid => i = j
    BY <1>2, <1>5, <1>6, <1>8 DEF TypeOK
  <2> QED
    BY <1>1, <1>2, <1>3, <1>5, <2>1 DEF TypeOK, Places
<1>10. EntriesAgree'
  BY <1>1, <1>5, <1>6 DEF SupervisorInv, EntriesAgree
<1>11. OneOwnerPerConfig'
  BY <1>1, <1>3 DEF SupervisorInv, OneOwnerPerConfig, Owners
<1>12. (AllCounted /\ HeldIsNew /\ UnreapedListed)'
  BY <1>1, <1>2, <1>3, <1>7, PidsAre
     DEF SupervisorInv, AllCounted, HeldIsNew, UnreapedListed, TypeOK
<1> QED
  BY <1>9, <1>10, <1>11, <1>12 DEF SupervisorInv

LEMMA ReapInv == ASSUME SupervisorInv, NEW p \in Pids, Reap(p) PROVE SupervisorInv'
<1>1. /\ pc = "wait" /\ pc' = "reap" /\ procs[p].state = "ended" /\ held' = p
      /\ procs' = [procs EXCEPT ![p].state = "gone"]
      /\ UNCHANGED <<todo, modems, numchild, gothup, stopping, lost, refused, orderly>>
  BY DEF Reap
<1>2. TypeOK /\ Pids = 1..Len(procs) /\ Len(procs) \in Nat
      /\ procs \in Seq(Processes) /\ procs[p] \in Processes
  BY PidsAre DEF SupervisorInv, TypeOK, Processes
<1>3. [procs[p] EXCEPT !.state = "gone"] \in Processes
  BY <1>2 DEF Processes, ProcStates
<1>4. procs' = [procs EXCEPT ![p] = [procs[p] EXCEPT !.state = "gone"]]
  BY <1>1
<1>5. /\ procs' \in Seq(Processes) /\ Len(procs') = Len(procs)
      /\ \A q \in Pids \ {p} : procs'[q] = procs[q]
      /\ procs'[p] = [procs[p] EXCEPT !.state = "gone"]
  BY <1>2, <1>3, <1>4, ExceptSeq
<1>6. procs'[p].state = "gone" /\ procs'[p].config = procs[p].config
  BY <1>2, <1>5 DEF Processes
<1>7. Pids' = Pids
  BY <1>2, <1>5, LenProperties DEF Pids
<1>8. Unreaped' = Unreaped \ {p} /\ p \in Unreaped
  BY <1>1, <1>5, <1>6, <1>7 DEF Unreaped
<1>9. Cardinality(Unreaped)' = Cardinality(Unreaped) - 1
  BY <1>2, <1>8, PidsAre, FS_RemoveElement
<1>10. Listed' = Listed
  BY <1>1 DEF Listed
<1>11. Owners' = Owners /\ Owners \subseteq Pids
  BY <1>1, <1>8 DEF Owners, Unreaped
<1>12. TypeOK'
  BY <1>1, <1>2, <1>5, <1>7 DEF TypeOK, Processes, Places
<1>13. OneOwnerPerConfig'
  BY <1>1, <1>5, <1>6, <1>11 DEF SupervisorInv, OneOwnerPerConfig
<1>14. EntriesAgree'
  BY <1>1, <1>2, <1>5, <1>6, EntriesTyped DEF SupervisorInv, EntriesAgree
<1>15. (AllCounted /\ HeldIsNew /\ UnreapedListed)'
  BY <1>1, <1>2, <1>6, <1>7, <1>8, <1>9, <1>10, PidsAre
     DEF SupervisorInv, AllCounted, HeldIsNew, UnreapedListed, TypeOK
<1> QED
  BY <1>12, <1>13, <1>14, <1>15 DEF SupervisorInv

LEMMA RestartModemInv == SupervisorInv /\ RestartModem => SupervisorInv'
<1> SUFFICES ASSUME SupervisorInv, RestartModem PROVE SupervisorInv'
  OBVIOUS
<1>1. /\ pc = "reap" /\ pc' = "wait"
      /\ UNCHANGED <<todo, held, numchild, gothup, stopping, lost, refused, orderly>>
  BY DEF RestartModem
<1>2. TypeOK /\ held \in Pids /\ procs[held].state = "gone"
  BY <1>1 DEF SupervisorInv, HeldIsNew
<1>3. CASE UNCHANGED <<procs, modems>>
  <2>1. todo' = {} /\ {gothup', stopping', refused', orderly'} \subseteq BOOLEAN
    BY <1>1 DEF SupervisorInv, TypeOK, OneOwnerPerConfig
  <2> QED
    BY <1>1, <1>3, <2>1, OwnStep DEF Places
<1>4. ASSUME NEW i \in Entries(held),
             procs' = Append(procs, Process(modems[i].config)),
             modems' = [modems EXCEPT ![i].pid = Len(procs) + 1]
      PROVE  SupervisorInv'
  <2> DEFINE new == Len(procs) + 1
             c == modems[i].config
             entry == [modems[i] EXCEPT !.pid = new]
  <2>1. i \in DOMAIN modems /\ modems[i].pid = held /\ c \in Configs
    BY <1>2, EntriesTyped DEF Entries
  <2>2. c = procs[held].config
    BY <2>1 DEF SupervisorInv, EntriesAgree
  <2>3. /\ procs' \in Seq(Processes) /\ new \notin Pids /\ Pids' = Pids \cup {new}
        /\ \A p \in Pids : procs'[p] = procs[p]
        /\ procs'[new].config = c /\ procs'[new].state # "gone"
        /\ Unreaped' = Unreaped \cup {new} /\ Unreaped \subseteq Pids /\ held \notin Unreaped
        /\ Cardinality(Unreaped)' = Cardinality(Unreaped) + 1
    <3>1. Process(c).config = c /\ Process(c).state # "gone" /\ Unreaped \subseteq Pids
          /\ held \notin Unreaped
      BY <1>2 DEF Process, Unreaped
    <3> QED
      BY <1>2, <1>4, <2>1, <3>1, Forked
  <2>4. [pid : Pids, config : Configs] \subseteq [pid : Pids', config : Configs]
    BY <2>3
  <2>5. modems \in Seq([pid : Pids', config : Configs])
    BY <1>2, <2>4, SeqMonotonic DEF TypeOK
  <2>6. modems[i] \in [pid : Pids', config : Configs] /\ i \in 1..Len(modems)
        /\ DOMAIN modems = 1..Len(modems) /\ Len(modems) \in Nat
    BY <2>1, <2>5, ElementOfSeq, LenProperties
  <2>7. entry \in [pid : Pids', config : Configs] /\ entry.pid = new /\ entry.config = c
    BY <2>3, <2>6
  <2>8. modems' = [modems EXCEPT ![i] = entry]
    BY <1>4
  <2> HIDE DEF entry, new, c
  <2>9. /\ modems' \in Seq([pid : Pids', config : Configs]) /\ DOMAIN modems' = DOMAIN modems
        /\ modems'[i] = entry /\ \A j \in DOMAIN modems \ {i} : modems'[j] = modems[j]
    BY <2>5, <2>6, <2>7, <2>8, ExceptSeq, LenProperties
  <2>10. \A j \in DOMAIN modems : modems[j].pid \in Pids /\ (modems[j].pid = held => j = i)
    BY <1>2, <2>1, EntriesTyped DEF TypeOK
  <2>11. Listed' = (Listed \ {held}) \cup {new}
    <3>1. ASSUME NEW p \in Listed' PROVE p \in (Listed \ {held}) \cup {new}
      BY <2>7, <2>9, <2>10 DEF Listed
    <3>2. ASSUME NEW p \in Listed \ {held} PROVE p \in Listed'
      <4>1. PICK j \in DOMAIN modems : modems[j].pid = p
        BY DEF Listed
      <4>2. j # i /\ modems'[j] = modems[j]
        BY <2>1, <2>9, <4>1
      <4> QED
        BY <2>9, <4>1, <4>2 DEF Listed
    <3>3. new \in Listed'
      BY <2>1, <2>7, <2>9 DEF Listed
    <3> QED
      BY <3>1, <3>2, <3>3
  <2>12. TypeOK'
    <3>1. \A j, k \in DOMAIN modems' : modems'[j].pid = modems'[k].pid => j = k
      BY <1>2, <2>3, <2>7, <2>9, <2>10 DEF TypeOK
    <3> QED
      BY <1>1, <1>2, <2>3, <2>9, <3>1 DEF TypeOK, Processes, Places
  <2>13. EntriesAgree'
    BY <2>3, <2>7, <2>9, <2>10 DEF SupervisorInv, EntriesAgree
  <2>14. OneOwnerPerConfig'
    <3>1. Owners = Unreaped \cup {held} /\ Owners' = Unreaped \cup {new}
      BY <1>1, <2>3 DEF Owners
    <3>2. \A p \in Unreaped : procs'[p].config = procs[p].config /\ procs[p].config # c
      BY <2>2, <2>3, <3>1 DEF SupervisorInv, OneOwnerPerConfig
    <3>3. \A p, q \in Unreaped : procs'[p].config = procs'[q].config => p = q
      BY <3>1, <3>2 DEF SupervisorInv, OneOwnerPerConfig
    <3>4. todo' = {}
      BY <1>1 DEF SupervisorInv, OneOwnerPerConfig
    <3> QED
      BY <2>3, <3>1, <3>2, <3>3, <3>4 DEF OneOwnerPerConfig
  <2>15. (AllCounted /\ HeldIsNew /\ UnreapedListed)'
    BY <1>1, <1>2, <2>3, <2>11, PidsAre
       DEF SupervisorInv, AllCounted, HeldIsNew, UnreapedListed, TypeOK
  <2> QED
    BY <2>12, <2>13, <2>14, <2>15 DEF SupervisorInv
<1> QED
  BY <1>3, <1>4 DEF RestartModem

LEMMA RemoveModemInv == SupervisorInv /\ RemoveModem => SupervisorInv'
<1> SUFFICES ASSUME SupervisorInv, RemoveModem PROVE SupervisorInv'
  OBVIOUS
<1>1. /\ pc = "reap" /\ pc' = "wait"
      /\ UNCHANGED <<todo, held, gothup, stopping, procs, refused, orderly>>
  BY DEF RemoveModem
<1>2. TypeOK /\ held \in Pids /\ procs[held].state = "gone" /\ todo' = {}
  BY <1>1 DEF SupervisorInv, HeldIsNew, OneOwnerPerConfig
<1>3. CASE UNCHANGED <<modems, numchild, lost>>
  <2>1. {gothup', stopping', refused', orderly'} \subseteq BOOLEAN
    BY <1>1, <1>2 DEF TypeOK
  <2> QED
    BY <1>1, <1>2, <1>3, <2>1, OwnStep DEF Places
<1>4. ASSUME NEW i \in Entries(held),
             modems' = IF i = 1 THEN <<>> ELSE RemoveAt(modems, i),
             lost' = (lost \/ i = 1), numchild' = numchild - 1
      PROVE  SupervisorInv'
  <2>1. i \in DOMAIN modems /\ modems[i].pid = held /\ modems \in Seq([pid : Pids, config : Configs])
    BY <1>2 DEF Entries, TypeOK
  <2>2. Pids' = Pids /\ Unreaped' = Unreaped /\ held \notin Unreaped
    BY <1>1, <1>2 DEF Pids, Unreaped
  <2>3. /\ modems' \in Seq([pid : Pids, config : Configs])
        /\ \A j \in DOMAIN modems' : \E k \in DOMAIN modems \ {i} :
             modems'[j] = modems[k] /\ k = IF j < i THEN j ELSE j + 1
        /\ i # 1 => \A k \in DOMAIN modems \ {i} : \E j \in DOMAIN modems' : modems'[j] = modems[k]
    BY <1>4, <2>1, EntryRemoved
  <2>4. i # 1 => Listed \ {held} \subseteq Listed'
    BY <2>1, <2>3 DEF Listed
  <2>5. \A j, k \in DOMAIN modems' : modems'[j].pid = modems'[k].pid => j = k
    <3>1. DOMAIN modems' \subseteq Nat /\ i \in Nat
      BY <2>1, <2>3, LenProperties
    <3>2. ASSUME NEW j \in DOMAIN modems', NEW k \in DOMAIN modems',
                 modems'[j].pid = modems'[k].pid
          PROVE  j = k
      <4>1. PICK m \in DOMAIN modems : modems'[j] = modems[m] /\ m = IF j < i THEN j ELSE j + 1
        BY <2>3
      <4>2. PICK n \in DOMAIN modems : modems'[k] = modems[n] /\ n = IF k < i THEN k ELSE k + 1
        BY <2>3
      <4>3. m = n
        BY <1>2, <3>2, <4>1, <4>2 DEF TypeOK
      <4> QED
        BY <3>1, <4>1, <4>2, <4>3
    <3> QED
      BY <3>2
  <2>6. EntriesAgree'
    BY <1>1, <2>3 DEF SupervisorInv, EntriesAgree
  <2>7. Cardinality(Unreaped) + 1 <= numchild /\ Cardinality(Unreaped) \in Nat /\ numchild \in Nat
    BY <1>1, <1>2, PidsAre DEF SupervisorInv, AllCounted, TypeOK
  <2>8. TypeOK'
    BY <1>1, <1>2, <1>4, <2>2, <2>3, <2>5, <2>7 DEF TypeOK, Places
  <2>9. Owners' \subseteq Owners
    BY <1>1, <2>2 DEF Owners
  <2>10. OneOwnerPerConfig'
    BY <1>1, <1>2, <2>9 DEF SupervisorInv, OneOwnerPerConfig
  <2>11. (AllCounted /\ HeldIsNew)'
    BY <1>1, <1>4, <2>2, <2>7 DEF AllCounted, HeldIsNew
  <2>12. UnreapedListed'
    BY <1>1, <1>4, <2>2, <2>4 DEF SupervisorInv, UnreapedListed
  <2> QED
    BY <2>6, <2>8, <2>10, <2>11, <2>12 DEF SupervisorInv
<1> QED
  BY <1>3, <1>4 DEF RemoveModem

\* The steps of the modems, and the signals that the supervisor passes on to them.
LEMMA OneProcessStep ==
  ASSUME SupervisorInv, NEW p \in Pids, NEW s \in ProcStates \ {"gone"}, NEW h \in BOOLEAN,
         procs[p].state # "gone",
         procs' = [procs EXCEPT ![p] = [procs[p] EXCEPT !.state = s, !.hup = h]],
         UNCHANGED <<pc, todo, held, modems, numchild, gothup, stopping, lost, refused, orderly>>
  PROVE  SupervisorInv'
<1>1. TypeOK /\ Pids = 1..Len(procs) /\ procs \in Seq(Processes) /\ procs[p] \in Processes
  BY PidsAre DEF SupervisorInv, TypeOK, Processes
<1> DEFINE r == [procs[p] EXCEPT !.state = s, !.hup = h]
<1>2. r \in Processes /\ r.config = procs[p].config /\ r.state # "gone"
  BY <1>1 DEF Processes
<1> HIDE DEF r
<1>3. procs' = [procs EXCEPT ![p] = r]
  BY DEF r
<1>4. /\ procs' \in Seq(Processes) /\ Len(procs') = Len(procs)
      /\ \A q \in Pids : procs'[q] = IF q = p THEN r ELSE procs[q]
  BY <1>1, <1>2, <1>3, ExceptSeq
<1>5. {gothup', stopping', refused', orderly'} \subseteq BOOLEAN
  BY <1>1 DEF TypeOK
<1> QED
  BY <1>2, <1>4, <1>5, ProcessStep

LEMMA ModemStepInv == SupervisorInv /\ ModemStep => SupervisorInv'
<1> SUFFICES ASSUME SupervisorInv, NEW p \in Pids,
                    Started(p) \/ HupOne(p) \/ EndsByHup(p) \/ Ends(p)
             PROVE  SupervisorInv'
  BY DEF ModemStep
<1>1. procs[p] \in Processes /\ procs[p].hup \in BOOLEAN /\ procs[p].state \in ProcStates
  BY PidsAre DEF SupervisorInv, Processes
<1>2. UNCHANGED <<pc, todo, held, modems, numchild, gothup, stopping, lost, refused, orderly>>
  BY DEF Started, HupOne, EndsByHup, Ends
<1>3. \E s \in ProcStates \ {"gone"}, h \in BOOLEAN :
        /\ procs[p].state # "gone"
        /\ procs' = [procs EXCEPT ![p] = [procs[p] EXCEPT !.state = s, !.hup = h]]
  <2>1. CASE Started(p)
    <3>1. procs' = [procs EXCEPT ![p] = [procs[p] EXCEPT !.state = "up", !.hup = procs[p].hup]]
      BY <1>1, <2>1 DEF Started, Processes
    <3> QED
      BY <1>1, <2>1, <3>1 DEF Started, ProcStates
  <2>2. CASE HupOne(p)
    <3>1. procs' = [procs EXCEPT ![p] = [procs[p] EXCEPT !.state = "up", !.hup = TRUE]]
      BY <1>1, <2>2 DEF HupOne, Processes
    <3> QED
      BY <1>1, <2>2, <3>1 DEF HupOne, ProcStates
  <2>3. CASE EndsByHup(p)
    <3>1. procs' = [procs EXCEPT ![p] = [procs[p] EXCEPT !.state = "ended", !.hup = procs[p].hup]]
      BY <1>1, <2>3 DEF EndsByHup, Processes
    <3> QED
      BY <1>1, <2>3, <3>1 DEF EndsByHup, ProcStates
  <2>4. CASE Ends(p)
    <3>1. procs' = [procs EXCEPT ![p] = [procs[p] EXCEPT !.state = "ended", !.hup = FALSE]]
      BY <1>1, <2>4 DEF Ends, Processes
    <3>2. procs[p].state # "gone"
      BY <2>4 DEF Ends, Living
    <3> QED
      BY <3>1, <3>2 DEF ProcStates
  <2> QED
    BY <2>1, <2>2, <2>3, <2>4
<1> QED
  BY <1>2, <1>3, OneProcessStep

LEMMA SignalInv == SupervisorInv /\ (Hup \/ Term) => SupervisorInv'
<1> SUFFICES ASSUME SupervisorInv, Hup \/ Term PROVE SupervisorInv'
  OBVIOUS
<1>1. TypeOK /\ Pids = 1..Len(procs) /\ Len(procs) \in Nat
      /\ \A p \in Pids : procs[p] \in Processes
  BY PidsAre DEF SupervisorInv
<1>2. UNCHANGED <<pc, todo, held, modems, numchild, lost>>
      /\ {gothup', stopping', refused', orderly'} \subseteq BOOLEAN
  BY <1>1 DEF Hup, Term, TypeOK
<1>3. \E up \in [Pids -> Processes] :
        /\ procs' = [p \in Pids |-> up[p]]
        /\ \A p \in Pids : /\ up[p].config = procs[p].config
                            /\ (up[p].state = "gone" <=> procs[p].state = "gone")
  <2>1. CASE Hup
    <3> DEFINE up == [p \in Pids |-> IF p \in Listed /\ procs[p].state = "up"
                                    THEN [procs[p] EXCEPT !.hup = TRUE] ELSE procs[p]]
    <3>1. procs' = up
      BY <2>1 DEF Hup
    <3>2. \A p \in Pids : /\ up[p] \in Processes /\ up[p].config = procs[p].config
                          /\ (up[p].state = "gone" <=> procs[p].state = "gone")
      BY <1>1 DEF Processes
    <3> QED
      BY <3>1, <3>2
  <2>2. CASE Term
    <3> DEFINE up == [p \in Pids |->
                       IF p \in Listed /\ procs[p].state = "up"
                       THEN [procs[p] EXCEPT !.state = "ended", !.hup = FALSE] ELSE procs[p]]
    <3>1. procs' = up
      BY <2>2 DEF Term
    <3>2. \A p \in Pids : /\ up[p] \in Processes /\ up[p].config = procs[p].config
                          /\ (up[p].state = "gone" <=> procs[p].state = "gone")
      BY <1>1 DEF Processes, ProcStates
    <3> QED
      BY <3>1, <3>2
  <2> QED
    BY <2>1, <2>2
<1>4. /\ procs' \in Seq(Processes) /\ Len(procs') = Len(procs)
      /\ \A p \in Pids : /\ procs'[p].config = procs[p].config
                          /\ (procs'[p].state = "gone" <=> procs[p].state = "gone")
  <2>1. PICK up \in [Pids -> Processes] :
          /\ procs' = [p \in Pids |-> up[p]]
          /\ \A p \in Pids : /\ up[p].config = procs[p].config
                              /\ (up[p].state = "gone" <=> procs[p].state = "gone")
    BY <1>3
  <2>2. procs' \in [1..Len(procs) -> Processes] /\ \A p \in Pids : procs'[p] = up[p]
    BY <1>1, <2>1
  <2>3. procs' \in Seq(Processes) /\ Len(procs') = Len(procs)
    BY <1>1, <2>2, SeqDef
  <2>4. \A p \in Pids : /\ procs'[p].config = procs[p].config
                        /\ (procs'[p].state = "gone" <=> procs[p].state = "gone")
    BY <2>1, <2>2
  <2> QED
    BY <2>3, <2>4
<1>5. procs' \in Seq(Processes) /\ Len(procs') = Len(procs)
  BY <1>4
<1>6. \A p \in Pids : /\ procs'[p].config = procs[p].config
                      /\ (procs'[p].state = "gone" <=> procs[p].state = "gone")
  BY <1>4
<1> QED
  BY <1>2, <1>5, <1>6, ProcessStep

LEMMA SupervisorStepInv == SupervisorInv /\ SupervisorStep => SupervisorInv'
<1> SUFFICES ASSUME SupervisorInv, SupervisorStep PROVE SupervisorInv'
  OBVIOUS
<1>1. /\ {gothup, stopping, refused, orderly} \subseteq BOOLEAN
      /\ pc \in {"wait", "reap"} => todo = {}
  BY DEF SupervisorInv, TypeOK, OneOwnerPerConfig
<1>2. CASE ForkFails
  BY <1>1, <1>2, OwnStep, NoneLeft DEF ForkFails, Places
<1>3. CASE Spawned
  BY <1>1, <1>3, OwnStep DEF Spawned, Places
<1>4. CASE RestartFails
  BY <1>1, <1>4, OwnStep DEF RestartFails, Places
<1>5. CASE WaitEnds
  <2>1. Unreaped = {}
    BY <1>5, NoneLeft DEF WaitEnds, SupervisorInv, TypeOK
  <2> QED
    BY <1>1, <1>5, <2>1, OwnStep DEF WaitEnds, Places
<1> QED
  BY <1>2, <1>3, <1>4, <1>5, ForkInv, AddInv, ReapInv, RestartModemInv, RemoveModemInv
     DEF SupervisorStep

LEMMA StutterInv == SupervisorInv /\ UNCHANGED vars => SupervisorInv'
<1> SUFFICES ASSUME SupervisorInv, UNCHANGED vars PROVE SupervisorInv'
  OBVIOUS
<1>1. /\ UNCHANGED <<pc, todo, held, modems, numchild, procs, lost>>
      /\ {gothup', stopping', refused', orderly'} \subseteq BOOLEAN
  BY DEF SupervisorInv, TypeOK, vars
<1>2. procs \in Seq(Processes)
  BY DEF SupervisorInv, TypeOK, Processes
<1> QED
  BY <1>1, <1>2, ProcessStep

-----------------------------------------------------------------------------
(***************************************************************************)
(* Theorems.                                                               *)
(***************************************************************************)

\* The inductive invariant of the supervisor and its list holds in every state.
THEOREM SupervisorCorrect == Spec => []SupervisorInv
<1>1. SupervisorInv /\ [Next]_vars => SupervisorInv'
  BY SupervisorStepInv, ModemStepInv, SignalInv, StutterInv DEF Next
<1> QED
  BY <1>1, InitInv, PTL DEF Spec

\* spawn_modems() and restart_modem() never start a second process for a file whose
\* process still runs, also after the list has been lost.
THEOREM OneProcessCorrect == Spec => []OneProcessPerConfig
<1>1. SupervisorInv => OneProcessPerConfig
  BY DEF SupervisorInv, OneOwnerPerConfig, Owners, Unreaped, Living, OneProcessPerConfig
<1> QED
  BY <1>1, SupervisorCorrect, PTL

\* The controlling process ends, or reads the files again, only without a modem, and
\* its list has every modem until remove_modem() drops it.
THEOREM ListCorrect == Spec => []ListKnowsModems
<1>1. SupervisorInv => ListKnowsModems
  BY DEF SupervisorInv, AllCounted, UnreapedListed, Unreaped, Living, ListKnowsModems
<1> QED
  BY <1>1, SupervisorCorrect, PTL
=============================================================================
