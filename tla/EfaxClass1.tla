----------------------------- MODULE EfaxClass1 -----------------------------
(***************************************************************************)
(* Two efax programs with Class 1 modems on one telephone line: c1sndrcv() *)
(* of efax/efax.c run by the caller, which sends the pages of a fax, and   *)
(* by the machine that answered.                                           *)
(*                                                                         *)
(* c1sndrcv() is one function of labels and gotos.  "pc" is the label at   *)
(* which the program waits for the modem; each action is what it does from *)
(* one such wait to the next.  The line is half duplex: what arrives while *)
(* a machine transmits is lost, and a machine hears nothing that was sent  *)
(* before the burst it is listening to.  A timer ends when nothing is on   *)
(* its way; every other failure of the line, a timer that does not wait    *)
(* for a late answer among them, counts against MaxFaults.                 *)
(***************************************************************************)
EXTENDS Integers, Sequences, FiniteSets

CONSTANTS
  Res,        \* yres of the pages of the fax
  Rates,      \* how many speeds the chain of fallback[] has
  NoRetry,    \* whether the option -on is given: the values to consider
  DisTries,   \* T1 / (T2+10): how often R: sends its DIS
  Confirm,    \* the answers to a good page; efax has MCF only
  Reject,     \* the answers to a bad page; efax has RTN only
  MaxFaults   \* bound: the failures of the line

NTXRETRY == 3
Tries == 3

Confirmations == {"MCF", "RTP", "PIP"}
Rejections == {"RTN", "PIN"}

ASSUME ResAssumption == Res \in Seq(Nat) /\ Len(Res) > 0
ASSUME RatesAssumption == Rates \in Nat \ {0}
ASSUME NoRetryAssumption == NoRetry \subseteq BOOLEAN
ASSUME DisTriesAssumption == DisTries \in Nat \ {0}
ASSUME ConfirmAssumption == Confirm \subseteq Confirmations /\ Confirm # {}
ASSUME RejectAssumption == Reject \subseteq Rejections /\ Reject # {}
ASSUME MaxFaultsAssumption == MaxFaults \in Nat

Pages == 1..Len(Res)

VARIABLES
  snd,        \* the variables of the caller's c1sndrcv()
  rcv,        \* those of the answering one
  files,      \* its output files; the last one is open
  line,       \* what is on its way to each of them
  faults,     \* the failures of the line so far
  sends,      \* history: how often each page was transmitted
  confirmed,  \* history: the pages reported as sent, in order
  missed      \* history: the pages not received whole, in some transmission

sender == <<snd, sends, confirmed>>
receiver == <<rcv, files, missed>>
vars == <<snd, rcv, files, line, faults, sends, confirmed, missed>>

Ends == {"snd", "rcv"}
Peer(p) == IF p = "snd" THEN "rcv" ELSE "snd"
pc(p) == IF p = "snd" THEN snd.pc ELSE rcv.pc

(***************************************************************************)
(* Signals: HDLC frames, which stand for the optional frames before them   *)
(* too, and the two that have the data carrier.                            *)
(***************************************************************************)
Frame(f) == [frame |-> f, page |-> 0]
TCF == Frame("TCF")
Data(n) == [frame |-> "data", page |-> n]
HasDataCarrier(s) == s.frame \in {"TCF", "data"}

PostPage == {"MPS", "EOM", "EOP"}

\* p transmits a burst of signals and listens again.
Transmit(p, burst) ==
  line' = [line EXCEPT ![p] = <<>>,
                       ![Peer(p)] = IF pc(Peer(p)) = "done" THEN <<>> ELSE burst]

\* p hangs up or stops listening.
Leave(p) == line' = [line EXCEPT ![p] = <<>>]

Arriving(p) == Head(line[p])

Take(p) == line' = [line EXCEPT ![p] = Tail(@)]

Fault == faults < MaxFaults /\ faults' = faults + 1

\* The timer of p ends; the other machine may be about to answer the last signal.
TimeOut(p) ==
  /\ line[p] = <<>>
  /\ \/ line[Peer(p)] = <<>> /\ UNCHANGED faults
     \/ Len(line[Peer(p)]) = 1 /\ Fault

\* A signal is not recognised.
Lose(p) ==
  /\ line[p] # <<>>
  /\ Fault
  /\ Take(p)
  /\ missed' = missed \cup ({Arriving(p).page} \cap Pages)
  /\ UNCHANGED <<sender, rcv, files>>
-----------------------------------------------------------------------------
(***************************************************************************)
(* The caller.  s is its state where the label is reached.                 *)
(***************************************************************************)
B_snd(s) == snd' = [s EXCEPT !.pc = "done"] /\ Leave("snd")

C_snd(s) == snd' = [s EXCEPT !.pc = "done"] /\ Transmit("snd", <<Frame("DCN")>>)

C_timeout_snd(s) == C_snd([s EXCEPT !.err = 3])

\* Mutant: the attempts are not counted.
D_2_without_try(s) ==
  /\ snd' = [s EXCEPT !.pc = "D_2"]
  /\ Transmit("snd", <<Frame("DCS"), TCF>>)

\* TSI, DCS and the training check sequence
D_2(s) ==
  /\ snd' = [s EXCEPT !.pc = "D_2", !.try = s.try + 1]
  /\ Transmit("snd", <<Frame("DCS"), TCF>>)

\* The post-page message of rdpage() for page n
ppm(n) == IF n = Len(Res) THEN "EOP" ELSE IF Res[n + 1] = Res[n] THEN "MPS" ELSE "EOM"

rdpage(s) == [s EXCEPT !.page = s.page + s.dp, !.ppm = ppm(s.page + s.dp)]

NoSuchPage(s) == s.page + s.dp > Len(Res)

D(s) == IF NoSuchPage(s) THEN B_snd([s EXCEPT !.err = 2]) ELSE D_2(rdpage(s))

\* A DIS has the capabilities of the other machine, its best speed among them.
A(s, f) == D(IF f = "DIS" THEN [s EXCEPT !.rate = Rates - 1] ELSE s)

I_2(s) ==
  /\ snd' = [s EXCEPT !.pc = "sendppm", !.pagetry = s.pagetry + 1, !.try = 1]
  /\ sends' = [sends EXCEPT ![s.page] = @ + 1]
  /\ Transmit("snd", <<Data(s.page), Frame(s.ppm)>>)

I(s) ==
  IF NoSuchPage(s) THEN B_snd([s EXCEPT !.err = 2]) /\ UNCHANGED sends
  ELSE I_2(rdpage(s))

T(s) ==
  /\ snd' = [s EXCEPT !.pc = "T", !.pagetry = 0]
  /\ Take("snd")

\* T: the first answer of the other machine, or none in T1
GetDIS ==
  /\ snd.pc = "T"
  /\ line["snd"] # <<>>
  /\ LET f == Arriving("snd").frame IN
       IF f = "DIS" THEN A([snd EXCEPT !.try = 0], f) ELSE C_snd(snd)
  /\ UNCHANGED <<receiver, faults, sends, confirmed>>

NoDIS ==
  /\ snd.pc = "T"
  /\ TimeOut("snd")
  /\ B_snd([snd EXCEPT !.err = 3])
  /\ UNCHANGED <<receiver, sends, confirmed>>

\* The answer to DCS and training
GetTraining ==
  /\ snd.pc = "D_2"
  /\ line["snd"] # <<>>
  /\ LET f == Arriving("snd").frame IN
     \/ /\ f = "DIS"
        /\ IF snd.try >= Tries THEN C_timeout_snd(snd) ELSE A(snd, f)
        /\ UNCHANGED sends
     \/ /\ f = "FTT"
        /\ IF snd.rate = 0 THEN C_snd([snd EXCEPT !.err = 2])
           ELSE D_2([snd EXCEPT !.rate = @ - 1])
        /\ UNCHANGED sends
     \/ f = "CFR" /\ I_2(snd)
     \/ f \notin {"DIS", "FTT", "CFR"} /\ C_snd([snd EXCEPT !.err = 3])
                                       /\ UNCHANGED sends
  /\ UNCHANGED <<receiver, faults, confirmed>>

NoTraining ==
  /\ snd.pc = "D_2"
  /\ TimeOut("snd")
  /\ IF snd.try >= Tries THEN C_timeout_snd(snd) ELSE D_2(snd)
  /\ UNCHANGED <<receiver, sends, confirmed>>

(***************************************************************************)
(* The answer f to the post-page message.  With -on every answer counts as *)
(* a confirmation, but where to go is decided by the answer itself.        *)
(***************************************************************************)
Counted(f) == IF snd.noretry THEN "MCF" ELSE f

\* Mutant: the page that was confirmed stays the current one.
AfterAnswer_same_page(f) == [snd EXCEPT !.pagetry = 0, !.dp = 0]

AfterAnswer(f) ==
  IF Counted(f) \in Confirmations THEN [snd EXCEPT !.pagetry = 0, !.dp = 1]
  ELSE [snd EXCEPT !.dp = 0]

Sent(f) ==
  confirmed' = IF Counted(f) \in Confirmations THEN Append(confirmed, snd.page)
               ELSE confirmed

E(f) == A([AfterAnswer(f) EXCEPT !.try = 0], f)

\* Mutant: <= for <
MayRetry_off_by_one == ~snd.noretry /\ snd.pagetry <= NTXRETRY

MayRetry == ~snd.noretry /\ snd.pagetry < NTXRETRY

GoOn(f) ==
  LET s == AfterAnswer(f) IN
  \/ snd.ppm = "MPS" /\ f = "MCF" /\ I(s)
  \/ snd.ppm = "MPS" /\ f \in {"RTP", "RTN"} /\ D(s) /\ UNCHANGED sends
  \/ snd.ppm = "EOP" /\ f \in {"MCF", "RTP"} /\ C_snd(s) /\ UNCHANGED sends
  \/ /\ snd.ppm = "EOP" /\ f = "RTN"
     /\ IF MayRetry THEN D(s) ELSE C_snd(s)
     /\ UNCHANGED sends
  \/ snd.ppm = "EOM" /\ f \in {"MCF", "RTP", "RTN"} /\ T(s) /\ UNCHANGED sends
  \/ f \notin {"MCF", "RTP", "RTN"} /\ E(f) /\ UNCHANGED sends

GetAnswer ==
  /\ snd.pc = "sendppm"
  /\ line["snd"] # <<>>
  /\ LET f == Arriving("snd").frame IN
       IF Counted(f) \in Confirmations \cup Rejections THEN GoOn(f) /\ Sent(f)
       ELSE C_snd([snd EXCEPT !.err = 3]) /\ UNCHANGED <<sends, confirmed>>
  /\ UNCHANGED <<receiver, faults>>

NoAnswer ==
  /\ snd.pc = "sendppm"
  /\ TimeOut("snd")
  /\ IF snd.try >= Tries THEN C_timeout_snd(snd)
     ELSE /\ snd' = [snd EXCEPT !.try = @ + 1]
          /\ Transmit("snd", <<Frame(snd.ppm)>>)
  /\ UNCHANGED <<receiver, sends, confirmed>>
-----------------------------------------------------------------------------
(***************************************************************************)
(* The answering machine.  A file is the sequence of what was written to   *)
(* it: a page as it was transmitted, with too many errors, or with no end. *)
(***************************************************************************)
Copy(n, quality) == [page |-> n, quality |-> quality]

Write(copy) == files' = [files EXCEPT ![Len(files)] = Append(@, copy)]

\* wrpage(outf, k): file k+1 is opened, anew if it is open already.
wrpage(k) == SubSeq(files, 1, k) \o << <<>> >>

\* wrpage(outf, -1), which removes the last file
B_rcv(r, fs) ==
  /\ rcv' = [r EXCEPT !.pc = "done"]
  /\ files' = IF r.rxpage > 0 THEN SubSeq(fs, 1, Len(fs) - 1) ELSE fs

R(r) ==
  /\ rcv' = [r EXCEPT !.pc = "R", !.t = 1]
  /\ files' = wrpage(r.rxpage)
  /\ Transmit("rcv", <<Frame("DIS")>>)

F_2(r, fs, f) ==
  \/ /\ f = "DCS"
     /\ rcv' = [r EXCEPT !.pc = "train", !.last = f]
     /\ files' = fs
     /\ Take("rcv")
  \/ /\ f \in PostPage
     /\ \E answer \in IF r.good THEN Confirm ELSE Reject :
          Transmit("rcv", <<Frame(answer)>>)
     /\ rcv' = [r EXCEPT !.pc = IF r.good /\ f = "MPS" THEN "getdata" ELSE "F",
                         !.last = f]
     /\ files' = fs
  \/ f = "DCN" /\ B_rcv(r, fs) /\ Take("rcv")

\* Mutant: the file of a page is not closed.
Postponed_never == files

\* The file of a page is closed at the next command.
Postponed == IF rcv.pending THEN wrpage(rcv.rxpage) ELSE files

Done == [rcv EXCEPT !.pending = FALSE]

GetFirstCommand ==
  /\ rcv.pc = "R"
  /\ line["rcv"] # <<>>
  /\ ~HasDataCarrier(Arriving("rcv"))
  /\ F_2(rcv, files, Arriving("rcv").frame)
  /\ UNCHANGED <<sender, faults, missed>>

\* A carrier that is not that of a frame ends the wait as well.
NoFirstCommand ==
  /\ rcv.pc = "R"
  /\ \/ TimeOut("rcv")
     \/ /\ line["rcv"] # <<>>
        /\ HasDataCarrier(Arriving("rcv"))
        /\ UNCHANGED faults
  /\ IF rcv.t < DisTries
     THEN /\ rcv' = [rcv EXCEPT !.t = @ + 1]
          /\ Transmit("rcv", <<Frame("DIS")>>)
          /\ UNCHANGED files
     ELSE /\ B_rcv([rcv EXCEPT !.err = 3], files)
          /\ Transmit("rcv", <<Frame("DCN")>>)
  /\ UNCHANGED <<sender, missed>>

GetCommand ==
  /\ rcv.pc = "F"
  /\ line["rcv"] # <<>>
  /\ ~HasDataCarrier(Arriving("rcv"))
  /\ F_2(Done, Postponed, Arriving("rcv").frame)
  /\ UNCHANGED <<sender, faults, missed>>

\* getfr() returns -2: wrong carrier
DataInsteadOfCommand ==
  /\ rcv.pc = "F"
  /\ line["rcv"] # <<>>
  /\ HasDataCarrier(Arriving("rcv"))
  /\ rcv' = [Done EXCEPT !.pc = "getdata", !.last = "data"]
  /\ files' = Postponed
  /\ UNCHANGED <<sender, line, faults, missed>>

NoCommand ==
  /\ rcv.pc = "F"
  /\ TimeOut("rcv")
  /\ IF rcv.last = "EOM"
     THEN R(Done)
     ELSE B_rcv([Done EXCEPT !.err = 3], Postponed) /\ Leave("rcv")
  /\ UNCHANGED <<sender, missed>>

(***************************************************************************)
(* gettrain(): the training check, which the line may spoil; what is not   *)
(* heard, or is no training check, is a bad one.                           *)
(***************************************************************************)
Trained(good) ==
  /\ rcv' = [rcv EXCEPT !.pc = IF good THEN "getdata" ELSE "F", !.good = good]
  /\ Transmit("rcv", <<Frame(IF good THEN "CFR" ELSE "FTT")>>)

Train ==
  /\ rcv.pc = "train"
  /\ \/ line["rcv"] # <<>> /\ Arriving("rcv") = TCF /\ Trained(TRUE)
                           /\ UNCHANGED faults
     \/ line["rcv"] # <<>> /\ Arriving("rcv") = TCF /\ Trained(FALSE) /\ Fault
     \/ line["rcv"] # <<>> /\ Arriving("rcv") # TCF /\ Trained(FALSE)
                           /\ UNCHANGED faults
     \/ TimeOut("rcv") /\ Trained(FALSE)
  /\ UNCHANGED <<sender, files, missed>>

(***************************************************************************)
(* receive_data(): the page with few errors or with many, or its end (RTC) *)
(* is not seen and +FRM is given again.                                    *)
(***************************************************************************)
Saved(n, good) ==
  /\ Write(Copy(n, IF good THEN "good" ELSE "bad"))
  /\ rcv' = [rcv EXCEPT !.pc = "F", !.good = good, !.pending = TRUE,
                        !.rxpage = @ + 1]

GetPage ==
  /\ rcv.pc = "getdata"
  /\ line["rcv"] # <<>>
  /\ LET n == Arriving("rcv").page IN
     /\ n \in Pages
     /\ \/ Saved(n, TRUE) /\ UNCHANGED <<faults, missed>>
        \/ Saved(n, FALSE) /\ Fault /\ UNCHANGED missed
        \/ Write(Copy(n, "cut")) /\ Fault /\ missed' = missed \cup {n}
                                 /\ UNCHANGED rcv
  /\ Take("rcv")
  /\ UNCHANGED sender

\* A training check has no RTC either.
GetTCFAsPage ==
  /\ rcv.pc = "getdata"
  /\ line["rcv"] # <<>> /\ Arriving("rcv") = TCF
  /\ Take("rcv")
  /\ UNCHANGED <<sender, receiver, faults>>

\* +FCERROR or silence; the data carrier too may not be recognised.
NoPage ==
  /\ rcv.pc = "getdata"
  /\ \/ TimeOut("rcv")
     \/ /\ line["rcv"] # <<>>
        /\ IF HasDataCarrier(Arriving("rcv")) THEN Fault ELSE UNCHANGED faults
  /\ rcv' = [rcv EXCEPT !.pc = "F"]
  /\ UNCHANGED <<sender, files, line, missed>>
-----------------------------------------------------------------------------
Init ==
  /\ \E noretry \in NoRetry :
       snd = [pc |-> "T", page |-> 1, dp |-> 0, ppm |-> "EOP", try |-> 0,
              pagetry |-> 0, rate |-> Rates - 1, err |-> 0, noretry |-> noretry]
  /\ \E undefined \in BOOLEAN :
       rcv = [pc |-> "R", t |-> 1, good |-> undefined, rxpage |-> 0,
              pending |-> FALSE, last |-> "none", err |-> 0]
  /\ files = << <<>> >>
  /\ line = [snd |-> <<Frame("DIS")>>, rcv |-> <<>>]
  /\ faults = 0
  /\ sends = [n \in Pages |-> 0]
  /\ confirmed = <<>>
  /\ missed = {}

Sender == GetDIS \/ NoDIS \/ GetTraining \/ NoTraining \/ GetAnswer \/ NoAnswer

Receiver ==
  \/ GetFirstCommand \/ NoFirstCommand \/ GetCommand \/ DataInsteadOfCommand
  \/ NoCommand \/ Train \/ GetPage \/ GetTCFAsPage \/ NoPage

HungUp == pc("snd") = "done" /\ pc("rcv") = "done" /\ UNCHANGED vars

Next == Sender \/ Receiver \/ Lose("snd") \/ Lose("rcv") \/ HungUp

Spec == Init /\ [][Next]_vars

\* Both programs go on; the line is not made to fail.
FairSpec == Spec /\ WF_vars(Sender) /\ WF_vars(Receiver)
-----------------------------------------------------------------------------
Pcs == [snd |-> {"T", "D_2", "sendppm", "done"},
        rcv |-> {"R", "F", "train", "getdata", "done"}]

Frames == {"DIS", "DCS", "CFR", "FTT", "DCN"} \cup PostPage
            \cup Confirmations \cup Rejections

Signals == {Frame(f) : f \in Frames} \cup {TCF} \cup {Data(n) : n \in Pages}

(***************************************************************************)
(* The types of the variables of c1sndrcv(): the page pointer does not     *)
(* leave the pages, the speed does not leave fallback[].                   *)
(***************************************************************************)
TypeOK ==
  /\ snd \in [pc : Pcs.snd, page : Pages, dp : 0..1, ppm : PostPage, try : Nat,
              pagetry : Nat, rate : 0..(Rates - 1), err : {0, 2, 3}, noretry : BOOLEAN]
  /\ rcv \in [pc : Pcs.rcv, t : 1..DisTries, good : BOOLEAN, rxpage : Nat,
              pending : BOOLEAN, last : Frames \cup {"none", "data"}, err : {0, 3}]
  /\ files \in Seq(Seq([page : Pages, quality : {"good", "bad", "cut"}]))
  /\ line \in [Ends -> Seq(Signals)]
  /\ faults \in 0..MaxFaults
  /\ sends \in [Pages -> Nat]
  /\ confirmed \in Seq(Pages)
  /\ missed \subseteq Pages

Has(file, n, qualities) ==
  \E i \in DOMAIN file : file[i].page = n /\ file[i].quality \in qualities

Kept(n, qualities) == \E i \in DOMAIN files : Has(files[i], n, qualities)

(***************************************************************************)
(* rxpage counts the files that are finished: the name of the next file is *)
(* made of it, so no file is opened over a page and none is skipped.       *)
(***************************************************************************)
FilesAreCounted ==
  rcv.pc # "done" =>
    Len(files) = rcv.rxpage + (IF rcv.pending THEN 0 ELSE 1)

(***************************************************************************)
(* The files are counted, and no page is saved whole twice: a confirmation *)
(* that is lost is asked for again with the post-page message, not by      *)
(* sending the page again.                                                 *)
(***************************************************************************)
NoPageTwice ==
  /\ TypeOK /\ FilesAreCounted
  /\ \A n \in Pages :
       Cardinality({i \in DOMAIN files : Has(files[i], n, {"good"})}) <= 1

(***************************************************************************)
(* NTXRETRY, maximum re-sends per page, holds for the last page when it is *)
(* rejected with RTN: it is transmitted that many times at most.           *)
(***************************************************************************)
LastPageIsGivenUp == Reject = {"RTN"} => sends[Len(Res)] <= NTXRETRY

(***************************************************************************)
(* Whatever the line loses, pages are reported as sent in order, and only  *)
(* those that are in the files of the other machine (with -on also with    *)
(* errors) or whose data it did not get at all; and they stay there when   *)
(* the session ends and the last file is removed.                          *)
(***************************************************************************)
Transfer == INSTANCE PageTransfer WITH
  saved <- {n \in Pages :
              Kept(n, {"good"} \cup (IF snd.noretry THEN {"bad"} ELSE {}))},
  lost <- missed,
  reported <- confirmed

ImplementsPageTransfer == Transfer!Spec

(***************************************************************************)
(* If the line fails only finitely often, both machines hang up, whatever  *)
(* it lost or spoiled until then and whichever answers came too late.      *)
(* Nothing is said of a line that goes on failing: a page rejected after   *)
(* MPS or EOM is sent again each time (efax.c:1663, 1688-1689; the retry   *)
(* of line 1648 is asked for EOP only, at 1676), although efax.1:162-163   *)
(* has it that each page "may be retransmitted up to 3 times".             *)
(***************************************************************************)
BothHangUp ==
  <>[][UNCHANGED faults]_vars => <>(pc("snd") = "done" /\ pc("rcv") = "done")

\* The return value 0: the fax was successfully sent.
SuccessMeansSent ==
  snd.pc = "done" /\ snd.err = 0 => confirmed = [n \in Pages |-> n]
=============================================================================
