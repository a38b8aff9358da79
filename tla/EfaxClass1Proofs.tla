------------------------- MODULE EfaxClass1Proofs -------------------------
(***************************************************************************)
(* Theorems about two efax programs on one line, for any fax, any chain of *)
(* speeds, any answers of the other machine and any number of failures of  *)
(* the line.                                                               *)
(***************************************************************************)
EXTENDS EfaxClass1, FiniteSetTheorems, SequenceTheorems, TLAPS

Last == Len(Res)

KeptGood(n) == Kept(n, {"good"})

\* What counts as taken by the other machine: see Transfer.
SavedQualities == {"good"} \cup (IF snd.noretry THEN {"bad"} ELSE {})
KeptSaved(n) == Kept(n, SavedQualities)

-----------------------------------------------------------------------------
(***************************************************************************)
(* The inductive invariant, in parts.                                      *)
(***************************************************************************)

(***************************************************************************)
(* The line is half duplex: it holds the rest of the last burst of one     *)
(* machine, and the caller's is that of the label it waits at.             *)
(***************************************************************************)
Answers == {"DIS", "CFR", "FTT", "DCN"} \cup Confirm \cup Reject

LineOK ==
  /\ line["snd"] = <<>> \/ \E f \in Answers : line["snd"] = <<Frame(f)>>
  /\ line["snd"] = <<>> \/ line["rcv"] = <<>>
  /\ snd.pc = "T" => line["rcv"] = <<>>
  /\ snd.pc = "D_2" => line["rcv"] \in {<<>>, <<Frame("DCS"), TCF>>, <<TCF>>}
  /\ snd.pc = "sendppm" =>
       line["rcv"] \in {<<>>, <<Data(snd.page), Frame(snd.ppm)>>, <<Frame(snd.ppm)>>}
  /\ snd.pc = "done" => line["rcv"] \in {<<>>, <<Frame("DCN")>>}

(***************************************************************************)
(* The answering machine is where it hears the data of a page, and does    *)
(* not call again for a DCS before it has.                                 *)
(***************************************************************************)
Listening == rcv.pc \in {"getdata", "F", "done"} /\ rcv.last # "EOM"

\* What an answer on its way says of the machine that gave it.
AnswerOK ==
  \A f \in Answers : line["snd"] = <<Frame(f)>> =>
    /\ f = "CFR" => Listening
    /\ f \in Confirmations => rcv.good
    /\ f \in Rejections => ~rcv.good
    /\ f \in Confirmations /\ snd.pc = "sendppm" /\ snd.ppm = "MPS" => Listening

OnlyCut(file) == \A i \in DOMAIN file : file[i].quality = "cut"

\* The file that is open has no page yet, and is not one that is counted.
FilesOK ==
  /\ FilesAreCounted
  /\ rcv.pending => rcv.pc = "F"
  /\ rcv.pc # "done" /\ ~rcv.pending => OnlyCut(files[Len(files)])

\* The training check of a DCS is waited for while the caller waits for its answer.
TrainOK ==
  rcv.pc = "train" =>
    snd.pc \in {"D_2", "done"} /\ line["snd"] = <<>> /\ rcv.last = "DCS"

\* The first page that the caller may still transmit
NextPage == IF snd.pc = "T" THEN snd.page + snd.dp ELSE snd.page

(***************************************************************************)
(* What the caller has left to send is not in a file of the other machine, *)
(* and not reported.                                                       *)
(***************************************************************************)
PagesOK ==
  /\ snd.pc \in {"D_2", "sendppm"} => snd.ppm = ppm(snd.page)
  /\ snd.pc \in {"T", "D_2"} => \A n \in Pages : KeptGood(n) => n < NextPage
  /\ snd.pc = "sendppm" => \A n \in Pages : KeptGood(n) => n <= snd.page
  /\ snd.pc # "done" => \A i \in DOMAIN confirmed : confirmed[i] < NextPage

\* The data of the page is still on its way.
DataDue == line["rcv"] = <<Data(snd.page), Frame(snd.ppm)>>

\* The other machine had hung up before the page was sent.
Unheard == rcv.pc = "done" /\ line["snd"] = <<>>

DataOK ==
  snd.pc = "sendppm" =>
    IF DataDue
    THEN Listening /\ ~KeptGood(snd.page)
    ELSE /\ KeptGood(snd.page) => rcv.good
         /\ \/ Unheard
            \/ snd.page \in missed
            \/ KeptGood(snd.page)
            \/ ~rcv.good /\ (snd.noretry => KeptSaved(snd.page))

Once ==
  \A n \in Pages : \A i, j \in DOMAIN files :
    Has(files[i], n, {"good"}) /\ Has(files[j], n, {"good"}) => i = j

\* The transmissions of the last page are counted in pagetry.
TriesOK ==
  Reject = {"RTN"} =>
    /\ sends[Last] <= NTXRETRY
    /\ snd.pc = "T" => snd.pagetry = 0 /\ sends[Last] = 0
    /\ snd.pc = "D_2" => (snd.dp = 1 => snd.pagetry = 0)
    /\ snd.pc \in {"D_2", "sendppm"} =>
         IF snd.page = Last
         THEN /\ sends[Last] <= snd.pagetry
              /\ snd.pc = "D_2" => snd.pagetry < NTXRETRY
         ELSE sends[Last] = 0

TransferInv ==
  /\ TypeOK /\ LineOK /\ AnswerOK /\ TrainOK /\ FilesOK
  /\ PagesOK /\ DataOK /\ Once /\ TriesOK
-----------------------------------------------------------------------------
(***************************************************************************)
(* The records, the line and the numbering of pages.                       *)
(***************************************************************************)
SndRecords ==
  [pc : {"T", "D_2", "sendppm", "done"}, page : Pages, dp : 0..1, ppm : PostPage,
   try : Nat, pagetry : Nat, rate : 0..(Rates - 1), err : {0, 2, 3}, noretry : BOOLEAN]

RcvRecords ==
  [pc : {"R", "F", "train", "getdata", "done"}, t : 1..DisTries, good : BOOLEAN,
   rxpage : Nat, pending : BOOLEAN, last : Frames \cup {"none", "data"}, err : {0, 3}]

Copies == [page : Pages, quality : {"good", "bad", "cut"}]

\* What is left of TypeOK when LineOK says what the line holds.
Types ==
  /\ snd \in SndRecords
  /\ rcv \in RcvRecords
  /\ files \in Seq(Seq(Copies))
  /\ line = [p \in Ends |-> line[p]]
  /\ faults \in 0..MaxFaults
  /\ sends \in [Pages -> Nat]
  /\ confirmed \in Seq(Pages)
  /\ missed \subseteq Pages

LEMMA Numbers == Last \in Pages /\ Last \in Nat \ {0} /\ Pages = 1..Last
BY ResAssumption DEF Last, Pages

LEMMA PpmType == \A n \in Pages : ppm(n) \in PostPage /\ (ppm(n) = "EOP" <=> n = Last)
BY DEF ppm, PostPage, Last

LEMMA AnswerFrames == Answers \subseteq Frames
BY ConfirmAssumption, RejectAssumption DEF Answers, Frames

LEMMA TypesHold == TypeOK => Types
BY DEF TypeOK, Types, SndRecords, RcvRecords, Copies, Pcs, Ends

LEMMA ShortSeqs ==
  ASSUME NEW S
  PROVE  /\ <<>> \in Seq(S)
         /\ \A x \in S : <<x>> \in Seq(S)
         /\ \A x, y \in S : <<x, y>> \in Seq(S)
OBVIOUS

LEMMA TypesGive == Types /\ LineOK => TypeOK
<1> SUFFICES ASSUME Types, LineOK PROVE TypeOK
  OBVIOUS
<1>1. \A f \in Frames : Frame(f) \in Signals
  BY DEF Signals
<1>2. TCF \in Signals /\ \A n \in Pages : Data(n) \in Signals
  BY DEF Signals
<1>3. {"DCS", "DCN"} \subseteq Frames /\ PostPage \subseteq Frames
  BY DEF Frames
<1>4. line["snd"] \in Seq(Signals)
  <2>1. ASSUME NEW f \in Answers PROVE <<Frame(f)>> \in Seq(Signals)
    BY <1>1, AnswerFrames, ShortSeqs
  <2> QED
    BY <2>1, ShortSeqs DEF LineOK
<1>5. line["rcv"] \in Seq(Signals)
  <2>1. \A f \in {"DCS", "DCN"} \cup PostPage : Frame(f) \in Signals
    BY <1>1, <1>3
  <2>2. /\ <<Frame("DCS"), TCF>> \in Seq(Signals) /\ <<TCF>> \in Seq(Signals)
        /\ <<Frame("DCN")>> \in Seq(Signals)
    BY <1>2, <2>1, ShortSeqs
  <2>3. snd.page \in Pages /\ snd.ppm \in PostPage
        /\ snd.pc \in {"T", "D_2", "sendppm", "done"}
    BY DEF Types, SndRecords
  <2>4. /\ <<Data(snd.page), Frame(snd.ppm)>> \in Seq(Signals)
        /\ <<Frame(snd.ppm)>> \in Seq(Signals)
    BY <1>2, <2>1, <2>3, ShortSeqs
  <2> QED
    BY <2>2, <2>3, <2>4, ShortSeqs DEF LineOK
<1>6. line \in [Ends -> Seq(Signals)]
  BY <1>4, <1>5 DEF Types, Ends
<1> QED
  BY <1>6 DEF TypeOK, Types, SndRecords, RcvRecords, Copies, Pcs

LEMMA TransmitLine ==
  ASSUME Types, NEW p \in Ends, NEW burst, Transmit(p, burst)
  PROVE  /\ line' = [q \in Ends |-> line'[q]]
         /\ line'[p] = <<>>
         /\ line'[Peer(p)] = IF pc(Peer(p)) = "done" THEN <<>> ELSE burst
BY DEF Types, Transmit, Ends, Peer

LEMMA TakeLine ==
  ASSUME Types, NEW p \in Ends, Take(p)
  PROVE  /\ line' = [q \in Ends |-> line'[q]]
         /\ line'[p] = Tail(line[p])
         /\ line'[Peer(p)] = line[Peer(p)]
BY DEF Types, Take, Ends, Peer

LEMMA LeaveLine ==
  ASSUME Types, NEW p \in Ends, Leave(p)
  PROVE  /\ line' = [q \in Ends |-> line'[q]]
         /\ line'[p] = <<>>
         /\ line'[Peer(p)] = line[Peer(p)]
BY DEF Types, Leave, Ends, Peer

LEMMA FaultCounted == Types /\ Fault => faults' \in 0..MaxFaults
BY MaxFaultsAssumption DEF Types, Fault

\* A timer ends when no burst is on its way, or only the end of one.
LEMMA TimedOut ==
  ASSUME Types, NEW p \in Ends, TimeOut(p)
  PROVE  /\ faults' \in 0..MaxFaults
         /\ line[p] = <<>>
         /\ line[Peer(p)] = <<>> \/ Len(line[Peer(p)]) = 1
BY FaultCounted DEF TimeOut, Types

-----------------------------------------------------------------------------
(***************************************************************************)
(* The moves of the caller.  s is its state where the label is reached, c  *)
(* the pages reported so far, next the page it goes on with.               *)
(***************************************************************************)
Ready(s, next, c) ==
  /\ s \in SndRecords /\ s.noretry = snd.noretry
  /\ c \in Seq(Pages)
  /\ \A n \in Pages : KeptGood(n) => n < next
  /\ \A i \in DOMAIN c : c[i] < next
  /\ (Reject = {"RTN"} /\ next \in Pages) =>
       /\ s.dp = 1 => s.pagetry = 0
       /\ IF next = Last THEN sends[Last] <= s.pagetry /\ s.pagetry < NTXRETRY
          ELSE sends[Last] = 0

LEMMA CallerMoves ==
  ASSUME TransferInv, UNCHANGED <<rcv, files, missed>>, line'["snd"] = <<>>,
         rcv.pc = "train" => snd'.pc \in {"D_2", "done"},
         Types', LineOK', PagesOK', DataOK', TriesOK'
  PROVE  TransferInv'
<1>1. AnswerOK'
  BY DEF AnswerOK
<1>2. FilesOK'
  BY DEF TransferInv, FilesOK, FilesAreCounted, OnlyCut
<1>3. TrainOK' /\ Once'
  BY DEF TransferInv, TrainOK, Once, Has
<1> QED
  BY <1>1, <1>2, <1>3, TypesGive, PTL DEF TransferInv

\* What the other machine keeps is not touched by the caller.
LEMMA KeptByCaller ==
  ASSUME UNCHANGED <<files, missed>>
  PROVE  \A n : KeptGood(n)' <=> KeptGood(n)
BY DEF KeptGood, Kept, Has

LEMMA HangUp ==
  ASSUME TransferInv, NEW s \in SndRecords, snd' = [s EXCEPT !.pc = "done"],
         line' = [q \in Ends |-> line'[q]], line'["snd"] = <<>>,
         line'["rcv"] \in {<<>>, <<Frame("DCN")>>},
         UNCHANGED <<receiver, sends>>, confirmed' \in Seq(Pages),
         faults' \in 0..MaxFaults
  PROVE  TransferInv'
<1>0. Types
  BY TypesHold DEF TransferInv
<1>1. snd' \in SndRecords /\ snd'.pc = "done"
  BY DEF SndRecords
<1>2. UNCHANGED <<rcv, files, missed, sends>>
  BY DEF receiver
<1>3. Types'
  BY <1>0, <1>1, <1>2 DEF Types
<1>4. LineOK' /\ PagesOK' /\ DataOK'
  BY <1>1 DEF LineOK, PagesOK, DataOK
<1>5. TriesOK'
  BY <1>1, <1>2 DEF TransferInv, TriesOK
<1> QED
  BY <1>1, <1>2, <1>3, <1>4, <1>5, CallerMoves

LEMMA SndEnds == "snd" \in Ends /\ "rcv" \in Ends /\ Peer("snd") = "rcv" /\ Peer("rcv") = "snd"
BY DEF Ends, Peer

LEMMA SndB ==
  ASSUME TransferInv, NEW s \in SndRecords, B_snd(s), line["rcv"] = <<>>,
         UNCHANGED <<receiver, sends>>, confirmed' \in Seq(Pages),
         faults' \in 0..MaxFaults
  PROVE  TransferInv'
<1>1. /\ line' = [q \in Ends |-> line'[q]]
      /\ line'["snd"] = <<>>
      /\ line'["rcv"] = line["rcv"]
  BY LeaveLine, SndEnds, TypesHold DEF B_snd, TransferInv
<1> QED
  BY <1>1, HangUp DEF B_snd

LEMMA SndC ==
  ASSUME TransferInv, NEW s \in SndRecords, C_snd(s),
         UNCHANGED <<receiver, sends>>, confirmed' \in Seq(Pages),
         faults' \in 0..MaxFaults
  PROVE  TransferInv'
<1>1. /\ line' = [q \in Ends |-> line'[q]]
      /\ line'["snd"] = <<>>
      /\ line'["rcv"] \in {<<>>, <<Frame("DCN")>>}
  BY TransmitLine, SndEnds, TypesHold DEF C_snd, TransferInv
<1> QED
  BY <1>1, HangUp DEF C_snd

LEMMA SndD2 ==
  ASSUME TransferInv, NEW s, D_2(s), Ready(s, s.page, confirmed'),
         s.ppm = ppm(s.page),
         UNCHANGED <<receiver, sends>>, faults' \in 0..MaxFaults
  PROVE  TransferInv'
<1>0. Types
  BY TypesHold DEF TransferInv
<1>1. /\ line' = [q \in Ends |-> line'[q]]
      /\ line'["snd"] = <<>>
      /\ line'["rcv"] \in {<<>>, <<Frame("DCS"), TCF>>}
  BY <1>0, TransmitLine, SndEnds DEF D_2
<1>2. /\ snd' \in SndRecords /\ snd'.pc = "D_2" /\ snd'.page = s.page
      /\ snd'.ppm = s.ppm /\ snd'.dp = s.dp /\ snd'.pagetry = s.pagetry
  <2>1. s \in SndRecords /\ snd' = [s EXCEPT !.pc = "D_2", !.try = s.try + 1]
    BY DEF D_2, Ready
  <2>2. s.try + 1 \in Nat
    BY <2>1 DEF SndRecords
  <2> HIDE DEF D_2
  <2> QED
    BY <2>1, <2>2 DEF SndRecords
<1>3. UNCHANGED <<rcv, files, missed, sends>>
  BY DEF receiver
<1>4. Types'
  BY <1>0, <1>1, <1>2, <1>3 DEF Types, Ready
<1>5. LineOK' /\ DataOK'
  BY <1>1, <1>2 DEF LineOK, DataOK
<1>6. PagesOK'
  BY <1>2, <1>3, KeptByCaller DEF PagesOK, NextPage, Ready, ppm
<1>7. s.page \in Pages
  BY DEF Ready, SndRecords
<1>8. TriesOK'
  BY <1>2, <1>3, <1>7 DEF TransferInv, TriesOK, Ready
<1> QED
  BY <1>1, <1>2, <1>3, <1>4, <1>5, <1>6, <1>8, CallerMoves

\* The state in which the next page is looked at.
LEMMA PageRead ==
  ASSUME NEW s \in SndRecords, ~NoSuchPage(s)
  PROVE  /\ rdpage(s) \in SndRecords
         /\ rdpage(s).page = s.page + s.dp /\ rdpage(s).page \in Pages
         /\ rdpage(s).ppm = ppm(s.page + s.dp)
         /\ rdpage(s).dp = s.dp /\ rdpage(s).pagetry = s.pagetry
         /\ rdpage(s).noretry = s.noretry
<1>1. s.page \in Pages /\ s.dp \in 0..1
  BY DEF SndRecords
<1>2. s.page + s.dp \in Pages
  BY <1>1, Numbers DEF NoSuchPage, Last
<1>3. ppm(s.page + s.dp) \in PostPage
  BY <1>2, PpmType
<1> QED
  BY <1>2, <1>3 DEF rdpage, SndRecords

LEMMA SndD ==
  ASSUME TransferInv, NEW s, D(s), Ready(s, s.page + s.dp, confirmed'),
         line["rcv"] = <<>>,
         UNCHANGED <<receiver, sends>>, faults' \in 0..MaxFaults
  PROVE  TransferInv'
<1>1. s \in SndRecords /\ confirmed' \in Seq(Pages)
  BY DEF Ready
<1>2. CASE NoSuchPage(s)
  <2>1. [s EXCEPT !.err = 2] \in SndRecords
    BY <1>1 DEF SndRecords
  <2> QED
    BY <1>1, <1>2, <2>1, SndB DEF D
<1>3. CASE ~NoSuchPage(s)
  <2>1. Ready(rdpage(s), rdpage(s).page, confirmed')
    BY <1>1, <1>3, PageRead DEF Ready
  <2>2. rdpage(s).ppm = ppm(rdpage(s).page)
    BY <1>1, <1>3, PageRead
  <2> QED
    BY <1>3, <2>1, <2>2, SndD2 DEF D
<1> QED
  BY <1>2, <1>3

LEMMA SndA ==
  ASSUME TransferInv, NEW s, NEW f, A(s, f), Ready(s, s.page + s.dp, confirmed'),
         line["rcv"] = <<>>,
         UNCHANGED <<receiver, sends>>, faults' \in 0..MaxFaults
  PROVE  TransferInv'
<1> DEFINE t == IF f = "DIS" THEN [s EXCEPT !.rate = Rates - 1] ELSE s
<1>1. s \in SndRecords
  BY DEF Ready
<1>2. /\ t \in SndRecords /\ t.page = s.page /\ t.dp = s.dp
      /\ t.pagetry = s.pagetry /\ t.noretry = s.noretry
  BY <1>1, RatesAssumption DEF SndRecords
<1>3. D(t)
  BY DEF A
<1> HIDE DEF t
<1>4. Ready(t, t.page + t.dp, confirmed')
  BY <1>2 DEF Ready
<1> QED
  BY <1>3, <1>4, SndD

LEMMA SndI2 ==
  ASSUME TransferInv, NEW s, I_2(s), Ready(s, s.page, confirmed'),
         s.ppm = ppm(s.page), Listening, line["rcv"] = <<>>,
         UNCHANGED receiver, faults' \in 0..MaxFaults
  PROVE  TransferInv'
<1>0. Types
  BY TypesHold DEF TransferInv
<1>1. /\ line' = [q \in Ends |-> line'[q]]
      /\ line'["snd"] = <<>>
      /\ line'["rcv"] = IF rcv.pc = "done" THEN <<>> ELSE <<Data(s.page), Frame(s.ppm)>>
  BY <1>0, TransmitLine, SndEnds DEF I_2, pc
<1>2. /\ snd' \in SndRecords /\ snd'.pc = "sendppm" /\ snd'.page = s.page
      /\ snd'.ppm = s.ppm /\ snd'.pagetry = s.pagetry + 1 /\ s.page \in Pages
      /\ s.pagetry \in Nat
  <2>1. s \in SndRecords
        /\ snd' = [s EXCEPT !.pc = "sendppm", !.pagetry = s.pagetry + 1, !.try = 1]
    BY DEF I_2, Ready
  <2>2. s.pagetry + 1 \in Nat
    BY <2>1 DEF SndRecords
  <2> QED
    BY <2>1, <2>2 DEF SndRecords
<1>3. UNCHANGED <<rcv, files, missed>> /\ sends' = [sends EXCEPT ![s.page] = @ + 1]
  BY DEF receiver, I_2
<1>4. Types'
  BY <1>0, <1>1, <1>2, <1>3 DEF Types, Ready
<1>5. LineOK'
  BY <1>1, <1>2 DEF LineOK
<1>6. PagesOK'
  <2>1. \A n \in Pages : KeptGood(n)' => n <= s.page
    BY <1>2, <1>3, KeptByCaller, Numbers DEF Ready
  <2> QED
    BY <1>2, <2>1 DEF PagesOK, NextPage, Ready, ppm
<1>7. ~KeptGood(s.page)
  BY <1>2, Numbers DEF Ready
<1>8. DataOK'
  <2>1. CASE rcv.pc = "done"
    BY <1>1, <1>2, <1>3, <1>7, <2>1, KeptByCaller DEF DataOK, DataDue, Unheard
  <2>2. CASE rcv.pc # "done"
    BY <1>1, <1>2, <1>3, <1>7, <2>2, KeptByCaller DEF DataOK, DataDue, Listening
  <2> QED
    BY <2>1, <2>2
<1>9. TriesOK'
  BY <1>0, <1>2, <1>3, Numbers DEF TransferInv, TriesOK, Ready, Types, NTXRETRY
<1> QED
  BY <1>1, <1>3, <1>4, <1>5, <1>6, <1>8, <1>9, CallerMoves DEF Listening

LEMMA SndI ==
  ASSUME TransferInv, NEW s, I(s), Ready(s, s.page + s.dp, confirmed'),
         Listening, line["rcv"] = <<>>,
         UNCHANGED receiver, faults' \in 0..MaxFaults
  PROVE  TransferInv'
<1>1. s \in SndRecords /\ confirmed' \in Seq(Pages)
  BY DEF Ready
<1>2. CASE NoSuchPage(s)
  <2>1. [s EXCEPT !.err = 2] \in SndRecords
    BY <1>1 DEF SndRecords
  <2> QED
    BY <1>1, <1>2, <2>1, SndB DEF I
<1>3. CASE ~NoSuchPage(s)
  <2>1. Ready(rdpage(s), rdpage(s).page, confirmed')
    BY <1>1, <1>3, PageRead DEF Ready
  <2>2. rdpage(s).ppm = ppm(rdpage(s).page)
    BY <1>1, <1>3, PageRead
  <2> QED
    BY <1>3, <2>1, <2>2, SndI2 DEF I
<1> QED
  BY <1>2, <1>3

LEMMA SndT ==
  ASSUME TransferInv, NEW s, T(s), Ready(s, s.page + s.dp, confirmed'),
         Reject = {"RTN"} => sends[Last] = 0,
         line["rcv"] = <<>>, line["snd"] # <<>>,
         UNCHANGED <<receiver, sends>>, faults' \in 0..MaxFaults
  PROVE  TransferInv'
<1>0. Types
  BY TypesHold DEF TransferInv
<1>1. /\ line' = [q \in Ends |-> line'[q]]
      /\ line'["snd"] = <<>>
      /\ line'["rcv"] = <<>>
  <2>1. /\ line' = [q \in Ends |-> line'[q]]
        /\ line'["snd"] = Tail(line["snd"])
        /\ line'["rcv"] = <<>>
    BY <1>0, TakeLine, SndEnds DEF T
  <2>2. PICK f \in Answers : line["snd"] = <<Frame(f)>>
    BY DEF TransferInv, LineOK
  <2>3. Tail(<<Frame(f)>>) = <<>>
    OBVIOUS
  <2> QED
    BY <2>1, <2>2, <2>3
<1>2. /\ snd' \in SndRecords /\ snd'.pc = "T" /\ snd'.page = s.page
      /\ snd'.dp = s.dp /\ snd'.pagetry = 0
  BY DEF T, Ready, SndRecords
<1>3. UNCHANGED <<rcv, files, missed, sends>>
  BY DEF receiver
<1>4. Types'
  BY <1>0, <1>1, <1>2, <1>3 DEF Types, Ready
<1>5. LineOK' /\ DataOK'
  BY <1>1, <1>2 DEF LineOK, DataOK
<1>6. PagesOK'
  BY <1>2, <1>3, KeptByCaller DEF PagesOK, NextPage, Ready
<1>7. TriesOK'
  BY <1>2, <1>3 DEF TransferInv, TriesOK, NTXRETRY
<1>8. rcv.pc # "train"
  BY DEF TransferInv, TrainOK
<1> QED
  BY <1>1, <1>3, <1>4, <1>5, <1>6, <1>7, <1>8, CallerMoves

-----------------------------------------------------------------------------
(***************************************************************************)
(* The actions of the caller.                                              *)
(***************************************************************************)

\* What the invariant says when an answer has come.
LEMMA Answered ==
  ASSUME TransferInv, line["snd"] # <<>>
  PROVE  /\ Arriving("snd").frame \in Answers
         /\ line["snd"] = <<Frame(Arriving("snd").frame)>>
         /\ line["rcv"] = <<>>
<1>1. PICK f \in Answers : line["snd"] = <<Frame(f)>>
  BY DEF TransferInv, LineOK
<1>2. Arriving("snd").frame = f
  BY <1>1 DEF Arriving, Frame
<1> QED
  BY <1>1, <1>2 DEF TransferInv, LineOK

LEMMA SndTypes ==
  ASSUME TransferInv
  PROVE  /\ snd \in SndRecords /\ confirmed \in Seq(Pages) /\ faults \in 0..MaxFaults
         /\ snd.page \in Pages /\ snd.page \in Nat /\ snd.dp \in 0..1
         /\ sends[Last] \in Nat /\ snd.pagetry \in Nat
         /\ \A i \in DOMAIN confirmed : confirmed[i] \in Nat
<1>1. Types
  BY TypesHold DEF TransferInv
<1> QED
  BY <1>1, Numbers DEF Types, SndRecords

LEMMA GetDISStep == TransferInv /\ GetDIS => TransferInv'
<1> SUFFICES ASSUME TransferInv, GetDIS PROVE TransferInv'
  OBVIOUS
<1>0. UNCHANGED <<receiver, sends, confirmed, faults>>
  BY DEF GetDIS
<1>1. CASE A([snd EXCEPT !.try = 0], "DIS")
  <2> DEFINE s == [snd EXCEPT !.try = 0]
  <2>1. /\ s \in SndRecords /\ s.page = snd.page /\ s.dp = snd.dp
        /\ s.pagetry = snd.pagetry /\ s.noretry = snd.noretry
    BY SndTypes DEF SndRecords
  <2>2. A(s, "DIS")
    BY <1>1
  <2> HIDE DEF s
  <2>3. Ready(s, s.page + s.dp, confirmed')
    BY <1>0, <2>1, SndTypes
      DEF Ready, GetDIS, TransferInv, PagesOK, NextPage, TriesOK, NTXRETRY
  <2> QED
    BY <1>0, <2>2, <2>3, SndA, SndTypes, Answered DEF GetDIS
<1>2. CASE C_snd(snd)
  BY <1>0, <1>2, SndC, SndTypes
<1> QED
  BY <1>1, <1>2 DEF GetDIS

LEMMA NoDISStep == TransferInv /\ NoDIS => TransferInv'
<1> SUFFICES ASSUME TransferInv, NoDIS PROVE TransferInv'
  OBVIOUS
<1>1. [snd EXCEPT !.err = 3] \in SndRecords
  BY SndTypes DEF SndRecords
<1>2. faults' \in 0..MaxFaults /\ line["rcv"] = <<>>
  BY TimedOut, TypesHold, SndEnds DEF NoDIS, TransferInv, LineOK
<1> QED
  BY <1>1, <1>2, SndB, SndTypes DEF NoDIS

\* The caller is training and may go on with the page it has.
LEMMA TrainingReady ==
  ASSUME TransferInv, snd.pc = "D_2", UNCHANGED confirmed
  PROVE  /\ Ready(snd, snd.page, confirmed')
         /\ Ready(snd, snd.page + snd.dp, confirmed')
         /\ snd.ppm = ppm(snd.page)
<1>1. /\ \A n \in Pages : KeptGood(n) => n < snd.page
      /\ \A i \in DOMAIN confirmed : confirmed[i] < snd.page
      /\ snd.ppm = ppm(snd.page)
  BY DEF TransferInv, PagesOK, NextPage
<1>2. Reject = {"RTN"} =>
        /\ snd.dp = 1 => snd.pagetry = 0
        /\ IF snd.page = Last
           THEN sends[Last] <= snd.pagetry /\ snd.pagetry < NTXRETRY
           ELSE sends[Last] = 0
  BY DEF TransferInv, TriesOK
<1>3. Ready(snd, snd.page, confirmed')
  BY <1>1, <1>2, SndTypes DEF Ready
<1>4. Ready(snd, snd.page + snd.dp, confirmed')
  <2>1. CASE snd.dp = 0
    BY <1>3, <2>1, SndTypes
  <2>2. CASE snd.dp = 1
    <3>1. snd.page + 1 \in Pages => snd.page # Last
      BY SndTypes, Numbers
    <3>2. /\ \A n \in Pages : KeptGood(n) => n < snd.page + 1
          /\ \A i \in DOMAIN confirmed : confirmed[i] < snd.page + 1
      BY <1>1, SndTypes, Numbers
    <3> QED
      BY <1>2, <2>2, <3>1, <3>2, SndTypes DEF Ready, NTXRETRY
  <2> QED
    BY <2>1, <2>2, SndTypes
<1> QED
  BY <1>1, <1>3, <1>4

LEMMA GetTrainingStep == TransferInv /\ GetTraining => TransferInv'
<1> SUFFICES ASSUME TransferInv, GetTraining PROVE TransferInv'
  OBVIOUS
<1>0. /\ UNCHANGED <<receiver, confirmed, faults>> /\ snd.pc = "D_2"
      /\ line["rcv"] = <<>> /\ faults' \in 0..MaxFaults /\ confirmed' \in Seq(Pages)
  BY Answered, SndTypes DEF GetTraining
<1>1. /\ Ready(snd, snd.page, confirmed')
      /\ Ready(snd, snd.page + snd.dp, confirmed')
      /\ snd.ppm = ppm(snd.page)
  BY <1>0, TrainingReady
<1>2. ASSUME NEW e \in {0, 2, 3}, C_snd([snd EXCEPT !.err = e]), UNCHANGED sends
      PROVE  TransferInv'
  <2>1. [snd EXCEPT !.err = e] \in SndRecords
    BY SndTypes DEF SndRecords
  <2> QED
    BY <1>0, <1>2, <2>1, SndC
<1>3. CASE A(snd, "DIS") /\ UNCHANGED sends
  BY <1>0, <1>1, <1>3, SndA
<1>4. CASE snd.rate # 0 /\ D_2([snd EXCEPT !.rate = @ - 1]) /\ UNCHANGED sends
  <2> DEFINE s == [snd EXCEPT !.rate = @ - 1]
  <2>1. /\ s \in SndRecords /\ s.page = snd.page /\ s.dp = snd.dp /\ s.ppm = snd.ppm
        /\ s.pagetry = snd.pagetry /\ s.noretry = snd.noretry
    <3>1. snd.rate - 1 \in 0..(Rates - 1)
      BY <1>4, SndTypes, RatesAssumption DEF SndRecords
    <3> QED
      BY <3>1, SndTypes DEF SndRecords
  <2>2. D_2(s)
    BY <1>4
  <2> HIDE DEF s
  <2>3. Ready(s, s.page, confirmed')
    BY <1>1, <2>1 DEF Ready
  <2> QED
    BY <1>0, <1>1, <1>4, <2>1, <2>2, <2>3, SndD2
<1>5. CASE Arriving("snd").frame = "CFR" /\ I_2(snd)
  <2>1. Listening
    BY <1>5, Answered DEF GetTraining, TransferInv, AnswerOK
  <2> QED
    BY <1>0, <1>1, <1>5, <2>1, SndI2
<1> QED
  BY <1>2, <1>3, <1>4, <1>5 DEF GetTraining, C_timeout_snd

LEMMA NoTrainingStep == TransferInv /\ NoTraining => TransferInv'
<1> SUFFICES ASSUME TransferInv, NoTraining PROVE TransferInv'
  OBVIOUS
<1>0. /\ UNCHANGED <<receiver, sends, confirmed>> /\ snd.pc = "D_2"
      /\ faults' \in 0..MaxFaults /\ confirmed' \in Seq(Pages)
  BY TimedOut, TypesHold, SndEnds, SndTypes DEF NoTraining, TransferInv
<1>1. CASE D_2(snd)
  BY <1>0, <1>1, TrainingReady, SndD2
<1>2. CASE C_timeout_snd(snd)
  <2>1. [snd EXCEPT !.err = 3] \in SndRecords
    BY SndTypes DEF SndRecords
  <2> QED
    BY <1>0, <1>2, <2>1, SndC DEF C_timeout_snd
<1> QED
  BY <1>1, <1>2 DEF NoTraining

LEMMA AfterAnswerType ==
  ASSUME TransferInv, NEW f
  PROVE  LET s == AfterAnswer(f) IN
         /\ s \in SndRecords /\ s.page = snd.page /\ s.noretry = snd.noretry
         /\ Counted(f) \in Confirmations => s.dp = 1 /\ s.pagetry = 0
         /\ Counted(f) \notin Confirmations => s.dp = 0 /\ s.pagetry = snd.pagetry
<1>1. snd \in SndRecords /\ {0, 1} \subseteq 0..1 /\ 0 \in Nat
  BY SndTypes
<1>2. CASE Counted(f) \in Confirmations
  <2>1. AfterAnswer(f) = [snd EXCEPT !.pagetry = 0, !.dp = 1]
    BY <1>2 DEF AfterAnswer
  <2> QED
    BY <1>1, <1>2, <2>1 DEF SndRecords
<1>3. CASE Counted(f) \notin Confirmations
  <2>1. AfterAnswer(f) = [snd EXCEPT !.dp = 0]
    BY <1>3 DEF AfterAnswer
  <2> QED
    BY <1>1, <1>3, <2>1 DEF SndRecords
<1> QED
  BY <1>2, <1>3

\* An answer that counts leads to the next page, a rejection to the same one.
LEMMA AnswerReady ==
  ASSUME TransferInv, snd.pc = "sendppm", line["snd"] # <<>>,
         NEW f, f = Arriving("snd").frame, Sent(f),
         \/ Counted(f) \in Confirmations
         \/ /\ ~snd.noretry /\ f \in Rejections
            /\ (Reject = {"RTN"} /\ snd.page = Last) => snd.pagetry < NTXRETRY
  PROVE  LET s == AfterAnswer(f) IN
         /\ Ready(s, s.page + s.dp, confirmed')
         /\ s.page = snd.page
<1> DEFINE s == AfterAnswer(f)
<1>0. /\ \A n \in Pages : KeptGood(n) => n <= snd.page
      /\ \A i \in DOMAIN confirmed : confirmed[i] < snd.page
      /\ Reject = {"RTN"} => IF snd.page = Last THEN sends[Last] <= snd.pagetry
                             ELSE sends[Last] = 0
  BY DEF TransferInv, PagesOK, NextPage, TriesOK
<1>1. CASE Counted(f) \in Confirmations
  <2>1. /\ s \in SndRecords /\ s.page = snd.page /\ s.dp = 1
        /\ s.pagetry = 0 /\ s.noretry = snd.noretry
    BY <1>1, AfterAnswerType
  <2>2. confirmed' = Append(confirmed, snd.page)
    BY <1>1 DEF Sent
  <2>3. /\ confirmed' \in Seq(Pages)
        /\ \A i \in DOMAIN confirmed' : confirmed'[i] < snd.page + 1
    BY <1>0, <2>2, SndTypes
  <2>4. \A n \in Pages : KeptGood(n) => n < snd.page + 1
    BY <1>0, SndTypes, Numbers
  <2>5. snd.page + 1 \in Pages => snd.page # Last
    BY SndTypes, Numbers
  <2> HIDE DEF s
  <2> QED
    BY <1>0, <2>1, <2>3, <2>4, <2>5, SndTypes DEF Ready, NTXRETRY, s
<1>2. CASE /\ Counted(f) \notin Confirmations /\ ~snd.noretry /\ f \in Rejections
           /\ (Reject = {"RTN"} /\ snd.page = Last) => snd.pagetry < NTXRETRY
  <2>1. /\ s \in SndRecords /\ s.page = snd.page /\ s.dp = 0
        /\ s.pagetry = snd.pagetry /\ s.noretry = snd.noretry
    BY <1>2, AfterAnswerType
  <2>2. confirmed' = confirmed
    BY <1>2 DEF Sent
  <2>3. ~rcv.good
    BY <1>2, Answered DEF TransferInv, AnswerOK
  <2>4. ~KeptGood(snd.page)
    BY <2>3, Answered DEF TransferInv, DataOK, DataDue
  <2>5. \A n \in Pages : KeptGood(n) => n < snd.page
    BY <1>0, <2>4, SndTypes, Numbers
  <2>6. s.page + s.dp = snd.page
    BY <2>1, SndTypes
  <2> HIDE DEF s
  <2> QED
    BY <1>0, <1>2, <2>1, <2>2, <2>5, <2>6, SndTypes DEF Ready, s
<1> QED
  BY <1>1, <1>2

LEMMA GetAnswerStep == TransferInv /\ GetAnswer => TransferInv'
<1> SUFFICES ASSUME TransferInv, GetAnswer PROVE TransferInv'
  OBVIOUS
<1> DEFINE f == Arriving("snd").frame
           s == AfterAnswer(f)
<1>0. /\ UNCHANGED <<receiver, faults>> /\ snd.pc = "sendppm" /\ line["snd"] # <<>>
      /\ faults' \in 0..MaxFaults /\ snd.ppm = ppm(snd.page)
  BY SndTypes DEF GetAnswer, TransferInv, PagesOK
<1>1. f \in Answers /\ line["snd"] = <<Frame(f)>> /\ line["rcv"] = <<>>
  BY <1>0, Answered
<1>2. CASE C_snd([snd EXCEPT !.err = 3]) /\ UNCHANGED <<sends, confirmed>>
  <2>1. [snd EXCEPT !.err = 3] \in SndRecords
    BY SndTypes DEF SndRecords
  <2> QED
    BY <1>0, <1>2, <2>1, SndC, SndTypes
<1>3. CASE Counted(f) \in Confirmations \cup Rejections /\ GoOn(f) /\ Sent(f)
  <2>0. s \in SndRecords /\ confirmed' \in Seq(Pages)
    <3>1. s \in SndRecords
      BY AfterAnswerType
    <3>2. confirmed' \in Seq(Pages)
      BY <1>3, SndTypes DEF Sent
    <3> QED
      BY <3>1, <3>2
  <2>1. /\ Counted(f) \in Confirmations => f = "MCF" \/ snd.noretry \/ f \in Confirmations
        /\ Counted(f) \notin Confirmations => ~snd.noretry /\ f \in Rejections
    BY <1>3 DEF Counted, Confirmations
  <2>2. snd.ppm # "EOP" => snd.page # Last
    BY <1>0, SndTypes, PpmType
  <2>3. CASE C_snd(s) /\ UNCHANGED sends
    BY <1>0, <2>0, <2>3, SndC
  <2>4. ASSUME \/ Counted(f) \in Confirmations
               \/ /\ ~snd.noretry /\ f \in Rejections
                  /\ (Reject = {"RTN"} /\ snd.page = Last) => snd.pagetry < NTXRETRY
        PROVE  Ready(s, s.page + s.dp, confirmed') /\ s.page = snd.page
    BY <1>0, <1>3, <2>4, AnswerReady
  <2>5. CASE snd.ppm = "MPS" /\ f = "MCF" /\ I(s)
    <3>1. Listening
      BY <1>0, <1>1, <2>5 DEF TransferInv, AnswerOK, Confirmations
    <3>2. Ready(s, s.page + s.dp, confirmed')
      BY <2>4, <2>5 DEF Counted, Confirmations
    <3> HIDE DEF s
    <3> QED
      BY <1>0, <1>1, <2>5, <3>1, <3>2, SndI
  <2>6. CASE snd.ppm = "MPS" /\ f \in {"RTP", "RTN"} /\ D(s) /\ UNCHANGED sends
    <3>1. Ready(s, s.page + s.dp, confirmed')
      BY <2>1, <2>2, <2>4, <2>6
    <3> HIDE DEF s
    <3> QED
      BY <1>0, <1>1, <2>6, <3>1, SndD
  <2>7. CASE snd.ppm = "EOP" /\ f = "RTN" /\ MayRetry /\ D(s) /\ UNCHANGED sends
    <3>1. Ready(s, s.page + s.dp, confirmed')
      BY <2>1, <2>4, <2>7 DEF MayRetry
    <3> HIDE DEF s
    <3> QED
      BY <1>0, <1>1, <2>7, <3>1, SndD
  <2>8. CASE snd.ppm = "EOM" /\ T(s) /\ UNCHANGED sends
    <3>1. Ready(s, s.page + s.dp, confirmed')
      BY <2>1, <2>2, <2>4, <2>8
    <3>2. Reject = {"RTN"} => sends[Last] = 0
      BY <1>0, <2>2, <2>8 DEF TransferInv, TriesOK
    <3> HIDE DEF s
    <3> QED
      BY <1>0, <1>1, <2>8, <3>1, <3>2, SndT
  <2>9. CASE f \notin {"MCF", "RTP", "RTN"} /\ E(f) /\ UNCHANGED sends
    <3>1. Reject = {"RTN"} => f \notin Rejections
      BY <1>1, <2>9, ConfirmAssumption DEF Answers, Confirmations, Rejections
    <3>2. Ready(s, s.page + s.dp, confirmed')
      BY <2>1, <2>4, <3>1
    <3> DEFINE t == [s EXCEPT !.try = 0]
    <3>3. /\ t \in SndRecords /\ t.page = s.page /\ t.dp = s.dp
          /\ t.pagetry = s.pagetry /\ t.noretry = s.noretry
      BY <2>0 DEF SndRecords
    <3>4. A(t, f)
      BY <2>9 DEF E
    <3> HIDE DEF t, s
    <3>5. Ready(t, t.page + t.dp, confirmed')
      BY <3>2, <3>3 DEF Ready
    <3> QED
      BY <1>0, <1>1, <2>9, <3>4, <3>5, SndA
  <2> QED
    BY <1>3, <2>3, <2>5, <2>6, <2>7, <2>8, <2>9 DEF GoOn
<1> QED
  BY <1>2, <1>3 DEF GetAnswer

LEMMA BurstLength ==
  ASSUME NEW a, NEW b
  PROVE  /\ Len(<<a, b>>) = 2 /\ Len(<<a>>) = 1
         /\ <<a, b>> # <<>> /\ <<a, b>> # <<b>>
         /\ Tail(<<a, b>>) = <<b>> /\ Tail(<<a>>) = <<>>
         /\ Head(<<a, b>>) = a /\ Head(<<a>>) = a
OBVIOUS

\* The post-page message is repeated, the data is not.
LEMMA NoAnswerStep == TransferInv /\ NoAnswer => TransferInv'
<1> SUFFICES ASSUME TransferInv, NoAnswer PROVE TransferInv'
  OBVIOUS
<1>0. /\ UNCHANGED <<receiver, sends, confirmed>> /\ snd.pc = "sendppm"
      /\ faults' \in 0..MaxFaults /\ confirmed' \in Seq(Pages)
      /\ line["snd"] = <<>> /\ (line["rcv"] = <<>> \/ Len(line["rcv"]) = 1)
      /\ Types
  BY TimedOut, TypesHold, SndEnds, SndTypes DEF NoAnswer, TransferInv
<1>1. CASE C_timeout_snd(snd)
  <2>1. [snd EXCEPT !.err = 3] \in SndRecords
    BY SndTypes DEF SndRecords
  <2> QED
    BY <1>0, <1>1, <2>1, SndC DEF C_timeout_snd
<1>2. CASE /\ snd' = [snd EXCEPT !.try = @ + 1]
           /\ Transmit("snd", <<Frame(snd.ppm)>>)
  <2>1. /\ line' = [q \in Ends |-> line'[q]]
        /\ line'["snd"] = <<>>
        /\ line'["rcv"] \in {<<>>, <<Frame(snd.ppm)>>}
    BY <1>0, <1>2, TransmitLine, SndEnds
  <2>2. /\ snd' \in SndRecords /\ snd'.pc = "sendppm" /\ snd'.page = snd.page
        /\ snd'.ppm = snd.ppm /\ snd'.pagetry = snd.pagetry
        /\ snd'.noretry = snd.noretry
    <3>1. snd.try + 1 \in Nat
      BY SndTypes DEF SndRecords
    <3> QED
      BY <1>0, <1>2, <3>1, SndTypes DEF SndRecords
  <2>3. UNCHANGED <<rcv, files, missed, sends, confirmed>>
    BY <1>0 DEF receiver
  <2>4. Types'
    BY <1>0, <2>1, <2>2, <2>3 DEF Types
  <2>5. LineOK'
    BY <2>1, <2>2 DEF LineOK
  <2>6. PagesOK'
    BY <1>0, <2>2, <2>3, KeptByCaller DEF TransferInv, PagesOK, NextPage, ppm
  <2> DEFINE b == Frame(snd.ppm)
             burst == <<Data(snd.page), b>>
  <2>6a. Len(burst) = 2 /\ burst # <<>> /\ burst # <<b>>
    BY BurstLength
  <2>6b. (DataDue <=> line["rcv"] = burst) /\ (DataDue' <=> line'["rcv"] = burst)
    BY <2>2 DEF DataDue
  <2> HIDE DEF burst
  <2>7. ~DataDue
    <3>1. ASSUME line["rcv"] = burst PROVE FALSE
      <4>1. Len(line["rcv"]) = 2 /\ line["rcv"] # <<>>
        BY <2>6a, <3>1
      <4>2. line["rcv"] = <<>> \/ Len(line["rcv"]) = 1
        BY <1>0
      <4> QED
        BY <4>1, <4>2
    <3> QED
      BY <2>6b, <3>1
  <2>8. ~DataDue'
    BY <2>1, <2>6a, <2>6b
  <2>9. KeptSaved(snd.page)' <=> KeptSaved(snd.page)
    BY <2>2, <2>3 DEF KeptSaved, SavedQualities, Kept, Has
  <2>10. DataOK'
    BY <1>0, <2>1, <2>2, <2>3, <2>7, <2>8, <2>9, KeptByCaller
      DEF TransferInv, DataOK, Unheard
  <2>11. TriesOK'
    BY <1>0, <2>2, <2>3 DEF TransferInv, TriesOK
  <2>12. rcv.pc # "train"
    BY <1>0 DEF TransferInv, TrainOK
  <2> QED
    BY <2>1, <2>3, <2>4, <2>5, <2>6, <2>10, <2>11, <2>12, CallerMoves
<1> QED
  BY <1>1, <1>2 DEF NoAnswer

LEMMA SenderStep == TransferInv /\ Sender => TransferInv'
BY GetDISStep, NoDISStep, GetTrainingStep, NoTrainingStep, GetAnswerStep,
   NoAnswerStep DEF Sender

-----------------------------------------------------------------------------
(***************************************************************************)
(* The moves of the answering machine.                                     *)
(***************************************************************************)

\* No file changes, but one that has no page that came to its end.
Tidy(fs) ==
  /\ fs \in Seq(Seq(Copies))
  /\ \A i \in DOMAIN fs :
       OnlyCut(fs[i]) \/ (i \in DOMAIN files /\ fs[i] = files[i])
  /\ \A i \in DOMAIN files :
       OnlyCut(files[i]) \/ (i \in DOMAIN fs /\ fs[i] = files[i])

Tidied == Tidy(files')

LEMMA TidiedKept ==
  ASSUME Tidied, UNCHANGED snd
  PROVE  /\ \A n : KeptGood(n)' <=> KeptGood(n)
         /\ \A n : KeptSaved(n)' <=> KeptSaved(n)
         /\ Once => Once'
<1>1. ASSUME NEW file, OnlyCut(file), NEW n, NEW Q, "cut" \notin Q
      PROVE  ~Has(file, n, Q)
  BY <1>1 DEF OnlyCut, Has
<1>2. ASSUME NEW Q, "cut" \notin Q, NEW n
      PROVE  /\ \A i \in DOMAIN files' : Has(files'[i], n, Q) =>
                  i \in DOMAIN files /\ Has(files[i], n, Q)
             /\ \A i \in DOMAIN files : Has(files[i], n, Q) =>
                  i \in DOMAIN files' /\ Has(files'[i], n, Q)
  <2> HIDE DEF Tidied, Tidy
  <2>1. ASSUME NEW i \in DOMAIN files', Has(files'[i], n, Q)
        PROVE  i \in DOMAIN files /\ Has(files[i], n, Q)
    BY <1>1, <1>2, <2>1 DEF Tidied, Tidy
  <2>2. ASSUME NEW i \in DOMAIN files, Has(files[i], n, Q)
        PROVE  i \in DOMAIN files' /\ Has(files'[i], n, Q)
    BY <1>1, <1>2, <2>2 DEF Tidied, Tidy
  <2> QED
    BY <2>1, <2>2
<1>3. ASSUME NEW n PROVE KeptGood(n)' <=> KeptGood(n)
  <2>1. "cut" \notin {"good"}
    OBVIOUS
  <2> QED
    BY <1>2, <2>1 DEF KeptGood, Kept
<1>4. ASSUME NEW n PROVE KeptSaved(n)' <=> KeptSaved(n)
  <2>1. SavedQualities' = SavedQualities /\ "cut" \notin SavedQualities
    BY DEF SavedQualities
  <2> QED
    BY <1>2, <2>1 DEF KeptSaved, Kept
<1>5. Once => Once'
  <2>1. "cut" \notin {"good"}
    OBVIOUS
  <2> QED
    BY <1>2, <2>1 DEF Once
<1> QED
  BY <1>3, <1>4, <1>5

LEMMA TidySame == Types => Tidy(files)
BY DEF Types, Tidy

\* wrpage() opens a file after those that are finished.
LEMMA WrpageTidy ==
  ASSUME Types, NEW k \in Nat,
         \/ Len(files) = k
         \/ Len(files) = k + 1 /\ OnlyCut(files[Len(files)])
  PROVE  /\ Tidy(wrpage(k))
         /\ Len(wrpage(k)) = k + 1
         /\ OnlyCut(wrpage(k)[k + 1])
<1> DEFINE front == SubSeq(files, 1, k)
<1>1. files \in Seq(Seq(Copies)) /\ Len(files) \in Nat
  BY DEF Types
<1>2. /\ front \in Seq(Seq(Copies)) /\ Len(front) = k
      /\ \A i \in 1..k : front[i] = files[i]
  BY <1>1
<1>3. << <<>> >> \in Seq(Seq(Copies)) /\ Len(<< <<>> >>) = 1
  BY ShortSeqs
<1> HIDE DEF front
<1>4. wrpage(k) = front \o << <<>> >>
  BY DEF wrpage, front
<1>5. /\ wrpage(k) \in Seq(Seq(Copies)) /\ Len(wrpage(k)) = k + 1
      /\ \A i \in 1..k : wrpage(k)[i] = files[i]
      /\ wrpage(k)[k + 1] = <<>>
  BY <1>2, <1>3, <1>4
<1>6. OnlyCut(<<>>)
  BY DEF OnlyCut
<1>7. DOMAIN wrpage(k) = 1..(k + 1)
  BY <1>5
<1>8. DOMAIN files = 1..Len(files)
  BY <1>1
<1>9. Len(files) = k \/ Len(files) = k + 1
  OBVIOUS
<1>10. \A i \in DOMAIN files : OnlyCut(files[i]) \/ i \in 1..k
  <2>1. CASE Len(files) = k
    BY <1>8, <2>1
  <2>2. CASE Len(files) = k + 1 /\ OnlyCut(files[Len(files)])
    <3>1. \A i \in DOMAIN files : i \in 1..k \/ i = Len(files)
      BY <1>8, <2>2
    <3> QED
      BY <2>2, <3>1
  <2> QED
    BY <2>1, <2>2
<1>11. 1..k \subseteq DOMAIN files /\ \A i \in DOMAIN wrpage(k) : i \in 1..k \/ i = k + 1
  <2>1. \A i \in 1..(k + 1) : i \in 1..k \/ i = k + 1
    OBVIOUS
  <2>2. 1..k \subseteq 1..k /\ 1..k \subseteq 1..(k + 1)
    OBVIOUS
  <2> QED
    BY <1>7, <1>8, <1>9, <2>1, <2>2
<1>12. 1..k \subseteq DOMAIN wrpage(k)
  BY <1>7
<1> QED
  BY <1>5, <1>6, <1>10, <1>11, <1>12 DEF Tidy

\* The last file is removed when it has no page.
LEMMA DropTidy ==
  ASSUME NEW fs, Tidy(fs), Types, Len(fs) > 0, OnlyCut(fs[Len(fs)])
  PROVE  Tidy(SubSeq(fs, 1, Len(fs) - 1))
<1> DEFINE n == Len(fs) - 1
           front == SubSeq(fs, 1, n)
<1>1. fs \in Seq(Seq(Copies)) /\ n \in Nat /\ Len(fs) = n + 1
  BY DEF Tidy
<1>2. /\ front \in Seq(Seq(Copies)) /\ Len(front) = n
      /\ \A i \in 1..n : front[i] = fs[i]
  BY <1>1
<1>3. DOMAIN front = 1..n /\ DOMAIN fs = 1..(n + 1)
  BY <1>1, <1>2
<1> HIDE DEF n, front
<1>4. \A i \in DOMAIN fs : i \in DOMAIN front \/ i = Len(fs)
  BY <1>1, <1>3
<1>5. DOMAIN front \subseteq DOMAIN fs
  BY <1>1, <1>3
<1>6. \A i \in DOMAIN files :
        OnlyCut(files[i]) \/ (i \in DOMAIN front /\ front[i] = files[i])
  BY <1>2, <1>3, <1>4 DEF Tidy
<1>7. \A i \in DOMAIN front :
        OnlyCut(front[i]) \/ (i \in DOMAIN files /\ front[i] = files[i])
  BY <1>2, <1>3, <1>5 DEF Tidy
<1>8. Tidy(front)
  BY <1>2, <1>6, <1>7 DEF Tidy
<1> QED
  BY <1>8 DEF n, front

LEMMA RcvTypes ==
  ASSUME TransferInv
  PROVE  /\ Types /\ rcv \in RcvRecords /\ rcv.rxpage \in Nat /\ rcv.pending \in BOOLEAN
         /\ rcv.pc # "done" => /\ Len(files) \in Nat
                               /\ rcv.pending => Len(files) = rcv.rxpage
                               /\ ~rcv.pending => Len(files) = rcv.rxpage + 1
                               /\ ~rcv.pending => OnlyCut(files[Len(files)])
<1>1. Types /\ rcv \in RcvRecords /\ rcv.rxpage \in Nat /\ rcv.pending \in BOOLEAN
  BY TypesHold DEF TransferInv, Types, RcvRecords
<1>2. rcv.pc # "done" => Len(files) = rcv.rxpage + (IF rcv.pending THEN 0 ELSE 1)
  BY DEF TransferInv, FilesOK, FilesAreCounted
<1>3. rcv.pc # "done" /\ ~rcv.pending => OnlyCut(files[Len(files)])
  BY DEF TransferInv, FilesOK
<1> QED
  BY <1>1, <1>2, <1>3

\* The files when the answering machine goes on, the file of a page closed.
LEMMA PostponedTidy ==
  ASSUME TransferInv, rcv.pc # "done"
  PROVE  /\ Tidy(Postponed)
         /\ Len(Postponed) = rcv.rxpage + 1
         /\ OnlyCut(Postponed[Len(Postponed)])
<1>1. CASE rcv.pending
  <2>1. Postponed = wrpage(rcv.rxpage)
    BY <1>1 DEF Postponed
  <2>2. Len(files) = rcv.rxpage
    BY <1>1, RcvTypes
  <2>3. /\ Tidy(wrpage(rcv.rxpage))
        /\ Len(wrpage(rcv.rxpage)) = rcv.rxpage + 1
        /\ OnlyCut(wrpage(rcv.rxpage)[rcv.rxpage + 1])
    BY <2>2, RcvTypes, WrpageTidy
  <2> QED
    BY <2>1, <2>3
<1>2. CASE ~rcv.pending
  <2>1. Postponed = files
    BY <1>2 DEF Postponed
  <2> QED
    BY <1>2, <2>1, RcvTypes, TidySame
<1> QED
  BY <1>1, <1>2

LEMMA AnswererMoves ==
  ASSUME TransferInv, UNCHANGED <<snd, sends, confirmed>>,
         \A n \in Pages :
           KeptGood(n)' => KeptGood(n) \/ (n = snd.page /\ snd.pc = "sendppm"),
         Types', LineOK', AnswerOK', TrainOK', FilesOK', DataOK', Once'
  PROVE  TransferInv'
<1>1. PagesOK'
  <2>1. snd.page \in Nat
    BY SndTypes
  <2>2. snd.pc = "sendppm" => \A n \in Pages : KeptGood(n)' => n <= snd.page
    BY <2>1 DEF TransferInv, PagesOK
  <2>3. snd.pc \in {"T", "D_2"} => \A n \in Pages : KeptGood(n)' => n < NextPage
    BY DEF TransferInv, PagesOK
  <2> QED
    BY <2>2, <2>3 DEF TransferInv, PagesOK, NextPage, ppm
<1>2. TriesOK'
  BY DEF TransferInv, TriesOK
<1> QED
  BY <1>1, <1>2, TypesGive, PTL DEF TransferInv

\* What arrives goes, or is lost when the machine itself transmits f.
Hears == line'["snd"] = line["snd"] /\ line'["rcv"] \in {line["rcv"], Tail(line["rcv"])}
Says(f) == line'["rcv"] = <<>> /\ line'["snd"] \in {<<>>, <<Frame(f)>>}

LEMMA AnswererLine ==
  ASSUME TransferInv, UNCHANGED snd,
         (Hears /\ line["rcv"] # <<>>) \/ UNCHANGED line \/ \E f \in Answers : Says(f)
  PROVE  LineOK'
<1>1. CASE UNCHANGED line
  BY <1>1 DEF TransferInv, LineOK
<1>2. ASSUME NEW f \in Answers, Says(f) PROVE LineOK'
  BY <1>2 DEF Says, LineOK
<1>3. CASE line["rcv"] # <<>> /\ Hears
  <2>1. line["snd"] = <<>>
    BY <1>3 DEF TransferInv, LineOK
  <2>2. CASE line'["rcv"] = line["rcv"]
    BY <1>3, <2>1, <2>2 DEF TransferInv, LineOK, Hears
  <2>3. CASE line'["rcv"] = Tail(line["rcv"])
    <3>1. /\ Tail(<<Frame("DCS"), TCF>>) = <<TCF>> /\ Tail(<<TCF>>) = <<>>
          /\ Tail(<<Frame("DCN")>>) = <<>>
          /\ Tail(<<Data(snd.page), Frame(snd.ppm)>>) = <<Frame(snd.ppm)>>
          /\ Tail(<<Frame(snd.ppm)>>) = <<>>
      BY BurstLength
    <3>2. snd.pc # "T"
      BY <1>3 DEF TransferInv, LineOK
    <3>3. snd.pc = "D_2" => line'["rcv"] \in {<<>>, <<TCF>>}
      BY <1>3, <2>3, <3>1 DEF TransferInv, LineOK
    <3>4. snd.pc = "sendppm" => line'["rcv"] \in {<<>>, <<Frame(snd.ppm)>>}
      BY <1>3, <2>3, <3>1 DEF TransferInv, LineOK
    <3>5. snd.pc = "done" => line'["rcv"] = <<>>
      BY <1>3, <2>3, <3>1 DEF TransferInv, LineOK
    <3> QED
      BY <1>3, <2>1, <3>2, <3>3, <3>4, <3>5 DEF Hears, LineOK
  <2> QED
    BY <1>3, <2>2, <2>3 DEF Hears
<1> QED
  BY <1>1, <1>2, <1>3

(***************************************************************************)
(* Moves between pages: the data of the page, when it is due, is not heard *)
(* and stays on its way.                                                   *)
(***************************************************************************)
LEMMA AnswererKeeps ==
  ASSUME TransferInv, rcv.pc # "done",
         UNCHANGED <<sender, missed>>, faults' \in 0..MaxFaults,
         rcv' \in RcvRecords, rcv'.good = rcv.good \/ snd.pc # "sendppm",
         line' = [q \in Ends |-> line'[q]], Tidied,
         LineOK', AnswerOK', TrainOK', FilesOK',
         snd.pc = "sendppm" => IF DataDue THEN UNCHANGED line /\ Listening'
                                          ELSE ~DataDue'
  PROVE  TransferInv'
<1>1. UNCHANGED <<snd, sends, confirmed>>
  BY DEF sender
<1>2. Types'
  BY <1>1, RcvTypes DEF Types, Tidied, Tidy
<1>3. /\ \A n : KeptGood(n)' <=> KeptGood(n)
      /\ \A n : KeptSaved(n)' <=> KeptSaved(n)
      /\ Once'
  BY <1>1, TidiedKept DEF TransferInv
<1>4. DataOK'
  <2>1. SUFFICES ASSUME snd.pc = "sendppm" PROVE DataOK'
    BY <1>1 DEF DataOK
  <2>2. CASE DataDue
    <3>1. DataDue'
      BY <1>1, <2>1, <2>2 DEF DataDue
    <3> QED
      BY <1>1, <1>3, <2>1, <2>2, <3>1 DEF TransferInv, DataOK
  <2>3. CASE ~DataDue
    BY <1>1, <1>3, <2>1, <2>3 DEF TransferInv, DataOK, Unheard
  <2> QED
    BY <2>2, <2>3
<1> QED
  BY <1>1, <1>2, <1>3, <1>4, AnswererMoves

-----------------------------------------------------------------------------
(***************************************************************************)
(* The actions of the answering machine.                                   *)
(***************************************************************************)

\* What arrives, and where the caller then is.
LEMMA Heard ==
  ASSUME TransferInv, line["rcv"] # <<>>
  PROVE  /\ line["snd"] = <<>>
         /\ \/ /\ snd.pc = "D_2"
               /\ Arriving("rcv") \in {Frame("DCS"), TCF}
            \/ /\ snd.pc = "sendppm" /\ DataDue
               /\ Arriving("rcv") = Data(snd.page)
               /\ Tail(line["rcv"]) = <<Frame(snd.ppm)>>
            \/ /\ snd.pc = "sendppm" /\ ~DataDue
               /\ Arriving("rcv") = Frame(snd.ppm) /\ Tail(line["rcv"]) = <<>>
               /\ snd.ppm \in PostPage
            \/ /\ snd.pc = "done"
               /\ Arriving("rcv") = Frame("DCN")
<1>1. line["snd"] = <<>> /\ snd.pc # "T"
  BY DEF TransferInv, LineOK
<1>2. snd.pc \in {"T", "D_2", "sendppm", "done"} /\ snd.ppm \in PostPage
  BY SndTypes DEF SndRecords
<1>3. CASE snd.pc = "D_2"
  <2>1. line["rcv"] \in {<<Frame("DCS"), TCF>>, <<TCF>>}
    BY <1>3 DEF TransferInv, LineOK
  <2>2. Head(<<Frame("DCS"), TCF>>) = Frame("DCS") /\ Head(<<TCF>>) = TCF
    BY BurstLength
  <2>3. Arriving("rcv") \in {Frame("DCS"), TCF}
    BY <2>1, <2>2 DEF Arriving
  <2> QED
    BY <1>1, <1>3, <2>3
<1>4. CASE snd.pc = "sendppm"
  <2> DEFINE burst == <<Data(snd.page), Frame(snd.ppm)>>
             rest == <<Frame(snd.ppm)>>
  <2>1. /\ Head(burst) = Data(snd.page) /\ Tail(burst) = rest
        /\ Head(rest) = Frame(snd.ppm) /\ Tail(rest) = <<>> /\ burst # rest
    BY BurstLength
  <2>2. line["rcv"] = burst \/ line["rcv"] = rest
    BY <1>4 DEF TransferInv, LineOK
  <2>3. DataDue <=> line["rcv"] = burst
    BY DEF DataDue
  <2> HIDE DEF burst
  <2>4. CASE line["rcv"] = burst
    BY <1>1, <1>4, <2>1, <2>3, <2>4 DEF Arriving
  <2>5. CASE line["rcv"] = rest
    BY <1>1, <1>2, <1>4, <2>1, <2>3, <2>5 DEF Arriving
  <2> QED
    BY <2>2, <2>4, <2>5
<1>5. CASE snd.pc = "done"
  <2>1. line["rcv"] = <<Frame("DCN")>> /\ Head(<<Frame("DCN")>>) = Frame("DCN")
    BY <1>5, BurstLength DEF TransferInv, LineOK
  <2> QED
    BY <1>1, <1>5, <2>1 DEF Arriving
<1> QED
  BY <1>1, <1>2, <1>3, <1>4, <1>5

LEMMA Signal ==
  /\ \A f : Frame(f).frame = f /\ Frame(f).page = 0
  /\ TCF.frame = "TCF" /\ TCF.page = 0
  /\ \A n : Data(n).frame = "data" /\ Data(n).page = n
  /\ \A n : HasDataCarrier(Data(n)) /\ HasDataCarrier(TCF)
  /\ 0 \notin Pages
BY DEF Frame, TCF, Data, HasDataCarrier, Pages

\* The file that is removed when the machine hangs up has no page.
LEMMA HangUpFiles ==
  ASSUME TransferInv, rcv.pc # "done", NEW r, r.rxpage = rcv.rxpage,
         NEW fs, fs = Postponed \/ (~rcv.pending /\ fs = files), B_rcv(r, fs)
  PROVE  Tidied
<1>1. /\ Tidy(fs) /\ Len(fs) = rcv.rxpage + 1
      /\ OnlyCut(fs[Len(fs)])
  BY PostponedTidy DEF Postponed
<1>2. Len(fs) > 0 /\ Types
  BY <1>1, RcvTypes
<1>3. Tidy(SubSeq(fs, 1, Len(fs) - 1))
  BY <1>1, <1>2, DropTidy
<1>4. files' \in {fs, SubSeq(fs, 1, Len(fs) - 1)}
  BY DEF B_rcv
<1> QED
  BY <1>1, <1>3, <1>4 DEF Tidied

\* F_2 in either state of the file of the page before
LEMMA CommandStep ==
  ASSUME TransferInv, rcv.pc \in {"R", "F"}, line["rcv"] # <<>>,
         ~HasDataCarrier(Arriving("rcv")),
         F_2(Done, Postponed, Arriving("rcv").frame),
         UNCHANGED <<sender, faults, missed>>
  PROVE  TransferInv'
<1> DEFINE f == Arriving("rcv").frame
<1>0. /\ UNCHANGED <<snd, sends, confirmed>> /\ line["snd"] = <<>>
      /\ faults' \in 0..MaxFaults /\ rcv.pc # "done"
  BY SndTypes, Heard DEF sender
<1>1. /\ Done \in RcvRecords /\ Done.pending = FALSE /\ Done.rxpage = rcv.rxpage
      /\ Done.good = rcv.good /\ Done.last = rcv.last
  BY RcvTypes DEF Done, RcvRecords
<1>2. /\ Tidy(Postponed) /\ Len(Postponed) = rcv.rxpage + 1
      /\ OnlyCut(Postponed[Len(Postponed)])
  BY <1>0, PostponedTidy
<1>3. snd.pc = "sendppm" => ~DataDue /\ f = snd.ppm
  BY Heard, Signal
<1>4. CASE /\ f = "DCS" /\ rcv' = [Done EXCEPT !.pc = "train", !.last = f]
           /\ files' = Postponed /\ Take("rcv")
  <2>1. snd.pc = "D_2"
    BY <1>4, Heard, Signal DEF PostPage
  <2>2. line' = [q \in Ends |-> line'[q]] /\ Hears
    BY TakeLine, SndEnds, RcvTypes, <1>4 DEF Hears
  <2>3. /\ rcv' \in RcvRecords /\ rcv'.pc = "train" /\ rcv'.last = "DCS"
        /\ rcv'.pending = FALSE /\ rcv'.rxpage = rcv.rxpage
    BY <1>1, <1>4 DEF RcvRecords, Frames
  <2>4. FilesOK'
    BY <1>2, <1>4, <2>3 DEF FilesOK, FilesAreCounted
  <2>5. LineOK' /\ AnswerOK' /\ TrainOK'
    BY <1>0, <2>1, <2>2, <2>3, AnswererLine DEF Hears, AnswerOK, TrainOK
  <2>6. Tidied
    BY <1>2, <1>4 DEF Tidied
  <2> HIDE DEF f
  <2> QED
    BY <1>0, <2>1, <2>2, <2>3, <2>4, <2>5, <2>6, AnswererKeeps
<1>5. CASE /\ f \in PostPage
           /\ \E answer \in IF Done.good THEN Confirm ELSE Reject :
                Transmit("rcv", <<Frame(answer)>>)
           /\ rcv' = [Done EXCEPT !.pc = IF Done.good /\ f = "MPS" THEN "getdata" ELSE "F",
                                 !.last = f]
           /\ files' = Postponed
  <2>1. PICK answer \in IF rcv.good THEN Confirm ELSE Reject :
          Transmit("rcv", <<Frame(answer)>>)
    BY <1>1, <1>5
  <2>2. /\ answer \in Answers
        /\ answer \in Confirmations => rcv.good
        /\ answer \in Rejections => ~rcv.good
        /\ answer # "CFR"
    BY ConfirmAssumption, RejectAssumption DEF Answers, Confirmations, Rejections
  <2>3. line' = [q \in Ends |-> line'[q]] /\ Says(answer)
    BY <2>1, TransmitLine, SndEnds, RcvTypes DEF Says
  <2>4. /\ rcv' \in RcvRecords /\ rcv'.pc \in {"getdata", "F"} /\ rcv'.last = f
        /\ rcv'.pending = FALSE /\ rcv'.rxpage = rcv.rxpage /\ rcv'.good = rcv.good
    BY <1>1, <1>5 DEF RcvRecords, Frames
  <2>5. FilesOK'
    BY <1>2, <1>5, <2>4 DEF FilesOK, FilesAreCounted
  <2>6. LineOK'
    BY <1>0, <2>2, <2>3, AnswererLine
  <2>7. AnswerOK'
    <3>1. ASSUME NEW g \in Answers, line'["snd"] = <<Frame(g)>> PROVE g = answer
      <4>1. <<Frame(g)>> = <<Frame(answer)>>
        BY <2>3, <3>1 DEF Says
      <4>2. Head(<<Frame(g)>>).frame = g /\ Head(<<Frame(answer)>>).frame = answer
        BY BurstLength, Signal
      <4> QED
        BY <4>1, <4>2
    <3>2. snd.pc = "sendppm" /\ snd.ppm = "MPS" => Listening'
      BY <1>3, <2>4 DEF Listening
    <3> HIDE DEF f
    <3> QED
      BY <1>0, <2>2, <2>4, <3>1, <3>2 DEF AnswerOK
  <2>8. TrainOK' /\ ~DataDue'
    <3>1. <<Data(snd.page), Frame(snd.ppm)>> # <<>>
      BY BurstLength
    <3> QED
      BY <1>0, <2>3, <2>4, <3>1 DEF TrainOK, DataDue, Says
  <2>9. Tidied
    BY <1>2, <1>5 DEF Tidied
  <2> HIDE DEF f
  <2> QED
    BY <1>0, <1>3, <2>3, <2>4, <2>5, <2>6, <2>7, <2>8, <2>9, AnswererKeeps
<1>6. CASE f = "DCN" /\ B_rcv(Done, Postponed) /\ Take("rcv")
  <2>1. snd.pc = "done"
    BY <1>6, Heard, Signal DEF PostPage
  <2>2. line' = [q \in Ends |-> line'[q]] /\ Hears
    BY TakeLine, SndEnds, RcvTypes, <1>6 DEF Hears
  <2>3. /\ rcv' \in RcvRecords /\ rcv'.pc = "done" /\ rcv'.pending = FALSE
    BY <1>1, <1>6 DEF B_rcv, RcvRecords
  <2>4. FilesOK' /\ TrainOK'
    BY <2>3 DEF FilesOK, FilesAreCounted, TrainOK
  <2>5. LineOK' /\ AnswerOK'
    BY <1>0, <2>1, <2>2, <2>3, AnswererLine DEF Hears, AnswerOK
  <2>6. Tidied
    BY <1>0, <1>1, <1>6, HangUpFiles
  <2> HIDE DEF f
  <2> QED
    BY <1>0, <2>1, <2>2, <2>3, <2>4, <2>5, <2>6, AnswererKeeps
<1> QED
  BY <1>4, <1>5, <1>6 DEF F_2

LEMMA GetCommandStep == TransferInv /\ (GetFirstCommand \/ GetCommand) => TransferInv'
<1> SUFFICES ASSUME TransferInv, GetFirstCommand \/ GetCommand PROVE TransferInv'
  OBVIOUS
<1>1. CASE GetCommand
  BY <1>1, CommandStep DEF GetCommand
<1>2. CASE GetFirstCommand
  <2>1. rcv.pending = FALSE
    BY <1>2, RcvTypes DEF GetFirstCommand, TransferInv, FilesOK
  <2>2. Done = rcv /\ Postponed = files
    BY <2>1, RcvTypes DEF Done, Postponed, RcvRecords
  <2> QED
    BY <1>2, <2>2, CommandStep DEF GetFirstCommand
<1> QED
  BY <1>1, <1>2

\* Nothing is due while the machine waits for the first command.
LEMMA NotDue ==
  ASSUME TransferInv, snd.pc = "sendppm", ~Listening \/ line["rcv"] = <<>>
  PROVE  ~DataDue
<1>1. <<Data(snd.page), Frame(snd.ppm)>> # <<>>
  BY BurstLength
<1> QED
  BY <1>1 DEF TransferInv, DataOK, DataDue

LEMMA SilentNotDue ==
  ASSUME line'["rcv"] = <<>>
  PROVE  ~DataDue'
<1>1. (<<Data(snd.page), Frame(snd.ppm)>> # <<>>)'
  BY BurstLength
<1> QED
  BY <1>1 DEF DataDue

\* A frame that is not an answer to a page
LEMMA SaidOther ==
  ASSUME NEW f \in {"DIS", "DCN", "FTT"}, Says(f)
  PROVE  AnswerOK'
<1>1. ASSUME NEW g \in Answers, line'["snd"] = <<Frame(g)>> PROVE g = f
  <2>1. <<Frame(g)>> = <<Frame(f)>>
    BY <1>1 DEF Says
  <2>2. Head(<<Frame(g)>>).frame = g /\ Head(<<Frame(f)>>).frame = f
    BY BurstLength, Signal
  <2> QED
    BY <2>1, <2>2
<1>2. f \notin Confirmations /\ f \notin Rejections /\ f # "CFR"
  BY DEF Confirmations, Rejections
<1> QED
  BY <1>1, <1>2 DEF AnswerOK

LEMMA NoFirstCommandStep == TransferInv /\ NoFirstCommand => TransferInv'
<1> SUFFICES ASSUME TransferInv, NoFirstCommand PROVE TransferInv'
  OBVIOUS
<1>0. /\ UNCHANGED <<sender, missed>> /\ UNCHANGED <<snd, sends, confirmed>>
      /\ faults' \in 0..MaxFaults /\ rcv.pc = "R" /\ rcv.pending = FALSE
  BY TimedOut, SndEnds, SndTypes, RcvTypes
    DEF NoFirstCommand, sender, TransferInv, FilesOK
<1>1. snd.pc = "sendppm" => ~DataDue
  BY <1>0, NotDue DEF Listening
<1>2. CASE /\ rcv.t < DisTries
           /\ rcv' = [rcv EXCEPT !.t = @ + 1]
           /\ Transmit("rcv", <<Frame("DIS")>>)
           /\ UNCHANGED files
  <2>1. line' = [q \in Ends |-> line'[q]] /\ Says("DIS")
    BY <1>2, TransmitLine, SndEnds, RcvTypes DEF Says
  <2>2. rcv' \in RcvRecords /\ rcv'.pc = "R" /\ rcv'.good = rcv.good
        /\ rcv'.pending = FALSE /\ rcv'.rxpage = rcv.rxpage
    <3>1. rcv.t + 1 \in 1..DisTries
      BY <1>2, RcvTypes, DisTriesAssumption DEF RcvRecords
    <3> QED
      BY <1>0, <1>2, <3>1, RcvTypes DEF RcvRecords
  <2>3. FilesOK' /\ TrainOK'
    BY <1>0, <1>2, <2>2 DEF TransferInv, FilesOK, FilesAreCounted, TrainOK, OnlyCut
  <2>4. LineOK' /\ AnswerOK' /\ ~DataDue'
    BY <1>0, <2>1, AnswererLine, SaidOther, SilentNotDue DEF Answers, Says
  <2>5. Tidied
    BY <1>2, TidySame, RcvTypes DEF Tidied
  <2> QED
    BY <1>0, <1>1, <2>1, <2>2, <2>3, <2>4, <2>5, AnswererKeeps
<1>3. CASE /\ B_rcv([rcv EXCEPT !.err = 3], files)
           /\ Transmit("rcv", <<Frame("DCN")>>)
  <2>1. line' = [q \in Ends |-> line'[q]] /\ Says("DCN")
    BY <1>3, TransmitLine, SndEnds, RcvTypes DEF Says
  <2>2. rcv' \in RcvRecords /\ rcv'.pc = "done" /\ rcv'.good = rcv.good
        /\ rcv'.pending = FALSE
    BY <1>0, <1>3, RcvTypes DEF B_rcv, RcvRecords
  <2>3. FilesOK' /\ TrainOK'
    BY <2>2 DEF FilesOK, FilesAreCounted, TrainOK
  <2>4. LineOK' /\ AnswerOK' /\ ~DataDue'
    BY <1>0, <2>1, AnswererLine, SaidOther, SilentNotDue DEF Answers, Says
  <2>5. Tidied
    <3>1. [rcv EXCEPT !.err = 3].rxpage = rcv.rxpage
      BY RcvTypes DEF RcvRecords
    <3> QED
      BY <1>0, <1>3, <3>1, HangUpFiles
  <2> QED
    BY <1>0, <1>1, <2>1, <2>2, <2>3, <2>4, <2>5, AnswererKeeps
<1> QED
  BY <1>2, <1>3 DEF NoFirstCommand

LEMMA DataInsteadStep == TransferInv /\ DataInsteadOfCommand => TransferInv'
<1> SUFFICES ASSUME TransferInv, DataInsteadOfCommand PROVE TransferInv'
  OBVIOUS
<1>0. /\ UNCHANGED <<sender, missed, line>> /\ UNCHANGED <<snd, sends, confirmed>>
      /\ faults' \in 0..MaxFaults /\ rcv.pc = "F" /\ files' = Postponed
      /\ line' = [q \in Ends |-> line'[q]]
  BY SndTypes, RcvTypes DEF DataInsteadOfCommand, sender, Types
<1>1. /\ rcv' \in RcvRecords /\ rcv'.pc = "getdata" /\ rcv'.good = rcv.good
      /\ rcv'.pending = FALSE /\ rcv'.rxpage = rcv.rxpage /\ rcv'.last = "data"
  BY RcvTypes DEF DataInsteadOfCommand, Done, RcvRecords
<1>2. /\ Tidied /\ Len(files') = rcv.rxpage + 1
      /\ OnlyCut(files'[Len(files')])
  BY <1>0, PostponedTidy DEF Tidied
<1>3. FilesOK' /\ TrainOK'
  BY <1>1, <1>2 DEF FilesOK, FilesAreCounted, TrainOK, OnlyCut
<1>4. Listening'
  BY <1>1 DEF Listening
<1>5. LineOK' /\ AnswerOK'
  BY <1>0, <1>1, <1>4, AnswererLine DEF TransferInv, AnswerOK
<1>6. DataDue' <=> DataDue
  BY <1>0 DEF DataDue
<1> QED
  BY <1>0, <1>1, <1>2, <1>3, <1>4, <1>5, <1>6, AnswererKeeps

LEMMA NoCommandStep == TransferInv /\ NoCommand => TransferInv'
<1> SUFFICES ASSUME TransferInv, NoCommand PROVE TransferInv'
  OBVIOUS
<1>0. /\ UNCHANGED <<sender, missed>> /\ UNCHANGED <<snd, sends, confirmed>>
      /\ faults' \in 0..MaxFaults /\ rcv.pc = "F" /\ line["rcv"] = <<>>
  BY TimedOut, SndEnds, RcvTypes DEF NoCommand, sender
<1>1. snd.pc = "sendppm" => ~DataDue
  BY <1>0, NotDue
<1>2. /\ Done \in RcvRecords /\ Done.pending = FALSE /\ Done.rxpage = rcv.rxpage
      /\ Done.good = rcv.good /\ Done.last = rcv.last
  BY RcvTypes DEF Done, RcvRecords
<1>3. CASE rcv.last = "EOM" /\ R(Done)
  <2>1. line' = [q \in Ends |-> line'[q]] /\ Says("DIS")
    BY <1>3, TransmitLine, SndEnds, RcvTypes DEF R, Says
  <2>2. rcv' \in RcvRecords /\ rcv'.pc = "R" /\ rcv'.good = rcv.good
        /\ rcv'.pending = FALSE /\ rcv'.rxpage = rcv.rxpage
    <3>1. 1 \in 1..DisTries
      BY DisTriesAssumption
    <3> QED
      BY <1>2, <1>3, <3>1 DEF R, RcvRecords
  <2>3. files' = wrpage(rcv.rxpage)
    BY <1>2, <1>3 DEF R
  <2>4. /\ Tidied /\ Len(files') = rcv.rxpage + 1
        /\ OnlyCut(files'[Len(files')])
    <3>1. /\ Tidy(wrpage(rcv.rxpage)) /\ Len(wrpage(rcv.rxpage)) = rcv.rxpage + 1
          /\ OnlyCut(wrpage(rcv.rxpage)[rcv.rxpage + 1])
      BY <1>0, RcvTypes, WrpageTidy
    <3> QED
      BY <2>3, <3>1 DEF Tidied
  <2>5. FilesOK' /\ TrainOK'
    BY <2>2, <2>4 DEF FilesOK, FilesAreCounted, TrainOK, OnlyCut
  <2>6. LineOK' /\ AnswerOK' /\ ~DataDue'
    BY <1>0, <2>1, AnswererLine, SaidOther, SilentNotDue DEF Answers, Says
  <2> QED
    BY <1>0, <1>1, <2>1, <2>2, <2>4, <2>5, <2>6, AnswererKeeps
<1>4. CASE rcv.last # "EOM" /\ B_rcv([Done EXCEPT !.err = 3], Postponed) /\ Leave("rcv")
  <2>1. /\ line' = [q \in Ends |-> line'[q]]
        /\ line'["rcv"] = <<>> /\ line'["snd"] = line["snd"]
    BY <1>4, LeaveLine, SndEnds, RcvTypes
  <2>2. rcv' \in RcvRecords /\ rcv'.pc = "done" /\ rcv'.good = rcv.good
        /\ rcv'.pending = FALSE /\ rcv'.last = rcv.last
    BY <1>2, <1>4 DEF B_rcv, RcvRecords
  <2>3. FilesOK' /\ TrainOK'
    BY <2>2 DEF FilesOK, FilesAreCounted, TrainOK
  <2>4. Listening'
    BY <1>4, <2>2 DEF Listening
  <2>5. LineOK' /\ AnswerOK' /\ ~DataDue'
    BY <1>0, <2>1, <2>2, <2>4, SilentNotDue DEF TransferInv, LineOK, AnswerOK
  <2>6. Tidied
    <3>1. [Done EXCEPT !.err = 3].rxpage = rcv.rxpage
      BY <1>2 DEF RcvRecords
    <3> QED
      BY <1>0, <1>4, <3>1, HangUpFiles
  <2> QED
    BY <1>0, <1>1, <2>1, <2>2, <2>3, <2>5, <2>6, AnswererKeeps
<1> QED
  BY <1>3, <1>4 DEF NoCommand

LEMMA TrainStep == TransferInv /\ Train => TransferInv'
<1> SUFFICES ASSUME TransferInv, Train PROVE TransferInv'
  OBVIOUS
<1>0. /\ UNCHANGED <<sender, missed, files>> /\ UNCHANGED <<snd, sends, confirmed>>
      /\ rcv.pc = "train" /\ snd.pc \in {"D_2", "done"} /\ rcv.last = "DCS"
  BY DEF Train, sender, TransferInv, TrainOK
<1>1. faults' \in 0..MaxFaults
  BY TimedOut, SndEnds, SndTypes, RcvTypes, FaultCounted DEF Train
<1>2. PICK good \in BOOLEAN : Trained(good)
  BY DEF Train
<1> DEFINE f == IF good THEN "CFR" ELSE "FTT"
<1>3. line' = [q \in Ends |-> line'[q]] /\ Says(f)
  BY <1>2, TransmitLine, SndEnds, RcvTypes DEF Trained, Says
<1>4. /\ rcv' \in RcvRecords /\ rcv'.pc \in {"getdata", "F"}
      /\ rcv'.pending = FALSE /\ rcv'.rxpage = rcv.rxpage /\ rcv'.last = "DCS"
  BY <1>0, <1>2, RcvTypes DEF Trained, RcvRecords, TransferInv, FilesOK
<1>5. FilesOK' /\ TrainOK'
  BY <1>0, <1>4 DEF TransferInv, FilesOK, FilesAreCounted, TrainOK, OnlyCut
<1>6. AnswerOK'
  <2>1. CASE ~good
    BY <1>3, <2>1, SaidOther
  <2>2. CASE good
    <3>1. ASSUME NEW g \in Answers, line'["snd"] = <<Frame(g)>> PROVE g = "CFR"
      <4>1. <<Frame(g)>> = <<Frame("CFR")>>
        BY <1>3, <2>2, <3>1 DEF Says
      <4>2. Head(<<Frame(g)>>).frame = g /\ Head(<<Frame("CFR")>>).frame = "CFR"
        BY BurstLength, Signal
      <4> QED
        BY <4>1, <4>2
    <3>2. Listening'
      BY <1>4 DEF Listening
    <3> QED
      BY <3>1, <3>2 DEF AnswerOK, Confirmations, Rejections
  <2> QED
    BY <2>1, <2>2
<1>7. f \in Answers
  BY DEF Answers
<1> HIDE DEF f
<1>8. LineOK'
  BY <1>0, <1>3, <1>7, AnswererLine
<1>9. Tidied
  BY <1>0, TidySame, RcvTypes DEF Tidied
<1> QED
  BY <1>0, <1>1, <1>3, <1>4, <1>5, <1>6, <1>8, <1>9, AnswererKeeps

\* What a page adds to the open file.
LEMMA Written ==
  ASSUME Types, Len(files) > 0, NEW copy \in Copies, Write(copy)
  PROVE  /\ files' \in Seq(Seq(Copies)) /\ Len(files') = Len(files)
         /\ DOMAIN files' = DOMAIN files
         /\ \A i \in DOMAIN files : \A m, Q :
              Has(files'[i], m, Q)
                <=> \/ Has(files[i], m, Q)
                    \/ i = Len(files) /\ copy.page = m /\ copy.quality \in Q
         /\ (copy.quality = "cut" /\ OnlyCut(files[Len(files)]))
              => OnlyCut(files'[Len(files)])
<1> DEFINE k == Len(files)
           file == files[k]
<1>1. files \in Seq(Seq(Copies)) /\ k \in Nat /\ DOMAIN files = 1..k /\ k \in 1..k
  BY DEF Types
<1>2. file \in Seq(Copies)
  BY <1>1
<1>3. files' = [files EXCEPT ![k] = Append(file, copy)]
  BY DEF Write
<1>4. Append(file, copy) \in Seq(Copies)
  BY <1>2
<1>5. /\ files' \in Seq(Seq(Copies)) /\ Len(files') = k /\ DOMAIN files' = 1..k
      /\ files'[k] = Append(file, copy)
      /\ \A i \in 1..k : i # k => files'[i] = files[i]
  <2> HIDE DEF k, file
  <2>1. files \in [1..k -> Seq(Copies)]
    BY <1>1 DEF k
  <2>2. files' \in [1..k -> Seq(Copies)]
    BY <1>3, <1>4, <2>1
  <2> QED
    BY <1>1, <1>3, <2>1, <2>2
<1>6. /\ DOMAIN Append(file, copy) = 1..(Len(file) + 1)
      /\ DOMAIN file = 1..Len(file) /\ Len(file) \in Nat
      /\ Append(file, copy)[Len(file) + 1] = copy
      /\ \A j \in 1..Len(file) : Append(file, copy)[j] = file[j]
  BY <1>2
<1> HIDE DEF k, file
<1>7. ASSUME NEW m, NEW Q
      PROVE  Has(Append(file, copy), m, Q)
               <=> Has(file, m, Q) \/ (copy.page = m /\ copy.quality \in Q)
  <2>1. \A j \in 1..(Len(file) + 1) : j \in 1..Len(file) \/ j = Len(file) + 1
    BY <1>6
  <2>2. 1..Len(file) \subseteq 1..(Len(file) + 1) /\ Len(file) + 1 \in 1..(Len(file) + 1)
    BY <1>6
  <2> QED
    BY <1>6, <2>1, <2>2 DEF Has
<1>8. ASSUME NEW i \in DOMAIN files, NEW m, NEW Q
      PROVE  Has(files'[i], m, Q)
                <=> \/ Has(files[i], m, Q)
                    \/ i = k /\ copy.page = m /\ copy.quality \in Q
  BY <1>1, <1>5, <1>7 DEF file
<1>9. (copy.quality = "cut" /\ OnlyCut(file)) => OnlyCut(files'[k])
  <2>1. \A j \in 1..(Len(file) + 1) : j \in 1..Len(file) \/ j = Len(file) + 1
    BY <1>6
  <2> QED
    BY <1>5, <1>6, <2>1 DEF OnlyCut
<1> QED
  BY <1>1, <1>5, <1>8, <1>9 DEF k, file

LEMMA GetPageStep == TransferInv /\ GetPage => TransferInv'
<1> SUFFICES ASSUME TransferInv, GetPage PROVE TransferInv'
  OBVIOUS
<1> DEFINE n == snd.page
<1>0. /\ UNCHANGED <<snd, sends, confirmed>> /\ rcv.pc = "getdata" /\ rcv.pending = FALSE
      /\ Types /\ Len(files) = rcv.rxpage + 1 /\ Len(files) > 0 /\ rcv.rxpage \in Nat
      /\ OnlyCut(files[Len(files)]) /\ n \in Pages
  BY RcvTypes, SndTypes DEF GetPage, sender, TransferInv, FilesOK
<1>1. /\ snd.pc = "sendppm" /\ DataDue /\ Arriving("rcv").page = n
      /\ Tail(line["rcv"]) = <<Frame(snd.ppm)>> /\ line["rcv"] # <<>>
      /\ line["snd"] = <<>>
  BY Heard, Signal DEF GetPage
<1>2. /\ line' = [q \in Ends |-> line'[q]]
      /\ line'["snd"] = <<>> /\ line'["rcv"] = <<Frame(snd.ppm)>>
  BY <1>0, <1>1, TakeLine, SndEnds DEF GetPage
<1>3. LineOK' /\ AnswerOK'
  BY <1>0, <1>1, <1>2, AnswererLine DEF Hears, AnswerOK
<1>4. ~DataDue'
  <2>1. (<<Data(snd.page), Frame(snd.ppm)>> # <<Frame(snd.ppm)>>)'
    BY BurstLength
  <2> QED
    BY <1>0, <1>2, <2>1 DEF DataDue
<1>5. Listening /\ ~KeptGood(n)
  BY <1>1 DEF TransferInv, DataOK
<1>6. faults' \in 0..MaxFaults
  BY SndTypes, RcvTypes, FaultCounted DEF GetPage
<1>7. ASSUME NEW quality \in {"good", "bad", "cut"}, Write(Copy(n, quality))
      PROVE  /\ files' \in Seq(Seq(Copies)) /\ Len(files') = Len(files)
             /\ \A m : KeptGood(m)' <=> KeptGood(m) \/ (quality = "good" /\ m = n)
             /\ KeptSaved(n)' <=> KeptSaved(n) \/ quality \in SavedQualities
             /\ quality = "cut" => OnlyCut(files'[Len(files)])
             /\ Once'
  <2> DEFINE copy == Copy(n, quality)
  <2>1. /\ copy \in Copies /\ copy.page = n /\ copy.quality = quality
        /\ Write(copy)
    BY <1>0, <1>7 DEF Copy, Copies
  <2> HIDE DEF copy
  <2>2. /\ files' \in Seq(Seq(Copies)) /\ Len(files') = Len(files)
        /\ DOMAIN files' = DOMAIN files
        /\ \A i \in DOMAIN files : \A m, Q :
             Has(files'[i], m, Q)
               <=> \/ Has(files[i], m, Q)
                   \/ i = Len(files) /\ n = m /\ quality \in Q
        /\ (quality = "cut" /\ OnlyCut(files[Len(files)]))
             => OnlyCut(files'[Len(files)])
    BY <1>0, <2>1, Written
  <2>3. Len(files) \in DOMAIN files
    BY <1>0 DEF Types
  <2>4. ASSUME NEW m
        PROVE  KeptGood(m)' <=> KeptGood(m) \/ (quality = "good" /\ m = n)
    <3>1. \A i \in DOMAIN files :
            Has(files'[i], m, {"good"})
              <=> \/ Has(files[i], m, {"good"})
                  \/ i = Len(files) /\ n = m /\ quality = "good"
      BY <2>2
    <3> QED
      BY <2>2, <2>3, <3>1 DEF KeptGood, Kept
  <2>5. KeptSaved(n)' <=> KeptSaved(n) \/ quality \in SavedQualities
    <3>1. SavedQualities' = SavedQualities /\ n' = n
      BY <1>0 DEF SavedQualities
    <3>2. \A i \in DOMAIN files :
            Has(files'[i], n, SavedQualities)
              <=> \/ Has(files[i], n, SavedQualities)
                  \/ i = Len(files) /\ quality \in SavedQualities
      BY <2>2
    <3>3. KeptSaved(n)' <=> \E i \in DOMAIN files' : Has(files'[i], n, SavedQualities)
      BY <3>1 DEF KeptSaved, Kept
    <3>4. KeptSaved(n) <=> \E i \in DOMAIN files : Has(files[i], n, SavedQualities)
      BY DEF KeptSaved, Kept
    <3> HIDE DEF n
    <3> QED
      BY <2>2, <2>3, <3>2, <3>3, <3>4
  <2>6. Once'
    <3> SUFFICES ASSUME NEW m \in Pages, NEW i \in DOMAIN files, NEW j \in DOMAIN files,
                        Has(files'[i], m, {"good"}), Has(files'[j], m, {"good"})
                 PROVE  i = j
      BY <2>2 DEF Once
    <3>1. CASE m = n
      BY <1>5, <2>2, <3>1 DEF KeptGood, Kept
    <3>2. CASE m # n
      BY <2>2, <3>2 DEF TransferInv, Once
    <3> QED
      BY <3>1, <3>2
  <2> QED
    BY <1>0, <2>2, <2>4, <2>5, <2>6
<1>8. ASSUME NEW good \in BOOLEAN, Saved(n, good), UNCHANGED missed
      PROVE  TransferInv'
  <2> DEFINE quality == IF good THEN "good" ELSE "bad"
  <2>1. /\ rcv' \in RcvRecords /\ rcv'.pc = "F" /\ rcv'.good = good
        /\ rcv'.pending = TRUE /\ rcv'.rxpage = rcv.rxpage + 1
    <3>1. rcv' = [rcv EXCEPT !.pc = "F", !.good = good, !.pending = TRUE,
                             !.rxpage = rcv.rxpage + 1]
      BY <1>8 DEF Saved
    <3>2. rcv.rxpage + 1 \in Nat
      BY <1>0
    <3> QED
      BY <3>1, <3>2, RcvTypes DEF RcvRecords
  <2>2. /\ files' \in Seq(Seq(Copies)) /\ Len(files') = Len(files)
        /\ \A m : KeptGood(m)' <=> KeptGood(m) \/ (quality = "good" /\ m = n)
        /\ KeptSaved(n)' <=> KeptSaved(n) \/ quality \in SavedQualities
        /\ Once'
    BY <1>7, <1>8 DEF Saved
  <2>3. Types'
    BY <1>0, <1>2, <1>6, <1>8, <2>1, <2>2 DEF Types
  <2>4. FilesOK' /\ TrainOK'
    BY <1>0, <2>1, <2>2 DEF FilesOK, FilesAreCounted, TrainOK
  <2>5. DataOK'
    <3>1. KeptGood(n)' <=> good
      <4>1. n' = n
        BY <1>0
      <4> QED
        BY <1>5, <2>2, <4>1
    <3>2. ~good /\ snd.noretry => KeptSaved(n)'
      BY <2>2 DEF SavedQualities
    <3>3. n' = n
      BY <1>0
    <3> HIDE DEF n
    <3> QED
      BY <1>0, <1>4, <2>1, <3>1, <3>2, <3>3 DEF DataOK, n
  <2>6. \A m \in Pages : KeptGood(m)' => KeptGood(m) \/ (m = n /\ snd.pc = "sendppm")
    BY <1>1, <2>2
  <2> QED
    BY <1>0, <1>3, <2>2, <2>3, <2>4, <2>5, <2>6, AnswererMoves
<1>9. CASE Write(Copy(n, "cut")) /\ missed' = missed \cup {n} /\ UNCHANGED rcv
  <2>1. /\ files' \in Seq(Seq(Copies)) /\ Len(files') = Len(files)
        /\ \A m : KeptGood(m)' <=> KeptGood(m)
        /\ OnlyCut(files'[Len(files)])
        /\ Once'
    BY <1>7, <1>9
  <2>2. Types'
    BY <1>0, <1>2, <1>6, <1>9, <2>1 DEF Types
  <2>3. FilesOK' /\ TrainOK'
    BY <1>0, <1>9, <2>1 DEF FilesOK, FilesAreCounted, TrainOK
  <2>4. DataOK'
    BY <1>0, <1>4, <1>5, <1>9, <2>1 DEF DataOK
  <2> QED
    BY <1>0, <1>3, <2>1, <2>2, <2>3, <2>4, AnswererMoves
<1> QED
  BY <1>1, <1>8, <1>9 DEF GetPage

LEMMA GetTCFStep == TransferInv /\ GetTCFAsPage => TransferInv'
<1> SUFFICES ASSUME TransferInv, GetTCFAsPage PROVE TransferInv'
  OBVIOUS
<1>0. /\ UNCHANGED <<rcv, files, sender, missed>> /\ UNCHANGED <<snd, sends, confirmed>>
      /\ faults' \in 0..MaxFaults /\ rcv.pc = "getdata" /\ line["rcv"] # <<>>
  BY SndTypes DEF GetTCFAsPage, sender, receiver
<1>1. snd.pc = "D_2" /\ line["snd"] = <<>>
  BY Heard, Signal DEF GetTCFAsPage, PostPage
<1>2. line' = [q \in Ends |-> line'[q]] /\ Hears
  BY TakeLine, SndEnds, RcvTypes DEF Hears, GetTCFAsPage
<1>3. LineOK' /\ AnswerOK' /\ TrainOK'
  BY <1>0, <1>1, <1>2, AnswererLine DEF Hears, AnswerOK, TrainOK
<1>4. FilesOK' /\ Tidied
  BY <1>0, TidySame, RcvTypes DEF TransferInv, FilesOK, FilesAreCounted, OnlyCut, Tidied
<1> QED
  BY <1>0, <1>1, <1>2, <1>3, <1>4, RcvTypes, AnswererKeeps

LEMMA NoPageStep == TransferInv /\ NoPage => TransferInv'
<1> SUFFICES ASSUME TransferInv, NoPage PROVE TransferInv'
  OBVIOUS
<1>0. /\ UNCHANGED <<sender, missed, line, files>> /\ UNCHANGED <<snd, sends, confirmed>>
      /\ rcv.pc = "getdata" /\ rcv.pending = FALSE /\ line' = [q \in Ends |-> line'[q]]
  BY RcvTypes DEF NoPage, sender, Types, TransferInv, FilesOK
<1>1. faults' \in 0..MaxFaults
  BY TimedOut, SndEnds, SndTypes, RcvTypes, FaultCounted DEF NoPage
<1>2. /\ rcv' \in RcvRecords /\ rcv'.pc = "F" /\ rcv'.good = rcv.good
      /\ rcv'.pending = FALSE /\ rcv'.rxpage = rcv.rxpage /\ rcv'.last = rcv.last
  BY <1>0, RcvTypes DEF NoPage, RcvRecords
<1>3. FilesOK' /\ TrainOK'
  BY <1>0, <1>2 DEF TransferInv, FilesOK, FilesAreCounted, OnlyCut, TrainOK
<1>4. Listening => Listening'
  BY <1>2 DEF Listening
<1>5. LineOK' /\ AnswerOK'
  BY <1>0, <1>2, <1>4, AnswererLine DEF TransferInv, AnswerOK
<1>6. DataDue' <=> DataDue
  BY <1>0 DEF DataDue
<1>7. snd.pc = "sendppm" /\ DataDue => Listening
  BY DEF TransferInv, DataOK
<1>8. Tidied
  BY <1>0, TidySame, RcvTypes DEF Tidied
<1> QED
  BY <1>0, <1>1, <1>2, <1>3, <1>4, <1>5, <1>6, <1>7, <1>8, AnswererKeeps

-----------------------------------------------------------------------------
(***************************************************************************)
(* The line loses a signal, to either machine.                             *)
(***************************************************************************)
LEMMA LoseAnswerStep == TransferInv /\ Lose("snd") => TransferInv'
<1> SUFFICES ASSUME TransferInv, Lose("snd") PROVE TransferInv'
  OBVIOUS
<1>0. /\ UNCHANGED <<snd, sends, confirmed>> /\ UNCHANGED <<rcv, files>> /\ Types
      /\ faults' \in 0..MaxFaults /\ line["snd"] # <<>>
  BY RcvTypes, FaultCounted DEF Lose, sender
<1>1. PICK f \in Answers : line["snd"] = <<Frame(f)>>
  BY <1>0 DEF TransferInv, LineOK
<1>2. line["rcv"] = <<>> /\ line["snd"] = <<Frame(Arriving("snd").frame)>>
  BY <1>0, Answered
<1>3. Tail(line["snd"]) = <<>>
  BY <1>1, BurstLength
<1>4. /\ line' = [q \in Ends |-> line'[q]]
      /\ line'["snd"] = <<>> /\ line'["rcv"] = <<>>
  BY <1>0, <1>2, <1>3, TakeLine, SndEnds DEF Lose
<1>5. missed' = missed
  <2>1. Arriving("snd") = Frame(f)
    BY <1>1, BurstLength DEF Arriving
  <2> QED
    BY <2>1, Signal DEF Lose
<1>6. Types'
  BY <1>0, <1>4, <1>5 DEF Types
<1>7. LineOK' /\ AnswerOK' /\ FilesOK' /\ TrainOK' /\ Once'
  BY <1>0, <1>4
    DEF TransferInv, LineOK, AnswerOK, FilesOK, FilesAreCounted, OnlyCut, TrainOK,
        Once, Has
<1>8. /\ \A n : KeptGood(n)' <=> KeptGood(n)
      /\ KeptSaved(snd.page)' <=> KeptSaved(snd.page)
  BY <1>0 DEF KeptGood, KeptSaved, Kept, Has, SavedQualities
<1>9. DataOK'
  <2>1. ~DataDue'
    BY <1>4, SilentNotDue
  <2>2. snd.pc = "sendppm" => ~DataDue
    BY <1>2, NotDue
  <2> QED
    BY <1>0, <1>4, <1>5, <1>8, <2>1, <2>2 DEF TransferInv, DataOK, Unheard
<1> QED
  BY <1>0, <1>6, <1>7, <1>8, <1>9, AnswererMoves

\* A page whose data is lost is missed.
LEMMA LoseSignalStep == TransferInv /\ Lose("rcv") => TransferInv'
<1> SUFFICES ASSUME TransferInv, Lose("rcv") PROVE TransferInv'
  OBVIOUS
<1>0. /\ UNCHANGED <<snd, sends, confirmed>> /\ UNCHANGED <<rcv, files>> /\ Types
      /\ faults' \in 0..MaxFaults /\ line["rcv"] # <<>>
  BY RcvTypes, FaultCounted DEF Lose, sender
<1>1. line["snd"] = <<>>
  BY <1>0, Heard
<1>2. line' = [q \in Ends |-> line'[q]] /\ Hears /\ line'["rcv"] = Tail(line["rcv"])
  BY <1>0, TakeLine, SndEnds DEF Lose, Hears
<1>3. missed' = missed \cup ({Arriving("rcv").page} \cap Pages)
  BY DEF Lose
<1>4. Types'
  BY <1>0, <1>2, <1>3 DEF Types
<1>5. LineOK' /\ AnswerOK' /\ FilesOK' /\ TrainOK' /\ Once'
  BY <1>0, <1>1, <1>2, AnswererLine
    DEF TransferInv, AnswerOK, FilesOK, FilesAreCounted, OnlyCut, TrainOK, Once, Has,
        Hears
<1>6. /\ \A n : KeptGood(n)' <=> KeptGood(n)
      /\ KeptSaved(snd.page)' <=> KeptSaved(snd.page)
  BY <1>0 DEF KeptGood, KeptSaved, Kept, Has, SavedQualities
<1>7. DataOK'
  <2>1. SUFFICES ASSUME snd.pc = "sendppm" PROVE DataOK'
    BY <1>0 DEF DataOK
  <2>2. ~DataDue'
    <3>1. line'["rcv"] \in {<<Frame(snd.ppm)>>, <<>>}
      BY <1>0, <1>2, <2>1, Heard
    <3>2. /\ <<Data(snd.page), Frame(snd.ppm)>> # <<Frame(snd.ppm)>>
          /\ <<Data(snd.page), Frame(snd.ppm)>> # <<>>
      BY BurstLength
    <3> QED
      BY <1>0, <3>1, <3>2 DEF DataDue
  <2>3. CASE DataDue
    <3>1. Arriving("rcv").page = snd.page
      BY <1>0, <2>1, <2>3, Heard, Signal
    <3>2. snd.page \in missed'
      BY <1>3, <3>1, SndTypes
    <3>3. ~KeptGood(snd.page)
      BY <2>1, <2>3 DEF TransferInv, DataOK
    <3> QED
      BY <1>0, <1>6, <2>2, <3>2, <3>3 DEF DataOK
  <2>4. CASE ~DataDue
    BY <1>0, <1>2, <1>3, <1>6, <2>1, <2>2, <2>4
      DEF TransferInv, DataOK, Unheard, Hears
  <2> QED
    BY <2>3, <2>4
<1> QED
  BY <1>0, <1>4, <1>5, <1>6, <1>7, AnswererMoves

LEMMA ReceiverStep == TransferInv /\ Receiver => TransferInv'
BY GetCommandStep, NoFirstCommandStep, DataInsteadStep, NoCommandStep, TrainStep,
   GetPageStep, GetTCFStep, NoPageStep DEF Receiver

-----------------------------------------------------------------------------
LEMMA TransferInit == Init => TransferInv
<1> SUFFICES ASSUME Init PROVE TransferInv
  OBVIOUS
<1>1. PICK noretry \in NoRetry :
        snd = [pc |-> "T", page |-> 1, dp |-> 0, ppm |-> "EOP", try |-> 0,
               pagetry |-> 0, rate |-> Rates - 1, err |-> 0, noretry |-> noretry]
  BY DEF Init
<1>2. PICK undefined \in BOOLEAN :
        rcv = [pc |-> "R", t |-> 1, good |-> undefined, rxpage |-> 0,
               pending |-> FALSE, last |-> "none", err |-> 0]
  BY DEF Init
<1>3. /\ files = << <<>> >> /\ line = [snd |-> <<Frame("DIS")>>, rcv |-> <<>>]
      /\ faults = 0 /\ sends = [n \in Pages |-> 0] /\ confirmed = <<>> /\ missed = {}
  BY DEF Init
<1>4. /\ files \in Seq(Seq(Copies)) /\ Len(files) = 1 /\ DOMAIN files = 1..1
      /\ files[1] = <<>> /\ DOMAIN files[1] = {}
  BY <1>3, ShortSeqs
<1>5. snd \in SndRecords
  <2>1. 1 \in Pages /\ Rates - 1 \in 0..(Rates - 1) /\ noretry \in BOOLEAN
    BY Numbers, RatesAssumption, NoRetryAssumption
  <2> QED
    BY <1>1, <2>1 DEF SndRecords, PostPage
<1>6. rcv \in RcvRecords
  <2>1. 1 \in 1..DisTries
    BY DisTriesAssumption
  <2> QED
    BY <1>2, <2>1 DEF RcvRecords
<1>7. Types
  <2>1. line = [q \in Ends |-> line[q]]
    BY <1>3 DEF Ends
  <2>2. 0 \in 0..MaxFaults /\ <<>> \in Seq(Pages)
    BY MaxFaultsAssumption
  <2> QED
    BY <1>3, <1>4, <1>5, <1>6, <2>1, <2>2 DEF Types
<1>8. line["snd"] = <<Frame("DIS")>> /\ line["rcv"] = <<>> /\ "DIS" \in Answers
  BY <1>3 DEF Answers
<1>9. LineOK
  BY <1>1, <1>8 DEF LineOK
<1>10. AnswerOK
  <2>1. ASSUME NEW g \in Answers, line["snd"] = <<Frame(g)>> PROVE g = "DIS"
    <3>1. <<Frame(g)>> = <<Frame("DIS")>>
      BY <1>8, <2>1
    <3>2. Head(<<Frame(g)>>).frame = g /\ Head(<<Frame("DIS")>>).frame = "DIS"
      BY BurstLength, Signal
    <3> QED
      BY <3>1, <3>2
  <2> QED
    BY <2>1 DEF AnswerOK, Confirmations, Rejections
<1>11. FilesOK /\ TrainOK
  BY <1>2, <1>4 DEF FilesOK, FilesAreCounted, OnlyCut, TrainOK
<1>12. PagesOK /\ Once
  <2>1. \A n, Q : \A i \in DOMAIN files : ~Has(files[i], n, Q)
    BY <1>4 DEF Has
  <2> QED
    BY <1>1, <1>3, <2>1 DEF PagesOK, Once, KeptGood, Kept
<1>13. DataOK
  BY <1>1 DEF DataOK
<1>14. TriesOK
  BY <1>1, <1>3, Numbers DEF TriesOK, NTXRETRY
<1> QED
  BY <1>7, <1>9, <1>10, <1>11, <1>12, <1>13, <1>14, TypesGive DEF TransferInv

LEMMA TransferStep == TransferInv /\ [Next]_vars => TransferInv'
<1> SUFFICES ASSUME TransferInv, [Next]_vars PROVE TransferInv'
  OBVIOUS
<1>1. CASE UNCHANGED vars
  <2>1. UNCHANGED <<snd, rcv, files, line, faults, sends, confirmed, missed>>
    BY <1>1 DEF vars
  <2>2. TypeOK' /\ LineOK'
    BY <2>1 DEF TransferInv, TypeOK, LineOK
  <2>3. Listening' = Listening /\ KeptGood(snd.page)' = KeptGood(snd.page)
        /\ KeptSaved(snd.page)' = KeptSaved(snd.page) /\ DataDue' = DataDue
        /\ Unheard' = Unheard /\ NextPage' = NextPage
    BY <2>1 DEF Listening, KeptGood, KeptSaved, SavedQualities, Kept, Has, DataDue,
                Unheard, NextPage
  <2>4. \A n : KeptGood(n)' <=> KeptGood(n)
    BY <2>1, KeptByCaller
  <2>5. AnswerOK' /\ TrainOK'
    BY <2>1, <2>3 DEF TransferInv, AnswerOK, TrainOK
  <2>6. FilesOK' /\ Once'
    BY <2>1 DEF TransferInv, FilesOK, FilesAreCounted, OnlyCut, Once, Has
  <2>7. PagesOK'
    BY <2>1, <2>3, <2>4 DEF TransferInv, PagesOK, ppm
  <2>8. DataOK' /\ TriesOK'
    BY <2>1, <2>3 DEF TransferInv, DataOK, TriesOK
  <2> QED
    BY <2>2, <2>5, <2>6, <2>7, <2>8 DEF TransferInv
<1> QED
  BY <1>1, SenderStep, ReceiverStep, LoseAnswerStep, LoseSignalStep DEF Next, HungUp

(***************************************************************************)
(* The invariant of the session, whatever the line loses.                  *)
(***************************************************************************)
THEOREM TransferCorrect == Spec => []TransferInv
BY TransferInit, TransferStep, PTL DEF Spec

(***************************************************************************)
(* No page is saved whole twice, and the files are counted: see            *)
(* NoPageTwice.                                                            *)
(***************************************************************************)
THEOREM NoPageTwiceCorrect == Spec => []NoPageTwice
<1>1. TransferInv => NoPageTwice
  <2> SUFFICES ASSUME TransferInv PROVE NoPageTwice
    OBVIOUS
  <2>1. TypeOK /\ FilesAreCounted
    BY DEF TransferInv, FilesOK
  <2>2. ASSUME NEW n \in Pages
        PROVE  Cardinality({i \in DOMAIN files : Has(files[i], n, {"good"})}) <= 1
    <3> DEFINE S == {i \in DOMAIN files : Has(files[i], n, {"good"})}
    <3>1. \A i, j \in S : i = j
      BY DEF TransferInv, Once
    <3> HIDE DEF S
    <3>2. S = {} \/ \E i \in S : S = {i}
      BY <3>1
    <3>3. Cardinality(S) <= 1
      <4>1. CASE S = {}
        BY <4>1, FS_EmptySet
      <4>2. ASSUME NEW i \in S, S = {i} PROVE Cardinality(S) <= 1
        <5>1. Cardinality({i}) = 1
          BY FS_Singleton
        <5> QED
          BY <4>2, <5>1
      <4> QED
        BY <3>2, <4>1, <4>2
    <3> QED
      BY <3>3 DEF S
  <2> QED
    BY <2>1, <2>2 DEF NoPageTwice
<1> QED
  BY <1>1, TransferCorrect, PTL

(***************************************************************************)
(* The last page is transmitted NTXRETRY times at most: see                *)
(* LastPageIsGivenUp.                                                      *)
(***************************************************************************)
THEOREM TriesCorrect == Spec => []LastPageIsGivenUp
<1>1. TransferInv => LastPageIsGivenUp
  BY DEF TransferInv, TriesOK, LastPageIsGivenUp, Last
<1> QED
  BY <1>1, TransferCorrect, PTL
-----------------------------------------------------------------------------
(***************************************************************************)
(* The refinement of PageTransfer, step by step.  Transfers is what it     *)
(* sees, PageStep what it allows.                                          *)
(***************************************************************************)
savedPages == {n \in Pages : KeptSaved(n)}
transferred == <<savedPages, missed, confirmed>>
PageStep == Transfer!Next \/ UNCHANGED transferred

LEMMA SavedIs ==
  savedPages = {n \in Pages :
                  Kept(n, {"good"} \cup (IF snd.noretry THEN {"bad"} ELSE {}))}
BY DEF savedPages, KeptSaved, SavedQualities

LEMMA Saves ==
  ASSUME NEW n \in Pages, savedPages' = savedPages \cup {n}, UNCHANGED <<missed, confirmed>>
  PROVE  PageStep
<1>1. Transfer!Save(n)
  BY SavedIs DEF Transfer!Save, savedPages, KeptSaved, SavedQualities
<1> QED
  BY <1>1 DEF PageStep, Transfer!Next

LEMMA Loses ==
  ASSUME NEW n \in Pages, missed' = missed \cup {n}, UNCHANGED <<savedPages, confirmed>>
  PROVE  PageStep
<1>1. Transfer!LosePage(n)
  BY SavedIs DEF Transfer!LosePage, savedPages, KeptSaved, SavedQualities
<1> QED
  BY <1>1 DEF PageStep, Transfer!Next

LEMMA Reports ==
  ASSUME NEW n \in Pages, n \in savedPages \cup missed,
         \A i \in DOMAIN confirmed : confirmed[i] < n,
         confirmed' = Append(confirmed, n), UNCHANGED <<savedPages, missed>>
  PROVE  PageStep
<1>1. Transfer!Report(n)
  BY SavedIs DEF Transfer!Report, savedPages, KeptSaved, SavedQualities
<1> QED
  BY <1>1 DEF PageStep, Transfer!Next

\* What the option -on says does not change in a session.
LEMMA MovesNoretry ==
  ASSUME NEW s \in SndRecords, B_snd(s) \/ C_snd(s) \/ D_2(s) \/ I_2(s) \/ T(s)
  PROVE  snd'.noretry = s.noretry
<1>1. CASE B_snd(s)
  BY <1>1 DEF B_snd, SndRecords
<1>2. CASE C_snd(s)
  BY <1>2 DEF C_snd, SndRecords
<1>3. CASE D_2(s)
  BY <1>3 DEF D_2, SndRecords
<1>4. CASE I_2(s)
  BY <1>4 DEF I_2, SndRecords
<1>5. CASE T(s)
  BY <1>5 DEF T, SndRecords
<1> QED
  BY <1>1, <1>2, <1>3, <1>4, <1>5

LEMMA PageNoretry ==
  ASSUME NEW s \in SndRecords, D(s) \/ I(s)
  PROVE  snd'.noretry = s.noretry
<1>1. CASE NoSuchPage(s)
  <2>1. [s EXCEPT !.err = 2] \in SndRecords /\ [s EXCEPT !.err = 2].noretry = s.noretry
    BY DEF SndRecords
  <2> QED
    BY <1>1, <2>1, MovesNoretry DEF D, I
<1>2. CASE ~NoSuchPage(s)
  BY <1>2, PageRead, MovesNoretry DEF D, I
<1> QED
  BY <1>1, <1>2

LEMMA TrainNoretry ==
  ASSUME NEW s \in SndRecords, NEW f, A(s, f)
  PROVE  snd'.noretry = s.noretry
<1> DEFINE t == IF f = "DIS" THEN [s EXCEPT !.rate = Rates - 1] ELSE s
<1>1. t \in SndRecords /\ t.noretry = s.noretry
  BY RatesAssumption DEF SndRecords
<1>2. D(t)
  BY DEF A
<1> HIDE DEF t
<1> QED
  BY <1>1, <1>2, PageNoretry

LEMMA SenderNoretry == TransferInv /\ Sender => snd'.noretry = snd.noretry
<1> SUFFICES ASSUME TransferInv, Sender PROVE snd'.noretry = snd.noretry
  OBVIOUS
<1>0. snd \in SndRecords
  BY SndTypes
<1>1. \A e \in {0, 2, 3} : /\ [snd EXCEPT !.err = e] \in SndRecords
                           /\ [snd EXCEPT !.err = e].noretry = snd.noretry
  BY <1>0 DEF SndRecords
<1>2. ASSUME NEW e \in {0, 2, 3},
             B_snd([snd EXCEPT !.err = e]) \/ C_snd([snd EXCEPT !.err = e])
      PROVE  snd'.noretry = snd.noretry
  <2> DEFINE s == [snd EXCEPT !.err = e]
  <2>1. s \in SndRecords /\ s.noretry = snd.noretry
    BY <1>1
  <2>2. B_snd(s) \/ C_snd(s)
    BY <1>2
  <2> HIDE DEF s
  <2> QED
    BY <2>1, <2>2, MovesNoretry
<1>3. CASE GetDIS
  <2>1. [snd EXCEPT !.try = 0] \in SndRecords /\ [snd EXCEPT !.try = 0].noretry = snd.noretry
    BY <1>0 DEF SndRecords
  <2> QED
    BY <1>0, <1>3, <2>1, MovesNoretry, TrainNoretry DEF GetDIS
<1>4. CASE NoDIS
  BY <1>2, <1>4 DEF NoDIS
<1>5. CASE GetTraining
  <2>1. CASE snd.rate # 0 /\ D_2([snd EXCEPT !.rate = @ - 1])
    <3>1. snd.rate - 1 \in 0..(Rates - 1)
      BY <1>0, <2>1, RatesAssumption DEF SndRecords
    <3>2. /\ [snd EXCEPT !.rate = @ - 1] \in SndRecords
          /\ [snd EXCEPT !.rate = @ - 1].noretry = snd.noretry
      BY <1>0, <3>1 DEF SndRecords
    <3> QED
      BY <2>1, <3>2, MovesNoretry
  <2>2. CASE A(snd, "DIS") \/ I_2(snd)
    BY <1>0, <2>2, MovesNoretry, TrainNoretry
  <2> QED
    BY <1>2, <1>5, <2>1, <2>2 DEF GetTraining, C_timeout_snd
<1>6. CASE NoTraining
  BY <1>0, <1>2, <1>6, MovesNoretry DEF NoTraining, C_timeout_snd
<1>7. CASE GetAnswer
  <2> DEFINE f == Arriving("snd").frame
             s == AfterAnswer(f)
             t == [s EXCEPT !.try = 0]
  <2>1. s \in SndRecords /\ s.noretry = snd.noretry
    BY AfterAnswerType
  <2>2. t \in SndRecords /\ t.noretry = snd.noretry
    BY <2>1 DEF SndRecords
  <2>3. \/ C_snd([snd EXCEPT !.err = 3])
        \/ I(s) \/ D(s) \/ C_snd(s) \/ T(s) \/ A(t, f)
    BY <1>7 DEF GetAnswer, GoOn, E
  <2> HIDE DEF f, s, t
  <2> QED
    BY <1>2, <2>1, <2>2, <2>3, MovesNoretry, PageNoretry, TrainNoretry
<1>8. CASE NoAnswer
  BY <1>0, <1>2, <1>8 DEF NoAnswer, C_timeout_snd, SndRecords
<1> QED
  BY <1>3, <1>4, <1>5, <1>6, <1>7, <1>8 DEF Sender

LEMMA SavedByCaller ==
  ASSUME UNCHANGED <<files, missed>>, snd'.noretry = snd.noretry
  PROVE  savedPages' = savedPages
BY DEF savedPages, KeptSaved, SavedQualities, Kept, Has

\* A page is reported when the answer to it counts as a confirmation.
LEMMA SenderTransfers == TransferInv /\ Sender => PageStep
<1> SUFFICES ASSUME TransferInv, Sender PROVE PageStep
  OBVIOUS
<1>1. UNCHANGED <<rcv, files, missed>>
  BY DEF Sender, GetDIS, NoDIS, GetTraining, NoTraining, GetAnswer, NoAnswer, receiver
<1>2. savedPages' = savedPages
  BY <1>1, SenderNoretry, SavedByCaller
<1>3. CASE confirmed' = confirmed
  BY <1>1, <1>2, <1>3 DEF PageStep, transferred
<1>4. CASE GetAnswer /\ confirmed' # confirmed
  <2> DEFINE f == Arriving("snd").frame
  <2>1. snd.pc = "sendppm" /\ line["snd"] # <<>>
    BY <1>4 DEF GetAnswer
  <2>2. Counted(f) \in Confirmations /\ confirmed' = Append(confirmed, snd.page)
    BY <1>4 DEF GetAnswer, Sent
  <2>3. \A i \in DOMAIN confirmed : confirmed[i] < snd.page
    BY <2>1 DEF TransferInv, PagesOK, NextPage
  <2>4. ~snd.noretry => rcv.good
    BY <2>1, <2>2, Answered DEF Counted, TransferInv, AnswerOK
  <2>5. ~DataDue /\ ~Unheard
    BY <2>1, Answered, NotDue DEF Unheard
  <2>6. KeptGood(snd.page) => KeptSaved(snd.page)
    BY DEF KeptGood, KeptSaved, SavedQualities, Kept, Has
  <2>7. snd.page \in savedPages \cup missed
    BY <2>1, <2>4, <2>5, <2>6, SndTypes DEF TransferInv, DataOK, savedPages
  <2> QED
    BY <1>1, <1>2, <2>2, <2>3, <2>7, SndTypes, Reports
<1> QED
  BY <1>3, <1>4 DEF Sender, GetDIS, NoDIS, GetTraining, NoTraining, NoAnswer

\* Between pages no file changes, but one that has no page.
LEMMA ReceiverTidies ==
  ASSUME TransferInv, Receiver, ~GetPage
  PROVE  Tidied /\ UNCHANGED missed
<1>0. Types /\ UNCHANGED missed
  BY RcvTypes DEF Receiver, GetFirstCommand, NoFirstCommand, GetCommand,
     DataInsteadOfCommand, NoCommand, Train, GetTCFAsPage, NoPage, receiver
<1>1. CASE UNCHANGED files
  BY <1>0, <1>1, TidySame DEF Tidied
<1>2. CASE GetFirstCommand
  <2>1. rcv.pc = "R" /\ ~rcv.pending
    BY <1>2 DEF GetFirstCommand, TransferInv, FilesOK
  <2>2. CASE B_rcv(rcv, files)
    BY <1>0, <2>1, <2>2, HangUpFiles
  <2> QED
    BY <1>1, <1>2, <2>2 DEF GetFirstCommand, F_2
<1>3. CASE NoFirstCommand
  <2>1. rcv.pc = "R" /\ ~rcv.pending
    BY <1>3 DEF NoFirstCommand, TransferInv, FilesOK
  <2>2. [rcv EXCEPT !.err = 3].rxpage = rcv.rxpage
    BY RcvTypes DEF RcvRecords
  <2>3. CASE B_rcv([rcv EXCEPT !.err = 3], files)
    BY <1>0, <2>1, <2>2, <2>3, HangUpFiles
  <2> QED
    BY <1>1, <1>3, <2>3 DEF NoFirstCommand
<1>4. CASE GetCommand \/ DataInsteadOfCommand \/ NoCommand
  <2>1. rcv.pc = "F"
    BY <1>4 DEF GetCommand, DataInsteadOfCommand, NoCommand
  <2>2. /\ Done.rxpage = rcv.rxpage /\ [Done EXCEPT !.err = 3].rxpage = rcv.rxpage
    BY RcvTypes DEF Done, RcvRecords
  <2>3. CASE files' = Postponed
    BY <1>0, <2>1, <2>3, PostponedTidy DEF Tidied
  <2>4. CASE B_rcv(Done, Postponed) \/ B_rcv([Done EXCEPT !.err = 3], Postponed)
    BY <1>0, <2>1, <2>2, <2>4, HangUpFiles
  <2>5. CASE R(Done)
    <3>1. Tidy(wrpage(rcv.rxpage))
      BY <1>0, <2>1, RcvTypes, WrpageTidy
    <3>2. files' = wrpage(rcv.rxpage)
      BY <2>2, <2>5 DEF R
    <3> QED
      BY <1>0, <3>1, <3>2 DEF Tidied
  <2> QED
    BY <1>4, <2>3, <2>4, <2>5 DEF GetCommand, DataInsteadOfCommand, NoCommand, F_2
<1> QED
  BY <1>0, <1>1, <1>2, <1>3, <1>4 DEF Receiver, Train, GetTCFAsPage, NoPage, receiver

LEMMA ReceiverTransfers == TransferInv /\ Receiver => PageStep
<1> SUFFICES ASSUME TransferInv, Receiver PROVE PageStep
  OBVIOUS
<1>1. UNCHANGED <<snd, sends, confirmed>>
  BY DEF Receiver, GetFirstCommand, NoFirstCommand, GetCommand,
     DataInsteadOfCommand, NoCommand, Train, GetPage, GetTCFAsPage, NoPage, sender
<1>2. CASE ~GetPage
  <2>1. UNCHANGED missed /\ \A n : KeptSaved(n)' <=> KeptSaved(n)
    BY <1>1, <1>2, ReceiverTidies, TidiedKept
  <2>2. savedPages' = savedPages
    BY <2>1 DEF savedPages
  <2> QED
    BY <1>1, <2>1, <2>2 DEF PageStep, transferred
<1>3. CASE GetPage
  <2> DEFINE n == Arriving("rcv").page
  <2>1. /\ n \in Pages /\ Types /\ Len(files) > 0
        /\ SavedQualities \in SUBSET {"good", "bad"} /\ SavedQualities' = SavedQualities
    BY <1>1, <1>3, RcvTypes DEF GetPage, SavedQualities, TransferInv, FilesOK
  <2> HIDE DEF n
  <2>2. ASSUME NEW quality \in {"good", "bad", "cut"}, Write(Copy(n, quality))
        PROVE  savedPages' = IF quality \in SavedQualities THEN savedPages \cup {n}
                             ELSE savedPages
    <3> DEFINE copy == Copy(n, quality)
    <3>1. /\ copy \in Copies /\ copy.page = n /\ copy.quality = quality
          /\ Write(copy)
      BY <2>1, <2>2 DEF Copy, Copies
    <3> HIDE DEF copy
    <3>2. DOMAIN files' = DOMAIN files /\ Len(files) \in DOMAIN files
      BY <2>1, <3>1, Written DEF Types
    <3>3. ASSUME NEW m
          PROVE  KeptSaved(m)' <=> KeptSaved(m) \/ (m = n /\ quality \in SavedQualities)
      <4>1. \A i \in DOMAIN files :
              Has(files'[i], m, SavedQualities)
                <=> \/ Has(files[i], m, SavedQualities)
                    \/ i = Len(files) /\ n = m /\ quality \in SavedQualities
        BY <2>1, <3>1, Written
      <4>2. KeptSaved(m)' <=> \E i \in DOMAIN files' : Has(files'[i], m, SavedQualities)
        BY <2>1 DEF KeptSaved, Kept
      <4>3. KeptSaved(m) <=> \E i \in DOMAIN files : Has(files[i], m, SavedQualities)
        BY DEF KeptSaved, Kept
      <4> QED
        BY <3>2, <4>1, <4>2, <4>3
    <3>4. savedPages' = {m \in Pages : KeptSaved(m)'}
      BY DEF savedPages
    <3> QED
      BY <2>1, <3>3, <3>4 DEF savedPages
  <2>3. ASSUME NEW good \in BOOLEAN, Saved(n, good), UNCHANGED missed
        PROVE  PageStep
    <3>1. savedPages' = savedPages \cup {n} \/ savedPages' = savedPages
      BY <2>2, <2>3 DEF Saved
    <3> QED
      BY <1>1, <2>1, <2>3, <3>1, Saves DEF PageStep, transferred
  <2>4. CASE Write(Copy(n, "cut")) /\ missed' = missed \cup {n}
    <3>1. savedPages' = savedPages
      BY <2>1, <2>2, <2>4
    <3> QED
      BY <1>1, <2>1, <2>4, <3>1, Loses
  <2> QED
    BY <1>3, <2>3, <2>4 DEF GetPage, n
<1> QED
  BY <1>2, <1>3

LEMMA LoseTransfers == TransferInv /\ (Lose("snd") \/ Lose("rcv")) => PageStep
<1> SUFFICES ASSUME TransferInv, NEW p \in Ends, Lose(p) PROVE PageStep
  BY SndEnds
<1>1. UNCHANGED <<snd, confirmed, files>>
  BY DEF Lose, sender
<1>2. savedPages' = savedPages
  BY <1>1 DEF savedPages, KeptSaved, SavedQualities, Kept, Has
<1>3. CASE Arriving(p).page \in Pages
  <2>1. missed' = missed \cup {Arriving(p).page}
    BY <1>3 DEF Lose
  <2> QED
    BY <1>1, <1>2, <1>3, <2>1, Loses
<1>4. CASE Arriving(p).page \notin Pages
  <2>1. missed' = missed
    BY <1>4 DEF Lose
  <2> QED
    BY <1>1, <1>2, <2>1 DEF PageStep, transferred
<1> QED
  BY <1>3, <1>4

LEMMA TransferInitMaps == Init => Transfer!Init
<1> SUFFICES ASSUME Init PROVE Transfer!Init
  OBVIOUS
<1>1. files = << <<>> >> /\ missed = {} /\ confirmed = <<>>
  BY DEF Init
<1>2. DOMAIN files = {1} /\ DOMAIN files[1] = {}
  BY <1>1
<1>3. \A n, Q : ~Kept(n, Q)
  BY <1>2 DEF Kept, Has
<1> QED
  BY <1>1, <1>3 DEF Transfer!Init

LEMMA TransferStepMaps == TransferInv /\ [Next]_vars => PageStep
<1> SUFFICES ASSUME TransferInv, [Next]_vars PROVE PageStep
  OBVIOUS
<1>1. CASE UNCHANGED vars
  <2>1. UNCHANGED <<snd, files, missed, confirmed>>
    BY <1>1 DEF vars
  <2>2. savedPages' = savedPages
    BY <2>1, SavedByCaller
  <2> QED
    BY <2>1, <2>2 DEF PageStep, transferred
<1> QED
  BY <1>1, SenderTransfers, ReceiverTransfers, LoseTransfers DEF Next, HungUp

(***************************************************************************)
(* A session of efax is one of PageTransfer, whatever the line loses:      *)
(* pages are reported as sent in their order, and only those the other     *)
(* machine has or whose data did not reach it.                             *)
(***************************************************************************)
THEOREM TransferImplemented == Spec => ImplementsPageTransfer
<1>1. PageStep => [Transfer!Next]_transferred
  BY DEF PageStep
<1> QED
  BY <1>1, TransferInitMaps, TransferStepMaps, TransferCorrect, PTL
    DEF Spec, ImplementsPageTransfer, Transfer!Spec, transferred, savedPages,
        KeptSaved, SavedQualities
=============================================================================
