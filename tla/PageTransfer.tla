---------------------------- MODULE PageTransfer ----------------------------
(***************************************************************************)
(* What a fax session promises of its pages: the caller reports pages as   *)
(* sent in their order, each at most once, and none that the other machine *)
(* has not taken; what it has taken it keeps.  A page can be taken that    *)
(* the other machine was sent and did not get.                             *)
(***************************************************************************)
EXTENDS Integers, Sequences

CONSTANT Pages

VARIABLES
  saved,     \* the pages that the other machine has in its files
  lost,      \* the pages of which a transmission did not get through
  reported   \* the pages the caller has reported as sent

Init == saved = {} /\ lost = {} /\ reported = <<>>

Save(n) == saved' = saved \cup {n} /\ UNCHANGED <<lost, reported>>

LosePage(n) == lost' = lost \cup {n} /\ UNCHANGED <<saved, reported>>

Report(n) ==
  /\ n \in saved \cup lost
  /\ \A i \in DOMAIN reported : reported[i] < n
  /\ reported' = Append(reported, n)
  /\ UNCHANGED <<saved, lost>>

Next == \E n \in Pages : Save(n) \/ LosePage(n) \/ Report(n)

Spec == Init /\ [][Next]_<<saved, lost, reported>>
=============================================================================
