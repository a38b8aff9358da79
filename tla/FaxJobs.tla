------------------------------ MODULE FaxJobs ------------------------------
(***************************************************************************)
(* What efax-gtk promises of the faxes it is asked to send (README,        *)
(* Sending faxes and Automatic redialing): a fax is sent, or waits to be   *)
(* sent again, or has come to an end for one reason and stays there; and   *)
(* never is more than one being sent.                                      *)
(***************************************************************************)
CONSTANT Faxes

VARIABLE job  \* the faxes, by what has become of them

Ends == {"sent", "failed", "not_made", "refused", "removed", "cancelled",
         "no_thread", "closed"}

Init == job = [f \in Faxes |-> "new"]

LineFree == \A f \in Faxes : job[f] # "sending"

\* The user presses Send.
Submit(f) ==
  /\ job[f] = "new"
  /\ \/ LineFree /\ job' = [job EXCEPT ![f] = "sending"]
     \/ \E s \in {"waiting", "refused", "no_thread"} :
          job' = [job EXCEPT ![f] = s]

\* The redial interval of a waiting fax is over.
Redial(f) ==
  /\ job[f] = "waiting"
  /\ LineFree
  /\ job' \in {[job EXCEPT ![f] = "sending"], [job EXCEPT ![f] = "no_thread"]}

\* The user takes it off the queue, or turns redialling off.
Withdraw(f) ==
  /\ job[f] = "waiting"
  /\ job' \in {[job EXCEPT ![f] = "removed"], [job EXCEPT ![f] = "cancelled"]}

\* The attempt is over: for good, or until the next one.
Finish(f) ==
  /\ job[f] = "sending"
  /\ \E s \in {"sent", "failed", "not_made", "no_thread", "closed", "waiting"} :
       job' = [job EXCEPT ![f] = s]

Next == \E f \in Faxes : Submit(f) \/ Redial(f) \/ Withdraw(f) \/ Finish(f)

Spec == Init /\ [][Next]_job
=============================================================================
