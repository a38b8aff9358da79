------------------------------ MODULE EfaxJobs ------------------------------
(***************************************************************************)
(* The controller implements FaxJobs: a fax is being sent while a send     *)
(* session is for it, and waits while its timer is in the redial queue.    *)
(***************************************************************************)
EXTENDS EfaxController

JobOf(f) == IF outcome[f] # "pending" THEN outcome[f]
            ELSE IF Sending(f) THEN "sending" ELSE "waiting"

Jobs == INSTANCE FaxJobs WITH job <- [f \in Faxes |-> JobOf(f)]

(***************************************************************************)
(* Whatever interleaves, each handler of the controller moves one fax on   *)
(* as the README says, or none: it is never sent beside another one, after *)
(* its end, or again without having waited in the redial queue.            *)
(***************************************************************************)
ImplementsFaxJobs == Jobs!Spec
=============================================================================
