-------------------------- MODULE MCEfaxController --------------------------
(* Instances of EfaxController for TLC. *)
EXTENDS EfaxJobs, TLC

\* Worker threads, pids and fax requests of a kind are interchangeable.
Symmetry ==
  Permutations(Workers) \cup Permutations(Pids) \cup Permutations(SocketFaxes)
    \cup Permutations(Faxes \ SocketFaxes)
=============================================================================
