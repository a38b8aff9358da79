----------------------------- MODULE MCAfskLink -----------------------------
(* AfskLink for TLC: a station with delays that cover the buffers, or one with    *)
(* delays as short against the buffers as the defaults are.                       *)
EXTENDS AfskLink

\* A byte of ones, which is stuffed, a packet with the CRC 0, and one too long for
\* the other station with flags in it
MCFrames == {<<255>>, <<222, 12>>, <<126, 31, 126>>}

VARIABLE covered

Short == INSTANCE AfskLink WITH TxDelay <- 1, TxTail <- 1

ASSUME DelaysCover /\ ~Short!DelaysCover

MCInit == Init /\ covered \in BOOLEAN

MCNext ==
  \/ covered /\ Next /\ UNCHANGED covered
  \/ ~covered /\ Short!Next /\ UNCHANGED covered

MCSpec == MCInit /\ [][MCNext]_<<vars, covered>>

(***************************************************************************)
(* Packets are heard in order, and with delays that cover the buffers all  *)
(* of them are (output_callback() keys the transmitter by what it fills,   *)
(* not by what is played).                                                 *)
(***************************************************************************)
HeardAsConfigured == HeardInOrder /\ (covered => HeardAsSent)
=============================================================================
