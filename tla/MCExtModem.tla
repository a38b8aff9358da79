----------------------------- MODULE MCExtModem -----------------------------
(* ExtModem for TLC. *)
EXTENDS ExtModem
=============================================================================
