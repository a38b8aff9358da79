---------------------------- MODULE MCEfaxClass1 ----------------------------
(* EfaxClass1 for TLC. *)
EXTENDS EfaxClass1

\* Two pages of one resolution and one of another: MPS, EOM and EOP
MCRes == <<98, 98, 196>>

\* A page between two of another resolution: EOM, EOM and EOP
MCRes3 == <<98, 196, 98>>
=============================================================================
