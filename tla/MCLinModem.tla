----------------------------- MODULE MCLinModem -----------------------------
(* LinModem for TLC. *)
EXTENDS LinModem

\* Both modulations in both modems, one modem with the worse only, and
\* modems with none in common.
MCChoices ==
  {<<{"V21", "V23"}, {"V21", "V23"}>>, <<{"V21", "V23"}, {"V21"}>>,
   <<{"V21"}, {"V23"}>>}

\* One modem calls, or hangs up in the same batch of lines, and the other one
\* answers.
MCTyped == <<{"ATD", "ATH"}, {"ATA"}>>
MCMaxTyped == <<2, 1>>
=============================================================================
