--------------------------- MODULE MCSocketServer ---------------------------
(***************************************************************************)
(* SocketServer with a small number of print jobs and two settings of the  *)
(* server's address.                                                       *)
(***************************************************************************)
EXTENDS SocketServer, TLC

CONSTANTS p1, p2

MCPorts == {p1, p2}

\* The settings the user goes to and fro between.
MCConfigs == {[on |-> TRUE, port |-> p1], [on |-> TRUE, port |-> p2],
              [on |-> FALSE, port |-> p1]}

\* The server is always configured, on one port.
MCAlwaysOn == {[on |-> TRUE, port |-> p1]}

Symmetry == Permutations(Jobs)
=============================================================================
