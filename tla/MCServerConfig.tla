--------------------------- MODULE MCServerConfig ---------------------------
(***************************************************************************)
(* A small instance of ServerConfig: two keys, two networks, IPv6 off or   *)
(* on one of the ports, one goroutine that reloads and two PUT handlers.   *)
(***************************************************************************)
EXTENDS ServerConfig, TLC

CONSTANTS k1, n1

BootConfig == [key |-> k1, net |-> n1, port6 |-> NoPort]

Symmetry == Permutations(Ports6) \cup Permutations(Editors)
=============================================================================
