-------------------------- MODULE MCClientServices --------------------------
(***************************************************************************)
(* Small instances of ClientServices: all services or all but the range,   *)
(* and the listeners that are waited for or the one that is not.           *)
(***************************************************************************)
EXTENDS ClientServices, TLC

CONSTANTS c1, c2

AllThenNoRange == c1 :> Services @@ c2 :> Services \ {"range"}
WaitedThenSocks == c1 :> {"forward", "range"} @@ c2 :> {"socks5"}
=============================================================================
