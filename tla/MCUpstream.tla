----------------------------- MODULE MCUpstream -----------------------------
(***************************************************************************)
(* Small instances of Upstream with upstreams a and b.  The configuration  *)
(* g1 of a reload keeps the only upstream a, or drops a and has two        *)
(* endpoints of the name b.                                                *)
(***************************************************************************)
EXTENDS Upstream, TLC

CONSTANTS a, b, g0, g1, Fail, Recover

OneName == (g0 :> <<a>>)
DropA == (g0 :> <<a, b>> @@ g1 :> <<b, b>>)
SameA == (g0 :> <<a>> @@ g1 :> <<a>>)

FailConst == [c \in Configs |-> Fail]
RecoverConst == [c \in Configs |-> Recover]

\* The reload also changes the strategy.
StratMixed == [c \in Configs |-> IF c = g0 THEN "failover" ELSE "balanced"]

Symmetry == Permutations(Pools) \cup Permutations(Workers)
=============================================================================
