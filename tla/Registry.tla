------------------------------ MODULE Registry ------------------------------
(***************************************************************************)
(* What the upstream manager promises to its callers about tunnel pools,   *)
(* without goroutines, locks or health checks.  Every name is served by at *)
(* most one pool.  A pool is free, then a spare that was dialed and serves *)
(* nobody yet, then it serves one name, then it is retired until it is     *)
(* closed and free again: a pool that serves is never closed under its     *)
(* callers, except all at once when the manager shuts down, and a pool     *)
(* that was replaced never serves again.                                   *)
(***************************************************************************)
CONSTANTS Names, Pools, NoPool

VARIABLES
    serving,  \* serving[n]: the pool that streams to n are opened on
    stage     \* stage[p]: where the pool is in its life

vars == <<serving, stage>>

Stages == {"free", "spare", "serving", "retired"}

\* The pools that serve somebody.
Users(S) == {S[n] : n \in Names} \ {NoPool}

Init ==
    /\ serving = [n \in Names |-> NoPool]
    /\ stage = [p \in Pools |-> "free"]

\* Pools that serve nobody are dialed, discarded, put aside and closed.
Age ==
    /\ UNCHANGED serving
    /\ stage' \in [Pools -> Stages]
    /\ \A p \in Pools :
          \/ stage'[p] = stage[p]
          \/ <<stage[p], stage'[p]>> \in {<<"free", "spare">>, <<"spare", "retired">>,
                                        <<"spare", "free">>, <<"retired", "free">>}

\* A spare takes the place of the pool of one name.
Install(n, p) ==
    /\ serving[n] # NoPool
    /\ stage[p] = "spare"
    /\ serving' = [serving EXCEPT ![n] = p]
    /\ stage' = [stage EXCEPT ![serving[n]] = "retired", ![p] = "serving"]

\* Every name gets a spare of its own, or none, in one step.
Replace ==
    /\ serving' \in [Names -> {p \in Pools : stage[p] = "spare"} \cup {NoPool}]
    /\ \A m, n \in Names : serving'[m] = serving'[n] => m = n \/ serving'[m] = NoPool
    /\ stage' = [p \in Pools |->
                    IF p \in Users(serving') THEN "serving"
                    ELSE IF stage[p] = "serving" THEN "retired" ELSE stage[p]]

Shutdown ==
    /\ serving' = [n \in Names |-> NoPool]
    /\ stage' = [p \in Pools |-> IF stage[p] = "serving" THEN "free" ELSE stage[p]]

Next ==
    \/ Age
    \/ \E n \in Names, p \in Pools : Install(n, p)
    \/ Replace
    \/ Shutdown

Spec == Init /\ [][Next]_vars
=============================================================================
