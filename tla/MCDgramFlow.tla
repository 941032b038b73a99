----------------------------- MODULE MCDgramFlow -----------------------------
(***************************************************************************)
(* Small instances of DgramFlow.                                           *)
(***************************************************************************)
EXTENDS DgramFlow, TLC

Symmetry == Permutations(Keys) \cup Permutations(Callers) \cup
            Permutations(Streams) \cup Permutations(Sessions)
=============================================================================
