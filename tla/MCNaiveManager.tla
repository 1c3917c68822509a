--------------------------- MODULE MCNaiveManager ---------------------------
(* Values of the constants of NaiveManager for TLC.                         *)
EXTENDS NaiveManager, TLC

CONSTANTS k1, k2, s1, s2

OneKey  == [k \in {k1} |-> s1]
TwoSnis == (k1 :> s1) @@ (k2 :> s2)

Symmetry == Permutations(Insts) \cup Permutations(Procs) \cup Permutations(Callers)
=============================================================================
