----------------------------- MODULE MCSSManager -----------------------------
(* TLC symmetry for SSManager: callers and sessions are interchangeable.    *)
EXTENDS SSManager, TLC

Symmetry == Permutations(Callers) \cup Permutations(Sessions)
=============================================================================
