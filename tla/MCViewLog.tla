----------------------------- MODULE MCViewLog -----------------------------
(* Small instances of ViewLog. *)
EXTENDS ViewLog, TLC

Symmetric == Permutations(Proc) \cup Permutations(Node)
=============================================================================
