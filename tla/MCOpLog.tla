------------------------------ MODULE MCOpLog ------------------------------
(* Small instances of OpLog. *)
EXTENDS OpLog, TLC

Symmetric == Permutations(Proc)
=============================================================================
