---------------------------- MODULE MCRemotePush ----------------------------
(* Small instances of RemotePush. *)
EXTENDS RemotePush, TLC

Symmetric == Permutations(Client)
=============================================================================
