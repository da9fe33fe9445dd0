--------------------------- MODULE MCTransaction ---------------------------
(* Small instances of Transaction. *)
EXTENDS Transaction

\* Edge blocks: from 1 to 2, from 2 to 1.
MCSrc == <<1, 2>>
MCDst == <<2, 1>>
=============================================================================
