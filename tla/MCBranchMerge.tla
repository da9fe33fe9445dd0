--------------------------- MODULE MCBranchMerge ---------------------------
(* Small instances of BranchMerge. *)
EXTENDS BranchMerge

\* Two edge blocks with the same ends.
MCSrc == <<1, 1>>
MCDst == <<2, 2>>
=============================================================================
