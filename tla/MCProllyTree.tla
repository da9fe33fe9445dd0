---------------------------- MODULE MCProllyTree ----------------------------
(* Small instances of ProllyTree. *)
EXTENDS ProllyTree

\* Hash functions that depend on every key of the window and on its length.
MCBelow(h, w) ==
    FoldLeft(LAMBDA acc, k : (acc * 3 + k * h + 1) % 7, h, w) < 3
=============================================================================
