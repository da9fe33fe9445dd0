------------------------------ MODULE MCRevert ------------------------------
(***************************************************************************)
(* Small instances of Revert, with the diff of ProllyTree.                 *)
(***************************************************************************)
EXTENDS Revert, SequencesExt

CONSTANTS MinEntries, MaxEntries, Below(_, _)    \* of ProllyTree

P(h) == INSTANCE ProllyTree WITH hash <- h, from <- <<>>, to <- <<>>, cursor <- <<>>, MaxEdits <- 0

MCChanges(h, a, b) == P(h)!Diff(P(h)!Build(a), P(h)!Build(b))

\* As in MCProllyTree.
MCBelow(h, w) ==
    FoldLeft(LAMBDA acc, k : (acc * 3 + k * h + 1) % 7, h, w) < 3

\* A loop, and edges between two nodes.
MCEnds == <<{1}, {1, 2}>>

\* The diff of trees of one leaf each is exact.
ASSUME OneLeafAssumption == Cardinality(Key \cup EdgeKey) < MinEntries => Exact
=============================================================================
