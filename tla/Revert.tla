------------------------------- MODULE Revert -------------------------------
(***************************************************************************)
(* Taking an operation back: mnem revert and POST /v1/revert compute what  *)
(* an operation of the log changed, with the diff of the chunked trees,    *)
(* and commit the inverse on top of the newest version.                    *)
(*                                                                         *)
(* Sources: mnem-http/src/handlers.rs (find_op_and_parent, post_revert),   *)
(* mnem-cli/src/commands/deferred.rs (the same two); what others commit is *)
(* that of mnem-core/src/repo/transaction.rs.                              *)
(*                                                                         *)
(* The log is the chain of first parents of the newest operation, which is *)
(* all that find_op_and_parent visits.  HttpServer has the gap between the *)
(* commit of a revert and its handle being put in place.                   *)
(***************************************************************************)
EXTENDS GraphTrees, Sequences

CONSTANTS Key, Value,              \* node ids and node blocks, positive numbers
          EdgeKey, EdgeBlock, Ends,    \* edge ids and blocks, positive numbers; the ends of a block
          Hashes,                  \* the hash functions that may cut the trees into chunks
          Changes(_, _, _),        \* Changes(h, a, b): the diff of trees a and b cut by h
          MaxLog                   \* bound: versions

VARIABLES hash,   \* the hash function in use
          log     \* the versions; each says which one it reverts, 0 for none

revertVars == <<hash, log>>

EmptyTree == [k \in {} |-> 0]

Empty == [nodes |-> EmptyTree, edges |-> EmptyTree, tombs |-> {}, reverts |-> 0]

Newest == log[Len(log)]

(***************************************************************************)
(* A diff is a sequence of changes <<key, before, after>>, 0 for no block. *)
(* It is honest if it reports blocks that are there, and exact if it       *)
(* names every key on which the trees differ once, and no other key.       *)
(***************************************************************************)
BlockAt(t, k) == IF k \in DOMAIN t THEN t[k] ELSE 0

HonestDiff(s, a, b) ==
    \A p \in DOMAIN s :
        /\ p \in Nat /\ s[p][1] \in DOMAIN a \cup DOMAIN b
        /\ s[p][2] \in {0, BlockAt(a, s[p][1])} /\ s[p][3] \in {0, BlockAt(b, s[p][1])}

ExactDiff(s, a, b) ==
    /\ \A p \in DOMAIN s : s[p][2] = BlockAt(a, s[p][1]) /\ s[p][3] = BlockAt(b, s[p][1])
    /\ \A p, q \in DOMAIN s : s[p][1] = s[q][1] => p = q
    /\ \A k \in DOMAIN a \cup DOMAIN b :
          BlockAt(a, k) # BlockAt(b, k) <=> \E p \in DOMAIN s : s[p][1] = k

Exact ==
    \A h \in Hashes :
        /\ \A a, b \in Tree(Key, Value) : ExactDiff(Changes(h, a, b), a, b)
        /\ \A a, b \in Tree(EdgeKey, EdgeBlock) : ExactDiff(Changes(h, a, b), a, b)

ASSUME BlockAssumption == 0 \notin Value \cup EdgeBlock

\* Every diff of the chunked trees is honest; not every one is exact.
ASSUME HonestAssumption ==
    \A h \in Hashes :
        /\ \A a, b \in Tree(Key, Value) : HonestDiff(Changes(h, a, b), a, b)
        /\ \A a, b \in Tree(EdgeKey, EdgeBlock) : HonestDiff(Changes(h, a, b), a, b)

-----------------------------------------------------------------------------
EndsIn(edges, nodes) == \A e \in DOMAIN edges : Ends[edges[e]] \subseteq nodes

At(edges, n) == {e \in DOMAIN edges : n \in Ends[edges[e]]}

-----------------------------------------------------------------------------
(***************************************************************************)
(* What is staged in a transaction, as in Transaction: the last call about *)
(* an id counts, and a node is removed with its edges.                     *)
(***************************************************************************)
NothingStaged ==
    [new |-> EmptyTree, removed |-> {}, newEdges |-> EmptyTree, removedEdges |-> {}]

WithNode(t, n, v) ==
    [t EXCEPT !.new = Rebuild(t.new, [k \in {n} |-> v], {}), !.removed = @ \ {n}]

WithoutNode(t, n, base) ==
    LET gone == At(base.edges, n) \cup At(t.newEdges, n) IN
    [t EXCEPT !.new = Rebuild(t.new, EmptyTree, {n}), !.removed = @ \cup {n},
              !.newEdges = Rebuild(t.newEdges, EmptyTree, gone), !.removedEdges = @ \cup gone]

WithEdge(t, e, b) ==
    [t EXCEPT !.newEdges = Rebuild(t.newEdges, [k \in {e} |-> b], {}), !.removedEdges = @ \ {e}]

WithoutEdge(t, e) ==
    [t EXCEPT !.newEdges = Rebuild(t.newEdges, EmptyTree, {e}), !.removedEdges = @ \cup {e}]

Stored(base, t, tombs, i) ==
    [nodes |-> Rebuild(base.nodes, t.new, t.removed),
     edges |-> Rebuild(base.edges, t.newEdges, t.removedEdges), tombs |-> tombs, reverts |-> i]

Checked(base, t) == EndsIn(t.newEdges, (DOMAIN base.nodes \cup DOMAIN t.new) \ t.removed)

-----------------------------------------------------------------------------
(***************************************************************************)
(* The calls of a revert.  What was added is removed if it is there, what  *)
(* was removed is added if it is not, and what was changed is set back     *)
(* whatever it is now, unless it is what it was.                           *)
(***************************************************************************)
\* Mutated form: a changed node that is there stays as it is.
NodeDueIfGone(c, nodes) ==
    IF c[2] = 0 THEN c[1] \in DOMAIN nodes ELSE c[1] \notin DOMAIN nodes

NodeDue(c, nodes) ==
    IF c[2] = 0 THEN c[1] \in DOMAIN nodes
    ELSE c[1] \in DOMAIN nodes => c[3] # 0 /\ nodes[c[1]] # c[2]

\* Mutated form: an edge that was added is removed even if it is gone.
EdgeDueGone(c, edges) ==
    c[2] # 0 /\ c[1] \in DOMAIN edges => c[3] # 0 /\ edges[c[1]] # c[2]

EdgeDue(c, edges) ==
    IF c[2] = 0 THEN c[1] \in DOMAIN edges
    ELSE c[1] \in DOMAIN edges => c[3] # 0 /\ edges[c[1]] # c[2]

\* The positions of the changes that lead to a call.
NodeCalls(changes, nodes) == {p \in DOMAIN changes : NodeDue(changes[p], nodes)}

EdgeCalls(changes, edges) == {p \in DOMAIN changes : EdgeDue(changes[p], edges)}

\* Of the changes at the positions P, the last about each key.
Final(changes, P) ==
    {changes[p] : p \in {p \in P : \A q \in P : changes[q][1] = changes[p][1] => q <= p}}

Keys(C) == {c[1] : c \in C}

Additions(C) == {c \in C : c[2] # 0}

Removals(C) == {c \in C : c[2] = 0}

Befores(C) == [k \in Keys(C) |-> (CHOOSE c \in C : c[1] = k)[2]]

\* The transaction that takes the changes back, on top of base.
Reversal(nodeChanges, edgeChanges, base) ==
    LET P     == NodeCalls(nodeChanges, base.nodes)
        nodes == Final(nodeChanges, P)
        edges == Final(edgeChanges, EdgeCalls(edgeChanges, base.edges))
        gone  == UNION {At(base.edges, k) : k \in Keys(Removals({nodeChanges[p] : p \in P}))}
    IN  [new |-> Befores(Additions(nodes)), removed |-> Keys(Removals(nodes)),
         newEdges |-> Befores(Additions(edges)),
         removedEdges |-> (gone \cup Keys(Removals(edges))) \ Keys(Additions(edges))]

\* Every edge to be added again has its ends, and they are not tombstoned.
EndsAlive(changes, base) ==
    \A p \in DOMAIN changes :
        changes[p][3] = 0 => Ends[changes[p][2]] \subseteq DOMAIN base.nodes \ base.tombs

-----------------------------------------------------------------------------
\* Mutated form: the comparison is with the newest version.
NodeChangesSince(i) == Changes(hash, log[i - 1].nodes, Newest.nodes)

NodeChanges(i) == Changes(hash, log[i - 1].nodes, log[i].nodes)

EdgeChanges(i) == Changes(hash, log[i - 1].edges, log[i].edges)

InverseOf(i, base) == Reversal(NodeChanges(i), EdgeChanges(i), base)

\* Tombstones that version i set; those that it took away are not looked for.
Buried(i) == log[i].tombs \ log[i - 1].tombs

\* Mutated form: the edges to be added again are not looked at.
RefusedLate(i, base) == ~ Checked(base, InverseOf(i, base))

\* The revert fails, before or in its commit.
Refused(i, base) == ~ EndsAlive(EdgeChanges(i), base) \/ ~ Checked(base, InverseOf(i, base))

\* All changes are taken back already, or there were none.
Noop(i, base) ==
    /\ NodeCalls(NodeChanges(i), base.nodes) = {} /\ EdgeCalls(EdgeChanges(i), base.edges) = {}
    /\ Buried(i) \cap base.tombs = {}

\* Version 1 is that of the operation that made the repository: it has no commit.
Revert(i) ==
    LET base == Newest IN
    /\ i \in 2..Len(log) /\ Len(log) < MaxLog
    /\ ~ Refused(i, base) /\ ~ Noop(i, base)
    /\ log' = Append(log, Stored(base, InverseOf(i, base), base.tombs \ Buried(i), i))
    /\ UNCHANGED hash

-----------------------------------------------------------------------------
\* What one call of a transaction makes of a version.
Called(b) ==
    (UNION {{Stored(b, WithNode(NothingStaged, n, v), b.tombs, 0) : v \in Value} : n \in Key})
      \cup {Stored(b, WithoutNode(NothingStaged, n, b), b.tombs, 0) : n \in DOMAIN b.nodes}
      \cup {Stored(b, WithoutEdge(NothingStaged, e), b.tombs, 0) : e \in DOMAIN b.edges}
      \cup {[b EXCEPT !.tombs = @ \cup {n}, !.reverts = 0] : n \in DOMAIN b.nodes}
      \cup UNION {{Stored(b, WithEdge(NothingStaged, e, x), b.tombs, 0) :
                     x \in {y \in EdgeBlock : Ends[y] \subseteq DOMAIN b.nodes}} : e \in EdgeKey}

\* Somebody commits a transaction of one call or two.
Write ==
    /\ Len(log) < MaxLog
    /\ \E b \in Called(Newest) : \E c \in {b} \cup Called(b) : log' = Append(log, c)
    /\ UNCHANGED hash

\* The nodes of the first commit come in one transaction.
RevertInit ==
    /\ hash \in Hashes
    /\ \E S \in SUBSET Key, v \in Value : log = <<Empty, [Empty EXCEPT !.nodes = [k \in S |-> v]]>>

RevertNext == Write \/ \E i \in DOMAIN log : Revert(i)

RevertSpec == RevertInit /\ [][RevertNext]_revertVars
-----------------------------------------------------------------------------
(***************************************************************************)
(* Properties.                                                             *)
(***************************************************************************)
Reverting == {j \in DOMAIN log : log[j].reverts # 0}

(***************************************************************************)
(* "Revert an op's changes by creating a new inverse commit"               *)
(* (mnem-cli/src/main.rs): the revert of the newest version restores the   *)
(* nodes and edges of the one before, and its tombstones unless the        *)
(* version had taken some away.                                            *)
(***************************************************************************)
RevertUndoes ==
    \A j \in Reverting :
        LET i == log[j].reverts IN
        i = j - 1 =>
            /\ log[j].nodes = log[i - 1].nodes /\ log[j].edges = log[i - 1].edges
            /\ log[i - 1].tombs \subseteq log[i].tombs => log[j].tombs = log[i - 1].tombs

Same(f, g, k) == (k \in DOMAIN f <=> k \in DOMAIN g) /\ (k \in DOMAIN f => f[k] = g[k])

(***************************************************************************)
(* A revert, of however old a version, keeps every node that the version   *)
(* did not change, and every edge that it did not change as long as both   *)
(* ends are still there (post_revert, run_revert).                         *)
(***************************************************************************)
OthersKept ==
    \A j \in Reverting :
        LET i == log[j].reverts IN
        /\ \A n \in Key : Same(log[i - 1].nodes, log[i].nodes, n)
                              => Same(log[j - 1].nodes, log[j].nodes, n)
        /\ \A e \in DOMAIN log[j - 1].edges :
               (Same(log[i - 1].edges, log[i].edges, e)
                 /\ Ends[log[j - 1].edges[e]] \subseteq DOMAIN log[j].nodes)
                   => Same(log[j - 1].edges, log[j].edges, e)

(***************************************************************************)
(* No revert leaves an edge without an end, or puts an edge that its       *)
(* version had removed back at a tombstoned node: the ends may have gone   *)
(* since (the pre-flight check and commit_opts).  An edge that the version *)
(* had only changed escapes the pre-flight check (README, Disagreements).  *)
(***************************************************************************)
NoEdgeRevived ==
    \A j \in Reverting :
        /\ EndsIn(log[j].edges, DOMAIN log[j].nodes)
        /\ \A e \in DOMAIN log[j].edges \ (DOMAIN log[j - 1].edges \cup DOMAIN log[log[j].reverts].edges) :
               Ends[log[j].edges[e]] \cap log[j - 1].tombs = {}

(***************************************************************************)
(* A second revert of the newest version, right after the first, finds     *)
(* nothing to do ("the op may have already been reverted").                *)
(***************************************************************************)
SecondFindsNothing ==
    \A i \in DOMAIN log :
        (i > 1 /\ i = Len(log) - 1 /\ Newest.reverts = i) => Noop(i, Newest)
=============================================================================
