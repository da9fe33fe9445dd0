---------------------------- MODULE Transaction ----------------------------
(***************************************************************************)
(* Transactions on the graph of a mnem repository, the indexes and         *)
(* embeddings that a commit stores with it, and the merge of versions that *)
(* were committed side by side.                                            *)
(*                                                                         *)
(* Source: mnem-core/src/repo/transaction.rs; repo/merge.rs                *)
(* (build_merge_commit); index/resolve.rs (lookup_by_prop).                *)
(*                                                                         *)
(* A version is an operation with its commit and the tombstones of its     *)
(* view; OpLog and ViewLog are about which versions there are.  A          *)
(* transaction keeps what it stages in memory and reads only the version   *)
(* it is based on, which may be any: transactions meet when versions are   *)
(* merged.                                                                 *)
(***************************************************************************)
EXTENDS GraphTrees, Sequences

CONSTANTS NodeId, Value, EdgeId, EdgeBlock, Src, Dst, Writer,
          MaxVersions, MaxCalls    \* bounds: versions stored (one more if it is a merge),
                                     \* calls of each writer that are committed

\* Ids and hashes have a fixed width, so that there are finitely many.
ASSUME GraphAssumption == /\ NodeId \cup Value \cup EdgeId \cup EdgeBlock \subseteq Nat
                          /\ IsFiniteSet(NodeId \cup Value \cup EdgeId \cup EdgeBlock)
                          /\ Src \in [EdgeBlock -> NodeId]
                          /\ Dst \in [EdgeBlock -> NodeId]

ASSUME BoundAssumption == MaxVersions \in Nat /\ MaxCalls \in Nat

VARIABLES version,  \* the versions, in the order they were stored
          heads,    \* those that are op-heads
          tx        \* the transaction of each writer

txVars == <<version, heads, tx>>

EmptyTree == [k \in {} |-> 0]

Single(k, v) == [x \in {k} |-> v]

NodeCids == NodeId \X Value

Version == [parents : SUBSET Nat, nodes : Tree(NodeId, Value), edges : Tree(EdgeId, EdgeBlock),
            index : [label : Tree(NodeId, Value), prop : Tree(Value, NodeId),
                     adjacent : Tree(EdgeId, EdgeBlock)],
            tombs : SUBSET NodeId,
            embedded : SUBSET NodeCids,     \* node blocks with an entry in the sidecar
            disputed : [nodes : SUBSET NodeId, edges : SUBSET EdgeId]]

(***************************************************************************)
(* Staged: additions and removals of nodes and edges, tombstones set and   *)
(* taken away, embeddings; pending finds added nodes by value; answer is   *)
(* what the last call returned, when that was a node id.                   *)
(***************************************************************************)
Tx == [base : Nat, new : Tree(NodeId, Value), removed : SUBSET NodeId,
       newEdges : Tree(EdgeId, EdgeBlock), removedEdges : SUBSET EdgeId,
       bury : SUBSET NodeId, unbury : SUBSET NodeId, embed : SUBSET NodeCids,
       pending : Tree(Value, NodeId), answer : NodeId \cup {0},
       calls : 0..MaxCalls, spent : 0..MaxCalls]    \* for the bound: calls in this transaction, before

NothingDisputed == [nodes |-> {}, edges |-> {}]

NoTx == [base |-> 0, new |-> EmptyTree, removed |-> {}, newEdges |-> EmptyTree,
         removedEdges |-> {}, bury |-> {}, unbury |-> {}, embed |-> {},
         pending |-> EmptyTree, answer |-> 0, calls |-> 0, spent |-> 0]

Base(w) == version[tx[w].base]

\* The trees a commit of the transaction would store.
StagedNodes(w) == Rebuild(Base(w).nodes, tx[w].new, tx[w].removed)

StagedEdges(w) == Rebuild(Base(w).edges, tx[w].newEdges, tx[w].removedEdges)

Touches(edges, n) == {e \in DOMAIN edges : Src[edges[e]] = n \/ Dst[edges[e]] = n}

EndsIn(edges, nodes) == \A e \in DOMAIN edges : {Src[edges[e]], Dst[edges[e]]} \subseteq nodes

\* A repository with one commit, whose indexes were built for it.
TxInit ==
    /\ \E nodes \in Tree(NodeId, Value), edges \in Tree(EdgeId, EdgeBlock) :
          /\ EndsIn(edges, DOMAIN nodes)
          /\ version = <<[parents |-> {}, nodes |-> nodes, edges |-> edges,
                          index |-> BuildIndex(nodes, edges),
                          tombs |-> {}, embedded |-> {}, disputed |-> NothingDisputed]>>
    /\ heads = {1}
    /\ tx = [w \in Writer |-> NoTx]

Start(w) ==
    /\ tx[w].base = 0 /\ Len(version) < MaxVersions
    /\ \E b \in DOMAIN version : tx' = [tx EXCEPT ![w].base = b]
    /\ UNCHANGED <<version, heads>>

\* A call on the open transaction of w makes it t and returns a.
Stage(w, t, a) ==
    /\ tx[w].calls + tx[w].spent < MaxCalls
    /\ tx' = [tx EXCEPT ![w] = [t EXCEPT !.answer = a, !.calls = tx[w].calls + 1]]
    /\ UNCHANGED <<version, heads>>

-----------------------------------------------------------------------------
WithNode(t, n, v) ==
    [t EXCEPT !.new = Rebuild(t.new, Single(n, v), {}),
              !.removed = t.removed \ {n},
              !.pending = Rebuild(t.pending, Single(v, n), {})]

AddNode(w, n, v) == Stage(w, WithNode(tx[w], n, v), 0)

(***************************************************************************)
(* Removing a node drops what was staged for it and the edges at it: those *)
(* the index of the base knows, whatever became of them since, and those   *)
(* staged.                                                                 *)
(***************************************************************************)
\* Mutated form: only edges of the base are removed with the node.
GoneEdgesOfBase(w, n) == Touches(Base(w).index.adjacent, n)

GoneEdges(w, n) == Touches(Base(w).index.adjacent, n) \cup Touches(tx[w].newEdges, n)

\* Mutated form: the node can still be found by its value.
WithoutNodePending(w, n) ==
    LET t == tx[w] IN
    [t EXCEPT !.new = Rebuild(t.new, EmptyTree, {n}),
              !.removed = t.removed \cup {n},
              !.embed = t.embed \ {<<k, t.new[k]>> : k \in DOMAIN t.new \cap {n}},
              !.newEdges = Rebuild(t.newEdges, EmptyTree, GoneEdges(w, n)),
              !.removedEdges = t.removedEdges \cup GoneEdges(w, n)]

WithoutNode(w, n) ==
    LET t == tx[w] IN
    [t EXCEPT !.new = Rebuild(t.new, EmptyTree, {n}),
              !.removed = t.removed \cup {n},
              !.embed = t.embed \ {<<k, t.new[k]>> : k \in DOMAIN t.new \cap {n}},
              !.pending = Rebuild(t.pending, EmptyTree, {v \in DOMAIN t.pending : t.pending[v] = n}),
              !.newEdges = Rebuild(t.newEdges, EmptyTree, GoneEdges(w, n)),
              !.removedEdges = t.removedEdges \cup GoneEdges(w, n)]

RemoveNode(w, n) == Stage(w, WithoutNode(w, n), 0)

AddEdge(w, e, b) ==
    Stage(w, [tx[w] EXCEPT !.newEdges = Rebuild(tx[w].newEdges, Single(e, b), {}),
                           !.removedEdges = tx[w].removedEdges \ {e}], 0)

RemoveEdge(w, e) ==
    Stage(w, [tx[w] EXCEPT !.newEdges = Rebuild(tx[w].newEdges, EmptyTree, {e}),
                           !.removedEdges = tx[w].removedEdges \cup {e}], 0)

TombstoneNode(w, n) == Stage(w, [tx[w] EXCEPT !.bury = tx[w].bury \cup {n}], 0)

UntombstoneNode(w, n) ==
    Stage(w, [tx[w] EXCEPT !.bury = tx[w].bury \ {n}, !.unbury = tx[w].unbury \cup {n}], 0)

\* An embedding is staged for a node block that the caller got from the
\* transaction or from its base.
SetEmbedding(w, n) ==
    \E t \in {tx[w].new, Base(w).nodes} :
        /\ n \in DOMAIN t
        /\ Stage(w, [tx[w] EXCEPT !.embed = tx[w].embed \cup {<<n, t[n]>>}], 0)

-----------------------------------------------------------------------------
(***************************************************************************)
(* resolve_or_create_node: a node added with the value under this          *)
(* transaction, unless the transaction buries it; the node that the index  *)
(* of the base has for the value, unless the transaction removed it or the *)
(* base buried it; else a node with a fresh id.                            *)
(***************************************************************************)
InPending(w, v) == v \in DOMAIN tx[w].pending /\ tx[w].pending[v] \notin tx[w].bury

InBase(w, v) == /\ v \in DOMAIN Base(w).index.prop
                /\ Base(w).index.prop[v] \notin tx[w].removed \cup Base(w).tombs

Used(w) == (UNION {DOMAIN version[i].nodes : i \in DOMAIN version})
             \cup UNION {DOMAIN tx[u].new \cup tx[u].removed : u \in Writer}

ResolveOrCreateNode(w, v) ==
    \/ /\ InPending(w, v)
       /\ Stage(w, tx[w], tx[w].pending[v])
    \/ /\ ~ InPending(w, v) /\ InBase(w, v)
       /\ Stage(w, tx[w], Base(w).index.prop[v])
    \/ /\ ~ InPending(w, v) /\ ~ InBase(w, v)
       /\ \E n \in NodeId \ Used(w) : Stage(w, WithNode(tx[w], n, v), n)

-----------------------------------------------------------------------------
(***************************************************************************)
(* Commit.  Every staged edge must have both its ends, added and not       *)
(* removed or in the base and not removed; edges of the base are not       *)
(* looked at.  The index of the base is extended when nodes were only      *)
(* added and none of them is in the base; else the index is built anew.    *)
(***************************************************************************)
Visible(w) == (DOMAIN tx[w].new \cup DOMAIN Base(w).nodes) \ tx[w].removed

Checked(w) == EndsIn(tx[w].newEdges, Visible(w))

\* Mutated form: a node of the base may be overwritten.
AppendOnlyOverwriting(w) ==
    /\ tx[w].removed = {} /\ tx[w].removedEdges = {}
    /\ DOMAIN tx[w].newEdges = {} /\ DOMAIN tx[w].new # {}

AppendOnly(w) ==
    /\ tx[w].removed = {} /\ tx[w].removedEdges = {}
    /\ DOMAIN tx[w].newEdges = {} /\ DOMAIN tx[w].new # {}
    /\ DOMAIN tx[w].new \cap DOMAIN Base(w).nodes = {}

NewIndex(w) == IF AppendOnly(w) THEN AppendIndex(Base(w).index, tx[w].new)
               ELSE BuildIndex(StagedNodes(w), StagedEdges(w))

\* Mutated form: staged embeddings replace those of the base.
EmbeddedReplaced(w) == tx[w].embed

\* The sidecar loses the blocks that removed nodes had in the base.
Embedded(w) ==
    (Base(w).embedded \ {<<n, Base(w).nodes[n]>> : n \in tx[w].removed \cap DOMAIN Base(w).nodes})
      \cup tx[w].embed

Commit(w) ==
    /\ Checked(w) /\ Len(version) < MaxVersions
    /\ version' = Append(version,
          [parents |-> {tx[w].base}, nodes |-> StagedNodes(w), edges |-> StagedEdges(w),
           index |-> NewIndex(w),
           tombs |-> (Base(w).tombs \cup tx[w].bury) \ tx[w].unbury,
           embedded |-> Embedded(w), disputed |-> NothingDisputed])
    /\ heads' = (heads \ {tx[w].base}) \cup {Len(version) + 1}
    /\ tx' = [tx EXCEPT ![w] = [NoTx EXCEPT !.spent = tx[w].spent + tx[w].calls]]

\* A commit that fails, and a transaction that is dropped: nothing is left.
CommitFails(w) ==
    /\ tx' = [tx EXCEPT ![w] = [NoTx EXCEPT !.spent = tx[w].spent]]
    /\ UNCHANGED <<version, heads>>

-----------------------------------------------------------------------------
(***************************************************************************)
(* The merge of concurrent heads H when the repository is opened.  A       *)
(* parent that has just the merged trees lends its index; the sidecars are *)
(* not carried over, and the disputed keys are listed in the commit.       *)
(***************************************************************************)
NodesOf(H) == {version[h].nodes : h \in H}
EdgesOf(H) == {version[h].edges : h \in H}

Lenders(H, nodes, edges) == {h \in H : version[h].nodes = nodes /\ version[h].edges = edges}

MergedWith(H, index) ==
    [parents |-> H, nodes |-> UnionTrees(NodesOf(H)), edges |-> UnionTrees(EdgesOf(H)),
     index |-> index, tombs |-> UNION {version[h].tombs : h \in H},
     embedded |-> {},
     disputed |-> [nodes |-> Disputed(NodesOf(H)), edges |-> Disputed(EdgesOf(H))]]

MergeHeads ==
    LET nodes == UnionTrees(NodesOf(heads))
        edges == UnionTrees(EdgesOf(heads))
        lend  == Lenders(heads, nodes, edges)
    IN  /\ \E g, h \in heads : g # h
        /\ Len(version) <= MaxVersions
        /\ \E index \in IF lend = {} THEN {BuildIndex(nodes, edges)}
                                     ELSE {version[h].index : h \in lend} :
              version' = Append(version, MergedWith(heads, index))
        /\ heads' = {Len(version) + 1}
        /\ UNCHANGED tx

TxNext ==
    \/ \E w \in Writer : Start(w)
    \/ \E w \in Writer :
        /\ tx[w].base # 0
        /\ \/ \E n \in NodeId, v \in Value : AddNode(w, n, v)
           \/ \E n \in NodeId : \/ RemoveNode(w, n) \/ SetEmbedding(w, n)
                                \/ TombstoneNode(w, n) \/ UntombstoneNode(w, n)
           \/ \E e \in EdgeId, b \in EdgeBlock : AddEdge(w, e, b)
           \/ \E e \in EdgeId : RemoveEdge(w, e)
           \/ \E v \in Value : ResolveOrCreateNode(w, v)
           \/ Commit(w) \/ CommitFails(w)
    \/ MergeHeads

TxSpec == TxInit /\ [][TxNext]_txVars
-----------------------------------------------------------------------------
(***************************************************************************)
(* Properties.                                                             *)
(***************************************************************************)
(***************************************************************************)
(* Types, and what is staged is staged once: no id is both added and       *)
(* removed (add_node, remove_node, add_edge, remove_edge).                 *)
(***************************************************************************)
TxTypeOK ==
    /\ version \in Seq(Version)
    /\ heads \subseteq DOMAIN version
    /\ tx \in [Writer -> Tx]
    /\ \A w \in Writer :
          /\ tx[w].base \in {0} \cup DOMAIN version
          /\ DOMAIN tx[w].new \cap tx[w].removed = {}
          /\ DOMAIN tx[w].newEdges \cap tx[w].removedEdges = {}

(***************************************************************************)
(* No edge of a version lacks an end.  A commit checks only the edges it   *)
(* adds, and relies on the index of its base to find the edges of a node   *)
(* it removes; a merge checks nothing, when one side may have removed a    *)
(* node that the other has linked (commit_opts, remove_node,               *)
(* build_merge_commit).                                                    *)
(***************************************************************************)
EdgesHaveEnds == \A i \in DOMAIN version : EndsIn(version[i].edges, DOMAIN version[i].nodes)

(***************************************************************************)
(* The index of a version, extended, built or taken from a parent, answers *)
(* for that version: it lists the nodes, finds by a value a node that has  *)
(* it whenever there is one, and has the edges (build_index_set,           *)
(* incremental_append_indexes, the choice in commit_opts and               *)
(* build_merge_commit).                                                    *)
(***************************************************************************)
Serves(v) ==
    /\ v.index.label = v.nodes
    /\ v.index.adjacent = v.edges
    /\ DOMAIN v.index.prop = Blocks(v.nodes)
    /\ \A x \in DOMAIN v.index.prop : v.index.prop[x] \in NodesWith(v.nodes, x)

IndexServes == \A i \in DOMAIN version : Serves(version[i])

(***************************************************************************)
(* A node id that resolve_or_create_node returns is that of a node the     *)
(* commit will store, whatever the transaction removed or added before.    *)
(***************************************************************************)
ResolvedExists ==
    \A w \in Writer : tx[w].answer # 0 => tx[w].answer \in DOMAIN StagedNodes(w)

(***************************************************************************)
(* A commit keeps the embedding of every node block it keeps, also when    *)
(* the node was removed and added again (pruning of the sidecar in         *)
(* commit_opts).  Merges do not: they store no sidecar.                    *)
(***************************************************************************)
EmbeddingsKept ==
    \A i \in DOMAIN version : \A b \in version[i].parents :
        version[i].parents = {b} =>
            \A c \in version[b].embedded :
                (c[1] \in DOMAIN version[i].nodes /\ version[i].nodes[c[1]] = c[2])
                    => c \in version[i].embedded

(***************************************************************************)
(* "No fact is silently overwritten" (docs/features/versioned-memory.md):  *)
(* a block of a merged version that the merge does not have is that of a   *)
(* key listed in the merge commit (build_merge_commit).                    *)
(***************************************************************************)
LossesListed ==
    \A i \in DOMAIN version : \A h \in version[i].parents :
        version[i].parents # {h} =>
            /\ \A n \in DOMAIN version[h].nodes \ version[i].disputed.nodes :
                  n \in DOMAIN version[i].nodes /\ version[i].nodes[n] = version[h].nodes[n]
            /\ \A e \in DOMAIN version[h].edges \ version[i].disputed.edges :
                  e \in DOMAIN version[i].edges /\ version[i].edges[e] = version[h].edges[e]

(***************************************************************************)
(* Transactions implement WorkingCopy: the staged additions and removals   *)
(* over the base are a private copy that every call changes as it says,    *)
(* and that a commit publishes as it is.                                   *)
(***************************************************************************)
GraphOf(v) == [nodes |-> v.nodes, edges |-> v.edges]

CopyOf(w) == IF tx[w].base = 0 THEN [base |-> 0]
             ELSE [base |-> tx[w].base, nodes |-> StagedNodes(w), edges |-> StagedEdges(w)]

Graphs == [i \in DOMAIN version |-> GraphOf(version[i])]

Copies == [w \in Writer |-> CopyOf(w)]

WC == INSTANCE WorkingCopy WITH graph <- Graphs, copy <- Copies

IsWorkingCopy == WC!WCSpec
=============================================================================
