----------------------------- MODULE GraphTrees -----------------------------
(***************************************************************************)
(* The contents of a mnem commit and what commits and merges compute from  *)
(* them.  A node tree maps node ids to node blocks, an edge tree maps edge *)
(* ids to edge blocks; both are partial functions here (ProllyTree.tla is  *)
(* about their representation as chunks).  A block is named by the rank of *)
(* its hash among the blocks that are compared with it, a number.          *)
(*                                                                         *)
(* Sources: mnem-core/src/repo/transaction.rs (rebuild_tree),              *)
(* repo/merge.rs (union_prolly_trees, strategy_union_prolly_trees),        *)
(* index/build.rs (build_index_set, incremental_append_indexes).           *)
(***************************************************************************)
EXTENDS Naturals, FiniteSets

\* Partial functions from K to V.
Tree(K, V) == UNION {[S -> V] : S \in SUBSET K}

Blocks(t) == {t[k] : k \in DOMAIN t}

Highest(S) == CHOOSE x \in S : \A y \in S : y <= x

\* A tree after additions and removals; an addition wins over a removal.
Rebuild(base, adds, removals) ==
    [k \in (DOMAIN base \ removals) \cup DOMAIN adds |->
        IF k \in DOMAIN adds THEN adds[k] ELSE base[k]]

\* Mutated form: keys that only some of the trees hold are left out.
UnionOfShared(T) ==
    [k \in {k \in UNION {DOMAIN t : t \in T} : \A t \in T : k \in DOMAIN t} |->
        Highest({t[k] : t \in T})]

\* All keys of the trees T; where they differ, the block with the highest hash.
UnionTrees(T) ==
    [k \in UNION {DOMAIN t : t \in T} |->
        Highest({t[k] : t \in {u \in T : k \in DOMAIN u}})]

\* The keys on which the trees disagree: a merge commit lists them.
Disputed(T) == {k \in UNION {DOMAIN t : t \in T} :
                   \E t, u \in T : k \in DOMAIN t \cap DOMAIN u /\ t[k] # u[k]}

\* The union of two trees in which one side is preferred.
StrategyUnion(strategy, left, right) ==
    CASE strategy = "ours"   -> Rebuild(right, left, {})
      [] strategy = "theirs" -> Rebuild(left, right, {})
      [] OTHER               -> UnionTrees({left, right})

-----------------------------------------------------------------------------
(***************************************************************************)
(* Secondary indexes.  Nodes have one label and one property, and the      *)
(* block of a node is the value of the property.  An index lists the nodes *)
(* by label, keeps for every value ONE node (the tree is keyed by the hash *)
(* of the value), and has the edges by their ends.                         *)
(***************************************************************************)
NodesWith(nodes, v) == {n \in DOMAIN nodes : nodes[n] = v}

\* The last node written under a value, in the order of node ids, stays.
ByProp(nodes) == [v \in Blocks(nodes) |-> Highest(NodesWith(nodes, v))]

\* Mutated form: the adjacency is left out.
BuildIndexWithoutEdges(nodes, edges) ==
    [label |-> nodes, prop |-> ByProp(nodes), adjacent |-> [e \in {} |-> 0]]

BuildIndex(nodes, edges) == [label |-> nodes, prop |-> ByProp(nodes), adjacent |-> edges]

AppendIndex(index, added) ==
    [label |-> Rebuild(index.label, added, {}),
     prop |-> Rebuild(index.prop, ByProp(added), {}),
     adjacent |-> index.adjacent]
=============================================================================
