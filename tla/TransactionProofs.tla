------------------------- MODULE TransactionProofs -------------------------
(***************************************************************************)
(* Proofs about Transaction, for any node ids, blocks, edges and writers,  *)
(* any number of versions and any number of calls.                         *)
(***************************************************************************)
EXTENDS Transaction, GraphTreesProofs, SequenceTheorems, TLAPS

-----------------------------------------------------------------------------
(***************************************************************************)
(* Trees that the calls are made of.                                       *)
(***************************************************************************)
LEMMA EmptyIsTree == ASSUME NEW K, NEW V PROVE EmptyTree \in Tree(K, V) /\ DOMAIN EmptyTree = {}
<1>1. EmptyTree = [k \in DOMAIN EmptyTree |-> EmptyTree[k]] /\ DOMAIN EmptyTree = {}
  BY DEF EmptyTree
<1>2. EmptyTree \in [DOMAIN EmptyTree -> V]
  BY <1>1
<1> QED
  BY <1>1, <1>2 DEF Tree

LEMMA SingleIsTree ==
    ASSUME NEW K, NEW V, NEW k \in K, NEW v \in V
    PROVE  Single(k, v) \in Tree(K, V) /\ DOMAIN Single(k, v) = {k} /\ Single(k, v)[k] = v
<1>1. /\ Single(k, v) = [x \in DOMAIN Single(k, v) |-> Single(k, v)[x]]
      /\ DOMAIN Single(k, v) = {k} /\ Single(k, v)[k] = v
  BY DEF Single
<1>2. DOMAIN Single(k, v) \subseteq K /\ \A x \in DOMAIN Single(k, v) : Single(k, v)[x] \in V
  BY <1>1
<1>3. Single(k, v) \in Tree(K, V)
  BY <1>1, <1>2, TreeIs
<1> QED
  BY <1>1, <1>3

-----------------------------------------------------------------------------
(***************************************************************************)
(* Indexes.                                                                *)
(***************************************************************************)
LEMMA Finite ==
    /\ NodeId \in SUBSET Nat /\ IsFiniteSet(NodeId) /\ Value \in SUBSET Nat /\ IsFiniteSet(Value)
    /\ EdgeBlock \in SUBSET Nat /\ IsFiniteSet(EdgeBlock)
BY GraphAssumption, FS_Subset

LEMMA ByPropIs ==
    ASSUME NEW nodes \in Tree(NodeId, Value)
    PROVE  /\ ByProp(nodes) \in Tree(Value, NodeId) /\ DOMAIN ByProp(nodes) = Blocks(nodes)
           /\ \A v \in Blocks(nodes) : ByProp(nodes)[v] \in NodesWith(nodes, v)
<1> DEFINE P == ByProp(nodes)
<1>1. /\ P = [v \in DOMAIN P |-> P[v]] /\ DOMAIN P = Blocks(nodes)
      /\ \A v \in Blocks(nodes) : P[v] = Highest(NodesWith(nodes, v))
  BY DEF ByProp
<1>2. ASSUME NEW v \in Blocks(nodes) PROVE P[v] \in NodesWith(nodes, v)
  <2>1. NodesWith(nodes, v) \subseteq NodeId /\ NodesWith(nodes, v) # {}
    BY TreeIs DEF NodesWith, Blocks
  <2>2. NodesWith(nodes, v) \in SUBSET Nat /\ IsFiniteSet(NodesWith(nodes, v))
    BY <2>1, Finite, FS_Subset
  <2> QED
    BY <1>1, <2>1, <2>2, HighestOf
<1>3. Blocks(nodes) \subseteq Value /\ \A v \in Blocks(nodes) : NodesWith(nodes, v) \subseteq NodeId
  BY TreeIs DEF Blocks, NodesWith
<1> QED
  BY <1>1, <1>2, <1>3, TreeIs

Index == [label : Tree(NodeId, Value), prop : Tree(Value, NodeId), adjacent : Tree(EdgeId, EdgeBlock)]

\* An index that is built for trees serves them.
LEMMA BuiltServes ==
    ASSUME NEW nodes \in Tree(NodeId, Value), NEW edges \in Tree(EdgeId, EdgeBlock), NEW v,
           v.nodes = nodes, v.edges = edges, v.index = BuildIndex(nodes, edges)
    PROVE  v.index \in Index /\ Serves(v)
BY ByPropIs DEF BuildIndex, Serves, Index

\* So does one that is extended by nodes the version did not have.
LEMMA AppendedServes ==
    ASSUME NEW b, b.nodes \in Tree(NodeId, Value), b.edges \in Tree(EdgeId, EdgeBlock), Serves(b),
           b.index \in Index, NEW added \in Tree(NodeId, Value), DOMAIN added \cap DOMAIN b.nodes = {},
           NEW v, v.nodes = Rebuild(b.nodes, added, {}), v.edges = b.edges,
           v.index = AppendIndex(b.index, added)
    PROVE  v.index \in Index /\ Serves(v)
<1> DEFINE P == Rebuild(b.index.prop, ByProp(added), {})
<1>1. /\ v.index.label = v.nodes /\ v.index.prop = P /\ v.index.adjacent = v.edges
      /\ v.index = [label |-> v.nodes, prop |-> P, adjacent |-> v.edges]
  BY DEF AppendIndex, Serves
<1>2. /\ v.nodes \in Tree(NodeId, Value) /\ DOMAIN v.nodes = DOMAIN b.nodes \cup DOMAIN added
      /\ \A n \in DOMAIN added : v.nodes[n] = added[n]
      /\ \A n \in DOMAIN b.nodes : v.nodes[n] = b.nodes[n]
  <2>1. v.nodes \in Tree(NodeId, Value)
    BY RebuildTree
  <2> QED
    BY <2>1 DEF Rebuild
<1>3. /\ ByProp(added) \in Tree(Value, NodeId) /\ DOMAIN ByProp(added) = Blocks(added)
      /\ \A x \in Blocks(added) : ByProp(added)[x] \in NodesWith(added, x)
  BY ByPropIs
<1>4. b.index.prop \in Tree(Value, NodeId) /\ DOMAIN b.index.prop = Blocks(b.nodes)
  BY DEF Index, Serves
<1>5. /\ P \in Tree(Value, NodeId) /\ DOMAIN P = Blocks(b.nodes) \cup Blocks(added)
      /\ \A x \in Blocks(added) : P[x] = ByProp(added)[x]
      /\ \A x \in Blocks(b.nodes) \ Blocks(added) : P[x] = b.index.prop[x]
  <2>1. /\ P \in Tree(Value, NodeId)
        /\ DOMAIN P = DOMAIN b.index.prop \cup DOMAIN ByProp(added)
        /\ \A x \in DOMAIN ByProp(added) : P[x] = ByProp(added)[x]
        /\ \A x \in DOMAIN b.index.prop : x \notin DOMAIN ByProp(added) => P[x] = b.index.prop[x]
    <3>1. P \in Tree(Value, NodeId)
      BY <1>3, <1>4, RebuildTree
    <3> QED
      BY <3>1 DEF Rebuild
  <2> HIDE DEF P
  <2> QED
    BY <1>3, <1>4, <2>1
<1>6. Blocks(v.nodes) = Blocks(b.nodes) \cup Blocks(added)
  BY <1>2 DEF Blocks
<1>7. ASSUME NEW x \in DOMAIN P PROVE P[x] \in NodesWith(v.nodes, x)
  <2>1. CASE x \in Blocks(added)
    BY <1>2, <1>3, <1>5, <2>1 DEF NodesWith
  <2>2. CASE x \in Blocks(b.nodes) \ Blocks(added)
    <3>1. b.index.prop[x] \in DOMAIN b.nodes /\ b.nodes[b.index.prop[x]] = x
      BY <1>4, <2>2 DEF NodesWith, Serves
    <3>2. P[x] = b.index.prop[x]
      BY <1>5, <2>2
    <3>3. v.nodes[b.index.prop[x]] = x /\ b.index.prop[x] \in DOMAIN v.nodes
      <4>1. b.index.prop[x] \notin DOMAIN added
        BY <3>1
      <4> QED
        BY <1>2, <3>1
    <3> QED
      BY <3>2, <3>3 DEF NodesWith
  <2> QED
    BY <1>5, <2>1, <2>2
<1> QED
  BY <1>1, <1>2, <1>5, <1>6, <1>7 DEF Index, Serves

-----------------------------------------------------------------------------
(***************************************************************************)
(* The invariant.  Every version is sound by itself, and a transaction     *)
(* keeps what a commit needs: of a node that it removes, no edge of the    *)
(* base is left that it does not remove or write anew; a value that it can *)
(* find is that of a node it adds.                                         *)
(***************************************************************************)
Sound(v) == v \in Version /\ Serves(v) /\ EndsIn(v.edges, DOMAIN v.nodes)

VersionsOK == /\ version \in Seq(Version) /\ heads \subseteq DOMAIN version
              /\ \A i \in DOMAIN version :
                    Sound(version[i]) /\ version[i].parents \subseteq 1..(i - 1)

StagedOK(base, t) ==
    /\ DOMAIN t.new \cap t.removed = {} /\ DOMAIN t.newEdges \cap t.removedEdges = {}
    /\ \A v \in DOMAIN t.pending : t.pending[v] \in DOMAIN t.new
    /\ \A n \in t.removed : Touches(base.edges, n) \subseteq t.removedEdges \cup DOMAIN t.newEdges
    /\ t.answer # 0 => t.answer \in (DOMAIN base.nodes \ t.removed) \cup DOMAIN t.new

TxOK(w) ==
    /\ tx[w] \in Tx /\ tx[w].calls + tx[w].spent <= MaxCalls
    /\ tx[w].base = 0 => tx[w] = [NoTx EXCEPT !.spent = tx[w].spent]
    /\ tx[w].base # 0 => tx[w].base \in DOMAIN version /\ StagedOK(Base(w), tx[w])

TInv == /\ VersionsOK /\ LossesListed /\ EmbeddingsKept
        /\ tx \in [Writer -> Tx] /\ \A w \in Writer : TxOK(w)

LEMMA NoTxIs ==
    ASSUME NEW n \in 0..MaxCalls
    PROVE  /\ [NoTx EXCEPT !.spent = n] \in Tx
           /\ \A base : StagedOK(base, [NoTx EXCEPT !.spent = n])
<1>1. /\ EmptyTree \in Tree(NodeId, Value) /\ EmptyTree \in Tree(EdgeId, EdgeBlock)
      /\ EmptyTree \in Tree(Value, NodeId) /\ DOMAIN EmptyTree = {}
  BY EmptyIsTree
<1>2. 0 \in 0..MaxCalls
  BY BoundAssumption
<1> QED
  BY <1>1, <1>2 DEF NoTx, Tx, StagedOK

LEMMA TInitOK == TxInit => TInv
<1> SUFFICES ASSUME TxInit PROVE TInv
  OBVIOUS
<1>1. PICK nodes \in Tree(NodeId, Value), edges \in Tree(EdgeId, EdgeBlock) :
          /\ EndsIn(edges, DOMAIN nodes)
          /\ version = <<[parents |-> {}, nodes |-> nodes, edges |-> edges,
                          index |-> BuildIndex(nodes, edges),
                          tombs |-> {}, embedded |-> {}, disputed |-> NothingDisputed]>>
  BY DEF TxInit
<1> DEFINE v == [parents |-> {}, nodes |-> nodes, edges |-> edges, index |-> BuildIndex(nodes, edges),
                 tombs |-> {}, embedded |-> {}, disputed |-> NothingDisputed]
<1>2. v.index \in Index /\ Serves(v)
  BY BuiltServes
<1>3. v \in Version
  BY <1>2 DEF Version, Index, NothingDisputed
<1>4. Sound(v) /\ v.parents = {}
  BY <1>1, <1>2, <1>3 DEF Sound
<1>5. version = <<v>>
  BY <1>1
<1> HIDE DEF v
<1>6. version \in Seq(Version) /\ DOMAIN version = {1} /\ version[1] = v
  BY <1>3, <1>5
<1>7. VersionsOK /\ LossesListed /\ EmbeddingsKept
  BY <1>4, <1>6 DEF TxInit, VersionsOK, LossesListed, EmbeddingsKept
<1>8. 0 \in 0..MaxCalls /\ [NoTx EXCEPT !.spent = 0] = NoTx /\ NoTx.base = 0 /\ NoTx.spent = 0 /\ NoTx.calls = 0
  BY BoundAssumption DEF NoTx
<1>9. tx \in [Writer -> Tx] /\ \A w \in Writer : TxOK(w)
  BY <1>8, NoTxIs, BoundAssumption DEF TxInit, TxOK
<1> QED
  BY <1>7, <1>9 DEF TInv

-----------------------------------------------------------------------------
(***************************************************************************)
(* Calls.                                                                  *)
(***************************************************************************)
LEMMA CallOK ==
    ASSUME TInv, NEW w \in Writer, tx[w].base # 0, NEW t \in Tx, NEW a \in NodeId \cup {0}, Stage(w, t, a),
           t.base = tx[w].base, t.spent = tx[w].spent, StagedOK(Base(w), [t EXCEPT !.answer = a])
    PROVE  TInv'
<1> DEFINE u == [t EXCEPT !.answer = a, !.calls = tx[w].calls + 1]
<1>1. tx[w].calls + tx[w].spent < MaxCalls /\ tx' = [tx EXCEPT ![w] = u] /\ UNCHANGED <<version, heads>>
  BY DEF Stage
<1>2. tx[w] \in Tx /\ tx[w].calls \in Nat /\ tx[w].spent \in Nat /\ tx[w].calls + 1 \in 0..MaxCalls
  BY <1>1, BoundAssumption DEF TInv, TxOK, Tx
<1>3. u \in Tx /\ u.base = tx[w].base /\ u.spent = tx[w].spent /\ u.calls = tx[w].calls + 1
      /\ StagedOK(Base(w), u)
  BY <1>2 DEF Tx, StagedOK
<1> HIDE DEF u
<1>4. VersionsOK' /\ LossesListed' /\ EmbeddingsKept'
  BY <1>1 DEF TInv, VersionsOK, LossesListed, EmbeddingsKept
<1>5. tx' \in [Writer -> Tx] /\ tx'[w] = u /\ \A x \in Writer : x # w => tx'[x] = tx[x]
  BY <1>1, <1>3 DEF TInv
<1>6. ASSUME NEW x \in Writer PROVE TxOK(x)'
  <2>1. CASE x = w
    BY <1>1, <1>2, <1>3, <1>5, <2>1, BoundAssumption DEF TInv, TxOK, Base
  <2>2. CASE x # w
    BY <1>1, <1>5, <2>2 DEF TInv, TxOK, Base
  <2> QED
    BY <2>1, <2>2
<1> QED
  BY <1>4, <1>5, <1>6 DEF TInv

LEMMA BaseOK ==
    ASSUME TInv, NEW w \in Writer, tx[w].base # 0
    PROVE  /\ tx[w].base \in DOMAIN version /\ Sound(Base(w)) /\ Base(w) \in Version
           /\ Base(w).index.adjacent = Base(w).edges
           /\ tx[w] \in Tx /\ StagedOK(Base(w), tx[w])
BY DEF TInv, TxOK, VersionsOK, Base, Sound, Serves

LEMMA TouchesIn ==
    ASSUME NEW edges \in Tree(EdgeId, EdgeBlock), NEW n
    PROVE  Touches(edges, n) \subseteq EdgeId
BY TreeIs DEF Touches

LEMMA NodeAdded ==
    ASSUME TInv, NEW w \in Writer, tx[w].base # 0, NEW n \in NodeId, NEW v \in Value, NEW a \in {0, n}
    PROVE  LET t == WithNode(tx[w], n, v)
           IN  /\ t \in Tx /\ t.base = tx[w].base /\ t.spent = tx[w].spent
               /\ StagedOK(Base(w), [t EXCEPT !.answer = a])
<1> DEFINE old == tx[w]
           new == Rebuild(old.new, Single(n, v), {})
           removed == old.removed \ {n}
           pending == Rebuild(old.pending, Single(v, n), {})
           t == WithNode(old, n, v)
           u == [t EXCEPT !.answer = a]
<1>1. old \in Tx /\ StagedOK(Base(w), old)
  BY BaseOK
<1>2. /\ Single(n, v) \in Tree(NodeId, Value) /\ DOMAIN Single(n, v) = {n}
      /\ Single(v, n) \in Tree(Value, NodeId) /\ DOMAIN Single(v, n) = {v} /\ Single(v, n)[v] = n
  BY ZenonT(60), SingleIsTree
<1>3. old.new \in Tree(NodeId, Value) /\ old.pending \in Tree(Value, NodeId) /\ old.removed \subseteq NodeId
  BY <1>1 DEF Tx
<1>4. new \in Tree(NodeId, Value) /\ pending \in Tree(Value, NodeId) /\ removed \subseteq NodeId
  BY <1>2, <1>3, RebuildTree
<1>5. /\ DOMAIN new = DOMAIN old.new \cup {n} /\ DOMAIN pending = DOMAIN old.pending \cup {v}
      /\ pending[v] = n /\ \A x \in DOMAIN old.pending : x # v => pending[x] = old.pending[x]
  BY <1>2 DEF Rebuild
<1>6. t = [old EXCEPT !.new = new, !.removed = removed, !.pending = pending]
  BY DEF WithNode
<1> HIDE DEF new, removed, pending, t
<1>7. /\ t \in Tx /\ t.base = old.base /\ t.spent = old.spent
      /\ t.new = new /\ t.removed = removed /\ t.pending = pending
      /\ t.newEdges = old.newEdges /\ t.removedEdges = old.removedEdges
  BY <1>1, <1>4, <1>6 DEF Tx
<1>8. /\ u.new = new /\ u.removed = removed /\ u.pending = pending /\ u.answer = a
      /\ u.newEdges = old.newEdges /\ u.removedEdges = old.removedEdges
  BY <1>7 DEF Tx
<1> HIDE DEF u
<1>9. StagedOK(Base(w), u)
  BY <1>1, <1>5, <1>8 DEF StagedOK, removed
<1> QED
  BY <1>7, <1>9 DEF t, u

LEMMA AddNodeOK ==
    ASSUME TInv, NEW w \in Writer, tx[w].base # 0, NEW n \in NodeId, NEW v \in Value, AddNode(w, n, v)
    PROVE  TInv'
BY NodeAdded, CallOK DEF AddNode

LEMMA RemoveNodeOK ==
    ASSUME TInv, NEW w \in Writer, tx[w].base # 0, NEW n \in NodeId, RemoveNode(w, n)
    PROVE  TInv'
<1> DEFINE old == tx[w]
           gone == GoneEdges(w, n)
           new == Rebuild(old.new, EmptyTree, {n})
           removed == old.removed \cup {n}
           embed == old.embed \ {<<k, old.new[k]>> : k \in DOMAIN old.new \cap {n}}
           pending == Rebuild(old.pending, EmptyTree, {v \in DOMAIN old.pending : old.pending[v] = n})
           newEdges == Rebuild(old.newEdges, EmptyTree, gone)
           removedEdges == old.removedEdges \cup gone
           t == WithoutNode(w, n)
           u == [t EXCEPT !.answer = 0]
<1>1. /\ old \in Tx /\ StagedOK(Base(w), old) /\ Base(w) \in Version
      /\ Base(w).index.adjacent = Base(w).edges
  BY BaseOK
<1>2. /\ EmptyTree \in Tree(NodeId, Value) /\ EmptyTree \in Tree(EdgeId, EdgeBlock)
      /\ EmptyTree \in Tree(Value, NodeId) /\ DOMAIN EmptyTree = {}
  BY EmptyIsTree
<1>3. /\ old.new \in Tree(NodeId, Value) /\ old.pending \in Tree(Value, NodeId)
      /\ old.newEdges \in Tree(EdgeId, EdgeBlock) /\ Base(w).edges \in Tree(EdgeId, EdgeBlock)
      /\ old.removed \subseteq NodeId /\ old.removedEdges \subseteq EdgeId /\ old.embed \subseteq NodeCids
  BY <1>1 DEF Tx, Version
<1>4. gone \subseteq EdgeId /\ Touches(Base(w).edges, n) \subseteq gone
  BY <1>1, <1>3, TouchesIn DEF GoneEdges
<1>5. /\ new \in Tree(NodeId, Value) /\ pending \in Tree(Value, NodeId)
      /\ newEdges \in Tree(EdgeId, EdgeBlock)
  BY <1>2, <1>3, RebuildTree
<1>6. removed \subseteq NodeId /\ removedEdges \subseteq EdgeId /\ embed \subseteq NodeCids
  BY <1>3, <1>4
<1>7. /\ DOMAIN new = DOMAIN old.new \ {n} /\ DOMAIN newEdges = DOMAIN old.newEdges \ gone
      /\ \A v \in DOMAIN pending : v \in DOMAIN old.pending /\ pending[v] = old.pending[v] /\ pending[v] # n
  BY <1>2 DEF Rebuild
<1>8. t = [old EXCEPT !.new = new, !.removed = removed, !.embed = embed, !.pending = pending,
                      !.newEdges = newEdges, !.removedEdges = removedEdges]
  BY DEF WithoutNode
<1> HIDE DEF new, removed, embed, pending, newEdges, removedEdges, t, gone
<1>9. /\ t \in Tx /\ t.base = old.base /\ t.spent = old.spent
      /\ t.new = new /\ t.removed = removed /\ t.pending = pending
      /\ t.newEdges = newEdges /\ t.removedEdges = removedEdges
  BY <1>1, <1>5, <1>6, <1>8 DEF Tx
<1>10. /\ u.new = new /\ u.removed = removed /\ u.pending = pending /\ u.answer = 0
       /\ u.newEdges = newEdges /\ u.removedEdges = removedEdges
  BY <1>9 DEF Tx
<1> HIDE DEF u
<1>11. StagedOK(Base(w), u)
  <2>1. DOMAIN new \cap removed = {} /\ DOMAIN newEdges \cap removedEdges = {}
    BY <1>1, <1>7 DEF StagedOK, removed, removedEdges
  <2>2. \A v \in DOMAIN pending : pending[v] \in DOMAIN new
    BY <1>1, <1>7 DEF StagedOK
  <2>3. \A m \in removed : Touches(Base(w).edges, m) \subseteq removedEdges \cup DOMAIN newEdges
    BY <1>1, <1>4, <1>7 DEF StagedOK, removed, removedEdges
  <2> QED
    BY <1>10, <2>1, <2>2, <2>3 DEF StagedOK
<1>12. Stage(w, t, 0)
  BY DEF RemoveNode, t
<1> QED
  BY <1>9, <1>11, <1>12, CallOK DEF u

LEMMA AddEdgeOK ==
    ASSUME TInv, NEW w \in Writer, tx[w].base # 0, NEW e \in EdgeId, NEW b \in EdgeBlock, AddEdge(w, e, b)
    PROVE  TInv'
<1> DEFINE old == tx[w]
           newEdges == Rebuild(old.newEdges, Single(e, b), {})
           removedEdges == old.removedEdges \ {e}
           t == [old EXCEPT !.newEdges = newEdges, !.removedEdges = removedEdges]
           u == [t EXCEPT !.answer = 0]
<1>1. old \in Tx /\ StagedOK(Base(w), old)
  BY BaseOK
<1>2. Single(e, b) \in Tree(EdgeId, EdgeBlock) /\ DOMAIN Single(e, b) = {e}
  BY SingleIsTree
<1>3. old.newEdges \in Tree(EdgeId, EdgeBlock) /\ old.removedEdges \subseteq EdgeId
  BY <1>1 DEF Tx
<1>4. newEdges \in Tree(EdgeId, EdgeBlock) /\ removedEdges \subseteq EdgeId
  BY <1>2, <1>3, RebuildTree
<1>5. DOMAIN newEdges = DOMAIN old.newEdges \cup {e}
  BY <1>2 DEF Rebuild
<1>6. Stage(w, t, 0)
  BY DEF AddEdge
<1> HIDE DEF newEdges
<1>7. /\ t \in Tx /\ t.base = old.base /\ t.spent = old.spent
      /\ u.new = old.new /\ u.removed = old.removed /\ u.pending = old.pending /\ u.answer = 0
      /\ u.newEdges = newEdges /\ u.removedEdges = removedEdges
  BY <1>1, <1>4 DEF Tx
<1> HIDE DEF t, u
<1>8. StagedOK(Base(w), u)
  BY <1>1, <1>5, <1>7 DEF StagedOK
<1> QED
  BY <1>6, <1>7, <1>8, CallOK DEF u

LEMMA RemoveEdgeOK ==
    ASSUME TInv, NEW w \in Writer, tx[w].base # 0, NEW e \in EdgeId, RemoveEdge(w, e)
    PROVE  TInv'
<1> DEFINE old == tx[w]
           newEdges == Rebuild(old.newEdges, EmptyTree, {e})
           removedEdges == old.removedEdges \cup {e}
           t == [old EXCEPT !.newEdges = newEdges, !.removedEdges = removedEdges]
           u == [t EXCEPT !.answer = 0]
<1>1. old \in Tx /\ StagedOK(Base(w), old)
  BY BaseOK
<1>2. EmptyTree \in Tree(EdgeId, EdgeBlock) /\ DOMAIN EmptyTree = {}
  BY EmptyIsTree
<1>3. old.newEdges \in Tree(EdgeId, EdgeBlock) /\ old.removedEdges \subseteq EdgeId
  BY <1>1 DEF Tx
<1>4. newEdges \in Tree(EdgeId, EdgeBlock) /\ removedEdges \subseteq EdgeId
  BY <1>2, <1>3, RebuildTree
<1>5. DOMAIN newEdges = DOMAIN old.newEdges \ {e}
  BY <1>2 DEF Rebuild
<1>6. Stage(w, t, 0)
  BY DEF RemoveEdge
<1> HIDE DEF newEdges
<1>7. /\ t \in Tx /\ t.base = old.base /\ t.spent = old.spent
      /\ u.new = old.new /\ u.removed = old.removed /\ u.pending = old.pending /\ u.answer = 0
      /\ u.newEdges = newEdges /\ u.removedEdges = removedEdges
  BY <1>1, <1>4 DEF Tx
<1> HIDE DEF t, u
<1>8. StagedOK(Base(w), u)
  BY <1>1, <1>5, <1>7 DEF StagedOK
<1> QED
  BY <1>6, <1>7, <1>8, CallOK DEF u

LEMMA MarkOK ==
    ASSUME TInv, NEW w \in Writer, tx[w].base # 0, NEW t \in Tx, Stage(w, t, 0),
           \E bury, unbury, embed : t = [tx[w] EXCEPT !.bury = bury, !.unbury = unbury, !.embed = embed]
    PROVE  TInv'
<1>1. tx[w] \in Tx /\ StagedOK(Base(w), tx[w])
  BY BaseOK
<1>2. PICK bury, unbury, embed : t = [tx[w] EXCEPT !.bury = bury, !.unbury = unbury, !.embed = embed]
  OBVIOUS
<1> DEFINE u == [t EXCEPT !.answer = 0]
<1>3. /\ t.base = tx[w].base /\ t.spent = tx[w].spent
      /\ u.new = tx[w].new /\ u.removed = tx[w].removed /\ u.pending = tx[w].pending /\ u.answer = 0
      /\ u.newEdges = tx[w].newEdges /\ u.removedEdges = tx[w].removedEdges
  BY <1>1, <1>2 DEF Tx
<1> HIDE DEF u
<1>4. StagedOK(Base(w), u)
  BY <1>1, <1>3 DEF StagedOK
<1> QED
  BY <1>3, <1>4, CallOK DEF u

LEMMA TombstonesOK ==
    ASSUME TInv, NEW w \in Writer, tx[w].base # 0, NEW n \in NodeId,
           TombstoneNode(w, n) \/ UntombstoneNode(w, n) \/ SetEmbedding(w, n)
    PROVE  TInv'
<1>1. tx[w] \in Tx /\ Base(w) \in Version
  BY BaseOK
<1>2. CASE TombstoneNode(w, n)
  <2> DEFINE t == [tx[w] EXCEPT !.bury = tx[w].bury \cup {n}]
  <2>1. t \in Tx /\ t = [tx[w] EXCEPT !.bury = tx[w].bury \cup {n}, !.unbury = tx[w].unbury,
                                       !.embed = tx[w].embed]
    BY <1>1 DEF Tx
  <2> QED
    BY <1>2, <2>1, MarkOK DEF TombstoneNode
<1>3. CASE UntombstoneNode(w, n)
  <2> DEFINE t == [tx[w] EXCEPT !.bury = tx[w].bury \ {n}, !.unbury = tx[w].unbury \cup {n}]
  <2>1. t \in Tx /\ t = [tx[w] EXCEPT !.bury = tx[w].bury \ {n}, !.unbury = tx[w].unbury \cup {n},
                                       !.embed = tx[w].embed]
    BY <1>1 DEF Tx
  <2> QED
    BY <1>3, <2>1, MarkOK DEF UntombstoneNode
<1>4. CASE SetEmbedding(w, n)
  <2>1. PICK b \in {tx[w].new, Base(w).nodes} :
            n \in DOMAIN b /\ Stage(w, [tx[w] EXCEPT !.embed = tx[w].embed \cup {<<n, b[n]>>}], 0)
    BY <1>4 DEF SetEmbedding
  <2> DEFINE embed == tx[w].embed \cup {<<n, b[n]>>}
             t == [tx[w] EXCEPT !.embed = embed]
  <2>2. b \in Tree(NodeId, Value)
    BY <1>1, <2>1 DEF Tx, Version
  <2>3. b[n] \in Value
    BY <2>1, <2>2, TreeIs
  <2>4. embed \subseteq NodeCids
    BY <1>1, <2>3 DEF Tx, NodeCids
  <2> HIDE DEF embed
  <2>5. t \in Tx /\ t = [tx[w] EXCEPT !.bury = tx[w].bury, !.unbury = tx[w].unbury, !.embed = embed]
    BY <1>1, <2>4 DEF Tx
  <2> QED
    BY <2>1, <2>5, MarkOK DEF embed
<1> QED
  BY <1>2, <1>3, <1>4

LEMMA ResolveOK ==
    ASSUME TInv, NEW w \in Writer, tx[w].base # 0, NEW v \in Value, ResolveOrCreateNode(w, v)
    PROVE  TInv'
<1>1. tx[w] \in Tx /\ StagedOK(Base(w), tx[w]) /\ Sound(Base(w))
  BY BaseOK
<1>2. ASSUME NEW a \in NodeId, a \in (DOMAIN Base(w).nodes \ tx[w].removed) \cup DOMAIN tx[w].new,
             Stage(w, tx[w], a)
      PROVE  TInv'
  <2> DEFINE u == [tx[w] EXCEPT !.answer = a]
  <2>1. /\ u.new = tx[w].new /\ u.removed = tx[w].removed /\ u.pending = tx[w].pending /\ u.answer = a
        /\ u.newEdges = tx[w].newEdges /\ u.removedEdges = tx[w].removedEdges
    BY <1>1 DEF Tx
  <2> HIDE DEF u
  <2>2. StagedOK(Base(w), u)
    BY <1>1, <1>2, <2>1 DEF StagedOK
  <2> QED
    BY <1>1, <1>2, <2>2, CallOK DEF u
<1>3. CASE InPending(w, v) /\ Stage(w, tx[w], tx[w].pending[v])
  <2>1. tx[w].pending[v] \in DOMAIN tx[w].new
    BY <1>1, <1>3 DEF InPending, StagedOK
  <2>2. tx[w].pending[v] \in NodeId
    BY <1>1, <1>3, TreeIs DEF InPending, Tx
  <2> QED
    BY <1>2, <1>3, <2>1, <2>2
<1>4. CASE InBase(w, v) /\ Stage(w, tx[w], Base(w).index.prop[v])
  <2>1. Base(w).index.prop[v] \in DOMAIN Base(w).nodes
    BY <1>1, <1>4 DEF InBase, Sound, Serves, NodesWith
  <2>2. Base(w).index.prop[v] \in NodeId
    BY <1>1, <1>4, TreeIs DEF InBase, Sound, Version
  <2> QED
    BY <1>2, <1>4, <2>1, <2>2 DEF InBase
<1>5. ASSUME NEW n \in NodeId, Stage(w, WithNode(tx[w], n, v), n) PROVE TInv'
  BY <1>5, NodeAdded, CallOK
<1> QED
  BY <1>3, <1>4, <1>5 DEF ResolveOrCreateNode

-----------------------------------------------------------------------------
(***************************************************************************)
(* Commits and merges.                                                     *)
(***************************************************************************)
\* Another version: the others are as they were.
LEMMA VersionAdded ==
    ASSUME VersionsOK, LossesListed, EmbeddingsKept, NEW v, Sound(v), v.parents \subseteq DOMAIN version,
           version' = Append(version, v),
           heads' \subseteq heads \cup {Len(version) + 1},
           \A b \in v.parents : v.parents = {b} =>
               \A c \in version[b].embedded :
                   (c[1] \in DOMAIN v.nodes /\ v.nodes[c[1]] = c[2]) => c \in v.embedded,
           \A h \in v.parents : v.parents # {h} =>
               /\ \A n \in DOMAIN version[h].nodes \ v.disputed.nodes :
                     n \in DOMAIN v.nodes /\ v.nodes[n] = version[h].nodes[n]
               /\ \A e \in DOMAIN version[h].edges \ v.disputed.edges :
                     e \in DOMAIN v.edges /\ v.edges[e] = version[h].edges[e]
    PROVE  /\ VersionsOK' /\ LossesListed' /\ EmbeddingsKept'
           /\ \A i \in DOMAIN version : i \in DOMAIN version' /\ version'[i] = version[i]
<1>1. version \in Seq(Version) /\ v \in Version
  BY DEF VersionsOK, Sound
<1>2. /\ version' \in Seq(Version) /\ Len(version) \in Nat
      /\ DOMAIN version = 1..Len(version) /\ DOMAIN version' = DOMAIN version \cup {Len(version) + 1}
      /\ \A i \in DOMAIN version : version'[i] = version[i]
      /\ version'[Len(version) + 1] = v
  BY <1>1
<1> DEFINE m == Len(version) + 1
<1>3. /\ m \notin DOMAIN version /\ DOMAIN version = 1..(m - 1) /\ m \in Nat
      /\ DOMAIN version' = DOMAIN version \cup {m} /\ version'[m] = v
  BY <1>2
<1> HIDE DEF m
<1>4. \A i \in DOMAIN version : version[i].parents \subseteq DOMAIN version
  BY <1>2 DEF VersionsOK
<1>5. VersionsOK'
  <2>1. \A i \in DOMAIN version' : Sound(version'[i]) /\ version'[i].parents \subseteq 1..(i - 1)
    BY <1>2, <1>3 DEF VersionsOK
  <2>2. heads' \subseteq DOMAIN version'
    BY <1>3 DEF VersionsOK, m
  <2>3. \A x : Sound(x)' <=> Sound(x)
    BY DEF Sound, Serves
  <2> QED
    BY <1>2, <2>1, <2>2, <2>3 DEF VersionsOK
<1>6. LossesListed'
  <2> SUFFICES ASSUME NEW i \in DOMAIN version', NEW h \in version'[i].parents, version'[i].parents # {h}
               PROVE  /\ \A n \in DOMAIN version'[h].nodes \ version'[i].disputed.nodes :
                            n \in DOMAIN version'[i].nodes /\ version'[i].nodes[n] = version'[h].nodes[n]
                      /\ \A e \in DOMAIN version'[h].edges \ version'[i].disputed.edges :
                            e \in DOMAIN version'[i].edges /\ version'[i].edges[e] = version'[h].edges[e]
    BY DEF LossesListed
  <2>1. CASE i \in DOMAIN version
    <3>1. version'[i] = version[i] /\ h \in DOMAIN version /\ version'[h] = version[h]
      BY <1>2, <1>4, <2>1
    <3> QED
      BY <2>1, <3>1 DEF LossesListed
  <2>2. CASE i = m
    <3>1. version'[i] = v /\ h \in DOMAIN version /\ version'[h] = version[h]
      BY <1>2, <1>3, <2>2
    <3> QED
      BY <3>1
  <2> QED
    BY <1>3, <2>1, <2>2
<1>7. EmbeddingsKept'
  <2> SUFFICES ASSUME NEW i \in DOMAIN version', NEW b \in version'[i].parents, version'[i].parents = {b},
                      NEW c \in version'[b].embedded,
                      c[1] \in DOMAIN version'[i].nodes, version'[i].nodes[c[1]] = c[2]
               PROVE  c \in version'[i].embedded
    BY DEF EmbeddingsKept
  <2>1. CASE i \in DOMAIN version
    <3>1. version'[i] = version[i] /\ b \in DOMAIN version /\ version'[b] = version[b]
      BY <1>2, <1>4, <2>1
    <3> QED
      BY <2>1, <3>1 DEF EmbeddingsKept
  <2>2. CASE i = m
    <3>1. version'[i] = v /\ b \in DOMAIN version /\ version'[b] = version[b]
      BY <1>2, <1>3, <2>2
    <3> QED
      BY <3>1
  <2> QED
    BY <1>3, <2>1, <2>2
<1> QED
  BY <1>2, <1>3, <1>5, <1>6, <1>7

\* The version that a commit stores.
LEMMA CommitSound ==
    ASSUME TInv, NEW w \in Writer, tx[w].base # 0, Checked(w), NEW v,
           v = [parents |-> {tx[w].base}, nodes |-> StagedNodes(w), edges |-> StagedEdges(w),
                index |-> NewIndex(w), tombs |-> (Base(w).tombs \cup tx[w].bury) \ tx[w].unbury,
                embedded |-> Embedded(w), disputed |-> NothingDisputed]
    PROVE  /\ Sound(v)
           /\ \A c \in Base(w).embedded :
                 (c[1] \in DOMAIN v.nodes /\ v.nodes[c[1]] = c[2]) => c \in v.embedded
<1> DEFINE t == tx[w]
           b == Base(w)
<1>1. /\ t \in Tx /\ StagedOK(b, t) /\ Sound(b) /\ b \in Version /\ t.base \in Nat
      /\ b.index.adjacent = b.edges
  BY BaseOK DEF Tx
<1>2. /\ t.new \in Tree(NodeId, Value) /\ t.newEdges \in Tree(EdgeId, EdgeBlock)
      /\ b.nodes \in Tree(NodeId, Value) /\ b.edges \in Tree(EdgeId, EdgeBlock) /\ b.index \in Index
  BY <1>1 DEF Tx, Version, Index
<1>3. StagedNodes(w) \in Tree(NodeId, Value) /\ StagedEdges(w) \in Tree(EdgeId, EdgeBlock)
  BY <1>2, RebuildTree DEF StagedNodes, StagedEdges
<1>4. /\ DOMAIN StagedNodes(w) = (DOMAIN b.nodes \ t.removed) \cup DOMAIN t.new
      /\ \A n \in DOMAIN t.new : StagedNodes(w)[n] = t.new[n]
      /\ DOMAIN StagedEdges(w) = (DOMAIN b.edges \ t.removedEdges) \cup DOMAIN t.newEdges
      /\ \A e \in DOMAIN t.newEdges : StagedEdges(w)[e] = t.newEdges[e]
      /\ \A e \in DOMAIN b.edges : e \notin DOMAIN t.newEdges /\ e \notin t.removedEdges
                                        => StagedEdges(w)[e] = b.edges[e]
      /\ \A n \in DOMAIN b.nodes : n \notin DOMAIN t.new /\ n \notin t.removed
                                        => StagedNodes(w)[n] = b.nodes[n]
  BY DEF StagedNodes, StagedEdges, Rebuild
<1>5. v.index \in Index /\ Serves(v)
  <2>1. CASE AppendOnly(w)
    <3>1. /\ t.removed = {} /\ t.removedEdges = {} /\ DOMAIN t.newEdges = {}
          /\ DOMAIN t.new \cap DOMAIN b.nodes = {}
      BY <2>1 DEF AppendOnly
    <3>2. v.nodes = Rebuild(b.nodes, t.new, {})
      BY <3>1 DEF StagedNodes
    <3>3. v.edges = b.edges
      <4>1. b.edges = [e \in DOMAIN b.edges |-> b.edges[e]]
        BY <1>2, TreeIs
      <4>2. StagedEdges(w) = [e \in DOMAIN StagedEdges(w) |-> StagedEdges(w)[e]]
        BY <1>3, TreeIs
      <4>3. DOMAIN StagedEdges(w) = DOMAIN b.edges /\ \A e \in DOMAIN b.edges : StagedEdges(w)[e] = b.edges[e]
        BY <1>4, <3>1
      <4> QED
        BY <4>1, <4>2, <4>3
    <3>4. v.index = AppendIndex(b.index, t.new)
      BY <2>1 DEF NewIndex
    <3> QED
      BY <1>1, <1>2, <3>1, <3>2, <3>3, <3>4, AppendedServes DEF Sound
  <2>2. CASE ~ AppendOnly(w)
    BY <1>3, <2>2, BuiltServes DEF NewIndex
  <2> QED
    BY <2>1, <2>2
<1>6. EndsIn(v.edges, DOMAIN v.nodes)
  <2> SUFFICES ASSUME NEW e \in DOMAIN StagedEdges(w)
               PROVE  {Src[StagedEdges(w)[e]], Dst[StagedEdges(w)[e]]} \subseteq DOMAIN StagedNodes(w)
    BY DEF EndsIn
  <2>1. CASE e \in DOMAIN t.newEdges
    BY <1>4, <2>1 DEF Checked, EndsIn, Visible
  <2>2. CASE e \notin DOMAIN t.newEdges
    <3>1. e \in DOMAIN b.edges /\ e \notin t.removedEdges /\ StagedEdges(w)[e] = b.edges[e]
      BY <1>4, <2>2
    <3>2. {Src[b.edges[e]], Dst[b.edges[e]]} \subseteq DOMAIN b.nodes
      BY <1>1, <3>1 DEF Sound, EndsIn
    <3>3. ASSUME NEW n \in {Src[b.edges[e]], Dst[b.edges[e]]} PROVE n \notin t.removed
      BY <1>1, <2>2, <3>1, <3>3 DEF StagedOK, Touches
    <3> QED
      BY <1>4, <3>1, <3>2, <3>3
  <2> QED
    BY <2>1, <2>2
<1>7. v.tombs \subseteq NodeId /\ Embedded(w) \subseteq NodeCids
  BY <1>1 DEF Tx, Version, Embedded
<1>8. v \in Version
  <2>1. NothingDisputed \in [nodes : SUBSET NodeId, edges : SUBSET EdgeId] /\ {t.base} \in SUBSET Nat
    BY <1>1 DEF NothingDisputed
  <2>2. NewIndex(w) \in Index
    BY <1>5
  <2> QED
    BY <1>3, <1>7, <2>1, <2>2 DEF Version, Index
<1>9. ASSUME NEW c \in b.embedded, c[1] \in DOMAIN v.nodes, v.nodes[c[1]] = c[2]
      PROVE  c \in v.embedded
  <2>1. ASSUME NEW n \in t.removed \cap DOMAIN b.nodes, c = <<n, b.nodes[n]>> PROVE FALSE
    BY <1>1, <1>4, <1>9, <2>1 DEF StagedOK
  <2> QED
    BY <1>9, <2>1 DEF Embedded
<1> QED
  BY <1>5, <1>6, <1>8, <1>9 DEF Sound

LEMMA CommitOK == ASSUME TInv, NEW w \in Writer, tx[w].base # 0, Commit(w) PROVE TInv'
<1> DEFINE v == [parents |-> {tx[w].base}, nodes |-> StagedNodes(w), edges |-> StagedEdges(w),
                 index |-> NewIndex(w), tombs |-> (Base(w).tombs \cup tx[w].bury) \ tx[w].unbury,
                 embedded |-> Embedded(w), disputed |-> NothingDisputed]
           u == [NoTx EXCEPT !.spent = tx[w].spent + tx[w].calls]
<1>1. /\ Checked(w) /\ version' = Append(version, v) /\ tx' = [tx EXCEPT ![w] = u]
      /\ heads' = (heads \ {tx[w].base}) \cup {Len(version) + 1}
  BY DEF Commit
<1>2. tx[w].base \in DOMAIN version /\ v.parents = {tx[w].base}
  BY BaseOK
<1>3. /\ Sound(v)
      /\ \A c \in Base(w).embedded :
            (c[1] \in DOMAIN v.nodes /\ v.nodes[c[1]] = c[2]) => c \in v.embedded
  BY <1>1, CommitSound
<1> HIDE DEF v
<1>4. /\ VersionsOK' /\ LossesListed' /\ EmbeddingsKept'
      /\ \A i \in DOMAIN version : i \in DOMAIN version' /\ version'[i] = version[i]
  <2>1. VersionsOK /\ LossesListed /\ EmbeddingsKept
    BY DEF TInv
  <2>2. \A b \in v.parents : v.parents = {b} =>
               \A c \in version[b].embedded :
                   (c[1] \in DOMAIN v.nodes /\ v.nodes[c[1]] = c[2]) => c \in v.embedded
    BY <1>2, <1>3 DEF Base
  <2>3. \A h \in v.parents : v.parents = {h}
    BY <1>2
  <2>4. heads' \subseteq heads \cup {Len(version) + 1} /\ v.parents \subseteq DOMAIN version
    BY <1>1, <1>2
  <2> QED
    BY <1>1, <1>3, <2>1, <2>2, <2>3, <2>4, VersionAdded
<1>5. tx[w].spent + tx[w].calls \in 0..MaxCalls
  BY BoundAssumption DEF TInv, TxOK, Tx
<1>6. u \in Tx /\ u.base = 0 /\ u.spent = tx[w].spent + tx[w].calls /\ u.calls = 0
  BY <1>5, NoTxIs DEF NoTx
<1>7. u = [NoTx EXCEPT !.spent = u.spent]
  BY <1>6
<1> HIDE DEF u
<1>8. tx' \in [Writer -> Tx] /\ tx'[w] = u /\ \A x \in Writer : x # w => tx'[x] = tx[x]
  BY <1>1, <1>6 DEF TInv
<1>9. ASSUME NEW x \in Writer PROVE TxOK(x)'
  <2>1. CASE x = w
    BY <1>5, <1>6, <1>7, <1>8, <2>1, BoundAssumption DEF TxOK
  <2>2. CASE x # w
    <3>1. TxOK(x) /\ tx'[x] = tx[x]
      BY <1>8, <2>2 DEF TInv
    <3>2. tx[x].base # 0 => tx[x].base \in DOMAIN version' /\ Base(x)' = Base(x)
      BY <1>4, <3>1 DEF TxOK, Base
    <3>3. \A a, b : StagedOK(a, b)' <=> StagedOK(a, b)
      BY DEF StagedOK
    <3> QED
      BY <3>1, <3>2, <3>3 DEF TxOK
  <2> QED
    BY <2>1, <2>2
<1> QED
  BY <1>4, <1>8, <1>9 DEF TInv

LEMMA CommitFailsOK == ASSUME TInv, NEW w \in Writer, CommitFails(w) PROVE TInv'
<1> DEFINE u == [NoTx EXCEPT !.spent = tx[w].spent]
<1>1. tx' = [tx EXCEPT ![w] = u] /\ UNCHANGED <<version, heads>>
  BY DEF CommitFails
<1>2. tx[w].spent \in 0..MaxCalls
  BY DEF TInv, TxOK, Tx
<1>3. u \in Tx /\ u.base = 0 /\ u.spent = tx[w].spent /\ u.calls = 0
  BY <1>2, NoTxIs DEF NoTx
<1>4. u = [NoTx EXCEPT !.spent = u.spent]
  BY <1>3
<1> HIDE DEF u
<1>5. tx' \in [Writer -> Tx] /\ tx'[w] = u /\ \A x \in Writer : x # w => tx'[x] = tx[x]
  BY <1>1, <1>3 DEF TInv
<1>6. VersionsOK' /\ LossesListed' /\ EmbeddingsKept'
  BY <1>1 DEF TInv, VersionsOK, LossesListed, EmbeddingsKept
<1>7. ASSUME NEW x \in Writer PROVE TxOK(x)'
  <2>1. CASE x = w
    BY <1>2, <1>3, <1>4, <1>5, <2>1, BoundAssumption DEF TxOK
  <2>2. CASE x # w
    BY <1>1, <1>5, <2>2 DEF TInv, TxOK, Base
  <2> QED
    BY <2>1, <2>2
<1> QED
  BY <1>5, <1>6, <1>7 DEF TInv

LEMMA StartOK == ASSUME TInv, NEW w \in Writer, Start(w) PROVE TInv'
<1>1. PICK b \in DOMAIN version : tx' = [tx EXCEPT ![w].base = b]
  BY DEF Start
<1>2. tx[w].base = 0 /\ UNCHANGED <<version, heads>>
  BY DEF Start
<1>3. tx[w] = [NoTx EXCEPT !.spent = tx[w].spent] /\ tx[w] \in Tx /\ tx[w].spent \in 0..MaxCalls
  BY <1>2 DEF TInv, TxOK, Tx
<1> DEFINE u == [tx[w] EXCEPT !.base = b]
<1>4. b \in Nat /\ b # 0
  BY DEF TInv, VersionsOK
<1>5. \A base : StagedOK(base, tx[w])
  BY <1>3, NoTxIs
<1>6. u \in Tx /\ u.base = b /\ u.calls = tx[w].calls /\ u.spent = tx[w].spent
  BY <1>3, <1>4 DEF Tx
<1>7. /\ u.new = tx[w].new /\ u.removed = tx[w].removed /\ u.pending = tx[w].pending
      /\ u.newEdges = tx[w].newEdges /\ u.removedEdges = tx[w].removedEdges /\ u.answer = tx[w].answer
  BY <1>3 DEF Tx
<1>8. tx' = [tx EXCEPT ![w] = u]
  BY <1>1
<1> HIDE DEF u
<1>9. \A base : StagedOK(base, u)
  BY <1>5, <1>7 DEF StagedOK
<1>10. tx' \in [Writer -> Tx] /\ tx'[w] = u /\ \A x \in Writer : x # w => tx'[x] = tx[x]
  BY <1>6, <1>8 DEF TInv
<1>11. VersionsOK' /\ LossesListed' /\ EmbeddingsKept'
  <2>1. VersionsOK /\ LossesListed /\ EmbeddingsKept
    BY DEF TInv
  <2>2. VersionsOK'
    BY <1>2, <2>1 DEF VersionsOK, Sound
  <2>3. LossesListed'
    BY <1>2, <2>1 DEF LossesListed
  <2>4. EmbeddingsKept'
    BY <1>2, <2>1 DEF EmbeddingsKept
  <2> QED
    BY <2>2, <2>3, <2>4
<1>12. ASSUME NEW x \in Writer PROVE TxOK(x)'
  <2>1. CASE x = w
    <3>1. tx[w].calls + tx[w].spent <= MaxCalls
      BY DEF TInv, TxOK
    <3>2. StagedOK(Base(w)', u)
      BY <1>9
    <3> QED
      BY <1>2, <1>4, <1>6, <1>10, <2>1, <3>1, <3>2 DEF TxOK, StagedOK
  <2>2. CASE x # w
    BY <1>2, <1>10, <2>2 DEF TInv, TxOK, Base
  <2> QED
    BY <2>1, <2>2
<1> QED
  BY <1>10, <1>11, <1>12 DEF TInv

LEMMA MergeSound ==
    ASSUME TInv, NEW index,
           LET nodes == UnionTrees(NodesOf(heads))
               edges == UnionTrees(EdgesOf(heads))
               lend  == Lenders(heads, nodes, edges)
           IN  index \in IF lend = {} THEN {BuildIndex(nodes, edges)} ELSE {version[h].index : h \in lend}
    PROVE  /\ Sound(MergedWith(heads, index)) /\ MergedWith(heads, index).parents = heads
           /\ \A h \in heads :
                 /\ \A n \in DOMAIN version[h].nodes \ MergedWith(heads, index).disputed.nodes :
                       /\ n \in DOMAIN MergedWith(heads, index).nodes
                       /\ MergedWith(heads, index).nodes[n] = version[h].nodes[n]
                 /\ \A e \in DOMAIN version[h].edges \ MergedWith(heads, index).disputed.edges :
                       /\ e \in DOMAIN MergedWith(heads, index).edges
                       /\ MergedWith(heads, index).edges[e] = version[h].edges[e]
<1> DEFINE N == NodesOf(heads)
           E == EdgesOf(heads)
           nodes == UnionTrees(N)
           edges == UnionTrees(E)
           lend == Lenders(heads, nodes, edges)
           v == MergedWith(heads, index)
<1>1. \A h \in heads : h \in DOMAIN version /\ Sound(version[h]) /\ version[h] \in Version
  BY DEF TInv, VersionsOK, Sound
<1>2. /\ N \in SUBSET Tree(NodeId, Value) /\ E \in SUBSET Tree(EdgeId, EdgeBlock)
      /\ \A h \in heads : version[h].nodes \in N /\ version[h].edges \in E
  BY <1>1 DEF NodesOf, EdgesOf, Version
<1>3. /\ nodes \in Tree(NodeId, Value) /\ DOMAIN nodes = UNION {DOMAIN t : t \in N}
      /\ edges \in Tree(EdgeId, EdgeBlock)
      /\ \A e \in DOMAIN edges : \E t \in E : e \in DOMAIN t /\ edges[e] = t[e]
      /\ Comparable(N) /\ Comparable(E)
  <2>1. Comparable(N) /\ Comparable(E)
    BY <1>2, Finite, TreesComparable
  <2>2. nodes \in Tree(NodeId, Value) /\ edges \in Tree(EdgeId, EdgeBlock)
    BY <1>2, <2>1, UnionIsTree
  <2>3. \A e \in DOMAIN edges : \E t \in E : e \in DOMAIN t /\ edges[e] = t[e]
    BY <2>1, UnionIs
  <2>4. DOMAIN nodes = UNION {DOMAIN t : t \in N}
    BY DEF UnionTrees
  <2> QED
    BY <2>1, <2>2, <2>3, <2>4
<1>4. /\ v.parents = heads /\ v.nodes = nodes /\ v.edges = edges /\ v.index = index
      /\ v.disputed.nodes = Disputed(N) /\ v.disputed.edges = Disputed(E)
  BY DEF MergedWith
<1>5. v.index \in Index /\ Serves(v)
  <2>1. CASE lend = {}
    BY <1>3, <1>4, <2>1, BuiltServes
  <2>2. ASSUME NEW h \in lend, index = version[h].index PROVE v.index \in Index /\ Serves(v)
    BY <1>1, <1>4, <2>2 DEF Lenders, Sound, Serves, Version, Index
  <2> QED
    BY <2>1, <2>2
<1>6. EndsIn(v.edges, DOMAIN v.nodes)
  <2> SUFFICES ASSUME NEW e \in DOMAIN edges
               PROVE  {Src[edges[e]], Dst[edges[e]]} \subseteq DOMAIN nodes
    BY <1>4 DEF EndsIn
  <2>1. PICK t \in E : e \in DOMAIN t /\ edges[e] = t[e]
    BY <1>3
  <2>2. PICK h \in heads : t = version[h].edges
    BY DEF EdgesOf
  <2>3. {Src[t[e]], Dst[t[e]]} \subseteq DOMAIN version[h].nodes
    BY <1>1, <2>1, <2>2 DEF Sound, EndsIn
  <2> QED
    BY <1>2, <1>3, <2>1, <2>3
<1>7. v \in Version
  <2>1. Disputed(N) \subseteq NodeId /\ Disputed(E) \subseteq EdgeId
    BY <1>2, TreeIs DEF Disputed
  <2>2. UNION {version[h].tombs : h \in heads} \subseteq NodeId
    BY <1>1 DEF Version
  <2>3. heads \in SUBSET Nat
    BY <1>1 DEF TInv, VersionsOK
  <2>4. index \in Index
    BY <1>4, <1>5
  <2> HIDE DEF N, E, nodes, edges
  <2>5. v = [parents |-> heads, nodes |-> nodes, edges |-> edges, index |-> index,
             tombs |-> UNION {version[h].tombs : h \in heads}, embedded |-> {},
             disputed |-> [nodes |-> Disputed(N), edges |-> Disputed(E)]]
    BY DEF MergedWith, N, E, nodes, edges
  <2> QED
    BY <1>3, <2>1, <2>2, <2>3, <2>4, <2>5 DEF Version, Index
<1>8. ASSUME NEW h \in heads
      PROVE  /\ \A n \in DOMAIN version[h].nodes \ Disputed(N) :
                   n \in DOMAIN nodes /\ nodes[n] = version[h].nodes[n]
             /\ \A e \in DOMAIN version[h].edges \ Disputed(E) :
                   e \in DOMAIN edges /\ edges[e] = version[h].edges[e]
  BY <1>2, <1>3, UnionListed
<1> HIDE DEF v
<1> QED
  BY <1>4, <1>5, <1>6, <1>7, <1>8 DEF Sound, v

LEMMA MergeOK == ASSUME TInv, MergeHeads PROVE TInv'
<1> DEFINE nodes == UnionTrees(NodesOf(heads))
           edges == UnionTrees(EdgesOf(heads))
           lend == Lenders(heads, nodes, edges)
<1>1. /\ \E g, h \in heads : g # h
      /\ heads' = {Len(version) + 1} /\ UNCHANGED tx
  BY DEF MergeHeads
<1>2. PICK index \in IF lend = {} THEN {BuildIndex(nodes, edges)} ELSE {version[h].index : h \in lend} :
          version' = Append(version, MergedWith(heads, index))
  BY DEF MergeHeads
<1> DEFINE v == MergedWith(heads, index)
<1>3. /\ Sound(v) /\ v.parents = heads
      /\ \A h \in heads :
            /\ \A n \in DOMAIN version[h].nodes \ v.disputed.nodes :
                  n \in DOMAIN v.nodes /\ v.nodes[n] = version[h].nodes[n]
            /\ \A e \in DOMAIN version[h].edges \ v.disputed.edges :
                  e \in DOMAIN v.edges /\ v.edges[e] = version[h].edges[e]
  BY MergeSound
<1> HIDE DEF v
<1>4. VersionsOK /\ LossesListed /\ EmbeddingsKept /\ heads \subseteq DOMAIN version
  BY DEF TInv, VersionsOK
<1>5. version' = Append(version, v)
  BY <1>2 DEF v
<1>6. /\ VersionsOK' /\ LossesListed' /\ EmbeddingsKept'
      /\ \A i \in DOMAIN version : i \in DOMAIN version' /\ version'[i] = version[i]
  <2>1. \A b \in v.parents : v.parents # {b}
    BY <1>1, <1>3
  <2> QED
    BY <1>1, <1>3, <1>4, <1>5, <2>1, VersionAdded
<1>7. ASSUME NEW w \in Writer PROVE TxOK(w)'
  <2>1. TxOK(w)
    BY DEF TInv
  <2>2. tx[w].base # 0 => tx[w].base \in DOMAIN version' /\ Base(w)' = Base(w)
    BY <1>1, <1>6, <2>1 DEF TxOK, Base
  <2>3. \A a, b : StagedOK(a, b)' <=> StagedOK(a, b)
    BY DEF StagedOK
  <2> QED
    BY <1>1, <2>1, <2>2, <2>3 DEF TxOK
<1> QED
  BY <1>1, <1>6, <1>7 DEF TInv

-----------------------------------------------------------------------------
LEMMA TNextOK == ASSUME TInv, [TxNext]_txVars PROVE TInv'
<1>1. CASE UNCHANGED txVars
  BY <1>1 DEF txVars, TInv, VersionsOK, LossesListed, EmbeddingsKept, TxOK, Base
<1>2. ASSUME NEW w \in Writer, Start(w) PROVE TInv'
  BY <1>2, StartOK
<1>3. ASSUME NEW w \in Writer, tx[w].base # 0,
             \/ \E n \in NodeId, v \in Value : AddNode(w, n, v)
             \/ \E n \in NodeId : \/ RemoveNode(w, n) \/ SetEmbedding(w, n)
                                  \/ TombstoneNode(w, n) \/ UntombstoneNode(w, n)
             \/ \E e \in EdgeId, b \in EdgeBlock : AddEdge(w, e, b)
             \/ \E e \in EdgeId : RemoveEdge(w, e)
             \/ \E v \in Value : ResolveOrCreateNode(w, v)
             \/ Commit(w) \/ CommitFails(w)
      PROVE  TInv'
  BY <1>3, AddNodeOK, RemoveNodeOK, TombstonesOK, AddEdgeOK, RemoveEdgeOK, ResolveOK, CommitOK,
     CommitFailsOK
<1> QED
  BY <1>1, <1>2, <1>3, MergeOK DEF TxNext

LEMMA TInvariant == TxSpec => []TInv
BY TInitOK, TNextOK, PTL DEF TxSpec

(***************************************************************************)
(* Types, and no id is both added and removed (add_node, remove_node,      *)
(* add_edge, remove_edge).                                                 *)
(***************************************************************************)
THEOREM StagedOnce == TxSpec => []TxTypeOK
<1>1. TInv => TxTypeOK
  BY NoTxIs DEF TInv, VersionsOK, TxOK, StagedOK, TxTypeOK, Tx
<1> QED
  BY <1>1, TInvariant, PTL

(***************************************************************************)
(* No edge of any version lacks an end, in spite of the commits that check *)
(* only what they add and the merges that check nothing (commit_opts,      *)
(* remove_node, build_merge_commit).                                       *)
(***************************************************************************)
THEOREM EdgesAlwaysHaveEnds == TxSpec => []EdgesHaveEnds
<1>1. TInv => EdgesHaveEnds
  BY DEF TInv, VersionsOK, Sound, EdgesHaveEnds
<1> QED
  BY <1>1, TInvariant, PTL

(***************************************************************************)
(* The index of every version serves that version, whether it was built,   *)
(* extended or lent (build_index_set, incremental_append_indexes).         *)
(***************************************************************************)
THEOREM IndexAlwaysServes == TxSpec => []IndexServes
<1>1. TInv => IndexServes
  BY DEF TInv, VersionsOK, Sound, IndexServes
<1> QED
  BY <1>1, TInvariant, PTL

(***************************************************************************)
(* What resolve_or_create_node returns is a node that the commit stores.   *)
(***************************************************************************)
THEOREM ResolvedAlwaysExists == TxSpec => []ResolvedExists
<1>1. ASSUME TInv PROVE ResolvedExists
  <2> SUFFICES ASSUME NEW w \in Writer, tx[w].answer # 0 PROVE tx[w].answer \in DOMAIN StagedNodes(w)
    BY DEF ResolvedExists
  <2>1. CASE tx[w].base = 0
    <3>1. tx[w] = [NoTx EXCEPT !.spent = tx[w].spent]
      BY <1>1, <2>1 DEF TInv, TxOK
    <3>2. tx[w].answer = 0
      BY <3>1 DEF NoTx
    <3> QED
      BY <3>2
  <2>2. CASE tx[w].base # 0
    BY <1>1, <2>2, BaseOK DEF StagedOK, StagedNodes, Rebuild
  <2> QED
    BY <2>1, <2>2
<1> QED
  BY <1>1, TInvariant, PTL

(***************************************************************************)
(* A commit keeps the embedding of every node block that it keeps (pruning *)
(* of the sidecar in commit_opts).                                         *)
(***************************************************************************)
THEOREM EmbeddingsAlwaysKept == TxSpec => []EmbeddingsKept
<1>1. TInv => EmbeddingsKept
  BY DEF TInv
<1> QED
  BY <1>1, TInvariant, PTL

(***************************************************************************)
(* What a merge commit does not have of a version it merges is listed in   *)
(* it (build_merge_commit).                                                *)
(***************************************************************************)
THEOREM LossesAlwaysListed == TxSpec => []LossesListed
<1>1. TInv => LossesListed
  BY DEF TInv
<1> QED
  BY <1>1, TInvariant, PTL

-----------------------------------------------------------------------------
(***************************************************************************)
(* Transactions implement WorkingCopy.                                     *)
(***************************************************************************)
LEMMA SameFunction ==
    ASSUME NEW f, NEW g, f = [k \in DOMAIN f |-> f[k]], g = [k \in DOMAIN g |-> g[k]],
           DOMAIN f = DOMAIN g, \A k \in DOMAIN f : f[k] = g[k]
    PROVE  f = g
OBVIOUS

\* Staging an addition, or a removal, is making it on the private copy.
LEMMA StagedAddition ==
    ASSUME NEW base, NEW new, NEW removed, NEW adds
    PROVE  Rebuild(base, Rebuild(new, adds, {}), removed \ DOMAIN adds)
             = Rebuild(Rebuild(base, new, removed), adds, {})
<1> DEFINE f == Rebuild(base, Rebuild(new, adds, {}), removed \ DOMAIN adds)
           g == Rebuild(Rebuild(base, new, removed), adds, {})
<1>1. DOMAIN f = DOMAIN g /\ \A k \in DOMAIN f : f[k] = g[k]
  BY DEF Rebuild
<1>2. f = [k \in DOMAIN f |-> f[k]] /\ g = [k \in DOMAIN g |-> g[k]]
  BY DEF Rebuild
<1> HIDE DEF f, g
<1>3. f = g
  BY <1>1, <1>2, SameFunction
<1> QED
  BY <1>3 DEF f, g

LEMMA StagedRemoval ==
    ASSUME NEW base, NEW new, NEW removed, NEW gone
    PROVE  Rebuild(base, Rebuild(new, EmptyTree, gone), removed \cup gone)
             = Rebuild(Rebuild(base, new, removed), EmptyTree, gone)
<1> DEFINE f == Rebuild(base, Rebuild(new, EmptyTree, gone), removed \cup gone)
           g == Rebuild(Rebuild(base, new, removed), EmptyTree, gone)
<1>1. DOMAIN EmptyTree = {}
  BY EmptyIsTree
<1>2. DOMAIN f = DOMAIN g /\ \A k \in DOMAIN f : f[k] = g[k]
  BY <1>1 DEF Rebuild
<1>3. f = [k \in DOMAIN f |-> f[k]] /\ g = [k \in DOMAIN g |-> g[k]]
  BY DEF Rebuild
<1> HIDE DEF f, g
<1>4. f = g
  BY <1>2, <1>3, SameFunction
<1> QED
  BY <1>4 DEF f, g

LEMMA NothingStaged ==
    ASSUME NEW K, NEW V, NEW t \in Tree(K, V)
    PROVE  Rebuild(t, EmptyTree, {}) = t
<1> DEFINE f == Rebuild(t, EmptyTree, {})
<1>1. DOMAIN EmptyTree = {}
  BY EmptyIsTree
<1>2. DOMAIN f = DOMAIN t /\ \A k \in DOMAIN f : f[k] = t[k]
  BY <1>1 DEF Rebuild
<1>3. f = [k \in DOMAIN f |-> f[k]] /\ t = [k \in DOMAIN t |-> t[k]]
  BY TreeIs DEF Rebuild
<1> HIDE DEF f
<1>4. f = t
  BY <1>2, <1>3, SameFunction
<1> QED
  BY <1>4 DEF f

LEMMA WCRebuild == \A base, adds, removals : WC!Rebuild(base, adds, removals) = Rebuild(base, adds, removals)
BY DEF WC!Rebuild, Rebuild

\* What the copies and the graphs become when a writer gets another transaction.
CopyFrom(t) == [base |-> t.base, nodes |-> Rebuild(version[t.base].nodes, t.new, t.removed),
                edges |-> Rebuild(version[t.base].edges, t.newEdges, t.removedEdges)]

\* A copy as a record, and as what it is after a change of some of its fields.
CopyRecord(b, nodes, edges) == [base |-> b, nodes |-> nodes, edges |-> edges]

WithNodes(c, nodes) == [c EXCEPT !.nodes = nodes]

WithEdges(c, edges) == [c EXCEPT !.edges = edges]

WithBoth(c, nodes, edges) == [c EXCEPT !.nodes = nodes, !.edges = edges]

LEMMA CopyWith ==
    ASSUME NEW c, NEW b, NEW nodes, NEW edges, c = CopyRecord(b, nodes, edges), NEW x, NEW y
    PROVE  /\ WithNodes(c, x) = CopyRecord(b, x, edges)
           /\ WithEdges(c, y) = CopyRecord(b, nodes, y)
           /\ WithBoth(c, x, y) = CopyRecord(b, x, y)
<1>1. c \in [base : {b}, nodes : {nodes}, edges : {edges}]
  BY DEF CopyRecord
<1>2. WithNodes(c, x) = CopyRecord(b, x, edges)
  BY <1>1 DEF CopyRecord, WithNodes
<1>3. WithEdges(c, y) = CopyRecord(b, nodes, y)
  BY <1>1 DEF CopyRecord, WithEdges
<1>4. WithBoth(c, x, y) = CopyRecord(b, x, y)
  <2> DEFINE d == WithBoth(c, x, y)
  <2>1. d \in [base : {b}, nodes : {x}, edges : {y}]
    BY <1>1 DEF WithBoth
  <2> HIDE DEF d
  <2>2. d = CopyRecord(b, x, y)
    BY <2>1 DEF CopyRecord
  <2> QED
    BY <2>2 DEF d
<1> QED
  BY <1>2, <1>3, <1>4

LEMMA CopyIs ==
    ASSUME TInv, NEW w \in Writer, tx[w].base # 0
    PROVE  /\ Copies[w] = CopyFrom(tx[w]) /\ Copies[w] # WC!Idle
           /\ Copies[w].base = tx[w].base /\ Copies[w].nodes = StagedNodes(w)
           /\ Copies[w].edges = StagedEdges(w)
           /\ Copies[w] = CopyRecord(tx[w].base, StagedNodes(w), StagedEdges(w))
<1>1. Copies[w] = CopyFrom(tx[w])
  BY DEF Copies, CopyOf, CopyFrom, StagedNodes, StagedEdges, Base
<1>2. CopyFrom(tx[w]).base # WC!Idle.base
  BY DEF CopyFrom, WC!Idle
<1> QED
  BY <1>1, <1>2 DEF CopyFrom, CopyRecord, StagedNodes, StagedEdges, Base

LEMMA StageCopies ==
    ASSUME TInv, NEW w \in Writer, tx[w].base # 0, NEW t \in Tx, t.base = tx[w].base, NEW a, Stage(w, t, a)
    PROVE  Graphs' = Graphs /\ Copies' = [Copies EXCEPT ![w] = CopyFrom(t)]
<1> DEFINE u == [t EXCEPT !.answer = a, !.calls = tx[w].calls + 1]
<1>1. tx' = [tx EXCEPT ![w] = u] /\ version' = version
  BY DEF Stage
<1>2. /\ u.base = t.base /\ u.new = t.new /\ u.removed = t.removed
      /\ u.newEdges = t.newEdges /\ u.removedEdges = t.removedEdges
  BY DEF Tx
<1> HIDE DEF u
<1>3. Graphs' = Graphs
  BY <1>1 DEF Graphs, GraphOf
<1>4. tx'[w] = u /\ \A x \in Writer : x # w => tx'[x] = tx[x]
  BY <1>1 DEF TInv
<1>5. CopyOf(w)' = CopyFrom(t)
  BY <1>1, <1>2, <1>4 DEF CopyOf, CopyFrom, StagedNodes, StagedEdges, Base
<1>6. ASSUME NEW x \in Writer, x # w PROVE CopyOf(x)' = CopyOf(x)
  BY <1>1, <1>4, <1>6 DEF CopyOf, StagedNodes, StagedEdges, Base
<1>7. Copies' = [x \in Writer |-> IF x = w THEN CopyFrom(t) ELSE CopyOf(x)]
  BY <1>5, <1>6 DEF Copies
<1> QED
  BY <1>3, <1>7 DEF Copies

LEMMA NodeAddedCopies ==
    ASSUME TInv, NEW w \in Writer, tx[w].base # 0, NEW n \in NodeId, NEW v \in Value, NEW a \in {0, n},
           Stage(w, WithNode(tx[w], n, v), a)
    PROVE  WC!PutNode(w, n, v)
<1> DEFINE t == WithNode(tx[w], n, v)
<1>1. t \in Tx /\ t.base = tx[w].base /\ tx[w] \in Tx
  BY NodeAdded, BaseOK
<1>2. Graphs' = Graphs /\ Copies' = [Copies EXCEPT ![w] = CopyFrom(t)]
  BY <1>1, StageCopies
<1>3. /\ t.new = Rebuild(tx[w].new, Single(n, v), {}) /\ t.removed = tx[w].removed \ DOMAIN Single(n, v)
      /\ t.newEdges = tx[w].newEdges /\ t.removedEdges = tx[w].removedEdges
  <2>1. DOMAIN Single(n, v) = {n}
    BY DEF Single
  <2> QED
    BY <1>1, <2>1 DEF WithNode, Tx
<1> HIDE DEF t
<1>4. CopyFrom(t).nodes = Rebuild(StagedNodes(w), Single(n, v), {}) /\ CopyFrom(t).edges = StagedEdges(w)
  BY <1>1, <1>3, StagedAddition DEF CopyFrom, StagedNodes, StagedEdges, Base
<1>5. CopyFrom(t) = [Copies[w] EXCEPT !.nodes = Rebuild(Copies[w].nodes, Single(n, v), {})]
  <2>1. CopyFrom(t) = CopyRecord(tx[w].base, Rebuild(StagedNodes(w), Single(n, v), {}), StagedEdges(w))
    BY <1>1, <1>4 DEF CopyFrom, CopyRecord
  <2>2. /\ Copies[w] = CopyRecord(tx[w].base, StagedNodes(w), StagedEdges(w))
        /\ Copies[w].nodes = StagedNodes(w)
    BY CopyIs
  <2>3. CopyFrom(t) = WithNodes(Copies[w], Rebuild(Copies[w].nodes, Single(n, v), {}))
    BY <2>1, <2>2, CopyWith
  <2> QED
    BY <2>3 DEF WithNodes
<1>6. Copies' = [Copies EXCEPT ![w].nodes = Rebuild(Copies[w].nodes, Single(n, v), {})]
  BY <1>2, <1>5
<1>7. Single(n, v) = [x \in {n} |-> v]
  BY DEF Single
<1> QED
  BY <1>2, <1>6, <1>7, CopyIs, WCRebuild DEF WC!PutNode, WC!SetNodes

LEMMA RemoveNodeCopies ==
    ASSUME TInv, NEW w \in Writer, tx[w].base # 0, NEW n \in NodeId, RemoveNode(w, n)
    PROVE  WC!DropNode(w, n)
<1> DEFINE old == tx[w]
           gone == GoneEdges(w, n)
           t == WithoutNode(w, n)
           b == Base(w)
           lost == gone \cap DOMAIN StagedEdges(w)
<1>1. /\ old \in Tx /\ StagedOK(b, old) /\ b \in Version /\ b.index.adjacent = b.edges
      /\ old.base \in DOMAIN version
  BY BaseOK
<1>2. /\ t.base = old.base /\ t.new = Rebuild(old.new, EmptyTree, {n})
      /\ t.removed = old.removed \cup {n} /\ t.newEdges = Rebuild(old.newEdges, EmptyTree, gone)
      /\ t.removedEdges = old.removedEdges \cup gone
  BY <1>1 DEF WithoutNode, Tx
<1>3. Graphs' = Graphs /\ Copies' = [Copies EXCEPT ![w] = CopyFrom(t)]
  <2> DEFINE u == [t EXCEPT !.answer = 0, !.calls = old.calls + 1]
  <2>1. tx' = [tx EXCEPT ![w] = u] /\ version' = version
    BY DEF RemoveNode, Stage
  <2>2. /\ u.base = t.base /\ u.new = t.new /\ u.removed = t.removed
        /\ u.newEdges = t.newEdges /\ u.removedEdges = t.removedEdges
    BY <1>1 DEF WithoutNode, Tx
  <2> HIDE DEF u, t
  <2>3. Graphs' = Graphs
    BY <2>1 DEF Graphs, GraphOf
  <2>4. tx'[w] = u /\ \A x \in Writer : x # w => tx'[x] = tx[x]
    BY <2>1 DEF TInv
  <2>5. CopyOf(w)' = CopyFrom(t)
    BY <1>2, <2>1, <2>2, <2>4 DEF CopyOf, CopyFrom, StagedNodes, StagedEdges, Base
  <2>6. ASSUME NEW x \in Writer, x # w PROVE CopyOf(x)' = CopyOf(x)
    BY <2>1, <2>4, <2>6 DEF CopyOf, StagedNodes, StagedEdges, Base
  <2>7. Copies' = [x \in Writer |-> IF x = w THEN CopyFrom(t) ELSE CopyOf(x)]
    BY <2>5, <2>6 DEF Copies
  <2> QED
    BY <2>3, <2>7 DEF Copies
<1> HIDE DEF t
<1>4. CopyFrom(t).nodes = Rebuild(StagedNodes(w), EmptyTree, {n})
  BY <1>2, StagedRemoval DEF CopyFrom, StagedNodes, Base
<1>5. CopyFrom(t).edges = Rebuild(StagedEdges(w), EmptyTree, gone)
  BY <1>2, StagedRemoval DEF CopyFrom, StagedEdges, Base
<1>6. Rebuild(StagedEdges(w), EmptyTree, gone) = Rebuild(StagedEdges(w), EmptyTree, lost)
  <2> DEFINE f == Rebuild(StagedEdges(w), EmptyTree, gone)
             g == Rebuild(StagedEdges(w), EmptyTree, lost)
  <2>1. DOMAIN f = DOMAIN g /\ \A k \in DOMAIN f : f[k] = g[k]
    BY EmptyIsTree DEF Rebuild
  <2>2. f = [k \in DOMAIN f |-> f[k]] /\ g = [k \in DOMAIN g |-> g[k]]
    BY DEF Rebuild
  <2> HIDE DEF f, g
  <2>3. f = g
    BY <2>1, <2>2, SameFunction
  <2> QED
    BY <2>3 DEF f, g
<1>7. /\ DOMAIN StagedEdges(w) = (DOMAIN b.edges \ old.removedEdges) \cup DOMAIN old.newEdges
      /\ \A e \in DOMAIN old.newEdges : StagedEdges(w)[e] = old.newEdges[e]
      /\ \A e \in DOMAIN b.edges : e \notin DOMAIN old.newEdges /\ e \notin old.removedEdges
                                        => StagedEdges(w)[e] = b.edges[e]
  BY DEF StagedEdges, Rebuild
<1>8. \A e : e \in gone <=> \/ e \in DOMAIN b.edges /\ (Src[b.edges[e]] = n \/ Dst[b.edges[e]] = n)
                            \/ /\ e \in DOMAIN old.newEdges
                               /\ Src[old.newEdges[e]] = n \/ Dst[old.newEdges[e]] = n
  BY <1>1 DEF GoneEdges, Touches
<1> HIDE DEF gone
<1>9. /\ WC!Incident(StagedEdges(w), n) \subseteq lost
      /\ lost \subseteq WC!Incident(StagedEdges(w), n) \cup WC!Incident(b.edges, n)
  BY <1>7, <1>8 DEF WC!Incident
<1>10. /\ Copies[w].nodes = StagedNodes(w) /\ Copies[w].edges = StagedEdges(w) /\ Copies[w] # WC!Idle
       /\ Copies[w].base = old.base /\ Copies[w] = CopyFrom(old)
  BY CopyIs
<1>11. Graphs[Copies[w].base].edges = b.edges
  BY <1>1, <1>10 DEF Graphs, GraphOf, Base
<1>12. CopyFrom(t) = [Copies[w] EXCEPT !.nodes = Rebuild(StagedNodes(w), EmptyTree, {n}),
                                       !.edges = Rebuild(StagedEdges(w), EmptyTree, lost)]
  <2>1. CopyFrom(t) = CopyRecord(old.base, Rebuild(StagedNodes(w), EmptyTree, {n}),
                                 Rebuild(StagedEdges(w), EmptyTree, lost))
    BY <1>2, <1>4, <1>5, <1>6 DEF CopyFrom, CopyRecord
  <2>2. Copies[w] = CopyRecord(old.base, StagedNodes(w), StagedEdges(w))
    BY CopyIs
  <2> HIDE DEF lost, old
  <2>3. CopyFrom(t) = WithBoth(Copies[w], Rebuild(StagedNodes(w), EmptyTree, {n}),
                                          Rebuild(StagedEdges(w), EmptyTree, lost))
    BY <2>1, <2>2, CopyWith
  <2> QED
    BY <2>3 DEF WithBoth
<1>13. EmptyTree = [x \in {} |-> 0]
  BY DEF EmptyTree
<1>14. Copies' = [Copies EXCEPT ![w].nodes = WC!Rebuild(Copies[w].nodes, [x \in {} |-> 0], {n}),
                                ![w].edges = WC!Rebuild(Copies[w].edges, [x \in {} |-> 0], lost)]
  <2>1. [Copies EXCEPT ![w].nodes = WC!Rebuild(Copies[w].nodes, [x \in {} |-> 0], {n}),
                       ![w].edges = WC!Rebuild(Copies[w].edges, [x \in {} |-> 0], lost)]
          = [Copies EXCEPT ![w] = [Copies[w] EXCEPT
                 !.nodes = WC!Rebuild(Copies[w].nodes, [x \in {} |-> 0], {n}),
                 !.edges = WC!Rebuild(Copies[w].edges, [x \in {} |-> 0], lost)]]
    BY DEF Copies
  <2> QED
    BY <1>3, <1>10, <1>12, <1>13, <2>1, WCRebuild
<1>15. lost \in SUBSET DOMAIN Copies[w].edges
  BY <1>10
<1> QED
  BY <1>3, <1>9, <1>10, <1>11, <1>14, <1>15 DEF WC!DropNode

LEMMA EdgeCopies ==
    ASSUME TInv, NEW w \in Writer, tx[w].base # 0,
           NEW newEdges \in Tree(EdgeId, EdgeBlock), NEW removedEdges \in SUBSET EdgeId,
           NEW t, t = [tx[w] EXCEPT !.newEdges = newEdges, !.removedEdges = removedEdges], Stage(w, t, 0)
    PROVE  /\ Graphs' = Graphs /\ Copies[w] # WC!Idle
           /\ Copies' = [Copies EXCEPT ![w].edges = Rebuild(Base(w).edges, newEdges, removedEdges)]
<1> DEFINE old == tx[w]
<1>1. old \in Tx
  BY BaseOK
<1>2. /\ t \in Tx /\ t.base = old.base /\ t.new = old.new /\ t.removed = old.removed
      /\ t.newEdges = newEdges /\ t.removedEdges = removedEdges
  BY <1>1 DEF Tx
<1>3. Graphs' = Graphs /\ Copies' = [Copies EXCEPT ![w] = CopyFrom(t)]
  BY <1>2, StageCopies
<1>4. CopyFrom(t) = CopyRecord(old.base, StagedNodes(w), Rebuild(Base(w).edges, newEdges, removedEdges))
  BY <1>2 DEF CopyFrom, CopyRecord, Base, StagedNodes
<1>5. Copies[w] = CopyRecord(old.base, StagedNodes(w), StagedEdges(w)) /\ Copies[w] # WC!Idle
  BY CopyIs
<1>6. CopyFrom(t) = [Copies[w] EXCEPT !.edges = Rebuild(Base(w).edges, newEdges, removedEdges)]
  <2>1. CopyFrom(t) = WithEdges(Copies[w], Rebuild(Base(w).edges, newEdges, removedEdges))
    BY <1>4, <1>5, CopyWith
  <2> QED
    BY <2>1 DEF WithEdges
<1> QED
  BY <1>3, <1>5, <1>6

LEMMA AddEdgeCopies ==
    ASSUME TInv, NEW w \in Writer, tx[w].base # 0, NEW e \in EdgeId, NEW b \in EdgeBlock, AddEdge(w, e, b)
    PROVE  WC!PutEdge(w, e, b)
<1> DEFINE newEdges == Rebuild(tx[w].newEdges, Single(e, b), {})
           removedEdges == tx[w].removedEdges \ {e}
           t == [tx[w] EXCEPT !.newEdges = newEdges, !.removedEdges = removedEdges]
<1>1. newEdges \in Tree(EdgeId, EdgeBlock) /\ removedEdges \in SUBSET EdgeId
  <2>1. tx[w].newEdges \in Tree(EdgeId, EdgeBlock) /\ tx[w].removedEdges \subseteq EdgeId
    BY BaseOK DEF Tx
  <2> QED
    BY <2>1, SingleIsTree, RebuildTree
<1>2. Stage(w, t, 0)
  BY DEF AddEdge
<1>3. Copies[w].edges = Rebuild(Base(w).edges, tx[w].newEdges, tx[w].removedEdges)
  BY CopyIs DEF StagedEdges
<1>4. removedEdges = tx[w].removedEdges \ DOMAIN Single(e, b)
  BY DEF Single
<1>5. Rebuild(Base(w).edges, newEdges, removedEdges) = Rebuild(Copies[w].edges, Single(e, b), {})
  BY <1>3, <1>4, StagedAddition
<1>6. t = [tx[w] EXCEPT !.newEdges = newEdges, !.removedEdges = removedEdges]
  OBVIOUS
<1> HIDE DEF newEdges, removedEdges, t
<1>7. /\ Graphs' = Graphs /\ Copies[w] # WC!Idle
      /\ Copies' = [Copies EXCEPT ![w].edges = Rebuild(Base(w).edges, newEdges, removedEdges)]
  BY <1>1, <1>2, <1>6, EdgeCopies
<1>8. Single(e, b) = [x \in {e} |-> b]
  BY DEF Single
<1> QED
  BY <1>5, <1>7, <1>8, WCRebuild DEF WC!PutEdge, WC!SetEdges

LEMMA RemoveEdgeCopies ==
    ASSUME TInv, NEW w \in Writer, tx[w].base # 0, NEW e \in EdgeId, RemoveEdge(w, e)
    PROVE  WC!DropEdge(w, e)
<1> DEFINE newEdges == Rebuild(tx[w].newEdges, EmptyTree, {e})
           removedEdges == tx[w].removedEdges \cup {e}
           t == [tx[w] EXCEPT !.newEdges = newEdges, !.removedEdges = removedEdges]
<1>1. newEdges \in Tree(EdgeId, EdgeBlock) /\ removedEdges \in SUBSET EdgeId
  <2>1. tx[w].newEdges \in Tree(EdgeId, EdgeBlock) /\ tx[w].removedEdges \subseteq EdgeId
    BY BaseOK DEF Tx
  <2> QED
    BY <2>1, EmptyIsTree, RebuildTree
<1>2. Stage(w, t, 0)
  BY DEF RemoveEdge
<1>3. Copies[w].edges = Rebuild(Base(w).edges, tx[w].newEdges, tx[w].removedEdges)
  BY CopyIs DEF StagedEdges
<1>4. Rebuild(Base(w).edges, newEdges, removedEdges) = Rebuild(Copies[w].edges, EmptyTree, {e})
  BY <1>3, StagedRemoval
<1>5. t = [tx[w] EXCEPT !.newEdges = newEdges, !.removedEdges = removedEdges]
  OBVIOUS
<1> HIDE DEF newEdges, removedEdges, t
<1>6. /\ Graphs' = Graphs /\ Copies[w] # WC!Idle
      /\ Copies' = [Copies EXCEPT ![w].edges = Rebuild(Base(w).edges, newEdges, removedEdges)]
  BY <1>1, <1>2, <1>5, EdgeCopies
<1>7. EmptyTree = [x \in {} |-> 0]
  BY DEF EmptyTree
<1> QED
  BY <1>4, <1>6, <1>7, WCRebuild DEF WC!DropEdge, WC!SetEdges

\* Tombstones and embeddings are not part of the graph.
LEMMA MarkCopies ==
    ASSUME TInv, NEW w \in Writer, tx[w].base # 0, NEW t, NEW a, Stage(w, t, a),
           \E bury, unbury, embed : t = [tx[w] EXCEPT !.bury = bury, !.unbury = unbury, !.embed = embed]
    PROVE  Graphs' = Graphs /\ Copies' = Copies
<1>1. PICK bury, unbury, embed : t = [tx[w] EXCEPT !.bury = bury, !.unbury = unbury, !.embed = embed]
  OBVIOUS
<1>2. tx[w] \in Tx
  BY BaseOK
<1> DEFINE u == [t EXCEPT !.answer = a, !.calls = tx[w].calls + 1]
<1>3. tx' = [tx EXCEPT ![w] = u] /\ version' = version
  BY DEF Stage
<1>4. /\ u.base = tx[w].base /\ u.new = tx[w].new /\ u.removed = tx[w].removed
      /\ u.newEdges = tx[w].newEdges /\ u.removedEdges = tx[w].removedEdges
  BY <1>1, <1>2 DEF Tx
<1> HIDE DEF u
<1>5. tx'[w] = u /\ \A x \in Writer : x # w => tx'[x] = tx[x]
  BY <1>3 DEF TInv
<1>6. ASSUME NEW x \in Writer PROVE CopyOf(x)' = CopyOf(x)
  <2>1. CASE x = w
    BY <1>3, <1>4, <1>5, <2>1 DEF CopyOf, StagedNodes, StagedEdges, Base
  <2>2. CASE x # w
    BY <1>3, <1>5, <2>2 DEF CopyOf, StagedNodes, StagedEdges, Base
  <2> QED
    BY <2>1, <2>2
<1> QED
  BY <1>3, <1>6 DEF Graphs, GraphOf, Copies

\* The graphs are those of the versions, and grow with them.
LEMMA GraphsGrow ==
    ASSUME TInv, NEW v \in Version, version' = Append(version, v)
    PROVE  /\ Len(Graphs) = Len(version) /\ DOMAIN Graphs = 1..Len(version)
           /\ Graphs' = Append(Graphs, GraphOf(v)) /\ Graphs'[Len(Graphs) + 1] = GraphOf(v)
           /\ \A i \in DOMAIN version : version'[i] = version[i]
<1>1. version \in Seq(Version) /\ Len(version) \in Nat
  BY DEF TInv, VersionsOK
<1>2. Graphs = [i \in 1..Len(version) |-> GraphOf(version[i])]
  BY <1>1 DEF Graphs
<1>3. Graphs \in Seq({GraphOf(version[i]) : i \in 1..Len(version)}) /\ Len(Graphs) = Len(version)
  BY <1>1, <1>2
<1>4. /\ DOMAIN version' = 1..(Len(version) + 1) /\ version'[Len(version) + 1] = v
      /\ \A i \in 1..Len(version) : version'[i] = version[i]
  <2>1. /\ version' \in Seq(Version) /\ DOMAIN version = 1..Len(version)
        /\ DOMAIN version' = DOMAIN version \cup {Len(version) + 1}
        /\ \A i \in DOMAIN version : version'[i] = version[i]
        /\ version'[Len(version) + 1] = v
    BY <1>1
  <2>2. 1..(Len(version) + 1) = 1..Len(version) \cup {Len(version) + 1}
    BY <1>1
  <2> QED
    BY <2>1, <2>2
<1>5. Graphs' = [i \in 1..(Len(version) + 1) |-> GraphOf(version'[i])]
  BY <1>4 DEF Graphs, GraphOf
<1>6. Append(Graphs, GraphOf(v))
        = [i \in 1..(Len(version) + 1) |-> IF i = Len(version) + 1 THEN GraphOf(v) ELSE Graphs[i]]
  <2> DEFINE G == {GraphOf(version[i]) : i \in 1..Len(version)} \cup {GraphOf(v)}
  <2>1. Graphs \in Seq(G) /\ GraphOf(v) \in G
    BY <1>1, <1>2
  <2> HIDE DEF G
  <2>2. /\ Append(Graphs, GraphOf(v)) \in Seq(G) /\ Len(Append(Graphs, GraphOf(v))) = Len(version) + 1
        /\ \A i \in 1..Len(version) : Append(Graphs, GraphOf(v))[i] = Graphs[i]
        /\ Append(Graphs, GraphOf(v))[Len(version) + 1] = GraphOf(v)
    BY <1>3, <2>1, AppendProperties
  <2>3. \A i \in 1..(Len(version) + 1) : i # Len(version) + 1 => i \in 1..Len(version)
    BY <1>1
  <2> DEFINE A == Append(Graphs, GraphOf(v))
  <2>4. A = [i \in 1..(Len(version) + 1) |-> A[i]]
    <3>1. A \in [1..Len(A) -> G]
      BY <2>2, LenProperties
    <3> QED
      BY <2>2, <3>1
  <2>5. \A i \in 1..(Len(version) + 1) :
            A[i] = IF i = Len(version) + 1 THEN GraphOf(v) ELSE Graphs[i]
    BY <2>2, <2>3
  <2> HIDE DEF A
  <2>6. A = [i \in 1..(Len(version) + 1) |-> IF i = Len(version) + 1 THEN GraphOf(v) ELSE Graphs[i]]
    BY <2>4, <2>5
  <2> QED
    BY <2>6 DEF A
<1>7. \A i \in 1..(Len(version) + 1) :
          GraphOf(version'[i]) = IF i = Len(version) + 1 THEN GraphOf(v) ELSE Graphs[i]
  <2>1. \A i \in 1..(Len(version) + 1) : i # Len(version) + 1 => i \in 1..Len(version)
    BY <1>1
  <2> QED
    BY <1>2, <1>4, <2>1
<1>8. Graphs' = Append(Graphs, GraphOf(v))
  BY <1>5, <1>6, <1>7
<1> QED
  BY <1>1, <1>2, <1>3, <1>4, <1>5, <1>8

\* A writer whose transaction stays has the same copy when a version is stored.
LEMMA CopyStays ==
    ASSUME TInv, NEW x \in Writer, tx'[x] = tx[x], \A i \in DOMAIN version : version'[i] = version[i]
    PROVE  CopyOf(x)' = CopyOf(x)
<1>1. CASE tx[x].base = 0
  BY <1>1 DEF CopyOf
<1>2. CASE tx[x].base # 0
  <2>1. version'[tx[x].base] = version[tx[x].base]
    BY <1>2, BaseOK
  <2> QED
    BY <1>2, <2>1 DEF CopyOf, StagedNodes, StagedEdges, Base
<1> QED
  BY <1>1, <1>2

LEMMA OneCopyChanges ==
    ASSUME NEW w \in Writer, NEW c, CopyOf(w)' = c, \A x \in Writer : x # w => CopyOf(x)' = CopyOf(x)
    PROVE  Copies' = [Copies EXCEPT ![w] = c]
<1>1. Copies' = [x \in Writer |-> IF x = w THEN c ELSE CopyOf(x)]
  BY DEF Copies
<1> QED
  BY <1>1 DEF Copies

LEMMA StartBegins ==
    ASSUME TInv, NEW w \in Writer, Start(w)
    PROVE  \E b \in DOMAIN Graphs : WC!Begin(w, b)
<1>1. PICK b \in DOMAIN version : tx' = [tx EXCEPT ![w].base = b]
  BY DEF Start
<1>2. tx[w].base = 0 /\ version' = version /\ tx[w] \in Tx /\ tx \in [Writer -> Tx]
  BY DEF Start, TInv, TxOK
<1>3. tx[w] = [NoTx EXCEPT !.spent = tx[w].spent]
  BY <1>2 DEF TInv, TxOK
<1>4. /\ tx[w].new = EmptyTree /\ tx[w].removed = {} /\ tx[w].newEdges = EmptyTree
      /\ tx[w].removedEdges = {}
  BY <1>3 DEF NoTx
<1>5. tx'[w] = [tx[w] EXCEPT !.base = b] /\ \A x \in Writer : x # w => tx'[x] = tx[x]
  BY <1>1, <1>2
<1>6. /\ tx'[w].base = b /\ tx'[w].new = EmptyTree /\ tx'[w].removed = {}
      /\ tx'[w].newEdges = EmptyTree /\ tx'[w].removedEdges = {}
  BY <1>2, <1>4, <1>5 DEF Tx
<1>7. version[b] \in Version /\ b \in Nat /\ b # 0
  BY DEF TInv, VersionsOK, Sound
<1>8. version[b].nodes \in Tree(NodeId, Value) /\ version[b].edges \in Tree(EdgeId, EdgeBlock)
  BY <1>7 DEF Version
<1>9. /\ Rebuild(version[b].nodes, EmptyTree, {}) = version[b].nodes
      /\ Rebuild(version[b].edges, EmptyTree, {}) = version[b].edges
  BY <1>8, NothingStaged
<1>10. CopyOf(w)' = [base |-> b, nodes |-> version[b].nodes, edges |-> version[b].edges]
  BY <1>2, <1>6, <1>7, <1>9 DEF CopyOf, StagedNodes, StagedEdges, Base
<1>11. Copies' = [Copies EXCEPT ![w] = [base |-> b, nodes |-> version[b].nodes, edges |-> version[b].edges]]
  BY <1>2, <1>5, <1>10, CopyStays, OneCopyChanges
<1>12. /\ b \in DOMAIN Graphs /\ Graphs[b].nodes = version[b].nodes /\ Graphs[b].edges = version[b].edges
       /\ Graphs' = Graphs
  BY <1>2 DEF Graphs, GraphOf
<1>13. Copies[w] = WC!Idle
  BY <1>2 DEF Copies, CopyOf, WC!Idle
<1> QED
  BY <1>11, <1>12, <1>13 DEF WC!Begin

LEMMA CommitPublishes ==
    ASSUME TInv, NEW w \in Writer, tx[w].base # 0, Commit(w)
    PROVE  WC!Publish(w)
<1> DEFINE v == [parents |-> {tx[w].base}, nodes |-> StagedNodes(w), edges |-> StagedEdges(w),
                 index |-> NewIndex(w), tombs |-> (Base(w).tombs \cup tx[w].bury) \ tx[w].unbury,
                 embedded |-> Embedded(w), disputed |-> NothingDisputed]
<1>1. Checked(w) /\ version' = Append(version, v)
  BY DEF Commit
<1>2. tx'[w] = [NoTx EXCEPT !.spent = tx[w].spent + tx[w].calls] /\ \A x \in Writer : x # w => tx'[x] = tx[x]
  BY DEF Commit, TInv
<1>3. EndsIn(StagedEdges(w), DOMAIN StagedNodes(w)) /\ v \in Version
  BY <1>1, CommitSound DEF Sound
<1>4. GraphOf(v) = [nodes |-> StagedNodes(w), edges |-> StagedEdges(w)]
  BY DEF GraphOf
<1> HIDE DEF v
<1>5. Graphs' = Append(Graphs, [nodes |-> Copies[w].nodes, edges |-> Copies[w].edges])
  BY <1>1, <1>4, <1>3, GraphsGrow, CopyIs
<1>6. tx'[w].base = 0
  BY <1>2 DEF NoTx
<1>7. CopyOf(w)' = WC!Idle
  BY <1>6 DEF CopyOf, WC!Idle
<1>8. \A i \in DOMAIN version : version'[i] = version[i]
  BY <1>1, <1>3, GraphsGrow
<1>9. Copies' = [Copies EXCEPT ![w] = WC!Idle]
  BY <1>2, <1>7, <1>8, CopyStays, OneCopyChanges
<1>10. WC!NoDangling(Copies[w]) /\ Copies[w] # WC!Idle
  BY <1>3, CopyIs DEF WC!NoDangling, EndsIn
<1> QED
  BY <1>5, <1>9, <1>10 DEF WC!Publish

LEMMA FailureAbandons ==
    ASSUME TInv, NEW w \in Writer, tx[w].base # 0, CommitFails(w)
    PROVE  WC!Abandon(w)
<1>1. /\ tx'[w] = [NoTx EXCEPT !.spent = tx[w].spent] /\ version' = version
      /\ \A x \in Writer : x # w => tx'[x] = tx[x]
  BY DEF CommitFails, TInv
<1>2. tx'[w].base = 0
  BY <1>1 DEF NoTx
<1>3. CopyOf(w)' = WC!Idle
  BY <1>2 DEF CopyOf, WC!Idle
<1>4. Copies' = [Copies EXCEPT ![w] = WC!Idle] /\ Graphs' = Graphs
  BY <1>1, <1>3, CopyStays, OneCopyChanges DEF Graphs, GraphOf
<1> QED
  BY <1>4, CopyIs DEF WC!Abandon

LEMMA MergeCombines ==
    ASSUME TInv, MergeHeads
    PROVE  WC!Combine(heads) /\ heads \in SUBSET DOMAIN Graphs
<1> DEFINE N == NodesOf(heads)
           E == EdgesOf(heads)
           lend == Lenders(heads, UnionTrees(N), UnionTrees(E))
<1>1. PICK index \in IF lend = {} THEN {BuildIndex(UnionTrees(N), UnionTrees(E))}
                                  ELSE {version[h].index : h \in lend} :
          version' = Append(version, MergedWith(heads, index))
  BY DEF MergeHeads
<1> DEFINE v == MergedWith(heads, index)
<1>2. Sound(v) /\ v.nodes = UnionTrees(N) /\ v.edges = UnionTrees(E)
  BY MergeSound DEF MergedWith
<1>3. version' = Append(version, v) /\ tx' = tx
  BY <1>1 DEF MergeHeads
<1> HIDE DEF v
<1>4. /\ Len(Graphs) = Len(version) /\ DOMAIN Graphs = 1..Len(version)
      /\ Graphs' = Append(Graphs, GraphOf(v)) /\ Graphs'[Len(Graphs) + 1] = GraphOf(v)
      /\ \A i \in DOMAIN version : version'[i] = version[i]
  BY <1>2, <1>3, GraphsGrow DEF Sound
<1>5. Copies' = Copies
  BY <1>3, <1>4, CopyStays DEF Copies
<1>6. heads \subseteq DOMAIN version /\ DOMAIN version = 1..Len(version) /\ Len(version) \in Nat
  BY DEF TInv, VersionsOK
<1>7. {Graphs[h].nodes : h \in heads} = N /\ {Graphs[h].edges : h \in heads} = E
  BY <1>6 DEF Graphs, GraphOf, NodesOf, EdgesOf
<1>8. /\ N \in SUBSET Tree(NodeId, Value) /\ E \in SUBSET Tree(EdgeId, EdgeBlock)
  BY <1>6 DEF NodesOf, EdgesOf, Version, TInv, VersionsOK, Sound
<1>9. Comparable(N) /\ Comparable(E)
  BY <1>8, Finite, TreesComparable
<1>10. WC!MixOf(N, v.nodes) /\ WC!MixOf(E, v.edges)
  <2>1. DOMAIN UnionTrees(N) = UNION {DOMAIN t : t \in N} /\ DOMAIN UnionTrees(E) = UNION {DOMAIN t : t \in E}
    BY DEF UnionTrees
  <2>2. /\ \A k \in DOMAIN UnionTrees(N) : \E t \in N : k \in DOMAIN t /\ UnionTrees(N)[k] = t[k]
        /\ \A k \in DOMAIN UnionTrees(E) : \E t \in E : k \in DOMAIN t /\ UnionTrees(E)[k] = t[k]
    BY <1>9, UnionIs
  <2> HIDE DEF N, E
  <2> QED
    BY <1>2, <2>1, <2>2 DEF WC!MixOf
<1>11. WC!NoDangling(GraphOf(v))
  BY <1>2 DEF Sound, EndsIn, WC!NoDangling, GraphOf
<1>12. GraphOf(v).nodes = v.nodes /\ GraphOf(v).edges = v.edges
  BY DEF GraphOf
<1>13. Len(Graphs') = Len(Graphs) + 1
  <2>1. version' \in Seq(Version) /\ Len(version') = Len(version) + 1
    BY <1>2, <1>3 DEF TInv, VersionsOK, Sound
  <2>2. DOMAIN Graphs' = 1..(Len(version) + 1)
    BY <2>1 DEF Graphs
  <2>3. Graphs' = [i \in 1..(Len(version) + 1) |-> Graphs'[i]]
    BY <2>1 DEF Graphs
  <2> QED
    BY <1>4, <1>6, <2>3
<1> QED
  BY <1>4, <1>5, <1>6, <1>7, <1>10, <1>11, <1>12, <1>13 DEF WC!Combine

LEMMA ResolveCopies ==
    ASSUME TInv, NEW w \in Writer, tx[w].base # 0, NEW v \in Value, ResolveOrCreateNode(w, v)
    PROVE  \/ Graphs' = Graphs /\ Copies' = Copies
           \/ \E n \in NodeId : WC!PutNode(w, n, v)
<1>1. ASSUME NEW a, Stage(w, tx[w], a) PROVE Graphs' = Graphs /\ Copies' = Copies
  <2>1. tx[w] = [tx[w] EXCEPT !.bury = tx[w].bury, !.unbury = tx[w].unbury, !.embed = tx[w].embed]
    BY BaseOK DEF Tx
  <2> QED
    BY <1>1, <2>1, MarkCopies
<1>2. ASSUME NEW n \in NodeId, Stage(w, WithNode(tx[w], n, v), n)
      PROVE  WC!PutNode(w, n, v)
  BY <1>2, NodeAddedCopies
<1> QED
  BY <1>1, <1>2 DEF ResolveOrCreateNode

LEMMA MarksCopies ==
    ASSUME TInv, NEW w \in Writer, tx[w].base # 0, NEW n \in NodeId,
           TombstoneNode(w, n) \/ UntombstoneNode(w, n) \/ SetEmbedding(w, n)
    PROVE  Graphs' = Graphs /\ Copies' = Copies
<1>1. tx[w] \in Tx
  BY BaseOK
<1>2. CASE TombstoneNode(w, n)
  <2> DEFINE t == [tx[w] EXCEPT !.bury = tx[w].bury \cup {n}]
  <2>1. t = [tx[w] EXCEPT !.bury = tx[w].bury \cup {n}, !.unbury = tx[w].unbury, !.embed = tx[w].embed]
    BY <1>1 DEF Tx
  <2>2. Stage(w, t, 0)
    BY <1>2 DEF TombstoneNode
  <2> HIDE DEF t
  <2> QED
    BY <2>1, <2>2, MarkCopies
<1>3. CASE UntombstoneNode(w, n)
  <2> DEFINE t == [tx[w] EXCEPT !.bury = tx[w].bury \ {n}, !.unbury = tx[w].unbury \cup {n}]
  <2>1. t = [tx[w] EXCEPT !.bury = tx[w].bury \ {n}, !.unbury = tx[w].unbury \cup {n},
                          !.embed = tx[w].embed]
    BY <1>1 DEF Tx
  <2>2. Stage(w, t, 0)
    BY <1>3 DEF UntombstoneNode
  <2> HIDE DEF t
  <2> QED
    BY <2>1, <2>2, MarkCopies
<1>4. CASE SetEmbedding(w, n)
  <2>1. PICK embed : Stage(w, [tx[w] EXCEPT !.embed = embed], 0)
    BY <1>4 DEF SetEmbedding
  <2> DEFINE t == [tx[w] EXCEPT !.embed = embed]
  <2>2. t = [tx[w] EXCEPT !.bury = tx[w].bury, !.unbury = tx[w].unbury, !.embed = embed]
    BY <1>1 DEF Tx
  <2>3. Stage(w, t, 0)
    BY <2>1
  <2> HIDE DEF t
  <2> QED
    BY <2>2, <2>3, MarkCopies
<1> QED
  BY <1>2, <1>3, <1>4

LEMMA InitIsWorkingCopy == TxInit => WC!WCInit
<1> SUFFICES ASSUME TxInit PROVE WC!WCInit
  OBVIOUS
<1>1. PICK nodes \in Tree(NodeId, Value), edges \in Tree(EdgeId, EdgeBlock) :
          /\ EndsIn(edges, DOMAIN nodes)
          /\ version = <<[parents |-> {}, nodes |-> nodes, edges |-> edges,
                          index |-> BuildIndex(nodes, edges),
                          tombs |-> {}, embedded |-> {}, disputed |-> NothingDisputed]>>
  BY DEF TxInit
<1> DEFINE v == [parents |-> {}, nodes |-> nodes, edges |-> edges, index |-> BuildIndex(nodes, edges),
                 tombs |-> {}, embedded |-> {}, disputed |-> NothingDisputed]
           g == [nodes |-> nodes, edges |-> edges]
<1>2. version = <<v>> /\ GraphOf(v) = g
  BY <1>1 DEF GraphOf
<1> HIDE DEF v
<1>3. DOMAIN version = {1} /\ version[1] = v
  BY <1>2
<1>4. Graphs = [i \in {1} |-> g]
  BY <1>2, <1>3 DEF Graphs
<1>5. <<g>> = [i \in {1} |-> g]
  OBVIOUS
<1>6. Graphs = <<g>>
  BY <1>4, <1>5
<1>7. g \in WC!Graph
  BY DEF WC!Graph, WC!Tree, Tree
<1>8. WC!NoDangling(g)
  BY <1>1 DEF WC!NoDangling, EndsIn
<1>9. Copies = [w \in Writer |-> WC!Idle]
  BY DEF TxInit, Copies, CopyOf, NoTx, WC!Idle
<1> QED
  BY <1>6, <1>7, <1>8, <1>9 DEF WC!WCInit

LEMMA NextIsWorkingCopy == ASSUME TInv, [TxNext]_txVars PROVE [WC!WCNext]_(WC!wcVars)
<1>1. CASE UNCHANGED txVars
  BY <1>1 DEF txVars, Graphs, GraphOf, Copies, CopyOf, StagedNodes, StagedEdges, Base, WC!wcVars
<1>2. ASSUME NEW w \in Writer, Start(w) PROVE WC!WCNext
  BY <1>2, StartBegins DEF WC!WCNext
<1>3. ASSUME NEW w \in Writer, tx[w].base # 0, NEW n \in NodeId, NEW v \in Value, AddNode(w, n, v)
      PROVE  WC!WCNext
  BY <1>3, NodeAddedCopies DEF AddNode, WC!WCNext
<1>4. ASSUME NEW w \in Writer, tx[w].base # 0, NEW n \in NodeId, RemoveNode(w, n) PROVE WC!WCNext
  BY <1>4, RemoveNodeCopies DEF WC!WCNext
<1>5. ASSUME NEW w \in Writer, tx[w].base # 0, NEW n \in NodeId,
             TombstoneNode(w, n) \/ UntombstoneNode(w, n) \/ SetEmbedding(w, n)
      PROVE  UNCHANGED WC!wcVars
  BY <1>5, MarksCopies DEF WC!wcVars
<1>6. ASSUME NEW w \in Writer, tx[w].base # 0, NEW e \in EdgeId, NEW b \in EdgeBlock, AddEdge(w, e, b)
      PROVE  WC!WCNext
  BY <1>6, AddEdgeCopies DEF WC!WCNext
<1>7. ASSUME NEW w \in Writer, tx[w].base # 0, NEW e \in EdgeId, RemoveEdge(w, e) PROVE WC!WCNext
  BY <1>7, RemoveEdgeCopies DEF WC!WCNext
<1>8. ASSUME NEW w \in Writer, tx[w].base # 0, NEW v \in Value, ResolveOrCreateNode(w, v)
      PROVE  WC!WCNext \/ UNCHANGED WC!wcVars
  BY <1>8, ResolveCopies DEF WC!WCNext, WC!wcVars
<1>9. ASSUME NEW w \in Writer, tx[w].base # 0, Commit(w) PROVE WC!WCNext
  BY <1>9, CommitPublishes DEF WC!WCNext
<1>10. ASSUME NEW w \in Writer, tx[w].base # 0, CommitFails(w) PROVE WC!WCNext
  BY <1>10, FailureAbandons DEF WC!WCNext
<1>11. CASE MergeHeads
  BY <1>11, MergeCombines DEF WC!WCNext
<1> QED
  BY <1>1, <1>2, <1>3, <1>4, <1>5, <1>6, <1>7, <1>8, <1>9, <1>10, <1>11 DEF TxNext

(***************************************************************************)
(* What a transaction staged is a private copy of the graph of its base,   *)
(* and a commit publishes that copy as it is, whatever other writers did   *)
(* (Transaction, rebuild_tree, commit_opts, build_merge_commit).           *)
(***************************************************************************)
THEOREM CopiesArePrivate == TxSpec => IsWorkingCopy
BY InitIsWorkingCopy, NextIsWorkingCopy, TInvariant, PTL DEF TxSpec, IsWorkingCopy, WC!WCSpec
=============================================================================
