-------------------------- MODULE GraphTreesProofs --------------------------
(***************************************************************************)
(* What the operators of GraphTrees return, for any keys and blocks.       *)
(***************************************************************************)
EXTENDS GraphTrees, FiniteSetTheorems, WellFoundedInduction, TLAPS

\* The highest of several numbers is one of them: as the strict subset
\* order of finite sets is well-founded, one has the fewest above it.
LEMMA HighestOf ==
    ASSUME NEW S \in SUBSET Nat, S # {}, IsFiniteSet(S)
    PROVE  Highest(S) \in S
<1> DEFINE Above(x) == {y \in S : y > x}
           T == {Above(x) : x \in S}
           F == FiniteSubsetsOf(S)
<1>1. \A x \in S : Above(x) \in F
  <2> SUFFICES ASSUME NEW x \in S PROVE Above(x) \in F
    OBVIOUS
  <2>1. IsFiniteSet(Above(x))
    BY FS_Subset, Above(x) \subseteq S
  <2> QED
    BY <2>1 DEF FiniteSubsetsOf
<1>2. T \subseteq F /\ T # {}
  BY <1>1
<1>3. IsWellFoundedOn(StrictSubsetOrdering(S), F)
  BY FS_StrictSubsetOrderingWellFounded
<1>4. \E m \in T : \A y \in T : <<y, m>> \notin StrictSubsetOrdering(S)
  <2> HIDE DEF T, F
  <2> QED
    BY <1>2, <1>3, WFMin
<1>5. PICK m \in S : \A y \in S : <<Above(y), Above(m)>> \notin StrictSubsetOrdering(S)
  BY <1>4
<1>6. \A y \in S : y <= m
  <2> SUFFICES ASSUME NEW y \in S, y > m PROVE FALSE
    OBVIOUS
  <2>1. ASSUME NEW z \in Above(y) PROVE z \in Above(m)
    <3>1. z \in Nat /\ y \in Nat /\ m \in Nat /\ z > y /\ z \in S
      OBVIOUS
    <3> QED
      BY <3>1
  <2>2. y \in Above(m) /\ y \notin Above(y)
    OBVIOUS
  <2> QED
    BY <1>1, <1>5, <2>1, <2>2 DEF StrictSubsetOrdering
<1> QED
  BY <1>6 DEF Highest

\* A tree is a function from some of the keys.
LEMMA TreeIs ==
    ASSUME NEW K, NEW V, NEW t
    PROVE  t \in Tree(K, V) <=> /\ t = [k \in DOMAIN t |-> t[k]] /\ DOMAIN t \subseteq K
                                /\ \A k \in DOMAIN t : t[k] \in V
<1>1. ASSUME t \in Tree(K, V)
      PROVE  t = [k \in DOMAIN t |-> t[k]] /\ DOMAIN t \subseteq K /\ \A k \in DOMAIN t : t[k] \in V
  BY <1>1 DEF Tree
<1>2. ASSUME t = [k \in DOMAIN t |-> t[k]], DOMAIN t \subseteq K, \A k \in DOMAIN t : t[k] \in V
      PROVE  t \in Tree(K, V)
  <2>1. t \in [DOMAIN t -> V]
    BY <1>2
  <2> QED
    BY <1>2, <2>1 DEF Tree
<1> QED
  BY <1>1, <1>2

LEMMA RebuildTree ==
    ASSUME NEW K, NEW V, NEW t \in Tree(K, V), NEW a \in Tree(K, V), NEW r
    PROVE  Rebuild(t, a, r) \in Tree(K, V)
<1> DEFINE R == Rebuild(t, a, r)
<1>1. /\ DOMAIN t \subseteq K /\ \A k \in DOMAIN t : t[k] \in V
      /\ DOMAIN a \subseteq K /\ \A k \in DOMAIN a : a[k] \in V
  BY TreeIs
<1>2. /\ DOMAIN R = (DOMAIN t \ r) \cup DOMAIN a
      /\ \A k \in DOMAIN a : R[k] = a[k]
      /\ \A k \in DOMAIN t : k \notin r /\ k \notin DOMAIN a => R[k] = t[k]
  BY DEF Rebuild
<1>3. R = [k \in DOMAIN R |-> R[k]]
  BY DEF Rebuild
<1> HIDE DEF R
<1>4. DOMAIN R \subseteq K /\ \A k \in DOMAIN R : R[k] \in V
  BY <1>1, <1>2
<1>5. R \in Tree(K, V)
  BY <1>3, <1>4, TreeIs
<1> QED
  BY <1>5 DEF R

\* Trees whose blocks under one key have a highest one.
BlocksAt(T, k) == {t[k] : t \in {u \in T : k \in DOMAIN u}}

Comparable(T) == \A k : BlocksAt(T, k) \in SUBSET Nat /\ IsFiniteSet(BlocksAt(T, k))

LEMMA TreesComparable ==
    ASSUME NEW K, NEW V \in SUBSET Nat, IsFiniteSet(V), NEW T \in SUBSET Tree(K, V)
    PROVE  Comparable(T)
<1> SUFFICES ASSUME NEW k PROVE BlocksAt(T, k) \in SUBSET Nat /\ IsFiniteSet(BlocksAt(T, k))
  BY DEF Comparable
<1>1. BlocksAt(T, k) \subseteq V
  BY TreeIs DEF BlocksAt
<1> QED
  BY <1>1, FS_Subset

LEMMA UnionIs ==
    ASSUME NEW T, Comparable(T), NEW k \in DOMAIN UnionTrees(T)
    PROVE  \E t \in T : k \in DOMAIN t /\ UnionTrees(T)[k] = t[k]
<1>1. UnionTrees(T)[k] = Highest(BlocksAt(T, k)) /\ BlocksAt(T, k) # {}
  BY DEF UnionTrees, BlocksAt
<1>2. BlocksAt(T, k) \in SUBSET Nat /\ IsFiniteSet(BlocksAt(T, k))
  BY DEF Comparable
<1>3. UnionTrees(T)[k] \in BlocksAt(T, k)
  BY <1>1, <1>2, HighestOf
<1> QED
  BY <1>3 DEF BlocksAt

LEMMA UnionIsTree ==
    ASSUME NEW K, NEW V, NEW T \in SUBSET Tree(K, V), Comparable(T)
    PROVE  UnionTrees(T) \in Tree(K, V)
<1> DEFINE U == UnionTrees(T)
<1>1. U = [k \in DOMAIN U |-> U[k]] /\ DOMAIN U = UNION {DOMAIN t : t \in T}
  BY DEF UnionTrees
<1>2. \A t \in T : DOMAIN t \subseteq K /\ \A k \in DOMAIN t : t[k] \in V
  BY TreeIs
<1>3. ASSUME NEW k \in DOMAIN U PROVE U[k] \in V
  <2>1. PICK t \in T : k \in DOMAIN t /\ U[k] = t[k]
    BY UnionIs
  <2> QED
    BY <1>2, <2>1
<1>4. DOMAIN U \subseteq K
  BY <1>1, <1>2
<1> HIDE DEF U
<1>5. U \in Tree(K, V)
  BY <1>1, <1>3, <1>4, TreeIs
<1> QED
  BY <1>5 DEF U

\* The union of trees, and what it leaves out of one of them.
LEMMA UnionListed ==
    ASSUME NEW T, Comparable(T), NEW t \in T, NEW k \in DOMAIN t, k \notin Disputed(T)
    PROVE  k \in DOMAIN UnionTrees(T) /\ UnionTrees(T)[k] = t[k]
<1>1. k \in DOMAIN UnionTrees(T)
  BY DEF UnionTrees
<1>2. PICK u \in T : k \in DOMAIN u /\ UnionTrees(T)[k] = u[k]
  BY <1>1, UnionIs
<1>3. u[k] = t[k]
  BY <1>2 DEF Disputed
<1> QED
  BY <1>1, <1>2, <1>3

LEMMA NoKeys == ASSUME NEW K, NEW V PROVE [x \in {} |-> 0] \in Tree(K, V)
<1>1. [x \in {} |-> 0] \in [{} -> V]
  OBVIOUS
<1> QED
  BY <1>1 DEF Tree

LEMMA OneKey == ASSUME NEW K, NEW V, NEW k \in K, NEW v \in V PROVE [x \in {k} |-> v] \in Tree(K, V)
<1>1. [x \in {k} |-> v] \in [{k} -> V]
  OBVIOUS
<1> QED
  BY <1>1 DEF Tree

\* A merge with a strategy has every key, with the block of one of the sides.
Unions(K, V, l, r) ==
    {t \in Tree(K, V) :
        /\ DOMAIN t = DOMAIN l \cup DOMAIN r
        /\ \A k \in DOMAIN t : (k \in DOMAIN l /\ t[k] = l[k]) \/ (k \in DOMAIN r /\ t[k] = r[k])}

LEMMA StrategyUnionIs ==
    ASSUME NEW K, NEW V \in SUBSET Nat, IsFiniteSet(V), NEW l \in Tree(K, V), NEW r \in Tree(K, V),
           NEW strategy
    PROVE  StrategyUnion(strategy, l, r) \in Unions(K, V, l, r)
<1> DEFINE T == {l, r}
           ours == Rebuild(r, l, {})
           theirs == Rebuild(l, r, {})
           union == UnionTrees(T)
<1>1. ours \in Tree(K, V) /\ theirs \in Tree(K, V)
  BY RebuildTree
<1>2. /\ union \in Tree(K, V) /\ DOMAIN union = DOMAIN l \cup DOMAIN r
      /\ \A k \in DOMAIN union : (k \in DOMAIN l /\ union[k] = l[k]) \/ (k \in DOMAIN r /\ union[k] = r[k])
  <2>1. Comparable(T) /\ T \in SUBSET Tree(K, V)
    BY TreesComparable
  <2>2. union \in Tree(K, V)
    BY <2>1, UnionIsTree
  <2>3. \A k \in DOMAIN union : \E t \in T : k \in DOMAIN t /\ union[k] = t[k]
    BY <2>1, UnionIs
  <2>4. DOMAIN union = UNION {DOMAIN t : t \in T}
    BY DEF UnionTrees
  <2> QED
    BY <2>2, <2>3, <2>4
<1>3. /\ DOMAIN ours = DOMAIN l \cup DOMAIN r
      /\ \A k \in DOMAIN ours : (k \in DOMAIN l /\ ours[k] = l[k]) \/ (k \in DOMAIN r /\ ours[k] = r[k])
  BY DEF Rebuild
<1>4. /\ DOMAIN theirs = DOMAIN l \cup DOMAIN r
      /\ \A k \in DOMAIN theirs :
            (k \in DOMAIN l /\ theirs[k] = l[k]) \/ (k \in DOMAIN r /\ theirs[k] = r[k])
  BY DEF Rebuild
<1>5. StrategyUnion(strategy, l, r) \in {ours, theirs, union}
  BY DEF StrategyUnion
<1> HIDE DEF ours, theirs, union
<1>6. {ours, theirs, union} \subseteq Unions(K, V, l, r)
  BY <1>1, <1>2, <1>3, <1>4 DEF Unions
<1> QED
  BY <1>5, <1>6
=============================================================================
