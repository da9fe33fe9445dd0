------------------------- MODULE BranchMergeProofs -------------------------
(***************************************************************************)
(* Proofs about BranchMerge, for any nodes, edges and branches, and any    *)
(* number of commits, merges and kills.                                    *)
(***************************************************************************)
EXTENDS BranchMerge, GraphTreesProofs, SequenceTheorems, TLAPS

-----------------------------------------------------------------------------
(***************************************************************************)
(* The invariant.  A command has done its first writes and has the others  *)
(* before it: JobOK lists how far it can be, and what the branches, the    *)
(* head and the files are like there.                                      *)
(***************************************************************************)
CommitRecord == [parents : SUBSET Nat, anc : SUBSET Nat,
                 nodes : Tree(NodeId, Value), edges : Tree(EdgeId, EdgeBlock)]

C == DOMAIN commit

EndsThere(c) == \A b \in Blocks(c.edges) : {Src[b], Dst[b]} \subseteq DOMAIN c.nodes

CommitsOK ==
    /\ commit \in Seq(CommitRecord)
    /\ \A i \in C : commit[i].parents \subseteq 1..(i - 1) /\ commit[i].anc \subseteq 1..i
    /\ MergedIsWhole

Files == [left : {0} \cup C, right : {0} \cup C, pick : {"none"} \cup Sides]

RefsOK ==
    /\ ref \in [Branch -> {0} \cup C] /\ head \in C
    /\ active \in Branch \cup {NoBranch} /\ (active # NoBranch => ref[active] # 0)
    /\ mark \in [orig : {0} \cup C, other : {0} \cup C, file : Files]
    /\ crashes \in Nat

OnBranch(c) == active # NoBranch /\ crashes = 0 => ref[active] = c

OwnFile ==
    /\ crashes = 0 /\ mark.other = 0 => mark.file = NoFile
    /\ crashes < 2 /\ mark.other # 0 /\ mark.file # NoFile =>
          mark.file.left = mark.orig /\ mark.file.right = mark.other

ConflictsOf(l, r) == [left |-> l, right |-> r, pick |-> "none"]

Moving(b, c) == {<<RefTo(b, c), HeadTo(c)>>,
                 <<RefTo(b, c), HeadTo(c), OtherTo(0), OrigTo(0), FileTo(NoFile)>>}

Following(c) == {<<HeadTo(c)>>, <<HeadTo(c), OtherTo(0), OrigTo(0), FileTo(NoFile)>>}

\* Nothing to do, or not begun.
AtRest == job \in {<<>>, <<OtherTo(0), OrigTo(0), FileTo(NoFile)>>} /\ OnBranch(head) /\ OwnFile

Unmarking ==
    /\ job \in {<<OrigTo(0), FileTo(NoFile)>>, <<FileTo(NoFile)>>}
    /\ OnBranch(head) /\ mark.other = 0

Marking(l, r) ==
    /\ OnBranch(head)
    /\ \/ /\ job = <<OrigTo(l), OtherTo(r), FileTo(ConflictsOf(l, r))>>
          /\ mark.other = 0 /\ OwnFile
       \/ /\ job = <<OtherTo(r), FileTo(ConflictsOf(l, r))>>
          /\ mark.other = 0 /\ mark.orig = l /\ OwnFile
       \/ /\ job = <<FileTo(ConflictsOf(l, r))>>
          /\ mark.other = r /\ mark.orig = l /\ (crashes = 0 => mark.file = NoFile)

Advancing(b, c) ==
    /\ OwnFile
    /\ \/ /\ b \in Branch /\ job \in Moving(b, c)
          /\ (active # NoBranch => b = active) /\ OnBranch(head)
       \/ job \in Following(c) /\ OnBranch(c)

JobOK ==
    \/ AtRest
    \/ Unmarking
    \/ \E l, r \in C : Marking(l, r)
    \/ \E b \in Branch \cup {NoBranch}, c \in C : Advancing(b, c)

BInv == CommitsOK /\ RefsOK /\ MergeCanResume /\ JobOK

LEMMA Finite ==
    /\ Value \in SUBSET Nat /\ IsFiniteSet(Value) /\ EdgeBlock \in SUBSET Nat /\ IsFiniteSet(EdgeBlock)
BY BlocksAssumption, FS_Subset

-----------------------------------------------------------------------------
(***************************************************************************)
(* Commits.                                                                *)
(***************************************************************************)
LEMMA CommitAdded ==
    ASSUME CommitsOK, NEW c \in CommitRecord, c.parents \subseteq C, c.anc \subseteq 1..(Len(commit) + 1),
           EndsThere(c), commit' = Append(commit, c),
           Cardinality(c.parents) = 2 =>
               \A p \in c.parents : /\ DOMAIN commit[p].nodes \subseteq DOMAIN c.nodes
                                    /\ DOMAIN commit[p].edges \subseteq DOMAIN c.edges
    PROVE  /\ CommitsOK' /\ C' = C \cup {Len(commit) + 1} /\ Len(commit) + 1 \in Nat \ {0}
           /\ \A i \in C : commit'[i] = commit[i]
<1>1. commit \in Seq(CommitRecord)
  BY DEF CommitsOK
<1>2. /\ commit' \in Seq(CommitRecord) /\ Len(commit) \in Nat
      /\ C = 1..Len(commit) /\ DOMAIN commit' = C \cup {Len(commit) + 1}
      /\ \A i \in C : commit'[i] = commit[i]
      /\ commit'[Len(commit) + 1] = c
  BY <1>1 DEF C
<1> DEFINE m == Len(commit) + 1
<1>3. m \notin C /\ C = 1..(m - 1) /\ m \in Nat \ {0}
  BY <1>2
<1>4. c.anc \subseteq 1..m
  OBVIOUS
<1>5. DOMAIN commit' = C \cup {m} /\ commit'[m] = c
  BY <1>2
<1> HIDE DEF m
<1>6. \A i \in C : commit[i].parents \subseteq C /\ commit[i].parents \subseteq 1..(i - 1) /\ commit[i].anc \subseteq 1..i
  BY <1>2 DEF CommitsOK
<1>7. \A i \in DOMAIN commit' : commit'[i].parents \subseteq 1..(i - 1) /\ commit'[i].anc \subseteq 1..i
  BY <1>2, <1>3, <1>4, <1>5, <1>6
<1>8. MergedIsWhole'
  <2> SUFFICES ASSUME NEW i \in DOMAIN commit'
               PROVE  /\ \A b \in Blocks(commit'[i].edges) : {Src[b], Dst[b]} \subseteq DOMAIN commit'[i].nodes
                      /\ Cardinality(commit'[i].parents) = 2 =>
                           \A p \in commit'[i].parents :
                               /\ DOMAIN commit'[p].nodes \subseteq DOMAIN commit'[i].nodes
                               /\ DOMAIN commit'[p].edges \subseteq DOMAIN commit'[i].edges
    BY DEF MergedIsWhole, Blocks
  <2>1. CASE i \in C
    BY <1>2, <1>6, <2>1 DEF CommitsOK, MergedIsWhole, C
  <2>2. CASE i = m
    BY <1>2, <1>5, <2>2 DEF EndsThere
  <2> QED
    BY <1>5, <2>1, <2>2
<1> QED
  BY <1>2, <1>3, <1>5, <1>7, <1>8 DEF CommitsOK, C, m

LEMMA CommitIs ==
    ASSUME CommitsOK, NEW i \in C
    PROVE  /\ commit[i] \in CommitRecord /\ EndsThere(commit[i])
           /\ commit[i].parents \subseteq C /\ commit[i].anc \subseteq C
           /\ i \in Nat \ {0} /\ Len(commit) \in Nat /\ C = 1..Len(commit)
<1>1. /\ commit \in Seq(CommitRecord) /\ Len(commit) \in Nat /\ C = 1..Len(commit)
      /\ commit[i] \in CommitRecord
  BY DEF CommitsOK, C
<1> QED
  BY <1>1 DEF CommitsOK, MergedIsWhole, EndsThere, C

\* The trees after one change.
Changed(nodes, edges, newNodes, newEdges) ==
    \/ \E n \in NodeId, v \in Value :
          newNodes = Rebuild(nodes, [k \in {n} |-> v], {}) /\ newEdges = edges
    \/ \E n \in DOMAIN nodes :
          /\ newNodes = Rebuild(nodes, [k \in {} |-> 0], {n})
          /\ newEdges = Rebuild(edges, [k \in {} |-> 0], EdgesAt(edges, n))
    \/ \E e \in EdgeId, b \in EdgeBlock :
          /\ {Src[b], Dst[b]} \subseteq DOMAIN nodes
          /\ newNodes = nodes /\ newEdges = Rebuild(edges, [k \in {e} |-> b], {})
    \/ \E e \in DOMAIN edges :
          newNodes = nodes /\ newEdges = Rebuild(edges, [k \in {} |-> 0], {e})

\* A change to the trees of a commit leaves every edge its ends.
LEMMA ChangeIs ==
    ASSUME CommitsOK, NEW c \in C, NEW newNodes, NEW newEdges,
           NEW nodes, nodes = commit[c].nodes, NEW edges, edges = commit[c].edges,
           Changed(nodes, edges, newNodes, newEdges)
    PROVE  /\ newNodes \in Tree(NodeId, Value) /\ newEdges \in Tree(EdgeId, EdgeBlock)
           /\ \A e \in DOMAIN newEdges : {Src[newEdges[e]], Dst[newEdges[e]]} \subseteq DOMAIN newNodes
<1> DEFINE none == [k \in {} |-> 0]
<1>1. /\ nodes \in Tree(NodeId, Value) /\ edges \in Tree(EdgeId, EdgeBlock)
      /\ \A e \in DOMAIN edges : {Src[edges[e]], Dst[edges[e]]} \subseteq DOMAIN nodes
  BY CommitIs DEF CommitRecord, EndsThere, Blocks
<1>2. none \in Tree(NodeId, Value) /\ none \in Tree(EdgeId, EdgeBlock)
  BY NoKeys
<1>3. ASSUME NEW n \in NodeId, NEW v \in Value,
             newNodes = Rebuild(nodes, [k \in {n} |-> v], {}), newEdges = edges
      PROVE  /\ newNodes \in Tree(NodeId, Value) /\ newEdges \in Tree(EdgeId, EdgeBlock)
             /\ \A e \in DOMAIN newEdges : {Src[newEdges[e]], Dst[newEdges[e]]} \subseteq DOMAIN newNodes
  <2>1. [k \in {n} |-> v] \in Tree(NodeId, Value)
    BY OneKey
  <2>2. newNodes \in Tree(NodeId, Value)
    BY <1>1, <1>3, <2>1, RebuildTree
  <2>3. DOMAIN nodes \subseteq DOMAIN newNodes
    BY <1>3 DEF Rebuild
  <2> QED
    BY <1>1, <1>3, <2>2, <2>3
<1>4. ASSUME NEW n \in DOMAIN nodes,
             newNodes = Rebuild(nodes, none, {n}), newEdges = Rebuild(edges, none, EdgesAt(edges, n))
      PROVE  /\ newNodes \in Tree(NodeId, Value) /\ newEdges \in Tree(EdgeId, EdgeBlock)
             /\ \A e \in DOMAIN newEdges : {Src[newEdges[e]], Dst[newEdges[e]]} \subseteq DOMAIN newNodes
  <2>1. newNodes \in Tree(NodeId, Value) /\ newEdges \in Tree(EdgeId, EdgeBlock)
    BY <1>1, <1>2, <1>4, RebuildTree
  <2>2. /\ DOMAIN newNodes = DOMAIN nodes \ {n}
        /\ DOMAIN newEdges = DOMAIN edges \ EdgesAt(edges, n)
        /\ \A e \in DOMAIN edges \ EdgesAt(edges, n) : newEdges[e] = edges[e]
    BY <1>4 DEF Rebuild
  <2>3. \A e \in DOMAIN edges \ EdgesAt(edges, n) :
            {Src[edges[e]], Dst[edges[e]]} \subseteq DOMAIN nodes \ {n}
    BY <1>1 DEF EdgesAt
  <2> QED
    BY <2>1, <2>2, <2>3
<1>5. ASSUME NEW e \in EdgeId, NEW b \in EdgeBlock, {Src[b], Dst[b]} \subseteq DOMAIN nodes,
             newNodes = nodes, newEdges = Rebuild(edges, [k \in {e} |-> b], {})
      PROVE  /\ newNodes \in Tree(NodeId, Value) /\ newEdges \in Tree(EdgeId, EdgeBlock)
             /\ \A x \in DOMAIN newEdges : {Src[newEdges[x]], Dst[newEdges[x]]} \subseteq DOMAIN newNodes
  <2>1. [k \in {e} |-> b] \in Tree(EdgeId, EdgeBlock)
    BY OneKey
  <2>2. newEdges \in Tree(EdgeId, EdgeBlock)
    BY <1>1, <1>5, <2>1, RebuildTree
  <2>3. \A x \in DOMAIN newEdges : newEdges[x] = b \/ (x \in DOMAIN edges /\ newEdges[x] = edges[x])
    BY <1>5 DEF Rebuild
  <2> QED
    BY <1>1, <1>5, <2>2, <2>3
<1>6. ASSUME NEW e \in DOMAIN edges, newNodes = nodes, newEdges = Rebuild(edges, none, {e})
      PROVE  /\ newNodes \in Tree(NodeId, Value) /\ newEdges \in Tree(EdgeId, EdgeBlock)
             /\ \A x \in DOMAIN newEdges : {Src[newEdges[x]], Dst[newEdges[x]]} \subseteq DOMAIN newNodes
  <2>1. newEdges \in Tree(EdgeId, EdgeBlock)
    BY <1>1, <1>2, <1>6, RebuildTree
  <2>2. /\ DOMAIN newEdges = DOMAIN edges \ {e}
        /\ \A x \in DOMAIN edges \ {e} : newEdges[x] = edges[x]
    BY <1>6 DEF Rebuild
  <2>3. \A x \in DOMAIN newEdges : {Src[newEdges[x]], Dst[newEdges[x]]} \subseteq DOMAIN nodes
    BY <1>1, <2>2
  <2> QED
    BY <1>1, <1>6, <2>1, <2>3
<1> QED
  BY <1>3, <1>4, <1>5, <1>6 DEF Changed

LEMMA MergedIs ==
    ASSUME CommitsOK, NEW l \in C, NEW r \in C, NEW strategy,
           NEW c, c = WithSelf(Merged(l, r, strategy), Len(commit) + 1)
    PROVE  /\ c \in CommitRecord /\ c.parents \subseteq C /\ c.anc \subseteq 1..(Len(commit) + 1)
           /\ EndsThere(c)
           /\ \A p \in c.parents : /\ DOMAIN commit[p].nodes \subseteq DOMAIN c.nodes
                                   /\ DOMAIN commit[p].edges \subseteq DOMAIN c.edges
<1> DEFINE m == Merged(l, r, strategy)
           nodes == StrategyUnion(strategy, commit[l].nodes, commit[r].nodes)
           edges == StrategyUnion(strategy, commit[l].edges, commit[r].edges)
<1>1. /\ commit[l] \in CommitRecord /\ commit[r] \in CommitRecord
      /\ EndsThere(commit[l]) /\ EndsThere(commit[r])
      /\ commit[l].anc \subseteq C /\ commit[r].anc \subseteq C
      /\ Len(commit) \in Nat /\ C = 1..Len(commit)
  BY CommitIs
<1>2. /\ commit[l].nodes \in Tree(NodeId, Value) /\ commit[r].nodes \in Tree(NodeId, Value)
      /\ commit[l].edges \in Tree(EdgeId, EdgeBlock) /\ commit[r].edges \in Tree(EdgeId, EdgeBlock)
  BY <1>1 DEF CommitRecord
<1>3. nodes \in Tree(NodeId, Value) /\ DOMAIN nodes = DOMAIN commit[l].nodes \cup DOMAIN commit[r].nodes
  <2>1. nodes \in Unions(NodeId, Value, commit[l].nodes, commit[r].nodes)
    BY <1>2, Finite, StrategyUnionIs
  <2> QED
    BY <2>1 DEF Unions
<1>4. /\ edges \in Tree(EdgeId, EdgeBlock)
      /\ DOMAIN edges = DOMAIN commit[l].edges \cup DOMAIN commit[r].edges
      /\ \A e \in DOMAIN edges : \/ e \in DOMAIN commit[l].edges /\ edges[e] = commit[l].edges[e]
                                 \/ e \in DOMAIN commit[r].edges /\ edges[e] = commit[r].edges[e]
  <2>1. edges \in Unions(EdgeId, EdgeBlock, commit[l].edges, commit[r].edges)
    BY <1>2, Finite, StrategyUnionIs
  <2> QED
    BY <2>1 DEF Unions
<1> HIDE DEF nodes, edges
<1>5. m = [parents |-> {l, r}, anc |-> {l, r} \cup commit[l].anc \cup commit[r].anc,
           nodes |-> nodes, edges |-> edges]
  BY DEF Merged, Ancestors, nodes, edges
<1> HIDE DEF m
<1>6. /\ c.parents = {l, r} /\ c.anc = {l, r} \cup commit[l].anc \cup commit[r].anc \cup {Len(commit) + 1}
      /\ c.nodes = nodes /\ c.edges = edges
  BY <1>5 DEF WithSelf, m
<1>7. c.anc \subseteq 1..(Len(commit) + 1)
  BY <1>1, <1>6
<1>8. c \in CommitRecord
  <2>1. m \in CommitRecord
    <3>1. {l, r} \in SUBSET Nat /\ ({l, r} \cup commit[l].anc \cup commit[r].anc) \in SUBSET Nat
      BY <1>1
    <3> QED
      BY <1>3, <1>4, <1>5, <3>1 DEF CommitRecord
  <2>2. c = [m EXCEPT !.anc = m.anc \cup {Len(commit) + 1}] /\ m.anc \cup {Len(commit) + 1} \in SUBSET Nat
    BY <1>1, <2>1 DEF WithSelf, m, CommitRecord
  <2> QED
    BY <2>1, <2>2 DEF CommitRecord
<1>9. EndsThere(c)
  <2> SUFFICES ASSUME NEW e \in DOMAIN edges
               PROVE  {Src[edges[e]], Dst[edges[e]]} \subseteq DOMAIN nodes
    BY <1>6 DEF EndsThere, Blocks
  <2> QED
    BY <1>1, <1>3, <1>4 DEF EndsThere, Blocks
<1> QED
  BY <1>3, <1>4, <1>6, <1>7, <1>8, <1>9

-----------------------------------------------------------------------------
(***************************************************************************)
(* The writes of a command.                                                *)
(***************************************************************************)
LEMMA Tails ==
    ASSUME NEW a, NEW b, NEW c, NEW d, NEW e
    PROVE  /\ Head(<<a>>) = a /\ Tail(<<a>>) = <<>>
           /\ Head(<<a, b>>) = a /\ Tail(<<a, b>>) = <<b>>
           /\ Head(<<a, b, c>>) = a /\ Tail(<<a, b, c>>) = <<b, c>>
           /\ Head(<<a, b, c, d>>) = a /\ Tail(<<a, b, c, d>>) = <<b, c, d>>
           /\ Head(<<a, b, c, d, e>>) = a /\ Tail(<<a, b, c, d, e>>) = <<b, c, d, e>>
OBVIOUS

LEMMA Joined ==
    ASSUME NEW a, NEW b, NEW x, NEW y, NEW z
    PROVE  /\ <<a>> \o <<>> = <<a>> /\ <<a, b>> \o <<>> = <<a, b>>
           /\ <<a>> \o <<x, y, z>> = <<a, x, y, z>>
           /\ <<a, b>> \o <<x, y, z>> = <<a, b, x, y, z>>
<1> DEFINE S == {a, b, x, y, z}
<1>1. /\ <<a>> \in Seq(S) /\ <<a, b>> \in Seq(S) /\ <<x, y, z>> \in Seq(S)
      /\ <<a, x, y, z>> \in Seq(S) /\ <<a, b, x, y, z>> \in Seq(S)
  OBVIOUS
<1>2. <<a>> \o <<>> = <<a>> /\ <<a, b>> \o <<>> = <<a, b>>
  BY <1>1, ConcatEmptySeq
<1>3. <<a>> \o <<x, y, z>> = <<a, x, y, z>>
  <2>1. <<a>> \o <<x, y, z>> \in Seq(S) /\ Len(<<a>> \o <<x, y, z>>) = 4
    BY <1>1
  <2>2. /\ (<<a>> \o <<x, y, z>>)[1] = a /\ (<<a>> \o <<x, y, z>>)[2] = x
        /\ (<<a>> \o <<x, y, z>>)[3] = y /\ (<<a>> \o <<x, y, z>>)[4] = z
    BY <1>1
  <2>3. \A i \in 1..4 : i = 1 \/ i = 2 \/ i = 3 \/ i = 4
    OBVIOUS
  <2>4. \A i \in 1..4 : (<<a>> \o <<x, y, z>>)[i] = <<a, x, y, z>>[i]
    BY <2>2, <2>3
  <2> QED
    BY <1>1, <2>1, <2>4, SeqEqual
<1>4. <<a, b>> \o <<x, y, z>> = <<a, b, x, y, z>>
  <2>1. <<a, b>> \o <<x, y, z>> \in Seq(S) /\ Len(<<a, b>> \o <<x, y, z>>) = 5
    BY <1>1
  <2>2. /\ (<<a, b>> \o <<x, y, z>>)[1] = a /\ (<<a, b>> \o <<x, y, z>>)[2] = b
        /\ (<<a, b>> \o <<x, y, z>>)[3] = x /\ (<<a, b>> \o <<x, y, z>>)[4] = y
        /\ (<<a, b>> \o <<x, y, z>>)[5] = z
    BY <1>1
  <2>3. \A i \in 1..5 : i = 1 \/ i = 2 \/ i = 3 \/ i = 4 \/ i = 5
    OBVIOUS
  <2>4. \A i \in 1..5 : (<<a, b>> \o <<x, y, z>>)[i] = <<a, b, x, y, z>>[i]
    BY <2>2, <2>3
  <2> QED
    BY <1>1, <2>1, <2>4, SeqEqual
<1> QED
  BY <1>2, <1>3, <1>4

\* What a command that advances to a commit has to do.
LEMMA AdvanceIs ==
    ASSUME NEW b \in Branch \cup {NoBranch}, NEW c, NEW after \in {<<>>, Unmark}
    PROVE  /\ b = NoBranch => Advance(b, c) \o after \in Following(c)
           /\ b # NoBranch => b \in Branch /\ Advance(b, c) \o after \in Moving(b, c)
<1> DEFINE r == RefTo(b, c)
           h == HeadTo(c)
           x == OtherTo(0)
           y == OrigTo(0)
           z == FileTo(NoFile)
<1>1. /\ <<h>> \o <<>> = <<h>> /\ <<h>> \o <<x, y, z>> = <<h, x, y, z>>
      /\ <<r, h>> \o <<>> = <<r, h>> /\ <<r, h>> \o <<x, y, z>> = <<r, h, x, y, z>>
  <2> HIDE DEF r, h, x, y, z
  <2>1. <<h>> \o <<>> = <<h>> /\ <<h>> \o <<x, y, z>> = <<h, x, y, z>>
    BY ZenonT(60), Joined
  <2>2. <<r, h>> \o <<>> = <<r, h>> /\ <<r, h>> \o <<x, y, z>> = <<r, h, x, y, z>>
    BY ZenonT(60), Joined
  <2> QED
    BY <2>1, <2>2
<1>2. after = <<>> \/ after = <<x, y, z>>
  BY DEF Unmark
<1>3. /\ Advance(b, c) = IF b = NoBranch THEN <<h>> ELSE <<r, h>>
      /\ Following(c) = {<<h>>, <<h, x, y, z>>} /\ Moving(b, c) = {<<r, h>>, <<r, h, x, y, z>>}
  BY DEF Advance, Following, Moving
<1> HIDE DEF r, h, x, y, z
<1>4. CASE b = NoBranch
  BY <1>1, <1>2, <1>3, <1>4
<1>5. CASE b # NoBranch
  BY <1>1, <1>2, <1>3, <1>5
<1> QED
  BY <1>4, <1>5

LEMMA CurrentIs ==
    ASSUME RefsOK, NEW b \in CurrentBranches
    PROVE  b \in Branch \cup {NoBranch} /\ (active # NoBranch => b = active)
<1>1. CASE active # NoBranch
  BY <1>1 DEF CurrentBranches, RefsOK
<1>2. CASE active = NoBranch
  BY <1>2 DEF CurrentBranches
<1> QED
  BY <1>1, <1>2

\* New commits change nothing in branches, head and files.
LEMMA CommitsGrow ==
    ASSUME RefsOK, MergeCanResume, C \subseteq C', UNCHANGED <<ref, active, head, mark, crashes>>
    PROVE  RefsOK' /\ MergeCanResume'
<1>1. UNCHANGED ref /\ UNCHANGED active /\ UNCHANGED head /\ UNCHANGED mark /\ UNCHANGED crashes
  OBVIOUS
<1>2. Files \subseteq Files'
  BY DEF Files
<1>3. ref' \in [Branch -> {0} \cup C'] /\ head' \in C'
  BY <1>1 DEF RefsOK
<1>4. mark' \in [orig : {0} \cup C', other : {0} \cup C', file : Files']
  BY <1>1, <1>2 DEF RefsOK
<1> QED
  BY <1>1, <1>3, <1>4 DEF RefsOK, MergeCanResume

-----------------------------------------------------------------------------
(***************************************************************************)
(* The steps.                                                              *)
(***************************************************************************)
LEMMA ConcludeStep ==
    ASSUME BInv, NEW l \in C, NEW r \in C, NEW base, NEW strategy, NEW after \in {<<>>, Unmark},
           Conclude(l, r, base, strategy, after), OwnFile, OnBranch(head),
           UNCHANGED <<ref, active, head, mark, crashes>>
    PROVE  BInv'
<1>1. ASSUME NEW b \in CurrentBranches, NEW c \in C', job' = Advance(b, c) \o after PROVE JobOK'
  <2>1. b \in Branch \cup {NoBranch} /\ (active # NoBranch => b = active)
    BY CurrentIs DEF BInv
  <2>2. /\ b = NoBranch => job' \in Following(c)
        /\ b # NoBranch => b \in Branch /\ job' \in Moving(b, c)
    BY <1>1, <2>1, AdvanceIs
  <2>3. OwnFile' /\ OnBranch(head)'
    BY DEF OwnFile, OnBranch
  <2>4. CASE b = NoBranch
    <3>1. OnBranch(c)'
      BY <2>1, <2>4, BranchAssumption DEF OnBranch, BInv, RefsOK
    <3>2. Advancing(b, c)'
      BY <2>2, <2>3, <2>4, <3>1 DEF Advancing
    <3> QED
      BY <1>1, <2>1, <3>2 DEF JobOK
  <2>5. CASE b # NoBranch
    <3>1. Advancing(b, c)'
      BY <2>1, <2>2, <2>3, <2>5 DEF Advancing
    <3> QED
      BY <1>1, <2>1, <3>1 DEF JobOK
  <2> QED
    BY <2>4, <2>5
<1>2. ASSUME UNCHANGED commit PROVE CommitsOK' /\ C' = C
  BY <1>2 DEF BInv, CommitsOK, MergedIsWhole, Blocks, C
<1>3. ASSUME C \subseteq C', CommitsOK', JobOK' PROVE BInv'
  BY <1>3, CommitsGrow DEF BInv
<1>4. PICK b \in CurrentBranches :
        \/ /\ base \in {l, r}
           /\ job' = Advance(b, IF base = r THEN l ELSE r) \o after
           /\ UNCHANGED commit
        \/ /\ base \notin {l, r} /\ Numbered(Merged(l, r, strategy)) # {}
           /\ \E i \in Numbered(Merged(l, r, strategy)) : job' = Advance(b, i) \o after
           /\ UNCHANGED commit
        \/ /\ base \notin {l, r} /\ Numbered(Merged(l, r, strategy)) = {}
           /\ Cardinality({i \in DOMAIN commit : Cardinality(commit[i].parents) = 2}) < MaxMerges
           /\ commit' = Append(commit, WithSelf(Merged(l, r, strategy), Len(commit) + 1))
           /\ job' = Advance(b, Len(commit) + 1) \o after
  BY DEF Conclude
<1>5. ASSUME job' = Advance(b, IF base = r THEN l ELSE r) \o after, UNCHANGED commit PROVE BInv'
  <2>1. PICK c \in C : job' = Advance(b, c) \o after
    BY <1>5
  <2> QED
    BY <1>1, <1>2, <1>3, <1>5, <2>1
<1>6. ASSUME NEW i \in Numbered(Merged(l, r, strategy)), job' = Advance(b, i) \o after, UNCHANGED commit
      PROVE  BInv'
  <2>1. i \in C
    BY DEF Numbered, C
  <2> QED
    BY <1>1, <1>2, <1>3, <1>6, <2>1
<1>7. ASSUME commit' = Append(commit, WithSelf(Merged(l, r, strategy), Len(commit) + 1)),
             job' = Advance(b, Len(commit) + 1) \o after
      PROVE  BInv'
  <2> DEFINE c == WithSelf(Merged(l, r, strategy), Len(commit) + 1)
  <2>1. /\ c \in CommitRecord /\ c.parents \subseteq C /\ c.anc \subseteq 1..(Len(commit) + 1)
        /\ EndsThere(c)
        /\ \A p \in c.parents : /\ DOMAIN commit[p].nodes \subseteq DOMAIN c.nodes
                                /\ DOMAIN commit[p].edges \subseteq DOMAIN c.edges
    BY MergedIs DEF BInv
  <2>2. commit' = Append(commit, c)
    BY <1>7
  <2> HIDE DEF c
  <2>3. CommitsOK' /\ C' = C \cup {Len(commit) + 1}
    BY <2>1, <2>2, CommitAdded DEF BInv
  <2> QED
    BY <1>1, <1>3, <1>7, <2>3
<1> QED
  BY <1>4, <1>5, <1>6, <1>7

\* Nothing is left undone, or a kill left it.
LEMMA Resting == ASSUME JobOK, job = <<>> PROVE OnBranch(head) /\ OwnFile
<1>1. ASSUME NEW a, NEW b, NEW c, NEW d, NEW e
      PROVE  /\ job # <<a>> /\ job # <<a, b>> /\ job # <<a, b, c>>
             /\ job # <<a, b, c, d>> /\ job # <<a, b, c, d, e>>
  OBVIOUS
<1>2. ~ Unmarking
  BY <1>1 DEF Unmarking
<1>3. ASSUME NEW l, NEW r PROVE ~ Marking(l, r)
  BY <1>1 DEF Marking
<1>4. ASSUME NEW b, NEW c PROVE ~ Advancing(b, c)
  BY <1>1 DEF Advancing, Moving, Following
<1> QED
  BY <1>2, <1>3, <1>4 DEF JobOK, AtRest

LEMMA CommitsSame == ASSUME CommitsOK, UNCHANGED commit PROVE CommitsOK' /\ C' = C
BY DEF CommitsOK, MergedIsWhole, Blocks, C

LEMMA LCAIs == ASSUME BInv, NEW l \in C, NEW r \in C, NEW base \in LCAs(l, r) PROVE base \in C
BY CommitIs DEF LCAs, Ancestors, BInv

LEMMA MergeStep ==
    ASSUME BInv, NEW other \in C, NEW s, Merge(other, s) PROVE BInv'
<1>1. /\ job = <<>> /\ mark.other = 0 /\ head \in C
      /\ OnBranch(head) /\ OwnFile /\ UNCHANGED <<ref, active, head, mark, crashes>>
  BY Resting DEF Merge, BInv, RefsOK
<1>2. CASE job' = Marks(head, other) /\ UNCHANGED commit
  <2>1. CommitsOK' /\ C' = C
    BY <1>2, CommitsSame DEF BInv
  <2>2. RefsOK' /\ MergeCanResume'
    BY <1>1, <2>1, CommitsGrow DEF BInv
  <2>3. Marking(head, other)'
    BY <1>1, <1>2 DEF Marking, Marks, ConflictsOf, OnBranch, OwnFile
  <2>4. JobOK'
    BY <1>1, <2>1, <2>3 DEF JobOK
  <2> QED
    BY <2>1, <2>2, <2>4 DEF BInv
<1>3. CASE \E base : Conclude(head, other, base, s, <<>>)
  BY <1>1, <1>3, ConcludeStep
<1> QED
  BY <1>2, <1>3 DEF Merge

LEMMA ContinueStep == ASSUME BInv, Continue PROVE BInv'
<1>1. /\ job = <<>> /\ mark.orig \in C /\ mark.other \in C
      /\ OnBranch(head) /\ OwnFile /\ UNCHANGED <<ref, active, head, mark, crashes>>
  BY Resting DEF Continue, BInv, RefsOK
<1>2. PICK base : Conclude(mark.orig, mark.other, base, mark.file.pick, Unmark)
  BY DEF Continue
<1> QED
  BY <1>1, <1>2, ConcludeStep

LEMMA AbortStep == ASSUME BInv, Abort PROVE BInv'
<1>1. /\ job' = Unmark /\ OnBranch(head) /\ OwnFile
      /\ UNCHANGED commit /\ UNCHANGED <<ref, active, head, mark, crashes>>
  BY Resting DEF Abort, BInv
<1>2. CommitsOK' /\ C' = C
  BY <1>1, CommitsSame DEF BInv
<1>3. RefsOK' /\ MergeCanResume'
  BY <1>1, <1>2, CommitsGrow DEF BInv
<1>4. AtRest'
  BY <1>1 DEF AtRest, Unmark, OnBranch, OwnFile
<1> QED
  BY <1>2, <1>3, <1>4 DEF BInv, JobOK

LEMMA ResolveStep == ASSUME BInv, NEW s \in Sides, Resolve(s) PROVE BInv'
<1>1. /\ UNCHANGED commit /\ UNCHANGED ref /\ UNCHANGED active /\ UNCHANGED head
      /\ UNCHANGED job /\ UNCHANGED crashes
      /\ mark.file # NoFile /\ mark' = [mark EXCEPT !.file.pick = s]
  BY DEF Resolve
<1>2. CommitsOK' /\ C' = C
  BY <1>1, CommitsSame DEF BInv
<1>3. /\ mark \in [orig : {0} \cup C, other : {0} \cup C, file : Files]
      /\ mark.file \in [left : {0} \cup C, right : {0} \cup C, pick : {"none"} \cup Sides]
  BY DEF BInv, RefsOK, Files
<1>4. /\ mark' = [mark EXCEPT !.file = [mark.file EXCEPT !.pick = s]]
      /\ [mark.file EXCEPT !.pick = s] \in Files
  BY <1>1, <1>3 DEF Files
<1>5. /\ mark' \in [orig : {0} \cup C, other : {0} \cup C, file : Files]
      /\ mark'.orig = mark.orig /\ mark'.other = mark.other
      /\ mark'.file.left = mark.file.left /\ mark'.file.right = mark.file.right
  BY <1>3, <1>4
<1>6. mark'.file.pick = s /\ mark'.file # NoFile
  BY <1>3, <1>4 DEF NoFile, Sides
<1>7. Files' = Files
  BY <1>2 DEF Files
<1>8. RefsOK' /\ MergeCanResume'
  BY <1>1, <1>2, <1>5, <1>7 DEF BInv, RefsOK, MergeCanResume
<1>9. (OwnFile => OwnFile') /\ \A c : OnBranch(c) => OnBranch(c)'
  BY <1>1, <1>5, <1>6 DEF OwnFile, OnBranch
<1>10. JobOK'
  <2>1. CASE AtRest
    BY <1>1, <1>9, <2>1 DEF AtRest, JobOK
  <2>2. CASE Unmarking
    BY <1>1, <1>5, <1>9, <2>2 DEF Unmarking, JobOK
  <2>3. ASSUME NEW l \in C, NEW r \in C, Marking(l, r) PROVE Marking(l, r)'
    BY <1>1, <1>5, <1>9, <2>3 DEF Marking
  <2>4. ASSUME NEW b, NEW c \in C, Advancing(b, c) PROVE Advancing(b, c)'
    BY <1>1, <1>9, <2>4 DEF Advancing
  <2> QED
    BY <1>2, <2>1, <2>2, <2>3, <2>4 DEF BInv, JobOK
<1> QED
  BY <1>2, <1>8, <1>10 DEF BInv

LEMMA CommitTreesStep ==
    ASSUME BInv, NEW nodes \in Tree(NodeId, Value), NEW edges \in Tree(EdgeId, EdgeBlock),
           \A e \in DOMAIN edges : {Src[edges[e]], Dst[edges[e]]} \subseteq DOMAIN nodes,
           CommitTrees(nodes, edges)
    PROVE  BInv'
<1> DEFINE i == Len(commit) + 1
           c == [parents |-> {head}, anc |-> Ancestors(head) \cup {i}, nodes |-> nodes, edges |-> edges]
<1>1. /\ job = <<>> /\ OnBranch(head) /\ OwnFile /\ head \in C
      /\ commit' = Append(commit, c) /\ head' = i
      /\ ref' = [b \in Branch |-> IF b = active THEN i ELSE ref[b]]
      /\ UNCHANGED active /\ UNCHANGED mark /\ UNCHANGED job /\ UNCHANGED crashes
  BY Resting DEF CommitTrees, BInv, RefsOK
<1>2. /\ head \in Nat /\ commit[head].anc \subseteq C /\ Len(commit) \in Nat /\ C = 1..Len(commit)
  BY <1>1, CommitIs DEF BInv
<1>3. /\ c \in CommitRecord /\ c.parents = {head} /\ c.anc \subseteq 1..i
      /\ c.nodes = nodes /\ c.edges = edges
  BY <1>2 DEF CommitRecord, Ancestors
<1> HIDE DEF c
<1>4. EndsThere(c)
  BY <1>3 DEF EndsThere, Blocks
<1>5. Cardinality(c.parents) = 1
  BY <1>2, <1>3, FS_Singleton
<1>6. CommitsOK' /\ C' = C \cup {i} /\ i \in Nat \ {0}
  <2>1. CommitsOK /\ c.parents \subseteq C /\ Cardinality(c.parents) # 2
    BY <1>1, <1>3, <1>5 DEF BInv
  <2>2. c.anc \subseteq 1..(Len(commit) + 1) /\ commit' = Append(commit, c) /\ c \in CommitRecord
    BY <1>1, <1>3
  <2> QED
    BY <1>4, <2>1, <2>2, CommitAdded
<1> HIDE DEF i
<1>7. /\ ref \in [Branch -> {0} \cup C] /\ active \in Branch \cup {NoBranch}
      /\ (active # NoBranch => ref[active] # 0)
      /\ mark \in [orig : {0} \cup C, other : {0} \cup C, file : Files] /\ crashes \in Nat
  BY DEF BInv, RefsOK
<1>8. RefsOK' /\ MergeCanResume'
  <2>1. ref' \in [Branch -> {0} \cup C'] /\ head' \in C'
    BY <1>1, <1>6, <1>7
  <2>2. active' # NoBranch => ref'[active'] # 0
    BY <1>1, <1>6, <1>7
  <2>3. mark' \in [orig : {0} \cup C', other : {0} \cup C', file : Files']
    <3>1. Files \subseteq Files'
      BY <1>6 DEF Files
    <3> QED
      BY <1>1, <1>6, <1>7, <3>1
  <2> QED
    BY <1>1, <1>7, <2>1, <2>2, <2>3 DEF RefsOK, MergeCanResume, BInv
<1>9. AtRest'
  <2>1. OnBranch(head)'
    BY <1>1, <1>7 DEF OnBranch
  <2>2. OwnFile'
    BY <1>1 DEF OwnFile
  <2> QED
    BY <1>1, <2>1, <2>2 DEF AtRest
<1> QED
  BY <1>6, <1>8, <1>9 DEF BInv, JobOK

LEMMA CommitStep == ASSUME BInv, Commit PROVE BInv'
<1>1. head \in C /\ CommitsOK
  BY DEF BInv, RefsOK
<1>2. PICK n, e : Changed(commit[head].nodes, commit[head].edges, n, e) /\ CommitTrees(n, e)
  BY DEF Commit, Changed
<1>3. /\ n \in Tree(NodeId, Value) /\ e \in Tree(EdgeId, EdgeBlock)
      /\ \A x \in DOMAIN e : {Src[e[x]], Dst[e[x]]} \subseteq DOMAIN n
  BY <1>1, <1>2, ChangeIs
<1> QED
  BY <1>2, <1>3, CommitTreesStep

LEMMA SwitchStep == ASSUME BInv, NEW b \in Branch, Switch(b) PROVE BInv'
<1>1. /\ job = <<>> /\ OwnFile /\ ref[b] # 0 /\ head' = ref[b] /\ active' = b
      /\ UNCHANGED commit /\ UNCHANGED ref /\ UNCHANGED mark /\ UNCHANGED job /\ UNCHANGED crashes
  BY Resting DEF Switch, BInv
<1>2. CommitsOK' /\ C' = C
  BY <1>1, CommitsSame DEF BInv
<1>3. Files' = Files
  BY <1>2 DEF Files
<1>4. RefsOK' /\ MergeCanResume'
  BY <1>1, <1>2, <1>3 DEF BInv, RefsOK, MergeCanResume
<1>5. AtRest'
  BY <1>1 DEF AtRest, OnBranch, OwnFile
<1> QED
  BY <1>2, <1>4, <1>5 DEF BInv, JobOK

\* A branch that is not the active one is created or deleted.
LEMMA RefStep ==
    ASSUME BInv, NEW b \in Branch, b # active, NEW c \in {0} \cup C, job = <<>>,
           ref' = [ref EXCEPT ![b] = c], UNCHANGED <<commit, active, head, mark, job, crashes>>
    PROVE  BInv'
<1>1. /\ OwnFile /\ OnBranch(head)
      /\ UNCHANGED commit /\ UNCHANGED active /\ UNCHANGED head
      /\ UNCHANGED mark /\ UNCHANGED job /\ UNCHANGED crashes
  BY Resting DEF BInv
<1>2. CommitsOK' /\ C' = C
  BY <1>1, CommitsSame DEF BInv
<1>3. Files' = Files
  BY <1>2 DEF Files
<1>4. /\ ref \in [Branch -> {0} \cup C] /\ active \in Branch \cup {NoBranch}
      /\ (active # NoBranch => ref[active] # 0)
  BY DEF BInv, RefsOK
<1>5. ref' \in [Branch -> {0} \cup C] /\ (active # NoBranch => ref'[active] = ref[active])
  BY <1>4
<1>6. RefsOK' /\ MergeCanResume'
  BY <1>1, <1>2, <1>3, <1>4, <1>5 DEF BInv, RefsOK, MergeCanResume
<1>7. AtRest'
  BY <1>1, <1>5 DEF AtRest, OnBranch, OwnFile
<1> QED
  BY <1>2, <1>6, <1>7 DEF BInv, JobOK

LEMMA BranchStep == ASSUME BInv, NEW b \in Branch, CreateBranch(b) \/ DeleteBranch(b) PROVE BInv'
<1>1. active # NoBranch => ref[active] # 0
  BY DEF BInv, RefsOK
<1>2. CASE CreateBranch(b)
  <2>1. b # active
    BY <1>1, <1>2, BranchAssumption DEF CreateBranch
  <2>2. PICK c \in C : ref' = [ref EXCEPT ![b] = c]
    BY <1>2 DEF CreateBranch, C
  <2> QED
    BY <1>2, <2>1, <2>2, RefStep DEF CreateBranch
<1>3. CASE DeleteBranch(b)
  BY <1>3, RefStep DEF DeleteBranch, MayDelete
<1> QED
  BY <1>2, <1>3

LEMMA CrashStep == ASSUME BInv, Crash PROVE BInv'
<1>1. /\ job' = <<>> /\ crashes' = crashes + 1 /\ crashes \in Nat
      /\ UNCHANGED commit /\ UNCHANGED ref /\ UNCHANGED active /\ UNCHANGED head /\ UNCHANGED mark
  BY DEF Crash, BInv, RefsOK
<1>2. CommitsOK' /\ C' = C
  BY <1>1, CommitsSame DEF BInv
<1>3. Files' = Files
  BY <1>2 DEF Files
<1>4. RefsOK' /\ MergeCanResume'
  BY <1>1, <1>2, <1>3 DEF BInv, RefsOK, MergeCanResume
<1>5. ASSUME OwnFile PROVE OwnFile'
  BY <1>1, <1>5 DEF OwnFile
<1>6. OwnFile'
  <2>1. CASE AtRest \/ \E b, c : Advancing(b, c)
    BY <1>5, <2>1 DEF AtRest, Advancing
  <2>2. CASE Unmarking
    BY <1>1, <2>2 DEF Unmarking, OwnFile
  <2>3. ASSUME NEW l, NEW r, Marking(l, r) PROVE OwnFile'
    <3>1. CASE OwnFile
      BY <1>5, <3>1
    <3>2. CASE mark.other = r /\ mark.orig = l /\ (crashes = 0 => mark.file = NoFile)
      BY <1>1, <3>2 DEF OwnFile
    <3> QED
      BY <2>3, <3>1, <3>2 DEF Marking
  <2> QED
    BY <2>1, <2>2, <2>3 DEF BInv, JobOK
<1>7. OnBranch(head)'
  BY <1>1 DEF OnBranch
<1> QED
  BY <1>1, <1>2, <1>4, <1>6, <1>7 DEF BInv, JobOK, AtRest

-----------------------------------------------------------------------------
(***************************************************************************)
(* One write, of each kind.                                                *)
(***************************************************************************)
LEMMA WriteTypes ==
    ASSUME BInv, Write, NEW w, w = Head(job), ref' \in [Branch -> {0} \cup C],
           active # NoBranch => ref'[active] # 0, head' \in C,
           mark' \in [orig : {0} \cup C, other : {0} \cup C, file : Files],
           mark'.other # 0 => mark'.orig # 0
    PROVE  CommitsOK' /\ RefsOK' /\ MergeCanResume' /\ C' = C
<1>1. UNCHANGED commit /\ UNCHANGED active /\ UNCHANGED crashes
  BY DEF Write
<1>2. CommitsOK' /\ C' = C
  BY <1>1, CommitsSame DEF BInv
<1>3. Files' = Files
  BY <1>2 DEF Files
<1> QED
  BY <1>1, <1>2, <1>3 DEF BInv, RefsOK, MergeCanResume

LEMMA RefWrite ==
    ASSUME BInv, Write, NEW b \in Branch, NEW c \in C, Head(job) = RefTo(b, c)
    PROVE  /\ CommitsOK' /\ RefsOK' /\ MergeCanResume' /\ C' = C
           /\ ref'[b] = c /\ UNCHANGED head /\ UNCHANGED mark
<1>1. ref' = [ref EXCEPT ![b] = c] /\ UNCHANGED head /\ UNCHANGED mark
  BY DEF Write, RefTo
<1>2. /\ ref \in [Branch -> {0} \cup C] /\ active \in Branch \cup {NoBranch}
      /\ (active # NoBranch => ref[active] # 0) /\ head \in C
      /\ mark \in [orig : {0} \cup C, other : {0} \cup C, file : Files]
      /\ (mark.other # 0 => mark.orig # 0)
  BY DEF BInv, RefsOK, MergeCanResume
<1>3. c # 0
  BY CommitIs DEF BInv
<1>4. ref' \in [Branch -> {0} \cup C] /\ ref'[b] = c /\ (active # NoBranch => ref'[active] # 0)
  BY <1>1, <1>2, <1>3, BranchAssumption
<1> QED
  BY <1>1, <1>2, <1>4, WriteTypes

LEMMA HeadWrite ==
    ASSUME BInv, Write, NEW c \in C, Head(job) = HeadTo(c)
    PROVE  /\ CommitsOK' /\ RefsOK' /\ MergeCanResume' /\ C' = C
           /\ head' = c /\ UNCHANGED ref /\ UNCHANGED mark
<1>1. head' = c /\ UNCHANGED ref /\ UNCHANGED mark
  BY DEF Write, HeadTo
<1>2. /\ ref \in [Branch -> {0} \cup C] /\ (active # NoBranch => ref[active] # 0)
      /\ mark \in [orig : {0} \cup C, other : {0} \cup C, file : Files]
      /\ (mark.other # 0 => mark.orig # 0)
  BY DEF BInv, RefsOK, MergeCanResume
<1> QED
  BY <1>1, <1>2, WriteTypes

\* A file is written; not ORIG_HEAD where MERGE_HEAD is, nor MERGE_HEAD where ORIG_HEAD is not.
LEMMA MarkWrite ==
    ASSUME BInv, Write, NEW c \in {0} \cup C, NEW f \in Files,
           \/ Head(job) = OrigTo(c) /\ mark.other = 0
           \/ Head(job) = OtherTo(c) /\ (c # 0 => mark.orig # 0)
           \/ Head(job) = FileTo(f)
    PROVE  /\ CommitsOK' /\ RefsOK' /\ MergeCanResume' /\ C' = C
           /\ UNCHANGED ref /\ UNCHANGED head
           /\ Head(job) = OrigTo(c) => /\ mark'.orig = c /\ mark'.other = mark.other
                                       /\ mark'.file = mark.file
           /\ Head(job) = OtherTo(c) => /\ mark'.orig = mark.orig /\ mark'.other = c
                                        /\ mark'.file = mark.file
           /\ Head(job) = FileTo(f) => /\ mark'.orig = mark.orig /\ mark'.other = mark.other
                                       /\ mark'.file = f
<1>1. /\ ref \in [Branch -> {0} \cup C] /\ (active # NoBranch => ref[active] # 0) /\ head \in C
      /\ mark \in [orig : {0} \cup C, other : {0} \cup C, file : Files]
      /\ (mark.other # 0 => mark.orig # 0)
  BY DEF BInv, RefsOK, MergeCanResume
<1>2. Head(job).to \in {"orig", "other", "file"}
  BY DEF OrigTo, OtherTo, FileTo
<1>3. UNCHANGED ref /\ UNCHANGED head
  BY <1>2 DEF Write
<1>4. /\ Head(job) = OrigTo(c) => mark' = [mark EXCEPT !.orig = c]
      /\ Head(job) = OtherTo(c) => mark' = [mark EXCEPT !.other = c]
      /\ Head(job) = FileTo(f) => mark' = [mark EXCEPT !.file = f]
  BY DEF Write, OrigTo, OtherTo, FileTo
<1>5. mark' \in [orig : {0} \cup C, other : {0} \cup C, file : Files]
  BY <1>1, <1>4
<1>6. /\ Head(job) = OrigTo(c) => /\ mark'.orig = c /\ mark'.other = mark.other
                                  /\ mark'.file = mark.file
      /\ Head(job) = OtherTo(c) => /\ mark'.orig = mark.orig /\ mark'.other = c
                                   /\ mark'.file = mark.file
      /\ Head(job) = FileTo(f) => /\ mark'.orig = mark.orig /\ mark'.other = mark.other
                                  /\ mark'.file = f
  BY <1>1, <1>4
<1>7. mark'.other # 0 => mark'.orig # 0
  BY <1>1, <1>6
<1>8. CommitsOK' /\ RefsOK' /\ MergeCanResume' /\ C' = C
  BY <1>1, <1>3, <1>5, <1>7, WriteTypes
<1> QED
  BY <1>3, <1>6, <1>8

-----------------------------------------------------------------------------
LEMMA UnmarkingWrite ==
    ASSUME BInv, Write, Unmarking \/ (AtRest /\ job # <<>>)
    PROVE  BInv'
<1> DEFINE x == OtherTo(0)
           y == OrigTo(0)
           z == FileTo(NoFile)
<1>1. /\ \/ job = <<x, y, z>>
         \/ job = <<y, z>> /\ mark.other = 0
         \/ job = <<z>> /\ mark.other = 0
      /\ OnBranch(head)
  BY DEF Unmarking, AtRest
<1>2. job' = Tail(job) /\ UNCHANGED active /\ UNCHANGED crashes
  BY DEF Write
<1> HIDE DEF x, y, z
<1>3. /\ job = <<x, y, z>> => Head(job) = x /\ job' = <<y, z>>
      /\ job = <<y, z>> => Head(job) = y /\ job' = <<z>>
      /\ job = <<z>> => Head(job) = z /\ job' = <<>>
  <2>1. /\ Head(<<x, y, z>>) = x /\ Tail(<<x, y, z>>) = <<y, z>>
        /\ Head(<<y, z>>) = y /\ Tail(<<y, z>>) = <<z>>
        /\ Head(<<z>>) = z /\ Tail(<<z>>) = <<>>
    BY Tails
  <2> QED
    BY <1>2, <2>1
<1>4. NoFile \in Files
  BY DEF NoFile, Files
<1>5. CASE job = <<x, y, z>>
  <2>1. Head(job) = OtherTo(0) /\ job' = <<y, z>>
    BY <1>3, <1>5 DEF x
  <2>2. /\ CommitsOK' /\ RefsOK' /\ MergeCanResume' /\ C' = C
        /\ UNCHANGED ref /\ UNCHANGED head /\ mark'.other = 0
    BY <1>4, <2>1, MarkWrite
  <2>3. Unmarking'
    BY <1>1, <1>2, <2>1, <2>2 DEF Unmarking, OnBranch, y, z
  <2> QED
    BY <2>2, <2>3 DEF BInv, JobOK
<1>6. CASE job = <<y, z>> /\ mark.other = 0
  <2>1. Head(job) = OrigTo(0) /\ job' = <<z>>
    BY <1>3, <1>6 DEF y
  <2>2. /\ CommitsOK' /\ RefsOK' /\ MergeCanResume' /\ C' = C
        /\ UNCHANGED ref /\ UNCHANGED head /\ mark'.other = 0
    BY <1>4, <1>6, <2>1, MarkWrite
  <2>3. Unmarking'
    BY <1>1, <1>2, <2>1, <2>2 DEF Unmarking, OnBranch, z
  <2> QED
    BY <2>2, <2>3 DEF BInv, JobOK
<1>7. CASE job = <<z>> /\ mark.other = 0
  <2>1. Head(job) = FileTo(NoFile) /\ job' = <<>>
    BY <1>3, <1>7 DEF z
  <2>2. /\ CommitsOK' /\ RefsOK' /\ MergeCanResume' /\ C' = C
        /\ UNCHANGED ref /\ UNCHANGED head /\ mark'.other = 0 /\ mark'.file = NoFile
    BY <1>4, <1>7, <2>1, MarkWrite
  <2>3. AtRest'
    BY <1>1, <1>2, <2>1, <2>2 DEF AtRest, OnBranch, OwnFile
  <2> QED
    BY <2>2, <2>3 DEF BInv, JobOK
<1> QED
  BY <1>1, <1>5, <1>6, <1>7

LEMMA MarkingWrite ==
    ASSUME BInv, Write, NEW l \in C, NEW r \in C, Marking(l, r)
    PROVE  BInv'
<1> DEFINE x == OrigTo(l)
           y == OtherTo(r)
           z == FileTo(ConflictsOf(l, r))
<1>1. /\ OnBranch(head)
      /\ \/ job = <<x, y, z>> /\ mark.other = 0 /\ OwnFile
         \/ job = <<y, z>> /\ mark.other = 0 /\ mark.orig = l /\ OwnFile
         \/ job = <<z>> /\ mark.other = r /\ mark.orig = l
  BY DEF Marking
<1>2. job' = Tail(job) /\ UNCHANGED active /\ UNCHANGED crashes
  BY DEF Write
<1> HIDE DEF x, y, z
<1>3. /\ job = <<x, y, z>> => Head(job) = x /\ job' = <<y, z>>
      /\ job = <<y, z>> => Head(job) = y /\ job' = <<z>>
      /\ job = <<z>> => Head(job) = z /\ job' = <<>>
  <2>1. /\ Head(<<x, y, z>>) = x /\ Tail(<<x, y, z>>) = <<y, z>>
        /\ Head(<<y, z>>) = y /\ Tail(<<y, z>>) = <<z>>
        /\ Head(<<z>>) = z /\ Tail(<<z>>) = <<>>
    BY Tails
  <2> QED
    BY <1>2, <2>1
<1>4. ConflictsOf(l, r) \in Files /\ l # 0
  BY CommitIs DEF ConflictsOf, Files, BInv
<1>5. CASE job = <<x, y, z>> /\ mark.other = 0 /\ OwnFile
  <2>1. Head(job) = OrigTo(l) /\ job' = <<y, z>>
    BY <1>3, <1>5 DEF x
  <2>2. /\ CommitsOK' /\ RefsOK' /\ MergeCanResume' /\ C' = C
        /\ UNCHANGED ref /\ UNCHANGED head
        /\ mark'.orig = l /\ mark'.other = 0 /\ mark'.file = mark.file
    BY <1>4, <1>5, <2>1, MarkWrite
  <2>3. Marking(l, r)'
    BY <1>1, <1>2, <1>5, <2>1, <2>2 DEF Marking, OnBranch, OwnFile, y, z
  <2> QED
    BY <2>2, <2>3 DEF BInv, JobOK
<1>6. CASE job = <<y, z>> /\ mark.other = 0 /\ mark.orig = l /\ OwnFile
  <2>1. Head(job) = OtherTo(r) /\ job' = <<z>>
    BY <1>3, <1>6 DEF y
  <2>2. /\ CommitsOK' /\ RefsOK' /\ MergeCanResume' /\ C' = C
        /\ UNCHANGED ref /\ UNCHANGED head
        /\ mark'.orig = l /\ mark'.other = r /\ mark'.file = mark.file
    BY <1>4, <1>6, <2>1, MarkWrite
  <2>3. Marking(l, r)'
    BY <1>1, <1>2, <1>6, <2>1, <2>2 DEF Marking, OnBranch, OwnFile, z
  <2> QED
    BY <2>2, <2>3 DEF BInv, JobOK
<1>7. CASE job = <<z>> /\ mark.other = r /\ mark.orig = l
  <2>1. Head(job) = FileTo(ConflictsOf(l, r)) /\ job' = <<>>
    BY <1>3, <1>7 DEF z
  <2>2. /\ CommitsOK' /\ RefsOK' /\ MergeCanResume' /\ C' = C
        /\ UNCHANGED ref /\ UNCHANGED head
        /\ mark'.orig = l /\ mark'.other = r /\ mark'.file = ConflictsOf(l, r)
    BY <1>4, <1>7, <2>1, MarkWrite
  <2>3. OwnFile'
    <3>1. r # 0 /\ ConflictsOf(l, r).left = l /\ ConflictsOf(l, r).right = r
      BY CommitIs DEF ConflictsOf, BInv
    <3> QED
      BY <2>2, <3>1 DEF OwnFile
  <2>4. AtRest'
    BY <1>1, <1>2, <2>1, <2>2, <2>3 DEF AtRest, OnBranch
  <2> QED
    BY <2>2, <2>4 DEF BInv, JobOK
<1> QED
  BY <1>1, <1>5, <1>6, <1>7

LEMMA AdvancingWrite ==
    ASSUME BInv, Write, NEW b \in Branch \cup {NoBranch}, NEW c \in C, Advancing(b, c)
    PROVE  BInv'
<1> DEFINE p == RefTo(b, c)
           h == HeadTo(c)
           x == OtherTo(0)
           y == OrigTo(0)
           z == FileTo(NoFile)
<1>1. /\ OwnFile
      /\ \/ /\ b \in Branch /\ job \in {<<p, h>>, <<p, h, x, y, z>>} /\ (active # NoBranch => b = active)
         \/ job \in {<<h>>, <<h, x, y, z>>} /\ OnBranch(c)
  BY DEF Advancing, Moving, Following
<1>2. job' = Tail(job) /\ UNCHANGED active /\ UNCHANGED crashes
  BY DEF Write
<1> HIDE DEF p, h, x, y, z
<1>3. CASE /\ b \in Branch /\ job \in {<<p, h>>, <<p, h, x, y, z>>} /\ (active # NoBranch => b = active)
  <2>1. Head(job) = p /\ job' \in {<<h>>, <<h, x, y, z>>}
    <3>1. /\ Head(<<p, h>>) = p /\ Tail(<<p, h>>) = <<h>>
          /\ Head(<<p, h, x, y, z>>) = p /\ Tail(<<p, h, x, y, z>>) = <<h, x, y, z>>
      BY Tails
    <3> QED
      BY <1>2, <1>3, <3>1
  <2>2. Head(job) = RefTo(b, c) /\ job' \in Following(c)
    BY <2>1 DEF p, h, x, y, z, Following
  <2>3. /\ CommitsOK' /\ RefsOK' /\ MergeCanResume' /\ C' = C
        /\ ref'[b] = c /\ UNCHANGED head /\ UNCHANGED mark
    BY <1>3, <2>2, RefWrite
  <2>4. OnBranch(c)' /\ OwnFile'
    BY <1>1, <1>2, <1>3, <2>3 DEF OnBranch, OwnFile
  <2>5. Advancing(b, c)'
    BY <2>2, <2>4 DEF Advancing
  <2> QED
    BY <2>3, <2>5 DEF BInv, JobOK
<1>4. CASE job \in {<<h>>, <<h, x, y, z>>} /\ OnBranch(c)
  <2>1. Head(job) = h /\ job' \in {<<>>, <<x, y, z>>}
    <3>1. /\ Head(<<h>>) = h /\ Tail(<<h>>) = <<>>
          /\ Head(<<h, x, y, z>>) = h /\ Tail(<<h, x, y, z>>) = <<x, y, z>>
      BY Tails
    <3> QED
      BY <1>2, <1>4, <3>1
  <2>2. Head(job) = HeadTo(c) /\ job' \in {<<>>, <<OtherTo(0), OrigTo(0), FileTo(NoFile)>>}
    BY <2>1 DEF h, x, y, z
  <2>3. /\ CommitsOK' /\ RefsOK' /\ MergeCanResume' /\ C' = C
        /\ head' = c /\ UNCHANGED ref /\ UNCHANGED mark
    BY <2>2, HeadWrite
  <2>4. OnBranch(head)' /\ OwnFile'
    BY <1>1, <1>2, <1>4, <2>3 DEF OnBranch, OwnFile
  <2>5. AtRest'
    BY <2>2, <2>4 DEF AtRest
  <2> QED
    BY <2>3, <2>5 DEF BInv, JobOK
<1> QED
  BY <1>1, <1>3, <1>4

LEMMA WriteStep == ASSUME BInv, Write PROVE BInv'
<1>1. job # <<>>
  BY DEF Write
<1> QED
  BY <1>1, UnmarkingWrite, MarkingWrite, AdvancingWrite DEF BInv, JobOK

-----------------------------------------------------------------------------
(***************************************************************************)
(* The theorems.                                                           *)
(***************************************************************************)
LEMMA InitInv == BMInit => BInv
<1> SUFFICES ASSUME BMInit PROVE BInv
  OBVIOUS
<1>1. PICK nodes \in Tree(NodeId, Value), edges \in Tree(EdgeId, EdgeBlock) :
          /\ \A b \in Blocks(edges) : {Src[b], Dst[b]} \subseteq DOMAIN nodes
          /\ commit = <<[parents |-> {}, anc |-> {1}, nodes |-> nodes, edges |-> edges]>>
  BY DEF BMInit
<1> DEFINE c == [parents |-> {}, anc |-> {1}, nodes |-> nodes, edges |-> edges]
<1>2. c \in CommitRecord /\ c.parents = {} /\ c.anc = {1} /\ EndsThere(c)
  BY <1>1 DEF CommitRecord, EndsThere
<1> HIDE DEF c
<1>3. commit = <<c>>
  BY <1>1 DEF c
<1>4. commit \in Seq(CommitRecord) /\ C = {1} /\ commit[1] = c
  BY <1>2, <1>3 DEF C
<1>5. CommitsOK
  <2>1. Cardinality(c.parents) # 2
    BY <1>2, FS_EmptySet
  <2>2. \A i \in C : commit[i].parents \subseteq 1..(i - 1) /\ commit[i].anc \subseteq 1..i
    BY <1>2, <1>4
  <2>3. MergedIsWhole
    BY <1>2, <1>4, <2>1 DEF MergedIsWhole, EndsThere, C
  <2> QED
    BY <1>4, <2>2, <2>3 DEF CommitsOK
<1>6. /\ ref = [b \in Branch |-> IF b = Main THEN 1 ELSE 0]
      /\ active \in {Main, NoBranch} /\ head = 1 /\ mark = NoMark /\ job = <<>> /\ crashes = 0
  BY DEF BMInit
<1>7. RefsOK /\ MergeCanResume
  BY <1>4, <1>6, BranchAssumption DEF RefsOK, MergeCanResume, NoMark, NoFile, Files
<1>8. AtRest
  BY <1>6, BranchAssumption DEF AtRest, OnBranch, OwnFile, NoMark, NoFile
<1> QED
  BY <1>5, <1>7, <1>8 DEF BInv, JobOK

LEMMA NextInv == BInv /\ [BMNext]_bmVars => BInv'
<1> SUFFICES ASSUME BInv, [BMNext]_bmVars PROVE BInv'
  OBVIOUS
<1>1. CASE \E c \in DOMAIN commit, s \in Sides \cup {"manual"} : Merge(c, s)
  BY <1>1, MergeStep DEF C
<1>2. CASE Continue \/ Abort \/ Commit \/ Write \/ Crash
  BY <1>2, ContinueStep, AbortStep, CommitStep, WriteStep, CrashStep
<1>3. CASE \E s \in Sides : Resolve(s)
  BY <1>3, ResolveStep
<1>4. CASE \E b \in Branch : Switch(b) \/ CreateBranch(b) \/ DeleteBranch(b)
  BY <1>4, SwitchStep, BranchStep
<1>5. CASE UNCHANGED bmVars
  <2>1. /\ UNCHANGED commit /\ UNCHANGED ref /\ UNCHANGED active /\ UNCHANGED head
        /\ UNCHANGED mark /\ UNCHANGED job /\ UNCHANGED crashes
    BY <1>5 DEF bmVars
  <2>2. CommitsOK' /\ C' = C
    BY <2>1, CommitsSame DEF BInv
  <2>3. RefsOK' /\ MergeCanResume'
    BY <2>1, <2>2, CommitsGrow DEF BInv
  <2>4. JobOK'
    <3>1. (AtRest => AtRest') /\ (Unmarking => Unmarking')
      BY <2>1 DEF AtRest, Unmarking, OnBranch, OwnFile
    <3>2. ASSUME NEW l, NEW r, Marking(l, r) PROVE Marking(l, r)'
      BY <2>1, <3>2 DEF Marking, OnBranch, OwnFile
    <3>3. ASSUME NEW b, NEW c, Advancing(b, c) PROVE Advancing(b, c)'
      BY <2>1, <3>3 DEF Advancing, OnBranch, OwnFile
    <3> QED
      BY <2>2, <3>1, <3>2, <3>3 DEF BInv, JobOK
  <2> QED
    BY <2>2, <2>3, <2>4 DEF BInv
<1> QED
  BY <1>1, <1>2, <1>3, <1>4, <1>5 DEF BMNext

LEMMA Invariant == BMSpec => []BInv
BY InitInv, NextInv, PTL DEF BMSpec

(***************************************************************************)
(* Types, and the active branch exists, for any commits, commands and      *)
(* kills (delete_branch, run of switch, commit_opts).                      *)
(***************************************************************************)
THEOREM BMTypes == BMSpec => []BMTypeOK
<1>1. BInv => BMTypeOK
  <2> SUFFICES ASSUME BInv PROVE BMTypeOK
    OBVIOUS
  <2>1. \A i \in C : /\ commit[i].parents \subseteq 1..(i - 1) /\ commit[i].anc \subseteq 1..i
                     /\ commit[i] \in CommitRecord
    BY CommitIs DEF BInv, CommitsOK
  <2>2. \A i \in C : commit[i].nodes \in Tree(NodeId, Value) /\ commit[i].edges \in Tree(EdgeId, EdgeBlock)
    BY <2>1 DEF CommitRecord
  <2>3. {mark.orig, mark.other, mark.file.left, mark.file.right} \subseteq {0} \cup C
    BY DEF BInv, RefsOK, Files
  <2> QED
    BY <2>1, <2>2, <2>3 DEF BInv, RefsOK, BMTypeOK, C
<1> QED
  BY <1>1, Invariant, PTL

(***************************************************************************)
(* Whatever the histories that are merged, with whatever strategy, no edge *)
(* of a commit lacks an end and no key of a side is left out               *)
(* (merge_three_way).                                                      *)
(***************************************************************************)
THEOREM MergesAreWhole == BMSpec => []MergedIsWhole
<1>1. BInv => MergedIsWhole
  BY DEF BInv, CommitsOK
<1> QED
  BY <1>1, Invariant, PTL

(***************************************************************************)
(* Unless a process is killed, the head is the commit of the active branch *)
(* between two commands (advance_ref, commit_opts).                        *)
(***************************************************************************)
THEOREM HeadsAreOnBranches == BMSpec => []HeadOnBranch
<1>1. BInv => HeadOnBranch
  BY Resting DEF BInv, HeadOnBranch, OnBranch
<1> QED
  BY <1>1, Invariant, PTL

(***************************************************************************)
(* After any number of kills, anywhere, MERGE_HEAD is never without        *)
(* ORIG_HEAD (run, run_abort, run_continue).                               *)
(***************************************************************************)
THEOREM MergesCanResume == BMSpec => []MergeCanResume
<1>1. BInv => MergeCanResume
  BY DEF BInv
<1> QED
  BY <1>1, Invariant, PTL

(***************************************************************************)
(* With at most one kill, the conflicts on file are those of the merge in  *)
(* progress (run, run_continue).                                           *)
(***************************************************************************)
THEOREM ConflictsAreOwn == BMSpec => []OwnConflicts
<1>1. BInv => OwnConflicts
  BY Resting DEF BInv, OwnConflicts, OwnFile
<1> QED
  BY <1>1, Invariant, PTL
=============================================================================
