---------------------------- MODULE BranchMerge ----------------------------
(***************************************************************************)
(* Branches of a mnem repository and their merge from the command line.    *)
(*                                                                         *)
(* Sources: mnem-core/src/repo/merge.rs (merge_three_way and what it       *)
(* calls), repo/conflict.rs; mnem-cli/src/commands/merge.rs, switch.rs,    *)
(* branch.rs; the part of commit_opts and update_ref that moves branches.  *)
(*                                                                         *)
(* A command computes in memory what it will do, then does it as a         *)
(* sequence of durable writes: operations on the repository, and files     *)
(* beside it that mark a merge in progress.  The process may be killed     *)
(* between two writes.  Commands run one at a time, as the database is     *)
(* opened by one process at a time.                                        *)
(***************************************************************************)
EXTENDS GraphTrees, Sequences

CONSTANTS NodeId, Value, EdgeId, EdgeBlock,
          Src, Dst,                  \* ends of an edge block; two with the same ends differ in properties
          Branch, Main, NoBranch,
          MaxCommits, MaxMerges, MaxCrashes    \* bounds: commits made by users (with
                                               \* the first one), merge commits, kills

ASSUME BranchAssumption == Main \in Branch /\ NoBranch \notin Branch

\* Ids and hashes have a fixed width, so that there are finitely many.
ASSUME BlocksAssumption == /\ NodeId \cup Value \cup EdgeId \cup EdgeBlock \subseteq Nat
                           /\ IsFiniteSet(NodeId \cup Value \cup EdgeId \cup EdgeBlock)
                           /\ Src \in [EdgeBlock -> NodeId]
                           /\ Dst \in [EdgeBlock -> NodeId]

VARIABLES commit,   \* the commits, in the order they were stored
          ref,      \* the commit of each branch, 0 when there is no such branch
          active,   \* View.extra["active_branch"]
          head,     \* the commit of the view
          mark,     \* the files ORIG_HEAD, MERGE_HEAD, MERGE_CONFLICTS.json
          job,      \* the writes that the running command has still to do
          crashes

bmVars == <<commit, ref, active, head, mark, job, crashes>>

NoFile == [left |-> 0, right |-> 0, pick |-> "none"]

NoMark == [orig |-> 0, other |-> 0, file |-> NoFile]

Sides == {"ours", "theirs"}

\* Writes that commands consist of.
RefTo(b, c) == [to |-> "ref", branch |-> b, commit |-> c]
HeadTo(c)   == [to |-> "head", commit |-> c]
OrigTo(c)   == [to |-> "orig", commit |-> c]
OtherTo(c)  == [to |-> "other", commit |-> c]
FileTo(f)   == [to |-> "file", file |-> f]

-----------------------------------------------------------------------------
(***************************************************************************)
(* The commit graph: ancestors, and the lowest ones two commits share.     *)
(* The code takes the one with the smallest hash, which may be any.        *)
(***************************************************************************)
Ancestors(c) == commit[c].anc

LCAs(left, right) ==
    LET common == Ancestors(left) \cap Ancestors(right)
    IN  {a \in common : \A b \in common : a \in Ancestors(b) => a = b}

(***************************************************************************)
(* Conflicts: a node that both sides hold with different blocks, neither   *)
(* of them that of the base; and an edge, looked up by its ends, with      *)
(* different properties, neither of them those of the base.  Of several    *)
(* edges with the same ends the last in the order of ids is looked at.     *)
(***************************************************************************)
Ends(b) == <<Src[b], Dst[b]>>

ByEnds(edges) ==
    [k \in {Ends(b) : b \in Blocks(edges)} |->
        edges[Highest({e \in DOMAIN edges : Ends(edges[e]) = k})]]

Diverging(l, r, base) ==
    {k \in DOMAIN l \cap DOMAIN r :
        l[k] # r[k] /\ (k \in DOMAIN base => base[k] \notin {l[k], r[k]})}

HasConflicts(l, r, base) ==
    \/ Diverging(commit[l].nodes, commit[r].nodes, commit[base].nodes) # {}
    \/ Diverging(ByEnds(commit[l].edges), ByEnds(commit[r].edges), ByEnds(commit[base].edges)) # {}

\* Mutated form: the trees are intersected.
MergedNarrow(l, r, strategy) ==
    [parents |-> {l, r}, anc |-> {l, r} \cup Ancestors(l) \cup Ancestors(r),
     nodes |-> UnionOfShared({commit[l].nodes, commit[r].nodes}),
     edges |-> StrategyUnion(strategy, commit[l].edges, commit[r].edges)]

\* The merge commit: the union of the trees, in which a strategy prefers a side.
Merged(l, r, strategy) ==
    [parents |-> {l, r}, anc |-> {l, r} \cup Ancestors(l) \cup Ancestors(r),
     nodes |-> StrategyUnion(strategy, commit[l].nodes, commit[r].nodes),
     edges |-> StrategyUnion(strategy, commit[l].edges, commit[r].edges)]

\* A merge commit depends on its parents and trees only: made twice, it is one block.
Numbered(c) == {i \in DOMAIN commit : commit[i].parents = c.parents
                                      /\ commit[i].nodes = c.nodes /\ commit[i].edges = c.edges}

WithSelf(c, i) == [c EXCEPT !.anc = c.anc \cup {i}]

-----------------------------------------------------------------------------
\* Mutated form: the head stays where it was.
AdvanceRefOnly(b, c) == IF b = NoBranch THEN <<HeadTo(c)>> ELSE <<RefTo(b, c)>>

Advance(b, c) == IF b = NoBranch THEN <<HeadTo(c)>> ELSE <<RefTo(b, c), HeadTo(c)>>

\* A view without active branch: a branch at the head counts as the current one.
CurrentBranches ==
    LET atHead == {b \in Branch : ref[b] = head}
    IN  CASE active # NoBranch -> {active}
          [] active = NoBranch /\ atHead # {} -> atHead
          [] OTHER -> {NoBranch}

\* The outcome of merge_three_way when it has one to advance to; then does the writes in after.
Conclude(l, r, base, strategy, after) ==
    \E b \in CurrentBranches :
        \/ /\ base \in {l, r}
           /\ job' = Advance(b, IF base = r THEN l ELSE r) \o after
           /\ UNCHANGED commit
        \/ /\ base \notin {l, r} /\ Numbered(Merged(l, r, strategy)) # {}
           /\ \E i \in Numbered(Merged(l, r, strategy)) : job' = Advance(b, i) \o after
           /\ UNCHANGED commit
        \/ /\ base \notin {l, r} /\ Numbered(Merged(l, r, strategy)) = {}
           /\ Cardinality({i \in DOMAIN commit : Cardinality(commit[i].parents) = 2}) < MaxMerges
           /\ commit' = Append(commit, WithSelf(Merged(l, r, strategy), Len(commit) + 1))
           /\ job' = Advance(b, Len(commit) + 1) \o after

\* Mutated form: MERGE_HEAD is the first file.
MarksOtherFirst(l, r) ==
    <<OtherTo(r), OrigTo(l), FileTo([left |-> l, right |-> r, pick |-> "none"])>>

Marks(l, r) == <<OrigTo(l), OtherTo(r), FileTo([left |-> l, right |-> r, pick |-> "none"])>>

\* Mutated form: the file of conflicts is left.
UnmarkHeads == <<OtherTo(0), OrigTo(0)>>

Unmark == <<OtherTo(0), OrigTo(0), FileTo(NoFile)>>

Merge(other, strategy) ==
    /\ job = <<>> /\ mark.other = 0 /\ other # head
    /\ \E base \in LCAs(head, other) :
          \/ /\ strategy = "manual" /\ base \notin {head, other}
             /\ HasConflicts(head, other, base)
             /\ job' = Marks(head, other)
             /\ UNCHANGED commit
          \/ /\ strategy \in Sides \/ base \in {head, other} \/ ~ HasConflicts(head, other, base)
             /\ Conclude(head, other, base, strategy, <<>>)
    /\ UNCHANGED <<ref, active, head, mark, crashes>>

\* merge --continue, once the same side is entered for every conflict in the file.
Continue ==
    /\ job = <<>> /\ mark.other # 0 /\ mark.orig # 0
    /\ mark.file.pick \in Sides
    /\ \E base \in LCAs(mark.orig, mark.other) :
          Conclude(mark.orig, mark.other, base, mark.file.pick, Unmark)
    /\ UNCHANGED <<ref, active, head, mark, crashes>>

Abort ==
    /\ job = <<>> /\ mark.other # 0
    /\ job' = Unmark
    /\ UNCHANGED <<commit, ref, active, head, mark, crashes>>

\* The user edits the file.
Resolve(side) ==
    /\ mark.file # NoFile /\ mark.file.pick = "none"
    /\ mark' = [mark EXCEPT !.file.pick = side]
    /\ UNCHANGED <<commit, ref, active, head, job, crashes>>

-----------------------------------------------------------------------------
(***************************************************************************)
(* A commit on the head; it moves the active branch there.  Transactions   *)
(* change one node or edge each; removing a node removes its edges.        *)
(***************************************************************************)
CommitTrees(nodes, edges) ==
    LET i == Len(commit) + 1 IN
    /\ job = <<>>
    /\ Cardinality({j \in DOMAIN commit : Cardinality(commit[j].parents) < 2}) < MaxCommits
    /\ <<nodes, edges>> # <<commit[head].nodes, commit[head].edges>>
    /\ commit' = Append(commit, [parents |-> {head}, anc |-> Ancestors(head) \cup {i},
                                 nodes |-> nodes, edges |-> edges])
    /\ head' = i
    /\ ref' = [b \in Branch |-> IF b = active THEN i ELSE ref[b]]
    /\ UNCHANGED <<active, mark, job, crashes>>

EdgesAt(edges, n) == {e \in DOMAIN edges : n \in {Src[edges[e]], Dst[edges[e]]}}

Commit ==
    LET nodes == commit[head].nodes
        edges == commit[head].edges
    IN  \/ \E n \in NodeId, v \in Value :
              CommitTrees(Rebuild(nodes, [k \in {n} |-> v], {}), edges)
        \/ \E n \in DOMAIN nodes :
              CommitTrees(Rebuild(nodes, [k \in {} |-> 0], {n}),
                          Rebuild(edges, [k \in {} |-> 0], EdgesAt(edges, n)))
        \/ \E e \in EdgeId, b \in EdgeBlock :
              /\ {Src[b], Dst[b]} \subseteq DOMAIN nodes
              /\ CommitTrees(nodes, Rebuild(edges, [k \in {e} |-> b], {}))
        \/ \E e \in DOMAIN edges : CommitTrees(nodes, Rebuild(edges, [k \in {} |-> 0], {e}))

Switch(b) ==
    /\ job = <<>> /\ mark.other = 0
    /\ ref[b] # 0 /\ <<ref[b], b>> # <<head, active>>
    /\ head' = ref[b] /\ active' = b
    /\ UNCHANGED <<commit, ref, mark, job, crashes>>

CreateBranch(b) ==
    /\ job = <<>> /\ ref[b] = 0
    /\ \E c \in DOMAIN commit : ref' = [ref EXCEPT ![b] = c]
    /\ UNCHANGED <<commit, active, head, mark, job, crashes>>

MayDelete(b) == job = <<>> /\ ref[b] # 0 /\ b # active

DeleteBranch(b) ==
    /\ MayDelete(b)
    /\ ref' = [ref EXCEPT ![b] = 0]
    /\ UNCHANGED <<commit, active, head, mark, job, crashes>>

-----------------------------------------------------------------------------
\* The next write of the running command.
Write ==
    /\ job # <<>>
    /\ job' = Tail(job)
    /\ LET w == Head(job) IN
          \/ w.to = "ref" /\ ref' = [ref EXCEPT ![w.branch] = w.commit] /\ UNCHANGED <<head, mark>>
          \/ w.to = "head" /\ head' = w.commit /\ UNCHANGED <<ref, mark>>
          \/ w.to = "orig" /\ mark' = [mark EXCEPT !.orig = w.commit] /\ UNCHANGED <<ref, head>>
          \/ w.to = "other" /\ mark' = [mark EXCEPT !.other = w.commit] /\ UNCHANGED <<ref, head>>
          \/ w.to = "file" /\ mark' = [mark EXCEPT !.file = w.file] /\ UNCHANGED <<ref, head>>
    /\ UNCHANGED <<commit, active, crashes>>

\* The process is killed: its remaining writes are not done.
Crash ==
    /\ job # <<>> /\ crashes < MaxCrashes
    /\ job' = <<>> /\ crashes' = crashes + 1
    /\ UNCHANGED <<commit, ref, active, head, mark>>

BMInit ==
    /\ \E nodes \in Tree(NodeId, Value), edges \in Tree(EdgeId, EdgeBlock) :
          /\ \A b \in Blocks(edges) : {Src[b], Dst[b]} \subseteq DOMAIN nodes
          /\ commit = <<[parents |-> {}, anc |-> {1}, nodes |-> nodes, edges |-> edges]>>
    /\ ref = [b \in Branch |-> IF b = Main THEN 1 ELSE 0]
    /\ active \in {Main, NoBranch}    \* a view written by an earlier version has none
    /\ head = 1 /\ mark = NoMark /\ job = <<>> /\ crashes = 0

BMNext ==
    \/ \E c \in DOMAIN commit, s \in Sides \cup {"manual"} : Merge(c, s)
    \/ Continue \/ Abort \/ Commit \/ Write \/ Crash
    \/ \E s \in Sides : Resolve(s)
    \/ \E b \in Branch : Switch(b) \/ CreateBranch(b) \/ DeleteBranch(b)

BMSpec == BMInit /\ [][BMNext]_bmVars
-----------------------------------------------------------------------------
(***************************************************************************)
(* Properties.                                                             *)
(***************************************************************************)
(***************************************************************************)
(* Types; every branch, the head and the marks are commits, and the active *)
(* branch exists (delete_branch, run of switch).                           *)
(***************************************************************************)
BMTypeOK ==
    /\ \A i \in DOMAIN commit :
          /\ commit[i].parents \subseteq 1..(i - 1) /\ commit[i].anc \subseteq 1..i
          /\ commit[i].nodes \in Tree(NodeId, Value) /\ commit[i].edges \in Tree(EdgeId, EdgeBlock)
    /\ ref \in [Branch -> {0} \cup DOMAIN commit]
    /\ active \in Branch \cup {NoBranch} /\ head \in DOMAIN commit
    /\ active # NoBranch => ref[active] # 0
    /\ {mark.orig, mark.other, mark.file.left, mark.file.right} \subseteq {0} \cup DOMAIN commit

(***************************************************************************)
(* A merge commit leaves out nothing that one side has, and no edge in it  *)
(* lacks an end, although one side may have removed a node that the other  *)
(* one linked: nobody checks the merged trees (merge_three_way).           *)
(***************************************************************************)
MergedIsWhole ==
    \A i \in DOMAIN commit :
        /\ \A b \in Blocks(commit[i].edges) : {Src[b], Dst[b]} \subseteq DOMAIN commit[i].nodes
        /\ Cardinality(commit[i].parents) = 2 =>
             \A p \in commit[i].parents :
                 /\ DOMAIN commit[p].nodes \subseteq DOMAIN commit[i].nodes
                 /\ DOMAIN commit[p].edges \subseteq DOMAIN commit[i].edges

(***************************************************************************)
(* While no command runs, the head is the commit of the active branch, or  *)
(* the next commit would take the branch away from commits it had: ref and *)
(* head are moved by two operations (advance_ref, commit_opts).  A process *)
(* that is killed between them leaves the two apart.                       *)
(***************************************************************************)
HeadOnBranch == job = <<>> /\ active # NoBranch /\ crashes = 0 => ref[active] = head

(***************************************************************************)
(* A merge in progress can always be taken up: where MERGE_HEAD is, there  *)
(* is ORIG_HEAD, after a kill at any point (run, run_abort, run_continue). *)
(***************************************************************************)
MergeCanResume == mark.other # 0 => mark.orig # 0

(***************************************************************************)
(* The sides that --continue applies were entered for the merge that is in *)
(* progress, not for an earlier one whose file was left behind: it reads   *)
(* them from one file and the commits from two others.  After two kills at *)
(* the wrong places they may not be.                                       *)
(***************************************************************************)
OwnConflicts ==
    job = <<>> /\ mark.other # 0 /\ mark.file # NoFile /\ crashes < 2 =>
        mark.file.left = mark.orig /\ mark.file.right = mark.other
=============================================================================
