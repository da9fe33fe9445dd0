------------------------------ MODULE ViewLog ------------------------------
(***************************************************************************)
(* What the operations of a mnem repository carry: each has a view, with   *)
(* the head commit, the refs, the active branch and the tombstones, and    *)
(* each commit has a set of nodes.  The module adds to every step of OpLog *)
(* the view it stores; which views concurrent steps leave behind, and what *)
(* merging them keeps, is what the properties are about.                   *)
(*                                                                         *)
(* Sources: mnem-core/src/repo/readonly.rs (update_ref, update_heads,      *)
(* switch_branch), repo/transaction.rs (the view of a commit),             *)
(* repo/merge.rs (merge_views, build_merge_commit).                        *)
(*                                                                         *)
(* A commit has the name of the operation that created it.                 *)
(***************************************************************************)
EXTENDS OpLog

CONSTANTS Ref, Main,     \* names of refs; the one a first commit creates
          NoRef,         \* stands for "no active branch"
          Node,          \* names of nodes
          Edit           \* bound: which kinds of edit are explored

RM == INSTANCE RefMerge WITH Commit <- OpId

EditKinds == {"linearize", "add", "remove", "bury", "unbury", "stage ref", "choose branch",
              "set ref", "delete ref", "move head", "switch"}

ASSUME ViewLogAssumption == /\ Main \in Ref
                            /\ NoRef \notin Ref
                            /\ Edit \subseteq EditKinds

VARIABLES view,     \* the view each stored operation carries
          commit    \* the commits in the blockstore

viewVars == <<vars, view, commit>>

View == [head : OpId \cup {NoOp}, refs : [Ref -> RM!Target],
         active : Ref \cup {NoRef}, tombs : SUBSET Node]

\* anc: the commits that the walk over parents reaches, the commit included.
Commit == [parents : SUBSET OpId, anc : SUBSET OpId, nodes : SUBSET Node]

RootView == [head |-> NoOp, refs |-> [r \in Ref |-> RM!Missing],
             active |-> NoRef, tombs |-> {}]

NoCommit == [parents |-> {}, anc |-> {}, nodes |-> {}]

ViewInit == /\ Init
            /\ view = [o \in OpId |-> RootView]
            /\ commit = [o \in OpId |-> NoCommit]

\* The nodes of the head commit of a view.
Nodes(v) == IF v.head = NoOp THEN {} ELSE commit[v.head].nodes

\* Commits that a user of a handle on operation b can name.
Named(b) == {view[a].head : a \in log[b].anc} \ {NoOp}

-----------------------------------------------------------------------------
(***************************************************************************)
(* Commits.  A transaction adds and removes nodes, buries (tombstones) and *)
(* unburies them, may stage one ref and may choose the active branch.      *)
(***************************************************************************)
Change == [add : SUBSET Node, remove : SUBSET Node,
           bury : SUBSET Node, unbury : SUBSET Node,
           refs : UNION {[R -> RM!Target] : R \in SUBSET Ref},
           active : Ref \cup {NoRef}]

NoChange == [add |-> {}, remove |-> {}, bury |-> {}, unbury |-> {},
             refs |-> [r \in {} |-> RM!Missing], active |-> NoRef]

\* Refs after the staged updates.
Overlay(refs, staged) ==
    [r \in Ref |-> IF r \in DOMAIN staged THEN staged[r] ELSE refs[r]]

(***************************************************************************)
(* The view of commit o on view v.  The first commit of a repository       *)
(* creates the main branch unless the caller staged it, and makes it       *)
(* active; a commit advances the active branch unless the caller staged it.*)
(***************************************************************************)
CommitView(v, o, ch) ==
    LET first   == v.head = NoOp /\ \A r \in Ref : v.refs[r] = RM!Missing
        staged  == Overlay(v.refs, ch.refs)
        create  == first /\ staged[Main] = RM!Missing
        branch  == IF ch.active # NoRef THEN ch.active ELSE v.active
        moved   == (IF create THEN {Main} ELSE {})
                     \cup ({branch} \ (DOMAIN ch.refs \cup {NoRef}))
    IN [head   |-> o,
        refs   |-> [r \in Ref |-> IF r \in moved THEN RM!Normal(o) ELSE staged[r]],
        active |-> IF branch = NoRef /\ create THEN Main ELSE branch,
        tombs  |-> (v.tombs \cup ch.bury) \ ch.unbury]

CommitRecord(o, C, nodes) ==
    [parents |-> C, anc |-> {o} \cup UNION {commit[c].anc : c \in C}, nodes |-> nodes]

\* Mutated form: a commit on a merged head names one parent of the merge.
CommitOfSkipping(v, o, ch) ==
    LET C == {v.head} \ {NoOp}
        D == {c \in OpId : \E d \in C : c \in commit[d].parents}
    IN  CommitRecord(o, IF D = {} THEN C ELSE {CHOOSE c \in D : TRUE},
                     (Nodes(v) \cup ch.add) \ ch.remove)

CommitOf(v, o, ch) ==
    CommitRecord(o, {v.head} \ {NoOp}, (Nodes(v) \cup ch.add) \ ch.remove)

\* The view stored with the operation that p has just written.
Store(p, v) == view' = [view EXCEPT ![new'[p]] = v]

CommitWith(p, lin, ch) ==
    /\ WriteEdit(p, lin)
    /\ Store(p, CommitView(view[base[p]], new'[p], ch))
    /\ commit' = [commit EXCEPT ![new'[p]] = CommitOf(view[base[p]], new'[p], ch)]

CommitNodes(p, lin) ==
    \E n \in Node :
        \/ "add" \in Edit /\ CommitWith(p, lin, [NoChange EXCEPT !.add = {n}])
        \/ /\ "remove" \in Edit /\ n \in Nodes(view[base[p]])
           /\ CommitWith(p, lin, [NoChange EXCEPT !.remove = {n}])

CommitTombs(p, lin) ==
    \E n \in Node :
        \/ "bury" \in Edit /\ CommitWith(p, lin, [NoChange EXCEPT !.bury = {n}])
        \/ /\ "unbury" \in Edit /\ n \in view[base[p]].tombs
           /\ CommitWith(p, lin, [NoChange EXCEPT !.unbury = {n}])

CommitRefs(p, lin) ==
    \E r \in Ref :
        \/ /\ "stage ref" \in Edit
           /\ \E t \in {RM!Missing} \cup {RM!Normal(c) : c \in Named(base[p])} :
                 CommitWith(p, lin, [NoChange EXCEPT !.refs = [x \in {r} |-> t]])
        \/ "choose branch" \in Edit /\ CommitWith(p, lin, [NoChange EXCEPT !.active = r])

-----------------------------------------------------------------------------
(***************************************************************************)
(* Edits of the view alone.  update_ref compares the ref in the view of    *)
(* the handle with what the caller expects, and fails (no step) when they  *)
(* differ; the op-heads are not consulted.                                 *)
(***************************************************************************)
RefMatches(p, r, expected) == view[base[p]].refs[r] = expected

WriteView(p, v) == WriteEdit(p, FALSE) /\ Store(p, v) /\ UNCHANGED commit

UpdateRef(p, r, expected, t) ==
    /\ RefMatches(p, r, expected)
    /\ WriteView(p, [view[base[p]] EXCEPT !.refs[r] = t])

SetRef(p) ==
    /\ "set ref" \in Edit
    /\ \E r \in Ref, c \in Named(base[p]) :
          UpdateRef(p, r, view[base[p]].refs[r], RM!Normal(c))

DeleteRef(p) ==
    /\ "delete ref" \in Edit
    /\ \E r \in Ref : /\ view[base[p]].refs[r] # RM!Missing
                      /\ UpdateRef(p, r, view[base[p]].refs[r], RM!Missing)

UpdateHeads(p) ==
    /\ "move head" \in Edit
    /\ \E c \in Named(base[p]) : WriteView(p, [view[base[p]] EXCEPT !.head = c])

SwitchBranch(p) ==
    /\ "switch" \in Edit
    /\ \E r \in Ref, c \in Named(base[p]) :
          /\ view[base[p]].refs[r] = RM!Normal(c)
          /\ WriteView(p, [view[base[p]] EXCEPT !.head = c, !.active = r])

-----------------------------------------------------------------------------
(***************************************************************************)
(* The merge of concurrent views.  Heads that agree on their commit keep   *)
(* it; otherwise a merge commit, a function of the commits it merges, has  *)
(* the union of their nodes; one whose parents were merged before is that  *)
(* commit again.  The order of heads is that of their hashes: whose active *)
(* branch comes last, and which lowest ancestor is taken, may be any.      *)
(***************************************************************************)
HeadCommits(H) == {view[h].head : h \in H} \ {NoOp}

\* Mutated form: the nodes of one side win.
MergedNodesOfOne(C) == commit[CHOOSE c \in C : TRUE].nodes

MergedNodes(C) == UNION {commit[c].nodes : c \in C}

MergeCommits(C) == {c \in OpId : commit[c].parents = C}

Actives(H) == {view[h].active : h \in H} \ {NoRef}

\* Mutated form: only tombstones that every head has survive.
MergedTombsOfAll(a, H) == {n \in Node : \A h \in H : n \in view[h].tombs}

MergedTombs(a, H) == view[a].tombs \cup UNION {view[h].tombs : h \in H}

MergedView(a, H, head, active) ==
    [head   |-> head,
     refs   |-> [r \in Ref |-> RM!MergeRef(view[a].refs[r], [h \in H |-> view[h].refs[r]])],
     active |-> active,
     tombs  |-> MergedTombs(a, H)]

MergeViews(p) ==
    LET H == seen[p]
        C == HeadCommits(H)
        o == new'[p]
    IN  \E a \in LowestCommonAncestors(H) :
        \E active \in IF Actives(H) = {} THEN {view[a].active} ELSE Actives(H) :
           \/ /\ C = {}
              /\ Store(p, MergedView(a, H, NoOp, active))
              /\ UNCHANGED commit
           \/ /\ \E c \in C : C = {c} /\ Store(p, MergedView(a, H, c, active))
              /\ UNCHANGED commit
           \/ /\ \E c, d \in C : c # d
              /\ \E c \in MergeCommits(C) : Store(p, MergedView(a, H, c, active))
              /\ UNCHANGED commit
           \/ /\ \E c, d \in C : c # d
              /\ MergeCommits(C) = {}
              /\ Store(p, MergedView(a, H, o, active))
              /\ commit' = [commit EXCEPT ![o] = CommitRecord(o, C, MergedNodes(C))]

WriteMergedView(p) ==
    /\ WriteMerge(p)
    /\ IF MergeOps(seen[p]) # {} THEN UNCHANGED <<view, commit>> ELSE MergeViews(p)

WriteRootView(p) == WriteRoot(p) /\ Store(p, RootView) /\ UNCHANGED commit

-----------------------------------------------------------------------------
StoreNothing(p) ==
    /\ \/ Open(p) \/ PublishRoot(p) \/ MergeFails(p) \/ PublishMerge(p)
       \/ LinearizeCheck(p) \/ LinearizeStale(p) \/ PublishEdit(p)
       \/ Drop(p) \/ \E q \in Proc : CloneHandle(p, q)
    /\ UNCHANGED <<view, commit>>

EditView(p) ==
    \/ \E lin \in IF "linearize" \in Edit THEN BOOLEAN ELSE {FALSE} :
          CommitNodes(p, lin) \/ CommitTombs(p, lin) \/ CommitRefs(p, lin)
    \/ SetRef(p) \/ DeleteRef(p) \/ UpdateHeads(p) \/ SwitchBranch(p)

ViewNext == \E p \in Proc :
                \/ StoreNothing(p)
                \/ WriteRootView(p) \/ WriteMergedView(p)
                \/ pc[p] = "open" /\ EditView(p)

ViewSpec == ViewInit /\ [][ViewNext]_viewVars
-----------------------------------------------------------------------------
(***************************************************************************)
(* Properties.                                                             *)
(***************************************************************************)
\* The commits that a view names.
Targets(v) == ({v.head} \ {NoOp}) \cup UNION {v.refs[r].adds \cup v.refs[r].removes : r \in Ref}

(***************************************************************************)
(* Types, and no view names a commit that is not stored (readonly.rs,      *)
(* decode_from_store of the head commit in load_at).                       *)
(***************************************************************************)
ViewTypeOK ==
    /\ view \in [OpId -> View]
    /\ commit \in [OpId -> Commit]
    /\ \A o \in Stored : \A c \in Targets(view[o]) : c \in commit[c].anc

\* The one parent of an edit, and whether the edit changed a ref.
Before(o) == view[CHOOSE b \in log[o].parents : TRUE]

Writes(o, r) == log[o].kind = "edit" /\ view[o].refs[r] # Before(o).refs[r]

\* The edits in the past of head h that saw o.
Later(o, h) == {q \in log[h].anc \ {o} : log[q].kind = "edit" /\ o \in log[q].anc}

(***************************************************************************)
(* A change to a ref is never lost: in every head that descends from it,   *)
(* the ref points at what was written or lists it as a candidate, unless a *)
(* later edit, which saw it, wrote the ref again (update_ref, commit_opts, *)
(* merge_views).  It has to be news: when an edit that had not seen it,    *)
(* earlier or beside it, set the ref to the same, merging takes the two    *)
(* for one change, as any three-way merge does, and whoever has seen       *)
(* either may undo both.                                                   *)
(***************************************************************************)
IsNews(o, r, h) ==
    /\ Writes(o, r)
    /\ \A q \in log[h].anc \ {o} :
          (Writes(q, r) /\ view[q].refs[r] = view[o].refs[r]) => o \in log[q].anc

RefChangesKept ==
    \A h \in heads, r \in Ref : \A o \in log[h].anc :
        IsNews(o, r, h) => \/ view[o].refs[r].adds \subseteq view[h].refs[r].adds
                           \/ \E q \in Later(o, h) : Writes(q, r)

(***************************************************************************)
(* A node that a commit added is in the head commit of every head that     *)
(* descends from the operation, unless a later edit, which saw it, removed *)
(* it or moved the head (commit_opts, build_merge_commit: merging takes    *)
(* the union of nodes).                                                    *)
(***************************************************************************)
Adds(o, n) == log[o].kind = "edit" /\ n \in Nodes(view[o]) \ Nodes(Before(o))

Removes(q, n) == log[q].kind = "edit" /\ n \in Nodes(Before(q)) \ Nodes(view[q])

NodesKept ==
    \A h \in heads, n \in Node : \A o \in log[h].anc :
        Adds(o, n) => \/ n \in Nodes(view[h])
                      \/ \E q \in Later(o, h) : Removes(q, n)

(***************************************************************************)
(* Tombstones "are durable - they survive merges" (SPEC, 4.10): a node     *)
(* once tombstoned is so in every head that descends from the operation,   *)
(* unless a later edit, which saw it, took the tombstone away.             *)
(***************************************************************************)
Buries(o, n) == log[o].kind = "edit" /\ n \in view[o].tombs \ Before(o).tombs

Unburies(q, n) == log[q].kind = "edit" /\ n \in Before(q).tombs \ view[q].tombs

TombstonesKept ==
    \A h \in heads, n \in Node : \A o \in log[h].anc :
        Buries(o, n) => \/ n \in view[h].tombs
                        \/ \E q \in Later(o, h) : Unburies(q, n)

(***************************************************************************)
(* The two histories agree: a commit made in the past of a head is in the  *)
(* past of its head commit too, unless a later edit moved the head         *)
(* elsewhere (with_parent of the previous head in commit_opts, the parents *)
(* of a merge commit).                                                     *)
(***************************************************************************)
MovesHead(q) == log[q].kind = "edit" /\ view[q].head \notin {q, Before(q).head}

CommitsKept ==
    \A h \in heads : \A o \in log[h].anc :
        (log[o].kind = "edit" /\ view[o].head = o) =>
            \/ view[h].head # NoOp /\ o \in commit[view[h].head].anc
            \/ \E q \in Later(o, h) : MovesHead(q)

=============================================================================
