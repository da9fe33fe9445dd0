--------------------------- MODULE ViewLogProofs ---------------------------
(***************************************************************************)
(* Proofs about ViewLog, for any number of processes, operations, refs and *)
(* nodes.                                                                  *)
(***************************************************************************)
EXTENDS ViewLog, OpLogProofs, FiniteSetTheorems

-----------------------------------------------------------------------------
(***************************************************************************)
(* Every step that stores a view is a step of the operation log.           *)
(***************************************************************************)
LEMMA ViewStepIsStep == [ViewNext]_viewVars => [Next]_vars
<1> SUFFICES ASSUME [ViewNext]_viewVars PROVE [Next]_vars
  OBVIOUS
<1>1. ASSUME NEW p \in Proc, StoreNothing(p) PROVE Next
  BY <1>1 DEF StoreNothing, Next, Open, Merge, Write
<1>2. ASSUME NEW p \in Proc, WriteRootView(p) \/ WriteMergedView(p) PROVE Next
  BY <1>2 DEF WriteRootView, WriteMergedView, Next, Merge
<1>3. ASSUME NEW p \in Proc, EditView(p) PROVE Next
  <2>1. \E lin \in BOOLEAN : WriteEdit(p, lin)
    <3>1. ASSUME NEW lin \in BOOLEAN, CommitNodes(p, lin) PROVE WriteEdit(p, lin)
      BY <3>1 DEF CommitNodes, CommitWith
    <3>2. ASSUME NEW lin \in BOOLEAN, CommitTombs(p, lin) PROVE WriteEdit(p, lin)
      BY <3>2 DEF CommitTombs, CommitWith
    <3>3. ASSUME NEW lin \in BOOLEAN, CommitRefs(p, lin) PROVE WriteEdit(p, lin)
      BY <3>3 DEF CommitRefs, CommitWith
    <3>4. SetRef(p) \/ DeleteRef(p) => WriteEdit(p, FALSE)
      BY DEF SetRef, DeleteRef, UpdateRef, WriteView
    <3>5. UpdateHeads(p) \/ SwitchBranch(p) => WriteEdit(p, FALSE)
      BY DEF UpdateHeads, SwitchBranch, WriteView
    <3> QED
      BY <1>3, <3>1, <3>2, <3>3, <3>4, <3>5 DEF EditView
  <2> QED
    BY <2>1 DEF Next, Write
<1> QED
  BY <1>1, <1>2, <1>3 DEF ViewNext, viewVars, vars

\* The log with views implements the log without: all that is proved of OpLog
\* holds of it too.
THEOREM ViewsImplementLog == ViewSpec => Spec
BY ViewStepIsStep, PTL DEF ViewSpec, ViewInit, Spec

\* However views are merged, nothing published is lost.
THEOREM NothingLostWithViews == ViewSpec => [](NoOpLost /\ WalkNeverMisses)
BY ViewsImplementLog, NothingLost, WalksAreComplete, PTL

-----------------------------------------------------------------------------
(***************************************************************************)
(* Types, and views name only stored commits.                              *)
(***************************************************************************)
CommitsOK(cm) ==
    /\ cm \in [OpId -> Commit]
    /\ \A c \in OpId : cm[c].parents # {} => c \in cm[c].anc

Sound(v, cm) == v \in View /\ \A c \in Targets(v) : c \in cm[c].anc

ViewInv ==
    /\ TypeOK
    /\ IsFiniteSet(heads)
    /\ \A p \in Proc : IsFiniteSet(seen[p]) /\ (pc[p] = "merging" => seen[p] # {})
    /\ view \in [OpId -> View]
    /\ CommitsOK(commit)
    /\ \A o \in OpId : Sound(view[o], commit)

\* RefMerge has its own copy of the library.
LEMMA SameCardinality == \A S : RM!Cardinality(S) = Cardinality(S)
BY Zenon DEF RM!Cardinality, Cardinality

\* A merged ref names only commits that the base or a head names.
LEMMA MergedTargets ==
    ASSUME NEW H, IsFiniteSet(H), H # {}, NEW b \in RM!Target, NEW t \in [H -> RM!Target]
    PROVE  /\ RM!MergeRef(b, t) \in RM!Target
           /\ \A c \in RM!MergeRef(b, t).adds \cup RM!MergeRef(b, t).removes :
                 \/ c \in b.adds \cup b.removes
                 \/ \E h \in H : c \in t[h].adds \cup t[h].removes
<1>1. CASE \E v \in RM!Target : \A h \in H : t[h] = v
  <2> DEFINE w == CHOOSE v \in RM!Target : \A h \in H : t[h] = v
  <2>1. w \in RM!Target /\ \A h \in H : t[h] = w
    BY <1>1
  <2>2. RM!MergeRef(b, t) = w
    BY <1>1 DEF RM!MergeRef
  <2> QED
    BY <2>1, <2>2
<1>2. CASE ~ \E v \in RM!Target : \A h \in H : t[h] = v
  <2>1. RM!MergeRef(b, t) = RM!Collapse(b, t)
    <3>1. DOMAIN t = H
      OBVIOUS
    <3> QED
      BY <1>2, <3>1, Zenon DEF RM!MergeRef
  <2>2. RM!Collapse(b, t) \in RM!Target
    BY DEF RM!Collapse, RM!Target
  <2>3. ASSUME NEW c \in OpId,
               c \notin b.adds, c \notin b.removes,
               \A h \in H : c \notin t[h].adds /\ c \notin t[h].removes
        PROVE  RM!Count(b, t, c) = 0
    <3>1. RM!Sign(b, c) = 0
      BY <2>3 DEF RM!Sign
    <3>2. {h \in H : c \in t[h].adds} = {} /\ {h \in H : c \in t[h].removes} = {}
      BY <2>3
    <3>3. RM!Cardinality(H) \in Nat /\ RM!Cardinality({}) = 0
      BY FS_CardinalityType, FS_EmptySet, SameCardinality
    <3>4. DOMAIN t = H
      OBVIOUS
    <3>5. RM!Count(b, t, c) = RM!Cardinality({}) - RM!Cardinality({}) - (RM!Cardinality(H) - 1) * 0
      BY <3>1, <3>2, <3>4, Zenon DEF RM!Count
    <3> QED
      BY <3>3, <3>5
  <2> QED
    <3>1. \A c \in RM!Collapse(b, t).adds \cup RM!Collapse(b, t).removes :
             c \in OpId /\ RM!Count(b, t, c) # 0
      BY DEF RM!Collapse
    <3> QED
      BY <2>1, <2>2, <2>3, <3>1
<1> QED
  BY <1>1, <1>2

\* Storing a sound view with a new operation keeps the invariant.
LEMMA StoreKeeps ==
    ASSUME ViewInv, TypeOK',
           NEW p \in Proc, new'[p] \in OpId,
           NEW v, Store(p, v),
           CommitsOK(commit'),
           \A c \in OpId : c \in commit[c].anc => c \in commit'[c].anc,
           Sound(v, commit'),
           UNCHANGED <<heads, seen>>,
           \A q \in Proc : pc'[q] = "merging" => pc[q] = "merging"
    PROVE  ViewInv'
<1>1. \A o \in OpId : view'[o] = IF o = new'[p] THEN v ELSE view[o]
  BY DEF Store, ViewInv
<1>2. \A o \in OpId : Targets(view[o]) \subseteq OpId
  BY DEF ViewInv, Sound, View, Targets, RM!Target
<1>3. \A o \in OpId : Sound(view'[o], commit')
  BY <1>1, <1>2 DEF ViewInv, Sound
<1>4. view' \in [OpId -> View]
  BY <1>1 DEF Store, ViewInv, Sound
<1> QED
  BY <1>3, <1>4 DEF ViewInv

\* What a user of a handle can name is a stored commit.
LEMMA NamedStored ==
    ASSUME ViewInv, NEW b \in OpId
    PROVE  Named(b) \subseteq {c \in OpId : c \in commit[c].anc}
<1>1. log[b].anc \subseteq OpId
  BY DEF ViewInv, TypeOK, OpRecord
<1>2. \A o \in OpId : view[o].head \in OpId \cup {NoOp} /\ (view[o].head # NoOp => view[o].head \in commit[view[o].head].anc)
  BY DEF ViewInv, Sound, View, Targets
<1> QED
  BY <1>1, <1>2 DEF Named

\* Refs that may be staged: missing, or a commit with a name.
Stageable(b) == {RM!Missing} \cup {RM!Normal(c) : c \in Named(b)}

\* A commit stores itself and a sound view.
LEMMA CommitKeeps ==
    ASSUME ViewInv, TypeOK', NEW p \in Proc, NEW lin \in BOOLEAN, pc[p] = "open",
           NEW ch \in Change, CommitWith(p, lin, ch),
           \A r \in DOMAIN ch.refs : ch.refs[r] \in Stageable(base[p])
    PROVE  ViewInv'
<1> DEFINE o == new'[p]
           b == base[p]
           v == CommitView(view[b], o, ch)
           k == CommitOf(view[b], o, ch)
<1>1. /\ o \in OpId /\ b \in OpId /\ UNCHANGED <<heads, seen>>
      /\ \A q \in Proc : pc'[q] = "merging" => pc[q] = "merging"
  BY FreshIsNew, OpLogAssumption DEF CommitWith, WriteEdit, ViewInv, TypeOK
<1>2. view[b] \in View /\ \A c \in Targets(view[b]) : c \in commit[c].anc
  BY <1>1 DEF ViewInv, Sound
<1>3. k \in Commit /\ o \in k.anc
  BY <1>1, <1>2, OpLogAssumption
     DEF ViewInv, CommitsOK, CommitOf, CommitRecord, Commit, View, Nodes, Change
<1>4. /\ CommitsOK(commit')
      /\ \A c \in OpId : commit'[c] = IF c = o THEN k ELSE commit[c]
  BY <1>1, <1>3 DEF CommitWith, ViewInv, CommitsOK
<1>5. Sound(v, commit')
  <2>1. DOMAIN ch.refs \subseteq Ref
    BY DEF Change
  <2>2. \A c \in OpId : c \in commit[c].anc => c \in commit'[c].anc
    BY <1>3, <1>4
  <2>3. ASSUME NEW r \in Ref
        PROVE  /\ view[b].refs[r] \in RM!Target
               /\ \A c \in view[b].refs[r].adds \cup view[b].refs[r].removes : c \in commit'[c].anc
    BY <1>2, <2>2 DEF View, Targets, RM!Target
  <2>4. ASSUME NEW r \in DOMAIN ch.refs
        PROVE  /\ ch.refs[r] \in RM!Target
               /\ \A c \in ch.refs[r].adds \cup ch.refs[r].removes : c \in commit'[c].anc
    BY <1>1, <2>2, NamedStored DEF Stageable, RM!Target, RM!Missing, RM!Normal
  <2>5. /\ RM!Normal(o) \in RM!Target
        /\ \A c \in RM!Normal(o).adds \cup RM!Normal(o).removes : c \in commit'[c].anc
    BY <1>1, <1>3, <1>4 DEF RM!Normal, RM!Target
  <2>6. /\ v.refs \in [Ref -> RM!Target]
        /\ \A r \in Ref : \A c \in v.refs[r].adds \cup v.refs[r].removes : c \in commit'[c].anc
    <3>1. \A r \in Ref : \/ v.refs[r] = RM!Normal(o)
                         \/ v.refs[r] = view[b].refs[r]
                         \/ r \in DOMAIN ch.refs /\ v.refs[r] = ch.refs[r]
      <4> DEFINE staged == Overlay(view[b].refs, ch.refs)
      <4>1. \A r \in Ref : staged[r] = IF r \in DOMAIN ch.refs THEN ch.refs[r] ELSE view[b].refs[r]
        BY DEF Overlay
      <4>2. \A r \in Ref : v.refs[r] = RM!Normal(o) \/ v.refs[r] = staged[r]
        BY DEF CommitView
      <4> HIDE DEF staged, v, o, b
      <4> QED
        BY <4>1, <4>2
    <3>2. v.refs = [r \in Ref |-> v.refs[r]]
      BY DEF CommitView
    <3> HIDE DEF v
    <3>3. ASSUME NEW r \in Ref
          PROVE  /\ v.refs[r] \in RM!Target
                 /\ \A c \in v.refs[r].adds \cup v.refs[r].removes : c \in commit'[c].anc
      BY <3>1, <2>3, <2>4, <2>5
    <3> QED
      BY <3>2, <3>3
  <2>7. v.head = o /\ v.active \in Ref \cup {NoRef} /\ v.tombs \in SUBSET Node
    BY <1>2, ViewLogAssumption DEF CommitView, View, Change
  <2>8. v = [head |-> v.head, refs |-> v.refs, active |-> v.active, tombs |-> v.tombs]
    BY DEF CommitView
  <2>9. v \in View
    BY <1>1, <2>6, <2>7, <2>8 DEF View
  <2> QED
    BY ZenonT(60), <1>1, <1>3, <1>4, <2>6, <2>7, <2>9 DEF Sound, Targets
<1> QED
  BY ZenonT(60), <1>1, <1>3, <1>4, <1>5, StoreKeeps DEF CommitWith

\* Every commit that the model explores is one of these.
LEMMA CommitsKeep ==
    ASSUME ViewInv, TypeOK', NEW p \in Proc, NEW lin \in BOOLEAN, pc[p] = "open",
           CommitNodes(p, lin) \/ CommitTombs(p, lin) \/ CommitRefs(p, lin)
    PROVE  ViewInv'
<1> DEFINE none == [r \in {} |-> RM!Missing]
<1>0. none \in [{} -> RM!Target] /\ NoChange \in Change
  BY DEF Change, NoChange
<1>1. ASSUME CommitNodes(p, lin) PROVE ViewInv'
  <2>1. PICK n \in Node : \/ CommitWith(p, lin, [NoChange EXCEPT !.add = {n}])
                         \/ CommitWith(p, lin, [NoChange EXCEPT !.remove = {n}])
    BY <1>1 DEF CommitNodes
  <2>2. /\ [NoChange EXCEPT !.add = {n}] \in Change
        /\ [NoChange EXCEPT !.add = {n}].refs = none
        /\ [NoChange EXCEPT !.remove = {n}] \in Change
        /\ [NoChange EXCEPT !.remove = {n}].refs = none
    BY <1>0 DEF Change, NoChange
  <2> QED
    BY <2>1, <2>2, CommitKeeps
<1>2. ASSUME CommitTombs(p, lin) PROVE ViewInv'
  <2>1. PICK n \in Node : \/ CommitWith(p, lin, [NoChange EXCEPT !.bury = {n}])
                         \/ CommitWith(p, lin, [NoChange EXCEPT !.unbury = {n}])
    BY <1>2 DEF CommitTombs
  <2>2. /\ [NoChange EXCEPT !.bury = {n}] \in Change
        /\ [NoChange EXCEPT !.bury = {n}].refs = none
        /\ [NoChange EXCEPT !.unbury = {n}] \in Change
        /\ [NoChange EXCEPT !.unbury = {n}].refs = none
    BY <1>0 DEF Change, NoChange
  <2> QED
    BY <2>1, <2>2, CommitKeeps
<1>3. ASSUME CommitRefs(p, lin) PROVE ViewInv'
  <2>1. PICK r \in Ref :
           \/ \E t \in Stageable(base[p]) :
                 CommitWith(p, lin, [NoChange EXCEPT !.refs = [x \in {r} |-> t]])
           \/ CommitWith(p, lin, [NoChange EXCEPT !.active = r])
    BY <1>3 DEF CommitRefs, Stageable
  <2>2. ASSUME NEW t \in Stageable(base[p]),
               CommitWith(p, lin, [NoChange EXCEPT !.refs = [x \in {r} |-> t]])
        PROVE  ViewInv'
    <3>1. base[p] \in OpId
      BY OpLogAssumption DEF ViewInv, TypeOK
    <3>2. t \in RM!Target
      BY <3>1, NamedStored DEF Stageable, RM!Missing, RM!Normal, RM!Target
    <3>3. /\ [NoChange EXCEPT !.refs = [x \in {r} |-> t]] \in Change
          /\ [NoChange EXCEPT !.refs = [x \in {r} |-> t]].refs = [x \in {r} |-> t]
      BY <1>0, <3>2 DEF Change, NoChange
    <3> QED
      BY <2>2, <3>3, CommitKeeps
  <2>3. /\ [NoChange EXCEPT !.active = r] \in Change
        /\ [NoChange EXCEPT !.active = r].refs = none
    BY <1>0 DEF Change, NoChange
  <2> QED
    BY <2>1, <2>2, <2>3, CommitKeeps
<1> QED
  BY <1>1, <1>2, <1>3

\* An edit of the view alone.
LEMMA ViewEditKeeps ==
    ASSUME ViewInv, TypeOK', NEW p \in Proc, pc[p] = "open",
           NEW v, Sound(v, commit), WriteView(p, v)
    PROVE  ViewInv'
<1>1. /\ new'[p] \in OpId /\ UNCHANGED <<heads, seen, commit>>
      /\ \A q \in Proc : pc'[q] = "merging" => pc[q] = "merging"
  BY FreshIsNew, OpLogAssumption DEF WriteView, WriteEdit, ViewInv, TypeOK
<1>2. CommitsOK(commit') /\ Sound(v, commit')
  BY <1>1 DEF ViewInv, CommitsOK
<1> QED
  BY <1>1, <1>2, StoreKeeps DEF WriteView

LEMMA ViewEditsKeep ==
    ASSUME ViewInv, TypeOK', NEW p \in Proc, pc[p] = "open",
           SetRef(p) \/ DeleteRef(p) \/ UpdateHeads(p) \/ SwitchBranch(p)
    PROVE  ViewInv'
<1> DEFINE v == view[base[p]]
<1>1. base[p] \in OpId /\ v \in View /\ \A c \in Targets(v) : c \in commit[c].anc
  BY OpLogAssumption DEF ViewInv, TypeOK, Sound
<1>2. \A c \in Named(base[p]) : c \in OpId /\ c \in commit[c].anc
  BY <1>1, NamedStored
<1>3. ASSUME NEW r \in Ref, NEW t \in RM!Target,
             \A c \in t.adds \cup t.removes : c \in commit[c].anc
      PROVE  Sound([v EXCEPT !.refs[r] = t], commit)
  <2> DEFINE w == [v EXCEPT !.refs[r] = t]
  <2>1. /\ w \in View /\ w.head = v.head
        /\ \A x \in Ref : w.refs[x] = IF x = r THEN t ELSE v.refs[x]
    BY <1>1, <1>3 DEF View
  <2> QED
    BY <1>1, <1>3, <2>1 DEF Sound, Targets
<1>4. ASSUME NEW c \in Named(base[p])
      PROVE  /\ Sound([v EXCEPT !.head = c], commit)
             /\ \A r \in Ref : Sound([v EXCEPT !.head = c, !.active = r], commit)
  <2> DEFINE w == [v EXCEPT !.head = c]
  <2>1. w \in View /\ w.head = c /\ w.refs = v.refs
    BY <1>1, <1>2, <1>4 DEF View
  <2>2. ASSUME NEW r \in Ref
        PROVE  LET x == [v EXCEPT !.head = c, !.active = r]
               IN  x \in View /\ x.head = c /\ x.refs = v.refs
    BY <1>1, <1>2, <1>4 DEF View
  <2>3. ASSUME NEW x \in View, x.head = c, x.refs = v.refs PROVE Sound(x, commit)
    BY <1>1, <1>2, <1>4, <2>3 DEF Sound, Targets
  <2> QED
    BY <2>1, <2>2, <2>3
<1>5. /\ RM!Missing \in RM!Target /\ RM!Missing.adds \cup RM!Missing.removes = {}
      /\ \A c \in Named(base[p]) : /\ RM!Normal(c) \in RM!Target
                                  /\ RM!Normal(c).adds \cup RM!Normal(c).removes = {c}
  BY <1>2 DEF RM!Missing, RM!Normal, RM!Target
<1>6. CASE SetRef(p)
  <2>1. PICK r \in Ref, c \in Named(base[p]) :
           WriteView(p, [v EXCEPT !.refs[r] = RM!Normal(c)])
    BY <1>6 DEF SetRef, UpdateRef
  <2>2. Sound([v EXCEPT !.refs[r] = RM!Normal(c)], commit)
    BY <1>2, <1>3, <1>5
  <2> QED
    BY <2>1, <2>2, ViewEditKeeps
<1>7. CASE DeleteRef(p)
  <2>1. PICK r \in Ref : WriteView(p, [v EXCEPT !.refs[r] = RM!Missing])
    BY <1>7 DEF DeleteRef, UpdateRef
  <2>2. Sound([v EXCEPT !.refs[r] = RM!Missing], commit)
    BY <1>3, <1>5
  <2> QED
    BY <2>1, <2>2, ViewEditKeeps
<1>8. CASE UpdateHeads(p)
  BY <1>4, <1>8, ViewEditKeeps DEF UpdateHeads
<1>9. CASE SwitchBranch(p)
  <2>1. PICK r \in Ref, c \in Named(base[p]) :
           WriteView(p, [v EXCEPT !.head = c, !.active = r])
    BY <1>9 DEF SwitchBranch
  <2> QED
    BY <1>4, <2>1, ViewEditKeeps
<1> QED
  BY <1>6, <1>7, <1>8, <1>9

\* Merging sound views gives a sound view, whatever the head commit.
LEMMA MergedViewSound ==
    ASSUME ViewInv, NEW H \in SUBSET OpId, IsFiniteSet(H), H # {},
           NEW a \in OpId, NEW head \in OpId \cup {NoOp},
           NEW active \in Ref \cup {NoRef},
           NEW cm \in [OpId -> Commit],
           \A c \in OpId : c \in commit[c].anc => c \in cm[c].anc,
           head # NoOp => head \in cm[head].anc
    PROVE  Sound(MergedView(a, H, head, active), cm)
<1> DEFINE v == MergedView(a, H, head, active)
           t(r) == [h \in H |-> view[h].refs[r]]
<1>1. \A o \in OpId : /\ view[o] \in View
                      /\ \A c \in Targets(view[o]) : c \in cm[c].anc
  BY DEF ViewInv, Sound, View, Targets, RM!Target
<1>2. \A o \in OpId, r \in Ref : \A c \in view[o].refs[r].adds \cup view[o].refs[r].removes :
          c \in cm[c].anc
  BY <1>1 DEF Targets
<1>3. ASSUME NEW r \in Ref
      PROVE  /\ v.refs[r] \in RM!Target
             /\ \A c \in v.refs[r].adds \cup v.refs[r].removes : c \in cm[c].anc
  <2>1. view[a].refs[r] \in RM!Target /\ t(r) \in [H -> RM!Target]
    BY <1>1 DEF View
  <2>2. v.refs[r] = RM!MergeRef(view[a].refs[r], t(r))
    BY DEF MergedView
  <2>3. \A h \in H : t(r)[h] = view[h].refs[r]
    OBVIOUS
  <2> HIDE DEF t
  <2>4. /\ RM!MergeRef(view[a].refs[r], t(r)) \in RM!Target
        /\ \A c \in RM!MergeRef(view[a].refs[r], t(r)).adds
                    \cup RM!MergeRef(view[a].refs[r], t(r)).removes :
              \/ c \in view[a].refs[r].adds \cup view[a].refs[r].removes
              \/ \E h \in H : c \in t(r)[h].adds \cup t(r)[h].removes
    BY <2>1, MergedTargets
  <2> QED
    BY <1>2, <2>2, <2>3, <2>4
<1>4. /\ v.head = head /\ v.active = active
      /\ v.tombs \in SUBSET Node
      /\ v.refs = [r \in Ref |-> v.refs[r]]
      /\ v = [head |-> v.head, refs |-> v.refs, active |-> v.active, tombs |-> v.tombs]
  BY <1>1 DEF MergedView, MergedTombs, View
<1> HIDE DEF v
<1>5. v.refs \in [Ref -> RM!Target]
  BY <1>3, <1>4
<1>6. v \in View
  BY <1>4, <1>5 DEF View
<1>7. \A c \in Targets(v) : c \in cm[c].anc
  BY <1>3, <1>4 DEF Targets
<1> QED
  BY <1>6, <1>7 DEF Sound, v

LEMMA MergeKeeps ==
    ASSUME ViewInv, TypeOK', NEW p \in Proc, WriteMergedView(p)
    PROVE  ViewInv'
<1> DEFINE H == seen[p]
           C == HeadCommits(H)
           o == new'[p]
<1>1. /\ o \in OpId /\ UNCHANGED <<heads, seen>>
      /\ \A q \in Proc : pc'[q] = "merging" => pc[q] = "merging"
  BY FreshIsNew DEF WriteMergedView, WriteMerge, ViewInv, TypeOK
<1>2. H \in SUBSET OpId /\ IsFiniteSet(H) /\ H # {}
  BY DEF WriteMergedView, WriteMerge, ViewInv, TypeOK
<1>3. CASE UNCHANGED <<view, commit>>
  BY <1>1, <1>3 DEF ViewInv
<1>4. CASE MergeViews(p)
  <2>0. PICK a \in LowestCommonAncestors(H) :
           \E active \in IF Actives(H) = {} THEN {view[a].active} ELSE Actives(H) :
             \/ /\ Store(p, MergedView(a, H, NoOp, active))
                /\ UNCHANGED commit
             \/ /\ \E c \in C : Store(p, MergedView(a, H, c, active))
                /\ UNCHANGED commit
             \/ /\ \E c \in MergeCommits(C) : C # {} /\ Store(p, MergedView(a, H, c, active))
                /\ UNCHANGED commit
             \/ /\ Store(p, MergedView(a, H, o, active))
                /\ commit' = [commit EXCEPT ![o] = CommitRecord(o, C, MergedNodes(C))]
    BY <1>4 DEF MergeViews
  <2>1. PICK active \in IF Actives(H) = {} THEN {view[a].active} ELSE Actives(H) :
          \/ /\ Store(p, MergedView(a, H, NoOp, active))
             /\ UNCHANGED commit
          \/ /\ \E c \in C : Store(p, MergedView(a, H, c, active))
             /\ UNCHANGED commit
          \/ /\ \E c \in MergeCommits(C) : C # {} /\ Store(p, MergedView(a, H, c, active))
             /\ UNCHANGED commit
          \/ /\ Store(p, MergedView(a, H, o, active))
             /\ commit' = [commit EXCEPT ![o] = CommitRecord(o, C, MergedNodes(C))]
    BY <2>0
  <2>2. a \in OpId /\ \A h \in OpId : view[h] \in View
    BY DEF LowestCommonAncestors, CommonAncestors, ViewInv
  <2>3. active \in Ref \cup {NoRef}
    BY <1>2, <2>2 DEF Actives, View
  <2>4. \A c \in C : c \in OpId /\ c \in commit[c].anc
    BY <1>2, <2>2 DEF HeadCommits, ViewInv, Sound, View, Targets
  <2>5. \A c \in MergeCommits(C) : C # {} => (c \in OpId /\ c \in commit[c].anc)
    BY DEF MergeCommits, ViewInv, CommitsOK
  <2>6. ASSUME UNCHANGED commit, NEW c \in OpId \cup {NoOp}, c # NoOp => c \in commit[c].anc,
               Store(p, MergedView(a, H, c, active))
        PROVE  ViewInv'
    <3>1. /\ CommitsOK(commit') /\ commit' \in [OpId -> Commit]
          /\ \A d \in OpId : d \in commit[d].anc => d \in commit'[d].anc
      BY <2>6 DEF ViewInv, CommitsOK
    <3>2. Sound(MergedView(a, H, c, active), commit')
      BY <1>2, <2>2, <2>3, <2>6, <3>1, MergedViewSound
    <3> QED
      BY <1>1, <2>6, <3>1, <3>2, StoreKeeps
  <2>7. ASSUME Store(p, MergedView(a, H, o, active)),
               commit' = [commit EXCEPT ![o] = CommitRecord(o, C, MergedNodes(C))]
        PROVE  ViewInv'
    <3>1. CommitRecord(o, C, MergedNodes(C)) \in Commit /\ o \in CommitRecord(o, C, MergedNodes(C)).anc
      BY <1>1, <2>4 DEF CommitRecord, MergedNodes, Commit, ViewInv, CommitsOK
    <3>2. /\ CommitsOK(commit') /\ commit' \in [OpId -> Commit]
          /\ \A d \in OpId : d \in commit[d].anc => d \in commit'[d].anc
          /\ o \in commit'[o].anc
      BY <1>1, <2>7, <3>1 DEF ViewInv, CommitsOK
    <3>3. Sound(MergedView(a, H, o, active), commit')
      BY <1>1, <1>2, <2>2, <2>3, <3>2, MergedViewSound
    <3> QED
      BY <1>1, <2>7, <3>2, <3>3, StoreKeeps
  <2> QED
    BY <2>1, <2>4, <2>5, <2>6, <2>7
<1> QED
  BY <1>3, <1>4 DEF WriteMergedView

LEMMA RootKeeps ==
    ASSUME ViewInv, TypeOK', NEW p \in Proc, WriteRootView(p)
    PROVE  ViewInv'
<1>1. /\ new'[p] \in OpId /\ UNCHANGED <<heads, seen, commit>>
      /\ \A q \in Proc : pc'[q] = "merging" => pc[q] = "merging"
  BY FreshIsNew DEF WriteRootView, WriteRoot, ViewInv, TypeOK
<1>2. RootView \in View /\ Targets(RootView) = {}
  BY DEF RootView, View, Targets, RM!Missing, RM!Target
<1>3. CommitsOK(commit') /\ Sound(RootView, commit')
  BY <1>1, <1>2 DEF ViewInv, CommitsOK, Sound
<1> QED
  BY <1>1, <1>3, StoreKeeps DEF WriteRootView, ViewInv, CommitsOK

\* The op-heads and what a reader saw of them are finite sets.
LEMMA NothingKeeps ==
    ASSUME ViewInv, TypeOK', NEW p \in Proc, StoreNothing(p)
    PROVE  ViewInv'
<1>0. TypeOK /\ IsFiniteSet(heads) /\ IsFiniteSet({})
  BY FS_EmptySet DEF ViewInv
<1>1. \A o, S : IsFiniteSet(Update(heads, o, S))
  <2> SUFFICES ASSUME NEW o, NEW S PROVE IsFiniteSet(Update(heads, o, S))
    OBVIOUS
  <2>1. IsFiniteSet(heads \cup {o})
    BY <1>0, FS_AddElement
  <2> QED
    BY <2>1, FS_Subset DEF Update
<1>2. IsFiniteSet(heads')
  BY <1>0, <1>1
     DEF StoreNothing, Open, OpenUninitialized, OpenSingle, OpenMany, PublishRoot, MergeFails,
         PublishMerge, LinearizeCheck, LinearizeStale, PublishEdit, Drop, CloneHandle, Publish
<1>3. ASSUME NEW q \in Proc
      PROVE  IsFiniteSet(seen'[q]) /\ (pc'[q] = "merging" => seen'[q] # {})
  <2>0. IsFiniteSet(seen[q]) /\ (pc[q] = "merging" => seen[q] # {})
    BY DEF ViewInv
  <2>1. CASE Open(p)
    <3>1. CASE OpenUninitialized(p)
      BY <2>0, <3>1, <1>0 DEF OpenUninitialized, TypeOK
    <3>2. CASE OpenSingle(p)
      BY <2>0, <3>2, <1>0 DEF OpenSingle, Pin, TypeOK
    <3>3. CASE OpenMany(p)
      BY <2>0, <3>3, <1>0 DEF OpenMany, TypeOK
    <3> QED
      BY <2>1, <3>1, <3>2, <3>3 DEF Open
  <2>2. CASE PublishRoot(p) \/ PublishMerge(p) \/ PublishEdit(p)
    BY <1>0, <2>2 DEF PublishRoot, PublishMerge, PublishEdit, Pin, ViewInv, TypeOK
  <2>3. CASE MergeFails(p) \/ Drop(p)
    BY <1>0, <2>3 DEF MergeFails, Drop, ViewInv, TypeOK
  <2>4. CASE LinearizeCheck(p) \/ LinearizeStale(p)
    BY <2>4 DEF LinearizeCheck, LinearizeStale, ViewInv, TypeOK
  <2>5. CASE \E x \in Proc : CloneHandle(p, x)
    BY <1>0, <2>5 DEF CloneHandle, Pin, ViewInv, TypeOK
  <2> QED
    BY <2>1, <2>2, <2>3, <2>4, <2>5 DEF StoreNothing
<1> QED
  BY <1>2, <1>3 DEF StoreNothing, ViewInv

LEMMA ViewInvInit == ViewInit => ViewInv
<1> SUFFICES ASSUME ViewInit PROVE ViewInv
  OBVIOUS
<1>1. TypeOK
  BY TypeInit DEF ViewInit
<1>2. IsFiniteSet(heads) /\ \A p \in Proc : IsFiniteSet(seen[p]) /\ pc[p] # "merging"
  BY FS_EmptySet, FS_Singleton DEF ViewInit, Init
<1>3. RootView \in View /\ Targets(RootView) = {} /\ NoCommit \in Commit /\ NoCommit.parents = {}
  BY DEF RootView, View, Targets, RM!Missing, RM!Target, NoCommit, Commit
<1> QED
  BY <1>1, <1>2, <1>3 DEF ViewInit, ViewInv, CommitsOK, Sound

LEMMA ViewInvStep == ViewInv /\ [ViewNext]_viewVars => ViewInv'
<1> SUFFICES ASSUME ViewInv, [ViewNext]_viewVars PROVE ViewInv'
  OBVIOUS
<1>1. TypeOK'
  BY ViewStepIsStep, TypeStep DEF ViewInv
<1>2. CASE UNCHANGED viewVars
  BY <1>1, <1>2 DEF viewVars, vars, ViewInv
<1>3. ASSUME NEW p \in Proc, pc[p] = "open", EditView(p) PROVE ViewInv'
  BY <1>1, <1>3, CommitsKeep, ViewEditsKeep DEF EditView
<1> QED
  BY <1>1, <1>2, <1>3, NothingKeeps, RootKeeps, MergeKeeps DEF ViewNext

\* Views and commits keep their types, and no view, however many concurrent
\* views it merges, names a commit that is not stored.
THEOREM ViewTypeCorrect == ViewSpec => []ViewTypeOK
<1>1. ViewInv => ViewTypeOK
  BY DEF ViewInv, CommitsOK, Sound, ViewTypeOK, Stored
<1> QED
  BY <1>1, ViewInvInit, ViewInvStep, PTL DEF ViewSpec
-----------------------------------------------------------------------------
(***************************************************************************)
(* What a step stores.  An operation x is stored once, under a name that   *)
(* none had; what was stored before keeps its record and its view.         *)
(***************************************************************************)
NewOp(x) ==
    /\ x \in OpId \ Stored
    /\ Stored' = Stored \cup {x}
    /\ \A a \in Stored : log'[a] = log[a] /\ view'[a] = view[a]

RootOf(x) ==
    /\ log'[x].kind = "init" /\ log'[x].parents = {}
    /\ view'[x] = RootView
    /\ UNCHANGED commit

\* An edit on operation b: it leaves a ref alone or writes one commit or none,
\* and makes itself the head when it is a commit, on top of the head before.
EditOf(x, b) ==
    /\ b \in Stored /\ log'[x].kind = "edit" /\ log'[x].parents = {b}
    /\ \A r \in Ref : \/ view'[x].refs[r] = view[b].refs[r]
                      \/ view'[x].refs[r] = RM!Missing
                      \/ \E c \in OpId : view'[x].refs[r] = RM!Normal(c)
    /\ \/ UNCHANGED commit /\ view'[x].head # x
       \/ /\ view'[x].head = x
          /\ \E N \in SUBSET Node :
                commit' = [commit EXCEPT ![x] = CommitRecord(x, {view[b].head} \ {NoOp}, N)]

\* A merge of the operations H, from their common ancestor a.
MergeOf(x, H, a) ==
    /\ H \subseteq Stored /\ IsFiniteSet(H) /\ H # {}
    /\ log'[x].kind = "merge" /\ log'[x].parents = H
    /\ a \in OpId /\ \A h \in H : a \in log[h].anc
    /\ view'[x].tombs = MergedTombs(a, H)
    /\ \A r \in Ref :
          view'[x].refs[r] = RM!MergeRef(view[a].refs[r], [h \in H |-> view[h].refs[r]])
    /\ \/ HeadCommits(H) = {} /\ view'[x].head = NoOp /\ UNCHANGED commit
       \/ HeadCommits(H) = {view'[x].head} /\ UNCHANGED commit
       \/ /\ \E c, d \in HeadCommits(H) : c # d
          /\ view'[x].head \in MergeCommits(HeadCommits(H)) /\ UNCHANGED commit
       \/ /\ \E c, d \in HeadCommits(H) : c # d
          /\ view'[x].head = x
          /\ commit' = [commit EXCEPT ![x] =
                          CommitRecord(x, HeadCommits(H), MergedNodes(HeadCommits(H)))]

Stores(x) == /\ NewOp(x)
             /\ \/ RootOf(x)
                \/ \E b \in OpId : EditOf(x, b)
                \/ \E H \in SUBSET OpId, a \in OpId : MergeOf(x, H, a)

(***************************************************************************)
(* The history of commits: a commit is stored with the operation that made *)
(* it, descends from its parents, which are stored, and has the union of   *)
(* their nodes when it has more than one.  An edit has one parent.         *)
(***************************************************************************)
CommitHistoryOK ==
    \A c \in OpId :
        /\ c \in commit[c].anc => c \in Stored
        /\ \A d \in commit[c].parents : d \in commit[d].anc /\ commit[d].anc \subseteq commit[c].anc
        /\ (\E d, e \in commit[c].parents : d # e) => commit[c].nodes = MergedNodes(commit[c].parents)

EditsOK == \A o \in Stored : log[o].kind = "edit" => \E b \in Stored : log[o].parents = {b}

HistoriesOK == CommitHistoryOK /\ EditsOK

\* The head commit of a view is a stored commit.
LEMMA HeadsStored ==
    ASSUME ViewInv, CommitHistoryOK, NEW a \in OpId, view[a].head # NoOp
    PROVE  /\ view[a].head \in OpId /\ view[a].head \in Stored
           /\ view[a].head \in commit[view[a].head].anc
BY DEF ViewInv, Sound, View, Targets, CommitHistoryOK

\* Writing an edit stores one operation on top of the base of the handle.
LEMMA EditStores ==
    ASSUME OpLogInv, OpLogInv', ViewInv, NEW p \in Proc, pc[p] = "open",
           NEW lin \in BOOLEAN, WriteEdit(p, lin), NEW v, Store(p, v)
    PROVE  /\ NewOp(new'[p]) /\ base[p] \in Stored
           /\ log'[new'[p]].kind = "edit" /\ log'[new'[p]].parents = {base[p]}
           /\ view'[new'[p]] = v
<1>0. TypeOK
  BY DEF OpLogInv
<1>1. PICK o \in Fresh :
        PutOp(o, EditRecord(o, base[p], lin)) /\ new' = [new EXCEPT ![p] = o]
  BY DEF WriteEdit
<1>2. new'[p] = o /\ o \in OpId \ Stored
  BY <1>0, <1>1, FreshIsNew DEF TypeOK
<1>3. /\ log'[o] = EditRecord(o, base[p], lin)
      /\ \A a \in OpId \ {o} : log'[a] = log[a]
  BY <1>0, <1>1, <1>2 DEF PutOp, TypeOK
<1>4. log'[o].kind = "edit" /\ log'[o].parents = {base[p]}
  BY <1>3 DEF EditRecord
<1>5. Stored' = Stored \cup {o}
  BY <1>2, <1>3, <1>4 DEF Stored
<1>6. base[p] \in Stored
  BY <1>0 DEF OpLogInv, HandlesOK, HeadsOK, TypeOK
<1>7. view'[o] = v /\ \A a \in OpId \ {o} : view'[a] = view[a]
  BY <1>2 DEF Store, ViewInv
<1> QED
  BY <1>2, <1>3, <1>4, <1>5, <1>6, <1>7 DEF NewOp, Stored

\* What a commit does to the refs and to the head.
LEMMA CommitStores ==
    ASSUME OpLogInv, OpLogInv', ViewInv, NEW p \in Proc, pc[p] = "open", NEW lin \in BOOLEAN,
           NEW ch, CommitWith(p, lin, ch), ch.add \subseteq Node,
           \A r \in DOMAIN ch.refs : ch.refs[r] \in Stageable(base[p])
    PROVE  NewOp(new'[p]) /\ EditOf(new'[p], base[p])
<1> DEFINE x == new'[p]
           b == base[p]
           v == CommitView(view[b], x, ch)
<1>1. /\ NewOp(x) /\ b \in Stored /\ log'[x].kind = "edit" /\ log'[x].parents = {b}
      /\ view'[x] = v
  BY EditStores DEF CommitWith
<1>2. x \in OpId /\ b \in OpId
  BY <1>1 DEF NewOp, Stored
<1>3. ASSUME NEW r \in Ref
      PROVE  \/ v.refs[r] = view[b].refs[r]
             \/ v.refs[r] = RM!Missing
             \/ \E c \in OpId : v.refs[r] = RM!Normal(c)
  <2>1. \/ v.refs[r] = RM!Normal(x)
        \/ v.refs[r] = view[b].refs[r]
        \/ r \in DOMAIN ch.refs /\ v.refs[r] = ch.refs[r]
    BY DEF CommitView, Overlay
  <2>2. r \in DOMAIN ch.refs => \/ ch.refs[r] = RM!Missing
                                \/ \E c \in OpId : ch.refs[r] = RM!Normal(c)
    BY <1>2, NamedStored DEF Stageable
  <2> QED
    BY <1>2, <2>1, <2>2
<1>4. v.head = x
  BY DEF CommitView
<1>5. (Nodes(view[b]) \cup ch.add) \ ch.remove \in SUBSET Node
  BY <1>2, OpLogAssumption DEF Nodes, ViewInv, CommitsOK, Commit, View
<1>6. commit' = [commit EXCEPT ![x] =
                   CommitRecord(x, {view[b].head} \ {NoOp}, (Nodes(view[b]) \cup ch.add) \ ch.remove)]
  BY DEF CommitWith, CommitOf
<1> QED
  BY <1>1, <1>3, <1>4, <1>5, <1>6 DEF EditOf

\* What an edit of the view alone stores.
LEMMA ViewEditStores ==
    ASSUME OpLogInv, OpLogInv', ViewInv, CommitHistoryOK, NEW p \in Proc, pc[p] = "open",
           NEW v, WriteView(p, v), v.head \in Named(base[p]) \cup {view[base[p]].head},
           \A r \in Ref : \/ v.refs[r] = view[base[p]].refs[r]
                          \/ v.refs[r] = RM!Missing
                          \/ \E c \in OpId : v.refs[r] = RM!Normal(c)
    PROVE  NewOp(new'[p]) /\ EditOf(new'[p], base[p])
<1> DEFINE x == new'[p]
           b == base[p]
<1>1. /\ NewOp(x) /\ b \in Stored /\ log'[x].kind = "edit" /\ log'[x].parents = {b}
      /\ view'[x] = v
  BY EditStores DEF WriteView
<1>2. log[b].anc \subseteq OpId /\ b \in OpId /\ x \in OpId \ Stored
  BY <1>1 DEF OpLogInv, AncestryOK, NewOp, Stored
<1>3. \A a \in OpId : view[a].head # x
  BY <1>2, HeadsStored, OpLogAssumption
<1>4. view'[x].head # x
  BY <1>1, <1>2, <1>3 DEF Named
<1> HIDE DEF x, b
<1> QED
  BY <1>1, <1>4 DEF EditOf, WriteView, x, b

LEMMA EditViewStores ==
    ASSUME OpLogInv, OpLogInv', ViewInv, CommitHistoryOK, NEW p \in Proc, pc[p] = "open", EditView(p)
    PROVE  NewOp(new'[p]) /\ EditOf(new'[p], base[p])
<1> DEFINE v == view[base[p]]
           Done == NewOp(new'[p]) /\ EditOf(new'[p], base[p])
           none == [r \in {} |-> RM!Missing]
<1>0. base[p] \in OpId /\ v \in View /\ Named(base[p]) \subseteq OpId
  BY NamedStored, OpLogAssumption DEF ViewInv, TypeOK
<1>1. ASSUME NEW lin \in BOOLEAN, CommitNodes(p, lin) PROVE Done
  <2>1. PICK n \in Node : \/ CommitWith(p, lin, [NoChange EXCEPT !.add = {n}])
                         \/ CommitWith(p, lin, [NoChange EXCEPT !.remove = {n}])
    BY <1>1 DEF CommitNodes
  <2>2. /\ [NoChange EXCEPT !.add = {n}].refs = none
        /\ [NoChange EXCEPT !.add = {n}].add \subseteq Node
        /\ [NoChange EXCEPT !.remove = {n}].refs = none
        /\ [NoChange EXCEPT !.remove = {n}].add \subseteq Node
    BY DEF NoChange
  <2> QED
    BY <2>1, <2>2, CommitStores
<1>2. ASSUME NEW lin \in BOOLEAN, CommitTombs(p, lin) PROVE Done
  <2>1. PICK n \in Node : \/ CommitWith(p, lin, [NoChange EXCEPT !.bury = {n}])
                         \/ CommitWith(p, lin, [NoChange EXCEPT !.unbury = {n}])
    BY <1>2 DEF CommitTombs
  <2>2. /\ [NoChange EXCEPT !.bury = {n}].refs = none
        /\ [NoChange EXCEPT !.bury = {n}].add \subseteq Node
        /\ [NoChange EXCEPT !.unbury = {n}].refs = none
        /\ [NoChange EXCEPT !.unbury = {n}].add \subseteq Node
    BY DEF NoChange
  <2> QED
    BY <2>1, <2>2, CommitStores
<1>3. ASSUME NEW lin \in BOOLEAN, CommitRefs(p, lin) PROVE Done
  <2>1. PICK r \in Ref :
           \/ \E t \in Stageable(base[p]) :
                 CommitWith(p, lin, [NoChange EXCEPT !.refs = [x \in {r} |-> t]])
           \/ CommitWith(p, lin, [NoChange EXCEPT !.active = r])
    BY <1>3 DEF CommitRefs, Stageable
  <2>2. ASSUME NEW t \in Stageable(base[p]),
               CommitWith(p, lin, [NoChange EXCEPT !.refs = [x \in {r} |-> t]])
        PROVE  Done
    <3>1. /\ [NoChange EXCEPT !.refs = [x \in {r} |-> t]].refs = [x \in {r} |-> t]
          /\ [NoChange EXCEPT !.refs = [x \in {r} |-> t]].add \subseteq Node
      BY DEF NoChange
    <3> QED
      BY <2>2, <3>1, CommitStores
  <2>3. /\ [NoChange EXCEPT !.active = r].refs = none
        /\ [NoChange EXCEPT !.active = r].add \subseteq Node
    BY DEF NoChange
  <2> QED
    BY <2>1, <2>2, <2>3, CommitStores
<1>4. CASE SetRef(p) \/ DeleteRef(p)
  <2>1. PICK r \in Ref, t \in Stageable(base[p]) : WriteView(p, [v EXCEPT !.refs[r] = t])
    BY <1>4 DEF SetRef, DeleteRef, UpdateRef, Stageable
  <2> DEFINE w == [v EXCEPT !.refs[r] = t]
  <2>2. w.head = v.head /\ \A x \in Ref : w.refs[x] = IF x = r THEN t ELSE v.refs[x]
    BY <1>0 DEF View
  <2>3. t = RM!Missing \/ \E c \in OpId : t = RM!Normal(c)
    BY <1>0 DEF Stageable
  <2> HIDE DEF w
  <2>4. \A x \in Ref : \/ w.refs[x] = v.refs[x] \/ w.refs[x] = RM!Missing
                       \/ \E c \in OpId : w.refs[x] = RM!Normal(c)
    BY <2>2, <2>3
  <2>5. WriteView(p, w) /\ w.head \in Named(base[p]) \cup {v.head}
    BY <2>1, <2>2 DEF w
  <2> QED
    BY <2>4, <2>5, ViewEditStores
<1>5. CASE UpdateHeads(p) \/ SwitchBranch(p)
  <2>1. PICK c \in Named(base[p]) :
           \E w \in {[v EXCEPT !.head = c]} \cup {[v EXCEPT !.head = c, !.active = r] : r \in Ref} :
               WriteView(p, w)
    BY <1>5 DEF UpdateHeads, SwitchBranch
  <2>2. PICK w : /\ w \in {[v EXCEPT !.head = c]} \cup {[v EXCEPT !.head = c, !.active = r] : r \in Ref}
                 /\ WriteView(p, w)
    BY <2>1
  <2>3. w.head = c /\ w.refs = v.refs
    BY <1>0, <2>2 DEF View
  <2> QED
    BY <2>2, <2>3, ViewEditStores
<1> QED
  BY <1>1, <1>2, <1>3, <1>4, <1>5 DEF EditView

LEMMA MergeStores ==
    ASSUME OpLogInv, OpLogInv', ViewInv, NEW p \in Proc, WriteMergedView(p), MergeOps(seen[p]) = {}
    PROVE  /\ NewOp(new'[p])
           /\ \E a \in OpId : MergeOf(new'[p], seen[p], a)
<1> DEFINE x == new'[p]
           H == seen[p]
           C == HeadCommits(H)
<1>0. TypeOK
  BY DEF OpLogInv
<1>1. PICK o \in Fresh : PutOp(o, MergeRecord(o, H)) /\ new' = [new EXCEPT ![p] = o]
  BY DEF WriteMergedView, WriteMerge
<1>2. x = o /\ x \in OpId \ Stored
  BY <1>0, <1>1, FreshIsNew DEF TypeOK
<1>3. log'[x] = MergeRecord(x, H) /\ \A a \in OpId \ {x} : log'[a] = log[a]
  BY <1>0, <1>1, <1>2 DEF PutOp, TypeOK
<1>4. log'[x].kind = "merge" /\ log'[x].parents = H
  BY <1>3 DEF MergeRecord
<1>5. Stored' = Stored \cup {x}
  BY <1>2, <1>3, <1>4 DEF Stored
<1>6. H \in SUBSET OpId /\ H \subseteq Stored /\ IsFiniteSet(H) /\ H # {}
  BY <1>0 DEF WriteMergedView, WriteMerge, OpLogInv, HandlesOK, HeadsOK, ViewInv, TypeOK
<1>7. MergeViews(p)
  BY DEF WriteMergedView
<1>8. PICK a \in LowestCommonAncestors(H), active \in Ref \cup {NoRef} :
           \/ /\ C = {}
              /\ Store(p, MergedView(a, H, NoOp, active))
              /\ UNCHANGED commit
           \/ /\ \E c \in C : C = {c} /\ Store(p, MergedView(a, H, c, active))
              /\ UNCHANGED commit
           \/ /\ \E c, d \in C : c # d
              /\ \E c \in MergeCommits(C) : Store(p, MergedView(a, H, c, active))
              /\ UNCHANGED commit
           \/ /\ \E c, d \in C : c # d
              /\ Store(p, MergedView(a, H, x, active))
              /\ commit' = [commit EXCEPT ![x] = CommitRecord(x, C, MergedNodes(C))]
  <2>1. PICK a \in LowestCommonAncestors(H) :
           \E active \in IF Actives(H) = {} THEN {view[a].active} ELSE Actives(H) :
           \/ /\ C = {}
              /\ Store(p, MergedView(a, H, NoOp, active))
              /\ UNCHANGED commit
           \/ /\ \E c \in C : C = {c} /\ Store(p, MergedView(a, H, c, active))
              /\ UNCHANGED commit
           \/ /\ \E c, d \in C : c # d
              /\ \E c \in MergeCommits(C) : Store(p, MergedView(a, H, c, active))
              /\ UNCHANGED commit
           \/ /\ \E c, d \in C : c # d
              /\ Store(p, MergedView(a, H, x, active))
              /\ commit' = [commit EXCEPT ![x] = CommitRecord(x, C, MergedNodes(C))]
    BY <1>7 DEF MergeViews
  <2>2. a \in OpId /\ \A h \in OpId : view[h] \in View
    BY DEF LowestCommonAncestors, CommonAncestors, ViewInv
  <2>3. (IF Actives(H) = {} THEN {view[a].active} ELSE Actives(H)) \subseteq Ref \cup {NoRef}
    <3>1. Actives(H) \subseteq Ref \cup {NoRef}
      BY <1>6, <2>2 DEF Actives, View
    <3>2. view[a].active \in Ref \cup {NoRef}
      BY <2>2 DEF View
    <3> QED
      BY <3>1, <3>2
  <2> QED
    BY <2>1, <2>3
<1>9. a \in OpId /\ \A h \in H : a \in log[h].anc
  BY DEF LowestCommonAncestors, CommonAncestors
<1>10. ASSUME NEW hd, Store(p, MergedView(a, H, hd, active))
       PROVE  /\ view'[x].head = hd
              /\ view'[x].tombs = MergedTombs(a, H)
              /\ \A r \in Ref :
                    view'[x].refs[r] = RM!MergeRef(view[a].refs[r], [h \in H |-> view[h].refs[r]])
              /\ \A y \in OpId \ {x} : view'[y] = view[y]
  <2>1. view'[x] = MergedView(a, H, hd, active) /\ \A y \in OpId \ {x} : view'[y] = view[y]
    BY <1>2, <1>10 DEF Store, ViewInv
  <2> QED
    BY <2>1 DEF MergedView
<1>11. NewOp(x)
  <2>1. \A y \in OpId \ {x} : view'[y] = view[y]
    BY <1>8, <1>10
  <2> QED
    BY <1>2, <1>3, <1>5, <2>1 DEF NewOp, Stored
<1> HIDE DEF x, H, C
<1>12. MergeOf(x, H, a)
  BY <1>4, <1>6, <1>8, <1>9, <1>10 DEF MergeOf, C
<1> QED
  BY <1>9, <1>11, <1>12 DEF x, H

LEMMA RootStores ==
    ASSUME OpLogInv, ViewInv, NEW p \in Proc, WriteRootView(p)
    PROVE  NewOp(new'[p]) /\ RootOf(new'[p])
<1> DEFINE x == new'[p]
<1>0. TypeOK
  BY DEF OpLogInv
<1>1. PICK o \in Fresh : PutOp(o, RootRecord(o)) /\ new' = [new EXCEPT ![p] = o]
  BY DEF WriteRootView, WriteRoot
<1>2. x = o /\ x \in OpId \ Stored
  BY <1>0, <1>1, FreshIsNew DEF TypeOK
<1>3. log'[x] = RootRecord(x) /\ \A a \in OpId \ {x} : log'[a] = log[a]
  BY <1>0, <1>1, <1>2 DEF PutOp, TypeOK
<1>4. log'[x].kind = "init" /\ log'[x].parents = {}
  BY <1>3 DEF RootRecord
<1>5. Stored' = Stored \cup {x}
  BY <1>2, <1>3, <1>4 DEF Stored
<1>6. view'[x] = RootView /\ \A y \in OpId \ {x} : view'[y] = view[y]
  BY <1>2 DEF WriteRootView, Store, ViewInv
<1> QED
  BY <1>2, <1>3, <1>4, <1>5, <1>6 DEF NewOp, RootOf, WriteRootView, Stored

\* Every step stores one operation or none.
LEMMA StepStores ==
    ASSUME OpLogInv, OpLogInv', ViewInv, CommitHistoryOK, [ViewNext]_viewVars
    PROVE  UNCHANGED <<log, view, commit>> \/ \E x \in OpId : Stores(x)
<1>0. TypeOK'
  BY DEF OpLogInv
<1>1. CASE UNCHANGED viewVars
  BY <1>1 DEF viewVars, vars
<1>2. ASSUME NEW p \in Proc, StoreNothing(p) PROVE UNCHANGED <<log, view, commit>>
  BY <1>2 DEF StoreNothing, Open, OpenUninitialized, OpenSingle, OpenMany, PublishRoot,
     MergeFails, PublishMerge, LinearizeCheck, LinearizeStale, PublishEdit, Drop, CloneHandle
<1>3. ASSUME NEW p \in Proc, WriteRootView(p) PROVE \E x \in OpId : Stores(x)
  BY <1>3, RootStores DEF Stores, NewOp
<1>4. ASSUME NEW p \in Proc, WriteMergedView(p), MergeOps(seen[p]) = {} PROVE \E x \in OpId : Stores(x)
  <2>1. seen[p] \in SUBSET OpId
    BY DEF ViewInv, TypeOK
  <2> QED
    BY <1>4, <2>1, MergeStores DEF Stores, NewOp
<1>5. ASSUME NEW p \in Proc, WriteMergedView(p), MergeOps(seen[p]) # {}
      PROVE  UNCHANGED <<log, view, commit>>
  BY <1>5 DEF WriteMergedView, WriteMerge
<1>6. ASSUME NEW p \in Proc, pc[p] = "open", EditView(p) PROVE \E x \in OpId : Stores(x)
  <2>1. base[p] \in OpId
    BY <1>6 DEF ViewInv, TypeOK
  <2> QED
    BY <1>6, <2>1, EditViewStores DEF Stores, NewOp
<1> QED
  BY <1>1, <1>2, <1>3, <1>4, <1>5, <1>6 DEF ViewNext

\* A commit that is stored is added to the history and changes none before it.
LEMMA CommitHistoryGrows ==
    ASSUME ViewInv, CommitHistoryOK, NEW x, NewOp(x),
           NEW C \in SUBSET OpId, \A d \in C : d \in commit[d].anc,
           NEW N, (\E d, e \in C : d # e) => N = MergedNodes(C),
           commit' = [commit EXCEPT ![x] = CommitRecord(x, C, N)]
    PROVE  CommitHistoryOK'
<1>1. x \in OpId /\ x \notin commit[x].anc
  BY DEF NewOp, CommitHistoryOK
<1>2. commit'[x] = CommitRecord(x, C, N) /\ \A c \in OpId \ {x} : commit'[c] = commit[c]
  BY <1>1 DEF ViewInv, CommitsOK
<1>3. \A d \in C : d # x /\ commit'[d] = commit[d]
  BY <1>1, <1>2
<1>4. /\ commit'[x].parents = C /\ commit'[x].nodes = N
      /\ commit'[x].anc = {x} \cup UNION {commit[d].anc : d \in C}
  BY <1>2 DEF CommitRecord
<1>5. \A c \in OpId : commit[c].parents \subseteq OpId
  BY DEF ViewInv, CommitsOK, Commit
<1>6. ASSUME NEW c \in OpId \ {x}
      PROVE  /\ c \in commit'[c].anc => c \in Stored'
             /\ \A d \in commit'[c].parents :
                   d \in commit'[d].anc /\ commit'[d].anc \subseteq commit'[c].anc
             /\ (\E d, e \in commit'[c].parents : d # e) =>
                   commit'[c].nodes = UNION {commit'[d].nodes : d \in commit'[c].parents}
  <2>1. \A d \in commit[c].parents : d # x /\ commit'[d] = commit[d]
    BY <1>1, <1>2, <1>5 DEF CommitHistoryOK
  <2>2. UNION {commit'[d].nodes : d \in commit[c].parents} = MergedNodes(commit[c].parents)
    BY <2>1 DEF MergedNodes
  <2> QED
    BY <1>2, <2>1, <2>2 DEF CommitHistoryOK, NewOp
<1>7. /\ x \in Stored'
      /\ \A d \in C : d \in commit'[d].anc /\ commit'[d].anc \subseteq commit'[x].anc
      /\ (\E d, e \in C : d # e) => N = UNION {commit'[d].nodes : d \in C}
  <2>1. UNION {commit'[d].nodes : d \in C} = MergedNodes(C)
    BY <1>3 DEF MergedNodes
  <2> QED
    BY <1>3, <1>4, <2>1 DEF NewOp
<1> QED
  BY <1>4, <1>6, <1>7 DEF CommitHistoryOK, MergedNodes

LEMMA HistoriesStep ==
    ASSUME OpLogInv, OpLogInv', ViewInv, HistoriesOK, [ViewNext]_viewVars
    PROVE  HistoriesOK'
<1>0. CommitHistoryOK /\ EditsOK
  BY DEF HistoriesOK
<1>1. CASE UNCHANGED <<log, view, commit>>
  BY <1>1 DEF HistoriesOK, CommitHistoryOK, EditsOK, MergedNodes, Stored
<1>2. ASSUME NEW x \in OpId, Stores(x) PROVE HistoriesOK'
  <2>0. NewOp(x)
    BY <1>2 DEF Stores
  <2>1. EditsOK'
    <3>1. log'[x].kind = "edit" => \E b \in Stored : log'[x].parents = {b}
      BY <1>2 DEF Stores, RootOf, EditOf, MergeOf
    <3> QED
      BY <1>0, <2>0, <3>1 DEF EditsOK, NewOp
  <2>2. ASSUME UNCHANGED commit PROVE CommitHistoryOK'
    BY <1>0, <2>0, <2>2 DEF CommitHistoryOK, MergedNodes, NewOp
  <2>3. ASSUME NEW b \in OpId, NEW N \in SUBSET Node,
               commit' = [commit EXCEPT ![x] = CommitRecord(x, {view[b].head} \ {NoOp}, N)]
        PROVE  CommitHistoryOK'
    <3>1. \A d \in {view[b].head} \ {NoOp} : d \in OpId /\ d \in commit[d].anc
      BY <1>0, HeadsStored
    <3> DEFINE C == {view[b].head} \ {NoOp}
    <3>2. C \in SUBSET OpId /\ ~ \E d, e \in C : d # e
      BY <3>1
    <3>3. commit' = [commit EXCEPT ![x] = CommitRecord(x, C, N)]
      BY <2>3
    <3> HIDE DEF C
    <3>4. \A d \in C : d \in commit[d].anc
      BY <3>1 DEF C
    <3> QED
      BY <1>0, <2>0, <3>2, <3>3, <3>4, CommitHistoryGrows
  <2>4. ASSUME NEW H \in SUBSET OpId,
               commit' = [commit EXCEPT ![x] =
                            CommitRecord(x, HeadCommits(H), MergedNodes(HeadCommits(H)))]
        PROVE  CommitHistoryOK'
    <3>1. \A d \in HeadCommits(H) : d \in OpId /\ d \in commit[d].anc
      BY <1>0, HeadsStored DEF HeadCommits
    <3> QED
      BY <1>0, <2>0, <2>4, <3>1, CommitHistoryGrows
  <2>5. CommitHistoryOK'
    <3>1. CASE RootOf(x)
      BY <2>2, <3>1 DEF RootOf
    <3>2. ASSUME NEW b \in OpId, EditOf(x, b) PROVE CommitHistoryOK'
      BY <2>2, <2>3, <3>2 DEF EditOf
    <3>3. ASSUME NEW H \in SUBSET OpId, NEW a \in OpId, MergeOf(x, H, a) PROVE CommitHistoryOK'
      BY <2>2, <2>4, <3>3 DEF MergeOf
    <3> QED
      BY <1>2, <3>1, <3>2, <3>3 DEF Stores
  <2> QED
    BY <2>1, <2>5 DEF HistoriesOK
<1> QED
  BY <1>0, <1>1, <1>2, StepStores

LEMMA HistoriesInit == ViewInit => HistoriesOK
<1> SUFFICES ASSUME ViewInit PROVE HistoriesOK
  OBVIOUS
<1>1. \A o \in Stored : log[o].kind = "init"
  BY DEF ViewInit, Init, Stored, RootRecord, Absent
<1> QED
  BY <1>1 DEF ViewInit, HistoriesOK, CommitHistoryOK, EditsOK, NoCommit

LEMMA ViewInvariance == ViewSpec => [](OpLogInv /\ ViewInv /\ HistoriesOK)
BY ViewInvInit, ViewInvStep, HistoriesInit, HistoriesStep, ViewsImplementLog, Invariance, PTL
   DEF ViewSpec

-----------------------------------------------------------------------------
(***************************************************************************)
(* What is carried along the log.  Some operations of G bring something,   *)
(* those of K have it, and edits of R take it away.  It is carried when    *)
(* every operation h has what an operation o in its past brought, unless a *)
(* later edit in its past, which saw o, took it away.                      *)
(***************************************************************************)
Carried(lg, S, G, K, R) ==
    \A h \in S : \A o \in lg[h].anc \cap G :
        \/ h \in K
        \/ \E q \in lg[h].anc \ {o} : lg[q].kind = "edit" /\ o \in lg[q].anc /\ q \in R

\* Storing x keeps what is carried, if x has what it brings, and has what one of
\* its parents has or is an edit that takes it away.
LEMMA CarriedStep ==
    ASSUME OpLogInv, OpLogInv', NEW x, NewOp(x),
           NEW G, NEW K, NEW R, NEW G2, NEW K2, NEW R2, Carried(log, Stored, G, K, R),
           G2 \cap Stored \subseteq G, K \cap Stored \subseteq K2, R \cap Stored \subseteq R2,
           x \in G2 => x \in K2,
           \A b \in log'[x].parents \cap K : x \in K2 \/ (log'[x].kind = "edit" /\ x \in R2)
    PROVE  Carried(log', Stored', G2, K2, R2)
<1>0. \A h \in Stored : log[h].anc \subseteq Stored
  BY DEF OpLogInv, AncestryOK
<1>1. x \in Stored' /\ x \notin Stored /\ \A a \in Stored : log'[a] = log[a]
  BY DEF NewOp
<1>2. ASSUME NEW h \in Stored, NEW o \in log'[h].anc \cap G2
      PROVE  \/ h \in K2
             \/ \E q \in log'[h].anc \ {o} : log'[q].kind = "edit" /\ o \in log'[q].anc /\ q \in R2
  <2>1. o \in Stored /\ o \in log[h].anc \cap G
    BY <1>0, <1>1, <1>2
  <2>2. CASE h \in K
    BY <2>2
  <2>3. ASSUME NEW q \in log[h].anc \ {o}, log[q].kind = "edit", o \in log[q].anc, q \in R
        PROVE  q \in log'[h].anc \ {o} /\ log'[q].kind = "edit" /\ o \in log'[q].anc /\ q \in R2
    BY <1>0, <1>1, <2>3
  <2> QED
    BY <2>1, <2>2, <2>3 DEF Carried
<1>3. ASSUME NEW o \in log'[x].anc \cap G2, x \notin K2
      PROVE  \E q \in log'[x].anc \ {o} : log'[q].kind = "edit" /\ o \in log'[q].anc /\ q \in R2
  <2>1. o # x
    BY <1>3
  <2>2. PICK b \in log'[x].parents : o \in log'[b].anc
    BY <1>1, <2>1 DEF OpLogInv, AncestryOK
  <2>3. b \in Stored /\ log'[b].anc \subseteq log'[x].anc /\ log'[b] = log[b] /\ x \in log'[x].anc
    BY <1>1 DEF OpLogInv, AncestryOK, NewOp
  <2>4. o \in Stored /\ o \in log[b].anc \cap G
    BY <1>0, <2>2, <2>3
  <2>5. CASE b \in K
    BY <1>3, <2>1, <2>3, <2>5
  <2>6. ASSUME NEW q \in log[b].anc \ {o}, log[q].kind = "edit", o \in log[q].anc, q \in R
        PROVE  q \in log'[x].anc \ {o} /\ log'[q].kind = "edit" /\ o \in log'[q].anc /\ q \in R2
    BY <1>0, <1>1, <2>3, <2>6
  <2> QED
    BY <2>3, <2>4, <2>5, <2>6 DEF Carried
<1> QED
  BY <1>1, <1>2, <1>3 DEF Carried, NewOp

\* What was before an edit does not change once it is stored.
LEMMA BeforeKept ==
    ASSUME OpLogInv, EditsOK, NEW x, NewOp(x)
    PROVE  \A o \in Stored : log[o].kind = "edit" =>
              \E b \in Stored : /\ log[o].parents = {b}
                                /\ Before(o) = view[b]
                                /\ (Before(o))' = view[b]
<1> SUFFICES ASSUME NEW o \in Stored, log[o].kind = "edit"
             PROVE  \E b \in Stored : /\ log[o].parents = {b}
                                      /\ Before(o) = view[b]
                                      /\ (Before(o))' = view[b]
  OBVIOUS
<1>1. PICK b \in Stored : log[o].parents = {b}
  BY DEF EditsOK
<1>2. log'[o] = log[o] /\ view'[b] = view[b]
  BY DEF NewOp
<1>3. (CHOOSE y \in log[o].parents : TRUE) = b
  BY <1>1
<1>4. (CHOOSE y \in log'[o].parents : TRUE) = b
  BY <1>1, <1>2
<1> QED
  BY <1>1, <1>2, <1>3, <1>4 DEF Before

\* What was before a new edit is the view of its parent.
LEMMA BeforeNew ==
    ASSUME NEW x, NEW b, NewOp(x), EditOf(x, b)
    PROVE  (Before(x))' = view[b]
<1>1. (CHOOSE y \in log'[x].parents : TRUE) = b
  BY DEF EditOf
<1> QED
  BY <1>1 DEF Before, NewOp, EditOf

\* So do the nodes of the views that are stored.
LEMMA NodesSame ==
    ASSUME OpLogInv, ViewInv, HistoriesOK, NEW x \in OpId, Stores(x)
    PROVE  /\ \A c \in OpId \ {x} : commit'[c] = commit[c]
           /\ \A o \in Stored : (Nodes(view[o]))' = Nodes(view[o])
           /\ \A o \in Stored : log[o].kind = "edit" => (Nodes(Before(o)))' = Nodes(Before(o))
           /\ \A b \in OpId : EditOf(x, b) => (Nodes(Before(x)))' = Nodes(view[b])
<1>0. NewOp(x) /\ CommitHistoryOK /\ EditsOK
  BY DEF Stores, HistoriesOK
<1>1. \A c \in OpId \ {x} : commit'[c] = commit[c]
  BY DEF Stores, RootOf, EditOf, MergeOf, ViewInv, CommitsOK
<1>2. \A o \in Stored : view[o].head # NoOp => commit'[view[o].head] = commit[view[o].head]
  BY <1>0, <1>1, HeadsStored DEF NewOp, Stored
<1>3. \A o \in Stored : view'[o] = view[o]
  BY <1>0 DEF NewOp
<1>4. \A o \in Stored : (Nodes(view[o]))' = Nodes(view[o])
  BY <1>2, <1>3 DEF Nodes
<1>5. \A o \in Stored : log[o].kind = "edit" => (Nodes(Before(o)))' = Nodes(Before(o))
  <2> SUFFICES ASSUME NEW o \in Stored, log[o].kind = "edit"
               PROVE  (Nodes(Before(o)))' = Nodes(Before(o))
    OBVIOUS
  <2>1. PICK b \in Stored : Before(o) = view[b] /\ (Before(o))' = view[b]
    BY <1>0, BeforeKept
  <2> QED
    BY <1>2, <2>1 DEF Nodes
<1>6. ASSUME NEW b \in OpId, EditOf(x, b) PROVE (Nodes(Before(x)))' = Nodes(view[b])
  <2>1. (Before(x))' = view[b] /\ b \in Stored
    BY <1>0, <1>6, BeforeNew DEF EditOf
  <2> QED
    BY <1>2, <2>1 DEF Nodes
<1> QED
  BY <1>1, <1>4, <1>5, <1>6

-----------------------------------------------------------------------------
(***************************************************************************)
(* Tombstones, nodes and commits are carried along the log, from every     *)
(* operation that is stored to every stored one that descends from it.     *)
(***************************************************************************)
TombsCarried ==
    \A n \in Node : Carried(log, Stored, {o \in Stored : Buries(o, n)},
                            {h \in Stored : n \in view[h].tombs},
                            {q \in Stored : Unburies(q, n)})

LEMMA TombsStep ==
    ASSUME OpLogInv, OpLogInv', ViewInv, HistoriesOK, TombsCarried, NEW x \in OpId, Stores(x)
    PROVE  TombsCarried'
<1> SUFFICES ASSUME NEW n \in Node
             PROVE  (Carried(log, Stored, {o \in Stored : Buries(o, n)},
                             {h \in Stored : n \in view[h].tombs},
                             {q \in Stored : Unburies(q, n)}))'
  BY DEF TombsCarried
<1> DEFINE G == {o \in Stored : Buries(o, n)}
           K == {h \in Stored : n \in view[h].tombs}
           R == {q \in Stored : Unburies(q, n)}
           G2 == {o \in Stored' : (Buries(o, n))'}
           K2 == {h \in Stored' : n \in view'[h].tombs}
           R2 == {q \in Stored' : (Unburies(q, n))'}
<1>1. NewOp(x) /\ EditsOK /\ Carried(log, Stored, G, K, R)
  BY DEF Stores, HistoriesOK, TombsCarried
<1>2. \A o \in Stored : log'[o] = log[o] /\ view'[o] = view[o] /\ o \in Stored'
  BY <1>1 DEF NewOp
<1>3. \A o \in Stored : log[o].kind = "edit" => (Before(o))' = Before(o)
  BY <1>1, BeforeKept
<1>4. G2 \cap Stored \subseteq G /\ K \cap Stored \subseteq K2 /\ R \cap Stored \subseteq R2
  BY <1>2, <1>3 DEF Buries, Unburies
<1>5. x \in G2 => x \in K2
  BY DEF Buries
<1>6. ASSUME NEW b \in log'[x].parents \cap K
      PROVE  x \in K2 \/ (log'[x].kind = "edit" /\ x \in R2)
  <2>0. x \in Stored'
    BY <1>1 DEF NewOp
  <2>1. CASE RootOf(x)
    BY <2>1 DEF RootOf
  <2>2. ASSUME NEW y \in OpId, EditOf(x, y)
        PROVE  x \in K2 \/ (log'[x].kind = "edit" /\ x \in R2)
    <3>1. y = b /\ (Before(x))' = view[b] /\ log'[x].kind = "edit"
      BY <1>1, <2>2, BeforeNew DEF EditOf
    <3> QED
      BY <2>0, <3>1 DEF Unburies
  <2>3. ASSUME NEW H \in SUBSET OpId, NEW a \in OpId, MergeOf(x, H, a) PROVE x \in K2
    BY <2>0, <2>3 DEF MergeOf, MergedTombs
  <2> QED
    BY <2>1, <2>2, <2>3 DEF Stores
<1> HIDE DEF G, K, R, G2, K2, R2
<1>7. Carried(log', Stored', G2, K2, R2)
  BY <1>1, <1>4, <1>5, <1>6, CarriedStep
<1> QED
  BY <1>7 DEF G2, K2, R2, Carried

NodesCarried ==
    \A n \in Node : Carried(log, Stored, {o \in Stored : Adds(o, n)},
                            {h \in Stored : n \in Nodes(view[h])},
                            {q \in Stored : Removes(q, n)})

\* A merge has the nodes of the heads it merges.
LEMMA MergedHeadNodes ==
    ASSUME OpLogInv, ViewInv, HistoriesOK, NEW x \in OpId, Stores(x),
           NEW H \in SUBSET OpId, NEW a \in OpId, MergeOf(x, H, a), NEW b \in H
    PROVE  Nodes(view[b]) \subseteq (Nodes(view[x]))'
<1> DEFINE hd == view'[x].head
           C == HeadCommits(H)
<1>0. CommitHistoryOK /\ NewOp(x)
  BY DEF HistoriesOK, Stores
<1>1. CASE view[b].head = NoOp
  BY <1>1 DEF Nodes
<1>2. CASE view[b].head # NoOp
  <2>1. /\ view[b].head \in C /\ view[b].head \in OpId
        /\ Nodes(view[b]) = commit[view[b].head].nodes
    BY <1>0, <1>2, HeadsStored DEF HeadCommits, Nodes
  <2>2. Nodes(view[b]) \subseteq MergedNodes(C)
    BY <2>1 DEF MergedNodes
  <2>3. x \notin C /\ C \subseteq OpId /\ \A c \in C : commit'[c] = commit[c]
    <3>1. \A c \in C : c \in OpId /\ c \in Stored
      BY <1>0, HeadsStored DEF HeadCommits
    <3> QED
      BY <1>0, <3>1, NodesSame DEF NewOp
  <2>4. CASE C = {hd}
    BY <2>1, <2>3, <2>4, OpLogAssumption DEF Nodes
  <2>5. CASE (\E c, d \in C : c # d) /\ hd \in MergeCommits(C) /\ UNCHANGED commit
    <3>1. hd \in OpId /\ commit[hd].parents = C /\ hd # NoOp
      BY <2>5, OpLogAssumption DEF MergeCommits
    <3>2. commit[hd].nodes = MergedNodes(C)
      BY <1>0, <2>5, <3>1 DEF CommitHistoryOK
    <3> QED
      BY <2>2, <2>5, <3>1, <3>2 DEF Nodes
  <2>6. CASE hd = x /\ commit' = [commit EXCEPT ![x] = CommitRecord(x, C, MergedNodes(C))]
    <3>1. commit'[x].nodes = MergedNodes(C)
      BY <2>6 DEF ViewInv, CommitsOK, CommitRecord
    <3> QED
      BY <2>2, <2>6, <3>1, OpLogAssumption DEF Nodes
  <2> QED
    BY <2>1, <2>4, <2>5, <2>6 DEF MergeOf
<1> QED
  BY <1>1, <1>2

LEMMA NodesStep ==
    ASSUME OpLogInv, OpLogInv', ViewInv, HistoriesOK, NodesCarried, NEW x \in OpId, Stores(x)
    PROVE  NodesCarried'
<1> SUFFICES ASSUME NEW n \in Node
             PROVE  (Carried(log, Stored, {o \in Stored : Adds(o, n)},
                             {h \in Stored : n \in Nodes(view[h])},
                             {q \in Stored : Removes(q, n)}))'
  BY DEF NodesCarried
<1> DEFINE G == {o \in Stored : Adds(o, n)}
           K == {h \in Stored : n \in Nodes(view[h])}
           R == {q \in Stored : Removes(q, n)}
           G2 == {o \in Stored' : (Adds(o, n))'}
           K2 == {h \in Stored' : n \in (Nodes(view[h]))'}
           R2 == {q \in Stored' : (Removes(q, n))'}
<1>1. NewOp(x) /\ EditsOK /\ Carried(log, Stored, G, K, R)
  BY DEF Stores, HistoriesOK, NodesCarried
<1>2. \A o \in Stored : log'[o] = log[o] /\ o \in Stored' /\ (Nodes(view[o]))' = Nodes(view[o])
  BY <1>1, NodesSame DEF NewOp
<1>3. \A o \in Stored : log[o].kind = "edit" => (Nodes(Before(o)))' = Nodes(Before(o))
  BY NodesSame
<1>4. G2 \cap Stored \subseteq G /\ K \cap Stored \subseteq K2 /\ R \cap Stored \subseteq R2
  BY <1>2, <1>3 DEF Adds, Removes
<1>5. x \in G2 => x \in K2
  BY DEF Adds
<1>6. ASSUME NEW b \in log'[x].parents \cap K
      PROVE  x \in K2 \/ (log'[x].kind = "edit" /\ x \in R2)
  <2>0. x \in Stored'
    BY <1>1 DEF NewOp
  <2>1. CASE RootOf(x)
    BY <2>1 DEF RootOf
  <2>2. ASSUME NEW y \in OpId, EditOf(x, y)
        PROVE  x \in K2 \/ (log'[x].kind = "edit" /\ x \in R2)
    <3>1. y = b /\ (Nodes(Before(x)))' = Nodes(view[b]) /\ log'[x].kind = "edit"
      BY <2>2, NodesSame DEF EditOf
    <3> QED
      BY <2>0, <3>1 DEF Removes
  <2>3. ASSUME NEW H \in SUBSET OpId, NEW a \in OpId, MergeOf(x, H, a) PROVE x \in K2
    <3>1. b \in H
      BY <2>3 DEF MergeOf
    <3> QED
      BY <2>0, <2>3, <3>1, MergedHeadNodes
  <2> QED
    BY <2>1, <2>2, <2>3 DEF Stores
<1> HIDE DEF G, K, R, G2, K2, R2
<1>7. Carried(log', Stored', G2, K2, R2)
  BY <1>1, <1>4, <1>5, <1>6, CarriedStep
<1> QED
  BY <1>7 DEF G2, K2, R2, Carried

\* The commit that o made is in the past of the head commit of a view.
InPast(o, v) == v.head # NoOp /\ o \in commit[v.head].anc

CommitsCarried ==
    \A c \in OpId : Carried(log, Stored, {o \in Stored : o = c /\ log[o].kind = "edit" /\ view[o].head = o},
                            {h \in Stored : InPast(c, view[h])},
                            {q \in Stored : MovesHead(q)})

\* The past of the head commit of a merge has the pasts of those it merges.
LEMMA MergedHeadPast ==
    ASSUME OpLogInv, ViewInv, HistoriesOK, NEW x \in OpId, Stores(x),
           NEW H \in SUBSET OpId, NEW a \in OpId, MergeOf(x, H, a), NEW b \in H,
           NEW c \in OpId, InPast(c, view[b])
    PROVE  (InPast(c, view[x]))'
<1> DEFINE hd == view'[x].head
           C == HeadCommits(H)
<1>0. CommitHistoryOK /\ NewOp(x)
  BY DEF HistoriesOK, Stores
<1>1. /\ view[b].head \in C /\ view[b].head \in OpId
      /\ c \in commit[view[b].head].anc
  BY <1>0, HeadsStored DEF HeadCommits, InPast
<1>2. x \notin C /\ C \subseteq OpId /\ \A d \in C : commit'[d] = commit[d]
  <2>1. \A d \in C : d \in OpId /\ d \in Stored
    BY <1>0, HeadsStored DEF HeadCommits
  <2> QED
    BY <1>0, <2>1, NodesSame DEF NewOp
<1>3. CASE C = {hd}
  BY <1>1, <1>2, <1>3, OpLogAssumption DEF InPast
<1>4. CASE (\E d, e \in C : d # e) /\ hd \in MergeCommits(C) /\ UNCHANGED commit
  <2>1. hd \in OpId /\ commit[hd].parents = C /\ hd # NoOp
    BY <1>4, OpLogAssumption DEF MergeCommits
  <2>2. commit[view[b].head].anc \subseteq commit[hd].anc
    BY <1>0, <1>1, <2>1 DEF CommitHistoryOK
  <2> QED
    BY <1>1, <1>4, <2>1, <2>2 DEF InPast
<1>5. CASE hd = x /\ commit' = [commit EXCEPT ![x] = CommitRecord(x, C, MergedNodes(C))]
  <2>1. commit'[x].anc = {x} \cup UNION {commit[d].anc : d \in C}
    BY <1>5 DEF ViewInv, CommitsOK, CommitRecord
  <2> QED
    BY <1>1, <1>5, <2>1, OpLogAssumption DEF InPast
<1> QED
  BY <1>1, <1>3, <1>4, <1>5 DEF MergeOf

LEMMA CommitsStep ==
    ASSUME OpLogInv, OpLogInv', ViewInv, ViewInv', HistoriesOK, CommitsCarried,
           NEW x \in OpId, Stores(x)
    PROVE  CommitsCarried'
<1> SUFFICES ASSUME NEW c \in OpId
             PROVE  (Carried(log, Stored,
                             {o \in Stored : o = c /\ log[o].kind = "edit" /\ view[o].head = o},
                             {h \in Stored : InPast(c, view[h])},
                             {q \in Stored : MovesHead(q)}))'
  BY DEF CommitsCarried
<1> DEFINE G == {o \in Stored : o = c /\ log[o].kind = "edit" /\ view[o].head = o}
           K == {h \in Stored : InPast(c, view[h])}
           R == {q \in Stored : MovesHead(q)}
           G2 == {o \in Stored' : o = c /\ log'[o].kind = "edit" /\ view'[o].head = o}
           K2 == {h \in Stored' : (InPast(c, view[h]))'}
           R2 == {q \in Stored' : (MovesHead(q))'}
<1>1. NewOp(x) /\ EditsOK /\ CommitHistoryOK /\ Carried(log, Stored, G, K, R)
  BY DEF Stores, HistoriesOK, CommitsCarried
<1>2. \A o \in Stored : log'[o] = log[o] /\ view'[o] = view[o] /\ o \in Stored'
  BY <1>1 DEF NewOp
<1>3. \A o \in Stored : log[o].kind = "edit" => (Before(o))' = Before(o)
  BY <1>1, BeforeKept
<1>p. \A o \in Stored : InPast(c, view[o]) => (InPast(c, view[o]))'
  <2> SUFFICES ASSUME NEW o \in Stored, InPast(c, view[o]) PROVE (InPast(c, view[o]))'
    OBVIOUS
  <2>1. view[o].head \in Stored /\ view[o].head # x
    BY <1>1, HeadsStored DEF InPast, NewOp, Stored
  <2>2. commit'[view[o].head] = commit[view[o].head]
    BY <2>1, NodesSame DEF Stored
  <2> QED
    BY <1>2, <2>2 DEF InPast
<1>4. G2 \cap Stored \subseteq G /\ K \cap Stored \subseteq K2 /\ R \cap Stored \subseteq R2
  BY <1>2, <1>3, <1>p DEF MovesHead
<1>5. x \in G2 => x \in K2
  <2> SUFFICES ASSUME x \in G2 PROVE x \in K2
    OBVIOUS
  <2>1. x = c /\ view'[x].head = x /\ x # NoOp /\ x \in Stored'
    BY OpLogAssumption
  <2>2. x \in commit'[x].anc
    BY <2>1 DEF ViewInv, Sound, Targets
  <2> QED
    BY <2>1, <2>2 DEF InPast
<1>6. ASSUME NEW b \in log'[x].parents \cap K
      PROVE  x \in K2 \/ (log'[x].kind = "edit" /\ x \in R2)
  <2>0. x \in Stored' /\ b \in Stored /\ InPast(c, view[b])
    BY <1>1 DEF NewOp
  <2>1. CASE RootOf(x)
    BY <2>1 DEF RootOf
  <2>2. ASSUME NEW y \in OpId, EditOf(x, y)
        PROVE  x \in K2 \/ (log'[x].kind = "edit" /\ x \in R2)
    <3>1. y = b /\ (Before(x))' = view[b] /\ log'[x].kind = "edit"
      BY ZenonT(60), <1>1, <2>2, BeforeNew DEF EditOf
    <3>2. CASE view'[x].head = x
      <4>1. view[b].head # NoOp /\ c \in commit[view[b].head].anc /\ x # NoOp
        BY <2>0, OpLogAssumption DEF InPast
      <4>2. PICK N \in SUBSET Node :
               commit' = [commit EXCEPT ![x] = CommitRecord(x, {view[b].head} \ {NoOp}, N)]
        BY <2>2, <3>1, <3>2 DEF EditOf
      <4>3. commit'[x] = CommitRecord(x, {view[b].head} \ {NoOp}, N)
        BY <4>2 DEF ViewInv, CommitsOK
      <4>4. c \in commit'[x].anc
        BY <4>1, <4>3 DEF CommitRecord
      <4> QED
        BY <2>0, <3>2, <4>1, <4>4 DEF InPast
    <3>3. CASE view'[x].head = view[b].head
      <4>1. (InPast(c, view[b]))'
        BY <1>p, <2>0
      <4>2. view'[b] = view[b]
        BY <1>2, <2>0
      <4> QED
        BY <2>0, <3>3, <4>1, <4>2 DEF InPast
    <3>4. CASE view'[x].head \notin {x, view[b].head}
      BY <2>0, <3>1, <3>4 DEF MovesHead
    <3> QED
      BY <3>2, <3>3, <3>4
  <2>3. ASSUME NEW H \in SUBSET OpId, NEW a \in OpId, MergeOf(x, H, a) PROVE x \in K2
    <3>1. b \in H
      BY <2>3 DEF MergeOf
    <3> QED
      BY <2>0, <2>3, <3>1, MergedHeadPast
  <2> QED
    BY <2>1, <2>2, <2>3 DEF Stores
<1> HIDE DEF G, K, R, G2, K2, R2
<1>7. Carried(log', Stored', G2, K2, R2)
  BY <1>1, <1>4, <1>5, <1>6, CarriedStep
<1> QED
  BY <1>7 DEF G2, K2, R2, Carried

-----------------------------------------------------------------------------
(***************************************************************************)
(* Refs.  An edit writes one commit or none, so a commit that a ref names  *)
(* was written to it by an edit in the past; no ref both lists a commit    *)
(* and excludes it.                                                        *)
(***************************************************************************)
Mentions(t, c) == c \in t.adds \cup t.removes

Disjoint(t) == t.adds \cap t.removes = {}

\* Merging keeps a commit that some head has, that no head and not the base excludes,
\* and that, if the base has it, all heads have: the heads count it once more than
\* the base takes away.
LEMMA MergeKeepsAdded ==
    ASSUME NEW H, IsFiniteSet(H), NEW b \in RM!Target, NEW t \in [H -> RM!Target], NEW c \in OpId,
           \E h \in H : c \in t[h].adds,
           \A h \in H : c \notin t[h].removes,
           c \notin b.removes,
           c \in b.adds => \A h \in H : c \in t[h].adds
    PROVE  c \in RM!MergeRef(b, t).adds
<1>0. DOMAIN t = H
  OBVIOUS
<1>1. CASE \E v \in RM!Target : \A h \in H : t[h] = v
  <2> DEFINE w == CHOOSE v \in RM!Target : \A h \in H : t[h] = v
  <2>1. w \in RM!Target /\ \A h \in H : t[h] = w
    BY <1>1
  <2>2. RM!MergeRef(b, t) = w
    BY <1>1 DEF RM!MergeRef
  <2> QED
    BY <2>1, <2>2
<1>2. CASE ~ \E v \in RM!Target : \A h \in H : t[h] = v
  <2> DEFINE A == {h \in H : c \in t[h].adds}
             D == {h \in H : c \in t[h].removes}
  <2>1. RM!MergeRef(b, t) = RM!Collapse(b, t)
    BY <1>0, <1>2, Zenon DEF RM!MergeRef
  <2>2. D = {}
    OBVIOUS
  <2>3. RM!Count(b, t, c) =
           RM!Cardinality(A) - RM!Cardinality(D) - (RM!Cardinality(H) - 1) * RM!Sign(b, c)
    BY <1>0, Zenon DEF RM!Count
  <2>4. IsFiniteSet(A) /\ A # {}
    BY FS_Subset
  <2>5. RM!Cardinality(A) \in Nat \ {0} /\ RM!Cardinality(H) \in Nat /\ RM!Cardinality({}) = 0
    BY <2>4, FS_CardinalityType, FS_EmptySet, SameCardinality
  <2> HIDE DEF A, D
  <2>6. CASE c \in b.adds
    <3>1. A = H
      BY <2>6 DEF A
    <3>2. RM!Sign(b, c) = 1
      BY <2>6 DEF RM!Sign
    <3>3. RM!Count(b, t, c) = RM!Cardinality(H) - 0 - (RM!Cardinality(H) - 1) * 1
      BY <2>2, <2>3, <2>5, <3>1, <3>2
    <3>4. RM!Count(b, t, c) = 1
      BY <2>5, <3>3
    <3> QED
      BY <2>1, <3>4 DEF RM!Collapse
  <2>7. CASE c \notin b.adds
    <3>1. RM!Sign(b, c) = 0
      BY <2>7 DEF RM!Sign
    <3>2. RM!Count(b, t, c) = RM!Cardinality(A) - 0 - (RM!Cardinality(H) - 1) * 0
      BY <2>2, <2>3, <2>5, <3>1
    <3>3. RM!Count(b, t, c) = RM!Cardinality(A)
      BY <2>5, <3>2
    <3>4. RM!Count(b, t, c) > 0
      BY <2>5, <3>3
    <3> QED
      BY <2>1, <3>4 DEF RM!Collapse
  <2> QED
    BY <2>6, <2>7
<1> QED
  BY <1>1, <1>2

LEMMA MergeDisjoint ==
    ASSUME NEW H, IsFiniteSet(H), H # {}, NEW b \in RM!Target, NEW t \in [H -> RM!Target],
           \A h \in H : Disjoint(t[h])
    PROVE  Disjoint(RM!MergeRef(b, t))
<1>0. DOMAIN t = H
  OBVIOUS
<1>1. CASE \E v \in RM!Target : \A h \in H : t[h] = v
  <2> DEFINE w == CHOOSE v \in RM!Target : \A h \in H : t[h] = v
  <2>1. w \in RM!Target /\ \A h \in H : t[h] = w
    BY <1>1
  <2>2. RM!MergeRef(b, t) = w
    BY <1>1 DEF RM!MergeRef
  <2> QED
    BY <2>1, <2>2
<1>2. CASE ~ \E v \in RM!Target : \A h \in H : t[h] = v
  <2>1. RM!MergeRef(b, t) = RM!Collapse(b, t)
    BY <1>0, <1>2, Zenon DEF RM!MergeRef
  <2>2. ASSUME NEW c \in OpId PROVE RM!Count(b, t, c) \in Int
    <3> DEFINE A == {h \in H : c \in t[h].adds}
               D == {h \in H : c \in t[h].removes}
    <3>1. RM!Count(b, t, c) =
             RM!Cardinality(A) - RM!Cardinality(D) - (RM!Cardinality(H) - 1) * RM!Sign(b, c)
      BY <1>0, Zenon DEF RM!Count
    <3>2. IsFiniteSet(A) /\ IsFiniteSet(D)
      BY FS_Subset
    <3> HIDE DEF A, D
    <3>3. RM!Cardinality(A) \in Nat /\ RM!Cardinality(D) \in Nat /\ RM!Cardinality(H) \in Nat
      BY <3>2, FS_CardinalityType, SameCardinality
    <3>4. RM!Sign(b, c) \in Int
      BY DEF RM!Sign
    <3> QED
      BY <3>1, <3>3, <3>4
  <2>3. \A c \in OpId : ~ (RM!Count(b, t, c) > 0 /\ RM!Count(b, t, c) < 0)
    BY <2>2
  <2> QED
    BY <2>1, <2>3 DEF RM!Collapse, Disjoint
<1> QED
  BY <1>1, <1>2

WrittenOK ==
    \A o \in Stored, r \in Ref :
        Writes(o, r) => \/ view[o].refs[r] = RM!Missing
                        \/ \E c \in OpId : view[o].refs[r] = RM!Normal(c)

MentionedOK ==
    \A h \in Stored, r \in Ref, c \in OpId :
        Mentions(view[h].refs[r], c) =>
            \E q \in log[h].anc : Writes(q, r) /\ view[q].refs[r] = RM!Normal(c)

DisjointOK == \A h \in Stored, r \in Ref : Disjoint(view[h].refs[r])

RefsCarried ==
    \A h \in Stored, r \in Ref : \A o \in log[h].anc :
        IsNews(o, r, h) => \/ view[o].refs[r].adds \subseteq view[h].refs[r].adds
                           \/ \E q \in Later(o, h) : Writes(q, r)

RefInv == WrittenOK /\ MentionedOK /\ DisjointOK /\ RefsCarried

\* What was stored was written as before.
LEMMA WritesSame ==
    ASSUME OpLogInv, HistoriesOK, NEW x, NewOp(x)
    PROVE  /\ \A o \in Stored, r \in Ref : (Writes(o, r))' <=> Writes(o, r)
           /\ \A b \in OpId, r \in Ref : EditOf(x, b) =>
                 ((Writes(x, r))' <=> view'[x].refs[r] # view[b].refs[r])
           /\ log'[x].kind # "edit" => \A r \in Ref : ~ (Writes(x, r))'
<1>0. EditsOK
  BY DEF HistoriesOK
<1>1. \A o \in Stored : log'[o] = log[o] /\ view'[o] = view[o]
  BY DEF NewOp
<1>2. \A o \in Stored : log[o].kind = "edit" => (Before(o))' = Before(o)
  BY <1>0, BeforeKept
<1>3. \A o \in Stored, r \in Ref : (Writes(o, r))' <=> Writes(o, r)
  BY <1>1, <1>2 DEF Writes
<1>4. ASSUME NEW b \in OpId, NEW r \in Ref, EditOf(x, b)
      PROVE  (Writes(x, r))' <=> view'[x].refs[r] # view[b].refs[r]
  <2>1. (Before(x))' = view[b] /\ log'[x].kind = "edit"
    BY <1>4, BeforeNew DEF EditOf
  <2> QED
    BY <2>1 DEF Writes
<1>5. log'[x].kind # "edit" => \A r \in Ref : ~ (Writes(x, r))'
  BY DEF Writes
<1> QED
  BY <1>3, <1>4, <1>5

\* A merge takes each ref from the base and the heads alone.
LEMMA MergedRef ==
    ASSUME ViewInv, NEW x, NEW H \in SUBSET OpId, NEW a \in OpId, MergeOf(x, H, a), NEW r \in Ref
    PROVE  \E t \in [H -> RM!Target] :
              /\ \A h \in H : t[h] = view[h].refs[r]
              /\ view'[x].refs[r] = RM!MergeRef(view[a].refs[r], t)
              /\ view[a].refs[r] \in RM!Target
<1> DEFINE t == [h \in H |-> view[h].refs[r]]
<1>1. \A o \in OpId : view[o].refs[r] \in RM!Target
  BY DEF ViewInv, View
<1>2. t \in [H -> RM!Target] /\ \A h \in H : t[h] = view[h].refs[r]
  BY <1>1
<1>3. view'[x].refs[r] = RM!MergeRef(view[a].refs[r], t)
  BY DEF MergeOf
<1> QED
  BY <1>1, <1>2, <1>3

LEMMA MentionsStep ==
    ASSUME OpLogInv, OpLogInv', ViewInv, HistoriesOK, RefInv, NEW x \in OpId, Stores(x)
    PROVE  WrittenOK' /\ MentionedOK' /\ DisjointOK'
<1>0. NewOp(x) /\ WrittenOK /\ MentionedOK /\ DisjointOK
  BY DEF Stores, RefInv
<1>1. /\ x \in Stored' /\ x \notin Stored /\ Stored' = Stored \cup {x}
      /\ \A o \in Stored : log'[o] = log[o] /\ view'[o] = view[o] /\ log[o].anc \subseteq Stored
  BY <1>0 DEF NewOp, OpLogInv, AncestryOK
<1>2. \A o \in Stored, r \in Ref : (Writes(o, r))' <=> Writes(o, r)
  BY <1>0, WritesSame
<1>3. x \in log'[x].anc /\ \A b \in log'[x].parents : b \in Stored /\ log[b].anc \subseteq log'[x].anc
  BY <1>1 DEF OpLogInv, AncestryOK
<1>4. \A o \in Stored, r \in Ref, c \in OpId :
          Mentions(view[o].refs[r], c) =>
             \E q \in log[o].anc : (Writes(q, r))' /\ view'[q].refs[r] = RM!Normal(c)
  BY <1>0, <1>1, <1>2 DEF MentionedOK
<1>m. RM!Missing.adds = {} /\ RM!Missing.removes = {}
  BY DEF RM!Missing
<1>n. \A c \in OpId : RM!Normal(c).adds = {c} /\ RM!Normal(c).removes = {}
  BY DEF RM!Normal
<1>5. ASSUME NEW r \in Ref
      PROVE  /\ (Writes(x, r))' => \/ view'[x].refs[r] = RM!Missing
                                   \/ \E c \in OpId : view'[x].refs[r] = RM!Normal(c)
             /\ \A c \in OpId : Mentions(view'[x].refs[r], c) =>
                   \E q \in log'[x].anc : (Writes(q, r))' /\ view'[q].refs[r] = RM!Normal(c)
             /\ Disjoint(view'[x].refs[r])
  <2>1. CASE RootOf(x)
    <3>1. view'[x].refs[r] = RM!Missing
      BY <2>1 DEF RootOf, RootView
    <3> QED
      BY <3>1, <1>m DEF Mentions, Disjoint
  <2>2. ASSUME NEW b \in OpId, EditOf(x, b)
        PROVE  /\ (Writes(x, r))' => \/ view'[x].refs[r] = RM!Missing
                                     \/ \E c \in OpId : view'[x].refs[r] = RM!Normal(c)
               /\ \A c \in OpId : Mentions(view'[x].refs[r], c) =>
                     \E q \in log'[x].anc : (Writes(q, r))' /\ view'[q].refs[r] = RM!Normal(c)
               /\ Disjoint(view'[x].refs[r])
    <3>0. (Writes(x, r))' <=> view'[x].refs[r] # view[b].refs[r]
      BY <1>0, <2>2, WritesSame
    <3>1. b \in Stored /\ log[b].anc \subseteq log'[x].anc
      BY <1>3, <2>2 DEF EditOf
    <3>2. CASE view'[x].refs[r] = view[b].refs[r]
      BY <1>0, <1>4, <3>0, <3>1, <3>2 DEF DisjointOK
    <3>3. CASE view'[x].refs[r] # view[b].refs[r]
      <4>1. view'[x].refs[r] = RM!Missing \/ \E c \in OpId : view'[x].refs[r] = RM!Normal(c)
        BY <2>2, <3>3 DEF EditOf
      <4>2. \A c \in OpId : Mentions(view'[x].refs[r], c) => view'[x].refs[r] = RM!Normal(c)
        BY <4>1, <1>m, <1>n DEF Mentions
      <4>3. Disjoint(view'[x].refs[r])
        BY <4>1, <1>m, <1>n DEF Disjoint
      <4> QED
        BY <1>3, <3>0, <3>3, <4>1, <4>2, <4>3
    <3> QED
      BY <3>2, <3>3
  <2>3. ASSUME NEW H \in SUBSET OpId, NEW a \in OpId, MergeOf(x, H, a)
        PROVE  /\ (Writes(x, r))' => FALSE
               /\ \A c \in OpId : Mentions(view'[x].refs[r], c) =>
                     \E q \in log'[x].anc : (Writes(q, r))' /\ view'[q].refs[r] = RM!Normal(c)
               /\ Disjoint(view'[x].refs[r])
    <3>1. ~ (Writes(x, r))'
      BY <1>0, <2>3, WritesSame DEF MergeOf
    <3>2. /\ H \subseteq Stored /\ IsFiniteSet(H) /\ H # {} /\ a \in Stored
          /\ \A h \in H : log[h].anc \subseteq log'[x].anc
          /\ log[a].anc \subseteq log'[x].anc
      BY <1>1, <1>3, <2>3 DEF MergeOf, OpLogInv, AncestryOK
    <3>3. PICK t \in [H -> RM!Target] :
              /\ \A h \in H : t[h] = view[h].refs[r]
              /\ view'[x].refs[r] = RM!MergeRef(view[a].refs[r], t)
              /\ view[a].refs[r] \in RM!Target
      BY <2>3, MergedRef
    <3>4. Disjoint(view'[x].refs[r])
      <4>1. \A h \in H : Disjoint(t[h])
        BY <1>0, <3>2, <3>3 DEF DisjointOK
      <4> QED
        BY <3>2, <3>3, <4>1, MergeDisjoint
    <3>5. ASSUME NEW c \in OpId, Mentions(view'[x].refs[r], c)
          PROVE  \E y \in H \cup {a} : Mentions(view[y].refs[r], c)
      <4>1. \/ c \in view[a].refs[r].adds \cup view[a].refs[r].removes
            \/ \E h \in H : c \in t[h].adds \cup t[h].removes
        BY <3>2, <3>3, <3>5, MergedTargets DEF Mentions
      <4> QED
        BY <3>3, <4>1 DEF Mentions
    <3> QED
      BY <1>4, <3>1, <3>2, <3>4, <3>5
  <2> QED
    BY <2>1, <2>2, <2>3 DEF Stores
<1>6. WrittenOK'
  BY <1>0, <1>1, <1>2, <1>5 DEF WrittenOK
<1>7. MentionedOK'
  BY <1>1, <1>4, <1>5 DEF MentionedOK
<1>8. DisjointOK'
  BY <1>0, <1>1, <1>5 DEF DisjointOK
<1> QED
  BY <1>6, <1>7, <1>8

\* The merge case: what an edit o wrote, and no edit beside it wrote too, is kept
\* unless a later edit wrote the ref again.
LEMMA MergeKeepsNews ==
    ASSUME OpLogInv, OpLogInv', ViewInv, HistoriesOK, RefInv, NEW x \in OpId, Stores(x),
           NEW H \in SUBSET OpId, NEW a \in OpId, MergeOf(x, H, a),
           NEW r \in Ref, NEW o \in log'[x].anc, o # x, (IsNews(o, r, x))',
           ~ \E q \in (Later(o, x))' : (Writes(q, r))'
    PROVE  view[o].refs[r].adds \subseteq view'[x].refs[r].adds
<1>0. NewOp(x) /\ WrittenOK /\ MentionedOK /\ DisjointOK /\ RefsCarried
  BY DEF Stores, RefInv
<1>1. /\ x \notin Stored /\ Stored' = Stored \cup {x}
      /\ \A y \in Stored : log'[y] = log[y] /\ view'[y] = view[y]
      /\ \A y \in Stored : y \in log[y].anc /\ log[y].anc \subseteq Stored
  BY <1>0 DEF NewOp, OpLogInv, AncestryOK
<1>2. \A y \in Stored : (Writes(y, r))' <=> Writes(y, r)
  BY <1>0, WritesSame
<1>3. /\ H \subseteq Stored /\ IsFiniteSet(H) /\ H # {} /\ a \in Stored
      /\ \A h \in H : log[h].anc \subseteq log'[x].anc /\ log[a].anc \subseteq log[h].anc
      /\ log[a].anc \subseteq log'[x].anc
      /\ \E h \in H : o \in log[h].anc
  BY <1>1 DEF MergeOf, OpLogInv, AncestryOK
<1>4. o \in Stored /\ view'[o] = view[o]
  BY <1>1, <1>3
<1>5. CASE view[o].refs[r] = RM!Missing
  BY <1>5 DEF RM!Missing
<1>6. ASSUME NEW c \in OpId, view[o].refs[r] = RM!Normal(c)
      PROVE  view[o].refs[r].adds \subseteq view'[x].refs[r].adds
  <2>0. view[o].refs[r].adds = {c}
    BY <1>6 DEF RM!Normal
  \* An operation of the past that has not seen o does not mention its commit.
  <2>1. ASSUME NEW y \in H \cup {a}, o \notin log[y].anc
        PROVE  ~ Mentions(view[y].refs[r], c)
    <3> SUFFICES ASSUME Mentions(view[y].refs[r], c) PROVE FALSE
      OBVIOUS
    <3>1. PICK q \in log[y].anc : Writes(q, r) /\ view[q].refs[r] = RM!Normal(c)
      BY <1>0, <1>3 DEF MentionedOK
    <3>2. q \in Stored /\ q \in log'[x].anc /\ q # o /\ y \in Stored
      BY <1>1, <1>3, <2>1, <3>1
    <3>3. (Writes(q, r))' /\ view'[q].refs[r] = view'[o].refs[r]
      BY <1>1, <1>2, <1>4, <1>6, <3>1, <3>2
    <3>4. o \in log'[q].anc
      BY <3>2, <3>3 DEF IsNews
    <3>5. log[q].anc \subseteq log[y].anc
      BY <3>1, <3>2 DEF OpLogInv, AncestryOK
    <3> QED
      BY <1>1, <2>1, <3>2, <3>4, <3>5
  \* One that has seen o lists it.
  <2>2. ASSUME NEW y \in H \cup {a}, o \in log[y].anc
        PROVE  c \in view[y].refs[r].adds /\ c \notin view[y].refs[r].removes
    <3>0. y \in Stored /\ log[y].anc \subseteq log'[x].anc /\ log[y].anc \subseteq Stored
      BY <1>1, <1>3
    <3>1. IsNews(o, r, y)
      <4>1. Writes(o, r)
        BY <1>2, <1>4 DEF IsNews
      <4>2. ASSUME NEW q \in log[y].anc \ {o}, Writes(q, r), view[q].refs[r] = view[o].refs[r]
            PROVE  o \in log[q].anc
        BY <1>1, <1>2, <1>4, <3>0, <4>2 DEF IsNews
      <4> QED
        BY <4>1, <4>2 DEF IsNews
    <3>2. ~ \E q \in Later(o, y) : Writes(q, r)
      <4> SUFFICES ASSUME NEW q \in Later(o, y), Writes(q, r) PROVE FALSE
        OBVIOUS
      <4>1. q \in Stored /\ q \in (Later(o, x))' /\ (Writes(q, r))'
        BY <1>1, <1>2, <3>0 DEF Later
      <4> QED
        BY <4>1
    <3>3. c \in view[y].refs[r].adds
      BY <1>0, <2>0, <2>2, <3>0, <3>1, <3>2 DEF RefsCarried
    <3> QED
      BY <1>0, <3>0, <3>3 DEF DisjointOK, Disjoint
  <2>3. PICK t \in [H -> RM!Target] :
            /\ \A h \in H : t[h] = view[h].refs[r]
            /\ view'[x].refs[r] = RM!MergeRef(view[a].refs[r], t)
            /\ view[a].refs[r] \in RM!Target
    BY MergedRef
  <2>4. /\ \E h \in H : c \in t[h].adds
        /\ \A h \in H : c \notin t[h].removes
        /\ c \notin view[a].refs[r].removes
        /\ c \in view[a].refs[r].adds => \A h \in H : c \in t[h].adds
    <3>1. \A h \in H : c \notin t[h].removes
      BY <2>1, <2>2, <2>3 DEF Mentions
    <3>2. \E h \in H : c \in t[h].adds
      BY <1>3, <2>2, <2>3
    <3>3. c \notin view[a].refs[r].removes
      BY <2>1, <2>2 DEF Mentions
    <3>4. c \in view[a].refs[r].adds => o \in log[a].anc
      BY <2>1 DEF Mentions
    <3> QED
      BY <1>3, <2>2, <2>3, <3>1, <3>2, <3>3, <3>4
  <2>5. c \in RM!MergeRef(view[a].refs[r], t).adds
    BY <1>3, <2>3, <2>4, MergeKeepsAdded
  <2> QED
    BY <2>0, <2>3, <2>5
<1>7. Writes(o, r)
  BY <1>2, <1>4 DEF IsNews
<1> QED
  BY <1>0, <1>4, <1>5, <1>6, <1>7 DEF WrittenOK

LEMMA RefsStep ==
    ASSUME OpLogInv, OpLogInv', ViewInv, HistoriesOK, RefInv, NEW x \in OpId, Stores(x)
    PROVE  RefInv'
<1>0. NewOp(x) /\ RefsCarried
  BY DEF Stores, RefInv
<1>1. /\ x \in Stored' /\ x \notin Stored /\ Stored' = Stored \cup {x}
      /\ \A y \in Stored : log'[y] = log[y] /\ view'[y] = view[y]
      /\ \A y \in Stored : y \in log[y].anc /\ log[y].anc \subseteq Stored
  BY <1>0 DEF NewOp, OpLogInv, AncestryOK
<1>2. \A y \in Stored, r \in Ref : (Writes(y, r))' <=> Writes(y, r)
  BY <1>0, WritesSame
\* Operations stored before.
<1>3. ASSUME NEW h \in Stored, NEW r \in Ref, NEW o \in log[h].anc
      PROVE  /\ (IsNews(o, r, h))' => IsNews(o, r, h)
             /\ \A q \in Later(o, h) : q \in (Later(o, h))' /\ q \in Stored
  <2>1. log[h].anc \subseteq Stored /\ o \in Stored /\ log'[h] = log[h] /\ view'[o] = view[o]
    BY <1>1
  <2>2. (IsNews(o, r, h))' => IsNews(o, r, h)
    BY <1>1, <1>2, <2>1 DEF IsNews
  <2>3. \A q \in Later(o, h) : q \in (Later(o, h))' /\ q \in Stored
    BY <1>1, <2>1 DEF Later
  <2> QED
    BY <2>2, <2>3
<1>4. ASSUME NEW h \in Stored, NEW r \in Ref, NEW o \in log'[h].anc, (IsNews(o, r, h))'
      PROVE  \/ view'[o].refs[r].adds \subseteq view'[h].refs[r].adds
             \/ \E q \in (Later(o, h))' : (Writes(q, r))'
  <2>1. o \in log[h].anc /\ o \in Stored /\ view'[o] = view[o] /\ view'[h] = view[h]
    BY <1>1
  <2>2. \/ view[o].refs[r].adds \subseteq view[h].refs[r].adds
        \/ \E q \in Later(o, h) : Writes(q, r)
    BY <1>0, <1>3, <1>4, <2>1 DEF RefsCarried
  <2> QED
    BY <1>2, <1>3, <2>1, <2>2
\* The operation stored.
<1>5. ASSUME NEW r \in Ref, NEW o \in log'[x].anc, (IsNews(o, r, x))'
      PROVE  \/ view'[o].refs[r].adds \subseteq view'[x].refs[r].adds
             \/ \E q \in (Later(o, x))' : (Writes(q, r))'
  <2>1. CASE o = x
    BY <2>1
  <2>2. CASE o # x
    <3>0. PICK b \in log'[x].parents : o \in log'[b].anc
      BY <1>1, <2>2 DEF OpLogInv, AncestryOK
    <3>1. /\ b \in Stored /\ log'[b] = log[b] /\ o \in log[b].anc /\ o \in Stored
          /\ log[b].anc \subseteq log'[x].anc /\ x \in log'[x].anc /\ view'[o] = view[o]
      BY <1>1, <3>0 DEF OpLogInv, AncestryOK
    <3>2. CASE RootOf(x)
      BY <3>0, <3>2 DEF RootOf
    <3>3. ASSUME NEW y \in OpId, EditOf(x, y)
          PROVE  \/ view'[o].refs[r].adds \subseteq view'[x].refs[r].adds
                 \/ \E q \in (Later(o, x))' : (Writes(q, r))'
      <4>0. y = b /\ log'[x].kind = "edit"
        BY <3>0, <3>3 DEF EditOf
      <4>1. (Writes(x, r))' <=> view'[x].refs[r] # view[b].refs[r]
        BY <1>0, <3>3, <4>0, WritesSame
      <4>2. CASE view'[x].refs[r] # view[b].refs[r]
        <5>1. x \in (Later(o, x))'
          BY <1>1, <2>2, <3>1, <4>0 DEF Later
        <5> QED
          BY <4>1, <4>2, <5>1
      <4>3. CASE view'[x].refs[r] = view[b].refs[r]
        <5>1. IsNews(o, r, b)
          <6>1. Writes(o, r)
            BY <1>2, <1>5, <3>1 DEF IsNews
          <6>2. ASSUME NEW q \in log[b].anc \ {o}, Writes(q, r), view[q].refs[r] = view[o].refs[r]
                PROVE  o \in log[q].anc
            BY <1>1, <1>2, <1>5, <3>1, <6>2 DEF IsNews
          <6> QED
            BY <6>1, <6>2 DEF IsNews
        <5>2. \/ view[o].refs[r].adds \subseteq view[b].refs[r].adds
              \/ \E q \in Later(o, b) : Writes(q, r)
          BY <1>0, <3>1, <5>1 DEF RefsCarried
        <5>3. \A q \in Later(o, b) : q \in (Later(o, x))' /\ q \in Stored
          BY <1>1, <3>1 DEF Later
        <5> QED
          BY <1>2, <3>1, <4>3, <5>2, <5>3
      <4> QED
        BY <4>2, <4>3
    <3>4. ASSUME NEW H \in SUBSET OpId, NEW a \in OpId, MergeOf(x, H, a)
          PROVE  \/ view'[o].refs[r].adds \subseteq view'[x].refs[r].adds
                 \/ \E q \in (Later(o, x))' : (Writes(q, r))'
      BY <1>5, <2>2, <3>1, <3>4, MergeKeepsNews
    <3> QED
      BY <3>2, <3>3, <3>4 DEF Stores
  <2> QED
    BY <2>1, <2>2
<1>6. RefsCarried'
  BY <1>1, <1>4, <1>5 DEF RefsCarried
<1> QED
  BY <1>6, MentionsStep DEF RefInv

-----------------------------------------------------------------------------
KeptInv == TombsCarried /\ NodesCarried /\ CommitsCarried /\ RefInv

LEMMA KeptInit == ViewInit => KeptInv
<1> SUFFICES ASSUME ViewInit PROVE KeptInv
  OBVIOUS
<1>1. \A o \in Stored : log[o].kind = "init" /\ log[o].anc = {o} /\ view[o] = RootView
  BY DEF ViewInit, Init, Stored, RootRecord, Absent
<1>2. TombsCarried /\ NodesCarried /\ CommitsCarried
  BY <1>1 DEF TombsCarried, NodesCarried, CommitsCarried, Carried, Buries, Adds
<1>3. \A o \in Stored, r \in Ref : ~ Writes(o, r) /\ view[o].refs[r] = RM!Missing
  BY <1>1 DEF Writes, RootView
<1>4. RefInv
  BY <1>1, <1>3 DEF RefInv, WrittenOK, MentionedOK, DisjointOK, RefsCarried, IsNews, Mentions,
     Disjoint, RM!Missing
<1> QED
  BY <1>2, <1>4 DEF KeptInv

LEMMA KeptStep ==
    OpLogInv /\ OpLogInv' /\ ViewInv /\ ViewInv' /\ HistoriesOK /\ KeptInv /\ [ViewNext]_viewVars
      => KeptInv'
<1> SUFFICES ASSUME OpLogInv, OpLogInv', ViewInv, ViewInv', HistoriesOK, KeptInv,
                    [ViewNext]_viewVars
             PROVE  KeptInv'
  OBVIOUS
<1>1. CASE UNCHANGED <<log, view, commit>>
  <2>0. log' = log /\ view' = view /\ commit' = commit
    BY <1>1
  <2>s. Stored' = Stored
    BY <2>0 DEF Stored
  <2>1. TombsCarried'
    <3>1. \A q, n : (Buries(q, n)' <=> Buries(q, n)) /\ (Unburies(q, n)' <=> Unburies(q, n))
      BY <2>0 DEF Buries, Unburies, Before
    <3> QED
      BY <2>0, <2>s, <3>1 DEF KeptInv, TombsCarried, Carried
  <2>2. NodesCarried'
    <3>1. \A q, n : (Adds(q, n)' <=> Adds(q, n)) /\ (Removes(q, n)' <=> Removes(q, n))
      BY <2>0 DEF Adds, Removes, Before, Nodes
    <3>2. \A h : Nodes(view[h])' = Nodes(view[h])
      BY <2>0 DEF Nodes
    <3>3. \A n \in Node : /\ {o \in Stored : Adds(o, n)}' = {o \in Stored : Adds(o, n)}
                          /\ {h \in Stored : n \in Nodes(view[h])}' = {h \in Stored : n \in Nodes(view[h])}
                          /\ {q \in Stored : Removes(q, n)}' = {q \in Stored : Removes(q, n)}
      BY <2>s, <3>1, <3>2
    <3> QED
      BY <2>0, <2>s, <3>3 DEF KeptInv, NodesCarried, Carried
  <2>3. CommitsCarried'
    <3>1. \A q : MovesHead(q)' <=> MovesHead(q)
      BY <2>0 DEF MovesHead, Before
    <3>2. \A c, v : InPast(c, v)' <=> InPast(c, v)
      BY <2>0 DEF InPast
    <3> QED
      BY <2>0, <2>s, <3>1, <3>2 DEF KeptInv, CommitsCarried, Carried
  <2>4. RefInv'
    <3>0. WrittenOK /\ MentionedOK /\ DisjointOK /\ RefsCarried
      BY DEF KeptInv, RefInv
    <3>1. WrittenOK' /\ DisjointOK'
      BY <2>0, <3>0 DEF WrittenOK, DisjointOK, Writes, Before, Stored
    <3>2. MentionedOK'
      BY <2>0, <3>0 DEF MentionedOK, Writes, Before, Stored
    <3>3. RefsCarried'
      <4>1. Stored' = Stored /\ \A o, r : Writes(o, r)' <=> Writes(o, r)
        BY <2>0 DEF Stored, Writes, Before
      <4>2. \A o, h : Later(o, h)' = Later(o, h)
        BY <2>0 DEF Later
      <4>3. \A o, r, h : IsNews(o, r, h)' <=> IsNews(o, r, h)
        BY <2>0, <4>1 DEF IsNews
      <4> QED
        BY <2>0, <3>0, <4>1, <4>2, <4>3 DEF RefsCarried
    <3> QED
      BY <3>1, <3>2, <3>3 DEF RefInv
  <2> QED
    BY <2>1, <2>2, <2>3, <2>4 DEF KeptInv
<1>2. ASSUME NEW x \in OpId, Stores(x) PROVE KeptInv'
  BY <1>2, TombsStep, NodesStep, CommitsStep, RefsStep DEF KeptInv
<1> QED
  BY <1>1, <1>2, StepStores DEF HistoriesOK

LEMMA KeptInvariance == ViewSpec => [](OpLogInv /\ KeptInv)
<1> DEFINE I == OpLogInv /\ ViewInv /\ HistoriesOK
<1>1. I /\ I' /\ KeptInv /\ [ViewNext]_viewVars => KeptInv'
  BY KeptStep
<1>2. ViewSpec => []I
  BY ViewInvariance
<1>3. I => OpLogInv
  OBVIOUS
<1> HIDE DEF I
<1> QED
  BY <1>1, <1>2, <1>3, KeptInit, PTL DEF ViewSpec

\* A node that a commit added is in the head commit of every head that descends
\* from it, however many merges lie between, unless a later edit that saw it removed
\* it or moved the head.
THEOREM NodesAreKept == ViewSpec => []NodesKept
<1>1. OpLogInv /\ KeptInv => NodesKept
  <2> SUFFICES ASSUME OpLogInv, KeptInv, NEW h \in heads, NEW n \in Node, NEW o \in log[h].anc,
                      Adds(o, n), n \notin Nodes(view[h])
               PROVE  \E q \in Later(o, h) : Removes(q, n)
    BY DEF NodesKept
  <2>1. h \in Stored /\ o \in Stored
    BY DEF OpLogInv, HeadsOK, AncestryOK
  <2>2. NodesCarried
    BY DEF KeptInv
  <2> QED
    BY <2>1, <2>2 DEF NodesCarried, Carried, Later
<1> QED
  BY <1>1, KeptInvariance, PTL

\* A tombstone is durable: it survives every merge, until an edit that saw it takes
\* it away.
THEOREM TombstonesAreKept == ViewSpec => []TombstonesKept
<1>1. OpLogInv /\ KeptInv => TombstonesKept
  <2> SUFFICES ASSUME OpLogInv, KeptInv, NEW h \in heads, NEW n \in Node, NEW o \in log[h].anc,
                      Buries(o, n), n \notin view[h].tombs
               PROVE  \E q \in Later(o, h) : Unburies(q, n)
    BY DEF TombstonesKept
  <2>1. h \in Stored /\ o \in Stored
    BY DEF OpLogInv, HeadsOK, AncestryOK
  <2>2. TombsCarried
    BY DEF KeptInv
  <2> QED
    BY <2>1, <2>2 DEF TombsCarried, Carried, Later
<1> QED
  BY <1>1, KeptInvariance, PTL

\* The history of commits follows that of operations: a commit made in the past of a
\* head is in the past of its head commit, unless a later edit moved the head.
THEOREM CommitsAreKept == ViewSpec => []CommitsKept
<1>1. OpLogInv /\ KeptInv => CommitsKept
  <2> SUFFICES ASSUME OpLogInv, KeptInv, NEW h \in heads, NEW o \in log[h].anc,
                      log[o].kind = "edit", view[o].head = o,
                      ~ (view[h].head # NoOp /\ o \in commit[view[h].head].anc)
               PROVE  \E q \in Later(o, h) : MovesHead(q)
    BY DEF CommitsKept
  <2>1. h \in Stored /\ o \in Stored /\ o \in OpId
    BY DEF OpLogInv, HeadsOK, AncestryOK, Stored
  <2>2. CommitsCarried
    BY DEF KeptInv
  <2>3. h \notin {y \in Stored : InPast(o, view[y])}
    BY DEF InPast
  <2> QED
    BY <2>1, <2>2, <2>3 DEF CommitsCarried, Carried, Later
<1> QED
  BY <1>1, KeptInvariance, PTL

\* A change to a ref is a value or a candidate of the ref in every head that descends
\* from it, whichever common ancestors the merges between counted from, unless a later
\* edit that saw it wrote the ref again.
THEOREM RefChangesAreKept == ViewSpec => []RefChangesKept
<1>1. OpLogInv /\ KeptInv => RefChangesKept
  BY DEF OpLogInv, HeadsOK, KeptInv, RefInv, RefsCarried, RefChangesKept
<1> QED
  BY <1>1, KeptInvariance, PTL
=============================================================================
