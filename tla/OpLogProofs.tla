---------------------------- MODULE OpLogProofs ----------------------------
(***************************************************************************)
(* Proofs about OpLog, for any number of processes, operations and edits.  *)
(***************************************************************************)
EXTENDS OpLog, TLAPS

-----------------------------------------------------------------------------
(***************************************************************************)
(* Types.                                                                  *)
(***************************************************************************)

\* The records the writers put are operations.
LEMMA RecordTypes ==
    ASSUME TypeOK
    PROVE  /\ \A o \in OpId : RootRecord(o) \in OpRecord
           /\ \A o, b \in OpId, lin \in BOOLEAN : EditRecord(o, b, lin) \in OpRecord
           /\ \A o \in OpId, H \in SUBSET OpId : MergeRecord(o, H) \in OpRecord
           /\ Absent \in OpRecord
<1>1. \A o \in OpId : log[o].anc \in SUBSET OpId
  BY DEF TypeOK, OpRecord
<1> QED
  BY <1>1 DEF RootRecord, EditRecord, MergeRecord, Absent, OpRecord, Kinds

\* A new operation has a name that none had before.
LEMMA FreshIsNew == \A o \in Fresh : o \in OpId \ Stored
BY DEF Fresh, Stored

LEMMA TypeInit == Init => TypeOK
BY OpLogAssumption DEF Init, TypeOK, RootRecord, Absent, OpRecord, Kinds, PCs

LEMMA TypeStep == TypeOK /\ [Next]_vars => TypeOK'
<1> SUFFICES ASSUME TypeOK, [Next]_vars PROVE TypeOK'
  OBVIOUS
<1> USE OpLogAssumption, FreshIsNew, RecordTypes
<1>1. ASSUME NEW p \in Proc, OpenUninitialized(p) PROVE TypeOK'
  BY <1>1 DEF OpenUninitialized, TypeOK, PCs
<1>2. ASSUME NEW p \in Proc, OpenSingle(p) PROVE TypeOK'
  BY <1>2 DEF OpenSingle, Pin, TypeOK, PCs
<1>3. ASSUME NEW p \in Proc, OpenMany(p) PROVE TypeOK'
  BY <1>3 DEF OpenMany, TypeOK, PCs
<1>4. ASSUME NEW p \in Proc, WriteRoot(p) PROVE TypeOK'
  BY <1>4 DEF WriteRoot, PutOp, TypeOK, PCs
<1>5. ASSUME NEW p \in Proc, PublishRoot(p) PROVE TypeOK'
  BY <1>5 DEF PublishRoot, Publish, Update, Pin, TypeOK, PCs
<1>6. ASSUME NEW p \in Proc, WriteMerge(p) PROVE TypeOK'
  BY <1>6 DEF WriteMerge, PutOp, TypeOK, PCs
<1>7. ASSUME NEW p \in Proc, MergeFails(p) PROVE TypeOK'
  BY <1>7 DEF MergeFails, TypeOK, PCs
<1>8. ASSUME NEW p \in Proc, PublishMerge(p) PROVE TypeOK'
  BY <1>8 DEF PublishMerge, Publish, Update, Pin, TypeOK, PCs
<1>9. ASSUME NEW p \in Proc, NEW lin \in BOOLEAN, WriteEdit(p, lin) PROVE TypeOK'
  BY <1>9 DEF WriteEdit, PutOp, TypeOK, PCs
<1>10. ASSUME NEW p \in Proc, LinearizeCheck(p) PROVE TypeOK'
  BY <1>10 DEF LinearizeCheck, TypeOK, PCs
<1>11. ASSUME NEW p \in Proc, LinearizeStale(p) PROVE TypeOK'
  BY <1>11 DEF LinearizeStale, TypeOK, PCs
<1>12. ASSUME NEW p \in Proc, PublishEdit(p) PROVE TypeOK'
  BY <1>12 DEF PublishEdit, Publish, Update, Pin, TypeOK, PCs
<1>13. ASSUME NEW p \in Proc, NEW q \in Proc, CloneHandle(p, q) PROVE TypeOK'
  BY <1>13 DEF CloneHandle, Pin, TypeOK, PCs
<1>14. ASSUME NEW p \in Proc, Drop(p) PROVE TypeOK'
  BY <1>14 DEF Drop, TypeOK, PCs
<1>15. CASE UNCHANGED vars
  BY <1>15 DEF vars, TypeOK, PCs
<1> QED
  BY <1>1, <1>2, <1>3, <1>4, <1>5, <1>6, <1>7, <1>8, <1>9, <1>10, <1>11,
     <1>12, <1>13, <1>14, <1>15 DEF Next, Open, Merge, Write

\* Every variable keeps its type, and a process holds a base or a pending
\* operation exactly at the points of a call where the code does.
THEOREM TypeCorrect == Spec => []TypeOK
BY TypeInit, TypeStep, PTL DEF Spec

-----------------------------------------------------------------------------
(***************************************************************************)
(* No operation is lost.  The invariant adds to the types: what a stored   *)
(* operation's ancestors are, that everything a process or the op-heads    *)
(* hold is stored (or published), and that a pending operation is a child  *)
(* of exactly the operations it is about to supersede.                     *)
(***************************************************************************)
AncestryOK ==
    \A o \in Stored :
        /\ o \in log[o].anc /\ o \notin log[o].parents
        /\ log[o].parents \subseteq log[o].anc
        /\ log[o].anc \subseteq {o} \cup UNION {log[q].anc : q \in log[o].parents}
        /\ \A a \in log[o].anc : a \in Stored /\ log[a].anc \subseteq log[o].anc

HeadsOK == heads \subseteq published /\ published \subseteq Stored

HandlesOK ==
    \A p \in Proc :
        /\ base[p] # NoOp => base[p] \in published
        /\ seen[p] \subseteq published
        /\ new[p] # NoOp => new[p] \in Stored

PendingOK ==
    \A p \in Proc :
        /\ pc[p] = "rooted" => log[new[p]].parents = {}
        /\ pc[p] \in {"staged", "ready"} => log[new[p]].parents = {base[p]}
        /\ pc[p] = "merged" => log[new[p]].parents = seen[p]

OpLogInv == TypeOK /\ AncestryOK /\ HeadsOK /\ HandlesOK /\ PendingOK /\ NoOpLost

-----------------------------------------------------------------------------
(***************************************************************************)
(* Storing an operation disturbs nothing that was stored.                  *)
(***************************************************************************)
LEMMA PutKeeps ==
    ASSUME OpLogInv, TypeOK',
           NEW o \in OpId, o \notin Stored,
           NEW r \in OpRecord, PutOp(o, r),
           r.kind # "none",
           r.parents \subseteq published,
           r.anc = {o} \cup UNION {log[q].anc : q \in r.parents},
           UNCHANGED <<heads, published>>
    PROVE  /\ AncestryOK' /\ HeadsOK' /\ NoOpLost'
           /\ Stored' = Stored \cup {o}
           /\ log'[o] = r
           /\ \A a \in Stored : log'[a] = log[a]
<1>1. /\ log'[o] = r
      /\ \A a \in OpId \ {o} : log'[a] = log[a]
  BY DEF PutOp, OpLogInv, TypeOK
<1>2. Stored' = Stored \cup {o}
  BY <1>1 DEF Stored
<1>3. \A a \in Stored : log'[a] = log[a]
  BY <1>1 DEF Stored
<1>4. r.parents \subseteq Stored /\ r.anc \subseteq Stored \cup {o}
  BY DEF OpLogInv, HeadsOK, AncestryOK
<1>5. AncestryOK'
  <2> SUFFICES ASSUME NEW x \in Stored'
               PROVE  /\ x \in log'[x].anc /\ x \notin log'[x].parents
                      /\ log'[x].parents \subseteq log'[x].anc
                      /\ log'[x].anc \subseteq {x} \cup UNION {log'[q].anc : q \in log'[x].parents}
                      /\ \A a \in log'[x].anc : a \in Stored' /\ log'[a].anc \subseteq log'[x].anc
    BY DEF AncestryOK
  <2>1. CASE x = o
    <3>1. \A q \in r.parents : log'[q] = log[q] /\ q \in log[q].anc
      BY <1>3, <1>4 DEF OpLogInv, AncestryOK
    <3>2. \A a \in r.anc \ {o} : log'[a] = log[a] /\ log[a].anc \subseteq r.anc
      BY <1>3, <1>4 DEF OpLogInv, AncestryOK
    <3> QED
      BY <1>1, <1>2, <1>4, <2>1, <3>1, <3>2
  <2>2. CASE x # o
    <3>1. x \in Stored /\ log'[x] = log[x]
      BY <1>2, <1>3, <2>2
    <3>2. \A a \in log[x].anc : a \in Stored /\ log'[a] = log[a]
      BY <1>3, <3>1 DEF OpLogInv, AncestryOK
    <3>3. \A q \in log[x].parents : log'[q] = log[q]
      BY <3>1, <3>2 DEF OpLogInv, AncestryOK
    <3> QED
      BY <1>2, <3>1, <3>2, <3>3 DEF OpLogInv, AncestryOK
  <2> QED
    BY <2>1, <2>2
<1>6. HeadsOK'
  BY <1>2 DEF OpLogInv, HeadsOK
<1>7. Reach' = Reach
  BY <1>3 DEF OpLogInv, HeadsOK, Reach
<1>8. NoOpLost'
  BY <1>7 DEF OpLogInv, NoOpLost
<1> QED
  BY <1>1, <1>2, <1>3, <1>5, <1>6, <1>8

(***************************************************************************)
(* Publishing an operation over its parents adds its ancestors to what the *)
(* heads reach and takes nothing away: a head that is superseded is among  *)
(* them.                                                                   *)
(***************************************************************************)
LEMMA PublishReach ==
    ASSUME OpLogInv,
           NEW o \in Stored,
           Publish(o, log[o].parents),
           UNCHANGED log
    PROVE  Reach' = Reach \cup log[o].anc
<1>1. o \in heads'
  BY DEF Publish, Update, OpLogInv, AncestryOK
<1>2. \A h \in heads \ heads' : log[h].anc \subseteq log[o].anc
  BY DEF Publish, Update, OpLogInv, AncestryOK
<1>3. Reach \cup log[o].anc \subseteq Reach'
  BY <1>1, <1>2 DEF Reach
<1>4. Reach' \subseteq Reach \cup log[o].anc
  BY DEF Reach, Publish, Update
<1> QED
  BY <1>3, <1>4

LEMMA PublishKeeps ==
    ASSUME OpLogInv,
           NEW o \in Stored,
           Publish(o, log[o].parents),
           UNCHANGED log
    PROVE  AncestryOK' /\ HeadsOK' /\ NoOpLost' /\ o \in published'
<1>1. Stored' = Stored
  BY DEF Stored
<1>2. AncestryOK'
  BY <1>1 DEF OpLogInv, AncestryOK
<1>3. HeadsOK' /\ o \in published'
  BY <1>1 DEF OpLogInv, HeadsOK, Publish, Update
<1>4. NoOpLost'
  BY PublishReach DEF NoOpLost, OpLogInv, Publish, AncestryOK
<1> QED
  BY <1>2, <1>3, <1>4


LEMMA InvInit == Init => OpLogInv
<1> SUFFICES ASSUME Init PROVE OpLogInv
  OBVIOUS
<1>1. TypeOK
  BY TypeInit
<1>2. Stored = heads /\ published = heads
  BY OpLogAssumption DEF Init, Stored, RootRecord, Absent
<1>3. \A o \in Stored : o = Root /\ log[o] = RootRecord(Root)
  BY <1>2, OpLogAssumption DEF Init
<1>4. AncestryOK
  BY <1>3 DEF AncestryOK, RootRecord
<1>5. HeadsOK
  BY <1>2 DEF HeadsOK
<1>6. HandlesOK /\ PendingOK
  BY DEF Init, HandlesOK, PendingOK
<1>7. NoOpLost
  BY <1>2, <1>4 DEF NoOpLost, Reach, AncestryOK
<1> QED
  BY <1>1, <1>4, <1>5, <1>6, <1>7 DEF OpLogInv

LEMMA InvStep == OpLogInv /\ [Next]_vars => OpLogInv'
<1> SUFFICES ASSUME OpLogInv, [Next]_vars PROVE OpLogInv'
  OBVIOUS
<1>0. TypeOK /\ TypeOK'
  BY TypeStep DEF OpLogInv
<1> USE OpLogAssumption, FreshIsNew, <1>0
\* Steps that touch neither the log nor the heads.
<1>a. ASSUME UNCHANGED <<log, heads, published>>
      PROVE  AncestryOK' /\ HeadsOK' /\ NoOpLost' /\ Stored' = Stored
  BY <1>a DEF OpLogInv, AncestryOK, HeadsOK, NoOpLost, Reach, Stored
<1>1. ASSUME NEW p \in Proc, OpenUninitialized(p) PROVE OpLogInv'
  <2>1. HandlesOK' /\ PendingOK'
    BY <1>1, <1>a DEF OpenUninitialized, OpLogInv, HandlesOK, PendingOK, TypeOK
  <2> QED
    BY <1>1, <1>a, <2>1 DEF OpenUninitialized, OpLogInv
<1>2. ASSUME NEW p \in Proc, OpenSingle(p) PROVE OpLogInv'
  <2>1. HandlesOK' /\ PendingOK'
    BY <1>2, <1>a DEF OpenSingle, Pin, OpLogInv, HandlesOK, HeadsOK, PendingOK, TypeOK
  <2> QED
    BY <1>2, <1>a, <2>1 DEF OpenSingle, OpLogInv
<1>3. ASSUME NEW p \in Proc, OpenMany(p) PROVE OpLogInv'
  <2>1. HandlesOK' /\ PendingOK'
    BY <1>3, <1>a DEF OpenMany, OpLogInv, HandlesOK, HeadsOK, PendingOK, TypeOK
  <2> QED
    BY <1>3, <1>a, <2>1 DEF OpenMany, OpLogInv
<1>4. ASSUME NEW p \in Proc, WriteRoot(p) PROVE OpLogInv'
  <2> PICK o \in Fresh : PutOp(o, RootRecord(o)) /\ new' = [new EXCEPT ![p] = o]
    BY <1>4 DEF WriteRoot
  <2>1. /\ AncestryOK' /\ HeadsOK' /\ NoOpLost'
        /\ Stored' = Stored \cup {o}
        /\ log'[o] = RootRecord(o)
        /\ \A a \in Stored : log'[a] = log[a]
    <3> DEFINE r == RootRecord(o)
    <3>1. /\ r \in OpRecord /\ r.kind # "none" /\ r.parents = {} /\ r.anc = {o}
      BY RecordTypes DEF RootRecord
    <3> HIDE DEF r
    <3>2. r.anc = {o} \cup UNION {log[q].anc : q \in r.parents}
      BY <3>1
    <3>3. PutOp(o, r) /\ UNCHANGED <<heads, published>>
      BY <1>4 DEF r, WriteRoot
    <3>4. r.parents \subseteq published
      BY <3>1
    <3>5. /\ AncestryOK' /\ HeadsOK' /\ NoOpLost' /\ Stored' = Stored \cup {o}
          /\ log'[o] = r /\ \A a \in Stored : log'[a] = log[a]
      BY <3>1, <3>2, <3>3, <3>4, PutKeeps
    <3> QED
      BY <3>5 DEF r
  <2>2. HandlesOK'
    BY <1>4, <2>1 DEF WriteRoot, OpLogInv, HandlesOK, TypeOK
  <2>3. PendingOK'
    BY <1>4, <2>1 DEF WriteRoot, OpLogInv, HandlesOK, PendingOK, TypeOK, RootRecord
  <2> QED
    BY <2>1, <2>2, <2>3 DEF OpLogInv
<1>5. ASSUME NEW p \in Proc, PublishRoot(p) PROVE OpLogInv'
  <2>1. new[p] \in Stored /\ log[new[p]].parents = {}
    BY <1>5 DEF PublishRoot, OpLogInv, HandlesOK, PendingOK, TypeOK
  <2>2. AncestryOK' /\ HeadsOK' /\ NoOpLost' /\ new[p] \in published' /\ published \subseteq published'
    BY <1>5, <2>1, PublishKeeps DEF PublishRoot, Publish
  <2>3. HandlesOK' /\ PendingOK'
    BY <1>5, <2>2 DEF PublishRoot, Pin, OpLogInv, HandlesOK, PendingOK, TypeOK, Stored
  <2> QED
    BY <2>2, <2>3 DEF OpLogInv
<1>6. ASSUME NEW p \in Proc, WriteMerge(p) PROVE OpLogInv'
  <2> PICK o \in OpId :
        /\ IF MergeOps(seen[p]) # {}
           THEN o \in MergeOps(seen[p]) /\ UNCHANGED log
           ELSE o \notin Stored /\ PutOp(o, MergeRecord(o, seen[p]))
        /\ new' = [new EXCEPT ![p] = o]
    BY <1>6 DEF WriteMerge
  <2>1. /\ AncestryOK' /\ HeadsOK' /\ NoOpLost'
        /\ Stored \subseteq Stored' /\ o \in Stored'
        /\ log'[o].parents = seen[p]
        /\ \A a \in Stored : log'[a] = log[a]
    <3>1. CASE MergeOps(seen[p]) # {}
      BY <1>6, <1>a, <3>1 DEF WriteMerge, MergeOps
    <3>2. CASE MergeOps(seen[p]) = {}
      <4> DEFINE r == MergeRecord(o, seen[p])
      <4>1. /\ r \in OpRecord /\ r.kind # "none" /\ r.parents = seen[p]
            /\ r.anc = {o} \cup UNION {log[q].anc : q \in r.parents}
        <5>1. seen[p] \in SUBSET OpId
          BY DEF TypeOK
        <5> QED
          BY <5>1, RecordTypes DEF MergeRecord
      <4> HIDE DEF r
      <4>2. r.parents \subseteq published
        BY <4>1 DEF OpLogInv, HandlesOK
      <4>3. o \notin Stored /\ PutOp(o, r) /\ UNCHANGED <<heads, published>>
        BY <1>6, <3>2 DEF r, WriteMerge
      <4> QED
        BY <4>1, <4>2, <4>3, PutKeeps
    <3> QED
      BY <3>1, <3>2
  <2>2. HandlesOK'
    BY <1>6, <2>1 DEF WriteMerge, OpLogInv, HandlesOK, TypeOK
  <2>3. PendingOK'
    BY <1>6, <2>1 DEF WriteMerge, OpLogInv, HandlesOK, PendingOK, TypeOK
  <2> QED
    BY <2>1, <2>2, <2>3 DEF OpLogInv
<1>7. ASSUME NEW p \in Proc, MergeFails(p) PROVE OpLogInv'
  <2>1. HandlesOK' /\ PendingOK'
    BY <1>7, <1>a DEF MergeFails, OpLogInv, HandlesOK, PendingOK, TypeOK
  <2> QED
    BY <1>7, <1>a, <2>1 DEF MergeFails, OpLogInv
<1>8. ASSUME NEW p \in Proc, PublishMerge(p) PROVE OpLogInv'
  <2>1. new[p] \in Stored /\ log[new[p]].parents = seen[p]
    BY <1>8 DEF PublishMerge, OpLogInv, HandlesOK, PendingOK, TypeOK
  <2>2. AncestryOK' /\ HeadsOK' /\ NoOpLost' /\ new[p] \in published' /\ published \subseteq published'
    BY <1>8, <2>1, PublishKeeps DEF PublishMerge, Publish
  <2>3. HandlesOK' /\ PendingOK'
    BY <1>8, <2>2 DEF PublishMerge, Pin, OpLogInv, HandlesOK, PendingOK, TypeOK, Stored
  <2> QED
    BY <2>2, <2>3 DEF OpLogInv
<1>9. ASSUME NEW p \in Proc, NEW lin \in BOOLEAN, WriteEdit(p, lin) PROVE OpLogInv'
  <2> PICK o \in Fresh :
        PutOp(o, EditRecord(o, base[p], lin)) /\ new' = [new EXCEPT ![p] = o]
    BY <1>9 DEF WriteEdit
  <2>1. base[p] \in published /\ base[p] \in OpId
    BY <1>9 DEF WriteEdit, OpLogInv, HandlesOK, TypeOK
  <2>2. /\ AncestryOK' /\ HeadsOK' /\ NoOpLost'
        /\ Stored' = Stored \cup {o}
        /\ log'[o].parents = {base[p]}
        /\ \A a \in Stored : log'[a] = log[a]
    <3> DEFINE r == EditRecord(o, base[p], lin)
    <3>1. /\ r \in OpRecord /\ r.kind # "none" /\ r.parents = {base[p]}
          /\ r.anc = {o} \cup log[base[p]].anc
      BY <2>1, RecordTypes DEF EditRecord
    <3>2. PutOp(o, r) /\ UNCHANGED <<heads, published>>
      BY <1>9 DEF WriteEdit
    <3> HIDE DEF r
    <3>3. r.parents \subseteq published
      BY <2>1, <3>1
    <3>4. r.anc = {o} \cup UNION {log[q].anc : q \in r.parents}
      BY <3>1
    <3> QED
      BY <3>1, <3>2, <3>3, <3>4, PutKeeps
  <2>3. HandlesOK'
    BY <1>9, <2>2 DEF WriteEdit, OpLogInv, HandlesOK, TypeOK
  <2>4. PendingOK'
    BY <1>9, <2>2 DEF WriteEdit, OpLogInv, HandlesOK, PendingOK, TypeOK
  <2> QED
    BY <2>2, <2>3, <2>4 DEF OpLogInv
<1>10. ASSUME NEW p \in Proc, LinearizeCheck(p) PROVE OpLogInv'
  <2>1. HandlesOK' /\ PendingOK'
    BY <1>10, <1>a DEF LinearizeCheck, OpLogInv, HandlesOK, PendingOK, TypeOK
  <2> QED
    BY <1>10, <1>a, <2>1 DEF LinearizeCheck, OpLogInv
<1>11. ASSUME NEW p \in Proc, LinearizeStale(p) PROVE OpLogInv'
  <2>1. HandlesOK' /\ PendingOK'
    BY <1>11, <1>a DEF LinearizeStale, OpLogInv, HandlesOK, PendingOK, TypeOK
  <2> QED
    BY <1>11, <1>a, <2>1 DEF LinearizeStale, OpLogInv
<1>12. ASSUME NEW p \in Proc, PublishEdit(p) PROVE OpLogInv'
  <2>1. new[p] \in Stored /\ log[new[p]].parents = {base[p]}
    BY <1>12 DEF PublishEdit, OpLogInv, HandlesOK, PendingOK, TypeOK
  <2>2. AncestryOK' /\ HeadsOK' /\ NoOpLost' /\ new[p] \in published' /\ published \subseteq published'
    BY <1>12, <2>1, PublishKeeps DEF PublishEdit, Publish
  <2>3. HandlesOK' /\ PendingOK'
    BY <1>12, <2>2 DEF PublishEdit, Pin, OpLogInv, HandlesOK, PendingOK, TypeOK, Stored
  <2> QED
    BY <2>2, <2>3 DEF OpLogInv
<1>13. ASSUME NEW p \in Proc, NEW q \in Proc, CloneHandle(p, q) PROVE OpLogInv'
  <2>1. HandlesOK' /\ PendingOK'
    BY <1>13, <1>a DEF CloneHandle, Pin, OpLogInv, HandlesOK, PendingOK, TypeOK
  <2> QED
    BY <1>13, <1>a, <2>1 DEF CloneHandle, OpLogInv
<1>14. ASSUME NEW p \in Proc, Drop(p) PROVE OpLogInv'
  <2>1. HandlesOK' /\ PendingOK'
    BY <1>14, <1>a DEF Drop, OpLogInv, HandlesOK, PendingOK, TypeOK
  <2> QED
    BY <1>14, <1>a, <2>1 DEF Drop, OpLogInv
<1>15. CASE UNCHANGED vars
  <2>1. HandlesOK' /\ PendingOK'
    BY <1>15, <1>a DEF vars, OpLogInv, HandlesOK, PendingOK
  <2> QED
    BY <1>15, <1>a, <2>1 DEF vars, OpLogInv
<1> QED
  BY <1>1, <1>2, <1>3, <1>4, <1>5, <1>6, <1>7, <1>8, <1>9, <1>10, <1>11,
     <1>12, <1>13, <1>14, <1>15 DEF Next, Open, Merge, Write

LEMMA Invariance == Spec => []OpLogInv
BY InvInit, InvStep, PTL DEF Spec

\* Whatever init, a commit, a ref update or a merge published stays reachable
\* from the heads, through any interleaving and any stale handle: an op-heads
\* update removes only the parents of the operation it adds.
THEOREM NothingLost == Spec => []NoOpLost
BY Invariance, PTL DEF OpLogInv

\* The walk over parents from any head ends in stored operations, at every
\* instant: every writer stores an operation before it publishes it.
THEOREM WalksAreComplete == Spec => []WalkNeverMisses
<1>1. OpLogInv => WalkNeverMisses
  BY DEF OpLogInv, WalkNeverMisses, AncestryOK, HeadsOK
<1> QED
  BY <1>1, Invariance, PTL

-----------------------------------------------------------------------------
(***************************************************************************)
(* The log implements the append-only causal history: publishing an        *)
(* operation appends it, everything else leaves the history alone.  An     *)
(* operation already in the history (a merge published again by a slower   *)
(* reader) adds nothing.                                                   *)
(***************************************************************************)
LEMMA PublishAppends ==
    ASSUME OpLogInv,
           NEW o \in Stored,
           Publish(o, log[o].parents),
           log[o].parents \subseteq published,
           UNCHANGED log
    PROVE  [History!Next]_History!hvars
<1> DEFINE cause(R) == [x \in OpId |-> IF x \in R THEN log[x].parents ELSE {}]
<1>1. Reach' = Reach \cup log[o].anc
  BY PublishReach
<1>2. \A h \in published : log[h].anc \subseteq Reach
  BY DEF OpLogInv, NoOpLost, Reach, HeadsOK, AncestryOK
<1>3. log[o].anc \subseteq {o} \cup Reach
  BY <1>2 DEF OpLogInv, AncestryOK
<1>4. o \in log[o].anc
  BY DEF OpLogInv, AncestryOK
<1>5. CASE o \in Reach
  BY <1>1, <1>3, <1>5 DEF History!hvars
<1>6. CASE o \notin Reach
  <2>1. Reach' = Reach \cup {o}
    BY <1>1, <1>3, <1>4
  <2>2. o \in OpId /\ log[o].parents \in SUBSET OpId
    BY DEF Stored, OpLogInv, TypeOK, OpRecord
  <2>3. log[o].parents \subseteq Reach
    BY DEF OpLogInv, NoOpLost
  <2>4. cause(Reach \cup {o}) = [cause(Reach) EXCEPT ![o] = log[o].parents]
    BY <2>2
  <2>5. History!Append(o, log[o].parents)
    BY <1>6, <2>1, <2>3, <2>4 DEF History!Append
  <2>6. History!Next
    BY <2>2, <2>5 DEF History!Next, History!Append
  <2> QED
    BY <2>6
<1> QED
  BY <1>5, <1>6

LEMMA HistoryInit == Init => History!Init
<1> SUFFICES ASSUME Init PROVE History!Init
  OBVIOUS
<1>1. heads = {} \/ heads = {Root}
  BY DEF Init
<1>2. Seeded /\ heads = {Root} => log[Root] = RootRecord(Root)
  BY OpLogAssumption DEF Init
<1>3. CASE Seeded
  <2>1. Reach = {Root} /\ log[Root].parents = {}
    BY <1>2, <1>3 DEF Init, Reach, RootRecord
  <2> QED
    BY <2>1, OpLogAssumption DEF History!Init
<1>4. CASE ~Seeded
  <2>1. Reach = {}
    BY <1>4 DEF Init, Reach
  <2> QED
    BY <2>1 DEF History!Init
<1> QED
  BY <1>3, <1>4

LEMMA HistoryStep == OpLogInv /\ OpLogInv' /\ [Next]_vars => [History!Next]_History!hvars
<1> SUFFICES ASSUME OpLogInv, OpLogInv', [Next]_vars PROVE [History!Next]_History!hvars
  OBVIOUS
<1> USE OpLogAssumption, FreshIsNew
<1>a. ASSUME UNCHANGED heads, \A x \in Stored : log'[x] = log[x]
      PROVE  UNCHANGED History!hvars
  <2>1. Reach' = Reach /\ Reach \subseteq Stored
    BY <1>a DEF Reach, OpLogInv, HeadsOK, AncestryOK
  <2> QED
    BY <1>a, <2>1 DEF History!hvars
<1>b. ASSUME NEW o \in OpId \ Stored, NEW r, PutOp(o, r)
      PROVE  \A x \in Stored : log'[x] = log[x]
  BY <1>b DEF PutOp, OpLogInv, TypeOK, Stored
<1>1. ASSUME NEW p \in Proc, Open(p) PROVE UNCHANGED History!hvars
  BY <1>1, <1>a DEF Open, OpenUninitialized, OpenSingle, OpenMany
<1>2. ASSUME NEW p \in Proc, WriteRoot(p) PROVE UNCHANGED History!hvars
  BY <1>2, <1>a, <1>b DEF WriteRoot
<1>3. ASSUME NEW p \in Proc, WriteMerge(p) PROVE UNCHANGED History!hvars
  BY <1>3, <1>a, <1>b DEF WriteMerge
<1>4. ASSUME NEW p \in Proc, MergeFails(p) PROVE UNCHANGED History!hvars
  BY <1>4, <1>a DEF MergeFails
<1>5. ASSUME NEW p \in Proc, NEW lin \in BOOLEAN, WriteEdit(p, lin)
      PROVE  UNCHANGED History!hvars
  BY <1>5, <1>a, <1>b DEF WriteEdit
<1>6. ASSUME NEW p \in Proc, LinearizeCheck(p) \/ LinearizeStale(p) \/ Drop(p)
      PROVE  UNCHANGED History!hvars
  BY <1>6, <1>a DEF LinearizeCheck, LinearizeStale, Drop
<1>7. ASSUME NEW p \in Proc, NEW q \in Proc, CloneHandle(p, q)
      PROVE  UNCHANGED History!hvars
  BY <1>7, <1>a DEF CloneHandle
<1>8. ASSUME NEW p \in Proc, PublishRoot(p) \/ PublishMerge(p) \/ PublishEdit(p)
      PROVE  [History!Next]_History!hvars
  <2>1. new[p] \in Stored /\ UNCHANGED log
    BY <1>8 DEF PublishRoot, PublishMerge, PublishEdit, OpLogInv, HandlesOK, TypeOK
  <2>2. \E S \in SUBSET published : log[new[p]].parents = S /\ Publish(new[p], S)
    <3>1. CASE PublishRoot(p)
      BY <3>1 DEF PublishRoot, OpLogInv, PendingOK
    <3>2. CASE PublishMerge(p)
      BY <3>2 DEF PublishMerge, OpLogInv, PendingOK, HandlesOK
    <3>3. CASE PublishEdit(p)
      <4>1. pc[p] = "ready" /\ Publish(new[p], {base[p]})
        BY <3>3 DEF PublishEdit
      <4>2. log[new[p]].parents = {base[p]}
        BY <4>1 DEF OpLogInv, PendingOK
      <4>3. base[p] \in published
        BY <4>1 DEF OpLogInv, HandlesOK, TypeOK
      <4> QED
        BY <4>1, <4>2, <4>3
    <3> QED
      BY <1>8, <3>1, <3>2, <3>3
  <2> QED
    BY <2>1, <2>2, PublishAppends
<1>9. CASE UNCHANGED vars
  BY <1>9, <1>a DEF vars
<1> QED
  BY <1>1, <1>2, <1>3, <1>4, <1>5, <1>6, <1>7, <1>8, <1>9
  DEF Next, Merge, Write

\* The op-heads protocol implements an append-only causal history: every step
\* of every process appends one operation on top of the history or changes
\* nothing that a reader of the heads can see.
THEOREM HistoryRefinement == Spec => HistoryOnlyGrows
<1>1. Spec => History!Spec
  BY HistoryInit, HistoryStep, Invariance, PTL DEF Spec, History!Spec
<1> QED
  BY <1>1 DEF HistoryOnlyGrows

-----------------------------------------------------------------------------
(***************************************************************************)
(* One root.  Every published operation descends from a published root:    *)
(* edits and merges descend from what they supersede, and whoever merges   *)
(* has read a head.                                                        *)
(***************************************************************************)
RootedOK == \A o \in published : \E r \in Roots : r \in log[o].anc

RootInv ==
    /\ RootedOK
    /\ \A p \in Proc : /\ pc[p] = "rooted" => log[new[p]].kind = "init"
                       /\ pc[p] \in {"merging", "merged"} => seen[p] # {}

LEMMA RootInit == Init => RootInv
<1> SUFFICES ASSUME Init PROVE RootInv
  OBVIOUS
<1>1. CASE Seeded
  <2>1. Root \in Roots /\ Root \in log[Root].anc /\ published = {Root}
    BY <1>1, OpLogAssumption DEF Init, Roots, RootRecord
  <2> QED
    BY <2>1 DEF Init, RootInv, RootedOK
<1>2. CASE ~Seeded
  BY <1>2 DEF Init, RootInv, RootedOK
<1> QED
  BY <1>1, <1>2

\* An operation stored beside the published ones changes none of them.
LEMMA RootedByStoring ==
    ASSUME OpLogInv, RootedOK, UNCHANGED published, \A x \in Stored : log'[x] = log[x]
    PROVE  RootedOK'
BY DEF RootedOK, Roots, OpLogInv, HeadsOK

\* An operation that is published is a root or descends from a published one.
LEMMA RootedByPublishing ==
    ASSUME OpLogInv, RootedOK, UNCHANGED log, NEW o \in Stored, published' = published \cup {o},
           log[o].kind = "init" \/ log[o].parents \cap published # {}
    PROVE  RootedOK'
<1>1. Roots \subseteq Roots'
  BY DEF Roots
<1>2. \E r \in Roots' : r \in log[o].anc
  <2>1. CASE log[o].kind = "init"
    BY <2>1 DEF Roots, OpLogInv, AncestryOK
  <2>2. CASE log[o].parents \cap published # {}
    <3>1. PICK q \in published : q \in log[o].parents
      BY <2>2
    <3>2. PICK r \in Roots : r \in log[q].anc
      BY <3>1 DEF RootedOK
    <3>3. log[q].anc \subseteq log[o].anc
      BY <3>1 DEF OpLogInv, AncestryOK
    <3> QED
      BY <1>1, <3>2, <3>3
  <2> QED
    BY <2>1, <2>2
<1> QED
  BY <1>1, <1>2 DEF RootedOK

LEMMA RootStep == OpLogInv /\ OpLogInv' /\ RootInv /\ [Next]_vars => RootInv'
<1> SUFFICES ASSUME OpLogInv, OpLogInv', RootInv, [Next]_vars PROVE RootInv'
  OBVIOUS
<1> USE OpLogAssumption, FreshIsNew
<1>0. TypeOK /\ TypeOK'
  BY DEF OpLogInv
<1>k. RootedOK
  BY DEF RootInv
<1>r. ASSUME UNCHANGED <<published, log>> PROVE RootedOK'
  BY <1>r, <1>k, RootedByStoring
<1>w. ASSUME NEW o \in Fresh, NEW r, PutOp(o, r), UNCHANGED published PROVE RootedOK'
  <2>1. \A x \in Stored : log'[x] = log[x]
    BY <1>w, <1>0 DEF PutOp, TypeOK, Stored
  <2> QED
    BY <1>w, <1>k, <2>1, RootedByStoring
<1>n. \A p \in Proc : new[p] # NoOp => new[p] \in Stored
  BY DEF OpLogInv, HandlesOK
<1>1. ASSUME NEW p \in Proc, Open(p) PROVE RootInv'
  BY <1>1, <1>0, <1>r DEF Open, OpenUninitialized, OpenSingle, OpenMany, Pin, TypeOK, RootInv
<1>2. ASSUME NEW p \in Proc, WriteRoot(p) PROVE RootInv'
  <2>1. PICK o \in Fresh : PutOp(o, RootRecord(o)) /\ new' = [new EXCEPT ![p] = o]
    BY <1>2 DEF WriteRoot
  <2>2. \A x \in Stored : log'[x] = log[x]
    BY <2>1, <1>0 DEF PutOp, TypeOK, Stored
  <2>3. log'[o].kind = "init"
    BY <2>1, <1>0 DEF PutOp, RootRecord, TypeOK
  <2>4. \A q \in Proc \ {p} : pc'[q] = "rooted" => log'[new'[q]].kind = "init"
    BY <1>2, <1>0, <1>n, <2>1, <2>2 DEF WriteRoot, TypeOK, RootInv
  <2>5. RootedOK'
    BY <1>2, <1>w, <2>1 DEF WriteRoot
  <2> QED
    BY <1>2, <1>0, <2>1, <2>3, <2>4, <2>5 DEF WriteRoot, TypeOK, RootInv
<1>3. ASSUME NEW p \in Proc, WriteMerge(p) PROVE RootInv'
  <2>1. RootedOK' /\ \A x \in Stored : log'[x] = log[x]
    BY <1>3, <1>0, <1>r, <1>w DEF WriteMerge, PutOp, TypeOK, Stored
  <2>2. \A q \in Proc \ {p} : pc'[q] = "rooted" => log'[new'[q]].kind = "init"
    BY <1>3, <1>0, <1>n, <2>1 DEF WriteMerge, TypeOK, RootInv
  <2> QED
    BY <1>3, <1>0, <2>1, <2>2 DEF WriteMerge, TypeOK, RootInv
<1>4. ASSUME NEW p \in Proc, MergeFails(p) PROVE RootInv'
  BY <1>4, <1>0, <1>r DEF MergeFails, TypeOK, RootInv
<1>5. ASSUME NEW p \in Proc, PublishRoot(p) \/ PublishMerge(p) \/ PublishEdit(p) PROVE RootInv'
  <2>1. new[p] \in Stored /\ published' = published \cup {new[p]} /\ UNCHANGED log
    BY <1>5, <1>0, <1>n DEF PublishRoot, PublishMerge, PublishEdit, Publish, TypeOK
  <2>2. log[new[p]].kind = "init" \/ log[new[p]].parents \cap published # {}
    <3>1. CASE PublishRoot(p)
      BY <3>1 DEF PublishRoot, RootInv
    <3>2. CASE PublishMerge(p)
      BY <3>2 DEF PublishMerge, RootInv, OpLogInv, PendingOK, HandlesOK
    <3>3. CASE PublishEdit(p)
      BY <3>3, <1>0 DEF PublishEdit, OpLogInv, PendingOK, HandlesOK, TypeOK
    <3> QED
      BY <1>5, <3>1, <3>2, <3>3
  <2>3. RootedOK'
    BY <1>k, <2>1, <2>2, RootedByPublishing
  <2> QED
    BY <1>5, <1>0, <2>1, <2>3 DEF PublishRoot, PublishMerge, PublishEdit, Pin, TypeOK, RootInv
<1>6. ASSUME NEW p \in Proc, NEW lin \in BOOLEAN, WriteEdit(p, lin) PROVE RootInv'
  <2>0. PICK o \in Fresh : PutOp(o, EditRecord(o, base[p], lin))
    BY <1>6 DEF WriteEdit
  <2>1. RootedOK' /\ \A x \in Stored : log'[x] = log[x]
    <3>1. \A x \in Stored : log'[x] = log[x]
      BY <2>0, <1>0 DEF PutOp, Fresh, TypeOK, Stored
    <3> QED
      BY ZenonT(60), <1>6, <2>0, <3>1, <1>0, <1>w DEF WriteEdit, PutOp, TypeOK, Stored
  <2>2. \A q \in Proc \ {p} : pc'[q] = "rooted" => log'[new'[q]].kind = "init"
    <3>1. \A q \in Proc \ {p} : pc'[q] = pc[q] /\ new'[q] = new[q]
      BY <1>6, <1>0 DEF WriteEdit, TypeOK
    <3>2. \A q \in Proc : pc[q] = "rooted" => new[q] \in Stored /\ log[new[q]].kind = "init"
      BY <1>0, <1>n DEF TypeOK, RootInv
    <3> QED
      BY <2>1, <3>1, <3>2
  <2> QED
    BY <1>6, <1>0, <2>1, <2>2 DEF WriteEdit, TypeOK, RootInv
<1>7. ASSUME NEW p \in Proc, LinearizeCheck(p) \/ LinearizeStale(p) \/ Drop(p) PROVE RootInv'
  BY <1>7, <1>0, <1>r DEF LinearizeCheck, LinearizeStale, Drop, TypeOK, RootInv
<1>8. ASSUME NEW p \in Proc, NEW q \in Proc, CloneHandle(p, q) PROVE RootInv'
  BY <1>8, <1>0, <1>r DEF CloneHandle, Pin, TypeOK, RootInv
<1>9. CASE UNCHANGED vars
  BY <1>9, <1>r DEF vars, RootInv
<1> QED
  BY <1>1, <1>2, <1>3, <1>4, <1>5, <1>6, <1>7, <1>8, <1>9 DEF Next, Merge, Write

\* As long as one process at most has initialised the store, any two operations ever
\* published have a common ancestor, so opening never meets heads it cannot merge.
THEOREM RootShared == Spec => []OneRoot
<1>1. OpLogInv /\ RootInv => OneRoot
  <2> SUFFICES ASSUME OpLogInv, RootInv, OneInitialised, NEW a \in published, NEW b \in published
               PROVE  CommonAncestors({a, b}) # {}
    BY DEF OneRoot
  <2>1. PICK r \in Roots : r \in log[a].anc
    BY DEF RootInv, RootedOK
  <2>2. r \in log[b].anc
    BY DEF RootInv, RootedOK, OneInitialised
  <2>3. r \in OpId
    BY DEF Roots, OpLogInv, TypeOK
  <2> QED
    BY <2>1, <2>2, <2>3 DEF CommonAncestors
<1> QED
  BY <1>1, RootInit, RootStep, Invariance, PTL DEF Spec

-----------------------------------------------------------------------------
(***************************************************************************)
(* Only merges come back.  An edit or a root that is about to be published *)
(* is known to its writer alone, so nothing published descends from it     *)
(* yet; a stored operation descends from published ones only; and a head   *)
(* that is no merge has no published descendant, be it a head or not.      *)
(***************************************************************************)
Unpublished == {"rooted", "staged", "ready"}

OwnedOK ==
    \A p \in Proc :
        /\ pc[p] \in Unpublished =>
              /\ new[p] \notin published
              /\ log[new[p]].kind # "merge"
              /\ \A q \in Proc \ {p} : new[q] # new[p]
        /\ pc[p] = "merged" => log[new[p]].kind = "merge"

PastOK == \A x \in Stored : log[x].anc \subseteq {x} \cup published

ChildlessOK ==
    \A h \in heads : log[h].kind # "merge" =>
        \A g \in published \ {h} : h \notin log[g].anc

ReturnInv == OwnedOK /\ PastOK /\ ChildlessOK

\* A step that leaves the heads alone and stores at most one operation, whose
\* ancestors are published.
LEMMA ReturnByStoring ==
    ASSUME OpLogInv, PastOK, ChildlessOK,
           UNCHANGED <<heads, published>>, \A x \in Stored : log'[x] = log[x],
           \A x \in Stored' \ Stored : log'[x].anc \subseteq {x} \cup published
    PROVE  PastOK' /\ ChildlessOK'
<1>1. PastOK'
  BY DEF PastOK
<1>2. heads \subseteq Stored /\ published \subseteq Stored
  BY DEF OpLogInv, HeadsOK
<1> QED
  BY <1>1, <1>2 DEF ChildlessOK

\* Publishing an operation over its parents: nothing that stays a head is among
\* the ancestors it adds, and nothing published descends from it if it is new.
LEMMA ReturnByPublishing ==
    ASSUME OpLogInv, PastOK, ChildlessOK, NEW o \in Stored,
           Publish(o, log[o].parents), UNCHANGED log,
           log[o].kind # "merge" => o \notin published
    PROVE  PastOK' /\ ChildlessOK'
<1>1. /\ heads' = (heads \cup {o}) \ log[o].parents
      /\ published' = published \cup {o} /\ Stored' = Stored
  BY DEF Publish, Update, Stored
<1>2. PastOK'
  BY <1>1 DEF PastOK
<1>3. heads \subseteq published /\ published \subseteq Stored
  BY DEF OpLogInv, HeadsOK
<1>4. ASSUME NEW h \in heads', log[h].kind # "merge", NEW g \in published' \ {h},
             h \in log[g].anc
      PROVE  FALSE
  <2>1. CASE h = o
    <3>1. g \in published /\ o \notin published
      BY <1>1, <1>4, <2>1
    <3> QED
      BY <1>3, <1>4, <2>1, <3>1 DEF PastOK
  <2>2. CASE h # o /\ g # o
    BY <1>1, <1>4, <2>2 DEF ChildlessOK
  <2>3. CASE h # o /\ g = o
    <3>1. h \in heads /\ h \notin log[o].parents
      BY <1>1, <2>3
    <3>2. PICK q \in log[o].parents : h \in log[q].anc
      BY <1>4, <2>3 DEF OpLogInv, AncestryOK
    <3>3. q \in published /\ q # h
      BY <3>1, <3>2 DEF OpLogInv, AncestryOK, PastOK
    <3> QED
      BY <1>4, <3>1, <3>2, <3>3 DEF ChildlessOK
  <2> QED
    BY <2>1, <2>2, <2>3
<1> QED
  BY <1>2, <1>4 DEF ChildlessOK

LEMMA ReturnInit == Init => ReturnInv
<1> SUFFICES ASSUME Init PROVE ReturnInv
  OBVIOUS
<1>1. Stored = heads /\ published = heads
  BY OpLogAssumption DEF Init, Stored, RootRecord, Absent
<1>2. \A o \in Stored : o = Root /\ log[o] = RootRecord(Root)
  BY <1>1, OpLogAssumption DEF Init
<1> QED
  BY <1>1, <1>2 DEF Init, ReturnInv, OwnedOK, PastOK, ChildlessOK, RootRecord, Unpublished

LEMMA ReturnStep == OpLogInv /\ OpLogInv' /\ ReturnInv /\ [Next]_vars => ReturnInv'
<1> SUFFICES ASSUME OpLogInv, OpLogInv', ReturnInv, [Next]_vars PROVE ReturnInv'
  OBVIOUS
<1> USE OpLogAssumption, FreshIsNew DEF Unpublished
<1>0. TypeOK /\ TypeOK'
  BY DEF OpLogInv
<1>k. OwnedOK /\ PastOK /\ ChildlessOK
  BY DEF ReturnInv
<1>n. \A p \in Proc : new[p] # NoOp => new[p] \in Stored
  BY DEF OpLogInv, HandlesOK
<1>p. \A p \in Proc : seen[p] \subseteq published /\ (base[p] # NoOp => base[p] \in published)
  BY DEF OpLogInv, HandlesOK
<1>s. published \subseteq Stored
  BY DEF OpLogInv, HeadsOK
\* Steps that write nothing.
<1>u. ASSUME UNCHANGED <<log, heads, published>> PROVE PastOK' /\ ChildlessOK'
  BY <1>u, <1>k DEF PastOK, ChildlessOK, Stored
\* Steps that store one operation under a fresh name.
<1>w. ASSUME NEW o \in Fresh, NEW r \in OpRecord, PutOp(o, r), UNCHANGED <<heads, published>>,
             r.anc \subseteq {o} \cup published
      PROVE  PastOK' /\ ChildlessOK' /\ log'[o] = r /\ \A x \in Stored : log'[x] = log[x]
  <2>1. /\ log'[o] = r /\ \A x \in Stored : log'[x] = log[x]
        /\ Stored' \ Stored \subseteq {o}
    BY <1>w, <1>0 DEF PutOp, TypeOK, Stored
  <2> QED
    BY <1>w, <1>k, <2>1, ReturnByStoring
\* A published operation has published ancestors only.
<1>a. \A x \in published : log[x].anc \subseteq published
  BY <1>k, <1>s DEF PastOK
<1>1. ASSUME NEW p \in Proc, Open(p) PROVE ReturnInv'
  <2>1. OwnedOK'
    BY <1>1, <1>0, <1>k, <1>n DEF Open, OpenUninitialized, OpenSingle, OpenMany, Pin, TypeOK, OwnedOK
  <2> QED
    BY <1>1, <1>u, <2>1 DEF Open, OpenUninitialized, OpenSingle, OpenMany, ReturnInv
<1>2. ASSUME NEW p \in Proc, WriteRoot(p) PROVE ReturnInv'
  <2> PICK o \in Fresh : PutOp(o, RootRecord(o)) /\ new' = [new EXCEPT ![p] = o]
    BY <1>2 DEF WriteRoot
  <2> DEFINE r == RootRecord(o)
  <2>1. r \in OpRecord /\ r.anc = {o} /\ r.kind = "init"
    BY <1>0, RecordTypes DEF RootRecord
  <2>2. PutOp(o, r) /\ UNCHANGED <<heads, published>>
    BY <1>2 DEF WriteRoot
  <2> HIDE DEF r
  <2>3. PastOK' /\ ChildlessOK' /\ log'[o] = r /\ \A x \in Stored : log'[x] = log[x]
    BY <2>1, <2>2, <1>w
  <2>4. OwnedOK'
    BY <1>2, <1>0, <1>k, <1>n, <1>s, <2>1, <2>3 DEF WriteRoot, TypeOK, OwnedOK
  <2> QED
    BY <2>3, <2>4 DEF ReturnInv
<1>3. ASSUME NEW p \in Proc, WriteMerge(p) PROVE ReturnInv'
  <2> PICK o \in OpId :
        /\ IF MergeOps(seen[p]) # {}
           THEN o \in MergeOps(seen[p]) /\ UNCHANGED log
           ELSE o \in Fresh /\ PutOp(o, MergeRecord(o, seen[p]))
        /\ new' = [new EXCEPT ![p] = o]
    BY <1>3 DEF WriteMerge
  <2>1. /\ PastOK' /\ ChildlessOK' /\ log'[o].kind = "merge"
        /\ \A x \in Stored : log'[x] = log[x]
    <3>1. CASE MergeOps(seen[p]) # {}
      BY <1>3, <1>u, <3>1 DEF WriteMerge, MergeOps
    <3>2. CASE MergeOps(seen[p]) = {}
      <4> DEFINE r == MergeRecord(o, seen[p])
      <4>1. seen[p] \in SUBSET OpId
        BY <1>0 DEF TypeOK
      <4>2. /\ r \in OpRecord /\ r.kind = "merge"
            /\ r.anc = {o} \cup UNION {log[h].anc : h \in seen[p]}
        BY <4>1, <1>0, RecordTypes DEF MergeRecord
      <4>3. o \in Fresh /\ PutOp(o, r) /\ UNCHANGED <<heads, published>>
        BY <1>3, <3>2 DEF WriteMerge
      <4> HIDE DEF r
      <4>4. r.anc \subseteq {o} \cup published
        BY <4>2, <1>p, <1>a
      <4> QED
        BY <4>2, <4>3, <4>4, <1>w
    <3> QED
      BY <3>1, <3>2
  <2>2. \A q \in Proc \ {p} : pc[q] \in Unpublished => new[q] # o
    <3> SUFFICES ASSUME NEW q \in Proc \ {p}, pc[q] \in Unpublished, new[q] = o PROVE FALSE
      OBVIOUS
    <3>1. o \in Stored /\ log[o].kind # "merge"
      BY <1>0, <1>k, <1>n DEF OwnedOK, TypeOK
    <3> QED
      BY <2>1, <3>1
  <2>3. OwnedOK'
    BY <1>3, <1>0, <1>k, <1>n, <2>1, <2>2 DEF WriteMerge, TypeOK, OwnedOK
  <2> QED
    BY <2>1, <2>3 DEF ReturnInv
<1>4. ASSUME NEW p \in Proc, MergeFails(p) PROVE ReturnInv'
  <2>1. OwnedOK'
    BY <1>4, <1>0, <1>k DEF MergeFails, TypeOK, OwnedOK
  <2> QED
    BY <1>4, <1>u, <2>1 DEF MergeFails, ReturnInv
<1>5. ASSUME NEW p \in Proc, PublishRoot(p) \/ PublishMerge(p) \/ PublishEdit(p) PROVE ReturnInv'
  <2>1. /\ new[p] \in Stored /\ published' = published \cup {new[p]} /\ UNCHANGED log
        /\ Pin(p, new[p])
    BY <1>5, <1>0, <1>n DEF PublishRoot, PublishMerge, PublishEdit, Publish, TypeOK
  <2>2. Publish(new[p], log[new[p]].parents)
    BY <1>5, <1>0 DEF PublishRoot, PublishMerge, PublishEdit, OpLogInv, PendingOK, TypeOK
  <2>3. log[new[p]].kind # "merge" => new[p] \notin published
    BY <1>5, <1>k DEF PublishRoot, PublishMerge, PublishEdit, OwnedOK
  <2>4. PastOK' /\ ChildlessOK'
    BY <1>k, <2>1, <2>2, <2>3, ReturnByPublishing
  <2>5. \A q \in Proc \ {p} : pc[q] \in Unpublished => new[q] # new[p]
    BY <1>k DEF OwnedOK
  <2>6. OwnedOK'
    BY <1>0, <1>k, <2>1, <2>5 DEF Pin, TypeOK, OwnedOK
  <2> QED
    BY <2>4, <2>6 DEF ReturnInv
<1>6. ASSUME NEW p \in Proc, NEW lin \in BOOLEAN, WriteEdit(p, lin) PROVE ReturnInv'
  <2> PICK o \in Fresh :
        PutOp(o, EditRecord(o, base[p], lin)) /\ new' = [new EXCEPT ![p] = o]
    BY <1>6 DEF WriteEdit
  <2> DEFINE r == EditRecord(o, base[p], lin)
  <2>1. base[p] \in published /\ base[p] \in OpId
    BY <1>6, <1>0, <1>p DEF WriteEdit, TypeOK
  <2>2. r \in OpRecord /\ r.anc = {o} \cup log[base[p]].anc /\ r.kind = "edit"
    BY <1>0, <2>1, RecordTypes DEF EditRecord
  <2>3. PutOp(o, r) /\ UNCHANGED <<heads, published>>
    BY <1>6 DEF WriteEdit
  <2> HIDE DEF r
  <2>4. r.anc \subseteq {o} \cup published
    BY <1>a, <2>1, <2>2
  <2>5. PastOK' /\ ChildlessOK' /\ log'[o] = r /\ \A x \in Stored : log'[x] = log[x]
    BY <2>2, <2>3, <2>4, <1>w
  <2>6. OwnedOK'
    BY <1>6, <1>0, <1>k, <1>n, <1>s, <2>2, <2>5 DEF WriteEdit, TypeOK, OwnedOK
  <2> QED
    BY <2>5, <2>6 DEF ReturnInv
<1>7. ASSUME NEW p \in Proc, LinearizeCheck(p) \/ LinearizeStale(p) \/ Drop(p) PROVE ReturnInv'
  <2>1. OwnedOK'
    BY <1>7, <1>0, <1>k DEF LinearizeCheck, LinearizeStale, Drop, TypeOK, OwnedOK
  <2> QED
    BY <1>7, <1>u, <2>1 DEF LinearizeCheck, LinearizeStale, Drop, ReturnInv
<1>8. ASSUME NEW p \in Proc, NEW q \in Proc, CloneHandle(p, q) PROVE ReturnInv'
  <2>1. OwnedOK'
    BY <1>8, <1>0, <1>k DEF CloneHandle, Pin, TypeOK, OwnedOK
  <2> QED
    BY <1>8, <1>u, <2>1 DEF CloneHandle, ReturnInv
<1>9. CASE UNCHANGED vars
  BY <1>9, <1>u, <1>k DEF vars, ReturnInv, OwnedOK
<1> QED
  BY <1>1, <1>2, <1>3, <1>4, <1>5, <1>6, <1>7, <1>8, <1>9 DEF Next, Merge, Write

LEMMA ReturnInvariance == Spec => []ReturnInv
BY ReturnInit, ReturnStep, Invariance, PTL DEF Spec

\* A head that another head already descends from is a merge: an edit or a root, once
\* superseded, never comes back, however slow the process that had read it as a head.
THEOREM ComebacksAreMerges == Spec => []OnlyMergesComeBack
<1>1. OpLogInv /\ ReturnInv => OnlyMergesComeBack
  BY DEF OpLogInv, HeadsOK, ReturnInv, ChildlessOK, OnlyMergesComeBack
<1> QED
  BY <1>1, Invariance, ReturnInvariance, PTL

-----------------------------------------------------------------------------
(***************************************************************************)
(* Linearized commits, when calls do not overlap: from its check to its    *)
(* update a linearized commit keeps the heads it found.                    *)
(***************************************************************************)
CheckedOK ==
    \A p \in Proc : (pc[p] = "ready" /\ log[new[p]].lin) => heads = {base[p]}

LEMMA CheckedStep == Serial /\ OpLogInv /\ CheckedOK /\ [Next]_vars => CheckedOK'
<1> SUFFICES ASSUME Serial, OpLogInv, CheckedOK, [Next]_vars PROVE CheckedOK'
  OBVIOUS
<1> USE OpLogAssumption, FreshIsNew DEF CheckedOK
<1>0. TypeOK
  BY DEF OpLogInv
\* Only the process that moves can be in the middle of a call.
<1>m. ASSUME NEW p \in Proc, MayStep(p), NEW q \in Proc \ {p}
      PROVE  pc[q] # "ready"
  BY <1>m DEF MayStep, AtRest
<1>1. ASSUME NEW p \in Proc, Open(p) PROVE CheckedOK'
  BY <1>1, <1>0, <1>m DEF Open, OpenUninitialized, OpenSingle, OpenMany, Pin, TypeOK
<1>2. ASSUME NEW p \in Proc, WriteRoot(p) PROVE CheckedOK'
  BY <1>2, <1>0, <1>m DEF WriteRoot, TypeOK
<1>3. ASSUME NEW p \in Proc, WriteMerge(p) PROVE CheckedOK'
  BY <1>3, <1>0, <1>m DEF WriteMerge, TypeOK
<1>4. ASSUME NEW p \in Proc, MergeFails(p) PROVE CheckedOK'
  BY <1>4, <1>0, <1>m DEF MergeFails, TypeOK
<1>5. ASSUME NEW p \in Proc, PublishRoot(p) \/ PublishMerge(p) \/ PublishEdit(p)
      PROVE  CheckedOK'
  BY <1>5, <1>0, <1>m DEF PublishRoot, PublishMerge, PublishEdit, Pin, TypeOK
<1>6. ASSUME NEW p \in Proc, NEW lin \in BOOLEAN, WriteEdit(p, lin) PROVE CheckedOK'
  <2> PICK o \in Fresh :
        PutOp(o, EditRecord(o, base[p], lin)) /\ new' = [new EXCEPT ![p] = o]
    BY <1>6 DEF WriteEdit
  <2>1. log'[o].lin = lin
    BY <1>0 DEF PutOp, EditRecord, TypeOK
  <2> QED
    BY <1>6, <1>0, <1>m, <2>1 DEF WriteEdit, TypeOK
<1>7. ASSUME NEW p \in Proc, LinearizeCheck(p) \/ LinearizeStale(p) PROVE CheckedOK'
  BY <1>7, <1>0, <1>m DEF LinearizeCheck, LinearizeStale, HeadsAre, TypeOK
<1>8. ASSUME NEW p \in Proc, Drop(p) PROVE CheckedOK'
  BY <1>8, <1>0 DEF Drop, TypeOK
<1>9. ASSUME NEW p \in Proc, NEW q \in Proc, CloneHandle(p, q) PROVE CheckedOK'
  BY <1>9, <1>0, <1>m DEF CloneHandle, Pin, TypeOK
<1>10. CASE UNCHANGED vars
  BY <1>10 DEF vars
<1> QED
  BY <1>1, <1>2, <1>3, <1>4, <1>5, <1>6, <1>7, <1>8, <1>9, <1>10 DEF Next, Merge, Write

\* With one writer at a time, a linearized commit leaves itself as the only
\* head: the re-read of the heads before the update is enough.
THEOREM LinearizedAlone == Serial => (Spec => LinearizedIsSoleHead)
<1> SUFFICES ASSUME Serial PROVE Spec => LinearizedIsSoleHead
  OBVIOUS
<1> DEFINE SoleHead ==
      \A p \in Proc :
         (pc[p] = "ready" /\ pc'[p] = "open" /\ log[new[p]].lin) => heads' = {new[p]}
<1>1. Init => CheckedOK
  BY DEF Init, CheckedOK
<1>2. OpLogInv /\ CheckedOK /\ [Next]_vars => SoleHead
  <2> SUFFICES ASSUME OpLogInv, CheckedOK, [Next]_vars,
                      NEW p \in Proc,
                      pc[p] = "ready", pc'[p] = "open", log[new[p]].lin
               PROVE  heads' = {new[p]}
    OBVIOUS
  <2>1. heads = {base[p]} /\ new[p] # base[p]
    BY DEF OpLogInv, CheckedOK, AncestryOK, HandlesOK, PendingOK, TypeOK
  <2>2. PublishEdit(p)
    <3>1. pc \in [Proc -> PCs]
      BY DEF OpLogInv, TypeOK
    <3>2. ASSUME NEW q \in Proc, Open(q) \/ WriteRoot(q) \/ PublishRoot(q) \/ Merge(q) PROVE FALSE
      BY <3>1, <3>2 DEF Open, OpenUninitialized, OpenSingle, OpenMany, WriteRoot,
         PublishRoot, Merge, WriteMerge, MergeFails, PublishMerge, Pin
    <3>3. ASSUME NEW q \in Proc, Write(q), ~ PublishEdit(p) PROVE FALSE
      BY <3>1, <3>3 DEF Write, WriteEdit, LinearizeCheck, LinearizeStale, PublishEdit, Pin
    <3>4. ASSUME NEW q \in Proc, Drop(q) \/ \E r \in Proc : CloneHandle(q, r) PROVE FALSE
      BY <3>1, <3>4 DEF Drop, CloneHandle, Pin
    <3>5. ~ UNCHANGED vars
      BY DEF vars
    <3> QED
      BY <3>2, <3>3, <3>4, <3>5 DEF Next
  <2> QED
    BY <2>1, <2>2 DEF PublishEdit, Publish, Update
<1> QED
  BY <1>1, <1>2, CheckedStep, Invariance, PTL DEF Spec, LinearizedIsSoleHead

(***************************************************************************)
(* Merges, when calls do not overlap: while one is under way the heads are *)
(* those that the process has read.                                        *)
(***************************************************************************)
MergingOK == \A p \in Proc : pc[p] \in {"merging", "merged"} => seen[p] = heads

LEMMA MergingStep == Serial /\ OpLogInv /\ MergingOK /\ [Next]_vars => MergingOK'
<1> SUFFICES ASSUME Serial, OpLogInv, MergingOK, [Next]_vars PROVE MergingOK'
  OBVIOUS
<1> USE DEF MergingOK
<1>0. TypeOK
  BY DEF OpLogInv
<1>m. ASSUME NEW p \in Proc, MayStep(p), NEW q \in Proc \ {p}
      PROVE  pc[q] \notin {"merging", "merged"}
  BY <1>m DEF MayStep, AtRest
<1>1. ASSUME NEW p \in Proc, Open(p) PROVE MergingOK'
  BY <1>1, <1>0, <1>m DEF Open, OpenUninitialized, OpenSingle, OpenMany, Pin, TypeOK
<1>2. ASSUME NEW p \in Proc, WriteRoot(p) \/ Merge(p) PROVE MergingOK'
  BY <1>2, <1>0, <1>m DEF WriteRoot, Merge, WriteMerge, MergeFails, PublishMerge, Pin, TypeOK
<1>3. ASSUME NEW p \in Proc, PublishRoot(p) \/ PublishEdit(p) PROVE MergingOK'
  BY <1>3, <1>0, <1>m DEF PublishRoot, PublishEdit, Pin, TypeOK
<1>4. ASSUME NEW p \in Proc, NEW lin \in BOOLEAN, WriteEdit(p, lin) PROVE MergingOK'
  BY <1>4, <1>0, <1>m DEF WriteEdit, TypeOK
<1>5. ASSUME NEW p \in Proc, LinearizeCheck(p) \/ LinearizeStale(p) \/ Drop(p) PROVE MergingOK'
  BY <1>5, <1>0, <1>m DEF LinearizeCheck, LinearizeStale, Drop, TypeOK
<1>6. ASSUME NEW p \in Proc, NEW q \in Proc, CloneHandle(p, q) PROVE MergingOK'
  BY <1>6, <1>0, <1>m DEF CloneHandle, Pin, TypeOK
<1>7. CASE UNCHANGED vars
  BY <1>7 DEF vars
<1> QED
  BY <1>1, <1>2, <1>3, <1>4, <1>5, <1>6, <1>7 DEF Next, Write

\* With one writer at a time, an open that had to merge returns a handle on the only head
\* there is; with several, another process may have moved the heads that it supersedes.
THEOREM MergesCollapse == Serial => (Spec => MergeCollapsesHeads)
<1> SUFFICES ASSUME Serial PROVE Spec => MergeCollapsesHeads
  OBVIOUS
<1> DEFINE Collapsed ==
      \A p \in Proc : (pc[p] = "merged" /\ pc'[p] = "open") => heads' = {base'[p]}
<1>1. Init => MergingOK
  BY DEF Init, MergingOK
<1>2. OpLogInv /\ MergingOK /\ [Next]_vars => Collapsed
  <2> SUFFICES ASSUME OpLogInv, MergingOK, [Next]_vars,
                      NEW p \in Proc, pc[p] = "merged", pc'[p] = "open"
               PROVE  heads' = {base'[p]}
    OBVIOUS
  <2>1. pc \in [Proc -> PCs] /\ base \in [Proc -> OpId \cup {NoOp}]
    BY DEF OpLogInv, TypeOK
  <2>2. seen[p] = heads /\ new[p] \notin seen[p]
    BY DEF OpLogInv, MergingOK, AncestryOK, HandlesOK, PendingOK, TypeOK
  <2>3. PublishMerge(p)
    <3>1. ASSUME NEW q \in Proc, \/ Open(q) \/ WriteRoot(q) \/ PublishRoot(q)
                                 \/ WriteMerge(q) \/ MergeFails(q)
          PROVE  FALSE
      BY <2>1, <3>1 DEF Open, OpenUninitialized, OpenSingle, OpenMany, WriteRoot,
         PublishRoot, WriteMerge, MergeFails, Pin
    <3>2. ASSUME NEW q \in Proc, Write(q) PROVE FALSE
      BY <2>1, <3>2 DEF Write, WriteEdit, LinearizeCheck, LinearizeStale, PublishEdit, Pin
    <3>3. ASSUME NEW q \in Proc, Drop(q) \/ \E r \in Proc : CloneHandle(q, r) PROVE FALSE
      BY <2>1, <3>3 DEF Drop, CloneHandle, Pin
    <3>4. ASSUME NEW q \in Proc, PublishMerge(q) PROVE q = p
      BY <2>1, <3>4 DEF PublishMerge, Pin
    <3>5. ~ UNCHANGED vars
      BY DEF vars
    <3> QED
      BY <3>1, <3>2, <3>3, <3>4, <3>5 DEF Next, Merge
  <2> QED
    BY <2>1, <2>2, <2>3 DEF PublishMerge, Publish, Update, Pin
<1>3. MergingOK /\ OpLogInv /\ [Next]_vars => MergingOK'
  BY MergingStep
<1> QED
  BY <1>1, <1>2, <1>3, Invariance, PTL DEF Spec, MergeCollapsesHeads

(***************************************************************************)
(* Children, when calls do not overlap.  The statement about heads alone   *)
(* is not inductive, since a merge that was published before could be      *)
(* published again below its descendants.  So the invariant is about all   *)
(* that was published; then a merge of the present heads is not published  *)
(* yet, being a child of each of them.                                     *)
(***************************************************************************)
NoneHasChildren == \A h \in heads : \A g \in published \ {h} : h \notin log[g].anc

LEMMA ChildrenStep ==
    ASSUME Serial, OpLogInv, RootInv, ReturnInv, MergingOK, NoneHasChildren, [Next]_vars
    PROVE  NoneHasChildren'
<1> USE OpLogAssumption, FreshIsNew
<1>0. TypeOK /\ heads \subseteq published /\ published \subseteq Stored
  BY DEF OpLogInv, HeadsOK
\* Steps that publish nothing: what is published keeps its ancestors.
<1>u. ASSUME UNCHANGED <<heads, published>>, \A x \in Stored : log'[x] = log[x]
      PROVE  NoneHasChildren'
  BY <1>0, <1>u DEF NoneHasChildren
<1>w. ASSUME NEW o \in Fresh, NEW r, PutOp(o, r) PROVE \A x \in Stored : log'[x] = log[x]
  BY <1>0, <1>w DEF PutOp, TypeOK, Stored
<1>1. ASSUME NEW p \in Proc, PublishRoot(p) \/ PublishMerge(p) \/ PublishEdit(p)
      PROVE  NoneHasChildren'
  <2> DEFINE o == new[p]
  <2>1. o \in Stored /\ UNCHANGED log
    BY <1>0, <1>1 DEF PublishRoot, PublishMerge, PublishEdit, OpLogInv, HandlesOK, TypeOK
  <2>2. /\ heads' = (heads \cup {o}) \ log[o].parents
        /\ published' = published \cup {o}
    BY <1>0, <1>1 DEF PublishRoot, PublishMerge, PublishEdit, Publish, Update,
       OpLogInv, PendingOK, TypeOK
  <2>3. o \notin published
    <3>1. CASE PublishRoot(p) \/ PublishEdit(p)
      BY <3>1 DEF PublishRoot, PublishEdit, ReturnInv, OwnedOK, Unpublished
    <3>2. CASE PublishMerge(p)
      <4>1. pc[p] = "merged"
        BY <3>2 DEF PublishMerge
      <4>2. log[o].parents = heads /\ heads # {}
        BY <4>1 DEF OpLogInv, PendingOK, MergingOK, RootInv
      <4>3. PICK h \in heads : h \in log[o].anc /\ h # o
        BY <2>1, <4>2 DEF OpLogInv, AncestryOK
      <4> QED
        BY <4>3 DEF NoneHasChildren
    <3> QED
      BY <1>1, <3>1, <3>2
  <2> HIDE DEF o
  <2>4. ASSUME NEW h \in heads', NEW g \in published' \ {h}, h \in log[g].anc PROVE FALSE
    <3>1. CASE h = o
      <4>1. g \in published
        BY <2>2, <2>4, <3>1
      <4> QED
        BY <1>0, <2>3, <2>4, <3>1, <4>1 DEF ReturnInv, PastOK
    <3>2. CASE h # o /\ g # o
      BY <2>2, <2>4, <3>2 DEF NoneHasChildren
    <3>3. CASE h # o /\ g = o
      <4>1. h \in heads /\ h \notin log[o].parents
        BY <2>2, <3>3
      <4>2. PICK q \in log[o].parents : h \in log[q].anc
        BY <2>1, <2>4, <3>3 DEF OpLogInv, AncestryOK
      <4>3. q \in published /\ q # h
        BY <2>1, <4>1, <4>2 DEF OpLogInv, AncestryOK, ReturnInv, PastOK
      <4> QED
        BY <4>1, <4>2, <4>3 DEF NoneHasChildren
    <3> QED
      BY <3>1, <3>2, <3>3
  <2> QED
    BY <2>1, <2>4 DEF NoneHasChildren
<1>2. ASSUME NEW p \in Proc, WriteRoot(p) \/ WriteMerge(p) \/ \E lin \in BOOLEAN : WriteEdit(p, lin)
      PROVE  NoneHasChildren'
  BY <1>2, <1>u, <1>w DEF WriteRoot, WriteMerge, WriteEdit
<1>3. ASSUME NEW p \in Proc, Open(p) \/ MergeFails(p) \/ LinearizeCheck(p) \/ LinearizeStale(p) \/ Drop(p)
      PROVE  NoneHasChildren'
  BY <1>3, <1>u DEF Open, OpenUninitialized, OpenSingle, OpenMany, MergeFails, LinearizeCheck,
     LinearizeStale, Drop
<1>4. ASSUME NEW p \in Proc, NEW q \in Proc, CloneHandle(p, q) PROVE NoneHasChildren'
  BY <1>4, <1>u DEF CloneHandle
<1>5. CASE UNCHANGED vars
  BY <1>5, <1>u DEF vars
<1> QED
  BY <1>1, <1>2, <1>3, <1>4, <1>5 DEF Next, Merge, Write

\* With one call at a time the op-heads are what the store says they are, the operations
\* without children yet, whatever handles are stale and wherever calls were cut off.
THEOREM HeadsAreChildless == Serial => (Spec => []HeadsHaveNoChildren)
<1> SUFFICES ASSUME Serial PROVE Spec => []HeadsHaveNoChildren
  OBVIOUS
<1>1. Init => MergingOK /\ NoneHasChildren
  BY OpLogAssumption DEF Init, MergingOK, NoneHasChildren
<1>2. OpLogInv /\ RootInv /\ ReturnInv /\ MergingOK /\ NoneHasChildren /\ [Next]_vars
      => MergingOK' /\ NoneHasChildren'
  BY MergingStep, ChildrenStep
<1>3. OpLogInv /\ NoneHasChildren => HeadsHaveNoChildren
  BY DEF OpLogInv, HeadsOK, NoneHasChildren, HeadsHaveNoChildren
<1>4. Spec => []RootInv
  BY RootInit, RootStep, Invariance, PTL DEF Spec
<1> QED
  BY <1>1, <1>2, <1>3, <1>4, Invariance, ReturnInvariance, PTL DEF Spec
=============================================================================
