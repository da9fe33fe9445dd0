------------------------------- MODULE OpLog -------------------------------
(***************************************************************************)
(* The operation log of a mnem repository: immutable operations in the     *)
(* blockstore, the op-heads set that says which of them are current, and   *)
(* the processes (threads, commands, handlers) that open the repository,   *)
(* commit to it and merge concurrent heads.                                *)
(*                                                                         *)
(* Sources: mnem-core/src/store/op_heads.rs, repo/readonly.rs,             *)
(* repo/transaction.rs (steps 4-6 of a commit), repo/merge.rs              *)
(* (merge_op_heads), repo/lca.rs.                                          *)
(*                                                                         *)
(* An operation is a block named by its hash.  Two commits never produce   *)
(* the same operation (author clock, random change id), so an edit takes   *)
(* a fresh name; the merge of a set of heads is a function of that set     *)
(* alone, so two processes that merge the same heads produce one name.     *)
(* The views that operations carry are in module ViewLog.                  *)
(***************************************************************************)
EXTENDS Naturals, FiniteSets

CONSTANTS OpId,      \* names of operations (CIDs)
          Root,      \* the operation written by an earlier `mnem init`
          Proc,      \* the processes that hold repository handles
          Commands,  \* those that open afresh for each call, and are not killed
          NoOp,      \* stands for "no operation"
          Seeded,    \* TRUE: the repository was initialised before
          Serial,    \* TRUE: library calls never overlap (one writer at a time)
          MaxEdits   \* bound on the number of edits, for model checking

ASSUME OpLogAssumption == /\ Root \in OpId
                          /\ Commands \subseteq Proc
                          /\ NoOp \notin OpId
                          /\ Seeded \in BOOLEAN
                          /\ Serial \in BOOLEAN
                          /\ MaxEdits \in Nat

VARIABLES log,        \* the operations in the blockstore
          heads,      \* the op-heads set
          published,  \* history: operations whose op-heads update returned
          pc,         \* where each process is inside a library call
          base,       \* the operation its handle is pinned to
          new,        \* the operation it has written and not yet published
          seen        \* the heads it read when it opened the repository

vars == <<log, heads, published, pc, base, new, seen>>
procVars == <<pc, base, new, seen>>

(***************************************************************************)
(* An operation: what wrote it, its parents, and every operation that the  *)
(* walk over parents reaches from it, itself included.                     *)
(***************************************************************************)
Kinds == {"none", "init", "edit", "merge"}

OpRecord == [kind : Kinds, lin : BOOLEAN,
             parents : SUBSET OpId, anc : SUBSET OpId]

Absent == [kind |-> "none", lin |-> FALSE, parents |-> {}, anc |-> {}]

Stored == {o \in OpId : log[o].kind # "none"}

\* The name of the next new operation, if the bounded model has one left.
\* Which name it is says nothing: nothing below depends on the order of names.
Fresh == IF Stored = OpId THEN {} ELSE {CHOOSE o \in OpId : o \notin Stored}

RootRecord(o) == [kind |-> "init", lin |-> FALSE, parents |-> {}, anc |-> {o}]

\* Mutated form: the operation is written without its parent.
EditRecordOrphan(o, b, lin) ==
    [kind |-> "edit", lin |-> lin, parents |-> {}, anc |-> {o}]

EditRecord(o, b, lin) ==
    [kind |-> "edit", lin |-> lin, parents |-> {b}, anc |-> {o} \cup log[b].anc]

MergeRecord(o, H) ==
    [kind |-> "merge", lin |-> FALSE, parents |-> H,
     anc |-> {o} \cup UNION {log[h].anc : h \in H}]

(***************************************************************************)
(* Common ancestors of a set of operations, and the lowest of them: those  *)
(* that are not strict ancestors of another common ancestor.               *)
(***************************************************************************)
CommonAncestors(H) == {a \in OpId : \A h \in H : a \in log[h].anc}

LowestCommonAncestors(H) ==
    {a \in CommonAncestors(H) :
        ~ \E c \in CommonAncestors(H) \ {a} : a \in log[c].anc}

(***************************************************************************)
(* OpHeadsStore::update: insert the new head, remove what it supersedes;   *)
(* removing an absent head is a no-op.                                     *)
(***************************************************************************)
\* Mutated form: the new head replaces all the others.
UpdateReplacing(H, o, supersedes) == {o}

Update(H, o, supersedes) == (H \cup {o}) \ supersedes

\* Everything reachable from the current heads.
Reach == UNION {log[h].anc : h \in heads}

AtRest == {"none", "open"}

\* With Serial, a step runs only while every other process is between calls.
MayStep(p) == Serial => \A q \in Proc \ {p} : pc[q] \in AtRest

\* Mutated form: the block is buffered and never reaches the store.
PutOpBuffered(o, r) == UNCHANGED log

PutOp(o, r) == log' = [log EXCEPT ![o] = r]

Publish(o, supersedes) ==
    /\ heads' = Update(heads, o, supersedes)
    /\ published' = published \cup {o}

\* The handle returned by load_at: pinned to o, nothing pending.
Pin(p, o) ==
    /\ pc' = [pc EXCEPT ![p] = "open"]
    /\ base' = [base EXCEPT ![p] = o]
    /\ new' = [new EXCEPT ![p] = NoOp]
    /\ seen' = [seen EXCEPT ![p] = {}]

Init ==
    /\ log = [o \in OpId |-> IF Seeded /\ o = Root THEN RootRecord(o) ELSE Absent]
    /\ heads = IF Seeded THEN {Root} ELSE {}
    /\ published = heads
    /\ pc = [p \in Proc |-> "none"]
    /\ base = [p \in Proc |-> NoOp]
    /\ new = [p \in Proc |-> NoOp]
    /\ seen = [p \in Proc |-> {}]

-----------------------------------------------------------------------------
(***************************************************************************)
(* Opening.  ReadonlyRepo::open reads the heads once.  No head: the caller *)
(* is told Uninitialized and calls init.  One head: pin it.  More: merge.  *)
(***************************************************************************)
OpenUninitialized(p) ==
    /\ pc[p] = "none" /\ MayStep(p)
    /\ heads = {}
    /\ pc' = [pc EXCEPT ![p] = "init"]
    /\ UNCHANGED <<log, heads, published, base, new, seen>>

OpenSingle(p) ==
    /\ pc[p] = "none" /\ MayStep(p)
    /\ \E h \in heads : heads = {h} /\ Pin(p, h)
    /\ UNCHANGED <<log, heads, published>>

\* Mutated form: concurrent heads are not merged, one of them is pinned.
OpenManyPicksOne(p) ==
    /\ pc[p] = "none" /\ MayStep(p)
    /\ \E g, h \in heads : g # h /\ Pin(p, h)
    /\ UNCHANGED <<log, heads, published>>

OpenMany(p) ==
    /\ pc[p] = "none" /\ MayStep(p)
    /\ \E g, h \in heads : g # h
    /\ pc' = [pc EXCEPT ![p] = "merging"]
    /\ seen' = [seen EXCEPT ![p] = heads]
    /\ UNCHANGED <<log, heads, published, base, new>>

\* ReadonlyRepo::init writes the root operation, then registers it.
WriteRoot(p) ==
    /\ pc[p] = "init" /\ MayStep(p)
    /\ \E o \in Fresh :
          /\ PutOp(o, RootRecord(o))
          /\ new' = [new EXCEPT ![p] = o]
    /\ pc' = [pc EXCEPT ![p] = "rooted"]
    /\ UNCHANGED <<heads, published, base, seen>>

PublishRoot(p) ==
    /\ pc[p] = "rooted" /\ MayStep(p)
    /\ Publish(new[p], {})
    /\ Pin(p, new[p])
    /\ UNCHANGED log

\* merge_op_heads: the merge of the heads seen, written before it is current.
\* Heads with no common ancestor are an error; the caller gets no handle.
MergeOps(H) == {o \in Stored : log[o].kind = "merge" /\ log[o].parents = H}

WriteMerge(p) ==
    /\ pc[p] = "merging" /\ MayStep(p)
    /\ LowestCommonAncestors(seen[p]) # {}
    /\ \E o \in OpId :
          /\ IF MergeOps(seen[p]) # {}
             THEN o \in MergeOps(seen[p]) /\ UNCHANGED log
             ELSE o \in Fresh /\ PutOp(o, MergeRecord(o, seen[p]))
          /\ new' = [new EXCEPT ![p] = o]
    /\ pc' = [pc EXCEPT ![p] = "merged"]
    /\ UNCHANGED <<heads, published, base, seen>>

MergeFails(p) ==
    /\ pc[p] = "merging" /\ MayStep(p)
    /\ LowestCommonAncestors(seen[p]) = {}
    /\ pc' = [pc EXCEPT ![p] = "none"]
    /\ seen' = [seen EXCEPT ![p] = {}]
    /\ UNCHANGED <<log, heads, published, base, new>>

PublishMerge(p) ==
    /\ pc[p] = "merged" /\ MayStep(p)
    /\ Publish(new[p], seen[p])
    /\ Pin(p, new[p])
    /\ UNCHANGED log

-----------------------------------------------------------------------------
(***************************************************************************)
(* Writing.  commit_opts, update_ref, update_heads and switch_branch all   *)
(* write one operation on top of the pinned one and then publish it over   *)
(* the pinned one.  A linearized commit re-reads the heads in between.     *)
(***************************************************************************)
Edits == {o \in OpId : log[o].kind = "edit"}

WriteEdit(p, lin) ==
    /\ pc[p] = "open" /\ MayStep(p)
    /\ Cardinality(Edits) < MaxEdits
    /\ \E o \in Fresh :
          /\ PutOp(o, EditRecord(o, base[p], lin))
          /\ new' = [new EXCEPT ![p] = o]
    /\ pc' = [pc EXCEPT ![p] = IF lin THEN "staged" ELSE "ready"]
    /\ UNCHANGED <<heads, published, base, seen>>

\* The linearize check: the heads read must be exactly the base.
HeadsAre(b) == heads = {b}

LinearizeCheck(p) ==
    /\ pc[p] = "staged" /\ MayStep(p)
    /\ HeadsAre(base[p])
    /\ pc' = [pc EXCEPT ![p] = "ready"]
    /\ UNCHANGED <<log, heads, published, base, new, seen>>

\* Stale: nothing is published; the blocks stay, the handle is still usable.
LinearizeStale(p) ==
    /\ pc[p] = "staged" /\ MayStep(p)
    /\ ~ HeadsAre(base[p])
    /\ pc' = [pc EXCEPT ![p] = "open"]
    /\ new' = [new EXCEPT ![p] = NoOp]
    /\ UNCHANGED <<log, heads, published, base, seen>>

\* Mutated form: the base stays a head beside its child.
PublishEditBeside(p) ==
    /\ pc[p] = "ready" /\ MayStep(p)
    /\ Publish(new[p], {})
    /\ Pin(p, new[p])
    /\ UNCHANGED log

PublishEdit(p) ==
    /\ pc[p] = "ready" /\ MayStep(p)
    /\ Publish(new[p], {base[p]})
    /\ Pin(p, new[p])
    /\ UNCHANGED log

-----------------------------------------------------------------------------
(***************************************************************************)
(* Handles.  A ReadonlyRepo is a cheap clone that other threads may hold;  *)
(* a process may drop its handle, fail with a store error or be killed at  *)
(* any point of a call.  Blocks already written stay behind.  A process of *)
(* Commands runs to the end of each call and borrows no handle.            *)
(***************************************************************************)
CloneHandle(p, q) ==
    /\ pc[p] = "none" /\ MayStep(p)
    /\ p \notin Commands
    /\ base[q] # NoOp
    /\ Pin(p, base[q])
    /\ UNCHANGED <<log, heads, published>>

Drop(p) ==
    /\ pc[p] # "none"
    /\ p \in Commands => pc[p] = "open"
    /\ pc' = [pc EXCEPT ![p] = "none"]
    /\ base' = [base EXCEPT ![p] = NoOp]
    /\ new' = [new EXCEPT ![p] = NoOp]
    /\ seen' = [seen EXCEPT ![p] = {}]
    /\ UNCHANGED <<log, heads, published>>

Open(p) == OpenUninitialized(p) \/ OpenSingle(p) \/ OpenMany(p)

Merge(p) == WriteMerge(p) \/ MergeFails(p) \/ PublishMerge(p)

Write(p) == \/ \E lin \in BOOLEAN : WriteEdit(p, lin)
            \/ LinearizeCheck(p) \/ LinearizeStale(p) \/ PublishEdit(p)

Next == \E p \in Proc :
            \/ Open(p) \/ WriteRoot(p) \/ PublishRoot(p)
            \/ Merge(p)
            \/ Write(p)
            \/ Drop(p)
            \/ \E q \in Proc : CloneHandle(p, q)

Spec == Init /\ [][Next]_vars

(***************************************************************************)
(* Fairness: a command that has begun takes its next step, and another one *)
(* follows it.  Nothing is assumed of the other processes, and nobody has  *)
(* to write.                                                               *)
(***************************************************************************)
Advance(p) == \/ Open(p) \/ WriteRoot(p) \/ PublishRoot(p)
              \/ Merge(p)
              \/ LinearizeCheck(p) \/ LinearizeStale(p) \/ PublishEdit(p)
              \/ Drop(p)

FairSpec == Spec /\ \A p \in Commands : WF_vars(Advance(p))
-----------------------------------------------------------------------------
(***************************************************************************)
(* Properties.                                                             *)
(***************************************************************************)
PCs == {"none", "init", "rooted", "merging", "merged", "open", "staged", "ready"}

(***************************************************************************)
(* Types, and which per-process variables are in use at each point.        *)
(***************************************************************************)
TypeOK ==
    /\ log \in [OpId -> OpRecord]
    /\ heads \in SUBSET OpId
    /\ published \in SUBSET OpId
    /\ pc \in [Proc -> PCs]
    /\ base \in [Proc -> OpId \cup {NoOp}]
    /\ new \in [Proc -> OpId \cup {NoOp}]
    /\ seen \in [Proc -> SUBSET OpId]
    /\ \A p \in Proc :
          /\ pc[p] \in {"open", "staged", "ready"} <=> base[p] # NoOp
          /\ pc[p] \in {"rooted", "merged", "staged", "ready"} <=> new[p] # NoOp

(***************************************************************************)
(* No operation is lost: whatever was published by a commit, a ref update, *)
(* an init or a merge is still reachable from the current heads, however   *)
(* stale the handle it was written through and whatever was superseded     *)
(* meanwhile (op_heads.rs: update removes only the parents of the new op). *)
(***************************************************************************)
NoOpLost == published \subseteq Reach

(***************************************************************************)
(* A reader that starts from the heads never meets a missing operation     *)
(* block, even if every process stopped now: the walk of lca.rs over       *)
(* parents ends in stored operations (put before update, in every writer). *)
(***************************************************************************)
WalkNeverMisses ==
    \A h \in heads :
        /\ h \in Stored
        /\ \A a \in log[h].anc : a \in Stored /\ log[a].parents \subseteq Stored

(***************************************************************************)
(* A head that already has a child among the ancestors of another head can *)
(* only be a merge that a slower reader re-published: no edit or root      *)
(* operation ever comes back once it was superseded (op_heads.rs update,   *)
(* merge.rs merge_op_heads).                                               *)
(***************************************************************************)
OnlyMergesComeBack ==
    \A h \in heads :
        (\E g \in heads \ {h} : h \in log[g].anc) => log[h].kind = "merge"

(***************************************************************************)
(* The op-heads are "the set of operations with no children yet"           *)
(* (op_heads.rs): no head is an ancestor of another head.                  *)
(***************************************************************************)
HeadsHaveNoChildren ==
    \A h \in heads : \A g \in heads \ {h} : h \notin log[g].anc

\* The root operations that were published: more than one when several processes find
\* the store empty.
Roots == {o \in published : log[o].kind = "init"}

OneInitialised == \A r, s \in Roots : r = s

(***************************************************************************)
(* Unless two processes initialised the store at once, every two published *)
(* operations have a common ancestor, whatever half-finished calls leave   *)
(* behind, and opening never fails with NoCommonAncestor (lca.rs: "both    *)
(* descend from the root Operation").                                      *)
(***************************************************************************)
OneRoot == OneInitialised => \A a, b \in published : CommonAncestors({a, b}) # {}

(***************************************************************************)
(* A linearized commit leaves itself as the only head: it never lands      *)
(* beside an operation it had not seen (commit_opts, the re-read of the    *)
(* heads before the advance).                                              *)
(***************************************************************************)
LinearizedIsSoleHead ==
    [][\A p \in Proc :
         (pc[p] = "ready" /\ pc'[p] = "open" /\ log[new[p]].lin) => heads' = {new[p]}]_vars

(***************************************************************************)
(* An open that had to merge returns a handle on the only head there is.   *)
(* (merge.rs, "collapsing the set back to a single head").                 *)
(***************************************************************************)
MergeCollapsesHeads ==
    [][\A p \in Proc :
         (pc[p] = "merged" /\ pc'[p] = "open") => heads' = {base'[p]}]_vars

(***************************************************************************)
(* Concurrent heads do not last: once the other processes have stopped,    *)
(* wherever in a call that is, commands that keep opening the repository   *)
(* leave one head for ever (merge.rs: "collapsing the set back to a single *)
(* head").  Behaviours in which the bounded names run out do not count, nor *)
(* do those in which two processes initialised the store.                  *)
(* Two openers that never stop may stay out of phase, each superseding     *)
(* heads that the other has replaced; nothing is promised of them.         *)
(***************************************************************************)
OthersStop == <>[][\A q \in Proc \ Commands : pc'[q] = pc[q]]_vars

Converges == (OthersStop /\ [](Fresh # {}) /\ []OneInitialised) => <>[](\E h \in heads : heads = {h})

(***************************************************************************)
(* The abstract specification: the history reachable from the heads is an  *)
(* append-only causal history.                                             *)
(***************************************************************************)
History == INSTANCE CausalHistory
             WITH known <- Reach,
                  causes <- [o \in OpId |-> IF o \in Reach THEN log[o].parents ELSE {}]

HistoryOnlyGrows == History!Spec
=============================================================================
