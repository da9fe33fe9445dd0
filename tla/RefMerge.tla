------------------------------ MODULE RefMerge ------------------------------
(***************************************************************************)
(* The merge of one named ref across concurrent views (repo/merge.rs,      *)
(* merge_one_ref), by signed multiset arithmetic: the sum of the heads     *)
(* minus N - 1 times the base.                                             *)
(*                                                                         *)
(* A target is what a ref points at: Missing (no such ref), Normal(c), or  *)
(* a conflict, a set of candidates to add and a set of targets removed on  *)
(* one side.  All three are pairs of sets.                                 *)
(***************************************************************************)
EXTENDS Integers, FiniteSets

CONSTANT Commit    \* what refs point at

Target == [adds : SUBSET Commit, removes : SUBSET Commit]

Missing == [adds |-> {}, removes |-> {}]
Normal(c) == [adds |-> {c}, removes |-> {}]

IsNormal(t) == \E c \in Commit : t = Normal(c)
IsConflict(t) == t # Missing /\ ~ IsNormal(t)

\* What RefTarget::conflicted and the counting below can produce.
Canonical == {t \in Target : t.adds \cap t.removes = {}}

(***************************************************************************)
(* The count of commit c over the heads t (a function from heads to        *)
(* targets) relative to the base b.                                        *)
(***************************************************************************)
Sign(t, c) == (IF c \in t.adds THEN 1 ELSE 0) - (IF c \in t.removes THEN 1 ELSE 0)

Count(b, t, c) ==
    LET H == DOMAIN t
    IN  Cardinality({h \in H : c \in t[h].adds})
          - Cardinality({h \in H : c \in t[h].removes})
          - (Cardinality(H) - 1) * Sign(b, c)

(***************************************************************************)
(* merge_one_ref: heads that all agree (with the base or with each other)  *)
(* are taken as they are; otherwise positive counts are the adds, negative *)
(* ones the removes.                                                       *)
(***************************************************************************)
\* Mutated form: of several candidates one is kept.
CollapseToWinner(b, t) ==
    LET won == {c \in Commit : Count(b, t, c) > 0}
    IN  [adds |-> IF won = {} THEN {} ELSE {CHOOSE c \in won : TRUE}, removes |-> {}]

Collapse(b, t) ==
    [adds |-> {c \in Commit : Count(b, t, c) > 0},
     removes |-> {c \in Commit : Count(b, t, c) < 0}]

MergeRef(b, t) ==
    IF \E v \in Target : \A h \in DOMAIN t : t[h] = v
    THEN CHOOSE v \in Target : \A h \in DOMAIN t : t[h] = v
    ELSE Collapse(b, t)
=============================================================================
