--------------------------- MODULE CausalHistory ---------------------------
(***************************************************************************)
(* What the operation log of a mnem repository promises, with no mention   *)
(* of op-heads, handles or processes: the history reachable from the       *)
(* current state only ever grows, one operation at a time, and every       *)
(* operation is appended on top of operations already in the history.      *)
(***************************************************************************)
CONSTANT OpId

VARIABLES known,    \* the operations of the history
          causes    \* the parents of each of them

hvars == <<known, causes>>

TypeOK == /\ known \in SUBSET OpId
          /\ causes \in [OpId -> SUBSET OpId]

Init == /\ known \in {K \in SUBSET OpId : \A a, b \in K : a = b}
        /\ causes = [o \in OpId |-> {}]

(***************************************************************************)
(* Append operation o on top of the operations P.  Only a root operation   *)
(* has no parents.                                                         *)
(***************************************************************************)
Append(o, P) ==
    /\ o \notin known
    /\ P \subseteq known
    /\ known' = known \cup {o}
    /\ causes' = [causes EXCEPT ![o] = P]

Next == \E o \in OpId, P \in SUBSET OpId : Append(o, P)

Spec == Init /\ [][Next]_hvars
=============================================================================
