---------------------------- MODULE MCReadPath ----------------------------
(* An instance of ReadPath: operations with and without edges, that tombstone and remove a node. *)
EXTENDS ReadPath, TLC

CONSTANTS n1, n2, n3, m1, m2, p, q

MCSimilarity == n1 :> 4 @@ n2 :> 2 @@ n3 :> 2

MCTokens == n1 :> 3 @@ n2 :> 1 @@ n3 :> 2

MCSymmetry == Permutations({p, q})

MCWanted == {Node, {n1, n3}}

MCContents == {
    [nodes |-> {n1, n2, n3}, edges |-> {<<n1, n2>>, <<n1, n3>>, <<n2, n3>>}, tombs |-> {n2},
     vectors |-> m1 :> {n1, n2} @@ m2 :> {n1, n2, n3}],
    [nodes |-> {n1, n2}, edges |-> {}, tombs |-> {},
     vectors |-> m1 :> {n1, n2} @@ m2 :> {}]}
=============================================================================
