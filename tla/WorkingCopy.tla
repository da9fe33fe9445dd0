---------------------------- MODULE WorkingCopy ----------------------------
(***************************************************************************)
(* What a transaction promises: the writer works on a private copy of the  *)
(* graph of the version it started from, and a commit publishes the copy,  *)
(* provided no edge of it lacks an end.  Versions never change; a merge    *)
(* has every node and edge of the versions it merges, each as one of them  *)
(* has it.                                                                 *)
(***************************************************************************)
EXTENDS GraphTrees, Sequences

CONSTANTS NodeId, Value,    \* node ids (their order is that of their bytes), node blocks
          EdgeId, EdgeBlock,
          Src, Dst,         \* the ends of an edge block
          Writer

VARIABLES graph,    \* the graph of every version
          copy      \* the private copy of each writer

wcVars == <<graph, copy>>

Graph == [nodes : Tree(NodeId, Value), edges : Tree(EdgeId, EdgeBlock)]

Idle == [base |-> 0]

Incident(edges, n) == {e \in DOMAIN edges : Src[edges[e]] = n \/ Dst[edges[e]] = n}

NoDangling(g) == \A e \in DOMAIN g.edges : {Src[g.edges[e]], Dst[g.edges[e]]} \subseteq DOMAIN g.nodes

WCInit == /\ \E g \in Graph : NoDangling(g) /\ graph = <<g>>
          /\ copy = [w \in Writer |-> Idle]

Begin(w, b) ==
    /\ copy[w] = Idle
    /\ copy' = [copy EXCEPT ![w] = [base |-> b, nodes |-> graph[b].nodes, edges |-> graph[b].edges]]
    /\ UNCHANGED graph

SetNodes(w, nodes) == /\ copy[w] # Idle
                      /\ copy' = [copy EXCEPT ![w].nodes = nodes]
                      /\ UNCHANGED graph

SetEdges(w, edges) == /\ copy[w] # Idle
                      /\ copy' = [copy EXCEPT ![w].edges = edges]
                      /\ UNCHANGED graph

PutNode(w, n, v) == SetNodes(w, Rebuild(copy[w].nodes, [x \in {n} |-> v], {}))

PutEdge(w, e, b) == SetEdges(w, Rebuild(copy[w].edges, [x \in {e} |-> b], {}))

DropEdge(w, e) == SetEdges(w, Rebuild(copy[w].edges, [x \in {} |-> 0], {e}))

(***************************************************************************)
(* A node goes with its edges.  An edge that the base has at the node goes *)
(* too, even if the writer has meanwhile moved it elsewhere.               *)
(***************************************************************************)
DropNode(w, n) ==
    /\ copy[w] # Idle
    /\ \E gone \in SUBSET DOMAIN copy[w].edges :
          /\ Incident(copy[w].edges, n) \subseteq gone
          /\ gone \subseteq Incident(copy[w].edges, n) \cup Incident(graph[copy[w].base].edges, n)
          /\ copy' = [copy EXCEPT ![w].nodes = Rebuild(copy[w].nodes, [x \in {} |-> 0], {n}),
                                  ![w].edges = Rebuild(copy[w].edges, [x \in {} |-> 0], gone)]
    /\ UNCHANGED graph

Publish(w) ==
    /\ copy[w] # Idle
    /\ NoDangling(copy[w])
    /\ graph' = Append(graph, [nodes |-> copy[w].nodes, edges |-> copy[w].edges])
    /\ copy' = [copy EXCEPT ![w] = Idle]

Abandon(w) == /\ copy[w] # Idle
              /\ copy' = [copy EXCEPT ![w] = Idle]
              /\ UNCHANGED graph

\* Every key of the trees T, with the block one of them has.
MixOf(T, t) == /\ DOMAIN t = UNION {DOMAIN u : u \in T}
               /\ \A k \in DOMAIN t : \E u \in T : k \in DOMAIN u /\ t[k] = u[k]

Combine(V) ==
    /\ UNCHANGED copy
    /\ Len(graph') = Len(graph) + 1
    /\ LET g == graph'[Len(graph) + 1]
       IN  /\ graph' = Append(graph, g)
           /\ MixOf({graph[v].nodes : v \in V}, g.nodes)
           /\ MixOf({graph[v].edges : v \in V}, g.edges)
           /\ NoDangling(g)

WCNext ==
    \/ \E w \in Writer :
        \/ \E b \in DOMAIN graph : Begin(w, b)
        \/ \E n \in NodeId, v \in Value : PutNode(w, n, v)
        \/ \E n \in NodeId : DropNode(w, n)
        \/ \E e \in EdgeId : DropEdge(w, e) \/ \E b \in EdgeBlock : PutEdge(w, e, b)
        \/ Publish(w) \/ Abandon(w)
    \/ \E V \in SUBSET DOMAIN graph : Combine(V)

WCSpec == WCInit /\ [][WCNext]_wcVars
=============================================================================
