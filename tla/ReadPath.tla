------------------------------ MODULE ReadPath ------------------------------
(***************************************************************************)
(* How the HTTP server answers questions while others write: retrieve,     *)
(* which works on a handle of its own and takes indexes and graphs from    *)
(* caches that all requests share, and traverse_answer, which takes the    *)
(* mutex once for every hop and may find another operation each time.      *)
(*                                                                         *)
(* Sources: mnem-http/src/handlers.rs (retrieve, retrieve_full), state.rs  *)
(* (IndexCache, GraphCache), routes/traverse.rs; mnem-core/src/retrieve/   *)
(* retriever.rs, fusion.rs, community_filter.rs.                           *)
(*                                                                         *)
(* Left out: what a ranker computes (Similarity is any table of scores),   *)
(* the second lane and its fusion, the reranker, the property filter, and  *)
(* how a community or a PageRank is found: they may bring in any nodes.    *)
(***************************************************************************)
EXTENDS Naturals, Sequences, FiniteSets, SequencesExt

CONSTANTS Node, Model,   \* nodes; models that embed them
          Request,       \* requests being answered at once
          Contents,      \* what an operation may hold
          Similarity,    \* the score of each node for the query
          Tokens,        \* the length of each rendered node
          Wanted,        \* the sets of nodes that label and time filters let pass
          Depth, MaxExpand, MaxFrontier, Hops,   \* limits of the walks
          Budget, Limit, \* of an answer: tokens, items
          MaxOps         \* bound on the operations

Content == [nodes : SUBSET Node, edges : SUBSET (Node \X Node), tombs : SUBSET Node,
            vectors : [Model -> SUBSET Node]]

ASSUME ReadPathAssumption ==
    /\ Contents \subseteq Content
    /\ \A c \in Contents : c.edges \subseteq c.nodes \X c.nodes
    /\ Similarity \in [Node -> Nat] /\ Tokens \in [Node -> Nat]
    /\ Wanted \subseteq SUBSET Node

VARIABLES repo,     \* the contents of the operations
          served,   \* the one whose handle is in place
          index,    \* the index cache: its operation, and what each index was built from
          graph,    \* the graph cache
          request   \* what each request is doing

readVars == <<repo, served, index, graph, request>>

NoOp == 0

Idle == [step |-> "idle"]

Live(o) == repo[o].nodes \ repo[o].tombs

After(o, n) == {m \in Node : <<n, m>> \in repo[o].edges}

ReadInit ==
    /\ repo \in {<<c>> : c \in Contents} /\ served = 1
    /\ index = [op |-> NoOp, built |-> [m \in Model |-> NoOp]]
    /\ graph = [op |-> NoOp, edges |-> NoOp, knn |-> {}, community |-> {}]
    /\ request = [p \in Request |-> Idle]

\* A handler that writes puts its new handle in place.
Write ==
    /\ Len(repo) < MaxOps
    /\ \E c \in Contents : repo' = Append(repo, c)
    /\ served' = Len(repo')
    /\ UNCHANGED <<index, graph, request>>

\* One that commits, lets go of the mutex and takes it again may come late.
PutBack ==
    /\ served' \in DOMAIN repo \ {served}
    /\ UNCHANGED <<repo, index, graph, request>>

-----------------------------------------------------------------------------
(***************************************************************************)
(* The caches.  Each holds what was built for one operation, that of the   *)
(* request that came last; a request of another one empties it first.      *)
(***************************************************************************)
\* Mutated form: what was built stays.
ReconciledNever(cache, o) == [cache EXCEPT !.op = o]

ReconciledIndex(cache, o) ==
    IF cache.op = o THEN cache ELSE [op |-> o, built |-> [m \in Model |-> NoOp]]

WithIndex(cache, o, m) ==
    LET c == ReconciledIndex(cache, o)
    IN  IF c.built[m] # NoOp THEN c ELSE [c EXCEPT !.built[m] = o]

ReconciledGraph(cache, o) ==
    IF cache.op = o THEN cache
    ELSE [op |-> o, edges |-> NoOp, knn |-> {}, community |-> {}]

\* The authored edges, or else the nearest neighbours in an index that is not empty.
WithAdjacency(cache, o, m, i) ==
    LET c == ReconciledGraph(cache, o)
        d == IF c.edges # NoOp THEN c ELSE [c EXCEPT !.edges = o]
    IN  IF repo[d.edges].edges # {} \/ repo[i].vectors[m] = {} THEN d
        ELSE [d EXCEPT !.knn = {[op |-> i, model |-> m]}]

\* The operations that the adjacency handed out is made of.
AdjacencyOf(cache) == {cache.edges} \cup {k.op : k \in cache.knn}

\* The communities, once found, serve every request of the operation, of any model.
WithCommunity(cache, o, m, i) ==
    LET c == ReconciledGraph(cache, o)
    IN  IF c.community # {} THEN c
        ELSE LET d == WithAdjacency(c, o, m, i) IN [d EXCEPT !.community = AdjacencyOf(d)]

-----------------------------------------------------------------------------
(***************************************************************************)
(* retrieve: a handle of its own, the index, then as asked for the         *)
(* communities and the adjacency, each under its lock for a moment.        *)
(***************************************************************************)
BeginRetrieve(p) ==
    /\ request[p] = Idle
    /\ \E m \in Model, wanted \in Wanted, mode \in {"none", "decay", "ppr"}, community \in BOOLEAN :
          request' = [request EXCEPT ![p] =
              [step |-> "index", op |-> served, model |-> m, wanted |-> wanted, mode |-> mode,
               community |-> community, index |-> NoOp, from |-> {}]]
    /\ UNCHANGED <<repo, served, index, graph>>

AfterCommunity(r) == IF r.mode = "ppr" THEN "graph" ELSE "answer"

TakeIndex(p) ==
    LET r == request[p] IN
    /\ r.step = "index"
    /\ index' = WithIndex(index, r.op, r.model)
    /\ request' = [request EXCEPT
           ![p].step = IF r.community THEN "community" ELSE AfterCommunity(r),
           ![p].index = index'.built[r.model], ![p].from = {index'.built[r.model]}]
    /\ UNCHANGED <<repo, served, graph>>

TakeCommunity(p) ==
    LET r == request[p] IN
    /\ r.step = "community"
    /\ graph' = WithCommunity(graph, r.op, r.model, r.index)
    /\ request' = [request EXCEPT ![p].step = AfterCommunity(r), ![p].from = @ \cup graph'.community]
    /\ UNCHANGED <<repo, served, index>>

TakeAdjacency(p) ==
    LET r == request[p] IN
    /\ r.step = "graph"
    /\ graph' = WithAdjacency(graph, r.op, r.model, r.index)
    /\ request' = [request EXCEPT ![p].step = "answer", ![p].from = @ \cup AdjacencyOf(graph')]
    /\ UNCHANGED <<repo, served, index>>

-----------------------------------------------------------------------------
(***************************************************************************)
(* The answer is computed from what the request holds, which nobody        *)
(* changes any more.  A candidate list maps nodes to their scores.         *)
(***************************************************************************)
Decayed(score) == score \div 2

\* The candidates that exist, are wanted and are not tombstoned.
Passing(r, found) ==
    [n \in DOMAIN found \cap Live(r.op) \cap r.wanted |-> found[n]]

Hits(r) ==
    [n \in repo[r.index].vectors[r.model] |-> Similarity[n]]

\* The expander appends any members of the communities of some hits, at a part of the
\* score of one of them.
Members(r, hits) ==
    IF ~r.community THEN {<<>>}
    ELSE {<<>>} \cup UNION {[new -> {Decayed(hits[s]) : s \in DOMAIN hits}] :
                            new \in SUBSET (Node \ DOMAIN hits)}

\* One hop of the walk.  A hop that finds too many nodes is the last one, and so is one
\* that finds none.
Hop(o, w) ==
    LET reached == (UNION {After(o, n) : n \in DOMAIN w.frontier}) \ w.seen
        best(m) == Max({Decayed(w.frontier[n]) : n \in {k \in DOMAIN w.frontier : m \in After(o, k)}})
        next    == [m \in reached |-> best(m)]
    IN  IF ~w.on THEN w
        ELSE [best |-> next @@ w.best, frontier |-> next, seen |-> w.seen \cup reached,
              on |-> reached # {} /\ Cardinality(reached) <= MaxFrontier]

Walked(o, found) ==
    FoldFunction(LAMBDA hop, w : Hop(o, w),
                 [best |-> <<>>, frontier |-> found, seen |-> DOMAIN found, on |-> TRUE],
                 [hop \in 1..Depth |-> hop]).best

\* Neighbours of the candidates: PageRank may rank any nodes, or find the graph too big
\* and leave it to the walk.
Near(r, found) ==
    IF r.mode = "none" \/ found = <<>> THEN {<<>>}
    ELSE {Walked(r.op, found)} \cup
         (IF r.mode = "ppr" THEN UNION {[new -> {1}] : new \in SUBSET (Node \ DOMAIN found)} ELSE {})

\* Mutated form: tombstoned neighbours stay.
KeptOfAll(r, near) ==
    {top \cap repo[r.op].nodes \cap r.wanted : top \in
        {top \in SUBSET DOMAIN near : Cardinality(top) <= MaxExpand}}

\* Of the neighbours that are not tombstoned, the best MaxExpand; those of them that the
\* label and time filters stop are dropped after the cut.
Kept(r, near) ==
    LET live == DOMAIN near \ repo[r.op].tombs IN
    {top \cap repo[r.op].nodes \cap r.wanted : top \in
        {top \in SUBSET live :
            /\ Cardinality(top) = Min({MaxExpand, Cardinality(live)})
            /\ \A n \in top, m \in live \ top : near[n] >= near[m]}}

\* With expansion the list is sorted again; without it, members follow the hits.
Ordered(r, hits, scores, list) ==
    \A i, j \in DOMAIN list : i < j =>
        IF r.mode = "none" /\ {list[i], list[j]} \ hits # {}
        THEN list[j] \in hits => list[i] \in hits
        ELSE scores[list[i]] >= scores[list[j]]

\* The items packed, in the order of the list; one that does not fit is passed over.
Packed(list, items) ==
    \A i \in DOMAIN list :
        LET before == items \cap {list[j] : j \in 1..(i - 1)} IN
        list[i] \in items <=>
            /\ Cardinality(before) < Limit
            /\ MapThenSumSet(LAMBDA n : Tokens[n], before \cup {list[i]}) <= Budget

Answer(p) ==
    LET r == request[p] IN
    /\ r.step = "answer"
    /\ \E members \in Members(r, Hits(r)) :
         LET found == Passing(r, Hits(r) @@ members) IN
         \E near \in Near(r, found) : \E kept \in Kept(r, near) :
           LET all == DOMAIN found \cup kept
               scores == found @@ [n \in kept |-> near[n]] IN
           \E list \in {s \in SetToSeqs(all) : Ordered(r, DOMAIN Hits(r), scores, s)} :
           \E items \in {S \in SUBSET all : Packed(list, S)} :
                request' = [request EXCEPT ![p] =
                    [step |-> "answered", op |-> r.op, wanted |-> r.wanted, from |-> r.from,
                     items |-> items]]
    /\ UNCHANGED <<repo, served, index, graph>>

-----------------------------------------------------------------------------
(***************************************************************************)
(* traverse_answer: the mutex is taken for the start and for each hop.     *)
(***************************************************************************)
\* The start: a node named by the request, or what the search for its text finds in the
\* operation served now.
BeginTraverse(p) ==
    /\ request[p] = Idle
    /\ \/ /\ \E n \in Node :
              request' = [request EXCEPT ![p] =
                  [step |-> "hop", hop |-> 0, ops |-> {served}, told |-> {},
                   frontier |-> {n} \cap Live(served), visited |-> {n} \cap Live(served)]]
          /\ UNCHANGED index
       \/ \E m \in Model :
            /\ index' = WithIndex(index, served, m)
            /\ LET seeds == repo[index'.built[m]].vectors[m] \cap Live(served) IN
               request' = [request EXCEPT ![p] =
                   [step |-> "hop", hop |-> 0, ops |-> {served}, told |-> {},
                    frontier |-> seeds, visited |-> seeds]]
    /\ UNCHANGED <<repo, served, graph>>

\* Mutated form: a tombstoned neighbour is walked on from.
NextFrontierOfAll(o, r) == (UNION {After(o, n) : n \in r.frontier}) \ r.visited

NextFrontier(o, r) == ((UNION {After(o, n) : n \in r.frontier}) \ r.visited) \ repo[o].tombs

\* One hop in whatever is served now; the time budget may end the walk after any hop.
TraverseHop(p) ==
    LET r == request[p] IN
    /\ r.step = "hop"
    /\ \E stop \in BOOLEAN :
         /\ (r.hop + 1 = Hops \/ NextFrontier(served, r) = {}) => stop
         /\ request' = [request EXCEPT ![p] =
                [r EXCEPT !.step = IF stop THEN "traversed" ELSE "hop",
                          !.hop = @ + 1, !.ops = @ \cup {served},
                          !.told = @ \cup {<<r.hop, n>> : n \in r.frontier \cap repo[served].nodes},
                          !.frontier = NextFrontier(served, r),
                          !.visited = @ \cup UNION {After(served, n) : n \in r.frontier}]]
    /\ UNCHANGED <<repo, served, index, graph>>

Finish(p) ==
    /\ request[p].step \in {"answered", "traversed"}
    /\ request' = [request EXCEPT ![p] = Idle]
    /\ UNCHANGED <<repo, served, index, graph>>

ReadNext ==
    \/ Write \/ PutBack
    \/ \E p \in Request :
          \/ BeginRetrieve(p) \/ TakeIndex(p) \/ TakeCommunity(p) \/ TakeAdjacency(p) \/ Answer(p)
          \/ BeginTraverse(p) \/ TraverseHop(p) \/ Finish(p)

ReadSpec == ReadInit /\ [][ReadNext]_readVars

-----------------------------------------------------------------------------
(***************************************************************************)
(* Properties.                                                             *)
(***************************************************************************)
\* Whatever a request is handed from the caches was built from the operation it works on,
\* though requests that work on others empty and fill the same caches between its steps
\* (retrieve_full).
AnswersFromOwnOp ==
    \A p \in Request :
        request[p].step \in {"community", "graph", "answer", "answered"} =>
            request[p].from = {request[p].op}

\* Nothing in an answer is tombstoned, missing or filtered out in the operation of its
\* request, also when an edge, a community or an index leads to it (execute).
AnswersLiveAndWanted ==
    \A p \in Request :
        request[p].step = "answered" =>
            request[p].items \subseteq Live(request[p].op) \cap request[p].wanted

\* What traverse_answer reports at a hop was live, and next to a node it reported one hop
\* before, in an operation served while it ran; and it reports no node twice.
TraverseFollowsLive ==
    \A p \in Request :
        request[p].step \in {"hop", "traversed"} =>
            LET r == request[p] IN
            \A t \in r.told :
                /\ \E o \in r.ops :
                      /\ t[2] \in Live(o)
                      /\ t[1] > 0 => \E m \in Node : <<t[1] - 1, m>> \in r.told /\ t[2] \in After(o, m)
                /\ \A u \in r.told : u[2] = t[2] => u = t
=============================================================================
