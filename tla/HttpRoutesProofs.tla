-------------------------- MODULE HttpRoutesProofs --------------------------
(***************************************************************************)
(* Proofs about the routes of the HTTP server other than the handlers that *)
(* write.  ReadPath: what requests are handed belongs to their own         *)
(* operation, and what they return is live.  RemotePush: what a client has *)
(* pushed stays.                                                           *)
(***************************************************************************)
EXTENDS ReadPath, RemotePush, TLAPS

\* The fields of a request that the properties depend on.
Retrieving == {"index", "community", "graph", "answer"}

(***************************************************************************)
(* The inductive invariant.  A cache holds only what was built for the     *)
(* operation it is keyed by, so a request that reconciles it first is      *)
(* handed only what is its own.                                            *)
(***************************************************************************)
CachesOwn ==
    /\ \A m \in Model : index.built[m] \in {NoOp, index.op}
    /\ graph.edges \in {NoOp, graph.op}
    /\ \A k \in graph.knn : k.op = graph.op
    /\ graph.community \in {{}, {graph.op}}

ShapeOK ==
    /\ repo \in Seq(Content) /\ served \in DOMAIN repo
    /\ \A o \in DOMAIN repo : repo[o].edges \subseteq repo[o].nodes \X repo[o].nodes
    /\ index.op \in Nat /\ index.built \in [Model -> Nat]
    /\ index = [op |-> index.op, built |-> index.built]
    /\ graph = [op |-> graph.op, edges |-> graph.edges, knn |-> graph.knn, community |-> graph.community]
    /\ request = [p \in Request |-> request[p]]

\* The invariant of a request r in a repository R.
HeldOwn(R, r) ==
    r.step \in Retrieving =>
        /\ r \in [step : Retrieving, op : DOMAIN R, model : Model, wanted : Wanted,
                  mode : {"none", "decay", "ppr"}, community : BOOLEAN, index : Nat, from : SUBSET Nat]
        /\ r.step # "index" => r.index = r.op /\ r.from = {r.op}

LiveIn(R, o) == R[o].nodes \ R[o].tombs

AnsweredWell(R, r) ==
    r.step = "answered" =>
        /\ r.op \in DOMAIN R /\ r.from = {r.op}
        /\ r.items \subseteq LiveIn(R, r.op) \cap r.wanted

\* Node n may be reported at hop h.
Follows(R, ops, told, h, n) ==
    \E o \in ops :
        /\ n \in LiveIn(R, o)
        /\ h > 0 => \E m \in Node : <<h - 1, m>> \in told /\ <<m, n>> \in R[o].edges

\* What is still to be reported has been visited and never reported before.
TraversesWell(R, r) ==
    r.step \in {"hop", "traversed"} =>
        /\ r \in [step : {"hop", "traversed"}, hop : Nat, ops : SUBSET DOMAIN R,
                  told : SUBSET (Nat \X Node), frontier : SUBSET Node, visited : SUBSET Node]
        /\ r.frontier \subseteq r.visited
        /\ \A n \in r.frontier : Follows(R, r.ops, r.told, r.hop, n)
        /\ \A t \in r.told :
              /\ Follows(R, r.ops, r.told, t[1], t[2]) /\ t[2] \in r.visited \ r.frontier
              /\ \A u \in r.told : u[2] = t[2] => u = t

RequestOK(R, r) == HeldOwn(R, r) /\ AnsweredWell(R, r) /\ TraversesWell(R, r)

IInv == ShapeOK /\ CachesOwn /\ \A p \in Request : RequestOK(repo, request[p])

USE DEF Retrieving

LEMMA InitHolds == ReadInit => IInv
<1> SUFFICES ASSUME ReadInit PROVE IInv
  OBVIOUS
<1>1. PICK c \in Contents : repo = <<c>>
  BY DEF ReadInit
<1>2. c \in Content /\ c.edges \subseteq c.nodes \X c.nodes
  BY <1>1, ReadPathAssumption
<1>3. ShapeOK
  BY <1>1, <1>2 DEF ReadInit, ShapeOK, NoOp
<1>4. CachesOwn
  BY DEF ReadInit, CachesOwn, NoOp
<1>5. \A p \in Request : RequestOK(repo, request[p])
  BY DEF ReadInit, RequestOK, HeldOwn, AnsweredWell, TraversesWell, Idle
<1> QED
  BY <1>3, <1>4, <1>5 DEF IInv

\* The caches, after a request of operation o has used them.
LEMMA IndexOwn ==
    ASSUME IInv, NEW o \in DOMAIN repo, NEW m \in Model
    PROVE  LET c == WithIndex(index, o, m) IN
           /\ c.op = o /\ c.built[m] = o /\ c.built \in [Model -> Nat]
           /\ c = [op |-> c.op, built |-> c.built]
           /\ \A k \in Model : c.built[k] \in {NoOp, o}
<1>1. o \in Nat /\ o # NoOp
  BY DEF IInv, ShapeOK, NoOp
<1> DEFINE d == ReconciledIndex(index, o)
<1>2. /\ d.op = o /\ d.built \in [Model -> Nat] /\ d = [op |-> d.op, built |-> d.built]
      /\ \A k \in Model : d.built[k] \in {NoOp, o}
  BY <1>1 DEF IInv, ShapeOK, CachesOwn, ReconciledIndex, NoOp
<1> HIDE DEF d
<1>3. CASE d.built[m] # NoOp
  BY <1>1, <1>2, <1>3 DEF WithIndex, d
<1>4. CASE d.built[m] = NoOp
  <2>1. WithIndex(index, o, m) = [op |-> o, built |-> [d.built EXCEPT ![m] = o]]
    BY <1>2, <1>4 DEF WithIndex, d
  <2> QED
    BY <1>1, <1>2, <2>1
<1> QED
  BY <1>3, <1>4

LEMMA GraphOwn ==
    ASSUME IInv, NEW o \in DOMAIN repo, NEW m \in Model
    PROVE  LET a == WithAdjacency(graph, o, m, o)
               c == WithCommunity(graph, o, m, o)
           IN  /\ a = [op |-> o, edges |-> o, knn |-> a.knn, community |-> a.community]
               /\ \A k \in a.knn : k.op = o
               /\ a.community \in {{}, {o}} /\ AdjacencyOf(a) = {o}
               /\ c = [op |-> o, edges |-> c.edges, knn |-> c.knn, community |-> {o}]
               /\ c.edges \in {NoOp, o} /\ \A k \in c.knn : k.op = o
<1>1. o \in Nat /\ o # NoOp
  BY DEF IInv, ShapeOK, NoOp
<1> DEFINE Own(g) == /\ g = [op |-> o, edges |-> g.edges, knn |-> g.knn, community |-> g.community]
                     /\ g.edges \in {NoOp, o} /\ g.community \in {{}, {o}}
                     /\ \A k \in g.knn : k.op = o
           r == ReconciledGraph(graph, o)
<1>2. Own(r)
  BY <1>1 DEF IInv, ShapeOK, CachesOwn, ReconciledGraph, NoOp
<1>3. ASSUME NEW g, Own(g)
      PROVE  LET a == WithAdjacency(g, o, m, o) IN
             Own(a) /\ a.edges = o /\ AdjacencyOf(a) = {o} /\ a.community = g.community
  <2> DEFINE d == IF g.edges # NoOp THEN g ELSE [g EXCEPT !.edges = o]
             a == WithAdjacency(g, o, m, o)
  <2>1. ReconciledGraph(g, o) = g
    BY <1>3 DEF ReconciledGraph
  <2>2. Own(d) /\ d.edges = o /\ d.community = g.community
    BY <1>1, <1>3
  <2>3. a = d \/ a = [d EXCEPT !.knn = {[op |-> o, model |-> m]}]
    BY <2>1 DEF WithAdjacency
  <2>4. Own(a) /\ a.edges = o /\ a.community = g.community
    <3> HIDE DEF a, d
    <3> QED
      BY <2>2, <2>3
  <2>5. AdjacencyOf(a) = {o}
    <3> HIDE DEF a, d
    <3> QED
      BY <2>4 DEF AdjacencyOf
  <2> QED
    BY <2>4, <2>5
<1>4. LET a == WithAdjacency(graph, o, m, o) IN Own(a) /\ a.edges = o /\ AdjacencyOf(a) = {o}
  <2>1. WithAdjacency(graph, o, m, o) = WithAdjacency(r, o, m, o)
    BY <1>2 DEF WithAdjacency, ReconciledGraph
  <2> QED
    BY <1>2, <1>3, <2>1
<1>5. LET c == WithCommunity(graph, o, m, o) IN Own(c) /\ c.community = {o}
  <2>1. CASE r.community # {}
    BY <1>2, <2>1 DEF WithCommunity
  <2>2. CASE r.community = {}
    <3> DEFINE d == WithAdjacency(r, o, m, o)
    <3>1. Own(d) /\ AdjacencyOf(d) = {o}
      BY <1>2, <1>3
    <3> DEFINE c == WithCommunity(graph, o, m, o)
    <3>2. c = [d EXCEPT !.community = AdjacencyOf(d)]
      BY <2>2 DEF WithCommunity
    <3>3. Own(c) /\ c.community = {o}
      <4> HIDE DEF c, d
      <4> QED
        BY <3>1, <3>2
    <3> QED
      BY <3>3
  <2> QED
    BY <2>1, <2>2
<1> QED
  BY <1>4, <1>5

-----------------------------------------------------------------------------
\* A request stays as good as it is while operations are added and another is served.
LEMMA RequestKept ==
    ASSUME NEW R, NEW S, NEW r, DOMAIN R \subseteq DOMAIN S, \A o \in DOMAIN R : S[o] = R[o],
           RequestOK(R, r)
    PROVE  RequestOK(S, r)
<1>1. HeldOwn(S, r)
  BY DEF RequestOK, HeldOwn
<1>2. AnsweredWell(S, r)
  BY DEF RequestOK, AnsweredWell, LiveIn
<1>3. TraversesWell(S, r)
  <2>1. ASSUME NEW h, NEW n, r.ops \subseteq DOMAIN R, Follows(R, r.ops, r.told, h, n)
        PROVE  Follows(S, r.ops, r.told, h, n)
    BY <2>1 DEF Follows, LiveIn
  <2> QED
    BY <2>1 DEF RequestOK, TraversesWell
<1> QED
  BY <1>1, <1>2, <1>3 DEF RequestOK

\* An action of request p that leaves the operations alone needs to say only what it makes
\* of p and the caches.
LEMMA StepOf ==
    ASSUME IInv, NEW p \in Request, NEW s, request' = [request EXCEPT ![p] = s],
           UNCHANGED <<repo, served>>, RequestOK(repo, s),
           index'.op \in Nat, index'.built \in [Model -> Nat],
           index' = [op |-> index'.op, built |-> index'.built],
           graph' = [op |-> graph'.op, edges |-> graph'.edges, knn |-> graph'.knn,
                     community |-> graph'.community],
           CachesOwn'
    PROVE  IInv'
<1>1. ShapeOK'
  BY DEF IInv, ShapeOK
<1>2. request'[p] = s /\ \A q \in Request \ {p} : request'[q] = request[q]
  BY DEF IInv, ShapeOK
<1>3. \A q \in Request : RequestOK(repo', request'[q])
  <2> TAKE q \in Request
  <2>1. CASE q = p
    BY <1>2, <2>1
  <2>2. CASE q # p
    BY <1>2, <2>2 DEF IInv
  <2> QED
    BY <2>1, <2>2
<1> QED
  BY <1>1, <1>3 DEF IInv

LEMMA CachesStay ==
    ASSUME IInv
    PROVE  /\ index.op \in Nat /\ index.built \in [Model -> Nat]
           /\ index = [op |-> index.op, built |-> index.built]
           /\ graph = [op |-> graph.op, edges |-> graph.edges, knn |-> graph.knn,
                       community |-> graph.community]
           /\ CachesOwn
BY DEF IInv, ShapeOK

LEMMA WriteHolds == ASSUME IInv, Write \/ PutBack PROVE IInv'
<1>1. ShapeOK' /\ DOMAIN repo \subseteq DOMAIN repo' /\ \A o \in DOMAIN repo : repo'[o] = repo[o]
  <2>1. CASE Write
    <3>1. PICK c \in Contents : repo' = Append(repo, c)
      BY <2>1 DEF Write
    <3>2. c \in Content /\ c.edges \subseteq c.nodes \X c.nodes
      BY ReadPathAssumption
    <3>3. /\ repo' \in Seq(Content) /\ DOMAIN repo' = DOMAIN repo \cup {Len(repo')}
          /\ Len(repo') \in DOMAIN repo'
          /\ \A o \in DOMAIN repo' : repo'[o] = IF o \in DOMAIN repo THEN repo[o] ELSE c
      BY <3>1, <3>2 DEF IInv, ShapeOK
    <3> QED
      BY <2>1, <3>2, <3>3 DEF IInv, ShapeOK, Write
  <2>2. CASE PutBack
    BY <2>2 DEF IInv, ShapeOK, PutBack
  <2> QED
    BY <2>1, <2>2
<1>2. UNCHANGED <<index, graph, request>>
  BY DEF Write, PutBack
<1>3. CachesOwn'
  BY <1>2 DEF IInv, CachesOwn
<1>4. \A p \in Request : RequestOK(repo', request'[p])
  BY <1>1, <1>2, RequestKept DEF IInv
<1> QED
  BY <1>1, <1>3, <1>4 DEF IInv

LEMMA BeginRetrieveHolds == ASSUME IInv, NEW p \in Request, BeginRetrieve(p) PROVE IInv'
<1>1. PICK m \in Model, wanted \in Wanted, mode \in {"none", "decay", "ppr"}, community \in BOOLEAN :
         request' = [request EXCEPT ![p] =
              [step |-> "index", op |-> served, model |-> m, wanted |-> wanted, mode |-> mode,
               community |-> community, index |-> NoOp, from |-> {}]]
  BY DEF BeginRetrieve
<1> DEFINE s == [step |-> "index", op |-> served, model |-> m, wanted |-> wanted, mode |-> mode,
                 community |-> community, index |-> NoOp, from |-> {}]
<1>2. RequestOK(repo, s)
  <2>1. served \in DOMAIN repo /\ NoOp \in Nat
    BY DEF IInv, ShapeOK, NoOp
  <2> QED
    BY <1>1, <2>1 DEF RequestOK, HeldOwn, AnsweredWell, TraversesWell
<1> HIDE DEF s
<1>3. CachesOwn' /\ index' = index /\ graph' = graph
  BY DEF BeginRetrieve, IInv, CachesOwn
<1> QED
  BY <1>1, <1>2, <1>3, CachesStay, StepOf DEF BeginRetrieve, s

LEMMA TakeIndexHolds == ASSUME IInv, NEW p \in Request, TakeIndex(p) PROVE IInv'
<1> DEFINE r == request[p]
           phase == IF r.community THEN "community" ELSE AfterCommunity(r)
           s == [r EXCEPT !.step = phase, !.index = index'.built[r.model],
                          !.from = {index'.built[r.model]}]
<1>1. r.step = "index" /\ r.op \in DOMAIN repo /\ r.model \in Model
      /\ r \in [step : Retrieving, op : DOMAIN repo, model : Model, wanted : Wanted,
               mode : {"none", "decay", "ppr"}, community : BOOLEAN, index : Nat, from : SUBSET Nat]
  BY DEF TakeIndex, IInv, RequestOK, HeldOwn
<1>2. index' = WithIndex(index, r.op, r.model)
  BY DEF TakeIndex
<1>3. /\ index'.op = r.op /\ index'.built[r.model] = r.op /\ index'.built \in [Model -> Nat]
      /\ index' = [op |-> index'.op, built |-> index'.built]
      /\ \A k \in Model : index'.built[k] \in {NoOp, r.op}
  BY <1>1, <1>2, IndexOwn
<1>4. request' = [request EXCEPT ![p] = s] /\ UNCHANGED <<repo, served, graph>>
  BY DEF TakeIndex, IInv, ShapeOK
<1>5. phase \in Retrieving
  BY DEF AfterCommunity
<1>6. RequestOK(repo, s)
  <2> DEFINE o == r.op
  <2>1. s = [r EXCEPT !.step = phase, !.index = o, !.from = {o}] /\ o \in Nat
    BY <1>1, <1>3 DEF IInv, ShapeOK
  <2> HIDE DEF phase, r, s, o
  <2>2. /\ s.step = phase /\ s.op = r.op /\ s.index = o /\ s.from = {o}
        /\ s \in [step : Retrieving, op : DOMAIN repo, model : Model, wanted : Wanted,
                  mode : {"none", "decay", "ppr"}, community : BOOLEAN, index : Nat,
                  from : SUBSET Nat]
    BY <1>1, <1>5, <2>1
  <2> QED
    BY <1>5, <2>2 DEF o, RequestOK, HeldOwn, AnsweredWell, TraversesWell
<1>7. CachesOwn'
  BY <1>3, <1>4 DEF IInv, CachesOwn
<1>8. index'.op \in Nat
  BY <1>1, <1>3 DEF IInv, ShapeOK
<1> HIDE DEF s
<1> QED
  BY <1>3, <1>4, <1>6, <1>7, <1>8, CachesStay, StepOf

LEMMA TakeGraphHolds ==
    ASSUME IInv, NEW p \in Request, TakeCommunity(p) \/ TakeAdjacency(p) PROVE IInv'
<1> DEFINE r == request[p]
<1>1. r.step \in {"community", "graph"} /\ r.op \in DOMAIN repo /\ r.model \in Model
      /\ r \in [step : Retrieving, op : DOMAIN repo, model : Model, wanted : Wanted,
               mode : {"none", "decay", "ppr"}, community : BOOLEAN, index : Nat, from : SUBSET Nat]
      /\ r.index = r.op /\ r.from = {r.op}
  BY DEF TakeCommunity, TakeAdjacency, IInv, RequestOK, HeldOwn
<1>2. /\ \E phase \in Retrieving \ {"index"} :
            request' = [request EXCEPT ![p] = [r EXCEPT !.step = phase, !.from = {r.op}]]
      /\ graph' = [op |-> r.op, edges |-> graph'.edges, knn |-> graph'.knn,
                   community |-> graph'.community]
      /\ graph'.edges \in {NoOp, r.op} /\ (\A k \in graph'.knn : k.op = r.op)
      /\ graph'.community \in {{}, {r.op}}
  <2>1. CASE TakeCommunity(p)
    <3>1. graph' = WithCommunity(graph, r.op, r.model, r.op)
      BY <1>1, <2>1 DEF TakeCommunity
    <3>2. /\ graph' = [op |-> r.op, edges |-> graph'.edges, knn |-> graph'.knn, community |-> {r.op}]
          /\ graph'.edges \in {NoOp, r.op} /\ \A k \in graph'.knn : k.op = r.op
      BY <1>1, <3>1, GraphOwn
    <3>3. graph'.community = {r.op}
      BY <3>2
    <3>4. r.from \cup graph'.community = {r.op}
      BY <1>1, <3>3
    <3>5. request' = [request EXCEPT ![p] = [r EXCEPT !.step = AfterCommunity(r),
                                                      !.from = r.from \cup graph'.community]]
      BY <2>1 DEF TakeCommunity
    <3>6. AfterCommunity(r) \in Retrieving \ {"index"}
      BY DEF AfterCommunity
    <3> QED
      BY <3>2, <3>3, <3>4, <3>5, <3>6
  <2>2. CASE TakeAdjacency(p)
    <3>1. graph' = WithAdjacency(graph, r.op, r.model, r.op)
      BY <1>1, <2>2 DEF TakeAdjacency
    <3>2. /\ graph' = [op |-> r.op, edges |-> r.op, knn |-> graph'.knn, community |-> graph'.community]
          /\ (\A k \in graph'.knn : k.op = r.op) /\ graph'.community \in {{}, {r.op}}
          /\ AdjacencyOf(graph') = {r.op}
      BY <1>1, <3>1, GraphOwn
    <3>3. graph'.edges = r.op
      BY <3>2
    <3>4. r.from \cup AdjacencyOf(graph') = {r.op}
      BY <1>1, <3>2
    <3>5. request' = [request EXCEPT ![p] = [r EXCEPT !.step = "answer",
                                                      !.from = r.from \cup AdjacencyOf(graph')]]
      BY <2>2 DEF TakeAdjacency
    <3> QED
      BY <3>2, <3>3, <3>4, <3>5
  <2> QED
    BY <2>1, <2>2
<1>3. PICK phase \in Retrieving \ {"index"} :
         request' = [request EXCEPT ![p] = [r EXCEPT !.step = phase, !.from = {r.op}]]
  BY <1>2
<1> DEFINE s == [r EXCEPT !.step = phase, !.from = {r.op}]
<1>4. RequestOK(repo, s)
  <2>1. {r.op} \in SUBSET Nat
    BY <1>1 DEF IInv, ShapeOK
  <2> HIDE DEF r
  <2> QED
    BY <1>1, <1>3, <2>1 DEF RequestOK, HeldOwn, AnsweredWell, TraversesWell
<1>5. UNCHANGED <<repo, served, index>>
  BY DEF TakeCommunity, TakeAdjacency
<1>6. graph'.op = r.op
  BY <1>2
<1>7. CachesOwn'
  BY <1>2, <1>5, <1>6 DEF IInv, CachesOwn
<1>8. graph' = [op |-> graph'.op, edges |-> graph'.edges, knn |-> graph'.knn,
                community |-> graph'.community]
  BY <1>2, <1>6
<1> HIDE DEF s
<1> QED
  BY <1>2, <1>3, <1>4, <1>5, <1>7, <1>8, CachesStay, StepOf DEF s

-----------------------------------------------------------------------------
\* What an answer holds passed the filters, as a candidate or as one of its neighbours.
LEMMA AnswerHolds == ASSUME IInv, NEW p \in Request, Answer(p) PROVE IInv'
<1> DEFINE r == request[p]
           Good == LiveIn(repo, r.op) \cap r.wanted
<1>1. r.step = "answer" /\ r.op \in DOMAIN repo /\ r.from = {r.op}
  BY DEF Answer, IInv, RequestOK, HeldOwn
<1>2. PICK members \in Members(r, Hits(r)) :
        LET found == Passing(r, Hits(r) @@ members) IN
        \E near \in Near(r, found) : \E kept \in Kept(r, near) :
        \E items \in SUBSET (DOMAIN found \cup kept) :
               request' = [request EXCEPT ![p] =
                   [step |-> "answered", op |-> r.op, wanted |-> r.wanted, from |-> r.from,
                    items |-> items]]
  BY DEF Answer
<1> DEFINE found == Passing(r, Hits(r) @@ members)
<1>3. PICK near, kept :
        /\ kept \in Kept(r, near)
        /\ \E items \in SUBSET (DOMAIN found \cup kept) :
               request' = [request EXCEPT ![p] =
                   [step |-> "answered", op |-> r.op, wanted |-> r.wanted, from |-> r.from,
                    items |-> items]]
  BY <1>2
<1>4. PICK items \in SUBSET (DOMAIN found \cup kept) :
        request' = [request EXCEPT ![p] =
            [step |-> "answered", op |-> r.op, wanted |-> r.wanted, from |-> r.from,
             items |-> items]]
  BY <1>3
<1>5. DOMAIN found \subseteq Good
  BY DEF Passing, Live, LiveIn
<1>6. kept \subseteq Good
  <2>1. PICK top \in SUBSET (DOMAIN near \ repo[r.op].tombs) :
          kept = top \cap repo[r.op].nodes \cap r.wanted
    BY <1>3 DEF Kept
  <2> QED
    BY <2>1 DEF LiveIn
<1>7. items \subseteq Good
  <2> HIDE DEF Good, found
  <2> QED
    BY <1>4, <1>5, <1>6
<1> DEFINE s == [step |-> "answered", op |-> r.op, wanted |-> r.wanted, from |-> r.from,
                 items |-> items]
<1>9. RequestOK(repo, s)
  BY <1>1, <1>7 DEF RequestOK, HeldOwn, AnsweredWell, TraversesWell
<1>10. UNCHANGED <<repo, served, index, graph>> /\ request' = [request EXCEPT ![p] = s]
  BY <1>4 DEF Answer
<1>11. CachesOwn'
  BY <1>10 DEF IInv, CachesOwn
<1> HIDE DEF s
<1> QED
  BY <1>9, <1>10, <1>11, CachesStay, StepOf

-----------------------------------------------------------------------------
(***************************************************************************)
(* The walk.  A node is told at the hop after the one that found it, by a  *)
(* node told at that hop, and what has been found is never found again.    *)
(***************************************************************************)
LEMMA SeedsOK ==
    ASSUME NEW R, NEW o \in DOMAIN R, NEW S \in SUBSET Node, S \subseteq LiveIn(R, o)
    PROVE  RequestOK(R, [step |-> "hop", hop |-> 0, ops |-> {o}, told |-> {},
                         frontier |-> S, visited |-> S])
BY DEF RequestOK, HeldOwn, AnsweredWell, TraversesWell, Follows

LEMMA BeginTraverseHolds == ASSUME IInv, NEW p \in Request, BeginTraverse(p) PROVE IInv'
<1> DEFINE Walk(S) == [step |-> "hop", hop |-> 0, ops |-> {served}, told |-> {},
                       frontier |-> S, visited |-> S]
<1>1. /\ served \in DOMAIN repo /\ served \in Nat
      /\ \A o \in DOMAIN repo : \A m \in Model : repo[o].vectors[m] \in SUBSET Node
  <2>1. /\ served \in DOMAIN repo /\ served \in Nat
        /\ \A o \in DOMAIN repo : repo[o] \in Content
    BY DEF IInv, ShapeOK
  <2> QED
    BY <2>1 DEF Content
<1>2. UNCHANGED <<repo, served, graph>>
  BY DEF BeginTraverse
<1>3. PICK S \in SUBSET Node :
        S \subseteq Live(served) /\ request' = [request EXCEPT ![p] = Walk(S)]
  <2>1. CASE \E n \in Node : request' = [request EXCEPT ![p] = Walk({n} \cap Live(served))]
    BY <2>1
  <2>2. CASE \E m \in Model :
               /\ index' = WithIndex(index, served, m)
               /\ request' = [request EXCEPT
                                ![p] = Walk(repo[index'.built[m]].vectors[m] \cap Live(served))]
    <3>1. PICK m \in Model :
               /\ index' = WithIndex(index, served, m)
               /\ request' = [request EXCEPT
                                ![p] = Walk(repo[index'.built[m]].vectors[m] \cap Live(served))]
      BY <2>2
    <3>2. index'.built[m] = served
      BY <1>1, <3>1, IndexOwn
    <3> QED
      BY <1>1, <3>1, <3>2
  <2> QED
    BY <2>1, <2>2 DEF BeginTraverse
<1>4. RequestOK(repo, Walk(S))
  BY <1>1, <1>3, SeedsOK DEF Live, LiveIn
<1>5. index' = index \/ \E m \in Model : index' = WithIndex(index, served, m)
  BY DEF BeginTraverse
<1>6. /\ index'.op \in Nat /\ index'.built \in [Model -> Nat]
      /\ index' = [op |-> index'.op, built |-> index'.built]
      /\ \A m \in Model : index'.built[m] \in {NoOp, index'.op}
  BY <1>1, <1>5, IndexOwn DEF IInv, ShapeOK, CachesOwn
<1>7. CachesOwn'
  BY <1>2, <1>6 DEF IInv, CachesOwn
<1> HIDE DEF Walk
<1> QED
  BY <1>2, <1>3, <1>4, <1>6, <1>7, CachesStay, StepOf

LEMMA HopOK ==
    ASSUME IInv, NEW r, RequestOK(repo, r), r.step = "hop", NEW phase \in {"hop", "traversed"}
    PROVE  RequestOK(repo,
               [r EXCEPT !.step = phase, !.hop = r.hop + 1, !.ops = r.ops \cup {served},
                         !.told = r.told \cup {<<r.hop, n>> : n \in r.frontier \cap repo[served].nodes},
                         !.frontier = NextFrontier(served, r),
                         !.visited = r.visited \cup UNION {After(served, n) : n \in r.frontier}])
<1> DEFINE added == {<<r.hop, n>> : n \in r.frontier \cap repo[served].nodes}
           found == UNION {After(served, n) : n \in r.frontier}
           ops == r.ops \cup {served}
           told == r.told \cup added
           visited == r.visited \cup found
           next == NextFrontier(served, r)
           s == [r EXCEPT !.step = phase, !.hop = r.hop + 1, !.ops = ops, !.told = told,
                          !.frontier = next, !.visited = visited]
<1>1. /\ r \in [step : {"hop", "traversed"}, hop : Nat, ops : SUBSET DOMAIN repo,
                told : SUBSET (Nat \X Node), frontier : SUBSET Node, visited : SUBSET Node]
      /\ r.frontier \subseteq r.visited
      /\ \A n \in r.frontier : Follows(repo, r.ops, r.told, r.hop, n)
      /\ \A t \in r.told : /\ Follows(repo, r.ops, r.told, t[1], t[2])
                           /\ t[2] \in r.visited \ r.frontier
                           /\ \A u \in r.told : u[2] = t[2] => u = t
  BY DEF RequestOK, TraversesWell
<1>2. /\ served \in DOMAIN repo
      /\ repo[served].edges \subseteq repo[served].nodes \X repo[served].nodes
  BY DEF IInv, ShapeOK
<1>3. next = (found \ r.visited) \ repo[served].tombs
  BY DEF NextFrontier
<1>4. found \subseteq Node
  BY DEF After
<1>5. /\ ops \in SUBSET DOMAIN repo /\ told \in SUBSET (Nat \X Node) /\ visited \in SUBSET Node
      /\ next \in SUBSET Node /\ next \subseteq visited /\ next \cap r.visited = {}
  <2> HIDE DEF found, next
  <2> QED
    BY <1>1, <1>2, <1>3, <1>4
<1>6. ASSUME NEW h, NEW n, Follows(repo, r.ops, r.told, h, n)
      PROVE  Follows(repo, ops, told, h, n)
  BY <1>6 DEF Follows
<1>7. ASSUME NEW n \in next PROVE Follows(repo, ops, told, r.hop + 1, n)
  <2>1. PICK m \in r.frontier : n \in After(served, m)
    BY <1>3
  <2>2. <<m, n>> \in repo[served].edges /\ m \in Node
    BY <1>1, <2>1 DEF After
  <2>3. m \in repo[served].nodes /\ n \in repo[served].nodes
    BY <1>2, <2>2
  <2>4. <<r.hop, m>> \in told
    BY <2>1, <2>3
  <2>5. n \in LiveIn(repo, served)
    BY <1>3, <2>3 DEF LiveIn
  <2>6. (r.hop + 1) - 1 = r.hop
    BY <1>1
  <2> QED
    BY <2>2, <2>4, <2>5, <2>6 DEF Follows
<1>8. ASSUME NEW t \in told
      PROVE  /\ Follows(repo, ops, told, t[1], t[2])
             /\ t[2] \in visited \ next
             /\ \A u \in told : u[2] = t[2] => u = t
  <2>1. \A u \in added : u = <<r.hop, u[2]>> /\ u[1] = r.hop /\ u[2] \in r.frontier
    OBVIOUS
  <2> HIDE DEF added, found, next
  <2>2. CASE t \in r.told
    BY <1>1, <1>5, <1>6, <2>1, <2>2
  <2>3. CASE t \in added
    BY <1>1, <1>5, <1>6, <2>1, <2>3
  <2> QED
    BY <2>2, <2>3
<1>9. /\ s \in [step : {"hop", "traversed"}, hop : Nat, ops : SUBSET DOMAIN repo,
                told : SUBSET (Nat \X Node), frontier : SUBSET Node, visited : SUBSET Node]
      /\ s.step = phase /\ s.hop = r.hop + 1 /\ s.ops = ops /\ s.told = told
      /\ s.frontier = next /\ s.visited = visited
  <2>1. r.hop + 1 \in Nat
    BY <1>1
  <2> HIDE DEF ops, told, visited, next
  <2> QED
    BY <1>1, <1>5, <2>1
<1>10. RequestOK(repo, s)
  <2> HIDE DEF s, ops, told, visited, next
  <2> QED
    BY <1>5, <1>7, <1>8, <1>9 DEF RequestOK, HeldOwn, AnsweredWell, TraversesWell
<1> QED
  BY <1>10

LEMMA TraverseHopHolds == ASSUME IInv, NEW p \in Request, TraverseHop(p) PROVE IInv'
<1> DEFINE r == request[p]
           Hopped(phase) ==
               [r EXCEPT !.step = phase, !.hop = r.hop + 1, !.ops = r.ops \cup {served},
                         !.told = r.told \cup {<<r.hop, n>> : n \in r.frontier \cap repo[served].nodes},
                         !.frontier = NextFrontier(served, r),
                         !.visited = r.visited \cup UNION {After(served, n) : n \in r.frontier}]
<1>1. /\ r.step = "hop"
      /\ \E stop \in BOOLEAN :
            request' = [request EXCEPT ![p] = Hopped(IF stop THEN "traversed" ELSE "hop")]
      /\ UNCHANGED <<repo, served, index, graph>>
  BY DEF TraverseHop
<1>2. PICK phase \in {"hop", "traversed"} : request' = [request EXCEPT ![p] = Hopped(phase)]
  BY <1>1
<1>3. RequestOK(repo, Hopped(phase))
  BY <1>1, HopOK DEF IInv
<1>4. CachesOwn'
  BY <1>1 DEF IInv, CachesOwn
<1> HIDE DEF Hopped
<1> QED
  BY <1>1, <1>2, <1>3, <1>4, CachesStay, StepOf

LEMMA FinishHolds == ASSUME IInv, NEW p \in Request, Finish(p) PROVE IInv'
<1>1. RequestOK(repo, Idle)
  BY DEF RequestOK, HeldOwn, AnsweredWell, TraversesWell, Idle
<1>2. UNCHANGED <<repo, served, index, graph>> /\ request' = [request EXCEPT ![p] = Idle]
  BY DEF Finish
<1>3. CachesOwn'
  BY <1>2 DEF IInv, CachesOwn
<1> QED
  BY <1>1, <1>2, <1>3, CachesStay, StepOf

-----------------------------------------------------------------------------
LEMMA StepHolds == IInv /\ [ReadNext]_readVars => IInv'
<1> SUFFICES ASSUME IInv, [ReadNext]_readVars PROVE IInv'
  OBVIOUS
<1>1. CASE Write \/ PutBack
  BY <1>1, WriteHolds
<1>2. CASE \E p \in Request : BeginRetrieve(p)
  BY <1>2, BeginRetrieveHolds
<1>3. CASE \E p \in Request : TakeIndex(p)
  BY <1>3, TakeIndexHolds
<1>4. CASE \E p \in Request : TakeCommunity(p) \/ TakeAdjacency(p)
  BY <1>4, TakeGraphHolds
<1>5. CASE \E p \in Request : Answer(p)
  BY <1>5, AnswerHolds
<1>6. CASE \E p \in Request : BeginTraverse(p)
  BY <1>6, BeginTraverseHolds
<1>7. CASE \E p \in Request : TraverseHop(p)
  BY <1>7, TraverseHopHolds
<1>8. CASE \E p \in Request : Finish(p)
  BY <1>8, FinishHolds
<1>9. CASE UNCHANGED readVars
  BY <1>9 DEF readVars, IInv, ShapeOK, CachesOwn
<1> QED
  BY <1>1, <1>2, <1>3, <1>4, <1>5, <1>6, <1>7, <1>8, <1>9 DEF ReadNext

\* The invariant says each of the properties.
LEMMA InvImplies == IInv => AnswersFromOwnOp /\ AnswersLiveAndWanted /\ TraverseFollowsLive
<1> SUFFICES ASSUME IInv PROVE AnswersFromOwnOp /\ AnswersLiveAndWanted /\ TraverseFollowsLive
  OBVIOUS
<1>1. AnswersFromOwnOp
  BY DEF IInv, RequestOK, HeldOwn, AnsweredWell, AnswersFromOwnOp
<1>2. AnswersLiveAndWanted
  BY DEF IInv, RequestOK, AnsweredWell, AnswersLiveAndWanted, Live, LiveIn
<1>3. TraverseFollowsLive
  <2> SUFFICES ASSUME NEW p \in Request, request[p].step \in {"hop", "traversed"},
                      NEW t \in request[p].told
               PROVE  /\ \E o \in request[p].ops :
                           /\ t[2] \in Live(o)
                           /\ t[1] > 0 => \E m \in Node : /\ <<t[1] - 1, m>> \in request[p].told
                                                          /\ t[2] \in After(o, m)
                      /\ \A u \in request[p].told : u[2] = t[2] => u = t
    BY DEF TraverseFollowsLive
  <2>1. /\ Follows(repo, request[p].ops, request[p].told, t[1], t[2])
        /\ t[2] \in Node /\ \A u \in request[p].told : u[2] = t[2] => u = t
    BY DEF IInv, RequestOK, TraversesWell
  <2> QED
    BY <2>1 DEF Follows, Live, LiveIn, After
<1> QED
  BY <1>1, <1>2, <1>3

\* Whatever requests share the caches, each is handed what was built from its own operation.
THEOREM AlwaysFromOwnOp == ReadSpec => []AnswersFromOwnOp
BY InitHolds, StepHolds, InvImplies, PTL DEF ReadSpec

\* Nothing tombstoned, missing or filtered out reaches an answer, however it was found.
THEOREM AlwaysLiveAndWanted == ReadSpec => []AnswersLiveAndWanted
BY InitHolds, StepHolds, InvImplies, PTL DEF ReadSpec

\* What a walk reports was reached, hop by hop, through nodes it reported that were live
\* when it passed, though other operations come to be served between its hops.
THEOREM AlwaysFollowsLive == ReadSpec => []TraverseFollowsLive
BY InitHolds, StepHolds, InvImplies, PTL DEF ReadSpec

-----------------------------------------------------------------------------
(***************************************************************************)
(* Pushes.  The invariant: what has been made has all its ancestors made;  *)
(* every head is something made; and a push that is under way replaces     *)
(* something else by what its client has made, all of which is in the      *)
(* store once the blocks are sent.  So the commit that a push replaces is  *)
(* known to the server as one, and the check of ancestry takes place.      *)
(***************************************************************************)
Made == {x \in Id : past[x] # {}}

PastsOK == \A x \in Made : x \in past[x] /\ \A y \in past[x] : y \in Made /\ past[y] \subseteq past[x]

MadeOK == heads \cup unchecked \subseteq Made /\ \A c \in Client : head[c] \in Made \cup {None}

PushOK ==
    \A c \in Client :
        /\ step[c] # "idle" => new[c] \in Made /\ new[c] # old[c]
        /\ step[c] = "pushed" => past[new[c]] \subseteq blocks

RemoteInv == RemoteTypeOK /\ PastsOK /\ MadeOK /\ PushOK /\ PushesKept

LEMMA FreshIsUnmade == ASSUME NEW S PROVE \A x \in Fresh(S) : x \in S /\ past[x] = {}
BY DEF Fresh

\* Something new is made over what is there.
LEMMA Creating ==
    ASSUME RemoteInv, NEW x \in Id, past[x] = {}, NEW P \in SUBSET Id, Create(x, P)
    PROVE  /\ past' \in [Id -> SUBSET Id] /\ PastsOK'
           /\ Made' = Made \cup {x} /\ \A y \in Id \ {x} : past'[y] = past[y]
<1>1. past \in [Id -> SUBSET Id] /\ PastsOK
  BY DEF RemoteInv, RemoteTypeOK
<1>2. Past(P) \subseteq Id
  BY <1>1 DEF Past
<1>3. /\ past' \in [Id -> SUBSET Id] /\ past'[x] = {x} \cup Past(P)
      /\ \A y \in Id \ {x} : past'[y] = past[y]
  BY <1>1, <1>2 DEF Create
<1>4. Made' = Made \cup {x} /\ x \notin Made
  BY <1>3 DEF Made
<1>5. ASSUME NEW y \in Made PROVE past'[y] = past[y]
  BY <1>3, <1>4, <1>5 DEF Made
<1>6. ASSUME NEW z \in Made'
      PROVE  z \in past'[z] /\ \A y \in past'[z] : y \in Made' /\ past'[y] \subseteq past'[z]
  <2>1. CASE z = x
    <3>1. ASSUME NEW y \in Past(P) PROVE y \in Made /\ past[y] \subseteq Past(P)
      <4>1. PICK q \in P : y \in past[q]
        BY <3>1 DEF Past
      <4>2. q \in Made
        BY <4>1 DEF Made
      <4> QED
        BY <1>1, <4>1, <4>2 DEF PastsOK, Past
    <3> QED
      BY <1>3, <1>4, <1>5, <2>1, <3>1
  <2>2. CASE z \in Made
    BY <1>1, <1>4, <1>5, <2>2 DEF PastsOK
  <2> QED
    BY <1>4, <1>6, <2>1, <2>2
<1> QED
  BY <1>3, <1>4, <1>6 DEF PastsOK

\* Nothing that was kept is lost by making more.
LEMMA KeptByMaking ==
    ASSUME PushesKept, past \in [Id -> SUBSET Id],
           \A x \in Id : past[x] \subseteq past'[x] , UNCHANGED <<accepted, unchecked>>,
           heads \cap Commit \subseteq heads', heads \subseteq Id, unchecked \subseteq Id
    PROVE  PushesKept'
BY DEF PushesKept, Past, Id

LEMMA RemoteInit == Init => RemoteInv
<1> SUFFICES ASSUME Init PROVE RemoteInv
  OBVIOUS
<1>1. past \in [Id -> SUBSET Id] /\ Root \in Id /\ past[Root] = {Root}
  BY RemotePushAssumption DEF Init, Id
<1>2. Made = {Root}
  BY <1>1 DEF Init, Made
<1> QED
  BY <1>1, <1>2, RemotePushAssumption
     DEF Init, RemoteInv, RemoteTypeOK, PastsOK, MadeOK, PushOK, PushesKept, Id

\* A write of the server, or a commit of a client: more is made, no push is touched.
LEMMA RemoteByMaking ==
    ASSUME RemoteInv, NEW x \in Id, past[x] = {}, NEW P \in SUBSET Id, Create(x, P),
           UNCHANGED <<blocks, old, new, step, history>>,
           heads' \subseteq Id, heads' \subseteq Made \cup {x}, heads' \cap Commit = heads \cap Commit,
           handle' \in Op \cup {None}, head' \in [Client -> Commit \cup {None}],
           \A c \in Client : head'[c] \in Made \cup {x, None}
    PROVE  RemoteInv'
<1>0. /\ RemoteTypeOK /\ PastsOK /\ MadeOK /\ PushOK /\ PushesKept
      /\ blocks' = blocks /\ old' = old /\ new' = new /\ step' = step
      /\ accepted' = accepted /\ unchecked' = unchecked
  BY DEF RemoteInv, history
<1>1. /\ past' \in [Id -> SUBSET Id] /\ PastsOK'
      /\ Made' = Made \cup {x} /\ \A y \in Id \ {x} : past'[y] = past[y]
  BY Creating
<1>2. x \notin Made /\ \A y \in Made : past'[y] = past[y]
  BY <1>1 DEF Made
<1>3. RemoteTypeOK'
  <2>1. \A h \in heads' \cap Commit : h \in Made /\ past[h] \subseteq blocks
    BY <1>0 DEF RemoteTypeOK, MadeOK
  <2>2. \A h \in heads' \cap Commit : past'[h] \subseteq blocks'
    BY <1>0, <1>2, <2>1
  <2> QED
    BY <1>0, <1>1, <2>2 DEF RemoteTypeOK
<1>4. MadeOK'
  BY <1>0, <1>1 DEF MadeOK
<1>5. PushOK'
  BY <1>0, <1>1, <1>2 DEF PushOK
<1>6. PushesKept'
  <2>1. \A y \in Id : past[y] \subseteq past'[y]
    BY <1>1
  <2>2. past \in [Id -> SUBSET Id] /\ heads \subseteq Id /\ unchecked \subseteq Id
    BY <1>0 DEF RemoteTypeOK, MadeOK, Made
  <2>3. heads \cap Commit \subseteq heads'
    OBVIOUS
  <2> QED
    BY <1>0, <2>1, <2>2, <2>3, KeptByMaking
<1> QED
  BY <1>1, <1>3, <1>4, <1>5, <1>6 DEF RemoteInv

\* The server accepts a push: the head that it replaces is in the past of the new one, is
\* no commit, or could not be checked.
LEMMA RemoteByAccepting ==
    ASSUME RemoteInv, NEW c \in Client, Accept(c) \/ AcceptUnchecked(c)
    PROVE  RemoteInv'
<1>0. RemoteTypeOK /\ PastsOK /\ MadeOK /\ PushOK /\ PushesKept
  BY DEF RemoteInv
<1>1. /\ step[c] = "pushed" /\ old[c] \in heads /\ Replace(old[c], new[c])
      /\ accepted' = accepted \cup {new[c]} /\ EndPush(c)
      /\ past' = past /\ blocks' = blocks /\ handle' = handle
      /\ (\/ Descends(old[c], new[c]) /\ unchecked' = unchecked
          \/ unchecked' = unchecked \cup {old[c]})
  BY DEF Accept, AcceptUnchecked
<1>2. /\ new[c] \in Made /\ new[c] \in Commit /\ new[c] # old[c] /\ past[new[c]] \subseteq blocks
      /\ old[c] \in Made
  BY <1>0, <1>1, RemotePushAssumption DEF PushOK, MadeOK, RemoteTypeOK, Made, Id
<1>3. heads' = (heads \cup {new[c]}) \ {old[c]} /\ new[c] \in heads'
  BY <1>1, <1>2 DEF Replace
<1>4. Made' = Made /\ PastsOK'
  BY <1>0, <1>1 DEF Made, PastsOK
<1>5. /\ head' = head /\ step' \in [Client -> {"idle", "listed", "pushed"}]
      /\ old' \in [Client -> Id \cup {None}] /\ new' \in [Client -> Commit \cup {None}]
      /\ step'[c] = "idle"
      /\ \A d \in Client \ {c} : step'[d] = step[d] /\ old'[d] = old[d] /\ new'[d] = new[d]
  BY <1>0, <1>1 DEF EndPush, RemoteTypeOK
<1>6. RemoteTypeOK'
  BY <1>0, <1>1, <1>2, <1>3, <1>5 DEF RemoteTypeOK, Made
<1>7. MadeOK'
  BY <1>0, <1>1, <1>2, <1>3, <1>4, <1>5 DEF MadeOK
<1>8. PushOK'
  BY <1>0, <1>1, <1>4, <1>5 DEF PushOK
<1>9. PushesKept'
  <2>1. ASSUME old[c] \in Commit, unchecked' = unchecked, Descends(old[c], new[c])
        PROVE  past[old[c]] \subseteq past[new[c]]
    <3>1. old[c] \in past[old[c]] /\ past[old[c]] \subseteq blocks
      BY <1>0, <1>1, <1>2, <2>1 DEF PastsOK, RemoteTypeOK
    <3>2. old[c] \in past[new[c]]
      BY <2>1, <3>1 DEF Descends, IsCommit
    <3> QED
      BY <1>0, <1>2, <3>2 DEF PastsOK
  <2>2. unchecked \subseteq unchecked'
    BY <1>1
  <2>3. ASSUME NEW x \in (heads \cap Commit) \cup unchecked
        PROVE  \E y \in (heads' \cap Commit) \cup unchecked' : past[x] \subseteq past[y]
    <3>1. CASE x = old[c] /\ x \in Commit /\ x \notin unchecked'
      BY <1>1, <1>2, <1>3, <2>1, <3>1
    <3>2. CASE x # old[c] \/ x \in unchecked'
      BY <1>3, <2>2, <2>3, <3>2
    <3> QED
      BY <2>2, <2>3, <3>1, <3>2
  <2>4. new[c] \in past[new[c]]
    BY <1>0, <1>2 DEF PastsOK
  <2>5. ASSUME NEW a \in accepted'
        PROVE  \E y \in (heads' \cap Commit) \cup unchecked' : a \in past'[y]
    <3>1. CASE a = new[c]
      BY <1>1, <1>2, <1>3, <2>4, <3>1
    <3>2. CASE a \in accepted
      <4>1. PICK x \in (heads \cap Commit) \cup unchecked : a \in past[x]
        BY <1>0, <3>2 DEF PushesKept, Past
      <4> QED
        BY <1>1, <2>3, <4>1
    <3> QED
      BY <1>1, <2>5, <3>1, <3>2
  <2> QED
    BY <2>5 DEF PushesKept, Past
<1> QED
  BY <1>4, <1>6, <1>7, <1>8, <1>9 DEF RemoteInv

\* Steps that make nothing and leave the heads: of the server, and of a client that
\* follows the remote, begins a push, sends its blocks or gives up.
LEMMA RemoteByWaiting ==
    ASSUME RemoteInv, UNCHANGED <<past, heads, history>>, blocks \subseteq blocks',
           handle' \in Op \cup {None},
           head' \in [Client -> Commit \cup {None}], \A c \in Client : head'[c] \in Made \cup {None},
           old' \in [Client -> Id \cup {None}], new' \in [Client -> Commit \cup {None}],
           step' \in [Client -> {"idle", "listed", "pushed"}],
           \A c \in Client : step'[c] # "idle" => new'[c] \in Made /\ new'[c] # old'[c],
           \A c \in Client : step'[c] = "pushed" => past[new'[c]] \subseteq blocks'
    PROVE  RemoteInv'
<1>0. /\ RemoteTypeOK /\ PastsOK /\ MadeOK /\ PushOK /\ PushesKept
      /\ past' = past /\ heads' = heads /\ accepted' = accepted /\ unchecked' = unchecked
  BY DEF RemoteInv, history
<1>1. Made' = Made /\ PastsOK'
  BY <1>0 DEF Made, PastsOK
<1>2. RemoteTypeOK'
  BY <1>0 DEF RemoteTypeOK
<1>3. MadeOK' /\ PushOK'
  BY <1>0, <1>1 DEF MadeOK, PushOK
<1>4. PushesKept'
  BY <1>0 DEF PushesKept, Past
<1> QED
  BY <1>1, <1>2, <1>3, <1>4 DEF RemoteInv

LEMMA RemoteByServer ==
    ASSUME RemoteInv, LocalWrite \/ Stop \/ BootSingle
    PROVE  RemoteInv'
<1>0. RemoteTypeOK /\ MadeOK /\ PushOK
  BY DEF RemoteInv
<1>1. CASE LocalWrite
  <2>1. PICK o \in Fresh(Op) : /\ Create(o, {handle}) /\ heads' = (heads \cup {o}) \ {handle}
                               /\ handle' = o /\ handle # None
                               /\ UNCHANGED <<blocks, clientVars, history>>
    BY <1>1 DEF LocalWrite
  <2>2. o \in Op /\ o \in Id /\ past[o] = {} /\ handle \in Op /\ {handle} \in SUBSET Id
    BY <1>0, <2>1, FreshIsUnmade DEF Id, RemoteTypeOK
  <2>3. heads' \cap Commit = heads \cap Commit
    BY <2>1, <2>2, RemotePushAssumption
  <2>4. heads' \subseteq Id /\ heads' \subseteq Made \cup {o}
    BY <1>0, <2>1, <2>2 DEF RemoteTypeOK, MadeOK
  <2>5. /\ head' = head /\ UNCHANGED <<blocks, old, new, step, history>>
    BY <2>1 DEF clientVars
  <2>6. /\ head' \in [Client -> Commit \cup {None}] /\ handle' \in Op \cup {None}
        /\ \A c \in Client : head'[c] \in Made \cup {o, None}
    BY <1>0, <2>1, <2>2, <2>5 DEF RemoteTypeOK, MadeOK
  <2> QED
    BY <2>1, <2>2, <2>3, <2>4, <2>5, <2>6, RemoteByMaking
<1>2. CASE Stop \/ BootSingle
  <2>1. /\ UNCHANGED <<past, heads, history>> /\ blocks' = blocks /\ handle' \in Op \cup {None}
        /\ head' = head /\ old' = old /\ new' = new /\ step' = step
    BY <1>2 DEF Stop, BootSingle, clientVars
  <2> QED
    BY <1>0, <2>1, RemoteByWaiting DEF RemoteTypeOK, MadeOK, PushOK
<1> QED
  BY <1>1, <1>2

LEMMA RemoteByClient ==
    ASSUME RemoteInv, NEW c \in Client, NewCommit(c) \/ FastForward(c) \/ MergeTip(c)
    PROVE  RemoteInv'
<1>0. RemoteTypeOK /\ MadeOK /\ PushOK
  BY DEF RemoteInv
<1>m. ASSUME NEW x \in Fresh(Commit), NEW P \in SUBSET Id, Create(x, P),
             head' = [head EXCEPT ![c] = x], UNCHANGED <<serverVars, old, new, step, history>>
      PROVE  RemoteInv'
  <2>1. x \in Commit /\ x \in Id /\ past[x] = {}
    BY FreshIsUnmade DEF Id
  <2>2. heads' = heads /\ blocks' = blocks /\ handle' = handle
    BY <1>m DEF serverVars
  <2>3. /\ heads' \subseteq Id /\ heads' \subseteq Made \cup {x} /\ handle' \in Op \cup {None}
        /\ head' \in [Client -> Commit \cup {None}]
        /\ \A d \in Client : head'[d] \in Made \cup {x, None}
    BY <1>0, <1>m, <2>1, <2>2 DEF RemoteTypeOK, MadeOK
  <2> QED
    BY <1>m, <2>1, <2>2, <2>3, RemoteByMaking
<1>1. CASE NewCommit(c)
  <2>1. PICK x \in Fresh(Commit) : Create(x, {head[c]} \ {None}) /\ head' = [head EXCEPT ![c] = x]
    BY <1>1 DEF NewCommit
  <2>2. {head[c]} \ {None} \in SUBSET Id
    BY <1>0 DEF RemoteTypeOK, Id
  <2> QED
    BY <1>1, <1>m, <2>1, <2>2 DEF NewCommit
<1>2. CASE MergeTip(c)
  <2>1. PICK t \in RemoteTip \cap Commit, x \in Fresh(Commit) :
            Create(x, {head[c], t}) /\ head' = [head EXCEPT ![c] = x]
    BY <1>2 DEF MergeTip
  <2>2. {head[c], t} \in SUBSET Id
    BY <1>0, <1>2, <2>1 DEF RemoteTypeOK, Id, MergeTip
  <2> QED
    BY <1>2, <1>m, <2>1, <2>2 DEF MergeTip
<1>3. CASE FastForward(c)
  <2>1. PICK t \in RemoteTip \cap Commit : head' = [head EXCEPT ![c] = t]
    BY <1>3 DEF FastForward
  <2>2. t \in Made /\ t \in Commit
    BY <1>0, <2>1 DEF RemoteTip, MadeOK
  <2>3. /\ UNCHANGED <<past, heads, history>> /\ blocks' = blocks /\ handle' = handle
        /\ old' = old /\ new' = new /\ step' = step
    BY <1>3 DEF FastForward, serverVars
  <2>4. head' \in [Client -> Commit \cup {None}] /\ \A d \in Client : head'[d] \in Made \cup {None}
    BY <1>0, <2>1, <2>2 DEF RemoteTypeOK, MadeOK
  <2> QED
    BY <1>0, <2>3, <2>4, RemoteByWaiting DEF RemoteTypeOK, PushOK
<1> QED
  BY <1>1, <1>2, <1>3

LEMMA RemoteByPushing ==
    ASSUME RemoteInv, NEW c \in Client, ListRefs(c) \/ PushBlocks(c) \/ Refuse(c)
    PROVE  RemoteInv'
<1>0. RemoteTypeOK /\ MadeOK /\ PushOK
  BY DEF RemoteInv
<1>1. CASE ListRefs(c)
  <2>1. PICK t \in RemoteTip \ {head[c]} : old' = [old EXCEPT ![c] = t]
    BY <1>1 DEF ListRefs
  <2>2. /\ new' = [new EXCEPT ![c] = head[c]] /\ step' = [step EXCEPT ![c] = "listed"]
        /\ UNCHANGED <<past, heads, history>> /\ blocks' = blocks /\ handle' = handle
        /\ head' = head /\ head[c] # None
    BY <1>1 DEF ListRefs, serverVars
  <2>3. t \in Id /\ t # head[c] /\ head[c] \in Made /\ head[c] \in Commit
    BY <1>0, <2>1, <2>2 DEF RemoteTip, RemoteTypeOK, MadeOK
  <2>4. /\ old' \in [Client -> Id \cup {None}] /\ new' \in [Client -> Commit \cup {None}]
        /\ step' \in [Client -> {"idle", "listed", "pushed"}]
        /\ step'[c] = "listed" /\ new'[c] = head[c] /\ old'[c] = t
        /\ \A d \in Client \ {c} : step'[d] = step[d] /\ old'[d] = old[d] /\ new'[d] = new[d]
    BY <1>0, <2>1, <2>2, <2>3 DEF RemoteTypeOK
  <2>5. /\ \A d \in Client : step'[d] # "idle" => new'[d] \in Made /\ new'[d] # old'[d]
        /\ \A d \in Client : step'[d] = "pushed" => past[new'[d]] \subseteq blocks'
    BY <1>0, <2>2, <2>3, <2>4 DEF PushOK
  <2> QED
    BY <1>0, <2>2, <2>4, <2>5, RemoteByWaiting DEF RemoteTypeOK, MadeOK
<1>2. CASE PushBlocks(c)
  <2>1. /\ step[c] = "listed" /\ blocks' = blocks \cup past[new[c]]
        /\ step' = [step EXCEPT ![c] = "pushed"]
        /\ UNCHANGED <<past, heads, history>> /\ handle' = handle
        /\ head' = head /\ old' = old /\ new' = new
    BY <1>2 DEF PushBlocks
  <2>2. /\ step' \in [Client -> {"idle", "listed", "pushed"}] /\ step'[c] = "pushed"
        /\ \A d \in Client \ {c} : step'[d] = step[d]
    BY <1>0, <2>1 DEF RemoteTypeOK
  <2>3. /\ \A d \in Client : step'[d] # "idle" => new'[d] \in Made /\ new'[d] # old'[d]
        /\ \A d \in Client : step'[d] = "pushed" => past[new'[d]] \subseteq blocks'
    BY <1>0, <2>1, <2>2 DEF PushOK
  <2> QED
    BY <1>0, <2>1, <2>2, <2>3, RemoteByWaiting DEF RemoteTypeOK, MadeOK
<1>3. CASE Refuse(c)
  <2>1. /\ EndPush(c) /\ UNCHANGED <<past, heads, history>> /\ blocks' = blocks /\ handle' = handle
    BY <1>3 DEF Refuse, serverVars
  <2>2. /\ head' = head /\ step' \in [Client -> {"idle", "listed", "pushed"}]
        /\ old' \in [Client -> Id \cup {None}] /\ new' \in [Client -> Commit \cup {None}]
        /\ step'[c] = "idle"
        /\ \A d \in Client \ {c} : step'[d] = step[d] /\ old'[d] = old[d] /\ new'[d] = new[d]
    BY <1>0, <2>1 DEF EndPush, RemoteTypeOK
  <2>3. /\ \A d \in Client : step'[d] # "idle" => new'[d] \in Made /\ new'[d] # old'[d]
        /\ \A d \in Client : step'[d] = "pushed" => past[new'[d]] \subseteq blocks'
    BY <1>0, <2>1, <2>2 DEF PushOK
  <2> QED
    BY <1>0, <2>1, <2>2, <2>3, RemoteByWaiting DEF RemoteTypeOK, MadeOK
<1> QED
  BY <1>1, <1>2, <1>3

LEMMA RemoteStep == RemoteInv /\ [Next]_remoteVars => RemoteInv'
<1> SUFFICES ASSUME RemoteInv, [Next]_remoteVars PROVE RemoteInv'
  OBVIOUS
<1>1. CASE UNCHANGED remoteVars
  <2>1. /\ UNCHANGED <<past, heads, history>> /\ blocks' = blocks /\ handle' = handle
        /\ head' = head /\ old' = old /\ new' = new /\ step' = step
    BY <1>1 DEF remoteVars, serverVars, clientVars
  <2> QED
    BY <2>1, RemoteByWaiting DEF RemoteInv, RemoteTypeOK, MadeOK, PushOK
<1> QED
  BY <1>1, RemoteByServer, RemoteByClient, RemoteByPushing, RemoteByAccepting DEF Next, Push

(***************************************************************************)
(* Types, and whatever commit is a head of the server, all of its history  *)
(* is in the server's store (push.rs: push-blocks before advance-head).    *)
(***************************************************************************)
THEOREM RemoteTypeCorrect == Spec => []RemoteTypeOK
<1>1. RemoteInv => RemoteTypeOK
  BY DEF RemoteInv
<1> QED
  BY <1>1, RemoteInit, RemoteStep, PTL DEF Spec

(***************************************************************************)
(* An acknowledged push stays in the past of a head, for any number of     *)
(* clients and whatever the server writes and restarts in between, unless  *)
(* it was replaced by a push whose check could not read the store.         *)
(***************************************************************************)
THEOREM PushesAreKept == Spec => []PushesKept
<1>1. RemoteInv => PushesKept
  BY DEF RemoteInv
<1> QED
  BY <1>1, RemoteInit, RemoteStep, PTL DEF Spec
=============================================================================
