------------------------- MODULE HttpServerProofs -------------------------
(***************************************************************************)
(* Proofs about HttpServer, for any number of requests and operations.     *)
(***************************************************************************)
EXTENDS HttpServer, OpLogProofs

-----------------------------------------------------------------------------
(***************************************************************************)
(* Types.  With them goes who may be at work: requests are in a handler    *)
(* only while the server is up, and one that has committed waits for the   *)
(* replacement of the handle with no call under way.                       *)
(***************************************************************************)
WorkOK ==
    /\ Active # {} => Up
    /\ Up => pc[Server] = "open"
    /\ \A p \in Request : IF p \in Active THEN pc[p] \in {"open", "ready"} ELSE pc[p] = "none"
    /\ \A p \in done : pc[p] = "open"
    /\ \A p \in Active : kind[p] \in (mix \cap HandlerKinds) \ {"gc"}

HttpTypes == HttpTypeOK /\ WorkOK

\* These steps are calls into the library.
LEMMA CallsAreSteps ==
    /\ Boot => Next
    /\ \A p \in Request : Begin(p) \/ WriteCommit(p) \/ PublishCommit(p) => Next
BY HttpServerAssumption DEF Boot, Begin, WriteCommit, PublishCommit, Next, Write, Request

LEMMA HttpTypesInit == HttpInit => HttpTypes
<1> SUFFICES ASSUME HttpInit PROVE HttpTypes
  OBVIOUS
<1>1. TypeOK
  BY TypeInit DEF HttpInit
<1>2. Active = {} /\ ~ Up
  BY HttpServerAssumption DEF HttpInit, Init, Active, Request, Up, Served
<1> QED
  BY <1>1, <1>2, HttpServerAssumption
     DEF HttpInit, Init, HttpTypes, HttpTypeOK, WorkOK, Request

LEMMA TypesByBoot == HttpTypes /\ Boot => HttpTypes'
<1> SUFFICES ASSUME HttpTypes, Boot PROVE HttpTypes'
  OBVIOUS
<1> USE HttpServerAssumption, OpLogAssumption
<1>0. TypeOK /\ TypeOK' /\ Active = {} /\ Active' = {}
  BY CallsAreSteps, TypeStep DEF HttpTypes, HttpTypeOK, WorkOK, Boot, Active
<1>1. \A p \in Request : pc'[p] = pc[p] /\ base'[p] = base[p]
  BY <1>0 DEF Boot, Open, OpenUninitialized, OpenSingle, OpenMany, WriteRoot, PublishRoot,
     Merge, WriteMerge, MergeFails, PublishMerge, Pin, TypeOK, Request
<1>2. Up' => pc'[Server] = "open"
  BY <1>0 DEF Boot, Open, OpenUninitialized, OpenSingle, OpenMany, WriteRoot, PublishRoot,
     Merge, WriteMerge, MergeFails, PublishMerge, Pin, TypeOK, Up, Served
<1>3. HttpTypeOK'
  BY <1>0, <1>1 DEF HttpTypes, HttpTypeOK, Boot, Active
<1>4. WorkOK'
  BY <1>0, <1>1, <1>2 DEF HttpTypes, WorkOK, Boot, HttpTypeOK
<1> QED
  BY <1>3, <1>4 DEF HttpTypes

LEMMA TypesByCrash == HttpTypes /\ Crash => HttpTypes'
<1> SUFFICES ASSUME HttpTypes, Crash PROVE HttpTypes'
  OBVIOUS
<1>1. TypeOK'
  BY OpLogAssumption DEF HttpTypes, HttpTypeOK, TypeOK, Crash, PCs
<1>2. Active' = {} /\ ~ Up'
  BY HttpServerAssumption DEF Crash, Active, Request, Up, Served
<1> QED
  BY <1>1, <1>2, HttpServerAssumption DEF Crash, HttpTypes, HttpTypeOK, WorkOK, Request

LEMMA TypesByHandling ==
    ASSUME HttpTypes, NEW p \in Request, Begin(p) \/ Handle(p)
    PROVE  HttpTypes'
<1> USE HttpServerAssumption, OpLogAssumption
<1>0. /\ TypeOK /\ HttpTypeOK /\ WorkOK /\ p \in Proc /\ p # Server
      /\ kind \in [Proc -> HandlerKinds \cup {"none"}] /\ Server \in Proc
      /\ "none" \notin HandlerKinds
  BY DEF HttpTypes, HttpTypeOK, Request, HandlerKinds
<1>1. CASE Begin(p)
  <2>1. TypeOK'
    BY <1>0, <1>1, CallsAreSteps, TypeStep
  <2>2. PICK k \in (mix \cap HandlerKinds) \ {"gc"} : kind' = [kind EXCEPT ![p] = k]
    BY <1>1 DEF Begin
  <2>3. /\ lock = Nobody /\ lock' = p /\ mix' = mix /\ done' = done /\ acked' = acked /\ Up
        /\ pc[p] = "none" /\ Pin(p, base[Server])
    BY <1>1 DEF Begin, CloneHandle
  <2>4. Active' = Active \cup {p} /\ p \notin Active
    BY <1>0, <2>2, <2>3 DEF Active, WorkOK, Request
  <2>5. base' = [base EXCEPT ![p] = base[Server]] /\ pc' = [pc EXCEPT ![p] = "open"]
    BY <2>3 DEF Pin
  <2>6. HttpTypeOK'
    <3>1. lock' \in Active' \cup {Nobody} /\ done' \subseteq Active' /\ kind' \in [Proc -> HandlerKinds \cup {"none"}]
      BY <1>0, <2>2, <2>3, <2>4 DEF HttpTypeOK
    <3>2. \A q \in Request : kind'[q] \in {"write", "bulk"} => lock' = q
      BY <1>0, <2>2, <2>3 DEF HttpTypeOK, Request
    <3>3. \A q \in Request : base'[q] # NoOp <=> q \in Active'
      BY <1>0, <2>3, <2>4, <2>5 DEF HttpTypeOK, Up, Served, TypeOK, Request
    <3> QED
      BY <1>0, <2>1, <2>3, <3>1, <3>2, <3>3 DEF HttpTypeOK
  <2>7. WorkOK'
    <3>1. Up' /\ pc'[Server] = "open"
      BY <1>0, <2>3, <2>5 DEF WorkOK, Up, Served, TypeOK
    <3> QED
      BY <1>0, <2>2, <2>3, <2>4, <2>5, <3>1 DEF WorkOK, HttpTypeOK, TypeOK, Request
  <2> QED
    BY <2>6, <2>7 DEF HttpTypes
<1>2. CASE Release(p)
  BY <1>0, <1>2 DEF Release, HttpTypes, HttpTypeOK, WorkOK, vars, Active, Up, Served, TypeOK
<1>3. CASE WriteCommit(p)
  <2>1. TypeOK'
    BY <1>0, <1>3, CallsAreSteps, TypeStep
  <2>2. pc' = [pc EXCEPT ![p] = "ready"] /\ UNCHANGED <<base, mix, lock, kind, done, acked>> /\ p \in Active \ done
    BY <1>3 DEF WriteCommit, WriteEdit
  <2>3. Active' = Active /\ Up' = Up
    BY <2>2 DEF Active, Up, Served
  <2>4. HttpTypeOK'
    BY <1>0, <2>1, <2>2, <2>3 DEF HttpTypeOK
  <2>5. WorkOK'
    BY <1>0, <2>2, <2>3 DEF WorkOK, TypeOK, Request, HttpTypeOK
  <2> QED
    BY <2>4, <2>5 DEF HttpTypes
<1>4. CASE PublishCommit(p)
  <2>1. TypeOK'
    BY <1>0, <1>4, CallsAreSteps, TypeStep
  <2>2. /\ pc[p] = "ready" /\ pc' = [pc EXCEPT ![p] = "open"] /\ base' = [base EXCEPT ![p] = new[p]]
        /\ UNCHANGED <<mix, lock, kind, acked>> /\ p \in Active /\ done' = done \cup {p}
    BY <1>4 DEF PublishCommit, PublishEdit, Pin
  <2>3. Active' = Active /\ Up' = Up /\ new[p] # NoOp
    BY <1>0, <2>2 DEF Active, Up, Served, TypeOK
  <2>4. HttpTypeOK'
    BY <1>0, <2>1, <2>2, <2>3 DEF HttpTypeOK, TypeOK
  <2>5. WorkOK'
    BY <1>0, <2>2, <2>3 DEF WorkOK, TypeOK, Request, HttpTypeOK
  <2> QED
    BY <2>4, <2>5 DEF HttpTypes
\* A handler that ends, with or without a new handle to serve.
<1>f. ASSUME Finish(p), TypeOK', Up => Up', UNCHANGED mix,
             \A q \in Request : base'[q] = IF q = p THEN NoOp ELSE base[q],
             acked' \subseteq OpId
      PROVE  HttpTypes'
  <2>1. /\ Active' = Active \ {p}
        /\ kind' \in [Proc -> HandlerKinds \cup {"none"}]
        /\ \A q \in Request \ {p} : kind'[q] = kind[q] /\ pc'[q] = pc[q]
        /\ pc'[p] = "none" /\ kind'[p] = "none" /\ pc'[Server] = pc[Server]
    BY <1>0, <1>f DEF Finish, Active, TypeOK, Request
  <2>2. /\ lock' \in Active' \cup {Nobody} /\ done' \subseteq Active'
        /\ \A q \in Request : kind'[q] \in {"write", "bulk"} => lock' = q
        /\ \A q \in Request : base'[q] # NoOp <=> q \in Active'
    BY <1>0, <1>f, <2>1 DEF Finish, HttpTypeOK, Request
  <2>3. HttpTypeOK'
    BY <1>0, <1>f, <2>1, <2>2 DEF HttpTypeOK
  <2>4. Up' => Up
    BY <1>0, <1>f, <2>1 DEF Up, Served, TypeOK, WorkOK
  <2>5. WorkOK'
    BY <1>0, <1>f, <2>1, <2>4 DEF WorkOK, Finish, HttpTypeOK
  <2> QED
    BY <2>3, <2>5 DEF HttpTypes
<1>5. CASE PublishUnread(p)
  <2>1. new[p] \in OpId
    BY <1>0, <1>5 DEF PublishUnread, TypeOK
  <2>2. TypeOK'
    BY <1>0, <1>5, <2>1 DEF PublishUnread, Publish, Update, Finish, TypeOK, PCs
  <2>3. Up' = Up /\ UNCHANGED mix /\ \A q \in Request : base'[q] = IF q = p THEN NoOp ELSE base[q]
    BY <1>0, <1>5 DEF PublishUnread, Up, Served, TypeOK, Request
  <2> QED
    BY <1>0, <1>5, <1>f, <2>2, <2>3 DEF PublishUnread, HttpTypeOK
<1>6. CASE Serve(p)
  <2>1. p \in Active /\ Up /\ pc[Server] = "open" /\ base[p] \in OpId
    BY <1>0, <1>6 DEF Serve, WorkOK, HttpTypeOK, TypeOK
  <2>2. base' = [base EXCEPT ![Server] = base[p], ![p] = NoOp]
    BY <1>6 DEF Serve
  <2>3. /\ base'[Server] = base[p] /\ base'[p] = NoOp
        /\ base' \in [Proc -> OpId \cup {NoOp}]
        /\ \A q \in Proc \ {p, Server} : base'[q] = base[q]
    BY <1>0, <2>1, <2>2 DEF TypeOK
  <2>4. TypeOK'
    BY <1>0, <1>6, <2>1, <2>3 DEF Serve, Finish, TypeOK, PCs
  <2>5. Up' /\ UNCHANGED mix /\ \A q \in Request : base'[q] = IF q = p THEN NoOp ELSE base[q]
    BY <1>0, <1>6, <2>1, <2>3 DEF Serve, Up, Served, Request
  <2>6. acked' \subseteq OpId
    BY <1>0, <1>6, <2>1 DEF Serve, HttpTypeOK
  <2> QED
    BY <1>6, <1>f, <2>4, <2>5, <2>6 DEF Serve
<1>7. CASE ServeGroup(p)
  <2>1. p \in Active /\ Up /\ pc[Server] = "open" /\ base[p] \in OpId
    BY <1>0, <1>7 DEF ServeGroup, WorkOK, HttpTypeOK, TypeOK
  <2>2. /\ base' = [base EXCEPT ![Server] = base[p]] /\ done' = done \ {p}
        /\ UNCHANGED <<mix, log, heads, published, pc, new, seen, lock, kind, acked>>
    BY <1>7 DEF ServeGroup
  <2>3. TypeOK' /\ Active' = Active /\ Up' /\ \A q \in Request : base'[q] = base[q]
    BY <1>0, <2>1, <2>2 DEF TypeOK, Active, Up, Served, Request
  <2>4. HttpTypeOK'
    BY <1>0, <2>2, <2>3 DEF HttpTypeOK
  <2>5. WorkOK'
    BY <1>0, <2>1, <2>2, <2>3 DEF WorkOK
  <2> QED
    BY <2>4, <2>5 DEF HttpTypes
<1>8. CASE Fail(p)
  <2>1. TypeOK'
    BY <1>0, <1>8 DEF Fail, Finish, TypeOK, PCs
  <2>2. Up' = Up /\ UNCHANGED mix /\ \A q \in Request : base'[q] = IF q = p THEN NoOp ELSE base[q]
    BY <1>0, <1>8 DEF Fail, Up, Served, TypeOK, Request
  <2> QED
    BY <1>0, <1>8, <1>f, <2>1, <2>2 DEF Fail, HttpTypeOK
<1> QED
  BY <1>1, <1>2, <1>3, <1>4, <1>5, <1>6, <1>7, <1>8 DEF Handle

LEMMA TypesByCollecting == HttpTypes /\ CollectGarbage => HttpTypes'
<1> SUFFICES ASSUME HttpTypes, CollectGarbage PROVE HttpTypes'
  OBVIOUS
<1>1. TypeOK'
  BY RecordTypes DEF HttpTypes, HttpTypeOK, TypeOK, CollectGarbage, procVars
<1>2. Active' = Active /\ Up' = Up
  BY DEF CollectGarbage, procVars, Active, Up, Served
<1> QED
  BY <1>1, <1>2 DEF HttpTypes, HttpTypeOK, WorkOK, CollectGarbage, procVars

LEMMA HttpTypesStep == HttpTypes /\ [HttpNext]_httpVars => HttpTypes'
<1> SUFFICES ASSUME HttpTypes, [HttpNext]_httpVars PROVE HttpTypes'
  OBVIOUS
<1>1. CASE UNCHANGED httpVars
  BY <1>1 DEF httpVars, vars, HttpTypes, HttpTypeOK, WorkOK, TypeOK, Active, Up, Served
<1> QED
  BY <1>1, TypesByBoot, TypesByCrash, TypesByCollecting, TypesByHandling DEF HttpNext

\* Whatever mix of handlers clients call, and wherever one fails or the server dies: the
\* mutex is held by a handler at work or free, and a handler that never drops it has it.
THEOREM HttpTypeCorrect == HttpSpec => []HttpTypeOK
<1>1. HttpTypes => HttpTypeOK
  BY DEF HttpTypes
<1> QED
  BY <1>1, HttpTypesInit, HttpTypesStep, PTL DEF HttpSpec

-----------------------------------------------------------------------------
(***************************************************************************)
(* Acknowledged writes.  Garbage collection is safe beside handlers that   *)
(* keep the mutex and whose reads do not fail, as in GcApart; beside the   *)
(* others it is not.                                                       *)
(*                                                                         *)
(* With that, the invariant of the operation log holds of the server too.  *)
(* Where there is a collector, handlers are one at a time, the handle that *)
(* is served is the only head (until a commit is published: then that is), *)
(* and so all that was published is in its past; an operation that was not *)
(* published descends from published ones alone, so none of the others     *)
(* misses an ancestor when it is deleted.                                  *)
(***************************************************************************)
GcApart == \A m \in Mixes : "gc" \in m => m \cap {"reindex", "embed", "unread"} = {}

\* Until the server is up nobody else moves the heads it has read.
BootOK ==
    /\ pc[Server] \in {"init", "rooted"} => heads = {}
    /\ pc[Server] \in {"merging", "merged"} => seen[Server] = heads

ChainOK ==
    "gc" \in mix =>
        /\ (Up /\ Active = {}) => heads = {Served}
        /\ \A p \in Active : IF p \in done THEN heads = {base[p]}
                                         ELSE heads = {Served} /\ base[p] = Served

\* Where handlers keep the mutex, each one's handle descends from the one being served.
KeepMutex == mix \cap {"reindex", "embed"} = {}

FollowsOK == KeepMutex => \A p \in Active : log[Served].anc \subseteq log[base[p]].anc

HttpInv ==
    /\ HttpTypes /\ OpLogInv /\ PastOK
    /\ acked \subseteq published
    /\ BootOK /\ ChainOK /\ FollowsOK /\ AckedVisible

\* Where handlers keep the mutex, one is at work at a time.
LEMMA OneAtATime ==
    ASSUME HttpTypes, KeepMutex
    PROVE  \A p \in Active : lock = p
<1> SUFFICES ASSUME NEW p \in Active PROVE lock = p
  OBVIOUS
<1>1. kind[p] \in {"write", "bulk"} /\ p \in Request
  BY DEF HttpTypes, WorkOK, KeepMutex, HandlerKinds, Active
<1> QED
  BY <1>1 DEF HttpTypes, HttpTypeOK

LEMMA GcKeepsMutex ==
    ASSUME GcApart, HttpTypes, "gc" \in mix
    PROVE  KeepMutex /\ "unread" \notin mix
BY DEF GcApart, HttpTypes, HttpTypeOK, KeepMutex

\* A call into the library stores operations over published ones.
LEMMA PastByCalling == OpLogInv /\ OpLogInv' /\ PastOK /\ [Next]_vars => PastOK'
<1> SUFFICES ASSUME OpLogInv, OpLogInv', PastOK, [Next]_vars PROVE PastOK'
  OBVIOUS
<1>0. TypeOK /\ published \subseteq Stored
  BY DEF OpLogInv, HeadsOK
<1>a. \A x \in published : log[x].anc \subseteq published
  BY <1>0 DEF PastOK
<1>w. ASSUME NEW o \in Fresh, NEW r, PutOp(o, r), r.parents \subseteq published,
             published \subseteq published'
      PROVE  PastOK'
  <2>1. o \notin Stored /\ log'[o] = r /\ \A x \in OpId \ {o} : log'[x] = log[x]
    BY <1>w, <1>0, FreshIsNew DEF PutOp, TypeOK
  <2>2. ASSUME NEW x \in Stored' PROVE log'[x].anc \subseteq {x} \cup published'
    <3>1. CASE x = o
      <4>1. log'[o].anc \subseteq {o} \cup UNION {log'[q].anc : q \in r.parents}
        BY <2>1, <2>2, <3>1 DEF OpLogInv, AncestryOK
      <4>2. \A q \in r.parents : log'[q] = log[q] /\ log[q].anc \subseteq published
        BY <1>0, <1>a, <1>w, <2>1 DEF Stored
      <4> QED
        BY <1>w, <3>1, <4>1, <4>2
    <3>2. CASE x # o
      BY <1>w, <2>1, <2>2, <3>2 DEF PastOK, Stored
    <3> QED
      BY <3>1, <3>2
  <2> QED
    BY <2>2 DEF PastOK
<1>u. ASSUME UNCHANGED log, published \subseteq published' PROVE PastOK'
  BY <1>u DEF PastOK, Stored
<1>1. ASSUME NEW p \in Proc, Open(p) PROVE PastOK'
  BY <1>1, <1>u DEF Open, OpenUninitialized, OpenSingle, OpenMany
<1>2. ASSUME NEW p \in Proc, WriteRoot(p) PROVE PastOK'
  <2>1. PICK o \in Fresh : PutOp(o, RootRecord(o))
    BY <1>2 DEF WriteRoot
  <2>2. RootRecord(o).parents \subseteq published
    BY DEF RootRecord
  <2> QED
    BY <1>2, <1>w, <2>1, <2>2 DEF WriteRoot
<1>3. ASSUME NEW p \in Proc, WriteMerge(p) PROVE PastOK'
  <2>1. CASE UNCHANGED log
    BY <1>3, <1>u, <2>1 DEF WriteMerge
  <2>2. ASSUME NEW o \in Fresh, PutOp(o, MergeRecord(o, seen[p])) PROVE PastOK'
    <3>1. MergeRecord(o, seen[p]).parents \subseteq published
      BY DEF MergeRecord, OpLogInv, HandlesOK
    <3> QED
      BY <1>3, <1>w, <2>2, <3>1 DEF WriteMerge
  <2> QED
    BY <1>3, <2>1, <2>2 DEF WriteMerge
<1>4. ASSUME NEW p \in Proc, NEW lin \in BOOLEAN, WriteEdit(p, lin) PROVE PastOK'
  <2>1. PICK o \in Fresh : PutOp(o, EditRecord(o, base[p], lin))
    BY <1>4 DEF WriteEdit
  <2>2. EditRecord(o, base[p], lin).parents \subseteq published
    BY <1>0, <1>4 DEF EditRecord, WriteEdit, OpLogInv, HandlesOK, TypeOK
  <2> QED
    BY <1>4, <1>w, <2>1, <2>2 DEF WriteEdit
<1>5. ASSUME NEW p \in Proc, PublishRoot(p) \/ PublishMerge(p) \/ PublishEdit(p) PROVE PastOK'
  BY <1>5, <1>u DEF PublishRoot, PublishMerge, PublishEdit, Publish
<1>6. ASSUME NEW p \in Proc, MergeFails(p) \/ LinearizeCheck(p) \/ LinearizeStale(p) \/ Drop(p)
      PROVE  PastOK'
  BY <1>6, <1>u DEF MergeFails, LinearizeCheck, LinearizeStale, Drop
<1>7. ASSUME NEW p \in Proc, NEW q \in Proc, CloneHandle(p, q) PROVE PastOK'
  BY <1>7, <1>u DEF CloneHandle
<1>8. CASE UNCHANGED vars
  BY <1>8, <1>u DEF vars
<1> QED
  BY <1>1, <1>2, <1>3, <1>4, <1>5, <1>6, <1>7, <1>8 DEF Next, Merge, Write

\* Steps of the server that leave the log and the heads alone keep the invariant of the
\* log, if every handle they leave is one there was and no pending operation is new.
LEMMA LogUntouched ==
    ASSUME OpLogInv, PastOK, TypeOK', UNCHANGED <<log, heads, published>>,
           \A p \in Proc : base'[p] # NoOp => \E q \in Proc : base'[p] = base[q],
           \A p \in Proc : seen'[p] \subseteq seen[p],
           \A p \in Proc : \/ pc'[p] \in {"none", "open"} /\ new'[p] = NoOp
                           \/ pc'[p] = pc[p] /\ new'[p] = new[p] /\ base'[p] = base[p] /\ seen'[p] = seen[p]
    PROVE  OpLogInv' /\ PastOK'
<1>0. log' = log /\ heads' = heads /\ published' = published /\ Stored' = Stored
  BY DEF Stored
<1>1. AncestryOK' /\ HeadsOK' /\ NoOpLost' /\ PastOK'
  BY <1>0 DEF OpLogInv, AncestryOK, HeadsOK, NoOpLost, Reach, PastOK
<1>2. HandlesOK'
  BY <1>0 DEF OpLogInv, HandlesOK
<1>3. PendingOK'
  BY <1>0 DEF OpLogInv, PendingOK
<1> QED
  BY <1>1, <1>2, <1>3 DEF OpLogInv

\* Deleting what neither was published nor is pending keeps it too.
LEMMA LogCollected ==
    ASSUME OpLogInv, PastOK, TypeOK', UNCHANGED <<heads, published, procVars>>,
           NEW D \in SUBSET Stored, D \cap published = {},
           \A p \in Proc : new[p] = NoOp,
           log' = [o \in OpId |-> IF o \in D THEN Absent ELSE log[o]]
    PROVE  OpLogInv' /\ PastOK'
<1>0. TypeOK
  BY DEF OpLogInv
<1>1. Stored' = Stored \ D /\ \A o \in Stored' : log'[o] = log[o]
  BY DEF Stored, Absent
<1>2. published \subseteq Stored' /\ heads \subseteq published
  BY <1>1 DEF OpLogInv, HeadsOK
<1>3. HeadsOK' /\ PastOK'
  BY <1>1, <1>2 DEF HeadsOK, PastOK
<1>4. AncestryOK'
  <2> SUFFICES ASSUME NEW o \in Stored'
               PROVE  /\ o \in log'[o].anc /\ o \notin log'[o].parents
                      /\ log'[o].parents \subseteq log'[o].anc
                      /\ log'[o].anc \subseteq {o} \cup UNION {log'[q].anc : q \in log'[o].parents}
                      /\ \A a \in log'[o].anc : a \in Stored' /\ log'[a].anc \subseteq log'[o].anc
    BY DEF AncestryOK
  <2>1. o \in Stored /\ log'[o] = log[o] /\ log[o].anc \subseteq Stored'
    BY <1>1, <1>2 DEF PastOK
  <2>2. \A a \in log[o].anc : log'[a] = log[a]
    BY <1>1, <2>1
  <2>3. \A q \in log[o].parents : log'[q] = log[q]
    BY <2>1, <2>2 DEF OpLogInv, AncestryOK
  <2>4. /\ o \in log[o].anc /\ o \notin log[o].parents
        /\ log[o].parents \subseteq log[o].anc
        /\ log[o].anc \subseteq {o} \cup UNION {log[q].anc : q \in log[o].parents}
        /\ \A a \in log[o].anc : a \in Stored /\ log[a].anc \subseteq log[o].anc
    BY <2>1 DEF OpLogInv, AncestryOK
  <2>5. UNION {log'[q].anc : q \in log[o].parents} = UNION {log[q].anc : q \in log[o].parents}
    BY <2>3
  <2>6. \A a \in log[o].anc : a \in Stored' /\ log'[a].anc \subseteq log[o].anc
    BY <2>1, <2>2, <2>4
  <2> QED
    BY <2>1, <2>4, <2>5, <2>6
<1>5. Reach' = Reach
  BY <1>1, <1>2 DEF Reach
<1>6. NoOpLost' /\ HandlesOK'
  BY <1>5 DEF OpLogInv, NoOpLost, HandlesOK, procVars
<1>7. PendingOK'
  BY <1>0 DEF PendingOK, procVars, TypeOK
<1> QED
  BY <1>3, <1>4, <1>6, <1>7 DEF OpLogInv

\* A collector that has the mutex is alone, and everything published is in its walk.
LEMMA CollectorIsAlone ==
    ASSUME GcApart, HttpInv, CollectGarbage
    PROVE  /\ Active = {}
           /\ \A p \in Proc : new[p] = NoOp
           /\ published \subseteq log[Served].anc
<1>1. /\ HttpTypes /\ HttpTypeOK /\ WorkOK /\ TypeOK /\ NoOpLost /\ ChainOK
      /\ "gc" \in mix /\ Up /\ lock = Nobody
  BY DEF HttpInv, HttpTypes, HttpTypeOK, OpLogInv, CollectGarbage
<1>2. Active = {}
  BY <1>1, GcKeepsMutex, OneAtATime, HttpServerAssumption DEF Active, Request
<1>3. \A p \in Proc : pc[p] \in {"none", "open"}
  BY <1>1, <1>2 DEF WorkOK, Request
<1>4. \A p \in Proc : new[p] = NoOp
  BY <1>1, <1>3 DEF TypeOK
<1>5. heads = {Served}
  BY <1>1, <1>2 DEF ChainOK
<1>6. published \subseteq log[Served].anc
  BY <1>1, <1>5 DEF NoOpLost, Reach
<1> QED
  BY <1>2, <1>4, <1>6

\* Every step keeps the invariant of the operation log, and the records of what was
\* published.
LogKept ==
    /\ OpLogInv' /\ PastOK'
    /\ published \subseteq published'
    /\ \A x \in published : log'[x] = log[x]

LEMMA CallsKeepLog == HttpInv /\ [Next]_vars => LogKept
<1> SUFFICES ASSUME HttpInv, [Next]_vars PROVE LogKept
  OBVIOUS
<1>0. OpLogInv /\ PastOK /\ TypeOK /\ published \subseteq Stored
  BY DEF HttpInv, OpLogInv, HeadsOK
<1>1. OpLogInv' /\ PastOK'
  BY <1>0, InvStep, PastByCalling
<1>2. published \subseteq published'
  BY DEF Next, Open, OpenUninitialized, OpenSingle, OpenMany, WriteRoot, PublishRoot, Merge,
     WriteMerge, MergeFails, PublishMerge, Write, WriteEdit, LinearizeCheck, LinearizeStale,
     PublishEdit, Drop, CloneHandle, Publish, vars
<1>3. log' = log \/ \E o \in Fresh, r \in {log'[x] : x \in OpId} : PutOp(o, r)
  <2>1. ASSUME NEW o \in Fresh, NEW r, PutOp(o, r) PROVE log'[o] = r /\ o \in OpId
    BY <1>0, <2>1, FreshIsNew DEF PutOp, TypeOK
  <2>2. ASSUME NEW o \in Fresh, NEW r, PutOp(o, r)
        PROVE  \E oo \in Fresh, rr \in {log'[x] : x \in OpId} : PutOp(oo, rr)
    BY <2>1, <2>2
  <2>3. ASSUME NEW p \in Proc, WriteRoot(p) \/ WriteMerge(p) \/ \E lin \in BOOLEAN : WriteEdit(p, lin)
        PROVE  log' = log \/ \E o \in Fresh, r \in {log'[x] : x \in OpId} : PutOp(o, r)
    BY <2>2, <2>3 DEF WriteRoot, WriteMerge, WriteEdit
  <2> QED
    BY <2>3 DEF Next, Open, OpenUninitialized, OpenSingle, OpenMany, PublishRoot, Merge,
       MergeFails, PublishMerge, Write, LinearizeCheck, LinearizeStale,
       PublishEdit, Drop, CloneHandle, vars
<1>4. \A x \in published : log'[x] = log[x]
  BY <1>0, <1>3, FreshIsNew DEF PutOp, TypeOK
<1> QED
  BY <1>1, <1>2, <1>4 DEF LogKept

LEMMA RequestsKeepLog ==
    ASSUME HttpInv, HttpTypes', NEW p \in Request,
           \/ Release(p) \/ PublishUnread(p) \/ Serve(p) \/ ServeGroup(p) \/ Fail(p)
    PROVE  LogKept
<1>0. /\ OpLogInv /\ PastOK /\ TypeOK /\ TypeOK' /\ WorkOK /\ HttpTypeOK
      /\ HeadsOK /\ HandlesOK /\ PendingOK
      /\ p \in Proc /\ Server \in Proc /\ p # Server
  BY HttpServerAssumption DEF HttpInv, OpLogInv, HttpTypes, HttpTypeOK, Request
<1>1. CASE Release(p)
  <2>1. UNCHANGED vars
    BY <1>1 DEF Release
  <2> QED
    BY <2>1, CallsKeepLog
\* The log is left alone, and p is left with no call under way.
<1>u. ASSUME UNCHANGED <<log, heads, published>>,
             \A q \in Proc : base'[q] # NoOp => \E r \in Proc : base'[q] = base[r],
             \A q \in Proc : seen'[q] \subseteq seen[q],
             \A q \in Proc : \/ pc'[q] \in {"none", "open"} /\ new'[q] = NoOp
                             \/ pc'[q] = pc[q] /\ new'[q] = new[q] /\ base'[q] = base[q] /\ seen'[q] = seen[q]
      PROVE  LogKept
  BY <1>0, <1>u, LogUntouched DEF LogKept
<1>2. CASE Serve(p)
  <2>1. base' = [base EXCEPT ![Server] = base[p], ![p] = NoOp] /\ Finish(p)
        /\ UNCHANGED <<log, heads, published>> /\ p \in Active
    BY <1>0, <1>2 DEF Serve, HttpTypeOK
  <2>2. pc[Server] = "open" /\ new[Server] = NoOp
    BY <1>0, <2>1 DEF WorkOK, TypeOK
  <2>3. \A q \in Proc : base'[q] # NoOp => \E r \in Proc : base'[q] = base[r]
    BY <1>0, <2>1 DEF TypeOK
  <2>4. \A q \in Proc \ {p, Server} : base'[q] = base[q]
    BY <1>0, <2>1 DEF TypeOK
  <2>5. /\ \A q \in Proc : seen'[q] \subseteq seen[q]
        /\ \A q \in Proc \ {p} : pc'[q] = pc[q] /\ new'[q] = new[q] /\ seen'[q] = seen[q]
        /\ pc'[p] = "none" /\ new'[p] = NoOp
    BY <1>0, <2>1 DEF TypeOK, Finish
  <2> QED
    BY <1>u, <2>1, <2>2, <2>3, <2>4, <2>5
<1>3. CASE ServeGroup(p)
  <2>1. base' = [base EXCEPT ![Server] = base[p]] /\ p \in Active
        /\ UNCHANGED <<log, heads, published, pc, new, seen>>
    BY <1>0, <1>3 DEF ServeGroup, HttpTypeOK
  <2>2. pc[Server] = "open" /\ new[Server] = NoOp
    BY <1>0, <2>1 DEF WorkOK, TypeOK
  <2> QED
    BY <1>0, <1>u, <2>1, <2>2 DEF TypeOK
<1>4. CASE Fail(p)
  <2>1. base' = [base EXCEPT ![p] = NoOp] /\ Finish(p) /\ UNCHANGED <<log, heads, published>>
    BY <1>4 DEF Fail
  <2> QED
    BY <1>0, <1>u, <2>1 DEF TypeOK, Finish
<1>5. CASE PublishUnread(p)
  <2>1. /\ pc[p] = "ready" /\ Publish(new[p], {base[p]}) /\ Finish(p)
        /\ base' = [base EXCEPT ![p] = NoOp] /\ UNCHANGED log
    BY <1>5 DEF PublishUnread
  <2>2. new[p] \in Stored /\ log[new[p]].parents = {base[p]}
    BY <1>0, <2>1 DEF TypeOK, HandlesOK, PendingOK
  <2>3. AncestryOK' /\ HeadsOK' /\ NoOpLost'
    BY <1>0, <2>1, <2>2, PublishKeeps
  <2>4. Stored' = Stored /\ published \subseteq published'
    BY <2>1 DEF Stored, Publish
  <2>5. \A q \in Proc \ {p} : pc'[q] = pc[q] /\ new'[q] = new[q] /\ seen'[q] = seen[q] /\ base'[q] = base[q]
    BY <1>0, <2>1 DEF TypeOK, Finish
  <2>6. pc'[p] = "none" /\ new'[p] = NoOp /\ seen'[p] = {} /\ base'[p] = NoOp
    BY <1>0, <2>1 DEF TypeOK, Finish
  <2>7. HandlesOK'
    BY <1>0, <2>4, <2>5, <2>6 DEF HandlesOK
  <2>8. PendingOK'
    BY <1>0, <2>1, <2>5, <2>6 DEF PendingOK
  <2>9. PastOK'
    BY <1>0, <2>1, <2>4 DEF PastOK
  <2> QED
    BY <1>0, <2>1, <2>3, <2>4, <2>7, <2>8, <2>9 DEF LogKept, OpLogInv
<1> QED
  BY <1>1, <1>2, <1>3, <1>4, <1>5

LEMMA ServerKeepsLog ==
    ASSUME GcApart, HttpInv, [HttpNext]_httpVars
    PROVE  HttpTypes' /\ LogKept
<1>1. HttpTypes /\ HttpTypes'
  BY HttpTypesStep DEF HttpInv
<1>2. CASE Boot \/ \E p \in Request : Begin(p) \/ WriteCommit(p) \/ PublishCommit(p)
  BY <1>1, <1>2, CallsAreSteps, CallsKeepLog
<1>3. CASE Crash
  <2>1. /\ UNCHANGED <<log, heads, published>>
        /\ \A p \in Proc : pc'[p] = "none" /\ base'[p] = NoOp /\ new'[p] = NoOp /\ seen'[p] = {}
    BY <1>3 DEF Crash
  <2>2. OpLogInv /\ PastOK /\ TypeOK'
    BY <1>1 DEF HttpInv, HttpTypes, HttpTypeOK
  <2> QED
    BY <1>1, <2>1, <2>2, LogUntouched DEF LogKept
<1>4. CASE CollectGarbage
  <2>1. PICK D \in SUBSET Garbage(Served) :
           log' = [o \in OpId |-> IF o \in D THEN Absent ELSE log[o]]
    BY <1>4 DEF CollectGarbage
  <2>2. UNCHANGED <<heads, published, procVars>>
    BY <1>4 DEF CollectGarbage
  <2>3. D \in SUBSET Stored /\ D \cap published = {} /\ \A p \in Proc : new[p] = NoOp
    BY <1>4, <2>1, CollectorIsAlone DEF Garbage
  <2>4. OpLogInv /\ PastOK /\ TypeOK' /\ published \subseteq OpId
    BY <1>1 DEF HttpInv, HttpTypes, HttpTypeOK, TypeOK
  <2>5. OpLogInv' /\ PastOK'
    BY <2>1, <2>2, <2>3, <2>4, LogCollected
  <2>6. published \subseteq published' /\ \A x \in published : log'[x] = log[x]
    BY <2>1, <2>2, <2>3, <2>4
  <2> QED
    BY <1>1, <2>5, <2>6 DEF LogKept
<1>5. CASE \E p \in Request : Release(p) \/ PublishUnread(p) \/ Serve(p) \/ ServeGroup(p) \/ Fail(p)
  BY <1>1, <1>5, RequestsKeepLog
<1>6. CASE UNCHANGED httpVars
  <2>1. UNCHANGED vars
    BY <1>6 DEF httpVars
  <2> QED
    BY <1>1, <2>1, CallsKeepLog
<1> QED
  BY <1>2, <1>3, <1>4, <1>5, <1>6 DEF HttpNext, Handle

\* A server that has come up serves the only head.
LEMMA BootCollapses ==
    ASSUME HttpInv, Boot, Up'
    PROVE  heads' = {Served'}
<1>0. /\ TypeOK /\ BootOK /\ HandlesOK /\ PendingOK /\ AncestryOK /\ Server \in Proc
      /\ base[Server] = NoOp
  BY HttpServerAssumption DEF HttpInv, OpLogInv, Boot, Up, Served
<1>1. CASE OpenSingle(Server)
  BY <1>0, <1>1 DEF OpenSingle, Pin, Served, TypeOK
<1>2. CASE PublishRoot(Server)
  BY <1>0, <1>2 DEF PublishRoot, Publish, Update, Pin, Served, TypeOK, BootOK
<1>3. CASE PublishMerge(Server)
  <2>1. /\ pc[Server] = "merged" /\ heads' = (heads \cup {new[Server]}) \ seen[Server]
        /\ base' = [base EXCEPT ![Server] = new[Server]]
    BY <1>3 DEF PublishMerge, Publish, Update, Pin
  <2>2. new[Server] \in Stored /\ log[new[Server]].parents = seen[Server]
    BY <1>0, <2>1 DEF TypeOK, HandlesOK, PendingOK
  <2>3. new[Server] \notin seen[Server] /\ seen[Server] = heads
    BY <1>0, <2>1, <2>2 DEF AncestryOK, BootOK
  <2> QED
    BY <1>0, <2>1, <2>3 DEF Served, TypeOK
<1>4. CASE \/ OpenUninitialized(Server) \/ OpenMany(Server) \/ WriteRoot(Server)
           \/ WriteMerge(Server) \/ MergeFails(Server)
  BY <1>0, <1>4 DEF OpenUninitialized, OpenMany, WriteRoot, WriteMerge, MergeFails, Up, Served
<1> QED
  BY <1>1, <1>2, <1>3, <1>4 DEF Boot, Open, Merge

\* The rest of the invariant.
Serving == acked \subseteq published /\ BootOK /\ ChainOK /\ FollowsOK /\ AckedVisible

LEMMA HttpInvInit == HttpInit => HttpInv
<1> SUFFICES ASSUME HttpInit PROVE HttpInv
  OBVIOUS
<1>1. Init /\ HttpTypes /\ OpLogInv /\ PastOK
  BY HttpTypesInit, InvInit, ReturnInit DEF HttpInit, ReturnInv
<1>2. Active = {} /\ ~ Up /\ acked = {} /\ pc[Server] = "none"
  BY <1>1, HttpServerAssumption DEF HttpInit, Init, Active, Request, Up, Served
<1> QED
  BY <1>1, <1>2 DEF HttpInv, BootOK, ChainOK, FollowsOK, AckedVisible

\* Booting: the one head that is left reaches everything that was published.
LEMMA ServingByBoot ==
    ASSUME HttpInv, HttpTypes', LogKept, Boot
    PROVE  Serving'
<1>0. /\ TypeOK /\ BootOK /\ Server \in Proc /\ ~ Up /\ acked \subseteq published
      /\ mix' = mix /\ acked' = acked /\ kind' = kind
  BY HttpServerAssumption DEF HttpInv, OpLogInv, Boot
<1>1. Active' = {} /\ published \subseteq published'
  BY <1>0 DEF HttpInv, HttpTypes, WorkOK, Active, LogKept
<1>2. Up' => heads' = {Served'}
  BY BootCollapses
<1>3. Up' => published' \subseteq log'[Served'].anc
  BY <1>2 DEF LogKept, OpLogInv, NoOpLost, Reach
<1>4. BootOK'
  BY <1>0 DEF Boot, Open, OpenUninitialized, OpenSingle, OpenMany, WriteRoot, PublishRoot,
     Merge, WriteMerge, MergeFails, PublishMerge, Pin, TypeOK, BootOK
<1>5. ChainOK' /\ FollowsOK'
  BY <1>1, <1>2 DEF ChainOK, FollowsOK
<1>6. AckedVisible'
  BY <1>0, <1>1, <1>3 DEF AckedVisible
<1> QED
  BY <1>0, <1>1, <1>4, <1>5, <1>6 DEF Serving

LEMMA ServingByCrash ==
    ASSUME HttpInv, Crash
    PROVE  Serving'
<1>1. Active' = {} /\ ~ Up' /\ acked' = acked /\ published' = published /\ pc'[Server] = "none"
  BY HttpServerAssumption DEF Crash, Active, Request, Up, Served
<1> QED
  BY <1>1 DEF HttpInv, Serving, BootOK, ChainOK, FollowsOK, AckedVisible

LEMMA ServingByCollecting ==
    ASSUME GcApart, HttpInv, LogKept, CollectGarbage
    PROVE  Serving'
<1>1. /\ heads' = heads /\ published' = published /\ pc' = pc /\ base' = base /\ new' = new
      /\ seen' = seen /\ lock' = lock /\ kind' = kind /\ done' = done /\ acked' = acked
      /\ mix' = mix /\ Up
  BY DEF CollectGarbage, procVars
<1>2. Active = {} /\ Active' = {} /\ Served' = Served /\ Up' = Up
  BY <1>1, CollectorIsAlone DEF Active, Served, Up
<1>3. log'[Served] = log[Served]
  BY <1>1, HttpServerAssumption DEF HttpInv, OpLogInv, HandlesOK, LogKept, Up, Served
<1>4. BootOK' /\ ChainOK' /\ FollowsOK' /\ acked' \subseteq published'
  BY <1>1, <1>2 DEF HttpInv, BootOK, ChainOK, FollowsOK
<1>5. AckedVisible'
  BY <1>1, <1>2, <1>3 DEF HttpInv, AckedVisible
<1> QED
  BY <1>4, <1>5 DEF Serving

\* Steps of requests.  Where there is a collector, or handlers keep the mutex, the request
\* that steps is the only one at work.
LEMMA OnlyOneActive ==
    ASSUME GcApart, HttpTypes, "gc" \in mix \/ KeepMutex, NEW p \in Active
    PROVE  Active = {p}
<1>1. KeepMutex
  BY GcKeepsMutex
<1> QED
  BY <1>1, OneAtATime

LEMMA NoneActive ==
    ASSUME GcApart, HttpTypes, "gc" \in mix \/ KeepMutex, lock = Nobody
    PROVE  Active = {}
<1>1. KeepMutex
  BY GcKeepsMutex
<1> QED
  BY <1>1, OneAtATime, HttpServerAssumption DEF Active, Request

LEMMA ServingByRequest ==
    ASSUME GcApart, HttpInv, HttpTypes', LogKept, NEW p \in Request, Begin(p) \/ Handle(p)
    PROVE  Serving'
<1>0. /\ TypeOK /\ HttpTypes /\ HttpTypeOK /\ WorkOK /\ TypeOK'
      /\ HeadsOK /\ HandlesOK /\ PendingOK /\ AncestryOK
      /\ p \in Proc /\ Server \in Proc /\ p # Server
      /\ acked \subseteq published /\ ChainOK /\ FollowsOK /\ AckedVisible
      /\ kind \in [Proc -> HandlerKinds \cup {"none"}] /\ "none" \notin HandlerKinds
  BY HttpServerAssumption DEF HttpInv, OpLogInv, HttpTypes, HttpTypeOK, Request, HandlerKinds
<1>1. published \subseteq published' /\ \A x \in published : log'[x] = log[x]
  BY DEF LogKept
<1>2. p \in Active => Up /\ base[p] \in published /\ Served \in published
  BY <1>0 DEF WorkOK, HttpTypeOK, HandlesOK, Up, Served
<1>b. Up' => BootOK'
  BY DEF HttpTypes, WorkOK, BootOK
<1>m. mix' = mix
  BY DEF Begin, Handle, Release, WriteCommit, PublishCommit, PublishUnread, Serve, ServeGroup, Fail
\* A request that only leaves, or changes nothing of what it holds.
<1>q. ASSUME UNCHANGED <<acked, done>>, Served' = Served, heads' = heads, Active' = Active,
             \A r \in Active : base'[r] = base[r], Up
      PROVE  Serving'
  <2>1. Up' /\ Served \in published
    BY <1>0, <1>q DEF Up, Served, HandlesOK
  <2>2. ChainOK'
    BY <1>0, <1>m, <1>q, <2>1 DEF ChainOK
  <2>3. log'[Served] = log[Served] /\ \A r \in Active : log'[base[r]] = log[base[r]]
    BY <1>0, <1>1, <2>1 DEF HandlesOK, HttpTypeOK, Active, Request
  <2>4. FollowsOK' /\ AckedVisible'
    BY <1>0, <1>m, <1>q, <2>1, <2>3 DEF FollowsOK, KeepMutex, AckedVisible
  <2> QED
    BY <1>0, <1>1, <1>b, <1>q, <2>1, <2>2, <2>4 DEF Serving
<1>3. CASE Begin(p)
  <2>1. /\ Up /\ lock = Nobody /\ pc[p] = "none" /\ UNCHANGED <<log, heads, published, done, acked>>
        /\ base' = [base EXCEPT ![p] = Served]
    BY <1>3 DEF Begin, CloneHandle, Pin, Served
  <2>2. PICK k \in (mix \cap HandlerKinds) \ {"gc"} : kind' = [kind EXCEPT ![p] = k]
    BY <1>3 DEF Begin
  <2>3. Active' = Active \cup {p} /\ p \notin Active /\ p \notin done
    BY <1>0, <2>1, <2>2 DEF Active, WorkOK, Request, HttpTypeOK
  <2>4. Served' = Served /\ Up' /\ base'[p] = Served /\ \A r \in Active : base'[r] = base[r]
    BY <1>0, <2>1, <2>3 DEF Served, Up, TypeOK, Active, Request
  <2>5. ChainOK'
    <3> SUFFICES ASSUME "gc" \in mix
                 PROVE  /\ (Up' /\ Active' = {}) => heads' = {Served'}
                        /\ \A q \in Active' : IF q \in done' THEN heads' = {base'[q]}
                                              ELSE heads' = {Served'} /\ base'[q] = Served'
      BY <1>m DEF ChainOK
    <3>1. Active = {}
      BY <1>0, <2>1, NoneActive
    <3>2. heads = {Served}
      BY <1>0, <2>1, <3>1 DEF ChainOK
    <3> QED
      BY <2>1, <2>3, <2>4, <3>1, <3>2
  <2>6. FollowsOK'
    BY <1>0, <1>m, <2>1, <2>3, <2>4 DEF FollowsOK, KeepMutex
  <2>7. AckedVisible'
    BY <1>0, <1>m, <2>1, <2>4 DEF AckedVisible
  <2> QED
    BY <1>0, <1>b, <2>1, <2>4, <2>5, <2>6, <2>7 DEF Serving
<1>4. CASE Release(p)
  <2>1. p \in Active
    BY <1>0, <1>4, HttpServerAssumption DEF Release, HttpTypeOK
  <2> QED
    BY <1>2, <1>4, <1>q, <2>1 DEF Release, vars, Active, Served
<1>5. CASE WriteCommit(p)
  BY <1>2, <1>5, <1>q DEF WriteCommit, WriteEdit, Active, Served
<1>6. CASE PublishCommit(p)
  <2>1. /\ p \in Active /\ pc[p] = "ready" /\ heads' = (heads \cup {new[p]}) \ {base[p]}
        /\ base' = [base EXCEPT ![p] = new[p]] /\ done' = done \cup {p}
        /\ UNCHANGED <<log, kind, acked>>
    BY <1>6 DEF PublishCommit, PublishEdit, Publish, Update, Pin
  <2>2. Active' = Active /\ Served' = Served /\ Up' /\ base'[p] = new[p] /\ p \notin done
        /\ \A r \in Active \ {p} : base'[r] = base[r]
    BY <1>0, <1>2, <2>1 DEF Active, Served, Up, TypeOK, WorkOK, Request
  <2>3. new[p] \in Stored /\ log[new[p]].parents = {base[p]}
    BY <1>0, <2>1 DEF TypeOK, HandlesOK, PendingOK
  <2>4. new[p] # base[p] /\ log[base[p]].anc \subseteq log[new[p]].anc
    BY <1>0, <2>3 DEF AncestryOK
  <2>5. ChainOK'
    <3> SUFFICES ASSUME "gc" \in mix
                 PROVE  /\ (Up' /\ Active' = {}) => heads' = {Served'}
                        /\ \A q \in Active' : IF q \in done' THEN heads' = {base'[q]}
                                              ELSE heads' = {Served'} /\ base'[q] = Served'
      BY <1>m DEF ChainOK
    <3>1. Active = {p}
      BY <1>0, <2>1, OnlyOneActive
    <3>2. heads = {base[p]}
      BY <1>0, <2>1, <2>2 DEF ChainOK
    <3> QED
      BY <2>1, <2>2, <2>4, <3>1, <3>2
  <2>6. FollowsOK'
    BY <1>0, <1>m, <2>1, <2>2, <2>4 DEF FollowsOK, KeepMutex
  <2>7. AckedVisible'
    BY <1>0, <1>2, <1>m, <2>1, <2>2 DEF AckedVisible
  <2> QED
    BY <1>0, <1>1, <1>b, <2>1, <2>2, <2>5, <2>6, <2>7 DEF Serving
\* A handler that ends.
<1>f. ASSUME Finish(p), p \in Active,
             \A q \in Request : base'[q] = IF q = p THEN NoOp ELSE base[q]
      PROVE  /\ Active' = Active \ {p} /\ \A q \in Active' : base'[q] = base[q]
             /\ \A q \in Active' : q \in done' <=> q \in done
  BY <1>0, <1>f DEF Finish, Active, TypeOK, Request
<1>7. CASE PublishUnread(p)
  <2>1. /\ p \in Active /\ pc[p] = "ready"
        /\ "unread" \in mix \/ new[p] \notin Stored
        /\ base' = [base EXCEPT ![p] = NoOp] /\ Finish(p) /\ UNCHANGED <<log, acked>>
    BY <1>7 DEF PublishUnread
  <2>2. "unread" \in mix
    BY <1>0, <2>1 DEF TypeOK, HandlesOK
  <2>3. "gc" \notin mix
    BY <1>0, <2>2, GcKeepsMutex
  <2>4. Served' = Served /\ Up' /\ \A q \in Request : base'[q] = IF q = p THEN NoOp ELSE base[q]
    BY <1>0, <1>2, <2>1 DEF Served, Up, TypeOK, Request
  <2>5. Active' = Active \ {p} /\ \A q \in Active' : base'[q] = base[q]
    BY <1>f, <2>1, <2>4
  <2>6. ChainOK' /\ FollowsOK'
    BY <1>0, <1>m, <2>1, <2>3, <2>4, <2>5 DEF ChainOK, FollowsOK, KeepMutex
  <2>7. AckedVisible'
    BY <1>0, <1>2, <1>m, <2>1, <2>4 DEF AckedVisible
  <2> QED
    BY <1>0, <1>1, <1>b, <2>1, <2>4, <2>6, <2>7 DEF Serving
<1>8. CASE Serve(p)
  <2>1. /\ p \in done /\ p \in Active /\ acked' = acked \cup {base[p]} /\ Finish(p)
        /\ base' = [base EXCEPT ![Server] = base[p], ![p] = NoOp]
        /\ UNCHANGED <<log, heads, published>>
    BY <1>0, <1>8 DEF Serve, HttpTypeOK
  <2>2. /\ Served' = base[p] /\ \A q \in Request : base'[q] = IF q = p THEN NoOp ELSE base[q]
    BY <1>0, <2>1 DEF Served, TypeOK, Request
  <2>3. Up' /\ base[p] \in Stored /\ acked' \subseteq published'
    BY <1>0, <1>2, <2>1, <2>2, OpLogAssumption DEF Up, HeadsOK, TypeOK
  <2>4. ASSUME "gc" \in mix \/ KeepMutex PROVE Active = {p} /\ Active' = {}
    BY <1>0, <1>f, <2>1, <2>2, <2>4, OnlyOneActive
  <2>5. ChainOK'
    <3>1. "gc" \in mix => Active' = {} /\ heads' = {Served'}
      BY <1>0, <2>1, <2>2, <2>4 DEF ChainOK
    <3> QED
      BY <1>m, <3>1 DEF ChainOK
  <2>6. FollowsOK'
    BY <1>m, <2>4 DEF FollowsOK, KeepMutex
  <2>7. AckedVisible'
    <3>1. KeepMutex => acked \subseteq log[base[p]].anc
      BY <1>0, <1>2, <2>1 DEF KeepMutex, AckedVisible, FollowsOK
    <3>2. base[p] \in log[base[p]].anc
      BY <1>0, <2>3 DEF AncestryOK
    <3> QED
      BY <1>m, <2>1, <2>2, <3>1, <3>2 DEF AckedVisible, KeepMutex
  <2> QED
    BY <1>b, <2>3, <2>5, <2>6, <2>7 DEF Serving
<1>9. CASE ServeGroup(p)
  <2>1. /\ p \in done /\ p \in Active /\ done' = done \ {p}
        /\ base' = [base EXCEPT ![Server] = base[p]]
        /\ UNCHANGED <<log, heads, published, kind, acked>>
    BY <1>0, <1>9 DEF ServeGroup, HttpTypeOK
  <2>2. /\ Served' = base[p] /\ Active' = Active /\ base'[p] = base[p]
    BY <1>0, <2>1 DEF Served, TypeOK, Request, Active
  <2>3. Up'
    BY <1>0, <1>2, <2>1, <2>2, OpLogAssumption DEF Up, TypeOK
  <2>4. "gc" \in mix \/ KeepMutex => Active' = {p}
    BY <1>0, <2>1, <2>2, OnlyOneActive
  <2>5. ChainOK'
    <3>1. "gc" \in mix => Active' = {p} /\ p \notin done' /\ heads' = {Served'} /\ base'[p] = Served'
      BY <1>0, <2>1, <2>2, <2>4 DEF ChainOK
    <3> QED
      BY <1>m, <3>1 DEF ChainOK
  <2>6. FollowsOK'
    BY <1>m, <2>1, <2>2, <2>4 DEF FollowsOK, KeepMutex
  <2>7. AckedVisible'
    <3>1. KeepMutex => acked \subseteq log[base[p]].anc
      BY <1>0, <1>2, <2>1 DEF KeepMutex, AckedVisible, FollowsOK
    <3> QED
      BY <1>m, <2>1, <2>2, <3>1 DEF AckedVisible, KeepMutex
  <2> QED
    BY <1>0, <1>b, <2>1, <2>3, <2>5, <2>6, <2>7 DEF Serving
<1>10. CASE Fail(p)
  <2>1. /\ p \in Active /\ p \notin done /\ Finish(p)
        /\ base' = [base EXCEPT ![p] = NoOp] /\ UNCHANGED <<log, heads, published, acked>>
    BY <1>10 DEF Fail
  <2>2. Served' = Served /\ Up' /\ \A q \in Request : base'[q] = IF q = p THEN NoOp ELSE base[q]
    BY <1>0, <1>2, <2>1 DEF Served, Up, TypeOK, Request
  <2>3. Active' = Active \ {p} /\ \A q \in Active' : base'[q] = base[q]
    BY <1>f, <2>1, <2>2
  <2>4. ChainOK'
    <3>1. "gc" \in mix => Active' = {} /\ heads' = {Served'}
      BY <1>0, <2>1, <2>2, <2>3, OnlyOneActive DEF ChainOK
    <3> QED
      BY <1>m, <3>1 DEF ChainOK
  <2>5. FollowsOK'
    BY <1>0, <1>m, <2>1, <2>2, <2>3 DEF FollowsOK, KeepMutex
  <2>6. AckedVisible'
    BY <1>0, <1>2, <1>m, <2>1, <2>2 DEF AckedVisible
  <2> QED
    BY <1>0, <1>b, <2>1, <2>2, <2>4, <2>5, <2>6 DEF Serving
<1> QED
  BY <1>3, <1>4, <1>5, <1>6, <1>7, <1>8, <1>9, <1>10 DEF Handle

LEMMA HttpInvStep == GcApart /\ HttpInv /\ [HttpNext]_httpVars => HttpInv'
<1> SUFFICES ASSUME GcApart, HttpInv, [HttpNext]_httpVars PROVE HttpInv'
  OBVIOUS
<1>1. HttpTypes' /\ LogKept
  BY ServerKeepsLog
<1>2. CASE UNCHANGED httpVars
  BY <1>1, <1>2 DEF httpVars, vars, HttpInv, LogKept, BootOK, ChainOK, FollowsOK, AckedVisible,
     KeepMutex, Active, Up, Served
<1>3. CASE HttpNext
  <2>1. Serving'
    BY <1>1, <1>3, ServingByBoot, ServingByCrash, ServingByCollecting, ServingByRequest
       DEF HttpNext
  <2> QED
    BY <1>1, <2>1 DEF HttpInv, Serving, LogKept
<1> QED
  BY <1>2, <1>3

LEMMA HttpInvariance == GcApart => (HttpSpec => []HttpInv)
<1> SUFFICES ASSUME GcApart PROVE HttpSpec => []HttpInv
  OBVIOUS
<1>1. HttpInv /\ [HttpNext]_httpVars => HttpInv'
  BY HttpInvStep
<1> QED
  BY <1>1, HttpInvInit, PTL DEF HttpSpec

\* Writes that were acknowledged stay in the store and reachable from the heads, whatever
\* requests fail, however often the server dies and whenever garbage is collected.
THEOREM AcknowledgedKept == GcApart => (HttpSpec => []AckedKept)
<1>1. HttpInv => AckedKept
  BY DEF HttpInv, OpLogInv, NoOpLost, HeadsOK, AckedKept
<1> QED
  BY <1>1, HttpInvariance, PTL

\* Where handlers keep the mutex, the handle that is served has every acknowledged write.
THEOREM AcknowledgedVisible == GcApart => (HttpSpec => []AckedVisible)
<1>1. HttpInv => AckedVisible
  BY DEF HttpInv
<1> QED
  BY <1>1, HttpInvariance, PTL

\* A server that comes up serves every write ever acknowledged, whatever handlers did to
\* the handle before.
THEOREM RestartsRecover == GcApart => (HttpSpec => RestartRecovers)
<1> SUFFICES ASSUME GcApart PROVE HttpSpec => RestartRecovers
  OBVIOUS
<1>1. ASSUME HttpInv, [HttpNext]_httpVars
      PROVE  [(~ Up /\ Served' # NoOp) => acked \subseteq log'[Served'].anc]_httpVars
  <2> SUFFICES ASSUME HttpNext, ~ Up, Served' # NoOp
               PROVE  acked \subseteq log'[Served'].anc
    BY <1>1
  <2>1. LogKept /\ acked \subseteq published
    BY <1>1, ServerKeepsLog DEF HttpInv
  <2>2. CASE Boot
    <3>1. heads' = {Served'}
      BY <1>1, <2>2, BootCollapses DEF Up
    <3> QED
      BY <2>1, <3>1 DEF LogKept, OpLogInv, NoOpLost, Reach
  <2>3. ~ Crash /\ ~ CollectGarbage
    BY HttpServerAssumption DEF Crash, CollectGarbage, Served
  <2>4. ASSUME NEW p \in Request PROVE ~ Begin(p) /\ ~ Handle(p)
    <3>1. p \notin Active /\ p \notin done /\ lock # p
      BY <1>1, <2>4, HttpServerAssumption DEF HttpInv, HttpTypes, HttpTypeOK, WorkOK, Request
    <3> QED
      BY <3>1 DEF Begin, Handle, Release, WriteCommit, PublishCommit, PublishUnread, Serve,
         ServeGroup, Fail
  <2> QED
    BY <2>2, <2>3, <2>4 DEF HttpNext
<1>2. HttpInv /\ [HttpNext]_httpVars
        => [(~ Up /\ Served' # NoOp) => acked \subseteq log'[Served'].anc]_httpVars
  BY <1>1
<1>3. HttpSpec => []HttpInv
  BY HttpInvariance
<1> QED
  BY <1>2, <1>3, PTL DEF HttpSpec, RestartRecovers
=============================================================================
