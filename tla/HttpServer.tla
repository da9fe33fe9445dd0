----------------------------- MODULE HttpServer -----------------------------
(***************************************************************************)
(* The HTTP server (mnem-http): one process that opens the repository once *)
(* and serves it from a handle in a mutex.  Every handler that writes      *)
(* starts from that handle, commits, and puts its new handle in its place; *)
(* they differ in what they do with the mutex meanwhile.                   *)
(*                                                                         *)
(*   write     post_node, delete_node, post_edge, post_ref, run_ingest ... *)
(*             hold it from the first read to the replacement              *)
(*   bulk      post_nodes_bulk, post_switch: several commits in one hold   *)
(*   reindex   post_reindex, post_revert: drop it between the commit and   *)
(*             the replacement                                             *)
(*   embed     post_embed: drops it while it asks the embedder and         *)
(*             commits, takes it again for the replacement                 *)
(*   gc        post_gc: deletes, under it, every block that the handle     *)
(*             does not reach                                              *)
(*                                                                         *)
(* Sources: mnem-http/src/handlers.rs, handlers_ingest.rs, lib.rs          *)
(* (app_with_options), state.rs (AppState).  Requests and the server are   *)
(* processes of OpLog; the handle being served is the one of Server.  The  *)
(* database file is locked while the server runs, so nobody else writes.   *)
(***************************************************************************)
EXTENDS OpLog

CONSTANTS Server,      \* the process that boots and whose handle is served
          Nobody,      \* stands for "no request"
          Mixes        \* bound: what is explored together; with "unread", a read
                       \* of the store may fail after a write

HandlerKinds == {"write", "bulk", "reindex", "embed", "gc"}

ASSUME HttpServerAssumption == /\ Server \in Proc
                               /\ Nobody \notin Proc
                               /\ Mixes \subseteq SUBSET (HandlerKinds \cup {"unread"})

VARIABLES mix,      \* the kinds of handler that clients call, and what may fail
          lock,     \* the request that holds the mutex
          kind,     \* the handler that each request is in
          done,     \* requests that have committed and not replaced the handle
          acked     \* history: operations reported to a client

httpVars == <<vars, mix, lock, kind, done, acked>>

Request == Proc \ {Server}
Active == {p \in Request : kind[p] # "none"}

\* The operation being served, once the server is up.
Served == base[Server]
Up == Served # NoOp

HttpInit == /\ Init
            /\ mix \in Mixes
            /\ lock = Nobody
            /\ kind = [p \in Proc |-> "none"]
            /\ done = {}
            /\ acked = {}

-----------------------------------------------------------------------------
(***************************************************************************)
(* Booting: open or init, before any request is taken.  An op-head whose   *)
(* block is gone is an error, and the server does not come up.             *)
(***************************************************************************)
Boot ==
    /\ ~ Up
    /\ heads \subseteq Stored
    /\ \/ Open(Server) \/ WriteRoot(Server) \/ PublishRoot(Server) \/ Merge(Server)
    /\ UNCHANGED <<mix, lock, kind, done, acked>>

\* The process dies, at any point of any handler.
Crash ==
    /\ pc' = [p \in Proc |-> "none"]
    /\ base' = [p \in Proc |-> NoOp]
    /\ new' = [p \in Proc |-> NoOp]
    /\ seen' = [p \in Proc |-> {}]
    /\ lock' = Nobody
    /\ kind' = [p \in Proc |-> "none"]
    /\ done' = {}
    /\ UNCHANGED <<mix, log, heads, published, acked>>

-----------------------------------------------------------------------------
(***************************************************************************)
(* Handlers that write.                                                    *)
(***************************************************************************)
Begin(p) ==
    /\ Up /\ lock = Nobody
    /\ CloneHandle(p, Server)
    /\ \E k \in (mix \cap HandlerKinds) \ {"gc"} : kind' = [kind EXCEPT ![p] = k]
    /\ lock' = p
    /\ UNCHANGED <<mix, done, acked>>

\* Mutated form: reindex keeps the mutex and then waits for it.
ReleaseForEmbedding(p) ==
    /\ lock = p
    /\ kind[p] = "embed"
    /\ lock' = Nobody
    /\ UNCHANGED <<vars, mix, kind, done, acked>>

Release(p) ==
    /\ lock = p
    /\ kind[p] = "embed" \/ (kind[p] = "reindex" /\ p \in done)
    /\ lock' = Nobody
    /\ UNCHANGED <<vars, mix, kind, done, acked>>

WriteCommit(p) ==
    /\ p \in Active \ done
    /\ lock = p <=> kind[p] # "embed"
    /\ WriteEdit(p, FALSE)
    /\ new'[p] \notin published    \* nor is it one that was deleted
    /\ UNCHANGED <<mix, lock, kind, done, acked>>

\* The end of a handler: it leaves nothing behind but what it published.
Finish(p) ==
    /\ pc' = [pc EXCEPT ![p] = "none"]
    /\ new' = [new EXCEPT ![p] = NoOp]
    /\ seen' = [seen EXCEPT ![p] = {}]
    /\ kind' = [kind EXCEPT ![p] = "none"]
    /\ done' = done \ {p}
    /\ lock' = IF lock = p THEN Nobody ELSE lock

PublishCommit(p) ==
    /\ p \in Active
    /\ new[p] \in Stored
    /\ PublishEdit(p)
    /\ done' = done \cup {p}
    /\ UNCHANGED <<mix, lock, kind, acked>>

\* The op-heads are advanced and the new operation cannot be read back.
PublishUnread(p) ==
    /\ p \in Active /\ pc[p] = "ready"
    /\ "unread" \in mix \/ new[p] \notin Stored
    /\ Publish(new[p], {base[p]})
    /\ Finish(p)
    /\ base' = [base EXCEPT ![p] = NoOp]
    /\ UNCHANGED <<mix, log, acked>>

(***************************************************************************)
(* *guard = new_repo: whatever handle is being served is replaced.         *)
(***************************************************************************)
HasMutex(p) == lock = IF kind[p] \in {"reindex", "embed"} THEN Nobody ELSE p

\* Mutated form: the response is sent and the handle is not replaced.
ServeNothing(p) ==
    /\ p \in done /\ HasMutex(p)
    /\ base' = [base EXCEPT ![p] = NoOp]
    /\ acked' = acked \cup {base[p]}
    /\ Finish(p)
    /\ UNCHANGED <<mix, log, heads, published>>

Serve(p) ==
    /\ p \in done /\ HasMutex(p)
    /\ base' = [base EXCEPT ![Server] = base[p], ![p] = NoOp]
    /\ acked' = acked \cup {base[p]}
    /\ Finish(p)
    /\ UNCHANGED <<mix, log, heads, published>>

\* One group of a bulk request is done, and the next one begins on it.
ServeGroup(p) ==
    /\ p \in done /\ kind[p] = "bulk"
    /\ base' = [base EXCEPT ![Server] = base[p]]
    /\ done' = done \ {p}
    /\ UNCHANGED <<mix, log, heads, published, pc, new, seen, lock, kind, acked>>

\* An error before the op-heads are advanced: the client is told.
Fail(p) ==
    /\ p \in Active \ done
    /\ Finish(p)
    /\ base' = [base EXCEPT ![p] = NoOp]
    /\ UNCHANGED <<mix, log, heads, published, acked>>

-----------------------------------------------------------------------------
(***************************************************************************)
(* post_gc, in one hold of the mutex.  It deletes blocks one by one, and   *)
(* may stop at any of them.                                                *)
(***************************************************************************)
\* Mutated form: the walk does not follow the parents.
GarbageBelow(o) == Stored \ {o}

Garbage(o) == Stored \ log[o].anc

CollectGarbage ==
    /\ "gc" \in mix
    /\ Up /\ lock = Nobody
    /\ log[Served].anc \subseteq Stored /\ Served \in Stored
    /\ \E D \in SUBSET Garbage(Served) \ {{}} :
          log' = [o \in OpId |-> IF o \in D THEN Absent ELSE log[o]]
    /\ UNCHANGED <<mix, heads, published, procVars, lock, kind, done, acked>>

Handle(p) == \/ Release(p) \/ WriteCommit(p)
             \/ PublishCommit(p) \/ PublishUnread(p)
             \/ Serve(p) \/ ServeGroup(p) \/ Fail(p)

HttpNext == \/ Boot \/ Crash \/ CollectGarbage
            \/ \E p \in Request : Begin(p) \/ Handle(p)

HttpSpec == HttpInit /\ [][HttpNext]_httpVars

\* Fairness: a handler runs to its end; nothing is assumed of the mutex.
HttpFairSpec == HttpSpec /\ \A p \in Request : WF_httpVars(Handle(p))
-----------------------------------------------------------------------------
(***************************************************************************)
(* Types, and who may be at work: a request that has the mutex is in a     *)
(* handler, handlers that never drop it have it throughout, and only a     *)
(* handler that has begun holds a handle (state.rs, AppState::repo).       *)
(***************************************************************************)
HttpTypeOK ==
    /\ TypeOK
    /\ mix \in Mixes
    /\ lock \in Active \cup {Nobody}
    /\ kind \in [Proc -> HandlerKinds \cup {"none"}]
    /\ done \subseteq Active
    /\ acked \subseteq OpId
    /\ \A p \in Request : kind[p] \in {"write", "bulk"} => lock = p
    /\ \A p \in Request : base[p] # NoOp <=> p \in Active

(***************************************************************************)
(* Where every handler keeps the mutex throughout, a write that was        *)
(* acknowledged is in what the server serves from then on ("Writes replace *)
(* the value inside the mutex with the post-commit ReadonlyRepo",          *)
(* state.rs).                                                              *)
(***************************************************************************)
AckedVisible == Up /\ mix \cap {"reindex", "embed"} = {} => acked \subseteq log[Served].anc

(***************************************************************************)
(* No acknowledged write is lost: it stays in the store and reachable from *)
(* the op-heads, across failed requests, crashes, restarts and garbage     *)
(* collections ("Two concurrent writers will not corrupt data", README).   *)
(***************************************************************************)
AckedKept == acked \subseteq Reach \cap Stored

(***************************************************************************)
(* A server that comes up serves every write ever acknowledged, the ones   *)
(* that had been sidelined by a concurrent handler included (lib.rs,       *)
(* ReadonlyRepo::open in app_with_options).                                *)
(***************************************************************************)
RestartRecovers ==
    [][(~ Up /\ Served' # NoOp) => acked \subseteq log'[Served'].anc]_httpVars

(***************************************************************************)
(* No handler keeps the mutex for ever, by waiting for what it already     *)
(* holds or otherwise (handlers.rs: drop(r) before the second lock).       *)
(***************************************************************************)
MutexReleased == \A p \in Request : lock = p ~> lock # p
=============================================================================
