----------------------------- MODULE RemotePush -----------------------------
(***************************************************************************)
(* Clients that push commits to a server, which meanwhile writes           *)
(* operations of its own (mnem-http/src/routes/remote.rs: get_refs,        *)
(* post_push_blocks, post_advance_head; mnem-cli/src/commands/push.rs,     *)
(* pull.rs).  A push replaces one of the server's op-heads by a commit.    *)
(*                                                                         *)
(* Each handler of the server holds the repository mutex from its first    *)
(* read to its last write, so it is one step; a client talks to the server *)
(* in three requests, and others come in between.                          *)
(***************************************************************************)
EXTENDS Naturals, FiniteSets

CONSTANTS Op,         \* names of the server's operations
          Commit,     \* names of the clients' commits
          Root,       \* the operation the server was initialised with
          Client,
          None        \* stands for "nothing"

ASSUME RemotePushAssumption == /\ Root \in Op
                               /\ Op \cap Commit = {}
                               /\ None \notin Op \cup Commit

VARIABLES heads,      \* the server's op-heads
          past,       \* the ancestors of each operation and commit, itself included
          blocks,     \* commits in the server's blockstore
          handle,     \* the operation of the server's handle, None when it is down
          head,       \* the head commit of each client
          old, new,   \* what a push is about to replace, and by what
          step,       \* where the push of each client is
          accepted,   \* history: commits whose push was acknowledged
          unchecked   \* history: commits replaced although the check failed

serverVars == <<heads, blocks, handle>>
clientVars == <<head, old, new, step>>
history == <<accepted, unchecked>>
remoteVars == <<serverVars, past, clientVars, history>>

Id == Op \cup Commit

\* The first name that is not taken, if the bounded model has one left.
Fresh(S) ==
    LET free == {x \in S : past[x] = {}}
    IN  IF free = {} THEN {} ELSE {CHOOSE x \in free : TRUE}

Init == /\ heads = {Root}
        /\ past = [x \in Id |-> IF x = Root THEN {Root} ELSE {}]
        /\ blocks = {}
        /\ handle = Root
        /\ head = [c \in Client |-> None]
        /\ old = [c \in Client |-> None]
        /\ new = [c \in Client |-> None]
        /\ step = [c \in Client |-> "idle"]
        /\ accepted = {}
        /\ unchecked = {}

Past(S) == UNION {past[x] : x \in S}

Create(x, parents) == past' = [past EXCEPT ![x] = {x} \cup Past(parents)]

-----------------------------------------------------------------------------
(***************************************************************************)
(* The server's own writes and restarts.  ReadonlyRepo::open decodes every *)
(* op-head as an operation; one that is a commit is an error.              *)
(***************************************************************************)
LocalWrite ==
    /\ handle # None
    /\ \E o \in Fresh(Op) :
          /\ Create(o, {handle})
          /\ heads' = (heads \cup {o}) \ {handle}
          /\ handle' = o
    /\ UNCHANGED <<blocks, clientVars, history>>

Stop == /\ handle # None
        /\ handle' = None
        /\ UNCHANGED <<heads, blocks, past, clientVars, history>>

BootSingle ==
    /\ handle = None
    /\ \E o \in Op : heads = {o} /\ handle' = o
    /\ UNCHANGED <<heads, blocks, past, clientVars, history>>

-----------------------------------------------------------------------------
(***************************************************************************)
(* Clients.  A client commits, takes over the remote's head when that is a *)
(* commit (a fast-forward, or a merge commit), and pushes its head.  Two   *)
(* clients that merge the same commits get two names for one merge here.   *)
(***************************************************************************)
\* get_refs: the smallest op-head, whichever that is.
RemoteTip == IF handle = None THEN {} ELSE heads

NewCommit(c) ==
    /\ step[c] = "idle"
    /\ \E x \in Fresh(Commit) :
          /\ Create(x, {head[c]} \ {None})
          /\ head' = [head EXCEPT ![c] = x]
    /\ UNCHANGED <<serverVars, old, new, step, history>>

FastForward(c) ==
    /\ step[c] = "idle"
    /\ \E t \in RemoteTip \cap Commit :
          /\ head[c] # t
          /\ head[c] \in past[t] \cup {None}
          /\ head' = [head EXCEPT ![c] = t]
    /\ UNCHANGED <<serverVars, past, old, new, step, history>>

MergeTip(c) ==
    /\ step[c] = "idle"
    /\ head[c] # None
    /\ \E t \in RemoteTip \cap Commit, x \in Fresh(Commit) :
          /\ head[c] \notin past[t] /\ t \notin past[head[c]]
          /\ past[head[c]] \cap past[t] # {}
          /\ Create(x, {head[c], t})
          /\ head' = [head EXCEPT ![c] = x]
    /\ UNCHANGED <<serverVars, old, new, step, history>>

ListRefs(c) ==
    /\ step[c] = "idle"
    /\ head[c] # None
    /\ \E t \in RemoteTip \ {head[c]} : old' = [old EXCEPT ![c] = t]
    /\ new' = [new EXCEPT ![c] = head[c]]
    /\ step' = [step EXCEPT ![c] = "listed"]
    /\ UNCHANGED <<serverVars, past, head, history>>

PushBlocks(c) ==
    /\ step[c] = "listed"
    /\ handle # None
    /\ blocks' = blocks \cup past[new[c]]
    /\ step' = [step EXCEPT ![c] = "pushed"]
    /\ UNCHANGED <<heads, handle, past, head, old, new, history>>

EndPush(c) ==
    /\ step' = [step EXCEPT ![c] = "idle"]
    /\ old' = [old EXCEPT ![c] = None]
    /\ new' = [new EXCEPT ![c] = None]
    /\ UNCHANGED head

-----------------------------------------------------------------------------
(***************************************************************************)
(* post_advance_head: old must be an op-head; when it is a commit, new     *)
(* must descend from it.                                                   *)
(***************************************************************************)
IsCommit(x) == x \in blocks

\* Mutated form: no check of ancestry.
DescendsAnyway(o, n) == TRUE

Descends(o, n) == IsCommit(o) => o \in past[n]

Replace(o, n) == heads' = (heads \cup {n}) \ {o}

Accept(c) ==
    /\ step[c] = "pushed"
    /\ handle # None
    /\ old[c] \in heads
    /\ Descends(old[c], new[c])
    /\ Replace(old[c], new[c])
    /\ accepted' = accepted \cup {new[c]}
    /\ EndPush(c)
    /\ UNCHANGED <<past, blocks, handle, unchecked>>

\* "Failing open": the walk over parents hit a store error.
AcceptUnchecked(c) ==
    /\ step[c] = "pushed"
    /\ handle # None
    /\ old[c] \in heads
    /\ IsCommit(old[c])
    /\ Replace(old[c], new[c])
    /\ accepted' = accepted \cup {new[c]}
    /\ unchecked' = unchecked \cup {old[c]}
    /\ EndPush(c)
    /\ UNCHANGED <<past, blocks, handle>>

\* The client's head is the remote's already, or the push is refused or cut off.
Refuse(c) ==
    /\ step[c] # "idle"
    /\ \/ handle = None
       \/ step[c] = "pushed" /\ ~ (old[c] \in heads /\ Descends(old[c], new[c]))
    /\ EndPush(c)
    /\ UNCHANGED <<serverVars, past, history>>

Push(c) == ListRefs(c) \/ PushBlocks(c) \/ Accept(c) \/ AcceptUnchecked(c) \/ Refuse(c)

Next == \/ LocalWrite \/ Stop \/ BootSingle
        \/ \E c \in Client : NewCommit(c) \/ FastForward(c) \/ MergeTip(c) \/ Push(c)

Spec == Init /\ [][Next]_remoteVars
-----------------------------------------------------------------------------
(***************************************************************************)
(* Types, and what is pushed is in the store before it becomes a head      *)
(* (push.rs: push-blocks before advance-head).                             *)
(***************************************************************************)
RemoteTypeOK ==
    /\ heads \subseteq Id
    /\ past \in [Id -> SUBSET Id]
    /\ handle \in Op \cup {None}
    /\ head \in [Client -> Commit \cup {None}]
    /\ old \in [Client -> Id \cup {None}]
    /\ new \in [Client -> Commit \cup {None}]
    /\ step \in [Client -> {"idle", "listed", "pushed"}]
    /\ \A h \in heads \cap Commit : past[h] \subseteq blocks

(***************************************************************************)
(* An acknowledged push is not lost: the commit stays an ancestor of a     *)
(* head, whoever pushes next and from whatever state of the remote, unless *)
(* its ancestry check could not read the store (post_advance_head: "closes *)
(* the divergent-history gap").                                            *)
(***************************************************************************)
PushesKept == accepted \subseteq Past((heads \cap Commit) \cup unchecked)

=============================================================================
