# A verification development of mnem

mnem is a versioned knowledge-graph store written in Rust. A repository is a
content-addressed blockstore with git-like history: *commits* hold the graph
(nodes, edges, indexes in Prolly trees), *views* say where the head and the
named refs are, *operations* link views into an operation log, and the
*op-heads* say which operations are current. Several writers may work on one
repository at once: nothing is locked while a transaction is prepared, and
concurrent op-heads are merged by whoever opens the repository next.

This directory holds TLA+ models of that machinery and of what is built on it,
the TLC runs that check them on small instances, and TLAPS proofs of the main
results for every instance. `PROJECT.json` is the machine-readable side of this
page: the parts of the system, the runs, the source lines every definition
stands for, the mutated forms that show each property can fail, the hazards,
the findings and the theorems. Paths below are relative to `src/crates/` unless
they say otherwise.

    tlc -workers 4 -config OpLogConverges.cfg MCOpLog      # model-check a run
    tlapm OpLogProofs.tla                                  # check the proofs

## 1. Inventory

### The parts that carry the state

**Operation log and handles** (`mnem-core/src/repo/readonly.rs`, `repo/lca.rs`,
`store/op_heads.rs`).
*State*: the operation blocks; the op-heads set; for each holder of a
`ReadonlyRepo`, the operation its handle is pinned to. A handle is immutable:
it goes stale, it never changes.
*Operations*: `open` (pin the one head, merge several, or report
`Uninitialized`), `init`, `load_at`, `update_ref`, `update_heads`,
`switch_branch`, `OpHeadsStore::update` and `current`.
*Interactions*: every other component reaches the repository through it.
*Hard*: each call is several store calls with anything in between; writers use
stale handles; a process dies between storing a block and publishing it; two
openers merge the same heads.
*Correct when*: nothing published is lost, a reader of the heads never meets a
missing block, concurrent heads collapse into one again, all operations share a
root.

**Views and their merge** (`objects/view.rs`, `repo/merge.rs`).
*State*: head commit, refs (missing, a commit, or a conflict of added and
removed candidates), active branch, tombstones.
*Operations*: `merge_op_heads`, `merge_views`, `merge_one_ref`,
`build_merge_commit`.
*Hard*: several lowest common ancestors after criss-cross merges; three heads
met at once or one after another; conflicts in the ancestor.
*Correct when*: no change to a ref, no node, no tombstone and no commit is
lost, except to an edit that saw it.

**Transactions** (`repo/transaction.rs`, `index/`).
*State*: additions, removals, tombstones, embeddings and refs staged in memory
over the version the transaction is based on.
*Operations*: the staging calls, `resolve_or_create_node`, and the six steps of
`commit_opts`: base trees, trees and indexes, commit, view, operation,
op-heads.
*Hard*: edges are found through an index that may be built, extended or taken
from a parent; a node is removed and added again in one transaction; merges
are never checked for edges without ends.
*Correct when*: what is staged is what the commit holds, no edge dangles, the
index answers for its own version.

**Branch merge** (`repo/merge.rs`: `merge_three_way`, `repo/conflict.rs`;
`mnem-cli/src/commands/merge.rs`, `switch.rs`, `branch.rs`).
*State*: branches, the active one, the head; the files `ORIG_HEAD`,
`MERGE_HEAD` and `MERGE_CONFLICTS.json`.
*Operations*: merge with a strategy, `--continue`, `--abort`, commit, switch,
create and delete a branch.
*Hard*: a command is a sequence of durable writes, in a repository and in three
files, and may be killed between any two.
*Correct when*: a merge leaves out nothing, the head stays on its branch, a
merge in progress can be taken up with its own conflicts.

**Prolly trees** (`mnem-core/src/prolly`) are pure: sorted entries cut into
chunks where a hash of the last keys says so. *Hard*: keys at the boundaries,
trees that are cut differently. *Correct when*: lookup, cursor and diff agree
with a plain map, and a change moves few boundaries.

**HTTP server** (`mnem-http/src/handlers.rs`, `handlers_ingest.rs`,
`state.rs`, `lib.rs`, `routes/traverse.rs`).
*State*: one `ReadonlyRepo` in a mutex; an index cache and a graph cache shared
by all requests.
*Operations*: write handlers, bulk writes, `post_embed`, `post_reindex`,
`post_revert`, `post_gc`, boot; `retrieve` and `traverse_answer`.
*Hard*: some handlers drop the mutex between their commit and the replacement
of the handle, or before their commit; garbage collection deletes blocks; a
handler fails after its commit was published; requests on older handles fill
the caches backwards.
*Correct when*: what was acknowledged is kept, and is served; a restart brings
back everything; no handler keeps the mutex; an answer is about the operation
of its own request.

**Reverts** (`mnem-http/src/handlers.rs`: `post_revert`,
`mnem-cli/src/commands/deferred.rs`): the inverse of an old operation, applied
to the newest version. *Hard*: what others did since. *Correct when*: the
revert of the newest version restores the one before, and that of an older one
touches nothing else.

**Remote protocol** (`mnem-http/src/routes/remote.rs`,
`mnem-cli/src/commands/push.rs`, `pull.rs`, `fetch.rs`, `mnem-transport`).
*State*: the server's op-heads and blocks, each client's head commit.
*Operations*: list refs, push blocks, advance the head, pull.
*Hard*: a push is three requests, with other pushes, local writes and restarts
between them; the ancestry check fails open on a store error.
*Correct when*: an acknowledged push is never replaced by one that does not
descend from it, and never names blocks that are not there.

**Integration with agent hosts** (`mnem-cli/src/integrate.rs`,
`unintegrate.rs`).
*State*: mnem's entries in the configuration files of each host, hook scripts,
backups, and the record of what is wired.
*Hard*: files that belong to a user, changed one by one by a process that may
be killed, undone by another one later.
*Correct when*: an undo leaves nothing of mnem, a backup is what was there, no
host is told to run a script that is not there.

**Storage** (`mnem-core/src/store`, `mnem-backend-redb`).
*State*: blocks by hash, the op-heads table. redb locks the file for one
process and runs each op-heads update in one write transaction.

### The other parts

The object model, the codec and the identifiers are encodings; the models use
only that equal values have equal names and unequal ones have different names.
Ranking, approximate neighbours and graph analytics are numerical work on one
snapshot. Providers, ingestion, bindings, the MCP server and most commands
reach the repository only through the library calls above: the MCP server and a
command are processes that open afresh for every call. `PROJECT.json` lists all
of them with their sources and the reason for what is left out.

### How they interact

    command / MCP tool ----open, call, drop----+
                                               v
    HTTP request --mutex--> served handle -> ReadonlyRepo --> Transaction
         |                                     |                  |
         +--> index, graph caches              |                  |
                                               |                  |
         remote client --push/list-->  op-heads store  <--publish-+
                                               |
                        open finds several --> merge_op_heads -> merge_views

All shared state of a repository is the blockstore (it only grows, but for
garbage collection) and the op-heads set, changed by `update(new, superseded)`
in one transaction.

## 2. The modules

| module | models | uses |
|---|---|---|
| `CausalHistory` | abstract: an append-only causal history | |
| `OpLog` | operations, op-heads, handles, every library call store call by store call | instance of `CausalHistory` |
| `RefMerge` | `merge_one_ref` as an operator | |
| `ViewLog` | views, refs, nodes, tombstones and commits carried by the operations | extends `OpLog`, instance of `RefMerge` |
| `HttpServer` | the mutex, the served handle, write handlers, gc, restarts | extends `OpLog` |
| `RemotePush` | clients and server of a push | |
| `GraphTrees` | trees as partial functions: rebuild, union, strategies, the indexes of a commit | |
| `WorkingCopy` | abstract: writers with private copies of a graph | extends `GraphTrees` |
| `Transaction` | staging, commit and merge of graphs with their indexes and embeddings | extends `GraphTrees`, instance of `WorkingCopy` |
| `BranchMerge` | branches, their merge, its files, kills | extends `GraphTrees` |
| `ProllyTree` | chunks, lookup, cursor, diff | extends `GraphTrees` |
| `Revert` | what a revert commits, given the diff of two trees | extends `GraphTrees`; its instances take the diff from `ProllyTree` |
| `ReadPath` | requests that read, the caches they share, writers beside them | |
| `Integrate` | the files of agent hosts | |
| `MC...` | the instances of each for TLC | extend the module |
| `GraphTreesProofs` | lemmas about trees, unions and strategies | extends `GraphTrees` and `TLAPS` |
| `OpLogProofs`, `ViewLogProofs`, `HttpServerProofs`, `TransactionProofs`, `BranchMergeProofs` | theorems about the module they are named after | extend it and `TLAPS`; those of `ViewLog` and `HttpServer` also `OpLogProofs`, those of `Transaction` and `BranchMerge` also `GraphTreesProofs` |
| `HttpRoutesProofs` | theorems about `ReadPath` and `RemotePush` | extends both and `TLAPS` |
| `CommandProofs` | theorems about `Integrate` and `Revert` | extends both and `GraphTreesProofs` |

### OpLog

`log` is the blockstore restricted to operations: a record per stored
operation with what wrote it (`kind`), whether it was linearized, its `parents`
and `anc`, everything the walk over parents reaches. `heads` is the op-heads
table, `published` remembers every operation whose update returned. Each
process has a `pc` (where in a library call it is), `base` (the operation of
its handle), `new` (the operation it has stored and not published) and `seen`
(the heads its `open` read).

| action | code |
|---|---|
| `OpenUninitialized`, `WriteRoot`, `PublishRoot` | `open` on an empty store, then `init` by the caller |
| `OpenSingle` | `open` with one head: `load_at` |
| `OpenMany`, `WriteMerge`, `PublishMerge` | `open` with several heads: `merge_op_heads`, then `update(merged, all heads read)` |
| `MergeFails` | `NoCommonAncestor` |
| `WriteEdit`, `PublishEdit` | any writer: store the blocks, then `update(op, [base])` |
| `LinearizeCheck`, `LinearizeStale` | the re-read of the heads of a linearized commit, and `Stale` |
| `CloneHandle`, `Drop` | a handle cloned to another thread; dropped, a store error, or a kill |

The blocks of one call are stored by one action, because no other process can
tell how many of them are there until the op-heads name one. An edit always
takes a fresh name: its operation has the author's clock in it (and a commit a
random change id), so two edits never hash alike. The merge of a set of heads
is a function of that set, so two processes that merge the same heads write one
block.

With `Serial = TRUE` calls do not overlap: that is a repository whose callers
go through one mutex, or commands one after another on the locked redb file.
Handles may still be stale, and a call may still be cut off half way. With
`Serial = FALSE` any two store calls of different processes interleave: threads
with clones of one repository, without a common mutex.

### ViewLog

Extends `OpLog`'s actions: each one that stores an operation also stores its
view (and a commit that carries the name of the operation that made it). Refs
are pairs of sets of candidates, as in `RefTarget`; a commit has parents,
ancestors and node names. `CommitView` is step 4 of `commit_opts` (creation of
the main branch, advance of the active branch, staged refs, tombstones),
`UpdateRef`, `UpdateHeads`, `SwitchBranch` are the view edits, `MergedView` is
`merge_views`, `MergeViews` is `merge_op_heads` with `build_merge_commit`. The
order of heads is the order of their hashes, so which lowest ancestor comes
first, and whose active branch comes last, is any of them.

### HttpServer

Requests and the server are processes of `OpLog`; the served handle is
`base[Server]`, the mutex is `lock`. Handlers are grouped by what they do with
the mutex:

| kind | handlers | mutex |
|---|---|---|
| `write` | `post_node`, `delete_node`, `post_edge`, `post_ref`, ingest ... | held from the first read to the replacement |
| `bulk` | `post_nodes_bulk`, `post_switch` | held, with several commits in one hold |
| `reindex` | `post_reindex`, `post_revert` | dropped between the commit and the replacement |
| `embed` | `post_embed` | dropped before the commit, taken again for the replacement |
| `gc` | `post_gc` | held; deletes what the served handle does not reach |

`Begin` clones the handle, `WriteCommit` and `PublishCommit` are the library's
commit, `Serve` is `*guard = new_repo` and the answer to the client,
`PublishUnread` is a commit whose operation could not be read back, `Crash`
ends the process, `Boot` opens the repository before any request is taken.
`gc` deletes any non-empty set of unreachable operations, since it deletes one
block at a time and may stop at any of them. A commit is one block: node and
embedding blocks that two commits share are not told apart. `Mixes` says which
kinds of handler a behaviour may have beside each other.

### RemotePush

Server handlers hold the mutex from their first read to their last write, so
each is one action; a client's push is `ListRefs`, `PushBlocks`, then `Accept`,
`AcceptUnchecked` (the walk over ancestors hit a store error, and the code
fails open) or `Refuse`. `FastForward` and `MergeTip` are `pull`, `LocalWrite`,
`Stop` and `BootSingle` the server's own life. The module keeps its own small
view of the server's log: heads are names, of operations or of commits.

### GraphTrees, Transaction and WorkingCopy

Trees are partial functions from ids to blocks, and a block is the rank of its
hash: that is all the merge looks at. A version is an operation with the trees,
indexes, tombstones, embeddings and listed conflicts of its commit; a
transaction may start from any of them, and reads nothing else until it
commits.

| action | code |
|---|---|
| `AddNode`, `RemoveNode`, `AddEdge`, `RemoveEdge` | the staging calls; `RemoveNode` also drops what was staged for the node and the edges the base's index or the transaction has at it |
| `TombstoneNode`, `UntombstoneNode`, `SetEmbedding` | the same for tombstones and sidecars |
| `ResolveOrCreateNode` | pending nodes first, then the base's index, then a new node |
| `Commit`, `CommitFails` | `commit_opts`: referential check, trees, index extended or built, sidecar pruned |
| `MergeHeads` | `build_merge_commit`: union of trees, highest hash, the conflicts listed, a parent's index lent |

`WorkingCopy` promises that the staged sets over the base are a private copy of
the graph that each call changes as it says and a commit publishes as it is,
never with an edge that lacks an end.

### BranchMerge

A command computes in memory and then does its durable writes: `Merge`,
`Continue` and `Abort` put them into `job`, `Write` does the next one, `Crash`
forgets the rest. `LCAs`, `HasConflicts` and `Merged` are `merge_three_way`:
lowest common ancestors of which any may be the smallest hash, divergent nodes,
and edges compared by their ends. Conflicts are resolved by editing the file
(`Resolve`); one side is entered for all of them.

### ProllyTree and Revert

`Cut` is the chunker, `Build` the levels up to a single root, `Lookup`, the
cursor (`Open`, `Read` with `Descend` and `NextLeaf`) and `Diff` (with `Pairs`
for the ranges that overlap) are the readers. The rolling hash is any of
`Hashes`, each a function of the last four keys of the chunk, with thresholds
scaled down so that trees of six keys have three levels.

In `Revert` the diff is the constant operator `Changes`, so that what a revert
does with a diff can be told apart from what the diff reports; `MCRevert` gives
it the value `Diff` of `ProllyTree`. A diff is a sequence of changes: a key with
the block before and the block after, 0 for none. `NodeDue` and `EdgeDue` are the
conditions in the two loops of `post_revert` (the command's are the same) under
which a change leads to a call, and `Reversal` is the transaction that these
calls stage: the calls read only the base, so a call depends on its change alone
and the last one about an id decides, but for the edges that the removal of a
node takes along, which an edge call may add again, as the edges come second.
`EndsAlive` is the pre-flight check, `Refused` adds the referential check of the
commit, `Noop` is the answer that there is nothing to do.

Two conditions say what a diff may be. `HonestDiff`: what it reports of a key is
the block that is there, or none; this the module assumes (`HonestAssumption`).
`ExactDiff`: it reports the keys on which the trees differ, each once, and no
other. That is what `diff.rs` 59 promises, and it holds of the code's diff
only where the chunks of the two trees line up (finding 1 of section 3).

### ReadPath

Requests clone the served handle (`BeginRetrieve`), take an index and then, if
asked to, communities and an adjacency from the caches, each under a lock of
its own, and compute an answer from what they hold: hits, expansion by
community, the filters, the walk or PageRank, the cuts, the order, packing.
What a ranker computes is any table of scores. `BeginTraverse` and
`TraverseHop` are `traverse_answer`, which takes the mutex again for each hop.
`Write` and `PutBack` are what writers do to the served handle meanwhile; a
handler that dropped the mutex may put an older operation back.

### Integrate

Each step (`WirePart`, `WireScript`, `RecordIntegration`, `UndoPart`,
`UndoScript`, `Deregister`) reads, changes and replaces one file by a rename.
Hosts differ in which parts they have and in which file each part lives:
`Markdown`, `JsonPrompt`, `JsonHooks` and `ScriptHooks`. An entry is the version
of the repository or binary it was written for, the rest of a file is the
user's. `EditFile` and `EditScript` are the user, who may also leave a file that
does not parse; `Kill` ends the command between two steps.

## 3. The runs

Each `.cfg` lists its properties. Deadlock checking is off wherever processes
may stop for good (nobody has to write) or a bounded set of names runs out; in
`ReadPath` a request can always begin or go on, and it is on.

| run | bounds | shows |
|---|---|---|
| `oplog_converges` | 2 processes, 7 operations of which 3 edits, from an empty store, fairness | `OneRoot`: a common ancestor unless both initialised the store; only merges are published again; `Converges`: one head for ever once the other has stopped |
| `viewlog_edits` | 2 processes, 2 refs, 1 node, 3 edits of every kind but linearized ones, 6 operations | no change to a ref, node, commit or tombstone is lost, but to an edit that saw it |
| `viewlog_every` | 2 processes, every kind of edit, 5 operations, from an empty store | `NoOpLost`, `WalkNeverMisses` and `HistoryOnlyGrows` (the refinement of `CausalHistory`), even when two processes initialise and merging fails |
| `http_every` | server and 3 requests, 3 edits; every handler with failing reads, or handlers that keep the mutex beside gc; fairness | what is acknowledged is kept, and served where handlers keep the mutex; a restart serves all of it; no handler keeps the mutex |
| `remote_pushes` | 2 clients, 4 commits, 3 operations | an acknowledged push stays in the past of a head, unless a check failed open |
| `transactions` | 2 nodes, 2 values, 1 edge id, 2 edge blocks, 1 writer on any version, 4 calls, 3 versions and a merge | no version has an edge without an end, indexes answer for their version, resolved ids exist, embeddings stay, a merge lists what it drops; `Transaction` implements `WorkingCopy` |
| `branch_merges` | 2 branches, 2 nodes, 3 commits, 2 merges, 1 kill | merges are whole, the head stays on its branch, a merge can be taken up, with its own conflicts |
| `prolly_trees` | 6 keys, 2 values, chunks of 2 or 3 entries, 3 hash functions, trees that differ in at most 2 keys | lookup and cursor agree with the map, chunks after a change are shared, the diff misses nothing |
| `integrate` | one host of each of three kinds, 3 commands that name up to 2 hosts, 1 edit, 1 kill | hooks have their scripts, what is wired is recorded, backups are originals, an undo leaves nothing |
| `retrieval` | 3 nodes, 2 models, 2 requests, 2 operations, walks of 2 hops, frontier of 1 | answers are of the request's own operation, live and wanted; a traversal follows live edges |
| `reverts` | 2 node ids, 1 edge id, trees of one leaf, logs of 6 versions | a revert undoes its version and only that, revives no edge, and a second finds nothing to do; the diff is honest, and exact (`OneLeafAssumption`) |
| `revert_chunks` | 5 keys, trees of several chunks | a violation: finding 1 below; the diff is still honest |

**Why the bounds are enough for the interesting cases.** Three edits on one
base give three concurrent heads, or two and a later one written on a stale
handle. Seven operations are the root, three edits, two merges and a name to
spare: two heads are merged, an edit follows, a slower reader publishes the
same merge again, and that is merged with the edit. With six operations, in
`viewlog_edits`, merges of different sets of heads, a merge of a merge and
criss-cross merges with two lowest common ancestors occur; `viewlog_every` gives
one name up for a second initialisation. Two processes are one that reads and
one that publishes in between, on a fresh or a stale handle. Three requests are
one in the mutex, one that dropped it, and one that comes in between.

A transaction reads nothing but its base, so one writer that may start from any
version makes every graph that two would; the second writer's commit is another
version to be merged. Four calls are enough to add, link, remove and add again,
or to do half of it in each of two commits; two edge blocks in opposite
directions let an edge be replaced, and moved away from a node. Three commits on
two branches are the two sides of a merge and one after it, two merges a
criss-cross; both edge blocks there have the same ends, which is what conflicts
of edges are about. Six keys in chunks of two or three give three levels, chunks
that are cut by the hash, by the upper limit and by the end, and trees of
different depth; a diff of two keys is one at a boundary and one beyond it. In
`integrate` three commands are wire, wire less, undo; the hosts are one with
files of its own for the prompt and the hooks, one with the prompt in its config,
and one wired by a script, and a host with a server entry only does a part of
what these do. In `retrieval` the
two operations differ in a node that one tombstones and the other removes and
in having edges at all, so that an adjacency from the wrong one would show.

The bounds: `OpId`, `Op`, `Commit` (names), `MaxEdits`, `MaxVersions`,
`MaxCalls`, `MaxCommits`, `MaxMerges`, `MaxCrashes`, `MaxRuns`, `MaxNamed`,
`MaxKills`, `MaxOps`, `MaxLog`, and `Edit` and `Mixes`, which choose the kinds
that a run explores. When names run out, writers stop; nothing else does.

**What a property is tested against.** For each one, `PROJECT.json` names a
mutated form of a definition (in the modules beside the real one, marked
*Mutated form*), a mistake that could be made in that code: an update that
replaces all heads, a commit that leaves its base a head, a base subtracted
once, a handler that forgets to replace the handle, a gc that does not follow
parents, an index that is extended where a node was overwritten, a window that
is not reset between chunks, marker files in another order. Each makes its run
fail.

Each module has one type invariant (`TypeOK`, `ViewTypeOK`, `HttpTypeOK`,
`RemoteTypeOK`, `TxTypeOK`, `BMTypeOK`, `InTypeOK`). They hold in the same
instances and are proved; the runs leave them out, as they do
`HeadsHaveNoChildren`, `LinearizedIsSoleHead` and `MergeCollapsesHeads` of
`OpLog`, which hold when calls do not overlap and are proved for that case.

### Fairness

`FairSpec`: each process of `Commands` takes the next step of a call it has
begun, and its program ends and another command follows (`Advance`, weak
fairness). Nothing is assumed of the others, which may stop anywhere, and no
process ever has to write. That is what a program that runs to its end gives.
`Converges` has three premises: that the other processes stop at last, in the
middle of a call or not, that two processes did not both initialise the store,
and that the names of the bounded model do not run out. The first is needed: two openers out of phase, each superseding heads that
the other has replaced meanwhile, publish merges of merges for as long as they
overlap (two heads and one edit between the two readings are enough to begin it).

`HttpFairSpec`: each request's handler takes its next step if it can
(`Handle`, weak fairness), as tokio's runtime does for a task that is ready. No
fairness of the mutex is assumed, and none is needed: `MutexReleased` says that
a hold ends, not that a given request gets its turn.

The other runs have no fairness.

### Findings

1. `revert_chunks`. `diff_internals` (`mnem-core/src/prolly/diff.rs` 109) compares
   the children of two trees whose ranges overlap pair by pair. Where the chunks
   do not line up, a key that both trees hold with one value is in two pairs: in
   one of them only the first tree has it, in the other only the second, and the
   diff reports it as removed and as added, beside what really changed
   (`diff.rs` 59 promises the added, removed and changed entries). A revert
   takes both at their word: it finds the node there and has nothing to add,
   then removes what it takes for added. `DiffMissesNone` is the half that
   holds; `reverts` has trees of one leaf each, where the diff is exact.

### Disagreements

Between the code and what a reader of its docs might expect, or between two
parts of the code. The models follow the code; properties that would fail on
one of these are stated with the exception, or not at all.

*Operations and views.*
Two writers on one handle state in which a ref is a conflict of two commits
resolve it, each to another one: `merge_one_ref` (`repo/merge.rs` 590) adds the
heads and subtracts the base, every count is zero, and the merged view has no
such ref at all, although the doc of `update_ref` (`repo/readonly.rs` 623-625)
says that the next read sees a conflicted ref. More generally a merge compares
values, not writes. When an edit sets a ref to what another edit, earlier or
beside it, has set it to, the two count as one change: two writers set a ref to
one commit, both are merged, a third on a stale handle that saw only the second
deletes the ref, and the next merge starts from that second edit and drops the
first one's identical write too. `RefChangesKept` is therefore stated of changes
that are news (`IsNews`). Nothing is stated of deletions: after a criss-cross
merge the base may be a version from before a deletion or after it, and the ref
may come back. The linearize check
holds only among calls that do not overlap: two linearized commits may both find
their base the only head. Two processes that find a store empty may both
initialise it, after which merging fails for good with `NoCommonAncestor`
(`MergeFails`, in `viewlog_every`). A slow opener may put a merge back among the
heads after it was superseded; only merges can come back (`OnlyMergesComeBack`),
and the next open collapses them. `export` and `log` follow only the first
parent of an operation.

*The server.*
`post_embed` commits without the mutex and takes it again to replace the
handle; a `post_gc` between the two takes its roots from the served handle
(`handlers.rs` 6013) and deletes what was just published: the embed is
acknowledged, and the op-heads name a block that is gone. The same happens to a
commit whose operation could not be read back. So gc is explored only beside
handlers that keep the mutex throughout, and no failing reads. A write that was
sidelined by an embed or a reindex on an older base is acknowledged and not
served until the next start (`AckedVisible` leaves those mixes out,
`RestartRecovers` is what remains). `post_advance_head` puts the pushed *commit*
among the op-heads (`remote.rs` 502), whose entries `open` decodes as
*operations*: a server that has accepted a push cannot be started again
(`BootSingle` is its only way up). `post_ref` sets a ref without moving the head
that is on it, `delete_ref` can delete the active branch, `post_switch` looks
for `MERGE_HEAD` before it takes the mutex, `post_merge` stores a merge commit
and advances nothing.

*Transactions and merges.*
`AuthoredAdjacencyEmpty` and `has_authored_edges` read an adjacency that the
retrieval has not built. An extended index is not byte for byte the built one
when two nodes share a value (`index/build.rs`, "Byte equivalence invariant"):
it keeps another of them, so `IndexServes` asks for one that has the value.
`where_eq` answers with one node per value. Merges store no embedding and no
sparse sidecar. A merge takes the union and, where blocks differ, the highest
hash, also where only one side changed a node or removed it (`conflict.rs` 434
and the help of the command say that the changed side wins). `ours` and `theirs`
list no conflicts. Edges are compared by their ends, so that parallel edges hide
one another's conflicts. `merge_three_way` stores a view and an operation,
although its doc leaves the blockstore untouched, and never gives tombstones to
the detection of conflicts.

*Branches.*
A branch may be moved to a commit that does not follow the one it was at.
`advance_ref` moves the branch and the head by two operations: a kill between
them leaves the head behind, and the next commit takes the branch away from the
merge (`HeadOnBranch` is stated without kills). After two kills at the wrong
places a file of conflicts may be that of another merge (`OwnConflicts` is
stated for one).

*Answers.*
The communities cached for an operation are those of whichever embedding model
came first. Neighbours are filtered after the cut to `max_expand`, so that
wanted ones further down are lost. Tombstoned neighbours still bridge to the
second hop of a walk. A negative score rises when it is decayed. A traversal may
report a node that was tombstoned between two hops. Without expansion, community
members follow the hits unsorted.

*Reverts.*
An edge that the version had only changed is put back although its node is
tombstoned. The deletion of a node with its edges cannot be reverted: the
pre-flight check asks for the ends of the edges before the nodes are added. The
revert of a revert that took a tombstone away finds nothing to do. The revert of
a switch between branches applies the difference of the branches.

*Integration.*
A config file that also holds the prompt (Continue, Zed) is backed up twice
under one time stamp, the second time with mnem's entry in it. A grouped
`UserPromptSubmit` entry is replaced as a whole. An edited hermes script is
overwritten; an undo by another binary leaves it. Unbalanced markers in a rules
file make a second run add a second block. A record that cannot be read counts
as empty, two integrates at once lose one record, and a host that rewrites its
file between mnem's read and rename loses its edit. A kill between a write and
the record leaves a host that `unintegrate --all` misses; `unintegrate` stops at
the first file that does not parse. A run with `--no-hooks` replaces the record
of a host that has them.

## 4. The proofs

Each theorem is about the specification as the runs have it, for every value of
the constants: any number of processes, writers, requests, hosts, names and
calls. TLC has checked the invariants on the instances of section 3 first.

| theorem | says |
|---|---|
| `OpLogProofs!TypeCorrect` | `Spec => []TypeOK` |
| `OpLogProofs!NothingLost` | `Spec => []NoOpLost` |
| `OpLogProofs!WalksAreComplete` | `Spec => []WalkNeverMisses` |
| `OpLogProofs!HistoryRefinement` | `Spec => HistoryOnlyGrows`, the refinement of `CausalHistory` |
| `OpLogProofs!RootShared` | `Spec => []OneRoot` |
| `OpLogProofs!ComebacksAreMerges` | `Spec => []OnlyMergesComeBack` |
| `OpLogProofs!LinearizedAlone`, `MergesCollapse`, `HeadsAreChildless` | when calls do not overlap: `Serial => (Spec => LinearizedIsSoleHead)`, and the same of `MergeCollapsesHeads` and `[]HeadsHaveNoChildren` |
| `ViewLogProofs!ViewsImplementLog` | a behaviour of `ViewLog` is one of `OpLog` |
| `ViewLogProofs!NothingLostWithViews`, `ViewTypeCorrect` | nothing is lost; a view never names a commit that is not stored |
| `ViewLogProofs!NodesAreKept`, `TombstonesAreKept`, `CommitsAreKept`, `RefChangesAreKept` | the four invariants of `viewlog_edits` |
| `HttpServerProofs!HttpTypeCorrect` | `HttpSpec => []HttpTypeOK` |
| `HttpServerProofs!AcknowledgedKept`, `AcknowledgedVisible`, `RestartsRecover` | `GcApart => (HttpSpec => []AckedKept)`, and the same of `[]AckedVisible` and `RestartRecovers` |
| `HttpRoutesProofs!AlwaysFromOwnOp`, `AlwaysLiveAndWanted`, `AlwaysFollowsLive` | the three invariants of `retrieval` |
| `HttpRoutesProofs!RemoteTypeCorrect`, `PushesAreKept` | types, and the invariant of `remote_pushes` |
| `TransactionProofs!StagedOnce` | `TxSpec => []TxTypeOK` |
| `TransactionProofs!EdgesAlwaysHaveEnds`, `IndexAlwaysServes`, `ResolvedAlwaysExists`, `EmbeddingsAlwaysKept`, `LossesAlwaysListed` | the five invariants of `transactions` |
| `TransactionProofs!CopiesArePrivate` | `TxSpec => IsWorkingCopy`, the refinement of `WorkingCopy` |
| `BranchMergeProofs!BMTypes` | `BMSpec => []BMTypeOK` |
| `BranchMergeProofs!MergesAreWhole`, `HeadsAreOnBranches`, `MergesCanResume`, `ConflictsAreOwn` | the four invariants of `branch_merges` |
| `CommandProofs!EntriesTyped`, `ScriptAlwaysThere`, `RecordsComplete`, `UndoIsComplete`, `BackupsComplete` | types, and the four properties of `integrate` |
| `CommandProofs!EveryRevertMade` | `RevertSpec => []LogInv`: versions are typed and whole, every revert passed both checks |
| `CommandProofs!NoRevertRevivesAnEdge` | `RevertSpec => []NoEdgeRevived`, for any honest diff |
| `CommandProofs!RevertOfTheNewestUndoes`, `RevertKeepsOthers`, `SecondRevertFindsNothing` | the other three invariants of `reverts`, where the diff is exact |

**Assumptions.** Only those on constants, each stated and named in its module:
`OpLogAssumption` and `ViewLogAssumption` (distinguished names are not ordinary
ones, bounds are numbers), `HttpServerAssumption` and `RemotePushAssumption`
(the same of theirs), `ReadPathAssumption`, `IntegrateAssumption`,
`GraphAssumption` (ids and hashes are numbers and finitely many, as they are of
fixed width: the highest of a set of hashes exists), `BlocksAssumption` (the same
of `BranchMerge`), `BranchAssumption`, `BoundAssumption`, `BlockAssumption` (0 is
no block) and `HonestAssumption` (the diff reports blocks that are there, as an
entry is only ever read from a tree; TLC evaluates it for the diff of
`ProllyTree` in both runs of `Revert`, on trees of one chunk and of several).
Three hypotheses stand in the theorems that need them. Two are
about which behaviours are meant. `Serial`: calls do
not overlap. `GcApart`: where garbage collection runs, no handler drops the mutex
in the middle and no commit fails to be read back; the instance of the run
satisfies it, and without it `AckedKept` is false of the code (*The server*,
above). For servers that do not collect, `GcApart` says nothing. The third,
`Exact`, is about the diff: it is what `diff.rs` promises, it holds of trees that
fit in one leaf (`OneLeafAssumption`, evaluated by `reverts`), and without it
`RevertUndoes` is false of the code, which is what `revert_chunks` finds.

**The argument for the log.** `NoOpLost` is not inductive: that an operation is
below a head says nothing of what a half-finished call will do to that head.
`OpLogInv` adds four facts. `AncestryOK`: a stored operation has its parents
stored, and `anc` is itself and what its parents reach. `HeadsOK`: heads are
stored and published. `HandlesOK`: a handle is pinned to a published operation.
`PendingOK`: an operation that is stored and not yet published has as parents
exactly what its publication will supersede, which is the one line of the code
all depends on. With these, an update that replaces heads by an operation above
them reaches what was reached before (`PublishReach`), and storing a block
changes no ancestry (`PutKeeps`). The refinement rests on `PublishAppends`: a
publication appends to the history an event that follows what it supersedes.
`RootShared` strengthens by `RootInv`: every published operation has a
published root among its ancestors, a pending root comes from an `init`, and
whoever merges has read a head. `LinearizedAlone` keeps `CheckedOK`: between the
check and the publication the base is still the only head, because nobody else
moves; `MergingOK` says the same of the heads that a merge has read. For
`OnlyMergesComeBack`, `ReturnInv` says who knows of an operation before it is
published: of an edit or a root only its writer (`OwnedOK`), and whatever is
stored descends from published operations alone (`PastOK`). So nothing published
descends from an edit when it becomes a head, and whoever builds on it removes
it (`ChildlessOK`). A merge can be written by two, which is why it comes back.
Without overlap it does not: a merge of the present heads would be a child of
each, and none has a published one (`NoneHasChildren`).

**Views.** `ViewInv` says that candidates of refs, heads and parents are stored
commits. The merge of refs only chooses among candidates of its inputs
(`MergedTargets`), so merged views keep it. Every action of `ViewLog` is an
action of `OpLog` with more to it, from which what is proved of the log follows.

That changes are kept is proved of every stored operation, not of the heads
alone, since a merge starts from operations that no longer are heads. Each step
stores one operation or none (`StepStores`), and so it is enough to look at that
one. Nodes, tombstones and commits have one argument, `Carried`: an operation has
what it brings, an edit has what its parent has unless it takes it away, and a
merge has what any of its parents has. Refs do not: a merge may drop what one
parent has. `RefInv` adds that an edit leaves a ref with one target or none
(`WrittenOK`), that a target and its removal do not occur together
(`DisjointOK`), and that whatever a ref mentions was written by an edit in the
past (`MentionedOK`). That last fact decides every merge: if the base of the
merge mentions the target, an edit in the base's past wrote it and, the change
being news, has seen it, so the base has the change in its past, and every
parent has it or an edit that saw it wrote the ref again; if the base does not, the parent that has the target outweighs
it. Which of several lowest common ancestors is the base does not matter.

**The server.** Garbage collection takes operations out of the store, so
`OpLogInv` is not simply inherited. In `HttpInv`, `ChainOK` says that where there
is a collector the served handle is the only head, until a handler, of which
there is one at a time (`OneAtATime`), has published over it. Hence all that was
published is in the past of the served handle when the collector has the mutex,
what it deletes was neither published nor is about to be, and by `PastOK` nothing
that stays misses it (`LogCollected`). `FollowsOK`: where handlers keep the mutex,
the handle of each descends from the one being served, so replacing it loses
nothing (`AckedVisible`). `BootOK`: until the server is up nobody moves the heads
that it has read, so a boot leaves one head, above all that was published
(`BootCollapses`), which is `RestartRecovers`.

**Pushes.** In `RemoteInv`, `PastsOK` and `MadeOK` say that pasts are transitive
and heads have been made, `PushOK` that a push in its last request has all of
its commit's past in the server's store, and that it replaces something else.
With the type invariant (the past of a head that is a commit is in the store)
this shows that the commit a push is about to replace is one the server has, so
the check of ancestry takes place and what replaces it has it in its past.

**Answers.** The inductive invariant of `ReadPath` is `ShapeOK` (what a request
holds at which step), `CachesOwn` (a cache entry was built from the operation
that it is keyed by) and `RequestOK` (what a request took is for its own
operation). The caches may go backwards; the key may not lie.

**Transactions.** `TInv` says that each version is sound by itself: its index
serves it (`Serves`) and its edges have ends. A transaction keeps `StagedOK`: of
a node that it removes, no edge of the base is left that it neither removes nor
writes anew. That is what makes the check of the staged edges enough, and it
depends on `Serves`, since `remove_node` sees edges through the index: the two
are inductive only together. A merge needs nothing of the kind: an edge comes
from a version that has its ends, and the union drops no key. The refinement
compares, call by call, the trees that a commit of the staged sets would store
(`StagedAddition`, `StagedRemoval`: to stage and then rebuild is to rebuild and
then change).

**Branches.** A command is known by the writes it has left. `JobOK` lists the
shapes: nothing begun or all done (`AtRest`), advancing a branch and then the
head, putting up the three files in their order, taking them down in theirs;
and for each what the branch, the head and the files are like there. The order
of the files is what keeps `MergeCanResume` at every kill. `OwnFile` says that
without a kill there is no file of conflicts outside a merge, which is what one
kill may break and the second turn into a wrong resolution. That edges keep
their ends needs no check at a merge: a merged tree has every key of both sides
with a block of one of them (`StrategyUnionIs`), so the ends of an edge come
along with it.

**Integration.** The invariant names the steps that a command of a host goes
through (`WireTodos`, `UndoTodos`) and says what holds between them: the script
is there when the config is about to name it (`ScriptReady`), what an undo has
not come to yet is all that is left (`UndoneOK`), a host with an entry has a
record or is about to get one (`RecordedOK`). `BackedUp` is about backups: nobody
else writes during a run, and a file that the run has still to come to (`ToCome`)
is as the run found it. The last is false of a config that also holds
the prompt, of which the second backup replaces the first; of all others a file
is written once (`OneSlotEach`).

**Reverts.** What a revert does is a function of the version it is made on and
of the diff, so nearly all of the argument is about one step, in lemmas without
state. `ReversalIs` says what the transaction holds, for a diff of which nothing
is known: whatever it adds or removes is due to a change at some position, the
edges of a removed node go unless they are added again, and if no key occurs
twice every due change has its effect. From that and honesty follow that no
edge loses an end (`ReversalEnds`: what the base had is kept by the removal of
edges with their nodes, what is staged by the check of the commit) and that an
edge that comes back was looked at by the pre-flight check (`ReversalRevives`: the
version reverted does not have it, so its change has no block after). With an exact diff a key
leads to a call only if its version changed it (`ReversalKeeps`); on the version
itself every change is due, and what comes out has the trees of the one before
(`ReversalUndoes`), which needs that those have no edge without an end, for the
edges that go with a removed node must not be some that stay; and where the trees are
those of before, no change is due (`NothingDue`). The invariant `LogInv` carries
these to the log: every version is whole, and each that reverts another was made
so on the one before it (`MadeOK`), which later commits do not alter
(`LogGrows`). The theorem `NoRevertRevivesAnEdge` has no need of `Exact`: a diff
that reports a key twice makes a revert remove too much, never leave an edge
hanging.

**Only model-checked.** Liveness (`Converges`, `MutexReleased`) and whatever
needs `ENABLED`. What recursive definitions compute, for which an induction over
data would be needed: the four properties of `ProllyTree`, and that its diff is
honest. Every other property of a passing run is proved.

## 5. What is abstracted, and what is not modelled

*Names.* Equal contents have equal hashes and different ones different hashes;
hash collisions do not occur. An edit takes a fresh name. With finitely many
names an endless chain of merges of merges ends; the proofs have no such bound.

*Blocks.* The blocks of one commit are stored in one step (only the op-heads
make them reachable), and two commits share none. So the garbage collection of
a block that another commit is about to share is not explored, and the hazard
at `handlers.rs` 6095 has no property.

*Panics.* A panic under the mutex poisons it, and every later handler answers
with an error (`error.rs` 52) until the server is restarted. Panics are not
modelled, only the end of the process.

*Views.* `ViewLog` has node names only; edges, indexes and sidecars are in
`Transaction`, which in turn has no refs. `RemotePush` has two names for each
merge, of the operation and of the commit.

*Numbers.* Scores, fusion of lanes, reranking, PageRank weights, approximate
neighbours, community detection and embeddings are floating-point functions of
one snapshot. `ReadPath` has any table of scores in their place. Their accuracy
is a matter of tests.

*Not modelled*, and why:

- codec, identifiers, object encodings: pure encodings;
- signing, guard, anchor: pure functions of a value, not called on these paths;
- `batch_put`, the corruption check and the edge store of redb: local to one
  transaction of the database;
- import and export, fetching blocks, the framing of CAR files: they read, or
  write blocks that nothing names yet; fetch's tracking refs are ref updates;
- authentication, rate limits, metrics: counters and request plumbing;
- the ingest pipeline, extraction, providers: parsing and calls to external
  models, which reach the repository by one transaction; that they are slow or
  fail is in `HttpServer`;
- bindings: wrappers of library calls;
- other commands: arguments, configuration and output;
- benchmarks, test utilities, packaging: no part of the running system.

Most of the source is of these kinds or is wording and layout; the map covers
what keeps state or decides about it.

## 6. What is left

Blocks that commits share in the garbage collection (the hazard at `handlers.rs`
6095), which a model with blocks as well as operations would show; names that are
used again, for endless chains of merges; what a server keeps when handlers that
drop the mutex run beside collections in another order than the one that loses a
write, for which `GcApart` is stronger than it need be.
