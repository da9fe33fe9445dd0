----------------------------- MODULE ProllyTree -----------------------------
(***************************************************************************)
(* The chunked search tree in which mnem keeps nodes, edges and indexes:   *)
(* its construction, lookup, cursor and diff.                              *)
(*                                                                         *)
(* Sources: mnem-core/src/prolly/chunker.rs, tree.rs, lookup.rs,           *)
(* cursor.rs, diff.rs; repo/transaction.rs (rebuild_tree).                 *)
(*                                                                         *)
(* A chunk is a record and contains its children: chunks are stored by     *)
(* hash, so equal chunks are the same block.  A leaf has entries, pairs of *)
(* a key and a value; an internal chunk has children and, between every    *)
(* two of them, the first key of the second.                               *)
(***************************************************************************)
EXTENDS GraphTrees, SequencesExt

CONSTANTS Key, Value,           \* keys are positive numbers
          MinEntries, MaxEntries,    \* MIN_ENTRIES_PER_CHUNK, MAX_ENTRIES_PER_CHUNK, scaled down
          Hashes, Below(_, _),  \* Below(h, w): hash function h puts window w below THRESHOLD
          MaxEdits              \* bound: keys in which the two trees differ

VARIABLES hash,     \* the hash function in use
          from, to, \* the contents of two trees, one derived from the other
          cursor    \* a cursor over the second

prollyVars == <<hash, from, to, cursor>>

LastFour(s) == SubSeq(s, IF Len(s) > 4 THEN Len(s) - 3 ELSE 1, Len(s))

ShouldSplit(n, window) ==
    n >= MinEntries /\ (n >= MaxEntries \/ Below(hash, window))

(***************************************************************************)
(* Items <<key, x>> are cut into chunks: after each the window of the last *)
(* four keys of this chunk decides whether it ends here.                   *)
(***************************************************************************)
\* Mutated form: the window is not reset between chunks.
CutKeepingWindow(items) ==
    LET push(acc, item) ==
            LET cur    == Append(acc.cur, item)
                window == LastFour(Append(acc.window, item[1]))
            IN  IF ShouldSplit(Len(cur), window)
                THEN [done |-> Append(acc.done, cur), cur |-> <<>>, window |-> window]
                ELSE [acc EXCEPT !.cur = cur, !.window = window]
        end == FoldLeft(push, [done |-> <<>>, cur |-> <<>>, window |-> <<>>], items)
    IN  IF end.cur = <<>> THEN end.done ELSE Append(end.done, end.cur)

Cut(items) ==
    LET push(acc, item) ==
            LET cur    == Append(acc.cur, item)
                window == LastFour(Append(acc.window, item[1]))
            IN  IF ShouldSplit(Len(cur), window)
                THEN [done |-> Append(acc.done, cur), cur |-> <<>>, window |-> <<>>]
                ELSE [acc EXCEPT !.cur = cur, !.window = window]
        end == FoldLeft(push, [done |-> <<>>, cur |-> <<>>, window |-> <<>>], items)
    IN  IF end.cur = <<>> THEN end.done ELSE Append(end.done, end.cur)

Leaf(entries) == [leaf |-> TRUE, entries |-> entries]

Internal(items) ==
    [leaf |-> FALSE,
     boundaries |-> [i \in 1..(Len(items) - 1) |-> items[i + 1][1]],
     children |-> [i \in 1..Len(items) |-> items[i][2]]]

\* The chunks of a level, each with its first key.
LeafLevel(entries) ==
    LET chunks == Cut(entries)
    IN  IF chunks = <<>> THEN <<<<0, Leaf(<<>>)>>>>
        ELSE [i \in DOMAIN chunks |-> <<chunks[i][1][1], Leaf(chunks[i])>>]

InternalLevel(items) ==
    LET chunks == Cut(items)
    IN  [i \in DOMAIN chunks |-> <<chunks[i][1][1], Internal(chunks[i])>>]

RECURSIVE Root(_)
Root(level) == IF Len(level) = 1 THEN level[1][2] ELSE Root(InternalLevel(level))

Entries(content) ==
    LET keys == SetToSortSeq(DOMAIN content, <)
    IN  [i \in DOMAIN keys |-> <<keys[i], content[keys[i]]>>]

Build(content) == Root(LeafLevel(Entries(content)))

-----------------------------------------------------------------------------
\* Mutated form: a separator belongs to the child before it.
ChildForBelow(t, k) == 1 + Cardinality({i \in DOMAIN t.boundaries : t.boundaries[i] < k})

\* The child whose range holds k: a separator is the first key of the child after it.
ChildFor(t, k) == 1 + Cardinality({i \in DOMAIN t.boundaries : t.boundaries[i] <= k})

\* The value of k, 0 when there is none.
RECURSIVE Lookup(_, _)
Lookup(t, k) ==
    IF ~ t.leaf THEN Lookup(t.children[ChildFor(t, k)], k)
    ELSE LET at == {i \in DOMAIN t.entries : t.entries[i][1] = k}
         IN  IF at = {} THEN 0 ELSE t.entries[CHOOSE i \in at : TRUE][2]

RECURSIVE Collected(_)
Collected(t) == IF t.leaf THEN t.entries
                ELSE FlattenSeq([i \in DOMAIN t.children |-> Collected(t.children[i])])

\* The merge of two sorted lists of entries: <<key, before, after>>, 0 for no value.
DiffEntries(a, b) ==
    LET at(s, k) == LET i == {i \in DOMAIN s : s[i][1] = k}
                    IN  IF i = {} THEN 0 ELSE s[CHOOSE j \in i : TRUE][2]
        keys == {a[i][1] : i \in DOMAIN a} \cup {b[i][1] : i \in DOMAIN b}
        differing == SetToSortSeq({k \in keys : at(a, k) # at(b, k)}, <)
    IN  [i \in DOMAIN differing |-> <<differing[i], at(a, differing[i]), at(b, differing[i])>>]

\* Mutated form: a range is skipped when the child on the left is that of the range before.
PairsByLeft(a, b) ==
    LET lower == <<0>> \o SetToSortSeq(ToSet(a.boundaries) \cup ToSet(b.boundaries), <)
        pair  == [i \in DOMAIN lower |-> <<ChildFor(a, lower[i]), ChildFor(b, lower[i])>>]
    IN  [i \in 1..Len(a.children) |-> CHOOSE p \in ToSet(pair) : p[1] = i]

(***************************************************************************)
(* The pairs of children of a and b whose ranges overlap, in order: one    *)
(* for every range between the separators of both.                         *)
(***************************************************************************)
Pairs(a, b) ==
    LET lower == <<0>> \o SetToSortSeq(ToSet(a.boundaries) \cup ToSet(b.boundaries), <)
        pair  == [i \in DOMAIN lower |-> <<ChildFor(a, lower[i]), ChildFor(b, lower[i])>>]
        fresh == {i \in DOMAIN pair : i = 1 \/ pair[i] # pair[i - 1]}
    IN  [j \in 1..Cardinality(fresh) |-> pair[SetToSortSeq(fresh, <)[j]]]

RECURSIVE Diff(_, _)
Diff(a, b) ==
    CASE a = b -> <<>>
      [] a # b /\ (a.leaf \/ b.leaf) -> DiffEntries(Collected(a), Collected(b))
      [] OTHER -> LET p == Pairs(a, b)
                  IN  FlattenSeq([i \in DOMAIN p |-> Diff(a.children[p[i][1]], b.children[p[i][2]])])

-----------------------------------------------------------------------------
(***************************************************************************)
(* A cursor: a stack of internal chunks with the number of the child to    *)
(* visit next, the entries of the current leaf with the number of the one  *)
(* to read next, and what it has returned so far.                          *)
(***************************************************************************)
Closed == [open |-> FALSE, stack |-> <<>>, leaf |-> <<>>, next |-> 1, read |-> <<>>]

\* From t down the left spine to a leaf.
RECURSIVE Descend(_, _)
Descend(c, t) ==
    IF t.leaf THEN [c EXCEPT !.leaf = t.entries, !.next = 1]
    ELSE Descend([c EXCEPT !.stack = Append(c.stack, <<t, 2>>)], t.children[1])

\* Mutated form: the last child of a chunk is not visited.
UnfinishedEarly(c) == {i \in DOMAIN c.stack : c.stack[i][2] < Len(c.stack[i][1].children)}

\* The open chunks that have children left to visit.
Unfinished(c) == {i \in DOMAIN c.stack : c.stack[i][2] <= Len(c.stack[i][1].children)}

\* The cursor after it moves to the next leaf; there is one.
NextLeaf(c) ==
    LET i     == Highest(Unfinished(c))
        frame == c.stack[i]
        stack == Append(SubSeq(c.stack, 1, i - 1), <<frame[1], frame[2] + 1>>)
    IN  Descend([c EXCEPT !.stack = stack], frame[1].children[frame[2]])

AtLeaf(c) == IF c.next > Len(c.leaf) /\ Unfinished(c) # {} THEN NextLeaf(c) ELSE c

Finished(c) == c.open /\ c.next > Len(c.leaf) /\ Unfinished(c) = {}

Open ==
    /\ ~ cursor.open
    /\ cursor' = Descend([Closed EXCEPT !.open = TRUE], Build(to))
    /\ UNCHANGED <<hash, from, to>>

Read ==
    /\ cursor.open /\ ~ Finished(cursor)
    /\ LET c == AtLeaf(cursor)
       IN  cursor' = [c EXCEPT !.next = c.next + 1, !.read = Append(c.read, c.leaf[c.next])]
    /\ UNCHANGED <<hash, from, to>>

\* A transaction derives the second tree: its entries are read and built again.
Edit ==
    /\ ~ cursor.open
    /\ \E k \in Key : to' \in {Rebuild(to, [x \in {k} |-> v], {}) : v \in Value}
                                \cup {Rebuild(to, [x \in {} |-> 0], {k})}
    /\ Cardinality({k \in Key : (k \in DOMAIN from) # (k \in DOMAIN to')
                                 \/ (k \in DOMAIN from /\ from[k] # to'[k])}) <= MaxEdits
    /\ UNCHANGED <<hash, from, cursor>>

\* At first all values are the same: boundaries depend on keys alone.
ProllyInit ==
    /\ hash \in Hashes
    /\ \E v \in Value : from \in Tree(Key, {v}) /\ to = from
    /\ cursor = Closed

ProllyNext == Edit \/ Open \/ Read

ProllySpec == ProllyInit /\ [][ProllyNext]_prollyVars
-----------------------------------------------------------------------------
(***************************************************************************)
(* Properties, of trees as long as no cursor is open and then of the       *)
(* cursor, as the trees do not change any more.                            *)
(***************************************************************************)
RECURSIVE Chunks(_)
Chunks(t) == IF t.leaf THEN {t} ELSE {t} \cup UNION {Chunks(t.children[i]) : i \in DOMAIN t.children}

RECURSIVE FirstKey(_)
FirstKey(t) == IF t.leaf THEN t.entries[1][1] ELSE FirstKey(t.children[1])

(***************************************************************************)
(* A key is found, with its value, exactly when it is in the tree: at the  *)
(* first and the last place of a chunk, and below or above all keys        *)
(* (lookup).                                                               *)
(***************************************************************************)
LookupFinds ==
    cursor = Closed => \A k \in Key : Lookup(Build(to), k) = IF k \in DOMAIN to THEN to[k] ELSE 0

(***************************************************************************)
(* A cursor returns every entry once, in the order of keys, whatever the   *)
(* depth of the tree (Cursor::next).                                       *)
(***************************************************************************)
CursorReadsAll ==
    /\ IsPrefix(cursor.read, Entries(to))
    /\ Finished(cursor) => cursor.read = Entries(to)

Leaves(t) == SetToSortSeq({c \in Chunks(t) : c.leaf}, LAMBDA x, y : x.entries[1][1] < y.entries[1][1])

(***************************************************************************)
(* Where the leaves of two trees begin at the same key and no later key    *)
(* differs, all leaves from there on are shared: a change moves the        *)
(* boundaries only up to the next common one.  This is what makes storing  *)
(* and comparing versions cheap (Chunker::reset).                          *)
(***************************************************************************)
SharesTheRest ==
    LET a == IF from = <<>> THEN <<>> ELSE Leaves(Build(from))
        b == IF to = <<>> THEN <<>> ELSE Leaves(Build(to))
        rest(f, k) == [x \in {y \in DOMAIN f : y >= k} |-> f[x]]
    IN  cursor = Closed => \A i \in DOMAIN a, j \in DOMAIN b :
          LET k == FirstKey(a[i])
          IN  k = FirstKey(b[j]) /\ rest(from, k) = rest(to, k)
                => SubSeq(a, i, Len(a)) = SubSeq(b, j, Len(b))

Differing == {k \in Key : (k \in DOMAIN from) # (k \in DOMAIN to)
                           \/ (k \in DOMAIN from /\ from[k] # to[k])}

At(f, k) == IF k \in DOMAIN f THEN f[k] ELSE 0

(***************************************************************************)
(* The diff of two trees misses no difference, although it only compares   *)
(* sub-trees whose ranges overlap (diff_internals).                        *)
(***************************************************************************)
DiffMissesNone ==
    cursor = Closed => \A k \in Differing : <<k, At(from, k), At(to, k)>> \in ToSet(Diff(Build(from), Build(to)))
=============================================================================
