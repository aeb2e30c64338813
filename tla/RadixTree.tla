----------------------------- MODULE RadixTree -----------------------------
(***************************************************************************)
(* The radix tree of kvcache/radix_cache.py as operators on a value.       *)
(*                                                                         *)
(* A key is a sequence of page-sized chunks of tokens, so key_fn, the      *)
(* comparison of keys and align_down are all one chunk per position.  A    *)
(* node is named by its path: the chunks from the root to the node's end.  *)
(* The name survives split_at, as the Python object does, because a split  *)
(* cuts a new node out of the upper part of the edge and leaves the old    *)
(* object, with the handles that point to it, at the lower end.            *)
(*                                                                         *)
(*   page       cached path -> the page holding the last chunk of the path *)
(*              (the concatenation of the _value tensors on the way down)  *)
(*   ref        node -> ref_count (the root, never evictable, is left out) *)
(*   evictable  evictable_size, in pages                                   *)
(*   protected  protected_size, in pages                                   *)
(***************************************************************************)
EXTENDS Integers, FiniteSets, Sequences, SequencesExt, FiniteSetsExt

EmptyTree ==
  [page |-> [p \in {} |-> 0], ref |-> [n \in {} |-> 0],
   evictable |-> 0, protected |-> 0]

Nodes(t) == DOMAIN t.ref
CachedPaths(t) == DOMAIN t.page

Longest(S) == CHOOSE s \in S : \A u \in S : Len(u) <= Len(s)
Shortest(S) == CHOOSE s \in S : \A u \in S : Len(s) <= Len(u)

\* The nodes a handle on node n holds: n and its ancestors, the root excepted.
PathTo(t, n) == {m \in Nodes(t) : IsPrefix(m, n)}

Parent(t, n) == Longest({<<>>} \cup (PathTo(t, n) \ {n}))

NodeLength(t, n) == Len(n) - Len(Parent(t, n))

\* The node on whose edge the cached path p ends.
OwnerOf(t, p) == Shortest({n \in Nodes(t) : IsPrefix(p, n)})

\* The paths that end on the edges of the nodes S: one for each page they hold.
OwnedBy(t, S) == {p \in CachedPaths(t) : OwnerOf(t, p) \in S}

TotalLength(t, S) == Cardinality(OwnedBy(t, S))

-----------------------------------------------------------------------------
(* Walking, splitting and inserting.                                       *)

LongestMatch(t, key) == Longest({<<>>} \cup (Prefixes(key) \cap CachedPaths(t)))

\* One more node, with this reference count.
NewNode(t, n, count) == [m \in Nodes(t) \cup {n} |-> IF m = n THEN count ELSE t.ref[m]]

SplitNode_ForgetsRef(t, p) == [t EXCEPT !.ref = NewNode(t, p, 0)]

\* split_at: the new upper node inherits the reference count of the lower one.
SplitNode(t, p) == [t EXCEPT !.ref = NewNode(t, p, t.ref[OwnerOf(t, p)])]

\* _tree_walk: the longest cached prefix of the key, made a node if it ends
\* inside an edge.  Matching is therefore not read-only.
TreeWalk(t, key) ==
  LET p == LongestMatch(t, key)
  IN  [node |-> p,
       tree |-> IF p \in Nodes(t) \cup {<<>>} THEN t ELSE SplitNode(t, p)]

\* The paths of the new leaf get their pages.
NewPaths(t, new, pages) ==
  [p \in CachedPaths(t) \cup new |->
     IF p \in CachedPaths(t) THEN t.page[p] ELSE pages[Len(p)]]

InsertBelow_CountsWholeKey(t, key, pages, found) ==
  LET new == {p \in Prefixes(key) : Len(p) > Len(found)}
  IN  IF new = {} THEN t
      ELSE [t EXCEPT !.page = NewPaths(t, new, pages), !.ref = NewNode(t, key, 0),
                     !.evictable = @ + Len(key)]

\* insert_prefix below the node found: one new leaf for the rest of the key.
InsertBelow(t, key, pages, found) ==
  LET new == {p \in Prefixes(key) : Len(p) > Len(found)}
  IN  IF new = {} THEN t
      ELSE [t EXCEPT !.page = NewPaths(t, new, pages), !.ref = NewNode(t, key, 0),
                     !.evictable = @ + Len(key) - Len(found)]

-----------------------------------------------------------------------------
(* lock_handle, upwards from the handle's node.                            *)

AddRef(t, S, d) == [n \in Nodes(t) |-> IF n \in S THEN t.ref[n] + d ELSE t.ref[n]]

LockPath(t, n) ==
  LET fresh == {m \in PathTo(t, n) : t.ref[m] = 0}
  IN  [t EXCEPT !.ref = AddRef(t, PathTo(t, n), 1),
                !.evictable = @ - TotalLength(t, fresh),
                !.protected = @ + TotalLength(t, fresh)]

UnlockPath(t, n) ==
  LET freed == {m \in PathTo(t, n) : t.ref[m] = 1}
  IN  [t EXCEPT !.ref = AddRef(t, PathTo(t, n), -1),
                !.evictable = @ + TotalLength(t, freed),
                !.protected = @ - TotalLength(t, freed)]

-----------------------------------------------------------------------------
(* Eviction.                                                               *)

IsLeaf(t, n) == \A m \in Nodes(t) : IsPrefix(n, m) => m = n

\* _collect_leave_nodes_for_evict
EvictableLeaves(t) == {n \in Nodes(t) : IsLeaf(t, n) /\ t.ref[n] = 0}

PagesOn(t, S) == {t.page[p] : p \in OwnedBy(t, S)}

RemoveNodes(t, S) ==
  [t EXCEPT !.page = [p \in CachedPaths(t) \ OwnedBy(t, S) |-> @[p]],
            !.ref = [n \in Nodes(t) \ S |-> @[n]],
            !.evictable = @ - TotalLength(t, S)]

\* The sets of nodes that evict(size) may remove when it pops unreferenced
\* leaves in any order (by timestamp is one of them): closed under children,
\* large enough, and not so before the last pop.
Evictions(t, size) ==
  {S \in SUBSET {n \in Nodes(t) : t.ref[n] = 0} :
     /\ \A n \in S, m \in Nodes(t) : IsPrefix(n, m) => m \in S
     /\ TotalLength(t, S) >= size
     /\ size = 0 => S = {}
     /\ size > 0 => \E n \in S : /\ TotalLength(t, S) - NodeLength(t, n) < size
                                 /\ \A m \in S : IsPrefix(m, n) => m = n}

-----------------------------------------------------------------------------
(* What a tree must satisfy, whatever the history of its handles.          *)

\* Every cached path has its prefixes cached and an owner; two edges part at
\* a node.
WellFormedTree(t) ==
  /\ Nodes(t) \subseteq CachedPaths(t)
  /\ \A p \in CachedPaths(t) :
       /\ p # <<>> /\ Prefixes(p) \ {<<>>} \subseteq CachedPaths(t)
       /\ \E n \in Nodes(t) : IsPrefix(p, n)
  /\ \A m, n \in Nodes(t) :
       LongestCommonPrefix({m, n}) \in Nodes(t) \cup {<<>>}

\* The running counters equal what a traversal would count.
ExactCounters(t) ==
  /\ t.evictable = TotalLength(t, {n \in Nodes(t) : t.ref[n] = 0})
  /\ t.protected = TotalLength(t, {n \in Nodes(t) : t.ref[n] > 0})

=============================================================================
