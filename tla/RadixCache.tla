----------------------------- MODULE RadixCache -----------------------------
(***************************************************************************)
(* RadixPrefixCache of kvcache/radix_cache.py driven the way the cache     *)
(* manager drives it, with its timestamps and with evict one heap pop at a *)
(* time.  The order of operations is a logical clock: every operation      *)
(* reads monotonic_ns once or twice and later readings are larger.         *)
(***************************************************************************)
EXTENDS RadixTree

CONSTANTS
  Clients, Keys,
  MaxTime    \* bound on the number of clock readings explored

ASSUME KeysAssumption == Keys \subseteq Seq(UNION {ToSet(k) : k \in Keys}) \ {<<>>}
ASSUME ClientsAssumption == IsFiniteSet(Clients) /\ MaxTime \in Nat

VARIABLES
  tree,    \* the nodes, their pages and reference counts, the size counters
  stamp,   \* node -> timestamp
  used,    \* history: cached prefix -> when a walk last went over it
  held,    \* client -> the node of the handle it has locked, <<>> when none
  heap,    \* leave_nodes of the evict call at work
  missing, \* what that call has still to evict, in pages; 0 when there is none
  now      \* the clock

vars == <<tree, stamp, used, held, heap, missing, now>>

Init ==
  /\ tree = EmptyTree /\ stamp = [n \in {} |-> 0] /\ used = [p \in {} |-> 0]
  /\ held = [c \in Clients |-> <<>>]
  /\ heap = {} /\ missing = 0 /\ now = 0

Idle == missing = 0 /\ now < MaxTime

Tick(n) == now' = now + n

Stamped_NoSplitTouch(walked, tic) ==
  [n \in Nodes(walked.tree) |->
     IF n \in Nodes(tree) /\ IsPrefix(n, walked.node) THEN tic
     ELSE IF n \in Nodes(tree) THEN stamp[n] ELSE stamp[OwnerOf(tree, n)]]

\* _tree_walk stamps every node it reaches, the upper half of a split included.
Stamped(walked, tic) ==
  [n \in Nodes(walked.tree) |-> IF IsPrefix(n, walked.node) THEN tic ELSE stamp[n]]

Touch(f, p, tic) == [q \in DOMAIN f |-> IF IsPrefix(q, p) THEN tic ELSE f[q]]

\* match_req and lock, as in _try_allocate_one.
Match(c, key) ==
  LET walked == TreeWalk(tree, key)
  IN  /\ Idle /\ held[c] = <<>>
      /\ Tick(1)
      /\ tree' = LockPath(walked.tree, walked.node)
      /\ stamp' = Stamped(walked, now + 1)
      /\ used' = Touch(used, walked.node, now + 1)
      /\ held' = [held EXCEPT ![c] = walked.node]
      /\ UNCHANGED <<heap, missing>>

\* insert_prefix, then the old handle is unlocked and relock says whether the new
\* one is locked: cache_req with finished FALSE or TRUE.
Insert(c, key, relock) ==
  LET walked == TreeWalk(tree, key)
      grown  == InsertBelow(walked.tree, key, [i \in DOMAIN key |-> c], walked.node)
      freed  == UnlockPath(grown, held[c])
      fresh  == Prefixes(key) \ Prefixes(walked.node)
  IN  /\ Idle /\ IsPrefix(held[c], key)
      /\ Tick(2)
      /\ tree' = IF relock THEN LockPath(freed, key) ELSE freed
      /\ stamp' = [n \in Nodes(grown) |->
                     IF n \in fresh THEN now + 2 ELSE Stamped(walked, now + 1)[n]]
      /\ used' = [p \in fresh \cup DOMAIN used |->
                    IF p \in fresh THEN now + 2 ELSE Touch(used, walked.node, now + 1)[p]]
      /\ held' = [held EXCEPT ![c] = IF relock THEN key ELSE <<>>]
      /\ UNCHANGED <<heap, missing>>

\* evict(size): the leaves nobody holds are collected; evict(0) does nothing.
StartEvict(size) ==
  /\ missing = 0 /\ size \in 0 .. tree.evictable
  /\ missing' = size
  /\ heap' = IF size = 0 THEN {} ELSE EvictableLeaves(tree)
  /\ UNCHANGED <<tree, stamp, used, held, now>>

\* heappop: the comparison of nodes is that of their timestamps.
Oldest(S) == {n \in S : \A m \in S : stamp[n] <= stamp[m]}

NewLeaf_Never(t, n) == {}

NewLeaf_AnyRef(t, n) == {m \in {Parent(tree, n)} : m \in Nodes(t) /\ IsLeaf(t, m)}

\* The parent of a popped node, when it has become a leaf nobody holds.
NewLeaf(t, n) ==
  {m \in {Parent(tree, n)} : m \in Nodes(t) /\ IsLeaf(t, m) /\ t.ref[m] = 0}

\* One pop: a least recently stamped leaf goes with the edge above it.
PopLeaf ==
  /\ missing > 0
  /\ \E n \in Oldest(heap) :
       LET t == RemoveNodes(tree, {n})
           length == NodeLength(tree, n)
       IN  /\ tree' = t
           /\ stamp' = Restrict(stamp, Nodes(t))
           /\ used' = Restrict(used, CachedPaths(t))
           /\ missing' = IF length < missing THEN missing - length ELSE 0
           /\ heap' = IF length < missing THEN (heap \ {n}) \cup NewLeaf(t, n) ELSE {}
  /\ UNCHANGED <<held, now>>

Next ==
  \/ \E c \in Clients, key \in Keys :
       Match(c, key) \/ \E relock \in BOOLEAN : Insert(c, key, relock)
  \/ \E size \in 0 .. tree.evictable : StartEvict(size)
  \/ PopLeaf

Spec == Init /\ [][Next]_vars

-----------------------------------------------------------------------------
(* The radix tree is a prefix cache.                                       *)

Cache == INSTANCE PrefixCache WITH cached <- tree.page, locked <- held

\* Splitting, reference counts on nodes and eviction by whole edges implement
\* the cache of prefixes: in particular matching changes no content, and nothing
\* a handle covers is ever evicted.
ImplementsPrefixCache == Cache!CacheSpec

\* evict never runs out of leaves before it has what evictable_size promised (the
\* assertion "Cannot evict enough cache", radix_cache.py:161), as its heap holds just
\* the leaves nobody has locked, also after it has removed others (the assertion at
\* radix_cache.py:165).
EvictFindsEnough ==
  missing > 0 => heap = EvictableLeaves(tree) /\ heap # {} /\ missing <= tree.evictable

\* evict removes least recently used leaves first: what stays among the leaves
\* that were free to go was used no earlier than what went.
EvictsLeastRecent ==
  [][missing > 0 =>
       \A n \in EvictableLeaves(tree), m \in EvictableLeaves(tree) :
          (n \notin Nodes(tree)' /\ m \in Nodes(tree)') => used[n] <= used[m]]_vars

=============================================================================
