---------------------------- MODULE CacheManager ----------------------------
(***************************************************************************)
(* scheduler/cache.py as operators on a value, over either prefix cache.   *)
(*                                                                         *)
(*   free  free_slots: the pages nobody owns, kept in ascending order.     *)
(*         The real order carries no information, pages being alike; it    *)
(*         is a sequence and not a set so that a page freed twice shows.   *)
(*   tree  the prefix cache                                                *)
(*   lazy  lazy_free_list: what the open lazy_free_region has collected    *)
(*                                                                         *)
(* The page table (one row per table slot) belongs to the engine and is    *)
(* passed in.  A row is the sequence of pages written in it from column 0, *)
(* one entry for the page_size columns of a page.                          *)
(***************************************************************************)
EXTENDS RadixTree

CONSTANTS NumPages, PageSize, CacheType

ASSUME PagesAssumption == NumPages \in Nat \ {0} /\ PageSize \in Nat \ {0}
ASSUME CacheTypeAssumption == CacheType \in {"radix", "naive"}

Pages == 0 .. NumPages - 1

CeilDiv(a, b) == (a + b - 1) \div b

\* The keys of the tree: the whole pages of a token sequence (align_down).
Chunks(ids) ==
  [i \in 1 .. Len(ids) \div PageSize |->
     SubSeq(ids, (i - 1) * PageSize + 1, i * PageSize)]

Ascending(s) ==
  LET rank(j) == Cardinality({i \in DOMAIN s : s[i] < s[j] \/ (s[i] = s[j] /\ i <= j)})
  IN  [k \in DOMAIN s |-> s[CHOOSE j \in DOMAIN s : rank(j) = k]]

InitCache == [free |-> [i \in 1 .. NumPages |-> i - 1], tree |-> EmptyTree, lazy |-> <<>>]

-----------------------------------------------------------------------------
(* The two prefix caches behind one interface.  A handle is the node it    *)
(* points to; handle.cached_len is its length in pages.  The naive cache   *)
(* answers every call with the empty handle and owns nothing.              *)

MatchPrefix(tree, key) ==
  IF CacheType = "naive" THEN [node |-> <<>>, tree |-> tree] ELSE TreeWalk(tree, key)

\* insert_prefix: the length that was cached already and the new handle.
InsertPrefix(tree, key, pages) ==
  LET walk == TreeWalk(tree, key)
  IN  IF CacheType = "naive" THEN [tree |-> tree, found |-> 0, node |-> <<>>]
      ELSE [tree  |-> InsertBelow(walk.tree, key, pages, walk.node),
            found |-> Len(walk.node), node |-> key]

-----------------------------------------------------------------------------

\* match_req: the last token is never matched, its logits must be computed.
MatchReq(cm, ids) == MatchPrefix(cm.tree, Chunks(SubSeq(ids, 1, Len(ids) - 1)))

AvailableSize(cm) == (cm.tree.evictable + Len(cm.free)) * PageSize

NewPages(r) == CeilDiv(r.device, PageSize) - CeilDiv(r.cached, PageSize)

\* What the rows of a batch have to be extended by: the k-th new page of the i-th request.
NewEntries(batch) == UNION {{i} \X (1 .. NewPages(batch[i])) : i \in DOMAIN batch}

NeededPages(batch) == Cardinality(NewEntries(batch))

\* The place of an entry in the batch's order.
EntryPlace(batch, e) ==
  Cardinality({d \in NewEntries(batch) : d[1] < e[1] \/ (d[1] = e[1] /\ d[2] <= e[2])})

\* _write_page_table: one request after the other takes the next pages allocated.
WriteRows(rows, batch, pages) ==
  LET mine(i) == [k \in 1 .. NewPages(batch[i]) |-> pages[EntryPlace(batch, <<i, k>>)]]
  IN  [s \in DOMAIN rows |->
         IF \E i \in DOMAIN batch : batch[i].slot = s
         THEN LET i == CHOOSE i \in DOMAIN batch : batch[i].slot = s
              IN  SubSeq(rows[s], 1, CeilDiv(batch[i].cached, PageSize)) \o mine(i)
         ELSE rows[s]]

\* _allocate, every eviction order; none when the caches cannot give enough.
Allocations(cm, needed) ==
  LET short == needed - Len(cm.free)
  IN  IF short <= 0
      THEN {[pages |-> SubSeq(cm.free, 1, needed),
             cm |-> [cm EXCEPT !.free = SubSeq(@, needed + 1, Len(@))]]}
      ELSE {LET free == Ascending(cm.free \o SetToSeq(PagesOn(cm.tree, S)))
            IN  [pages |-> SubSeq(free, 1, needed),
                 cm |-> [cm EXCEPT !.free = SubSeq(free, needed + 1, Len(free)),
                                   !.tree = RemoveNodes(@, S)]]
            : S \in Evictions(cm.tree, short)}

\* _free, and the lazy_free that replaces it inside a lazy_free_region.
FreePages(cm, pages, inRegion) ==
  IF inRegion THEN [cm EXCEPT !.lazy = @ \o pages]
  ELSE [cm EXCEPT !.free = Ascending(@ \o pages)]

\* The pages of the row that another request had cached in the meantime.
Duplicates(row, first, found) == SubSeq(row, first, found)

Canonical_KeepsRow(tree, row, node, first, found) == row

\* The row with those pages replaced by the cached ones.
Canonical(tree, row, node, first, found) ==
  [i \in DOMAIN row |->
     IF i \in first .. found THEN tree.page[SubSeq(node, 1, i)] ELSE row[i]]

KeepCached_FreesViews(cm, r, row) ==
  LET ins  == InsertPrefix(cm.tree, Chunks(SubSeq(r.host, 1, r.cached)), row)
      own  == Len(r.handle) + 1
      tree == LockPath(UnlockPath(ins.tree, r.handle), ins.node)
      new  == Canonical(ins.tree, row, ins.node, own, ins.found)
  IN  [cm |-> FreePages([cm EXCEPT !.tree = tree], Duplicates(new, own, ins.found), TRUE),
       row |-> new, handle |-> ins.node]

\* cache_req(finished=False) for a request r with this row, inside the region
\* of _process_last_data: pages that others cached first are replaced in the row
\* by the cached ones and freed, and the lock moves on to the longer prefix.
KeepCached(cm, r, row) ==
  LET ins  == InsertPrefix(cm.tree, Chunks(SubSeq(r.host, 1, r.cached)), row)
      own  == Len(r.handle) + 1
      tree == LockPath(UnlockPath(ins.tree, r.handle), ins.node)
  IN  [cm |-> FreePages([cm EXCEPT !.tree = tree], Duplicates(row, own, ins.found), TRUE),
       row |-> Canonical(ins.tree, row, ins.node, own, ins.found),
       handle |-> ins.node]

ReleaseCached_KeepsDuplicates(cm, r, row, inRegion) ==
  LET ins  == InsertPrefix(cm.tree, Chunks(SubSeq(r.host, 1, r.cached)), row)
      tail == SubSeq(row, Len(ins.node) + 1, CeilDiv(r.cached, PageSize))
  IN  FreePages([cm EXCEPT !.tree = UnlockPath(ins.tree, r.handle)], tail, inRegion)

\* cache_req(finished=True): duplicates and the pages beyond the cached prefix
\* are freed, the rest stays in the prefix cache, unlocked.
ReleaseCached(cm, r, row, inRegion) ==
  LET ins  == InsertPrefix(cm.tree, Chunks(SubSeq(r.host, 1, r.cached)), row)
      tail == SubSeq(row, Len(ins.node) + 1, CeilDiv(r.cached, PageSize))
  IN  FreePages([cm EXCEPT !.tree = UnlockPath(ins.tree, r.handle)],
                Duplicates(row, Len(r.handle) + 1, ins.found) \o tail, inRegion)

FlushLazy_Forgets(cm) == [cm EXCEPT !.lazy = <<>>]

\* The end of a lazy_free_region.
FlushLazy(cm) == [cm EXCEPT !.free = Ascending(@ \o cm.lazy), !.lazy = <<>>]

=============================================================================
