------------------------ MODULE SchedulerProperties ------------------------
(***************************************************************************)
(* What the scheduler promises, stated over the state of Scheduler.        *)
(***************************************************************************)
EXTENDS Scheduler

Objs == Uids \X Nat

\* Everything that may still use a table slot and pages.
Holders ==
  Referenced \cup ToSet(adder.reqs) \cup ToSet(batch.reqs)

\* The newest object of every request that holds resources: it has the lock,
\* and what older chunks of the same prompt still in flight know is outdated.
Newest == {o \in Holders : \A p \in Holders : p[1] = o[1] => p[2] <= o[2]}

Duplicated(s) == \E i, j \in DOMAIN s : i # j /\ s[i] = s[j]

PendingType ==
  [uid : Uids, ids : Seq(Tokens) \ {<<>>}, out : Nat, ignore : BOOLEAN, chunk : Objs \cup {None}]

\* Types of the variables that say where each request is.
TypeOK ==
  /\ pc \in {"recv", "admit", "forward", "process", "crashed"}
  /\ woken \in BOOLEAN
  /\ pending \in Seq(PendingType)
  /\ adder.reqs \in Seq(Objs) /\ adder.chunked \in Seq(PendingType)
  /\ DOMAIN reqs \subseteq Objs
  /\ \A o \in DOMAIN reqs :
       /\ reqs[o].slot \in Slots /\ reqs[o].class \in {"Req", "ChunkedReq"}
       /\ reqs[o].cached \in Int /\ reqs[o].device \in Int
  /\ running \subseteq DOMAIN reqs /\ IsFiniteSet(running) /\ terminal \subseteq DOMAIN reqs
  /\ DOMAIN inflight \subseteq DOMAIN reqs /\ inflight \in [DOMAIN inflight -> {1, 2}]
  /\ free_table \in Seq(Slots)
  /\ batch.reqs \in Seq(Objs) /\ last.reqs \in Seq(Objs) /\ proc.reqs \in Seq(Objs)
  /\ status \in [Uids -> {"new", "live", "dropped", "aborted", "done"}]

-----------------------------------------------------------------------------
(* Who is where.                                                           *)

\* _inflight_reqs counts exactly the batches a request is in and whose results
\* have not been processed: released too early it would lose pages the device
\* still writes, too late it would never come back.
InflightExact ==
  /\ ~Duplicated(last.reqs) /\ ~Duplicated(proc.reqs)
  /\ DOMAIN inflight = ToSet(last.reqs) \cup ToSet(proc.reqs)
  /\ \A o \in DOMAIN inflight :
       inflight[o] = IF o \in ToSet(last.reqs) /\ o \in ToSet(proc.reqs) THEN 2 ELSE 1

\* A request marked terminal waits for the device and for nothing else: it is in
\* flight and neither manager can schedule it again.
TerminalDrains ==
  \A o \in terminal :
    /\ o \in DOMAIN inflight
    /\ o \notin running
    /\ \A i \in DOMAIN pending : pending[i].chunk # o

\* Table slots: free or held by one request, never both, never lost; every
\* object made for one prompt keeps the prompt's slot.
SlotsExclusive ==
  /\ ~Duplicated(free_table)
  /\ ToSet(free_table) = Slots \ {reqs[o].slot : o \in Holders}
  /\ \A o, p \in Holders : o[1] = p[1] <=> reqs[o].slot = reqs[p].slot

\* At most one prompt is cut at any time and it is the next to be continued,
\* which is why its room needs no second check.
OneChunkFirst ==
  \A i \in DOMAIN pending : pending[i].chunk # None => i = 1

\* The inductive strengthening of the properties above: how the queue, the adder
\* and the batches lie in each other.
QueuedUids == {pending[i].uid : i \in DOMAIN pending}

ReqFields == {"slot", "cached", "device", "max", "host", "handle", "class", "ignore"}

IsReq(r) == r = [f \in ReqFields |-> r[f]]

\* A uid is queued once, after it was received, with the chunk made last for it.
QueuePlaced ==
  \A i \in DOMAIN pending :
    LET q == pending[i]
    IN  /\ status[q.uid] # "new"
        /\ \A j \in DOMAIN pending : pending[j].uid = q.uid => j = i
        /\ q.chunk # None => q.chunk \in DOMAIN reqs /\ q.chunk[1] = q.uid

\* The adder has made one object for each entry it has passed, and remembers
\* the only one that was cut, which has used up the budget.
AdderPlaced ==
  /\ pc # "admit" => adder.reqs = <<>> /\ adder.chunked = <<>>
  /\ pc = "admit" => adder.budget \in Nat
  /\ Len(adder.reqs) <= Len(pending)
  /\ \A k \in DOMAIN adder.reqs :
       adder.reqs[k] \in DOMAIN reqs /\ adder.reqs[k][1] = pending[k].uid
  /\ Len(adder.chunked) <= 1 /\ (Len(adder.chunked) = 1 => adder.budget = 0)
  /\ \A k \in DOMAIN adder.chunked :
       LET q == adder.chunked[k]
       IN  /\ q.chunk \in ToSet(adder.reqs) /\ q.chunk[1] = q.uid
           /\ reqs[q.chunk].class = "ChunkedReq"

\* A request is either queued or runs: no complete Req, no running and no
\* terminal object has its uid in the queue, but for what the adder just made.
ObjectsPlaced ==
  /\ \A o \in DOMAIN reqs :
       /\ status[o[1]] # "new" /\ IsReq(reqs[o])
       /\ reqs[o].class = "Req" => o \in ToSet(adder.reqs) \/ o[1] \notin QueuedUids
  /\ \A o \in running \cup terminal : o[1] \notin QueuedUids

\* A batch exists between its selection and its launch, results only while they
\* are processed; without overlap nothing stays on the device.
BatchesPlaced ==
  /\ pc \notin {"forward", "crashed"} => batch.reqs = <<>>
  /\ ~Duplicated(batch.reqs) /\ ToSet(batch.reqs) \subseteq DOMAIN reqs \ terminal
  /\ pc # "process" => proc.reqs = <<>>
  /\ ~Overlap => last.reqs = <<>>

\* A request is at one place of the loop at a time: queued, just admitted, in a
\* batch, running or draining, with the objects its queue entry and the adder
\* name still there.  With the properties above it is inductive.
Placement == QueuePlaced /\ AdderPlaced /\ ObjectsPlaced /\ BatchesPlaced

-----------------------------------------------------------------------------
(* Pages.                                                                  *)

\* A request's row beyond the pages of its locked prefix.
PrivateEntries(o) == Len(reqs[o].handle) + 1 .. Len(page_table[reqs[o].slot])

\* Where a page is: on the free list, set aside in the open lazy free region, in
\* the prefix cache or in a request's row.
Places(p) ==
  ({"free"} \X {i \in DOMAIN cm.free : cm.free[i] = p})
    \cup ({"lazy"} \X {i \in DOMAIN cm.lazy : cm.lazy[i] = p})
    \cup ({"cache"} \X {q \in CachedPaths(cm.tree) : cm.tree.page[q] = p})
    \cup ({"row"} \X UNION {{o} \X {k \in PrivateEntries(o) : page_table[reqs[o].slot][k] = p} :
                              o \in Newest})

\* Every page is in one place: none is freed twice, shared or leaked.
PagesPartitioned == \A p \in Pages : Cardinality(Places(p)) = 1

\* A request's row starts with the pages the prefix cache has for its handle:
\* after cache_req it no longer reads pages that were given back as duplicates.
RowsFollowCache ==
  \A o \in Newest :
    LET row == page_table[reqs[o].slot]  handle == reqs[o].handle
    IN  \A k \in 1 .. Len(handle) :
          /\ SubSeq(handle, 1, k) \in CachedPaths(cm.tree)
          /\ row[k] = cm.tree.page[SubSeq(handle, 1, k)]

\* The reference count of a node is the number of requests whose prefix goes
\* through it, across splits, aborts and releases out of order.
RefsExact ==
  \A n \in Nodes(cm.tree) :
    cm.tree.ref[n] = Cardinality({o \in Newest : IsPrefix(n, reqs[o].handle)})

\* The tree keeps its shape and its two counters stay what a traversal counts.
TreeExact == WellFormedTree(cm.tree) /\ ExactCounters(cm.tree)

\* The tokens of a path, chunk by chunk.
Flat(path) ==
  [i \in 1 .. Len(path) * PageSize |->
     path[(i - 1) \div PageSize + 1][((i - 1) % PageSize) + 1]]

\* What the cache hands out was computed for the tokens it is found under.
CacheHoldsItsKeys ==
  \A p \in CachedPaths(cm.tree) : kv[cm.tree.page[p]] = Flat(p)

\* Attention of a live request reads, page by page, the keys and values of its
\* own tokens: no page of its row was overwritten or given to someone else.
RowsHoldOwnTokens ==
  \A o \in Newest :
    LET r == reqs[o]
        full(k) == IF k * PageSize < r.cached THEN k * PageSize ELSE r.cached
    IN  \A k \in 1 .. CeilDiv(r.cached, PageSize) :
          /\ r.cached <= Len(token_pool[r.slot])
          /\ kv[page_table[r.slot][k]] = SubSeq(token_pool[r.slot], 1, full(k))

\* The lengths of a request: cached_len < device_len <= max_device_len as
\* Req.__post_init__ asserts, until the last token is drawn, and never more than
\* the row of the page table is wide.  The last column of a token_pool row is scratch:
\* tokens that are not kept, those of chunks and of final steps, are written to column
\* -1 (scheduler.py:305), and no batch may read its input there, also when the row is
\* just MaxSeqLen wide.
LengthsInRange ==
  /\ \A o \in ToSet(batch.reqs) : reqs[o].device < MaxSeqLen
  /\ \A o \in DOMAIN reqs :
       LET r == reqs[o]
       IN  /\ 0 <= r.cached /\ r.cached < r.device /\ r.device <= r.max + 1
           /\ r.max <= MaxSeqLen
           /\ Len(page_table[r.slot]) <= CeilDiv(MaxSeqLen, PageSize)

\* When the results of all batches a request is in have been read or are being
\* read, the host knows at least the tokens whose pages it would cache, and
\* they are the device's.
HostCoversCached ==
  \A o \in Newest :
    LET r == reqs[o]
        pool == token_pool[r.slot]
        common == IF Len(r.host) < Len(pool) THEN Len(r.host) ELSE Len(pool)
    IN  /\ o \in DOMAIN inflight => inflight[o] + Len(r.host) > r.cached
        /\ o \notin DOMAIN inflight => r.cached <= Len(r.host)
        /\ SubSeq(r.host, 1, common) = SubSeq(pool, 1, common)

\* The admission estimate is a promise: the pages a batch needs are there.
\* (the assertions of evict, radix_cache.py:151, and _allocate, cache.py:118)
EvictionSuffices == pc # "crashed"

\* check_integrity, run when the loop blocks, and the rest of what an idle
\* scheduler must have got back: every slot, every lock.
IdleIntegrity ==
  (pc = "recv" /\ ~woken /\ Blocking) =>
     /\ Len(cm.free) + Cardinality(CachedPaths(cm.tree)) = NumPages
     /\ cm.tree.protected = 0 /\ cm.lazy = <<>>
     /\ inflight = <<>> /\ terminal = {} /\ Len(free_table) = MaxRunning

-----------------------------------------------------------------------------
(* What a user sees.                                                       *)

\* Prompts are admitted in the order of their arrival, also across chunks and
\* failed admissions: of two in the queue the later one neither moves ahead nor
\* leaves first, unless it is aborted.
Position(u) == CHOOSE i \in DOMAIN pending : pending[i].uid = u

AdmissionInOrder ==
  [][\A u, v \in Uids :
       (/\ Queued(u) # {} /\ Queued(v) # {} /\ Position(u) < Position(v)
        /\ Queued(u)' # {} /\ status'[v] # "aborted")
       => Queued(v)' # {} /\ Position(u)' < Position(v)']_vars

\* The most tokens a request can get: one at least, whatever its max_tokens.
MostOf(w) ==
  LET out == OutputLength(w, MaxSeqLen - Len(w.ids))
  IN  IF Len(w.ids) >= MaxSeqLen THEN 0 ELSE IF out = 0 THEN 1 ELSE out

MostTokens == CHOOSE n \in {MostOf(w) : w \in Workload} : \A w \in Workload : MostOf(w) <= n

Service == INSTANCE RequestService WITH MaxTokens <- MostTokens

\* The queues, batches and speculation of the scheduler implement the service the
\* frontend is written against: no reply for an aborted or finished request, none
\* too many, each iteration's replies at once.
ImplementsRequestService == Service!ServiceSpec

\* Every request accepted is finished or aborted.
EveryRequestEnds == \A u \in Uids : status[u] = "live" ~> status[u] \in {"done", "aborted"}

\* Whatever ended, its slot and pages come back.
ResourcesReturn ==
  \A u \in Uids :
    status[u] \in {"done", "aborted"} ~> \A o \in Holders : o[1] # u

=============================================================================
