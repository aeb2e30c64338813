------------------------------ MODULE Scheduler ------------------------------
(***************************************************************************)
(* The scheduler process: scheduler/scheduler.py with the prefill, decode, *)
(* table and cache managers it owns, and what engine.forward_batch does to *)
(* the requests of a batch.  One process runs                              *)
(*                                                                         *)
(*   receive messages -> select a batch -> forward it -> process results   *)
(*                                                                         *)
(* forever.  With Overlap the results processed are those of the previous  *)
(* iteration's batch (overlap_loop), else those of the batch just sent to  *)
(* the device (normal_loop).                                               *)
(*                                                                         *)
(* A Req object is named <<uid, n>>, the n-th object made for the uid: a   *)
(* prompt cut in chunks makes one ChunkedReq after another and then a Req, *)
(* all with the same table slot.                                           *)
(***************************************************************************)
EXTENDS CacheManager

CONSTANTS
  Uids,        \* request ids, natural numbers; the decode batch is sorted by them
  Workload,    \* the requests a user may send: [ids, max, ignore]
  Tokens,      \* the vocabulary
  Sampled,     \* the tokens the sampler may return
  EOS,         \* eos_token_id
  MaxRunning,  \* max_running_req, the number of table slots
  MaxSeqLen,   \* engine.max_seq_len
  Budget,      \* max_extend_tokens, the prefill token budget of one batch
  Policy,      \* scheduling_policy
  Overlap,     \* FALSE when DISABLE_OVERLAP_SCHEDULING is set
  None         \* no token, no chunk, no phase

ASSUME UidsAssumption == Uids \subseteq Nat /\ IsFiniteSet(Uids)
ASSUME WorkloadAssumption ==
  \A w \in Workload : w.ids \in Seq(Tokens) \ {<<>>} /\ w.max \in Nat /\ w.ignore \in BOOLEAN
ASSUME SampledAssumption == Sampled \subseteq Tokens
ASSUME NoneAssumption ==
  None \notin Tokens \cup (Uids \X Nat) \cup {"prefill", "decode"}
ASSUME SizesAssumption ==
  /\ MaxRunning \in Nat \ {0} /\ Budget \in Nat \ {0} /\ MaxSeqLen \in Nat \ {0}
  /\ MaxSeqLen <= NumPages * PageSize          \* engine.py:67
ASSUME ModeAssumption ==
  /\ Policy \in {"prefill_first", "decode_first", "alternating", "wait_time"}
  /\ Overlap \in BOOLEAN

VARIABLES
  pc,          \* where the loop is: recv, admit, forward, process or crashed
  woken,       \* this iteration's receive_msg has returned a message
  pending,     \* prefill_manager.pending_list
  adder,       \* the PrefillAdder at work and the two lists next to it
  reqs,        \* the Req objects: id -> fields
  running,     \* decode_manager.running_reqs
  inflight,    \* _inflight_reqs: id -> number of unprocessed batches it is in
  terminal,    \* _terminal_reqs
  free_table,  \* table_manager._free_slots
  page_table,  \* slot -> pages of the row
  token_pool,  \* slot -> tokens of the row
  cm,          \* cache_manager
  kv,          \* page -> the token prefix whose keys and values it holds
  batch,       \* the batch selected, not yet forwarded
  last,        \* the batch on the device, the loop's last_data / ongoing_data
  proc,        \* what is left of the batch whose results are being processed
  last_phase,  \* batch_policy.last_phase
  reply,       \* the DetokenizeMsgs collected by _process_last_data
  sent,        \* history: uid -> the finished flags of the tokens sent for it
  status       \* history: uid -> new, live, dropped, aborted or done

control == <<pc, woken, pending, adder, running, inflight, terminal, batch, last, proc, last_phase>>
memory  == <<reqs, free_table, page_table, token_pool, cm, kv>>
history == <<reply, sent, status>>
vars    == <<control, memory, history>>

Slots == 0 .. MaxRunning - 1

NoBatch == [reqs |-> <<>>, phase |-> None, tokens |-> <<>>]
NoAdder == [budget |-> 0, reserved |-> 0, reqs |-> <<>>, chunked |-> <<>>]

Init ==
  /\ pc = "recv" /\ woken = FALSE
  /\ pending = <<>> /\ adder = NoAdder
  /\ reqs = <<>> /\ running = {} /\ inflight = <<>> /\ terminal = {}
  /\ free_table = [i \in 1 .. MaxRunning |-> i - 1]
  /\ page_table = [s \in Slots |-> <<>>] /\ token_pool = [s \in Slots |-> <<>>]
  /\ cm = InitCache /\ kv = [p \in Pages |-> <<>>]
  /\ batch = NoBatch /\ last = NoBatch /\ proc = NoBatch /\ last_phase = None
  /\ reply = <<>> /\ sent = [u \in Uids |-> <<>>] /\ status = [u \in Uids |-> "new"]

-----------------------------------------------------------------------------
(* Req and DecodeManager.                                                  *)

Remaining(r) == r.max - r.device

\* can_decode, FALSE for a ChunkedReq whatever its lengths.
CanDecode(r) == r.class = "Req" /\ Remaining(r) > 0

Completed_Swapped(r) == [r EXCEPT !.cached = r.device + 1, !.device = r.device + 1]

\* complete_one
Completed(r) == [r EXCEPT !.cached = r.device, !.device = r.device + 1]

\* inflight_tokens: what the running requests may still ask for.
InflightTokens ==
  MapThenSumSet(LAMBDA o : Remaining(reqs[o]), running) + (PageSize - 1) * Cardinality(running)

\* schedule_next_batch of the decode manager: every running request, by uid.
DecodeBatches ==
  {[reqs |-> s, phase |-> "decode", tokens |-> <<>>] :
     s \in {q \in [1 .. Cardinality(running) -> running] :
             \A i, j \in DOMAIN q : i < j => q[i][1] < q[j][1]}}

-----------------------------------------------------------------------------
(* Releasing a request.                                                    *)

\* _free_req_resources: the table slot, then the pages.  The contents of a
\* free row are forgotten, nothing reads them before they are written again.
FreeReqResources(o, r, inRegion) ==
  /\ free_table' = Append(free_table, r.slot)
  /\ cm' = ReleaseCached(cm, r, page_table[r.slot], inRegion)
  /\ page_table' = [page_table EXCEPT ![r.slot] = <<>>]
  /\ token_pool' = [token_pool EXCEPT ![r.slot] = <<>>]

\* The device contents of free pages are forgotten too.
ForgetFreePages(cm1) == [p \in Pages |-> IF p \in ToSet(cm1.free) THEN <<>> ELSE kv[p]]

-----------------------------------------------------------------------------
(* _process_one_msg.                                                       *)

\* max_tokens, cut down to the room the model's length leaves.
OutputLength(w, room) == IF w.max > room THEN room ELSE w.max

HasRoom_Full(room) == room >= 0

HasRoom(room) == room > 0

\* UserMsg: dropped when no room is left for an output, else queued.
ReceiveUser(u, w) ==
  LET room == MaxSeqLen - Len(w.ids)
  IN  /\ pc = "recv" /\ status[u] = "new"
      /\ woken' = TRUE
      /\ \/ /\ ~HasRoom(room)
            /\ status' = [status EXCEPT ![u] = "dropped"]
            /\ UNCHANGED pending
         \/ /\ HasRoom(room)
            /\ status' = [status EXCEPT ![u] = "live"]
            /\ pending' = Append(pending,
                 [uid |-> u, ids |-> w.ids, out |-> OutputLength(w, room),
                  ignore |-> w.ignore, chunk |-> None])
      /\ UNCHANGED <<pc, adder, running, inflight, terminal, batch, last, proc, last_phase,
                     memory, reply, sent>>

Queued(u) == {i \in DOMAIN pending : pending[i].uid = u}
ChunkOf(u) == {pending[i].chunk : i \in Queued(u)} \ {None}
RunningOf(u) == {o \in running : o[1] = u}
InflightOf(u) == {o \in DOMAIN inflight : o[1] = u}

AbortTarget_NoInflight(u) == IF ChunkOf(u) # {} THEN ChunkOf(u) ELSE RunningOf(u)

\* The object an abort has to free: the chunk of a queued request, else a
\* running request, else one whose last batch is still on the device.
AbortTarget(u) ==
  IF ChunkOf(u) # {} THEN ChunkOf(u)
  ELSE IF RunningOf(u) # {} THEN RunningOf(u)
  ELSE InflightOf(u)

\* pop(i)
RemovePosition(q, i) == [j \in 1 .. Len(q) - 1 |-> IF j < i THEN q[j] ELSE q[j + 1]]

WithdrawQueued(u) ==
  IF Queued(u) = {} THEN pending ELSE RemovePosition(pending, CHOOSE i \in Queued(u) : TRUE)

Withdraw_KeepsRunning(u) ==
  /\ pending' = WithdrawQueued(u)
  /\ running' = running
  /\ status' = [status EXCEPT ![u] = IF @ = "live" THEN "aborted" ELSE @]
  /\ woken' = TRUE

\* prefill_manager.abort_req and decode_manager.abort_req.
Withdraw(u) ==
  /\ pending' = WithdrawQueued(u)
  /\ running' = IF ChunkOf(u) # {} THEN running ELSE running \ RunningOf(u)
  /\ status' = [status EXCEPT ![u] = IF @ = "live" THEN "aborted" ELSE @]
  /\ woken' = TRUE

\* Nothing holds resources for the uid: at most a queued request goes.
AbortNothing(u) ==
  /\ pc = "recv" /\ AbortTarget(u) = {}
  /\ Withdraw(u)
  /\ UNCHANGED <<pc, adder, inflight, terminal, batch, last, proc, last_phase, memory, reply, sent>>

\* The object is on the device: it is marked and released by the results.
AbortInflight(u) ==
  /\ pc = "recv"
  /\ \E o \in AbortTarget(u) \cap DOMAIN inflight : terminal' = terminal \cup {o}
  /\ Withdraw(u)
  /\ UNCHANGED <<pc, adder, inflight, batch, last, proc, last_phase, memory, reply, sent>>

\* The object is not on the device: it is released at once.
AbortNow(u) ==
  /\ pc = "recv"
  /\ \E o \in AbortTarget(u) \ DOMAIN inflight :
       /\ FreeReqResources(o, reqs[o], FALSE)
       /\ kv' = ForgetFreePages(cm')
       /\ reqs' = Restrict(reqs, DOMAIN reqs \ {o})
       /\ terminal' = terminal \ {o}
  /\ Withdraw(u)
  /\ UNCHANGED <<pc, adder, inflight, batch, last, proc, last_phase, reply, sent>>

ReceiveAbort(u) == AbortNothing(u) \/ AbortInflight(u) \/ AbortNow(u)

-----------------------------------------------------------------------------
(* BatchPolicy.select and PrefillManager.schedule_next_batch.              *)

\* The loop waits for a message when it has nothing to do.
Blocking == last.reqs = <<>> /\ pending = <<>> /\ running = {}

\* Which phase select prefers.  The clock of wait_time can prefer either one.
PreferredPhases ==
  CASE Policy = "prefill_first" -> {"prefill"}
    [] Policy = "decode_first"  -> {"decode"}
    [] Policy = "alternating"   -> {IF last_phase = "prefill" THEN "decode" ELSE "prefill"}
    [] Policy = "wait_time"     -> {"prefill", "decode"}

Select(b) ==
  /\ batch' = b /\ last_phase' = b.phase
  /\ pc' = "forward"

StartSelection == pc = "recv" /\ (woken \/ ~Blocking)

SelectDecode ==
  /\ StartSelection
  /\ running # {} /\ ("decode" \in PreferredPhases \/ pending = <<>>)
  /\ \E b \in DecodeBatches : Select(b)
  /\ UNCHANGED <<woken, pending, adder, running, inflight, terminal, last, proc, memory, history>>

SelectNothing ==
  /\ StartSelection
  /\ running = {} /\ pending = <<>>
  /\ Select(NoBatch)
  /\ UNCHANGED <<woken, pending, adder, running, inflight, terminal, last, proc, memory, history>>

StartPrefill ==
  /\ StartSelection
  /\ pending # <<>> /\ ("prefill" \in PreferredPhases \/ running = {})
  /\ adder' = [budget |-> Budget, reserved |-> InflightTokens, reqs |-> <<>>, chunked |-> <<>>]
  /\ pc' = "admit"
  /\ UNCHANGED <<woken, pending, running, inflight, terminal, batch, last, proc, last_phase,
                 memory, history>>

\* The loop over pending_list has come to this entry.
Candidate == pending[Len(adder.reqs) + 1]
HasCandidate == Len(adder.reqs) < Len(pending) /\ adder.budget > 0

Estimate(q, cached) == Len(q.ids) - cached + q.out

Fits_IgnoresReserved(q, cached, cm1) == Estimate(q, cached) <= AvailableSize(cm1)

Fits(q, cached, cm1) == Estimate(q, cached) + adder.reserved <= AvailableSize(cm1)

CopyTokens_SliceOnly(row, ids, from, to) == SubSeq(ids, from, to)

\* The slice of the prompt goes behind what the row holds already.
CopyTokens(row, ids, from, to) == row \o SubSeq(ids, from, to)

\* _add_one_req: as much of the prompt as the budget allows becomes a request.
AddOneReq(q, id, slot, handle, cached, row) ==
  LET remain == Len(q.ids) - cached
      chunk  == IF adder.budget < remain THEN adder.budget ELSE remain
      class  == IF chunk < remain THEN "ChunkedReq" ELSE "Req"
      new    == [slot |-> slot, cached |-> cached, device |-> cached + chunk,
                 max |-> cached + chunk + q.out, host |-> SubSeq(q.ids, 1, cached + chunk),
                 handle |-> handle, class |-> class, ignore |-> q.ignore]
  IN  /\ reqs' = [o \in DOMAIN reqs \cup {id} |-> IF o = id THEN new ELSE reqs[o]]
      /\ token_pool' = [token_pool EXCEPT ![slot] = CopyTokens(row, q.ids, cached + 1, cached + chunk)]
      /\ adder' = [budget   |-> adder.budget - chunk,
                   reserved |-> adder.reserved + Estimate(q, cached),
                   reqs     |-> Append(adder.reqs, id),
                   chunked  |-> IF class = "ChunkedReq"
                                THEN Append(adder.chunked, [q EXCEPT !.chunk = id])
                                ELSE adder.chunked]

\* The next chunk of a request already admitted: no check, its room is reserved.
AdmitChunk ==
  /\ pc = "admit" /\ HasCandidate /\ Candidate.chunk # None
  /\ LET q == Candidate
         r == reqs[q.chunk]
     IN  AddOneReq(q, <<q.uid, q.chunk[2] + 1>>, r.slot, r.handle, r.cached,
                   SubSeq(token_pool[r.slot], 1, r.cached))
  /\ UNCHANGED <<pc, woken, pending, running, inflight, terminal, batch, last, proc, last_phase,
                 free_table, page_table, cm, kv, history>>

\* _try_allocate_one, successful: the estimate must fit before and after the
\* matched prefix is locked.
AdmitNew ==
  /\ pc = "admit" /\ HasCandidate /\ Candidate.chunk = None
  /\ free_table # <<>>
  /\ LET q      == Candidate
         match  == MatchReq(cm, q.ids)
         cached == Len(match.node) * PageSize
         found  == [cm EXCEPT !.tree = match.tree]
         locked == [cm EXCEPT !.tree = LockPath(match.tree, match.node)]
         slot   == free_table[Len(free_table)]
     IN  /\ Fits(q, cached, found) /\ Fits(q, cached, locked)
         /\ cm' = locked
         /\ free_table' = SubSeq(free_table, 1, Len(free_table) - 1)
         /\ page_table' = [page_table EXCEPT ![slot] =
              [i \in 1 .. Len(match.node) |-> match.tree.page[SubSeq(match.node, 1, i)]]]
         /\ AddOneReq(q, <<q.uid, 0>>, slot, match.node, cached, SubSeq(q.ids, 1, cached))
  /\ UNCHANGED <<pc, woken, pending, running, inflight, terminal, batch, last, proc, last_phase,
                 kv, history>>

\* A candidate was matched and did not fit: its match may have split a node.
Refused ==
  LET match  == MatchReq(cm, Candidate.ids)
      cached == Len(match.node) * PageSize
  IN  /\ Candidate.chunk = None /\ free_table # <<>>
      /\ ~(/\ Fits(Candidate, cached, [cm EXCEPT !.tree = match.tree])
           /\ Fits(Candidate, cached, [cm EXCEPT !.tree = LockPath(match.tree, match.node)]))
      /\ cm' = [cm EXCEPT !.tree = match.tree]

Requeue_Behind == SubSeq(pending, Len(adder.reqs) + 1, Len(pending)) \o adder.chunked

Requeue_SkipsOne == adder.chunked \o SubSeq(pending, Len(adder.reqs) + 2, Len(pending))

\* pending_list after the batch: a prompt cut short goes first.
Requeue == adder.chunked \o SubSeq(pending, Len(adder.reqs) + 1, Len(pending))

\* The loop ends: a prefill batch of what was admitted, else the decode batch
\* if there is one (select's fallback).
StopAdmission ==
  /\ pc = "admit"
  /\ \/ ~HasCandidate /\ UNCHANGED cm
     \/ HasCandidate /\ Candidate.chunk = None /\ free_table = <<>> /\ UNCHANGED cm
     \/ HasCandidate /\ Refused
  /\ adder' = NoAdder
  /\ \/ /\ adder.reqs # <<>>
        /\ Select([reqs |-> adder.reqs, phase |-> "prefill", tokens |-> <<>>])
        /\ pending' = Requeue
     \/ /\ adder.reqs = <<>> /\ running # {}
        /\ \E b \in DecodeBatches : Select(b)
        /\ UNCHANGED pending
     \/ /\ adder.reqs = <<>> /\ running = {}
        /\ Select(NoBatch)
        /\ UNCHANGED pending
  /\ UNCHANGED <<woken, running, inflight, terminal, last, proc, reqs, free_table, page_table,
                 token_pool, kv, history>>

-----------------------------------------------------------------------------
(* _prepare_batch, _forward and engine.forward_batch.                      *)

\* What the sampler returns for the batch; nobody looks at a chunk's token.
Samples(objs) ==
  {t \in [DOMAIN objs -> Sampled \cup {None}] :
     \A i \in DOMAIN objs : t[i] = None <=> reqs[objs[i]].class = "ChunkedReq"}

\* The batch's results go to the device queue; the loop then turns to the batch
\* whose results it has to process.
Launch(b) ==
  /\ proc' = IF Overlap THEN last ELSE b
  /\ last' = IF Overlap THEN b ELSE NoBatch
  /\ batch' = NoBatch
  /\ pc' = "process"

Fields(objs) == [i \in DOMAIN objs |-> reqs[objs[i]]]

InBatch(objs, s) == {i \in DOMAIN objs : reqs[objs[i]].slot = s}

\* The forward pass fills the keys and values of positions cached .. device-1.
FilledPages(objs, rows) ==
  LET filled(i) == LET r == reqs[objs[i]]
                   IN  {<<rows[r.slot][k], SubSeq(token_pool[r.slot], 1,
                            IF k * PageSize < r.device THEN k * PageSize ELSE r.device)>> :
                          k \in (r.cached \div PageSize) + 1 .. CeilDiv(r.device, PageSize)}
      all == UNION {filled(i) : i \in DOMAIN objs}
  IN  [p \in Pages |-> IF \E e \in all : e[1] = p
                       THEN (CHOOSE e \in all : e[1] = p)[2] ELSE kv[p]]

Forward ==
  /\ pc = "forward" /\ batch.reqs # <<>>
  /\ \E a \in Allocations(cm, NeededPages(Fields(batch.reqs))), t \in Samples(batch.reqs) :
       LET objs == batch.reqs
       IN  /\ cm' = a.cm
           /\ page_table' = WriteRows(page_table, Fields(objs), a.pages)
           /\ kv' = FilledPages(objs, page_table')
           /\ inflight' = [o \in DOMAIN inflight \cup ToSet(objs) |->
                (IF o \in DOMAIN inflight THEN inflight[o] ELSE 0)
                  + (IF o \in ToSet(objs) THEN 1 ELSE 0)]
           /\ reqs' = [o \in DOMAIN reqs |->
                IF o \in ToSet(objs) THEN Completed(reqs[o]) ELSE reqs[o]]
           /\ token_pool' = [s \in Slots |->
                IF \E i \in InBatch(objs, s) : CanDecode(reqs[objs[i]])
                THEN Append(token_pool[s], t[CHOOSE i \in InBatch(objs, s) : TRUE])
                ELSE token_pool[s]]
           /\ running' = {o \in running \cup ToSet(objs) : CanDecode(reqs'[o])}
           /\ Launch([reqs |-> objs, phase |-> batch.phase, tokens |-> t])
  /\ UNCHANGED <<woken, pending, adder, terminal, last_phase, free_table, history>>

\* evict finds less than it was asked for: an assertion stops the process.
ForwardOutOfPages ==
  /\ pc = "forward" /\ batch.reqs # <<>>
  /\ Allocations(cm, NeededPages(Fields(batch.reqs))) = {}
  /\ pc' = "crashed"
  /\ UNCHANGED <<woken, pending, adder, running, inflight, terminal, batch, last, proc,
                 last_phase, memory, history>>

NoForward ==
  /\ pc = "forward" /\ batch.reqs = <<>>
  /\ Launch(NoBatch)
  /\ UNCHANGED <<woken, pending, adder, running, inflight, terminal, last_phase, memory, history>>

-----------------------------------------------------------------------------
(* _process_last_data, one request of the batch per step.                  *)

Current == Head(proc.reqs)

\* The results of aborted and finished requests are not looked at.
Discarded(o) == o \in terminal

OneBatchLess_Forgets(o) == Restrict(inflight, DOMAIN inflight \ {o})

OneBatchLess(o) ==
  IF inflight[o] = 1 THEN Restrict(inflight, DOMAIN inflight \ {o})
  ELSE [inflight EXCEPT ![o] = @ - 1]

\* The first lines of the loop body: one batch less for the request.
TakeResult ==
  /\ pc = "process" /\ proc.reqs # <<>>
  /\ proc' = [reqs |-> Tail(proc.reqs), phase |-> proc.phase, tokens |-> Tail(proc.tokens)]
  /\ inflight' = OneBatchLess(Current)

ReleaseIfLanded_AtOnce(marked, r) ==
  /\ terminal' = marked \ {Current}
  /\ FreeReqResources(Current, r, TRUE)

ReleaseIfLanded_Never(marked, r) ==
  /\ terminal' = marked
  /\ UNCHANGED <<free_table, cm, page_table, token_pool>>

\* _release_terminal_req for a request marked terminal by now.
ReleaseIfLanded(marked, r) ==
  IF Current \in DOMAIN inflight'
  THEN /\ terminal' = marked
       /\ UNCHANGED <<free_table, cm, page_table, token_pool>>
  ELSE /\ terminal' = marked \ {Current}
       /\ FreeReqResources(Current, r, TRUE)

\* An aborted or finished request: its token is dropped.
ProcessTerminal ==
  /\ TakeResult /\ Discarded(Current)
  /\ ReleaseIfLanded(terminal, reqs[Current])
  /\ UNCHANGED <<pc, woken, pending, adder, running, batch, last, last_phase, reqs, kv, history>>

ProcessChunk ==
  /\ TakeResult /\ ~Discarded(Current) /\ reqs[Current].class = "ChunkedReq"
  /\ UNCHANGED <<pc, woken, pending, adder, running, terminal, batch, last, last_phase, memory,
                 history>>

\* The replies for a uid, by their places in the list.
RepliesTo(u) == {i \in DOMAIN reply : reply[i].uid = u}

InOrder(S) ==
  CHOOSE q \in [1 .. Cardinality(S) -> S] : \A i, j \in DOMAIN q : i < j => q[i] < q[j]

Reply(o, token, finished) ==
  reply' = Append(reply, [uid |-> o[1], token |-> token, finished |-> finished])

IsFinished(r, token) == Len(r.host) >= r.max \/ (token = EOS /\ ~r.ignore)

ProcessToken ==
  /\ TakeResult /\ ~Discarded(Current) /\ reqs[Current].class = "Req"
  /\ LET token == Head(proc.tokens)
         r     == [reqs[Current] EXCEPT !.host = Append(@, token)]
         done  == IsFinished(r, token)
     IN  /\ Reply(Current, token, done)
         /\ \/ /\ done
               /\ running' = running \ {Current}
               /\ reqs' = [reqs EXCEPT ![Current] = r]
               /\ ReleaseIfLanded(terminal \cup {Current}, r)
            \/ /\ ~done /\ proc.phase = "prefill"
               /\ LET kept == KeepCached(cm, r, page_table[r.slot])
                  IN  /\ cm' = kept.cm
                      /\ page_table' = [page_table EXCEPT ![r.slot] = kept.row]
                      /\ reqs' = [reqs EXCEPT ![Current] = [r EXCEPT !.handle = kept.handle]]
               /\ UNCHANGED <<running, terminal, free_table, token_pool>>
            \/ /\ ~done /\ proc.phase = "decode"
               /\ reqs' = [reqs EXCEPT ![Current] = r]
               /\ UNCHANGED <<running, terminal, free_table, cm, page_table, token_pool>>
  /\ UNCHANGED <<pc, woken, pending, adder, batch, last, last_phase, kv, sent, status>>

\* Objects no list refers to are collected.
Referenced ==
  running \cup terminal \cup DOMAIN inflight
    \cup ({pending[i].chunk : i \in DOMAIN pending} \ {None})

\* The region closes, the replies leave, the loop starts over.
EndProcess ==
  /\ pc = "process" /\ proc.reqs = <<>>
  /\ cm' = FlushLazy(cm)
  /\ kv' = ForgetFreePages(cm')
  /\ sent' = [u \in Uids |-> sent[u] \o
                LET mine == InOrder(RepliesTo(u))
                IN  [k \in DOMAIN mine |-> reply[mine[k]].finished]]
  /\ status' = [u \in Uids |->
       IF \E i \in RepliesTo(u) : reply[i].finished THEN "done" ELSE status[u]]
  /\ reply' = <<>> /\ proc' = NoBatch
  /\ reqs' = Restrict(reqs, DOMAIN reqs \cap Referenced)
  /\ pc' = "recv" /\ woken' = FALSE
  /\ UNCHANGED <<pending, adder, running, inflight, terminal, batch, last, last_phase,
                 free_table, page_table, token_pool>>

-----------------------------------------------------------------------------

Receive == \E u \in Uids : ReceiveAbort(u) \/ \E w \in Workload : ReceiveUser(u, w)

\* What the process does by itself.
Step ==
  \/ SelectDecode \/ SelectNothing \/ StartPrefill
  \/ AdmitChunk \/ AdmitNew \/ StopAdmission
  \/ Forward \/ ForwardOutOfPages \/ NoForward
  \/ ProcessTerminal \/ ProcessChunk \/ ProcessToken \/ EndProcess

Next == Receive \/ Step

Spec == Init /\ [][Next]_vars

\* receive_msg drains a finite queue, so the loop always comes to its next step.
FairSpec == Spec /\ WF_vars(Step)

=============================================================================
