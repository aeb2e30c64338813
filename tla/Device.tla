------------------------------- MODULE Device -------------------------------
(***************************************************************************)
(* One scheduler process and its GPU.  The host puts operations into two   *)
(* streams, each a queue the device works off in order: the scheduler's,   *)
(* which prepares batches, and the engine's, which runs them.  Scheduler   *)
(* takes for granted that every operation sees memory as the program wrote *)
(* it; here each memory location carries the number of the operation that  *)
(* wrote it, and a read that finds another writer than the one before it   *)
(* in the program is recorded in "faults".                                 *)
(***************************************************************************)
EXTENDS Naturals, Sequences, FiniteSets, SequencesExt

CONSTANTS
  Slots,       \* table slots
  Blocks,      \* blocks of the caching allocator, one holds a ForwardInput
  MaxBatches   \* bound: batches launched

ASSUME DeviceAssumption ==
  /\ IsFiniteSet(Slots) /\ Slots # {} /\ MaxBatches \in Nat
  /\ IsFiniteSet(Blocks) /\ Cardinality(Blocks) >= 2

VARIABLES
  overlap,   \* overlap_loop, or normal_loop with everything on the engine's stream
  flashinfer,  \* whether the attention backend plans through a staging buffer
  pc,        \* "select", "prepare", "launch", "process"
  running, ending,  \* slots that decode; slots that ended and are still in a batch
  plan,      \* slots of the batch being made
  data, cur, \* last_data and ongoing_data, or None
  batches,   \* batches launched
  queue,     \* [stream -> operations issued and not done]
  done,      \* [stream -> number of operations done]
  planned,   \* position of last_event in the engine's stream
  wrote,     \* [location -> writer, in the order of the program]
  memory,    \* [location -> writer, as the device has it]
  faults     \* <<operation, kind of location>> of the reads that went wrong

vars == <<overlap, flashinfer, pc, running, ending, plan, data, cur, batches,
          queue, done, planned, wrote, memory, faults>>

host == <<running, ending, data, cur, batches, planned>>

Streams == {"scheduler", "engine"}
None == [block |-> 0, slots |-> {}, id |-> 0, copied |-> 0]

\* token_pool rows, the tensors of a ForwardInput, the host's copy of its tokens, and
\* the pinned buffer of the attention backend.
Row(s) == <<"row", s>>
Input(b) == <<"input", b>>
Tokens(b) == <<"tokens", b>>
Staging == <<"staging", 0>>
Locations ==
  {Row(s) : s \in Slots} \cup {Input(b) : b \in Blocks}
    \cup {Tokens(b) : b \in Blocks} \cup {Staging}

Init ==
  /\ overlap \in BOOLEAN /\ flashinfer \in BOOLEAN
  /\ pc = "select" /\ running = {} /\ ending = {} /\ plan = {}
  /\ data = None /\ cur = None /\ batches = 0
  /\ queue = [st \in Streams |-> <<>>] /\ done = [st \in Streams |-> 0] /\ planned = 0
  /\ wrote = [l \in Locations |-> 0] /\ memory = [l \in Locations |-> 0]
  /\ faults = {}

----------------------------------------------------------------------------
(* Operations *)

Issued(st) == done[st] + Len(queue[st])

\* The streams in which the scheduler prepares and runs; run_forever without overlap
\* is inside the engine's stream.
Preparing == IF overlap THEN "scheduler" ELSE "engine"

Op(kind, id, reads, writes) ==
  [kind |-> kind, id |-> id, reads |-> {<<l, wrote[l]>> : l \in reads},
   writes |-> writes, until |-> 0]

\* st.wait_stream(other): what follows in st waits for what is in the other one now.
WaitFor(other) ==
  [kind |-> "wait", id |-> 0, reads |-> {}, writes |-> {}, until |-> Issued(other)]

Other(st) == IF st = "engine" THEN "scheduler" ELSE "engine"

Written(version, locations, id) ==
  [l \in Locations |-> IF l \in locations THEN id ELSE version[l]]

\* The writers of a batch are told apart by the batch and their place in it.
Id(step) == 10 * (batches + 1) + step

Execute(st) ==
  /\ queue[st] # <<>>
  /\ LET op == Head(queue[st])
     IN /\ op.kind = "wait" => done[Other(st)] >= op.until
        /\ faults' = faults \cup
             {<<op.kind, r[1][1]>> : r \in {x \in op.reads : memory[x[1]] # x[2]}}
        /\ memory' = Written(memory, op.writes, op.id)
  /\ queue' = [queue EXCEPT ![st] = Tail(@)] /\ done' = [done EXCEPT ![st] = @ + 1]
  /\ UNCHANGED <<overlap, flashinfer, pc, plan, host, wrote>>

----------------------------------------------------------------------------
(* The host *)

InFlight(s) == s \in data.slots \cup cur.slots

\* A new request takes a slot; its prompt is copied into the slot's row.
Admit(s) ==
  /\ pc = "select" /\ batches < MaxBatches /\ s \notin running \cup ending
  /\ queue' = [queue EXCEPT ![Preparing] = Append(@, Op("admit", Id(1), {}, {Row(s)}))]
  /\ wrote' = Written(wrote, {Row(s)}, Id(1))
  /\ plan' = {s} /\ pc' = "prepare"
  /\ UNCHANGED <<overlap, flashinfer, host, done, memory, faults>>

Decode ==
  /\ pc = "select" /\ batches < MaxBatches /\ running # {}
  /\ plan' = running /\ pc' = "prepare"
  /\ UNCHANGED <<overlap, flashinfer, host, queue, done, wrote, memory, faults>>

NoBatch ==
  /\ pc = "select" /\ data # None /\ pc' = "process"
  /\ UNCHANGED <<overlap, flashinfer, plan, host, queue, done, wrote, memory, faults>>

\* _prepare_batch: mappings, positions, out_loc and metadata go into memory that the
\* allocator takes from any block nothing refers to any more.
Prepare ==
  /\ pc = "prepare"
  /\ \E b \in Blocks \ {data.block} :
       /\ queue' = [queue EXCEPT ![Preparing] = Append(@, Op("prepare", Id(2), {}, {Input(b)}))]
       /\ wrote' = Written(wrote, {Input(b)}, Id(2))
       /\ cur' = [block |-> b, slots |-> plan, id |-> Id(6), copied |-> 0]
  /\ pc' = "launch"
  /\ UNCHANGED <<overlap, flashinfer, running, ending, plan, data, batches, done, planned, memory, faults>>

\* Without a wait in the queue of the engine there is nothing to wait for in normal_loop.
WaitForPreparing == IF overlap THEN <<WaitFor("scheduler")>> ELSE <<>>

PlanOp(b) ==
  IF flashinfer
  THEN <<[Op("plan", Id(4), {Input(b)}, {}) EXCEPT !.reads = @ \cup {<<Staging, Id(3)>>}]>>
  ELSE <<>>

Rows(slots) == {Row(s) : s \in slots}

\* Planning writes the staging buffer on the host, once its last copy is done.
StagingFree == flashinfer => done["engine"] >= planned
Staged(version) == IF flashinfer THEN Written(version, {Staging}, Id(3)) ELSE version

\* _forward: gather the tokens, run, sample, copy to the host, copy_done, and then
\* write the tokens into the pool.
Launch ==
  /\ pc = "launch" /\ StagingFree
  /\ LET b == cur.block
         before == WaitForPreparing
                     \o <<Op("gather", Id(5), Rows(plan) \cup {Input(b)}, {})>> \o PlanOp(b)
         ops == before \o <<Op("forward", Id(6), {Input(b)}, {Tokens(b)}),
                            Op("store", Id(7), {Input(b)}, Rows(plan))>>
     IN /\ queue' = [queue EXCEPT !["engine"] = @ \o ops]
        /\ cur' = [cur EXCEPT !.copied = Issued("engine") + Len(before) + 1]
        /\ planned' = IF flashinfer THEN Issued("engine") + Len(before) ELSE planned
        /\ wrote' = Written(Written(Staged(wrote), {Tokens(b)}, Id(6)), Rows(plan), Id(7))
  /\ memory' = Staged(memory)
  /\ batches' = batches + 1 /\ running' = running \cup plan /\ plan' = {}
  /\ pc' = "process"
  /\ UNCHANGED <<overlap, flashinfer, ending, data, done, faults>>

\* Mutant: slots are reused as soon as the host has the tokens.
WaitForEngine_Never(slots) == queue

\* What a slot's reuse waits for: _free_req_resources.
WaitForEngine(slots) ==
  IF overlap /\ slots # {} THEN [queue EXCEPT !["scheduler"] = Append(@, WaitFor("engine"))]
  ELSE queue

\* _process_last_data for the previous batch, or in normal_loop for this one: any of
\* its requests may have ended, and is released unless the next batch has it too.
Landing == IF overlap THEN data ELSE cur
Following == IF overlap THEN cur ELSE None
Process ==
  /\ pc = "process" /\ done["engine"] >= Landing.copied
  /\ faults' = IF Landing # None /\ memory[Tokens(Landing.block)] # Landing.id
               THEN faults \cup {<<"host", "tokens">>} ELSE faults
  /\ \E ended \in SUBSET (Landing.slots \ ending) :
       LET over == (Landing.slots \cap ending) \cup ended
           released == over \ Following.slots
       IN /\ running' = running \ over /\ ending' = (ending \cup over) \ released
          /\ queue' = WaitForEngine(released)
  /\ data' = Following /\ cur' = None /\ pc' = "select"
  /\ UNCHANGED <<overlap, flashinfer, plan, batches, done, planned, wrote, memory>>

\* An abort between two iterations: at once, or when the batch with it is processed.
Abort(s) ==
  /\ pc = "select" /\ s \in running /\ running' = running \ {s}
  /\ IF InFlight(s) THEN ending' = ending \cup {s} /\ UNCHANGED queue
     ELSE queue' = WaitForEngine({s}) /\ UNCHANGED ending
  /\ UNCHANGED <<overlap, flashinfer, pc, plan, data, cur, batches, done, planned, wrote, memory, faults>>

Next ==
  \/ \E st \in Streams : Execute(st)
  \/ \E s \in Slots : Admit(s) \/ Abort(s)
  \/ Decode \/ NoBatch \/ Prepare \/ Launch \/ Process

Spec == Init /\ [][Next]_vars

----------------------------------------------------------------------------
(* Properties *)

\* Every operation, and the host, reads what the operation before it in the program
\* wrote: slots are reused behind the engine's last write to their row, batches run
\* behind their preparation, plans are not overwritten (scheduler.py:108-117, 230-234,
\* fi.py:130-132).  One read is not covered: with overlap the memory of a batch's
\* write_tuple is free for the next preparation once copy_done has passed, and the
\* token-pool write, which reads it, comes behind copy_done (scheduler.py:270).
ReadsIntended == faults \subseteq IF overlap THEN {<<"store", "input">>} ELSE {}
=============================================================================
