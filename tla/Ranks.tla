------------------------------- MODULE Ranks -------------------------------
(***************************************************************************)
(* The server as processes: the launcher (which becomes the API server),   *)
(* one scheduler per tensor-parallel rank, the tokenizer workers.  They    *)
(* start, wire their sockets and acknowledge; then the ranks run their     *)
(* loops, each taking the messages that rank 0 publishes.  What a message  *)
(* makes a rank do is a number of batches; a batch is a collective that    *)
(* ends when every rank has launched it.                                   *)
(***************************************************************************)
EXTENDS Naturals, Sequences, FiniteSets, SequencesExt, FiniteSetsExt

CONSTANTS
  MaxRanks,       \* bound: tensor parallel sizes 1 .. MaxRanks
  MaxTokenizers,  \* bound: num_tokenizer is 0 .. MaxTokenizers
  Readings,       \* free memory a rank may read before and after loading, in GiB
  PageMemory,     \* cache_per_page, in GiB
  Msgs,           \* messages for the schedulers, each sent at most once
  Work,           \* [Msgs -> Nat]: batches a message asks for
  Exit            \* the ExitMsg, a message or none of them

ASSUME SizesAssumption ==
  /\ MaxRanks \in Nat \ {0} /\ MaxTokenizers \in Nat /\ PageMemory \in Nat \ {0}
  /\ Readings \subseteq (Nat \X Nat)
ASSUME WorkAssumption == Work \in [Msgs -> Nat]

VARIABLES
  size, tokenizers, policy,  \* tp_info.size, num_tokenizer, scheduling_policy
  free,       \* [rank -> <<before, after>>], what mem_get_info returns to it
  launcher,   \* "sockets", "spawn", "acks", "serving"
  spawned,    \* processes started so far
  acks, heard,  \* acks put into ack_queue, acks taken from it
  step,       \* [rank -> how far its start is, Running when its loop runs]
  failed,     \* ranks that raised
  pages,      \* [rank -> num_pages, 0 until determined]
  ready,      \* workers with their sockets
  sockets,    \* the open sockets
  sent, inbox,  \* messages sent, and those waiting in rank 0's PULL socket
  joined,     \* ranks whose subscription has reached rank 0's PUB socket
  lost,       \* whether a publication had no subscription of some rank
  subs, counts,  \* [rank -> queue]: publications, broadcast counts
  pc,         \* [rank -> "poll", "count", "take", "results", "closing", "barrier", "closed"]
  got, rest, left,  \* pending_msgs; pending_raw_msgs of rank 0; dst_length minus those taken
  todo,       \* [rank -> [Msgs -> batches left]]
  data, cur,  \* [rank -> number of the batch in last_data, in ongoing_data; 0: None]
  taken, ran  \* history: [rank -> messages of each iteration], [rank -> batches launched]

config == <<size, tokenizers, policy, free>>
start == <<launcher, spawned, acks, heard, step, failed, pages, ready, sockets>>
io == <<sent, inbox, joined, lost, subs, counts>>
loop == <<pc, got, rest, left, todo, data, cur, taken, ran>>
vars == <<config, start, io, loop>>

Ranks == 0..size - 1
Followers == Ranks \ {0}
Running == 8

----------------------------------------------------------------------------
(* Configuration and wiring *)

ShareTokenizer == tokenizers = 0

\* The detokenizer is worker 0, tokenizer i - 1 is worker i.
Workers == 0..tokenizers

TokenizerAddr == IF ShareTokenizer THEN "detokenizer" ELSE "tokenizer"
CreatesTokenizerAddr == ShareTokenizer
CreatesLinks == ~ShareTokenizer  \* backend_create_detokenizer_link, frontend_create_tokenizer_link

Socket(owner, kind, addr, binds) ==
  [owner |-> owner, kind |-> kind, addr |-> addr, binds |-> binds]

FrontendSockets ==
  {Socket(<<"api", 0>>, "pull", "frontend", TRUE),
   Socket(<<"api", 0>>, "push", TokenizerAddr, CreatesLinks)}

WorkerSockets(w) ==
  {Socket(<<"worker", w>>, "push", "backend", FALSE),
   Socket(<<"worker", w>>, "push", "frontend", FALSE),
   Socket(<<"worker", w>>, "pull", IF w = 0 THEN "detokenizer" ELSE TokenizerAddr,
          CreatesTokenizerAddr)}

RankSockets(r) ==
  (IF r # 0 THEN {}
   ELSE {Socket(<<"rank", 0>>, "pull", "backend", TRUE),
         Socket(<<"rank", 0>>, "push", "detokenizer", CreatesLinks)}) \cup
  (IF size = 1 THEN {}
   ELSE {Socket(<<"rank", r>>, IF r = 0 THEN "pub" ELSE "sub", "broadcast", r = 0)})

----------------------------------------------------------------------------
Init ==
  /\ size \in 1..MaxRanks /\ tokenizers \in 0..MaxTokenizers
  /\ policy \in {"prefill_first", "wait_time"}
  /\ free \in [Ranks -> Readings]
  /\ launcher = "sockets" /\ spawned = 0 /\ acks = 0 /\ heard = 0
  /\ step = [r \in Ranks |-> 0] /\ failed = {} /\ pages = [r \in Ranks |-> 0]
  /\ ready = {} /\ sockets = {}
  /\ sent = {} /\ inbox = <<>> /\ joined = {} /\ lost = FALSE
  /\ subs = [r \in Ranks |-> <<>>] /\ counts = [r \in Ranks |-> <<>>]
  /\ pc = [r \in Ranks |-> "poll"] /\ got = [r \in Ranks |-> <<>>]
  /\ rest = <<>> /\ left = [r \in Ranks |-> 0]
  /\ todo = [r \in Ranks |-> [m \in Msgs |-> 0]]
  /\ data = [r \in Ranks |-> 0] /\ cur = [r \in Ranks |-> 0]
  /\ taken = [r \in Ranks |-> <<>>] /\ ran = [r \in Ranks |-> <<>>]

(* The launcher: its sockets, then the processes one by one (ranks,        *)
(* detokenizer, tokenizers), then the acks.                                *)
OpenFrontend ==
  /\ launcher = "sockets" /\ launcher' = "spawn"
  /\ sockets' = sockets \cup FrontendSockets
  /\ UNCHANGED <<config, spawned, acks, heard, step, failed, pages, ready, io, loop>>

Processes == size + Cardinality(Workers)
RankAlive(r) == r < spawned
WorkerAlive(w) == size + w < spawned
AcksExpected_NoDetokenizer == tokenizers + 1  \* mutant: as many acks as tokenizers and a scheduler
AcksExpected == tokenizers + 2

Spawn ==
  /\ launcher = "spawn" /\ spawned' = spawned + 1
  /\ launcher' = IF spawned' = Processes THEN "acks" ELSE "spawn"
  /\ UNCHANGED <<config, acks, heard, step, failed, pages, ready, sockets, io, loop>>

HearAck ==
  /\ launcher = "acks" /\ heard < acks /\ heard' = heard + 1
  /\ launcher' = IF heard' = AcksExpected THEN "serving" ELSE "acks"
  /\ UNCHANGED <<config, spawned, acks, step, failed, pages, ready, sockets, io, loop>>

WorkerReady(w) ==
  /\ WorkerAlive(w) /\ w \notin ready /\ ready' = ready \cup {w}
  /\ sockets' = sockets \cup WorkerSockets(w) /\ acks' = acks + 1
  /\ UNCHANGED <<config, launcher, spawned, heard, step, failed, pages, io, loop>>

----------------------------------------------------------------------------
(* A rank starts.  At step n it has come to the n-th collective, which it  *)
(* leaves when all have come: 1 the process group, 2 the NCCL id, 3 to 5   *)
(* the three memory readings, 7 sync_all_ranks.                            *)

MaxFree(k) == Max({free[r][k] : r \in Ranks})
MinFree(k) == Min({free[r][k] : r \in Ranks})
Imbalanced(k) == MaxFree(k) - MinFree(k) > 2

\* _determine_num_pages with memory_ratio 9/10, the same reading on every rank.
AvailableMemory(r) ==
  LET old == MaxFree(1)
      usable == (9 * old) \div 10
      model == old - MaxFree(2)
  IN IF model >= usable THEN 0 ELSE usable - model

NumPages(r) == AvailableMemory(r) \div PageMemory

\* The constructor of Scheduler raises ValueError.
Refused == policy = "wait_time" /\ size # 1

Raises(r) ==
  \/ step[r] = 0 /\ Refused
  \/ step[r] = 3 /\ Imbalanced(1)
  \/ step[r] \in {4, 5} /\ Imbalanced(2)
  \/ step[r] = 4 /\ NumPages(r) < 2

AllCome(r) ==
  step[r] \in {1, 2, 3, 4, 5, 7} => \A q \in Ranks : step[q] >= step[r]

StartStep(r) ==
  /\ RankAlive(r) /\ r \notin failed /\ step[r] < Running /\ AllCome(r)
  /\ IF Raises(r)
     THEN failed' = failed \cup {r} /\ UNCHANGED <<step, pages, sockets, acks>>
     ELSE /\ step' = [step EXCEPT ![r] = @ + 1]
          /\ pages' = IF step[r] = 4 THEN [pages EXCEPT ![r] = NumPages(r)] ELSE pages
          /\ sockets' = IF step[r] = 6 THEN sockets \cup RankSockets(r) ELSE sockets
          /\ acks' = IF step[r] = 7 /\ r = 0 THEN acks + 1 ELSE acks
          /\ UNCHANGED failed
  /\ UNCHANGED <<config, launcher, spawned, heard, ready, io, loop>>

----------------------------------------------------------------------------
(* The sockets of ZeroMQ, external: a SUB socket's subscription reaches    *)
(* the publisher some time after connect(); what is published before is    *)
(* not delivered to it.                                                    *)

Subscribe(r) ==
  /\ r \in Followers \ joined
  /\ {Socket(<<"rank", r>>, "sub", "broadcast", FALSE),
      Socket(<<"rank", 0>>, "pub", "broadcast", TRUE)} \subseteq sockets
  /\ joined' = joined \cup {r}
  /\ UNCHANGED <<config, start, sent, inbox, lost, subs, counts, loop>>

Publish(m) ==
  /\ subs' = [r \in Ranks |-> IF r \in joined THEN Append(subs[r], m) ELSE subs[r]]
  /\ lost' = (lost \/ ~(Followers \subseteq joined))

\* A message comes from the frontend through a tokenizer.
Arrive(m) ==
  /\ launcher = "serving" /\ m \in Msgs \ sent
  /\ sent' = sent \cup {m} /\ inbox' = Append(inbox, m)
  /\ UNCHANGED <<config, start, joined, lost, subs, counts, loop>>

----------------------------------------------------------------------------
(* The loop of a rank *)

Idle(r) == data[r] = 0 /\ \A m \in Msgs : todo[r][m] = 0

At(r, where) == step[r] = Running /\ pc[r] = where
Goto(r, where) == pc' = [pc EXCEPT ![r] = where]

\* Behind the message it blocked for, or at once when it need not block.
MayCount(r) == At(r, "count") \/ (At(r, "poll") /\ ~Idle(r))

\* Mutant: the message rank 0 blocked for is not passed on.
RootFirst_KeptBack ==
  /\ At(0, "poll") /\ Idle(0) /\ inbox # <<>>
  /\ got' = [got EXCEPT ![0] = <<Head(inbox)>>] /\ inbox' = Tail(inbox)
  /\ Goto(0, "count")
  /\ UNCHANGED <<config, start, sent, joined, lost, subs, counts, rest, left, todo, data, cur, taken, ran>>

RootFirst ==
  /\ At(0, "poll") /\ Idle(0) /\ inbox # <<>>
  /\ got' = [got EXCEPT ![0] = <<Head(inbox)>>] /\ inbox' = Tail(inbox)
  /\ Publish(Head(inbox)) /\ Goto(0, "count")
  /\ UNCHANGED <<config, start, sent, joined, counts, rest, left, todo, data, cur, taken, ran>>

\* The socket is read until a poll finds it empty; one message more may be under way.
RootCount ==
  /\ MayCount(0)
  /\ \E k \in 0..Len(inbox) :
       /\ rest' = SubSeq(inbox, 1, k) /\ inbox' = SubSeq(inbox, k + 1, Len(inbox))
       /\ counts' = [r \in Ranks |-> IF r = 0 THEN <<>> ELSE Append(counts[r], k)]
  /\ Goto(0, "take")
  /\ UNCHANGED <<config, start, sent, joined, lost, subs, got, left, todo, data, cur, taken, ran>>

RootTake ==
  /\ At(0, "take") /\ rest # <<>>
  /\ got' = [got EXCEPT ![0] = Append(@, Head(rest))] /\ rest' = Tail(rest)
  /\ Publish(Head(rest))
  /\ UNCHANGED <<config, start, sent, inbox, joined, counts, pc, left, todo, data, cur, taken, ran>>

FollowFirst(r) ==
  /\ r # 0 /\ At(r, "poll") /\ Idle(r) /\ subs[r] # <<>>
  /\ got' = [got EXCEPT ![r] = <<Head(subs[r])>>] /\ subs' = [subs EXCEPT ![r] = Tail(@)]
  /\ Goto(r, "count")
  /\ UNCHANGED <<config, start, sent, inbox, joined, lost, counts, rest, left, todo, data, cur, taken, ran>>

\* Mutant: a rank empties its own queue as rank 0 does, whatever rank 0 found.
FollowCount_DrainsOwn(r) ==
  /\ r # 0 /\ MayCount(r) /\ left' = [left EXCEPT ![r] = Len(subs[r])] /\ Goto(r, "take")
  /\ UNCHANGED <<config, start, io, got, rest, todo, data, cur, taken, ran>>

FollowCount(r) ==
  /\ r # 0 /\ MayCount(r) /\ counts[r] # <<>>
  /\ left' = [left EXCEPT ![r] = Head(counts[r])] /\ counts' = [counts EXCEPT ![r] = Tail(@)]
  /\ Goto(r, "take")
  /\ UNCHANGED <<config, start, sent, inbox, joined, lost, subs, got, rest, todo, data, cur, taken, ran>>

FollowTake(r) ==
  /\ r # 0 /\ At(r, "take") /\ left[r] > 0 /\ subs[r] # <<>>
  /\ got' = [got EXCEPT ![r] = Append(@, Head(subs[r]))]
  /\ subs' = [subs EXCEPT ![r] = Tail(@)] /\ left' = [left EXCEPT ![r] = @ - 1]
  /\ UNCHANGED <<config, start, sent, inbox, joined, lost, counts, pc, rest, todo, data, cur, taken, ran>>

AllTaken(r) == At(r, "take") /\ IF r = 0 THEN rest = <<>> ELSE left[r] = 0

\* Every policy but wait_time decides by the rank's own queues, which are alike;
\* wait_time also by its clock.
BatchChoices(jobs) ==
  LET runnable == {m \in Msgs : jobs[m] > 0}
  IN IF policy = "wait_time" THEN {b \in SUBSET runnable : b = {} <=> runnable = {}}
     ELSE {runnable}

\* The messages are processed and the next batch is launched.
Launch(r) ==
  /\ AllTaken(r) /\ Exit \notin ToSet(got[r])
  /\ LET jobs == [m \in Msgs |-> todo[r][m] + IF m \in ToSet(got[r]) THEN Work[m] ELSE 0]
     IN \E batch \in BatchChoices(jobs) :
          /\ todo' = [todo EXCEPT ![r] = [m \in Msgs |-> IF m \in batch THEN jobs[m] - 1 ELSE jobs[m]]]
          /\ ran' = IF batch = {} THEN ran ELSE [ran EXCEPT ![r] = Append(@, batch)]
          /\ cur' = [cur EXCEPT ![r] = IF batch = {} THEN 0 ELSE Len(ran[r]) + 1]
  /\ taken' = [taken EXCEPT ![r] = Append(@, got[r])] /\ got' = [got EXCEPT ![r] = <<>>]
  /\ Goto(r, "results")
  /\ UNCHANGED <<config, start, io, rest, left, data>>

\* The device has finished a batch when every rank has launched it.
Finished(n) == \A q \in Ranks : Len(ran[q]) >= n

\* _process_last_data waits for the copy of the last batch's tokens.
Results(r) ==
  /\ At(r, "results") /\ Finished(data[r])
  /\ data' = [data EXCEPT ![r] = cur[r]] /\ cur' = [cur EXCEPT ![r] = 0]
  /\ Goto(r, "poll")
  /\ UNCHANGED <<config, start, io, got, rest, left, todo, taken, ran>>

\* An ExitMsg raises KeyboardInterrupt; shutdown() waits for the device and for the ranks.
Interrupt(r) ==
  /\ AllTaken(r) /\ Exit \in ToSet(got[r])
  /\ taken' = [taken EXCEPT ![r] = Append(@, got[r])] /\ got' = [got EXCEPT ![r] = <<>>]
  /\ Goto(r, "closing")
  /\ UNCHANGED <<config, start, io, rest, left, todo, data, cur, ran>>

Synchronize(r) ==
  /\ At(r, "closing") /\ Finished(Len(ran[r])) /\ Goto(r, "barrier")
  /\ UNCHANGED <<config, start, io, got, rest, left, todo, data, cur, taken, ran>>

Close(r) ==
  /\ At(r, "barrier") /\ \A q \in Ranks : pc[q] \in {"barrier", "closed"}
  /\ Goto(r, "closed")
  /\ UNCHANGED <<config, start, io, got, rest, left, todo, data, cur, taken, ran>>

----------------------------------------------------------------------------
LaunchServer == OpenFrontend \/ Spawn \/ HearAck
RootLoop == RootFirst \/ RootCount \/ RootTake
RankLoop(r) ==
  \/ FollowFirst(r) \/ FollowCount(r) \/ FollowTake(r)
  \/ Launch(r) \/ Results(r) \/ Interrupt(r) \/ Synchronize(r) \/ Close(r)

Next ==
  \/ LaunchServer
  \/ \E w \in Workers : WorkerReady(w)
  \/ \E r \in Ranks : StartStep(r) \/ Subscribe(r) \/ RankLoop(r)
  \/ RootLoop
  \/ \E m \in Msgs : Arrive(m)

Spec == Init /\ [][Next]_vars

\* Every process runs on until it waits for something that does not come, and
\* subscriptions arrive; nothing is assumed of the messages.
FairSpec ==
  /\ Spec
  /\ WF_vars(LaunchServer) /\ WF_vars(RootLoop)
  /\ \A w \in 0..MaxTokenizers : WF_vars(w \in Workers /\ WorkerReady(w))
  /\ \A r \in 0..MaxRanks - 1 :
       /\ WF_vars(r \in Ranks /\ StartStep(r))
       /\ WF_vars(r \in Ranks /\ Subscribe(r))
       /\ WF_vars(r \in Ranks /\ RankLoop(r))

----------------------------------------------------------------------------
(* Properties *)

Agree(s, t) == IsPrefix(s, t) \/ IsPrefix(t, s)

\* In the same iteration all ranks take the same messages and launch the same
\* batch, on caches of the same size, although each decides by itself whether to
\* block and what to run - as long as no publication was missed (scheduler/io.py,
\* overlap_loop; engine.py:148, 170).
Lockstep ==
  /\ ~lost => \A q, r \in Ranks : Agree(taken[q], taken[r]) /\ Agree(ran[q], ran[r])
  /\ \A q, r \in Ranks : pages[q] > 0 /\ pages[r] > 0 => pages[q] = pages[r]

\* When the launcher has its acks every rank is past the barrier, every address in
\* use is bound by one process, and each message ends at the process it is for:
\* backend at rank 0, frontend at the API server, detokenizer at worker 0
\* (launch.py:104-111, args.py:21-47).
Readers(addr) == {s.owner : s \in {t \in sockets : t.addr = addr /\ t.kind = "pull"}}
ReadyMeansWired ==
  launcher = "serving" =>
    /\ \A r \in Ranks : step[r] >= 7 /\ r \notin failed
    /\ ready = Workers
    /\ \A a \in {s.addr : s \in sockets} :
         Cardinality({s \in sockets : s.addr = a /\ s.binds}) = 1
    /\ Readers("backend") = {<<"rank", 0>>} /\ Readers("frontend") = {<<"api", 0>>}
    /\ Readers("detokenizer") = {<<"worker", 0>>}
    /\ Readers(TokenizerAddr) = {<<"worker", w>> : w \in IF ShareTokenizer THEN {0} ELSE Workers \ {0}}

Took(r, m) == \E i \in DOMAIN taken[r] : m \in ToSet(taken[r][i])

\* The server starts unless a rank raises, and every message reaches every rank, or
\* the ranks have all shut down, unless a publication was missed: no collective is
\* left waiting for a rank that is elsewhere.
EveryMessageTaken ==
  /\ <>(launcher = "serving" \/ failed # {})
  /\ \A m \in Msgs : (m \in sent) ~>
       (lost \/ \A r \in Ranks : Took(r, m) \/ pc[r] = "closed")
  /\ (Exit \in sent) ~> (lost \/ \A r \in Ranks : pc[r] = "closed")
=============================================================================
