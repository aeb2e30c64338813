----------------------------- MODULE BatchPolicy -----------------------------
(***************************************************************************)
(* scheduler/policy.py: which of the two managers makes the next batch.    *)
(*                                                                         *)
(* The managers are reduced to who is in them.  wait_since is kept as ages *)
(* (now minus the stored reading of the clock), which only the clock's     *)
(* ticks increase; an age beyond MaxAge counts as MaxAge.                  *)
(***************************************************************************)
EXTENDS Integers, Sequences, FiniteSets, SequencesExt

CONSTANTS
  Uids,
  DecodeWait, PrefillWait,  \* the thresholds decode_wait and prefill_wait, in ticks
  MaxStep,                  \* bound: ticks from one select to the next
  MaxCuts,                  \* bound: how often a prompt is cut
  MaxAge,                   \* bound: ages are counted up to here
  None

ASSUME WaitsAssumption ==
  /\ DecodeWait \in Nat \ {0} /\ PrefillWait \in Nat \ {0}
  /\ MaxStep \in Nat \ {0} /\ MaxCuts \in Nat /\ MaxAge \in Nat
  /\ IsFiniteSet(Uids)

VARIABLES
  setting,     \* the policy configured, and whether the prefill manager may find no room
  pending,     \* the uids of pending_list, with the number of cuts so far
  running,     \* the uids of running_reqs
  age,         \* wait_since: for each phase uid -> ticks since the reading stored
  last_phase,
  batch,       \* the batch selected, until it has been forwarded
  elapsed,     \* ticks since the last select
  idle_since   \* history: uid -> ticks since it entered its manager or was in a batch

vars == <<setting, pending, running, age, last_phase, batch, elapsed, idle_since>>

NoBatch == [phase |-> None, members |-> {}, complete |-> {}]

UidsOf(queue) == {queue[i].uid : i \in DOMAIN queue}

Members == UidsOf(pending) \cup running

Policies == {"prefill_first", "decode_first", "alternating", "wait_time"}
Policy == setting.policy
CanRefuse == setting.refuse

Init ==
  /\ setting \in [policy : Policies, refuse : BOOLEAN]
  /\ pending = <<>> /\ running = {}
  /\ age = [prefill |-> <<>>, decode |-> <<>>]
  /\ last_phase = None /\ batch = NoBatch /\ elapsed = 0
  /\ idle_since = [u \in Uids |-> 0]

-----------------------------------------------------------------------------

Tracked(ages, uids) == [u \in uids |-> IF u \in DOMAIN ages THEN ages[u] ELSE 0]

\* observe: whoever is in a manager has an age, whoever left has none.
Observe(ages, queue, uids) ==
  IF Policy # "wait_time" THEN ages
  ELSE [prefill |-> Tracked(ages.prefill, UidsOf(queue)), decode |-> Tracked(ages.decode, uids)]

Oldest(ages) == CHOOSE a \in {ages[u] : u \in DOMAIN ages} : \A u \in DOMAIN ages : ages[u] <= a

Overdue(ages, threshold) == DOMAIN ages # {} /\ Oldest(ages) >= threshold

Preferred_PrefillWins(ages) ==
  IF Policy = "wait_time"
  THEN IF Overdue(ages.decode, DecodeWait) /\ ~Overdue(ages.prefill, PrefillWait)
       THEN "decode" ELSE "prefill"
  ELSE IF Policy = "decode_first" \/ (Policy = "alternating" /\ last_phase = "prefill")
       THEN "decode" ELSE "prefill"

Preferred_DecodeWins(ages) ==
  IF Policy = "wait_time"
  THEN IF Overdue(ages.decode, DecodeWait) THEN "decode" ELSE "prefill"
  ELSE IF Policy = "decode_first" \/ (Policy = "alternating" /\ last_phase = "prefill")
       THEN "decode" ELSE "prefill"

\* The phase asked first: earliest deadline first when both are overdue.
Preferred(ages) ==
  IF Policy = "wait_time"
  THEN IF /\ Overdue(ages.decode, DecodeWait)
          /\ Overdue(ages.prefill, PrefillWait) =>
               Oldest(ages.decode) - DecodeWait >= Oldest(ages.prefill) - PrefillWait
       THEN "decode" ELSE "prefill"
  ELSE IF Policy = "decode_first" \/ (Policy = "alternating" /\ last_phase = "prefill")
       THEN "decode" ELSE "prefill"

\* What schedule_next_batch of the prefill manager may do: admit the first k
\* requests, the last of them perhaps cut, and put a cut one back in front.
Admission(k, cut) ==
  [members  |-> UidsOf(SubSeq(pending, 1, k)),
   complete |-> UidsOf(SubSeq(pending, 1, IF cut THEN k - 1 ELSE k)),
   rest     |-> (IF cut THEN <<[pending[k] EXCEPT !.cuts = @ + 1]>> ELSE <<>>)
                  \o SubSeq(pending, k + 1, Len(pending))]

\* It gives None for an empty queue, or when the first request finds no room; a
\* prompt it has begun is never refused.
MayDecline == \A i \in DOMAIN pending : i = 1 => CanRefuse /\ pending[i].cuts = 0

Served(ages, uids) == [u \in DOMAIN ages |-> IF u \in uids THEN 0 ELSE ages[u]]

\* The end of select: only the selected requests' readings are renewed.
Select(b, queue, ages) ==
  /\ batch' = b /\ last_phase' = b.phase /\ pending' = queue
  /\ age' = Observe([prefill |-> IF b.phase = "prefill" THEN Served(ages.prefill, b.members)
                                 ELSE ages.prefill,
                     decode  |-> IF b.phase = "decode" THEN Served(ages.decode, b.members)
                                 ELSE ages.decode], queue, running)
  /\ idle_since' = Served(idle_since, b.members)
  /\ elapsed' = 0
  /\ UNCHANGED <<setting, running>>

SelectPrefill(ages) ==
  \E k \in 1 .. Len(pending), cut \in BOOLEAN :
    LET a == Admission(k, cut)
    IN  /\ cut => pending[k].cuts < MaxCuts
        /\ Select([phase |-> "prefill", members |-> a.members, complete |-> a.complete],
                  a.rest, ages)

SelectDecode(ages) ==
  /\ running # {}
  /\ Select([phase |-> "decode", members |-> running, complete |-> {}], pending, ages)

SelectNothing(ages) == Select(NoBatch, pending, ages)

\* select: the preferred phase, else the other one.
SelectBatch ==
  /\ batch = NoBatch
  /\ LET ages == Observe(age, pending, running)
     IN  \/ Preferred(ages) = "prefill" /\ SelectPrefill(ages)
         \/ Preferred(ages) = "prefill" /\ MayDecline /\ SelectDecode(ages)
         \/ Preferred(ages) = "decode" /\ SelectDecode(ages)
         \/ Preferred(ages) = "decode" /\ running = {} /\ SelectPrefill(ages)
         \/ MayDecline /\ running = {} /\ SelectNothing(ages)

-----------------------------------------------------------------------------
(* What the scheduler does between two selects, each ending in observe.    *)

Entering(uids) == [u \in Uids |-> IF u \in uids THEN 0 ELSE idle_since[u]]

Arrive(u) ==
  /\ batch = NoBatch /\ u \notin Members
  /\ pending' = Append(pending, [uid |-> u, cuts |-> 0])
  /\ age' = Observe(age, pending', running)
  /\ idle_since' = Entering({u})
  /\ UNCHANGED <<setting, running, last_phase, batch, elapsed>>

\* An abort, or a result that ends a request.
Leave(u) ==
  /\ batch = NoBatch
  /\ \/ /\ \E i \in DOMAIN pending : pending[i].uid = u /\ pending' = RemoveAt(pending, i)
        /\ UNCHANGED running
     \/ u \in running /\ running' = running \ {u} /\ UNCHANGED pending
  /\ age' = Observe(age, pending', running')
  /\ idle_since' = Entering({u})
  /\ UNCHANGED <<setting, last_phase, batch, elapsed>>

\* _forward: filter_reqs takes in the complete prompts and drops what has no
\* further step.
Forward ==
  /\ batch # NoBatch
  /\ \E last \in SUBSET (batch.complete \cup (batch.members \cap running)) :
       running' = (running \cup batch.complete) \ last
  /\ age' = Observe(age, pending, running')
  /\ idle_since' = Entering(running' \ running)
  /\ batch' = NoBatch
  /\ UNCHANGED <<setting, pending, last_phase, elapsed>>

Aged(ages) == [u \in DOMAIN ages |-> IF ages[u] < MaxAge THEN ages[u] + 1 ELSE MaxAge]

Tick ==
  /\ Policy = "wait_time" /\ elapsed < MaxStep /\ elapsed' = elapsed + 1
  /\ age' = [prefill |-> Aged(age.prefill), decode |-> Aged(age.decode)]
  /\ idle_since' = [u \in Uids |-> IF u \in Members THEN Aged(idle_since)[u] ELSE 0]
  /\ UNCHANGED <<setting, pending, running, last_phase, batch>>

Next == SelectBatch \/ Forward \/ Tick \/ \E u \in Uids : Arrive(u) \/ Leave(u)

Spec == Init /\ [][Next]_vars

-----------------------------------------------------------------------------

\* How many batches a queue can need before a given request is served.
QueueBatches == (Cardinality(Uids) - 1) * (MaxCuts + 1)

Larger(a, b) == IF a < b THEN b ELSE a

\* Under wait_time a decode step is never postponed by requests that arrive while
\* it waits: it comes at the first select after the threshold, or after what was queued
\* before if that takes longer, as long as the prefill threshold is not the shorter one.
DecodeWaitBounded ==
  (Policy = "wait_time" /\ DecodeWait <= PrefillWait) =>
    \A u \in running : idle_since[u] <= Larger(DecodeWait - 1, MaxStep * QueueBatches) + MaxStep

\* With room in the cache a queued request loses against decoding only while the
\* thresholds favour decode and once more; then the queue ahead of it is served.
PrefillWaitBounded ==
  (Policy = "wait_time" /\ ~CanRefuse) =>
    \A u \in UidsOf(pending) :
      idle_since[u] <= Larger(PrefillWait - DecodeWait, 0) + MaxStep * (QueueBatches + 1)

=============================================================================
