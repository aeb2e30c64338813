-------------------------- MODULE SchedulerProofs ---------------------------
(***************************************************************************)
(* Theorems of Scheduler: where requests are, and what it promises,        *)
(* whatever the sizes, the workload, the policy and the mode.  Scheduler   *)
(* implements RequestService: whatever is chunked, aborted, speculated on  *)
(* or still on the device, each iteration's replies are one step of the    *)
(* service the frontend is written against, prompts leave the queue in the *)
(* order they came, and every table slot has one owner.  Requests stay     *)
(* within the model's length and their rows within the page table, and     *)
(* what the host knows of a request is what its row on the device holds,   *)
(* however far the device is ahead.                                        *)
(***************************************************************************)
EXTENDS SchedulerProperties, RadixTreeProofs, FiniteSetTheorems

-----------------------------------------------------------------------------
(* Sequences.                                                              *)

\* An element of a sequence and its index.
LEMMA ToSetElement ==
  ASSUME NEW s, NEW i \in DOMAIN s
  PROVE  s[i] \in ToSet(s)
BY DEF ToSet

\* The empty sequence has no elements and no duplicates.
LEMMA EmptyFacts ==
  /\ ToSet(<<>>) = {} /\ ~Duplicated(<<>>)
BY DEF ToSet, Duplicated

\* A sequence's elements are its head and those of its tail.
LEMMA HeadTail ==
  ASSUME NEW S, NEW s \in Seq(S), s # <<>>
  PROVE  /\ Head(s) \in S /\ Tail(s) \in Seq(S)
         /\ ToSet(s) = {Head(s)} \cup ToSet(Tail(s))
         /\ ~Duplicated(s) => Head(s) \notin ToSet(Tail(s)) /\ ~Duplicated(Tail(s))
<1>1. /\ Len(s) \in Nat \ {0} /\ Head(s) = s[1] /\ DOMAIN s = 1 .. Len(s)
      /\ Head(s) \in S /\ Tail(s) \in Seq(S)
      /\ DOMAIN Tail(s) = 1 .. Len(s) - 1
      /\ \A i \in 1 .. Len(s) - 1 : Tail(s)[i] = s[i + 1]
  BY HeadTailProperties, LenProperties, EmptySeq
<1>2. ToSet(s) = {Head(s)} \cup ToSet(Tail(s))
  <2>1. ASSUME NEW i \in 1 .. Len(s) PROVE s[i] \in {Head(s)} \cup ToSet(Tail(s))
    <3>1. CASE i = 1 BY <3>1, <1>1
    <3>2. CASE i # 1
      <4>1. i - 1 \in DOMAIN Tail(s) /\ Tail(s)[i - 1] = s[i] BY <3>2, <1>1
      <4>2. QED BY <4>1, ToSetElement
    <3>3. QED BY <3>1, <3>2
  <2>2. ASSUME NEW i \in DOMAIN Tail(s) PROVE Tail(s)[i] \in ToSet(s)
    <3>1. i + 1 \in DOMAIN s /\ Tail(s)[i] = s[i + 1] BY <1>1
    <3>2. QED BY <3>1, ToSetElement
  <2>3. Head(s) \in ToSet(s) BY <1>1, ToSetElement
  <2>4. QED BY <2>1, <2>2, <2>3, <1>1 DEF ToSet
<1>3. ASSUME ~Duplicated(s)
      PROVE  Head(s) \notin ToSet(Tail(s)) /\ ~Duplicated(Tail(s))
  <2>1. \A i, j \in 1 .. Len(s) : s[i] = s[j] => i = j BY <1>3, <1>1 DEF Duplicated
  <2>2. ASSUME NEW i \in DOMAIN Tail(s) PROVE Tail(s)[i] # Head(s)
    <3>1. i + 1 \in 1 .. Len(s) /\ i + 1 # 1 /\ 1 \in 1 .. Len(s) BY <1>1
    <3>2. QED BY <3>1, <2>1, <1>1
  <2>3. ASSUME NEW i \in DOMAIN Tail(s), NEW j \in DOMAIN Tail(s), Tail(s)[i] = Tail(s)[j]
        PROVE  i = j
    <3>1. i + 1 \in 1 .. Len(s) /\ j + 1 \in 1 .. Len(s) /\ i \in Int /\ j \in Int BY <1>1
    <3>2. s[i + 1] = s[j + 1] BY <2>3, <1>1
    <3>3. i + 1 = j + 1 BY <3>1, <3>2, <2>1
    <3>4. QED BY <3>1, <3>3
  <2>4. QED BY <2>2, <2>3 DEF ToSet, Duplicated
<1>4. QED BY <1>1, <1>2, <1>3

\* Appending adds one element.
LEMMA AppendElements ==
  ASSUME NEW S, NEW s \in Seq(S), NEW x \in S
  PROVE  /\ Append(s, x) \in Seq(S) /\ Len(Append(s, x)) = Len(s) + 1
         /\ \A i \in 1 .. Len(s) : Append(s, x)[i] = s[i]
         /\ Append(s, x)[Len(s) + 1] = x
         /\ ToSet(Append(s, x)) = ToSet(s) \cup {x}
<1>1. /\ Append(s, x) \in Seq(S) /\ Len(Append(s, x)) = Len(s) + 1
      /\ \A i \in 1 .. Len(s) : Append(s, x)[i] = s[i]
      /\ Append(s, x)[Len(s) + 1] = x
      /\ DOMAIN s = 1 .. Len(s) /\ DOMAIN Append(s, x) = 1 .. Len(s) + 1 /\ Len(s) \in Nat
  BY LenProperties
<1>2. QED BY <1>1, SMT DEF ToSet

\* A sequence has finitely many elements.
LEMMA FiniteElements ==
  ASSUME NEW S, NEW s \in Seq(S)
  PROVE  IsFiniteSet(ToSet(s))
<1>1. IsFiniteSet(1 .. Len(s)) BY FS_Interval, LenProperties
<1>2. s \in Surjection(1 .. Len(s), ToSet(s))
  BY LenProperties DEF Surjection, ToSet
<1>3. QED BY <1>1, <1>2, FS_Surjection

\* pop(i)
LEMMA RemoveElements ==
  ASSUME NEW S, NEW q \in Seq(S), NEW i \in DOMAIN q, NEW p, p = RemovePosition(q, i)
  PROVE  /\ p \in Seq(S) /\ Len(p) = Len(q) - 1
         /\ \A j \in DOMAIN p : p[j] = q[IF j < i THEN j ELSE j + 1]
         /\ \A j \in DOMAIN p : (IF j < i THEN j ELSE j + 1) \in DOMAIN q \ {i}
<1>1. Len(q) \in Nat \ {0} /\ DOMAIN q = 1 .. Len(q) /\ i \in 1 .. Len(q)
  BY LenProperties, EmptySeq
<1>2. ASSUME NEW j \in 1 .. Len(q) - 1 PROVE (IF j < i THEN j ELSE j + 1) \in 1 .. Len(q) /\ (IF j < i THEN j ELSE j + 1) # i
  BY <1>1
<1>3. \A j \in 1 .. Len(q) - 1 : (IF j < i THEN q[j] ELSE q[j + 1]) = q[IF j < i THEN j ELSE j + 1]
  OBVIOUS
<1>4. \A j \in 1 .. Len(q) - 1 : q[IF j < i THEN j ELSE j + 1] \in S
  BY <1>1, <1>2, ElementOfSeq
<1>5. p \in [1 .. Len(q) - 1 -> S] BY <1>3, <1>4 DEF RemovePosition
<1>6. Len(q) - 1 \in Nat BY <1>1
<1>7. p \in Seq(S) /\ Len(p) = Len(q) - 1 /\ DOMAIN p = 1 .. Len(q) - 1 BY <1>5, <1>6
<1>8. \A j \in DOMAIN p : p[j] = q[IF j < i THEN j ELSE j + 1]
  BY <1>7, <1>3 DEF RemovePosition
<1>9. QED BY <1>1, <1>2, <1>7, <1>8

-----------------------------------------------------------------------------
(* The inductive invariant.                                                *)

IInv == TypeOK /\ Placement /\ InflightExact /\ TerminalDrains /\ OneChunkFirst

\* The initial state satisfies the inductive invariant.
LEMMA InitIInv == Init => IInv
<1> SUFFICES ASSUME Init PROVE IInv OBVIOUS
<1> USE DEF Init, NoAdder, NoBatch
<1>1. TypeOK
  <2>1. [i \in 1 .. MaxRunning |-> i - 1] \in Seq(Slots)
    <3>1. MaxRunning \in Nat BY SizesAssumption
    <3>2. [i \in 1 .. MaxRunning |-> i - 1] \in [1 .. MaxRunning -> Slots]
      BY <3>1 DEF Slots
    <3>3. QED BY <3>1, <3>2
  <2>2. IsFiniteSet(running) BY FS_EmptySet
  <2>3. reqs = <<>> /\ inflight = <<>> /\ inflight \in [DOMAIN inflight -> {1, 2}] OBVIOUS
  <2>4. adder.reqs = <<>> /\ adder.chunked = <<>> /\ batch.reqs = <<>> /\ last.reqs = <<>>
        /\ proc.reqs = <<>>
    OBVIOUS
  <2>5. status \in [Uids -> {"new", "live", "dropped", "aborted", "done"}] OBVIOUS
  <2>6. DOMAIN <<>> = {} OBVIOUS
  <2>7. \A S : <<>> \in Seq(S) OBVIOUS
  <2>8. QED
    <3> HIDE DEF Init
    <3>1. pc = "recv" /\ woken = FALSE /\ pending = <<>> /\ running = {} /\ terminal = {}
          /\ free_table = [i \in 1 .. MaxRunning |-> i - 1]
      BY DEF Init
    <3>2. QED BY <3>1, <2>1, <2>2, <2>3, <2>4, <2>5, <2>6, <2>7 DEF TypeOK
<1>2. Placement
  BY EmptyFacts DEF Placement, QueuePlaced, AdderPlaced, ObjectsPlaced, BatchesPlaced, QueuedUids
<1>3. InflightExact BY EmptyFacts DEF InflightExact
<1>4. TerminalDrains /\ OneChunkFirst BY DEF TerminalDrains, OneChunkFirst
<1>5. QED BY <1>1, <1>2, <1>3, <1>4 DEF IInv

\* A user's message.
LEMMA ReceiveUserStep ==
  ASSUME IInv, NEW u \in Uids, NEW w \in Workload, ReceiveUser(u, w)
  PROVE  IInv'
<1> DEFINE room == MaxSeqLen - Len(w.ids)
           q == [uid |-> u, ids |-> w.ids, out |-> OutputLength(w, room),
                 ignore |-> w.ignore, chunk |-> None]
<1> USE DEF IInv
<1>0. /\ TypeOK /\ Placement /\ InflightExact /\ TerminalDrains /\ OneChunkFirst
      /\ pc = "recv" /\ status[u] = "new" /\ woken' = TRUE
      /\ UNCHANGED <<pc, adder, running, inflight, terminal, batch, last, proc, last_phase,
                     reqs, free_table>>
  BY DEF ReceiveUser, memory
<1>1. CASE ~HasRoom(room)
  <2>1. status' = [status EXCEPT ![u] = "dropped"] /\ pending' = pending
    BY <1>1, WorkloadAssumption, SizesAssumption DEF ReceiveUser
  <2>2. TypeOK' BY <1>0, <2>1 DEF TypeOK
  <2>3. QED
    BY <1>0, <2>1, <2>2 DEF TypeOK, Placement, QueuePlaced, AdderPlaced, ObjectsPlaced,
       BatchesPlaced, QueuedUids, InflightExact, TerminalDrains, OneChunkFirst
<1>2. CASE HasRoom(room)
  <2>1. status' = [status EXCEPT ![u] = "live"] /\ pending' = Append(pending, q)
    BY <1>2, WorkloadAssumption, SizesAssumption DEF ReceiveUser
  <2>2. q \in PendingType
    BY <1>2, WorkloadAssumption, SizesAssumption DEF PendingType, OutputLength, HasRoom
  <2>3. /\ pending' \in Seq(PendingType) /\ Len(pending') = Len(pending) + 1
        /\ DOMAIN pending = 1 .. Len(pending) /\ DOMAIN pending' = 1 .. Len(pending) + 1
        /\ \A i \in 1 .. Len(pending) : pending'[i] = pending[i]
        /\ pending'[Len(pending) + 1] = q
        /\ Len(pending) \in Nat
    BY <1>0, <2>1, <2>2, AppendElements DEF TypeOK
  <2>4. TypeOK' BY <1>0, <2>1, <2>3 DEF TypeOK
  <2>5. QueuePlaced'
    BY <1>0, <2>1, <2>3 DEF TypeOK, Placement, QueuePlaced
  <2>6. AdderPlaced'
    BY <1>0, <2>1, <2>3 DEF TypeOK, Placement, AdderPlaced
  <2>7. QueuedUids' = QueuedUids \cup {u}
    BY <2>3 DEF QueuedUids
  <2>8. ObjectsPlaced'
    BY <1>0, <2>1, <2>7 DEF TypeOK, Placement, ObjectsPlaced
  <2>9. TerminalDrains' /\ OneChunkFirst'
    <3>1. terminal \subseteq Uids \X Nat BY <1>0 DEF TypeOK, Objs
    <3>2. q.chunk = None /\ None \notin terminal BY <3>1, NoneAssumption
    <3>3. \A i \in DOMAIN pending' : pending'[i].chunk = None \/
                 (i \in DOMAIN pending /\ pending'[i] = pending[i])
      BY <2>3, <3>2
    <3>4. TerminalDrains' BY <1>0, <3>2, <3>3 DEF TerminalDrains
    <3>5. OneChunkFirst' BY <1>0, <3>3 DEF OneChunkFirst
    <3>6. QED BY <3>4, <3>5
  <2>10. BatchesPlaced' /\ InflightExact'
    BY <1>0 DEF Placement, BatchesPlaced, InflightExact
  <2>11. QED BY <2>4, <2>5, <2>6, <2>8, <2>9, <2>10 DEF Placement
<1>3. QED BY <1>1, <1>2, WorkloadAssumption, SizesAssumption

\* Withdrawing a uid leaves the other entries of the queue in their order.
LEMMA WithdrawQueue ==
  ASSUME TypeOK, QueuePlaced, NEW u \in Uids, pending' = WithdrawQueued(u)
  PROVE  /\ pending' \in Seq(PendingType)
         /\ \A j \in DOMAIN pending' : \E k \in DOMAIN pending :
              k >= j /\ pending'[j] = pending[k] /\ pending[k].uid # u
         /\ \A i, j \in DOMAIN pending' : pending'[i].uid = pending'[j].uid => i = j
         /\ QueuedUids' = QueuedUids \ {u}
<1> USE DEF TypeOK
<1>0. pending \in Seq(PendingType) /\ DOMAIN pending = 1 .. Len(pending) /\ Len(pending) \in Nat
  BY LenProperties
<1>1. CASE Queued(u) = {}
  <2>1. pending' = pending BY <1>1 DEF WithdrawQueued
  <2>2. \A k \in DOMAIN pending : pending[k].uid # u BY <1>1 DEF Queued
  <2>3. \A i, j \in DOMAIN pending : pending[i].uid = pending[j].uid => i = j
    BY DEF QueuePlaced
  <2>4. \A j \in DOMAIN pending : j >= j BY <1>0
  <2>5. QED BY <1>0, <2>1, <2>2, <2>3, <2>4 DEF QueuedUids
<1>2. CASE Queued(u) # {}
  <2> DEFINE i == CHOOSE i \in Queued(u) : TRUE
             at(j) == IF j < i THEN j ELSE j + 1
  <2>1. i \in DOMAIN pending /\ pending[i].uid = u BY <1>2 DEF Queued
  <2>2. pending' = RemovePosition(pending, i) BY <1>2 DEF WithdrawQueued
  <2> HIDE DEF i
  <2>3. /\ pending' \in Seq(PendingType) /\ Len(pending') = Len(pending) - 1
        /\ \A j \in DOMAIN pending' : pending'[j] = pending[at(j)]
        /\ \A j \in DOMAIN pending' : at(j) \in DOMAIN pending \ {i}
    BY <1>0, <2>1, <2>2, RemoveElements
  <2>4. DOMAIN pending' = 1 .. Len(pending) - 1 BY <2>3, LenProperties
  <2>5. \A k \in DOMAIN pending \ {i} : pending[k].uid # u BY <2>1 DEF QueuePlaced
  <2>6. \A j \in DOMAIN pending' : at(j) >= j BY <1>0, <2>1, <2>4
  <2>7. \A j, k \in DOMAIN pending' : at(j) = at(k) => j = k BY <1>0, <2>1, <2>4
  <2>8. ASSUME NEW j \in DOMAIN pending', NEW k \in DOMAIN pending', pending'[j].uid = pending'[k].uid
        PROVE  j = k
    <3>1. pending[at(j)].uid = pending[at(k)].uid /\ at(j) \in DOMAIN pending /\ at(k) \in DOMAIN pending
      BY <2>3, <2>8
    <3>2. at(j) = at(k) BY <3>1 DEF QueuePlaced
    <3>3. QED BY <3>2, <2>7
  <2>9. ASSUME NEW k \in DOMAIN pending, k # i PROVE \E j \in DOMAIN pending' : at(j) = k
    <3>1. CASE k < i
      <4>1. k \in DOMAIN pending' /\ at(k) = k BY <3>1, <1>0, <2>1, <2>4
      <4>2. QED BY <4>1
    <3>2. CASE k > i
      <4>1. k - 1 \in DOMAIN pending' /\ at(k - 1) = k BY <3>2, <1>0, <2>1, <2>4
      <4>2. QED BY <4>1
    <3>3. QED BY <3>1, <3>2, <2>9, <1>0, <2>1
  <2>10. QueuedUids' = QueuedUids \ {u}
    <3>1. ASSUME NEW j \in DOMAIN pending' PROVE pending'[j].uid \in QueuedUids \ {u}
      BY <2>3, <2>5 DEF QueuedUids
    <3>2. ASSUME NEW k \in DOMAIN pending, pending[k].uid # u
          PROVE  pending[k].uid \in QueuedUids'
      <4>1. k # i BY <2>1, <3>2
      <4>2. PICK j \in DOMAIN pending' : at(j) = k BY <2>9, <4>1
      <4>3. pending'[j] = pending[k] BY <2>3, <4>2
      <4>4. QED BY <4>3 DEF QueuedUids
    <3>3. QueuedUids' \subseteq QueuedUids \ {u} BY <3>1 DEF QueuedUids
    <3>4. QueuedUids \ {u} \subseteq QueuedUids' BY <3>2 DEF QueuedUids
    <3>5. QED BY <3>3, <3>4
  <2>11. \A j \in DOMAIN pending' : \E k \in DOMAIN pending :
           k >= j /\ pending'[j] = pending[k] /\ pending[k].uid # u
    BY <2>3, <2>5, <2>6
  <2>12. QED BY <2>3, <2>8, <2>10, <2>11
<1>3. QED BY <1>1, <1>2

\* Any abort: the target goes from the queue and from the running requests, and
\* is then either marked (in flight) or gone (not in flight).
LEMMA WithdrawStep ==
  ASSUME IInv, NEW u \in Uids, pc = "recv", Withdraw(u), NEW gone,
         gone \subseteq AbortTarget(u) \ DOMAIN inflight,
         DOMAIN reqs' = DOMAIN reqs \ gone, \A o \in DOMAIN reqs' : reqs'[o] = reqs[o],
         terminal' \subseteq (terminal \cup (AbortTarget(u) \cap DOMAIN inflight)) \ gone,
         free_table' \in Seq(Slots),
         UNCHANGED <<pc, adder, inflight, batch, last, proc>>
  PROVE  IInv'
<1>0. /\ TypeOK /\ QueuePlaced /\ AdderPlaced /\ ObjectsPlaced /\ BatchesPlaced
      /\ InflightExact /\ TerminalDrains /\ OneChunkFirst
  BY DEF IInv, Placement
<1>1. /\ pending' \in Seq(PendingType)
      /\ \A j \in DOMAIN pending' : \E k \in DOMAIN pending :
           k >= j /\ pending'[j] = pending[k] /\ pending[k].uid # u
      /\ \A i, j \in DOMAIN pending' : pending'[i].uid = pending'[j].uid => i = j
      /\ QueuedUids' = QueuedUids \ {u}
  BY <1>0, WithdrawQueue DEF Withdraw
<1>2. \A o \in AbortTarget(u) : o[1] = u
  BY <1>0 DEF AbortTarget, ChunkOf, Queued, RunningOf, InflightOf, QueuePlaced
<1>3. running' \subseteq running /\ \A o \in running' : o[1] # u
  <2>1. CASE ChunkOf(u) = {} BY <2>1 DEF Withdraw, RunningOf
  <2>2. CASE ChunkOf(u) # {}
    <3>1. u \in QueuedUids BY <2>2 DEF ChunkOf, Queued, QueuedUids
    <3>2. \A o \in running : o[1] # u BY <1>0, <3>1 DEF ObjectsPlaced
    <3>3. QED BY <2>2, <3>2 DEF Withdraw
  <2>3. QED BY <2>1, <2>2
<1>4. \A v \in Uids : status[v] # "new" => status'[v] # "new"
  BY <1>0 DEF Withdraw, TypeOK
<1>5. adder.reqs = <<>> /\ adder.chunked = <<>> /\ batch.reqs = <<>> /\ proc.reqs = <<>>
  BY <1>0 DEF AdderPlaced, BatchesPlaced
<1>6. TypeOK'
  <2>1. IsFiniteSet(running') BY <1>0, <1>3, FS_Subset DEF TypeOK
  <2>2. running' \subseteq DOMAIN reqs' BY <1>0, <1>2, <1>3 DEF TypeOK
  <2>3. woken' \in BOOLEAN /\ status' \in [Uids -> {"new", "live", "dropped", "aborted", "done"}]
    BY <1>0 DEF Withdraw, TypeOK
  <2>4. terminal' \subseteq DOMAIN reqs' BY <1>0 DEF TypeOK
  <2>5. QED BY <1>0, <1>1, <2>1, <2>2, <2>3, <2>4 DEF TypeOK
<1>7. QueuePlaced'
  <2>1. ASSUME NEW j \in DOMAIN pending'
        PROVE  /\ status'[pending'[j].uid] # "new"
               /\ pending'[j].chunk # None =>
                    pending'[j].chunk \in DOMAIN reqs' /\ pending'[j].chunk[1] = pending'[j].uid
    <3>1. PICK k \in DOMAIN pending : pending'[j] = pending[k] /\ pending[k].uid # u
      BY <1>1
    <3>2. pending[k].uid \in Uids
      <4>1. pending[k] \in PendingType BY <1>0, ElementOfSeq, LenProperties DEF TypeOK
      <4>2. QED BY <4>1 DEF PendingType
    <3>3. QED BY <1>0, <1>2, <1>4, <3>1, <3>2 DEF QueuePlaced
  <2>2. QED BY <1>1, <2>1 DEF QueuePlaced
<1>8. AdderPlaced'
  <2>1. Len(pending') \in Nat BY <1>1, LenProperties
  <2>2. QED BY <1>0, <1>5, <2>1 DEF AdderPlaced
<1>9. ObjectsPlaced'
  <2>1. \A o \in DOMAIN reqs' : o[1] \in Uids BY <1>0 DEF TypeOK, Objs
  <2>2. \A o \in running' \cup terminal' : o[1] \notin QueuedUids'
    BY <1>0, <1>1, <1>2, <1>3 DEF ObjectsPlaced
  <2>3. QED BY <1>0, <1>1, <1>4, <2>1, <2>2 DEF ObjectsPlaced
<1>10. BatchesPlaced' /\ InflightExact'
  BY <1>0, <1>5, EmptyFacts DEF BatchesPlaced, InflightExact
<1>11. TerminalDrains'
  <2>1. ASSUME NEW o \in terminal', NEW j \in DOMAIN pending' PROVE pending'[j].chunk # o
    <3>1. PICK k \in DOMAIN pending : pending'[j] = pending[k] /\ pending[k].uid # u
      BY <1>1
    <3>2. CASE o \in terminal BY <1>0, <3>1, <3>2 DEF TerminalDrains
    <3>3. CASE o \in AbortTarget(u)
      <4>1. o \in Objs BY <1>0 DEF TypeOK
      <4>2. o # None BY <4>1, NoneAssumption DEF Objs
      <4>3. QED BY <1>0, <1>2, <3>1, <3>3, <4>2 DEF QueuePlaced
    <3>4. QED BY <3>2, <3>3
  <2>2. \A o \in terminal' : o \in DOMAIN inflight' /\ o \notin running'
    BY <1>0, <1>2, <1>3 DEF TerminalDrains
  <2>3. QED BY <2>1, <2>2 DEF TerminalDrains
<1>12. OneChunkFirst'
  <2>1. ASSUME NEW j \in DOMAIN pending', pending'[j].chunk # None PROVE j = 1
    <3>1. PICK k \in DOMAIN pending : k >= j /\ pending'[j] = pending[k] BY <1>1
    <3>2. k = 1 BY <1>0, <2>1, <3>1 DEF OneChunkFirst
    <3>3. j \in 1 .. Len(pending') BY <1>1, LenProperties
    <3>4. QED BY <3>1, <3>2, <3>3
  <2>2. QED BY <2>1 DEF OneChunkFirst
<1>13. QED BY <1>6, <1>7, <1>8, <1>9, <1>10, <1>11, <1>12 DEF IInv, Placement

\* An abort that finds nothing, something in flight, something to release.
LEMMA ReceiveAbortStep ==
  ASSUME IInv, NEW u \in Uids, ReceiveAbort(u)
  PROVE  IInv'
<1>0. TypeOK BY DEF IInv
<1>1. CASE AbortNothing(u)
  <2>1. /\ pc = "recv" /\ Withdraw(u)
        /\ UNCHANGED <<pc, adder, inflight, terminal, batch, last, proc, reqs, free_table>>
    BY <1>1 DEF AbortNothing, memory
  <2>2. {} \subseteq AbortTarget(u) \ DOMAIN inflight /\ DOMAIN reqs' = DOMAIN reqs \ {}
        /\ terminal' \subseteq (terminal \cup (AbortTarget(u) \cap DOMAIN inflight)) \ {}
        /\ free_table' \in Seq(Slots) /\ \A o \in DOMAIN reqs' : reqs'[o] = reqs[o]
    BY <1>0, <2>1 DEF TypeOK
  <2>3. QED BY <2>1, <2>2, WithdrawStep
<1>2. CASE AbortInflight(u)
  <2>1. /\ pc = "recv" /\ Withdraw(u)
        /\ UNCHANGED <<pc, adder, inflight, batch, last, proc, reqs, free_table>>
    BY <1>2 DEF AbortInflight, memory
  <2>2. {} \subseteq AbortTarget(u) \ DOMAIN inflight /\ DOMAIN reqs' = DOMAIN reqs \ {}
        /\ terminal' \subseteq (terminal \cup (AbortTarget(u) \cap DOMAIN inflight)) \ {}
        /\ free_table' \in Seq(Slots) /\ \A o \in DOMAIN reqs' : reqs'[o] = reqs[o]
    BY <1>0, <1>2, <2>1 DEF TypeOK, AbortInflight
  <2>3. QED BY <2>1, <2>2, WithdrawStep
<1>3. CASE AbortNow(u)
  <2>1. /\ pc = "recv" /\ Withdraw(u)
        /\ UNCHANGED <<pc, adder, inflight, batch, last, proc>>
    BY <1>3 DEF AbortNow
  <2>2. PICK o \in AbortTarget(u) \ DOMAIN inflight :
          /\ FreeReqResources(o, reqs[o], FALSE)
          /\ reqs' = Restrict(reqs, DOMAIN reqs \ {o}) /\ terminal' = terminal \ {o}
    BY <1>3 DEF AbortNow
  <2>3. o \in DOMAIN reqs
    <3>1. \A i \in DOMAIN pending : pending[i].chunk # None => pending[i].chunk \in DOMAIN reqs
      BY DEF IInv, Placement, QueuePlaced
    <3>2. ChunkOf(u) \subseteq DOMAIN reqs BY <3>1 DEF ChunkOf, Queued
    <3>3. QED BY <1>0, <3>2 DEF AbortTarget, RunningOf, InflightOf, TypeOK
  <2>4. free_table' \in Seq(Slots)
    <3>1. reqs[o].slot \in Slots BY <1>0, <2>3 DEF TypeOK
    <3>2. free_table \in Seq(Slots) BY <1>0 DEF TypeOK
    <3>3. QED BY <2>2, <3>1, <3>2, AppendElements DEF FreeReqResources
  <2>5. /\ {o} \subseteq AbortTarget(u) \ DOMAIN inflight
        /\ DOMAIN reqs' = DOMAIN reqs \ {o} /\ \A p \in DOMAIN reqs' : reqs'[p] = reqs[p]
        /\ terminal' \subseteq (terminal \cup (AbortTarget(u) \cap DOMAIN inflight)) \ {o}
    BY <2>2 DEF Restrict
  <2>6. QED BY <2>1, <2>4, <2>5, WithdrawStep
<1>4. QED BY <1>1, <1>2, <1>3 DEF ReceiveAbort

-----------------------------------------------------------------------------
(* Selection and admission.                                                *)

\* A decode batch is made of distinct running requests.
LEMMA DecodeBatchFacts ==
  ASSUME TypeOK, NEW b \in DecodeBatches
  PROVE  b.reqs \in Seq(Objs) /\ ~Duplicated(b.reqs) /\ ToSet(b.reqs) \subseteq running
<1>1. Cardinality(running) \in Nat BY FS_CardinalityType DEF TypeOK
<1>2. /\ b.reqs \in [1 .. Cardinality(running) -> running]
      /\ \A i, j \in DOMAIN b.reqs : i < j => b.reqs[i][1] < b.reqs[j][1]
  BY DEF DecodeBatches
<1>3. running \subseteq Objs BY DEF TypeOK
<1>4. b.reqs \in Seq(Objs) BY <1>1, <1>2, <1>3
<1>5. ASSUME NEW i \in DOMAIN b.reqs, NEW j \in DOMAIN b.reqs, b.reqs[i] = b.reqs[j]
      PROVE  i = j
  <2>1. i \in Nat /\ j \in Nat BY <1>1, <1>2
  <2>2. b.reqs[i][1] \in Nat
    <3>1. b.reqs[i] \in Objs BY <1>2, <1>3
    <3>2. QED BY <3>1, UidsAssumption DEF Objs
  <2>3. QED BY <1>2, <1>5, <2>1, <2>2
<1>6. ~Duplicated(b.reqs) BY <1>5 DEF Duplicated
<1>7. ToSet(b.reqs) \subseteq running BY <1>2 DEF ToSet
<1>8. QED BY <1>4, <1>6, <1>7

\* A batch of live objects is selected, from the queue's state or after it.
LEMMA SelectStep ==
  ASSUME IInv, pc \in {"recv", "admit"}, NEW b, Select(b),
         b.reqs \in Seq(Objs), ~Duplicated(b.reqs), ToSet(b.reqs) \subseteq DOMAIN reqs \ terminal,
         adder'.reqs = <<>>, adder'.chunked = <<>>,
         pending' \in Seq(PendingType), QueuePlaced', ObjectsPlaced', TerminalDrains', OneChunkFirst',
         UNCHANGED <<woken, reqs, running, inflight, terminal, last, proc, free_table, status>>
  PROVE  IInv'
<1>0. /\ TypeOK /\ BatchesPlaced /\ InflightExact BY DEF IInv, Placement
<1>1. pc' = "forward" /\ batch' = b BY DEF Select
<1>2. TypeOK' BY <1>0, <1>1, EmptySeq DEF TypeOK
<1>3. AdderPlaced'
  <2>1. Len(pending') \in Nat BY LenProperties
  <2>2. QED BY <1>1, <2>1 DEF AdderPlaced
<1>4. BatchesPlaced' BY <1>0, <1>1 DEF BatchesPlaced
<1>5. InflightExact' BY <1>0 DEF InflightExact
<1>6. QED BY <1>2, <1>3, <1>4, <1>5 DEF IInv, Placement

\* The actions that only choose a batch.
LEMMA SelectionStep ==
  ASSUME IInv, SelectDecode \/ SelectNothing
  PROVE  IInv'
<1>0. /\ TypeOK /\ Placement /\ TerminalDrains /\ OneChunkFirst BY DEF IInv
<1>1. /\ pc = "recv"
      /\ UNCHANGED <<woken, pending, adder, running, inflight, terminal, last, proc, memory, history>>
  BY DEF SelectDecode, SelectNothing, StartSelection
<1>2. UNCHANGED <<reqs, free_table, status>> BY <1>1 DEF memory, history
<1>3. adder'.reqs = <<>> /\ adder'.chunked = <<>> /\ pending' \in Seq(PendingType)
  BY <1>0, <1>1 DEF Placement, AdderPlaced, TypeOK
<1>4. QueuePlaced' /\ ObjectsPlaced' /\ TerminalDrains' /\ OneChunkFirst'
  BY <1>0, <1>1, <1>2 DEF Placement, QueuePlaced, ObjectsPlaced, QueuedUids, TerminalDrains, OneChunkFirst
<1>5. CASE SelectDecode
  <2>1. PICK b \in DecodeBatches : Select(b) BY <1>5 DEF SelectDecode
  <2>2. b.reqs \in Seq(Objs) /\ ~Duplicated(b.reqs) /\ ToSet(b.reqs) \subseteq running
    BY <1>0, DecodeBatchFacts
  <2>3. ToSet(b.reqs) \subseteq DOMAIN reqs \ terminal
    BY <1>0, <2>2 DEF TypeOK, TerminalDrains
  <2>4. QED BY <1>1, <1>2, <1>3, <1>4, <2>1, <2>2, <2>3, SelectStep
<1>6. CASE SelectNothing
  <2>1. Select(NoBatch) BY <1>6 DEF SelectNothing
  <2>2. NoBatch.reqs = <<>> BY DEF NoBatch
  <2>3. NoBatch.reqs \in Seq(Objs) /\ ~Duplicated(NoBatch.reqs)
        /\ ToSet(NoBatch.reqs) \subseteq DOMAIN reqs \ terminal
    BY <2>2, EmptyFacts, EmptySeq
  <2>4. QED BY <1>1, <1>2, <1>3, <1>4, <2>1, <2>3, SelectStep
<1>7. QED BY <1>5, <1>6

\* The loop over the queue begins.
LEMMA StartPrefillStep ==
  ASSUME IInv, StartPrefill
  PROVE  IInv'
<1>0. /\ TypeOK /\ Placement /\ InflightExact /\ TerminalDrains /\ OneChunkFirst BY DEF IInv
<1>1. /\ pc = "recv" /\ pc' = "admit"
      /\ adder'.budget = Budget /\ adder'.reqs = <<>> /\ adder'.chunked = <<>>
      /\ UNCHANGED <<woken, pending, running, inflight, terminal, batch, last, proc, reqs,
                     free_table, status>>
  BY DEF StartPrefill, StartSelection, memory, history
<1>2. TypeOK' BY <1>0, <1>1, EmptySeq DEF TypeOK
<1>3. QueuePlaced' BY <1>0, <1>1 DEF Placement, QueuePlaced
<1>4. AdderPlaced'
  <2>1. Len(pending) \in Nat BY <1>0, LenProperties DEF TypeOK
  <2>2. QED BY <1>1, <2>1, SizesAssumption DEF AdderPlaced
<1>5. ObjectsPlaced'
  BY <1>0, <1>1 DEF Placement, ObjectsPlaced, AdderPlaced, QueuedUids
<1>6. BatchesPlaced' BY <1>0, <1>1 DEF Placement, BatchesPlaced
<1>7. InflightExact' /\ TerminalDrains' /\ OneChunkFirst'
  BY <1>0, <1>1 DEF InflightExact, TerminalDrains, OneChunkFirst
<1>8. QED BY <1>2, <1>3, <1>4, <1>5, <1>6, <1>7 DEF IInv, Placement

\* _add_one_req, whatever part of the prompt it takes.
LEMMA AddOneReqStep ==
  ASSUME IInv, pc = "admit", HasCandidate, NEW n \in Nat, NEW slot \in Slots, NEW handle,
         NEW cached \in Int, NEW row,
         AddOneReq(Candidate, <<Candidate.uid, n>>, slot, handle, cached, row),
         free_table' \in Seq(Slots),
         UNCHANGED <<pc, woken, pending, running, inflight, terminal, batch, last, proc, status>>
  PROVE  IInv'
<1> DEFINE k      == Len(adder.reqs) + 1
           q      == Candidate
           id     == <<q.uid, n>>
           remain == Len(q.ids) - cached
           chunk  == IF adder.budget < remain THEN adder.budget ELSE remain
           class  == IF chunk < remain THEN "ChunkedReq" ELSE "Req"
           new    == [slot |-> slot, cached |-> cached, device |-> cached + chunk,
                      max |-> cached + chunk + q.out, host |-> SubSeq(q.ids, 1, cached + chunk),
                      handle |-> handle, class |-> class, ignore |-> q.ignore]
<1>0. /\ TypeOK /\ QueuePlaced /\ AdderPlaced /\ ObjectsPlaced /\ BatchesPlaced
      /\ InflightExact /\ TerminalDrains /\ OneChunkFirst
  BY DEF IInv, Placement
<1>1. /\ k \in DOMAIN pending /\ Len(adder.reqs) \in Nat /\ q = pending[k] /\ q \in PendingType
      /\ adder.budget \in Nat \ {0} /\ DOMAIN pending = 1 .. Len(pending)
      /\ DOMAIN adder.reqs = 1 .. Len(adder.reqs)
  <2>1. pending \in Seq(PendingType) /\ adder.reqs \in Seq(Objs) BY <1>0 DEF TypeOK
  <2>2. adder.budget \in Nat BY <1>0 DEF AdderPlaced
  <2>3. k \in 1 .. Len(pending) /\ adder.budget > 0
    BY <2>1, LenProperties DEF HasCandidate
  <2>4. q = pending[k] BY DEF Candidate
  <2>5. QED BY <2>1, <2>2, <2>3, <2>4, LenProperties, ElementOfSeq
<1>2. q.uid \in Uids /\ q.uid \in QueuedUids /\ Len(q.ids) \in Nat /\ id \in Objs
  BY <1>1, LenProperties DEF PendingType, QueuedUids, Objs
<1>3. chunk \in Int /\ chunk <= adder.budget /\ (class = "ChunkedReq" => chunk = adder.budget)
  BY <1>1, <1>2
<1>4. /\ DOMAIN reqs' = DOMAIN reqs \cup {id} /\ reqs'[id] = new
      /\ \A o \in DOMAIN reqs : o # id => reqs'[o] = reqs[o]
      /\ adder'.budget = adder.budget - chunk
      /\ adder'.reqs = Append(adder.reqs, id)
      /\ adder'.chunked = IF class = "ChunkedReq"
                          THEN Append(adder.chunked, [q EXCEPT !.chunk = id]) ELSE adder.chunked
  BY DEF AddOneReq
<1> HIDE DEF q, remain, chunk, class
<1>5. IsReq(new) /\ new.slot = slot /\ new.cached = cached /\ new.device = cached + chunk /\ new.class = class
  BY DEF IsReq, ReqFields
<1>6. class \in {"Req", "ChunkedReq"} BY DEF class
<1>7. /\ adder'.reqs \in Seq(Objs) /\ Len(adder'.reqs) = k
      /\ \A i \in 1 .. Len(adder.reqs) : adder'.reqs[i] = adder.reqs[i]
      /\ adder'.reqs[k] = id
      /\ ToSet(adder'.reqs) = ToSet(adder.reqs) \cup {id}
  <2>1. adder.reqs \in Seq(Objs) BY <1>0 DEF TypeOK
  <2>2. adder'.reqs = Append(adder.reqs, id) /\ id \in Objs BY <1>2, <1>4
  <2> HIDE DEF id
  <2>3. QED BY <2>1, <2>2, AppendElements
<1>8. adder.chunked = <<>>
  <2>1. adder.chunked \in Seq(PendingType) BY <1>0 DEF TypeOK
  <2>2. Len(adder.chunked) <= 1 /\ Len(adder.chunked) # 1 BY <1>0, <1>1 DEF AdderPlaced
  <2>3. Len(adder.chunked) \in Nat BY <2>1, LenProperties
  <2>4. \A l \in Nat : l <= 1 /\ l # 1 => l = 0 OBVIOUS
  <2>5. Len(adder.chunked) = 0 BY <2>2, <2>3, <2>4
  <2>6. QED BY <2>1, <2>5, EmptySeq
<1>9. /\ adder'.chunked \in Seq(PendingType) /\ Len(adder'.chunked) <= 1
      /\ Len(adder'.chunked) = 1 => class = "ChunkedReq"
      /\ \A i \in DOMAIN adder'.chunked :
           class = "ChunkedReq" /\ adder'.chunked[i].chunk = id /\ adder'.chunked[i].uid = q.uid
  <2> DEFINE e == [q EXCEPT !.chunk = id]
  <2>1. e \in PendingType /\ e.chunk = id /\ e.uid = q.uid BY <1>1, <1>2 DEF PendingType
  <2> HIDE DEF e
  <2>2. CASE class = "ChunkedReq"
    <3>1. adder'.chunked = Append(<<>>, e) BY <1>4, <1>8, <2>2 DEF e
    <3>2. <<>> \in Seq(PendingType) /\ Len(<<>>) = 0 BY EmptySeq
    <3>3. adder'.chunked \in Seq(PendingType) /\ Len(adder'.chunked) = 1 /\ adder'.chunked[1] = e
      BY <2>1, <3>1, <3>2, AppendElements
    <3>4. DOMAIN adder'.chunked = 1 .. 1 BY <3>3, LenProperties
    <3>5. QED BY <2>1, <2>2, <3>3, <3>4
  <2>3. CASE class = "Req"
    <3>1. adder'.chunked = <<>> BY <1>4, <1>8, <2>3
    <3>2. QED BY <3>1, EmptySeq
  <2>4. QED BY <2>2, <2>3, <1>6
<1>10. TypeOK'
  <2>1. ASSUME NEW o \in DOMAIN reqs'
        PROVE  /\ o \in Objs
               /\ reqs'[o].slot \in Slots /\ reqs'[o].class \in {"Req", "ChunkedReq"}
               /\ reqs'[o].cached \in Int /\ reqs'[o].device \in Int
    <3>1. CASE o = id BY <3>1, <1>2, <1>3, <1>4, <1>5, <1>6
    <3>2. CASE o # id BY <3>2, <1>0, <1>4 DEF TypeOK
    <3>3. QED BY <3>1, <3>2
  <2>2. running' \subseteq DOMAIN reqs' /\ terminal' \subseteq DOMAIN reqs'
        /\ DOMAIN inflight' \subseteq DOMAIN reqs'
    BY <1>0, <1>4 DEF TypeOK
  <2>3. QED BY <1>0, <1>7, <1>9, <2>1, <2>2 DEF TypeOK
<1>11. QueuePlaced' BY <1>0, <1>4 DEF QueuePlaced
<1>12. AdderPlaced'
  <2>1. adder'.budget \in Nat BY <1>1, <1>3, <1>4
  <2>2. Len(adder'.reqs) <= Len(pending') BY <1>1, <1>7
  <2>3. ASSUME NEW i \in DOMAIN adder'.reqs
        PROVE  adder'.reqs[i] \in DOMAIN reqs' /\ adder'.reqs[i][1] = pending'[i].uid
    <3>1. i \in 1 .. Len(adder.reqs) \/ i = k BY <1>1, <1>7, LenProperties
    <3>2. CASE i \in 1 .. Len(adder.reqs) BY <3>2, <1>0, <1>1, <1>4, <1>7 DEF AdderPlaced
    <3>3. CASE i = k BY <3>3, <1>1, <1>4, <1>7
    <3>4. QED BY <3>1, <3>2, <3>3
  <2>4. Len(adder'.chunked) = 1 => adder'.budget = 0
    BY <1>1, <1>3, <1>4, <1>9
  <2>5. ASSUME NEW i \in DOMAIN adder'.chunked
        PROVE  LET c == adder'.chunked[i]
               IN  /\ c.chunk \in ToSet(adder'.reqs) /\ c.chunk[1] = c.uid
                   /\ reqs'[c.chunk].class = "ChunkedReq"
    <3>1. class = "ChunkedReq" /\ adder'.chunked[i].chunk = id /\ adder'.chunked[i].uid = q.uid
      BY <1>9
    <3>2. id \in ToSet(adder'.reqs) /\ id[1] = q.uid BY <1>7
    <3>3. reqs'[id].class = class BY <1>4, <1>5
    <3> HIDE DEF id, new
    <3>4. QED BY <3>1, <3>2, <3>3
  <2>6. QED BY <1>9, <2>1, <2>2, <2>3, <2>4, <2>5 DEF AdderPlaced
<1>13. ObjectsPlaced'
  <2>1. QueuedUids' = QueuedUids BY DEF QueuedUids
  <2>2. ASSUME NEW o \in DOMAIN reqs'
        PROVE  /\ status'[o[1]] # "new" /\ IsReq(reqs'[o])
               /\ reqs'[o].class = "Req" => o \in ToSet(adder'.reqs) \/ o[1] \notin QueuedUids
    <3>1. CASE o = id
      <4>1. status[q.uid] # "new" BY <1>0, <1>1 DEF QueuePlaced
      <4>2. QED BY <3>1, <4>1, <1>4, <1>5, <1>7
    <3>2. CASE o # id BY <3>2, <1>0, <1>4, <1>7 DEF ObjectsPlaced
    <3>3. QED BY <3>1, <3>2
  <2>3. QED BY <1>0, <2>1, <2>2 DEF ObjectsPlaced
<1>14. BatchesPlaced'
  BY <1>0, EmptyFacts DEF BatchesPlaced
<1>15. InflightExact' /\ TerminalDrains' /\ OneChunkFirst'
  BY <1>0 DEF InflightExact, TerminalDrains, OneChunkFirst
<1>16. QED BY <1>10, <1>11, <1>12, <1>13, <1>14, <1>15 DEF IInv, Placement

\* Division of natural numbers.
LEMMA DivNat ==
  ASSUME NEW a \in Nat, NEW b \in Nat \ {0}
  PROVE  a \div b \in Nat /\ (a \div b) * b <= a
OBVIOUS

\* The key made of a token sequence: its whole pages.
LEMMA ChunksType ==
  ASSUME NEW ids \in Seq(Tokens)
  PROVE  /\ Chunks(ids) \in Seq(Seq(Tokens))
         /\ Len(Chunks(ids)) \in Nat /\ Len(Chunks(ids)) * PageSize <= Len(ids)
<1> DEFINE n == Len(ids) \div PageSize
<1>1. Len(ids) \in Nat /\ PageSize \in Nat \ {0} BY LenProperties, PagesAssumption
<1>2. n \in Nat /\ n * PageSize <= Len(ids) BY <1>1, DivNat
<1> HIDE DEF n
<1>3. ASSUME NEW i \in 1 .. n
      PROVE  SubSeq(ids, (i - 1) * PageSize + 1, i * PageSize) \in Seq(Tokens)
  <2>1. (i - 1) * PageSize + 1 \in Int /\ i * PageSize \in Int /\ (i - 1) * PageSize >= 0
    BY <1>1, <1>2
  <2>2. i * PageSize <= n * PageSize BY <1>1, <1>2
  <2>3. \A j \in (i - 1) * PageSize + 1 .. i * PageSize : j \in 1 .. Len(ids)
    BY <1>1, <1>2, <2>1, <2>2
  <2>4. \A j \in (i - 1) * PageSize + 1 .. i * PageSize : ids[j] \in Tokens
    BY <2>3, ElementOfSeq
  <2>5. QED BY <2>1, <2>4, SubSeqProperties
<1>4. Chunks(ids) \in [1 .. n -> Seq(Tokens)] BY <1>3 DEF Chunks, n
<1>5. Chunks(ids) \in Seq(Seq(Tokens)) /\ Len(Chunks(ids)) = n BY <1>2, <1>4
<1>6. QED BY <1>2, <1>5

\* The length matched for a prompt: a number of whole pages short of its end.
THEOREM MatchLength ==
  ASSUME NEW ids \in Seq(Tokens) \ {<<>>}, NEW c
  PROVE  /\ Len(MatchReq(c, ids).node) \in Nat
         /\ Len(MatchReq(c, ids).node) * PageSize \in Nat
         /\ Len(MatchReq(c, ids).node) * PageSize < Len(ids)
<1> DEFINE part == SubSeq(ids, 1, Len(ids) - 1)
           key  == Chunks(part)
           node == MatchReq(c, ids).node
<1>1. Len(ids) \in Nat \ {0} BY EmptySeq
<1>2. \A i \in 1 .. Len(ids) - 1 : ids[i] \in Tokens BY <1>1, ElementOfSeq
<1>3. part \in Seq(Tokens) /\ Len(part) = Len(ids) - 1
  <2>1. 1 \in Int /\ Len(ids) - 1 \in Int BY <1>1
  <2>2. part \in Seq(Tokens) /\ Len(part) = IF 1 <= Len(ids) - 1 THEN Len(ids) - 1 - 1 + 1 ELSE 0
    BY <1>2, <2>1, SubSeqProperties
  <2>3. \A l \in Nat \ {0} : (IF 1 <= l - 1 THEN l - 1 - 1 + 1 ELSE 0) = l - 1 OBVIOUS
  <2> HIDE DEF part
  <2>4. QED BY <1>1, <2>2, <2>3
<1> HIDE DEF part
<1>4. key \in Seq(Seq(Tokens)) /\ Len(key) \in Nat /\ Len(key) * PageSize <= Len(ids) - 1
  BY <1>3, ChunksType
<1>5. node = MatchPrefix(c.tree, key).node BY DEF MatchReq, part
<1> HIDE DEF key, node
<1>6. Len(node) \in 0 .. Len(key)
  <2>1. CASE CacheType = "naive"
    <3>1. node = <<>> BY <1>5, <2>1 DEF MatchPrefix
    <3>2. QED BY <3>1, <1>4, EmptySeq
  <2>2. CASE CacheType # "naive"
    <3>1. node = TreeWalk(c.tree, key).node BY <1>5, <2>2 DEF MatchPrefix
    <3>2. QED BY <3>1, <1>4, TreeWalkNode
  <2>3. QED BY <2>1, <2>2
<1>7. PageSize \in Nat \ {0} BY PagesAssumption
<1>8. /\ Len(node) \in Nat
      /\ Len(node) * PageSize \in Nat /\ Len(node) * PageSize <= Len(key) * PageSize
  <2>1. Len(node) \in Nat /\ Len(node) <= Len(key) BY <1>4, <1>6
  <2>2. \A a, b, d \in Nat : a <= b => a * d \in Nat /\ b * d \in Nat /\ a * d <= b * d
    OBVIOUS
  <2>3. QED BY <1>4, <1>7, <2>1, <2>2
<1>9. Len(node) * PageSize < Len(ids) BY <1>1, <1>4, <1>7, <1>8
<1>10. QED BY <1>8, <1>9 DEF node

\* Taking the next chunk or a new request.
LEMMA AdmitStep ==
  ASSUME IInv, AdmitChunk \/ AdmitNew
  PROVE  IInv'
<1>0. TypeOK /\ QueuePlaced BY DEF IInv, Placement
<1> DEFINE q == Candidate
<1>1. pc = "admit" /\ HasCandidate BY DEF AdmitChunk, AdmitNew
<1>2. q \in PendingType /\ \E i \in DOMAIN pending : q = pending[i]
  <2>1. pending \in Seq(PendingType) /\ adder.reqs \in Seq(Objs) BY <1>0 DEF TypeOK
  <2>2. Len(adder.reqs) + 1 \in 1 .. Len(pending) BY <1>1, <2>1, LenProperties DEF HasCandidate
  <2>3. QED BY <2>1, <2>2, ElementOfSeq, LenProperties DEF Candidate
<1>3. CASE AdmitChunk
  <2> DEFINE r == reqs[q.chunk]
  <2>1. /\ q.chunk # None
        /\ AddOneReq(q, <<q.uid, q.chunk[2] + 1>>, r.slot, r.handle, r.cached,
                     SubSeq(token_pool[r.slot], 1, r.cached))
        /\ UNCHANGED <<pc, woken, pending, running, inflight, terminal, batch, last, proc,
                       free_table, status>>
    BY <1>3 DEF AdmitChunk, history
  <2>2. q.chunk \in Objs /\ q.chunk \in DOMAIN reqs
    BY <1>0, <1>2, <2>1 DEF QueuePlaced, TypeOK
  <2>3. q.chunk[2] + 1 \in Nat BY <2>2 DEF Objs
  <2>4. r.slot \in Slots /\ r.cached \in Int BY <1>0, <2>2 DEF TypeOK
  <2>5. free_table' \in Seq(Slots) BY <1>0, <2>1 DEF TypeOK
  <2>6. QED BY <1>1, <2>1, <2>3, <2>4, <2>5, AddOneReqStep
<1>4. CASE AdmitNew
  <2> DEFINE node   == MatchReq(cm, q.ids).node
             cached == Len(node) * PageSize
             slot   == free_table[Len(free_table)]
  <2>1. /\ free_table # <<>> /\ free_table' = SubSeq(free_table, 1, Len(free_table) - 1)
        /\ AddOneReq(q, <<q.uid, 0>>, slot, node, cached, SubSeq(q.ids, 1, cached))
        /\ UNCHANGED <<pc, woken, pending, running, inflight, terminal, batch, last, proc, status>>
    BY <1>4 DEF AdmitNew, history
  <2>2. cached \in Int
    <3>1. q.ids \in Seq(Tokens) \ {<<>>} BY <1>2 DEF PendingType
    <3>2. QED BY <3>1, MatchLength
  <2>3. slot \in Slots /\ free_table' \in Seq(Slots)
    <3>1. free_table \in Seq(Slots) BY <1>0 DEF TypeOK
    <3>2. Len(free_table) \in Nat \ {0} BY <2>1, <3>1, EmptySeq
    <3>3. \A i \in 1 .. Len(free_table) - 1 : free_table[i] \in Slots
      BY <3>1, <3>2, ElementOfSeq
    <3>4. slot \in Slots BY <3>1, <3>2, ElementOfSeq
    <3>5. 1 \in Int /\ Len(free_table) - 1 \in Int BY <3>2
    <3>6. SubSeq(free_table, 1, Len(free_table) - 1) \in Seq(Slots)
      BY <3>3, <3>5, SubSeqProperties
    <3>7. QED BY <2>1, <3>4, <3>6
  <2> HIDE DEF q, cached, slot, node
  <2>4. QED
    <3>1. 0 \in Nat OBVIOUS
    <3>2. QED BY <1>1, <2>1, <2>2, <2>3, <3>1, AddOneReqStep DEF q
<1>5. QED BY <1>3, <1>4

\* The queue after a prefill batch: the prompt cut short, then what was not reached.
LEMMA RequeueElements ==
  ASSUME TypeOK, AdderPlaced, adder.reqs # <<>>
  PROVE  /\ Requeue \in Seq(PendingType)
         /\ \A j \in DOMAIN Requeue :
              \/ j = 1 /\ Len(adder.chunked) = 1 /\ Requeue[j] = adder.chunked[1]
              \/ \E m \in DOMAIN pending :
                   /\ m > Len(adder.reqs) /\ m = j - Len(adder.chunked) + Len(adder.reqs)
                   /\ Requeue[j] = pending[m]
         /\ \A m \in DOMAIN pending :
              m > Len(adder.reqs) => m - Len(adder.reqs) + Len(adder.chunked) \in DOMAIN Requeue
<1> DEFINE a == Len(adder.reqs)
           c == Len(adder.chunked)
           rest == SubSeq(pending, a + 1, Len(pending))
<1>1. pending \in Seq(PendingType) /\ adder.reqs \in Seq(Objs) /\ adder.chunked \in Seq(PendingType)
  BY DEF TypeOK
<1>2. Len(pending) \in Nat /\ a \in Nat \ {0} /\ c \in Nat /\ c <= 1 /\ a <= Len(pending)
      /\ DOMAIN pending = 1 .. Len(pending)
  BY <1>1, LenProperties, EmptySeq DEF AdderPlaced
<1> HIDE DEF a, c
<1>3. /\ rest \in Seq(PendingType) /\ Len(rest) = Len(pending) - a
      /\ \A i \in 1 .. Len(pending) - a : rest[i] = pending[a + i]
  <2>1. a + 1 \in Int /\ Len(pending) \in Int BY <1>2
  <2>2. \A i \in a + 1 .. Len(pending) : pending[i] \in PendingType
    BY <1>1, <1>2, ElementOfSeq
  <2>3. /\ rest \in Seq(PendingType)
        /\ Len(rest) = IF a + 1 <= Len(pending) THEN Len(pending) - (a + 1) + 1 ELSE 0
        /\ \A i \in 1 .. Len(pending) - (a + 1) + 1 : rest[i] = pending[a + 1 + i - 1]
    BY <2>1, <2>2, SubSeqProperties
  <2> HIDE DEF rest
  <2>4. Len(rest) = Len(pending) - a
    <3>1. \A x, y \in Nat : y <= x => (IF y + 1 <= x THEN x - (y + 1) + 1 ELSE 0) = x - y
      OBVIOUS
    <3>2. QED BY <1>2, <2>3, <3>1
  <2>5. ASSUME NEW i \in 1 .. Len(pending) - a PROVE rest[i] = pending[a + i]
    <3>1. i \in 1 .. Len(pending) - (a + 1) + 1 /\ a + 1 + i - 1 = a + i BY <1>2
    <3>2. QED BY <2>3, <3>1
  <2>6. QED BY <2>3, <2>4, <2>5
<1>4. Requeue = adder.chunked \o rest BY DEF Requeue, a
<1> HIDE DEF rest
<1>5. /\ Requeue \in Seq(PendingType) /\ Len(Requeue) = c + Len(pending) - a
      /\ \A j \in 1 .. c + Len(pending) - a :
           Requeue[j] = IF j <= c THEN adder.chunked[j] ELSE rest[j - c]
  <2>1. /\ Requeue \in Seq(PendingType) /\ Len(Requeue) = Len(adder.chunked) + Len(rest)
        /\ \A j \in 1 .. Len(adder.chunked) + Len(rest) :
             Requeue[j] = IF j <= Len(adder.chunked) THEN adder.chunked[j]
                          ELSE rest[j - Len(adder.chunked)]
    BY <1>1, <1>3, <1>4, ConcatProperties
  <2>2. c + (Len(pending) - a) = c + Len(pending) - a BY <1>2
  <2>3. QED BY <1>3, <2>1, <2>2 DEF c
<1>6. ASSUME NEW j \in DOMAIN Requeue
      PROVE  \/ j = 1 /\ c = 1 /\ Requeue[j] = adder.chunked[1]
             \/ \E m \in DOMAIN pending : m > a /\ m = j - c + a /\ Requeue[j] = pending[m]
  <2>1. j \in 1 .. c + Len(pending) - a BY <1>5, LenProperties
  <2>2. CASE j <= c
    <3>1. j = 1 /\ c = 1 BY <1>2, <2>1, <2>2
    <3>2. QED BY <1>5, <2>1, <2>2, <3>1
  <2>3. CASE ~(j <= c)
    <3>1. j - c + a \in DOMAIN pending /\ j - c + a > a /\ j - c \in 1 .. Len(pending) - a
          /\ a + (j - c) = j - c + a
      BY <1>2, <2>1, <2>3
    <3>2. Requeue[j] = pending[j - c + a] BY <1>3, <1>5, <2>1, <2>3, <3>1
    <3>3. QED BY <3>1, <3>2
  <2>4. QED BY <2>2, <2>3
<1>7. ASSUME NEW m \in DOMAIN pending, m > a PROVE m - a + c \in DOMAIN Requeue
  <2>1. m - a + c \in 1 .. c + Len(pending) - a BY <1>2, <1>7
  <2>2. QED BY <1>5, <2>1, LenProperties
<1>8. QED BY <1>5, <1>6, <1>7 DEF a, c

\* The loop over the queue ends.
LEMMA StopAdmissionStep ==
  ASSUME IInv, StopAdmission
  PROVE  IInv'
<1>0. /\ TypeOK /\ QueuePlaced /\ AdderPlaced /\ ObjectsPlaced /\ BatchesPlaced
      /\ TerminalDrains /\ OneChunkFirst
  BY DEF IInv, Placement
<1>1. /\ pc = "admit" /\ adder'.reqs = <<>> /\ adder'.chunked = <<>>
      /\ UNCHANGED <<woken, reqs, running, inflight, terminal, last, proc, free_table, status>>
  BY DEF StopAdmission, NoAdder, history
<1>2. CASE adder.reqs # <<>>
  <2> DEFINE b == [reqs |-> adder.reqs, phase |-> "prefill", tokens |-> <<>>]
  <2>1. Select(b) /\ pending' = Requeue BY <1>2 DEF StopAdmission
  <2>2. b.reqs = adder.reqs OBVIOUS
  <2> HIDE DEF b
  <2>3. /\ adder.reqs \in Seq(Objs) /\ DOMAIN adder.reqs = 1 .. Len(adder.reqs)
        /\ Len(adder.reqs) \in Nat \ {0} /\ DOMAIN pending = 1 .. Len(pending)
        /\ Len(pending) \in Nat /\ Len(adder.reqs) <= Len(pending)
    BY <1>0, <1>2, LenProperties, EmptySeq DEF TypeOK, AdderPlaced
  <2>4. DOMAIN adder.reqs \subseteq DOMAIN pending BY <2>3
  <2>5. \A i \in DOMAIN adder.reqs :
          /\ adder.reqs[i] \in DOMAIN reqs /\ adder.reqs[i][1] = pending[i].uid
          /\ adder.reqs[i][1] \in QueuedUids
    BY <1>0, <2>4 DEF AdderPlaced, QueuedUids
  <2>6. \A i, j \in DOMAIN pending : pending[i].uid = pending[j].uid => i = j
    BY <1>0 DEF QueuePlaced
  <2>7. ~Duplicated(adder.reqs) BY <2>4, <2>5, <2>6 DEF Duplicated
  <2>8. ToSet(adder.reqs) \subseteq DOMAIN reqs \ terminal
    BY <1>0, <2>5 DEF ObjectsPlaced, ToSet
  <2>9. /\ Requeue \in Seq(PendingType)
        /\ \A j \in DOMAIN Requeue :
             \/ j = 1 /\ Len(adder.chunked) = 1 /\ Requeue[j] = adder.chunked[1]
             \/ \E m \in DOMAIN pending :
                  /\ m > Len(adder.reqs) /\ m = j - Len(adder.chunked) + Len(adder.reqs)
                  /\ Requeue[j] = pending[m]
    BY <1>0, <1>2, RequeueElements
  <2> DEFINE cut == adder.chunked[1]
  <2>10. ASSUME Len(adder.chunked) = 1
         PROVE  \E i \in DOMAIN adder.reqs :
                  /\ cut.chunk = adder.reqs[i] /\ cut.uid = pending[i].uid
                  /\ cut.chunk[1] = cut.uid /\ reqs[cut.chunk].class = "ChunkedReq"
    <3>1. 1 \in DOMAIN adder.chunked BY <1>0, <2>10, LenProperties DEF TypeOK
    <3>2. /\ cut.chunk \in ToSet(adder.reqs) /\ cut.chunk[1] = cut.uid
          /\ reqs[cut.chunk].class = "ChunkedReq"
      BY <1>0, <3>1 DEF AdderPlaced
    <3>3. PICK i \in DOMAIN adder.reqs : cut.chunk = adder.reqs[i] BY <3>2 DEF ToSet
    <3>4. QED BY <2>5, <3>2, <3>3
  <2> HIDE DEF cut
  <2> DEFINE IsCut(j) ==
               /\ j = 1 /\ pending'[j] = cut
               /\ \E i \in DOMAIN adder.reqs :
                    /\ cut.chunk = adder.reqs[i] /\ cut.uid = pending[i].uid
                    /\ cut.chunk[1] = cut.uid /\ reqs[cut.chunk].class = "ChunkedReq"
             IsRest(j) ==
               \E m \in DOMAIN pending :
                 /\ m > Len(adder.reqs) /\ m = j - Len(adder.chunked) + Len(adder.reqs)
                 /\ pending'[j] = pending[m]
  <2>11. \A j \in DOMAIN pending' : IsCut(j) \/ IsRest(j)
    BY <2>1, <2>9, <2>10 DEF cut
  <2>12. \A m \in DOMAIN pending, k \in DOMAIN adder.reqs :
           m > Len(adder.reqs) => pending[m].uid # pending[k].uid
    BY <2>3, <2>4, <2>6
  <2>13. QueuePlaced'
    <3>1. ASSUME NEW j \in DOMAIN pending'
          PROVE  /\ status'[pending'[j].uid] # "new"
                 /\ pending'[j].chunk # None =>
                      pending'[j].chunk \in DOMAIN reqs' /\ pending'[j].chunk[1] = pending'[j].uid
      <4>1. CASE IsCut(j) BY <4>1, <1>0, <1>1, <2>4, <2>5 DEF QueuePlaced
      <4>2. CASE IsRest(j) BY <4>2, <1>0, <1>1 DEF QueuePlaced
      <4>3. QED BY <2>11, <4>1, <4>2
    <3>2. ASSUME NEW i \in DOMAIN pending', NEW j \in DOMAIN pending',
                 pending'[i].uid = pending'[j].uid
          PROVE  i = j
      <4>1. CASE IsCut(i) /\ IsCut(j) BY <4>1
      <4>2. CASE IsCut(i) /\ IsRest(j) BY <4>2, <2>12, <3>2
      <4>3. CASE IsRest(i) /\ IsCut(j) BY <4>3, <2>12, <3>2
      <4>4. CASE IsRest(i) /\ IsRest(j)
        <5>1. PICK m \in DOMAIN pending :
                m = i - Len(adder.chunked) + Len(adder.reqs) /\ pending'[i] = pending[m]
          BY <4>4
        <5>2. PICK n \in DOMAIN pending :
                n = j - Len(adder.chunked) + Len(adder.reqs) /\ pending'[j] = pending[n]
          BY <4>4
        <5>3. m = n BY <2>6, <3>2, <5>1, <5>2
        <5>4. i \in Int /\ j \in Int /\ Len(adder.chunked) \in Int
          BY <1>0, <2>1, <2>9, LenProperties DEF TypeOK
        <5>5. QED BY <2>3, <5>1, <5>2, <5>3, <5>4
      <4>5. QED BY <2>11, <4>1, <4>2, <4>3, <4>4
    <3>3. QED BY <3>1, <3>2 DEF QueuePlaced
  <2>14. QueuedUids' \subseteq QueuedUids
    <3>1. ASSUME NEW j \in DOMAIN pending' PROVE pending'[j].uid \in QueuedUids
      <4>1. CASE IsCut(j) BY <4>1, <2>4 DEF QueuedUids
      <4>2. CASE IsRest(j) BY <4>2 DEF QueuedUids
      <4>3. QED BY <2>11, <4>1, <4>2
    <3>2. QED BY <3>1 DEF QueuedUids
  <2>15. ASSUME NEW o \in DOMAIN reqs, reqs[o].class = "Req"
         PROVE  o[1] \notin QueuedUids'
    <3>1. CASE o[1] \notin QueuedUids BY <3>1, <2>14
    <3>2. CASE o \in ToSet(adder.reqs)
      <4>1. PICK k \in DOMAIN adder.reqs : o = adder.reqs[k] BY <3>2 DEF ToSet
      <4>2. o[1] = pending[k].uid BY <2>5, <4>1
      <4>3. ASSUME NEW j \in DOMAIN pending' PROVE pending'[j].uid # o[1]
        <5>1. CASE IsCut(j)
          <6>1. PICK i \in DOMAIN adder.reqs :
                  /\ cut.chunk = adder.reqs[i] /\ cut.uid = pending[i].uid
                  /\ reqs[cut.chunk].class = "ChunkedReq"
            BY <5>1
          <6>2. i # k BY <4>1, <6>1, <2>15
          <6>3. QED BY <2>4, <2>6, <4>2, <5>1, <6>1, <6>2
        <5>2. CASE IsRest(j) BY <5>2, <2>12, <4>2
        <5>3. QED BY <2>11, <5>1, <5>2
      <4>4. QED BY <4>3 DEF QueuedUids
    <3>3. QED BY <1>0, <2>15, <3>1, <3>2 DEF ObjectsPlaced
  <2>16. ObjectsPlaced' BY <1>0, <1>1, <2>14, <2>15 DEF ObjectsPlaced
  <2>17. TerminalDrains'
    <3>1. ASSUME NEW o \in terminal, NEW j \in DOMAIN pending' PROVE pending'[j].chunk # o
      <4>1. CASE IsCut(j) BY <4>1, <1>0, <2>5 DEF ObjectsPlaced
      <4>2. CASE IsRest(j) BY <4>2, <1>0 DEF TerminalDrains
      <4>3. QED BY <2>11, <4>1, <4>2
    <3>2. QED BY <1>0, <1>1, <3>1 DEF TerminalDrains
  <2>18. OneChunkFirst'
    <3>1. ASSUME NEW j \in DOMAIN pending', pending'[j].chunk # None PROVE j = 1
      <4>1. CASE IsCut(j) BY <4>1
      <4>2. CASE IsRest(j)
        <5>1. PICK m \in DOMAIN pending : m > Len(adder.reqs) /\ pending'[j] = pending[m]
          BY <4>2
        <5>2. m # 1 BY <2>3, <5>1
        <5>3. QED BY <1>0, <3>1, <5>1, <5>2 DEF OneChunkFirst
      <4>3. QED BY <2>11, <4>1, <4>2
    <3>2. QED BY <3>1 DEF OneChunkFirst
  <2>19. pending' \in Seq(PendingType) BY <2>1, <2>9
  <2> HIDE DEF IsCut, IsRest
  <2>20. QED
    BY <1>1, <2>1, <2>2, <2>3, <2>7, <2>8, <2>13, <2>16, <2>17, <2>18, <2>19, SelectStep
<1>3. CASE adder.reqs = <<>>
  <2>1. pending' = pending BY <1>3 DEF StopAdmission
  <2>2. pending' \in Seq(PendingType) /\ QueuePlaced' /\ TerminalDrains' /\ OneChunkFirst'
    BY <1>0, <1>1, <2>1 DEF TypeOK, QueuePlaced, TerminalDrains, OneChunkFirst
  <2>3. ObjectsPlaced'
    BY <1>0, <1>1, <1>3, <2>1 DEF ObjectsPlaced, QueuedUids
  <2>4. CASE \E b \in DecodeBatches : Select(b)
    <3>1. PICK b \in DecodeBatches : Select(b) BY <2>4
    <3>2. b.reqs \in Seq(Objs) /\ ~Duplicated(b.reqs) /\ ToSet(b.reqs) \subseteq running
      BY <1>0, DecodeBatchFacts
    <3>3. ToSet(b.reqs) \subseteq DOMAIN reqs \ terminal
      BY <1>0, <3>2 DEF TypeOK, TerminalDrains
    <3>4. QED BY <1>1, <2>2, <2>3, <3>1, <3>2, <3>3, SelectStep
  <2>5. CASE Select(NoBatch)
    <3>1. NoBatch.reqs = <<>> BY DEF NoBatch
    <3>2. NoBatch.reqs \in Seq(Objs) /\ ~Duplicated(NoBatch.reqs)
          /\ ToSet(NoBatch.reqs) \subseteq DOMAIN reqs \ terminal
      BY <3>1, EmptyFacts, EmptySeq
    <3>3. QED BY <1>1, <2>2, <2>3, <2>5, <3>2, SelectStep
  <2>6. QED BY <1>3, <2>4, <2>5 DEF StopAdmission
<1>4. QED BY <1>2, <1>3

-----------------------------------------------------------------------------
(* Forward and process.                                                    *)

\* complete_one touches the two lengths only.
LEMMA CompletedFields ==
  ASSUME NEW r, IsReq(r)
  PROVE  /\ IsReq(Completed(r)) /\ Completed(r).slot = r.slot /\ Completed(r).class = r.class
         /\ Completed(r).cached = r.device /\ Completed(r).device = r.device + 1
<1> DEFINE s == Completed(r)
<1>1. DOMAIN r = ReqFields BY DEF IsReq
<1>2. DOMAIN s = ReqFields /\ s = [f \in DOMAIN s |-> s[f]] BY <1>1 DEF Completed
<1>3. s.slot = r.slot /\ s.class = r.class /\ s.cached = r.device /\ s.device = r.device + 1
  BY <1>1 DEF Completed, ReqFields
<1> HIDE DEF s
<1>4. IsReq(s) BY <1>2 DEF IsReq
<1>5. QED BY <1>3, <1>4 DEF s

\* A batch goes to the device.
LEMMA ForwardStep ==
  ASSUME IInv, Forward
  PROVE  IInv'
<1> DEFINE objs == batch.reqs
<1>0. /\ TypeOK /\ QueuePlaced /\ AdderPlaced /\ ObjectsPlaced /\ BatchesPlaced
      /\ InflightExact /\ TerminalDrains /\ OneChunkFirst
  BY DEF IInv, Placement
<1>1. /\ pc = "forward"
      /\ UNCHANGED <<woken, pending, adder, terminal, free_table, status>>
      /\ inflight' = [o \in DOMAIN inflight \cup ToSet(objs) |->
           (IF o \in DOMAIN inflight THEN inflight[o] ELSE 0) + (IF o \in ToSet(objs) THEN 1 ELSE 0)]
      /\ reqs' = [o \in DOMAIN reqs |-> IF o \in ToSet(objs) THEN Completed(reqs[o]) ELSE reqs[o]]
      /\ running' = {o \in running \cup ToSet(objs) : CanDecode(reqs'[o])}
      /\ \E b : b.reqs = objs /\ Launch(b)
  <2>1. PICK t : Launch([reqs |-> objs, phase |-> batch.phase, tokens |-> t]) BY DEF Forward
  <2>2. [reqs |-> objs, phase |-> batch.phase, tokens |-> t].reqs = objs OBVIOUS
  <2>3. QED BY <2>1, <2>2 DEF Forward, history
<1>2. /\ pc' = "process" /\ batch'.reqs = <<>>
      /\ proc'.reqs = IF Overlap THEN last.reqs ELSE objs
      /\ last'.reqs = IF Overlap THEN objs ELSE <<>>
  BY <1>1 DEF Launch, NoBatch
<1>3. /\ proc.reqs = <<>> /\ adder.reqs = <<>> /\ adder.chunked = <<>>
      /\ objs \in Seq(Objs) /\ ~Duplicated(objs) /\ ToSet(objs) \subseteq DOMAIN reqs \ terminal
  BY <1>0, <1>1 DEF AdderPlaced, BatchesPlaced, TypeOK
<1> HIDE DEF objs
<1>4. /\ ~Duplicated(last.reqs) /\ DOMAIN inflight = ToSet(last.reqs)
      /\ \A o \in DOMAIN inflight : inflight[o] = 1
  BY <1>0, <1>3, EmptyFacts DEF InflightExact
<1>5. /\ DOMAIN inflight' = ToSet(last.reqs) \cup ToSet(objs)
      /\ \A o \in DOMAIN inflight' :
           inflight'[o] = IF o \in ToSet(last.reqs) /\ o \in ToSet(objs) THEN 2 ELSE 1
  BY <1>1, <1>4
<1>6. InflightExact'
  <2>1. CASE Overlap BY <2>1, <1>2, <1>3, <1>4, <1>5 DEF InflightExact
  <2>2. CASE ~Overlap
    <3>1. last.reqs = <<>> BY <1>0, <2>2 DEF BatchesPlaced
    <3>2. QED BY <2>2, <3>1, <1>2, <1>3, <1>4, <1>5, EmptyFacts DEF InflightExact
  <2>3. QED BY <2>1, <2>2
<1>7. /\ DOMAIN reqs' = DOMAIN reqs
      /\ \A o \in DOMAIN reqs :
           /\ IsReq(reqs'[o]) /\ reqs'[o].slot = reqs[o].slot /\ reqs'[o].class = reqs[o].class
           /\ reqs'[o].cached \in Int /\ reqs'[o].device \in Int
  <2>1. ASSUME NEW o \in DOMAIN reqs
        PROVE  /\ IsReq(reqs'[o]) /\ reqs'[o].slot = reqs[o].slot /\ reqs'[o].class = reqs[o].class
               /\ reqs'[o].cached \in Int /\ reqs'[o].device \in Int
    <3>1. IsReq(reqs[o]) /\ reqs[o].cached \in Int /\ reqs[o].device \in Int
      BY <1>0 DEF ObjectsPlaced, TypeOK
    <3>2. CASE o \in ToSet(objs) BY <1>1, <3>1, <3>2, CompletedFields
    <3>3. CASE o \notin ToSet(objs) BY <1>1, <3>1, <3>3
    <3>4. QED BY <3>2, <3>3
  <2>2. QED BY <1>1, <2>1
<1>8. TypeOK'
  <2>1. IsFiniteSet(running')
    <3>1. IsFiniteSet(running) BY <1>0 DEF TypeOK
    <3>2. IsFiniteSet(running \cup ToSet(objs)) BY <1>3, <3>1, FiniteElements, FS_Union
    <3>3. QED BY <1>1, <3>2, FS_Subset
  <2>2. inflight' \in [DOMAIN inflight' -> {1, 2}] BY <1>1, <1>5
  <2>3. /\ running' \subseteq DOMAIN reqs' /\ terminal' \subseteq DOMAIN reqs'
        /\ DOMAIN inflight' \subseteq DOMAIN reqs'
    BY <1>0, <1>1, <1>3, <1>4, <1>5, <1>7 DEF TypeOK
  <2>4. batch'.reqs \in Seq(Objs) /\ last'.reqs \in Seq(Objs) /\ proc'.reqs \in Seq(Objs)
    BY <1>0, <1>2, <1>3, EmptySeq DEF TypeOK
  <2>5. \A o \in DOMAIN reqs' :
          /\ reqs'[o].slot \in Slots /\ reqs'[o].class \in {"Req", "ChunkedReq"}
          /\ reqs'[o].cached \in Int /\ reqs'[o].device \in Int
    BY <1>0, <1>7 DEF TypeOK
  <2>6. QED BY <1>0, <1>1, <1>2, <1>7, <2>1, <2>2, <2>3, <2>4, <2>5 DEF TypeOK
<1>9. QueuePlaced' BY <1>0, <1>1, <1>7 DEF QueuePlaced
<1>10. AdderPlaced'
  <2>1. Len(pending) \in Nat BY <1>0, LenProperties DEF TypeOK
  <2>2. QED BY <1>1, <1>2, <1>3, <2>1 DEF AdderPlaced
<1>11. ObjectsPlaced'
  <2>1. QueuedUids' = QueuedUids BY <1>1 DEF QueuedUids
  <2>2. ToSet(adder.reqs) = {} BY <1>3, EmptyFacts
  <2>3. ASSUME NEW o \in running' PROVE o[1] \notin QueuedUids
    <3>1. CASE o \in running BY <3>1, <1>0 DEF ObjectsPlaced
    <3>2. CASE o \in ToSet(objs)
      <4>1. reqs[o].class = "Req" /\ o \in DOMAIN reqs
        BY <1>1, <1>3, <1>7, <2>3, <3>2 DEF CanDecode
      <4>2. QED BY <1>0, <2>2, <4>1 DEF ObjectsPlaced
    <3>3. QED BY <1>1, <3>1, <3>2
  <2>4. \A o \in terminal' : o[1] \notin QueuedUids BY <1>0, <1>1 DEF ObjectsPlaced
  <2>5. \A o \in DOMAIN reqs' :
          /\ status'[o[1]] # "new" /\ IsReq(reqs'[o])
          /\ reqs'[o].class = "Req" => o \in ToSet(adder'.reqs) \/ o[1] \notin QueuedUids
    BY <1>0, <1>1, <1>7 DEF ObjectsPlaced
  <2>6. QED BY <2>1, <2>3, <2>4, <2>5 DEF ObjectsPlaced
<1>12. BatchesPlaced'
  BY <1>0, <1>2, EmptyFacts DEF BatchesPlaced
<1>13. TerminalDrains'
  <2>1. \A o \in terminal : o \in DOMAIN inflight' /\ o \notin running'
    BY <1>0, <1>1, <1>3, <1>4, <1>5 DEF TerminalDrains
  <2>2. QED BY <1>0, <1>1, <2>1 DEF TerminalDrains
<1>14. OneChunkFirst' BY <1>0, <1>1 DEF OneChunkFirst
<1>15. QED BY <1>6, <1>8, <1>9, <1>10, <1>11, <1>12, <1>13, <1>14 DEF IInv, Placement

\* Nothing to forward, or no pages to forward with.
LEMMA NoForwardStep ==
  ASSUME IInv, NoForward \/ ForwardOutOfPages
  PROVE  IInv'
<1>0. /\ TypeOK /\ QueuePlaced /\ AdderPlaced /\ ObjectsPlaced /\ BatchesPlaced
      /\ InflightExact /\ TerminalDrains /\ OneChunkFirst
  BY DEF IInv, Placement
<1>1. /\ pc = "forward" /\ pc' \in {"process", "crashed"}
      /\ UNCHANGED <<woken, pending, adder, running, inflight, terminal, reqs, free_table, status>>
  BY DEF NoForward, ForwardOutOfPages, Launch, memory, history
<1>2. proc.reqs = <<>> BY <1>0, <1>1 DEF BatchesPlaced
<1>3. /\ batch'.reqs \in Seq(Objs) /\ last'.reqs \in Seq(Objs) /\ proc'.reqs \in Seq(Objs)
      /\ InflightExact' /\ BatchesPlaced'
  <2>1. CASE NoForward
    <3>1. /\ pc' = "process" /\ batch'.reqs = <<>> /\ last'.reqs = <<>>
          /\ proc'.reqs = IF Overlap THEN last.reqs ELSE <<>>
      BY <2>1 DEF NoForward, Launch, NoBatch
    <3>2. proc'.reqs = last.reqs BY <1>0, <3>1 DEF BatchesPlaced
    <3>3. InflightExact' BY <1>0, <1>1, <1>2, <3>1, <3>2, EmptyFacts DEF InflightExact
    <3>4. BatchesPlaced' BY <3>1, EmptyFacts DEF BatchesPlaced
    <3>5. QED BY <1>0, <3>1, <3>2, <3>3, <3>4, EmptySeq DEF TypeOK
  <2>2. CASE ForwardOutOfPages
    <3>1. pc' = "crashed" /\ UNCHANGED <<batch, last, proc>> BY <2>2 DEF ForwardOutOfPages
    <3>2. QED BY <1>0, <1>1, <1>2, <3>1 DEF TypeOK, InflightExact, BatchesPlaced
  <2>3. QED BY <2>1, <2>2
<1>4. TypeOK' BY <1>0, <1>1, <1>3 DEF TypeOK
<1>5. QueuePlaced' /\ AdderPlaced' /\ ObjectsPlaced'
  BY <1>0, <1>1 DEF QueuePlaced, AdderPlaced, ObjectsPlaced, QueuedUids
<1>6. TerminalDrains' /\ OneChunkFirst' BY <1>0, <1>1 DEF TerminalDrains, OneChunkFirst
<1>7. QED BY <1>3, <1>4, <1>5, <1>6 DEF IInv, Placement

\* One result is taken: the counter of its request follows the batch.
LEMMA TakeResultFacts ==
  ASSUME IInv, TakeResult, last' = last
  PROVE  /\ pc = "process" /\ Current \in DOMAIN reqs /\ proc'.reqs \in Seq(Objs)
         /\ InflightExact' /\ inflight' \in [DOMAIN inflight' -> {1, 2}]
         /\ DOMAIN inflight \ {Current} \subseteq DOMAIN inflight'
         /\ DOMAIN inflight' \subseteq DOMAIN inflight
<1> DEFINE c == Current
<1>0. TypeOK /\ InflightExact BY DEF IInv
<1>1. /\ pc = "process" /\ proc.reqs # <<>> /\ proc'.reqs = Tail(proc.reqs)
      /\ inflight' = OneBatchLess(c)
  BY DEF TakeResult
<1>2. /\ c \in Objs /\ proc'.reqs \in Seq(Objs) /\ ~Duplicated(proc'.reqs)
      /\ ToSet(proc.reqs) = {c} \cup ToSet(proc'.reqs) /\ c \notin ToSet(proc'.reqs)
  BY <1>0, <1>1, HeadTail DEF TypeOK, InflightExact, Current
<1> HIDE DEF c
<1>3. /\ c \in DOMAIN inflight
      /\ DOMAIN inflight = ToSet(last.reqs) \cup ToSet(proc.reqs)
      /\ \A o \in DOMAIN inflight :
           inflight[o] = IF o \in ToSet(last.reqs) /\ o \in ToSet(proc.reqs) THEN 2 ELSE 1
  BY <1>0, <1>2 DEF InflightExact
<1>4. CASE c \in ToSet(last.reqs)
  <2>1. inflight[c] = 2 BY <1>2, <1>3, <1>4
  <2>2. inflight' = [inflight EXCEPT ![c] = @ - 1] BY <1>1, <2>1 DEF OneBatchLess
  <2>3. /\ DOMAIN inflight' = DOMAIN inflight /\ inflight'[c] = 1
        /\ \A o \in DOMAIN inflight : o # c => inflight'[o] = inflight[o]
    BY <1>3, <2>1, <2>2
  <2>4. \A o \in DOMAIN inflight' :
          inflight'[o] = IF o \in ToSet(last.reqs) /\ o \in ToSet(proc'.reqs) THEN 2 ELSE 1
    BY <1>2, <1>3, <2>3
  <2>5. DOMAIN inflight' = ToSet(last.reqs) \cup ToSet(proc'.reqs) BY <1>2, <1>3, <1>4, <2>3
  <2>6. inflight' \in [DOMAIN inflight' -> {1, 2}] BY <2>2, <2>4
  <2>7. InflightExact' BY <1>0, <1>2, <2>4, <2>5 DEF InflightExact
  <2>8. QED BY <1>0, <1>1, <1>2, <1>3, <2>3, <2>6, <2>7 DEF c, TypeOK
<1>5. CASE c \notin ToSet(last.reqs)
  <2>1. inflight[c] = 1 BY <1>2, <1>3, <1>5
  <2>2. inflight' = Restrict(inflight, DOMAIN inflight \ {c}) BY <1>1, <2>1 DEF OneBatchLess
  <2>3. /\ DOMAIN inflight' = DOMAIN inflight \ {c}
        /\ \A o \in DOMAIN inflight' : inflight'[o] = inflight[o]
    BY <2>2 DEF Restrict
  <2>4. \A o \in DOMAIN inflight' :
          inflight'[o] = IF o \in ToSet(last.reqs) /\ o \in ToSet(proc'.reqs) THEN 2 ELSE 1
    BY <1>2, <1>3, <2>3
  <2>5. DOMAIN inflight' = ToSet(last.reqs) \cup ToSet(proc'.reqs) BY <1>2, <1>3, <1>5, <2>3
  <2>6. inflight' \in [DOMAIN inflight' -> {1, 2}] BY <2>2, <2>4 DEF Restrict
  <2>7. InflightExact' BY <1>0, <1>2, <2>4, <2>5 DEF InflightExact
  <2>8. QED BY <1>0, <1>1, <1>2, <1>3, <2>3, <2>6, <2>7 DEF c, TypeOK
<1>6. QED BY <1>4, <1>5

\* One request of a processed batch, whatever becomes of it.
LEMMA ProcessOneStep ==
  ASSUME IInv, TakeResult, running' \subseteq running, free_table' \in Seq(Slots),
         DOMAIN reqs' = DOMAIN reqs,
         \A o \in DOMAIN reqs :
           /\ IsReq(reqs'[o]) /\ reqs'[o].slot = reqs[o].slot /\ reqs'[o].class = reqs[o].class
           /\ reqs'[o].cached = reqs[o].cached /\ reqs'[o].device = reqs[o].device,
         terminal' \subseteq terminal \cup {Current},
         Current \in terminal' =>
           Current \in DOMAIN inflight' /\ Current \notin running' /\ Current[1] \notin QueuedUids,
         UNCHANGED <<pc, woken, pending, adder, batch, last, status>>
  PROVE  IInv'
<1> DEFINE c == Current
<1>0. /\ TypeOK /\ QueuePlaced /\ AdderPlaced /\ ObjectsPlaced /\ BatchesPlaced
      /\ TerminalDrains /\ OneChunkFirst
  BY DEF IInv, Placement
<1>1. /\ pc = "process" /\ c \in DOMAIN reqs /\ proc'.reqs \in Seq(Objs)
      /\ InflightExact' /\ inflight' \in [DOMAIN inflight' -> {1, 2}]
      /\ DOMAIN inflight \ {c} \subseteq DOMAIN inflight'
      /\ DOMAIN inflight' \subseteq DOMAIN inflight
  BY TakeResultFacts
<1> HIDE DEF c
<1>2. /\ terminal' \subseteq terminal \cup {c}
      /\ c \in terminal' => c \in DOMAIN inflight' /\ c \notin running' /\ c[1] \notin QueuedUids
  BY DEF c
<1>3. TypeOK'
  <2>1. IsFiniteSet(running') BY <1>0, FS_Subset DEF TypeOK
  <2>2. /\ running' \subseteq DOMAIN reqs' /\ terminal' \subseteq DOMAIN reqs'
        /\ DOMAIN inflight' \subseteq DOMAIN reqs'
    BY <1>0, <1>1, <1>2 DEF TypeOK
  <2>3. \A o \in DOMAIN reqs' :
          /\ reqs'[o].slot \in Slots /\ reqs'[o].class \in {"Req", "ChunkedReq"}
          /\ reqs'[o].cached \in Int /\ reqs'[o].device \in Int
    BY <1>0 DEF TypeOK
  <2>4. QED BY <1>0, <1>1, <2>1, <2>2, <2>3 DEF TypeOK
<1>4. QueuePlaced' /\ OneChunkFirst' BY <1>0 DEF QueuePlaced, OneChunkFirst
<1>5. adder.reqs = <<>> /\ adder.chunked = <<>> /\ batch.reqs = <<>>
  BY <1>0, <1>1 DEF AdderPlaced, BatchesPlaced
<1>6. AdderPlaced'
  <2>1. Len(pending) \in Nat BY <1>0, LenProperties DEF TypeOK
  <2>2. QED BY <1>1, <1>5, <2>1 DEF AdderPlaced
<1>7. ObjectsPlaced'
  <2>1. QueuedUids' = QueuedUids BY DEF QueuedUids
  <2>2. \A o \in running' \cup terminal' : o[1] \notin QueuedUids
    BY <1>0, <1>2 DEF ObjectsPlaced
  <2>3. QED BY <1>0, <2>1, <2>2 DEF ObjectsPlaced
<1>8. BatchesPlaced'
  BY <1>0, <1>1, <1>5, EmptyFacts DEF BatchesPlaced
<1>9. TerminalDrains'
  <2>1. ASSUME NEW o \in terminal'
        PROVE  o \in DOMAIN inflight' /\ o \notin running'
    BY <1>0, <1>1, <1>2 DEF TerminalDrains
  <2>2. ASSUME NEW o \in terminal', NEW i \in DOMAIN pending PROVE pending[i].chunk # o
    <3>1. CASE o \in terminal BY <1>0, <3>1 DEF TerminalDrains
    <3>2. CASE o = c
      <4>1. c # None BY <1>0, <1>1, NoneAssumption DEF TypeOK, Objs
      <4>2. pending[i].uid \in QueuedUids BY DEF QueuedUids
      <4>3. QED BY <1>0, <1>2, <2>2, <3>2, <4>1, <4>2 DEF QueuePlaced
    <3>3. QED BY <1>2, <3>1, <3>2
  <2>3. QED BY <2>1, <2>2 DEF TerminalDrains
<1>10. QED BY <1>1, <1>3, <1>4, <1>6, <1>7, <1>8, <1>9 DEF IInv, Placement

\* _release_terminal_req: the mark stays exactly while the request is in flight.
LEMMA ReleaseFacts ==
  ASSUME TypeOK, NEW marked, NEW r, r.slot \in Slots, ReleaseIfLanded(marked, r)
  PROVE  /\ terminal' \subseteq marked
         /\ Current \in terminal' => Current \in DOMAIN inflight'
         /\ free_table' \in Seq(Slots)
<1>1. CASE Current \in DOMAIN inflight' BY <1>1 DEF ReleaseIfLanded, TypeOK
<1>2. CASE Current \notin DOMAIN inflight'
  <2>1. terminal' = marked \ {Current} /\ free_table' = Append(free_table, r.slot)
    BY <1>2 DEF ReleaseIfLanded, FreeReqResources
  <2>2. QED BY <2>1, AppendElements DEF TypeOK
<1>3. QED BY <1>1, <1>2

\* The three outcomes for a request of the batch.
LEMMA ProcessStep ==
  ASSUME IInv, ProcessTerminal \/ ProcessChunk \/ ProcessToken
  PROVE  IInv'
<1>0. /\ TypeOK /\ ObjectsPlaced /\ AdderPlaced BY DEF IInv, Placement
<1>1. /\ TakeResult /\ UNCHANGED <<pc, woken, pending, adder, batch, last, status>>
  BY DEF ProcessTerminal, ProcessChunk, ProcessToken, history
<1>2. pc = "process" /\ Current \in DOMAIN reqs BY <1>1, TakeResultFacts
<1>3. \A o \in DOMAIN reqs : IsReq(reqs[o]) BY <1>0 DEF ObjectsPlaced
<1>4. reqs[Current].slot \in Slots BY <1>0, <1>2 DEF TypeOK
<1>5. CASE ProcessTerminal
  <2>1. /\ Current \in terminal /\ ReleaseIfLanded(terminal, reqs[Current])
        /\ UNCHANGED <<running, reqs>>
    BY <1>5 DEF ProcessTerminal, Discarded
  <2>2. /\ terminal' \subseteq terminal /\ free_table' \in Seq(Slots)
        /\ Current \in terminal' => Current \in DOMAIN inflight'
    BY <1>0, <1>4, <2>1, ReleaseFacts
  <2>3. Current \notin running /\ Current[1] \notin QueuedUids
    BY <1>0, <2>1 DEF ObjectsPlaced, IInv, TerminalDrains
  <2>4. QED BY <1>1, <1>3, <2>1, <2>2, <2>3, ProcessOneStep
<1>6. CASE ProcessChunk
  <2>1. Current \notin terminal /\ UNCHANGED <<running, reqs, terminal, free_table>>
    BY <1>6 DEF ProcessChunk, Discarded, memory
  <2>2. free_table' \in Seq(Slots) BY <1>0, <2>1 DEF TypeOK
  <2>3. QED BY <1>1, <1>3, <2>1, <2>2, ProcessOneStep
<1>7. CASE ProcessToken
  <2> DEFINE token == Head(proc.tokens)
             r     == [reqs[Current] EXCEPT !.host = Append(@, token)]
  <2>1. /\ IsReq(r) /\ r.slot = reqs[Current].slot /\ r.class = reqs[Current].class
        /\ r.cached = reqs[Current].cached /\ r.device = reqs[Current].device
    <3>1. DOMAIN reqs[Current] = ReqFields BY <1>2, <1>3 DEF IsReq
    <3>2. DOMAIN r = ReqFields /\ r = [f \in DOMAIN r |-> r[f]] BY <3>1
    <3>3. IsReq(r) BY <3>2 DEF IsReq
    <3>4. QED BY <3>1, <3>3 DEF ReqFields
  <2> HIDE DEF r, token
  <2>2. ASSUME NEW h
        PROVE  LET s == [r EXCEPT !.handle = h]
               IN  /\ IsReq(s) /\ s.slot = r.slot /\ s.class = r.class
                   /\ s.cached = r.cached /\ s.device = r.device
    <3> DEFINE s == [r EXCEPT !.handle = h]
    <3>1. DOMAIN r = ReqFields BY <2>1 DEF IsReq
    <3>2. DOMAIN s = ReqFields /\ s = [f \in DOMAIN s |-> s[f]] BY <3>1
    <3>3. s.slot = r.slot /\ s.class = r.class /\ s.cached = r.cached /\ s.device = r.device
      BY <3>1 DEF ReqFields
    <3> HIDE DEF s
    <3>4. IsReq(s) BY <3>2 DEF IsReq
    <3>5. QED BY <3>3, <3>4 DEF s
  <2>3. Current \notin terminal /\ reqs[Current].class = "Req"
    BY <1>7 DEF ProcessToken, Discarded
  <2>4. Current[1] \notin QueuedUids
    <3>1. ToSet(adder.reqs) = {} BY <1>0, <1>2, EmptyFacts DEF AdderPlaced
    <3>2. QED BY <1>0, <1>2, <2>3, <3>1 DEF ObjectsPlaced
  <2>5. ASSUME NEW x, reqs' = [reqs EXCEPT ![Current] = x], IsReq(x),
               x.slot = reqs[Current].slot, x.class = reqs[Current].class,
               x.cached = reqs[Current].cached, x.device = reqs[Current].device
        PROVE  /\ DOMAIN reqs' = DOMAIN reqs
               /\ \A o \in DOMAIN reqs :
                    /\ IsReq(reqs'[o]) /\ reqs'[o].slot = reqs[o].slot
                    /\ reqs'[o].class = reqs[o].class
                    /\ reqs'[o].cached = reqs[o].cached /\ reqs'[o].device = reqs[o].device
    BY <1>2, <1>3, <2>5
  <2>6. CASE IsFinished(r, token)
    <3>1. /\ running' = running \ {Current} /\ reqs' = [reqs EXCEPT ![Current] = r]
          /\ ReleaseIfLanded(terminal \cup {Current}, r)
      BY <1>7, <2>6 DEF ProcessToken, r, token
    <3>2. /\ terminal' \subseteq terminal \cup {Current} /\ free_table' \in Seq(Slots)
          /\ Current \in terminal' => Current \in DOMAIN inflight'
      BY <1>0, <1>4, <2>1, <3>1, ReleaseFacts
    <3>3. QED BY <1>1, <2>1, <2>4, <2>5, <3>1, <3>2, ProcessOneStep
  <2>7. CASE ~IsFinished(r, token)
    <3>1. /\ UNCHANGED <<running, terminal, free_table>>
          /\ \/ reqs' = [reqs EXCEPT ![Current] = r]
             \/ \E h : reqs' = [reqs EXCEPT ![Current] = [r EXCEPT !.handle = h]]
      BY <1>7, <2>7 DEF ProcessToken, r, token
    <3>2. free_table' \in Seq(Slots) BY <1>0, <3>1 DEF TypeOK
    <3>3. CASE reqs' = [reqs EXCEPT ![Current] = r]
      BY <1>1, <2>1, <2>3, <2>5, <3>1, <3>2, <3>3, ProcessOneStep
    <3>4. CASE \E h : reqs' = [reqs EXCEPT ![Current] = [r EXCEPT !.handle = h]]
      <4>1. PICK h : reqs' = [reqs EXCEPT ![Current] = [r EXCEPT !.handle = h]] BY <3>4
      <4> DEFINE s == [r EXCEPT !.handle = h]
      <4>2. /\ IsReq(s) /\ s.slot = reqs[Current].slot /\ s.class = reqs[Current].class
            /\ s.cached = reqs[Current].cached /\ s.device = reqs[Current].device
        BY <2>1, <2>2
      <4>3. reqs' = [reqs EXCEPT ![Current] = s] BY <4>1
      <4> HIDE DEF s
      <4>4. QED BY <1>1, <2>3, <2>5, <3>1, <3>2, <4>2, <4>3, ProcessOneStep
    <3>5. QED BY <3>1, <3>3, <3>4
  <2>8. QED BY <2>6, <2>7
<1>8. QED BY <1>5, <1>6, <1>7

\* The end of _process_last_data.
LEMMA EndProcessStep ==
  ASSUME IInv, EndProcess
  PROVE  IInv'
<1>0. /\ TypeOK /\ QueuePlaced /\ AdderPlaced /\ ObjectsPlaced /\ BatchesPlaced
      /\ InflightExact /\ TerminalDrains /\ OneChunkFirst
  BY DEF IInv, Placement
<1>1. /\ pc = "process" /\ proc.reqs = <<>> /\ pc' = "recv" /\ woken' = FALSE /\ proc'.reqs = <<>>
      /\ reqs' = Restrict(reqs, DOMAIN reqs \cap Referenced)
      /\ UNCHANGED <<pending, adder, running, inflight, terminal, batch, last, free_table>>
  BY DEF EndProcess, NoBatch
<1>2. /\ DOMAIN reqs' = DOMAIN reqs \cap Referenced
      /\ \A o \in DOMAIN reqs' : reqs'[o] = reqs[o]
  BY <1>1 DEF Restrict
<1>3. /\ running \subseteq Referenced /\ terminal \subseteq Referenced
      /\ DOMAIN inflight \subseteq Referenced
      /\ \A i \in DOMAIN pending : pending[i].chunk # None => pending[i].chunk \in Referenced
  BY DEF Referenced
<1>4. /\ status' \in [Uids -> {"new", "live", "dropped", "aborted", "done"}]
      /\ \A u \in Uids : status[u] # "new" => status'[u] # "new"
  BY <1>0 DEF EndProcess, TypeOK
<1>5. adder.reqs = <<>> /\ adder.chunked = <<>> /\ batch.reqs = <<>>
  BY <1>0, <1>1 DEF AdderPlaced, BatchesPlaced
<1>6. TypeOK' BY <1>0, <1>1, <1>2, <1>3, <1>4, EmptySeq DEF TypeOK
<1>7. QueuePlaced'
  <2>1. \A i \in DOMAIN pending : pending[i].uid \in Uids
    <3>1. \A i \in DOMAIN pending : pending[i] \in PendingType
      BY <1>0, ElementOfSeq, LenProperties DEF TypeOK
    <3>2. QED BY <3>1 DEF PendingType
  <2>2. QED BY <1>0, <1>1, <1>2, <1>3, <1>4, <2>1 DEF QueuePlaced
<1>8. AdderPlaced'
  <2>1. Len(pending) \in Nat BY <1>0, LenProperties DEF TypeOK
  <2>2. QED BY <1>1, <1>5, <2>1 DEF AdderPlaced
<1>9. ObjectsPlaced'
  <2>1. QueuedUids' = QueuedUids BY <1>1 DEF QueuedUids
  <2>2. \A o \in DOMAIN reqs : o[1] \in Uids BY <1>0 DEF TypeOK, Objs
  <2>3. QED BY <1>0, <1>1, <1>2, <1>4, <2>1, <2>2 DEF ObjectsPlaced
<1>10. BatchesPlaced' BY <1>0, <1>1, <1>5, EmptyFacts DEF BatchesPlaced
<1>11. InflightExact' BY <1>0, <1>1 DEF InflightExact
<1>12. TerminalDrains' /\ OneChunkFirst' BY <1>0, <1>1 DEF TerminalDrains, OneChunkFirst
<1>13. QED BY <1>6, <1>7, <1>8, <1>9, <1>10, <1>11, <1>12 DEF IInv, Placement

-----------------------------------------------------------------------------
(* The theorems.                                                           *)

\* The invariant is inductive.
LEMMA NextIInv == IInv /\ [Next]_vars => IInv'
<1> SUFFICES ASSUME IInv, [Next]_vars PROVE IInv' OBVIOUS
<1>1. CASE UNCHANGED vars
  BY <1>1 DEF vars, control, memory, history, IInv, TypeOK, Placement, QueuePlaced, AdderPlaced,
     ObjectsPlaced, BatchesPlaced, QueuedUids, InflightExact, TerminalDrains, OneChunkFirst
<1>2. CASE Receive BY <1>2, ReceiveUserStep, ReceiveAbortStep DEF Receive
<1>3. CASE Step
  BY <1>3, SelectionStep, StartPrefillStep, AdmitStep, StopAdmissionStep, ForwardStep,
     NoForwardStep, ProcessStep, EndProcessStep DEF Step
<1>4. QED BY <1>1, <1>2, <1>3 DEF Next

\* The inductive invariant holds in every reachable state.
THEOREM SchedulerInvariant == Spec => []IInv
BY InitIInv, NextIInv, PTL DEF Spec

\* Every control variable of the scheduler keeps its type.
THEOREM TypeCorrect == Spec => []TypeOK
<1>1. IInv => TypeOK BY DEF IInv
<1>2. QED BY <1>1, SchedulerInvariant, PTL

\* _inflight_reqs is exact whatever is aborted, chunked or finished in the
\* meantime: no request is released early, none is waited for in vain.
THEOREM InflightCorrect == Spec => []InflightExact
<1>1. IInv => InflightExact BY DEF IInv
<1>2. QED BY <1>1, SchedulerInvariant, PTL

\* A request marked terminal is in flight and is never scheduled again.
THEOREM TerminalCorrect == Spec => []TerminalDrains
<1>1. IInv => TerminalDrains BY DEF IInv
<1>2. QED BY <1>1, SchedulerInvariant, PTL

\* At most one prompt is cut, and it is at the head of the queue.
THEOREM ChunkCorrect == Spec => []OneChunkFirst
<1>1. IInv => OneChunkFirst BY DEF IInv
<1>2. QED BY <1>1, SchedulerInvariant, PTL

\* A uid is at one place of the loop at a time: what an admission, an abort or a
\* result takes from the queue, the adder, a batch or running_reqs is nowhere else.
THEOREM PlacementCorrect == Spec => []Placement
<1>1. IInv => Placement BY DEF IInv
<1>2. QED BY <1>1, SchedulerInvariant, PTL

-----------------------------------------------------------------------------
(* What the service promises.                                              *)

\* Who can still get a token: the complete requests that run or are admitted, on the
\* device or about to go there, and not marked terminal.
Open == {o \in (running \cup DOMAIN inflight \cup ToSet(adder.reqs) \cup ToSet(batch.reqs)) \ terminal :
           reqs[o].class = "Req"}

Single(S) == \A o, p \in S : o[1] = p[1] => o = p

\* One complete request per uid, one object per uid in a batch.
OneReqPerUid ==
  /\ Single({o \in DOMAIN reqs : reqs[o].class = "Req"})
  /\ Single(ToSet(batch.reqs)) /\ Single(ToSet(last.reqs))
  /\ \A o \in running : reqs[o].class = "Req"

\* Whoever can get a token or is queued is live.
OpenIsLive ==
  /\ \A o \in Open : status[o[1]] = "live"
  /\ \A i \in DOMAIN pending : status[pending[i].uid] = "live"

\* The tokens given out for a uid, those of the iteration at work included.
Told(u) == Len(sent[u]) + IF RepliesTo(u) = {} THEN 0 ELSE 1

\* What the host knows of a request is its prompt and the tokens given out, so that
\* it reaches its last token when the service says it must.
QueuedCounted(q) == Told(q.uid) = 0 /\ q.out <= MostTokens /\ MostTokens \in Nat \ {0}

ReqCounted(o) ==
  LET r == reqs[o]
  IN  /\ MostTokens \in Nat \ {0} /\ r.max \in Nat /\ r.host \in Seq(Tokens \cup {None})
      /\ r.max + Told(o[1]) <= Len(r.host) + MostTokens
      /\ Told(o[1]) > 0 => Len(r.host) < r.max

TokensCounted ==
  /\ \A i \in DOMAIN pending : QueuedCounted(pending[i])
  /\ \A k \in DOMAIN adder.chunked : adder.chunked[k].out <= MostTokens
  /\ \A o \in Open : ReqCounted(o)
  /\ \A u \in Uids : status[u] = "new" => sent[u] = <<>>

\* The replies of the iteration at work: at most one per uid, each of a live request
\* that is no longer among the results to come.
RepliesPlaced ==
  /\ pc # "process" => reply = <<>>
  /\ \A i \in DOMAIN reply :
       LET u == reply[i].uid
       IN  /\ u \in Uids /\ reply[i].finished \in BOOLEAN
           /\ RepliesTo(u) = {i}
           /\ status[u] = "live" /\ u \notin QueuedUids
           /\ MostTokens \in Nat /\ Len(sent[u]) < MostTokens
           /\ Len(sent[u]) + 1 = MostTokens => reply[i].finished
           /\ \A o \in Open : o[1] = u => ~reply[i].finished /\ o \notin ToSet(proc.reqs)

\* The results have a token for each request of their batch.
ResultsTyped ==
  /\ sent \in [Uids -> Seq(BOOLEAN)] /\ reply \in Seq([uid : Uids, token : Tokens \cup {None}, finished : BOOLEAN])
  /\ \A b \in {last, proc} :
       b.tokens \in Seq(Tokens \cup {None}) /\ Len(b.tokens) = Len(b.reqs)

SInv == OneReqPerUid /\ OpenIsLive /\ TokensCounted /\ RepliesPlaced /\ ResultsTyped

-----------------------------------------------------------------------------
\* Among the output lengths of the workload there is a largest one.
LEMMA MostTokensBound ==
  ASSUME NEW w \in Workload, Len(w.ids) < MaxSeqLen
  PROVE  /\ MostTokens \in Nat \ {0}
         /\ OutputLength(w, MaxSeqLen - Len(w.ids)) <= MostTokens
<1>1. \A v \in Workload : Len(v.ids) \in Nat /\ v.max \in Nat
  BY WorkloadAssumption, LenProperties
<1>2. MaxSeqLen \in Nat BY SizesAssumption
<1>3. \A v \in Workload : MostOf(v) \in 0 .. MaxSeqLen BY <1>1, <1>2 DEF MostOf, OutputLength
<1> DEFINE T == {MaxSeqLen - MostOf(v) : v \in Workload}
<1>4. T \subseteq Nat /\ T # {} BY <1>2, <1>3
<1>5. PICK x \in T : \A y \in T : x <= y
  <2> HIDE DEF T
  <2>1. QED BY <1>4, LeastNatural
<1>6. PICK v \in Workload : x = MaxSeqLen - MostOf(v) OBVIOUS
<1>7. ASSUME NEW z \in Workload PROVE MostOf(z) <= MostOf(v)
  <2>1. x <= MaxSeqLen - MostOf(z) BY <1>5
  <2>2. QED BY <2>1, <1>2, <1>3, <1>6
<1>8. /\ MostTokens \in {MostOf(z) : z \in Workload}
      /\ \A z \in Workload : MostOf(z) <= MostTokens
  BY <1>7 DEF MostTokens
<1>9. MostOf(w) \in Nat \ {0} /\ OutputLength(w, MaxSeqLen - Len(w.ids)) <= MostOf(w)
  BY <1>1, <1>2 DEF MostOf, OutputLength
<1>10. MostTokens \in 0 .. MaxSeqLen /\ MostOf(w) <= MostTokens BY <1>3, <1>8
<1>11. QED BY <1>1, <1>2, <1>3, <1>9, <1>10 DEF OutputLength

\* Nothing or one thing in order.
LEMMA InOrderFacts ==
  /\ InOrder({}) = <<>>
  /\ \A i : InOrder({i}) = <<i>>
<1>1. InOrder({}) = <<>>
  <2>1. Cardinality({}) = 0 BY FS_EmptySet
  <2>2. <<>> \in [1 .. 0 -> {}] /\ \A q \in [1 .. 0 -> {}] : q = <<>> OBVIOUS
  <2>3. \A i, j \in DOMAIN <<>> : i < j => <<>>[i] < <<>>[j] OBVIOUS
  <2>4. QED BY <2>1, <2>2, <2>3 DEF InOrder
<1>2. ASSUME NEW i PROVE InOrder({i}) = <<i>>
  <2>1. Cardinality({i}) = 1 BY FS_Singleton
  <2>2. <<i>> \in [1 .. 1 -> {i}] /\ \A q \in [1 .. 1 -> {i}] : q = <<i>>
    OBVIOUS
  <2>3. \A k, j \in DOMAIN <<i>> : k < j => <<i>>[k] < <<i>>[j] OBVIOUS
  <2>4. QED BY <2>1, <2>2, <2>3 DEF InOrder
<1>3. QED BY <1>1, <1>2

\* Nobody is there.
LEMMA InitSInv == Init => SInv
<1> SUFFICES ASSUME Init PROVE SInv OBVIOUS
<1>1. /\ reqs = <<>> /\ running = {} /\ inflight = <<>> /\ pending = <<>> /\ pc = "recv"
      /\ adder.reqs = <<>> /\ adder.chunked = <<>> /\ batch.reqs = <<>> /\ last.reqs = <<>>
      /\ proc.reqs = <<>> /\ last.tokens = <<>> /\ proc.tokens = <<>> /\ reply = <<>>
      /\ sent = [u \in Uids |-> <<>>]
  BY DEF Init, NoAdder, NoBatch
<1>2. Open = {} BY <1>1, EmptyFacts DEF Open
<1>3. OneReqPerUid BY <1>1, EmptyFacts DEF OneReqPerUid, Single
<1>4. OpenIsLive /\ TokensCounted BY <1>1, <1>2 DEF OpenIsLive, TokensCounted
<1>5. RepliesPlaced BY <1>1 DEF RepliesPlaced
<1>6. ResultsTyped
  <2>1. \A S : <<>> \in Seq(S) /\ Len(<<>>) = 0 OBVIOUS
  <2>2. sent \in [Uids -> Seq(BOOLEAN)] BY <1>1, <2>1
  <2>3. QED BY <1>1, <2>1, <2>2 DEF ResultsTyped
<1>7. QED BY <1>3, <1>4, <1>5, <1>6 DEF SInv

-----------------------------------------------------------------------------
(* Steps outside the processing of results.                                *)

\* Tokens are counted the same as long as none is given out.
LEMMA TellsNothing ==
  ASSUME UNCHANGED <<sent, reply>>
  PROVE  /\ MostTokens' = MostTokens
         /\ \A u : Told(u)' = Told(u)
         /\ \A o : /\ ReqCounted(o) /\ reqs'[o].max = reqs[o].max /\ reqs'[o].host = reqs[o].host
                   => ReqCounted(o)'
         /\ \A q, i : /\ QueuedCounted(q) /\ pending'[i].uid = q.uid
                      /\ pending'[i].out <= MostTokens
                      => QueuedCounted(pending[i])'
<1>1. MostTokens' = MostTokens BY DEF MostTokens, MostOf, OutputLength
<1>2. ASSUME NEW u PROVE Told(u)' = Told(u) BY DEF Told, RepliesTo
<1>3. ASSUME NEW o, ReqCounted(o), reqs'[o].max = reqs[o].max, reqs'[o].host = reqs[o].host
      PROVE  ReqCounted(o)'
  BY <1>1, <1>2, <1>3 DEF ReqCounted
<1>4. ASSUME NEW q, NEW i, QueuedCounted(q), pending'[i].uid = q.uid,
             pending'[i].out <= MostTokens
      PROVE  QueuedCounted(pending[i])'
  BY <1>1, <1>4 DEF QueuedCounted, Told, RepliesTo
<1>5. QED BY <1>1, <1>2, <1>3, <1>4

\* The objects that are open exist.
LEMMA OpenObjects ==
  IInv => \A o \in Open : o \in DOMAIN reqs /\ o \in Objs /\ o[1] \in Uids /\ reqs[o].class = "Req"
<1> SUFFICES ASSUME IInv, NEW o \in Open
             PROVE  o \in DOMAIN reqs /\ o \in Objs /\ o[1] \in Uids /\ reqs[o].class = "Req"
  OBVIOUS
<1>1. TypeOK /\ AdderPlaced /\ BatchesPlaced BY DEF IInv, Placement
<1>2. ToSet(adder.reqs) \subseteq DOMAIN reqs BY <1>1 DEF AdderPlaced, ToSet
<1>3. o \in DOMAIN reqs BY <1>1, <1>2 DEF TypeOK, BatchesPlaced, Open
<1>4. QED BY <1>1, <1>3 DEF TypeOK, Objs, Open

\* A step before the results are processed keeps the invariant if whoever is open
\* behind it was open before, or is counted anew.
LEMMA QuietStep ==
  ASSUME IInv, SInv, pc # "process", UNCHANGED <<sent, reply>>, OneReqPerUid',
         \A u \in Uids : status'[u] = "new" => status[u] = "new",
         \A o \in Open' :
           /\ status'[o[1]] = "live"
           /\ \/ o \in Open /\ reqs'[o].max = reqs[o].max /\ reqs'[o].host = reqs[o].host
              \/ ReqCounted(o)',
         \A i \in DOMAIN pending' :
           /\ status'[pending'[i].uid] = "live"
           /\ \/ \E j \in DOMAIN pending :
                   pending'[i].uid = pending[j].uid /\ pending'[i].out <= MostTokens
              \/ QueuedCounted(pending[i])',
         \A k \in DOMAIN adder'.chunked : adder'.chunked[k].out <= MostTokens,
         \A b \in {last', proc'} :
           b.tokens \in Seq(Tokens \cup {None}) /\ Len(b.tokens) = Len(b.reqs)
  PROVE  SInv'
<1>1. reply = <<>> BY DEF SInv, RepliesPlaced
<1>2. OpenIsLive' BY DEF OpenIsLive
<1>3. TokensCounted'
  <2>1. ASSUME NEW i \in DOMAIN pending' PROVE QueuedCounted(pending[i])'
    <3>1. CASE QueuedCounted(pending[i])' BY <3>1
    <3>2. ASSUME NEW j \in DOMAIN pending,
                 pending'[i].uid = pending[j].uid, pending'[i].out <= MostTokens
          PROVE  QueuedCounted(pending[i])'
      <4>1. QueuedCounted(pending[j]) BY DEF SInv, TokensCounted
      <4>2. QED BY <3>2, <4>1, TellsNothing
    <3>3. QED BY <3>1, <3>2
  <2>2. ASSUME NEW o \in Open' PROVE ReqCounted(o)'
    BY TellsNothing DEF SInv, TokensCounted
  <2>3. \A k \in DOMAIN adder'.chunked : adder'.chunked[k].out <= MostTokens'
    BY TellsNothing
  <2>4. \A u \in Uids : status'[u] = "new" => sent'[u] = <<>> BY DEF SInv, TokensCounted
  <2>5. QED BY <2>1, <2>2, <2>3, <2>4 DEF TokensCounted
<1>4. RepliesPlaced' BY <1>1 DEF RepliesPlaced
<1>5. ResultsTyped' BY DEF SInv, ResultsTyped
<1>6. QED BY <1>2, <1>3, <1>4, <1>5 DEF SInv


\* A user's message: dropped, or queued with all its tokens to come.
LEMMA ReceiveUserTells ==
  ASSUME IInv, SInv, NEW u \in Uids, NEW w \in Workload, ReceiveUser(u, w)
  PROVE  SInv'
<1> DEFINE room == MaxSeqLen - Len(w.ids)
           q == [uid |-> u, ids |-> w.ids, out |-> OutputLength(w, room),
                 ignore |-> w.ignore, chunk |-> None]
<1>1. /\ pc = "recv" /\ status[u] = "new"
      /\ UNCHANGED <<adder, running, inflight, terminal, batch, last, proc, reqs, reply, sent>>
      /\ \/ status' = [status EXCEPT ![u] = "dropped"] /\ pending' = pending
         \/ /\ room > 0 /\ status' = [status EXCEPT ![u] = "live"]
            /\ pending' = Append(pending, q)
  BY DEF ReceiveUser, HasRoom, memory
<1>2. /\ OneReqPerUid /\ OpenIsLive /\ TokensCounted /\ RepliesPlaced /\ ResultsTyped
      /\ TypeOK /\ status \in [Uids -> {"new", "live", "dropped", "aborted", "done"}]
      /\ pending \in Seq(PendingType)
  BY DEF SInv, IInv, TypeOK
<1>3. Open' = Open BY <1>1 DEF Open
<1>4. OneReqPerUid' BY <1>1, <1>2 DEF OneReqPerUid, Single
<1>5. \A v \in Uids \ {u} : status'[v] = status[v] BY <1>1, <1>2
<1>6. \A v \in Uids : status'[v] = "new" => status[v] = "new" BY <1>1, <1>2
<1>7. ASSUME NEW o \in Open' PROVE status'[o[1]] = "live"
  <2>1. o \in Open /\ status[o[1]] = "live" BY <1>2, <1>3 DEF OpenIsLive
  <2>2. o[1] # u BY <1>1, <2>1
  <2>3. o[1] \in Uids \ {u} BY <2>1, <2>2, OpenObjects
  <2>4. QED BY <1>5, <2>1, <2>3
<1>8. ASSUME NEW i \in DOMAIN pending
      PROVE  /\ pending[i].uid \in Uids \ {u} /\ status'[pending[i].uid] = "live"
             /\ pending[i].out <= MostTokens
  <2>1. pending[i] \in PendingType BY <1>2, ElementOfSeq, LenProperties
  <2>2. pending[i].uid \in Uids BY <2>1 DEF PendingType
  <2>3. status[pending[i].uid] = "live" /\ QueuedCounted(pending[i])
    BY <1>2 DEF OpenIsLive, TokensCounted
  <2>4. QED BY <1>1, <1>5, <2>2, <2>3 DEF QueuedCounted
<1>9. ASSUME NEW i \in DOMAIN pending'
      PROVE  /\ status'[pending'[i].uid] = "live"
             /\ \/ \E j \in DOMAIN pending :
                     pending'[i].uid = pending[j].uid /\ pending'[i].out <= MostTokens
                \/ QueuedCounted(pending[i])'
  <2>1. CASE pending' = pending BY <2>1, <1>8
  <2>2. CASE /\ room > 0 /\ status' = [status EXCEPT ![u] = "live"]
             /\ pending' = Append(pending, q)
    <3>1. /\ DOMAIN pending = 1 .. Len(pending) /\ Len(pending) \in Nat
          /\ DOMAIN pending' = 1 .. Len(pending) + 1
          /\ \A j \in 1 .. Len(pending) : pending'[j] = pending[j]
          /\ pending'[Len(pending) + 1] = q
      BY <1>2, <2>2, LenProperties, AppendProperties
    <3>2. CASE i \in 1 .. Len(pending) BY <3>1, <3>2, <1>8
    <3>3. CASE i = Len(pending) + 1
      <4>1. pending'[i].uid = u /\ pending'[i].out = OutputLength(w, room)
        <5>1. q.uid = u /\ q.out = OutputLength(w, room) OBVIOUS
        <5> HIDE DEF q, room
        <5>2. pending'[i] = q BY <3>1, <3>3
        <5>3. QED BY <5>1, <5>2
      <4>2. Len(w.ids) < MaxSeqLen BY <2>2, WorkloadAssumption, SizesAssumption, LenProperties
      <4>3. MostTokens \in Nat \ {0} /\ OutputLength(w, room) <= MostTokens
        BY <4>2, MostTokensBound
      <4>4. sent'[u] = <<>> /\ reply' = <<>> BY <1>1, <1>2 DEF TokensCounted, RepliesPlaced
      <4>5. RepliesTo(u)' = {} BY <4>4 DEF RepliesTo
      <4>6. Told(u)' = 0 BY <4>4, <4>5 DEF Told
      <4>7. MostTokens' = MostTokens BY <1>1, TellsNothing
      <4>8. QueuedCounted(pending[i])'
        BY <4>1, <4>3, <4>6, <4>7 DEF QueuedCounted, Told, RepliesTo
      <4>9. status'[u] = "live" BY <2>2, <1>2
      <4>10. QED BY <4>1, <4>8, <4>9
    <3>4. QED BY <3>1, <3>2, <3>3
  <2>3. QED BY <1>1, <2>1, <2>2
<1>10. \A o \in Open' : o \in Open /\ reqs'[o].max = reqs[o].max /\ reqs'[o].host = reqs[o].host
  BY <1>1, <1>3
<1>11. \A k \in DOMAIN adder'.chunked : adder'.chunked[k].out <= MostTokens
  BY <1>1, <1>2 DEF TokensCounted
<1>12. \A b \in {last', proc'} :
         b.tokens \in Seq(Tokens \cup {None}) /\ Len(b.tokens) = Len(b.reqs)
  BY <1>1, <1>2 DEF ResultsTyped
<1> HIDE DEF q, room
<1>13. QED BY <1>1, <1>4, <1>6, <1>7, <1>9, <1>10, <1>11, <1>12, QuietStep

\* The three aborts: behind each of them nobody is open for the uid.
LEMMA WithdrawTells ==
  ASSUME IInv, SInv, NEW u \in Uids, pc = "recv", Withdraw(u), NEW gone,
         gone \subseteq AbortTarget(u) \ DOMAIN inflight,
         DOMAIN reqs' = DOMAIN reqs \ gone, \A o \in DOMAIN reqs' : reqs'[o] = reqs[o],
         terminal \ gone \subseteq terminal',
         \/ AbortTarget(u) = {}
         \/ \E o \in AbortTarget(u) : o \in gone \/ (o \in DOMAIN inflight /\ o \in terminal'),
         UNCHANGED <<adder, inflight, batch, last, proc, reply, sent>>, IInv'
  PROVE  SInv'
<1>1. /\ TypeOK /\ QueuePlaced /\ AdderPlaced /\ ObjectsPlaced /\ BatchesPlaced /\ InflightExact
      /\ TerminalDrains
      /\ OneReqPerUid /\ OpenIsLive /\ TokensCounted /\ RepliesPlaced /\ ResultsTyped
  BY DEF IInv, Placement, SInv
<1>2. /\ adder.reqs = <<>> /\ batch.reqs = <<>> /\ proc.reqs = <<>>
      /\ adder'.reqs = <<>> /\ batch'.reqs = <<>>
      /\ DOMAIN inflight = ToSet(last.reqs)
  BY <1>1, EmptyFacts DEF AdderPlaced, BatchesPlaced, InflightExact
<1>3. /\ pending' = WithdrawQueued(u)
      /\ running' = IF ChunkOf(u) # {} THEN running ELSE running \ RunningOf(u)
      /\ status' = [status EXCEPT ![u] = IF @ = "live" THEN "aborted" ELSE @]
      /\ status \in [Uids -> {"new", "live", "dropped", "aborted", "done"}]
  BY <1>1 DEF Withdraw, TypeOK
<1>4. Open = {o \in (running \cup DOMAIN inflight) \ terminal : reqs[o].class = "Req"}
  BY <1>2, EmptyFacts DEF Open
<1>5. Open' = {o \in (running' \cup DOMAIN inflight) \ terminal' : reqs'[o].class = "Req"}
  BY <1>2, EmptyFacts DEF Open
<1>6. \A o \in Open' : o \in DOMAIN reqs' /\ o[1] \in Uids
  <2>1. (\A o \in Open : o \in DOMAIN reqs /\ o \in Objs /\ o[1] \in Uids /\ reqs[o].class = "Req")'
    BY OpenObjects, PTL
  <2>2. QED BY <2>1
<1>7. ASSUME NEW o \in Open'
      PROVE  o \in Open /\ reqs'[o] = reqs[o]
  <2>1. o \in DOMAIN reqs' /\ o \notin gone BY <1>6
  <2>2. QED BY <1>3, <1>4, <1>5, <2>1
<1>8. ASSUME NEW o \in Open', o[1] = u PROVE FALSE
  <2>1. /\ o \in Open /\ o \in DOMAIN reqs /\ reqs[o].class = "Req" /\ o \notin gone
        /\ o \notin terminal'
    BY <1>5, <1>6, <1>7, OpenObjects
  <2>2. u \notin QueuedUids BY <1>1, <1>2, <1>8, <2>1, EmptyFacts DEF ObjectsPlaced
  <2>3. Queued(u) = {} BY <2>2 DEF Queued, QueuedUids
  <2>4. ChunkOf(u) = {} BY <2>3 DEF ChunkOf
  <2>5. o \notin running' BY <1>3, <1>8, <2>4 DEF RunningOf
  <2>6. o \in DOMAIN inflight BY <1>5, <2>5
  <2>7. o \in InflightOf(u) BY <1>8, <2>6 DEF InflightOf
  <2>8. AbortTarget(u) # {} BY <2>4, <2>7 DEF AbortTarget
  <2>9. PICK p \in AbortTarget(u) : p \in gone \/ (p \in DOMAIN inflight /\ p \in terminal')
    BY <2>8
  <2>10. CASE RunningOf(u) # {}
    <3>1. p \in running /\ p[1] = u BY <2>4, <2>9, <2>10 DEF AbortTarget, RunningOf
    <3>2. p \in DOMAIN reqs /\ reqs[p].class = "Req" BY <1>1, <3>1 DEF TypeOK, OneReqPerUid
    <3>3. o = p BY <1>1, <1>8, <2>1, <3>1, <3>2 DEF OneReqPerUid, Single
    <3>4. QED BY <2>1, <2>9, <3>3
  <2>11. CASE RunningOf(u) = {}
    <3>1. p \in InflightOf(u) BY <2>4, <2>9, <2>11 DEF AbortTarget
    <3>2. p \in DOMAIN inflight /\ p[1] = u BY <3>1 DEF InflightOf
    <3>3. p \in terminal' BY <2>9, <3>2
    <3>4. o = p BY <1>1, <1>2, <1>8, <2>6, <3>2 DEF OneReqPerUid, Single
    <3>5. QED BY <2>1, <3>3, <3>4
  <2>12. QED BY <2>10, <2>11
<1>9. \A v \in Uids \ {u} : status'[v] = status[v] BY <1>3
<1>10. \A v \in Uids : status'[v] = "new" => status[v] = "new" BY <1>3
<1>11. ASSUME NEW o \in Open'
       PROVE  /\ status'[o[1]] = "live"
              /\ o \in Open /\ reqs'[o].max = reqs[o].max /\ reqs'[o].host = reqs[o].host
  <2>1. o \in Open /\ o[1] \in Uids \ {u} BY <1>6, <1>7, <1>8
  <2>2. QED BY <1>1, <1>7, <1>9, <2>1 DEF OpenIsLive
<1>12. ASSUME NEW i \in DOMAIN pending'
       PROVE  /\ status'[pending'[i].uid] = "live"
              /\ \E j \in DOMAIN pending :
                   pending'[i].uid = pending[j].uid /\ pending'[i].out <= MostTokens
  <2>1. PICK j \in DOMAIN pending : pending'[i] = pending[j] /\ pending[j].uid # u
    BY <1>1, <1>3, WithdrawQueue
  <2>2. pending[j].uid \in Uids
    <3>1. pending[j] \in PendingType BY <1>1, ElementOfSeq, LenProperties DEF TypeOK
    <3>2. QED BY <3>1 DEF PendingType
  <2>3. status[pending[j].uid] = "live" /\ pending[j].out <= MostTokens
    BY <1>1 DEF OpenIsLive, TokensCounted, QueuedCounted
  <2>4. QED BY <1>9, <2>1, <2>2, <2>3
<1>13. OneReqPerUid'
  <2>1. {o \in DOMAIN reqs' : reqs'[o].class = "Req"} \subseteq {o \in DOMAIN reqs : reqs[o].class = "Req"}
    OBVIOUS
  <2>2. \A o \in running' : o \in DOMAIN reqs' /\ reqs'[o].class = "Req"
    <3>1. running' \subseteq DOMAIN reqs' BY DEF IInv, TypeOK
    <3>2. QED BY <1>1, <1>3, <3>1 DEF OneReqPerUid
  <2>3. QED BY <1>1, <2>1, <2>2 DEF OneReqPerUid, Single
<1>14. \A k \in DOMAIN adder'.chunked : adder'.chunked[k].out <= MostTokens
  BY <1>1 DEF TokensCounted
<1>15. \A b \in {last', proc'} :
         b.tokens \in Seq(Tokens \cup {None}) /\ Len(b.tokens) = Len(b.reqs)
  BY <1>1 DEF ResultsTyped
<1>16. QED BY <1>10, <1>11, <1>12, <1>13, <1>14, <1>15, QuietStep

\* An abort.
LEMMA ReceiveAbortTells ==
  ASSUME IInv, SInv, NEW u \in Uids, ReceiveAbort(u), IInv'
  PROVE  SInv'
<1>1. CASE AbortNothing(u)
  <2>1. /\ pc = "recv" /\ Withdraw(u) /\ AbortTarget(u) = {}
        /\ UNCHANGED <<adder, inflight, terminal, batch, last, proc, reqs, reply, sent>>
    BY <1>1 DEF AbortNothing, memory
  <2>2. {} \subseteq AbortTarget(u) \ DOMAIN inflight /\ DOMAIN reqs' = DOMAIN reqs \ {}
        /\ terminal \ {} \subseteq terminal' /\ \A o \in DOMAIN reqs' : reqs'[o] = reqs[o]
    BY <2>1
  <2>3. QED BY <2>1, <2>2, WithdrawTells
<1>2. CASE AbortInflight(u)
  <2>1. /\ pc = "recv" /\ Withdraw(u)
        /\ UNCHANGED <<adder, inflight, batch, last, proc, reqs, reply, sent>>
    BY <1>2 DEF AbortInflight, memory
  <2>2. PICK o \in AbortTarget(u) \cap DOMAIN inflight : terminal' = terminal \cup {o}
    BY <1>2 DEF AbortInflight
  <2>3. {} \subseteq AbortTarget(u) \ DOMAIN inflight /\ DOMAIN reqs' = DOMAIN reqs \ {}
        /\ terminal \ {} \subseteq terminal' /\ \A p \in DOMAIN reqs' : reqs'[p] = reqs[p]
    BY <2>1, <2>2
  <2>4. QED BY <2>1, <2>2, <2>3, WithdrawTells
<1>3. CASE AbortNow(u)
  <2>1. /\ pc = "recv" /\ Withdraw(u)
        /\ UNCHANGED <<adder, inflight, batch, last, proc, reply, sent>>
    BY <1>3 DEF AbortNow
  <2>2. PICK o \in AbortTarget(u) \ DOMAIN inflight :
          reqs' = Restrict(reqs, DOMAIN reqs \ {o}) /\ terminal' = terminal \ {o}
    BY <1>3 DEF AbortNow
  <2>3. /\ {o} \subseteq AbortTarget(u) \ DOMAIN inflight
        /\ DOMAIN reqs' = DOMAIN reqs \ {o} /\ \A p \in DOMAIN reqs' : reqs'[p] = reqs[p]
        /\ terminal \ {o} \subseteq terminal'
    BY <2>2 DEF Restrict
  <2>4. o \in AbortTarget(u) /\ o \in {o} BY <2>2
  <2>5. QED BY <2>1, <2>3, <2>4, WithdrawTells
<1>4. QED BY <1>1, <1>2, <1>3 DEF ReceiveAbort

-----------------------------------------------------------------------------
(* Selection and admission.                                                *)

\* A batch is taken from what runs or was admitted: nobody else opens.
LEMMA SelectTells ==
  ASSUME IInv, IInv', SInv, pc # "process",
         ToSet(batch'.reqs) \subseteq running \cup ToSet(adder.reqs), Single(ToSet(batch'.reqs)),
         adder'.reqs = <<>>, adder'.chunked = <<>>,
         \A i \in DOMAIN pending' : \E j \in DOMAIN pending :
           pending'[i].uid = pending[j].uid /\ pending'[i].out <= MostTokens,
         UNCHANGED <<reqs, running, inflight, terminal, last, proc, history>>
  PROVE  SInv'
<1>1. /\ OneReqPerUid /\ OpenIsLive /\ TokensCounted /\ RepliesPlaced /\ ResultsTyped
      /\ UNCHANGED <<reply, sent, status>>
  BY DEF SInv, history
<1>2. \A o \in Open' : o \in Open BY EmptyFacts DEF Open
<1>3. OneReqPerUid' BY <1>1 DEF OneReqPerUid, Single
<1>4. \A u \in Uids : status'[u] = "new" => status[u] = "new" BY <1>1
<1>5. \A o \in Open' :
        /\ status'[o[1]] = "live"
        /\ o \in Open /\ reqs'[o].max = reqs[o].max /\ reqs'[o].host = reqs[o].host
  BY <1>1, <1>2 DEF OpenIsLive
<1>6. \A i \in DOMAIN pending' :
        /\ status'[pending'[i].uid] = "live"
        /\ \E j \in DOMAIN pending :
             pending'[i].uid = pending[j].uid /\ pending'[i].out <= MostTokens
  BY <1>1 DEF OpenIsLive
<1>7. \A k \in DOMAIN adder'.chunked : adder'.chunked[k].out <= MostTokens OBVIOUS
<1>8. \A b \in {last', proc'} :
        b.tokens \in Seq(Tokens \cup {None}) /\ Len(b.tokens) = Len(b.reqs)
  BY <1>1 DEF ResultsTyped
<1>9. QED BY <1>1, <1>3, <1>4, <1>5, <1>6, <1>7, <1>8, QuietStep

\* What does not change the queue keeps what is known of its entries.
LEMMA QueueCounts ==
  ASSUME SInv, pending' = pending
  PROVE  \A i \in DOMAIN pending' : \E j \in DOMAIN pending :
           pending'[i].uid = pending[j].uid /\ pending'[i].out <= MostTokens
BY DEF SInv, TokensCounted, QueuedCounted

\* A decode batch has one object per uid.
LEMMA DecodeSingle ==
  ASSUME IInv, SInv, NEW b \in DecodeBatches
  PROVE  Single(ToSet(b.reqs)) /\ ToSet(b.reqs) \subseteq running
<1>1. ToSet(b.reqs) \subseteq running /\ running \subseteq DOMAIN reqs
  BY DecodeBatchFacts DEF IInv, TypeOK
<1>2. \A o \in running : reqs[o].class = "Req" BY DEF SInv, OneReqPerUid
<1>3. QED BY <1>1, <1>2 DEF SInv, OneReqPerUid, Single

\* A batch without prefill, or none.
LEMMA SelectionTells ==
  ASSUME IInv, IInv', SInv, SelectDecode \/ SelectNothing
  PROVE  SInv'
<1>1. /\ pc = "recv" /\ UNCHANGED <<pending, adder, reqs, running, inflight, terminal, last, proc, history>>
  BY DEF SelectDecode, SelectNothing, StartSelection, memory
<1>2. adder.reqs = <<>> /\ adder.chunked = <<>> BY <1>1 DEF IInv, Placement, AdderPlaced
<1>3. Single(ToSet(batch'.reqs)) /\ ToSet(batch'.reqs) \subseteq running
  <2>1. CASE SelectDecode
    <3>1. PICK b \in DecodeBatches : batch' = b BY <2>1 DEF SelectDecode, Select
    <3>2. QED BY <3>1, DecodeSingle
  <2>2. CASE SelectNothing
    BY <2>2, EmptyFacts DEF SelectNothing, Select, NoBatch, Single
  <2>3. QED BY <2>1, <2>2
<1>4. \A i \in DOMAIN pending' : \E j \in DOMAIN pending :
        pending'[i].uid = pending[j].uid /\ pending'[i].out <= MostTokens
  BY <1>1, QueueCounts
<1>5. adder'.reqs = <<>> /\ adder'.chunked = <<>> BY <1>1, <1>2
<1>6. QED BY <1>1, <1>3, <1>4, <1>5, SelectTells

\* The adder is created.
LEMMA StartPrefillTells ==
  ASSUME IInv, IInv', SInv, StartPrefill
  PROVE  SInv'
<1>1. /\ pc = "recv" /\ adder'.reqs = <<>> /\ adder'.chunked = <<>>
      /\ UNCHANGED <<pending, batch, reqs, running, inflight, terminal, last, proc, history>>
  BY DEF StartPrefill, StartSelection, memory
<1>2. batch.reqs = <<>> BY <1>1 DEF IInv, Placement, BatchesPlaced
<1>3. Single(ToSet(batch'.reqs)) /\ ToSet(batch'.reqs) = {}
  BY <1>1, <1>2, EmptyFacts DEF Single
<1>4. \A i \in DOMAIN pending' : \E j \in DOMAIN pending :
        pending'[i].uid = pending[j].uid /\ pending'[i].out <= MostTokens
  BY <1>1, QueueCounts
<1>5. QED BY <1>1, <1>3, <1>4, SelectTells

\* The objects of the adder have the uids of the entries it passed.
LEMMA AdderUids ==
  ASSUME IInv
  PROVE  /\ Single(ToSet(adder.reqs))
         /\ \A o \in ToSet(adder.reqs) : \E j \in DOMAIN pending :
              j <= Len(adder.reqs) /\ o[1] = pending[j].uid
<1>1. TypeOK /\ QueuePlaced /\ AdderPlaced BY DEF IInv, Placement
<1>2. /\ DOMAIN adder.reqs = 1 .. Len(adder.reqs) /\ DOMAIN pending = 1 .. Len(pending)
      /\ Len(adder.reqs) \in Nat /\ Len(pending) \in Nat /\ Len(adder.reqs) <= Len(pending)
  BY <1>1, LenProperties DEF TypeOK, AdderPlaced
<1>3. \A k \in DOMAIN adder.reqs :
        k \in DOMAIN pending /\ k <= Len(adder.reqs) /\ adder.reqs[k][1] = pending[k].uid
  BY <1>1, <1>2 DEF AdderPlaced
<1>4. \A i, j \in DOMAIN pending : pending[i].uid = pending[j].uid => i = j
  BY <1>1 DEF QueuePlaced
<1>5. QED BY <1>3, <1>4 DEF Single, ToSet

\* The prefill batch, or what there is instead.
LEMMA StopAdmissionTells ==
  ASSUME IInv, IInv', SInv, StopAdmission
  PROVE  SInv'
<1>1. /\ pc = "admit" /\ adder'.reqs = <<>> /\ adder'.chunked = <<>>
      /\ UNCHANGED <<reqs, running, inflight, terminal, last, proc, history>>
  BY DEF StopAdmission, NoAdder
<1>2. TypeOK /\ AdderPlaced /\ TokensCounted BY DEF IInv, Placement, SInv
<1>3. CASE adder.reqs # <<>>
  <2>1. batch'.reqs = adder.reqs /\ pending' = Requeue BY <1>3 DEF StopAdmission, Select
  <2>2. ASSUME NEW i \in DOMAIN pending'
        PROVE  \E j \in DOMAIN pending :
                 pending'[i].uid = pending[j].uid /\ pending'[i].out <= MostTokens
    <3>1. \/ i = 1 /\ Len(adder.chunked) = 1 /\ pending'[i] = adder.chunked[1]
          \/ \E m \in DOMAIN pending : pending'[i] = pending[m]
      BY <1>2, <1>3, <2>1, RequeueElements
    <3>2. CASE Len(adder.chunked) = 1 /\ pending'[i] = adder.chunked[1]
      <4>1. 1 \in DOMAIN adder.chunked BY <1>2, <3>2, LenProperties DEF TypeOK
      <4>2. /\ adder.chunked[1].chunk \in ToSet(adder.reqs)
            /\ adder.chunked[1].chunk[1] = adder.chunked[1].uid
            /\ adder.chunked[1].out <= MostTokens
        BY <1>2, <4>1 DEF AdderPlaced, TokensCounted
      <4>3. QED BY <3>2, <4>2, AdderUids
    <3>3. CASE \E m \in DOMAIN pending : pending'[i] = pending[m]
      BY <1>2, <3>3 DEF TokensCounted, QueuedCounted
    <3>4. QED BY <3>1, <3>2, <3>3
  <2>3. Single(ToSet(batch'.reqs)) /\ ToSet(batch'.reqs) \subseteq ToSet(adder.reqs)
    BY <2>1, AdderUids
  <2>4. QED BY <1>1, <2>2, <2>3, SelectTells
<1>4. CASE adder.reqs = <<>>
  <2>1. pending' = pending BY <1>4 DEF StopAdmission
  <2>2. Single(ToSet(batch'.reqs)) /\ ToSet(batch'.reqs) \subseteq running
    <3>1. CASE running # {}
      <4>1. PICK b \in DecodeBatches : batch' = b BY <1>4, <3>1 DEF StopAdmission, Select
      <4>2. QED BY <4>1, DecodeSingle
    <3>2. CASE running = {}
      BY <1>4, <3>2, EmptyFacts DEF StopAdmission, Select, NoBatch, Single
    <3>3. QED BY <3>1, <3>2
  <2>3. \A i \in DOMAIN pending' : \E j \in DOMAIN pending :
          pending'[i].uid = pending[j].uid /\ pending'[i].out <= MostTokens
    BY <2>1, QueueCounts
  <2>4. QED BY <1>1, <2>2, <2>3, SelectTells
<1>5. QED BY <1>3, <1>4

\* Either admission is a call of _add_one_req for the candidate.
LEMMA AdmitCalls ==
  ASSUME IInv, AdmitChunk \/ AdmitNew
  PROVE  /\ pc = "admit" /\ HasCandidate
         /\ \E n \in Nat, slot \in Slots, cached \in Int : \E handle, row :
              AddOneReq(Candidate, <<Candidate.uid, n>>, slot, handle, cached, row)
         /\ UNCHANGED <<pending, running, inflight, terminal, batch, last, proc, history>>
<1>0. TypeOK /\ QueuePlaced BY DEF IInv, Placement
<1>1. /\ pc = "admit" /\ HasCandidate
      /\ UNCHANGED <<pending, running, inflight, terminal, batch, last, proc, history>>
  BY DEF AdmitChunk, AdmitNew
<1> DEFINE q == Candidate
<1>2. q \in PendingType /\ \E i \in DOMAIN pending : q = pending[i]
  <2>1. pending \in Seq(PendingType) /\ adder.reqs \in Seq(Objs) BY <1>0 DEF TypeOK
  <2>2. Len(adder.reqs) + 1 \in 1 .. Len(pending) BY <1>1, <2>1, LenProperties DEF HasCandidate
  <2>3. QED BY <2>1, <2>2, ElementOfSeq, LenProperties DEF Candidate
<1>3. CASE AdmitChunk
  <2> DEFINE r == reqs[q.chunk]
             n == q.chunk[2] + 1
             row == SubSeq(token_pool[r.slot], 1, r.cached)
  <2>1. q.chunk # None /\ AddOneReq(q, <<q.uid, n>>, r.slot, r.handle, r.cached, row)
    BY <1>3 DEF AdmitChunk
  <2>2. q.chunk \in Objs /\ q.chunk \in DOMAIN reqs
    BY <1>0, <1>2, <2>1 DEF QueuePlaced, TypeOK
  <2>3. n \in Nat BY <2>2 DEF Objs
  <2>4. r.slot \in Slots /\ r.cached \in Int BY <1>0, <2>2 DEF TypeOK
  <2> HIDE DEF n, row, r, q
  <2>5. QED BY <1>1, <2>1, <2>3, <2>4 DEF q
<1>4. CASE AdmitNew
  <2> DEFINE node   == MatchReq(cm, q.ids).node
             cached == Len(node) * PageSize
             slot   == free_table[Len(free_table)]
             row    == SubSeq(q.ids, 1, cached)
  <2>1. free_table # <<>> /\ AddOneReq(q, <<q.uid, 0>>, slot, node, cached, row)
    BY <1>4 DEF AdmitNew
  <2>2. cached \in Int
    <3>1. q.ids \in Seq(Tokens) \ {<<>>} BY <1>2 DEF PendingType
    <3>2. QED BY <3>1, MatchLength
  <2>3. slot \in Slots
    <3>1. free_table \in Seq(Slots) BY <1>0 DEF TypeOK
    <3>2. Len(free_table) \in Nat \ {0} BY <2>1, <3>1, EmptySeq
    <3>3. QED BY <3>1, <3>2, ElementOfSeq
  <2> HIDE DEF cached, slot, node, row, q
  <2>4. 0 \in Nat OBVIOUS
  <2>5. QED BY <1>1, <2>1, <2>2, <2>3, <2>4 DEF q
<1>5. QED BY <1>3, <1>4

\* The request admitted has its whole prompt and all its tokens to come, or is a chunk.
LEMMA AdmitTells ==
  ASSUME IInv, IInv', SInv, AdmitChunk \/ AdmitNew
  PROVE  SInv'
<1>1. /\ pc = "admit" /\ HasCandidate
      /\ UNCHANGED <<pending, running, inflight, terminal, batch, last, proc, reply, sent, status>>
  BY AdmitCalls DEF history
<1>2. PICK n \in Nat, slot \in Slots, cached \in Int : \E handle, row :
        AddOneReq(Candidate, <<Candidate.uid, n>>, slot, handle, cached, row)
  BY AdmitCalls
<1>3. PICK handle, row :
        AddOneReq(Candidate, <<Candidate.uid, n>>, slot, handle, cached, row)
  BY <1>2
<1>4. /\ TypeOK /\ QueuePlaced /\ AdderPlaced /\ ObjectsPlaced
      /\ OneReqPerUid /\ OpenIsLive /\ TokensCounted /\ RepliesPlaced /\ ResultsTyped
  BY DEF IInv, Placement, SInv
<1> DEFINE k      == Len(adder.reqs) + 1
           q      == Candidate
           id     == <<q.uid, n>>
           remain == Len(q.ids) - cached
           chunk  == IF adder.budget < remain THEN adder.budget ELSE remain
           class  == IF chunk < remain THEN "ChunkedReq" ELSE "Req"
           new    == [slot |-> slot, cached |-> cached, device |-> cached + chunk,
                      max |-> cached + chunk + q.out, host |-> SubSeq(q.ids, 1, cached + chunk),
                      handle |-> handle, class |-> class, ignore |-> q.ignore]
<1>5. /\ k \in DOMAIN pending /\ k > Len(adder.reqs) /\ q = pending[k] /\ q \in PendingType
      /\ adder.budget \in Nat
  <2>1. pending \in Seq(PendingType) /\ adder.reqs \in Seq(Objs) /\ adder.budget \in Nat
    BY <1>1, <1>4 DEF TypeOK, AdderPlaced
  <2>2. k \in 1 .. Len(pending) /\ k > Len(adder.reqs)
    BY <1>1, <2>1, LenProperties DEF HasCandidate
  <2>3. q = pending[k] BY DEF Candidate
  <2>4. QED BY <2>1, <2>2, <2>3, LenProperties, ElementOfSeq
<1>6. /\ q.uid \in Uids /\ q.uid \in QueuedUids /\ id[1] = q.uid /\ id \in Objs
      /\ q.ids \in Seq(Tokens) /\ Len(q.ids) \in Nat /\ q.out \in Nat
  BY <1>5, LenProperties DEF PendingType, QueuedUids, Objs
<1>7. /\ DOMAIN reqs' = DOMAIN reqs \cup {id} /\ reqs'[id] = new
      /\ \A o \in DOMAIN reqs : o # id => reqs'[o] = reqs[o]
      /\ adder'.reqs = Append(adder.reqs, id)
      /\ adder'.chunked = IF class = "ChunkedReq"
                          THEN Append(adder.chunked, [q EXCEPT !.chunk = id]) ELSE adder.chunked
  BY <1>3 DEF AddOneReq
<1>8. status[q.uid] = "live" /\ QueuedCounted(q) BY <1>4, <1>5 DEF OpenIsLive, TokensCounted
<1>9. new.class = "Req" => new.host = SubSeq(q.ids, 1, Len(q.ids)) /\ new.max = Len(q.ids) + q.out
  <2>1. class = "Req" => cached + chunk = Len(q.ids) BY <1>5, <1>6
  <2> HIDE DEF class, chunk
  <2>2. QED BY <2>1
<1> HIDE DEF new, class, chunk, remain, q
<1>10. ToSet(adder'.reqs) = ToSet(adder.reqs) \cup {id}
  <2>1. adder.reqs \in Seq(Objs) BY <1>4 DEF TypeOK
  <2> HIDE DEF id
  <2>2. QED BY <1>6, <1>7, <2>1, AppendElements
<1>11. ASSUME NEW o \in DOMAIN reqs, reqs[o].class = "Req", o[1] = q.uid PROVE FALSE
  <2>1. o \in ToSet(adder.reqs) BY <1>4, <1>6, <1>11 DEF ObjectsPlaced
  <2>2. PICK j \in DOMAIN pending : j <= Len(adder.reqs) /\ q.uid = pending[j].uid
    BY <1>11, <2>1, AdderUids
  <2>3. j = k BY <1>4, <1>5, <2>2 DEF QueuePlaced
  <2>4. QED BY <1>4, <1>5, <2>2, <2>3, LenProperties DEF TypeOK
<1>12. \A o \in running : o \in DOMAIN reqs /\ o # id
  BY <1>4, <1>6 DEF TypeOK, ObjectsPlaced
<1>13. OneReqPerUid'
  <2>1. ASSUME NEW o \in DOMAIN reqs', NEW p \in DOMAIN reqs', o[1] = p[1],
               reqs'[o].class = "Req", reqs'[p].class = "Req"
        PROVE  o = p
    <3>1. CASE o # id /\ p # id
      <4>1. o \in DOMAIN reqs /\ p \in DOMAIN reqs /\ reqs[o].class = "Req" /\ reqs[p].class = "Req"
        BY <1>7, <2>1, <3>1
      <4>2. QED BY <1>4, <2>1, <4>1 DEF OneReqPerUid, Single
    <3>2. CASE o = id /\ p # id
      <4>1. p \in DOMAIN reqs /\ reqs[p].class = "Req" /\ p[1] = q.uid
        BY <1>6, <1>7, <2>1, <3>2
      <4>2. QED BY <1>11, <4>1
    <3>3. CASE o # id /\ p = id
      <4>1. o \in DOMAIN reqs /\ reqs[o].class = "Req" /\ o[1] = q.uid
        BY <1>6, <1>7, <2>1, <3>3
      <4>2. QED BY <1>11, <4>1
    <3>4. QED BY <3>1, <3>2, <3>3
  <2>2. \A o \in running' : reqs'[o].class = "Req"
    BY <1>1, <1>4, <1>7, <1>12 DEF OneReqPerUid
  <2>3. QED BY <1>1, <1>4, <2>1, <2>2 DEF OneReqPerUid, Single
<1>14. ASSUME NEW o \in Open'
       PROVE  /\ status'[o[1]] = "live"
              /\ \/ o \in Open /\ reqs'[o].max = reqs[o].max /\ reqs'[o].host = reqs[o].host
                 \/ ReqCounted(o)'
  <2>1. CASE o = id
    <3>1. reqs'[o].class = "Req" BY DEF Open
    <3>2. reqs'[o].host = q.ids /\ reqs'[o].max = Len(q.ids) + q.out
      <4>1. SubSeq(q.ids, 1, Len(q.ids)) = q.ids BY <1>6
      <4>2. QED BY <1>7, <1>9, <2>1, <3>1, <4>1
    <3>3. MostTokens' = MostTokens /\ q.out <= MostTokens /\ MostTokens \in Nat \ {0}
      BY <1>1, <1>8, TellsNothing DEF QueuedCounted
    <3>4. Told(o[1])' = 0
      <4>1. o[1] = q.uid BY <1>6, <2>1
      <4>2. sent'[q.uid] = sent[q.uid] /\ reply' = reply BY <1>1
      <4>3. Told(q.uid) = 0 BY <1>8 DEF QueuedCounted
      <4>4. QED BY <4>1, <4>2, <4>3 DEF Told, RepliesTo
    <3>5. q.ids \in Seq(Tokens \cup {None})
      <4>1. q.ids \in [1 .. Len(q.ids) -> Tokens] BY <1>6, LenProperties
      <4>2. q.ids \in [1 .. Len(q.ids) -> Tokens \cup {None}] BY <4>1
      <4>3. QED BY <1>6, <4>2
    <3>6. ReqCounted(o)'
      BY <1>6, <3>2, <3>3, <3>4, <3>5 DEF ReqCounted
    <3>7. QED BY <1>1, <1>6, <1>8, <2>1, <3>6
  <2>2. CASE o # id
    <3>1. o \in running \cup DOMAIN inflight \cup ToSet(adder.reqs) \cup ToSet(batch.reqs)
      BY <1>1, <1>10, <2>2 DEF Open
    <3>2. o \in DOMAIN reqs
      <4>1. \A p \in ToSet(adder.reqs) : p \in DOMAIN reqs BY <1>4 DEF AdderPlaced, ToSet
      <4>2. ToSet(batch.reqs) \subseteq DOMAIN reqs BY DEF IInv, Placement, BatchesPlaced
      <4>3. QED BY <1>4, <3>1, <4>1, <4>2 DEF TypeOK
    <3>3. reqs'[o] = reqs[o] BY <1>7, <2>2, <3>2
    <3>4. o \in Open BY <1>1, <3>1, <3>3 DEF Open
    <3>5. QED BY <1>1, <1>4, <3>3, <3>4 DEF OpenIsLive
  <2>3. QED BY <2>1, <2>2
<1>15. \A i \in DOMAIN pending' :
         /\ status'[pending'[i].uid] = "live"
         /\ \E j \in DOMAIN pending :
              pending'[i].uid = pending[j].uid /\ pending'[i].out <= MostTokens
  BY <1>1, <1>4, QueueCounts DEF OpenIsLive
<1>16. \A c \in DOMAIN adder'.chunked : adder'.chunked[c].out <= MostTokens
  <2> DEFINE cut == [q EXCEPT !.chunk = id]
  <2>1. \A c \in DOMAIN adder.chunked : adder.chunked[c].out <= MostTokens
    BY <1>4 DEF TokensCounted
  <2>2. cut \in PendingType /\ cut.out = q.out BY <1>5, <1>6 DEF PendingType
  <2>3. adder.chunked \in Seq(PendingType) BY <1>4 DEF TypeOK
  <2> HIDE DEF cut
  <2>4. CASE class = "ChunkedReq"
    <3>1. adder'.chunked = Append(adder.chunked, cut) BY <1>7, <2>4 DEF cut
    <3>2. /\ DOMAIN adder'.chunked = 1 .. Len(adder.chunked) + 1 /\ Len(adder.chunked) \in Nat
          /\ DOMAIN adder.chunked = 1 .. Len(adder.chunked)
          /\ \A c \in 1 .. Len(adder.chunked) : adder'.chunked[c] = adder.chunked[c]
          /\ adder'.chunked[Len(adder.chunked) + 1] = cut
      BY <2>2, <2>3, <3>1, LenProperties, AppendProperties
    <3>3. q.out <= MostTokens BY <1>8 DEF QueuedCounted
    <3>4. QED BY <2>1, <2>2, <3>2, <3>3
  <2>5. CASE class # "ChunkedReq" BY <1>7, <2>1, <2>5
  <2>6. QED BY <2>4, <2>5
<1>17. \A b \in {last', proc'} :
         b.tokens \in Seq(Tokens \cup {None}) /\ Len(b.tokens) = Len(b.reqs)
  BY <1>1, <1>4 DEF ResultsTyped
<1>18. \A u \in Uids : status'[u] = "new" => status[u] = "new" BY <1>1
<1>19. QED BY <1>1, <1>13, <1>14, <1>15, <1>16, <1>17, <1>18, QuietStep


-----------------------------------------------------------------------------
(* Forward.                                                                *)

\* The tokens of a batch are typed, one for each of its requests.
LEMMA SamplesTyped ==
  ASSUME NEW objs \in Seq(Objs), NEW t \in Samples(objs)
  PROVE  t \in Seq(Tokens \cup {None}) /\ Len(t) = Len(objs)
<1>1. t \in [DOMAIN objs -> Sampled \cup {None}] BY DEF Samples
<1>2. DOMAIN objs = 1 .. Len(objs) /\ Len(objs) \in Nat BY LenProperties
<1>3. t \in [1 .. Len(objs) -> Tokens \cup {None}] BY <1>1, <1>2, SampledAssumption
<1>4. QED BY <1>2, <1>3

\* The batch goes to the device: the same requests are open.
LEMMA ForwardTells ==
  ASSUME IInv, IInv', SInv, Forward
  PROVE  SInv'
<1>1. /\ TypeOK /\ AdderPlaced /\ ObjectsPlaced /\ BatchesPlaced /\ InflightExact
      /\ OneReqPerUid /\ OpenIsLive /\ TokensCounted /\ RepliesPlaced /\ ResultsTyped
  BY DEF IInv, Placement, SInv
<1>2. /\ pc = "forward" /\ UNCHANGED <<pending, adder, terminal, reply, sent, status>>
      /\ DOMAIN inflight' = DOMAIN inflight \cup ToSet(batch.reqs)
      /\ reqs' = [o \in DOMAIN reqs |->
                    IF o \in ToSet(batch.reqs) THEN Completed(reqs[o]) ELSE reqs[o]]
      /\ running' = {o \in running \cup ToSet(batch.reqs) : CanDecode(reqs'[o])}
  BY DEF Forward, history
<1>3. PICK t \in Samples(batch.reqs) :
        Launch([reqs |-> batch.reqs, phase |-> batch.phase, tokens |-> t])
  BY DEF Forward
<1>4. /\ adder'.reqs = <<>> /\ adder'.chunked = <<>> /\ batch'.reqs = <<>>
      /\ batch.reqs \in Seq(Objs) /\ ToSet(batch.reqs) \subseteq DOMAIN reqs \ terminal
  BY <1>1, <1>2, <1>3 DEF AdderPlaced, BatchesPlaced, TypeOK, Launch, NoBatch
<1>5. \A o \in DOMAIN reqs :
        /\ reqs'[o].class = reqs[o].class /\ reqs'[o].max = reqs[o].max
        /\ reqs'[o].host = reqs[o].host
  <2>1. ASSUME NEW r, IsReq(r)
        PROVE  Completed(r).class = r.class /\ Completed(r).max = r.max /\ Completed(r).host = r.host
    BY <2>1 DEF IsReq, ReqFields, Completed
  <2>2. QED BY <1>1, <1>2, <2>1 DEF ObjectsPlaced
<1>6. \A o \in Open' :
        o \in Open /\ reqs'[o].max = reqs[o].max /\ reqs'[o].host = reqs[o].host
  <2>1. (\A o \in Open : o \in DOMAIN reqs /\ o \in Objs /\ o[1] \in Uids /\ reqs[o].class = "Req")'
    BY OpenObjects, PTL
  <2>2. DOMAIN reqs' = DOMAIN reqs BY <1>2
  <2>3. QED BY <1>2, <1>4, <1>5, <2>1, <2>2, EmptyFacts DEF Open
<1>7. OneReqPerUid'
  <2>1. {o \in DOMAIN reqs' : reqs'[o].class = "Req"} = {o \in DOMAIN reqs : reqs[o].class = "Req"}
    BY <1>2, <1>5
  <2>2. last'.reqs = batch.reqs \/ last'.reqs = <<>> BY <1>3 DEF Launch, NoBatch
  <2>3. \A o \in running' : reqs'[o].class = "Req" BY <1>2 DEF CanDecode
  <2>4. Single({}) BY DEF Single
  <2>5. QED BY <1>1, <1>4, <2>1, <2>2, <2>3, <2>4, EmptyFacts DEF OneReqPerUid
<1>8. \A b \in {last', proc'} :
        b.tokens \in Seq(Tokens \cup {None}) /\ Len(b.tokens) = Len(b.reqs)
  <2> DEFINE b == [reqs |-> batch.reqs, phase |-> batch.phase, tokens |-> t]
  <2>1. b.tokens \in Seq(Tokens \cup {None}) /\ Len(b.tokens) = Len(b.reqs)
    BY <1>4, SamplesTyped
  <2>2. /\ NoBatch.tokens \in Seq(Tokens \cup {None})
        /\ Len(NoBatch.tokens) = Len(NoBatch.reqs)
    BY EmptySeq DEF NoBatch
  <2> HIDE DEF b
  <2>3. last' \in {b, NoBatch} /\ proc' \in {last, b} BY <1>3 DEF Launch, b
  <2>4. QED BY <1>1, <2>1, <2>2, <2>3 DEF ResultsTyped
<1>9. \A o \in Open' : status'[o[1]] = "live" BY <1>1, <1>2, <1>6 DEF OpenIsLive
<1>10. \A i \in DOMAIN pending' :
         /\ status'[pending'[i].uid] = "live"
         /\ \E j \in DOMAIN pending :
              pending'[i].uid = pending[j].uid /\ pending'[i].out <= MostTokens
  BY <1>1, <1>2, QueueCounts DEF OpenIsLive
<1>11. DOMAIN adder'.chunked = {} BY <1>4
<1>12. QED BY <1>2, <1>6, <1>7, <1>8, <1>9, <1>10, <1>11, QuietStep

\* Nothing goes to the device.
LEMMA NoForwardTells ==
  ASSUME IInv, IInv', SInv, ForwardOutOfPages \/ NoForward
  PROVE  SInv'
<1>1. /\ TypeOK /\ AdderPlaced /\ BatchesPlaced
      /\ OneReqPerUid /\ OpenIsLive /\ TokensCounted /\ RepliesPlaced /\ ResultsTyped
  BY DEF IInv, Placement, SInv
<1>2. /\ pc = "forward"
      /\ UNCHANGED <<pending, adder, running, inflight, terminal, reqs, reply, sent, status>>
  BY DEF ForwardOutOfPages, NoForward, memory, history
<1>3. /\ batch' = batch \/ batch' = NoBatch
      /\ last' \in {last, NoBatch} /\ proc' \in {proc, last, NoBatch}
  BY DEF ForwardOutOfPages, NoForward, Launch
<1>4. /\ NoBatch.reqs = <<>> /\ NoBatch.tokens \in Seq(Tokens \cup {None})
      /\ Len(NoBatch.tokens) = Len(NoBatch.reqs)
  BY EmptySeq DEF NoBatch
<1>5. ToSet(batch'.reqs) \subseteq ToSet(batch.reqs) /\ ToSet(last'.reqs) \subseteq ToSet(last.reqs)
  BY <1>3, <1>4, EmptyFacts
<1>6. OneReqPerUid' BY <1>1, <1>2, <1>5 DEF OneReqPerUid, Single
<1>7. \A o \in Open' :
        /\ status'[o[1]] = "live"
        /\ o \in Open /\ reqs'[o].max = reqs[o].max /\ reqs'[o].host = reqs[o].host
  BY <1>1, <1>2, <1>5 DEF Open, OpenIsLive
<1>8. \A i \in DOMAIN pending' :
        /\ status'[pending'[i].uid] = "live"
        /\ \E j \in DOMAIN pending :
             pending'[i].uid = pending[j].uid /\ pending'[i].out <= MostTokens
  BY <1>1, <1>2, QueueCounts DEF OpenIsLive
<1>9. \A k \in DOMAIN adder'.chunked : adder'.chunked[k].out <= MostTokens
  BY <1>1, <1>2 DEF TokensCounted
<1>10. \A b \in {last', proc'} :
         b.tokens \in Seq(Tokens \cup {None}) /\ Len(b.tokens) = Len(b.reqs)
  BY <1>1, <1>3, <1>4 DEF ResultsTyped
<1>11. \A u \in Uids : status'[u] = "new" => status[u] = "new" BY <1>2
<1>12. QED BY <1>2, <1>6, <1>7, <1>8, <1>9, <1>10, <1>11, QuietStep


-----------------------------------------------------------------------------
(* Process.                                                                *)

\* What one result leaves behind.
LEMMA ResultTaken ==
  ASSUME IInv, SInv, TakeResult, UNCHANGED last
  PROVE  /\ pc = "process" /\ Current \in DOMAIN reqs /\ Current \in DOMAIN inflight
         /\ DOMAIN inflight' \subseteq DOMAIN inflight
         /\ ToSet(proc'.reqs) \subseteq ToSet(proc.reqs) \ {Current}
         /\ Current \in ToSet(proc.reqs)
         /\ Head(proc.tokens) \in Tokens \cup {None}
         /\ proc'.tokens \in Seq(Tokens \cup {None}) /\ Len(proc'.tokens) = Len(proc'.reqs)
         /\ adder.reqs = <<>> /\ batch.reqs = <<>>
<1>1. /\ TypeOK /\ InflightExact /\ AdderPlaced /\ BatchesPlaced /\ ResultsTyped
  BY DEF IInv, Placement, SInv
<1>2. /\ pc = "process" /\ Current \in DOMAIN reqs /\ DOMAIN inflight' \subseteq DOMAIN inflight
      /\ proc.reqs # <<>> /\ proc'.reqs = Tail(proc.reqs) /\ proc'.tokens = Tail(proc.tokens)
  BY TakeResultFacts DEF TakeResult
<1>3. /\ ToSet(proc.reqs) = {Current} \cup ToSet(proc'.reqs) /\ Current \notin ToSet(proc'.reqs)
  BY <1>1, <1>2, HeadTail DEF TypeOK, InflightExact, Current
<1>4. Current \in DOMAIN inflight BY <1>1, <1>3 DEF InflightExact
<1>5. /\ proc.reqs \in Seq(Objs) /\ proc.tokens \in Seq(Tokens \cup {None})
      /\ Len(proc.tokens) = Len(proc.reqs)
  BY <1>1 DEF TypeOK, ResultsTyped
<1>6. proc.tokens # <<>> BY <1>2, <1>5, EmptySeq
<1>7. /\ Head(proc.tokens) \in Tokens \cup {None} /\ proc'.tokens \in Seq(Tokens \cup {None})
  BY <1>2, <1>5, <1>6, HeadTail
<1>8. Len(proc'.tokens) = Len(proc'.reqs) BY <1>2, <1>5, <1>6, HeadTailProperties
<1>9. adder.reqs = <<>> /\ batch.reqs = <<>> BY <1>1, <1>2 DEF AdderPlaced, BatchesPlaced
<1>10. QED BY <1>2, <1>3, <1>4, <1>7, <1>8, <1>9

\* _release_terminal_req: the request is no longer open, the others are as before.
LEMMA ReleaseCloses ==
  ASSUME NEW marked, NEW r, ReleaseIfLanded(marked, r), terminal \subseteq marked,
         Current \in marked
  PROVE  /\ terminal \ {Current} \subseteq terminal'
         /\ Current \in terminal' \/ Current \notin DOMAIN inflight'
BY DEF ReleaseIfLanded

\* The result of a chunk or of a request marked terminal is not given out.
LEMMA DroppedResultTells ==
  ASSUME IInv, IInv', SInv, ProcessTerminal \/ ProcessChunk
  PROVE  SInv'
<1>1. /\ TypeOK /\ TerminalDrains
      /\ OneReqPerUid /\ OpenIsLive /\ TokensCounted /\ RepliesPlaced /\ ResultsTyped
  BY DEF IInv, Placement, SInv
<1>2. /\ TakeResult
      /\ UNCHANGED <<pc, pending, adder, running, batch, last, reqs, reply, sent, status>>
  BY DEF ProcessTerminal, ProcessChunk, memory, history
<1>3. /\ terminal \ {Current} \subseteq terminal'
      /\ Current \in terminal =>
           Current \notin running /\ (Current \in terminal' \/ Current \notin DOMAIN inflight')
  <2>1. CASE ProcessTerminal
    <3>1. Current \in terminal /\ ReleaseIfLanded(terminal, reqs[Current])
      BY <2>1 DEF ProcessTerminal, Discarded
    <3>2. QED BY <1>1, <3>1, ReleaseCloses DEF TerminalDrains
  <2>2. CASE ProcessChunk BY <2>2 DEF ProcessChunk, Discarded
  <2>3. QED BY <2>1, <2>2
<1>4. /\ pc = "process" /\ DOMAIN inflight' \subseteq DOMAIN inflight
      /\ ToSet(proc'.reqs) \subseteq ToSet(proc.reqs)
      /\ proc'.tokens \in Seq(Tokens \cup {None}) /\ Len(proc'.tokens) = Len(proc'.reqs)
      /\ adder.reqs = <<>> /\ batch.reqs = <<>>
  BY <1>2, ResultTaken
<1>5. \A o \in Open' : o \in Open
  BY <1>2, <1>3, <1>4, EmptyFacts DEF Open
<1>6. OneReqPerUid' BY <1>1, <1>2 DEF OneReqPerUid, Single
<1>7. OpenIsLive' BY <1>1, <1>2, <1>5 DEF OpenIsLive
<1>8. TokensCounted'
  <2>1. \A i \in DOMAIN pending' : QueuedCounted(pending[i])'
    <3>1. \A i \in DOMAIN pending : QueuedCounted(pending[i]) /\ pending[i].out <= MostTokens
      BY <1>1 DEF TokensCounted, QueuedCounted
    <3>2. QED BY <1>2, <3>1, TellsNothing
  <2>2. \A o \in Open' : ReqCounted(o)' BY <1>1, <1>2, <1>5, TellsNothing DEF TokensCounted
  <2>3. \A k \in DOMAIN adder'.chunked : adder'.chunked[k].out <= MostTokens'
    BY <1>1, <1>2, TellsNothing DEF TokensCounted
  <2>4. \A u \in Uids : status'[u] = "new" => sent'[u] = <<>> BY <1>1, <1>2 DEF TokensCounted
  <2>5. QED BY <2>1, <2>2, <2>3, <2>4 DEF TokensCounted
<1>9. RepliesPlaced'
  <2>1. MostTokens' = MostTokens BY <1>2, TellsNothing
  <2>2. QueuedUids' = QueuedUids BY <1>2 DEF QueuedUids
  <2>4. QED BY <1>1, <1>2, <1>4, <1>5, <2>1, <2>2 DEF RepliesPlaced, RepliesTo
<1>10. ResultsTyped' BY <1>1, <1>2, <1>4 DEF ResultsTyped
<1>11. QED BY <1>6, <1>7, <1>8, <1>9, <1>10 DEF SInv


\* What ProcessToken does to the request, the reply and the lists.
LEMMA TokenEffects ==
  ASSUME IInv, SInv, ProcessToken
  PROVE  LET token == Head(proc.tokens)
             r     == reqs[Current]
         IN  /\ TakeResult /\ Current \notin terminal /\ r.class = "Req"
             /\ UNCHANGED <<pc, pending, adder, batch, last, sent, status>>
             /\ DOMAIN reqs' = DOMAIN reqs
             /\ \A o \in DOMAIN reqs : o # Current => reqs'[o] = reqs[o]
             /\ reqs'[Current].class = "Req" /\ reqs'[Current].max = r.max
             /\ reqs'[Current].host = Append(r.host, token)
             /\ running' \subseteq running
             /\ \E done \in BOOLEAN :
                  /\ reply' = Append(reply,
                                [uid |-> Current[1], token |-> token, finished |-> done])
                  /\ ~done => Len(Append(r.host, token)) < r.max /\ terminal' = terminal
                  /\ Len(Append(r.host, token)) >= r.max => done
                  /\ done => /\ Current \notin running' /\ terminal \ {Current} \subseteq terminal'
                             /\ Current \in terminal' \/ Current \notin DOMAIN inflight'
<1> DEFINE token == Head(proc.tokens)
           r     == [reqs[Current] EXCEPT !.host = Append(@, token)]
           done  == IsFinished(r, token)
<1>1. /\ TakeResult /\ Current \notin terminal /\ reqs[Current].class = "Req"
      /\ UNCHANGED <<pc, pending, adder, batch, last, sent, status>>
      /\ Reply(Current, token, done)
      /\ \/ /\ done /\ running' = running \ {Current}
            /\ reqs' = [reqs EXCEPT ![Current] = r]
            /\ ReleaseIfLanded(terminal \cup {Current}, r)
         \/ /\ ~done /\ UNCHANGED <<running, terminal>>
            /\ \E h : reqs' = [reqs EXCEPT ![Current] = [r EXCEPT !.handle = h]]
         \/ /\ ~done /\ UNCHANGED <<running, terminal>>
            /\ reqs' = [reqs EXCEPT ![Current] = r]
  BY DEF ProcessToken, Discarded
<1>2. Current \in DOMAIN reqs /\ IsReq(reqs[Current]) /\ reqs[Current].max \in Nat
      /\ reqs[Current].host \in Seq(Tokens \cup {None})
      /\ token \in Tokens \cup {None} /\ Current \in Open
  <2>1. /\ Current \in DOMAIN reqs /\ Current \in DOMAIN inflight
        /\ token \in Tokens \cup {None}
    BY <1>1, ResultTaken
  <2>2. Current \in Open BY <1>1, <2>1 DEF Open
  <2>3. IsReq(reqs[Current]) BY <2>1 DEF IInv, Placement, ObjectsPlaced
  <2>4. ReqCounted(Current) BY <2>2 DEF SInv, TokensCounted
  <2>5. QED BY <2>1, <2>2, <2>3, <2>4 DEF ReqCounted
<1> HIDE DEF token
<1>3. /\ r.class = reqs[Current].class /\ r.max = reqs[Current].max
      /\ r.host = Append(reqs[Current].host, token)
      /\ \A h : LET s == [r EXCEPT !.handle = h]
                IN  s.class = r.class /\ s.max = r.max /\ s.host = r.host
  BY <1>2 DEF IsReq, ReqFields
<1> HIDE DEF r
<1>4. PICK s : /\ reqs' = [reqs EXCEPT ![Current] = s]
               /\ s.class = r.class /\ s.max = r.max /\ s.host = r.host
  <2>1. CASE reqs' = [reqs EXCEPT ![Current] = r] BY <2>1
  <2>2. CASE \E h : reqs' = [reqs EXCEPT ![Current] = [r EXCEPT !.handle = h]]
    <3>1. PICK h : reqs' = [reqs EXCEPT ![Current] = [r EXCEPT !.handle = h]] BY <2>2
    <3> DEFINE s == [r EXCEPT !.handle = h]
    <3>2. reqs' = [reqs EXCEPT ![Current] = s] BY <3>1
    <3>3. s.class = r.class /\ s.max = r.max /\ s.host = r.host BY <1>3
    <3> HIDE DEF s
    <3>4. QED BY <3>2, <3>3
  <2>3. QED BY <1>1, <2>1, <2>2
<1>5. /\ DOMAIN reqs' = DOMAIN reqs
      /\ \A o \in DOMAIN reqs : o # Current => reqs'[o] = reqs[o]
      /\ reqs'[Current].class = "Req" /\ reqs'[Current].max = reqs[Current].max
      /\ reqs'[Current].host = Append(reqs[Current].host, token)
  BY <1>1, <1>2, <1>3, <1>4
<1>6. /\ done \in BOOLEAN
      /\ ~done => Len(r.host) < r.max
      /\ Len(r.host) >= r.max => done
  BY <1>2, <1>3 DEF IsFinished
<1>7. done => /\ Current \notin running' /\ terminal \ {Current} \subseteq terminal'
              /\ Current \in terminal' \/ Current \notin DOMAIN inflight'
  <2>1. CASE done
    <3>1. running' = running \ {Current} /\ ReleaseIfLanded(terminal \cup {Current}, r)
      BY <1>1, <2>1
    <3>2. QED BY <3>1, ReleaseCloses
  <2>2. QED BY <2>1
<1>8. reply' = Append(reply, [uid |-> Current[1], token |-> token, finished |-> done])
  BY <1>1 DEF Reply
<1>9. running' \subseteq running /\ (~done => terminal' = terminal) BY <1>1
<1> HIDE DEF done
<1>10. QED BY <1>1, <1>3, <1>5, <1>6, <1>7, <1>8, <1>9 DEF token


\* A token is given out: the request is one token nearer to its end, and closed when
\* this was the last.
LEMMA TokenTells ==
  ASSUME IInv, IInv', SInv, ProcessToken
  PROVE  SInv'
<1>1. /\ TypeOK /\ TerminalDrains /\ ObjectsPlaced /\ AdderPlaced
      /\ OneReqPerUid /\ OpenIsLive /\ TokensCounted /\ RepliesPlaced /\ ResultsTyped
  BY DEF IInv, Placement, SInv
<1>0. (\A o \in Open : o \in DOMAIN reqs /\ o \in Objs /\ o[1] \in Uids /\ reqs[o].class = "Req")'
  BY OpenObjects, PTL
<1>2. PICK c, token : c = Current /\ token = Head(proc.tokens) OBVIOUS
<1> DEFINE u == c[1]
           n == Len(reply) + 1
<1>3. /\ TakeResult /\ c \notin terminal /\ reqs[c].class = "Req"
      /\ UNCHANGED <<pc, pending, adder, batch, last, sent, status>>
      /\ DOMAIN reqs' = DOMAIN reqs
      /\ \A o \in DOMAIN reqs : o # c => reqs'[o] = reqs[o]
      /\ reqs'[c].class = "Req" /\ reqs'[c].max = reqs[c].max
      /\ reqs'[c].host = Append(reqs[c].host, token)
      /\ running' \subseteq running
  BY <1>2, TokenEffects
<1>4. PICK done \in BOOLEAN :
        /\ reply' = Append(reply, [uid |-> u, token |-> token, finished |-> done])
        /\ ~done => Len(Append(reqs[c].host, token)) < reqs[c].max /\ terminal' = terminal
        /\ Len(Append(reqs[c].host, token)) >= reqs[c].max => done
        /\ done => /\ c \notin running' /\ terminal \ {c} \subseteq terminal'
                   /\ c \in terminal' \/ c \notin DOMAIN inflight'
  BY <1>2, TokenEffects
<1>5. /\ pc = "process" /\ c \in DOMAIN reqs /\ c \in DOMAIN inflight
      /\ DOMAIN inflight' \subseteq DOMAIN inflight
      /\ ToSet(proc'.reqs) \subseteq ToSet(proc.reqs) \ {c} /\ c \in ToSet(proc.reqs)
      /\ token \in Tokens \cup {None}
      /\ proc'.tokens \in Seq(Tokens \cup {None}) /\ Len(proc'.tokens) = Len(proc'.reqs)
      /\ adder.reqs = <<>> /\ batch.reqs = <<>>
  BY <1>2, <1>3, ResultTaken
<1>6. c \in Open /\ u \in Uids
  <2>1. c \in Open BY <1>3, <1>5 DEF Open
  <2>2. QED BY <2>1, OpenObjects
<1>7. /\ status[u] = "live" /\ ReqCounted(c) /\ u \notin QueuedUids
  <2>1. ToSet(adder.reqs) = {} BY <1>5, EmptyFacts
  <2>2. QED BY <1>1, <1>3, <1>5, <1>6, <2>1 DEF OpenIsLive, TokensCounted, ObjectsPlaced
<1>8. RepliesTo(u) = {}
  <2>1. ASSUME NEW i \in DOMAIN reply, reply[i].uid = u PROVE FALSE
    BY <1>1, <1>5, <1>6, <2>1 DEF RepliesPlaced
  <2>2. QED BY <2>1 DEF RepliesTo
<1>9. /\ DOMAIN reply = 1 .. Len(reply) /\ DOMAIN reply' = 1 .. n /\ Len(reply) \in Nat
      /\ \A i \in 1 .. Len(reply) : reply'[i] = reply[i]
      /\ reply'[n].uid = u /\ reply'[n].finished = done
      /\ reply' \in Seq([uid : Uids, token : Tokens \cup {None}, finished : BOOLEAN])
  <2> DEFINE R == [uid : Uids, token : Tokens \cup {None}, finished : BOOLEAN]
             x == [uid |-> u, token |-> token, finished |-> done]
  <2>1. x \in R /\ x.uid = u /\ x.finished = done BY <1>5, <1>6
  <2>2. reply \in Seq(R) BY <1>1 DEF ResultsTyped
  <2> HIDE DEF R, x
  <2>3. reply' = Append(reply, x) BY <1>4 DEF x
  <2>4. QED BY <2>1, <2>2, <2>3, AppendElements, LenProperties DEF R
<1>10. /\ RepliesTo(u)' = {n}
       /\ \A v : v # u => RepliesTo(v)' = RepliesTo(v)
  <2>1. {i \in 1 .. n : reply'[i].uid = u} = {n}
    BY <1>8, <1>9 DEF RepliesTo
  <2>2. ASSUME NEW v, v # u
        PROVE  {i \in 1 .. n : reply'[i].uid = v} = {i \in 1 .. Len(reply) : reply[i].uid = v}
    BY <1>9, <2>2
  <2>3. QED BY <1>9, <2>1, <2>2 DEF RepliesTo
<1>11. /\ Told(u) = Len(sent[u]) /\ Len(sent[u]) \in Nat
       /\ Told(u)' = Told(u) + 1
       /\ \A v : v # u => Told(v)' = Told(v)
  <2>1. sent[u] \in Seq(BOOLEAN) BY <1>1, <1>6 DEF ResultsTyped
  <2>2. Len(sent[u]) \in Nat BY <2>1, LenProperties
  <2>3. Told(u) = Len(sent[u]) BY <1>8, <2>2 DEF Told
  <2>4. Told(u)' = Len(sent[u]) + 1 BY <1>3, <1>10 DEF Told
  <2>5. \A v : v # u => Told(v)' = Told(v) BY <1>3, <1>10 DEF Told
  <2>6. QED BY <2>2, <2>3, <2>4, <2>5
<1>12. MostTokens' = MostTokens BY DEF MostTokens, MostOf, OutputLength
<1>13. /\ MostTokens \in Nat \ {0} /\ reqs[c].max \in Nat
       /\ reqs[c].host \in Seq(Tokens \cup {None})
       /\ reqs[c].max + Told(u) <= Len(reqs[c].host) + MostTokens
       /\ Told(u) > 0 => Len(reqs[c].host) < reqs[c].max
       /\ Len(reqs[c].host) \in Nat
  BY <1>7, LenProperties DEF ReqCounted
<1>14. /\ Append(reqs[c].host, token) \in Seq(Tokens \cup {None})
       /\ Len(Append(reqs[c].host, token)) = Len(reqs[c].host) + 1
  BY <1>5, <1>13, AppendElements
<1>15. Len(sent[u]) < MostTokens /\ (Len(sent[u]) + 1 = MostTokens => done)
  <2>1. Len(reqs[c].host) + 1 >= reqs[c].max => done BY <1>4, <1>14
  <2> HIDE DEF u
  <2>2. QED BY <1>11, <1>13, <2>1
<1>16. ASSUME NEW o \in Open'
       PROVE  /\ o \in Open /\ (o = c => ~done)
              /\ o # c => o[1] # u /\ reqs'[o] = reqs[o]
  <2>1. o \in DOMAIN reqs' /\ reqs'[o].class = "Req" BY <1>0
  <2>2. o \in (running' \cup DOMAIN inflight') \ terminal'
    BY <1>3, <1>5, EmptyFacts DEF Open
  <2>3. o \in running \cup DOMAIN inflight BY <1>3, <1>5, <2>2
  <2>4. CASE o = c BY <1>4, <1>6, <2>2, <2>4
  <2>5. CASE o # c
    <3>1. reqs'[o] = reqs[o] /\ o \in DOMAIN reqs BY <1>3, <2>1, <2>5
    <3>2. o \notin terminal BY <1>4, <2>2, <2>5
    <3>3. o \in Open BY <2>1, <2>3, <3>1, <3>2 DEF Open
    <3>4. o[1] # u BY <1>1, <1>3, <1>5, <2>1, <2>5, <3>1 DEF OneReqPerUid, Single
    <3>5. QED BY <2>5, <3>1, <3>3, <3>4
  <2>6. QED BY <2>4, <2>5
<1>17. OneReqPerUid'
  <2>1. {o \in DOMAIN reqs' : reqs'[o].class = "Req"} = {o \in DOMAIN reqs : reqs[o].class = "Req"}
    BY <1>3
  <2>2. \A o \in running' : reqs'[o].class = "Req" BY <1>1, <1>3 DEF OneReqPerUid, TypeOK
  <2>3. QED BY <1>1, <1>3, <2>1, <2>2 DEF OneReqPerUid
<1>18. OpenIsLive' BY <1>1, <1>3, <1>16 DEF OpenIsLive
<1> HIDE DEF u, n
<1>19. TokensCounted'
  <2>1. ASSUME NEW i \in DOMAIN pending' PROVE QueuedCounted(pending[i])'
    <3>1. QueuedCounted(pending[i]) /\ pending[i].uid # u /\ pending'[i] = pending[i]
      BY <1>1, <1>3, <1>7, <2>1 DEF TokensCounted, QueuedUids
    <3>2. PICK q : q = pending[i] OBVIOUS
    <3>3. Told(q.uid)' = Told(q.uid) BY <1>11, <3>1, <3>2
    <3>4. QED BY <1>12, <3>1, <3>2, <3>3 DEF QueuedCounted, Told, RepliesTo
  <2>2. ASSUME NEW o \in Open' PROVE ReqCounted(o)'
    <3>1. CASE o = c
      <4>1. Told(c[1])' = Told(u) + 1 BY <1>11 DEF u
      <4>2. Len(Append(reqs[c].host, token)) < reqs[c].max BY <1>4, <1>16, <3>1
      <4>3. /\ reqs'[c].max + Told(c[1])' <= Len(reqs'[c].host) + MostTokens'
            /\ Told(c[1])' > 0 => Len(reqs'[c].host) < reqs'[c].max
        <5>1. reqs'[c].max = reqs[c].max /\ Len(reqs'[c].host) = Len(reqs[c].host) + 1
          BY <1>3, <1>14
        <5>2. Len(reqs[c].host) + 1 < reqs[c].max BY <1>14, <4>2
        <5>3. Told(u) \in Nat BY <1>11
        <5>4. QED BY <1>12, <1>13, <4>1, <5>1, <5>2, <5>3
      <4>4. QED BY <1>3, <1>12, <1>13, <1>14, <3>1, <4>3 DEF ReqCounted
    <3>2. CASE o # c
      <4>1. ReqCounted(o) /\ reqs'[o] = reqs[o] /\ Told(o[1])' = Told(o[1])
        BY <1>1, <1>11, <1>16, <3>2 DEF TokensCounted
      <4>2. QED BY <1>12, <4>1 DEF ReqCounted
    <3>3. QED BY <3>1, <3>2
  <2>3. \A k \in DOMAIN adder'.chunked : adder'.chunked[k].out <= MostTokens'
    BY <1>1, <1>3, <1>12 DEF TokensCounted
  <2>4. \A v \in Uids : status'[v] = "new" => sent'[v] = <<>> BY <1>1, <1>3 DEF TokensCounted
  <2>5. QED BY <2>1, <2>2, <2>3, <2>4 DEF TokensCounted
<1>20. RepliesPlaced'
  <2>1. QueuedUids' = QueuedUids BY <1>3 DEF QueuedUids
  <2>2. ASSUME NEW i \in DOMAIN reply'
        PROVE  /\ reply'[i].uid \in Uids /\ reply'[i].finished \in BOOLEAN
               /\ {j \in DOMAIN reply' : reply'[j].uid = reply'[i].uid} = {i}
               /\ status[reply'[i].uid] = "live" /\ reply'[i].uid \notin QueuedUids
               /\ Len(sent[reply'[i].uid]) < MostTokens
               /\ Len(sent[reply'[i].uid]) + 1 = MostTokens => reply'[i].finished
               /\ \A o \in Open' : o[1] = reply'[i].uid =>
                    ~reply'[i].finished /\ o \notin ToSet(proc'.reqs)
    <3>1. CASE i = n
      <4>1. {j \in DOMAIN reply' : reply'[j].uid = u} = {n} BY <1>10 DEF RepliesTo
      <4>2. QED BY <1>5, <1>6, <1>7, <1>9, <1>15, <1>16, <3>1, <4>1 DEF u
    <3>2. CASE i # n
      <4>1. i \in DOMAIN reply /\ reply'[i] = reply[i] BY <1>9, <3>2 DEF n
      <4>2. /\ reply[i].uid \in Uids /\ reply[i].finished \in BOOLEAN
            /\ RepliesTo(reply[i].uid) = {i}
            /\ status[reply[i].uid] = "live" /\ reply[i].uid \notin QueuedUids
            /\ Len(sent[reply[i].uid]) < MostTokens
            /\ Len(sent[reply[i].uid]) + 1 = MostTokens => reply[i].finished
            /\ \A o \in Open : o[1] = reply[i].uid =>
                 ~reply[i].finished /\ o \notin ToSet(proc.reqs)
        BY <1>1, <4>1 DEF RepliesPlaced
      <4>3. PICK v : v = reply[i].uid OBVIOUS
      <4>4. v # u BY <1>8, <4>2, <4>3
      <4>5. RepliesTo(v)' = {i} BY <1>10, <4>2, <4>3, <4>4
      <4>6. {j \in DOMAIN reply' : reply'[j].uid = reply'[i].uid} = {i}
        BY <4>1, <4>3, <4>5 DEF RepliesTo
      <4>7. QED BY <1>5, <1>16, <4>1, <4>2, <4>6
    <3>3. QED BY <3>1, <3>2
  <2>3. pc' = "process" BY <1>3, <1>5
  <2>4. QED BY <1>3, <1>12, <1>13, <2>1, <2>2, <2>3 DEF RepliesPlaced, RepliesTo
<1>21. ResultsTyped' BY <1>1, <1>3, <1>5, <1>9 DEF ResultsTyped
<1>22. QED BY <1>17, <1>18, <1>19, <1>20, <1>21 DEF SInv


\* What leaves for a uid: nothing, or the flag of its only reply.
LEMMA FlagsSent ==
  ASSUME IInv, SInv, EndProcess, NEW u \in Uids
  PROVE  /\ RepliesTo(u) = {} => sent'[u] = sent[u] /\ status'[u] = status[u]
         /\ \A i \in RepliesTo(u) :
              /\ i \in DOMAIN reply /\ reply[i].uid = u /\ RepliesTo(u) = {i}
              /\ sent'[u] = Append(sent[u], reply[i].finished)
              /\ status'[u] = IF reply[i].finished THEN "done" ELSE status[u]
<1>1. RepliesPlaced /\ sent[u] \in Seq(BOOLEAN) BY DEF SInv, ResultsTyped
<1>2. /\ sent'[u] = sent[u] \o LET mine == InOrder(RepliesTo(u))
                              IN  [k \in DOMAIN mine |-> reply[mine[k]].finished]
      /\ status'[u] = IF \E i \in RepliesTo(u) : reply[i].finished THEN "done" ELSE status[u]
  BY DEF EndProcess
<1>3. ASSUME RepliesTo(u) = {} PROVE sent'[u] = sent[u] /\ status'[u] = status[u]
  <2>1. InOrder(RepliesTo(u)) = <<>> BY <1>3, InOrderFacts
  <2>2. (LET mine == InOrder(RepliesTo(u)) IN [k \in DOMAIN mine |-> reply[mine[k]].finished]) = <<>>
    BY <2>1
  <2>3. sent[u] \o <<>> = sent[u] BY <1>1
  <2>4. sent'[u] = sent[u] \o <<>> BY <1>2, <2>2
  <2>5. status'[u] = status[u] BY <1>2, <1>3
  <2>6. QED BY <2>3, <2>4, <2>5
<1>4. ASSUME NEW i \in RepliesTo(u)
      PROVE  /\ i \in DOMAIN reply /\ reply[i].uid = u /\ RepliesTo(u) = {i}
             /\ sent'[u] = Append(sent[u], reply[i].finished)
             /\ status'[u] = IF reply[i].finished THEN "done" ELSE status[u]
  <2>1. i \in DOMAIN reply /\ reply[i].uid = u BY DEF RepliesTo
  <2>2. RepliesTo(u) = {i} /\ reply[i].finished \in BOOLEAN BY <1>1, <2>1 DEF RepliesPlaced
  <2>3. InOrder(RepliesTo(u)) = <<i>> BY <2>2, InOrderFacts
  <2>4. [k \in DOMAIN <<i>> |-> reply[<<i>>[k]].finished] = <<reply[i].finished>> OBVIOUS
  <2>5. sent[u] \o <<reply[i].finished>> = Append(sent[u], reply[i].finished) BY <1>1, <2>2
  <2>6. QED BY <1>2, <2>1, <2>2, <2>3, <2>4, <2>5
<1>5. QED BY <1>3, <1>4

\* The replies leave: what was told of them is sent.
LEMMA EndProcessTells ==
  ASSUME IInv, IInv', SInv, EndProcess
  PROVE  SInv'
<1>1. /\ TypeOK /\ ObjectsPlaced /\ AdderPlaced
      /\ OneReqPerUid /\ OpenIsLive /\ TokensCounted /\ RepliesPlaced /\ ResultsTyped
  BY DEF IInv, Placement, SInv
<1>2. /\ pc' = "recv" /\ reply' = <<>> /\ proc' = NoBatch
      /\ reqs' = Restrict(reqs, DOMAIN reqs \cap Referenced)
      /\ UNCHANGED <<pending, adder, running, inflight, terminal, batch, last>>
      /\ DOMAIN sent' = Uids
  BY DEF EndProcess
<1>3. DOMAIN reqs' \subseteq DOMAIN reqs /\ \A o \in DOMAIN reqs' : reqs'[o] = reqs[o]
  BY <1>2 DEF Restrict
<1>4. (\A o \in Open : o \in DOMAIN reqs /\ o \in Objs /\ o[1] \in Uids /\ reqs[o].class = "Req")'
  BY OpenObjects, PTL
<1>5. \A o \in Open' : o \in Open /\ o[1] \in Uids /\ reqs'[o] = reqs[o]
  BY <1>2, <1>3, <1>4 DEF Open
<1>6. MostTokens' = MostTokens BY DEF MostTokens, MostOf, OutputLength
<1>7. ASSUME NEW u \in Uids PROVE Told(u)' = Told(u) /\ sent'[u] \in Seq(BOOLEAN)
  <2>1. sent[u] \in Seq(BOOLEAN) BY <1>1 DEF ResultsTyped
  <2>2. RepliesTo(u)' = {} BY <1>2 DEF RepliesTo
  <2>3. CASE RepliesTo(u) = {}
    BY <2>1, <2>2, <2>3, FlagsSent, LenProperties DEF Told
  <2>4. CASE RepliesTo(u) # {}
    <3>1. PICK i : i \in RepliesTo(u) BY <2>4
    <3>2. sent'[u] = Append(sent[u], reply[i].finished) /\ i \in DOMAIN reply
      BY <3>1, FlagsSent
    <3>3. reply[i].finished \in BOOLEAN BY <1>1, <3>2 DEF RepliesPlaced
    <3>4. sent'[u] \in Seq(BOOLEAN) /\ Len(sent'[u]) = Len(sent[u]) + 1 /\ Len(sent[u]) \in Nat
      BY <2>1, <3>2, <3>3, AppendElements, LenProperties
    <3>5. Told(u) = Len(sent[u]) + 1 BY <2>4 DEF Told
    <3>6. Told(u)' = Len(sent'[u]) + 0 BY <2>2 DEF Told
    <3>7. QED BY <3>4, <3>5, <3>6
  <2>5. QED BY <2>3, <2>4
<1>8. ASSUME NEW u \in Uids, RepliesTo(u) # {}, status'[u] # status[u]
      PROVE  u \notin QueuedUids /\ \A o \in Open : o[1] # u
  <2>1. PICK i : i \in RepliesTo(u) BY <1>8
  <2>2. i \in DOMAIN reply /\ reply[i].uid = u /\ reply[i].finished
    BY <1>8, <2>1, FlagsSent
  <2>3. QED BY <1>1, <2>2 DEF RepliesPlaced
<1>9. \A u \in Uids : RepliesTo(u) = {} => status'[u] = status[u] BY FlagsSent
<1>10. \A i \in DOMAIN pending : pending[i].uid \in Uids /\ pending[i].uid \in QueuedUids
  <2>1. \A i \in DOMAIN pending : pending[i] \in PendingType
    BY <1>1, ElementOfSeq, LenProperties DEF TypeOK
  <2>2. QED BY <2>1 DEF PendingType, QueuedUids
<1>11. OneReqPerUid'
  <2>1. {o \in DOMAIN reqs' : reqs'[o].class = "Req"} \subseteq {o \in DOMAIN reqs : reqs[o].class = "Req"}
    BY <1>3
  <2>2. \A o \in running' : o \in DOMAIN reqs' BY DEF IInv, TypeOK
  <2>3. QED BY <1>1, <1>2, <1>3, <2>1, <2>2 DEF OneReqPerUid, Single
<1>12. OpenIsLive' BY <1>1, <1>2, <1>5, <1>8, <1>9, <1>10 DEF OpenIsLive
<1>13. TokensCounted'
  <2>1. ASSUME NEW i \in DOMAIN pending' PROVE QueuedCounted(pending[i])'
    <3>1. PICK q : q = pending[i] OBVIOUS
    <3>2. q.uid \in Uids /\ QueuedCounted(q) /\ pending'[i] = q
      BY <1>1, <1>2, <1>10, <3>1 DEF TokensCounted
    <3>3. Told(q.uid)' = Told(q.uid) BY <1>7, <3>2
    <3>4. QED BY <1>6, <3>2, <3>3 DEF QueuedCounted, Told, RepliesTo
  <2>2. ASSUME NEW o \in Open' PROVE ReqCounted(o)'
    <3>1. ReqCounted(o) /\ reqs'[o] = reqs[o] /\ Told(o[1])' = Told(o[1])
      BY <1>1, <1>5, <1>7 DEF TokensCounted
    <3>2. QED BY <1>6, <3>1 DEF ReqCounted
  <2>3. \A k \in DOMAIN adder'.chunked : adder'.chunked[k].out <= MostTokens'
    BY <1>1, <1>2, <1>6 DEF TokensCounted
  <2>4. ASSUME NEW u \in Uids, status'[u] = "new" PROVE sent'[u] = <<>>
    <3>1. CASE RepliesTo(u) = {} BY <1>1, <2>4, <3>1, FlagsSent DEF TokensCounted
    <3>2. CASE RepliesTo(u) # {}
      <4>1. PICK i : i \in RepliesTo(u) BY <3>2
      <4>2. i \in DOMAIN reply /\ reply[i].uid = u
            /\ status'[u] = (IF reply[i].finished THEN "done" ELSE status[u])
        BY <4>1, FlagsSent
      <4>3. status[u] = "live" BY <1>1, <4>2 DEF RepliesPlaced
      <4>4. QED BY <2>4, <4>2, <4>3
    <3>3. QED BY <3>1, <3>2
  <2>5. QED BY <2>1, <2>2, <2>3, <2>4 DEF TokensCounted
<1>14. RepliesPlaced' BY <1>2 DEF RepliesPlaced
<1>15. ResultsTyped'
  <2>1. sent' \in [Uids -> Seq(BOOLEAN)]
    <3>1. sent' = [u \in Uids |-> sent'[u]] BY DEF EndProcess
    <3>2. QED BY <1>7, <3>1
  <2>2. \A S : <<>> \in Seq(S) /\ Len(<<>>) = 0 OBVIOUS
  <2>3. proc'.tokens = <<>> /\ proc'.reqs = <<>> BY <1>2 DEF NoBatch
  <2>4. QED BY <1>1, <1>2, <2>1, <2>2, <2>3 DEF ResultsTyped
<1>16. QED BY <1>11, <1>12, <1>13, <1>14, <1>15 DEF SInv

-----------------------------------------------------------------------------
(* The theorems.                                                           *)

\* The invariant is inductive next to IInv.
LEMMA NextSInv == IInv /\ SInv /\ [Next]_vars => SInv'
<1> SUFFICES ASSUME IInv, SInv, [Next]_vars PROVE SInv' OBVIOUS
<1>0. IInv' BY NextIInv
<1>1. CASE UNCHANGED vars
  <2>1. UNCHANGED <<pc, pending, adder, reqs, running, inflight, terminal, batch, last, proc,
                    reply, sent, status>>
    BY <1>1 DEF vars, control, memory, history
  <2>2. Open' = Open BY <2>1 DEF Open
  <2>3. MostTokens' = MostTokens BY <2>1, TellsNothing
  <2>4. OneReqPerUid' BY <2>1 DEF SInv, OneReqPerUid, Single
  <2>5. OpenIsLive' BY <2>1, <2>2 DEF SInv, OpenIsLive
  <2>6. TokensCounted'
    <3>1. \A i \in DOMAIN pending' : QueuedCounted(pending[i])'
      <4>1. \A i \in DOMAIN pending : QueuedCounted(pending[i]) /\ pending[i].out <= MostTokens
        BY DEF SInv, TokensCounted, QueuedCounted
      <4>2. QED BY <2>1, <4>1, TellsNothing
    <3>2. \A o \in Open' : ReqCounted(o)'
      BY <2>1, <2>2, TellsNothing DEF SInv, TokensCounted
    <3>3. \A k \in DOMAIN adder'.chunked : adder'.chunked[k].out <= MostTokens'
      BY <2>1, <2>3 DEF SInv, TokensCounted
    <3>4. \A u \in Uids : status'[u] = "new" => sent'[u] = <<>>
      BY <2>1 DEF SInv, TokensCounted
    <3>5. QED BY <3>1, <3>2, <3>3, <3>4 DEF TokensCounted
  <2>7. RepliesPlaced'
    <3>1. QueuedUids' = QueuedUids BY <2>1 DEF QueuedUids
    <3>2. QED BY <2>1, <2>2, <2>3, <3>1 DEF SInv, RepliesPlaced, RepliesTo
  <2>8. ResultsTyped' BY <2>1 DEF SInv, ResultsTyped
  <2>9. QED BY <2>4, <2>5, <2>6, <2>7, <2>8 DEF SInv
<1>2. CASE Receive BY <1>0, <1>2, ReceiveUserTells, ReceiveAbortTells DEF Receive
<1>3. CASE Step
  BY <1>0, <1>3, SelectionTells, StartPrefillTells, AdmitTells, StopAdmissionTells, ForwardTells,
     NoForwardTells, DroppedResultTells, TokenTells, EndProcessTells DEF Step
<1>4. QED BY <1>1, <1>2, <1>3 DEF Next

\* Each step of the scheduler is one of the service's or changes nothing a user sees:
\* a message is an Admit or a Withdraw, the end of an iteration is an Emit.
LEMMA StepTells == IInv /\ SInv /\ [Next]_vars => [Service!ServiceNext]_<<status, sent>>
<1> SUFFICES ASSUME IInv, SInv, [Next]_vars
             PROVE  Service!ServiceNext \/ UNCHANGED <<status, sent>>
  OBVIOUS
<1>1. /\ TypeOK /\ RepliesPlaced /\ sent \in [Uids -> Seq(BOOLEAN)]
      /\ status \in [Uids -> {"new", "live", "dropped", "aborted", "done"}]
  BY DEF IInv, SInv, ResultsTyped, TypeOK
<1>2. CASE UNCHANGED vars BY <1>2 DEF vars, history
<1>3. ASSUME NEW u \in Uids, NEW w \in Workload, ReceiveUser(u, w)
      PROVE  Service!Admit(u)
  BY <1>3 DEF ReceiveUser, Service!Admit
<1>4. ASSUME NEW u \in Uids, ReceiveAbort(u) PROVE Service!Withdraw(u)
  BY <1>4 DEF ReceiveAbort, AbortNothing, AbortInflight, AbortNow, Withdraw, Service!Withdraw
<1>5. CASE EndProcess
  <2> DEFINE chosen   == {u \in Uids : RepliesTo(u) # {}}
             finished == {u \in Uids : \E i \in RepliesTo(u) : reply[i].finished}
  <2>1. sent' = [u \in Uids |-> sent'[u]] /\ status' = [u \in Uids |-> status'[u]]
    BY <1>5 DEF EndProcess
  <2>2. CASE chosen = {}
    <3>1. \A u \in Uids : sent'[u] = sent[u] /\ status'[u] = status[u]
      BY <1>5, <2>2, FlagsSent
    <3>2. QED BY <1>1, <2>1, <3>1
  <2>3. CASE chosen # {}
    <3>1. ASSUME NEW u \in chosen
          PROVE  /\ status[u] = "live" /\ Len(sent[u]) < MostTokens
                 /\ Len(sent[u]) + 1 = MostTokens => u \in finished
                 /\ sent'[u] = Append(sent[u], u \in finished)
                 /\ status'[u] = IF u \in finished THEN "done" ELSE status[u]
      <4>1. PICK i : i \in RepliesTo(u) OBVIOUS
      <4>2. /\ i \in DOMAIN reply /\ reply[i].uid = u /\ RepliesTo(u) = {i}
            /\ sent'[u] = Append(sent[u], reply[i].finished)
            /\ status'[u] = IF reply[i].finished THEN "done" ELSE status[u]
        BY <1>5, <4>1, FlagsSent
      <4>3. /\ status[u] = "live" /\ Len(sent[u]) < MostTokens /\ reply[i].finished \in BOOLEAN
            /\ Len(sent[u]) + 1 = MostTokens => reply[i].finished
        BY <1>1, <4>2 DEF RepliesPlaced
      <4>4. u \in finished <=> reply[i].finished BY <4>2
      <4>5. (u \in finished) = reply[i].finished BY <4>3, <4>4
      <4> HIDE DEF finished
      <4>6. QED BY <4>2, <4>3, <4>4, <4>5
    <3>2. ASSUME NEW u \in Uids, u \notin chosen
          PROVE  sent'[u] = sent[u] /\ status'[u] = status[u] /\ u \notin finished
      BY <1>5, <3>2, FlagsSent
    <3>3. finished \subseteq chosen /\ chosen \subseteq Uids BY <3>2
    <3> HIDE DEF chosen, finished
    <3>4. sent' = [u \in Uids |-> IF u \in chosen THEN Append(sent[u], u \in finished) ELSE sent[u]]
      BY <2>1, <3>1, <3>2
    <3>5. status' = [u \in Uids |-> IF u \in finished THEN "done" ELSE status[u]]
      BY <2>1, <3>1, <3>2, <3>3
    <3>6. Service!Emit(chosen, finished)
      BY <3>1, <3>3, <3>4, <3>5 DEF Service!Emit
    <3>7. chosen \in (SUBSET Uids) \ {{}} /\ finished \in SUBSET Uids BY <2>3, <3>3
    <3>8. QED BY <3>6, <3>7 DEF Service!ServiceNext
  <2>4. QED BY <2>2, <2>3
<1>6. CASE Step /\ ~EndProcess
  <2>1. UNCHANGED <<sent, status>>
    BY <1>6 DEF Step, SelectDecode, SelectNothing, StartPrefill, AdmitChunk, AdmitNew, StopAdmission,
       Forward, ForwardOutOfPages, NoForward, ProcessTerminal, ProcessChunk, ProcessToken, history
  <2>2. QED BY <2>1
<1>7. QED BY <1>2, <1>3, <1>4, <1>5, <1>6 DEF Next, Receive, Service!ServiceNext

\* The scheduler implements the request service, for every workload, policy, cache
\* and mode: no token for a request that was dropped, aborted or finished, none beyond
\* its length, the last one flagged, all of an iteration's at once.
THEOREM ServiceImplemented == Spec => ImplementsRequestService
<1>1. Init => Service!ServiceInit BY DEF Init, Service!ServiceInit
<1>2. Init => IInv /\ SInv BY InitIInv, InitSInv
<1>3. QED
  BY <1>1, <1>2, NextIInv, NextSInv, StepTells, PTL
     DEF Spec, ImplementsRequestService, Service!ServiceSpec

-----------------------------------------------------------------------------
(* What the service promises about streams, and so the scheduler.          *)

\* The invariant holds before the first message.
LEMMA InitStreams == Service!ServiceInit => Service!ServiceTypeOK /\ Service!StreamsWellFormed
  BY DEF Service!ServiceInit, Service!ServiceTypeOK, Service!StreamsWellFormed

\* Accepting or dropping a request changes no stream.
LEMMA AdmitStreams ==
  ASSUME Service!ServiceTypeOK, Service!StreamsWellFormed, NEW u \in Uids, Service!Admit(u)
  PROVE  Service!ServiceTypeOK' /\ Service!StreamsWellFormed'
<1>1. Service!ServiceTypeOK'
  BY DEF Service!ServiceTypeOK, Service!Admit
<1>2. ASSUME NEW v \in Uids
      PROVE  /\ \A i \in DOMAIN sent'[v] : sent'[v][i] => i = Len(sent'[v])
             /\ status'[v] = "done" <=> \E i \in DOMAIN sent'[v] : sent'[v][i]
             /\ status'[v] \in {"new", "dropped"} => sent'[v] = <<>>
  BY <1>2 DEF Service!ServiceTypeOK, Service!StreamsWellFormed, Service!Admit
<1> QED
  BY <1>1, <1>2 DEF Service!StreamsWellFormed

\* An abort ends a live stream without a flag and leaves every other one alone.
LEMMA WithdrawStreams ==
  ASSUME Service!ServiceTypeOK, Service!StreamsWellFormed, NEW u \in Uids, Service!Withdraw(u)
  PROVE  Service!ServiceTypeOK' /\ Service!StreamsWellFormed'
<1>1. Service!ServiceTypeOK'
  BY DEF Service!ServiceTypeOK, Service!Withdraw
<1>2. ASSUME NEW v \in Uids
      PROVE  /\ \A i \in DOMAIN sent'[v] : sent'[v][i] => i = Len(sent'[v])
             /\ status'[v] = "done" <=> \E i \in DOMAIN sent'[v] : sent'[v][i]
             /\ status'[v] \in {"new", "dropped"} => sent'[v] = <<>>
  BY <1>2 DEF Service!ServiceTypeOK, Service!StreamsWellFormed, Service!Withdraw
<1> QED
  BY <1>1, <1>2 DEF Service!StreamsWellFormed

\* A token is added to live streams, and the flag comes with the last one.
LEMMA EmitStreams ==
  ASSUME Service!ServiceTypeOK, Service!StreamsWellFormed,
         NEW chosen \in SUBSET Uids, NEW finished \in SUBSET Uids, Service!Emit(chosen, finished)
  PROVE  Service!ServiceTypeOK' /\ Service!StreamsWellFormed'
<1>1. Service!ServiceTypeOK'
  <2>1. ASSUME NEW u \in Uids PROVE Append(sent[u], u \in finished) \in Seq(BOOLEAN)
    <3>1. (u \in finished) \in BOOLEAN
      OBVIOUS
    <3>2. sent[u] \in Seq(BOOLEAN)
      BY DEF Service!ServiceTypeOK
    <3> QED
      BY <3>1, <3>2
  <2>2. sent' \in [Uids -> Seq(BOOLEAN)]
    BY <2>1 DEF Service!ServiceTypeOK, Service!Emit
  <2>3. status' \in [Uids -> {"new", "live", "dropped", "aborted", "done"}]
    BY DEF Service!ServiceTypeOK, Service!Emit
  <2> QED
    BY <2>2, <2>3 DEF Service!ServiceTypeOK
<1>2. ASSUME NEW v \in Uids, v \notin chosen
      PROVE  /\ sent'[v] = sent[v] /\ status'[v] = status[v]
  BY <1>2 DEF Service!ServiceTypeOK, Service!Emit
<1>3. ASSUME NEW v \in chosen
      PROVE  /\ status[v] = "live"
             /\ sent'[v] = Append(sent[v], v \in finished)
             /\ status'[v] = IF v \in finished THEN "done" ELSE "live"
  BY <1>3 DEF Service!ServiceTypeOK, Service!Emit
<1>4. ASSUME NEW v \in chosen
      PROVE  /\ \A i \in DOMAIN sent'[v] : sent'[v][i] => i = Len(sent'[v])
             /\ status'[v] = "done" <=> \E i \in DOMAIN sent'[v] : sent'[v][i]
  <2>1. \A i \in DOMAIN sent[v] : ~ sent[v][i]
    BY <1>3 DEF Service!StreamsWellFormed
  <2>2. sent[v] \in Seq(BOOLEAN)
    BY DEF Service!ServiceTypeOK
  <2>3. /\ DOMAIN sent'[v] = 1 .. (Len(sent[v]) + 1)
        /\ Len(sent'[v]) = Len(sent[v]) + 1
        /\ \A i \in 1 .. Len(sent[v]) : sent'[v][i] = sent[v][i]
        /\ sent'[v][Len(sent[v]) + 1] = (v \in finished)
    <3>1. PICK flag \in BOOLEAN : flag = (v \in finished)
      <4>1. CASE v \in finished
        <5>1. (v \in finished) = TRUE
          BY <4>1
        <5> QED
          BY <5>1
      <4>2. CASE v \notin finished
        <5>1. (v \in finished) = FALSE
          BY <4>2
        <5> QED
          BY <5>1
      <4> QED
        BY <4>1, <4>2
    <3>2. sent'[v] = Append(sent[v], flag)
      BY <1>3, <3>1
    <3>3. PICK n \in Nat : n = Len(sent[v])
      BY <2>2
    <3>4. DOMAIN sent'[v] = 1 .. (n + 1) /\ Len(sent'[v]) = n + 1
      BY <2>2, <3>2, <3>3
    <3>5. \A i \in 1 .. n : sent'[v][i] = sent[v][i]
      BY <2>2, <3>2, <3>3
    <3>6. sent'[v][n + 1] = flag
      BY <2>2, <3>2, <3>3
    <3> QED
      BY <3>1, <3>3, <3>4, <3>5, <3>6
  <2>4. \A i \in 1 .. (Len(sent[v]) + 1) : sent'[v][i] => i = Len(sent[v]) + 1
    BY <2>1, <2>2, <2>3
  <2>5. (\E i \in DOMAIN sent'[v] : sent'[v][i]) <=> v \in finished
    <3>1. ASSUME NEW i \in DOMAIN sent'[v], sent'[v][i] PROVE v \in finished
      <4>1. i = Len(sent[v]) + 1
        BY <2>3, <2>4, <3>1
      <4> QED
        BY <2>3, <3>1, <4>1
    <3>2. ASSUME v \in finished PROVE \E i \in DOMAIN sent'[v] : sent'[v][i]
      <4>1. Len(sent[v]) + 1 \in DOMAIN sent'[v]
        BY <2>2, <2>3
      <4> QED
        BY <2>3, <3>2, <4>1
    <3> QED
      BY <3>1, <3>2
  <2> QED
    BY <1>3, <2>3, <2>4, <2>5
<1> QED
  BY <1>1, <1>2, <1>3, <1>4 DEF Service!StreamsWellFormed

\* A stream has one end, which is flagged, and a request is done exactly then.
THEOREM StreamsCorrect == Service!ServiceSpec => []Service!StreamsWellFormed
<1> DEFINE StreamInv == Service!ServiceTypeOK /\ Service!StreamsWellFormed
<1>1. Service!ServiceInit => StreamInv
  BY InitStreams
<1>2. StreamInv /\ [Service!ServiceNext]_<<status, sent>> => StreamInv'
  <2> SUFFICES ASSUME Service!ServiceTypeOK, Service!StreamsWellFormed, [Service!ServiceNext]_<<status, sent>>
               PROVE  Service!ServiceTypeOK' /\ Service!StreamsWellFormed'
    OBVIOUS
  <2>1. CASE UNCHANGED <<status, sent>>
    BY <2>1 DEF Service!ServiceTypeOK, Service!StreamsWellFormed
  <2>2. ASSUME NEW u \in Uids, Service!Admit(u) PROVE Service!ServiceTypeOK' /\ Service!StreamsWellFormed'
    BY <2>2, AdmitStreams
  <2>3. ASSUME NEW u \in Uids, Service!Withdraw(u) PROVE Service!ServiceTypeOK' /\ Service!StreamsWellFormed'
    BY <2>3, WithdrawStreams
  <2>4. ASSUME NEW chosen \in (SUBSET Uids) \ {{}}, NEW finished \in SUBSET Uids,
               Service!Emit(chosen, finished)
        PROVE Service!ServiceTypeOK' /\ Service!StreamsWellFormed'
    BY <2>4, EmitStreams
  <2> QED
    BY <2>1, <2>2, <2>3, <2>4 DEF Service!ServiceNext
<1> QED
  BY <1>1, <1>2, PTL DEF Service!ServiceSpec

\* What the frontend sees of the scheduler: one flag at the end of a stream, and a
\* request done exactly when its flag is sent.
THEOREM SchedulerStreams == Spec => []Service!StreamsWellFormed
BY ServiceImplemented, StreamsCorrect, PTL DEF ImplementsRequestService

-----------------------------------------------------------------------------
(* The order of the queue.                                                 *)

\* The prompt that was cut is the last the adder has come to.
CutLast == \A k \in DOMAIN adder.chunked : adder.chunked[k].uid = pending[Len(adder.reqs)].uid

LEMMA NextCutLast == IInv /\ CutLast /\ [Next]_vars => CutLast'
<1> SUFFICES ASSUME IInv, CutLast, [Next]_vars PROVE CutLast' OBVIOUS
<1>1. TypeOK /\ AdderPlaced BY DEF IInv, Placement
<1>2. CASE AdmitChunk \/ AdmitNew
  <2>1. PICK n \in Nat, slot \in Slots, cached \in Int : \E handle, row :
          AddOneReq(Candidate, <<Candidate.uid, n>>, slot, handle, cached, row)
    BY <1>2, AdmitCalls
  <2>2. PICK handle, row :
          AddOneReq(Candidate, <<Candidate.uid, n>>, slot, handle, cached, row)
    BY <2>1
  <2>3. HasCandidate /\ pending' = pending BY <1>2, AdmitCalls
  <2> DEFINE id == <<Candidate.uid, n>>
             cut == [Candidate EXCEPT !.chunk = id]
  <2>4. /\ adder'.reqs = Append(adder.reqs, id)
        /\ adder'.chunked = adder.chunked \/ adder'.chunked = Append(adder.chunked, cut)
    BY <2>2 DEF AddOneReq
  <2>5. /\ adder.reqs \in Seq(Objs) /\ adder.chunked \in Seq(PendingType)
        /\ Len(adder.reqs) \in Nat /\ Len(adder.chunked) \in Nat
    BY <1>1, LenProperties DEF TypeOK
  <2>6. adder.chunked = <<>>
    <3>1. Len(adder.chunked) # 1 BY <1>1, <2>3 DEF AdderPlaced, HasCandidate
    <3>2. Len(adder.chunked) = 0
      <4>1. Len(adder.chunked) <= 1 BY <1>1 DEF AdderPlaced
      <4> DEFINE c == Len(adder.chunked)
      <4>2. c \in Nat /\ c <= 1 /\ c # 1 BY <2>5, <3>1, <4>1
      <4> HIDE DEF c
      <4>3. c = 0 BY <4>2
      <4>4. QED BY <4>3 DEF c
    <3>3. QED BY <2>5, <3>2, EmptySeq
  <2>7. Len(adder'.reqs) = Len(adder.reqs) + 1
    <3> HIDE DEF id
    <3>1. QED BY <2>4, <2>5
  <2>8. CASE adder'.chunked = <<>> BY <2>8 DEF CutLast
  <2>9. CASE adder'.chunked = <<cut>>
    <3>1. cut.uid = Candidate.uid
      <4>1. Candidate \in PendingType
        <5>1. Len(adder.reqs) + 1 \in 1 .. Len(pending) BY <2>3, <2>5 DEF HasCandidate
        <5>2. QED BY <1>1, <5>1, ElementOfSeq DEF Candidate, TypeOK
      <4>2. QED BY <4>1 DEF PendingType
    <3> HIDE DEF cut
    <3>2. \A k \in DOMAIN adder'.chunked : adder'.chunked[k] = cut BY <2>9
    <3>3. Candidate = pending'[Len(adder'.reqs)] BY <2>3, <2>7 DEF Candidate
    <3>4. QED BY <3>1, <3>2, <3>3 DEF CutLast
  <2>10. QED
    <3> HIDE DEF cut
    <3>1. QED BY <2>4, <2>6, <2>8, <2>9
<1>3. CASE Receive
  <2>1. adder' = adder /\ adder.chunked = <<>>
    BY <1>1, <1>3 DEF Receive, ReceiveAbort, AbortNothing, AbortInflight, AbortNow, ReceiveUser, AdderPlaced
  <2>2. QED BY <2>1 DEF CutLast
<1>4. CASE StartPrefill \/ StopAdmission
  <2>1. adder'.chunked = <<>> BY <1>4 DEF StartPrefill, StopAdmission, NoAdder
  <2>2. QED BY <2>1 DEF CutLast
<1>5. CASE UNCHANGED <<pending, adder>> BY <1>5 DEF CutLast
<1>6. QED
  BY <1>2, <1>3, <1>4, <1>5 DEF Next, Step, vars, control, SelectDecode, SelectNothing, Forward,
     ForwardOutOfPages, NoForward, ProcessTerminal, ProcessChunk, ProcessToken, EndProcess, TakeResult

\* The position of an entry of the queue.
LEMMA PositionOf ==
  QueuePlaced => \A i \in DOMAIN pending : Position(pending[i].uid) = i
BY DEF QueuePlaced, Position

\* What stays in the queue stays in its order, and behind what stays nothing leaves but by
\* an abort.
StaysInOrder ==
  \A i, j \in DOMAIN pending : \A k \in DOMAIN pending' :
    i < j /\ pending'[k].uid = pending[i].uid /\ status'[pending[j].uid] # "aborted" =>
      \E l \in DOMAIN pending' : k < l /\ pending'[l].uid = pending[j].uid

LEMMA WithdrawInOrder ==
  ASSUME IInv, SInv, NEW u \in Uids, Withdraw(u)
  PROVE  StaysInOrder
<1>1. pending \in Seq(PendingType) /\ DOMAIN pending = 1 .. Len(pending) /\ Len(pending) \in Nat
  BY LenProperties DEF IInv, TypeOK
<1>2. \A i, j \in DOMAIN pending : pending[i].uid = pending[j].uid => i = j
  BY DEF IInv, Placement, QueuePlaced
<1>3. CASE Queued(u) = {}
  <2>1. pending' = pending BY <1>3 DEF Withdraw, WithdrawQueued
  <2>2. QED BY <1>2, <2>1 DEF StaysInOrder
<1>4. CASE Queued(u) # {}
  <2> DEFINE x == CHOOSE i \in Queued(u) : TRUE
             at(j) == IF j < x THEN j ELSE j + 1
  <2>1. x \in DOMAIN pending /\ pending[x].uid = u BY <1>4 DEF Queued
  <2>2. pending' = RemovePosition(pending, x) BY <1>4 DEF Withdraw, WithdrawQueued
  <2>3. status'[u] = "aborted"
    <3>1. status[u] = "live" BY <2>1 DEF SInv, OpenIsLive
    <3>2. DOMAIN status = Uids BY DEF IInv, TypeOK
    <3>3. QED BY <3>1, <3>2 DEF Withdraw
  <2> HIDE DEF x
  <2>4. /\ pending' \in Seq(PendingType) /\ Len(pending') = Len(pending) - 1
        /\ \A j \in DOMAIN pending' : pending'[j] = pending[at(j)]
        /\ \A j \in DOMAIN pending' : at(j) \in DOMAIN pending \ {x}
    <3>1. pending \in Seq(PendingType) BY <1>1
    <3>2. /\ RemovePosition(pending, x) \in Seq(PendingType)
          /\ Len(RemovePosition(pending, x)) = Len(pending) - 1
          /\ \A j \in DOMAIN RemovePosition(pending, x) :
               RemovePosition(pending, x)[j] = pending[IF j < x THEN j ELSE j + 1]
          /\ \A j \in DOMAIN RemovePosition(pending, x) :
               (IF j < x THEN j ELSE j + 1) \in DOMAIN pending \ {x}
      BY <2>1, <3>1, RemoveElements
    <3>3. QED BY <2>2, <3>2
  <2>5. DOMAIN pending' = 1 .. Len(pending) - 1 BY <2>4, LenProperties
  <2>6. ASSUME NEW i \in DOMAIN pending, NEW j \in DOMAIN pending, NEW k \in DOMAIN pending',
               i < j, pending'[k].uid = pending[i].uid, status'[pending[j].uid] # "aborted"
        PROVE  \E l \in DOMAIN pending' : k < l /\ pending'[l].uid = pending[j].uid
    <3>1. at(k) = i BY <1>2, <2>4, <2>6
    <3>2. j # x BY <2>1, <2>3, <2>6
    <3>3. PICK l \in 1 .. Len(pending) - 1 : at(l) = j
      <4>1. CASE j < x
        <5>1. j \in 1 .. Len(pending) - 1 /\ at(j) = j BY <1>1, <2>1, <4>1
        <5>2. QED BY <5>1
      <4>2. CASE j > x
        <5>1. j - 1 \in 1 .. Len(pending) - 1 /\ at(j - 1) = j BY <1>1, <2>1, <4>2
        <5>2. QED BY <5>1
      <4>3. QED BY <1>1, <2>1, <3>2, <4>1, <4>2
    <3>4. k < l BY <1>1, <2>1, <2>5, <2>6, <3>1, <3>3
    <3>5. pending'[l] = pending[j] BY <2>4, <2>5, <3>3
    <3>6. QED BY <2>5, <3>4, <3>5
  <2>7. QED BY <2>6 DEF StaysInOrder
<1>5. QED BY <1>3, <1>4

LEMMA RequeueInOrder ==
  ASSUME IInv, CutLast, adder.reqs # <<>>, pending' = Requeue
  PROVE  StaysInOrder
<1> DEFINE a == Len(adder.reqs)
           c == Len(adder.chunked)
<1>1. TypeOK /\ AdderPlaced BY DEF IInv, Placement
<1>2. /\ DOMAIN pending = 1 .. Len(pending) /\ Len(pending) \in Nat
      /\ a \in Nat \ {0} /\ c \in 0 .. 1 /\ a \in DOMAIN pending
  <2>1. pending \in Seq(PendingType) /\ adder.reqs \in Seq(Objs) /\ adder.chunked \in Seq(PendingType)
    BY <1>1 DEF TypeOK
  <2>2. /\ DOMAIN pending = 1 .. Len(pending) /\ Len(pending) \in Nat
        /\ a \in Nat /\ c \in Nat
    BY <2>1, LenProperties
  <2>3. a # 0 BY <2>1, EmptySeq
  <2>4. a <= Len(pending) /\ c <= 1 BY <1>1 DEF AdderPlaced
  <2> HIDE DEF a, c
  <2>5. QED BY <2>2, <2>3, <2>4
<1>3. \A i, j \in DOMAIN pending : pending[i].uid = pending[j].uid => i = j
  BY DEF IInv, Placement, QueuePlaced
<1>4. /\ \A k \in DOMAIN pending' :
           \/ k = 1 /\ c = 1 /\ pending'[k] = adder.chunked[1]
           \/ \E m \in DOMAIN pending : m > a /\ m = k - c + a /\ pending'[k] = pending[m]
      /\ \A m \in DOMAIN pending : m > a => m - a + c \in DOMAIN pending'
      /\ DOMAIN pending' = 1 .. Len(pending')
  BY <1>1, RequeueElements, LenProperties
<1>5. c = 1 => adder.chunked[1].uid = pending[a].uid
  <2>1. c = 1 => 1 \in DOMAIN adder.chunked BY <1>1, LenProperties DEF TypeOK
  <2>2. QED BY <2>1 DEF CutLast
<1> HIDE DEF a, c
<1>6. ASSUME NEW i \in DOMAIN pending, NEW j \in DOMAIN pending, NEW k \in DOMAIN pending',
             i < j, pending'[k].uid = pending[i].uid
      PROVE  \E l \in DOMAIN pending' : k < l /\ pending'[l].uid = pending[j].uid
  <2>1. i >= a /\ k - c + a <= i
    <3>1. CASE k = 1 /\ c = 1 /\ pending'[k] = adder.chunked[1]
      <4>1. i = a BY <1>2, <1>3, <1>5, <1>6, <3>1
      <4>2. QED BY <1>2, <3>1, <4>1
    <3>2. CASE \E m \in DOMAIN pending : m > a /\ m = k - c + a /\ pending'[k] = pending[m]
      <4>1. PICK m \in DOMAIN pending : m > a /\ m = k - c + a /\ pending'[k] = pending[m] BY <3>2
      <4>2. m = i BY <1>3, <1>6, <4>1
      <4>3. QED BY <1>2, <4>1, <4>2
    <3>3. QED BY <1>4, <3>1, <3>2
  <2> DEFINE l == j - a + c
  <2>2. l \in DOMAIN pending' /\ k < l /\ j > a
    <3>1. j > a BY <1>2, <1>6, <2>1
    <3>2. k \in Int BY <1>4
    <3>3. QED BY <1>2, <1>4, <1>6, <2>1, <3>1, <3>2
  <2>3. l - c + a = j /\ ~(l = 1 /\ c = 1) BY <1>2, <2>2
  <2> HIDE DEF l
  <2>4. pending'[l] = pending[j] BY <1>4, <2>2, <2>3
  <2>5. QED BY <2>2, <2>4
<1>7. QED BY <1>6 DEF StaysInOrder

LEMMA NextInOrder == IInv /\ SInv /\ CutLast /\ [Next]_vars => StaysInOrder
<1> SUFFICES ASSUME IInv, SInv, CutLast, [Next]_vars PROVE StaysInOrder OBVIOUS
<1>1. /\ pending \in Seq(PendingType) /\ DOMAIN pending = 1 .. Len(pending) /\ Len(pending) \in Nat
      /\ \A i, j \in DOMAIN pending : pending[i].uid = pending[j].uid => i = j
  BY LenProperties DEF IInv, TypeOK, Placement, QueuePlaced
<1>2. CASE pending' = pending BY <1>1, <1>2 DEF StaysInOrder
<1>3. ASSUME NEW u \in Uids, NEW w \in Workload, ReceiveUser(u, w) PROVE StaysInOrder
  <2>1. PICK q : pending' = pending \/ pending' = Append(pending, q) BY <1>3 DEF ReceiveUser
  <2>2. \A i \in DOMAIN pending : i \in DOMAIN pending' /\ pending'[i] = pending[i]
    BY <1>1, <2>1
  <2>3. \A i, j \in DOMAIN pending' : pending'[i].uid = pending'[j].uid => i = j
    <3>1. IInv' BY NextIInv
    <3>2. QED BY <3>1 DEF IInv, Placement, QueuePlaced
  <2>4. QED BY <2>2, <2>3 DEF StaysInOrder
<1>4. ASSUME NEW u \in Uids, ReceiveAbort(u) PROVE StaysInOrder
  BY <1>4, WithdrawInOrder DEF ReceiveAbort, AbortNothing, AbortInflight, AbortNow
<1>5. CASE StopAdmission
  <2>1. CASE adder.reqs # <<>> BY <1>5, <2>1, RequeueInOrder DEF StopAdmission
  <2>2. CASE adder.reqs = <<>> BY <1>2, <1>5, <2>2 DEF StopAdmission
  <2>3. QED BY <2>1, <2>2
<1>6. QED
  BY <1>2, <1>3, <1>4, <1>5 DEF Next, Receive, Step, vars, control, SelectDecode, SelectNothing,
     StartPrefill, AdmitChunk, AdmitNew, Forward, ForwardOutOfPages, NoForward, ProcessTerminal,
     ProcessChunk, ProcessToken, EndProcess

\* Prompts leave the queue in the order they came, whatever is cut, refused or aborted
\* between them: of two in the queue the later one neither overtakes nor leaves first,
\* unless it is aborted (prefill.py schedule_next_batch, abort_req).
THEOREM AdmissionCorrect == Spec => AdmissionInOrder
<1>1. Init => IInv /\ SInv /\ CutLast
  <2>1. Init => CutLast BY DEF Init, NoAdder, CutLast
  <2>2. QED BY <2>1, InitIInv, InitSInv
<1>2. ASSUME IInv, SInv, CutLast, [Next]_vars, NEW u \in Uids, NEW v \in Uids,
             Queued(u) # {}, Queued(v) # {}, Position(u) < Position(v),
             Queued(u)' # {}, status'[v] # "aborted"
      PROVE  Queued(v)' # {} /\ Position(u)' < Position(v)'
  <2>1. QueuePlaced BY <1>2 DEF IInv, Placement
  <2>2. QueuePlaced' BY <1>2, NextIInv DEF IInv, Placement
  <2>3. \A i \in DOMAIN pending : Position(pending[i].uid) = i BY <2>1, PositionOf
  <2>4. \A i \in DOMAIN pending' : Position(pending[i].uid)' = i
    <3>1. (QueuePlaced => \A i \in DOMAIN pending : Position(pending[i].uid) = i)'
      BY PositionOf, PTL
    <3>2. QED BY <2>2, <3>1
  <2>5. PICK i \in DOMAIN pending : pending[i].uid = u BY <1>2 DEF Queued
  <2>6. PICK j \in DOMAIN pending : pending[j].uid = v BY <1>2 DEF Queued
  <2>7. PICK k \in DOMAIN pending' : pending'[k].uid = u BY <1>2 DEF Queued
  <2>8. i < j BY <1>2, <2>3, <2>5, <2>6
  <2>9. PICK l \in DOMAIN pending' : k < l /\ pending'[l].uid = v
    <3>1. StaysInOrder BY <1>2, NextInOrder
    <3>2. QED BY <1>2, <2>5, <2>6, <2>7, <2>8, <3>1 DEF StaysInOrder
  <2>10. Position(u)' = k /\ Position(v)' = l
    <3>1. \A x : Position(x)' = CHOOSE y \in DOMAIN pending' : pending'[y].uid = x BY DEF Position
    <3>2. QED BY <2>4, <2>7, <2>9, <3>1
  <2>11. QED BY <2>9, <2>10 DEF Queued
<1>3. IInv /\ SInv /\ CutLast /\ [Next]_vars =>
        [\A u, v \in Uids :
           (/\ Queued(u) # {} /\ Queued(v) # {} /\ Position(u) < Position(v)
            /\ Queued(u)' # {} /\ status'[v] # "aborted")
           => Queued(v)' # {} /\ Position(u)' < Position(v)']_vars
  BY <1>2
<1>4. QED BY <1>1, <1>3, NextIInv, NextSInv, NextCutLast, PTL DEF Spec, AdmissionInOrder

-----------------------------------------------------------------------------
(* Table slots: each is free or held for one prompt, whatever objects are  *)
(* made for the prompt, in flight, cut, aborted or collected.              *)

ChunksOf(S) == {pending[k].chunk : k \in S} \ {None}

\* The chunks the adder has come past, and those it has not.
Passed == ChunksOf(DOMAIN pending \cap DOMAIN adder.reqs)
Waiting == ChunksOf(DOMAIN pending \ DOMAIN adder.reqs)

\* The objects a uid is known by from now on, and those whose results are due.
Newer ==
  running \cup terminal \cup Waiting \cup ToSet(adder.reqs) \cup ToSet(batch.reqs)
    \cup (IF pc = "process" THEN ToSet(last.reqs) ELSE {})

Older == IF pc = "process" THEN ToSet(proc.reqs) ELSE ToSet(last.reqs) \cup Passed

\* The newer objects that the loop has made or launched in this iteration.
Fresh == IF pc = "process" THEN ToSet(last.reqs) ELSE ToSet(adder.reqs) \cup ToSet(batch.reqs)

\* A uid has one newer object and one older; where they differ the newer one was just
\* made for the next part of the prompt and the older one is a chunk, made before it.
TipsApart ==
  /\ Single(Newer) /\ Single(Older)
  /\ \A o \in Newer, p \in Older :
       o[1] = p[1] /\ o # p =>
         o \in Fresh \ terminal /\ reqs[p].class = "ChunkedReq" /\ p[2] < o[2]

\* Behind a chunk in flight there is something that keeps its slot.
Continuing ==
  running \cup terminal \cup Waiting \cup ToSet(adder.reqs) \cup ToSet(batch.reqs)
    \cup {o \in ToSet(last.reqs) : reqs[o].class = "Req"}

ChunksContinue ==
  \A p \in DOMAIN inflight :
    reqs[p].class = "ChunkedReq" => \E o \in Continuing : o[1] = p[1]

\* A prompt cut in a batch is queued again; while the adder works it remembers it.
CutsQueued ==
  /\ \A o \in ToSet(batch.reqs) : reqs[o].class = "ChunkedReq" => o \in Waiting
  /\ \A o \in ToSet(adder.reqs) :
       reqs[o].class = "ChunkedReq" =>
         \E k \in DOMAIN adder.chunked : adder.chunked[k].chunk = o

\* Who runs can decode, and who is in flight and can decode runs.
RunningExact ==
  /\ \A o \in running : CanDecode(reqs[o])
  /\ \A o \in DOMAIN inflight \ terminal : CanDecode(reqs[o]) => o \in running

Flying(o) == IF o \in DOMAIN inflight THEN inflight[o] ELSE 0

\* The device is ahead of the host by the batches in flight.
HostCounts == \A o \in Open : reqs[o].device = Len(reqs[o].host) + Flying(o)

XInv ==
  /\ TipsApart /\ ChunksContinue /\ CutsQueued /\ RunningExact /\ HostCounts
  /\ SlotsExclusive

-----------------------------------------------------------------------------
(* Who holds a slot.                                                       *)

\* Everything that holds a slot is newer or older.
LEMMA HoldersSplit == IInv => Holders = Newer \cup Older
<1> SUFFICES ASSUME IInv PROVE Holders = Newer \cup Older OBVIOUS
<1>1. AdderPlaced /\ BatchesPlaced /\ InflightExact BY DEF IInv, Placement
<1>2. DOMAIN inflight = ToSet(last.reqs) \cup ToSet(proc.reqs) BY <1>1 DEF InflightExact
<1>3. {pending[k].chunk : k \in DOMAIN pending} \ {None} = Passed \cup Waiting
  BY DEF Passed, Waiting, ChunksOf
<1>4. CASE pc = "process"
  <2>1. adder.reqs = <<>> BY <1>1, <1>4 DEF AdderPlaced
  <2>2. Passed = {} BY <2>1 DEF Passed, ChunksOf
  <2>3. QED BY <1>2, <1>3, <1>4, <2>2 DEF Holders, Referenced, Newer, Older
<1>5. CASE pc # "process"
  <2>1. ToSet(proc.reqs) = {} BY <1>1, <1>5, EmptyFacts DEF BatchesPlaced
  <2>2. QED BY <1>2, <1>3, <1>5, <2>1 DEF Holders, Referenced, Newer, Older
<1>6. QED BY <1>4, <1>5

\* Holders are objects, with a slot.
LEMMA HoldersTyped == IInv => \A o \in Holders : o \in DOMAIN reqs /\ o \in Objs /\ reqs[o].slot \in Slots
<1> SUFFICES ASSUME IInv, NEW o \in Holders PROVE o \in DOMAIN reqs
  BY DEF IInv, TypeOK
<1>1. TypeOK /\ QueuePlaced /\ AdderPlaced /\ BatchesPlaced BY DEF IInv, Placement
<1>2. ToSet(adder.reqs) \subseteq DOMAIN reqs BY <1>1 DEF AdderPlaced, ToSet
<1>3. {pending[k].chunk : k \in DOMAIN pending} \ {None} \subseteq DOMAIN reqs
  BY <1>1 DEF QueuePlaced
<1>4. QED BY <1>1, <1>2, <1>3 DEF TypeOK, BatchesPlaced, Holders, Referenced

\* Of the objects of a uid only outdated ones go.
LEMMA NewestKept ==
  ASSUME IInv, Holders' \subseteq Holders,
         \A p \in Holders : \E o \in Holders' : o[1] = p[1] /\ p[2] <= o[2]
  PROVE  Newest' = Newest
<1>1. \A o \in Holders : o \in Uids \X Nat /\ o[2] \in Nat BY HoldersTyped DEF Objs
<1>2. ASSUME NEW o \in Newest PROVE o \in Newest'
  <2>1. o \in Holders /\ \A p \in Holders : p[1] = o[1] => p[2] <= o[2] BY DEF Newest
  <2>2. PICK p \in Holders' : p[1] = o[1] /\ o[2] <= p[2] BY <2>1
  <2>3. p[2] = o[2] BY <1>1, <2>1, <2>2
  <2>4. p = o BY <1>1, <2>1, <2>2, <2>3
  <2>5. QED BY <2>1, <2>4 DEF Newest
<1>3. ASSUME NEW o \in Newest' PROVE o \in Newest
  <2>1. o \in Holders /\ \A p \in Holders' : p[1] = o[1] => p[2] <= o[2] BY DEF Newest
  <2>2. ASSUME NEW p \in Holders, p[1] = o[1] PROVE p[2] <= o[2]
    <3>1. PICK p1 \in Holders' : p1[1] = p[1] /\ p[2] <= p1[2] OBVIOUS
    <3>2. p1[2] <= o[2] BY <2>1, <2>2, <3>1
    <3>3. QED BY <1>1, <2>1, <3>1, <3>2
  <2>3. QED BY <2>1, <2>2 DEF Newest
<1>4. QED BY <1>2, <1>3

\* The only object of a uid goes.
LEMMA NewestGone ==
  ASSUME IInv, NEW c \in Holders, \A p \in Holders : p[1] = c[1] => p = c,
         \A o \in Holders' : o \in Holders /\ o[1] # c[1],
         \A p \in Holders : p[1] # c[1] => p \in Holders'
  PROVE  c \in Newest /\ Newest' = Newest \ {c}
<1>1. c \in Newest
  <2>1. c[2] \in Nat BY HoldersTyped DEF Objs
  <2>2. QED BY <2>1 DEF Newest
<1>2. ASSUME NEW o \in Newest, o # c PROVE o \in Newest' BY <1>2 DEF Newest
<1>3. ASSUME NEW o \in Newest' PROVE o \in Newest \ {c} BY <1>3 DEF Newest
<1>4. QED BY <1>1, <1>2, <1>3

\* An object is made; the last one of its uid, if there was one, is outdated.
LEMMA NewestMade ==
  ASSUME IInv, NEW id \in Objs, Holders' = Holders \cup {id},
         \A p \in Holders : p[1] = id[1] => p[2] < id[2]
  PROVE  Newest' = {o \in Newest : o[1] # id[1]} \cup {id}
<1>1. \A o \in Holders : o[2] \in Nat BY HoldersTyped DEF Objs
<1>2. id[2] \in Nat BY DEF Objs
<1>3. id \in Newest' BY <1>1, <1>2 DEF Newest
<1>4. ASSUME NEW o \in Newest, o[1] # id[1] PROVE o \in Newest' BY <1>4 DEF Newest
<1>5. ASSUME NEW o \in Newest', o # id PROVE o \in Newest /\ o[1] # id[1]
  <2>2. o \in Holders /\ o[1] # id[1]
    <3>1. o \in Holders BY <1>5 DEF Newest
    <3>2. o[1] = id[1] => o[2] < id[2] /\ id[2] <= o[2] BY <1>5, <3>1 DEF Newest
    <3>3. QED BY <1>1, <1>2, <3>1, <3>2
  <2>3. QED BY <1>5, <2>2 DEF Newest
<1>6. QED BY <1>3, <1>4, <1>5

\* The free slots stay, and the same uids hold the same slots.
LEMMA SlotsKept ==
  ASSUME SlotsExclusive, free_table' = free_table,
         \A o \in Holders' : \E p \in Holders : p[1] = o[1] /\ reqs'[o].slot = reqs[p].slot,
         \A p \in Holders : \E o \in Holders' : o[1] = p[1]
  PROVE  SlotsExclusive'
<1>1. ASSUME NEW o \in Holders', NEW p \in Holders'
      PROVE  o[1] = p[1] <=> reqs'[o].slot = reqs'[p].slot
  <2>1. PICK o1 \in Holders : o1[1] = o[1] /\ reqs'[o].slot = reqs[o1].slot OBVIOUS
  <2>2. PICK p1 \in Holders : p1[1] = p[1] /\ reqs'[p].slot = reqs[p1].slot OBVIOUS
  <2>3. QED BY <2>1, <2>2 DEF SlotsExclusive
<1>2. {reqs'[o].slot : o \in Holders'} = {reqs[o].slot : o \in Holders}
  <2>1. \A o \in Holders' : \E p \in Holders : reqs'[o].slot = reqs[p].slot OBVIOUS
  <2>2. ASSUME NEW p \in Holders PROVE \E o \in Holders' : reqs'[o].slot = reqs[p].slot
    <3>1. PICK o \in Holders' : o[1] = p[1] OBVIOUS
    <3>2. PICK p1 \in Holders : p1[1] = o[1] /\ reqs'[o].slot = reqs[p1].slot OBVIOUS
    <3>3. reqs[p1].slot = reqs[p].slot BY <3>1, <3>2 DEF SlotsExclusive
    <3>4. QED BY <3>2, <3>3
  <2> DEFINE before == {reqs[o].slot : o \in Holders}
             after == {reqs'[o].slot : o \in Holders'}
  <2>3. ASSUME NEW x \in after PROVE x \in before BY <2>1
  <2>4. ASSUME NEW x \in before PROVE x \in after BY <2>2
  <2> HIDE DEF before, after
  <2>5. before = after BY <2>3, <2>4
  <2>6. QED BY <2>5 DEF before, after
<1>3. QED BY <1>1, <1>2 DEF SlotsExclusive, Slots

\* Everything of one uid goes, and its slot is appended to the free ones.
LEMMA SlotReleased ==
  ASSUME TypeOK, SlotsExclusive, NEW c \in Holders, reqs[c].slot \in Slots,
         free_table' = Append(free_table, reqs[c].slot),
         \A o \in Holders' : o \in Holders /\ o[1] # c[1] /\ reqs'[o].slot = reqs[o].slot,
         \A p \in Holders : p[1] # c[1] => p \in Holders'
  PROVE  SlotsExclusive'
<1> DEFINE s == reqs[c].slot
           n == Len(free_table)
<1>1. /\ ~Duplicated(free_table)
      /\ ToSet(free_table) = Slots \ {reqs[o].slot : o \in Holders}
      /\ \A o, p \in Holders : o[1] = p[1] <=> reqs[o].slot = reqs[p].slot
  BY DEF SlotsExclusive
<1>2. /\ free_table \in Seq(Slots) /\ n \in Nat
      /\ DOMAIN free_table = 1 .. n /\ DOMAIN free_table' = 1 .. n + 1
      /\ \A i \in 1 .. n : free_table'[i] = free_table[i]
      /\ free_table'[n + 1] = s
      /\ ToSet(free_table') = ToSet(free_table) \cup {s}
  <2>1. free_table \in Seq(Slots) BY DEF TypeOK
  <2> HIDE DEF s
  <2>2. free_table' = Append(free_table, s) BY DEF s
  <2>3. s \in Slots BY DEF s
  <2>4. QED BY <2>1, <2>2, <2>3, AppendElements, LenProperties
<1>3. \A i \in 1 .. n : free_table[i] # s
  <2>1. s \notin ToSet(free_table) BY <1>1
  <2>2. QED BY <1>2, <2>1, ToSetElement
<1>4. ~Duplicated(free_table')
  <2>1. \A i, j \in 1 .. n : free_table[i] = free_table[j] => i = j
    BY <1>1, <1>2 DEF Duplicated
  <2> HIDE DEF s, n
  <2>2. ASSUME NEW i \in 1 .. n + 1, NEW j \in 1 .. n + 1, i # j, free_table'[i] = free_table'[j]
        PROVE  FALSE
    <3>1. i \in 1 .. n \/ i = n + 1 BY <1>2
    <3>2. j \in 1 .. n \/ j = n + 1 BY <1>2
    <3>3. QED BY <1>2, <1>3, <2>1, <2>2, <3>1, <3>2
  <2>3. QED BY <1>2, <2>2 DEF Duplicated
<1>5. ToSet(free_table') = Slots \ {reqs'[o].slot : o \in Holders'}
  <2>1. {reqs'[o].slot : o \in Holders'} = {reqs[o].slot : o \in Holders} \ {s}
    BY <1>1
  <2>2. QED BY <1>1, <1>2, <2>1
<1>6. \A o, p \in Holders' : o[1] = p[1] <=> reqs'[o].slot = reqs'[p].slot
  BY <1>1
<1>7. QED BY <1>4, <1>5, <1>6 DEF SlotsExclusive, Slots

\* A uid that holds nothing takes the last of the free slots.
LEMMA SlotTaken ==
  ASSUME TypeOK, SlotsExclusive, free_table # <<>>, NEW id,
         free_table' = SubSeq(free_table, 1, Len(free_table) - 1),
         Holders' = Holders \cup {id}, reqs'[id].slot = free_table[Len(free_table)],
         \A o \in Holders : o[1] # id[1] /\ reqs'[o].slot = reqs[o].slot
  PROVE  SlotsExclusive'
<1> DEFINE n == Len(free_table)
           s == free_table[n]
<1>1. /\ ~Duplicated(free_table)
      /\ ToSet(free_table) = Slots \ {reqs[o].slot : o \in Holders}
      /\ \A o, p \in Holders : o[1] = p[1] <=> reqs[o].slot = reqs[p].slot
  BY DEF SlotsExclusive
<1>2. /\ n \in Nat \ {0} /\ DOMAIN free_table = 1 .. n /\ DOMAIN free_table' = 1 .. n - 1
      /\ \A i \in 1 .. n - 1 : free_table'[i] = free_table[i]
  <2>1. free_table \in Seq(Slots) BY DEF TypeOK
  <2>2. n \in Nat \ {0} BY <2>1, EmptySeq
  <2>3. \A i \in 1 .. n - 1 : free_table[i] \in Slots BY <2>1, <2>2, ElementOfSeq
  <2> HIDE DEF n
  <2>4. 1 \in Int /\ n - 1 \in Int BY <2>2
  <2>5. /\ SubSeq(free_table, 1, n - 1) \in Seq(Slots)
        /\ Len(SubSeq(free_table, 1, n - 1)) = IF 1 <= n - 1 THEN n - 1 - 1 + 1 ELSE 0
        /\ \A i \in 1 .. n - 1 - 1 + 1 : SubSeq(free_table, 1, n - 1)[i] = free_table[1 + i - 1]
    BY <2>3, <2>4, SubSeqProperties
  <2>6. (IF 1 <= n - 1 THEN n - 1 - 1 + 1 ELSE 0) = n - 1 /\ n - 1 - 1 + 1 = n - 1
    BY <2>2
  <2>7. free_table' \in Seq(Slots) /\ Len(free_table') = n - 1
        /\ \A i \in 1 .. n - 1 : free_table'[i] = free_table[1 + i - 1]
    BY <2>5, <2>6 DEF n
  <2>8. \A i \in 1 .. n - 1 : 1 + i - 1 = i BY <2>2
  <2>9. QED BY <2>1, <2>2, <2>7, <2>8, LenProperties DEF n
<1>3. \A i, j \in 1 .. n : free_table[i] = free_table[j] => i = j
  BY <1>1, <1>2 DEF Duplicated
<1> HIDE DEF n
<1>4. ToSet(free_table') = ToSet(free_table) \ {s} /\ s \in ToSet(free_table)
  <2>1. n \in DOMAIN free_table BY <1>2
  <2>2. s \in ToSet(free_table) BY <2>1, ToSetElement
  <2>3. ASSUME NEW i \in 1 .. n - 1 PROVE free_table'[i] \in ToSet(free_table) \ {s}
    <3>1. i \in 1 .. n /\ n \in 1 .. n /\ i # n BY <1>2
    <3>2. free_table[i] # s BY <1>3, <3>1
    <3>3. QED BY <1>2, <3>1, <3>2, ToSetElement
  <2>4. ASSUME NEW i \in 1 .. n, free_table[i] # s PROVE free_table[i] \in ToSet(free_table')
    <3>1. i \in 1 .. n - 1 BY <1>2, <2>4
    <3>2. free_table'[i] = free_table[i] /\ i \in DOMAIN free_table' BY <1>2, <3>1
    <3>3. free_table'[i] \in ToSet(free_table') BY <3>2, ToSetElement
    <3>4. QED BY <3>2, <3>3
  <2>5. ToSet(free_table') \subseteq ToSet(free_table) \ {s} BY <1>2, <2>3 DEF ToSet
  <2>6. ToSet(free_table) \ {s} \subseteq ToSet(free_table') BY <1>2, <2>4 DEF ToSet
  <2>7. QED BY <2>2, <2>5, <2>6
<1>5. ~Duplicated(free_table')
  <2>1. \A i \in 1 .. n - 1 : i \in 1 .. n BY <1>2
  <2>2. QED BY <1>2, <1>3, <2>1 DEF Duplicated
<1>6. s \in Slots /\ \A o \in Holders : reqs[o].slot # s BY <1>1, <1>4
<1>7. reqs'[id].slot = s BY DEF n
<1> HIDE DEF s
<1>8. {reqs'[o].slot : o \in Holders'} = {reqs[o].slot : o \in Holders} \cup {s}
  BY <1>7
<1>9. ToSet(free_table') = Slots \ {reqs'[o].slot : o \in Holders'}
  BY <1>1, <1>4, <1>6, <1>8
<1>10. \A o, p \in Holders' : o[1] = p[1] <=> reqs'[o].slot = reqs'[p].slot
  BY <1>1, <1>6, <1>7
<1>11. QED BY <1>5, <1>9, <1>10 DEF SlotsExclusive, Slots

-----------------------------------------------------------------------------
(* Messages and selection.                                                 *)

\* Nobody holds anything.
LEMMA InitXInv == Init => XInv
<1> SUFFICES ASSUME Init PROVE XInv OBVIOUS
<1>1. /\ reqs = <<>> /\ running = {} /\ inflight = <<>> /\ terminal = {} /\ pending = <<>>
      /\ pc = "recv" /\ adder.reqs = <<>> /\ adder.chunked = <<>> /\ batch.reqs = <<>>
      /\ last.reqs = <<>> /\ proc.reqs = <<>>
      /\ free_table = [i \in 1 .. MaxRunning |-> i - 1]
  BY DEF Init, NoAdder, NoBatch
<1>2. Passed = {} /\ Waiting = {} BY <1>1 DEF Passed, Waiting, ChunksOf
<1>3. Newer = {} /\ Older = {} /\ Open = {} /\ Holders = {}
  BY <1>1, <1>2, EmptyFacts DEF Newer, Older, Open, Holders, Referenced
<1>4. TipsApart BY <1>3 DEF TipsApart, Single
<1>5. ChunksContinue /\ CutsQueued /\ RunningExact
  BY <1>1, EmptyFacts DEF ChunksContinue, CutsQueued, RunningExact
<1>6. HostCounts BY <1>3 DEF HostCounts
<1>7. SlotsExclusive
  <2>1. MaxRunning \in Nat /\ Slots = 0 .. MaxRunning - 1 BY SizesAssumption DEF Slots
  <2>2. DOMAIN free_table = 1 .. MaxRunning /\ \A i \in 1 .. MaxRunning : free_table[i] = i - 1
    BY <1>1
  <2>3. ~Duplicated(free_table) BY <2>1, <2>2 DEF Duplicated
  <2>4. ASSUME NEW s \in Slots PROVE s \in ToSet(free_table)
    <3>1. s + 1 \in 1 .. MaxRunning /\ s + 1 - 1 = s BY <2>1
    <3>2. free_table[s + 1] = s BY <2>1, <2>2, <3>1
    <3>3. QED BY <2>2, <3>1, <3>2, ToSetElement
  <2>5. \A i \in 1 .. MaxRunning : i - 1 \in Slots BY <2>1
  <2>6. ToSet(free_table) \subseteq Slots BY <2>2, <2>5 DEF ToSet
  <2>7. ToSet(free_table) = Slots BY <2>4, <2>6
  <2>8. QED BY <1>3, <2>3, <2>7 DEF SlotsExclusive
<1>8. QED BY <1>4, <1>5, <1>6, <1>7 DEF XInv

\* While messages are received every uid is held by one object.
LEMMA AloneAtRecv ==
  IInv /\ XInv /\ pc = "recv" =>
    /\ adder.reqs = <<>> /\ batch.reqs = <<>> /\ proc.reqs = <<>>
    /\ Passed = {} /\ Waiting = ChunksOf(DOMAIN pending)
    /\ Newer = running \cup terminal \cup Waiting /\ Older = ToSet(last.reqs)
    /\ DOMAIN inflight = ToSet(last.reqs)
    /\ Fresh = {} /\ Single(Holders)
<1> SUFFICES ASSUME IInv, XInv, pc = "recv"
             PROVE  /\ adder.reqs = <<>> /\ batch.reqs = <<>> /\ proc.reqs = <<>>
                    /\ Passed = {} /\ Waiting = ChunksOf(DOMAIN pending)
                    /\ Newer = running \cup terminal \cup Waiting /\ Older = ToSet(last.reqs)
                    /\ DOMAIN inflight = ToSet(last.reqs)
                    /\ Fresh = {} /\ Single(Holders)
  OBVIOUS
<1>1. adder.reqs = <<>> /\ batch.reqs = <<>> /\ proc.reqs = <<>>
      /\ DOMAIN inflight = ToSet(last.reqs) \cup ToSet(proc.reqs)
  BY DEF IInv, Placement, AdderPlaced, BatchesPlaced, InflightExact
<1>2. Passed = {} /\ Waiting = ChunksOf(DOMAIN pending)
  BY <1>1 DEF Passed, Waiting, ChunksOf
<1>3. /\ Newer = running \cup terminal \cup Waiting /\ Older = ToSet(last.reqs) /\ Fresh = {}
      /\ DOMAIN inflight = ToSet(last.reqs)
  BY <1>1, <1>2, EmptyFacts DEF Newer, Older, Fresh
<1>4. Single(Holders) BY <1>3, HoldersSplit DEF XInv, TipsApart, Single
<1>5. QED BY <1>1, <1>2, <1>3, <1>4

\* A new entry of the queue holds nothing.
LEMMA ReceiveUserSlots ==
  ASSUME IInv, IInv', XInv, NEW u \in Uids, NEW w \in Workload, ReceiveUser(u, w)
  PROVE  XInv' /\ Holders' = Holders
<1>1. /\ pc = "recv"
      /\ UNCHANGED <<pc, adder, running, inflight, terminal, batch, last, proc, reqs, free_table>>
      /\ pending' = pending \/ \E q : q.chunk = None /\ pending' = Append(pending, q)
  BY DEF ReceiveUser, memory
<1>2. TypeOK BY DEF IInv
<1>3. ChunksOf(DOMAIN pending)' = ChunksOf(DOMAIN pending)
  <2>1. CASE pending' = pending BY <2>1 DEF ChunksOf
  <2>2. ASSUME NEW q, q.chunk = None, pending' = Append(pending, q)
        PROVE  ChunksOf(DOMAIN pending)' = ChunksOf(DOMAIN pending)
    <3>1. /\ DOMAIN pending = 1 .. Len(pending) /\ DOMAIN pending' = 1 .. Len(pending) + 1
          /\ \A i \in 1 .. Len(pending) : pending'[i] = pending[i]
          /\ pending'[Len(pending) + 1] = q /\ Len(pending) \in Nat
      BY <1>2, <2>2, LenProperties DEF TypeOK
    <3>2. \A k \in DOMAIN pending : k \in DOMAIN pending' /\ pending'[k].chunk = pending[k].chunk
      BY <3>1
    <3>3. \A k \in DOMAIN pending' :
            pending'[k].chunk = None \/ (k \in DOMAIN pending /\ pending'[k] = pending[k])
      BY <2>2, <3>1
    <3>4. ChunksOf(DOMAIN pending)' \subseteq ChunksOf(DOMAIN pending) BY <3>3 DEF ChunksOf
    <3>5. ChunksOf(DOMAIN pending) \subseteq ChunksOf(DOMAIN pending)' BY <3>2 DEF ChunksOf
    <3>6. QED BY <3>4, <3>5
  <2>3. QED BY <1>1, <2>1, <2>2
<1>4. adder.reqs = <<>> /\ Passed = {} /\ Waiting = ChunksOf(DOMAIN pending)
  BY <1>1, AloneAtRecv
<1>5. Passed' = Passed /\ Waiting' = Waiting
  BY <1>1, <1>3, <1>4 DEF Passed, Waiting, ChunksOf
<1>6. Newer' = Newer /\ Older' = Older /\ Fresh' = Fresh /\ Open' = Open /\ Continuing' = Continuing
  BY <1>1, <1>5 DEF Newer, Older, Fresh, Open, Continuing
<1>7. Holders' = Holders
  <2>1. (Holders = Newer \cup Older)' BY HoldersSplit, PTL
  <2>2. QED BY <1>6, <2>1, HoldersSplit
<1>8. TipsApart' BY <1>1, <1>6 DEF XInv, TipsApart
<1>9. ChunksContinue' /\ CutsQueued' /\ RunningExact'
  BY <1>1, <1>5, <1>6 DEF XInv, ChunksContinue, CutsQueued, RunningExact
<1>10. HostCounts' BY <1>1, <1>6 DEF XInv, HostCounts, Flying
<1>11. SlotsExclusive' BY <1>1, <1>7 DEF XInv, SlotsExclusive, Slots
<1>12. QED BY <1>7, <1>8, <1>9, <1>10, <1>11 DEF XInv

\* The chunks of the queue after a withdrawal: all but those of the uid.
LEMMA WithdrawChunks ==
  ASSUME IInv, NEW u \in Uids, Withdraw(u)
  PROVE  ChunksOf(DOMAIN pending)' = {o \in ChunksOf(DOMAIN pending) : o[1] # u}
<1>1. TypeOK /\ QueuePlaced BY DEF IInv, Placement
<1>2. /\ \A j \in DOMAIN pending' : \E k \in DOMAIN pending :
           pending'[j] = pending[k] /\ pending[k].uid # u
      /\ QueuedUids' = QueuedUids \ {u}
  BY <1>1, WithdrawQueue DEF Withdraw
<1>3. ASSUME NEW o \in ChunksOf(DOMAIN pending)'
      PROVE  o \in ChunksOf(DOMAIN pending) /\ o[1] # u
  <2>1. PICK j \in DOMAIN pending' : o = pending'[j].chunk /\ o # None
    BY DEF ChunksOf
  <2>2. PICK k \in DOMAIN pending : pending'[j] = pending[k] /\ pending[k].uid # u BY <1>2
  <2>3. QED BY <1>1, <2>1, <2>2 DEF ChunksOf, QueuePlaced
<1>4. ASSUME NEW o \in ChunksOf(DOMAIN pending), o[1] # u
      PROVE  o \in ChunksOf(DOMAIN pending)'
  <2>1. PICK k \in DOMAIN pending : o = pending[k].chunk /\ o # None
    BY DEF ChunksOf
  <2>2. o[1] = pending[k].uid BY <1>1, <2>1 DEF QueuePlaced
  <2>3. pending[k].uid \in QueuedUids' BY <1>2, <1>4, <2>2 DEF QueuedUids
  <2>4. PICK j \in DOMAIN pending' : pending'[j].uid = pending[k].uid BY <2>3 DEF QueuedUids
  <2>5. PICK m \in DOMAIN pending : pending'[j] = pending[m] BY <1>2
  <2>6. m = k BY <1>1, <2>4, <2>5 DEF QueuePlaced
  <2>7. QED BY <2>1, <2>5, <2>6 DEF ChunksOf
<1>5. QED BY <1>3, <1>4

\* The target of an abort is the object that holds the uid's slot.
LEMMA TargetHolds ==
  ASSUME IInv, XInv, pc = "recv", NEW u, NEW p \in Holders, p[1] = u
  PROVE  AbortTarget(u) = {p}
<1>1. QueuePlaced /\ TerminalDrains BY DEF IInv, Placement
<1>2. /\ Holders = running \cup terminal \cup ChunksOf(DOMAIN pending) \cup DOMAIN inflight
      /\ Single(Holders)
  BY HoldersSplit, AloneAtRecv
<1>3. terminal \subseteq DOMAIN inflight BY <1>1 DEF TerminalDrains
<1>4. ChunkOf(u) = {o \in ChunksOf(DOMAIN pending) : o[1] = u}
  <2>1. ASSUME NEW o \in ChunkOf(u) PROVE o \in ChunksOf(DOMAIN pending) /\ o[1] = u
    BY <1>1 DEF ChunkOf, Queued, ChunksOf, QueuePlaced
  <2>2. ASSUME NEW o \in ChunksOf(DOMAIN pending), o[1] = u PROVE o \in ChunkOf(u)
    <3>1. PICK k \in DOMAIN pending : o = pending[k].chunk /\ o # None BY DEF ChunksOf
    <3>2. pending[k].uid = u BY <1>1, <2>2, <3>1 DEF QueuePlaced
    <3>3. QED BY <3>1, <3>2 DEF ChunkOf, Queued
  <2>3. QED BY <2>1, <2>2
<1>5. \A S : S \subseteq Holders /\ S # {} /\ (\A o \in S : o[1] = u) => S = {p}
  BY <1>2 DEF Single
<1>6. ChunkOf(u) # {} => ChunkOf(u) = {p} BY <1>2, <1>4, <1>5
<1>7. RunningOf(u) # {} => RunningOf(u) = {p}
  <2>1. RunningOf(u) \subseteq Holders /\ \A o \in RunningOf(u) : o[1] = u
    BY <1>2 DEF RunningOf
  <2>2. QED BY <1>5, <2>1
<1>8. InflightOf(u) # {} => InflightOf(u) = {p}
  <2>1. InflightOf(u) \subseteq Holders /\ \A o \in InflightOf(u) : o[1] = u
    BY <1>2 DEF InflightOf
  <2>2. QED BY <1>5, <2>1
<1>9. ChunkOf(u) # {} \/ RunningOf(u) # {} \/ InflightOf(u) # {}
  BY <1>2, <1>3, <1>4 DEF RunningOf, InflightOf
<1>10. QED BY <1>6, <1>7, <1>8, <1>9 DEF AbortTarget

\* Any abort: the uid's object stays, marked, until its results are in, or goes at once.
LEMMA WithdrawSlots ==
  ASSUME IInv, IInv', XInv, NEW u \in Uids, pc = "recv", pc' = pc, Withdraw(u), NEW gone,
         gone \subseteq AbortTarget(u) \ DOMAIN inflight,
         DOMAIN reqs' = DOMAIN reqs \ gone, \A o \in DOMAIN reqs' : reqs'[o] = reqs[o],
         terminal' \subseteq (terminal \cup (AbortTarget(u) \cap DOMAIN inflight)) \ gone,
         terminal \ gone \subseteq terminal',
         \/ AbortTarget(u) = {}
         \/ \E o \in AbortTarget(u) : o \in gone \/ (o \in DOMAIN inflight /\ o \in terminal'),
         UNCHANGED <<adder, inflight, batch, last, proc>>
  PROVE  /\ TipsApart' /\ ChunksContinue' /\ CutsQueued' /\ RunningExact' /\ HostCounts'
         /\ Holders' = {o \in Holders : o[1] # u \/ o \in DOMAIN inflight}
<1>1. /\ TipsApart /\ ChunksContinue /\ RunningExact /\ HostCounts /\ TerminalDrains
  BY DEF IInv, XInv
<1>2. /\ adder.reqs = <<>> /\ batch.reqs = <<>> /\ Waiting = ChunksOf(DOMAIN pending)
      /\ Newer = running \cup terminal \cup Waiting /\ Older = DOMAIN inflight
      /\ DOMAIN inflight = ToSet(last.reqs) /\ Single(Holders) /\ Holders = Newer \cup Older
  BY AloneAtRecv, HoldersSplit
<1>3. /\ Passed' = {} /\ Waiting' = {o \in Waiting : o[1] # u}
      /\ Newer' = running' \cup terminal' \cup Waiting'
      /\ Older' = Older
  <2>1. Passed' = {} /\ Waiting' = ChunksOf(DOMAIN pending)'
    BY <1>2 DEF Passed, Waiting, ChunksOf
  <2>2. QED BY <1>2, <2>1, WithdrawChunks, EmptyFacts DEF Newer, Older
<1>4. \A o \in AbortTarget(u) : o[1] = u /\ o \in Holders
  BY DEF IInv, Placement, QueuePlaced, AbortTarget, ChunkOf, Queued, RunningOf, InflightOf,
     Holders, Referenced
<1>5. running' = {o \in running : o[1] # u}
  <2>1. CASE ChunkOf(u) = {} BY <2>1 DEF Withdraw, RunningOf
  <2>2. CASE ChunkOf(u) # {}
    <3>1. u \in QueuedUids BY <2>2 DEF ChunkOf, Queued, QueuedUids
    <3>2. \A o \in running : o[1] # u BY <3>1 DEF IInv, Placement, ObjectsPlaced
    <3>3. QED BY <2>2, <3>2 DEF Withdraw
  <2>3. QED BY <2>1, <2>2
<1>6. terminal' \subseteq DOMAIN inflight /\ terminal \subseteq DOMAIN inflight
  BY <1>1 DEF TerminalDrains
<1>7. gone \cap DOMAIN inflight = {} /\ terminal \subseteq terminal' BY <1>6
<1>8. Holders' = {o \in Holders : o[1] # u \/ o \in DOMAIN inflight}
  <2>1. (Holders = Newer \cup Older)' BY HoldersSplit, PTL
  <2>2. QED BY <1>2, <1>3, <1>5, <1>6, <2>1
<1>9. \A o \in DOMAIN reqs : o[1] # u \/ o \in DOMAIN inflight => o \notin gone BY <1>4, <1>7
<1>10. \A o \in Holders' : o \in DOMAIN reqs' /\ reqs'[o] = reqs[o]
  BY <1>8, <1>9, HoldersTyped
<1>11. \A p \in DOMAIN inflight : p[1] = u => p \in terminal'
  <2>1. ASSUME NEW p \in DOMAIN inflight, p[1] = u PROVE p \in terminal'
    <3>1. AbortTarget(u) = {p} BY <1>2, <2>1, TargetHolds
    <3>2. QED BY <1>7, <2>1, <3>1
  <2>2. QED BY <2>1
<1>12. TipsApart'
  <2>1. Single(Newer') /\ Single(Older') /\ \A o \in Newer', p \in Older' : o[1] = p[1] => o = p
    <3>1. (Holders = Newer \cup Older)' BY HoldersSplit, PTL
    <3>2. QED BY <1>2, <1>8, <3>1 DEF Single
  <2>2. QED BY <2>1 DEF TipsApart, Single
<1>13. ChunksContinue'
  <2>1. ASSUME NEW p \in DOMAIN inflight', reqs'[p].class = "ChunkedReq"
        PROVE  \E o \in Continuing' : o[1] = p[1]
    <3>1. p \in DOMAIN inflight /\ reqs'[p] = reqs[p] BY <1>2, <1>8, <1>10
    <3>2. CASE p[1] = u BY <1>11, <2>1, <3>1, <3>2 DEF Continuing
    <3>3. CASE p[1] # u
      <4>1. PICK o \in Continuing : o[1] = p[1] BY <1>1, <2>1, <3>1 DEF ChunksContinue
      <4>2. o \in running \cup terminal \cup Waiting \/
              (o \in ToSet(last.reqs) /\ reqs[o].class = "Req")
        BY <1>2, <4>1, EmptyFacts DEF Continuing
      <4>3. CASE o \in running \cup terminal \cup Waiting
        BY <1>3, <1>5, <1>7, <3>3, <4>1, <4>3 DEF Continuing
      <4>4. CASE o \in ToSet(last.reqs) /\ reqs[o].class = "Req"
        <5>1. o \in Holders' BY <1>2, <1>8, <4>4
        <5>2. reqs'[o].class = "Req" BY <1>10, <4>4, <5>1
        <5>3. QED BY <4>1, <4>4, <5>2 DEF Continuing
      <4>5. QED BY <4>2, <4>3, <4>4
    <3>4. QED BY <3>2, <3>3
  <2>2. QED BY <2>1 DEF ChunksContinue
<1>14. CutsQueued' BY <1>2, EmptyFacts DEF CutsQueued
<1>15. RunningExact'
  <2>1. \A o \in running' : CanDecode(reqs'[o])
    <3>1. \A o \in running' : o \in Holders' BY <1>2, <1>5, <1>8
    <3>2. QED BY <1>1, <1>5, <1>10, <3>1 DEF RunningExact
  <2>2. ASSUME NEW o \in DOMAIN inflight' \ terminal', CanDecode(reqs'[o]) PROVE o \in running'
    <3>1. reqs'[o] = reqs[o] /\ o \notin terminal BY <1>2, <1>7, <1>8, <1>10
    <3>2. o \in running BY <1>1, <2>2, <3>1 DEF RunningExact
    <3>3. QED BY <1>5, <1>11, <3>2
  <2>3. QED BY <2>1, <2>2 DEF RunningExact
<1>16. HostCounts'
  <2>1. ASSUME NEW o \in Open' PROVE o \in Open /\ reqs'[o] = reqs[o]
    <3>1. o \in (running' \cup DOMAIN inflight) \ terminal' /\ reqs'[o].class = "Req"
      BY <1>2, EmptyFacts DEF Open
    <3>2. o \in Holders' BY <1>2, <1>5, <1>8, <3>1
    <3>3. QED BY <1>5, <1>7, <1>10, <3>1, <3>2 DEF Open
  <2>2. QED BY <1>1, <2>1 DEF HostCounts, Flying
<1>17. QED BY <1>8, <1>12, <1>13, <1>14, <1>15, <1>16

\* The object an abort has to free is the only one of its uid.
LEMMA TargetAlone ==
  ASSUME IInv, XInv, pc = "recv", NEW u, NEW c \in AbortTarget(u)
  PROVE  /\ c \in Holders /\ c[1] = u /\ reqs[c].slot \in Slots
         /\ \A p \in Holders : p[1] = c[1] => p = c
<1>1. c[1] = u /\ c \in Holders
  BY DEF IInv, Placement, QueuePlaced, AbortTarget, ChunkOf, Queued, RunningOf, InflightOf,
     Holders, Referenced
<1>2. ASSUME NEW p \in Holders, p[1] = u PROVE p = c
  <2>1. AbortTarget(u) = {p} BY <1>2, TargetHolds
  <2>2. QED BY <2>1
<1>3. QED BY <1>1, <1>2, HoldersTyped

\* An abort that releases nothing.
LEMMA AbortLaterSlots ==
  ASSUME IInv, IInv', XInv, NEW u \in Uids, AbortNothing(u) \/ AbortInflight(u)
  PROVE  XInv' /\ Holders' = Holders
<1> DEFINE Left == {o \in Holders : o[1] # u \/ o \in DOMAIN inflight}
<1>0. /\ TypeOK /\ TerminalDrains /\ SlotsExclusive BY DEF IInv, XInv
<1>1. CASE AbortNothing(u)
  <2>1. /\ pc = "recv" /\ pc' = pc /\ Withdraw(u) /\ AbortTarget(u) = {}
        /\ UNCHANGED <<adder, inflight, terminal, batch, last, proc, reqs, free_table>>
    BY <1>1 DEF AbortNothing, memory
  <2>2. /\ {} \subseteq AbortTarget(u) \ DOMAIN inflight /\ DOMAIN reqs' = DOMAIN reqs \ {}
        /\ terminal \ {} \subseteq terminal' /\ \A o \in DOMAIN reqs' : reqs'[o] = reqs[o]
        /\ terminal' \subseteq (terminal \cup (AbortTarget(u) \cap DOMAIN inflight)) \ {}
    BY <2>1
  <2>3. /\ TipsApart' /\ ChunksContinue' /\ CutsQueued' /\ RunningExact' /\ HostCounts'
        /\ Holders' = Left
    BY <2>1, <2>2, WithdrawSlots
  <2>4. \A p \in Holders : p[1] # u BY <2>1, TargetHolds
  <2>5. Holders' = Holders BY <2>3, <2>4
  <2>6. SlotsExclusive' BY <1>0, <2>1, <2>5, SlotsKept
  <2>7. QED BY <2>3, <2>5, <2>6 DEF XInv
<1>2. CASE AbortInflight(u)
  <2>1. /\ pc = "recv" /\ pc' = pc /\ Withdraw(u)
        /\ UNCHANGED <<adder, inflight, batch, last, proc, reqs, free_table>>
    BY <1>2 DEF AbortInflight, memory
  <2>2. PICK o \in AbortTarget(u) \cap DOMAIN inflight : terminal' = terminal \cup {o}
    BY <1>2 DEF AbortInflight
  <2>3. /\ {} \subseteq AbortTarget(u) \ DOMAIN inflight /\ DOMAIN reqs' = DOMAIN reqs \ {}
        /\ terminal \ {} \subseteq terminal' /\ \A p \in DOMAIN reqs' : reqs'[p] = reqs[p]
        /\ terminal' \subseteq (terminal \cup (AbortTarget(u) \cap DOMAIN inflight)) \ {}
        /\ o \in AbortTarget(u) /\ o \in DOMAIN inflight /\ o \in terminal'
    BY <2>1, <2>2
  <2>4. /\ TipsApart' /\ ChunksContinue' /\ CutsQueued' /\ RunningExact' /\ HostCounts'
        /\ Holders' = Left
    BY <2>1, <2>2, <2>3, WithdrawSlots
  <2>5. ASSUME NEW p \in Holders, p[1] = u PROVE p \in DOMAIN inflight
    <3>1. AbortTarget(u) = {p} BY <2>1, <2>5, TargetHolds
    <3>2. QED BY <2>2, <3>1
  <2>6. Holders' = Holders BY <2>4, <2>5
  <2>7. SlotsExclusive' BY <1>0, <2>1, <2>6, SlotsKept
  <2>8. QED BY <2>4, <2>6, <2>7 DEF XInv
<1>3. QED BY <1>1, <1>2

\* An abort that releases the object at once.
LEMMA AbortNowSlots ==
  ASSUME IInv, IInv', XInv, NEW u \in Uids, AbortNow(u)
  PROVE  XInv' /\ \A c \in AbortTarget(u) : c \in Newest /\ Newest' = Newest \ {c}
<1> DEFINE Left == {o \in Holders : o[1] # u \/ o \in DOMAIN inflight}
<1>0. /\ TypeOK /\ TerminalDrains /\ SlotsExclusive BY DEF IInv, XInv
<1>1. /\ pc = "recv" /\ pc' = pc /\ Withdraw(u)
      /\ UNCHANGED <<adder, inflight, batch, last, proc>>
  BY DEF AbortNow
<1>2. PICK c \in AbortTarget(u) \ DOMAIN inflight :
        /\ free_table' = Append(free_table, reqs[c].slot)
        /\ reqs' = Restrict(reqs, DOMAIN reqs \ {c}) /\ terminal' = terminal \ {c}
  BY DEF AbortNow, FreeReqResources
<1>3. /\ {c} \subseteq AbortTarget(u) \ DOMAIN inflight
      /\ DOMAIN reqs' = DOMAIN reqs \ {c} /\ \A p \in DOMAIN reqs' : reqs'[p] = reqs[p]
      /\ terminal \ {c} \subseteq terminal'
      /\ terminal' \subseteq (terminal \cup (AbortTarget(u) \cap DOMAIN inflight)) \ {c}
  BY <1>2 DEF Restrict
<1>4. c \in AbortTarget(u) /\ c \in {c} BY <1>2
<1>5. /\ TipsApart' /\ ChunksContinue' /\ CutsQueued' /\ RunningExact' /\ HostCounts'
      /\ Holders' = Left
  BY <1>1, <1>3, <1>4, WithdrawSlots
<1>6. /\ c[1] = u /\ c \in Holders /\ reqs[c].slot \in Slots
      /\ \A p \in Holders : p[1] = c[1] => p = c
  BY <1>1, <1>4, TargetAlone
<1>7. \A o \in Holders' : o \in Holders /\ o[1] # c[1] /\ reqs'[o].slot = reqs[o].slot
  <2>1. \A o \in Holders' : o \in Holders /\ o[1] # u BY <1>2, <1>5, <1>6
  <2>2. QED BY <1>3, <1>6, <2>1, HoldersTyped
<1>8. \A p \in Holders : p[1] # c[1] => p \in Holders' BY <1>5, <1>6
<1>9. SlotsExclusive' BY <1>0, <1>2, <1>6, <1>7, <1>8, SlotReleased
<1>10. c \in Newest /\ Newest' = Newest \ {c} BY <1>6, <1>7, <1>8, NewestGone
<1>11. \A p \in AbortTarget(u) : p = c BY <1>1, <1>6, TargetAlone
<1>12. QED BY <1>5, <1>9, <1>10, <1>11 DEF XInv

-----------------------------------------------------------------------------
(* Selection and admission.                                                *)

\* A batch is selected from what runs or was admitted: the uids of what the adder has
\* passed are in it.
LEMMA SelectSlots ==
  ASSUME IInv, IInv', XInv, pc \in {"recv", "admit"}, pc' # "process",
         ToSet(batch'.reqs) \subseteq running \cup ToSet(adder.reqs),
         ToSet(adder.reqs) \subseteq ToSet(batch'.reqs),
         adder'.reqs = <<>>, adder'.chunked = <<>>,
         Waiting' \subseteq Waiting \cup ToSet(adder.reqs), Waiting \subseteq Waiting',
         \A o \in ToSet(batch'.reqs) : reqs[o].class = "ChunkedReq" => o \in Waiting',
         UNCHANGED <<reqs, running, inflight, terminal, last, proc, free_table>>
  PROVE  XInv' /\ Newest' = Newest
<1>1. /\ TipsApart /\ ChunksContinue /\ RunningExact /\ HostCounts /\ SlotsExclusive
      /\ QueuePlaced /\ AdderPlaced /\ BatchesPlaced /\ TypeOK
  BY DEF IInv, XInv, Placement
<1>2. batch.reqs = <<>> /\ proc.reqs = <<>> BY <1>1 DEF BatchesPlaced
<1>3. Passed' = {} BY DEF Passed, ChunksOf
<1>4. /\ Newer = running \cup terminal \cup Waiting \cup ToSet(adder.reqs)
      /\ Older = ToSet(last.reqs) \cup Passed /\ Fresh = ToSet(adder.reqs)
      /\ Newer' = running \cup terminal \cup Waiting' \cup ToSet(batch'.reqs)
      /\ Older' = ToSet(last.reqs) /\ Fresh' = ToSet(batch'.reqs)
  BY <1>2, <1>3, EmptyFacts DEF Newer, Older, Fresh
<1>5. Newer' = Newer /\ Older' \subseteq Older /\ Fresh \subseteq Fresh' BY <1>4
<1>6. TipsApart' BY <1>1, <1>5 DEF TipsApart, Single
<1>7. ChunksContinue'
  <2>1. Continuing \subseteq Continuing' BY <1>2, EmptyFacts DEF Continuing
  <2>2. QED BY <1>1, <2>1 DEF ChunksContinue
<1>8. CutsQueued' BY EmptyFacts DEF CutsQueued
<1>9. RunningExact' BY <1>1 DEF RunningExact
<1>10. HostCounts'
  <2>1. Open' \subseteq Open BY EmptyFacts DEF Open
  <2>2. QED BY <1>1, <2>1 DEF HostCounts, Flying
<1>11. (Holders = Newer \cup Older)' BY HoldersSplit, PTL
<1>12. Holders' \subseteq Holders BY <1>5, <1>11, HoldersSplit
<1>13. ASSUME NEW p \in Holders PROVE \E o \in Holders' : o[1] = p[1] /\ p[2] <= o[2]
  <2>1. CASE p \in Newer \cup ToSet(last.reqs)
    <3>1. p[2] \in Nat BY HoldersTyped DEF Objs
    <3>2. QED BY <1>4, <1>5, <1>11, <2>1, <3>1
  <2>2. CASE p \in Passed
    <3>1. PICK k \in DOMAIN pending \cap DOMAIN adder.reqs : p = pending[k].chunk /\ p # None
      BY <2>2 DEF Passed, ChunksOf
    <3>2. p[1] = pending[k].uid BY <1>1, <3>1 DEF QueuePlaced
    <3>3. adder.reqs[k][1] = p[1] /\ adder.reqs[k] \in ToSet(adder.reqs)
      BY <1>1, <3>1, <3>2, ToSetElement DEF AdderPlaced
    <3>4. PICK o \in Newer : o[1] = p[1] BY <1>4, <3>3
    <3>5. p[2] \in Nat /\ o[2] \in Nat BY <3>4, HoldersSplit, HoldersTyped DEF Objs
    <3>6. p[2] <= o[2]
      <4>1. o = p \/ p[2] < o[2] BY <1>1, <1>4, <2>2, <3>4 DEF TipsApart
      <4>2. QED BY <3>5, <4>1
    <3>7. QED BY <1>5, <1>11, <3>4, <3>6
  <2>3. QED BY <1>4, <2>1, <2>2, HoldersSplit
<1>14. Newest' = Newest BY <1>12, <1>13, NewestKept
<1>15. SlotsExclusive'
  <2>1. \A o \in Holders' : \E p \in Holders : p[1] = o[1] /\ reqs'[o].slot = reqs[p].slot
    BY <1>12
  <2>2. QED BY <1>1, <1>13, <2>1, SlotsKept
<1>16. QED BY <1>6, <1>7, <1>8, <1>9, <1>10, <1>14, <1>15 DEF XInv

\* The actions that only choose a batch, and the beginning of the admission.
LEMMA SelectionSlots ==
  ASSUME IInv, IInv', SInv, XInv, SelectDecode \/ SelectNothing
  PROVE  XInv' /\ Newest' = Newest
<1>1. /\ pc = "recv" /\ pc' = "forward"
      /\ UNCHANGED <<pending, adder, reqs, running, inflight, terminal, last, proc, free_table>>
      /\ (\E b \in DecodeBatches : batch' = b) \/ batch' = NoBatch
  BY DEF SelectDecode, SelectNothing, StartSelection, Select, memory
<1>2. adder.reqs = <<>> /\ adder.chunked = <<>>
  BY <1>1 DEF IInv, Placement, AdderPlaced
<1>3. Waiting' = Waiting BY <1>1 DEF Waiting, ChunksOf
<1>4. ToSet(batch'.reqs) \subseteq running
  <2>1. TypeOK BY DEF IInv
  <2>2. QED BY <1>1, <2>1, DecodeBatchFacts, EmptyFacts DEF NoBatch
<1>5. \A o \in running : reqs[o].class = "Req" BY DEF SInv, OneReqPerUid
<1>6. \A o \in ToSet(batch'.reqs) : reqs[o].class = "ChunkedReq" => o \in Waiting'
  BY <1>4, <1>5
<1>7. QED BY <1>1, <1>2, <1>3, <1>4, <1>6, SelectSlots, EmptyFacts

LEMMA StartPrefillSlots ==
  ASSUME IInv, IInv', XInv, StartPrefill
  PROVE  XInv' /\ Newest' = Newest
<1>1. /\ pc = "recv" /\ pc' = "admit" /\ adder'.reqs = <<>> /\ adder'.chunked = <<>>
      /\ UNCHANGED <<pending, batch, reqs, running, inflight, terminal, last, proc, free_table>>
  BY DEF StartPrefill, StartSelection, memory
<1>2. adder.reqs = <<>> /\ adder.chunked = <<>>
  BY <1>1 DEF IInv, Placement, AdderPlaced
<1>3. Waiting' = Waiting /\ Passed' = Passed BY <1>1, <1>2 DEF Waiting, Passed, ChunksOf
<1>4. Newer' = Newer /\ Older' = Older /\ Fresh' = Fresh /\ Continuing' = Continuing /\ Open' = Open
  BY <1>1, <1>2, <1>3 DEF Newer, Older, Fresh, Continuing, Open
<1>5. Holders' = Holders
  <2>1. (Holders = Newer \cup Older)' BY HoldersSplit, PTL
  <2>2. QED BY <1>4, <2>1, HoldersSplit
<1>6. TipsApart' BY <1>1, <1>4 DEF XInv, TipsApart
<1>7. ChunksContinue' /\ CutsQueued' /\ RunningExact'
  BY <1>1, <1>2, <1>3, <1>4, EmptyFacts DEF XInv, ChunksContinue, CutsQueued, RunningExact
<1>8. HostCounts' BY <1>1, <1>4 DEF XInv, HostCounts, Flying
<1>9. SlotsExclusive' BY <1>1, <1>5 DEF XInv, SlotsExclusive, Slots
<1>10. Newest' = Newest BY <1>5 DEF Newest
<1>11. QED BY <1>6, <1>7, <1>8, <1>9, <1>10 DEF XInv

\* The prefill batch, or what there is instead.
LEMMA StopAdmissionSlots ==
  ASSUME IInv, IInv', SInv, XInv, StopAdmission
  PROVE  XInv' /\ Newest' = Newest
<1>1. /\ pc = "admit" /\ pc' = "forward" /\ adder'.reqs = <<>> /\ adder'.chunked = <<>>
      /\ UNCHANGED <<reqs, running, inflight, terminal, last, proc, free_table>>
  BY DEF StopAdmission, NoAdder, Select
<1>2. TypeOK /\ AdderPlaced /\ QueuePlaced /\ OneChunkFirst /\ CutsQueued
  BY DEF IInv, Placement, XInv
<1>3. CASE adder.reqs # <<>>
  <2>1. batch'.reqs = adder.reqs /\ pending' = Requeue BY <1>3 DEF StopAdmission, Select
  <2>2. Waiting = {}
    <3>1. adder.reqs \in Seq(Objs) BY <1>2 DEF TypeOK
    <3>2. 1 \in DOMAIN adder.reqs BY <1>3, <3>1, EmptySeq, LenProperties
    <3>3. \A k \in DOMAIN pending \ DOMAIN adder.reqs : pending[k].chunk = None
      BY <1>2, <3>2 DEF OneChunkFirst
    <3>4. QED BY <3>3 DEF Waiting, ChunksOf
  <2>3. Waiting' = ChunksOf(DOMAIN pending)' BY <1>1 DEF Waiting, ChunksOf
  <2>4. Waiting' \subseteq ToSet(adder.reqs)
    <3>1. ASSUME NEW o \in ChunksOf(DOMAIN pending)' PROVE o \in ToSet(adder.reqs)
      <4>1. PICK j \in DOMAIN pending' : o = pending'[j].chunk /\ o # None BY DEF ChunksOf
      <4>2. CASE Len(adder.chunked) = 1 /\ pending'[j] = adder.chunked[1]
        <5>1. 1 \in DOMAIN adder.chunked BY <1>2, <4>2, LenProperties DEF TypeOK
        <5>2. QED BY <1>2, <4>1, <4>2, <5>1 DEF AdderPlaced
      <4>3. ASSUME NEW m \in DOMAIN pending, m > Len(adder.reqs), pending'[j] = pending[m]
            PROVE  o \in ToSet(adder.reqs)
        <5>1. adder.reqs \in Seq(Objs) BY <1>2 DEF TypeOK
        <5>2. m \notin DOMAIN adder.reqs BY <4>3, <5>1, LenProperties
        <5>3. o \in Waiting BY <4>1, <4>3, <5>2 DEF Waiting, ChunksOf
        <5>4. QED BY <2>2, <5>3
      <4>4. QED BY <1>2, <1>3, <2>1, <4>2, <4>3, RequeueElements
    <3>2. QED BY <2>3, <3>1
  <2>5. ASSUME NEW o \in ToSet(batch'.reqs), reqs[o].class = "ChunkedReq" PROVE o \in Waiting'
    <3>1. PICK k \in DOMAIN adder.chunked : adder.chunked[k].chunk = o
      BY <1>2, <2>1, <2>5 DEF CutsQueued
    <3>2. /\ adder.chunked \in Seq(PendingType) /\ pending \in Seq(PendingType)
          /\ adder.reqs \in Seq(Objs) /\ Len(adder.reqs) <= Len(pending)
      BY <1>2 DEF TypeOK, AdderPlaced
    <3>3. SubSeq(pending, Len(adder.reqs) + 1, Len(pending)) \in Seq(PendingType)
      <4>1. /\ Len(adder.reqs) + 1 \in Int /\ Len(pending) \in Int
            /\ \A i \in Len(adder.reqs) + 1 .. Len(pending) : i \in 1 .. Len(pending)
        BY <3>2, LenProperties
      <4>2. \A i \in Len(adder.reqs) + 1 .. Len(pending) : pending[i] \in PendingType
        BY <3>2, <4>1, ElementOfSeq
      <4>3. QED BY <4>1, <4>2, SubSeqProperties
    <3> DEFINE rest == SubSeq(pending, Len(adder.reqs) + 1, Len(pending))
    <3> HIDE DEF rest
    <3>4. pending' = adder.chunked \o rest /\ rest \in Seq(PendingType)
      BY <2>1, <3>3 DEF Requeue, rest
    <3>5. /\ k \in 1 .. Len(adder.chunked) /\ Len(adder.chunked) \in Nat /\ Len(rest) \in Nat
          /\ DOMAIN pending' = 1 .. Len(adder.chunked) + Len(rest)
          /\ pending'[k] = adder.chunked[k]
      BY <3>1, <3>2, <3>4, LenProperties, ConcatProperties
    <3>6. k \in DOMAIN pending' /\ pending'[k].chunk = o BY <3>1, <3>5
    <3>7. o # None
      <4>1. o \in Objs BY <1>2, <2>1, <2>5 DEF TypeOK, AdderPlaced, ToSet
      <4>2. QED BY <4>1, NoneAssumption DEF Objs
    <3>8. QED BY <2>3, <3>6, <3>7 DEF ChunksOf
  <2>6. QED BY <1>1, <2>1, <2>2, <2>4, <2>5, SelectSlots
<1>4. CASE adder.reqs = <<>>
  <2>1. pending' = pending /\ ((\E b \in DecodeBatches : batch' = b) \/ batch' = NoBatch)
    BY <1>4 DEF StopAdmission, Select
  <2>2. Waiting' = Waiting BY <1>1, <1>4, <2>1 DEF Waiting, ChunksOf
  <2>3. ToSet(batch'.reqs) \subseteq running
    BY <1>2, <2>1, DecodeBatchFacts, EmptyFacts DEF NoBatch
  <2>4. \A o \in running : reqs[o].class = "Req" BY DEF SInv, OneReqPerUid
  <2>5. \A o \in ToSet(batch'.reqs) : reqs[o].class = "ChunkedReq" => o \in Waiting'
    BY <2>3, <2>4
  <2>6. QED BY <1>1, <1>4, <2>2, <2>3, <2>5, SelectSlots, EmptyFacts
<1>5. QED BY <1>3, <1>4

\* The uid of the candidate is held by nobody, or by the chunk its entry names.
LEMMA CandidateAlone ==
  ASSUME IInv, XInv, pc = "admit", HasCandidate
  PROVE  LET k == Len(adder.reqs) + 1
             q == Candidate
         IN  /\ k \in DOMAIN pending \ DOMAIN adder.reqs /\ q = pending[k] /\ q \in PendingType
             /\ adder.reqs \in Seq(Objs) /\ batch.reqs = <<>> /\ proc.reqs = <<>>
             /\ \A j \in DOMAIN pending : pending[j].uid = q.uid => j = k
             /\ \A o \in running \cup terminal \cup ToSet(adder.reqs) : o[1] # q.uid
             /\ \A o \in Holders : o[1] = q.uid => o = q.chunk
             /\ q.chunk # None =>
                  /\ q.chunk \in Waiting /\ q.chunk \in DOMAIN reqs /\ q.chunk[1] = q.uid
                  /\ reqs[q.chunk].class = "ChunkedReq"
<1> DEFINE k == Len(adder.reqs) + 1
           q == Candidate
<1>1. /\ TypeOK /\ QueuePlaced /\ AdderPlaced /\ ObjectsPlaced /\ BatchesPlaced /\ InflightExact
      /\ TipsApart /\ ChunksContinue
  BY DEF IInv, Placement, XInv
<1>2. /\ k \in DOMAIN pending \ DOMAIN adder.reqs /\ q = pending[k] /\ q \in PendingType
      /\ adder.reqs \in Seq(Objs) /\ DOMAIN adder.reqs = 1 .. Len(adder.reqs)
      /\ Len(adder.reqs) \in Nat
  <2>1. pending \in Seq(PendingType) /\ adder.reqs \in Seq(Objs) BY <1>1 DEF TypeOK
  <2>2. k \in 1 .. Len(pending) /\ Len(adder.reqs) \in Nat
    BY <2>1, LenProperties DEF HasCandidate
  <2>3. k \notin 1 .. Len(adder.reqs) BY <2>2
  <2>4. q = pending[k] BY DEF Candidate
  <2>5. QED BY <2>1, <2>2, <2>3, <2>4, LenProperties, ElementOfSeq
<1>3. batch.reqs = <<>> /\ proc.reqs = <<>> BY <1>1 DEF BatchesPlaced
<1>4. \A j \in DOMAIN pending : pending[j].uid = q.uid => j = k BY <1>1, <1>2 DEF QueuePlaced
<1>5. q.uid \in QueuedUids BY <1>2 DEF QueuedUids
<1> HIDE DEF q
<1>6. ASSUME NEW o \in running \cup terminal \cup ToSet(adder.reqs) PROVE o[1] # q.uid
  <2>1. CASE o \in running \cup terminal BY <1>1, <1>5, <2>1 DEF ObjectsPlaced
  <2>2. CASE o \in ToSet(adder.reqs)
    <3>1. PICK j \in DOMAIN pending : j <= Len(adder.reqs) /\ o[1] = pending[j].uid
      BY <2>2, AdderUids
    <3>2. j # k BY <1>2, <3>1
    <3>3. QED BY <1>4, <3>1, <3>2
  <2>3. QED BY <2>1, <2>2
<1>7. \A o \in DOMAIN reqs : o[1] = q.uid => reqs[o].class = "ChunkedReq"
  BY <1>1, <1>5, <1>6 DEF ObjectsPlaced, TypeOK
<1>8. q.chunk # None =>
        /\ q.chunk \in Waiting /\ q.chunk \in DOMAIN reqs /\ q.chunk[1] = q.uid
        /\ reqs[q.chunk].class = "ChunkedReq"
  BY <1>1, <1>2, <1>7 DEF QueuePlaced, Waiting, ChunksOf
<1>9. ASSUME NEW S \in SUBSET DOMAIN pending, NEW o \in ChunksOf(S), o[1] = q.uid
      PROVE  o = q.chunk /\ k \in S /\ q.chunk # None
  <2>1. PICK j \in S : o = pending[j].chunk /\ o # None BY DEF ChunksOf
  <2>2. pending[j].uid = q.uid BY <1>1, <1>9, <2>1 DEF QueuePlaced
  <2>3. j = k BY <1>4, <2>2
  <2>4. QED BY <1>2, <2>1, <2>3
<1>10. ASSUME NEW o \in Waiting, o[1] = q.uid PROVE o = q.chunk /\ q.chunk # None
  <2>1. DOMAIN pending \ DOMAIN adder.reqs \in SUBSET DOMAIN pending OBVIOUS
  <2>2. QED BY <1>9, <1>10, <2>1 DEF Waiting
<1>11. ASSUME NEW o \in Passed PROVE o[1] # q.uid
  <2>1. DOMAIN pending \cap DOMAIN adder.reqs \in SUBSET DOMAIN pending OBVIOUS
  <2>2. QED BY <1>2, <1>9, <2>1 DEF Passed
<1>12. ASSUME NEW o \in Newer, o[1] = q.uid PROVE o = q.chunk
  BY <1>3, <1>6, <1>10, <1>12, EmptyFacts DEF Newer
<1>13. ASSUME NEW o \in ToSet(last.reqs), o[1] = q.uid PROVE o = q.chunk
  <2>1. o \in Older BY DEF Older
  <2>2. o \in DOMAIN inflight /\ o \in DOMAIN reqs BY <1>1 DEF InflightExact, TypeOK
  <2>3. CASE q.chunk # None
    <3>1. q.chunk \in Newer BY <1>8, <2>3 DEF Newer
    <3>2. q.chunk \notin Fresh BY <1>3, <1>6, <1>8, <2>3, EmptyFacts DEF Fresh
    <3>3. QED BY <1>1, <1>8, <1>13, <2>1, <2>3, <3>1, <3>2 DEF TipsApart
  <2>4. CASE q.chunk = None
    <3>1. PICK p \in Continuing : p[1] = q.uid
      BY <1>1, <1>7, <1>13, <2>2 DEF ChunksContinue
    <3>2. p \in Waiting \/ (p \in ToSet(last.reqs) /\ reqs[p].class = "Req")
      BY <1>3, <1>6, <3>1, EmptyFacts DEF Continuing
    <3>3. p \notin Waiting BY <1>10, <2>4, <3>1
    <3>4. p \in DOMAIN reqs BY <1>1, <3>2, <3>3 DEF InflightExact, TypeOK
    <3>5. QED BY <1>7, <3>1, <3>2, <3>3, <3>4
  <2>5. QED BY <2>3, <2>4
<1>14. ASSUME NEW o \in Holders, o[1] = q.uid PROVE o = q.chunk
  <2>1. o \in Newer \/ o \in ToSet(last.reqs) \/ o \in Passed BY HoldersSplit DEF Older
  <2>2. QED BY <1>11, <1>12, <1>13, <1>14, <2>1
<1>15. QED BY <1>2, <1>3, <1>4, <1>6, <1>8, <1>14 DEF q

\* _add_one_req: the new object takes over from the chunk, if there was one.
LEMMA AddOneReqSlots ==
  ASSUME IInv, IInv', XInv, pc = "admit", HasCandidate,
         NEW n \in Nat, NEW slot, NEW handle, NEW cached \in Int, NEW row,
         AddOneReq(Candidate, <<Candidate.uid, n>>, slot, handle, cached, row),
         Candidate.chunk # None => Candidate.chunk[2] < n,
         Candidate.chunk # <<Candidate.uid, n>>,
         UNCHANGED <<pc, pending, running, inflight, terminal, batch, last, proc>>
  PROVE  LET id == <<Candidate.uid, n>>
         IN  /\ TipsApart' /\ ChunksContinue' /\ CutsQueued' /\ RunningExact' /\ HostCounts'
             /\ Newest' = {o \in Newest : o[1] # id[1]} \cup {id}
             /\ Holders' = Holders \cup {id} /\ id \notin Holders /\ reqs'[id].slot = slot
             /\ \A o \in Holders : reqs'[o] = reqs[o]
<1> DEFINE k      == Len(adder.reqs) + 1
           q      == Candidate
           id     == <<q.uid, n>>
           remain == Len(q.ids) - cached
           chunk  == IF adder.budget < remain THEN adder.budget ELSE remain
           class  == IF chunk < remain THEN "ChunkedReq" ELSE "Req"
           new    == [slot |-> slot, cached |-> cached, device |-> cached + chunk,
                      max |-> cached + chunk + q.out, host |-> SubSeq(q.ids, 1, cached + chunk),
                      handle |-> handle, class |-> class, ignore |-> q.ignore]
<1>1. /\ TypeOK /\ QueuePlaced /\ AdderPlaced /\ InflightExact
      /\ TipsApart /\ ChunksContinue /\ CutsQueued /\ RunningExact /\ HostCounts
  BY DEF IInv, Placement, XInv
<1>2. /\ k \in DOMAIN pending \ DOMAIN adder.reqs /\ q = pending[k] /\ q \in PendingType
      /\ adder.reqs \in Seq(Objs) /\ batch.reqs = <<>> /\ proc.reqs = <<>>
      /\ \A j \in DOMAIN pending : pending[j].uid = q.uid => j = k
      /\ \A o \in running \cup terminal \cup ToSet(adder.reqs) : o[1] # q.uid
      /\ \A o \in Holders : o[1] = q.uid => o = q.chunk
      /\ q.chunk # None =>
           /\ q.chunk \in Waiting /\ q.chunk \in DOMAIN reqs /\ q.chunk[1] = q.uid
           /\ reqs[q.chunk].class = "ChunkedReq"
  BY CandidateAlone
<1>3. /\ q.uid \in Uids /\ id[1] = q.uid /\ id[2] = n /\ id \in Objs /\ q.chunk # id
      /\ q.ids \in Seq(Tokens) /\ Len(q.ids) \in Nat /\ adder.budget \in Nat
  BY <1>1, <1>2, LenProperties DEF PendingType, Objs, AdderPlaced
<1>4. /\ DOMAIN reqs' = DOMAIN reqs \cup {id} /\ reqs'[id] = new
      /\ \A o \in DOMAIN reqs : o # id => reqs'[o] = reqs[o]
      /\ adder'.reqs = Append(adder.reqs, id)
      /\ adder'.chunked = IF class = "ChunkedReq"
                          THEN Append(adder.chunked, [q EXCEPT !.chunk = id]) ELSE adder.chunked
  BY DEF AddOneReq
<1>5. new.class = class /\ new.slot = slot
      /\ (class = "Req" => new.device = Len(q.ids) /\ new.host = SubSeq(q.ids, 1, Len(q.ids)))
  <2>1. class = "Req" => cached + chunk = Len(q.ids) BY <1>3
  <2> HIDE DEF class, chunk
  <2>2. QED BY <2>1
<1>6. class \in {"Req", "ChunkedReq"} OBVIOUS
<1> HIDE DEF new, class, chunk, remain, q
<1>7. /\ ToSet(adder'.reqs) = ToSet(adder.reqs) \cup {id}
      /\ DOMAIN adder'.reqs = DOMAIN adder.reqs \cup {k}
  <2>1. adder.reqs \in Seq(Objs) BY <1>1 DEF TypeOK
  <2> HIDE DEF id
  <2>2. /\ ToSet(adder'.reqs) = ToSet(adder.reqs) \cup {id} /\ Len(adder'.reqs) = k
        /\ adder'.reqs \in Seq(Objs) /\ Len(adder.reqs) \in Nat
    BY <1>3, <1>4, <2>1, AppendElements, LenProperties
  <2>3. DOMAIN adder'.reqs = 1 .. k /\ DOMAIN adder.reqs = 1 .. Len(adder.reqs)
    BY <2>1, <2>2, LenProperties
  <2>4. QED BY <2>2, <2>3
<1>8. id \notin Holders BY <1>2, <1>3
<1>9. \A o \in Holders : reqs'[o] = reqs[o] BY <1>4, <1>8, HoldersTyped
<1>10. /\ Passed' = Passed \cup ({q.chunk} \ {None})
       /\ Waiting = Waiting' \cup ({q.chunk} \ {None})
       /\ \A o \in Waiting' : o[1] # q.uid
  <2>1. DOMAIN pending \cap DOMAIN adder'.reqs = (DOMAIN pending \cap DOMAIN adder.reqs) \cup {k}
    BY <1>2, <1>7
  <2>2. DOMAIN pending \ DOMAIN adder.reqs = (DOMAIN pending \ DOMAIN adder'.reqs) \cup {k}
    BY <1>2, <1>7
  <2>3. \A S : ChunksOf(S \cup {k}) = ChunksOf(S) \cup ({q.chunk} \ {None})
    BY <1>2 DEF ChunksOf
  <2>4. Passed' = ChunksOf((DOMAIN pending \cap DOMAIN adder.reqs) \cup {k})
    BY <2>1 DEF Passed, ChunksOf
  <2>5. Waiting' = ChunksOf(DOMAIN pending \ DOMAIN adder'.reqs)
    BY DEF Waiting, ChunksOf
  <2>6. \A o \in ChunksOf(DOMAIN pending \ DOMAIN adder'.reqs) : o[1] # q.uid
    <3>1. \A j \in DOMAIN pending \ DOMAIN adder'.reqs : j # k BY <1>7
    <3>2. QED BY <1>1, <1>2, <3>1 DEF ChunksOf, QueuePlaced
  <2>7. QED BY <2>2, <2>3, <2>4, <2>5, <2>6 DEF Passed, Waiting
<1> HIDE DEF id, k
<1>11. /\ Newer = running \cup terminal \cup Waiting \cup ToSet(adder.reqs)
       /\ Newer' = running \cup terminal \cup Waiting' \cup ToSet(adder.reqs) \cup {id}
       /\ Older = ToSet(last.reqs) \cup Passed
       /\ Older' = Older \cup ({q.chunk} \ {None})
       /\ Fresh = ToSet(adder.reqs) /\ Fresh' = Fresh \cup {id}
  BY <1>2, <1>7, <1>10, EmptyFacts DEF Newer, Older, Fresh
<1>12. Holders' = Holders \cup {id}
  <2>1. (Holders = Newer \cup Older)' BY HoldersSplit, PTL
  <2>2. QED BY <1>10, <1>11, <2>1, HoldersSplit
<1>13. \A o \in Newer' : o[1] = q.uid => o = id BY <1>2, <1>10, <1>11
<1>14. \A o \in Newer' : o = id \/ o \in Newer BY <1>10, <1>11
<1>15. \A p \in Older' : p \in Holders /\ (p[1] = q.uid => p = q.chunk)
  <2>1. \A p \in Older' : p \in Holders
    BY <1>2, <1>11, HoldersSplit
  <2>2. QED BY <1>2, <2>1
<1>16. \A p \in Older' : p \in Older \/ (p = q.chunk /\ q.chunk # None) BY <1>11
<1>17. TipsApart'
  <2>1. Single(Newer') BY <1>1, <1>3, <1>13, <1>14 DEF TipsApart, Single
  <2>2. ASSUME NEW o \in Older', NEW p \in Older', o[1] = p[1] PROVE o = p
    <3>1. CASE o \in Older /\ p \in Older BY <1>1, <2>2, <3>1 DEF TipsApart, Single
    <3>2. CASE o \notin Older \/ p \notin Older
      <4>1. o[1] = q.uid BY <1>2, <1>16, <2>2, <3>2
      <4>2. QED BY <1>15, <2>2, <4>1
    <3>3. QED BY <3>1, <3>2
  <2>3. ASSUME NEW o \in Newer', NEW p \in Older', o[1] = p[1], o # p
        PROVE  o \in Fresh' \ terminal' /\ reqs'[p].class = "ChunkedReq" /\ p[2] < o[2]
    <3>1. reqs'[p] = reqs[p] BY <1>9, <1>15
    <3>2. CASE o = id
      <4>1. p = q.chunk /\ p \in Holders BY <1>3, <1>15, <2>3, <3>2
      <4>2. p \in DOMAIN reqs /\ p \in Objs BY <4>1, HoldersTyped
      <4>3. q.chunk # None BY <4>1, <4>2, NoneAssumption DEF Objs
      <4>4. id \notin terminal BY <1>2, <1>3
      <4>5. p[2] < n BY <4>1, <4>3 DEF q
      <4>6. QED BY <1>2, <1>3, <1>11, <3>1, <3>2, <4>1, <4>3, <4>4, <4>5
    <3>3. CASE o # id
      <4>1. o \in Newer /\ o[1] # q.uid BY <1>13, <1>14, <3>3
      <4>2. p \in Older BY <1>2, <1>16, <2>3, <4>1
      <4>3. o \in Fresh \ terminal /\ reqs[p].class = "ChunkedReq" /\ p[2] < o[2]
        BY <1>1, <2>3, <4>1, <4>2 DEF TipsApart
      <4>4. QED BY <1>11, <3>1, <4>3
    <3>4. QED BY <3>2, <3>3
  <2>4. QED BY <2>1, <2>2, <2>3 DEF TipsApart, Single
<1>18. \A p \in DOMAIN inflight \cup running : p \in Holders /\ p # id /\ reqs'[p] = reqs[p]
  BY <1>8, <1>9 DEF Holders, Referenced
<1>19. ChunksContinue'
  <2>1. ASSUME NEW p \in DOMAIN inflight', reqs'[p].class = "ChunkedReq"
        PROVE  \E o \in Continuing' : o[1] = p[1]
    <3>1. reqs[p].class = "ChunkedReq" /\ p \in DOMAIN inflight BY <1>18, <2>1
    <3>2. PICK o \in Continuing : o[1] = p[1] BY <1>1, <3>1 DEF ChunksContinue
    <3>3. CASE o = q.chunk /\ o # None
      <4>1. id \in Continuing' BY <1>7 DEF Continuing
      <4>2. QED BY <1>2, <1>3, <3>2, <3>3, <4>1
    <3>4. CASE ~(o = q.chunk /\ o # None)
      <4>1. CASE o \in running \cup terminal \cup Waiting' \cup ToSet(adder.reqs)
        BY <1>7, <3>2, <4>1 DEF Continuing
      <4>2. CASE o \in ToSet(last.reqs) /\ reqs[o].class = "Req"
        <5>1. o \in DOMAIN inflight BY <1>1, <4>2 DEF InflightExact
        <5>2. reqs'[o].class = "Req" BY <1>18, <4>2, <5>1
        <5>3. QED BY <3>2, <4>2, <5>2 DEF Continuing
      <4>3. QED BY <1>2, <1>10, <3>2, <3>4, <4>1, <4>2, EmptyFacts DEF Continuing
    <3>5. QED BY <3>3, <3>4
  <2>2. QED BY <2>1 DEF ChunksContinue
<1>20. CutsQueued'
  <2>1. ToSet(batch'.reqs) = {} BY <1>2, EmptyFacts
  <2>2. ASSUME NEW o \in ToSet(adder'.reqs), reqs'[o].class = "ChunkedReq"
        PROVE  \E i \in DOMAIN adder'.chunked : adder'.chunked[i].chunk = o
    <3> DEFINE cut == [q EXCEPT !.chunk = id]
    <3>1. cut \in PendingType /\ cut.chunk = id BY <1>2, <1>3 DEF PendingType
    <3>2. adder.chunked \in Seq(PendingType) BY <1>1 DEF TypeOK
    <3> HIDE DEF cut
    <3>3. class = "ChunkedReq" =>
            /\ DOMAIN adder'.chunked = 1 .. Len(adder.chunked) + 1 /\ Len(adder.chunked) \in Nat
            /\ DOMAIN adder.chunked = 1 .. Len(adder.chunked)
            /\ \A i \in 1 .. Len(adder.chunked) : adder'.chunked[i] = adder.chunked[i]
            /\ adder'.chunked[Len(adder.chunked) + 1] = cut
      <4>1. CASE class = "ChunkedReq"
        <5>1. adder'.chunked = Append(adder.chunked, cut) BY <1>4, <4>1 DEF cut
        <5>2. QED BY <3>1, <3>2, <5>1, LenProperties, AppendProperties
      <4>2. QED BY <4>1
    <3>4. CASE o = id
      <4>1. class = "ChunkedReq" BY <1>4, <1>5, <2>2, <3>4
      <4>2. Len(adder.chunked) + 1 \in DOMAIN adder'.chunked BY <3>3, <4>1
      <4>3. QED BY <3>1, <3>3, <3>4, <4>1, <4>2
    <3>5. CASE o # id
      <4>1. o \in ToSet(adder.reqs) BY <1>7, <2>2, <3>5
      <4>2. reqs'[o] = reqs[o] BY <1>9, <4>1 DEF Holders
      <4>3. PICK i \in DOMAIN adder.chunked : adder.chunked[i].chunk = o
        BY <1>1, <2>2, <4>1, <4>2 DEF CutsQueued
      <4>4. CASE class = "ChunkedReq"
        <5>1. i \in 1 .. Len(adder.chunked) /\ Len(adder.chunked) \in Nat BY <3>3, <4>4
        <5>2. i \in 1 .. Len(adder.chunked) + 1 BY <5>1
        <5>3. i \in DOMAIN adder'.chunked /\ adder'.chunked[i] = adder.chunked[i]
          BY <3>3, <4>4, <5>1, <5>2
        <5>4. QED BY <4>3, <5>3
      <4>5. CASE class = "Req" BY <1>4, <4>3, <4>5
      <4>6. QED BY <1>6, <4>4, <4>5
    <3>6. QED BY <3>4, <3>5
  <2>3. QED BY <2>1, <2>2 DEF CutsQueued
<1>21. RunningExact' BY <1>1, <1>18 DEF RunningExact
<1>22. HostCounts'
  <2>1. ASSUME NEW o \in Open' PROVE reqs'[o].device = Len(reqs'[o].host) + Flying(o)'
    <3>1. CASE o = id
      <4>1. reqs'[id].class = "Req" BY <3>1 DEF Open
      <4>2. reqs'[id].device = Len(q.ids) /\ reqs'[id].host = SubSeq(q.ids, 1, Len(q.ids))
        BY <1>4, <1>5, <4>1
      <4>3. SubSeq(q.ids, 1, Len(q.ids)) = q.ids BY <1>3
      <4>4. id \notin DOMAIN inflight' BY <1>18
      <4>5. QED BY <1>3, <3>1, <4>2, <4>3, <4>4 DEF Flying
    <3>2. CASE o # id
      <4>1. o \in (running \cup DOMAIN inflight \cup ToSet(adder.reqs)) \ terminal
        BY <1>2, <1>7, <3>2, EmptyFacts DEF Open
      <4>2. o \in Holders BY <4>1 DEF Holders, Referenced
      <4>3. o \in Open BY <1>9, <4>1, <4>2 DEF Open
      <4>4. QED BY <1>1, <1>9, <4>2, <4>3 DEF HostCounts, Flying
    <3>3. QED BY <3>1, <3>2
  <2>2. QED BY <2>1 DEF HostCounts
<1>23. reqs'[id].slot = slot BY <1>4, <1>5
<1>24. Newest' = {o \in Newest : o[1] # id[1]} \cup {id}
  <2>1. \A p \in Holders : p[1] = id[1] => p[2] < id[2]
    <3>1. ASSUME NEW p \in Holders, p[1] = id[1] PROVE p[2] < id[2]
      <4>1. p = q.chunk BY <1>2, <1>3, <3>1
      <4>2. q.chunk # None BY <3>1, <4>1, HoldersTyped, NoneAssumption DEF Objs
      <4>3. QED BY <1>3, <4>1, <4>2 DEF q
    <3>2. QED BY <3>1
  <2>2. QED BY <1>3, <1>12, <2>1, NewestMade
<1>25. QED BY <1>8, <1>9, <1>12, <1>17, <1>19, <1>20, <1>21, <1>22, <1>23, <1>24 DEF id, q

\* The next chunk keeps the slot.
LEMMA AdmitChunkSlots ==
  ASSUME IInv, IInv', XInv, AdmitChunk
  PROVE  LET c  == Candidate.chunk
             id == <<Candidate.uid, c[2] + 1>>
         IN  /\ XInv' /\ \A o \in Holders : reqs'[o] = reqs[o]
             /\ c \in Newest /\ id \notin Newest /\ Newest' = (Newest \ {c}) \cup {id}
<1> DEFINE q   == Candidate
           r   == reqs[q.chunk]
           n   == q.chunk[2] + 1
           row == SubSeq(token_pool[r.slot], 1, r.cached)
           id  == <<q.uid, n>>
<1>1. TypeOK /\ SlotsExclusive BY DEF IInv, XInv
<1>2. /\ pc = "admit" /\ HasCandidate /\ q.chunk # None /\ free_table' = free_table
      /\ UNCHANGED <<pc, pending, running, inflight, terminal, batch, last, proc>>
      /\ AddOneReq(q, id, r.slot, r.handle, r.cached, row)
  BY DEF AdmitChunk
<1>3. /\ q \in PendingType
      /\ \A o \in Holders : o[1] = q.uid => o = q.chunk
      /\ q.chunk \in Waiting /\ q.chunk \in DOMAIN reqs /\ q.chunk[1] = q.uid
  BY <1>2, CandidateAlone
<1>4. /\ q.chunk \in Objs /\ n \in Nat /\ q.chunk[2] < n /\ q.chunk # id /\ r.cached \in Int
  BY <1>1, <1>3 DEF TypeOK, Objs
<1>5. q.chunk \in Holders BY <1>3, HoldersSplit DEF Newer
<1> HIDE DEF n, row
<1>6. /\ TipsApart' /\ ChunksContinue' /\ CutsQueued' /\ RunningExact' /\ HostCounts'
      /\ Newest' = {o \in Newest : o[1] # id[1]} \cup {id}
      /\ Holders' = Holders \cup {id} /\ id \notin Holders /\ reqs'[id].slot = r.slot
      /\ \A o \in Holders : reqs'[o] = reqs[o]
  BY <1>2, <1>4, AddOneReqSlots
<1>7. id[1] = q.chunk[1] BY <1>3
<1> HIDE DEF id
<1>8. SlotsExclusive'
  <2>1. \A o \in Holders' : \E p \in Holders : p[1] = o[1] /\ reqs'[o].slot = reqs[p].slot
    BY <1>5, <1>6, <1>7
  <2>2. \A p \in Holders : \E o \in Holders' : o[1] = p[1] BY <1>6
  <2>3. QED BY <1>1, <1>2, <2>1, <2>2, SlotsKept
<1>9. q.chunk \in Newest
  <2>1. q.chunk[2] \in Nat BY <1>4 DEF Objs
  <2>2. QED BY <1>3, <1>5, <2>1 DEF Newest
<1>10. id \notin Newest BY <1>6 DEF Newest
<1>11. {o \in Newest : o[1] # id[1]} = Newest \ {q.chunk} BY <1>3, <1>7 DEF Newest
<1>12. QED BY <1>6, <1>8, <1>9, <1>10, <1>11 DEF XInv, id, n

\* A new request takes a free slot.
LEMMA AdmitNewSlots ==
  ASSUME IInv, IInv', XInv, AdmitNew
  PROVE  LET id == <<Candidate.uid, 0>>
         IN  /\ XInv' /\ \A o \in Holders : o[1] # Candidate.uid /\ reqs'[o] = reqs[o]
             /\ id \notin Newest /\ Newest' = Newest \cup {id}
             /\ \A o \in Holders : reqs[o].slot # free_table[Len(free_table)]
<1> DEFINE q      == Candidate
           node   == MatchReq(cm, q.ids).node
           cached == Len(node) * PageSize
           slot   == free_table[Len(free_table)]
           row    == SubSeq(q.ids, 1, cached)
           id     == <<q.uid, 0>>
<1>1. TypeOK /\ SlotsExclusive BY DEF IInv, XInv
<1>2. /\ pc = "admit" /\ HasCandidate /\ q.chunk = None /\ free_table # <<>>
      /\ UNCHANGED <<pc, pending, running, inflight, terminal, batch, last, proc>>
      /\ free_table' = SubSeq(free_table, 1, Len(free_table) - 1)
      /\ AddOneReq(q, id, slot, node, cached, row)
  BY DEF AdmitNew
<1>3. q \in PendingType /\ \A o \in Holders : o[1] = q.uid => o = q.chunk
  BY <1>2, CandidateAlone
<1>4. cached \in Int
  <2>1. q.ids \in Seq(Tokens) \ {<<>>} BY <1>3 DEF PendingType
  <2>2. QED BY <2>1, MatchLength
<1>5. id \in Objs /\ q.chunk # id /\ 0 \in Nat
  <2>1. id \in Objs BY <1>3 DEF PendingType, Objs
  <2>2. QED BY <1>2, <2>1, NoneAssumption DEF Objs
<1> HIDE DEF cached, slot, node, row
<1>6. /\ TipsApart' /\ ChunksContinue' /\ CutsQueued' /\ RunningExact' /\ HostCounts'
      /\ Newest' = {o \in Newest : o[1] # id[1]} \cup {id}
      /\ Holders' = Holders \cup {id} /\ id \notin Holders /\ reqs'[id].slot = slot
      /\ \A o \in Holders : reqs'[o] = reqs[o]
  BY <1>2, <1>4, <1>5, AddOneReqSlots
<1>7. \A o \in Holders : o[1] # q.uid
  <2>1. \A o \in Holders : o # None BY HoldersTyped, NoneAssumption DEF Objs
  <2>2. QED BY <1>2, <1>3, <2>1
<1>8. \A o \in Holders : o[1] # id[1] /\ reqs'[o].slot = reqs[o].slot BY <1>6, <1>7
<1> HIDE DEF id
<1>9. SlotsExclusive' BY <1>1, <1>2, <1>6, <1>8, SlotTaken DEF slot
<1>10. {o \in Newest : o[1] # id[1]} = Newest /\ id \notin Newest BY <1>6, <1>8 DEF Newest
<1>11. \A o \in Holders : reqs[o].slot # slot
  <2>1. free_table \in Seq(Slots) BY <1>1 DEF TypeOK
  <2>2. Len(free_table) \in DOMAIN free_table BY <1>2, <2>1, EmptySeq, LenProperties
  <2>3. slot \in ToSet(free_table) BY <2>2, ToSetElement DEF slot
  <2>4. QED BY <1>1, <2>3 DEF SlotsExclusive
<1>12. QED BY <1>6, <1>7, <1>9, <1>10, <1>11 DEF XInv, id, slot

-----------------------------------------------------------------------------
(* Forward.                                                                *)

\* The batch goes to the device; it keeps the slots it had.
LEMMA ForwardSlots ==
  ASSUME IInv, IInv', SInv, XInv, Forward
  PROVE  XInv' /\ Newest' = Newest
<1>1. /\ TypeOK /\ AdderPlaced /\ ObjectsPlaced /\ BatchesPlaced /\ InflightExact /\ TerminalDrains
      /\ TipsApart /\ ChunksContinue /\ CutsQueued /\ RunningExact /\ HostCounts /\ SlotsExclusive
      /\ OneReqPerUid
  BY DEF IInv, Placement, XInv, SInv
<1>2. /\ pc = "forward" /\ pc' = "process" /\ batch'.reqs = <<>>
      /\ UNCHANGED <<pending, adder, terminal, free_table>>
      /\ inflight' = [o \in DOMAIN inflight \cup ToSet(batch.reqs) |->
           (IF o \in DOMAIN inflight THEN inflight[o] ELSE 0)
             + (IF o \in ToSet(batch.reqs) THEN 1 ELSE 0)]
      /\ reqs' = [o \in DOMAIN reqs |->
                    IF o \in ToSet(batch.reqs) THEN Completed(reqs[o]) ELSE reqs[o]]
      /\ running' = {o \in running \cup ToSet(batch.reqs) : CanDecode(reqs'[o])}
      /\ \/ Overlap /\ proc'.reqs = last.reqs /\ last'.reqs = batch.reqs
         \/ ~Overlap /\ proc'.reqs = batch.reqs /\ last'.reqs = <<>>
  BY ModeAssumption DEF Forward, Launch, NoBatch
<1>3. /\ adder.reqs = <<>> /\ proc.reqs = <<>> /\ ToSet(batch.reqs) \subseteq DOMAIN reqs \ terminal
      /\ DOMAIN inflight = ToSet(last.reqs) /\ terminal \subseteq DOMAIN inflight
      /\ (~Overlap => last.reqs = <<>>)
  BY <1>1, <1>2, EmptyFacts DEF AdderPlaced, BatchesPlaced, InflightExact, TerminalDrains
<1>4. \A o \in DOMAIN reqs :
        /\ o \in ToSet(batch.reqs) =>
             /\ reqs'[o].device = reqs[o].device + 1 /\ reqs'[o].host = reqs[o].host
             /\ reqs'[o].class = reqs[o].class /\ reqs'[o].slot = reqs[o].slot
        /\ o \notin ToSet(batch.reqs) => reqs'[o] = reqs[o]
  <2>1. ASSUME NEW r, IsReq(r)
        PROVE  /\ Completed(r).class = r.class /\ Completed(r).slot = r.slot
               /\ Completed(r).host = r.host /\ Completed(r).device = r.device + 1
    BY <2>1 DEF IsReq, ReqFields, Completed
  <2>2. QED BY <1>1, <1>2, <2>1 DEF ObjectsPlaced
<1>5. \A o \in DOMAIN reqs : reqs'[o].class = reqs[o].class /\ reqs'[o].slot = reqs[o].slot
  BY <1>4
<1>6. Passed = {} /\ Waiting' = Waiting
  BY <1>2, <1>3 DEF Passed, Waiting, ChunksOf
<1>7. /\ Newer = running \cup terminal \cup Waiting \cup ToSet(batch.reqs)
      /\ Older = ToSet(last.reqs) /\ Fresh = ToSet(batch.reqs)
      /\ Newer' = running' \cup terminal \cup Waiting \cup ToSet(last'.reqs)
      /\ Older' = ToSet(proc'.reqs) /\ Fresh' = ToSet(last'.reqs)
  BY <1>2, <1>3, <1>6, EmptyFacts DEF Newer, Older, Fresh
<1>8. \A o \in running : o \in running' \/ o \in ToSet(batch.reqs)
  BY <1>1, <1>2, <1>4 DEF RunningExact, TypeOK
<1>9. Holders' = Holders
  <2>1. (Holders = Newer \cup Older)' BY HoldersSplit, PTL
  <2>2. running' \subseteq running \cup ToSet(batch.reqs) BY <1>2
  <2>3. Holders = running \cup terminal \cup Waiting \cup ToSet(batch.reqs) \cup ToSet(last.reqs)
    BY <1>7, HoldersSplit
  <2>4. Holders' = running' \cup terminal \cup Waiting \cup ToSet(last'.reqs) \cup ToSet(proc'.reqs)
    BY <1>7, <2>1
  <2>5. ToSet(last'.reqs) \cup ToSet(proc'.reqs) = ToSet(batch.reqs) \cup ToSet(last.reqs)
    BY <1>2, <1>3, EmptyFacts
  <2>6. QED BY <1>8, <2>2, <2>3, <2>4, <2>5
<1>10. TipsApart'
  <2>1. running' \subseteq running \cup ToSet(batch.reqs) BY <1>2
  <2>2. CASE Overlap
    <3>1. Newer' \subseteq Newer /\ Older' = Older /\ Fresh' = Fresh
      BY <1>2, <1>7, <2>1, <2>2
    <3>2. \A p \in Older : p \in DOMAIN reqs BY HoldersSplit, HoldersTyped
    <3>3. QED BY <1>1, <1>2, <1>5, <3>1, <3>2 DEF TipsApart, Single
  <2>3. CASE ~Overlap
    <3>1. Newer' \subseteq Newer /\ Older' \subseteq Newer
      BY <1>2, <1>7, <2>1, <2>3, EmptyFacts
    <3>2. QED BY <1>1, <3>1 DEF TipsApart, Single
  <2>4. QED BY <2>2, <2>3
<1>11. ChunksContinue'
  <2>1. ASSUME NEW p \in DOMAIN inflight', reqs'[p].class = "ChunkedReq"
        PROVE  \E o \in Continuing' : o[1] = p[1]
    <3>1. p \in ToSet(batch.reqs) \/ p \in ToSet(last.reqs) BY <1>2, <1>3, <2>1
    <3>2. p \in DOMAIN reqs /\ reqs[p].class = "ChunkedReq"
      BY <1>1, <1>3, <1>5, <2>1, <3>1 DEF TypeOK
    <3>3. CASE p \in ToSet(batch.reqs)
      <4>1. p \in Waiting BY <1>1, <3>2, <3>3 DEF CutsQueued
      <4>2. QED BY <1>6, <4>1 DEF Continuing
    <3>4. CASE p \in ToSet(last.reqs)
      <4>0. Overlap BY <1>3, <3>4, EmptyFacts
      <4>1. PICK o \in Continuing : o[1] = p[1]
        BY <1>1, <1>3, <3>2, <3>4 DEF ChunksContinue
      <4>2. o \notin {x \in ToSet(last.reqs) : reqs[x].class = "Req"}
        BY <1>1, <3>2, <3>4, <4>1 DEF OneReqPerUid, Single
      <4>3. CASE o \in terminal \cup Waiting BY <1>2, <1>6, <4>1, <4>3 DEF Continuing
      <4>4. CASE o \in ToSet(batch.reqs) /\ reqs[o].class = "ChunkedReq"
        <5>1. o \in Waiting BY <1>1, <4>4 DEF CutsQueued
        <5>2. QED BY <1>6, <4>1, <5>1 DEF Continuing
      <4>5. CASE o \in ToSet(batch.reqs) /\ reqs[o].class # "ChunkedReq"
        <5>1. o \in ToSet(last'.reqs) BY <1>2, <4>0, <4>5
        <5>2. reqs'[o].class = "Req" BY <1>1, <1>3, <1>5, <4>5 DEF TypeOK
        <5>3. QED BY <4>1, <5>1, <5>2 DEF Continuing
      <4>6. CASE o \in running \ ToSet(batch.reqs)
        <5>1. o \in running' BY <1>8, <4>6
        <5>2. QED BY <4>1, <5>1 DEF Continuing
      <4>7. QED BY <1>3, <4>1, <4>2, <4>3, <4>4, <4>5, <4>6, EmptyFacts DEF Continuing
    <3>5. QED BY <3>1, <3>3, <3>4
  <2>2. QED BY <2>1 DEF ChunksContinue
<1>12. CutsQueued' BY <1>2, <1>3, EmptyFacts DEF CutsQueued
<1>13. RunningExact'
  <2>1. \A o \in running' : CanDecode(reqs'[o]) BY <1>2
  <2>2. ASSUME NEW o \in DOMAIN inflight' \ terminal', CanDecode(reqs'[o]) PROVE o \in running'
    <3>1. CASE o \in ToSet(batch.reqs) BY <1>2, <2>2, <3>1
    <3>2. CASE o \notin ToSet(batch.reqs)
      <4>1. o \in DOMAIN inflight \ terminal /\ o \in DOMAIN reqs BY <1>1, <1>2, <2>2, <3>2 DEF TypeOK
      <4>2. reqs'[o] = reqs[o] BY <1>4, <3>2, <4>1
      <4>3. o \in running BY <1>1, <2>2, <4>1, <4>2 DEF RunningExact
      <4>4. QED BY <1>8, <3>2, <4>3
    <3>3. QED BY <3>1, <3>2
  <2>3. QED BY <2>1, <2>2 DEF RunningExact
<1>14. HostCounts'
  <2>1. ASSUME NEW o \in Open' PROVE reqs'[o].device = Len(reqs'[o].host) + Flying(o)'
    <3>1. o \in (running' \cup DOMAIN inflight') \ terminal /\ reqs'[o].class = "Req"
      BY <1>2, <1>3, EmptyFacts DEF Open
    <3>2. o \in (running \cup DOMAIN inflight \cup ToSet(batch.reqs)) \ terminal BY <1>2, <3>1
    <3>3. o \in DOMAIN reqs BY <1>1, <1>3, <3>2 DEF TypeOK
    <3>4. o \in Open BY <1>5, <3>1, <3>2, <3>3 DEF Open
    <3>5. reqs[o].device = Len(reqs[o].host) + Flying(o) BY <1>1, <3>4 DEF HostCounts
    <3>6. CASE o \in ToSet(batch.reqs)
      <4>1. Flying(o)' = Flying(o) + 1 BY <1>2, <3>6 DEF Flying
      <4>2. reqs'[o].device = reqs[o].device + 1 /\ reqs'[o].host = reqs[o].host
        BY <1>4, <3>3, <3>6
      <4>3. Flying(o) \in Int BY <1>1 DEF Flying, TypeOK
      <4>4. Len(reqs[o].host) \in Int
        <5>1. ReqCounted(o) BY <3>4 DEF SInv, TokensCounted
        <5>2. QED BY <5>1, LenProperties DEF ReqCounted
      <4>5. QED BY <3>5, <4>1, <4>2, <4>3, <4>4
    <3>7. CASE o \notin ToSet(batch.reqs)
      <4>1. Flying(o)' = Flying(o)
        <5>1. CASE o \in DOMAIN inflight
          <6>1. inflight[o] \in Int BY <1>1, <5>1 DEF TypeOK
          <6>2. inflight'[o] = inflight[o] + 0 /\ o \in DOMAIN inflight' BY <1>2, <3>7, <5>1
          <6>3. QED BY <5>1, <6>1, <6>2 DEF Flying
        <5>2. CASE o \notin DOMAIN inflight BY <1>2, <3>7, <5>2 DEF Flying
        <5>3. QED BY <5>1, <5>2
      <4>2. reqs'[o] = reqs[o] BY <1>4, <3>3, <3>7
      <4>3. QED BY <3>5, <4>1, <4>2
    <3>8. QED BY <3>6, <3>7
  <2>2. QED BY <2>1 DEF HostCounts
<1>15. SlotsExclusive'
  <2>1. \A o \in Holders : reqs'[o].slot = reqs[o].slot BY <1>5, HoldersTyped
  <2>2. QED BY <1>1, <1>2, <1>9, <2>1, SlotsKept
<1>16. Newest' = Newest BY <1>9 DEF Newest
<1>17. QED BY <1>10, <1>11, <1>12, <1>13, <1>14, <1>15, <1>16 DEF XInv

\* Nothing goes to the device.
LEMMA NoForwardSlots ==
  ASSUME IInv, IInv', XInv, ForwardOutOfPages \/ NoForward
  PROVE  XInv' /\ Newest' = Newest
<1>1. /\ AdderPlaced /\ BatchesPlaced /\ InflightExact
      /\ TipsApart /\ ChunksContinue /\ CutsQueued /\ RunningExact /\ HostCounts /\ SlotsExclusive
  BY DEF IInv, Placement, XInv
<1>2. /\ pc = "forward" /\ UNCHANGED <<pending, adder, running, inflight, terminal, reqs, free_table>>
      /\ \/ pc' = "crashed" /\ UNCHANGED <<batch, last, proc>>
         \/ /\ pc' = "process" /\ batch.reqs = <<>> /\ batch'.reqs = <<>>
            /\ last'.reqs = <<>>
            /\ \/ Overlap /\ proc'.reqs = last.reqs
               \/ ~Overlap /\ proc'.reqs = <<>>
  BY ModeAssumption DEF ForwardOutOfPages, NoForward, Launch, NoBatch, memory
<1>3. adder.reqs = <<>> /\ (~Overlap => last.reqs = <<>>)
  BY <1>1, <1>2 DEF AdderPlaced, BatchesPlaced
<1>4. /\ Passed = {} /\ Passed' = {} /\ Waiting' = Waiting
  BY <1>2, <1>3 DEF Passed, Waiting, ChunksOf
<1>5. Newer' = Newer /\ Older' = Older /\ Fresh' = Fresh
  BY <1>2, <1>3, <1>4, EmptyFacts DEF Newer, Older, Fresh
<1>6. Holders' = Holders
  <2>1. (Holders = Newer \cup Older)' BY HoldersSplit, PTL
  <2>2. QED BY <1>5, <2>1, HoldersSplit
<1>7. TipsApart' BY <1>1, <1>2, <1>5 DEF TipsApart
<1>8. ChunksContinue'
  <2>1. CASE pc' = "crashed" BY <1>1, <1>2, <1>4, <2>1 DEF ChunksContinue, Continuing
  <2>2. CASE pc' = "process"
    <3>1. DOMAIN inflight = ToSet(last.reqs) BY <1>1, <1>2, EmptyFacts DEF InflightExact, BatchesPlaced
    <3>2. ASSUME NEW p \in DOMAIN inflight, reqs[p].class = "ChunkedReq"
          PROVE  \E o \in Continuing' : o[1] = p[1]
      <4>1. PICK o \in Continuing : o[1] = p[1] BY <1>1, <3>2 DEF ChunksContinue
      <4>2. CASE o \in ToSet(last.reqs) /\ reqs[o].class = "Req"
        <5>1. o \in Older /\ p \in Older BY <1>2, <3>1, <3>2, <4>2 DEF Older
        <5>2. QED BY <1>1, <3>2, <4>1, <4>2, <5>1 DEF TipsApart, Single
      <4>3. CASE o \in running \cup terminal \cup Waiting
        BY <1>2, <1>4, <4>1, <4>3 DEF Continuing
      <4>4. QED BY <1>2, <1>3, <2>2, <4>1, <4>2, <4>3, EmptyFacts DEF Continuing
    <3>3. QED BY <1>2, <3>2 DEF ChunksContinue
  <2>3. QED BY <1>2, <2>1, <2>2
<1>9. CutsQueued' BY <1>1, <1>2, <1>3, <1>4, EmptyFacts DEF CutsQueued
<1>10. RunningExact' BY <1>1, <1>2 DEF RunningExact
<1>11. HostCounts'
  <2>1. Open' = Open BY <1>2 DEF Open
  <2>2. QED BY <1>1, <1>2, <2>1 DEF HostCounts, Flying
<1>12. SlotsExclusive' BY <1>1, <1>2, <1>6 DEF SlotsExclusive, Slots
<1>13. Newest' = Newest BY <1>6 DEF Newest
<1>14. QED BY <1>7, <1>8, <1>9, <1>10, <1>11, <1>12, <1>13 DEF XInv

-----------------------------------------------------------------------------
(* Process.                                                                *)

\* One result less: whoever stays has the slot it had, and the request's own slot is
\* given back when nothing else is known of its uid.
LEMMA ResultSlots ==
  ASSUME IInv, IInv', SInv, XInv, TakeResult, NEW c, c = Current,
         UNCHANGED <<pc, pending, adder, batch, last>>,
         running' \subseteq running, running \ {c} \subseteq running',
         terminal \ {c} \subseteq terminal', terminal' \subseteq terminal \cup {c},
         c \in terminal => c \in terminal' \/ c \notin DOMAIN inflight',
         c \in running => c \in running' \/ c \in terminal' \/ c \notin DOMAIN inflight',
         \A o \in DOMAIN reqs :
           /\ reqs'[o].slot = reqs[o].slot /\ reqs'[o].class = reqs[o].class
           /\ reqs'[o].device = reqs[o].device
           /\ CanDecode(reqs'[o]) <=> CanDecode(reqs[o])
           /\ o # c => reqs'[o].host = reqs[o].host,
         c \in Open' => c \in Open /\ Len(reqs'[c].host) = Len(reqs[c].host) + 1,
         \/ /\ c \in terminal \/ reqs[c].class = "Req"
            /\ c \notin running' \cup terminal' \cup DOMAIN inflight'
            /\ free_table' = Append(free_table, reqs[c].slot)
         \/ /\ c \in Holders' \/ (reqs[c].class = "ChunkedReq" /\ UNCHANGED <<running, terminal>>)
            /\ free_table' = free_table
  PROVE  /\ XInv'
         /\ \/ free_table' = Append(free_table, reqs[c].slot) /\ c \in Newest /\ Newest' = Newest \ {c}
            \/ free_table' = free_table /\ Newest' = Newest
<1>1. /\ TypeOK /\ AdderPlaced /\ ObjectsPlaced /\ InflightExact /\ InflightExact' /\ TerminalDrains
      /\ QueuePlaced
      /\ TipsApart /\ ChunksContinue /\ CutsQueued /\ RunningExact /\ HostCounts /\ SlotsExclusive
  BY DEF IInv, Placement, XInv
<1>2. /\ pc = "process" /\ pc' = "process" /\ c \in DOMAIN reqs /\ c \in DOMAIN inflight
      /\ adder.reqs = <<>> /\ batch.reqs = <<>>
      /\ DOMAIN inflight' \subseteq DOMAIN inflight /\ DOMAIN inflight \ {c} \subseteq DOMAIN inflight'
      /\ inflight' = OneBatchLess(c)
  BY ResultTaken, TakeResultFacts DEF TakeResult
<1>3. ToSet(proc.reqs) = {c} \cup ToSet(proc'.reqs) /\ c \notin ToSet(proc'.reqs)
  <2>1. proc.reqs # <<>> /\ proc'.reqs = Tail(proc.reqs) BY DEF TakeResult
  <2>2. QED BY <1>1, <2>1, HeadTail DEF TypeOK, InflightExact, Current
<1>4. Waiting' = Waiting BY DEF Waiting, ChunksOf
<1>5. /\ Newer = running \cup terminal \cup Waiting \cup ToSet(last.reqs)
      /\ Older = ToSet(proc.reqs) /\ Fresh = ToSet(last.reqs)
      /\ Newer' = running' \cup terminal' \cup Waiting \cup ToSet(last.reqs)
      /\ Older' = ToSet(proc'.reqs) /\ Fresh' = ToSet(last.reqs)
  BY <1>2, <1>4, EmptyFacts DEF Newer, Older, Fresh
<1>6. DOMAIN inflight' = ToSet(last.reqs) \cup ToSet(proc'.reqs) BY <1>1 DEF InflightExact
<1>7. \A o \in Newer \cup Older :
        o[1] = c[1] /\ o # c => o \in ToSet(last.reqs) \ terminal /\ reqs[c].class = "ChunkedReq"
  BY <1>1, <1>3, <1>5 DEF TipsApart, Single
<1>8. c \in running => reqs[c].class = "Req" BY <1>1 DEF RunningExact, CanDecode
<1>9. c \in terminal => \A o \in Newer \cup Older : o[1] = c[1] => o = c
  BY <1>1, <1>3, <1>5 DEF TipsApart, Single
<1>10. c \in terminal' => c \in ToSet(last.reqs)
  <2>1. TerminalDrains' BY DEF IInv
  <2>2. c \in terminal' => c \in DOMAIN inflight' BY <2>1 DEF TerminalDrains
  <2>3. QED BY <1>3, <1>6, <2>2
<1>11. Holders = Newer \cup Older BY HoldersSplit
<1>12. Holders' = Newer' \cup Older'
  <2>1. (Holders = Newer \cup Older)' BY HoldersSplit, PTL
  <2>2. QED BY <2>1
<1>13. Newer' \subseteq Newer /\ Older' \subseteq Older /\ c \in Older
       /\ Holders' \subseteq Holders /\ Holders \ {c} \subseteq Holders'
  BY <1>3, <1>5, <1>10, <1>11, <1>12
<1>14. \A o \in Holders : o \in DOMAIN reqs BY HoldersTyped
<1>15. TipsApart'
  <2>1. Single(Newer') /\ Single(Older') BY <1>1, <1>13 DEF TipsApart, Single
  <2>2. ASSUME NEW o \in Newer', NEW p \in Older', o[1] = p[1], o # p
        PROVE  o \in Fresh' \ terminal' /\ reqs'[p].class = "ChunkedReq" /\ p[2] < o[2]
    <3>1. o \in ToSet(last.reqs) \ terminal /\ reqs[p].class = "ChunkedReq" /\ p[2] < o[2]
      BY <1>1, <1>5, <1>13, <2>2 DEF TipsApart
    <3>2. o # c BY <1>1, <1>3, <1>5, <2>2 DEF TipsApart, Single
    <3>3. p \in DOMAIN reqs BY <1>11, <1>13, <1>14
    <3>4. QED BY <1>5, <3>1, <3>2, <3>3
  <2>3. (Single(Newer) /\ Single(Older))' BY <2>1 DEF Single
  <2>4. QED BY <2>2, <2>3 DEF TipsApart
<1>16. ChunksContinue'
  <2>1. ASSUME NEW p \in DOMAIN inflight', reqs'[p].class = "ChunkedReq"
        PROVE  \E o \in Continuing' : o[1] = p[1]
    <3>1. p \in DOMAIN inflight /\ p \in DOMAIN reqs /\ reqs[p].class = "ChunkedReq"
      BY <1>1, <1>2, <2>1 DEF TypeOK
    <3>2. PICK o \in Continuing : o[1] = p[1] BY <1>1, <3>1 DEF ChunksContinue
    <3>3. o \in running \cup terminal \cup Waiting \cup {x \in ToSet(last.reqs) : reqs[x].class = "Req"}
      BY <1>2, <3>2, EmptyFacts DEF Continuing
    <3>4. CASE o \in Waiting BY <1>4, <3>2, <3>4 DEF Continuing
    <3>5. CASE o \in ToSet(last.reqs) /\ reqs[o].class = "Req"
      <4>1. o \in DOMAIN inflight BY <1>1, <3>5 DEF InflightExact
      <4>2. reqs'[o].class = "Req" BY <1>1, <3>5, <4>1 DEF TypeOK
      <4>3. QED BY <3>2, <3>5, <4>2 DEF Continuing
    <3>6. CASE o \in running \cup terminal
      <4>1. CASE o # c BY <3>2, <3>6, <4>1 DEF Continuing
      <4>2. CASE o = c
        <5>1. p \in Newer \cup Older BY <1>5, <1>6, <1>13, <2>1
        <5>2. p = c
          <6>1. CASE c \in terminal BY <1>9, <3>2, <4>2, <5>1, <6>1
          <6>2. CASE c \in running BY <1>7, <1>8, <3>2, <4>2, <5>1, <6>2
          <6>3. QED BY <3>6, <4>2, <6>1, <6>2
        <5>3. c \notin running BY <1>8, <3>1, <5>2
        <5>4. c \in terminal' BY <2>1, <3>6, <4>2, <5>2, <5>3
        <5>5. QED BY <3>2, <4>2, <5>4 DEF Continuing
      <4>3. QED BY <4>1, <4>2
    <3>7. QED BY <3>3, <3>4, <3>5, <3>6
  <2>2. QED BY <2>1 DEF ChunksContinue
<1>17. CutsQueued' BY <1>2, EmptyFacts DEF CutsQueued
<1>18. RunningExact'
  <2>1. \A o \in running' : CanDecode(reqs'[o]) BY <1>1 DEF RunningExact, TypeOK
  <2>2. ASSUME NEW o \in DOMAIN inflight' \ terminal', CanDecode(reqs'[o]) PROVE o \in running'
    <3>1. o \in DOMAIN inflight \ terminal BY <1>2, <2>2
    <3>2. o \in running BY <1>1, <2>2, <3>1 DEF RunningExact, TypeOK
    <3>3. QED BY <2>2, <3>2
  <2>3. QED BY <2>1, <2>2 DEF RunningExact
<1>19. HostCounts'
  <2>1. ASSUME NEW o \in Open' PROVE reqs'[o].device = Len(reqs'[o].host) + Flying(o)'
    <3>1. o \in (running' \cup DOMAIN inflight') \ terminal' /\ reqs'[o].class = "Req"
      BY <1>2, EmptyFacts DEF Open
    <3>2. o \in DOMAIN reqs BY <1>1, <1>2, <3>1 DEF TypeOK
    <3>3. CASE o # c
      <4>1. o \in Open BY <1>2, <3>1, <3>2, <3>3 DEF Open
      <4>2. Flying(o)' = Flying(o)
        <5>1. o \in DOMAIN inflight <=> o \in DOMAIN inflight' BY <1>2, <3>3
        <5>2. o \in DOMAIN inflight => inflight'[o] = inflight[o]
          BY <1>1, <1>2, <3>3, <5>1 DEF OneBatchLess, Restrict, TypeOK
        <5>3. QED BY <5>1, <5>2 DEF Flying
      <4>3. QED BY <1>1, <3>2, <3>3, <4>1, <4>2 DEF HostCounts
    <3>4. CASE o = c
      <4>1. c \in Open /\ Len(reqs'[c].host) = Len(reqs[c].host) + 1 BY <3>4
      <4>2. reqs[c].device = Len(reqs[c].host) + inflight[c]
        BY <1>1, <1>2, <4>1 DEF HostCounts, Flying
      <4>3. Flying(c)' = inflight[c] - 1
        <5>1. inflight[c] \in {1, 2} /\ inflight \in [DOMAIN inflight -> {1, 2}]
          BY <1>1, <1>2 DEF TypeOK
        <5>2. CASE inflight[c] = 1
          <6>1. DOMAIN inflight' = DOMAIN inflight \ {c} BY <1>2, <5>2 DEF OneBatchLess, Restrict
          <6>2. QED BY <5>2, <6>1 DEF Flying
        <5>3. CASE inflight[c] = 2
          <6>1. inflight' = [inflight EXCEPT ![c] = @ - 1] BY <1>2, <5>3 DEF OneBatchLess
          <6>2. c \in DOMAIN inflight' /\ inflight'[c] = inflight[c] - 1 BY <1>2, <6>1
          <6>3. QED BY <6>2 DEF Flying
        <5>4. QED BY <5>1, <5>2, <5>3
      <4>4. inflight[c] \in Int BY <1>1, <1>2 DEF TypeOK
      <4>5. Len(reqs[c].host) \in Int
        <5>1. ReqCounted(c) BY <4>1 DEF SInv, TokensCounted
        <5>2. QED BY <5>1, LenProperties DEF ReqCounted
      <4>6. QED BY <1>2, <3>4, <4>1, <4>2, <4>3, <4>4, <4>5
    <3>5. QED BY <3>3, <3>4
  <2>2. QED BY <2>1 DEF HostCounts
<1>20. \A o \in Holders' : o \in Holders /\ reqs'[o].slot = reqs[o].slot BY <1>13, <1>14
<1>21. CASE /\ c \in terminal \/ reqs[c].class = "Req"
            /\ c \notin running' \cup terminal' \cup DOMAIN inflight'
            /\ free_table' = Append(free_table, reqs[c].slot)
  <2>1. \A o \in Holders : o[1] = c[1] => o = c BY <1>7, <1>9, <1>11, <1>21
  <2>2. c \notin Waiting
    <3>1. c # None BY <1>1, <1>2, NoneAssumption DEF TypeOK, Objs
    <3>2. CASE c \in terminal BY <1>1, <3>1, <3>2 DEF TerminalDrains, Waiting, ChunksOf
    <3>3. CASE reqs[c].class = "Req"
      <4>1. c[1] \notin QueuedUids BY <1>1, <1>2, <3>3, EmptyFacts DEF ObjectsPlaced
      <4>2. \A k \in DOMAIN pending : pending[k].chunk = c => pending[k].uid = c[1]
        BY <1>1, <3>1 DEF QueuePlaced
      <4>3. QED BY <4>1, <4>2 DEF Waiting, ChunksOf, QueuedUids
    <3>4. QED BY <1>21, <3>2, <3>3
  <2>3. c \notin Holders' BY <1>5, <1>6, <1>12, <1>21, <2>2
  <2>4. \A o \in Holders' : o[1] # c[1] BY <1>13, <2>1, <2>3
  <2>5. \A p \in Holders : p[1] # c[1] => p \in Holders' BY <1>13
  <2>6. reqs[c].slot \in Slots /\ c \in Holders BY <1>1, <1>2, <1>11, <1>13 DEF TypeOK
  <2>7. SlotsExclusive' BY <1>1, <1>20, <1>21, <2>4, <2>5, <2>6, SlotReleased
  <2>8. c \in Newest /\ Newest' = Newest \ {c} BY <1>20, <2>1, <2>4, <2>5, <2>6, NewestGone
  <2>9. QED BY <1>15, <1>16, <1>17, <1>18, <1>19, <1>21, <2>7, <2>8 DEF XInv
<1>22. CASE /\ c \in Holders' \/ (reqs[c].class = "ChunkedReq" /\ UNCHANGED <<running, terminal>>)
            /\ free_table' = free_table
  <2>0. \A p \in Holders : p[2] \in Nat BY HoldersTyped DEF Objs
  <2>1. \E o \in Holders' : o[1] = c[1] /\ c[2] <= o[2]
    <3>1. CASE c \in Holders' BY <1>13, <2>0, <3>1
    <3>2. CASE c \notin Holders'
      <4>1. PICK o \in Continuing : o[1] = c[1] BY <1>1, <1>2, <1>22, <3>2 DEF ChunksContinue
      <4>2. o \in running \cup terminal \cup Waiting \cup ToSet(last.reqs)
        BY <1>2, <4>1, EmptyFacts DEF Continuing
      <4>3. o \in Holders' /\ o \in Newer BY <1>5, <1>12, <1>22, <3>2, <4>2
      <4>4. c[2] < o[2] BY <1>1, <1>13, <3>2, <4>1, <4>3 DEF TipsApart
      <4>5. c[2] \in Nat /\ o[2] \in Nat BY <1>11, <1>13, <2>0, <4>3
      <4>6. c[2] <= o[2] BY <4>4, <4>5
      <4>7. QED BY <4>1, <4>3, <4>6
    <3>3. QED BY <3>1, <3>2
  <2>2. \A p \in Holders : \E o \in Holders' : o[1] = p[1] /\ p[2] <= o[2]
    BY <1>13, <2>0, <2>1
  <2>3. SlotsExclusive' BY <1>1, <1>20, <1>22, <2>2, SlotsKept
  <2>4. Newest' = Newest BY <1>13, <2>2, NewestKept
  <2>5. QED BY <1>15, <1>16, <1>17, <1>18, <1>19, <1>22, <2>3, <2>4 DEF XInv
<1>23. QED BY <1>21, <1>22

\* What a token changes that matters for slots.
LEMMA TokenMoves ==
  ASSUME IInv, SInv, ProcessToken, NEW c, c = Current
  PROVE  /\ TakeResult /\ c \notin terminal /\ reqs[c].class = "Req"
         /\ UNCHANGED <<pc, pending, adder, batch, last>>
         /\ c \in Open /\ Len(reqs'[c].host) = Len(reqs[c].host) + 1
         /\ \A o \in DOMAIN reqs :
              /\ reqs'[o].slot = reqs[o].slot /\ reqs'[o].class = reqs[o].class
              /\ reqs'[o].device = reqs[o].device
              /\ CanDecode(reqs'[o]) <=> CanDecode(reqs[o])
              /\ o # c => reqs'[o].host = reqs[o].host
         /\ \/ /\ running' = running \ {c} /\ c \in DOMAIN inflight'
               /\ terminal' = terminal \cup {c} /\ free_table' = free_table
            \/ /\ running' = running \ {c} /\ c \notin DOMAIN inflight'
               /\ terminal' = terminal /\ free_table' = Append(free_table, reqs[c].slot)
            \/ /\ Len(reqs[c].host) + 1 < reqs[c].max
               /\ UNCHANGED <<running, terminal, free_table>>
<1> DEFINE token == Head(proc.tokens)
           r     == [reqs[c] EXCEPT !.host = Append(@, token)]
           done  == IsFinished(r, token)
<1>1. /\ TakeResult /\ c \notin terminal /\ reqs[c].class = "Req"
      /\ UNCHANGED <<pc, pending, adder, batch, last>>
      /\ \/ /\ done /\ running' = running \ {c}
            /\ reqs' = [reqs EXCEPT ![c] = r]
            /\ ReleaseIfLanded(terminal \cup {c}, r)
         \/ /\ ~done /\ UNCHANGED <<running, terminal, free_table>>
            /\ \E h : reqs' = [reqs EXCEPT ![c] = [r EXCEPT !.handle = h]]
         \/ /\ ~done /\ UNCHANGED <<running, terminal, free_table>>
            /\ reqs' = [reqs EXCEPT ![c] = r]
  BY DEF ProcessToken, Discarded
<1>2. /\ c \in DOMAIN reqs /\ IsReq(reqs[c]) /\ reqs[c].max \in Nat /\ c \in Open
      /\ reqs[c].host \in Seq(Tokens \cup {None}) /\ token \in Tokens \cup {None}
  <2>1. c \in DOMAIN reqs /\ c \in DOMAIN inflight /\ token \in Tokens \cup {None}
    BY <1>1, ResultTaken
  <2>2. c \in Open BY <1>1, <2>1 DEF Open
  <2>3. IsReq(reqs[c]) BY <2>1 DEF IInv, Placement, ObjectsPlaced
  <2>4. ReqCounted(c) BY <2>2 DEF SInv, TokensCounted
  <2>5. QED BY <2>1, <2>2, <2>3, <2>4 DEF ReqCounted
<1> DEFINE Same(s) == /\ s.slot = reqs[c].slot /\ s.class = reqs[c].class /\ s.max = reqs[c].max
                      /\ s.device = reqs[c].device /\ s.host = Append(reqs[c].host, token)
<1> HIDE DEF token
<1>3. Same(r) /\ \A h : LET s == [r EXCEPT !.handle = h] IN Same(s)
  BY <1>2 DEF IsReq, ReqFields
<1> HIDE DEF r
<1>4. PICK s : reqs' = [reqs EXCEPT ![c] = s] /\ Same(s)
  <2>1. CASE reqs' = [reqs EXCEPT ![c] = r] BY <1>3, <2>1
  <2>2. CASE \E h : reqs' = [reqs EXCEPT ![c] = [r EXCEPT !.handle = h]]
    <3>1. PICK h : reqs' = [reqs EXCEPT ![c] = [r EXCEPT !.handle = h]] BY <2>2
    <3> DEFINE s == [r EXCEPT !.handle = h]
    <3>2. reqs' = [reqs EXCEPT ![c] = s] BY <3>1
    <3>3. Same(s) BY <1>3
    <3> HIDE DEF s, Same
    <3>4. QED BY <3>2, <3>3
  <2>3. QED BY <1>1, <2>1, <2>2
<1>5. \A o \in DOMAIN reqs : (o # c => reqs'[o] = reqs[o]) /\ (o = c => Same(reqs'[o]))
  <2> HIDE DEF Same
  <2>1. QED BY <1>2, <1>4
<1>6. \A o \in DOMAIN reqs :
        /\ reqs'[o].slot = reqs[o].slot /\ reqs'[o].class = reqs[o].class
        /\ reqs'[o].device = reqs[o].device
        /\ CanDecode(reqs'[o]) <=> CanDecode(reqs[o])
        /\ o # c => reqs'[o].host = reqs[o].host
  BY <1>5 DEF CanDecode, Remaining
<1>7. Append(reqs[c].host, token) \in Seq(Tokens \cup {None})
      /\ Len(Append(reqs[c].host, token)) = Len(reqs[c].host) + 1
      /\ Len(reqs[c].host) \in Nat
  BY <1>2, AppendElements, LenProperties
<1>8. Len(reqs'[c].host) = Len(reqs[c].host) + 1 BY <1>2, <1>5, <1>7
<1>9. ~done => Len(reqs[c].host) + 1 < reqs[c].max
  <2>1. ~done => ~(Len(r.host) >= r.max) BY DEF IsFinished
  <2>2. Len(r.host) = Len(reqs[c].host) + 1 /\ r.max = reqs[c].max BY <1>3, <1>7
  <2> HIDE DEF done
  <2>3. QED BY <1>2, <1>7, <2>1, <2>2
<1>10. CASE done
  <2>1. running' = running \ {c} /\ ReleaseIfLanded(terminal \cup {c}, r) BY <1>1, <1>10
  <2>2. r.slot = reqs[c].slot BY <1>3
  <2>3. (terminal \cup {c}) \ {c} = terminal BY <1>1
  <2>4. QED BY <1>1, <1>2, <1>6, <1>8, <2>1, <2>2, <2>3 DEF ReleaseIfLanded, FreeReqResources
<1>11. CASE ~done
  <2>1. UNCHANGED <<running, terminal, free_table>> BY <1>1, <1>11
  <2>2. QED BY <1>1, <1>2, <1>6, <1>8, <1>9, <1>11, <2>1
<1>12. QED BY <1>10, <1>11

\* The three outcomes for a request of the batch.
LEMMA ProcessSlots ==
  ASSUME IInv, IInv', SInv, XInv, ProcessTerminal \/ ProcessChunk \/ ProcessToken
  PROVE  /\ XInv'
         /\ \/ /\ free_table' = Append(free_table, reqs[Current].slot)
               /\ Current \in Newest /\ Newest' = Newest \ {Current}
            \/ free_table' = free_table /\ Newest' = Newest
<1>0. PICK c : c = Current OBVIOUS
<1>1. /\ TypeOK /\ ObjectsPlaced /\ TerminalDrains /\ RunningExact /\ HostCounts
  BY DEF IInv, Placement, XInv
<1>2. /\ TakeResult /\ UNCHANGED <<pc, pending, adder, batch, last>>
  BY DEF ProcessTerminal, ProcessChunk, ProcessToken
<1>3. /\ c \in DOMAIN reqs /\ c \in DOMAIN inflight /\ adder.reqs = <<>> /\ batch.reqs = <<>>
  BY <1>0, <1>2, ResultTaken
<1>4. DOMAIN inflight' \cup running' \cup terminal' \subseteq Holders'
  BY DEF Holders, Referenced
<1>5. CASE ProcessTerminal
  <2>1. /\ c \in terminal /\ UNCHANGED <<running, reqs>>
        /\ \/ c \in DOMAIN inflight' /\ UNCHANGED <<terminal, free_table>>
           \/ /\ c \notin DOMAIN inflight' /\ terminal' = terminal \ {c}
              /\ free_table' = Append(free_table, reqs[c].slot)
    BY <1>0, <1>5 DEF ProcessTerminal, Discarded, ReleaseIfLanded, FreeReqResources
  <2>2. c \notin running BY <1>1, <2>1 DEF TerminalDrains
  <2>3. c \notin Open'
    BY <1>2, <1>3, <2>1, <2>2, EmptyFacts DEF Open
  <2>4. QED BY <1>0, <1>2, <1>4, <2>1, <2>2, <2>3, ResultSlots
<1>6. CASE ProcessChunk
  <2>1. /\ c \notin terminal /\ reqs[c].class = "ChunkedReq"
        /\ UNCHANGED <<running, reqs, terminal, free_table>>
    BY <1>0, <1>6 DEF ProcessChunk, Discarded, memory
  <2>2. c \notin Open' BY <2>1 DEF Open
  <2>3. QED BY <1>0, <1>2, <1>4, <2>1, <2>2, ResultSlots
<1>7. CASE ProcessToken
  <2>1. /\ c \notin terminal /\ reqs[c].class = "Req"
        /\ c \in Open /\ Len(reqs'[c].host) = Len(reqs[c].host) + 1
        /\ \A o \in DOMAIN reqs :
             /\ reqs'[o].slot = reqs[o].slot /\ reqs'[o].class = reqs[o].class
             /\ reqs'[o].device = reqs[o].device
             /\ CanDecode(reqs'[o]) <=> CanDecode(reqs[o])
             /\ o # c => reqs'[o].host = reqs[o].host
        /\ \/ /\ running' = running \ {c} /\ c \in DOMAIN inflight'
              /\ terminal' = terminal \cup {c} /\ free_table' = free_table
           \/ /\ running' = running \ {c} /\ c \notin DOMAIN inflight'
              /\ terminal' = terminal /\ free_table' = Append(free_table, reqs[c].slot)
           \/ /\ Len(reqs[c].host) + 1 < reqs[c].max
              /\ UNCHANGED <<running, terminal, free_table>>
    BY <1>0, <1>7, TokenMoves
  <2>2. CASE Len(reqs[c].host) + 1 < reqs[c].max /\ UNCHANGED <<running, terminal, free_table>>
    <3>1. c \in running' \cup DOMAIN inflight'
      <4>1. CASE c \in DOMAIN inflight' BY <4>1
      <4>2. CASE c \notin DOMAIN inflight'
        <5>1. inflight[c] = 1
          <6>1. inflight' = OneBatchLess(c) BY <1>0, <1>2 DEF TakeResult
          <6>2. QED BY <1>3, <4>2, <6>1 DEF OneBatchLess
        <5>2. reqs[c].device = Len(reqs[c].host) + 1
          BY <1>1, <1>3, <2>1, <5>1 DEF HostCounts, Flying
        <5>3. reqs[c].max \in Nat /\ Len(reqs[c].host) \in Nat
          <6>1. ReqCounted(c) BY <2>1 DEF SInv, TokensCounted
          <6>2. QED BY <6>1, LenProperties DEF ReqCounted
        <5>4. CanDecode(reqs[c]) BY <2>1, <2>2, <5>2, <5>3 DEF CanDecode, Remaining
        <5>5. c \in running BY <1>1, <1>3, <2>1, <5>4 DEF RunningExact
        <5>6. QED BY <2>2, <5>5
      <4>3. QED BY <4>1, <4>2
    <3>2. c \in Holders' BY <1>4, <3>1
    <3>3. QED BY <1>0, <1>2, <2>1, <2>2, <3>2, ResultSlots
  <2>3. CASE /\ running' = running \ {c} /\ c \in DOMAIN inflight'
             /\ terminal' = terminal \cup {c} /\ free_table' = free_table
    <3>1. c \in Holders' BY <1>4, <2>3
    <3>2. QED BY <1>0, <1>2, <2>1, <2>3, <3>1, ResultSlots
  <2>4. CASE /\ running' = running \ {c} /\ c \notin DOMAIN inflight'
             /\ terminal' = terminal /\ free_table' = Append(free_table, reqs[c].slot)
    <3>1. c \notin running' \cup terminal' \cup DOMAIN inflight' BY <2>1, <2>4
    <3>2. QED BY <1>0, <1>2, <2>1, <2>4, <3>1, ResultSlots
  <2>5. QED BY <2>1, <2>2, <2>3, <2>4
<1>8. QED BY <1>5, <1>6, <1>7

\* The loop starts over: what was newer and launched is now older.
LEMMA EndProcessSlots ==
  ASSUME IInv, IInv', XInv, EndProcess
  PROVE  XInv' /\ Newest' = Newest /\ \A o \in Holders : reqs'[o] = reqs[o]
<1>1. /\ TypeOK /\ AdderPlaced /\ BatchesPlaced /\ InflightExact
      /\ TipsApart /\ ChunksContinue /\ CutsQueued /\ RunningExact /\ HostCounts /\ SlotsExclusive
  BY DEF IInv, Placement, XInv
<1>2. /\ pc = "process" /\ proc.reqs = <<>> /\ pc' = "recv" /\ proc'.reqs = <<>>
      /\ reqs' = Restrict(reqs, DOMAIN reqs \cap Referenced)
      /\ UNCHANGED <<pending, adder, running, inflight, terminal, batch, last, free_table>>
  BY DEF EndProcess, NoBatch
<1>3. adder.reqs = <<>> /\ batch.reqs = <<>> BY <1>1, <1>2 DEF AdderPlaced, BatchesPlaced
<1>4. Waiting' = Waiting /\ Passed' = {}
  BY <1>2, <1>3 DEF Waiting, Passed, ChunksOf
<1>5. /\ Newer = running \cup terminal \cup Waiting \cup ToSet(last.reqs)
      /\ Newer' = running \cup terminal \cup Waiting /\ Older' = ToSet(last.reqs)
  BY <1>2, <1>3, <1>4, EmptyFacts DEF Newer, Older
<1>6. Holders' = Holders BY <1>2, <1>3 DEF Holders, Referenced
<1>7. \A o \in Holders : reqs'[o] = reqs[o]
  <2>1. \A o \in Holders : o \in DOMAIN reqs BY HoldersTyped
  <2>2. Holders = Referenced BY <1>3, EmptyFacts DEF Holders
  <2>3. QED BY <1>2, <2>1, <2>2 DEF Restrict
<1>8. running \cup DOMAIN inflight \cup terminal \cup ToSet(last.reqs) \subseteq Holders
  BY <1>1 DEF Holders, Referenced, InflightExact
<1>9. TipsApart'
  <2>1. Newer' \subseteq Newer /\ Older' \subseteq Newer BY <1>5
  <2>2. QED BY <1>1, <2>1 DEF TipsApart, Single
<1>10. ChunksContinue'
  <2>1. ASSUME NEW p \in DOMAIN inflight', reqs'[p].class = "ChunkedReq"
        PROVE  \E o \in Continuing' : o[1] = p[1]
    <3>1. p \in DOMAIN inflight /\ reqs[p].class = "ChunkedReq" BY <1>2, <1>7, <1>8, <2>1
    <3>2. PICK o \in Continuing : o[1] = p[1] BY <1>1, <3>1 DEF ChunksContinue
    <3>3. o \in ToSet(last.reqs) /\ reqs[o].class = "Req" => reqs'[o].class = "Req"
      BY <1>7, <1>8
    <3>4. o \in Continuing' BY <1>2, <1>3, <1>4, <3>2, <3>3, EmptyFacts DEF Continuing
    <3>5. QED BY <3>2, <3>4
  <2>2. QED BY <2>1 DEF ChunksContinue
<1>11. CutsQueued' BY <1>2, <1>3, EmptyFacts DEF CutsQueued
<1>12. RunningExact' BY <1>1, <1>2, <1>7, <1>8 DEF RunningExact
<1>13. HostCounts'
  <2>1. \A o \in Open' : o \in Open /\ o \in Holders
    BY <1>2, <1>3, <1>7, <1>8, EmptyFacts DEF Open
  <2>2. QED BY <1>1, <1>2, <1>7, <2>1 DEF HostCounts, Flying
<1>14. SlotsExclusive'
  <2>1. \A o \in Holders' : \E p \in Holders : p[1] = o[1] /\ reqs'[o].slot = reqs[p].slot
    BY <1>6, <1>7
  <2>2. QED BY <1>1, <1>2, <1>6, <2>1, SlotsKept
<1>15. Newest' = Newest BY <1>6 DEF Newest
<1>16. QED BY <1>7, <1>9, <1>10, <1>11, <1>12, <1>13, <1>14, <1>15 DEF XInv

-----------------------------------------------------------------------------
(* The theorem.                                                            *)

\* The invariant is inductive next to IInv and SInv.
LEMMA NextXInv == IInv /\ SInv /\ XInv /\ [Next]_vars => XInv'
<1> SUFFICES ASSUME IInv, SInv, XInv, [Next]_vars PROVE XInv' OBVIOUS
<1>0. IInv' BY NextIInv
<1>1. CASE UNCHANGED vars
  <2>1. UNCHANGED <<pc, pending, adder, reqs, running, inflight, terminal, batch, last, proc,
                    free_table>>
    BY <1>1 DEF vars, control, memory
  <2>2. Passed' = Passed /\ Waiting' = Waiting BY <2>1 DEF Passed, Waiting, ChunksOf
  <2>3. Newer' = Newer /\ Older' = Older /\ Fresh' = Fresh BY <2>1, <2>2 DEF Newer, Older, Fresh
  <2>4. Open' = Open BY <2>1 DEF Open
  <2>5. Holders' = Holders BY <2>1 DEF Holders, Referenced
  <2>6. TipsApart' BY <2>1, <2>3 DEF XInv, TipsApart
  <2>7. ChunksContinue' BY <2>1, <2>2 DEF XInv, ChunksContinue, Continuing
  <2>8. CutsQueued' /\ RunningExact' BY <2>1, <2>2 DEF XInv, CutsQueued, RunningExact
  <2>9. HostCounts' BY <2>1, <2>4 DEF XInv, HostCounts, Flying
  <2>10. SlotsExclusive' BY <2>1, <2>5 DEF XInv, SlotsExclusive, Slots
  <2>11. QED BY <2>6, <2>7, <2>8, <2>9, <2>10 DEF XInv
<1>2. CASE Receive
  BY <1>0, <1>2, ReceiveUserSlots, AbortLaterSlots, AbortNowSlots DEF Receive, ReceiveAbort
<1>3. CASE Step
  BY <1>0, <1>3, SelectionSlots, StartPrefillSlots, AdmitChunkSlots, AdmitNewSlots, StopAdmissionSlots,
     ForwardSlots, NoForwardSlots, ProcessSlots, EndProcessSlots DEF Step
<1>4. QED BY <1>1, <1>2, <1>3 DEF Next

\* Table slots are free or held by one request, never both and never lost, however
\* prompts are cut, aborted on the device, speculated on and collected; every object
\* made for one prompt keeps the prompt's slot.
THEOREM SlotsCorrect == Spec => []SlotsExclusive
<1>1. Init => IInv /\ SInv /\ XInv BY InitIInv, InitSInv, InitXInv
<1>2. XInv => SlotsExclusive BY DEF XInv
<1>3. QED BY <1>1, <1>2, NextIInv, NextSInv, NextXInv, PTL DEF Spec

-----------------------------------------------------------------------------
(* Lengths.                                                                *)

RowWidth == CeilDiv(MaxSeqLen, PageSize)

\* A queued prompt and what it may still ask for fit in a row.
RoomFor(q) == Len(q.ids) < MaxSeqLen /\ Len(q.ids) + q.out <= MaxSeqLen

\* A prompt that was cut is not yet computed to its end: not when its last chunk is in
\* the batch to come, and not when the device is done with it either.
QueueLengths ==
  /\ \A i \in DOMAIN pending :
       LET q == pending[i]
       IN  /\ RoomFor(q)
           /\ q.chunk # None =>
                IF q.chunk \in ToSet(batch.reqs) THEN reqs[q.chunk].device < Len(q.ids)
                ELSE reqs[q.chunk].cached < Len(q.ids)
  /\ \A k \in DOMAIN adder.chunked :
       LET q == adder.chunked[k]
       IN  RoomFor(q) /\ reqs[q.chunk].device < Len(q.ids)

\* A request is one token beyond its length at most, and then is not computed again.
ObjectLengths ==
  /\ \A o \in DOMAIN reqs :
       LET r == reqs[o]
       IN  /\ r.max \in Int /\ 0 <= r.cached /\ r.cached < r.device /\ r.device <= r.max + 1
           /\ r.max <= MaxSeqLen
  /\ \A o \in ToSet(batch.reqs) \cup ToSet(adder.reqs) :
       reqs[o].device <= reqs[o].max /\ reqs[o].device < MaxSeqLen
  /\ \A o \in running : reqs[o].device < reqs[o].max

IsRow(row) == row \in Seq(ToSet(row)) /\ Len(row) <= RowWidth

RowLengths == DOMAIN page_table = Slots /\ \A s \in Slots : IsRow(page_table[s])

LInv == QueueLengths /\ ObjectLengths /\ RowLengths

-----------------------------------------------------------------------------
(* Rows.                                                                   *)

\* More positions need no fewer pages.
LEMMA CeilDivFacts ==
  ASSUME NEW a \in Nat, NEW b \in Nat, a <= b
  PROVE  /\ CeilDiv(a, PageSize) \in Nat /\ CeilDiv(b, PageSize) \in Nat
         /\ CeilDiv(a, PageSize) <= CeilDiv(b, PageSize)
<1>1. PageSize \in Nat \ {0} BY PagesAssumption
<1>2. ASSUME NEW x \in Nat, NEW y \in Nat, NEW d \in Nat \ {0}, x <= y
      PROVE  x \div d \in Nat /\ y \div d \in Nat /\ x \div d <= y \div d
  <2>1. /\ x \div d \in Nat /\ y \div d \in Nat
        /\ (x \div d) * d <= x /\ y < (y \div d + 1) * d
    OBVIOUS
  <2>2. PICK m \in Nat, n \in Nat : m = x \div d /\ n = y \div d BY <2>1
  <2>3. m * d < (n + 1) * d BY <1>2, <2>1, <2>2
  <2>4. \A u, v \in Nat : u >= v => u * d >= v * d OBVIOUS
  <2>5. m < n + 1 BY <2>2, <2>3, <2>4
  <2>6. QED BY <2>1, <2>2, <2>5
<1>3. a + PageSize - 1 \in Nat /\ b + PageSize - 1 \in Nat /\ a + PageSize - 1 <= b + PageSize - 1
  BY <1>1
<1>4. QED BY <1>1, <1>2, <1>3 DEF CeilDiv

\* Whole pages short of the model's length fit in a row.
LEMMA PagesFit ==
  ASSUME NEW n \in Nat, n * PageSize < MaxSeqLen
  PROVE  n <= RowWidth
<1>1. PageSize \in Nat \ {0} /\ MaxSeqLen \in Nat \ {0} BY PagesAssumption, SizesAssumption
<1>2. ASSUME NEW d \in Nat \ {0}, NEW m \in Nat, n * d < m PROVE n <= (m + d - 1) \div d
  <2>1. PICK x \in Nat : x = m + d - 1
    <3>1. m + d - 1 \in Nat OBVIOUS
    <3>2. QED BY <3>1
  <2>2. x \div d \in Nat /\ x < (x \div d + 1) * d OBVIOUS
  <2>3. PICK y \in Nat : y = x \div d BY <2>2
  <2>4. n * d <= x BY <1>2, <2>1
  <2>5. n * d < (y + 1) * d BY <2>2, <2>3, <2>4
  <2>6. \A u, v \in Nat : u >= v => u * d >= v * d OBVIOUS
  <2>7. n < y + 1 BY <2>3, <2>5, <2>6
  <2>8. QED BY <2>1, <2>3, <2>7
<1>3. QED BY <1>1, <1>2 DEF RowWidth, CeilDiv

\* A function on 1 .. n is a row of n pages.
LEMMA RowOf ==
  ASSUME NEW n \in Nat, NEW f, DOMAIN f = 1 .. n, f = [i \in DOMAIN f |-> f[i]]
  PROVE  f \in Seq(ToSet(f)) /\ Len(f) = n
<1>1. f \in [1 .. n -> ToSet(f)] BY DEF ToSet
<1>2. QED BY <1>1

\* The empty row.
LEMMA EmptyRow == IsRow(<<>>)
<1>1. Len(<<>>) = 0 /\ <<>> \in Seq(ToSet(<<>>)) OBVIOUS
<1>2. RowWidth \in Nat BY CeilDivFacts, SizesAssumption DEF RowWidth
<1>3. QED BY <1>1, <1>2 DEF IsRow

\* One row is written.
LEMMA RowWritten ==
  ASSUME RowLengths, NEW s \in Slots, NEW row, IsRow(row),
         page_table' = [page_table EXCEPT ![s] = row]
  PROVE  RowLengths'
<1>1. DOMAIN page_table' = Slots
      /\ \A x \in Slots : page_table'[x] = IF x = s THEN row ELSE page_table[x]
  BY DEF RowLengths
<1>2. \A x \in Slots : IsRow(page_table'[x]) BY <1>1 DEF RowLengths
<1>3. QED BY <1>1, <1>2 DEF RowLengths, IsRow, RowWidth, Slots

\* The matched pages of a prompt, or what is left of them in the cache.
LEMMA MatchedRow ==
  ASSUME NEW ids \in Seq(Tokens) \ {<<>>}, Len(ids) < MaxSeqLen, NEW c, NEW row,
         DOMAIN row = 1 .. Len(MatchReq(c, ids).node), row = [i \in DOMAIN row |-> row[i]]
  PROVE  IsRow(row)
<1> DEFINE n == Len(MatchReq(c, ids).node)
<1>1. n \in Nat /\ n * PageSize \in Nat /\ n * PageSize < Len(ids) BY MatchLength
<1>2. Len(ids) \in Nat /\ MaxSeqLen \in Nat BY LenProperties, SizesAssumption
<1>3. DOMAIN row = 1 .. n OBVIOUS
<1> HIDE DEF n
<1>4. n * PageSize < MaxSeqLen BY <1>1, <1>2
<1>5. n <= RowWidth BY <1>1, <1>4, PagesFit
<1>6. row \in Seq(ToSet(row)) /\ Len(row) = n BY <1>1, <1>3, RowOf
<1>7. QED BY <1>5, <1>6 DEF IsRow

\* Pages exchanged for the cached ones stay where they are.
LEMMA CanonicalRow ==
  ASSUME NEW row, IsRow(row), NEW tree, NEW node, NEW first, NEW found
  PROVE  IsRow(Canonical(tree, row, node, first, found))
<1> DEFINE new == Canonical(tree, row, node, first, found)
           n   == Len(row)
<1>1. n \in Nat /\ DOMAIN row = 1 .. n /\ n <= RowWidth BY LenProperties DEF IsRow
<1>2. DOMAIN new = 1 .. n /\ new = [i \in DOMAIN new |-> new[i]] BY <1>1 DEF Canonical
<1> HIDE DEF new, n
<1>3. new \in Seq(ToSet(new)) /\ Len(new) = n BY <1>1, <1>2, RowOf
<1>4. QED BY <1>1, <1>3 DEF IsRow, new

-----------------------------------------------------------------------------
(* Steps that change no length.                                            *)

\* Nobody has a length.
LEMMA InitLInv == Init => LInv
<1> SUFFICES ASSUME Init PROVE LInv OBVIOUS
<1>1. /\ reqs = <<>> /\ running = {} /\ pending = <<>> /\ adder.reqs = <<>> /\ adder.chunked = <<>>
      /\ batch.reqs = <<>> /\ page_table = [s \in Slots |-> <<>>]
  BY DEF Init, NoAdder, NoBatch
<1>2. QueueLengths /\ ObjectLengths BY <1>1, EmptyFacts DEF QueueLengths, ObjectLengths
<1>3. RowLengths BY <1>1, EmptyRow DEF RowLengths
<1>4. QED BY <1>2, <1>3 DEF LInv

\* Whatever is named somewhere is an object.
LEMMA ListedObjects ==
  IInv =>
    /\ \A j \in DOMAIN pending : pending[j].chunk # None => pending[j].chunk \in DOMAIN reqs
    /\ \A k \in DOMAIN adder.chunked : adder.chunked[k].chunk \in ToSet(adder.reqs)
    /\ ToSet(adder.reqs) \subseteq DOMAIN reqs /\ ToSet(batch.reqs) \subseteq DOMAIN reqs
    /\ running \subseteq DOMAIN reqs
BY DEF IInv, Placement, QueuePlaced, AdderPlaced, BatchesPlaced, TypeOK, ToSet

\* What a step has to leave alone: the lengths of the objects that stay, the adder and
\* the objects of the batch; what is queued was queued or is a new prompt.
LEMMA LengthsKept ==
  ASSUME IInv, IInv', LInv, UNCHANGED <<adder, batch.reqs>>, RowLengths',
         running' \subseteq running,
         \A o \in DOMAIN reqs' :
           /\ o \in DOMAIN reqs
           /\ reqs'[o].cached = reqs[o].cached /\ reqs'[o].device = reqs[o].device
           /\ reqs'[o].max = reqs[o].max,
         \A j \in DOMAIN pending' :
           \/ \E i \in DOMAIN pending : pending'[j] = pending[i]
           \/ pending'[j].chunk = None /\ RoomFor(pending'[j])
  PROVE  LInv'
<1>1. QueueLengths /\ ObjectLengths BY DEF LInv
<1>2. /\ \A j \in DOMAIN pending' : pending'[j].chunk # None => pending'[j].chunk \in DOMAIN reqs'
      /\ \A k \in DOMAIN adder'.chunked : adder'.chunked[k].chunk \in ToSet(adder'.reqs)
      /\ ToSet(adder'.reqs) \subseteq DOMAIN reqs' /\ ToSet(batch'.reqs) \subseteq DOMAIN reqs'
      /\ running' \subseteq DOMAIN reqs'
  <2>1. (/\ \A j \in DOMAIN pending : pending[j].chunk # None => pending[j].chunk \in DOMAIN reqs
         /\ \A k \in DOMAIN adder.chunked : adder.chunked[k].chunk \in ToSet(adder.reqs)
         /\ ToSet(adder.reqs) \subseteq DOMAIN reqs /\ ToSet(batch.reqs) \subseteq DOMAIN reqs
         /\ running \subseteq DOMAIN reqs)'
    BY ListedObjects, PTL
  <2>2. QED BY <2>1
<1>3. QueueLengths'
  <2>1. ASSUME NEW j \in DOMAIN pending'
        PROVE  /\ RoomFor(pending'[j])
               /\ pending'[j].chunk # None =>
                    IF pending'[j].chunk \in ToSet(batch'.reqs)
                    THEN reqs'[pending'[j].chunk].device < Len(pending'[j].ids)
                    ELSE reqs'[pending'[j].chunk].cached < Len(pending'[j].ids)
    <3>1. CASE \E i \in DOMAIN pending : pending'[j] = pending[i]
      BY <1>1, <1>2, <3>1 DEF QueueLengths
    <3>2. CASE pending'[j].chunk = None /\ RoomFor(pending'[j]) BY <3>2
    <3>3. QED BY <3>1, <3>2
  <2>2. ASSUME NEW k \in DOMAIN adder'.chunked
        PROVE  /\ RoomFor(adder'.chunked[k])
               /\ reqs'[adder'.chunked[k].chunk].device < Len(adder'.chunked[k].ids)
    BY <1>1, <1>2 DEF QueueLengths
  <2>3. QED BY <2>1, <2>2 DEF QueueLengths, RoomFor
<1>4. ObjectLengths' BY <1>1, <1>2 DEF ObjectLengths
<1>5. QED BY <1>3, <1>4 DEF LInv

\* A message of a user: the prompt fits, with what may be asked for.
LEMMA ReceiveUserLengths ==
  ASSUME IInv, IInv', LInv, NEW u \in Uids, NEW w \in Workload, ReceiveUser(u, w)
  PROVE  LInv'
<1> DEFINE room == MaxSeqLen - Len(w.ids)
           q == [uid |-> u, ids |-> w.ids, out |-> OutputLength(w, room),
                 ignore |-> w.ignore, chunk |-> None]
<1>1. UNCHANGED <<adder, batch, running, reqs, page_table>> BY DEF ReceiveUser, memory
<1>2. RowLengths' BY <1>1 DEF LInv, RowLengths, IsRow, RowWidth, Slots
<1>3. \A j \in DOMAIN pending' :
        \/ \E i \in DOMAIN pending : pending'[j] = pending[i]
        \/ pending'[j].chunk = None /\ RoomFor(pending'[j])
  <2>1. CASE pending' = pending BY <2>1
  <2>2. CASE HasRoom(room) /\ pending' = Append(pending, q)
    <3>1. /\ Len(w.ids) \in Nat /\ w.max \in Nat /\ MaxSeqLen \in Nat /\ w.ids \in Seq(Tokens) \ {<<>>}
          /\ w.ignore \in BOOLEAN
      BY WorkloadAssumption, SizesAssumption, LenProperties
    <3>2. q \in PendingType BY <2>2, <3>1 DEF PendingType, OutputLength, HasRoom
    <3>3. RoomFor(q) /\ q.chunk = None BY <2>2, <3>1 DEF RoomFor, OutputLength, HasRoom
    <3>4. pending \in Seq(PendingType) BY DEF IInv, TypeOK
    <3> HIDE DEF q
    <3>5. /\ DOMAIN pending = 1 .. Len(pending) /\ DOMAIN pending' = 1 .. Len(pending) + 1
          /\ \A i \in 1 .. Len(pending) : pending'[i] = pending[i]
          /\ pending'[Len(pending) + 1] = q /\ Len(pending) \in Nat
      BY <2>2, <3>2, <3>4, AppendElements, LenProperties
    <3>6. QED BY <3>3, <3>5
  <2>3. QED BY <2>1, <2>2 DEF ReceiveUser
<1>4. QED BY <1>1, <1>2, <1>3, LengthsKept

\* An abort takes from the queue and empties at most one row.
LEMMA ReceiveAbortLengths ==
  ASSUME IInv, IInv', LInv, NEW u \in Uids, ReceiveAbort(u)
  PROVE  LInv'
<1>1. TypeOK /\ QueuePlaced /\ RowLengths BY DEF IInv, Placement, LInv
<1>2. Withdraw(u) /\ UNCHANGED <<adder, batch>>
  BY DEF ReceiveAbort, AbortNothing, AbortInflight, AbortNow
<1>3. \A j \in DOMAIN pending' : \E i \in DOMAIN pending : pending'[j] = pending[i]
  BY <1>1, <1>2, WithdrawQueue DEF Withdraw
<1>4. running' \subseteq running BY <1>2 DEF Withdraw
<1>5. CASE AbortNothing(u) \/ AbortInflight(u)
  <2>1. UNCHANGED <<reqs, page_table>> BY <1>5 DEF AbortNothing, AbortInflight, memory
  <2>2. RowLengths' BY <1>1, <2>1 DEF RowLengths, IsRow, RowWidth, Slots
  <2>3. QED BY <1>2, <1>3, <1>4, <2>1, <2>2, LengthsKept
<1>6. CASE AbortNow(u)
  <2>1. PICK o \in AbortTarget(u) \ DOMAIN inflight :
          /\ FreeReqResources(o, reqs[o], FALSE)
          /\ reqs' = Restrict(reqs, DOMAIN reqs \ {o})
    BY <1>6 DEF AbortNow
  <2>2. o \in DOMAIN reqs
    <3>1. ChunkOf(u) \subseteq DOMAIN reqs BY <1>1 DEF ChunkOf, Queued, QueuePlaced
    <3>2. QED BY <1>1, <3>1 DEF AbortTarget, RunningOf, InflightOf, TypeOK
  <2>3. reqs[o].slot \in Slots BY <1>1, <2>2 DEF TypeOK
  <2>4. page_table' = [page_table EXCEPT ![reqs[o].slot] = <<>>] BY <2>1 DEF FreeReqResources
  <2>5. RowLengths' BY <1>1, <2>3, <2>4, EmptyRow, RowWritten
  <2>6. \A p \in DOMAIN reqs' : p \in DOMAIN reqs /\ reqs'[p] = reqs[p] BY <2>1 DEF Restrict
  <2>7. QED BY <1>2, <1>3, <1>4, <2>5, <2>6, LengthsKept
<1>7. QED BY <1>5, <1>6 DEF ReceiveAbort

-----------------------------------------------------------------------------
(* Selection and admission.                                                *)

\* Who runs has room for another token.
LEMMA SelectLengths ==
  ASSUME IInv, LInv, pc \in {"recv", "admit"}, NEW b, Select(b), ToSet(b.reqs) \subseteq running,
         adder'.reqs = <<>>, adder'.chunked = <<>>,
         UNCHANGED <<pending, reqs, running, page_table>>
  PROVE  LInv'
<1>1. /\ TypeOK /\ QueuePlaced /\ ObjectsPlaced /\ BatchesPlaced
      /\ QueueLengths /\ ObjectLengths /\ RowLengths
  BY DEF IInv, Placement, LInv
<1>2. batch.reqs = <<>> /\ batch' = b BY <1>1 DEF BatchesPlaced, Select
<1>3. QueueLengths'
  <2>1. ASSUME NEW i \in DOMAIN pending
        PROVE  /\ RoomFor(pending[i])
               /\ pending[i].chunk # None =>
                    IF pending[i].chunk \in ToSet(b.reqs)
                    THEN reqs[pending[i].chunk].device < Len(pending[i].ids)
                    ELSE reqs[pending[i].chunk].cached < Len(pending[i].ids)
    <3>1. RoomFor(pending[i]) BY <1>1 DEF QueueLengths
    <3>2. CASE pending[i].chunk = None BY <3>1, <3>2
    <3>3. CASE pending[i].chunk # None
      <4>1. pending[i].chunk[1] = pending[i].uid /\ pending[i].uid \in QueuedUids
        BY <1>1, <3>3 DEF QueuePlaced, QueuedUids
      <4>2. pending[i].chunk \notin running BY <1>1, <4>1 DEF ObjectsPlaced
      <4>3. reqs[pending[i].chunk].cached < Len(pending[i].ids)
        BY <1>1, <1>2, <3>3, EmptyFacts DEF QueueLengths
      <4>4. QED BY <3>1, <4>2, <4>3
    <3>4. QED BY <3>2, <3>3
  <2>2. DOMAIN adder'.chunked = {} OBVIOUS
  <2>3. QED BY <1>2, <2>1, <2>2 DEF QueueLengths, RoomFor
<1>4. ObjectLengths'
  <2>1. ASSUME NEW o \in running PROVE reqs[o].device <= reqs[o].max /\ reqs[o].device < MaxSeqLen
    <3>1. /\ reqs[o].device \in Int /\ reqs[o].max \in Int /\ reqs[o].device < reqs[o].max
          /\ reqs[o].max <= MaxSeqLen
      BY <1>1 DEF TypeOK, ObjectLengths
    <3>2. QED BY <3>1, SizesAssumption
  <2>2. \A o \in ToSet(batch'.reqs) \cup ToSet(adder'.reqs) : o \in running
    BY <1>2, EmptyFacts
  <2>3. QED BY <1>1, <2>1, <2>2 DEF ObjectLengths
<1>5. RowLengths' BY <1>1 DEF RowLengths, IsRow, RowWidth, Slots
<1>6. QED BY <1>3, <1>4, <1>5 DEF LInv

\* The actions that only choose a batch.
LEMMA SelectionLengths ==
  ASSUME IInv, LInv, SelectDecode \/ SelectNothing
  PROVE  LInv'
<1>0. TypeOK /\ AdderPlaced BY DEF IInv, Placement
<1>1. /\ pc = "recv" /\ UNCHANGED <<pending, adder, reqs, running, page_table>>
  BY DEF SelectDecode, SelectNothing, StartSelection, memory
<1>2. adder'.reqs = <<>> /\ adder'.chunked = <<>> BY <1>0, <1>1 DEF AdderPlaced
<1>3. PICK b : Select(b) /\ ToSet(b.reqs) \subseteq running
  <2>1. CASE SelectDecode BY <1>0, <2>1, DecodeBatchFacts DEF SelectDecode
  <2>2. CASE SelectNothing
    <3>1. Select(NoBatch) /\ NoBatch.reqs = <<>> BY <2>2 DEF SelectNothing, NoBatch
    <3>2. QED BY <3>1, EmptyFacts
  <2>3. QED BY <2>1, <2>2
<1>4. QED BY <1>1, <1>2, <1>3, SelectLengths

\* The loop over the queue begins.
LEMMA StartPrefillLengths ==
  ASSUME IInv, LInv, StartPrefill
  PROVE  LInv'
<1>1. QueueLengths /\ ObjectLengths /\ RowLengths BY DEF LInv
<1>2. /\ adder'.reqs = <<>> /\ adder'.chunked = <<>>
      /\ UNCHANGED <<pending, batch, reqs, running, page_table>>
  BY DEF StartPrefill, memory
<1>3. DOMAIN adder'.chunked = {} /\ ToSet(adder'.reqs) = {} BY <1>2, EmptyFacts
<1>4. QueueLengths' BY <1>1, <1>2, <1>3 DEF QueueLengths, RoomFor
<1>5. ObjectLengths' BY <1>1, <1>2, <1>3 DEF ObjectLengths
<1>6. RowLengths' BY <1>1, <1>2 DEF RowLengths, IsRow, RowWidth, Slots
<1>7. QED BY <1>4, <1>5, <1>6 DEF LInv

\* The loop over the queue ends: the prompt that was cut has more to compute.
LEMMA StopAdmissionLengths ==
  ASSUME IInv, LInv, StopAdmission
  PROVE  LInv'
<1>1. /\ TypeOK /\ QueuePlaced /\ AdderPlaced /\ BatchesPlaced
      /\ QueueLengths /\ ObjectLengths /\ RowLengths
  BY DEF IInv, Placement, LInv
<1>2. /\ pc = "admit" /\ adder'.reqs = <<>> /\ adder'.chunked = <<>>
      /\ UNCHANGED <<reqs, running, page_table>>
  BY DEF StopAdmission, NoAdder
<1>3. CASE adder.reqs # <<>>
  <2> DEFINE b == [reqs |-> adder.reqs, phase |-> "prefill", tokens |-> <<>>]
  <2>1. Select(b) /\ pending' = Requeue BY <1>3 DEF StopAdmission
  <2>2. batch'.reqs = adder.reqs /\ batch.reqs = <<>>
    BY <1>1, <1>2, <2>1 DEF Select, BatchesPlaced
  <2>3. ASSUME NEW j \in DOMAIN pending'
        PROVE  /\ RoomFor(pending'[j])
               /\ pending'[j].chunk # None =>
                    IF pending'[j].chunk \in ToSet(adder.reqs)
                    THEN reqs[pending'[j].chunk].device < Len(pending'[j].ids)
                    ELSE reqs[pending'[j].chunk].cached < Len(pending'[j].ids)
    <3>1. \/ Len(adder.chunked) = 1 /\ pending'[j] = adder.chunked[1]
          \/ \E m \in DOMAIN pending : m > Len(adder.reqs) /\ pending'[j] = pending[m]
      BY <1>1, <1>3, <2>1, RequeueElements
    <3>2. CASE Len(adder.chunked) = 1 /\ pending'[j] = adder.chunked[1]
      <4>1. 1 \in DOMAIN adder.chunked BY <1>1, <3>2, LenProperties DEF TypeOK
      <4>2. QED BY <1>1, <3>2, <4>1 DEF QueueLengths, AdderPlaced
    <3>3. CASE \E m \in DOMAIN pending : m > Len(adder.reqs) /\ pending'[j] = pending[m]
      <4>1. PICK m \in DOMAIN pending : m > Len(adder.reqs) /\ pending'[j] = pending[m] BY <3>3
      <4>2. RoomFor(pending[m]) BY <1>1 DEF QueueLengths
      <4>3. CASE pending[m].chunk = None BY <4>1, <4>2, <4>3
      <4>4. CASE pending[m].chunk # None
        <5>1. reqs[pending[m].chunk].cached < Len(pending[m].ids)
          BY <1>1, <2>2, <4>4, EmptyFacts DEF QueueLengths
        <5>2. ASSUME NEW i \in DOMAIN adder.reqs, pending[m].chunk = adder.reqs[i] PROVE FALSE
          <6>1. pending[m].uid = pending[i].uid BY <1>1, <4>4, <5>2 DEF QueuePlaced, AdderPlaced
          <6>2. /\ i \in 1 .. Len(adder.reqs) /\ Len(adder.reqs) <= Len(pending)
                /\ Len(adder.reqs) \in Nat /\ Len(pending) \in Nat /\ DOMAIN pending = 1 .. Len(pending)
            BY <1>1, LenProperties DEF AdderPlaced, TypeOK
          <6>3. i \in DOMAIN pending /\ i # m BY <4>1, <6>2
          <6>4. QED BY <1>1, <6>1, <6>3 DEF QueuePlaced
        <5>3. pending[m].chunk \notin ToSet(adder.reqs) BY <5>2 DEF ToSet
        <5>4. QED BY <4>1, <4>2, <5>1, <5>3
      <4>5. QED BY <4>3, <4>4
    <3>4. QED BY <3>1, <3>2, <3>3
  <2>4. DOMAIN adder'.chunked = {} /\ ToSet(adder'.reqs) = {} BY <1>2, EmptyFacts
  <2> HIDE DEF b
  <2>5. QueueLengths' BY <1>2, <2>2, <2>3, <2>4 DEF QueueLengths, RoomFor
  <2>6. ObjectLengths' BY <1>1, <1>2, <2>2, <2>4 DEF ObjectLengths
  <2>7. RowLengths' BY <1>1, <1>2 DEF RowLengths, IsRow, RowWidth, Slots
  <2>8. QED BY <2>5, <2>6, <2>7 DEF LInv
<1>4. CASE adder.reqs = <<>>
  <2>1. PICK b : Select(b) /\ ToSet(b.reqs) \subseteq running
    <3>1. CASE \E b \in DecodeBatches : Select(b) BY <1>1, <3>1, DecodeBatchFacts
    <3>2. CASE Select(NoBatch)
      <4>1. NoBatch.reqs = <<>> BY DEF NoBatch
      <4>2. QED BY <3>2, <4>1, EmptyFacts
    <3>3. QED BY <1>4, <3>1, <3>2 DEF StopAdmission
  <2>2. UNCHANGED pending BY <1>4 DEF StopAdmission
  <2>3. QED BY <1>2, <2>1, <2>2, SelectLengths
<1>5. QED BY <1>3, <1>4

\* What _add_one_req makes of a queue entry when it computes so much of it.
Made(q, id, slot, handle, cached, row, chunk, class) ==
  /\ cached + chunk <= Len(q.ids)
  /\ class = "ChunkedReq" => cached + chunk < Len(q.ids)
  /\ DOMAIN reqs' = DOMAIN reqs \cup {id}
  /\ \A o \in DOMAIN reqs : o # id => reqs'[o] = reqs[o]
  /\ reqs'[id] = [slot |-> slot, cached |-> cached, device |-> cached + chunk,
                  max |-> cached + chunk + q.out, host |-> SubSeq(q.ids, 1, cached + chunk),
                  handle |-> handle, class |-> class, ignore |-> q.ignore]
  /\ token_pool' = [token_pool EXCEPT ![slot] = CopyTokens(row, q.ids, cached + 1, cached + chunk)]
  /\ \A i \in DOMAIN adder'.chunked :
       class = "ChunkedReq" /\ adder'.chunked[i] = [q EXCEPT !.chunk = id]

\* _add_one_req: something is computed, up to the prompt's end or to where the budget
\* ends; only a prompt cut short goes back to the queue.
LEMMA AddedObject ==
  ASSUME IInv, pc = "admit", HasCandidate, NEW n \in Nat, NEW slot, NEW handle,
         NEW cached \in Nat, cached < Len(Candidate.ids), NEW row,
         AddOneReq(Candidate, <<Candidate.uid, n>>, slot, handle, cached, row)
  PROVE  LET q  == Candidate
             id == <<q.uid, n>>
         IN  /\ Len(adder.reqs) + 1 \in DOMAIN pending /\ q \in PendingType /\ id \in Objs
             /\ q.uid \in QueuedUids /\ ToSet(adder'.reqs) = ToSet(adder.reqs) \cup {id}
             /\ \E chunk \in Nat \ {0}, class \in {"Req", "ChunkedReq"} :
                  Made(q, id, slot, handle, cached, row, chunk, class)
<1> DEFINE k      == Len(adder.reqs) + 1
           q      == Candidate
           id     == <<q.uid, n>>
           remain == Len(q.ids) - cached
           chunk  == IF adder.budget < remain THEN adder.budget ELSE remain
           class  == IF chunk < remain THEN "ChunkedReq" ELSE "Req"
           new    == [slot |-> slot, cached |-> cached, device |-> cached + chunk,
                      max |-> cached + chunk + q.out, host |-> SubSeq(q.ids, 1, cached + chunk),
                      handle |-> handle, class |-> class, ignore |-> q.ignore]
           cut    == [q EXCEPT !.chunk = id]
           pool   == [token_pool EXCEPT ![slot] = CopyTokens(row, q.ids, cached + 1, cached + chunk)]
<1>1. TypeOK /\ AdderPlaced BY DEF IInv, Placement
<1>2. /\ k \in DOMAIN pending /\ q = pending[k] /\ q \in PendingType
      /\ adder.budget \in Nat \ {0} /\ adder.reqs \in Seq(Objs)
  <2>1. pending \in Seq(PendingType) /\ adder.reqs \in Seq(Objs) BY <1>1 DEF TypeOK
  <2>2. adder.budget \in Nat BY <1>1 DEF AdderPlaced
  <2>3. k \in 1 .. Len(pending) /\ adder.budget > 0
    BY <2>1, LenProperties DEF HasCandidate
  <2>4. QED BY <1>1, <2>1, <2>2, <2>3, LenProperties, ElementOfSeq DEF Candidate
<1>3. id \in Objs /\ Len(q.ids) \in Nat /\ q.uid \in QueuedUids
  BY <1>1, <1>2, LenProperties DEF PendingType, Objs, QueuedUids
<1>4. /\ DOMAIN reqs' = DOMAIN reqs \cup {id} /\ reqs'[id] = new
      /\ \A o \in DOMAIN reqs : o # id => reqs'[o] = reqs[o]
      /\ adder'.reqs = Append(adder.reqs, id) /\ token_pool' = pool
      /\ adder'.chunked = IF class = "ChunkedReq" THEN Append(adder.chunked, cut) ELSE adder.chunked
  BY DEF AddOneReq
<1>5. cut \in PendingType BY <1>2, <1>3 DEF PendingType
<1>6. /\ chunk \in Nat \ {0} /\ cached + chunk <= Len(q.ids)
      /\ class = "ChunkedReq" => cached + chunk < Len(q.ids)
  <2>1. remain \in Nat \ {0} /\ cached + remain = Len(q.ids) BY <1>3
  <2> HIDE DEF remain, q
  <2>2. chunk \in Nat \ {0} /\ chunk <= remain BY <1>2, <2>1
  <2>3. class = "ChunkedReq" => chunk < remain OBVIOUS
  <2> HIDE DEF chunk, class
  <2>4. QED BY <1>3, <2>1, <2>2, <2>3
<1>7. class \in {"Req", "ChunkedReq"} OBVIOUS
<1>8. adder.chunked = <<>>
  <2>1. adder.chunked \in Seq(PendingType) BY <1>1 DEF TypeOK
  <2>2. Len(adder.chunked) <= 1 /\ Len(adder.chunked) # 1 BY <1>1, <1>2 DEF AdderPlaced
  <2>3. Len(adder.chunked) \in Nat BY <2>1, LenProperties
  <2>4. \A l \in Nat : l <= 1 /\ l # 1 => l = 0 OBVIOUS
  <2>5. Len(adder.chunked) = 0 BY <2>2, <2>3, <2>4
  <2>6. QED BY <2>1, <2>5, EmptySeq
<1> HIDE DEF q, id, remain, chunk, class, new, cut, pool, k
<1>9. ToSet(adder'.reqs) = ToSet(adder.reqs) \cup {id} BY <1>2, <1>3, <1>4, AppendElements
<1>10. \A i \in DOMAIN adder'.chunked : class = "ChunkedReq" /\ adder'.chunked[i] = cut
  <2>1. CASE class = "ChunkedReq"
    <3>1. adder'.chunked = Append(<<>>, cut) BY <1>4, <1>8, <2>1
    <3>2. <<>> \in Seq(PendingType) /\ Len(<<>>) = 0 BY EmptySeq
    <3>3. /\ adder'.chunked \in Seq(PendingType) /\ Len(adder'.chunked) = 1
          /\ adder'.chunked[1] = cut
      BY <1>5, <3>1, <3>2, AppendElements
    <3>4. DOMAIN adder'.chunked = 1 .. 1 BY <3>3, LenProperties
    <3>5. QED BY <2>1, <3>3, <3>4
  <2>2. CASE class # "ChunkedReq"
    <3>1. adder'.chunked = <<>> BY <1>4, <1>8, <2>2
    <3>2. QED BY <3>1
  <2>3. QED BY <2>1, <2>2
<1>11. QED
  <2>1. Made(q, id, slot, handle, cached, row, chunk, class)
    BY <1>4, <1>6, <1>10 DEF Made, new, pool, cut
  <2>2. QED BY <1>2, <1>3, <1>6, <1>7, <1>9, <2>1 DEF q, id, k

\* The new object's lengths, and the queue's.
LEMMA AddOneReqLengths ==
  ASSUME IInv, LInv, pc = "admit", HasCandidate, NEW n \in Nat, NEW slot, NEW handle,
         NEW cached \in Nat, cached < Len(Candidate.ids), NEW row,
         AddOneReq(Candidate, <<Candidate.uid, n>>, slot, handle, cached, row),
         Candidate.chunk # <<Candidate.uid, n>>,
         RowLengths', UNCHANGED <<pending, running, batch>>
  PROVE  LInv'
<1> DEFINE k   == Len(adder.reqs) + 1
           q   == Candidate
           id  == <<q.uid, n>>
           cut == [q EXCEPT !.chunk = id]
<1>1. /\ TypeOK /\ QueuePlaced /\ ObjectsPlaced /\ BatchesPlaced
      /\ QueueLengths /\ ObjectLengths
  BY DEF IInv, Placement, LInv
<1>2. /\ k \in DOMAIN pending /\ q = pending[k] /\ q \in PendingType /\ id \in Objs
      /\ q.uid \in QueuedUids /\ ToSet(adder'.reqs) = ToSet(adder.reqs) \cup {id}
      /\ batch.reqs = <<>>
  BY <1>1, AddedObject DEF Candidate, BatchesPlaced
<1>3. Len(q.ids) \in Nat /\ q.out \in Nat /\ RoomFor(q)
  BY <1>1, <1>2, LenProperties DEF PendingType, QueueLengths
<1>4. PICK chunk \in Nat \ {0}, class \in {"Req", "ChunkedReq"} :
        Made(q, id, slot, handle, cached, row, chunk, class)
  BY AddedObject
<1>5. cut.ids = q.ids /\ cut.out = q.out /\ cut.chunk = id
  BY <1>2 DEF PendingType
<1>7. /\ cached + chunk <= Len(q.ids) /\ (class = "ChunkedReq" => cached + chunk < Len(q.ids))
      /\ DOMAIN reqs' = DOMAIN reqs \cup {id}
      /\ \A o \in DOMAIN reqs : o # id => reqs'[o] = reqs[o]
  BY <1>4 DEF Made
<1>11. ToSet(adder'.reqs) = ToSet(adder.reqs) \cup {id} BY <1>2
<1>12. \A i \in DOMAIN adder'.chunked : adder'.chunked[i] = cut /\ class = "ChunkedReq"
  BY <1>4 DEF Made
<1> HIDE DEF q, cut, k, id
<1>9. /\ reqs'[id].cached = cached /\ reqs'[id].device = cached + chunk
      /\ reqs'[id].max = cached + chunk + q.out
  BY <1>4 DEF Made
<1>10. /\ 0 <= cached /\ cached < cached + chunk /\ cached + chunk <= cached + chunk + q.out
       /\ cached + chunk < MaxSeqLen /\ cached + chunk + q.out <= MaxSeqLen
       /\ cached + chunk + q.out \in Int
       /\ cached + chunk <= cached + chunk + q.out + 1
  BY <1>3, <1>7, SizesAssumption DEF RoomFor
<1>13. QueueLengths'
  <2>1. ASSUME NEW i \in DOMAIN pending
        PROVE  /\ RoomFor(pending[i])
               /\ pending[i].chunk # None => reqs'[pending[i].chunk].cached < Len(pending[i].ids)
    <3>1. RoomFor(pending[i]) BY <1>1 DEF QueueLengths
    <3>2. CASE pending[i].chunk = None BY <3>1, <3>2
    <3>3. CASE pending[i].chunk # None
      <4>1. /\ pending[i].chunk \in DOMAIN reqs /\ pending[i].chunk[1] = pending[i].uid
            /\ \A j \in DOMAIN pending : pending[j].uid = pending[i].uid => j = i
        BY <1>1, <3>3 DEF QueuePlaced
      <4>2. pending[i].chunk # id
        <5>1. CASE i = k BY <1>2, <5>1 DEF id, q
        <5>2. CASE i # k BY <1>2, <4>1, <5>2 DEF id
        <5>3. QED BY <5>1, <5>2
      <4>3. reqs[pending[i].chunk].cached < Len(pending[i].ids)
        BY <1>1, <1>2, <3>3, EmptyFacts DEF QueueLengths
      <4>4. QED BY <1>7, <3>1, <4>1, <4>2, <4>3
    <3>4. QED BY <3>2, <3>3
  <2>2. ASSUME NEW i \in DOMAIN adder'.chunked
        PROVE  /\ RoomFor(adder'.chunked[i])
               /\ reqs'[adder'.chunked[i].chunk].device < Len(adder'.chunked[i].ids)
    <3>1. adder'.chunked[i] = cut /\ class = "ChunkedReq" BY <1>12
    <3>2. RoomFor(cut) BY <1>3, <1>5 DEF RoomFor
    <3>3. QED BY <1>5, <1>7, <1>9, <3>1, <3>2
  <2>3. ToSet(batch'.reqs) = {} BY <1>2, EmptyFacts
  <2>4. QED BY <2>1, <2>2, <2>3 DEF QueueLengths, RoomFor
<1>14. ObjectLengths'
  <2>1. ASSUME NEW o \in DOMAIN reqs'
        PROVE  LET r == reqs'[o]
               IN  /\ r.max \in Int /\ 0 <= r.cached /\ r.cached < r.device
                   /\ r.device <= r.max + 1 /\ r.max <= MaxSeqLen
    <3>1. CASE o = id BY <1>9, <1>10, <3>1
    <3>2. CASE o # id BY <1>1, <1>7, <3>2 DEF ObjectLengths
    <3>3. QED BY <3>1, <3>2
  <2>2. ASSUME NEW o \in ToSet(batch'.reqs) \cup ToSet(adder'.reqs)
        PROVE  reqs'[o].device <= reqs'[o].max /\ reqs'[o].device < MaxSeqLen
    <3>1. CASE o = id BY <1>9, <1>10, <3>1
    <3>2. CASE o # id
      <4>1. o \in ToSet(adder.reqs) BY <1>2, <1>11, <2>2, <3>2, EmptyFacts
      <4>2. o \in DOMAIN reqs BY <4>1, ListedObjects
      <4>3. QED BY <1>1, <1>7, <3>2, <4>1, <4>2 DEF ObjectLengths
    <3>3. QED BY <3>1, <3>2
  <2>3. ASSUME NEW o \in running' PROVE reqs'[o].device < reqs'[o].max
    <3>1. o # id BY <1>1, <1>2, <2>3 DEF ObjectsPlaced, id
    <3>2. QED BY <1>1, <1>7, <2>3, <3>1 DEF ObjectLengths, TypeOK
  <2>4. QED BY <2>1, <2>2, <2>3 DEF ObjectLengths
<1>15. QED BY <1>13, <1>14 DEF LInv

\* The next chunk goes on where the device is, a new request where the cache ends.
LEMMA AdmitLengths ==
  ASSUME IInv, LInv, AdmitChunk \/ AdmitNew
  PROVE  LInv'
<1> DEFINE q == Candidate
<1>1. /\ TypeOK /\ QueuePlaced /\ BatchesPlaced /\ QueueLengths /\ ObjectLengths /\ RowLengths
  BY DEF IInv, Placement, LInv
<1>2. /\ pc = "admit" /\ HasCandidate /\ UNCHANGED <<pending, running, batch>>
      /\ batch.reqs = <<>>
  BY <1>1 DEF AdmitChunk, AdmitNew, BatchesPlaced
<1>3. q \in PendingType /\ \E i \in DOMAIN pending : q = pending[i]
  <2>1. pending \in Seq(PendingType) /\ adder.reqs \in Seq(Objs) BY <1>1 DEF TypeOK
  <2>2. Len(adder.reqs) + 1 \in 1 .. Len(pending) BY <1>2, <2>1, LenProperties DEF HasCandidate
  <2>3. QED BY <2>1, <2>2, ElementOfSeq, LenProperties DEF Candidate
<1>4. CASE AdmitChunk
  <2> DEFINE r == reqs[q.chunk]
  <2>1. /\ q.chunk # None /\ UNCHANGED page_table
        /\ AddOneReq(q, <<q.uid, q.chunk[2] + 1>>, r.slot, r.handle, r.cached,
                     SubSeq(token_pool[r.slot], 1, r.cached))
    BY <1>4 DEF AdmitChunk
  <2>2. q.chunk \in Objs /\ q.chunk \in DOMAIN reqs
    BY <1>1, <1>3, <2>1 DEF QueuePlaced, TypeOK
  <2>3. q.chunk[2] + 1 \in Nat /\ q.chunk # <<q.uid, q.chunk[2] + 1>> BY <2>2 DEF Objs
  <2>4. r.cached \in Nat BY <1>1, <2>2 DEF TypeOK, ObjectLengths
  <2>5. r.cached < Len(q.ids) BY <1>1, <1>2, <1>3, <2>1, EmptyFacts DEF QueueLengths
  <2>6. RowLengths' BY <1>1, <2>1 DEF RowLengths, IsRow, RowWidth, Slots
  <2>7. QED BY <1>2, <2>1, <2>3, <2>4, <2>5, <2>6, AddOneReqLengths
<1>5. CASE AdmitNew
  <2> DEFINE match  == MatchReq(cm, q.ids)
             cached == Len(match.node) * PageSize
             slot   == free_table[Len(free_table)]
             row    == [i \in 1 .. Len(match.node) |-> match.tree.page[SubSeq(match.node, 1, i)]]
  <2>1. /\ q.chunk = None /\ free_table # <<>>
        /\ page_table' = [page_table EXCEPT ![slot] = row]
        /\ AddOneReq(q, <<q.uid, 0>>, slot, match.node, cached, SubSeq(q.ids, 1, cached))
    BY <1>5 DEF AdmitNew
  <2>2. slot \in Slots
    <3>1. free_table \in Seq(Slots) BY <1>1 DEF TypeOK
    <3>2. Len(free_table) \in Nat \ {0} BY <2>1, <3>1, EmptySeq
    <3>3. QED BY <3>1, <3>2, ElementOfSeq
  <2>3. q.ids \in Seq(Tokens) \ {<<>>} /\ q.uid \in Uids BY <1>3 DEF PendingType
  <2>4. cached \in Nat /\ cached < Len(q.ids) BY <2>3, MatchLength
  <2>5. DOMAIN row = 1 .. Len(match.node) /\ row = [i \in DOMAIN row |-> row[i]] OBVIOUS
  <2>6. Len(q.ids) < MaxSeqLen BY <1>1, <1>3 DEF QueueLengths, RoomFor
  <2>7. q.chunk # <<q.uid, 0>> /\ 0 \in Nat
    <3>1. <<q.uid, 0>> \in Uids \X Nat BY <2>3
    <3>2. QED BY <2>1, <3>1, NoneAssumption
  <2> HIDE DEF q, slot, row
  <2>8. IsRow(row) BY <2>3, <2>5, <2>6, MatchedRow
  <2> HIDE DEF match
  <2>9. RowLengths' BY <1>1, <2>1, <2>2, <2>8, RowWritten
  <2> HIDE DEF cached
  <2>10. QED BY <1>2, <2>1, <2>4, <2>7, <2>9, AddOneReqLengths DEF q
<1>6. QED BY <1>4, <1>5

-----------------------------------------------------------------------------
(* Forward.                                                                *)

\* A row goes on with new pages.
LEMMA LongerRow ==
  ASSUME NEW row, NEW n \in Nat, NEW m \in Nat, n + m <= RowWidth,
         NEW more, DOMAIN more = 1 .. m, more = [i \in DOMAIN more |-> more[i]]
  PROVE  IsRow(SubSeq(row, 1, n) \o more)
<1> DEFINE S   == {row[i] : i \in 1 .. n} \cup ToSet(more)
           old == SubSeq(row, 1, n)
           new == old \o more
<1>1. old \in Seq(S) /\ Len(old) = n
  <2>1. \A i \in 1 .. n : row[i] \in S OBVIOUS
  <2>2. 1 \in Int /\ n \in Int OBVIOUS
  <2> HIDE DEF S
  <2>3. old \in Seq(S) /\ Len(old) = IF 1 <= n THEN n - 1 + 1 ELSE 0
    BY <2>1, <2>2, SubSeqProperties
  <2>4. (IF 1 <= n THEN n - 1 + 1 ELSE 0) = n OBVIOUS
  <2>5. QED BY <2>3, <2>4
<1>2. more \in Seq(S) /\ Len(more) = m
  <2>1. more \in [1 .. m -> S] BY ToSetElement
  <2> HIDE DEF S
  <2>2. QED BY <2>1
<1> HIDE DEF S, old
<1>3. new \in Seq(S) /\ Len(new) = n + m BY <1>1, <1>2, ConcatProperties
<1> HIDE DEF new
<1>4. DOMAIN new = 1 .. n + m /\ new = [i \in DOMAIN new |-> new[i]] /\ n + m \in Nat
  BY <1>3, LenProperties
<1>5. new \in Seq(ToSet(new)) BY <1>4, RowOf
<1>6. QED BY <1>3, <1>5 DEF IsRow, new, old

\* The rows of a batch hold the pages of what is computed so far and of what will be.
LEMMA WrittenRows ==
  ASSUME RowLengths, NEW fields, NEW pages,
         \A i \in DOMAIN fields :
           /\ fields[i].cached \in Nat /\ fields[i].device \in Nat
           /\ fields[i].cached <= fields[i].device /\ fields[i].device <= MaxSeqLen,
         page_table' = WriteRows(page_table, fields, pages)
  PROVE  RowLengths'
<1>1. DOMAIN page_table' = Slots BY DEF WriteRows, RowLengths
<1>2. ASSUME NEW s \in Slots PROVE IsRow(page_table'[s])
  <2> DEFINE i   == CHOOSE i \in DOMAIN fields : fields[i].slot = s
             old == CeilDiv(fields[i].cached, PageSize)
             all == CeilDiv(fields[i].device, PageSize)
  <2>1. CASE \E j \in DOMAIN fields : fields[j].slot = s
    <3>1. PICK more :
            /\ DOMAIN more = 1 .. NewPages(fields[i]) /\ more = [k \in DOMAIN more |-> more[k]]
            /\ page_table'[s] = SubSeq(page_table[s], 1, old) \o more
      BY <2>1 DEF WriteRows, RowLengths
    <3>2. i \in DOMAIN fields BY <2>1
    <3>3. NewPages(fields[i]) = all - old BY DEF NewPages
    <3> HIDE DEF i
    <3>4. MaxSeqLen \in Nat BY SizesAssumption
    <3>5. old \in Nat /\ all \in Nat /\ old <= all BY <3>2, CeilDivFacts
    <3>6. all <= RowWidth /\ RowWidth \in Nat BY <3>2, <3>4, CeilDivFacts DEF RowWidth
    <3> HIDE DEF old, all
    <3>7. all - old \in Nat /\ old + (all - old) <= RowWidth BY <3>5, <3>6
    <3>8. QED BY <3>1, <3>3, <3>5, <3>7, LongerRow
  <2>2. CASE ~\E j \in DOMAIN fields : fields[j].slot = s
    <3>1. page_table'[s] = page_table[s] BY <2>2 DEF WriteRows, RowLengths
    <3>2. QED BY <3>1 DEF RowLengths
  <2>3. QED BY <2>1, <2>2
<1>3. QED BY <1>1, <1>2 DEF RowLengths, IsRow, RowWidth, Slots

\* The batch goes to the device: what was still to compute has been.
LEMMA ForwardLengths ==
  ASSUME IInv, LInv, Forward
  PROVE  LInv'
<1>1. /\ TypeOK /\ QueuePlaced /\ AdderPlaced /\ ObjectsPlaced /\ BatchesPlaced
      /\ QueueLengths /\ ObjectLengths /\ RowLengths
  BY DEF IInv, Placement, LInv
<1>2. /\ pc = "forward" /\ UNCHANGED <<pending, adder>> /\ batch'.reqs = <<>>
      /\ reqs' = [o \in DOMAIN reqs |->
                    IF o \in ToSet(batch.reqs) THEN Completed(reqs[o]) ELSE reqs[o]]
      /\ running' = {o \in running \cup ToSet(batch.reqs) : CanDecode(reqs'[o])}
      /\ \E pages : page_table' = WriteRows(page_table, Fields(batch.reqs), pages)
  BY DEF Forward, Launch, NoBatch
<1>3. /\ adder.reqs = <<>> /\ adder.chunked = <<>> /\ ToSet(batch.reqs) \subseteq DOMAIN reqs
  BY <1>1, <1>2 DEF AdderPlaced, BatchesPlaced
<1>4. \A o \in DOMAIN reqs :
        /\ o \in ToSet(batch.reqs) =>
             /\ reqs'[o].cached = reqs[o].device /\ reqs'[o].device = reqs[o].device + 1
             /\ reqs'[o].max = reqs[o].max
        /\ o \notin ToSet(batch.reqs) => reqs'[o] = reqs[o]
  <2>1. ASSUME NEW r, IsReq(r)
        PROVE  /\ Completed(r).cached = r.device /\ Completed(r).device = r.device + 1
               /\ Completed(r).max = r.max
    BY <2>1 DEF IsReq, ReqFields, Completed
  <2>2. QED BY <1>1, <1>2, <2>1 DEF ObjectsPlaced
<1>5. QueueLengths'
  <2>1. ASSUME NEW i \in DOMAIN pending
        PROVE  /\ RoomFor(pending[i])
               /\ pending[i].chunk # None => reqs'[pending[i].chunk].cached < Len(pending[i].ids)
    <3>1. RoomFor(pending[i]) BY <1>1 DEF QueueLengths
    <3>2. CASE pending[i].chunk = None BY <3>1, <3>2
    <3>3. CASE pending[i].chunk # None
      <4>1. pending[i].chunk \in DOMAIN reqs BY <1>1, <3>3 DEF QueuePlaced
      <4>2. CASE pending[i].chunk \in ToSet(batch.reqs)
        BY <1>1, <1>4, <3>1, <3>3, <4>1, <4>2 DEF QueueLengths
      <4>3. CASE pending[i].chunk \notin ToSet(batch.reqs)
        BY <1>1, <1>4, <3>1, <3>3, <4>1, <4>3 DEF QueueLengths
      <4>4. QED BY <4>2, <4>3
    <3>4. QED BY <3>2, <3>3
  <2>2. ToSet(batch'.reqs) = {} /\ DOMAIN adder'.chunked = {} BY <1>2, <1>3, EmptyFacts
  <2>3. QED BY <1>2, <2>1, <2>2 DEF QueueLengths, RoomFor
<1>6. ObjectLengths'
  <2>1. ASSUME NEW o \in DOMAIN reqs
        PROVE  /\ reqs'[o].max \in Int /\ 0 <= reqs'[o].cached /\ reqs'[o].cached < reqs'[o].device
               /\ reqs'[o].device <= reqs'[o].max + 1 /\ reqs'[o].max <= MaxSeqLen
    <3>1. /\ reqs[o].max \in Int /\ 0 <= reqs[o].cached /\ reqs[o].cached < reqs[o].device
          /\ reqs[o].device <= reqs[o].max + 1 /\ reqs[o].max <= MaxSeqLen
          /\ reqs[o].cached \in Int /\ reqs[o].device \in Int
      BY <1>1 DEF ObjectLengths, TypeOK
    <3>2. CASE o \in ToSet(batch.reqs)
      <4>1. reqs[o].device <= reqs[o].max BY <1>1, <3>2 DEF ObjectLengths
      <4>2. QED BY <1>4, <3>1, <3>2, <4>1
    <3>3. CASE o \notin ToSet(batch.reqs) BY <1>4, <3>1, <3>3
    <3>4. QED BY <3>2, <3>3
  <2>2. ToSet(batch'.reqs) = {} /\ ToSet(adder'.reqs) = {} BY <1>2, <1>3, EmptyFacts
  <2>3. ASSUME NEW o \in running' PROVE reqs'[o].device < reqs'[o].max
    <3>1. o \in DOMAIN reqs /\ CanDecode(reqs'[o]) BY <1>1, <1>2, <1>3, <2>3 DEF TypeOK
    <3>2. reqs'[o].max - reqs'[o].device > 0 BY <3>1 DEF CanDecode, Remaining
    <3>3. reqs[o].max \in Int /\ reqs[o].device \in Int
      BY <1>1, <3>1 DEF TypeOK, ObjectLengths
    <3>4. reqs'[o].max = reqs[o].max
          /\ (reqs'[o].device = reqs[o].device + 1 \/ reqs'[o].device = reqs[o].device)
      BY <1>4, <3>1
    <3>5. reqs'[o].max \in Int /\ reqs'[o].device \in Int BY <3>3, <3>4
    <3>6. QED BY <3>2, <3>5
  <2>4. DOMAIN reqs' = DOMAIN reqs BY <1>2
  <2>5. QED BY <2>1, <2>2, <2>3, <2>4 DEF ObjectLengths
<1>7. RowLengths'
  <2> DEFINE fields == Fields(batch.reqs)
  <2>1. ASSUME NEW i \in DOMAIN fields
        PROVE  /\ fields[i].cached \in Nat /\ fields[i].device \in Nat
               /\ fields[i].cached <= fields[i].device /\ fields[i].device <= MaxSeqLen
    <3>1. PICK o \in ToSet(batch.reqs) : fields[i] = reqs[o] BY ToSetElement DEF Fields
    <3>2. /\ 0 <= reqs[o].cached /\ reqs[o].cached < reqs[o].device /\ reqs[o].device < MaxSeqLen
          /\ reqs[o].cached \in Int /\ reqs[o].device \in Int
      BY <1>1, <1>3, <3>1 DEF ObjectLengths, TypeOK
    <3> HIDE DEF fields
    <3>3. QED BY <3>1, <3>2, SizesAssumption
  <2>2. PICK pages : page_table' = WriteRows(page_table, fields, pages) BY <1>2
  <2> HIDE DEF fields
  <2>3. QED BY <1>1, <2>1, <2>2, WrittenRows
<1>8. QED BY <1>5, <1>6, <1>7 DEF LInv

\* Nothing goes to the device.
LEMMA NoForwardLengths ==
  ASSUME IInv, IInv', LInv, ForwardOutOfPages \/ NoForward
  PROVE  LInv'
<1>1. /\ UNCHANGED <<pending, adder, running, reqs, page_table>> /\ batch'.reqs = batch.reqs
  BY DEF ForwardOutOfPages, NoForward, Launch, NoBatch, memory
<1>2. RowLengths' BY <1>1 DEF LInv, RowLengths, IsRow, RowWidth, Slots
<1>3. QED BY <1>1, <1>2, LengthsKept

-----------------------------------------------------------------------------
(* Process.                                                                *)

\* A row is emptied, exchanged for the cached one or left alone.
LEMMA ProcessLengths ==
  ASSUME IInv, IInv', LInv, ProcessTerminal \/ ProcessChunk \/ ProcessToken
  PROVE  LInv'
<1> DEFINE c == Current
<1>1. TypeOK /\ ObjectsPlaced /\ InflightExact /\ RowLengths
  BY DEF IInv, Placement, LInv
<1>2. /\ pc = "process" /\ proc.reqs # <<>> /\ UNCHANGED <<pending, adder, batch>>
      /\ running' \subseteq running
  BY DEF ProcessTerminal, ProcessChunk, ProcessToken, TakeResult
<1>3. c \in DOMAIN reqs /\ reqs[c].slot \in Slots /\ IsReq(reqs[c])
  <2>1. proc.reqs \in Seq(Objs) BY <1>1 DEF TypeOK
  <2>2. c \in ToSet(proc.reqs) BY <1>2, <2>1, HeadTail DEF Current
  <2>3. c \in DOMAIN reqs BY <1>1, <2>2 DEF InflightExact, TypeOK
  <2>4. QED BY <1>1, <2>3 DEF TypeOK, ObjectsPlaced
<1>4. RowLengths'
  <2>1. \/ page_table' = page_table
        \/ \E s \in Slots : page_table' = [page_table EXCEPT ![s] = <<>>]
        \/ \E s \in Slots : \E tree, node, first, found :
             page_table' = [page_table EXCEPT ![s] = Canonical(tree, page_table[s], node, first, found)]
    <3>1. CASE ProcessTerminal
      BY <1>3, <3>1 DEF ProcessTerminal, ReleaseIfLanded, FreeReqResources
    <3>2. CASE ProcessChunk BY <3>2 DEF ProcessChunk, memory
    <3>3. CASE ProcessToken
      <4> DEFINE r == [reqs[c] EXCEPT !.host = Append(@, Head(proc.tokens))]
      <4>1. r.slot = reqs[c].slot BY <1>3 DEF IsReq, ReqFields
      <4>2. \/ ReleaseIfLanded(terminal \cup {c}, r)
            \/ page_table' = [page_table EXCEPT ![r.slot] = KeepCached(cm, r, page_table[r.slot]).row]
            \/ page_table' = page_table
        BY <3>3 DEF ProcessToken
      <4> HIDE DEF r
      <4>3. CASE ReleaseIfLanded(terminal \cup {c}, r)
        BY <1>3, <4>1, <4>3 DEF ReleaseIfLanded, FreeReqResources
      <4>4. CASE page_table' = [page_table EXCEPT ![r.slot] = KeepCached(cm, r, page_table[r.slot]).row]
        BY <1>3, <4>1, <4>4 DEF KeepCached
      <4>5. QED BY <4>2, <4>3, <4>4
    <3>4. QED BY <3>1, <3>2, <3>3
  <2>2. CASE page_table' = page_table
    BY <1>1, <2>2 DEF RowLengths, IsRow, RowWidth, Slots
  <2>3. CASE \E s \in Slots : page_table' = [page_table EXCEPT ![s] = <<>>]
    BY <1>1, <2>3, EmptyRow, RowWritten
  <2>4. CASE \E s \in Slots : \E tree, node, first, found :
               page_table' = [page_table EXCEPT ![s] = Canonical(tree, page_table[s], node, first, found)]
    <3>0. PICK s \in Slots : \E tree, node, first, found :
            page_table' = [page_table EXCEPT ![s] = Canonical(tree, page_table[s], node, first, found)]
      BY <2>4
    <3>1. PICK tree, node, first, found :
            page_table' = [page_table EXCEPT ![s] = Canonical(tree, page_table[s], node, first, found)]
      BY <3>0
    <3>2. IsRow(page_table[s]) BY <1>1 DEF RowLengths
    <3>3. IsRow(Canonical(tree, page_table[s], node, first, found)) BY <3>2, CanonicalRow
    <3>4. QED BY <1>1, <3>1, <3>3, RowWritten
  <2>5. QED BY <2>1, <2>2, <2>3, <2>4
<1>5. \A o \in DOMAIN reqs' :
        /\ o \in DOMAIN reqs
        /\ reqs'[o].cached = reqs[o].cached /\ reqs'[o].device = reqs[o].device
        /\ reqs'[o].max = reqs[o].max
  <2>1. CASE ProcessTerminal \/ ProcessChunk
    BY <2>1 DEF ProcessTerminal, ProcessChunk, memory
  <2>2. CASE ProcessToken
    <3> DEFINE r == [reqs[c] EXCEPT !.host = Append(@, Head(proc.tokens))]
               h == [r EXCEPT !.handle = KeepCached(cm, r, page_table[r.slot]).handle]
    <3>1. /\ r.cached = reqs[c].cached /\ r.device = reqs[c].device /\ r.max = reqs[c].max
          /\ h.cached = reqs[c].cached /\ h.device = reqs[c].device /\ h.max = reqs[c].max
      BY <1>3 DEF IsReq, ReqFields
    <3>2. reqs' = [reqs EXCEPT ![c] = r] \/ reqs' = [reqs EXCEPT ![c] = h]
      BY <2>2 DEF ProcessToken
    <3> HIDE DEF r, h
    <3>3. QED BY <1>3, <3>1, <3>2
  <2>3. QED BY <2>1, <2>2
<1>6. QED BY <1>2, <1>4, <1>5, LengthsKept

\* The iteration ends: only collected objects go.
LEMMA EndProcessLengths ==
  ASSUME IInv, IInv', LInv, EndProcess
  PROVE  LInv'
<1>1. /\ UNCHANGED <<pending, adder, running, batch, page_table>>
      /\ reqs' = Restrict(reqs, DOMAIN reqs \cap Referenced)
  BY DEF EndProcess
<1>2. \A o \in DOMAIN reqs' : o \in DOMAIN reqs /\ reqs'[o] = reqs[o] BY <1>1 DEF Restrict
<1>3. RowLengths' BY <1>1 DEF LInv, RowLengths, IsRow, RowWidth, Slots
<1>4. QED BY <1>1, <1>2, <1>3, LengthsKept

-----------------------------------------------------------------------------
(* The theorem of lengths.                                                 *)

\* Every step keeps the lengths.
LEMMA NextLInv == IInv /\ LInv /\ [Next]_vars => LInv'
<1> SUFFICES ASSUME IInv, LInv, [Next]_vars PROVE LInv' OBVIOUS
<1>1. IInv' BY NextIInv
<1>2. CASE UNCHANGED vars
  <2>1. UNCHANGED <<pending, adder, running, batch, reqs, page_table>>
    BY <1>2 DEF vars, control, memory
  <2>2. RowLengths' BY <2>1 DEF LInv, RowLengths, IsRow, RowWidth, Slots
  <2>3. QED BY <1>1, <2>1, <2>2, LengthsKept
<1>3. CASE Receive BY <1>1, <1>3, ReceiveUserLengths, ReceiveAbortLengths DEF Receive
<1>4. CASE SelectDecode \/ SelectNothing \/ StartPrefill
  BY <1>4, SelectionLengths, StartPrefillLengths
<1>5. CASE AdmitChunk \/ AdmitNew \/ StopAdmission BY <1>5, AdmitLengths, StopAdmissionLengths
<1>6. CASE Forward \/ ForwardOutOfPages \/ NoForward
  BY <1>1, <1>6, ForwardLengths, NoForwardLengths
<1>7. CASE ProcessTerminal \/ ProcessChunk \/ ProcessToken \/ EndProcess
  BY <1>1, <1>7, ProcessLengths, EndProcessLengths
<1>8. QED BY <1>2, <1>3, <1>4, <1>5, <1>6, <1>7 DEF Next, Step

\* A request and its row fit in the model's length (_process_one_msg's max_output_len),
\* however the prompt is cut, cached, decoded ahead of the host or discarded.
THEOREM LengthsCorrect == Spec => []LengthsInRange
<1>1. IInv /\ LInv => LengthsInRange
  <2> SUFFICES ASSUME IInv, LInv PROVE LengthsInRange OBVIOUS
  <2>1. TypeOK /\ ObjectLengths /\ RowLengths BY DEF IInv, LInv
  <2>2. \A o \in DOMAIN reqs : Len(page_table[reqs[o].slot]) <= CeilDiv(MaxSeqLen, PageSize)
    BY <2>1 DEF TypeOK, RowLengths, IsRow, RowWidth
  <2>3. QED BY <2>1, <2>2 DEF ObjectLengths, LengthsInRange
<1>2. Spec => []LInv BY InitLInv, NextLInv, SchedulerInvariant, PTL DEF Spec
<1>3. QED BY <1>1, <1>2, SchedulerInvariant, PTL

-----------------------------------------------------------------------------
(* Tokens.                                                                 *)

Texts == Seq(Tokens \cup {None})

\* The objects that are made and not yet on the device.
Handed == ToSet(adder.reqs) \cup ToSet(batch.reqs)

\* The host's tokens of a request are those of its row.  The row of a request has all
\* its tokens, the one drawn last included, up to the last that is kept; the row of a
\* chunk ends where the chunk does.
Stored(o) ==
  LET r    == reqs[o]
      pool == token_pool[r.slot]
  IN  /\ r.host \in Texts /\ pool \in Texts
      /\ \A i \in 1 .. Len(r.host) : i <= Len(pool) => pool[i] = r.host[i]
      /\ r.class = "Req" =>
           /\ r.device = Len(r.host) + Flying(o)
           /\ Len(pool) = IF r.device <= r.max THEN r.device ELSE r.max
      /\ r.class = "ChunkedReq" =>
           /\ Len(pool) = Len(r.host)
           /\ Len(pool) = IF o \in Handed THEN r.device ELSE r.cached

\* A result that is still to be read is in the row already, behind what the host has
\* and what it will have from the batches before.
Landing(o, at, token) ==
  LET r    == reqs[o]
      pool == token_pool[r.slot]
  IN  o \in Newest /\ r.class = "Req" /\ at <= Len(pool) => pool[at] = token

ResultsStored ==
  /\ \A i \in DOMAIN last.reqs :
       LET o == last.reqs[i] IN Landing(o, Len(reqs[o].host) + Flying(o), last.tokens[i])
  /\ \A i \in DOMAIN proc.reqs :
       LET o == proc.reqs[i] IN Landing(o, Len(reqs[o].host) + 1, proc.tokens[i])

\* The chunk of a queued prompt is the prompt's beginning.
Cut(q) ==
  LET r == reqs[q.chunk]
  IN  /\ r.class = "ChunkedReq" /\ Len(r.host) <= Len(q.ids)
      /\ \A i \in 1 .. Len(r.host) : r.host[i] = q.ids[i]

QueuePrefixes ==
  /\ \A i \in DOMAIN pending : pending[i].chunk # None => Cut(pending[i])
  /\ \A k \in DOMAIN adder.chunked : Cut(adder.chunked[k])

\* Whoever waits for the device waits for one batch: the token that was speculated on
\* is the last to be dropped.
TerminalOnce == \A o \in terminal : inflight[o] = 1

HInv ==
  /\ DOMAIN token_pool = Slots /\ \A o \in Newest : Stored(o)
  /\ ResultsStored /\ QueuePrefixes /\ TerminalOnce

-----------------------------------------------------------------------------
(* Who is the newest of its uid.                                           *)

\* The newer objects are the newest ones, and so is every complete request.
LEMMA NewerNewest ==
  IInv /\ XInv =>
    /\ Newer \subseteq Newest
    /\ \A o \in Holders : reqs[o].class # "ChunkedReq" => o \in Newest
<1> SUFFICES ASSUME IInv, XInv
             PROVE  /\ Newer \subseteq Newest
                    /\ \A o \in Holders : reqs[o].class # "ChunkedReq" => o \in Newest
  OBVIOUS
<1>1. Holders = Newer \cup Older BY HoldersSplit
<1>2. \A o \in Holders : o[2] \in Nat BY HoldersTyped DEF Objs
<1>3. TipsApart BY DEF XInv
<1>4. ASSUME NEW o \in Newer PROVE o \in Newest
  <2>1. ASSUME NEW p \in Holders, p[1] = o[1] PROVE p[2] <= o[2]
    <3>1. p = o \/ p[2] < o[2] BY <1>1, <1>3, <2>1 DEF TipsApart, Single
    <3>2. p[2] \in Nat /\ o[2] \in Nat BY <1>1, <1>2
    <3>3. QED BY <3>1, <3>2
  <2>2. QED BY <1>1, <2>1 DEF Newest
<1>5. ASSUME NEW o \in Older, reqs[o].class # "ChunkedReq" PROVE o \in Newest
  <2>1. \A p \in Holders : p[1] = o[1] => p = o BY <1>1, <1>3, <1>5 DEF TipsApart, Single
  <2>2. o \in Holders /\ o[2] \in Nat BY <1>1, <1>2
  <2>3. \A p \in Holders : p[1] = o[1] => p[2] <= o[2] BY <2>1, <2>2
  <2>4. QED BY <2>2, <2>3 DEF Newest
<1>6. QED BY <1>1, <1>4, <1>5

\* The newest objects have slots of their own.
LEMMA SlotsApart ==
  IInv /\ XInv =>
    \A o, p \in Newest :
      /\ o \in DOMAIN reqs /\ reqs[o].slot \in Slots
      /\ reqs[o].slot = reqs[p].slot => o = p
<1> SUFFICES ASSUME IInv, XInv, NEW o \in Newest, NEW p \in Newest
             PROVE  /\ o \in DOMAIN reqs /\ reqs[o].slot \in Slots
                    /\ reqs[o].slot = reqs[p].slot => o = p
  OBVIOUS
<1>1. o \in Holders /\ p \in Holders BY DEF Newest
<1>2. /\ o \in DOMAIN reqs /\ reqs[o].slot \in Slots /\ o \in Uids \X Nat /\ p \in Uids \X Nat
  BY <1>1, HoldersTyped DEF Objs
<1>3. ASSUME reqs[o].slot = reqs[p].slot PROVE o = p
  <2>1. o[1] = p[1] BY <1>1, <1>3 DEF XInv, SlotsExclusive
  <2>2. o[2] <= p[2] /\ p[2] <= o[2] BY <1>1, <2>1 DEF Newest
  <2>3. o[2] \in Nat /\ p[2] \in Nat BY <1>2
  <2>4. o[2] = p[2] BY <2>2, <2>3
  <2>5. QED BY <1>2, <2>1, <2>4
<1>4. QED BY <1>2, <1>3

\* At most two batches of an object are in flight.
LEMMA FlyingCounts ==
  TypeOK =>
    \A o : /\ Flying(o) \in Nat
           /\ o \in DOMAIN inflight => inflight[o] = Flying(o) /\ Flying(o) > 0
           /\ o \notin DOMAIN inflight => Flying(o) = 0
<1> SUFFICES ASSUME TypeOK, NEW o
             PROVE  /\ Flying(o) \in Nat
                    /\ o \in DOMAIN inflight => inflight[o] = Flying(o) /\ Flying(o) > 0
                    /\ o \notin DOMAIN inflight => Flying(o) = 0
  OBVIOUS
<1>1. CASE o \in DOMAIN inflight
  <2>1. inflight \in [DOMAIN inflight -> {1, 2}] BY DEF TypeOK
  <2>2. inflight[o] \in {1, 2} BY <1>1, <2>1
  <2>3. QED BY <1>1, <2>2 DEF Flying
<1>2. CASE o \notin DOMAIN inflight BY <1>2 DEF Flying
<1>3. QED BY <1>1, <1>2

-----------------------------------------------------------------------------
(* What a step has to leave alone.                                         *)

\* A request whose object and row stay, and whose batches are as many as before.
LEMMA StoredKept ==
  ASSUME NEW o, Stored(o), reqs'[o] = reqs[o], Flying(o)' = Flying(o),
         token_pool'[reqs[o].slot] = token_pool[reqs[o].slot],
         reqs[o].class = "ChunkedReq" => (o \in Handed' <=> o \in Handed)
  PROVE  Stored(o)'
BY DEF Stored, Texts

\* The chunks of the queue.
LEMMA CutsKept ==
  ASSUME IInv, IInv', QueuePrefixes,
         \A o \in Holders \cap DOMAIN reqs' :
           /\ reqs'[o].class = reqs[o].class
           /\ reqs[o].class = "ChunkedReq" => reqs'[o].host = reqs[o].host,
         \A j \in DOMAIN pending' :
           \/ pending'[j].chunk = None
           \/ \E i \in DOMAIN pending : pending'[j] = pending[i]
           \/ \E k \in DOMAIN adder.chunked : pending'[j] = adder.chunked[k],
         \A j \in DOMAIN adder'.chunked : \E k \in DOMAIN adder.chunked : adder'.chunked[j] = adder.chunked[k]
  PROVE  QueuePrefixes'
<1>1. /\ \A j \in DOMAIN pending : pending[j].chunk # None => pending[j].chunk \in Holders
      /\ \A k \in DOMAIN adder.chunked : adder.chunked[k].chunk \in Holders
  BY ListedObjects DEF Holders, Referenced
<1>2. /\ \A j \in DOMAIN pending' : pending'[j].chunk # None => pending'[j].chunk \in DOMAIN reqs'
      /\ \A k \in DOMAIN adder'.chunked : adder'.chunked[k].chunk \in DOMAIN reqs'
  <2>1. (/\ \A j \in DOMAIN pending : pending[j].chunk # None => pending[j].chunk \in DOMAIN reqs
         /\ \A k \in DOMAIN adder.chunked : adder.chunked[k].chunk \in ToSet(adder.reqs)
         /\ ToSet(adder.reqs) \subseteq DOMAIN reqs /\ ToSet(batch.reqs) \subseteq DOMAIN reqs
         /\ running \subseteq DOMAIN reqs)'
    BY ListedObjects, PTL
  <2>2. QED BY <2>1
<1>3. ASSUME NEW q, Cut(q), q.chunk \in Holders, q.chunk \in DOMAIN reqs'
      PROVE  Cut(q)'
  <2>1. reqs'[q.chunk].class = reqs[q.chunk].class /\ reqs'[q.chunk].host = reqs[q.chunk].host
    BY <1>3 DEF Cut
  <2>2. QED BY <1>3, <2>1 DEF Cut
<1>4. ASSUME NEW j \in DOMAIN pending', pending'[j].chunk # None PROVE Cut(pending[j])'
  <2>1. PICK q : q = pending'[j] OBVIOUS
  <2>2. Cut(q) /\ q.chunk \in Holders BY <1>1, <1>4, <2>1 DEF QueuePrefixes
  <2>3. q.chunk \in DOMAIN reqs' BY <1>2, <1>4, <2>1
  <2>4. Cut(q)' BY <1>3, <2>2, <2>3
  <2>5. QED BY <2>1, <2>4 DEF Cut
<1>5. ASSUME NEW k \in DOMAIN adder'.chunked PROVE Cut(adder.chunked[k])'
  <2>1. PICK q : q = adder'.chunked[k] OBVIOUS
  <2>2. Cut(q) /\ q.chunk \in Holders BY <1>1, <2>1 DEF QueuePrefixes
  <2>3. q.chunk \in DOMAIN reqs' BY <1>2, <2>1
  <2>4. Cut(q)' BY <1>3, <2>2, <2>3
  <2>5. QED BY <2>1, <2>4 DEF Cut
<1>6. QED BY <1>4, <1>5 DEF QueuePrefixes, Cut

\* The results to come.
LEMMA ResultsKept ==
  ASSUME ResultsStored, last'.reqs = last.reqs, proc'.reqs = proc.reqs,
         \A i \in DOMAIN last.reqs : last'.tokens[i] = last.tokens[i],
         \A i \in DOMAIN proc.reqs : proc'.tokens[i] = proc.tokens[i],
         \A o \in Newest' \cap (ToSet(last.reqs) \cup ToSet(proc.reqs)) :
           /\ o \in Newest /\ reqs'[o] = reqs[o] /\ Flying(o)' = Flying(o)
           /\ token_pool'[reqs[o].slot] = token_pool[reqs[o].slot]
  PROVE  ResultsStored'
<1>1. ASSUME NEW i \in DOMAIN last.reqs
      PROVE  LET o == last.reqs[i] IN Landing(o, Len(reqs[o].host) + Flying(o), last.tokens[i])'
  <2>1. PICK o : o = last.reqs[i] OBVIOUS
  <2>2. CASE o \in Newest'
    <3>1. o \in ToSet(last.reqs) BY <2>1, ToSetElement
    <3>2. Landing(o, Len(reqs[o].host) + Flying(o), last.tokens[i]) BY <2>1 DEF ResultsStored
    <3>3. QED BY <2>1, <2>2, <3>1, <3>2 DEF Landing
  <2>3. CASE o \notin Newest' BY <2>1, <2>3 DEF Landing
  <2>4. QED BY <2>2, <2>3
<1>2. ASSUME NEW i \in DOMAIN proc.reqs
      PROVE  LET o == proc.reqs[i] IN Landing(o, Len(reqs[o].host) + 1, proc.tokens[i])'
  <2>1. PICK o : o = proc.reqs[i] OBVIOUS
  <2>2. CASE o \in Newest'
    <3>1. o \in ToSet(proc.reqs) BY <2>1, ToSetElement
    <3>2. Landing(o, Len(reqs[o].host) + 1, proc.tokens[i]) BY <2>1 DEF ResultsStored
    <3>3. QED BY <2>1, <2>2, <3>1, <3>2 DEF Landing
  <2>3. CASE o \notin Newest' BY <2>1, <2>3 DEF Landing
  <2>4. QED BY <2>2, <2>3
<1>3. QED BY <1>1, <1>2 DEF ResultsStored

\* All of it.
LEMMA HostKept ==
  ASSUME IInv, IInv', HInv, Newest' \subseteq Newest, DOMAIN token_pool' = Slots,
         \A o \in Holders \cap DOMAIN reqs' : reqs'[o] = reqs[o],
         \A o \in Newest' :
           /\ Flying(o)' = Flying(o) /\ token_pool'[reqs[o].slot] = token_pool[reqs[o].slot]
           /\ reqs[o].class = "ChunkedReq" => (o \in Handed' <=> o \in Handed),
         last'.reqs = last.reqs, proc'.reqs = proc.reqs,
         \A i \in DOMAIN last.reqs : last'.tokens[i] = last.tokens[i],
         \A i \in DOMAIN proc.reqs : proc'.tokens[i] = proc.tokens[i],
         \A j \in DOMAIN pending' :
           \/ pending'[j].chunk = None
           \/ \E i \in DOMAIN pending : pending'[j] = pending[i]
           \/ \E k \in DOMAIN adder.chunked : pending'[j] = adder.chunked[k],
         \A j \in DOMAIN adder'.chunked : \E k \in DOMAIN adder.chunked : adder'.chunked[j] = adder.chunked[k],
         \A o \in terminal' : inflight'[o] = 1
  PROVE  HInv'
<1>1. \A o \in Newest' : o \in Newest /\ o \in Holders /\ o \in DOMAIN reqs'
  <2>1. (\A o \in Holders : o \in DOMAIN reqs /\ o \in Objs /\ reqs[o].slot \in Slots)'
    BY HoldersTyped, PTL
  <2>2. QED BY <2>1 DEF Newest
<1>2. \A o \in Newest' : reqs'[o] = reqs[o] BY <1>1
<1>3. (\A o \in Newest : Stored(o)) /\ ResultsStored /\ QueuePrefixes BY DEF HInv
<1>4. ASSUME NEW o \in Newest' PROVE Stored(o)'
  <2>1. /\ Stored(o) /\ reqs'[o] = reqs[o] /\ Flying(o)' = Flying(o)
        /\ token_pool'[reqs[o].slot] = token_pool[reqs[o].slot]
        /\ reqs[o].class = "ChunkedReq" => (o \in Handed' <=> o \in Handed)
    BY <1>1, <1>2, <1>3
  <2>2. QED BY <2>1, StoredKept
<1>5. ResultsStored' BY <1>1, <1>2, <1>3, ResultsKept
<1>6. QueuePrefixes' BY <1>3, CutsKept
<1>7. QED BY <1>4, <1>5, <1>6 DEF HInv, TerminalOnce, Slots

-----------------------------------------------------------------------------
(* Messages, selection and the end of an iteration.                        *)

\* Nobody has a row.
LEMMA InitHInv == Init => HInv
<1> SUFFICES ASSUME Init PROVE HInv OBVIOUS
<1>1. /\ reqs = <<>> /\ running = {} /\ inflight = <<>> /\ terminal = {} /\ pending = <<>>
      /\ adder.reqs = <<>> /\ adder.chunked = <<>> /\ batch.reqs = <<>>
      /\ last.reqs = <<>> /\ proc.reqs = <<>> /\ token_pool = [s \in Slots |-> <<>>]
  BY DEF Init, NoAdder, NoBatch
<1>2. Holders = {} BY <1>1, EmptyFacts DEF Holders, Referenced
<1>3. Newest = {} BY <1>2 DEF Newest
<1>4. ResultsStored /\ QueuePrefixes /\ TerminalOnce
  BY <1>1 DEF ResultsStored, QueuePrefixes, TerminalOnce
<1>5. QED BY <1>1, <1>3, <1>4 DEF HInv

\* A message of a user.
LEMMA ReceiveUserHost ==
  ASSUME IInv, IInv', XInv, HInv, NEW u \in Uids, NEW w \in Workload, ReceiveUser(u, w)
  PROVE  HInv'
<1>1. /\ UNCHANGED <<adder, batch, running, inflight, terminal, last, proc, reqs, token_pool>>
      /\ pending' = pending \/ \E q : q.chunk = None /\ pending' = Append(pending, q)
  BY DEF ReceiveUser, memory
<1>2. Newest' = Newest /\ Handed' = Handed
  <2>1. Holders' = Holders BY ReceiveUserSlots
  <2>2. QED BY <1>1, <2>1 DEF Newest, Handed
<1>3. \A j \in DOMAIN pending' :
        pending'[j].chunk = None \/ \E i \in DOMAIN pending : pending'[j] = pending[i]
  <2>1. CASE pending' = pending BY <2>1
  <2>2. ASSUME NEW q, q.chunk = None, pending' = Append(pending, q)
        PROVE  \A j \in DOMAIN pending' :
                 pending'[j].chunk = None \/ \E i \in DOMAIN pending : pending'[j] = pending[i]
    <3>1. pending \in Seq(PendingType) BY DEF IInv, TypeOK
    <3>2. /\ DOMAIN pending = 1 .. Len(pending) /\ DOMAIN pending' = 1 .. Len(pending) + 1
          /\ \A i \in 1 .. Len(pending) : pending'[i] = pending[i]
          /\ pending'[Len(pending) + 1] = q /\ Len(pending) \in Nat
      BY <2>2, <3>1, LenProperties
    <3>3. QED BY <2>2, <3>2
  <2>3. QED BY <1>1, <2>1, <2>2
<1>4. \A o \in Newest' : Flying(o)' = Flying(o) BY <1>1 DEF Flying
<1>5. DOMAIN token_pool' = Slots /\ \A o \in terminal' : inflight'[o] = 1
  BY <1>1 DEF HInv, TerminalOnce
<1>6. QED BY <1>1, <1>2, <1>3, <1>4, <1>5, HostKept

\* An abort: the row of the request is emptied if it is released at once.
LEMMA ReceiveAbortHost ==
  ASSUME IInv, IInv', XInv, HInv, NEW u \in Uids, ReceiveAbort(u)
  PROVE  HInv'
<1>1. TypeOK /\ QueuePlaced /\ InflightExact /\ BatchesPlaced BY DEF IInv, Placement
<1>2. pc = "recv" /\ Withdraw(u) /\ UNCHANGED <<adder, batch, inflight, last, proc>>
  BY DEF ReceiveAbort, AbortNothing, AbortInflight, AbortNow
<1>3. \A j \in DOMAIN pending' : \E i \in DOMAIN pending : pending'[j] = pending[i]
  BY <1>1, <1>2, WithdrawQueue DEF Withdraw
<1>4. Handed' = Handed /\ \A o : Flying(o)' = Flying(o) BY <1>2 DEF Handed, Flying
<1>5. TerminalOnce /\ DOMAIN token_pool = Slots BY DEF HInv
<1>6. CASE AbortNothing(u) \/ AbortInflight(u)
  <2>1. UNCHANGED <<reqs, token_pool>>
        /\ (terminal' = terminal \/ \E o \in DOMAIN inflight : terminal' = terminal \cup {o})
    BY <1>6 DEF AbortNothing, AbortInflight, memory
  <2>2. Holders' = Holders BY <1>6, AbortLaterSlots
  <2>3. Newest' = Newest BY <2>2 DEF Newest
  <2>4. \A o \in DOMAIN inflight : inflight[o] = 1
    BY <1>1, <1>2, EmptyFacts DEF InflightExact, BatchesPlaced
  <2>5. \A o \in terminal' : inflight'[o] = 1 BY <1>2, <1>5, <2>1, <2>4 DEF TerminalOnce
  <2>6. QED BY <1>2, <1>3, <1>4, <1>5, <2>1, <2>3, <2>5, HostKept
<1>7. CASE AbortNow(u)
  <2>1. PICK c \in AbortTarget(u) \ DOMAIN inflight :
          /\ token_pool' = [token_pool EXCEPT ![reqs[c].slot] = <<>>]
          /\ reqs' = Restrict(reqs, DOMAIN reqs \ {c}) /\ terminal' = terminal \ {c}
    BY <1>7 DEF AbortNow, FreeReqResources
  <2>2. c \in Newest /\ Newest' = Newest \ {c} BY <1>7, <2>1, AbortNowSlots
  <2>3. \A o \in Newest' : o \in Newest /\ reqs[o].slot \in Slots /\ reqs[o].slot # reqs[c].slot
    BY <2>2, SlotsApart
  <2>4. \A o \in Newest' : token_pool'[reqs[o].slot] = token_pool[reqs[o].slot]
    BY <1>5, <2>1, <2>3
  <2>5. DOMAIN token_pool' = Slots BY <1>5, <2>1
  <2>6. \A o \in Holders \cap DOMAIN reqs' : reqs'[o] = reqs[o] BY <2>1 DEF Restrict
  <2>7. \A o \in terminal' : inflight'[o] = 1 BY <1>2, <1>5, <2>1 DEF TerminalOnce
  <2>8. QED BY <1>2, <1>3, <1>4, <2>2, <2>3, <2>4, <2>5, <2>6, <2>7, HostKept
<1>8. QED BY <1>6, <1>7 DEF ReceiveAbort

\* A batch is selected: what was made goes on, what runs is no chunk.
LEMMA SelectHost ==
  ASSUME IInv, IInv', XInv, HInv, Newest' = Newest, pc \in {"recv", "admit"},
         adder'.reqs = <<>>, adder'.chunked = <<>>,
         \/ batch'.reqs = adder.reqs
         \/ adder.reqs = <<>> /\ ToSet(batch'.reqs) \subseteq running,
         UNCHANGED <<reqs, token_pool, inflight, terminal, last, proc>>,
         \A j \in DOMAIN pending' :
           \/ pending'[j].chunk = None
           \/ \E i \in DOMAIN pending : pending'[j] = pending[i]
           \/ \E k \in DOMAIN adder.chunked : pending'[j] = adder.chunked[k]
  PROVE  HInv'
<1>1. batch.reqs = <<>> BY DEF IInv, Placement, BatchesPlaced
<1>2. \A o \in running : reqs[o].class # "ChunkedReq" BY DEF XInv, RunningExact, CanDecode
<1>3. ASSUME NEW o, reqs[o].class = "ChunkedReq" PROVE o \in Handed' <=> o \in Handed
  <2>1. ToSet(batch.reqs) = {} /\ ToSet(adder'.reqs) = {} BY <1>1, EmptyFacts
  <2>2. QED BY <1>2, <1>3, <2>1, EmptyFacts DEF Handed
<1>4. \A o : Flying(o)' = Flying(o) BY DEF Flying
<1>5. DOMAIN token_pool' = Slots /\ \A o \in terminal' : inflight'[o] = 1
  BY DEF HInv, TerminalOnce
<1>6. DOMAIN adder'.chunked = {} OBVIOUS
<1>7. QED BY <1>3, <1>4, <1>5, <1>6, HostKept

\* The actions that choose a batch.
LEMMA SelectionHost ==
  ASSUME IInv, IInv', SInv, XInv, HInv,
         SelectDecode \/ SelectNothing \/ StartPrefill \/ StopAdmission
  PROVE  HInv'
<1>1. Newest' = Newest BY SelectionSlots, StartPrefillSlots, StopAdmissionSlots
<1>2. TypeOK /\ AdderPlaced BY DEF IInv, Placement
<1>3. CASE SelectDecode \/ SelectNothing
  <2>1. /\ pc = "recv" /\ UNCHANGED <<pending, adder, reqs, token_pool, inflight, terminal, last, proc>>
        /\ (\E b \in DecodeBatches : batch' = b) \/ batch' = NoBatch
    BY <1>3 DEF SelectDecode, SelectNothing, StartSelection, Select, memory
  <2>2. adder.reqs = <<>> /\ adder.chunked = <<>> BY <1>2, <2>1 DEF AdderPlaced
  <2>3. ToSet(batch'.reqs) \subseteq running
    BY <1>2, <2>1, DecodeBatchFacts, EmptyFacts DEF NoBatch
  <2>4. QED BY <1>1, <2>1, <2>2, <2>3, SelectHost
<1>4. CASE StartPrefill
  <2>1. /\ pc = "recv" /\ adder'.reqs = <<>> /\ adder'.chunked = <<>>
        /\ UNCHANGED <<pending, batch, reqs, token_pool, inflight, terminal, last, proc>>
    BY <1>4 DEF StartPrefill, StartSelection, memory
  <2>2. adder.reqs = <<>> /\ batch.reqs = <<>>
    BY <1>2, <2>1 DEF AdderPlaced, IInv, Placement, BatchesPlaced
  <2>3. QED BY <1>1, <2>1, <2>2, SelectHost
<1>5. CASE StopAdmission
  <2>1. /\ pc = "admit" /\ adder'.reqs = <<>> /\ adder'.chunked = <<>>
        /\ UNCHANGED <<reqs, token_pool, inflight, terminal, last, proc>>
    BY <1>5 DEF StopAdmission, NoAdder
  <2>2. CASE adder.reqs # <<>>
    <3>1. batch'.reqs = adder.reqs /\ pending' = Requeue BY <1>5, <2>2 DEF StopAdmission, Select
    <3>2. ASSUME NEW j \in DOMAIN pending'
          PROVE  \/ \E i \in DOMAIN pending : pending'[j] = pending[i]
                 \/ \E k \in DOMAIN adder.chunked : pending'[j] = adder.chunked[k]
      <4>1. \/ Len(adder.chunked) = 1 /\ pending'[j] = adder.chunked[1]
            \/ \E m \in DOMAIN pending : pending'[j] = pending[m]
        BY <1>2, <2>2, <3>1, RequeueElements
      <4>2. Len(adder.chunked) = 1 => 1 \in DOMAIN adder.chunked
        BY <1>2, LenProperties DEF TypeOK
      <4>3. QED BY <4>1, <4>2
    <3>3. QED BY <1>1, <2>1, <3>1, <3>2, SelectHost
  <2>3. CASE adder.reqs = <<>>
    <3>1. UNCHANGED pending /\ ((\E b \in DecodeBatches : batch' = b) \/ batch' = NoBatch)
      BY <1>5, <2>3 DEF StopAdmission, Select
    <3>2. ToSet(batch'.reqs) \subseteq running
      BY <1>2, <3>1, DecodeBatchFacts, EmptyFacts DEF NoBatch
    <3>3. QED BY <1>1, <2>1, <2>3, <3>1, <3>2, SelectHost
  <2>4. QED BY <2>2, <2>3
<1>6. QED BY <1>3, <1>4, <1>5

\* The loop starts over.
LEMMA EndProcessHost ==
  ASSUME IInv, IInv', XInv, HInv, EndProcess
  PROVE  HInv'
<1>1. /\ UNCHANGED <<pending, adder, inflight, terminal, batch, last, token_pool>>
      /\ proc.reqs = <<>> /\ proc'.reqs = <<>>
  BY DEF EndProcess, NoBatch
<1>2. Newest' = Newest /\ \A o \in Holders : reqs'[o] = reqs[o] BY EndProcessSlots
<1>3. Handed' = Handed /\ \A o : Flying(o)' = Flying(o) BY <1>1 DEF Handed, Flying
<1>4. DOMAIN token_pool' = Slots /\ \A o \in terminal' : inflight'[o] = 1
  BY <1>1 DEF HInv, TerminalOnce
<1>5. DOMAIN proc.reqs = {} BY <1>1
<1>6. QED BY <1>1, <1>2, <1>3, <1>4, <1>5, HostKept

-----------------------------------------------------------------------------
(* Admission.                                                              *)

\* The beginning of a sequence and a slice behind it.
LEMMA CopiedTokens ==
  ASSUME NEW ids \in Seq(Tokens), NEW a \in Nat, NEW b \in Nat, a <= b, b <= Len(ids),
         NEW row \in Texts, Len(row) = a, \A i \in 1 .. a : row[i] = ids[i]
  PROVE  /\ CopyTokens(row, ids, a + 1, b) \in Texts /\ SubSeq(ids, 1, b) \in Texts
         /\ Len(CopyTokens(row, ids, a + 1, b)) = b /\ Len(SubSeq(ids, 1, b)) = b
         /\ \A i \in 1 .. b : /\ CopyTokens(row, ids, a + 1, b)[i] = ids[i]
                              /\ SubSeq(ids, 1, b)[i] = ids[i]
<1> DEFINE T    == Tokens \cup {None}
           tail == SubSeq(ids, a + 1, b)
           pre  == SubSeq(ids, 1, b)
<1>1. Len(ids) \in Nat /\ \A i \in 1 .. Len(ids) : ids[i] \in T BY LenProperties, ElementOfSeq
<1>2. \A i \in a + 1 .. b : ids[i] \in T BY <1>1
<1>3. \A i \in 1 .. b : ids[i] \in T BY <1>1
<1>4. a + 1 \in Int /\ b \in Int /\ 1 \in Int OBVIOUS
<1>5. /\ tail \in Seq(T) /\ Len(tail) = IF a + 1 <= b THEN b - (a + 1) + 1 ELSE 0
      /\ \A i \in 1 .. b - (a + 1) + 1 : tail[i] = ids[a + 1 + i - 1]
  <2> DEFINE c == a + 1
  <2>1. c \in Int /\ \A i \in c .. b : ids[i] \in T BY <1>2, <1>4
  <2> HIDE DEF T, c
  <2>2. /\ SubSeq(ids, c, b) \in Seq(T) /\ Len(SubSeq(ids, c, b)) = IF c <= b THEN b - c + 1 ELSE 0
        /\ \A i \in 1 .. b - c + 1 : SubSeq(ids, c, b)[i] = ids[c + i - 1]
    BY <1>4, <2>1, SubSeqProperties
  <2>3. QED BY <2>2 DEF c
<1>6. /\ pre \in Seq(T) /\ Len(pre) = IF 1 <= b THEN b - 1 + 1 ELSE 0
      /\ \A i \in 1 .. b - 1 + 1 : pre[i] = ids[1 + i - 1]
  <2> HIDE DEF T
  <2>1. QED BY <1>3, <1>4, SubSeqProperties
<1>7. Len(tail) = b - a /\ \A i \in 1 .. b - a : tail[i] = ids[a + i]
  <2>1. b - (a + 1) + 1 = b - a /\ (IF a + 1 <= b THEN b - a ELSE 0) = b - a OBVIOUS
  <2>2. \A i \in 1 .. b - a : a + 1 + i - 1 = a + i OBVIOUS
  <2>3. QED BY <1>5, <2>1, <2>2
<1>8. Len(pre) = b /\ \A i \in 1 .. b : pre[i] = ids[i]
  <2>1. b - 1 + 1 = b /\ (IF 1 <= b THEN b ELSE 0) = b OBVIOUS
  <2>2. \A i \in 1 .. b : 1 + i - 1 = i OBVIOUS
  <2>3. QED BY <1>6, <2>1, <2>2
<1>9. tail \in Seq(T) /\ pre \in Seq(T) /\ row \in Seq(T) BY <1>5, <1>6 DEF Texts
<1> HIDE DEF T, tail, pre
<1>10. /\ row \o tail \in Seq(T) /\ Len(row \o tail) = Len(row) + Len(tail)
       /\ \A i \in 1 .. Len(row) + Len(tail) :
            (row \o tail)[i] = IF i <= Len(row) THEN row[i] ELSE tail[i - Len(row)]
  BY <1>9, ConcatProperties
<1>11. Len(row) + Len(tail) = b BY <1>7
<1>12. ASSUME NEW i \in 1 .. b PROVE (row \o tail)[i] = ids[i]
  <2>1. CASE i <= a BY <1>10, <1>11, <2>1
  <2>2. CASE ~(i <= a)
    <3>1. i - a \in 1 .. b - a /\ a + (i - a) = i BY <2>2
    <3>2. (row \o tail)[i] = tail[i - a] BY <1>10, <1>11, <2>2
    <3>3. QED BY <1>7, <3>1, <3>2
  <2>3. QED BY <2>1, <2>2
<1>13. QED BY <1>8, <1>9, <1>10, <1>11, <1>12 DEF CopyTokens, Texts, T, tail, pre


\* The new object starts with the prompt's beginning, in the host's list and in the row.
LEMMA AddOneReqHost ==
  ASSUME IInv, HInv, pc = "admit", HasCandidate, NEW n \in Nat, NEW slot \in Slots, NEW handle,
         NEW cached \in Nat, cached < Len(Candidate.ids), NEW row \in Texts, Len(row) = cached,
         \A i \in 1 .. cached : row[i] = Candidate.ids[i],
         AddOneReq(Candidate, <<Candidate.uid, n>>, slot, handle, cached, row),
         <<Candidate.uid, n>> \notin Holders,
         \A o \in Newest' : o = <<Candidate.uid, n>> \/ (o \in Newest /\ reqs[o].slot # slot),
         UNCHANGED <<pending, inflight, terminal, batch, last, proc>>
  PROVE  HInv'
<1> DEFINE q   == Candidate
           id  == <<q.uid, n>>
           cut == [q EXCEPT !.chunk = id]
<1>1. /\ InflightExact /\ DOMAIN token_pool = Slots /\ ResultsStored /\ QueuePrefixes /\ TerminalOnce
      /\ \A o \in Newest : Stored(o)
  BY DEF IInv, HInv
<1>2. /\ q \in PendingType /\ ToSet(adder'.reqs) = ToSet(adder.reqs) \cup {id} BY AddedObject
<1>3. PICK chunk \in Nat \ {0}, class \in {"Req", "ChunkedReq"} :
        Made(q, id, slot, handle, cached, row, chunk, class)
  BY AddedObject
<1> DEFINE b    == cached + chunk
           copy == CopyTokens(row, q.ids, cached + 1, b)
           pre  == SubSeq(q.ids, 1, b)
<1>16. /\ cached + chunk <= Len(q.ids)
       /\ DOMAIN reqs' = DOMAIN reqs \cup {id}
       /\ \A o \in DOMAIN reqs : o # id => reqs'[o] = reqs[o]
       /\ reqs'[id] = [slot |-> slot, cached |-> cached, device |-> b, max |-> b + q.out,
                       host |-> pre, handle |-> handle, class |-> class, ignore |-> q.ignore]
       /\ token_pool' = [token_pool EXCEPT ![slot] = copy]
       /\ \A i \in DOMAIN adder'.chunked : class = "ChunkedReq" /\ adder'.chunked[i] = cut
  BY <1>3 DEF Made
<1>4. /\ copy \in Texts /\ pre \in Texts /\ Len(copy) = b /\ Len(pre) = b
      /\ \A i \in 1 .. b : copy[i] = q.ids[i] /\ pre[i] = q.ids[i]
      /\ b \in Nat /\ q.out \in Nat
  <2>1. q.ids \in Seq(Tokens) /\ q.out \in Nat BY <1>2 DEF PendingType
  <2>2. b \in Nat /\ cached <= b OBVIOUS
  <2>5. b <= Len(q.ids) BY <1>16
  <2> HIDE DEF b, q
  <2>3. \A i \in 1 .. cached : row[i] = q.ids[i] BY DEF q
  <2>4. PICK ids : ids = q.ids OBVIOUS
  <2>6. cached \in Nat /\ row \in Texts /\ Len(row) = cached OBVIOUS
  <2>7. /\ ids \in Seq(Tokens) /\ b <= Len(ids) /\ \A i \in 1 .. cached : row[i] = ids[i]
    BY <2>1, <2>3, <2>4, <2>5
  <2>8. LET c == CopyTokens(row, ids, cached + 1, b)
        IN  /\ c \in Texts /\ SubSeq(ids, 1, b) \in Texts
            /\ Len(c) = b /\ Len(SubSeq(ids, 1, b)) = b
            /\ \A i \in 1 .. b : c[i] = ids[i] /\ SubSeq(ids, 1, b)[i] = ids[i]
    BY ONLY <2>2, <2>6, <2>7, CopiedTokens
  <2>9. QED BY <2>1, <2>2, <2>4, <2>8
<1>5. \A o \in Holders : o \in DOMAIN reqs /\ o # id /\ reqs'[o] = reqs[o]
  BY <1>16, HoldersTyped
<1>6. \A o \in ToSet(last.reqs) \cup ToSet(proc.reqs) : o \in Holders /\ o # id
  BY <1>1, <1>5 DEF InflightExact, Holders, Referenced
<1>7. /\ \A o : Flying(o)' = Flying(o)
      /\ Flying(id) = 0
  BY <1>5 DEF Flying, Holders, Referenced
<1>8. \A o : o # id => (o \in Handed' <=> o \in Handed) BY <1>2 DEF Handed
<1>9. id \in Handed' BY <1>2 DEF Handed
<1>10. token_pool'[slot] = copy /\ \A s \in Slots : s # slot => token_pool'[s] = token_pool[s]
  BY <1>1, <1>16
<1>11. \A o \in Newest' : o # id => token_pool'[reqs[o].slot] = token_pool[reqs[o].slot]
  BY <1>5, <1>10, HoldersTyped DEF Newest
<1>12. ASSUME NEW o \in Newest' PROVE Stored(o)'
  <2>1. CASE o # id
    <3>1. o \in Newest /\ o \in Holders BY <2>1 DEF Newest
    <3>2. /\ Stored(o) /\ reqs'[o] = reqs[o] /\ Flying(o)' = Flying(o)
          /\ token_pool'[reqs[o].slot] = token_pool[reqs[o].slot]
          /\ o \in Handed' <=> o \in Handed
      BY <1>1, <1>5, <1>7, <1>8, <1>11, <2>1, <3>1
    <3>3. QED BY <3>2, StoredKept
  <2>2. CASE o = id
    <3>1. /\ reqs'[o].slot = slot /\ reqs'[o].host = pre /\ reqs'[o].class = class
          /\ reqs'[o].device = b /\ reqs'[o].max = b + q.out
      <4> HIDE DEF q, id
      <4>1. QED BY <1>16, <2>2
    <3> HIDE DEF b, copy, pre, q, id
    <3>2. b = b + 0 /\ b <= b + q.out BY <1>4
    <3>3. \A i \in 1 .. Len(pre) : copy[i] = pre[i] BY <1>4
    <3>4. token_pool'[reqs'[o].slot] = copy BY <1>10, <3>1
    <3>5. reqs'[o].device = Len(reqs'[o].host) + Flying(o)' BY <1>4, <1>7, <2>2, <3>1, <3>2
    <3>6. QED BY <1>4, <1>9, <2>2, <3>1, <3>2, <3>3, <3>4, <3>5 DEF Stored, Texts
  <2>3. QED BY <2>1, <2>2
<1>13. ResultsStored'
  <2>1. \A o \in Newest' \cap (ToSet(last.reqs) \cup ToSet(proc.reqs)) :
          /\ o \in Newest /\ reqs'[o] = reqs[o] /\ Flying(o)' = Flying(o)
          /\ token_pool'[reqs[o].slot] = token_pool[reqs[o].slot]
    BY <1>5, <1>6, <1>7, <1>11
  <2>2. QED BY <1>1, <2>1, ResultsKept
<1>14. QueuePrefixes'
  <2>1. ASSUME NEW i \in DOMAIN pending, pending[i].chunk # None PROVE Cut(pending[i])'
    <3>1. pending[i].chunk \in Holders BY <2>1 DEF Holders, Referenced
    <3>2. reqs'[pending[i].chunk] = reqs[pending[i].chunk] BY <1>5, <3>1
    <3>3. QED BY <1>1, <2>1, <3>2 DEF QueuePrefixes, Cut
  <2>2. ASSUME NEW i \in DOMAIN adder'.chunked PROVE Cut(adder.chunked[i])'
    <3>1. class = "ChunkedReq" /\ adder'.chunked[i] = cut BY <1>16
    <3>2. cut.chunk = id /\ cut.ids = q.ids BY <1>2 DEF PendingType
    <3>3. reqs'[id].class = "ChunkedReq" /\ reqs'[id].host = pre BY <1>16, <3>1
    <3>4. b <= Len(q.ids) BY <1>16
    <3> HIDE DEF q, cut, pre, b, id
    <3>5. QED BY <1>4, <3>1, <3>2, <3>3, <3>4 DEF Cut
  <2>3. QED BY <2>1, <2>2 DEF QueuePrefixes, Cut
<1>15. QED BY <1>1, <1>16, <1>12, <1>13, <1>14 DEF HInv, TerminalOnce, Slots


\* The next chunk: what the row has is the prompt up to where the chunk before it ended.
LEMMA AdmitChunkHost ==
  ASSUME IInv, IInv', XInv, LInv, HInv, AdmitChunk
  PROVE  HInv'
<1> DEFINE q    == Candidate
           c    == q.chunk
           r    == reqs[c]
           id   == <<q.uid, c[2] + 1>>
           pool == token_pool[r.slot]
           row  == SubSeq(pool, 1, r.cached)
<1>1. /\ pc = "admit" /\ HasCandidate /\ c # None
      /\ UNCHANGED <<pending, inflight, terminal, batch, last, proc>>
      /\ AddOneReq(q, id, r.slot, r.handle, r.cached, row)
  BY DEF AdmitChunk
<1>2. /\ q \in PendingType /\ (\E k \in DOMAIN pending : q = pending[k]) /\ batch.reqs = <<>>
      /\ \A o \in ToSet(adder.reqs) : o[1] # q.uid
      /\ \A o \in Holders : o[1] = q.uid => o = c
      /\ c \in DOMAIN reqs /\ c[1] = q.uid /\ r.class = "ChunkedReq"
  BY <1>1, CandidateAlone
<1>3. c \in Newest /\ Newest' = (Newest \ {c}) \cup {id} BY AdmitChunkSlots
<1>4. c \in Objs /\ c[2] + 1 \in Nat /\ id # c
  <2>1. c \in Objs BY <1>2 DEF IInv, TypeOK
  <2>2. QED BY <2>1 DEF Objs
<1>5. id \notin Holders BY <1>2, <1>4
<1>6. r.slot \in Slots /\ \A o \in Newest' : o = id \/ (o \in Newest /\ reqs[o].slot # r.slot)
  BY <1>3, SlotsApart
<1>7. c \notin Handed BY <1>2, EmptyFacts DEF Handed
<1>8. /\ r.host \in Texts /\ pool \in Texts /\ Len(pool) = r.cached /\ Len(r.host) = r.cached
      /\ \A i \in 1 .. r.cached : pool[i] = q.ids[i]
  <2>1. Stored(c) BY <1>3 DEF HInv
  <2>2. Cut(q) BY <1>1, <1>2 DEF HInv, QueuePrefixes
  <2>3. /\ r.host \in Texts /\ pool \in Texts /\ Len(pool) = Len(r.host) /\ Len(pool) = r.cached
        /\ \A i \in 1 .. Len(r.host) : i <= Len(pool) => pool[i] = r.host[i]
    BY <1>2, <1>7, <2>1 DEF Stored
  <2>4. \A i \in 1 .. Len(r.host) : r.host[i] = q.ids[i] BY <2>2 DEF Cut
  <2> HIDE DEF pool, r, q
  <2>5. \A i \in 1 .. r.cached : i <= r.cached /\ i \in 1 .. Len(r.host) BY <2>3
  <2>6. QED BY <2>3, <2>4, <2>5
<1>9. r.cached \in Nat /\ r.cached < Len(q.ids)
  <2>1. r.cached \in Nat BY <1>8, LenProperties DEF Texts
  <2>2. r.cached < Len(q.ids) BY <1>1, <1>2, EmptyFacts DEF LInv, QueueLengths
  <2>3. QED BY <2>1, <2>2
<1>10. row \in Texts /\ Len(row) = r.cached /\ \A i \in 1 .. r.cached : row[i] = q.ids[i]
  <2>1. PICK a \in Nat : a = r.cached BY <1>9
  <2>2. \A i \in 1 .. a : pool[i] \in Tokens \cup {None} BY <1>8, <2>1, ElementOfSeq DEF Texts
  <2>3. 1 \in Int /\ a \in Int OBVIOUS
  <2> HIDE DEF pool, r
  <2>4. /\ SubSeq(pool, 1, a) \in Seq(Tokens \cup {None})
        /\ Len(SubSeq(pool, 1, a)) = IF 1 <= a THEN a - 1 + 1 ELSE 0
        /\ \A i \in 1 .. a - 1 + 1 : SubSeq(pool, 1, a)[i] = pool[1 + i - 1]
    BY <2>2, <2>3, SubSeqProperties
  <2>5. (IF 1 <= a THEN a - 1 + 1 ELSE 0) = a /\ a - 1 + 1 = a /\ \A i \in 1 .. a : 1 + i - 1 = i
    OBVIOUS
  <2>6. QED BY <1>8, <2>1, <2>4, <2>5 DEF Texts
<1> HIDE DEF row, r
<1>11. QED BY <1>1, <1>4, <1>5, <1>6, <1>9, <1>10, AddOneReqHost

\* A new request: the cached prefix is copied to the row with the rest.
LEMMA AdmitNewHost ==
  ASSUME IInv, IInv', XInv, HInv, AdmitNew
  PROVE  HInv'
<1> DEFINE q      == Candidate
           id     == <<q.uid, 0>>
           node   == MatchReq(cm, q.ids).node
           cached == Len(node) * PageSize
           slot   == free_table[Len(free_table)]
           row    == SubSeq(q.ids, 1, cached)
<1>1. /\ pc = "admit" /\ HasCandidate /\ free_table # <<>>
      /\ UNCHANGED <<pending, inflight, terminal, batch, last, proc>>
      /\ AddOneReq(q, id, slot, node, cached, row)
  BY DEF AdmitNew
<1>2. q \in PendingType BY <1>1, CandidateAlone
<1>3. /\ \A o \in Holders : o[1] # q.uid /\ reqs[o].slot # slot
      /\ Newest' = Newest \cup {id}
  BY AdmitNewSlots
<1>4. id \notin Holders /\ \A o \in Newest' : o = id \/ (o \in Newest /\ reqs[o].slot # slot)
  BY <1>3 DEF Newest
<1>5. slot \in Slots
  <2>1. free_table \in Seq(Slots) BY DEF IInv, TypeOK
  <2>2. Len(free_table) \in Nat \ {0} BY <1>1, <2>1, EmptySeq
  <2>3. QED BY <2>1, <2>2, ElementOfSeq
<1>6. q.ids \in Seq(Tokens) \ {<<>>} BY <1>2 DEF PendingType
<1>7. cached \in Nat /\ cached < Len(q.ids) BY <1>6, MatchLength
<1>8. row \in Texts /\ Len(row) = cached /\ \A i \in 1 .. cached : row[i] = q.ids[i]
  <2>1. <<>> \in Texts /\ Len(<<>>) = 0 BY EmptySeq DEF Texts
  <2>2. PICK a \in Nat : a = cached BY <1>7
  <2>3. 0 \in Nat /\ 0 <= a /\ a <= Len(q.ids) /\ \A i \in 1 .. 0 : <<>>[i] = q.ids[i]
    <3>1. Len(q.ids) \in Nat BY <1>6, LenProperties
    <3>2. QED BY <1>7, <2>2, <3>1
  <2> HIDE DEF cached
  <2>4. /\ SubSeq(q.ids, 1, a) \in Texts /\ Len(SubSeq(q.ids, 1, a)) = a
        /\ \A i \in 1 .. a : SubSeq(q.ids, 1, a)[i] = q.ids[i]
    BY <1>6, <2>1, <2>3, CopiedTokens
  <2>5. QED BY <2>2, <2>4
<1> HIDE DEF row, cached, slot, node
<1>9. 0 \in Nat OBVIOUS
<1>10. QED BY <1>1, <1>4, <1>5, <1>7, <1>8, <1>9, AddOneReqHost


-----------------------------------------------------------------------------
(* Forward.                                                                *)

\* What a launch does to requests and rows.
Launched(t) ==
  LET objs == batch.reqs
  IN  /\ reqs' = [o \in DOMAIN reqs |->
                    IF o \in ToSet(objs) THEN Completed(reqs[o]) ELSE reqs[o]]
      /\ inflight' = [o \in DOMAIN inflight \cup ToSet(objs) |->
                        (IF o \in DOMAIN inflight THEN inflight[o] ELSE 0)
                          + (IF o \in ToSet(objs) THEN 1 ELSE 0)]
      /\ token_pool' = [s \in Slots |->
                          IF \E i \in InBatch(objs, s) : CanDecode(reqs[objs[i]])
                          THEN Append(token_pool[s], t[CHOOSE i \in InBatch(objs, s) : TRUE])
                          ELSE token_pool[s]]

\* The token goes behind the row if the request may have another one.
LEMMA LaunchedObject ==
  ASSUME IInv, XInv, NEW t, Launched(t), NEW o \in Newest
  PROVE  /\ Flying(o)' = Flying(o) + IF o \in ToSet(batch.reqs) THEN 1 ELSE 0
         /\ reqs'[o].slot = reqs[o].slot /\ reqs'[o].class = reqs[o].class
         /\ reqs'[o].host = reqs[o].host /\ reqs'[o].max = reqs[o].max
         /\ o \notin ToSet(batch.reqs) =>
              reqs'[o] = reqs[o] /\ token_pool'[reqs[o].slot] = token_pool[reqs[o].slot]
         /\ \A i \in DOMAIN batch.reqs : batch.reqs[i] = o =>
              /\ reqs'[o].cached = reqs[o].device /\ reqs'[o].device = reqs[o].device + 1
              /\ token_pool'[reqs[o].slot] = IF CanDecode(reqs[o]) THEN Append(token_pool[reqs[o].slot], t[i])
                                             ELSE token_pool[reqs[o].slot]
<1> DEFINE objs == batch.reqs
           s    == reqs[o].slot
<1>1. TypeOK /\ InflightExact /\ ObjectsPlaced /\ BatchesPlaced BY DEF IInv, Placement
<1>2. o \in DOMAIN reqs /\ s \in Slots /\ \A p \in Newest : reqs[p].slot = s => p = o
  BY SlotsApart
<1>3. \A i \in DOMAIN objs : objs[i] \in ToSet(objs) /\ objs[i] \in Newest
  BY ToSetElement, NewerNewest DEF Newer
<1>4. \A i \in DOMAIN objs : i \in InBatch(objs, s) <=> objs[i] = o
  BY <1>2, <1>3 DEF InBatch
<1>5. IsReq(reqs[o]) BY <1>1, <1>2 DEF ObjectsPlaced
<1>6. reqs'[o] = IF o \in ToSet(objs) THEN Completed(reqs[o]) ELSE reqs[o]
  BY <1>2 DEF Launched
<1>7. token_pool'[s] = IF \E i \in InBatch(objs, s) : CanDecode(reqs[objs[i]])
                       THEN Append(token_pool[s], t[CHOOSE i \in InBatch(objs, s) : TRUE])
                       ELSE token_pool[s]
  BY <1>2 DEF Launched
<1>8. Completed(reqs[o]).slot = reqs[o].slot /\ Completed(reqs[o]).class = reqs[o].class
      /\ Completed(reqs[o]).host = reqs[o].host /\ Completed(reqs[o]).max = reqs[o].max
      /\ Completed(reqs[o]).cached = reqs[o].device /\ Completed(reqs[o]).device = reqs[o].device + 1
  BY <1>5 DEF IsReq, ReqFields, Completed
<1>9. Flying(o)' = Flying(o) + IF o \in ToSet(batch.reqs) THEN 1 ELSE 0
  <2>1. /\ DOMAIN inflight' = DOMAIN inflight \cup ToSet(objs)
        /\ \A p \in DOMAIN inflight' :
             inflight'[p] = (IF p \in DOMAIN inflight THEN inflight[p] ELSE 0)
                              + (IF p \in ToSet(objs) THEN 1 ELSE 0)
    BY DEF Launched
  <2>2. CASE o \in DOMAIN inflight'
    BY <2>1, <2>2 DEF Flying
  <2>3. CASE o \notin DOMAIN inflight' BY <2>1, <2>3 DEF Flying
  <2>4. QED BY <2>2, <2>3
<1>10. o \notin ToSet(objs) => token_pool'[s] = token_pool[s]
  BY <1>3, <1>4, <1>7 DEF InBatch
<1>11. ASSUME NEW i \in DOMAIN objs, objs[i] = o
       PROVE  token_pool'[s] = IF CanDecode(reqs[o]) THEN Append(token_pool[s], t[i]) ELSE token_pool[s]
  <2>1. \A j \in DOMAIN objs : objs[j] = o => j = i BY <1>1, <1>11 DEF BatchesPlaced, Duplicated
  <2>2. InBatch(objs, s) = {i} BY <1>4, <1>11, <2>1 DEF InBatch
  <2>3. QED BY <1>7, <1>11, <2>2
<1>12. QED BY <1>3, <1>6, <1>8, <1>9, <1>10, <1>11


\* The device is one token further, and so is the row, up to the last token kept.
LEMMA LaunchedStored ==
  ASSUME IInv, XInv, LInv, HInv, pc = "forward", NEW t \in Samples(batch.reqs), Launched(t),
         UNCHANGED adder, batch'.reqs = <<>>, NEW o \in Newest
  PROVE  /\ Stored(o)'
         /\ reqs[o].class = "Req" =>
              /\ reqs[o].device \in Nat
              /\ \A at \in 1 .. reqs[o].device : at <= Len(token_pool'[reqs[o].slot]) =>
                   /\ at <= Len(token_pool[reqs[o].slot])
                   /\ token_pool'[reqs[o].slot][at] = token_pool[reqs[o].slot][at]
              /\ \A i \in DOMAIN batch.reqs :
                   batch.reqs[i] = o /\ reqs[o].device + 1 <= Len(token_pool'[reqs[o].slot]) =>
                     token_pool'[reqs[o].slot][reqs[o].device + 1] = t[i]
<1> DEFINE r    == reqs[o]
           pool == token_pool[r.slot]
           next == token_pool'[r.slot]
<1>1. /\ TypeOK /\ InflightExact /\ AdderPlaced /\ BatchesPlaced /\ ObjectLengths /\ Stored(o)
  BY DEF IInv, Placement, LInv, HInv
<1>2. o \in DOMAIN reqs BY SlotsApart
<1>3. adder.reqs = <<>> /\ ToSet(batch'.reqs) = {} /\ ToSet(adder'.reqs) = {}
  BY <1>1, EmptyFacts DEF AdderPlaced
<1>4. o \notin Handed' /\ (o \in Handed <=> o \in ToSet(batch.reqs))
  BY <1>3, EmptyFacts DEF Handed
<1>5. r.device \in Nat /\ r.max \in Int /\ Flying(o) \in Nat
  <2>1. r.device \in Int /\ r.cached \in Int /\ r.max \in Int /\ 0 <= r.cached /\ r.cached < r.device
    BY <1>1, <1>2 DEF TypeOK, ObjectLengths
  <2>2. Flying(o) \in Nat BY <1>1, FlyingCounts
  <2> HIDE DEF r
  <2>3. QED BY <2>1, <2>2
<1>6. /\ r.host \in Texts /\ pool \in Texts /\ Len(r.host) \in Nat /\ Len(pool) \in Nat
      /\ \A i \in 1 .. Len(r.host) : i <= Len(pool) => pool[i] = r.host[i]
      /\ r.class = "Req" =>
           r.device = Len(r.host) + Flying(o) /\ Len(pool) = IF r.device <= r.max THEN r.device ELSE r.max
      /\ r.class = "ChunkedReq" =>
           /\ Len(pool) = Len(r.host)
           /\ Len(pool) = IF o \in Handed THEN r.device ELSE r.cached
  BY <1>1, LenProperties DEF Stored, Texts
<1>7. CASE o \notin ToSet(batch.reqs)
  <2>1. /\ Flying(o)' = Flying(o) /\ reqs'[o] = reqs[o] /\ next = pool
        /\ o \in Handed' <=> o \in Handed
    <3>1. Flying(o)' = Flying(o) + 0 BY <1>7, LaunchedObject
    <3>2. QED BY <1>4, <1>5, <1>7, <3>1, LaunchedObject
  <2>2. Stored(o)' BY <1>1, <2>1, StoredKept
  <2>3. \A i \in DOMAIN batch.reqs : batch.reqs[i] # o BY <1>7, ToSetElement
  <2>4. r.class = "Req" => \A at \in 1 .. r.device : at <= Len(next) => at <= Len(pool) /\ next[at] = pool[at]
    BY <2>1
  <2>5. QED BY <1>5, <2>2, <2>3, <2>4
<1>8. CASE o \in ToSet(batch.reqs)
  <2>1. PICK i \in DOMAIN batch.reqs : batch.reqs[i] = o BY <1>8, ToSetElement DEF ToSet
  <2>2. /\ reqs'[o].slot = r.slot /\ reqs'[o].class = r.class /\ reqs'[o].host = r.host
        /\ reqs'[o].max = r.max /\ reqs'[o].cached = r.device /\ reqs'[o].device = r.device + 1
        /\ next = IF CanDecode(r) THEN Append(pool, t[i]) ELSE pool
        /\ Flying(o)' = Flying(o) + 1
    BY <1>8, <2>1, LaunchedObject
  <2>3. r.device <= r.max BY <1>1, <1>8 DEF ObjectLengths
  <2>4. t[i] \in Tokens \cup {None}
    <3>1. t \in [DOMAIN batch.reqs -> Sampled \cup {None}] BY DEF Samples
    <3>2. QED BY <2>1, <3>1, SampledAssumption
  <2>5. \A j \in DOMAIN batch.reqs : batch.reqs[j] = o => j = i
    BY <1>1, <2>1 DEF BatchesPlaced, Duplicated
  <2>6. CASE r.class = "ChunkedReq"
    <3>1. ~CanDecode(r) BY <2>6 DEF CanDecode
    <3>2. next = pool BY <2>2, <3>1
    <3> HIDE DEF r, pool, next
    <3>3. token_pool'[reqs'[o].slot] = pool BY <2>2, <3>2 DEF next
    <3>4. reqs'[o].class # "Req" BY <2>2, <2>6
    <3>5. Stored(o)'
      BY <1>4, <1>6, <1>8, <2>2, <2>6, <3>3, <3>4 DEF Stored, Texts
    <3>6. QED BY <2>6, <3>5 DEF r
  <2>7. CASE r.class = "Req"
    <3>1. CanDecode(r) <=> r.device < r.max
      <4>1. CanDecode(r) <=> r.max - r.device > 0 BY <2>7 DEF CanDecode, Remaining
      <4> HIDE DEF r
      <4>2. QED BY <1>5, <4>1
    <3>2. Len(pool) = r.device /\ Len(r.host) <= Len(pool) /\ r.device = Len(r.host) + Flying(o)
      <4> HIDE DEF r, pool
      <4>1. QED BY <1>5, <1>6, <2>3, <2>7
    <3>3. reqs'[o].device = Len(reqs'[o].host) + Flying(o)'
      <4> HIDE DEF r, pool, next
      <4>1. QED BY <1>5, <1>6, <2>2, <3>2
    <3>4. token_pool'[reqs'[o].slot] = next BY <2>2
    <3>5. CASE r.device < r.max
      <4>1. next = Append(pool, t[i]) BY <2>2, <3>1, <3>5
      <4> HIDE DEF r, pool, next
      <4>2. /\ next \in Texts /\ Len(next) = Len(pool) + 1 /\ next[Len(pool) + 1] = t[i]
            /\ \A j \in 1 .. Len(pool) : next[j] = pool[j]
        BY <1>6, <2>4, <4>1, AppendElements DEF Texts
      <4>3. Len(next) = IF reqs'[o].device <= reqs'[o].max THEN reqs'[o].device ELSE reqs'[o].max
        BY <1>5, <2>2, <3>2, <3>5, <4>2
      <4>4. \A j \in 1 .. Len(r.host) : next[j] = r.host[j]
        <5>1. \A j \in 1 .. Len(r.host) : j \in 1 .. Len(pool) /\ j <= Len(pool) BY <1>6, <3>2
        <5>2. QED BY <1>6, <4>2, <5>1
      <4>5. Stored(o)'
        BY <1>6, <2>2, <2>7, <3>3, <3>4, <4>2, <4>3, <4>4 DEF Stored, Texts
      <4>6. \A at \in 1 .. r.device : at <= Len(pool) /\ next[at] = pool[at]
        BY <1>5, <3>2, <4>2
      <4>7. next[r.device + 1] = t[i] BY <3>2, <4>2
      <4>8. QED BY <1>5, <2>5, <4>5, <4>6, <4>7 DEF r, next, pool
    <3>6. CASE ~(r.device < r.max)
      <4>1. next = pool BY <2>2, <3>1, <3>6
      <4> HIDE DEF r, pool, next
      <4>2. r.device = r.max BY <1>5, <2>3, <3>6
      <4>3. Len(next) = IF reqs'[o].device <= reqs'[o].max THEN reqs'[o].device ELSE reqs'[o].max
        BY <1>5, <2>2, <3>2, <4>1, <4>2
      <4>4. Stored(o)'
        BY <1>6, <2>2, <2>7, <3>3, <3>4, <4>1, <4>3 DEF Stored, Texts
      <4>5. ~(r.device + 1 <= Len(next)) BY <1>5, <3>2, <4>1
      <4>6. \A at \in 1 .. r.device : at <= Len(pool) /\ next[at] = pool[at]
        BY <1>5, <3>2, <4>1
      <4>7. QED BY <1>5, <4>4, <4>5, <4>6 DEF r, next, pool
    <3>7. QED BY <3>5, <3>6
  <2>8. r.class \in {"Req", "ChunkedReq"} BY <1>1, <1>2 DEF TypeOK
  <2>9. QED BY <2>6, <2>7, <2>8
<1>9. QED BY <1>7, <1>8


\* The batch goes to the device, with the results of the batch before still to come.
LEMMA ForwardHost ==
  ASSUME IInv, IInv', SInv, XInv, LInv, HInv, Forward
  PROVE  HInv'
<1> DEFINE objs == batch.reqs
<1>1. /\ TypeOK /\ InflightExact /\ TerminalDrains /\ BatchesPlaced /\ ObjectLengths
      /\ ResultsStored /\ QueuePrefixes /\ TerminalOnce
  BY DEF IInv, Placement, HInv, LInv
<1>2. PICK t \in Samples(objs) :
        /\ Launched(t) /\ Launch([reqs |-> objs, phase |-> batch.phase, tokens |-> t])
        /\ pc = "forward" /\ UNCHANGED <<pending, adder, terminal>>
  BY DEF Forward, Launched
<1>3. batch'.reqs = <<>> /\ proc.reqs = <<>> BY <1>1, <1>2 DEF Launch, NoBatch, BatchesPlaced
<1>4. Newest' = Newest BY ForwardSlots
<1>5. ASSUME NEW o \in Newest PROVE Stored(o)' BY <1>2, <1>3, LaunchedStored
<1>6. \A o \in ToSet(last.reqs) : Flying(o) = 1
  <2>1. ToSet(proc.reqs) = {} BY <1>3, EmptyFacts
  <2>2. \A o \in ToSet(last.reqs) : o \in DOMAIN inflight /\ inflight[o] = 1
    BY <1>1, <2>1 DEF InflightExact
  <2>3. QED BY <2>2 DEF Flying
<1>7. ASSUME NEW o \in Newest, reqs[o].class = "Req"
      PROVE  /\ Len(reqs[o].host) \in Nat /\ Flying(o) \in Nat
             /\ reqs[o].device = Len(reqs[o].host) + Flying(o) /\ reqs[o].device \in Nat \ {0}
  <2>1. Stored(o) /\ o \in DOMAIN reqs BY SlotsApart DEF HInv
  <2>2. reqs[o].host \in Texts /\ reqs[o].device = Len(reqs[o].host) + Flying(o)
    BY <1>7, <2>1 DEF Stored
  <2>3. Len(reqs[o].host) \in Nat /\ Flying(o) \in Nat
    BY <1>1, <2>2, LenProperties, FlyingCounts DEF Texts
  <2>4. /\ reqs[o].cached \in Int /\ reqs[o].device \in Int
        /\ 0 <= reqs[o].cached /\ reqs[o].cached < reqs[o].device
    BY <1>1, <2>1 DEF TypeOK, ObjectLengths
  <2>5. reqs[o].device \in Nat \ {0} BY <2>4
  <2>6. QED BY <2>2, <2>3, <2>5
<1>8. \A o \in Newest :
        /\ reqs'[o].slot = reqs[o].slot /\ reqs'[o].host = reqs[o].host /\ reqs'[o].class = reqs[o].class
        /\ Flying(o)' = Flying(o) + IF o \in ToSet(objs) THEN 1 ELSE 0
  BY <1>2, LaunchedObject
<1>9. ASSUME NEW o \in ToSet(last.reqs), NEW token, Landing(o, Len(reqs[o].host) + Flying(o), token)
      PROVE  Landing(o, Len(reqs[o].host) + 1, token)'
  <2>1. SUFFICES ASSUME o \in Newest', reqs'[o].class = "Req",
                        Len(reqs'[o].host) + 1 <= Len(token_pool'[reqs'[o].slot])
                 PROVE  token_pool'[reqs'[o].slot][Len(reqs'[o].host) + 1] = token
    BY DEF Landing
  <2>2. o \in Newest /\ reqs[o].class = "Req" BY <1>4, <1>8, <2>1
  <2>3. PICK at \in 1 .. reqs[o].device : at = Len(reqs[o].host) + 1 /\ at = reqs[o].device
    BY <1>6, <1>7, <2>2
  <2>4. at <= Len(token_pool'[reqs[o].slot]) BY <1>8, <2>1, <2>2, <2>3
  <2>5. at <= Len(token_pool[reqs[o].slot])
        /\ token_pool'[reqs[o].slot][at] = token_pool[reqs[o].slot][at]
    BY <1>2, <1>3, <2>2, <2>4, LaunchedStored
  <2>6. token_pool[reqs[o].slot][at] = token
    BY <1>6, <1>9, <2>2, <2>3, <2>5 DEF Landing
  <2>7. QED BY <1>8, <2>2, <2>3, <2>5, <2>6
<1>10. ASSUME NEW i \in DOMAIN objs, NEW o, o = objs[i], o \in Newest, reqs[o].class = "Req",
              reqs[o].device + 1 <= Len(token_pool'[reqs'[o].slot])
       PROVE  token_pool'[reqs'[o].slot][reqs[o].device + 1] = t[i]
  BY <1>2, <1>3, <1>8, <1>10, LaunchedStored
<1>11. ResultsStored'
  <2>1. CASE Overlap
    <3>1. proc' = last /\ last'.reqs = objs /\ last'.tokens = t BY <1>2, <2>1 DEF Launch
    <3>2. ASSUME NEW i \in DOMAIN objs
          PROVE  LET o == last.reqs[i] IN Landing(o, Len(reqs[o].host) + Flying(o), last.tokens[i])'
      <4>1. PICK o : o = objs[i] OBVIOUS
      <4>2. o \in ToSet(objs) BY <4>1, ToSetElement
      <4>3. CASE o \in Newest /\ reqs[o].class = "Req"
        <5>1. Len(reqs'[o].host) + Flying(o)' = reqs[o].device + 1
          <6>1. reqs'[o].host = reqs[o].host /\ Flying(o)' = Flying(o) + 1 BY <1>8, <4>2, <4>3
          <6>2. /\ Len(reqs[o].host) \in Nat /\ Flying(o) \in Nat
                /\ reqs[o].device = Len(reqs[o].host) + Flying(o)
            BY <1>7, <4>3
          <6>3. QED BY <6>1, <6>2
        <5>2. QED BY <1>10, <3>1, <4>1, <4>3, <5>1 DEF Landing
      <4>4. CASE ~(o \in Newest /\ reqs[o].class = "Req")
        BY <1>4, <1>8, <3>1, <4>1, <4>4 DEF Landing
      <4>5. QED BY <4>3, <4>4
    <3>3. ASSUME NEW i \in DOMAIN last.reqs
          PROVE  LET o == proc.reqs[i] IN Landing(o, Len(reqs[o].host) + 1, proc.tokens[i])'
      <4>1. PICK o \in ToSet(last.reqs) : o = last.reqs[i] BY ToSetElement
      <4>2. Landing(o, Len(reqs[o].host) + Flying(o), last.tokens[i])
        BY <1>1, <4>1 DEF ResultsStored
      <4>3. PICK token : token = last.tokens[i] OBVIOUS
      <4>4. Landing(o, Len(reqs[o].host) + 1, token)' BY <1>9, <4>2, <4>3
      <4>5. QED BY <3>1, <4>1, <4>3, <4>4 DEF Landing
    <3>4. QED BY <3>1, <3>2, <3>3 DEF ResultsStored
  <2>2. CASE ~Overlap
    <3>1. proc'.reqs = objs /\ proc'.tokens = t /\ last'.reqs = <<>> /\ last.reqs = <<>>
      BY <1>1, <1>2, <2>2 DEF Launch, NoBatch, BatchesPlaced
    <3>2. \A o : Flying(o) = 0 BY <1>1, <1>3, <3>1, EmptyFacts DEF InflightExact, Flying
    <3>3. ASSUME NEW i \in DOMAIN objs
          PROVE  LET o == proc.reqs[i] IN Landing(o, Len(reqs[o].host) + 1, proc.tokens[i])'
      <4>1. PICK o : o = objs[i] OBVIOUS
      <4>2. CASE o \in Newest /\ reqs[o].class = "Req"
        <5>1. Len(reqs'[o].host) + 1 = reqs[o].device + 1
          BY <1>7, <1>8, <3>2, <4>2
        <5>2. QED BY <1>10, <3>1, <4>1, <4>2, <5>1 DEF Landing
      <4>3. CASE ~(o \in Newest /\ reqs[o].class = "Req")
        BY <1>4, <1>8, <3>1, <4>1, <4>3 DEF Landing
      <4>4. QED BY <4>2, <4>3
    <3>4. DOMAIN last'.reqs = {} BY <3>1
    <3>5. QED BY <3>1, <3>3, <3>4 DEF ResultsStored
  <2>3. QED BY <2>1, <2>2
<1>12. QueuePrefixes'
  <2>1. \A o \in Holders \cap DOMAIN reqs' :
          reqs'[o].class = reqs[o].class /\ reqs'[o].host = reqs[o].host
    <3>1. \A o \in DOMAIN reqs : IsReq(reqs[o]) BY DEF IInv, Placement, ObjectsPlaced
    <3>2. ASSUME NEW r, IsReq(r) PROVE Completed(r).class = r.class /\ Completed(r).host = r.host
      BY <3>2 DEF IsReq, ReqFields, Completed
    <3>3. QED BY <1>2, <3>1, <3>2 DEF Launched
  <2>2. QED BY <1>1, <1>2, <2>1, CutsKept
<1>13. TerminalOnce'
  <2>1. \A o \in terminal : o \in DOMAIN inflight /\ o \notin ToSet(objs)
    BY <1>1 DEF TerminalDrains, BatchesPlaced
  <2>2. \A o \in terminal : inflight'[o] = inflight[o] + 0 /\ inflight[o] = 1
    BY <1>1, <1>2, <2>1 DEF Launched, TerminalOnce
  <2>3. QED BY <1>2, <2>2 DEF TerminalOnce
<1>14. DOMAIN token_pool' = Slots BY <1>2 DEF Launched
<1>15. QED BY <1>4, <1>5, <1>11, <1>12, <1>13, <1>14 DEF HInv, Slots

\* Nothing goes to the device.
LEMMA NoForwardHost ==
  ASSUME IInv, IInv', SInv, XInv, HInv, ForwardOutOfPages \/ NoForward
  PROVE  HInv'
<1>1. /\ InflightExact /\ BatchesPlaced /\ AdderPlaced /\ ResultsStored /\ TerminalOnce
      /\ DOMAIN token_pool = Slots
  BY DEF IInv, Placement, HInv
<1>2. /\ pc = "forward" /\ batch'.reqs = batch.reqs
      /\ UNCHANGED <<pending, adder, running, inflight, terminal, reqs, token_pool>>
  BY DEF ForwardOutOfPages, NoForward, Launch, NoBatch, memory
<1>3. Newest' = Newest BY NoForwardSlots
<1>4. Handed' = Handed /\ \A o : Flying(o)' = Flying(o) BY <1>2 DEF Handed, Flying
<1>5. CASE ForwardOutOfPages
  <2>1. UNCHANGED <<last, proc>> BY <1>5 DEF ForwardOutOfPages
  <2>2. QED BY <1>1, <1>2, <1>3, <1>4, <2>1, HostKept DEF TerminalOnce
<1>6. CASE NoForward
  <2>1. proc.reqs = <<>> BY <1>1, <1>2 DEF BatchesPlaced
  <2>2. ResultsStored'
    <3>1. CASE Overlap
      <4>1. proc' = last /\ last'.reqs = <<>> BY <1>6, <3>1 DEF NoForward, Launch, NoBatch
      <4>2. \A o \in ToSet(last.reqs) : Flying(o) = 1
        <5>1. ToSet(proc.reqs) = {} BY <2>1, EmptyFacts
        <5>2. \A o \in ToSet(last.reqs) : o \in DOMAIN inflight /\ inflight[o] = 1
          BY <1>1, <5>1 DEF InflightExact
        <5>3. QED BY <5>2 DEF Flying
      <4>3. ASSUME NEW i \in DOMAIN last.reqs
            PROVE  LET o == proc.reqs[i] IN Landing(o, Len(reqs[o].host) + 1, proc.tokens[i])'
        <5>1. PICK o \in ToSet(last.reqs) : o = last.reqs[i] BY ToSetElement
        <5>2. Landing(o, Len(reqs[o].host) + 1, last.tokens[i])
          BY <1>1, <4>2, <5>1 DEF ResultsStored
        <5>3. QED BY <1>2, <1>3, <4>1, <5>1, <5>2 DEF Landing
      <4>4. DOMAIN last'.reqs = {} BY <4>1
      <4>5. QED BY <4>1, <4>3, <4>4 DEF ResultsStored
    <3>2. CASE ~Overlap
      <4>1. last'.reqs = <<>> /\ proc'.reqs = <<>> BY <1>6, <3>2 DEF NoForward, Launch, NoBatch
      <4>2. DOMAIN last'.reqs = {} /\ DOMAIN proc'.reqs = {} BY <4>1
      <4>3. QED BY <4>2 DEF ResultsStored
    <3>3. QED BY <3>1, <3>2
  <2>3. ASSUME NEW o \in Newest PROVE Stored(o)'
    <3>1. Stored(o) BY DEF HInv
    <3>2. QED BY <1>2, <1>4, <3>1, StoredKept
  <2>4. QueuePrefixes' BY <1>2, CutsKept DEF HInv
  <2>5. QED BY <1>1, <1>2, <1>3, <2>2, <2>3, <2>4 DEF HInv, TerminalOnce, Slots
<1>7. QED BY <1>5, <1>6


-----------------------------------------------------------------------------
(* Process.                                                                *)

\* The first result is taken: one batch less for its request.
LEMMA ResultLands ==
  ASSUME IInv, SInv, TakeResult, UNCHANGED last, NEW c, c = Current
  PROVE  /\ c \in DOMAIN inflight /\ c \in DOMAIN reqs /\ 1 \in DOMAIN proc.reqs
         /\ c = proc.reqs[1] /\ Head(proc.tokens) = proc.tokens[1]
         /\ Flying(c) \in Nat \ {0} /\ Flying(c)' = Flying(c) - 1
         /\ inflight[c] = 1 => c \notin DOMAIN inflight'
         /\ \A o : o # c => Flying(o)' = Flying(o)
         /\ \A o \in DOMAIN inflight : o # c => inflight'[o] = inflight[o]
         /\ \A i \in DOMAIN proc'.reqs :
              /\ i + 1 \in DOMAIN proc.reqs /\ proc'.reqs[i] = proc.reqs[i + 1]
              /\ proc'.tokens[i] = proc.tokens[i + 1] /\ proc.reqs[i + 1] # c
<1>1. TypeOK /\ InflightExact /\ ResultsTyped BY DEF IInv, SInv
<1>2. /\ proc.reqs # <<>> /\ proc'.reqs = Tail(proc.reqs) /\ proc'.tokens = Tail(proc.tokens)
      /\ inflight' = OneBatchLess(c)
  BY DEF TakeResult
<1>3. c \in DOMAIN inflight /\ c \in DOMAIN reqs BY ResultTaken
<1>4. PICK n \in Nat :
        /\ n = Len(proc.reqs) /\ n = Len(proc.tokens) /\ n # 0
        /\ DOMAIN proc.reqs = 1 .. n /\ DOMAIN proc.tokens = 1 .. n
        /\ proc.reqs \in Seq(Objs) /\ proc.tokens \in Seq(Tokens \cup {None})
  <2>1. proc.reqs \in Seq(Objs) /\ proc.tokens \in Seq(Tokens \cup {None})
        /\ Len(proc.tokens) = Len(proc.reqs)
    BY <1>1 DEF TypeOK, ResultsTyped
  <2>2. Len(proc.reqs) \in Nat /\ Len(proc.reqs) # 0 BY <1>2, <2>1, EmptySeq, LenProperties
  <2>3. QED BY <2>1, <2>2, LenProperties
<1>5. 1 \in 1 .. n /\ 1 \in DOMAIN proc.reqs BY <1>4
<1>6. proc.tokens # <<>>
  <2>1. Len(<<>>) = 0 OBVIOUS
  <2>2. QED BY <1>4, <2>1
<1>7. c = proc.reqs[1] /\ Head(proc.tokens) = proc.tokens[1]
  BY <1>2, <1>4, <1>6, HeadTailProperties DEF Current
<1>8. inflight[c] \in {1, 2} BY <1>1, <1>3 DEF TypeOK
<1>9. /\ Flying(c) \in Nat \ {0} /\ Flying(c)' = Flying(c) - 1
      /\ inflight[c] = 1 => c \notin DOMAIN inflight'
      /\ \A o : o # c => (o \in DOMAIN inflight' <=> o \in DOMAIN inflight)
      /\ \A o \in DOMAIN inflight : o # c => inflight'[o] = inflight[o]
  <2>1. CASE inflight[c] = 1
    <3>1. /\ DOMAIN inflight' = DOMAIN inflight \ {c}
          /\ \A o \in DOMAIN inflight' : inflight'[o] = inflight[o]
      BY <1>2, <2>1 DEF OneBatchLess, Restrict
    <3>2. Flying(c) = 1 /\ Flying(c)' = 0 BY <1>3, <2>1, <3>1 DEF Flying
    <3>3. QED BY <3>1, <3>2
  <2>2. CASE inflight[c] = 2
    <3>1. inflight' = [inflight EXCEPT ![c] = @ - 1] BY <1>2, <2>2 DEF OneBatchLess
    <3>2. /\ DOMAIN inflight' = DOMAIN inflight /\ inflight'[c] = 1
          /\ \A o \in DOMAIN inflight : o # c => inflight'[o] = inflight[o]
      BY <1>1, <1>3, <2>2, <3>1 DEF TypeOK
    <3>3. Flying(c) = 2 /\ Flying(c)' = 1 BY <1>3, <2>2, <3>2 DEF Flying
    <3>4. QED BY <2>2, <3>2, <3>3
  <2>3. QED BY <1>8, <2>1, <2>2
<1>10. \A o : o # c => Flying(o)' = Flying(o) BY <1>9 DEF Flying
<1>11. ASSUME NEW i \in DOMAIN proc'.reqs
       PROVE  /\ i + 1 \in DOMAIN proc.reqs /\ proc'.reqs[i] = proc.reqs[i + 1]
              /\ proc'.tokens[i] = proc.tokens[i + 1] /\ proc.reqs[i + 1] # c
  <2>1. /\ Tail(proc.reqs) \in Seq(Objs) /\ Len(Tail(proc.reqs)) = n - 1
        /\ \A k \in 1 .. n - 1 : Tail(proc.reqs)[k] = proc.reqs[k + 1]
    BY <1>2, <1>4, HeadTailProperties
  <2>2. \A k \in 1 .. n - 1 : Tail(proc.tokens)[k] = proc.tokens[k + 1]
    BY <1>4, <1>6, HeadTailProperties
  <2>3. i \in 1 .. n - 1 BY <1>2, <2>1, LenProperties
  <2>4. i + 1 \in 1 .. n /\ i + 1 # 1 BY <2>3
  <2>5. proc.reqs[i + 1] # proc.reqs[1] BY <1>1, <1>4, <1>5, <2>4 DEF InflightExact, Duplicated
  <2>6. QED BY <1>2, <1>4, <1>7, <2>1, <2>2, <2>3, <2>4, <2>5
<1>12. QED BY <1>3, <1>5, <1>7, <1>9, <1>10, <1>11


\* The host's list grows by the token the row has at that place.
LEMMA ResultHost ==
  ASSUME IInv, IInv', SInv, XInv, HInv, TakeResult, NEW c, c = Current,
         UNCHANGED <<pending, adder, batch, last>>, DOMAIN token_pool' = Slots,
         Newest' \subseteq Newest, TerminalOnce',
         \A o \in DOMAIN reqs : o # c => reqs'[o] = reqs[o],
         reqs'[c].class = reqs[c].class,
         reqs[c].class = "ChunkedReq" => reqs'[c] = reqs[c],
         \A o \in Newest' : token_pool'[reqs[o].slot] = token_pool[reqs[o].slot],
         c \in Newest' /\ reqs[c].class = "Req" =>
           /\ reqs'[c].slot = reqs[c].slot /\ reqs'[c].device = reqs[c].device
           /\ reqs'[c].max = reqs[c].max
           /\ reqs'[c].host = Append(reqs[c].host, Head(proc.tokens))
  PROVE  HInv'
<1>1. ResultsStored /\ QueuePrefixes /\ TypeOK BY DEF HInv, IInv
<1>2. /\ c \in DOMAIN inflight /\ c \in DOMAIN reqs /\ 1 \in DOMAIN proc.reqs
      /\ c = proc.reqs[1] /\ Head(proc.tokens) = proc.tokens[1]
      /\ Flying(c) \in Nat \ {0} /\ Flying(c)' = Flying(c) - 1
      /\ \A o : o # c => Flying(o)' = Flying(o)
      /\ \A i \in DOMAIN proc'.reqs :
           /\ i + 1 \in DOMAIN proc.reqs /\ proc'.reqs[i] = proc.reqs[i + 1]
           /\ proc'.tokens[i] = proc.tokens[i + 1] /\ proc.reqs[i + 1] # c
  BY ResultLands
<1>3. PICK token : token = Head(proc.tokens) OBVIOUS
<1>4. token \in Tokens \cup {None} BY <1>3, ResultTaken
<1>5. \A o \in Newest' : o \in Newest /\ o \in DOMAIN reqs BY SlotsApart
<1>6. Handed' = Handed BY DEF Handed
<1>7. ASSUME c \in Newest', reqs[c].class = "Req"
      PROVE  /\ Len(reqs[c].host) \in Nat /\ Len(reqs'[c].host) = Len(reqs[c].host) + 1
             /\ Len(reqs'[c].host) + Flying(c)' = Len(reqs[c].host) + Flying(c)
             /\ reqs'[c].host \in Texts /\ reqs'[c].host[Len(reqs[c].host) + 1] = token
             /\ \A i \in 1 .. Len(reqs[c].host) : reqs'[c].host[i] = reqs[c].host[i]
  <2>1. reqs[c].host \in Texts BY <1>5, <1>7 DEF HInv, Stored
  <2>2. reqs'[c].host = Append(reqs[c].host, token) BY <1>3, <1>7
  <2>3. /\ Len(reqs[c].host) \in Nat /\ reqs'[c].host \in Texts
        /\ Len(reqs'[c].host) = Len(reqs[c].host) + 1
        /\ reqs'[c].host[Len(reqs[c].host) + 1] = token
        /\ \A i \in 1 .. Len(reqs[c].host) : reqs'[c].host[i] = reqs[c].host[i]
    BY <1>4, <2>1, <2>2, AppendElements, LenProperties DEF Texts
  <2>4. Len(reqs'[c].host) + Flying(c)' = Len(reqs[c].host) + Flying(c)
    BY <1>2, <2>3
  <2>5. QED BY <2>3, <2>4
<1>8. ASSUME NEW o \in Newest' PROVE Stored(o)'
  <2>1. Stored(o) BY <1>5 DEF HInv
  <2>2. CASE o # c
    <3>1. reqs'[o] = reqs[o] /\ Flying(o)' = Flying(o) BY <1>2, <1>5, <2>2
    <3>2. QED BY <1>6, <2>1, <3>1, StoredKept
  <2>3. CASE o = c /\ reqs[c].class = "ChunkedReq"
    <3>1. reqs'[c] = reqs[c] /\ reqs[c].class # "Req" BY <2>3
    <3>2. QED BY <1>6, <2>1, <2>3, <3>1 DEF Stored, Texts
  <2>4. CASE o = c /\ reqs[c].class = "Req"
    <3> DEFINE pool == token_pool[reqs[c].slot]
    <3>1. /\ reqs'[c].slot = reqs[c].slot /\ reqs'[c].device = reqs[c].device
          /\ reqs'[c].max = reqs[c].max /\ reqs'[c].class = "Req"
          /\ token_pool'[reqs'[c].slot] = pool
      BY <2>4
    <3>2. /\ pool \in Texts /\ reqs[c].device = Len(reqs[c].host) + Flying(c)
          /\ Len(pool) = IF reqs[c].device <= reqs[c].max THEN reqs[c].device ELSE reqs[c].max
          /\ \A i \in 1 .. Len(reqs[c].host) : i <= Len(pool) => pool[i] = reqs[c].host[i]
      BY <2>1, <2>4 DEF Stored
    <3>3. Len(reqs[c].host) + 1 <= Len(pool) => pool[Len(reqs[c].host) + 1] = token
      BY <1>1, <1>2, <1>3, <1>5, <2>4 DEF ResultsStored, Landing
    <3> HIDE DEF pool
    <3>4. ASSUME NEW i \in 1 .. Len(reqs'[c].host), i <= Len(pool) PROVE pool[i] = reqs'[c].host[i]
      <4>0. Len(reqs[c].host) \in Nat /\ Len(reqs'[c].host) = Len(reqs[c].host) + 1 BY <1>7, <2>4
      <4>1. CASE i = Len(reqs[c].host) + 1 BY <1>7, <2>4, <3>3, <3>4, <4>1
      <4>2. CASE i # Len(reqs[c].host) + 1
        <5>1. i \in 1 .. Len(reqs[c].host) BY <4>0, <4>2
        <5>2. QED BY <1>7, <2>4, <3>2, <3>4, <5>1
      <4>3. QED BY <4>1, <4>2
    <3>5. reqs'[c].device = Len(reqs'[c].host) + Flying(c)' BY <1>7, <2>4, <3>1, <3>2
    <3>6. reqs'[c].class # "ChunkedReq" BY <3>1
    <3>7. QED BY <1>7, <2>4, <3>1, <3>2, <3>4, <3>5, <3>6 DEF Stored, Texts
  <2>5. reqs[o].class \in {"Req", "ChunkedReq"} BY <1>1, <1>5 DEF TypeOK
  <2>6. QED BY <2>2, <2>3, <2>4, <2>5
<1>9. ResultsStored'
  <2>1. ASSUME NEW i \in DOMAIN last.reqs
        PROVE  LET o == last.reqs[i] IN Landing(o, Len(reqs[o].host) + Flying(o), last.tokens[i])'
    <3>1. PICK o : o = last.reqs[i] OBVIOUS
    <3>2. Landing(o, Len(reqs[o].host) + Flying(o), last.tokens[i]) BY <1>1, <3>1 DEF ResultsStored
    <3>3. CASE o \in Newest' /\ reqs'[o].class = "Req"
      <4>1. o \in Newest /\ reqs[o].class = "Req" BY <1>2, <1>5, <3>3
      <4>2. /\ Len(reqs'[o].host) + Flying(o)' = Len(reqs[o].host) + Flying(o)
            /\ token_pool'[reqs'[o].slot] = token_pool[reqs[o].slot]
        <5>1. CASE o = c BY <1>7, <3>3, <4>1, <5>1
        <5>2. CASE o # c BY <1>2, <1>5, <3>3, <5>2
        <5>3. QED BY <5>1, <5>2
      <4>3. QED BY <3>1, <3>2, <4>1, <4>2 DEF Landing
    <3>4. CASE ~(o \in Newest' /\ reqs'[o].class = "Req") BY <3>1, <3>4 DEF Landing
    <3>5. QED BY <3>3, <3>4
  <2>2. ASSUME NEW i \in DOMAIN proc'.reqs
        PROVE  LET o == proc.reqs[i] IN Landing(o, Len(reqs[o].host) + 1, proc.tokens[i])'
    <3>1. PICK o : o = proc.reqs[i + 1] OBVIOUS
    <3>2. proc'.reqs[i] = o /\ proc'.tokens[i] = proc.tokens[i + 1] /\ o # c
      BY <1>2, <3>1
    <3>3. Landing(o, Len(reqs[o].host) + 1, proc.tokens[i + 1])
      BY <1>1, <1>2, <3>1 DEF ResultsStored
    <3>4. CASE o \in Newest'
      <4>1. reqs'[o] = reqs[o] /\ o \in Newest /\ token_pool'[reqs[o].slot] = token_pool[reqs[o].slot]
        BY <1>5, <3>2, <3>4
      <4>2. QED BY <3>2, <3>3, <4>1 DEF Landing
    <3>5. CASE o \notin Newest' BY <3>2, <3>5 DEF Landing
    <3>6. QED BY <3>4, <3>5
  <2>3. QED BY <2>1, <2>2 DEF ResultsStored
<1>10. QueuePrefixes'
  <2>1. \A o \in Holders \cap DOMAIN reqs' :
          /\ reqs'[o].class = reqs[o].class
          /\ reqs[o].class = "ChunkedReq" => reqs'[o].host = reqs[o].host
    BY HoldersTyped
  <2>2. QED BY <1>1, <2>1, CutsKept
<1>11. QED BY <1>8, <1>9, <1>10 DEF HInv, Slots

\* One result, whatever becomes of its request: only a released one loses its row.
LEMMA ProcessHost ==
  ASSUME IInv, IInv', SInv, XInv, HInv, ProcessTerminal \/ ProcessChunk \/ ProcessToken
  PROVE  HInv'
<1>0. PICK c : c = Current OBVIOUS
<1>1. /\ TypeOK /\ ObjectsPlaced /\ TerminalDrains /\ TerminalOnce /\ DOMAIN token_pool = Slots
  BY DEF IInv, Placement, HInv
<1>2. TakeResult /\ UNCHANGED <<pending, adder, batch, last>>
  BY DEF ProcessTerminal, ProcessChunk, ProcessToken
<1>3. /\ c \in DOMAIN inflight /\ c \in DOMAIN reqs
      /\ inflight[c] = 1 => c \notin DOMAIN inflight'
      /\ \A o \in DOMAIN inflight : o # c => inflight'[o] = inflight[o]
  BY <1>0, <1>2, ResultLands
<1>4. \/ /\ free_table' = Append(free_table, reqs[c].slot)
         /\ c \in Newest /\ Newest' = Newest \ {c}
      \/ free_table' = free_table /\ Newest' = Newest
  BY <1>0, ProcessSlots
<1>5. free_table \in Seq(Slots) /\ reqs[c].slot \in Slots
      /\ free_table # Append(free_table, reqs[c].slot)
  <2>1. free_table \in Seq(Slots) /\ reqs[c].slot \in Slots BY <1>1, <1>3 DEF TypeOK
  <2>2. Len(Append(free_table, reqs[c].slot)) = Len(free_table) + 1 /\ Len(free_table) \in Nat
    BY <2>1, AppendElements, LenProperties
  <2>3. QED BY <2>1, <2>2
<1>6. ASSUME \/ free_table' = free_table /\ token_pool' = token_pool
             \/ /\ free_table' = Append(free_table, reqs[c].slot)
                /\ token_pool' = [token_pool EXCEPT ![reqs[c].slot] = <<>>]
      PROVE  /\ DOMAIN token_pool' = Slots /\ Newest' \subseteq Newest
             /\ \A o \in Newest' : token_pool'[reqs[o].slot] = token_pool[reqs[o].slot]
             /\ c \in Newest' => free_table' = free_table
  <2>1. CASE free_table' = free_table /\ token_pool' = token_pool BY <1>1, <1>4, <1>5, <2>1
  <2>2. CASE /\ free_table' = Append(free_table, reqs[c].slot)
             /\ token_pool' = [token_pool EXCEPT ![reqs[c].slot] = <<>>]
    <3>1. c \in Newest /\ Newest' = Newest \ {c} BY <1>4, <1>5, <2>2
    <3>2. \A o \in Newest' : o \in Newest /\ reqs[o].slot \in Slots /\ reqs[o].slot # reqs[c].slot
      BY <3>1, SlotsApart
    <3>3. QED BY <1>1, <2>2, <3>1, <3>2
  <2>3. QED BY <1>6, <2>1, <2>2
<1>7. CASE ProcessTerminal
  <2>1. /\ c \in terminal /\ reqs' = reqs /\ ReleaseIfLanded(terminal, reqs[c])
    BY <1>0, <1>7 DEF ProcessTerminal, Discarded
  <2>2. c \notin DOMAIN inflight' BY <1>1, <1>3, <2>1 DEF TerminalOnce
  <2>3. /\ free_table' = Append(free_table, reqs[c].slot) /\ terminal' = terminal \ {c}
        /\ token_pool' = [token_pool EXCEPT ![reqs[c].slot] = <<>>]
    BY <1>0, <2>1, <2>2 DEF ReleaseIfLanded, FreeReqResources
  <2>4. TerminalOnce' BY <1>1, <1>3, <2>3 DEF TerminalOnce, TerminalDrains
  <2>5. c \notin Newest' BY <1>4, <1>5, <2>3
  <2>6. QED BY <1>0, <1>2, <1>6, <2>1, <2>3, <2>4, <2>5, ResultHost
<1>8. CASE ProcessChunk
  <2>1. /\ c \notin terminal /\ reqs[c].class = "ChunkedReq"
        /\ UNCHANGED <<reqs, terminal, free_table, token_pool>>
    BY <1>0, <1>8 DEF ProcessChunk, Discarded, memory
  <2>2. TerminalOnce' BY <1>1, <1>3, <2>1 DEF TerminalOnce, TerminalDrains
  <2>3. QED BY <1>0, <1>2, <1>6, <2>1, <2>2, ResultHost
<1>9. CASE ProcessToken
  <2>1. /\ c \notin terminal /\ reqs[c].class = "Req" /\ reqs'[c].class = "Req"
        /\ \A o \in DOMAIN reqs : o # c => reqs'[o] = reqs[o]
        /\ reqs'[c].host = Append(reqs[c].host, Head(proc.tokens)) /\ reqs'[c].max = reqs[c].max
    BY <1>0, <1>9, TokenEffects
  <2>2. /\ reqs'[c].slot = reqs[c].slot /\ reqs'[c].device = reqs[c].device
        /\ \/ c \in DOMAIN inflight' /\ terminal' = terminal \cup {c}
           \/ terminal' = terminal
    BY <1>0, <1>3, <1>9, TokenMoves
  <2>3. \/ free_table' = free_table /\ token_pool' = token_pool
        \/ /\ free_table' = Append(free_table, reqs[c].slot)
           /\ token_pool' = [token_pool EXCEPT ![reqs[c].slot] = <<>>]
    <3> DEFINE r == [reqs[c] EXCEPT !.host = Append(@, Head(proc.tokens))]
    <3>1. \/ UNCHANGED <<free_table, token_pool>>
          \/ ReleaseIfLanded(terminal \cup {c}, r)
      BY <1>0, <1>9 DEF ProcessToken
    <3>2. r.slot = reqs[c].slot
      BY <1>1, <1>3 DEF ObjectsPlaced, IsReq, ReqFields
    <3> HIDE DEF r
    <3>3. QED BY <3>1, <3>2 DEF ReleaseIfLanded, FreeReqResources
  <2>4. TerminalOnce'
    <3>1. c \in DOMAIN inflight' => inflight'[c] = 1
      <4>1. inflight[c] \in {1, 2} BY <1>1, <1>3 DEF TypeOK
      <4>2. inflight' = OneBatchLess(c) BY <1>0, <1>2 DEF TakeResult
      <4>3. CASE inflight[c] = 1 BY <1>3, <4>3
      <4>4. CASE inflight[c] = 2
        <5>1. inflight' = [inflight EXCEPT ![c] = @ - 1] BY <4>2, <4>4 DEF OneBatchLess
        <5>2. QED BY <1>1, <1>3, <4>4, <5>1 DEF TypeOK
      <4>5. QED BY <4>1, <4>3, <4>4
    <3>2. \A o \in terminal : o # c /\ inflight'[o] = 1
      BY <1>1, <1>3, <2>1 DEF TerminalOnce, TerminalDrains
    <3>3. QED BY <2>2, <3>1, <3>2 DEF TerminalOnce
  <2>5. reqs[c].class # "ChunkedReq" BY <2>1
  <2>6. QED BY <1>0, <1>2, <1>6, <2>1, <2>2, <2>3, <2>4, <2>5, ResultHost
<1>10. QED BY <1>7, <1>8, <1>9

-----------------------------------------------------------------------------
(* The theorem of tokens.                                                  *)

\* Every step keeps host and device together.
LEMMA NextHInv == IInv /\ SInv /\ XInv /\ LInv /\ HInv /\ [Next]_vars => HInv'
<1> SUFFICES ASSUME IInv, SInv, XInv, LInv, HInv, [Next]_vars PROVE HInv' OBVIOUS
<1>1. IInv' BY NextIInv
<1>2. CASE UNCHANGED vars
  <2>1. UNCHANGED <<control, memory>> BY <1>2 DEF vars
  <2>2. Newest' = Newest /\ Handed' = Handed
    BY <2>1 DEF control, memory, Newest, Holders, Referenced, Handed
  <2>3. \A o : Flying(o)' = Flying(o) BY <2>1 DEF control, Flying
  <2>4. QED BY <1>1, <2>1, <2>2, <2>3, HostKept DEF control, memory, HInv, TerminalOnce
<1>3. CASE Receive BY <1>1, <1>3, ReceiveUserHost, ReceiveAbortHost DEF Receive
<1>4. CASE SelectDecode \/ SelectNothing \/ StartPrefill \/ StopAdmission
  BY <1>1, <1>4, SelectionHost
<1>5. CASE AdmitChunk \/ AdmitNew BY <1>1, <1>5, AdmitChunkHost, AdmitNewHost
<1>6. CASE Forward \/ ForwardOutOfPages \/ NoForward
  BY <1>1, <1>6, ForwardHost, NoForwardHost
<1>7. CASE ProcessTerminal \/ ProcessChunk \/ ProcessToken \/ EndProcess
  BY <1>1, <1>7, ProcessHost, EndProcessHost
<1>8. QED BY <1>2, <1>3, <1>4, <1>5, <1>6, <1>7 DEF Next, Step

\* When a request is cached the host's list reaches as far as what is cached, and tells
\* the tokens those pages were computed for (cache_req's insert_ids, taken from
\* req.input_ids while the device may be a batch ahead).
THEOREM HostCorrect == Spec => []HostCoversCached
<1>1. IInv /\ XInv /\ LInv /\ HInv => HostCoversCached
  <2> SUFFICES ASSUME IInv, XInv, LInv, HInv, NEW o \in Newest
               PROVE  LET r      == reqs[o]
                          pool   == token_pool[r.slot]
                          common == IF Len(r.host) < Len(pool) THEN Len(r.host) ELSE Len(pool)
                      IN  /\ o \in DOMAIN inflight => inflight[o] + Len(r.host) > r.cached
                          /\ o \notin DOMAIN inflight => r.cached <= Len(r.host)
                          /\ SubSeq(r.host, 1, common) = SubSeq(pool, 1, common)
    BY DEF HostCoversCached
  <2> DEFINE r    == reqs[o]
             pool == token_pool[r.slot]
             common == IF Len(r.host) < Len(pool) THEN Len(r.host) ELSE Len(pool)
  <2>1. TypeOK /\ Stored(o) /\ ObjectLengths /\ o \in DOMAIN reqs
    BY SlotsApart DEF IInv, HInv, LInv
  <2>2. r.cached \in Int /\ r.device \in Int /\ r.cached < r.device /\ r.class \in {"Req", "ChunkedReq"}
    BY <2>1 DEF TypeOK, ObjectLengths
  <2>3. /\ r.host \in Texts /\ pool \in Texts /\ Len(r.host) \in Nat /\ Len(pool) \in Nat
        /\ \A i \in 1 .. Len(r.host) : i <= Len(pool) => pool[i] = r.host[i]
        /\ r.class = "Req" => r.device = Len(r.host) + Flying(o)
        /\ r.class = "ChunkedReq" =>
             Len(pool) = Len(r.host) /\ (Len(pool) = r.device \/ Len(pool) = r.cached)
    BY <2>1, LenProperties DEF Stored, Texts
  <2>4. Flying(o) \in Nat /\ (o \in DOMAIN inflight => inflight[o] = Flying(o) /\ Flying(o) > 0)
        /\ (o \notin DOMAIN inflight => Flying(o) = 0)
    BY <2>1, FlyingCounts
  <2> HIDE DEF r, pool
  <2>5. Flying(o) + Len(r.host) > r.cached \/ (Len(r.host) >= r.cached /\ r.class = "ChunkedReq")
    BY <2>2, <2>3, <2>4
  <2>6. o \in DOMAIN inflight => inflight[o] + Len(r.host) > r.cached BY <2>2, <2>3, <2>4, <2>5
  <2>7. o \notin DOMAIN inflight => r.cached <= Len(r.host) BY <2>2, <2>3, <2>4, <2>5
  <2>8. SubSeq(r.host, 1, common) = SubSeq(pool, 1, common)
    <3>1. common \in Nat /\ common <= Len(r.host) /\ common <= Len(pool) BY <2>3
    <3> HIDE DEF common
    <3>2. \A i \in 1 .. common : i \in 1 .. Len(r.host) /\ i <= Len(pool) BY <2>3, <3>1
    <3>3. \A i \in 1 .. common : r.host[i] = pool[i] BY <2>3, <3>2
    <3>4. QED BY <2>3, <3>1, <3>3 DEF Texts
  <2>9. QED BY <2>6, <2>7, <2>8 DEF r, pool
<1>2. Spec => [](SInv /\ XInv /\ LInv)
  BY InitSInv, InitXInv, InitLInv, NextSInv, NextXInv, NextLInv, SchedulerInvariant, PTL DEF Spec
<1>3. Spec => []HInv BY InitHInv, NextHInv, SchedulerInvariant, <1>2, PTL DEF Spec
<1>4. QED BY <1>1, <1>2, <1>3, SchedulerInvariant, PTL

=============================================================================
