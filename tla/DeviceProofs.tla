----------------------------- MODULE DeviceProofs -----------------------------
(***************************************************************************)
(* Theorem of Device: for any slots, blocks of memory and batches, every   *)
(* operation reads what the operation before it in the program wrote, but  *)
(* for one tensor.  The invariant speaks of an operation by its position   *)
(* among all that were ever put into its stream, which does not change     *)
(* while operations are done and issued.                                   *)
(***************************************************************************)
EXTENDS Device, Integers, TLAPS

\* The locations an operation reads.
Reads(op) == {r[1] : r \in op.reads}

Kinds == {"admit", "prepare", "wait", "gather", "plan", "forward", "store"}

Operations ==
  [kind : Kinds, id : Nat, reads : SUBSET (Locations \X Nat), writes : SUBSET Locations, until : Nat]

\* The operations of queue q at their positions, when d are done.
Placed(q, d) == [p \in d + 1 .. d + Len(q) |-> q[p - d]]
EngineOps == Placed(queue["engine"], done["engine"])
SchedulerOps == Placed(queue["scheduler"], done["scheduler"])

\* A batch, or none.
IsBatch(d) ==
  /\ d = [block |-> d.block, slots |-> d.slots, id |-> d.id, copied |-> d.copied]
  /\ d.slots \subseteq Slots /\ d.id \in Nat /\ d.copied \in Nat /\ (d.copied > 0 => d.block \in Blocks)

TypeInv ==
  /\ overlap \in BOOLEAN /\ flashinfer \in BOOLEAN
  /\ pc \in {"select", "prepare", "launch", "process"}
  /\ running \subseteq Slots /\ ending \subseteq Slots /\ plan \subseteq Slots
  /\ IsBatch(data) /\ IsBatch(cur) /\ batches \in Nat /\ planned \in Nat
  /\ queue \in [Streams -> Seq(Operations)] /\ done \in [Streams -> Nat]
  /\ wrote \in [Locations -> Nat] /\ memory \in [Locations -> Nat]

\* What the two streams are for.
IsEngineOp(op) ==
  /\ Staging \notin op.writes /\ \A b \in Blocks : Tokens(b) \notin Reads(op)
  /\ overlap => \A b \in Blocks : Input(b) \notin op.writes

IsSchedulerOp(op) ==
  op.reads = {} /\ Staging \notin op.writes /\ \A b \in Blocks : Tokens(b) \notin op.writes

StreamInv ==
  /\ \A p \in DOMAIN EngineOps : IsEngineOp(EngineOps[p])
  /\ \A k \in DOMAIN SchedulerOps : IsSchedulerOp(SchedulerOps[k])
  /\ overlap \/ DOMAIN SchedulerOps = {}

\* The batches on the device or not yet processed.
Launched == {d \in {data, cur} : d.copied > 0}

BatchInv ==
  /\ pc \in {"select", "prepare"} => cur = None
  /\ pc = "launch" => /\ cur.copied = 0 /\ cur.block \in Blocks \ {data.block}
                      /\ cur.slots = plan /\ cur.id = Id(6)
  /\ pc = "process" => cur = None \/ cur.copied > 0
  /\ data = None \/ data.copied > 0
  /\ overlap \/ data = None
  /\ \A d \in Launched : d.slots \subseteq running \cup ending
  /\ \A d1, d2 \in Launched : d1.block = d2.block => d1 = d2

\* The tokens the host will read are those of its batch.
TokensInv ==
  /\ \A p \in DOMAIN EngineOps, b \in Blocks :
       Tokens(b) \in EngineOps[p].writes => \E d \in Launched : d.block = b /\ p <= d.copied
  /\ \A d \in Launched :
       IF d.copied > done["engine"]
       THEN /\ d.copied \in DOMAIN EngineOps
            /\ Tokens(d.block) \in EngineOps[d.copied].writes /\ EngineOps[d.copied].id = d.id
       ELSE memory[Tokens(d.block)] = d.id

\* The staging buffer holds what the plan still to be copied needs.
StagingInv ==
  \A p \in DOMAIN EngineOps : \A r \in EngineOps[p].reads :
    r[1] = Staging => flashinfer /\ p <= planned /\ r[2] = memory[Staging]

\* v is the version of l behind the operations of f at the positions P, which is base
\* before them.
IsVersion(f, l, P, base, v) ==
  \/ v = base /\ \A j \in P : l \notin f[j].writes
  \/ \E j \in P : l \in f[j].writes /\ v = f[j].id /\ \A j2 \in P : j < j2 => l \notin f[j2].writes

\* Behind position m all reads of l are as in the program.
InOrder(f, l, m, base, last) ==
  /\ \A p \in DOMAIN f : \A r \in f[p].reads :
       m < p /\ r[1] = l => IsVersion(f, l, {j \in DOMAIN f : m < j /\ j < p}, base, r[2])
  /\ IsVersion(f, l, {j \in DOMAIN f : m < j}, base, last)

\* One stream: whatever is read is as in the program.
NormalInv ==
  ~overlap => \A l \in Locations \ {Staging} : InOrder(EngineOps, l, 0, memory[l], wrote[l])

\* Before position i of f comes a wait for position p of the other stream.
Behind(f, i, p) == \E j \in DOMAIN f : j < i /\ f[j].kind = "wait" /\ f[j].until >= p

\* What the scheduler's stream has still to write belongs to the batch being made, or
\* to a batch that waits for it.
PendingInv ==
  \A k \in DOMAIN SchedulerOps :
    \/ pc = "prepare" /\ SchedulerOps[k].writes \subseteq Rows(plan)
    \/ pc = "launch" /\ SchedulerOps[k].writes \subseteq Rows(plan) \cup {Input(cur.block)}
    \/ SchedulerOps[k].writes = {}
    \/ \E d \in Launched :
         Behind(EngineOps, d.copied, k) /\ SchedulerOps[k].writes \subseteq Rows(d.slots) \cup {Input(d.block)}

\* A read of a batch's input, which only the store does without a guard.
ReadsInput(op, b) == op.kind # "store" /\ Input(b) \in Reads(op)

\* The input in block b, but for the store's reading.
InputOrdered(b) ==
  /\ \A p \in DOMAIN EngineOps :
       ReadsInput(EngineOps[p], b) =>
         /\ \A r \in EngineOps[p].reads : r[1] = Input(b) => r[2] = wrote[Input(b)]
         /\ \E d \in Launched : d.block = b /\ p <= d.copied
  /\ \A k \in DOMAIN SchedulerOps :
       Input(b) \in SchedulerOps[k].writes =>
         /\ SchedulerOps[k].id = wrote[Input(b)]
         /\ \A k2 \in DOMAIN SchedulerOps : Input(b) \in SchedulerOps[k2].writes => k2 = k
         /\ \A p \in DOMAIN EngineOps : ReadsInput(EngineOps[p], b) => Behind(EngineOps, p, k)
  /\ (\A k \in DOMAIN SchedulerOps : Input(b) \notin SchedulerOps[k].writes) =>
       memory[Input(b)] = wrote[Input(b)]

InputInv == overlap => \A b \in Blocks : InputOrdered(b)

\* Operation k of the scheduler's stream, s, writes location l between the operations
\* of the engine's stream, e, up to m and those behind m.
Parts(e, s, k, l, m, last) ==
  /\ \A p \in DOMAIN e :
       /\ p <= m => l \notin Reads(e[p]) /\ (l \in e[p].writes => Behind(s, k, p))
       /\ m < p /\ l \in e[p].writes \cup Reads(e[p]) => Behind(e, p, k)
  /\ InOrder(e, l, m, s[k].id, last)

\* The writes to row s that are still to come are in the order of the program.
RowOrdered(s) ==
  /\ (\A k \in DOMAIN SchedulerOps : Row(s) \notin SchedulerOps[k].writes) =>
       InOrder(EngineOps, Row(s), 0, memory[Row(s)], wrote[Row(s)])
  /\ \A k \in DOMAIN SchedulerOps :
       Row(s) \in SchedulerOps[k].writes =>
         /\ \A k2 \in DOMAIN SchedulerOps : Row(s) \in SchedulerOps[k2].writes => k2 = k
         /\ \E m \in 0 .. Issued("engine") :
              Parts(EngineOps, SchedulerOps, k, Row(s), m, wrote[Row(s)])

RowInv ==
  overlap =>
    \A s \in Slots :
      /\ RowOrdered(s)
      /\ \A p \in DOMAIN EngineOps :
           Row(s) \in Reads(EngineOps[p]) => \E d \in Launched : s \in d.slots /\ p <= d.copied
      /\ s \notin running \cup ending =>
           \A p \in DOMAIN EngineOps :
             Row(s) \in EngineOps[p].writes => Behind(SchedulerOps, Issued("scheduler") + 1, p)

DeviceInv ==
  /\ TypeInv /\ StreamInv /\ BatchInv /\ TokensInv /\ StagingInv
  /\ NormalInv /\ PendingInv /\ InputInv /\ RowInv /\ ReadsIntended

----------------------------------------------------------------------------
(* Streams *)

\* f without its entry at d, and f1 as f with more behind it.
Without(f, d) == [p \in DOMAIN f \ {d} |-> f[p]]
Extended(f, f1) ==
  /\ DOMAIN f \subseteq DOMAIN f1 /\ \A p \in DOMAIN f : f1[p] = f[p]
  /\ \A p \in DOMAIN f, n \in DOMAIN f1 \ DOMAIN f : p < n

\* Doing the first operation takes away the lowest position.
LEMMA PlacedTail ==
  ASSUME NEW O, NEW q \in Seq(O), NEW d \in Nat, q # <<>>
  PROVE  /\ d + 1 \in DOMAIN Placed(q, d) /\ Placed(q, d)[d + 1] = Head(q)
         /\ Placed(Tail(q), d + 1) = Without(Placed(q, d), d + 1)
<1>1. Len(q) >= 1 /\ Len(q) \in Nat /\ Len(Tail(q)) = Len(q) - 1 /\ Head(q) = q[1]
  OBVIOUS
<1>2. DOMAIN Placed(q, d) = d + 1 .. d + Len(q)
  BY DEF Placed
<1>3. d + 1 \in DOMAIN Placed(q, d) /\ Placed(q, d)[d + 1] = Head(q)
  BY <1>1 DEF Placed
<1>4. d + 1 + 1 .. d + 1 + Len(Tail(q)) = (d + 1 .. d + Len(q)) \ {d + 1}
  BY <1>1
<1>5. ASSUME NEW p \in (d + 1 .. d + Len(q)) \ {d + 1}
      PROVE  Tail(q)[p - (d + 1)] = q[p - d]
  <2>1. p - (d + 1) \in 1 .. Len(Tail(q)) /\ p - (d + 1) + 1 = p - d
    BY <1>1, <1>5
  <2> QED
    BY <2>1
<1>6. Placed(Tail(q), d + 1) = [p \in (d + 1 .. d + Len(q)) \ {d + 1} |-> q[p - d]]
  BY <1>4, <1>5 DEF Placed
<1>7. Without(Placed(q, d), d + 1) = [p \in (d + 1 .. d + Len(q)) \ {d + 1} |-> q[p - d]]
  BY <1>2 DEF Without, Placed
<1> QED
  BY <1>3, <1>6, <1>7

\* New operations come behind the others.
LEMMA PlacedAppend ==
  ASSUME NEW O, NEW q \in Seq(O), NEW ops \in Seq(O), NEW d \in Nat
  PROVE  /\ Extended(Placed(q, d), Placed(q \o ops, d))
         /\ DOMAIN Placed(q, d) = d + 1 .. d + Len(q)
         /\ DOMAIN Placed(q \o ops, d) = d + 1 .. d + Len(q) + Len(ops)
         /\ \A i \in 1 .. Len(ops) : Placed(q \o ops, d)[d + Len(q) + i] = ops[i]
<1>1. Len(q) \in Nat /\ Len(ops) \in Nat /\ Len(q \o ops) = Len(q) + Len(ops)
  OBVIOUS
<1>2. DOMAIN Placed(q, d) = d + 1 .. d + Len(q)
  BY DEF Placed
<1>3. DOMAIN Placed(q \o ops, d) = d + 1 .. d + Len(q) + Len(ops)
  BY <1>1 DEF Placed
<1>4. ASSUME NEW p \in d + 1 .. d + Len(q) PROVE Placed(q \o ops, d)[p] = Placed(q, d)[p]
  <2>1. p - d \in 1 .. Len(q)
    BY <1>1, <1>4
  <2>2. (q \o ops)[p - d] = q[p - d]
    BY <2>1
  <2> QED
    BY <1>1, <1>2, <1>3, <1>4, <2>2 DEF Placed
<1>5. ASSUME NEW i \in 1 .. Len(ops) PROVE Placed(q \o ops, d)[d + Len(q) + i] = ops[i]
  <2>1. d + Len(q) + i - d = Len(q) + i /\ d + Len(q) + i \in d + 1 .. d + Len(q) + Len(ops)
    BY <1>1, <1>5
  <2>2. (q \o ops)[Len(q) + i] = ops[i]
    BY <1>1, <1>5
  <2> QED
    BY <1>1, <1>3, <2>1, <2>2 DEF Placed
<1>6. Extended(Placed(q, d), Placed(q \o ops, d))
  BY <1>1, <1>2, <1>3, <1>4 DEF Extended
<1> QED
  BY <1>2, <1>3, <1>5, <1>6

\* The positions of the operations in the two streams.
LEMMA Positions ==
  ASSUME TypeInv
  PROVE  /\ done["engine"] \in Nat /\ done["scheduler"] \in Nat
         /\ Issued("engine") \in Nat /\ Issued("scheduler") \in Nat
         /\ DOMAIN EngineOps = done["engine"] + 1 .. Issued("engine")
         /\ DOMAIN SchedulerOps = done["scheduler"] + 1 .. Issued("scheduler")
         /\ \A p \in DOMAIN EngineOps : EngineOps[p] \in Operations
         /\ \A k \in DOMAIN SchedulerOps : SchedulerOps[k] \in Operations
<1>1. /\ done["engine"] \in Nat /\ done["scheduler"] \in Nat
      /\ queue["engine"] \in Seq(Operations) /\ queue["scheduler"] \in Seq(Operations)
  BY DEF TypeInv, Streams
<1>2. ASSUME NEW q \in Seq(Operations), NEW d \in Nat, NEW p \in DOMAIN Placed(q, d)
      PROVE  Placed(q, d)[p] \in Operations
  <2>1. p - d \in 1 .. Len(q) /\ Placed(q, d)[p] = q[p - d]
    BY <1>2 DEF Placed
  <2> QED
    BY <2>1
<1>3. /\ \A p \in DOMAIN EngineOps : EngineOps[p] \in Operations
      /\ \A k \in DOMAIN SchedulerOps : SchedulerOps[k] \in Operations
  BY <1>1, <1>2 DEF EngineOps, SchedulerOps
<1> QED
  BY <1>1, <1>3 DEF EngineOps, SchedulerOps, Placed, Issued

\* The engine's stream does its first operation.
EngineDoes(d, op) ==
  /\ d = done["engine"] + 1 /\ d \in DOMAIN EngineOps /\ op = EngineOps[d]
  /\ op.kind = "wait" => done["scheduler"] >= op.until
  /\ EngineOps' = Without(EngineOps, d) /\ SchedulerOps' = SchedulerOps
  /\ done'["engine"] = d /\ done'["scheduler"] = done["scheduler"]
  /\ Issued("engine")' = Issued("engine") /\ Issued("scheduler")' = Issued("scheduler")
  /\ memory' = Written(memory, op.writes, op.id)
  /\ faults' = faults \cup {<<op.kind, r[1][1]>> : r \in {x \in op.reads : memory[x[1]] # x[2]}}
  /\ UNCHANGED <<overlap, flashinfer, pc, plan, host, wrote>>

SchedulerDoes(d, op) ==
  /\ d = done["scheduler"] + 1 /\ d \in DOMAIN SchedulerOps /\ op = SchedulerOps[d]
  /\ op.kind = "wait" => done["engine"] >= op.until
  /\ SchedulerOps' = Without(SchedulerOps, d) /\ EngineOps' = EngineOps
  /\ done'["scheduler"] = d /\ done'["engine"] = done["engine"]
  /\ Issued("engine")' = Issued("engine") /\ Issued("scheduler")' = Issued("scheduler")
  /\ memory' = Written(memory, op.writes, op.id)
  /\ faults' = faults \cup {<<op.kind, r[1][1]>> : r \in {x \in op.reads : memory[x[1]] # x[2]}}
  /\ UNCHANGED <<overlap, flashinfer, pc, plan, host, wrote>>

LEMMA ExecuteEngine ==
  ASSUME TypeInv, Execute("engine")
  PROVE  TypeInv' /\ EngineDoes(done["engine"] + 1, EngineOps[done["engine"] + 1])
<1>1. /\ done["engine"] \in Nat /\ done["scheduler"] \in Nat
      /\ queue["engine"] \in Seq(Operations) /\ queue["scheduler"] \in Seq(Operations)
      /\ queue["engine"] # <<>>
  BY DEF TypeInv, Streams, Execute
<1>2. PICK q \in Seq(Operations), d \in Nat : q = queue["engine"] /\ d = done["engine"]
  BY <1>1
<1>3. /\ d + 1 \in DOMAIN Placed(q, d) /\ Placed(q, d)[d + 1] = Head(q)
      /\ Placed(Tail(q), d + 1) = Without(Placed(q, d), d + 1)
  <2>1. q # <<>>
    BY <1>1, <1>2
  <2> QED
    BY <2>1, PlacedTail
<1>4. /\ queue' = [queue EXCEPT !["engine"] = Tail(@)] /\ done' = [done EXCEPT !["engine"] = @ + 1]
      /\ Other("engine") = "scheduler"
  BY DEF Execute, Other
<1>5. /\ queue'["engine"] = Tail(q) /\ done'["engine"] = d + 1
      /\ queue'["scheduler"] = queue["scheduler"] /\ done'["scheduler"] = done["scheduler"]
  BY <1>2, <1>4 DEF TypeInv, Streams
<1>6. EngineOps = Placed(q, d) /\ EngineOps' = Placed(Tail(q), d + 1) /\ SchedulerOps' = SchedulerOps
  BY <1>2, <1>5 DEF EngineOps, SchedulerOps
<1>7. Issued("engine")' = Issued("engine") /\ Issued("scheduler")' = Issued("scheduler")
  BY <1>1, <1>2, <1>5 DEF Issued
<1>8. Head(q) \in Operations /\ Tail(q) \in Seq(Operations)
  BY <1>1, <1>2
<1>9. PICK op \in Operations : op = Head(q)
  BY <1>8
<1>10. /\ op.kind = "wait" => done["scheduler"] >= op.until
       /\ faults' = faults \cup {<<op.kind, r[1][1]>> : r \in {x \in op.reads : memory[x[1]] # x[2]}}
       /\ memory' = Written(memory, op.writes, op.id)
       /\ UNCHANGED <<overlap, flashinfer, pc, plan, host, wrote>>
  BY <1>2, <1>4, <1>9 DEF Execute
<1>11. EngineDoes(d + 1, op)
  BY <1>2, <1>3, <1>5, <1>6, <1>7, <1>9, <1>10 DEF EngineDoes
<1>12. memory' \in [Locations -> Nat]
  BY <1>10, op \in Operations DEF Written, Operations, TypeInv
<1>13. queue' \in [Streams -> Seq(Operations)] /\ done' \in [Streams -> Nat]
  BY <1>2, <1>4, <1>8 DEF TypeInv, Streams
<1>14. TypeInv'
  BY <1>10, <1>12, <1>13 DEF TypeInv, host, IsBatch
<1> QED
  BY <1>2, <1>3, <1>6, <1>9, <1>11, <1>14

LEMMA ExecuteScheduler ==
  ASSUME TypeInv, Execute("scheduler")
  PROVE  TypeInv' /\ SchedulerDoes(done["scheduler"] + 1, SchedulerOps[done["scheduler"] + 1])
<1>1. /\ done["scheduler"] \in Nat /\ done["engine"] \in Nat
      /\ queue["scheduler"] \in Seq(Operations) /\ queue["engine"] \in Seq(Operations)
      /\ queue["scheduler"] # <<>>
  BY DEF TypeInv, Streams, Execute
<1>2. PICK q \in Seq(Operations), d \in Nat : q = queue["scheduler"] /\ d = done["scheduler"]
  BY <1>1
<1>3. /\ d + 1 \in DOMAIN Placed(q, d) /\ Placed(q, d)[d + 1] = Head(q)
      /\ Placed(Tail(q), d + 1) = Without(Placed(q, d), d + 1)
  <2>1. q # <<>>
    BY <1>1, <1>2
  <2> QED
    BY <2>1, PlacedTail
<1>4. /\ queue' = [queue EXCEPT !["scheduler"] = Tail(@)] /\ done' = [done EXCEPT !["scheduler"] = @ + 1]
      /\ Other("scheduler") = "engine"
  BY DEF Execute, Other
<1>5. /\ queue'["scheduler"] = Tail(q) /\ done'["scheduler"] = d + 1
      /\ queue'["engine"] = queue["engine"] /\ done'["engine"] = done["engine"]
  BY <1>2, <1>4 DEF TypeInv, Streams
<1>6. SchedulerOps = Placed(q, d) /\ SchedulerOps' = Placed(Tail(q), d + 1) /\ EngineOps' = EngineOps
  BY <1>2, <1>5 DEF SchedulerOps, EngineOps
<1>7. Issued("scheduler")' = Issued("scheduler") /\ Issued("engine")' = Issued("engine")
  <2>1. Len(Tail(q)) = Len(q) - 1 /\ Len(q) \in Nat
    BY <1>1, <1>2
  <2>2. Issued("scheduler")' = d + 1 + Len(Tail(q)) /\ Issued("scheduler") = d + Len(q)
    BY <1>2, <1>5 DEF Issued
  <2>3. Issued("engine")' = Issued("engine")
    BY <1>5 DEF Issued
  <2>4. d + 1 + Len(Tail(q)) = d + Len(q)
    <3>1. PICK n \in Nat, k \in Int : n = Len(q) /\ k = Len(Tail(q))
      BY <2>1
    <3>4. k = n - 1
      BY <2>1, <3>1
    <3>2. d + 1 + k = d + n
      BY ONLY d \in Nat, n \in Nat, k \in Int, <3>4
    <3> QED
      BY <3>1, <3>2
  <2>5. Issued("scheduler")' = Issued("scheduler")
    BY <2>2, <2>4
  <2> QED
    BY <2>3, <2>5
<1>8. Head(q) \in Operations /\ Tail(q) \in Seq(Operations)
  BY <1>1, <1>2
<1>9. PICK op \in Operations : op = Head(q)
  BY <1>8
<1>10. /\ op.kind = "wait" => done["engine"] >= op.until
       /\ faults' = faults \cup {<<op.kind, r[1][1]>> : r \in {x \in op.reads : memory[x[1]] # x[2]}}
       /\ memory' = Written(memory, op.writes, op.id)
       /\ UNCHANGED <<overlap, flashinfer, pc, plan, host, wrote>>
  BY <1>2, <1>4, <1>9 DEF Execute
<1>11. SchedulerDoes(d + 1, op)
  BY <1>2, <1>3, <1>5, <1>6, <1>7, <1>9, <1>10 DEF SchedulerDoes
<1>12. memory' \in [Locations -> Nat]
  BY <1>10, op \in Operations DEF Written, Operations, TypeInv
<1>13. queue' \in [Streams -> Seq(Operations)] /\ done' \in [Streams -> Nat]
  BY <1>2, <1>4, <1>8 DEF TypeInv, Streams
<1>14. TypeInv'
  BY <1>10, <1>12, <1>13 DEF TypeInv, host, IsBatch
<1> QED
  BY <1>2, <1>3, <1>6, <1>9, <1>11, <1>14

\* An operation is put into one of the streams.
EngineIssues(op) ==
  /\ Extended(EngineOps, EngineOps') /\ SchedulerOps' = SchedulerOps
  /\ DOMAIN EngineOps' = DOMAIN EngineOps \cup {Issued("engine") + 1}
  /\ EngineOps'[Issued("engine") + 1] = op
  /\ Issued("engine")' = Issued("engine") + 1 /\ Issued("scheduler")' = Issued("scheduler")

SchedulerIssues(op) ==
  /\ Extended(SchedulerOps, SchedulerOps') /\ EngineOps' = EngineOps
  /\ DOMAIN SchedulerOps' = DOMAIN SchedulerOps \cup {Issued("scheduler") + 1}
  /\ SchedulerOps'[Issued("scheduler") + 1] = op
  /\ Issued("scheduler")' = Issued("scheduler") + 1 /\ Issued("engine")' = Issued("engine")

LEMMA IssueEngine ==
  ASSUME TypeInv, NEW op \in Operations,
         queue' = [queue EXCEPT !["engine"] = Append(@, op)], done' = done
  PROVE  queue' \in [Streams -> Seq(Operations)] /\ EngineIssues(op)
<1>1. /\ done["engine"] \in Nat /\ done["scheduler"] \in Nat
      /\ queue["engine"] \in Seq(Operations) /\ queue["scheduler"] \in Seq(Operations)
  BY DEF TypeInv, Streams
<1>2. PICK q \in Seq(Operations), d \in Nat : q = queue["engine"] /\ d = done["engine"]
  BY <1>1
<1>3. PICK ops \in Seq(Operations) : ops = <<op>>
  <2>1. <<op>> \in Seq(Operations)
    OBVIOUS
  <2> QED
    BY <2>1
<1>4. Append(q, op) = q \o ops /\ Len(ops) = 1 /\ ops[1] = op /\ Len(q) \in Nat
  BY <1>3
<1>5. /\ Extended(Placed(q, d), Placed(q \o ops, d))
      /\ DOMAIN Placed(q, d) = d + 1 .. d + Len(q)
      /\ DOMAIN Placed(q \o ops, d) = d + 1 .. d + Len(q) + Len(ops)
      /\ \A i \in 1 .. Len(ops) : Placed(q \o ops, d)[d + Len(q) + i] = ops[i]
  BY PlacedAppend
<1>6. queue'["engine"] = q \o ops /\ queue'["scheduler"] = queue["scheduler"]
  BY <1>2, <1>4 DEF TypeInv, Streams
<1>7. EngineOps = Placed(q, d) /\ EngineOps' = Placed(q \o ops, d) /\ SchedulerOps' = SchedulerOps
  BY <1>2, <1>6 DEF EngineOps, SchedulerOps
<1>8. Len(q \o ops) = Len(q) + 1
  BY <1>4
<1>9. /\ Issued("engine") = d + Len(q) /\ Issued("engine")' = d + Len(q) + 1
      /\ Issued("scheduler")' = Issued("scheduler")
  <2>1. Issued("engine") = d + Len(q)
    BY <1>2 DEF Issued
  <2>2. Issued("engine")' = done'["engine"] + Len(queue'["engine"])
    BY DEF Issued
  <2>3. Issued("scheduler")' = done'["scheduler"] + Len(queue'["scheduler"])
    BY DEF Issued
  <2>4. Issued("scheduler")' = Issued("scheduler")
    BY <1>6, <2>3 DEF Issued
  <2>5. Issued("engine")' = d + (Len(q) + 1)
    BY <1>2, <1>6, <1>8, <2>2
  <2> QED
    BY <1>4, <2>1, <2>4, <2>5
<1>10. DOMAIN EngineOps' = DOMAIN EngineOps \cup {Issued("engine") + 1}
  BY <1>4, <1>5, <1>7, <1>9
<1>11. EngineOps'[Issued("engine") + 1] = op
  BY <1>4, <1>5, <1>7, <1>9
<1>12. queue' \in [Streams -> Seq(Operations)]
  BY DEF TypeInv, Streams
<1> QED
  BY <1>5, <1>7, <1>9, <1>10, <1>11, <1>12 DEF EngineIssues

LEMMA IssueScheduler ==
  ASSUME TypeInv, NEW op \in Operations,
         queue' = [queue EXCEPT !["scheduler"] = Append(@, op)], done' = done
  PROVE  queue' \in [Streams -> Seq(Operations)] /\ SchedulerIssues(op)
<1>1. /\ done["scheduler"] \in Nat /\ done["engine"] \in Nat
      /\ queue["scheduler"] \in Seq(Operations) /\ queue["engine"] \in Seq(Operations)
  BY DEF TypeInv, Streams
<1>2. PICK q \in Seq(Operations), d \in Nat : q = queue["scheduler"] /\ d = done["scheduler"]
  BY <1>1
<1>3. PICK ops \in Seq(Operations) : ops = <<op>>
  <2>1. <<op>> \in Seq(Operations)
    OBVIOUS
  <2> QED
    BY <2>1
<1>4. Append(q, op) = q \o ops /\ Len(ops) = 1 /\ ops[1] = op /\ Len(q) \in Nat
  BY <1>3
<1>5. /\ Extended(Placed(q, d), Placed(q \o ops, d))
      /\ DOMAIN Placed(q, d) = d + 1 .. d + Len(q)
      /\ DOMAIN Placed(q \o ops, d) = d + 1 .. d + Len(q) + Len(ops)
      /\ \A i \in 1 .. Len(ops) : Placed(q \o ops, d)[d + Len(q) + i] = ops[i]
  BY PlacedAppend
<1>6. queue'["scheduler"] = q \o ops /\ queue'["engine"] = queue["engine"]
  BY <1>2, <1>4 DEF TypeInv, Streams
<1>7. SchedulerOps = Placed(q, d) /\ SchedulerOps' = Placed(q \o ops, d) /\ EngineOps' = EngineOps
  BY <1>2, <1>6 DEF SchedulerOps, EngineOps
<1>8. Len(q \o ops) = Len(q) + 1
  BY <1>4
<1>9. /\ Issued("scheduler") = d + Len(q) /\ Issued("scheduler")' = d + Len(q) + 1
      /\ Issued("engine")' = Issued("engine")
  <2>1. Issued("scheduler") = d + Len(q)
    BY <1>2 DEF Issued
  <2>2. Issued("scheduler")' = done'["scheduler"] + Len(queue'["scheduler"])
    BY DEF Issued
  <2>3. Issued("engine")' = done'["engine"] + Len(queue'["engine"])
    BY DEF Issued
  <2>4. Issued("engine")' = Issued("engine")
    BY <1>6, <2>3 DEF Issued
  <2>5. Issued("scheduler")' = d + (Len(q) + 1)
    BY <1>2, <1>6, <1>8, <2>2
  <2> QED
    BY <1>4, <2>1, <2>4, <2>5
<1>10. DOMAIN SchedulerOps' = DOMAIN SchedulerOps \cup {Issued("scheduler") + 1}
  BY <1>4, <1>5, <1>7, <1>9
<1>11. SchedulerOps'[Issued("scheduler") + 1] = op
  BY <1>4, <1>5, <1>7, <1>9
<1>12. queue' \in [Streams -> Seq(Operations)]
  BY DEF TypeInv, Streams
<1> QED
  BY <1>5, <1>7, <1>9, <1>10, <1>11, <1>12 DEF SchedulerIssues


----------------------------------------------------------------------------
(* Versions *)

\* An operation of a stream has a version to compare with what it found.
LEMMA OperationFields ==
  ASSUME NEW op \in Operations
  PROVE  /\ op.id \in Nat /\ op.writes \subseteq Locations /\ op.reads \subseteq Locations \X Nat
         /\ \A r \in op.reads : r[1] \in Locations /\ r[1] \in Reads(op)
         /\ op.until \in Nat
  BY DEF Operations, Reads

\* The first of the operations is done: what it read was base, and what it leaves takes
\* the place of base.
LEMMA InOrderDone ==
  ASSUME NEW f, NEW d \in DOMAIN f, DOMAIN f \subseteq Nat, \A p \in DOMAIN f : d <= p,
         NEW l, NEW m \in Nat, m < d, NEW base, NEW last, InOrder(f, l, m, base, last)
  PROVE  /\ \A r \in f[d].reads : r[1] = l => r[2] = base
         /\ InOrder(Without(f, d), l, m, IF l \in f[d].writes THEN f[d].id ELSE base, last)
<1> DEFINE base1 == IF l \in f[d].writes THEN f[d].id ELSE base
           g == Without(f, d)
<1>1. DOMAIN g = DOMAIN f \ {d} /\ \A p \in DOMAIN g : g[p] = f[p]
  BY DEF Without
<1>2. ASSUME NEW r \in f[d].reads, r[1] = l PROVE r[2] = base
  <2>1. IsVersion(f, l, {j \in DOMAIN f : m < j /\ j < d}, base, r[2])
    BY <1>2 DEF InOrder
  <2>2. {j \in DOMAIN f : m < j /\ j < d} = {}
    OBVIOUS
  <2> QED
    BY <2>1, <2>2 DEF IsVersion
<1>3. ASSUME NEW P \in SUBSET DOMAIN f, d \in P, NEW v, IsVersion(f, l, P, base, v)
      PROVE  IsVersion(g, l, P \ {d}, base1, v)
  <2>1. CASE v = base /\ \A j \in P : l \notin f[j].writes
    <3>1. v = base1 /\ \A j \in P \ {d} : l \notin g[j].writes
      BY <1>1, <1>3, <2>1
    <3> QED
      BY <3>1 DEF IsVersion
  <2>2. ASSUME NEW j \in P, l \in f[j].writes, v = f[j].id,
               \A j2 \in P : j < j2 => l \notin f[j2].writes
        PROVE  IsVersion(g, l, P \ {d}, base1, v)
    <3>1. CASE j = d
      <4>1. \A j2 \in P \ {d} : d < j2
        BY <1>3
      <4>2. v = base1 /\ \A j2 \in P \ {d} : l \notin g[j2].writes
        BY <1>1, <2>2, <3>1, <4>1
      <4> QED
        BY <4>2 DEF IsVersion
    <3>2. CASE j # d
      <4>1. /\ j \in P \ {d} /\ l \in g[j].writes /\ v = g[j].id
            /\ \A j2 \in P \ {d} : j < j2 => l \notin g[j2].writes
        BY <1>1, <2>2, <3>2
      <4> QED
        BY <4>1 DEF IsVersion
    <3> QED
      BY <3>1, <3>2
  <2> QED
    BY <1>3, <2>1, <2>2 DEF IsVersion
<1>4. ASSUME NEW p \in DOMAIN g, NEW r \in g[p].reads, m < p, r[1] = l
      PROVE  IsVersion(g, l, {j \in DOMAIN g : m < j /\ j < p}, base1, r[2])
  <2>1. IsVersion(f, l, {j \in DOMAIN f : m < j /\ j < p}, base, r[2])
    BY <1>1, <1>4 DEF InOrder
  <2>2. PICK P \in SUBSET DOMAIN f : P = {j \in DOMAIN f : m < j /\ j < p}
    OBVIOUS
  <2>3. d \in P /\ {j \in DOMAIN g : m < j /\ j < p} = P \ {d}
    BY <1>1, <1>4, <2>2
  <2>4. IsVersion(g, l, P \ {d}, base1, r[2])
    BY <1>3, <2>1, <2>2, <2>3
  <2> QED
    BY <2>3, <2>4
<1>5. IsVersion(g, l, {j \in DOMAIN g : m < j}, base1, last)
  <2>1. IsVersion(f, l, {j \in DOMAIN f : m < j}, base, last)
    BY DEF InOrder
  <2>2. PICK P \in SUBSET DOMAIN f : P = {j \in DOMAIN f : m < j}
    OBVIOUS
  <2>3. d \in P /\ {j \in DOMAIN g : m < j} = P \ {d}
    BY <1>1, <2>2
  <2>4. IsVersion(g, l, P \ {d}, base1, last)
    BY <1>3, <2>1, <2>2, <2>3
  <2> QED
    BY <2>3, <2>4
<1>6. InOrder(g, l, m, base1, last)
  BY <1>4, <1>5 DEF InOrder
<1> QED
  BY <1>2, <1>6

\* An operation up to position m plays no part in what comes behind m.
LEMMA InOrderUnder ==
  ASSUME NEW f, NEW d \in DOMAIN f, NEW l, NEW m \in Nat, DOMAIN f \subseteq Nat, d <= m,
         NEW base, NEW last, InOrder(f, l, m, base, last)
  PROVE  InOrder(Without(f, d), l, m, base, last)
<1> DEFINE g == Without(f, d)
<1>1. DOMAIN g = DOMAIN f \ {d} /\ \A p \in DOMAIN g : g[p] = f[p]
  BY DEF Without
<1>2. ASSUME NEW P \in SUBSET (DOMAIN f \ {d}), NEW v, IsVersion(f, l, P, base, v)
      PROVE  IsVersion(g, l, P, base, v)
  <2>1. \A j \in P : g[j] = f[j]
    BY <1>1
  <2> QED
    BY <1>2, <2>1 DEF IsVersion
<1>3. ASSUME NEW p \in DOMAIN g, NEW r \in g[p].reads, m < p, r[1] = l
      PROVE  IsVersion(g, l, {j \in DOMAIN g : m < j /\ j < p}, base, r[2])
  <2>1. IsVersion(f, l, {j \in DOMAIN f : m < j /\ j < p}, base, r[2])
    BY <1>1, <1>3 DEF InOrder
  <2>2. {j \in DOMAIN g : m < j /\ j < p} = {j \in DOMAIN f : m < j /\ j < p}
    BY <1>1
  <2>3. PICK P \in SUBSET (DOMAIN f \ {d}) : P = {j \in DOMAIN f : m < j /\ j < p}
    <3>1. {j \in DOMAIN f : m < j /\ j < p} \subseteq DOMAIN f \ {d}
      OBVIOUS
    <3> QED
      BY <3>1
  <2>4. IsVersion(g, l, P, base, r[2])
    BY <1>2, <2>1, <2>3
  <2> QED
    BY <2>2, <2>3, <2>4
<1>4. IsVersion(g, l, {j \in DOMAIN g : m < j}, base, last)
  <2>1. IsVersion(f, l, {j \in DOMAIN f : m < j}, base, last)
    BY DEF InOrder
  <2>2. {j \in DOMAIN g : m < j} = {j \in DOMAIN f : m < j}
    BY <1>1
  <2>3. PICK P \in SUBSET (DOMAIN f \ {d}) : P = {j \in DOMAIN f : m < j}
    <3>1. {j \in DOMAIN f : m < j} \subseteq DOMAIN f \ {d}
      OBVIOUS
    <3> QED
      BY <3>1
  <2>4. IsVersion(g, l, P, base, last)
    BY <1>2, <2>1, <2>3
  <2> QED
    BY <2>2, <2>3, <2>4
<1> QED
  BY <1>3, <1>4 DEF InOrder

\* What does not touch l up to m might as well be counted.
LEMMA InOrderAll ==
  ASSUME NEW f, NEW l, NEW m \in Nat, DOMAIN f \subseteq Nat \ {0}, NEW base, NEW last,
         InOrder(f, l, m, base, last),
         \A p \in DOMAIN f : p <= m => l \notin Reads(f[p]) /\ l \notin f[p].writes
  PROVE  InOrder(f, l, 0, base, last)
<1>1. ASSUME NEW P \in SUBSET DOMAIN f, NEW v, IsVersion(f, l, {j \in P : m < j}, base, v)
      PROVE  IsVersion(f, l, P, base, v)
  <2>1. CASE v = base /\ \A j \in {x \in P : m < x} : l \notin f[j].writes
    <3>1. \A j \in P : l \notin f[j].writes
      BY <2>1
    <3> QED
      BY <2>1, <3>1 DEF IsVersion
  <2>2. ASSUME NEW j \in {x \in P : m < x}, l \in f[j].writes, v = f[j].id,
               \A j2 \in {x \in P : m < x} : j < j2 => l \notin f[j2].writes
        PROVE  IsVersion(f, l, P, base, v)
    <3>1. \A j2 \in P : j < j2 => l \notin f[j2].writes
      BY <2>2
    <3>2. j \in P
      OBVIOUS
    <3> QED
      BY <2>2, <3>1, <3>2 DEF IsVersion
  <2> QED
    BY <1>1, <2>1, <2>2 DEF IsVersion
<1>2. ASSUME NEW p \in DOMAIN f, NEW r \in f[p].reads, 0 < p, r[1] = l
      PROVE  IsVersion(f, l, {j \in DOMAIN f : 0 < j /\ j < p}, base, r[2])
  <2>1. m < p
    BY <1>2 DEF Reads
  <2>2. IsVersion(f, l, {j \in DOMAIN f : m < j /\ j < p}, base, r[2])
    BY <1>2, <2>1 DEF InOrder
  <2>3. PICK P \in SUBSET DOMAIN f : P = {j \in DOMAIN f : 0 < j /\ j < p}
    OBVIOUS
  <2>4. {j \in P : m < j} = {j \in DOMAIN f : m < j /\ j < p}
    BY <2>3
  <2> QED
    BY <1>1, <2>2, <2>3, <2>4
<1>3. IsVersion(f, l, {j \in DOMAIN f : 0 < j}, base, last)
  <2>1. IsVersion(f, l, {j \in DOMAIN f : m < j}, base, last)
    BY DEF InOrder
  <2>2. PICK P \in SUBSET DOMAIN f : P = {j \in DOMAIN f : 0 < j}
    OBVIOUS
  <2>3. {j \in P : m < j} = {j \in DOMAIN f : m < j}
    BY <2>2
  <2> QED
    BY <1>1, <2>1, <2>2, <2>3
<1> QED
  BY <1>2, <1>3 DEF InOrder

\* The operations of f1 behind those of f read what the program wrote before them, last,
\* and at most one of them writes, last1.
Continued(f, f1, l, last, last1) ==
  /\ \A n \in DOMAIN f1 \ DOMAIN f : \A r \in f1[n].reads :
       r[1] = l => r[2] = last /\ \A n2 \in DOMAIN f1 \ DOMAIN f : n2 < n => l \notin f1[n2].writes
  /\ \/ last1 = last /\ \A n \in DOMAIN f1 \ DOMAIN f : l \notin f1[n].writes
     \/ \E n \in DOMAIN f1 \ DOMAIN f :
          /\ l \in f1[n].writes /\ last1 = f1[n].id
          /\ \A n2 \in DOMAIN f1 \ DOMAIN f : l \in f1[n2].writes => n2 = n

LEMMA InOrderExtended ==
  ASSUME NEW f, NEW f1, Extended(f, f1), DOMAIN f1 \subseteq Nat, NEW l, NEW m \in Nat,
         \A n \in DOMAIN f1 \ DOMAIN f : m < n,
         NEW base, NEW last, NEW last1, InOrder(f, l, m, base, last), Continued(f, f1, l, last, last1)
  PROVE  InOrder(f1, l, m, base, last1)
<1> DEFINE Q == {j \in DOMAIN f : m < j}
<1>1. /\ DOMAIN f \subseteq DOMAIN f1 /\ \A p \in DOMAIN f : f1[p] = f[p]
      /\ \A p \in DOMAIN f, n \in DOMAIN f1 \ DOMAIN f : p < n
  BY DEF Extended
<1>2. ASSUME NEW P \in SUBSET DOMAIN f, NEW v, IsVersion(f, l, P, base, v)
      PROVE  IsVersion(f1, l, P, base, v)
  <2>1. \A j \in P : f1[j] = f[j]
    BY <1>1
  <2> QED
    BY <1>2, <2>1 DEF IsVersion
<1>3. IsVersion(f1, l, Q, base, last)
  <2>1. IsVersion(f, l, Q, base, last)
    BY DEF InOrder
  <2> QED
    BY <1>2, <2>1
<1>4. ASSUME NEW N \in SUBSET (DOMAIN f1 \ DOMAIN f), \A n \in N : l \notin f1[n].writes
      PROVE  IsVersion(f1, l, Q \cup N, base, last)
  <2>1. CASE last = base /\ \A j \in Q : l \notin f1[j].writes
    BY <1>4, <2>1 DEF IsVersion
  <2>2. ASSUME NEW j \in Q, l \in f1[j].writes, last = f1[j].id,
               \A j2 \in Q : j < j2 => l \notin f1[j2].writes
        PROVE  IsVersion(f1, l, Q \cup N, base, last)
    <3>1. \A j2 \in Q \cup N : j < j2 => l \notin f1[j2].writes
      BY <1>4, <2>2
    <3>2. j \in Q \cup N
      OBVIOUS
    <3> QED
      BY <2>2, <3>1, <3>2 DEF IsVersion
  <2> QED
    BY <1>3, <2>1, <2>2 DEF IsVersion
<1>5. ASSUME NEW p \in DOMAIN f1, NEW r \in f1[p].reads, m < p, r[1] = l
      PROVE  IsVersion(f1, l, {j \in DOMAIN f1 : m < j /\ j < p}, base, r[2])
  <2>1. CASE p \in DOMAIN f
    <3>1. IsVersion(f, l, {j \in DOMAIN f : m < j /\ j < p}, base, r[2])
      BY <1>1, <1>5, <2>1 DEF InOrder
    <3>2. {j \in DOMAIN f1 : m < j /\ j < p} = {j \in DOMAIN f : m < j /\ j < p}
      BY <1>1, <2>1
    <3>3. PICK P \in SUBSET DOMAIN f : P = {j \in DOMAIN f : m < j /\ j < p}
      OBVIOUS
    <3>4. IsVersion(f1, l, P, base, r[2])
      BY <1>2, <3>1, <3>3
    <3> QED
      BY <3>2, <3>3, <3>4
  <2>2. CASE p \notin DOMAIN f
    <3>1. PICK N \in SUBSET (DOMAIN f1 \ DOMAIN f) : N = {j \in DOMAIN f1 \ DOMAIN f : j < p}
      OBVIOUS
    <3>2. r[2] = last /\ \A n \in N : l \notin f1[n].writes
      BY <1>5, <2>2, <3>1 DEF Continued
    <3>3. {j \in DOMAIN f1 : m < j /\ j < p} = Q \cup N
      BY <1>1, <2>2, <3>1
    <3>4. IsVersion(f1, l, Q \cup N, base, last)
      BY <1>4, <3>2
    <3> QED
      BY <3>2, <3>3, <3>4
  <2> QED
    BY <2>1, <2>2
<1>6. IsVersion(f1, l, {j \in DOMAIN f1 : m < j}, base, last1)
  <2>1. PICK N \in SUBSET (DOMAIN f1 \ DOMAIN f) : N = DOMAIN f1 \ DOMAIN f
    OBVIOUS
  <2>2. {j \in DOMAIN f1 : m < j} = Q \cup N
    BY <1>1, <2>1
  <2>3. CASE last1 = last /\ \A n \in N : l \notin f1[n].writes
    <3>1. IsVersion(f1, l, Q \cup N, base, last)
      BY <1>4, <2>3
    <3> QED
      BY <2>2, <2>3, <3>1
  <2>4. ASSUME NEW n \in N, l \in f1[n].writes, last1 = f1[n].id,
               \A n2 \in N : l \in f1[n2].writes => n2 = n
        PROVE  IsVersion(f1, l, Q \cup N, base, last1)
    <3>1. \A j2 \in Q \cup N : n < j2 => l \notin f1[j2].writes
      <4>1. \A j2 \in Q : j2 \in Nat /\ n \in Nat /\ j2 < n
        BY <1>1, <2>1
      <4>2. \A j2 \in N : n < j2 => j2 # n
        BY <2>1
      <4> QED
        BY <2>4, <4>1, <4>2
    <3> QED
      BY <2>4, <3>1 DEF IsVersion
  <2> QED
    BY <2>1, <2>2, <2>3, <2>4 DEF Continued
<1> QED
  BY <1>5, <1>6 DEF InOrder

\* Behind all operations of f nothing is read, and nothing written.
LEMMA InOrderNone ==
  ASSUME NEW f, NEW m \in Nat, DOMAIN f \subseteq Nat, \A p \in DOMAIN f : p <= m, NEW l, NEW v
  PROVE  InOrder(f, l, m, v, v)
<1>1. \A p \in DOMAIN f : ~ (m < p)
  OBVIOUS
<1>2. {j \in DOMAIN f : m < j} = {}
  BY <1>1
<1> QED
  BY <1>1, <1>2 DEF InOrder, IsVersion

\* A wait for operation k is not done before k, and is not lost among new operations.
LEMMA BehindExtended ==
  ASSUME NEW f, NEW f1, Extended(f, f1), NEW i, NEW p, Behind(f, i, p)
  PROVE  Behind(f1, i, p)
  BY DEF Behind, Extended

LEMMA BehindDone ==
  ASSUME NEW f, NEW d \in DOMAIN f, NEW i, NEW p, Behind(f, i, p),
         f[d].kind = "wait" => ~ (f[d].until >= p)
  PROVE  Behind(Without(f, d), i, p)
  BY DEF Behind, Without

\* Nothing comes before the first operation.
LEMMA BehindFirst ==
  ASSUME NEW f, NEW d, \A j \in DOMAIN f : j \in Nat /\ d <= j, d \in Nat, NEW p
  PROVE  ~ Behind(f, d, p)
  BY DEF Behind

----------------------------------------------------------------------------
(* Locations *)

LEMMA LocationsApart ==
  /\ \A s, s2 : Row(s) = Row(s2) => s = s2
  /\ \A b, b2 : Input(b) = Input(b2) => b = b2
  /\ \A b, b2 : Tokens(b) = Tokens(b2) => b = b2
  /\ \A s, b : Row(s) # Input(b) /\ Row(s) # Tokens(b)
  /\ \A b, b2 : Input(b) # Tokens(b2)
  /\ \A s : Row(s) # Staging /\ Input(s) # Staging /\ Tokens(s) # Staging
  /\ \A b : Input(b)[1] = "input"
<1>1. \A s, b : Row(s) # Input(b) /\ Row(s) # Tokens(b)
  BY DEF Row, Input, Tokens
<1>2. \A b, b2 : Input(b) # Tokens(b2)
  BY DEF Input, Tokens
<1>3. \A s : Row(s) # Staging /\ Input(s) # Staging /\ Tokens(s) # Staging
  BY DEF Row, Input, Tokens, Staging
<1>4. \A s, s2 : Row(s) = Row(s2) => s = s2
  BY DEF Row
<1>5. \A b, b2 : Input(b) = Input(b2) => b = b2
  BY DEF Input
<1>6. \A b, b2 : Tokens(b) = Tokens(b2) => b = b2
  BY DEF Tokens
<1>7. \A b : Input(b)[1] = "input"
  BY DEF Input
<1> QED
  BY <1>1, <1>2, <1>3, <1>4, <1>5, <1>6, <1>7

LEMMA LocationKinds ==
  /\ \A s \in Slots : Row(s) \in Locations
  /\ \A b \in Blocks : Input(b) \in Locations /\ Tokens(b) \in Locations
  /\ Staging \in Locations
  /\ \A l \in Locations :
       \/ \E s \in Slots : l = Row(s)
       \/ \E b \in Blocks : l = Input(b)
       \/ \E b \in Blocks : l = Tokens(b)
       \/ l = Staging
  BY DEF Locations

\* What is written carries the writer, and the rest is left.
LEMMA WrittenFacts ==
  ASSUME NEW version, NEW locations, NEW id, NEW l \in Locations
  PROVE  Written(version, locations, id)[l] = IF l \in locations THEN id ELSE version[l]
  BY DEF Written

----------------------------------------------------------------------------
(* The engine's stream does an operation *)

\* It is the first of its stream, and no wait for an operation that is still pending.
LEMMA FirstOfEngine ==
  ASSUME TypeInv, NEW d, NEW op, EngineDoes(d, op)
  PROVE  /\ d \in Nat /\ d \in DOMAIN EngineOps /\ op = EngineOps[d] /\ op \in Operations
         /\ DOMAIN EngineOps \subseteq Nat \ {0} /\ DOMAIN SchedulerOps \subseteq Nat
         /\ \A p \in DOMAIN EngineOps : d <= p
         /\ DOMAIN EngineOps' = DOMAIN EngineOps \ {d}
         /\ \A p \in DOMAIN EngineOps' : EngineOps'[p] = EngineOps[p]
         /\ \A k : ~ Behind(EngineOps, d, k)
         /\ \A k \in DOMAIN SchedulerOps : \A i : Behind(EngineOps, i, k) => Behind(EngineOps', i, k)
<1>1. /\ d = done["engine"] + 1 /\ d \in DOMAIN EngineOps /\ op = EngineOps[d]
      /\ op.kind = "wait" => done["scheduler"] >= op.until
      /\ EngineOps' = Without(EngineOps, d)
  BY DEF EngineDoes
<1>2. /\ done["engine"] \in Nat /\ done["scheduler"] \in Nat
      /\ Issued("engine") \in Nat /\ Issued("scheduler") \in Nat
      /\ DOMAIN EngineOps = done["engine"] + 1 .. Issued("engine")
      /\ DOMAIN SchedulerOps = done["scheduler"] + 1 .. Issued("scheduler")
      /\ \A p \in DOMAIN EngineOps : EngineOps[p] \in Operations
  BY Positions
<1>3. /\ d \in Nat /\ op \in Operations
      /\ DOMAIN EngineOps \subseteq Nat \ {0} /\ DOMAIN SchedulerOps \subseteq Nat
      /\ \A p \in DOMAIN EngineOps : d <= p
  BY <1>1, <1>2
<1>4. \A k : ~ Behind(EngineOps, d, k)
  BY <1>3 DEF Behind
<1>5. ASSUME NEW k \in DOMAIN SchedulerOps, NEW i, Behind(EngineOps, i, k)
      PROVE  Behind(EngineOps', i, k)
  <2>1. op.until \in Nat
    BY <1>3 DEF Operations
  <2>2. op.kind = "wait" => ~ (op.until >= k)
    BY <1>1, <1>2, <2>1
  <2> QED
    BY <1>1, <1>5, <2>2 DEF Behind, Without
<1>6. DOMAIN EngineOps' = DOMAIN EngineOps \ {d} /\ \A p \in DOMAIN EngineOps' : EngineOps'[p] = EngineOps[p]
  BY <1>1 DEF Without
<1> QED
  BY <1>1, <1>3, <1>4, <1>5, <1>6

\* What it reads is what the program wrote before it, but for the input of a store.
LEMMA EngineReads ==
  ASSUME DeviceInv, NEW d, NEW op, EngineDoes(d, op), NEW r \in op.reads, memory[r[1]] # r[2]
  PROVE  overlap /\ op.kind = "store" /\ r[1][1] = "input"
<1>1. /\ d \in Nat /\ d \in DOMAIN EngineOps /\ op = EngineOps[d] /\ op \in Operations
      /\ DOMAIN EngineOps \subseteq Nat \ {0} /\ DOMAIN SchedulerOps \subseteq Nat
      /\ \A p \in DOMAIN EngineOps : d <= p
      /\ \A k : ~ Behind(EngineOps, d, k)
  BY FirstOfEngine DEF DeviceInv
<1>2. r[1] \in Locations /\ r[1] \in Reads(op)
  BY <1>1, OperationFields
<1>3. r[1] # Staging
  BY <1>1 DEF DeviceInv, StagingInv
<1>4. ASSUME NEW b \in Blocks, r[1] = Tokens(b) PROVE FALSE
  BY <1>1, <1>2, <1>4 DEF DeviceInv, StreamInv, IsEngineOp
<1>5. ASSUME NEW l \in Locations, r[1] = l, InOrder(EngineOps, l, 0, memory[l], wrote[l])
      PROVE  FALSE
  <2>1. 0 \in Nat /\ 0 < d
    BY <1>1
  <2>2. PICK f, base, last : f = EngineOps /\ base = memory[l] /\ last = wrote[l]
    OBVIOUS
  <2>3. /\ d \in DOMAIN f /\ DOMAIN f \subseteq Nat /\ \A p \in DOMAIN f : d <= p
    BY <1>1, <2>2
  <2>4. InOrder(f, l, 0, base, last)
    BY <1>5, <2>2
  <2>5. \A r2 \in f[d].reads : r2[1] = l => r2[2] = base
    BY <2>1, <2>3, <2>4, InOrderDone
  <2> QED
    BY <1>1, <1>5, <2>2, <2>5
<1>6. overlap
  BY <1>2, <1>3, <1>5 DEF DeviceInv, NormalInv
<1>7. ASSUME NEW s \in Slots, r[1] = Row(s) PROVE FALSE
  <2>1. CASE \A k \in DOMAIN SchedulerOps : Row(s) \notin SchedulerOps[k].writes
    <3>1. InOrder(EngineOps, Row(s), 0, memory[Row(s)], wrote[Row(s)])
      BY <1>6, <2>1 DEF DeviceInv, RowInv, RowOrdered
    <3> QED
      BY <1>5, <1>7, <3>1, LocationKinds
  <2>2. ASSUME NEW k \in DOMAIN SchedulerOps, Row(s) \in SchedulerOps[k].writes PROVE FALSE
    <3>1. PICK m \in 0 .. Issued("engine") :
            Parts(EngineOps, SchedulerOps, k, Row(s), m, wrote[Row(s)])
      BY <1>6, <2>2 DEF DeviceInv, RowInv, RowOrdered
    <3>2. d <= m \/ m < d
      BY <1>1
    <3> QED
      BY <1>1, <1>2, <1>7, <3>1, <3>2 DEF Parts
  <2> QED
    BY <2>1, <2>2
<1>8. PICK b \in Blocks : r[1] = Input(b)
  BY <1>2, <1>3, <1>4, <1>7, LocationKinds
<1>9. op.kind = "store"
  <2>1. SUFFICES ASSUME ReadsInput(op, b) PROVE FALSE
    BY <1>2, <1>8 DEF ReadsInput
  <2>2. r[2] = wrote[Input(b)]
    BY <1>1, <1>6, <1>8, <2>1 DEF DeviceInv, InputInv, InputOrdered
  <2>3. \A k \in DOMAIN SchedulerOps : Input(b) \notin SchedulerOps[k].writes
    BY <1>1, <1>6, <2>1 DEF DeviceInv, InputInv, InputOrdered
  <2>4. memory[Input(b)] = wrote[Input(b)]
    BY <1>6, <2>3 DEF DeviceInv, InputInv, InputOrdered
  <2> QED
    BY <1>8, <2>2, <2>4
<1> QED
  BY <1>6, <1>8, <1>9, LocationsApart

\* The host's state, the streams' kinds of operations and the wait for the tokens.
LEMMA EngineKeeps ==
  ASSUME DeviceInv, NEW d, NEW op, EngineDoes(d, op)
  PROVE  StreamInv' /\ BatchInv' /\ TokensInv' /\ StagingInv' /\ Launched' = Launched
<1>1. /\ d \in Nat /\ d \in DOMAIN EngineOps /\ op = EngineOps[d] /\ op \in Operations
      /\ DOMAIN EngineOps \subseteq Nat \ {0}
      /\ \A p \in DOMAIN EngineOps : d <= p
      /\ DOMAIN EngineOps' = DOMAIN EngineOps \ {d}
      /\ \A p \in DOMAIN EngineOps' : EngineOps'[p] = EngineOps[p]
  BY FirstOfEngine DEF DeviceInv
<1>2. /\ overlap' = overlap /\ flashinfer' = flashinfer /\ pc' = pc /\ plan' = plan /\ wrote' = wrote
      /\ running' = running /\ ending' = ending /\ data' = data /\ cur' = cur
      /\ batches' = batches /\ planned' = planned /\ SchedulerOps' = SchedulerOps
      /\ done'["engine"] = d /\ d = done["engine"] + 1
      /\ memory' = Written(memory, op.writes, op.id)
  BY DEF EngineDoes, host
<1>3. Launched' = Launched
  BY <1>2 DEF Launched
<1>4. StreamInv'
  BY <1>1, <1>2 DEF DeviceInv, StreamInv, IsEngineOp, IsSchedulerOp
<1>5. BatchInv'
  BY <1>2, <1>3 DEF DeviceInv, BatchInv, Id
<1>6. StagingInv'
  <2>1. memory'[Staging] = memory[Staging]
    BY <1>1, <1>2, LocationKinds, WrittenFacts DEF DeviceInv, StreamInv, IsEngineOp
  <2> QED
    BY <1>1, <1>2, <2>1 DEF DeviceInv, StagingInv
<1>7. TokensInv'
  <2>1. ASSUME NEW p \in DOMAIN EngineOps', NEW b \in Blocks, Tokens(b) \in EngineOps'[p].writes
        PROVE  \E c \in Launched : c.block = b /\ p <= c.copied
    BY <1>1, <2>1 DEF DeviceInv, TokensInv
  <2>2. ASSUME NEW c \in Launched
        PROVE  IF c.copied > d
               THEN /\ c.copied \in DOMAIN EngineOps'
                    /\ Tokens(c.block) \in EngineOps'[c.copied].writes /\ EngineOps'[c.copied].id = c.id
               ELSE memory'[Tokens(c.block)] = c.id
    <3>1. c.copied \in Nat /\ c.block \in Blocks
      BY <2>2 DEF DeviceInv, TypeInv, IsBatch, Launched
    <3>2. IF c.copied > done["engine"]
          THEN /\ c.copied \in DOMAIN EngineOps
               /\ Tokens(c.block) \in EngineOps[c.copied].writes /\ EngineOps[c.copied].id = c.id
          ELSE memory[Tokens(c.block)] = c.id
      BY <2>2 DEF DeviceInv, TokensInv
    <3>3. done["engine"] \in Nat
      BY Positions DEF DeviceInv
    <3>4. memory'[Tokens(c.block)]
            = IF Tokens(c.block) \in op.writes THEN op.id ELSE memory[Tokens(c.block)]
      BY <1>2, <3>1, LocationKinds, WrittenFacts
    <3>5. CASE c.copied > d
      BY <1>1, <1>2, <3>1, <3>2, <3>3, <3>5
    <3>6. CASE c.copied = d
      BY <1>1, <1>2, <3>1, <3>2, <3>3, <3>4, <3>6
    <3>7. CASE c.copied < d
      <4>1. memory[Tokens(c.block)] = c.id
        BY <1>1, <1>2, <3>1, <3>2, <3>3, <3>7
      <4>2. Tokens(c.block) \notin op.writes
        <5>1. SUFFICES ASSUME Tokens(c.block) \in op.writes PROVE FALSE
          OBVIOUS
        <5>2. PICK c2 \in Launched : c2.block = c.block /\ d <= c2.copied
          BY <1>1, <3>1, <5>1 DEF DeviceInv, TokensInv
        <5>3. c2 = c
          BY <2>2, <5>2 DEF DeviceInv, BatchInv
        <5> QED
          BY <1>1, <3>1, <3>7, <5>2, <5>3
      <4> QED
        BY <1>1, <3>1, <3>4, <3>7, <4>1, <4>2
    <3> QED
      BY <1>1, <3>1, <3>5, <3>6, <3>7
  <2> QED
    BY <1>2, <1>3, <2>1, <2>2 DEF TokensInv
<1> QED
  BY <1>3, <1>4, <1>5, <1>6, <1>7

\* What is still to be written waits as before, and inputs are not written.
LEMMA EngineInputs ==
  ASSUME DeviceInv, NEW d, NEW op, EngineDoes(d, op)
  PROVE  PendingInv' /\ InputInv'
<1>1. /\ d \in Nat /\ d \in DOMAIN EngineOps /\ op = EngineOps[d] /\ op \in Operations
      /\ DOMAIN EngineOps' = DOMAIN EngineOps \ {d}
      /\ \A p \in DOMAIN EngineOps' : EngineOps'[p] = EngineOps[p]
      /\ \A k \in DOMAIN SchedulerOps : \A i : Behind(EngineOps, i, k) => Behind(EngineOps', i, k)
  BY FirstOfEngine DEF DeviceInv
<1>2. /\ overlap' = overlap /\ pc' = pc /\ plan' = plan /\ wrote' = wrote /\ cur' = cur
      /\ SchedulerOps' = SchedulerOps /\ Launched' = Launched
      /\ memory' = Written(memory, op.writes, op.id)
  BY EngineKeeps DEF EngineDoes, host
<1>3. PendingInv'
  BY <1>1, <1>2 DEF DeviceInv, PendingInv
<1>4. ASSUME overlap, NEW b \in Blocks PROVE memory'[Input(b)] = memory[Input(b)]
  BY <1>1, <1>2, <1>4, LocationKinds, WrittenFacts DEF DeviceInv, StreamInv, IsEngineOp
<1>5. InputInv'
  BY <1>1, <1>2, <1>4 DEF DeviceInv, InputInv, InputOrdered
<1> QED
  BY <1>3, <1>5

\* The order of what is left is that of the program.
LEMMA EngineOrder ==
  ASSUME DeviceInv, NEW d, NEW op, EngineDoes(d, op),
         NEW l \in Locations, NEW base, NEW last, base = memory[l], InOrder(EngineOps, l, 0, base, last)
  PROVE  InOrder(EngineOps', l, 0, memory'[l], last)
<1>1. /\ d \in Nat /\ d \in DOMAIN EngineOps /\ op = EngineOps[d]
      /\ DOMAIN EngineOps \subseteq Nat \ {0}
      /\ \A p \in DOMAIN EngineOps : d <= p
  BY FirstOfEngine DEF DeviceInv
<1>2. PICK f : f = EngineOps
  OBVIOUS
<1>3. d \in DOMAIN f /\ DOMAIN f \subseteq Nat /\ (\A p \in DOMAIN f : d <= p) /\ 0 \in Nat /\ 0 < d
  BY <1>1, <1>2
<1>4. InOrder(f, l, 0, base, last)
  BY <1>2
<1>5. InOrder(Without(f, d), l, 0, IF l \in f[d].writes THEN f[d].id ELSE base, last)
  BY <1>3, <1>4, InOrderDone
<1>6. EngineOps' = Without(f, d) /\ memory' = Written(memory, op.writes, op.id)
  BY <1>2 DEF EngineDoes
<1>7. memory'[l] = IF l \in f[d].writes THEN f[d].id ELSE base
  BY <1>1, <1>2, <1>6, WrittenFacts
<1> QED
  BY <1>5, <1>6, <1>7

\* So are the rows.
LEMMA EngineRows ==
  ASSUME DeviceInv, NEW d, NEW op, EngineDoes(d, op)
  PROVE  NormalInv' /\ RowInv'
<1>1. /\ d \in Nat /\ d \in DOMAIN EngineOps /\ op = EngineOps[d]
      /\ DOMAIN EngineOps \subseteq Nat \ {0}
      /\ \A p \in DOMAIN EngineOps : d <= p
      /\ DOMAIN EngineOps' = DOMAIN EngineOps \ {d}
      /\ \A p \in DOMAIN EngineOps' : EngineOps'[p] = EngineOps[p]
      /\ \A k : ~ Behind(EngineOps, d, k)
      /\ \A k \in DOMAIN SchedulerOps : \A i : Behind(EngineOps, i, k) => Behind(EngineOps', i, k)
  BY FirstOfEngine DEF DeviceInv
<1>2. /\ overlap' = overlap /\ running' = running /\ ending' = ending /\ wrote' = wrote
      /\ SchedulerOps' = SchedulerOps /\ Launched' = Launched
      /\ EngineOps' = Without(EngineOps, d)
      /\ Issued("engine")' = Issued("engine") /\ Issued("scheduler")' = Issued("scheduler")
  BY EngineKeeps DEF EngineDoes, host
<1>3. ASSUME NEW l \in Locations, InOrder(EngineOps, l, 0, memory[l], wrote[l])
      PROVE  InOrder(EngineOps', l, 0, memory'[l], wrote'[l])
  <2>1. PICK base, last : base = memory[l] /\ last = wrote[l]
    OBVIOUS
  <2>2. InOrder(EngineOps, l, 0, base, last)
    BY <1>3, <2>1
  <2>3. InOrder(EngineOps', l, 0, memory'[l], last)
    BY <2>1, <2>2, EngineOrder
  <2> QED
    BY <1>2, <2>1, <2>3
<1>4. NormalInv'
  BY <1>2, <1>3 DEF DeviceInv, NormalInv
<1>5. ASSUME NEW k \in DOMAIN SchedulerOps, NEW l \in Locations, NEW m \in 0 .. Issued("engine"),
             Parts(EngineOps, SchedulerOps, k, l, m, wrote[l])
      PROVE  Parts(EngineOps', SchedulerOps, k, l, m, wrote[l])
  <2>1. PICK f, base, last : f = EngineOps /\ base = SchedulerOps[k].id /\ last = wrote[l]
    OBVIOUS
  <2>2. d \in DOMAIN f /\ DOMAIN f \subseteq Nat /\ (\A p \in DOMAIN f : d <= p) /\ m \in Nat
    BY <1>1, <2>1, Positions DEF DeviceInv
  <2>3. InOrder(f, l, m, base, last)
    BY <1>5, <2>1 DEF Parts
  <2>4. InOrder(Without(f, d), l, m, base, last)
    <3>1. CASE m < d
      <4>1. InOrder(Without(f, d), l, m, IF l \in f[d].writes THEN f[d].id ELSE base, last)
        BY <2>2, <2>3, <3>1, InOrderDone
      <4>2. l \notin f[d].writes
        BY <1>1, <1>5, <2>1, <3>1 DEF Parts
      <4> QED
        BY <4>1, <4>2
    <3>2. CASE d <= m
      BY <2>2, <2>3, <3>2, InOrderUnder
    <3> QED
      BY <1>1, <2>2, <3>1, <3>2
  <2>5. InOrder(EngineOps', l, m, SchedulerOps[k].id, wrote[l])
    BY <1>2, <2>1, <2>4
  <2>6. ASSUME NEW p \in DOMAIN EngineOps'
        PROVE  /\ p <= m => /\ l \notin Reads(EngineOps'[p])
                            /\ l \in EngineOps'[p].writes => Behind(SchedulerOps, k, p)
               /\ m < p /\ l \in EngineOps'[p].writes \cup Reads(EngineOps'[p]) => Behind(EngineOps', p, k)
    BY <1>1, <1>5, <2>6 DEF Parts
  <2> QED
    BY <2>5, <2>6 DEF Parts
<1>6. ASSUME overlap, NEW s \in Slots
      PROVE  /\ \A p \in DOMAIN EngineOps' :
                  Row(s) \in Reads(EngineOps'[p]) => \E c \in Launched : s \in c.slots /\ p <= c.copied
             /\ (\A k \in DOMAIN SchedulerOps : Row(s) \notin SchedulerOps[k].writes) =>
                  InOrder(EngineOps', Row(s), 0, memory'[Row(s)], wrote'[Row(s)])
             /\ \A k \in DOMAIN SchedulerOps :
                  Row(s) \in SchedulerOps[k].writes =>
                    /\ \A k2 \in DOMAIN SchedulerOps : Row(s) \in SchedulerOps[k2].writes => k2 = k
                    /\ \E m \in 0 .. Issued("engine") :
                         Parts(EngineOps', SchedulerOps, k, Row(s), m, wrote[Row(s)])
             /\ s \notin running \cup ending =>
                  \A p \in DOMAIN EngineOps' :
                    Row(s) \in EngineOps'[p].writes => Behind(SchedulerOps, Issued("scheduler") + 1, p)
  <2>1. Row(s) \in Locations
    BY LocationKinds
  <2>2. \A p \in DOMAIN EngineOps' :
          Row(s) \in Reads(EngineOps'[p]) => \E c \in Launched : s \in c.slots /\ p <= c.copied
    BY <1>1, <1>6 DEF DeviceInv, RowInv, RowOrdered
  <2>3. (\A k \in DOMAIN SchedulerOps : Row(s) \notin SchedulerOps[k].writes) =>
          InOrder(EngineOps', Row(s), 0, memory'[Row(s)], wrote'[Row(s)])
    BY <1>3, <1>6, <2>1 DEF DeviceInv, RowInv, RowOrdered
  <2>4. ASSUME NEW k \in DOMAIN SchedulerOps, Row(s) \in SchedulerOps[k].writes
        PROVE  /\ \A k2 \in DOMAIN SchedulerOps : Row(s) \in SchedulerOps[k2].writes => k2 = k
               /\ \E m \in 0 .. Issued("engine") :
                    Parts(EngineOps', SchedulerOps, k, Row(s), m, wrote[Row(s)])
    BY <1>5, <1>6, <2>1, <2>4 DEF DeviceInv, RowInv, RowOrdered
  <2>5. s \notin running \cup ending =>
          \A p \in DOMAIN EngineOps' :
            Row(s) \in EngineOps'[p].writes => Behind(SchedulerOps, Issued("scheduler") + 1, p)
    BY <1>1, <1>6 DEF DeviceInv, RowInv, RowOrdered
  <2> QED
    BY <2>2, <2>3, <2>4, <2>5
<1>7. RowInv'
  BY <1>2, <1>6 DEF RowInv, RowOrdered
<1> QED
  BY <1>4, <1>7

\* The engine's stream does its next operation.
LEMMA EngineDeviceInv ==
  ASSUME DeviceInv, Execute("engine")
  PROVE  DeviceInv'
<1>1. TypeInv' /\ EngineDoes(done["engine"] + 1, EngineOps[done["engine"] + 1])
  BY ExecuteEngine DEF DeviceInv
<1>2. PICK d, op : EngineDoes(d, op)
  BY <1>1
<1>3. StreamInv' /\ BatchInv' /\ TokensInv' /\ StagingInv'
  BY <1>2, EngineKeeps
<1>4. PendingInv' /\ InputInv'
  BY <1>2, EngineInputs
<1>5. NormalInv' /\ RowInv'
  BY <1>2, EngineRows
<1>6. ReadsIntended'
  <2>1. \A r \in op.reads : memory[r[1]] # r[2] => overlap /\ op.kind = "store" /\ r[1][1] = "input"
    BY <1>2, EngineReads
  <2>2. overlap' = overlap
        /\ faults' = faults \cup {<<op.kind, r[1][1]>> : r \in {x \in op.reads : memory[x[1]] # x[2]}}
    BY <1>2 DEF EngineDoes
  <2>3. {<<op.kind, r[1][1]>> : r \in {x \in op.reads : memory[x[1]] # x[2]}}
          \subseteq IF overlap THEN {<<"store", "input">>} ELSE {}
    BY <2>1
  <2> QED
    BY <2>2, <2>3 DEF DeviceInv, ReadsIntended
<1> QED
  BY <1>1, <1>3, <1>4, <1>5, <1>6 DEF DeviceInv

----------------------------------------------------------------------------
(* The scheduler's stream does an operation *)

LEMMA FirstOfScheduler ==
  ASSUME TypeInv, NEW d, NEW op, SchedulerDoes(d, op)
  PROVE  /\ d \in Nat /\ d \in DOMAIN SchedulerOps /\ op = SchedulerOps[d] /\ op \in Operations
         /\ DOMAIN EngineOps \subseteq Nat \ {0}
         /\ DOMAIN SchedulerOps' = DOMAIN SchedulerOps \ {d}
         /\ \A k \in DOMAIN SchedulerOps' : SchedulerOps'[k] = SchedulerOps[k]
         /\ \A p : ~ Behind(SchedulerOps, d, p)
         /\ \A p \in DOMAIN EngineOps : \A i : Behind(SchedulerOps, i, p) => Behind(SchedulerOps', i, p)
<1>1. /\ d = done["scheduler"] + 1 /\ d \in DOMAIN SchedulerOps /\ op = SchedulerOps[d]
      /\ op.kind = "wait" => done["engine"] >= op.until
      /\ SchedulerOps' = Without(SchedulerOps, d)
  BY DEF SchedulerDoes
<1>2. /\ done["engine"] \in Nat /\ done["scheduler"] \in Nat
      /\ Issued("engine") \in Nat /\ Issued("scheduler") \in Nat
      /\ DOMAIN EngineOps = done["engine"] + 1 .. Issued("engine")
      /\ DOMAIN SchedulerOps = done["scheduler"] + 1 .. Issued("scheduler")
      /\ \A k \in DOMAIN SchedulerOps : SchedulerOps[k] \in Operations
  BY Positions
<1>3. /\ d \in Nat /\ op \in Operations
      /\ DOMAIN EngineOps \subseteq Nat \ {0} /\ DOMAIN SchedulerOps \subseteq Nat
      /\ \A k \in DOMAIN SchedulerOps : d <= k
  BY <1>1, <1>2
<1>4. \A p : ~ Behind(SchedulerOps, d, p)
  BY <1>3 DEF Behind
<1>5. ASSUME NEW p \in DOMAIN EngineOps, NEW i, Behind(SchedulerOps, i, p)
      PROVE  Behind(SchedulerOps', i, p)
  <2>1. op.until \in Nat
    BY <1>3 DEF Operations
  <2>2. op.kind = "wait" => ~ (op.until >= p)
    BY <1>1, <1>2, <2>1
  <2> QED
    BY <1>1, <1>5, <2>2 DEF Behind, Without
<1>6. DOMAIN SchedulerOps' = DOMAIN SchedulerOps \ {d}
      /\ \A k \in DOMAIN SchedulerOps' : SchedulerOps'[k] = SchedulerOps[k]
  BY <1>1 DEF Without
<1> QED
  BY <1>1, <1>3, <1>4, <1>5, <1>6

\* It reads nothing, and writes no tokens and no plan.
LEMMA SchedulerKeeps ==
  ASSUME DeviceInv, NEW d, NEW op, SchedulerDoes(d, op)
  PROVE  /\ StreamInv' /\ BatchInv' /\ TokensInv' /\ StagingInv' /\ NormalInv' /\ ReadsIntended'
         /\ Launched' = Launched /\ overlap
<1>1. /\ d \in Nat /\ d \in DOMAIN SchedulerOps /\ op = SchedulerOps[d] /\ op \in Operations
      /\ DOMAIN SchedulerOps' = DOMAIN SchedulerOps \ {d}
      /\ \A k \in DOMAIN SchedulerOps' : SchedulerOps'[k] = SchedulerOps[k]
  BY FirstOfScheduler DEF DeviceInv
<1>2. /\ overlap' = overlap /\ flashinfer' = flashinfer /\ pc' = pc /\ plan' = plan /\ wrote' = wrote
      /\ running' = running /\ ending' = ending /\ data' = data /\ cur' = cur
      /\ batches' = batches /\ planned' = planned /\ EngineOps' = EngineOps
      /\ done'["engine"] = done["engine"]
      /\ memory' = Written(memory, op.writes, op.id)
      /\ faults' = faults \cup {<<op.kind, r[1][1]>> : r \in {x \in op.reads : memory[x[1]] # x[2]}}
  BY DEF SchedulerDoes, host
<1>3. Launched' = Launched
  BY <1>2 DEF Launched
<1>4. IsSchedulerOp(op) /\ overlap
  BY <1>1 DEF DeviceInv, StreamInv
<1>5. StreamInv'
  BY <1>1, <1>2 DEF DeviceInv, StreamInv, IsEngineOp, IsSchedulerOp
<1>6. BatchInv'
  BY <1>2, <1>3 DEF DeviceInv, BatchInv, Id
<1>7. StagingInv'
  <2>1. memory'[Staging] = memory[Staging]
    BY <1>2, <1>4, LocationKinds, WrittenFacts DEF IsSchedulerOp
  <2> QED
    BY <1>2, <2>1 DEF DeviceInv, StagingInv
<1>8. TokensInv'
  <2>1. \A b \in Blocks : memory'[Tokens(b)] = memory[Tokens(b)]
    BY <1>2, <1>4, LocationKinds, WrittenFacts DEF IsSchedulerOp
  <2>2. \A c \in Launched : c.block \in Blocks
    BY DEF DeviceInv, TypeInv, IsBatch, Launched
  <2> QED
    BY <1>2, <1>3, <2>1, <2>2 DEF DeviceInv, TokensInv
<1>9. NormalInv'
  BY <1>2, <1>4 DEF NormalInv
<1>10. faults' = faults
  BY <1>2, <1>4 DEF IsSchedulerOp
<1> QED
  BY <1>2, <1>3, <1>4, <1>5, <1>6, <1>7, <1>8, <1>9, <1>10 DEF DeviceInv, ReadsIntended

\* What it writes to an input is what the batch will read.
LEMMA SchedulerInputs ==
  ASSUME DeviceInv, NEW d, NEW op, SchedulerDoes(d, op)
  PROVE  PendingInv' /\ InputInv'
<1>1. /\ d \in Nat /\ d \in DOMAIN SchedulerOps /\ op = SchedulerOps[d] /\ op \in Operations
      /\ DOMAIN SchedulerOps' = DOMAIN SchedulerOps \ {d}
      /\ \A k \in DOMAIN SchedulerOps' : SchedulerOps'[k] = SchedulerOps[k]
  BY FirstOfScheduler DEF DeviceInv
<1>2. /\ overlap' = overlap /\ pc' = pc /\ plan' = plan /\ wrote' = wrote /\ cur' = cur
      /\ EngineOps' = EngineOps /\ Launched' = Launched /\ overlap
      /\ memory' = Written(memory, op.writes, op.id)
  BY SchedulerKeeps DEF SchedulerDoes, host
<1>3. PendingInv'
  BY <1>1, <1>2 DEF DeviceInv, PendingInv
<1>4. ASSUME NEW b \in Blocks
      PROVE  (\A k \in DOMAIN SchedulerOps' : Input(b) \notin SchedulerOps'[k].writes) =>
               memory'[Input(b)] = wrote[Input(b)]
  <2>1. memory'[Input(b)] = IF Input(b) \in op.writes THEN op.id ELSE memory[Input(b)]
    BY <1>2, LocationKinds, WrittenFacts
  <2>2. CASE Input(b) \in op.writes
    BY <1>1, <1>2, <2>1, <2>2 DEF DeviceInv, InputInv, InputOrdered
  <2>3. CASE Input(b) \notin op.writes
    BY <1>1, <1>2, <2>1, <2>3 DEF DeviceInv, InputInv, InputOrdered
  <2> QED
    BY <2>2, <2>3
<1>5. InputInv'
  BY <1>1, <1>2, <1>4 DEF DeviceInv, InputInv, InputOrdered
<1> QED
  BY <1>3, <1>5

\* What it writes to a row comes between the two parts of the engine's stream.
LEMMA SchedulerRows ==
  ASSUME DeviceInv, NEW d, NEW op, SchedulerDoes(d, op)
  PROVE  RowInv'
<1>1. /\ d \in Nat /\ d \in DOMAIN SchedulerOps /\ op = SchedulerOps[d] /\ op \in Operations
      /\ DOMAIN EngineOps \subseteq Nat \ {0}
      /\ DOMAIN SchedulerOps' = DOMAIN SchedulerOps \ {d}
      /\ \A k \in DOMAIN SchedulerOps' : SchedulerOps'[k] = SchedulerOps[k]
      /\ \A p : ~ Behind(SchedulerOps, d, p)
      /\ \A p \in DOMAIN EngineOps : \A i : Behind(SchedulerOps, i, p) => Behind(SchedulerOps', i, p)
  BY FirstOfScheduler DEF DeviceInv
<1>2. /\ overlap' = overlap /\ running' = running /\ ending' = ending /\ wrote' = wrote
      /\ EngineOps' = EngineOps /\ Launched' = Launched /\ overlap
      /\ Issued("engine")' = Issued("engine") /\ Issued("scheduler")' = Issued("scheduler")
      /\ memory' = Written(memory, op.writes, op.id)
  BY SchedulerKeeps DEF SchedulerDoes, host
<1>3. ASSUME NEW s \in Slots, \A k \in DOMAIN SchedulerOps' : Row(s) \notin SchedulerOps'[k].writes
      PROVE  InOrder(EngineOps, Row(s), 0, memory'[Row(s)], wrote[Row(s)])
  <2>1. memory'[Row(s)] = IF Row(s) \in op.writes THEN op.id ELSE memory[Row(s)]
    BY <1>2, LocationKinds, WrittenFacts
  <2>2. CASE Row(s) \in op.writes
    <3>1. PICK m \in 0 .. Issued("engine") :
            Parts(EngineOps, SchedulerOps, d, Row(s), m, wrote[Row(s)])
      BY <1>1, <1>2, <2>2 DEF DeviceInv, RowInv, RowOrdered
    <3>2. PICK f, l, base, last :
            f = EngineOps /\ l = Row(s) /\ base = SchedulerOps[d].id /\ last = wrote[Row(s)]
      OBVIOUS
    <3>3. InOrder(f, l, m, base, last)
      BY <3>1, <3>2 DEF Parts
    <3>4. \A p \in DOMAIN f : p <= m => l \notin Reads(f[p]) /\ l \notin f[p].writes
      BY <1>1, <3>1, <3>2 DEF Parts
    <3>5. m \in Nat /\ DOMAIN f \subseteq Nat \ {0}
      BY <1>1, <3>2, Positions DEF DeviceInv
    <3>6. InOrder(f, l, 0, base, last)
      BY <3>3, <3>4, <3>5, InOrderAll
    <3> QED
      BY <1>1, <2>1, <2>2, <3>2, <3>6
  <2>3. CASE Row(s) \notin op.writes
    <3>1. \A k \in DOMAIN SchedulerOps : Row(s) \notin SchedulerOps[k].writes
      BY <1>1, <1>3, <2>3
    <3> QED
      BY <1>2, <2>1, <2>3, <3>1 DEF DeviceInv, RowInv, RowOrdered
  <2> QED
    BY <2>2, <2>3
<1>4. ASSUME NEW s \in Slots, NEW k \in DOMAIN SchedulerOps', Row(s) \in SchedulerOps'[k].writes
      PROVE  /\ \A k2 \in DOMAIN SchedulerOps' : Row(s) \in SchedulerOps'[k2].writes => k2 = k
             /\ \E m \in 0 .. Issued("engine") :
                  Parts(EngineOps, SchedulerOps', k, Row(s), m, wrote[Row(s)])
  <2>1. PICK m \in 0 .. Issued("engine") :
          Parts(EngineOps, SchedulerOps, k, Row(s), m, wrote[Row(s)])
    BY <1>1, <1>2, <1>4 DEF DeviceInv, RowInv, RowOrdered
  <2>2. Parts(EngineOps, SchedulerOps', k, Row(s), m, wrote[Row(s)])
    BY <1>1, <1>4, <2>1 DEF Parts
  <2>3. \A k2 \in DOMAIN SchedulerOps' : Row(s) \in SchedulerOps'[k2].writes => k2 = k
    BY <1>1, <1>2, <1>4 DEF DeviceInv, RowInv, RowOrdered
  <2> QED
    BY <2>2, <2>3
<1>5. ASSUME NEW s \in Slots
      PROVE  /\ \A p \in DOMAIN EngineOps :
                  Row(s) \in Reads(EngineOps[p]) => \E c \in Launched : s \in c.slots /\ p <= c.copied
             /\ s \notin running \cup ending =>
                  \A p \in DOMAIN EngineOps :
                    Row(s) \in EngineOps[p].writes => Behind(SchedulerOps', Issued("scheduler") + 1, p)
  BY <1>1, <1>2, <1>5 DEF DeviceInv, RowInv, RowOrdered
<1> QED
  BY <1>2, <1>3, <1>4, <1>5 DEF RowInv, RowOrdered

LEMMA SchedulerDeviceInv ==
  ASSUME DeviceInv, Execute("scheduler")
  PROVE  DeviceInv'
<1>1. TypeInv' /\ SchedulerDoes(done["scheduler"] + 1, SchedulerOps[done["scheduler"] + 1])
  BY ExecuteScheduler DEF DeviceInv
<1>2. PICK d, op : SchedulerDoes(d, op)
  BY <1>1
<1>3. StreamInv' /\ BatchInv' /\ TokensInv' /\ StagingInv' /\ NormalInv' /\ ReadsIntended'
  BY <1>2, SchedulerKeeps
<1>4. PendingInv' /\ InputInv' /\ RowInv'
  BY <1>2, SchedulerInputs, SchedulerRows
<1> QED
  BY <1>1, <1>3, <1>4 DEF DeviceInv

----------------------------------------------------------------------------
(* The host issues an operation *)

\* The host goes on without a new operation.
LEMMA HostDeviceInv ==
  ASSUME DeviceInv, UNCHANGED <<overlap, flashinfer, host, queue, done, wrote, memory, faults>>,
         pc = "select", pc' \in {"prepare", "process"}, plan' \subseteq Slots
  PROVE  DeviceInv'
<1>1. /\ overlap' = overlap /\ flashinfer' = flashinfer /\ wrote' = wrote /\ memory' = memory
      /\ running' = running /\ ending' = ending /\ data' = data /\ cur' = cur
      /\ batches' = batches /\ planned' = planned /\ queue' = queue /\ done' = done /\ faults' = faults
  BY DEF host
<1>2. /\ EngineOps' = EngineOps /\ SchedulerOps' = SchedulerOps /\ Launched' = Launched
      /\ Issued("engine")' = Issued("engine") /\ Issued("scheduler")' = Issued("scheduler")
  BY <1>1 DEF EngineOps, SchedulerOps, Launched, Issued
<1>3. TypeInv' /\ StreamInv'
  BY <1>1, <1>2 DEF DeviceInv, TypeInv, StreamInv, IsBatch, IsEngineOp
<1>4. BatchInv'
  BY <1>1, <1>2 DEF DeviceInv, BatchInv
<1>5. TokensInv' /\ StagingInv' /\ NormalInv' /\ ReadsIntended'
  BY <1>1, <1>2 DEF DeviceInv, TokensInv, StagingInv, NormalInv, ReadsIntended
<1>6. PendingInv'
  BY <1>1, <1>2 DEF DeviceInv, PendingInv
<1>7. InputInv'
  BY <1>1, <1>2 DEF DeviceInv, InputInv, InputOrdered
<1>8. RowInv'
  <2>1. ASSUME NEW s \in Slots, RowOrdered(s) PROVE RowOrdered(s)'
    BY <1>1, <1>2, <2>1 DEF RowOrdered
  <2> QED
    BY <1>1, <1>2, <2>1 DEF DeviceInv, RowInv
<1> QED
  BY <1>3, <1>4, <1>5, <1>6, <1>7, <1>8 DEF DeviceInv

\* With one stream an operation that writes l is behind all others.
LEMMA IssueNormal ==
  ASSUME DeviceInv, ~overlap, NEW op \in Operations, EngineIssues(op),
         NEW l \in Locations, op.reads = {}, op.writes = {l}, l # Staging, \A b \in Blocks : l # Tokens(b),
         wrote' = Written(wrote, {l}, op.id),
         UNCHANGED <<overlap, flashinfer, planned, done, memory, Launched>>, TypeInv'
  PROVE  StreamInv' /\ TokensInv' /\ StagingInv' /\ NormalInv' /\ PendingInv' /\ InputInv' /\ RowInv'
<1>1. /\ Extended(EngineOps, EngineOps') /\ SchedulerOps' = SchedulerOps
      /\ DOMAIN EngineOps' = DOMAIN EngineOps \cup {Issued("engine") + 1}
      /\ EngineOps'[Issued("engine") + 1] = op
  BY DEF EngineIssues
<1>2. /\ Issued("engine") \in Nat /\ done["engine"] \in Nat
      /\ DOMAIN EngineOps = done["engine"] + 1 .. Issued("engine")
  BY Positions DEF DeviceInv
<1>3. PICK n \in Nat : n = Issued("engine") + 1
  BY <1>2
<1>4. /\ DOMAIN EngineOps' \ DOMAIN EngineOps = {n} /\ EngineOps'[n] = op /\ 0 < n
      /\ \A p \in DOMAIN EngineOps : p \in DOMAIN EngineOps' /\ EngineOps'[p] = EngineOps[p]
      /\ DOMAIN EngineOps' \subseteq Nat
  BY <1>1, <1>2, <1>3 DEF Extended
<1>5. \A p \in DOMAIN EngineOps' :
        (p \in DOMAIN EngineOps /\ EngineOps'[p] = EngineOps[p]) \/ EngineOps'[p] = op
  BY <1>4
<1>6. ~overlap' /\ DOMAIN SchedulerOps' = {}
  BY <1>1 DEF DeviceInv, StreamInv
<1>7. IsEngineOp(op)
  BY DEF IsEngineOp, Reads
<1>8. StreamInv'
  BY <1>5, <1>6, <1>7 DEF DeviceInv, StreamInv, IsEngineOp
<1>9. TokensInv' /\ StagingInv'
  BY <1>4, <1>5 DEF DeviceInv, TokensInv, StagingInv
<1>10. ASSUME NEW x \in Locations \ {Staging}
       PROVE  InOrder(EngineOps', x, 0, memory'[x], wrote'[x])
  <2>1. PICK f, f1, base, last, last1 :
          f = EngineOps /\ f1 = EngineOps' /\ base = memory[x] /\ last = wrote[x] /\ last1 = wrote'[x]
    OBVIOUS
  <2>2. InOrder(f, x, 0, base, last)
    BY <1>10, <2>1 DEF DeviceInv, NormalInv
  <2>3. last1 = IF x \in {l} THEN op.id ELSE last
    BY <2>1, WrittenFacts
  <2>4. Continued(f, f1, x, last, last1)
    BY <1>4, <2>1, <2>3 DEF Continued
  <2>5. Extended(f, f1) /\ DOMAIN f1 \subseteq Nat /\ 0 \in Nat /\ \A i \in DOMAIN f1 \ DOMAIN f : 0 < i
    BY <1>1, <1>4, <2>1
  <2>6. InOrder(f1, x, 0, base, last1)
    BY <2>2, <2>4, <2>5, InOrderExtended
  <2> QED
    BY <2>1, <2>6
<1>11. NormalInv'
  BY <1>10 DEF NormalInv
<1>12. PendingInv' /\ InputInv' /\ RowInv'
  BY <1>6 DEF PendingInv, InputInv, InputOrdered, RowInv
<1> QED
  BY <1>8, <1>9, <1>11, <1>12

\* With two streams the engine's one knows nothing of it.
LEMMA IssueOverlap ==
  ASSUME DeviceInv, overlap, NEW op \in Operations, SchedulerIssues(op), IsSchedulerOp(op),
         UNCHANGED <<overlap, flashinfer, planned, done, memory, Launched>>
  PROVE  StreamInv' /\ TokensInv' /\ StagingInv' /\ NormalInv'
<1>1. /\ EngineOps' = EngineOps
      /\ \A k \in DOMAIN SchedulerOps' :
           (k \in DOMAIN SchedulerOps /\ SchedulerOps'[k] = SchedulerOps[k]) \/ SchedulerOps'[k] = op
  BY DEF SchedulerIssues, Extended
<1>2. StreamInv'
  BY <1>1 DEF DeviceInv, StreamInv, IsEngineOp, IsSchedulerOp
<1>3. TokensInv' /\ StagingInv' /\ NormalInv'
  BY <1>1 DEF DeviceInv, TokensInv, StagingInv, NormalInv
<1> QED
  BY <1>2, <1>3

\* Positions in the scheduler's stream, when one more operation is there.
LEMMA SchedulerMore ==
  ASSUME TypeInv, NEW op, SchedulerIssues(op)
  PROVE  /\ EngineOps' = EngineOps /\ Issued("scheduler") + 1 \notin DOMAIN SchedulerOps
         /\ Issued("scheduler") + 1 \in DOMAIN SchedulerOps'
         /\ SchedulerOps'[Issued("scheduler") + 1] = op
         /\ \A k \in DOMAIN SchedulerOps :
              k \in DOMAIN SchedulerOps' /\ SchedulerOps'[k] = SchedulerOps[k]
         /\ \A k \in DOMAIN SchedulerOps' : k \in DOMAIN SchedulerOps \/ k = Issued("scheduler") + 1
         /\ \A i, p : Behind(SchedulerOps, i, p) => Behind(SchedulerOps', i, p)
         /\ \A p : Behind(SchedulerOps, Issued("scheduler") + 1, p) =>
                     Behind(SchedulerOps', Issued("scheduler")' + 1, p)
<1>1. /\ Extended(SchedulerOps, SchedulerOps') /\ EngineOps' = EngineOps
      /\ DOMAIN SchedulerOps' = DOMAIN SchedulerOps \cup {Issued("scheduler") + 1}
      /\ SchedulerOps'[Issued("scheduler") + 1] = op
      /\ Issued("scheduler")' = Issued("scheduler") + 1
  BY DEF SchedulerIssues
<1>2. /\ Issued("scheduler") \in Nat /\ done["scheduler"] \in Nat
      /\ DOMAIN SchedulerOps = done["scheduler"] + 1 .. Issued("scheduler")
  BY Positions
<1>3. \A i, p : Behind(SchedulerOps, i, p) => Behind(SchedulerOps', i, p)
  BY <1>1 DEF Behind, Extended
<1>4. ASSUME NEW p, Behind(SchedulerOps, Issued("scheduler") + 1, p)
      PROVE  Behind(SchedulerOps', Issued("scheduler")' + 1, p)
  <2>1. PICK j \in DOMAIN SchedulerOps : SchedulerOps[j].kind = "wait" /\ SchedulerOps[j].until >= p
    BY <1>4 DEF Behind
  <2>2. j \in DOMAIN SchedulerOps' /\ SchedulerOps'[j] = SchedulerOps[j] /\ j < Issued("scheduler")' + 1
    BY <1>1, <1>2, <2>1 DEF Extended
  <2> QED
    BY <2>1, <2>2 DEF Behind
<1>5. /\ \A k \in DOMAIN SchedulerOps : k \in DOMAIN SchedulerOps' /\ SchedulerOps'[k] = SchedulerOps[k]
      /\ Issued("scheduler") + 1 \notin DOMAIN SchedulerOps
  BY <1>1, <1>2 DEF Extended
<1> QED
  BY <1>1, <1>3, <1>4, <1>5

\* An operation that does not write the row leaves its order alone.
LEMMA RowKept ==
  ASSUME DeviceInv, NEW op, SchedulerIssues(op), NEW s \in Slots, RowOrdered(s),
         Row(s) \notin op.writes, wrote'[Row(s)] = wrote[Row(s)], memory' = memory
  PROVE  RowOrdered(s)'
<1>1. /\ EngineOps' = EngineOps /\ Issued("engine")' = Issued("engine")
      /\ SchedulerOps'[Issued("scheduler") + 1] = op
      /\ \A k \in DOMAIN SchedulerOps : k \in DOMAIN SchedulerOps' /\ SchedulerOps'[k] = SchedulerOps[k]
      /\ \A k \in DOMAIN SchedulerOps' : k \in DOMAIN SchedulerOps \/ k = Issued("scheduler") + 1
      /\ \A i, p : Behind(SchedulerOps, i, p) => Behind(SchedulerOps', i, p)
  BY SchedulerMore DEF DeviceInv, SchedulerIssues
<1>2. \A k \in DOMAIN SchedulerOps' :
        Row(s) \in SchedulerOps'[k].writes =>
          k \in DOMAIN SchedulerOps /\ SchedulerOps'[k] = SchedulerOps[k] /\ Row(s) \in SchedulerOps[k].writes
  BY <1>1
<1>3. ASSUME \A k \in DOMAIN SchedulerOps' : Row(s) \notin SchedulerOps'[k].writes
      PROVE  InOrder(EngineOps', Row(s), 0, memory'[Row(s)], wrote'[Row(s)])
  BY <1>1, <1>3 DEF RowOrdered
<1>4. ASSUME NEW k \in DOMAIN SchedulerOps', Row(s) \in SchedulerOps'[k].writes
      PROVE  /\ \A k2 \in DOMAIN SchedulerOps' : Row(s) \in SchedulerOps'[k2].writes => k2 = k
             /\ \E m \in 0 .. Issued("engine")' :
                  Parts(EngineOps', SchedulerOps', k, Row(s), m, wrote'[Row(s)])
  <2>1. k \in DOMAIN SchedulerOps /\ SchedulerOps'[k] = SchedulerOps[k] /\ Row(s) \in SchedulerOps[k].writes
    BY <1>2, <1>4
  <2>2. PICK m \in 0 .. Issued("engine") :
          Parts(EngineOps, SchedulerOps, k, Row(s), m, wrote[Row(s)])
    BY <2>1 DEF RowOrdered
  <2>3. Parts(EngineOps', SchedulerOps', k, Row(s), m, wrote'[Row(s)])
    BY <1>1, <2>1, <2>2 DEF Parts
  <2>4. \A k2 \in DOMAIN SchedulerOps' : Row(s) \in SchedulerOps'[k2].writes => k2 = k
    BY <1>2, <2>1 DEF RowOrdered
  <2> QED
    BY <1>1, <2>3, <2>4
<1> QED
  BY <1>3, <1>4 DEF RowOrdered

\* And so for the input in a block.
LEMMA InputKept ==
  ASSUME DeviceInv, NEW op, SchedulerIssues(op), NEW b \in Blocks, InputOrdered(b),
         Input(b) \notin op.writes, wrote'[Input(b)] = wrote[Input(b)], memory' = memory,
         Launched' = Launched
  PROVE  InputOrdered(b)'
<1>1. /\ EngineOps' = EngineOps
      /\ SchedulerOps'[Issued("scheduler") + 1] = op
      /\ \A k \in DOMAIN SchedulerOps : k \in DOMAIN SchedulerOps' /\ SchedulerOps'[k] = SchedulerOps[k]
      /\ \A k \in DOMAIN SchedulerOps' : k \in DOMAIN SchedulerOps \/ k = Issued("scheduler") + 1
  BY SchedulerMore DEF DeviceInv
<1>2. \A k \in DOMAIN SchedulerOps' :
        Input(b) \in SchedulerOps'[k].writes =>
          k \in DOMAIN SchedulerOps /\ SchedulerOps'[k] = SchedulerOps[k] /\ Input(b) \in SchedulerOps[k].writes
  BY <1>1
<1>3. (\A k \in DOMAIN SchedulerOps' : Input(b) \notin SchedulerOps'[k].writes) =>
        \A k \in DOMAIN SchedulerOps : Input(b) \notin SchedulerOps[k].writes
  BY <1>1
<1> QED
  BY <1>1, <1>2, <1>3 DEF InputOrdered

\* The operations the host makes.
LEMMA OpFields ==
  ASSUME TypeInv, NEW kind \in Kinds, NEW id \in Nat,
         NEW reads \in SUBSET Locations, NEW writes \in SUBSET Locations
  PROVE  /\ Op(kind, id, reads, writes) \in Operations
         /\ Op(kind, id, reads, writes).kind = kind /\ Op(kind, id, reads, writes).id = id
         /\ Op(kind, id, reads, writes).writes = writes
         /\ Op(kind, id, reads, writes).reads = {<<l, wrote[l]>> : l \in reads}
         /\ Reads(Op(kind, id, reads, writes)) = reads
         /\ \A r \in Op(kind, id, reads, writes).reads : r[2] = wrote[r[1]]
<1>1. Op(kind, id, reads, writes).reads = {<<l, wrote[l]>> : l \in reads}
  BY DEF Op
<1>2. {<<l, wrote[l]>> : l \in reads} \subseteq Locations \X Nat
  BY DEF TypeInv
<1>3. Op(kind, id, reads, writes) \in Operations
  BY <1>2 DEF Op, Operations
<1>4. Reads(Op(kind, id, reads, writes)) = reads
  <2>1. ASSUME NEW l \in reads PROVE l \in Reads(Op(kind, id, reads, writes))
    <3>1. <<l, wrote[l]>> \in Op(kind, id, reads, writes).reads /\ <<l, wrote[l]>>[1] = l
      BY <1>1
    <3> QED
      BY <3>1 DEF Reads
  <2>2. ASSUME NEW l \in Reads(Op(kind, id, reads, writes)) PROVE l \in reads
    BY <1>1 DEF Reads
  <2> QED
    BY <2>1, <2>2
<1>5. \A r \in Op(kind, id, reads, writes).reads : r[2] = wrote[r[1]]
  BY <1>1
<1> QED
  BY <1>1, <1>3, <1>4, <1>5 DEF Op

LEMMA IdType ==
  ASSUME TypeInv, NEW step \in Nat
  PROVE  Id(step) \in Nat
  BY DEF Id, TypeInv

\* A new request's prompt: nothing reads the row of a free slot any more, and whatever
\* still writes it is waited for.
LEMMA AdmitRow ==
  ASSUME DeviceInv, overlap, NEW s \in Slots, s \notin running \cup ending,
         NEW op \in Operations, SchedulerIssues(op), op.writes = {Row(s)}, op.kind # "wait",
         pc = "select", wrote' = Written(wrote, {Row(s)}, op.id), memory' = memory
  PROVE  RowOrdered(s)'
<1>1. /\ EngineOps' = EngineOps /\ Issued("engine")' = Issued("engine")
      /\ Issued("scheduler") + 1 \in DOMAIN SchedulerOps'
      /\ SchedulerOps'[Issued("scheduler") + 1] = op
      /\ \A k \in DOMAIN SchedulerOps : k \in DOMAIN SchedulerOps' /\ SchedulerOps'[k] = SchedulerOps[k]
      /\ \A k \in DOMAIN SchedulerOps' : k \in DOMAIN SchedulerOps \/ k = Issued("scheduler") + 1
      /\ \A i, p : Behind(SchedulerOps, i, p) => Behind(SchedulerOps', i, p)
  BY SchedulerMore DEF DeviceInv, SchedulerIssues
<1>2. PICK n : n = Issued("scheduler") + 1
  OBVIOUS
<1>3. \A d \in Launched : s \notin d.slots
  BY DEF DeviceInv, BatchInv
<1>4. ASSUME NEW k \in DOMAIN SchedulerOps PROVE Row(s) \notin SchedulerOps[k].writes
  <2>1. SUFFICES ASSUME Row(s) \in SchedulerOps[k].writes PROVE FALSE
    OBVIOUS
  <2>2. PICK d \in Launched : SchedulerOps[k].writes \subseteq Rows(d.slots) \cup {Input(d.block)}
    BY <1>4, <2>1 DEF DeviceInv, PendingInv
  <2>3. Row(s) \in Rows(d.slots)
    BY <2>1, <2>2, LocationsApart
  <2>4. s \in d.slots
    BY <2>3, LocationsApart DEF Rows
  <2> QED
    BY <1>3, <2>4
<1>5. ASSUME NEW p \in DOMAIN EngineOps
      PROVE  Row(s) \notin Reads(EngineOps[p]) /\ (Row(s) \in EngineOps[p].writes => Behind(SchedulerOps', n, p))
  BY <1>1, <1>2, <1>3, <1>5 DEF DeviceInv, RowInv
<1>6. /\ Issued("engine") \in Nat /\ DOMAIN EngineOps \subseteq Nat
      /\ \A p \in DOMAIN EngineOps : p <= Issued("engine")
  BY Positions DEF DeviceInv
<1>7. wrote'[Row(s)] = op.id
  BY LocationKinds, WrittenFacts
<1>8. Parts(EngineOps', SchedulerOps', n, Row(s), Issued("engine"), wrote'[Row(s)])
  <2>1. PICK f, m, l, v : f = EngineOps /\ m = Issued("engine") /\ l = Row(s) /\ v = op.id
    OBVIOUS
  <2>2. m \in Nat /\ DOMAIN f \subseteq Nat /\ \A p \in DOMAIN f : p <= m
    BY <1>6, <2>1
  <2>3. InOrder(f, l, m, v, v)
    BY <2>2, InOrderNone
  <2>4. InOrder(EngineOps', Row(s), Issued("engine"), SchedulerOps'[n].id, wrote'[Row(s)])
    BY <1>1, <1>2, <1>7, <2>1, <2>3
  <2>5. \A p \in DOMAIN EngineOps' : ~ (Issued("engine") < p)
    BY <1>1, <1>6
  <2>6. \A p \in DOMAIN EngineOps' :
          Row(s) \notin Reads(EngineOps'[p]) /\ (Row(s) \in EngineOps'[p].writes => Behind(SchedulerOps', n, p))
    BY <1>1, <1>5
  <2> QED
    BY <2>4, <2>5, <2>6 DEF Parts
<1>9. \A k \in DOMAIN SchedulerOps' : Row(s) \in SchedulerOps'[k].writes => k = n
  BY <1>1, <1>2, <1>4
<1>10. Issued("engine") \in 0 .. Issued("engine")'
  BY <1>1, <1>6
<1>11. n \in DOMAIN SchedulerOps' /\ Row(s) \in SchedulerOps'[n].writes
  BY <1>1, <1>2
<1> QED
  BY <1>8, <1>9, <1>10, <1>11 DEF RowOrdered

LEMMA AdmitDeviceInv ==
  ASSUME DeviceInv, NEW s \in Slots, Admit(s)
  PROVE  DeviceInv'
<1> DEFINE op == Op("admit", Id(1), {}, {Row(s)})
<1>1. /\ pc = "select" /\ s \notin running \cup ending /\ pc' = "prepare" /\ plan' = {s}
      /\ queue' = [queue EXCEPT ![Preparing] = Append(@, op)] /\ wrote' = Written(wrote, {Row(s)}, Id(1))
      /\ overlap' = overlap /\ flashinfer' = flashinfer /\ running' = running /\ ending' = ending
      /\ data' = data /\ cur' = cur /\ batches' = batches /\ planned' = planned
      /\ done' = done /\ memory' = memory /\ faults' = faults
  BY DEF Admit, host
<1>2. /\ op \in Operations /\ op.kind = "admit" /\ op.id = Id(1) /\ op.writes = {Row(s)} /\ op.reads = {}
  <2>1. "admit" \in Kinds /\ Id(1) \in Nat /\ {} \in SUBSET Locations /\ {Row(s)} \in SUBSET Locations
    BY IdType, LocationKinds DEF Kinds, DeviceInv
  <2>2. op \in Operations
    BY <2>1, OpFields DEF DeviceInv
  <2> QED
    BY <2>2 DEF Op
<1>3. PICK o \in Operations : o = op
  BY <1>2
<1>4. /\ o.kind # "wait" /\ o.writes = {Row(s)} /\ o.reads = {} /\ wrote' = Written(wrote, {Row(s)}, o.id)
  BY <1>1, <1>2, <1>3
<1>5. Launched' = Launched
  BY <1>1 DEF Launched
<1>6. BatchInv'
  BY <1>1, <1>5 DEF DeviceInv, BatchInv
<1>7. ReadsIntended'
  BY <1>1 DEF DeviceInv, ReadsIntended
<1>8. ASSUME queue' \in [Streams -> Seq(Operations)] PROVE TypeInv'
  <2>1. wrote' \in [Locations -> Nat]
    BY <1>4, o \in Operations DEF Written, Operations, DeviceInv, TypeInv
  <2> QED
    BY <1>1, <1>8, <2>1 DEF DeviceInv, TypeInv, IsBatch
<1>9. CASE ~overlap
  <2>1. queue' = [queue EXCEPT !["engine"] = Append(@, o)]
    BY <1>1, <1>3, <1>9 DEF Preparing
  <2>2. queue' \in [Streams -> Seq(Operations)] /\ EngineIssues(o)
    BY <1>1, <2>1, IssueEngine DEF DeviceInv
  <2>3. PICK l \in Locations : l = Row(s)
    BY LocationKinds
  <2>4. l # Staging /\ (\A b \in Blocks : l # Tokens(b)) /\ o.writes = {l} /\ wrote' = Written(wrote, {l}, o.id)
    BY <1>4, <2>3, LocationsApart
  <2>5. StreamInv' /\ TokensInv' /\ StagingInv' /\ NormalInv' /\ PendingInv' /\ InputInv' /\ RowInv'
    BY <1>1, <1>4, <1>5, <1>8, <1>9, <2>2, <2>4, IssueNormal
  <2> QED
    BY <1>6, <1>7, <1>8, <2>2, <2>5 DEF DeviceInv
<1>10. CASE overlap
  <2>1. queue' = [queue EXCEPT !["scheduler"] = Append(@, o)]
    BY <1>1, <1>3, <1>10 DEF Preparing
  <2>2. queue' \in [Streams -> Seq(Operations)] /\ SchedulerIssues(o)
    BY <1>1, <2>1, IssueScheduler DEF DeviceInv
  <2>3. IsSchedulerOp(o)
    BY <1>4, LocationsApart DEF IsSchedulerOp
  <2>4. StreamInv' /\ TokensInv' /\ StagingInv' /\ NormalInv'
    BY <1>1, <1>5, <1>10, <2>2, <2>3, IssueOverlap
  <2>5. /\ EngineOps' = EngineOps /\ SchedulerOps'[Issued("scheduler") + 1] = o
        /\ \A k \in DOMAIN SchedulerOps : k \in DOMAIN SchedulerOps' /\ SchedulerOps'[k] = SchedulerOps[k]
        /\ \A k \in DOMAIN SchedulerOps' : k \in DOMAIN SchedulerOps \/ k = Issued("scheduler") + 1
        /\ \A p : Behind(SchedulerOps, Issued("scheduler") + 1, p) =>
                    Behind(SchedulerOps', Issued("scheduler")' + 1, p)
    BY <2>2, SchedulerMore DEF DeviceInv
  <2>6. PendingInv'
    <3>1. {Row(s)} = Rows({s})
      BY DEF Rows
    <3> QED
      BY <1>1, <1>4, <1>5, <2>5, <3>1 DEF DeviceInv, PendingInv
  <2>7. InputInv'
    <3>1. ASSUME NEW b \in Blocks PROVE InputOrdered(b)'
      <4>1. wrote'[Input(b)] = wrote[Input(b)] /\ Input(b) \notin o.writes
        BY <1>4, LocationKinds, LocationsApart, WrittenFacts
      <4>2. InputOrdered(b)
        BY <1>10 DEF DeviceInv, InputInv
      <4> QED
        BY <1>1, <1>5, <2>2, <4>1, <4>2, InputKept
    <3> QED
      BY <3>1 DEF InputInv
  <2>8. RowInv'
    <3>1. ASSUME NEW s2 \in Slots PROVE RowOrdered(s2)'
      <4>1. CASE s2 = s
        <5>1. RowOrdered(s)'
          BY <1>1, <1>4, <1>10, <2>2, AdmitRow
        <5> QED
          BY <4>1, <5>1
      <4>2. CASE s2 # s
        <5>1. wrote'[Row(s2)] = wrote[Row(s2)] /\ Row(s2) \notin o.writes
          BY <1>4, <4>2, LocationKinds, LocationsApart, WrittenFacts
        <5>2. RowOrdered(s2)
          BY <1>10 DEF DeviceInv, RowInv
        <5> QED
          BY <1>1, <2>2, <5>1, <5>2, RowKept
      <4> QED
        BY <4>1, <4>2
    <3> QED
      BY <1>1, <1>5, <1>10, <2>5, <3>1 DEF DeviceInv, RowInv
  <2> QED
    BY <1>6, <1>7, <1>8, <2>2, <2>4, <2>6, <2>7, <2>8 DEF DeviceInv
<1> QED
  BY <1>9, <1>10

\* The inputs of a batch go where no batch has its own.
LEMMA PrepareDeviceInv ==
  ASSUME DeviceInv, Prepare
  PROVE  DeviceInv'
<1>1. PICK b \in Blocks \ {data.block} :
        /\ queue' = [queue EXCEPT ![Preparing] = Append(@, Op("prepare", Id(2), {}, {Input(b)}))]
        /\ wrote' = Written(wrote, {Input(b)}, Id(2))
        /\ cur' = [block |-> b, slots |-> plan, id |-> Id(6), copied |-> 0]
  BY DEF Prepare
<1> DEFINE op == Op("prepare", Id(2), {}, {Input(b)})
<1>2. /\ pc = "prepare" /\ pc' = "launch" /\ plan' = plan
      /\ overlap' = overlap /\ flashinfer' = flashinfer /\ running' = running /\ ending' = ending
      /\ data' = data /\ batches' = batches /\ planned' = planned
      /\ done' = done /\ memory' = memory /\ faults' = faults
  BY DEF Prepare
<1>3. op \in Operations /\ op.kind = "prepare" /\ op.id = Id(2) /\ op.writes = {Input(b)} /\ op.reads = {}
  <2>1. "prepare" \in Kinds /\ Id(2) \in Nat /\ {} \in SUBSET Locations /\ {Input(b)} \in SUBSET Locations
    BY IdType, LocationKinds DEF Kinds, DeviceInv
  <2>2. op \in Operations
    BY <2>1, OpFields DEF DeviceInv
  <2> QED
    BY <2>2 DEF Op
<1>4. PICK o \in Operations : o = op
  BY <1>3
<1>5. o.writes = {Input(b)} /\ o.reads = {} /\ wrote' = Written(wrote, {Input(b)}, o.id)
  BY <1>1, <1>3, <1>4
<1>6. cur.copied = 0 /\ cur'.copied = 0 /\ cur'.block = b /\ cur'.slots = plan /\ cur'.id = Id(6)
  BY <1>1, <1>2 DEF DeviceInv, BatchInv, None
<1>7. Launched' = Launched /\ \A d \in Launched : d = data
  <2>1. Launched' = {d \in {data', cur'} : d.copied > 0}
    BY DEF Launched
  <2>2. \A d \in Launched : d = data
    BY <1>6 DEF Launched
  <2>3. Launched' \subseteq Launched
    BY <1>2, <1>6, <2>1 DEF Launched
  <2>4. Launched \subseteq Launched'
    BY <1>2, <1>6, <2>1, <2>2 DEF Launched
  <2> QED
    BY <2>2, <2>3, <2>4
<1>8. BatchInv'
  <2>1. Id(6)' = Id(6)
    BY <1>2 DEF Id
  <2>2. pc' = "launch" => /\ cur'.copied = 0 /\ cur'.block \in Blocks \ {data'.block}
                          /\ cur'.slots = plan' /\ cur'.id = Id(6)'
    BY <1>2, <1>6, <2>1
  <2>3. /\ data' = None \/ data'.copied > 0
        /\ overlap' \/ data' = None
        /\ \A d \in Launched' : d.slots \subseteq running' \cup ending'
        /\ \A d1, d2 \in Launched' : d1.block = d2.block => d1 = d2
    BY <1>2, <1>7 DEF DeviceInv, BatchInv
  <2> QED
    BY <1>2, <2>2, <2>3 DEF BatchInv
<1>9. ReadsIntended'
  BY <1>2 DEF DeviceInv, ReadsIntended
<1>10. ASSUME queue' \in [Streams -> Seq(Operations)] PROVE TypeInv'
  <2>1. wrote' \in [Locations -> Nat]
    BY <1>5, o \in Operations DEF Written, Operations, DeviceInv, TypeInv
  <2>2. IsBatch(cur')
    BY <1>1, IdType DEF IsBatch, DeviceInv, TypeInv
  <2> QED
    BY <1>2, <1>10, <2>1, <2>2 DEF DeviceInv, TypeInv, IsBatch
<1>11. CASE ~overlap
  <2>1. queue' = [queue EXCEPT !["engine"] = Append(@, o)]
    BY <1>1, <1>4, <1>11 DEF Preparing
  <2>2. queue' \in [Streams -> Seq(Operations)] /\ EngineIssues(o)
    BY <1>2, <2>1, IssueEngine DEF DeviceInv
  <2>3. PICK l \in Locations : l = Input(b)
    BY LocationKinds
  <2>4. l # Staging /\ (\A b2 \in Blocks : l # Tokens(b2)) /\ o.writes = {l} /\ wrote' = Written(wrote, {l}, o.id)
    BY <1>5, <2>3, LocationsApart
  <2>5. StreamInv' /\ TokensInv' /\ StagingInv' /\ NormalInv' /\ PendingInv' /\ InputInv' /\ RowInv'
    BY <1>2, <1>5, <1>7, <1>10, <1>11, <2>2, <2>4, IssueNormal
  <2> QED
    BY <1>8, <1>9, <1>10, <2>2, <2>5 DEF DeviceInv
<1>12. CASE overlap
  <2>1. queue' = [queue EXCEPT !["scheduler"] = Append(@, o)]
    BY <1>1, <1>4, <1>12 DEF Preparing
  <2>2. queue' \in [Streams -> Seq(Operations)] /\ SchedulerIssues(o)
    BY <1>2, <2>1, IssueScheduler DEF DeviceInv
  <2>3. IsSchedulerOp(o)
    BY <1>5, LocationsApart DEF IsSchedulerOp
  <2>4. StreamInv' /\ TokensInv' /\ StagingInv' /\ NormalInv'
    BY <1>2, <1>7, <1>12, <2>2, <2>3, IssueOverlap
  <2>5. /\ EngineOps' = EngineOps /\ SchedulerOps'[Issued("scheduler") + 1] = o
        /\ Issued("scheduler") + 1 \in DOMAIN SchedulerOps'
        /\ \A k \in DOMAIN SchedulerOps : k \in DOMAIN SchedulerOps' /\ SchedulerOps'[k] = SchedulerOps[k]
        /\ \A k \in DOMAIN SchedulerOps' : k \in DOMAIN SchedulerOps \/ k = Issued("scheduler") + 1
        /\ \A p : Behind(SchedulerOps, Issued("scheduler") + 1, p) =>
                    Behind(SchedulerOps', Issued("scheduler")' + 1, p)
    BY <2>2, SchedulerMore DEF DeviceInv
  <2>6. PendingInv'
    BY <1>2, <1>5, <1>6, <1>7, <2>5 DEF DeviceInv, PendingInv
  <2>7. InputOrdered(b)'
    <3>1. \A p \in DOMAIN EngineOps : ~ ReadsInput(EngineOps[p], b)
      BY <1>7, <1>12 DEF DeviceInv, InputInv, InputOrdered
    <3>2. \A k \in DOMAIN SchedulerOps : Input(b) \notin SchedulerOps[k].writes
      <4>1. SUFFICES ASSUME NEW k \in DOMAIN SchedulerOps, Input(b) \in SchedulerOps[k].writes PROVE FALSE
        OBVIOUS
      <4>2. Input(b) \notin Rows(plan) /\ Input(b) \notin Rows(data.slots) /\ Input(b) # Input(data.block)
        BY LocationsApart DEF Rows
      <4> QED
        BY <1>2, <1>7, <4>1, <4>2 DEF DeviceInv, PendingInv
    <3>3. wrote'[Input(b)] = o.id
      BY <1>5, LocationKinds, WrittenFacts
    <3>4. \A k \in DOMAIN SchedulerOps' :
            Input(b) \in SchedulerOps'[k].writes => k = Issued("scheduler") + 1
      BY <2>5, <3>2
    <3>5. Input(b) \in SchedulerOps'[Issued("scheduler") + 1].writes
      BY <1>5, <2>5
    <3> QED
      BY <2>5, <3>1, <3>3, <3>4, <3>5 DEF InputOrdered
  <2>8. InputInv'
    <3>1. ASSUME NEW b2 \in Blocks, b2 # b PROVE InputOrdered(b2)'
      <4>1. wrote'[Input(b2)] = wrote[Input(b2)] /\ Input(b2) \notin o.writes
        BY <1>5, <3>1, LocationKinds, LocationsApart, WrittenFacts
      <4>2. InputOrdered(b2)
        BY <1>12 DEF DeviceInv, InputInv
      <4> QED
        BY <1>2, <1>7, <2>2, <4>1, <4>2, InputKept
    <3> QED
      BY <2>7, <3>1 DEF InputInv
  <2>9. RowInv'
    <3>1. ASSUME NEW s \in Slots PROVE RowOrdered(s)'
      <4>1. wrote'[Row(s)] = wrote[Row(s)] /\ Row(s) \notin o.writes
        BY <1>5, LocationKinds, LocationsApart, WrittenFacts
      <4>2. RowOrdered(s)
        BY <1>12 DEF DeviceInv, RowInv
      <4> QED
        BY <1>2, <2>2, <4>1, <4>2, RowKept
    <3> QED
      BY <1>2, <1>7, <1>12, <2>5, <3>1 DEF DeviceInv, RowInv
  <2> QED
    BY <1>8, <1>9, <1>10, <2>2, <2>4, <2>6, <2>8, <2>9 DEF DeviceInv
<1> QED
  BY <1>11, <1>12

----------------------------------------------------------------------------
(* Slots are released *)

\* Their reuse waits for the engine.
LEMMA ReleaseFacts ==
  ASSUME TypeInv, NEW released \in SUBSET Slots, queue' = WaitForEngine(released), done' = done
  PROVE  /\ queue' \in [Streams -> Seq(Operations)]
         /\ EngineOps' = EngineOps /\ Issued("engine")' = Issued("engine")
         /\ \A k \in DOMAIN SchedulerOps : k \in DOMAIN SchedulerOps' /\ SchedulerOps'[k] = SchedulerOps[k]
         /\ \A k \in DOMAIN SchedulerOps' :
              k \in DOMAIN SchedulerOps \/ (SchedulerOps'[k].writes = {} /\ SchedulerOps'[k].reads = {})
         /\ overlap \/ SchedulerOps' = SchedulerOps
         /\ \A i, p : Behind(SchedulerOps, i, p) => Behind(SchedulerOps', i, p)
         /\ \A p : Behind(SchedulerOps, Issued("scheduler") + 1, p) =>
                     Behind(SchedulerOps', Issued("scheduler")' + 1, p)
         /\ overlap /\ released # {} =>
              \A p \in DOMAIN EngineOps : Behind(SchedulerOps', Issued("scheduler")' + 1, p)
<1>1. CASE overlap /\ released # {}
  <2>1. WaitFor("engine") \in Operations
    BY Positions DEF WaitFor, Operations, Kinds
  <2>2. PICK o \in Operations : o = WaitFor("engine")
    BY <2>1
  <2>3. o.writes = {} /\ o.reads = {} /\ o.kind = "wait" /\ o.until = Issued("engine")
    BY <2>2 DEF WaitFor
  <2>4. queue' = [queue EXCEPT !["scheduler"] = Append(@, o)]
    BY <1>1, <2>2 DEF WaitForEngine
  <2>5. queue' \in [Streams -> Seq(Operations)] /\ SchedulerIssues(o)
    BY <2>4, IssueScheduler
  <2>6. /\ EngineOps' = EngineOps /\ Issued("scheduler") + 1 \notin DOMAIN SchedulerOps
        /\ Issued("scheduler") + 1 \in DOMAIN SchedulerOps'
        /\ SchedulerOps'[Issued("scheduler") + 1] = o
        /\ \A k \in DOMAIN SchedulerOps :
             k \in DOMAIN SchedulerOps' /\ SchedulerOps'[k] = SchedulerOps[k]
        /\ \A k \in DOMAIN SchedulerOps' : k \in DOMAIN SchedulerOps \/ k = Issued("scheduler") + 1
        /\ \A i, p : Behind(SchedulerOps, i, p) => Behind(SchedulerOps', i, p)
        /\ \A p : Behind(SchedulerOps, Issued("scheduler") + 1, p) =>
                    Behind(SchedulerOps', Issued("scheduler")' + 1, p)
    BY <2>5, SchedulerMore
  <2>7. Issued("engine")' = Issued("engine") /\ Issued("scheduler")' = Issued("scheduler") + 1
    BY <2>5 DEF SchedulerIssues
  <2>8. ASSUME NEW p \in DOMAIN EngineOps PROVE Behind(SchedulerOps', Issued("scheduler")' + 1, p)
    <3>1. Issued("scheduler") \in Nat /\ Issued("engine") \in Nat /\ p \in Nat /\ Issued("engine") >= p
      BY Positions
    <3>2. Issued("scheduler") + 1 < Issued("scheduler")' + 1
      BY <2>7, <3>1
    <3> QED
      BY <2>3, <2>6, <3>1, <3>2 DEF Behind
  <2> QED
    BY <1>1, <2>3, <2>5, <2>6, <2>7, <2>8
<1>2. CASE ~ (overlap /\ released # {})
  <2>1. queue' = queue
    BY <1>2 DEF WaitForEngine
  <2>2. EngineOps' = EngineOps /\ SchedulerOps' = SchedulerOps
    BY <2>1 DEF EngineOps, SchedulerOps
  <2>3. Issued("engine")' = Issued("engine") /\ Issued("scheduler")' = Issued("scheduler")
    BY <2>1 DEF Issued
  <2>4. queue' \in [Streams -> Seq(Operations)]
    BY <2>1 DEF TypeInv
  <2> QED
    BY <1>2, <2>2, <2>3, <2>4
<1> QED
  BY <1>1, <1>2

\* Batches whose tokens the host has are given up, and slots that no batch has.
LEMMA ReleaseKeeps ==
  ASSUME DeviceInv, NEW released \in SUBSET Slots, queue' = WaitForEngine(released),
         UNCHANGED <<overlap, flashinfer, planned, done, wrote, memory>>,
         pc \in {"select", "process"}, Launched' \subseteq Launched,
         \A d \in Launched \ Launched' : d.copied <= done["engine"],
         (running \cup ending) \ released \subseteq running' \cup ending'
  PROVE  /\ queue' \in [Streams -> Seq(Operations)]
         /\ StreamInv' /\ TokensInv' /\ StagingInv' /\ NormalInv' /\ PendingInv' /\ InputInv' /\ RowInv'
<1>1. /\ queue' \in [Streams -> Seq(Operations)]
      /\ EngineOps' = EngineOps /\ Issued("engine")' = Issued("engine")
      /\ \A k \in DOMAIN SchedulerOps : k \in DOMAIN SchedulerOps' /\ SchedulerOps'[k] = SchedulerOps[k]
      /\ \A k \in DOMAIN SchedulerOps' :
           k \in DOMAIN SchedulerOps \/ (SchedulerOps'[k].writes = {} /\ SchedulerOps'[k].reads = {})
      /\ overlap \/ SchedulerOps' = SchedulerOps
      /\ \A i, p : Behind(SchedulerOps, i, p) => Behind(SchedulerOps', i, p)
      /\ \A p : Behind(SchedulerOps, Issued("scheduler") + 1, p) =>
                  Behind(SchedulerOps', Issued("scheduler")' + 1, p)
      /\ overlap /\ released # {} =>
           \A p \in DOMAIN EngineOps : Behind(SchedulerOps', Issued("scheduler")' + 1, p)
  BY ReleaseFacts DEF DeviceInv
<1>2. ASSUME NEW p \in DOMAIN EngineOps, NEW d \in Launched, p <= d.copied PROVE d \in Launched'
  <2>1. d.copied \in Nat
    BY DEF DeviceInv, TypeInv, IsBatch, Launched
  <2>2. p \in Nat /\ done["engine"] \in Nat /\ p > done["engine"]
    BY Positions DEF DeviceInv
  <2> QED
    BY <1>2, <2>1, <2>2
<1>3. StreamInv'
  <2>1. \A k \in DOMAIN SchedulerOps' : IsSchedulerOp(SchedulerOps'[k])
    BY <1>1 DEF DeviceInv, StreamInv, IsSchedulerOp
  <2> QED
    BY <1>1, <2>1 DEF DeviceInv, StreamInv, IsEngineOp
<1>4. TokensInv'
  <2>1. ASSUME NEW p \in DOMAIN EngineOps, NEW b \in Blocks, Tokens(b) \in EngineOps[p].writes
        PROVE  \E d \in Launched' : d.block = b /\ p <= d.copied
    BY <1>2, <2>1 DEF DeviceInv, TokensInv
  <2>2. ASSUME NEW d \in Launched'
        PROVE  IF d.copied > done["engine"]
               THEN /\ d.copied \in DOMAIN EngineOps
                    /\ Tokens(d.block) \in EngineOps[d.copied].writes /\ EngineOps[d.copied].id = d.id
               ELSE memory[Tokens(d.block)] = d.id
    BY <2>2 DEF DeviceInv, TokensInv
  <2> QED
    BY <1>1, <2>1, <2>2 DEF TokensInv
<1>5. StagingInv' /\ NormalInv'
  BY <1>1 DEF DeviceInv, StagingInv, NormalInv
<1>6. PendingInv'
  <2>1. ASSUME NEW k \in DOMAIN SchedulerOps', SchedulerOps'[k].writes # {}
        PROVE  \E d \in Launched' : Behind(EngineOps', d.copied, k)
                 /\ SchedulerOps'[k].writes \subseteq Rows(d.slots) \cup {Input(d.block)}
    <3>1. k \in DOMAIN SchedulerOps /\ SchedulerOps'[k] = SchedulerOps[k]
      BY <1>1, <2>1
    <3>2. PICK d \in Launched : Behind(EngineOps, d.copied, k)
                 /\ SchedulerOps[k].writes \subseteq Rows(d.slots) \cup {Input(d.block)}
      BY <2>1, <3>1 DEF DeviceInv, PendingInv
    <3>3. PICK j \in DOMAIN EngineOps : j < d.copied
      BY <3>2 DEF Behind
    <3>4. j <= d.copied
      BY <3>3, Positions DEF DeviceInv, TypeInv, IsBatch, Launched
    <3>5. d \in Launched'
      BY <1>2, <3>3, <3>4
    <3> QED
      BY <1>1, <3>1, <3>2, <3>5
  <2> QED
    BY <2>1 DEF PendingInv
<1>7. InputInv'
  <2>1. ASSUME NEW b \in Blocks, InputOrdered(b) PROVE InputOrdered(b)'
    <3>1. \A p \in DOMAIN EngineOps :
            ReadsInput(EngineOps[p], b) =>
              /\ \A r \in EngineOps[p].reads : r[1] = Input(b) => r[2] = wrote[Input(b)]
              /\ \E d \in Launched' : d.block = b /\ p <= d.copied
      BY <1>2, <2>1 DEF InputOrdered
    <3>2. \A k \in DOMAIN SchedulerOps' :
            Input(b) \in SchedulerOps'[k].writes =>
              k \in DOMAIN SchedulerOps /\ SchedulerOps'[k] = SchedulerOps[k] /\ Input(b) \in SchedulerOps[k].writes
      BY <1>1
    <3>3. (\A k \in DOMAIN SchedulerOps' : Input(b) \notin SchedulerOps'[k].writes) =>
            \A k \in DOMAIN SchedulerOps : Input(b) \notin SchedulerOps[k].writes
      BY <1>1
    <3> QED
      BY <1>1, <2>1, <3>1, <3>2, <3>3 DEF InputOrdered
  <2> QED
    BY <2>1 DEF DeviceInv, InputInv
<1>8. RowInv'
  <2>1. ASSUME NEW s \in Slots, RowOrdered(s) PROVE RowOrdered(s)'
    <3>1. \A k \in DOMAIN SchedulerOps' :
            Row(s) \in SchedulerOps'[k].writes =>
              k \in DOMAIN SchedulerOps /\ SchedulerOps'[k] = SchedulerOps[k] /\ Row(s) \in SchedulerOps[k].writes
      BY <1>1
    <3>2. (\A k \in DOMAIN SchedulerOps' : Row(s) \notin SchedulerOps'[k].writes) =>
            \A k \in DOMAIN SchedulerOps : Row(s) \notin SchedulerOps[k].writes
      BY <1>1
    <3>3. ASSUME NEW k \in DOMAIN SchedulerOps', Row(s) \in SchedulerOps'[k].writes
          PROVE  \E m \in 0 .. Issued("engine")' :
                   Parts(EngineOps', SchedulerOps', k, Row(s), m, wrote'[Row(s)])
      <4>1. k \in DOMAIN SchedulerOps /\ SchedulerOps'[k] = SchedulerOps[k] /\ Row(s) \in SchedulerOps[k].writes
        BY <3>1, <3>3
      <4>2. PICK m \in 0 .. Issued("engine") :
              Parts(EngineOps, SchedulerOps, k, Row(s), m, wrote[Row(s)])
        BY <2>1, <4>1 DEF RowOrdered
      <4>3. Parts(EngineOps', SchedulerOps', k, Row(s), m, wrote'[Row(s)])
        BY <1>1, <4>1, <4>2 DEF Parts
      <4> QED
        BY <1>1, <4>3
    <3> QED
      BY <1>1, <2>1, <3>1, <3>2, <3>3 DEF RowOrdered
  <2>2. ASSUME overlap, NEW s \in Slots
        PROVE  /\ \A p \in DOMAIN EngineOps :
                    Row(s) \in Reads(EngineOps[p]) => \E d \in Launched' : s \in d.slots /\ p <= d.copied
               /\ s \notin running' \cup ending' =>
                    \A p \in DOMAIN EngineOps :
                      Row(s) \in EngineOps[p].writes => Behind(SchedulerOps', Issued("scheduler")' + 1, p)
    <3>1. \A p \in DOMAIN EngineOps :
            Row(s) \in Reads(EngineOps[p]) => \E d \in Launched' : s \in d.slots /\ p <= d.copied
      BY <1>2, <2>2 DEF DeviceInv, RowInv
    <3>2. ASSUME s \notin running' \cup ending', NEW p \in DOMAIN EngineOps, Row(s) \in EngineOps[p].writes
          PROVE  Behind(SchedulerOps', Issued("scheduler")' + 1, p)
      <4>1. CASE s \in running \cup ending
        BY <1>1, <2>2, <3>2, <4>1
      <4>2. CASE s \notin running \cup ending
        BY <1>1, <2>2, <3>2, <4>2 DEF DeviceInv, RowInv
      <4> QED
        BY <4>1, <4>2
    <3> QED
      BY <3>1, <3>2
  <2> QED
    BY <1>1, <2>1, <2>2 DEF DeviceInv, RowInv
<1> QED
  BY <1>1, <1>3, <1>4, <1>5, <1>6, <1>7, <1>8

LEMMA AbortDeviceInv ==
  ASSUME DeviceInv, NEW s \in Slots, Abort(s)
  PROVE  DeviceInv'
<1>1. /\ pc = "select" /\ pc' = pc /\ running' = running \ {s} /\ s \in running
      /\ overlap' = overlap /\ flashinfer' = flashinfer /\ plan' = plan /\ data' = data /\ cur' = cur
      /\ batches' = batches /\ done' = done /\ planned' = planned /\ wrote' = wrote
      /\ memory' = memory /\ faults' = faults
  BY DEF Abort
<1>2. Launched' = Launched
  BY <1>1 DEF Launched
<1>3. PICK released \in SUBSET Slots :
        /\ queue' = WaitForEngine(released)
        /\ released = IF InFlight(s) THEN {} ELSE {s}
        /\ ending' = IF InFlight(s) THEN ending \cup {s} ELSE ending
  <2>1. CASE InFlight(s)
    <3>1. queue' = WaitForEngine({})
      BY <2>1 DEF Abort, WaitForEngine
    <3>2. ending' = ending \cup {s}
      BY <2>1 DEF Abort
    <3> QED
      BY <2>1, <3>1, <3>2
  <2>2. CASE ~ InFlight(s)
    <3>1. queue' = WaitForEngine({s}) /\ ending' = ending
      BY <2>2 DEF Abort
    <3> QED
      BY <2>2, <3>1
  <2> QED
    BY <2>1, <2>2
<1>4. (running \cup ending) \ released \subseteq running' \cup ending'
  BY <1>1, <1>3
<1>5. \A d \in Launched : d.slots \subseteq running' \cup ending'
  <2>1. \A d \in Launched : d.slots \subseteq running \cup ending /\ d \in {data, cur}
    BY DEF DeviceInv, BatchInv, Launched
  <2> QED
    BY <1>1, <1>3, <2>1 DEF InFlight
<1>6. BatchInv'
  BY <1>1, <1>2, <1>5 DEF DeviceInv, BatchInv
<1>7. /\ queue' \in [Streams -> Seq(Operations)]
      /\ StreamInv' /\ TokensInv' /\ StagingInv' /\ NormalInv' /\ PendingInv' /\ InputInv' /\ RowInv'
  BY <1>1, <1>2, <1>3, <1>4, ReleaseKeeps
<1>8. TypeInv'
  BY <1>1, <1>3, <1>7 DEF DeviceInv, TypeInv, IsBatch
<1>9. ReadsIntended'
  BY <1>1 DEF DeviceInv, ReadsIntended
<1> QED
  BY <1>6, <1>7, <1>8, <1>9 DEF DeviceInv

LEMMA ProcessDeviceInv ==
  ASSUME DeviceInv, Process
  PROVE  DeviceInv'
<1>1. /\ pc = "process" /\ pc' = "select" /\ done["engine"] >= Landing.copied
      /\ faults' = IF Landing # None /\ memory[Tokens(Landing.block)] # Landing.id
                   THEN faults \cup {<<"host", "tokens">>} ELSE faults
      /\ overlap' = overlap /\ flashinfer' = flashinfer /\ plan' = plan
      /\ data' = Following /\ cur' = None
      /\ batches' = batches /\ done' = done /\ planned' = planned /\ wrote' = wrote /\ memory' = memory
  BY DEF Process
<1>2. IsBatch(Landing) /\ IsBatch(Following) /\ IsBatch(None)
  <2>1. IsBatch(None)
    BY DEF IsBatch, None
  <2> QED
    BY <2>1 DEF DeviceInv, TypeInv, Landing, Following
<1>3. PICK ended \in SUBSET (Landing.slots \ ending), over \in SUBSET Slots, released \in SUBSET Slots :
        /\ over = (Landing.slots \cap ending) \cup ended /\ released = over \ Following.slots
        /\ running' = running \ over /\ ending' = (ending \cup over) \ released
        /\ queue' = WaitForEngine(released)
  <2>1. PICK ended \in SUBSET (Landing.slots \ ending) :
          LET over == (Landing.slots \cap ending) \cup ended
              released == over \ Following.slots
          IN /\ running' = running \ over /\ ending' = (ending \cup over) \ released
             /\ queue' = WaitForEngine(released)
    BY DEF Process
  <2>2. PICK over \in SUBSET Slots, released \in SUBSET Slots :
          over = (Landing.slots \cap ending) \cup ended /\ released = over \ Following.slots
    BY <1>2 DEF IsBatch
  <2> QED
    BY <2>1, <2>2
<1>4. over \subseteq Slots /\ released \in SUBSET Slots
  OBVIOUS
<1>5. /\ Launched' = {d \in {Following, None} : d.copied > 0}
      /\ Launched' \subseteq Launched /\ \A d \in Launched' : d = Following
  <2>1. Launched' = {d \in {Following, None} : d.copied > 0}
    BY <1>1 DEF Launched
  <2>2. ~ (None.copied > 0)
    BY DEF None
  <2> QED
    BY <2>1, <2>2 DEF Launched, Following
<1>6. ASSUME NEW d \in Launched \ Launched' PROVE d.copied <= done["engine"]
  <2>1. d \in {data, cur} /\ d.copied > 0 /\ d # Following
    BY <1>5, <1>6 DEF Launched
  <2>2. ~ (None.copied > 0)
    BY DEF None
  <2>3. d = Landing
    BY <2>1, <2>2 DEF DeviceInv, BatchInv, Landing, Following
  <2>4. Landing.copied \in Nat /\ done["engine"] \in Nat
    BY <1>2, Positions DEF DeviceInv, IsBatch
  <2> QED
    BY <1>1, <2>3, <2>4
<1>7. (running \cup ending) \ released \subseteq running' \cup ending'
  BY <1>3
<1>8. BatchInv'
  <2>1. \A d \in Launched' : d.slots \subseteq running' \cup ending'
    <3>1. \A d \in Launched' : d.slots \subseteq running \cup ending
      BY <1>5 DEF DeviceInv, BatchInv
    <3> QED
      BY <1>3, <1>5, <1>7, <3>1
  <2>2. data' = None \/ data'.copied > 0
    BY <1>1 DEF DeviceInv, BatchInv, Following
  <2>3. overlap' \/ data' = None
    BY <1>1 DEF Following
  <2>4. \A d1, d2 \in Launched' : d1.block = d2.block => d1 = d2
    BY <1>5
  <2> QED
    BY <1>1, <2>1, <2>2, <2>3, <2>4 DEF BatchInv
<1>9. ReadsIntended'
  <2>1. ASSUME Landing # None PROVE memory[Tokens(Landing.block)] = Landing.id
    <3>1. Landing \in Launched
      BY <1>1, <2>1 DEF DeviceInv, BatchInv, Landing, Launched
    <3>2. ~ (Landing.copied > done["engine"])
      BY <1>1, <1>2, Positions DEF DeviceInv, IsBatch
    <3> QED
      BY <3>1, <3>2 DEF DeviceInv, TokensInv
  <2> QED
    BY <1>1, <2>1 DEF DeviceInv, ReadsIntended
<1>10. /\ queue' \in [Streams -> Seq(Operations)]
       /\ StreamInv' /\ TokensInv' /\ StagingInv' /\ NormalInv' /\ PendingInv' /\ InputInv' /\ RowInv'
  BY <1>1, <1>3, <1>4, <1>5, <1>6, <1>7, ReleaseKeeps
<1>11. TypeInv'
  BY <1>1, <1>3, <1>2, <1>4, <1>10 DEF DeviceInv, TypeInv
<1> QED
  BY <1>8, <1>9, <1>10, <1>11 DEF DeviceInv

----------------------------------------------------------------------------
(* A batch is launched *)

GatherOp(b) == Op("gather", Id(5), Rows(plan) \cup {Input(b)}, {})
PlanningOp(b) == [Op("plan", Id(4), {Input(b)}, {}) EXCEPT !.reads = @ \cup {<<Staging, Id(3)>>}]
ForwardOp(b) == Op("forward", Id(6), {Input(b)}, {Tokens(b)})
StoreOp(b) == Op("store", Id(7), {Input(b)}, Rows(plan))

\* What is issued before the tokens are there, and all.
BeforeTokens(b) == WaitForPreparing \o <<GatherOp(b)>> \o PlanOp(b)
LaunchOps(b) == BeforeTokens(b) \o <<ForwardOp(b), StoreOp(b)>>

LEMMA OpType ==
  ASSUME TypeInv, NEW kind \in Kinds, NEW id \in Nat,
         NEW reads \in SUBSET Locations, NEW writes \in SUBSET Locations
  PROVE  Op(kind, id, reads, writes) \in Operations
BY OpFields

LEMMA LaunchTypes ==
  ASSUME TypeInv, NEW b \in Blocks
  PROVE  /\ WaitFor("scheduler") \in Operations /\ GatherOp(b) \in Operations
         /\ PlanningOp(b) \in Operations /\ ForwardOp(b) \in Operations /\ StoreOp(b) \in Operations
<1>1. /\ Rows(plan) \in SUBSET Locations /\ {Input(b)} \in SUBSET Locations
      /\ Rows(plan) \cup {Input(b)} \in SUBSET Locations
      /\ {Tokens(b)} \in SUBSET Locations /\ {} \in SUBSET Locations /\ Staging \in Locations
  BY LocationKinds DEF TypeInv, Rows
<1>2. Id(3) \in Nat /\ Id(4) \in Nat /\ Id(5) \in Nat /\ Id(6) \in Nat /\ Id(7) \in Nat
  BY IdType
<1>3. "gather" \in Kinds /\ "plan" \in Kinds /\ "forward" \in Kinds /\ "store" \in Kinds
  BY DEF Kinds
<1>4. WaitFor("scheduler") \in Operations
  BY Positions DEF WaitFor, Operations, Kinds
<1>5. GatherOp(b) \in Operations
  <2>1. PICK kind \in Kinds, id \in Nat, reads \in SUBSET Locations, writes \in SUBSET Locations :
          Op(kind, id, reads, writes) = Op("gather", Id(5), Rows(plan) \cup {Input(b)}, {})
    BY <1>1, <1>2, <1>3
  <2>2. Op(kind, id, reads, writes) \in Operations
    BY OpType
  <2> QED
    BY <2>1, <2>2 DEF GatherOp
<1>6. ForwardOp(b) \in Operations
  <2>1. PICK kind \in Kinds, id \in Nat, reads \in SUBSET Locations, writes \in SUBSET Locations :
          Op(kind, id, reads, writes) = Op("forward", Id(6), {Input(b)}, {Tokens(b)})
    BY <1>1, <1>2, <1>3
  <2>2. Op(kind, id, reads, writes) \in Operations
    BY OpType
  <2> QED
    BY <2>1, <2>2 DEF ForwardOp
<1>7. StoreOp(b) \in Operations
  <2>1. PICK kind \in Kinds, id \in Nat, reads \in SUBSET Locations, writes \in SUBSET Locations :
          Op(kind, id, reads, writes) = Op("store", Id(7), {Input(b)}, Rows(plan))
    BY <1>1, <1>2, <1>3
  <2>2. Op(kind, id, reads, writes) \in Operations
    BY OpType
  <2> QED
    BY <2>1, <2>2 DEF StoreOp
<1>8. PlanningOp(b) \in Operations
  <2>1. PICK op \in Operations : op = Op("plan", Id(4), {Input(b)}, {})
    BY <1>1, <1>2, <1>3, OpFields
  <2>2. PlanningOp(b) = [op EXCEPT !.reads = @ \cup {<<Staging, Id(3)>>}]
    BY <2>1 DEF PlanningOp
  <2>3. op.reads \cup {<<Staging, Id(3)>>} \in SUBSET (Locations \X Nat)
    BY <1>1, <1>2, op \in Operations DEF Operations
  <2> QED
    BY <2>2, <2>3, op \in Operations DEF Operations
<1> QED
  BY <1>4, <1>5, <1>6, <1>7, <1>8

\* The order of the operations of a launch.
LEMMA LaunchSequence ==
  ASSUME TypeInv, NEW b \in Blocks
  PROVE  /\ LaunchOps(b) \in Seq(Operations) /\ Len(BeforeTokens(b)) \in Nat
         /\ Len(LaunchOps(b)) = Len(BeforeTokens(b)) + 2
         /\ LaunchOps(b)[Len(BeforeTokens(b)) + 1] = ForwardOp(b)
         /\ LaunchOps(b)[Len(BeforeTokens(b)) + 2] = StoreOp(b)
         /\ overlap => Len(BeforeTokens(b)) >= 1 /\ LaunchOps(b)[1] = WaitFor("scheduler")
         /\ \A i \in 1 .. Len(BeforeTokens(b)) :
              \/ overlap /\ i = 1 /\ LaunchOps(b)[i] = WaitFor("scheduler")
              \/ (overlap => i > 1) /\ LaunchOps(b)[i] = GatherOp(b)
              \/ (overlap => i > 1) /\ flashinfer /\ LaunchOps(b)[i] = PlanningOp(b)
<1>1. PICK w \in Operations, g \in Operations, p \in Operations, f \in Operations, s \in Operations :
        /\ w = WaitFor("scheduler") /\ g = GatherOp(b) /\ p = PlanningOp(b)
        /\ f = ForwardOp(b) /\ s = StoreOp(b)
  BY LaunchTypes
<1>2. /\ BeforeTokens(b) = (IF overlap THEN <<w>> ELSE <<>>) \o <<g>> \o (IF flashinfer THEN <<p>> ELSE <<>>)
      /\ LaunchOps(b) = BeforeTokens(b) \o <<f, s>>
  BY <1>1 DEF BeforeTokens, LaunchOps, WaitForPreparing, PlanOp, PlanningOp
<1>3. PICK q \in Seq(Operations) :
        /\ q = BeforeTokens(b) /\ (overlap => Len(q) >= 1 /\ q[1] = w)
        /\ \A i \in 1 .. Len(q) :
             \/ overlap /\ i = 1 /\ q[i] = w
             \/ (overlap => i > 1) /\ q[i] = g
             \/ (overlap => i > 1) /\ flashinfer /\ q[i] = p
  <2>1. PICK a \in Seq(Operations) :
          /\ a = IF overlap THEN <<w>> ELSE <<>>
          /\ overlap => Len(a) = 1 /\ a[1] = w
          /\ ~overlap => Len(a) = 0
    <3>1. <<w>> \in Seq(Operations) /\ Len(<<w>>) = 1 /\ <<w>>[1] = w
      OBVIOUS
    <3>2. <<>> \in Seq(Operations) /\ Len(<<>>) = 0
      OBVIOUS
    <3>3. CASE overlap
      BY <3>1, <3>3
    <3>4. CASE ~overlap
      BY <3>2, <3>4
    <3> QED
      BY <3>3, <3>4
  <2>2. PICK d \in Seq(Operations) :
          /\ d = IF flashinfer THEN <<p>> ELSE <<>>
          /\ flashinfer => Len(d) = 1 /\ d[1] = p
          /\ ~flashinfer => Len(d) = 0
    <3>1. <<p>> \in Seq(Operations) /\ Len(<<p>>) = 1 /\ <<p>>[1] = p
      OBVIOUS
    <3>2. <<>> \in Seq(Operations) /\ Len(<<>>) = 0
      OBVIOUS
    <3>3. CASE flashinfer
      BY <3>1, <3>3
    <3>4. CASE ~flashinfer
      BY <3>2, <3>4
    <3> QED
      BY <3>3, <3>4
  <2>3. PICK x \in Seq(Operations) : x = <<g>> /\ Len(x) = 1 /\ x[1] = g
    <3>1. <<g>> \in Seq(Operations) /\ Len(<<g>>) = 1 /\ <<g>>[1] = g
      OBVIOUS
    <3> QED
      BY <3>1
  <2>4. PICK h \in Seq(Operations) :
          /\ h = a \o x /\ Len(h) = Len(a) + 1 /\ Len(a) \in Nat
          /\ \A i \in 1 .. Len(a) : h[i] = a[i]
          /\ h[Len(a) + 1] = g
    <3>1. /\ a \o x \in Seq(Operations) /\ Len(a \o x) = Len(a) + 1 /\ Len(a) \in Nat
          /\ \A i \in 1 .. Len(a) : (a \o x)[i] = a[i]
          /\ (a \o x)[Len(a) + 1] = g
      BY <2>3
    <3> QED
      BY <3>1
  <2>5. PICK q \in Seq(Operations) :
          /\ q = h \o d /\ Len(q) = Len(h) + Len(d) /\ Len(d) \in Nat
          /\ \A i \in 1 .. Len(h) : q[i] = h[i]
          /\ \A i \in 1 .. Len(d) : q[Len(h) + i] = d[i]
    <3>1. /\ h \o d \in Seq(Operations) /\ Len(h \o d) = Len(h) + Len(d) /\ Len(d) \in Nat
          /\ \A i \in 1 .. Len(h) : (h \o d)[i] = h[i]
          /\ \A i \in 1 .. Len(d) : (h \o d)[Len(h) + i] = d[i]
      OBVIOUS
    <3> QED
      BY <3>1
  <2>6. q = BeforeTokens(b)
    BY <1>2, <2>1, <2>2, <2>3, <2>4, <2>5
  <2>7. \A i \in 1 .. Len(q) :
          \/ i \in 1 .. Len(a) /\ q[i] = a[i]
          \/ i = Len(a) + 1 /\ q[i] = g
          \/ i = Len(a) + 2 /\ Len(d) = 1 /\ q[i] = d[1]
    <3>1. Len(d) = 0 \/ Len(d) = 1
      BY <2>2
    <3>2. ASSUME NEW i \in 1 .. Len(q), i \notin 1 .. Len(h)
          PROVE  i = Len(a) + 2 /\ Len(d) = 1 /\ q[i] = d[1]
      <4>1. Len(d) = 1 /\ i = Len(h) + 1
        <5>1. PICK m \in Nat, n \in Nat : m = Len(h) /\ n = Len(d) /\ Len(q) = m + n
          BY <2>5
        <5>2. i > m /\ i <= m + n
          BY <3>2, <5>1
        <5>4. n = 0 \/ n = 1
          BY <3>1, <5>1
        <5>5. PICK j \in Nat : j = i
          BY <5>1
        <5>3. n = 1 /\ i = m + 1
          BY <5>2, <5>4, <5>5
        <5> QED
          BY <5>1, <5>3
      <4>2. 1 \in 1 .. Len(d)
        BY <4>1
      <4> QED
        BY <2>4, <2>5, <4>1, <4>2
    <3>3. ASSUME NEW i \in 1 .. Len(h)
          PROVE  (i \in 1 .. Len(a) /\ q[i] = a[i]) \/ (i = Len(a) + 1 /\ q[i] = g)
      BY <2>4, <2>5
    <3> QED
      BY <3>2, <3>3
  <2>8. \A i \in 1 .. Len(q) :
          \/ overlap /\ i = 1 /\ q[i] = w
          \/ (overlap => i > 1) /\ q[i] = g
          \/ (overlap => i > 1) /\ flashinfer /\ q[i] = p
    <3>1. CASE overlap
      BY <2>1, <2>2, <2>7, <3>1
    <3>2. CASE ~overlap
      <4>1. 1 .. Len(a) = {}
        BY <2>1, <3>2
      <4> QED
        BY <2>2, <2>7, <3>2, <4>1
    <3> QED
      BY <3>1, <3>2
  <2>9. overlap => Len(q) >= 1 /\ q[1] = w
    <3>1. SUFFICES ASSUME overlap PROVE Len(q) >= 1 /\ q[1] = w
      OBVIOUS
    <3>2. Len(a) = 1 /\ a[1] = w /\ Len(h) = 2
      BY <2>1, <2>4, <3>1
    <3>3. h[1] = a[1] /\ q[1] = h[1]
      BY <2>4, <2>5, <3>2
    <3> QED
      BY <2>5, <3>2, <3>3
  <2> QED
    BY <2>6, <2>8, <2>9
<1>4. PICK t \in Seq(Operations) : t = <<f, s>> /\ Len(t) = 2 /\ t[1] = f /\ t[2] = s
  <2>1. <<f, s>> \in Seq(Operations)
    OBVIOUS
  <2> QED
    BY <2>1
<1>5. /\ q \o t \in Seq(Operations) /\ Len(q \o t) = Len(q) + 2 /\ Len(q) \in Nat
      /\ \A i \in 1 .. Len(q) : (q \o t)[i] = q[i]
      /\ (q \o t)[Len(q) + 1] = f /\ (q \o t)[Len(q) + 2] = s
  BY <1>4
<1>6. LaunchOps(b) = q \o t
  BY <1>2, <1>3, <1>4
<1>7. overlap => 1 \in 1 .. Len(q)
  BY <1>3, <1>5
<1> QED
  BY <1>1, <1>3, <1>5, <1>6, <1>7

\* What they read and write.
LEMMA LaunchReads ==
  ASSUME TypeInv, NEW b \in Blocks
  PROVE  /\ \A op \in {WaitFor("scheduler"), GatherOp(b), PlanningOp(b), ForwardOp(b), StoreOp(b)} :
              /\ Reads(op) \subseteq Rows(plan) \cup {Input(b), Staging}
              /\ \A r \in op.reads : r[1] # Staging => r[2] = wrote[r[1]]
         /\ \A op \in {WaitFor("scheduler"), GatherOp(b), ForwardOp(b), StoreOp(b)} : Staging \notin Reads(op)
         /\ \A op \in {ForwardOp(b), StoreOp(b)} : Reads(op) = {Input(b)}
         /\ \A r \in PlanningOp(b).reads : r[1] = Staging => r[2] = Id(3)
         /\ WaitFor("scheduler").reads = {} /\ WaitFor("scheduler").writes = {}
         /\ WaitFor("scheduler").kind = "wait" /\ WaitFor("scheduler").until = Issued("scheduler")
         /\ GatherOp(b).writes = {} /\ PlanningOp(b).writes = {} /\ ForwardOp(b).writes = {Tokens(b)}
         /\ StoreOp(b).writes = Rows(plan) /\ StoreOp(b).kind = "store"
         /\ ForwardOp(b).id = Id(6) /\ StoreOp(b).id = Id(7)
<1>1. /\ GatherOp(b).reads = {<<l, wrote[l]>> : l \in Rows(plan) \cup {Input(b)}}
      /\ ForwardOp(b).reads = {<<l, wrote[l]>> : l \in {Input(b)}}
      /\ StoreOp(b).reads = {<<l, wrote[l]>> : l \in {Input(b)}}
      /\ WaitFor("scheduler").reads = {}
  BY DEF GatherOp, ForwardOp, StoreOp, Op, WaitFor
<1>2. PlanningOp(b).reads = {<<l, wrote[l]>> : l \in {Input(b)}} \cup {<<Staging, Id(3)>>}
  BY DEF PlanningOp, Op
<1>3. Staging \notin Rows(plan) \cup {Input(b)}
  BY LocationsApart DEF Rows
<1>4. /\ \A r \in GatherOp(b).reads : r[1] \in Rows(plan) \cup {Input(b)} /\ r[2] = wrote[r[1]]
      /\ \A r \in ForwardOp(b).reads : r[1] = Input(b) /\ r[2] = wrote[r[1]]
      /\ \A r \in StoreOp(b).reads : r[1] = Input(b) /\ r[2] = wrote[r[1]]
      /\ \A r \in WaitFor("scheduler").reads : FALSE
  BY <1>1
<1>5. \A r \in PlanningOp(b).reads :
        (r[1] = Input(b) /\ r[2] = wrote[r[1]]) \/ (r[1] = Staging /\ r[2] = Id(3))
  BY <1>2
<1>6. <<Input(b), wrote[Input(b)]>> \in ForwardOp(b).reads /\ <<Input(b), wrote[Input(b)]>> \in StoreOp(b).reads
  BY <1>1
<1>7. \A op \in {ForwardOp(b), StoreOp(b)} : Reads(op) = {Input(b)}
  <2>1. <<Input(b), wrote[Input(b)]>>[1] = Input(b)
    OBVIOUS
  <2>2. ASSUME NEW op \in {ForwardOp(b), StoreOp(b)} PROVE Reads(op) = {Input(b)}
    <3>1. Input(b) \in Reads(op)
      BY <1>6, <2>1 DEF Reads
    <3>2. \A l \in Reads(op) : l = Input(b)
      BY <1>4 DEF Reads
    <3> QED
      BY <3>1, <3>2
  <2> QED
    BY <2>2
<1>8. \A op \in {WaitFor("scheduler"), GatherOp(b), PlanningOp(b), ForwardOp(b), StoreOp(b)} :
        /\ Reads(op) \subseteq Rows(plan) \cup {Input(b), Staging}
        /\ \A r \in op.reads : r[1] # Staging => r[2] = wrote[r[1]]
  BY <1>4, <1>5 DEF Reads
<1>9. \A op \in {WaitFor("scheduler"), GatherOp(b), ForwardOp(b), StoreOp(b)} : Staging \notin Reads(op)
  BY <1>3, <1>4 DEF Reads
<1>10. \A r \in PlanningOp(b).reads : r[1] = Staging => r[2] = Id(3)
  BY <1>3, <1>5
<1>11. /\ WaitFor("scheduler").writes = {}
       /\ WaitFor("scheduler").kind = "wait" /\ WaitFor("scheduler").until = Issued("scheduler")
       /\ GatherOp(b).writes = {} /\ PlanningOp(b).writes = {} /\ ForwardOp(b).writes = {Tokens(b)}
       /\ StoreOp(b).writes = Rows(plan) /\ StoreOp(b).kind = "store"
       /\ ForwardOp(b).id = Id(6) /\ StoreOp(b).id = Id(7)
  BY DEF WaitFor, GatherOp, PlanningOp, ForwardOp, StoreOp, Op
<1> QED
  BY <1>1, <1>7, <1>8, <1>9, <1>10, <1>11

\* The engine's stream behind a launch: batch b's operations are at n + 1 .. c + 1.
LaunchIssues(b, n, c) ==
  /\ n = Issued("engine") /\ c \in Nat /\ n < c
  /\ Extended(EngineOps, EngineOps') /\ SchedulerOps' = SchedulerOps
  /\ DOMAIN EngineOps' = DOMAIN EngineOps \cup (n + 1 .. c + 1)
  /\ EngineOps'[c] = ForwardOp(b) /\ EngineOps'[c + 1] = StoreOp(b)
  /\ overlap => n + 1 < c /\ EngineOps'[n + 1] = WaitFor("scheduler")
  /\ \A i \in n + 1 .. c - 1 :
       \/ overlap /\ i = n + 1 /\ EngineOps'[i] = WaitFor("scheduler")
       \/ (overlap => i > n + 1) /\ EngineOps'[i] = GatherOp(b)
       \/ (overlap => i > n + 1) /\ flashinfer /\ EngineOps'[i] = PlanningOp(b) /\ i <= planned'

LEMMA LaunchPositions ==
  ASSUME TypeInv, Launch, cur.block \in Blocks
  PROVE  /\ queue' \in [Streams -> Seq(Operations)] /\ planned' \in Nat
         /\ LaunchIssues(cur.block, Issued("engine"), cur'.copied)
         /\ Issued("scheduler")' = Issued("scheduler") /\ Issued("engine")' = cur'.copied + 1
         /\ cur'.block = cur.block /\ cur'.slots = cur.slots /\ cur'.id = cur.id /\ IsBatch(cur')
<1>1. PICK b \in Blocks : b = cur.block
  OBVIOUS
<1>2. /\ LaunchOps(b) \in Seq(Operations) /\ Len(BeforeTokens(b)) \in Nat
      /\ Len(LaunchOps(b)) = Len(BeforeTokens(b)) + 2
      /\ LaunchOps(b)[Len(BeforeTokens(b)) + 1] = ForwardOp(b)
      /\ LaunchOps(b)[Len(BeforeTokens(b)) + 2] = StoreOp(b)
      /\ overlap => Len(BeforeTokens(b)) >= 1 /\ LaunchOps(b)[1] = WaitFor("scheduler")
      /\ \A i \in 1 .. Len(BeforeTokens(b)) :
           \/ overlap /\ i = 1 /\ LaunchOps(b)[i] = WaitFor("scheduler")
           \/ (overlap => i > 1) /\ LaunchOps(b)[i] = GatherOp(b)
           \/ (overlap => i > 1) /\ flashinfer /\ LaunchOps(b)[i] = PlanningOp(b)
  BY LaunchSequence
<1>3. PICK ops \in Seq(Operations), k \in Nat : ops = LaunchOps(b) /\ k = Len(BeforeTokens(b))
  BY <1>2
<1>4. /\ queue' = [queue EXCEPT !["engine"] = @ \o ops] /\ done' = done
      /\ cur' = [cur EXCEPT !.copied = Issued("engine") + k + 1]
      /\ planned' = IF flashinfer THEN Issued("engine") + k ELSE planned
  BY <1>1, <1>3 DEF Launch, LaunchOps, BeforeTokens, GatherOp, ForwardOp, StoreOp
<1>5. PICK q \in Seq(Operations), d \in Nat : q = queue["engine"] /\ d = done["engine"]
  BY DEF TypeInv, Streams
<1>6. /\ Extended(Placed(q, d), Placed(q \o ops, d))
      /\ DOMAIN Placed(q, d) = d + 1 .. d + Len(q)
      /\ DOMAIN Placed(q \o ops, d) = d + 1 .. d + Len(q) + Len(ops)
      /\ \A i \in 1 .. Len(ops) : Placed(q \o ops, d)[d + Len(q) + i] = ops[i]
  BY PlacedAppend
<1>7. queue'["engine"] = q \o ops /\ queue'["scheduler"] = queue["scheduler"]
  BY <1>4, <1>5 DEF TypeInv, Streams
<1>8. EngineOps = Placed(q, d) /\ EngineOps' = Placed(q \o ops, d) /\ SchedulerOps' = SchedulerOps
  BY <1>4, <1>5, <1>7 DEF EngineOps, SchedulerOps
<1>9. PICK n \in Nat, c \in Nat : n = d + Len(q) /\ c = n + k + 1
  OBVIOUS
<1>10. Issued("engine") = n
  BY <1>5, <1>9 DEF Issued
<1>11. Issued("scheduler")' = Issued("scheduler")
  BY <1>4, <1>7 DEF Issued
<1>12. Issued("engine")' = c + 1
  <2>1. Len(q \o ops) = Len(q) + Len(ops) /\ Len(ops) = k + 2 /\ Len(q) \in Nat
    BY <1>2, <1>3
  <2>2. Issued("engine")' = d + Len(q \o ops)
    BY <1>4, <1>5, <1>7 DEF Issued
  <2>3. d + (Len(q) + (k + 2)) = c + 1
    BY <1>9, <2>1
  <2> QED
    BY <2>1, <2>2, <2>3
<1>13. /\ cur'.block = cur.block /\ cur'.slots = cur.slots /\ cur'.id = cur.id /\ cur'.copied = c
       /\ IsBatch(cur')
  BY <1>1, <1>4, <1>9, <1>10 DEF TypeInv, IsBatch
<1>14. queue' \in [Streams -> Seq(Operations)]
  <2>1. q \o ops \in Seq(Operations)
    OBVIOUS
  <2> QED
    BY <1>4, <1>5, <2>1 DEF TypeInv, Streams
<1>15. planned' \in Nat /\ (flashinfer => planned' = n + k)
  BY <1>4, <1>10 DEF TypeInv
<1>16. DOMAIN EngineOps' = DOMAIN EngineOps \cup (n + 1 .. c + 1)
  <2>1. Len(ops) = k + 2 /\ Len(q) \in Nat
    BY <1>2, <1>3
  <2>2. DOMAIN EngineOps' = d + 1 .. n + (k + 2) /\ DOMAIN EngineOps = d + 1 .. n
    BY <1>6, <1>8, <1>9, <2>1
  <2>3. n + (k + 2) = c + 1 /\ d <= n
    BY <1>9, <2>1
  <2> QED
    BY <2>2, <2>3
<1>17. \A i \in 1 .. k + 2 : EngineOps'[n + i] = ops[i]
  BY <1>2, <1>3, <1>6, <1>8, <1>9
<1>18. EngineOps'[c] = ForwardOp(b) /\ EngineOps'[c + 1] = StoreOp(b)
  <2>1. c = n + (k + 1) /\ c + 1 = n + (k + 2) /\ k + 1 \in 1 .. k + 2 /\ k + 2 \in 1 .. k + 2
    BY <1>9
  <2> QED
    BY <1>2, <1>3, <1>17, <2>1
<1>19. overlap => n + 1 < c /\ EngineOps'[n + 1] = WaitFor("scheduler")
  <2>1. 1 \in 1 .. k + 2
    OBVIOUS
  <2> QED
    BY <1>2, <1>3, <1>9, <1>17, <2>1
<1>20. ASSUME NEW i \in n + 1 .. c - 1
       PROVE  \/ overlap /\ i = n + 1 /\ EngineOps'[i] = WaitFor("scheduler")
              \/ (overlap => i > n + 1) /\ EngineOps'[i] = GatherOp(b)
              \/ (overlap => i > n + 1) /\ flashinfer /\ EngineOps'[i] = PlanningOp(b) /\ i <= planned'
  <2>1. PICK j \in 1 .. k : i = n + j
    <3>1. i - n \in 1 .. k /\ i = n + (i - n)
      BY <1>9
    <3> QED
      BY <3>1
  <2>2. EngineOps'[i] = ops[j] /\ i <= n + k
    BY <1>17, <2>1
  <2>3. \/ overlap /\ j = 1 /\ ops[j] = WaitFor("scheduler")
        \/ (overlap => j > 1) /\ ops[j] = GatherOp(b)
        \/ (overlap => j > 1) /\ flashinfer /\ ops[j] = PlanningOp(b)
    BY <1>2, <1>3
  <2> QED
    BY <1>15, <2>1, <2>2, <2>3
<1>21. Extended(EngineOps, EngineOps') /\ n < c
  BY <1>6, <1>8, <1>9
<1>22. LaunchIssues(b, n, c)
  BY <1>8, <1>10, <1>16, <1>18, <1>19, <1>20, <1>21 DEF LaunchIssues
<1> QED
  BY <1>1, <1>10, <1>11, <1>12, <1>13, <1>14, <1>15, <1>22

\* What a new operation, the one at position i, reads and writes, and behind what.
IsNewOp(b, n, c, i) ==
  /\ Reads(EngineOps'[i]) \subseteq Rows(plan) \cup {Input(b), Staging}
  /\ \A r \in EngineOps'[i].reads : r[1] # Staging => r[2] = wrote[r[1]]
  /\ \A r \in EngineOps'[i].reads : r[1] = Staging => flashinfer /\ i <= planned' /\ r[2] = Id(3)
  /\ EngineOps'[i].writes = IF i = c THEN {Tokens(b)} ELSE IF i = c + 1 THEN Rows(plan) ELSE {}
  /\ \A s : Row(s) \in Reads(EngineOps'[i]) => i < c
  /\ i = c + 1 => EngineOps'[i].kind = "store"
  /\ overlap /\ Reads(EngineOps'[i]) \cup EngineOps'[i].writes # {} =>
       \A k \in DOMAIN SchedulerOps : Behind(EngineOps', i, k)
  /\ overlap /\ n + 1 < i => \A k \in DOMAIN SchedulerOps : Behind(EngineOps', i, k)

LEMMA LaunchNew ==
  ASSUME TypeInv, NEW b \in Blocks, NEW n, NEW c, LaunchIssues(b, n, c),
         NEW i \in n + 1 .. c + 1
  PROVE  IsNewOp(b, n, c, i)
<1>1. /\ n = Issued("engine") /\ n \in Nat /\ c \in Nat /\ n < c
      /\ DOMAIN EngineOps' = DOMAIN EngineOps \cup (n + 1 .. c + 1)
      /\ EngineOps'[c] = ForwardOp(b) /\ EngineOps'[c + 1] = StoreOp(b)
      /\ overlap => n + 1 < c /\ EngineOps'[n + 1] = WaitFor("scheduler")
      /\ \A j \in n + 1 .. c - 1 :
           \/ overlap /\ j = n + 1 /\ EngineOps'[j] = WaitFor("scheduler")
           \/ (overlap => j > n + 1) /\ EngineOps'[j] = GatherOp(b)
           \/ (overlap => j > n + 1) /\ flashinfer /\ EngineOps'[j] = PlanningOp(b) /\ j <= planned'
  BY Positions DEF LaunchIssues
<1>2. /\ \A op \in {WaitFor("scheduler"), GatherOp(b), PlanningOp(b), ForwardOp(b), StoreOp(b)} :
           /\ Reads(op) \subseteq Rows(plan) \cup {Input(b), Staging}
           /\ \A r \in op.reads : r[1] # Staging => r[2] = wrote[r[1]]
      /\ \A op \in {WaitFor("scheduler"), GatherOp(b), ForwardOp(b), StoreOp(b)} : Staging \notin Reads(op)
      /\ \A op \in {ForwardOp(b), StoreOp(b)} : Reads(op) = {Input(b)}
      /\ \A r \in PlanningOp(b).reads : r[1] = Staging => r[2] = Id(3)
      /\ WaitFor("scheduler").reads = {} /\ WaitFor("scheduler").writes = {}
      /\ WaitFor("scheduler").kind = "wait" /\ WaitFor("scheduler").until = Issued("scheduler")
      /\ GatherOp(b).writes = {} /\ PlanningOp(b).writes = {} /\ ForwardOp(b).writes = {Tokens(b)}
      /\ StoreOp(b).writes = Rows(plan) /\ StoreOp(b).kind = "store"
      /\ ForwardOp(b).id = Id(6) /\ StoreOp(b).id = Id(7)
  BY LaunchReads
<1>3. i \in Nat /\ (i = c \/ i = c + 1 \/ i \in n + 1 .. c - 1)
  BY <1>1
<1>4. EngineOps'[i] \in {WaitFor("scheduler"), GatherOp(b), PlanningOp(b), ForwardOp(b), StoreOp(b)}
  BY <1>1, <1>3
<1>5. /\ Reads(EngineOps'[i]) \subseteq Rows(plan) \cup {Input(b), Staging}
      /\ \A r \in EngineOps'[i].reads : r[1] # Staging => r[2] = wrote[r[1]]
  BY <1>2, <1>4
<1>6. ASSUME NEW r \in EngineOps'[i].reads, r[1] = Staging
      PROVE  flashinfer /\ i <= planned' /\ r[2] = Id(3)
  <2>1. Staging \in Reads(EngineOps'[i])
    BY <1>6 DEF Reads
  <2>2. EngineOps'[i] \notin {WaitFor("scheduler"), GatherOp(b), ForwardOp(b), StoreOp(b)}
    BY <1>2, <2>1
  <2>3. flashinfer /\ EngineOps'[i] = PlanningOp(b) /\ i <= planned'
    BY <1>1, <1>3, <2>2
  <2> QED
    BY <1>2, <1>6, <2>3
<1>7. EngineOps'[i].writes = IF i = c THEN {Tokens(b)} ELSE IF i = c + 1 THEN Rows(plan) ELSE {}
  <2>1. c # c + 1
    BY <1>1
  <2>2. i \in n + 1 .. c - 1 => i # c /\ i # c + 1 /\ EngineOps'[i].writes = {}
    BY <1>1, <1>2
  <2> QED
    BY <1>1, <1>2, <1>3, <2>1, <2>2
<1>8. ASSUME NEW s, Row(s) \in Reads(EngineOps'[i]) PROVE i < c
  <2>1. Row(s) # Input(b)
    BY LocationsApart
  <2>2. i # c /\ i # c + 1
    BY <1>1, <1>2, <1>8, <2>1
  <2> QED
    BY <1>1, <1>3, <2>2
<1>9. i = c + 1 => EngineOps'[i].kind = "store"
  BY <1>1, <1>2
<1>10. ASSUME overlap, n + 1 < i, NEW k \in DOMAIN SchedulerOps PROVE Behind(EngineOps', i, k)
  <2>1. n + 1 \in DOMAIN EngineOps'
    BY <1>1
  <2>2. Issued("scheduler") >= k
    BY <1>10, Positions
  <2> QED
    BY <1>1, <1>2, <1>10, <2>1, <2>2 DEF Behind
<1>11. ASSUME overlap, Reads(EngineOps'[i]) \cup EngineOps'[i].writes # {} PROVE n + 1 < i
  <2>1. SUFFICES ASSUME i = n + 1 PROVE FALSE
    BY <1>1, <1>3
  <2>2. EngineOps'[i] = WaitFor("scheduler")
    BY <1>1, <1>11, <2>1
  <2> QED
    BY <1>2, <1>11, <2>2 DEF Reads
<1> QED
  BY <1>5, <1>6, <1>7, <1>8, <1>9, <1>10, <1>11 DEF IsNewOp

\* The versions a launch leaves.
LEMMA LaunchVersions ==
  ASSUME TypeInv, Launch
  PROVE  /\ \A l \in Locations \ {Staging} :
              /\ memory'[l] = memory[l]
              /\ wrote'[l] = IF l \in Rows(plan) THEN Id(7)
                             ELSE IF l = Tokens(cur.block) THEN Id(6) ELSE wrote[l]
         /\ flashinfer => memory'[Staging] = Id(3)
         /\ ~flashinfer => memory'[Staging] = memory[Staging]
         /\ memory' \in [Locations -> Nat] /\ wrote' \in [Locations -> Nat]
<1>1. /\ memory' = Staged(memory)
      /\ wrote' = Written(Written(Staged(wrote), {Tokens(cur.block)}, Id(6)), Rows(plan), Id(7))
  BY DEF Launch
<1>2. Id(3) \in Nat /\ Id(6) \in Nat /\ Id(7) \in Nat
  BY IdType
<1>3. ASSUME NEW v \in [Locations -> Nat], NEW L, NEW id \in Nat
      PROVE  Written(v, L, id) \in [Locations -> Nat]
  BY DEF Written
<1>4. Staged(memory) \in [Locations -> Nat] /\ Staged(wrote) \in [Locations -> Nat]
  BY <1>2, <1>3 DEF Staged, TypeInv
<1>5. memory' \in [Locations -> Nat] /\ wrote' \in [Locations -> Nat]
  BY <1>1, <1>2, <1>3, <1>4
<1>6. ASSUME NEW l \in Locations \ {Staging}
      PROVE  /\ memory'[l] = memory[l]
             /\ wrote'[l] = IF l \in Rows(plan) THEN Id(7)
                            ELSE IF l = Tokens(cur.block) THEN Id(6) ELSE wrote[l]
  <2>1. Staged(memory)[l] = memory[l] /\ Staged(wrote)[l] = wrote[l]
    BY WrittenFacts DEF Staged
  <2>2. PICK w1, w2 : w1 = Staged(wrote) /\ w2 = Written(w1, {Tokens(cur.block)}, Id(6))
    OBVIOUS
  <2>3. w2[l] = IF l \in {Tokens(cur.block)} THEN Id(6) ELSE w1[l]
    BY <2>2, WrittenFacts
  <2>4. wrote' = Written(w2, Rows(plan), Id(7))
    BY <1>1, <2>2
  <2>5. wrote'[l] = IF l \in Rows(plan) THEN Id(7) ELSE w2[l]
    BY <2>4, WrittenFacts
  <2> QED
    BY <1>1, <2>1, <2>2, <2>3, <2>5
<1>7. flashinfer => memory'[Staging] = Id(3)
  BY <1>1, LocationKinds, WrittenFacts DEF Staged
<1>8. ~flashinfer => memory'[Staging] = memory[Staging]
  BY <1>1 DEF Staged
<1> QED
  BY <1>5, <1>6, <1>7, <1>8

\* The host's state behind a launch.
LEMMA LaunchHost ==
  ASSUME DeviceInv, Launch
  PROVE  /\ TypeInv' /\ BatchInv' /\ ReadsIntended'
         /\ Launched' = Launched \cup {cur'} /\ (\A d \in Launched : d.block # cur'.block)
         /\ cur.block \in Blocks /\ cur'.block = cur.block /\ cur'.slots = plan /\ cur'.id = Id(6)
         /\ LaunchIssues(cur.block, Issued("engine"), cur'.copied)
         /\ Issued("scheduler")' = Issued("scheduler") /\ Issued("engine")' = cur'.copied + 1
<1>1. /\ pc = "launch" /\ pc' = "process" /\ running' = running \cup plan /\ plan' = {}
      /\ batches' = batches + 1 /\ overlap' = overlap /\ flashinfer' = flashinfer /\ ending' = ending
      /\ data' = data /\ done' = done /\ faults' = faults
  BY DEF Launch
<1>2. cur.copied = 0 /\ cur.block \in Blocks \ {data.block} /\ cur.slots = plan /\ cur.id = Id(6)
  BY <1>1 DEF DeviceInv, BatchInv
<1>3. /\ queue' \in [Streams -> Seq(Operations)] /\ planned' \in Nat
      /\ LaunchIssues(cur.block, Issued("engine"), cur'.copied)
      /\ Issued("scheduler")' = Issued("scheduler") /\ Issued("engine")' = cur'.copied + 1
      /\ cur'.block = cur.block /\ cur'.slots = cur.slots /\ cur'.id = cur.id /\ IsBatch(cur')
  BY <1>2, LaunchPositions DEF DeviceInv
<1>4. cur'.copied > 0
  BY <1>3, Positions DEF LaunchIssues, DeviceInv
<1>5. \A d \in Launched : d = data
  BY <1>2 DEF Launched
<1>6. Launched' = Launched \cup {cur'}
  <2>1. Launched' = {d \in {data', cur'} : d.copied > 0}
    BY DEF Launched
  <2>2. Launched = {d \in {data} : d.copied > 0}
    BY <1>5 DEF Launched
  <2> QED
    BY <1>1, <1>4, <2>1, <2>2
<1>7. \A d \in Launched : d.block # cur'.block
  BY <1>2, <1>3, <1>5
<1>8. BatchInv'
  <2>1. \A d \in Launched' : d.slots \subseteq running' \cup ending'
    BY <1>1, <1>2, <1>3, <1>6 DEF DeviceInv, BatchInv
  <2>2. \A d1, d2 \in Launched' : d1.block = d2.block => d1 = d2
    BY <1>5, <1>6, <1>7
  <2>3. data' = None \/ data'.copied > 0
    BY <1>1 DEF DeviceInv, BatchInv
  <2>4. overlap' \/ data' = None
    BY <1>1 DEF DeviceInv, BatchInv
  <2> QED
    BY <1>1, <1>4, <2>1, <2>2, <2>3, <2>4 DEF BatchInv
<1>9. TypeInv'
  <2>1. memory' \in [Locations -> Nat] /\ wrote' \in [Locations -> Nat]
    BY LaunchVersions DEF DeviceInv
  <2> QED
    BY <1>1, <1>3, <2>1 DEF DeviceInv, TypeInv, IsBatch
<1>10. ReadsIntended'
  BY <1>1 DEF DeviceInv, ReadsIntended
<1> QED
  BY <1>2, <1>3, <1>6, <1>7, <1>8, <1>9, <1>10

\* The launch goes on where the program was.
LEMMA LaunchOrder ==
  ASSUME DeviceInv, Launch, NEW l \in Locations \ {Staging}, NEW m \in 0 .. Issued("engine"), NEW base,
         InOrder(EngineOps, l, m, base, wrote[l])
  PROVE  InOrder(EngineOps', l, m, base, wrote'[l])
<1>1. PICK b \in Blocks, n \in Nat, c \in Nat :
        b = cur.block /\ n = Issued("engine") /\ LaunchIssues(b, n, c)
  BY LaunchHost, Positions DEF DeviceInv, LaunchIssues
<1>2. /\ c \in Nat /\ n < c /\ Extended(EngineOps, EngineOps')
      /\ DOMAIN EngineOps' = DOMAIN EngineOps \cup (n + 1 .. c + 1)
      /\ EngineOps'[c].id = Id(6) /\ EngineOps'[c + 1].id = Id(7)
  BY <1>1 DEF LaunchIssues, ForwardOp, StoreOp, Op
<1>3. DOMAIN EngineOps \subseteq Nat /\ \A p \in DOMAIN EngineOps : p <= n
  BY <1>1, Positions DEF DeviceInv
<1>4. PICK f, f1, last, last1 : f = EngineOps /\ f1 = EngineOps' /\ last = wrote[l] /\ last1 = wrote'[l]
  OBVIOUS
<1>5. DOMAIN f1 \ DOMAIN f = n + 1 .. c + 1 /\ DOMAIN f1 \subseteq Nat
  BY <1>2, <1>3, <1>4
<1>6. last1 = IF l \in Rows(plan) THEN Id(7) ELSE IF l = Tokens(b) THEN Id(6) ELSE last
  BY <1>1, <1>4, LaunchVersions DEF DeviceInv
<1>7. Tokens(b) \notin Rows(plan) \cup {Input(b), Staging}
  BY LocationsApart DEF Rows
<1>8. ASSUME NEW i \in n + 1 .. c + 1
      PROVE  /\ \A r \in f1[i].reads : r[1] = l => r[2] = last /\ (l \in Rows(plan) => i < c) /\ l # Tokens(b)
             /\ f1[i].writes = IF i = c THEN {Tokens(b)} ELSE IF i = c + 1 THEN Rows(plan) ELSE {}
  <2>1. /\ Reads(EngineOps'[i]) \subseteq Rows(plan) \cup {Input(b), Staging}
        /\ \A r \in EngineOps'[i].reads : r[1] # Staging => r[2] = wrote[r[1]]
        /\ EngineOps'[i].writes = IF i = c THEN {Tokens(b)} ELSE IF i = c + 1 THEN Rows(plan) ELSE {}
        /\ \A s : Row(s) \in Reads(EngineOps'[i]) => i < c
    <3>1. TypeInv /\ LaunchIssues(b, n, c)
      BY <1>1 DEF DeviceInv
    <3>2. IsNewOp(b, n, c, i)
      BY <3>1, LaunchNew
    <3> QED
      BY <3>2 DEF IsNewOp
  <2>2. ASSUME NEW r \in f1[i].reads, r[1] = l
        PROVE  r[2] = last /\ (l \in Rows(plan) => i < c) /\ l # Tokens(b)
    <3>1. l \in Reads(EngineOps'[i])
      BY <1>4, <2>2 DEF Reads
    <3>2. l \in Rows(plan) => i < c
      BY <2>1, <3>1 DEF Rows
    <3> QED
      BY <1>4, <1>7, <2>1, <2>2, <3>1, <3>2
  <2> QED
    BY <1>4, <2>1, <2>2
<1>9. Continued(f, f1, l, last, last1)
  <2>1. ASSUME NEW i \in n + 1 .. c + 1, NEW r \in f1[i].reads, r[1] = l
        PROVE  r[2] = last /\ \A j \in n + 1 .. c + 1 : j < i => l \notin f1[j].writes
    <3>1. r[2] = last /\ (l \in Rows(plan) => i < c) /\ l # Tokens(b)
      BY <1>8, <2>1
    <3>2. ASSUME NEW j \in n + 1 .. c + 1, j < i, l \in f1[j].writes PROVE FALSE
      <4>1. j = c + 1 /\ l \in Rows(plan)
        BY <1>8, <3>1, <3>2
      <4> QED
        BY <1>2, <3>1, <3>2, <4>1
    <3> QED
      BY <3>1, <3>2
  <2>2. CASE l \in Rows(plan)
    <3>1. c + 1 \in n + 1 .. c + 1 /\ c # c + 1
      BY <1>2
    <3>2. l \in f1[c + 1].writes /\ last1 = f1[c + 1].id
      BY <1>2, <1>4, <1>6, <1>8, <2>2, <3>1
    <3>3. \A j \in n + 1 .. c + 1 : l \in f1[j].writes => j = c + 1
      BY <1>7, <1>8, <2>2
    <3> QED
      BY <1>5, <2>1, <3>1, <3>2, <3>3 DEF Continued
  <2>3. CASE l = Tokens(b)
    <3>1. c \in n + 1 .. c + 1 /\ c # c + 1
      BY <1>1, <1>2
    <3>2. l \in f1[c].writes /\ last1 = f1[c].id
      BY <1>2, <1>4, <1>6, <1>7, <1>8, <2>3, <3>1
    <3>3. \A j \in n + 1 .. c + 1 : l \in f1[j].writes => j = c
      BY <1>7, <1>8, <2>3
    <3> QED
      BY <1>5, <2>1, <3>1, <3>2, <3>3 DEF Continued
  <2>4. CASE l \notin Rows(plan) /\ l # Tokens(b)
    <3>1. \A j \in n + 1 .. c + 1 : l \notin f1[j].writes
      BY <1>8, <2>4
    <3> QED
      BY <1>5, <1>6, <2>1, <2>4, <3>1 DEF Continued
  <2> QED
    BY <2>2, <2>3, <2>4
<1>10. Extended(f, f1) /\ m \in Nat /\ (\A i \in DOMAIN f1 \ DOMAIN f : m < i) /\ InOrder(f, l, m, base, last)
  BY <1>1, <1>2, <1>4, <1>5
<1>11. InOrder(f1, l, m, base, last1)
  BY <1>5, <1>9, <1>10, InOrderExtended
<1> QED
  BY <1>4, <1>11

\* The tokens, the plan and the operations' kinds.
LEMMA LaunchKeeps ==
  ASSUME DeviceInv, Launch
  PROVE  StreamInv' /\ TokensInv' /\ StagingInv' /\ NormalInv'
<1>1. PICK b \in Blocks, n \in Nat, c \in Nat :
        b = cur.block /\ n = Issued("engine") /\ c = cur'.copied /\ LaunchIssues(b, n, c)
  BY LaunchHost, Positions DEF DeviceInv, LaunchIssues
<1>2. /\ c \in Nat /\ n < c /\ SchedulerOps' = SchedulerOps
      /\ DOMAIN EngineOps' = DOMAIN EngineOps \cup (n + 1 .. c + 1)
      /\ \A p \in DOMAIN EngineOps : EngineOps'[p] = EngineOps[p]
      /\ EngineOps'[c].id = Id(6)
  BY <1>1 DEF LaunchIssues, ForwardOp, Op, Extended
<1>3. /\ overlap' = overlap /\ flashinfer' = flashinfer /\ data' = data /\ done' = done
      /\ flashinfer => done["engine"] >= planned
  BY DEF Launch, StagingFree
<1>4. /\ Launched' = Launched \cup {cur'} /\ (\A d \in Launched : d.block # b)
      /\ cur'.block = b /\ cur'.id = Id(6)
  BY <1>1, LaunchHost
<1>5. ASSUME NEW i \in n + 1 .. c + 1
      PROVE  /\ Reads(EngineOps'[i]) \subseteq Rows(plan) \cup {Input(b), Staging}
             /\ \A r \in EngineOps'[i].reads : r[1] = Staging => flashinfer /\ i <= planned' /\ r[2] = Id(3)
             /\ EngineOps'[i].writes = IF i = c THEN {Tokens(b)} ELSE IF i = c + 1 THEN Rows(plan) ELSE {}
  <2>1. TypeInv /\ LaunchIssues(b, n, c)
    BY <1>1 DEF DeviceInv
  <2>2. IsNewOp(b, n, c, i)
    BY <2>1, LaunchNew
  <2> QED
    BY <2>2 DEF IsNewOp
<1>6. StreamInv'
  <2>1. ASSUME NEW i \in n + 1 .. c + 1 PROVE IsEngineOp(EngineOps'[i])
    <3>1. Staging \notin EngineOps'[i].writes /\ \A b2 \in Blocks : Input(b2) \notin EngineOps'[i].writes
      <4>1. ASSUME NEW L \in {{Tokens(b)}, Rows(plan), {}}
            PROVE  Staging \notin L /\ \A b2 \in Blocks : Input(b2) \notin L
        BY LocationsApart DEF Rows
      <4>2. EngineOps'[i].writes \in {{Tokens(b)}, Rows(plan), {}}
        BY <1>5
      <4> QED
        BY <4>1, <4>2
    <3>2. \A b2 \in Blocks : Tokens(b2) \notin Rows(plan) \cup {Input(b), Staging}
      BY LocationsApart DEF Rows
    <3> QED
      BY <1>5, <3>1, <3>2 DEF IsEngineOp
  <2>2. \A p \in DOMAIN EngineOps : IsEngineOp(EngineOps'[p])
    BY <1>2 DEF DeviceInv, StreamInv
  <2>3. \A p \in DOMAIN EngineOps' : IsEngineOp(EngineOps'[p])
    BY <1>2, <2>1, <2>2
  <2> QED
    BY <1>2, <1>3, <2>3 DEF DeviceInv, StreamInv, IsEngineOp
<1>7. StagingInv'
  <2>1. ASSUME NEW p \in DOMAIN EngineOps, NEW r \in EngineOps[p].reads PROVE r[1] # Staging
    <3>1. SUFFICES ASSUME r[1] = Staging PROVE FALSE
      OBVIOUS
    <3>2. flashinfer /\ p <= planned
      BY <2>1, <3>1 DEF DeviceInv, StagingInv
    <3>3. p \in Nat /\ p > done["engine"] /\ done["engine"] \in Nat /\ planned \in Nat
      BY <2>1, Positions DEF DeviceInv, TypeInv
    <3> QED
      BY <1>3, <3>2, <3>3
  <2>2. flashinfer => memory'[Staging] = Id(3)
    BY LaunchVersions DEF DeviceInv
  <2>3. ASSUME NEW i \in n + 1 .. c + 1, NEW r \in EngineOps'[i].reads, r[1] = Staging
        PROVE  flashinfer' /\ i <= planned' /\ r[2] = memory'[Staging]
    BY <1>3, <1>5, <2>2, <2>3
  <2>4. ASSUME NEW p \in DOMAIN EngineOps', NEW r \in EngineOps'[p].reads, r[1] = Staging
        PROVE  flashinfer' /\ p <= planned' /\ r[2] = memory'[Staging]
    BY <1>2, <2>1, <2>3, <2>4
  <2> QED
    BY <2>4 DEF StagingInv
<1>8. TokensInv'
  <2>1. ASSUME NEW p \in DOMAIN EngineOps', NEW b2 \in Blocks, Tokens(b2) \in EngineOps'[p].writes
        PROVE  \E d \in Launched' : d.block = b2 /\ p <= d.copied
    <3>1. CASE p \in DOMAIN EngineOps
      BY <1>2, <1>4, <2>1, <3>1 DEF DeviceInv, TokensInv
    <3>2. CASE p \notin DOMAIN EngineOps
      <4>1. p \in n + 1 .. c + 1
        BY <1>2, <3>2
      <4>2. Tokens(b2) \notin Rows(plan)
        BY LocationsApart DEF Rows
      <4>3. p = c /\ Tokens(b2) = Tokens(b)
        BY <1>5, <2>1, <4>1, <4>2
      <4>4. b2 = b
        BY <4>3, LocationsApart
      <4> QED
        BY <1>1, <1>2, <1>4, <4>3, <4>4
    <3> QED
      BY <3>1, <3>2
  <2>2. ASSUME NEW d \in Launched
        PROVE  IF d.copied > done["engine"]
               THEN /\ d.copied \in DOMAIN EngineOps'
                    /\ Tokens(d.block) \in EngineOps'[d.copied].writes /\ EngineOps'[d.copied].id = d.id
               ELSE memory'[Tokens(d.block)] = d.id
    <3>1. d.block \in Blocks
      BY <2>2 DEF DeviceInv, TypeInv, IsBatch, Launched
    <3>2. memory'[Tokens(d.block)] = memory[Tokens(d.block)]
      BY <3>1, LaunchVersions, LocationKinds, LocationsApart DEF DeviceInv
    <3> QED
      BY <1>2, <2>2, <3>2 DEF DeviceInv, TokensInv
  <2>3. /\ c > done["engine"] /\ c \in DOMAIN EngineOps'
        /\ Tokens(b) \in EngineOps'[c].writes /\ EngineOps'[c].id = Id(6)
    <3>1. c \in n + 1 .. c + 1 /\ done["engine"] \in Nat /\ done["engine"] <= n
      <4>1. queue["engine"] \in Seq(Operations) /\ done["engine"] \in Nat
        BY DEF DeviceInv, TypeInv, Streams
      <4>2. Len(queue["engine"]) \in Nat /\ n = done["engine"] + Len(queue["engine"])
        BY <1>1, <4>1 DEF Issued
      <4> QED
        BY <1>2, <4>1, <4>2
    <3> QED
      BY <1>2, <1>5, <3>1
  <2> QED
    BY <1>1, <1>3, <1>4, <2>1, <2>2, <2>3 DEF TokensInv
<1>9. NormalInv'
  <2>1. ASSUME ~overlap, NEW l \in Locations \ {Staging}
        PROVE  InOrder(EngineOps', l, 0, memory'[l], wrote'[l])
    <3>1. memory'[l] = memory[l]
      BY LaunchVersions DEF DeviceInv
    <3>2. InOrder(EngineOps, l, 0, memory[l], wrote[l])
      BY <2>1 DEF DeviceInv, NormalInv
    <3>3. PICK base : base = memory[l]
      OBVIOUS
    <3>4. 0 \in 0 .. Issued("engine") /\ InOrder(EngineOps, l, 0, base, wrote[l])
      BY <1>1, <3>2, <3>3
    <3>5. InOrder(EngineOps', l, 0, base, wrote'[l])
      BY <3>4, LaunchOrder
    <3> QED
      BY <3>1, <3>3, <3>5
  <2> QED
    BY <1>3, <2>1 DEF NormalInv
<1> QED
  BY <1>6, <1>7, <1>8, <1>9

\* The batch waits for whatever the scheduler's stream has still to write.
LEMMA LaunchInputs ==
  ASSUME DeviceInv, Launch
  PROVE  PendingInv' /\ InputInv'
<1>1. PICK b \in Blocks, n \in Nat, c \in Nat :
        b = cur.block /\ n = Issued("engine") /\ c = cur'.copied /\ LaunchIssues(b, n, c)
  BY LaunchHost, Positions DEF DeviceInv, LaunchIssues
<1>2. /\ c \in Nat /\ n < c /\ SchedulerOps' = SchedulerOps
      /\ DOMAIN EngineOps' = DOMAIN EngineOps \cup (n + 1 .. c + 1)
      /\ \A p \in DOMAIN EngineOps : p \in DOMAIN EngineOps' /\ EngineOps'[p] = EngineOps[p]
      /\ Extended(EngineOps, EngineOps')
      /\ overlap => n + 1 < c
  BY <1>1 DEF LaunchIssues, Extended
<1>3. overlap' = overlap /\ pc = "launch"
  BY DEF Launch
<1>4. /\ Launched' = Launched \cup {cur'} /\ cur'.block = b /\ cur'.slots = plan
      /\ cur.block = b
  BY <1>1, LaunchHost
<1>5. ASSUME NEW i \in n + 1 .. c + 1
      PROVE  /\ Reads(EngineOps'[i]) \subseteq Rows(plan) \cup {Input(b), Staging}
             /\ \A r \in EngineOps'[i].reads : r[1] # Staging => r[2] = wrote[r[1]]
             /\ EngineOps'[i].writes = IF i = c THEN {Tokens(b)} ELSE IF i = c + 1 THEN Rows(plan) ELSE {}
             /\ i = c + 1 => EngineOps'[i].kind = "store"
             /\ overlap /\ Reads(EngineOps'[i]) \cup EngineOps'[i].writes # {} =>
                  \A k \in DOMAIN SchedulerOps : Behind(EngineOps', i, k)
             /\ overlap /\ n + 1 < i => \A k \in DOMAIN SchedulerOps : Behind(EngineOps', i, k)
  <2>1. TypeInv /\ LaunchIssues(b, n, c)
    BY <1>1 DEF DeviceInv
  <2>2. IsNewOp(b, n, c, i)
    BY <2>1, LaunchNew
  <2> QED
    BY <2>2 DEF IsNewOp
<1>6. \A i, k : Behind(EngineOps, i, k) => Behind(EngineOps', i, k)
  BY <1>2, BehindExtended
<1>7. PendingInv'
  <2>1. CASE ~overlap
    BY <1>2, <2>1 DEF DeviceInv, StreamInv, PendingInv
  <2>2. CASE overlap
    <3>1. ASSUME NEW k \in DOMAIN SchedulerOps PROVE Behind(EngineOps', c, k)
      <4>1. c \in n + 1 .. c + 1
        BY <1>1, <1>2
      <4> QED
        BY <1>2, <1>5, <2>2, <3>1, <4>1
    <3>2. ASSUME NEW k \in DOMAIN SchedulerOps, SchedulerOps[k].writes # {}
          PROVE  \E d \in Launched' : Behind(EngineOps', d.copied, k)
                   /\ SchedulerOps[k].writes \subseteq Rows(d.slots) \cup {Input(d.block)}
      <4>1. CASE SchedulerOps[k].writes \subseteq Rows(plan) \cup {Input(b)}
        BY <1>1, <1>4, <3>1, <3>2, <4>1
      <4>2. CASE \E d \in Launched : Behind(EngineOps, d.copied, k)
                   /\ SchedulerOps[k].writes \subseteq Rows(d.slots) \cup {Input(d.block)}
        BY <1>4, <1>6, <4>2
      <4> QED
        BY <1>3, <1>4, <3>2, <4>1, <4>2 DEF DeviceInv, PendingInv
    <3> QED
      BY <1>2, <3>2 DEF PendingInv
  <2> QED
    BY <2>1, <2>2
<1>8. InputInv'
  <2>1. ASSUME overlap, NEW b2 \in Blocks PROVE InputOrdered(b2)'
    <3>1. InputOrdered(b2)
      BY <2>1 DEF DeviceInv, InputInv
    <3>2. wrote'[Input(b2)] = wrote[Input(b2)] /\ memory'[Input(b2)] = memory[Input(b2)]
      <4>1. Input(b2) \in Locations \ {Staging} /\ Input(b2) \notin Rows(plan) /\ Input(b2) # Tokens(b)
        BY LocationKinds, LocationsApart DEF Rows
      <4> QED
        BY <1>4, <4>1, LaunchVersions DEF DeviceInv
    <3>3. ASSUME NEW i \in n + 1 .. c + 1, ReadsInput(EngineOps'[i], b2)
          PROVE  /\ \A r \in EngineOps'[i].reads : r[1] = Input(b2) => r[2] = wrote[Input(b2)]
                 /\ b2 = b /\ i <= c
                 /\ \A k \in DOMAIN SchedulerOps : Behind(EngineOps', i, k)
      <4>1. Input(b2) \in Reads(EngineOps'[i]) /\ i # c + 1
        BY <1>5, <3>3 DEF ReadsInput
      <4>2. b2 = b
        <5>1. Input(b2) \notin Rows(plan) /\ Input(b2) # Staging
          BY LocationsApart DEF Rows
        <5>2. Input(b2) = Input(b)
          BY <1>5, <4>1, <5>1
        <5> QED
          BY <5>2, LocationsApart
      <4>3. i <= c
        BY <1>2, <4>1
      <4>4. \A k \in DOMAIN SchedulerOps : Behind(EngineOps', i, k)
        BY <1>5, <2>1, <4>1
      <4> QED
        BY <1>5, <4>2, <4>3, <4>4, LocationsApart
    <3>4. ASSUME NEW p \in DOMAIN EngineOps', ReadsInput(EngineOps'[p], b2)
          PROVE  /\ \A r \in EngineOps'[p].reads : r[1] = Input(b2) => r[2] = wrote'[Input(b2)]
                 /\ \E d \in Launched' : d.block = b2 /\ p <= d.copied
      <4>1. CASE p \in DOMAIN EngineOps
        BY <1>2, <1>4, <3>1, <3>2, <3>4, <4>1 DEF InputOrdered
      <4>2. CASE p \in n + 1 .. c + 1
        BY <1>1, <1>4, <3>2, <3>3, <3>4, <4>2
      <4> QED
        BY <1>2, <4>1, <4>2
    <3>5. ASSUME NEW k \in DOMAIN SchedulerOps, Input(b2) \in SchedulerOps[k].writes,
                 NEW p \in DOMAIN EngineOps', ReadsInput(EngineOps'[p], b2)
          PROVE  Behind(EngineOps', p, k)
      <4>1. CASE p \in DOMAIN EngineOps
        BY <1>2, <1>6, <3>1, <3>5, <4>1 DEF InputOrdered
      <4>2. CASE p \in n + 1 .. c + 1
        BY <3>3, <3>5, <4>2
      <4> QED
        BY <1>2, <4>1, <4>2
    <3> QED
      BY <1>2, <3>1, <3>2, <3>4, <3>5 DEF InputOrdered
  <2> QED
    BY <1>3, <2>1 DEF InputInv
<1> QED
  BY <1>7, <1>8

\* The rows: a pending write comes before all of the launch.
LEMMA LaunchRows ==
  ASSUME DeviceInv, Launch
  PROVE  RowInv'
<1>1. PICK b \in Blocks, n \in Nat, c \in Nat :
        b = cur.block /\ n = Issued("engine") /\ c = cur'.copied /\ LaunchIssues(b, n, c)
  BY LaunchHost, Positions DEF DeviceInv, LaunchIssues
<1>2. /\ c \in Nat /\ n < c /\ SchedulerOps' = SchedulerOps
      /\ DOMAIN EngineOps' = DOMAIN EngineOps \cup (n + 1 .. c + 1)
      /\ \A p \in DOMAIN EngineOps : p \in DOMAIN EngineOps' /\ EngineOps'[p] = EngineOps[p]
      /\ Extended(EngineOps, EngineOps')
  BY <1>1 DEF LaunchIssues, Extended
<1>3. overlap' = overlap /\ running' = running \cup plan /\ ending' = ending
  BY DEF Launch
<1>4. /\ Launched' = Launched \cup {cur'} /\ cur'.slots = plan
      /\ Issued("scheduler")' = Issued("scheduler") /\ Issued("engine")' = c + 1
  BY <1>1, LaunchHost
<1>5. ASSUME NEW i \in n + 1 .. c + 1
      PROVE  /\ Reads(EngineOps'[i]) \subseteq Rows(plan) \cup {Input(b), Staging}
             /\ EngineOps'[i].writes = IF i = c THEN {Tokens(b)} ELSE IF i = c + 1 THEN Rows(plan) ELSE {}
             /\ \A s : Row(s) \in Reads(EngineOps'[i]) => i < c
             /\ overlap /\ Reads(EngineOps'[i]) \cup EngineOps'[i].writes # {} =>
                  \A k \in DOMAIN SchedulerOps : Behind(EngineOps', i, k)
  <2>1. TypeInv /\ LaunchIssues(b, n, c)
    BY <1>1 DEF DeviceInv
  <2>2. IsNewOp(b, n, c, i)
    BY <2>1, LaunchNew
  <2> QED
    BY <2>2 DEF IsNewOp
<1>6. \A i, k : Behind(EngineOps, i, k) => Behind(EngineOps', i, k)
  BY <1>2, BehindExtended
<1>7. ASSUME NEW s \in Slots, NEW i \in n + 1 .. c + 1
      PROVE  /\ Row(s) \in Reads(EngineOps'[i]) => s \in plan /\ i < c
             /\ Row(s) \in EngineOps'[i].writes => s \in plan
  <2>1. Row(s) \notin {Input(b), Staging} /\ Row(s) \notin {Tokens(b)} /\ Row(s) \notin {}
    BY LocationsApart
  <2>2. Row(s) \in Rows(plan) => s \in plan
    BY LocationsApart DEF Rows
  <2>3. Row(s) \in Reads(EngineOps'[i]) => s \in plan /\ i < c
    BY <1>5, <2>1, <2>2
  <2>4. Row(s) \in EngineOps'[i].writes => s \in plan
    BY <1>5, <2>1, <2>2
  <2> QED
    BY <2>3, <2>4
<1>8. ASSUME overlap, NEW s \in Slots PROVE RowOrdered(s)'
  <2>1. RowOrdered(s)
    BY <1>8 DEF DeviceInv, RowInv
  <2>2. Row(s) \in Locations \ {Staging} /\ memory'[Row(s)] = memory[Row(s)]
    <3>1. Row(s) \in Locations \ {Staging}
      BY LocationKinds, LocationsApart
    <3> QED
      BY <3>1, LaunchVersions DEF DeviceInv
  <2>3. ASSUME NEW m \in 0 .. n, NEW base, InOrder(EngineOps, Row(s), m, base, wrote[Row(s)])
        PROVE  InOrder(EngineOps', Row(s), m, base, wrote'[Row(s)])
    <3>1. PICK l \in Locations \ {Staging} : l = Row(s)
      BY <2>2
    <3>2. m \in 0 .. Issued("engine") /\ InOrder(EngineOps, l, m, base, wrote[l])
      BY <1>1, <2>3, <3>1
    <3>3. InOrder(EngineOps', l, m, base, wrote'[l])
      BY <3>2, LaunchOrder
    <3> QED
      BY <3>1, <3>3
  <2>4. ASSUME \A k \in DOMAIN SchedulerOps : Row(s) \notin SchedulerOps[k].writes
        PROVE  InOrder(EngineOps', Row(s), 0, memory'[Row(s)], wrote'[Row(s)])
    <3>1. PICK base : base = memory[Row(s)]
      OBVIOUS
    <3>2. InOrder(EngineOps, Row(s), 0, base, wrote[Row(s)]) /\ 0 \in 0 .. n
      BY <2>1, <2>4, <3>1 DEF RowOrdered
    <3>3. InOrder(EngineOps', Row(s), 0, base, wrote'[Row(s)])
      BY <2>3, <3>2
    <3> QED
      BY <2>2, <3>1, <3>3
  <2>5. ASSUME NEW k \in DOMAIN SchedulerOps, Row(s) \in SchedulerOps[k].writes
        PROVE  \E m \in 0 .. Issued("engine")' :
                 Parts(EngineOps', SchedulerOps, k, Row(s), m, wrote'[Row(s)])
    <3>1. PICK m \in 0 .. n : Parts(EngineOps, SchedulerOps, k, Row(s), m, wrote[Row(s)])
      BY <1>1, <2>1, <2>5 DEF RowOrdered
    <3>2. PICK base : base = SchedulerOps[k].id
      OBVIOUS
    <3>3. InOrder(EngineOps, Row(s), m, base, wrote[Row(s)])
      BY <3>1, <3>2 DEF Parts
    <3>4. InOrder(EngineOps', Row(s), m, base, wrote'[Row(s)])
      BY <2>3, <3>3
    <3>5. ASSUME NEW p \in DOMAIN EngineOps'
          PROVE  /\ p <= m => /\ Row(s) \notin Reads(EngineOps'[p])
                              /\ Row(s) \in EngineOps'[p].writes => Behind(SchedulerOps, k, p)
                 /\ m < p /\ Row(s) \in EngineOps'[p].writes \cup Reads(EngineOps'[p]) =>
                      Behind(EngineOps', p, k)
      <4>1. CASE p \in DOMAIN EngineOps
        BY <1>2, <1>6, <3>1, <4>1 DEF Parts
      <4>2. CASE p \in n + 1 .. c + 1
        <5>1. ~ (p <= m)
          BY <4>2
        <5> QED
          BY <1>5, <1>8, <4>2, <5>1
      <4> QED
        BY <1>2, <4>1, <4>2
    <3>6. Parts(EngineOps', SchedulerOps, k, Row(s), m, wrote'[Row(s)])
      BY <3>2, <3>4, <3>5 DEF Parts
    <3>7. m \in 0 .. Issued("engine")'
      BY <1>2, <1>4
    <3> QED
      BY <3>6, <3>7
  <2>6. \A k \in DOMAIN SchedulerOps :
          Row(s) \in SchedulerOps[k].writes =>
            \A k2 \in DOMAIN SchedulerOps : Row(s) \in SchedulerOps[k2].writes => k2 = k
    BY <2>1 DEF RowOrdered
  <2> QED
    BY <1>2, <2>4, <2>5, <2>6 DEF RowOrdered
<1>9. ASSUME overlap, NEW s \in Slots, NEW p \in DOMAIN EngineOps'
      PROVE  /\ Row(s) \in Reads(EngineOps'[p]) => \E d \in Launched' : s \in d.slots /\ p <= d.copied
             /\ s \notin running' \cup ending' /\ Row(s) \in EngineOps'[p].writes =>
                  Behind(SchedulerOps, Issued("scheduler") + 1, p)
  <2>1. CASE p \in DOMAIN EngineOps
    BY <1>2, <1>3, <1>4, <1>9, <2>1 DEF DeviceInv, RowInv
  <2>2. CASE p \in n + 1 .. c + 1
    <3>1. Row(s) \in Reads(EngineOps'[p]) => s \in plan /\ p < c
      BY <1>7, <2>2
    <3>2. Row(s) \in EngineOps'[p].writes => s \in plan
      BY <1>7, <2>2
    <3>3. p < c => p <= c
      BY <1>2, <2>2
    <3> QED
      BY <1>1, <1>3, <1>4, <3>1, <3>2, <3>3
  <2> QED
    BY <1>2, <2>1, <2>2
<1> QED
  BY <1>2, <1>3, <1>4, <1>8, <1>9 DEF RowInv

LEMMA LaunchDeviceInv ==
  ASSUME DeviceInv, Launch
  PROVE  DeviceInv'
BY LaunchHost, LaunchKeeps, LaunchInputs, LaunchRows DEF DeviceInv

----------------------------------------------------------------------------
(* The theorem *)

LEMMA InitDeviceInv == Init => DeviceInv
<1> SUFFICES ASSUME Init PROVE DeviceInv
  OBVIOUS
<1>1. /\ overlap \in BOOLEAN /\ flashinfer \in BOOLEAN
      /\ pc = "select" /\ running = {} /\ ending = {} /\ plan = {}
      /\ data = None /\ cur = None /\ batches = 0 /\ planned = 0 /\ faults = {}
      /\ queue["engine"] = <<>> /\ queue["scheduler"] = <<>>
      /\ wrote = [l \in Locations |-> 0] /\ memory = [l \in Locations |-> 0]
  BY DEF Init, Streams
<1>2. queue \in [Streams -> Seq(Operations)] /\ done \in [Streams -> Nat]
  BY DEF Init
<1>3. DOMAIN EngineOps = {} /\ DOMAIN SchedulerOps = {}
  <2>1. ASSUME NEW d \in Nat PROVE DOMAIN Placed(<<>>, d) = {}
    BY DEF Placed
  <2>2. done["engine"] \in Nat /\ done["scheduler"] \in Nat
    BY <1>2 DEF Streams
  <2> QED
    BY <1>1, <2>1, <2>2 DEF EngineOps, SchedulerOps
<1>4. Launched = {} /\ IsBatch(None)
  BY <1>1 DEF Launched, None, IsBatch
<1>5. TypeInv
  BY <1>1, <1>2, <1>4 DEF TypeInv
<1>6. StreamInv /\ BatchInv /\ TokensInv /\ StagingInv /\ PendingInv /\ ReadsIntended
  BY <1>1, <1>3, <1>4 DEF StreamInv, BatchInv, TokensInv, StagingInv, PendingInv, ReadsIntended
<1>7. \A l \in Locations : InOrder(EngineOps, l, 0, memory[l], wrote[l])
  BY <1>1, <1>3 DEF InOrder, IsVersion
<1>8. NormalInv
  BY <1>7 DEF NormalInv
<1>9. InputInv
  BY <1>1, <1>3, LocationKinds DEF InputInv, InputOrdered
<1>10. RowInv
  <2>1. \A s \in Slots : InOrder(EngineOps, Row(s), 0, memory[Row(s)], wrote[Row(s)])
    BY <1>7, LocationKinds
  <2> QED
    BY <1>3, <2>1 DEF RowInv, RowOrdered
<1> QED
  BY <1>5, <1>6, <1>8, <1>9, <1>10 DEF DeviceInv

LEMMA NextDeviceInv ==
  ASSUME DeviceInv, [Next]_vars
  PROVE  DeviceInv'
<1>1. CASE UNCHANGED vars
  <2>1. /\ overlap' = overlap /\ flashinfer' = flashinfer /\ pc' = pc /\ plan' = plan
        /\ running' = running /\ ending' = ending /\ data' = data /\ cur' = cur
        /\ batches' = batches /\ planned' = planned /\ queue' = queue /\ done' = done
        /\ wrote' = wrote /\ memory' = memory /\ faults' = faults
    BY <1>1 DEF vars
  <2>2. EngineOps' = EngineOps /\ SchedulerOps' = SchedulerOps /\ Launched' = Launched
    BY <2>1 DEF EngineOps, SchedulerOps, Launched
  <2>3. Issued("engine")' = Issued("engine") /\ Issued("scheduler")' = Issued("scheduler")
    BY <2>1 DEF Issued
  <2>4. TypeInv' /\ StreamInv' /\ BatchInv'
    BY <2>1, <2>2 DEF DeviceInv, TypeInv, IsBatch, StreamInv, IsEngineOp, BatchInv, Id
  <2>5. TokensInv' /\ StagingInv' /\ NormalInv' /\ PendingInv' /\ ReadsIntended'
    BY <2>1, <2>2 DEF DeviceInv, TokensInv, StagingInv, NormalInv, PendingInv, ReadsIntended
  <2>6. InputInv'
    BY <2>1, <2>2 DEF DeviceInv, InputInv, InputOrdered
  <2>7. RowInv'
    BY <2>1, <2>2, <2>3 DEF DeviceInv, RowInv, RowOrdered
  <2> QED
    BY <2>4, <2>5, <2>6, <2>7 DEF DeviceInv
<1>2. ASSUME NEW st \in Streams, Execute(st) PROVE DeviceInv'
  BY <1>2, EngineDeviceInv, SchedulerDeviceInv DEF Streams
<1>3. ASSUME NEW s \in Slots, Admit(s) PROVE DeviceInv'
  BY <1>3, AdmitDeviceInv
<1>4. ASSUME NEW s \in Slots, Abort(s) PROVE DeviceInv'
  BY <1>4, AbortDeviceInv
<1>5. CASE Decode
  <2>1. /\ UNCHANGED <<overlap, flashinfer, host, queue, done, wrote, memory, faults>>
        /\ pc = "select" /\ pc' \in {"prepare", "process"} /\ plan' \subseteq Slots
    BY <1>5 DEF Decode, DeviceInv, TypeInv
  <2> QED
    BY <2>1, HostDeviceInv
<1>6. CASE NoBatch
  <2>1. /\ UNCHANGED <<overlap, flashinfer, host, queue, done, wrote, memory, faults>>
        /\ pc = "select" /\ pc' \in {"prepare", "process"} /\ plan' \subseteq Slots
    BY <1>6 DEF NoBatch, DeviceInv, TypeInv
  <2> QED
    BY <2>1, HostDeviceInv
<1>7. CASE Prepare
  BY <1>7, PrepareDeviceInv
<1>8. CASE Launch
  BY <1>8, LaunchDeviceInv
<1>9. CASE Process
  BY <1>9, ProcessDeviceInv
<1> QED
  BY <1>1, <1>2, <1>3, <1>4, <1>5, <1>6, <1>7, <1>8, <1>9 DEF Next

\* Whatever the two streams have still to do, and in whichever order they go on, every
\* operation and the host read what the program wrote last: a slot is reused behind the
\* last store to its row, a batch runs behind its preparation, a plan is not overwritten.
THEOREM ReadsCorrect == Spec => []ReadsIntended
<1>1. Init => DeviceInv
  BY InitDeviceInv
<1>2. DeviceInv /\ [Next]_vars => DeviceInv'
  BY NextDeviceInv
<1>3. DeviceInv => ReadsIntended
  BY DEF DeviceInv
<1> QED
  BY <1>1, <1>2, <1>3, PTL DEF Spec

=============================================================================
