--------------------------- MODULE FrontendProofs ---------------------------
(***************************************************************************)
(* Theorems of Frontend: for any number of requests, tokens and workers    *)
(* no token is lost, kept twice or out of order between the scheduler and  *)
(* a client, and no task sleeps beside a reply.                            *)
(***************************************************************************)
EXTENDS Frontend, Integers, TLAPS, FiniteSetTheorems, SequenceTheorems

\* The text of the first n tokens, and the i-th chunk when these are the flags that were sent.
TextTo(n) == [j \in 1 .. n |-> j]
Chunk(flags, i) == [text |-> TextTo(i), finished |-> flags[i]]
Chunks == [text : Seq(Nat), finished : BOOLEAN]

Messages == [uid : Uids, type : {"request", "abort"}]
Replies == [uid : Uids, token : Nat, finished : BOOLEAN]
Texts == [uid : Uids, text : Seq(Nat) \ {<<>>}, finished : BOOLEAN]
Places == {"new", "sending", "waiting", "checking", "writing", "ended", "cancelled", "abandoned"}

TypeInv ==
  /\ uid_counter \in Nat /\ pc \in [Uids -> Places] /\ gone \subseteq streaming
  /\ aborter \in [Uids -> {"none", "sleeping", "sending", "sent"}]
  /\ acks \in [Uids -> Seq(Chunks)] /\ got \in [Uids -> Seq(Chunks)]
  /\ ack_map \in [DOMAIN ack_map -> Seq(Chunks)] /\ event_map \in [DOMAIN ack_map -> BOOLEAN]
  /\ to_tokenizer \in [Workers -> Seq(Messages)]
  /\ to_backend \in [Workers -> Seq(Messages)]
  /\ to_detokenizer \in Seq(Seq(Replies))
  /\ to_frontend \in Seq(Seq(Texts))
  /\ decode_map \in [DOMAIN decode_map -> Seq(Nat)]

\* The task of u, and what it owns.
TaskOf(u) ==
  /\ pc[u] = "new" <=> u >= uid_counter
  /\ u \in DOMAIN ack_map => pc[u] # "new" /\ event_map[u] = (ack_map[u] # <<>>)
  /\ pc[u] \in {"sending", "waiting", "checking", "writing"} => u \in DOMAIN ack_map
  /\ aborter[u] # "none" => pc[u] = "cancelled"
  /\ pc[u] \in {"new", "sending", "waiting"} \/ u \notin streaming => acks[u] = <<>>
  /\ pc[u] \in {"new", "sending"} => status[u] = "new" /\ got[u] = <<>>
  /\ u \notin streaming => pc[u] \in {"new", "sending", "waiting", "ended"}

\* What is on its way to the scheduler was sent.
Sent(m) == m.uid \in Uids /\ pc[m.uid] \notin {"new", "sending"}
SentInv ==
  \A w \in Workers :
    /\ \A i \in DOMAIN to_tokenizer[w] : Sent(to_tokenizer[w][i])
    /\ \A i \in DOMAIN to_backend[w] : Sent(to_backend[w][i])

\* s are the chunks of the text behind the first n.
Chain(s, flags, n) == \A i \in DOMAIN s : n + i <= Len(flags) /\ s[i] = Chunk(flags, n + i)

\* All of u's text is there.
Complete(u, n) == n = Len(sent[u]) /\ status[u] = "done"

\* A response goes on, has its end in hand, or is over.
ResponseOf(u) ==
  \/ /\ Chain(got[u] \o acks[u], sent[u], 0)
     /\ pc[u] = "ended" => Complete(u, Len(got[u])) /\ acks[u] = <<>>
  \/ /\ acks[u] = <<DoneChunk>> /\ pc[u] \in {"checking", "writing"}
     /\ Chain(got[u], sent[u], 0) /\ Complete(u, Len(got[u]))
  \/ /\ acks[u] = <<>> /\ pc[u] = "ended"
     /\ got[u] # <<>> /\ Last(got[u]) = DoneChunk
     /\ Chain(Front(got[u]), sent[u], 0) /\ Complete(u, Len(got[u]) - 1)

\* A reply carries what was sent.
ReplyOf(flags, r) == r.token \in 1 .. Len(flags) /\ r.finished = flags[r.token]
TextOf(flags, r) ==
  \E t \in 1 .. Len(flags) : [text |-> r.text, finished |-> r.finished] = Chunk(flags, t)
RepliesInv ==
  /\ OncePerMessage(to_detokenizer) /\ OncePerMessage(to_frontend)
  /\ \A b \in DOMAIN to_detokenizer : \A i \in DOMAIN to_detokenizer[b] :
       ReplyOf(sent[to_detokenizer[b][i].uid], to_detokenizer[b][i])
  /\ \A b \in DOMAIN to_frontend : \A i \in DOMAIN to_frontend[b] :
       TextOf(sent[to_frontend[b][i].uid], to_frontend[b][i])

\* Of u's tokens h have reached the API server and k the detokenizer, ...
Path(u, h, k) ==
  /\ h <= k /\ k <= Len(sent[u])
  /\ Bring(Decoding(u), h + 1, k) /\ Bring(Replied(u), k + 1, Len(sent[u]))
  /\ u \in DOMAIN decode_map <=> k > 0 /\ ~sent[u][k]
  /\ u \in DOMAIN decode_map => decode_map[u] = TextTo(k)

\* ... where the h are written, in hand or in the list.
Holds(u, h) ==
  /\ pc[u] \in {"new", "sending"} => h = 0
  /\ pc[u] = "sending" => ack_map[u] = <<>>
  /\ Running(u) =>
       LET n == Len(Texted(got[u] \o acks[u]))
       IN  h = n + Len(ack_map[u]) /\ Chain(ack_map[u], sent[u], n)

FrontendInv ==
  /\ ServiceTypeOK /\ StreamsWellFormed /\ TypeInv /\ SentInv /\ RepliesInv
  /\ \A u \in Uids : TaskOf(u) /\ ResponseOf(u) /\ \E h, k \in Nat : Path(u, h, k) /\ Holds(u, h)

----------------------------------------------------------------------------
(* Sequences *)

\* A nonempty set of natural numbers has a least element.
LEMMA LeastNatural ==
  ASSUME NEW T, T \subseteq Nat, T # {}
  PROVE  \E x \in T : \A y \in T : x <= y
<1>1. IsWellFoundedOn(OpToRel(<, Nat), Nat)
  BY NatLessThanWellFounded
<1>2. PICK x \in T : \A y \in T : ~(<<y, x>> \in OpToRel(<, Nat))
  BY <1>1, WFMin
<1>3. \A y \in T : ~(y < x)
  BY <1>2 DEF OpToRel
<1> QED
  BY <1>3

\* An enumeration in ascending order.
Rising(f) == \A i, j \in DOMAIN f : i < j => f[i] < f[j]

\* A finite set of positions has one.
LEMMA RisingExists ==
  \A n \in Nat : \A S \in SUBSET (1 .. n) : \E f \in [1 .. Cardinality(S) -> S] : Rising(f)
<1> DEFINE Bad == {n \in Nat : \E S \in SUBSET (1 .. n) : \A f \in [1 .. Cardinality(S) -> S] : ~Rising(f)}
<1> SUFFICES ASSUME Bad # {} PROVE FALSE
  OBVIOUS
<1>1. PICK n \in Nat : n \in Bad /\ \A y \in Bad : n <= y
  <2>1. Bad \subseteq Nat
    OBVIOUS
  <2> HIDE DEF Bad
  <2> QED
    BY <2>1, LeastNatural
<1>2. PICK S \in SUBSET (1 .. n) : \A f \in [1 .. Cardinality(S) -> S] : ~Rising(f)
  BY <1>1
<1>6. ASSUME NEW m \in Nat, m < n, NEW R \in SUBSET (1 .. m)
      PROVE  \E f \in [1 .. Cardinality(R) -> R] : Rising(f)
  <2>1. m \notin Bad
    <3> HIDE DEF Bad
    <3> QED
      BY <1>1, <1>6
  <2> QED
    BY <2>1
<1> HIDE DEF Bad
<1>3. IsFiniteSet(S) /\ Cardinality(S) \in Nat
  <2>1. IsFiniteSet(1 .. n)
    BY FS_Interval
  <2>2. IsFiniteSet(S)
    BY <2>1, FS_Subset
  <2> QED
    BY <2>2, FS_CardinalityType
<1>4. CASE n = 0
  <2>1. S = {}
    BY <1>4
  <2>2. Cardinality(S) = 0
    BY <2>1, FS_EmptySet
  <2>3. [i \in 1 .. 0 |-> 0] \in [1 .. Cardinality(S) -> S] /\ Rising([i \in 1 .. 0 |-> 0])
    BY <2>2 DEF Rising
  <2> QED
    BY <1>2, <2>3
<1>5. CASE n # 0
  <2>1. n - 1 \in Nat /\ n - 1 < n
    BY <1>5
  <2>2. \A R \in SUBSET (1 .. n - 1) : \E f \in [1 .. Cardinality(R) -> R] : Rising(f)
    BY <1>6, <2>1
  <2>3. n \in S
    <3>1. SUFFICES ASSUME n \notin S PROVE FALSE
      OBVIOUS
    <3>2. S \in SUBSET (1 .. n - 1)
      BY <3>1
    <3> QED
      BY <1>2, <2>2, <3>2
  <2> DEFINE R == S \ {n}
  <2>4. R \in SUBSET (1 .. n - 1) /\ IsFiniteSet(R)
    BY <1>3, FS_Subset
  <2>5. PICK g \in [1 .. Cardinality(R) -> R] : Rising(g)
    BY <2>2, <2>4
  <2>6. Cardinality(R) = Cardinality(S) - 1
    BY <1>3, <2>3, FS_RemoveElement
  <2> HIDE DEF R
  <2>7. PICK c \in Nat : c = Cardinality(R) /\ Cardinality(S) = c + 1
    <3>1. Cardinality(R) \in Nat
      BY <2>4, FS_CardinalityType
    <3> QED
      BY <1>3, <2>6, <3>1
  <2> DEFINE f == [i \in 1 .. c + 1 |-> IF i = c + 1 THEN n ELSE g[i]]
  <2>8. \A i \in 1 .. c : g[i] \in R /\ g[i] < n /\ g[i] \in Nat
    <3>1. \A i \in 1 .. c : g[i] \in R
      BY <2>5, <2>7
    <3>2. \A i \in R : i < n /\ i \in Nat
      BY <2>4
    <3> QED
      BY <3>1, <3>2
  <2>9. f \in [1 .. c + 1 -> S]
    <3>1. R \subseteq S
      BY DEF R
    <3> QED
      BY <2>3, <2>8, <3>1
  <2>10. Rising(f)
    BY <2>5, <2>7, <2>8 DEF Rising
  <2> QED
    BY <1>2, <2>7, <2>9, <2>10
<1> QED
  BY <1>4, <1>5

\* Ascending enumerates its set.
LEMMA AscendingEnumerates ==
  ASSUME NEW n \in Nat, NEW S \in SUBSET (1 .. n)
  PROVE  /\ IsFiniteSet(S) /\ Cardinality(S) \in Nat
         /\ Ascending(S) \in [1 .. Cardinality(S) -> S] /\ Rising(Ascending(S))
<1>1. IsFiniteSet(S) /\ Cardinality(S) \in Nat
  <2>1. IsFiniteSet(1 .. n)
    BY FS_Interval
  <2>2. IsFiniteSet(S)
    BY <2>1, FS_Subset
  <2> QED
    BY <2>2, FS_CardinalityType
<1>2. \E f \in [1 .. Cardinality(S) -> S] : Rising(f)
  BY RisingExists
<1>3. Ascending(S) = CHOOSE f \in [1 .. Cardinality(S) -> S] : Rising(f)
  BY DEF Ascending, Rising
<1> QED
  BY <1>1, <1>2, <1>3

\* No message, and one.
LEMMA AtFew ==
  ASSUME NEW seq
  PROVE  /\ At(seq, {}) = <<>>
         /\ \A i \in Nat \ {0} : At(seq, {i}) = <<seq[i]>>
<1>1. At(seq, {}) = <<>>
  BY FS_EmptySet DEF At
<1>2. ASSUME NEW i \in Nat \ {0} PROVE At(seq, {i}) = <<seq[i]>>
  <2>1. Cardinality({i}) = 1
    BY FS_Singleton
  <2>2. Ascending({i})[1] = i
    <3>1. {i} \in SUBSET (1 .. i)
      OBVIOUS
    <3>2. Ascending({i}) \in [1 .. 1 -> {i}]
      BY <2>1, <3>1, AscendingEnumerates
    <3> QED
      BY <3>2
  <2>3. At(seq, {i}) = [j \in 1 .. 1 |-> seq[Ascending({i})[j]]]
    BY <2>1 DEF At
  <2> QED
    BY <2>2, <2>3
<1> QED
  BY <1>1, <1>2

\* What is selected was there, and is selected.
LEMMA AtElements ==
  ASSUME NEW T, NEW seq \in Seq(T), NEW S \in SUBSET DOMAIN seq
  PROVE  /\ At(seq, S) \in Seq(T)
         /\ \A j \in DOMAIN At(seq, S) : \E i \in S : At(seq, S)[j] = seq[i]
         /\ \A i \in S : \E j \in DOMAIN At(seq, S) : At(seq, S)[j] = seq[i]
<1>1. PICK n \in Nat : n = Len(seq) /\ DOMAIN seq = 1 .. n
  OBVIOUS
<1>2. PICK c \in Nat : c = Cardinality(S)
  BY <1>1, AscendingEnumerates
<1>3. PICK f : f = Ascending(S)
  OBVIOUS
<1>4. IsFiniteSet(S) /\ f \in [1 .. c -> S] /\ Rising(f)
  BY <1>1, <1>2, <1>3, AscendingEnumerates
<1>5. At(seq, S) = [i \in 1 .. c |-> seq[f[i]]]
  BY <1>2, <1>3 DEF At
<1>6. \A i \in 1 .. c : f[i] \in S /\ seq[f[i]] \in T
  BY <1>1, <1>4
<1>7. At(seq, S) \in Seq(T) /\ DOMAIN At(seq, S) = 1 .. c
  BY <1>5, <1>6
<1>8. \A i \in S : \E j \in 1 .. c : f[j] = i
  <2>1. ASSUME NEW i \in 1 .. c, NEW j \in 1 .. c, f[i] = f[j] PROVE i = j
    <3>1. f[i] \in Nat /\ f[j] \in Nat
      BY <1>1, <1>4
    <3>2. ~(i < j) /\ ~(j < i)
      BY <1>4, <2>1, <3>1 DEF Rising
    <3> QED
      BY <3>2
  <2>2. f \in Injection(1 .. c, S)
    BY <1>4, <2>1 DEF Injection, IsInjective
  <2>3. Cardinality(1 .. c) = c
    BY FS_Interval
  <2>4. f \in Surjection(1 .. c, S)
    BY <1>2, <1>4, <2>2, <2>3, FS_Injection
  <2> QED
    BY <2>4 DEF Surjection
<1>9. \A i \in 1 .. c : At(seq, S)[i] = seq[f[i]]
  BY <1>5
<1> QED
  BY <1>6, <1>7, <1>8, <1>9

----------------------------------------------------------------------------
(* Messages *)

\* A message behind the others brings the next token or nothing.
LEMMA BringNext ==
  ASSUME NEW T \in Seq(SUBSET Nat), NEW first \in Nat, NEW last \in Nat, first <= last + 1,
         Bring(T, first, last)
  PROVE  /\ Bring(Append(T, {}), first, last)
         /\ Bring(Append(T, {last + 1}), first, last + 1)
<1>1. PICK n \in Nat : n = Len(T) /\ DOMAIN T = 1 .. n
  OBVIOUS
<1>2. ASSUME NEW X \in SUBSET Nat
      PROVE  /\ DOMAIN Append(T, X) = 1 .. n + 1
             /\ \A b \in 1 .. n : Append(T, X)[b] = T[b]
             /\ Append(T, X)[n + 1] = X
  BY <1>1
<1>3. /\ UNION Range(T) = first .. last
      /\ \A b, c \in 1 .. n : \A t \in T[b], v \in T[c] : b < c <=> t < v
  BY <1>1 DEF Bring
<1>4. \A b \in 1 .. n : T[b] \subseteq first .. last
  BY <1>1, <1>3 DEF Range
<1>5. ASSUME NEW X \in SUBSET Nat PROVE UNION Range(Append(T, X)) = (first .. last) \cup X
  <2>1. PICK R : R = Append(T, X)
    OBVIOUS
  <2>2. DOMAIN R = 1 .. n + 1 /\ R[n + 1] = X /\ \A b \in 1 .. n : R[b] = T[b]
    BY <1>2, <2>1
  <2>3. \A t : t \in UNION Range(R) <=> \E b \in 1 .. n + 1 : t \in R[b]
    BY <2>2 DEF Range
  <2>4. \A t : t \in UNION Range(T) <=> \E b \in 1 .. n : t \in T[b]
    BY <1>1 DEF Range
  <2>5. \A t : t \in UNION Range(R) <=> t \in UNION Range(T) \/ t \in X
    <3>1. \A b : b \in 1 .. n + 1 <=> b \in 1 .. n \/ b = n + 1
      OBVIOUS
    <3> QED
      BY <2>2, <2>3, <2>4, <3>1
  <2> QED
    BY <1>3, <2>1, <2>5
<1>6. Bring(Append(T, {}), first, last)
  <2>1. PICK R : R = Append(T, {})
    OBVIOUS
  <2>2. DOMAIN R = 1 .. n + 1 /\ R[n + 1] = {} /\ \A b \in 1 .. n : R[b] = T[b]
    BY <1>2, <2>1
  <2>3. \A b, c \in DOMAIN R : \A t \in R[b], v \in R[c] : b < c <=> t < v
    <3>1. \A b \in DOMAIN R : R[b] # {} => b \in 1 .. n
      BY <2>2
    <3> QED
      BY <1>3, <2>2, <3>1
  <2>4. UNION Range(R) = first .. last
    BY <1>5, <2>1
  <2> QED
    BY <2>1, <2>3, <2>4 DEF Bring
<1>7. Bring(Append(T, {last + 1}), first, last + 1)
  <2>1. PICK R : R = Append(T, {last + 1})
    OBVIOUS
  <2>2. DOMAIN R = 1 .. n + 1 /\ R[n + 1] = {last + 1} /\ \A b \in 1 .. n : R[b] = T[b]
    <3>1. {last + 1} \in SUBSET Nat
      OBVIOUS
    <3> QED
      BY <1>2, <2>1, <3>1
  <2>3. ASSUME NEW b \in DOMAIN R, NEW c \in DOMAIN R, NEW t \in R[b], NEW v \in R[c]
        PROVE  b < c <=> t < v
    <3>1. CASE b \in 1 .. n /\ c \in 1 .. n
      BY <1>3, <2>2, <2>3, <3>1
    <3>2. CASE b \in 1 .. n /\ c = n + 1
      BY <1>4, <2>2, <2>3, <3>2
    <3>3. CASE b = n + 1 /\ c \in 1 .. n
      BY <1>4, <2>2, <2>3, <3>3
    <3>4. CASE b = n + 1 /\ c = n + 1
      BY <2>2, <2>3, <3>4
    <3> QED
      BY <2>2, <3>1, <3>2, <3>3, <3>4
  <2>4. UNION Range(R) = first .. last + 1
    <3>1. UNION Range(R) = (first .. last) \cup {last + 1}
      BY <1>5, <2>1
    <3> QED
      BY <3>1
  <2> QED
    BY <2>1, <2>3, <2>4 DEF Bring
<1> QED
  BY <1>6, <1>7

\* The first message brings the first token or nothing.
LEMMA BringTaken ==
  ASSUME NEW T \in Seq(SUBSET Nat), NEW first \in Nat, NEW last \in Nat, T # <<>>,
         Bring(T, first, last)
  PROVE  \/ Head(T) = {} /\ Bring(Tail(T), first, last)
         \/ Head(T) = {first} /\ first <= last /\ Bring(Tail(T), first + 1, last)
<1>1. PICK n \in Nat : n + 1 = Len(T) /\ DOMAIN T = 1 .. n + 1
  <2>1. PICK l \in Nat : l = Len(T) /\ DOMAIN T = 1 .. l /\ l # 0
    OBVIOUS
  <2> QED
    BY <2>1
<1>2. PICK R : R = Tail(T)
  OBVIOUS
<1>3. Head(T) = T[1] /\ DOMAIN R = 1 .. n /\ \A b \in 1 .. n : R[b] = T[b + 1]
  BY <1>1, <1>2
<1>4. /\ UNION Range(T) = first .. last
      /\ \A b, c \in 1 .. n + 1 : \A t \in T[b], v \in T[c] : b < c <=> t < v
  BY <1>1 DEF Bring
<1>5. \A t : t \in first .. last <=> \E b \in 1 .. n + 1 : t \in T[b]
  BY <1>1, <1>4 DEF Range
<1>6. \A t : t \in UNION Range(R) <=> \E b \in 1 .. n : t \in T[b + 1]
  BY <1>3 DEF Range
<1>7. \A t : t \in first .. last <=> t \in T[1] \/ t \in UNION Range(R)
  <2>1. ASSUME NEW b \in 1 .. n + 1 PROVE b = 1 \/ b - 1 \in 1 .. n
    OBVIOUS
  <2>2. \A b \in 1 .. n : b + 1 \in 1 .. n + 1
    OBVIOUS
  <2>3. ASSUME NEW t \in first .. last PROVE t \in T[1] \/ t \in UNION Range(R)
    <3>1. PICK b \in 1 .. n + 1 : t \in T[b]
      BY <1>5
    <3>2. CASE b # 1
      <4>1. b - 1 \in 1 .. n /\ (b - 1) + 1 = b
        BY <2>1, <3>2
      <4> QED
        BY <1>6, <3>1, <4>1
    <3> QED
      BY <3>1, <3>2
  <2>4. 1 \in 1 .. n + 1
    OBVIOUS
  <2> QED
    BY <1>5, <1>6, <2>2, <2>3, <2>4
<1>8. ASSUME NEW b \in DOMAIN R, NEW c \in DOMAIN R, NEW t \in R[b], NEW v \in R[c]
      PROVE  b < c <=> t < v
  <2>1. b + 1 \in 1 .. n + 1 /\ c + 1 \in 1 .. n + 1 /\ t \in T[b + 1] /\ v \in T[c + 1]
    BY <1>3
  <2>2. b + 1 < c + 1 <=> t < v
    BY <1>4, <2>1
  <2> QED
    BY <1>3, <2>2
<1>9. ASSUME NEW t \in T[1], NEW v \in UNION Range(R) PROVE t < v
  <2>1. PICK b \in 1 .. n : v \in T[b + 1]
    BY <1>6
  <2>2. 1 \in 1 .. n + 1 /\ b + 1 \in 1 .. n + 1 /\ 1 < b + 1
    OBVIOUS
  <2> QED
    BY <1>4, <2>1, <2>2
<1>10. ASSUME NEW t \in T[1], NEW v \in T[1] PROVE t = v
  <2>1. 1 \in 1 .. n + 1 /\ ~(1 < 1)
    OBVIOUS
  <2>2. ~(t < v) /\ ~(v < t)
    BY <1>4, <2>1
  <2>3. t \in Int /\ v \in Int
    BY <1>7
  <2> QED
    BY <2>2, <2>3
<1>11. CASE T[1] = {}
  <2>1. UNION Range(R) = first .. last
    BY <1>7, <1>11
  <2> QED
    BY <1>2, <1>3, <1>8, <1>11, <2>1 DEF Bring
<1>12. CASE T[1] # {}
  <2>1. PICK t \in T[1] : T[1] = {t}
    BY <1>10, <1>12
  <2>2. t \in first .. last
    BY <1>7, <2>1
  <2>3. t = first
    <3>1. first \in first .. last
      BY <2>2
    <3>2. first \in T[1] \/ t < first
      BY <1>7, <1>9, <3>1
    <3> QED
      BY <2>1, <2>2, <3>2
  <2>4. UNION Range(R) = first + 1 .. last
    <3>1. \A v : v \in UNION Range(R) => v \in first .. last /\ first < v
      BY <1>7, <1>9, <2>1, <2>3
    <3>2. \A v : v \in first .. last /\ v # first => v \in UNION Range(R)
      BY <1>7, <2>1, <2>3
    <3> QED
      BY <3>1, <3>2
  <2> QED
    BY <1>2, <1>3, <1>8, <2>1, <2>2, <2>3, <2>4 DEF Bring
<1> QED
  BY <1>11, <1>12

\* The first message of a queue, and one more, in terms of what each is mapped to.
Mapped(G, q) == [b \in DOMAIN q |-> G[q[b]]]

Maps(G, q, S, V) == G \in [S -> V] /\ q \in Seq(S)
OneMore(G, q, x) == Mapped(G, Append(q, x)) = Append(Mapped(G, q), G[x])
OneLess(G, q) ==
  /\ Mapped(G, q) # <<>> /\ Head(Mapped(G, q)) = G[Head(q)]
  /\ Mapped(G, Tail(q)) = Tail(Mapped(G, q))

LEMMA MappedQueue ==
  ASSUME NEW S, NEW V, NEW G, NEW q, Maps(G, q, S, V)
  PROVE  Mapped(G, q) \in Seq(V)
<1>0. G \in [S -> V] /\ q \in Seq(S)
  BY DEF Maps
<1>1. PICK n \in Nat : n = Len(q) /\ DOMAIN q = 1 .. n
  BY <1>0
<1>2. PICK T : T = Mapped(G, q)
  OBVIOUS
<1>3. T = [b \in 1 .. n |-> G[q[b]]] /\ \A b \in 1 .. n : q[b] \in S
  BY <1>0, <1>1, <1>2 DEF Mapped
<1>4. T \in Seq(V) /\ Len(T) = n /\ DOMAIN T = 1 .. n /\ \A b \in 1 .. n : T[b] = G[q[b]]
  <2>1. \A b \in 1 .. n : G[q[b]] \in V
    BY <1>0, <1>3
  <2> QED
    BY <1>3, <2>1
<1> QED
  BY <1>2, <1>4

LEMMA QueueExtended ==
  ASSUME NEW S, NEW V, NEW G, NEW q, Maps(G, q, S, V), NEW x \in S
  PROVE  OneMore(G, q, x)
<1>0. G \in [S -> V] /\ q \in Seq(S)
  BY DEF Maps
<1>1. PICK n \in Nat : n = Len(q) /\ DOMAIN q = 1 .. n
  BY <1>0
<1>2. PICK T : T = Mapped(G, q)
  OBVIOUS
<1>3. T = [b \in 1 .. n |-> G[q[b]]] /\ \A b \in 1 .. n : q[b] \in S
  BY <1>0, <1>1, <1>2 DEF Mapped
<1>4. T \in Seq(V) /\ Len(T) = n /\ DOMAIN T = 1 .. n /\ \A b \in 1 .. n : T[b] = G[q[b]]
  <2>1. \A b \in 1 .. n : G[q[b]] \in V
    BY <1>0, <1>3
  <2> QED
    BY <1>3, <2>1
<1>5. Mapped(G, Append(q, x)) = Append(T, G[x])
  <2>1. PICK p : p = Append(q, x)
    OBVIOUS
  <2>2. DOMAIN p = 1 .. n + 1 /\ p[n + 1] = x /\ \A b \in 1 .. n : p[b] = q[b]
    BY <1>0, <1>1, <2>1
  <2>3. PICK v \in V : v = G[x]
    BY <1>0
  <2>4. PICK A : A = Append(T, v)
    OBVIOUS
  <2>5. A \in Seq(V) /\ DOMAIN A = 1 .. n + 1 /\ A[n + 1] = v /\ \A b \in 1 .. n : A[b] = T[b]
    BY <1>4, <2>4
  <2>6. A = [b \in 1 .. n + 1 |-> A[b]]
    BY <2>5
  <2>7. \A b \in 1 .. n + 1 : b \in 1 .. n \/ b = n + 1
    OBVIOUS
  <2>8. \A b \in 1 .. n + 1 : G[p[b]] = A[b]
    BY <1>4, <2>2, <2>3, <2>5, <2>7
  <2>9. Mapped(G, p) = [b \in 1 .. n + 1 |-> G[p[b]]]
    BY <2>2 DEF Mapped
  <2> QED
    BY <2>1, <2>3, <2>4, <2>6, <2>8, <2>9
<1> QED
  BY <1>2, <1>5 DEF OneMore

LEMMA QueueTaken ==
  ASSUME NEW S, NEW V, NEW G, NEW q, Maps(G, q, S, V), q # <<>>
  PROVE  OneLess(G, q)
<1>0. G \in [S -> V] /\ q \in Seq(S)
  BY DEF Maps
<1>1. PICK n \in Nat : n = Len(q) /\ DOMAIN q = 1 .. n
  BY <1>0
<1>2. PICK T : T = Mapped(G, q)
  OBVIOUS
<1>3. T = [b \in 1 .. n |-> G[q[b]]] /\ \A b \in 1 .. n : q[b] \in S
  BY <1>0, <1>1, <1>2 DEF Mapped
<1>4. T \in Seq(V) /\ Len(T) = n /\ DOMAIN T = 1 .. n /\ \A b \in 1 .. n : T[b] = G[q[b]]
  <2>1. \A b \in 1 .. n : G[q[b]] \in V
    BY <1>0, <1>3
  <2> QED
    BY <1>3, <2>1
<1>6. /\ T # <<>> /\ Head(T) = G[Head(q)]
      /\ Mapped(G, Tail(q)) = Tail(T)
  <2>1. n >= 1 /\ Head(q) = q[1] /\ Head(T) = T[1] /\ T # <<>>
    BY <1>0, <1>1, <1>4
  <2>2. PICK p : p = Tail(q)
    OBVIOUS
  <2>3. DOMAIN p = 1 .. n - 1 /\ \A b \in 1 .. n - 1 : p[b] = q[b + 1]
    BY <1>0, <1>1, <2>1, <2>2
  <2>4. PICK A : A = Tail(T)
    OBVIOUS
  <2>5. A \in Seq(V) /\ DOMAIN A = 1 .. n - 1 /\ \A b \in 1 .. n - 1 : A[b] = T[b + 1]
    BY <1>4, <2>1, <2>4
  <2>6. \A b \in 1 .. n - 1 : G[p[b]] = A[b]
    <3>1. \A b \in 1 .. n - 1 : b + 1 \in 1 .. n
      BY <2>1
    <3> QED
      BY <1>4, <2>3, <2>5, <3>1
  <2>7. A = [b \in 1 .. n - 1 |-> A[b]]
    BY <2>5
  <2>8. Mapped(G, p) = [b \in 1 .. n - 1 |-> G[p[b]]]
    BY <2>3 DEF Mapped
  <2>9. Mapped(G, Tail(q)) = Tail(T)
    BY <2>2, <2>4, <2>6, <2>7, <2>8
  <2>10. 1 \in 1 .. n
    BY <2>1
  <2> QED
    BY <1>4, <2>1, <2>9, <2>10
<1> QED
  BY <1>2, <1>6 DEF OneLess

\* What messages bring u, as such a map.
TokensOf(u) == [y \in Seq(Replies) |-> TokensFor(y, u)]
TextsOf(u) == [y \in Seq(Texts) |-> TextsFor(y, u)]

LEMMA TokensType ==
  ASSUME NEW u
  PROVE  TokensOf(u) \in [Seq(Replies) -> SUBSET Nat] /\ TextsOf(u) \in [Seq(Texts) -> SUBSET Nat]
<1>1. ASSUME NEW y \in Seq(Replies) PROVE TokensFor(y, u) \in SUBSET Nat
  <2>1. \A i \in DOMAIN y : y[i] \in Replies
    OBVIOUS
  <2> QED
    BY <2>1 DEF TokensFor, Range, Replies
<1>2. ASSUME NEW y \in Seq(Texts) PROVE TextsFor(y, u) \in SUBSET Nat
  <2>1. \A i \in DOMAIN y : y[i] \in Texts
    OBVIOUS
  <2>2. ASSUME NEW s \in Seq(Nat) \ {<<>>} PROVE Last(s) \in Nat
    BY DEF Last
  <2>3. \A m \in Range(y) : Last(m.text) \in Nat
    BY <2>1, <2>2 DEF Range, Texts
  <2> QED
    BY <2>3 DEF TextsFor
<1> QED
  BY <1>1, <1>2 DEF TokensOf, TextsOf

LEMMA TokensMap ==
  ASSUME NEW u, NEW q \in Seq(Seq(Replies))
  PROVE  Maps(TokensOf(u), q, Seq(Replies), SUBSET Nat)
  BY TokensType DEF Maps

LEMMA TextsMap ==
  ASSUME NEW u, NEW q \in Seq(Seq(Texts))
  PROVE  Maps(TextsOf(u), q, Seq(Texts), SUBSET Nat)
  BY TokensType DEF Maps

LEMMA QueuesMapped ==
  ASSUME NEW u
  PROVE  /\ to_detokenizer \in Seq(Seq(Replies)) => Replied(u) = Mapped(TokensOf(u), to_detokenizer)
         /\ to_frontend \in Seq(Seq(Texts)) => Decoding(u) = Mapped(TextsOf(u), to_frontend)
<1>1. ASSUME to_detokenizer \in Seq(Seq(Replies))
      PROVE  Replied(u) = Mapped(TokensOf(u), to_detokenizer)
  <2>1. \A b \in DOMAIN to_detokenizer : to_detokenizer[b] \in Seq(Replies)
    BY <1>1
  <2> QED
    BY <2>1 DEF Replied, Mapped, TokensOf
<1>2. ASSUME to_frontend \in Seq(Seq(Texts))
      PROVE  Decoding(u) = Mapped(TextsOf(u), to_frontend)
  <2>1. \A b \in DOMAIN to_frontend : to_frontend[b] \in Seq(Texts)
    BY <1>2
  <2> QED
    BY <2>1 DEF Decoding, Mapped, TextsOf
<1> QED
  BY <1>1, <1>2

\* Each request is named once.
Once(batch) == \A i, j \in DOMAIN batch : batch[i].uid = batch[j].uid => i = j

\* What such a message has for u.
LEMMA OneToken ==
  ASSUME NEW batch, Once(batch), NEW u
  PROVE  /\ (\A i \in DOMAIN batch : batch[i].uid # u) =>
              TokensFor(batch, u) = {} /\ TextsFor(batch, u) = {}
         /\ \A i \in DOMAIN batch :
              batch[i].uid = u => /\ TokensFor(batch, u) = {batch[i].token}
                                  /\ TextsFor(batch, u) = {Last(batch[i].text)}
<1>1. ASSUME \A i \in DOMAIN batch : batch[i].uid # u
      PROVE  {r \in Range(batch) : r.uid = u} = {}
  BY <1>1 DEF Range
<1>2. ASSUME NEW i \in DOMAIN batch, batch[i].uid = u
      PROVE  {r \in Range(batch) : r.uid = u} = {batch[i]}
  <2>1. \A j \in DOMAIN batch : batch[j].uid = u => j = i
    BY <1>2 DEF Once
  <2> QED
    BY <1>2, <2>1 DEF Range
<1> QED
  BY <1>1, <1>2 DEF TokensFor, TextsFor

LEMMA OneReply ==
  ASSUME NEW T, NEW batch \in Seq(T), Once(batch), NEW u
  PROVE  /\ (\A i \in DOMAIN batch : batch[i].uid # u) => RepliesFor(batch, u) = <<>>
         /\ \A i \in DOMAIN batch :
              batch[i].uid = u =>
                RepliesFor(batch, u) = <<[text |-> batch[i].text, finished |-> batch[i].finished]>>
<1>1. ASSUME \A i \in DOMAIN batch : batch[i].uid # u PROVE RepliesFor(batch, u) = <<>>
  <2>1. {i \in DOMAIN batch : batch[i].uid = u} = {}
    BY <1>1
  <2>2. RepliesFor(batch, u) = [i \in DOMAIN <<>> |-> [text |-> <<>>[i].text, finished |-> <<>>[i].finished]]
    BY <2>1, AtFew DEF RepliesFor
  <2> QED
    BY <2>2
<1>2. ASSUME NEW i \in DOMAIN batch, batch[i].uid = u
      PROVE  RepliesFor(batch, u) = <<[text |-> batch[i].text, finished |-> batch[i].finished]>>
  <2>1. {j \in DOMAIN batch : batch[j].uid = u} = {i}
    BY <1>2 DEF Once
  <2>2. At(batch, {i}) = <<batch[i]>>
    <3>1. i \in Nat \ {0}
      OBVIOUS
    <3> QED
      BY <3>1, AtFew
  <2>3. PICK m : m = batch[i]
    OBVIOUS
  <2>4. RepliesFor(batch, u) = [j \in DOMAIN <<m>> |-> [text |-> <<m>>[j].text, finished |-> <<m>>[j].finished]]
    BY <2>1, <2>2, <2>3 DEF RepliesFor
  <2>5. DOMAIN <<m>> = 1 .. 1 /\ \A j \in 1 .. 1 : <<m>>[j] = m
    OBVIOUS
  <2> QED
    BY <2>3, <2>4, <2>5
<1> QED
  BY <1>1, <1>2

----------------------------------------------------------------------------
(* Text *)

\* Chunks behind each other, and when more is sent.
LEMMA ChainParts ==
  ASSUME NEW T, NEW s \in Seq(T), NEW t \in Seq(T), NEW flags \in Seq(BOOLEAN), NEW n \in Nat
  PROVE  Chain(s \o t, flags, n) <=> Chain(s, flags, n) /\ Chain(t, flags, n + Len(s))
<1>1. PICK l \in Nat, m \in Nat : /\ l = Len(s) /\ DOMAIN s = 1 .. l
                                  /\ m = Len(t) /\ DOMAIN t = 1 .. m
  OBVIOUS
<1>2. PICK c : c = s \o t
  OBVIOUS
<1>3. /\ DOMAIN c = 1 .. l + m /\ \A i \in 1 .. l : c[i] = s[i]
      /\ \A i \in 1 .. m : c[l + i] = t[i]
  BY <1>1, <1>2
<1>4. ASSUME Chain(c, flags, n) PROVE Chain(s, flags, n) /\ Chain(t, flags, n + l)
  <2>1. \A i \in 1 .. l : i \in DOMAIN c
    BY <1>1, <1>3
  <2>2. Chain(s, flags, n)
    BY <1>1, <1>3, <1>4, <2>1 DEF Chain
  <2>3. ASSUME NEW i \in 1 .. m
        PROVE  n + l + i <= Len(flags) /\ t[i] = Chunk(flags, n + l + i)
    <3>1. l + i \in DOMAIN c /\ n + (l + i) = n + l + i
      BY <1>1, <1>3
    <3> QED
      BY <1>3, <1>4, <3>1 DEF Chain
  <2> QED
    BY <1>1, <2>2, <2>3 DEF Chain
<1>5. ASSUME Chain(s, flags, n), Chain(t, flags, n + l) PROVE Chain(c, flags, n)
  <2>1. ASSUME NEW i \in 1 .. l + m
        PROVE  n + i <= Len(flags) /\ c[i] = Chunk(flags, n + i)
    <3>1. CASE i \in 1 .. l
      BY <1>1, <1>3, <1>5, <3>1 DEF Chain
    <3>2. CASE i \notin 1 .. l
      <4>1. i - l \in 1 .. m /\ l + (i - l) = i /\ n + l + (i - l) = n + i
        BY <1>1, <3>2
      <4> QED
        BY <1>1, <1>3, <1>5, <4>1 DEF Chain
    <3> QED
      BY <3>1, <3>2
  <2> QED
    BY <1>3, <2>1 DEF Chain
<1> QED
  BY <1>1, <1>2, <1>4, <1>5

\* What more is sent changes nothing that was.
Extends(flags, more) ==
  Len(flags) <= Len(more) /\ \A i \in 1 .. Len(flags) : more[i] = flags[i]

LEMMA ChainExtended ==
  ASSUME NEW s, DOMAIN s \subseteq Nat \ {0}, NEW flags \in Seq(BOOLEAN), NEW more \in Seq(BOOLEAN),
         NEW n \in Nat, Extends(flags, more), Chain(s, flags, n)
  PROVE  Chain(s, more, n)
<1>1. ASSUME NEW i \in DOMAIN s PROVE n + i <= Len(more) /\ s[i] = Chunk(more, n + i)
  <2>1. n + i <= Len(flags) /\ s[i] = Chunk(flags, n + i)
    BY DEF Chain
  <2>2. n + i \in 1 .. Len(flags)
    BY <2>1
  <2>3. more[n + i] = flags[n + i] /\ n + i <= Len(more)
    BY <2>2 DEF Extends
  <2>4. Chunk(more, n + i) = Chunk(flags, n + i)
    BY <2>3 DEF Chunk
  <2> QED
    BY <2>1, <2>3, <2>4
<1> QED
  BY <1>1 DEF Chain

\* A chunk of a text is not the one behind its end.
LEMMA ChunkHasText ==
  ASSUME NEW flags, NEW i \in Nat \ {0}
  PROVE  Chunk(flags, i) # DoneChunk /\ Last(Chunk(flags, i).text) = i
<1>1. PICK t : t = [j \in 1 .. i |-> j]
  OBVIOUS
<1>2. t \in Seq(Nat) /\ Len(t) = i /\ t[i] = i /\ t # <<>>
  BY <1>1
<1>3. Chunk(flags, i).text = t
  BY <1>1 DEF Chunk, TextTo
<1>4. DoneChunk.text = <<>>
  BY DEF DoneChunk
<1> QED
  BY <1>2, <1>3, <1>4 DEF Last

\* What of a response is text.
LEMMA TextedChain ==
  ASSUME NEW s \in Seq(Chunks), NEW flags \in Seq(BOOLEAN), NEW n \in Nat, Chain(s, flags, n)
  PROVE  Texted(s) = s
<1>1. ASSUME s # <<>> PROVE Last(s) # DoneChunk
  <2>1. Len(s) \in DOMAIN s /\ Len(s) \in Nat \ {0}
    BY <1>1
  <2>2. s[Len(s)] = Chunk(flags, n + Len(s))
    BY <2>1 DEF Chain
  <2>3. n + Len(s) \in Nat \ {0}
    BY <2>1
  <2> QED
    BY <2>2, <2>3, ChunkHasText DEF Last
<1> QED
  BY <1>1 DEF Texted

LEMMA TextedEnd ==
  ASSUME NEW s \in Seq(Chunks)
  PROVE  /\ Texted(s \o <<DoneChunk>>) = s
         /\ Texted(Append(s, DoneChunk)) = s
         /\ s # <<>> /\ Last(s) = DoneChunk => Texted(s) = Front(s)
<1>1. DoneChunk \in Chunks
  BY DEF DoneChunk, Chunks
<1>2. PICK d \in Chunks : d = DoneChunk
  BY <1>1
<1>3. s \o <<d>> = Append(s, d)
  OBVIOUS
<1>4. PICK a : a = Append(s, d)
  OBVIOUS
<1>5. a # <<>> /\ a \in Seq(Chunks) /\ Len(a) = Len(s) + 1 /\ a[Len(s) + 1] = d
  BY <1>4
<1>6. Last(a) = d
  BY <1>5 DEF Last
<1>7. Front(a) = s
  <2>1. SubSeq(a, 1, Len(s)) = s
    BY <1>4
  <2> QED
    BY <1>5, <2>1 DEF Front
<1>8. Texted(a) = s
  BY <1>2, <1>5, <1>6, <1>7 DEF Texted
<1> QED
  BY <1>2, <1>3, <1>4, <1>8 DEF Texted

\* The last chunk is the one with the flag.
LEMMA FlagIsLast ==
  ASSUME StreamsWellFormed, ServiceTypeOK, NEW u \in Uids, NEW i \in DOMAIN sent[u], sent[u][i]
  PROVE  Complete(u, i)
BY DEF StreamsWellFormed, ServiceTypeOK, Complete

----------------------------------------------------------------------------
(* What a step leaves alone *)

LEMMA WireKept ==
  ASSUME ServiceTypeOK, StreamsWellFormed, RepliesInv, UNCHANGED <<service, outbound>>
  PROVE  /\ ServiceTypeOK' /\ StreamsWellFormed' /\ RepliesInv'
         /\ \A u, h, k : Path(u, h, k) => Path(u, h, k)'
<1>1. UNCHANGED <<status, sent, to_detokenizer, to_frontend, decode_map>>
  BY DEF service, outbound
<1>2. ServiceTypeOK' /\ StreamsWellFormed'
  BY <1>1 DEF ServiceTypeOK, StreamsWellFormed
<1>3. RepliesInv'
  BY <1>1 DEF RepliesInv, OncePerMessage
<1>4. ASSUME NEW u, NEW h, NEW k, Path(u, h, k) PROVE Path(u, h, k)'
  <2>1. Replied(u)' = Replied(u) /\ Decoding(u)' = Decoding(u)
    BY <1>1 DEF Replied, Decoding
  <2> QED
    BY <1>1, <1>4, <2>1 DEF Path
<1> QED
  BY <1>2, <1>3, <1>4

LEMMA SentKept ==
  ASSUME TypeInv, SentInv, UNCHANGED inbound,
         \A v \in Uids : pc[v] \notin {"new", "sending"} => pc'[v] \notin {"new", "sending"}
  PROVE  SentInv'
<1>1. UNCHANGED <<to_tokenizer, to_backend>>
  BY DEF inbound
<1>2. \A m : Sent(m) => Sent(m)'
  BY DEF Sent
<1> QED
  BY <1>1, <1>2 DEF SentInv

\* One more message to a worker.
LEMMA SendKept ==
  ASSUME TypeInv, SentInv, UNCHANGED to_backend, NEW m \in Messages, Sent(m)',
         \A v \in Uids : pc[v] \notin {"new", "sending"} => pc'[v] \notin {"new", "sending"},
         NEW w \in Workers, to_tokenizer' = [to_tokenizer EXCEPT ![w] = Append(@, m)]
  PROVE  SentInv' /\ to_tokenizer' \in [Workers -> Seq(Messages)]
<1>1. to_tokenizer' \in [Workers -> Seq(Messages)]
  BY DEF TypeInv
<1>2. \A n : Sent(n) => Sent(n)'
  BY DEF Sent
<1>3. ASSUME NEW x \in Workers
      PROVE  \A i \in DOMAIN to_tokenizer'[x] : Sent(to_tokenizer[x][i])'
  <2>1. PICK q : q = to_tokenizer[x]
    OBVIOUS
  <2>2. q \in Seq(Messages) /\ \A i \in DOMAIN q : Sent(q[i])
    BY <2>1 DEF TypeInv, SentInv
  <2>3. CASE x # w
    <3>1. to_tokenizer'[x] = q
      BY <2>1, <2>3 DEF TypeInv
    <3> QED
      BY <1>2, <2>2, <3>1 DEF Sent
  <2>4. CASE x = w
    <3>1. PICK a : a = Append(q, m)
      OBVIOUS
    <3>2. to_tokenizer'[x] = a
      BY <2>1, <2>4, <3>1 DEF TypeInv
    <3>3. \A i \in DOMAIN a : (i \in DOMAIN q /\ a[i] = q[i]) \/ a[i] = m
      BY <2>2, <3>1
    <3> QED
      BY <1>2, <2>2, <3>2, <3>3 DEF Sent
  <2> QED
    BY <2>3, <2>4
<1> QED
  BY <1>1, <1>2, <1>3 DEF SentInv

\* Nothing of request v is touched.
Unmoved(v) ==
  /\ pc'[v] = pc[v] /\ acks'[v] = acks[v] /\ got'[v] = got[v] /\ aborter'[v] = aborter[v]
  /\ v \in DOMAIN ack_map' <=> v \in DOMAIN ack_map
  /\ v \in DOMAIN ack_map => ack_map'[v] = ack_map[v] /\ event_map'[v] = event_map[v]
  /\ v \in streaming' <=> v \in streaming
  /\ v >= uid_counter' <=> v >= uid_counter
  /\ sent'[v] = sent[v] /\ status'[v] = status[v]

LEMMA UnmovedKept ==
  ASSUME NEW v \in Uids, Unmoved(v), TaskOf(v), ResponseOf(v)
  PROVE  TaskOf(v)' /\ ResponseOf(v)' /\ \A h : Holds(v, h) => Holds(v, h)'
<1>1. TaskOf(v)'
  BY DEF Unmoved, TaskOf
<1>2. ResponseOf(v)'
  BY DEF Unmoved, ResponseOf, Complete
<1>3. ASSUME NEW h, Holds(v, h) PROVE Holds(v, h)'
  <2>1. pc[v] = "sending" \/ Running(v) => v \in DOMAIN ack_map
    BY DEF TaskOf, Running
  <2>2. Running(v)' <=> Running(v)
    BY DEF Unmoved, Running
  <2> QED
    BY <1>3, <2>1, <2>2 DEF Unmoved, Holds
<1> QED
  BY <1>1, <1>2, <1>3

\* A step of one task, or of what belongs to one.
LEMMA OneTask ==
  ASSUME FrontendInv, UNCHANGED <<service, outbound>>, TypeInv', SentInv',
         NEW u \in Uids, \A v \in Uids \ {u} : Unmoved(v),
         TaskOf(u)', ResponseOf(u)', \A h \in Nat : Holds(u, h) => Holds(u, h)'
  PROVE  FrontendInv'
<1>1. ServiceTypeOK /\ StreamsWellFormed /\ RepliesInv
  BY DEF FrontendInv
<1>2. /\ ServiceTypeOK' /\ StreamsWellFormed' /\ RepliesInv'
      /\ \A v, h, k : Path(v, h, k) => Path(v, h, k)'
  BY <1>1, WireKept
<1>3. ASSUME NEW v \in Uids
      PROVE  TaskOf(v)' /\ ResponseOf(v)' /\ \E h, k \in Nat : Path(v, h, k)' /\ Holds(v, h)'
  <2>1. TaskOf(v) /\ ResponseOf(v)
    BY DEF FrontendInv
  <2>2. PICK h \in Nat, k \in Nat : Path(v, h, k) /\ Holds(v, h)
    BY DEF FrontendInv
  <2>3. CASE v = u
    BY <1>2, <2>2, <2>3
  <2>4. CASE v # u
    <3>1. TaskOf(v)' /\ ResponseOf(v)' /\ Holds(v, h)'
      BY <2>1, <2>2, <2>4, UnmovedKept
    <3> QED
      BY <1>2, <2>2, <3>1
  <2> QED
    BY <2>3, <2>4
<1> QED
  BY <1>2, <1>3 DEF FrontendInv

\* What is of a request that is in the model.
LEMMA OfUid ==
  ASSUME FrontendInv, NEW u \in Uids
  PROVE  /\ TypeInv /\ SentInv /\ TaskOf(u) /\ ResponseOf(u)
         /\ u \in Nat /\ pc[u] \in Places /\ acks[u] \in Seq(Chunks) /\ got[u] \in Seq(Chunks)
         /\ sent[u] \in Seq(BOOLEAN)
         /\ u \in DOMAIN ack_map => ack_map[u] \in Seq(Chunks) /\ event_map[u] \in BOOLEAN
<1>1. u \in Nat
  BY UidsAssumption, FS_CardinalityType
<1> QED
  BY <1>1 DEF FrontendInv, TypeInv, ServiceTypeOK

----------------------------------------------------------------------------
(* Steps of the tasks *)

LEMMA NewUserInv ==
  ASSUME FrontendInv, NewUser
  PROVE  FrontendInv'
<1>1. PICK u \in Uids : u = uid_counter
  BY DEF NewUser
<1>2. /\ TypeInv /\ SentInv /\ TaskOf(u) /\ ResponseOf(u) /\ u \in Nat
  BY OfUid
<1>3. pc[u] = "new" /\ acks[u] = <<>> /\ got[u] = <<>> /\ u \notin DOMAIN ack_map
      /\ aborter[u] = "none" /\ status[u] = "new"
  <2>1. pc[u] = "new"
    BY <1>1, <1>2 DEF TaskOf
  <2> QED
    BY <1>2, <2>1 DEF TaskOf, TypeInv
<1>4. /\ UNCHANGED <<status, sent, acks, got, gone, aborter, inbound, outbound>>
      /\ uid_counter' = u + 1 /\ pc' = [pc EXCEPT ![u] = "sending"]
      /\ streaming' \in {streaming, streaming \cup {u}}
      /\ ack_map' = [v \in DOMAIN ack_map \cup {u} |-> IF v = u THEN <<>> ELSE ack_map[v]]
      /\ event_map' = [v \in DOMAIN event_map \cup {u} |-> v # u /\ event_map[v]]
  BY <1>1 DEF NewUser, service
<1>5. DOMAIN event_map = DOMAIN ack_map /\ \A v \in DOMAIN ack_map : event_map[v] \in BOOLEAN
  BY <1>2 DEF TypeInv
<1>6. pc'[u] = "sending" /\ \A v \in Uids \ {u} : pc'[v] = pc[v]
  BY <1>2, <1>4 DEF TypeInv
<1>7. UNCHANGED <<service, outbound>>
  BY <1>4 DEF service
<1>8. TypeInv'
  <2>1. pc' \in [Uids -> Places] /\ uid_counter' \in Nat
    BY <1>2, <1>4 DEF TypeInv, Places
  <2>2. ack_map' \in [DOMAIN ack_map' -> Seq(Chunks)]
    <3>1. \A v \in DOMAIN ack_map : ack_map[v] \in Seq(Chunks)
      BY <1>2 DEF TypeInv
    <3>2. <<>> \in Seq(Chunks)
      OBVIOUS
    <3> QED
      BY <1>4, <3>1, <3>2
  <2>3. event_map' \in [DOMAIN ack_map' -> BOOLEAN]
    BY <1>4, <1>5
  <2>4. gone' \subseteq streaming'
    BY <1>2, <1>4 DEF TypeInv
  <2> QED
    BY <1>2, <1>4, <2>1, <2>2, <2>3, <2>4 DEF TypeInv, inbound, outbound
<1>9. SentInv'
  BY <1>2, <1>3, <1>4, <1>6, SentKept
<1>10. \A v \in Uids \ {u} : Unmoved(v)
  <2>1. ASSUME NEW v \in Uids \ {u} PROVE Unmoved(v)
    <3>1. v \in Nat
      BY OfUid
    <3>2. v >= uid_counter' <=> v >= uid_counter
      BY <1>1, <1>2, <1>4, <3>1
    <3>3. v \in DOMAIN ack_map => ack_map'[v] = ack_map[v] /\ event_map'[v] = event_map[v]
      <4>1. SUFFICES ASSUME v \in DOMAIN ack_map
                     PROVE  ack_map'[v] = ack_map[v] /\ event_map'[v] = event_map[v]
        OBVIOUS
      <4>2. ack_map'[v] = ack_map[v] /\ event_map'[v] = (v # u /\ event_map[v])
        BY <1>4, <1>5, <4>1
      <4>3. (v # u /\ event_map[v]) = event_map[v]
        BY <1>5, <4>1
      <4> QED
        BY <4>2, <4>3
    <3>4. (v \in DOMAIN ack_map' <=> v \in DOMAIN ack_map) /\ (v \in streaming' <=> v \in streaming)
      BY <1>4
    <3> QED
      BY <1>4, <1>6, <3>2, <3>3, <3>4 DEF Unmoved
  <2> QED
    BY <2>1
<1>11. u \in DOMAIN ack_map' /\ ack_map'[u] = <<>> /\ event_map'[u] = FALSE
  BY <1>4
<1>12. TaskOf(u)'
  <2>1. ~(u >= uid_counter')
    BY <1>2, <1>4
  <2> QED
    BY <1>3, <1>4, <1>6, <1>11, <2>1 DEF TaskOf
<1>13. ResponseOf(u)'
  BY <1>2, <1>3, <1>4, <1>6 DEF ResponseOf
<1>14. ASSUME NEW h \in Nat, Holds(u, h) PROVE Holds(u, h)'
  BY <1>3, <1>6, <1>11, <1>14 DEF Holds, Running
<1> QED
  BY <1>7, <1>8, <1>9, <1>10, <1>12, <1>13, <1>14, OneTask

LEMMA SendRequestInv ==
  ASSUME FrontendInv, NEW u \in Uids, SendRequest(u)
  PROVE  FrontendInv'
<1>1. /\ TypeInv /\ SentInv /\ TaskOf(u) /\ ResponseOf(u) /\ u \in Nat
  BY OfUid
<1>2. PICK w \in Workers : to_tokenizer' = [to_tokenizer EXCEPT ![w] = Append(@, Request(u))]
  BY DEF SendRequest
<1>3. /\ pc[u] = "sending"
      /\ pc' = [pc EXCEPT ![u] = IF u \in streaming THEN "writing" ELSE "waiting"]
      /\ UNCHANGED <<status, sent, uid_counter, ack_map, event_map, streaming, acks, got, gone, aborter,
                     to_backend, to_detokenizer, to_frontend, decode_map>>
  BY DEF SendRequest, service, maps, outbound
<1>4. /\ pc'[u] = IF u \in streaming THEN "writing" ELSE "waiting"
      /\ \A v \in Uids \ {u} : pc'[v] = pc[v]
  BY <1>1, <1>3 DEF TypeInv
<1>5. Request(u) \in Messages /\ Request(u).uid = u
  BY DEF Request, Messages
<1>6. UNCHANGED <<service, outbound>>
  BY <1>3 DEF service, outbound
<1>7. SentInv' /\ to_tokenizer' \in [Workers -> Seq(Messages)]
  <2>1. Sent(Request(u))'
    BY <1>4, <1>5 DEF Sent, Request
  <2> QED
    BY <1>1, <1>2, <1>3, <1>4, <1>5, <2>1, SendKept
<1>8. TypeInv'
  <2>1. pc' \in [Uids -> Places]
    BY <1>1, <1>3 DEF TypeInv, Places
  <2> QED
    BY <1>1, <1>3, <1>7, <2>1 DEF TypeInv
<1>9. \A v \in Uids \ {u} : Unmoved(v)
  BY <1>3, <1>4 DEF Unmoved
<1>10. TaskOf(u)'
  BY <1>1, <1>3, <1>4 DEF TaskOf
<1>11. ResponseOf(u)'
  BY <1>1, <1>3, <1>4 DEF ResponseOf
<1>12. ASSUME NEW h \in Nat, Holds(u, h) PROVE Holds(u, h)'
  <2>1. got[u] = <<>> /\ acks[u] = <<>> /\ ack_map[u] = <<>> /\ h = 0
    BY <1>1, <1>3, <1>12 DEF TaskOf, Holds
  <2>2. Texted(<<>> \o <<>>) = <<>>
    BY DEF Texted
  <2>3. Len(Texted((got[u] \o acks[u]))') = 0 /\ Chain(<<>>, sent[u], 0)
    BY <1>3, <2>1, <2>2 DEF Chain
  <2> QED
    BY <1>3, <1>4, <2>1, <2>2, <2>3 DEF Holds
<1> QED
  BY <1>6, <1>7, <1>8, <1>9, <1>10, <1>11, <1>12, OneTask

LEMMA CheckInv ==
  ASSUME FrontendInv, NEW u \in Uids, Check(u)
  PROVE  FrontendInv'
<1>1. /\ TypeInv /\ SentInv /\ TaskOf(u) /\ ResponseOf(u)
  BY OfUid
<1>2. /\ pc[u] = "checking" /\ pc' = [pc EXCEPT ![u] = "writing"]
      /\ UNCHANGED <<status, sent, uid_counter, ack_map, event_map, streaming, acks, got, gone, aborter,
                     to_tokenizer, to_backend, to_detokenizer, to_frontend, decode_map>>
  BY DEF Check, service, maps, inbound, outbound
<1>3. pc'[u] = "writing" /\ \A v \in Uids \ {u} : pc'[v] = pc[v]
  BY <1>1, <1>2 DEF TypeInv
<1>4. UNCHANGED <<service, outbound>> /\ UNCHANGED inbound
  BY <1>2 DEF service, outbound, inbound
<1>5. TypeInv'
  <2>1. pc' \in [Uids -> Places]
    BY <1>1, <1>2 DEF TypeInv, Places
  <2> QED
    BY <1>1, <1>2, <2>1 DEF TypeInv
<1>6. SentInv'
  BY <1>1, <1>3, <1>4, SentKept
<1>7. \A v \in Uids \ {u} : Unmoved(v)
  BY <1>2, <1>3 DEF Unmoved
<1>8. TaskOf(u)'
  BY <1>1, <1>2, <1>3 DEF TaskOf
<1>9. ResponseOf(u)'
  BY <1>1, <1>2, <1>3 DEF ResponseOf, Complete
<1>10. ASSUME NEW h \in Nat, Holds(u, h) PROVE Holds(u, h)'
  BY <1>2, <1>3, <1>10 DEF Holds, Running
<1> QED
  BY <1>4, <1>5, <1>6, <1>7, <1>8, <1>9, <1>10, OneTask

LEMMA DisconnectInv ==
  ASSUME FrontendInv, NEW u \in Uids, Disconnect(u)
  PROVE  FrontendInv'
<1>1. /\ TypeInv /\ SentInv /\ TaskOf(u) /\ ResponseOf(u)
  BY OfUid
<1>2. UNCHANGED <<status, sent, uid_counter, ack_map, event_map, pc, streaming, acks, got, aborter,
                  to_tokenizer, to_backend, to_detokenizer, to_frontend, decode_map>>
  BY DEF Disconnect, service, maps, task, inbound, outbound
<1>3. UNCHANGED <<service, outbound>> /\ UNCHANGED inbound
  BY <1>2 DEF service, outbound, inbound
<1>4. TypeInv'
  BY <1>1, <1>2 DEF TypeInv, Disconnect
<1>5. SentInv'
  BY <1>1, <1>2, <1>3, SentKept
<1>6. \A v \in Uids : Unmoved(v)
  BY <1>2 DEF Unmoved
<1>7. TaskOf(u)' /\ ResponseOf(u)' /\ \A h : Holds(u, h) => Holds(u, h)'
  BY <1>1, <1>6, UnmovedKept
<1> QED
  BY <1>3, <1>4, <1>5, <1>6, <1>7, OneTask

\* The task goes, with what it had in hand.
LEMMA CancelInv ==
  ASSUME FrontendInv, NEW u \in Uids, Cancel(u) \/ Abandon(u)
  PROVE  FrontendInv'
<1>1. /\ TypeInv /\ SentInv /\ TaskOf(u) /\ ResponseOf(u)
      /\ acks[u] \in Seq(Chunks) /\ got[u] \in Seq(Chunks) /\ sent[u] \in Seq(BOOLEAN)
  BY OfUid
<1>2. /\ pc[u] \in {"waiting", "checking", "writing"} /\ acks' = [acks EXCEPT ![u] = <<>>]
      /\ UNCHANGED <<status, sent, uid_counter, ack_map, event_map, streaming, got, gone,
                     to_tokenizer, to_backend, to_detokenizer, to_frontend, decode_map>>
      /\ \/ pc' = [pc EXCEPT ![u] = "cancelled"] /\ aborter' = [aborter EXCEPT ![u] = "sleeping"]
         \/ pc' = [pc EXCEPT ![u] = "abandoned"] /\ aborter' = aborter
  BY DEF Cancel, Abandon, service, maps, inbound, outbound
<1>3. /\ \A v \in Uids \ {u} : pc'[v] = pc[v] /\ acks'[v] = acks[v] /\ aborter'[v] = aborter[v]
      /\ acks'[u] = <<>> /\ pc'[u] \in {"cancelled", "abandoned"}
      /\ aborter'[u] # "none" => pc'[u] = "cancelled" \/ aborter'[u] = aborter[u]
  BY <1>1, <1>2 DEF TypeInv
<1>4. UNCHANGED <<service, outbound>> /\ UNCHANGED inbound
  BY <1>2 DEF service, outbound, inbound
<1>5. TypeInv'
  <2>1. pc' \in [Uids -> Places] /\ aborter' \in [Uids -> {"none", "sleeping", "sending", "sent"}]
    BY <1>1, <1>2 DEF TypeInv, Places
  <2>2. acks' \in [Uids -> Seq(Chunks)]
    BY <1>1, <1>2 DEF TypeInv
  <2> QED
    BY <1>1, <1>2, <2>1, <2>2 DEF TypeInv
<1>6. SentInv'
  BY <1>1, <1>3, <1>4, SentKept
<1>7. \A v \in Uids \ {u} : Unmoved(v)
  BY <1>2, <1>3 DEF Unmoved
<1>8. u \in streaming
  BY <1>1 DEF TypeInv, Cancel, Abandon
<1>9. TaskOf(u)'
  BY <1>1, <1>2, <1>3, <1>8 DEF TaskOf
<1>10. ResponseOf(u)'
  <2>1. Chain(got[u], sent[u], 0)
    BY <1>1, <1>2, ChainParts DEF ResponseOf
  <2>2. got[u] \o <<>> = got[u]
    BY <1>1
  <2> QED
    BY <1>2, <1>3, <2>1, <2>2 DEF ResponseOf
<1>11. ASSUME NEW h \in Nat, Holds(u, h) PROVE Holds(u, h)'
  BY <1>3 DEF Holds, Running
<1> QED
  BY <1>4, <1>5, <1>6, <1>7, <1>9, <1>10, <1>11, OneTask

LEMMA ForgetInv ==
  ASSUME FrontendInv, NEW u \in Uids, Forget(u)
  PROVE  FrontendInv'
<1>1. /\ TypeInv /\ SentInv /\ TaskOf(u) /\ ResponseOf(u)
  BY OfUid
<1>2. /\ aborter[u] = "sleeping" /\ aborter' = [aborter EXCEPT ![u] = "sending"]
      /\ ack_map' = [v \in DOMAIN ack_map \ {u} |-> ack_map[v]]
      /\ event_map' = [v \in DOMAIN event_map \ {u} |-> event_map[v]]
      /\ UNCHANGED <<status, sent, uid_counter, pc, streaming, acks, got, gone,
                     to_tokenizer, to_backend, to_detokenizer, to_frontend, decode_map>>
  BY DEF Forget, Restrict, service, task, inbound, outbound
<1>3. DOMAIN event_map = DOMAIN ack_map
  BY <1>1 DEF TypeInv
<1>4. UNCHANGED <<service, outbound>> /\ UNCHANGED inbound
  BY <1>2 DEF service, outbound, inbound
<1>5. TypeInv'
  <2>1. aborter' \in [Uids -> {"none", "sleeping", "sending", "sent"}]
    BY <1>1, <1>2 DEF TypeInv
  <2>2. ack_map' \in [DOMAIN ack_map' -> Seq(Chunks)] /\ event_map' \in [DOMAIN ack_map' -> BOOLEAN]
    BY <1>1, <1>2, <1>3 DEF TypeInv
  <2> QED
    BY <1>1, <1>2, <2>1, <2>2 DEF TypeInv
<1>6. SentInv'
  BY <1>1, <1>2, <1>4, SentKept
<1>7. \A v \in Uids \ {u} : Unmoved(v)
  BY <1>1, <1>2, <1>3 DEF Unmoved, TypeInv
<1>8. pc[u] = "cancelled"
  BY <1>1, <1>2 DEF TaskOf
<1>9. TaskOf(u)'
  BY <1>1, <1>2, <1>8 DEF TaskOf
<1>10. ResponseOf(u)'
  BY <1>1, <1>2 DEF ResponseOf, Complete
<1>11. ASSUME NEW h \in Nat, Holds(u, h) PROVE Holds(u, h)'
  BY <1>2, <1>8 DEF Holds, Running
<1> QED
  BY <1>4, <1>5, <1>6, <1>7, <1>9, <1>10, <1>11, OneTask

LEMMA SendAbortInv ==
  ASSUME FrontendInv, NEW u \in Uids, SendAbort(u)
  PROVE  FrontendInv'
<1>1. /\ TypeInv /\ SentInv /\ TaskOf(u) /\ ResponseOf(u)
  BY OfUid
<1>2. PICK w \in Workers : to_tokenizer' = [to_tokenizer EXCEPT ![w] = Append(@, Abort(u))]
  BY DEF SendAbort
<1>3. /\ aborter[u] = "sending" /\ aborter' = [aborter EXCEPT ![u] = "sent"]
      /\ UNCHANGED <<status, sent, uid_counter, ack_map, event_map, pc, streaming, acks, got, gone,
                     to_backend, to_detokenizer, to_frontend, decode_map>>
  BY DEF SendAbort, service, maps, task, outbound
<1>4. pc[u] = "cancelled"
  BY <1>1, <1>3 DEF TaskOf
<1>5. Abort(u) \in Messages
  BY DEF Abort, Messages
<1>6. UNCHANGED <<service, outbound>>
  BY <1>3 DEF service, outbound
<1>7. SentInv' /\ to_tokenizer' \in [Workers -> Seq(Messages)]
  <2>1. Sent(Abort(u))'
    BY <1>3, <1>4 DEF Sent, Abort
  <2> QED
    BY <1>1, <1>2, <1>3, <1>5, <2>1, SendKept
<1>8. TypeInv'
  <2>1. aborter' \in [Uids -> {"none", "sleeping", "sending", "sent"}]
    BY <1>1, <1>3 DEF TypeInv
  <2> QED
    BY <1>1, <1>3, <1>7, <2>1 DEF TypeInv
<1>9. \A v \in Uids \ {u} : Unmoved(v)
  BY <1>1, <1>3 DEF Unmoved, TypeInv
<1>10. TaskOf(u)'
  BY <1>1, <1>3, <1>4 DEF TaskOf
<1>11. ResponseOf(u)'
  BY <1>1, <1>3 DEF ResponseOf, Complete
<1>12. ASSUME NEW h \in Nat, Holds(u, h) PROVE Holds(u, h)'
  BY <1>3, <1>4, <1>12 DEF Holds, Running
<1> QED
  BY <1>6, <1>7, <1>8, <1>9, <1>10, <1>11, <1>12, OneTask

\* What a running task has got and has in hand is text, while its end is not in hand.
LEMMA InHand ==
  ASSUME FrontendInv, NEW u \in Uids, Running(u), acks[u] # <<DoneChunk>>, NEW h \in Nat, Holds(u, h)
  PROVE  /\ Chain(got[u] \o acks[u], sent[u], 0) /\ Texted(got[u] \o acks[u]) = got[u] \o acks[u]
         /\ Chain(got[u], sent[u], 0)
         /\ h = Len(got[u]) + Len(acks[u]) + Len(ack_map[u])
         /\ Chain(ack_map[u], sent[u], Len(got[u]) + Len(acks[u]))
<1>1. TaskOf(u) /\ ResponseOf(u) /\ acks[u] \in Seq(Chunks) /\ got[u] \in Seq(Chunks) /\ sent[u] \in Seq(BOOLEAN)
  BY OfUid
<1>2. pc[u] # "ended"
  BY DEF Running
<1>3. Chain(got[u] \o acks[u], sent[u], 0)
  BY <1>1, <1>2 DEF ResponseOf
<1>4. got[u] \o acks[u] \in Seq(Chunks) /\ Len(got[u] \o acks[u]) = Len(got[u]) + Len(acks[u])
  BY <1>1
<1>5. Texted(got[u] \o acks[u]) = got[u] \o acks[u]
  BY <1>1, <1>3, <1>4, TextedChain
<1>6. Chain(got[u], sent[u], 0)
  BY <1>1, <1>3, ChainParts
<1> QED
  BY <1>3, <1>4, <1>5, <1>6 DEF Holds

LEMMA TakeAcksInv ==
  ASSUME FrontendInv, NEW u \in Uids, TakeAcks(u)
  PROVE  FrontendInv'
<1>1. /\ TypeInv /\ SentInv /\ TaskOf(u) /\ ResponseOf(u)
      /\ acks[u] \in Seq(Chunks) /\ got[u] \in Seq(Chunks) /\ sent[u] \in Seq(BOOLEAN)
  BY OfUid
<1>2. /\ u \in streaming /\ pc[u] = "waiting" /\ event_map[u]
      /\ event_map' = [event_map EXCEPT ![u] = FALSE] /\ ack_map' = [ack_map EXCEPT ![u] = <<>>]
      /\ acks' = [acks EXCEPT ![u] = ack_map[u]] /\ pc' = [pc EXCEPT ![u] = "checking"]
      /\ UNCHANGED <<status, sent, uid_counter, streaming, got, gone, aborter,
                     to_tokenizer, to_backend, to_detokenizer, to_frontend, decode_map>>
  BY DEF TakeAcks, WakeUp, service, inbound, outbound
<1>3. u \in DOMAIN ack_map /\ ack_map[u] \in Seq(Chunks) /\ DOMAIN event_map = DOMAIN ack_map /\ acks[u] = <<>>
  BY <1>1, <1>2, OfUid DEF TaskOf, TypeInv
<1>4. /\ DOMAIN ack_map' = DOMAIN ack_map /\ ack_map'[u] = <<>> /\ ~event_map'[u]
      /\ acks'[u] = ack_map[u] /\ pc'[u] = "checking"
      /\ \A v \in Uids \ {u} : pc'[v] = pc[v] /\ acks'[v] = acks[v]
      /\ \A v \in DOMAIN ack_map \ {u} : ack_map'[v] = ack_map[v] /\ event_map'[v] = event_map[v]
  BY <1>1, <1>2, <1>3 DEF TypeInv
<1>5. UNCHANGED <<service, outbound>> /\ UNCHANGED inbound
  BY <1>2 DEF service, outbound, inbound
<1>6. TypeInv'
  <2>1. pc' \in [Uids -> Places] /\ acks' \in [Uids -> Seq(Chunks)]
    BY <1>1, <1>2, <1>3 DEF TypeInv, Places
  <2>2. ack_map' \in [DOMAIN ack_map' -> Seq(Chunks)]
    <3>1. <<>> \in Seq(Chunks)
      OBVIOUS
    <3> QED
      BY <1>1, <1>2, <3>1 DEF TypeInv
  <2>3. event_map' \in [DOMAIN ack_map' -> BOOLEAN]
    BY <1>1, <1>2 DEF TypeInv
  <2> QED
    BY <1>1, <1>2, <2>1, <2>2, <2>3 DEF TypeInv
<1>7. SentInv'
  BY <1>1, <1>2, <1>4, <1>5, SentKept
<1>8. \A v \in Uids \ {u} : Unmoved(v)
  BY <1>2, <1>4 DEF Unmoved
<1>9. TaskOf(u)'
  BY <1>1, <1>2, <1>3, <1>4 DEF TaskOf
<1>10. \A h \in Nat : Holds(u, h) =>
         Chain(got[u], sent[u], 0) /\ Chain(ack_map[u], sent[u], Len(got[u])) /\ h = Len(got[u]) + Len(ack_map[u])
  <2>1. Running(u) /\ acks[u] # <<DoneChunk>> /\ Len(acks[u]) = 0
    BY <1>2, <1>3 DEF Running
  <2>2. ASSUME NEW h \in Nat, Holds(u, h)
        PROVE  /\ Chain(got[u], sent[u], 0) /\ Chain(ack_map[u], sent[u], Len(got[u]) + Len(acks[u]))
               /\ h = Len(got[u]) + Len(acks[u]) + Len(ack_map[u])
    BY <2>1, <2>2, InHand
  <2>3. Len(got[u]) \in Nat /\ Len(got[u]) + Len(acks[u]) = Len(got[u])
    BY <1>1, <2>1
  <2> QED
    BY <2>2, <2>3
<1>11. Chain(got[u] \o ack_map[u], sent[u], 0)
  <2>1. \E h \in Nat : Holds(u, h)
    BY DEF FrontendInv
  <2>2. Chain(got[u], sent[u], 0) /\ Chain(ack_map[u], sent[u], Len(got[u]))
    BY <1>10, <2>1
  <2>3. 0 + Len(got[u]) = Len(got[u])
    BY <1>1
  <2> QED
    BY <1>1, <1>3, <2>2, <2>3, ChainParts
<1>12. ResponseOf(u)'
  BY <1>2, <1>4, <1>11 DEF ResponseOf
<1>13. ASSUME NEW h \in Nat, Holds(u, h) PROVE Holds(u, h)'
  <2>1. PICK s : s = got[u] \o ack_map[u]
    OBVIOUS
  <2>2. s \in Seq(Chunks) /\ Len(s) = h /\ Texted(s) = s
    <3>1. s \in Seq(Chunks) /\ Len(s) = h
      BY <1>1, <1>3, <1>10, <1>13, <2>1
    <3> QED
      BY <1>1, <1>11, <2>1, <3>1, TextedChain
  <2>3. (got[u] \o acks[u])' = s
    BY <1>2, <1>4, <2>1
  <2>4. Chain(<<>>, sent[u], h) /\ h + Len(<<>>) = h
    BY DEF Chain
  <2>5. Len(Texted((got[u] \o acks[u]))') = h
    BY <2>2, <2>3
  <2>6. pc'[u] = "checking" /\ ack_map'[u] = <<>> /\ sent'[u] = sent[u]
    BY <1>2, <1>4
  <2> QED
    BY <2>4, <2>5, <2>6 DEF Holds, Running
<1> QED
  BY <1>5, <1>6, <1>7, <1>8, <1>9, <1>12, <1>13, OneTask

\* The finished reply of a list, if there is one.
LEMMA FirstFinishedFound ==
  ASSUME NEW s \in Seq(Chunks)
  PROVE  \/ FirstFinished(s) = 0
         \/ FirstFinished(s) \in 1 .. Len(s) /\ s[FirstFinished(s)].finished
<1> DEFINE I == {i \in 1 .. Len(s) : s[i].finished}
<1>1. FirstFinished(s) = IF I # {} THEN Min(I) ELSE 0
  BY DEF FirstFinished, SelectInSeq
<1>2. ASSUME I # {} PROVE Min(I) \in I
  <2>1. I \subseteq Nat
    OBVIOUS
  <2> HIDE DEF I
  <2>2. \E x \in I : \A y \in I : x <= y
    BY <1>2, <2>1, LeastNatural
  <2> QED
    BY <2>2 DEF Min
<1> QED
  BY <1>1, <1>2

LEMMA CollectInv ==
  ASSUME FrontendInv, NEW u \in Uids, Collect(u)
  PROVE  FrontendInv'
<1>1. /\ TypeInv /\ SentInv /\ TaskOf(u) /\ ResponseOf(u) /\ StreamsWellFormed /\ ServiceTypeOK
      /\ acks[u] \in Seq(Chunks) /\ got[u] \in Seq(Chunks) /\ sent[u] \in Seq(BOOLEAN)
  BY OfUid DEF FrontendInv
<1>2. /\ u \notin streaming /\ pc[u] = "waiting" /\ event_map[u]
      /\ event_map' = [event_map EXCEPT ![u] = FALSE] /\ ack_map' = [ack_map EXCEPT ![u] = <<>>]
      /\ UNCHANGED <<status, sent, uid_counter, streaming, acks, gone, aborter,
                     to_tokenizer, to_backend, to_detokenizer, to_frontend, decode_map>>
  BY DEF Collect, WakeUp, service, inbound, outbound
<1>3. u \in DOMAIN ack_map /\ ack_map[u] \in Seq(Chunks) /\ DOMAIN event_map = DOMAIN ack_map /\ acks[u] = <<>>
  BY <1>1, <1>2, OfUid DEF TaskOf, TypeInv
<1>4. PICK h \in Nat : Holds(u, h)
  BY DEF FrontendInv
<1>5. PICK l \in Nat, m \in Nat : l = Len(got[u]) /\ m = Len(ack_map[u])
  BY <1>1, <1>3
<1>6. Chain(got[u], sent[u], 0) /\ Chain(ack_map[u], sent[u], l)
  <2>1. Running(u) /\ acks[u] # <<DoneChunk>> /\ Len(acks[u]) = 0
    BY <1>2, <1>3 DEF Running
  <2>2. Chain(got[u], sent[u], 0) /\ Chain(ack_map[u], sent[u], Len(got[u]) + Len(acks[u]))
    BY <1>4, <2>1, InHand
  <2>3. Len(got[u]) + Len(acks[u]) = l
    BY <1>5, <2>1
  <2> QED
    BY <2>2, <2>3
<1>7. PICK s : s = got[u] \o ack_map[u]
  OBVIOUS
<1>8. s \in Seq(Chunks) /\ Len(s) = l + m /\ Chain(s, sent[u], 0) /\ Texted(s) = s
  <2>1. s \in Seq(Chunks) /\ Len(s) = l + m
    BY <1>1, <1>3, <1>5, <1>7
  <2>2. Chain(ack_map[u], sent[u], 0 + Len(got[u]))
    <3>1. 0 + Len(got[u]) = l
      BY <1>5
    <3> QED
      BY <1>6, <3>1
  <2>3. Chain(s, sent[u], 0)
    BY <1>1, <1>3, <1>6, <1>7, <2>2, ChainParts
  <2> QED
    BY <1>1, <2>1, <2>3, TextedChain
<1>9. \/ got' = [got EXCEPT ![u] = @ \o ack_map[u]] /\ pc' = [pc EXCEPT ![u] = "waiting"]
      \/ /\ got' = [got EXCEPT ![u] = @ \o ack_map[u]] /\ pc' = [pc EXCEPT ![u] = "ended"]
         /\ Complete(u, l + m)
  <2>1. PICK n : n = FirstFinished(ack_map[u])
    OBVIOUS
  <2>2. /\ got' = [got EXCEPT ![u] = @ \o (IF n = 0 THEN ack_map[u] ELSE SubSeq(ack_map[u], 1, n))]
        /\ pc' = [pc EXCEPT ![u] = IF n = 0 THEN "waiting" ELSE "ended"]
    BY <2>1 DEF Collect
  <2>3. CASE n # 0
    <3>1. n \in 1 .. m /\ ack_map[u][n].finished
      BY <1>3, <1>5, <2>1, <2>3, FirstFinishedFound
    <3>2. n \in DOMAIN ack_map[u]
      BY <1>3, <1>5, <3>1
    <3>3. ack_map[u][n] = Chunk(sent[u], l + n) /\ l + n <= Len(sent[u]) /\ l + n >= 1
      BY <1>6, <3>1, <3>2 DEF Chain
    <3>4. l + n \in DOMAIN sent[u] /\ sent[u][l + n]
      BY <1>1, <3>1, <3>3 DEF Chunk
    <3>5. Complete(u, l + n)
      BY <1>1, <3>4, FlagIsLast
    <3>6. l + m <= Len(sent[u])
      <4>1. m \in DOMAIN ack_map[u]
        BY <1>3, <1>5, <3>1
      <4> QED
        BY <1>6, <4>1 DEF Chain
    <3>7. n = m
      BY <1>1, <3>1, <3>5, <3>6 DEF Complete
    <3>8. SubSeq(ack_map[u], 1, n) = ack_map[u]
      BY <1>3, <1>5, <3>7
    <3>9. (IF n = 0 THEN ack_map[u] ELSE SubSeq(ack_map[u], 1, n)) = ack_map[u]
      BY <3>8
    <3> QED
      BY <2>2, <2>3, <3>5, <3>7, <3>9
  <2>4. CASE n = 0
    BY <2>2, <2>4
  <2> QED
    BY <2>3, <2>4
<1>10. /\ DOMAIN ack_map' = DOMAIN ack_map /\ ack_map'[u] = <<>> /\ ~event_map'[u]
       /\ got'[u] = s /\ (pc'[u] = "waiting" \/ (pc'[u] = "ended" /\ Complete(u, l + m)))
       /\ \A v \in Uids \ {u} : pc'[v] = pc[v] /\ got'[v] = got[v]
       /\ \A v \in DOMAIN ack_map \ {u} : ack_map'[v] = ack_map[v] /\ event_map'[v] = event_map[v]
  BY <1>1, <1>2, <1>3, <1>7, <1>9 DEF TypeInv
<1>11. UNCHANGED <<service, outbound>> /\ UNCHANGED inbound
  BY <1>2 DEF service, outbound, inbound
<1>12. TypeInv'
  <2>1. pc' \in [Uids -> Places]
    BY <1>1, <1>9 DEF TypeInv, Places
  <2>2. got' \in [Uids -> Seq(Chunks)]
    <3>1. got' = [got EXCEPT ![u] = s]
      BY <1>7, <1>9
    <3> QED
      BY <1>1, <1>8, <3>1 DEF TypeInv
  <2>3. ack_map' \in [DOMAIN ack_map' -> Seq(Chunks)]
    <3>1. <<>> \in Seq(Chunks)
      OBVIOUS
    <3> QED
      BY <1>1, <1>2, <3>1 DEF TypeInv
  <2>4. event_map' \in [DOMAIN ack_map' -> BOOLEAN]
    BY <1>1, <1>2 DEF TypeInv
  <2> QED
    BY <1>1, <1>2, <2>1, <2>2, <2>3, <2>4 DEF TypeInv
<1>13. SentInv'
  BY <1>1, <1>2, <1>10, <1>11, SentKept
<1>14. \A v \in Uids \ {u} : Unmoved(v)
  BY <1>2, <1>10 DEF Unmoved
<1>15. TaskOf(u)'
  BY <1>1, <1>2, <1>3, <1>10 DEF TaskOf
<1>16. ResponseOf(u)'
  <2>1. s \o <<>> = s
    BY <1>8
  <2>2. acks'[u] = <<>> /\ (got[u] \o acks[u])' = s /\ Len(got[u])' = l + m /\ sent'[u] = sent[u]
    BY <1>2, <1>3, <1>8, <1>10, <2>1
  <2>3. pc'[u] = "ended" => Complete(u, l + m)'
    BY <1>2, <1>10 DEF Complete
  <2> QED
    BY <1>8, <2>2, <2>3 DEF ResponseOf
<1>17. ASSUME NEW g \in Nat, Holds(u, g) PROVE Holds(u, g)'
  <2>1. g = l + m
    <3>1. Running(u) /\ acks[u] # <<DoneChunk>> /\ Len(acks[u]) = 0
      BY <1>2, <1>3 DEF Running
    <3>2. g = Len(got[u]) + Len(acks[u]) + Len(ack_map[u])
      BY <1>17, <3>1, InHand
    <3> QED
      BY <1>5, <3>1, <3>2
  <2>2. Chain(<<>>, sent[u], g) /\ g + Len(<<>>) = g
    BY DEF Chain
  <2>3. s \o <<>> = s
    BY <1>8
  <2>4. Len(Texted((got[u] \o acks[u]))') = g
    BY <1>2, <1>3, <1>8, <1>10, <2>1, <2>3
  <2>5. pc'[u] \in {"waiting", "ended"} /\ ack_map'[u] = <<>> /\ sent'[u] = sent[u]
    BY <1>2, <1>10
  <2> QED
    BY <2>2, <2>4, <2>5 DEF Holds, Running
<1> QED
  BY <1>11, <1>12, <1>13, <1>14, <1>15, <1>16, <1>17, OneTask
\* The first of a sequence is put behind another.
LEMMA MoveHead ==
  ASSUME NEW T, NEW g \in Seq(T), NEW s \in Seq(T), s # <<>>
  PROVE  /\ Head(s) \in T /\ Tail(s) \in Seq(T) /\ s = <<Head(s)>> \o Tail(s) /\ Len(s) = Len(Tail(s)) + 1
         /\ Append(g, Head(s)) \in Seq(T) /\ Append(g, Head(s)) # <<>>
         /\ Len(Append(g, Head(s))) = Len(g) + 1 /\ Append(g, Head(s)) \o Tail(s) = g \o s
<1>0. /\ Head(s) \in T /\ Tail(s) \in Seq(T) /\ Len(Tail(s)) = Len(s) - 1
      /\ \A i \in 1 .. Len(Tail(s)) : Tail(s)[i] = s[i + 1]
  BY HeadTailProperties
<1>a. PICK rest \in Seq(T) : rest = Tail(s)
  BY <1>0
<1>b. PICK c \in T : c = Head(s)
  BY <1>0
<1>c. Head(s) = s[1]
  OBVIOUS
<1>1. /\ c = Head(s) /\ c = s[1] /\ rest = Tail(s) /\ Len(rest) = Len(s) - 1
      /\ \A i \in 1 .. Len(rest) : rest[i] = s[i + 1]
  BY <1>0, <1>a, <1>b, <1>c
<1>2. PICK n \in Nat : n = Len(rest) /\ Len(s) = n + 1
  <2>1. PICK m \in Nat : m = Len(rest)
    OBVIOUS
  <2>2. PICK k \in Nat : k = Len(s)
    OBVIOUS
  <2>3. m = k - 1
    BY <1>1, <2>1, <2>2
  <2> QED
    BY <2>1, <2>2, <2>3
<1>3. s = <<c>> \o rest
  <2>1. <<c>> \in Seq(T) /\ Len(<<c>>) = 1
    OBVIOUS
  <2>2. /\ <<c>> \o rest \in Seq(T) /\ Len(<<c>> \o rest) = 1 + n
        /\ \A i \in 1 .. 1 + n : (<<c>> \o rest)[i] = IF i <= 1 THEN <<c>>[i] ELSE rest[i - 1]
    BY <1>2, <2>1, ConcatProperties
  <2>3. ASSUME NEW i \in 1 .. n + 1 PROVE s[i] = (<<c>> \o rest)[i]
    <3>1. CASE i = 1
      BY <1>1, <2>2, <3>1
    <3>2. CASE i # 1
      <4>1. i - 1 \in 1 .. n /\ (i - 1) + 1 = i /\ ~(i <= 1) /\ i \in 1 .. 1 + n
        BY <3>2
      <4> QED
        BY <1>1, <1>2, <2>2, <4>1
    <3> QED
      BY <3>1, <3>2
  <2>4. Len(s) = Len(<<c>> \o rest)
    BY <1>2, <2>2
  <2> QED
    BY <1>2, <2>2, <2>3, <2>4, SeqEqual
<1>4. Append(g, c) \in Seq(T) /\ Append(g, c) # <<>> /\ Len(Append(g, c)) = Len(g) + 1
  OBVIOUS
<1>5. Append(g, c) \o rest = g \o s
  <2>1. Append(g, c) = g \o <<c>> /\ <<c>> \in Seq(T)
    BY AppendIsConcat
  <2>2. (g \o <<c>>) \o rest = g \o (<<c>> \o rest)
    BY <2>1, ConcatAssociative
  <2> QED
    BY <1>3, <2>1, <2>2
<1> QED
  BY <1>1, <1>2, <1>3, <1>4, <1>5

\* The chunk behind the end is not text.
LEMMA EndInHand ==
  ASSUME NEW s \in Seq(Chunks), NEW flags \in Seq(BOOLEAN)
  PROVE  ~Chain(s \o <<DoneChunk>>, flags, 0)
<1>1. DoneChunk \in Chunks
  BY DEF DoneChunk, Chunks
<1>2. PICK c \in Chunks : c = DoneChunk
  BY <1>1
<1>3. PICK n \in Nat : n = Len(s)
  OBVIOUS
<1>4. n + 1 \in DOMAIN (s \o <<c>>) /\ (s \o <<c>>)[n + 1] = c
  BY <1>3
<1>5. ASSUME Chain(s \o <<c>>, flags, 0) PROVE FALSE
  <2>1. c = Chunk(flags, 0 + (n + 1))
    BY <1>4, <1>5 DEF Chain
  <2>2. 0 + (n + 1) \in Nat \ {0}
    OBVIOUS
  <2> QED
    BY <1>2, <2>1, <2>2, ChunkHasText
<1> QED
  BY <1>2, <1>5

LEMMA WriteInv ==
  ASSUME FrontendInv, NEW u \in Uids, Write(u)
  PROVE  FrontendInv'
<1>1. /\ TypeInv /\ SentInv /\ TaskOf(u) /\ ResponseOf(u) /\ StreamsWellFormed /\ ServiceTypeOK
      /\ acks[u] \in Seq(Chunks) /\ got[u] \in Seq(Chunks) /\ sent[u] \in Seq(BOOLEAN)
  BY OfUid DEF FrontendInv
<1>2. /\ pc[u] = "writing"
      /\ UNCHANGED <<status, sent, uid_counter, ack_map, event_map, streaming, gone, aborter,
                     to_tokenizer, to_backend, to_detokenizer, to_frontend, decode_map>>
  BY DEF Write, service, maps, inbound, outbound
<1>3. u \in DOMAIN ack_map /\ u \in streaming /\ Running(u)
  BY <1>1, <1>2 DEF TaskOf, Running
<1>4. UNCHANGED <<service, outbound>> /\ UNCHANGED inbound
  BY <1>2 DEF service, outbound, inbound
<1>5. PICK h \in Nat : Holds(u, h)
  BY DEF FrontendInv
<1>6. ASSUME NEW place \in {"waiting", "checking", "ended"}, NEW hand \in Seq(Chunks), NEW all \in Seq(Chunks),
             pc' = [pc EXCEPT ![u] = place], acks' = [acks EXCEPT ![u] = hand], got' = [got EXCEPT ![u] = all],
             place = "waiting" => hand = <<>>, ResponseOf(u)',
             place # "ended" => /\ h = Len(Texted(all \o hand)) + Len(ack_map[u])
                                /\ Chain(ack_map[u], sent[u], Len(Texted(all \o hand)))
      PROVE  FrontendInv'
  <2>1. /\ pc'[u] = place /\ acks'[u] = hand /\ got'[u] = all
        /\ \A v \in Uids \ {u} : pc'[v] = pc[v] /\ acks'[v] = acks[v] /\ got'[v] = got[v]
    BY <1>1, <1>6 DEF TypeInv
  <2>2. TypeInv'
    <3>1. pc' \in [Uids -> Places] /\ acks' \in [Uids -> Seq(Chunks)] /\ got' \in [Uids -> Seq(Chunks)]
      BY <1>1, <1>6 DEF TypeInv, Places
    <3> QED
      BY <1>1, <1>2, <3>1 DEF TypeInv
  <2>3. SentInv'
    BY <1>1, <1>2, <1>4, <2>1, SentKept
  <2>4. \A v \in Uids \ {u} : Unmoved(v)
    BY <1>2, <2>1 DEF Unmoved
  <2>5. TaskOf(u)'
    BY <1>1, <1>2, <1>3, <1>6, <2>1 DEF TaskOf
  <2>6. ASSUME NEW g \in Nat, Holds(u, g) PROVE Holds(u, g)'
    <3>1. g = h
      BY <1>3, <1>5, <2>6 DEF Holds
    <3>2. (got[u] \o acks[u])' = all \o hand
      BY <2>1
    <3>3. (ack_map[u])' = ack_map[u] /\ (sent[u])' = sent[u] /\ pc'[u] = place
      BY <1>2, <2>1
    <3>4. Texted((got[u] \o acks[u]))' = Texted(all \o hand)
      BY <3>2 DEF Texted
    <3> QED
      BY <1>6, <3>1, <3>3, <3>4 DEF Holds, Running
  <2> QED
    BY <1>4, <2>2, <2>3, <2>4, <2>5, <1>6, <2>6, OneTask
<1>7. CASE acks[u] = <<>>
  <2>1. pc' = [pc EXCEPT ![u] = "waiting"] /\ acks' = acks /\ got' = got
    BY <1>7 DEF Write
  <2>2. acks' = [acks EXCEPT ![u] = <<>>] /\ got' = [got EXCEPT ![u] = got[u]]
    BY <1>1, <1>7, <2>1 DEF TypeInv
  <2>3. ResponseOf(u)'
    <3>1. pc'[u] = "waiting"
      BY <1>1, <2>1 DEF TypeInv
    <3>2. /\ got'[u] = got[u] /\ acks'[u] = acks[u] /\ sent'[u] = sent[u] /\ pc'[u] # "ended"
          /\ pc[u] # "ended" /\ acks[u] # <<DoneChunk>>
      BY <1>2, <1>7, <2>1, <3>1
    <3> QED
      BY <1>1, <3>2 DEF ResponseOf
  <2>4. h = Len(Texted(got[u] \o <<>>)) + Len(ack_map[u]) /\ Chain(ack_map[u], sent[u], Len(Texted(got[u] \o <<>>)))
    BY <1>3, <1>5, <1>7 DEF Holds
  <2>5. <<>> \in Seq(Chunks)
    OBVIOUS
  <2> QED
    BY <1>1, <1>6, <2>1, <2>2, <2>3, <2>4, <2>5
<1>8. CASE acks[u] # <<>>
  <2>1. PICK c \in Chunks, rest \in Seq(Chunks) :
          /\ c = Head(acks[u]) /\ rest = Tail(acks[u]) /\ acks[u] = <<c>> \o rest /\ Len(acks[u]) = Len(rest) + 1
          /\ Append(got[u], c) \in Seq(Chunks) /\ Append(got[u], c) # <<>>
          /\ Len(Append(got[u], c)) = Len(got[u]) + 1 /\ Append(got[u], c) \o rest = got[u] \o acks[u]
    <3>1. PICK g \in Seq(Chunks), s \in Seq(Chunks) : g = got[u] /\ s = acks[u]
      BY <1>1
    <3>2. s # <<>>
      BY <1>8, <3>1
    <3>3. /\ Head(s) \in Chunks /\ Tail(s) \in Seq(Chunks) /\ s = <<Head(s)>> \o Tail(s) /\ Len(s) = Len(Tail(s)) + 1
          /\ Append(g, Head(s)) \in Seq(Chunks) /\ Append(g, Head(s)) # <<>>
          /\ Len(Append(g, Head(s))) = Len(g) + 1 /\ Append(g, Head(s)) \o Tail(s) = g \o s
      BY <3>2, MoveHead
    <3> QED
      BY <3>1, <3>3, Zenon
  <2>2. /\ got' = [got EXCEPT ![u] = Append(got[u], c)]
        /\ acks' = [acks EXCEPT ![u] = AfterChunk(c, rest)]
        /\ pc' = [pc EXCEPT ![u] = IF c = DoneChunk THEN "ended"
                                   ELSE IF acks'[u] = <<>> THEN "waiting" ELSE "checking"]
    BY <1>1, <1>8, <2>1 DEF Write, TypeInv
  <2>3. PICK all : all = Append(got[u], c)
    OBVIOUS
  <2>4. all \in Seq(Chunks) /\ Len(all) = Len(got[u]) + 1 /\ all \o rest = got[u] \o acks[u] /\ all # <<>>
    BY <2>1, <2>3
  <2>5. CASE acks[u] = <<DoneChunk>>
    <3>1. c = DoneChunk
      BY <2>1, <2>5
    <3>2. /\ pc' = [pc EXCEPT ![u] = "ended"] /\ acks' = [acks EXCEPT ![u] = <<>>]
          /\ got' = [got EXCEPT ![u] = all]
      BY <2>2, <2>3, <3>1 DEF AfterChunk
    <3>3. pc'[u] = "ended" /\ acks'[u] = <<>> /\ got'[u] = all
      BY <1>1, <3>2 DEF TypeInv
    <3>4. Chain(got[u], sent[u], 0) /\ Complete(u, Len(got[u]))
      BY <1>1, <1>2, <2>5, EndInHand DEF ResponseOf
    <3>5. Last(all) = DoneChunk /\ Front(all) = got[u]
      <4>1. SubSeq(all, 1, Len(got[u])) = got[u]
        BY <1>1, <2>3
      <4>2. Front(all) = got[u]
        BY <1>1, <2>4, <4>1 DEF Front
      <4> QED
        BY <1>1, <2>3, <2>4, <3>1, <4>2 DEF Last
    <3>6. Complete(u, Len(all) - 1)'
      BY <1>1, <1>2, <2>4, <3>4 DEF Complete
    <3>7. ResponseOf(u)'
      <4>1. Len(got[u])' - 1 = Len(all) - 1
        BY <3>3
      <4> QED
        BY <1>2, <2>4, <3>3, <3>4, <3>5, <3>6 DEF ResponseOf
    <3>8. <<>> \in Seq(Chunks)
      OBVIOUS
    <3> QED
      BY <1>6, <2>4, <3>2, <3>7, <3>8
  <2>6. CASE acks[u] # <<DoneChunk>>
    <3>1. /\ Chain(got[u] \o acks[u], sent[u], 0) /\ Texted(got[u] \o acks[u]) = got[u] \o acks[u]
          /\ Chain(got[u], sent[u], 0)
          /\ h = Len(got[u]) + Len(acks[u]) + Len(ack_map[u])
          /\ Chain(ack_map[u], sent[u], Len(got[u]) + Len(acks[u]))
      BY <1>3, <1>5, <2>6, InHand
    <3>2. PICK l \in Nat, r \in Nat : l = Len(got[u]) /\ r = Len(rest) /\ Len(acks[u]) = r + 1
      <4>1. Len(got[u]) \in Nat /\ Len(rest) \in Nat
        BY <1>1
      <4> QED
        BY <2>1, <4>1
    <3>3. Chain(all, sent[u], 0) /\ Chain(all \o rest, sent[u], 0)
      <4>1. Chain(all \o rest, sent[u], 0)
        BY <2>4, <3>1
      <4> QED
        BY <1>1, <2>4, <4>1, ChainParts
    <3>4. c = Chunk(sent[u], l + 1) /\ l + 1 <= Len(sent[u])
      <4>1. l + 1 \in DOMAIN all /\ all[l + 1] = c
        BY <1>1, <2>3, <3>2
      <4>2. 0 + (l + 1) <= Len(sent[u]) /\ all[l + 1] = Chunk(sent[u], 0 + (l + 1))
        BY <3>3, <4>1 DEF Chain
      <4>3. 0 + (l + 1) = l + 1
        OBVIOUS
      <4> QED
        BY <4>1, <4>2, <4>3
    <3>5. c # DoneChunk
      <4>1. l + 1 \in Nat \ {0}
        OBVIOUS
      <4> QED
        BY <3>4, <4>1, ChunkHasText
    <3>6. CASE c.finished
      <4>1. Complete(u, l + 1)
        <5>1. l + 1 \in DOMAIN sent[u] /\ sent[u][l + 1]
          BY <1>1, <3>4, <3>6 DEF Chunk
        <5> QED
          BY <1>1, <5>1, FlagIsLast
      <4>2. r = 0
        <5>1. l + r + 1 <= Len(sent[u])
          <6>1. Len(all \o rest) = l + r + 1 /\ all \o rest \in Seq(Chunks)
            <7>1. Len(all) = l + 1
              BY <2>4, <3>2
            <7>2. Len(all \o rest) = Len(all) + Len(rest) /\ all \o rest \in Seq(Chunks)
              BY <2>4, ConcatProperties
            <7> QED
              BY <3>2, <7>1, <7>2
          <6>2. l + r + 1 \in DOMAIN (all \o rest) /\ l + r + 1 = 0 + (l + r + 1)
            BY <6>1
          <6> QED
            BY <3>3, <6>2 DEF Chain
        <5> QED
          BY <1>1, <4>1, <5>1 DEF Complete
      <4>3. acks' = [acks EXCEPT ![u] = <<DoneChunk>>]
        BY <2>2, <3>5, <3>6 DEF AfterChunk
      <4>4. acks'[u] = <<DoneChunk>> /\ <<DoneChunk>> # <<>> /\ <<DoneChunk>> \in Seq(Chunks)
        <5>0. DoneChunk \in Chunks
          BY DEF DoneChunk, Chunks
        <5>1. PICK d \in Chunks : d = DoneChunk
          BY <5>0
        <5>2. <<d>> # <<>> /\ <<d>> \in Seq(Chunks)
          OBVIOUS
        <5> QED
          BY <1>1, <4>3, <5>1, <5>2 DEF TypeInv
      <4>5. pc' = [pc EXCEPT ![u] = "checking"] /\ got' = [got EXCEPT ![u] = all]
        BY <2>2, <2>3, <3>5, <4>4
      <4>6. pc'[u] = "checking" /\ got'[u] = all
        BY <1>1, <4>5 DEF TypeInv
      <4>7. ResponseOf(u)'
        <5>1. Complete(u, l + 1)' /\ Len(all) = l + 1
          BY <1>2, <2>4, <3>2, <4>1 DEF Complete
        <5> QED
          BY <1>2, <3>3, <4>4, <4>6, <5>1 DEF ResponseOf
      <4>8. Texted(all \o <<DoneChunk>>) = all
        BY <2>4, TextedEnd
      <4>9. Len(all) = Len(got[u]) + Len(acks[u])
        BY <2>4, <3>2, <4>2
      <4>10. h = Len(all) + Len(ack_map[u]) /\ Chain(ack_map[u], sent[u], Len(all))
        BY <3>1, <4>9
      <4> QED
        BY <1>6, <2>4, <4>3, <4>4, <4>5, <4>7, <4>8, <4>10
    <3>7. CASE ~c.finished
      <4>1. acks' = [acks EXCEPT ![u] = rest]
        BY <2>2, <3>5, <3>7 DEF AfterChunk
      <4>2. acks'[u] = rest
        BY <1>1, <4>1 DEF TypeInv
      <4>3. PICK place \in {"waiting", "checking"} : pc' = [pc EXCEPT ![u] = place] /\ (place = "waiting" <=> rest = <<>>)
        BY <2>2, <3>5, <4>2
      <4>4. got' = [got EXCEPT ![u] = all]
        BY <2>2, <2>3
      <4>5. pc'[u] = place /\ got'[u] = all
        BY <1>1, <4>3, <4>4 DEF TypeInv
      <4>6. ResponseOf(u)'
        BY <1>2, <3>3, <4>2, <4>5 DEF ResponseOf
      <4>7. Texted(all \o rest) = all \o rest /\ Len(all \o rest) = Len(got[u]) + Len(acks[u])
        BY <1>1, <2>4, <3>1
      <4> QED
        BY <1>6, <2>1, <2>4, <3>1, <4>1, <4>3, <4>4, <4>6, <4>7
    <3> QED
      BY <3>6, <3>7
  <2> QED
    BY <2>5, <2>6
<1> QED
  BY <1>7, <1>8

----------------------------------------------------------------------------
(* Steps of the workers and the scheduler *)

\* A step that belongs to no task.
LEMMA NoTask ==
  ASSUME FrontendInv, UNCHANGED <<service, outbound>>, TypeInv', SentInv', \A v \in Uids : Unmoved(v)
  PROVE  FrontendInv'
<1>1. ServiceTypeOK /\ StreamsWellFormed /\ RepliesInv
  BY DEF FrontendInv
<1>2. /\ ServiceTypeOK' /\ StreamsWellFormed' /\ RepliesInv'
      /\ \A v, h, k : Path(v, h, k) => Path(v, h, k)'
  BY <1>1, WireKept
<1>3. ASSUME NEW v \in Uids
      PROVE  TaskOf(v)' /\ ResponseOf(v)' /\ \E h, k \in Nat : Path(v, h, k)' /\ Holds(v, h)'
  <2>1. TaskOf(v) /\ ResponseOf(v)
    BY DEF FrontendInv
  <2>2. PICK h \in Nat, k \in Nat : Path(v, h, k) /\ Holds(v, h)
    BY DEF FrontendInv
  <2>3. TaskOf(v)' /\ ResponseOf(v)' /\ Holds(v, h)'
    BY <2>1, <2>2, UnmovedKept
  <2> QED
    BY <1>2, <2>2, <2>3
<1> QED
  BY <1>2, <1>3 DEF FrontendInv

\* What a worker takes and forwards was sent to it.
LEMMA SortedElements ==
  ASSUME NEW batch \in Seq(Messages)
  PROVE  /\ Sorted(batch) \in Seq(Messages)
         /\ \A j \in DOMAIN Sorted(batch) : \E i \in DOMAIN batch : Sorted(batch)[j] = batch[i]
<1>1. ASSUME NEW type
      PROVE  /\ OfType(batch, type) \in Seq(Messages)
             /\ \A j \in DOMAIN OfType(batch, type) : \E i \in DOMAIN batch : OfType(batch, type)[j] = batch[i]
  <2>1. PICK S \in SUBSET DOMAIN batch : S = {i \in DOMAIN batch : batch[i].type = type}
    OBVIOUS
  <2>2. OfType(batch, type) = At(batch, S)
    BY <2>1 DEF OfType
  <2>3. At(batch, S) \in Seq(Messages) /\ \A j \in DOMAIN At(batch, S) : \E i \in S : At(batch, S)[j] = batch[i]
    BY AtElements
  <2> QED
    BY <2>2, <2>3
<1>2. PICK r \in Seq(Messages), a \in Seq(Messages) : r = OfType(batch, "request") /\ a = OfType(batch, "abort")
  BY <1>1
<1>3. Sorted(batch) = r \o a
  BY <1>2 DEF Sorted
<1>4. \A j \in DOMAIN (r \o a) : (\E i \in DOMAIN r : (r \o a)[j] = r[i]) \/ (\E i \in DOMAIN a : (r \o a)[j] = a[i])
  <2>1. PICK l \in Nat, m \in Nat : l = Len(r) /\ m = Len(a)
    OBVIOUS
  <2>2. /\ DOMAIN (r \o a) = 1 .. l + m /\ DOMAIN r = 1 .. l /\ DOMAIN a = 1 .. m
        /\ \A j \in 1 .. l + m : (r \o a)[j] = IF j <= l THEN r[j] ELSE a[j - l]
    BY <2>1
  <2>3. ASSUME NEW j \in 1 .. l + m
        PROVE  (\E i \in 1 .. l : (r \o a)[j] = r[i]) \/ (\E i \in 1 .. m : (r \o a)[j] = a[i])
    <3>1. CASE j <= l
      BY <2>2, <3>1
    <3>2. CASE ~(j <= l)
      <4>1. j - l \in 1 .. m
        BY <3>2
      <4> QED
        BY <2>2, <3>2, <4>1
    <3> QED
      BY <3>1, <3>2
  <2> QED
    BY <2>2, <2>3
<1>5. (\A j \in DOMAIN r : \E i \in DOMAIN batch : r[j] = batch[i])
      /\ (\A j \in DOMAIN a : \E i \in DOMAIN batch : a[j] = batch[i])
  BY <1>1, <1>2
<1>6. \A j \in DOMAIN (r \o a) : \E i \in DOMAIN batch : (r \o a)[j] = batch[i]
  <2>1. PICK c : c = r \o a
    OBVIOUS
  <2>2. ASSUME NEW j \in DOMAIN c PROVE \E i \in DOMAIN batch : c[j] = batch[i]
    <3>1. (\E i \in DOMAIN r : c[j] = r[i]) \/ (\E i \in DOMAIN a : c[j] = a[i])
      BY <1>4, <2>1
    <3>2. ASSUME NEW i \in DOMAIN r, c[j] = r[i] PROVE \E k \in DOMAIN batch : c[j] = batch[k]
      BY <1>5, <3>2
    <3>3. ASSUME NEW i \in DOMAIN a, c[j] = a[i] PROVE \E k \in DOMAIN batch : c[j] = batch[k]
      BY <1>5, <3>3
    <3> QED
      BY <3>1, <3>2, <3>3
  <2> QED
    BY <2>1, <2>2
<1>7. r \o a \in Seq(Messages)
  OBVIOUS
<1> QED
  BY <1>3, <1>6, <1>7

LEMMA LeastOfTwo ==
  ASSUME NEW a \in Nat, NEW b \in Nat
  PROVE  Min({a, b}) \in {a, b} /\ Min({a, b}) <= b
<1>1. PICK S : S = {a, b}
  OBVIOUS
<1>2. \E x \in S : \A y \in S : x <= y
  BY <1>1, LeastNatural
<1>3. Min(S) \in S /\ \A y \in S : Min(S) <= y
  BY <1>2 DEF Min
<1> QED
  BY <1>1, <1>3

LEMMA TokenizeInv ==
  ASSUME FrontendInv, NEW w \in Workers, Tokenize(w)
  PROVE  FrontendInv'
<1>1. TypeInv /\ SentInv
  BY DEF FrontendInv
<1>2. PICK q \in Seq(Messages), s \in Seq(Messages) : q = to_tokenizer[w] /\ s = to_backend[w]
  BY <1>1 DEF TypeInv
<1>3. PICK n \in 1 .. Min({LocalBatch, Len(q)}) :
        /\ to_backend' = [to_backend EXCEPT ![w] = s \o Sorted(SubSeq(q, 1, n))]
        /\ to_tokenizer' = [to_tokenizer EXCEPT ![w] = SubSeq(q, n + 1, Len(q))]
  BY <1>1, <1>2 DEF Tokenize, TypeInv
<1>4. PICK l \in Nat : l = Len(q) /\ DOMAIN q = 1 .. l
  OBVIOUS
<1>5. n \in Nat /\ n >= 1 /\ n <= l
  <2>1. Min({LocalBatch, l}) \in Nat /\ Min({LocalBatch, l}) <= l
    BY FrontendAssumption, LeastOfTwo
  <2> QED
    BY <1>3, <1>4, <2>1
<1>6. PICK taken \in Seq(Messages), rest \in Seq(Messages) :
        /\ taken = SubSeq(q, 1, n) /\ rest = SubSeq(q, n + 1, l)
        /\ \A i \in DOMAIN taken : \E j \in DOMAIN q : taken[i] = q[j]
        /\ \A i \in DOMAIN rest : \E j \in DOMAIN q : rest[i] = q[j]
  <2>1. \A i \in 1 .. l : q[i] \in Messages
    BY <1>4
  <2>2. /\ SubSeq(q, 1, n) \in Seq(Messages) /\ DOMAIN SubSeq(q, 1, n) = 1 .. n
        /\ \A i \in 1 .. n : SubSeq(q, 1, n)[i] = q[i]
    BY <1>4, <1>5, <2>1
  <2>3. /\ SubSeq(q, n + 1, l) \in Seq(Messages) /\ DOMAIN SubSeq(q, n + 1, l) = 1 .. l - n
        /\ \A i \in 1 .. l - n : SubSeq(q, n + 1, l)[i] = q[n + i]
    BY <1>4, <1>5, <2>1
  <2>4. \A i \in 1 .. n : i \in 1 .. l
    BY <1>5
  <2>5. \A i \in 1 .. l - n : n + i \in 1 .. l
    BY <1>5
  <2>6. PICK t \in Seq(Messages) : t = SubSeq(q, 1, n) /\ DOMAIN t = 1 .. n /\ \A i \in 1 .. n : t[i] = q[i]
    BY <2>2
  <2>7. PICK r \in Seq(Messages) :
          r = SubSeq(q, n + 1, l) /\ DOMAIN r = 1 .. l - n /\ \A i \in 1 .. l - n : r[i] = q[n + i]
    BY <2>3
  <2>8. (\A i \in DOMAIN t : \E j \in DOMAIN q : t[i] = q[j]) /\ (\A i \in DOMAIN r : \E j \in DOMAIN q : r[i] = q[j])
    BY <1>4, <2>4, <2>5, <2>6, <2>7
  <2> QED
    BY <2>6, <2>7, <2>8
<1>7. PICK sorted \in Seq(Messages) :
        sorted = Sorted(taken) /\ \A j \in DOMAIN sorted : \E i \in DOMAIN taken : sorted[j] = taken[i]
  BY SortedElements
<1>8. /\ to_backend' = [to_backend EXCEPT ![w] = s \o sorted]
      /\ to_tokenizer' = [to_tokenizer EXCEPT ![w] = rest]
      /\ UNCHANGED <<status, sent, uid_counter, ack_map, event_map, pc, streaming, acks, got, gone, aborter,
                     to_detokenizer, to_frontend, decode_map>>
  BY <1>3, <1>4, <1>6, <1>7 DEF Tokenize, service, maps, task, outbound
<1>9. s \o sorted \in Seq(Messages)
  OBVIOUS
<1>10. TypeInv'
  <2>1. to_backend' \in [Workers -> Seq(Messages)] /\ to_tokenizer' \in [Workers -> Seq(Messages)]
    BY <1>1, <1>8, <1>9 DEF TypeInv
  <2> QED
    BY <1>1, <1>8, <2>1 DEF TypeInv
<1>11. SentInv'
  <2>1. \A m : Sent(m)' <=> Sent(m)
    BY <1>8 DEF Sent
  <2>2. /\ \A i \in DOMAIN q : Sent(q[i])
        /\ \A i \in DOMAIN s : Sent(s[i])
    BY <1>1, <1>2 DEF SentInv
  <2>3. \A i \in DOMAIN (s \o sorted) : Sent((s \o sorted)[i])
    <3>1. \A i \in DOMAIN sorted : Sent(sorted[i])
      BY <1>6, <1>7, <2>2
    <3>2. PICK c \in Nat, d \in Nat : c = Len(s) /\ d = Len(sorted)
      OBVIOUS
    <3>3. /\ DOMAIN (s \o sorted) = 1 .. c + d /\ DOMAIN s = 1 .. c /\ DOMAIN sorted = 1 .. d
          /\ \A i \in 1 .. c + d : (s \o sorted)[i] = IF i <= c THEN s[i] ELSE sorted[i - c]
      BY <3>2
    <3>4. \A i \in 1 .. c + d : i \in 1 .. c \/ (~(i <= c) /\ i - c \in 1 .. d)
      OBVIOUS
    <3>5. \A i \in 1 .. c : i <= c
      OBVIOUS
    <3> QED
      BY <2>2, <3>1, <3>3, <3>4, <3>5
  <2>4. \A i \in DOMAIN rest : Sent(rest[i])
    BY <1>6, <2>2
  <2>5. ASSUME NEW x \in Workers
        PROVE  /\ \A i \in DOMAIN to_tokenizer'[x] : Sent(to_tokenizer'[x][i])
               /\ \A i \in DOMAIN to_backend'[x] : Sent(to_backend'[x][i])
    <3>1. CASE x = w
      BY <1>1, <1>8, <2>3, <2>4, <3>1 DEF TypeInv
    <3>2. CASE x # w
      <4>1. to_tokenizer'[x] = to_tokenizer[x] /\ to_backend'[x] = to_backend[x]
        BY <1>1, <1>8, <3>2 DEF TypeInv
      <4> QED
        BY <1>1, <4>1 DEF SentInv
    <3> QED
      BY <3>1, <3>2
  <2>6. \A m : Sent(m) => pc[m.uid] \notin {"new", "sending"} /\ m.uid \in Uids
    BY DEF Sent
  <2> QED
    BY <1>8, <2>5 DEF SentInv, Sent
<1>12. \A v \in Uids : Unmoved(v)
  BY <1>8 DEF Unmoved
<1>13. UNCHANGED <<service, outbound>>
  BY <1>8 DEF service, outbound
<1> QED
  BY <1>10, <1>11, <1>12, <1>13, NoTask

\* What the scheduler does to a request: its stream grows, or it ends.
Served(v) ==
  /\ pc'[v] = pc[v] /\ acks'[v] = acks[v] /\ got'[v] = got[v] /\ aborter'[v] = aborter[v]
  /\ ack_map' = ack_map /\ event_map' = event_map /\ streaming' = streaming
  /\ uid_counter' = uid_counter
  /\ pc[v] \in {"new", "sending"} => status'[v] = status[v]
  /\ status[v] = "done" => status'[v] = "done" /\ sent'[v] = sent[v]
  /\ Extends(sent[v], sent'[v])

\* The text of chunks is a part of them.
LEMMA TextedLength ==
  ASSUME NEW s \in Seq(Chunks), NEW t \in Seq(Chunks)
  PROVE  Len(Texted(s \o t)) \in Nat /\ Texted(s) \in Seq(Chunks)
<1>1. ASSUME NEW c \in Seq(Chunks) PROVE Texted(c) \in Seq(Chunks)
  <2>1. CASE c # <<>>
    <3>1. PICK n \in Nat : n = Len(c) /\ n - 1 \in Nat
      <4>1. PICK m \in Nat : m = Len(c) /\ m # 0
        BY <2>1
      <4>2. m - 1 \in Nat
        BY <4>1
      <4> QED
        BY <4>1, <4>2
    <3>2. SubSeq(c, 1, n - 1) \in Seq(Chunks)
      BY <3>1
    <3> QED
      BY <3>1, <3>2 DEF Texted, Front
  <2>2. CASE c = <<>>
    BY <2>2 DEF Texted
  <2> QED
    BY <2>1, <2>2
<1>2. s \o t \in Seq(Chunks)
  OBVIOUS
<1>3. Texted(s \o t) \in Seq(Chunks)
  BY <1>1, <1>2
<1> QED
  BY <1>1, <1>3

LEMMA ServedKept ==
  ASSUME FrontendInv, NEW v \in Uids, Served(v), sent'[v] \in Seq(BOOLEAN)
  PROVE  TaskOf(v)' /\ ResponseOf(v)' /\ \A h : Holds(v, h) => Holds(v, h)'
<1>1. /\ TaskOf(v) /\ ResponseOf(v) /\ acks[v] \in Seq(Chunks) /\ got[v] \in Seq(Chunks) /\ sent[v] \in Seq(BOOLEAN)
      /\ v \in DOMAIN ack_map => ack_map[v] \in Seq(Chunks)
  BY OfUid
<1>2. TaskOf(v)'
  BY <1>1 DEF Served, TaskOf
<1>3. ASSUME NEW s \in Seq(Chunks), NEW n \in Nat, Chain(s, sent[v], n) PROVE Chain(s, sent'[v], n)
  <2>1. DOMAIN s \subseteq Nat \ {0}
    OBVIOUS
  <2>2. Extends(sent[v], sent'[v])
    BY DEF Served
  <2>3. PICK flags \in Seq(BOOLEAN), more \in Seq(BOOLEAN) : flags = sent[v] /\ more = sent'[v]
    BY <1>1
  <2>4. Extends(flags, more) /\ Chain(s, flags, n)
    BY <1>3, <2>2, <2>3
  <2>5. Chain(s, more, n)
    BY <2>1, <2>4, ChainExtended
  <2> QED
    BY <2>3, <2>5
<1>4. \A n : Complete(v, n) => Complete(v, n)'
  BY DEF Served, Complete
<1>5. ResponseOf(v)'
  <2>1. CASE Chain(got[v] \o acks[v], sent[v], 0) /\ (pc[v] = "ended" => Complete(v, Len(got[v])) /\ acks[v] = <<>>)
    <3>0. got[v] \o acks[v] \in Seq(Chunks)
      BY <1>1
    <3>1. Chain(got[v] \o acks[v], sent'[v], 0)
      BY <1>3, <2>1, <3>0
    <3>2. pc[v] = "ended" => Complete(v, Len(got[v]))' /\ acks[v] = <<>>
      BY <2>1 DEF Served, Complete
    <3> QED
      BY <3>1, <3>2 DEF ResponseOf, Served
  <2>2. CASE /\ acks[v] = <<DoneChunk>> /\ pc[v] \in {"checking", "writing"}
             /\ Chain(got[v], sent[v], 0) /\ Complete(v, Len(got[v]))
    <3>1. Chain(got[v], sent'[v], 0)
      BY <1>1, <1>3, <2>2
    <3>2. Complete(v, Len(got[v]))'
      BY <2>2 DEF Served, Complete
    <3> QED
      BY <2>2, <3>1, <3>2 DEF ResponseOf, Served
  <2>3. CASE /\ acks[v] = <<>> /\ pc[v] = "ended"
             /\ got[v] # <<>> /\ Last(got[v]) = DoneChunk
             /\ Chain(Front(got[v]), sent[v], 0) /\ Complete(v, Len(got[v]) - 1)
    <3>1. Front(got[v]) \in Seq(Chunks)
      <4>1. PICK g \in Seq(Chunks) : g = got[v]
        BY <1>1
      <4>2. PICK n \in Nat : n + 1 = Len(g) /\ n = Len(g) - 1
        <5>1. PICK m \in Nat : m = Len(g) /\ m # 0
          BY <2>3, <4>1
        <5>2. m - 1 \in Nat /\ m - 1 + 1 = m
          BY <5>1
        <5> QED
          BY <5>1, <5>2
      <4>3. SubSeq(g, 1, n) \in Seq(Chunks)
        BY <4>2
      <4> QED
        BY <4>1, <4>2, <4>3 DEF Front
    <3>2. Chain(Front(got[v]), sent'[v], 0)
      BY <1>3, <2>3, <3>1
    <3>3. Complete(v, Len(got[v]) - 1)'
      BY <2>3 DEF Served, Complete
    <3>4. acks'[v] = acks[v] /\ pc'[v] = pc[v] /\ got'[v] = got[v]
      BY DEF Served
    <3> QED
      BY <2>3, <3>2, <3>3, <3>4 DEF ResponseOf
  <2> QED
    BY <1>1, <2>1, <2>2, <2>3 DEF ResponseOf
<1>6. ASSUME NEW h, Holds(v, h) PROVE Holds(v, h)'
  <2>1. Running(v)' <=> Running(v)
    BY DEF Served, Running
  <2>2. ASSUME Running(v)
        PROVE  /\ (Texted(got[v] \o acks[v]))' = Texted(got[v] \o acks[v])
               /\ Chain(ack_map[v], sent'[v], Len(Texted(got[v] \o acks[v])))
    <3>1. (Texted(got[v] \o acks[v]))' = Texted(got[v] \o acks[v])
      BY DEF Served
    <3>2. ack_map[v] \in Seq(Chunks)
      BY <1>1, <2>2 DEF TaskOf, Running
    <3>3. Len(Texted(got[v] \o acks[v])) \in Nat
      BY TextedLength, <1>1
    <3>4. Chain(ack_map[v], sent[v], Len(Texted(got[v] \o acks[v])))
      BY <1>6, <2>2 DEF Holds
    <3> QED
      BY <1>3, <3>1, <3>2, <3>3, <3>4
  <2>3. pc'[v] = pc[v] /\ ack_map'[v] = ack_map[v]
    BY DEF Served
  <2> QED
    BY <1>6, <2>1, <2>2, <2>3 DEF Holds
<1> QED
  BY <1>2, <1>5, <1>6

----------------------------------------------------------------------------
(* Streams *)

\* Accepting or dropping a request changes no stream.
LEMMA AdmitStreams ==
  ASSUME ServiceTypeOK, StreamsWellFormed, NEW u \in Uids, Admit(u)
  PROVE  ServiceTypeOK' /\ StreamsWellFormed'
<1>1. ServiceTypeOK'
  BY DEF ServiceTypeOK, Admit
<1>2. ASSUME NEW v \in Uids
      PROVE  /\ \A i \in DOMAIN sent'[v] : sent'[v][i] => i = Len(sent'[v])
             /\ status'[v] = "done" <=> \E i \in DOMAIN sent'[v] : sent'[v][i]
             /\ status'[v] \in {"new", "dropped"} => sent'[v] = <<>>
  BY <1>2 DEF ServiceTypeOK, StreamsWellFormed, Admit
<1> QED
  BY <1>1, <1>2 DEF StreamsWellFormed

\* An abort ends a live stream without a flag and leaves every other one alone.
LEMMA WithdrawStreams ==
  ASSUME ServiceTypeOK, StreamsWellFormed, NEW u \in Uids, Withdraw(u)
  PROVE  ServiceTypeOK' /\ StreamsWellFormed'
<1>1. ServiceTypeOK'
  BY DEF ServiceTypeOK, Withdraw
<1>2. ASSUME NEW v \in Uids
      PROVE  /\ \A i \in DOMAIN sent'[v] : sent'[v][i] => i = Len(sent'[v])
             /\ status'[v] = "done" <=> \E i \in DOMAIN sent'[v] : sent'[v][i]
             /\ status'[v] \in {"new", "dropped"} => sent'[v] = <<>>
  BY <1>2 DEF ServiceTypeOK, StreamsWellFormed, Withdraw
<1> QED
  BY <1>1, <1>2 DEF StreamsWellFormed

\* A token is added to live streams, and the flag comes with the last one.
LEMMA EmitStreams ==
  ASSUME ServiceTypeOK, StreamsWellFormed,
         NEW chosen \in SUBSET Uids, NEW finished \in SUBSET Uids, Emit(chosen, finished)
  PROVE  ServiceTypeOK' /\ StreamsWellFormed'
<1>1. ServiceTypeOK'
  <2>1. ASSUME NEW u \in Uids PROVE Append(sent[u], u \in finished) \in Seq(BOOLEAN)
    <3>1. (u \in finished) \in BOOLEAN
      OBVIOUS
    <3>2. sent[u] \in Seq(BOOLEAN)
      BY DEF ServiceTypeOK
    <3> QED
      BY <3>1, <3>2
  <2>2. sent' \in [Uids -> Seq(BOOLEAN)]
    BY <2>1 DEF ServiceTypeOK, Emit
  <2>3. status' \in [Uids -> {"new", "live", "dropped", "aborted", "done"}]
    BY DEF ServiceTypeOK, Emit
  <2> QED
    BY <2>2, <2>3 DEF ServiceTypeOK
<1>2. ASSUME NEW v \in Uids, v \notin chosen
      PROVE  /\ sent'[v] = sent[v] /\ status'[v] = status[v]
  BY <1>2 DEF ServiceTypeOK, Emit
<1>3. ASSUME NEW v \in chosen
      PROVE  /\ status[v] = "live"
             /\ sent'[v] = Append(sent[v], v \in finished)
             /\ status'[v] = IF v \in finished THEN "done" ELSE "live"
  BY <1>3 DEF ServiceTypeOK, Emit
<1>4. ASSUME NEW v \in chosen
      PROVE  /\ \A i \in DOMAIN sent'[v] : sent'[v][i] => i = Len(sent'[v])
             /\ status'[v] = "done" <=> \E i \in DOMAIN sent'[v] : sent'[v][i]
  <2>1. \A i \in DOMAIN sent[v] : ~ sent[v][i]
    BY <1>3 DEF StreamsWellFormed
  <2>2. sent[v] \in Seq(BOOLEAN)
    BY DEF ServiceTypeOK
  <2>3. /\ DOMAIN sent'[v] = 1 .. (Len(sent[v]) + 1)
        /\ Len(sent'[v]) = Len(sent[v]) + 1
        /\ \A i \in 1 .. Len(sent[v]) : sent'[v][i] = sent[v][i]
        /\ sent'[v][Len(sent[v]) + 1] = (v \in finished)
    BY <1>3, <2>2
  <2>4. \A i \in 1 .. (Len(sent[v]) + 1) : sent'[v][i] => i = Len(sent[v]) + 1
    BY <2>1, <2>2, <2>3
  <2>5. (\E i \in DOMAIN sent'[v] : sent'[v][i]) <=> v \in finished
    <3>1. ASSUME NEW i \in DOMAIN sent'[v], sent'[v][i] PROVE v \in finished
      <4>1. i = Len(sent[v]) + 1
        BY <2>3, <2>4, <3>1
      <4> QED
        BY <2>3, <3>1, <4>1
    <3>2. ASSUME v \in finished PROVE \E i \in DOMAIN sent'[v] : sent'[v][i]
      <4>1. Len(sent[v]) + 1 \in DOMAIN sent'[v]
        BY <2>2, <2>3
      <4> QED
        BY <2>3, <3>2, <4>1
    <3> QED
      BY <3>1, <3>2
  <2> QED
    BY <1>3, <2>3, <2>4, <2>5
<1> QED
  BY <1>1, <1>2, <1>3, <1>4 DEF StreamsWellFormed

----------------------------------------------------------------------------
(* Steps of the scheduler and the detokenizer *)

LEMMA ReceiveInv ==
  ASSUME FrontendInv, NEW w \in Workers, Receive(w)
  PROVE  FrontendInv'
<1>1. TypeInv /\ SentInv /\ ServiceTypeOK /\ StreamsWellFormed /\ RepliesInv
  BY DEF FrontendInv
<1>2. PICK q \in Seq(Messages) : q = to_backend[w] /\ q # <<>>
  BY <1>1 DEF TypeInv, Receive
<1>3. PICK l \in Nat : l = Len(q) /\ DOMAIN q = 1 .. l /\ l >= 1
  BY <1>2
<1>a. PICK rest : rest = Tail(q)
  OBVIOUS
<1>4. /\ rest = Tail(q) /\ rest \in Seq(Messages)
      /\ DOMAIN rest = 1 .. l - 1 /\ \A i \in 1 .. l - 1 : rest[i] = q[i + 1]
  <2>1. /\ Tail(q) \in Seq(Messages) /\ Len(Tail(q)) = l - 1
        /\ \A i \in 1 .. Len(Tail(q)) : Tail(q)[i] = q[i + 1]
    BY <1>2, <1>3, HeadTailProperties
  <2> QED
    BY <1>a, <2>1
<1>5. /\ to_backend' = [to_backend EXCEPT ![w] = rest]
      /\ UNCHANGED <<uid_counter, ack_map, event_map, pc, streaming, acks, got, gone, aborter,
                     to_tokenizer, to_detokenizer, to_frontend, decode_map>>
  BY <1>1, <1>2, <1>4 DEF Receive, TypeInv, maps, task, outbound
<1>6. PICK u \in Uids : (Admit(u) \/ Withdraw(u)) /\ pc[u] \notin {"new", "sending"}
  <2>1. Head(q) = q[1] /\ 1 \in DOMAIN q /\ q[1] \in Messages
    BY <1>2, <1>3
  <2>2. Sent(q[1])
    BY <1>1, <1>2, <2>1 DEF SentInv
  <2>3. Admit(q[1].uid) \/ Withdraw(q[1].uid)
    BY <1>2, <2>1 DEF Receive
  <2> QED
    BY <2>2, <2>3 DEF Sent
<1>7. ServiceTypeOK' /\ StreamsWellFormed'
  BY <1>1, <1>6, AdmitStreams, WithdrawStreams
<1>8. /\ sent' = sent
      /\ \A v \in Uids : status'[v] = status[v] \/ (v = u /\ status[v] # "done")
  BY <1>1, <1>6 DEF Admit, Withdraw, ServiceTypeOK
<1>9. TypeInv'
  <2>1. to_backend' \in [Workers -> Seq(Messages)]
    BY <1>1, <1>4, <1>5 DEF TypeInv
  <2> QED
    BY <1>1, <1>5, <2>1 DEF TypeInv
<1>10. SentInv'
  <2>1. \A m : Sent(m)' <=> Sent(m)
    BY <1>5 DEF Sent
  <2>2. \A i \in DOMAIN q : Sent(q[i])
    BY <1>1, <1>2 DEF SentInv
  <2>3. \A i \in DOMAIN rest : Sent(rest[i])
    <3>1. \A i \in 1 .. l - 1 : i + 1 \in 1 .. l
      BY <1>3
    <3> QED
      BY <1>3, <1>4, <2>2, <3>1
  <2>4. ASSUME NEW x \in Workers
        PROVE  /\ \A i \in DOMAIN to_tokenizer'[x] : Sent(to_tokenizer'[x][i])
               /\ \A i \in DOMAIN to_backend'[x] : Sent(to_backend'[x][i])
    <3>1. CASE x = w
      BY <1>1, <1>5, <2>3, <3>1 DEF TypeInv, SentInv
    <3>2. CASE x # w
      <4>1. to_tokenizer'[x] = to_tokenizer[x] /\ to_backend'[x] = to_backend[x]
        BY <1>1, <1>5, <3>2 DEF TypeInv
      <4> QED
        BY <1>1, <4>1 DEF SentInv
    <3> QED
      BY <3>1, <3>2
  <2> QED
    BY <1>5, <2>4 DEF SentInv, Sent
<1>11. RepliesInv'
  BY <1>1, <1>5, <1>8 DEF RepliesInv, OncePerMessage
<1>12. ASSUME NEW v \in Uids
       PROVE  TaskOf(v)' /\ ResponseOf(v)' /\ \E h, k \in Nat : Path(v, h, k)' /\ Holds(v, h)'
  <2>1. Served(v) /\ sent'[v] \in Seq(BOOLEAN)
    BY <1>1, <1>5, <1>6, <1>8 DEF Served, Extends, ServiceTypeOK
  <2>2. PICK h \in Nat, k \in Nat : Path(v, h, k) /\ Holds(v, h)
    BY DEF FrontendInv
  <2>3. Path(v, h, k)'
    <3>1. Replied(v)' = Replied(v) /\ Decoding(v)' = Decoding(v)
      BY <1>5 DEF Replied, Decoding
    <3> QED
      BY <1>5, <1>8, <2>2, <3>1 DEF Path
  <2> QED
    BY <2>1, <2>2, <2>3, ServedKept
<1> QED
  BY <1>7, <1>9, <1>10, <1>11, <1>12 DEF FrontendInv

\* The messages of a step.
LEMMA NextMapped ==
  ASSUME NEW u
  PROVE  /\ to_detokenizer' \in Seq(Seq(Replies)) => Replied(u)' = Mapped(TokensOf(u), to_detokenizer')
         /\ to_frontend' \in Seq(Seq(Texts)) => Decoding(u)' = Mapped(TextsOf(u), to_frontend')
<1>1. ASSUME to_detokenizer' \in Seq(Seq(Replies))
      PROVE  Replied(u)' = Mapped(TokensOf(u), to_detokenizer')
  <2>1. \A b \in DOMAIN to_detokenizer' : to_detokenizer'[b] \in Seq(Replies)
    BY <1>1
  <2> QED
    BY <2>1 DEF Replied, Mapped, TokensOf
<1>2. ASSUME to_frontend' \in Seq(Seq(Texts))
      PROVE  Decoding(u)' = Mapped(TextsOf(u), to_frontend')
  <2>1. \A b \in DOMAIN to_frontend' : to_frontend'[b] \in Seq(Texts)
    BY <1>2
  <2> QED
    BY <2>1 DEF Decoding, Mapped, TextsOf
<1> QED
  BY <1>1, <1>2

\* More was sent.
LEMMA RepliesExtended ==
  ASSUME NEW flags \in Seq(BOOLEAN), NEW more \in Seq(BOOLEAN), Extends(flags, more), NEW r
  PROVE  (ReplyOf(flags, r) => ReplyOf(more, r)) /\ (TextOf(flags, r) => TextOf(more, r))
<1>1. PICK l \in Nat, m \in Nat : l = Len(flags) /\ m = Len(more)
  OBVIOUS
<1>2. l <= m /\ \A i \in 1 .. l : more[i] = flags[i]
  BY <1>1 DEF Extends
<1>3. \A t \in 1 .. l : t \in 1 .. m /\ Chunk(more, t) = Chunk(flags, t)
  BY <1>2 DEF Chunk
<1> QED
  BY <1>1, <1>2, <1>3 DEF ReplyOf, TextOf

\* A set in some order.
LEMMA SomeOrder ==
  ASSUME NEW S, IsFiniteSet(S)
  PROVE  \E n \in Nat : /\ SetToSeq(S) \in [1 .. n -> S]
                        /\ \A i, j \in 1 .. n : SetToSeq(S)[i] = SetToSeq(S)[j] => i = j
                        /\ \A x \in S : \E i \in 1 .. n : SetToSeq(S)[i] = x
<1>1. PICK n \in Nat : n = Cardinality(S) /\ ExistsBijection(1 .. n, S)
  BY FS_CardinalityType
<1>2. PICK g \in Bijection(1 .. n, S) : TRUE
  BY <1>1 DEF ExistsBijection
<1>3. g \in [1 .. n -> S] /\ IsInjective(g)
  BY <1>2 DEF Bijection, Injection
<1>4. PICK f : f = SetToSeq(S)
  OBVIOUS
<1>5. f \in [1 .. n -> S] /\ IsInjective(f)
  BY <1>1, <1>3, <1>4 DEF SetToSeq
<1>6. f \in Injection(1 .. n, S)
  BY <1>5 DEF Injection
<1>7. Cardinality(1 .. n) = n
  BY FS_Interval
<1>8. f \in Surjection(1 .. n, S)
  BY <1>1, <1>6, <1>7, FS_Injection
<1> QED
  BY <1>4, <1>5, <1>8 DEF IsInjective, Surjection

\* The message of an iteration.
LEMMA ServedMessage ==
  ASSUME ServiceTypeOK, Serve
  PROVE  \E chosen \in SUBSET Uids, finished \in SUBSET Uids, batch \in Seq(Replies) :
           /\ Emit(chosen, finished) /\ to_detokenizer' = Append(to_detokenizer, batch) /\ Once(batch)
           /\ \A i \in DOMAIN batch :
                /\ batch[i].uid \in chosen
                /\ batch[i].token = Len(sent[batch[i].uid]) + 1
                /\ batch[i].finished = (batch[i].uid \in finished)
           /\ \A u \in chosen : \E i \in DOMAIN batch : batch[i].uid = u
<1>1. PICK chosen \in SUBSET Uids, finished \in SUBSET Uids :
        /\ Emit(chosen, finished)
        /\ to_detokenizer' =
             Append(to_detokenizer, [i \in DOMAIN SetToSeq(chosen) |->
                [uid |-> SetToSeq(chosen)[i], token |-> Len(sent[SetToSeq(chosen)[i]]) + 1,
                 finished |-> SetToSeq(chosen)[i] \in finished]])
  BY DEF Serve
<1>2. IsFiniteSet(chosen)
  BY UidsAssumption, FS_Subset
<1>3. PICK order : order = SetToSeq(chosen)
  OBVIOUS
<1>4. PICK n \in Nat : /\ order \in [1 .. n -> chosen]
                       /\ \A i, j \in 1 .. n : order[i] = order[j] => i = j
                       /\ \A x \in chosen : \E i \in 1 .. n : order[i] = x
  BY <1>2, <1>3, SomeOrder
<1>5. PICK batch : batch = [i \in 1 .. n |-> [uid |-> order[i], token |-> Len(sent[order[i]]) + 1,
                                              finished |-> order[i] \in finished]]
  OBVIOUS
<1>6. to_detokenizer' = Append(to_detokenizer, batch)
  BY <1>1, <1>3, <1>4, <1>5
<1>7. ASSUME NEW i \in 1 .. n
      PROVE  /\ batch[i] \in Replies /\ batch[i].uid = order[i] /\ order[i] \in chosen
             /\ batch[i].token = Len(sent[order[i]]) + 1
             /\ batch[i].finished = (order[i] \in finished)
  <2>1. order[i] \in chosen /\ order[i] \in Uids
    BY <1>4
  <2>2. Len(sent[order[i]]) + 1 \in Nat
    BY <2>1 DEF ServiceTypeOK
  <2>3. PICK t \in Nat, f \in BOOLEAN, x \in Uids :
          t = Len(sent[order[i]]) + 1 /\ f = (order[i] \in finished) /\ x = order[i]
    <3>1. (order[i] \in finished) \in BOOLEAN
      OBVIOUS
    <3> QED
      BY <2>1, <2>2, <3>1
  <2>4. batch[i] = [uid |-> x, token |-> t, finished |-> f]
    BY <1>5, <2>3
  <2> QED
    BY <2>1, <2>3, <2>4 DEF Replies
<1>8. batch \in Seq(Replies) /\ DOMAIN batch = 1 .. n
  <2>1. batch \in [1 .. n -> Replies]
    BY <1>5, <1>7
  <2> QED
    BY <2>1
<1>9. Once(batch)
  BY <1>4, <1>7, <1>8 DEF Once
<1>10. \A u \in chosen : \E i \in 1 .. n : batch[i].uid = u
  BY <1>4, <1>7
<1>11. \A i \in DOMAIN batch :
         /\ batch[i].uid \in chosen
         /\ batch[i].token = Len(sent[batch[i].uid]) + 1
         /\ batch[i].finished = (batch[i].uid \in finished)
  BY <1>7, <1>8
<1>12. \A u \in chosen : \E i \in DOMAIN batch : batch[i].uid = u
  BY <1>8, <1>10
<1> QED
  BY <1>1, <1>6, <1>8, <1>9, <1>11, <1>12, Zenon

LEMMA ServeInv ==
  ASSUME FrontendInv, Serve
  PROVE  FrontendInv'
<1>1. TypeInv /\ SentInv /\ ServiceTypeOK /\ StreamsWellFormed /\ RepliesInv
  BY DEF FrontendInv
<1>2. PICK chosen \in SUBSET Uids, finished \in SUBSET Uids, batch \in Seq(Replies) :
        /\ Emit(chosen, finished) /\ to_detokenizer' = Append(to_detokenizer, batch) /\ Once(batch)
        /\ \A i \in DOMAIN batch :
             /\ batch[i].uid \in chosen
             /\ batch[i].token = Len(sent[batch[i].uid]) + 1
             /\ batch[i].finished = (batch[i].uid \in finished)
        /\ \A u \in chosen : \E i \in DOMAIN batch : batch[i].uid = u
  BY <1>1, ServedMessage
<1>3. UNCHANGED <<uid_counter, ack_map, event_map, pc, streaming, acks, got, gone, aborter,
                  to_tokenizer, to_backend, to_frontend, decode_map>>
  BY DEF Serve, maps, task, inbound
<1>4. ServiceTypeOK' /\ StreamsWellFormed'
  BY <1>1, <1>2, EmitStreams
<1>5. ASSUME NEW v \in Uids
      PROVE  /\ Extends(sent[v], sent'[v]) /\ sent[v] \in Seq(BOOLEAN) /\ sent'[v] \in Seq(BOOLEAN)
             /\ v \notin chosen => sent'[v] = sent[v] /\ status'[v] = status[v]
             /\ v \in chosen => /\ status[v] = "live" /\ Len(sent'[v]) = Len(sent[v]) + 1
                                /\ sent'[v][Len(sent[v]) + 1] = (v \in finished)
  <2>1. sent[v] \in Seq(BOOLEAN) /\ sent'[v] \in Seq(BOOLEAN)
    BY <1>1, <1>4 DEF ServiceTypeOK
  <2>2. CASE v \notin chosen
    <3>1. sent'[v] = sent[v] /\ status'[v] = status[v]
      BY <1>2, <2>2 DEF Emit
    <3> QED
      BY <2>1, <2>2, <3>1 DEF Extends
  <2>3. CASE v \in chosen
    <3>1. status[v] = "live" /\ sent'[v] = Append(sent[v], v \in finished)
      BY <1>2, <2>3 DEF Emit
    <3>2. PICK f \in BOOLEAN : f = (v \in finished)
      <4>1. (v \in finished) \in BOOLEAN
        OBVIOUS
      <4> QED
        BY <4>1
    <3>3. PICK l \in Nat : l = Len(sent[v])
      BY <2>1
    <3>4. sent'[v] = Append(sent[v], f)
      BY <3>1, <3>2
    <3>5. /\ Len(sent'[v]) = l + 1 /\ sent'[v][l + 1] = f /\ \A i \in 1 .. l : sent'[v][i] = sent[v][i]
      BY <2>1, <3>3, <3>4
    <3>6. Extends(sent[v], sent'[v])
      BY <3>3, <3>5 DEF Extends
    <3> QED
      BY <2>1, <2>3, <3>1, <3>2, <3>3, <3>5, <3>6
  <2> QED
    BY <2>2, <2>3
<1>6. PICK q \in Seq(Seq(Replies)) : q = to_detokenizer
  BY <1>1 DEF TypeInv
<1>7. PICK n \in Nat : n = Len(q) /\ DOMAIN q = 1 .. n
  OBVIOUS
<1>8. PICK p \in Seq(Seq(Replies)) : p = to_detokenizer' /\ p = Append(q, batch)
  <2>1. Append(q, batch) \in Seq(Seq(Replies))
    OBVIOUS
  <2> QED
    BY <1>2, <1>6, <2>1
<1>9. DOMAIN p = 1 .. n + 1 /\ p[n + 1] = batch /\ \A b \in 1 .. n : p[b] = q[b]
  BY <1>7, <1>8
<1>10. TypeInv'
  <2>1. to_detokenizer' \in Seq(Seq(Replies))
    BY <1>8
  <2> QED
    BY <1>1, <1>3, <2>1 DEF TypeInv
<1>11. SentInv'
  <2>1. \A m : Sent(m)' <=> Sent(m)
    BY <1>3 DEF Sent
  <2> QED
    BY <1>1, <1>3, <2>1 DEF SentInv
<1>12. RepliesInv'
  <2>1. OncePerMessage(to_detokenizer)'
    <3>1. \A b \in 1 .. n : Once(q[b])
      BY <1>1, <1>6, <1>7 DEF RepliesInv, OncePerMessage, Once
    <3>2. \A b \in 1 .. n + 1 : Once(p[b])
      <4>1. \A b \in 1 .. n + 1 : b \in 1 .. n \/ b = n + 1
        OBVIOUS
      <4> QED
        BY <1>2, <1>9, <3>1, <4>1
    <3> QED
      BY <1>8, <1>9, <3>2 DEF OncePerMessage, Once
  <2>2. OncePerMessage(to_frontend)'
    BY <1>1, <1>3 DEF RepliesInv, OncePerMessage
  <2>3. ASSUME NEW b \in DOMAIN p, NEW i \in DOMAIN p[b] PROVE ReplyOf(sent'[p[b][i].uid], p[b][i])
    <3>1. CASE b \in 1 .. n
      <4>1. PICK r \in Replies : r = q[b][i] /\ r = p[b][i]
        <5>1. q[b] \in Seq(Replies) /\ p[b] = q[b]
          BY <1>7, <1>9, <3>1
        <5>2. q[b][i] \in Replies
          BY <2>3, <5>1
        <5> QED
          BY <5>1, <5>2
      <4>2. ReplyOf(sent[r.uid], r) /\ r.uid \in Uids
        <5>1. i \in DOMAIN q[b]
          BY <1>9, <2>3, <3>1
        <5>2. b \in DOMAIN to_detokenizer /\ i \in DOMAIN to_detokenizer[b] /\ to_detokenizer[b][i] = r
          BY <1>6, <1>7, <3>1, <4>1, <5>1
        <5>3. ReplyOf(sent[to_detokenizer[b][i].uid], to_detokenizer[b][i])
          BY <1>1, <5>2 DEF RepliesInv
        <5> QED
          BY <4>1, <5>2, <5>3 DEF Replies
      <4>3. PICK u \in Uids : u = r.uid
        BY <4>2
      <4>4. ReplyOf(sent'[u], r)
        BY <1>5, <4>2, <4>3, RepliesExtended
      <4> QED
        BY <4>1, <4>3, <4>4
    <3>2. CASE b = n + 1
      <4>1. i \in DOMAIN batch /\ p[b] = batch
        BY <1>9, <2>3, <3>2
      <4>2. PICK u \in chosen : u = batch[i].uid
        BY <1>2, <4>1
      <4>3. batch[i].token = Len(sent[u]) + 1 /\ batch[i].finished = (u \in finished)
        BY <1>2, <4>1, <4>2
      <4>4. Len(sent'[u]) = Len(sent[u]) + 1 /\ sent'[u][Len(sent[u]) + 1] = (u \in finished) /\ Len(sent[u]) \in Nat
        <5>1. u \in Uids /\ u \in chosen
          OBVIOUS
        <5>2. sent[u] \in Seq(BOOLEAN)
          BY <1>5, <5>1
        <5> QED
          BY <1>5, <5>1, <5>2
      <4>5. ReplyOf(sent'[u], batch[i])
        BY <4>3, <4>4 DEF ReplyOf
      <4> QED
        BY <4>1, <4>2, <4>5
    <3> QED
      BY <1>9, <2>3, <3>1, <3>2
  <2>4. ASSUME NEW b \in DOMAIN to_frontend, NEW i \in DOMAIN to_frontend[b]
        PROVE  TextOf(sent'[to_frontend[b][i].uid], to_frontend[b][i])
    <3>1. PICK r \in Texts : r = to_frontend[b][i]
      BY <1>1, <2>4 DEF TypeInv
    <3>2. PICK u \in Uids : u = r.uid
      BY DEF Texts
    <3>3. TextOf(sent[u], r)
      <4>1. TextOf(sent[to_frontend[b][i].uid], to_frontend[b][i])
        BY <1>1, <2>4 DEF RepliesInv
      <4> QED
        BY <3>1, <3>2, <4>1
    <3>4. TextOf(sent'[u], r)
      BY <1>5, <3>3, RepliesExtended
    <3> QED
      BY <3>1, <3>2, <3>4
  <2> QED
    BY <1>3, <1>8, <2>1, <2>2, <2>3, <2>4 DEF RepliesInv
<1>13. ASSUME NEW v \in Uids
       PROVE  TaskOf(v)' /\ ResponseOf(v)' /\ \E h, k \in Nat : Path(v, h, k)' /\ Holds(v, h)'
  <2>1. PICK h \in Nat, k \in Nat : Path(v, h, k) /\ Holds(v, h)
    BY DEF FrontendInv
  <2>2. Served(v)
    <3>1. pc[v] \in {"new", "sending"} => v \notin chosen
      <4>1. pc[v] \in {"new", "sending"} => status[v] = "new"
        BY OfUid DEF TaskOf
      <4> QED
        BY <1>5, <4>1
    <3>2. status[v] = "done" => v \notin chosen
      BY <1>5
    <3> QED
      BY <1>3, <1>5, <3>1, <3>2 DEF Served
  <2>3. PICK L \in Nat : L = Len(sent[v])
    BY <1>5
  <2>4. PICK T \in Seq(SUBSET Nat) : T = Replied(v) /\ T = Mapped(TokensOf(v), q)
    <3>1. Mapped(TokensOf(v), q) \in Seq(SUBSET Nat)
      <4>1. Maps(TokensOf(v), q, Seq(Replies), SUBSET Nat)
        BY TokensMap
      <4> QED
        BY <4>1, MappedQueue, Zenon
    <3> QED
      BY <1>6, <3>1, QueuesMapped
  <2>5. Replied(v)' = Append(T, TokensFor(batch, v))
    <3>1. Replied(v)' = Mapped(TokensOf(v), p)
      BY <1>8, NextMapped
    <3>2. Mapped(TokensOf(v), Append(q, batch)) = Append(Mapped(TokensOf(v), q), TokensOf(v)[batch])
      <4>1. Maps(TokensOf(v), q, Seq(Replies), SUBSET Nat)
        BY TokensMap
      <4>2. batch \in Seq(Replies)
        OBVIOUS
      <4>3. OneMore(TokensOf(v), q, batch)
        BY <4>1, <4>2, QueueExtended, Zenon
      <4> QED
        BY <4>3 DEF OneMore
    <3>3. TokensOf(v)[batch] = TokensFor(batch, v)
      BY DEF TokensOf
    <3> QED
      BY <1>8, <2>4, <3>1, <3>2, <3>3
  <2>6. h <= k /\ k <= L /\ Bring(T, k + 1, L)
    BY <2>1, <2>3, <2>4 DEF Path
  <2>7. k + 1 \in Nat /\ k + 1 <= L + 1
    BY <2>6
  <2>8. Bring(Append(T, {}), k + 1, L) /\ Bring(Append(T, {L + 1}), k + 1, L + 1)
    BY <2>6, <2>7, BringNext
  <2>9. Bring(Replied(v)', k + 1, Len(sent'[v])) /\ k <= Len(sent'[v])
    <3>1. CASE v \in chosen
      <4>1. PICK i \in DOMAIN batch : batch[i].uid = v
        BY <1>2, <3>1
      <4>2. TokensFor(batch, v) = {L + 1}
        <5>1. \A j \in DOMAIN batch : batch[j].uid = v => TokensFor(batch, v) = {batch[j].token}
          BY <1>2, OneToken
        <5>2. batch[i].token = L + 1
          BY <1>2, <2>3, <4>1
        <5> QED
          BY <4>1, <5>1, <5>2
      <4>3. Len(sent'[v]) = L + 1
        BY <1>5, <2>3, <3>1
      <4> QED
        BY <2>5, <2>6, <2>8, <4>2, <4>3
    <3>2. CASE v \notin chosen
      <4>1. TokensFor(batch, v) = {}
        <5>1. (\A i \in DOMAIN batch : batch[i].uid # v) => TokensFor(batch, v) = {}
          BY <1>2, OneToken
        <5>2. \A i \in DOMAIN batch : batch[i].uid # v
          BY <1>2, <3>2
        <5> QED
          BY <5>1, <5>2
      <4>2. Len(sent'[v]) = L
        BY <1>5, <2>3, <3>2
      <4> QED
        BY <2>5, <2>6, <2>8, <4>1, <4>2
    <3> QED
      BY <3>1, <3>2
  <2>10. Path(v, h, k)'
    <3>1. Decoding(v)' = Decoding(v)
      BY <1>3 DEF Decoding
    <3>2. ASSUME k > 0
          PROVE  sent'[v][k] = sent[v][k]
      <4>1. k \in 1 .. Len(sent[v])
        BY <2>3, <2>6, <3>2
      <4>2. Extends(sent[v], sent'[v])
        BY <1>5
      <4> QED
        BY <4>1, <4>2 DEF Extends
    <3> QED
      BY <1>3, <2>1, <2>9, <3>1, <3>2 DEF Path
  <2>11. TaskOf(v)' /\ ResponseOf(v)' /\ Holds(v, h)'
    BY <1>5, <2>1, <2>2, ServedKept
  <2> QED
    BY <2>10, <2>11
<1> QED
  BY <1>4, <1>10, <1>11, <1>12, <1>13 DEF FrontendInv

\* One more token behind those from 1 on.
LEMMA CountedOn ==
  ASSUME NEW k \in Nat
  PROVE  /\ Append(TextTo(k), k + 1) = TextTo(k + 1)
         /\ TextTo(k + 1) \in Seq(Nat) \ {<<>>}
         /\ Last(TextTo(k + 1)) = k + 1
<1>1. PICK s \in Seq(Nat) : s = [j \in 1 .. k |-> j] /\ s = TextTo(k)
  <2>1. [j \in 1 .. k |-> j] \in Seq(Nat)
    OBVIOUS
  <2> QED
    BY <2>1 DEF TextTo
<1>2. PICK t \in Seq(Nat) : t = [j \in 1 .. k + 1 |-> j] /\ t = TextTo(k + 1)
  <2>1. [j \in 1 .. k + 1 |-> j] \in Seq(Nat)
    OBVIOUS
  <2> QED
    BY <2>1 DEF TextTo
<1>3. Len(s) = k /\ Len(t) = k + 1 /\ t[k + 1] = k + 1 /\ \A i \in 1 .. k : s[i] = i /\ t[i] = i
  BY <1>1, <1>2
<1>4. PICK a \in Seq(Nat) : a = Append(s, k + 1)
  <2>1. PICK n \in Nat : n = k + 1
    OBVIOUS
  <2>2. Append(s, n) \in Seq(Nat)
    OBVIOUS
  <2> QED
    BY <2>1, <2>2
<1>5. Len(a) = k + 1 /\ a[k + 1] = k + 1 /\ \A i \in 1 .. k : a[i] = i
  BY <1>3, <1>4
<1>6. \A i \in 1 .. k + 1 : a[i] = t[i]
  BY <1>3, <1>5
<1>7. a = t
  BY <1>3, <1>5, <1>6, SeqEqual
<1>8. t # <<>> /\ Last(t) = k + 1
  BY <1>3 DEF Last
<1> QED
  BY <1>1, <1>2, <1>4, <1>7, <1>8

\* The first message of the scheduler has the next token of a request, or none.
LEMMA NextReply ==
  ASSUME FrontendInv, to_detokenizer # <<>>, NEW u \in Uids, NEW h \in Nat, NEW k \in Nat, Path(u, h, k)
  PROVE  /\ Head(to_detokenizer) \in Seq(Replies) /\ Tail(to_detokenizer) \in Seq(Seq(Replies))
         /\ \/ /\ TokensFor(Head(to_detokenizer), u) = {}
               /\ Bring(Mapped(TokensOf(u), Tail(to_detokenizer)), k + 1, Len(sent[u]))
            \/ /\ TokensFor(Head(to_detokenizer), u) = {k + 1} /\ k + 1 <= Len(sent[u])
               /\ Bring(Mapped(TokensOf(u), Tail(to_detokenizer)), k + 2, Len(sent[u]))
<1>1. PICK q \in Seq(Seq(Replies)) : q = to_detokenizer /\ q # <<>>
  BY DEF FrontendInv, TypeInv
<1>2. Head(q) \in Seq(Replies) /\ Tail(q) \in Seq(Seq(Replies))
  BY <1>1, HeadTailProperties
<1>3. PICK L \in Nat : L = Len(sent[u])
  BY OfUid
<1>a. Maps(TokensOf(u), q, Seq(Replies), SUBSET Nat)
  BY TokensMap
<1>4. PICK T \in Seq(SUBSET Nat) : T = Mapped(TokensOf(u), q)
  <2>1. Mapped(TokensOf(u), q) \in Seq(SUBSET Nat)
    BY <1>a, MappedQueue, Zenon
  <2> QED
    BY <2>1
<1>5. T # <<>> /\ Head(T) = TokensFor(Head(q), u) /\ Mapped(TokensOf(u), Tail(q)) = Tail(T)
  <2>1. q # <<>>
    BY <1>1
  <2>2. /\ Mapped(TokensOf(u), q) # <<>> /\ Head(Mapped(TokensOf(u), q)) = TokensOf(u)[Head(q)]
        /\ Mapped(TokensOf(u), Tail(q)) = Tail(Mapped(TokensOf(u), q))
    <3>1. OneLess(TokensOf(u), q)
      BY <1>a, <2>1, QueueTaken, Zenon
    <3> QED
      BY <3>1 DEF OneLess
  <2>3. TokensOf(u)[Head(q)] = TokensFor(Head(q), u)
    BY <1>2 DEF TokensOf
  <2> QED
    BY <1>4, <2>2, <2>3
<1>6. Bring(T, k + 1, L)
  BY <1>1, <1>3, <1>4, QueuesMapped DEF Path
<1>7. k + 1 \in Nat /\ (k + 1) + 1 = k + 2
  OBVIOUS
<1>8. \/ Head(T) = {} /\ Bring(Tail(T), k + 1, L)
      \/ Head(T) = {k + 1} /\ k + 1 <= L /\ Bring(Tail(T), k + 2, L)
  BY <1>5, <1>6, <1>7, BringTaken
<1> QED
  BY <1>1, <1>2, <1>3, <1>5, <1>8

\* The detokenizer makes the text of a reply out of the tokens before.
LEMMA DecodedText ==
  ASSUME FrontendInv, to_detokenizer # <<>>, NEW i \in DOMAIN Head(to_detokenizer)
  PROVE  /\ Head(to_detokenizer) \in Seq(Replies) /\ Once(Head(to_detokenizer))
         /\ Head(to_detokenizer)[i] \in Replies
         /\ ReplyOf(sent[Head(to_detokenizer)[i].uid], Head(to_detokenizer)[i])
         /\ Decoded(Head(to_detokenizer)[i]) = TextTo(Head(to_detokenizer)[i].token)
<1>1. PICK q \in Seq(Seq(Replies)) : q = to_detokenizer /\ q # <<>>
  BY DEF FrontendInv, TypeInv
<1>2. PICK batch \in Seq(Replies) : batch = Head(to_detokenizer)
  <2>1. Head(q) \in Seq(Replies)
    BY <1>1, HeadTailProperties
  <2> QED
    BY <1>1, <2>1
<1>3. batch = q[1] /\ 1 \in DOMAIN q
  BY <1>1, <1>2
<1>4. PICK r \in Replies : r = batch[i]
  BY <1>2
<1>5. Once(batch) /\ ReplyOf(sent[r.uid], r)
  <2>1. OncePerMessage(q) /\ \A b \in DOMAIN q : \A m \in DOMAIN q[b] : ReplyOf(sent[q[b][m].uid], q[b][m])
    BY <1>1 DEF FrontendInv, RepliesInv
  <2>2. Once(q[1])
    BY <1>3, <2>1 DEF OncePerMessage, Once
  <2> QED
    BY <1>2, <1>3, <1>4, <2>1, <2>2
<1>6. PICK u \in Uids : u = r.uid
  BY DEF Replies
<1>7. PICK h \in Nat, k \in Nat : Path(u, h, k)
  BY DEF FrontendInv
<1>8. TokensFor(batch, u) = {r.token}
  <2>1. \A j \in DOMAIN batch : batch[j].uid = u => TokensFor(batch, u) = {batch[j].token}
    BY <1>5, OneToken
  <2> QED
    BY <1>2, <1>4, <1>6, <2>1
<1>9. r.token = k + 1 /\ k + 1 <= Len(sent[u])
  <2>1. \/ TokensFor(batch, u) = {}
        \/ TokensFor(batch, u) = {k + 1} /\ k + 1 <= Len(sent[u])
    BY <1>2, <1>7, NextReply
  <2> QED
    BY <1>8, <2>1
<1>10. Decoded(r) = TextTo(k + 1)
  <2>1. Decoded(r) = Append(IF u \in DOMAIN decode_map THEN decode_map[u] ELSE <<>>, k + 1)
    BY <1>6, <1>9 DEF Decoded
  <2>2. CASE u \in DOMAIN decode_map
    <3>1. decode_map[u] = TextTo(k)
      BY <1>7, <2>2 DEF Path
    <3> QED
      BY <2>1, <2>2, <3>1, CountedOn
  <2>3. CASE u \notin DOMAIN decode_map
    <3>1. k = 0
      <4>1. SUFFICES ASSUME k > 0 PROVE FALSE
        BY <1>7
      <4>2. sent[u][k]
        BY <1>7, <2>3, <4>1 DEF Path
      <4>3. sent[u] \in Seq(BOOLEAN)
        BY OfUid
      <4>4. k \in DOMAIN sent[u]
        BY <1>9, <4>1, <4>3
      <4>5. k = Len(sent[u])
        BY <4>2, <4>4 DEF FrontendInv, StreamsWellFormed
      <4> QED
        BY <1>9, <4>5
    <3>2. TextTo(k) = <<>>
      BY <3>1 DEF TextTo
    <3>3. Append(TextTo(k), k + 1) = TextTo(k + 1)
      BY CountedOn
    <3> QED
      BY <2>1, <2>3, <3>2, <3>3
  <2> QED
    BY <2>2, <2>3
<1> QED
  BY <1>2, <1>4, <1>5, <1>9, <1>10

\* The message of the detokenizer.
LEMMA DetokenizedMessage ==
  ASSUME FrontendInv, Detokenize
  PROVE  \E batch \in Seq(Replies), texts \in Seq(Texts) :
           /\ batch = Head(to_detokenizer) /\ to_frontend' = Append(to_frontend, texts)
           /\ Once(batch) /\ DOMAIN texts = DOMAIN batch
           /\ \A i \in DOMAIN batch :
                /\ batch[i].uid \in Uids /\ ReplyOf(sent[batch[i].uid], batch[i])
                /\ Decoded(batch[i]) = TextTo(batch[i].token)
                /\ texts[i].uid = batch[i].uid /\ texts[i].text = TextTo(batch[i].token)
                /\ texts[i].finished = batch[i].finished
<1>1. to_detokenizer # <<>>
  BY DEF Detokenize
<1>2. PICK batch \in Seq(Replies) : batch = Head(to_detokenizer)
  <2>1. PICK q \in Seq(Seq(Replies)) : q = to_detokenizer /\ q # <<>>
    BY <1>1 DEF FrontendInv, TypeInv
  <2>2. Head(q) \in Seq(Replies)
    BY <2>1, HeadTailProperties
  <2> QED
    BY <2>1, <2>2
<1>3. PICK n \in Nat : n = Len(batch) /\ DOMAIN batch = 1 .. n
  OBVIOUS
<1>4. ASSUME NEW i \in 1 .. n
      PROVE  /\ batch[i].uid \in Uids /\ ReplyOf(sent[batch[i].uid], batch[i])
             /\ Decoded(batch[i]) = TextTo(batch[i].token)
             /\ batch[i].finished \in BOOLEAN /\ batch[i].token \in Nat \ {0}
  <2>1. i \in DOMAIN Head(to_detokenizer)
    BY <1>2, <1>3
  <2>2. /\ batch[i] \in Replies /\ ReplyOf(sent[batch[i].uid], batch[i])
        /\ Decoded(batch[i]) = TextTo(batch[i].token)
    BY <1>1, <1>2, <2>1, DecodedText
  <2>3. batch[i].uid \in Uids /\ batch[i].finished \in BOOLEAN
    BY <2>2 DEF Replies
  <2>4. batch[i].token \in Nat \ {0}
    BY <2>2 DEF ReplyOf
  <2> QED
    BY <2>2, <2>3, <2>4
<1>5. Once(batch)
  <2>1. PICK q \in Seq(Seq(Replies)) : q = to_detokenizer /\ q # <<>>
    BY <1>1 DEF FrontendInv, TypeInv
  <2>2. batch = q[1] /\ 1 \in DOMAIN q
    BY <1>2, <2>1
  <2>3. OncePerMessage(q)
    BY <2>1 DEF FrontendInv, RepliesInv
  <2> QED
    BY <2>2, <2>3 DEF OncePerMessage, Once
<1>6. PICK texts : texts = [i \in 1 .. n |-> [uid |-> batch[i].uid, text |-> Decoded(batch[i]),
                                              finished |-> batch[i].finished]]
  OBVIOUS
<1>7. to_frontend' = Append(to_frontend, texts)
  BY <1>2, <1>3, <1>6 DEF Detokenize
<1>8. ASSUME NEW i \in 1 .. n
      PROVE  /\ texts[i].uid = batch[i].uid /\ texts[i].text = TextTo(batch[i].token)
             /\ texts[i].finished = batch[i].finished /\ texts[i] \in Texts
  <2>1. PICK t \in Nat \ {0} : t = batch[i].token
    BY <1>4
  <2>2. PICK k \in Nat : t = k + 1
    <3>1. t - 1 \in Nat /\ t = (t - 1) + 1
      OBVIOUS
    <3> QED
      BY <3>1
  <2>3. PICK s \in Seq(Nat) \ {<<>>} : s = TextTo(t)
    <3>1. TextTo(k + 1) \in Seq(Nat) \ {<<>>}
      BY CountedOn
    <3> QED
      BY <2>2, <3>1
  <2>4. Decoded(batch[i]) = s
    BY <1>4, <2>1, <2>3
  <2>5. texts[i] = [uid |-> batch[i].uid, text |-> s, finished |-> batch[i].finished]
    BY <1>6, <2>4
  <2>a. PICK u \in Uids, f \in BOOLEAN : u = batch[i].uid /\ f = batch[i].finished
    BY <1>4
  <2>6. texts[i] \in Texts
    BY <2>5, <2>a DEF Texts
  <2> QED
    BY <2>1, <2>3, <2>5, <2>6
<1>9. texts \in Seq(Texts) /\ DOMAIN texts = DOMAIN batch
  <2>1. texts \in [1 .. n -> Texts]
    BY <1>6, <1>8
  <2> QED
    BY <1>3, <2>1
<1>10. \A i \in DOMAIN batch :
         /\ batch[i].uid \in Uids /\ ReplyOf(sent[batch[i].uid], batch[i])
         /\ Decoded(batch[i]) = TextTo(batch[i].token)
         /\ texts[i].uid = batch[i].uid /\ texts[i].text = TextTo(batch[i].token)
         /\ texts[i].finished = batch[i].finished
  BY <1>3, <1>4, <1>8
<1> QED
  BY <1>2, <1>5, <1>7, <1>9, <1>10, Zenon

LEMMA DetokenizeInv ==
  ASSUME FrontendInv, Detokenize
  PROVE  FrontendInv'
<1>1. TypeInv /\ SentInv /\ ServiceTypeOK /\ StreamsWellFormed /\ RepliesInv
  BY DEF FrontendInv
<1>2. PICK batch \in Seq(Replies), texts \in Seq(Texts) :
           /\ batch = Head(to_detokenizer) /\ to_frontend' = Append(to_frontend, texts)
           /\ Once(batch) /\ DOMAIN texts = DOMAIN batch
           /\ \A i \in DOMAIN batch :
                /\ batch[i].uid \in Uids /\ ReplyOf(sent[batch[i].uid], batch[i])
                /\ Decoded(batch[i]) = TextTo(batch[i].token)
                /\ texts[i].uid = batch[i].uid /\ texts[i].text = TextTo(batch[i].token)
                /\ texts[i].finished = batch[i].finished
  BY DetokenizedMessage
<1>3. PICK U : U = {m.uid : m \in Range(batch)}
  OBVIOUS
<1>4. PICK E : E = EndedBy(batch)
  OBVIOUS
<1>5. \A v : /\ v \in U <=> \E i \in DOMAIN batch : batch[i].uid = v
             /\ v \in E <=> \E i \in DOMAIN batch : batch[i].uid = v /\ batch[i].finished
  BY <1>3, <1>4 DEF EndedBy, Range
<1>6. /\ to_detokenizer # <<>> /\ to_detokenizer' = Tail(to_detokenizer)
      /\ decode_map' = [u \in (DOMAIN decode_map \cup U) \ E |->
                          IF u \in U THEN Decoded(CHOOSE m \in Range(batch) : m.uid = u) ELSE decode_map[u]]
      /\ UNCHANGED <<status, sent, uid_counter, ack_map, event_map, pc, streaming, acks, got, gone, aborter,
                     to_tokenizer, to_backend>>
  BY <1>2, <1>3, <1>4 DEF Detokenize, service, maps, task, inbound
<1>7. ASSUME NEW i \in DOMAIN batch
      PROVE  (CHOOSE m \in Range(batch) : m.uid = batch[i].uid) = batch[i]
  <2>1. \A m \in Range(batch) : m.uid = batch[i].uid => m = batch[i]
    BY <1>2 DEF Range, Once
  <2>2. batch[i] \in Range(batch)
    BY DEF Range
  <2> QED
    BY <2>1, <2>2
<1>8. ASSUME NEW i \in DOMAIN batch, batch[i].uid \notin E
      PROVE  decode_map'[batch[i].uid] = TextTo(batch[i].token)
  <2>1. PICK u : u = batch[i].uid
    OBVIOUS
  <2>2. u \in U
    BY <1>5, <2>1
  <2>3. decode_map'[u] = Decoded(CHOOSE m \in Range(batch) : m.uid = u)
    BY <1>6, <1>8, <2>1, <2>2
  <2>4. decode_map'[u] = Decoded(batch[i])
    BY <1>7, <2>1, <2>3
  <2> QED
    BY <1>2, <2>1, <2>4
<1>9. PICK q \in Seq(Seq(Texts)) : q = to_frontend
  BY <1>1 DEF TypeInv
<1>10. PICK n \in Nat : n = Len(q) /\ DOMAIN q = 1 .. n
  OBVIOUS
<1>11. PICK p \in Seq(Seq(Texts)) : p = to_frontend' /\ p = Append(q, texts)
  <2>1. Append(q, texts) \in Seq(Seq(Texts))
    OBVIOUS
  <2> QED
    BY <1>2, <1>9, <2>1
<1>12. DOMAIN p = 1 .. n + 1 /\ p[n + 1] = texts /\ \A b \in 1 .. n : p[b] = q[b]
  BY <1>10, <1>11
<1>13. PICK d \in Seq(Seq(Replies)) : d = to_detokenizer /\ d # <<>>
  BY <1>1, <1>6 DEF TypeInv
<1>14. PICK l \in Nat : l = Len(d) /\ DOMAIN d = 1 .. l
  OBVIOUS
<1>15. PICK rest : rest = Tail(d)
  OBVIOUS
<1>16. /\ rest \in Seq(Seq(Replies)) /\ rest = to_detokenizer'
       /\ DOMAIN rest = 1 .. l - 1 /\ \A b \in 1 .. l - 1 : rest[b] = d[b + 1] /\ b + 1 \in 1 .. l
  <2>1. /\ Tail(d) \in Seq(Seq(Replies)) /\ Len(Tail(d)) = l - 1
        /\ \A i \in 1 .. Len(Tail(d)) : Tail(d)[i] = d[i + 1]
    BY <1>13, <1>14, HeadTailProperties
  <2>2. \A b \in 1 .. l - 1 : b + 1 \in 1 .. l
    OBVIOUS
  <2> QED
    BY <1>6, <1>13, <1>15, <2>1, <2>2
<1>17. TypeInv'
  <2>1. decode_map' \in [DOMAIN decode_map' -> Seq(Nat)]
    <3>1. ASSUME NEW u \in DOMAIN decode_map' PROVE decode_map'[u] \in Seq(Nat)
      <4>1. CASE u \in U
        <5>1. PICK i \in DOMAIN batch : batch[i].uid = u
          BY <1>5, <4>1
        <5>2. decode_map'[u] = TextTo(batch[i].token)
          BY <1>6, <1>8, <3>1, <5>1
        <5>a. batch[i] \in Replies
          BY <5>1
        <5>3. PICK t \in Nat : t = batch[i].token
          BY <5>a DEF Replies
        <5>4. TextTo(t) \in Seq(Nat)
          BY DEF TextTo
        <5> QED
          BY <5>2, <5>3, <5>4
      <4>2. CASE u \notin U
        <5>1. u \in DOMAIN decode_map /\ decode_map'[u] = decode_map[u]
          BY <1>6, <3>1, <4>2
        <5> QED
          BY <1>1, <5>1 DEF TypeInv
      <4> QED
        BY <4>1, <4>2
    <3> QED
      BY <1>6, <3>1
  <2> QED
    BY <1>1, <1>6, <1>11, <1>16, <2>1 DEF TypeInv
<1>18. SentInv'
  <2>1. \A m : Sent(m)' <=> Sent(m)
    BY <1>6 DEF Sent
  <2> QED
    BY <1>1, <1>6, <2>1 DEF SentInv
<1>19. RepliesInv'
  <2>1. OncePerMessage(to_detokenizer)'
    <3>1. \A b \in 1 .. l : Once(d[b])
      BY <1>1, <1>13, <1>14 DEF RepliesInv, OncePerMessage, Once
    <3>2. \A b \in 1 .. l - 1 : Once(rest[b])
      BY <1>16, <3>1
    <3> QED
      BY <1>16, <3>2 DEF OncePerMessage, Once
  <2>2. OncePerMessage(to_frontend)'
    <3>1. \A b \in 1 .. n : Once(q[b])
      BY <1>1, <1>9, <1>10 DEF RepliesInv, OncePerMessage, Once
    <3>2. Once(texts)
      <4>1. \A i \in DOMAIN texts : i \in DOMAIN batch /\ texts[i].uid = batch[i].uid
        BY <1>2
      <4> QED
        BY <1>2, <4>1 DEF Once
    <3>3. \A b \in 1 .. n + 1 : Once(p[b])
      <4>1. \A b \in 1 .. n + 1 : b \in 1 .. n \/ b = n + 1
        OBVIOUS
      <4> QED
        BY <1>12, <3>1, <3>2, <4>1
    <3> QED
      BY <1>11, <1>12, <3>3 DEF OncePerMessage, Once
  <2>3. ASSUME NEW b \in DOMAIN rest, NEW i \in DOMAIN rest[b] PROVE ReplyOf(sent[rest[b][i].uid], rest[b][i])
    <3>1. b + 1 \in DOMAIN d /\ rest[b] = d[b + 1]
      BY <1>14, <1>16, <2>3
    <3>2. \A c \in DOMAIN d : \A m \in DOMAIN d[c] : ReplyOf(sent[d[c][m].uid], d[c][m])
      BY <1>1, <1>13 DEF RepliesInv
    <3> QED
      BY <2>3, <3>1, <3>2
  <2>4. ASSUME NEW b \in DOMAIN p, NEW i \in DOMAIN p[b] PROVE TextOf(sent[p[b][i].uid], p[b][i])
    <3>1. CASE b \in 1 .. n
      <4>1. \A c \in DOMAIN q : \A m \in DOMAIN q[c] : TextOf(sent[q[c][m].uid], q[c][m])
        BY <1>1, <1>9 DEF RepliesInv
      <4> QED
        BY <1>10, <1>12, <2>4, <3>1, <4>1
    <3>2. CASE b = n + 1
      <4>1. p[b] = texts /\ i \in DOMAIN batch
        BY <1>2, <1>12, <2>4, <3>2
      <4>2. PICK r \in Replies : r = batch[i]
        BY <4>1
      <4>3. texts[i].uid = r.uid /\ texts[i].text = TextTo(r.token) /\ texts[i].finished = r.finished
        BY <1>2, <4>1, <4>2
      <4>4. ReplyOf(sent[r.uid], r)
        BY <1>2, <4>1, <4>2
      <4>5. TextOf(sent[r.uid], texts[i])
        <5>1. r.token \in 1 .. Len(sent[r.uid]) /\ r.finished = sent[r.uid][r.token]
          BY <4>4 DEF ReplyOf
        <5>2. [text |-> texts[i].text, finished |-> texts[i].finished] = Chunk(sent[r.uid], r.token)
          BY <4>3, <5>1 DEF Chunk
        <5> QED
          BY <5>1, <5>2 DEF TextOf
      <4> QED
        BY <4>1, <4>3, <4>5
    <3> QED
      BY <1>12, <2>4, <3>1, <3>2
  <2> QED
    BY <1>6, <1>11, <1>16, <2>1, <2>2, <2>3, <2>4 DEF RepliesInv
<1>20. ServiceTypeOK' /\ StreamsWellFormed'
  BY <1>1, <1>6 DEF ServiceTypeOK, StreamsWellFormed
<1>21. ASSUME NEW v \in Uids
       PROVE  TaskOf(v)' /\ ResponseOf(v)' /\ \E h, k \in Nat : Path(v, h, k)' /\ Holds(v, h)'
  <2>1. PICK h \in Nat, k \in Nat : Path(v, h, k) /\ Holds(v, h)
    BY DEF FrontendInv
  <2>2. TaskOf(v)' /\ ResponseOf(v)' /\ Holds(v, h)'
    <3>1. TaskOf(v) /\ ResponseOf(v)
      BY DEF FrontendInv
    <3>2. Unmoved(v)
      BY <1>6 DEF Unmoved
    <3> QED
      BY <2>1, <3>1, <3>2, UnmovedKept
  <2>3. PICK L \in Nat : L = Len(sent[v])
    <3>1. sent[v] \in Seq(BOOLEAN)
      BY OfUid
    <3> QED
      BY <3>1
  <2>4. /\ Replied(v)' = Mapped(TokensOf(v), rest)
        /\ \/ TokensFor(batch, v) = {} /\ Bring(Replied(v)', k + 1, L)
           \/ TokensFor(batch, v) = {k + 1} /\ k + 1 <= L /\ Bring(Replied(v)', k + 2, L)
    <3>1. Replied(v)' = Mapped(TokensOf(v), rest)
      BY <1>16, NextMapped
    <3>2. Mapped(TokensOf(v), rest) = Mapped(TokensOf(v), Tail(to_detokenizer))
      BY <1>13, <1>15
    <3>3. \/ /\ TokensFor(Head(to_detokenizer), v) = {}
             /\ Bring(Mapped(TokensOf(v), Tail(to_detokenizer)), k + 1, L)
          \/ /\ TokensFor(Head(to_detokenizer), v) = {k + 1} /\ k + 1 <= L
             /\ Bring(Mapped(TokensOf(v), Tail(to_detokenizer)), k + 2, L)
      BY <1>6, <2>1, <2>3, NextReply
    <3> QED
      BY <1>2, <3>1, <3>2, <3>3
  <2>5. PICK T \in Seq(SUBSET Nat) : T = Decoding(v) /\ T = Mapped(TextsOf(v), q)
    <3>1. Mapped(TextsOf(v), q) \in Seq(SUBSET Nat)
      <4>1. Maps(TextsOf(v), q, Seq(Texts), SUBSET Nat)
        BY TextsMap
      <4> QED
        BY <4>1, MappedQueue, Zenon
    <3> QED
      BY <1>9, <3>1, QueuesMapped
  <2>6. Decoding(v)' = Append(T, TextsFor(texts, v))
    <3>1. Decoding(v)' = Mapped(TextsOf(v), p)
      BY <1>11, NextMapped
    <3>2. Mapped(TextsOf(v), Append(q, texts)) = Append(Mapped(TextsOf(v), q), TextsOf(v)[texts])
      <4>1. Maps(TextsOf(v), q, Seq(Texts), SUBSET Nat)
        BY TextsMap
      <4>2. texts \in Seq(Texts)
        OBVIOUS
      <4>3. OneMore(TextsOf(v), q, texts)
        BY <4>1, <4>2, QueueExtended, Zenon
      <4> QED
        BY <4>3 DEF OneMore
    <3>3. TextsOf(v)[texts] = TextsFor(texts, v)
      BY DEF TextsOf
    <3> QED
      BY <1>11, <2>5, <3>1, <3>2, <3>3
  <2>7. h <= k /\ k <= L /\ Bring(T, h + 1, k)
    BY <2>1, <2>3, <2>5 DEF Path
  <2>8. Bring(Append(T, {}), h + 1, k) /\ Bring(Append(T, {k + 1}), h + 1, k + 1)
    <3>1. h + 1 \in Nat /\ h + 1 <= k + 1
      BY <2>7
    <3> QED
      BY <2>7, <3>1, BringNext
  <2>9. \A i \in DOMAIN texts : i \in DOMAIN batch /\ texts[i].uid = batch[i].uid
    BY <1>2
  <2>10. Once(texts)
    BY <1>2, <2>9 DEF Once
  <2>11. CASE v \notin U
    <3>1. \A i \in DOMAIN batch : batch[i].uid # v
      BY <1>5, <2>11
    <3>2. TokensFor(batch, v) = {} /\ TextsFor(texts, v) = {}
      <4>1. TokensFor(batch, v) = {}
        <5>1. (\A i \in DOMAIN batch : batch[i].uid # v) => TokensFor(batch, v) = {}
          BY <1>2, OneToken
        <5> QED
          BY <3>1, <5>1
      <4>2. TextsFor(texts, v) = {}
        <5>1. (\A i \in DOMAIN texts : texts[i].uid # v) => TextsFor(texts, v) = {}
          BY <2>10, OneToken
        <5>2. \A i \in DOMAIN texts : texts[i].uid # v
          BY <2>9, <3>1
        <5> QED
          BY <5>1, <5>2
      <4> QED
        BY <4>1, <4>2
    <3>3. Bring(Replied(v)', k + 1, L) /\ Bring(Decoding(v)', h + 1, k)
      BY <2>4, <2>6, <2>8, <3>2
    <3>4. v \notin E
      BY <1>5, <3>1
    <3>5. /\ v \in DOMAIN decode_map' <=> v \in DOMAIN decode_map
          /\ v \in DOMAIN decode_map => decode_map'[v] = decode_map[v]
      BY <1>6, <2>11, <3>4
    <3>6. Path(v, h, k)'
      BY <1>6, <2>1, <2>3, <3>3, <3>5 DEF Path
    <3> QED
      BY <2>1, <2>2, <3>6
  <2>12. CASE v \in U
    <3>1. PICK i \in DOMAIN batch : batch[i].uid = v
      BY <1>5, <2>12
    <3>2. PICK r \in Replies : r = batch[i] /\ r.uid = v
      BY <3>1
    <3>3. TokensFor(batch, v) = {r.token}
      <4>1. \A j \in DOMAIN batch : batch[j].uid = v => TokensFor(batch, v) = {batch[j].token}
        BY <1>2, OneToken
      <4> QED
        BY <3>1, <3>2, <4>1
    <3>4. r.token = k + 1 /\ k + 1 <= L /\ Bring(Replied(v)', (k + 1) + 1, L)
      <4>1. (k + 1) + 1 = k + 2
        OBVIOUS
      <4> QED
        BY <2>4, <3>3, <4>1
    <3>5. TextsFor(texts, v) = {k + 1}
      <4>1. \A j \in DOMAIN texts : texts[j].uid = v => TextsFor(texts, v) = {Last(texts[j].text)}
        BY <2>10, OneToken
      <4>2. i \in DOMAIN texts /\ texts[i].uid = v /\ texts[i].text = TextTo(k + 1)
        BY <1>2, <3>1, <3>2, <3>4
      <4>3. Last(TextTo(k + 1)) = k + 1
        BY CountedOn
      <4> QED
        BY <4>1, <4>2, <4>3
    <3>6. v \in E <=> sent[v][k + 1]
      <4>1. r.finished = sent[v][r.token]
        BY <1>2, <3>1, <3>2 DEF ReplyOf
      <4>2. v \in E <=> r.finished
        <5>1. \A j \in DOMAIN batch : batch[j].uid = v => j = i
          BY <1>2, <3>1 DEF Once
        <5> QED
          BY <1>5, <3>1, <3>2, <5>1
      <4> QED
        BY <3>4, <4>1, <4>2
    <3>7. /\ v \in DOMAIN decode_map' <=> ~sent[v][k + 1]
          /\ v \in DOMAIN decode_map' => decode_map'[v] = TextTo(k + 1)
      <4>1. v \in DOMAIN decode_map' <=> v \notin E
        BY <1>6, <2>12
      <4>2. v \notin E => decode_map'[v] = TextTo(r.token)
        BY <1>8, <3>1, <3>2
      <4> QED
        BY <3>4, <3>6, <4>1, <4>2
    <3>8. Bring(Decoding(v)', h + 1, k + 1)
      BY <2>6, <2>8, <3>5
    <3>9. Path(v, h, k + 1)'
      <4>1. h <= k + 1 /\ k + 1 > 0
        BY <2>7
      <4> QED
        BY <1>6, <2>3, <3>4, <3>7, <3>8, <4>1 DEF Path
    <3>10. k + 1 \in Nat
      OBVIOUS
    <3> QED
      BY <2>1, <2>2, <3>9, <3>10
  <2> QED
    BY <2>11, <2>12
<1> QED
  BY <1>17, <1>18, <1>19, <1>20, <1>21 DEF FrontendInv

\* The first message of the detokenizer has the next text of a request, or none.
LEMMA NextTexts ==
  ASSUME FrontendInv, to_frontend # <<>>, NEW u \in Uids, NEW h \in Nat, NEW k \in Nat, Path(u, h, k)
  PROVE  /\ Head(to_frontend) \in Seq(Texts) /\ Tail(to_frontend) \in Seq(Seq(Texts))
         /\ \/ /\ TextsFor(Head(to_frontend), u) = {}
               /\ Bring(Mapped(TextsOf(u), Tail(to_frontend)), h + 1, k)
            \/ /\ TextsFor(Head(to_frontend), u) = {h + 1} /\ h + 1 <= k
               /\ Bring(Mapped(TextsOf(u), Tail(to_frontend)), (h + 1) + 1, k)
<1>1. PICK q \in Seq(Seq(Texts)) : q = to_frontend /\ q # <<>>
  BY DEF FrontendInv, TypeInv
<1>2. Head(q) \in Seq(Texts) /\ Tail(q) \in Seq(Seq(Texts))
  BY <1>1, HeadTailProperties
<1>3. Maps(TextsOf(u), q, Seq(Texts), SUBSET Nat)
  BY TextsMap
<1>4. PICK T \in Seq(SUBSET Nat) : T = Mapped(TextsOf(u), q)
  <2>1. Mapped(TextsOf(u), q) \in Seq(SUBSET Nat)
    BY <1>3, MappedQueue, Zenon
  <2> QED
    BY <2>1
<1>5. T # <<>> /\ Head(T) = TextsFor(Head(q), u) /\ Mapped(TextsOf(u), Tail(q)) = Tail(T)
  <2>1. q # <<>>
    BY <1>1
  <2>2. /\ Mapped(TextsOf(u), q) # <<>> /\ Head(Mapped(TextsOf(u), q)) = TextsOf(u)[Head(q)]
        /\ Mapped(TextsOf(u), Tail(q)) = Tail(Mapped(TextsOf(u), q))
    <3>1. OneLess(TextsOf(u), q)
      BY <1>3, <2>1, QueueTaken, Zenon
    <3> QED
      BY <3>1 DEF OneLess
  <2>3. TextsOf(u)[Head(q)] = TextsFor(Head(q), u)
    BY <1>2 DEF TextsOf
  <2> QED
    BY <1>4, <2>2, <2>3
<1>6. Bring(T, h + 1, k)
  BY <1>1, <1>4, QueuesMapped DEF Path
<1>7. h + 1 \in Nat
  OBVIOUS
<1>8. \/ Head(T) = {} /\ Bring(Tail(T), h + 1, k)
      \/ Head(T) = {h + 1} /\ h + 1 <= k /\ Bring(Tail(T), (h + 1) + 1, k)
  BY <1>5, <1>6, <1>7, BringTaken
<1> QED
  BY <1>1, <1>2, <1>4, <1>5, <1>8

LEMMA ListenInv ==
  ASSUME FrontendInv, Listen
  PROVE  FrontendInv'
<1>1. TypeInv /\ SentInv /\ ServiceTypeOK /\ StreamsWellFormed /\ RepliesInv
  BY DEF FrontendInv
<1>2. PICK q \in Seq(Seq(Texts)) : q = to_frontend /\ q # <<>>
  BY <1>1 DEF TypeInv, Listen
<1>3. PICK n \in Nat : n = Len(q) /\ DOMAIN q = 1 .. n /\ n >= 1
  BY <1>2
<1>4. PICK batch \in Seq(Texts) : batch = Head(q) /\ batch = q[1]
  <2>1. Head(q) \in Seq(Texts) /\ Head(q) = q[1]
    BY <1>2, HeadTailProperties
  <2> QED
    BY <2>1
<1>5. PICK rest : rest = Tail(q)
  OBVIOUS
<1>6. /\ rest \in Seq(Seq(Texts))
      /\ DOMAIN rest = 1 .. n - 1 /\ \A b \in 1 .. n - 1 : rest[b] = q[b + 1] /\ b + 1 \in 1 .. n
  <2>1. /\ Tail(q) \in Seq(Seq(Texts)) /\ Len(Tail(q)) = n - 1
        /\ \A i \in 1 .. Len(Tail(q)) : Tail(q)[i] = q[i + 1]
    BY <1>2, <1>3, HeadTailProperties
  <2>2. \A b \in 1 .. n - 1 : b + 1 \in 1 .. n
    BY <1>3
  <2> QED
    BY <1>5, <2>1, <2>2
<1>7. /\ to_frontend' = rest
      /\ ack_map' = [u \in DOMAIN ack_map |-> ack_map[u] \o RepliesFor(batch, u)]
      /\ event_map' = [u \in DOMAIN event_map |-> event_map[u] \/ RepliesFor(batch, u) # <<>>]
      /\ UNCHANGED <<status, sent, uid_counter, pc, streaming, acks, got, gone, aborter,
                     to_tokenizer, to_backend, to_detokenizer, decode_map>>
  BY <1>2, <1>4, <1>5 DEF Listen, service, task, inbound
<1>8. Once(batch)
  BY <1>1, <1>2, <1>3, <1>4 DEF RepliesInv, OncePerMessage, Once
<1>9. ASSUME NEW i \in DOMAIN batch
      PROVE  batch[i] \in Texts /\ batch[i].uid \in Uids /\ TextOf(sent[batch[i].uid], batch[i])
  <2>1. batch[i] \in Texts
    OBVIOUS
  <2>2. \A b \in DOMAIN q : \A j \in DOMAIN q[b] : TextOf(sent[q[b][j].uid], q[b][j])
    BY <1>1, <1>2 DEF RepliesInv
  <2>3. 1 \in DOMAIN q
    BY <1>3
  <2> QED
    BY <1>4, <2>1, <2>2, <2>3 DEF Texts
<1>10. ASSUME NEW u
       PROVE  \/ /\ RepliesFor(batch, u) = <<>> /\ TextsFor(batch, u) = {}
              \/ /\ u \in Uids /\ \E t \in 1 .. Len(sent[u]) :
                      /\ RepliesFor(batch, u) = <<Chunk(sent[u], t)>> /\ TextsFor(batch, u) = {t}
                      /\ Chunk(sent[u], t) \in Chunks
  <2>1. CASE \A i \in DOMAIN batch : batch[i].uid # u
    <3>1. (\A i \in DOMAIN batch : batch[i].uid # u) => TextsFor(batch, u) = {}
      BY <1>8, OneToken
    <3>2. (\A i \in DOMAIN batch : batch[i].uid # u) => RepliesFor(batch, u) = <<>>
      BY <1>8, OneReply
    <3> QED
      BY <2>1, <3>1, <3>2
  <2>2. ASSUME NEW i \in DOMAIN batch, batch[i].uid = u
        PROVE  /\ u \in Uids
               /\ \E t \in 1 .. Len(sent[u]) :
                    /\ RepliesFor(batch, u) = <<Chunk(sent[u], t)>> /\ TextsFor(batch, u) = {t}
                    /\ Chunk(sent[u], t) \in Chunks
    <3>1. PICK m \in Texts : m = batch[i] /\ m.uid = u /\ u \in Uids
      BY <1>9, <2>2
    <3>2. PICK t \in 1 .. Len(sent[u]) : [text |-> m.text, finished |-> m.finished] = Chunk(sent[u], t)
      BY <1>9, <2>2, <3>1 DEF TextOf
    <3>3. RepliesFor(batch, u) = <<Chunk(sent[u], t)>>
      <4>1. \A j \in DOMAIN batch : batch[j].uid = u =>
                RepliesFor(batch, u) = <<[text |-> batch[j].text, finished |-> batch[j].finished]>>
        BY <1>8, OneReply
      <4> QED
        BY <2>2, <3>1, <3>2, <4>1
    <3>4. TextsFor(batch, u) = {t}
      <4>1. \A j \in DOMAIN batch : batch[j].uid = u => TextsFor(batch, u) = {Last(batch[j].text)}
        BY <1>8, OneToken
      <4>2. m.text = Chunk(sent[u], t).text
        BY <3>2
      <4>3. Last(Chunk(sent[u], t).text) = t
        BY ChunkHasText
      <4> QED
        BY <2>2, <3>1, <4>1, <4>2, <4>3
    <3>5. Chunk(sent[u], t) \in Chunks
      <4>1. m.text \in Seq(Nat) /\ m.finished \in BOOLEAN
        BY DEF Texts
      <4> QED
        BY <3>2, <4>1 DEF Chunks
    <3> QED
      BY <3>1, <3>3, <3>4, <3>5
  <2> QED
    BY <2>1, <2>2
<1>11. \A u : RepliesFor(batch, u) \in Seq(Chunks)
  <2>1. ASSUME NEW u PROVE RepliesFor(batch, u) \in Seq(Chunks)
    <3>1. CASE RepliesFor(batch, u) = <<>>
      BY <3>1
    <3>2. CASE RepliesFor(batch, u) # <<>>
      <4>1. PICK t : RepliesFor(batch, u) = <<Chunk(sent[u], t)>> /\ Chunk(sent[u], t) \in Chunks
        BY <1>10, <3>2
      <4>2. PICK c \in Chunks : c = Chunk(sent[u], t)
        BY <4>1
      <4>3. <<c>> \in Seq(Chunks)
        OBVIOUS
      <4> QED
        BY <4>1, <4>2, <4>3
    <3> QED
      BY <3>1, <3>2
  <2> QED
    BY <2>1
<1>12. TypeInv'
  <2>1. ack_map' \in [DOMAIN ack_map' -> Seq(Chunks)]
    <3>1. ASSUME NEW u \in DOMAIN ack_map PROVE ack_map[u] \o RepliesFor(batch, u) \in Seq(Chunks)
      <4>1. PICK s \in Seq(Chunks), t \in Seq(Chunks) : s = ack_map[u] /\ t = RepliesFor(batch, u)
        BY <1>1, <1>11 DEF TypeInv
      <4>2. s \o t \in Seq(Chunks)
        OBVIOUS
      <4> QED
        BY <4>1, <4>2
    <3> QED
      BY <1>7, <3>1
  <2>2. event_map' \in [DOMAIN ack_map' -> BOOLEAN]
    <3>1. DOMAIN event_map = DOMAIN ack_map
      BY <1>1 DEF TypeInv
    <3> QED
      BY <1>7, <3>1
  <2> QED
    BY <1>1, <1>6, <1>7, <2>1, <2>2 DEF TypeInv
<1>13. SentInv'
  <2>1. \A m : Sent(m)' <=> Sent(m)
    BY <1>7 DEF Sent
  <2> QED
    BY <1>1, <1>7, <2>1 DEF SentInv
<1>14. RepliesInv'
  <2>1. OncePerMessage(to_frontend)'
    <3>1. \A b \in 1 .. n : Once(q[b])
      BY <1>1, <1>2, <1>3 DEF RepliesInv, OncePerMessage, Once
    <3>2. \A b \in 1 .. n - 1 : Once(rest[b])
      BY <1>6, <3>1
    <3> QED
      BY <1>6, <1>7, <3>2 DEF OncePerMessage, Once
  <2>2. OncePerMessage(to_detokenizer)'
    BY <1>1, <1>7 DEF RepliesInv, OncePerMessage
  <2>3. ASSUME NEW b \in DOMAIN rest, NEW i \in DOMAIN rest[b] PROVE TextOf(sent[rest[b][i].uid], rest[b][i])
    <3>1. b + 1 \in DOMAIN q /\ rest[b] = q[b + 1]
      BY <1>3, <1>6, <2>3
    <3>2. \A c \in DOMAIN q : \A m \in DOMAIN q[c] : TextOf(sent[q[c][m].uid], q[c][m])
      BY <1>1, <1>2 DEF RepliesInv
    <3> QED
      BY <2>3, <3>1, <3>2
  <2> QED
    BY <1>1, <1>7, <2>1, <2>2, <2>3 DEF RepliesInv
<1>15. ServiceTypeOK' /\ StreamsWellFormed'
  BY <1>1, <1>7 DEF ServiceTypeOK, StreamsWellFormed
<1>16. ASSUME NEW v \in Uids
       PROVE  TaskOf(v)' /\ ResponseOf(v)' /\ \E h, k \in Nat : Path(v, h, k)' /\ Holds(v, h)'
  <2>1. PICK h \in Nat, k \in Nat : Path(v, h, k) /\ Holds(v, h)
    BY DEF FrontendInv
  <2>2. /\ TaskOf(v) /\ ResponseOf(v) /\ sent[v] \in Seq(BOOLEAN)
        /\ got[v] \in Seq(Chunks) /\ acks[v] \in Seq(Chunks)
        /\ v \in DOMAIN ack_map => ack_map[v] \in Seq(Chunks) /\ event_map[v] \in BOOLEAN
    BY OfUid
  <2>3. PICK r \in Seq(Chunks) : r = RepliesFor(batch, v)
    BY <1>11
  <2>4. /\ DOMAIN ack_map' = DOMAIN ack_map
        /\ v \in DOMAIN ack_map => /\ ack_map'[v] = ack_map[v] \o r
                                   /\ event_map'[v] <=> event_map[v] \/ r # <<>>
    <3>1. DOMAIN event_map = DOMAIN ack_map
      BY <1>1 DEF TypeInv
    <3> QED
      BY <1>7, <2>3, <3>1
  <2>5. TaskOf(v)'
    <3>1. v \in DOMAIN ack_map => event_map'[v] = (ack_map'[v] # <<>>)
      <4>1. SUFFICES ASSUME v \in DOMAIN ack_map PROVE event_map'[v] = (ack_map'[v] # <<>>)
        OBVIOUS
      <4>2. event_map[v] <=> ack_map[v] # <<>>
        BY <2>2, <4>1 DEF TaskOf
      <4>3. ack_map[v] \o r = <<>> <=> ack_map[v] = <<>> /\ r = <<>>
        BY <2>2, <4>1, ConcatEqualIffEmpty
      <4>4. event_map'[v] \in BOOLEAN
        BY <1>12, <2>4, <4>1 DEF TypeInv
      <4> QED
        BY <2>4, <4>1, <4>2, <4>3, <4>4
    <3> QED
      BY <1>7, <2>2, <2>4, <3>1 DEF TaskOf
  <2>6. ResponseOf(v)'
    BY <1>7, <2>2 DEF ResponseOf, Complete
  <2>7. Decoding(v)' = Mapped(TextsOf(v), rest)
    BY <1>6, <1>7, NextMapped
  <2>8. Replied(v)' = Replied(v)
    BY <1>7 DEF Replied
  <2>9. \/ TextsFor(batch, v) = {} /\ Bring(Decoding(v)', h + 1, k)
        \/ TextsFor(batch, v) = {h + 1} /\ h + 1 <= k /\ Bring(Decoding(v)', (h + 1) + 1, k)
    <3>1. \/ /\ TextsFor(Head(to_frontend), v) = {}
             /\ Bring(Mapped(TextsOf(v), Tail(to_frontend)), h + 1, k)
          \/ /\ TextsFor(Head(to_frontend), v) = {h + 1} /\ h + 1 <= k
             /\ Bring(Mapped(TextsOf(v), Tail(to_frontend)), (h + 1) + 1, k)
      BY <1>2, <2>1, NextTexts
    <3> QED
      BY <1>2, <1>4, <1>5, <2>7, <3>1
  <2>10. CASE TextsFor(batch, v) = {}
    <3>1. r = <<>>
      <4>1. \A t : {t} # {}
        OBVIOUS
      <4> QED
        BY <1>10, <2>3, <2>10, <4>1
    <3>2. v \in DOMAIN ack_map => ack_map'[v] = ack_map[v]
      BY <2>2, <2>4, <3>1, ConcatEmptySeq
    <3>3. Path(v, h, k)'
      BY <1>7, <2>1, <2>8, <2>9, <2>10 DEF Path
    <3>4. Holds(v, h)'
      <4>1. pc[v] = "sending" \/ Running(v) => v \in DOMAIN ack_map
        BY <2>2 DEF TaskOf, Running
      <4>2. Running(v)' <=> Running(v)
        BY <1>7 DEF Running
      <4> QED
        BY <1>7, <2>1, <3>2, <4>1, <4>2 DEF Holds
    <3> QED
      BY <2>1, <2>5, <2>6, <3>3, <3>4
  <2>11. CASE TextsFor(batch, v) # {}
    <3>1. TextsFor(batch, v) = {h + 1} /\ h + 1 <= k /\ Bring(Decoding(v)', (h + 1) + 1, k)
      BY <2>9, <2>11
    <3>2. r = <<Chunk(sent[v], h + 1)>> /\ Chunk(sent[v], h + 1) \in Chunks
      <4>1. PICK t : r = <<Chunk(sent[v], t)>> /\ TextsFor(batch, v) = {t} /\ Chunk(sent[v], t) \in Chunks
        BY <1>10, <2>3, <2>11
      <4>2. t = h + 1
        BY <3>1, <4>1
      <4> QED
        BY <4>1, <4>2
    <3>3. Path(v, h + 1, k)' /\ h + 1 \in Nat
      BY <1>7, <2>1, <2>8, <3>1 DEF Path
    <3>4. h + 1 <= Len(sent[v])
      BY <2>1, <2>2, <3>1 DEF Path
    <3>5. pc[v] \notin {"new", "sending"}
      <4>1. pc[v] \in {"new", "sending"} => sent[v] = <<>>
        BY <1>1, <2>2 DEF TaskOf, StreamsWellFormed
      <4>2. sent[v] # <<>>
        BY <2>2, <3>4
      <4> QED
        BY <4>1, <4>2
    <3>6. Holds(v, h + 1)'
      <4>1. Running(v)' <=> Running(v)
        BY <1>7 DEF Running
      <4>2. ASSUME Running(v)
            PROVE  LET m == Len(Texted(got[v] \o acks[v]))
                   IN  h + 1 = m + Len(ack_map'[v]) /\ Chain(ack_map'[v], sent[v], m)
        <5>1. v \in DOMAIN ack_map
          BY <2>2, <4>2 DEF TaskOf, Running
        <5>2. PICK s \in Seq(Chunks) : s = ack_map[v]
          BY <2>2, <5>1
        <5>3. PICK m \in Nat, l \in Nat : m = Len(Texted(got[v] \o acks[v])) /\ l = Len(s)
          <6>1. Len(Texted(got[v] \o acks[v])) \in Nat
            BY <2>2, TextedLength
          <6>2. Len(s) \in Nat
            OBVIOUS
          <6> QED
            BY <6>1, <6>2
        <5>4. h = m + l /\ Chain(s, sent[v], m)
          BY <2>1, <4>2, <5>2, <5>3 DEF Holds
        <5>5. PICK c \in Chunks : c = Chunk(sent[v], h + 1)
          BY <3>2
        <5>6. Chain(<<c>>, sent[v], m + l)
          <6>1. \A i \in DOMAIN <<c>> : i = 1 /\ <<c>>[i] = c
            OBVIOUS
          <6> QED
            BY <3>4, <5>4, <5>5, <6>1 DEF Chain
        <5>7. <<c>> \in Seq(Chunks) /\ Len(<<c>>) = 1
          OBVIOUS
        <5>8. Chain(s \o <<c>>, sent[v], m)
          BY <2>2, <5>3, <5>4, <5>6, <5>7, ChainParts
        <5>9. Len(s \o <<c>>) = l + 1
          BY <5>3
        <5>10. ack_map'[v] = s \o <<c>>
          BY <2>4, <3>2, <5>1, <5>2, <5>5
        <5>11. h + 1 = m + (l + 1)
          BY <5>4
        <5> QED
          BY <5>3, <5>8, <5>9, <5>10, <5>11
      <4> QED
        BY <1>7, <3>5, <4>1, <4>2 DEF Holds
    <3> QED
      BY <2>5, <2>6, <3>3, <3>6
  <2> QED
    BY <2>10, <2>11
<1> QED
  BY <1>12, <1>13, <1>14, <1>15, <1>16 DEF FrontendInv

----------------------------------------------------------------------------
(* Theorems *)

LEMMA InitInv == Init => FrontendInv
<1> SUFFICES ASSUME Init PROVE FrontendInv
  OBVIOUS
<1>1. <<>> \in Seq(Chunks) /\ <<>> \in Seq(Messages) /\ <<>> \in Seq(Seq(Replies)) /\ <<>> \in Seq(Seq(Texts))
  OBVIOUS
<1>2. TypeInv
  BY <1>1 DEF Init, TypeInv, Places
<1>3. ServiceTypeOK /\ StreamsWellFormed
  BY DEF Init, ServiceInit, ServiceTypeOK, StreamsWellFormed
<1>4. SentInv /\ RepliesInv
  BY DEF Init, SentInv, RepliesInv, OncePerMessage
<1>5. ASSUME NEW u \in Uids
      PROVE  TaskOf(u) /\ ResponseOf(u) /\ \E h, k \in Nat : Path(u, h, k) /\ Holds(u, h)
  <2>1. u \in Nat
    BY UidsAssumption, FS_CardinalityType
  <2>2. /\ uid_counter = 0 /\ pc[u] = "new" /\ acks[u] = <<>> /\ got[u] = <<>> /\ aborter[u] = "none"
        /\ ack_map = <<>> /\ decode_map = <<>> /\ sent[u] = <<>> /\ status[u] = "new"
        /\ to_detokenizer = <<>> /\ to_frontend = <<>>
    BY DEF Init, ServiceInit
  <2>3. TaskOf(u)
    BY <2>1, <2>2 DEF TaskOf
  <2>4. ResponseOf(u)
    <3>1. Chain(<<>> \o <<>>, <<>>, 0)
      BY DEF Chain
    <3> QED
      BY <2>2, <3>1 DEF ResponseOf
  <2>5. Path(u, 0, 0)
    <3>1. Decoding(u) = <<>> /\ Replied(u) = <<>>
      BY <2>2 DEF Decoding, Replied
    <3>2. Bring(<<>>, 1, 0)
      BY DEF Bring, Range
    <3>3. 0 + 1 = 1 /\ Len(<<>>) = 0
      OBVIOUS
    <3> QED
      BY <2>2, <3>1, <3>2, <3>3 DEF Path
  <2>6. Holds(u, 0)
    BY <2>2 DEF Holds, Running
  <2> QED
    BY <2>3, <2>4, <2>5, <2>6
<1> QED
  BY <1>2, <1>3, <1>4, <1>5 DEF FrontendInv

LEMMA StepInv == FrontendInv /\ [Next]_vars => FrontendInv'
<1> SUFFICES ASSUME FrontendInv, [Next]_vars PROVE FrontendInv'
  OBVIOUS
<1>1. CASE NewUser
  BY <1>1, NewUserInv
<1>2. CASE Serve
  BY <1>2, ServeInv
<1>3. CASE Detokenize
  BY <1>3, DetokenizeInv
<1>4. CASE Listen
  BY <1>4, ListenInv
<1>5. ASSUME NEW u \in Uids,
             \/ SendRequest(u) \/ TakeAcks(u) \/ Collect(u) \/ Check(u) \/ Write(u)
             \/ Disconnect(u) \/ Cancel(u) \/ Abandon(u) \/ Forget(u) \/ SendAbort(u)
      PROVE  FrontendInv'
  BY <1>5, SendRequestInv, TakeAcksInv, CollectInv, CheckInv, WriteInv, DisconnectInv, CancelInv,
     ForgetInv, SendAbortInv
<1>6. ASSUME NEW w \in Workers, Tokenize(w) \/ Receive(w) PROVE FrontendInv'
  BY <1>6, TokenizeInv, ReceiveInv
<1>7. CASE UNCHANGED vars
  <2>1. UNCHANGED <<status, sent, uid_counter, ack_map, event_map, pc, streaming, acks, got, gone, aborter,
                    to_tokenizer, to_backend, to_detokenizer, to_frontend, decode_map>>
    BY <1>7 DEF vars, service, maps, task, inbound, outbound
  <2>2. TypeInv' /\ SentInv'
    <3>1. TypeInv /\ SentInv
      BY DEF FrontendInv
    <3> QED
      BY <2>1, <3>1 DEF TypeInv, SentInv, Sent
  <2>3. \A v \in Uids : Unmoved(v)
    BY <2>1 DEF Unmoved
  <2>4. UNCHANGED <<service, outbound>>
    BY <2>1 DEF service, outbound
  <2> QED
    BY <2>2, <2>3, <2>4, NoTask
<1> QED
  BY <1>1, <1>2, <1>3, <1>4, <1>5, <1>6, <1>7 DEF Next

\* The inductive invariant of the frontend.
THEOREM FrontendCorrect == Spec => []FrontendInv
BY InitInv, StepInv, PTL DEF Spec

\* What has reached the API server of a running task is the first chunks of its text.
LEMMA KeptText ==
  ASSUME FrontendInv, NEW u \in Uids, Running(u), NEW h \in Nat, Holds(u, h)
  PROVE  Kept(u) \in Seq(Chunks) /\ Len(Kept(u)) = h /\ Chain(Kept(u), sent[u], 0)
<1>1. /\ TaskOf(u) /\ ResponseOf(u) /\ acks[u] \in Seq(Chunks) /\ got[u] \in Seq(Chunks)
      /\ sent[u] \in Seq(BOOLEAN)
  BY OfUid
<1>2. ack_map[u] \in Seq(Chunks)
  BY <1>1, OfUid DEF TaskOf, Running
<1>3. PICK t : t = Texted(got[u] \o acks[u])
  OBVIOUS
<1>4. t \in Seq(Chunks) /\ Chain(t, sent[u], 0)
  <2>1. CASE acks[u] = <<DoneChunk>>
    <3>1. t = got[u]
      BY <1>1, <1>3, <2>1, TextedEnd
    <3>2. Chain(got[u], sent[u], 0)
      BY <1>1, <2>1, EndInHand DEF ResponseOf
    <3> QED
      BY <1>1, <3>1, <3>2
  <2>2. CASE acks[u] # <<DoneChunk>>
    <3>1. Chain(got[u] \o acks[u], sent[u], 0) /\ t = got[u] \o acks[u]
      BY <1>3, <2>2, InHand
    <3>2. got[u] \o acks[u] \in Seq(Chunks)
      BY <1>1
    <3> QED
      BY <3>1, <3>2
  <2> QED
    BY <2>1, <2>2
<1>5. h = Len(t) + Len(ack_map[u]) /\ Chain(ack_map[u], sent[u], Len(t))
  BY <1>3 DEF Holds
<1>6. Kept(u) = t \o ack_map[u]
  BY <1>3 DEF Kept
<1>7. Chain(t \o ack_map[u], sent[u], 0)
  <2>1. 0 + Len(t) = Len(t)
    BY <1>4
  <2> QED
    BY <1>1, <1>2, <1>4, <1>5, <2>1, ChainParts
<1>8. t \o ack_map[u] \in Seq(Chunks) /\ Len(t \o ack_map[u]) = Len(t) + Len(ack_map[u])
  BY <1>2, <1>4
<1> QED
  BY <1>5, <1>6, <1>7, <1>8

\* From the scheduler to the client every token of a request is in exactly one place, in the
\* order it was made, whatever the batches, tasks that are woken and clients that leave.
THEOREM TokensOnTheirWay == Spec => []EveryTokenOnItsWay
<1>1. FrontendInv => EveryTokenOnItsWay
  <2> SUFFICES ASSUME FrontendInv PROVE EveryTokenOnItsWay
    OBVIOUS
  <2>1. OncePerMessage(to_detokenizer) /\ OncePerMessage(to_frontend)
    BY DEF FrontendInv, RepliesInv
  <2>2. ASSUME NEW u \in Uids, Running(u)
        PROVE  /\ \A i \in DOMAIN Kept(u) : Last(Kept(u)[i].text) = i
               /\ \E k \in Len(Kept(u)) .. Len(sent[u]) :
                    Bring(Decoding(u), Len(Kept(u)) + 1, k) /\ Bring(Replied(u), k + 1, Len(sent[u]))
    <3>1. PICK h \in Nat, k \in Nat : Path(u, h, k) /\ Holds(u, h)
      BY DEF FrontendInv
    <3>2. Kept(u) \in Seq(Chunks) /\ Len(Kept(u)) = h /\ Chain(Kept(u), sent[u], 0)
      BY <2>2, <3>1, KeptText
    <3>3. ASSUME NEW i \in DOMAIN Kept(u) PROVE Last(Kept(u)[i].text) = i
      <4>1. i \in Nat \ {0} /\ 0 + i = i
        BY <3>2
      <4>2. Kept(u)[i] = Chunk(sent[u], i)
        BY <3>2, <4>1 DEF Chain
      <4> QED
        BY <4>1, <4>2, ChunkHasText
    <3>4. k \in Len(Kept(u)) .. Len(sent[u])
      <4>1. sent[u] \in Seq(BOOLEAN)
        BY OfUid
      <4> QED
        BY <3>1, <3>2, <4>1 DEF Path
    <3>5. Bring(Decoding(u), Len(Kept(u)) + 1, k) /\ Bring(Replied(u), k + 1, Len(sent[u]))
      BY <3>1, <3>2 DEF Path
    <3> QED
      BY <3>3, <3>4, <3>5
  <2> QED
    BY <2>1, <2>2 DEF EveryTokenOnItsWay
<1> QED
  BY <1>1, FrontendCorrect, PTL

\* What a client has is a prefix of its text, and an ended response has all of it, up to the
\* finished reply and no further.
THEOREM StreamsArePrefixes == Spec => []StreamIsPrefix
<1>1. FrontendInv => StreamIsPrefix
  <2> SUFFICES ASSUME FrontendInv, NEW u \in Uids
               PROVE  /\ \A i \in DOMAIN Texted(got[u]) :
                           Texted(got[u])[i] = [text |-> [j \in 1 .. i |-> j], finished |-> sent[u][i]]
                      /\ pc[u] = "ended" => Len(Texted(got[u])) = Len(sent[u]) /\ status[u] = "done"
    BY DEF StreamIsPrefix
  <2>1. /\ TaskOf(u) /\ ResponseOf(u) /\ acks[u] \in Seq(Chunks) /\ got[u] \in Seq(Chunks)
        /\ sent[u] \in Seq(BOOLEAN)
    BY OfUid
  <2>2. /\ Texted(got[u]) \in Seq(Chunks) /\ Chain(Texted(got[u]), sent[u], 0)
        /\ pc[u] = "ended" => Complete(u, Len(Texted(got[u])))
    <3>1. Texted(got[u]) \in Seq(Chunks)
      BY <2>1, TextedLength
    <3>2. ASSUME Chain(got[u], sent[u], 0), pc[u] = "ended" => Complete(u, Len(got[u]))
          PROVE  Chain(Texted(got[u]), sent[u], 0) /\ (pc[u] = "ended" => Complete(u, Len(Texted(got[u]))))
      <4>1. Texted(got[u]) = got[u]
        BY <2>1, <3>2, TextedChain
      <4> QED
        BY <3>2, <4>1
    <3>3. CASE Chain(got[u] \o acks[u], sent[u], 0) /\ (pc[u] = "ended" => Complete(u, Len(got[u])) /\ acks[u] = <<>>)
      <4>1. Chain(got[u], sent[u], 0)
        BY <2>1, <3>3, ChainParts
      <4> QED
        BY <3>1, <3>2, <3>3, <4>1
    <3>4. CASE pc[u] \in {"checking", "writing"} /\ Chain(got[u], sent[u], 0)
      BY <3>1, <3>2, <3>4
    <3>5. CASE /\ got[u] # <<>> /\ Last(got[u]) = DoneChunk
               /\ Chain(Front(got[u]), sent[u], 0) /\ Complete(u, Len(got[u]) - 1)
      <4>1. Texted(got[u]) = Front(got[u])
        BY <3>5 DEF Texted
      <4>2. Len(Front(got[u])) = Len(got[u]) - 1
        <5>1. PICK s \in Seq(Chunks), l \in Nat : s = got[u] /\ l = Len(s) /\ l # 0
          BY <2>1, <3>5
        <5>2. l - 1 \in Nat /\ \A i \in 1 .. l - 1 : s[i] \in Chunks
          BY <5>1
        <5>3. Len(SubSeq(s, 1, l - 1)) = l - 1
          BY <5>1, <5>2
        <5> QED
          BY <5>1, <5>3 DEF Front
      <4> QED
        BY <3>1, <3>5, <4>1, <4>2
    <3> QED
      BY <2>1, <3>3, <3>4, <3>5 DEF ResponseOf
  <2>3. ASSUME NEW i \in DOMAIN Texted(got[u])
        PROVE  Texted(got[u])[i] = [text |-> [j \in 1 .. i |-> j], finished |-> sent[u][i]]
    <3>1. i \in Nat \ {0} /\ 0 + i = i
      BY <2>2
    <3> QED
      BY <2>2, <3>1 DEF Chain, Chunk, TextTo
  <2> QED
    BY <2>2, <2>3 DEF Complete
<1> QED
  BY <1>1, FrontendCorrect, PTL

\* A task that waits is woken when, and only when, there is a reply for it.
THEOREM WakeUpsCorrect == Spec => []WakesForReplies
<1>1. FrontendInv => WakesForReplies
  <2> SUFFICES ASSUME FrontendInv, NEW u \in Uids, pc[u] = "waiting"
               PROVE  event_map[u] = (ack_map[u] # <<>>)
    BY DEF WakesForReplies
  <2>1. TaskOf(u)
    BY OfUid
  <2> QED
    BY <2>1 DEF TaskOf
<1> QED
  BY <1>1, FrontendCorrect, PTL

=============================================================================
