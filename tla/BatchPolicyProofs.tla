--------------------------- MODULE BatchPolicyProofs ---------------------------
(***************************************************************************)
(* Theorems of BatchPolicy: the bounds on waiting hold for any number of   *)
(* requests, thresholds, cuts and clock steps.                             *)
(***************************************************************************)
EXTENDS BatchPolicy, TLAPS, SequenceTheorems, FiniteSetTheorems, WellFoundedInduction

-----------------------------------------------------------------------------
(* Queues.                                                                 *)

Entry == [uid : Uids, cuts : 0 .. MaxCuts]

\* One entry for a uid.
IsQueue(s) ==
  /\ s \in Seq(Entry)
  /\ \A i, j \in DOMAIN s : s[i].uid = s[j].uid => i = j

\* A batch for each cut still possible of what is queued before one of T.
Before(s, T) ==
  {x \in Uids \X (0 .. MaxCuts) :
     \E i, j \in DOMAIN s : i < j /\ s[i].uid = x[1] /\ s[i].cuts <= x[2] /\ s[j].uid \in T}

\* s1 has some of the entries of s in their order, perhaps cut more often.
IsPart(s, s1, f) ==
  /\ \A i \in DOMAIN s1 : f[i] \in DOMAIN s /\ s1[i].uid = s[f[i]].uid /\ s[f[i]].cuts <= s1[i].cuts
  /\ \A i, j \in DOMAIN s1 : i < j => f[i] < f[j]

LEMMA Constants ==
  /\ DecodeWait \in Nat /\ PrefillWait \in Nat /\ MaxStep \in Nat /\ MaxStep > 0
  /\ MaxCuts \in Nat /\ MaxAge \in Nat /\ IsFiniteSet(Uids)
BY WaitsAssumption

\* An entry has a uid and a number of cuts.
LEMMA EntryOf ==
  ASSUME NEW s \in Seq(Entry)
  PROVE  /\ Len(s) \in Nat /\ DOMAIN s = 1 .. Len(s)
         /\ \A i \in DOMAIN s : /\ s[i] \in Entry /\ s[i].uid \in Uids /\ s[i].cuts \in 0 .. MaxCuts
                                /\ s[i].cuts \in Nat
<1>1. Len(s) \in Nat /\ DOMAIN s = 1 .. Len(s) BY LenProperties
<1>2. \A i \in DOMAIN s : s[i] \in Entry BY <1>1, ElementOfSeq
<1>3. QED BY <1>1, <1>2, Constants DEF Entry

\* What is queued before one of T is not more in a part.
LEMMA PartBefore ==
  ASSUME NEW s \in Seq(Entry), NEW s1 \in Seq(Entry), NEW f, IsPart(s, s1, f), NEW T, NEW T1, T1 \subseteq T
  PROVE  Before(s1, T1) \subseteq Before(s, T)
<1>1. SUFFICES ASSUME NEW x \in Before(s1, T1) PROVE x \in Before(s, T) OBVIOUS
<1>2. x \in Uids \X (0 .. MaxCuts) BY <1>1 DEF Before
<1>3. PICK i \in DOMAIN s1, j \in DOMAIN s1 :
        i < j /\ s1[i].uid = x[1] /\ s1[i].cuts <= x[2] /\ s1[j].uid \in T1
  BY <1>1 DEF Before
<1>4. /\ f[i] \in DOMAIN s /\ f[j] \in DOMAIN s /\ f[i] < f[j]
      /\ s[f[i]].uid = x[1] /\ s[f[i]].cuts <= s1[i].cuts /\ s[f[j]].uid \in T
  BY <1>3 DEF IsPart
<1>5. s[f[i]].cuts \in Nat /\ s1[i].cuts \in Nat BY <1>3, <1>4, EntryOf
<1>6. x[2] \in 0 .. MaxCuts BY <1>2
<1>7. s[f[i]].cuts <= x[2]
  <2>1. PICK a, b, c : a = s[f[i]].cuts /\ b = s1[i].cuts /\ c = x[2] OBVIOUS
  <2>2. a \in Nat /\ b \in Nat /\ c \in Nat /\ a <= b /\ b <= c
    BY <1>3, <1>4, <1>5, <1>6, <2>1, Constants
  <2>3. QED BY <2>1, <2>2
<1>8. QED BY <1>2, <1>4, <1>7 DEF Before

\* A part of a queue is a queue of the same uids.
LEMMA PartQueue ==
  ASSUME NEW s, IsQueue(s), NEW s1 \in Seq(Entry), NEW f, IsPart(s, s1, f)
  PROVE  IsQueue(s1) /\ UidsOf(s1) \subseteq UidsOf(s)
<1>1. Len(s1) \in Nat /\ DOMAIN s1 = 1 .. Len(s1) BY EntryOf
<1>2. ASSUME NEW i \in DOMAIN s1, NEW j \in DOMAIN s1, s1[i].uid = s1[j].uid PROVE i = j
  <2>1. f[i] = f[j] BY <1>2 DEF IsPart, IsQueue
  <2>2. i \in Nat /\ j \in Nat BY <1>1
  <2>3. f[i] \in Nat
    <3>1. f[i] \in DOMAIN s BY DEF IsPart
    <3>2. DOMAIN s = 1 .. Len(s) /\ Len(s) \in Nat BY EntryOf DEF IsQueue
    <3>3. QED BY <3>1, <3>2
  <2>4. ~(i < j) /\ ~(j < i) BY <2>1, <2>3 DEF IsPart
  <2>5. QED BY <2>2, <2>4
<1>3. UidsOf(s1) \subseteq UidsOf(s) BY DEF UidsOf, IsPart
<1>4. QED BY <1>2, <1>3 DEF IsQueue

\* How many batches that can be: one for each cut of each other request.
LEMMA BeforeCount ==
  ASSUME NEW s, IsQueue(s), NEW T, NEW S, S \subseteq Uids,
         \A i, j \in DOMAIN s : i < j /\ s[j].uid \in T => s[i].uid \in S
  PROVE  /\ IsFiniteSet(Before(s, T)) /\ Cardinality(Before(s, T)) \in Nat
         /\ Cardinality(S) \in Nat
         /\ Cardinality(Before(s, T)) <= Cardinality(S) * (MaxCuts + 1)
<1>1. IsFiniteSet(S) BY Constants, FS_Subset
<1>2. IsFiniteSet(0 .. MaxCuts) /\ Cardinality(0 .. MaxCuts) = MaxCuts + 1 BY Constants, FS_Interval
<1>3. IsFiniteSet(S \X (0 .. MaxCuts)) /\ Cardinality(S \X (0 .. MaxCuts)) = Cardinality(S) * (MaxCuts + 1)
  BY <1>1, <1>2, FS_Product
<1>4. Before(s, T) \subseteq S \X (0 .. MaxCuts)
  <2>1. SUFFICES ASSUME NEW x \in Before(s, T) PROVE x \in S \X (0 .. MaxCuts) OBVIOUS
  <2>2. x \in Uids \X (0 .. MaxCuts) /\ x[1] \in S BY DEF Before
  <2>3. x = <<x[1], x[2]>> /\ x[2] \in 0 .. MaxCuts BY <2>2
  <2>4. QED BY <2>2, <2>3
<1>5. QED BY <1>1, <1>3, <1>4, FS_Subset, FS_CardinalityType

\* A set that loses a member.
LEMMA FewerBefore ==
  ASSUME NEW A, IsFiniteSet(A), NEW B, B \subseteq A, NEW x \in A, x \notin B
  PROVE  Cardinality(B) + 1 <= Cardinality(A) /\ Cardinality(B) \in Nat /\ Cardinality(A) \in Nat
<1>1. IsFiniteSet(B) /\ Cardinality(B) <= Cardinality(A) /\ Cardinality(B) # Cardinality(A)
  BY FS_Subset
<1>2. Cardinality(B) \in Nat /\ Cardinality(A) \in Nat BY <1>1, FS_CardinalityType
<1>3. QED BY <1>1, <1>2


\* The first k entries of s are taken, the last of them perhaps cut and put back.
IsCut(s, k, cut, members, complete, rest) ==
  /\ IsQueue(s) /\ k \in 1 .. Len(s) /\ cut \in BOOLEAN /\ (cut => s[k].cuts < MaxCuts)
  /\ members = UidsOf(SubSeq(s, 1, k))
  /\ complete = UidsOf(SubSeq(s, 1, IF cut THEN k - 1 ELSE k))
  /\ rest = (IF cut THEN <<[s[k] EXCEPT !.cuts = @ + 1]>> ELSE <<>>) \o SubSeq(s, k + 1, Len(s))

\* The uids of a beginning of a queue.
LEMMA FirstUids ==
  ASSUME NEW s \in Seq(Entry), NEW k \in 0 .. Len(s)
  PROVE  UidsOf(SubSeq(s, 1, k)) = {s[i].uid : i \in 1 .. k}
<1>1. Len(s) \in Nat BY EntryOf
<1>2. PICK t : t = SubSeq(s, 1, k) OBVIOUS
<1>3. t \in Seq(Entry) /\ Len(t) = k /\ \A i \in 1 .. k : t[i] = s[i]
  <2>1. 1 \in 1 .. Len(s) + 1 /\ k \in 1 - 1 .. Len(s) BY <1>1
  <2>2. /\ SubSeq(s, 1, k) \in Seq(Entry) /\ Len(SubSeq(s, 1, k)) = k - 1 + 1
        /\ \A i \in 1 .. k - 1 + 1 : SubSeq(s, 1, k)[i] = s[1 + i - 1]
    BY ONLY <2>1, s \in Seq(Entry), SubSeqProperties
  <2>3. k \in Nat /\ k - 1 + 1 = k BY <1>1
  <2>4. \A i \in 1 .. k : 1 + i - 1 = i BY <2>3
  <2>5. QED BY <1>2, <2>2, <2>3, <2>4
<1>4. DOMAIN t = 1 .. k BY <1>3, EntryOf
<1>5. QED BY <1>2, <1>3, <1>4 DEF UidsOf

Taken(k, cut) == IF cut THEN k - 1 ELSE k

\* rest is what comes behind the first off entries of s.
RestFrom(s, k, cut, rest, off) ==
  /\ rest \in Seq(Entry) /\ off \in Nat /\ DOMAIN rest = 1 .. Len(s) - off
  /\ \A i \in DOMAIN rest :
       /\ i + off \in DOMAIN s /\ rest[i].uid = s[i + off].uid /\ s[i + off].cuts <= rest[i].cuts
       /\ (cut /\ i = 1) => rest[i].cuts = s[k].cuts + 1

\* What is left, entry by entry.
LEMMA RestIs ==
  ASSUME NEW s, NEW k, NEW cut, NEW members, NEW complete, NEW rest,
         IsCut(s, k, cut, members, complete, rest),
         NEW off, off = Taken(k, cut)
  PROVE  RestFrom(s, k, cut, rest, off)
<1>0. off = IF cut THEN k - 1 ELSE k BY DEF Taken
<1>1. /\ s \in Seq(Entry) /\ k \in 1 .. Len(s) /\ cut \in BOOLEAN /\ (cut => s[k].cuts < MaxCuts)
      /\ rest = (IF cut THEN <<[s[k] EXCEPT !.cuts = @ + 1]>> ELSE <<>>) \o SubSeq(s, k + 1, Len(s))
  BY DEF IsCut, IsQueue
<1>2. Len(s) \in Nat /\ DOMAIN s = 1 .. Len(s) /\ k \in Nat /\ k >= 1 /\ k <= Len(s) BY <1>1, EntryOf
<1>3. /\ \A i \in DOMAIN s : s[i] \in Entry /\ s[i].cuts \in Nat /\ s[i].cuts <= MaxCuts BY <1>1, Constants, EntryOf
<1>4. PICK tail : tail = SubSeq(s, k + 1, Len(s)) OBVIOUS
<1>5. /\ tail \in Seq(Entry) /\ Len(tail) = Len(s) - k
      /\ \A i \in 1 .. Len(s) - k : tail[i] = s[i + k]
  <2>1. k + 1 \in 1 .. Len(s) + 1 /\ Len(s) \in (k + 1) - 1 .. Len(s) BY <1>2
  <2>2. PICK m, n : m = k + 1 /\ n = Len(s) OBVIOUS
  <2>3. m \in 1 .. Len(s) + 1 /\ n \in m - 1 .. Len(s) BY <2>1, <2>2
  <2>4. /\ SubSeq(s, m, n) \in Seq(Entry) /\ Len(SubSeq(s, m, n)) = n - m + 1
        /\ \A i \in 1 .. n - m + 1 : SubSeq(s, m, n)[i] = s[m + i - 1]
    BY ONLY <1>1, <2>3, SubSeqProperties
  <2>5. n - m + 1 = Len(s) - k /\ \A i \in 1 .. Len(s) - k : m + i - 1 = i + k BY <1>2, <2>2
  <2>6. QED BY <1>4, <2>2, <2>4, <2>5
<1>6. CASE cut
  <2>1. PICK e : e = [s[k] EXCEPT !.cuts = @ + 1] OBVIOUS
  <2>2. s[k] \in Entry /\ s[k].cuts \in Nat /\ s[k].cuts < MaxCuts BY <1>1, <1>2, <1>3, <1>6
  <2>3. s[k] = [uid |-> s[k].uid, cuts |-> s[k].cuts] /\ s[k].uid \in Uids BY <2>2 DEF Entry
  <2>4. e.uid = s[k].uid /\ e.cuts = s[k].cuts + 1 BY <2>1, <2>3
  <2>5. e \in Entry
    <3>1. e = [uid |-> s[k].uid, cuts |-> s[k].cuts + 1] BY <2>1, <2>3
    <3>2. s[k].cuts + 1 \in 0 .. MaxCuts BY <2>2, Constants
    <3>3. QED BY <2>3, <3>1, <3>2 DEF Entry
  <2>6. PICK h : h = <<e>> OBVIOUS
  <2>7. h \in Seq(Entry) /\ Len(h) = 1 /\ h[1] = e BY <2>5, <2>6
  <2>8. rest = h \o tail BY <1>1, <1>4, <1>6, <2>1, <2>6
  <2>9. /\ rest \in Seq(Entry) /\ Len(rest) = 1 + (Len(s) - k)
        /\ \A i \in 1 .. 1 + (Len(s) - k) : rest[i] = IF i <= 1 THEN h[i] ELSE tail[i - 1]
    <3>1. /\ Len(h \o tail) = Len(h) + Len(tail) /\ h \o tail \in Seq(Entry)
          /\ \A i \in 1 .. Len(h) + Len(tail) : (h \o tail)[i] = IF i <= Len(h) THEN h[i] ELSE tail[i - Len(h)]
      BY <1>5, <2>7, ConcatProperties
    <3>2. QED BY <1>5, <2>7, <2>8, <3>1
  <2>10. off = k - 1 /\ off \in Nat /\ 1 + (Len(s) - k) = Len(s) - off BY <1>0, <1>2, <1>6
  <2>11. DOMAIN rest = 1 .. Len(s) - off BY <2>9, <2>10, EntryOf
  <2>12. ASSUME NEW i \in DOMAIN rest
         PROVE  /\ i + off \in DOMAIN s /\ rest[i].uid = s[i + off].uid /\ s[i + off].cuts <= rest[i].cuts
                /\ (cut /\ i = 1) => rest[i].cuts = s[k].cuts + 1
    <3>1. i \in 1 .. 1 + (Len(s) - k) /\ i \in Nat /\ i + off \in DOMAIN s BY <1>2, <2>10, <2>11
    <3>2. CASE i = 1
      <4>1. rest[i] = e /\ i + off = k BY <1>2, <2>7, <2>9, <2>10, <3>1, <3>2
      <4>2. QED BY <2>2, <2>4, <3>1, <4>1
    <3>3. CASE i # 1
      <4>1. i - 1 \in 1 .. Len(s) - k /\ ~(i <= 1) /\ (i - 1) + k = i + off BY <1>2, <2>10, <3>1, <3>3
      <4>2. rest[i] = s[i + off] BY <1>5, <2>9, <3>1, <4>1
      <4>3. QED BY <1>3, <3>1, <3>3, <4>2
    <3>4. QED BY <3>2, <3>3
  <2>13. QED BY <2>9, <2>10, <2>11, <2>12 DEF RestFrom
<1>7. CASE ~cut
  <2>1. rest = tail BY <1>1, <1>4, <1>5, <1>7, ConcatEmptySeq
  <2>2. off = k BY <1>0, <1>7
  <2>3. DOMAIN rest = 1 .. Len(s) - off BY <1>5, <2>1, <2>2, EntryOf
  <2>4. ASSUME NEW i \in DOMAIN rest PROVE i + off \in DOMAIN s /\ rest[i] = s[i + off] /\ s[i + off].cuts <= rest[i].cuts
    <3>1. i \in 1 .. Len(s) - k /\ i \in Nat /\ i + off \in DOMAIN s BY <1>2, <2>2, <2>3
    <3>2. rest[i] = s[i + off] BY <1>5, <2>1, <2>2, <3>1
    <3>3. QED BY <1>3, <3>1, <3>2
  <2>5. QED BY <1>2, <1>5, <1>7, <2>1, <2>2, <2>3, <2>4 DEF RestFrom
<1>8. QED BY <1>1, <1>6, <1>7

\* What an admission leaves is a part of the queue, without the complete prompts, and
\* with less before whom it leaves waiting.
LEMMA CutQueue ==
  ASSUME NEW s, NEW k, NEW cut, NEW members, NEW complete, NEW rest,
         IsCut(s, k, cut, members, complete, rest)
  PROVE  /\ IsQueue(rest) /\ UidsOf(rest) \subseteq UidsOf(s)
         /\ members \subseteq UidsOf(s) /\ complete \subseteq members
         /\ complete \cap UidsOf(rest) = {}
<1>0. PICK off : off = Taken(k, cut) OBVIOUS
<1>1. off = IF cut THEN k - 1 ELSE k BY <1>0 DEF Taken
<1>2. /\ rest \in Seq(Entry) /\ off \in Nat /\ DOMAIN rest = 1 .. Len(s) - off
      /\ \A i \in DOMAIN rest :
           /\ i + off \in DOMAIN s /\ rest[i].uid = s[i + off].uid /\ s[i + off].cuts <= rest[i].cuts
           /\ (cut /\ i = 1) => rest[i].cuts = s[k].cuts + 1
  <2>1. RestFrom(s, k, cut, rest, off) BY <1>0, RestIs
  <2>2. QED BY <2>1 DEF RestFrom
<1>3. /\ IsQueue(s) /\ k \in 1 .. Len(s) /\ cut \in BOOLEAN
      /\ members = UidsOf(SubSeq(s, 1, k)) /\ complete = UidsOf(SubSeq(s, 1, IF cut THEN k - 1 ELSE k))
  BY DEF IsCut
<1>4. s \in Seq(Entry) /\ Len(s) \in Nat /\ DOMAIN s = 1 .. Len(s) BY <1>3, EntryOf DEF IsQueue
<1>5. k \in 0 .. Len(s) /\ off \in 0 .. Len(s) /\ off <= k BY <1>1, <1>3, <1>4
<1>6. members = {s[i].uid : i \in 1 .. k} /\ complete = {s[i].uid : i \in 1 .. off}
  BY <1>1, <1>3, <1>4, <1>5, FirstUids
<1>7. PICK f : f = [i \in DOMAIN rest |-> i + off] OBVIOUS
<1>8. IsPart(s, rest, f) BY <1>2, <1>4, <1>7 DEF IsPart
<1>9. IsQueue(rest) /\ UidsOf(rest) \subseteq UidsOf(s) BY <1>2, <1>3, <1>8, PartQueue
<1>10. members \subseteq UidsOf(s) /\ complete \subseteq members BY <1>4, <1>5, <1>6 DEF UidsOf
<1>11. ASSUME NEW u \in complete, u \in UidsOf(rest) PROVE FALSE
  <2>1. PICK i \in 1 .. off : u = s[i].uid BY <1>6
  <2>2. PICK j \in DOMAIN rest : u = rest[j].uid BY <1>11 DEF UidsOf
  <2>3. s[j + off].uid = s[i].uid /\ j + off \in DOMAIN s BY <1>2, <2>1, <2>2
  <2>4. i \in DOMAIN s BY <1>4, <1>5, <2>1
  <2>5. i = j + off BY <1>3, <2>3, <2>4 DEF IsQueue
  <2>6. QED BY <1>2, <1>4, <2>1, <2>2, <2>5
<1>12. QED BY <1>9, <1>10, <1>11

LEMMA CutBefore ==
  ASSUME NEW s, NEW k, NEW cut, NEW members, NEW complete, NEW rest,
         IsCut(s, k, cut, members, complete, rest), NEW T, NEW T1, T1 \subseteq T
  PROVE  /\ Before(rest, T1) \subseteq Before(s, T)
         /\ (T1 \cap members = {} /\ T1 \cap UidsOf(rest) # {}) =>
              \E x \in Before(s, T) : x \notin Before(rest, T1)
<1>0. PICK off : off = Taken(k, cut) OBVIOUS
<1>1. off = IF cut THEN k - 1 ELSE k BY <1>0 DEF Taken
<1>2. /\ rest \in Seq(Entry) /\ off \in Nat /\ DOMAIN rest = 1 .. Len(s) - off
      /\ \A i \in DOMAIN rest :
           /\ i + off \in DOMAIN s /\ rest[i].uid = s[i + off].uid /\ s[i + off].cuts <= rest[i].cuts
           /\ (cut /\ i = 1) => rest[i].cuts = s[k].cuts + 1
  <2>1. RestFrom(s, k, cut, rest, off) BY <1>0, RestIs
  <2>2. QED BY <2>1 DEF RestFrom
<1>3. IsQueue(s) /\ k \in 1 .. Len(s) /\ cut \in BOOLEAN /\ members = UidsOf(SubSeq(s, 1, k))
  BY DEF IsCut
<1>4. s \in Seq(Entry) /\ Len(s) \in Nat /\ DOMAIN s = 1 .. Len(s) BY <1>3, EntryOf DEF IsQueue
<1>5. k \in 0 .. Len(s) /\ off <= k /\ 1 \in DOMAIN s BY <1>1, <1>3, <1>4
<1>6. members = {s[i].uid : i \in 1 .. k} BY <1>3, <1>4, <1>5, FirstUids
<1>7. PICK f : f = [i \in DOMAIN rest |-> i + off] OBVIOUS
<1>8. IsPart(s, rest, f) BY <1>2, <1>4, <1>7 DEF IsPart
<1>9. Before(rest, T1) \subseteq Before(s, T) BY <1>2, <1>4, <1>8, PartBefore
<1>10. ASSUME T1 \cap members = {}, T1 \cap UidsOf(rest) # {}
       PROVE  \E x \in Before(s, T) : x \notin Before(rest, T1)
  <2>1. PICK i \in DOMAIN rest : rest[i].uid \in T1 BY <1>10 DEF UidsOf
  <2>2. PICK j : j = i + off OBVIOUS
  <2>3. j \in DOMAIN s /\ s[j].uid \in T1 /\ j \in Nat BY <1>2, <1>4, <2>1, <2>2
  <2>4. s[j].uid \notin members BY <1>10, <2>3
  <2>5. 1 < j
    <3>1. ~(j \in 1 .. k) BY <1>6, <2>4
    <3>2. QED BY <1>3, <1>4, <2>3, <3>1
  <2>6. PICK x : x = <<s[1].uid, s[1].cuts>> OBVIOUS
  <2>7. x \in Before(s, T)
    <3>1. s[1].uid \in Uids /\ s[1].cuts \in 0 .. MaxCuts /\ s[1].cuts \in Nat BY <1>4, <1>5, EntryOf
    <3>2. x \in Uids \X (0 .. MaxCuts) /\ x[1] = s[1].uid /\ x[2] = s[1].cuts BY <2>6, <3>1
    <3>3. s[1].cuts <= x[2] BY <3>1, <3>2
    <3>4. QED BY <1>5, <2>3, <2>5, <3>2, <3>3 DEF Before
  <2>8. ASSUME x \in Before(rest, T1) PROVE FALSE
    <3>1. PICK m \in DOMAIN rest : rest[m].uid = s[1].uid /\ rest[m].cuts <= s[1].cuts
      BY <2>6, <2>8 DEF Before
    <3>2. m + off \in DOMAIN s /\ s[m + off].uid = s[1].uid BY <1>2, <3>1
    <3>3. m + off = 1 BY <1>3, <1>5, <3>2 DEF IsQueue
    <3>4. m = 1 /\ off = 0 BY <1>2, <1>4, <3>1, <3>3
    <3>5. cut /\ k = 1 BY <1>1, <1>3, <1>4, <3>4
    <3>6. rest[m].cuts = s[1].cuts + 1 BY <1>2, <3>1, <3>4, <3>5
    <3>7. s[1].cuts \in Nat BY <1>4, <1>5, EntryOf
    <3>8. QED BY <3>1, <3>6, <3>7
  <2>9. QED BY <2>7, <2>8
<1>11. QED BY <1>9, <1>10


\* The queue without one of its entries.
LEMMA RemovedQueue ==
  ASSUME NEW s, IsQueue(s), NEW i \in DOMAIN s, NEW s1, s1 = RemoveAt(s, i)
  PROVE  /\ IsQueue(s1) /\ UidsOf(s1) \subseteq UidsOf(s) \ {s[i].uid}
         /\ \A T, T1 : T1 \subseteq T => Before(s1, T1) \subseteq Before(s, T)
<1>1. s \in Seq(Entry) /\ Len(s) \in Nat /\ DOMAIN s = 1 .. Len(s) BY EntryOf DEF IsQueue
<1>2. i \in Nat /\ 1 <= i /\ i <= Len(s) BY <1>1
<1>3. PICK a, b : a = SubSeq(s, 1, i - 1) /\ b = SubSeq(s, i + 1, Len(s)) OBVIOUS
<1>4. a \in Seq(Entry) /\ Len(a) = i - 1 /\ \A k \in 1 .. i - 1 : a[k] = s[k]
  <2>1. PICK m, n : m = 1 /\ n = i - 1 OBVIOUS
  <2>2. m \in 1 .. Len(s) + 1 /\ n \in m - 1 .. Len(s) BY <1>1, <1>2, <2>1
  <2>3. /\ SubSeq(s, m, n) \in Seq(Entry) /\ Len(SubSeq(s, m, n)) = n - m + 1
        /\ \A k \in 1 .. n - m + 1 : SubSeq(s, m, n)[k] = s[m + k - 1]
    BY ONLY <1>1, <2>2, SubSeqProperties
  <2>4. n - m + 1 = i - 1 /\ \A k \in 1 .. i - 1 : m + k - 1 = k BY <1>2, <2>1
  <2>5. QED BY <1>3, <2>1, <2>3, <2>4
<1>5. b \in Seq(Entry) /\ Len(b) = Len(s) - i /\ \A k \in 1 .. Len(s) - i : b[k] = s[k + i]
  <2>1. PICK m, n : m = i + 1 /\ n = Len(s) OBVIOUS
  <2>2. m \in 1 .. Len(s) + 1 /\ n \in m - 1 .. Len(s) BY <1>1, <1>2, <2>1
  <2>3. /\ SubSeq(s, m, n) \in Seq(Entry) /\ Len(SubSeq(s, m, n)) = n - m + 1
        /\ \A k \in 1 .. n - m + 1 : SubSeq(s, m, n)[k] = s[m + k - 1]
    BY ONLY <1>1, <2>2, SubSeqProperties
  <2>4. n - m + 1 = Len(s) - i /\ \A k \in 1 .. Len(s) - i : m + k - 1 = k + i BY <1>1, <1>2, <2>1
  <2>5. QED BY <1>3, <2>1, <2>3, <2>4
<1>6. s1 = a \o b BY <1>3 DEF RemoveAt
<1>7. /\ s1 \in Seq(Entry) /\ Len(s1) = Len(s) - 1
      /\ \A k \in 1 .. Len(s) - 1 : s1[k] = IF k < i THEN s[k] ELSE s[k + 1]
  <2>1. /\ Len(a \o b) = Len(a) + Len(b) /\ a \o b \in Seq(Entry)
        /\ \A k \in 1 .. Len(a) + Len(b) : (a \o b)[k] = IF k <= Len(a) THEN a[k] ELSE b[k - Len(a)]
    BY <1>4, <1>5, ConcatProperties
  <2>2. Len(a) + Len(b) = Len(s) - 1 BY <1>1, <1>2, <1>4, <1>5
  <2>3. ASSUME NEW k \in 1 .. Len(s) - 1 PROVE s1[k] = IF k < i THEN s[k] ELSE s[k + 1]
    <3>1. s1[k] = IF k <= i - 1 THEN a[k] ELSE b[k - (i - 1)] BY <1>4, <1>6, <2>1, <2>2
    <3>2. CASE k < i
      <4>1. k <= i - 1 /\ k \in 1 .. i - 1 BY <1>1, <1>2, <3>2
      <4>2. QED BY <1>4, <3>1, <3>2, <4>1
    <3>3. CASE ~(k < i)
      <4>1. ~(k <= i - 1) /\ k - (i - 1) \in 1 .. Len(s) - i /\ k - (i - 1) + i = k + 1 BY <1>1, <1>2, <3>3
      <4>2. QED BY <1>5, <3>1, <3>3, <4>1
    <3>4. QED BY <3>2, <3>3
  <2>4. QED BY <1>6, <2>1, <2>2, <2>3
<1>8. DOMAIN s1 = 1 .. Len(s) - 1 BY <1>7, EntryOf
<1>9. PICK f : f = [k \in DOMAIN s1 |-> IF k < i THEN k ELSE k + 1] OBVIOUS
<1>10. IsPart(s, s1, f)
  <2>1. ASSUME NEW k \in DOMAIN s1
        PROVE  f[k] \in DOMAIN s /\ s1[k] = s[f[k]] /\ s[f[k]].cuts \in Nat
    <3>1. f[k] \in DOMAIN s /\ s1[k] = s[f[k]] BY <1>1, <1>2, <1>7, <1>8, <1>9
    <3>2. QED BY <1>1, <3>1, EntryOf
  <2>2. ASSUME NEW k \in DOMAIN s1, NEW l \in DOMAIN s1, k < l PROVE f[k] < f[l]
    BY <1>1, <1>2, <1>8, <1>9, <2>2
  <2>3. QED BY <2>1, <2>2 DEF IsPart
<1>11. IsQueue(s1) /\ UidsOf(s1) \subseteq UidsOf(s) BY <1>7, <1>10, PartQueue
<1>12. s[i].uid \notin UidsOf(s1)
  <2>1. SUFFICES ASSUME NEW k \in DOMAIN s1, s1[k].uid = s[i].uid PROVE FALSE BY DEF UidsOf
  <2>2. f[k] \in DOMAIN s /\ s[f[k]].uid = s[i].uid BY <1>10, <2>1 DEF IsPart
  <2>3. f[k] = i BY <2>2 DEF IsQueue
  <2>4. QED BY <1>1, <1>2, <1>8, <1>9, <2>3
<1>13. \A T, T1 : T1 \subseteq T => Before(s1, T1) \subseteq Before(s, T) BY <1>1, <1>7, <1>10, PartBefore
<1>14. QED BY <1>11, <1>12, <1>13

\* Who comes waits behind everybody.
LEMMA AppendedQueue ==
  ASSUME NEW s, IsQueue(s), NEW e \in Entry, e.uid \notin UidsOf(s), NEW s1, s1 = Append(s, e)
  PROVE  /\ IsQueue(s1) /\ UidsOf(s1) = UidsOf(s) \cup {e.uid}
         /\ \A T, T1 : T1 \subseteq T /\ e.uid \notin T1 => Before(s1, T1) \subseteq Before(s, T)
<1>1. s \in Seq(Entry) /\ Len(s) \in Nat /\ DOMAIN s = 1 .. Len(s) BY EntryOf DEF IsQueue
<1>2. /\ s1 \in Seq(Entry) /\ Len(s1) = Len(s) + 1
      /\ \A i \in 1 .. Len(s) : s1[i] = s[i]
      /\ s1[Len(s) + 1] = e
  BY <1>1, AppendProperties
<1>3. DOMAIN s1 = 1 .. Len(s) + 1 BY <1>2, EntryOf
<1>4. \A i \in DOMAIN s1 : i \in DOMAIN s \/ i = Len(s) + 1 BY <1>1, <1>3
<1>5. \A i \in DOMAIN s : i \in DOMAIN s1 /\ s1[i] = s[i] BY <1>1, <1>2, <1>3
<1>6. Len(s) + 1 \in DOMAIN s1 BY <1>1, <1>3
<1>7. UidsOf(s1) = UidsOf(s) \cup {e.uid}
  <2>1. \A i \in DOMAIN s1 : s1[i].uid \in UidsOf(s) \cup {e.uid} BY <1>2, <1>4, <1>5 DEF UidsOf
  <2>2. \A i \in DOMAIN s : s[i].uid \in UidsOf(s1) BY <1>5 DEF UidsOf
  <2>3. e.uid \in UidsOf(s1) BY <1>2, <1>6 DEF UidsOf
  <2>4. QED BY <2>1, <2>2, <2>3 DEF UidsOf
<1>8. IsQueue(s1)
  <2>1. ASSUME NEW i \in DOMAIN s1, NEW j \in DOMAIN s1, s1[i].uid = s1[j].uid PROVE i = j
    <3>1. \A k \in DOMAIN s : s[k].uid # e.uid BY DEF UidsOf
    <3>2. CASE i \in DOMAIN s /\ j \in DOMAIN s BY <1>5, <2>1, <3>2 DEF IsQueue
    <3>3. CASE i = Len(s) + 1 /\ j = Len(s) + 1 BY <3>3
    <3>4. CASE i \in DOMAIN s /\ j = Len(s) + 1 BY <1>2, <1>5, <2>1, <3>1, <3>4
    <3>5. CASE i = Len(s) + 1 /\ j \in DOMAIN s BY <1>2, <1>5, <2>1, <3>1, <3>5
    <3>6. QED BY <1>4, <3>2, <3>3, <3>4, <3>5
  <2>2. QED BY <1>2, <2>1 DEF IsQueue
<1>9. ASSUME NEW T, NEW T1, T1 \subseteq T, e.uid \notin T1 PROVE Before(s1, T1) \subseteq Before(s, T)
  <2>1. SUFFICES ASSUME NEW x \in Before(s1, T1) PROVE x \in Before(s, T) OBVIOUS
  <2>2. x \in Uids \X (0 .. MaxCuts) BY <2>1 DEF Before
  <2>3. PICK i \in DOMAIN s1, j \in DOMAIN s1 :
          i < j /\ s1[i].uid = x[1] /\ s1[i].cuts <= x[2] /\ s1[j].uid \in T1
    BY <2>1 DEF Before
  <2>4. j \in DOMAIN s BY <1>2, <1>4, <1>9, <2>3
  <2>5. i \in DOMAIN s BY <1>1, <1>3, <2>3, <2>4
  <2>6. i < j /\ s[i].uid = x[1] /\ s[i].cuts <= x[2] /\ s[j].uid \in T BY <1>5, <1>9, <2>3, <2>4, <2>5
  <2>7. QED BY <2>2, <2>4, <2>5, <2>6 DEF Before
<1>10. QED BY <1>7, <1>8, <1>9

-----------------------------------------------------------------------------
(* Costs.                                                                  *)

\* A nonempty set of numbers up to n has a largest element.
LEMMA Largest ==
  ASSUME NEW n \in Nat, NEW S, S \subseteq 0 .. n, S # {}
  PROVE  \E x \in S : \A y \in S : y <= x
<1>1. PICK D : D = {n - x : x \in S} OBVIOUS
<1>2. D \subseteq Nat /\ D # {}
  <2>1. \A x \in S : x \in Nat /\ n - x \in Nat OBVIOUS
  <2>2. PICK x \in S : TRUE OBVIOUS
  <2>3. n - x \in D BY <1>1
  <2>4. \A d \in D : d \in Nat BY <1>1, <2>1
  <2>5. QED BY <2>3, <2>4
<1>3. IsWellFoundedOn(OpToRel(<, Nat), Nat) BY NatLessThanWellFounded
<1>4. PICK d \in D : \A c \in D : ~(<<c, d>> \in OpToRel(<, Nat)) BY <1>2, <1>3, WFMin
<1>5. \A c \in D : ~(c < d) BY <1>2, <1>4 DEF OpToRel
<1>6. PICK x \in S : d = n - x BY <1>1
<1>7. ASSUME NEW y \in S PROVE y <= x
  <2>1. n - y \in D BY <1>1
  <2>2. ~(n - y < n - x) BY <1>5, <1>6, <2>1
  <2>3. x \in Nat /\ y \in Nat OBVIOUS
  <2>4. QED BY <2>2, <2>3
<1>8. QED BY <1>7

\* The batches before and with the last of T.
QueueCost(q, T) == IF T = {} THEN 0 ELSE Cardinality(Before(q, T)) + 1

LEMMA Products ==
  /\ \A m \in Nat : \A a, b \in Int : a <= b => m * a <= m * b
  /\ \A m \in Nat : \A a, b \in Int : a + 1 <= b => m * a + m <= m * b
<1>1. ASSUME NEW m \in Nat, NEW a \in Int, NEW b \in Int, a <= b PROVE m * a <= m * b
  <2>1. PICK d \in Nat : d = b - a BY <1>1
  <2>2. m * d \in Nat OBVIOUS
  <2>3. m * b = m * a + m * d
    <3>1. b = a + d BY <2>1
    <3>2. m * (a + d) = m * a + m * d OBVIOUS
    <3>3. QED BY <3>1, <3>2
  <2>4. m * a \in Int /\ m * b \in Int OBVIOUS
  <2>5. QED BY <2>2, <2>3, <2>4
<1>2. ASSUME NEW m \in Nat, NEW a \in Int, NEW b \in Int, a + 1 <= b PROVE m * a + m <= m * b
  <2>1. m * (a + 1) <= m * b BY <1>1, <1>2
  <2>2. m * (a + 1) = m * a + m OBVIOUS
  <2>3. QED BY <2>1, <2>2
<1>3. QED BY <1>1, <1>2

\* Two uids outside of S leave room for a batch more.
LEMMA RoomLeft ==
  ASSUME NEW S, S \subseteq Uids, NEW u \in Uids, u \notin S
  PROVE  /\ Cardinality(S) \in Nat /\ QueueBatches \in Nat
         /\ Cardinality(S) * (MaxCuts + 1) <= QueueBatches
         /\ \A w \in Uids : w # u /\ w \notin S => Cardinality(S) * (MaxCuts + 1) + 1 <= QueueBatches
<1>1. PICK n, m : n = Cardinality(Uids) /\ m = MaxCuts + 1 OBVIOUS
<1>2. n \in Nat /\ m \in Nat /\ m >= 1 /\ IsFiniteSet(Uids) BY <1>1, Constants, FS_CardinalityType
<1>3. IsFiniteSet(Uids \ {u}) /\ Cardinality(Uids \ {u}) = n - 1 BY <1>1, <1>2, FS_RemoveElement
<1>4. n - 1 \in Nat BY <1>3, FS_CardinalityType
<1>5. S \subseteq Uids \ {u} OBVIOUS
<1>6. PICK c : c = Cardinality(S) OBVIOUS
<1>7. c \in Nat /\ c <= n - 1 BY <1>3, <1>5, <1>6, FS_Subset, FS_CardinalityType
<1>8. QueueBatches = (n - 1) * m BY <1>1 DEF QueueBatches
<1>9. (n - 1) * m \in Nat BY <1>2, <1>4
<1>10. c * m <= (n - 1) * m
  <2>1. m * c <= m * (n - 1) BY <1>2, <1>4, <1>7, Products
  <2>2. m * c = c * m /\ m * (n - 1) = (n - 1) * m BY <1>2, <1>4, <1>7
  <2>3. QED BY <2>1, <2>2
<1>11. ASSUME NEW w \in Uids, w # u, w \notin S PROVE c * m + 1 <= (n - 1) * m
  <2>1. PICK R : R = Uids \ {u} OBVIOUS
  <2>2. w \in R /\ IsFiniteSet(R) /\ Cardinality(R) = n - 1 BY <1>3, <1>11, <2>1
  <2>3. IsFiniteSet(R \ {w}) /\ Cardinality(R \ {w}) = n - 1 - 1 BY <2>2, FS_RemoveElement
  <2>4. S \subseteq R \ {w} BY <1>11, <2>1
  <2>5. c <= n - 1 - 1 BY <1>6, <2>3, <2>4, FS_Subset
  <2>6. c + 1 <= n - 1 BY <1>2, <1>7, <2>5
  <2>7. m * c + m <= m * (n - 1) BY <1>2, <1>4, <1>7, <2>6, Products
  <2>8. m * c = c * m /\ m * (n - 1) = (n - 1) * m /\ m * c \in Nat BY <1>2, <1>4, <1>7
  <2>9. QED BY <1>2, <1>9, <2>7, <2>8
<1>12. QED BY <1>1, <1>6, <1>7, <1>8, <1>9, <1>10, <1>11


\* The cost is at most what the queue can hold beside somebody who is not in it.
LEMMA CostBound ==
  ASSUME NEW q, IsQueue(q), NEW u \in Uids, u \notin UidsOf(q), NEW T, T \subseteq UidsOf(q)
  PROVE  /\ QueueBatches \in Nat /\ QueueCost(q, T) \in Nat /\ QueueCost(q, T) <= QueueBatches
<1>1. q \in Seq(Entry) /\ Len(q) \in Nat /\ DOMAIN q = 1 .. Len(q) BY EntryOf DEF IsQueue
<1>2. \A i \in DOMAIN q : q[i].uid \in Uids /\ q[i].uid \in UidsOf(q) BY <1>1, EntryOf DEF UidsOf
<1>3. CASE T = {}
  <2>1. PICK S : S = {} OBVIOUS
  <2>2. S \subseteq Uids /\ u \notin S BY <2>1
  <2>3. QueueBatches \in Nat BY <2>2, RoomLeft
  <2>4. QED BY <1>3, <2>3 DEF QueueCost
<1>4. CASE T # {}
  <2>1. PICK P : P = {i \in DOMAIN q : q[i].uid \in T} OBVIOUS
  <2>2. P # {} BY <1>4, <2>1 DEF UidsOf
  <2>3. P \subseteq 0 .. Len(q) BY <1>1, <2>1
  <2>4. PICK l \in P : \A i \in P : i <= l BY <1>1, <2>2, <2>3, Largest
  <2>5. l \in DOMAIN q /\ l \in Nat BY <1>1, <2>1
  <2>6. PICK w : w = q[l].uid OBVIOUS
  <2>7. w \in Uids /\ w # u BY <1>2, <2>5, <2>6
  <2>8. PICK S : S = UidsOf(q) \ {w} OBVIOUS
  <2>9. S \subseteq Uids /\ u \notin S /\ w \notin S BY <1>2, <2>8 DEF UidsOf
  <2>10. ASSUME NEW i \in DOMAIN q, NEW j \in DOMAIN q, i < j, q[j].uid \in T PROVE q[i].uid \in S
    <3>1. j <= l BY <2>1, <2>4, <2>10
    <3>2. i # l BY <1>1, <2>5, <2>10, <3>1
    <3>3. q[i].uid # w BY <2>5, <2>6, <3>2 DEF IsQueue
    <3>4. QED BY <1>2, <2>8, <3>3
  <2>11. /\ Cardinality(Before(q, T)) \in Nat /\ Cardinality(S) \in Nat
         /\ Cardinality(Before(q, T)) <= Cardinality(S) * (MaxCuts + 1)
    BY <2>9, <2>10, BeforeCount
  <2>12. QueueBatches \in Nat /\ Cardinality(S) * (MaxCuts + 1) + 1 <= QueueBatches
    BY <2>7, <2>9, RoomLeft
  <2>13. PICK a, b : a = Cardinality(Before(q, T)) /\ b = Cardinality(S) * (MaxCuts + 1) OBVIOUS
  <2>14. a \in Nat /\ b \in Nat /\ a <= b /\ b + 1 <= QueueBatches
    BY <2>11, <2>12, <2>13, Constants
  <2>15. QueueCost(q, T) = a + 1 BY <1>4, <2>13 DEF QueueCost
  <2>16. QED BY <2>12, <2>14, <2>15
<1>5. QED BY <1>3, <1>4

\* It does not grow with less before.
LEMMA CostPart ==
  ASSUME NEW q, IsQueue(q), NEW q1, IsQueue(q1), NEW T, NEW T1, T1 \subseteq T,
         Before(q1, T1) \subseteq Before(q, T)
  PROVE  QueueCost(q1, T1) <= QueueCost(q, T) /\ QueueCost(q1, T1) \in Nat /\ QueueCost(q, T) \in Nat
<1>1. PICK S : S = Uids OBVIOUS
<1>2. \A i, j \in DOMAIN q : i < j /\ q[j].uid \in T => q[i].uid \in S BY <1>1, EntryOf DEF IsQueue
<1>3. IsFiniteSet(Before(q, T)) /\ Cardinality(Before(q, T)) \in Nat BY <1>1, <1>2, BeforeCount
<1>4. IsFiniteSet(Before(q1, T1)) /\ Cardinality(Before(q1, T1)) <= Cardinality(Before(q, T)) BY <1>3, FS_Subset
<1>5. Cardinality(Before(q1, T1)) \in Nat BY <1>4, FS_CardinalityType
<1>6. PICK a, b : a = Cardinality(Before(q1, T1)) /\ b = Cardinality(Before(q, T)) OBVIOUS
<1>7. a \in Nat /\ b \in Nat /\ a <= b BY <1>3, <1>4, <1>5, <1>6
<1>8. QueueCost(q1, T1) = (IF T1 = {} THEN 0 ELSE a + 1) /\ QueueCost(q, T) = IF T = {} THEN 0 ELSE b + 1
  BY <1>6 DEF QueueCost
<1>9. QED BY <1>7, <1>8

\* An admission takes a batch off it.
LEMMA CostCut ==
  ASSUME NEW s, NEW k, NEW cut, NEW members, NEW complete, NEW rest,
         IsCut(s, k, cut, members, complete, rest), NEW T, NEW T1, T1 \subseteq T, T # {},
         T1 \cap members = {}, T1 \subseteq UidsOf(rest)
  PROVE  /\ QueueCost(rest, T1) + 1 <= QueueCost(s, T)
         /\ QueueCost(rest, T1) \in Nat /\ QueueCost(s, T) \in Nat
<1>1. IsQueue(s) BY DEF IsCut
<1>2. PICK S : S = Uids OBVIOUS
<1>3. \A i, j \in DOMAIN s : i < j /\ s[j].uid \in T => s[i].uid \in S BY <1>1, <1>2, EntryOf DEF IsQueue
<1>4. IsFiniteSet(Before(s, T)) /\ Cardinality(Before(s, T)) \in Nat BY <1>1, <1>2, <1>3, BeforeCount
<1>5. QueueCost(s, T) = Cardinality(Before(s, T)) + 1 BY DEF QueueCost
<1>6. CASE T1 = {}
  <2>1. QueueCost(rest, T1) = 0 BY <1>6 DEF QueueCost
  <2>2. QED BY <1>4, <1>5, <2>1
<1>7. CASE T1 # {}
  <2>1. T1 \cap UidsOf(rest) # {} BY <1>7
  <2>2. Before(rest, T1) \subseteq Before(s, T) /\ \E x \in Before(s, T) : x \notin Before(rest, T1)
    BY <2>1, CutBefore
  <2>3. /\ Cardinality(Before(rest, T1)) + 1 <= Cardinality(Before(s, T))
        /\ Cardinality(Before(rest, T1)) \in Nat
    BY <1>4, <2>2, FewerBefore
  <2>4. QueueCost(rest, T1) = Cardinality(Before(rest, T1)) + 1 BY <1>7 DEF QueueCost
  <2>5. QED BY <1>4, <1>5, <2>3, <2>4
<1>8. QED BY <1>6, <1>7

-----------------------------------------------------------------------------
(* Who has waited longest.                                                 *)

\* Ages up to the bound have a largest.
LEMMA OldestIs ==
  ASSUME NEW D, NEW f \in [D -> 0 .. MaxAge], D # {}
  PROVE  /\ Oldest(f) \in 0 .. MaxAge /\ \A u \in D : f[u] <= Oldest(f)
         /\ \E u \in D : f[u] = Oldest(f)
<1>1. PICK S : S = {f[u] : u \in D} OBVIOUS
<1>2. S \subseteq 0 .. MaxAge /\ S # {} BY <1>1
<1>3. PICK x \in S : \A y \in S : y <= x BY <1>2, Constants, Largest
<1>4. DOMAIN f = D OBVIOUS
<1>5. \E a \in S : \A u \in DOMAIN f : f[u] <= a BY <1>1, <1>3, <1>4
<1>6. Oldest(f) = CHOOSE a \in S : \A u \in DOMAIN f : f[u] <= a BY <1>1, <1>4 DEF Oldest
<1>7. Oldest(f) \in S /\ \A u \in DOMAIN f : f[u] <= Oldest(f) BY <1>5, <1>6
<1>8. QED BY <1>1, <1>2, <1>4, <1>7

\* wait_since under the policy wait_time.
Ages(q, run, idle) == [prefill |-> [u \in UidsOf(q) |-> idle[u]], decode |-> [u \in run |-> idle[u]]]

\* The queued who wait longer than u.
Older(q, idle, u) == {v \in UidsOf(q) : idle[v] > idle[u]}

\* What the thresholds favour decode by.
Lead == Larger(PrefillWait - DecodeWait, 0)

\* Somebody runs to whom v loses.
Loses(run, idle, v) == \E u \in run : idle[v] <= idle[u] + Lead

IsWaiting(q, run, idle) ==
  /\ IsQueue(q) /\ run \subseteq Uids /\ UidsOf(q) \cap run = {} /\ idle \in [Uids -> 0 .. MaxAge]

LEMMA LeadIs == Lead \in Nat /\ PrefillWait - DecodeWait <= Lead
BY Constants DEF Lead, Larger

LEMMA UidsOfQueue ==
  ASSUME NEW q, IsQueue(q)
  PROVE  UidsOf(q) \subseteq Uids
BY EntryOf DEF IsQueue, UidsOf

\* Overdue decoding only waits for somebody who waited longer.
LEMMA PrefillPreferred ==
  ASSUME NEW q, NEW run, NEW idle, IsWaiting(q, run, idle), Policy = "wait_time",
         DecodeWait <= PrefillWait, Preferred(Ages(q, run, idle)) = "prefill",
         NEW u \in run, idle[u] >= DecodeWait
  PROVE  Older(q, idle, u) # {}
<1>1. PICK p, d : p = [v \in UidsOf(q) |-> idle[v]] /\ d = [v \in run |-> idle[v]] OBVIOUS
<1>2. Ages(q, run, idle).prefill = p /\ Ages(q, run, idle).decode = d BY <1>1 DEF Ages
<1>3. p \in [UidsOf(q) -> 0 .. MaxAge] /\ d \in [run -> 0 .. MaxAge] BY <1>1, UidsOfQueue DEF IsWaiting
<1>4. /\ Oldest(d) \in 0 .. MaxAge /\ \A v \in run : d[v] <= Oldest(d)
      /\ \E v \in run : d[v] = Oldest(d)
  BY <1>3, OldestIs
<1>5. idle[u] \in Nat /\ d[u] = idle[u] /\ DOMAIN d = run /\ DOMAIN p = UidsOf(q)
  BY <1>1, <1>3, Constants
<1>6. Oldest(d) >= DecodeWait /\ Oldest(d) >= idle[u] /\ Oldest(d) \in Nat BY <1>4, <1>5, Constants
<1>7. Overdue(d, DecodeWait) BY <1>5, <1>6 DEF Overdue
<1>8. Overdue(p, PrefillWait) /\ ~(Oldest(d) - DecodeWait >= Oldest(p) - PrefillWait)
  BY <1>2, <1>7 DEF Preferred
<1>9. UidsOf(q) # {} BY <1>5, <1>8 DEF Overdue
<1>10. /\ Oldest(p) \in 0 .. MaxAge /\ \A v \in UidsOf(q) : p[v] <= Oldest(p)
       /\ \E v \in UidsOf(q) : p[v] = Oldest(p)
  BY <1>3, <1>9, OldestIs
<1>11. PICK v \in UidsOf(q) : p[v] = Oldest(p) BY <1>10
<1>12. idle[v] = Oldest(p) /\ Oldest(p) \in Nat BY <1>1, <1>10, <1>11, Constants
<1>13. idle[v] > idle[u] BY <1>5, <1>6, <1>8, <1>12, Constants
<1>14. QED BY <1>13 DEF Older

\* Decoding is preferred to those only who lose to somebody.
LEMMA DecodePreferred ==
  ASSUME NEW q, NEW run, NEW idle, IsWaiting(q, run, idle), Policy = "wait_time",
         Preferred(Ages(q, run, idle)) = "decode", NEW v \in UidsOf(q)
  PROVE  Loses(run, idle, v)
<1>1. PICK p, d : p = [w \in UidsOf(q) |-> idle[w]] /\ d = [w \in run |-> idle[w]] OBVIOUS
<1>2. Ages(q, run, idle).prefill = p /\ Ages(q, run, idle).decode = d BY <1>1 DEF Ages
<1>3. p \in [UidsOf(q) -> 0 .. MaxAge] /\ d \in [run -> 0 .. MaxAge] BY <1>1, UidsOfQueue DEF IsWaiting
<1>4. DOMAIN d = run /\ DOMAIN p = UidsOf(q) /\ p[v] = idle[v] /\ idle[v] \in Nat BY <1>1, <1>3, Constants
<1>5. /\ Overdue(d, DecodeWait)
      /\ Overdue(p, PrefillWait) => Oldest(d) - DecodeWait >= Oldest(p) - PrefillWait
  BY <1>2 DEF Preferred
<1>6. run # {} /\ Oldest(d) >= DecodeWait BY <1>4, <1>5 DEF Overdue
<1>7. Oldest(d) \in 0 .. MaxAge /\ \A w \in run : d[w] <= Oldest(d) /\ \E w1 \in run : d[w1] = Oldest(d)
  BY <1>3, <1>6, OldestIs
<1>8. PICK u \in run : d[u] = Oldest(d)
  <2>1. PICK w \in run : TRUE BY <1>6
  <2>2. QED BY <1>7, <2>1
<1>9. idle[u] = Oldest(d) /\ Oldest(d) \in Nat BY <1>1, <1>7, <1>8, Constants
<1>10. UidsOf(q) # {} OBVIOUS
<1>11. Oldest(p) \in 0 .. MaxAge /\ (\A w \in UidsOf(q) : p[w] <= Oldest(p)) /\ \E w \in UidsOf(q) : p[w] = Oldest(p)
  BY <1>3, <1>10, OldestIs
<1>12. Oldest(p) \in Nat /\ idle[v] <= Oldest(p) BY <1>4, <1>11, Constants
<1>13. idle[v] <= idle[u] + Lead
  <2>1. CASE Oldest(p) >= PrefillWait
    <3>1. Oldest(d) - DecodeWait >= Oldest(p) - PrefillWait BY <1>4, <1>5, <1>10, <2>1 DEF Overdue
    <3>2. QED BY <1>4, <1>9, <1>12, <3>1, LeadIs, Constants
  <2>2. CASE ~(Oldest(p) >= PrefillWait)
    BY <1>4, <1>6, <1>9, <1>12, <2>2, LeadIs, Constants
  <2>3. QED BY <2>1, <2>2
<1>14. QED BY <1>13 DEF Loses


-----------------------------------------------------------------------------
(* The two bounds, for a request that runs and for one that is queued.     *)

\* A cost leaves that many batches of MaxStep ticks.
Slack(c) == MaxStep * (QueueBatches - c)

LEMMA SlackIs ==
  ASSUME QueueBatches \in Nat, NEW c \in Nat
  PROVE  /\ Slack(c) \in Int /\ Slack(c) <= MaxStep * QueueBatches
         /\ c <= QueueBatches => Slack(c) >= 0
         /\ \A b \in Nat : (b <= c => Slack(c) <= Slack(b)) /\ (b + 1 <= c => Slack(c) + MaxStep <= Slack(b))
<1>1. PICK m, n : m = MaxStep /\ n = QueueBatches OBVIOUS
<1>2. m \in Nat /\ n \in Nat BY <1>1, Constants
<1>3. \A b \in Nat : Slack(b) = m * (n - b) /\ n - b \in Int BY <1>1, <1>2 DEF Slack
<1>4. Slack(c) \in Int BY <1>2, <1>3
<1>5. m * (n - c) <= m * n BY <1>2, <1>3, Products
<1>6. ASSUME c <= n PROVE m * (n - c) >= 0
  <2>1. n - c \in Nat BY <1>2, <1>6
  <2>2. QED BY <1>2, <2>1
<1>7. ASSUME NEW b \in Nat
      PROVE  (b <= c => m * (n - c) <= m * (n - b)) /\ (b + 1 <= c => m * (n - c) + m <= m * (n - b))
  <2>1. (b <= c => n - c <= n - b) /\ (b + 1 <= c => (n - c) + 1 <= n - b) BY <1>2
  <2>2. QED BY <1>2, <1>3, <2>1, Products
<1>8. QED BY <1>1, <1>3, <1>4, <1>5, <1>6, <1>7

\* A decode step waits for those who waited longer, or for the threshold.
Within(q, idle, t, u) ==
  \/ idle[u] <= Slack(QueueCost(q, Older(q, idle, u))) + t
  \/ Older(q, idle, u) = {} /\ idle[u] < DecodeWait + t

\* A queued request waits for those before it, and for decoding while it loses.
PrefillCost(q, run, idle, v) == Cardinality(Before(q, {v})) + (IF Loses(run, idle, v) THEN 1 ELSE 0)

PrefillWithin(q, run, idle, t, v) == idle[v] <= Lead + Slack(PrefillCost(q, run, idle, v)) + t

LEMMA WaitingIs ==
  ASSUME NEW q, NEW run, NEW idle, IsWaiting(q, run, idle)
  PROVE  /\ IsQueue(q) /\ UidsOf(q) \subseteq Uids
         /\ \A u \in run : u \in Uids /\ u \notin UidsOf(q) /\ idle[u] \in Nat
         /\ \A u \in UidsOf(q) : u \in Uids /\ u \notin run /\ idle[u] \in Nat
<1>1. UidsOf(q) \subseteq Uids BY UidsOfQueue DEF IsWaiting
<1>2. \A u \in Uids : idle[u] \in Nat BY Constants DEF IsWaiting
<1>3. QED BY <1>1, <1>2 DEF IsWaiting

LEMMA OlderCost ==
  ASSUME NEW q, NEW run, NEW idle, IsWaiting(q, run, idle), NEW u \in run
  PROVE  /\ Older(q, idle, u) \subseteq UidsOf(q) /\ QueueBatches \in Nat
         /\ QueueCost(q, Older(q, idle, u)) \in Nat /\ QueueCost(q, Older(q, idle, u)) <= QueueBatches
<1>1. PICK T : T = Older(q, idle, u) OBVIOUS
<1>2. T \subseteq UidsOf(q) BY <1>1 DEF Older
<1>3. IsQueue(q) /\ u \in Uids /\ u \notin UidsOf(q) BY WaitingIs
<1>4. QueueBatches \in Nat /\ QueueCost(q, T) \in Nat /\ QueueCost(q, T) <= QueueBatches
  BY <1>2, <1>3, CostBound
<1>5. QED BY <1>1, <1>2, <1>4

LEMMA PrefillCostIs ==
  ASSUME NEW q, NEW run, NEW idle, IsWaiting(q, run, idle), NEW v \in UidsOf(q)
  PROVE  /\ QueueBatches \in Nat /\ Cardinality(Before(q, {v})) \in Nat /\ IsFiniteSet(Before(q, {v}))
         /\ PrefillCost(q, run, idle, v) \in Nat /\ PrefillCost(q, run, idle, v) <= QueueBatches
<1>1. IsQueue(q) /\ UidsOf(q) \subseteq Uids /\ v \in Uids BY WaitingIs
<1>2. PICK S, T : S = Uids \ {v} /\ T = {v} OBVIOUS
<1>3. S \subseteq Uids /\ v \notin S BY <1>2
<1>4. ASSUME NEW i \in DOMAIN q, NEW j \in DOMAIN q, i < j, q[j].uid \in T PROVE q[i].uid \in S
  <2>1. q[i].uid \in Uids BY <1>1, EntryOf DEF IsQueue
  <2>2. i # j
    <3>1. i \in Nat /\ j \in Nat BY <1>1, EntryOf DEF IsQueue
    <3>2. QED BY <1>4, <3>1
  <2>3. q[i].uid # q[j].uid BY <1>1, <2>2 DEF IsQueue
  <2>4. QED BY <1>2, <1>4, <2>1, <2>3
<1>5. /\ IsFiniteSet(Before(q, T)) /\ Cardinality(Before(q, T)) \in Nat /\ Cardinality(S) \in Nat
      /\ Cardinality(Before(q, T)) <= Cardinality(S) * (MaxCuts + 1)
  BY <1>1, <1>3, <1>4, BeforeCount
<1>6. QueueBatches \in Nat /\ Cardinality(S) * (MaxCuts + 1) <= QueueBatches BY <1>1, <1>3, RoomLeft
<1>7. PICK a, b, l : /\ a = Cardinality(Before(q, T)) /\ b = Cardinality(S) * (MaxCuts + 1)
                     /\ l = (IF Loses(run, idle, v) THEN 1 ELSE 0)
  OBVIOUS
<1>8. a \in Nat /\ b \in Nat /\ l \in 0 .. 1 /\ a <= b /\ b <= QueueBatches
  BY <1>5, <1>6, <1>7, Constants
<1>9. PrefillCost(q, run, idle, v) = a + l BY <1>2, <1>7 DEF PrefillCost
<1>10. ASSUME Loses(run, idle, v) PROVE a + 1 <= QueueBatches
  <2>1. PICK u \in run : TRUE BY <1>10 DEF Loses
  <2>2. u \in Uids /\ u \notin UidsOf(q) BY WaitingIs
  <2>3. T \subseteq UidsOf(q) /\ T # {} BY <1>2
  <2>4. QueueCost(q, T) <= QueueBatches BY <1>1, <2>2, <2>3, CostBound
  <2>5. QED BY <1>7, <2>3, <2>4 DEF QueueCost
<1>11. a + l <= QueueBatches
  <2>1. CASE Loses(run, idle, v) BY <1>7, <1>10, <2>1
  <2>2. CASE ~Loses(run, idle, v) BY <1>6, <1>7, <1>8, <2>2
  <2>3. QED BY <2>1, <2>2
<1>12. QED BY <1>2, <1>5, <1>6, <1>8, <1>9, <1>11


\* Who enters has waited for nothing yet.
LEMMA DecodeFresh ==
  ASSUME NEW q, NEW run, NEW idle, IsWaiting(q, run, idle), NEW u \in run, idle[u] = 0, NEW t \in Nat
  PROVE  Within(q, idle, t, u)
<1>1. PICK c : c = QueueCost(q, Older(q, idle, u)) OBVIOUS
<1>2. c \in Nat /\ c <= QueueBatches /\ QueueBatches \in Nat BY <1>1, OlderCost
<1>3. Slack(c) \in Int /\ Slack(c) >= 0 BY <1>2, SlackIs
<1>4. QED BY <1>1, <1>3 DEF Within

\* What a step that serves nobody leaves of the first bound.
LEMMA DecodePart ==
  ASSUME NEW q, NEW run, NEW idle, IsWaiting(q, run, idle),
         NEW q1, NEW run1, NEW idle1, IsWaiting(q1, run1, idle1),
         NEW u, u \in run, u \in run1, NEW t \in Nat, NEW t1 \in Nat, t <= t1,
         idle1[u] <= idle[u] + (t1 - t),
         Older(q1, idle1, u) \subseteq Older(q, idle, u),
         Before(q1, Older(q1, idle1, u)) \subseteq Before(q, Older(q, idle, u)),
         Within(q, idle, t, u)
  PROVE  Within(q1, idle1, t1, u)
<1>1. PICK T, T1 : T = Older(q, idle, u) /\ T1 = Older(q1, idle1, u) OBVIOUS
<1>2. IsQueue(q) /\ IsQueue(q1) /\ idle[u] \in Nat /\ idle1[u] \in Nat BY WaitingIs
<1>3. PICK c, c1 : c = QueueCost(q, T) /\ c1 = QueueCost(q1, T1) OBVIOUS
<1>4. T1 \subseteq T /\ Before(q1, T1) \subseteq Before(q, T) BY <1>1
<1>5. QueueCost(q1, T1) <= QueueCost(q, T) /\ QueueCost(q1, T1) \in Nat /\ QueueCost(q, T) \in Nat
  BY <1>2, <1>4, CostPart
<1>6. QueueBatches \in Nat BY OlderCost
<1>7. c \in Nat /\ c1 \in Nat /\ c1 <= c BY <1>3, <1>5
<1>8. Slack(c) \in Int /\ Slack(c1) \in Int /\ Slack(c) <= Slack(c1) BY <1>6, <1>7, SlackIs
<1>9. idle[u] <= Slack(c) + t \/ (T = {} /\ idle[u] < DecodeWait + t) BY <1>1, <1>3 DEF Within
<1>10. idle1[u] <= Slack(c1) + t1 \/ (T1 = {} /\ idle1[u] < DecodeWait + t1)
  <2>1. CASE idle[u] <= Slack(c) + t BY <1>2, <1>8, <2>1
  <2>2. CASE T = {} /\ idle[u] < DecodeWait + t BY <1>2, <1>4, <2>2, Constants
  <2>3. QED BY <1>9, <2>1, <2>2
<1>11. QED BY <1>1, <1>3, <1>10 DEF Within

\* An admission brings whoever must wait for it a batch nearer.
LEMMA DecodeCut ==
  ASSUME NEW q, NEW run, NEW idle, IsWaiting(q, run, idle),
         NEW k, NEW cut, NEW members, NEW complete, NEW rest,
         IsCut(q, k, cut, members, complete, rest),
         NEW idle1, IsWaiting(rest, run, idle1),
         \A v \in Uids : idle1[v] = IF v \in members THEN 0 ELSE idle[v],
         NEW u \in run, NEW t \in 0 .. MaxStep, Within(q, idle, t, u),
         idle[u] >= DecodeWait => Older(q, idle, u) # {}
  PROVE  Within(rest, idle1, 0, u)
<1>1. PICK T, T1 : T = Older(q, idle, u) /\ T1 = Older(rest, idle1, u) OBVIOUS
<1>2. IsQueue(rest) /\ UidsOf(rest) \subseteq UidsOf(q) /\ members \subseteq UidsOf(q) BY CutQueue
<1>3. /\ u \in Uids /\ u \notin UidsOf(q) /\ idle[u] \in Nat
      /\ \A v \in UidsOf(q) : v \in Uids /\ idle[v] \in Nat
  BY WaitingIs
<1>4. idle1[u] = idle[u] BY <1>2, <1>3
<1>5. T1 \cap members = {} /\ T1 \subseteq T /\ T1 \subseteq UidsOf(rest)
  <2>1. ASSUME NEW v \in T1 PROVE v \notin members /\ v \in T /\ v \in UidsOf(rest)
    <3>1. v \in UidsOf(rest) /\ idle1[v] > idle[u] BY <1>1, <1>4, <2>1 DEF Older
    <3>2. v \in UidsOf(q) /\ v \in Uids BY <1>2, <1>3, <3>1
    <3>3. v \notin members BY <1>3, <3>1, <3>2
    <3>4. QED BY <1>1, <3>1, <3>2, <3>3 DEF Older
  <2>2. QED BY <2>1
<1>6. PICK c, c1 : c = QueueCost(q, T) /\ c1 = QueueCost(rest, T1) OBVIOUS
<1>7. QueueBatches \in Nat BY OlderCost
<1>8. idle[u] <= Slack(c) + t \/ (T = {} /\ idle[u] < DecodeWait + t) BY <1>1, <1>6 DEF Within
<1>9. t \in Nat /\ t <= MaxStep /\ MaxStep \in Nat BY Constants
<1>10. idle1[u] <= Slack(c1) + 0 \/ (T1 = {} /\ idle1[u] < DecodeWait + 0)
  <2>1. CASE T # {}
    <3>1. QueueCost(rest, T1) + 1 <= QueueCost(q, T) /\ QueueCost(rest, T1) \in Nat /\ QueueCost(q, T) \in Nat
      BY <1>5, <2>1, CostCut
    <3>2. c \in Nat /\ c1 \in Nat /\ c1 + 1 <= c BY <1>6, <3>1
    <3>3. Slack(c) \in Int /\ Slack(c1) \in Int /\ Slack(c) + MaxStep <= Slack(c1) BY <1>7, <3>2, SlackIs
    <3>4. QED BY <1>3, <1>4, <1>8, <1>9, <2>1, <3>3
  <2>2. CASE T = {}
    <3>1. T1 = {} BY <1>5, <2>2
    <3>2. idle[u] < DecodeWait BY <1>1, <1>3, <2>2, Constants
    <3>3. QED BY <1>3, <1>4, <3>1, <3>2, Constants
  <2>3. QED BY <2>1, <2>2
<1>11. QED BY <1>1, <1>6, <1>10 DEF Within

\* Who waits no longer than the lead is within the second bound.
LEMMA PrefillFresh ==
  ASSUME NEW q, NEW run, NEW idle, IsWaiting(q, run, idle), NEW v \in UidsOf(q), idle[v] <= Lead, NEW t \in Nat
  PROVE  PrefillWithin(q, run, idle, t, v)
<1>1. PICK c : c = PrefillCost(q, run, idle, v) OBVIOUS
<1>2. c \in Nat /\ c <= QueueBatches /\ QueueBatches \in Nat BY <1>1, PrefillCostIs
<1>3. Slack(c) \in Int /\ Slack(c) >= 0 BY <1>2, SlackIs
<1>4. idle[v] \in Nat BY WaitingIs
<1>5. QED BY <1>1, <1>3, <1>4, LeadIs DEF PrefillWithin

\* What a step that serves nobody leaves of the second bound.
LEMMA PrefillPart ==
  ASSUME NEW q, NEW run, NEW idle, IsWaiting(q, run, idle),
         NEW q1, NEW run1, NEW idle1, IsWaiting(q1, run1, idle1),
         NEW v, v \in UidsOf(q), v \in UidsOf(q1), NEW t \in Nat, NEW t1 \in Nat, t <= t1,
         idle1[v] <= idle[v] + (t1 - t),
         Before(q1, {v}) \subseteq Before(q, {v}),
         Loses(run1, idle1, v) => Loses(run, idle, v),
         PrefillWithin(q, run, idle, t, v)
  PROVE  PrefillWithin(q1, run1, idle1, t1, v)
<1>1. /\ Cardinality(Before(q, {v})) \in Nat /\ IsFiniteSet(Before(q, {v})) /\ QueueBatches \in Nat
      /\ PrefillCost(q, run, idle, v) \in Nat
  BY PrefillCostIs
<1>2. Cardinality(Before(q1, {v})) \in Nat /\ PrefillCost(q1, run1, idle1, v) \in Nat BY PrefillCostIs
<1>3. Cardinality(Before(q1, {v})) <= Cardinality(Before(q, {v})) BY <1>1, FS_Subset
<1>4. PICK c, c1 : c = PrefillCost(q, run, idle, v) /\ c1 = PrefillCost(q1, run1, idle1, v) OBVIOUS
<1>5. c1 <= c
  <2>1. PICK a, a1, l, l1 :
          /\ a = Cardinality(Before(q, {v})) /\ a1 = Cardinality(Before(q1, {v}))
          /\ l = (IF Loses(run, idle, v) THEN 1 ELSE 0) /\ l1 = (IF Loses(run1, idle1, v) THEN 1 ELSE 0)
    OBVIOUS
  <2>2. a \in Nat /\ a1 \in Nat /\ a1 <= a BY <1>1, <1>2, <1>3, <2>1
  <2>3. l \in 0 .. 1 /\ l1 \in 0 .. 1 /\ l1 <= l BY <2>1
  <2>4. c = a + l /\ c1 = a1 + l1 BY <1>4, <2>1 DEF PrefillCost
  <2>5. QED BY <2>2, <2>3, <2>4
<1>6. c \in Nat /\ c1 \in Nat BY <1>1, <1>2, <1>4
<1>7. Slack(c) \in Int /\ Slack(c1) \in Int /\ Slack(c) <= Slack(c1) BY <1>1, <1>5, <1>6, SlackIs
<1>8. idle[v] \in Nat /\ idle1[v] \in Nat BY WaitingIs
<1>9. idle[v] <= Lead + Slack(c) + t BY <1>4 DEF PrefillWithin
<1>10. idle1[v] <= Lead + Slack(c1) + t1 BY <1>7, <1>8, <1>9, LeadIs
<1>11. QED BY <1>4, <1>10 DEF PrefillWithin

\* A batch less to wait for makes up for the ticks since the last select.
LEMMA PrefillNearer ==
  ASSUME NEW q, NEW run, NEW idle, IsWaiting(q, run, idle),
         NEW q1, NEW run1, NEW idle1, IsWaiting(q1, run1, idle1),
         NEW v, v \in UidsOf(q), v \in UidsOf(q1), NEW t \in 0 .. MaxStep,
         idle1[v] <= idle[v], PrefillWithin(q, run, idle, t, v),
         PrefillCost(q1, run1, idle1, v) + 1 <= PrefillCost(q, run, idle, v)
  PROVE  PrefillWithin(q1, run1, idle1, 0, v)
<1>1. PICK c, c1 : c = PrefillCost(q, run, idle, v) /\ c1 = PrefillCost(q1, run1, idle1, v) OBVIOUS
<1>2. QueueBatches \in Nat /\ PrefillCost(q, run, idle, v) \in Nat BY PrefillCostIs
<1>3. PrefillCost(q1, run1, idle1, v) \in Nat BY PrefillCostIs
<1>4. c \in Nat /\ c1 \in Nat /\ c1 + 1 <= c BY <1>1, <1>2, <1>3
<1>5. Slack(c) \in Int /\ Slack(c1) \in Int /\ Slack(c) + MaxStep <= Slack(c1) BY <1>2, <1>4, SlackIs
<1>6. idle[v] \in Nat /\ idle1[v] \in Nat BY WaitingIs
<1>7. idle[v] <= Lead + Slack(c) + t BY <1>1 DEF PrefillWithin
<1>8. idle1[v] <= Lead + Slack(c1) + 0 BY <1>5, <1>6, <1>7, LeadIs, Constants
<1>9. QED BY <1>1, <1>8 DEF PrefillWithin

\* An admission.
LEMMA PrefillCut ==
  ASSUME NEW q, NEW run, NEW idle, IsWaiting(q, run, idle),
         NEW k, NEW cut, NEW members, NEW complete, NEW rest,
         IsCut(q, k, cut, members, complete, rest),
         NEW idle1, IsWaiting(rest, run, idle1),
         \A v \in Uids : idle1[v] = IF v \in members THEN 0 ELSE idle[v],
         NEW v \in UidsOf(rest), NEW t \in 0 .. MaxStep, PrefillWithin(q, run, idle, t, v)
  PROVE  PrefillWithin(rest, run, idle1, 0, v)
<1>1. IsQueue(rest) /\ UidsOf(rest) \subseteq UidsOf(q) /\ members \subseteq UidsOf(q) BY CutQueue
<1>2. v \in UidsOf(q) /\ v \in Uids BY <1>1, WaitingIs
<1>3. \A u \in run : u \in Uids /\ u \notin members BY <1>1, WaitingIs
<1>4. CASE v \in members
  <2>1. idle1[v] <= Lead BY <1>2, <1>4, LeadIs
  <2>2. 0 \in Nat OBVIOUS
  <2>3. QED BY <2>1, <2>2, PrefillFresh
<1>5. CASE v \notin members
  <2>1. idle1[v] = idle[v] /\ \A u \in run : idle1[u] = idle[u] BY <1>2, <1>3, <1>5
  <2>2. Loses(run, idle1, v) <=> Loses(run, idle, v) BY <2>1 DEF Loses
  <2>3. PICK T : T = {v} OBVIOUS
  <2>4. T \subseteq T /\ T \cap members = {} /\ T \cap UidsOf(rest) # {} BY <1>5, <2>3
  <2>5. Before(rest, T) \subseteq Before(q, T) /\ \E x \in Before(q, T) : x \notin Before(rest, T)
    BY <2>4, CutBefore
  <2>6. IsFiniteSet(Before(q, T)) /\ Cardinality(Before(q, T)) \in Nat BY <1>2, <2>3, PrefillCostIs
  <2>7. Cardinality(Before(rest, T)) + 1 <= Cardinality(Before(q, T)) /\ Cardinality(Before(rest, T)) \in Nat
    BY <2>5, <2>6, FewerBefore
  <2>8. PICK a, a1, l : /\ a = Cardinality(Before(q, T)) /\ a1 = Cardinality(Before(rest, T))
                        /\ l = (IF Loses(run, idle, v) THEN 1 ELSE 0)
    OBVIOUS
  <2>9. PrefillCost(q, run, idle, v) = a + l /\ PrefillCost(rest, run, idle1, v) = a1 + l
    BY <2>2, <2>3, <2>8 DEF PrefillCost
  <2>10. a \in Nat /\ a1 \in Nat /\ a1 + 1 <= a /\ l \in Nat BY <2>6, <2>7, <2>8
  <2>11. PrefillCost(rest, run, idle1, v) + 1 <= PrefillCost(q, run, idle, v) BY <2>9, <2>10
  <2>12. idle[v] \in Nat BY <1>2, WaitingIs
  <2>13. idle1[v] <= idle[v] BY <2>1, <2>12
  <2>14. QED BY <1>2, <2>11, <2>13, PrefillNearer
<1>6. QED BY <1>4, <1>5

\* A decode step that was preferred.
LEMMA PrefillDecode ==
  ASSUME NEW q, NEW run, NEW idle, IsWaiting(q, run, idle),
         NEW idle1, IsWaiting(q, run, idle1),
         \A v \in Uids : idle1[v] = IF v \in run THEN 0 ELSE idle[v],
         NEW v \in UidsOf(q), NEW t \in 0 .. MaxStep, PrefillWithin(q, run, idle, t, v),
         Loses(run, idle, v)
  PROVE  PrefillWithin(q, run, idle1, 0, v)
<1>1. v \in Uids /\ v \notin run /\ idle[v] \in Nat /\ \A u \in run : u \in Uids BY WaitingIs
<1>2. idle1[v] = idle[v] /\ \A u \in run : idle1[u] = 0 BY <1>1
<1>3. CASE idle[v] <= Lead
  <2>1. idle1[v] <= Lead /\ 0 \in Nat BY <1>2, <1>3
  <2>2. QED BY <2>1, PrefillFresh
<1>4. CASE ~(idle[v] <= Lead)
  <2>1. ~Loses(run, idle1, v) BY <1>2, <1>4, LeadIs DEF Loses
  <2>2. PICK a : a = Cardinality(Before(q, {v})) OBVIOUS
  <2>3. a \in Nat BY <2>2, PrefillCostIs
  <2>4. PrefillCost(q, run, idle, v) = a + 1 /\ PrefillCost(q, run, idle1, v) = a + 0
    BY <2>1, <2>2 DEF PrefillCost
  <2>5. PrefillCost(q, run, idle1, v) + 1 <= PrefillCost(q, run, idle, v) BY <2>3, <2>4
  <2>6. idle1[v] <= idle[v] BY <1>1, <1>2
  <2>7. QED BY <2>5, <2>6, PrefillNearer
<1>5. QED BY <1>3, <1>4


-----------------------------------------------------------------------------
(* The invariant.                                                          *)

\* Who is queued does not run; the ages kept are the times waited.
WaitInv ==
  /\ IsWaiting(pending, running, idle_since) /\ elapsed \in 0 .. MaxStep
  /\ batch.complete \subseteq Uids /\ batch.complete \cap Members = {}
  /\ Policy = "wait_time" => age = Ages(pending, running, idle_since)

DecodeInv ==
  (Policy = "wait_time" /\ DecodeWait <= PrefillWait) =>
    \A u \in running : Within(pending, idle_since, elapsed, u)

\* Ages are counted beyond the second bound.
Counts == Lead + MaxStep * QueueBatches + MaxStep <= MaxAge

PrefillInv ==
  (Policy = "wait_time" /\ ~CanRefuse /\ Counts) =>
    \A v \in UidsOf(pending) : PrefillWithin(pending, running, idle_since, elapsed, v)

PolicyInv == WaitInv /\ DecodeInv /\ PrefillInv

LEMMA ObserveIs ==
  ASSUME Policy = "wait_time", NEW p, NEW d, NEW q, NEW run, NEW h,
         \A v \in UidsOf(q) : h[v] = IF v \in DOMAIN p THEN p[v] ELSE 0,
         \A v \in run : h[v] = IF v \in DOMAIN d THEN d[v] ELSE 0
  PROVE  Observe([prefill |-> p, decode |-> d], q, run) = Ages(q, run, h)
<1>1. Tracked(p, UidsOf(q)) = [v \in UidsOf(q) |-> h[v]] BY DEF Tracked
<1>2. Tracked(d, run) = [v \in run |-> h[v]] BY DEF Tracked
<1>3. QED BY <1>1, <1>2 DEF Observe, Ages

LEMMA AgesAre ==
  ASSUME NEW q, NEW run, NEW idle
  PROVE  /\ Ages(q, run, idle) = [prefill |-> Ages(q, run, idle).prefill, decode |-> Ages(q, run, idle).decode]
         /\ DOMAIN Ages(q, run, idle).prefill = UidsOf(q) /\ DOMAIN Ages(q, run, idle).decode = run
         /\ \A v \in UidsOf(q) : Ages(q, run, idle).prefill[v] = idle[v]
         /\ \A v \in run : Ages(q, run, idle).decode[v] = idle[v]
BY DEF Ages

\* Observing changes nothing as long as nobody moves.
LEMMA ObservedAlready ==
  ASSUME WaitInv, Policy = "wait_time"
  PROVE  Observe(age, pending, running) = Ages(pending, running, idle_since)
<1>1. PICK p, d : p = age.prefill /\ d = age.decode OBVIOUS
<1>2. age = Ages(pending, running, idle_since) BY DEF WaitInv
<1>3. /\ age = [prefill |-> p, decode |-> d] /\ DOMAIN p = UidsOf(pending) /\ DOMAIN d = running
      /\ \A v \in UidsOf(pending) : p[v] = idle_since[v]
      /\ \A v \in running : d[v] = idle_since[v]
  BY <1>1, <1>2, AgesAre
<1>4. PICK q, run, h : q = pending /\ run = running /\ h = idle_since OBVIOUS
<1>5. /\ \A v \in UidsOf(q) : h[v] = IF v \in DOMAIN p THEN p[v] ELSE 0
      /\ \A v \in run : h[v] = IF v \in DOMAIN d THEN d[v] ELSE 0
  BY <1>3, <1>4
<1>6. Observe([prefill |-> p, decode |-> d], q, run) = Ages(q, run, h) BY <1>5, ObserveIs
<1>7. QED BY <1>3, <1>4, <1>6

LEMMA InitWaits == Init => PolicyInv
<1>1. SUFFICES ASSUME Init PROVE PolicyInv OBVIOUS
<1>2. /\ pending = <<>> /\ running = {} /\ elapsed = 0 /\ batch = NoBatch
      /\ idle_since = [u \in Uids |-> 0] /\ age = [prefill |-> <<>>, decode |-> <<>>]
  BY <1>1 DEF Init
<1>3. UidsOf(<<>>) = {} BY DEF UidsOf
<1>4. IsQueue(<<>>) BY DEF IsQueue
<1>5. idle_since \in [Uids -> 0 .. MaxAge] BY <1>2, Constants
<1>6. Ages(pending, running, idle_since) = [prefill |-> <<>>, decode |-> <<>>]
  <2>1. \A f : [u \in {} |-> f[u]] = <<>> OBVIOUS
  <2>2. QED BY <1>2, <1>3, <2>1 DEF Ages
<1>7. WaitInv BY <1>2, <1>3, <1>4, <1>5, <1>6, Constants DEF WaitInv, IsWaiting, NoBatch, Members
<1>8. QED BY <1>2, <1>3, <1>7 DEF PolicyInv, DecodeInv, PrefillInv

\* A batch of prompts is made.
LEMMA SelectPrefillKeeps ==
  ASSUME PolicyInv, NEW ages, ages = Observe(age, pending, running), SelectPrefill(ages),
         Preferred(ages) = "prefill" \/ running = {}
  PROVE  PolicyInv'
<1>1. PICK k \in 1 .. Len(pending), cut \in BOOLEAN :
        /\ cut => pending[k].cuts < MaxCuts
        /\ Select([phase |-> "prefill", members |-> Admission(k, cut).members,
                   complete |-> Admission(k, cut).complete], Admission(k, cut).rest, ages)
  BY DEF SelectPrefill
<1>2. PICK members, complete, rest :
        /\ members = Admission(k, cut).members /\ complete = Admission(k, cut).complete
        /\ rest = Admission(k, cut).rest
  OBVIOUS
<1>3. /\ pending' = rest /\ running' = running /\ elapsed' = 0 /\ setting' = setting
      /\ idle_since' = Served(idle_since, members) /\ batch'.complete = complete
      /\ age' = Observe([prefill |-> Served(ages.prefill, members), decode |-> ages.decode], rest, running)
  BY <1>1, <1>2 DEF Select
<1>4. IsWaiting(pending, running, idle_since) /\ elapsed \in 0 .. MaxStep BY DEF PolicyInv, WaitInv
<1>5. IsQueue(pending) /\ UidsOf(pending) \subseteq Uids /\ UidsOf(pending) \cap running = {}
      /\ running \subseteq Uids /\ idle_since \in [Uids -> 0 .. MaxAge]
  BY <1>4, WaitingIs DEF IsWaiting
<1>6. IsCut(pending, k, cut, members, complete, rest) BY <1>1, <1>2, <1>5 DEF IsCut, Admission
<1>7. /\ IsQueue(rest) /\ UidsOf(rest) \subseteq UidsOf(pending)
      /\ members \subseteq UidsOf(pending) /\ complete \subseteq members /\ complete \cap UidsOf(rest) = {}
  BY <1>6, CutQueue
<1>8. PICK idle1 : idle1 = Served(idle_since, members) OBVIOUS
<1>9. idle1 \in [Uids -> 0 .. MaxAge] /\ \A v \in Uids : idle1[v] = IF v \in members THEN 0 ELSE idle_since[v]
  BY <1>5, <1>8, Constants DEF Served
<1>10. IsWaiting(rest, running, idle1) BY <1>5, <1>7, <1>9 DEF IsWaiting
<1>11. Policy' = Policy /\ CanRefuse' = CanRefuse BY <1>3 DEF Policy, CanRefuse
<1>12. ASSUME Policy = "wait_time" PROVE ages = Ages(pending, running, idle_since)
  BY <1>12, ObservedAlready DEF PolicyInv
<1>13. ASSUME Policy = "wait_time" PROVE age' = Ages(rest, running, idle1)
  <2>1. PICK p, d : p = Served(ages.prefill, members) /\ d = ages.decode OBVIOUS
  <2>2. /\ DOMAIN ages.prefill = UidsOf(pending) /\ DOMAIN ages.decode = running
        /\ \A v \in UidsOf(pending) : ages.prefill[v] = idle_since[v]
        /\ \A v \in running : ages.decode[v] = idle_since[v]
    BY <1>12, <1>13, AgesAre
  <2>3. \A v \in UidsOf(rest) : idle1[v] = IF v \in DOMAIN p THEN p[v] ELSE 0
    BY <1>5, <1>7, <1>9, <2>1, <2>2 DEF Served
  <2>4. \A v \in running : idle1[v] = IF v \in DOMAIN d THEN d[v] ELSE 0
    BY <1>5, <1>7, <1>9, <2>1, <2>2
  <2>5. Observe([prefill |-> p, decode |-> d], rest, running) = Ages(rest, running, idle1)
    BY <1>13, <2>3, <2>4, ObserveIs
  <2>6. QED BY <1>3, <2>1, <2>5
<1>14. WaitInv'
  <2>1. 0 \in 0 .. MaxStep BY Constants
  <2>2. complete \subseteq Uids /\ complete \cap (UidsOf(rest) \cup running) = {} BY <1>5, <1>7
  <2>3. Members' = UidsOf(rest) \cup running BY <1>3 DEF Members
  <2>4. QED BY <1>3, <1>8, <1>10, <1>11, <1>13, <2>1, <2>2, <2>3 DEF WaitInv
<1>15. DecodeInv'
  <2>1. SUFFICES ASSUME Policy = "wait_time", DecodeWait <= PrefillWait, NEW u \in running
                 PROVE  Within(rest, idle1, 0, u)
    BY <1>3, <1>8, <1>11 DEF DecodeInv
  <2>2. Within(pending, idle_since, elapsed, u) BY <2>1 DEF PolicyInv, DecodeInv
  <2>3. idle_since[u] >= DecodeWait => Older(pending, idle_since, u) # {}
    <3>1. Preferred(Ages(pending, running, idle_since)) = "prefill" BY <1>12, <2>1
    <3>2. QED BY <1>4, <2>1, <3>1, PrefillPreferred
  <2>4. QED BY <1>4, <1>6, <1>9, <1>10, <2>2, <2>3, DecodeCut
<1>16. PrefillInv'
  <2>1. SUFFICES ASSUME Policy = "wait_time", ~CanRefuse, Counts, NEW v \in UidsOf(rest)
                 PROVE  PrefillWithin(rest, running, idle1, 0, v)
    BY <1>3, <1>8, <1>11 DEF PrefillInv
  <2>2. PrefillWithin(pending, running, idle_since, elapsed, v) BY <1>7, <2>1 DEF PolicyInv, PrefillInv
  <2>3. QED BY <1>4, <1>6, <1>9, <1>10, <2>2, PrefillCut
<1>17. QED BY <1>14, <1>15, <1>16 DEF PolicyInv


\* Without room to refuse, the prefill manager declines an empty queue only.
LEMMA DeclinesEmpty ==
  ASSUME PolicyInv, MayDecline, ~CanRefuse
  PROVE  UidsOf(pending) = {}
<1>1. pending \in Seq(Entry) BY DEF PolicyInv, WaitInv, IsWaiting, IsQueue
<1>2. Len(pending) \in Nat /\ DOMAIN pending = 1 .. Len(pending) BY <1>1, EntryOf
<1>3. ~(1 \in DOMAIN pending) BY DEF MayDecline
<1>4. DOMAIN pending = {} BY <1>2, <1>3
<1>5. QED BY <1>4 DEF UidsOf

\* A decode step is made.
LEMMA SelectDecodeKeeps ==
  ASSUME PolicyInv, NEW ages, ages = Observe(age, pending, running), SelectDecode(ages),
         Preferred(ages) = "decode" \/ MayDecline
  PROVE  PolicyInv'
<1>1. /\ pending' = pending /\ running' = running /\ elapsed' = 0 /\ setting' = setting
      /\ idle_since' = Served(idle_since, running) /\ batch'.complete = {}
      /\ age' = Observe([prefill |-> ages.prefill, decode |-> Served(ages.decode, running)], pending, running)
  BY DEF SelectDecode, Select
<1>2. IsWaiting(pending, running, idle_since) /\ elapsed \in 0 .. MaxStep BY DEF PolicyInv, WaitInv
<1>3. IsQueue(pending) /\ UidsOf(pending) \subseteq Uids /\ UidsOf(pending) \cap running = {}
      /\ running \subseteq Uids /\ idle_since \in [Uids -> 0 .. MaxAge]
  BY <1>2, WaitingIs DEF IsWaiting
<1>4. PICK idle1 : idle1 = Served(idle_since, running) OBVIOUS
<1>5. idle1 \in [Uids -> 0 .. MaxAge] /\ \A v \in Uids : idle1[v] = IF v \in running THEN 0 ELSE idle_since[v]
  BY <1>3, <1>4, Constants DEF Served
<1>6. IsWaiting(pending, running, idle1) BY <1>3, <1>5 DEF IsWaiting
<1>7. Policy' = Policy /\ CanRefuse' = CanRefuse BY <1>1 DEF Policy, CanRefuse
<1>8. ASSUME Policy = "wait_time" PROVE ages = Ages(pending, running, idle_since)
  BY <1>8, ObservedAlready DEF PolicyInv
<1>9. ASSUME Policy = "wait_time" PROVE age' = Ages(pending, running, idle1)
  <2>1. PICK p, d : p = ages.prefill /\ d = Served(ages.decode, running) OBVIOUS
  <2>2. /\ DOMAIN ages.prefill = UidsOf(pending) /\ DOMAIN ages.decode = running
        /\ \A v \in UidsOf(pending) : ages.prefill[v] = idle_since[v]
        /\ \A v \in running : ages.decode[v] = idle_since[v]
    BY <1>8, <1>9, AgesAre
  <2>3. \A v \in UidsOf(pending) : idle1[v] = IF v \in DOMAIN p THEN p[v] ELSE 0
    BY <1>3, <1>5, <2>1, <2>2
  <2>4. \A v \in running : idle1[v] = IF v \in DOMAIN d THEN d[v] ELSE 0
    BY <1>3, <1>5, <2>1, <2>2 DEF Served
  <2>5. PICK q, run : q = pending /\ run = running OBVIOUS
  <2>6. Observe([prefill |-> p, decode |-> d], q, run) = Ages(q, run, idle1)
    BY <1>9, <2>3, <2>4, <2>5, ObserveIs
  <2>7. QED BY <1>1, <2>1, <2>5, <2>6
<1>10. WaitInv'
  <2>1. 0 \in 0 .. MaxStep BY Constants
  <2>2. QED BY <1>1, <1>4, <1>6, <1>7, <1>9, <2>1 DEF WaitInv
<1>11. DecodeInv'
  <2>1. SUFFICES ASSUME NEW u \in running PROVE Within(pending, idle1, 0, u)
    BY <1>1, <1>4 DEF DecodeInv
  <2>2. idle1[u] = 0 /\ 0 \in Nat BY <1>3, <1>5
  <2>3. QED BY <1>6, <2>2, DecodeFresh
<1>12. PrefillInv'
  <2>1. SUFFICES ASSUME Policy = "wait_time", ~CanRefuse, Counts, NEW v \in UidsOf(pending)
                 PROVE  PrefillWithin(pending, running, idle1, 0, v)
    BY <1>1, <1>4, <1>7 DEF PrefillInv
  <2>2. Preferred(Ages(pending, running, idle_since)) = "decode" BY <1>8, <2>1, DeclinesEmpty
  <2>3. Loses(running, idle_since, v) BY <1>2, <2>1, <2>2, DecodePreferred
  <2>4. PrefillWithin(pending, running, idle_since, elapsed, v) BY <2>1 DEF PolicyInv, PrefillInv
  <2>5. QED BY <1>2, <1>5, <1>6, <2>3, <2>4, PrefillDecode
<1>13. QED BY <1>10, <1>11, <1>12 DEF PolicyInv

\* No batch is made.
LEMMA SelectNothingKeeps ==
  ASSUME PolicyInv, NEW ages, ages = Observe(age, pending, running), SelectNothing(ages),
         MayDecline, running = {}
  PROVE  PolicyInv'
<1>1. /\ pending' = pending /\ running' = running /\ elapsed' = 0 /\ setting' = setting
      /\ idle_since' = Served(idle_since, {}) /\ batch'.complete = {}
      /\ age' = Observe([prefill |-> IF NoBatch.phase = "prefill" THEN Served(ages.prefill, {}) ELSE ages.prefill,
                         decode |-> IF NoBatch.phase = "decode" THEN Served(ages.decode, {}) ELSE ages.decode],
                        pending, running)
  BY DEF SelectNothing, Select, NoBatch
<1>2. IsWaiting(pending, running, idle_since) BY DEF PolicyInv, WaitInv
<1>3. idle_since \in [Uids -> 0 .. MaxAge] BY <1>2 DEF IsWaiting
<1>4. idle_since' = idle_since BY <1>1, <1>3 DEF Served
<1>5. Policy' = Policy /\ CanRefuse' = CanRefuse BY <1>1 DEF Policy, CanRefuse
<1>6. ASSUME Policy = "wait_time" PROVE age' = Ages(pending, running, idle_since)
  <2>1. PICK p, d : /\ p = (IF NoBatch.phase = "prefill" THEN Served(ages.prefill, {}) ELSE ages.prefill)
                    /\ d = (IF NoBatch.phase = "decode" THEN Served(ages.decode, {}) ELSE ages.decode)
    OBVIOUS
  <2>2. ages = Ages(pending, running, idle_since) BY <1>6, ObservedAlready DEF PolicyInv
  <2>3. /\ DOMAIN ages.prefill = UidsOf(pending) /\ DOMAIN ages.decode = running
        /\ \A v \in UidsOf(pending) : ages.prefill[v] = idle_since[v]
        /\ \A v \in running : ages.decode[v] = idle_since[v]
    BY <2>2, AgesAre
  <2>4. \A v \in UidsOf(pending) : idle_since[v] = IF v \in DOMAIN p THEN p[v] ELSE 0
    BY <2>1, <2>3 DEF Served
  <2>5. \A v \in running : idle_since[v] = IF v \in DOMAIN d THEN d[v] ELSE 0
    BY <2>1, <2>3 DEF Served
  <2>6. PICK q, run, h : q = pending /\ run = running /\ h = idle_since OBVIOUS
  <2>7. Observe([prefill |-> p, decode |-> d], q, run) = Ages(q, run, h)
    BY <1>6, <2>4, <2>5, <2>6, ObserveIs
  <2>8. QED BY <1>1, <2>1, <2>6, <2>7
<1>7. WaitInv'
  <2>1. 0 \in 0 .. MaxStep BY Constants
  <2>2. QED BY <1>1, <1>2, <1>4, <1>5, <1>6, <2>1 DEF WaitInv
<1>8. DecodeInv' BY <1>1 DEF DecodeInv
<1>9. PrefillInv' BY <1>1, <1>5, DeclinesEmpty DEF PrefillInv
<1>10. QED BY <1>7, <1>8, <1>9 DEF PolicyInv

LEMMA SelectBatchKeeps ==
  ASSUME PolicyInv, SelectBatch
  PROVE  PolicyInv'
<1>1. PICK ages : ages = Observe(age, pending, running) OBVIOUS
<1>2. \/ Preferred(ages) = "prefill" /\ SelectPrefill(ages)
      \/ Preferred(ages) = "prefill" /\ MayDecline /\ SelectDecode(ages)
      \/ Preferred(ages) = "decode" /\ SelectDecode(ages)
      \/ Preferred(ages) = "decode" /\ running = {} /\ SelectPrefill(ages)
      \/ MayDecline /\ running = {} /\ SelectNothing(ages)
  BY <1>1 DEF SelectBatch
<1>3. CASE SelectPrefill(ages) /\ (Preferred(ages) = "prefill" \/ running = {})
  BY <1>1, <1>3, SelectPrefillKeeps
<1>4. CASE SelectDecode(ages) /\ (Preferred(ages) = "decode" \/ MayDecline)
  BY <1>1, <1>4, SelectDecodeKeeps
<1>5. CASE MayDecline /\ running = {} /\ SelectNothing(ages) BY <1>1, <1>5, SelectNothingKeeps
<1>6. QED BY <1>2, <1>3, <1>4, <1>5


\* Whoever stays in its manager keeps its age, and who enters has age 0.
Stays(q, run, h) ==
  /\ \A v \in UidsOf(q) : h[v] = IF v \in UidsOf(pending) THEN idle_since[v] ELSE 0
  /\ \A v \in run : h[v] = IF v \in running THEN idle_since[v] ELSE 0

LEMMA MovedAges ==
  ASSUME WaitInv, Policy = "wait_time", NEW q, NEW run, NEW h, Stays(q, run, h)
  PROVE  Observe(age, q, run) = Ages(q, run, h)
<1>1. PICK p, d : p = age.prefill /\ d = age.decode OBVIOUS
<1>2. age = Ages(pending, running, idle_since) BY DEF WaitInv
<1>3. /\ age = [prefill |-> p, decode |-> d] /\ DOMAIN p = UidsOf(pending) /\ DOMAIN d = running
      /\ \A v \in UidsOf(pending) : p[v] = idle_since[v]
      /\ \A v \in running : d[v] = idle_since[v]
  BY <1>1, <1>2, AgesAre
<1>4. /\ \A v \in UidsOf(q) : h[v] = IF v \in DOMAIN p THEN p[v] ELSE 0
      /\ \A v \in run : h[v] = IF v \in DOMAIN d THEN d[v] ELSE 0
  BY <1>3 DEF Stays
<1>5. Observe([prefill |-> p, decode |-> d], q, run) = Ages(q, run, h) BY <1>4, ObserveIs
<1>6. QED BY <1>3, <1>5

\* Nothing comes before those who were queued.
NothingBefore(q) == \A T, T1 : T1 \subseteq T /\ T1 \subseteq UidsOf(pending) => Before(q, T1) \subseteq Before(pending, T)

\* A step that moves requests between selects.
LEMMA MoveKeeps ==
  ASSUME PolicyInv, NEW q, NEW run, NEW h, pending' = q, running' = run, idle_since' = h,
         setting' = setting, elapsed' = elapsed, age' = Observe(age, q, run),
         IsWaiting(q, run, h), Stays(q, run, h), NothingBefore(q),
         batch'.complete \subseteq Uids, batch'.complete \cap (UidsOf(q) \cup run) = {}
  PROVE  PolicyInv'
<1>1. IsWaiting(pending, running, idle_since) /\ elapsed \in 0 .. MaxStep /\ elapsed \in Nat
  BY Constants DEF PolicyInv, WaitInv
<1>2. Policy' = Policy /\ CanRefuse' = CanRefuse BY DEF Policy, CanRefuse
<1>3. ASSUME Policy = "wait_time" PROVE age' = Ages(q, run, h)
  BY <1>3, MovedAges DEF PolicyInv
<1>4. WaitInv'
  <2>1. Members' = UidsOf(q) \cup run BY DEF Members
  <2>2. QED BY <1>1, <1>2, <1>3, <2>1 DEF WaitInv
<1>5. DecodeInv'
  <2>1. SUFFICES ASSUME Policy = "wait_time", DecodeWait <= PrefillWait, NEW u \in run
                 PROVE  Within(q, h, elapsed, u)
    BY <1>2 DEF DecodeInv
  <2>2. CASE u \notin running
    <3>1. h[u] = 0 BY <2>2 DEF Stays
    <3>2. QED BY <1>1, <3>1, DecodeFresh
  <2>3. CASE u \in running
    <3>1. h[u] = idle_since[u] /\ idle_since[u] \in Nat BY <1>1, <2>3, WaitingIs DEF Stays
    <3>2. PICK T, T1 : T = Older(pending, idle_since, u) /\ T1 = Older(q, h, u) OBVIOUS
    <3>3. T1 \subseteq UidsOf(pending) /\ T1 \subseteq T
      <4>1. ASSUME NEW v \in T1 PROVE v \in UidsOf(pending) /\ v \in T
        <5>1. v \in UidsOf(q) /\ h[v] > idle_since[u] BY <3>1, <3>2, <4>1 DEF Older
        <5>2. h[v] # 0 BY <3>1, <5>1
        <5>3. v \in UidsOf(pending) /\ h[v] = idle_since[v] BY <5>1, <5>2 DEF Stays
        <5>4. QED BY <3>2, <5>1, <5>3 DEF Older
      <4>2. QED BY <4>1
    <3>4. Before(q, T1) \subseteq Before(pending, T) BY <3>3 DEF NothingBefore
    <3>5. Within(pending, idle_since, elapsed, u) BY <2>1, <2>3 DEF PolicyInv, DecodeInv
    <3>6. Older(q, h, u) \subseteq Older(pending, idle_since, u) BY <3>2, <3>3
    <3>7. Before(q, Older(q, h, u)) \subseteq Before(pending, Older(pending, idle_since, u)) BY <3>2, <3>4
    <3>8. elapsed <= elapsed /\ h[u] <= idle_since[u] + (elapsed - elapsed) BY <1>1, <3>1
    <3>9. QED BY <1>1, <2>3, <3>5, <3>6, <3>7, <3>8, DecodePart
  <2>4. QED BY <2>2, <2>3
<1>6. PrefillInv'
  <2>1. SUFFICES ASSUME Policy = "wait_time", ~CanRefuse, Counts, NEW v \in UidsOf(q)
                 PROVE  PrefillWithin(q, run, h, elapsed, v)
    BY <1>2 DEF PrefillInv
  <2>2. h[v] \in Nat BY WaitingIs
  <2>3. CASE h[v] <= Lead BY <1>1, <2>3, PrefillFresh
  <2>4. CASE ~(h[v] <= Lead)
    <3>1. h[v] # 0 BY <2>2, <2>4, LeadIs
    <3>2. v \in UidsOf(pending) /\ h[v] = idle_since[v] BY <3>1 DEF Stays
    <3>3. Before(q, {v}) \subseteq Before(pending, {v})
      <4>1. {v} \subseteq {v} /\ {v} \subseteq UidsOf(pending) BY <3>2
      <4>2. QED BY <4>1 DEF NothingBefore
    <3>4. ASSUME Loses(run, h, v) PROVE Loses(running, idle_since, v)
      <4>1. PICK u \in run : h[v] <= h[u] + Lead BY <3>4 DEF Loses
      <4>2. h[u] # 0 BY <2>4, <4>1, LeadIs
      <4>3. u \in running /\ h[u] = idle_since[u] BY <4>2 DEF Stays
      <4>4. QED BY <3>2, <4>1, <4>3 DEF Loses
    <3>5. PrefillWithin(pending, running, idle_since, elapsed, v) BY <2>1, <3>2 DEF PolicyInv, PrefillInv
    <3>6. elapsed <= elapsed /\ h[v] <= idle_since[v] + (elapsed - elapsed) BY <1>1, <2>2, <3>2
    <3>7. QED BY <1>1, <3>2, <3>3, <3>4, <3>5, <3>6, PrefillPart
  <2>5. QED BY <2>3, <2>4
<1>7. QED BY <1>4, <1>5, <1>6 DEF PolicyInv

LEMMA EnteringIs ==
  ASSUME IsWaiting(pending, running, idle_since), NEW S
  PROVE  /\ Entering(S) \in [Uids -> 0 .. MaxAge]
         /\ \A v \in Uids : Entering(S)[v] = IF v \in S THEN 0 ELSE idle_since[v]
BY Constants DEF Entering, IsWaiting

LEMMA ArriveKeeps ==
  ASSUME PolicyInv, NEW u \in Uids, Arrive(u)
  PROVE  PolicyInv'
<1>1. PICK e, q, run, h : /\ e = [uid |-> u, cuts |-> 0] /\ q = Append(pending, e) /\ run = running
                          /\ h = Entering({u})
  OBVIOUS
<1>2. /\ u \notin Members /\ pending' = q /\ running' = run /\ idle_since' = h /\ setting' = setting
      /\ elapsed' = elapsed /\ age' = Observe(age, q, run) /\ batch' = NoBatch
  BY <1>1 DEF Arrive
<1>3. IsWaiting(pending, running, idle_since) BY DEF PolicyInv, WaitInv
<1>4. /\ IsQueue(pending) /\ UidsOf(pending) \subseteq Uids /\ running \subseteq Uids
      /\ UidsOf(pending) \cap running = {}
  BY <1>3, WaitingIs DEF IsWaiting
<1>5. e \in Entry /\ e.uid = u /\ e.uid \notin UidsOf(pending) /\ u \notin running
  BY <1>1, <1>2, Constants DEF Entry, Members
<1>6. /\ IsQueue(q) /\ UidsOf(q) = UidsOf(pending) \cup {e.uid}
      /\ \A T, T1 : T1 \subseteq T /\ e.uid \notin T1 => Before(q, T1) \subseteq Before(pending, T)
  <2>1. PICK s : s = pending OBVIOUS
  <2>2. IsQueue(s) /\ e \in Entry /\ e.uid \notin UidsOf(s) /\ q = Append(s, e) BY <1>1, <1>4, <1>5, <2>1
  <2>3. /\ IsQueue(q) /\ UidsOf(q) = UidsOf(s) \cup {e.uid}
        /\ \A T, T1 : T1 \subseteq T /\ e.uid \notin T1 => Before(q, T1) \subseteq Before(s, T)
    BY ONLY <2>2, AppendedQueue
  <2>4. QED BY <2>1, <2>3
<1>7. h \in [Uids -> 0 .. MaxAge] /\ \A v \in Uids : h[v] = IF v \in {u} THEN 0 ELSE idle_since[v]
  BY <1>1, <1>3, EnteringIs
<1>8. IsWaiting(q, run, h) BY <1>1, <1>4, <1>5, <1>6, <1>7 DEF IsWaiting
<1>9. Stays(q, run, h) BY <1>1, <1>4, <1>5, <1>6, <1>7 DEF Stays
<1>10. NothingBefore(q)
  <2>1. ASSUME NEW T, NEW T1, T1 \subseteq T, T1 \subseteq UidsOf(pending)
        PROVE  Before(q, T1) \subseteq Before(pending, T)
    <3>1. e.uid \notin T1 BY <1>5, <2>1
    <3>2. QED BY <1>6, <2>1, <3>1
  <2>2. QED BY <2>1 DEF NothingBefore
<1>11. batch'.complete = {} BY <1>2 DEF NoBatch
<1>12. batch'.complete \subseteq Uids /\ batch'.complete \cap (UidsOf(q) \cup run) = {} BY <1>11
<1>13. QED BY <1>2, <1>8, <1>9, <1>10, <1>12, MoveKeeps

LEMMA LeaveKeeps ==
  ASSUME PolicyInv, NEW u \in Uids, Leave(u)
  PROVE  PolicyInv'
<1>1. PICK h : h = Entering({u}) OBVIOUS
<1>2. /\ idle_since' = h /\ setting' = setting /\ elapsed' = elapsed /\ batch' = batch /\ batch = NoBatch
      /\ age' = Observe(age, pending', running')
  BY <1>1 DEF Leave
<1>3. IsWaiting(pending, running, idle_since) BY DEF PolicyInv, WaitInv
<1>4. /\ IsQueue(pending) /\ UidsOf(pending) \subseteq Uids /\ running \subseteq Uids
      /\ UidsOf(pending) \cap running = {}
  BY <1>3, WaitingIs DEF IsWaiting
<1>5. h \in [Uids -> 0 .. MaxAge] /\ \A v \in Uids : h[v] = IF v \in {u} THEN 0 ELSE idle_since[v]
  BY <1>1, <1>3, EnteringIs
<1>6. batch'.complete = {} BY <1>2 DEF NoBatch
<1>7. CASE (\E i \in DOMAIN pending : pending[i].uid = u /\ pending' = RemoveAt(pending, i)) /\ running' = running
  <2>1. PICK i \in DOMAIN pending : pending[i].uid = u /\ pending' = RemoveAt(pending, i) BY <1>7
  <2>2. PICK q, run : q = RemoveAt(pending, i) /\ run = running OBVIOUS
  <2>3. /\ IsQueue(q) /\ UidsOf(q) \subseteq UidsOf(pending) \ {pending[i].uid}
        /\ \A T, T1 : T1 \subseteq T => Before(q, T1) \subseteq Before(pending, T)
    BY <1>4, <2>2, RemovedQueue
  <2>4. u \in UidsOf(pending) /\ u \notin UidsOf(q) BY <2>1, <2>3 DEF UidsOf
  <2>5. IsWaiting(q, run, h) BY <1>4, <1>5, <2>2, <2>3 DEF IsWaiting
  <2>6. Stays(q, run, h) BY <1>4, <1>5, <2>2, <2>3, <2>4 DEF Stays
  <2>7. NothingBefore(q) BY <2>3 DEF NothingBefore
  <2>8. batch'.complete \subseteq Uids /\ batch'.complete \cap (UidsOf(q) \cup run) = {} BY <1>6
  <2>9. pending' = q /\ running' = run /\ age' = Observe(age, q, run) BY <1>2, <1>7, <2>1, <2>2
  <2>10. QED BY <1>2, <2>5, <2>6, <2>7, <2>8, <2>9, MoveKeeps
<1>8. CASE u \in running /\ running' = running \ {u} /\ pending' = pending
  <2>1. PICK q, run : q = pending /\ run = running \ {u} OBVIOUS
  <2>2. IsWaiting(q, run, h) BY <1>4, <1>5, <2>1 DEF IsWaiting
  <2>3. Stays(q, run, h) BY <1>4, <1>5, <1>8, <2>1 DEF Stays
  <2>4. NothingBefore(q)
    <3>1. ASSUME NEW T, NEW T1, T1 \subseteq T PROVE Before(q, T1) \subseteq Before(pending, T)
      BY <2>1, <3>1 DEF Before
    <3>2. QED BY <3>1 DEF NothingBefore
  <2>5. batch'.complete \subseteq Uids /\ batch'.complete \cap (UidsOf(q) \cup run) = {} BY <1>6
  <2>6. pending' = q /\ running' = run /\ age' = Observe(age, q, run) BY <1>2, <1>8, <2>1
  <2>7. QED BY <1>2, <2>2, <2>3, <2>4, <2>5, <2>6, MoveKeeps
<1>9. QED BY <1>7, <1>8 DEF Leave

LEMMA ForwardKeeps ==
  ASSUME PolicyInv, Forward
  PROVE  PolicyInv'
<1>1. PICK last : running' = (running \cup batch.complete) \ last BY DEF Forward
<1>2. PICK q, run, h : /\ q = pending /\ run = (running \cup batch.complete) \ last
                       /\ h = Entering(run \ running)
  OBVIOUS
<1>3. /\ pending' = q /\ running' = run /\ idle_since' = h /\ setting' = setting /\ elapsed' = elapsed
      /\ age' = Observe(age, q, run) /\ batch' = NoBatch
  BY <1>1, <1>2 DEF Forward
<1>4. IsWaiting(pending, running, idle_since) BY DEF PolicyInv, WaitInv
<1>5. batch.complete \subseteq Uids /\ batch.complete \cap (UidsOf(pending) \cup running) = {}
  BY DEF PolicyInv, WaitInv, Members
<1>6. /\ IsQueue(pending) /\ UidsOf(pending) \subseteq Uids /\ running \subseteq Uids
      /\ UidsOf(pending) \cap running = {}
  BY <1>4, WaitingIs DEF IsWaiting
<1>7. h \in [Uids -> 0 .. MaxAge] /\ \A v \in Uids : h[v] = IF v \in run \ running THEN 0 ELSE idle_since[v]
  BY <1>2, <1>4, EnteringIs
<1>8. run \subseteq Uids /\ UidsOf(q) \cap run = {} BY <1>2, <1>5, <1>6
<1>9. IsWaiting(q, run, h) BY <1>2, <1>6, <1>7, <1>8 DEF IsWaiting
<1>10. Stays(q, run, h) BY <1>2, <1>6, <1>7, <1>8 DEF Stays
<1>11. NothingBefore(q)
  <2>1. ASSUME NEW T, NEW T1, T1 \subseteq T PROVE Before(q, T1) \subseteq Before(pending, T)
    BY <1>2, <2>1 DEF Before
  <2>2. QED BY <2>1 DEF NothingBefore
<1>12. batch'.complete = {} BY <1>3 DEF NoBatch
<1>13. batch'.complete \subseteq Uids /\ batch'.complete \cap (UidsOf(q) \cup run) = {} BY <1>12
<1>14. QED BY <1>3, <1>9, <1>10, <1>11, <1>13, MoveKeeps


LEMMA TickKeeps ==
  ASSUME PolicyInv, Tick
  PROVE  PolicyInv'
<1>1. PICK h : h = [u \in Uids |-> IF u \in Members THEN Aged(idle_since)[u] ELSE 0] OBVIOUS
<1>2. /\ Policy = "wait_time" /\ elapsed < MaxStep /\ elapsed' = elapsed + 1 /\ idle_since' = h
      /\ age' = [prefill |-> Aged(age.prefill), decode |-> Aged(age.decode)]
      /\ setting' = setting /\ pending' = pending /\ running' = running /\ batch' = batch
  BY <1>1 DEF Tick
<1>3. IsWaiting(pending, running, idle_since) /\ elapsed \in 0 .. MaxStep BY DEF PolicyInv, WaitInv
<1>4. /\ IsQueue(pending) /\ UidsOf(pending) \subseteq Uids /\ running \subseteq Uids
      /\ UidsOf(pending) \cap running = {} /\ idle_since \in [Uids -> 0 .. MaxAge]
  BY <1>3, WaitingIs DEF IsWaiting
<1>5. /\ DOMAIN h = Uids
      /\ \A v \in UidsOf(pending) \cup running : h[v] = IF idle_since[v] < MaxAge THEN idle_since[v] + 1 ELSE MaxAge
      /\ \A v \in Uids \ (UidsOf(pending) \cup running) : h[v] = 0
  BY <1>1, <1>4 DEF Members, Aged
<1>6. \A v \in Uids : idle_since[v] \in Nat /\ idle_since[v] <= MaxAge BY <1>4, Constants
<1>7. \A v \in Uids : h[v] \in 0 .. MaxAge
  <2>1. ASSUME NEW v \in Uids PROVE h[v] \in 0 .. MaxAge
    <3>1. CASE v \in UidsOf(pending) \cup running BY <1>5, <1>6, <3>1, Constants
    <3>2. CASE v \notin UidsOf(pending) \cup running BY <1>5, <3>2, Constants
    <3>3. QED BY <3>1, <3>2
  <2>2. QED BY <2>1
<1>8. h \in [Uids -> 0 .. MaxAge]
  <2>1. h = [v \in Uids |-> h[v]] BY <1>1, <1>5
  <2>2. QED BY <1>7, <2>1
<1>9. IsWaiting(pending, running, h) BY <1>4, <1>8 DEF IsWaiting
<1>10. Policy' = Policy /\ CanRefuse' = CanRefuse BY <1>2 DEF Policy, CanRefuse
<1>11. elapsed \in Nat /\ elapsed + 1 \in 0 .. MaxStep /\ elapsed + 1 \in Nat /\ elapsed <= elapsed + 1
  BY <1>2, <1>3, Constants
<1>12. age' = Ages(pending, running, h)
  <2>1. PICK p, d : p = age.prefill /\ d = age.decode OBVIOUS
  <2>2. age = Ages(pending, running, idle_since) BY <1>2 DEF PolicyInv, WaitInv
  <2>3. p = [v \in UidsOf(pending) |-> idle_since[v]] /\ d = [v \in running |-> idle_since[v]]
    BY <2>1, <2>2 DEF Ages
  <2>4. Aged(p) = [v \in UidsOf(pending) |-> h[v]] BY <1>5, <2>3 DEF Aged
  <2>5. Aged(d) = [v \in running |-> h[v]] BY <1>5, <2>3 DEF Aged
  <2>6. QED BY <1>2, <2>1, <2>4, <2>5 DEF Ages
<1>13. WaitInv'
  <2>1. Members' = Members BY <1>2 DEF Members
  <2>2. batch.complete \subseteq Uids /\ batch.complete \cap Members = {} BY DEF PolicyInv, WaitInv
  <2>3. QED BY <1>2, <1>9, <1>11, <1>12, <2>1, <2>2 DEF WaitInv
<1>14. DecodeInv'
  <2>1. SUFFICES ASSUME DecodeWait <= PrefillWait, NEW u \in running
                 PROVE  Within(pending, h, elapsed + 1, u)
    BY <1>2, <1>10 DEF DecodeInv
  <2>2. Within(pending, idle_since, elapsed, u) BY <1>2, <2>1 DEF PolicyInv, DecodeInv
  <2>3. u \in Uids /\ idle_since[u] \in Nat /\ idle_since[u] <= MaxAge BY <1>4, <1>6
  <2>4. h[u] = IF idle_since[u] < MaxAge THEN idle_since[u] + 1 ELSE MaxAge BY <1>5
  <2>5. h[u] <= idle_since[u] + (elapsed + 1 - elapsed) BY <1>11, <2>3, <2>4, Constants
  <2>6. PICK T, T1 : T = Older(pending, idle_since, u) /\ T1 = Older(pending, h, u) OBVIOUS
  <2>7. ASSUME NEW v \in T1 PROVE v \in T
    <3>1. v \in UidsOf(pending) /\ h[v] > h[u] BY <2>6, <2>7 DEF Older
    <3>2. /\ h[v] = (IF idle_since[v] < MaxAge THEN idle_since[v] + 1 ELSE MaxAge)
          /\ idle_since[v] \in Nat /\ idle_since[v] <= MaxAge
      BY <1>4, <1>5, <1>6, <3>1
    <3>3. idle_since[v] > idle_since[u] BY <2>3, <2>4, <3>1, <3>2, Constants
    <3>4. QED BY <2>6, <3>1, <3>3 DEF Older
  <2>8. T1 \subseteq T /\ Before(pending, T1) \subseteq Before(pending, T)
    <3>1. T1 \subseteq T BY <2>7
    <3>2. QED BY <3>1 DEF Before
  <2>9. PICK q, idle, t1 : q = pending /\ idle = idle_since /\ t1 = elapsed + 1 OBVIOUS
  <2>10. /\ Older(q, h, u) \subseteq Older(q, idle, u)
         /\ Before(q, Older(q, h, u)) \subseteq Before(q, Older(q, idle, u))
    BY <2>6, <2>8, <2>9
  <2>11. Within(q, h, t1, u) BY <1>3, <1>9, <1>11, <2>2, <2>5, <2>9, <2>10, DecodePart
  <2>12. QED BY <2>9, <2>11
<1>15. PrefillInv'
  <2>1. SUFFICES ASSUME ~CanRefuse, Counts, NEW v \in UidsOf(pending)
                 PROVE  PrefillWithin(pending, running, h, elapsed + 1, v)
    BY <1>2, <1>10 DEF PrefillInv
  <2>2. PrefillWithin(pending, running, idle_since, elapsed, v) BY <1>2, <2>1 DEF PolicyInv, PrefillInv
  <2>3. idle_since[v] \in Nat /\ idle_since[v] <= MaxAge BY <1>4, <1>6
  <2>4. idle_since[v] < MaxAge
    <3>1. PICK c : c = PrefillCost(pending, running, idle_since, v) OBVIOUS
    <3>2. c \in Nat /\ QueueBatches \in Nat BY <1>3, <3>1, PrefillCostIs
    <3>3. Slack(c) \in Int /\ Slack(c) <= MaxStep * QueueBatches BY <3>2, SlackIs
    <3>4. idle_since[v] <= Lead + Slack(c) + elapsed BY <2>2, <3>1 DEF PrefillWithin
    <3>5. PICK m : m = MaxStep * QueueBatches OBVIOUS
    <3>6. m \in Nat BY <3>2, <3>5, Constants
    <3>7. Lead + m + MaxStep <= MaxAge BY <2>1, <3>5 DEF Counts
    <3>8. QED BY <1>2, <1>11, <2>3, <3>3, <3>4, <3>5, <3>6, <3>7, LeadIs, Constants
  <2>5. h[v] = idle_since[v] + 1 BY <1>5, <2>4
  <2>6. ASSUME Loses(running, h, v) PROVE Loses(running, idle_since, v)
    <3>1. PICK u \in running : h[v] <= h[u] + Lead BY <2>6 DEF Loses
    <3>2. /\ h[u] = (IF idle_since[u] < MaxAge THEN idle_since[u] + 1 ELSE MaxAge)
          /\ idle_since[u] \in Nat /\ idle_since[u] <= MaxAge
      BY <1>4, <1>5, <1>6
    <3>3. idle_since[v] <= idle_since[u] + Lead BY <2>3, <2>5, <3>1, <3>2, LeadIs, Constants
    <3>4. QED BY <3>3 DEF Loses
  <2>7. PICK q, run, idle, t1 : q = pending /\ run = running /\ idle = idle_since /\ t1 = elapsed + 1 OBVIOUS
  <2>8. Before(q, {v}) \subseteq Before(q, {v}) OBVIOUS
  <2>9. h[v] <= idle[v] + (t1 - elapsed) BY <1>11, <2>3, <2>5, <2>7
  <2>10. PrefillWithin(q, run, h, t1, v) BY <1>3, <1>9, <1>11, <2>1, <2>2, <2>6, <2>7, <2>8, <2>9, PrefillPart
  <2>11. QED BY <2>7, <2>10
<1>16. QED BY <1>13, <1>14, <1>15 DEF PolicyInv

LEMMA StutterKeeps ==
  ASSUME PolicyInv, UNCHANGED vars
  PROVE  PolicyInv'
<1>1. /\ setting' = setting /\ pending' = pending /\ running' = running /\ age' = age
      /\ batch' = batch /\ elapsed' = elapsed /\ idle_since' = idle_since
  BY DEF vars
<1>2. Policy' = Policy /\ CanRefuse' = CanRefuse /\ Members' = Members
  BY <1>1 DEF Policy, CanRefuse, Members
<1>3. WaitInv' BY <1>1, <1>2 DEF PolicyInv, WaitInv
<1>4. DecodeInv' BY <1>1, <1>2 DEF PolicyInv, DecodeInv
<1>5. PrefillInv' BY <1>1, <1>2 DEF PolicyInv, PrefillInv
<1>6. QED BY <1>3, <1>4, <1>5 DEF PolicyInv

\* The invariant holds whatever the number of requests, the thresholds and the steps.
THEOREM PolicyInvariant == Spec => []PolicyInv
<1>1. Init => PolicyInv BY InitWaits
<1>2. PolicyInv /\ [Next]_vars => PolicyInv'
  <2>1. SUFFICES ASSUME PolicyInv, [Next]_vars PROVE PolicyInv' OBVIOUS
  <2>2. CASE SelectBatch BY <2>1, <2>2, SelectBatchKeeps
  <2>3. CASE Forward BY <2>1, <2>3, ForwardKeeps
  <2>4. CASE Tick BY <2>1, <2>4, TickKeeps
  <2>5. ASSUME NEW u \in Uids, Arrive(u) PROVE PolicyInv' BY <2>1, <2>5, ArriveKeeps
  <2>6. ASSUME NEW u \in Uids, Leave(u) PROVE PolicyInv' BY <2>1, <2>6, LeaveKeeps
  <2>7. CASE UNCHANGED vars BY <2>1, <2>7, StutterKeeps
  <2>8. QED BY <2>1, <2>2, <2>3, <2>4, <2>5, <2>6, <2>7 DEF Next
<1>3. QED BY <1>1, <1>2, PTL DEF Spec

\* wait_time, policy.py: with decode_wait no longer than prefill_wait, no running request
\* goes without a decode step for longer than the threshold and a step, or than the
\* prompts that were queued before it take.
THEOREM DecodeWaitCorrect == Spec => []DecodeWaitBounded
<1>1. ASSUME PolicyInv PROVE DecodeWaitBounded
  <2>1. SUFFICES ASSUME Policy = "wait_time", DecodeWait <= PrefillWait, NEW u \in running
                 PROVE  idle_since[u] <= Larger(DecodeWait - 1, MaxStep * QueueBatches) + MaxStep
    BY DEF DecodeWaitBounded
  <2>2. IsWaiting(pending, running, idle_since) /\ elapsed \in 0 .. MaxStep BY <1>1 DEF PolicyInv, WaitInv
  <2>3. Within(pending, idle_since, elapsed, u) BY <1>1, <2>1 DEF PolicyInv, DecodeInv
  <2>4. PICK c, m : c = QueueCost(pending, Older(pending, idle_since, u)) /\ m = MaxStep * QueueBatches OBVIOUS
  <2>5. c \in Nat /\ QueueBatches \in Nat BY <2>2, <2>4, OlderCost
  <2>6. Slack(c) \in Int /\ Slack(c) <= m BY <2>4, <2>5, SlackIs
  <2>7. m \in Nat BY <2>4, <2>5, Constants
  <2>8. idle_since[u] \in Nat /\ elapsed \in Nat /\ elapsed <= MaxStep BY <2>2, WaitingIs, Constants
  <2>9. PICK l : l = Larger(DecodeWait - 1, m) OBVIOUS
  <2>10. l \in Int /\ DecodeWait - 1 <= l /\ m <= l BY <2>7, <2>9, Constants DEF Larger
  <2>11. idle_since[u] <= Slack(c) + elapsed \/ idle_since[u] < DecodeWait + elapsed
    BY <2>3, <2>4 DEF Within
  <2>12. idle_since[u] <= l + MaxStep BY <2>6, <2>7, <2>8, <2>10, <2>11, Constants
  <2>13. QED BY <2>4, <2>9, <2>12
<1>2. QED BY <1>1, PolicyInvariant, PTL

\* wait_time, policy.py: while the cache has room, no queued request waits for longer
\* than the thresholds favour decoding by, one decode step, and the queue before it.
THEOREM PrefillWaitCorrect == Spec => []PrefillWaitBounded
<1>1. ASSUME PolicyInv PROVE PrefillWaitBounded
  <2>1. SUFFICES ASSUME Policy = "wait_time", ~CanRefuse, NEW v \in UidsOf(pending)
                 PROVE  idle_since[v] <= Lead + MaxStep * (QueueBatches + 1)
    BY DEF PrefillWaitBounded, Lead
  <2>2. IsWaiting(pending, running, idle_since) /\ elapsed \in 0 .. MaxStep BY <1>1 DEF PolicyInv, WaitInv
  <2>3. PICK c, m : c = PrefillCost(pending, running, idle_since, v) /\ m = MaxStep * QueueBatches OBVIOUS
  <2>4. c \in Nat /\ QueueBatches \in Nat BY <2>2, <2>3, PrefillCostIs
  <2>5. Slack(c) \in Int /\ Slack(c) <= m BY <2>3, <2>4, SlackIs
  <2>6. m \in Nat /\ MaxStep * (QueueBatches + 1) = m + MaxStep BY <2>3, <2>4, Constants
  <2>7. elapsed \in Nat /\ elapsed <= MaxStep BY <2>2, Constants
  <2>8. idle_since[v] \in Nat /\ idle_since[v] <= MaxAge
    <3>1. idle_since \in [Uids -> 0 .. MaxAge] /\ v \in Uids BY <2>2, WaitingIs DEF IsWaiting
    <3>2. QED BY <3>1, Constants
  <2>9. CASE Counts
    <3>1. PrefillWithin(pending, running, idle_since, elapsed, v) BY <1>1, <2>1, <2>9 DEF PolicyInv, PrefillInv
    <3>2. idle_since[v] <= Lead + Slack(c) + elapsed BY <2>3, <3>1 DEF PrefillWithin
    <3>3. QED BY <2>5, <2>6, <2>7, <2>8, <3>2, LeadIs, Constants
  <2>10. CASE ~Counts
    <3>1. ~(Lead + m + MaxStep <= MaxAge) BY <2>3, <2>10 DEF Counts
    <3>2. QED BY <2>6, <2>8, <3>1, LeadIs, Constants
  <2>11. QED BY <2>9, <2>10
<1>2. QED BY <1>1, PolicyInvariant, PTL

=============================================================================
