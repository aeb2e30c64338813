---------------------------- MODULE CacheProofs -----------------------------
(***************************************************************************)
(* The cache and its pages.  The tree keeps its shape, a node is locked    *)
(* once for every request whose prefix goes through it, the row of every   *)
(* request starts with the pages the cache has for its handle, and every   *)
(* page is at one place.  The tree's two counters, evictable_size and      *)
(* protected_size, are what a traversal would count; an idle scheduler has *)
(* every page and slot back; and what a page holds was computed for the    *)
(* tokens it is read for, under a path of the cache or in a request's row. *)
(***************************************************************************)
EXTENDS SchedulerProofs

-----------------------------------------------------------------------------
(* The cache and its pages.                                                *)

Handles == [o \in Newest |-> reqs[o].handle]

\* A request's row covers its cached tokens and begins with the pages of its
\* handle, which is cut from its own tokens.
RowHolds(r, row, t) ==
  /\ Len(r.handle) * PageSize <= r.cached /\ Len(r.handle) * PageSize <= Len(r.host)
  /\ \A k \in 1 .. Len(r.handle) :
       /\ r.handle[k] = SubSeq(r.host, (k - 1) * PageSize + 1, k * PageSize)
       /\ row[k] = t.page[SubSeq(r.handle, 1, k)]
  /\ Len(row) = CeilDiv(r.cached, PageSize)

TreeHolds ==
  /\ cm = [free |-> cm.free, tree |-> cm.tree, lazy |-> cm.lazy]
  /\ IsTree(cm.tree, Texts) /\ Locks(cm.tree, Newest, Handles)

CInv == TreeHolds /\ \A o \in Newest : RowHolds(reqs[o], page_table[reqs[o].slot], cm.tree)

-----------------------------------------------------------------------------
(* The tree.                                                               *)

\* Every prefix of a handle is cached.
LEMMA HandlePaths ==
  ASSUME NEW T, NEW t, IsTree(t, T), NEW h \in Nodes(t) \cup {<<>>}
  PROVE  /\ h \in Seq(T) /\ Len(h) \in Nat
         /\ \A k \in 1 .. Len(h) : SubSeq(h, 1, k) \in CachedPaths(t) /\ SubSeq(h, 1, k) \in Seq(T)
<1>1. h \in Seq(T)
  <2>1. CASE h = <<>> BY <2>1, EmptySeq
  <2>2. CASE h \in Nodes(t) BY <2>2 DEF IsTree
  <2>3. QED BY <2>1, <2>2
<1>2. Len(h) \in Nat BY <1>1, LenProperties
<1>3. ASSUME NEW k \in 1 .. Len(h) PROVE SubSeq(h, 1, k) \in CachedPaths(t) /\ SubSeq(h, 1, k) \in Seq(T)
  <2> DEFINE q == SubSeq(h, 1, k)
  <2>1. k \in 0 .. Len(h) /\ k # 0 /\ k \in Nat BY <1>2
  <2>2. q \in Prefixes(h) /\ Len(q) = k BY <2>1, <1>1, PrefixMember
  <2>3. q \in Seq(T) /\ IsPrefix(q, h) BY <2>2, <1>1, PrefixMember
  <2>4. q # <<>>
    <3>1. Len(<<>>) = 0 OBVIOUS
    <3>2. QED BY <3>1, <2>2, <2>1
  <2>5. h \in Nodes(t)
    <3>1. Len(<<>>) = 0 OBVIOUS
    <3>2. h # <<>> BY <3>1, <2>1
    <3>3. QED BY <3>2
  <2>6. h \in CachedPaths(t) BY <2>5 DEF IsTree
  <2>7. QED BY <2>6, <2>3, <2>4 DEF IsTree
<1>4. QED BY <1>1, <1>2, <1>3
\* Equal elements make equal slices.
LEMMA SameSlice ==
  ASSUME NEW S, NEW s, NEW t, NEW a \in Nat, NEW b \in Nat,
         \A i \in a .. b : s[i] \in S /\ t[i] = s[i]
  PROVE  SubSeq(s, a, b) = SubSeq(t, a, b) /\ SubSeq(s, a, b) \in Seq(S)
<1> DEFINE u == SubSeq(s, a, b)
           v == SubSeq(t, a, b)
<1>1. /\ u \in Seq(S) /\ Len(u) = IF a <= b THEN b - a + 1 ELSE 0
      /\ \A i \in 1 .. b - a + 1 : u[i] = s[a + i - 1]
  BY SubSeqProperties
<1>2. /\ v \in Seq(S) /\ Len(v) = IF a <= b THEN b - a + 1 ELSE 0
      /\ \A i \in 1 .. b - a + 1 : v[i] = t[a + i - 1]
  <2>1. \A i \in a .. b : t[i] \in S OBVIOUS
  <2>2. QED BY <2>1, SubSeqProperties
<1>3. \A i \in 1 .. b - a + 1 : a + i - 1 \in a .. b OBVIOUS
<1> HIDE DEF u, v
<1>4. \A i \in 1 .. Len(u) : u[i] = v[i] BY <1>1, <1>2, <1>3
<1>5. u = v BY <1>1, <1>2, <1>4, SeqEqual
<1>6. QED BY <1>1, <1>5 DEF u, v

\* The chunks of a prefix of a text are the text's, as many as fit.
LEMMA TextChunks ==
  ASSUME NEW s \in Texts, NEW n \in Nat, n <= Len(s)
  PROVE  LET key == Chunks(SubSeq(s, 1, n))
         IN  /\ key \in Seq(Texts) /\ Len(key) \in Nat
             /\ Len(key) * PageSize <= n /\ Len(key) <= CeilDiv(n, PageSize)
             /\ \A l \in Nat : l * PageSize <= n => l <= Len(key)
             /\ \A k \in 1 .. Len(key) : key[k] = SubSeq(s, (k - 1) * PageSize + 1, k * PageSize)
<1> DEFINE p   == SubSeq(s, 1, n)
           m   == n \div PageSize
           key == Chunks(p)
<1>1. PageSize \in Nat \ {0} BY PagesAssumption
<1>2. Len(s) \in Nat /\ \A i \in 1 .. Len(s) : s[i] \in Tokens \cup {None} BY LenProperties, ElementOfSeq DEF Texts
<1>3. Len(p) = n /\ \A i \in 1 .. n : p[i] = s[i]
  <2>1. \A i \in 1 .. n : s[i] \in Tokens \cup {None} BY <1>2
  <2>2. Len(p) = (IF 1 <= n THEN n - 1 + 1 ELSE 0) /\ \A i \in 1 .. n - 1 + 1 : p[i] = s[1 + i - 1]
    BY <2>1, SubSeqProperties
  <2>3. QED BY <2>2
<1>4. m \in Nat /\ m * PageSize <= n BY <1>1, DivNat
<1>5. key = [k \in 1 .. m |-> SubSeq(p, (k - 1) * PageSize + 1, k * PageSize)] BY <1>3 DEF Chunks
<1>6. ASSUME NEW k \in 1 .. m
      PROVE  key[k] = SubSeq(s, (k - 1) * PageSize + 1, k * PageSize) /\ key[k] \in Texts
  <2> DEFINE a == (k - 1) * PageSize + 1
             b == k * PageSize
  <2>1. a \in Nat \ {0} /\ b \in Nat /\ b <= n
    <3>1. k \in Nat \ {0} /\ k <= m BY <1>4
    <3>2. a \in Nat \ {0} /\ b \in Nat BY <3>1, <1>1
    <3>3. b <= m * PageSize BY <3>1, <1>1, <1>4
    <3>4. m * PageSize \in Nat BY <1>1, <1>4
    <3>5. QED BY <3>2, <3>3, <3>4, <1>4
  <2>2. key[k] = SubSeq(p, a, b) BY <1>5
  <2> HIDE DEF a, b
  <2>3. \A i \in a .. b : s[i] \in Tokens \cup {None} /\ p[i] = s[i]
    <3>1. \A i \in a .. b : i \in 1 .. n /\ i \in 1 .. Len(s) BY <2>1, <1>2
    <3>2. QED BY <3>1, <1>2, <1>3
  <2>4. SubSeq(s, a, b) = SubSeq(p, a, b) /\ SubSeq(s, a, b) \in Seq(Tokens \cup {None}) BY <2>1, <2>3, SameSlice
  <2>5. QED BY <2>2, <2>4 DEF a, b, Texts
<1>7. DOMAIN key = 1 .. m BY <1>5
<1>8. key \in Seq(Texts) /\ Len(key) = m
  <2>1. key \in [1 .. m -> Texts] BY <1>5, <1>6
  <2>2. key \in Seq(Texts) BY <2>1, <1>4
  <2>3. DOMAIN key = 1 .. Len(key) /\ Len(key) \in Nat BY <2>2, LenProperties
  <2>4. QED BY <2>2, <2>3, <1>7, <1>4
<1>9. m <= CeilDiv(n, PageSize)
  <2>1. n + PageSize - 1 \in Nat /\ n <= n + PageSize - 1 BY <1>1
  <2>2. n \div PageSize <= (n + PageSize - 1) \div PageSize BY <2>1, <1>1
  <2>3. QED BY <2>2 DEF CeilDiv
<1>10. ASSUME NEW l \in Nat, l * PageSize <= n PROVE l <= m
  <2> HIDE DEF m
  <2>1. n < (m + 1) * PageSize BY <1>1 DEF m
  <2>2. PICK d \in Nat \ {0} : d = PageSize BY <1>1
  <2>3. l * d < (m + 1) * d BY <1>10, <2>1, <2>2, <1>4
  <2>4. \A u, v \in Nat : u >= v => u * d >= v * d OBVIOUS
  <2>5. QED BY <2>3, <2>4, <1>4
<1>11. QED BY <1>4, <1>6, <1>8, <1>9, <1>10

\* A handle may pass from one request to another.
LEMMA LocksRenamed ==
  ASSUME NEW t, NEW H, IsFiniteSet(H), NEW h, Locks(t, H, h), NEW c \in H, NEW d, d \notin H,
         NEW h1, h1[d] = h[c], \A o \in H \ {c} : h1[o] = h[o]
  PROVE  Locks(t, (H \ {c}) \cup {d}, h1)
<1> DEFINE G == H \ {c}
           K == G \cup {d}
<1>1. \A o \in K : h1[o] \in Nodes(t) \cup {<<>>} BY DEF Locks
<1>2. ASSUME NEW n \in Nodes(t) PROVE t.ref[n] = Cardinality({o \in K : IsPrefix(n, h1[o])})
  <2> DEFINE A == {o \in G : IsPrefix(n, h[o])}
             B == {o \in H : IsPrefix(n, h[o])}
             C == {o \in K : IsPrefix(n, h1[o])}
  <2>0. t.ref[n] = Cardinality(B) BY DEF Locks
  <2>1. IsFiniteSet(G) /\ c \notin G /\ d \notin G /\ A \subseteq G BY FS_Subset
  <2>2. CASE IsPrefix(n, h[c])
    <3>1. B = A \cup {c} BY <2>2
    <3>2. C = A \cup {d} BY <2>2
    <3> HIDE DEF A, B, C, G
    <3>3. Cardinality(B) = Cardinality(A) + 1 BY <2>1, <3>1, CountMember
    <3>4. Cardinality(C) = Cardinality(A) + 1 BY <2>1, <3>2, CountMember
    <3>5. QED BY <2>0, <3>3, <3>4 DEF A, B, C, G
  <2>3. CASE ~IsPrefix(n, h[c])
    <3>1. B = A /\ C = A BY <2>3
    <3>2. QED BY <2>0, <3>1
  <2>4. QED BY <2>2, <2>3
<1>3. QED BY <1>1, <1>2 DEF Locks

\* What a request knows of its pages survives when its host tokens grow, the
\* tree grows or loses other paths.
LEMMA RowKept ==
  ASSUME NEW t, NEW t1, IsTree(t, Texts), IsTree(t1, Texts), NEW r, NEW r1, NEW row,
         RowHolds(r, row, t), r.handle \in Nodes(t) \cup {<<>>}, r.handle \in Nodes(t1) \cup {<<>>},
         \A p \in CachedPaths(t) : p \in CachedPaths(t1) => t1.page[p] = t.page[p],
         r1.handle = r.handle, r1.cached = r.cached, r.host \in Texts, r1.host \in Texts,
         Len(r.host) <= Len(r1.host), \A i \in 1 .. Len(r.host) : r1.host[i] = r.host[i]
  PROVE  RowHolds(r1, row, t1)
<1> DEFINE h == r.handle
<1>1. PageSize \in Nat \ {0} BY PagesAssumption
<1>2. Len(h) \in Nat BY HandlePaths
<1>3. Len(r.host) \in Nat /\ Len(r1.host) \in Nat BY LenProperties DEF Texts
<1>4. Len(h) * PageSize <= r.cached /\ Len(h) * PageSize <= Len(r.host) /\ Len(row) = CeilDiv(r.cached, PageSize)
  BY DEF RowHolds
<1>5. Len(h) * PageSize \in Nat BY <1>1, <1>2
<1>6. Len(h) * PageSize <= Len(r1.host)
  <2> HIDE DEF h
  <2>1. QED BY <1>3, <1>4, <1>5
<1>7. ASSUME NEW k \in 1 .. Len(h)
      PROVE  /\ h[k] = SubSeq(r1.host, (k - 1) * PageSize + 1, k * PageSize)
             /\ row[k] = t1.page[SubSeq(h, 1, k)]
  <2> DEFINE a == (k - 1) * PageSize + 1
             b == k * PageSize
  <2>1. SubSeq(h, 1, k) \in CachedPaths(t) /\ SubSeq(h, 1, k) \in CachedPaths(t1) BY HandlePaths
  <2>2. h[k] = SubSeq(r.host, a, b) /\ row[k] = t.page[SubSeq(h, 1, k)] BY DEF RowHolds
  <2>3. a \in Nat \ {0} /\ b \in Nat /\ b <= Len(r.host)
    <3>1. k \in Nat \ {0} /\ k <= Len(h) BY <1>2
    <3>2. a \in Nat \ {0} /\ b \in Nat BY <3>1, <1>1
    <3>3. b <= Len(h) * PageSize BY <3>1, <1>1, <1>2
    <3>4. QED BY <3>2, <3>3, <1>3, <1>4, <1>5
  <2> HIDE DEF a, b
  <2>4. SubSeq(r.host, a, b) = SubSeq(r1.host, a, b)
    <3>1. \A i \in a .. b : r1.host[i] = r.host[i] BY <2>3, <1>3
    <3>3. \A i \in a .. b : r.host[i] \in Tokens \cup {None}
      <4>1. \A i \in a .. b : i \in 1 .. Len(r.host) BY <2>3, <1>3
      <4>2. QED BY <4>1, ElementOfSeq DEF Texts
    <3>4. QED BY <2>3, <3>1, <3>3, SameSlice
  <2>5. QED BY <2>1, <2>2, <2>4 DEF a, b
<1>8. QED BY <1>4, <1>6, <1>7 DEF RowHolds

\* Inserting a key gives its node, or the root's handle in the naive cache; what
\* was cached and locked stays, the rest of the key gets the given pages.
Inserted(t, key, pages, ins) ==
  /\ IsTree(ins.tree, Texts) /\ ins.found \in Nat
  /\ ins.node \in {key, <<>>} /\ ins.node \in Nodes(ins.tree) \cup {<<>>}
  /\ \A q \in CachedPaths(t) : q \in CachedPaths(ins.tree) /\ ins.tree.page[q] = t.page[q]
  /\ \A q \in Seq(Texts) \ {<<>>} :
       IsPrefix(q, ins.node) /\ Len(q) > ins.found => ins.tree.page[q] = pages[Len(q)]
  /\ \A q \in CachedPaths(ins.tree) \ CachedPaths(t) : IsPrefix(q, ins.node) /\ Len(q) > ins.found
  /\ ins.found <= Len(ins.node)
  /\ IF CacheType = "naive" THEN ins.node = <<>>
     ELSE ins.node = key /\ \A q \in CachedPaths(t) : IsPrefix(q, key) => Len(q) <= ins.found
  /\ Nodes(t) \subseteq Nodes(ins.tree)
  /\ \A H, h : Locks(t, H, h) => Locks(ins.tree, H, h)

LEMMA InsertedTree ==
  ASSUME NEW t, IsTree(t, Texts), NEW key \in Seq(Texts), NEW pages
  PROVE  Inserted(t, key, pages, InsertPrefix(t, key, pages))
<1> DEFINE ins == InsertPrefix(t, key, pages)
           p   == TreeWalk(t, key).node
           t1  == TreeWalk(t, key).tree
           t2  == InsertBelow(t1, key, pages, p)
<1>1. CASE CacheType = "naive"
  <2>1. ins = [tree |-> t, found |-> 0, node |-> <<>>] BY <1>1 DEF InsertPrefix
  <2>2. ins.tree = t /\ ins.found = 0 /\ ins.node = <<>> /\ Len(<<>>) = 0 BY <2>1
  <2>3. \A q \in Seq(Texts) \ {<<>>} : ~IsPrefix(q, <<>>) BY NoPrefixOfRoot
  <2> HIDE DEF ins
  <2>4. Inserted(t, key, pages, ins) BY <1>1, <2>2, <2>3 DEF Inserted
  <2>5. QED BY <2>4 DEF ins
<1>2. CASE CacheType # "naive"
  <2>1. ins = [tree |-> t2, found |-> Len(p), node |-> key] BY <1>2 DEF InsertPrefix
  <2>2. ins.tree = t2 /\ ins.found = Len(p) /\ ins.node = key BY <2>1
  <2>3. Walked(t, Texts, key, p, t1) BY TreeWalkTree
  <2> HIDE DEF ins, p, t1
  <2>4. /\ IsTree(t2, Texts) /\ key \in Nodes(t2) \cup {<<>>}
        /\ CachedPaths(t) \subseteq CachedPaths(t2) /\ Nodes(t1) \subseteq Nodes(t2)
        /\ \A q \in CachedPaths(t) : t2.page[q] = t.page[q]
        /\ \A q \in Seq(Texts) \ {<<>>} :
             IsPrefix(q, key) /\ Len(q) > Len(p) => q \in CachedPaths(t2) /\ t2.page[q] = pages[Len(q)]
        /\ \A q \in CachedPaths(t2) \ CachedPaths(t) : IsPrefix(q, key) /\ Len(q) > Len(p)
        /\ Len(p) <= Len(key)
        /\ \A H, h : Locks(t1, H, h) => Locks(t2, H, h)
    BY <2>3, InsertBelowTree
  <2>5. \A H, h : Locks(t, H, h) => Locks(t1, H, h) BY <2>3, WalkedLocks
  <2>6. Nodes(t) \subseteq Nodes(t1) /\ Len(p) \in Nat BY <2>3, LenProperties DEF Walked
  <2>7. \A q \in CachedPaths(t) : IsPrefix(q, key) => Len(q) <= Len(p)
    <3>1. \A q \in CachedPaths(t) : IsPrefix(q, key) => IsPrefix(q, p) BY <2>3 DEF Walked
    <3>2. CachedPaths(t) \subseteq Seq(Texts) /\ p \in Seq(Texts) BY <2>3 DEF Walked, IsTree
    <3>3. QED BY <3>1, <3>2, PrefixOrder
  <2> HIDE DEF t2
  <2>8. Inserted(t, key, pages, ins) BY <1>2, <2>2, <2>4, <2>5, <2>6, <2>7 DEF Inserted
  <2>9. QED BY <2>8 DEF ins
<1>3. QED BY <1>1, <1>2

\* Matching a prompt changes no page and no lock; the handle is cut from it.
Matched(t, ids, m) ==
  /\ IsTree(m.tree, Texts) /\ m.node \in Nodes(m.tree) \cup {<<>>}
  /\ m.tree.page = t.page /\ CachedPaths(m.tree) = CachedPaths(t)
  /\ \A k \in 1 .. Len(m.node) : m.node[k] = SubSeq(ids, (k - 1) * PageSize + 1, k * PageSize)
  /\ \A H, h : Locks(t, H, h) => Locks(m.tree, H, h)

LEMMA MatchedTree ==
  ASSUME NEW c, IsTree(c.tree, Texts), NEW ids \in Seq(Tokens) \ {<<>>}
  PROVE  Matched(c.tree, ids, MatchReq(c, ids))
<1> DEFINE n   == Len(ids) - 1
           key == Chunks(SubSeq(ids, 1, n))
           m   == MatchReq(c, ids)
           t   == c.tree
<1>1. n \in Nat /\ n <= Len(ids) /\ Len(ids) \in Nat BY EmptySeq, LenProperties
<1>2. ids \in Texts BY SeqMonotonic DEF Texts
<1>3. /\ key \in Seq(Texts) /\ Len(key) \in Nat
      /\ \A k \in 1 .. Len(key) : key[k] = SubSeq(ids, (k - 1) * PageSize + 1, k * PageSize)
  <2> HIDE DEF n
  <2>1. QED BY <1>1, <1>2, TextChunks
<1>4. m = MatchPrefix(t, key) BY DEF MatchReq
<1> HIDE DEF key
<1>5. CASE CacheType = "naive"
  <2>1. m = [node |-> <<>>, tree |-> t] BY <1>4, <1>5 DEF MatchPrefix
  <2>2. m.node = <<>> /\ m.tree = t /\ Len(<<>>) = 0 BY <2>1
  <2> HIDE DEF m
  <2>3. \A k \in 1 .. Len(m.node) : FALSE BY <2>2
  <2>4. Matched(t, ids, m) BY <2>2, <2>3 DEF Matched
  <2>5. QED BY <2>4 DEF m
<1>6. CASE CacheType # "naive"
  <2>1. m = TreeWalk(t, key) BY <1>4, <1>6 DEF MatchPrefix
  <2>2. Walked(t, Texts, key, m.node, m.tree) BY <2>1, <1>3, TreeWalkTree
  <2> HIDE DEF m
  <2>3. \A H, h : Locks(t, H, h) => Locks(m.tree, H, h) BY <2>2, WalkedLocks
  <2>4. m.node \in Seq(Texts) /\ IsPrefix(m.node, key) BY <2>2 DEF Walked
  <2>5. Len(m.node) <= Len(key) /\ \A k \in 1 .. Len(m.node) : m.node[k] = key[k]
    BY <2>4, <1>3, PrefixElements
  <2>6. Len(m.node) \in Nat BY <2>4, LenProperties
  <2>7. \A k \in 1 .. Len(m.node) : m.node[k] = SubSeq(ids, (k - 1) * PageSize + 1, k * PageSize)
    <3>1. \A k \in 1 .. Len(m.node) : k \in 1 .. Len(key) BY <2>5, <2>6, <1>3
    <3> HIDE DEF n
    <3>2. \A k \in 1 .. Len(key) : key[k] = SubSeq(ids, (k - 1) * PageSize + 1, k * PageSize) BY <1>3
    <3>3. QED BY <3>1, <3>2, <2>5
  <2>8. Matched(t, ids, m) BY <2>2, <2>3, <2>7 DEF Matched, Walked
  <2>9. QED BY <2>8 DEF m
<1>7. QED BY <1>5, <1>6

-----------------------------------------------------------------------------
(* Handles and rows.                                                       *)

\* Requests are as many as the lists hold.
LEMMA NewestFinite == IInv => IsFiniteSet(Newest)
<1> SUFFICES ASSUME IInv PROVE IsFiniteSet(Newest) OBVIOUS
<1> DEFINE c == [i \in 1 .. Len(pending) |-> pending[i].chunk]
           C == {pending[i].chunk : i \in DOMAIN pending}
           D == C \ {None}
<1>1. IsFiniteSet(C)
  <2>1. pending \in Seq(PendingType) BY DEF IInv, TypeOK
  <2>2. DOMAIN pending = 1 .. Len(pending) /\ Len(pending) \in Nat BY <2>1, LenProperties
  <2>3. ASSUME NEW i \in 1 .. Len(pending) PROVE pending[i].chunk \in Objs \cup {None}
    <3>1. pending[i] \in PendingType BY <2>1, ElementOfSeq
    <3>2. QED BY <3>1 DEF PendingType
  <2>4. c \in Seq(Objs \cup {None}) BY <2>2, <2>3
  <2>5. C = ToSet(c) BY <2>2 DEF ToSet
  <2>6. QED BY <2>4, <2>5, FiniteElements
<1>2. IsFiniteSet(D) BY <1>1, FS_Subset
<1>3. IsFiniteSet(running) BY DEF IInv, TypeOK
<1>4. \A S, U : IsFiniteSet(S) /\ IsFiniteSet(U) => IsFiniteSet(S \cup U) BY FS_Union
<1>5. /\ IsFiniteSet(ToSet(last.reqs)) /\ IsFiniteSet(ToSet(proc.reqs))
      /\ IsFiniteSet(ToSet(adder.reqs)) /\ IsFiniteSet(ToSet(batch.reqs))
  BY FiniteElements DEF IInv, TypeOK
<1>6. IsFiniteSet(DOMAIN inflight) BY <1>4, <1>5 DEF IInv, InflightExact
<1>7. IsFiniteSet(terminal)
  <2>1. terminal \subseteq DOMAIN inflight BY DEF IInv, TerminalDrains
  <2>2. QED BY <2>1, <1>6, FS_Subset
<1>8. IsFiniteSet(Referenced)
  <2>1. Referenced = ((running \cup terminal) \cup DOMAIN inflight) \cup D BY DEF Referenced
  <2> HIDE DEF D
  <2>2. QED BY <2>1, <1>2, <1>3, <1>4, <1>6, <1>7
<1>9. IsFiniteSet(Holders) BY <1>4, <1>5, <1>8 DEF Holders
<1>10. Newest \subseteq Holders BY DEF Newest
<1>11. QED BY <1>9, <1>10, FS_Subset

\* The locks of the requests are read off their handles.
LEMMA LocksRead ==
  ASSUME NEW t, Locks(t, Newest, Handles), NEW o \in Newest
  PROVE  reqs[o].handle \in Nodes(t) \cup {<<>>}
BY DEF Locks, Handles

\* Tokens are only added at the end.
Grows(h, h1) ==
  h1 = h \/ (h1 \in Texts /\ Len(h) <= Len(h1) /\ \A i \in 1 .. Len(h) : h1[i] = h[i])

\* A step that keeps the requests' handles and what they know of their rows.
LEMMA CacheKept ==
  ASSUME IInv, XInv, HInv, CInv, Newest' \subseteq Newest,
         cm' = [free |-> cm'.free, tree |-> cm'.tree, lazy |-> cm'.lazy],
         IsTree(cm'.tree, Texts), Locks(cm'.tree, Newest', Handles),
         \A p \in CachedPaths(cm.tree) : p \in CachedPaths(cm'.tree) => cm'.tree.page[p] = cm.tree.page[p],
         \A o \in Newest' :
           /\ reqs'[o].handle = reqs[o].handle /\ reqs'[o].cached = reqs[o].cached
           /\ reqs'[o].slot = reqs[o].slot
           /\ page_table'[reqs[o].slot] = page_table[reqs[o].slot]
           /\ Grows(reqs[o].host, reqs'[o].host)
  PROVE  CInv'
<1> DEFINE t  == cm.tree
           t1 == cm'.tree
<1>1. \A o \in Newest' : Handles'[o] = Handles[o] BY DEF Handles
<1>2. Locks(t1, Newest', Handles') BY <1>1, LocksSame
<1>3. TreeHolds' BY <1>2 DEF TreeHolds
<1>4. ASSUME NEW o \in Newest'
      PROVE  RowHolds(reqs'[o], page_table'[reqs'[o].slot], t1)
  <2> DEFINE r == reqs[o]  r1 == reqs'[o]  row == page_table[r.slot]
  <2>1. r.handle \in Nodes(t) \cup {<<>>} BY LocksRead DEF CInv, TreeHolds
  <2>2. r.handle \in Nodes(t1) \cup {<<>>}
    <3>1. Handles[o] = r.handle BY DEF Handles
    <3>2. QED BY <3>1 DEF Locks
  <2>3. RowHolds(r, row, t) /\ IsTree(t, Texts) BY DEF CInv, TreeHolds
  <2>4. r.host \in Texts /\ Len(r.host) \in Nat
    <3>1. r.host \in Texts BY DEF HInv, Stored
    <3>2. QED BY <3>1, LenProperties DEF Texts
  <2>5. r1.handle = r.handle /\ r1.cached = r.cached /\ Grows(r.host, r1.host) /\ r1.slot = r.slot
        /\ page_table'[r.slot] = row
    OBVIOUS
  <2> HIDE DEF r, r1, row
  <2>6. Len(r.host) <= Len(r1.host) /\ \A i \in 1 .. Len(r.host) : r1.host[i] = r.host[i] BY <2>4, <2>5 DEF Grows
  <2>7. RowHolds(r1, row, t1)
    <3> HIDE DEF t, t1
    <3>1. \A p \in CachedPaths(t) : p \in CachedPaths(t1) => t1.page[p] = t.page[p] BY DEF t, t1
    <3>2. IsTree(t1, Texts) BY DEF t1
    <3>3. r1.host \in Texts BY <2>4, <2>5 DEF Grows
    <3>4. r1.handle = r.handle /\ r1.cached = r.cached BY <2>5
    <3>5. r.host \in Texts BY <2>4
    <3>6. RowHolds(r, row, t) BY <2>3
    <3>7. IsTree(t, Texts) BY <2>3
    <3>8. RowHolds(r1, row, t1) BY ONLY <3>1, <3>2, <3>3, <3>4, <3>5, <3>6, <3>7, <2>1, <2>2, <2>6, RowKept
    <3>9. QED BY <3>8
  <2>8. QED BY <2>7, <2>5 DEF r1
<1>5. QED BY <1>3, <1>4 DEF CInv

\* Steps that leave the cache, the rows and the requests alone.
LEMMA QuietCache ==
  ASSUME IInv, XInv, HInv, CInv, Newest' = Newest, UNCHANGED page_table,
         cm' = [free |-> cm'.free, tree |-> cm.tree, lazy |-> cm'.lazy],
         \A o \in Newest : reqs'[o] = reqs[o]
  PROVE  CInv'
<1>1. cm'.tree = cm.tree OBVIOUS
<1>2. IsTree(cm.tree, Texts) /\ Locks(cm.tree, Newest, Handles) BY DEF CInv, TreeHolds
<1>3. \A h : Grows(h, h) BY DEF Grows
<1>4. QED BY <1>1, <1>2, <1>3, CacheKept

\* Freeing pages leaves the tree alone.
LEMMA FreedTree ==
  ASSUME NEW c, c = [free |-> c.free, tree |-> c.tree, lazy |-> c.lazy],
         NEW t, NEW pages, NEW reg \in BOOLEAN
  PROVE  LET d == FreePages([c EXCEPT !.tree = t], pages, reg)
         IN  d = [free |-> d.free, tree |-> d.tree, lazy |-> d.lazy] /\ d.tree = t
<1> DEFINE e == [c EXCEPT !.tree = t]
           d == FreePages(e, pages, reg)
<1>1. e = [free |-> c.free, tree |-> t, lazy |-> c.lazy] OBVIOUS
<1> HIDE DEF e
<1>2. d = IF reg THEN [e EXCEPT !.lazy = @ \o pages] ELSE [e EXCEPT !.free = Ascending(@ \o pages)]
  BY DEF FreePages
<1>3. PICK l : l = e.lazy \o pages OBVIOUS
<1>4. PICK f : f = Ascending(e.free \o pages) OBVIOUS
<1>5. d = IF reg THEN [e EXCEPT !.lazy = l] ELSE [e EXCEPT !.free = f] BY <1>2, <1>3, <1>4
<1> HIDE DEF d
<1>6. d = [free |-> d.free, tree |-> d.tree, lazy |-> d.lazy] /\ d.tree = t
  <2>1. CASE reg BY <2>1, <1>1, <1>5
  <2>2. CASE ~reg BY <2>2, <1>1, <1>5
  <2>3. QED BY <2>1, <2>2
<1>7. QED BY <1>6 DEF d, e

\* A released request leaves its pages in the cache and takes its lock along.
LEMMA ReleasedCache ==
  ASSUME IInv, XInv, HInv, CInv, NEW c \in Newest, NEW r,
         r.handle = reqs[c].handle, r.slot = reqs[c].slot,
         r.host \in Texts, r.cached \in Nat, r.cached <= Len(r.host),
         NEW reg \in BOOLEAN, FreeReqResources(c, r, reg),
         Newest' = Newest \ {c}, \A o \in Newest' : reqs'[o] = reqs[o]
  PROVE  CInv'
<1> DEFINE t    == cm.tree
           row  == page_table[r.slot]
           key  == Chunks(SubSeq(r.host, 1, r.cached))
           ins  == InsertPrefix(t, key, row)
           t1   == UnlockPath(ins.tree, r.handle)
           tail == SubSeq(row, Len(ins.node) + 1, CeilDiv(r.cached, PageSize))
           more == Duplicates(row, Len(r.handle) + 1, ins.found) \o tail
<1>1. IsTree(t, Texts) /\ Locks(t, Newest, Handles) /\ IsFiniteSet(Newest)
      /\ cm = [free |-> cm.free, tree |-> t, lazy |-> cm.lazy]
  BY NewestFinite DEF CInv, TreeHolds
<1>2. key \in Seq(Texts) BY TextChunks
<1>3. cm' = FreePages([cm EXCEPT !.tree = t1], more, reg) BY DEF FreeReqResources, ReleaseCached
<1>4. page_table' = [page_table EXCEPT ![r.slot] = <<>>] BY DEF FreeReqResources
<1> HIDE DEF key
<1>5. Inserted(t, key, row, ins) BY <1>1, <1>2, InsertedTree
<1> HIDE DEF ins
<1>6. IsTree(ins.tree, Texts) /\ Locks(ins.tree, Newest, Handles) BY <1>1, <1>5 DEF Inserted
<1>7. Handles[c] = r.handle BY DEF Handles
<1>8. /\ IsTree(t1, Texts) /\ t1.page = ins.tree.page /\ CachedPaths(t1) = CachedPaths(ins.tree)
      /\ Locks(t1, Newest', Handles)
  <2>1. t1 = UnlockPath(ins.tree, Handles[c]) BY <1>7
  <2> HIDE DEF t1
  <2>2. QED BY <1>1, <1>6, <2>1, UnlockPathTree
<1> HIDE DEF more
<1>9. cm' = [free |-> cm'.free, tree |-> cm'.tree, lazy |-> cm'.lazy] /\ cm'.tree = t1
  <2> HIDE DEF t1, t
  <2>1. cm = [free |-> cm.free, tree |-> cm.tree, lazy |-> cm.lazy] BY <1>1 DEF t
  <2> DEFINE d == FreePages([cm EXCEPT !.tree = t1], more, reg)
  <2>2. d = [free |-> d.free, tree |-> d.tree, lazy |-> d.lazy] /\ d.tree = t1
    BY ONLY <2>1, reg \in BOOLEAN, FreedTree
  <2>3. cm' = d BY <1>3
  <2> HIDE DEF d
  <2>4. QED BY <2>2, <2>3
<1>10. \A p \in CachedPaths(t) : p \in CachedPaths(t1) => t1.page[p] = t.page[p]
  <2> HIDE DEF t1, t
  <2>1. QED BY <1>5, <1>8 DEF Inserted
<1>11. ASSUME NEW o \in Newest'
       PROVE  reqs'[o] = reqs[o] /\ page_table'[reqs[o].slot] = page_table[reqs[o].slot]
  <2>1. o \in Newest /\ o # c OBVIOUS
  <2>2. reqs[o].slot # r.slot /\ reqs[o].slot \in Slots BY <2>1, SlotsApart
  <2>3. QED BY <2>2, <1>4
<1>12. Newest' \subseteq Newest OBVIOUS
<1> HIDE DEF t1
<1>13. IsTree(cm'.tree, Texts) /\ Locks(cm'.tree, Newest', Handles) BY <1>8, <1>9
<1>14. \A p \in CachedPaths(cm.tree) : p \in CachedPaths(cm'.tree) => cm'.tree.page[p] = cm.tree.page[p]
  BY <1>9, <1>10
<1>15. \A h : Grows(h, h) BY DEF Grows
<1>16. QED BY <1>9, <1>11, <1>12, <1>13, <1>14, <1>15, CacheKept

\* The lengths the host's tokens must have before the cache may be asked.
LEMMA CachedKnown ==
  ASSUME IInv, XInv, LInv, HInv, NEW o \in Newest
  PROVE  /\ reqs[o].cached \in Nat /\ reqs[o].host \in Texts /\ Len(reqs[o].host) \in Nat
         /\ reqs[o].cached < Len(reqs[o].host) + Flying(o) \/ reqs[o].cached <= Len(reqs[o].host)
<1> DEFINE r    == reqs[o]
           pool == token_pool[r.slot]
<1>1. TypeOK /\ Stored(o) /\ ObjectLengths /\ o \in DOMAIN reqs
  BY SlotsApart DEF IInv, HInv, LInv
<1>2. r.cached \in Int /\ r.device \in Int /\ 0 <= r.cached /\ r.cached < r.device
      /\ r.class \in {"Req", "ChunkedReq"}
  BY <1>1 DEF TypeOK, ObjectLengths
<1>3. /\ r.host \in Texts /\ Len(r.host) \in Nat
      /\ r.class = "Req" => r.device = Len(r.host) + Flying(o)
      /\ r.class = "ChunkedReq" =>
           Len(pool) = Len(r.host) /\ (Len(pool) = r.device \/ Len(pool) = r.cached)
  BY <1>1, LenProperties DEF Stored, Texts
<1>4. Flying(o) \in Nat BY <1>1, FlyingCounts
<1> HIDE DEF r, pool
<1>5. QED
  <2>1. r.cached \in Nat BY <1>2
  <2>2. r.cached < Len(r.host) + Flying(o) \/ r.cached <= Len(r.host) BY <1>2, <1>3, <1>4
  <2>3. QED BY <2>1, <2>2, <1>3 DEF r

\* cache_req rewrites the row of a request that goes on: from now on it begins
\* with the cache's pages for the whole prefix that is cached.
LEMMA KeptRow ==
  ASSUME NEW t, IsTree(t, Texts), NEW r, NEW row, NEW S, row \in Seq(S), RowHolds(r, row, t),
         r.handle \in Nodes(t) \cup {<<>>},
         r.host \in Texts, r.cached \in Nat, r.cached <= Len(r.host),
         NEW key, key = Chunks(SubSeq(r.host, 1, r.cached)), NEW ins, Inserted(t, key, row, ins),
         NEW t1, t1.page = ins.tree.page,
         NEW r1, r1.handle = ins.node, r1.cached = r.cached, r1.host = r.host
  PROVE  RowHolds(r1, Canonical(ins.tree, row, ins.node, Len(r.handle) + 1, ins.found), t1)
<1> DEFINE h   == r.handle
           own == Len(h) + 1
           new == Canonical(ins.tree, row, ins.node, own, ins.found)
<1>1. /\ key \in Seq(Texts) /\ Len(key) \in Nat
      /\ Len(key) * PageSize <= r.cached /\ Len(key) <= CeilDiv(r.cached, PageSize)
      /\ \A k \in 1 .. Len(key) : key[k] = SubSeq(r.host, (k - 1) * PageSize + 1, k * PageSize)
  BY TextChunks
<1>2. h \in Seq(Texts) /\ Len(h) \in Nat /\ \A k \in 1 .. Len(h) : SubSeq(h, 1, k) \in CachedPaths(t)
  BY HandlePaths
<1>3. /\ Len(row) = CeilDiv(r.cached, PageSize)
      /\ \A k \in 1 .. Len(h) : /\ h[k] = SubSeq(r.host, (k - 1) * PageSize + 1, k * PageSize)
                                /\ row[k] = t.page[SubSeq(h, 1, k)]
  BY DEF RowHolds
<1>4. DOMAIN row = 1 .. Len(row) /\ Len(row) \in Nat BY LenProperties
<1>5. DOMAIN new = 1 .. Len(row) /\ Len(new) = Len(row)
      /\ \A k \in 1 .. Len(row) :
           new[k] = IF k \in own .. ins.found THEN ins.tree.page[SubSeq(ins.node, 1, k)] ELSE row[k]
  <2>1. new = [k \in 1 .. Len(row) |->
                 IF k \in own .. ins.found THEN ins.tree.page[SubSeq(ins.node, 1, k)] ELSE row[k]]
    BY <1>4 DEF Canonical
  <2> HIDE DEF new
  <2>2. DOMAIN new = 1 .. Len(row) BY <2>1
  <2>3. Len(new) = Len(row) BY <2>1, <1>4
  <2>4. QED BY <2>1, <2>2, <2>3
<1>6. ins.found \in Nat BY DEF Inserted
<1>7. CASE ins.node = <<>>
  <2>1. Len(r1.handle) = 0 /\ PageSize \in Nat /\ Len(r.host) \in Nat BY <1>7, PagesAssumption, LenProperties DEF Texts
  <2> HIDE DEF new
  <2>2. RowHolds(r1, new, t1) BY <2>1, <1>3, <1>5 DEF RowHolds
  <2>3. QED BY <2>2 DEF new
<1>8. CASE ins.node = key
  <2>1. ASSUME NEW k \in 1 .. Len(key)
        PROVE  /\ key[k] = SubSeq(r.host, (k - 1) * PageSize + 1, k * PageSize)
               /\ new[k] = ins.tree.page[SubSeq(key, 1, k)]
    <3> DEFINE q == SubSeq(key, 1, k)
    <3>1. k \in Nat \ {0} /\ k \in 0 .. Len(key) /\ k \in 1 .. Len(row) BY <1>1, <1>3, <1>4
    <3>2. q \in Prefixes(key) /\ Len(q) = k BY <3>1, <1>1, PrefixMember
    <3>3. q \in Seq(Texts) /\ IsPrefix(q, key) BY <3>2, <1>1, PrefixMember
    <3>4. q # <<>>
      <4>1. Len(<<>>) = 0 OBVIOUS
      <4>2. QED BY <4>1, <3>1, <3>2
    <3>5. CASE k \in own .. ins.found BY <3>5, <3>1, <1>5, <1>8, <1>1
    <3>6. CASE k <= Len(h)
      <4>1. k \in 1 .. Len(h) /\ k \notin own .. ins.found BY <3>1, <3>6, <1>2, <1>6
      <4>2. new[k] = t.page[SubSeq(h, 1, k)] BY <4>1, <3>1, <1>5, <1>3
      <4>3. SubSeq(h, 1, k) = q
        <5>1. \A i \in 1 .. k : i \in 1 .. Len(h) /\ i \in 1 .. Len(key) BY <4>1, <3>1, <1>1, <1>2
        <5>2. \A i \in 1 .. k : h[i] \in Texts /\ key[i] = h[i] BY <5>1, <1>1, <1>2, <1>3, ElementOfSeq
        <5>3. QED BY <5>2, <3>1, SameSlice
      <4>4. q \in CachedPaths(t) BY <4>1, <4>3, <1>2
      <4>5. ins.tree.page[q] = t.page[q] BY <4>4 DEF Inserted
      <4>6. QED BY <4>2, <4>3, <4>5, <1>1
    <3>7. CASE k \notin own .. ins.found /\ ~(k <= Len(h))
      <4>1. k > ins.found BY <3>1, <3>7, <1>2, <1>6
      <4>2. new[k] = row[k] BY <3>1, <3>7, <1>5
      <4>3. ins.tree.page[q] = row[Len(q)]
        <5> HIDE DEF q
        <5>1. q \in Seq(Texts) \ {<<>>} /\ IsPrefix(q, ins.node) /\ Len(q) > ins.found
          BY <3>2, <3>3, <3>4, <4>1, <1>8
        <5>2. QED BY <5>1 DEF Inserted
      <4>4. QED BY <4>2, <4>3, <3>2, <1>1
    <3>8. QED BY <3>5, <3>6, <3>7
  <2>2. Len(key) * PageSize <= Len(r.host)
    <3>1. Len(r.host) \in Nat /\ PageSize \in Nat BY LenProperties, PagesAssumption DEF Texts
    <3>2. Len(key) * PageSize \in Nat BY <3>1, <1>1
    <3>3. QED BY <3>1, <3>2, <1>1
  <2> HIDE DEF new
  <2>3. RowHolds(r1, new, t1) BY <2>1, <2>2, <1>1, <1>3, <1>5, <1>8 DEF RowHolds
  <2>4. QED BY <2>3 DEF new
<1>9. QED BY <1>7, <1>8 DEF Inserted
\* A request that goes on inserts its prefix and moves its lock to it.
LEMMA KeptCache ==
  ASSUME IInv, XInv, LInv, HInv, CInv, NEW c \in Newest, NEW r,
         r.handle = reqs[c].handle, r.slot = reqs[c].slot, r.cached = reqs[c].cached,
         r.host \in Texts, r.cached <= Len(r.host), Len(reqs[c].host) <= Len(r.host),
         \A i \in 1 .. Len(reqs[c].host) : r.host[i] = reqs[c].host[i],
         cm' = KeepCached(cm, r, page_table[r.slot]).cm,
         page_table' = [page_table EXCEPT ![r.slot] = KeepCached(cm, r, page_table[r.slot]).row],
         reqs'[c].handle = KeepCached(cm, r, page_table[r.slot]).handle,
         reqs'[c].slot = r.slot, reqs'[c].cached = r.cached, reqs'[c].host = r.host,
         Newest' = Newest, \A o \in Newest \ {c} : reqs'[o] = reqs[o]
  PROVE  CInv'
<1> DEFINE t    == cm.tree
           row  == page_table[r.slot]
           key  == Chunks(SubSeq(r.host, 1, r.cached))
           ins  == InsertPrefix(t, key, row)
           own  == Len(r.handle) + 1
           low  == UnlockPath(ins.tree, r.handle)
           t1   == LockPath(low, ins.node)
           more == Duplicates(row, own, ins.found)
           new  == Canonical(ins.tree, row, ins.node, own, ins.found)
           d    == FreePages([cm EXCEPT !.tree = t1], more, TRUE)
<1>1. IsTree(t, Texts) /\ Locks(t, Newest, Handles) /\ IsFiniteSet(Newest)
      /\ cm = [free |-> cm.free, tree |-> t, lazy |-> cm.lazy]
  BY NewestFinite DEF CInv, TreeHolds
<1>2. r.cached \in Nat BY CachedKnown
<1>3. key \in Seq(Texts) BY <1>2, TextChunks
<1>4. /\ cm' = d /\ reqs'[c].handle = ins.node
      /\ page_table' = [page_table EXCEPT ![r.slot] = new]
  <2>1. KeepCached(cm, r, row) = [cm |-> d, row |-> new, handle |-> ins.node] BY DEF KeepCached
  <2>2. PICK k : k = KeepCached(cm, r, row) OBVIOUS
  <2> HIDE DEF d, new, ins
  <2>3. k.cm = d /\ k.row = new /\ k.handle = ins.node BY <2>1, <2>2
  <2>4. QED BY <2>2, <2>3
<1>5. Inserted(t, key, row, ins) BY <1>1, <1>3, InsertedTree
<1>6. r.slot \in Slots /\ DOMAIN page_table = Slots /\ row \in Seq(ToSet(row))
  <2>1. r.slot \in Slots BY SlotsApart
  <2>2. QED BY <2>1 DEF LInv, RowLengths, IsRow
<1>7. RowHolds(r, row, t)
  <2> DEFINE r0 == reqs[c]
  <2>1. RowHolds(r0, row, t) BY DEF CInv
  <2>2. r0.handle \in Nodes(t) \cup {<<>>} BY <1>1, LocksRead
  <2>3. r0.host \in Texts BY CachedKnown
  <2>4. r.handle = r0.handle /\ r.cached = r0.cached /\ Len(r0.host) <= Len(r.host)
        /\ \A i \in 1 .. Len(r0.host) : r.host[i] = r0.host[i]
    OBVIOUS
  <2>5. r.host \in Texts OBVIOUS
  <2> HIDE DEF r0, t, row
  <2>6. QED BY ONLY <1>1, <2>1, <2>2, <2>3, <2>4, <2>5, RowKept
<1>8. r.handle \in Nodes(t) \cup {<<>>} BY <1>1, LocksRead
<1> HIDE DEF key, ins
<1>9. IsTree(ins.tree, Texts) /\ Locks(ins.tree, Newest, Handles)
      /\ ins.node \in Nodes(ins.tree) \cup {<<>>}
  BY <1>1, <1>5 DEF Inserted
<1>10. Handles[c] = r.handle BY DEF Handles
<1>11. /\ IsTree(low, Texts) /\ low.page = ins.tree.page /\ CachedPaths(low) = CachedPaths(ins.tree)
       /\ Nodes(low) = Nodes(ins.tree) /\ Locks(low, Newest \ {c}, Handles)
  <2>1. low = UnlockPath(ins.tree, Handles[c]) BY <1>10
  <2> HIDE DEF low
  <2>2. PICK s : s = ins.tree OBVIOUS
  <2>3. PICK u : u = UnlockPath(s, Handles[c]) OBVIOUS
  <2>4. IsTree(s, Texts) /\ Locks(s, Newest, Handles) /\ IsFiniteSet(Newest) /\ c \in Newest
    BY <1>1, <1>9, <2>2
  <2>5. /\ IsTree(u, Texts) /\ u.page = s.page /\ CachedPaths(u) = CachedPaths(s)
        /\ Nodes(u) = Nodes(s) /\ Locks(u, Newest \ {c}, Handles)
    BY ONLY <2>3, <2>4, UnlockPathTree
  <2>6. u = low BY <2>1, <2>2, <2>3
  <2>7. QED BY <2>2, <2>5, <2>6
<1> HIDE DEF low
<1>12. /\ IsTree(t1, Texts) /\ t1.page = ins.tree.page /\ CachedPaths(t1) = CachedPaths(ins.tree)
       /\ Locks(t1, Newest, Handles')
  <2>1. PICK H : H = Newest \ {c} OBVIOUS
  <2>2. IsFiniteSet(H) /\ c \notin H /\ H \cup {c} = Newest BY <1>1, <2>1, FS_Subset
  <2>3. Handles'[c] = ins.node /\ \A o \in H : Handles'[o] = Handles[o] BY <1>4, <2>1 DEF Handles
  <2>4. Locks(low, H, Handles) /\ ins.node \in Nodes(low) \cup {<<>>} BY <1>9, <1>11, <2>1
  <2>5. /\ IsTree(t1, Texts) /\ t1.page = low.page /\ CachedPaths(t1) = CachedPaths(low)
        /\ Locks(t1, H \cup {c}, Handles')
    <3>1. PICK h : h = Handles OBVIOUS
    <3>2. PICK h1 : h1 = Handles' OBVIOUS
    <3>3. Locks(low, H, h) /\ h1[c] = ins.node /\ \A o \in H : h1[o] = h[o]
      BY <2>3, <2>4, <3>1, <3>2
    <3>4. IsTree(low, Texts) /\ ins.node \in Nodes(low) \cup {<<>>} BY <1>11, <2>4
    <3>5. /\ IsTree(t1, Texts) /\ t1.page = low.page /\ CachedPaths(t1) = CachedPaths(low)
          /\ Locks(t1, H \cup {c}, h1)
      <4>1. PICK n : n = ins.node OBVIOUS
      <4>2. IsTree(low, Texts) /\ Locks(low, H, h) /\ n \in Nodes(low) \cup {<<>>} /\ IsFiniteSet(H)
            /\ c \notin H /\ h1[c] = n /\ \A o \in H : h1[o] = h[o]
        BY <3>3, <3>4, <2>2, <4>1
      <4>3. Taken(Texts, low, H, h1, c, LockPath(low, n)) BY ONLY <4>2, LockPathTree
      <4>4. LockPath(low, n) = t1 BY <4>1
      <4> HIDE DEF t1
      <4>5. QED BY <4>3, <4>4 DEF Taken
    <3>6. QED BY <3>2, <3>5
  <2>6. QED BY <1>11, <2>2, <2>5
<1> HIDE DEF t1
<1>13. cm' = [free |-> cm'.free, tree |-> cm'.tree, lazy |-> cm'.lazy] /\ cm'.tree = t1
  <2> HIDE DEF t, more
  <2>1. cm = [free |-> cm.free, tree |-> cm.tree, lazy |-> cm.lazy] BY <1>1 DEF t
  <2>2. d = [free |-> d.free, tree |-> d.tree, lazy |-> d.lazy] /\ d.tree = t1
    BY ONLY <2>1, TRUE \in BOOLEAN, FreedTree
  <2> HIDE DEF d
  <2>3. QED BY <1>4, <2>2
<1>14. TreeHolds'
  <2>1. Locks(t1, Newest', Handles') BY <1>12
  <2>2. QED BY <1>12, <1>13, <2>1 DEF TreeHolds
<1>15. ASSUME NEW o \in Newest PROVE RowHolds(reqs'[o], page_table'[reqs'[o].slot], cm'.tree)
  <2>1. CASE o = c
    <3>1. page_table'[reqs'[c].slot] = new BY <1>4, <1>6
    <3>2. PICK r1 : r1 = reqs'[c] OBVIOUS
    <3>3. r1.handle = ins.node /\ r1.cached = r.cached /\ r1.host = r.host BY <3>2, <1>4
    <3>4. PICK S : row \in Seq(S) BY <1>6
    <3>5. r.host \in Texts /\ r.cached <= Len(r.host) OBVIOUS
    <3>6. key = Chunks(SubSeq(r.host, 1, r.cached)) BY DEF key
    <3> HIDE DEF t, row
    <3>7. RowHolds(r1, new, t1)
      BY ONLY <1>1, <1>2, <1>5, <1>7, <1>8, <1>12, <3>3, <3>4, <3>5, <3>6, KeptRow
    <3>8. QED BY <3>1, <3>2, <3>7, <1>13, <2>1
  <2>2. CASE o # c
    <3> DEFINE q == reqs[o]  line == page_table[q.slot]
    <3>1. reqs'[o] = q /\ page_table'[q.slot] = line
      <4>1. q.slot # r.slot /\ q.slot \in Slots BY <2>2, SlotsApart
      <4>2. QED BY <4>1, <1>4, <2>2
    <3>2. RowHolds(q, line, t) BY DEF CInv
    <3>3. q.handle \in Nodes(t) \cup {<<>>} BY <1>1, LocksRead
    <3>4. q.handle \in Nodes(t1) \cup {<<>>}
      <4>1. Handles'[o] = q.handle BY <3>1 DEF Handles
      <4>2. QED BY <4>1, <1>12 DEF Locks
    <3>5. \A p \in CachedPaths(t) : p \in CachedPaths(t1) => t1.page[p] = t.page[p]
      <4> HIDE DEF t
      <4>1. QED BY <1>5, <1>12 DEF Inserted
    <3>6. q.host \in Texts /\ Len(q.host) \in Nat BY CachedKnown
    <3> HIDE DEF q, line, t
    <3>7. Len(q.host) <= Len(q.host) BY <3>6
    <3>8. RowHolds(q, line, t1) BY ONLY <1>1, <1>12, <3>2, <3>3, <3>4, <3>5, <3>6, <3>7, RowKept
    <3>9. QED BY <3>1, <3>8, <1>13
  <2>3. QED BY <2>1, <2>2
<1>16. QED BY <1>14, <1>15 DEF CInv

\* The host's tokens with the one just read.
LEMMA TokenRead ==
  ASSUME IInv, SInv, NEW c \in DOMAIN reqs, NEW token \in Tokens \cup {None}, reqs[c].host \in Texts
  PROVE  LET r == [reqs[c] EXCEPT !.host = Append(@, token)]
         IN  /\ r.handle = reqs[c].handle /\ r.slot = reqs[c].slot /\ r.cached = reqs[c].cached
             /\ r.host \in Texts /\ Len(r.host) = Len(reqs[c].host) + 1
             /\ \A i \in 1 .. Len(reqs[c].host) : r.host[i] = reqs[c].host[i]
             /\ \A h : [r EXCEPT !.handle = h].handle = h
             /\ \A h : /\ [r EXCEPT !.handle = h].slot = r.slot
                       /\ [r EXCEPT !.handle = h].cached = r.cached
                       /\ [r EXCEPT !.handle = h].host = r.host
<1> DEFINE q == reqs[c]
           r == [q EXCEPT !.host = Append(@, token)]
<1>1. q = [f \in ReqFields |-> q[f]] BY DEF IInv, Placement, ObjectsPlaced, IsReq
<1>2. PICK h : h = Append(q.host, token) OBVIOUS
<1>3. /\ h \in Texts /\ Len(h) = Len(q.host) + 1 /\ \A i \in 1 .. Len(q.host) : h[i] = q.host[i]
  BY <1>2, AppendElements DEF Texts
<1>4. r = [q EXCEPT !.host = h] BY <1>2
<1> HIDE DEF q, r
<1>5. /\ r.handle = q.handle /\ r.slot = q.slot /\ r.cached = q.cached /\ r.host = h
      /\ r = [f \in ReqFields |-> r[f]]
  BY <1>1, <1>4 DEF ReqFields
<1>6. \A g : /\ [r EXCEPT !.handle = g].slot = r.slot /\ [r EXCEPT !.handle = g].handle = g
             /\ [r EXCEPT !.handle = g].cached = r.cached /\ [r EXCEPT !.handle = g].host = r.host
  BY <1>5 DEF ReqFields
<1>7. QED BY <1>3, <1>5, <1>6 DEF q, r

\* Whole pages need no rounding.
LEMMA WholePages ==
  ASSUME NEW n \in Nat
  PROVE  CeilDiv(n * PageSize, PageSize) = n
<1> DEFINE P == PageSize
           x == n * P + P - 1
           d == x \div P
<1>1. P \in Nat \ {0} BY PagesAssumption
<1> HIDE DEF P
<1>2. n * P \in Nat BY <1>1
<1>3. x \in Nat BY <1>1, <1>2
<1> HIDE DEF x
<1>4. d \in Nat /\ d * P <= x /\ x < (d + 1) * P BY <1>1, <1>3
<1> HIDE DEF d
<1>5. x = n * P + P - 1 BY DEF x
<1>6. ~(d + 1 <= n)
  <2> SUFFICES ASSUME d + 1 <= n PROVE FALSE OBVIOUS
  <2>1. (d + 1) * P <= n * P BY <1>1, <1>4
  <2>2. (d + 1) * P \in Nat BY <1>1, <1>4
  <2>3. QED BY <2>1, <2>2, <1>1, <1>2, <1>3, <1>4, <1>5
<1>7. ~(n + 1 <= d)
  <2> SUFFICES ASSUME n + 1 <= d PROVE FALSE OBVIOUS
  <2>1. (n + 1) * P <= d * P BY <1>1, <1>4
  <2>2. (n + 1) * P = n * P + P BY <1>1
  <2>3. d * P \in Nat BY <1>1, <1>4
  <2>4. QED BY <2>1, <2>2, <2>3, <1>1, <1>2, <1>3, <1>4, <1>5
<1>8. d = n BY <1>4, <1>6, <1>7
<1>9. QED BY <1>8 DEF CeilDiv, d, x, P

\* What the step made is a request whose host tokens are the prompt's.
IsMade(r, q, slot, handle, cached, chunk) ==
  /\ r.slot = slot /\ r.handle = handle /\ r.cached = cached
  /\ r.host \in Texts /\ Len(r.host) = cached + chunk
  /\ \A i \in 1 .. cached + chunk : r.host[i] = q.ids[i]

LEMMA MadeHost ==
  ASSUME NEW q \in PendingType, NEW id, NEW slot, NEW handle, NEW cached \in Nat, NEW row,
         NEW chunk \in Nat, NEW class, Made(q, id, slot, handle, cached, row, chunk, class)
  PROVE  IsMade(reqs'[id], q, slot, handle, cached, chunk)
<1> DEFINE b    == cached + chunk
           host == SubSeq(q.ids, 1, b)
<1>1. q.ids \in Seq(Tokens) BY DEF PendingType
<1>2. b \in Nat /\ b <= Len(q.ids) BY DEF Made
<1>3. reqs'[id] = [slot |-> slot, cached |-> cached, device |-> b, max |-> b + q.out, host |-> host,
                   handle |-> handle, class |-> class, ignore |-> q.ignore]
  BY DEF Made
<1> HIDE DEF b
<1>4. host \in Texts /\ Len(host) = b /\ \A i \in 1 .. b : host[i] = q.ids[i]
  <2>1. \A i \in 1 .. b : q.ids[i] \in Tokens
    <3>1. Len(q.ids) \in Nat BY <1>1, LenProperties
    <3>2. \A i \in 1 .. b : i \in 1 .. Len(q.ids) BY <1>2, <3>1
    <3>3. QED BY <3>2, <1>1, ElementOfSeq
  <2>2. /\ host \in Seq(Tokens) /\ Len(host) = IF 1 <= b THEN b - 1 + 1 ELSE 0
        /\ \A i \in 1 .. b - 1 + 1 : host[i] = q.ids[1 + i - 1]
    BY <2>1, <1>2, SubSeqProperties
  <2>3. host \in Texts BY <2>2, SeqMonotonic DEF Texts
  <2> HIDE DEF host
  <2>4. QED BY <1>2, <2>2, <2>3
<1> HIDE DEF host
<1>5. QED BY <1>3, <1>4 DEF b, IsMade

\* A new request takes the pages of the prefix it was matched with.
LEMMA MatchedHolds ==
  ASSUME NEW ids \in Seq(Tokens) \ {<<>>}, NEW t, NEW m, Matched(t, ids, m), NEW t1, t1.page = m.tree.page,
         NEW r, r.handle = m.node, r.cached = Len(m.node) * PageSize,
         NEW b \in Nat, r.cached <= b, b <= Len(ids), r.host \in Texts, Len(r.host) = b,
         \A i \in 1 .. b : r.host[i] = ids[i]
  PROVE  RowHolds(r, [i \in 1 .. Len(m.node) |-> m.tree.page[SubSeq(m.node, 1, i)]], t1)
<1> DEFINE h   == m.node
           n   == Len(h)
           row == [i \in 1 .. n |-> m.tree.page[SubSeq(h, 1, i)]]
<1>1. PageSize \in Nat \ {0} BY PagesAssumption
<1>2. n \in Nat
  <2>1. IsTree(m.tree, Texts) /\ m.node \in Nodes(m.tree) \cup {<<>>} BY DEF Matched
  <2>2. QED BY <2>1, HandlePaths
<1> HIDE DEF n
<1>3. n * PageSize \in Nat BY <1>1, <1>2
<1>4. Len(row) = n /\ \A k \in 1 .. n : row[k] = m.tree.page[SubSeq(h, 1, k)] BY <1>2
<1>5. CeilDiv(n * PageSize, PageSize) = n BY <1>2, WholePages
<1>6. ASSUME NEW k \in 1 .. n PROVE h[k] = SubSeq(r.host, (k - 1) * PageSize + 1, k * PageSize)
  <2> DEFINE x == (k - 1) * PageSize + 1
             y == k * PageSize
  <2>1. h[k] = SubSeq(ids, x, y) BY DEF Matched, n
  <2>2. x \in Nat \ {0} /\ y \in Nat /\ y <= b
    <3>1. k \in Nat \ {0} /\ k <= n BY <1>2
    <3>2. x \in Nat \ {0} /\ y \in Nat BY <3>1, <1>1
    <3>3. y <= n * PageSize BY <3>1, <1>1, <1>2
    <3>4. n * PageSize <= b BY DEF n
    <3>5. QED BY <3>2, <3>3, <3>4, <1>3
  <2> HIDE DEF x, y
  <2>3. \A i \in x .. y : ids[i] \in Tokens /\ r.host[i] = ids[i]
    <3>1. Len(ids) \in Nat BY LenProperties
    <3>2. \A i \in x .. y : i \in 1 .. b /\ i \in 1 .. Len(ids) BY <2>2, <3>1
    <3>3. QED BY <3>2, ElementOfSeq
  <2>4. SubSeq(ids, x, y) = SubSeq(r.host, x, y) BY <2>2, <2>3, SameSlice
  <2>5. QED BY <2>1, <2>4 DEF x, y
<1>7. r.handle = h /\ Len(r.handle) = n /\ r.cached = n * PageSize BY DEF n
<1>8. n * PageSize <= Len(r.host) BY <1>7
<1> HIDE DEF row, h
<1>9. RowHolds(r, row, t1) BY <1>3, <1>4, <1>5, <1>6, <1>7, <1>8 DEF RowHolds
<1>10. QED BY <1>9 DEF row, h, n

\* _allocate evicts unlocked nodes only: what is left of the tree is as it was.
LEMMA AllocatedTree ==
  ASSUME NEW c, c = [free |-> c.free, tree |-> c.tree, lazy |-> c.lazy], NEW t, t = c.tree,
         IsTree(t, Texts), NEW H, IsFiniteSet(H), NEW h, Locks(t, H, h),
         NEW needed, NEW a \in Allocations(c, needed)
  PROVE  LET d == a.cm
         IN  /\ d = [free |-> d.free, tree |-> d.tree, lazy |-> d.lazy]
             /\ IsTree(d.tree, Texts) /\ Locks(d.tree, H, h)
             /\ \A p \in CachedPaths(t) : p \in CachedPaths(d.tree) => d.tree.page[p] = t.page[p]
<1>1. ASSUME needed - Len(c.free) <= 0
      PROVE  a.cm = [free |-> a.cm.free, tree |-> a.cm.tree, lazy |-> a.cm.lazy] /\ a.cm.tree = t
  <2>1. PICK g : g = SubSeq(c.free, needed + 1, Len(c.free)) OBVIOUS
  <2>2. PICK s : s = SubSeq(c.free, 1, needed) OBVIOUS
  <2>3. a = [pages |-> s, cm |-> [c EXCEPT !.free = g]] BY <1>1, <2>1, <2>2 DEF Allocations
  <2>4. a.cm = [c EXCEPT !.free = g] BY <2>3
  <2>5. a.cm = [free |-> g, tree |-> t, lazy |-> c.lazy] BY <2>4
  <2>6. QED BY <2>5
<1>2. ASSUME ~(needed - Len(c.free) <= 0)
      PROVE  \E S \in Evictions(t, needed - Len(c.free)) :
               /\ a.cm = [free |-> a.cm.free, tree |-> a.cm.tree, lazy |-> a.cm.lazy]
               /\ a.cm.tree = RemoveNodes(t, S)
  <2> DEFINE Merged(S) == Ascending(c.free \o SetToSeq(PagesOn(c.tree, S)))
             Handout(S) == [pages |-> SubSeq(Merged(S), 1, needed),
                            cm |-> [c EXCEPT !.free = SubSeq(Merged(S), needed + 1, Len(Merged(S))),
                                             !.tree = RemoveNodes(@, S)]]
  <2>0. Allocations(c, needed) = {Handout(S) : S \in Evictions(c.tree, needed - Len(c.free))}
    BY ONLY <1>2, Zenon DEF Allocations
  <2> HIDE DEF Handout
  <2>1. PICK S \in Evictions(t, needed - Len(c.free)) : a = Handout(S) BY <2>0
  <2>2. PICK free : free = Ascending(c.free \o SetToSeq(PagesOn(c.tree, S))) OBVIOUS
  <2>3. PICK g, s : g = SubSeq(free, needed + 1, Len(free)) /\ s = SubSeq(free, 1, needed) OBVIOUS
  <2>4. PICK u : u = RemoveNodes(t, S) OBVIOUS
  <2>5. a = [pages |-> s, cm |-> [c EXCEPT !.free = g, !.tree = u]]
    BY <2>1, <2>2, <2>3, <2>4 DEF Handout
  <2>6. a.cm = [c EXCEPT !.free = g, !.tree = u] BY <2>5
  <2>7. a.cm = [free |-> g, tree |-> u, lazy |-> c.lazy] BY <2>6
  <2>8. QED BY <2>4, <2>7
<1>3. CASE needed - Len(c.free) <= 0 BY <1>1, <1>3
<1>4. CASE ~(needed - Len(c.free) <= 0)
  <2>1. PICK S \in Evictions(t, needed - Len(c.free)) :
          /\ a.cm = [free |-> a.cm.free, tree |-> a.cm.tree, lazy |-> a.cm.lazy]
          /\ a.cm.tree = RemoveNodes(t, S)
    BY <1>2, <1>4
  <2>2. S \subseteq {n \in Nodes(t) : t.ref[n] = 0} /\ \A n \in S, m \in Nodes(t) : IsPrefix(n, m) => m \in S
    BY <2>1 DEF Evictions
  <2>3. PICK t1 : t1 = RemoveNodes(t, S) OBVIOUS
  <2>4. /\ IsTree(t1, Texts) /\ \A p \in CachedPaths(t1) : t1.page[p] = t.page[p]
        /\ Locks(t1, H, h)
    BY <2>2, <2>3, RemoveNodesTree
  <2>5. QED BY <2>1, <2>3, <2>4
<1>5. QED BY <1>3, <1>4

\* A row that goes on keeps its beginning.
IsGrown(new, row, n, more, m) ==
  /\ Len(new) = n + m
  /\ \A k \in 1 .. n : new[k] = row[k]
  /\ \A k \in 1 .. m : new[n + k] = more[k]

LEMMA RowGrown ==
  ASSUME NEW row, NEW n \in Nat, NEW m \in Nat,
         NEW more, DOMAIN more = 1 .. m, more = [i \in DOMAIN more |-> more[i]]
  PROVE  IsGrown(SubSeq(row, 1, n) \o more, row, n, more, m)
<1> DEFINE S   == {row[i] : i \in 1 .. n} \cup ToSet(more)
           old == SubSeq(row, 1, n)
           new == old \o more
<1>1. old \in Seq(S) /\ Len(old) = n /\ \A k \in 1 .. n : old[k] = row[k]
  <2>1. \A i \in 1 .. n : row[i] \in S OBVIOUS
  <2>2. 1 \in Int /\ n \in Int OBVIOUS
  <2> HIDE DEF S
  <2>3. /\ old \in Seq(S) /\ Len(old) = IF 1 <= n THEN n - 1 + 1 ELSE 0
        /\ \A k \in 1 .. n - 1 + 1 : old[k] = row[1 + k - 1]
    BY <2>1, <2>2, SubSeqProperties
  <2>4. (IF 1 <= n THEN n - 1 + 1 ELSE 0) = n OBVIOUS
  <2> HIDE DEF old
  <2>5. \A k \in 1 .. n : k \in 1 .. n - 1 + 1 /\ 1 + k - 1 = k OBVIOUS
  <2>6. QED BY <2>3, <2>4, <2>5
<1>2. more \in Seq(S) /\ Len(more) = m
  <2>1. more \in [1 .. m -> S] BY ToSetElement
  <2> HIDE DEF S
  <2>2. QED BY <2>1
<1> HIDE DEF S, old
<1>3. Len(new) = n + m BY <1>1, <1>2, ConcatProperties
<1>4. \A k \in 1 .. n : new[k] = old[k]
  <2>1. \A k \in 1 .. n : k \in 1 .. Len(old) + Len(more) /\ k <= Len(old) BY <1>1, <1>2
  <2>2. QED BY <2>1, <1>1, <1>2, ConcatProperties
<1>5. \A k \in 1 .. m : new[n + k] = more[k]
  <2>1. \A k \in 1 .. m : /\ n + k \in 1 .. Len(old) + Len(more) /\ ~(n + k <= Len(old))
                          /\ n + k - Len(old) = k
    BY <1>1, <1>2
  <2>2. \A k \in 1 .. Len(old) + Len(more) :
          new[k] = IF k <= Len(old) THEN old[k] ELSE more[k - Len(old)]
    BY <1>1, <1>2, ConcatProperties
  <2>3. QED BY <2>1, <2>2
<1> HIDE DEF new
<1>6. IsGrown(new, row, n, more, m) BY <1>1, <1>3, <1>4, <1>5 DEF IsGrown
<1>7. QED BY <1>6 DEF old, new

\* The pages allocated go behind those of the cached tokens.
LEMMA GrownHolds ==
  ASSUME NEW t, NEW r, NEW row, RowHolds(r, row, t), Len(r.handle) \in Nat,
         NEW a \in Nat, NEW b \in Nat, a <= b, r.cached = a,
         NEW r1, r1.handle = r.handle, r1.host = r.host, r1.cached = b,
         NEW more, DOMAIN more = 1 .. CeilDiv(b, PageSize) - CeilDiv(a, PageSize),
         more = [i \in DOMAIN more |-> more[i]]
  PROVE  RowHolds(r1, SubSeq(row, 1, CeilDiv(a, PageSize)) \o more, t)
<1> DEFINE n   == CeilDiv(a, PageSize)
           all == CeilDiv(b, PageSize)
           new == SubSeq(row, 1, n) \o more
           l   == Len(r.handle)
<1>1. PageSize \in Nat \ {0} BY PagesAssumption
<1>2. n \in Nat /\ all \in Nat /\ n <= all BY CeilDivFacts
<1>3. l * PageSize <= a /\ l * PageSize <= Len(r.host)
      /\ \A k \in 1 .. l :
           /\ r.handle[k] = SubSeq(r.host, (k - 1) * PageSize + 1, k * PageSize)
           /\ row[k] = t.page[SubSeq(r.handle, 1, k)]
  BY DEF RowHolds
<1>4. l * PageSize \in Nat BY <1>1
<1>5. l <= n
  <2>1. CeilDiv(l * PageSize, PageSize) = l BY WholePages
  <2>2. QED BY <2>1, <1>3, <1>4, CeilDivFacts
<1>6. Len(new) = all /\ \A k \in 1 .. n : new[k] = row[k]
  <2>1. all - n \in Nat /\ n + (all - n) = all BY <1>2
  <2> HIDE DEF n, all
  <2>2. PICK m \in Nat : m = all - n BY <2>1
  <2>3. DOMAIN more = 1 .. m BY <2>2 DEF n, all
  <2>4. more = [i \in DOMAIN more |-> more[i]] OBVIOUS
  <2>5. PICK c \in Nat : c = n BY <1>2
  <2>6. IsGrown(SubSeq(row, 1, c) \o more, row, c, more, m) BY ONLY <2>3, <2>4, RowGrown
  <2>7. IsGrown(new, row, n, more, m) BY <2>5, <2>6
  <2> HIDE DEF new
  <2>8. QED BY <2>1, <2>2, <2>7 DEF IsGrown
<1>7. \A k \in 1 .. l : new[k] = row[k]
  <2> HIDE DEF new, n, l
  <2>1. l \in Nat BY DEF l
  <2>2. \A k \in 1 .. l : k \in 1 .. n BY <2>1, <1>2, <1>5
  <2>3. QED BY <2>2, <1>6
<1>8. l * PageSize <= b
  <2> HIDE DEF l
  <2>1. QED BY <1>3, <1>4
<1> HIDE DEF new
<1>9. RowHolds(r1, new, t) BY <1>3, <1>6, <1>7, <1>8 DEF RowHolds
<1>10. QED BY <1>9 DEF new, n

\* The row new is the beginning of a row that goes on with the pages dealt to request o.
IsWritten(new, row, r, objs, o, fields, pages) ==
  \E j, more :
    /\ j \in DOMAIN objs /\ objs[j] = o
    /\ DOMAIN more = 1 .. NewPages(r) /\ more = [k \in DOMAIN more |-> more[k]]
    /\ \A k \in DOMAIN more : more[k] = pages[EntryPlace(fields, <<j, k>>)]
    /\ new = SubSeq(row, 1, CeilDiv(r.cached, PageSize)) \o more

\* What _write_page_table leaves of a request's row.
LEMMA WrittenRow ==
  ASSUME RowLengths, IInv, XInv, NEW pages,
         page_table' = WriteRows(page_table, Fields(batch.reqs), pages), NEW o \in Newest
  PROVE  /\ o \notin ToSet(batch.reqs) => page_table'[reqs[o].slot] = page_table[reqs[o].slot]
         /\ o \in ToSet(batch.reqs) =>
              IsWritten(page_table'[reqs[o].slot], page_table[reqs[o].slot], reqs[o],
                        batch.reqs, o, Fields(batch.reqs), pages)
<1> DEFINE fields == Fields(batch.reqs)
           s      == reqs[o].slot
           i      == CHOOSE i \in DOMAIN fields : fields[i].slot = s
<1>1. s \in Slots /\ DOMAIN page_table = Slots /\ \A p \in Newest : reqs[p].slot = s => p = o
  BY SlotsApart DEF RowLengths
<1>2. DOMAIN fields = DOMAIN batch.reqs
      /\ \A j \in DOMAIN batch.reqs : /\ fields[j] = reqs[batch.reqs[j]]
                                      /\ batch.reqs[j] \in Newest
  <2>1. \A j \in DOMAIN batch.reqs : batch.reqs[j] \in ToSet(batch.reqs) BY ToSetElement
  <2>2. QED BY <2>1, NewerNewest DEF Fields, Newer
<1>3. \A j \in DOMAIN fields : fields[j].slot = s => fields[j] = reqs[o] /\ batch.reqs[j] = o
  <2> HIDE DEF fields
  <2>1. QED BY <1>1, <1>2
<1>4. o \in ToSet(batch.reqs) => \E j \in DOMAIN fields : fields[j].slot = s
  <2> HIDE DEF fields
  <2>1. QED BY <1>2 DEF ToSet
<1>41. page_table' = WriteRows(page_table, fields, pages) OBVIOUS
<1> HIDE DEF fields
<1>5. ASSUME o \notin ToSet(batch.reqs) PROVE page_table'[s] = page_table[s]
  <2>1. ~\E j \in DOMAIN fields : fields[j].slot = s
    <3>1. \A j \in DOMAIN fields : batch.reqs[j] \in ToSet(batch.reqs) BY <1>2, ToSetElement
    <3>2. QED BY <1>3, <1>5, <3>1
  <2>2. s \in DOMAIN page_table BY <1>1
  <2> HIDE DEF s
  <2>3. QED BY ONLY <1>41, <2>1, <2>2 DEF WriteRows
<1>6. ASSUME o \in ToSet(batch.reqs)
      PROVE  IsWritten(page_table'[s], page_table[s], reqs[o], batch.reqs, o, fields, pages)
  <2>1. \E j \in DOMAIN fields : fields[j].slot = s BY <1>4, <1>6
  <2>2. i \in DOMAIN fields /\ fields[i].slot = s BY <2>1
  <2>3. PICK more :
          /\ DOMAIN more = 1 .. NewPages(fields[i]) /\ more = [k \in DOMAIN more |-> more[k]]
          /\ \A k \in DOMAIN more : more[k] = pages[EntryPlace(fields, <<i, k>>)]
          /\ page_table'[s] = SubSeq(page_table[s], 1, CeilDiv(fields[i].cached, PageSize)) \o more
    <3>1. PICK more : more = [k \in 1 .. NewPages(fields[i]) |-> pages[EntryPlace(fields, <<i, k>>)]]
      BY Zenon
    <3>2. s \in DOMAIN page_table BY <1>1
    <3>3. page_table'[s] = SubSeq(page_table[s], 1, CeilDiv(fields[i].cached, PageSize)) \o more
      <4> HIDE DEF s
      <4>1. QED BY ONLY <1>41, <2>1, <3>1, <3>2, Zenon DEF WriteRows, i
    <3> HIDE DEF i
    <3>4. /\ DOMAIN more = 1 .. NewPages(fields[i]) /\ more = [k \in DOMAIN more |-> more[k]]
          /\ \A k \in DOMAIN more : more[k] = pages[EntryPlace(fields, <<i, k>>)]
      BY ONLY <3>1
    <3>5. QED BY <3>3, <3>4
  <2> HIDE DEF i
  <2>4. fields[i] = reqs[o] /\ batch.reqs[i] = o /\ i \in DOMAIN batch.reqs BY <1>2, <1>3, <2>2
  <2>5. QED BY <2>3, <2>4 DEF IsWritten
<1>7. QED BY <1>5, <1>6 DEF fields

-----------------------------------------------------------------------------
(* Lists.                                                                  *)

\* R puts the members of S in one order.
IsLinear(R, S) ==
  /\ \A x \in S : <<x, x>> \in R
  /\ \A x, y \in S : <<x, y>> \in R \/ <<y, x>> \in R
  /\ \A x, y \in S : <<x, y>> \in R /\ <<y, x>> \in R => x = y
  /\ \A x, y, z \in S : <<x, y>> \in R /\ <<y, z>> \in R => <<x, z>> \in R

UpTo(R, S, x) == {y \in S : <<y, x>> \in R}

\* In a finite set in order every member has a place of its own, its rank.
LEMMA RanksCount ==
  ASSUME NEW S, IsFiniteSet(S), NEW R, IsLinear(R, S),
         NEW place, \A x \in S : place[x] = Cardinality(UpTo(R, S, x))
  PROVE  /\ Cardinality(S) \in Nat /\ \A x \in S : place[x] \in 1 .. Cardinality(S)
         /\ \A x, y \in S : place[x] = place[y] => x = y
         /\ \A k \in 1 .. Cardinality(S) : \E x \in S : place[x] = k
<1> USE DEF IsLinear, UpTo
<1> DEFINE n == Cardinality(S)
<1>1. n \in Nat /\ \A T \in SUBSET S : /\ IsFiniteSet(T) /\ Cardinality(T) \in Nat /\ Cardinality(T) <= n
  BY FS_CardinalityType, FS_Subset
<1>2. ASSUME NEW x \in S PROVE place[x] \in 1 .. n
  <2> DEFINE D == {y \in S : <<y, x>> \in R}
  <2>1. x \in D /\ D \in SUBSET S OBVIOUS
  <2>2. place[x] = Cardinality(D) OBVIOUS
  <2> HIDE DEF D
  <2>3. Cardinality(D) # 0 BY <1>1, <2>1, FS_EmptySet
  <2>4. QED BY <1>1, <2>1, <2>2, <2>3
<1>3. ASSUME NEW x \in S, NEW y \in S, x # y, <<x, y>> \in R PROVE place[x] # place[y]
  <2> DEFINE D == {z \in S : <<z, x>> \in R}
             E == {z \in S : <<z, y>> \in R}
  <2>1. D \in SUBSET E BY <1>3
  <2>2. y \in E /\ y \notin D BY <1>3
  <2>3. IsFiniteSet(E) BY <1>1
  <2>4. place[x] = Cardinality(D) /\ place[y] = Cardinality(E) OBVIOUS
  <2> HIDE DEF D, E
  <2>5. QED BY <2>1, <2>2, <2>3, <2>4, FS_Subset
<1>4. \A x, y \in S : place[x] = place[y] => x = y BY <1>3
<1>5. ASSUME NEW k \in 1 .. n PROVE \E x \in S : place[x] = k
  <2> DEFINE f == [x \in S |-> place[x]]
  <2>1. f \in Injection(S, 1 .. n) BY <1>2, <1>4 DEF Injection, IsInjective
  <2>2. IsFiniteSet(1 .. n) /\ Cardinality(1 .. n) = n BY <1>1, FS_Interval
  <2> HIDE DEF f
  <2>3. f \in Surjection(S, 1 .. n) BY <2>1, <2>2, FS_Injection
  <2>4. \E x \in S : f[x] = k BY <2>3 DEF Surjection
  <2>5. QED BY <2>4 DEF f
<1>6. QED BY <1>1, <1>2, <1>4, <1>5

\* Sorting keeps the elements and says none twice that was there once.
LEMMA AscendingElements ==
  ASSUME NEW S, S \subseteq Int, NEW s \in Seq(S)
  PROVE  /\ Ascending(s) \in Seq(S) /\ Len(Ascending(s)) = Len(s)
         /\ ToSet(Ascending(s)) = ToSet(s)
         /\ IsInjective(s) => IsInjective(Ascending(s))
<1> DEFINE D     == 1 .. Len(s)
           R     == {e \in D \X D : s[e[1]] < s[e[2]] \/ (s[e[1]] = s[e[2]] /\ e[1] <= e[2])}
           Rank(j) == Cardinality({i \in D : s[i] < s[j] \/ (s[i] = s[j] /\ i <= j)})
           place == [j \in D |-> Rank(j)]
           from  == [k \in D |-> CHOOSE j \in D : Rank(j) = k]
           a     == Ascending(s)
<1>1. DOMAIN s = D /\ Len(s) \in Nat /\ \A i \in D : s[i] \in Int /\ s[i] \in S /\ i \in Int
  <2>1. DOMAIN s = 1 .. Len(s) /\ Len(s) \in Nat BY LenProperties
  <2>2. \A i \in 1 .. Len(s) : s[i] \in S BY ElementOfSeq
  <2>3. \A i \in 1 .. Len(s) : i \in Int BY <2>1
  <2>4. \A i \in 1 .. Len(s) : s[i] \in Int BY <2>2
  <2>5. QED BY <2>1, <2>2, <2>3, <2>4
<1>2. IsFiniteSet(D) /\ Cardinality(D) = Len(s) BY <1>1, FS_Interval
<1>3. \A i, j \in D : <<i, j>> \in R <=> s[i] < s[j] \/ (s[i] = s[j] /\ i <= j) OBVIOUS
<1>4. \A j \in D : place[j] = Cardinality(UpTo(R, D, j))
  <2>1. \A j \in D : UpTo(R, D, j) = {i \in D : s[i] < s[j] \/ (s[i] = s[j] /\ i <= j)}
    BY <1>3 DEF UpTo
  <2>2. QED BY <2>1
<1>5. a = [k \in D |-> a[k]] /\ \A k \in D : a[k] = s[from[k]]
  <2>1. a = [k \in D |-> s[CHOOSE j \in D : Rank(j) = k]] BY <1>1 DEF Ascending
  <2> HIDE DEF a, Rank, D
  <2>2. \A k \in D : (CHOOSE j \in D : Rank(j) = k) = from[k] OBVIOUS
  <2> HIDE DEF from
  <2>3. \A k \in D : a[k] = s[CHOOSE j \in D : Rank(j) = k] BY <2>1
  <2>4. \A k \in D : a[k] = s[from[k]] BY <2>2, <2>3
  <2>5. a = [k \in D |-> a[k]] BY <2>1
  <2>6. QED BY <2>4, <2>5
<1>6. IsLinear(R, D)
  <2>1. /\ \A x \in D : <<x, x>> \in R
        /\ \A x, y \in D : <<x, y>> \in R \/ <<y, x>> \in R
        /\ \A x, y \in D : <<x, y>> \in R /\ <<y, x>> \in R => x = y
        /\ \A x, y, z \in D : <<x, y>> \in R /\ <<y, z>> \in R => <<x, z>> \in R
    BY <1>1, <1>3
  <2>2. QED BY <2>1 DEF IsLinear
<1>7. /\ \A x, y \in D : place[x] = place[y] => x = y
      /\ \A k \in D : \E x \in D : place[x] = k
      /\ \A x \in D : place[x] \in D
  <2> HIDE DEF R, place, D
  <2>1. PICK p : p = place OBVIOUS
  <2>2. \A x \in D : p[x] = Cardinality(UpTo(R, D, x)) BY <2>1, <1>4
  <2>3. /\ \A x \in D : p[x] \in 1 .. Cardinality(D)
        /\ \A x, y \in D : p[x] = p[y] => x = y
        /\ \A k \in 1 .. Cardinality(D) : \E x \in D : p[x] = k
    <3>1. IsFiniteSet(D) BY <1>2
    <3>2. QED BY ONLY <3>1, <1>6, <2>2, RanksCount
  <2>4. 1 .. Cardinality(D) = D BY <1>2 DEF D
  <2>5. QED BY <2>1, <2>3, <2>4
<1>8. \A k \in D : from[k] \in D /\ place[from[k]] = k
  <2> HIDE DEF place
  <2>1. ASSUME NEW k \in D PROVE from[k] \in D /\ place[from[k]] = k
    <3>1. \E j \in D : Rank(j) = k BY <1>7 DEF place
    <3> HIDE DEF Rank
    <3>2. from[k] \in D /\ Rank(from[k]) = k BY <3>1
    <3>3. QED BY <3>2 DEF place
  <2>2. QED BY <2>1
<1>9. \A j \in D : from[place[j]] = j
  <2> HIDE DEF place, from, D
  <2>1. QED BY <1>7, <1>8
<1> HIDE DEF place, from, R
<1>10. a \in [D -> S] BY <1>1, <1>5, <1>8
<1>11. DOMAIN a = D BY <1>5
<1>12. a \in Seq(S) /\ Len(a) = Len(s) BY <1>1, <1>10
<1>13. ToSet(a) = ToSet(s)
  <2> HIDE DEF a, D
  <2>1. ToSet(a) = {a[k] : k \in D} /\ ToSet(s) = {s[k] : k \in D} BY <1>1, <1>11 DEF ToSet
  <2>2. \A k \in D : a[k] = s[from[k]] BY <1>5
  <2>3. \A k \in D : s[k] = a[place[k]] BY <1>5, <1>7, <1>9
  <2>4. QED BY <2>1, <2>2, <2>3, <1>7, <1>8
<1>14. ASSUME IsInjective(s) PROVE IsInjective(a)
  <2> HIDE DEF a, D
  <2>1. ASSUME NEW j \in D, NEW k \in D, a[j] = a[k] PROVE j = k
    <3>1. s[from[j]] = s[from[k]] BY <2>1, <1>5
    <3>2. from[j] = from[k] BY <3>1, <1>1, <1>8, <1>14 DEF IsInjective
    <3>3. QED BY <3>2, <1>8
  <2>2. QED BY <2>1, <1>11 DEF IsInjective
<1>15. QED BY <1>12, <1>13, <1>14

\* Two lists that share no element, one behind the other.
LEMMA JoinedElements ==
  ASSUME NEW S, NEW s \in Seq(S), NEW t \in Seq(S)
  PROVE  /\ s \o t \in Seq(S) /\ Len(s \o t) = Len(s) + Len(t) /\ ToSet(s \o t) = ToSet(s) \cup ToSet(t)
         /\ IsInjective(s) /\ IsInjective(t) /\ ToSet(s) \cap ToSet(t) = {} => IsInjective(s \o t)
<1> DEFINE m == Len(s)
           n == Len(t)
           u == s \o t
<1>1. /\ u \in Seq(S) /\ Len(u) = m + n /\ m \in Nat /\ n \in Nat
      /\ DOMAIN s = 1 .. m /\ DOMAIN t = 1 .. n
      /\ \A i \in 1 .. m + n : u[i] = IF i <= m THEN s[i] ELSE t[i - m]
  BY ConcatProperties, LenProperties
<1> HIDE DEF m, n, u
<1>2. DOMAIN u = 1 .. m + n BY <1>1, LenProperties
<1>3. \A i \in 1 .. m : i \in 1 .. m + n /\ u[i] = s[i] BY <1>1
<1>4. \A i \in 1 .. n : m + i \in 1 .. m + n /\ u[m + i] = t[i] BY <1>1
<1>5. \A i \in 1 .. m + n : i \in 1 .. m \/ (i - m \in 1 .. n /\ u[i] = t[i - m] /\ i = m + (i - m)) BY <1>1
<1>6. ToSet(u) = ToSet(s) \cup ToSet(t)
  <2>1. /\ ToSet(u) = {u[i] : i \in 1 .. m + n} /\ ToSet(s) = {s[i] : i \in 1 .. m}
        /\ ToSet(t) = {t[i] : i \in 1 .. n}
    BY <1>1, <1>2 DEF ToSet
  <2>2. \A i \in 1 .. m + n : u[i] \in ToSet(s) \cup ToSet(t) BY <1>3, <1>5, <2>1
  <2>3. \A i \in 1 .. m : s[i] \in ToSet(u) BY <1>3, <2>1
  <2>4. \A i \in 1 .. n : t[i] \in ToSet(u) BY <1>4, <2>1
  <2>5. QED BY <2>1, <2>2, <2>3, <2>4
<1>7. ASSUME IsInjective(s), IsInjective(t), ToSet(s) \cap ToSet(t) = {} PROVE IsInjective(u)
  <2>1. \A i \in 1 .. m : s[i] \in ToSet(s) BY <1>1, ToSetElement
  <2>2. \A i \in 1 .. n : t[i] \in ToSet(t) BY <1>1, ToSetElement
  <2>3. ASSUME NEW i \in 1 .. m + n, NEW j \in 1 .. m + n, u[i] = u[j] PROVE i = j
    <3>1. CASE i \in 1 .. m /\ j \in 1 .. m BY <1>1, <1>3, <1>7, <2>3, <3>1 DEF IsInjective
    <3>2. CASE i \in 1 .. m /\ j \notin 1 .. m
      <4>1. s[i] = t[j - m] /\ j - m \in 1 .. n BY <1>3, <1>5, <2>3, <3>2
      <4>2. QED BY <4>1, <2>1, <2>2, <3>2, <1>7
    <3>3. CASE i \notin 1 .. m /\ j \in 1 .. m
      <4>1. s[j] = t[i - m] /\ i - m \in 1 .. n BY <1>3, <1>5, <2>3, <3>3
      <4>2. QED BY <4>1, <2>1, <2>2, <3>3, <1>7
    <3>4. CASE i \notin 1 .. m /\ j \notin 1 .. m
      <4>1. t[i - m] = t[j - m] /\ i - m \in 1 .. n /\ j - m \in 1 .. n BY <1>5, <2>3, <3>4
      <4>2. i - m = j - m BY <4>1, <1>1, <1>7 DEF IsInjective
      <4>3. QED BY <4>2, <1>1
    <3>5. QED BY <3>1, <3>2, <3>3, <3>4
  <2>4. QED BY <2>3, <1>2 DEF IsInjective
<1>8. QED BY <1>1, <1>6, <1>7 DEF u, m, n

\* A list's elements behind the first a, up to the b-th, and that none is there twice.
Between(s, a, b) == {s[k] : k \in a + 1 .. b}
OnceBetween(s, a, b) == \A j, k \in a + 1 .. b : s[j] = s[k] => j = k

\* The list u holds just those.
IsSlice(u, S, s, a, b) ==
  /\ u \in Seq(S) /\ ToSet(u) = Between(s, a, b) /\ Len(u) = IF a < b THEN b - a ELSE 0
  /\ \A i \in 1 .. Len(u) : u[i] = s[a + i]
  /\ OnceBetween(s, a, b) => IsInjective(u)

LEMMA SliceElements ==
  ASSUME NEW S, NEW s, NEW a \in Nat, NEW b \in Nat, Between(s, a, b) \subseteq S
  PROVE  IsSlice(SubSeq(s, a + 1, b), S, s, a, b)
<1> DEFINE u == SubSeq(s, a + 1, b)
<1>1. u \in Seq(S) /\ Len(u) = (IF a < b THEN b - a ELSE 0) /\ \A i \in 1 .. b - a : u[i] = s[a + i]
  <2>1. \A i \in a + 1 .. b : s[i] \in S BY DEF Between
  <2>2. /\ u \in Seq(S) /\ Len(u) = IF a + 1 <= b THEN b - (a + 1) + 1 ELSE 0
        /\ \A i \in 1 .. b - (a + 1) + 1 : u[i] = s[a + 1 + i - 1]
    BY <2>1, SubSeqProperties
  <2> HIDE DEF u
  <2>3. QED BY <2>2
<1> HIDE DEF u
<1>2. DOMAIN u = 1 .. Len(u) /\ Len(u) \in Nat BY <1>1, LenProperties
<1>3. \A i \in 1 .. Len(u) : a + i \in a + 1 .. b /\ u[i] = s[a + i] BY <1>1
<1>4. \A i \in a + 1 .. b : i - a \in 1 .. Len(u) /\ u[i - a] = s[i]
  <2>1. ASSUME NEW i \in a + 1 .. b PROVE i - a \in 1 .. Len(u) /\ u[i - a] = s[i]
    <3>1. i - a \in 1 .. Len(u) /\ a + (i - a) = i BY <1>1
    <3>2. QED BY <3>1, <1>3
  <2>2. QED BY <2>1
<1>5. ToSet(u) = Between(s, a, b)
  <2>1. ToSet(u) = {u[i] : i \in 1 .. Len(u)} BY <1>2 DEF ToSet
  <2>2. \A i \in 1 .. Len(u) : u[i] \in Between(s, a, b) BY <1>3 DEF Between
  <2>3. \A i \in a + 1 .. b : s[i] \in ToSet(u)
    <3>1. \A i \in a + 1 .. b : u[i - a] \in ToSet(u) BY <2>1, <1>4
    <3>2. QED BY <3>1, <1>4
  <2>4. QED BY <2>1, <2>2, <2>3 DEF Between
<1>6. ASSUME OnceBetween(s, a, b) PROVE IsInjective(u)
  <2>1. ASSUME NEW i \in 1 .. Len(u), NEW j \in 1 .. Len(u), u[i] = u[j] PROVE i = j
    <3>1. s[a + i] = s[a + j] BY <1>3, <2>1
    <3>2. a + i = a + j BY <3>1, <1>3, <1>6 DEF OnceBetween
    <3>3. QED BY <3>2
  <2>2. QED BY <2>1, <1>2 DEF IsInjective
<1>7. IsSlice(u, S, s, a, b) BY <1>1, <1>3, <1>5, <1>6 DEF IsSlice
<1>8. QED BY <1>7 DEF u

\* A finite set as a list.
LEMMA ListedElements ==
  ASSUME NEW S, IsFiniteSet(S)
  PROVE  /\ SetToSeq(S) \in Seq(S) /\ ToSet(SetToSeq(S)) = S /\ IsInjective(SetToSeq(S))
         /\ Len(SetToSeq(S)) = Cardinality(S)
<1> DEFINE n == Cardinality(S)
           s == SetToSeq(S)
<1>1. n \in Nat /\ \E f : f \in Bijection(1 .. n, S) BY FS_CardinalityType DEF ExistsBijection
<1>2. \E f \in [1 .. n -> S] : IsInjective(f) BY <1>1 DEF Bijection, Injection
<1>3. s \in [1 .. n -> S] /\ IsInjective(s) BY <1>2 DEF SetToSeq
<1> HIDE DEF s
<1>4. s \in Injection(1 .. n, S) BY <1>3 DEF Injection
<1>5. Cardinality(1 .. n) = n BY <1>1, FS_Interval
<1>6. s \in Surjection(1 .. n, S) BY <1>4, <1>5, FS_Injection
<1>7. s \in Seq(S) /\ Len(s) = n BY <1>1, <1>3
<1>8. ToSet(s) = S
  <2>1. DOMAIN s = 1 .. n BY <1>3
  <2>2. \A x \in S : \E i \in 1 .. n : s[i] = x BY <1>6 DEF Surjection
  <2>3. \A i \in 1 .. n : s[i] \in S BY <1>3
  <2>4. QED BY <2>1, <2>2, <2>3 DEF ToSet
<1>9. QED BY <1>3, <1>7, <1>8 DEF s

-----------------------------------------------------------------------------
(* Pages.                                                                  *)

CachePages(t) == {t.page[q] : q \in CachedPaths(t)}

\* No page is the last of two paths.
PageOnce(t) == \A p, q \in CachedPaths(t) : t.page[p] = t.page[q] => p = q

\* The part of a row behind its first h pages, and that it names no page twice.
RowPages(row, h) == Between(row, h, Len(row))
RowOnce(row, h) == OnceBetween(row, h, Len(row))

\* F, L, T and the sets that own gives the members of H share no page and leave none out.
Parted(F, L, T, H, own) ==
  /\ F \subseteq Pages /\ L \subseteq Pages /\ T \subseteq Pages
  /\ F \cap L = {} /\ F \cap T = {} /\ L \cap T = {}
  /\ \A o \in H : /\ own[o] \subseteq Pages /\ own[o] \cap F = {}
                  /\ own[o] \cap L = {} /\ own[o] \cap T = {}
  /\ \A o, p \in H : o # p => own[o] \cap own[p] = {}
  /\ \A p \in Pages : p \in F \cup L \cup T \/ \E o \in H : p \in own[o]

\* A cache manager's lists name no page twice, nor does its tree, and with what the
\* requests own beyond it they are all the pages there are.
Shared(c, H, own) ==
  /\ c.free \in Seq(Pages) /\ IsInjective(c.free)
  /\ c.lazy \in Seq(Pages) /\ IsInjective(c.lazy)
  /\ PageOnce(c.tree)
  /\ Parted(ToSet(c.free), ToSet(c.lazy), CachePages(c.tree), H, own)

OwnPages == [o \in Newest |-> RowPages(page_table[reqs[o].slot], Len(reqs[o].handle))]

PInv ==
  /\ Shared(cm, Newest, OwnPages)
  /\ \A o \in Newest : /\ RowOnce(page_table[reqs[o].slot], Len(reqs[o].handle))
                       /\ CacheType = "naive" => reqs[o].handle = <<>>

-----------------------------------------------------------------------------
(* Moving pages from one part to another.                                  *)

\* A request gives some of its pages up.
LEMMA PartsGiven ==
  ASSUME NEW F, NEW L, NEW T, NEW H, NEW own, Parted(F, L, T, H, own), NEW x \in H,
         NEW A, NEW B, NEW C, own[x] = A \cup B \cup C,
         A \cap B = {}, A \cap C = {}, B \cap C = {},
         NEW own1, own1[x] = C, \A o \in H \ {x} : own1[o] = own[o]
  PROVE  /\ Parted(F \cup A, L, T \cup B, H, own1)
         /\ Parted(F, L \cup A, T \cup B, H, own1)
<1>1. A \subseteq own[x] /\ B \subseteq own[x] /\ C \subseteq own[x] OBVIOUS
<1>2. \A o \in H : own1[o] \subseteq own[o] BY <1>1
<1>3. \A o \in H \ {x} : own1[o] \cap A = {} /\ own1[o] \cap B = {} BY <1>1 DEF Parted
<1>4. own1[x] \cap A = {} /\ own1[x] \cap B = {} OBVIOUS
<1>5. own[x] \subseteq Pages /\ own[x] \cap F = {} /\ own[x] \cap L = {} /\ own[x] \cap T = {}
  BY DEF Parted
<1>6. \A p \in Pages : p \in F \cup L \cup T \cup A \cup B \/ \E o \in H : p \in own1[o]
  <2>1. ASSUME NEW p \in Pages, p \notin F \cup L \cup T \cup A \cup B PROVE \E o \in H : p \in own1[o]
    <3>1. PICK o \in H : p \in own[o] BY <2>1 DEF Parted
    <3>2. CASE o = x BY <2>1, <3>1, <3>2
    <3>3. CASE o # x BY <3>1, <3>3
    <3>4. QED BY <3>2, <3>3
  <2>2. QED BY <2>1
<1>7. \A o, p \in H : o # p => own1[o] \cap own1[p] = {} BY <1>2 DEF Parted
<1>8. \A o \in H : /\ own1[o] \subseteq Pages /\ own1[o] \cap F = {}
                   /\ own1[o] \cap L = {} /\ own1[o] \cap T = {}
                   /\ own1[o] \cap A = {} /\ own1[o] \cap B = {}
  BY <1>2, <1>3, <1>4 DEF Parted
<1>9. F \subseteq Pages /\ L \subseteq Pages /\ T \subseteq Pages
      /\ F \cap L = {} /\ F \cap T = {} /\ L \cap T = {}
  BY DEF Parted
<1>10. A \cap (F \cup L \cup T) = {} /\ B \cap (F \cup L \cup T) = {} /\ A \subseteq Pages /\ B \subseteq Pages
  BY <1>1, <1>5
<1>11. Parted(F \cup A, L, T \cup B, H, own1) BY <1>6, <1>7, <1>8, <1>9, <1>10 DEF Parted
<1>12. Parted(F, L \cup A, T \cup B, H, own1) BY <1>6, <1>7, <1>8, <1>9, <1>10 DEF Parted
<1>13. QED BY <1>11, <1>12

\* Requests that own nothing come and go.
LEMMA PartsSame ==
  ASSUME NEW F, NEW L, NEW T, NEW H, NEW own, Parted(F, L, T, H, own), NEW G, NEW own1,
         \A o \in G \cap H : own1[o] = own[o],
         \A o \in G \ H : own1[o] = {}, \A o \in H \ G : own[o] = {}
  PROVE  Parted(F, L, T, G, own1)
<1>1. \A o \in G : /\ own1[o] \subseteq Pages /\ own1[o] \cap F = {}
                   /\ own1[o] \cap L = {} /\ own1[o] \cap T = {}
  <2>1. ASSUME NEW o \in G
        PROVE  own1[o] \subseteq Pages /\ own1[o] \cap F = {} /\ own1[o] \cap L = {} /\ own1[o] \cap T = {}
    <3>1. CASE o \in H BY <3>1 DEF Parted
    <3>2. CASE o \notin H BY <3>2
    <3>3. QED BY <3>1, <3>2
  <2>2. QED BY <2>1
<1>2. ASSUME NEW o \in G, NEW p \in G, o # p PROVE own1[o] \cap own1[p] = {}
  <2>1. CASE o \in H /\ p \in H BY <1>2, <2>1 DEF Parted
  <2>2. CASE o \notin H \/ p \notin H BY <2>2
  <2>3. QED BY <2>1, <2>2
<1>3. ASSUME NEW p \in Pages, p \notin F \cup L \cup T PROVE \E o \in G : p \in own1[o]
  <2>1. PICK o \in H : p \in own[o] BY <1>3 DEF Parted
  <2>2. QED BY <2>1
<1>4. QED BY <1>1, <1>2, <1>3 DEF Parted

\* One request takes over what another owned.
LEMMA PartsRenamed ==
  ASSUME NEW F, NEW L, NEW T, NEW H, NEW own, Parted(F, L, T, H, own), NEW c \in H, NEW d, d \notin H,
         NEW own1, own1[d] = own[c], \A o \in H \ {c} : own1[o] = own[o]
  PROVE  Parted(F, L, T, (H \ {c}) \cup {d}, own1)
<1> DEFINE G == (H \ {c}) \cup {d}
<1>1. \A o \in G : /\ own1[o] \subseteq Pages /\ own1[o] \cap F = {}
                   /\ own1[o] \cap L = {} /\ own1[o] \cap T = {}
  BY DEF Parted
<1>2. ASSUME NEW o \in G, NEW p \in G, o # p PROVE own1[o] \cap own1[p] = {}
  <2>1. CASE o # d /\ p # d BY <1>2, <2>1 DEF Parted
  <2>2. CASE o = d BY <1>2, <2>2 DEF Parted
  <2>3. CASE p = d BY <1>2, <2>3 DEF Parted
  <2>4. QED BY <2>1, <2>2, <2>3
<1>3. ASSUME NEW p \in Pages, p \notin F \cup L \cup T PROVE \E o \in G : p \in own1[o]
  <2>1. PICK o \in H : p \in own[o] BY <1>3 DEF Parted
  <2>2. CASE o = c BY <2>1, <2>2
  <2>3. CASE o # c BY <2>1, <2>3
  <2>4. QED BY <2>2, <2>3
<1>4. QED BY <1>1, <1>2, <1>3 DEF Parted

\* Some of the free pages are handed out, to each request its own.
LEMMA PartsDealt ==
  ASSUME NEW F, NEW L, NEW T, NEW H, NEW own, Parted(F, L, T, H, own), NEW G, NEW more,
         G \subseteq F, \A o \in H : more[o] \subseteq F \ G,
         \A o, p \in H : o # p => more[o] \cap more[p] = {},
         \A p \in F \ G : \E o \in H : p \in more[o],
         NEW own1, \A o \in H : own1[o] = own[o] \cup more[o]
  PROVE  Parted(G, L, T, H, own1)
<1>1. \A o \in H : /\ own1[o] \subseteq Pages /\ own1[o] \cap G = {}
                   /\ own1[o] \cap L = {} /\ own1[o] \cap T = {}
  <2>1. ASSUME NEW o \in H
        PROVE  own1[o] \subseteq Pages /\ own1[o] \cap G = {} /\ own1[o] \cap L = {} /\ own1[o] \cap T = {}
    <3>1. /\ own[o] \subseteq Pages /\ own[o] \cap F = {} /\ own[o] \cap L = {} /\ own[o] \cap T = {}
          /\ F \cap L = {} /\ F \cap T = {} /\ F \subseteq Pages
      BY DEF Parted
    <3>2. own1[o] = own[o] \cup more[o] /\ more[o] \subseteq F \ G OBVIOUS
    <3>3. QED BY <3>1, <3>2
  <2>2. QED BY <2>1
<1>2. ASSUME NEW o \in H, NEW p \in H, o # p PROVE own1[o] \cap own1[p] = {}
  <2>1. own[o] \cap own[p] = {} /\ own[o] \cap F = {} /\ own[p] \cap F = {} BY <1>2 DEF Parted
  <2>2. more[o] \subseteq F /\ more[p] \subseteq F /\ more[o] \cap more[p] = {} BY <1>2
  <2>3. QED BY <2>1, <2>2
<1>3. ASSUME NEW p \in Pages, p \notin G \cup L \cup T PROVE \E o \in H : p \in own1[o]
  <2>1. CASE p \in F BY <1>3, <2>1
  <2>2. CASE p \notin F
    <3>1. PICK o \in H : p \in own[o] BY <1>3, <2>2 DEF Parted
    <3>2. QED BY <3>1
  <2>3. QED BY <2>1, <2>2
<1>4. G \subseteq Pages /\ L \subseteq Pages /\ T \subseteq Pages
      /\ G \cap L = {} /\ G \cap T = {} /\ L \cap T = {}
  BY DEF Parted
<1>5. QED BY <1>1, <1>2, <1>3, <1>4 DEF Parted

\* The free list takes in evicted pages or those that were set aside.
LEMMA PartsFreed ==
  ASSUME NEW F, NEW L, NEW T, NEW H, NEW own, Parted(F, L, T, H, own), NEW E
  PROVE  /\ E \subseteq T => Parted(F \cup E, L, T \ E, H, own)
         /\ Parted(F \cup L, {}, T, H, own)
BY DEF Parted

\* What inserting a key adds to the cache: the row's pages for the part not found.
LEMMA InsertedPages ==
  ASSUME NEW t, IsTree(t, Texts), NEW key \in Seq(Texts), NEW row, NEW ins, Inserted(t, key, row, ins)
  PROVE  /\ CachePages(ins.tree) = CachePages(t) \cup Between(row, ins.found, Len(ins.node))
         /\ /\ PageOnce(t) /\ CachePages(t) \cap Between(row, ins.found, Len(ins.node)) = {}
            /\ OnceBetween(row, ins.found, Len(ins.node))
            => PageOnce(ins.tree)
<1> DEFINE t1 == ins.tree
           h  == ins.node
           f  == ins.found
           n  == Len(h)
           B  == Between(row, f, n)
           N  == CachedPaths(t1) \ CachedPaths(t)
<1>1. /\ IsTree(t1, Texts) /\ f \in Nat /\ h \in Nodes(t1) \cup {<<>>} /\ f <= n
      /\ \A q \in CachedPaths(t) : q \in CachedPaths(t1) /\ t1.page[q] = t.page[q]
      /\ \A q \in Seq(Texts) \ {<<>>} : IsPrefix(q, h) /\ Len(q) > f => t1.page[q] = row[Len(q)]
      /\ \A q \in N : IsPrefix(q, h) /\ Len(q) > f
  BY DEF Inserted
<1>2. h \in Seq(Texts) /\ n \in Nat /\ \A k \in 1 .. n : SubSeq(h, 1, k) \in CachedPaths(t1)
  BY <1>1, HandlePaths
<1>3. CachedPaths(t) \subseteq Seq(Texts) \ {<<>>} /\ CachedPaths(t1) \subseteq Seq(Texts) \ {<<>>}
  BY <1>1 DEF IsTree
<1> HIDE DEF n
<1>4. ASSUME NEW q \in N PROVE Len(q) \in f + 1 .. n /\ t1.page[q] = row[Len(q)]
  <2>1. q \in Seq(Texts) \ {<<>>} /\ IsPrefix(q, h) /\ Len(q) > f BY <1>1, <1>3
  <2>2. Len(q) \in Nat /\ Len(q) <= n BY <2>1, <1>2, PrefixOrder DEF n
  <2>3. QED BY <2>1, <2>2, <1>1
<1>5. ASSUME NEW k \in f + 1 .. n
      PROVE  SubSeq(h, 1, k) \in N /\ Len(SubSeq(h, 1, k)) = k
  <2> DEFINE q == SubSeq(h, 1, k)
  <2>1. k \in 1 .. n /\ k \in 0 .. n /\ k > f BY <1>1
  <2>2. q \in Seq(Texts) /\ IsPrefix(q, h) /\ Len(q) = k BY <2>1, <1>2, PrefixMember DEF n
  <2>3. q \in CachedPaths(t1) BY <2>1, <1>2
  <2> HIDE DEF q
  <2>4. q \notin CachedPaths(t)
    <3>1. CASE CacheType = "naive"
      <4>1. h = <<>> BY <3>1 DEF Inserted
      <4>2. n = 0 BY <4>1 DEF n
      <4>3. QED BY <2>1, <4>2
    <3>2. CASE CacheType # "naive"
      <4>1. h = key /\ \A p \in CachedPaths(t) : IsPrefix(p, key) => Len(p) <= f BY <3>2 DEF Inserted
      <4>2. QED BY <4>1, <2>1, <2>2, <1>1
    <3>3. QED BY <3>1, <3>2
  <2>5. QED BY <2>2, <2>3, <2>4 DEF q
<1>6. CachePages(t1) = CachePages(t) \cup B
  <2> HIDE DEF h, f
  <2>1. \A q \in CachedPaths(t1) : t1.page[q] \in CachePages(t) \cup B
    <3>1. \A q \in CachedPaths(t) : t1.page[q] \in CachePages(t) BY <1>1 DEF CachePages
    <3>2. \A q \in N : t1.page[q] \in B BY <1>4 DEF Between
    <3>3. QED BY <3>1, <3>2
  <2>2. \A q \in CachedPaths(t) : t.page[q] \in CachePages(t1) BY <1>1 DEF CachePages
  <2>3. \A k \in f + 1 .. n : row[k] \in CachePages(t1)
    <3>1. ASSUME NEW k \in f + 1 .. n PROVE row[k] \in CachePages(t1)
      <4>1. PICK q \in N : Len(q) = k BY <1>5
      <4>2. t1.page[q] = row[k] BY <4>1, <1>4
      <4>3. QED BY <4>2 DEF CachePages
    <3>2. QED BY <3>1
  <2>4. QED BY <2>1, <2>2, <2>3 DEF CachePages, Between
<1>7. ASSUME PageOnce(t), CachePages(t) \cap B = {}, OnceBetween(row, f, n),
             NEW p \in CachedPaths(t1), NEW q \in CachedPaths(t1), t1.page[p] = t1.page[q]
      PROVE  p = q
  <2> HIDE DEF h, f
  <2>1. \A r \in CachedPaths(t) : t1.page[r] \in CachePages(t) BY <1>1 DEF CachePages
  <2>2. \A r \in N : t1.page[r] \in B BY <1>4 DEF Between
  <2>3. CASE p \in CachedPaths(t) /\ q \in CachedPaths(t) BY <2>3, <1>1, <1>7 DEF PageOnce
  <2>4. CASE p \in N /\ q \in N
    <3>1. Len(p) = Len(q) BY <2>4, <1>4, <1>7 DEF OnceBetween
    <3>2. IsPrefix(p, h) /\ IsPrefix(q, h) BY <2>4, <1>1 DEF h
    <3>3. p \in Seq(Texts) /\ q \in Seq(Texts) /\ Len(p) <= Len(q)
      <4>1. p \in Seq(Texts) /\ q \in Seq(Texts) BY <1>3
      <4>2. QED BY <3>1, <4>1, LenProperties
    <3>4. IsPrefix(p, q) /\ Len(q) <= Len(p) BY <3>1, <3>2, <3>3, <1>2, PrefixOrder
    <3>5. QED BY <3>3, <3>4, PrefixOrder
  <2>5. CASE (p \in CachedPaths(t)) # (q \in CachedPaths(t)) BY <2>1, <2>2, <2>5, <1>7
  <2>6. QED BY <2>3, <2>4, <2>5
<1>8. QED BY <1>6, <1>7 DEF PageOnce, n

\* Of its own pages the holder x keeps C, and gives up A and B.
GivesUp(H, own, own1, x, A, B, C) ==
  /\ own[x] = A \cup B \cup C /\ A \cap B = {} /\ A \cap C = {} /\ B \cap C = {}
  /\ own1[x] = C /\ \A o \in H \ {x} : own1[o] = own[o]

\* A cache manager after _free: the tree grew by B, the pages A came back.
LEMMA PagesGiven ==
  ASSUME NEW c, c = [free |-> c.free, tree |-> c.tree, lazy |-> c.lazy],
         NEW H, NEW own, Shared(c, H, own), NEW x, x \in H,
         NEW A, NEW B, NEW C, NEW own1, GivesUp(H, own, own1, x, A, B, C),
         NEW t1, PageOnce(t1), CachePages(t1) = CachePages(c.tree) \cup B,
         NEW more, more \in Seq(Pages), IsInjective(more), ToSet(more) = A, NEW reg, reg \in BOOLEAN
  PROVE  Shared(FreePages([c EXCEPT !.tree = t1], more, reg), H, own1)
<1> DEFINE F == ToSet(c.free)
           L == ToSet(c.lazy)
           T == CachePages(c.tree)
           e == [c EXCEPT !.tree = t1]
           d == FreePages(e, more, reg)
<1>1. /\ c.free \in Seq(Pages) /\ IsInjective(c.free) /\ c.lazy \in Seq(Pages) /\ IsInjective(c.lazy)
      /\ Parted(F, L, T, H, own)
  BY DEF Shared
<1> HIDE DEF F, L, T
<1>2. /\ Parted(F \cup A, L, T \cup B, H, own1)
      /\ Parted(F, L \cup A, T \cup B, H, own1)
  <2>1. own[x] = A \cup B \cup C /\ own1[x] = C /\ \A o \in H \ {x} : own1[o] = own[o] BY DEF GivesUp
  <2>2. A \cap B = {} /\ A \cap C = {} /\ B \cap C = {} BY DEF GivesUp
  <2>3. QED BY ONLY <1>1, <2>1, <2>2, x \in H, PartsGiven
<1>3. F \cap A = {} /\ L \cap A = {}
  <2>1. own[x] \cap F = {} /\ own[x] \cap L = {} BY <1>1 DEF Parted
  <2>2. QED BY <2>1 DEF GivesUp
<1>4. e = [free |-> c.free, tree |-> t1, lazy |-> c.lazy] OBVIOUS
<1> HIDE DEF e
<1>5. CASE reg
  <2>1. PICK l : l = c.lazy \o more OBVIOUS
  <2>2. d = [e EXCEPT !.lazy = l] BY <1>4, <1>5, <2>1 DEF FreePages
  <2>3. d = [free |-> c.free, tree |-> t1, lazy |-> l] BY <1>4, <2>2
  <2>4. l \in Seq(Pages) /\ ToSet(l) = L \cup A /\ IsInjective(l) BY <1>1, <1>3, <2>1, JoinedElements DEF L
  <2> HIDE DEF d
  <2>5. d.free = c.free /\ d.lazy = l /\ d.tree = t1 BY <2>3
  <2>6. Shared(d, H, own1) BY <1>1, <1>2, <2>4, <2>5 DEF Shared, F, T
  <2>7. QED BY <2>6 DEF d, e
<1>6. CASE ~reg
  <2>1. PICK j : j = c.free \o more OBVIOUS
  <2>2. PICK f : f = Ascending(j) OBVIOUS
  <2>3. d = [e EXCEPT !.free = f] BY <1>4, <1>6, <2>1, <2>2 DEF FreePages
  <2>4. d = [free |-> f, tree |-> t1, lazy |-> c.lazy] BY <1>4, <2>3
  <2>5. j \in Seq(Pages) /\ ToSet(j) = F \cup A /\ IsInjective(j) BY <1>1, <1>3, <2>1, JoinedElements DEF F
  <2>6. Pages \subseteq Int BY DEF Pages
  <2>7. f \in Seq(Pages) /\ ToSet(f) = F \cup A /\ IsInjective(f) BY <2>2, <2>5, <2>6, AscendingElements
  <2> HIDE DEF d
  <2>8. d.free = f /\ d.lazy = c.lazy /\ d.tree = t1 BY <2>4
  <2>9. Shared(d, H, own1) BY <1>1, <1>2, <2>7, <2>8 DEF Shared, L, T
  <2>10. QED BY <2>9 DEF d, e
<1>7. QED BY <1>5, <1>6

\* A row's own part, cut in three.
LEMMA RowParts ==
  ASSUME NEW row, NEW h \in Nat, NEW f \in Nat, NEW n \in Nat, h <= f, f <= n, n <= Len(row), Len(row) \in Nat,
         RowOnce(row, h)
  PROVE  LET A == Between(row, h, f)  B == Between(row, f, n)  C == RowPages(row, n)
         IN  /\ RowPages(row, h) = A \cup B \cup C
             /\ A \cap B = {} /\ A \cap C = {} /\ B \cap C = {}
             /\ OnceBetween(row, h, f) /\ OnceBetween(row, f, n) /\ RowOnce(row, n)
<1>1. PICK l \in Nat : l = Len(row) OBVIOUS
<1>2. \A k \in h + 1 .. l : k \in h + 1 .. f \/ k \in f + 1 .. n \/ k \in n + 1 .. l BY <1>1
<1>3. \A k \in h + 1 .. f : k \in h + 1 .. l BY <1>1
<1>4. \A k \in f + 1 .. n : k \in h + 1 .. l BY <1>1
<1>5. \A k \in n + 1 .. l : k \in h + 1 .. l BY <1>1
<1>6. /\ \A j \in h + 1 .. f, k \in f + 1 .. n : j # k
      /\ \A j \in h + 1 .. f, k \in n + 1 .. l : j # k
      /\ \A j \in f + 1 .. n, k \in n + 1 .. l : j # k
  OBVIOUS
<1>7. \A j, k \in h + 1 .. l : row[j] = row[k] => j = k BY <1>1 DEF RowOnce, OnceBetween
<1>8. RowPages(row, h) = Between(row, h, f) \cup Between(row, f, n) \cup Between(row, n, l)
  <2>1. RowPages(row, h) = {row[k] : k \in h + 1 .. l} BY <1>1 DEF RowPages, Between
  <2>2. QED BY <1>2, <1>3, <1>4, <1>5, <2>1 DEF Between
<1>9. RowPages(row, n) = Between(row, n, l) BY <1>1 DEF RowPages, Between
<1>10. /\ Between(row, h, f) \cap Between(row, f, n) = {}
       /\ Between(row, h, f) \cap Between(row, n, l) = {}
       /\ Between(row, f, n) \cap Between(row, n, l) = {}
  BY <1>3, <1>4, <1>5, <1>6, <1>7 DEF Between
<1>11. OnceBetween(row, h, f) /\ OnceBetween(row, f, n) /\ RowOnce(row, n)
  BY <1>1, <1>3, <1>4, <1>5, <1>7 DEF OnceBetween, RowOnce
<1>12. QED BY <1>8, <1>9, <1>10, <1>11

\* How a request's row is cut when its prefix is inserted: the pages of its handle,
\* those others cached first, those the cache takes over and the rest.
LEMMA HandleFound ==
  ASSUME NEW t, IsTree(t, Texts), NEW r, NEW row, RowHolds(r, row, t),
         r.handle \in Nodes(t) \cup {<<>>}, r.host \in Texts, r.cached \in Nat, r.cached <= Len(r.host),
         CacheType = "naive" => r.handle = <<>>,
         NEW key, key = Chunks(SubSeq(r.host, 1, r.cached)), NEW ins, Inserted(t, key, row, ins)
  PROVE  /\ Len(r.handle) \in Nat /\ ins.found \in Nat /\ Len(ins.node) \in Nat /\ Len(row) \in Nat
         /\ Len(r.handle) <= ins.found /\ ins.found <= Len(ins.node) /\ Len(ins.node) <= Len(row)
         /\ Len(row) = CeilDiv(r.cached, PageSize)
<1> DEFINE h == r.handle
<1>1. /\ key \in Seq(Texts) /\ Len(key) \in Nat /\ Len(key) <= CeilDiv(r.cached, PageSize)
      /\ \A l \in Nat : l * PageSize <= r.cached => l <= Len(key)
      /\ \A k \in 1 .. Len(key) : key[k] = SubSeq(r.host, (k - 1) * PageSize + 1, k * PageSize)
  BY TextChunks
<1>2. h \in Seq(Texts) /\ Len(h) \in Nat BY HandlePaths
<1>3. /\ Len(row) = CeilDiv(r.cached, PageSize) /\ Len(h) * PageSize <= r.cached
      /\ \A k \in 1 .. Len(h) : h[k] = SubSeq(r.host, (k - 1) * PageSize + 1, k * PageSize)
  BY DEF RowHolds
<1>4. ins.found \in Nat /\ ins.found <= Len(ins.node) /\ ins.node \in {key, <<>>} BY DEF Inserted
<1>5. Len(row) \in Nat BY <1>3, CeilDivFacts
<1>6. Len(<<>>) = 0 OBVIOUS
<1>7. Len(ins.node) \in Nat /\ Len(ins.node) <= Len(row)
  <2>1. CASE ins.node = key BY <2>1, <1>1, <1>3
  <2>2. CASE ins.node = <<>> BY <2>2, <1>5, <1>6
  <2>3. QED BY <2>1, <2>2, <1>4
<1>8. Len(h) <= ins.found
  <2>1. CASE h = <<>> BY <2>1, <1>4, <1>6
  <2>2. CASE h # <<>>
    <3>1. CacheType # "naive" BY <2>2
    <3>2. ins.node = key /\ \A q \in CachedPaths(t) : IsPrefix(q, key) => Len(q) <= ins.found
      BY <3>1 DEF Inserted
    <3>3. h \in CachedPaths(t) BY <2>2 DEF IsTree
    <3>4. Len(h) <= Len(key) BY <1>1, <1>2, <1>3
    <3>5. \A k \in 1 .. Len(h) : h[k] = key[k]
      <4>1. \A k \in 1 .. Len(h) : k \in 1 .. Len(key) BY <3>4, <1>1, <1>2
      <4>2. QED BY <4>1, <1>1, <1>3
    <3>6. IsPrefix(h, key) BY <3>4, <3>5, <1>1, <1>2, PrefixElements
    <3>7. QED BY <3>2, <3>3, <3>6
  <2>3. QED BY <2>1, <2>2
<1>9. QED BY <1>2, <1>3, <1>4, <1>5, <1>7, <1>8

\* After a request's prefix was inserted the cache owns what it took over.
LEMMA TakenOver ==
  ASSUME NEW c, IsTree(c.tree, Texts), NEW H, NEW own, Shared(c, H, own), NEW x \in H,
         NEW key \in Seq(Texts), NEW row, NEW ins, Inserted(c.tree, key, row, ins),
         NEW h \in Nat, h <= ins.found, ins.found \in Nat, ins.found <= Len(ins.node),
         Len(ins.node) \in Nat, Len(ins.node) <= Len(row), Len(row) \in Nat,
         own[x] = RowPages(row, h), RowOnce(row, h), NEW t1, t1.page = ins.tree.page
  PROVE  /\ PageOnce(t1)
         /\ CachePages(t1) = CachePages(c.tree) \cup Between(row, ins.found, Len(ins.node))
<1> DEFINE t == c.tree
           f == ins.found
           n == Len(ins.node)
           B == Between(row, f, n)
<1>1. /\ RowPages(row, h) = Between(row, h, f) \cup B \cup RowPages(row, n)
      /\ OnceBetween(row, f, n)
  BY RowParts
<1>2. B \cap CachePages(t) = {}
  <2>1. own[x] \cap CachePages(t) = {} BY DEF Shared, Parted
  <2>2. QED BY <2>1, <1>1
<1>3. PageOnce(t) BY DEF Shared
<1>4. CachePages(ins.tree) = CachePages(t) \cup B /\ PageOnce(ins.tree)
  <2> HIDE DEF t, B, f, n
  <2>1. IsTree(t, Texts) /\ Inserted(t, key, row, ins) BY DEF t
  <2>2. /\ CachePages(ins.tree) = CachePages(t) \cup Between(row, ins.found, Len(ins.node))
        /\ /\ PageOnce(t) /\ CachePages(t) \cap Between(row, ins.found, Len(ins.node)) = {}
           /\ OnceBetween(row, ins.found, Len(ins.node))
           => PageOnce(ins.tree)
    BY <2>1, InsertedPages
  <2>3. QED BY <2>2, <1>1, <1>2, <1>3 DEF B, f, n
<1>5. QED BY <1>4 DEF PageOnce, CachePages, CachedPaths

\* Locks do not touch the pages.
LEMMA LockedPages ==
  ASSUME NEW T, NEW t, IsTree(t, T), NEW n
  PROVE  LockPath(t, n).page = t.page /\ UnlockPath(t, n).page = t.page
<1>1. t = [page |-> t.page, ref |-> t.ref, evictable |-> t.evictable, protected |-> t.protected]
  BY DEF IsTree
<1>2. PICK a, b, x, y : /\ a = AddRef(t, PathTo(t, n), 1) /\ b = AddRef(t, PathTo(t, n), -1)
                        /\ x = TotalLength(t, {m \in PathTo(t, n) : t.ref[m] = 0})
                        /\ y = TotalLength(t, {m \in PathTo(t, n) : t.ref[m] = 1})
  OBVIOUS
<1>3. LockPath(t, n) = [t EXCEPT !.ref = a, !.evictable = @ - x, !.protected = @ + x]
  BY <1>2 DEF LockPath
<1>4. UnlockPath(t, n) = [t EXCEPT !.ref = b, !.evictable = @ + y, !.protected = @ - y]
  BY <1>2 DEF UnlockPath
<1>5. QED BY <1>1, <1>3, <1>4

LEMMA SharedSame ==
  ASSUME NEW c, NEW H, NEW own, Shared(c, H, own), NEW G, NEW own1,
         \A o \in G \cap H : own1[o] = own[o],
         \A o \in G \ H : own1[o] = {}, \A o \in H \ G : own[o] = {}
  PROVE  Shared(c, G, own1)
<1>1. PICK F, L, T : F = ToSet(c.free) /\ L = ToSet(c.lazy) /\ T = CachePages(c.tree) OBVIOUS
<1>2. Parted(F, L, T, H, own) BY <1>1 DEF Shared
<1>3. Parted(F, L, T, G, own1)
  <2>1. /\ \A o \in G \cap H : own1[o] = own[o]
        /\ \A o \in G \ H : own1[o] = {} 
        /\ \A o \in H \ G : own[o] = {}
    OBVIOUS
  <2>2. QED BY ONLY <1>2, <2>1, PartsSame
<1>4. QED BY <1>1, <1>3 DEF Shared

\* What the invariant says of one request.
LEMMA OwnRow ==
  ASSUME PInv, NEW o \in Newest
  PROVE  LET row == page_table[reqs[o].slot]  h == Len(reqs[o].handle)
         IN  /\ OwnPages[o] = RowPages(row, h) /\ RowPages(row, h) \subseteq Pages /\ RowOnce(row, h)
             /\ CacheType = "naive" => reqs[o].handle = <<>>
<1>1. OwnPages[o] = RowPages(page_table[reqs[o].slot], Len(reqs[o].handle)) BY DEF OwnPages
<1>2. OwnPages[o] \subseteq Pages BY DEF PInv, Shared, Parted
<1>3. QED BY <1>1, <1>2 DEF PInv
\* A released request's own pages go to the cache or come back.
LEMMA ReleasedPages ==
  ASSUME IInv, XInv, HInv, CInv, PInv, NEW c \in Newest, NEW r,
         r.handle = reqs[c].handle, r.slot = reqs[c].slot, r.cached = reqs[c].cached,
         r.host \in Texts, r.cached \in Nat, r.cached <= Len(r.host), Len(reqs[c].host) <= Len(r.host),
         \A i \in 1 .. Len(reqs[c].host) : r.host[i] = reqs[c].host[i],
         NEW reg \in BOOLEAN, FreeReqResources(c, r, reg),
         Newest' = Newest \ {c}, \A o \in Newest' : reqs'[o] = reqs[o]
  PROVE  PInv'
<1> DEFINE t    == cm.tree
           row  == page_table[r.slot]
           key  == Chunks(SubSeq(r.host, 1, r.cached))
           ins  == InsertPrefix(t, key, row)
           t1   == UnlockPath(ins.tree, r.handle)
           h    == Len(r.handle)
           f    == ins.found
           n    == Len(ins.node)
           tail == SubSeq(row, Len(ins.node) + 1, CeilDiv(r.cached, PageSize))
           more == Duplicates(row, Len(r.handle) + 1, ins.found) \o tail
           A    == Between(row, h, f)
           B    == Between(row, f, n)
           C    == RowPages(row, n)
           own1 == [o \in Newest |-> IF o = c THEN {} ELSE OwnPages[o]]
<1>1. IsTree(t, Texts) /\ Locks(t, Newest, Handles)
      /\ cm = [free |-> cm.free, tree |-> t, lazy |-> cm.lazy]
  BY DEF CInv, TreeHolds
<1>2. key \in Seq(Texts) BY TextChunks
<1>3. cm' = FreePages([cm EXCEPT !.tree = t1], more, reg) BY DEF FreeReqResources, ReleaseCached
<1>4. page_table' = [page_table EXCEPT ![r.slot] = <<>>] BY DEF FreeReqResources
<1>5. r.handle \in Nodes(t) \cup {<<>>} BY <1>1, LocksRead
<1>6. RowHolds(r, row, t)
  <2> DEFINE r0 == reqs[c]
  <2>1. RowHolds(r0, row, t) BY DEF CInv
  <2>2. r0.handle \in Nodes(t) \cup {<<>>} BY <1>1, LocksRead
  <2>3. r0.host \in Texts BY DEF HInv, Stored
  <2>4. r.handle = r0.handle /\ r.cached = r0.cached /\ Len(r0.host) <= Len(r.host)
        /\ \A i \in 1 .. Len(r0.host) : r.host[i] = r0.host[i]
    OBVIOUS
  <2>5. r.host \in Texts OBVIOUS
  <2> HIDE DEF r0, t, row
  <2>6. QED BY ONLY <1>1, <2>1, <2>2, <2>3, <2>4, <2>5, RowKept
<1>7. Inserted(t, key, row, ins) BY <1>1, <1>2, InsertedTree
<1>8. /\ h \in Nat /\ f \in Nat /\ n \in Nat /\ Len(row) \in Nat
      /\ h <= f /\ f <= n /\ n <= Len(row) /\ Len(row) = CeilDiv(r.cached, PageSize)
  <2>1. CacheType = "naive" => r.handle = <<>> BY OwnRow
  <2>2. r.host \in Texts /\ r.cached \in Nat /\ r.cached <= Len(r.host) OBVIOUS
  <2>3. PICK k : k = key OBVIOUS
  <2>4. PICK i : i = ins OBVIOUS
  <2>5. k = Chunks(SubSeq(r.host, 1, r.cached)) /\ Inserted(t, k, row, i) BY <1>7, <2>3, <2>4
  <2>6. /\ Len(r.handle) \in Nat /\ i.found \in Nat /\ Len(i.node) \in Nat /\ Len(row) \in Nat
        /\ Len(r.handle) <= i.found /\ i.found <= Len(i.node) /\ Len(i.node) <= Len(row)
        /\ Len(row) = CeilDiv(r.cached, PageSize)
    BY ONLY <1>1, <1>5, <1>6, <2>1, <2>2, <2>5, HandleFound
  <2> HIDE DEF ins
  <2>7. QED BY <2>4, <2>6
<1>9. OwnPages[c] = RowPages(row, h) /\ RowPages(row, h) \subseteq Pages /\ RowOnce(row, h) BY OwnRow
<1>10. Shared(cm, Newest, OwnPages) BY DEF PInv
<1> HIDE DEF key, ins
<1>11. t1.page = ins.tree.page
  <2>1. IsTree(ins.tree, Texts) BY <1>7 DEF Inserted
  <2>2. QED BY <2>1, LockedPages
<1>12. PageOnce(t1) /\ CachePages(t1) = CachePages(t) \cup B
  <2> HIDE DEF t1, h, row
  <2>1. QED BY <1>1, <1>2, <1>7, <1>8, <1>9, <1>10, <1>11, TakenOver
<1> HIDE DEF t1, h, n, f
<1>13. /\ RowPages(row, h) = A \cup B \cup C
       /\ A \cap B = {} /\ A \cap C = {} /\ B \cap C = {}
       /\ OnceBetween(row, h, f) /\ RowOnce(row, n)
  BY <1>8, <1>9, RowParts
<1>14. more \in Seq(Pages) /\ IsInjective(more) /\ ToSet(more) = A \cup C
  <2>1. A \subseteq Pages /\ C \subseteq Pages BY <1>9, <1>13
  <2>2. PICK l \in Nat : l = Len(row) BY <1>8
  <2>3. PICK u, v : u = SubSeq(row, h + 1, f) /\ v = SubSeq(row, n + 1, l) OBVIOUS
  <2>4. u \in Seq(Pages) /\ ToSet(u) = A /\ IsInjective(u)
    <3> HIDE DEF row
    <3>1. IsSlice(SubSeq(row, h + 1, f), Pages, row, h, f) BY <2>1, <1>8, SliceElements
    <3>2. QED BY <3>1, <2>3, <1>13 DEF IsSlice
  <2>5. v \in Seq(Pages) /\ ToSet(v) = C /\ IsInjective(v)
    <3>1. C = Between(row, n, l) /\ OnceBetween(row, n, l) BY <1>13, <2>2 DEF RowPages, RowOnce
    <3> HIDE DEF row, C
    <3>2. IsSlice(SubSeq(row, n + 1, l), Pages, row, n, l) BY <3>1, <2>1, <1>8, SliceElements
    <3>3. QED BY <3>1, <3>2, <2>3 DEF IsSlice
  <2>6. more = u \o v
    <3>1. Duplicates(row, Len(r.handle) + 1, ins.found) = u BY <2>3 DEF Duplicates, h, f
    <3>2. tail = v BY <1>8, <2>2, <2>3 DEF n
    <3>3. QED BY <3>1, <3>2
  <2> HIDE DEF more, A, C
  <2>7. QED BY <2>4, <2>5, <2>6, <1>13, JoinedElements
<1> HIDE DEF more
<1>15. Shared(cm', Newest, own1)
  <2>1. PICK D : D = A \cup C OBVIOUS
  <2>2. own1[c] = {} /\ \A o \in Newest \ {c} : own1[o] = OwnPages[o] OBVIOUS
  <2>3. OwnPages[c] = D \cup B \cup {} BY <2>1, <1>9, <1>13
  <2>4. D \cap B = {} /\ D \cap {} = {} /\ B \cap {} = {} BY <2>1, <1>13
  <2>5. more \in Seq(Pages) /\ IsInjective(more) /\ ToSet(more) = D BY <2>1, <1>14
  <2> HIDE DEF own1, A, B, C
  <2>6. PICK m, s : m = cm /\ s = OwnPages OBVIOUS
  <2>7. PICK E : E = {} OBVIOUS
  <2>8. m = [free |-> m.free, tree |-> m.tree, lazy |-> m.lazy] BY <2>6, <1>1
  <2>81. Shared(m, Newest, s) BY <2>6, <1>10
  <2>82. CachePages(t1) = CachePages(m.tree) \cup B BY <2>6, <1>12
  <2>83. PageOnce(t1) BY <1>12
  <2>9. GivesUp(Newest, s, own1, c, D, B, E) BY <2>2, <2>3, <2>4, <2>6, <2>7 DEF GivesUp
  <2>10. Shared(FreePages([m EXCEPT !.tree = t1], more, reg), Newest, own1)
    BY ONLY <2>5, <2>8, <2>81, <2>82, <2>83, <2>9, c \in Newest, reg \in BOOLEAN, PagesGiven
  <2>11. QED BY <2>6, <2>10, <1>3
<1>16. ASSUME NEW o \in Newest'
       PROVE  reqs'[o] = reqs[o] /\ page_table'[reqs[o].slot] = page_table[reqs[o].slot]
  <2>1. o \in Newest /\ o # c OBVIOUS
  <2>2. reqs[o].slot # r.slot /\ reqs[o].slot \in Slots BY <2>1, SlotsApart
  <2>3. QED BY <2>2, <1>4
<1>17. QED
  <2>1. \A o \in Newest' : o \in Newest /\ OwnPages'[o] = OwnPages[o] BY <1>16 DEF OwnPages
  <2>2. PICK m, s, G : m = cm' /\ s = OwnPages' /\ G = Newest' OBVIOUS
  <2>3. \A o \in G \cap Newest : s[o] = own1[o] BY <2>1, <2>2
  <2>4. \A o \in G \ Newest : s[o] = {} BY <2>1, <2>2
  <2>5. \A o \in Newest \ G : own1[o] = {} BY <2>2
  <2> HIDE DEF own1
  <2>6. Shared(m, Newest, own1) BY <2>2, <1>15
  <2>7. Shared(m, G, s) BY ONLY <2>3, <2>4, <2>5, <2>6, SharedSame
  <2>8. \A o \in Newest' : /\ RowOnce(page_table'[reqs'[o].slot], Len(reqs'[o].handle))
                           /\ CacheType = "naive" => reqs'[o].handle = <<>>
    BY <2>1, <1>16, OwnRow
  <2>9. QED BY <2>2, <2>7, <2>8 DEF PInv

\* Rows that agree behind their first n pages.
LEMMA RowAgrees ==
  ASSUME NEW row, NEW new, NEW n \in Nat, Len(new) = Len(row), Len(row) \in Nat,
         \A k \in n + 1 .. Len(row) : new[k] = row[k]
  PROVE  RowPages(new, n) = RowPages(row, n) /\ (RowOnce(row, n) => RowOnce(new, n))
<1>1. PICK l : l = Len(row) OBVIOUS
<1>2. RowPages(new, n) = {new[k] : k \in n + 1 .. l} /\ RowPages(row, n) = {row[k] : k \in n + 1 .. l}
  BY <1>1 DEF RowPages, Between
<1>3. \A k \in n + 1 .. l : new[k] = row[k] BY <1>1
<1>4. RowPages(new, n) = RowPages(row, n) BY <1>2, <1>3
<1>5. RowOnce(row, n) => RowOnce(new, n) BY <1>1, <1>3 DEF RowOnce, OnceBetween
<1>6. QED BY <1>4, <1>5

\* A request that goes on leaves its prefix to the cache and keeps the rest.
LEMMA KeptPages ==
  ASSUME IInv, XInv, LInv, HInv, CInv, PInv, NEW c \in Newest, NEW r,
         r.handle = reqs[c].handle, r.slot = reqs[c].slot, r.cached = reqs[c].cached,
         r.host \in Texts, r.cached <= Len(r.host), Len(reqs[c].host) <= Len(r.host),
         \A i \in 1 .. Len(reqs[c].host) : r.host[i] = reqs[c].host[i],
         cm' = KeepCached(cm, r, page_table[r.slot]).cm,
         page_table' = [page_table EXCEPT ![r.slot] = KeepCached(cm, r, page_table[r.slot]).row],
         reqs'[c].handle = KeepCached(cm, r, page_table[r.slot]).handle, reqs'[c].slot = r.slot,
         Newest' = Newest, \A o \in Newest \ {c} : reqs'[o] = reqs[o]
  PROVE  PInv'
<1> DEFINE t    == cm.tree
           row  == page_table[r.slot]
           key  == Chunks(SubSeq(r.host, 1, r.cached))
           ins  == InsertPrefix(t, key, row)
           own  == Len(r.handle) + 1
           low  == UnlockPath(ins.tree, r.handle)
           t1   == LockPath(low, ins.node)
           more == Duplicates(row, own, ins.found)
           new  == Canonical(ins.tree, row, ins.node, own, ins.found)
           d    == FreePages([cm EXCEPT !.tree = t1], more, TRUE)
           h    == Len(r.handle)
           f    == ins.found
           n    == Len(ins.node)
           A    == Between(row, h, f)
           B    == Between(row, f, n)
           C    == RowPages(row, n)
           own1 == [o \in Newest |-> IF o = c THEN C ELSE OwnPages[o]]
<1>1. IsTree(t, Texts) /\ Locks(t, Newest, Handles) /\ IsFiniteSet(Newest)
      /\ cm = [free |-> cm.free, tree |-> t, lazy |-> cm.lazy]
  BY NewestFinite DEF CInv, TreeHolds
<1>2. r.cached \in Nat BY CachedKnown
<1>3. key \in Seq(Texts) BY <1>2, TextChunks
<1>4. /\ cm' = d /\ reqs'[c].handle = ins.node
      /\ page_table' = [page_table EXCEPT ![r.slot] = new]
  <2>1. KeepCached(cm, r, row) = [cm |-> d, row |-> new, handle |-> ins.node] BY DEF KeepCached
  <2>2. PICK k : k = KeepCached(cm, r, row) OBVIOUS
  <2> HIDE DEF d, new, ins
  <2>3. k.cm = d /\ k.row = new /\ k.handle = ins.node BY <2>1, <2>2
  <2>4. QED BY <2>2, <2>3
<1>5. r.handle \in Nodes(t) \cup {<<>>} BY <1>1, LocksRead
<1>6. RowHolds(r, row, t)
  <2> DEFINE r0 == reqs[c]
  <2>1. RowHolds(r0, row, t) BY DEF CInv
  <2>2. r0.handle \in Nodes(t) \cup {<<>>} BY <1>1, LocksRead
  <2>3. r0.host \in Texts BY CachedKnown
  <2>4. r.handle = r0.handle /\ r.cached = r0.cached /\ Len(r0.host) <= Len(r.host)
        /\ \A i \in 1 .. Len(r0.host) : r.host[i] = r0.host[i]
    OBVIOUS
  <2>5. r.host \in Texts OBVIOUS
  <2> HIDE DEF r0, t, row
  <2>6. QED BY ONLY <1>1, <2>1, <2>2, <2>3, <2>4, <2>5, RowKept
<1>7. Inserted(t, key, row, ins) BY <1>1, <1>3, InsertedTree
<1>8. /\ h \in Nat /\ f \in Nat /\ n \in Nat /\ Len(row) \in Nat
      /\ h <= f /\ f <= n /\ n <= Len(row)
  <2>1. CacheType = "naive" => r.handle = <<>> BY OwnRow
  <2>2. r.host \in Texts /\ r.cached \in Nat /\ r.cached <= Len(r.host) BY <1>2
  <2>3. PICK k : k = key OBVIOUS
  <2>4. PICK i : i = ins OBVIOUS
  <2>5. k = Chunks(SubSeq(r.host, 1, r.cached)) /\ Inserted(t, k, row, i) BY <1>7, <2>3, <2>4
  <2>6. /\ Len(r.handle) \in Nat /\ i.found \in Nat /\ Len(i.node) \in Nat /\ Len(row) \in Nat
        /\ Len(r.handle) <= i.found /\ i.found <= Len(i.node) /\ Len(i.node) <= Len(row)
        /\ Len(row) = CeilDiv(r.cached, PageSize)
    BY ONLY <1>1, <1>5, <1>6, <2>1, <2>2, <2>5, HandleFound
  <2> HIDE DEF ins
  <2>7. QED BY <2>4, <2>6
<1>9. OwnPages[c] = RowPages(row, h) /\ RowPages(row, h) \subseteq Pages /\ RowOnce(row, h) BY OwnRow
<1>10. Shared(cm, Newest, OwnPages) BY DEF PInv
<1>11. r.slot \in Slots /\ DOMAIN page_table = Slots /\ row \in Seq(ToSet(row))
  <2>1. r.slot \in Slots BY SlotsApart
  <2>2. QED BY <2>1 DEF LInv, RowLengths, IsRow
<1> HIDE DEF key, ins
<1>12. t1.page = ins.tree.page
  <2>1. IsTree(ins.tree, Texts) /\ Locks(ins.tree, Newest, Handles) BY <1>1, <1>7 DEF Inserted
  <2>2. Handles[c] = r.handle BY DEF Handles
  <2>3. IsTree(low, Texts)
    <3>1. low = UnlockPath(ins.tree, Handles[c]) BY <2>2
    <3>2. PICK s : s = ins.tree OBVIOUS
    <3>3. PICK u : u = UnlockPath(s, Handles[c]) OBVIOUS
    <3>4. IsTree(s, Texts) /\ Locks(s, Newest, Handles) /\ IsFiniteSet(Newest) /\ c \in Newest
      BY <1>1, <2>1, <3>2
    <3>5. IsTree(u, Texts) BY ONLY <3>3, <3>4, UnlockPathTree
    <3> HIDE DEF low
    <3>6. QED BY <3>1, <3>2, <3>3, <3>5
  <2>4. low.page = ins.tree.page BY <2>1, LockedPages
  <2> HIDE DEF low
  <2>5. QED BY <2>3, <2>4, LockedPages
<1> HIDE DEF low, t1
<1>13. PageOnce(t1) /\ CachePages(t1) = CachePages(t) \cup B
  <2>1. PICK m, s, i, g, k : m = cm /\ s = OwnPages /\ i = ins /\ g = h /\ k = key OBVIOUS
  <2>2. IsTree(m.tree, Texts) /\ Shared(m, Newest, s) /\ Inserted(m.tree, k, row, i) /\ k \in Seq(Texts)
        /\ t1.page = i.tree.page
    BY <2>1, <1>1, <1>3, <1>7, <1>10, <1>12
  <2>3. /\ g \in Nat /\ g <= i.found /\ i.found \in Nat /\ i.found <= Len(i.node)
        /\ Len(i.node) \in Nat /\ Len(i.node) <= Len(row) /\ Len(row) \in Nat
        /\ s[c] = RowPages(row, g) /\ RowOnce(row, g)
    BY <2>1, <1>8, <1>9
  <2> HIDE DEF row
  <2>4. /\ PageOnce(t1)
        /\ CachePages(t1) = CachePages(m.tree) \cup Between(row, i.found, Len(i.node))
    BY ONLY <2>2, <2>3, c \in Newest, TakenOver
  <2>5. QED BY <2>1, <2>4
<1>14. Len(new) = Len(row) /\ \A k \in n + 1 .. Len(row) : new[k] = row[k]
  <2>1. DOMAIN row = 1 .. Len(row) BY <1>11, LenProperties
  <2>2. new = [k \in 1 .. Len(row) |-> IF k \in own .. f THEN ins.tree.page[SubSeq(ins.node, 1, k)] ELSE row[k]]
    BY <2>1 DEF Canonical
  <2> HIDE DEF new, row, h, n, f
  <2>3. Len(new) = Len(row) BY <2>2, <1>8
  <2>4. \A k \in n + 1 .. Len(row) : k \in 1 .. Len(row) /\ k \notin own .. f BY <1>8
  <2>5. QED BY <2>2, <2>3, <2>4
<1> HIDE DEF new, h, n, f
<1>15. /\ RowPages(row, h) = A \cup B \cup C
       /\ A \cap B = {} /\ A \cap C = {} /\ B \cap C = {}
       /\ OnceBetween(row, h, f) /\ RowOnce(row, n)
  BY <1>8, <1>9, RowParts
<1>16. more \in Seq(Pages) /\ IsInjective(more) /\ ToSet(more) = A
  <2>1. A \subseteq Pages BY <1>9, <1>15
  <2>2. more = SubSeq(row, h + 1, f) BY DEF Duplicates, h, f
  <2> HIDE DEF row, more
  <2>3. IsSlice(SubSeq(row, h + 1, f), Pages, row, h, f) BY <2>1, <1>8, SliceElements
  <2>4. QED BY <2>2, <2>3, <1>15 DEF IsSlice
<1> HIDE DEF more
<1>17. RowPages(new, n) = C /\ RowOnce(new, n)
  <2> HIDE DEF row
  <2>1. QED BY <1>8, <1>14, <1>15, RowAgrees
<1> HIDE DEF A, B, C
<1>18. Shared(cm', Newest, own1)
  <2>1. own1[c] = C /\ \A o \in Newest \ {c} : own1[o] = OwnPages[o] OBVIOUS
  <2> HIDE DEF own1
  <2>2. PICK m, s : m = cm /\ s = OwnPages OBVIOUS
  <2>3. m = [free |-> m.free, tree |-> m.tree, lazy |-> m.lazy] BY <2>2, <1>1
  <2>31. Shared(m, Newest, s) BY <2>2, <1>10
  <2>32. CachePages(t1) = CachePages(m.tree) \cup B BY <2>2, <1>13
  <2>33. PageOnce(t1) BY <1>13
  <2>4. GivesUp(Newest, s, own1, c, A, B, C) BY <2>1, <2>2, <1>9, <1>15 DEF GivesUp
  <2>5. Shared(FreePages([m EXCEPT !.tree = t1], more, TRUE), Newest, own1)
    BY ONLY <2>3, <2>31, <2>32, <2>33, <2>4, <1>16, c \in Newest, TRUE \in BOOLEAN, PagesGiven
  <2>6. QED BY <2>2, <2>5, <1>4
<1>19. page_table'[reqs'[c].slot] = new /\ Len(reqs'[c].handle) = n BY <1>4, <1>11 DEF n
<1>20. ASSUME NEW o \in Newest \ {c}
       PROVE  reqs'[o] = reqs[o] /\ page_table'[reqs[o].slot] = page_table[reqs[o].slot]
  <2>1. reqs[o].slot # r.slot /\ reqs[o].slot \in Slots BY SlotsApart
  <2>2. QED BY <2>1, <1>4
<1>21. QED
  <2>1. \A o \in Newest \ {c} : OwnPages'[o] = OwnPages[o] BY <1>20 DEF OwnPages
  <2>2. OwnPages'[c] = C BY <1>17, <1>19 DEF OwnPages
  <2>3. PICK m, s : m = cm' /\ s = OwnPages' OBVIOUS
  <2>4. \A o \in Newest : s[o] = own1[o] BY <2>1, <2>2, <2>3
  <2> HIDE DEF own1
  <2>5. Shared(m, Newest, own1) BY <2>3, <1>18
  <2>6. Shared(m, Newest, s) BY ONLY <2>4, <2>5, SharedSame
  <2>7. ASSUME NEW o \in Newest
        PROVE  /\ RowOnce(page_table'[reqs'[o].slot], Len(reqs'[o].handle))
               /\ CacheType = "naive" => reqs'[o].handle = <<>>
    <3>1. CASE o = c
      <4>1. CacheType = "naive" => ins.node = <<>> BY <1>7 DEF Inserted
      <4>2. QED BY <4>1, <3>1, <1>4, <1>17, <1>19
    <3>2. CASE o # c BY <3>2, <1>20, OwnRow
    <3>3. QED BY <3>1, <3>2
  <2>8. QED BY <2>3, <2>6, <2>7 DEF PInv

\* Steps that move no page.
LEMMA QuietPages ==
  ASSUME PInv, Newest' = Newest,
         cm'.free = cm.free, cm'.lazy = cm.lazy, cm'.tree.page = cm.tree.page,
         \A o \in Newest : /\ reqs'[o].handle = reqs[o].handle /\ reqs'[o].slot = reqs[o].slot
                           /\ page_table'[reqs[o].slot] = page_table[reqs[o].slot]
  PROVE  PInv'
<1>1. PICK m, s : m = cm' /\ s = OwnPages' OBVIOUS
<1>2. \A o \in Newest : s[o] = OwnPages[o] BY <1>1 DEF OwnPages
<1>3. Shared(m, Newest, OwnPages)
  <2>1. PICK n : n = cm OBVIOUS
  <2>2. PageOnce(m.tree) <=> PageOnce(n.tree) BY <1>1, <2>1 DEF PageOnce, CachedPaths
  <2>3. CachePages(m.tree) = CachePages(n.tree) BY <1>1, <2>1 DEF CachePages, CachedPaths
  <2>4. m.free = n.free /\ m.lazy = n.lazy BY <1>1, <2>1
  <2>5. Shared(n, Newest, OwnPages) BY <2>1 DEF PInv
  <2>6. QED BY <2>2, <2>3, <2>4, <2>5 DEF Shared
<1>4. Shared(m, Newest, s) BY ONLY <1>2, <1>3, SharedSame
<1>5. \A o \in Newest : /\ RowOnce(page_table'[reqs'[o].slot], Len(reqs'[o].handle))
                        /\ CacheType = "naive" => reqs'[o].handle = <<>>
  BY OwnRow
<1>6. QED BY <1>1, <1>4, <1>5 DEF PInv

\* The next chunk of a prompt takes over the pages of the last.
LEMMA AdmitChunkPages ==
  ASSUME PInv, NEW c \in Newest, NEW d, d \notin Newest, Newest' = (Newest \ {c}) \cup {d},
         UNCHANGED <<cm, page_table>>, \A o \in Newest : reqs'[o] = reqs[o],
         reqs'[d].slot = reqs[c].slot, reqs'[d].handle = reqs[c].handle
  PROVE  PInv'
<1>1. PICK m, s, x : m = cm' /\ s = OwnPages' /\ x = OwnPages OBVIOUS
<1>2. s[d] = x[c] /\ \A o \in Newest \ {c} : s[o] = x[o] BY <1>1 DEF OwnPages
<1>3. Shared(m, Newest, x) BY <1>1 DEF PInv
<1>4. PICK F, L, T : F = ToSet(m.free) /\ L = ToSet(m.lazy) /\ T = CachePages(m.tree) OBVIOUS
<1>5. Parted(F, L, T, Newest, x) BY <1>3, <1>4 DEF Shared
<1>6. Parted(F, L, T, (Newest \ {c}) \cup {d}, s)
  BY ONLY <1>2, <1>5, c \in Newest, d \notin Newest, PartsRenamed
<1>7. Shared(m, Newest', s) BY <1>3, <1>4, <1>6 DEF Shared
<1>8. ASSUME NEW o \in Newest'
      PROVE  /\ RowOnce(page_table'[reqs'[o].slot], Len(reqs'[o].handle))
             /\ CacheType = "naive" => reqs'[o].handle = <<>>
  <2>1. CASE o = d BY <2>1, OwnRow
  <2>2. CASE o # d BY <2>2, OwnRow
  <2>3. QED BY <2>1, <2>2
<1>9. QED BY <1>1, <1>7, <1>8 DEF PInv

\* A new request owns no page yet: its row is its handle's.
LEMMA AdmitNewPages ==
  ASSUME PInv, NEW d, d \notin Newest, Newest' = Newest \cup {d},
         cm'.free = cm.free, cm'.lazy = cm.lazy, cm'.tree.page = cm.tree.page,
         \A o \in Newest : /\ reqs'[o] = reqs[o]
                           /\ page_table'[reqs[o].slot] = page_table[reqs[o].slot],
         NEW n \in Nat, Len(reqs'[d].handle) = n, Len(page_table'[reqs'[d].slot]) = n,
         CacheType = "naive" => reqs'[d].handle = <<>>
  PROVE  PInv'
<1>1. PICK m, s, x : m = cm' /\ s = OwnPages' /\ x = OwnPages OBVIOUS
<1>2. \A k : k \notin n + 1 .. n OBVIOUS
<1>3. s[d] = {} /\ \A o \in Newest : s[o] = x[o]
  <2>1. s[d] = RowPages(page_table'[reqs'[d].slot], n) BY <1>1 DEF OwnPages
  <2>2. s[d] = {} BY <1>2, <2>1 DEF RowPages, Between
  <2>3. QED BY <1>1, <2>2 DEF OwnPages
<1>4. Shared(m, Newest, x)
  <2>1. PICK a : a = cm OBVIOUS
  <2>2. PageOnce(m.tree) <=> PageOnce(a.tree) BY <1>1, <2>1 DEF PageOnce, CachedPaths
  <2>3. CachePages(m.tree) = CachePages(a.tree) BY <1>1, <2>1 DEF CachePages, CachedPaths
  <2>4. m.free = a.free /\ m.lazy = a.lazy BY <1>1, <2>1
  <2>5. Shared(a, Newest, x) BY <1>1, <2>1 DEF PInv
  <2>6. QED BY <2>2, <2>3, <2>4, <2>5 DEF Shared
<1>5. PICK G : G = Newest' OBVIOUS
<1>6. Shared(m, G, s)
  <2>1. /\ \A o \in G \cap Newest : s[o] = x[o]
        /\ \A o \in G \ Newest : s[o] = {}
        /\ \A o \in Newest \ G : x[o] = {}
    BY <1>3, <1>5
  <2>2. QED BY ONLY <1>4, <2>1, SharedSame
<1>7. ASSUME NEW o \in Newest'
      PROVE  /\ RowOnce(page_table'[reqs'[o].slot], Len(reqs'[o].handle))
             /\ CacheType = "naive" => reqs'[o].handle = <<>>
  <2>1. CASE o = d BY <2>1, <1>2 DEF RowOnce, OnceBetween
  <2>2. CASE o # d BY <2>2, OwnRow
  <2>3. QED BY <2>1, <2>2
<1>8. QED BY <1>1, <1>5, <1>6, <1>7 DEF PInv

\* The region closes: what it has set aside is free.
LEMMA FlushedPages ==
  ASSUME PInv, cm = [free |-> cm.free, tree |-> cm.tree, lazy |-> cm.lazy],
         cm' = FlushLazy(cm), Newest' = Newest, UNCHANGED page_table, \A o \in Newest : reqs'[o] = reqs[o]
  PROVE  PInv'
<1>1. PICK m, n, s, x : m = cm' /\ n = cm /\ s = OwnPages' /\ x = OwnPages OBVIOUS
<1>2. \A o \in Newest : s[o] = x[o] BY <1>1 DEF OwnPages
<1>3. Shared(n, Newest, x) BY <1>1 DEF PInv
<1>4. PICK j : j = n.free \o n.lazy OBVIOUS
<1>5. PICK f : f = Ascending(j) OBVIOUS
<1>6. m.free = f /\ m.lazy = <<>> /\ m.tree = n.tree
  <2>1. n = [free |-> n.free, tree |-> n.tree, lazy |-> n.lazy] BY <1>1
  <2>2. m = [n EXCEPT !.free = f, !.lazy = <<>>] BY <1>1, <1>4, <1>5 DEF FlushLazy
  <2>3. QED BY <2>1, <2>2
<1>7. PICK F, L, T : F = ToSet(n.free) /\ L = ToSet(n.lazy) /\ T = CachePages(n.tree) OBVIOUS
<1>8. /\ n.free \in Seq(Pages) /\ IsInjective(n.free) /\ n.lazy \in Seq(Pages) /\ IsInjective(n.lazy)
      /\ PageOnce(n.tree) /\ Parted(F, L, T, Newest, x)
  BY <1>3, <1>7 DEF Shared
<1>9. j \in Seq(Pages) /\ IsInjective(j) /\ ToSet(j) = F \cup L
  <2>1. F \cap L = {} BY <1>8 DEF Parted
  <2>2. QED BY <2>1, <1>4, <1>7, <1>8, JoinedElements
<1>10. f \in Seq(Pages) /\ IsInjective(f) /\ ToSet(f) = F \cup L
  <2>1. Pages \subseteq Int BY DEF Pages
  <2>2. QED BY <2>1, <1>5, <1>9, AscendingElements
<1>11. Parted(F \cup L, {}, T, Newest, x) BY ONLY <1>8, PartsFreed
<1>12. <<>> \in Seq(Pages) /\ IsInjective(<<>>) /\ ToSet(<<>>) = {} BY EmptySeq, EmptyFacts DEF IsInjective
<1>13. Shared(m, Newest, x) BY <1>6, <1>7, <1>8, <1>10, <1>11, <1>12 DEF Shared
<1>14. Shared(m, Newest, s) BY ONLY <1>2, <1>13, SharedSame
<1>15. \A o \in Newest : /\ RowOnce(page_table'[reqs'[o].slot], Len(reqs'[o].handle))
                         /\ CacheType = "naive" => reqs'[o].handle = <<>>
  BY OwnRow
<1>16. QED BY <1>1, <1>14, <1>15 DEF PInv

-----------------------------------------------------------------------------
(* Allocation.                                                             *)

\* A list without duplicates, cut in two.
IsCut(p, g, S, f, n) ==
  /\ p \in Seq(S) /\ IsInjective(p) /\ Len(p) = n
  /\ g \in Seq(S) /\ IsInjective(g)
  /\ ToSet(p) \cap ToSet(g) = {} /\ ToSet(p) \cup ToSet(g) = ToSet(f)

LEMMA CutList ==
  ASSUME NEW S, NEW f, f \in Seq(S), IsInjective(f), NEW n, n \in Nat, n <= Len(f),
         NEW p, p = SubSeq(f, 1, n), NEW g, g = SubSeq(f, n + 1, Len(f))
  PROVE  IsCut(p, g, S, f, n)
<1> DEFINE l == Len(f)
<1>1. l \in Nat /\ DOMAIN f = 1 .. l /\ n <= l /\ \A i \in 1 .. l : f[i] \in S
  BY LenProperties, ElementOfSeq
<1> HIDE DEF l
<1>2. Between(f, 0, n) \subseteq S /\ Between(f, n, l) \subseteq S BY <1>1 DEF Between
<1>3. OnceBetween(f, 0, n) /\ OnceBetween(f, n, l)
  <2>1. \A i, k \in 1 .. l : f[i] = f[k] => i = k BY <1>1 DEF IsInjective
  <2>2. 0 + 1 .. n \subseteq 1 .. l /\ n + 1 .. l \subseteq 1 .. l BY <1>1
  <2>3. OnceBetween(f, 0, n) BY <2>1, <2>2 DEF OnceBetween
  <2>4. OnceBetween(f, n, l) BY <2>1, <2>2 DEF OnceBetween
  <2>5. QED BY <2>3, <2>4
<1>4. p = SubSeq(f, 0 + 1, n) /\ g = SubSeq(f, n + 1, l) /\ 0 \in Nat BY DEF l
<1>5. IsSlice(p, S, f, 0, n) BY <1>1, <1>2, <1>4, SliceElements
<1>6. IsSlice(g, S, f, n, l) BY <1>1, <1>2, <1>4, SliceElements
<1>7. Len(p) = n BY <1>5 DEF IsSlice
<1>8. ToSet(p) = {f[i] : i \in 1 .. n} /\ ToSet(g) = {f[i] : i \in n + 1 .. l}
  <2>1. ToSet(p) = Between(f, 0, n) BY <1>5 DEF IsSlice
  <2>2. ToSet(g) = Between(f, n, l) BY <1>6 DEF IsSlice
  <2>3. 0 + 1 .. n = 1 .. n OBVIOUS
  <2>4. Between(f, 0, n) = {f[i] : i \in 1 .. n} BY <2>3 DEF Between
  <2>5. QED BY <2>1, <2>2, <2>4 DEF Between
<1>9. ToSet(f) = {f[i] : i \in 1 .. l} BY <1>1 DEF ToSet
<1>10. \A i \in 1 .. n, j \in n + 1 .. l : f[i] # f[j] BY <1>1 DEF IsInjective
<1>11. ToSet(p) \cap ToSet(g) = {} BY <1>8, <1>10
<1>12. ToSet(p) \cup ToSet(g) = ToSet(f)
  <2>1. 1 .. l = (1 .. n) \cup (n + 1 .. l) BY <1>1
  <2>2. QED BY <2>1, <1>8, <1>9
<1>13. p \in Seq(S) /\ IsInjective(p) /\ g \in Seq(S) /\ IsInjective(g)
  BY <1>3, <1>5, <1>6 DEF IsSlice
<1>14. QED BY <1>7, <1>11, <1>12, <1>13 DEF IsCut

\* The pages of the nodes evicted leave the cache, one for each path.
LEMMA EvictedPages ==
  ASSUME NEW t, IsTree(t, Texts), PageOnce(t), IsFiniteSet(CachePages(t)),
         NEW S, S \subseteq {n \in Nodes(t) : t.ref[n] = 0},
         \A n \in S, m \in Nodes(t) : IsPrefix(n, m) => m \in S
  PROVE  LET u == RemoveNodes(t, S)  E == PagesOn(t, S)
         IN  /\ E \subseteq CachePages(t) /\ CachePages(u) = CachePages(t) \ E /\ PageOnce(u)
             /\ IsFiniteSet(E) /\ Cardinality(E) = TotalLength(t, S) /\ TotalLength(t, S) \in Nat
<1>1. PICK u, E, C, D : /\ u = RemoveNodes(t, S) /\ E = PagesOn(t, S)
                        /\ C = CachedPaths(t) /\ D = OwnedBy(t, S)
  OBVIOUS
<1>2. /\ CachedPaths(u) = C \ D /\ \A p \in C \ D : u.page[p] = t.page[p]
  BY <1>1, RemoveNodesTree
<1>3. D \subseteq C /\ E = {t.page[p] : p \in D} BY <1>1 DEF OwnedBy, PagesOn
<1>4. \A p, q \in C : t.page[p] = t.page[q] => p = q BY <1>1 DEF PageOnce
<1>5. CachePages(t) = {t.page[p] : p \in C} BY <1>1 DEF CachePages
<1>6. CachePages(u) = {u.page[p] : p \in C \ D} BY <1>2 DEF CachePages
<1>7. E \subseteq CachePages(t) BY <1>3, <1>5
<1>8. CachePages(u) = CachePages(t) \ E
  <2>1. ASSUME NEW x \in CachePages(u) PROVE x \in CachePages(t) \ E
    <3>1. PICK p \in C \ D : x = t.page[p] BY <1>2, <1>6
    <3>2. QED BY <3>1, <1>3, <1>4, <1>5
  <2>2. ASSUME NEW x \in CachePages(t) \ E PROVE x \in CachePages(u)
    <3>1. PICK p \in C : x = t.page[p] BY <1>5
    <3>2. p \in C \ D BY <3>1, <1>3
    <3>3. QED BY <3>1, <3>2, <1>2, <1>6
  <2>3. QED BY <2>1, <2>2
<1>9. PageOnce(u) BY <1>2, <1>4 DEF PageOnce
<1>10. IsFiniteSet(E) BY <1>7, FS_Subset
<1>11. IsFiniteSet(D) /\ Cardinality(D) = Cardinality(E)
  <2> DEFINE f == [p \in D |-> t.page[p]]
  <2>1. f \in Bijection(D, E)
    <3>1. f \in [D -> E] BY <1>3
    <3>2. \A p, q \in D : f[p] = f[q] => p = q BY <1>3, <1>4
    <3>3. \A x \in E : \E p \in D : f[p] = x BY <1>3
    <3>4. QED BY <3>1, <3>2, <3>3 DEF Bijection, Injection, Surjection, IsInjective
  <2> HIDE DEF f
  <2>2. IsFiniteSet(D)
    <3>1. f \in Injection(D, E) BY <2>1 DEF Bijection
    <3>2. QED BY <3>1, <1>10, FS_Injection
  <2>3. ExistsBijection(D, E) BY <2>1 DEF ExistsBijection
  <2>4. Cardinality(D) = Cardinality(E) BY <1>10, <2>2, <2>3, FS_Bijection
  <2>5. QED BY <2>2, <2>4
<1>12. Cardinality(D) \in Nat BY <1>11, FS_CardinalityType
<1>13. TotalLength(t, S) = Cardinality(D) BY <1>1 DEF TotalLength
<1>14. QED BY <1>1, <1>7, <1>8, <1>9, <1>10, <1>11, <1>12, <1>13

\* The pages handed out were nobody's: on the free list or just evicted.
Allotted(c, pages, needed, d, H, own) ==
  /\ pages \in Seq(Pages) /\ IsInjective(pages) /\ Len(pages) = needed
  /\ d.free \in Seq(Pages) /\ IsInjective(d.free) /\ d.lazy = c.lazy /\ PageOnce(d.tree)
  /\ ToSet(pages) \cap ToSet(d.free) = {}
  /\ Parted(ToSet(pages) \cup ToSet(d.free), ToSet(c.lazy), CachePages(d.tree), H, own)

LEMMA AllocatedPages ==
  ASSUME NEW c, c = [free |-> c.free, tree |-> c.tree, lazy |-> c.lazy], IsTree(c.tree, Texts),
         NEW H, NEW own, Shared(c, H, own), NEW needed \in Nat, NEW a \in Allocations(c, needed)
  PROVE  Allotted(c, a.pages, needed, a.cm, H, own)
<1>1. PICK F, L, T : F = ToSet(c.free) /\ L = ToSet(c.lazy) /\ T = CachePages(c.tree) OBVIOUS
<1>2. /\ c.free \in Seq(Pages) /\ IsInjective(c.free) /\ PageOnce(c.tree) /\ Parted(F, L, T, H, own)
  BY <1>1 DEF Shared
<1>3. Len(c.free) \in Nat BY <1>2, LenProperties
<1>4. CASE needed - Len(c.free) <= 0
  <2>1. PICK p, g : p = SubSeq(c.free, 1, needed) /\ g = SubSeq(c.free, needed + 1, Len(c.free)) OBVIOUS
  <2>2. a = [pages |-> p, cm |-> [c EXCEPT !.free = g]] BY <1>4, <2>1 DEF Allocations
  <2>3. a.pages = p /\ a.cm = [free |-> g, tree |-> c.tree, lazy |-> c.lazy]
    <3>1. a.cm = [c EXCEPT !.free = g] BY <2>2
    <3>2. QED BY <2>2, <3>1
  <2>4. /\ p \in Seq(Pages) /\ IsInjective(p) /\ Len(p) = needed /\ g \in Seq(Pages) /\ IsInjective(g)
        /\ ToSet(p) \cap ToSet(g) = {} /\ ToSet(p) \cup ToSet(g) = F
    <3>1. needed <= Len(c.free) BY <1>3, <1>4
    <3>2. PICK f : f = c.free OBVIOUS
    <3>3. f \in Seq(Pages) /\ IsInjective(f) /\ needed <= Len(f) /\ p = SubSeq(f, 1, needed)
          /\ g = SubSeq(f, needed + 1, Len(f))
      BY <1>2, <2>1, <3>1, <3>2
    <3>4. IsCut(p, g, Pages, f, needed) BY ONLY <3>3, needed \in Nat, CutList
    <3>5. QED BY <1>1, <3>2, <3>4 DEF IsCut
  <2>5. PICK d : d = a.cm OBVIOUS
  <2>6. d.free = g /\ d.lazy = c.lazy /\ d.tree = c.tree BY <2>3, <2>5
  <2>7. Allotted(c, p, needed, d, H, own) BY <1>1, <1>2, <2>4, <2>6 DEF Allotted
  <2>8. QED BY <2>3, <2>5, <2>7
<1>5. CASE ~(needed - Len(c.free) <= 0)
  <2> DEFINE Merged(S) == Ascending(c.free \o SetToSeq(PagesOn(c.tree, S)))
             Handout(S) == [pages |-> SubSeq(Merged(S), 1, needed),
                            cm |-> [c EXCEPT !.free = SubSeq(Merged(S), needed + 1, Len(Merged(S))),
                                             !.tree = RemoveNodes(@, S)]]
  <2>0. Allocations(c, needed) = {Handout(S) : S \in Evictions(c.tree, needed - Len(c.free))}
    BY ONLY <1>5, Zenon DEF Allocations
  <2> HIDE DEF Handout
  <2>1. PICK S \in Evictions(c.tree, needed - Len(c.free)) : a = Handout(S) BY <2>0
  <2>2. PICK E, u : E = PagesOn(c.tree, S) /\ u = RemoveNodes(c.tree, S) OBVIOUS
  <2>3. PICK e : e = SetToSeq(E) OBVIOUS
  <2>4. PICK j : j = c.free \o e OBVIOUS
  <2>5. PICK f : f = Ascending(j) OBVIOUS
  <2>6. PICK p, g : p = SubSeq(f, 1, needed) /\ g = SubSeq(f, needed + 1, Len(f)) OBVIOUS
  <2>7. a = [pages |-> p, cm |-> [c EXCEPT !.free = g, !.tree = u]]
    BY <2>1, <2>2, <2>3, <2>4, <2>5, <2>6 DEF Handout
  <2>8. a.pages = p /\ a.cm = [free |-> g, tree |-> u, lazy |-> c.lazy]
    <3>1. a.cm = [c EXCEPT !.free = g, !.tree = u] BY <2>7
    <3>2. QED BY <2>7, <3>1
  <2>9. S \subseteq {n \in Nodes(c.tree) : c.tree.ref[n] = 0}
        /\ \A n \in S, m \in Nodes(c.tree) : IsPrefix(n, m) => m \in S
    BY <2>1 DEF Evictions
  <2>10. TotalLength(c.tree, S) >= needed - Len(c.free) BY <2>1 DEF Evictions
  <2>11. T \subseteq Pages /\ F \cap T = {} /\ IsFiniteSet(T)
    <3>1. T \subseteq Pages /\ F \cap T = {} BY <1>2 DEF Parted
    <3>2. 0 \in Int /\ NumPages - 1 \in Int BY PagesAssumption
    <3>3. IsFiniteSet(0 .. NumPages - 1) BY <3>2, FS_Interval
    <3>4. IsFiniteSet(Pages) BY <3>3 DEF Pages
    <3>5. QED BY <3>1, <3>4, FS_Subset
  <2>12. /\ E \subseteq T /\ CachePages(u) = T \ E /\ PageOnce(u)
         /\ IsFiniteSet(E) /\ Cardinality(E) = TotalLength(c.tree, S) /\ TotalLength(c.tree, S) \in Nat
    <3>1. PICK t : t = c.tree OBVIOUS
    <3>2. PageOnce(t) /\ IsTree(t, Texts) /\ IsFiniteSet(CachePages(t)) BY <1>1, <1>2, <2>11, <3>1
    <3>3. S \subseteq {n \in Nodes(t) : t.ref[n] = 0} BY <2>9, <3>1
    <3>4. \A n \in S, m \in Nodes(t) : IsPrefix(n, m) => m \in S BY <2>9, <3>1
    <3>5. LET v == RemoveNodes(t, S)  D == PagesOn(t, S)
          IN  /\ D \subseteq CachePages(t) /\ CachePages(v) = CachePages(t) \ D /\ PageOnce(v)
              /\ IsFiniteSet(D) /\ Cardinality(D) = TotalLength(t, S) /\ TotalLength(t, S) \in Nat
      BY ONLY <3>2, <3>3, <3>4, EvictedPages
    <3>6. QED BY <1>1, <2>2, <3>1, <3>5
  <2>13. e \in Seq(Pages) /\ IsInjective(e) /\ ToSet(e) = E /\ Len(e) = TotalLength(c.tree, S)
    <3>1. e \in Seq(E) /\ IsInjective(e) /\ ToSet(e) = E /\ Len(e) = Cardinality(E)
      BY <2>3, <2>12, ListedElements
    <3>2. E \subseteq Pages BY <2>11, <2>12
    <3>3. Seq(E) \subseteq Seq(Pages) BY <3>2
    <3>4. QED BY <3>1, <3>3, <2>12
  <2>14. /\ j \in Seq(Pages) /\ Len(j) = Len(c.free) + Len(e) /\ ToSet(j) = F \cup E /\ IsInjective(j)
    <3>1. ToSet(c.free) \cap ToSet(e) = {} BY <1>1, <2>11, <2>12, <2>13
    <3>2. PICK s : s = c.free OBVIOUS
    <3>3. s \in Seq(Pages) /\ IsInjective(s) /\ ToSet(s) = F BY <1>1, <1>2, <3>2
    <3>4. e \in Seq(Pages) /\ IsInjective(e) /\ ToSet(e) = E BY <2>13
    <3>5. ToSet(s) \cap ToSet(e) = {} BY <3>1, <3>2
    <3>6. /\ s \o e \in Seq(Pages) /\ Len(s \o e) = Len(s) + Len(e)
          /\ ToSet(s \o e) = ToSet(s) \cup ToSet(e) /\ IsInjective(s \o e)
      BY ONLY <3>3, <3>4, <3>5, JoinedElements
    <3>7. QED BY <2>4, <3>2, <3>3, <3>4, <3>6
  <2>15. f \in Seq(Pages) /\ Len(f) = Len(j) /\ ToSet(f) = F \cup E /\ IsInjective(f)
    <3>1. Pages \subseteq Int BY DEF Pages
    <3>2. QED BY <2>5, <2>14, <3>1, AscendingElements
  <2>16. needed <= Len(f) BY <1>3, <2>10, <2>12, <2>13, <2>14, <2>15
  <2>17. /\ p \in Seq(Pages) /\ IsInjective(p) /\ Len(p) = needed /\ g \in Seq(Pages) /\ IsInjective(g)
         /\ ToSet(p) \cap ToSet(g) = {} /\ ToSet(p) \cup ToSet(g) = ToSet(f)
    <3>1. f \in Seq(Pages) /\ IsInjective(f) BY <2>15
    <3>2. IsCut(p, g, Pages, f, needed) BY ONLY <2>6, <2>16, <3>1, needed \in Nat, CutList
    <3>3. QED BY <3>2 DEF IsCut
  <2>18. Parted(F \cup E, L, T \ E, H, own) BY <1>2, <2>12, PartsFreed
  <2>19. PICK d : d = a.cm OBVIOUS
  <2>20. d.free = g /\ d.lazy = c.lazy /\ d.tree = u BY <2>8, <2>19
  <2>21. Allotted(c, p, needed, d, H, own) BY <1>1, <2>12, <2>15, <2>17, <2>18, <2>20 DEF Allotted
  <2>22. QED BY <2>8, <2>19, <2>21
<1>6. QED BY <1>4, <1>5

\* The new pages of a batch, one request after the other, have the places 1, 2, ...
IsPlaced(fields, needed) ==
  /\ needed \in Nat
  /\ \A e \in NewEntries(fields) : EntryPlace(fields, e) \in 1 .. needed
  /\ \A d, e \in NewEntries(fields) : EntryPlace(fields, d) = EntryPlace(fields, e) => d = e
  /\ \A k \in 1 .. needed : \E e \in NewEntries(fields) : EntryPlace(fields, e) = k

LEMMA EntriesOf ==
  ASSUME NEW fields
  PROVE  /\ \A e \in NewEntries(fields) : /\ e = <<e[1], e[2]>> /\ e[1] \in DOMAIN fields
                                         /\ e[2] \in 1 .. NewPages(fields[e[1]])
         /\ \A i \in DOMAIN fields : \A k \in 1 .. NewPages(fields[i]) : <<i, k>> \in NewEntries(fields)
<1>1. ASSUME NEW e \in NewEntries(fields)
      PROVE  /\ e = <<e[1], e[2]>> /\ e[1] \in DOMAIN fields /\ e[2] \in 1 .. NewPages(fields[e[1]])
  <2>1. PICK i \in DOMAIN fields : e \in {i} \X (1 .. NewPages(fields[i])) BY DEF NewEntries
  <2>2. e[1] = i /\ e[2] \in 1 .. NewPages(fields[i]) /\ e = <<e[1], e[2]>> BY <2>1
  <2>3. QED BY <2>2
<1>2. ASSUME NEW i \in DOMAIN fields, NEW k \in 1 .. NewPages(fields[i])
      PROVE  <<i, k>> \in NewEntries(fields)
  BY DEF NewEntries
<1>3. QED BY <1>1, <1>2

LEMMA EntryPlaces ==
  ASSUME NEW fields, NEW n \in Nat, DOMAIN fields = 1 .. n,
         \A i \in 1 .. n : NewPages(fields[i]) \in Nat
  PROVE  IsPlaced(fields, NeededPages(fields))
<1> DEFINE E == NewEntries(fields)
           R == {x \in E \X E : x[1][1] < x[2][1] \/ (x[1][1] = x[2][1] /\ x[1][2] <= x[2][2])}
           place == [e \in E |-> EntryPlace(fields, e)]
<1>1. \A e \in E : e = <<e[1], e[2]>> /\ e[1] \in 1 .. n /\ e[1] \in Int /\ e[2] \in Int
  <2>1. \A e \in E : e = <<e[1], e[2]>> /\ e[1] \in 1 .. n /\ e[2] \in 1 .. NewPages(fields[e[1]])
    BY EntriesOf
  <2> HIDE DEF E
  <2>2. QED BY <2>1
<1>2. IsFiniteSet(E)
  <2> DEFINE part == [i \in 1 .. n |-> {i} \X (1 .. NewPages(fields[i]))]
  <2>1. \A i \in 1 .. n : IsFiniteSet(part[i])
    <3>1. \A i \in 1 .. n : IsFiniteSet(1 .. NewPages(fields[i])) BY FS_Interval
    <3>2. \A i \in 1 .. n : IsFiniteSet({i}) BY FS_Singleton
    <3>3. \A i \in 1 .. n : IsFiniteSet({i} \X (1 .. NewPages(fields[i]))) BY <3>1, <3>2, FS_Product
    <3>4. QED BY <3>3
  <2>2. E = UNION ToSet(part)
    <3>1. ToSet(part) = {part[i] : i \in 1 .. n} BY DEF ToSet
    <3>2. E = UNION {{i} \X (1 .. NewPages(fields[i])) : i \in 1 .. n} BY DEF NewEntries
    <3>3. \A i \in 1 .. n : part[i] = {i} \X (1 .. NewPages(fields[i])) OBVIOUS
    <3> HIDE DEF part, E
    <3>4. QED BY <3>1, <3>2, <3>3
  <2>3. part \in Seq(ToSet(part))
    <3>1. DOMAIN part = 1 .. n /\ part = [i \in DOMAIN part |-> part[i]] OBVIOUS
    <3> HIDE DEF part
    <3>2. QED BY <3>1, RowOf
  <2>4. IsFiniteSet(ToSet(part)) BY <2>3, FiniteElements
  <2>5. \A X \in ToSet(part) : IsFiniteSet(X) BY <2>1 DEF ToSet
  <2> HIDE DEF part, E
  <2>6. QED BY <2>2, <2>4, <2>5, FS_UNION
<1>3. \A d, e \in E : <<d, e>> \in R <=> d[1] < e[1] \/ (d[1] = e[1] /\ d[2] <= e[2]) OBVIOUS
<1>4. \A e \in E : place[e] = Cardinality(UpTo(R, E, e))
  <2>1. \A e \in E : UpTo(R, E, e) = {d \in E : d[1] < e[1] \/ (d[1] = e[1] /\ d[2] <= e[2])}
    BY <1>3 DEF UpTo
  <2>2. \A e \in E : place[e] = Cardinality({d \in E : d[1] < e[1] \/ (d[1] = e[1] /\ d[2] <= e[2])})
    BY DEF EntryPlace
  <2> HIDE DEF place, R, E
  <2>3. QED BY <2>1, <2>2
<1>5. IsLinear(R, E)
  <2> HIDE DEF E
  <2>1. ASSUME NEW x \in E PROVE <<x, x>> \in R BY <1>1, <1>3
  <2>2. ASSUME NEW x \in E, NEW y \in E
        PROVE  /\ <<x, y>> \in R \/ <<y, x>> \in R
               /\ <<x, y>> \in R /\ <<y, x>> \in R => x = y
    <3>1. /\ x[1] \in Int /\ x[2] \in Int /\ y[1] \in Int /\ y[2] \in Int
          /\ x = <<x[1], x[2]>> /\ y = <<y[1], y[2]>>
      BY <1>1
    <3>2. /\ <<x, y>> \in R <=> x[1] < y[1] \/ (x[1] = y[1] /\ x[2] <= y[2])
          /\ <<y, x>> \in R <=> y[1] < x[1] \/ (y[1] = x[1] /\ y[2] <= x[2])
      BY <1>3
    <3> HIDE DEF R
    <3>3. <<x, y>> \in R \/ <<y, x>> \in R BY <3>1, <3>2
    <3>4. <<x, y>> \in R /\ <<y, x>> \in R => x[1] = y[1] /\ x[2] = y[2] BY <3>1, <3>2
    <3>5. QED BY <3>1, <3>3, <3>4
  <2>3. ASSUME NEW x \in E, NEW y \in E, NEW z \in E, <<x, y>> \in R, <<y, z>> \in R
        PROVE  <<x, z>> \in R
    <3>1. /\ x[1] \in Int /\ x[2] \in Int /\ y[1] \in Int /\ y[2] \in Int
          /\ z[1] \in Int /\ z[2] \in Int
      BY <1>1
    <3>2. /\ <<x, y>> \in R <=> x[1] < y[1] \/ (x[1] = y[1] /\ x[2] <= y[2])
          /\ <<y, z>> \in R <=> y[1] < z[1] \/ (y[1] = z[1] /\ y[2] <= z[2])
          /\ <<x, z>> \in R <=> x[1] < z[1] \/ (x[1] = z[1] /\ x[2] <= z[2])
      BY <1>3
    <3> HIDE DEF R
    <3>3. QED BY <2>3, <3>1, <3>2
  <2> HIDE DEF R
  <2>4. QED BY <2>1, <2>2, <2>3 DEF IsLinear
<1>6. /\ Cardinality(E) \in Nat /\ \A e \in E : place[e] \in 1 .. Cardinality(E)
      /\ \A d, e \in E : place[d] = place[e] => d = e
      /\ \A k \in 1 .. Cardinality(E) : \E e \in E : place[e] = k
  <2> HIDE DEF R, place, E
  <2>1. PICK p : p = place OBVIOUS
  <2>2. \A e \in E : p[e] = Cardinality(UpTo(R, E, e)) BY <2>1, <1>4
  <2>3. /\ Cardinality(E) \in Nat /\ \A e \in E : p[e] \in 1 .. Cardinality(E)
        /\ \A d, e \in E : p[d] = p[e] => d = e
        /\ \A k \in 1 .. Cardinality(E) : \E e \in E : p[e] = k
    BY ONLY <1>2, <1>5, <2>2, RanksCount
  <2>4. QED BY <2>1, <2>3
<1>7. \A e \in E : place[e] = EntryPlace(fields, e) OBVIOUS
<1>8. NeededPages(fields) = Cardinality(E) BY DEF NeededPages
<1> HIDE DEF R, place
<1>9. IsPlaced(fields, Cardinality(E)) BY <1>6, <1>7 DEF IsPlaced
<1>10. QED BY <1>8, <1>9

\* So the pages handed out go each to one request.
AreDealt(more, H, pages, objs, fields) ==
  \A o \in H : \A x : x \in more[o] <=>
                        \E e \in NewEntries(fields) : objs[e[1]] = o /\ x = pages[EntryPlace(fields, e)]

AreShares(more, H, P) ==
  /\ \A o \in H : more[o] \subseteq P
  /\ \A o, p \in H : o # p => more[o] \cap more[p] = {}
  /\ \A x \in P : \E o \in H : x \in more[o]

LEMMA DealtPages ==
  ASSUME NEW pages \in Seq(Pages), IsInjective(pages), NEW fields, IsPlaced(fields, Len(pages)),
         NEW objs, DOMAIN objs = DOMAIN fields, NEW H, \A i \in DOMAIN objs : objs[i] \in H,
         NEW more, AreDealt(more, H, pages, objs, fields)
  PROVE  AreShares(more, H, ToSet(pages))
<1> DEFINE E == NewEntries(fields)
           n == Len(pages)
<1>1. n \in Nat /\ DOMAIN pages = 1 .. n BY LenProperties
<1>2. \A e \in E : EntryPlace(fields, e) \in DOMAIN pages BY <1>1 DEF IsPlaced
<1>3. \A d, e \in E : pages[EntryPlace(fields, d)] = pages[EntryPlace(fields, e)] => d = e
  <2>1. \A d, e \in E : pages[EntryPlace(fields, d)] = pages[EntryPlace(fields, e)]
                          => EntryPlace(fields, d) = EntryPlace(fields, e)
    BY <1>2 DEF IsInjective
  <2>2. QED BY <2>1 DEF IsPlaced
<1>4. \A e \in E : objs[e[1]] \in H
  <2>1. \A e \in E : e[1] \in DOMAIN fields BY EntriesOf
  <2>2. QED BY <2>1
<1>5. \A k \in 1 .. n : \E e \in E : EntryPlace(fields, e) = k BY DEF IsPlaced
<1> HIDE DEF E, n
<1>6. \A o \in H : \A x : x \in more[o] <=> \E e \in E : objs[e[1]] = o /\ x = pages[EntryPlace(fields, e)]
  BY DEF E, AreDealt
<1>7. \A o \in H : more[o] \subseteq ToSet(pages) BY <1>2, <1>6, ToSetElement
<1>8. ASSUME NEW o \in H, NEW p \in H, o # p PROVE more[o] \cap more[p] = {}
  <2>1. ASSUME NEW x \in more[o], x \in more[p] PROVE FALSE
    <3>1. PICK d \in E : objs[d[1]] = o /\ x = pages[EntryPlace(fields, d)] BY <1>6
    <3>2. PICK e \in E : objs[e[1]] = p /\ x = pages[EntryPlace(fields, e)] BY <1>6, <2>1
    <3>3. d = e BY <1>3, <3>1, <3>2
    <3>4. QED BY <1>8, <3>1, <3>2, <3>3
  <2>2. QED BY <2>1
<1>9. ASSUME NEW x \in ToSet(pages) PROVE \E o \in H : x \in more[o]
  <2>1. PICK k \in 1 .. n : x = pages[k] BY <1>1 DEF ToSet
  <2>2. PICK e \in E : EntryPlace(fields, e) = k BY <1>5
  <2>3. QED BY <1>4, <1>6, <2>1, <2>2
<1>10. QED BY <1>7, <1>8, <1>9 DEF AreShares

\* A row that goes on has those pages too, and names none twice.
ListOnce(more, m) ==
  /\ DOMAIN more = 1 .. m /\ more = [i \in DOMAIN more |-> more[i]]
  /\ \A j, k \in 1 .. m : more[j] = more[k] => j = k

IsGrownRow(new, row, h, n, more, m) ==
  RowPages(new, h) = RowPages(row, h) \cup ToSet(more) /\ RowOnce(new, h)

LEMMA GrownPages ==
  ASSUME NEW row, NEW n \in Nat, Len(row) = n, NEW h \in Nat, h <= n, NEW m \in Nat,
         NEW more, ListOnce(more, m),
         RowOnce(row, h), RowPages(row, h) \cap ToSet(more) = {},
         NEW new, new = SubSeq(row, 1, n) \o more
  PROVE  IsGrownRow(new, row, h, n, more, m)
<1>1. /\ Len(new) = n + m /\ \A k \in 1 .. n : new[k] = row[k]
      /\ \A k \in 1 .. m : new[n + k] = more[k]
  <2>1. DOMAIN more = 1 .. m BY DEF ListOnce
  <2>2. more = [i \in DOMAIN more |-> more[i]] BY DEF ListOnce
  <2>3. IsGrown(SubSeq(row, 1, n) \o more, row, n, more, m)
    BY ONLY <2>1, <2>2, n \in Nat, m \in Nat, RowGrown
  <2>4. IsGrown(new, row, n, more, m) BY ONLY <2>3, new = SubSeq(row, 1, n) \o more
  <2>5. QED BY <2>4 DEF IsGrown
<1>2. ToSet(more) = {more[k] : k \in 1 .. m} BY DEF ToSet, ListOnce
<1>3. RowPages(row, h) = {row[k] : k \in h + 1 .. n} BY DEF RowPages, Between
<1>4. RowPages(new, h) = {new[k] : k \in h + 1 .. n + m} BY <1>1 DEF RowPages, Between
<1>5. \A k \in h + 1 .. n : k \in h + 1 .. n + m /\ new[k] = row[k] BY <1>1
<1>6. \A k \in 1 .. m : n + k \in h + 1 .. n + m /\ new[n + k] = more[k] BY <1>1
<1>7. \A k \in h + 1 .. n + m : \/ k \in h + 1 .. n /\ new[k] = row[k]
                                \/ k - n \in 1 .. m /\ new[k] = more[k - n] /\ k \notin h + 1 .. n
  <2>1. ASSUME NEW k \in h + 1 .. n + m, ~(k <= n)
        PROVE  k - n \in 1 .. m /\ new[k] = more[k - n] /\ k \notin h + 1 .. n
    <3>1. k - n \in 1 .. m /\ k = n + (k - n) /\ k \notin h + 1 .. n BY <2>1
    <3>2. new[n + (k - n)] = more[k - n] BY <1>1, <3>1
    <3>3. QED BY <3>1, <3>2
  <2>2. ASSUME NEW k \in h + 1 .. n + m, k <= n PROVE k \in h + 1 .. n BY <2>2
  <2>3. QED BY <1>5, <2>1, <2>2
<1>8. RowPages(new, h) = RowPages(row, h) \cup ToSet(more)
  <2>1. ASSUME NEW x \in RowPages(new, h) PROVE x \in RowPages(row, h) \cup ToSet(more)
    <3>1. PICK k \in h + 1 .. n + m : x = new[k] BY <1>4
    <3>2. CASE k \in h + 1 .. n /\ new[k] = row[k] BY <1>3, <3>1, <3>2
    <3>3. CASE k - n \in 1 .. m /\ new[k] = more[k - n] BY <1>2, <3>1, <3>3
    <3>4. QED BY <1>7, <3>2, <3>3
  <2>2. \A x \in RowPages(row, h) : x \in RowPages(new, h) BY <1>3, <1>4, <1>5
  <2>3. ASSUME NEW x \in ToSet(more) PROVE x \in RowPages(new, h)
    <3>1. PICK k \in 1 .. m : x = more[k] BY <1>2
    <3>2. PICK j : j = n + k OBVIOUS
    <3>3. j \in h + 1 .. n + m /\ new[j] = x BY <1>6, <3>1, <3>2
    <3>4. QED BY <1>4, <3>3
  <2>4. QED BY <2>1, <2>2, <2>3
<1>9. ASSUME NEW j \in h + 1 .. n + m, NEW k \in h + 1 .. n + m, new[j] = new[k] PROVE j = k
  <2>1. \A i \in h + 1 .. n : row[i] \in RowPages(row, h) BY <1>3
  <2>2. \A i \in 1 .. m : more[i] \in ToSet(more) BY <1>2
  <2>3. CASE j \in h + 1 .. n /\ k \in h + 1 .. n BY <1>5, <1>9, <2>3 DEF RowOnce, OnceBetween
  <2>4. CASE j \in h + 1 .. n /\ k \notin h + 1 .. n
    <3>1. row[j] = more[k - n] /\ k - n \in 1 .. m BY <1>7, <1>9, <2>4
    <3>2. QED BY <2>1, <2>2, <2>4, <3>1
  <2>5. CASE j \notin h + 1 .. n /\ k \in h + 1 .. n
    <3>1. row[k] = more[j - n] /\ j - n \in 1 .. m BY <1>7, <1>9, <2>5
    <3>2. QED BY <2>1, <2>2, <2>5, <3>1
  <2>6. CASE j \notin h + 1 .. n /\ k \notin h + 1 .. n
    <3>1. more[j - n] = more[k - n] /\ j - n \in 1 .. m /\ k - n \in 1 .. m BY <1>7, <1>9, <2>6
    <3>2. j - n = k - n BY <3>1 DEF ListOnce
    <3>3. QED BY <3>2
  <2>7. QED BY <2>3, <2>4, <2>5, <2>6
<1>10. RowOnce(new, h) BY <1>1, <1>9 DEF RowOnce, OnceBetween
<1>11. QED BY <1>8, <1>10 DEF IsGrownRow

\* The batch's requests take over the pages handed out.
LEMMA ForwardPages ==
  ASSUME IInv, IInv', SInv, XInv, LInv, HInv, CInv, PInv, Forward
  PROVE  PInv'
<1> DEFINE objs   == batch.reqs
           fields == Fields(objs)
<1>1. Newest' = Newest BY ForwardSlots
<1>2. PICK a \in Allocations(cm, NeededPages(fields)), s \in Samples(objs) :
        cm' = a.cm /\ page_table' = WriteRows(page_table, fields, a.pages) /\ Launched(s)
  BY DEF Forward, Launched
<1>3. \A o \in Newest : /\ o \in DOMAIN reqs /\ reqs[o].cached \in Nat /\ reqs[o].device \in Nat
                        /\ reqs[o].cached <= reqs[o].device
  <2>1. ASSUME NEW o \in Newest
        PROVE  /\ o \in DOMAIN reqs /\ reqs[o].cached \in Nat /\ reqs[o].device \in Nat
               /\ reqs[o].cached <= reqs[o].device
    <3>1. o \in DOMAIN reqs BY SlotsApart
    <3>2. reqs[o].cached \in Int /\ reqs[o].device \in Int /\ 0 <= reqs[o].cached /\ reqs[o].cached < reqs[o].device
      BY <3>1 DEF IInv, TypeOK, LInv, ObjectLengths
    <3>3. QED BY <3>1, <3>2
  <2>2. QED BY <2>1
<1>4. /\ Len(objs) \in Nat /\ DOMAIN objs = 1 .. Len(objs) /\ DOMAIN fields = DOMAIN objs
      /\ \A i \in DOMAIN objs : objs[i] \in Newest /\ fields[i] = reqs[objs[i]]
      /\ \A i, j \in DOMAIN objs : objs[i] = objs[j] => i = j
  <2>1. \A j \in DOMAIN batch.reqs : batch.reqs[j] \in ToSet(batch.reqs) BY ToSetElement
  <2>2. \A j \in DOMAIN objs : objs[j] \in Newest BY <2>1, NewerNewest DEF Newer
  <2>3. batch.reqs \in Seq(Objs) BY DEF IInv, TypeOK
  <2>4. ~Duplicated(batch.reqs) BY DEF IInv, Placement, BatchesPlaced
  <2>5. DOMAIN fields = DOMAIN objs /\ \A j \in DOMAIN objs : fields[j] = reqs[objs[j]] BY DEF Fields
  <2>6. QED BY <2>2, <2>3, <2>4, <2>5, LenProperties DEF Duplicated
<1>5. ASSUME NEW o \in Newest
      PROVE  NewPages(reqs[o]) \in Nat /\ CeilDiv(reqs[o].cached, PageSize) \in Nat
  <2>1. PICK x, y : x = reqs[o].cached /\ y = reqs[o].device OBVIOUS
  <2>2. x \in Nat /\ y \in Nat /\ x <= y BY <1>3, <2>1
  <2>3. CeilDiv(x, PageSize) \in Nat /\ CeilDiv(y, PageSize) \in Nat
        /\ CeilDiv(x, PageSize) <= CeilDiv(y, PageSize)
    BY <2>2, CeilDivFacts
  <2>4. NewPages(reqs[o]) = CeilDiv(y, PageSize) - CeilDiv(x, PageSize) BY <2>1 DEF NewPages
  <2>5. QED BY <2>1, <2>3, <2>4
<1> HIDE DEF fields
<1>6. PICK b, needed, c, d, pages :
        /\ b = fields /\ needed = NeededPages(fields) /\ c = cm /\ d = a.cm /\ pages = a.pages
  OBVIOUS
<1>7. IsPlaced(b, needed)
  <2>1. PICK n \in Nat : n = Len(objs) BY <1>4
  <2>2. DOMAIN b = 1 .. n BY <1>4, <1>6, <2>1
  <2>3. \A i \in 1 .. n : NewPages(b[i]) \in Nat BY <1>4, <1>5, <1>6, <2>1
  <2>4. IsPlaced(b, NeededPages(b)) BY ONLY <2>2, <2>3, n \in Nat, EntryPlaces
  <2>5. QED BY <1>6, <2>4
<1>8. Allotted(c, pages, needed, d, Newest, OwnPages)
  <2>1. c = [free |-> c.free, tree |-> c.tree, lazy |-> c.lazy] /\ IsTree(c.tree, Texts)
    BY <1>6 DEF CInv, TreeHolds
  <2>2. PICK H, own : H = Newest /\ own = OwnPages OBVIOUS
  <2>3. Shared(c, H, own) BY <1>6, <2>2 DEF PInv
  <2>4. needed \in Nat BY <1>7 DEF IsPlaced
  <2>5. a \in Allocations(c, needed) BY <1>6
  <2>6. Allotted(c, a.pages, needed, a.cm, H, own) BY ONLY <2>1, <2>3, <2>4, <2>5, AllocatedPages
  <2>7. QED BY <1>6, <2>2, <2>6
<1>9. PICK F, G, P, L, T : /\ F = ToSet(pages) \cup ToSet(d.free) /\ G = ToSet(d.free) /\ P = ToSet(pages)
                           /\ L = ToSet(d.lazy) /\ T = CachePages(d.tree)
  OBVIOUS
<1>10. /\ pages \in Seq(Pages) /\ IsInjective(pages) /\ Len(pages) = needed
       /\ d.free \in Seq(Pages) /\ IsInjective(d.free) /\ d.lazy = c.lazy /\ PageOnce(d.tree)
       /\ P \cap G = {} /\ F = P \cup G /\ Parted(F, L, T, Newest, OwnPages)
  BY <1>8, <1>9 DEF Allotted
<1>11. c.lazy \in Seq(Pages) /\ IsInjective(c.lazy) BY <1>6 DEF PInv, Shared
<1>12. PICK H, own, own1, more :
         /\ H = Newest /\ own = OwnPages /\ own1 = OwnPages'
         /\ more = [o \in H |-> {pages[EntryPlace(b, e)] : e \in {x \in NewEntries(b) : objs[x[1]] = o}}]
  OBVIOUS
<1>13. \A o \in H : more[o] = {pages[EntryPlace(b, e)] : e \in {x \in NewEntries(b) : objs[x[1]] = o}}
  BY <1>12
<1>14. /\ \A o \in H : more[o] \subseteq P
       /\ \A o, p \in H : o # p => more[o] \cap more[p] = {}
       /\ \A x \in P : \E o \in H : x \in more[o]
  <2>1. PICK u : u = objs OBVIOUS
  <2>2. DOMAIN u = DOMAIN b BY <1>4, <1>6, <2>1
  <2>3. \A i \in DOMAIN u : u[i] \in H BY <1>4, <1>12, <2>1
  <2>4. AreDealt(more, H, pages, u, b) BY <1>13, <2>1 DEF AreDealt
  <2>5. pages \in Seq(Pages) /\ IsInjective(pages) BY <1>10
  <2>51. IsPlaced(b, Len(pages)) BY <1>7, <1>10
  <2>6. AreShares(more, H, ToSet(pages))
    BY ONLY <2>2, <2>3, <2>4, <2>5, <2>51, DealtPages
  <2>7. QED BY <1>9, <2>6 DEF AreShares
<1>15. ASSUME NEW o \in Newest
       PROVE  /\ reqs'[o].handle = reqs[o].handle /\ reqs'[o].slot = reqs[o].slot
  <2>1. IsReq(reqs[o]) /\ o \in DOMAIN reqs BY <1>3 DEF IInv, Placement, ObjectsPlaced
  <2>2. reqs'[o] = IF o \in ToSet(objs) THEN Completed(reqs[o]) ELSE reqs[o]
    BY <1>2, <2>1 DEF Launched
  <2>3. Completed(reqs[o]).handle = reqs[o].handle /\ Completed(reqs[o]).slot = reqs[o].slot
    BY <2>1 DEF IsReq, ReqFields, Completed
  <2>4. QED BY <2>2, <2>3
<1>16. ASSUME NEW o \in Newest
       PROVE  /\ own1[o] = own[o] \cup more[o]
              /\ RowOnce(page_table'[reqs'[o].slot], Len(reqs'[o].handle))
              /\ CacheType = "naive" => reqs'[o].handle = <<>>
  <2> DEFINE r == reqs[o]  row == page_table[r.slot]  new == page_table'[r.slot]  h == Len(r.handle)
  <2>1. /\ own[o] = RowPages(row, h) /\ RowPages(row, h) \subseteq Pages /\ RowOnce(row, h)
        /\ CacheType = "naive" => reqs[o].handle = <<>>
    BY <1>12, OwnRow
  <2>2. own1[o] = RowPages(new, h) BY <1>1, <1>12, <1>15 DEF OwnPages
  <2>3. RowPages(new, h) = RowPages(row, h) \cup more[o] /\ RowOnce(new, h)
    <3>1. CASE o \notin ToSet(objs)
      <4>1. new = row BY <1>2, <3>1, WrittenRow DEF LInv, fields
      <4>2. more[o] = {}
        <5>1. \A x \in NewEntries(b) : x[1] \in DOMAIN b BY EntriesOf
        <5>2. \A i \in DOMAIN b : objs[i] # o BY <1>4, <1>6, <3>1, ToSetElement
        <5>3. QED BY <1>12, <1>13, <5>1, <5>2
      <4>3. QED BY <2>1, <4>1, <4>2
    <3>2. CASE o \in ToSet(objs)
      <4>1. PICK j, ext :
              /\ j \in DOMAIN objs /\ objs[j] = o
              /\ DOMAIN ext = 1 .. NewPages(r) /\ ext = [k \in DOMAIN ext |-> ext[k]]
              /\ \A k \in DOMAIN ext : ext[k] = pages[EntryPlace(b, <<j, k>>)]
              /\ new = SubSeq(row, 1, CeilDiv(r.cached, PageSize)) \o ext
        <5>1. page_table' = WriteRows(page_table, Fields(batch.reqs), pages) BY <1>2, <1>6 DEF fields
        <5>2. RowLengths BY DEF LInv
        <5>3. o \in ToSet(batch.reqs) =>
                IsWritten(page_table'[reqs[o].slot], page_table[reqs[o].slot], reqs[o],
                          batch.reqs, o, Fields(batch.reqs), pages)
          BY ONLY <5>1, <5>2, IInv, XInv, o \in Newest, WrittenRow
        <5>4. b = Fields(batch.reqs) BY <1>6 DEF fields
        <5>5. IsWritten(new, row, r, objs, o, b, pages) BY ONLY <3>2, <5>3, <5>4
        <5> HIDE DEF new, row, r, objs
        <5>6. QED BY <5>5 DEF IsWritten
      <4>2. PICK n, m : n = CeilDiv(r.cached, PageSize) /\ m = NewPages(r) OBVIOUS
      <4>3. n \in Nat BY <1>5, <4>2
      <4>31. m \in Nat BY <1>5, <4>2
      <4>4. Len(row) = n /\ h \in Nat /\ h <= n
        <5>1. RowHolds(r, row, cm.tree) BY DEF CInv
        <5>2. IsTree(cm.tree, Texts) /\ r.handle \in Nodes(cm.tree) \cup {<<>>}
          BY LocksRead DEF CInv, TreeHolds
        <5>3. h \in Nat BY <5>2, HandlePaths
        <5>4. Len(row) = n /\ h * PageSize <= r.cached BY <4>2, <5>1 DEF RowHolds
        <5>5. PICK x : x = r.cached OBVIOUS
        <5>6. x \in Nat BY <1>3, <5>5
        <5> HIDE DEF r, h, row
        <5>7. PageSize \in Nat \ {0} BY PagesAssumption
        <5>8. h * PageSize \in Nat BY <5>3, <5>7
        <5>9. CeilDiv(h * PageSize, PageSize) = h BY <5>3, WholePages
        <5>10. h <= n BY <4>2, <5>4, <5>5, <5>6, <5>8, <5>9, CeilDivFacts
        <5>11. QED BY <5>3, <5>4, <5>10
      <4>5. \A k \in 1 .. m : /\ <<j, k>> \in NewEntries(b) /\ ext[k] = pages[EntryPlace(b, <<j, k>>)]
                              /\ EntryPlace(b, <<j, k>>) \in DOMAIN pages
        <5>1. j \in DOMAIN b /\ b[j] = r BY <1>4, <1>6, <4>1
        <5>2. \A k \in 1 .. m : <<j, k>> \in NewEntries(b) BY <4>2, <5>1, EntriesOf
        <5>3. DOMAIN pages = 1 .. needed BY <1>10, LenProperties
        <5>4. QED BY <1>7, <4>1, <4>2, <5>2, <5>3 DEF IsPlaced
      <4>6. ToSet(ext) = more[o]
        <5>1. \A x \in NewEntries(b) : objs[x[1]] = o => /\ x = <<j, x[2]>> /\ x[2] \in 1 .. m
          <6>1. ASSUME NEW x \in NewEntries(b), objs[x[1]] = o PROVE x = <<j, x[2]>> /\ x[2] \in 1 .. m
            <7>1. x = <<x[1], x[2]>> /\ x[1] \in DOMAIN b /\ x[2] \in 1 .. NewPages(b[x[1]]) BY EntriesOf
            <7>2. x[1] = j BY <1>4, <1>6, <4>1, <6>1, <7>1
            <7>3. b[j] = r BY <1>4, <1>6, <4>1
            <7>4. QED BY <4>2, <7>1, <7>2, <7>3
          <6>2. QED BY <6>1
        <5>2. ToSet(ext) = {ext[k] : k \in 1 .. m} BY <4>1, <4>2 DEF ToSet
        <5> HIDE DEF r, objs
        <5>3. \A x : x \in more[o] <=> \E e \in NewEntries(b) : objs[e[1]] = o /\ x = pages[EntryPlace(b, e)]
          BY <1>12, <1>13
        <5>4. \A x \in more[o] : x \in ToSet(ext)
          <6>1. ASSUME NEW x \in more[o] PROVE x \in ToSet(ext)
            <7>1. PICK e \in NewEntries(b) : objs[e[1]] = o /\ x = pages[EntryPlace(b, e)] BY <5>3
            <7>2. e = <<j, e[2]>> /\ e[2] \in 1 .. m BY <5>1, <7>1
            <7>3. PICK k \in 1 .. m : k = e[2] BY <7>2
            <7>4. x = ext[k] BY <4>5, <7>1, <7>2, <7>3
            <7>5. QED BY <5>2, <7>4
          <6>2. QED BY <6>1
        <5>5. \A k \in 1 .. m : ext[k] \in more[o]
          <6>1. \A k \in 1 .. m : <<j, k>>[1] = j OBVIOUS
          <6>2. QED BY <4>1, <4>5, <5>3, <6>1
        <5>6. QED BY <5>2, <5>4, <5>5
      <4>7. \A i, k \in 1 .. m : ext[i] = ext[k] => i = k
        <5>1. ASSUME NEW i \in 1 .. m, NEW k \in 1 .. m, ext[i] = ext[k] PROVE i = k
          <6>1. EntryPlace(b, <<j, i>>) = EntryPlace(b, <<j, k>>) BY <1>10, <4>5, <5>1 DEF IsInjective
          <6>2. <<j, i>> = <<j, k>> BY <1>7, <4>5, <6>1 DEF IsPlaced
          <6>3. QED BY <6>2
        <5>2. QED BY <5>1
      <4>8. RowPages(row, h) \cap ToSet(ext) = {}
        <5>1. own[o] \cap F = {} BY <1>10, <1>12 DEF Parted
        <5>2. more[o] \subseteq F BY <1>10, <1>12, <1>14
        <5>3. QED BY <2>1, <4>6, <5>1, <5>2
      <4>9. DOMAIN ext = 1 .. m BY <4>1, <4>2
      <4>91. ListOnce(ext, m) BY <4>1, <4>7, <4>9 DEF ListOnce
      <4>10. new = SubSeq(row, 1, n) \o ext BY <4>1, <4>2
      <4>11. RowOnce(row, h) BY <2>1
      <4> HIDE DEF r, row, new, h
      <4>12. PICK x, y, z : x = row /\ y = h /\ z = new OBVIOUS
      <4>13. Len(x) = n BY <4>4, <4>12
      <4>131. y \in Nat BY <4>4, <4>12
      <4>132. y <= n BY <4>4, <4>12
      <4>14. RowOnce(x, y) BY <4>11, <4>12
      <4>141. RowPages(x, y) \cap ToSet(ext) = {} BY <4>8, <4>12
      <4>15. z = SubSeq(x, 1, n) \o ext BY <4>10, <4>12
      <4>16. IsGrownRow(z, x, y, n, ext, m)
        BY ONLY <4>3, <4>31, <4>91, <4>13, <4>131, <4>132, <4>14, <4>141, <4>15, GrownPages
      <4>17. QED BY <4>6, <4>12, <4>16 DEF IsGrownRow
    <3>3. QED BY <3>1, <3>2
  <2>4. QED BY <1>15, <2>1, <2>2, <2>3
<1>17. Parted(G, L, T, H, own1)
  <2>1. Parted(F, L, T, H, own) BY <1>10, <1>12
  <2>2. G \subseteq F /\ F \ G = P BY <1>10
  <2>3. \A o \in H : more[o] \subseteq F \ G BY <1>14, <2>2
  <2>4. \A p \in F \ G : \E o \in H : p \in more[o] BY <1>14, <2>2
  <2>5. \A o, p \in H : o # p => more[o] \cap more[p] = {} BY <1>14
  <2>6. \A o \in H : own1[o] = own[o] \cup more[o] BY <1>12, <1>16
  <2>7. G \subseteq F BY <2>2
  <2>8. QED BY ONLY <2>1, <2>3, <2>4, <2>5, <2>6, <2>7, PartsDealt
<1>18. Shared(d, H, own1) BY <1>9, <1>10, <1>11, <1>17 DEF Shared
<1>19. QED BY <1>1, <1>2, <1>6, <1>12, <1>16, <1>18 DEF PInv

-----------------------------------------------------------------------------
(* Steps.                                                                  *)

\* An abort of a request that is not on the device releases it.
LEMMA AbortNowCache ==
  ASSUME IInv, IInv', XInv, LInv, HInv, CInv, PInv, NEW u \in Uids, AbortNow(u)
  PROVE  CInv' /\ PInv'
<1>1. PICK c \in AbortTarget(u) \ DOMAIN inflight :
        FreeReqResources(c, reqs[c], FALSE) /\ reqs' = Restrict(reqs, DOMAIN reqs \ {c})
  BY DEF AbortNow
<1>2. c \in Newest /\ Newest' = Newest \ {c} BY <1>1, AbortNowSlots
<1>3. reqs[c].cached \in Nat /\ reqs[c].host \in Texts /\ reqs[c].cached <= Len(reqs[c].host)
  <2>1. Flying(c) = 0 BY <1>1, FlyingCounts DEF IInv
  <2>2. QED BY <2>1, <1>2, CachedKnown
<1>4. \A o \in Newest' : reqs'[o] = reqs[o]
  <2>1. \A o \in Newest' : o \in DOMAIN reqs /\ o # c BY <1>2, SlotsApart
  <2>2. QED BY <2>1, <1>1 DEF Restrict
<1>5. CInv' BY <1>1, <1>2, <1>3, <1>4, ReleasedCache
<1>6. PInv'
  <2>1. PICK r : r = reqs[c] OBVIOUS
  <2>2. /\ r.handle = reqs[c].handle /\ r.slot = reqs[c].slot /\ r.cached = reqs[c].cached
        /\ r.host \in Texts /\ r.cached \in Nat /\ r.cached <= Len(r.host)
        /\ Len(reqs[c].host) <= Len(r.host) /\ \A i \in 1 .. Len(reqs[c].host) : r.host[i] = reqs[c].host[i]
    BY <1>3, <2>1, LenProperties DEF Texts
  <2>3. FreeReqResources(c, r, FALSE) BY <1>1, <2>1
  <2>4. QED BY <1>2, <1>4, <2>2, <2>3, ReleasedPages
<1>7. QED BY <1>5, <1>6

\* A request that arrives or is marked to be released changes no page.
LEMMA ReceiveCache ==
  ASSUME IInv, IInv', XInv, LInv, HInv, CInv, PInv, Receive
  PROVE  CInv' /\ PInv'
<1>0. cm = [free |-> cm.free, tree |-> cm.tree, lazy |-> cm.lazy] BY DEF CInv, TreeHolds
<1>1. PICK u \in Uids : ReceiveAbort(u) \/ \E w \in Workload : ReceiveUser(u, w) BY DEF Receive
<1>2. CASE AbortNow(u) BY <1>2, AbortNowCache
<1>3. CASE AbortNothing(u) \/ AbortInflight(u)
  <2>1. Holders' = Holders BY <1>3, AbortLaterSlots
  <2>2. UNCHANGED <<reqs, cm, page_table>> BY <1>3 DEF AbortNothing, AbortInflight, memory
  <2>3. Newest' = Newest BY <2>1 DEF Newest
  <2>4. QED BY <1>0, <2>2, <2>3, QuietCache, QuietPages
<1>4. CASE \E w \in Workload : ReceiveUser(u, w)
  <2>1. Holders' = Holders BY <1>4, ReceiveUserSlots
  <2>2. UNCHANGED <<reqs, cm, page_table>> BY <1>4 DEF ReceiveUser, memory
  <2>3. Newest' = Newest BY <2>1 DEF Newest
  <2>4. QED BY <1>0, <2>2, <2>3, QuietCache, QuietPages
<1>5. QED BY <1>1, <1>2, <1>3, <1>4 DEF ReceiveAbort

LEMMA ProcessCache ==
  ASSUME IInv, IInv', SInv, XInv, LInv, HInv, CInv, PInv,
         ProcessTerminal \/ ProcessChunk \/ ProcessToken
  PROVE  CInv' /\ PInv'
<1>0. PICK c : c = Current OBVIOUS
<1>1. TakeResult /\ UNCHANGED last BY DEF ProcessTerminal, ProcessChunk, ProcessToken
<1>2. /\ c \in DOMAIN inflight /\ c \in DOMAIN reqs /\ Flying(c) \in Nat \ {0}
      /\ inflight[c] = 1 => c \notin DOMAIN inflight'
      /\ 1 \in DOMAIN proc.reqs /\ Head(proc.tokens) = proc.tokens[1]
  BY <1>0, <1>1, ResultLands
<1>3. \/ /\ free_table' = Append(free_table, reqs[c].slot)
         /\ c \in Newest /\ Newest' = Newest \ {c}
      \/ free_table' = free_table /\ Newest' = Newest
  BY <1>0, ProcessSlots
<1>4. reqs[c].slot \in Slots /\ free_table # Append(free_table, reqs[c].slot)
  <2>1. free_table \in Seq(Slots) /\ reqs[c].slot \in Slots BY <1>2 DEF IInv, TypeOK
  <2>2. Len(Append(free_table, reqs[c].slot)) = Len(free_table) + 1 /\ Len(free_table) \in Nat
    BY <2>1, AppendElements, LenProperties
  <2>3. QED BY <2>1, <2>2
<1>5. cm = [free |-> cm.free, tree |-> cm.tree, lazy |-> cm.lazy] BY DEF CInv, TreeHolds
<1>6. Flying(c) <= 2
  <2>1. inflight[c] \in {1, 2} BY <1>2 DEF IInv, TypeOK
  <2>2. QED BY <2>1, <1>2 DEF Flying
<1>7. CASE ProcessTerminal
  <2>1. c \in terminal /\ reqs' = reqs /\ ReleaseIfLanded(terminal, reqs[c])
    BY <1>0, <1>7 DEF ProcessTerminal, Discarded
  <2>2. inflight[c] = 1 /\ c \notin DOMAIN inflight' BY <1>2, <2>1 DEF HInv, TerminalOnce
  <2>3. FreeReqResources(c, reqs[c], TRUE) BY <1>0, <2>1, <2>2 DEF ReleaseIfLanded
  <2>4. c \in Newest /\ Newest' = Newest \ {c} BY <1>3, <1>4, <2>3 DEF FreeReqResources
  <2>5. Flying(c) = 1 BY <1>2, <2>2 DEF Flying
  <2>6. reqs[c].cached \in Nat /\ reqs[c].host \in Texts /\ reqs[c].cached <= Len(reqs[c].host)
    <3>1. /\ reqs[c].cached \in Nat /\ reqs[c].host \in Texts /\ Len(reqs[c].host) \in Nat
          /\ reqs[c].cached < Len(reqs[c].host) + Flying(c) \/ reqs[c].cached <= Len(reqs[c].host)
      BY <2>4, CachedKnown
    <3>2. QED BY <3>1, <2>5
  <2>7. CInv' BY <2>1, <2>3, <2>4, <2>6, ReleasedCache
  <2>8. PICK r : r = reqs[c] OBVIOUS
  <2>9. /\ r.handle = reqs[c].handle /\ r.slot = reqs[c].slot /\ r.cached = reqs[c].cached
        /\ r.host \in Texts /\ r.cached \in Nat /\ r.cached <= Len(r.host)
        /\ Len(reqs[c].host) <= Len(r.host) /\ \A i \in 1 .. Len(reqs[c].host) : r.host[i] = reqs[c].host[i]
    BY <2>6, <2>8, LenProperties DEF Texts
  <2>10. FreeReqResources(c, r, TRUE) /\ \A o \in Newest' : reqs'[o] = reqs[o] BY <2>1, <2>3, <2>8
  <2>11. PInv' BY <2>4, <2>9, <2>10, ReleasedPages
  <2>12. QED BY <2>7, <2>11
<1>8. CASE ProcessChunk
  <2>1. UNCHANGED <<reqs, cm, page_table, free_table>> BY <1>8 DEF ProcessChunk, memory
  <2>2. Newest' = Newest BY <2>1, <1>3, <1>4
  <2>3. QED BY <2>1, <2>2, <1>5, QuietCache, QuietPages
<1>9. CASE ProcessToken
  <2> DEFINE token == Head(proc.tokens)
             r     == [reqs[c] EXCEPT !.host = Append(@, token)]
             kept  == KeepCached(cm, r, page_table[r.slot])
  <2>1. token \in Tokens \cup {None}
    <3>1. proc.tokens \in Seq(Tokens \cup {None}) /\ Len(proc.tokens) = Len(proc.reqs)
      BY DEF SInv, ResultsTyped
    <3>2. 1 \in 1 .. Len(proc.tokens)
      <4>1. DOMAIN proc.reqs = 1 .. Len(proc.reqs) BY LenProperties DEF IInv, TypeOK
      <4>2. QED BY <4>1, <3>1, <1>2
    <3>3. QED BY <3>1, <3>2, <1>2, ElementOfSeq
  <2>2. reqs[c].class = "Req" /\ \A o \in DOMAIN reqs : o # c => reqs'[o] = reqs[o]
    BY <1>0, <1>9, TokenEffects
  <2>3. c \in Newest
    <3>1. c \in Holders BY <1>2 DEF Holders, Referenced
    <3>2. QED BY <3>1, <2>2, NewerNewest
  <2>4. /\ reqs[c].cached \in Nat /\ reqs[c].host \in Texts /\ Len(reqs[c].host) \in Nat
        /\ reqs[c].cached < Len(reqs[c].host) + Flying(c) \/ reqs[c].cached <= Len(reqs[c].host)
    BY <2>3, CachedKnown
  <2>5. \/ UNCHANGED <<free_table, cm, page_table>> /\ reqs' = [reqs EXCEPT ![c] = r]
        \/ FreeReqResources(c, r, TRUE) /\ reqs' = [reqs EXCEPT ![c] = r]
        \/ /\ cm' = kept.cm /\ page_table' = [page_table EXCEPT ![r.slot] = kept.row]
           /\ reqs' = [reqs EXCEPT ![c] = [r EXCEPT !.handle = kept.handle]]
           /\ UNCHANGED free_table
    BY <1>0, <1>9 DEF ProcessToken, ReleaseIfLanded
  <2> HIDE DEF token
  <2>6. /\ r.handle = reqs[c].handle /\ r.slot = reqs[c].slot /\ r.cached = reqs[c].cached
        /\ r.host \in Texts /\ Len(r.host) = Len(reqs[c].host) + 1
        /\ \A i \in 1 .. Len(reqs[c].host) : r.host[i] = reqs[c].host[i]
        /\ \A h : [r EXCEPT !.handle = h].handle = h
        /\ \A h : /\ [r EXCEPT !.handle = h].slot = r.slot
                  /\ [r EXCEPT !.handle = h].cached = r.cached
                  /\ [r EXCEPT !.handle = h].host = r.host
    BY <1>2, <2>1, <2>4, TokenRead
  <2> HIDE DEF r
  <2>7. r.cached \in Nat /\ r.cached <= Len(r.host) /\ Len(reqs[c].host) <= Len(r.host)
    BY <2>4, <2>6, <1>2, <1>6
  <2>8. CASE UNCHANGED <<free_table, cm, page_table>> /\ reqs' = [reqs EXCEPT ![c] = r]
    <3>1. Newest' = Newest BY <2>8, <1>3, <1>4
    <3>2. reqs'[c] = r BY <2>8, <1>2
    <3>3. ASSUME NEW o \in Newest'
          PROVE  /\ reqs'[o].handle = reqs[o].handle /\ reqs'[o].cached = reqs[o].cached
                 /\ reqs'[o].slot = reqs[o].slot
                 /\ page_table'[reqs[o].slot] = page_table[reqs[o].slot]
                 /\ Grows(reqs[o].host, reqs'[o].host)
      <4>1. CASE o = c BY <4>1, <3>2, <2>6, <2>7, <2>8 DEF Grows
      <4>2. CASE o # c
        <5>1. o \in DOMAIN reqs BY <3>1, SlotsApart
        <5>2. reqs'[o] = reqs[o] BY <5>1, <4>2, <2>2
        <5>3. QED BY <5>2, <2>8 DEF Grows
      <4>3. QED BY <4>1, <4>2
    <3>4. IsTree(cm'.tree, Texts) /\ Locks(cm'.tree, Newest', Handles) /\ Newest' \subseteq Newest
      BY <2>8, <3>1 DEF CInv, TreeHolds
    <3>5. cm' = [free |-> cm'.free, tree |-> cm'.tree, lazy |-> cm'.lazy]
          /\ \A p \in CachedPaths(cm.tree) : p \in CachedPaths(cm'.tree) => cm'.tree.page[p] = cm.tree.page[p]
      BY <2>8, <1>5
    <3>6. CInv' BY <3>3, <3>4, <3>5, CacheKept
    <3>7. PInv' BY <3>1, <3>3, <2>8, QuietPages
    <3>8. QED BY <3>6, <3>7
  <2>9. CASE FreeReqResources(c, r, TRUE) /\ reqs' = [reqs EXCEPT ![c] = r]
    <3>1. Newest' = Newest \ {c} BY <2>9, <1>3, <1>4, <2>6 DEF FreeReqResources
    <3>2. \A o \in Newest' : reqs'[o] = reqs[o]
      <4>1. \A o \in Newest' : o \in DOMAIN reqs /\ o # c BY <3>1, SlotsApart
      <4>2. QED BY <4>1, <2>2
    <3>3. CInv' BY <2>3, <2>6, <2>7, <2>9, <3>1, <3>2, ReleasedCache
    <3>4. PInv' BY <2>3, <2>6, <2>7, <2>9, <3>1, <3>2, ReleasedPages
    <3>5. QED BY <3>3, <3>4
  <2>10. CASE /\ cm' = kept.cm /\ page_table' = [page_table EXCEPT ![r.slot] = kept.row]
              /\ reqs' = [reqs EXCEPT ![c] = [r EXCEPT !.handle = kept.handle]]
              /\ UNCHANGED free_table
    <3>1. Newest' = Newest BY <2>10, <1>3, <1>4
    <3>2. \A o \in Newest \ {c} : reqs'[o] = reqs[o]
      <4>1. \A o \in Newest : o \in DOMAIN reqs BY SlotsApart
      <4>2. QED BY <4>1, <2>2
    <3>3. reqs'[c] = [r EXCEPT !.handle = kept.handle] BY <2>10, <1>2
    <3>4. PICK h : h = kept.handle OBVIOUS
    <3>5. /\ reqs'[c].handle = h /\ reqs'[c].slot = r.slot /\ reqs'[c].cached = r.cached
          /\ reqs'[c].host = r.host
      BY <3>3, <3>4, <2>6
    <3>6. CInv' BY <2>3, <2>6, <2>7, <2>10, <3>1, <3>2, <3>4, <3>5, KeptCache
    <3>7. PInv' BY <2>3, <2>6, <2>7, <2>10, <3>1, <3>2, <3>4, <3>5, KeptPages
    <3>8. QED BY <3>6, <3>7
  <2>11. QED BY <2>5, <2>8, <2>9, <2>10
<1>10. QED BY <1>7, <1>8, <1>9

\* The next chunk of a prompt takes over the handle and the row.
LEMMA AdmitChunkCache ==
  ASSUME IInv, IInv', XInv, LInv, HInv, CInv, PInv, AdmitChunk
  PROVE  CInv' /\ PInv'
<1> DEFINE q    == Candidate
           c    == q.chunk
           r    == reqs[c]
           id   == <<q.uid, c[2] + 1>>
           row  == SubSeq(token_pool[r.slot], 1, r.cached)
           t    == cm.tree
<1>1. /\ pc = "admit" /\ HasCandidate /\ c # None /\ UNCHANGED <<cm, page_table>>
      /\ AddOneReq(q, id, r.slot, r.handle, r.cached, row)
  BY DEF AdmitChunk
<1>2. /\ q \in PendingType /\ (\E k \in DOMAIN pending : q = pending[k]) /\ batch.reqs = <<>>
      /\ \A o \in ToSet(adder.reqs) : o[1] # q.uid
      /\ c \in DOMAIN reqs /\ c[1] = q.uid /\ r.class = "ChunkedReq"
  BY <1>1, CandidateAlone
<1>3. /\ c \in Newest /\ id \notin Newest /\ Newest' = (Newest \ {c}) \cup {id}
      /\ \A o \in Holders : reqs'[o] = reqs[o]
  BY AdmitChunkSlots
<1>4. c[2] + 1 \in Nat
  <2>1. c \in Objs BY <1>2 DEF IInv, TypeOK
  <2>2. QED BY <2>1 DEF Objs
<1>5. c \notin Handed BY <1>2, EmptyFacts DEF Handed
<1>6. r.host \in Texts /\ Len(r.host) = r.cached /\ \A i \in 1 .. Len(r.host) : r.host[i] = q.ids[i]
  <2>1. Stored(c) BY <1>3 DEF HInv
  <2>2. Cut(q) BY <1>1, <1>2 DEF HInv, QueuePrefixes
  <2>3. QED BY <1>2, <1>5, <2>1, <2>2 DEF Stored, Cut
<1>7. r.cached \in Nat /\ r.cached < Len(q.ids)
  <2>1. r.cached \in Nat BY <1>6, LenProperties DEF Texts
  <2>2. r.cached < Len(q.ids) BY <1>1, <1>2, EmptyFacts DEF LInv, QueueLengths
  <2>3. QED BY <2>1, <2>2
<1>8. PICK chunk \in Nat \ {0}, class \in {"Req", "ChunkedReq"} :
        Made(q, id, r.slot, r.handle, r.cached, row, chunk, class)
  <2> HIDE DEF row, r
  <2>1. QED BY <1>1, <1>4, <1>7, AddedObject
<1>9. PICK r1 : r1 = reqs'[id] OBVIOUS
<1>10. /\ r1.slot = r.slot /\ r1.handle = r.handle /\ r1.cached = r.cached
       /\ r1.host \in Texts /\ Len(r1.host) = r.cached + chunk
       /\ \A i \in 1 .. r.cached + chunk : r1.host[i] = q.ids[i]
  <2>1. chunk \in Nat /\ q \in PendingType /\ r.cached \in Nat BY <1>2, <1>7
  <2> HIDE DEF row, r, q, id
  <2>2. IsMade(reqs'[id], q, r.slot, r.handle, r.cached, chunk) BY ONLY <2>1, <1>8, MadeHost
  <2>3. QED BY <2>2, <1>9 DEF IsMade
<1>11. IsTree(t, Texts) /\ Locks(t, Newest, Handles) /\ IsFiniteSet(Newest)
       /\ cm = [free |-> cm.free, tree |-> t, lazy |-> cm.lazy]
  BY NewestFinite DEF CInv, TreeHolds
<1>12. TreeHolds'
  <2>1. PICK h1 : h1 = Handles' OBVIOUS
  <2>2. h1[id] = Handles[c] /\ \A o \in Newest \ {c} : h1[o] = Handles[o]
    <3>1. Newest \subseteq Holders BY DEF Newest
    <3>2. QED BY <2>1, <3>1, <1>3, <1>9, <1>10 DEF Handles
  <2>3. PICK d : d = id OBVIOUS
  <2>4. d \notin Newest /\ h1[d] = Handles[c] BY <2>2, <2>3, <1>3
  <2>5. Locks(t, (Newest \ {c}) \cup {d}, h1) BY ONLY <1>3, <1>11, <2>2, <2>4, LocksRenamed
  <2>6. Locks(cm'.tree, Newest', Handles') BY <2>1, <2>3, <2>5, <1>1, <1>3
  <2>7. QED BY <2>6, <1>1, <1>11 DEF TreeHolds
<1>13. ASSUME NEW o \in Newest' PROVE RowHolds(reqs'[o], page_table'[reqs'[o].slot], cm'.tree)
  <2>1. CASE o = id
    <3> DEFINE line == page_table[r.slot]
    <3>1. RowHolds(r, line, t) BY <1>3 DEF CInv
    <3>2. r.handle \in Nodes(t) \cup {<<>>} BY <1>3, <1>11, LocksRead
    <3>3. Len(r.host) <= Len(r1.host) BY <1>6, <1>7, <1>10
    <3>4. \A i \in 1 .. Len(r.host) : r1.host[i] = r.host[i]
      <4>1. \A i \in 1 .. Len(r.host) : i \in 1 .. r.cached + chunk BY <1>6, <1>7
      <4>2. QED BY <4>1, <1>6, <1>10
    <3>5. \A p \in CachedPaths(t) : p \in CachedPaths(t) => t.page[p] = t.page[p] OBVIOUS
    <3> HIDE DEF r, line, t
    <3>6. RowHolds(r1, line, t) BY ONLY <1>6, <1>10, <1>11, <3>1, <3>2, <3>3, <3>4, <3>5, RowKept
    <3>7. QED BY <3>6, <2>1, <1>1, <1>9, <1>10 DEF line, t
  <2>2. CASE o # id
    <3>1. o \in Newest BY <2>2, <1>3
    <3>2. reqs'[o] = reqs[o] BY <3>1, <1>3 DEF Newest
    <3>3. QED BY <3>1, <3>2, <1>1 DEF CInv
  <2>3. QED BY <2>1, <2>2
<1>14. PInv'
  <2>1. PICK b, d : b = c /\ d = id OBVIOUS
  <2>2. b \in Newest /\ d \notin Newest /\ Newest' = (Newest \ {b}) \cup {d} BY <1>3, <2>1
  <2>3. \A o \in Newest : reqs'[o] = reqs[o] BY <1>3 DEF Newest
  <2>4. reqs'[d].slot = reqs[b].slot /\ reqs'[d].handle = reqs[b].handle BY <1>9, <1>10, <2>1
  <2>5. UNCHANGED <<cm, page_table>> BY <1>1
  <2> HIDE DEF c, id
  <2>6. QED BY <2>2, <2>3, <2>4, <2>5, AdmitChunkPages
<1>15. QED BY <1>12, <1>13, <1>14 DEF CInv

\* The match of the queue's candidate locks its prefix.
LEMMA AdmitNewCache ==
  ASSUME IInv, IInv', XInv, LInv, HInv, CInv, PInv, AdmitNew
  PROVE  CInv' /\ PInv'
<1> DEFINE q      == Candidate
           id     == <<q.uid, 0>>
           m      == MatchReq(cm, q.ids)
           cached == Len(m.node) * PageSize
           slot   == free_table[Len(free_table)]
           row    == SubSeq(q.ids, 1, cached)
           line   == [i \in 1 .. Len(m.node) |-> m.tree.page[SubSeq(m.node, 1, i)]]
           t      == cm.tree
           t1     == LockPath(m.tree, m.node)
<1>1. /\ pc = "admit" /\ HasCandidate /\ free_table # <<>>
      /\ cm' = [cm EXCEPT !.tree = t1] /\ page_table' = [page_table EXCEPT ![slot] = line]
      /\ AddOneReq(q, id, slot, m.node, cached, row)
  BY DEF AdmitNew
<1>2. q \in PendingType /\ q.ids \in Seq(Tokens) \ {<<>>}
  <2>1. q \in PendingType BY <1>1, CandidateAlone
  <2>2. QED BY <2>1 DEF PendingType
<1>3. /\ \A o \in Holders : reqs[o].slot # slot /\ reqs'[o] = reqs[o]
      /\ id \notin Newest /\ Newest' = Newest \cup {id}
  BY AdmitNewSlots
<1>4. slot \in Slots /\ DOMAIN page_table = Slots
  <2>1. free_table \in Seq(Slots) BY DEF IInv, TypeOK
  <2>2. Len(free_table) \in Nat \ {0} BY <1>1, <2>1, EmptySeq
  <2>3. slot \in Slots BY <2>1, <2>2, ElementOfSeq
  <2>4. QED BY <2>3 DEF LInv, RowLengths
<1>5. cached \in Nat /\ cached < Len(q.ids) BY <1>2, MatchLength
<1>6. IsTree(t, Texts) /\ Locks(t, Newest, Handles) /\ IsFiniteSet(Newest)
      /\ cm = [free |-> cm.free, tree |-> t, lazy |-> cm.lazy]
  BY NewestFinite DEF CInv, TreeHolds
<1>7. Matched(t, q.ids, m) BY <1>2, <1>6, MatchedTree
<1>0. CacheType = "naive" => m.node = <<>> BY DEF MatchReq, MatchPrefix
<1> HIDE DEF m
<1>8. PICK chunk \in Nat \ {0}, class \in {"Req", "ChunkedReq"} :
        Made(q, id, slot, m.node, cached, row, chunk, class)
  <2>1. 0 \in Nat OBVIOUS
  <2> HIDE DEF row, cached, slot
  <2>2. QED BY <1>1, <1>5, <2>1, AddedObject
<1>9. PICK r1 : r1 = reqs'[id] OBVIOUS
<1>10. /\ r1.slot = slot /\ r1.handle = m.node /\ r1.cached = cached
       /\ r1.host \in Texts /\ Len(r1.host) = cached + chunk
       /\ \A i \in 1 .. cached + chunk : r1.host[i] = q.ids[i]
  <2>1. chunk \in Nat /\ q \in PendingType /\ cached \in Nat BY <1>2, <1>5, <1>8
  <2>2. PICK n : n = m.node OBVIOUS
  <2> HIDE DEF row, cached, slot, q, id
  <2>3. Made(q, id, slot, n, cached, row, chunk, class) BY <1>8, <2>2
  <2>4. IsMade(reqs'[id], q, slot, n, cached, chunk) BY ONLY <2>1, <2>3, MadeHost
  <2>5. QED BY <2>2, <2>4, <1>9 DEF IsMade
<1>11. PICK h1 : h1 = Handles' OBVIOUS
<1>12. h1[id] = m.node /\ \A o \in Newest : h1[o] = Handles[o]
  <2>1. Newest \subseteq Holders BY DEF Newest
  <2>2. QED BY <2>1, <1>3, <1>9, <1>10, <1>11 DEF Handles
<1>13. Taken(Texts, m.tree, Newest, h1, id, t1)
  <2>1. IsTree(m.tree, Texts) /\ Locks(m.tree, Newest, Handles)
        /\ m.node \in Nodes(m.tree) \cup {<<>>}
    BY <1>6, <1>7 DEF Matched
  <2>2. PICK d : d = id OBVIOUS
  <2>3. d \notin Newest /\ h1[d] = m.node BY <2>2, <1>3, <1>12
  <2>4. Taken(Texts, m.tree, Newest, h1, d, LockPath(m.tree, m.node))
    BY ONLY <1>6, <1>12, <2>1, <2>3, LockPathTree
  <2>5. QED BY <2>2, <2>4
<1>14. /\ IsTree(t1, Texts) /\ t1.page = t.page /\ CachedPaths(t1) = CachedPaths(t)
       /\ t1.page = m.tree.page /\ Locks(t1, Newest \cup {id}, h1)
  BY <1>7, <1>13 DEF Taken, Matched
<1> HIDE DEF t1
<1>15. cm' = [free |-> cm'.free, tree |-> cm'.tree, lazy |-> cm'.lazy] /\ cm'.tree = t1
  BY <1>1, <1>6
<1>16. TreeHolds' BY <1>3, <1>11, <1>14, <1>15 DEF TreeHolds
<1>17. ASSUME NEW o \in Newest' PROVE RowHolds(reqs'[o], page_table'[reqs'[o].slot], cm'.tree)
  <2>1. CASE o = id
    <3>1. page_table'[slot] = line BY <1>1, <1>4
    <3>2. PICK b : b = cached + chunk OBVIOUS
    <3>3. b \in Nat /\ r1.cached <= b /\ b <= Len(q.ids) BY <1>5, <1>8, <1>10, <3>2 DEF Made
    <3>4. /\ r1.handle = m.node /\ r1.cached = Len(m.node) * PageSize
          /\ r1.host \in Texts /\ Len(r1.host) = b /\ \A i \in 1 .. b : r1.host[i] = q.ids[i]
      BY <1>10, <3>2
    <3>5. t1.page = m.tree.page BY <1>14
    <3> HIDE DEF q, t
    <3>6. RowHolds(r1, line, t1) BY ONLY <1>2, <1>7, <3>3, <3>4, <3>5, MatchedHolds
    <3>7. QED BY <3>1, <3>6, <2>1, <1>9, <1>10, <1>15
  <2>2. CASE o # id
    <3> DEFINE r == reqs[o]  mine == page_table[r.slot]
    <3>1. o \in Newest /\ o \in Holders BY <2>2, <1>3 DEF Newest
    <3>2. reqs'[o] = r /\ r.slot # slot /\ r.slot \in Slots BY <3>1, <1>3, SlotsApart
    <3>3. page_table'[r.slot] = mine BY <3>2, <1>1
    <3>4. RowHolds(r, mine, t) BY <3>1 DEF CInv
    <3>5. r.handle \in Nodes(t) \cup {<<>>} BY <3>1, <1>6, LocksRead
    <3>6. r.handle \in Nodes(t1) \cup {<<>>}
      <4>1. h1[o] = r.handle BY <3>1, <1>12 DEF Handles
      <4>2. QED BY <4>1, <3>1, <1>14 DEF Locks
    <3>7. \A p \in CachedPaths(t) : p \in CachedPaths(t1) => t1.page[p] = t.page[p] BY <1>14
    <3>8. r.host \in Texts /\ Len(r.host) \in Nat BY <3>1, CachedKnown
    <3>9. IsTree(t, Texts) /\ IsTree(t1, Texts) BY <1>6, <1>14
    <3> HIDE DEF r, mine, t
    <3>10. Len(r.host) <= Len(r.host) BY <3>8
    <3>11. RowHolds(r, mine, t1) BY ONLY <3>4, <3>5, <3>6, <3>7, <3>8, <3>9, <3>10, RowKept
    <3>12. QED BY <3>2, <3>3, <3>11, <1>15
  <2>3. QED BY <2>1, <2>2
<1>18. PInv'
  <2>1. PICK n, d : n = Len(m.node) /\ d = id OBVIOUS
  <2>2. n \in Nat BY <1>2, <2>1, MatchLength DEF m
  <2>3. d \notin Newest /\ Newest' = Newest \cup {d} BY <1>3, <2>1
  <2>4. cm'.free = cm.free /\ cm'.lazy = cm.lazy /\ cm'.tree.page = cm.tree.page
    <3>1. cm' = [free |-> cm.free, tree |-> t1, lazy |-> cm.lazy] BY <1>1, <1>6
    <3>2. QED BY <3>1, <1>14
  <2>5. ASSUME NEW o \in Newest
        PROVE  reqs'[o] = reqs[o] /\ page_table'[reqs[o].slot] = page_table[reqs[o].slot]
    <3>1. o \in Holders BY DEF Newest
    <3>2. reqs'[o] = reqs[o] /\ reqs[o].slot # slot /\ reqs[o].slot \in Slots BY <3>1, <1>3, SlotsApart
    <3>3. QED BY <3>2, <1>1
  <2>6. reqs'[d].slot = slot /\ reqs'[d].handle = m.node BY <1>9, <1>10, <2>1
  <2>7. Len(page_table'[slot]) = n
    <3>1. page_table'[slot] = line BY <1>1, <1>4
    <3>2. DOMAIN line = 1 .. n /\ line = [i \in DOMAIN line |-> line[i]] BY <2>1
    <3> HIDE DEF line
    <3>3. Len(line) = n BY <2>2, <3>2, RowOf
    <3>4. QED BY <3>1, <3>3
  <2>8. Len(reqs'[d].handle) = n /\ Len(page_table'[reqs'[d].slot]) = n
        /\ (CacheType = "naive" => reqs'[d].handle = <<>>)
    BY <1>0, <2>1, <2>6, <2>7
  <2> HIDE DEF slot, id
  <2>9. QED BY <2>2, <2>3, <2>4, <2>5, <2>8, AdmitNewPages
<1>19. QED BY <1>16, <1>17, <1>18 DEF CInv

\* Selecting a batch changes no page; a candidate that was refused may have
\* split a node.
LEMMA SelectionCache ==
  ASSUME IInv, IInv', SInv, XInv, LInv, HInv, CInv, PInv,
         SelectDecode \/ SelectNothing \/ StartPrefill \/ StopAdmission
  PROVE  CInv' /\ PInv'
<1>1. Newest' = Newest BY SelectionSlots, StartPrefillSlots, StopAdmissionSlots
<1>2. UNCHANGED <<reqs, page_table>>
  BY DEF SelectDecode, SelectNothing, StartPrefill, StopAdmission, memory
<1>3. \/ cm' = cm
      \/ /\ StopAdmission /\ pc = "admit" /\ HasCandidate
         /\ cm' = [cm EXCEPT !.tree = MatchReq(cm, Candidate.ids).tree]
  BY DEF SelectDecode, SelectNothing, StartPrefill, StopAdmission, Refused, memory
<1>4. cm = [free |-> cm.free, tree |-> cm.tree, lazy |-> cm.lazy] /\ IsTree(cm.tree, Texts)
      /\ Locks(cm.tree, Newest, Handles)
  BY DEF CInv, TreeHolds
<1>5. CASE cm' = cm BY <1>1, <1>2, <1>4, <1>5, QuietCache, QuietPages
<1>6. CASE /\ pc = "admit" /\ HasCandidate
           /\ cm' = [cm EXCEPT !.tree = MatchReq(cm, Candidate.ids).tree]
  <2> DEFINE m == MatchReq(cm, Candidate.ids)
  <2>1. Candidate.ids \in Seq(Tokens) \ {<<>>}
    <3>1. Candidate \in PendingType BY <1>6, CandidateAlone
    <3>2. QED BY <3>1 DEF PendingType
  <2>2. Matched(cm.tree, Candidate.ids, m) BY <1>4, <2>1, MatchedTree
  <2> HIDE DEF m
  <2>3. cm' = [free |-> cm'.free, tree |-> cm'.tree, lazy |-> cm'.lazy] /\ cm'.tree = m.tree
        /\ cm'.free = cm.free /\ cm'.lazy = cm.lazy
    BY <1>4, <1>6 DEF m
  <2>4. IsTree(cm'.tree, Texts) /\ Locks(cm'.tree, Newest', Handles) BY <2>2, <2>3, <1>1, <1>4 DEF Matched
  <2>5. \A p \in CachedPaths(cm.tree) : p \in CachedPaths(cm'.tree) => cm'.tree.page[p] = cm.tree.page[p]
    BY <2>2, <2>3 DEF Matched
  <2>6. \A h : Grows(h, h) BY DEF Grows
  <2>7. CInv' BY <1>1, <1>2, <2>3, <2>4, <2>5, <2>6, CacheKept
  <2>8. cm'.tree.page = cm.tree.page BY <2>2, <2>3 DEF Matched
  <2>9. PInv' BY <1>1, <1>2, <2>3, <2>8, QuietPages
  <2>10. QED BY <2>7, <2>9
<1>7. QED BY <1>3, <1>5, <1>6

\* The batch's rows go on with the pages allocated, which no cached node had left to
\* anyone: what was evicted is in nobody's prefix.
LEMMA ForwardCache ==
  ASSUME IInv, IInv', SInv, XInv, LInv, HInv, CInv, Forward
  PROVE  CInv'
<1> DEFINE objs == batch.reqs
           t    == cm.tree
<1>1. Newest' = Newest BY ForwardSlots
<1>2. PICK a \in Allocations(cm, NeededPages(Fields(objs))), s \in Samples(objs) :
        cm' = a.cm /\ page_table' = WriteRows(page_table, Fields(objs), a.pages) /\ Launched(s)
  BY DEF Forward, Launched
<1>3. /\ cm = [free |-> cm.free, tree |-> t, lazy |-> cm.lazy] /\ IsTree(t, Texts)
      /\ Locks(t, Newest, Handles) /\ IsFiniteSet(Newest)
  BY NewestFinite DEF CInv, TreeHolds
<1>4. /\ cm' = [free |-> cm'.free, tree |-> cm'.tree, lazy |-> cm'.lazy]
      /\ IsTree(cm'.tree, Texts) /\ Locks(cm'.tree, Newest, Handles)
      /\ \A p \in CachedPaths(t) : p \in CachedPaths(cm'.tree) => cm'.tree.page[p] = t.page[p]
  <2>1. PICK needed : needed = NeededPages(Fields(objs)) OBVIOUS
  <2>2. PICK c : c = cm OBVIOUS
  <2>3. PICK H, h : H = Newest /\ h = Handles OBVIOUS
  <2>4. PICK t0 : t0 = t OBVIOUS
  <2>5. c = [free |-> c.free, tree |-> c.tree, lazy |-> c.lazy] /\ t0 = c.tree /\ IsTree(t0, Texts)
        /\ IsFiniteSet(H) /\ Locks(t0, H, h) /\ a \in Allocations(c, needed)
    BY <1>3, <2>1, <2>2, <2>3, <2>4
  <2>6. LET d == a.cm
        IN  /\ d = [free |-> d.free, tree |-> d.tree, lazy |-> d.lazy]
            /\ IsTree(d.tree, Texts) /\ Locks(d.tree, H, h)
            /\ \A p \in CachedPaths(t0) : p \in CachedPaths(d.tree) => d.tree.page[p] = t0.page[p]
    BY ONLY <2>5, AllocatedTree
  <2>7. QED BY <1>2, <2>3, <2>4, <2>6
<1>5. ASSUME NEW o \in Newest
      PROVE  /\ reqs'[o].handle = reqs[o].handle /\ reqs'[o].host = reqs[o].host
             /\ reqs'[o].slot = reqs[o].slot
             /\ o \notin ToSet(objs) => reqs'[o] = reqs[o]
             /\ o \in ToSet(objs) => reqs'[o].cached = reqs[o].device
  <2>1. IsReq(reqs[o]) /\ o \in DOMAIN reqs BY SlotsApart DEF IInv, Placement, ObjectsPlaced
  <2>2. reqs'[o] = IF o \in ToSet(objs) THEN Completed(reqs[o]) ELSE reqs[o]
    BY <1>2, <2>1 DEF Launched
  <2>3. /\ Completed(reqs[o]).handle = reqs[o].handle /\ Completed(reqs[o]).host = reqs[o].host
        /\ Completed(reqs[o]).slot = reqs[o].slot /\ Completed(reqs[o]).cached = reqs[o].device
    BY <2>1 DEF IsReq, ReqFields, Completed
  <2>4. QED BY <2>2, <2>3
<1>6. TreeHolds'
  <2>1. \A o \in Newest : Handles'[o] = Handles[o] BY <1>1, <1>5 DEF Handles
  <2>2. Locks(cm'.tree, Newest, Handles') BY <1>4, <2>1, LocksSame
  <2>3. QED BY <1>1, <1>4, <2>2 DEF TreeHolds
<1>7. ASSUME NEW o \in Newest
      PROVE  RowHolds(reqs'[o], page_table'[reqs'[o].slot], cm'.tree)
  <2> DEFINE r == reqs[o]  r1 == reqs'[o]  row == page_table[r.slot]
  <2>1. PICK t1 : t1 = cm'.tree OBVIOUS
  <2>2. r.handle \in Nodes(t) \cup {<<>>} BY <1>3, LocksRead
  <2>3. r.handle \in Nodes(t1) \cup {<<>>}
    <3>1. Handles[o] = r.handle BY DEF Handles
    <3>2. QED BY <3>1, <1>4, <2>1 DEF Locks
  <2>4. r.host \in Texts /\ Len(r.host) \in Nat /\ r.cached \in Nat /\ r.device \in Nat
        /\ r.cached <= r.device
    <3>1. r.host \in Texts BY DEF HInv, Stored
    <3>2. o \in DOMAIN reqs BY SlotsApart
    <3>3. r.cached \in Int /\ r.device \in Int /\ 0 <= r.cached /\ r.cached < r.device
      BY <3>2 DEF IInv, TypeOK, LInv, ObjectLengths
    <3>4. QED BY <3>1, <3>3, LenProperties DEF Texts
  <2>5. RowHolds(r, row, t) BY DEF CInv
  <2>6. RowHolds(r, row, t1)
    <3> HIDE DEF r, row, t
    <3>1. \A p \in CachedPaths(t) : p \in CachedPaths(t1) => t1.page[p] = t.page[p] BY <1>4, <2>1
    <3>2. IsTree(t, Texts) /\ IsTree(t1, Texts) BY <1>3, <1>4, <2>1
    <3>3. Len(r.host) <= Len(r.host) BY <2>4
    <3>4. QED BY ONLY <2>2, <2>3, <2>4, <2>5, <3>1, <3>2, <3>3, RowKept
  <2>7. CASE o \notin ToSet(objs)
    <3>1. r1 = r /\ page_table'[r.slot] = row BY <1>2, <1>5, <2>7, WrittenRow DEF LInv
    <3> HIDE DEF row
    <3>2. QED BY <2>1, <2>6, <3>1
  <2>8. CASE o \in ToSet(objs)
    <3>1. PICK j, more :
            /\ DOMAIN more = 1 .. NewPages(r) /\ more = [k \in DOMAIN more |-> more[k]]
            /\ page_table'[r.slot] = SubSeq(row, 1, CeilDiv(r.cached, PageSize)) \o more
      BY <1>2, <2>8, WrittenRow DEF LInv, IsWritten
    <3>2. Len(r.handle) \in Nat BY <1>3, <2>2, HandlePaths
    <3>3. PICK b, c : b = r.device /\ c = r.cached OBVIOUS
    <3>4. b \in Nat /\ c \in Nat /\ c <= b BY <2>4, <3>3
    <3>5. r1.handle = r.handle /\ r1.host = r.host /\ r1.cached = b /\ r.cached = c
      BY <1>5, <2>8, <3>3
    <3>6. DOMAIN more = 1 .. CeilDiv(b, PageSize) - CeilDiv(c, PageSize)
      BY <3>1, <3>3 DEF NewPages
    <3>7. more = [k \in DOMAIN more |-> more[k]] BY <3>1
    <3> HIDE DEF r, r1, row
    <3>8. RowHolds(r1, SubSeq(row, 1, CeilDiv(c, PageSize)) \o more, t1)
      BY ONLY <2>6, <3>2, <3>4, <3>5, <3>6, <3>7, GrownHolds
    <3>9. page_table'[r.slot] = SubSeq(row, 1, CeilDiv(c, PageSize)) \o more BY <3>1, <3>3
    <3>10. r1.slot = r.slot BY <1>5 DEF r, r1
    <3>11. QED BY <2>1, <3>8, <3>9, <3>10 DEF r1
  <2>9. QED BY <2>7, <2>8
<1>8. QED BY <1>1, <1>6, <1>7 DEF CInv

\* Nothing goes to the device, or the loop's iteration ends: the pages set aside go
\* back to the free list.
LEMMA IdleCache ==
  ASSUME IInv, IInv', XInv, HInv, CInv, PInv, ForwardOutOfPages \/ NoForward \/ EndProcess
  PROVE  CInv' /\ PInv'
<1>1. CASE ForwardOutOfPages \/ NoForward
  <2>1. UNCHANGED <<reqs, page_table, cm>> BY <1>1 DEF ForwardOutOfPages, NoForward, memory
  <2>2. Newest' = Newest BY <1>1, NoForwardSlots
  <2>3. cm' = [free |-> cm'.free, tree |-> cm.tree, lazy |-> cm'.lazy] BY <2>1 DEF CInv, TreeHolds
  <2>4. QED BY <2>1, <2>2, <2>3, QuietCache, QuietPages
<1>2. CASE EndProcess
  <2>1. Newest' = Newest /\ \A o \in Newest : reqs'[o] = reqs[o]
    BY <1>2, EndProcessSlots DEF Newest
  <2>2. cm' = FlushLazy(cm) /\ UNCHANGED page_table BY <1>2 DEF EndProcess
  <2>3. cm' = [free |-> cm'.free, tree |-> cm.tree, lazy |-> cm'.lazy]
    <3>1. PICK free : free = Ascending(cm.free \o cm.lazy) OBVIOUS
    <3>2. cm' = [cm EXCEPT !.free = free, !.lazy = <<>>] BY <2>2, <3>1 DEF FlushLazy
    <3>3. cm = [free |-> cm.free, tree |-> cm.tree, lazy |-> cm.lazy] BY DEF CInv, TreeHolds
    <3>4. QED BY <3>2, <3>3
  <2>4. CInv' BY <2>1, <2>2, <2>3, QuietCache
  <2>5. cm = [free |-> cm.free, tree |-> cm.tree, lazy |-> cm.lazy] BY DEF CInv, TreeHolds
  <2>6. PInv' BY <2>1, <2>2, <2>5, FlushedPages
  <2>7. QED BY <2>4, <2>6
<1>3. QED BY <1>1, <1>2

-----------------------------------------------------------------------------
(* The invariant and its theorems.                                         *)

LEMMA InitCInv == Init => CInv
<1> SUFFICES ASSUME Init PROVE CInv OBVIOUS
<1>1. /\ reqs = <<>> /\ running = {} /\ inflight = <<>> /\ terminal = {} /\ pending = <<>>
      /\ adder.reqs = <<>> /\ adder.chunked = <<>> /\ batch.reqs = <<>>
      /\ last.reqs = <<>> /\ proc.reqs = <<>> /\ cm = InitCache
  BY DEF Init, NoAdder, NoBatch
<1>2. Holders = {} BY <1>1, EmptyFacts DEF Holders, Referenced
<1>3. Newest = {} BY <1>2 DEF Newest
<1>4. cm = [free |-> cm.free, tree |-> cm.tree, lazy |-> cm.lazy] /\ cm.tree = EmptyTree
  BY <1>1 DEF InitCache
<1>5. Nodes(EmptyTree) = {} /\ CachedPaths(EmptyTree) = {}
      /\ EmptyTree = [page |-> EmptyTree.page, ref |-> EmptyTree.ref,
                      evictable |-> EmptyTree.evictable, protected |-> EmptyTree.protected]
  BY DEF EmptyTree, Nodes, CachedPaths
<1>6. IsTree(EmptyTree, Texts) BY <1>5 DEF IsTree
<1>7. Locks(EmptyTree, Newest, Handles) BY <1>3, <1>5 DEF Locks
<1>8. QED BY <1>3, <1>4, <1>6, <1>7 DEF CInv, TreeHolds

\* At the start every page is free.
LEMMA InitPInv == Init => PInv
<1> SUFFICES ASSUME Init PROVE PInv OBVIOUS
<1>1. /\ reqs = <<>> /\ running = {} /\ inflight = <<>> /\ terminal = {} /\ pending = <<>>
      /\ adder.reqs = <<>> /\ adder.chunked = <<>> /\ batch.reqs = <<>>
      /\ last.reqs = <<>> /\ proc.reqs = <<>> /\ cm = InitCache
  BY DEF Init, NoAdder, NoBatch
<1>2. Holders = {} BY <1>1, EmptyFacts DEF Holders, Referenced
<1>3. Newest = {} BY <1>2 DEF Newest
<1>4. PICK f : f = [i \in 1 .. NumPages |-> i - 1] OBVIOUS
<1>5. cm.free = f /\ cm.lazy = <<>> /\ cm.tree = EmptyTree BY <1>1, <1>4 DEF InitCache
<1>6. NumPages \in Nat BY PagesAssumption
<1>7. f \in Seq(Pages) /\ DOMAIN f = 1 .. NumPages
  <2>1. \A i \in 1 .. NumPages : i - 1 \in Pages BY <1>6 DEF Pages
  <2>2. f \in [1 .. NumPages -> Pages] BY <1>4, <2>1
  <2>3. QED BY <1>6, <2>2
<1>8. IsInjective(f)
  <2>1. \A i, j \in 1 .. NumPages : f[i] = f[j] => i = j BY <1>4, <1>6
  <2>2. QED BY <1>7, <2>1 DEF IsInjective
<1>9. ToSet(f) = Pages
  <2>1. \A p \in Pages : p + 1 \in 1 .. NumPages /\ f[p + 1] = p BY <1>4, <1>6 DEF Pages
  <2>2. \A i \in 1 .. NumPages : f[i] \in Pages BY <1>4, <1>6 DEF Pages
  <2>3. \A p \in Pages : p \in ToSet(f) BY <1>7, <2>1, ToSetElement
  <2>4. QED BY <1>7, <2>2, <2>3 DEF ToSet
<1>10. CachedPaths(EmptyTree) = {} BY DEF EmptyTree, CachedPaths
<1>11. CachePages(EmptyTree) = {} /\ PageOnce(EmptyTree) BY <1>10 DEF CachePages, PageOnce
<1>12. <<>> \in Seq(Pages) /\ IsInjective(<<>>) /\ ToSet(<<>>) = {} BY EmptySeq, EmptyFacts DEF IsInjective
<1>13. Parted(Pages, {}, {}, {}, OwnPages) BY DEF Parted
<1>14. Shared(cm, {}, OwnPages) BY <1>5, <1>7, <1>8, <1>9, <1>11, <1>12, <1>13 DEF Shared
<1>15. QED BY <1>3, <1>14 DEF PInv

LEMMA NextCInv ==
  IInv /\ SInv /\ XInv /\ LInv /\ HInv /\ CInv /\ PInv /\ [Next]_vars => CInv' /\ PInv'
<1> SUFFICES ASSUME IInv, SInv, XInv, LInv, HInv, CInv, PInv, [Next]_vars PROVE CInv' /\ PInv'
  OBVIOUS
<1>1. IInv' BY NextIInv
<1>2. CASE UNCHANGED vars
  <2>1. UNCHANGED <<control, memory>> BY <1>2 DEF vars
  <2>2. Newest' = Newest BY <2>1 DEF control, memory, Newest, Holders, Referenced
  <2>3. UNCHANGED <<reqs, page_table, cm>> BY <2>1 DEF memory
  <2>4. cm' = [free |-> cm'.free, tree |-> cm.tree, lazy |-> cm'.lazy] BY <2>3 DEF CInv, TreeHolds
  <2>5. QED BY <2>2, <2>3, <2>4, QuietCache, QuietPages
<1>3. CASE Receive BY <1>1, <1>3, ReceiveCache
<1>4. CASE SelectDecode \/ SelectNothing \/ StartPrefill \/ StopAdmission
  BY <1>1, <1>4, SelectionCache
<1>5. CASE AdmitChunk \/ AdmitNew BY <1>1, <1>5, AdmitChunkCache, AdmitNewCache
<1>6. CASE Forward BY <1>1, <1>6, ForwardCache, ForwardPages
<1>7. CASE ForwardOutOfPages \/ NoForward \/ EndProcess BY <1>1, <1>7, IdleCache
<1>8. CASE ProcessTerminal \/ ProcessChunk \/ ProcessToken BY <1>1, <1>8, ProcessCache
<1>9. QED BY <1>2, <1>3, <1>4, <1>5, <1>6, <1>7, <1>8 DEF Next, Step

LEMMA CacheInvariant == Spec => [](IInv /\ XInv /\ LInv /\ HInv /\ CInv /\ PInv)
<1>1. Spec => [](SInv /\ XInv /\ LInv)
  BY InitSInv, InitXInv, InitLInv, NextSInv, NextXInv, NextLInv, SchedulerInvariant, PTL DEF Spec
<1>2. Spec => []HInv BY <1>1, InitHInv, NextHInv, SchedulerInvariant, PTL DEF Spec
<1>3. QED BY <1>1, <1>2, InitCInv, InitPInv, NextCInv, SchedulerInvariant, PTL DEF Spec

\* Whatever is inserted, split, locked and evicted under the scheduler, the radix tree is
\* one: every cached path has its prefixes cached and a node below it, and two edges part
\* at a node (RadixPrefixCache._tree_walk, split_at, insert_prefix, evict).
THEOREM ShapeCorrect == Spec => []WellFormedTree(cm.tree)
<1>1. CInv => WellFormedTree(cm.tree) BY TreeIsWellFormed DEF CInv, TreeHolds
<1>2. QED BY <1>1, CacheInvariant, PTL

\* A node's reference count is the number of requests whose prefix goes through it,
\* across splits, aborts and requests that end in any order (lock_handle, split_at's
\* copied ref_count).
THEOREM RefsCorrect == Spec => []RefsExact
<1>1. CInv => RefsExact
  <2> SUFFICES ASSUME CInv, NEW n \in Nodes(cm.tree)
               PROVE  cm.tree.ref[n] = Cardinality({o \in Newest : IsPrefix(n, reqs[o].handle)})
    BY DEF RefsExact
  <2>1. cm.tree.ref[n] = Cardinality({o \in Newest : IsPrefix(n, Handles[o])})
    BY DEF CInv, TreeHolds, Locks
  <2>2. {o \in Newest : IsPrefix(n, Handles[o])} = {o \in Newest : IsPrefix(n, reqs[o].handle)}
    BY DEF Handles
  <2>3. QED BY <2>1, <2>2
<1>2. QED BY <1>1, CacheInvariant, PTL

\* A request's handle stays cached while it holds it and its row begins with the pages
\* the cache has for it: no eviction takes a page a request reads
\* (CacheManager.cache_req, lock, evict).
THEOREM RowsCorrect == Spec => []RowsFollowCache
<1>1. CInv => RowsFollowCache
  <2> SUFFICES ASSUME CInv, NEW o \in Newest, NEW k \in 1 .. Len(reqs[o].handle)
               PROVE  /\ SubSeq(reqs[o].handle, 1, k) \in CachedPaths(cm.tree)
                      /\ page_table[reqs[o].slot][k] = cm.tree.page[SubSeq(reqs[o].handle, 1, k)]
    BY DEF RowsFollowCache
  <2>1. reqs[o].handle \in Nodes(cm.tree) \cup {<<>>} /\ IsTree(cm.tree, Texts)
    BY LocksRead DEF CInv, TreeHolds
  <2>2. SubSeq(reqs[o].handle, 1, k) \in CachedPaths(cm.tree) BY <2>1, HandlePaths
  <2>3. RowHolds(reqs[o], page_table[reqs[o].slot], cm.tree) BY DEF CInv
  <2>4. QED BY <2>2, <2>3 DEF RowHolds
<1>2. QED BY <1>1, CacheInvariant, PTL

\* What the parts say of one page's places.
LEMMA OnePlace ==
  ASSUME CInv, PInv, NEW p \in Pages
  PROVE  Cardinality(Places(p)) = 1
<1> DEFINE A == {i \in DOMAIN cm.free : cm.free[i] = p}
           B == {i \in DOMAIN cm.lazy : cm.lazy[i] = p}
           C == {q \in CachedPaths(cm.tree) : cm.tree.page[q] = p}
           D == UNION {{o} \X {k \in PrivateEntries(o) : page_table[reqs[o].slot][k] = p} : o \in Newest}
<1>1. PICK F, L, T, H, own : /\ F = ToSet(cm.free) /\ L = ToSet(cm.lazy) /\ T = CachePages(cm.tree)
                             /\ H = Newest /\ own = OwnPages
  OBVIOUS
<1>2. /\ IsInjective(cm.free) /\ IsInjective(cm.lazy) /\ PageOnce(cm.tree) /\ Parted(F, L, T, H, own)
  BY <1>1 DEF PInv, Shared
<1>3. (A # {} <=> p \in F) /\ \A i, j \in A : i = j BY <1>1, <1>2 DEF ToSet, IsInjective
<1>4. (B # {} <=> p \in L) /\ \A i, j \in B : i = j BY <1>1, <1>2 DEF ToSet, IsInjective
<1>5. (C # {} <=> p \in T) /\ \A i, j \in C : i = j BY <1>1, <1>2 DEF CachePages, PageOnce
<1>6. (D # {} <=> \E o \in H : p \in own[o]) /\ \A x, y \in D : x = y
  <2>1. \A x \in D : /\ x = <<x[1], x[2]>> /\ x[1] \in H /\ x[2] \in PrivateEntries(x[1])
                     /\ page_table[reqs[x[1]].slot][x[2]] = p
    BY <1>1
  <2>2. \A o \in H : \A k \in PrivateEntries(o) : page_table[reqs[o].slot][k] = p => <<o, k>> \in D
    BY <1>1
  <2> HIDE DEF D
  <2>3. \A o \in H : /\ own[o] = {page_table[reqs[o].slot][k] : k \in PrivateEntries(o)}
                     /\ \A j, k \in PrivateEntries(o) :
                          page_table[reqs[o].slot][j] = page_table[reqs[o].slot][k] => j = k
    <3>1. \A o \in H : own[o] = {page_table[reqs[o].slot][k] : k \in PrivateEntries(o)}
      BY <1>1 DEF OwnPages, RowPages, Between, PrivateEntries
    <3>2. \A o \in H : RowOnce(page_table[reqs[o].slot], Len(reqs[o].handle)) BY <1>1 DEF PInv
    <3>3. QED BY <3>1, <3>2 DEF RowOnce, OnceBetween, PrivateEntries
  <2>4. \A x \in D : p \in own[x[1]] BY <2>1, <2>3
  <2>5. ASSUME NEW o \in H, p \in own[o] PROVE D # {}
    <3>1. PICK k \in PrivateEntries(o) : page_table[reqs[o].slot][k] = p BY <2>3, <2>5
    <3>2. QED BY <2>2, <3>1
  <2>6. ASSUME NEW x \in D, NEW y \in D PROVE x = y
    <3>1. p \in own[x[1]] /\ p \in own[y[1]] /\ x[1] \in H /\ y[1] \in H BY <2>1, <2>4
    <3>2. x[1] = y[1] BY <1>2, <3>1 DEF Parted
    <3>3. x[2] = y[2] BY <2>1, <2>3, <3>1, <3>2
    <3>4. QED BY <2>1, <3>2, <3>3
  <2>7. QED BY <2>1, <2>4, <2>5, <2>6
<1>7. Places(p) = ({"free"} \X A) \cup ({"lazy"} \X B) \cup ({"cache"} \X C) \cup ({"row"} \X D)
  BY DEF Places
<1> HIDE DEF A, B, C, D
<1>8. \/ A # {} /\ B = {} /\ C = {} /\ D = {}
      \/ A = {} /\ B # {} /\ C = {} /\ D = {}
      \/ A = {} /\ B = {} /\ C # {} /\ D = {}
      \/ A = {} /\ B = {} /\ C = {} /\ D # {}
  <2>1. /\ F \cap L = {} /\ F \cap T = {} /\ L \cap T = {}
        /\ \A o \in H : own[o] \cap F = {} /\ own[o] \cap L = {} /\ own[o] \cap T = {}
        /\ p \in F \cup L \cup T \/ \E o \in H : p \in own[o]
    BY <1>2 DEF Parted
  <2>2. QED BY <2>1, <1>3, <1>4, <1>5, <1>6
<1>9. \E x : Places(p) = {x}
  <2>1. ASSUME A # {}, B = {}, C = {}, D = {} PROVE \E x : Places(p) = {x}
    <3>1. PICK i : A = {i} BY <1>3, <2>1
    <3>2. Places(p) = {<<"free", i>>} BY <1>7, <2>1, <3>1
    <3>3. QED BY <3>2
  <2>2. ASSUME A = {}, B # {}, C = {}, D = {} PROVE \E x : Places(p) = {x}
    <3>1. PICK i : B = {i} BY <1>4, <2>2
    <3>2. Places(p) = {<<"lazy", i>>} BY <1>7, <2>2, <3>1
    <3>3. QED BY <3>2
  <2>3. ASSUME A = {}, B = {}, C # {}, D = {} PROVE \E x : Places(p) = {x}
    <3>1. PICK i : C = {i} BY <1>5, <2>3
    <3>2. Places(p) = {<<"cache", i>>} BY <1>7, <2>3, <3>1
    <3>3. QED BY <3>2
  <2>4. ASSUME A = {}, B = {}, C = {}, D # {} PROVE \E x : Places(p) = {x}
    <3>1. \E i : D = {i}
      <4>1. PICK E : E = D OBVIOUS
      <4>2. E # {} /\ \A x, y \in E : x = y BY <1>6, <2>4, <4>1
      <4>3. PICK i : i \in E BY <4>2
      <4>4. E = {i} BY <4>2, <4>3
      <4>5. QED BY <4>1, <4>4
    <3>11. PICK i : D = {i} BY <3>1
    <3>2. Places(p) = {<<"row", i>>} BY <1>7, <2>4, <3>11
    <3>3. QED BY <3>2
  <2>5. QED BY <1>8, <2>1, <2>2, <2>3, <2>4
<1>10. QED BY <1>9, FS_Singleton

\* Every page is at exactly one place: free, set aside in the lazy free region, in the
\* prefix cache or in one request's row.  None leaks and none has two owners, whatever
\* is allocated, evicted, inserted, found twice, aborted or released
\* (CacheManager.allocate_paged, cache_req, lazy_free_region).
THEOREM PagesCorrect == Spec => []PagesPartitioned
<1>1. CInv /\ PInv => PagesPartitioned BY OnePlace DEF PagesPartitioned
<1>2. QED BY <1>1, CacheInvariant, PTL

-----------------------------------------------------------------------------
(* The counters under the scheduler.                                       *)

\* The counters are those of the requests' handles.
NInv == Counted(cm.tree, Newest, Handles)

\* Steps that keep the tree and the handles.
LEMMA QuietCount ==
  ASSUME NInv, Newest' = Newest, cm'.tree = cm.tree,
         \A o \in Newest : reqs'[o].handle = reqs[o].handle
  PROVE  NInv'
<1>1. \A o \in Newest : Handles'[o] = Handles[o] BY DEF Handles
<1>2. QED BY <1>1, CountedSame DEF NInv

LEMMA PrefixInserted ==
  ASSUME NEW t, IsTree(t, Texts), NEW key \in Seq(Texts), NEW pages,
         NEW H, NEW h, Locks(t, H, h), Counted(t, H, h)
  PROVE  Counted(InsertPrefix(t, key, pages).tree, H, h)
<1>1. PICK p, t1 : p = TreeWalk(t, key).node /\ t1 = TreeWalk(t, key).tree OBVIOUS
<1>2. PICK t2 : t2 = InsertBelow(t1, key, pages, p) OBVIOUS
<1>3. Walked(t, Texts, key, p, t1) BY <1>1, TreeWalkTree
<1>4. Counted(t1, H, h) BY <1>3, WalkedCount
<1>5. Locks(t1, H, h) BY <1>3, WalkedLocks
<1>6. Counted(t2, H, h) BY <1>2, <1>3, <1>4, <1>5, InsertedBelowCount
<1>7. InsertPrefix(t, key, pages) =
        IF CacheType = "naive" THEN [tree |-> t, found |-> 0, node |-> <<>>]
        ELSE [tree |-> t2, found |-> Len(p), node |-> key]
  BY <1>1, <1>2 DEF InsertPrefix
<1>8. InsertPrefix(t, key, pages).tree \in {t, t2} BY <1>7
<1>9. QED BY <1>6, <1>8

LEMMA PrefixMatched ==
  ASSUME NEW c, IsTree(c.tree, Texts), NEW ids \in Seq(Tokens) \ {<<>>},
         NEW H, NEW h, Counted(c.tree, H, h)
  PROVE  Counted(MatchReq(c, ids).tree, H, h)
<1>1. PICK n : n = Len(ids) - 1 OBVIOUS
<1>2. PICK key : key = Chunks(SubSeq(ids, 1, n)) OBVIOUS
<1>3. key \in Seq(Texts)
  <2>1. n \in Nat /\ n <= Len(ids) BY <1>1, EmptySeq, LenProperties
  <2>2. ids \in Texts BY SeqMonotonic DEF Texts
  <2>3. QED BY <1>2, <2>1, <2>2, TextChunks
<1>4. MatchReq(c, ids) = MatchPrefix(c.tree, key) BY <1>1, <1>2 DEF MatchReq
<1>5. CASE CacheType = "naive"
  <2>1. MatchReq(c, ids).tree = c.tree BY <1>4, <1>5 DEF MatchPrefix
  <2>2. QED BY <2>1
<1>6. CASE CacheType # "naive"
  <2>1. PICK m : m = TreeWalk(c.tree, key) OBVIOUS
  <2>2. MatchReq(c, ids) = m BY <1>4, <1>6, <2>1 DEF MatchPrefix
  <2>3. Walked(c.tree, Texts, key, m.node, m.tree) BY <1>3, <2>1, TreeWalkTree
  <2>4. Counted(m.tree, H, h) BY <2>3, WalkedCount
  <2>5. QED BY <2>2, <2>4
<1>7. QED BY <1>5, <1>6

\* A released request takes its lock along.
LEMMA ReleasedCount ==
  ASSUME IInv, CInv, NInv, NEW c \in Newest, NEW r, r.handle = reqs[c].handle,
         r.host \in Texts, r.cached \in Nat, r.cached <= Len(r.host),
         NEW reg \in BOOLEAN, FreeReqResources(c, r, reg),
         Newest' = Newest \ {c}, \A o \in Newest' : reqs'[o] = reqs[o]
  PROVE  NInv'
<1> DEFINE row  == page_table[r.slot]
           key  == Chunks(SubSeq(r.host, 1, r.cached))
           ins  == InsertPrefix(cm.tree, key, row)
           t1   == UnlockPath(ins.tree, r.handle)
           tail == SubSeq(row, Len(ins.node) + 1, CeilDiv(r.cached, PageSize))
           more == Duplicates(row, Len(r.handle) + 1, ins.found) \o tail
<1>1. IsTree(cm.tree, Texts) /\ Locks(cm.tree, Newest, Handles) /\ IsFiniteSet(Newest)
      /\ cm = [free |-> cm.free, tree |-> cm.tree, lazy |-> cm.lazy]
      /\ Counted(cm.tree, Newest, Handles)
  BY NewestFinite DEF CInv, TreeHolds, NInv
<1>2. key \in Seq(Texts) BY TextChunks
<1>3. cm' = FreePages([cm EXCEPT !.tree = t1], more, reg) BY DEF FreeReqResources, ReleaseCached
<1>4. PICK u : u = ins.tree OBVIOUS
<1> HIDE DEF key
<1>5. Inserted(cm.tree, key, row, ins) /\ Counted(u, Newest, Handles)
  <2> HIDE DEF row
  <2>1. QED BY <1>1, <1>2, <1>4, InsertedTree, PrefixInserted
<1> HIDE DEF ins
<1>6. IsTree(u, Texts) /\ Locks(u, Newest, Handles) BY <1>1, <1>4, <1>5 DEF Inserted
<1>7. PICK H, h : H = Newest /\ h = Handles OBVIOUS
<1>8. h[c] = r.handle /\ c \in H BY <1>7 DEF Handles
<1>9. Counted(UnlockPath(u, h[c]), H \ {c}, h)
  <2>1. IsTree(u, Texts) /\ IsFiniteSet(H) /\ Locks(u, H, h) /\ Counted(u, H, h) /\ c \in H
    BY <1>1, <1>5, <1>6, <1>7
  <2>2. QED BY ONLY <2>1, UnlockedCount
<1>10. cm'.tree = t1
  <2> HIDE DEF t1, more
  <2> DEFINE d == FreePages([cm EXCEPT !.tree = t1], more, reg)
  <2>1. cm = [free |-> cm.free, tree |-> cm.tree, lazy |-> cm.lazy] BY <1>1
  <2>2. d.tree = t1 BY ONLY <2>1, reg \in BOOLEAN, FreedTree
  <2>3. cm' = d BY <1>3
  <2> HIDE DEF d
  <2>4. QED BY <2>2, <2>3
<1>11. Counted(cm'.tree, Newest', h) BY <1>4, <1>7, <1>8, <1>9, <1>10
<1>12. \A o \in Newest' : Handles'[o] = h[o] BY <1>7 DEF Handles
<1>13. QED BY <1>11, <1>12, CountedSame DEF NInv

\* A request that goes on moves its lock to what it inserted.
LEMMA KeptCount ==
  ASSUME IInv, CInv, NInv, NEW c \in Newest, NEW r, r.handle = reqs[c].handle,
         r.host \in Texts, r.cached \in Nat, r.cached <= Len(r.host),
         cm' = KeepCached(cm, r, page_table[r.slot]).cm,
         reqs'[c].handle = KeepCached(cm, r, page_table[r.slot]).handle,
         Newest' = Newest, \A o \in Newest \ {c} : reqs'[o] = reqs[o]
  PROVE  NInv'
<1> DEFINE row  == page_table[r.slot]
           key  == Chunks(SubSeq(r.host, 1, r.cached))
           ins  == InsertPrefix(cm.tree, key, row)
           own  == Len(r.handle) + 1
           t1   == LockPath(UnlockPath(ins.tree, r.handle), ins.node)
           more == Duplicates(row, own, ins.found)
           new  == Canonical(ins.tree, row, ins.node, own, ins.found)
           d    == FreePages([cm EXCEPT !.tree = t1], more, TRUE)
<1>1. IsTree(cm.tree, Texts) /\ Locks(cm.tree, Newest, Handles) /\ IsFiniteSet(Newest)
      /\ cm = [free |-> cm.free, tree |-> cm.tree, lazy |-> cm.lazy]
      /\ Counted(cm.tree, Newest, Handles)
  BY NewestFinite DEF CInv, TreeHolds, NInv
<1>2. key \in Seq(Texts) BY TextChunks
<1>3. cm' = d /\ reqs'[c].handle = ins.node
  <2>1. KeepCached(cm, r, row) = [cm |-> d, row |-> new, handle |-> ins.node] BY DEF KeepCached
  <2>2. PICK k : k = KeepCached(cm, r, row) OBVIOUS
  <2> HIDE DEF d, new, ins
  <2>3. k.cm = d /\ k.handle = ins.node BY <2>1, <2>2
  <2>4. QED BY <2>2, <2>3
<1>4. PICK u, n : u = ins.tree /\ n = ins.node OBVIOUS
<1> HIDE DEF key
<1>5. Inserted(cm.tree, key, row, ins) /\ Counted(u, Newest, Handles)
  <2> HIDE DEF row
  <2>1. QED BY <1>1, <1>2, <1>4, InsertedTree, PrefixInserted
<1> HIDE DEF ins
<1>6. IsTree(u, Texts) /\ Locks(u, Newest, Handles) /\ n \in Nodes(u) \cup {<<>>}
  BY <1>1, <1>4, <1>5 DEF Inserted
<1>7. PICK H, h, h1 : H = Newest /\ h = Handles /\ h1 = Handles' OBVIOUS
<1>8. h[c] = r.handle /\ c \in H BY <1>7 DEF Handles
<1>9. PICK low : low = UnlockPath(u, h[c]) OBVIOUS
<1>10. PICK G : G = H \ {c} OBVIOUS
<1>11. IsTree(u, Texts) /\ IsFiniteSet(H) /\ Locks(u, H, h) /\ Counted(u, H, h) /\ c \in H
  BY <1>1, <1>5, <1>6, <1>7
<1>12. /\ IsTree(low, Texts) /\ Nodes(low) = Nodes(u) /\ Locks(low, G, h)
       /\ Counted(low, G, h)
  <2>1. Counted(low, G, h) BY ONLY <1>9, <1>10, <1>11, UnlockedCount
  <2>2. IsTree(low, Texts) /\ Nodes(low) = Nodes(u) /\ Locks(low, G, h)
    BY ONLY <1>9, <1>10, <1>11, UnlockPathTree
  <2>3. QED BY <2>1, <2>2
<1>13. IsFiniteSet(G) /\ c \notin G /\ H = G \cup {c} BY <1>10, <1>11, FS_Subset
<1>14. h1[c] = n /\ \A o \in G : h1[o] = h[o] BY <1>3, <1>4, <1>7, <1>10 DEF Handles
<1>15. n \in Nodes(low) \cup {<<>>} BY <1>6, <1>12
<1>16. Counted(LockPath(low, n), G \cup {c}, h1)
  BY ONLY <1>12, <1>13, <1>14, <1>15, LockedCount
<1>17. t1 = LockPath(low, n) BY <1>4, <1>8, <1>9
<1>18. cm'.tree = t1
  <2> HIDE DEF t1, more
  <2>1. cm = [free |-> cm.free, tree |-> cm.tree, lazy |-> cm.lazy] BY <1>1
  <2>2. d.tree = t1 BY ONLY <2>1, TRUE \in BOOLEAN, FreedTree
  <2> HIDE DEF d
  <2>3. QED BY <1>3, <2>2
<1> HIDE DEF t1
<1>19. Counted(cm'.tree, Newest, h1) BY <1>7, <1>13, <1>16, <1>17, <1>18
<1>20. QED BY <1>7, <1>19 DEF NInv


-----------------------------------------------------------------------------
(* Steps.                                                                  *)

LEMMA AbortNowCount ==
  ASSUME IInv, IInv', SInv, XInv, LInv, HInv, CInv, NInv, NEW u \in Uids, AbortNow(u)
  PROVE  NInv'
<1>1. PICK c \in AbortTarget(u) \ DOMAIN inflight :
        FreeReqResources(c, reqs[c], FALSE) /\ reqs' = Restrict(reqs, DOMAIN reqs \ {c})
  BY DEF AbortNow
<1>2. c \in Newest /\ Newest' = Newest \ {c} BY <1>1, AbortNowSlots
<1>3. reqs[c].cached \in Nat /\ reqs[c].host \in Texts /\ reqs[c].cached <= Len(reqs[c].host)
  <2>1. Flying(c) = 0 BY <1>1, FlyingCounts DEF IInv
  <2>2. QED BY <2>1, <1>2, CachedKnown
<1>4. \A o \in Newest' : reqs'[o] = reqs[o]
  <2>1. \A o \in Newest' : o \in DOMAIN reqs /\ o # c BY <1>2, SlotsApart
  <2>2. QED BY <2>1, <1>1 DEF Restrict
<1>5. PICK r : r = reqs[c] OBVIOUS
<1>6. /\ r.handle = reqs[c].handle /\ r.host \in Texts /\ r.cached \in Nat /\ r.cached <= Len(r.host)
      /\ FreeReqResources(c, r, FALSE)
  BY <1>1, <1>3, <1>5
<1>7. QED BY <1>2, <1>4, <1>6, ReleasedCount

LEMMA ReceiveCount ==
  ASSUME IInv, IInv', SInv, XInv, LInv, HInv, CInv, NInv, Receive
  PROVE  NInv'
<1>1. PICK u \in Uids : ReceiveAbort(u) \/ \E w \in Workload : ReceiveUser(u, w) BY DEF Receive
<1>2. CASE AbortNow(u) BY <1>2, AbortNowCount
<1>3. CASE AbortNothing(u) \/ AbortInflight(u)
  <2>1. Holders' = Holders BY <1>3, AbortLaterSlots
  <2>2. UNCHANGED <<reqs, cm>> BY <1>3 DEF AbortNothing, AbortInflight, memory
  <2>3. Newest' = Newest BY <2>1 DEF Newest
  <2>4. QED BY <2>2, <2>3, QuietCount
<1>4. CASE \E w \in Workload : ReceiveUser(u, w)
  <2>1. Holders' = Holders BY <1>4, ReceiveUserSlots
  <2>2. UNCHANGED <<reqs, cm>> BY <1>4 DEF ReceiveUser, memory
  <2>3. Newest' = Newest BY <2>1 DEF Newest
  <2>4. QED BY <2>2, <2>3, QuietCount
<1>5. QED BY <1>1, <1>2, <1>3, <1>4 DEF ReceiveAbort

\* A result releases its request, keeps what it computed, or leaves the cache alone.
LEMMA ProcessCount ==
  ASSUME IInv, IInv', SInv, XInv, LInv, HInv, CInv, NInv,
         ProcessTerminal \/ ProcessChunk \/ ProcessToken
  PROVE  NInv'
<1>0. PICK c : c = Current OBVIOUS
<1>1. TakeResult /\ UNCHANGED last BY DEF ProcessTerminal, ProcessChunk, ProcessToken
<1>2. /\ c \in DOMAIN inflight /\ c \in DOMAIN reqs /\ Flying(c) \in Nat \ {0}
      /\ inflight[c] = 1 => c \notin DOMAIN inflight'
      /\ 1 \in DOMAIN proc.reqs /\ Head(proc.tokens) = proc.tokens[1]
  BY <1>0, <1>1, ResultLands
<1>3. \/ /\ free_table' = Append(free_table, reqs[c].slot)
         /\ c \in Newest /\ Newest' = Newest \ {c}
      \/ free_table' = free_table /\ Newest' = Newest
  BY <1>0, ProcessSlots
<1>4. reqs[c].slot \in Slots /\ free_table # Append(free_table, reqs[c].slot)
  <2>1. free_table \in Seq(Slots) /\ reqs[c].slot \in Slots BY <1>2 DEF IInv, TypeOK
  <2>2. Len(Append(free_table, reqs[c].slot)) = Len(free_table) + 1 /\ Len(free_table) \in Nat
    BY <2>1, AppendElements, LenProperties
  <2>3. QED BY <2>1, <2>2
<1>5. Flying(c) <= 2
  <2>1. inflight[c] \in {1, 2} BY <1>2 DEF IInv, TypeOK
  <2>2. QED BY <2>1, <1>2 DEF Flying
<1>6. CASE ProcessTerminal
  <2>1. c \in terminal /\ reqs' = reqs /\ ReleaseIfLanded(terminal, reqs[c])
    BY <1>0, <1>6 DEF ProcessTerminal, Discarded
  <2>2. inflight[c] = 1 /\ c \notin DOMAIN inflight' BY <1>2, <2>1 DEF HInv, TerminalOnce
  <2>3. FreeReqResources(c, reqs[c], TRUE) BY <1>0, <2>1, <2>2 DEF ReleaseIfLanded
  <2>4. c \in Newest /\ Newest' = Newest \ {c} BY <1>3, <1>4, <2>3 DEF FreeReqResources
  <2>5. Flying(c) = 1 BY <1>2, <2>2 DEF Flying
  <2>6. /\ reqs[c].cached \in Nat /\ reqs[c].host \in Texts /\ Len(reqs[c].host) \in Nat
        /\ reqs[c].cached < Len(reqs[c].host) + Flying(c) \/ reqs[c].cached <= Len(reqs[c].host)
    BY <2>4, CachedKnown
  <2>7. PICK r : r = reqs[c] OBVIOUS
  <2>8. FreeReqResources(c, r, TRUE) /\ \A o \in Newest' : reqs'[o] = reqs[o] BY <2>1, <2>3, <2>7
  <2>9. reqs[c].cached <= Len(reqs[c].host) BY <2>5, <2>6
  <2>10. r.handle = reqs[c].handle /\ r.host \in Texts /\ r.cached \in Nat /\ r.cached <= Len(r.host)
    BY <2>6, <2>7, <2>9
  <2>11. QED BY <2>4, <2>8, <2>10, ReleasedCount
<1>7. CASE ProcessChunk
  <2>1. UNCHANGED <<reqs, cm, free_table>> BY <1>7 DEF ProcessChunk, memory
  <2>2. Newest' = Newest BY <2>1, <1>3, <1>4
  <2>3. QED BY <2>1, <2>2, QuietCount
<1>8. CASE ProcessToken
  <2> DEFINE token == Head(proc.tokens)
             r     == [reqs[c] EXCEPT !.host = Append(@, token)]
             kept  == KeepCached(cm, r, page_table[r.slot])
  <2>1. token \in Tokens \cup {None}
    <3>1. proc.tokens \in Seq(Tokens \cup {None}) /\ Len(proc.tokens) = Len(proc.reqs)
      BY DEF SInv, ResultsTyped
    <3>2. 1 \in 1 .. Len(proc.tokens)
      <4>1. DOMAIN proc.reqs = 1 .. Len(proc.reqs) BY LenProperties DEF IInv, TypeOK
      <4>2. QED BY <4>1, <3>1, <1>2
    <3>3. QED BY <3>1, <3>2, <1>2, ElementOfSeq
  <2>2. reqs[c].class = "Req" /\ \A o \in DOMAIN reqs : o # c => reqs'[o] = reqs[o]
    BY <1>0, <1>8, TokenEffects
  <2>3. c \in Newest
    <3>1. c \in Holders BY <1>2 DEF Holders, Referenced
    <3>2. QED BY <3>1, <2>2, NewerNewest
  <2>4. /\ reqs[c].cached \in Nat /\ reqs[c].host \in Texts /\ Len(reqs[c].host) \in Nat
        /\ reqs[c].cached < Len(reqs[c].host) + Flying(c) \/ reqs[c].cached <= Len(reqs[c].host)
    BY <2>3, CachedKnown
  <2>5. \/ UNCHANGED <<free_table, cm, page_table>> /\ reqs' = [reqs EXCEPT ![c] = r]
        \/ FreeReqResources(c, r, TRUE) /\ reqs' = [reqs EXCEPT ![c] = r]
        \/ /\ cm' = kept.cm /\ page_table' = [page_table EXCEPT ![r.slot] = kept.row]
           /\ reqs' = [reqs EXCEPT ![c] = [r EXCEPT !.handle = kept.handle]]
           /\ UNCHANGED free_table
    BY <1>0, <1>8 DEF ProcessToken, ReleaseIfLanded
  <2> HIDE DEF token
  <2>6. /\ r.handle = reqs[c].handle /\ r.slot = reqs[c].slot /\ r.cached = reqs[c].cached
        /\ r.host \in Texts /\ Len(r.host) = Len(reqs[c].host) + 1
        /\ \A h : [r EXCEPT !.handle = h].handle = h
    BY <1>2, <2>1, <2>4, TokenRead
  <2> HIDE DEF r
  <2>7. r.cached \in Nat /\ r.cached <= Len(r.host) BY <2>4, <2>6, <1>2, <1>5
  <2>8. CASE UNCHANGED <<free_table, cm, page_table>> /\ reqs' = [reqs EXCEPT ![c] = r]
    <3>1. Newest' = Newest BY <2>8, <1>3, <1>4
    <3>2. reqs'[c] = r BY <2>8, <1>2
    <3>3. \A o \in Newest : reqs'[o].handle = reqs[o].handle BY <2>2, <2>6, <3>2, SlotsApart
    <3>4. QED BY <3>1, <3>3, <2>8, QuietCount
  <2>9. CASE FreeReqResources(c, r, TRUE) /\ reqs' = [reqs EXCEPT ![c] = r]
    <3>1. Newest' = Newest \ {c} BY <2>9, <1>3, <1>4, <2>6 DEF FreeReqResources
    <3>2. \A o \in Newest' : reqs'[o] = reqs[o] BY <2>2, <3>1, SlotsApart
    <3>3. QED BY <2>3, <2>6, <2>7, <2>9, <3>1, <3>2, ReleasedCount
  <2>10. CASE /\ cm' = kept.cm /\ page_table' = [page_table EXCEPT ![r.slot] = kept.row]
              /\ reqs' = [reqs EXCEPT ![c] = [r EXCEPT !.handle = kept.handle]]
              /\ UNCHANGED free_table
    <3>1. Newest' = Newest BY <2>10, <1>3, <1>4
    <3>2. \A o \in Newest \ {c} : reqs'[o] = reqs[o] BY <2>2, SlotsApart
    <3>3. reqs'[c] = [r EXCEPT !.handle = kept.handle] BY <2>10, <1>2
    <3>4. PICK h : h = kept.handle OBVIOUS
    <3>5. reqs'[c].handle = h BY <3>3, <3>4, <2>6
    <3>6. QED BY <2>3, <2>6, <2>7, <2>10, <3>1, <3>2, <3>4, <3>5, KeptCount
  <2>11. QED BY <2>5, <2>8, <2>9, <2>10
<1>9. QED BY <1>6, <1>7, <1>8


\* A handle that passes from one request to another is still one handle.
LEMMA CountedRenamed ==
  ASSUME NEW t, NEW H, NEW h, Counted(t, H, h), NEW a \in H, NEW b, NEW h1,
         h1[b] = h[a], \A o \in H \ {a} : h1[o] = h[o]
  PROVE  Counted(t, (H \ {a}) \cup {b}, h1)
<1> DEFINE G == (H \ {a}) \cup {b}
<1>1. ASSUME b \notin H \ {a}
      PROVE  Reached(t, G, h1) = Reached(t, H, h)
  <2>1. \A p : (\E o \in G : IsPrefix(p, h1[o])) <=> (\E o \in H : IsPrefix(p, h[o]))
    OBVIOUS
  <2> HIDE DEF G
  <2>2. QED BY <2>1 DEF Reached
<1>2. ASSUME b \in H \ {a}
      PROVE  Reached(t, G, h1) = Reached(t, H, h)
  <2>1. h1[b] = h[b] /\ h[b] = h[a] BY <1>2
  <2>2. \A p : (\E o \in G : IsPrefix(p, h1[o])) <=> (\E o \in H : IsPrefix(p, h[o]))
    BY <1>2, <2>1
  <2> HIDE DEF G
  <2>3. QED BY <2>2 DEF Reached
<1>3. QED BY <1>1, <1>2 DEF Counted

LEMMA AdmitChunkCount ==
  ASSUME IInv, IInv', SInv, XInv, LInv, HInv, CInv, NInv, AdmitChunk
  PROVE  NInv'
<1> DEFINE q    == Candidate
           c    == q.chunk
           r    == reqs[c]
           id   == <<q.uid, c[2] + 1>>
           row  == SubSeq(token_pool[r.slot], 1, r.cached)
<1>1. /\ pc = "admit" /\ HasCandidate /\ c # None /\ UNCHANGED <<cm, page_table>>
      /\ AddOneReq(q, id, r.slot, r.handle, r.cached, row)
  BY DEF AdmitChunk
<1>2. /\ q \in PendingType /\ (\E k \in DOMAIN pending : q = pending[k]) /\ batch.reqs = <<>>
      /\ \A o \in ToSet(adder.reqs) : o[1] # q.uid
      /\ c \in DOMAIN reqs /\ c[1] = q.uid /\ r.class = "ChunkedReq"
  BY <1>1, CandidateAlone
<1>3. /\ c \in Newest /\ id \notin Newest /\ Newest' = (Newest \ {c}) \cup {id}
      /\ \A o \in Holders : reqs'[o] = reqs[o]
  BY AdmitChunkSlots
<1>4. c[2] + 1 \in Nat
  <2>1. c \in Objs BY <1>2 DEF IInv, TypeOK
  <2>2. QED BY <2>1 DEF Objs
<1>5. c \notin Handed BY <1>2, EmptyFacts DEF Handed
<1>6. r.host \in Texts /\ Len(r.host) = r.cached
  <2>1. Stored(c) BY <1>3 DEF HInv
  <2>2. Cut(q) BY <1>1, <1>2 DEF HInv, QueuePrefixes
  <2>3. QED BY <1>2, <1>5, <2>1, <2>2 DEF Stored, Cut
<1>7. r.cached \in Nat /\ r.cached < Len(q.ids)
  <2>1. r.cached \in Nat BY <1>6, LenProperties DEF Texts
  <2>2. r.cached < Len(q.ids) BY <1>1, <1>2, EmptyFacts DEF LInv, QueueLengths
  <2>3. QED BY <2>1, <2>2
<1>8. PICK chunk \in Nat \ {0}, class \in {"Req", "ChunkedReq"} :
        Made(q, id, r.slot, r.handle, r.cached, row, chunk, class)
  <2> HIDE DEF row, r
  <2>1. QED BY <1>1, <1>4, <1>7, AddedObject
<1>9. reqs'[id].handle = r.handle
  <2>1. chunk \in Nat /\ q \in PendingType /\ r.cached \in Nat BY <1>2, <1>7
  <2> HIDE DEF row, r, q, id
  <2>2. IsMade(reqs'[id], q, r.slot, r.handle, r.cached, chunk) BY ONLY <2>1, <1>8, MadeHost
  <2>3. QED BY <2>2 DEF IsMade
<1>10. PICK h1, h, H, a, b : h1 = Handles' /\ h = Handles /\ H = Newest /\ a = c /\ b = id OBVIOUS
<1>11. a \in H /\ h1[b] = h[a] /\ \A o \in H \ {a} : h1[o] = h[o]
  <2>1. Newest \subseteq Holders BY DEF Newest
  <2>2. QED BY <2>1, <1>3, <1>9, <1>10 DEF Handles
<1>12. PICK t : t = cm.tree OBVIOUS
<1>13. Counted(t, H, h) BY <1>10, <1>12 DEF NInv
<1>14. Counted(t, (H \ {a}) \cup {b}, h1) BY ONLY <1>11, <1>13, CountedRenamed
<1>15. cm'.tree = t BY <1>1, <1>12
<1>16. Newest' = (H \ {a}) \cup {b} BY <1>3, <1>10
<1>17. QED BY <1>10, <1>14, <1>15, <1>16 DEF NInv

\* The match of the queue's candidate adds its handle.
LEMMA AdmitNewCount ==
  ASSUME IInv, IInv', SInv, XInv, LInv, HInv, CInv, NInv, AdmitNew
  PROVE  NInv'
<1> DEFINE q      == Candidate
           id     == <<q.uid, 0>>
           m      == MatchReq(cm, q.ids)
           cached == Len(m.node) * PageSize
           slot   == free_table[Len(free_table)]
           row    == SubSeq(q.ids, 1, cached)
           t      == cm.tree
           t1     == LockPath(m.tree, m.node)
<1>1. /\ pc = "admit" /\ HasCandidate /\ cm' = [cm EXCEPT !.tree = t1]
      /\ AddOneReq(q, id, slot, m.node, cached, row)
  BY DEF AdmitNew
<1>2. q \in PendingType /\ q.ids \in Seq(Tokens) \ {<<>>}
  <2>1. q \in PendingType BY <1>1, CandidateAlone
  <2>2. QED BY <2>1 DEF PendingType
<1>3. /\ \A o \in Holders : reqs'[o] = reqs[o]
      /\ id \notin Newest /\ Newest' = Newest \cup {id}
  BY AdmitNewSlots
<1>4. cached \in Nat /\ cached < Len(q.ids) BY <1>2, MatchLength
<1>5. IsTree(t, Texts) /\ Locks(t, Newest, Handles) /\ IsFiniteSet(Newest)
      /\ cm = [free |-> cm.free, tree |-> t, lazy |-> cm.lazy] /\ Counted(t, Newest, Handles)
  BY NewestFinite DEF CInv, TreeHolds, NInv
<1>6. Matched(t, q.ids, m) BY <1>2, <1>5, MatchedTree
<1>7. PICK u, n : u = m.tree /\ n = m.node OBVIOUS
<1>8. Counted(u, Newest, Handles) BY <1>2, <1>5, <1>7, PrefixMatched
<1> HIDE DEF m
<1>9. PICK chunk \in Nat \ {0}, class \in {"Req", "ChunkedReq"} :
        Made(q, id, slot, m.node, cached, row, chunk, class)
  <2>1. 0 \in Nat OBVIOUS
  <2> HIDE DEF row, cached, slot
  <2>2. QED BY <1>1, <1>4, <2>1, AddedObject
<1>10. reqs'[id].handle = n
  <2>1. chunk \in Nat /\ q \in PendingType /\ cached \in Nat BY <1>2, <1>4, <1>9
  <2> HIDE DEF row, cached, slot, q, id
  <2>2. Made(q, id, slot, n, cached, row, chunk, class) BY <1>9, <1>7
  <2>3. IsMade(reqs'[id], q, slot, n, cached, chunk) BY ONLY <2>1, <2>2, MadeHost
  <2>4. QED BY <2>3 DEF IsMade
<1>11. PICK h1, h, H, d : h1 = Handles' /\ h = Handles /\ H = Newest /\ d = id OBVIOUS
<1>12. d \notin H /\ h1[d] = n /\ \A o \in H : h1[o] = h[o]
  <2>1. Newest \subseteq Holders BY DEF Newest
  <2>2. QED BY <2>1, <1>3, <1>10, <1>11 DEF Handles
<1>13. /\ IsTree(u, Texts) /\ IsFiniteSet(H) /\ Locks(u, H, h) /\ Counted(u, H, h)
       /\ n \in Nodes(u) \cup {<<>>}
  BY <1>5, <1>6, <1>7, <1>8, <1>11 DEF Matched
<1>14. Counted(LockPath(u, n), H \cup {d}, h1) BY ONLY <1>12, <1>13, LockedCount
<1>15. cm'.tree = LockPath(u, n)
  <2>1. PICK t2 : t2 = t1 OBVIOUS
  <2>2. cm' = [cm EXCEPT !.tree = t2] BY <1>1, <2>1
  <2> HIDE DEF t1, t
  <2>3. cm'.tree = t2 BY <2>2, <1>5
  <2>4. QED BY <2>1, <2>3, <1>7 DEF t1
<1>16. Newest' = H \cup {d} BY <1>3, <1>11
<1>17. QED BY <1>11, <1>14, <1>15, <1>16 DEF NInv

LEMMA SelectionCount ==
  ASSUME IInv, IInv', SInv, XInv, LInv, HInv, CInv, NInv,
         SelectDecode \/ SelectNothing \/ StartPrefill \/ StopAdmission
  PROVE  NInv'
<1>1. Newest' = Newest BY SelectionSlots, StartPrefillSlots, StopAdmissionSlots
<1>2. UNCHANGED reqs
  BY DEF SelectDecode, SelectNothing, StartPrefill, StopAdmission, memory
<1>3. \/ cm' = cm
      \/ /\ pc = "admit" /\ HasCandidate
         /\ cm' = [cm EXCEPT !.tree = MatchReq(cm, Candidate.ids).tree]
  BY DEF SelectDecode, SelectNothing, StartPrefill, StopAdmission, Refused, memory
<1>4. cm = [free |-> cm.free, tree |-> cm.tree, lazy |-> cm.lazy] /\ IsTree(cm.tree, Texts)
  BY DEF CInv, TreeHolds
<1>5. CASE cm' = cm BY <1>1, <1>2, <1>5, QuietCount
<1>6. CASE /\ pc = "admit" /\ HasCandidate
           /\ cm' = [cm EXCEPT !.tree = MatchReq(cm, Candidate.ids).tree]
  <2>1. Candidate.ids \in Seq(Tokens) \ {<<>>}
    <3>1. Candidate \in PendingType BY <1>6, CandidateAlone
    <3>2. QED BY <3>1 DEF PendingType
  <2>2. PICK u : u = MatchReq(cm, Candidate.ids).tree OBVIOUS
  <2>3. Counted(u, Newest, Handles) BY <1>4, <2>1, <2>2, PrefixMatched DEF NInv
  <2>4. cm'.tree = u BY <1>4, <1>6, <2>2
  <2>5. \A o \in Newest : Handles'[o] = Handles[o] BY <1>1, <1>2 DEF Handles
  <2>6. QED BY <1>1, <2>3, <2>4, <2>5, CountedSame DEF NInv
<1>7. QED BY <1>3, <1>5, <1>6

\* What the allocator evicts nobody reaches.
LEMMA AllocatedCount ==
  ASSUME NEW c, c = [free |-> c.free, tree |-> c.tree, lazy |-> c.lazy], NEW t, t = c.tree,
         IsTree(t, Texts), NEW H, IsFiniteSet(H), NEW h, Locks(t, H, h), Counted(t, H, h),
         NEW needed, NEW a \in Allocations(c, needed)
  PROVE  Counted(a.cm.tree, H, h)
<1>1. ASSUME needed - Len(c.free) <= 0
      PROVE  a.cm.tree = t
  <2>1. PICK g : g = SubSeq(c.free, needed + 1, Len(c.free)) OBVIOUS
  <2>2. PICK s : s = SubSeq(c.free, 1, needed) OBVIOUS
  <2>3. a = [pages |-> s, cm |-> [c EXCEPT !.free = g]] BY <1>1, <2>1, <2>2 DEF Allocations
  <2>4. a.cm = [c EXCEPT !.free = g] BY <2>3
  <2>5. a.cm = [free |-> g, tree |-> t, lazy |-> c.lazy] BY <2>4
  <2>6. QED BY <2>5
<1>2. ASSUME ~(needed - Len(c.free) <= 0)
      PROVE  \E S \in Evictions(t, needed - Len(c.free)) : a.cm.tree = RemoveNodes(t, S)
  <2> DEFINE Merged(S) == Ascending(c.free \o SetToSeq(PagesOn(c.tree, S)))
             Handout(S) == [pages |-> SubSeq(Merged(S), 1, needed),
                            cm |-> [c EXCEPT !.free = SubSeq(Merged(S), needed + 1, Len(Merged(S))),
                                             !.tree = RemoveNodes(@, S)]]
  <2>0. Allocations(c, needed) = {Handout(S) : S \in Evictions(c.tree, needed - Len(c.free))}
    BY ONLY <1>2, Zenon DEF Allocations
  <2> HIDE DEF Handout
  <2>1. PICK S \in Evictions(t, needed - Len(c.free)) : a = Handout(S) BY <2>0
  <2>2. PICK free : free = Ascending(c.free \o SetToSeq(PagesOn(c.tree, S))) OBVIOUS
  <2>3. PICK g, s : g = SubSeq(free, needed + 1, Len(free)) /\ s = SubSeq(free, 1, needed) OBVIOUS
  <2>4. PICK u : u = RemoveNodes(t, S) OBVIOUS
  <2>5. a = [pages |-> s, cm |-> [c EXCEPT !.free = g, !.tree = u]]
    BY <2>1, <2>2, <2>3, <2>4 DEF Handout
  <2>6. a.cm = [c EXCEPT !.free = g, !.tree = u] BY <2>5
  <2>7. a.cm = [free |-> g, tree |-> u, lazy |-> c.lazy] BY <2>6
  <2>8. QED BY <2>4, <2>7
<1>3. CASE needed - Len(c.free) <= 0 BY <1>1, <1>3
<1>4. CASE ~(needed - Len(c.free) <= 0)
  <2>1. PICK S \in Evictions(t, needed - Len(c.free)) : a.cm.tree = RemoveNodes(t, S) BY <1>2, <1>4
  <2>2. S \subseteq {n \in Nodes(t) : t.ref[n] = 0} /\ \A n \in S, m \in Nodes(t) : IsPrefix(n, m) => m \in S
    BY <2>1 DEF Evictions
  <2>3. PICK t1 : t1 = RemoveNodes(t, S) OBVIOUS
  <2>4. Counted(t1, H, h) BY <2>2, <2>3, RemovedCount
  <2>5. QED BY <2>1, <2>3, <2>4
<1>5. QED BY <1>3, <1>4

LEMMA ForwardCount ==
  ASSUME IInv, IInv', SInv, XInv, LInv, HInv, CInv, NInv, Forward
  PROVE  NInv'
<1> DEFINE objs == batch.reqs
<1>1. Newest' = Newest BY ForwardSlots
<1>2. PICK a \in Allocations(cm, NeededPages(Fields(objs))), s \in Samples(objs) :
        cm' = a.cm /\ Launched(s)
  BY DEF Forward, Launched
<1>3. PICK c, t, H, h, needed : /\ c = cm /\ t = cm.tree /\ H = Newest /\ h = Handles
                                /\ needed = NeededPages(Fields(objs))
  OBVIOUS
<1>4. /\ c = [free |-> c.free, tree |-> c.tree, lazy |-> c.lazy] /\ t = c.tree /\ IsTree(t, Texts)
      /\ IsFiniteSet(H) /\ Locks(t, H, h) /\ Counted(t, H, h) /\ a \in Allocations(c, needed)
  BY <1>2, <1>3, NewestFinite DEF CInv, TreeHolds, NInv
<1>5. Counted(a.cm.tree, H, h) BY ONLY <1>4, AllocatedCount
<1>6. \A o \in Newest : reqs'[o].handle = reqs[o].handle
  <2>1. ASSUME NEW o \in Newest PROVE reqs'[o].handle = reqs[o].handle
    <3>1. IsReq(reqs[o]) /\ o \in DOMAIN reqs BY SlotsApart DEF IInv, Placement, ObjectsPlaced
    <3>2. reqs'[o] = IF o \in ToSet(objs) THEN Completed(reqs[o]) ELSE reqs[o]
      BY <1>2, <3>1 DEF Launched
    <3>3. Completed(reqs[o]).handle = reqs[o].handle BY <3>1 DEF IsReq, ReqFields, Completed
    <3>4. QED BY <3>2, <3>3
  <2>2. QED BY <2>1
<1>7. \A o \in H : Handles'[o] = h[o] BY <1>1, <1>3, <1>6 DEF Handles
<1>8. Counted(cm'.tree, H, Handles') BY <1>2, <1>5, <1>7, CountedSame
<1>9. QED BY <1>1, <1>3, <1>8 DEF NInv

LEMMA IdleCount ==
  ASSUME IInv, IInv', SInv, XInv, LInv, HInv, CInv, NInv,
         ForwardOutOfPages \/ NoForward \/ EndProcess
  PROVE  NInv'
<1>1. CASE ForwardOutOfPages \/ NoForward
  <2>1. UNCHANGED <<reqs, cm>> BY <1>1 DEF ForwardOutOfPages, NoForward, memory
  <2>2. Newest' = Newest BY <1>1, NoForwardSlots
  <2>3. QED BY <2>1, <2>2, QuietCount
<1>2. CASE EndProcess
  <2>1. Newest' = Newest /\ \A o \in Newest : reqs'[o] = reqs[o]
    BY <1>2, EndProcessSlots DEF Newest
  <2>2. PICK free : cm' = [cm EXCEPT !.free = free, !.lazy = <<>>] BY <1>2 DEF EndProcess, FlushLazy
  <2>3. cm'.tree = cm.tree BY <2>2 DEF CInv, TreeHolds
  <2>4. QED BY <2>1, <2>3, QuietCount
<1>3. QED BY <1>1, <1>2

LEMMA InitNInv == Init => NInv
<1> SUFFICES ASSUME Init PROVE NInv OBVIOUS
<1>1. cm.tree = EmptyTree BY DEF Init, InitCache
<1>2. CachedPaths(EmptyTree) = {} /\ EmptyTree.evictable = 0 /\ EmptyTree.protected = 0
  BY DEF EmptyTree, CachedPaths
<1>3. PICK t : t = cm.tree OBVIOUS
<1>4. CachedPaths(t) = {} /\ t.evictable = 0 /\ t.protected = 0 BY <1>1, <1>2, <1>3
<1>5. Reached(t, Newest, Handles) = {} BY <1>4 DEF Reached
<1>6. IsFiniteSet({}) /\ Cardinality({}) = 0 BY FS_EmptySet
<1>7. CachedPaths(t) \ Reached(t, Newest, Handles) = {} BY <1>4
<1>8. QED BY <1>3, <1>4, <1>5, <1>6, <1>7 DEF NInv, Counted

LEMMA NextNInv ==
  IInv /\ SInv /\ XInv /\ LInv /\ HInv /\ CInv /\ NInv /\ [Next]_vars => NInv'
<1> SUFFICES ASSUME IInv, SInv, XInv, LInv, HInv, CInv, NInv, [Next]_vars PROVE NInv' OBVIOUS
<1>1. IInv' BY NextIInv
<1>2. CASE UNCHANGED vars
  <2>1. UNCHANGED <<control, memory>> BY <1>2 DEF vars
  <2>2. Newest' = Newest BY <2>1 DEF control, memory, Newest, Holders, Referenced
  <2>3. UNCHANGED <<reqs, cm>> BY <2>1 DEF memory
  <2>4. QED BY <2>2, <2>3, QuietCount
<1>3. CASE Receive BY <1>1, <1>3, ReceiveCount
<1>4. CASE SelectDecode \/ SelectNothing \/ StartPrefill \/ StopAdmission BY <1>1, <1>4, SelectionCount
<1>5. CASE AdmitChunk \/ AdmitNew BY <1>1, <1>5, AdmitChunkCount, AdmitNewCount
<1>6. CASE Forward BY <1>1, <1>6, ForwardCount
<1>7. CASE ForwardOutOfPages \/ NoForward \/ EndProcess BY <1>1, <1>7, IdleCount
<1>8. CASE ProcessTerminal \/ ProcessChunk \/ ProcessToken BY <1>1, <1>8, ProcessCount
<1>9. QED BY <1>2, <1>3, <1>4, <1>5, <1>6, <1>7, <1>8 DEF Next, Step


-----------------------------------------------------------------------------
(* The lazy free region.                                                   *)

\* Pages are set aside only while results are processed.
LazyClosed == pc # "process" => cm.lazy = <<>>

LEMMA InitLazy == Init => LazyClosed
BY DEF Init, InitCache, LazyClosed

LEMMA NextLazy == IInv /\ CInv /\ LazyClosed /\ [Next]_vars => LazyClosed'
<1> SUFFICES ASSUME IInv, CInv, LazyClosed, [Next]_vars PROVE LazyClosed' OBVIOUS
<1>0. cm = [free |-> cm.free, tree |-> cm.tree, lazy |-> cm.lazy] BY DEF CInv, TreeHolds
<1>1. CASE UNCHANGED vars BY <1>1 DEF vars, control, memory, LazyClosed
<1>2. CASE Receive
  <2>1. PICK u \in Uids : ReceiveAbort(u) \/ \E w \in Workload : ReceiveUser(u, w) BY <1>2 DEF Receive
  <2>2. CASE AbortNow(u)
    <3>1. PICK c : FreeReqResources(c, reqs[c], FALSE) BY <2>2 DEF AbortNow
    <3>2. PICK t1, more : cm' = FreePages([cm EXCEPT !.tree = t1], more, FALSE)
      BY <3>1 DEF FreeReqResources, ReleaseCached
    <3>3. PICK free : cm' = [[cm EXCEPT !.tree = t1] EXCEPT !.free = free] BY <3>2 DEF FreePages
    <3>4. cm'.lazy = cm.lazy BY <3>3, <1>0
    <3>5. pc = "recv" BY <2>2 DEF AbortNow
    <3>6. QED BY <3>4, <3>5 DEF LazyClosed
  <2>3. CASE AbortNothing(u) \/ AbortInflight(u)
    BY <2>3 DEF AbortNothing, AbortInflight, memory, LazyClosed
  <2>4. CASE \E w \in Workload : ReceiveUser(u, w)
    BY <2>4 DEF ReceiveUser, memory, LazyClosed
  <2>5. QED BY <2>1, <2>2, <2>3, <2>4 DEF ReceiveAbort
<1>3. CASE SelectDecode \/ SelectNothing \/ StartPrefill
  BY <1>3 DEF SelectDecode, SelectNothing, StartPrefill, StartSelection, memory, LazyClosed
<1>4. CASE StopAdmission
  <2>1. pc = "admit" /\ \E t1 : cm' = cm \/ cm' = [cm EXCEPT !.tree = t1]
    BY <1>4 DEF StopAdmission, Refused
  <2>2. cm'.lazy = cm.lazy BY <2>1, <1>0
  <2>3. QED BY <2>1, <2>2 DEF LazyClosed
<1>5. CASE AdmitChunk BY <1>5 DEF AdmitChunk, LazyClosed
<1>6. CASE AdmitNew
  <2>1. pc = "admit" /\ \E t1 : cm' = [cm EXCEPT !.tree = t1] BY <1>6 DEF AdmitNew
  <2>2. cm'.lazy = cm.lazy BY <2>1, <1>0
  <2>3. QED BY <2>1, <2>2 DEF LazyClosed
<1>7. CASE Forward BY <1>7 DEF Forward, Launch, LazyClosed
<1>8. CASE NoForward \/ ForwardOutOfPages
  BY <1>8 DEF NoForward, ForwardOutOfPages, memory, LazyClosed
<1>9. CASE EndProcess
  <2>1. PICK free : cm' = [cm EXCEPT !.free = free, !.lazy = <<>>] BY <1>9 DEF EndProcess, FlushLazy
  <2>2. cm'.lazy = <<>> BY <2>1, <1>0
  <2>3. QED BY <2>2 DEF LazyClosed
<1>10. CASE ProcessTerminal \/ ProcessChunk \/ ProcessToken
  <2>1. pc = "process" /\ pc' = pc BY <1>10 DEF ProcessTerminal, ProcessChunk, ProcessToken, TakeResult
  <2>2. QED BY <2>1 DEF LazyClosed
<1>11. QED BY <1>1, <1>2, <1>3, <1>4, <1>5, <1>6, <1>7, <1>8, <1>9, <1>10 DEF Next, Step

-----------------------------------------------------------------------------
(* The theorems.                                                           *)

LEMMA CounterInvariant == Spec => [](IInv /\ XInv /\ CInv /\ PInv /\ NInv /\ LazyClosed)
<1>1. Spec => []SInv BY InitSInv, NextSInv, SchedulerInvariant, PTL DEF Spec
<1>2. Spec => []NInv BY <1>1, InitNInv, NextNInv, CacheInvariant, PTL DEF Spec
<1>3. Spec => []LazyClosed BY InitLazy, NextLazy, CacheInvariant, PTL DEF Spec
<1>4. QED BY <1>2, <1>3, CacheInvariant, PTL

\* The tree keeps its shape, and evictable_size and protected_size, which lock_handle,
\* insert_prefix and evict each change by what they see, stay the pages below
\* unreferenced and below referenced nodes (RadixPrefixCache.size_info).
THEOREM TreeCorrect == Spec => []TreeExact
<1>1. IInv /\ CInv /\ NInv => TreeExact
  <2> SUFFICES ASSUME IInv, CInv, NInv PROVE TreeExact OBVIOUS
  <2>1. PICK t, H, h : t = cm.tree /\ H = Newest /\ h = Handles OBVIOUS
  <2>2. IsTree(t, Texts) /\ IsFiniteSet(H) /\ Locks(t, H, h) /\ Counted(t, H, h)
    BY <2>1, NewestFinite DEF CInv, TreeHolds, NInv
  <2>3. ExactCounters(t) BY ONLY <2>2, CountedExact
  <2>4. WellFormedTree(t) BY ONLY <2>2, TreeIsWellFormed
  <2>5. QED BY <2>1, <2>3, <2>4 DEF TreeExact
<1>2. QED BY <1>1, CounterInvariant, PTL

\* A list that names nothing twice is as long as the set it lists.
LEMMA ListCount ==
  ASSUME NEW S, NEW s \in Seq(S), \A i, j \in DOMAIN s : s[i] = s[j] => i = j
  PROVE  IsFiniteSet(ToSet(s)) /\ Cardinality(ToSet(s)) = Len(s)
<1>1. PICK n : n = Len(s) OBVIOUS
<1>2. n \in Nat /\ DOMAIN s = 1 .. n /\ s \in [1 .. n -> S] BY <1>1, LenProperties
<1>3. PICK I, R : I = 1 .. n /\ R = ToSet(s) OBVIOUS
<1>4. IsFiniteSet(I) /\ Cardinality(I) = n
  <2>1. IsFiniteSet(1 .. n) /\ Cardinality(1 .. n) = IF 1 > n THEN 0 ELSE n - 1 + 1
    BY <1>2, FS_Interval
  <2>2. QED BY <1>2, <1>3, <2>1
<1>5. s \in Bijection(I, R)
  <2>1. R = {s[i] : i \in I} BY <1>2, <1>3 DEF ToSet
  <2>2. s \in [I -> R] BY <1>2, <1>3, <2>1
  <2>3. \A r \in R : \E i \in I : s[i] = r BY <2>1
  <2>4. \A i, j \in I : s[i] = s[j] => i = j BY <1>2, <1>3
  <2>5. QED BY <2>2, <2>3, <2>4 DEF Bijection, Injection, Surjection, IsInjective
<1>6. ExistsBijection(I, R) BY <1>5 DEF ExistsBijection
<1>7. IsFiniteSet(R) /\ Cardinality(R) = Cardinality(I) BY <1>4, <1>6, FS_Bijection
<1>8. QED BY <1>1, <1>3, <1>4, <1>7

\* A tree that gives each page one path has as many pages as paths.
LEMMA PagesCount ==
  ASSUME NEW t, IsFiniteSet(CachedPaths(t)), PageOnce(t)
  PROVE  IsFiniteSet(CachePages(t)) /\ Cardinality(CachePages(t)) = Cardinality(CachedPaths(t))
<1>1. PICK C, R, f : C = CachedPaths(t) /\ R = CachePages(t) /\ f = [p \in C |-> t.page[p]] OBVIOUS
<1>2. f \in Bijection(C, R)
  <2>1. R = {f[p] : p \in C} BY <1>1 DEF CachePages
  <2>2. f \in [C -> R] BY <1>1, <2>1
  <2>3. \A r \in R : \E p \in C : f[p] = r BY <2>1
  <2>4. \A p, q \in C : f[p] = f[q] => p = q BY <1>1 DEF PageOnce
  <2>5. QED BY <2>2, <2>3, <2>4 DEF Bijection, Injection, Surjection, IsInjective
<1>3. ExistsBijection(C, R) BY <1>2 DEF ExistsBijection
<1>4. IsFiniteSet(R) /\ Cardinality(R) = Cardinality(C) BY <1>1, <1>3, FS_Bijection
<1>5. QED BY <1>1, <1>4

\* Where the loop blocks nobody holds anything.
LEMMA IdleHoldsNothing ==
  ASSUME IInv, pc = "recv", Blocking
  PROVE  Holders = {} /\ Newest = {} /\ inflight = <<>> /\ terminal = {}
<1>1. /\ adder.reqs = <<>> /\ batch.reqs = <<>> /\ proc.reqs = <<>>
      /\ last.reqs = <<>> /\ pending = <<>> /\ running = {}
  BY DEF IInv, Placement, AdderPlaced, BatchesPlaced, Blocking
<1>2. DOMAIN inflight = {} BY <1>1, EmptyFacts DEF IInv, InflightExact
<1>3. inflight = <<>>
  <2>1. inflight = [o \in DOMAIN inflight |-> inflight[o]] BY DEF IInv, TypeOK
  <2>2. DOMAIN <<>> = {} OBVIOUS
  <2>3. QED BY <1>2, <2>1, <2>2
<1>4. terminal = {} BY <1>2 DEF IInv, TerminalDrains
<1>5. {pending[i].chunk : i \in DOMAIN pending} = {} BY <1>1
<1>6. Holders = {} BY <1>1, <1>2, <1>4, <1>5, EmptyFacts DEF Holders, Referenced
<1>7. QED BY <1>3, <1>4, <1>6 DEF Newest

\* What the loop asserts when it blocks, and the rest of what must have come back:
\* every page is free or in the cache, nothing is locked, set aside, in flight or marked,
\* and every table slot is free (Scheduler.run_when_idle, CacheManager.check_integrity).
THEOREM IdleCorrect == Spec => []IdleIntegrity
<1>1. IInv /\ XInv /\ CInv /\ PInv /\ NInv /\ LazyClosed => IdleIntegrity
  <2> SUFFICES ASSUME IInv, XInv, CInv, PInv, NInv, LazyClosed, pc = "recv", Blocking
               PROVE  /\ Len(cm.free) + Cardinality(CachedPaths(cm.tree)) = NumPages
                      /\ cm.tree.protected = 0 /\ cm.lazy = <<>>
                      /\ inflight = <<>> /\ terminal = {} /\ Len(free_table) = MaxRunning
    BY DEF IdleIntegrity
  <2>1. Holders = {} /\ Newest = {} /\ inflight = <<>> /\ terminal = {} BY IdleHoldsNothing
  <2>2. cm.lazy = <<>> BY DEF LazyClosed
  <2>3. PICK t, H, h : t = cm.tree /\ H = Newest /\ h = Handles OBVIOUS
  <2>4. Counted(t, H, h) BY <2>3 DEF NInv
  <2>5. t.protected = 0
    <3>1. Reached(t, H, h) = {} BY <2>1, <2>3 DEF Reached
    <3>2. QED BY <2>4, <3>1, FS_EmptySet DEF Counted
  <2>6. Len(cm.free) + Cardinality(CachedPaths(t)) = NumPages
    <3>1. PICK s, F, T, own : s = cm.free /\ F = ToSet(s) /\ T = CachePages(t) /\ own = OwnPages
      OBVIOUS
    <3>2. /\ s \in Seq(Pages) /\ IsInjective(s) /\ PageOnce(t)
          /\ Parted(F, ToSet(cm.lazy), T, H, own)
      BY <2>3, <3>1 DEF PInv, Shared
    <3>3. F \cup T = Pages /\ F \cap T = {}
      <4>1. ToSet(cm.lazy) = {} BY <2>2, EmptyFacts
      <4>2. H = {} BY <2>1, <2>3
      <4>3. QED BY <3>2, <4>1, <4>2 DEF Parted
    <3>4. IsFiniteSet(F) /\ Cardinality(F) = Len(s) BY <3>1, <3>2, ListCount DEF IsInjective
    <3>5. IsFiniteSet(T) /\ Cardinality(T) = Cardinality(CachedPaths(t))
      BY <2>4, <3>1, <3>2, PagesCount DEF Counted
    <3>6. Cardinality(Pages) = Cardinality(F) + Cardinality(T) BY <3>3, <3>4, <3>5, ApartCount
    <3>7. Cardinality(Pages) = NumPages
      <4>1. NumPages \in Nat BY PagesAssumption
      <4>2. Pages = 0 .. NumPages - 1 BY DEF Pages
      <4>3. Cardinality(0 .. NumPages - 1) = IF 0 > NumPages - 1 THEN 0 ELSE NumPages - 1 - 0 + 1
        BY <4>1, FS_Interval
      <4>4. QED BY <4>1, <4>2, <4>3
    <3>8. QED BY <3>1, <3>4, <3>5, <3>6, <3>7
  <2>7. Len(free_table) = MaxRunning
    <3>1. PICK S : S = ToSet(free_table) OBVIOUS
    <3>2. S = Slots BY <2>1, <3>1 DEF XInv, SlotsExclusive
    <3>3. free_table \in Seq(Slots) BY DEF IInv, TypeOK
    <3>4. \A i, j \in DOMAIN free_table : free_table[i] = free_table[j] => i = j
      BY DEF XInv, SlotsExclusive, Duplicated
    <3>5. Cardinality(S) = Len(free_table) BY <3>1, <3>3, <3>4, ListCount
    <3>6. Cardinality(Slots) = MaxRunning
      <4>1. MaxRunning \in Nat BY SizesAssumption
      <4>2. Cardinality(0 .. MaxRunning - 1) = IF 0 > MaxRunning - 1 THEN 0 ELSE MaxRunning - 1 - 0 + 1
        BY <4>1, FS_Interval
      <4>3. QED BY <4>1, <4>2 DEF Slots
    <3>7. QED BY <3>2, <3>5, <3>6
  <2>8. QED BY <2>1, <2>2, <2>3, <2>5, <2>6, <2>7
<1>2. QED BY <1>1, CounterInvariant, PTL

-----------------------------------------------------------------------------
(* Contents v of the pages of a tree and of a row.                         *)

TreeFilled(v, t) == \A p \in CachedPaths(t) : v[t.page[p]] = Flat(p)

\* How far a row's k-th page is filled when c tokens are.
FilledTo(k, c) == IF k * PageSize < c THEN k * PageSize ELSE c

RowFilled(v, row, pool, c) ==
  \A k \in 1 .. CeilDiv(c, PageSize) : v[row[k]] = SubSeq(pool, 1, FilledTo(k, c))

LEMMA FilledToBounds ==
  ASSUME NEW k \in Nat, NEW c \in Nat
  PROVE  /\ FilledTo(k, c) \in Nat /\ FilledTo(k, c) <= c
         /\ k * PageSize <= c => FilledTo(k, c) = k * PageSize
<1>1. PageSize \in Nat \ {0} BY PagesAssumption
<1>2. PICK m : m = k * PageSize OBVIOUS
<1>3. m \in Nat BY <1>1, <1>2
<1>4. QED BY <1>2, <1>3 DEF FilledTo

\* The place of a token in its page.
LEMMA PageOffset ==
  ASSUME NEW k \in Nat, NEW i \in 1 .. k * PageSize,
         NEW a, a = (i - 1) \div PageSize, NEW b, b = (i - 1) % PageSize
  PROVE  /\ a \in 0 .. k - 1 /\ b \in 0 .. PageSize - 1
         /\ i = a * PageSize + b + 1 /\ (a + 1) * PageSize = a * PageSize + PageSize
<1>1. PageSize \in Nat \ {0} BY PagesAssumption
<1>2. PICK d : d = PageSize OBVIOUS
<1>3. d \in Nat \ {0} BY <1>1, <1>2
<1>4. k * d \in Nat BY <1>3
<1>5. i \in Nat /\ i >= 1 /\ i <= k * d BY <1>2, <1>4
<1>6. PICK x \in Nat : x = i - 1 BY <1>5
<1>7. a = x \div d /\ b = x % d BY <1>2, <1>6
<1>8. a \in Nat /\ b \in Nat /\ b < d /\ x = a * d + b
  <2>1. x \div d \in Nat BY <1>3, <1>6
  <2>2. x % d \in 0 .. d - 1 BY <1>3, <1>6
  <2>3. x = (x \div d) * d + (x % d) BY <1>3, <1>6
  <2>4. QED BY <1>3, <1>7, <2>1, <2>2, <2>3
<1>9. a < k
  <2>1. SUFFICES ASSUME a >= k PROVE FALSE BY <1>8
  <2>2. a * d >= k * d BY <2>1, <1>3, <1>8
  <2>3. a * d \in Nat BY <1>3, <1>8
  <2>4. QED BY <2>2, <2>3, <1>4, <1>5, <1>6, <1>8
<1>10. (a + 1) * d = a * d + d BY <1>3, <1>8
<1>11. a * d \in Nat BY <1>3, <1>8
<1>12. i = a * d + b + 1 BY <1>5, <1>6, <1>8, <1>11
<1>13. a \in 0 .. k - 1 /\ b \in 0 .. d - 1 BY <1>3, <1>8, <1>9
<1>14. QED BY <1>2, <1>10, <1>12, <1>13

\* A path cut from a text, page by page, is the text's beginning.
LEMMA FlatText ==
  ASSUME NEW x \in Texts, NEW q \in Seq(Texts), NEW k \in Nat, k = Len(q), k * PageSize <= Len(x),
         \A j \in 1 .. k : q[j] = SubSeq(x, (j - 1) * PageSize + 1, j * PageSize)
  PROVE  Flat(q) = SubSeq(x, 1, k * PageSize)
<1>1. PageSize \in Nat \ {0} BY PagesAssumption
<1>2. PICK m : m = k * PageSize OBVIOUS
<1>3. m \in Nat /\ m <= Len(x) /\ Len(x) \in Nat BY <1>1, <1>2, LenProperties DEF Texts
<1>4. PICK f, s : f = Flat(q) /\ s = SubSeq(x, 1, m) OBVIOUS
<1>5. DOMAIN f = 1 .. m /\ f = [i \in DOMAIN f |-> f[i]] BY <1>2, <1>4 DEF Flat
<1>6. DOMAIN s = 1 .. m /\ s = [i \in DOMAIN s |-> s[i]] /\ \A i \in 1 .. m : s[i] = x[i]
  BY <1>3, <1>4 DEF Texts
<1>7. ASSUME NEW i \in 1 .. m PROVE f[i] = x[i]
  <2>1. PICK a, b : a = (i - 1) \div PageSize /\ b = (i - 1) % PageSize OBVIOUS
  <2>2. /\ a \in 0 .. k - 1 /\ b \in 0 .. PageSize - 1
        /\ i = a * PageSize + b + 1 /\ (a + 1) * PageSize = a * PageSize + PageSize
    BY <1>2, <2>1, PageOffset
  <2>3. f[i] = q[a + 1][b + 1] BY <1>2, <1>4, <2>1 DEF Flat
  <2>4. PICK c : c = a * PageSize OBVIOUS
  <2>5. PICK d : d = PageSize OBVIOUS
  <2>6. c \in Nat /\ d \in Nat \ {0} /\ b \in 0 .. d - 1 /\ i = c + b + 1 BY <1>1, <2>2, <2>4, <2>5
  <2>7. q[a + 1] = SubSeq(x, c + 1, c + d)
    <3>1. a + 1 \in 1 .. k /\ (a + 1) - 1 = a BY <2>2
    <3>2. q[a + 1] = SubSeq(x, a * PageSize + 1, (a + 1) * PageSize) BY <3>1
    <3>3. QED BY <3>2, <2>2, <2>4, <2>5
  <2>8. c + d <= Len(x)
    <3>1. (a + 1) * d <= k * d
      <4>1. a + 1 \in Nat /\ a + 1 <= k BY <2>2
      <4>2. \A u, v \in Nat : u <= v => u * d <= v * d BY <2>6
      <4>3. QED BY <4>1, <4>2
    <3>2. (a + 1) * d = c + d BY <2>2, <2>4, <2>5
    <3>3. k * d = m BY <1>2, <2>5
    <3>4. c + d <= m BY <3>1, <3>2, <3>3
    <3>5. QED BY <3>4, <1>3, <2>6
  <2>9. SubSeq(x, c + 1, c + d)[b + 1] = x[c + b + 1]
    <3>1. c + 1 \in Nat /\ c + d \in Nat /\ b + 1 \in 1 .. (c + d) - (c + 1) + 1 BY <2>6
    <3>2. SubSeq(x, c + 1, c + d)[b + 1] = x[(c + 1) + (b + 1) - 1] BY <3>1, <2>8, <1>3 DEF Texts
    <3>3. (c + 1) + (b + 1) - 1 = c + b + 1 BY <2>6
    <3>4. QED BY <3>2, <3>3
  <2>10. QED BY <2>3, <2>6, <2>7, <2>9
<1>8. f = s BY <1>5, <1>6, <1>7
<1>9. QED BY <1>2, <1>4, <1>8

\* A row is filled alike by texts that agree on what is filled.
LEMMA RowFilledKept ==
  ASSUME NEW v, NEW row, NEW pool \in Texts, NEW c \in Nat, c <= Len(pool), RowFilled(v, row, pool, c),
         NEW pool1, \A i \in 1 .. c : pool1[i] = pool[i]
  PROVE  RowFilled(v, row, pool1, c)
<1>1. ASSUME NEW k \in 1 .. CeilDiv(c, PageSize)
      PROVE  v[row[k]] = SubSeq(pool1, 1, FilledTo(k, c))
  <2>1. k \in Nat BY CeilDivFacts
  <2>2. PICK m : m = FilledTo(k, c) OBVIOUS
  <2>3. m \in Nat /\ m <= c BY <2>1, <2>2, FilledToBounds
  <2>4. \A i \in 1 .. m : pool[i] \in Tokens \cup {None} /\ pool1[i] = pool[i]
    BY <2>3, LenProperties DEF Texts
  <2>5. SubSeq(pool, 1, m) = SubSeq(pool1, 1, m) BY <2>3, <2>4, SameSlice
  <2>6. QED BY <2>2, <2>5 DEF RowFilled
<1>2. QED BY <1>1 DEF RowFilled

\* The tree's pages for a node hold the first pages of a text of c tokens.
NodeFilled(v, t, node, pool, c) ==
  \A k \in 1 .. Len(node) :
    k * PageSize <= c /\ v[t.page[SubSeq(node, 1, k)]] = SubSeq(pool, 1, k * PageSize)

\* insert_prefix hands the row's pages over to the cache, under the paths that say what
\* is in them; and the pages it has found say what the row's own ones hold.
LEMMA InsertedContent ==
  ASSUME NEW v, NEW t, IsTree(t, Texts), TreeFilled(v, t), NEW row, NEW pool \in Texts,
         NEW c \in Nat, c <= Len(pool), RowFilled(v, row, pool, c),
         NEW host \in Texts, c <= Len(host), \A i \in 1 .. c : host[i] = pool[i],
         NEW key, key = Chunks(SubSeq(host, 1, c)), NEW ins, Inserted(t, key, row, ins)
  PROVE  TreeFilled(v, ins.tree) /\ NodeFilled(v, ins.tree, ins.node, pool, c)
<1>0. PageSize \in Nat \ {0} BY PagesAssumption
<1>1. /\ key \in Seq(Texts) /\ Len(key) \in Nat
      /\ Len(key) * PageSize <= c /\ Len(key) <= CeilDiv(c, PageSize)
      /\ \A k \in 1 .. Len(key) : key[k] = SubSeq(host, (k - 1) * PageSize + 1, k * PageSize)
  BY TextChunks
<1>2. ASSUME NEW k \in 1 .. Len(key), NEW q, q = SubSeq(key, 1, k)
      PROVE  k * PageSize <= c /\ Flat(q) = SubSeq(pool, 1, k * PageSize)
  <2>1. k \in Nat BY <1>1
  <2>2. PICK m : m = k * PageSize OBVIOUS
  <2>3. m \in Nat /\ m <= c
    <3>1. \A u, w \in Nat : u <= w => u * PageSize <= w * PageSize BY <1>0
    <3>2. k * PageSize <= Len(key) * PageSize BY <2>1, <1>1, <3>1
    <3>3. m \in Nat /\ Len(key) * PageSize \in Nat BY <2>1, <2>2, <1>0, <1>1
    <3>4. QED BY <1>1, <2>2, <3>2, <3>3
  <2>4. q \in Seq(Texts) /\ Len(q) = k /\ \A j \in 1 .. k : q[j] = key[j] BY <1>1, <1>2
  <2>5. \A j \in 1 .. k : q[j] = SubSeq(host, (j - 1) * PageSize + 1, j * PageSize)
    <3>1. \A j \in 1 .. k : j \in 1 .. Len(key) BY <2>1, <1>1
    <3>2. ASSUME NEW j \in 1 .. k PROVE q[j] = SubSeq(host, (j - 1) * PageSize + 1, j * PageSize)
      <4>1. q[j] = key[j] /\ j \in 1 .. Len(key) BY <2>4, <3>1
      <4>2. key[j] = SubSeq(host, (j - 1) * PageSize + 1, j * PageSize) BY <4>1, <1>1
      <4>3. QED BY <4>1, <4>2
    <3>3. QED BY <3>2
  <2>6. k = Len(q) /\ k * PageSize <= Len(host)
    <3>1. Len(host) \in Nat BY LenProperties DEF Texts
    <3>2. QED BY <3>1, <2>2, <2>3, <2>4
  <2>7. Flat(q) = SubSeq(host, 1, k * PageSize)
    BY ONLY host \in Texts, <2>1, <2>4, <2>5, <2>6, FlatText
  <2>8. SubSeq(pool, 1, m) = SubSeq(host, 1, m)
    <3>1. \A i \in 1 .. m : pool[i] \in Tokens \cup {None} /\ host[i] = pool[i]
      BY <2>3, LenProperties DEF Texts
    <3>2. QED BY <3>1, <2>3, SameSlice
  <2>9. QED BY <2>2, <2>3, <2>7, <2>8
<1>3. ASSUME NEW q \in CachedPaths(ins.tree) PROVE v[ins.tree.page[q]] = Flat(q)
  <2>1. CASE q \in CachedPaths(t) BY <2>1 DEF Inserted, TreeFilled
  <2>2. CASE q \notin CachedPaths(t)
    <3>1. IsPrefix(q, ins.node) /\ Len(q) > ins.found BY <2>2 DEF Inserted
    <3>2. q \in Seq(Texts) \ {<<>>} BY DEF Inserted, IsTree
    <3>3. ins.node = key
      <4>1. ins.node \in {key, <<>>} BY DEF Inserted
      <4>2. ~IsPrefix(q, <<>>) BY <3>2, NoPrefixOfRoot
      <4>3. QED BY <3>1, <4>1, <4>2
    <3>4. Len(q) \in Nat \ {0} /\ Len(q) <= Len(key)
      <4>1. Len(q) \in Nat /\ Len(q) # 0 BY <3>2, PrefixOrder
      <4>2. QED BY <3>1, <3>2, <3>3, <4>1, <1>1, PrefixElements
    <3>5. q = SubSeq(key, 1, Len(q))
      <4>1. \A i \in 1 .. Len(q) : q[i] = key[i] BY <3>1, <3>2, <3>3, <1>1, PrefixElements
      <4>2. QED BY <3>2, <3>4, <4>1, <1>1
    <3>6. ins.tree.page[q] = row[Len(q)] BY <3>1, <3>2 DEF Inserted
    <3>7. PICK k : k = Len(q) OBVIOUS
    <3>8. k \in 1 .. Len(key) /\ q = SubSeq(key, 1, k) BY <3>4, <3>5, <3>7, <1>1
    <3>9. k * PageSize <= c /\ Flat(q) = SubSeq(pool, 1, k * PageSize) BY <3>8, <1>2
    <3>10. FilledTo(k, c) = k * PageSize BY <3>4, <3>7, <3>9, FilledToBounds
    <3>11. k \in 1 .. CeilDiv(c, PageSize)
      <4>1. CeilDiv(c, PageSize) \in Nat BY CeilDivFacts
      <4>2. QED BY <4>1, <3>8, <1>1
    <3>12. v[row[k]] = SubSeq(pool, 1, k * PageSize) BY <3>10, <3>11 DEF RowFilled
    <3>13. QED BY <3>6, <3>7, <3>9, <3>12
  <2>3. QED BY <2>1, <2>2
<1>4. ASSUME NEW k \in 1 .. Len(ins.node)
      PROVE  /\ k * PageSize <= c
             /\ v[ins.tree.page[SubSeq(ins.node, 1, k)]] = SubSeq(pool, 1, k * PageSize)
  <2>1. ins.node = key
    <3>1. ins.node \in {key, <<>>} BY DEF Inserted
    <3>2. CASE ins.node = <<>>
      <4>1. Len(<<>>) = 0 OBVIOUS
      <4>2. FALSE BY <3>2, <4>1
      <4>3. QED BY <4>2
    <3>3. QED BY <3>1, <3>2
  <2>2. PICK n, q : n = ins.node /\ q = SubSeq(n, 1, k) OBVIOUS
  <2>3. IsTree(ins.tree, Texts) /\ n \in Nodes(ins.tree) \cup {<<>>} BY <2>2 DEF Inserted
  <2>4. q \in CachedPaths(ins.tree) BY <2>2, <2>3, HandlePaths
  <2>5. k * PageSize <= c /\ Flat(q) = SubSeq(pool, 1, k * PageSize) BY <1>2, <2>1, <2>2
  <2>6. QED BY <1>3, <2>2, <2>4, <2>5
<1>5. QED BY <1>3, <1>4 DEF TreeFilled, NodeFilled

\* The row that cache_req leaves, its duplicates replaced, holds the same.
LEMMA CanonicalContent ==
  ASSUME NEW v, NEW row, NEW pool, NEW c \in Nat, RowFilled(v, row, pool, c),
         DOMAIN row = 1 .. CeilDiv(c, PageSize),
         NEW tree, NEW node, NEW first \in Nat, NEW found \in Nat, found <= Len(node), Len(node) \in Nat,
         first >= 1, NodeFilled(v, tree, node, pool, c)
  PROVE  RowFilled(v, Canonical(tree, row, node, first, found), pool, c)
<1> DEFINE new == Canonical(tree, row, node, first, found)
<1>1. ASSUME NEW k \in 1 .. CeilDiv(c, PageSize)
      PROVE  v[new[k]] = SubSeq(pool, 1, FilledTo(k, c))
  <2>1. k \in Nat BY CeilDivFacts
  <2>2. new[k] = IF k \in first .. found THEN tree.page[SubSeq(node, 1, k)] ELSE row[k]
    BY DEF Canonical
  <2>3. CASE k \in first .. found
    <3>1. k \in 1 .. Len(node) BY <2>1, <2>3
    <3>2. FilledTo(k, c) = k * PageSize BY <2>1, <3>1, FilledToBounds DEF NodeFilled
    <3>3. QED BY <2>2, <2>3, <3>1, <3>2 DEF NodeFilled
  <2>4. CASE k \notin first .. found BY <2>2, <2>4 DEF RowFilled
  <2>5. QED BY <2>3, <2>4
<1>2. QED BY <1>1 DEF RowFilled


-----------------------------------------------------------------------------
(* The state.                                                              *)

\* What is proved of the scheduler and its memory so far.
MInv == IInv /\ SInv /\ XInv /\ LInv /\ HInv /\ CInv /\ PInv

KInv ==
  /\ TreeFilled(kv, cm.tree)
  /\ \A o \in Newest :
       RowFilled(kv, page_table[reqs[o].slot], token_pool[reqs[o].slot], reqs[o].cached)

\* A row of tokens goes as far as the keys and values computed for it.
LEMMA PoolCovers ==
  ASSUME MInv, NEW o \in Newest
  PROVE  LET r == reqs[o]  pool == token_pool[reqs[o].slot]
         IN  /\ r.cached \in Nat /\ pool \in Texts /\ Len(pool) \in Nat /\ r.cached <= Len(pool)
             /\ r.host \in Texts /\ Len(r.host) \in Nat
             /\ \A i \in 1 .. Len(r.host) : i <= Len(pool) => pool[i] = r.host[i]
<1> DEFINE r    == reqs[o]
           pool == token_pool[r.slot]
<1>1. TypeOK /\ Stored(o) /\ ObjectLengths /\ o \in DOMAIN reqs
  BY SlotsApart DEF MInv, IInv, HInv, LInv
<1>2. r.cached \in Int /\ r.device \in Int /\ 0 <= r.cached /\ r.cached < r.device
      /\ r.class \in {"Req", "ChunkedReq"} /\ r.max \in Int /\ r.device <= r.max + 1
  BY <1>1 DEF TypeOK, ObjectLengths
<1>3. /\ r.host \in Texts /\ pool \in Texts
      /\ \A i \in 1 .. Len(r.host) : i <= Len(pool) => pool[i] = r.host[i]
      /\ r.class = "Req" => Len(pool) = IF r.device <= r.max THEN r.device ELSE r.max
      /\ r.class = "ChunkedReq" => Len(pool) = r.device \/ Len(pool) = r.cached
  BY <1>1 DEF Stored
<1>4. Len(r.host) \in Nat /\ Len(pool) \in Nat BY <1>3, LenProperties DEF Texts
<1> HIDE DEF r, pool
<1>5. r.cached <= Len(pool) BY <1>2, <1>3, <1>4
<1>6. r.cached \in Nat BY <1>2
<1>7. QED BY <1>3, <1>4, <1>5, <1>6 DEF r, pool

\* A request's row names its handle's pages, then its own.
LEMMA RowPlaces ==
  ASSUME MInv, NEW o \in Newest, NEW k \in 1 .. CeilDiv(reqs[o].cached, PageSize)
  PROVE  LET p == page_table[reqs[o].slot][k]  h == reqs[o].handle
         IN  /\ k \in Nat /\ Len(h) \in Nat
             /\ k <= Len(h) => SubSeq(h, 1, k) \in CachedPaths(cm.tree) /\ p = cm.tree.page[SubSeq(h, 1, k)]
             /\ k <= Len(h) => p \in CachePages(cm.tree)
             /\ k > Len(h) => p \in OwnPages[o]
<1> DEFINE row == page_table[reqs[o].slot]
           h   == reqs[o].handle
<1>1. IsTree(cm.tree, Texts) /\ h \in Nodes(cm.tree) \cup {<<>>}
  BY LocksRead DEF MInv, CInv, TreeHolds
<1>2. Len(h) \in Nat /\ \A j \in 1 .. Len(h) : SubSeq(h, 1, j) \in CachedPaths(cm.tree)
  BY <1>1, HandlePaths
<1>3. RowHolds(reqs[o], row, cm.tree) BY DEF MInv, CInv
<1>4. /\ \A j \in 1 .. Len(h) : row[j] = cm.tree.page[SubSeq(h, 1, j)]
      /\ Len(row) = CeilDiv(reqs[o].cached, PageSize)
  BY <1>3 DEF RowHolds
<1>5. CeilDiv(reqs[o].cached, PageSize) \in Nat BY PoolCovers, CeilDivFacts
<1>6. OwnPages[o] = RowPages(row, Len(h)) BY OwnRow DEF MInv
<1>7. k \in Nat /\ k >= 1 /\ k <= Len(row) BY <1>4, <1>5
<1>8. ASSUME k <= Len(h)
      PROVE  SubSeq(h, 1, k) \in CachedPaths(cm.tree) /\ row[k] = cm.tree.page[SubSeq(h, 1, k)]
  <2>1. k \in 1 .. Len(h) BY <1>2, <1>7, <1>8
  <2>2. QED BY <2>1, <1>2, <1>4
<1>9. ASSUME k > Len(h) PROVE row[k] \in OwnPages[o]
  <2>1. k \in Len(h) + 1 .. Len(row) BY <1>2, <1>4, <1>5, <1>7, <1>9
  <2>2. QED BY <2>1, <1>6 DEF RowPages, Between
<1>10. QED BY <1>2, <1>7, <1>8, <1>9 DEF CachePages

\* No page in use is on the free list.
LEMMA UsedNotFree ==
  ASSUME MInv
  PROVE  /\ \A q \in CachedPaths(cm.tree) : cm.tree.page[q] \in Pages \ ToSet(cm.free)
         /\ \A o \in Newest : \A k \in 1 .. CeilDiv(reqs[o].cached, PageSize) :
              page_table[reqs[o].slot][k] \in Pages \ ToSet(cm.free)
<1>1. Parted(ToSet(cm.free), ToSet(cm.lazy), CachePages(cm.tree), Newest, OwnPages)
  BY DEF MInv, PInv, Shared
<1>2. CachePages(cm.tree) \subseteq Pages \ ToSet(cm.free) BY <1>1 DEF Parted
<1>3. \A o \in Newest : OwnPages[o] \subseteq Pages \ ToSet(cm.free) BY <1>1 DEF Parted
<1>4. ASSUME NEW o \in Newest, NEW k \in 1 .. CeilDiv(reqs[o].cached, PageSize)
      PROVE  page_table[reqs[o].slot][k] \in Pages \ ToSet(cm.free)
  <2>1. PICK p : p = page_table[reqs[o].slot][k] OBVIOUS
  <2>2. PICK n : n = Len(reqs[o].handle) OBVIOUS
  <2>3. /\ k \in Nat /\ n \in Nat
        /\ k <= n => p \in CachePages(cm.tree)
        /\ k > n => p \in OwnPages[o]
    BY <2>1, <2>2, RowPlaces
  <2>4. k <= n \/ k > n BY <2>3
  <2>5. QED BY <2>1, <2>3, <2>4, <1>2, <1>3
<1>5. QED BY <1>2, <1>4 DEF CachePages

\* Forgetting what is in free pages forgets nothing that is in use.
LEMMA ContentKept ==
  ASSUME MInv', \A p \in Pages \ ToSet(cm'.free) : kv'[p] = kv[p],
         TreeFilled(kv, cm'.tree),
         \A o \in Newest' :
           RowFilled(kv, page_table'[reqs'[o].slot], token_pool'[reqs'[o].slot], reqs'[o].cached)
  PROVE  KInv'
<1>1. /\ \A q \in CachedPaths(cm'.tree) : cm'.tree.page[q] \in Pages \ ToSet(cm'.free)
      /\ \A o \in Newest' : \A k \in 1 .. CeilDiv(reqs'[o].cached, PageSize) :
           page_table'[reqs'[o].slot][k] \in Pages \ ToSet(cm'.free)
  <2>1. (/\ \A q \in CachedPaths(cm.tree) : cm.tree.page[q] \in Pages \ ToSet(cm.free)
         /\ \A o \in Newest : \A k \in 1 .. CeilDiv(reqs[o].cached, PageSize) :
              page_table[reqs[o].slot][k] \in Pages \ ToSet(cm.free))'
    BY UsedNotFree, PTL
  <2>2. QED BY <2>1
<1>2. TreeFilled(kv', cm'.tree) BY <1>1 DEF TreeFilled
<1>3. ASSUME NEW o \in Newest'
      PROVE  RowFilled(kv', page_table'[reqs'[o].slot], token_pool'[reqs'[o].slot], reqs'[o].cached)
  <2>1. PICK row, pool, c : row = page_table'[reqs'[o].slot] /\ pool = token_pool'[reqs'[o].slot]
                            /\ c = reqs'[o].cached
    OBVIOUS
  <2>2. RowFilled(kv, row, pool, c) BY <2>1
  <2>3. \A k \in 1 .. CeilDiv(c, PageSize) : kv'[row[k]] = kv[row[k]] BY <2>1, <1>1
  <2>4. RowFilled(kv', row, pool, c) BY <2>2, <2>3 DEF RowFilled
  <2>5. QED BY <2>1, <2>4
<1>4. QED BY <1>2, <1>3 DEF KInv

\* A step that moves no page and no token of the requests that stay.
LEMMA QuietContent ==
  ASSUME MInv', KInv, Newest' \subseteq Newest, cm'.tree.page = cm.tree.page,
         \A p \in Pages \ ToSet(cm'.free) : kv'[p] = kv[p],
         \A o \in Newest' :
           /\ reqs'[o].slot = reqs[o].slot /\ reqs'[o].cached = reqs[o].cached
           /\ page_table'[reqs[o].slot] = page_table[reqs[o].slot]
           /\ token_pool'[reqs[o].slot] = token_pool[reqs[o].slot]
  PROVE  KInv'
<1>1. TreeFilled(kv, cm'.tree) BY DEF KInv, TreeFilled, CachedPaths
<1>2. ASSUME NEW o \in Newest'
      PROVE  RowFilled(kv, page_table'[reqs'[o].slot], token_pool'[reqs'[o].slot], reqs'[o].cached)
  <2>1. RowFilled(kv, page_table[reqs[o].slot], token_pool[reqs[o].slot], reqs[o].cached) BY DEF KInv
  <2>2. QED BY <2>1
<1>3. QED BY <1>1, <1>2, ContentKept


-----------------------------------------------------------------------------
(* Giving pages to the cache.                                              *)

\* A request leaves: its whole pages go to the cache, or back.
LEMMA ReleasedContent ==
  ASSUME MInv, MInv', KInv, NEW c \in Newest, NEW r,
         r.handle = reqs[c].handle, r.slot = reqs[c].slot, r.cached = reqs[c].cached,
         r.host \in Texts, r.cached <= Len(r.host),
         \A i \in 1 .. r.cached : r.host[i] = token_pool[r.slot][i],
         NEW reg \in BOOLEAN, FreeReqResources(c, r, reg),
         Newest' = Newest \ {c}, \A o \in Newest' : reqs'[o] = reqs[o],
         \A p \in Pages \ ToSet(cm'.free) : kv'[p] = kv[p]
  PROVE  KInv'
<1> DEFINE t    == cm.tree
           row  == page_table[r.slot]
           pool == token_pool[r.slot]
           key  == Chunks(SubSeq(r.host, 1, r.cached))
           ins  == InsertPrefix(t, key, row)
           t1   == UnlockPath(ins.tree, r.handle)
           tail == SubSeq(row, Len(ins.node) + 1, CeilDiv(r.cached, PageSize))
           more == Duplicates(row, Len(r.handle) + 1, ins.found) \o tail
<1>1. IsTree(t, Texts) /\ cm = [free |-> cm.free, tree |-> t, lazy |-> cm.lazy]
  BY DEF MInv, CInv, TreeHolds
<1>2. r.cached \in Nat /\ pool \in Texts /\ r.cached <= Len(pool) BY PoolCovers
<1>3. key \in Seq(Texts) BY <1>2, TextChunks
<1>4. cm' = FreePages([cm EXCEPT !.tree = t1], more, reg) BY DEF FreeReqResources, ReleaseCached
<1>5. page_table' = [page_table EXCEPT ![r.slot] = <<>>] /\ token_pool' = [token_pool EXCEPT ![r.slot] = <<>>]
  BY DEF FreeReqResources
<1>6. Inserted(t, key, row, ins) BY <1>1, <1>3, InsertedTree
<1>7. TreeFilled(kv, t) /\ RowFilled(kv, row, pool, r.cached) BY DEF KInv
<1>8. TreeFilled(kv, ins.tree)
  <2>1. PICK k, i, n : k = key /\ i = ins /\ n = r.cached OBVIOUS
  <2>2. k = Chunks(SubSeq(r.host, 1, n)) /\ Inserted(t, k, row, i) BY <2>1, <1>6
  <2>3. /\ n \in Nat /\ n <= Len(pool) /\ n <= Len(r.host) /\ r.host \in Texts /\ pool \in Texts
        /\ RowFilled(kv, row, pool, n) /\ \A j \in 1 .. n : r.host[j] = pool[j]
    BY <2>1, <1>2, <1>7
  <2>4. TreeFilled(kv, i.tree) BY ONLY <1>1, <1>7, <2>2, <2>3, InsertedContent
  <2>5. QED BY <2>1, <2>4
<1>9. t1.page = ins.tree.page
  <2>1. IsTree(ins.tree, Texts) BY <1>6 DEF Inserted
  <2> HIDE DEF ins
  <2>2. QED BY <2>1, LockedPages
<1> HIDE DEF t1, more, ins, key
<1>10. cm'.tree = t1
  <2>1. PICK m, u, l, b : m = cm /\ u = t1 /\ l = more /\ b = reg OBVIOUS
  <2>2. m = [free |-> m.free, tree |-> m.tree, lazy |-> m.lazy] /\ b \in BOOLEAN BY <2>1, <1>1
  <2>3. FreePages([m EXCEPT !.tree = u], l, b).tree = u BY ONLY <2>2, FreedTree
  <2>4. QED BY <2>1, <2>3, <1>4
<1>11. TreeFilled(kv, cm'.tree)
  <2>1. PICK a, b : a = ins.tree /\ b = cm'.tree OBVIOUS
  <2>2. b.page = a.page /\ TreeFilled(kv, a) BY <2>1, <1>8, <1>9, <1>10
  <2>3. TreeFilled(kv, b) BY <2>2 DEF TreeFilled, CachedPaths
  <2>4. QED BY <2>1, <2>3
<1>12. ASSUME NEW o \in Newest'
       PROVE  RowFilled(kv, page_table'[reqs'[o].slot], token_pool'[reqs'[o].slot], reqs'[o].cached)
  <2>1. o \in Newest /\ o # c /\ reqs'[o] = reqs[o] OBVIOUS
  <2>2. reqs[o].slot # r.slot BY <2>1, SlotsApart DEF MInv
  <2>3. page_table'[reqs[o].slot] = page_table[reqs[o].slot] /\ token_pool'[reqs[o].slot] = token_pool[reqs[o].slot]
    <3>1. PICK s : s = reqs[o].slot OBVIOUS
    <3>2. reqs[o].slot \in Slots /\ DOMAIN page_table = Slots /\ DOMAIN token_pool = Slots
      BY <2>1, SlotsApart DEF MInv, LInv, RowLengths, HInv
    <3>3. s \in DOMAIN page_table /\ s \in DOMAIN token_pool /\ s # r.slot BY <2>2, <3>1, <3>2
    <3>4. QED BY ONLY <1>5, <3>1, <3>3
  <2>4. RowFilled(kv, page_table[reqs[o].slot], token_pool[reqs[o].slot], reqs[o].cached) BY <2>1 DEF KInv
  <2>5. QED BY <2>1, <2>3, <2>4
<1>13. QED BY <1>11, <1>12, ContentKept

\* A request goes on: the cache takes its whole pages, the request the cache's.
LEMMA KeptContent ==
  ASSUME MInv, MInv', KInv, NEW c \in Newest, NEW r,
         r.handle = reqs[c].handle, r.slot = reqs[c].slot, r.cached = reqs[c].cached,
         r.host \in Texts, r.cached <= Len(r.host), Len(reqs[c].host) <= Len(r.host),
         \A i \in 1 .. Len(reqs[c].host) : r.host[i] = reqs[c].host[i],
         \A i \in 1 .. r.cached : r.host[i] = token_pool[r.slot][i],
         cm' = KeepCached(cm, r, page_table[r.slot]).cm,
         page_table' = [page_table EXCEPT ![r.slot] = KeepCached(cm, r, page_table[r.slot]).row],
         reqs'[c].slot = r.slot, reqs'[c].cached = r.cached,
         Newest' = Newest, \A o \in Newest \ {c} : reqs'[o] = reqs[o], UNCHANGED <<kv, token_pool>>
  PROVE  KInv'
<1> DEFINE t    == cm.tree
           row  == page_table[r.slot]
           pool == token_pool[r.slot]
           key  == Chunks(SubSeq(r.host, 1, r.cached))
           ins  == InsertPrefix(t, key, row)
           own  == Len(r.handle) + 1
           low  == UnlockPath(ins.tree, r.handle)
           t1   == LockPath(low, ins.node)
           more == Duplicates(row, own, ins.found)
           new  == Canonical(ins.tree, row, ins.node, own, ins.found)
           d    == FreePages([cm EXCEPT !.tree = t1], more, TRUE)
<1>1. IsTree(t, Texts) /\ cm = [free |-> cm.free, tree |-> t, lazy |-> cm.lazy]
  BY DEF MInv, CInv, TreeHolds
<1>2. r.cached \in Nat /\ pool \in Texts /\ r.cached <= Len(pool) BY PoolCovers
<1>3. key \in Seq(Texts) BY <1>2, TextChunks
<1>4. cm' = d /\ page_table' = [page_table EXCEPT ![r.slot] = new]
  <2>1. KeepCached(cm, r, row) = [cm |-> d, row |-> new, handle |-> ins.node] BY DEF KeepCached
  <2>2. PICK k : k = KeepCached(cm, r, row) OBVIOUS
  <2> HIDE DEF d, new, ins
  <2>3. k.cm = d /\ k.row = new BY <2>1, <2>2
  <2>4. QED BY <2>2, <2>3
<1>5. Inserted(t, key, row, ins) BY <1>1, <1>3, InsertedTree
<1>6. TreeFilled(kv, t) /\ RowFilled(kv, row, pool, r.cached) BY DEF KInv
<1>7. TreeFilled(kv, ins.tree) /\ NodeFilled(kv, ins.tree, ins.node, pool, r.cached)
  <2>1. PICK k, i, n : k = key /\ i = ins /\ n = r.cached OBVIOUS
  <2>2. k = Chunks(SubSeq(r.host, 1, n)) /\ Inserted(t, k, row, i) BY <2>1, <1>5
  <2>3. /\ n \in Nat /\ n <= Len(pool) /\ n <= Len(r.host) /\ r.host \in Texts /\ pool \in Texts
        /\ RowFilled(kv, row, pool, n) /\ \A j \in 1 .. n : r.host[j] = pool[j]
    BY <2>1, <1>2, <1>6
  <2>4. TreeFilled(kv, i.tree) /\ NodeFilled(kv, i.tree, i.node, pool, n)
    BY ONLY <1>1, <1>6, <2>2, <2>3, InsertedContent
  <2>5. QED BY <2>1, <2>4
<1>8. t1.page = ins.tree.page
  <2>1. PICK s : s = ins.tree OBVIOUS
  <2>2. PICK u : u = UnlockPath(s, r.handle) OBVIOUS
  <2>3. IsTree(s, Texts) BY <2>1, <1>5 DEF Inserted
  <2>4. IsTree(u, Texts) /\ u.page = s.page BY ONLY <2>2, <2>3, PathChanged
  <2> HIDE DEF ins
  <2>5. low = u BY <2>1, <2>2
  <2>6. LockPath(u, ins.node).page = u.page BY <2>4, LockedPages
  <2>7. QED BY <2>1, <2>4, <2>5, <2>6
<1>9. own \in Nat /\ own >= 1 /\ ins.found \in Nat /\ ins.found <= Len(ins.node) /\ Len(ins.node) \in Nat
      /\ DOMAIN row = 1 .. CeilDiv(r.cached, PageSize)
  <2>1. /\ RowHolds(reqs[c], row, t) /\ r.slot \in Slots /\ RowLengths
        /\ r.handle \in Nodes(t) \cup {<<>>}
    BY SlotsApart, LocksRead DEF MInv, CInv, LInv, TreeHolds
  <2>2. row \in Seq(ToSet(row)) /\ Len(row) = CeilDiv(r.cached, PageSize) BY <2>1 DEF RowHolds, RowLengths, IsRow
  <2>3. DOMAIN row = 1 .. CeilDiv(r.cached, PageSize) BY <2>2, LenProperties
  <2>4. Len(r.handle) \in Nat BY <2>1, <1>1, HandlePaths
  <2>5. ins.found \in Nat /\ ins.found <= Len(ins.node) /\ ins.node \in {key, <<>>} BY <1>5 DEF Inserted
  <2>6. Len(key) \in Nat /\ Len(<<>>) = 0 BY <1>3, LenProperties
  <2> HIDE DEF ins, key, row
  <2>7. Len(ins.node) \in Nat BY <2>5, <2>6
  <2>8. QED BY <2>3, <2>4, <2>5, <2>7
<1> HIDE DEF ins, key
<1>10. RowFilled(kv, new, pool, r.cached)
  <2>1. PICK tree, node, f, a, n : tree = ins.tree /\ node = ins.node /\ f = ins.found /\ a = own /\ n = r.cached
    OBVIOUS
  <2>2. /\ n \in Nat /\ RowFilled(kv, row, pool, n) /\ DOMAIN row = 1 .. CeilDiv(n, PageSize)
        /\ a \in Nat /\ f \in Nat /\ f <= Len(node) /\ Len(node) \in Nat /\ a >= 1
        /\ NodeFilled(kv, tree, node, pool, n)
    BY <2>1, <1>2, <1>6, <1>7, <1>9
  <2>3. RowFilled(kv, Canonical(tree, row, node, a, f), pool, n) BY ONLY <2>2, CanonicalContent
  <2>4. QED BY <2>1, <2>3
<1> HIDE DEF t1, more, new
<1>11. cm'.tree = t1
  <2>1. PICK m, u, l, b : m = cm /\ u = t1 /\ l = more /\ b = TRUE OBVIOUS
  <2>2. m = [free |-> m.free, tree |-> m.tree, lazy |-> m.lazy] /\ b \in BOOLEAN BY <2>1, <1>1
  <2>3. FreePages([m EXCEPT !.tree = u], l, b).tree = u BY ONLY <2>2, FreedTree
  <2>4. QED BY <2>1, <2>3, <1>4
<1>12. TreeFilled(kv, cm'.tree)
  <2>1. PICK a, b : a = ins.tree /\ b = cm'.tree OBVIOUS
  <2>2. b.page = a.page /\ TreeFilled(kv, a) BY <2>1, <1>7, <1>8, <1>11
  <2>3. TreeFilled(kv, b) BY <2>2 DEF TreeFilled, CachedPaths
  <2>4. QED BY <2>1, <2>3
<1>13. \A o \in Newest : reqs[o].slot \in DOMAIN page_table
  BY SlotsApart DEF MInv, LInv, RowLengths
<1>14. ASSUME NEW o \in Newest'
       PROVE  RowFilled(kv, page_table'[reqs'[o].slot], token_pool'[reqs'[o].slot], reqs'[o].cached)
  <2>1. CASE o = c
    <3>1. page_table'[r.slot] = new BY <1>4, <1>13
    <3>2. QED BY <2>1, <3>1, <1>10
  <2>2. CASE o # c
    <3>1. o \in Newest /\ reqs'[o] = reqs[o] BY <2>2
    <3>2. reqs[o].slot # r.slot BY <2>2, <3>1, SlotsApart DEF MInv
    <3>3. page_table'[reqs[o].slot] = page_table[reqs[o].slot] BY <1>4, <1>13, <3>1, <3>2
    <3>4. RowFilled(kv, page_table[reqs[o].slot], token_pool[reqs[o].slot], reqs[o].cached) BY <3>1 DEF KInv
    <3>5. QED BY <3>1, <3>3, <3>4
  <2>3. QED BY <2>1, <2>2
<1>15. QED BY <1>12, <1>14, ContentKept


-----------------------------------------------------------------------------
(* The steps.                                                              *)

\* A request aborted while the device does not have it.
LEMMA AbortNowContent ==
  ASSUME MInv, MInv', KInv, NEW u \in Uids, AbortNow(u)
  PROVE  KInv'
<1>0. IInv /\ IInv' /\ XInv /\ LInv /\ HInv BY DEF MInv
<1>1. PICK c \in AbortTarget(u) \ DOMAIN inflight :
        FreeReqResources(c, reqs[c], FALSE) /\ reqs' = Restrict(reqs, DOMAIN reqs \ {c})
  BY DEF AbortNow
<1>2. c \in Newest /\ Newest' = Newest \ {c} BY <1>0, <1>1, AbortNowSlots
<1>3. /\ reqs[c].cached \in Nat /\ reqs[c].host \in Texts /\ reqs[c].cached <= Len(reqs[c].host)
      /\ Len(reqs[c].host) \in Nat
  <2>1. Flying(c) = 0 BY <1>0, <1>1, FlyingCounts DEF IInv
  <2>2. QED BY <2>1, <1>0, <1>2, CachedKnown
<1>4. \A o \in Newest' : reqs'[o] = reqs[o]
  <2>1. \A o \in Newest' : o \in DOMAIN reqs /\ o # c BY <1>0, <1>2, SlotsApart
  <2>2. QED BY <2>1, <1>1 DEF Restrict
<1>5. \A i \in 1 .. reqs[c].cached : reqs[c].host[i] = token_pool[reqs[c].slot][i]
  <2>1. PICK n, h, pool : n = reqs[c].cached /\ h = reqs[c].host /\ pool = token_pool[reqs[c].slot] OBVIOUS
  <2>2. /\ n \in Nat /\ Len(pool) \in Nat /\ n <= Len(pool) /\ n <= Len(h) /\ Len(h) \in Nat
        /\ \A i \in 1 .. Len(h) : i <= Len(pool) => pool[i] = h[i]
    BY <1>2, <1>3, <2>1, PoolCovers
  <2>3. \A i \in 1 .. n : i \in 1 .. Len(h) /\ i <= Len(pool) BY <2>2
  <2>4. \A i \in 1 .. n : h[i] = pool[i] BY <2>2, <2>3
  <2>5. QED BY <2>1, <2>4
<1>6. kv' = ForgetFreePages(cm') BY DEF AbortNow
<1>7. \A p \in Pages \ ToSet(cm'.free) : kv'[p] = kv[p] BY <1>6 DEF ForgetFreePages
<1>8. PICK r : r = reqs[c] OBVIOUS
<1>9. /\ r.handle = reqs[c].handle /\ r.slot = reqs[c].slot /\ r.cached = reqs[c].cached
      /\ r.host \in Texts /\ r.cached <= Len(r.host) /\ \A i \in 1 .. r.cached : r.host[i] = token_pool[r.slot][i]
      /\ FreeReqResources(c, r, FALSE)
  BY <1>1, <1>3, <1>5, <1>8
<1>10. QED BY <1>2, <1>4, <1>7, <1>9, ReleasedContent

\* The steps that leave pages and rows alone.
LEMMA IdleContent ==
  ASSUME MInv, MInv', KInv,
         \/ Receive /\ \A u \in Uids : ~AbortNow(u)
         \/ SelectDecode \/ SelectNothing \/ StartPrefill \/ StopAdmission
         \/ ForwardOutOfPages \/ NoForward \/ EndProcess
  PROVE  KInv'
<1>0. IInv /\ IInv' /\ SInv /\ XInv /\ LInv /\ HInv /\ CInv BY DEF MInv
<1>1. cm = [free |-> cm.free, tree |-> cm.tree, lazy |-> cm.lazy] /\ IsTree(cm.tree, Texts)
  BY <1>0 DEF CInv, TreeHolds
<1>2. CASE Receive /\ \A u \in Uids : ~AbortNow(u)
  <2>1. PICK u \in Uids :
          \/ AbortNothing(u) \/ AbortInflight(u) \/ \E w \in Workload : ReceiveUser(u, w)
    BY <1>2 DEF Receive, ReceiveAbort
  <2>2. Holders' = Holders BY <1>0, <2>1, AbortLaterSlots, ReceiveUserSlots
  <2>3. UNCHANGED <<reqs, cm, kv, page_table, token_pool>>
    BY <2>1 DEF AbortNothing, AbortInflight, ReceiveUser, memory
  <2>4. Newest' = Newest BY <2>2 DEF Newest
  <2>5. QED BY <2>3, <2>4, QuietContent
<1>3. CASE SelectDecode \/ SelectNothing \/ StartPrefill \/ StopAdmission
  <2>1. Newest' = Newest BY <1>0, <1>3, SelectionSlots, StartPrefillSlots, StopAdmissionSlots
  <2>2. UNCHANGED <<reqs, page_table, token_pool, kv>>
    BY <1>3 DEF SelectDecode, SelectNothing, StartPrefill, StopAdmission, memory
  <2>3. \/ cm' = cm
        \/ /\ pc = "admit" /\ HasCandidate
           /\ cm' = [cm EXCEPT !.tree = MatchReq(cm, Candidate.ids).tree]
    BY <1>3 DEF SelectDecode, SelectNothing, StartPrefill, StopAdmission, Refused, memory
  <2>4. cm'.tree.page = cm.tree.page
    <3>1. CASE cm' = cm BY <3>1
    <3>2. CASE /\ pc = "admit" /\ HasCandidate
               /\ cm' = [cm EXCEPT !.tree = MatchReq(cm, Candidate.ids).tree]
      <4> DEFINE m == MatchReq(cm, Candidate.ids)
      <4>1. Candidate \in PendingType BY <1>0, <3>2, CandidateAlone
      <4>2. Candidate.ids \in Seq(Tokens) \ {<<>>} BY <4>1 DEF PendingType
      <4>3. Matched(cm.tree, Candidate.ids, m) BY <1>1, <4>2, MatchedTree
      <4> HIDE DEF m
      <4>4. cm'.tree = m.tree BY <1>1, <3>2 DEF m
      <4>5. QED BY <4>3, <4>4 DEF Matched
    <3>3. QED BY <2>3, <3>1, <3>2
  <2>5. QED BY <2>1, <2>2, <2>4, QuietContent
<1>4. CASE ForwardOutOfPages \/ NoForward
  <2>1. UNCHANGED <<reqs, page_table, token_pool, cm, kv>> BY <1>4 DEF ForwardOutOfPages, NoForward, memory
  <2>2. Newest' = Newest BY <1>0, <1>4, NoForwardSlots
  <2>3. QED BY <2>1, <2>2, QuietContent
<1>5. CASE EndProcess
  <2>1. Newest' = Newest /\ \A o \in Newest : reqs'[o] = reqs[o]
    BY <1>0, <1>5, EndProcessSlots DEF Newest
  <2>2. cm' = FlushLazy(cm) /\ kv' = ForgetFreePages(cm') /\ UNCHANGED <<page_table, token_pool>>
    BY <1>5 DEF EndProcess
  <2>3. cm'.tree = cm.tree
    <3>1. PICK free : free = Ascending(cm.free \o cm.lazy) OBVIOUS
    <3>2. cm' = [cm EXCEPT !.free = free, !.lazy = <<>>] BY <2>2, <3>1 DEF FlushLazy
    <3>3. QED BY <1>1, <3>2
  <2>4. \A p \in Pages \ ToSet(cm'.free) : kv'[p] = kv[p] BY <2>2 DEF ForgetFreePages
  <2>5. QED BY <2>1, <2>2, <2>3, <2>4, QuietContent
<1>6. QED BY <1>2, <1>3, <1>4, <1>5

\* A result is read.
LEMMA ProcessContent ==
  ASSUME MInv, MInv', KInv, ProcessTerminal \/ ProcessChunk \/ ProcessToken
  PROVE  KInv'
<1>0. IInv /\ IInv' /\ SInv /\ XInv /\ LInv /\ HInv /\ CInv BY DEF MInv
<1>1. PICK c : c = Current OBVIOUS
<1>2. TakeResult /\ UNCHANGED last /\ kv' = kv
  BY DEF ProcessTerminal, ProcessChunk, ProcessToken, memory
<1>3. /\ c \in DOMAIN inflight /\ c \in DOMAIN reqs /\ Flying(c) \in Nat \ {0}
      /\ inflight[c] = 1 => c \notin DOMAIN inflight'
      /\ 1 \in DOMAIN proc.reqs /\ c = proc.reqs[1] /\ Head(proc.tokens) = proc.tokens[1]
  BY <1>0, <1>1, <1>2, ResultLands
<1>4. \/ /\ free_table' = Append(free_table, reqs[c].slot)
         /\ c \in Newest /\ Newest' = Newest \ {c}
      \/ free_table' = free_table /\ Newest' = Newest
  BY <1>0, <1>1, ProcessSlots
<1>5. free_table # Append(free_table, reqs[c].slot)
  <2>1. free_table \in Seq(Slots) /\ reqs[c].slot \in Slots BY <1>0, <1>3 DEF IInv, TypeOK
  <2>2. Len(Append(free_table, reqs[c].slot)) = Len(free_table) + 1 /\ Len(free_table) \in Nat
    BY <2>1, AppendElements, LenProperties
  <2>3. QED BY <2>1, <2>2
<1>6. Flying(c) <= 2
  <2>1. inflight[c] \in {1, 2} BY <1>0, <1>3 DEF IInv, TypeOK
  <2>2. QED BY <2>1, <1>3 DEF Flying
<1>7. ASSUME c \in Newest
      PROVE  LET pool == token_pool[reqs[c].slot]
             IN  /\ reqs[c].cached \in Nat /\ reqs[c].host \in Texts /\ Len(reqs[c].host) \in Nat
                 /\ reqs[c].cached < Len(reqs[c].host) + Flying(c) \/ reqs[c].cached <= Len(reqs[c].host)
                 /\ \A i \in 1 .. Len(reqs[c].host) : i <= reqs[c].cached => pool[i] = reqs[c].host[i]
                 /\ reqs[c].class = "Req" /\ Len(reqs[c].host) + 1 <= reqs[c].cached =>
                      pool[Len(reqs[c].host) + 1] = Head(proc.tokens)
  <2> DEFINE pool == token_pool[reqs[c].slot]
  <2>1. /\ reqs[c].cached \in Nat /\ Len(pool) \in Nat /\ reqs[c].cached <= Len(pool)
        /\ \A i \in 1 .. Len(reqs[c].host) : i <= Len(pool) => pool[i] = reqs[c].host[i]
    BY <1>7, PoolCovers
  <2>2. /\ reqs[c].cached \in Nat /\ reqs[c].host \in Texts /\ Len(reqs[c].host) \in Nat
        /\ reqs[c].cached < Len(reqs[c].host) + Flying(c) \/ reqs[c].cached <= Len(reqs[c].host)
    BY <1>0, <1>7, CachedKnown
  <2>3. Landing(c, Len(reqs[c].host) + 1, Head(proc.tokens)) BY <1>0, <1>3 DEF HInv, ResultsStored
  <2>4. reqs[c].class = "Req" /\ Len(reqs[c].host) + 1 <= Len(pool) =>
          pool[Len(reqs[c].host) + 1] = Head(proc.tokens)
    BY <2>3, <1>7 DEF Landing
  <2>5. PICK n, k, m : n = reqs[c].cached /\ k = Len(pool) /\ m = Len(reqs[c].host) OBVIOUS
  <2>6. n \in Nat /\ k \in Nat /\ n <= k /\ m \in Nat BY <2>1, <2>2, <2>5
  <2>7. \A i \in 1 .. m : i <= n => i <= k BY <2>6
  <2>8. m + 1 <= n => m + 1 <= k BY <2>6
  <2> HIDE DEF pool
  <2>9. \A i \in 1 .. Len(reqs[c].host) : i <= reqs[c].cached => pool[i] = reqs[c].host[i]
    BY <2>1, <2>5, <2>7
  <2>10. reqs[c].class = "Req" /\ Len(reqs[c].host) + 1 <= reqs[c].cached =>
           pool[Len(reqs[c].host) + 1] = Head(proc.tokens)
    BY <2>4, <2>5, <2>8
  <2>11. QED BY <2>2, <2>9, <2>10 DEF pool
<1>8. CASE ProcessTerminal
  <2>1. c \in terminal /\ reqs' = reqs /\ ReleaseIfLanded(terminal, reqs[c])
    BY <1>1, <1>8 DEF ProcessTerminal, Discarded
  <2>2. inflight[c] = 1 /\ c \notin DOMAIN inflight' BY <1>0, <1>3, <2>1 DEF HInv, TerminalOnce
  <2>3. FreeReqResources(c, reqs[c], TRUE) BY <1>1, <2>1, <2>2 DEF ReleaseIfLanded
  <2>4. c \in Newest /\ Newest' = Newest \ {c} BY <1>4, <1>5, <2>3 DEF FreeReqResources
  <2>5. Flying(c) = 1 BY <1>3, <2>2 DEF Flying
  <2>6. PICK r : r = reqs[c] OBVIOUS
  <2>7. /\ r.cached \in Nat /\ r.host \in Texts /\ Len(r.host) \in Nat /\ r.cached <= Len(r.host)
        /\ \A i \in 1 .. Len(r.host) : i <= r.cached => token_pool[r.slot][i] = r.host[i]
    BY <1>7, <2>4, <2>5, <2>6
  <2>8. \A i \in 1 .. r.cached : r.host[i] = token_pool[r.slot][i]
    <3>1. \A i \in 1 .. r.cached : i \in 1 .. Len(r.host) /\ i <= r.cached BY <2>7
    <3>2. QED BY <2>7, <3>1
  <2>9. /\ r.handle = reqs[c].handle /\ r.slot = reqs[c].slot /\ r.cached = reqs[c].cached
        /\ FreeReqResources(c, r, TRUE) /\ \A o \in Newest' : reqs'[o] = reqs[o]
        /\ \A p \in Pages \ ToSet(cm'.free) : kv'[p] = kv[p]
    BY <1>2, <2>1, <2>3, <2>6
  <2>10. QED BY <2>4, <2>7, <2>8, <2>9, ReleasedContent
<1>9. CASE ProcessChunk
  <2>1. UNCHANGED <<reqs, cm, page_table, token_pool, free_table>> BY <1>9 DEF ProcessChunk, memory
  <2>2. Newest' = Newest BY <2>1, <1>4, <1>5
  <2>3. QED BY <2>1, <2>2, <1>2, QuietContent
<1>10. CASE ProcessToken
  <2> DEFINE token == Head(proc.tokens)
             r     == [reqs[c] EXCEPT !.host = Append(@, token)]
             kept  == KeepCached(cm, r, page_table[r.slot])
  <2>1. token \in Tokens \cup {None}
    <3>1. proc.tokens \in Seq(Tokens \cup {None}) /\ Len(proc.tokens) = Len(proc.reqs)
      BY <1>0 DEF SInv, ResultsTyped
    <3>2. 1 \in 1 .. Len(proc.tokens)
      <4>1. DOMAIN proc.reqs = 1 .. Len(proc.reqs) BY <1>0, LenProperties DEF IInv, TypeOK
      <4>2. QED BY <4>1, <3>1, <1>3
    <3>3. QED BY <3>1, <3>2, <1>3, ElementOfSeq
  <2>2. reqs[c].class = "Req" /\ \A o \in DOMAIN reqs : o # c => reqs'[o] = reqs[o]
    BY <1>0, <1>1, <1>10, TokenEffects
  <2>3. c \in Newest
    <3>1. c \in Holders BY <1>3 DEF Holders, Referenced
    <3>2. QED BY <1>0, <3>1, <2>2, NewerNewest
  <2>4. /\ reqs[c].cached \in Nat /\ reqs[c].host \in Texts /\ Len(reqs[c].host) \in Nat
        /\ reqs[c].cached < Len(reqs[c].host) + Flying(c) \/ reqs[c].cached <= Len(reqs[c].host)
        /\ \A i \in 1 .. Len(reqs[c].host) : i <= reqs[c].cached => token_pool[reqs[c].slot][i] = reqs[c].host[i]
        /\ Len(reqs[c].host) + 1 <= reqs[c].cached =>
             token_pool[reqs[c].slot][Len(reqs[c].host) + 1] = token
    BY <1>7, <2>2, <2>3
  <2>5. \/ /\ UNCHANGED <<free_table, cm, page_table, token_pool>>
           /\ reqs' = [reqs EXCEPT ![c] = r]
        \/ FreeReqResources(c, r, TRUE) /\ reqs' = [reqs EXCEPT ![c] = r]
        \/ /\ cm' = kept.cm /\ page_table' = [page_table EXCEPT ![r.slot] = kept.row]
           /\ reqs' = [reqs EXCEPT ![c] = [r EXCEPT !.handle = kept.handle]]
           /\ UNCHANGED <<free_table, token_pool>>
    BY <1>1, <1>10 DEF ProcessToken, ReleaseIfLanded
  <2>6. r.host[Len(reqs[c].host) + 1] = token
    <3>1. r.host = Append(reqs[c].host, token)
      <4>1. IsReq(reqs[c]) BY <1>0, <1>3 DEF IInv, Placement, ObjectsPlaced
      <4>2. QED BY <4>1 DEF IsReq, ReqFields
    <3> HIDE DEF r, token
    <3>2. reqs[c].host \in Seq(Tokens \cup {None}) BY <2>4 DEF Texts
    <3>3. Append(reqs[c].host, token)[Len(reqs[c].host) + 1] = token BY <2>1, <3>2, AppendElements
    <3>4. QED BY <3>1, <3>3
  <2> HIDE DEF token
  <2>7. /\ r.handle = reqs[c].handle /\ r.slot = reqs[c].slot /\ r.cached = reqs[c].cached
        /\ r.host \in Texts /\ Len(r.host) = Len(reqs[c].host) + 1
        /\ \A i \in 1 .. Len(reqs[c].host) : r.host[i] = reqs[c].host[i]
        /\ \A h : [r EXCEPT !.handle = h].handle = h
        /\ \A h : /\ [r EXCEPT !.handle = h].slot = r.slot
                  /\ [r EXCEPT !.handle = h].cached = r.cached
                  /\ [r EXCEPT !.handle = h].host = r.host
    BY <1>0, <1>3, <2>1, <2>4, TokenRead
  <2> HIDE DEF r
  <2>8. r.cached \in Nat /\ r.cached <= Len(r.host) /\ Len(reqs[c].host) <= Len(r.host)
    BY <2>4, <2>7, <1>3, <1>6
  <2>9. \A i \in 1 .. r.cached : r.host[i] = token_pool[r.slot][i]
    <3>1. PICK n, m : n = r.cached /\ m = Len(reqs[c].host) OBVIOUS
    <3>2. n \in Nat /\ m \in Nat /\ n <= m + 1 BY <2>4, <2>7, <2>8, <3>1
    <3>3. \A i \in 1 .. m : i <= n => r.host[i] = token_pool[r.slot][i] BY <2>4, <2>7, <3>1
    <3>4. m + 1 <= n => r.host[m + 1] = token_pool[r.slot][m + 1] BY <2>4, <2>6, <2>7, <3>1
    <3>5. \A i \in 1 .. n : i <= n /\ (i \in 1 .. m \/ (i = m + 1 /\ m + 1 <= n)) BY <3>2
    <3>6. \A i \in 1 .. n : r.host[i] = token_pool[r.slot][i] BY <3>3, <3>4, <3>5
    <3>7. QED BY <3>1, <3>6
  <2>10. CASE /\ UNCHANGED <<free_table, cm, page_table, token_pool>>
              /\ reqs' = [reqs EXCEPT ![c] = r]
    <3>1. Newest' = Newest BY <2>10, <1>4, <1>5
    <3>2. reqs'[c] = r BY <2>10, <1>3
    <3>3. ASSUME NEW o \in Newest'
          PROVE  /\ reqs'[o].slot = reqs[o].slot /\ reqs'[o].cached = reqs[o].cached
                 /\ page_table'[reqs[o].slot] = page_table[reqs[o].slot]
                 /\ token_pool'[reqs[o].slot] = token_pool[reqs[o].slot]
      <4>1. CASE o = c BY <4>1, <3>2, <2>7, <2>10
      <4>2. CASE o # c
        <5>1. o \in DOMAIN reqs BY <1>0, <3>1, SlotsApart
        <5>2. reqs'[o] = reqs[o] BY <5>1, <4>2, <2>2
        <5>3. QED BY <5>2, <2>10
      <4>3. QED BY <4>1, <4>2
    <3>4. QED BY <1>2, <2>10, <3>1, <3>3, QuietContent
  <2>11. CASE FreeReqResources(c, r, TRUE) /\ reqs' = [reqs EXCEPT ![c] = r]
    <3>1. Newest' = Newest \ {c} BY <2>11, <1>4, <1>5, <2>7 DEF FreeReqResources
    <3>2. \A o \in Newest' : reqs'[o] = reqs[o]
      <4>1. \A o \in Newest' : o \in DOMAIN reqs /\ o # c BY <1>0, <3>1, SlotsApart
      <4>2. QED BY <4>1, <2>2
    <3>3. \A p \in Pages \ ToSet(cm'.free) : kv'[p] = kv[p] BY <1>2
    <3>4. FreeReqResources(c, r, TRUE) /\ TRUE \in BOOLEAN BY <2>11
    <3>5. QED BY <2>3, <2>7, <2>8, <2>9, <3>1, <3>2, <3>3, <3>4, ReleasedContent
  <2>12. CASE /\ cm' = kept.cm /\ page_table' = [page_table EXCEPT ![r.slot] = kept.row]
              /\ reqs' = [reqs EXCEPT ![c] = [r EXCEPT !.handle = kept.handle]]
              /\ UNCHANGED <<free_table, token_pool>>
    <3>1. Newest' = Newest BY <2>12, <1>4, <1>5
    <3>2. \A o \in Newest \ {c} : reqs'[o] = reqs[o]
      <4>1. \A o \in Newest : o \in DOMAIN reqs BY <1>0, SlotsApart
      <4>2. QED BY <4>1, <2>2
    <3>3. reqs'[c] = [r EXCEPT !.handle = kept.handle] BY <2>12, <1>3
    <3>4. PICK h : h = kept.handle OBVIOUS
    <3>5. reqs'[c].slot = r.slot /\ reqs'[c].cached = r.cached BY <3>3, <3>4, <2>7
    <3>6. UNCHANGED <<kv, token_pool>> BY <1>2, <2>12
    <3>7. cm' = KeepCached(cm, r, page_table[r.slot]).cm
          /\ page_table' = [page_table EXCEPT ![r.slot] = KeepCached(cm, r, page_table[r.slot]).row]
      BY <2>12
    <3> HIDE DEF kept
    <3>8. QED BY <2>3, <2>7, <2>8, <2>9, <3>1, <3>2, <3>5, <3>6, <3>7, KeptContent
  <2>13. QED BY <2>5, <2>10, <2>11, <2>12
<1>11. QED BY <1>8, <1>9, <1>10


-----------------------------------------------------------------------------
(* Admission.                                                              *)

\* The prefix match of a prompt finds pages that hold the prompt's beginning.
LEMMA MatchedContent ==
  ASSUME NEW v, NEW t, TreeFilled(v, t), NEW ids \in Seq(Tokens), NEW m, Matched(t, ids, m),
         Len(m.node) * PageSize <= Len(ids), NEW c, c = Len(m.node) * PageSize,
         NEW pool, \A i \in 1 .. c : pool[i] = ids[i]
  PROVE  RowFilled(v, [i \in 1 .. Len(m.node) |-> m.tree.page[SubSeq(m.node, 1, i)]], pool, c)
<1> DEFINE h   == m.node
           n   == Len(h)
           row == [i \in 1 .. n |-> m.tree.page[SubSeq(h, 1, i)]]
<1>1. PageSize \in Nat \ {0} BY PagesAssumption
<1>2. IsTree(m.tree, Texts) /\ h \in Nodes(m.tree) \cup {<<>>} BY DEF Matched
<1>3. h \in Seq(Texts) /\ n \in Nat /\ \A k \in 1 .. n : SubSeq(h, 1, k) \in CachedPaths(m.tree)
  BY <1>2, HandlePaths
<1>4. CeilDiv(c, PageSize) = n BY <1>3, WholePages
<1>5. ids \in Texts BY SeqMonotonic DEF Texts
<1>6. \A k \in 1 .. n : h[k] = SubSeq(ids, (k - 1) * PageSize + 1, k * PageSize) BY DEF Matched
<1>7. \A k \in 1 .. n : row[k] = m.tree.page[SubSeq(h, 1, k)] OBVIOUS
<1>8. c = n * PageSize /\ c \in Nat /\ c <= Len(ids) BY <1>1, <1>3
<1> HIDE DEF n, row
<1>9. ASSUME NEW k \in 1 .. n PROVE v[row[k]] = SubSeq(pool, 1, FilledTo(k, c))
  <2>1. k \in Nat /\ k <= n BY <1>3
  <2>2. PICK a : a = k * PageSize OBVIOUS
  <2>3. a \in Nat /\ a <= c
    <3>1. \A u, w \in Nat : u <= w => u * PageSize <= w * PageSize BY <1>1
    <3>2. k * PageSize <= n * PageSize BY <2>1, <1>3, <3>1
    <3>3. QED BY <1>1, <1>8, <2>1, <2>2, <3>2
  <2>4. FilledTo(k, c) = a BY <1>8, <2>1, <2>2, <2>3, FilledToBounds
  <2>5. PICK q : q = SubSeq(h, 1, k) OBVIOUS
  <2>6. q \in Seq(Texts) /\ Len(q) = k /\ \A j \in 1 .. k : q[j] = h[j] BY <1>3, <2>1, <2>5 DEF n
  <2>7. v[row[k]] = Flat(q)
    <3>1. q \in CachedPaths(t) /\ row[k] = t.page[q] BY <1>3, <1>7, <2>5 DEF Matched
    <3>2. QED BY <3>1 DEF TreeFilled
  <2>8. Flat(q) = SubSeq(ids, 1, k * PageSize)
    <3>1. \A j \in 1 .. k : j \in 1 .. n BY <2>1, <1>3
    <3>2. \A j \in 1 .. k : q[j] = SubSeq(ids, (j - 1) * PageSize + 1, j * PageSize)
      BY <3>1, <2>6, <1>6
    <3>3. k * PageSize <= Len(ids)
      <4>1. Len(ids) \in Nat BY LenProperties
      <4>2. QED BY <4>1, <1>8, <2>2, <2>3
    <3>4. QED BY ONLY <1>5, <2>1, <2>6, <3>2, <3>3, FlatText
  <2>9. SubSeq(ids, 1, a) = SubSeq(pool, 1, a)
    <3>1. \A i \in 1 .. a : ids[i] \in Tokens /\ pool[i] = ids[i]
      <4>1. Len(ids) \in Nat BY LenProperties
      <4>2. \A i \in 1 .. a : i \in 1 .. Len(ids) /\ i \in 1 .. c BY <4>1, <1>8, <2>3
      <4>3. QED BY <4>2, ElementOfSeq
    <3>2. QED BY <2>3, <3>1, SameSlice
  <2>10. QED BY <2>2, <2>4, <2>7, <2>8, <2>9
<1>10. RowFilled(v, row, pool, c) BY <1>4, <1>9 DEF RowFilled
<1>11. QED BY <1>10 DEF row, n

\* The next chunk of a prompt goes on where the one before it ended.
LEMMA AdmitChunkContent ==
  ASSUME MInv, MInv', KInv, AdmitChunk
  PROVE  KInv'
<1> DEFINE q    == Candidate
           c    == q.chunk
           r    == reqs[c]
           id   == <<q.uid, c[2] + 1>>
           pool == token_pool[r.slot]
           row  == SubSeq(pool, 1, r.cached)
<1>0. IInv /\ IInv' /\ XInv /\ LInv /\ HInv /\ CInv BY DEF MInv
<1>1. /\ pc = "admit" /\ HasCandidate /\ c # None /\ UNCHANGED <<cm, page_table, kv>>
      /\ AddOneReq(q, id, r.slot, r.handle, r.cached, row)
  BY DEF AdmitChunk
<1>2. /\ q \in PendingType /\ (\E k \in DOMAIN pending : q = pending[k]) /\ batch.reqs = <<>>
      /\ \A o \in ToSet(adder.reqs) : o[1] # q.uid
      /\ c \in DOMAIN reqs /\ c[1] = q.uid /\ r.class = "ChunkedReq"
  BY <1>0, <1>1, CandidateAlone
<1>3. /\ c \in Newest /\ id \notin Newest /\ Newest' = (Newest \ {c}) \cup {id}
      /\ \A o \in Holders : reqs'[o] = reqs[o]
  BY <1>0, AdmitChunkSlots
<1>4. c[2] + 1 \in Nat
  <2>1. c \in Objs BY <1>0, <1>2 DEF IInv, TypeOK
  <2>2. QED BY <2>1 DEF Objs
<1>5. c \notin Handed BY <1>2, EmptyFacts DEF Handed
<1>6. /\ pool \in Texts /\ Len(pool) = r.cached
      /\ \A i \in 1 .. r.cached : pool[i] = q.ids[i]
  <2>1. Stored(c) BY <1>0, <1>3 DEF HInv
  <2>2. Cut(q) BY <1>0, <1>1, <1>2 DEF HInv, QueuePrefixes
  <2>3. /\ r.host \in Texts /\ pool \in Texts /\ Len(pool) = Len(r.host) /\ Len(pool) = r.cached
        /\ \A i \in 1 .. Len(r.host) : i <= Len(pool) => pool[i] = r.host[i]
    BY <1>2, <1>5, <2>1 DEF Stored
  <2>4. \A i \in 1 .. Len(r.host) : r.host[i] = q.ids[i] BY <2>2 DEF Cut
  <2> HIDE DEF pool, r, q
  <2>5. \A i \in 1 .. r.cached : i <= r.cached /\ i \in 1 .. Len(r.host) BY <2>3
  <2>6. QED BY <2>3, <2>4, <2>5
<1>7. r.cached \in Nat /\ r.cached < Len(q.ids) /\ q.ids \in Seq(Tokens)
  <2>1. r.cached \in Nat BY <1>6, LenProperties DEF Texts
  <2>2. r.cached < Len(q.ids) BY <1>0, <1>1, <1>2, EmptyFacts DEF LInv, QueueLengths
  <2>3. QED BY <1>2, <2>1, <2>2 DEF PendingType
<1>8. PICK chunk \in Nat \ {0}, class \in {"Req", "ChunkedReq"} :
        Made(q, id, r.slot, r.handle, r.cached, row, chunk, class)
  <2> HIDE DEF row, r
  <2>1. QED BY <1>0, <1>1, <1>4, <1>7, AddedObject
<1>9. /\ reqs'[id].slot = r.slot /\ reqs'[id].cached = r.cached
      /\ r.cached + chunk <= Len(q.ids)
      /\ token_pool' = [token_pool EXCEPT ![r.slot] = CopyTokens(row, q.ids, r.cached + 1, r.cached + chunk)]
  <2>1. chunk \in Nat /\ q \in PendingType /\ r.cached \in Nat BY <1>2, <1>7
  <2> HIDE DEF row, r, q, id
  <2>2. IsMade(reqs'[id], q, r.slot, r.handle, r.cached, chunk) BY ONLY <2>1, <1>8, MadeHost
  <2>3. QED BY <2>2, <1>8 DEF IsMade, Made
<1>10. /\ r.slot \in Slots /\ DOMAIN token_pool = Slots
       /\ \A o \in Newest : reqs[o].slot = r.slot => o = c
  BY <1>0, <1>3, SlotsApart DEF HInv
<1>11. \A i \in 1 .. r.cached : token_pool'[r.slot][i] = pool[i]
  <2>1. PICK a, b, ids, line, old : a = r.cached /\ b = a + chunk /\ ids = q.ids /\ line = row /\ old = pool
    OBVIOUS
  <2>2. a \in Nat /\ b \in Nat /\ a <= b /\ b <= Len(ids) /\ ids \in Seq(Tokens)
    BY <1>7, <1>8, <1>9, <2>1
  <2>3. old \in Texts /\ Len(old) = a /\ \A i \in 1 .. a : old[i] = ids[i] BY <1>6, <2>1
  <2>4. line = SubSeq(old, 1, a) BY <2>1
  <2>5. line \in Texts /\ Len(line) = a /\ \A i \in 1 .. a : line[i] = ids[i]
    BY <2>2, <2>3, <2>4 DEF Texts
  <2>6. \A i \in 1 .. b : CopyTokens(line, ids, a + 1, b)[i] = ids[i]
    <3>1. ids \in Seq(Tokens) BY <2>2
    <3>2. a \in Nat BY <2>2
    <3>3. b \in Nat BY <2>2
    <3>4. a <= b BY <2>2
    <3>5. b <= Len(ids) BY <2>2
    <3>6. line \in Texts BY <2>5
    <3>7. Len(line) = a BY <2>5
    <3>8. \A i \in 1 .. a : line[i] = ids[i] BY <2>5
    <3>9. /\ CopyTokens(line, ids, a + 1, b) \in Texts /\ SubSeq(ids, 1, b) \in Texts
          /\ Len(CopyTokens(line, ids, a + 1, b)) = b /\ Len(SubSeq(ids, 1, b)) = b
          /\ \A i \in 1 .. b : /\ CopyTokens(line, ids, a + 1, b)[i] = ids[i]
                               /\ SubSeq(ids, 1, b)[i] = ids[i]
      BY ONLY <3>1, <3>2, <3>3, <3>4, <3>5, <3>6, <3>7, <3>8, CopiedTokens
    <3>10. QED BY <3>9
  <2>7. token_pool'[r.slot] = CopyTokens(line, ids, a + 1, b) BY <1>9, <1>10, <2>1
  <2>8. \A i \in 1 .. a : i \in 1 .. b BY <2>2
  <2>9. QED BY <2>1, <2>3, <2>6, <2>7, <2>8
<1>12. PICK d, s, n : d = id /\ s = r.slot /\ n = r.cached OBVIOUS
<1>13. ASSUME NEW o \in Newest'
       PROVE  RowFilled(kv, page_table'[reqs'[o].slot], token_pool'[reqs'[o].slot], reqs'[o].cached)
  <2>1. CASE o = id
    <3>1. RowFilled(kv, page_table[s], token_pool[s], n) BY <1>3, <1>12 DEF KInv
    <3>2. token_pool[s] \in Texts /\ n \in Nat /\ n <= Len(token_pool[s])
      BY <1>6, <1>7, <1>12
    <3>3. \A i \in 1 .. n : token_pool'[s][i] = token_pool[s][i] BY <1>11, <1>12
    <3>4. RowFilled(kv, page_table[s], token_pool'[s], n) BY ONLY <3>1, <3>2, <3>3, RowFilledKept
    <3>5. reqs'[o].slot = s /\ reqs'[o].cached = n /\ page_table' = page_table BY <1>1, <1>9, <1>12, <2>1
    <3>6. QED BY <3>4, <3>5
  <2>2. CASE o # id
    <3>1. o \in Newest /\ o # c BY <2>2, <1>3
    <3>2. reqs'[o] = reqs[o] BY <3>1, <1>3 DEF Newest
    <3>3. reqs[o].slot # s /\ reqs[o].slot \in Slots BY <3>1, <1>0, <1>10, <1>12, SlotsApart
    <3>4. token_pool'[reqs[o].slot] = token_pool[reqs[o].slot] BY <3>3, <1>9, <1>10, <1>12
    <3>5. RowFilled(kv, page_table[reqs[o].slot], token_pool[reqs[o].slot], reqs[o].cached) BY <3>1 DEF KInv
    <3>6. QED BY <3>2, <3>4, <3>5, <1>1
  <2>3. QED BY <2>1, <2>2
<1>14. TreeFilled(kv, cm'.tree) /\ kv' = kv BY <1>1 DEF KInv
<1>15. QED BY <1>13, <1>14, ContentKept


\* A new request starts with the cache's pages and the prompt they were matched with.
LEMMA AdmitNewContent ==
  ASSUME MInv, MInv', KInv, AdmitNew
  PROVE  KInv'
<1> DEFINE q      == Candidate
           id     == <<q.uid, 0>>
           m      == MatchReq(cm, q.ids)
           cached == Len(m.node) * PageSize
           slot   == free_table[Len(free_table)]
           row    == SubSeq(q.ids, 1, cached)
           line   == [i \in 1 .. Len(m.node) |-> m.tree.page[SubSeq(m.node, 1, i)]]
           t      == cm.tree
           t1     == LockPath(m.tree, m.node)
<1>0. IInv /\ IInv' /\ XInv /\ LInv /\ HInv /\ CInv BY DEF MInv
<1>1. /\ pc = "admit" /\ HasCandidate /\ free_table # <<>> /\ kv' = kv
      /\ cm' = [cm EXCEPT !.tree = t1] /\ page_table' = [page_table EXCEPT ![slot] = line]
      /\ AddOneReq(q, id, slot, m.node, cached, row)
  BY DEF AdmitNew
<1>2. q \in PendingType /\ q.ids \in Seq(Tokens) \ {<<>>}
  <2>1. q \in PendingType BY <1>0, <1>1, CandidateAlone
  <2>2. QED BY <2>1 DEF PendingType
<1>3. /\ \A o \in Holders : reqs[o].slot # slot /\ reqs'[o] = reqs[o]
      /\ id \notin Newest /\ Newest' = Newest \cup {id}
  BY <1>0, AdmitNewSlots
<1>4. slot \in Slots /\ DOMAIN page_table = Slots /\ DOMAIN token_pool = Slots
  <2>1. free_table \in Seq(Slots) BY <1>0 DEF IInv, TypeOK
  <2>2. Len(free_table) \in Nat \ {0} BY <1>1, <2>1, EmptySeq
  <2>3. slot \in Slots BY <2>1, <2>2, ElementOfSeq
  <2>4. QED BY <2>3, <1>0 DEF LInv, RowLengths, HInv
<1>5. cached \in Nat /\ cached < Len(q.ids) BY <1>2, MatchLength
<1>6. IsTree(t, Texts) /\ cm = [free |-> cm.free, tree |-> t, lazy |-> cm.lazy]
  BY <1>0 DEF CInv, TreeHolds
<1>7. Matched(t, q.ids, m) BY <1>2, <1>6, MatchedTree
<1> HIDE DEF m
<1>8. PICK chunk \in Nat \ {0}, class \in {"Req", "ChunkedReq"} :
        Made(q, id, slot, m.node, cached, row, chunk, class)
  <2>1. 0 \in Nat OBVIOUS
  <2> HIDE DEF row, cached, slot
  <2>2. QED BY <1>0, <1>1, <1>5, <2>1, AddedObject
<1>9. /\ reqs'[id].slot = slot /\ reqs'[id].cached = cached
      /\ cached + chunk <= Len(q.ids)
      /\ token_pool' = [token_pool EXCEPT ![slot] = CopyTokens(row, q.ids, cached + 1, cached + chunk)]
  <2>1. chunk \in Nat /\ q \in PendingType /\ cached \in Nat BY <1>2, <1>5, <1>8
  <2>2. PICK n : n = m.node OBVIOUS
  <2> HIDE DEF row, cached, slot, q, id
  <2>3. Made(q, id, slot, n, cached, row, chunk, class) BY <1>8, <2>2
  <2>4. IsMade(reqs'[id], q, slot, n, cached, chunk) BY ONLY <2>1, <2>3, MadeHost
  <2>5. QED BY <2>4, <1>8 DEF IsMade, Made
<1>10. PICK n, x, c, d, s : n = m /\ x = q.ids /\ c = cached /\ d = id /\ s = slot OBVIOUS
<1>11. x \in Seq(Tokens) /\ c \in Nat /\ c + chunk \in Nat /\ c <= c + chunk /\ c + chunk <= Len(x)
  BY <1>2, <1>5, <1>8, <1>9, <1>10
<1>12. \A i \in 1 .. c : token_pool'[s][i] = x[i]
  <2>1. PICK e, b, k, ids : e = SubSeq(x, 1, c) /\ b = c + chunk /\ k = c /\ ids = x OBVIOUS
  <2>2. k \in Nat /\ b \in Nat /\ k <= b /\ b <= Len(ids) /\ ids \in Seq(Tokens) BY <1>11, <2>1
  <2>3. e \in Texts /\ Len(e) = k /\ \A i \in 1 .. k : e[i] = ids[i]
    <3>1. ids \in Texts BY <2>2, SeqMonotonic DEF Texts
    <3>2. Len(ids) \in Nat /\ k <= Len(ids) BY <2>2, LenProperties
    <3>3. e = SubSeq(ids, 1, k) BY <2>1
    <3>4. QED BY <2>2, <3>1, <3>2, <3>3 DEF Texts
  <2>4. \A i \in 1 .. b : CopyTokens(e, ids, k + 1, b)[i] = ids[i]
    <3>1. ids \in Seq(Tokens) BY <2>2
    <3>2. k \in Nat BY <2>2
    <3>3. b \in Nat BY <2>2
    <3>4. k <= b BY <2>2
    <3>5. b <= Len(ids) BY <2>2
    <3>6. e \in Texts BY <2>3
    <3>7. Len(e) = k BY <2>3
    <3>8. \A i \in 1 .. k : e[i] = ids[i] BY <2>3
    <3>9. /\ CopyTokens(e, ids, k + 1, b) \in Texts /\ SubSeq(ids, 1, b) \in Texts
          /\ Len(CopyTokens(e, ids, k + 1, b)) = b /\ Len(SubSeq(ids, 1, b)) = b
          /\ \A i \in 1 .. b : /\ CopyTokens(e, ids, k + 1, b)[i] = ids[i]
                               /\ SubSeq(ids, 1, b)[i] = ids[i]
      BY ONLY <3>1, <3>2, <3>3, <3>4, <3>5, <3>6, <3>7, <3>8, CopiedTokens
    <3>10. QED BY <3>9
  <2>5. token_pool'[s] = CopyTokens(e, x, c + 1, b)
    <3> HIDE DEF slot, cached, q
    <3>1. QED BY <1>4, <1>9, <1>10, <2>1 DEF row
  <2>6. \A i \in 1 .. k : i \in 1 .. b BY <2>2
  <2>7. QED BY <2>1, <2>4, <2>5, <2>6
<1>13. c = Len(n.node) * PageSize /\ c <= Len(x) /\ Matched(t, x, n)
  <2>1. Len(x) \in Nat BY <1>11, LenProperties
  <2>2. QED BY <2>1, <1>5, <1>7, <1>10
<1>14. TreeFilled(kv, t) BY DEF KInv
<1>15. RowFilled(kv, [i \in 1 .. Len(n.node) |-> n.tree.page[SubSeq(n.node, 1, i)]], token_pool'[s], c)
  <2>1. PICK pool : pool = token_pool'[s] OBVIOUS
  <2>2. PICK tree : tree = t OBVIOUS
  <2>3. /\ \A i \in 1 .. c : pool[i] = x[i]
        /\ TreeFilled(kv, tree) /\ Matched(tree, x, n)
        /\ Len(n.node) * PageSize <= Len(x)
    BY <1>12, <1>13, <1>14, <2>1, <2>2
  <2>4. RowFilled(kv, [i \in 1 .. Len(n.node) |-> n.tree.page[SubSeq(n.node, 1, i)]], pool, c)
    BY ONLY <1>11, <1>13, <2>3, MatchedContent
  <2>5. QED BY <2>1, <2>4
<1>16. ASSUME NEW o \in Newest'
       PROVE  RowFilled(kv, page_table'[reqs'[o].slot], token_pool'[reqs'[o].slot], reqs'[o].cached)
  <2>1. CASE o = id
    <3>1. page_table'[s] = line BY <1>1, <1>4, <1>10
    <3>2. page_table'[s] = [i \in 1 .. Len(n.node) |-> n.tree.page[SubSeq(n.node, 1, i)]]
      BY <3>1, <1>10, Zenon
    <3>3. reqs'[o].slot = s /\ reqs'[o].cached = c BY <1>9, <1>10, <2>1
    <3>4. QED BY <3>2, <3>3, <1>15
  <2>2. CASE o # id
    <3>1. o \in Newest /\ o \in Holders BY <2>2, <1>3 DEF Newest
    <3>2. reqs'[o] = reqs[o] /\ reqs[o].slot # s /\ reqs[o].slot \in Slots
      BY <3>1, <1>0, <1>3, <1>10, SlotsApart
    <3>3. /\ token_pool'[reqs[o].slot] = token_pool[reqs[o].slot]
          /\ page_table'[reqs[o].slot] = page_table[reqs[o].slot]
      <4> HIDE DEF slot, row, line
      <4>1. QED BY <3>2, <1>1, <1>4, <1>9, <1>10
    <3>4. RowFilled(kv, page_table[reqs[o].slot], token_pool[reqs[o].slot], reqs[o].cached) BY <3>1 DEF KInv
    <3>5. QED BY <3>2, <3>3, <3>4
  <2>3. QED BY <2>1, <2>2
<1>17. TreeFilled(kv, cm'.tree)
  <2>1. cm'.tree = t1
    <3> HIDE DEF t1
    <3>1. QED BY <1>1, <1>6
  <2>2. t1.page = m.tree.page
    <3>1. IsTree(m.tree, Texts) BY <1>7 DEF Matched
    <3>2. QED BY <3>1, LockedPages
  <2>3. m.tree.page = t.page BY <1>7 DEF Matched
  <2>4. cm'.tree.page = t.page
    <3> HIDE DEF t1
    <3>1. QED BY <2>1, <2>2, <2>3
  <2>5. PICK u, w : u = cm'.tree /\ w = t OBVIOUS
  <2>6. TreeFilled(kv, w) /\ u.page = w.page BY <2>4, <2>5, <1>14
  <2>7. TreeFilled(kv, u) BY <2>6 DEF TreeFilled, CachedPaths
  <2>8. QED BY <2>5, <2>7
<1>18. \A p \in Pages \ ToSet(cm'.free) : kv'[p] = kv[p] BY <1>1
<1>19. QED BY <1>16, <1>17, <1>18, ContentKept


-----------------------------------------------------------------------------
(* Forward.                                                                *)

\* What the pass fills of a request's row: its k-th pages, with what is put there.
Span(r) == (r.cached \div PageSize) + 1 .. CeilDiv(r.device, PageSize)
Put(r, k) == SubSeq(token_pool[r.slot], 1, FilledTo(k, r.device))
Entries(objs, rows) ==
  UNION {{<<rows[reqs[objs[i]].slot][k], Put(reqs[objs[i]], k)>> : k \in Span(reqs[objs[i]])} :
           i \in DOMAIN objs}

\* A page the pass fills with one thing holds that; the others hold what they held.
LEMMA FilledPage ==
  ASSUME NEW objs, NEW rows, NEW p \in Pages, NEW w,
         \A i \in DOMAIN objs : \A k \in Span(reqs[objs[i]]) :
           rows[reqs[objs[i]].slot][k] = p => Put(reqs[objs[i]], k) = w
  PROVE  FilledPages(objs, rows)[p] =
           IF \E i \in DOMAIN objs : \E k \in Span(reqs[objs[i]]) : rows[reqs[objs[i]].slot][k] = p
           THEN w ELSE kv[p]
<1>1. PICK all : all = Entries(objs, rows) OBVIOUS
<1>2. FilledPages(objs, rows) = [x \in Pages |-> IF \E e \in Entries(objs, rows) : e[1] = x
                                 THEN (CHOOSE e \in Entries(objs, rows) : e[1] = x)[2] ELSE kv[x]]
  BY Zenon DEF FilledPages, Entries, Put, Span, FilledTo
<1>3. FilledPages(objs, rows)[p] = IF \E e \in all : e[1] = p
                                   THEN (CHOOSE e \in all : e[1] = p)[2] ELSE kv[p]
  BY <1>1, <1>2
<1>4. ASSUME NEW e \in all
      PROVE  \E i \in DOMAIN objs : \E k \in Span(reqs[objs[i]]) :
               e[1] = rows[reqs[objs[i]].slot][k] /\ e[2] = Put(reqs[objs[i]], k)
  <2>1. PICK i \in DOMAIN objs :
          e \in {<<rows[reqs[objs[i]].slot][k], Put(reqs[objs[i]], k)>> : k \in Span(reqs[objs[i]])}
    BY <1>1 DEF Entries
  <2>2. PICK k \in Span(reqs[objs[i]]) : e = <<rows[reqs[objs[i]].slot][k], Put(reqs[objs[i]], k)>>
    BY <2>1
  <2>3. QED BY <2>2
<1>5. ASSUME NEW i \in DOMAIN objs, NEW k \in Span(reqs[objs[i]])
      PROVE  \E e \in all : e[1] = rows[reqs[objs[i]].slot][k]
  <2>1. PICK e : e = <<rows[reqs[objs[i]].slot][k], Put(reqs[objs[i]], k)>> OBVIOUS
  <2>2. e \in {<<rows[reqs[objs[i]].slot][n], Put(reqs[objs[i]], n)>> : n \in Span(reqs[objs[i]])}
    BY <2>1
  <2>3. e \in all BY <2>2, <1>1 DEF Entries
  <2>4. QED BY <2>1, <2>3
<1>6. \A e \in all : e[1] = p => e[2] = w BY <1>4
<1>7. (\E e \in all : e[1] = p) <=>
      \E i \in DOMAIN objs : \E k \in Span(reqs[objs[i]]) : rows[reqs[objs[i]].slot][k] = p
  <2>1. ASSUME \E e \in all : e[1] = p
        PROVE  \E i \in DOMAIN objs : \E k \in Span(reqs[objs[i]]) : rows[reqs[objs[i]].slot][k] = p
    BY <2>1, <1>4
  <2>2. ASSUME \E i \in DOMAIN objs : \E k \in Span(reqs[objs[i]]) : rows[reqs[objs[i]].slot][k] = p
        PROVE  \E e \in all : e[1] = p
    BY <2>2, <1>5
  <2>3. QED BY <2>1, <2>2
<1>8. (\E e \in all : e[1] = p) => (CHOOSE e \in all : e[1] = p)[2] = w BY <1>6
<1>9. CASE \E e \in all : e[1] = p BY <1>3, <1>7, <1>8, <1>9
<1>10. CASE ~\E e \in all : e[1] = p BY <1>3, <1>7, <1>10
<1>11. QED BY <1>9, <1>10

\* Where the pass starts is behind the handle; before, all is filled already.
LEMMA SpanBounds ==
  ASSUME NEW c \in Nat, NEW d \in Nat, c <= d, NEW h \in Nat, h * PageSize <= c,
         NEW k \in Nat, k >= 1, k <= CeilDiv(d, PageSize)
  PROVE  /\ c \div PageSize \in Nat /\ CeilDiv(d, PageSize) \in Nat
         /\ k > c \div PageSize => k > h
         /\ k <= c \div PageSize =>
              /\ k \in 1 .. CeilDiv(c, PageSize)
              /\ FilledTo(k, c) = FilledTo(k, d)
<1>1. PICK P \in Nat \ {0} : P = PageSize BY PagesAssumption
<1>2. PICK n : n = c \div P OBVIOUS
<1>3. n \in Nat /\ n * P <= c /\ c < (n + 1) * P
  <2>1. c \div P \in Nat BY <1>1
  <2>2. (c \div P) * P <= c BY <1>1
  <2>3. c < ((c \div P) + 1) * P BY <1>1
  <2>4. QED BY <1>2, <2>1, <2>2, <2>3
<1>4. h <= n
  <2>1. SUFFICES ASSUME h >= n + 1 PROVE FALSE BY <1>3
  <2>2. \A u, v \in Nat : u <= v => u * P <= v * P BY <1>1
  <2>3. (n + 1) * P <= h * P BY <2>1, <2>2, <1>3
  <2>4. (n + 1) * P \in Nat /\ h * P \in Nat BY <1>1, <1>3
  <2>5. QED BY <2>3, <2>4, <1>1, <1>3
<1>5. CeilDiv(d, PageSize) \in Nat /\ CeilDiv(c, PageSize) \in Nat BY CeilDivFacts
<1>6. ASSUME k <= n
      PROVE  k * P <= c /\ k * P \in Nat /\ k <= CeilDiv(c, PageSize)
  <2>1. \A u, v \in Nat : u <= v => u * P <= v * P BY <1>1
  <2>2. k * P <= n * P BY <2>1, <1>3, <1>6
  <2>3. k * P \in Nat /\ n * P \in Nat BY <1>1, <1>3
  <2>4. k * P <= c BY <2>2, <2>3, <1>3
  <2>5. CeilDiv(k * P, PageSize) = k BY <1>1, WholePages
  <2>6. CeilDiv(k * P, PageSize) <= CeilDiv(c, PageSize) BY <2>3, <2>4, CeilDivFacts
  <2>7. QED BY <2>3, <2>4, <2>5, <2>6
<1>7. ASSUME k <= n PROVE FilledTo(k, c) = FilledTo(k, d)
  <2>1. k * P <= c /\ k * P <= d BY <1>6, <1>7
  <2>2. FilledTo(k, c) = k * PageSize BY <1>1, <2>1, FilledToBounds
  <2>3. FilledTo(k, d) = k * PageSize BY <1>1, <2>1, FilledToBounds
  <2>4. QED BY <2>2, <2>3
<1>8. k > n => k > h BY <1>3, <1>4
<1>9. k <= n => k \in 1 .. CeilDiv(c, PageSize) BY <1>5, <1>6
<1>10. QED BY <1>1, <1>2, <1>3, <1>5, <1>7, <1>8, <1>9

\* A request's own page is in one place only.
LEMMA PlacesApart ==
  ASSUME MInv
  PROVE  \A o \in Newest : \A k \in 1 .. CeilDiv(reqs[o].cached, PageSize) :
           k > Len(reqs[o].handle) =>
             /\ page_table[reqs[o].slot][k] \in Pages
             /\ \A q \in CachedPaths(cm.tree) : cm.tree.page[q] # page_table[reqs[o].slot][k]
             /\ \A x \in Newest : \A n \in 1 .. CeilDiv(reqs[x].cached, PageSize) :
                  page_table[reqs[x].slot][n] = page_table[reqs[o].slot][k] => x = o /\ n = k
<1> SUFFICES ASSUME NEW o \in Newest, NEW k \in 1 .. CeilDiv(reqs[o].cached, PageSize),
                    k > Len(reqs[o].handle)
             PROVE  /\ page_table[reqs[o].slot][k] \in Pages
                    /\ \A q \in CachedPaths(cm.tree) : cm.tree.page[q] # page_table[reqs[o].slot][k]
                    /\ \A x \in Newest : \A n \in 1 .. CeilDiv(reqs[x].cached, PageSize) :
                         page_table[reqs[x].slot][n] = page_table[reqs[o].slot][k] => x = o /\ n = k
  OBVIOUS
<1>1. PICK p : p = page_table[reqs[o].slot][k] OBVIOUS
<1>2. p \in OwnPages[o] BY <1>1, RowPlaces
<1>3. Parted(ToSet(cm.free), ToSet(cm.lazy), CachePages(cm.tree), Newest, OwnPages)
  BY DEF MInv, PInv, Shared
<1>4. OwnPages[o] \subseteq Pages /\ OwnPages[o] \cap CachePages(cm.tree) = {} BY <1>3 DEF Parted
<1>5. p \in Pages /\ p \notin CachePages(cm.tree) BY <1>2, <1>4
<1>6. \A q \in CachedPaths(cm.tree) : cm.tree.page[q] # p BY <1>5 DEF CachePages
<1>7. ASSUME NEW x \in Newest, NEW n \in 1 .. CeilDiv(reqs[x].cached, PageSize),
             page_table[reqs[x].slot][n] = p
      PROVE  x = o /\ n = k
  <2>1. PICK l : l = Len(reqs[x].handle) OBVIOUS
  <2>2. n \in Nat /\ l \in Nat /\ (n <= l => p \in CachePages(cm.tree)) /\ (n > l => p \in OwnPages[x])
    BY <1>7, <2>1, RowPlaces
  <2>3. n > l /\ p \in OwnPages[x] BY <2>2, <1>5
  <2>4. x = o
    <3>1. SUFFICES ASSUME x # o PROVE FALSE OBVIOUS
    <3>2. OwnPages[x] \cap OwnPages[o] = {} BY <1>3, <3>1 DEF Parted
    <3>3. QED BY <1>2, <2>3, <3>2
  <2>5. PICK row, c : row = page_table[reqs[o].slot] /\ c = CeilDiv(reqs[o].cached, PageSize) OBVIOUS
  <2>6. RowOnce(row, l) BY <2>1, <2>4, <2>5, OwnRow DEF MInv
  <2>7. Len(row) = c
    <3>1. RowHolds(reqs[o], row, cm.tree) BY <2>5 DEF MInv, CInv
    <3>2. QED BY <3>1, <2>5 DEF RowHolds
  <2>8. c \in Nat BY <2>5, PoolCovers, CeilDivFacts
  <2>9. k \in Nat /\ k > l BY <2>1, <2>4, RowPlaces
  <2>10. n \in l + 1 .. Len(row) /\ k \in l + 1 .. Len(row)
    BY <2>2, <2>3, <2>4, <2>5, <2>7, <2>8, <2>9
  <2>11. row[n] = row[k] BY <1>1, <1>7, <2>4, <2>5
  <2>12. QED BY <2>4, <2>6, <2>10, <2>11 DEF RowOnce, OnceBetween
<1>8. QED BY <1>1, <1>5, <1>6, <1>7


\* What the allocator leaves of the tree keeps its pages.
LEMMA AllocatedFilled ==
  ASSUME NEW v, NEW c, c = [free |-> c.free, tree |-> c.tree, lazy |-> c.lazy], IsTree(c.tree, Texts),
         TreeFilled(v, c.tree), NEW needed, NEW a \in Allocations(c, needed)
  PROVE  TreeFilled(v, a.cm.tree)
<1>1. ASSUME needed - Len(c.free) <= 0 PROVE a.cm.tree = c.tree
  <2>1. PICK g : g = SubSeq(c.free, needed + 1, Len(c.free)) OBVIOUS
  <2>2. PICK s : s = SubSeq(c.free, 1, needed) OBVIOUS
  <2>3. a = [pages |-> s, cm |-> [c EXCEPT !.free = g]] BY <1>1, <2>1, <2>2 DEF Allocations
  <2>4. a.cm = [c EXCEPT !.free = g] BY <2>3
  <2>5. QED BY <2>4
<1>2. ASSUME ~(needed - Len(c.free) <= 0)
      PROVE  \E S \in Evictions(c.tree, needed - Len(c.free)) : a.cm.tree = RemoveNodes(c.tree, S)
  <2> DEFINE Merged(S) == Ascending(c.free \o SetToSeq(PagesOn(c.tree, S)))
             Handout(S) == [pages |-> SubSeq(Merged(S), 1, needed),
                            cm |-> [c EXCEPT !.free = SubSeq(Merged(S), needed + 1, Len(Merged(S))),
                                             !.tree = RemoveNodes(@, S)]]
  <2>0. Allocations(c, needed) = {Handout(S) : S \in Evictions(c.tree, needed - Len(c.free))}
    BY ONLY <1>2, Zenon DEF Allocations
  <2> HIDE DEF Handout
  <2>1. PICK S \in Evictions(c.tree, needed - Len(c.free)) : a = Handout(S) BY <2>0
  <2>2. PICK free : free = Ascending(c.free \o SetToSeq(PagesOn(c.tree, S))) OBVIOUS
  <2>3. PICK g, s : g = SubSeq(free, needed + 1, Len(free)) /\ s = SubSeq(free, 1, needed) OBVIOUS
  <2>4. PICK u : u = RemoveNodes(c.tree, S) OBVIOUS
  <2>5. a = [pages |-> s, cm |-> [c EXCEPT !.free = g, !.tree = u]]
    BY <2>1, <2>2, <2>3, <2>4 DEF Handout
  <2>6. a.cm = [c EXCEPT !.free = g, !.tree = u] BY <2>5
  <2>7. a.cm = [free |-> g, tree |-> u, lazy |-> c.lazy] BY <2>6
  <2>8. QED BY <2>4, <2>7
<1>3. CASE needed - Len(c.free) <= 0 BY <1>1, <1>3
<1>4. CASE ~(needed - Len(c.free) <= 0)
  <2>1. PICK t : t = c.tree OBVIOUS
  <2>2. PICK S \in Evictions(t, needed - Len(c.free)) : a.cm.tree = RemoveNodes(t, S)
    BY <1>2, <1>4, <2>1
  <2>3. S \subseteq {n \in Nodes(t) : t.ref[n] = 0} /\ \A n \in S, m \in Nodes(t) : IsPrefix(n, m) => m \in S
    BY <2>2 DEF Evictions
  <2>4. PICK u : u = RemoveNodes(t, S) OBVIOUS
  <2>5. IsTree(t, Texts) /\ TreeFilled(v, t) BY <2>1
  <2>6. CachedPaths(u) \subseteq CachedPaths(t) /\ \A p \in CachedPaths(u) : u.page[p] = t.page[p]
    BY <2>3, <2>4, <2>5, RemoveNodesTree
  <2>7. TreeFilled(v, u) BY <2>5, <2>6 DEF TreeFilled
  <2>8. QED BY <2>2, <2>4, <2>7
<1>5. QED BY <1>3, <1>4

\* The row has every token the pass computes, and keeps it.
LEMMA BatchTokens ==
  ASSUME MInv, NEW t \in Samples(batch.reqs), Launched(t),
         NEW i \in DOMAIN batch.reqs, NEW o \in Newest, batch.reqs[i] = o
  PROVE  LET r == reqs[o]  pool == token_pool[reqs[o].slot]
         IN  /\ r.cached \in Nat /\ r.device \in Nat /\ r.cached <= r.device
             /\ pool \in Texts /\ r.device <= Len(pool)
             /\ \A j \in 1 .. r.device : token_pool'[r.slot][j] = pool[j]
<1> DEFINE r    == reqs[o]
           pool == token_pool[r.slot]
           next == token_pool'[r.slot]
<1>1. TypeOK /\ Stored(o) /\ ObjectLengths /\ o \in DOMAIN reqs /\ o \in ToSet(batch.reqs)
  BY SlotsApart, ToSetElement DEF MInv, IInv, HInv, LInv
<1>2. r.cached \in Int /\ r.device \in Int /\ 0 <= r.cached /\ r.cached < r.device
      /\ r.class \in {"Req", "ChunkedReq"} /\ r.max \in Int /\ r.device <= r.max
  BY <1>1 DEF TypeOK, ObjectLengths
<1>3. o \in Handed BY <1>1 DEF Handed
<1>4. /\ pool \in Texts
      /\ r.class = "Req" => Len(pool) = IF r.device <= r.max THEN r.device ELSE r.max
      /\ r.class = "ChunkedReq" => Len(pool) = r.device
  BY <1>1, <1>3 DEF Stored
<1>5. next = IF CanDecode(r) THEN Append(pool, t[i]) ELSE pool
  BY LaunchedObject DEF MInv
<1>6. t[i] \in Tokens \cup {None}
  <2>1. t \in [DOMAIN batch.reqs -> Sampled \cup {None}] BY DEF Samples
  <2>2. QED BY <2>1, SampledAssumption
<1> HIDE DEF r, pool, next
<1>7. Len(pool) = r.device BY <1>2, <1>4
<1>8. r.device \in Nat /\ r.cached \in Nat /\ r.cached <= r.device BY <1>2
<1>9. \A j \in 1 .. Len(pool) : next[j] = pool[j]
  <2>1. CASE CanDecode(r) BY <2>1, <1>4, <1>5, <1>6, AppendElements DEF Texts
  <2>2. CASE ~CanDecode(r) BY <2>2, <1>5
  <2>3. QED BY <2>1, <2>2
<1>10. r.device <= Len(pool) BY <1>7, <1>8
<1>11. QED BY <1>4, <1>7, <1>8, <1>9, <1>10 DEF r, pool, next


\* The pass fills pages behind the handles of the batch only, which are in one place
\* each: what is cached and what the others have stays as it was.
LEMMA ForwardContent ==
  ASSUME MInv, MInv', KInv, Forward
  PROVE  KInv'
<1> DEFINE objs == batch.reqs
           Named(p) == \E i \in DOMAIN objs : \E k \in Span(reqs[objs[i]]) :
                         page_table'[reqs[objs[i]].slot][k] = p
<1>0. IInv /\ IInv' /\ SInv /\ XInv /\ LInv /\ HInv /\ CInv BY DEF MInv
<1>1. Newest' = Newest BY <1>0, ForwardSlots
<1>2. PICK a \in Allocations(cm, NeededPages(Fields(objs))), s \in Samples(objs) :
        /\ cm' = a.cm /\ page_table' = WriteRows(page_table, Fields(objs), a.pages)
        /\ kv' = FilledPages(objs, page_table') /\ Launched(s)
  BY DEF Forward, Launched
<1>3. \A i \in DOMAIN objs : objs[i] \in Newest /\ objs[i] \in ToSet(objs)
  <2>1. \A i \in DOMAIN objs : objs[i] \in ToSet(objs) BY ToSetElement
  <2>2. QED BY <2>1, <1>0, NewerNewest DEF Newer
<1>4. ASSUME NEW o \in Newest
      PROVE  /\ reqs'[o].handle = reqs[o].handle /\ reqs'[o].slot = reqs[o].slot
             /\ o \notin ToSet(objs) => reqs'[o] = reqs[o]
             /\ o \in ToSet(objs) => reqs'[o].cached = reqs[o].device
  <2>1. IsReq(reqs[o]) /\ o \in DOMAIN reqs BY <1>0, SlotsApart DEF IInv, Placement, ObjectsPlaced
  <2>2. reqs'[o] = IF o \in ToSet(objs) THEN Completed(reqs[o]) ELSE reqs[o]
    BY <1>2, <2>1 DEF Launched
  <2>3. /\ Completed(reqs[o]).handle = reqs[o].handle
        /\ Completed(reqs[o]).slot = reqs[o].slot /\ Completed(reqs[o]).cached = reqs[o].device
    BY <2>1 DEF IsReq, ReqFields, Completed
  <2>4. QED BY <2>2, <2>3
<1>5. \A o \in Newest : \A k \in 1 .. CeilDiv(reqs'[o].cached, PageSize) :
        k > Len(reqs[o].handle) =>
          /\ page_table'[reqs[o].slot][k] \in Pages
          /\ \A q \in CachedPaths(cm'.tree) : cm'.tree.page[q] # page_table'[reqs[o].slot][k]
          /\ \A x \in Newest : \A n \in 1 .. CeilDiv(reqs'[x].cached, PageSize) :
               page_table'[reqs[x].slot][n] = page_table'[reqs[o].slot][k] => x = o /\ n = k
  <2>1. (\A o \in Newest : \A k \in 1 .. CeilDiv(reqs[o].cached, PageSize) :
           k > Len(reqs[o].handle) =>
             /\ page_table[reqs[o].slot][k] \in Pages
             /\ \A q \in CachedPaths(cm.tree) : cm.tree.page[q] # page_table[reqs[o].slot][k]
             /\ \A x \in Newest : \A n \in 1 .. CeilDiv(reqs[x].cached, PageSize) :
                  page_table[reqs[x].slot][n] = page_table[reqs[o].slot][k] => x = o /\ n = k)'
    BY PlacesApart, PTL
  <2>2. QED BY <2>1, <1>1, <1>4
<1>6. /\ \A q \in CachedPaths(cm'.tree) : cm'.tree.page[q] \in Pages
      /\ \A o \in Newest : \A k \in 1 .. CeilDiv(reqs'[o].cached, PageSize) :
           page_table'[reqs[o].slot][k] \in Pages
  <2>1. (/\ \A q \in CachedPaths(cm.tree) : cm.tree.page[q] \in Pages \ ToSet(cm.free)
         /\ \A o \in Newest : \A k \in 1 .. CeilDiv(reqs[o].cached, PageSize) :
              page_table[reqs[o].slot][k] \in Pages \ ToSet(cm.free))'
    BY UsedNotFree, PTL
  <2>2. QED BY <2>1, <1>1, <1>4
<1>7. ASSUME NEW i \in DOMAIN objs, NEW o, o = objs[i]
      PROVE  /\ reqs[o].cached \in Nat /\ reqs[o].device \in Nat /\ reqs[o].cached <= reqs[o].device
             /\ token_pool[reqs[o].slot] \in Texts /\ reqs[o].device <= Len(token_pool[reqs[o].slot])
             /\ \A j \in 1 .. reqs[o].device :
                  token_pool'[reqs[o].slot][j] = token_pool[reqs[o].slot][j]
             /\ Len(reqs[o].handle) \in Nat /\ Len(reqs[o].handle) * PageSize <= reqs[o].cached
             /\ reqs'[o].cached = reqs[o].device
  <2>1. o \in Newest /\ o \in ToSet(objs) BY <1>3, <1>7
  <2>2. RowHolds(reqs[o], page_table[reqs[o].slot], cm.tree) BY <2>1, <1>0 DEF CInv
  <2>3. IsTree(cm.tree, Texts) /\ reqs[o].handle \in Nodes(cm.tree) \cup {<<>>}
    BY <2>1, <1>0, LocksRead DEF CInv, TreeHolds
  <2>4. Len(reqs[o].handle) \in Nat BY <2>3, HandlePaths
  <2>5. QED BY <1>2, <1>4, <1>7, <2>1, <2>2, <2>4, BatchTokens DEF RowHolds
<1>8. ASSUME NEW i \in DOMAIN objs, NEW o, o = objs[i], NEW k \in Span(reqs[o])
      PROVE  o \in Newest /\ k \in 1 .. CeilDiv(reqs'[o].cached, PageSize) /\ k > Len(reqs[o].handle)
  <2>1. PICK c, d, h : c = reqs[o].cached /\ d = reqs[o].device /\ h = Len(reqs[o].handle) OBVIOUS
  <2>2. c \in Nat /\ d \in Nat /\ c <= d /\ h \in Nat /\ h * PageSize <= c /\ reqs'[o].cached = d
    BY <1>7, <1>8, <2>1
  <2>3. k \in c \div PageSize + 1 .. CeilDiv(d, PageSize) BY <2>1 DEF Span
  <2>4. c \div PageSize \in Nat /\ CeilDiv(d, PageSize) \in Nat
    <3>1. PageSize \in Nat \ {0} BY PagesAssumption
    <3>2. QED BY <2>2, <3>1, CeilDivFacts
  <2>5. k \in Nat /\ k >= 1 /\ k > c \div PageSize /\ k <= CeilDiv(d, PageSize) BY <2>3, <2>4
  <2>6. k > h BY <2>2, <2>5, SpanBounds
  <2>7. QED BY <1>3, <1>8, <2>1, <2>2, <2>4, <2>5, <2>6
<1>9. ASSUME NEW p \in Pages, ~Named(p) PROVE kv'[p] = kv[p]
  <2>1. \A i \in DOMAIN objs : \A k \in Span(reqs[objs[i]]) :
          page_table'[reqs[objs[i]].slot][k] = p => Put(reqs[objs[i]], k) = kv[p]
    BY <1>9
  <2>2. PICK rows : rows = page_table' OBVIOUS
  <2>3. FilledPages(objs, rows)[p] = kv[p] BY <2>1, <2>2, <1>9, FilledPage
  <2>4. QED BY <2>2, <2>3, <1>2
<1>10. ASSUME NEW i \in DOMAIN objs, NEW o, o = objs[i], NEW k \in Span(reqs[o])
       PROVE  kv'[page_table'[reqs[o].slot][k]] = Put(reqs[o], k)
  <2>1. PICK rows, p : rows = page_table' /\ p = page_table'[reqs[o].slot][k] OBVIOUS
  <2>2. /\ o \in Newest /\ p \in Pages
        /\ \A x \in Newest : \A n \in 1 .. CeilDiv(reqs'[x].cached, PageSize) :
             page_table'[reqs[x].slot][n] = p => x = o /\ n = k
    <3>1. o \in Newest /\ k \in 1 .. CeilDiv(reqs'[o].cached, PageSize) /\ k > Len(reqs[o].handle)
      BY <1>8, <1>10
    <3>2. /\ page_table'[reqs[o].slot][k] \in Pages
          /\ \A x \in Newest : \A n \in 1 .. CeilDiv(reqs'[x].cached, PageSize) :
               page_table'[reqs[x].slot][n] = page_table'[reqs[o].slot][k] => x = o /\ n = k
      BY <1>5, <3>1
    <3>3. QED BY <2>1, <3>1, <3>2
  <2>3. ASSUME NEW j \in DOMAIN objs, NEW n \in Span(reqs[objs[j]]),
               rows[reqs[objs[j]].slot][n] = p
        PROVE  Put(reqs[objs[j]], n) = Put(reqs[o], k)
    <3>1. PICK x : x = objs[j] OBVIOUS
    <3>2. x \in Newest /\ n \in 1 .. CeilDiv(reqs'[x].cached, PageSize) BY <1>8, <2>3, <3>1
    <3>3. x = o /\ n = k BY <2>1, <2>2, <2>3, <3>1, <3>2
    <3>4. QED BY <3>1, <3>3
  <2>4. PICK w : w = Put(reqs[o], k) OBVIOUS
  <2>5. \A j \in DOMAIN objs : \A n \in Span(reqs[objs[j]]) :
          rows[reqs[objs[j]].slot][n] = p => Put(reqs[objs[j]], n) = w
    BY <2>3, <2>4
  <2>6. FilledPages(objs, rows)[p] =
          IF \E j \in DOMAIN objs : \E n \in Span(reqs[objs[j]]) : rows[reqs[objs[j]].slot][n] = p
          THEN w ELSE kv[p]
    <3>1. PICK bs : bs = objs OBVIOUS
    <3>2. p \in Pages /\ \A j \in DOMAIN bs : \A n \in Span(reqs[bs[j]]) :
            rows[reqs[bs[j]].slot][n] = p => Put(reqs[bs[j]], n) = w
      BY <2>2, <2>5, <3>1
    <3>3. FilledPages(bs, rows)[p] =
            IF \E j \in DOMAIN bs : \E n \in Span(reqs[bs[j]]) : rows[reqs[bs[j]].slot][n] = p
            THEN w ELSE kv[p]
      BY ONLY <3>2, FilledPage
    <3>4. QED BY <3>1, <3>3
  <2>7. \E j \in DOMAIN objs : \E n \in Span(reqs[objs[j]]) : rows[reqs[objs[j]].slot][n] = p
    BY <1>10, <2>1
  <2>8. QED BY <1>2, <2>1, <2>4, <2>6, <2>7
<1>11. TreeFilled(kv', cm'.tree)
  <2>1. TreeFilled(kv, a.cm.tree)
    <3>1. PICK c, needed : c = cm /\ needed = NeededPages(Fields(objs)) OBVIOUS
    <3>2. c = [free |-> c.free, tree |-> c.tree, lazy |-> c.lazy] /\ IsTree(c.tree, Texts)
          /\ TreeFilled(kv, c.tree) /\ a \in Allocations(c, needed)
      BY <3>1, <1>0, <1>2 DEF CInv, TreeHolds, KInv
    <3>3. QED BY ONLY <3>2, AllocatedFilled
  <2>2. PICK t : t = cm'.tree OBVIOUS
  <2>3. TreeFilled(kv, t) BY <1>2, <2>1, <2>2
  <2>4. ASSUME NEW q \in CachedPaths(t) PROVE kv'[t.page[q]] = kv[t.page[q]]
    <3>1. t.page[q] \in Pages BY <1>6, <2>2
    <3>2. ~Named(t.page[q])
      <4>1. SUFFICES ASSUME NEW i \in DOMAIN objs, NEW k \in Span(reqs[objs[i]]),
                            page_table'[reqs[objs[i]].slot][k] = t.page[q]
                     PROVE  FALSE
        OBVIOUS
      <4>2. PICK o : o = objs[i] OBVIOUS
      <4>3. o \in Newest /\ k \in 1 .. CeilDiv(reqs'[o].cached, PageSize) /\ k > Len(reqs[o].handle)
        BY <1>8, <4>1, <4>2
      <4>4. QED BY <1>5, <2>2, <4>1, <4>2, <4>3
    <3>3. QED BY <1>9, <3>1, <3>2
  <2>5. TreeFilled(kv', t) BY <2>3, <2>4 DEF TreeFilled
  <2>6. QED BY <2>2, <2>5
<1>12. ASSUME NEW o \in Newest, NEW k \in 1 .. CeilDiv(reqs'[o].cached, PageSize),
              \A i \in DOMAIN objs : objs[i] = o => k \notin Span(reqs[o])
       PROVE  kv'[page_table'[reqs[o].slot][k]] = kv[page_table'[reqs[o].slot][k]]
  <2>1. PICK p : p = page_table'[reqs[o].slot][k] OBVIOUS
  <2>2. p \in Pages BY <1>6, <2>1
  <2>3. ~Named(p)
    <3>1. SUFFICES ASSUME NEW i \in DOMAIN objs, NEW n \in Span(reqs[objs[i]]),
                          page_table'[reqs[objs[i]].slot][n] = p
                   PROVE  FALSE
      OBVIOUS
    <3>2. PICK x : x = objs[i] OBVIOUS
    <3>3. x \in Newest /\ n \in 1 .. CeilDiv(reqs'[x].cached, PageSize) /\ n > Len(reqs[x].handle)
      BY <1>8, <3>1, <3>2
    <3>4. o = x /\ k = n BY <1>5, <2>1, <3>1, <3>2, <3>3
    <3>5. QED BY <1>12, <3>1, <3>2, <3>4
  <2>4. QED BY <1>9, <2>1, <2>2, <2>3
<1>13. ASSUME NEW o \in Newest
       PROVE  RowFilled(kv', page_table'[reqs[o].slot], token_pool'[reqs[o].slot], reqs'[o].cached)
  <2> DEFINE r == reqs[o]  row == page_table[r.slot]  new == page_table'[r.slot]
             pool == token_pool[r.slot]  next == token_pool'[r.slot]
  <2>0. RowFilled(kv, row, pool, r.cached) BY DEF KInv
  <2>1. CASE o \notin ToSet(objs)
    <3>1. \A i \in DOMAIN objs : objs[i] # o BY <1>3, <2>1
    <3>2. reqs'[o] = r BY <1>4, <2>1
    <3>3. new = row BY <1>0, <1>2, <2>1, WrittenRow DEF LInv
    <3>4. next = pool BY <1>0, <1>2, <2>1, LaunchedObject
    <3>5. \A k \in 1 .. CeilDiv(r.cached, PageSize) : kv'[new[k]] = kv[new[k]]
      BY <1>12, <3>1, <3>2
    <3> HIDE DEF r, row, new, pool, next
    <3>6. RowFilled(kv', new, next, r.cached) BY <2>0, <3>3, <3>4, <3>5 DEF RowFilled
    <3>7. QED BY <3>2, <3>6 DEF r, new, next
  <2>2. CASE o \in ToSet(objs)
    <3>1. PICK i \in DOMAIN objs : o = objs[i] BY <2>2, ToSetElement DEF ToSet
    <3>2. /\ r.cached \in Nat /\ r.device \in Nat /\ r.cached <= r.device
          /\ pool \in Texts /\ r.device <= Len(pool)
          /\ \A j \in 1 .. r.device : next[j] = pool[j]
          /\ Len(r.handle) \in Nat /\ Len(r.handle) * PageSize <= r.cached
          /\ reqs'[o].cached = r.device
      BY <1>7, <3>1
    <3>3. PICK c, d, h : c = r.cached /\ d = r.device /\ h = Len(r.handle) OBVIOUS
    <3>4. c \in Nat /\ d \in Nat /\ c <= d /\ h \in Nat /\ h * PageSize <= c /\ reqs'[o].cached = d
      BY <3>2, <3>3
    <3>5. \A k \in 1 .. CeilDiv(c, PageSize) : new[k] = row[k]
      <4>1. PICK more :
              /\ DOMAIN more = 1 .. NewPages(r) /\ more = [n \in DOMAIN more |-> more[n]]
              /\ new = SubSeq(row, 1, CeilDiv(r.cached, PageSize)) \o more
        BY <1>0, <1>2, <2>2, WrittenRow DEF LInv, IsWritten
      <4>2. PICK n, m : n = CeilDiv(c, PageSize) /\ m = CeilDiv(d, PageSize) - CeilDiv(c, PageSize) OBVIOUS
      <4>3. n \in Nat /\ m \in Nat
        <5>1. CeilDiv(c, PageSize) \in Nat /\ CeilDiv(d, PageSize) \in Nat
              /\ CeilDiv(c, PageSize) <= CeilDiv(d, PageSize)
          BY <3>4, CeilDivFacts
        <5>2. QED BY <4>2, <5>1
      <4>4. DOMAIN more = 1 .. m /\ more = [x \in DOMAIN more |-> more[x]]
        BY <4>1, <4>2, <3>3 DEF NewPages
      <4>5. new = SubSeq(row, 1, n) \o more BY <4>1, <4>2, <3>3
      <4> HIDE DEF new, row, r
      <4>6. IsGrown(SubSeq(row, 1, n) \o more, row, n, more, m) BY ONLY <4>3, <4>4, RowGrown
      <4>7. QED BY <4>2, <4>5, <4>6 DEF IsGrown
    <3>6. ASSUME NEW k \in 1 .. CeilDiv(d, PageSize)
          PROVE  kv'[new[k]] = SubSeq(pool, 1, FilledTo(k, d))
      <4>1. k \in Nat /\ k >= 1 /\ k <= CeilDiv(d, PageSize) /\ c \div PageSize \in Nat
        <5>1. PageSize \in Nat \ {0} BY PagesAssumption
        <5>2. CeilDiv(d, PageSize) \in Nat BY <3>4, CeilDivFacts
        <5>3. QED BY <3>4, <5>1, <5>2
      <4>2. CASE k > c \div PageSize
        <5>1. k \in Span(r)
          <6> HIDE DEF r
          <6>1. CeilDiv(d, PageSize) \in Nat BY <3>4, CeilDivFacts
          <6>2. k \in c \div PageSize + 1 .. CeilDiv(d, PageSize) BY <4>1, <4>2, <6>1
          <6>3. QED BY <3>3, <6>2 DEF Span
        <5>2. kv'[new[k]] = Put(r, k) BY <1>10, <3>1, <5>1
        <5>3. Put(r, k) = SubSeq(pool, 1, FilledTo(k, d)) BY <3>3 DEF Put
        <5>4. QED BY <5>2, <5>3
      <4>3. CASE ~(k > c \div PageSize)
        <5>1. k <= c \div PageSize BY <4>1, <4>3
        <5>2. k \in 1 .. CeilDiv(c, PageSize) /\ FilledTo(k, c) = FilledTo(k, d)
          BY <3>4, <4>1, <5>1, SpanBounds
        <5>3. k \notin Span(r)
          <6> HIDE DEF r
          <6>1. k \notin c \div PageSize + 1 .. CeilDiv(d, PageSize) BY <4>1, <4>3
          <6>2. QED BY <3>3, <6>1 DEF Span
        <5>4. kv'[new[k]] = kv[new[k]] BY <1>12, <3>4, <5>3
        <5>5. kv[row[k]] = SubSeq(pool, 1, FilledTo(k, c)) BY <2>0, <3>3, <5>2 DEF RowFilled
        <5>6. new[k] = row[k] BY <3>5, <5>2
        <5> HIDE DEF new, row, pool
        <5>7. QED BY <5>2, <5>4, <5>5, <5>6
      <4>4. QED BY <4>2, <4>3
    <3>7. PICK u, w, x, y : u = new /\ w = pool /\ x = next /\ y = kv' OBVIOUS
    <3>8. RowFilled(y, u, w, d) BY <3>6, <3>7 DEF RowFilled
    <3>9. w \in Texts /\ d <= Len(w) /\ \A j \in 1 .. d : x[j] = w[j] BY <3>2, <3>3, <3>7
    <3>10. RowFilled(y, u, x, d) BY ONLY <3>4, <3>8, <3>9, RowFilledKept
    <3>11. QED BY <3>4, <3>7, <3>10
  <2>3. QED BY <2>1, <2>2
<1>14. QED BY <1>1, <1>4, <1>11, <1>13 DEF KInv


\* At the start nothing is cached and no request lives.
LEMMA InitKInv == Init => KInv
<1> SUFFICES ASSUME Init PROVE KInv OBVIOUS
<1>1. /\ reqs = <<>> /\ running = {} /\ inflight = <<>> /\ terminal = {} /\ pending = <<>>
      /\ adder.reqs = <<>> /\ adder.chunked = <<>> /\ batch.reqs = <<>>
      /\ last.reqs = <<>> /\ proc.reqs = <<>> /\ cm = InitCache
  BY DEF Init, NoAdder, NoBatch
<1>2. Newest = {} BY <1>1, EmptyFacts DEF Holders, Referenced, Newest
<1>3. cm.tree = EmptyTree BY <1>1 DEF InitCache
<1>4. CachedPaths(EmptyTree) = {} BY DEF EmptyTree, CachedPaths
<1>5. TreeFilled(kv, cm.tree) BY <1>3, <1>4 DEF TreeFilled
<1>6. QED BY <1>2, <1>5 DEF KInv

LEMMA NextKInv == MInv /\ MInv' /\ KInv /\ [Next]_vars => KInv'
<1> SUFFICES ASSUME MInv, MInv', KInv, [Next]_vars PROVE KInv' OBVIOUS
<1>1. CASE UNCHANGED vars
  <2>1. UNCHANGED <<control, memory>> BY <1>1 DEF vars
  <2>2. Newest' = Newest BY <2>1 DEF control, memory, Newest, Holders, Referenced
  <2>3. UNCHANGED <<reqs, cm, kv, page_table, token_pool>> BY <2>1 DEF memory
  <2>4. QED BY <2>2, <2>3, QuietContent
<1>2. CASE Receive
  <2>1. CASE \A u \in Uids : ~AbortNow(u) BY <1>2, <2>1, IdleContent
  <2>2. CASE \E u \in Uids : AbortNow(u) BY <2>2, AbortNowContent
  <2>3. QED BY <2>1, <2>2
<1>3. CASE \/ SelectDecode \/ SelectNothing \/ StartPrefill \/ StopAdmission
           \/ ForwardOutOfPages \/ NoForward \/ EndProcess
  BY <1>3, IdleContent
<1>4. CASE AdmitChunk BY <1>4, AdmitChunkContent
<1>5. CASE AdmitNew BY <1>5, AdmitNewContent
<1>6. CASE Forward BY <1>6, ForwardContent
<1>7. CASE ProcessTerminal \/ ProcessChunk \/ ProcessToken BY <1>7, ProcessContent
<1>8. QED BY <1>1, <1>2, <1>3, <1>4, <1>5, <1>6, <1>7 DEF Next, Step

LEMMA ContentInvariant == Spec => [](MInv /\ KInv)
<1>1. Spec => []SInv BY InitSInv, NextSInv, SchedulerInvariant, PTL DEF Spec
<1>2. IInv /\ SInv /\ XInv /\ LInv /\ HInv /\ CInv /\ PInv <=> MInv BY DEF MInv
<1>3. Spec => []MInv BY <1>1, <1>2, CacheInvariant, PTL
<1>4. QED BY <1>3, InitKInv, NextKInv, PTL DEF Spec

\* The keys and values in a cached page were computed for the very tokens the page is
\* found under: through insertions, splits, evictions and pages that pass from one request
\* to another, no forward pass writes into a page the cache hands out
\* (RadixPrefixCache.insert_prefix, match_prefix, evict, CacheManager.allocate_paged,
\* Engine.forward_batch).
THEOREM ContentCorrect == Spec => []CacheHoldsItsKeys
<1>1. KInv => CacheHoldsItsKeys BY DEF KInv, TreeFilled, CacheHoldsItsKeys
<1>2. QED BY <1>1, ContentInvariant, PTL

\* Attention of a live request reads, up to its cached_len, the keys and values of its own
\* tokens, whichever of its pages it computed and whichever it found cached: none was
\* overwritten or given to another request (Scheduler._forward, CacheManager.cache_req,
\* Engine.forward_batch).
THEOREM RowTokensCorrect == Spec => []RowsHoldOwnTokens
<1>1. MInv /\ KInv => RowsHoldOwnTokens
  <2> SUFFICES ASSUME MInv, KInv, NEW o \in Newest,
                      NEW k \in 1 .. CeilDiv(reqs[o].cached, PageSize)
               PROVE  /\ reqs[o].cached <= Len(token_pool[reqs[o].slot])
                      /\ kv[page_table[reqs[o].slot][k]] =
                           SubSeq(token_pool[reqs[o].slot], 1, FilledTo(k, reqs[o].cached))
    BY DEF RowsHoldOwnTokens, FilledTo
  <2>1. RowFilled(kv, page_table[reqs[o].slot], token_pool[reqs[o].slot], reqs[o].cached)
    BY DEF KInv
  <2>2. reqs[o].cached <= Len(token_pool[reqs[o].slot]) BY PoolCovers DEF MInv
  <2>3. QED BY <2>1, <2>2 DEF RowFilled
<1>2. QED BY <1>1, ContentInvariant, PTL

=============================================================================
