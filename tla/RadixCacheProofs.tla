--------------------------- MODULE RadixCacheProofs ---------------------------
(***************************************************************************)
(* Theorems of RadixCache: for any clients and keys the radix tree is a    *)
(* cache of prefixes, and eviction by single leaves finds what was         *)
(* promised, least recently used first.                                    *)
(***************************************************************************)
EXTENDS RadixCache, RadixTreeProofs

Chunks == UNION {ToSet(k) : k \in Keys}

\* Keys are non-empty sequences of chunks.
LEMMA KeyType == \A key \in Keys : key \in Seq(Chunks) \ {<<>>}
BY KeysAssumption DEF Chunks

-----------------------------------------------------------------------------
(* More about trees.                                                       *)

\* Who holds nothing locks nothing.
LEMMA LocksOthers ==
  ASSUME NEW T, NEW t, IsTree(t, T), NEW H, NEW x \in H, NEW h, h[x] = <<>>
  PROVE  /\ Locks(t, H, h) <=> Locks(t, H \ {x}, h)
         /\ Counted(t, H, h) <=> Counted(t, H \ {x}, h)
<1>1. \A p \in CachedPaths(t) : ~IsPrefix(p, h[x]) BY NoPrefixOfRoot DEF IsTree
<1>2. Nodes(t) \subseteq CachedPaths(t) BY DEF IsTree
<1>3. \A n \in Nodes(t) : {o \in H : IsPrefix(n, h[o])} = {o \in H \ {x} : IsPrefix(n, h[o])}
  BY <1>1, <1>2
<1>4. (\A o \in H : h[o] \in Nodes(t) \cup {<<>>}) <=> (\A o \in H \ {x} : h[o] \in Nodes(t) \cup {<<>>})
  OBVIOUS
<1>5. Locks(t, H, h) <=> Locks(t, H \ {x}, h) BY <1>3, <1>4 DEF Locks
<1>6. Reached(t, H, h) = Reached(t, H \ {x}, h) BY <1>1 DEF Reached
<1>7. QED BY <1>5, <1>6 DEF Counted

\* A walk makes at most the node it ends at.
LEMMA WalkedNodes ==
  ASSUME NEW T, NEW t, IsTree(t, T), NEW key \in Seq(T)
  PROVE  Nodes(TreeWalk(t, key).tree) \subseteq Nodes(t) \cup {TreeWalk(t, key).node}
<1>1. PICK p, t1 : p = TreeWalk(t, key).node /\ t1 = TreeWalk(t, key).tree OBVIOUS
<1>2. t1 = IF p \in Nodes(t) \cup {<<>>} THEN t ELSE SplitNode(t, p) BY <1>1 DEF TreeWalk
<1>3. Walked(t, T, key, p, t1) BY <1>1, TreeWalkTree
<1>4. CASE p \in Nodes(t) \cup {<<>>} BY <1>1, <1>2, <1>4
<1>5. CASE p \notin Nodes(t) \cup {<<>>}
  <2>1. p \in CachedPaths(t) BY <1>3, <1>5 DEF Walked, IsTree
  <2>2. Nodes(SplitNode(t, p)) = Nodes(t) \cup {p} BY <1>5, <2>1, SplitNodeTree
  <2>3. QED BY <1>1, <1>2, <1>5, <2>2
<1>6. QED BY <1>4, <1>5

\* A function to pages.
IsPageMap(t) == t.page = [q \in CachedPaths(t) |-> t.page[q]]

\* t2 comes from t by an insertion of key below the node p of t1, with pages of c.
PathsAdded(t, t1, t2, key, p, c) ==
  /\ Nodes(t1) \subseteq Nodes(t2) /\ Nodes(t2) \subseteq Nodes(t1) \cup {key}
  /\ key \in Nodes(t2)
  /\ CachedPaths(t2) = CachedPaths(t) \cup (Prefixes(key) \ Prefixes(p))
  /\ t2.page = [q \in CachedPaths(t) \cup (Prefixes(key) \ {<<>>}) |->
                  IF q \in CachedPaths(t) THEN t.page[q] ELSE c]

\* An insertion makes at most the node of its key, and caches the key's prefixes.
LEMMA InsertedPaths ==
  ASSUME NEW T, NEW t, IsTree(t, T), NEW key \in Seq(T) \ {<<>>}, NEW p, NEW t1,
         Walked(t, T, key, p, t1), NEW c, NEW pages, pages = [i \in DOMAIN key |-> c],
         NEW t2, t2 = InsertBelow(t1, key, pages, p), IsPageMap(t)
  PROVE  PathsAdded(t, t1, t2, key, p, c)
<1>1. /\ IsTree(t1, T) /\ t1.page = t.page /\ CachedPaths(t1) = CachedPaths(t)
      /\ p \in Seq(T) /\ IsPrefix(p, key) /\ p \in Nodes(t1) \cup {<<>>}
  BY DEF Walked
<1>2. PICK new : new = {q \in Prefixes(key) : Len(q) > Len(p)} OBVIOUS
<1>3. /\ Prefixes(key) = {q \in Seq(T) : IsPrefix(q, key)} /\ Prefixes(p) = {q \in Seq(T) : IsPrefix(q, p)}
      /\ Len(p) \in Nat /\ Len(key) \in Nat
  BY <1>1, PrefixMember, PrefixOrder
<1>4. new = Prefixes(key) \ Prefixes(p)
  <2>1. ASSUME NEW q \in Prefixes(key) PROVE Len(q) > Len(p) <=> q \notin Prefixes(p)
    <3>1. q \in Seq(T) /\ IsPrefix(q, key) /\ Len(q) \in Nat BY <1>3, PrefixOrder
    <3>2. CASE Len(q) <= Len(p)
      <4>1. IsPrefix(q, p) BY <1>1, <3>1, <3>2, PrefixOrder
      <4>2. QED BY <1>3, <3>1, <3>2, <4>1
    <3>3. CASE Len(q) > Len(p)
      <4>1. ~IsPrefix(q, p) BY <1>1, <1>3, <3>1, <3>3, PrefixOrder
      <4>2. QED BY <1>3, <3>3, <4>1
    <3>4. QED BY <1>3, <3>1, <3>2, <3>3
  <2>2. QED BY <1>2, <2>1
<1>5. \A q \in Prefixes(p) : q = <<>> \/ q \in CachedPaths(t)
  <2>1. SUFFICES ASSUME NEW q \in Prefixes(p), q # <<>> PROVE q \in CachedPaths(t) OBVIOUS
  <2>2. q \in Seq(T) \ {<<>>} /\ IsPrefix(q, p) BY <1>3, <2>1
  <2>3. p # <<>> BY <2>2, NoPrefixOfRoot
  <2>4. p \in CachedPaths(t1) BY <1>1, <2>3 DEF IsTree
  <2>5. QED BY <1>1, <2>2, <2>4 DEF IsTree
<1>6. <<>> \in Prefixes(p) /\ <<>> \in Prefixes(key) BY <1>1, <1>3, PrefixOrder
<1>7. CachedPaths(t) \cup (Prefixes(key) \ {<<>>}) = CachedPaths(t) \cup new
  <2>1. \A q \in new : q # <<>> BY <1>4, <1>6
  <2>2. QED BY <1>4, <1>5, <2>1
<1>8. key \in Prefixes(key) BY <1>3, PrefixOrder
<1>9. t2 = IF new = {} THEN t1
           ELSE [t1 EXCEPT !.page = NewPaths(t1, new, pages), !.ref = NewNode(t1, key, 0),
                           !.evictable = @ + Len(key) - Len(p)]
  BY <1>2 DEF InsertBelow
<1>10. CASE new = {}
  <2>1. t2 = t1 BY <1>9, <1>10
  <2>2. key = p
    <3>1. key \in Prefixes(p) BY <1>4, <1>8, <1>10
    <3>2. IsPrefix(key, p) BY <1>3, <3>1
    <3>3. QED BY <1>1, <3>2, PrefixOrder
  <2>3. key \in Nodes(t2) BY <1>1, <2>1, <2>2
  <2>4. t2.page = [q \in CachedPaths(t) \cup new |-> IF q \in CachedPaths(t) THEN t.page[q] ELSE c]
    BY <1>1, <1>10, <2>1 DEF IsPageMap
  <2>5. QED BY <1>1, <1>4, <1>7, <1>10, <2>1, <2>3, <2>4 DEF PathsAdded
<1>11. CASE new # {}
  <2>1. PICK f, g : f = NewPaths(t1, new, pages) /\ g = NewNode(t1, key, 0) OBVIOUS
  <2>2. t2 = [t1 EXCEPT !.page = f, !.ref = g, !.evictable = @ + Len(key) - Len(p)] BY <1>9, <1>11, <2>1
  <2>3. t1 = [page |-> t1.page, ref |-> t1.ref, evictable |-> t1.evictable, protected |-> t1.protected]
    BY <1>1 DEF IsTree
  <2>4. t2.page = f /\ t2.ref = g BY <2>2, <2>3
  <2>5. DOMAIN g = Nodes(t1) \cup {key} BY <2>1 DEF NewNode
  <2>6. Nodes(t2) = Nodes(t1) \cup {key} BY <2>4, <2>5 DEF Nodes
  <2>7. \A q \in new : pages[Len(q)] = c
    <3>1. ASSUME NEW q \in new PROVE Len(q) \in DOMAIN key
      <4>1. q \in Seq(T) /\ IsPrefix(q, key) /\ Len(q) > Len(p) BY <1>2, <1>3
      <4>2. Len(q) \in Nat /\ Len(q) <= Len(key) BY <4>1, PrefixOrder
      <4>3. DOMAIN key = 1 .. Len(key) BY LenProperties
      <4>4. QED BY <1>3, <4>1, <4>2, <4>3
    <3>2. QED BY <1>2, <3>1
  <2>8. f = [q \in CachedPaths(t) \cup new |-> IF q \in CachedPaths(t) THEN t.page[q] ELSE c]
    <3>1. f = [q \in CachedPaths(t) \cup new |-> IF q \in CachedPaths(t) THEN t.page[q] ELSE pages[Len(q)]]
      BY <1>1, <2>1 DEF NewPaths
    <3>2. QED BY <2>7, <3>1
  <2>9. CachedPaths(t2) = CachedPaths(t) \cup new BY <2>4, <2>8 DEF CachedPaths
  <2>10. QED BY <1>4, <1>7, <2>4, <2>6, <2>8, <2>9 DEF PathsAdded
<1>12. QED BY <1>10, <1>11

-----------------------------------------------------------------------------
(* Leaves.                                                                 *)

\* Above an evictable path there is a leaf that nobody holds.
LEMMA LeafFound ==
  ASSUME NEW T, NEW t, IsTree(t, T), NEW H, IsFiniteSet(H), NEW h, Locks(t, H, h),
         Counted(t, H, h), t.evictable > 0
  PROVE  EvictableLeaves(t) # {}
<1>1. PICK C, R : C = CachedPaths(t) /\ R = Reached(t, H, h) OBVIOUS
<1>2. IsFiniteSet(C) /\ t.evictable = Cardinality(C \ R) BY <1>1 DEF Counted
<1>3. PICK p \in C : p \notin R
  <2>1. C \ R # {}
    <3>1. SUFFICES ASSUME C \ R = {} PROVE FALSE OBVIOUS
    <3>2. Cardinality(C \ R) = 0 BY <3>1, FS_EmptySet
    <3>3. QED BY <1>2, <3>2
  <2>2. QED BY <2>1
<1>4. /\ Nodes(t) \subseteq C /\ C \subseteq Seq(T) \ {<<>>} /\ \E n \in Nodes(t) : IsPrefix(p, n)
  BY <1>1 DEF IsTree
<1>5. PICK Beyond : Beyond = [n \in Nodes(t) |-> {m \in Nodes(t) : IsPrefix(n, m)}] OBVIOUS
<1>6. ASSUME NEW n \in Nodes(t) PROVE IsFiniteSet(Beyond[n]) /\ Cardinality(Beyond[n]) \in Nat
  <2>1. Beyond[n] \subseteq C BY <1>4, <1>5
  <2>2. QED BY <1>2, <2>1, FS_Subset, FS_CardinalityType
<1>7. PICK L : L = {Cardinality(Beyond[n]) : n \in {m \in Nodes(t) : IsPrefix(p, m)}} OBVIOUS
<1>8. L \subseteq Nat /\ L # {} BY <1>4, <1>6, <1>7
<1>9. PICK x \in L : \A y \in L : x <= y BY <1>8, LeastNatural
<1>10. PICK n \in Nodes(t) : IsPrefix(p, n) /\ x = Cardinality(Beyond[n]) BY <1>7, <1>9
<1>11. IsLeaf(t, n)
  <2>1. SUFFICES ASSUME NEW m \in Nodes(t), IsPrefix(n, m), m # n PROVE FALSE BY DEF IsLeaf
  <2>2. p \in Seq(T) /\ n \in Seq(T) /\ m \in Seq(T) BY <1>4
  <2>3. IsPrefix(p, m) BY <1>10, <2>1, <2>2, PrefixOrder
  <2>4. x <= Cardinality(Beyond[m]) BY <1>7, <1>9, <2>3
  <2>5. Beyond[m] \subseteq Beyond[n]
    <3>1. \A k \in Nodes(t) : IsPrefix(m, k) => IsPrefix(n, k)
      <4>1. Nodes(t) \subseteq Seq(T) BY <1>4
      <4>2. QED BY <2>1, <2>2, <4>1, PrefixOrder
    <3>2. QED BY <1>5, <3>1
  <2>6. n \in Beyond[n] /\ n \notin Beyond[m]
    <3>1. IsPrefix(n, n) BY <2>2, PrefixOrder
    <3>2. ~IsPrefix(m, n)
      <4>1. SUFFICES ASSUME IsPrefix(m, n) PROVE FALSE OBVIOUS
      <4>2. Len(m) <= Len(n) BY <2>2, <4>1, PrefixOrder
      <4>3. n = m BY <2>1, <2>2, <4>2, PrefixOrder
      <4>4. QED BY <2>1, <4>3
    <3>3. QED BY <1>5, <3>1, <3>2
  <2>7. Cardinality(Beyond[m]) < Cardinality(Beyond[n])
    <3>1. Beyond[m] # Beyond[n] BY <2>6
    <3>2. PICK A, B : A = Beyond[m] /\ B = Beyond[n] OBVIOUS
    <3>3. IsFiniteSet(B) /\ A \subseteq B /\ A # B BY <1>6, <2>5, <3>1, <3>2
    <3>4. Cardinality(A) <= Cardinality(B) /\ Cardinality(A) # Cardinality(B)
      BY <3>3, FS_Subset
    <3>5. Cardinality(A) \in Nat /\ Cardinality(B) \in Nat BY <1>6, <3>2
    <3>6. QED BY <3>2, <3>4, <3>5
  <2>8. Cardinality(Beyond[m]) \in Nat /\ Cardinality(Beyond[n]) \in Nat BY <1>6
  <2>9. QED BY <1>10, <2>4, <2>7, <2>8
<1>12. t.ref[n] = 0
  <2>1. PICK O : O = {o \in H : IsPrefix(n, h[o])} OBVIOUS
  <2>2. ASSUME NEW o \in O PROVE FALSE
    <3>1. IsPrefix(n, h[o]) /\ h[o] \in Nodes(t) \cup {<<>>} BY <2>1 DEF Locks
    <3>2. n \in Seq(T) \ {<<>>} /\ p \in Seq(T) BY <1>4
    <3>3. h[o] \in Seq(T) BY <1>4, <3>1, PrefixOrder
    <3>4. IsPrefix(p, h[o]) BY <1>10, <3>1, <3>2, <3>3, PrefixOrder
    <3>5. p \in R BY <1>1, <2>1, <3>4 DEF Reached
    <3>6. QED BY <1>3, <3>5
  <2>3. O = {} BY <2>2
  <2>4. t.ref[n] = Cardinality(O) BY <2>1 DEF Locks
  <2>5. QED BY <2>3, <2>4, FS_EmptySet
<1>13. n \in EvictableLeaves(t) BY <1>11, <1>12 DEF EvictableLeaves
<1>14. QED BY <1>13

\* The parent of a node is above it, and nothing lies between.
LEMMA ParentLies ==
  ASSUME NEW T, NEW t, IsTree(t, T), NEW n \in Nodes(t)
  PROVE  /\ Parent(t, n) \in (Nodes(t) \ {n}) \cup {<<>>} /\ IsPrefix(Parent(t, n), n)
         /\ Parent(t, n) # n
         /\ \A m \in Nodes(t) \ {n} : IsPrefix(m, n) => IsPrefix(m, Parent(t, n))
<1>1. n \in Seq(T) \ {<<>>} /\ Nodes(t) \subseteq Seq(T) \ {<<>>} BY DEF IsTree
<1>2. PICK S : S = {<<>>} \cup (PathTo(t, n) \ {n}) OBVIOUS
<1>3. ASSUME NEW s \in S PROVE s \in Seq(T) /\ IsPrefix(s, n)
  <2>1. CASE s = <<>>
    <3>1. <<>> \in Seq(T) /\ IsPrefix(<<>>, n) BY <1>1, PrefixOrder
    <3>2. QED BY <2>1, <3>1
  <2>2. CASE s \in PathTo(t, n) \ {n}
    <3>1. s \in Nodes(t) /\ IsPrefix(s, n) BY <2>2 DEF PathTo
    <3>2. QED BY <1>1, <3>1
  <2>3. QED BY <1>2, <2>1, <2>2
<1>4. S \subseteq Prefixes(n) /\ S # {} BY <1>1, <1>2, <1>3, PrefixMember
<1>5. Longest(S) \in S /\ \A s \in S : Len(s) <= Len(Longest(S)) BY <1>1, <1>4, LongestPrefix
<1>6. PICK q : q = Parent(t, n) OBVIOUS
<1>7. q \in S /\ \A s \in S : Len(s) <= Len(q) BY <1>2, <1>5, <1>6 DEF Parent
<1>8. q \in (Nodes(t) \ {n}) \cup {<<>>} /\ IsPrefix(q, n) /\ q # n /\ q \in Seq(T)
  BY <1>1, <1>2, <1>3, <1>7 DEF PathTo
<1>9. ASSUME NEW m \in Nodes(t) \ {n}, IsPrefix(m, n) PROVE IsPrefix(m, q)
  <2>1. m \in S BY <1>2, <1>9 DEF PathTo
  <2>2. Len(m) <= Len(q) /\ m \in Seq(T) BY <1>1, <1>7, <2>1
  <2>3. QED BY <1>1, <1>8, <1>9, <2>2, PrefixOrder
<1>10. QED BY <1>6, <1>8, <1>9

\* A node owns as many paths as its edge is long.
LEMMA EdgeCount ==
  ASSUME NEW T, NEW t, IsTree(t, T), NEW n \in Nodes(t)
  PROVE  TotalLength(t, {n}) = NodeLength(t, n) /\ NodeLength(t, n) \in Nat
<1>1. PICK q : q = Parent(t, n) OBVIOUS
<1>2. /\ q \in (Nodes(t) \ {n}) \cup {<<>>} /\ IsPrefix(q, n) /\ q # n
      /\ \A m \in Nodes(t) \ {n} : IsPrefix(m, n) => IsPrefix(m, q)
  BY <1>1, ParentLies
<1>3. /\ n \in Seq(T) \ {<<>>} /\ Nodes(t) \subseteq CachedPaths(t)
      /\ CachedPaths(t) \subseteq Seq(T) \ {<<>>}
  BY DEF IsTree
<1>4. q \in Seq(T) BY <1>2, <1>3, PrefixOrder
<1>5. Len(q) \in Nat /\ Len(n) \in Nat /\ Len(q) <= Len(n) BY <1>2, <1>3, <1>4, PrefixOrder
<1>6. PICK new : new = {p \in Seq(T) : IsPrefix(p, n) /\ Len(p) > Len(q)} OBVIOUS
<1>7. Cardinality(new) = Len(n) - Len(q) BY <1>3, <1>5, <1>6, PrefixCount
<1>8. ASSUME NEW p \in CachedPaths(t), OwnerOf(t, p) = n PROVE p \in new
  <2>1. p \in Seq(T) \ {<<>>} /\ IsPrefix(p, n) BY <1>3, <1>8, OwnerLies
  <2>2. ASSUME Len(p) <= Len(q) PROVE FALSE
    <3>1. IsPrefix(p, q) BY <1>2, <1>3, <1>4, <2>1, <2>2, PrefixOrder
    <3>2. q # <<>> BY <2>1, <3>1, NoPrefixOfRoot
    <3>3. IsPrefix(n, q) BY <1>2, <1>8, <3>1, <3>2, OwnerLies
    <3>4. Len(n) <= Len(q) BY <1>3, <1>4, <3>3, PrefixOrder
    <3>5. q = n BY <1>2, <1>3, <1>4, <3>4, PrefixOrder
    <3>6. QED BY <1>2, <3>5
  <2>3. Len(p) \in Nat BY <2>1, PrefixOrder
  <2>4. QED BY <1>5, <1>6, <2>1, <2>2, <2>3
<1>9. ASSUME NEW p \in new PROVE p \in CachedPaths(t) /\ OwnerOf(t, p) = n
  <2>1. p \in Seq(T) /\ IsPrefix(p, n) /\ Len(p) > Len(q) /\ Len(p) \in Nat BY <1>6, PrefixOrder
  <2>2. p # <<>>
    <3>1. Len(<<>>) = 0 OBVIOUS
    <3>2. QED BY <1>5, <2>1, <3>1
  <2>3. p \in CachedPaths(t) BY <1>3, <2>1, <2>2 DEF IsTree
  <2>4. PICK w : w = OwnerOf(t, p) OBVIOUS
  <2>5. w \in Nodes(t) /\ IsPrefix(p, w) /\ IsPrefix(w, n) BY <2>1, <2>3, <2>4, OwnerLies
  <2>6. ASSUME w # n PROVE FALSE
    <3>1. IsPrefix(w, q) BY <1>2, <2>5, <2>6
    <3>2. w \in Seq(T) BY <1>3, <2>5
    <3>3. Len(p) <= Len(w) /\ Len(w) <= Len(q) /\ Len(w) \in Nat
      BY <1>4, <2>1, <2>5, <3>1, <3>2, PrefixOrder
    <3>4. QED BY <1>5, <2>1, <3>3
  <2>7. QED BY <2>3, <2>4, <2>6
<1>10. OwnedBy(t, {n}) = new BY <1>8, <1>9 DEF OwnedBy
<1>11. Len(n) - Len(q) \in Nat BY <1>5
<1>12. QED BY <1>1, <1>7, <1>10, <1>11 DEF TotalLength, NodeLength

\* Without a leaf the other leaves are leaves still, and only its parent may become one.
LEMMA LeavesLeft ==
  ASSUME NEW T, NEW t, IsTree(t, T), NEW n \in EvictableLeaves(t),
         NEW t1, t1 = RemoveNodes(t, {n})
  PROVE  EvictableLeaves(t1) =
           (EvictableLeaves(t) \ {n})
             \cup {m \in {Parent(t, n)} : m \in Nodes(t1) /\ IsLeaf(t1, m) /\ t1.ref[m] = 0}
<1>1. n \in Nodes(t) /\ t.ref[n] = 0 /\ \A m \in Nodes(t) : IsPrefix(n, m) => m = n
  BY DEF EvictableLeaves, IsLeaf
<1>2. Nodes(t1) = Nodes(t) \ {n} BY <1>1, RemoveNodesTree
<1>3. \A m \in Nodes(t1) : t1.ref[m] = t.ref[m]
  <2>1. PICK f, g : /\ f = [p \in CachedPaths(t) \ OwnedBy(t, {n}) |-> t.page[p]]
                    /\ g = [m \in Nodes(t) \ {n} |-> t.ref[m]]
    OBVIOUS
  <2>2. t1 = [t EXCEPT !.page = f, !.ref = g, !.evictable = @ - TotalLength(t, {n})]
    BY <2>1 DEF RemoveNodes
  <2>3. t = [page |-> t.page, ref |-> t.ref, evictable |-> t.evictable, protected |-> t.protected]
    BY DEF IsTree
  <2>4. t1.ref = g BY <2>2, <2>3
  <2>5. QED BY <1>2, <2>1, <2>4
<1>4. PICK q : q = Parent(t, n) OBVIOUS
<1>5. ASSUME NEW m \in EvictableLeaves(t1), m # q PROVE m \in EvictableLeaves(t) \ {n}
  <2>1. m \in Nodes(t) /\ m # n /\ t.ref[m] = 0 BY <1>2, <1>3 DEF EvictableLeaves
  <2>2. ASSUME NEW k \in Nodes(t), IsPrefix(m, k) PROVE k = m
    <3>1. CASE k # n BY <1>2, <2>2, <3>1 DEF EvictableLeaves, IsLeaf
    <3>2. CASE k = n
      <4>1. IsPrefix(m, q) /\ q \in Nodes(t) \cup {<<>>} /\ q # n BY <1>1, <1>4, <2>1, <2>2, <3>2, ParentLies
      <4>2. m \in Seq(T) \ {<<>>} BY <2>1 DEF IsTree
      <4>3. q # <<>> BY <4>1, <4>2, NoPrefixOfRoot
      <4>4. q = m BY <1>2, <4>1, <4>3 DEF EvictableLeaves, IsLeaf
      <4>5. QED BY <1>5, <4>4
    <3>3. QED BY <3>1, <3>2
  <2>3. QED BY <2>1, <2>2 DEF EvictableLeaves, IsLeaf
<1>6. \A m \in EvictableLeaves(t) \ {n} : m \in EvictableLeaves(t1)
  BY <1>2, <1>3 DEF EvictableLeaves, IsLeaf
<1>7. q \in EvictableLeaves(t1) <=> q \in Nodes(t1) /\ IsLeaf(t1, q) /\ t1.ref[q] = 0
  BY DEF EvictableLeaves
<1>8. QED BY <1>4, <1>5, <1>6, <1>7

-----------------------------------------------------------------------------
(* The invariant.                                                          *)

\* The tree, the locks of the clients on it and its two counters.
TreeInv ==
  /\ IsTree(tree, Chunks) /\ Locks(tree, Clients, held) /\ Counted(tree, Clients, held)
  /\ tree.page = [p \in CachedPaths(tree) |-> tree.page[p]]
  /\ DOMAIN held = Clients /\ held = [c \in Clients |-> held[c]]

\* A node's timestamp is the last use of its path.
StampInv ==
  /\ DOMAIN stamp = Nodes(tree) /\ DOMAIN used = CachedPaths(tree)
  /\ \A n \in Nodes(tree) : stamp[n] = used[n]

\* While evict is at work it has its leaves and enough to take.
EvictInv ==
  /\ missing \in Nat
  /\ missing > 0 => heap = EvictableLeaves(tree) /\ missing <= tree.evictable

RInv == TreeInv /\ StampInv /\ EvictInv

\* An empty tree.
LEMMA InitRInv == Init => RInv
<1> SUFFICES ASSUME Init PROVE RInv OBVIOUS
<1>1. /\ tree = EmptyTree /\ stamp = [n \in {} |-> 0] /\ used = [p \in {} |-> 0]
      /\ held = [c \in Clients |-> <<>>] /\ missing = 0
  BY DEF Init
<1>2. /\ Nodes(tree) = {} /\ CachedPaths(tree) = {} /\ tree.evictable = 0 /\ tree.protected = 0
      /\ tree = [page |-> tree.page, ref |-> tree.ref,
                 evictable |-> tree.evictable, protected |-> tree.protected]
  BY <1>1 DEF EmptyTree, Nodes, CachedPaths
<1>3. tree.page = [p \in CachedPaths(tree) |-> tree.page[p]] BY <1>1, <1>2 DEF EmptyTree
<1>4. IsTree(tree, Chunks) BY <1>2 DEF IsTree
<1>5. Locks(tree, Clients, held) BY <1>1, <1>2 DEF Locks
<1>6. Counted(tree, Clients, held)
  <2>1. Reached(tree, Clients, held) = {} /\ CachedPaths(tree) \ Reached(tree, Clients, held) = {}
    BY <1>2 DEF Reached
  <2>2. IsFiniteSet({}) /\ Cardinality({}) = 0 BY FS_EmptySet
  <2>3. QED BY <1>2, <2>1, <2>2 DEF Counted
<1>7. DOMAIN held = Clients /\ held = [c \in Clients |-> held[c]] BY <1>1
<1>8. DOMAIN stamp = {} /\ DOMAIN used = {} BY <1>1
<1>9. QED BY <1>1, <1>2, <1>3, <1>4, <1>5, <1>6, <1>7, <1>8 DEF RInv, TreeInv, StampInv, EvictInv

\* What a walk gives under the invariant.
LEMMA WalkedInv ==
  ASSUME TreeInv, NEW key \in Keys,
         NEW p, p = TreeWalk(tree, key).node, NEW t1, t1 = TreeWalk(tree, key).tree
  PROVE  /\ Walked(tree, Chunks, key, p, t1) /\ Locks(t1, Clients, held) /\ Counted(t1, Clients, held)
         /\ Nodes(t1) \subseteq Nodes(tree) \cup {p} /\ key \in Seq(Chunks) \ {<<>>}
<1>1. key \in Seq(Chunks) \ {<<>>} BY KeyType
<1>2. IsTree(tree, Chunks) /\ Locks(tree, Clients, held) /\ Counted(tree, Clients, held) BY DEF TreeInv
<1>3. Walked(tree, Chunks, key, p, t1) BY <1>1, <1>2, TreeWalkTree
<1>4. Locks(t1, Clients, held) BY <1>2, <1>3, WalkedLocks
<1>5. Counted(t1, Clients, held) BY <1>2, <1>3, WalkedCount
<1>6. Nodes(t1) \subseteq Nodes(tree) \cup {p} BY <1>1, <1>2, WalkedNodes
<1>7. QED BY <1>1, <1>3, <1>4, <1>5, <1>6

\* The locks of all clients but c.
OthersLock(t, c, h) == Locks(t, Clients \ {c}, h) /\ Counted(t, Clients \ {c}, h)

\* The handles h1 are those of h, that of c being n.
IsHanded(h1, h, c, n) == h1[c] = n /\ \A o \in Clients \ {c} : h1[o] = h[o]

\* A client without a handle locks a node.
LEMMA ClientLocks ==
  ASSUME NEW t, IsTree(t, Chunks), NEW c \in Clients, NEW h, OthersLock(t, c, h),
         NEW n \in Nodes(t) \cup {<<>>}, NEW h1, IsHanded(h1, h, c, n),
         NEW t1, t1 = LockPath(t, n)
  PROVE  /\ IsTree(t1, Chunks) /\ Locks(t1, Clients, h1) /\ Counted(t1, Clients, h1)
         /\ t1.page = t.page /\ CachedPaths(t1) = CachedPaths(t) /\ Nodes(t1) = Nodes(t)
<1>1. PICK G : G = Clients \ {c} OBVIOUS
<1>2. IsFiniteSet(G) /\ c \notin G /\ G \cup {c} = Clients BY <1>1, ClientsAssumption, FS_Subset
<1>3. Locks(t, G, h) /\ Counted(t, G, h) BY <1>1 DEF OthersLock
<1>4. h1[c] = n /\ \A o \in G : h1[o] = h[o] BY <1>1 DEF IsHanded
<1>5. Taken(Chunks, t, G, h1, c, t1) BY <1>2, <1>3, <1>4, LockPathTree
<1>6. Counted(t1, G \cup {c}, h1) BY <1>2, <1>3, <1>4, LockedCount
<1>7. QED BY <1>2, <1>5, <1>6 DEF Taken

\* Both modules mean the same by a prefix.
LEMMA SamePrefixes ==
  /\ \A p, q : Cache!IsPrefix(p, q) <=> IsPrefix(p, q)
  /\ \A q : Cache!Prefixes(q) = Prefixes(q)
BY DEF Cache!IsPrefix, IsPrefix, Cache!Prefixes, Prefixes

\* The upper half of a split is stamped with the path it ends; nothing is cached or dropped.
LEMMA MatchInv ==
  ASSUME RInv, NEW c \in Clients, NEW key \in Keys, Match(c, key)
  PROVE  RInv' /\ Cache!MatchAndLock(c, key)
<1>1. PICK p, t1 : p = TreeWalk(tree, key).node /\ t1 = TreeWalk(tree, key).tree OBVIOUS
<1>2. /\ Walked(tree, Chunks, key, p, t1) /\ Locks(t1, Clients, held) /\ Counted(t1, Clients, held)
      /\ Nodes(t1) \subseteq Nodes(tree) \cup {p} /\ key \in Seq(Chunks) \ {<<>>}
  BY <1>1, WalkedInv DEF RInv
<1>3. /\ IsTree(t1, Chunks) /\ t1.page = tree.page /\ CachedPaths(t1) = CachedPaths(tree)
      /\ p \in Seq(Chunks) /\ IsPrefix(p, key) /\ p \in Nodes(t1) \cup {<<>>}
      /\ \A q \in CachedPaths(tree) : IsPrefix(q, key) => IsPrefix(q, p)
  BY <1>2 DEF Walked
<1>4. /\ held[c] = <<>> /\ missing = 0 /\ missing' = 0
      /\ tree' = LockPath(t1, p) /\ held' = [held EXCEPT ![c] = p]
      /\ stamp' = [n \in Nodes(t1) |-> IF IsPrefix(n, p) THEN now + 1 ELSE stamp[n]]
      /\ used' = [q \in DOMAIN used |-> IF IsPrefix(q, p) THEN now + 1 ELSE used[q]]
  BY <1>1 DEF Match, Idle, Stamped, Touch
<1>5. PICK G, t2, h1 : G = Clients \ {c} /\ t2 = tree' /\ h1 = held' OBVIOUS
<1>6. Locks(t1, G, held) /\ Counted(t1, G, held) BY <1>2, <1>3, <1>4, <1>5, LocksOthers
<1>7. /\ DOMAIN held = Clients /\ DOMAIN h1 = Clients /\ h1 = [o \in Clients |-> h1[o]]
      /\ h1[c] = p /\ \A o \in G : h1[o] = held[o]
  BY <1>4, <1>5 DEF RInv, TreeInv
<1>8. /\ IsTree(t2, Chunks) /\ Locks(t2, Clients, h1) /\ Counted(t2, Clients, h1)
      /\ t2.page = t1.page /\ CachedPaths(t2) = CachedPaths(t1) /\ Nodes(t2) = Nodes(t1)
  <2>1. t2 = LockPath(t1, p) BY <1>4, <1>5
  <2>2. c \in Clients OBVIOUS
  <2>3. PICK h : h = held OBVIOUS
  <2>4. OthersLock(t1, c, h) BY <1>5, <1>6, <2>3 DEF OthersLock
  <2>5. IsHanded(h1, h, c, p) BY <1>5, <1>7, <2>3 DEF IsHanded
  <2>6. IsTree(t1, Chunks) /\ p \in Nodes(t1) \cup {<<>>} BY <1>3
  <2>7. /\ IsTree(t2, Chunks) /\ Locks(t2, Clients, h1) /\ Counted(t2, Clients, h1)
        /\ t2.page = t1.page /\ CachedPaths(t2) = CachedPaths(t1) /\ Nodes(t2) = Nodes(t1)
    BY ONLY <2>1, <2>2, <2>4, <2>5, <2>6, ClientLocks
  <2>8. QED BY <2>7
<1>9. t2.page = [q \in CachedPaths(t2) |-> t2.page[q]] BY <1>3, <1>8 DEF RInv, TreeInv
<1>10. TreeInv' BY <1>5, <1>7, <1>8, <1>9 DEF TreeInv
<1>11. StampInv'
  <2>1. DOMAIN stamp = Nodes(tree) /\ DOMAIN used = CachedPaths(tree)
        /\ \A n \in Nodes(tree) : stamp[n] = used[n]
    BY DEF RInv, StampInv
  <2>2. DOMAIN stamp' = Nodes(t2) /\ DOMAIN used' = CachedPaths(t2) BY <1>3, <1>4, <1>8, <2>1
  <2>3. ASSUME NEW n \in Nodes(t2) PROVE stamp'[n] = used'[n]
    <3>1. n \in Nodes(t1) /\ n \in DOMAIN used BY <1>3, <1>8, <2>1, <2>3 DEF IsTree
    <3>2. stamp'[n] = IF IsPrefix(n, p) THEN now + 1 ELSE stamp[n] BY <1>4, <3>1
    <3>3. used'[n] = IF IsPrefix(n, p) THEN now + 1 ELSE used[n] BY <1>4, <3>1
    <3>4. n \in Nodes(tree) \/ IsPrefix(n, p) BY <1>2, <1>3, <3>1, PrefixOrder
    <3>5. QED BY <2>1, <3>2, <3>3, <3>4
  <2>4. QED BY <1>5, <2>2, <2>3 DEF StampInv
<1>12. EvictInv' BY <1>4 DEF EvictInv
<1>13. Cache!MatchAndLock(c, key)
  <2>1. p \in Prefixes(key) BY <1>2, <1>3, PrefixMember
  <2>2. p \in DOMAIN tree.page \cup {<<>>} BY <1>3 DEF IsTree, CachedPaths
  <2>3. ASSUME NEW q \in DOMAIN tree.page, IsPrefix(q, key) PROVE Len(q) <= Len(p)
    <3>1. q \in CachedPaths(tree) BY DEF CachedPaths
    <3>2. q \in Seq(Chunks) BY <3>1 DEF RInv, TreeInv, IsTree
    <3>3. IsPrefix(q, p) BY <1>3, <2>3, <3>1
    <3>4. QED BY <1>3, <3>2, <3>3, PrefixOrder
  <2>4. Cache!IsLongestCached(p, key) BY <1>3, <2>2, <2>3, SamePrefixes DEF Cache!IsLongestCached
  <2>5. tree'.page = tree.page BY <1>3, <1>5, <1>8
  <2>6. QED BY <1>4, <2>1, <2>4, <2>5, SamePrefixes DEF Cache!MatchAndLock
<1>14. QED BY <1>10, <1>11, <1>12, <1>13 DEF RInv

\* An insertion keeps locks and counters.
LEMMA InsertedTree ==
  ASSUME NEW T, NEW t, NEW key \in Seq(T), NEW p, NEW t1, Walked(t, T, key, p, t1),
         NEW pages, NEW t2, t2 = InsertBelow(t1, key, pages, p),
         NEW H, NEW h, Locks(t1, H, h), Counted(t1, H, h)
  PROVE  IsTree(t2, T) /\ Locks(t2, H, h) /\ Counted(t2, H, h)
<1>1. IsTree(t2, T) /\ \A K, g : Locks(t1, K, g) => Locks(t2, K, g) BY InsertBelowTree
<1>2. Counted(t2, H, h) BY InsertedBelowCount
<1>3. QED BY <1>1, <1>2

\* An insertion, and what the client holds afterwards.
LEMMA InsertTree ==
  ASSUME TreeInv, NEW c \in Clients, NEW key \in Keys, NEW relock \in BOOLEAN, Insert(c, key, relock),
         NEW p, p = TreeWalk(tree, key).node, NEW t1, t1 = TreeWalk(tree, key).tree,
         NEW t2, t2 = InsertBelow(t1, key, [i \in DOMAIN key |-> c], p)
  PROVE  /\ TreeInv' /\ Nodes(tree') = Nodes(t2) /\ tree'.page = t2.page
         /\ CachedPaths(tree') = CachedPaths(t2)
<1>1. /\ Walked(tree, Chunks, key, p, t1) /\ Locks(t1, Clients, held) /\ Counted(t1, Clients, held)
      /\ key \in Seq(Chunks) \ {<<>>}
  BY WalkedInv
<1>2. IsTree(t2, Chunks) /\ Locks(t2, Clients, held) /\ Counted(t2, Clients, held)
  <2>1. PICK pages, h, t : pages = [i \in DOMAIN key |-> c] /\ h = held /\ t = tree OBVIOUS
  <2>2. t2 = InsertBelow(t1, key, pages, p) BY <2>1
  <2>3. Walked(t, Chunks, key, p, t1) /\ key \in Seq(Chunks) BY <1>1, <2>1
  <2>4. Locks(t1, Clients, h) /\ Counted(t1, Clients, h) BY <1>1, <2>1
  <2>5. IsTree(t2, Chunks) /\ Locks(t2, Clients, h) /\ Counted(t2, Clients, h)
    BY ONLY <2>2, <2>3, <2>4, InsertedTree
  <2>6. QED BY <2>1, <2>5
<1>3. Counted(t2, Clients, held) BY <1>2
<1>4. tree.page = [q \in CachedPaths(tree) |-> tree.page[q]] /\ IsTree(tree, Chunks) BY DEF TreeInv
<1>5. /\ key \in Nodes(t2)
      /\ t2.page = [q \in CachedPaths(tree) \cup (Prefixes(key) \ {<<>>}) |->
                      IF q \in CachedPaths(tree) THEN tree.page[q] ELSE c]
  <2>1. PICK t : t = tree OBVIOUS
  <2>2. IsTree(t, Chunks) /\ key \in Seq(Chunks) \ {<<>>} /\ Walked(t, Chunks, key, p, t1)
    BY <1>1, <1>4, <2>1
  <2>3. PICK pages : pages = [i \in DOMAIN key |-> c] OBVIOUS
  <2>4. t2 = InsertBelow(t1, key, pages, p) BY <2>3
  <2>5. IsPageMap(t) BY <1>4, <2>1 DEF IsPageMap
  <2>6. PathsAdded(t, t1, t2, key, p, c) BY ONLY <2>2, <2>3, <2>4, <2>5, InsertedPaths
  <2>7. QED BY <2>1, <2>6 DEF PathsAdded
<1>6. PICK G, t3, h1, h : /\ G = Clients \ {c} /\ t3 = UnlockPath(t2, held[c]) /\ h1 = held' /\ h = held
  OBVIOUS
<1>7. IsFiniteSet(Clients) BY ClientsAssumption
<1>8. /\ IsTree(t3, Chunks) /\ t3.page = t2.page /\ CachedPaths(t3) = CachedPaths(t2)
      /\ Nodes(t3) = Nodes(t2) /\ Locks(t3, G, held)
  BY <1>2, <1>6, <1>7, UnlockPathTree
<1>9. Counted(t3, G, held) BY <1>2, <1>3, <1>6, <1>7, UnlockedCount
<1>10. /\ tree' = (IF relock THEN LockPath(t3, key) ELSE t3)
       /\ held' = [held EXCEPT ![c] = IF relock THEN key ELSE <<>>]
  BY <1>6 DEF Insert
<1>11. /\ DOMAIN h1 = Clients /\ h1 = [o \in Clients |-> h1[o]]
       /\ h1[c] = (IF relock THEN key ELSE <<>>) /\ \A o \in G : h1[o] = h[o]
  BY <1>6, <1>10 DEF TreeInv
<1>12. PICK t4 : t4 = tree' OBVIOUS
<1>13. /\ IsTree(t4, Chunks) /\ Locks(t4, Clients, h1) /\ Counted(t4, Clients, h1)
       /\ t4.page = t3.page /\ CachedPaths(t4) = CachedPaths(t3) /\ Nodes(t4) = Nodes(t3)
  <2>1. Locks(t3, G, h) /\ Counted(t3, G, h) BY <1>6, <1>8, <1>9
  <2>2. CASE relock
    <3>1. t4 = LockPath(t3, key) /\ h1[c] = key BY <1>10, <1>11, <1>12, <2>2
    <3>2. PICK n : n = key OBVIOUS
    <3>3. IsTree(t3, Chunks) /\ n \in Nodes(t3) \cup {<<>>} /\ c \in Clients BY <1>5, <1>8, <3>2
    <3>4. OthersLock(t3, c, h) BY <1>6, <2>1 DEF OthersLock
    <3>5. IsHanded(h1, h, c, n) BY <1>6, <1>11, <3>1, <3>2 DEF IsHanded
    <3>6. t4 = LockPath(t3, n) BY <3>1, <3>2
    <3>7. /\ IsTree(t4, Chunks) /\ Locks(t4, Clients, h1) /\ Counted(t4, Clients, h1)
          /\ t4.page = t3.page /\ CachedPaths(t4) = CachedPaths(t3) /\ Nodes(t4) = Nodes(t3)
      BY ONLY <3>3, <3>4, <3>5, <3>6, ClientLocks
    <3>8. QED BY <3>7
  <2>3. CASE ~relock
    <3>1. t4 = t3 /\ h1[c] = <<>> BY <1>10, <1>11, <1>12, <2>3
    <3>2. Locks(t3, G, h1) /\ Counted(t3, G, h1) BY <1>11, <2>1, LocksSame, CountedSame
    <3>3. c \in Clients /\ G = Clients \ {c} BY <1>6
    <3>4. IsTree(t3, Chunks) BY <1>8
    <3>5. /\ Locks(t3, Clients, h1) <=> Locks(t3, Clients \ {c}, h1)
          /\ Counted(t3, Clients, h1) <=> Counted(t3, Clients \ {c}, h1)
      BY ONLY <3>1, <3>3, <3>4, LocksOthers
    <3>6. QED BY <3>1, <3>2, <3>3, <3>4, <3>5
  <2>4. QED BY <2>2, <2>3
<1>14. t4.page = [q \in CachedPaths(t4) |-> t4.page[q]]
  <2>1. PICK D, f : /\ D = CachedPaths(tree) \cup (Prefixes(key) \ {<<>>})
                    /\ f = [q \in D |-> IF q \in CachedPaths(tree) THEN tree.page[q] ELSE c]
    OBVIOUS
  <2>2. t4.page = f BY <1>5, <1>8, <1>13, <2>1
  <2>3. CachedPaths(t4) = D BY <2>1, <2>2 DEF CachedPaths
  <2>4. f = [q \in D |-> f[q]] BY <2>1
  <2>5. QED BY <2>2, <2>3, <2>4
<1>15. TreeInv' BY <1>6, <1>11, <1>12, <1>13, <1>14 DEF TreeInv
<1>16. QED BY <1>8, <1>12, <1>13, <1>15

\* The new paths and the new node are stamped together; what was cached keeps its page.
LEMMA InsertInv ==
  ASSUME RInv, NEW c \in Clients, NEW key \in Keys, NEW relock \in BOOLEAN, Insert(c, key, relock)
  PROVE  RInv' /\ (Cache!InsertAndRelock(c, key) \/ Cache!InsertAndUnlock(c, key))
<1>1. PICK p, t1, t2 : /\ p = TreeWalk(tree, key).node /\ t1 = TreeWalk(tree, key).tree
                       /\ t2 = InsertBelow(t1, key, [i \in DOMAIN key |-> c], p)
  OBVIOUS
<1>2. /\ Walked(tree, Chunks, key, p, t1) /\ Nodes(t1) \subseteq Nodes(tree) \cup {p}
      /\ key \in Seq(Chunks) \ {<<>>}
  BY <1>1, WalkedInv DEF RInv
<1>3. /\ TreeInv' /\ Nodes(tree') = Nodes(t2) /\ tree'.page = t2.page
      /\ CachedPaths(tree') = CachedPaths(t2)
  BY <1>1, InsertTree DEF RInv
<1>4. tree.page = [q \in CachedPaths(tree) |-> tree.page[q]] /\ IsTree(tree, Chunks)
  BY DEF RInv, TreeInv
<1>5. /\ Nodes(t1) \subseteq Nodes(t2) /\ Nodes(t2) \subseteq Nodes(t1) \cup {key}
      /\ CachedPaths(t2) = CachedPaths(tree) \cup (Prefixes(key) \ Prefixes(p))
      /\ t2.page = [q \in CachedPaths(tree) \cup (Prefixes(key) \ {<<>>}) |->
                      IF q \in CachedPaths(tree) THEN tree.page[q] ELSE c]
  <2>1. PICK t : t = tree OBVIOUS
  <2>2. IsTree(t, Chunks) /\ key \in Seq(Chunks) \ {<<>>} /\ Walked(t, Chunks, key, p, t1)
    BY <1>2, <1>4, <2>1
  <2>3. PICK pages : pages = [i \in DOMAIN key |-> c] OBVIOUS
  <2>4. t2 = InsertBelow(t1, key, pages, p) BY <1>1, <2>3
  <2>5. IsPageMap(t) BY <1>4, <2>1 DEF IsPageMap
  <2>6. PathsAdded(t, t1, t2, key, p, c) BY ONLY <2>2, <2>3, <2>4, <2>5, InsertedPaths
  <2>7. QED BY <2>1, <2>6 DEF PathsAdded
<1>6. PICK fresh : fresh = Prefixes(key) \ Prefixes(p) OBVIOUS
<1>7. /\ missing = 0 /\ missing' = 0 /\ IsPrefix(held[c], key)
      /\ held' = [held EXCEPT ![c] = IF relock THEN key ELSE <<>>]
      /\ stamp' = [n \in Nodes(t2) |->
                     IF n \in fresh THEN now + 2
                     ELSE [m \in Nodes(t1) |-> IF IsPrefix(m, p) THEN now + 1 ELSE stamp[m]][n]]
      /\ used' = [q \in fresh \cup DOMAIN used |->
                    IF q \in fresh THEN now + 2
                    ELSE [m \in DOMAIN used |-> IF IsPrefix(m, p) THEN now + 1 ELSE used[m]][q]]
  BY <1>1, <1>6 DEF Insert, Idle, Stamped, Touch
<1>8. StampInv'
  <2>1. DOMAIN stamp = Nodes(tree) /\ DOMAIN used = CachedPaths(tree)
        /\ \A n \in Nodes(tree) : stamp[n] = used[n]
    BY DEF RInv, StampInv
  <2>2. /\ DOMAIN used' = fresh \cup CachedPaths(tree)
        /\ \A q \in fresh : used'[q] = now + 2
        /\ \A q \in CachedPaths(tree) \ fresh : used'[q] = IF IsPrefix(q, p) THEN now + 1 ELSE used[q]
    BY <1>7, <2>1
  <2>3. DOMAIN stamp' = Nodes(tree') /\ DOMAIN used' = CachedPaths(tree')
    BY <1>3, <1>5, <1>6, <1>7, <2>2
  <2>4. /\ p \in Seq(Chunks) /\ IsPrefix(p, key) /\ p \in Nodes(t1) \cup {<<>>}
        /\ Nodes(t1) \subseteq CachedPaths(tree)
    BY <1>2 DEF Walked, IsTree
  <2>5. ASSUME NEW n \in Nodes(t2) PROVE stamp'[n] = used'[n]
    <3>1. CASE n \in fresh BY <1>7, <2>2, <3>1
    <3>2. CASE n \notin fresh
      <4>1. n \in Nodes(t1)
        <5>1. ASSUME n = key PROVE n = p
          <6>1. n \in Seq(Chunks) /\ IsPrefix(n, key) BY <1>2, <5>1, PrefixOrder
          <6>2. n \in Prefixes(key) BY <1>2, <6>1, PrefixMember
          <6>3. n \in Prefixes(p) BY <1>6, <3>2, <6>2
          <6>4. IsPrefix(n, p) BY <2>4, <6>1, <6>3, PrefixMember
          <6>5. Len(n) <= Len(p) BY <2>4, <6>1, <6>4, PrefixOrder
          <6>6. QED BY <2>4, <5>1, <6>1, <6>5, PrefixOrder
        <5>2. n \in Nodes(t1) \/ n = key BY <1>5, <2>5
        <5>3. QED BY <1>2, <2>4, <5>1, <5>2
      <4>2. stamp'[n] = IF IsPrefix(n, p) THEN now + 1 ELSE stamp[n] BY <1>7, <2>5, <3>2, <4>1
      <4>3. used'[n] = IF IsPrefix(n, p) THEN now + 1 ELSE used[n] BY <2>2, <2>4, <3>2, <4>1
      <4>4. n \in Nodes(tree) \/ IsPrefix(n, p) BY <1>2, <2>4, <4>1, PrefixOrder
      <4>5. QED BY <2>1, <4>2, <4>3, <4>4
    <3>3. QED BY <3>1, <3>2
  <2>6. QED BY <1>3, <2>3, <2>5 DEF StampInv
<1>9. EvictInv' BY <1>7 DEF EvictInv
<1>10. tree'.page = Cache!Inserted(c, key) BY <1>3, <1>5, SamePrefixes DEF Cache!Inserted, CachedPaths
<1>11. Cache!InsertAndRelock(c, key) \/ Cache!InsertAndUnlock(c, key)
  <2>1. Cache!IsPrefix(held[c], key) BY <1>7, SamePrefixes
  <2>2. CASE relock BY <1>7, <1>10, <2>1, <2>2 DEF Cache!InsertAndRelock
  <2>3. CASE ~relock BY <1>7, <1>10, <2>1, <2>3 DEF Cache!InsertAndUnlock
  <2>4. QED BY <2>2, <2>3
<1>12. QED BY <1>3, <1>8, <1>9, <1>11 DEF RInv

\* The leaves are collected; nothing is taken yet.
LEMMA StartEvictInv ==
  ASSUME RInv, NEW size, StartEvict(size)
  PROVE  RInv' /\ UNCHANGED <<tree.page, held>>
<1>1. /\ size \in 0 .. tree.evictable /\ missing' = size
      /\ heap' = IF size = 0 THEN {} ELSE EvictableLeaves(tree)
      /\ UNCHANGED <<tree, stamp, used, held, now>>
  BY DEF StartEvict
<1>2. tree.evictable \in Nat
  <2>1. IsFiniteSet(CachedPaths(tree) \ Reached(tree, Clients, held))
    BY FS_Subset DEF RInv, TreeInv, Counted
  <2>2. QED BY <2>1, FS_CardinalityType DEF RInv, TreeInv, Counted
<1>3. TreeInv' /\ StampInv' BY <1>1 DEF RInv, TreeInv, StampInv
<1>4. EvictInv' BY <1>1, <1>2 DEF EvictInv
<1>5. QED BY <1>1, <1>3, <1>4 DEF RInv

\* t1 is t without the leaf n and the paths of its edge.
LeafGone(T, t, t1, H, h, n, gone) ==
  /\ IsTree(t1, T) /\ Locks(t1, H, h) /\ Counted(t1, H, h)
  /\ Nodes(t1) = Nodes(t) \ {n} /\ CachedPaths(t1) = CachedPaths(t) \ gone
  /\ t1.page = [p \in CachedPaths(t) \ gone |-> t.page[p]]
  /\ t1.evictable = t.evictable - NodeLength(t, n) /\ NodeLength(t, n) \in Nat
  /\ n \in gone /\ gone \subseteq CachedPaths(t)
  /\ \A p \in gone, o \in H : ~IsPrefix(p, h[o])
  /\ \A p \in gone, q \in CachedPaths(t) : IsPrefix(p, q) => q \in gone

\* Without a leaf nobody holds the tree loses the paths on its edge, all unlocked.
LEMMA LeafRemoved ==
  ASSUME NEW T, NEW t, IsTree(t, T), NEW H, IsFiniteSet(H), NEW h, Locks(t, H, h),
         Counted(t, H, h), NEW n \in EvictableLeaves(t), NEW t1, t1 = RemoveNodes(t, {n}),
         NEW gone, gone = OwnedBy(t, {n})
  PROVE  LeafGone(T, t, t1, H, h, n, gone)
<1>1. n \in Nodes(t) /\ t.ref[n] = 0 /\ \A m \in Nodes(t) : IsPrefix(n, m) => m = n
  BY DEF EvictableLeaves, IsLeaf
<1>2. PICK S : S = {n} OBVIOUS
<1>3. S \subseteq {m \in Nodes(t) : t.ref[m] = 0} BY <1>1, <1>2
<1>4. \A k \in S, m \in Nodes(t) : IsPrefix(k, m) => m \in S BY <1>1, <1>2
<1>5. t1 = RemoveNodes(t, S) BY <1>2
<1>6. /\ IsTree(t1, T) /\ Nodes(t1) = Nodes(t) \ S /\ CachedPaths(t1) = CachedPaths(t) \ OwnedBy(t, S)
      /\ Locks(t1, H, h)
  <2>1. IsTree(t1, T) BY <1>3, <1>4, <1>5, RemoveNodesTree
  <2>2. Nodes(t1) = Nodes(t) \ S /\ CachedPaths(t1) = CachedPaths(t) \ OwnedBy(t, S)
    BY <1>3, <1>4, <1>5, RemoveNodesTree
  <2>3. Locks(t1, H, h) BY <1>3, <1>4, <1>5, RemoveNodesTree
  <2>4. QED BY <2>1, <2>2, <2>3
<1>7. Counted(t1, H, h)
  <2>1. Counted(RemoveNodes(t, S), H, h) BY <1>3, <1>4, RemovedCount
  <2>2. QED BY <1>5, <2>1
<1>8. t1.page = [p \in CachedPaths(t) \ gone |-> t.page[p]] /\ t1.evictable = t.evictable - NodeLength(t, n)
  <2>1. PICK f, g : /\ f = [p \in CachedPaths(t) \ OwnedBy(t, {n}) |-> t.page[p]]
                    /\ g = [m \in Nodes(t) \ {n} |-> t.ref[m]]
    OBVIOUS
  <2>2. t1 = [t EXCEPT !.page = f, !.ref = g, !.evictable = @ - TotalLength(t, {n})]
    BY <2>1 DEF RemoveNodes
  <2>3. t = [page |-> t.page, ref |-> t.ref, evictable |-> t.evictable, protected |-> t.protected]
    BY DEF IsTree
  <2>4. t1.page = f /\ t1.evictable = t.evictable - TotalLength(t, {n}) BY <2>2, <2>3
  <2>5. TotalLength(t, {n}) = NodeLength(t, n) BY <1>1, EdgeCount
  <2>6. QED BY <2>1, <2>4, <2>5
<1>9. NodeLength(t, n) \in Nat BY <1>1, EdgeCount
<1>10. gone = {p \in CachedPaths(t) : OwnerOf(t, p) = n} BY DEF OwnedBy
<1>11. n \in gone
  <2>1. n \in CachedPaths(t) BY <1>1 DEF IsTree
  <2>2. OwnerOf(t, n) = n BY <1>1, <2>1, OwnerLies
  <2>3. QED BY <1>10, <2>1, <2>2
<1>12. ASSUME NEW p \in gone, NEW o \in H PROVE ~IsPrefix(p, h[o])
  <2>1. p \in CachedPaths(t) /\ OwnerOf(t, p) = n BY <1>10
  <2>2. PICK O : O = {k \in H : IsPrefix(p, h[k])} OBVIOUS
  <2>3. t.ref[n] = Cardinality(O) /\ IsFiniteSet(O) BY <2>1, <2>2, OwnerCounts
  <2>4. O = {} BY <1>1, <2>3, FS_EmptySet
  <2>5. QED BY <2>2, <2>4
<1>13. ASSUME NEW p \in gone, NEW q \in CachedPaths(t), IsPrefix(p, q) PROVE q \in gone
  <2>1. p \in CachedPaths(t) /\ OwnerOf(t, p) = n BY <1>10
  <2>2. PICK w : w = OwnerOf(t, q) OBVIOUS
  <2>3. w \in Nodes(t) /\ IsPrefix(q, w) BY <2>2, OwnerLies
  <2>4. CachedPaths(t) \subseteq Seq(T) /\ Nodes(t) \subseteq Seq(T) BY DEF IsTree
  <2>5. IsPrefix(p, w) BY <1>13, <2>1, <2>3, <2>4, PrefixOrder
  <2>6. IsPrefix(n, w) BY <2>1, <2>3, <2>5, OwnerLies
  <2>7. w = n BY <1>1, <2>3, <2>6
  <2>8. QED BY <1>10, <2>2, <2>7
<1>14. QED BY <1>2, <1>6, <1>7, <1>8, <1>9, <1>10, <1>11, <1>12, <1>13 DEF LeafGone

\* One pop: what is taken, the least recently used of what may be.
LEMMA PopLeafInv ==
  ASSUME RInv, PopLeaf
  PROVE  /\ RInv' /\ Cache!Evict
         /\ \A n \in EvictableLeaves(tree), m \in EvictableLeaves(tree) :
              (n \notin Nodes(tree)' /\ m \in Nodes(tree)') => used[n] <= used[m]
<1>1. PICK n \in Oldest(heap) :
        /\ tree' = RemoveNodes(tree, {n})
        /\ stamp' = Restrict(stamp, Nodes(RemoveNodes(tree, {n})))
        /\ used' = Restrict(used, CachedPaths(RemoveNodes(tree, {n})))
        /\ missing' = IF NodeLength(tree, n) < missing THEN missing - NodeLength(tree, n) ELSE 0
        /\ heap' = IF NodeLength(tree, n) < missing
                   THEN (heap \ {n}) \cup NewLeaf(RemoveNodes(tree, {n}), n) ELSE {}
  BY DEF PopLeaf
<1>2. missing > 0 /\ missing \in Nat /\ heap = EvictableLeaves(tree) /\ missing <= tree.evictable
      /\ held' = held
  BY DEF PopLeaf, RInv, EvictInv
<1>3. n \in EvictableLeaves(tree) /\ \A m \in EvictableLeaves(tree) : stamp[n] <= stamp[m]
  BY <1>2 DEF Oldest
<1>4. PICK t, t1, h, gone : t = tree /\ t1 = tree' /\ h = held /\ gone = OwnedBy(tree, {n}) OBVIOUS
<1>5. /\ IsTree(t1, Chunks) /\ Locks(t1, Clients, h) /\ Counted(t1, Clients, h)
      /\ Nodes(t1) = Nodes(t) \ {n} /\ CachedPaths(t1) = CachedPaths(t) \ gone
      /\ t1.page = [p \in CachedPaths(t) \ gone |-> t.page[p]]
      /\ t1.evictable = t.evictable - NodeLength(t, n) /\ NodeLength(t, n) \in Nat
      /\ n \in gone /\ gone \subseteq CachedPaths(t)
      /\ \A p \in gone, o \in Clients : ~IsPrefix(p, h[o])
      /\ \A p \in gone, q \in CachedPaths(t) : IsPrefix(p, q) => q \in gone
  <2>1. IsTree(t, Chunks) /\ Locks(t, Clients, h) /\ Counted(t, Clients, h)
    BY <1>4 DEF RInv, TreeInv
  <2>2. IsFiniteSet(Clients) BY ClientsAssumption
  <2>3. n \in EvictableLeaves(t) BY <1>3, <1>4
  <2>4. t1 = RemoveNodes(t, {n}) /\ gone = OwnedBy(t, {n}) BY <1>1, <1>4
  <2>5. LeafGone(Chunks, t, t1, Clients, h, n, gone) BY ONLY <2>1, <2>2, <2>3, <2>4, LeafRemoved
  <2>6. QED BY <2>5 DEF LeafGone
<1>6. TreeInv'
  <2>1. tree' = t1 /\ held' = h BY <1>2, <1>4
  <2>2. t1.page = [p \in CachedPaths(t1) |-> t1.page[p]] BY <1>5
  <2>3. DOMAIN h = Clients /\ h = [c \in Clients |-> h[c]] BY <1>4 DEF RInv, TreeInv
  <2>4. QED BY <1>5, <2>1, <2>2, <2>3 DEF TreeInv
<1>7. DOMAIN stamp = Nodes(tree) /\ DOMAIN used = CachedPaths(tree) /\ \A m \in Nodes(tree) : stamp[m] = used[m]
  BY DEF RInv, StampInv
<1>8. StampInv'
  <2>1. stamp' = [m \in Nodes(t1) |-> stamp[m]] /\ used' = [q \in CachedPaths(t1) |-> used[q]]
    BY <1>1, <1>4 DEF Restrict
  <2>2. \A m \in Nodes(t1) : m \in Nodes(tree) /\ m \in CachedPaths(t1) BY <1>4, <1>5 DEF IsTree
  <2>3. QED BY <1>4, <1>7, <2>1, <2>2 DEF StampInv
<1>9. EvictInv'
  <2>1. PICK l : l = NodeLength(t, n) OBVIOUS
  <2>2. l \in Nat /\ t1.evictable = t.evictable - l BY <1>5, <2>1
  <2>3. missing' = (IF l < missing THEN missing - l ELSE 0) /\ missing' \in Nat
    BY <1>1, <1>2, <1>4, <2>1, <2>2
  <2>4. ASSUME missing' > 0 PROVE heap' = EvictableLeaves(t1) /\ missing' <= t1.evictable
    <3>1. l < missing /\ missing' = missing - l BY <1>2, <2>2, <2>3, <2>4
    <3>2. heap' = (EvictableLeaves(t) \ {n}) \cup NewLeaf(t1, n) BY <1>1, <1>2, <1>4, <2>1, <3>1
    <3>3. NewLeaf(t1, n) = {m \in {Parent(t, n)} : m \in Nodes(t1) /\ IsLeaf(t1, m) /\ t1.ref[m] = 0}
      BY <1>4 DEF NewLeaf
    <3>4. IsTree(t, Chunks) /\ n \in EvictableLeaves(t) /\ t1 = RemoveNodes(t, {n})
      BY <1>1, <1>3, <1>4 DEF RInv, TreeInv
    <3>5. EvictableLeaves(t1) =
           (EvictableLeaves(t) \ {n})
             \cup {m \in {Parent(t, n)} : m \in Nodes(t1) /\ IsLeaf(t1, m) /\ t1.ref[m] = 0}
      BY ONLY <3>4, LeavesLeft
    <3>6. t.evictable \in Int
      <4>1. IsFiniteSet(CachedPaths(tree) \ Reached(tree, Clients, held))
        BY FS_Subset DEF RInv, TreeInv, Counted
      <4>2. QED BY <1>4, <4>1, FS_CardinalityType DEF RInv, TreeInv, Counted
    <3>7. missing' <= t1.evictable BY <1>2, <1>4, <2>2, <3>1, <3>6
    <3>8. QED BY <3>2, <3>3, <3>5, <3>7
  <2>5. QED BY <1>4, <2>3, <2>4 DEF EvictInv
<1>10. Cache!Evict
  <2>1. CachedPaths(t) = DOMAIN tree.page BY <1>4 DEF CachedPaths
  <2>2. gone \in SUBSET {p \in DOMAIN tree.page : ~Cache!IsLocked(p)}
    BY <1>4, <1>5, <2>1, SamePrefixes DEF Cache!IsLocked
  <2>3. gone # {} /\ \A p \in gone, q \in DOMAIN tree.page : Cache!IsPrefix(p, q) => q \in gone
    BY <1>5, <2>1, SamePrefixes
  <2>4. tree'.page = [p \in DOMAIN tree.page \ gone |-> tree.page[p]] BY <1>4, <1>5, <2>1
  <2>5. QED BY <1>2, <2>2, <2>3, <2>4 DEF Cache!Evict
<1>11. ASSUME NEW k \in EvictableLeaves(tree), NEW m \in EvictableLeaves(tree),
              k \notin Nodes(tree'), m \in Nodes(tree')
       PROVE  used[k] <= used[m]
  <2>1. k \in Nodes(tree) /\ m \in Nodes(tree) BY DEF EvictableLeaves
  <2>2. k = n BY <1>4, <1>5, <1>11, <2>1
  <2>3. QED BY <1>3, <1>7, <2>1, <2>2
<1>12. QED BY <1>6, <1>8, <1>9, <1>10, <1>11 DEF RInv, Nodes

-----------------------------------------------------------------------------
(* The theorems.                                                           *)

\* What EvictsLeastRecent says of a step.
StepIsFair ==
  missing > 0 =>
    \A n \in EvictableLeaves(tree), m \in EvictableLeaves(tree) :
      (n \notin Nodes(tree)' /\ m \in Nodes(tree)') => used[n] <= used[m]

\* A step keeps the invariant and is one of the cache of prefixes.
LEMMA NextStep ==
  ASSUME RInv, Next
  PROVE  RInv' /\ (Cache!CacheNext \/ UNCHANGED <<tree.page, held>>) /\ StepIsFair
<1>1. ASSUME NEW c \in Clients, NEW key \in Keys, Match(c, key)
      PROVE  RInv' /\ Cache!CacheNext /\ StepIsFair
  <2>1. RInv' /\ Cache!MatchAndLock(c, key) BY <1>1, MatchInv
  <2>2. missing = 0 BY <1>1 DEF Match, Idle
  <2>3. QED BY <2>1, <2>2 DEF Cache!CacheNext, StepIsFair
<1>2. ASSUME NEW c \in Clients, NEW key \in Keys, NEW relock \in BOOLEAN, Insert(c, key, relock)
      PROVE  RInv' /\ Cache!CacheNext /\ StepIsFair
  <2>1. RInv' /\ (Cache!InsertAndRelock(c, key) \/ Cache!InsertAndUnlock(c, key))
    BY <1>2, InsertInv
  <2>2. missing = 0 BY <1>2 DEF Insert, Idle
  <2>3. QED BY <2>1, <2>2 DEF Cache!CacheNext, StepIsFair
<1>3. ASSUME NEW size, StartEvict(size)
      PROVE  RInv' /\ UNCHANGED <<tree.page, held>> /\ StepIsFair
  <2>1. RInv' /\ UNCHANGED <<tree.page, held>> BY <1>3, StartEvictInv
  <2>2. missing = 0 BY <1>3 DEF StartEvict
  <2>3. QED BY <2>1, <2>2 DEF StepIsFair
<1>4. ASSUME PopLeaf PROVE RInv' /\ Cache!CacheNext /\ StepIsFair
  <2>1. /\ RInv' /\ Cache!Evict
        /\ \A n \in EvictableLeaves(tree), m \in EvictableLeaves(tree) :
             (n \notin Nodes(tree)' /\ m \in Nodes(tree)') => used[n] <= used[m]
    BY <1>4, PopLeafInv
  <2>2. QED BY <2>1 DEF Cache!CacheNext, StepIsFair
<1>5. QED BY <1>1, <1>2, <1>3, <1>4 DEF Next

\* So does no step at all.
LEMMA QuietStep ==
  ASSUME RInv, UNCHANGED vars
  PROVE  RInv' /\ UNCHANGED <<tree.page, held>>
<1>1. UNCHANGED <<tree, stamp, used, held, heap, missing, now>> BY DEF vars
<1>2. TreeInv' BY <1>1 DEF RInv, TreeInv
<1>3. StampInv' BY <1>1 DEF RInv, StampInv
<1>4. EvictInv' BY <1>1 DEF RInv, EvictInv
<1>5. QED BY <1>1, <1>2, <1>3, <1>4 DEF RInv

\* The tree is well formed, its reference counts and counters are those of the clients'
\* handles, timestamps are those of the last use, and evict has its leaves, always.
THEOREM RadixInvariant == Spec => []RInv
<1>1. RInv /\ [Next]_vars => RInv' BY NextStep, QuietStep
<1>2. QED BY InitRInv, <1>1, PTL DEF Spec

\* The assertions of evict: with something still to take there is a leaf to take, the
\* heap holds just the leaves nobody has locked, and evictable_size is not less.
THEOREM EvictCorrect == Spec => []EvictFindsEnough
<1>1. RInv => EvictFindsEnough
  <2>1. SUFFICES ASSUME RInv, missing > 0
                 PROVE  heap = EvictableLeaves(tree) /\ heap # {} /\ missing <= tree.evictable
    BY DEF EvictFindsEnough
  <2>2. missing \in Nat /\ heap = EvictableLeaves(tree) /\ missing <= tree.evictable
    BY <2>1 DEF RInv, EvictInv
  <2>3. PICK t, h : t = tree /\ h = held OBVIOUS
  <2>4. IsTree(t, Chunks) /\ Locks(t, Clients, h) /\ Counted(t, Clients, h)
    BY <2>1, <2>3 DEF RInv, TreeInv
  <2>5. IsFiniteSet(Clients) BY ClientsAssumption
  <2>6. t.evictable > 0
    <3>1. t.evictable \in Nat
      <4>1. IsFiniteSet(CachedPaths(t) \ Reached(t, Clients, h)) BY <2>4, FS_Subset DEF Counted
      <4>2. QED BY <2>4, <4>1, FS_CardinalityType DEF Counted
    <3>2. QED BY <2>1, <2>2, <2>3, <3>1
  <2>7. EvictableLeaves(t) # {} BY <2>4, <2>5, <2>6, LeafFound
  <2>8. QED BY <2>2, <2>3, <2>7
<1>2. QED BY RadixInvariant, <1>1, PTL

\* evict takes the least recently used first: what stays among the leaves that were free
\* to go was used no earlier than what went.
THEOREM LeastRecentCorrect == Spec => EvictsLeastRecent
<1>1. RInv /\ [Next]_vars =>
        [missing > 0 =>
           \A n \in EvictableLeaves(tree), m \in EvictableLeaves(tree) :
             (n \notin Nodes(tree)' /\ m \in Nodes(tree)') => used[n] <= used[m]]_vars
  BY NextStep DEF StepIsFair
<1>2. QED BY RadixInvariant, <1>1, PTL DEF Spec, EvictsLeastRecent

\* The radix tree, with its splits, counts and evictions by single leaves, is the map of
\* prefixes that kvcache/base.py promises: matching changes nothing that is cached, an
\* insertion keeps what was, and eviction takes unlocked tails only.
THEOREM PrefixCacheImplemented == Spec => ImplementsPrefixCache
<1>1. Init => Cache!CacheInit BY DEF Init, Cache!CacheInit, EmptyTree
<1>2. RInv /\ [Next]_vars => [Cache!CacheNext]_<<tree.page, held>>
  BY NextStep, QuietStep
<1>3. QED BY RadixInvariant, <1>1, <1>2, PTL
      DEF Spec, ImplementsPrefixCache, Cache!CacheSpec, Cache!cacheVars

=============================================================================
