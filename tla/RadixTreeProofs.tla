--------------------------- MODULE RadixTreeProofs ---------------------------
(***************************************************************************)
(* Lemmas about the operators of RadixTree.                                *)
(***************************************************************************)
EXTENDS RadixTree, TLAPS, SequenceTheorems, WellFoundedInduction, FiniteSetTheorems

\* A nonempty set of natural numbers has a least element.
LEMMA LeastNatural ==
  ASSUME NEW T, T \subseteq Nat, T # {}
  PROVE  \E x \in T : \A y \in T : x <= y
<1>1. IsWellFoundedOn(OpToRel(<, Nat), Nat) BY NatLessThanWellFounded
<1>2. PICK x \in T : \A y \in T : ~(<<y, x>> \in OpToRel(<, Nat)) BY <1>1, WFMin
<1>3. \A y \in T : ~(y < x) BY <1>2 DEF OpToRel
<1>4. QED BY <1>3

\* Among prefixes of one key, Longest picks a member that no other exceeds.
LEMMA LongestPrefix ==
  ASSUME NEW T, NEW key \in Seq(T), NEW S, S \subseteq Prefixes(key), S # {}
  PROVE  /\ Longest(S) \in S /\ Longest(S) \in Seq(T)
         /\ Len(Longest(S)) \in 0 .. Len(key)
         /\ \A s \in S : Len(s) <= Len(Longest(S))
<1>0. Len(key) \in Nat BY LenProperties
<1>1. ASSUME NEW s \in S PROVE s \in Seq(T) /\ Len(s) \in 0 .. Len(key)
  <2>1. PICK l \in 0 .. Len(key) : s = SubSeq(key, 1, l) BY DEF Prefixes
  <2>2. \A i \in 1 .. l : key[i] \in T BY <1>0, ElementOfSeq
  <2>3. s \in Seq(T) /\ Len(s) = IF 1 <= l THEN l - 1 + 1 ELSE 0
    BY <2>1, <2>2, <1>0, SubSeqProperties
  <2>4. QED BY <2>1, <2>3, <1>0
<1> DEFINE L == {Len(key) - Len(s) : s \in S}
<1>2. L \subseteq Nat /\ L # {} BY <1>0, <1>1
<1>3. PICK x \in L : \A y \in L : x <= y BY <1>2, LeastNatural
<1>4. PICK s \in S : x = Len(key) - Len(s) BY <1>3
<1>5. ASSUME NEW u \in S PROVE Len(u) <= Len(s)
  <2>1. Len(key) - Len(s) <= Len(key) - Len(u) BY <1>3, <1>4
  <2>2. Len(u) \in Int /\ Len(s) \in Int BY <1>1
  <2>3. QED BY <1>0, <2>1, <2>2
<1>6. Longest(S) \in S /\ \A u \in S : Len(u) <= Len(Longest(S)) BY <1>5 DEF Longest
<1>7. QED BY <1>1, <1>6

\* The match found for a key is a prefix of it.
THEOREM TreeWalkNode ==
  ASSUME NEW T, NEW key \in Seq(T), NEW t
  PROVE  /\ TreeWalk(t, key).node \in Prefixes(key) /\ TreeWalk(t, key).node \in Seq(T)
         /\ Len(TreeWalk(t, key).node) \in 0 .. Len(key)
<1> DEFINE S == {<<>>} \cup (Prefixes(key) \cap CachedPaths(t))
<1>1. <<>> \in Prefixes(key)
  <2>1. 0 \in 0 .. Len(key) BY LenProperties
  <2>2. SubSeq(key, 1, 0) = <<>> BY SubSeqEmpty
  <2>3. QED BY <2>1, <2>2 DEF Prefixes
<1>2. S \subseteq Prefixes(key) /\ S # {} BY <1>1
<1>3. TreeWalk(t, key).node = Longest(S) BY DEF TreeWalk, LongestMatch
<1>4. QED BY <1>2, <1>3, LongestPrefix

\* Prefixes of sequences over one set, by their elements.
LEMMA PrefixElements ==
  ASSUME NEW T, NEW s \in Seq(T), NEW t \in Seq(T)
  PROVE  IsPrefix(s, t) <=> Len(s) <= Len(t) /\ \A i \in 1 .. Len(s) : s[i] = t[i]
<1>1. Len(s) \in Nat /\ Len(t) \in Nat BY LenProperties
<1>2. /\ SubSeq(s, 1, Len(s)) = [i \in 1 .. Len(s) |-> s[i]]
      /\ SubSeq(t, 1, Len(s)) = [i \in 1 .. Len(s) |-> t[i]]
  BY <1>1
<1>3. QED BY <1>1, <1>2 DEF IsPrefix

LEMMA PrefixOrder ==
  ASSUME NEW T
  PROVE  /\ <<>> \in Seq(T)
         /\ \A s \in Seq(T) : Len(s) \in Nat /\ IsPrefix(s, s) /\ IsPrefix(<<>>, s)
         /\ \A s \in Seq(T) : Len(s) = 0 => s = <<>>
         /\ \A r, s, t \in Seq(T) : IsPrefix(r, s) /\ IsPrefix(s, t) => IsPrefix(r, t)
         /\ \A s, t \in Seq(T) : IsPrefix(s, t) => Len(s) <= Len(t)
         /\ \A s, t \in Seq(T) : IsPrefix(s, t) /\ Len(t) <= Len(s) => s = t
         /\ \A r, s, t \in Seq(T) : IsPrefix(r, t) /\ IsPrefix(s, t) /\ Len(r) <= Len(s) => IsPrefix(r, s)
<1>1. \A s \in Seq(T) : Len(s) \in Nat BY LenProperties
<1>2. <<>> \in Seq(T) /\ Len(<<>>) = 0 OBVIOUS
<1>3. \A s \in Seq(T) : Len(s) = 0 => s = <<>> OBVIOUS
<1>4. ASSUME NEW s \in Seq(T) PROVE IsPrefix(s, s) /\ IsPrefix(<<>>, s)
  <2>1. Len(s) \in Nat BY <1>1
  <2>2. Len(<<>>) <= Len(s) /\ \A i \in 1 .. Len(<<>>) : <<>>[i] = s[i] BY <1>2, <2>1
  <2>3. IsPrefix(<<>>, s) BY <1>2, <2>2, PrefixElements
  <2>4. IsPrefix(s, s) BY <2>1, PrefixElements
  <2>5. QED BY <2>3, <2>4
<1>5. ASSUME NEW r \in Seq(T), NEW s \in Seq(T), NEW t \in Seq(T), IsPrefix(r, s), IsPrefix(s, t)
      PROVE  IsPrefix(r, t)
  <2>1. Len(r) <= Len(s) /\ \A i \in 1 .. Len(r) : r[i] = s[i] BY <1>5, PrefixElements
  <2>2. Len(s) <= Len(t) /\ \A i \in 1 .. Len(s) : s[i] = t[i] BY <1>5, PrefixElements
  <2>3. Len(r) <= Len(t) /\ \A i \in 1 .. Len(r) : r[i] = t[i] BY <1>1, <2>1, <2>2
  <2>4. QED BY <2>3, PrefixElements
<1>6. ASSUME NEW s \in Seq(T), NEW t \in Seq(T), IsPrefix(s, t), Len(t) <= Len(s) PROVE s = t
  <2>1. Len(s) <= Len(t) /\ \A i \in 1 .. Len(s) : s[i] = t[i] BY <1>6, PrefixElements
  <2>2. Len(s) = Len(t) BY <1>1, <1>6, <2>1
  <2>3. QED BY <2>1, <2>2, SeqEqual
<1>7. ASSUME NEW r \in Seq(T), NEW s \in Seq(T), NEW t \in Seq(T), IsPrefix(r, t), IsPrefix(s, t),
             Len(r) <= Len(s)
      PROVE  IsPrefix(r, s)
  <2>1. \A i \in 1 .. Len(r) : r[i] = t[i] BY <1>7, PrefixElements
  <2>2. \A i \in 1 .. Len(s) : s[i] = t[i] BY <1>7, PrefixElements
  <2>3. \A i \in 1 .. Len(r) : r[i] = s[i] BY <1>1, <1>7, <2>1, <2>2
  <2>4. QED BY <1>7, <2>3, PrefixElements
<1>8. \A s, t \in Seq(T) : IsPrefix(s, t) => Len(s) <= Len(t) BY DEF IsPrefix
<1>9. QED BY <1>1, <1>2, <1>3, <1>4, <1>5, <1>6, <1>7, <1>8

\* The two ways to say that s is a beginning of t.
LEMMA PrefixMember ==
  ASSUME NEW T, NEW t \in Seq(T)
  PROVE  /\ Prefixes(t) \subseteq Seq(T)
         /\ \A s \in Seq(T) : s \in Prefixes(t) <=> IsPrefix(s, t)
         /\ \A k \in 0 .. Len(t) : SubSeq(t, 1, k) \in Prefixes(t) /\ Len(SubSeq(t, 1, k)) = k
<1>1. Len(t) \in Nat BY LenProperties
<1>2. ASSUME NEW k \in 0 .. Len(t)
      PROVE  /\ SubSeq(t, 1, k) \in Seq(T) /\ Len(SubSeq(t, 1, k)) = k
             /\ \A i \in 1 .. k : SubSeq(t, 1, k)[i] = t[i]
  <2>1. \A i \in 1 .. k : t[i] \in T BY <1>1, ElementOfSeq
  <2>2. /\ SubSeq(t, 1, k) \in Seq(T)
        /\ Len(SubSeq(t, 1, k)) = IF 1 <= k THEN k - 1 + 1 ELSE 0
        /\ \A i \in 1 .. k - 1 + 1 : SubSeq(t, 1, k)[i] = t[1 + i - 1]
    BY <2>1, <1>1, SubSeqProperties
  <2>3. QED BY <2>2, <1>1
<1>3. Prefixes(t) \subseteq Seq(T) BY <1>2 DEF Prefixes
<1>4. ASSUME NEW s \in Prefixes(t) PROVE IsPrefix(s, t)
  <2>1. PICK k \in 0 .. Len(t) : s = SubSeq(t, 1, k) BY DEF Prefixes
  <2>2. s \in Seq(T) /\ Len(s) = k /\ \A i \in 1 .. k : s[i] = t[i] BY <1>2, <2>1
  <2>3. QED BY <1>1, <2>2, PrefixElements
<1>5. ASSUME NEW s \in Seq(T), IsPrefix(s, t) PROVE s \in Prefixes(t)
  <2>1. Len(s) <= Len(t) /\ \A i \in 1 .. Len(s) : s[i] = t[i] BY <1>5, PrefixElements
  <2>2. Len(s) \in 0 .. Len(t) BY <1>1, <2>1, LenProperties
  <2>3. SubSeq(t, 1, Len(s)) = s BY <1>2, <2>1, <2>2, SeqEqual
  <2>4. QED BY <2>2, <2>3 DEF Prefixes
<1>6. QED BY <1>2, <1>3, <1>4, <1>5 DEF Prefixes

-----------------------------------------------------------------------------
(* The shape of a tree.                                                    *)

IsMeet(T, c, m, n) ==
  /\ c \in Seq(T) /\ IsPrefix(c, m) /\ IsPrefix(c, n)
  /\ \A q \in Seq(T) : IsPrefix(q, m) /\ IsPrefix(q, n) => IsPrefix(q, c)

\* Two sequences part somewhere, in one place.
LEMMA MeetIsLongest ==
  ASSUME NEW T, NEW m \in Seq(T), NEW n \in Seq(T)
  PROVE  /\ IsMeet(T, LongestCommonPrefix({m, n}), m, n)
         /\ \A c : IsMeet(T, c, m, n) => c = LongestCommonPrefix({m, n})
<1> DEFINE C == CommonPrefixes({m, n})
           l == LongestCommonPrefix({m, n})
<1>1. C = {q \in Seq(T) : IsPrefix(q, m) /\ IsPrefix(q, n)} BY PrefixMember DEF CommonPrefixes
<1>2. C \subseteq Prefixes(m) BY <1>1, PrefixMember
<1>3. <<>> \in C BY <1>1, PrefixOrder
<1> HIDE DEF C
<1>4. Longest(C) \in C /\ \A s \in C : Len(s) <= Len(Longest(C)) BY <1>2, <1>3, LongestPrefix
<1>5. l \in C /\ \A s \in C : Len(s) <= Len(l) BY <1>4 DEF LongestCommonPrefix, C
<1> HIDE DEF l
<1>6. IsMeet(T, l, m, n) BY <1>1, <1>5, PrefixOrder DEF IsMeet
<1>7. ASSUME NEW c, IsMeet(T, c, m, n) PROVE c = l
  <2>1. c \in Seq(T) /\ l \in Seq(T) /\ IsPrefix(c, l) /\ IsPrefix(l, c) BY <1>6, <1>7 DEF IsMeet
  <2>2. QED BY <2>1, PrefixOrder
<1>8. QED BY <1>6, <1>7 DEF l

\* WellFormedTree in the words of IsPrefix, for keys over T.
IsTree(t, T) ==
  /\ t = [page |-> t.page, ref |-> t.ref, evictable |-> t.evictable, protected |-> t.protected]
  /\ Nodes(t) \subseteq CachedPaths(t) /\ CachedPaths(t) \subseteq Seq(T) \ {<<>>}
  /\ \A p \in CachedPaths(t) :
       /\ \A q \in Seq(T) \ {<<>>} : IsPrefix(q, p) => q \in CachedPaths(t)
       /\ \E n \in Nodes(t) : IsPrefix(p, n)
  /\ \A m, n \in Nodes(t) : \E c \in Nodes(t) \cup {<<>>} : IsMeet(T, c, m, n)

LEMMA TreeIsWellFormed ==
  ASSUME NEW T, NEW t, IsTree(t, T)
  PROVE  WellFormedTree(t)
<1>1. ASSUME NEW p \in CachedPaths(t)
      PROVE  /\ p # <<>> /\ Prefixes(p) \ {<<>>} \subseteq CachedPaths(t)
             /\ \E n \in Nodes(t) : IsPrefix(p, n)
  <2>1. p \in Seq(T) BY DEF IsTree
  <2>2. ASSUME NEW q \in Prefixes(p) \ {<<>>} PROVE q \in CachedPaths(t)
    BY <2>1, PrefixMember DEF IsTree
  <2>3. QED BY <2>2 DEF IsTree
<1>2. ASSUME NEW m \in Nodes(t), NEW n \in Nodes(t)
      PROVE  LongestCommonPrefix({m, n}) \in Nodes(t) \cup {<<>>}
  <2>1. m \in Seq(T) /\ n \in Seq(T) BY DEF IsTree
  <2>2. PICK c \in Nodes(t) \cup {<<>>} : IsMeet(T, c, m, n) BY DEF IsTree
  <2>3. QED BY <2>1, <2>2, MeetIsLongest
<1>3. QED BY <1>1, <1>2 DEF WellFormedTree, IsTree

\* Among sequences, Shortest picks a member that is not longer than any other.
LEMMA ShortestMember ==
  ASSUME NEW T, NEW S, S \subseteq Seq(T), S # {}
  PROVE  Shortest(S) \in S /\ \A s \in S : Len(Shortest(S)) <= Len(s)
<1> DEFINE L == {Len(s) : s \in S}
<1>1. L \subseteq Nat /\ L # {} BY LenProperties
<1>2. PICK x \in L : \A y \in L : x <= y BY <1>1, LeastNatural
<1>3. PICK s \in S : x = Len(s) BY <1>2
<1>4. \A u \in S : Len(s) <= Len(u) BY <1>2, <1>3
<1>5. QED BY <1>4 DEF Shortest

\* The owner of a path lies above every node beyond the path.
LEMMA OwnerLies ==
  ASSUME NEW T, NEW t, IsTree(t, T), NEW p \in CachedPaths(t)
  PROVE  /\ OwnerOf(t, p) \in Nodes(t) /\ IsPrefix(p, OwnerOf(t, p))
         /\ \A n \in Nodes(t) : IsPrefix(p, n) <=> IsPrefix(OwnerOf(t, p), n)
         /\ p \in Nodes(t) => OwnerOf(t, p) = p
<1> DEFINE S == {n \in Nodes(t) : IsPrefix(p, n)}
           w == OwnerOf(t, p)
<1>1. p \in Seq(T) \ {<<>>} /\ Nodes(t) \subseteq Seq(T) BY DEF IsTree
<1>2. S \subseteq Seq(T) /\ S # {} BY <1>1 DEF IsTree
<1>3. w = Shortest(S) BY DEF OwnerOf
<1> HIDE DEF w
<1>4. w \in S /\ \A s \in S : Len(w) <= Len(s) BY <1>2, <1>3, ShortestMember
<1>5. w \in Seq(T) BY <1>2, <1>4
<1>6. ASSUME NEW n \in Nodes(t), IsPrefix(p, n) PROVE IsPrefix(w, n)
  <2>1. PICK c \in Nodes(t) \cup {<<>>} : IsMeet(T, c, w, n) BY <1>4 DEF IsTree
  <2>2. c \in Seq(T) /\ IsPrefix(c, w) /\ IsPrefix(c, n) /\ IsPrefix(p, c) BY <1>1, <1>4, <1>6, <2>1 DEF IsMeet
  <2>3. c # <<>>
    <3>1. Len(p) <= Len(c) /\ Len(p) # 0 /\ Len(p) \in Nat BY <1>1, <2>2, PrefixOrder
    <3>2. QED BY <3>1
  <2>4. c \in S BY <2>1, <2>2, <2>3
  <2>5. c = w BY <1>4, <1>5, <2>2, <2>4, PrefixOrder
  <2>6. QED BY <2>2, <2>5
<1>7. ASSUME NEW n \in Nodes(t), IsPrefix(w, n) PROVE IsPrefix(p, n)
  <2>1. IsPrefix(p, w) /\ n \in Seq(T) BY <1>1, <1>4
  <2>2. QED BY <1>1, <1>5, <1>7, <2>1, PrefixOrder
<1>8. ASSUME p \in Nodes(t) PROVE w = p
  <2>1. IsPrefix(p, p) BY <1>1, PrefixOrder
  <2>2. p \in S BY <1>8, <2>1
  <2>3. Len(w) <= Len(p) /\ IsPrefix(p, w) BY <1>4, <2>2
  <2>4. QED BY <1>1, <1>5, <2>3, PrefixOrder
<1>9. QED BY <1>4, <1>6, <1>7, <1>8 DEF w

-----------------------------------------------------------------------------
(* Handles: h gives each member of H the node it has locked.               *)

Locks(t, H, h) ==
  /\ \A o \in H : h[o] \in Nodes(t) \cup {<<>>}
  /\ \A n \in Nodes(t) : t.ref[n] = Cardinality({o \in H : IsPrefix(n, h[o])})

\* A node is not above the root.
LEMMA NoPrefixOfRoot ==
  ASSUME NEW T, NEW n \in Seq(T) \ {<<>>}
  PROVE  ~IsPrefix(n, <<>>)
<1>1. <<>> \in Seq(T) /\ Len(<<>>) = 0 OBVIOUS
<1>2. Len(n) \in Nat /\ Len(n) # 0 BY PrefixOrder
<1>3. QED BY <1>1, <1>2, PrefixOrder

\* split_at cuts an edge: who goes through its lower end goes through the new node.
LEMMA SplitNodeTree ==
  ASSUME NEW T, NEW t, IsTree(t, T), NEW p \in CachedPaths(t) \ Nodes(t)
  PROVE  LET t1 == SplitNode(t, p)
         IN  /\ IsTree(t1, T) /\ t1.page = t.page /\ Nodes(t1) = Nodes(t) \cup {p}
             /\ t1.evictable = t.evictable /\ t1.protected = t.protected
             /\ \A n \in Nodes(t) : t1.ref[n] = t.ref[n]
             /\ t1.ref[p] = t.ref[OwnerOf(t, p)]
<1> DEFINE t1 == SplitNode(t, p)
           w  == OwnerOf(t, p)
<1>1. /\ t1 = [page |-> t1.page, ref |-> t1.ref, evictable |-> t1.evictable, protected |-> t1.protected]
      /\ t1.page = t.page /\ t1.evictable = t.evictable /\ t1.protected = t.protected
      /\ t1.ref = NewNode(t, p, t.ref[w])
  BY DEF SplitNode, IsTree
<1> HIDE DEF t1, w
<1>2. /\ Nodes(t1) = Nodes(t) \cup {p}
      /\ \A n \in Nodes(t) : t1.ref[n] = t.ref[n]
      /\ t1.ref[p] = t.ref[w]
  <2>1. t1.ref = [n \in Nodes(t) \cup {p} |-> IF n = p THEN t.ref[w] ELSE t.ref[n]]
    BY <1>1 DEF NewNode
  <2>2. p \notin Nodes(t) OBVIOUS
  <2>3. DOMAIN t1.ref = Nodes(t) \cup {p} BY <2>1
  <2>4. QED BY <2>1, <2>2, <2>3 DEF Nodes
<1>3. /\ w \in Nodes(t) /\ IsPrefix(p, w)
      /\ \A n \in Nodes(t) : IsPrefix(p, n) <=> IsPrefix(w, n)
  BY OwnerLies DEF w
<1>4. CachedPaths(t1) = CachedPaths(t) BY <1>1 DEF CachedPaths
<1>5. Nodes(t) \subseteq Seq(T) \ {<<>>} /\ p \in Seq(T) \ {<<>>} BY DEF IsTree
<1>6. ASSUME NEW n \in Nodes(t)
      PROVE  \E c \in Nodes(t1) \cup {<<>>} : IsMeet(T, c, p, n) /\ IsMeet(T, c, n, p)
  <2>1. CASE IsPrefix(p, n)
    <3>1. IsMeet(T, p, p, n) /\ IsMeet(T, p, n, p) BY <1>5, <2>1, PrefixOrder DEF IsMeet
    <3>2. QED BY <1>2, <3>1
  <2>2. CASE ~IsPrefix(p, n)
    <3>1. PICK c \in Nodes(t) \cup {<<>>} : IsMeet(T, c, w, n) BY <1>3 DEF IsTree
    <3>2. c \in Seq(T) /\ IsPrefix(c, w) /\ IsPrefix(c, n) BY <3>1 DEF IsMeet
    <3>3. w \in Seq(T) /\ n \in Seq(T) /\ p \in Seq(T) BY <1>3, <1>5
    <3>4. IsPrefix(c, p)
      <4>1. Len(c) \in Nat /\ Len(p) \in Nat BY <3>2, <3>3, PrefixOrder
      <4>2. CASE Len(c) <= Len(p) BY <1>3, <3>2, <3>3, <4>2, PrefixOrder
      <4>3. CASE Len(p) <= Len(c)
        <5>1. IsPrefix(p, c) BY <1>3, <3>2, <3>3, <4>3, PrefixOrder
        <5>2. IsPrefix(p, n) BY <3>2, <3>3, <5>1, PrefixOrder
        <5>3. QED BY <2>2, <5>2
      <4>4. QED BY <4>1, <4>2, <4>3
    <3>5. ASSUME NEW q \in Seq(T), IsPrefix(q, p), IsPrefix(q, n) PROVE IsPrefix(q, c)
      <4>1. IsPrefix(q, w) BY <1>3, <3>3, <3>5, PrefixOrder
      <4>2. QED BY <3>1, <3>5, <4>1 DEF IsMeet
    <3>6. IsMeet(T, c, p, n) /\ IsMeet(T, c, n, p) BY <3>2, <3>4, <3>5 DEF IsMeet
    <3>7. QED BY <1>2, <3>6
  <2>3. QED BY <2>1, <2>2
<1>7. IsMeet(T, p, p, p) BY <1>5, PrefixOrder DEF IsMeet
<1>8. \A m, n \in Nodes(t1) : \E c \in Nodes(t1) \cup {<<>>} : IsMeet(T, c, m, n)
  <2>1. SUFFICES ASSUME NEW m \in Nodes(t1), NEW n \in Nodes(t1)
                 PROVE  \E c \in Nodes(t1) \cup {<<>>} : IsMeet(T, c, m, n)
    OBVIOUS
  <2>2. CASE m \in Nodes(t) /\ n \in Nodes(t) BY <1>2, <2>2 DEF IsTree
  <2>3. CASE m = p /\ n \in Nodes(t) BY <1>6, <2>3
  <2>4. CASE m \in Nodes(t) /\ n = p BY <1>6, <2>4
  <2>5. CASE m = p /\ n = p BY <1>2, <1>7, <2>5
  <2>6. QED BY <1>2, <2>2, <2>3, <2>4, <2>5
<1>9. /\ Nodes(t1) \subseteq CachedPaths(t1) /\ CachedPaths(t1) \subseteq Seq(T) \ {<<>>}
      /\ \A x \in CachedPaths(t1) :
           /\ \A q \in Seq(T) \ {<<>>} : IsPrefix(q, x) => q \in CachedPaths(t1)
           /\ \E n \in Nodes(t1) : IsPrefix(x, n)
  <2>1. Nodes(t1) \subseteq CachedPaths(t1) /\ CachedPaths(t1) \subseteq Seq(T) \ {<<>>}
    BY <1>2, <1>4 DEF IsTree
  <2>2. ASSUME NEW x \in CachedPaths(t1)
        PROVE  /\ \A q \in Seq(T) \ {<<>>} : IsPrefix(q, x) => q \in CachedPaths(t1)
               /\ \E n \in Nodes(t1) : IsPrefix(x, n)
    BY <1>2, <1>4 DEF IsTree
  <2>3. QED BY <2>1, <2>2
<1>10. IsTree(t1, T) BY <1>1, <1>8, <1>9 DEF IsTree
<1>11. QED BY <1>1, <1>2, <1>10 DEF t1, w

\* What walking down for a key leaves: the same pages under the same paths, and the
\* node found, which nothing cached for the key exceeds.
Walked(t, T, key, p, t1) ==
  /\ IsTree(t1, T) /\ t1.page = t.page /\ CachedPaths(t1) = CachedPaths(t)
  /\ t1.evictable = t.evictable /\ t1.protected = t.protected
  /\ p \in Seq(T) /\ IsPrefix(p, key) /\ p \in Nodes(t1) \cup {<<>>}
  /\ \A q \in CachedPaths(t) : IsPrefix(q, key) => IsPrefix(q, p)
  /\ Nodes(t) \subseteq Nodes(t1) /\ \A n \in Nodes(t) : t1.ref[n] = t.ref[n]
  /\ \A n \in Nodes(t1) \ Nodes(t) :
       \E w \in Nodes(t) : /\ t1.ref[n] = t.ref[w]
                           /\ \A m \in Nodes(t) : IsPrefix(n, m) <=> IsPrefix(w, m)

LEMMA TreeWalkTree ==
  ASSUME NEW T, NEW t, IsTree(t, T), NEW key \in Seq(T)
  PROVE  Walked(t, T, key, TreeWalk(t, key).node, TreeWalk(t, key).tree)
<1> DEFINE S == {<<>>} \cup (Prefixes(key) \cap CachedPaths(t))
           p == LongestMatch(t, key)
           t1 == TreeWalk(t, key).tree
<1>1. /\ TreeWalk(t, key).node = p
      /\ t1 = IF p \in Nodes(t) \cup {<<>>} THEN t ELSE SplitNode(t, p)
  BY DEF TreeWalk
<1>2. <<>> \in Prefixes(key) BY PrefixMember, PrefixOrder
<1>3. S \subseteq Prefixes(key) /\ S # {} BY <1>2
<1>4. p = Longest(S) BY DEF LongestMatch
<1> HIDE DEF p, t1
<1>5. p \in S /\ p \in Seq(T) /\ \A s \in S : Len(s) <= Len(p) BY <1>3, <1>4, LongestPrefix
<1>6. IsPrefix(p, key) BY <1>3, <1>5, PrefixMember
<1>7. ASSUME NEW q \in CachedPaths(t), IsPrefix(q, key) PROVE IsPrefix(q, p)
  <2>1. q \in Seq(T) BY DEF IsTree
  <2>2. q \in S BY <1>7, <2>1, PrefixMember
  <2>3. QED BY <1>5, <1>6, <1>7, <2>1, <2>2, PrefixOrder
<1>8. CASE p \in Nodes(t) \cup {<<>>}
  <2>1. t1 = t BY <1>1, <1>8
  <2>2. QED BY <1>1, <1>5, <1>6, <1>7, <1>8, <2>1 DEF Walked, t1
<1>9. CASE p \notin Nodes(t) \cup {<<>>}
  <2>1. t1 = SplitNode(t, p) /\ p \in CachedPaths(t) \ Nodes(t) BY <1>1, <1>5, <1>9
  <2>2. /\ IsTree(t1, T) /\ t1.page = t.page /\ Nodes(t1) = Nodes(t) \cup {p}
        /\ t1.evictable = t.evictable /\ t1.protected = t.protected
        /\ \A n \in Nodes(t) : t1.ref[n] = t.ref[n]
        /\ t1.ref[p] = t.ref[OwnerOf(t, p)]
    BY <2>1, SplitNodeTree
  <2>3. /\ OwnerOf(t, p) \in Nodes(t)
        /\ \A m \in Nodes(t) : IsPrefix(p, m) <=> IsPrefix(OwnerOf(t, p), m)
    BY <2>1, OwnerLies
  <2>4. CachedPaths(t1) = CachedPaths(t) BY <2>2 DEF CachedPaths
  <2>5. \A n \in Nodes(t1) \ Nodes(t) :
          \E w \in Nodes(t) : /\ t1.ref[n] = t.ref[w]
                              /\ \A m \in Nodes(t) : IsPrefix(n, m) <=> IsPrefix(w, m)
    BY <2>2, <2>3
  <2>6. Walked(t, T, key, p, t1) BY <1>5, <1>6, <1>7, <2>2, <2>4, <2>5 DEF Walked
  <2>7. QED BY <1>1, <2>6 DEF t1
<1>10. QED BY <1>8, <1>9

\* The new node is referred to by those who went through the edge.
LEMMA WalkedLocks ==
  ASSUME NEW T, NEW t, IsTree(t, T), NEW key, NEW p, NEW t1, Walked(t, T, key, p, t1),
         NEW H, NEW h, Locks(t, H, h)
  PROVE  Locks(t1, H, h)
<1>1. ASSUME NEW n \in Nodes(t1) \ Nodes(t)
      PROVE  t1.ref[n] = Cardinality({o \in H : IsPrefix(n, h[o])})
  <2>1. PICK w \in Nodes(t) : /\ t1.ref[n] = t.ref[w]
                              /\ \A m \in Nodes(t) : IsPrefix(n, m) <=> IsPrefix(w, m)
    BY DEF Walked
  <2>2. n \in Seq(T) \ {<<>>} /\ w \in Seq(T) \ {<<>>} BY DEF Walked, IsTree
  <2>3. ~IsPrefix(n, <<>>) /\ ~IsPrefix(w, <<>>) BY <2>2, NoPrefixOfRoot
  <2>4. \A o \in H : IsPrefix(n, h[o]) <=> IsPrefix(w, h[o]) BY <2>1, <2>3 DEF Locks
  <2>5. {o \in H : IsPrefix(n, h[o])} = {o \in H : IsPrefix(w, h[o])} BY <2>4
  <2>6. QED BY <2>1, <2>5 DEF Locks
<1>2. ASSUME NEW n \in Nodes(t) PROVE t1.ref[n] = Cardinality({o \in H : IsPrefix(n, h[o])})
  BY DEF Walked, Locks
<1>3. \A o \in H : h[o] \in Nodes(t1) \cup {<<>>} BY DEF Walked, Locks
<1>4. QED BY <1>1, <1>2, <1>3 DEF Locks

\* insert_prefix below the node found for the key: what was cached stays where it is,
\* the rest of the key is cached with the pages given, and nobody holds it yet.
LEMMA InsertBelowTree ==
  ASSUME NEW T, NEW t, NEW key \in Seq(T), NEW p, NEW t1, Walked(t, T, key, p, t1),
         NEW pages
  PROVE  LET t2 == InsertBelow(t1, key, pages, p)
         IN  /\ IsTree(t2, T) /\ key \in Nodes(t2) \cup {<<>>}
             /\ CachedPaths(t) \subseteq CachedPaths(t2) /\ Nodes(t1) \subseteq Nodes(t2)
             /\ \A q \in CachedPaths(t) : t2.page[q] = t.page[q]
             /\ \A q \in Seq(T) \ {<<>>} :
                  IsPrefix(q, key) /\ Len(q) > Len(p) => q \in CachedPaths(t2) /\ t2.page[q] = pages[Len(q)]
             /\ \A q \in CachedPaths(t2) \ CachedPaths(t) : IsPrefix(q, key) /\ Len(q) > Len(p)
             /\ Len(p) <= Len(key)
             /\ \A H, h : Locks(t1, H, h) => Locks(t2, H, h)
<1> DEFINE t2  == InsertBelow(t1, key, pages, p)
           new == {q \in Prefixes(key) : Len(q) > Len(p)}
<1>1. /\ IsTree(t1, T) /\ t1.page = t.page /\ CachedPaths(t1) = CachedPaths(t)
      /\ p \in Seq(T) /\ IsPrefix(p, key) /\ p \in Nodes(t1) \cup {<<>>}
      /\ \A q \in CachedPaths(t1) : IsPrefix(q, key) => IsPrefix(q, p)
  BY DEF Walked
<1>2. new = {q \in Seq(T) : IsPrefix(q, key) /\ Len(q) > Len(p)} BY PrefixMember
<1>3. t2 = IF new = {} THEN t1
           ELSE [t1 EXCEPT !.page = NewPaths(t1, new, pages), !.ref = NewNode(t1, key, 0),
                           !.evictable = @ + Len(key) - Len(p)]
  BY DEF InsertBelow
<1> HIDE DEF t2, new
<1>4. IsPrefix(key, key) /\ Len(p) \in Nat /\ Len(key) \in Nat /\ Len(p) <= Len(key)
  BY <1>1, PrefixOrder
<1>5. CASE new = {}
  <2>1. t2 = t1 BY <1>3, <1>5
  <2>2. ~(Len(key) > Len(p)) BY <1>2, <1>4, <1>5
  <2>3. Len(key) <= Len(p) BY <1>4, <2>2
  <2>4. p = key BY <1>1, <2>3, PrefixOrder
  <2>5. \A q \in Seq(T) \ {<<>>} : ~(IsPrefix(q, key) /\ Len(q) > Len(p)) BY <1>2, <1>5
  <2>6. QED BY <1>1, <1>4, <2>1, <2>4, <2>5 DEF t2
<1>6. CASE new # {}
  <2>1. /\ t2 = [page |-> t2.page, ref |-> t2.ref, evictable |-> t2.evictable, protected |-> t2.protected]
        /\ t2.page = NewPaths(t1, new, pages) /\ t2.ref = NewNode(t1, key, 0)
    BY <1>1, <1>3, <1>6 DEF IsTree
  <2>2. /\ CachedPaths(t2) = CachedPaths(t1) \cup new
        /\ \A q \in CachedPaths(t1) : t2.page[q] = t1.page[q]
        /\ \A q \in new \ CachedPaths(t1) : t2.page[q] = pages[Len(q)]
    <3>1. t2.page = [q \in CachedPaths(t1) \cup new |->
                       IF q \in CachedPaths(t1) THEN t1.page[q] ELSE pages[Len(q)]]
      BY <2>1 DEF NewPaths
    <3>2. DOMAIN t2.page = CachedPaths(t1) \cup new BY <3>1
    <3>3. QED BY <3>1, <3>2 DEF CachedPaths
  <2>3. \A q \in new : q \in Seq(T) /\ Len(q) \in Nat /\ Len(q) > Len(p) /\ IsPrefix(q, key)
    BY <1>2, PrefixOrder
  <2>4. new \cap CachedPaths(t1) = {}
    <3>1. ASSUME NEW q \in new, q \in CachedPaths(t1) PROVE FALSE
      <4>1. IsPrefix(q, p) BY <1>1, <2>3, <3>1
      <4>2. Len(q) <= Len(p) BY <1>1, <2>3, <4>1, PrefixOrder
      <4>3. QED BY <1>4, <2>3, <4>2
    <3>2. QED BY <3>1
  <2>5. key \in new
    <3>1. PICK q \in new : TRUE BY <1>6
    <3>2. Len(q) <= Len(key) BY <2>3, PrefixOrder
    <3>3. Len(key) > Len(p) BY <1>4, <2>3, <3>2
    <3>4. QED BY <1>2, <1>4, <3>3
  <2>6. key # <<>> /\ key \notin Nodes(t1)
    <3>1. Len(key) # 0 BY <1>4, <2>3, <2>5
    <3>2. QED BY <1>1, <2>4, <2>5, <3>1 DEF IsTree
  <2>7. /\ Nodes(t2) = Nodes(t1) \cup {key} /\ t2.ref[key] = 0
        /\ \A n \in Nodes(t1) : t2.ref[n] = t1.ref[n]
    <3>1. t2.ref = [n \in Nodes(t1) \cup {key} |-> IF n = key THEN 0 ELSE t1.ref[n]]
      BY <2>1 DEF NewNode
    <3>2. DOMAIN t2.ref = Nodes(t1) \cup {key} BY <3>1
    <3>3. QED BY <2>6, <3>1, <3>2 DEF Nodes
  <2>8. Nodes(t1) \subseteq CachedPaths(t1) /\ CachedPaths(t1) \subseteq Seq(T) \ {<<>>}
    BY <1>1 DEF IsTree
  <2>9. <<>> \notin new
    <3>1. Len(<<>>) = 0 OBVIOUS
    <3>2. QED BY <1>4, <2>3, <3>1
  <2>10. Nodes(t2) \subseteq CachedPaths(t2) /\ CachedPaths(t2) \subseteq Seq(T) \ {<<>>}
    <3>1. Nodes(t2) \subseteq CachedPaths(t2) BY <2>2, <2>5, <2>7, <2>8
    <3>2. new \subseteq Seq(T) \ {<<>>} BY <2>3, <2>9
    <3>3. QED BY <2>2, <2>8, <3>1, <3>2
  <2>11. ASSUME NEW x \in CachedPaths(t2)
         PROVE  /\ \A q \in Seq(T) \ {<<>>} : IsPrefix(q, x) => q \in CachedPaths(t2)
                /\ \E n \in Nodes(t2) : IsPrefix(x, n)
    <3>1. CASE x \in CachedPaths(t1) BY <1>1, <2>2, <2>7, <3>1 DEF IsTree
    <3>2. CASE x \in new
      <4>1. ASSUME NEW q \in Seq(T) \ {<<>>}, IsPrefix(q, x) PROVE q \in CachedPaths(t2)
        <5>1. IsPrefix(q, key) BY <2>3, <3>2, <4>1, PrefixOrder
        <5>2. Len(q) \in Nat BY PrefixOrder
        <5>3. CASE Len(q) > Len(p) BY <1>2, <2>2, <5>1, <5>3
        <5>4. CASE Len(q) <= Len(p)
          <6>1. IsPrefix(q, p) BY <1>1, <5>1, <5>4, PrefixOrder
          <6>2. p # <<>>
            <7>1. Len(q) # 0 BY PrefixOrder
            <7>2. Len(<<>>) = 0 OBVIOUS
            <7>3. QED BY <5>2, <5>4, <7>1, <7>2
          <6>3. p \in CachedPaths(t1) BY <1>1, <2>8, <6>2
          <6>4. q \in CachedPaths(t1) BY <1>1, <6>1, <6>3 DEF IsTree
          <6>5. QED BY <2>2, <6>4
        <5>5. QED BY <1>4, <5>2, <5>3, <5>4
      <4>2. IsPrefix(x, key) BY <2>3, <3>2
      <4>3. QED BY <2>7, <4>1, <4>2
    <3>3. QED BY <2>2, <3>1, <3>2
  <2>12. ASSUME NEW n \in Nodes(t1)
         PROVE  \E c \in Nodes(t2) \cup {<<>>} : IsMeet(T, c, key, n) /\ IsMeet(T, c, n, key)
    <3>1. n \in Seq(T) BY <2>8
    <3>2. ASSUME NEW q \in Seq(T), IsPrefix(q, key), IsPrefix(q, n) PROVE IsPrefix(q, p)
      <4>1. CASE q = <<>> BY <1>1, <4>1, PrefixOrder
      <4>2. CASE q # <<>>
        <5>1. n \in CachedPaths(t1) BY <2>8
        <5>2. q \in CachedPaths(t1) BY <1>1, <3>2, <4>2, <5>1 DEF IsTree
        <5>3. QED BY <1>1, <3>2, <5>2
      <4>3. QED BY <4>1, <4>2
    <3>3. \E c \in Nodes(t1) \cup {<<>>} : IsMeet(T, c, p, n)
      <4>1. CASE p \in Nodes(t1) BY <1>1, <4>1 DEF IsTree
      <4>2. CASE p = <<>>
        <5>1. IsMeet(T, <<>>, p, n) BY <3>1, <4>2, PrefixOrder DEF IsMeet
        <5>2. QED BY <5>1
      <4>3. QED BY <1>1, <4>1, <4>2
    <3>4. PICK c \in Nodes(t1) \cup {<<>>} : IsMeet(T, c, p, n) BY <3>3
    <3>5. c \in Seq(T) /\ IsPrefix(c, p) /\ IsPrefix(c, n) BY <3>4 DEF IsMeet
    <3>6. IsPrefix(c, key) BY <1>1, <3>5, PrefixOrder
    <3>7. \A q \in Seq(T) : IsPrefix(q, key) /\ IsPrefix(q, n) => IsPrefix(q, c)
      BY <3>2, <3>4 DEF IsMeet
    <3>8. IsMeet(T, c, key, n) /\ IsMeet(T, c, n, key) BY <3>5, <3>6, <3>7 DEF IsMeet
    <3>9. QED BY <2>7, <3>8
  <2>13. ASSUME NEW m \in Nodes(t2), NEW n \in Nodes(t2)
         PROVE  \E c \in Nodes(t2) \cup {<<>>} : IsMeet(T, c, m, n)
    <3>1. CASE m \in Nodes(t1) /\ n \in Nodes(t1) BY <1>1, <2>7, <3>1 DEF IsTree
    <3>2. CASE m = key /\ n \in Nodes(t1) BY <2>12, <3>2
    <3>3. CASE m \in Nodes(t1) /\ n = key BY <2>12, <3>3
    <3>4. CASE m = key /\ n = key
      <4>1. IsMeet(T, key, key, key) BY <1>4 DEF IsMeet
      <4>2. QED BY <2>7, <3>4, <4>1
    <3>5. QED BY <2>7, <3>1, <3>2, <3>3, <3>4
  <2>14. IsTree(t2, T) BY <2>1, <2>10, <2>11, <2>13 DEF IsTree
  <2>15. ASSUME NEW H, NEW h, Locks(t1, H, h) PROVE Locks(t2, H, h)
    <3>1. \A o \in H : h[o] \in Nodes(t1) \cup {<<>>} BY <2>15 DEF Locks
    <3>2. ASSUME NEW o \in H, IsPrefix(key, h[o]) PROVE FALSE
      <4>1. h[o] # <<>> BY <2>6, <3>2, NoPrefixOfRoot
      <4>2. h[o] \in CachedPaths(t1) BY <2>8, <3>1, <4>1
      <4>3. key \in CachedPaths(t1) BY <1>1, <2>6, <3>2, <4>2 DEF IsTree
      <4>4. QED BY <2>4, <2>5, <4>3
    <3>3. {o \in H : IsPrefix(key, h[o])} = {} BY <3>2
    <3>4. Cardinality({o \in H : IsPrefix(key, h[o])}) = 0 BY <3>3, FS_EmptySet
    <3>5. QED BY <2>7, <2>15, <3>1, <3>4 DEF Locks
  <2>16. \A q \in Seq(T) \ {<<>>} :
           IsPrefix(q, key) /\ Len(q) > Len(p) => q \in CachedPaths(t2) /\ t2.page[q] = pages[Len(q)]
    BY <1>2, <2>2, <2>4
  <2>17. \A q \in CachedPaths(t2) \ CachedPaths(t) : IsPrefix(q, key) /\ Len(q) > Len(p)
    BY <1>1, <2>2, <2>3
  <2>18. QED BY <1>1, <1>4, <2>2, <2>7, <2>14, <2>15, <2>16, <2>17 DEF t2
<1>7. QED BY <1>5, <1>6

\* One member more or less in a finite set counts for one.
LEMMA CountMember ==
  ASSUME NEW H, IsFiniteSet(H), NEW x, x \notin H, NEW A, NEW B, A \subseteq H, B = A \cup {x}
  PROVE  /\ Cardinality(A) \in Nat /\ Cardinality(B) = Cardinality(A) + 1
         /\ Cardinality(A) = Cardinality(B) - 1 /\ Cardinality(B) > 0
<1>1. IsFiniteSet(A) /\ x \notin A BY FS_Subset
<1>2. Cardinality(A) \in Nat BY <1>1, FS_CardinalityType
<1>3. Cardinality(B) = Cardinality(A) + 1 BY <1>1, FS_AddElement
<1>4. QED BY <1>2, <1>3

\* Only counts change when a path is locked or unlocked.
LEMMA SameShape ==
  ASSUME NEW T, NEW t, IsTree(t, T), NEW t1, t1.page = t.page, Nodes(t1) = Nodes(t),
         t1 = [page |-> t1.page, ref |-> t1.ref, evictable |-> t1.evictable, protected |-> t1.protected]
  PROVE  IsTree(t1, T) /\ CachedPaths(t1) = CachedPaths(t)
<1>1. CachedPaths(t1) = CachedPaths(t) BY DEF CachedPaths
<1>2. QED BY <1>1 DEF IsTree

LEMMA PathChanged ==
  ASSUME NEW T, NEW t, IsTree(t, T), NEW n, NEW t1, t1 \in {LockPath(t, n), UnlockPath(t, n)}
  PROVE  /\ IsTree(t1, T) /\ t1.page = t.page /\ CachedPaths(t1) = CachedPaths(t)
         /\ Nodes(t1) = Nodes(t)
         /\ \A m \in Nodes(t) :
              t1.ref[m] = IF ~IsPrefix(m, n) THEN t.ref[m]
                          ELSE IF t1 = LockPath(t, n) THEN t.ref[m] + 1 ELSE t.ref[m] - 1
<1>1. t = [page |-> t.page, ref |-> t.ref, evictable |-> t.evictable, protected |-> t.protected]
  BY DEF IsTree
<1>2. ASSUME NEW d, t1.page = t.page, t1.ref = AddRef(t, PathTo(t, n), d),
             t1 = [page |-> t1.page, ref |-> t1.ref, evictable |-> t1.evictable, protected |-> t1.protected]
      PROVE  /\ IsTree(t1, T) /\ t1.page = t.page /\ CachedPaths(t1) = CachedPaths(t)
             /\ Nodes(t1) = Nodes(t)
             /\ \A m \in Nodes(t) : t1.ref[m] = IF IsPrefix(m, n) THEN t.ref[m] + d ELSE t.ref[m]
  <2>1. t1.ref = [m \in Nodes(t) |-> IF m \in PathTo(t, n) THEN t.ref[m] + d ELSE t.ref[m]]
    BY <1>2 DEF AddRef
  <2>2. DOMAIN t1.ref = Nodes(t) BY <2>1
  <2>3. Nodes(t1) = Nodes(t) BY <2>2 DEF Nodes
  <2>4. QED BY <1>2, <2>1, <2>3, SameShape DEF PathTo
<1>3. CASE t1 = LockPath(t, n)
  <2>1. /\ t1.page = t.page /\ t1.ref = AddRef(t, PathTo(t, n), 1)
        /\ t1 = [page |-> t1.page, ref |-> t1.ref, evictable |-> t1.evictable, protected |-> t1.protected]
    BY <1>1, <1>3 DEF LockPath
  <2>2. QED BY <1>2, <1>3, <2>1
<1>4. CASE t1 = UnlockPath(t, n) /\ t1 # LockPath(t, n)
  <2>1. /\ t1.page = t.page /\ t1.ref = AddRef(t, PathTo(t, n), -1)
        /\ t1 = [page |-> t1.page, ref |-> t1.ref, evictable |-> t1.evictable, protected |-> t1.protected]
    BY <1>1, <1>4 DEF UnlockPath
  <2>2. /\ IsTree(t1, T) /\ t1.page = t.page /\ CachedPaths(t1) = CachedPaths(t)
        /\ Nodes(t1) = Nodes(t)
        /\ \A m \in Nodes(t) : t1.ref[m] = IF IsPrefix(m, n) THEN t.ref[m] + (-1) ELSE t.ref[m]
    BY <1>2, <2>1
  <2>3. QED BY <1>4, <2>2
<1>5. QED BY <1>3, <1>4

\* One more request, x, holds a lock in t1.
Taken(T, t, H, h, x, t1) ==
  /\ IsTree(t1, T) /\ t1.page = t.page /\ CachedPaths(t1) = CachedPaths(t)
  /\ Nodes(t1) = Nodes(t) /\ Locks(t1, H \cup {x}, h)

\* Locking a handle counts its holder on the way up.
LEMMA LockPathTree ==
  ASSUME NEW T, NEW t, IsTree(t, T), NEW H, IsFiniteSet(H), NEW h, Locks(t, H, h),
         NEW x, x \notin H, NEW n \in Nodes(t) \cup {<<>>},
         NEW h1, h1[x] = n, \A o \in H : h1[o] = h[o]
  PROVE  Taken(T, t, H, h1, x, LockPath(t, n))
<1> DEFINE t1 == LockPath(t, n)
<1>1. /\ IsTree(t1, T) /\ t1.page = t.page /\ CachedPaths(t1) = CachedPaths(t)
      /\ Nodes(t1) = Nodes(t)
      /\ \A m \in Nodes(t) : t1.ref[m] = IF IsPrefix(m, n) THEN t.ref[m] + 1 ELSE t.ref[m]
  BY PathChanged
<1> HIDE DEF t1
<1>2. ASSUME NEW m \in Nodes(t1)
      PROVE  t1.ref[m] = Cardinality({o \in H \cup {x} : IsPrefix(m, h1[o])})
  <2> DEFINE A == {o \in H : IsPrefix(m, h[o])}
             B == {o \in H \cup {x} : IsPrefix(m, h1[o])}
  <2>1. t.ref[m] = Cardinality(A) BY <1>1 DEF Locks
  <2>2. CASE IsPrefix(m, n)
    <3>1. B = A \cup {x} BY <2>2
    <3>2. A \subseteq H OBVIOUS
    <3> HIDE DEF A, B
    <3>3. Cardinality(B) = Cardinality(A) + 1 BY <3>1, <3>2, CountMember
    <3>4. t1.ref[m] = Cardinality(B) BY <1>1, <2>1, <2>2, <3>3
    <3>5. QED BY <3>4 DEF B
  <2>3. CASE ~IsPrefix(m, n)
    <3>1. B = A BY <2>3
    <3>2. QED BY <1>1, <2>1, <2>3, <3>1
  <2>4. QED BY <2>2, <2>3
<1>3. \A o \in H \cup {x} : h1[o] \in Nodes(t1) \cup {<<>>} BY <1>1 DEF Locks
<1>4. Locks(t1, H \cup {x}, h1) BY <1>2, <1>3 DEF Locks
<1>5. QED BY <1>1, <1>4 DEF t1, Taken

\* Unlocking takes its holder out of the counts.
LEMMA UnlockPathTree ==
  ASSUME NEW T, NEW t, IsTree(t, T), NEW H, IsFiniteSet(H), NEW h, Locks(t, H, h), NEW x \in H
  PROVE  LET t1 == UnlockPath(t, h[x])
         IN  /\ IsTree(t1, T) /\ t1.page = t.page /\ CachedPaths(t1) = CachedPaths(t)
             /\ Nodes(t1) = Nodes(t) /\ Locks(t1, H \ {x}, h)
<1> DEFINE t1 == UnlockPath(t, h[x])
           Down(m) == IF t1 = LockPath(t, h[x]) THEN t.ref[m] + 1 ELSE t.ref[m] - 1
<1>1. /\ IsTree(t1, T) /\ t1.page = t.page /\ CachedPaths(t1) = CachedPaths(t)
      /\ Nodes(t1) = Nodes(t)
  BY PathChanged
<1>2. \A m \in Nodes(t) : t1.ref[m] = IF IsPrefix(m, h[x]) THEN t.ref[m] - 1 ELSE t.ref[m]
  <2>1. t1.ref = AddRef(t, PathTo(t, h[x]), -1) BY DEF UnlockPath, IsTree
  <2>2. \A m \in Nodes(t) : t1.ref[m] = IF m \in PathTo(t, h[x]) THEN t.ref[m] + (-1) ELSE t.ref[m]
    BY <2>1 DEF AddRef
  <2>3. ASSUME NEW m \in Nodes(t)
        PROVE  t1.ref[m] = IF IsPrefix(m, h[x]) THEN t.ref[m] - 1 ELSE t.ref[m]
    <3>1. t.ref[m] \in Nat
      <4>1. IsFiniteSet({o \in H : IsPrefix(m, h[o])}) BY FS_Subset
      <4>2. QED BY <4>1, FS_CardinalityType DEF Locks
    <3>2. t.ref[m] + (-1) = t.ref[m] - 1 BY <3>1
    <3>3. QED BY <2>2, <3>2 DEF PathTo
  <2>4. QED BY <2>3
<1> HIDE DEF t1
<1>3. ASSUME NEW m \in Nodes(t1)
      PROVE  t1.ref[m] = Cardinality({o \in H \ {x} : IsPrefix(m, h[o])})
  <2> DEFINE A == {o \in H \ {x} : IsPrefix(m, h[o])}
             B == {o \in H : IsPrefix(m, h[o])}
  <2>1. t.ref[m] = Cardinality(B) BY <1>1 DEF Locks
  <2>2. CASE IsPrefix(m, h[x])
    <3>1. B = A \cup {x} BY <2>2
    <3>2. A \subseteq H \ {x} /\ IsFiniteSet(H \ {x}) BY FS_Subset
    <3> HIDE DEF A, B
    <3>3. Cardinality(A) = Cardinality(B) - 1
      <4>1. x \notin H \ {x} OBVIOUS
      <4>2. PICK H1 : H1 = H \ {x} OBVIOUS
      <4>3. IsFiniteSet(H1) /\ x \notin H1 /\ A \subseteq H1 BY <3>2, <4>1, <4>2
      <4>4. QED BY <3>1, <4>3, CountMember
    <3>4. t1.ref[m] = Cardinality(A) BY <1>1, <1>2, <2>1, <2>2, <3>3
    <3>5. QED BY <3>4 DEF A
  <2>3. CASE ~IsPrefix(m, h[x])
    <3>1. B = A BY <2>3
    <3>2. QED BY <1>1, <1>2, <2>1, <2>3, <3>1
  <2>4. QED BY <2>2, <2>3
<1>4. \A o \in H \ {x} : h[o] \in Nodes(t1) \cup {<<>>} BY <1>1 DEF Locks
<1>5. Locks(t1, H \ {x}, h) BY <1>3, <1>4 DEF Locks
<1>6. QED BY <1>1, <1>5 DEF t1

\* Eviction takes nodes nobody holds, children first: what is left is a tree, with
\* everything that a handle reaches.
LEMMA RemoveNodesTree ==
  ASSUME NEW T, NEW t, IsTree(t, T), NEW S, S \subseteq {n \in Nodes(t) : t.ref[n] = 0},
         \A n \in S, m \in Nodes(t) : IsPrefix(n, m) => m \in S
  PROVE  LET t1 == RemoveNodes(t, S)
         IN  /\ IsTree(t1, T) /\ CachedPaths(t1) \subseteq CachedPaths(t)
             /\ Nodes(t1) = Nodes(t) \ S /\ CachedPaths(t1) = CachedPaths(t) \ OwnedBy(t, S)
             /\ \A p \in CachedPaths(t) : p \in CachedPaths(t1) <=> OwnerOf(t, p) \notin S
             /\ \A p \in CachedPaths(t1) : t1.page[p] = t.page[p]
             /\ \A H, h : IsFiniteSet(H) /\ Locks(t, H, h) => Locks(t1, H, h)
<1> DEFINE t1 == RemoveNodes(t, S)
           gone == OwnedBy(t, S)
<1>1. /\ t1 = [page |-> t1.page, ref |-> t1.ref, evictable |-> t1.evictable, protected |-> t1.protected]
      /\ t1.page = [p \in CachedPaths(t) \ gone |-> t.page[p]]
      /\ t1.ref = [n \in Nodes(t) \ S |-> t.ref[n]]
  <2>1. t = [page |-> t.page, ref |-> t.ref, evictable |-> t.evictable, protected |-> t.protected]
    BY DEF IsTree
  <2>2. t1 = [t EXCEPT !.page = [p \in CachedPaths(t) \ gone |-> @[p]],
                       !.ref = [n \in Nodes(t) \ S |-> @[n]],
                       !.evictable = @ - TotalLength(t, S)]
    BY DEF RemoveNodes
  <2> HIDE DEF t1, gone
  <2>3. PICK f, g : f = [p \in CachedPaths(t) \ gone |-> t.page[p]] /\ g = [n \in Nodes(t) \ S |-> t.ref[n]]
    OBVIOUS
  <2>4. t1 = [t EXCEPT !.page = f, !.ref = g, !.evictable = @ - TotalLength(t, S)] BY <2>2, <2>3
  <2>5. QED BY <2>1, <2>3, <2>4
<1> HIDE DEF t1
<1>2. /\ CachedPaths(t1) = CachedPaths(t) \ gone /\ Nodes(t1) = Nodes(t) \ S
      /\ \A p \in CachedPaths(t1) : t1.page[p] = t.page[p]
      /\ \A n \in Nodes(t1) : t1.ref[n] = t.ref[n]
  <2>1. DOMAIN t1.page = CachedPaths(t) \ gone /\ DOMAIN t1.ref = Nodes(t) \ S BY <1>1
  <2>2. QED BY <1>1, <2>1 DEF CachedPaths, Nodes
<1>3. /\ Nodes(t) \subseteq CachedPaths(t) /\ CachedPaths(t) \subseteq Seq(T) \ {<<>>}
      /\ \A p \in CachedPaths(t) : p \in gone <=> OwnerOf(t, p) \in S
  BY DEF IsTree, OwnedBy
<1>4. \A p \in CachedPaths(t) :
        /\ OwnerOf(t, p) \in Nodes(t) /\ IsPrefix(p, OwnerOf(t, p))
        /\ \A n \in Nodes(t) : IsPrefix(p, n) <=> IsPrefix(OwnerOf(t, p), n)
        /\ p \in Nodes(t) => OwnerOf(t, p) = p
  BY OwnerLies
<1> HIDE DEF gone
<1>5. Nodes(t1) \subseteq CachedPaths(t1) BY <1>2, <1>3, <1>4
<1>6. ASSUME NEW p \in CachedPaths(t1)
      PROVE  /\ \A q \in Seq(T) \ {<<>>} : IsPrefix(q, p) => q \in CachedPaths(t1)
             /\ \E n \in Nodes(t1) : IsPrefix(p, n)
  <2>1. p \in CachedPaths(t) /\ OwnerOf(t, p) \in Nodes(t) \ S /\ IsPrefix(p, OwnerOf(t, p))
    BY <1>2, <1>3, <1>4
  <2>2. ASSUME NEW q \in Seq(T) \ {<<>>}, IsPrefix(q, p) PROVE q \in CachedPaths(t1)
    <3>1. q \in CachedPaths(t) BY <2>1, <2>2 DEF IsTree
    <3>2. OwnerOf(t, p) \in Seq(T) /\ p \in Seq(T) BY <1>3, <2>1
    <3>3. IsPrefix(q, OwnerOf(t, p)) BY <2>1, <2>2, <3>2, PrefixOrder
    <3>4. IsPrefix(OwnerOf(t, q), OwnerOf(t, p)) BY <1>4, <2>1, <3>1, <3>3
    <3>5. OwnerOf(t, q) \notin S BY <2>1, <3>4
    <3>6. QED BY <1>2, <1>3, <3>1, <3>5
  <2>3. QED BY <1>2, <2>1, <2>2
<1>7. ASSUME NEW m \in Nodes(t1), NEW n \in Nodes(t1)
      PROVE  \E c \in Nodes(t1) \cup {<<>>} : IsMeet(T, c, m, n)
  <2>1. m \in Nodes(t) /\ n \in Nodes(t) /\ m \notin S BY <1>2
  <2>2. PICK c \in Nodes(t) \cup {<<>>} : IsMeet(T, c, m, n) BY <2>1 DEF IsTree
  <2>3. c \notin S BY <2>1, <2>2 DEF IsMeet
  <2>4. QED BY <1>2, <2>2, <2>3
<1>8. IsTree(t1, T)
  <2>1. CachedPaths(t1) \subseteq Seq(T) \ {<<>>} BY <1>2, <1>3
  <2>2. QED BY <1>1, <1>5, <1>6, <1>7, <2>1 DEF IsTree
<1>9. ASSUME NEW H, NEW h, IsFiniteSet(H), Locks(t, H, h) PROVE Locks(t1, H, h)
  <2>1. ASSUME NEW o \in H PROVE h[o] \in Nodes(t1) \cup {<<>>}
    <3>1. CASE h[o] = <<>> BY <3>1
    <3>2. CASE h[o] # <<>>
      <4>1. h[o] \in Nodes(t) BY <1>9, <3>2 DEF Locks
      <4>2. IsPrefix(h[o], h[o]) BY <1>3, <4>1, PrefixOrder
      <4>3. o \in {x \in H : IsPrefix(h[o], h[x])} BY <4>2
      <4>4. IsFiniteSet({x \in H : IsPrefix(h[o], h[x])}) BY <1>9, FS_Subset
      <4>5. Cardinality({x \in H : IsPrefix(h[o], h[x])}) # 0 BY <4>3, <4>4, FS_EmptySet
      <4>6. t.ref[h[o]] # 0 BY <1>9, <4>1, <4>5 DEF Locks
      <4>7. QED BY <1>2, <4>1, <4>6
    <3>3. QED BY <3>1, <3>2
  <2>2. \A n \in Nodes(t1) : t1.ref[n] = Cardinality({o \in H : IsPrefix(n, h[o])})
    BY <1>2, <1>9 DEF Locks
  <2>3. QED BY <2>1, <2>2 DEF Locks
<1>10. QED BY <1>2, <1>3, <1>8, <1>9 DEF t1, gone

\* The count of a node does not see what else is known of the requests.
LEMMA LocksSame ==
  ASSUME NEW t, NEW H, NEW h, Locks(t, H, h), NEW h1, \A o \in H : h1[o] = h[o]
  PROVE  Locks(t, H, h1)
<1>1. \A n : {o \in H : IsPrefix(n, h1[o])} = {o \in H : IsPrefix(n, h[o])} OBVIOUS
<1>2. QED BY <1>1 DEF Locks

-----------------------------------------------------------------------------
(* The counters of a tree whose handles are h's of the members of H.       *)

\* The cached paths that somebody's prefix goes through.
Reached(t, H, h) == {p \in CachedPaths(t) : \E o \in H : IsPrefix(p, h[o])}

Counted(t, H, h) ==
  /\ IsFiniteSet(CachedPaths(t))
  /\ t.evictable = Cardinality(CachedPaths(t) \ Reached(t, H, h))
  /\ t.protected = Cardinality(Reached(t, H, h))

\* The count of the node that owns a path is the number of those who go through the path.
LEMMA OwnerCounts ==
  ASSUME NEW T, NEW t, IsTree(t, T), NEW H, IsFiniteSet(H), NEW h, Locks(t, H, h),
         NEW p \in CachedPaths(t)
  PROVE  /\ OwnerOf(t, p) \in Nodes(t)
         /\ t.ref[OwnerOf(t, p)] = Cardinality({o \in H : IsPrefix(p, h[o])})
         /\ IsFiniteSet({o \in H : IsPrefix(p, h[o])})
         /\ \A n \in Nodes(t) \cup {<<>>} : IsPrefix(OwnerOf(t, p), n) <=> IsPrefix(p, n)
<1> DEFINE w == OwnerOf(t, p)
<1>1. /\ w \in Nodes(t) /\ \A n \in Nodes(t) : IsPrefix(p, n) <=> IsPrefix(w, n)
  BY OwnerLies
<1> HIDE DEF w
<1>2. p \in Seq(T) \ {<<>>} /\ w \in Seq(T) \ {<<>>} BY <1>1 DEF IsTree
<1>3. ~IsPrefix(p, <<>>) /\ ~IsPrefix(w, <<>>) BY <1>2, NoPrefixOfRoot
<1>4. \A n \in Nodes(t) \cup {<<>>} : IsPrefix(w, n) <=> IsPrefix(p, n) BY <1>1, <1>3
<1>5. {o \in H : IsPrefix(w, h[o])} = {o \in H : IsPrefix(p, h[o])} BY <1>4 DEF Locks
<1>6. t.ref[w] = Cardinality({o \in H : IsPrefix(p, h[o])}) BY <1>1, <1>5 DEF Locks
<1>7. IsFiniteSet({o \in H : IsPrefix(p, h[o])}) BY FS_Subset
<1>8. QED BY <1>1, <1>4, <1>6, <1>7 DEF w

\* Counters that count who goes through a path are those of a traversal.
LEMMA CountedExact ==
  ASSUME NEW T, NEW t, IsTree(t, T), NEW H, IsFiniteSet(H), NEW h, Locks(t, H, h),
         Counted(t, H, h)
  PROVE  ExactCounters(t)
<1>1. ASSUME NEW p \in CachedPaths(t)
      PROVE  /\ OwnerOf(t, p) \in Nodes(t)
             /\ t.ref[OwnerOf(t, p)] = 0 <=> ~\E o \in H : IsPrefix(p, h[o])
             /\ t.ref[OwnerOf(t, p)] > 0 <=> \E o \in H : IsPrefix(p, h[o])
  <2> DEFINE O == {o \in H : IsPrefix(p, h[o])}
  <2>1. OwnerOf(t, p) \in Nodes(t) /\ t.ref[OwnerOf(t, p)] = Cardinality(O) /\ IsFiniteSet(O)
    BY OwnerCounts
  <2>2. O = {} <=> ~\E o \in H : IsPrefix(p, h[o]) OBVIOUS
  <2> HIDE DEF O
  <2>3. (Cardinality(O) = 0 <=> O = {}) /\ Cardinality(O) \in Nat
    BY <2>1, FS_EmptySet, FS_CardinalityType
  <2>4. QED BY <2>1, <2>2, <2>3
<1>2. OwnedBy(t, {n \in Nodes(t) : t.ref[n] = 0}) = CachedPaths(t) \ Reached(t, H, h)
  BY <1>1 DEF OwnedBy, Reached
<1>3. OwnedBy(t, {n \in Nodes(t) : t.ref[n] > 0}) = Reached(t, H, h)
  BY <1>1 DEF OwnedBy, Reached
<1>4. QED BY <1>2, <1>3 DEF Counted, ExactCounters, TotalLength

\* Two sets that share nothing.
LEMMA ApartCount ==
  ASSUME NEW A, IsFiniteSet(A), NEW B, IsFiniteSet(B), A \cap B = {}
  PROVE  Cardinality(A \cup B) = Cardinality(A) + Cardinality(B)
<1>1. Cardinality(A) \in Nat /\ Cardinality(B) \in Nat BY FS_CardinalityType
<1>2. Cardinality(A \cap B) = 0 BY FS_EmptySet
<1>3. Cardinality(A \cup B) = Cardinality(A) + Cardinality(B) - Cardinality(A \cap B) BY FS_Union
<1>4. PICK k : k = Cardinality(A \cap B) OBVIOUS
<1>5. QED BY <1>1, <1>2, <1>3, <1>4

\* C is parted in two ways, S1 having D beside S.
IsMoved(C, S, D, S1) ==
  /\ Cardinality(S1) = Cardinality(S) + Cardinality(D)
  /\ Cardinality(C \ S1) = Cardinality(C \ S) - Cardinality(D)
  /\ Cardinality(S) = Cardinality(S1) - Cardinality(D)
  /\ Cardinality(C \ S) = Cardinality(C \ S1) + Cardinality(D)

LEMMA PartsMoved ==
  ASSUME NEW C, IsFiniteSet(C), NEW S, S \subseteq C, NEW D, D \subseteq C \ S, NEW S1, S1 = S \cup D
  PROVE  IsMoved(C, S, D, S1)
<1>1. PICK E, V : E = C \ S1 /\ V = C \ S OBVIOUS
<1>2. S1 = S \cup D /\ S \cap D = {} /\ V = E \cup D /\ E \cap D = {} BY <1>1
<1>3. IsFiniteSet(S) /\ IsFiniteSet(D) /\ IsFiniteSet(E) BY <1>1, FS_Subset
<1>4. /\ Cardinality(S) \in Nat /\ Cardinality(D) \in Nat /\ Cardinality(E) \in Nat
      /\ Cardinality(S1) = Cardinality(S) + Cardinality(D)
      /\ Cardinality(V) = Cardinality(E) + Cardinality(D)
  BY <1>2, <1>3, FS_CardinalityType, ApartCount
<1>5. /\ Cardinality(S1) - Cardinality(D) = Cardinality(S)
      /\ Cardinality(V) - Cardinality(D) = Cardinality(E)
  BY ONLY <1>4
<1>6. QED BY <1>1, <1>4, <1>5 DEF IsMoved

\* Locking moves what only the new handle reaches from one counter to the other.
LEMMA LockedCount ==
  ASSUME NEW T, NEW t, IsTree(t, T), NEW H, IsFiniteSet(H), NEW h, Locks(t, H, h),
         Counted(t, H, h), NEW x, x \notin H, NEW n \in Nodes(t) \cup {<<>>},
         NEW h1, h1[x] = n, \A o \in H : h1[o] = h[o]
  PROVE  Counted(LockPath(t, n), H \cup {x}, h1)
<1> DEFINE t1    == LockPath(t, n)
           fresh == {m \in PathTo(t, n) : t.ref[m] = 0}
           D     == OwnedBy(t, fresh)
           C     == CachedPaths(t)
           R     == Reached(t, H, h)
           R1    == Reached(t1, H \cup {x}, h1)
<1>1. CachedPaths(t1) = C BY PathChanged
<1>2. /\ t1.evictable = t.evictable - Cardinality(D) /\ t1.protected = t.protected + Cardinality(D)
  <2>1. t1 = [t EXCEPT !.ref = AddRef(t, PathTo(t, n), 1),
                       !.evictable = @ - TotalLength(t, fresh),
                       !.protected = @ + TotalLength(t, fresh)]
    BY DEF LockPath
  <2>2. t = [page |-> t.page, ref |-> t.ref, evictable |-> t.evictable, protected |-> t.protected]
    BY DEF IsTree
  <2> HIDE DEF fresh
  <2>3. PICK f : f = AddRef(t, PathTo(t, n), 1) OBVIOUS
  <2>4. t1 = [t EXCEPT !.ref = f, !.evictable = @ - TotalLength(t, fresh),
                       !.protected = @ + TotalLength(t, fresh)]
    BY <2>1, <2>3
  <2> HIDE DEF t1
  <2>5. QED BY <2>2, <2>4 DEF TotalLength
<1> HIDE DEF t1
<1>3. ASSUME NEW p \in C PROVE p \in D <=> IsPrefix(p, n) /\ ~\E o \in H : IsPrefix(p, h[o])
  <2>0. PICK O : O = {o \in H : IsPrefix(p, h[o])} OBVIOUS
  <2>1. OwnerOf(t, p) \in Nodes(t) /\ t.ref[OwnerOf(t, p)] = Cardinality(O) /\ IsFiniteSet(O)
        /\ (IsPrefix(OwnerOf(t, p), n) <=> IsPrefix(p, n))
    <3>1. n \in Nodes(t) \cup {<<>>} /\ p \in CachedPaths(t) OBVIOUS
    <3> HIDE DEF C, D, R, R1, fresh
    <3>2. QED BY ONLY <2>0, <3>1, IsTree(t, T), IsFiniteSet(H), Locks(t, H, h), OwnerCounts
  <2>2. O = {} <=> ~\E o \in H : IsPrefix(p, h[o]) BY <2>0
  <2>3. Cardinality(O) = 0 <=> O = {} BY <2>1, FS_EmptySet
  <2>4. QED BY <2>1, <2>2, <2>3 DEF OwnedBy, PathTo
<1>4. D \subseteq C BY DEF OwnedBy
<1> HIDE DEF D, C
<1>5. \A p \in C : p \in R <=> \E o \in H : IsPrefix(p, h[o]) BY DEF Reached, C
<1>6. \A p \in C : p \in R1 <=> IsPrefix(p, n) \/ \E o \in H : IsPrefix(p, h[o])
  BY <1>1 DEF Reached
<1>7. R \subseteq C /\ R1 \subseteq C BY <1>1 DEF Reached, C
<1> HIDE DEF R, R1
<1>8. R1 = R \cup D /\ D \subseteq C \ R BY <1>3, <1>4, <1>5, <1>6, <1>7
<1>9. IsFiniteSet(C) /\ t.evictable = Cardinality(C \ R) /\ t.protected = Cardinality(R)
  BY DEF Counted, C, R
<1>10. IsMoved(C, R, D, R1) BY ONLY <1>7, <1>8, <1>9, PartsMoved
<1>11. t1.evictable = Cardinality(C \ R1) /\ t1.protected = Cardinality(R1)
  BY <1>2, <1>9, <1>10 DEF IsMoved
<1>12. QED BY <1>1, <1>9, <1>11 DEF Counted, R1, t1

\* Unlocking moves what nobody else reaches back.
LEMMA UnlockedCount ==
  ASSUME NEW T, NEW t, IsTree(t, T), NEW H, IsFiniteSet(H), NEW h, Locks(t, H, h),
         Counted(t, H, h), NEW x \in H
  PROVE  Counted(UnlockPath(t, h[x]), H \ {x}, h)
<1> DEFINE n     == h[x]
           t1    == UnlockPath(t, n)
           freed == {m \in PathTo(t, n) : t.ref[m] = 1}
           D     == OwnedBy(t, freed)
           C     == CachedPaths(t)
           R     == Reached(t, H, h)
           R1    == Reached(t1, H \ {x}, h)
<1>1. CachedPaths(t1) = C BY PathChanged
<1>2. /\ t1.evictable = t.evictable + Cardinality(D) /\ t1.protected = t.protected - Cardinality(D)
  <2>1. t1 = [t EXCEPT !.ref = AddRef(t, PathTo(t, n), -1),
                       !.evictable = @ + TotalLength(t, freed),
                       !.protected = @ - TotalLength(t, freed)]
    BY DEF UnlockPath
  <2>2. t = [page |-> t.page, ref |-> t.ref, evictable |-> t.evictable, protected |-> t.protected]
    BY DEF IsTree
  <2> HIDE DEF freed
  <2>3. PICK f : f = AddRef(t, PathTo(t, n), -1) OBVIOUS
  <2>4. t1 = [t EXCEPT !.ref = f, !.evictable = @ + TotalLength(t, freed),
                       !.protected = @ - TotalLength(t, freed)]
    BY <2>1, <2>3
  <2> HIDE DEF t1
  <2>5. QED BY <2>2, <2>4 DEF TotalLength
<1> HIDE DEF t1
<1>3. ASSUME NEW p \in C PROVE p \in D <=> IsPrefix(p, n) /\ ~\E o \in H \ {x} : IsPrefix(p, h[o])
  <2>0. PICK O : O = {o \in H : IsPrefix(p, h[o])} OBVIOUS
  <2>1. OwnerOf(t, p) \in Nodes(t) /\ t.ref[OwnerOf(t, p)] = Cardinality(O) /\ IsFiniteSet(O)
        /\ (IsPrefix(OwnerOf(t, p), n) <=> IsPrefix(p, n))
    <3>1. n \in Nodes(t) \cup {<<>>} BY DEF Locks
    <3> HIDE DEF n
    <3>2. QED BY <2>0, <3>1, OwnerCounts
  <2>2. IsPrefix(p, n) => (O = {x} <=> ~\E o \in H \ {x} : IsPrefix(p, h[o])) BY <2>0
  <2>3. IsPrefix(p, n) => x \in O BY <2>0
  <2>4. Cardinality(O) = 1 <=> \E e : O = {e} BY <2>1, FS_Singleton
  <2>5. IsPrefix(p, n) => (Cardinality(O) = 1 <=> O = {x}) BY <2>3, <2>4
  <2>6. QED BY <2>1, <2>2, <2>5 DEF OwnedBy, PathTo
<1>4. D \subseteq C BY DEF OwnedBy
<1> HIDE DEF D, C
<1>5. \A p \in C : p \in R <=> IsPrefix(p, n) \/ \E o \in H \ {x} : IsPrefix(p, h[o])
  BY DEF Reached, C
<1>6. \A p \in C : p \in R1 <=> \E o \in H \ {x} : IsPrefix(p, h[o]) BY <1>1 DEF Reached
<1>7. R \subseteq C /\ R1 \subseteq C BY <1>1 DEF Reached, C
<1> HIDE DEF R, R1
<1>8. R = R1 \cup D /\ D \subseteq C \ R1 BY <1>3, <1>4, <1>5, <1>6, <1>7
<1>9. IsFiniteSet(C) /\ t.evictable = Cardinality(C \ R) /\ t.protected = Cardinality(R)
  BY DEF Counted, C, R
<1>10. IsMoved(C, R1, D, R) BY ONLY <1>7, <1>8, <1>9, PartsMoved
<1>11. t1.evictable = Cardinality(C \ R1) /\ t1.protected = Cardinality(R1)
  BY <1>2, <1>9, <1>10 DEF IsMoved
<1>12. QED BY <1>1, <1>9, <1>11 DEF Counted, R1, t1


\* Walking down counts nothing anew.
LEMMA WalkedCount ==
  ASSUME NEW T, NEW t, NEW key, NEW p, NEW t1, Walked(t, T, key, p, t1),
         NEW H, NEW h, Counted(t, H, h)
  PROVE  Counted(t1, H, h)
<1>1. CachedPaths(t1) = CachedPaths(t) /\ t1.evictable = t.evictable /\ t1.protected = t.protected
  BY DEF Walked
<1>2. Reached(t1, H, h) = Reached(t, H, h) BY <1>1 DEF Reached
<1>3. QED BY <1>1, <1>2 DEF Counted

\* A key has one prefix of every length.
LEMMA PrefixCount ==
  ASSUME NEW T, NEW key \in Seq(T), NEW a \in Nat, a <= Len(key),
         NEW new, new = {q \in Seq(T) : IsPrefix(q, key) /\ Len(q) > a}
  PROVE  IsFiniteSet(new) /\ Cardinality(new) = Len(key) - a
<1>1. PICK b : b = Len(key) OBVIOUS
<1>2. b \in Nat /\ a <= b BY <1>1, LenProperties
<1>3. PICK L : L = a + 1 .. b OBVIOUS
<1>4. IsFiniteSet(L) /\ Cardinality(L) = b - a
  <2>1. a + 1 \in Int /\ b \in Int BY <1>2
  <2>2. IsFiniteSet(L) /\ Cardinality(L) = IF a + 1 > b THEN 0 ELSE b - (a + 1) + 1
    BY <2>1, <1>3, FS_Interval
  <2>3. QED BY <1>2, <2>2
<1>5. PICK f : f = [q \in new |-> Len(q)] OBVIOUS
<1>6. \A q \in new : q \in Seq(T) /\ IsPrefix(q, key) /\ Len(q) \in L
  <2>1. \A q \in new : q \in Seq(T) /\ IsPrefix(q, key) /\ Len(q) > a /\ Len(q) <= b /\ Len(q) \in Nat
    BY <1>1, PrefixOrder
  <2>2. QED BY <2>1, <1>2, <1>3
<1>7. f \in [new -> L] BY <1>5, <1>6
<1>8. ASSUME NEW q \in new, NEW r \in new, f[q] = f[r] PROVE q = r
  <2>1. Len(q) = Len(r) /\ Len(q) \in Nat BY <1>2, <1>3, <1>5, <1>6, <1>8
  <2>2. q \in Seq(T) /\ r \in Seq(T) /\ IsPrefix(q, key) /\ IsPrefix(r, key) BY <1>6
  <2>3. IsPrefix(q, r) BY <2>1, <2>2, PrefixOrder
  <2>4. QED BY <2>1, <2>2, <2>3, PrefixOrder
<1>9. ASSUME NEW k \in L PROVE \E q \in new : f[q] = k
  <2>1. k \in 0 .. Len(key) /\ k > a /\ k \in Nat BY <1>1, <1>2, <1>3
  <2>2. PICK q : q = SubSeq(key, 1, k) OBVIOUS
  <2>3. q \in Prefixes(key) /\ Len(q) = k BY <2>1, <2>2, PrefixMember
  <2>4. q \in Seq(T) /\ IsPrefix(q, key) BY <2>3, PrefixMember
  <2>5. q \in new BY <2>1, <2>3, <2>4
  <2>6. QED BY <1>5, <2>3, <2>5
<1>10. f \in Bijection(new, L) BY <1>7, <1>8, <1>9 DEF Bijection, Injection, Surjection, IsInjective
<1>11. IsFiniteSet(new)
  <2>1. f \in Injection(new, L) BY <1>10 DEF Bijection
  <2>2. QED BY <2>1, <1>4, FS_Injection
<1>12. Cardinality(L) = Cardinality(new)
  <2>1. ExistsBijection(new, L) BY <1>10 DEF ExistsBijection
  <2>2. QED BY <2>1, <1>11, FS_Bijection
<1>13. QED BY <1>1, <1>4, <1>11, <1>12

\* What is inserted below the node found is new, and nobody has locked it.
LEMMA InsertedBelowCount ==
  ASSUME NEW T, NEW t, NEW key \in Seq(T), NEW p, NEW t1, Walked(t, T, key, p, t1), NEW pages,
         NEW H, NEW h, Locks(t1, H, h), Counted(t1, H, h)
  PROVE  Counted(InsertBelow(t1, key, pages, p), H, h)
<1>0. PICK t2 : t2 = InsertBelow(t1, key, pages, p) OBVIOUS
<1>1. PICK new : new = {q \in Prefixes(key) : Len(q) > Len(p)} OBVIOUS
<1>2. /\ IsTree(t1, T) /\ p \in Seq(T) /\ IsPrefix(p, key)
      /\ \A q \in CachedPaths(t1) : IsPrefix(q, key) => IsPrefix(q, p)
  BY DEF Walked
<1>3. new = {q \in Seq(T) : IsPrefix(q, key) /\ Len(q) > Len(p)} BY <1>1, PrefixMember
<1>4. Len(p) \in Nat /\ Len(p) <= Len(key) /\ Len(key) \in Nat BY <1>2, PrefixOrder
<1>5. IsFiniteSet(new) /\ Cardinality(new) = Len(key) - Len(p) BY <1>3, <1>4, PrefixCount
<1>6. t2 = IF new = {} THEN t1
           ELSE [t1 EXCEPT !.page = NewPaths(t1, new, pages), !.ref = NewNode(t1, key, 0),
                           !.evictable = @ + Len(key) - Len(p)]
  BY <1>0, <1>1 DEF InsertBelow
<1>7. CASE new = {} BY <1>0, <1>6, <1>7
<1>8. CASE new # {}
  <2>1. PICK f, g : f = NewPaths(t1, new, pages) /\ g = NewNode(t1, key, 0) OBVIOUS
  <2>2. t2 = [t1 EXCEPT !.page = f, !.ref = g, !.evictable = @ + Len(key) - Len(p)]
    BY <1>6, <1>8, <2>1
  <2>3. t1 = [page |-> t1.page, ref |-> t1.ref, evictable |-> t1.evictable, protected |-> t1.protected]
    BY <1>2 DEF IsTree
  <2>4. t2.page = f /\ t2.protected = t1.protected
        /\ t2.evictable = t1.evictable + Len(key) - Len(p)
    BY <2>2, <2>3
  <2>5. PICK C, R : C = CachedPaths(t1) /\ R = Reached(t1, H, h) OBVIOUS
  <2>6. CachedPaths(t2) = C \cup new BY <2>1, <2>4, <2>5 DEF NewPaths, CachedPaths
  <2>7. ASSUME NEW q \in new PROVE q \notin C /\ ~\E o \in H : IsPrefix(q, h[o])
    <3>1. q \in Seq(T) /\ IsPrefix(q, key) /\ Len(q) > Len(p) /\ Len(q) \in Nat BY <1>3, PrefixOrder
    <3>2. q # <<>>
      <4>1. Len(<<>>) = 0 OBVIOUS
      <4>2. QED BY <4>1, <3>1, <1>4
    <3>3. q \notin C
      <4>1. ASSUME q \in C PROVE FALSE
        <5>1. IsPrefix(q, p) BY <1>2, <2>5, <3>1, <4>1
        <5>2. Len(q) <= Len(p) BY <1>2, <3>1, <5>1, PrefixOrder
        <5>3. QED BY <5>2, <3>1, <1>4
      <4>2. QED BY <4>1
    <3>4. ASSUME NEW o \in H, IsPrefix(q, h[o]) PROVE FALSE
      <4>1. h[o] \in Nodes(t1) \cup {<<>>} BY DEF Locks
      <4>2. ~IsPrefix(q, <<>>) BY <3>1, <3>2, NoPrefixOfRoot
      <4>3. h[o] \in C BY <1>2, <2>5, <3>4, <4>1, <4>2 DEF IsTree
      <4>4. q \in C BY <1>2, <2>5, <3>1, <3>2, <3>4, <4>3 DEF IsTree
      <4>5. QED BY <4>4, <3>3
    <3>5. QED BY <3>3, <3>4
  <2>8. Reached(t2, H, h) = R BY <2>5, <2>6, <2>7 DEF Reached
  <2>9. R \subseteq C /\ IsFiniteSet(C) /\ t1.evictable = Cardinality(C \ R) /\ t1.protected = Cardinality(R)
    BY <2>5 DEF Counted, Reached
  <2>10. PICK E, E1 : E = C \ R /\ E1 = (C \cup new) \ R OBVIOUS
  <2>11. E1 = E \cup new /\ E \cap new = {} BY <2>7, <2>9, <2>10
  <2>12. IsFiniteSet(E) /\ Cardinality(E) \in Nat BY <2>9, <2>10, FS_Subset, FS_CardinalityType
  <2>13. Cardinality(E1) = Cardinality(E) + Cardinality(new) BY <1>5, <2>11, <2>12, ApartCount
  <2>14. t2.evictable = Cardinality(E1)
    <3>1. t1.evictable = Cardinality(E) BY <2>9, <2>10
    <3>2. QED BY <1>4, <1>5, <2>4, <2>12, <2>13, <3>1
  <2>15. IsFiniteSet(C \cup new) BY <1>5, <2>9, FS_Union
  <2>16. Counted(t2, H, h) BY <2>4, <2>6, <2>8, <2>9, <2>10, <2>14, <2>15 DEF Counted
  <2>17. QED BY <2>16, <1>0
<1>9. QED BY <1>7, <1>8

\* Eviction takes its nodes' paths, which nobody reaches, off the evictable ones.
LEMMA RemovedCount ==
  ASSUME NEW T, NEW t, IsTree(t, T), NEW H, IsFiniteSet(H), NEW h, Locks(t, H, h), Counted(t, H, h),
         NEW S, S \subseteq {n \in Nodes(t) : t.ref[n] = 0},
         \A n \in S, m \in Nodes(t) : IsPrefix(n, m) => m \in S
  PROVE  Counted(RemoveNodes(t, S), H, h)
<1>0. PICK t1 : t1 = RemoveNodes(t, S) OBVIOUS
<1>1. PICK C, R, D : C = CachedPaths(t) /\ R = Reached(t, H, h) /\ D = OwnedBy(t, S) OBVIOUS
<1>2. CachedPaths(t1) = C \ D BY <1>0, <1>1, RemoveNodesTree
<1>3. t1.evictable = t.evictable - Cardinality(D) /\ t1.protected = t.protected
  <2>1. PICK f, g : /\ f = [p \in CachedPaths(t) \ OwnedBy(t, S) |-> t.page[p]]
                    /\ g = [n \in Nodes(t) \ S |-> t.ref[n]]
    OBVIOUS
  <2>2. t1 = [t EXCEPT !.page = f, !.ref = g, !.evictable = @ - TotalLength(t, S)]
    BY <1>0, <2>1 DEF RemoveNodes
  <2>3. t = [page |-> t.page, ref |-> t.ref, evictable |-> t.evictable, protected |-> t.protected]
    BY DEF IsTree
  <2>4. t1.evictable = t.evictable - TotalLength(t, S) /\ t1.protected = t.protected BY <2>2, <2>3
  <2>5. QED BY <1>1, <2>4 DEF TotalLength
<1>4. ASSUME NEW p \in D PROVE p \in C /\ p \notin R
  <2>1. p \in CachedPaths(t) /\ OwnerOf(t, p) \in S BY <1>1 DEF OwnedBy
  <2>2. PICK O : O = {o \in H : IsPrefix(p, h[o])} OBVIOUS
  <2>3. t.ref[OwnerOf(t, p)] = Cardinality(O) /\ IsFiniteSet(O) BY <2>1, <2>2, OwnerCounts
  <2>4. t.ref[OwnerOf(t, p)] = 0 BY <2>1
  <2>5. O = {} BY <2>3, <2>4, FS_EmptySet
  <2>6. QED BY <1>1, <2>1, <2>2, <2>5 DEF Reached
<1>5. R \subseteq C /\ IsFiniteSet(C) /\ t.evictable = Cardinality(C \ R) /\ t.protected = Cardinality(R)
  BY <1>1 DEF Counted, Reached
<1>6. Reached(t1, H, h) = R BY <1>1, <1>2, <1>4 DEF Reached
<1>7. D \subseteq C \ R BY <1>4
<1>8. PICK R1 : R1 = R \cup D OBVIOUS
<1>9. IsMoved(C, R, D, R1) BY ONLY <1>5, <1>7, <1>8, PartsMoved
<1>10. (C \ D) \ R = C \ R1 BY <1>8
<1>11. t1.evictable = Cardinality((C \ D) \ R) BY <1>3, <1>5, <1>9, <1>10 DEF IsMoved
<1>12. IsFiniteSet(C \ D) BY <1>5, FS_Subset
<1>13. Counted(t1, H, h) BY <1>2, <1>3, <1>5, <1>6, <1>11, <1>12 DEF Counted
<1>14. QED BY <1>0, <1>13

\* The counters see nothing else either.
LEMMA CountedSame ==
  ASSUME NEW t, NEW H, NEW h, NEW h1, Counted(t, H, h), \A o \in H : h1[o] = h[o]
  PROVE  Counted(t, H, h1)
<1>1. Reached(t, H, h1) = Reached(t, H, h) BY DEF Reached
<1>2. QED BY <1>1 DEF Counted

=============================================================================
