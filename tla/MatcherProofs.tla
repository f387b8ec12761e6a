----------------------------- MODULE MatcherProofs -----------------------------
(***************************************************************************)
(* The one pass over the merged runs, for any number of sources, any       *)
(* domains and any queries.                                                *)
(***************************************************************************)
EXTENDS Matcher, WellFoundedInduction, TLAPS

Strings == Seq(1..3)

-----------------------------------------------------------------------------
(* Numbers. *)

\* A set of numbers has a least one.
LEMMA LeastNumber ==
    ASSUME NEW S \in SUBSET Nat, S # {}
    PROVE  \E x \in S : \A y \in S : x <= y
<1> DEFINE R == {p \in Nat \X Nat : p[1] < p[2]}
<1>1. IsWellFoundedOn(R, Nat)
  BY NatLessThanWellFounded DEF OpToRel
<1>2. PICK x \in S : \A y \in S : ~(<<y, x>> \in R)
  BY <1>1, WFMin
<1>3. ASSUME NEW y \in S
      PROVE  x <= y
  <2>1. <<y, x>> \in Nat \X Nat /\ ~(<<y, x>> \in R)
    BY <1>2
  <2>2. ~(<<y, x>>[1] < <<y, x>>[2])
    BY <2>1
  <2> QED BY <2>2
<1> QED BY <1>3

\* A bounded set of numbers has a greatest one, and that is its Max.
LEMMA MaxIsGreatest ==
    ASSUME NEW n \in Nat, NEW S \in SUBSET (0..n), S # {}
    PROVE  /\ Max(S) \in S
           /\ \A y \in S : y <= Max(S)
<1> DEFINE T == {n - x : x \in S}
<1>1. T \in SUBSET Nat /\ T # {}
  <2>1. ASSUME NEW x \in S PROVE n - x \in Nat
    OBVIOUS
  <2> QED BY <2>1
<1>2. PICK t \in T : \A u \in T : t <= u
  BY <1>1, LeastNumber
<1>3. PICK x \in S : t = n - x
  BY <1>2
<1>4. \A y \in S : x >= y
  BY <1>2, <1>3
<1>5. Max(S) \in S /\ \A y \in S : Max(S) >= y
  BY <1>4 DEF Max
<1> QED BY <1>5

-----------------------------------------------------------------------------
(* Strings: prefixes, and the order of bytes.Compare. *)

\* A prefix, byte by byte.
LEMMA PrefixBytes ==
    ASSUME NEW s \in Strings, NEW t \in Strings
    PROVE  IsPrefix(s, t) <=> Len(s) <= Len(t) /\ \A n \in 1..Len(s) : s[n] = t[n]
<1>1. SubSeq(s, 1, Len(s)) = s
  BY DEF Strings
<1>2. ASSUME Len(s) <= Len(t)
      PROVE  /\ SubSeq(t, 1, Len(s)) \in Strings
             /\ Len(SubSeq(t, 1, Len(s))) = Len(s)
             /\ \A n \in 1..Len(s) : SubSeq(t, 1, Len(s))[n] = t[n]
  BY <1>2 DEF Strings
<1>3. ASSUME NEW a \in Strings, NEW b \in Strings, Len(a) = Len(b), \A n \in 1..Len(a) : a[n] = b[n]
      PROVE  a = b
  BY <1>3 DEF Strings
<1>4. ASSUME IsPrefix(s, t)
      PROVE  Len(s) <= Len(t) /\ \A n \in 1..Len(s) : s[n] = t[n]
  BY <1>1, <1>2, <1>4 DEF IsPrefix
<1>5. ASSUME Len(s) <= Len(t), \A n \in 1..Len(s) : s[n] = t[n]
      PROVE  IsPrefix(s, t)
  BY <1>1, <1>2, <1>3, <1>5 DEF IsPrefix
<1> QED BY <1>4, <1>5

\* Two strings with the same bytes are one.
LEMMA SameBytes ==
    ASSUME NEW s \in Strings, NEW t \in Strings, Len(s) = Len(t), \A n \in 1..Len(s) : s[n] = t[n]
    PROVE  s = t
BY DEF Strings

\* A prefix that is not the string itself is shorter.
LEMMA StrictIsShorter ==
    ASSUME NEW s \in Strings, NEW t \in Strings
    PROVE  IsStrictPrefix(s, t) <=> Len(s) < Len(t) /\ \A n \in 1..Len(s) : s[n] = t[n]
<1>1. Len(s) \in Nat /\ Len(t) \in Nat
  BY DEF Strings
<1>2. CASE Len(s) < Len(t)
  BY <1>1, <1>2, PrefixBytes DEF IsStrictPrefix
<1>3. CASE ~(Len(s) < Len(t))
  BY <1>1, <1>3, PrefixBytes, SameBytes DEF IsStrictPrefix
<1> QED BY <1>2, <1>3

\* Two prefixes of one string: the shorter is a prefix of the longer.
LEMMA PrefixesNest ==
    ASSUME NEW s \in Strings, NEW t \in Strings, NEW u \in Strings,
           IsPrefix(s, u), IsPrefix(t, u), Len(s) <= Len(t)
    PROVE  IsPrefix(s, t)
<1>1. Len(s) \in Nat /\ Len(t) \in Nat /\ Len(u) \in Nat
  BY DEF Strings
<1> QED BY <1>1, PrefixBytes

\* A prefix of a prefix.
LEMMA PrefixTransitive ==
    ASSUME NEW s \in Strings, NEW t \in Strings, NEW u \in Strings, IsPrefix(s, t), IsPrefix(t, u)
    PROVE  IsPrefix(s, u)
<1>1. Len(s) \in Nat /\ Len(t) \in Nat /\ Len(u) \in Nat
  BY DEF Strings
<1> QED BY <1>1, PrefixBytes

\* matcher.go:76-80: what bytes.Compare says of two keys, it does not say of them the other way round.
LEMMA BeforeOneWay ==
    ASSUME NEW s \in Strings, NEW t \in Strings, Before(s, t)
    PROVE  ~Before(t, s) /\ s # t
<1>1. /\ Len(s) \in Nat /\ DOMAIN s = 1..Len(s) /\ \A n \in 1..Len(s) : s[n] \in 1..3
      /\ Len(t) \in Nat /\ DOMAIN t = 1..Len(t) /\ \A n \in 1..Len(t) : t[n] \in 1..3
  BY DEF Strings
<1>2. CASE IsStrictPrefix(s, t)
  BY <1>1, <1>2, StrictIsShorter DEF Before
<1>3. CASE ~IsStrictPrefix(s, t)
  <2>1. PICK n \in DOMAIN s \intersect DOMAIN t : s[n] < t[n] /\ \A m \in 1..(n-1) : s[m] = t[m]
    BY <1>3 DEF Before
  <2>2. ~IsStrictPrefix(t, s) /\ s # t
    BY <1>1, <2>1, StrictIsShorter
  <2>3. ASSUME NEW o \in DOMAIN s \intersect DOMAIN t, t[o] < s[o], \A m \in 1..(o-1) : t[m] = s[m]
        PROVE  FALSE
    <3>1. o < n \/ o = n \/ n < o
      BY <1>1
    <3> QED BY <1>1, <2>1, <2>3, <3>1
  <2> QED BY <2>2, <2>3 DEF Before
<1> QED BY <1>2, <1>3

\* matcher.go:95-97: a key that is no prefix of a later key is no prefix of any key after that.
LEMMA PassedForGood ==
    ASSUME NEW p \in Strings, NEW k \in Strings, NEW u \in Strings,
           Before(p, k), ~IsPrefix(p, k), Before(k, u)
    PROVE  ~IsPrefix(p, u)
<1>1. /\ Len(p) \in Nat /\ DOMAIN p = 1..Len(p) /\ \A n \in 1..Len(p) : p[n] \in 1..3
      /\ Len(k) \in Nat /\ DOMAIN k = 1..Len(k) /\ \A n \in 1..Len(k) : k[n] \in 1..3
      /\ Len(u) \in Nat /\ DOMAIN u = 1..Len(u) /\ \A n \in 1..Len(u) : u[n] \in 1..3
  BY DEF Strings
<1>2. SUFFICES ASSUME IsPrefix(p, u) PROVE FALSE
  OBVIOUS
<1>3. PICK n \in DOMAIN p \intersect DOMAIN k : p[n] < k[n] /\ \A m \in 1..(n-1) : p[m] = k[m]
  BY DEF Before, IsStrictPrefix
<1>4. n \in DOMAIN u /\ u[n] < k[n] /\ \A m \in 1..(n-1) : u[m] = k[m]
  <2>1. Len(p) <= Len(u) /\ \A m \in 1..Len(p) : p[m] = u[m]
    BY <1>2, PrefixBytes
  <2>2. n \in 1..Len(p) /\ \A m \in 1..(n-1) : m \in 1..Len(p)
    BY <1>1
  <2> QED BY <1>1, <1>3, <2>1, <2>2
<1>5. Before(u, k)
  BY <1>3, <1>4 DEF Before
<1> QED BY <1>5, BeforeOneWay

\* Two prefixes of one string that are as long as each other.
LEMMA PrefixesEqual ==
    ASSUME NEW s \in Strings, NEW t \in Strings, NEW u \in Strings,
           IsPrefix(s, u), IsPrefix(t, u), Len(s) = Len(t)
    PROVE  s = t
BY PrefixBytes, SameBytes

\* A string cut off anywhere is a prefix of itself.
LEMMA CutOff ==
    ASSUME NEW s \in Strings, NEW n \in 0..Len(s)
    PROVE  /\ SubSeq(s, 1, n) \in Strings
           /\ Len(SubSeq(s, 1, n)) = n
           /\ IsPrefix(SubSeq(s, 1, n), s)
<1>1. /\ SubSeq(s, 1, n) \in Strings
      /\ Len(SubSeq(s, 1, n)) = n
      /\ \A m \in 1..n : SubSeq(s, 1, n)[m] = s[m]
      /\ n <= Len(s)
  BY DEF Strings
<1> QED BY <1>1, PrefixBytes

\* Of two prefixes one is the cut of the string at its length.
LEMMA PrefixIsCut ==
    ASSUME NEW p \in Strings, NEW s \in Strings, IsPrefix(p, s)
    PROVE  Len(p) \in 0..Len(s) /\ p = SubSeq(s, 1, Len(p))
<1>1. Len(p) \in 0..Len(s)
  BY PrefixBytes DEF Strings
<1> QED BY <1>1, CutOff, PrefixesEqual

\* The longest common prefix of two strings.
LEMMA CommonPrefix ==
    ASSUME NEW s \in Strings, NEW t \in Strings
    PROVE  LET l == LongestCommonPrefix({s, t})
           IN  /\ l \in Strings
               /\ IsPrefix(l, s) /\ IsPrefix(l, t)
               /\ \A p \in Strings : IsPrefix(p, s) /\ IsPrefix(p, t) => Len(p) <= Len(l)
<1> DEFINE C == {p \in Strings : IsPrefix(p, s) /\ IsPrefix(p, t)}
<1>1. CommonPrefixes({s, t}) = C
  <2>1. ASSUME NEW u \in {s, t} PROVE Prefixes(u) = {p \in Strings : IsPrefix(p, u)}
    <3>0. u \in Strings
      OBVIOUS
    <3>1. \A n \in 0..Len(u) : SubSeq(u, 1, n) \in Strings /\ IsPrefix(SubSeq(u, 1, n), u)
      BY <3>0, CutOff
    <3>2. \A p \in Strings : IsPrefix(p, u) => Len(p) \in 0..Len(u) /\ p = SubSeq(u, 1, Len(p))
      BY <3>0, PrefixIsCut
    <3> QED BY <3>1, <3>2 DEF Prefixes
  <2>2. CommonPrefixes({s, t}) = {p \in Prefixes(s) \union Prefixes(t) : IsPrefix(p, s) /\ IsPrefix(p, t)}
    BY DEF CommonPrefixes
  <2> QED BY <2>1, <2>2
<1>2. \E l \in C : \A p \in C : Len(p) <= Len(l)
  <2> DEFINE S == {Len(p) : p \in C}
  <2>1. S \in SUBSET (0..Len(s)) /\ Len(s) \in Nat
    BY PrefixIsCut DEF Strings
  <2>2. SubSeq(s, 1, 0) \in C
    <3>1. SubSeq(s, 1, 0) \in Strings /\ Len(SubSeq(s, 1, 0)) = 0 /\ IsPrefix(SubSeq(s, 1, 0), s)
      BY <2>1, CutOff
    <3>2. IsPrefix(SubSeq(s, 1, 0), t)
      <4>1. Len(t) \in Nat
        BY DEF Strings
      <4>2. Len(SubSeq(s, 1, 0)) <= Len(t) /\ \A n \in 1..Len(SubSeq(s, 1, 0)) : SubSeq(s, 1, 0)[n] = t[n]
        BY <3>1, <4>1
      <4> QED BY <3>1, <4>2, PrefixBytes
    <3> QED BY <3>1, <3>2
  <2>3. Max(S) \in S /\ \A n \in S : n <= Max(S)
    <3>1. S # {}
      BY <2>2
    <3> HIDE DEF S
    <3> QED BY <2>1, <3>1, MaxIsGreatest
  <2>4. PICK l \in C : Len(l) = Max(S)
    BY <2>3
  <2> QED BY <2>3, <2>4
<1> DEFINE l == LongestCommonPrefix({s, t})
<1>3. l \in C /\ \A p \in C : Len(p) <= Len(l)
  <2> HIDE DEF C
  <2> QED BY <1>1, <1>2 DEF LongestCommonPrefix
<1> QED BY <1>3

\* A common prefix that no other exceeds is that one.
LEMMA CommonPrefixIs ==
    ASSUME NEW s \in Strings, NEW t \in Strings, NEW l \in Strings, IsPrefix(l, s), IsPrefix(l, t),
           \A p \in Strings : IsPrefix(p, s) /\ IsPrefix(p, t) => Len(p) <= Len(l)
    PROVE  LongestCommonPrefix({s, t}) = l
<1> DEFINE m == LongestCommonPrefix({s, t})
<1>1. /\ m \in Strings
      /\ IsPrefix(m, s) /\ IsPrefix(m, t)
      /\ \A p \in Strings : IsPrefix(p, s) /\ IsPrefix(p, t) => Len(p) <= Len(m)
  BY CommonPrefix
<1>2. Len(m) \in Nat /\ Len(l) \in Nat
  BY <1>1 DEF Strings
<1> HIDE DEF m
<1>3. Len(m) = Len(l)
  <2>1. Len(m) <= Len(l) /\ Len(l) <= Len(m)
    BY <1>1
  <2> QED BY <1>2, <2>1
<1>4. m = l
  BY <1>1, <1>3, PrefixesEqual
<1> QED BY <1>4 DEF m

-----------------------------------------------------------------------------
(* The radix tree: nodes on the way to a key, and an insertion. *)

\* radix.go:60-80: a tree of strings with its root.
Rooted(t) == DOMAIN t \subseteq Strings /\ <<>> \in DOMAIN t

\* Of the nodes on the way to a string one is the last.
LEMMA LongestVisited ==
    ASSUME NEW s \in Strings, NEW P \in SUBSET Strings, P # {}, \A p \in P : IsPrefix(p, s)
    PROVE  Longest(P) \in P /\ \A p \in P : Len(p) <= Len(Longest(P))
<1> DEFINE S == {Len(p) : p \in P}
<1>1. S \in SUBSET (0..Len(s)) /\ Len(s) \in Nat /\ S # {}
  <2>1. \A p \in P : Len(p) \in 0..Len(s)
    BY PrefixIsCut
  <2>2. Len(s) \in Nat
    BY DEF Strings
  <2> QED BY <2>1, <2>2
<1>2. Max(S) \in S /\ \A n \in S : n <= Max(S)
  <2> HIDE DEF S
  <2> QED BY <1>1, MaxIsGreatest
<1>3. PICK l \in P : Len(l) = Max(S)
  BY <1>2
<1>4. \A p \in P : Len(p) <= Len(l)
  BY <1>2, <1>3
<1> QED BY <1>4 DEF Longest

\* radix.go:60-80: the descent towards a string ends at the last node on the way.
LEMMA Descent ==
    ASSUME NEW t, Rooted(t), NEW s \in Strings
    PROVE  LET last == Longest(Visited(t, s))
           IN  /\ last \in DOMAIN t /\ IsPrefix(last, s)
               /\ \A p \in DOMAIN t : IsPrefix(p, s) => Len(p) <= Len(last)
<1>1. /\ Visited(t, s) \in SUBSET Strings
      /\ \A p \in Visited(t, s) : IsPrefix(p, s)
  BY DEF Visited, Rooted
<1>2. <<>> \in Visited(t, s)
  <2>1. Len(s) \in Nat /\ Len(<<>>) = 0 /\ <<>> \in Strings
    BY DEF Strings
  <2>2. IsPrefix(<<>>, s)
    BY <2>1, PrefixBytes
  <2> QED BY <2>2 DEF Visited, Rooted
<1> DEFINE last == Longest(Visited(t, s))
<1>3. last \in Visited(t, s) /\ \A p \in Visited(t, s) : Len(p) <= Len(last)
  BY <1>1, <1>2, LongestVisited
<1> QED BY <1>3 DEF Visited

\* Two strings that go on alike after a common prefix have a longer one.
LEMMA OneByteMore ==
    ASSUME NEW l \in Strings, NEW s \in Strings, NEW t \in Strings,
           IsStrictPrefix(l, s), IsStrictPrefix(l, t), s[Len(l) + 1] = t[Len(l) + 1]
    PROVE  Len(l) < Len(LongestCommonPrefix({s, t}))
<1> DEFINE c == SubSeq(s, 1, Len(l) + 1)
<1>1. Len(l) \in Nat /\ Len(s) \in Nat /\ Len(t) \in Nat
  BY DEF Strings
<1>2. /\ Len(l) < Len(s) /\ Len(l) < Len(t)
      /\ \A n \in 1..Len(l) : l[n] = s[n] /\ l[n] = t[n]
  BY StrictIsShorter
<1>3. c \in Strings /\ Len(c) = Len(l) + 1 /\ IsPrefix(c, s)
  BY <1>1, <1>2, CutOff
<1> HIDE DEF c
<1>4. \A n \in 1..(Len(l) + 1) : c[n] = s[n]
  BY <1>3, PrefixBytes
<1>5. IsPrefix(c, t)
  <2>1. ASSUME NEW n \in 1..(Len(l) + 1) PROVE c[n] = t[n]
    <3>1. CASE n = Len(l) + 1
      BY <1>4, <3>1
    <3>2. CASE n \in 1..Len(l)
      BY <1>2, <1>4, <3>2
    <3> QED BY <1>1, <3>1, <3>2
  <2> QED BY <1>1, <1>2, <1>3, <2>1, PrefixBytes
<1> DEFINE m == LongestCommonPrefix({s, t})
<1>6. m \in Strings /\ Len(c) <= Len(m)
  BY <1>3, <1>5, CommonPrefix
<1>7. Len(m) \in Nat
  BY <1>6 DEF Strings
<1> QED BY <1>1, <1>3, <1>6, <1>7

\* radix.go:66-98: where an edge is split there was no node.
LEMMA ForkIsNew ==
    ASSUME NEW t, Rooted(t), NEW s \in Strings, NEW f \in Forks(t, s)
    PROVE  f \in Strings /\ IsPrefix(f, s) /\ f \notin DOMAIN t
<1> DEFINE last == Longest(Visited(t, s))
<1>1. /\ last \in DOMAIN t /\ IsPrefix(last, s) /\ last \in Strings
      /\ \A p \in DOMAIN t : IsPrefix(p, s) => Len(p) <= Len(last)
  BY Descent DEF Rooted
<1>2. PICK q \in Blocking(t, s) : f = LongestCommonPrefix({q, s})
  BY DEF Forks
<1>3. /\ q \in DOMAIN t /\ q \in Strings /\ IsStrictPrefix(last, q) /\ last # s
      /\ q[Len(last) + 1] = s[Len(last) + 1]
  BY DEF Blocking, Rooted
<1> HIDE DEF last
<1>4. f \in Strings /\ IsPrefix(f, s)
  BY <1>2, <1>3, CommonPrefix
<1>5. Len(last) < Len(f)
  BY <1>1, <1>2, <1>3, OneByteMore DEF IsStrictPrefix
<1>6. Len(last) \in Nat /\ Len(f) \in Nat
  BY <1>1, <1>4 DEF Strings
<1> QED BY <1>1, <1>4, <1>5, <1>6

\* radix.go:60-118: what a node and the new key have in common is a node, old or new.
LEMMA InsertForks ==
    ASSUME NEW t, Rooted(t), OneChildPerByte(t), NEW s \in Strings, NEW p \in DOMAIN t
    PROVE  LongestCommonPrefix({p, s}) \in DOMAIN t \union Forks(t, s)
<1> DEFINE last == Longest(Visited(t, s))
           l == LongestCommonPrefix({p, s})
           below == {q \in DOMAIN t : /\ IsStrictPrefix(last, q) /\ last # s
                                      /\ q[Len(last) + 1] = s[Len(last) + 1]}
<1>1. /\ last \in DOMAIN t /\ IsPrefix(last, s) /\ last \in Strings
      /\ \A q \in DOMAIN t : IsPrefix(q, s) => Len(q) <= Len(last)
  BY Descent DEF Rooted
<1>2. Blocking(t, s) = {q \in below : \A r \in below : Len(q) <= Len(r)}
  BY DEF Blocking
<1>3. p \in Strings /\ DOMAIN t \subseteq Strings
  BY DEF Rooted
<1>4. /\ l \in Strings /\ IsPrefix(l, p) /\ IsPrefix(l, s)
      /\ \A o \in Strings : IsPrefix(o, p) /\ IsPrefix(o, s) => Len(o) <= Len(l)
  BY <1>3, CommonPrefix
<1>5. Len(l) \in Nat /\ Len(last) \in Nat /\ Len(s) \in Nat /\ Len(p) \in Nat
  BY <1>1, <1>3, <1>4 DEF Strings
<1> HIDE DEF last, l
<1>6. CASE Len(l) <= Len(last)
  <2>1. IsPrefix(l, last)
    BY <1>1, <1>4, <1>6, PrefixesNest
  <2>2. ASSUME NEW o \in Strings, IsPrefix(o, p), IsPrefix(o, last) PROVE Len(o) <= Len(l)
    BY <1>1, <1>4, <2>2, PrefixTransitive
  <2>3. LongestCommonPrefix({p, last}) = l
    BY <1>1, <1>3, <1>4, <2>1, <2>2, CommonPrefixIs
  <2>4. l \in DOMAIN t
    BY <1>1, <2>3 DEF OneChildPerByte
  <2> QED BY <2>4 DEF l
<1>7. CASE Len(last) < Len(l)
  <2>1. /\ Len(l) <= Len(s) /\ Len(l) <= Len(p)
        /\ \A n \in 1..Len(l) : l[n] = s[n] /\ l[n] = p[n]
        /\ \A n \in 1..Len(last) : last[n] = s[n]
    BY <1>1, <1>3, <1>4, PrefixBytes
  <2>2. IsStrictPrefix(last, s) /\ IsStrictPrefix(last, p) /\ p[Len(last) + 1] = s[Len(last) + 1]
    <3>1. \A n \in 1..(Len(last) + 1) : n \in 1..Len(l)
      BY <1>5, <1>7
    <3>2. p[Len(last) + 1] = s[Len(last) + 1] /\ \A n \in 1..Len(last) : last[n] = p[n]
      BY <1>5, <2>1, <3>1
    <3> QED BY <1>1, <1>3, <1>5, <1>7, <2>1, <3>2, StrictIsShorter
  <2>3. p \in below
    BY <2>2 DEF IsStrictPrefix
  <2>4. PICK q \in below : \A r \in below : Len(q) <= Len(r)
    <3> DEFINE S == {Len(r) : r \in below}
    <3>1. S \in SUBSET Nat
      BY <1>3 DEF Strings
    <3>2. S # {}
      BY <2>3
    <3> HIDE DEF S
    <3>3. PICK n \in S : \A m \in S : n <= m
      BY <3>1, <3>2, LeastNumber
    <3> QED BY <3>3 DEF S
  <2>5. q \in Blocking(t, s) /\ q \in DOMAIN t /\ q \in Strings /\ IsStrictPrefix(last, q)
        /\ q[Len(last) + 1] = s[Len(last) + 1]
    BY <1>2, <1>3, <2>4
  <2>6. IsPrefix(q, p)
    <3> DEFINE m == LongestCommonPrefix({q, p})
    <3>1. m \in DOMAIN t /\ m \in Strings
      BY <1>3, <2>5 DEF OneChildPerByte
    <3>2. IsPrefix(m, q) /\ IsPrefix(m, p)
      BY <1>3, <2>5, CommonPrefix
    <3>3. Len(last) < Len(m)
      BY <1>1, <1>3, <2>2, <2>5, OneByteMore
    <3> HIDE DEF m
    <3>4. Len(q) \in Nat /\ Len(m) \in Nat
      BY <2>5, <3>1 DEF Strings
    <3>5. IsStrictPrefix(last, m) /\ m[Len(last) + 1] = q[Len(last) + 1]
      <4>1. /\ Len(m) <= Len(q) /\ \A n \in 1..Len(m) : m[n] = q[n]
            /\ \A n \in 1..Len(last) : last[n] = q[n]
        BY <1>1, <2>5, <3>1, <3>2, PrefixBytes DEF IsStrictPrefix
      <4>2. \A n \in 1..(Len(last) + 1) : n \in 1..Len(m)
        BY <1>5, <3>3, <3>4
      <4>3. m[Len(last) + 1] = q[Len(last) + 1] /\ \A n \in 1..Len(last) : last[n] = m[n]
        BY <1>5, <4>1, <4>2
      <4> QED BY <1>1, <3>1, <3>3, <4>3, StrictIsShorter
    <3>6. m \in below
      BY <2>2, <2>5, <3>1, <3>5 DEF IsStrictPrefix
    <3>7. Len(m) <= Len(q)
      BY <2>5, <3>1, <3>2, PrefixBytes
    <3>8. Len(m) = Len(q)
      BY <2>4, <3>4, <3>6, <3>7
    <3>9. IsPrefix(q, q)
      BY <2>5, <3>4, PrefixBytes
    <3>10. m = q
      BY <2>5, <3>1, <3>2, <3>8, <3>9, PrefixesEqual
    <3> QED BY <3>2, <3>10
  <2>7. ~IsPrefix(q, s)
    <3>1. Len(last) < Len(q) /\ Len(q) \in Nat
      BY <1>1, <2>5, StrictIsShorter DEF Strings
    <3> QED BY <1>1, <1>5, <2>5, <3>1
  <2>8. Len(q) \in Nat
    BY <2>5 DEF Strings
  <2>9. IsPrefix(l, q)
    <3>1. CASE Len(q) <= Len(l)
      <4>1. IsPrefix(q, l)
        BY <1>3, <1>4, <2>5, <2>6, <3>1, PrefixesNest
      <4> QED BY <1>4, <2>5, <2>7, <4>1, PrefixTransitive
    <3>2. CASE Len(l) <= Len(q)
      BY <1>3, <1>4, <2>5, <2>6, <3>2, PrefixesNest
    <3> QED BY <1>5, <2>8, <3>1, <3>2
  <2>10. ASSUME NEW o \in Strings, IsPrefix(o, q), IsPrefix(o, s) PROVE Len(o) <= Len(l)
    BY <1>3, <1>4, <2>5, <2>6, <2>10, PrefixTransitive
  <2>11. LongestCommonPrefix({q, s}) = l
    BY <1>4, <2>5, <2>9, <2>10, CommonPrefixIs
  <2>12. l \in Forks(t, s)
    BY <2>5, <2>11 DEF Forks
  <2> QED BY <2>12 DEF l
<1> QED BY <1>5, <1>6, <1>7

\* radix.go:60-118: an insertion leaves no two children of a node that begin alike.
LEMMA InsertDescends ==
    ASSUME NEW t, Rooted(t), OneChildPerByte(t), NEW s \in Strings, NEW value, NEW match
    PROVE  Rooted(insert(t, s, value, match)) /\ OneChildPerByte(insert(t, s, value, match))
<1> DEFINE D == DOMAIN t \union Forks(t, s) \union {s}
<1>1. DOMAIN insert(t, s, value, match) = D
  BY DEF insert
<1>2. ASSUME NEW f \in Forks(t, s) \union {s} PROVE f \in Strings /\ IsPrefix(f, s)
  <2>1. IsPrefix(s, s)
    BY PrefixBytes DEF Strings
  <2> QED BY <2>1, ForkIsNew
<1>3. D \subseteq Strings /\ <<>> \in D
  BY <1>2 DEF Rooted
<1>4. ASSUME NEW x \in DOMAIN t, NEW y \in Forks(t, s) \union {s}
      PROVE  LongestCommonPrefix({x, y}) \in D
  <2> DEFINE l == LongestCommonPrefix({x, s})
  <2>1. x \in Strings /\ y \in Strings /\ IsPrefix(y, s)
    BY <1>2 DEF Rooted
  <2>2. l \in D
    BY InsertForks
  <2>3. /\ l \in Strings /\ IsPrefix(l, x) /\ IsPrefix(l, s)
        /\ \A o \in Strings : IsPrefix(o, x) /\ IsPrefix(o, s) => Len(o) <= Len(l)
    BY <2>1, CommonPrefix
  <2> HIDE DEF l, D
  <2>4. CASE Len(l) <= Len(y)
    <3>1. IsPrefix(l, y)
      BY <2>1, <2>3, <2>4, PrefixesNest
    <3>2. ASSUME NEW o \in Strings, IsPrefix(o, x), IsPrefix(o, y) PROVE Len(o) <= Len(l)
      BY <2>1, <2>3, <3>2, PrefixTransitive
    <3>3. LongestCommonPrefix({x, y}) = l
      BY <2>1, <2>3, <3>1, <3>2, CommonPrefixIs
    <3> QED BY <2>2, <3>3
  <2>5. CASE Len(y) <= Len(l)
    <3>1. IsPrefix(y, l)
      BY <2>1, <2>3, <2>5, PrefixesNest
    <3>2. IsPrefix(y, x)
      BY <2>1, <2>3, <3>1, PrefixTransitive
    <3>3. LongestCommonPrefix({x, y}) = y
      BY <2>1, <3>2, CommonPrefixIs, PrefixBytes
    <3> QED BY <3>3 DEF D
  <2>6. Len(l) \in Nat /\ Len(y) \in Nat
    BY <2>1, <2>3 DEF Strings
  <2> QED BY <2>4, <2>5, <2>6
<1>5. ASSUME NEW x \in Forks(t, s) \union {s}, NEW y \in Forks(t, s) \union {s}, Len(x) <= Len(y)
      PROVE  LongestCommonPrefix({x, y}) = x
  <2>1. x \in Strings /\ y \in Strings /\ IsPrefix(x, y)
    BY <1>2, <1>5, PrefixesNest
  <2>2. IsPrefix(x, x) /\ \A o \in Strings : IsPrefix(o, x) => Len(o) <= Len(x)
    BY <2>1, PrefixBytes DEF Strings
  <2> QED BY <2>1, <2>2, CommonPrefixIs
<1>6. ASSUME NEW x \in D, NEW y \in D PROVE LongestCommonPrefix({x, y}) \in D
  <2>1. {x, y} = {y, x}
    OBVIOUS
  <2>2. CASE x \in DOMAIN t /\ y \in DOMAIN t
    BY <2>2 DEF OneChildPerByte
  <2>3. CASE x \in DOMAIN t /\ y \notin DOMAIN t
    BY <1>4, <2>3
  <2>4. CASE x \notin DOMAIN t /\ y \in DOMAIN t
    BY <1>4, <2>1, <2>4
  <2>5. CASE x \notin DOMAIN t /\ y \notin DOMAIN t
    <3>1. x \in Forks(t, s) \union {s} /\ y \in Forks(t, s) \union {s}
      BY <2>5
    <3>2. Len(x) <= Len(y) \/ Len(y) <= Len(x)
      BY <1>3 DEF Strings
    <3>3. LongestCommonPrefix({x, y}) = x \/ LongestCommonPrefix({y, x}) = y
      BY <1>5, <3>1, <3>2
    <3> QED BY <2>1, <3>3
  <2> QED BY <2>2, <2>3, <2>4, <2>5
<1> HIDE DEF D
<1> QED BY <1>1, <1>3, <1>6 DEF Rooted, OneChildPerByte

-----------------------------------------------------------------------------
(* What the loop of mergeResolve keeps. *)

AllKeys == UNION {RunOf(sources[i]) : i \in Indices}
ReadKeys == AllKeys \ AllUnread

\* The source that wins a key, and what its record becomes.
Owner(key) == Max({i \in Indices : key \in RunOf(sources[i])})
RecordOf(key) == [key |-> key, src |-> Owner(key), mode |-> sources[Owner(key)].mode]

\* A key above it was won by a source of higher index that prunes.
Covered(key) ==
    \E p \in AllKeys : sources[Owner(p)].prune /\ Owner(p) > Owner(key) /\ labelCovers(p, key)

Frame == [key : Keys, src : Indices]
Emission == [key : Keys, src : Indices, mode : {"exact", "prefix"}]

\* TypeOK but for the tree.
RunTypes ==
    /\ sources \in [Indices -> Source]
    /\ \A i \in Indices : unread[i] \subseteq RunOf(sources[i])
    /\ prune \in Seq(Frame)
    /\ emitted \in Seq(Emission)

\* All cursors stand at the same key.
InStep ==
    /\ \A i \in Indices : unread[i] = RunOf(sources[i]) \intersect AllUnread
    /\ \A key \in ReadKeys, other \in AllUnread : Before(key, other)

\* The frames are nested, and each was pushed by the winner of a key.
Nested ==
    /\ \A n \in DOMAIN prune :
          /\ prune[n].key \in ReadKeys
          /\ prune[n].src = Owner(prune[n].key)
          /\ sources[prune[n].src].prune
    /\ \A m, n \in DOMAIN prune : m < n => IsPrefix(prune[m].key, prune[n].key)

\* No prune that an unread key may need has left the stack.
Remembered ==
    \A p \in ReadKeys :
        sources[Owner(p)].prune /\ (\E other \in AllUnread : IsPrefix(p, other)) =>
            \E n \in DOMAIN prune : prune[n].key = p

\* matcher.go:75-121: at each moment the keys emitted are those read that no prune covers.
Exact == Emitted = {RecordOf(key) : key \in {k \in ReadKeys : ~Covered(k)}}

Merge == RunTypes /\ InStep /\ Nested /\ Remembered /\ Exact /\ BuilderAccepts

\* The keys are strings.
LEMMA KeysAreStrings ==
    /\ \A text \in Texts \union Queries : keyOf[text] \in Strings /\ keyOf[text] # <<>>
    /\ Keys \subseteq Strings
    /\ RunTypes => AllKeys \subseteq Keys /\ AllUnread \subseteq AllKeys
<1>1. \A text \in Texts \union Queries : keyOf[text] \in Strings /\ keyOf[text] # <<>>
  BY KeysAssumption DEF Strings
<1>2. Keys \subseteq Strings
  BY <1>1 DEF Keys
<1>3. ASSUME RunTypes
      PROVE  AllKeys \subseteq Keys /\ AllUnread \subseteq AllKeys
  <2>1. ASSUME NEW i \in Indices PROVE RunOf(sources[i]) \subseteq Keys
    <3>1. sources[i].texts \subseteq Texts
      BY <1>3 DEF RunTypes, Source
    <3> QED BY <3>1 DEF RunOf, Keys
  <2> QED BY <1>3, <2>1 DEF RunTypes, AllKeys, AllUnread
<1> QED BY <1>1, <1>2, <1>3

\* matcher.go:87-93: the owner of a key is the last of the sources that list it.
LEMMA OwnerIsLast ==
    ASSUME NEW key \in AllKeys
    PROVE  /\ Owner(key) \in Indices
           /\ key \in RunOf(sources[Owner(key)])
           /\ \A i \in Indices : key \in RunOf(sources[i]) => i <= Owner(key)
<1> DEFINE S == {i \in Indices : key \in RunOf(sources[i])}
<1>1. S \in SUBSET (0..NSources) /\ S # {} /\ NSources \in Nat
  BY MatcherAssumption DEF Indices, AllKeys
<1>2. Max(S) \in S /\ \A i \in S : i <= Max(S)
  BY <1>1, MaxIsGreatest
<1> QED BY <1>2 DEF Owner

\* The cursors that stand at a key are those of all sources that list it.
LEMMA WinnerOwns ==
    ASSUME InStep, NEW key \in AllUnread
    PROVE  Winner(key) = Owner(key)
<1>1. {i \in Indices : key \in unread[i]} = {i \in Indices : key \in RunOf(sources[i])}
  BY DEF InStep
<1> QED BY <1>1 DEF Winner, Owner

\* matcher.go:95-97: the frames left are those on a prefix of the key.
LEMMA PoppedFrames ==
    ASSUME RunTypes, Nested, NEW key \in AllUnread
    PROVE  /\ Popped(key) \in Seq(Frame)
           /\ Len(Popped(key)) <= Len(prune)
           /\ \A n \in 1..Len(Popped(key)) : Popped(key)[n] = prune[n] /\ IsPrefix(prune[n].key, key)
           /\ \A n \in DOMAIN prune : IsPrefix(prune[n].key, key) => n <= Len(Popped(key))
<1> DEFINE S == {n \in DOMAIN prune : IsPrefix(prune[n].key, key)}
           top == Max({0} \union S)
<1>1. Len(prune) \in Nat /\ DOMAIN prune = 1..Len(prune) /\ \A n \in DOMAIN prune : prune[n] \in Frame
  BY DEF RunTypes
<1>2. top \in {0} \union S /\ \A n \in S : n <= top
  <2>1. {0} \union S \in SUBSET (0..Len(prune)) /\ {0} \union S # {}
    BY <1>1
  <2> HIDE DEF S
  <2> QED BY <1>1, <2>1, MaxIsGreatest
<1>3. top \in 0..Len(prune)
  BY <1>1, <1>2
<1>4. /\ SubSeq(prune, 1, top) \in Seq(Frame)
      /\ Len(SubSeq(prune, 1, top)) = top
      /\ \A n \in 1..top : SubSeq(prune, 1, top)[n] = prune[n]
  <2> HIDE DEF top
  <2> QED BY <1>1, <1>3 DEF RunTypes
<1>5. ASSUME NEW n \in 1..top PROVE IsPrefix(prune[n].key, key)
  <2>1. top \in DOMAIN prune /\ n \in DOMAIN prune /\ IsPrefix(prune[top].key, key)
    BY <1>1, <1>2, <1>3
  <2>2. CASE n = top
    BY <2>1, <2>2
  <2>3. CASE n < top
    <3>1. IsPrefix(prune[n].key, prune[top].key)
      BY <2>1, <2>3 DEF Nested
    <3>2. prune[n].key \in Strings /\ prune[top].key \in Strings /\ key \in Strings
      BY <1>1, <2>1, KeysAreStrings DEF Frame
    <3> QED BY <2>1, <3>1, <3>2, PrefixTransitive
  <2> QED BY <1>3, <2>2, <2>3
<1>6. Popped(key) = SubSeq(prune, 1, top)
  BY DEF Popped
<1> HIDE DEF top
<1> QED BY <1>2, <1>3, <1>4, <1>5, <1>6

\* matcher.go:98-104: the stack tells of a key whether some prune covers it.
LEMMA PrunedIsCovered ==
    ASSUME RunTypes, InStep, Nested, Remembered, NEW key \in AllUnread,
           \A other \in AllUnread \ {key} : Before(key, other)
    PROVE  IsPruned(Popped(key), key, Winner(key)) <=> Covered(key)
<1>1. Winner(key) = Owner(key)
  BY WinnerOwns
<1>2. DOMAIN Popped(key) = 1..Len(Popped(key)) /\ Len(Popped(key)) \in Nat /\ DOMAIN prune = 1..Len(prune)
      /\ Len(prune) \in Nat
  BY PoppedFrames DEF RunTypes
<1>3. ASSUME NEW n \in DOMAIN Popped(key), Popped(key)[n].src > Winner(key), labelCovers(Popped(key)[n].key, key)
      PROVE  Covered(key)
  <2>1. n \in DOMAIN prune /\ Popped(key)[n] = prune[n]
    BY <1>2, PoppedFrames
  <2>2. prune[n].key \in AllKeys /\ prune[n].src = Owner(prune[n].key) /\ sources[prune[n].src].prune
    BY <2>1 DEF Nested, ReadKeys
  <2> QED BY <1>1, <1>3, <2>1, <2>2 DEF Covered
<1>4. ASSUME NEW p \in AllKeys, sources[Owner(p)].prune, Owner(p) > Owner(key), labelCovers(p, key)
      PROVE  IsPruned(Popped(key), key, Winner(key))
  <2>1. p \in Strings /\ key \in Strings /\ IsPrefix(p, key) /\ Before(p, key)
    BY <1>4, KeysAreStrings DEF labelCovers, Before, IsStrictPrefix
  <2>2. p \in ReadKeys
    <3>1. p # key /\ ~Before(key, p)
      BY <2>1, BeforeOneWay
    <3> QED BY <3>1 DEF ReadKeys
  <2>3. PICK n \in DOMAIN prune : prune[n].key = p
    BY <1>4, <2>1, <2>2 DEF Remembered
  <2>4. n \in DOMAIN Popped(key) /\ Popped(key)[n] = prune[n]
    BY <1>2, <2>1, <2>3, PoppedFrames
  <2>5. prune[n].src = Owner(p)
    BY <2>3 DEF Nested
  <2> QED BY <1>1, <1>4, <2>3, <2>4, <2>5 DEF IsPruned
<1> QED BY <1>3, <1>4 DEF IsPruned, Covered

\* Nothing is read, nothing emitted.
LEMMA MergeInit == Init => Merge
<1> SUFFICES ASSUME Init PROVE Merge
  OBVIOUS
<1>1. RunTypes
  BY DEF Init, RunTypes
<1>2. AllUnread = AllKeys
  BY DEF Init, AllUnread, AllKeys
<1>3. InStep /\ Nested /\ Remembered
  BY <1>2 DEF Init, InStep, Nested, Remembered, ReadKeys, AllKeys
<1>4. Exact /\ BuilderAccepts
  <2>1. DOMAIN emitted = {} /\ Len(emitted) = 0
    BY DEF Init
  <2> QED BY <1>2, <2>1 DEF Exact, BuilderAccepts, Emitted, ReadKeys
<1> QED BY <1>1, <1>3, <1>4 DEF Merge

\* One round of the loop.
LEMMA MergeStep ==
    ASSUME Merge, NEW key \in AllUnread, Step(key)
    PROVE  Merge'
<1> USE DEF Merge
<1> DEFINE winner == Winner(key)
           frames == Popped(key)
           pushed == [key |-> key, src |-> winner]
           record == [key |-> key, src |-> winner, mode |-> sources[winner].mode]
<1>1. /\ \A other \in AllUnread \ {key} : Before(key, other)
      /\ prune' = IF sources[winner].prune THEN Append(frames, pushed) ELSE frames
      /\ emitted' = IF IsPruned(frames, key, winner) THEN emitted ELSE Append(emitted, record)
      /\ unread' = [i \in Indices |-> unread[i] \ {key}]
      /\ sources' = sources
  BY DEF Step, Emit
<1>2. /\ AllKeys' = AllKeys
      /\ AllUnread' = AllUnread \ {key}
      /\ \A k : Owner(k)' = Owner(k)
  BY <1>1 DEF AllKeys, AllUnread, Owner, RunOf
<1>3. key \in AllKeys /\ key \in Keys /\ key \in Strings /\ ReadKeys' = ReadKeys \union {key}
  BY <1>2, KeysAreStrings DEF ReadKeys
<1>4. winner = Owner(key) /\ winner \in Indices
  BY <1>3, WinnerOwns, OwnerIsLast
<1>5. record = RecordOf(key) /\ record \in Emission /\ pushed \in Frame
  <2>1. sources[winner].mode \in {"exact", "prefix"}
    BY <1>4 DEF RunTypes, Source
  <2> QED BY <1>3, <1>4, <2>1 DEF RecordOf, Emission, Frame
<1>6. /\ frames \in Seq(Frame)
      /\ Len(frames) <= Len(prune)
      /\ \A n \in 1..Len(frames) : frames[n] = prune[n] /\ IsPrefix(prune[n].key, key)
      /\ \A n \in DOMAIN prune : IsPrefix(prune[n].key, key) => n <= Len(frames)
  BY PoppedFrames
<1>7. IsPruned(frames, key, winner) <=> Covered(key)
  BY <1>1, PrunedIsCovered
<1> HIDE DEF winner, frames, pushed, record
<1>8. RunTypes'
  <2>1. prune' \in Seq(Frame)
    BY <1>1, <1>5, <1>6
  <2>2. emitted' \in Seq(Emission)
    BY <1>1, <1>5 DEF RunTypes
  <2>3. \A i \in Indices : unread'[i] \subseteq RunOf(sources'[i])
    BY <1>1 DEF RunTypes
  <2> QED BY <1>1, <2>1, <2>2, <2>3 DEF RunTypes
<1>9. InStep'
  <2>1. \A i \in Indices : unread'[i] = RunOf(sources'[i]) \intersect AllUnread'
    BY <1>1, <1>2 DEF InStep
  <2>2. \A k \in ReadKeys', other \in AllUnread' : Before(k, other)
    BY <1>1, <1>2, <1>3 DEF InStep
  <2> QED BY <2>1, <2>2 DEF InStep
<1>10. /\ Len(frames) \in Nat
       /\ DOMAIN prune = 1..Len(prune) /\ Len(prune) \in Nat
       /\ \A n \in DOMAIN prune' :
             \/ (n \in 1..Len(frames) /\ prune'[n] = prune[n] /\ n \in DOMAIN prune)
             \/ (n = Len(frames) + 1 /\ prune'[n] = pushed /\ sources[winner].prune)
       /\ \A n \in 1..Len(frames) : n \in DOMAIN prune' /\ prune'[n] = prune[n]
       /\ sources[winner].prune => Len(frames) + 1 \in DOMAIN prune' /\ prune'[Len(frames) + 1] = pushed
  <2>1. Len(frames) \in Nat /\ DOMAIN frames = 1..Len(frames) /\ DOMAIN prune = 1..Len(prune) /\ Len(prune) \in Nat
    BY <1>6 DEF RunTypes
  <2>2. CASE sources[winner].prune
    <3>1. /\ DOMAIN prune' = 1..(Len(frames) + 1)
          /\ \A n \in 1..Len(frames) : prune'[n] = frames[n]
          /\ prune'[Len(frames) + 1] = pushed
      BY <1>1, <1>5, <1>6, <2>2
    <3> QED BY <1>6, <2>1, <2>2, <3>1
  <2>3. CASE ~sources[winner].prune
    BY <1>1, <1>6, <2>1, <2>3
  <2> QED BY <2>2, <2>3
<1>11. pushed.key = key /\ pushed.src = Owner(key)
  BY <1>4 DEF pushed
<1>12. Nested'
  <2>1. ASSUME NEW n \in DOMAIN prune'
        PROVE  /\ prune'[n].key \in ReadKeys'
               /\ prune'[n].src = Owner(prune'[n].key)
               /\ sources[prune'[n].src].prune
    BY <1>3, <1>4, <1>10, <1>11 DEF Nested
  <2>2. ASSUME NEW m \in DOMAIN prune', NEW n \in DOMAIN prune', m < n
        PROVE  IsPrefix(prune'[m].key, prune'[n].key)
    <3>1. m \in 1..Len(frames) /\ prune'[m] = prune[m] /\ m \in DOMAIN prune
      BY <1>10, <2>2
    <3>2. CASE n \in 1..Len(frames)
      BY <1>10, <2>2, <3>1, <3>2 DEF Nested
    <3>3. CASE n = Len(frames) + 1
      <4>1. prune'[n].key = key
        BY <1>10, <1>11, <3>3
      <4> QED BY <1>6, <3>1, <4>1
    <3> QED BY <1>10, <3>2, <3>3
  <2> QED BY <1>1, <1>2, <2>1, <2>2 DEF Nested
<1>13. Remembered'
  <2>1. ASSUME NEW p \in ReadKeys', sources[Owner(p)].prune, NEW other \in AllUnread', IsPrefix(p, other)
        PROVE  \E n \in DOMAIN prune' : prune'[n].key = p
    <3>1. CASE p = key
      BY <1>4, <1>10, <1>11, <2>1, <3>1
    <3>2. CASE p \in ReadKeys
      <4>1. PICK n \in DOMAIN prune : prune[n].key = p
        BY <1>2, <2>1, <3>2 DEF Remembered
      <4>2. IsPrefix(p, key)
        <5>1. p \in Strings /\ other \in Strings
          BY <1>2, <3>2, KeysAreStrings DEF ReadKeys
        <5>2. Before(p, key) /\ Before(key, other)
          BY <1>1, <1>2, <3>2 DEF InStep
        <5> QED BY <1>3, <2>1, <5>1, <5>2, PassedForGood
      <4>3. n \in 1..Len(frames)
        BY <1>6, <1>10, <4>1, <4>2
      <4> QED BY <1>10, <4>1, <4>3
    <3> QED BY <1>3, <3>1, <3>2
  <2> QED BY <1>1, <1>2, <2>1 DEF Remembered
<1>14. /\ Len(emitted) \in Nat /\ DOMAIN emitted = 1..Len(emitted)
       /\ ~Covered(key) => /\ Len(emitted') = Len(emitted) + 1
                           /\ DOMAIN emitted' = 1..(Len(emitted) + 1)
                           /\ \A n \in 1..Len(emitted) : emitted'[n] = emitted[n]
                           /\ emitted'[Len(emitted) + 1] = record
  BY <1>1, <1>5, <1>7 DEF RunTypes
<1>15. Exact'
  <2>1. \A k : RecordOf(k)' = RecordOf(k) /\ (Covered(k)' <=> Covered(k))
    BY <1>1, <1>2 DEF RecordOf, Covered
  <2>2. Emitted' = Emitted \union {r \in {record} : ~Covered(key)}
    <3>1. CASE Covered(key)
      BY <1>1, <1>7, <3>1 DEF Emitted
    <3>2. CASE ~Covered(key)
      BY <1>14, <3>2 DEF Emitted
    <3> QED BY <3>1, <3>2
  <2>3. {RecordOf(k) : k \in {k \in ReadKeys' : ~Covered(k)}}
          = {RecordOf(k) : k \in {k \in ReadKeys : ~Covered(k)}} \union {r \in {record} : ~Covered(key)}
    BY <1>3, <1>5
  <2> QED BY <2>1, <2>2, <2>3 DEF Exact
<1>16. BuilderAccepts'
  <2>1. \A n \in 1..Len(emitted) : Before(emitted[n].key, key)
    <3>1. ASSUME NEW n \in 1..Len(emitted) PROVE emitted[n].key \in ReadKeys
      BY <1>14 DEF Exact, Emitted, RecordOf
    <3> QED BY <3>1 DEF InStep
  <2>2. CASE Covered(key)
    BY <1>1, <1>7, <2>2 DEF BuilderAccepts
  <2>3. CASE ~Covered(key)
    <3>1. record.key = key
      BY DEF record
    <3> QED BY <1>14, <2>1, <2>3, <3>1 DEF BuilderAccepts
  <2> QED BY <2>2, <2>3
<1> QED BY <1>8, <1>9, <1>12, <1>13, <1>15, <1>16

\* radix.go:46-118, matcher.go:153-165: the tree holds what was emitted, and nothing else
\* is a match.
Built ==
    /\ Rooted(tree) /\ OneChildPerByte(tree)
    /\ \A path \in DOMAIN tree :
          /\ tree[path] \in [match : {"none", "exact", "prefix"}, value : Indices \union {0}]
          /\ tree[path].match # "none" => \E e \in Emitted : e.key = path
    /\ \A e \in Emitted : e.key \in DOMAIN tree /\ tree[e.key] = Node(e.mode, e.src)

\* At first there is the root.
LEMMA BuiltInit == Init => Built
<1> SUFFICES ASSUME Init PROVE Built
  OBVIOUS
<1>1. tree = [path \in {<<>>} |-> Node("none", 0)] /\ emitted = <<>>
  BY DEF Init, NewRadix
<1>2. Emitted = {}
  BY <1>1 DEF Emitted
<1>3. <<>> \in Strings /\ Len(<<>>) = 0
  BY DEF Strings
<1>4. LongestCommonPrefix({<<>>, <<>>}) = <<>>
  <2>1. IsPrefix(<<>>, <<>>) /\ \A p \in Strings : IsPrefix(p, <<>>) => Len(p) <= 0
    BY <1>3, PrefixBytes
  <2> QED BY <1>3, <2>1, CommonPrefixIs
<1> QED BY <1>1, <1>2, <1>3, <1>4 DEF Built, Rooted, OneChildPerByte, Node

\* An emission is inserted where nothing was emitted before, and disturbs no other.
LEMMA BuiltStep ==
    ASSUME Merge, Built, NEW key \in AllUnread, Step(key)
    PROVE  Built'
<1> DEFINE winner == Winner(key)
           record == [key |-> key, src |-> winner, mode |-> sources[winner].mode]
<1>1. CASE IsPruned(Popped(key), key, winner)
  <2>1. tree' = tree /\ emitted' = emitted
    BY <1>1 DEF Step
  <2>2. Emitted' = Emitted
    BY <2>1 DEF Emitted
  <2> QED BY <2>1, <2>2 DEF Built
<1>2. CASE ~IsPruned(Popped(key), key, winner)
  <2>1. emitted' = Append(emitted, record) /\ tree' = insert(tree, key, winner, sources[winner].mode)
    BY <1>2 DEF Step, Emit
  <2>2. key \in Strings /\ key \in AllKeys /\ key \notin ReadKeys
    BY KeysAreStrings DEF Merge, ReadKeys
  <2>3. winner \in Indices /\ sources[winner].mode \in {"exact", "prefix"}
    <3>1. winner \in Indices
      BY <2>2, WinnerOwns, OwnerIsLast DEF Merge
    <3> QED BY <3>1 DEF Merge, RunTypes, Source
  <2> HIDE DEF winner
  <2>4. Emitted' = Emitted \union {record}
    <3>1. emitted \in Seq(Emission)
      BY DEF Merge, RunTypes
    <3> HIDE DEF record
    <3>2. /\ DOMAIN emitted = 1..Len(emitted) /\ DOMAIN emitted' = 1..(Len(emitted) + 1) /\ Len(emitted) \in Nat
          /\ \A n \in 1..Len(emitted) : emitted'[n] = emitted[n]
          /\ emitted'[Len(emitted) + 1] = record
      BY <2>1, <3>1
    <3> QED BY <3>2 DEF Emitted
  <2>5. Rooted(tree') /\ OneChildPerByte(tree')
    BY <2>1, <2>2, InsertDescends DEF Built
  <2>6. /\ DOMAIN tree' = DOMAIN tree \union Forks(tree, key) \union {key}
        /\ tree'[key] = Node(record.mode, record.src)
        /\ \A path \in DOMAIN tree' \ {key} :
              tree'[path] = IF path \in Forks(tree, key) THEN Node("none", 0) ELSE tree[path]
    BY <2>1 DEF insert
  <2>7. ASSUME NEW path \in DOMAIN tree'
        PROVE  /\ tree'[path] \in [match : {"none", "exact", "prefix"}, value : Indices \union {0}]
               /\ tree'[path].match # "none" => \E e \in Emitted' : e.key = path
    <3>1. CASE path = key
      <4>1. tree'[path] = [match |-> sources[winner].mode, value |-> winner]
        BY <2>6, <3>1 DEF Node
      <4>2. record \in Emitted' /\ record.key = key
        BY <2>4
      <4> QED BY <2>3, <3>1, <4>1, <4>2
    <3>2. CASE path # key /\ path \in Forks(tree, key)
      BY <2>6, <3>2 DEF Node
    <3>3. CASE path # key /\ path \notin Forks(tree, key)
      BY <2>4, <2>6, <3>3 DEF Built
    <3> QED BY <3>1, <3>2, <3>3
  <2>8. ASSUME NEW e \in Emitted'
        PROVE  e.key \in DOMAIN tree' /\ tree'[e.key] = Node(e.mode, e.src)
    <3>1. CASE e = record
      BY <2>6, <3>1
    <3>2. CASE e \in Emitted
      <4>1. e.key \in DOMAIN tree /\ tree[e.key] = Node(e.mode, e.src)
        BY <3>2 DEF Built
      <4>2. e.key \in ReadKeys
        BY <3>2 DEF Merge, Exact, RecordOf
      <4>3. e.key # key /\ e.key \notin Forks(tree, key)
        BY <2>2, <4>1, <4>2, ForkIsNew DEF Built
      <4> QED BY <2>6, <4>1, <4>3
    <3> QED BY <2>4, <3>1, <3>2
  <2> QED BY <2>5, <2>7, <2>8 DEF Built
<1> QED BY <1>1, <1>2

\* The pass keeps all of it.
LEMMA Invariance == Spec => [](Merge /\ Built)
<1>1. Merge /\ Built /\ [Next]_vars => Merge' /\ Built'
  <2>1. ASSUME Merge, Built, UNCHANGED vars PROVE Merge' /\ Built'
    <3> USE <2>1 DEF vars, Merge
    <3>1. /\ AllKeys' = AllKeys /\ AllUnread' = AllUnread /\ ReadKeys' = ReadKeys /\ Emitted' = Emitted
          /\ \A k : Owner(k)' = Owner(k) /\ RecordOf(k)' = RecordOf(k) /\ (Covered(k)' <=> Covered(k))
      BY DEF AllKeys, ReadKeys, AllUnread, Owner, RecordOf, Covered, Emitted, RunOf
    <3>2. RunTypes' /\ InStep' /\ BuilderAccepts'
      BY <3>1 DEF RunTypes, InStep, BuilderAccepts
    <3>3. Nested' /\ Remembered' /\ Exact'
      BY <3>1 DEF Nested, Remembered, Exact
    <3>4. Built'
      BY <3>1 DEF Built
    <3> QED BY <3>2, <3>3, <3>4
  <2> QED BY <2>1, MergeStep, BuiltStep DEF Next, mergeResolve
<1> QED BY <1>1, MergeInit, BuiltInit, PTL DEF Spec

\* matcher.go:54-165: what the cursors, the stack, the builder and the tree hold.
THEOREM TypeCorrect == Spec => []TypeOK
<1>1. Merge /\ Built => TypeOK
  BY DEF Merge, RunTypes, Built, TypeOK, Frame, Emission
<1> QED BY <1>1, Invariance, PTL

\* matcher.go:75-121, 140: every key is above the one emitted before it, so that the FST
\* builder accepts them all.
THEOREM KeysAscend == Spec => []BuilderAccepts
BY Invariance, PTL DEF Merge

\* matcher.go:75-121: the one pass emits exactly the keys whose owner no pruning owner of
\* higher index covers.
THEOREM OnePassIsExact == Spec => []Exact
BY Invariance, PTL DEF Merge

\* radix.go:46-128: no insertion hides a part of the tree from the lookups.
THEOREM TreeNeverForksTwice == Spec => []TreeDescends
BY Invariance, PTL DEF Built, TreeDescends

-----------------------------------------------------------------------------
(* The two lookups. *)

\* What the FST answers a key with: a key of its own, or a listed one above it that is
\* listed with its subdomains.
Answers(k, key) == k = key \/ (fst[k].mode = "prefix" /\ labelCovers(k, key))

\* matcher.go:129-151: the FST is a function from the keys emitted to their records.
LEMMA FstHolds ==
    ASSUME Merge
    PROVE  /\ DOMAIN fst = {k \in ReadKeys : ~Covered(k)}
           /\ DOMAIN fst \subseteq Strings
           /\ \A k \in DOMAIN fst : fst[k] = RecordOf(k) /\ fst[k] \in Emitted /\ fst[k] \in Emission
           /\ \A e \in Emitted : e.key \in DOMAIN fst /\ fst[e.key] = e
<1>1. Emitted = {RecordOf(k) : k \in {k \in ReadKeys : ~Covered(k)}}
  BY DEF Merge, Exact
<1>2. \A k : RecordOf(k).key = k
  BY DEF RecordOf
<1>3. DOMAIN fst = {k \in ReadKeys : ~Covered(k)}
  BY <1>1, <1>2 DEF fst
<1>4. ASSUME NEW k \in DOMAIN fst PROVE fst[k] = RecordOf(k) /\ fst[k] \in Emitted
  <2>1. fst[k] = CHOOSE e \in Emitted : e.key = k
    BY DEF fst
  <2>2. RecordOf(k) \in Emitted /\ \A e \in Emitted : e.key = k => e = RecordOf(k)
    BY <1>1, <1>2, <1>3
  <2>3. \E e \in Emitted : e.key = k
    BY <1>2, <2>2
  <2> QED BY <2>1, <2>2, <2>3
<1>5. \A e \in Emitted : e \in Emission
  BY DEF Emitted, Merge, RunTypes
<1>6. DOMAIN fst \subseteq Strings
  BY <1>3, KeysAreStrings DEF Merge, ReadKeys
<1>7. \A e \in Emitted : e.key \in DOMAIN fst /\ fst[e.key] = e
  BY <1>1, <1>2, <1>3, <1>4
<1> QED BY <1>3, <1>4, <1>5, <1>6, <1>7

\* matcher.go:28-44: the longest key that answers decides.
LEMMA LookupDecides ==
    ASSUME Merge, NEW domain \in Queries
    PROVE  \/ /\ \A k \in DOMAIN fst : ~Answers(k, keyOf[domain])
              /\ Lookup(domain) = Pass
           \/ \E k \in DOMAIN fst :
                /\ Answers(k, keyOf[domain])
                /\ \A o \in DOMAIN fst : Answers(o, keyOf[domain]) => Len(o) <= Len(k)
                /\ Lookup(domain) = fst[k].src
<1> DEFINE key == keyOf[domain]
<1>1. key \in Strings /\ Len(key) \in Nat /\ DOMAIN key = 1..Len(key)
  BY KeysAreStrings DEF Strings
<1>2. DOMAIN fst \subseteq Strings
  BY FstHolds
<1>3. Lookup(domain) = IF key \in DOMAIN fst THEN fst[key].src
                       ELSE IF Cuts(key) # {} THEN fst[SubSeq(key, 1, Max(Cuts(key)) - 1)].src
                       ELSE Pass
  BY DEF Lookup
<1> HIDE DEF key
<1>4. CASE key \in DOMAIN fst
  <2>1. ASSUME NEW o \in DOMAIN fst, Answers(o, key) PROVE Len(o) <= Len(key)
    <3>1. CASE o = key
      BY <1>1, <3>1
    <3>2. CASE labelCovers(o, key)
      BY <1>1, <1>2, <3>2, StrictIsShorter DEF labelCovers, Strings
    <3> QED BY <2>1, <3>1, <3>2 DEF Answers
  <2> QED BY <1>3, <1>4, <2>1 DEF Answers, key
<1>5. CASE key \notin DOMAIN fst
  <2>1. ASSUME NEW n \in Cuts(key)
        PROVE  /\ n \in 1..Len(key)
               /\ SubSeq(key, 1, n - 1) \in DOMAIN fst
               /\ Len(SubSeq(key, 1, n - 1)) = n - 1
               /\ Answers(SubSeq(key, 1, n - 1), key)
    <3>1. n \in 1..Len(key) /\ n - 1 \in 0..Len(key) /\ key[n] = Dot
          /\ SubSeq(key, 1, n - 1) \in DOMAIN fst /\ fst[SubSeq(key, 1, n - 1)].mode = "prefix"
      BY <1>1 DEF Cuts
    <3>2. /\ SubSeq(key, 1, n - 1) \in Strings
          /\ Len(SubSeq(key, 1, n - 1)) = n - 1
          /\ IsPrefix(SubSeq(key, 1, n - 1), key)
      BY <1>1, <3>1, CutOff
    <3>3. SubSeq(key, 1, n - 1) # key
      BY <1>5, <3>1
    <3>4. (n - 1) + 1 = n
      BY <3>1
    <3> QED BY <3>1, <3>2, <3>3, <3>4 DEF Answers, labelCovers, IsStrictPrefix
  <2>2. ASSUME NEW o \in DOMAIN fst, Answers(o, key)
        PROVE  Len(o) \in Nat /\ Len(o) + 1 \in Cuts(key)
    <3>1. fst[o].mode = "prefix" /\ labelCovers(o, key)
      BY <1>5, <2>2 DEF Answers
    <3>2. o \in Strings /\ Len(o) \in Nat /\ Len(o) < Len(key) /\ o = SubSeq(key, 1, Len(o)) /\ key[Len(o) + 1] = Dot
      BY <1>1, <1>2, <3>1, StrictIsShorter, PrefixIsCut DEF labelCovers, IsStrictPrefix, Strings
    <3>3. Len(o) + 1 \in DOMAIN key /\ (Len(o) + 1) - 1 = Len(o)
      BY <1>1, <3>2
    <3> QED BY <3>1, <3>2, <3>3 DEF Cuts
  <2>3. CASE Cuts(key) = {}
    BY <1>3, <1>5, <2>2, <2>3 DEF key
  <2>4. CASE Cuts(key) # {}
    <3> DEFINE n == Max(Cuts(key))
               k == SubSeq(key, 1, n - 1)
    <3>1. n \in Cuts(key) /\ \A m \in Cuts(key) : m <= n
      <4>1. Cuts(key) \in SUBSET (0..Len(key))
        BY <1>1, <2>1
      <4> QED BY <1>1, <2>4, <4>1, MaxIsGreatest
    <3>2. k \in DOMAIN fst /\ Len(k) = n - 1 /\ Answers(k, key) /\ n \in 1..Len(key)
      BY <2>1, <3>1
    <3>3. Lookup(domain) = fst[k].src
      BY <1>3, <1>5, <2>4
    <3> HIDE DEF n, k
    <3>4. ASSUME NEW o \in DOMAIN fst, Answers(o, key) PROVE Len(o) <= Len(k)
      <4>1. Len(o) \in Nat /\ Len(o) + 1 <= n
        BY <2>2, <3>1, <3>4
      <4> QED BY <1>1, <3>2, <4>1
    <3> QED BY <3>2, <3>3, <3>4 DEF key
  <2> QED BY <2>3, <2>4
<1> QED BY <1>4, <1>5

\* Keys that answer one query and are as long as each other are one.
LEMMA AnswersNest ==
    ASSUME Merge, NEW key \in Strings, NEW k \in DOMAIN fst, NEW o \in DOMAIN fst,
           Answers(k, key), Answers(o, key), Len(k) = Len(o)
    PROVE  k = o
<1>1. k \in Strings /\ o \in Strings
  BY FstHolds
<1>2. IsPrefix(key, key)
  BY PrefixBytes DEF Strings
<1>3. IsPrefix(k, key) /\ IsPrefix(o, key)
  BY <1>2 DEF Answers, labelCovers, IsStrictPrefix
<1> QED BY <1>1, <1>3, PrefixesEqual

\* radix.go:146-193, matcher.go:19-44: both backends decide alike.
LEMMA LookupsAgree ==
    ASSUME Merge, Built, NEW domain \in Queries
    PROVE  LookupRadix(domain) = Lookup(domain)
<1> DEFINE key == keyOf[domain]
           covering == {p \in Visited(tree, key) :
                           tree[p].match = "prefix" /\ (p = key \/ key[Len(p) + 1] = Dot)}
<1>1. key \in Strings
  BY KeysAreStrings
<1>2. LookupRadix(domain) = IF key \in DOMAIN tree /\ tree[key].match = "exact" THEN tree[key].value
                            ELSE IF covering = {} THEN Pass
                            ELSE tree[Longest(covering)].value
  BY DEF LookupRadix, Get
<1>3. ASSUME NEW k \in DOMAIN fst
      PROVE  /\ k \in DOMAIN tree /\ k \in Strings
             /\ tree[k].match = fst[k].mode /\ tree[k].value = fst[k].src
             /\ fst[k].mode \in {"exact", "prefix"}
  <2>1. fst[k] \in Emitted /\ fst[k].key = k /\ k \in Strings /\ fst[k] \in Emission
    BY FstHolds DEF RecordOf
  <2>2. k \in DOMAIN tree /\ tree[k] = Node(fst[k].mode, fst[k].src)
    BY <2>1 DEF Built
  <2> QED BY <2>1, <2>2 DEF Node, Emission
<1>4. \A p \in DOMAIN tree : p \in Strings /\ (tree[p].match \in {"exact", "prefix"} => p \in DOMAIN fst)
  BY FstHolds DEF Built, Rooted
<1> HIDE DEF key
<1>5. CASE key \in DOMAIN tree /\ tree[key].match = "exact"
  <2>1. key \in DOMAIN fst
    BY <1>4, <1>5
  <2>2. Lookup(domain) = fst[key].src
    BY <2>1 DEF Lookup, key
  <2> QED BY <1>2, <1>3, <1>5, <2>1, <2>2
<1>6. CASE ~(key \in DOMAIN tree /\ tree[key].match = "exact")
  <2>0. IsPrefix(key, key)
    BY <1>1, PrefixBytes DEF Strings
  <2>1. covering = {k \in DOMAIN fst : Answers(k, key)}
    <3>1. ASSUME NEW p \in covering PROVE p \in DOMAIN fst /\ Answers(p, key)
      BY <1>3, <1>4 DEF Visited, Answers, labelCovers, IsStrictPrefix
    <3>2. ASSUME NEW k \in DOMAIN fst, Answers(k, key) PROVE k \in covering
      <4>1. CASE k = key
        BY <1>3, <1>6, <2>0, <4>1 DEF Visited
      <4>2. CASE fst[k].mode = "prefix" /\ labelCovers(k, key)
        BY <1>3, <4>2 DEF Visited, labelCovers, IsStrictPrefix
      <4> QED BY <3>2, <4>1, <4>2 DEF Answers
    <3> QED BY <3>1, <3>2
  <2> HIDE DEF covering
  <2>2. CASE covering = {}
    <3>1. Lookup(domain) = Pass
      BY <2>1, <2>2, LookupDecides DEF key
    <3> QED BY <1>2, <1>6, <2>2, <3>1
  <2>3. CASE covering # {}
    <3>1. PICK k \in DOMAIN fst : /\ Answers(k, key)
                                  /\ \A o \in DOMAIN fst : Answers(o, key) => Len(o) <= Len(k)
                                  /\ Lookup(domain) = fst[k].src
      BY <2>1, <2>3, LookupDecides DEF key
    <3>2. covering \in SUBSET Strings /\ \A p \in covering : IsPrefix(p, key)
      BY <1>3, <2>0, <2>1 DEF Answers, labelCovers, IsStrictPrefix
    <3>3. Longest(covering) \in covering /\ \A p \in covering : Len(p) <= Len(Longest(covering))
      BY <1>1, <2>3, <3>2, LongestVisited
    <3>4. Len(k) = Len(Longest(covering))
      <4>1. Len(k) \in Nat /\ Len(Longest(covering)) \in Nat
        BY <1>3, <3>2, <3>3 DEF Strings
      <4>2. Len(k) <= Len(Longest(covering)) /\ Len(Longest(covering)) <= Len(k)
        BY <2>1, <3>1, <3>3
      <4> QED BY <4>1, <4>2
    <3>5. Longest(covering) = k
      BY <1>1, <2>1, <3>1, <3>3, <3>4, AnswersNest
    <3> QED BY <1>2, <1>3, <1>6, <2>3, <3>1, <3>5
  <2> QED BY <2>2, <2>3
<1> QED BY <1>5, <1>6

\* matcher.go:21-44, radix.go:146-193: matcher_backend makes no difference to a client.
THEOREM OneMeaning == Spec => []BackendsAgree
<1>1. Merge /\ Built => BackendsAgree
  BY LookupsAgree DEF BackendsAgree
<1> QED BY <1>1, Invariance, PTL
-----------------------------------------------------------------------------
(* From keys to the texts they stand for. *)

\* source.go:147-157, format.go:86-93: a run holds the keys of what its source lists.
LEMMA RecordsAreKeys ==
    ASSUME Merge
    PROVE  /\ \A r \in Records : /\ r.src \in Indices /\ r.text \in Texts
                                /\ keyOf[r.text] \in RunOf(sources[r.src]) /\ keyOf[r.text] \in AllKeys
           /\ \A i \in Indices : \A k \in RunOf(sources[i]) :
                 \E r \in Records : r.src = i /\ keyOf[r.text] = k
<1>1. ASSUME NEW r \in Records
      PROVE  /\ r.src \in Indices /\ r.text \in Texts
             /\ keyOf[r.text] \in RunOf(sources[r.src]) /\ keyOf[r.text] \in AllKeys
  BY DEF Records, RunOf, AllKeys
<1>2. ASSUME NEW i \in Indices, NEW k \in RunOf(sources[i])
      PROVE  \E r \in Records : r.src = i /\ keyOf[r.text] = k
  <2>1. PICK text \in sources[i].texts : keyOf[text] = k
    BY DEF RunOf
  <2>2. text \in Texts
    BY <2>1 DEF Merge, RunTypes, Source
  <2>3. [src |-> i, text |-> text] \in Records
    BY <2>1, <2>2 DEF Records
  <2> QED BY <2>1, <2>3
<1> QED BY <1>1, <1>2

\* matcher.go:87-93: the winners of a domain are the records of the owner of its key.
LEMMA WinnersOwn ==
    ASSUME Merge, Faithful(keyOf), NEW r \in Records
    PROVE  r \in Winners <=> r.src = Owner(keyOf[r.text])
<1> DEFINE key == keyOf[r.text]
<1>1. /\ r.src \in Indices /\ r.text \in Texts /\ key \in AllKeys
      /\ Owner(key) \in Indices /\ key \in RunOf(sources[Owner(key)]) /\ r.src <= Owner(key)
  BY RecordsAreKeys, OwnerIsLast
<1>2. \A other \in Records : Same(other.text, r.text) <=> keyOf[other.text] = key
  BY <1>1, RecordsAreKeys DEF Faithful, keyOf
<1>3. ASSUME r \in Winners PROVE r.src = Owner(key)
  <2>1. PICK other \in Records : other.src = Owner(key) /\ keyOf[other.text] = key
    BY <1>1, RecordsAreKeys
  <2>2. Owner(key) <= r.src
    BY <1>2, <1>3, <2>1 DEF Winners
  <2> QED BY <1>1, <2>2 DEF Indices
<1>4. ASSUME r.src = Owner(key) PROVE r \in Winners
  <2>1. ASSUME NEW other \in Records, Same(other.text, r.text) PROVE other.src <= r.src
    BY <1>1, <1>2, <1>4, <2>1, RecordsAreKeys, OwnerIsLast
  <2> QED BY <2>1 DEF Winners
<1> QED BY <1>3, <1>4

\* matcher.go:98-104: a winner is cut off when its key is covered.
LEMMA CutIsCovered ==
    ASSUME Merge, Faithful(keyOf), NEW r \in Winners
    PROVE  Cut(r) <=> Covered(keyOf[r.text])
<1>1. r \in Records /\ r.src = Owner(keyOf[r.text]) /\ r.text \in Texts
  BY WinnersOwn, RecordsAreKeys DEF Winners
<1>2. \A p \in Records : Subdomain(r.text, p.text) <=> labelCovers(keyOf[p.text], keyOf[r.text])
  BY <1>1, RecordsAreKeys DEF Faithful, keyOf
<1>3. ASSUME NEW p \in Winners, sources[p.src].prune, p.src > r.src, Subdomain(r.text, p.text)
      PROVE  Covered(keyOf[r.text])
  <2>1. p \in Records /\ p.src = Owner(keyOf[p.text]) /\ keyOf[p.text] \in AllKeys
    BY WinnersOwn, RecordsAreKeys DEF Winners
  <2> QED BY <1>1, <1>2, <1>3, <2>1 DEF Covered
<1>4. ASSUME NEW k \in AllKeys, sources[Owner(k)].prune, Owner(k) > Owner(keyOf[r.text]),
             labelCovers(k, keyOf[r.text])
      PROVE  Cut(r)
  <2>1. PICK p \in Records : p.src = Owner(k) /\ keyOf[p.text] = k
    BY RecordsAreKeys, OwnerIsLast
  <2>2. p \in Winners
    BY <2>1, WinnersOwn
  <2> QED BY <1>1, <1>2, <1>4, <2>1, <2>2 DEF Cut
<1> QED BY <1>3, <1>4 DEF Cut, Covered

\* When the pass is over, the keys of the FST are those of the records kept.
LEMMA FstIsKept ==
    ASSUME Merge, Faithful(keyOf), Done
    PROVE  /\ \A r \in Kept : /\ r \in Records
                             /\ keyOf[r.text] \in DOMAIN fst
                             /\ fst[keyOf[r.text]].src = r.src
                             /\ fst[keyOf[r.text]].mode = sources[r.src].mode
           /\ \A k \in DOMAIN fst : \E r \in Kept : keyOf[r.text] = k
<1>1. ReadKeys = AllKeys
  BY DEF Done, ReadKeys
<1>2. ASSUME NEW r \in Kept
      PROVE  /\ r \in Records
             /\ keyOf[r.text] \in DOMAIN fst
             /\ fst[keyOf[r.text]].src = r.src
             /\ fst[keyOf[r.text]].mode = sources[r.src].mode
  <2>1. r \in Winners /\ r \in Records /\ ~Cut(r)
    BY DEF Kept, Winners
  <2>2. r.src = Owner(keyOf[r.text]) /\ keyOf[r.text] \in AllKeys /\ ~Covered(keyOf[r.text])
    BY <2>1, WinnersOwn, RecordsAreKeys, CutIsCovered
  <2>3. keyOf[r.text] \in DOMAIN fst /\ fst[keyOf[r.text]] = RecordOf(keyOf[r.text])
    BY <1>1, <2>2, FstHolds
  <2> QED BY <2>1, <2>2, <2>3 DEF RecordOf
<1>3. ASSUME NEW k \in DOMAIN fst PROVE \E r \in Kept : keyOf[r.text] = k
  <2>1. k \in AllKeys /\ ~Covered(k)
    BY <1>1, FstHolds
  <2>2. PICK r \in Records : r.src = Owner(k) /\ keyOf[r.text] = k
    BY <2>1, RecordsAreKeys, OwnerIsLast
  <2>3. r \in Winners
    BY <2>2, WinnersOwn
  <2> QED BY <2>1, <2>2, <2>3, CutIsCovered DEF Kept
<1> QED BY <1>2, <1>3

\* A record matches a query when its key answers the key of the query.
LEMMA MatchesAnswers ==
    ASSUME Merge, Faithful(keyOf), Done, NEW r \in Kept, NEW domain \in Queries
    PROVE  Matches(r, domain) <=> Answers(keyOf[r.text], keyOf[domain])
<1>1. r \in Records /\ fst[keyOf[r.text]].mode = sources[r.src].mode /\ r.text \in Texts
  BY FstIsKept, RecordsAreKeys
<1>2. /\ Same(r.text, domain) <=> keyOf[r.text] = keyOf[domain]
      /\ Subdomain(domain, r.text) <=> labelCovers(keyOf[r.text], keyOf[domain])
  BY <1>1 DEF Faithful, keyOf
<1> QED BY <1>1, <1>2 DEF Matches, Answers

\* matcher.go:28-44, 75-121: the lookup in what the pass emitted decides as promised.
LEMMA LookupResolves ==
    ASSUME Merge, Faithful(keyOf), Done, NEW domain \in Queries
    PROVE  Lookup(domain) = Resolve(domain)
<1> DEFINE found == {r \in Kept : Matches(r, domain)}
           key == keyOf[domain]
<1>1. key \in Strings
  BY KeysAreStrings
<1>2. CASE \A k \in DOMAIN fst : ~Answers(k, key)
  <2>1. found = {}
    BY <1>2, FstIsKept, MatchesAnswers
  <2>2. Lookup(domain) = Pass
    BY <1>2, LookupDecides
  <2> QED BY <2>1, <2>2 DEF Resolve
<1>3. CASE \E k \in DOMAIN fst : Answers(k, key)
  <2>1. PICK k \in DOMAIN fst : /\ Answers(k, key)
                                /\ \A o \in DOMAIN fst : Answers(o, key) => Len(o) <= Len(k)
                                /\ Lookup(domain) = fst[k].src
    BY <1>3, LookupDecides
  <2>2. PICK best \in Kept : keyOf[best.text] = k
    BY FstIsKept
  <2>3. best \in found
    BY <2>1, <2>2, MatchesAnswers
  <2>4. ASSUME NEW r \in found
        PROVE  /\ keyOf[r.text] \in DOMAIN fst /\ Answers(keyOf[r.text], key)
               /\ fst[keyOf[r.text]].src = r.src
               /\ Len(Bare(r.text)) = Len(keyOf[r.text])
               /\ Len(keyOf[r.text]) \in Nat
    <3>1. r \in Records /\ keyOf[r.text] \in DOMAIN fst /\ fst[keyOf[r.text]].src = r.src
      BY FstIsKept
    <3>2. r.text \in Texts /\ keyOf[r.text] \in Strings
      BY <3>1, RecordsAreKeys, FstHolds
    <3>3. Len(keyOf[r.text]) = Len(Bare(r.text))
      BY <3>2 DEF Faithful, keyOf
    <3>4. Len(keyOf[r.text]) \in Nat
      BY <3>2 DEF Strings
    <3> QED BY <3>1, <3>3, <3>4, MatchesAnswers
  <2> HIDE DEF found
  <2>5. \A other \in found : Len(Bare(other.text)) <= Len(Bare(best.text))
    BY <2>1, <2>2, <2>3, <2>4
  <2> DEFINE chosen == CHOOSE r \in found : \A other \in found : Len(Bare(other.text)) <= Len(Bare(r.text))
  <2>6. chosen \in found /\ \A other \in found : Len(Bare(other.text)) <= Len(Bare(chosen.text))
    BY <2>3, <2>5
  <2>7. Resolve(domain) = chosen.src
    BY <2>3 DEF Resolve, found
  <2> HIDE DEF chosen
  <2>8. Len(keyOf[chosen.text]) = Len(k)
    <3>1. Len(Bare(best.text)) <= Len(Bare(chosen.text)) /\ Len(Bare(chosen.text)) <= Len(Bare(best.text))
      BY <2>3, <2>5, <2>6
    <3>2. /\ Len(Bare(best.text)) = Len(k) /\ Len(k) \in Nat
          /\ Len(Bare(chosen.text)) = Len(keyOf[chosen.text]) /\ Len(keyOf[chosen.text]) \in Nat
      BY <2>2, <2>3, <2>4, <2>6
    <3> QED BY <3>1, <3>2
  <2>9. keyOf[chosen.text] = k
    BY <1>1, <2>1, <2>4, <2>6, <2>8, AnswersNest
  <2> QED BY <2>1, <2>4, <2>6, <2>7, <2>9
<1> QED BY <1>2, <1>3

\* matcher.go:46-47, README.md:155-158: for all lists, sources and queries the matcher
\* decides as the definition by sets of domains does.
THEOREM MatcherResolves ==
    ASSUME Faithful(keyOf)
    PROVE  Spec => []ResolvesAsPromised
<1>1. Merge => ResolvesAsPromised
  BY LookupResolves DEF ResolvesAsPromised
<1> QED BY <1>1, Invariance, PTL

\* What answers below a record of the last source, when that prunes, is its own.
LEMMA LastOwns ==
    ASSUME Merge, Done, sources[NSources].prune, NEW domain \in Queries,
           NEW k \in RunOf(sources[NSources]), NSources \in Indices,
           k = keyOf[domain] \/ (sources[NSources].mode = "prefix" /\ labelCovers(k, keyOf[domain]))
    PROVE  Lookup(domain) = NSources
<1> DEFINE key == keyOf[domain]
<1>1. key \in Strings
  BY KeysAreStrings
<1>2. k \in AllKeys /\ k \in Strings /\ Owner(k) = NSources
  <2>1. k \in AllKeys
    BY DEF AllKeys
  <2>2. Owner(k) \in Indices /\ NSources <= Owner(k)
    BY <2>1, OwnerIsLast
  <2>3. Owner(k) = NSources
    BY <2>2, MatcherAssumption DEF Indices
  <2> QED BY <2>1, <2>3, KeysAreStrings DEF Merge
<1>3. \A o \in AllKeys : Owner(o) \in Indices /\ ~(Owner(o) > NSources)
  BY OwnerIsLast, MatcherAssumption DEF Indices
<1>4. ReadKeys = AllKeys
  BY DEF Done, ReadKeys
<1>5. k \in DOMAIN fst /\ fst[k].src = NSources /\ fst[k].mode = sources[NSources].mode
  <2>1. ~Covered(k)
    BY <1>2, <1>3 DEF Covered
  <2>2. k \in DOMAIN fst /\ fst[k] = RecordOf(k)
    BY <1>2, <1>4, <2>1, FstHolds
  <2> QED BY <1>2, <2>2 DEF RecordOf
<1>6. Answers(k, key)
  BY <1>5 DEF Answers
<1>7. PICK o \in DOMAIN fst : /\ Answers(o, key)
                              /\ \A p \in DOMAIN fst : Answers(p, key) => Len(p) <= Len(o)
                              /\ Lookup(domain) = fst[o].src
  BY <1>5, <1>6, LookupDecides
<1>8. o \in AllKeys /\ o \in Strings /\ ~Covered(o) /\ fst[o].src = Owner(o)
  BY <1>4, FstHolds DEF RecordOf
<1>9. Len(k) <= Len(o) /\ Len(k) \in Nat /\ Len(o) \in Nat
  BY <1>2, <1>5, <1>6, <1>7, <1>8 DEF Strings
<1>10. k = o \/ labelCovers(k, o)
  <2>1. IsPrefix(key, key)
    BY <1>1, PrefixBytes DEF Strings
  <2>2. IsPrefix(k, key) /\ IsPrefix(o, key)
    BY <1>6, <1>7, <2>1 DEF Answers, labelCovers, IsStrictPrefix
  <2>3. IsPrefix(k, o)
    BY <1>1, <1>2, <1>8, <1>9, <2>2, PrefixesNest
  <2>4. CASE k # o
    <3>1. IsStrictPrefix(k, o) /\ Len(k) < Len(o)
      BY <1>2, <1>8, <2>3, <2>4, StrictIsShorter DEF IsStrictPrefix
    <3>2. Len(o) <= Len(key) /\ \A n \in 1..Len(o) : o[n] = key[n]
      BY <1>1, <1>8, <2>2, PrefixBytes
    <3>3. k # key
      BY <1>9, <3>1, <3>2
    <3>4. key[Len(k) + 1] = Dot
      BY <1>6, <3>3 DEF Answers, labelCovers
    <3>5. o[Len(k) + 1] = Dot
      BY <1>9, <3>1, <3>2, <3>4
    <3> QED BY <3>1, <3>5 DEF labelCovers
  <2> QED BY <2>4
<1>11. Owner(o) = NSources
  <2>1. CASE k = o
    BY <1>2, <2>1
  <2>2. CASE labelCovers(k, o)
    <3>1. ~(NSources > Owner(o))
      BY <1>2, <1>8, <2>2 DEF Covered
    <3> QED BY <1>3, <1>8, <3>1, MatcherAssumption DEF Indices
  <2> QED BY <1>10, <2>1, <2>2
<1> QED BY <1>7, <1>8, <1>11

\* matcher.go:98-104, README.md:160-167: a prune source put last overrides all lists on
\* all that it covers.
THEOREM LastSourceOverrides ==
    ASSUME Faithful(keyOf)
    PROVE  Spec => []LastPruneOverrides
<1>1. ASSUME Merge PROVE LastPruneOverrides
  <2> SUFFICES ASSUME Done, sources[NSources].prune, NEW r \in Records, NEW domain \in Queries,
                      r.src = NSources, Matches(r, domain)
               PROVE  Lookup(domain) = NSources
    BY DEF LastPruneOverrides
  <2>1. r.text \in Texts /\ NSources \in Indices /\ keyOf[r.text] \in RunOf(sources[NSources])
    BY <1>1, RecordsAreKeys
  <2>2. /\ Same(r.text, domain) <=> keyOf[r.text] = keyOf[domain]
        /\ Subdomain(domain, r.text) <=> labelCovers(keyOf[r.text], keyOf[domain])
    BY <2>1 DEF Faithful, keyOf
  <2> QED BY <1>1, <2>1, <2>2, LastOwns DEF Matches
<1> QED BY <1>1, Invariance, PTL

================================================================================
