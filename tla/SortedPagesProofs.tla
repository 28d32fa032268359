-------------------------- MODULE SortedPagesProofs --------------------------
(***************************************************************************)
(* Theorems about sorted search and its pages (SortedPages), for any       *)
(* documents, values, scores and size of a page: what Search returns is    *)
(* in the order asked for, pages of From and Size fit together, and a      *)
(* client that follows NextCursor gets every document that is not written  *)
(* meanwhile exactly once.                                                 *)
(*                                                                         *)
(* The argument.  sortFirstSearch returns the documents of the entries it  *)
(* walked, rearranged where neighbours have the same value, then the       *)
(* documents without an entry; if it stops early, the beginning of that    *)
(* (Layout).  A document with one entry, whose value no other entry has    *)
(* (Single), is in the walk at one place, and the single documents come in *)
(* the order of their values (InTurn); rearranging keeps that              *)
(* (RankedInTurn).  So the list shows the single documents once and in     *)
(* turn (Shows), whatever stale entries are in it, and a page of it a      *)
(* stretch of them (Stretch).                                              *)
(*                                                                         *)
(* The invariant is that a client whose cursor is a clean document has     *)
(* got the clean documents up to it, once, and none behind it (GotInTurn). *)
(***************************************************************************)
EXTENDS SortedPages, SequenceFacts

-----------------------------------------------------------------------------
(* Listing a set in an order.                                              *)

\* A strict and total order of the members.
StrictOrder(S, order) ==
    /\ \A x \in S : <<x, x>> \notin order
    /\ \A x, y \in S : x # y => <<x, y>> \in order \/ <<y, x>> \in order
    /\ \A x, y, z \in S : <<x, y>> \in order /\ <<y, z>> \in order => <<x, z>> \in order

\* How many members come before this one.
Rank(S, order, x) == Cardinality({y \in S : <<y, x>> \in order})

\* Ranks count from 0, and one that comes before another has a lower one.
LEMMA RankFacts ==
    ASSUME NEW S, IsFiniteSet(S), NEW order, StrictOrder(S, order)
    PROVE  /\ Cardinality(S) \in Nat
           /\ \A x \in S : Rank(S, order, x) \in 0..(Cardinality(S) - 1)
           /\ \A x, y \in S : <<x, y>> \in order => Rank(S, order, x) < Rank(S, order, y)
<1> DEFINE below(x) == {y \in S : <<y, x>> \in order}
<1>1. Cardinality(S) \in Nat
  BY FS_CardinalityType
<1>2. \A x \in S : IsFiniteSet(below(x)) /\ Cardinality(below(x)) \in Nat
  <2> SUFFICES ASSUME NEW x \in S
               PROVE  IsFiniteSet(below(x)) /\ Cardinality(below(x)) \in Nat
    OBVIOUS
  <2>1. below(x) \in SUBSET S
    OBVIOUS
  <2>2. IsFiniteSet(below(x))
    BY <2>1, FS_Subset
  <2> QED
    BY <2>2, FS_CardinalityType
<1>3. ASSUME NEW x \in S
      PROVE  Rank(S, order, x) \in 0..(Cardinality(S) - 1)
  <2>1. below(x) \in SUBSET (S \ {x})
    BY DEF StrictOrder
  <2>2. IsFiniteSet(S \ {x}) /\ Cardinality(S \ {x}) = Cardinality(S) - 1
    BY FS_RemoveElement
  <2>3. Cardinality(below(x)) <= Cardinality(S) - 1
    <3>1. Cardinality(below(x)) <= Cardinality(S \ {x})
      BY <2>1, <2>2, FS_Subset
    <3> QED
      BY <2>2, <3>1
  <2> QED
    BY <1>1, <1>2, <2>3 DEF Rank
<1>4. ASSUME NEW x \in S, NEW y \in S, <<x, y>> \in order
      PROVE  Rank(S, order, x) < Rank(S, order, y)
  <2>1. x \notin below(x)
    BY DEF StrictOrder
  <2>2. below(x) \cup {x} \in SUBSET below(y)
    BY <1>4 DEF StrictOrder
  <2>3. Cardinality(below(x) \cup {x}) = Cardinality(below(x)) + 1
    BY <1>2, <2>1, FS_AddElement
  <2>4. Cardinality(below(x) \cup {x}) <= Cardinality(below(y))
    BY <1>2, <2>2, FS_Subset
  <2> HIDE DEF below
  <2>5. Cardinality(below(x)) < Cardinality(below(y))
    BY <1>2, <2>3, <2>4
  <2> QED
    BY <2>5 DEF Rank, below
<1> QED
  BY <1>1, <1>3, <1>4

\* So each rank is somebody's.
LEMMA RankReached ==
    ASSUME NEW S, IsFiniteSet(S), NEW order, StrictOrder(S, order),
           NEW p \in 1..Cardinality(S)
    PROVE  \E x \in S : Rank(S, order, x) = p - 1
<1> DEFINE n == Cardinality(S)
           r == [x \in S |-> Rank(S, order, x) + 1]
<1>1. n \in Nat /\ IsFiniteSet(1..n) /\ Cardinality(1..n) = n
  BY RankFacts, FS_Interval
<1>2. r \in [S -> 1..n]
  BY <1>1, RankFacts
<1>3. ASSUME NEW x \in S, NEW y \in S, r[x] = r[y]
      PROVE  x = y
  <2>1. Rank(S, order, x) = Rank(S, order, y)
    BY <1>1, <1>3, RankFacts
  <2>2. ~ (<<x, y>> \in order) /\ ~ (<<y, x>> \in order)
    BY <2>1, RankFacts
  <2> QED
    BY <2>2 DEF StrictOrder
<1>4. r \in Injection(S, 1..n)
  BY <1>2, <1>3 DEF Injection, IsInjective
<1>5. r \in Surjection(S, 1..n)
  <2> HIDE DEF r, n
  <2>1. Cardinality(S) = Cardinality(1..n)
    BY <1>1 DEF n
  <2> QED
    BY <1>1, <1>4, <2>1, FS_Injection
<1>6. PICK x \in S : r[x] = p
  BY <1>5 DEF Surjection
<1> QED
  BY <1>1, <1>6, RankFacts

\* ListBy lists every member, each once and in the order.
LEMMA ListByFacts ==
    ASSUME NEW S, IsFiniteSet(S), NEW order, StrictOrder(S, order)
    PROVE  /\ Cardinality(S) \in Nat
           /\ ListBy(S, order) \in [1..Cardinality(S) -> S]
           /\ \A x \in S : \E p \in 1..Cardinality(S) : ListBy(S, order)[p] = x
           /\ \A p, q \in 1..Cardinality(S) :
                 p < q => <<ListBy(S, order)[p], ListBy(S, order)[q]>> \in order
<1> DEFINE n == Cardinality(S)
           L == ListBy(S, order)
<1>1. n \in Nat
  BY RankFacts
<1>2. \A p \in 1..n : L[p] \in S /\ Rank(S, order, L[p]) = p - 1
  <2> SUFFICES ASSUME NEW p \in 1..n
               PROVE  L[p] \in S /\ Rank(S, order, L[p]) = p - 1
    OBVIOUS
  <2>1. L[p] = CHOOSE x \in S : Rank(S, order, x) = p - 1
    BY DEF ListBy, Rank
  <2>2. \E x \in S : Rank(S, order, x) = p - 1
    BY RankReached
  <2> HIDE DEF L
  <2> QED
    BY <2>1, <2>2
<1>3. L \in [1..n -> S]
  BY <1>2 DEF ListBy
<1>4. ASSUME NEW x \in S
      PROVE  \E p \in 1..n : L[p] = x
  <2>1. PICK p \in 1..n : Rank(S, order, x) = p - 1
    BY <1>1, RankFacts
  <2>2. L[p] \in S /\ Rank(S, order, L[p]) = Rank(S, order, x)
    BY <1>2, <2>1
  <2>3. ~ (<<x, L[p]>> \in order) /\ ~ (<<L[p], x>> \in order)
    BY <2>2, RankFacts
  <2> QED
    BY <2>2, <2>3 DEF StrictOrder
<1>5. ASSUME NEW p \in 1..n, NEW q \in 1..n, p < q
      PROVE  <<L[p], L[q]>> \in order
  <2>1. /\ L[p] \in S /\ Rank(S, order, L[p]) = p - 1
        /\ L[q] \in S /\ Rank(S, order, L[q]) = q - 1
    BY <1>2
  <2>2. L[p] # L[q]
    BY <1>1, <1>5, <2>1
  <2>3. ~ (<<L[q], L[p]>> \in order)
    BY <1>1, <1>5, <2>1, RankFacts
  <2> QED
    BY <2>1, <2>2, <2>3 DEF StrictOrder
<1> QED
  BY <1>1, <1>3, <1>4, <1>5

-----------------------------------------------------------------------------
(* The walk over the entries.                                              *)

\* Entries of documents in the store.
Shown == {i \in SortValues : stored[entries[i].doc] # NoDoc}

\* The positions of these entries, as the walk comes to them.
At(down) == ListBy(Shown, Direction(down))

\* In the order asked for, positions go up or down.
Further(down, i, j) == IF down THEN i > j ELSE i < j

\* sortedDocIDs comes to each entry shown once, from one end or the other.
LEMMA AtFacts ==
    ASSUME entries \in Seq(Entry), NEW down \in BOOLEAN
    PROVE  \E n \in Nat :
              /\ At(down) \in [1..n -> Shown]
              /\ \A i \in Shown : \E p \in 1..n : At(down)[p] = i
              /\ \A p, q \in 1..n : p < q => Further(down, At(down)[p], At(down)[q])
<1>1. PICK m \in Nat : DOMAIN entries = 1..m
  BY LenProperties
<1>2. Shown \in SUBSET (1..m)
  BY <1>1 DEF Shown, SortValues
<1>3. IsFiniteSet(Shown)
  <2>1. 1 \in Int /\ m \in Int
    OBVIOUS
  <2>2. IsFiniteSet(1..m)
    BY <2>1, FS_Interval
  <2> QED
    BY <1>2, <2>2, FS_Subset
<1>4. \A i, j \in 1..m : <<i, j>> \in Direction(down) <=> Further(down, i, j)
  BY <1>1 DEF Direction, Further
<1>5. \A i, j \in 1..m : i \in Int /\ j \in Int
  BY <1>1
<1>6. StrictOrder(Shown, Direction(down))
  <2>1. \A i \in Shown : ~ (<<i, i>> \in Direction(down))
    BY <1>2, <1>4, <1>5 DEF Further
  <2>2. \A i, j \in Shown : i # j => <<i, j>> \in Direction(down) \/ <<j, i>> \in Direction(down)
    BY <1>2, <1>4, <1>5 DEF Further
  <2>3. \A i, j, k \in Shown : <<i, j>> \in Direction(down) /\ <<j, k>> \in Direction(down)
                               => <<i, k>> \in Direction(down)
    BY <1>2, <1>4, <1>5 DEF Further
  <2> QED
    BY <2>1, <2>2, <2>3 DEF StrictOrder
<1>7. PICK n \in Nat : n = Cardinality(Shown)
  BY <1>3, FS_CardinalityType
<1>8. /\ At(down) \in [1..n -> Shown]
      /\ \A i \in Shown : \E p \in 1..n : At(down)[p] = i
      /\ \A p, q \in 1..n : p < q => <<At(down)[p], At(down)[q]>> \in Direction(down)
  BY <1>3, <1>6, <1>7, ListByFacts DEF At
<1>9. ASSUME NEW p \in 1..n, NEW q \in 1..n, p < q
      PROVE  Further(down, At(down)[p], At(down)[q])
  <2>1. At(down)[p] \in 1..m /\ At(down)[q] \in 1..m
    BY <1>2, <1>8
  <2> QED
    BY <1>4, <1>8, <1>9, <2>1
<1> QED
  BY <1>8, <1>9

\* A limit of 0 is none; another takes the beginning.
LEMMA CutFacts ==
    ASSUME NEW S, NEW s \in Seq(S), NEW limit \in Nat
    PROVE  \E m \in 0..Len(s) :
              /\ Cut(s, limit) \in Seq(S)
              /\ Len(Cut(s, limit)) = m
              /\ \A i \in 1..m : Cut(s, limit)[i] = s[i]
              /\ m = IF limit > 0 /\ Len(s) > limit THEN limit ELSE Len(s)
<1>1. Len(s) \in Nat /\ \A i \in 1..Len(s) : s[i] \in S
  BY LenProperties, ElementOfSeq
<1>2. CASE limit > 0 /\ Len(s) > limit
  <2>1. \A i \in 1..limit : s[i] \in S
    BY <1>1, <1>2
  <2>2. /\ SubSeq(s, 1, limit) \in Seq(S)
        /\ Len(SubSeq(s, 1, limit)) = IF 1 <= limit THEN limit - 1 + 1 ELSE 0
        /\ \A i \in 1..(limit - 1 + 1) : SubSeq(s, 1, limit)[i] = s[1 + i - 1]
    BY <2>1, SubSeqProperties
  <2>3. \A i \in 1..limit : SubSeq(s, 1, limit)[i] = s[i]
    BY <2>2
  <2>4. Cut(s, limit) = SubSeq(s, 1, limit)
    BY <1>2 DEF Cut
  <2> QED
    BY <1>1, <1>2, <2>2, <2>3, <2>4
<1>3. CASE ~ (limit > 0 /\ Len(s) > limit)
  BY <1>1, <1>3 DEF Cut
<1> QED
  BY <1>2, <1>3

\* The walk without a limit: the documents of the entries shown, in order; a limit
\* cuts it.
LEMMA WalkFacts ==
    ASSUME entries \in Seq(Entry), NEW down \in BOOLEAN
    PROVE  /\ Walk(down, 0) \in Seq(Docs)
           /\ DOMAIN Walk(down, 0) = DOMAIN At(down)
           /\ \A p \in DOMAIN At(down) :
                 Walk(down, 0)[p] = entries[At(down)[p]].doc
           /\ \A limit \in Nat : Walk(down, limit) = Cut(Walk(down, 0), limit)
<1> DEFINE W == [p \in DOMAIN At(down) |-> entries[At(down)[p]].doc]
<1>1. PICK n \in Nat : At(down) \in [1..n -> Shown]
  BY AtFacts
<1>2. \A limit : Walk(down, limit) = Cut(W, limit)
  BY DEF Walk, At, Shown
<1>3. \A i \in Shown : entries[i].doc \in Docs
  <2>1. \A i \in DOMAIN entries : entries[i] \in Entry
    BY ElementOfSeq, LenProperties
  <2> QED
    BY <2>1 DEF Shown, SortValues, Entry
<1>4. W \in [1..n -> Docs]
  BY <1>1, <1>3
<1>5. W \in Seq(Docs) /\ DOMAIN W = 1..n
  BY <1>4
<1>6. Walk(down, 0) = W
  <2> HIDE DEF W
  <2>1. Cut(W, 0) = W
    BY DEF Cut
  <2> QED
    BY <1>2, <2>1
<1> QED
  BY <1>1, <1>2, <1>5, <1>6

-----------------------------------------------------------------------------
(* Ranking neighbours with the same value.                                 *)

\* The neighbours of a place with its value are together with each other.
LEMMA TogetherFacts ==
    ASSUME NEW s, DOMAIN s \in SUBSET Int
    PROVE  /\ \A i, j \in DOMAIN s : Together(s, i, j) => Together(s, j, i)
           /\ \A i, j, k \in DOMAIN s :
                 Together(s, i, j) /\ Together(s, j, k) => Together(s, i, k)
           /\ \A i, j, k \in DOMAIN s :
                 Together(s, i, k) /\ ((i <= j /\ j <= k) \/ (k <= j /\ j <= i))
                 => Together(s, i, j)
<1>1. ASSUME NEW i \in DOMAIN s, NEW j \in DOMAIN s, Together(s, i, j)
      PROVE  stored[s[j]] = stored[s[i]]
  BY <1>1 DEF Together
<1>2. ASSUME NEW i \in DOMAIN s, NEW j \in DOMAIN s, Together(s, i, j)
      PROVE  Together(s, j, i)
  <2> SUFFICES ASSUME NEW k \in DOMAIN s, (j <= k /\ k <= i) \/ (i <= k /\ k <= j)
               PROVE  stored[s[k]] = stored[s[j]]
    BY DEF Together
  <2>1. stored[s[k]] = stored[s[i]]
    BY <1>2 DEF Together
  <2> QED
    BY <1>1, <1>2, <2>1
<1>3. ASSUME NEW i \in DOMAIN s, NEW j \in DOMAIN s, NEW k \in DOMAIN s,
             Together(s, i, j), Together(s, j, k)
      PROVE  Together(s, i, k)
  <2> SUFFICES ASSUME NEW l \in DOMAIN s, (i <= l /\ l <= k) \/ (k <= l /\ l <= i)
               PROVE  stored[s[l]] = stored[s[i]]
    BY DEF Together
  <2>1. \/ (i <= l /\ l <= j) \/ (j <= l /\ l <= i)
        \/ (j <= l /\ l <= k) \/ (k <= l /\ l <= j)
    OBVIOUS
  <2>2. CASE (i <= l /\ l <= j) \/ (j <= l /\ l <= i)
    BY <1>3, <2>2 DEF Together
  <2>3. CASE (j <= l /\ l <= k) \/ (k <= l /\ l <= j)
    <3>1. stored[s[l]] = stored[s[j]]
      BY <1>3, <2>3 DEF Together
    <3>2. stored[s[j]] = stored[s[i]]
      BY <1>1, <1>3
    <3> QED
      BY <3>1, <3>2
  <2> QED
    BY <2>1, <2>2, <2>3
<1>4. ASSUME NEW i \in DOMAIN s, NEW j \in DOMAIN s, NEW k \in DOMAIN s,
             Together(s, i, k), (i <= j /\ j <= k) \/ (k <= j /\ j <= i)
      PROVE  Together(s, i, j)
  <2> SUFFICES ASSUME NEW l \in DOMAIN s, (i <= l /\ l <= j) \/ (j <= l /\ l <= i)
               PROVE  stored[s[l]] = stored[s[i]]
    BY DEF Together
  <2>1. (i <= l /\ l <= k) \/ (k <= l /\ l <= i)
    BY <1>4
  <2> QED
    BY <1>4, <2>1 DEF Together
<1> QED
  BY <1>2, <1>3, <1>4

\* The order Ranked sorts by.
Ranking(s) == {p \in (DOMAIN s) \X (DOMAIN s) : Before(s, p[1], p[2])}

\* The scores and places decide between any two places, as the comparison of
\* sort.SliceStable should.
LEMMA RankingStrict ==
    ASSUME NEW s \in Seq(Docs)
    PROVE  StrictOrder(DOMAIN s, Ranking(s))
<1> DEFINE D == DOMAIN s
<1>1. D \in SUBSET Int
  BY LenProperties
<1>2. \A i \in D : Score[s[i]] \in Int /\ s[i] \in Docs
  BY ElementOfSeq, LenProperties, ScoreAssumption
<1>3. \A i, j \in D : <<i, j>> \in Ranking(s) <=> Before(s, i, j)
  BY DEF Ranking
<1>4. \A i \in D : ~ Before(s, i, i)
  BY <1>1, <1>2 DEF Before
<1>5. ASSUME NEW i \in D, NEW j \in D, i # j
      PROVE  Before(s, i, j) \/ Before(s, j, i)
  <2>1. CASE Together(s, i, j)
    <3>1. Together(s, j, i)
      BY <1>1, <2>1, TogetherFacts
    <3>2. s[i] = s[j] \/ Score[s[i]] # Score[s[j]]
      BY <1>2, ScoreAssumption
    <3> QED
      BY <1>1, <1>2, <1>5, <2>1, <3>1, <3>2 DEF Before
  <2>2. CASE ~ Together(s, i, j)
    <3>1. ~ Together(s, j, i)
      BY <1>1, <2>2, TogetherFacts
    <3> QED
      BY <1>1, <1>5, <2>2, <3>1 DEF Before
  <2> QED
    BY <2>1, <2>2
<1>6. ASSUME NEW i \in D, NEW j \in D, NEW k \in D, Before(s, i, j), Before(s, j, k)
      PROVE  Before(s, i, k)
  <2>0. i \in Int /\ j \in Int /\ k \in Int
    BY <1>1
  <2>1. CASE Together(s, i, j) /\ Together(s, j, k)
    <3>1. Together(s, i, k)
      BY <1>1, <2>1, TogetherFacts
    <3>2. Score[s[i]] > Score[s[j]] \/ (s[i] = s[j] /\ i < j)
      BY <1>6, <2>1 DEF Before
    <3>3. Score[s[j]] > Score[s[k]] \/ (s[j] = s[k] /\ j < k)
      BY <1>6, <2>1 DEF Before
    <3>4. Score[s[i]] > Score[s[k]] \/ (s[i] = s[k] /\ i < k)
      BY <1>2, <2>0, <3>2, <3>3
    <3> QED
      BY <3>1, <3>4 DEF Before
  <2>2. CASE Together(s, i, j) /\ ~ Together(s, j, k)
    <3>1. j < k
      BY <1>6, <2>2 DEF Before
    <3>2. ~ Together(s, i, k)
      BY <1>1, <2>2, TogetherFacts
    <3>3. i < k
      <4> SUFFICES ASSUME k <= i
                   PROVE  FALSE
        BY <2>0
      <4>1. Together(s, j, i)
        BY <1>1, <2>2, TogetherFacts
      <4>2. (j <= k /\ k <= i) \/ (i <= k /\ k <= j)
        BY <2>0, <3>1
      <4>3. Together(s, j, k)
        BY <1>1, <4>1, <4>2, TogetherFacts
      <4> QED
        BY <2>2, <4>3
    <3> QED
      BY <3>2, <3>3 DEF Before
  <2>3. CASE ~ Together(s, i, j) /\ Together(s, j, k)
    <3>1. i < j
      BY <1>6, <2>3 DEF Before
    <3>2. ~ Together(s, i, k)
      <4>1. Together(s, k, j)
        BY <1>1, <2>3, TogetherFacts
      <4> QED
        BY <1>1, <2>3, <4>1, TogetherFacts
    <3>3. i < k
      <4> SUFFICES ASSUME k <= i
                   PROVE  FALSE
        BY <2>0
      <4>1. (j <= i /\ i <= k) \/ (k <= i /\ i <= j)
        BY <2>0, <3>1
      <4>2. Together(s, j, i)
        BY <1>1, <2>3, <4>1, TogetherFacts
      <4>3. Together(s, i, j)
        BY <1>1, <4>2, TogetherFacts
      <4> QED
        BY <2>3, <4>3
    <3> QED
      BY <3>2, <3>3 DEF Before
  <2>4. CASE ~ Together(s, i, j) /\ ~ Together(s, j, k)
    <3>1. i < j /\ j < k
      BY <1>6, <2>4 DEF Before
    <3>2. i < k /\ (i <= j /\ j <= k)
      BY <2>0, <3>1
    <3>3. ~ Together(s, i, k)
      BY <1>1, <2>4, <3>2, TogetherFacts
    <3> QED
      BY <3>2, <3>3 DEF Before
  <2> QED
    BY <2>1, <2>2, <2>3, <2>4
<1> HIDE DEF D
<1>7. StrictOrder(D, Ranking(s))
  <2>1. \A i \in D : ~ (<<i, i>> \in Ranking(s))
    BY <1>3, <1>4
  <2>2. \A i, j \in D : i # j => <<i, j>> \in Ranking(s) \/ <<j, i>> \in Ranking(s)
    BY <1>3, <1>5
  <2>3. \A i, j, k \in D : <<i, j>> \in Ranking(s) /\ <<j, k>> \in Ranking(s)
                           => <<i, k>> \in Ranking(s)
    BY <1>3, <1>6
  <2> QED
    BY <2>1, <2>2, <2>3 DEF StrictOrder
<1> QED
  BY <1>7 DEF D

\* Ranked rearranges, and keeps the order of two places that are not together.
Rearranges(g, s, t) ==
    /\ DOMAIN t = DOMAIN s
    /\ g \in [DOMAIN s -> DOMAIN s]
    /\ \A i \in DOMAIN s : \E p \in DOMAIN s : g[p] = i
    /\ \A p \in DOMAIN s : t[p] = s[g[p]]

\* So sort.SliceStable makes one rearrangement of them, and two places whose entries
\* differ in value stay as they were.
LEMMA RankedFacts ==
    ASSUME NEW s \in Seq(Docs)
    PROVE  /\ Ranked(s) \in Seq(Docs) /\ Len(Ranked(s)) = Len(s)
           /\ \E g : /\ Rearranges(g, s, Ranked(s))
                     /\ \A p, q \in DOMAIN s : p < q => Before(s, g[p], g[q])
<1> DEFINE g == ListBy(DOMAIN s, Ranking(s))
<1>1. PICK n \in Nat : n = Len(s) /\ DOMAIN s = 1..n
  BY LenProperties
<1>2. IsFiniteSet(DOMAIN s) /\ Cardinality(DOMAIN s) = n
  <2>1. 1 \in Int /\ n \in Int
    OBVIOUS
  <2>2. IsFiniteSet(1..n) /\ Cardinality(1..n) = IF 1 > n THEN 0 ELSE n - 1 + 1
    BY <2>1, FS_Interval
  <2> QED
    BY <1>1, <2>2
<1>3. /\ g \in [1..n -> DOMAIN s]
      /\ \A i \in DOMAIN s : \E p \in 1..n : g[p] = i
      /\ \A p, q \in 1..n : p < q => <<g[p], g[q]>> \in Ranking(s)
  <2>1. StrictOrder(DOMAIN s, Ranking(s))
    BY RankingStrict
  <2>2. /\ g \in [1..Cardinality(DOMAIN s) -> DOMAIN s]
        /\ \A i \in DOMAIN s : \E p \in 1..Cardinality(DOMAIN s) : g[p] = i
        /\ \A p, q \in 1..Cardinality(DOMAIN s) : p < q => <<g[p], g[q]>> \in Ranking(s)
    BY <1>2, <2>1, ListByFacts
  <2> QED
    BY <1>2, <2>2
<1>4. Ranked(s) = [p \in DOMAIN s |-> s[g[p]]]
  BY DEF Ranked, Ranking
<1> HIDE DEF g
<1>5. \A i \in DOMAIN s : s[i] \in Docs
  BY ElementOfSeq, LenProperties
<1>6. Ranked(s) \in [1..n -> Docs]
  BY <1>1, <1>3, <1>4, <1>5
<1>7. Ranked(s) \in Seq(Docs) /\ Len(Ranked(s)) = n /\ DOMAIN Ranked(s) = 1..n
  BY <1>6
<1>8. Rearranges(g, s, Ranked(s))
  BY <1>1, <1>3, <1>4, <1>7 DEF Rearranges
<1>9. \A p, q \in DOMAIN s : p < q => Before(s, g[p], g[q])
  BY <1>1, <1>3 DEF Ranking
<1> QED
  BY <1>1, <1>7, <1>8, <1>9

-----------------------------------------------------------------------------
(* Documents with one entry.                                               *)

\* Their value is their own.
Single == {d \in Docs : stored[d] \in Values /\ Clean(d, entries)}

\* What the walk needs of the types.
Typed ==
    /\ entries \in Seq(Entry) /\ deleted \subseteq Docs
    /\ \A i \in 1..(Len(entries) - 1) : entries[i].value <= entries[i + 1].value
    /\ stored \in [Docs -> Values \cup {NoValue, NoDoc}]

\* A document with the field is not hidden, and has an entry with the value it has.
Listed ==
    \A d \in Docs : stored[d] \in Values =>
        /\ d \notin deleted
        /\ \E i \in DOMAIN entries : entries[i].doc = d /\ entries[i].value = stored[d]

\* Values do not fall along the sorted entries.
LEMMA Ascending ==
    ASSUME Typed
    PROVE  /\ \A i \in DOMAIN entries : entries[i].doc \in Docs /\ entries[i].value \in Int
           /\ \A i, j \in DOMAIN entries : i < j => entries[i].value <= entries[j].value
<1>1. PICK n \in Nat : n = Len(entries) /\ DOMAIN entries = 1..n
  BY LenProperties DEF Typed
<1>2. \A i \in 1..n : entries[i].doc \in Docs /\ entries[i].value \in Int
  <2>1. \A i \in 1..n : entries[i] \in Entry
    BY <1>1, ElementOfSeq DEF Typed
  <2> QED
    BY <2>1, ValuesAssumption DEF Entry
<1>3. \A i \in 1..(n - 1) : entries[i].value <= entries[i + 1].value
  BY <1>1 DEF Typed
<1>4. ASSUME NEW i \in 1..n
      PROVE  \A j \in 1..n : i < j => entries[i].value <= entries[j].value
  <2> DEFINE Good(m) == i + m <= n => entries[i].value <= entries[i + m].value
             P == {m \in Nat : Good(m)}
  <2>1. Good(0)
    BY <1>2
  <2>2. ASSUME NEW m \in Nat, Good(m)
        PROVE  Good(m + 1)
    <3> SUFFICES ASSUME i + (m + 1) <= n
                 PROVE  entries[i].value <= entries[i + (m + 1)].value
      OBVIOUS
    <3>1. PICK j \in 1..(n - 1) : j = i + m
      OBVIOUS
    <3>2. entries[i].value <= entries[j].value
      BY <2>2, <3>1
    <3>3. i + (m + 1) = j + 1 /\ j \in 1..n /\ j + 1 \in 1..n
      BY <3>1
    <3>4. entries[j].value <= entries[j + 1].value
      BY <1>3
    <3> QED
      BY <1>2, <3>2, <3>3, <3>4
  <2> HIDE DEF Good
  <2>3. Nat \subseteq P
    <3>1. 0 \in P /\ \A m \in Nat : m \in P => m + 1 \in P
      BY <2>1, <2>2
    <3> HIDE DEF P
    <3> QED
      BY <3>1, NaturalInduction
  <2> SUFFICES ASSUME NEW j \in 1..n, i < j
               PROVE  entries[i].value <= entries[j].value
    OBVIOUS
  <2>4. j - i \in Nat /\ i + (j - i) = j /\ j <= n
    OBVIOUS
  <2>5. Good(j - i)
    BY <2>3, <2>4
  <2> QED
    BY <2>4, <2>5 DEF Good
<1> QED
  BY <1>1, <1>2, <1>4

\* The one entry of a single document, and what the walk ranks it by.
LEMMA SingleEntry ==
    ASSUME Typed, Listed, NEW d \in Single
    PROVE  \E i \in Shown :
              /\ entries[i].doc = d /\ entries[i].value = stored[d]
              /\ \A j \in DOMAIN entries :
                    j # i => entries[j].doc # d /\ entries[j].value # stored[d]
<1> DEFINE own == {i \in DOMAIN entries : entries[i].doc = d}
<1>1. PICK n \in Nat : DOMAIN entries = 1..n
  BY LenProperties DEF Typed
<1>2. d \in Docs /\ stored[d] \in Values /\ Cardinality(own) = 1
  BY DEF Single, Clean
<1>3. \A i \in own, j \in DOMAIN entries \ own : entries[i].value # entries[j].value
  BY DEF Single, Clean
<1>4. PICK i \in DOMAIN entries : entries[i].doc = d /\ entries[i].value = stored[d]
  BY <1>2 DEF Listed
<1>5. IsFiniteSet(own)
  <2>1. 1 \in Int /\ n \in Int
    OBVIOUS
  <2>2. IsFiniteSet(1..n) /\ own \in SUBSET (1..n)
    BY <1>1, <2>1, FS_Interval
  <2> QED
    BY <2>2, FS_Subset
<1>6. PICK x : own = {x}
  BY <1>2, <1>5, FS_Singleton
<1>7. i \in own
  BY <1>4
<1>8. i \in Shown
  <2>1. stored[d] # NoDoc
    BY <1>2, ValuesAssumption
  <2> QED
    BY <1>2, <1>4, <2>1 DEF Shown, SortValues, Listed
<1>9. ASSUME NEW j \in DOMAIN entries, j # i
      PROVE  entries[j].doc # d /\ entries[j].value # stored[d]
  <2>1. j \notin own
    BY <1>6, <1>7, <1>9
  <2> QED
    BY <1>3, <1>4, <1>7, <2>1
<1> QED
  BY <1>4, <1>8, <1>9

\* A single document has an entry that is shown.
LEMMA SingleStored ==
    ASSUME Typed, Listed, NEW d \in Single, NEW e \in Docs, e # d
    PROVE  stored[e] # stored[d]
<1> SUFFICES ASSUME stored[e] = stored[d]
             PROVE  FALSE
  OBVIOUS
<1>1. stored[e] \in Values
  BY DEF Single
<1>2. PICK j \in DOMAIN entries : entries[j].doc = e /\ entries[j].value = stored[e]
  BY <1>1 DEF Listed
<1>3. PICK i \in Shown :
         /\ entries[i].doc = d
         /\ \A k \in DOMAIN entries : k # i => entries[k].value # stored[d]
  BY SingleEntry
<1> QED
  BY <1>2, <1>3

\* d has the value that comes first.
Earlier(down, d, e) == IF down THEN stored[d] > stored[e] ELSE stored[d] < stored[e]

\* The single documents of a list come in order, so each at most once.
InTurn(down, s) ==
    \A i, j \in DOMAIN s :
        i < j /\ s[i] \in Single /\ s[j] \in Single => Earlier(down, s[i], s[j])

\* The walk comes to the single documents in the order of their values.
LEMMA WalkInTurn ==
    ASSUME Typed, Listed, NEW down \in BOOLEAN
    PROVE  /\ InTurn(down, Walk(down, 0))
           /\ \A d \in Single : \E p \in DOMAIN Walk(down, 0) : Walk(down, 0)[p] = d
<1> DEFINE W == Walk(down, 0)
           a == At(down)
<1>1. PICK n \in Nat :
         /\ a \in [1..n -> Shown]
         /\ \A i \in Shown : \E p \in 1..n : a[p] = i
         /\ \A p, q \in 1..n : p < q => Further(down, a[p], a[q])
  BY AtFacts DEF Typed
<1>2. DOMAIN W = 1..n /\ \A p \in 1..n : W[p] = entries[a[p]].doc
  <2>1. /\ DOMAIN W = DOMAIN a
        /\ \A p \in DOMAIN a : W[p] = entries[a[p]].doc
    BY WalkFacts DEF Typed
  <2> QED
    BY <1>1, <2>1
<1> HIDE DEF W, a
<1>3. \A i \in Shown : i \in DOMAIN entries /\ i \in Int
  BY LenProperties DEF Shown, SortValues, Typed
<1>4. ASSUME NEW i \in Shown, entries[i].doc \in Single
      PROVE  entries[i].value = stored[entries[i].doc]
  BY <1>3, <1>4, SingleEntry
<1>5. ASSUME NEW p \in 1..n, NEW q \in 1..n, p < q, W[p] \in Single, W[q] \in Single
      PROVE  Earlier(down, W[p], W[q])
  <2>1. PICK i \in Shown : i = a[p]
    BY <1>1
  <2>2. PICK j \in Shown : j = a[q]
    BY <1>1
  <2>3. Further(down, i, j)
    BY <1>1, <1>5, <2>1, <2>2
  <2>4. W[p] = entries[i].doc /\ W[q] = entries[j].doc
    BY <1>2, <2>1, <2>2
  <2>5. i # j /\ i \in DOMAIN entries /\ j \in DOMAIN entries /\ i \in Int /\ j \in Int
    BY <1>3, <2>3 DEF Further
  <2>6. entries[i].value = stored[W[p]] /\ entries[j].value = stored[W[q]]
    BY <1>4, <1>5, <2>4
  <2>7. entries[i].value # entries[j].value
    <3>1. PICK k \in Shown :
             /\ entries[k].doc = W[p] /\ entries[k].value = stored[W[p]]
             /\ \A l \in DOMAIN entries :
                   l # k => entries[l].doc # W[p] /\ entries[l].value # stored[W[p]]
      BY <1>5, SingleEntry
    <3>2. i = k
      BY <2>4, <2>5, <3>1
    <3> QED
      BY <2>5, <2>6, <3>1, <3>2
  <2>8. entries[i].value \in Int /\ entries[j].value \in Int
    BY <2>5, Ascending
  <2>9. CASE down
    <3>1. j < i
      BY <2>3, <2>5, <2>9 DEF Further
    <3>2. entries[j].value <= entries[i].value
      BY <2>5, <3>1, Ascending
    <3> QED
      BY <2>6, <2>7, <2>8, <2>9, <3>2 DEF Earlier
  <2>10. CASE ~ down
    <3>1. i < j
      BY <2>3, <2>10 DEF Further
    <3>2. entries[i].value <= entries[j].value
      BY <2>5, <3>1, Ascending
    <3> QED
      BY <2>6, <2>7, <2>8, <2>10, <3>2 DEF Earlier
  <2> QED
    BY <2>9, <2>10
<1>6. ASSUME NEW d \in Single
      PROVE  \E p \in DOMAIN W : W[p] = d
  <2>1. PICK i \in Shown : entries[i].doc = d
    BY SingleEntry
  <2>2. PICK p \in 1..n : a[p] = i
    BY <1>1
  <2> QED
    BY <1>2, <2>1, <2>2
<1>7. InTurn(down, W)
  BY <1>2, <1>5 DEF InTurn
<1> QED
  BY <1>6, <1>7 DEF W

-----------------------------------------------------------------------------
(* What sortFirstSearch returns.                                           *)

\* Ranked leaves the single documents in their turn.
LEMMA RankedInTurn ==
    ASSUME Typed, Listed, NEW down \in BOOLEAN,
           NEW s \in Seq(Docs), InTurn(down, s)
    PROVE  InTurn(down, Ranked(s))
<1> SUFFICES ASSUME NEW p \in DOMAIN Ranked(s), NEW q \in DOMAIN Ranked(s), p < q,
                    Ranked(s)[p] \in Single, Ranked(s)[q] \in Single
             PROVE  Earlier(down, Ranked(s)[p], Ranked(s)[q])
  BY DEF InTurn
<1>1. PICK g : /\ Rearranges(g, s, Ranked(s))
               /\ \A x, y \in DOMAIN s : x < y => Before(s, g[x], g[y])
  BY RankedFacts
<1>2. p \in DOMAIN s /\ q \in DOMAIN s
  BY <1>1 DEF Rearranges
<1>3. PICK i \in DOMAIN s : i = g[p]
  BY <1>1, <1>2 DEF Rearranges
<1>4. PICK j \in DOMAIN s : j = g[q]
  BY <1>1, <1>2 DEF Rearranges
<1>5. Ranked(s)[p] = s[i] /\ Ranked(s)[q] = s[j]
  BY <1>1, <1>2, <1>3, <1>4 DEF Rearranges
<1>6. Before(s, i, j)
  BY <1>1, <1>2, <1>3, <1>4
<1>7. i \in Int /\ j \in Int /\ s[i] \in Docs /\ s[j] \in Docs
  BY ElementOfSeq, LenProperties
<1>8. i # j
  <2>1. Score[s[i]] \in Int
    BY <1>7, ScoreAssumption
  <2> QED
    BY <1>6, <1>7, <2>1 DEF Before
<1>9. s[i] # s[j]
  <2> SUFFICES ASSUME s[i] = s[j]
               PROVE  FALSE
    OBVIOUS
  <2>1. stored[s[i]] \in Int
    BY <1>5, ValuesAssumption DEF Single
  <2>2. Earlier(down, s[i], s[i])
    BY <1>5, <1>7, <1>8 DEF InTurn
  <2> QED
    BY <2>1, <2>2 DEF Earlier
<1>10. ~ Together(s, i, j)
  <2>1. stored[s[j]] # stored[s[i]]
    BY <1>5, <1>7, <1>9, SingleStored
  <2>2. (i <= j /\ j <= j) \/ (j <= j /\ j <= i)
    BY <1>7
  <2> QED
    BY <2>1, <2>2 DEF Together
<1>11. i < j
  BY <1>6, <1>10 DEF Before
<1> QED
  BY <1>5, <1>11 DEF InTurn

\* Documents in the store that have no entry, each once.
LEMMA RestFacts ==
    ASSUME Typed
    PROVE  /\ Rest \in Seq(Docs)
           /\ \A p \in DOMAIN Rest : /\ stored[Rest[p]] # NoDoc
                                     /\ \A i \in SortValues : entries[i].doc # Rest[p]
           /\ \A d \in Docs : stored[d] # NoDoc /\ (\A i \in SortValues : entries[i].doc # d)
                              => \E p \in DOMAIN Rest : Rest[p] = d
           /\ \A p, q \in DOMAIN Rest : Rest[p] = Rest[q] => p = q
<1> DEFINE S == {d \in Docs : stored[d] # NoDoc /\ \A i \in SortValues : entries[i].doc # d}
           order == {p \in Docs \X Docs : Score[p[1]] > Score[p[2]]}
<1>1. IsFiniteSet(S)
  BY DocsAssumption, FS_Subset
<1>2. StrictOrder(S, order)
  <2>1. \A d \in S : d \in Docs /\ Score[d] \in Int
    BY ScoreAssumption
  <2>2. \A d, e \in S : <<d, e>> \in order <=> Score[d] > Score[e]
    OBVIOUS
  <2>3. \A d, e \in S : d # e => Score[d] # Score[e]
    BY ScoreAssumption
  <2> HIDE DEF S, order
  <2>4. \A d \in S : ~ (<<d, d>> \in order)
    BY <2>1, <2>2
  <2>5. \A d, e \in S : d # e => <<d, e>> \in order \/ <<e, d>> \in order
    BY <2>1, <2>2, <2>3
  <2>6. \A d, e, f \in S : <<d, e>> \in order /\ <<e, f>> \in order => <<d, f>> \in order
    <3> SUFFICES ASSUME NEW d \in S, NEW e \in S, NEW f \in S,
                        <<d, e>> \in order, <<e, f>> \in order
                 PROVE  <<d, f>> \in order
      OBVIOUS
    <3> QED
      BY <2>1, <2>2
  <2> QED
    BY <2>4, <2>5, <2>6 DEF StrictOrder
<1>3. Rest = ListBy(S, order)
  BY DEF Rest
<1> HIDE DEF order
<1>4. PICK n \in Nat : n = Cardinality(S)
  BY <1>1, FS_CardinalityType
<1>5. /\ Rest \in [1..n -> S]
      /\ \A d \in S : \E p \in 1..n : Rest[p] = d
      /\ \A p, q \in 1..n : p < q => Rest[p] # Rest[q]
  <2> HIDE DEF S
  <2>1. /\ ListBy(S, order) \in [1..Cardinality(S) -> S]
        /\ \A d \in S : \E p \in 1..Cardinality(S) : ListBy(S, order)[p] = d
        /\ \A p, q \in 1..Cardinality(S) :
              p < q => <<ListBy(S, order)[p], ListBy(S, order)[q]>> \in order
    BY <1>1, <1>2, ListByFacts
  <2>2. \A d \in S : <<d, d>> \notin order
    BY <1>2 DEF StrictOrder
  <2> QED
    BY <1>3, <1>4, <2>1, <2>2
<1>6. Rest \in Seq(Docs) /\ DOMAIN Rest = 1..n
  BY <1>5
<1>7. \A p, q \in 1..n : Rest[p] = Rest[q] => p = q
  <2> SUFFICES ASSUME NEW p \in 1..n, NEW q \in 1..n, p # q
               PROVE  Rest[p] # Rest[q]
    OBVIOUS
  <2>1. p < q \/ q < p
    OBVIOUS
  <2> QED
    BY <1>5, <2>1
<1> QED
  BY <1>5, <1>6, <1>7

\* The results, when the walk stopped after k documents: those ranked, then what was
\* behind, then the rest.
Layout(down, k) ==
    LET W == Walk(down, 0)
    IN  [p \in 1..(Len(W) + Len(Rest)) |->
            IF p <= k THEN Ranked(SubSeq(W, 1, k))[p]
            ELSE IF p <= Len(W) THEN W[p] ELSE Rest[p - Len(W)]]

\* It takes its documents from these places of the walk.
TakenFrom(g, down, n, k) ==
    /\ g \in [1..n -> 1..n]
    /\ \A p \in 1..n : g[p] <= k <=> p <= k
    /\ \A p \in 1..n : p > k => g[p] = p
    /\ \A i \in 1..n : \E p \in 1..n : g[p] = i
    /\ \A p \in 1..n : Layout(down, k)[p] = Walk(down, 0)[g[p]]

\* Where each document of the layout is from.
LEMMA LayoutFrom ==
    ASSUME Typed, NEW down \in BOOLEAN, NEW n \in Nat, n = Len(Walk(down, 0)),
           NEW k \in 0..n
    PROVE  /\ Layout(down, k) \in Seq(Docs)
           /\ Len(Layout(down, k)) = n + Len(Rest)
           /\ Ranked(SubSeq(Walk(down, 0), 1, k)) \in Seq(Docs)
           /\ Len(Ranked(SubSeq(Walk(down, 0), 1, k))) = k
           /\ \E g : TakenFrom(g, down, n, k)
<1> DEFINE W == Walk(down, 0)
           V == SubSeq(W, 1, k)
           m == Len(Rest)
<1>1. W \in Seq(Docs) /\ DOMAIN W = 1..n
  BY WalkFacts, LenProperties DEF Typed
<1>2. \A p \in 1..n : W[p] \in Docs
  BY <1>1, ElementOfSeq
<1>3. m \in Nat /\ \A p \in 1..m : Rest[p] \in Docs
  BY RestFacts, ElementOfSeq, LenProperties
<1> HIDE DEF W, m
<1>4. V \in Seq(Docs) /\ Len(V) = k /\ \A i \in 1..k : V[i] = W[i]
  <2>1. 1 \in Int /\ k \in Int
    OBVIOUS
  <2>2. \A i \in 1..k : W[i] \in Docs
    BY <1>2
  <2>3. /\ SubSeq(W, 1, k) \in Seq(Docs)
        /\ Len(SubSeq(W, 1, k)) = IF 1 <= k THEN k - 1 + 1 ELSE 0
        /\ \A i \in 1..(k - 1 + 1) : SubSeq(W, 1, k)[i] = W[1 + i - 1]
    BY <2>1, <2>2, SubSeqProperties
  <2> QED
    BY <2>1, <2>3
<1> HIDE DEF V
<1>5. Ranked(V) \in Seq(Docs) /\ Len(Ranked(V)) = k
  BY <1>4, RankedFacts
<1>6. PICK r : Rearranges(r, V, Ranked(V))
  BY <1>4, RankedFacts
<1>7. DOMAIN V = 1..k
  BY <1>4, LenProperties
<1>8. /\ r \in [1..k -> 1..k]
      /\ \A i \in 1..k : \E p \in 1..k : r[p] = i
      /\ \A p \in 1..k : Ranked(V)[p] = W[r[p]]
  BY <1>4, <1>6, <1>7 DEF Rearranges
<1> DEFINE L == Layout(down, k)
           g == [p \in 1..n |-> IF p <= k THEN r[p] ELSE p]
<1>9. /\ DOMAIN L = 1..(n + m)
      /\ \A p \in 1..(n + m) : L[p] = IF p <= k THEN Ranked(V)[p]
                                      ELSE IF p <= n THEN W[p] ELSE Rest[p - n]
  BY DEF Layout, W, V, m
<1>10. \A p \in 1..(n + m) : L[p] \in Docs
  <2> SUFFICES ASSUME NEW p \in 1..(n + m)
               PROVE  L[p] \in Docs
    OBVIOUS
  <2>1. CASE p <= k
    BY <1>5, <1>9, <2>1, ElementOfSeq
  <2>2. CASE ~ (p <= k) /\ p <= n
    BY <1>2, <1>9, <2>2
  <2>3. CASE ~ (p <= k) /\ ~ (p <= n)
    BY <1>3, <1>9, <2>3
  <2> QED
    BY <2>1, <2>2, <2>3
<1>11. L \in Seq(Docs) /\ Len(L) = n + m
  <2>1. L = [p \in 1..(n + m) |-> L[p]]
    BY DEF Layout, W, m
  <2> HIDE DEF L
  <2>2. L \in [1..(n + m) -> Docs]
    BY <1>10, <2>1
  <2> QED
    BY <1>3, <2>2
<1> HIDE DEF L
<1>12. g \in [1..n -> 1..n]
  BY <1>8
<1>13. \A p \in 1..n : g[p] <= k <=> p <= k
  BY <1>8
<1>14. \A p \in 1..n : p > k => g[p] = p
  OBVIOUS
<1>15. \A i \in 1..n : \E p \in 1..n : g[p] = i
  <2> SUFFICES ASSUME NEW i \in 1..n
               PROVE  \E p \in 1..n : g[p] = i
    OBVIOUS
  <2>1. CASE i <= k
    <3>1. PICK p \in 1..k : r[p] = i
      BY <1>8, <2>1
    <3> QED
      BY <3>1
  <2>2. CASE ~ (i <= k)
    BY <2>2
  <2> QED
    BY <2>1, <2>2
<1>16. \A p \in 1..n : L[p] = W[g[p]]
  <2> SUFFICES ASSUME NEW p \in 1..n
               PROVE  L[p] = W[g[p]]
    OBVIOUS
  <2>1. p \in 1..(n + m)
    BY <1>3
  <2>2. CASE p <= k
    <3>1. p \in 1..k /\ g[p] = r[p]
      BY <2>2
    <3>2. L[p] = Ranked(V)[p]
      BY <1>9, <2>1, <2>2
    <3> QED
      BY <1>8, <3>1, <3>2
  <2>3. CASE ~ (p <= k)
    BY <1>9, <2>1, <2>3
  <2> QED
    BY <2>2, <2>3
<1> HIDE DEF g
<1>17. TakenFrom(g, down, n, k)
  BY <1>12, <1>13, <1>14, <1>15, <1>16 DEF TakenFrom, L, W
<1> QED
  BY <1>5, <1>11, <1>17 DEF L, W, V, m

\* The layout has all documents of the store: first those with an entry shown, then
\* the others.
LEMMA LayoutAll ==
    ASSUME Typed, NEW down \in BOOLEAN, NEW n \in Nat, n = Len(Walk(down, 0)),
           NEW k \in 0..n
    PROVE  /\ \A p \in DOMAIN Layout(down, k) :
                 LET d == Layout(down, k)[p]
                 IN  /\ d \in Docs /\ stored[d] # NoDoc
                     /\ p <= n <=> \E i \in SortValues : entries[i].doc = d
           /\ \A d \in Docs : stored[d] # NoDoc =>
                 \E p \in DOMAIN Layout(down, k) : Layout(down, k)[p] = d
<1> DEFINE W == Walk(down, 0)
           L == Layout(down, k)
           m == Len(Rest)
           a == At(down)
<1>1. /\ L \in Seq(Docs) /\ Len(L) = n + m
      /\ \A p \in 1..(n + m) : p > n => L[p] = Rest[p - n]
  <2>1. m \in Nat
    BY RestFacts, LenProperties
  <2>2. L \in Seq(Docs) /\ Len(L) = n + m
    BY LayoutFrom
  <2>3. \A p \in 1..(n + m) : p > n => ~ (p <= k) /\ ~ (p <= n)
    BY <2>1
  <2> HIDE DEF m
  <2>4. ASSUME NEW p \in 1..(n + m), p > n
        PROVE  L[p] = Rest[p - n]
    BY <2>3, <2>4 DEF Layout, m
  <2> QED
    BY <2>2, <2>4
<1>g. PICK g : TakenFrom(g, down, n, k)
  BY LayoutFrom
<1>2. /\ g \in [1..n -> 1..n]
      /\ \A p \in 1..n : g[p] <= k <=> p <= k
      /\ \A p \in 1..n : p > k => g[p] = p
      /\ \A i \in 1..n : \E p \in 1..n : g[p] = i
      /\ \A p \in 1..n : L[p] = W[g[p]]
  BY <1>g DEF TakenFrom
<1>3. m \in Nat /\ DOMAIN Rest = 1..m
  BY RestFacts, LenProperties
<1>4. /\ \A p \in 1..m : /\ stored[Rest[p]] # NoDoc /\ Rest[p] \in Docs
                         /\ \A i \in SortValues : entries[i].doc # Rest[p]
      /\ \A d \in Docs : stored[d] # NoDoc /\ (\A i \in SortValues : entries[i].doc # d)
                         => \E p \in 1..m : Rest[p] = d
  BY <1>3, RestFacts, ElementOfSeq
<1>5. PICK l \in Nat :
         /\ a \in [1..l -> Shown]
         /\ \A i \in Shown : \E p \in 1..l : a[p] = i
  BY AtFacts DEF Typed
<1>6. l = n /\ DOMAIN W = 1..n /\ \A p \in 1..n : W[p] = entries[a[p]].doc
  <2>1. /\ W \in Seq(Docs) /\ DOMAIN W = DOMAIN a
        /\ \A p \in DOMAIN a : W[p] = entries[a[p]].doc
    BY WalkFacts DEF Typed
  <2>2. DOMAIN W = 1..n
    BY <2>1, LenProperties
  <2>3. DOMAIN a = 1..l
    BY <1>5
  <2> HIDE DEF W, a
  <2>4. 1..l = 1..n
    BY <2>1, <2>2, <2>3
  <2>5. l = n
    <3>1. n \in 1..n \/ n = 0
      OBVIOUS
    <3>2. l \in 1..l \/ l = 0
      OBVIOUS
    <3> QED
      BY <2>4, <3>1, <3>2
  <2> QED
    BY <2>1, <2>3, <2>5
<1>7. DOMAIN L = 1..(n + m)
  BY <1>1, LenProperties
<1> HIDE DEF L, W, m, a
<1>8. ASSUME NEW p \in DOMAIN L
      PROVE  /\ L[p] \in Docs /\ stored[L[p]] # NoDoc
             /\ p <= n <=> \E i \in SortValues : entries[i].doc = L[p]
  <2>1. L[p] \in Docs /\ p \in 1..(n + m)
    BY <1>1, <1>7, ElementOfSeq
  <2>2. CASE p <= n
    <3>1. p \in 1..n
      BY <2>1, <2>2
    <3>2. PICK q \in 1..n : q = g[p]
      BY <1>2, <3>1
    <3>3. PICK i \in Shown : i = a[q]
      BY <1>5, <1>6
    <3>4. L[p] = entries[i].doc
      BY <1>2, <1>6, <3>1, <3>2, <3>3
    <3>5. i \in SortValues /\ stored[entries[i].doc] # NoDoc
      BY DEF Shown
    <3> QED
      BY <2>1, <2>2, <3>4, <3>5
  <2>3. CASE ~ (p <= n)
    <3>1. p - n \in 1..m /\ L[p] = Rest[p - n]
      BY <1>1, <1>3, <2>1, <2>3
    <3> QED
      BY <1>4, <2>1, <2>3, <3>1
  <2> QED
    BY <2>2, <2>3
<1>9. ASSUME NEW d \in Docs, stored[d] # NoDoc
      PROVE  \E p \in DOMAIN L : L[p] = d
  <2>1. CASE \E i \in SortValues : entries[i].doc = d
    <3>1. PICK i \in Shown : entries[i].doc = d
      BY <1>9, <2>1 DEF Shown
    <3>2. PICK q \in 1..n : a[q] = i
      BY <1>5, <1>6
    <3>3. PICK p \in 1..n : g[p] = q
      BY <1>2
    <3>4. L[p] = d
      BY <1>2, <1>6, <3>1, <3>2, <3>3
    <3> QED
      BY <1>3, <1>7, <3>4
  <2>2. CASE ~ \E i \in SortValues : entries[i].doc = d
    <3>1. PICK p \in 1..m : Rest[p] = d
      BY <1>4, <1>9, <2>2
    <3>2. p + n \in 1..(n + m) /\ p + n > n /\ (p + n) - n = p
      BY <1>3
    <3> QED
      BY <1>1, <1>7, <3>1, <3>2
  <2> QED
    BY <2>1, <2>2
<1> QED
  BY <1>8, <1>9 DEF L

\* It has each single document once, and in its turn.
Shows(down, s) ==
    /\ s \in Seq(Docs)
    /\ InTurn(down, s)
    /\ \A d \in Single : \E p \in DOMAIN s : s[p] = d

LEMMA LayoutShows ==
    ASSUME Typed, Listed, NEW down \in BOOLEAN, NEW n \in Nat, n = Len(Walk(down, 0)),
           NEW k \in 0..n
    PROVE  Shows(down, Layout(down, k))
<1> DEFINE W == Walk(down, 0)
           V == SubSeq(W, 1, k)
           L == Layout(down, k)
<1>1. L \in Seq(Docs)
  BY LayoutFrom
<1>2. \A d \in Single : d \in Docs /\ stored[d] # NoDoc
  BY ValuesAssumption DEF Single
<1>3. \A d \in Single : \E p \in DOMAIN L : L[p] = d
  BY <1>2, LayoutAll
<1>g. PICK g : TakenFrom(g, down, n, k)
  BY LayoutFrom
<1>4. /\ g \in [1..n -> 1..n]
      /\ \A p \in 1..n : g[p] <= k <=> p <= k
      /\ \A p \in 1..n : p > k => g[p] = p
      /\ \A i \in 1..n : \E p \in 1..n : g[p] = i
      /\ \A p \in 1..n : L[p] = W[g[p]]
  BY <1>g DEF TakenFrom
<1>5. W \in Seq(Docs) /\ DOMAIN W = 1..n
  BY WalkFacts, LenProperties DEF Typed
<1>6. InTurn(down, W)
  BY WalkInTurn
<1>7. V \in Seq(Docs) /\ DOMAIN V = 1..k /\ \A i \in 1..k : V[i] = W[i]
  <2> HIDE DEF W
  <2>1. 1 \in Int /\ k \in Int
    OBVIOUS
  <2>2. \A i \in 1..k : W[i] \in Docs
    BY <1>5, ElementOfSeq
  <2>3. /\ SubSeq(W, 1, k) \in Seq(Docs)
        /\ Len(SubSeq(W, 1, k)) = IF 1 <= k THEN k - 1 + 1 ELSE 0
        /\ \A i \in 1..(k - 1 + 1) : SubSeq(W, 1, k)[i] = W[1 + i - 1]
    BY <2>1, <2>2, SubSeqProperties
  <2>4. Len(SubSeq(W, 1, k)) = k
    BY <2>3
  <2> QED
    BY <2>3, <2>4, LenProperties
<1>8. \A p \in 1..k : L[p] = Ranked(V)[p]
  <2>1. \A p \in 1..k : p \in 1..(n + Len(Rest)) /\ p <= k
    BY RestFacts, LenProperties
  <2> QED
    BY <2>1 DEF Layout
<1>9. DOMAIN Ranked(V) = 1..k
  BY LayoutFrom, LenProperties
<1> HIDE DEF W, V, L
<1>10. InTurn(down, V)
  <2> SUFFICES ASSUME NEW i \in 1..k, NEW j \in 1..k, i < j, V[i] \in Single, V[j] \in Single
               PROVE  Earlier(down, V[i], V[j])
    BY <1>7 DEF InTurn
  <2>1. i \in DOMAIN W /\ j \in DOMAIN W /\ V[i] = W[i] /\ V[j] = W[j]
    BY <1>5, <1>7
  <2> QED
    BY <1>6, <2>1 DEF InTurn
<1>11. InTurn(down, Ranked(V))
  BY <1>7, <1>10, RankedInTurn
<1>12. ASSUME NEW p \in DOMAIN L, L[p] \in Single
       PROVE  p \in 1..n
  <2>1. PICK i \in SortValues : entries[i].doc = L[p]
    BY <1>12, SingleEntry DEF Shown
  <2>2. p <= n
    BY <2>1, LayoutAll DEF L
  <2> QED
    BY <1>1, <2>2, LenProperties
<1>13. InTurn(down, L)
  <2> SUFFICES ASSUME NEW p \in DOMAIN L, NEW q \in DOMAIN L, p < q,
                      L[p] \in Single, L[q] \in Single
               PROVE  Earlier(down, L[p], L[q])
    BY DEF InTurn
  <2>1. p \in 1..n /\ q \in 1..n
    BY <1>12
  <2>2. CASE q <= k
    <3>1. p \in 1..k /\ q \in 1..k
      BY <2>1, <2>2
    <3>2. p \in DOMAIN Ranked(V) /\ q \in DOMAIN Ranked(V)
      BY <1>9, <3>1
    <3> QED
      BY <1>8, <1>11, <3>1, <3>2 DEF InTurn
  <2>3. CASE ~ (q <= k)
    <3>1. g[q] = q
      BY <1>4, <2>1, <2>3
    <3>2. g[p] < q
      <4>1. CASE p <= k
        <5>1. g[p] <= k /\ g[p] \in 1..n
          BY <1>4, <2>1, <4>1
        <5> QED
          BY <2>1, <2>3, <5>1
      <4>2. CASE ~ (p <= k)
        BY <1>4, <2>1, <4>2
      <4> QED
        BY <4>1, <4>2
    <3>3. g[p] \in DOMAIN W /\ q \in DOMAIN W
      BY <1>4, <1>5, <2>1
    <3>4. L[p] = W[g[p]] /\ L[q] = W[q]
      BY <1>4, <2>1, <3>1
    <3> QED
      BY <1>6, <3>2, <3>3, <3>4 DEF InTurn
  <2> QED
    BY <2>2, <2>3
<1> QED
  BY <1>1, <1>3, <1>13 DEF Shows, L

-----------------------------------------------------------------------------
(* A search that stops early finds the beginning of a layout.              *)

\* Sequences that agree at each place are the same.
LEMMA SameSequence ==
    ASSUME NEW S, NEW s \in Seq(S), NEW t \in Seq(S), NEW n \in Nat, Len(s) = n, Len(t) = n,
           \A i \in 1..n : s[i] = t[i]
    PROVE  s = t
<1>1. s = [i \in 1..Len(s) |-> s[i]] /\ t = [i \in 1..Len(t) |-> t[i]]
  OBVIOUS
<1> QED
  BY <1>1

\* sortFirstSearch with a limit, which stops the walk after twice as many documents,
\* returns the first ones of the layout for that stop.
LEMMA ResultsLayout ==
    ASSUME Typed, NEW down \in BOOLEAN, NEW n \in Nat, n = Len(Walk(down, 0)),
           NEW limit \in Nat
    PROVE  \E k \in 0..n :
              /\ Results(down, limit) = Cut(Layout(down, k), limit)
              /\ limit = 0 => k = n
<1> DEFINE W == Walk(down, 0)
           m == Len(Rest)
<1>1. W \in Seq(Docs)
  BY WalkFacts DEF Typed
<1>2. m \in Nat /\ Rest \in Seq(Docs)
  BY RestFacts, LenProperties
<1>3. Walk(down, limit) = Cut(W, limit)
  BY WalkFacts DEF Typed
<1>w. Len(W) = n
  OBVIOUS
<1>l. Results(down, limit) = Cut(Ranked(Walk(down, limit)) \o Rest, limit)
  BY DEF Results, Found
<1> HIDE DEF W, m
<1>4. PICK k \in 0..n :
         /\ Cut(W, limit) \in Seq(Docs)
         /\ Len(Cut(W, limit)) = k
         /\ \A i \in 1..k : Cut(W, limit)[i] = W[i]
         /\ k = IF limit > 0 /\ n > limit THEN limit ELSE n
  <2>1. \E k \in 0..Len(W) :
           /\ Cut(W, limit) \in Seq(Docs)
           /\ Len(Cut(W, limit)) = k
           /\ \A i \in 1..k : Cut(W, limit)[i] = W[i]
           /\ k = IF limit > 0 /\ Len(W) > limit THEN limit ELSE Len(W)
    BY <1>1, CutFacts
  <2> QED
    BY <2>1, <1>w
<1> DEFINE V == SubSeq(W, 1, k)
           L == Layout(down, k)
<1>5. V \in Seq(Docs) /\ Len(V) = k /\ \A i \in 1..k : V[i] = W[i]
  <2>1. 1 \in Int /\ k \in Int
    OBVIOUS
  <2>2. \A i \in 1..k : W[i] \in Docs
    <3>1. \A i \in 1..k : i \in 1..Len(W)
      BY <1>w
    <3> QED
      BY <1>1, <3>1, ElementOfSeq
  <2>3. /\ SubSeq(W, 1, k) \in Seq(Docs)
        /\ Len(SubSeq(W, 1, k)) = IF 1 <= k THEN k - 1 + 1 ELSE 0
        /\ \A i \in 1..(k - 1 + 1) : SubSeq(W, 1, k)[i] = W[1 + i - 1]
    BY <2>1, <2>2, SubSeqProperties
  <2> QED
    BY <2>1, <2>3
<1>6. Walk(down, limit) = V
  <2> HIDE DEF V
  <2> QED
    BY <1>3, <1>4, <1>5, SameSequence
<1>7. /\ Ranked(V) \in Seq(Docs) /\ Len(Ranked(V)) = k
      /\ L \in Seq(Docs) /\ Len(L) = n + m
  BY LayoutFrom DEF W, m
<1>8. \A p \in 1..(n + m) : L[p] = IF p <= k THEN Ranked(V)[p]
                                   ELSE IF p <= n THEN W[p] ELSE Rest[p - n]
  BY DEF Layout, W, m
<1> HIDE DEF V, L
<1> DEFINE R == Ranked(V) \o Rest
<1>9. /\ R \in Seq(Docs) /\ Len(R) = k + m
      /\ \A i \in 1..(k + m) : R[i] = IF i <= k THEN Ranked(V)[i] ELSE Rest[i - k]
  BY <1>2, <1>7, ConcatProperties DEF m
<1>10. Results(down, limit) = Cut(R, limit)
  BY <1>6, <1>l
<1> HIDE DEF R
<1>11. Cut(R, limit) = Cut(L, limit)
  <2>1. CASE k = n
    <3>1. R \in Seq(Docs) /\ L \in Seq(Docs) /\ n + m \in Nat /\ Len(R) = n + m /\ Len(L) = n + m
      BY <1>2, <1>7, <1>9, <2>1
    <3>2. \A i \in 1..(n + m) : R[i] = L[i]
      BY <1>2, <1>8, <1>9, <2>1
    <3>3. R = L
      BY <3>1, <3>2, SameSequence
    <3> QED
      BY <3>3
  <2>2. CASE k # n
    <3>1. limit = k /\ k > 0 /\ k < n
      BY <1>4, <2>2
    <3>2. PICK x \in 0..Len(R) :
             /\ Cut(R, limit) \in Seq(Docs)
             /\ Len(Cut(R, limit)) = x
             /\ \A i \in 1..x : Cut(R, limit)[i] = R[i]
             /\ x = IF limit > 0 /\ Len(R) > limit THEN limit ELSE Len(R)
      BY <1>9, CutFacts
    <3>3. PICK y \in 0..Len(L) :
             /\ Cut(L, limit) \in Seq(Docs)
             /\ Len(Cut(L, limit)) = y
             /\ \A i \in 1..y : Cut(L, limit)[i] = L[i]
             /\ y = IF limit > 0 /\ Len(L) > limit THEN limit ELSE Len(L)
      BY <1>7, CutFacts
    <3>4. x = k
      BY <1>2, <1>9, <3>1, <3>2
    <3>5. y = k
      BY <1>2, <1>7, <3>1, <3>3
    <3>6. \A i \in 1..k : R[i] = L[i]
      BY <1>2, <1>8, <1>9
    <3>7. k \in Nat /\ \A i \in 1..k : Cut(R, limit)[i] = Cut(L, limit)[i]
      BY <3>2, <3>3, <3>4, <3>5, <3>6
    <3> QED
      BY <3>2, <3>3, <3>4, <3>5, <3>7, SameSequence
  <2> QED
    BY <2>1, <2>2
<1>12. limit = 0 => k = n
  BY <1>4
<1> QED
  BY <1>10, <1>11, <1>12 DEF L

\* Without a limit it is the whole layout.
LEMMA AllResults ==
    ASSUME Typed, NEW down \in BOOLEAN, NEW n \in Nat, n = Len(Walk(down, 0))
    PROVE  /\ Results(down, 0) = Layout(down, n)
           /\ Found(Walk(down, 0), 0) = Layout(down, n)
<1>1. PICK k \in 0..n : Results(down, 0) = Cut(Layout(down, k), 0) /\ k = n
  <2>1. 0 \in Nat
    OBVIOUS
  <2> QED
    BY <2>1, ResultsLayout
<1>2. Cut(Layout(down, k), 0) = Layout(down, k)
  BY DEF Cut
<1> QED
  BY <1>1, <1>2 DEF Results

-----------------------------------------------------------------------------
(* Sort.                                                                   *)

\* FieldIndex.Sort keeps the entries, and their values no longer fall.
LEMMA SortedFacts ==
    ASSUME NEW s \in Seq(Entry), NEW t \in Sorted(s)
    PROVE  /\ t \in Seq(Entry)
           /\ \A i \in 1..(Len(t) - 1) : t[i].value <= t[i + 1].value
           /\ \A i \in DOMAIN s : \E j \in DOMAIN t : t[j] = s[i]
<1>1. PICK p \in {q \in [DOMAIN s -> DOMAIN s] : ToSet(q) = DOMAIN s} :
         t = [i \in DOMAIN s |-> s[p[i]]]
  BY DEF Sorted
<1>2. \A i \in 1..(Len(s) - 1) : t[i].value <= t[i + 1].value
  BY DEF Sorted
<1>3. PICK n \in Nat : n = Len(s) /\ DOMAIN s = 1..n
  BY LenProperties
<1>4. p \in [1..n -> 1..n] /\ {p[i] : i \in 1..n} = 1..n
  <2>1. p \in [1..n -> 1..n] /\ ToSet(p) = 1..n
    BY <1>3
  <2>2. DOMAIN p = 1..n
    BY <2>1
  <2> QED
    BY <2>1, <2>2 DEF ToSet
<1>5. \A i \in 1..n : s[i] \in Entry
  BY <1>3, ElementOfSeq
<1> HIDE DEF Entry
<1>6. t = [i \in 1..n |-> s[p[i]]]
  BY <1>1, <1>3
<1>7. t \in [1..n -> Entry]
  BY <1>4, <1>5, <1>6
<1>8. t \in Seq(Entry) /\ Len(t) = n /\ DOMAIN t = 1..n
  BY <1>7
<1>9. \A i \in 1..n : \E j \in 1..n : t[j] = s[i]
  <2> SUFFICES ASSUME NEW i \in 1..n
               PROVE  \E j \in 1..n : t[j] = s[i]
    OBVIOUS
  <2>1. PICK j \in 1..n : p[j] = i
    BY <1>4
  <2> QED
    BY <1>6, <2>1
<1> QED
  BY <1>2, <1>3, <1>8, <1>9

\* Add and Sort: what is there stays, and the new entry is there.
LEMMA AddedFacts ==
    ASSUME NEW s \in Seq(Entry), NEW e \in Entry, NEW t \in Sorted(Append(s, e))
    PROVE  /\ t \in Seq(Entry)
           /\ \A i \in 1..(Len(t) - 1) : t[i].value <= t[i + 1].value
           /\ \A i \in DOMAIN s : \E j \in DOMAIN t : t[j] = s[i]
           /\ \E j \in DOMAIN t : t[j] = e
<1> DEFINE u == Append(s, e)
<1>1. PICK n \in Nat : n = Len(s) /\ DOMAIN s = 1..n
  BY LenProperties
<1> HIDE DEF Entry
<1>2. u \in Seq(Entry) /\ DOMAIN u = 1..(n + 1) /\ u[n + 1] = e /\ \A i \in 1..n : u[i] = s[i]
  BY <1>1, AppendFacts
<1> HIDE DEF u
<1>3. /\ t \in Seq(Entry)
      /\ \A i \in 1..(Len(t) - 1) : t[i].value <= t[i + 1].value
      /\ \A i \in DOMAIN u : \E j \in DOMAIN t : t[j] = u[i]
  BY <1>2, SortedFacts DEF u
<1>4. \A i \in 1..n : i \in DOMAIN u
  BY <1>2
<1>5. n + 1 \in DOMAIN u
  BY <1>2
<1>6. \E j \in DOMAIN t : t[j] = u[n + 1]
  BY <1>3, <1>5
<1>7. \A i \in 1..n : \E j \in DOMAIN t : t[j] = u[i]
  BY <1>3, <1>4
<1> QED
  BY <1>1, <1>2, <1>3, <1>6, <1>7

-----------------------------------------------------------------------------
(* Taking a page.                                                          *)

\* The smaller one of two numbers.
LEMMA MinOfPair ==
    ASSUME NEW a \in Int, NEW b \in Int
    PROVE  Min({a, b}) = IF a <= b THEN a ELSE b
<1>1. \E x \in {a, b} : \A y \in {a, b} : x <= y
  OBVIOUS
<1>2. Min({a, b}) \in {a, b} /\ \A y \in {a, b} : Min({a, b}) <= y
  <2>1. Min({a, b}) = CHOOSE x \in {a, b} : \A y \in {a, b} : x <= y
    BY DEF Min
  <2> QED
    BY <1>1, <2>1
<1> QED
  BY <1>2

\* A page of n documents has none of them more than n times.
LEMMA TimesFacts ==
    ASSUME NEW page \in Seq(Docs), NEW d
    PROVE  /\ Times(page, d) \in Nat
           /\ (\A i \in DOMAIN page : page[i] # d) => Times(page, d) = 0
           /\ \A i \in DOMAIN page :
                 page[i] = d /\ (\A j \in DOMAIN page : j # i => page[j] # d)
                 => Times(page, d) = 1
<1> DEFINE at == {i \in DOMAIN page : page[i] = d}
<1>1. PICK n \in Nat : DOMAIN page = 1..n
  BY LenProperties
<1>2. IsFiniteSet(at)
  <2>1. 1 \in Int /\ n \in Int
    OBVIOUS
  <2>2. IsFiniteSet(1..n)
    BY <2>1, FS_Interval
  <2>3. at \in SUBSET (1..n)
    BY <1>1
  <2> QED
    BY <2>2, <2>3, FS_Subset
<1>3. Cardinality(at) \in Nat
  BY <1>2, FS_CardinalityType
<1>4. ASSUME \A i \in DOMAIN page : page[i] # d
      PROVE  Cardinality(at) = 0
  <2>1. at = {}
    BY <1>4
  <2> QED
    BY <2>1, FS_EmptySet
<1>5. ASSUME NEW i \in DOMAIN page, page[i] = d, \A j \in DOMAIN page : j # i => page[j] # d
      PROVE  Cardinality(at) = 1
  <2>1. at = {i}
    BY <1>5
  <2> QED
    BY <2>1, FS_Singleton
<1> QED
  BY <1>3, <1>4, <1>5 DEF Times

\* A client gets at most 2 of each, as far as it counts.
LEMMA TakeFacts ==
    ASSUME NEW page \in Seq(Docs), got \in [Docs -> 0..2], Take(page)
    PROVE  /\ got' \in [Docs -> 0..2]
           /\ \A d \in Docs : got'[d] = IF 2 <= got[d] + Times(page, d) THEN 2
                                        ELSE got[d] + Times(page, d)
           /\ page = <<>> => client' = "done" /\ cursor' = NoCursor
           /\ page # <<>> => /\ client' = "paging" /\ cursor' \in Docs
                             /\ Len(page) \in Nat \ {0} /\ cursor' = page[Len(page)]
<1>1. got' = [d \in Docs |-> Min({2, got[d] + Times(page, d)})]
  BY DEF Take, Times
<1>2. \A d \in Docs : got[d] + Times(page, d) \in Nat
  BY TimesFacts
<1>3. \A d \in Docs : Min({2, got[d] + Times(page, d)})
                      = IF 2 <= got[d] + Times(page, d) THEN 2 ELSE got[d] + Times(page, d)
  <2> SUFFICES ASSUME NEW d \in Docs
               PROVE  Min({2, got[d] + Times(page, d)})
                      = IF 2 <= got[d] + Times(page, d) THEN 2 ELSE got[d] + Times(page, d)
    OBVIOUS
  <2>1. 2 \in Int /\ got[d] + Times(page, d) \in Int
    BY <1>2
  <2> QED
    BY <2>1, MinOfPair
<1>4. \A d \in Docs : got'[d] = IF 2 <= got[d] + Times(page, d) THEN 2
                                ELSE got[d] + Times(page, d)
  BY <1>1, <1>3
<1>5. got' \in [Docs -> 0..2]
  <2>1. \A d \in Docs : Min({2, got[d] + Times(page, d)}) \in 0..2
    BY <1>2, <1>3
  <2> QED
    BY <1>1, <2>1
<1>6. ASSUME page # <<>>
      PROVE  /\ client' = "paging" /\ cursor' \in Docs
             /\ Len(page) \in Nat \ {0} /\ cursor' = page[Len(page)]
  <2>1. Len(page) \in Nat \ {0} /\ Len(page) \in 1..Len(page)
    BY <1>6, EmptySeq
  <2>2. page[Len(page)] \in Docs
    BY <2>1, ElementOfSeq
  <2>3. client' = "paging" /\ cursor' = page[Len(page)]
    BY <1>6 DEF Take, Last
  <2> QED
    BY <2>1, <2>2, <2>3
<1> QED
  BY <1>4, <1>5, <1>6 DEF Take

-----------------------------------------------------------------------------
(* Pages of a list that shows the single documents.                        *)

\* A document that is in the list once is there at one place.
LEMMA PlaceFacts ==
    ASSUME Typed, Listed, NEW down \in BOOLEAN, NEW L, Shows(down, L),
           NEW p \in DOMAIN L, NEW q \in DOMAIN L, L[p] \in Single, L[q] \in Single
    PROVE  /\ p < q <=> Earlier(down, L[p], L[q])
           /\ L[p] = L[q] => p = q
<1>1. stored[L[p]] \in Int /\ stored[L[q]] \in Int
  BY ValuesAssumption DEF Single
<1>2. p \in Int /\ q \in Int
  BY LenProperties DEF Shows
<1>3. p < q => Earlier(down, L[p], L[q])
  BY DEF Shows, InTurn
<1>4. q < p => Earlier(down, L[q], L[p])
  BY DEF Shows, InTurn
<1>5. ~ (Earlier(down, L[p], L[q]) /\ Earlier(down, L[q], L[p]))
  BY <1>1 DEF Earlier
<1>6. L[p] = L[q] => ~ Earlier(down, L[p], L[q]) /\ ~ Earlier(down, L[q], L[p])
  BY <1>1 DEF Earlier
<1> QED
  BY <1>2, <1>3, <1>4, <1>5, <1>6

\* A stretch of m documents of the list, behind the first a of them.
Stretch(page, L, a, m) ==
    /\ a \in Nat /\ m \in Nat /\ a + m <= Len(L)
    /\ page \in Seq(Docs) /\ Len(page) = m
    /\ \A i \in 1..m : page[i] = L[a + i]

\* A stretch has a document once if its place is in it, and not at all otherwise.
LEMMA StretchFacts ==
    ASSUME Typed, Listed, NEW down \in BOOLEAN, NEW L, Shows(down, L),
           NEW page, NEW a, NEW m, Stretch(page, L, a, m),
           NEW p \in DOMAIN L, L[p] \in Single
    PROVE  Times(page, L[p]) = IF a < p /\ p <= a + m THEN 1 ELSE 0
<1>1. PICK l \in Nat : l = Len(L) /\ DOMAIN L = 1..l
  BY LenProperties DEF Shows
<1>2. /\ a \in Nat /\ m \in Nat /\ a + m <= l
      /\ page \in Seq(Docs) /\ DOMAIN page = 1..m
      /\ \A i \in 1..m : page[i] = L[a + i]
  BY <1>1, LenProperties DEF Stretch
<1>3. ASSUME NEW i \in 1..m, page[i] = L[p]
      PROVE  a + i = p
  <2>1. a + i \in DOMAIN L /\ L[a + i] = L[p]
    BY <1>1, <1>2, <1>3
  <2>2. L[a + i] \in Single
    BY <2>1
  <2> QED
    BY <2>1, <2>2, PlaceFacts
<1>4. CASE a < p /\ p <= a + m
  <2>1. PICK i \in 1..m : a + i = p
    <3>1. p - a \in 1..m /\ a + (p - a) = p
      BY <1>1, <1>2, <1>4
    <3> QED
      BY <3>1
  <2>2. page[i] = L[p]
    BY <1>2, <2>1
  <2>3. \A j \in 1..m : j # i => page[j] # L[p]
    BY <1>2, <1>3, <2>1
  <2>4. Times(page, L[p]) = 1
    BY <1>2, <2>2, <2>3, TimesFacts
  <2> QED
    BY <1>4, <2>4
<1>5. CASE ~ (a < p /\ p <= a + m)
  <2>1. \A i \in 1..m : page[i] # L[p]
    BY <1>1, <1>2, <1>3, <1>5
  <2>2. Times(page, L[p]) = 0
    BY <1>2, <2>1, TimesFacts
  <2> QED
    BY <1>5, <2>2
<1> QED
  BY <1>4, <1>5

\* Of these documents, the client has got those at the first a places.
GotUpTo(L, a, C) == \A p \in DOMAIN L : L[p] \in C => got[L[p]] = IF a < p THEN 0 ELSE 1

\* A page that goes on where the client is: of the documents C it has got those
\* before, and none of the others.
LEMMA TakeInTurn ==
    ASSUME Typed, Listed, NEW down \in BOOLEAN, NEW L, Shows(down, L),
           NEW page, NEW a, NEW m, Stretch(page, L, a, m),
           got \in [Docs -> 0..2], Take(page),
           NEW C \in SUBSET Single,
           GotUpTo(L, a, C),
           page = <<>> => a = Len(L)
    PROVE  /\ \A d \in C : got'[d] <= 1
           /\ client' = "done" => \A d \in C : got'[d] = 1
           /\ client' = "paging" /\ cursor' \in C =>
                 \A d \in C : got'[d] = IF Earlier(down, cursor', d) THEN 0 ELSE 1
<1>1. PICK l \in Nat : l = Len(L) /\ DOMAIN L = 1..l
  BY LenProperties DEF Shows
<1>2. /\ a \in Nat /\ m \in Nat /\ a + m <= l
      /\ page \in Seq(Docs) /\ Len(page) = m
      /\ \A i \in 1..m : page[i] = L[a + i]
  BY <1>1 DEF Stretch
<1>3. \A d \in Docs : got'[d] = IF 2 <= got[d] + Times(page, d) THEN 2
                                ELSE got[d] + Times(page, d)
  BY <1>2, TakeFacts
<1>4. ASSUME NEW p \in 1..l, L[p] \in C
      PROVE  got'[L[p]] = IF a + m < p THEN 0 ELSE 1
  <2>1. L[p] \in Single /\ L[p] \in Docs
    BY <1>4 DEF Single
  <2>2. Times(page, L[p]) = IF a < p /\ p <= a + m THEN 1 ELSE 0
    BY <1>1, <2>1, StretchFacts
  <2>3. got[L[p]] = IF a < p THEN 0 ELSE 1
    BY <1>1, <1>4 DEF GotUpTo
  <2>4. got[L[p]] + Times(page, L[p]) = IF a + m < p THEN 0 ELSE 1
    BY <1>2, <2>2, <2>3
  <2>5. got'[L[p]] = IF 2 <= got[L[p]] + Times(page, L[p]) THEN 2
                     ELSE got[L[p]] + Times(page, L[p])
    BY <1>3, <2>1
  <2> QED
    BY <2>4, <2>5
<1>5. \A d \in C : \E p \in 1..l : L[p] = d
  BY <1>1 DEF Shows
<1>6. \A d \in C : got'[d] <= 1
  <2> SUFFICES ASSUME NEW d \in C
               PROVE  got'[d] <= 1
    OBVIOUS
  <2>1. PICK p \in 1..l : L[p] = d
    BY <1>5
  <2>2. got'[d] = IF a + m < p THEN 0 ELSE 1
    BY <1>4, <2>1
  <2> QED
    BY <2>2
<1>7. ASSUME client' = "done", NEW d \in C
      PROVE  got'[d] = 1
  <2>1. page = <<>>
    BY <1>2, <1>7, TakeFacts
  <2>2. a = l
    BY <1>1, <2>1
  <2>3. PICK p \in 1..l : L[p] = d
    BY <1>5
  <2>4. got'[d] = IF a + m < p THEN 0 ELSE 1
    BY <1>4, <2>3
  <2> QED
    BY <1>2, <2>2, <2>4
<1>8. ASSUME client' = "paging", cursor' \in C, NEW d \in C
      PROVE  got'[d] = IF Earlier(down, cursor', d) THEN 0 ELSE 1
  <2>1. page # <<>>
    BY <1>2, <1>8, TakeFacts
  <2>2. m \in Nat \ {0} /\ cursor' = page[m]
    BY <1>2, <2>1, TakeFacts
  <2>3. a + m \in 1..l /\ cursor' = L[a + m]
    BY <1>2, <2>2
  <2>4. PICK p \in 1..l : L[p] = d
    BY <1>5
  <2>5. got'[d] = IF a + m < p THEN 0 ELSE 1
    BY <1>4, <2>4
  <2>6. PICK q \in 1..l : q = a + m
    BY <2>3
  <2>7. L[q] \in Single /\ L[p] \in Single
    BY <1>8, <2>3, <2>4, <2>6
  <2>8. q < p <=> Earlier(down, L[q], L[p])
    BY <1>1, <2>7, PlaceFacts
  <2> QED
    BY <2>3, <2>4, <2>5, <2>6, <2>8
<1> QED
  BY <1>6, <1>7, <1>8

-----------------------------------------------------------------------------
(* The invariant.                                                          *)

\* The client has got the documents that were not written since its first page up to
\* its cursor, each once, and none of the others; those are single documents.
GotInTurn ==
    /\ clean \subseteq Single
    /\ client = "idle" => clean = {} /\ \A d \in Docs : got[d] = 0
    /\ ~ broken => \A d \in clean : got[d] <= 1
    /\ client = "paging" /\ ~ broken /\ cursor \in clean =>
          \A d \in clean : got[d] = IF Earlier(desc, cursor, d) THEN 0 ELSE 1
    /\ client = "done" /\ ~ broken => \A d \in clean : got[d] = 1

\* The inductive invariant.
IInv == TypeOK /\ Listed /\ GotInTurn

\* TypeOK says what the walk needs.
LEMMA TypedHere ==
    ASSUME TypeOK
    PROVE  Typed
BY DEF TypeOK, Typed

\* Initially no document has a value, and the client has nothing.
LEMMA InitIInv ==
    ASSUME Init
    PROVE  IInv
<1>1. TypeOK
  <2>1. entries \in Seq(Entry) /\ Len(entries) = 0
    BY DEF Init
  <2>2. stored \in [Docs -> Values \cup {NoValue, NoDoc}]
    BY DEF Init
  <2>3. got \in [Docs -> 0..2]
    BY DEF Init
  <2>4. calls \in 0..MaxCalls
    BY BoundAssumption DEF Init
  <2>5. \A i \in 1..(Len(entries) - 1) : entries[i].value <= entries[i + 1].value
    BY <2>1
  <2>6. /\ deleted \subseteq Docs /\ clean \subseteq Docs
        /\ desc \in BOOLEAN /\ broken \in BOOLEAN
        /\ cursor \in Docs \cup {NoCursor} /\ client \in {"idle", "paging", "done"}
    BY DEF Init
  <2> QED
    BY <2>1, <2>2, <2>3, <2>4, <2>5, <2>6 DEF TypeOK
<1>2. Listed
  BY ValuesAssumption DEF Init, Listed
<1>3. GotInTurn
  BY DEF Init, GotInTurn
<1> QED
  BY <1>1, <1>2, <1>3 DEF IInv

-----------------------------------------------------------------------------
(* Writes.                                                                 *)

\* A document that stays clean keeps its value, and the client what it got of it.
LEMMA WriteGot ==
    ASSUME TypeOK, GotInTurn, NEW d \in Docs, NEW v,
           stored' = [stored EXCEPT ![d] = v], Write(d)
    PROVE  GotInTurn'
<1>1. /\ clean' = {e \in clean \ {d} : Clean(e, entries')}
      /\ UNCHANGED <<cursor, client, desc, got, broken>>
  BY DEF Write
<1>2. \A e \in clean' : e \in clean /\ stored'[e] = stored[e]
  BY <1>1 DEF TypeOK
<1>3. (clean \subseteq Single)'
  BY <1>1, <1>2 DEF GotInTurn, Single
<1>4. (client = "idle" => clean = {} /\ \A e \in Docs : got[e] = 0)'
  BY <1>1 DEF GotInTurn
<1>5. (~ broken => \A e \in clean : got[e] <= 1)'
  BY <1>1, <1>2 DEF GotInTurn
<1>6. (client = "paging" /\ ~ broken /\ cursor \in clean =>
          \A e \in clean : got[e] = IF Earlier(desc, cursor, e) THEN 0 ELSE 1)'
  BY <1>1, <1>2 DEF GotInTurn, Earlier
<1>7. (client = "done" /\ ~ broken => \A e \in clean : got[e] = 1)'
  BY <1>1, <1>2 DEF GotInTurn
<1> QED
  BY <1>3, <1>4, <1>5, <1>6, <1>7 DEF GotInTurn

\* What a write leaves of the types.
LEMMA WriteTypes ==
    ASSUME TypeOK, NEW d \in Docs, NEW v \in Values \cup {NoValue, NoDoc},
           stored' = [stored EXCEPT ![d] = v], Write(d),
           entries' \in Seq(Entry),
           \A i \in 1..(Len(entries') - 1) : entries'[i].value <= entries'[i + 1].value,
           deleted' \subseteq Docs
    PROVE  TypeOK'
<1>1. stored' \in [Docs -> Values \cup {NoValue, NoDoc}]
  BY DEF TypeOK
<1>2. calls' \in 0..MaxCalls
  BY BoundAssumption DEF TypeOK, Write
<1>3. clean' \subseteq Docs
  BY DEF TypeOK, Write
<1> QED
  BY <1>1, <1>2, <1>3 DEF TypeOK, Write

\* An Index with a value leaves the old entry of the document behind, and sorts the new
\* one in: the document is then listed, and clean only if it was new.
LEMMA IndexIInv ==
    ASSUME IInv, NEW d \in Docs, NEW v \in Values, Index(d, v)
    PROVE  IInv'
<1> DEFINE e == [doc |-> d, value |-> v]
<1>1. /\ stored' = [stored EXCEPT ![d] = v] /\ Write(d)
      /\ entries' \in Sorted(Append(entries, e))
      /\ deleted' = deleted \ {d}
  BY DEF Index
<1>2. TypeOK /\ Listed /\ GotInTurn /\ e \in Entry /\ entries \in Seq(Entry)
  BY DEF IInv, TypeOK, Entry
<1>e. e.doc = d /\ e.value = v
  OBVIOUS
<1> HIDE DEF e
<1>3. /\ entries' \in Seq(Entry)
      /\ \A i \in 1..(Len(entries') - 1) : entries'[i].value <= entries'[i + 1].value
      /\ \A i \in DOMAIN entries : \E j \in DOMAIN entries' : entries'[j] = entries[i]
      /\ \E j \in DOMAIN entries' : entries'[j] = e
  BY <1>1, <1>2, AddedFacts
<1>4. TypeOK'
  <2>1. deleted' \subseteq Docs
    BY <1>1, <1>2 DEF TypeOK
  <2> QED
    BY <1>1, <1>2, <1>3, <2>1, WriteTypes
<1>5. Listed'
  <2> SUFFICES ASSUME NEW x \in Docs, stored'[x] \in Values
               PROVE  /\ x \notin deleted'
                      /\ \E i \in DOMAIN entries' : /\ entries'[i].doc = x
                                                    /\ entries'[i].value = stored'[x]
    BY DEF Listed
  <2>1. CASE x = d
    <3>1. stored'[x] = v
      BY <1>1, <1>2, <2>1 DEF TypeOK
    <3> QED
      BY <1>1, <1>3, <1>e, <2>1, <3>1
  <2>2. CASE x # d
    <3>1. stored'[x] = stored[x]
      BY <1>1, <1>2, <2>2 DEF TypeOK
    <3>2. PICK i \in DOMAIN entries : entries[i].doc = x /\ entries[i].value = stored[x]
      BY <1>2, <3>1 DEF Listed
    <3>3. PICK j \in DOMAIN entries' : entries'[j] = entries[i]
      BY <1>3
    <3>4. x \notin deleted'
      BY <1>1, <1>2, <3>1 DEF Listed
    <3> QED
      BY <3>1, <3>2, <3>3, <3>4
  <2> QED
    BY <2>1, <2>2
<1>6. GotInTurn'
  BY <1>1, <1>2, WriteGot
<1> QED
  BY <1>4, <1>5, <1>6 DEF IInv

\* IndexOther and Delete: the document has no value that it is sorted by, and the
\* entries are the same.
LEMMA OtherIInv ==
    ASSUME IInv, NEW d \in Docs, NEW v \in {NoValue, NoDoc},
           stored' = [stored EXCEPT ![d] = v], Write(d),
           entries' = entries \/ entries' \in Sorted(entries),
           deleted' \subseteq deleted \cup {d}
    PROVE  IInv'
<1>1. TypeOK /\ Listed /\ GotInTurn /\ entries \in Seq(Entry)
  BY DEF IInv, TypeOK
<1>2. /\ entries' \in Seq(Entry)
      /\ \A i \in 1..(Len(entries') - 1) : entries'[i].value <= entries'[i + 1].value
      /\ \A i \in DOMAIN entries : \E j \in DOMAIN entries' : entries'[j] = entries[i]
  <2>1. CASE entries' = entries
    BY <1>1, <2>1 DEF TypeOK
  <2>2. CASE entries' \in Sorted(entries)
    BY <1>1, <2>2, SortedFacts
  <2> QED
    BY <2>1, <2>2
<1>3. TypeOK'
  <2>1. deleted' \subseteq Docs
    BY <1>1 DEF TypeOK
  <2> QED
    BY <1>1, <1>2, <2>1, WriteTypes
<1>4. Listed'
  <2> SUFFICES ASSUME NEW x \in Docs, stored'[x] \in Values
               PROVE  /\ x \notin deleted'
                      /\ \E i \in DOMAIN entries' : /\ entries'[i].doc = x
                                                    /\ entries'[i].value = stored'[x]
    BY DEF Listed
  <2>1. x # d
    <3>1. stored'[d] = v /\ v \notin Int
      BY <1>1, ValuesAssumption DEF TypeOK
    <3> QED
      BY <3>1, ValuesAssumption
  <2>2. stored'[x] = stored[x]
    BY <1>1, <2>1 DEF TypeOK
  <2>3. PICK i \in DOMAIN entries : entries[i].doc = x /\ entries[i].value = stored[x]
    BY <1>1, <2>2 DEF Listed
  <2>4. PICK j \in DOMAIN entries' : entries'[j] = entries[i]
    BY <1>2
  <2>5. x \notin deleted'
    BY <1>1, <2>1, <2>2 DEF Listed
  <2> QED
    BY <2>2, <2>3, <2>4, <2>5
<1>5. GotInTurn'
  BY <1>1, WriteGot
<1> QED
  BY <1>3, <1>4, <1>5 DEF IInv

-----------------------------------------------------------------------------
(* The client.                                                             *)

\* A page is the beginning of what is behind the first a documents.
LEMMA CutStretch ==
    ASSUME NEW L \in Seq(Docs), NEW a \in 0..Len(L), NEW s \in Seq(Docs),
           Len(s) = Len(L) - a, \A i \in 1..Len(s) : s[i] = L[a + i]
    PROVE  /\ \E m : Stretch(Cut(s, Size), L, a, m)
           /\ Cut(s, Size) = <<>> => a = Len(L)
<1>1. PICK l \in Nat : l = Len(L)
  BY LenProperties
<1>2. PICK n \in Nat : n = Len(s)
  BY LenProperties
<1>3. Size \in Nat /\ Size > 0
  BY SizeAssumption
<1>4. PICK m \in 0..n :
         /\ Cut(s, Size) \in Seq(Docs)
         /\ Len(Cut(s, Size)) = m
         /\ \A i \in 1..m : Cut(s, Size)[i] = s[i]
         /\ m = IF Size > 0 /\ n > Size THEN Size ELSE n
  <2>1. \E m \in 0..Len(s) :
           /\ Cut(s, Size) \in Seq(Docs)
           /\ Len(Cut(s, Size)) = m
           /\ \A i \in 1..m : Cut(s, Size)[i] = s[i]
           /\ m = IF Size > 0 /\ Len(s) > Size THEN Size ELSE Len(s)
    BY <1>3, CutFacts
  <2> QED
    BY <1>2, <2>1
<1>5. Stretch(Cut(s, Size), L, a, m)
  <2>1. a \in Nat /\ m \in Nat /\ a + m <= Len(L)
    BY <1>1, <1>2
  <2>2. \A i \in 1..m : Cut(s, Size)[i] = L[a + i]
    BY <1>2, <1>4
  <2> QED
    BY <1>4, <2>1, <2>2 DEF Stretch
<1>6. ASSUME Cut(s, Size) = <<>>
      PROVE  a = Len(L)
  <2>1. m = 0
    BY <1>4, <1>6
  <2> QED
    BY <1>1, <1>2, <1>3, <1>4, <2>1
<1> QED
  BY <1>5, <1>6

\* What is behind a cursor that is in the list once.
LEMMA AfterFacts ==
    ASSUME NEW L \in Seq(Docs), NEW after
    PROVE  /\ AfterCursor(L, after) \in Seq(Docs)
           /\ \A c \in DOMAIN L :
                 L[c] = after /\ (\A i \in DOMAIN L : L[i] = after => i = c) =>
                     /\ Len(AfterCursor(L, after)) = Len(L) - c
                     /\ \A i \in 1..(Len(L) - c) : AfterCursor(L, after)[i] = L[c + i]
<1> DEFINE at == {i \in DOMAIN L : L[i] = after}
           A == AfterCursor(L, after)
<1>1. PICK l \in Nat : l = Len(L) /\ DOMAIN L = 1..l
  BY LenProperties
<1>2. A = IF at = {} THEN <<>> ELSE SubSeq(L, Min(at) + 1, Len(L))
  BY DEF AfterCursor
<1>3. at \subseteq 1..l
  BY <1>1
<1>4. at # {} => Min(at) \in at
  <2> SUFFICES ASSUME at # {}
               PROVE  Min(at) \in at
    OBVIOUS
  <2>1. at \in SUBSET Nat
    BY <1>3
  <2> HIDE DEF at
  <2>2. \E x \in at : \A y \in at : x <= y
    BY <2>1, LeastNatural
  <2>3. Min(at) = CHOOSE x \in at : \A y \in at : x <= y
    BY DEF Min
  <2> QED
    BY <2>2, <2>3
<1>5. ASSUME NEW c \in 1..l
      PROVE  /\ SubSeq(L, c + 1, Len(L)) \in Seq(Docs)
             /\ Len(SubSeq(L, c + 1, Len(L))) = l - c
             /\ \A i \in 1..(l - c) : SubSeq(L, c + 1, Len(L))[i] = L[c + i]
  <2>1. c + 1 \in Int /\ l \in Int
    OBVIOUS
  <2>2. \A i \in (c + 1)..l : L[i] \in Docs
    <3>1. \A i \in (c + 1)..l : i \in 1..Len(L)
      BY <1>1
    <3> QED
      BY <3>1, ElementOfSeq
  <2>3. /\ SubSeq(L, c + 1, l) \in Seq(Docs)
        /\ Len(SubSeq(L, c + 1, l)) = IF c + 1 <= l THEN l - (c + 1) + 1 ELSE 0
        /\ \A i \in 1..(l - (c + 1) + 1) : SubSeq(L, c + 1, l)[i] = L[(c + 1) + i - 1]
    BY <2>1, <2>2, SubSeqProperties
  <2>4. Len(SubSeq(L, c + 1, l)) = l - c /\ l - (c + 1) + 1 = l - c
    BY <2>3
  <2>5. \A i \in 1..(l - c) : (c + 1) + i - 1 = c + i
    OBVIOUS
  <2> QED
    BY <1>1, <2>3, <2>4, <2>5
<1>6. A \in Seq(Docs)
  <2>1. CASE at = {}
    BY <1>2, <2>1
  <2>2. CASE at # {}
    <3>1. PICK c \in 1..l : c = Min(at)
      BY <1>3, <1>4, <2>2
    <3> QED
      BY <1>2, <1>5, <2>2, <3>1
  <2> QED
    BY <2>1, <2>2
<1>7. ASSUME NEW c \in DOMAIN L, L[c] = after, \A i \in DOMAIN L : L[i] = after => i = c
      PROVE  A = SubSeq(L, c + 1, Len(L)) /\ c \in 1..l
  <2>1. at = {c}
    BY <1>7
  <2>2. Min(at) = c
    BY <1>4, <2>1
  <2> HIDE DEF at
  <2> QED
    BY <1>1, <1>2, <2>1, <2>2
<1> HIDE DEF A
<1>8. ASSUME NEW c \in DOMAIN L, L[c] = after, \A i \in DOMAIN L : L[i] = after => i = c
      PROVE  /\ Len(A) = Len(L) - c
             /\ \A i \in 1..(Len(L) - c) : A[i] = L[c + i]
  <2>1. A = SubSeq(L, c + 1, Len(L)) /\ c \in 1..l
    BY <1>7, <1>8
  <2> QED
    BY <1>1, <1>5, <2>1
<1> QED
  BY <1>6, <1>8 DEF A

\* What any page leaves of the types.
LEMMA TakeTypes ==
    ASSUME TypeOK, NEW page \in Seq(Docs), Take(page),
           UNCHANGED <<entries, deleted, stored, calls>>,
           desc' \in BOOLEAN, broken' \in BOOLEAN, clean' \subseteq Docs
    PROVE  TypeOK' /\ client' # "idle"
<1>1. got' \in [Docs -> 0..2] /\ client' \in {"paging", "done"}
      /\ cursor' \in Docs \cup {NoCursor}
  BY TakeFacts DEF TypeOK
<1> QED
  BY <1>1 DEF TypeOK

\* A client that starts over gets the beginning of the list.
LEMMA FirstPageIInv ==
    ASSUME IInv, FirstPage
    PROVE  IInv'
<1>1. TypeOK /\ Listed /\ GotInTurn /\ Typed
  BY TypedHere DEF IInv
<1>2. PICK down \in BOOLEAN : down = desc'
  BY DEF FirstPage
<1>3. PICK page : page = Results(down, Size) /\ Take(page)
  BY <1>2 DEF FirstPage
<1>4. /\ client = "idle" /\ clean' = Single
      /\ UNCHANGED <<entries, deleted, stored, broken, calls>>
  BY DEF FirstPage, Single
<1>5. PICK n \in Nat : n = Len(Walk(down, 0))
  BY <1>1, WalkFacts, LenProperties DEF Typed
<1>6. PICK k \in 0..n : page = Cut(Layout(down, k), Size)
  <2>1. Size \in Nat
    BY SizeAssumption
  <2>2. \E k \in 0..n : /\ Results(down, Size) = Cut(Layout(down, k), Size)
                        /\ Size = 0 => k = n
    BY <1>1, <1>5, <2>1, ResultsLayout
  <2> QED
    BY <1>3, <2>2
<1>7. PICK L : L = Layout(down, k)
  OBVIOUS
<1>8. Shows(down, L) /\ L \in Seq(Docs)
  <2>1. Shows(down, Layout(down, k))
    BY <1>1, <1>5, LayoutShows
  <2> QED
    BY <1>7, <2>1 DEF Shows
<1>9. PICK m : Stretch(page, L, 0, m) /\ (page = <<>> => 0 = Len(L))
  <2>1. 0 \in 0..Len(L) /\ Len(L) = Len(L) - 0 /\ \A i \in 1..Len(L) : L[i] = L[0 + i]
    BY <1>8, LenProperties
  <2>2. /\ \E m : Stretch(Cut(L, Size), L, 0, m)
        /\ Cut(L, Size) = <<>> => 0 = Len(L)
    BY <1>8, <2>1, CutStretch
  <2> QED
    BY <1>6, <1>7, <2>2
<1>10. page \in Seq(Docs)
  BY <1>9 DEF Stretch
<1>11. got \in [Docs -> 0..2] /\ \A d \in Docs : got[d] = 0
  BY <1>1, <1>4 DEF TypeOK, GotInTurn
<1>12. GotUpTo(L, 0, Single) /\ Single \in SUBSET Single
  <2>1. \A p \in DOMAIN L : 0 < p
    BY <1>8, LenProperties
  <2>2. \A d \in Single : d \in Docs
    BY DEF Single
  <2> QED
    BY <1>11, <2>1, <2>2 DEF GotUpTo
<1>13. /\ \A d \in Single : got'[d] <= 1
       /\ client' = "done" => \A d \in Single : got'[d] = 1
       /\ client' = "paging" /\ cursor' \in Single =>
             \A d \in Single : got'[d] = IF Earlier(down, cursor', d) THEN 0 ELSE 1
  BY <1>1, <1>3, <1>8, <1>9, <1>11, <1>12, TakeInTurn
<1>14. TypeOK' /\ client' # "idle"
  <2>1. clean' \subseteq Docs /\ desc' \in BOOLEAN /\ broken' \in BOOLEAN
    BY <1>1, <1>2, <1>4 DEF Single, TypeOK
  <2> QED
    BY <1>1, <1>3, <1>4, <1>10, <2>1, TakeTypes
<1>15. Listed'
  BY <1>1, <1>4 DEF Listed
<1>16. Single' = Single
  BY <1>4 DEF Single, Clean
<1>17. GotInTurn'
  BY <1>2, <1>4, <1>13, <1>14, <1>16 DEF GotInTurn, Earlier
<1> QED
  BY <1>14, <1>15, <1>17 DEF IInv

\* A next page goes on behind the cursor: the single documents that are there are those
\* the client has not got.
LEMMA NextPageIInv ==
    ASSUME IInv, NextPage
    PROVE  IInv'
<1>1. TypeOK /\ Listed /\ GotInTurn /\ Typed
  BY TypedHere DEF IInv
<1>2. desc \in BOOLEAN /\ got \in [Docs -> 0..2]
  BY <1>1 DEF TypeOK
<1>3. PICK page : page = Cut(AfterCursor(Found(Walk(desc, 0), 0), cursor), Size) /\ Take(page)
  BY DEF NextPage
<1>4. /\ client = "paging"
      /\ UNCHANGED <<entries, deleted, stored, desc, clean, calls>>
      /\ broken' = (broken \/ cursor \notin clean)
  BY DEF NextPage
<1>5. PICK n \in Nat : n = Len(Walk(desc, 0))
  BY <1>1, <1>2, WalkFacts, LenProperties DEF Typed
<1>6. PICK L : L = Layout(desc, n)
  OBVIOUS
<1>7. page = Cut(AfterCursor(L, cursor), Size)
  <2>1. Found(Walk(desc, 0), 0) = Layout(desc, n)
    BY <1>1, <1>2, <1>5, AllResults
  <2> QED
    BY <1>3, <1>6, <2>1
<1>8. Shows(desc, L) /\ L \in Seq(Docs)
  <2>1. n \in 0..n
    OBVIOUS
  <2>2. Shows(desc, Layout(desc, n))
    BY <1>1, <1>2, <1>5, <2>1, LayoutShows
  <2> QED
    BY <1>6, <2>2 DEF Shows
<1>9. PICK A \in Seq(Docs) : A = AfterCursor(L, cursor)
  BY <1>8, AfterFacts
<1>10. page \in Seq(Docs)
  <2>1. Size \in Nat
    BY SizeAssumption
  <2>2. Cut(A, Size) \in Seq(Docs)
    BY <2>1, CutFacts
  <2> QED
    BY <1>7, <1>9, <2>2
<1>11. TypeOK' /\ client' # "idle"
  <2>1. clean' \subseteq Docs /\ desc' \in BOOLEAN /\ broken' \in BOOLEAN
    BY <1>1, <1>4 DEF TypeOK
  <2> QED
    BY <1>1, <1>3, <1>4, <1>10, <2>1, TakeTypes
<1>12. Listed'
  BY <1>1, <1>4 DEF Listed
<1>13. Single' = Single
  BY <1>4 DEF Single, Clean
<1>14. clean \in SUBSET Single
  BY <1>1 DEF GotInTurn
<1>15. ASSUME ~ broken'
       PROVE  /\ \A d \in clean : got'[d] <= 1
              /\ client' = "done" => \A d \in clean : got'[d] = 1
              /\ client' = "paging" /\ cursor' \in clean =>
                    \A d \in clean : got'[d] = IF Earlier(desc, cursor', d) THEN 0 ELSE 1
  <2>1. ~ broken /\ cursor \in clean /\ cursor \in Single
    BY <1>4, <1>14, <1>15
  <2>2. \A d \in clean : got[d] = IF Earlier(desc, cursor, d) THEN 0 ELSE 1
    BY <1>1, <1>4, <2>1 DEF GotInTurn
  <2>3. PICK c \in DOMAIN L : L[c] = cursor
    BY <1>8, <2>1 DEF Shows
  <2>4. \A i \in DOMAIN L : L[i] = cursor => i = c
    BY <1>1, <1>2, <1>8, <2>1, <2>3, PlaceFacts
  <2>5. Len(A) = Len(L) - c /\ \A i \in 1..(Len(L) - c) : A[i] = L[c + i]
    BY <1>8, <1>9, <2>3, <2>4, AfterFacts
  <2>6. c \in 0..Len(L)
    BY <1>8, LenProperties
  <2>7. PICK m : Stretch(page, L, c, m) /\ (page = <<>> => c = Len(L))
    <3>1. /\ \E m : Stretch(Cut(A, Size), L, c, m)
          /\ Cut(A, Size) = <<>> => c = Len(L)
      BY <1>8, <2>5, <2>6, CutStretch
    <3> QED
      BY <1>7, <1>9, <3>1
  <2>8. GotUpTo(L, c, clean)
    <3> SUFFICES ASSUME NEW p \in DOMAIN L, L[p] \in clean
                 PROVE  got[L[p]] = IF c < p THEN 0 ELSE 1
      BY DEF GotUpTo
    <3>1. L[p] \in Single /\ L[c] \in Single
      BY <1>14, <2>1, <2>3
    <3>2. c < p <=> Earlier(desc, L[c], L[p])
      BY <1>1, <1>2, <1>8, <3>1, PlaceFacts
    <3> QED
      BY <2>2, <2>3, <3>2
  <2> QED
    BY <1>1, <1>2, <1>3, <1>8, <1>14, <2>7, <2>8, TakeInTurn
<1>16. GotInTurn'
  BY <1>4, <1>11, <1>13, <1>14, <1>15 DEF GotInTurn, Earlier
<1> QED
  BY <1>11, <1>12, <1>16 DEF IInv

-----------------------------------------------------------------------------
(* Theorems.                                                               *)

\* Each step keeps the invariant.
LEMMA StepIInv ==
    ASSUME IInv, [Next]_vars
    PROVE  IInv'
<1>1. CASE UNCHANGED vars
  <2>1. UNCHANGED <<entries, deleted, stored, cursor, client, desc, got, clean, broken, calls>>
    BY <1>1 DEF vars
  <2>2. TypeOK'
    BY <2>1 DEF IInv, TypeOK
  <2>3. Listed'
    BY <2>1 DEF IInv, Listed
  <2>4. GotInTurn'
    BY <2>1 DEF IInv, GotInTurn, Single, Clean, Earlier
  <2> QED
    BY <2>2, <2>3, <2>4 DEF IInv
<1>2. CASE FirstPage
  BY <1>2, FirstPageIInv
<1>3. CASE NextPage
  BY <1>3, NextPageIInv
<1>4. ASSUME NEW d \in Docs, Delete(d)
      PROVE  IInv'
  BY <1>4, OtherIInv DEF Delete
<1>5. ASSUME NEW d \in Docs, IndexOther(d)
      PROVE  IInv'
  <2>1. /\ stored' = [stored EXCEPT ![d] = NoValue] /\ Write(d)
        /\ entries' = entries \/ entries' \in Sorted(entries)
        /\ deleted' \subseteq deleted \cup {d}
    BY <1>5 DEF IndexOther
  <2> QED
    BY <2>1, OtherIInv
<1>6. ASSUME NEW d \in Docs, NEW v \in Values, Index(d, v)
      PROVE  IInv'
  BY <1>6, IndexIInv
<1> QED
  BY <1>1, <1>2, <1>3, <1>4, <1>5, <1>6 DEF Next, Writes

\* So it always holds.
LEMMA Invariance == Spec => []IInv
<1>1. Init => IInv
  BY InitIInv
<1>2. IInv /\ [Next]_vars => IInv'
  BY StepIInv
<1> QED
  BY <1>1, <1>2, PTL DEF Spec

\* TypeOK: entries are sorted by value, and the client has a cursor while it is paging.
THEOREM TypeCorrect == Spec => []TypeOK
<1>1. IInv => TypeOK
  BY DEF IInv
<1> QED
  BY <1>1, Invariance, PTL

(***************************************************************************)
(* CleanOnce: applyPagination with the cursor of the last page goes on     *)
(* where that page ended, so a client that reaches the end got every       *)
(* document it did not see written once.                                   *)
(***************************************************************************)
THEOREM CleanOnceCorrect == Spec => []CleanOnce
<1>1. IInv => CleanOnce
  <2> SUFFICES ASSUME IInv
               PROVE  CleanOnce
    OBVIOUS
  <2> QED
    BY DEF IInv, GotInTurn, CleanOnce
<1> QED
  BY <1>1, Invariance, PTL

-----------------------------------------------------------------------------
(* All results together.                                                   *)

\* As many documents as a one-to-one list of their places.
LEMMA SameNumber ==
    ASSUME NEW S, NEW T, NEW h \in [S -> T], IsFiniteSet(S),
           \A x, y \in S : h[x] = h[y] => x = y,
           \A t \in T : \E x \in S : h[x] = t
    PROVE  Cardinality(S) = Cardinality(T)
<1>1. h \in Injection(S, T)
  BY DEF Injection, IsInjective
<1>2. h \in Surjection(S, T)
  BY DEF Surjection
<1>3. h \in Bijection(S, T)
  BY <1>1, <1>2 DEF Bijection
<1>4. ExistsBijection(S, T)
  BY <1>3 DEF ExistsBijection
<1> QED
  BY <1>4, FS_Bijection

\* What takes n numbers to all of n numbers takes no two of them to the same.
LEMMA OntoIsOneToOne ==
    ASSUME NEW n \in Nat, NEW g \in [1..n -> 1..n],
           \A i \in 1..n : \E p \in 1..n : g[p] = i
    PROVE  \A p, q \in 1..n : g[p] = g[q] => p = q
<1>1. IsFiniteSet(1..n)
  <2>1. 1 \in Int /\ n \in Int
    OBVIOUS
  <2> QED
    BY <2>1, FS_Interval
<1>2. g \in Surjection(1..n, 1..n)
  BY DEF Surjection
<1>3. g \in Injection(1..n, 1..n)
  BY <1>1, <1>2, FS_SurjSameCardinalityImpliesInj
<1> QED
  BY <1>3 DEF Injection, IsInjective

\* The list has a document of the store once for each entry it shows of it, and once
\* if it shows none.
LEMMA LayoutTimes ==
    ASSUME Typed, NEW down \in BOOLEAN, NEW n \in Nat, n = Len(Walk(down, 0)),
           NEW k \in 0..n, NEW d \in Docs
    PROVE  Times(Layout(down, k), d)
           = IF stored[d] = NoDoc THEN 0 ELSE IF Own(d) = {} THEN 1 ELSE Cardinality(Own(d))
<1> DEFINE W == Walk(down, 0)
           L == Layout(down, k)
           m == Len(Rest)
           a == At(down)
<1>1. /\ L \in Seq(Docs) /\ Len(L) = n + m
      /\ m \in Nat /\ DOMAIN Rest = 1..m
  BY LayoutFrom, RestFacts, LenProperties
<1>2. DOMAIN L = 1..(n + m)
  BY <1>1, LenProperties
<1>3. ASSUME NEW p \in 1..(n + m), p > n
      PROVE  L[p] = Rest[p - n] /\ p - n \in 1..m
  <2>1. ~ (p <= k) /\ ~ (p <= n) /\ p - n \in 1..m
    BY <1>1, <1>3
  <2> HIDE DEF m
  <2> QED
    BY <2>1, <1>3 DEF Layout, m
<1>4. /\ \A p \in DOMAIN L : /\ stored[L[p]] # NoDoc
                             /\ p <= n <=> \E i \in SortValues : entries[i].doc = L[p]
      /\ stored[d] # NoDoc => \E p \in DOMAIN L : L[p] = d
  BY LayoutAll
<1>5. \A p, q \in 1..m : Rest[p] = Rest[q] => p = q
  BY <1>1, RestFacts
<1>g. PICK g : TakenFrom(g, down, n, k)
  BY LayoutFrom
<1>6. /\ g \in [1..n -> 1..n]
      /\ \A i \in 1..n : \E p \in 1..n : g[p] = i
      /\ \A p \in 1..n : L[p] = W[g[p]]
  BY <1>g DEF TakenFrom
<1>7. \A p, q \in 1..n : g[p] = g[q] => p = q
  <2>1. g \in [1..n -> 1..n] /\ \A i \in 1..n : \E p \in 1..n : g[p] = i
    BY <1>6
  <2> QED
    BY <2>1, OntoIsOneToOne
<1>8. PICK l \in Nat :
         /\ a \in [1..l -> Shown]
         /\ \A i \in Shown : \E p \in 1..l : a[p] = i
         /\ \A p, q \in 1..l : p < q => Further(down, a[p], a[q])
  BY AtFacts DEF Typed
<1>9. l = n /\ \A p \in 1..n : W[p] = entries[a[p]].doc
  <2>1. /\ W \in Seq(Docs) /\ DOMAIN W = DOMAIN a
        /\ \A p \in DOMAIN a : W[p] = entries[a[p]].doc
    BY WalkFacts DEF Typed
  <2>2. DOMAIN W = 1..n
    BY <2>1, LenProperties
  <2>3. DOMAIN a = 1..l
    BY <1>8
  <2> HIDE DEF W, a
  <2>4. 1..l = 1..n
    BY <2>1, <2>2, <2>3
  <2>5. l = n
    <3>1. n \in 1..n \/ n = 0
      OBVIOUS
    <3>2. l \in 1..l \/ l = 0
      OBVIOUS
    <3> QED
      BY <2>4, <3>1, <3>2
  <2> QED
    BY <2>1, <2>3, <2>5
<1>10. \A p, q \in 1..n : a[p] = a[q] => p = q
  <2> SUFFICES ASSUME NEW p \in 1..n, NEW q \in 1..n, p # q
               PROVE  a[p] # a[q]
    OBVIOUS
  <2>1. a[p] \in Int /\ a[q] \in Int
    <3>1. Shown \subseteq DOMAIN entries
      BY DEF Shown, SortValues
    <3>2. DOMAIN entries \subseteq Int
      BY LenProperties DEF Typed
    <3> QED
      BY <1>8, <1>9, <3>1, <3>2
  <2>2. p < q \/ q < p
    OBVIOUS
  <2>3. Further(down, a[p], a[q]) \/ Further(down, a[q], a[p])
    BY <1>8, <1>9, <2>2
  <2> QED
    BY <2>1, <2>3 DEF Further
<1> DEFINE at == {p \in DOMAIN L : L[p] = d}
<1>11. Times(L, d) = Cardinality(at)
  BY DEF Times
<1> HIDE DEF L, W, m, a
<1>12. CASE stored[d] = NoDoc
  <2>1. \A p \in DOMAIN L : L[p] # d
    BY <1>4, <1>12
  <2>2. at = {}
    BY <2>1
  <2> QED
    BY <1>11, <1>12, <2>2, FS_EmptySet DEF L
<1>13. CASE stored[d] # NoDoc /\ Own(d) = {}
  <2>1. PICK p \in DOMAIN L : L[p] = d
    BY <1>4, <1>13
  <2>2. \A q \in at : q \in 1..(n + m) /\ q > n
    BY <1>2, <1>4, <1>13 DEF Own
  <2>3. \A q \in at : q = p
    <3> SUFFICES ASSUME NEW q \in at
                 PROVE  q = p
      OBVIOUS
    <3>1. L[q] = d /\ L[p] = d /\ p \in 1..(n + m) /\ q \in 1..(n + m) /\ p > n /\ q > n
      BY <2>1, <2>2
    <3>2. p - n = q - n
      BY <1>3, <1>5, <3>1
    <3> QED
      BY <3>1, <3>2
  <2>4. at = {p}
    BY <2>1, <2>3
  <2> HIDE DEF at
  <2> QED
    BY <1>11, <1>13, <2>4, FS_Singleton DEF L
<1>14. CASE stored[d] # NoDoc /\ Own(d) # {}
  <2>1. \A p \in at : p \in 1..n
    <3> SUFFICES ASSUME NEW p \in at
                 PROVE  p \in 1..n
      OBVIOUS
    <3>1. p \in 1..(n + m) /\ L[p] = d /\ p <= n
      BY <1>2, <1>4, <1>14 DEF Own
    <3> QED
      BY <3>1
  <2>2. \A p \in 1..n : p \in at <=> entries[a[g[p]]].doc = d
    <3>1. \A p \in 1..n : p \in DOMAIN L
      BY <1>1, <1>2
    <3> QED
      BY <1>6, <1>9, <3>1
  <2>3. \A i \in Own(d) : i \in Shown
    BY <1>14 DEF Own, Shown
  <2> HIDE DEF at
  <2> DEFINE h == [p \in at |-> a[g[p]]]
  <2>4. h \in [at -> Own(d)]
    <3>1. \A p \in at : a[g[p]] \in Shown
      BY <1>6, <1>8, <1>9, <2>1
    <3>2. \A p \in at : a[g[p]] \in Own(d)
      BY <2>1, <2>2, <3>1 DEF Own, Shown
    <3> QED
      BY <3>2
  <2>5. \A p, q \in at : h[p] = h[q] => p = q
    <3> SUFFICES ASSUME NEW p \in at, NEW q \in at, h[p] = h[q]
                 PROVE  p = q
      OBVIOUS
    <3>1. p \in 1..n /\ q \in 1..n /\ a[g[p]] = a[g[q]]
      BY <2>1
    <3>2. g[p] \in 1..n /\ g[q] \in 1..n
      BY <1>6, <3>1
    <3>3. g[p] = g[q]
      BY <1>10, <3>1, <3>2
    <3> QED
      BY <1>7, <3>1, <3>3
  <2>6. \A i \in Own(d) : \E p \in at : h[p] = i
    <3> SUFFICES ASSUME NEW i \in Own(d)
                 PROVE  \E p \in at : h[p] = i
      OBVIOUS
    <3>1. PICK q \in 1..n : a[q] = i
      BY <1>8, <1>9, <2>3
    <3>2. PICK p \in 1..n : g[p] = q
      BY <1>6
    <3>3. p \in at
      BY <2>2, <3>1, <3>2 DEF Own
    <3> QED
      BY <3>1, <3>2, <3>3
  <2>7. IsFiniteSet(at)
    <3>1. 1 \in Int /\ n \in Int
      OBVIOUS
    <3>2. IsFiniteSet(1..n)
      BY <3>1, FS_Interval
    <3>3. at \in SUBSET (1..n)
      BY <2>1
    <3> QED
      BY <3>2, <3>3, FS_Subset
  <2> HIDE DEF h
  <2>8. Cardinality(at) = Cardinality(Own(d))
    BY <2>4, <2>5, <2>6, <2>7, SameNumber
  <2> QED
    BY <1>11, <1>14, <2>8 DEF L
<1> QED
  BY <1>12, <1>13, <1>14

(***************************************************************************)
(* ResultsInOrder: sortFirstSearch returns every document of the store as  *)
(* often as it has entries, or once, and nothing else; those whose entries *)
(* are plain come in the order of their values, before those without the   *)
(* field.                                                                  *)
(***************************************************************************)
THEOREM ResultsInOrderCorrect == Spec => []ResultsInOrder
<1>1. IInv => ResultsInOrder
  <2> SUFFICES ASSUME IInv
               PROVE  ResultsInOrder
    OBVIOUS
  <2>1. Typed /\ Listed
    BY TypedHere DEF IInv
  <2>d. PICK down \in BOOLEAN : ~ down /\ Results(down, 0) = Results(FALSE, 0)
    OBVIOUS
  <2>2. PICK n \in Nat : n = Len(Walk(down, 0))
    BY <2>1, WalkFacts, LenProperties DEF Typed
  <2>3. PICK s : s = Layout(down, n)
    OBVIOUS
  <2>4. n \in 0..n /\ Results(FALSE, 0) = s
    <3>1. Results(down, 0) = Layout(down, n)
      BY <2>1, <2>2, AllResults
    <3>2. n \in 0..n
      OBVIOUS
    <3>3. Results(FALSE, 0) = s
      BY <2>d, <2>3, <3>1, Zenon
    <3> QED
      BY <3>2, <3>3
  <2>5. /\ \A p \in DOMAIN s : /\ s[p] \in Docs /\ stored[s[p]] # NoDoc
                               /\ p <= n <=> \E i \in SortValues : entries[i].doc = s[p]
        /\ \A d \in Docs : stored[d] # NoDoc => \E p \in DOMAIN s : s[p] = d
    <3>1. /\ \A p \in DOMAIN Layout(down, n) :
                LET d == Layout(down, n)[p]
                IN  /\ d \in Docs /\ stored[d] # NoDoc
                    /\ p <= n <=> \E i \in SortValues : entries[i].doc = d
          /\ \A d \in Docs : stored[d] # NoDoc =>
                \E p \in DOMAIN Layout(down, n) : Layout(down, n)[p] = d
      BY <2>1, <2>2, <2>4, LayoutAll
    <3> QED
      BY <2>3, <3>1
  <2>6. Shows(down, s)
    BY <2>1, <2>2, <2>3, <2>4, LayoutShows
  <2>7. \A d \in Docs :
           Times(s, d) = IF stored[d] = NoDoc THEN 0
                         ELSE IF Own(d) = {} THEN 1 ELSE Cardinality(Own(d))
    BY <2>1, <2>2, <2>3, <2>4, LayoutTimes
  <2>8. ASSUME NEW i \in DOMAIN s, NEW j \in DOMAIN s, Plain(s[i]), Plain(s[j]),
               i < j, stored[s[j]] \in Values
        PROVE  stored[s[i]] \in Values /\ stored[s[i]] < stored[s[j]]
    <3>1. s[j] \in Single
      BY <2>5, <2>8 DEF Plain, Single
    <3>2. j <= n
      <4>1. \E x \in SortValues : entries[x].doc = s[j]
        BY <2>1, <3>1, SingleEntry DEF Shown
      <4> QED
        BY <2>5, <4>1
    <3>3. i <= n
      <4>1. i \in Int /\ j \in Int
        BY <2>6, LenProperties DEF Shows
      <4> QED
        BY <2>8, <3>2, <4>1
    <3>4. PICK x \in SortValues : entries[x].doc = s[i]
      BY <2>5, <3>3
    <3>5. x \in DOMAIN entries /\ s[i] \notin deleted
      BY <3>4 DEF SortValues
    <3>6. stored[s[i]] \in Values /\ Clean(s[i], entries)
      BY <2>8, <3>4, <3>5 DEF Plain
    <3>7. s[i] \in Single
      BY <2>5, <3>6 DEF Single
    <3>8. Earlier(down, s[i], s[j])
      BY <2>6, <2>8, <3>1, <3>7 DEF Shows, InTurn
    <3> QED
      BY <2>d, <3>6, <3>8 DEF Earlier
  <2> QED
    BY <2>4, <2>7, <2>8 DEF ResultsInOrder
<1> QED
  BY <1>1, Invariance, PTL

-----------------------------------------------------------------------------
(* Pages of From and Size.                                                 *)

\* A rearrangement that keeps the order changes nothing.
LEMMA IncreasingIsIdentity ==
    ASSUME NEW n \in Nat, NEW g \in [1..n -> 1..n],
           \A i \in 1..n : \E p \in 1..n : g[p] = i,
           \A p, q \in 1..n : p < q => g[p] < g[q]
    PROVE  \A p \in 1..n : g[p] = p
<1> DEFINE T == {p \in 1..n : g[p] # p}
<1> SUFFICES ASSUME T # {}
             PROVE  FALSE
  OBVIOUS
<1>1. T \in SUBSET Nat
  OBVIOUS
<1>2. PICK p \in T : \A m \in T : p <= m
  <2> HIDE DEF T
  <2> QED
    BY <1>1, LeastNatural
<1>3. p \in 1..n /\ g[p] # p /\ g[p] \in 1..n
  OBVIOUS
<1>4. \A m \in 1..n : m < p => g[m] = m
  BY <1>2
<1>5. g[p] > p
  <2>1. ~ (g[p] < p)
    <3> SUFFICES ASSUME g[p] < p
                 PROVE  FALSE
      OBVIOUS
    <3>1. g[g[p]] = g[p]
      BY <1>3, <1>4
    <3>2. g[g[p]] < g[p]
      BY <1>3
    <3> QED
      BY <1>3, <3>1, <3>2
  <2> QED
    BY <1>3, <2>1
<1>6. PICK q \in 1..n : g[q] = p
  BY <1>3
<1>7. CASE q < p
  BY <1>4, <1>6, <1>7
<1>8. CASE q = p
  BY <1>3, <1>6, <1>8
<1>9. CASE q > p
  <2>1. g[p] < g[q]
    BY <1>3, <1>9
  <2> QED
    BY <1>3, <1>5, <1>6, <2>1
<1> QED
  BY <1>3, <1>6, <1>7, <1>8, <1>9

\* While all entries are plain, those shown are those of single documents.
LEMMA PlainWalk ==
    ASSUME Typed, NEW down \in BOOLEAN, \A d \in Docs : stored[d] # NoDoc => Plain(d)
    PROVE  \A p \in DOMAIN Walk(down, 0) : Walk(down, 0)[p] \in Single
<1> DEFINE W == Walk(down, 0)
           a == At(down)
<1>1. PICK l \in Nat : a \in [1..l -> Shown]
  BY AtFacts DEF Typed
<1>2. /\ W \in Seq(Docs) /\ DOMAIN W = DOMAIN a
      /\ \A p \in DOMAIN a : W[p] = entries[a[p]].doc
  BY WalkFacts DEF Typed
<1> HIDE DEF W, a
<1> SUFFICES ASSUME NEW p \in DOMAIN W
             PROVE  W[p] \in Single
  BY DEF W
<1>3. PICK i \in Shown : i = a[p]
  BY <1>1, <1>2
<1>4. W[p] \in Docs /\ W[p] = entries[i].doc
  BY <1>2, <1>3, ElementOfSeq, LenProperties
<1>5. i \in DOMAIN entries /\ W[p] \notin deleted /\ stored[W[p]] # NoDoc
  BY <1>4 DEF Shown, SortValues
<1>6. Plain(W[p])
  BY <1>4, <1>5
<1> QED
  BY <1>4, <1>5, <1>6 DEF Plain, Single

\* Ranked moves nothing then.
LEMMA RankedSame ==
    ASSUME Typed, Listed, NEW down \in BOOLEAN, NEW s \in Seq(Docs), InTurn(down, s),
           \A p \in DOMAIN s : s[p] \in Single
    PROVE  Ranked(s) = s
<1>1. PICK n \in Nat : n = Len(s) /\ DOMAIN s = 1..n
  BY LenProperties
<1>2. PICK g : /\ Rearranges(g, s, Ranked(s))
               /\ \A p, q \in DOMAIN s : p < q => Before(s, g[p], g[q])
  BY RankedFacts
<1>3. /\ g \in [1..n -> 1..n]
      /\ \A i \in 1..n : \E p \in 1..n : g[p] = i
      /\ \A p \in 1..n : Ranked(s)[p] = s[g[p]]
      /\ \A p, q \in 1..n : p < q => Before(s, g[p], g[q])
  BY <1>1, <1>2 DEF Rearranges
<1>4. \A i, j \in 1..n : i < j => stored[s[i]] # stored[s[j]]
  <2> SUFFICES ASSUME NEW i \in 1..n, NEW j \in 1..n, i < j
               PROVE  stored[s[i]] # stored[s[j]]
    OBVIOUS
  <2>1. Earlier(down, s[i], s[j])
    BY <1>1 DEF InTurn
  <2>2. stored[s[i]] \in Int /\ stored[s[j]] \in Int
    BY <1>1, ValuesAssumption DEF Single
  <2> QED
    BY <2>1, <2>2 DEF Earlier
<1>5. ASSUME NEW i \in 1..n, NEW j \in 1..n, Before(s, i, j)
      PROVE  i < j
  <2>1. CASE i = j
    <3>1. Score[s[i]] \in Int
      BY <1>1, ScoreAssumption, ElementOfSeq
    <3> QED
      BY <1>5, <2>1, <3>1 DEF Before
  <2>2. CASE i # j
    <3>1. stored[s[j]] # stored[s[i]]
      BY <1>4, <2>2
    <3>2. ~ Together(s, i, j)
      <4>1. j \in DOMAIN s /\ ((i <= j /\ j <= j) \/ (j <= j /\ j <= i))
        BY <1>1
      <4> QED
        BY <3>1, <4>1 DEF Together
    <3> QED
      BY <1>5, <3>2 DEF Before
  <2> QED
    BY <2>1, <2>2
<1>6. \A p, q \in 1..n : p < q => g[p] < g[q]
  BY <1>3, <1>5
<1>7. \A p \in 1..n : g[p] = p
  BY <1>3, <1>6, IncreasingIsIdentity
<1>8. \A p \in 1..n : Ranked(s)[p] = s[p]
  BY <1>3, <1>7
<1>9. Ranked(s) \in Seq(Docs) /\ Len(Ranked(s)) = n
  BY <1>1, RankedFacts
<1> QED
  BY <1>1, <1>8, <1>9, SameSequence

\* So it makes no difference where the walk stops.
LEMMA PlainLayout ==
    ASSUME Typed, Listed, NEW down \in BOOLEAN,
           \A d \in Docs : stored[d] # NoDoc => Plain(d),
           NEW n \in Nat, n = Len(Walk(down, 0)), NEW k \in 0..n
    PROVE  \A p \in 1..(n + Len(Rest)) :
              Layout(down, k)[p] = IF p <= n THEN Walk(down, 0)[p] ELSE Rest[p - n]
<1> DEFINE W == Walk(down, 0)
           V == SubSeq(W, 1, k)
           m == Len(Rest)
<1>1. W \in Seq(Docs) /\ DOMAIN W = 1..n /\ InTurn(down, W) /\ \A p \in 1..n : W[p] \in Single
  <2>1. W \in Seq(Docs) /\ DOMAIN W = 1..n
    BY WalkFacts, LenProperties DEF Typed
  <2>2. InTurn(down, W)
    BY WalkInTurn
  <2>3. \A p \in DOMAIN W : W[p] \in Single
    BY PlainWalk
  <2> QED
    BY <2>1, <2>2, <2>3
<1>2. m \in Nat
  BY RestFacts, LenProperties
<1>3. \A p \in 1..(n + m) : Layout(down, k)[p] =
            IF p <= k THEN Ranked(V)[p] ELSE IF p <= n THEN W[p] ELSE Rest[p - n]
  BY DEF Layout
<1> HIDE DEF W, m
<1>4. V \in Seq(Docs) /\ DOMAIN V = 1..k /\ \A i \in 1..k : V[i] = W[i]
  <2>1. 1 \in Int /\ k \in Int
    OBVIOUS
  <2>2. \A i \in 1..k : W[i] \in Docs
    BY <1>1, ElementOfSeq
  <2>3. /\ SubSeq(W, 1, k) \in Seq(Docs)
        /\ Len(SubSeq(W, 1, k)) = IF 1 <= k THEN k - 1 + 1 ELSE 0
        /\ \A i \in 1..(k - 1 + 1) : SubSeq(W, 1, k)[i] = W[1 + i - 1]
    BY <2>1, <2>2, SubSeqProperties
  <2>4. Len(SubSeq(W, 1, k)) = k
    BY <2>3
  <2> QED
    BY <2>3, <2>4, LenProperties
<1> HIDE DEF V
<1>5. InTurn(down, V) /\ \A p \in DOMAIN V : V[p] \in Single
  <2>1. \A p \in DOMAIN V : p \in DOMAIN W /\ V[p] = W[p]
    BY <1>1, <1>4
  <2>2. InTurn(down, V)
    BY <1>1, <2>1 DEF InTurn
  <2> QED
    BY <1>1, <2>1, <2>2
<1>6. Ranked(V) = V
  BY <1>4, <1>5, RankedSame
<1>7. \A p \in 1..(n + m) : Layout(down, k)[p] = IF p <= n THEN W[p] ELSE Rest[p - n]
  <2> SUFFICES ASSUME NEW p \in 1..(n + m)
               PROVE  Layout(down, k)[p] = IF p <= n THEN W[p] ELSE Rest[p - n]
    OBVIOUS
  <2>1. CASE p <= k
    <3>1. p \in 1..k
      BY <1>2, <2>1
    <3>2. Layout(down, k)[p] = V[p]
      BY <1>3, <1>6, <2>1
    <3> QED
      BY <1>4, <3>1, <3>2
  <2>2. CASE ~ (p <= k)
    BY <1>3, <2>2
  <2> QED
    BY <2>1, <2>2
<1> QED
  BY <1>7 DEF W, m

\* As long as all documents are plain, sortFirstSearch returns the same list with any limit,
\* as far as it goes.
LEMMA PlainResults ==
    ASSUME Typed, Listed, NEW down \in BOOLEAN,
           \A d \in Docs : stored[d] # NoDoc => Plain(d), NEW limit \in Nat
    PROVE  /\ Results(down, 0) \in Seq(Docs)
           /\ Results(down, limit) = Cut(Results(down, 0), limit)
<1>1. PICK n \in Nat : n = Len(Walk(down, 0))
  BY WalkFacts, LenProperties DEF Typed
<1>2. PICK k \in 0..n : Results(down, limit) = Cut(Layout(down, k), limit)
  BY <1>1, ResultsLayout
<1>3. n \in 0..n /\ Results(down, 0) = Layout(down, n)
  BY <1>1, AllResults
<1>4. PICK m \in Nat : m = Len(Rest)
  BY RestFacts, LenProperties
<1>5. \A p \in 1..(n + m) : Layout(down, k)[p] = IF p <= n THEN Walk(down, 0)[p] ELSE Rest[p - n]
  BY <1>1, <1>4, PlainLayout
<1>6. \A p \in 1..(n + m) : Layout(down, n)[p] = IF p <= n THEN Walk(down, 0)[p] ELSE Rest[p - n]
  BY <1>1, <1>3, <1>4, PlainLayout
<1>7. Layout(down, k) \in Seq(Docs) /\ Len(Layout(down, k)) = n + m
  BY <1>1, <1>4, LayoutFrom
<1>8. Layout(down, n) \in Seq(Docs) /\ Len(Layout(down, n)) = n + m
  BY <1>1, <1>3, <1>4, LayoutFrom
<1>9. n + m \in Nat /\ \A p \in 1..(n + m) : Layout(down, k)[p] = Layout(down, n)[p]
  BY <1>5, <1>6
<1>10. Layout(down, k) = Layout(down, n)
  BY <1>7, <1>8, <1>9, SameSequence
<1> QED
  BY <1>2, <1>3, <1>8, <1>10

(***************************************************************************)
(* OffsetPagesFit: as long as no entry is stale, a page of From and Size   *)
(* is that part of all results, although a search with a limit stops the   *)
(* walk early.                                                             *)
(***************************************************************************)
THEOREM OffsetPagesFitCorrect == Spec => []OffsetPagesFit
<1>1. IInv => OffsetPagesFit
  <2> SUFFICES ASSUME IInv, \A d \in Docs : stored[d] # NoDoc => Plain(d),
                      NEW down \in BOOLEAN, NEW from \in 0..Cardinality(Docs)
               PROVE  Offset(down, from) = SubSeq(Results(down, 0), from + 1,
                                             Min({from + Size, Len(Results(down, 0))}))
    BY DEF OffsetPagesFit
  <2>1. Typed /\ Listed
    BY TypedHere DEF IInv
  <2>2. Size \in Nat \ {0} /\ from \in Nat
    BY SizeAssumption, DocsAssumption, FS_CardinalityType
  <2>3. PICK R \in Seq(Docs) : R = Results(down, 0)
    BY <2>1, <2>2, PlainResults
  <2>4. PICK s : s = Results(down, from + Size)
    OBVIOUS
  <2>5. s = Cut(R, from + Size)
    <3>1. from + Size \in Nat
      BY <2>2
    <3> QED
      BY <2>1, <2>3, <2>4, <3>1, PlainResults
  <2>6. PICK l \in Nat : l = Len(R)
    BY LenProperties
  <2>7. PICK e \in 0..l :
           /\ s \in Seq(Docs) /\ Len(s) = e
           /\ \A i \in 1..e : s[i] = R[i]
           /\ e = IF from + Size <= l THEN from + Size ELSE l
    <3>1. from + Size \in Nat /\ from + Size > 0
      BY <2>2
    <3>2. PICK e \in 0..Len(R) :
             /\ Cut(R, from + Size) \in Seq(Docs)
             /\ Len(Cut(R, from + Size)) = e
             /\ \A i \in 1..e : Cut(R, from + Size)[i] = R[i]
             /\ e = IF from + Size > 0 /\ Len(R) > from + Size THEN from + Size ELSE Len(R)
      BY <3>1, CutFacts
    <3>3. e = IF from + Size <= l THEN from + Size ELSE l
      BY <2>6, <3>1, <3>2
    <3>4. s \in Seq(Docs) /\ Len(s) = e /\ \A i \in 1..e : s[i] = R[i]
      BY <2>5, <3>2
    <3> QED
      BY <2>6, <3>3, <3>4
  <2>8. Min({from + Size, Len(R)}) = e
    <3>1. from + Size \in Int /\ l \in Int
      BY <2>2
    <3> QED
      BY <2>6, <2>7, <3>1, MinOfPair
  <2>9. Offset(down, from) = IF from > e THEN <<>> ELSE SubSeq(s, from + 1, e)
    BY <2>4, <2>7 DEF Offset
  <2>10. from + 1 \in Int /\ e \in Int
    BY <2>2
  <2>11. CASE from > e
    <3>1. e < from + 1
      BY <2>2, <2>11
    <3>2. SubSeq(R, from + 1, e) = <<>>
      BY <2>10, <3>1, SubSeqEmpty
    <3> QED
      BY <2>3, <2>8, <2>9, <2>11, <3>2
  <2>12. CASE ~ (from > e)
    <3>1. \A i \in (from + 1)..e : i \in 1..e /\ i \in 1..Len(R) /\ i \in 1..Len(s)
      BY <2>2, <2>6, <2>7
    <3>2. \A i \in (from + 1)..e : s[i] \in Docs /\ R[i] \in Docs
      BY <2>7, <3>1, ElementOfSeq
    <3>3. PICK m \in Nat : m = IF from + 1 <= e THEN e - (from + 1) + 1 ELSE 0
      <4>1. (IF from + 1 <= e THEN e - (from + 1) + 1 ELSE 0) \in Nat
        BY <2>2
      <4> QED
        BY <4>1
    <3>4. /\ SubSeq(s, from + 1, e) \in Seq(Docs)
          /\ Len(SubSeq(s, from + 1, e)) = m
          /\ \A i \in 1..(e - (from + 1) + 1) : SubSeq(s, from + 1, e)[i] = s[(from + 1) + i - 1]
      BY <2>10, <3>2, <3>3, SubSeqProperties
    <3>5. /\ SubSeq(R, from + 1, e) \in Seq(Docs)
          /\ Len(SubSeq(R, from + 1, e)) = m
          /\ \A i \in 1..(e - (from + 1) + 1) : SubSeq(R, from + 1, e)[i] = R[(from + 1) + i - 1]
      BY <2>10, <3>2, <3>3, SubSeqProperties
    <3>6. \A i \in 1..m : /\ i \in 1..(e - (from + 1) + 1)
                          /\ (from + 1) + i - 1 \in 1..e
      BY <2>2, <3>3
    <3>7. \A i \in 1..m : SubSeq(s, from + 1, e)[i] = SubSeq(R, from + 1, e)[i]
      BY <2>7, <3>4, <3>5, <3>6
    <3>8. SubSeq(s, from + 1, e) = SubSeq(R, from + 1, e)
      BY <3>4, <3>5, <3>7, SameSequence
    <3> QED
      BY <2>3, <2>8, <2>9, <2>12, <3>8
  <2> QED
    BY <2>11, <2>12
<1> QED
  BY <1>1, Invariance, PTL
=============================================================================
