---------------------------- MODULE SequenceFacts ----------------------------
(***************************************************************************)
(* What the sequence operators of the models return: appending, taking the *)
(* first or the last element off, replacing a prefix, putting the elements *)
(* of a set in order, flattening; and the inductions this takes.           *)
(***************************************************************************)
EXTENDS Integers, Sequences, SequencesExt, SequenceTheorems, FiniteSetTheorems, TLAPS

\* Appending keeps the elements and adds one.
LEMMA AppendFacts ==
    ASSUME NEW S, NEW seq \in Seq(S), NEW e \in S
    PROVE  /\ Append(seq, e) \in Seq(S)
           /\ Len(seq) \in Nat
           /\ DOMAIN seq = 1..Len(seq)
           /\ Len(Append(seq, e)) = Len(seq) + 1
           /\ DOMAIN Append(seq, e) = 1..(Len(seq) + 1)
           /\ \A i \in 1..Len(seq) : Append(seq, e)[i] = seq[i]
           /\ Append(seq, e)[Len(seq) + 1] = e
OBVIOUS

\* Putting one element in front of a sequence.
LEMMA ConsFacts ==
    ASSUME NEW S, NEW rest \in Seq(S), NEW e \in S
    PROVE  /\ <<e>> \o rest \in Seq(S)
           /\ Len(<<e>> \o rest) = Len(rest) + 1
           /\ DOMAIN (<<e>> \o rest) = 1..(Len(rest) + 1)
           /\ (<<e>> \o rest)[1] = e
           /\ \A k \in 2..(Len(rest) + 1) : (<<e>> \o rest)[k] = rest[k - 1]
<1>1. <<e>> \in Seq(S) /\ Len(<<e>>) = 1 /\ <<e>>[1] = e
  OBVIOUS
<1>2. Len(rest) \in Nat
  OBVIOUS
<1>3. <<e>> \o rest \in Seq(S) /\ Len(<<e>> \o rest) = Len(rest) + 1
  BY <1>1, ConcatProperties
<1>4. \A k \in 1..(1 + Len(rest)) :
         (<<e>> \o rest)[k] = IF k <= 1 THEN <<e>>[k] ELSE rest[k - 1]
  BY <1>1, ConcatProperties
<1> QED
  BY <1>1, <1>2, <1>3, <1>4

\* Replacing the first m elements by one.
LEMMA ReplacePrefixFacts ==
    ASSUME NEW S, NEW seq \in Seq(S), NEW e \in S,
           NEW m \in Nat, m <= Len(seq),
           NEW new, new = <<e>> \o SubSeq(seq, m + 1, Len(seq))
    PROVE  /\ new \in Seq(S)
           /\ Len(new) = Len(seq) - m + 1
           /\ DOMAIN new = 1..(Len(seq) - m + 1)
           /\ new[1] = e
           /\ \A k \in 2..(Len(seq) - m + 1) : new[k] = seq[k + m - 1]
<1>1. PICK n \in Nat : n = Len(seq)
  OBVIOUS
<1>2. PICK rest : rest = SubSeq(seq, m + 1, n)
  OBVIOUS
<1>3. /\ rest \in Seq(S)
      /\ Len(rest) = n - m
      /\ \A k \in 1..(n - m) : rest[k] = seq[k + m]
  <2>1. /\ m + 1 \in Int /\ n \in Int
        /\ \A i \in (m + 1)..n : seq[i] \in S
    BY <1>1
  <2>2. /\ rest \in Seq(S)
        /\ Len(rest) = IF m + 1 <= n THEN n - (m + 1) + 1 ELSE 0
        /\ \A k \in 1..(n - (m + 1) + 1) : rest[k] = seq[m + 1 + k - 1]
    BY <1>2, <2>1, SubSeqProperties
  <2>3. Len(rest) = n - m /\ n - (m + 1) + 1 = n - m
    BY <1>1, <2>2
  <2>4. \A k \in 1..(n - m) : m + 1 + k - 1 = k + m
    BY <1>1
  <2> QED
    BY <2>2, <2>3, <2>4
<1>4. /\ <<e>> \o rest \in Seq(S)
      /\ Len(<<e>> \o rest) = Len(rest) + 1
      /\ DOMAIN (<<e>> \o rest) = 1..(Len(rest) + 1)
      /\ (<<e>> \o rest)[1] = e
      /\ \A k \in 2..(Len(rest) + 1) : (<<e>> \o rest)[k] = rest[k - 1]
  BY <1>3, ConsFacts
<1>5. new = <<e>> \o rest
  BY <1>1, <1>2
<1>6. Len(new) = n - m + 1 /\ DOMAIN new = 1..(n - m + 1)
  BY <1>3, <1>4, <1>5
<1>7. ASSUME NEW k \in 2..(n - m + 1)
      PROVE  new[k] = seq[k + m - 1]
  <2>1. k - 1 \in 1..(n - m) /\ k - 1 + m = k + m - 1
    BY <1>1
  <2>2. new[k] = rest[k - 1]
    BY <1>3, <1>4, <1>5
  <2> QED
    BY <1>3, <2>1, <2>2
<1> QED
  BY <1>1, <1>4, <1>5, <1>6, <1>7

\* The first element of a sequence, and the others.
LEMMA TailFacts ==
    ASSUME NEW S, NEW seq \in Seq(S), seq # <<>>
    PROVE  /\ Len(seq) \in Nat /\ Len(seq) >= 1
           /\ DOMAIN seq = 1..Len(seq)
           /\ Head(seq) = seq[1] /\ Head(seq) \in S
           /\ Tail(seq) \in Seq(S)
           /\ Len(Tail(seq)) = Len(seq) - 1
           /\ DOMAIN Tail(seq) = 1..(Len(seq) - 1)
           /\ \A i \in 1..(Len(seq) - 1) : Tail(seq)[i] = seq[i + 1]
OBVIOUS

\* A sequence without its last element.
LEMMA ButLastFacts ==
    ASSUME NEW S, NEW seq \in Seq(S), Len(seq) >= 1
    PROVE  /\ SubSeq(seq, 1, Len(seq) - 1) \in Seq(S)
           /\ Len(SubSeq(seq, 1, Len(seq) - 1)) = Len(seq) - 1
<1> DEFINE n == Len(seq) - 1
<1>1. n \in Nat /\ n + 1 = Len(seq)
  OBVIOUS
<1>2. \A i \in 1..n : seq[i] \in S
  BY <1>1
<1> HIDE DEF n
<1>3. 1 \in Int /\ n \in Int
  BY <1>1
<1>4. /\ SubSeq(seq, 1, n) \in Seq(S)
      /\ Len(SubSeq(seq, 1, n)) = IF 1 <= n THEN n - 1 + 1 ELSE 0
  BY <1>2, <1>3, SubSeqProperties
<1>5. Len(SubSeq(seq, 1, n)) = n
  BY <1>1, <1>4
<1> QED
  BY <1>4, <1>5 DEF n

-----------------------------------------------------------------------------
(* Induction.  The library states it for a predicate given as an operator; *)
(* here it is about sets, from the fact that inclusion of finite sets is   *)
(* well-founded.                                                           *)

\* A set of natural numbers has a least one.
LEMMA LeastNatural ==
    ASSUME NEW T \in SUBSET Nat, T # {}
    PROVE  \E n \in T : \A m \in T : n <= m
<1> DEFINE R == StrictSubsetOrdering(Nat)
           F == FiniteSubsetsOf(Nat)
           U == {1..n : n \in T}
<1>1. IsWellFoundedOn(R, F)
  BY FS_StrictSubsetOrderingWellFounded
<1>2. U \subseteq F
  BY FS_Interval DEF FiniteSubsetsOf
<1>3. PICK x \in U : \A y \in U : ~ (<<y, x>> \in R)
  <2>1. U # {}
    OBVIOUS
  <2> HIDE DEF R, F, U
  <2> QED
    BY <1>1, <1>2, <2>1, WFMin
<1>4. PICK n \in T : x = 1..n
  OBVIOUS
<1>5. ASSUME NEW m \in T, m < n
      PROVE  FALSE
  <2>1. n \in 1..n /\ n \notin 1..m /\ 1..m \subseteq 1..n
    BY <1>5
  <2>2. <<1..m, 1..n>> \in R
    BY <2>1 DEF StrictSubsetOrdering
  <2> QED
    BY <2>2, <1>3, <1>4
<1> QED
  BY <1>5

\* Induction over the natural numbers.
LEMMA NaturalInduction ==
    ASSUME NEW P, 0 \in P, \A n \in Nat : n \in P => n + 1 \in P
    PROVE  Nat \subseteq P
<1> SUFFICES ASSUME Nat \ P # {}
             PROVE  FALSE
  OBVIOUS
<1>1. PICK n \in Nat \ P : \A m \in Nat \ P : n <= m
  BY LeastNatural
<1>2. n # 0 /\ n - 1 \in Nat /\ n - 1 \in P
  BY <1>1
<1> QED
  BY <1>2

\* Induction over the sequences, from their beginnings.
LEMMA AppendInduction ==
    ASSUME NEW S, NEW P, <<>> \in P,
           \A seq \in Seq(S), e \in S : seq \in P => Append(seq, e) \in P
    PROVE  Seq(S) \subseteq P
<1> DEFINE Q == {n \in Nat : \A seq \in Seq(S) : Len(seq) = n => seq \in P}
<1>1. 0 \in Q
  BY EmptySeq
<1>2. ASSUME NEW n \in Nat, n \in Q
      PROVE  n + 1 \in Q
  <2> SUFFICES ASSUME NEW seq \in Seq(S), Len(seq) = n + 1
               PROVE  seq \in P
    OBVIOUS
  <2>1. PICK s \in Seq(S), e \in S : seq = Append(s, e)
    BY EmptySeq, SequenceEmptyOrAppend
  <2>2. Len(s) = n
    BY <2>1, AppendFacts
  <2> QED
    BY <1>2, <2>1, <2>2
<1>3. Nat \subseteq Q
  <2> HIDE DEF Q
  <2> QED
    BY <1>1, <1>2, NaturalInduction
<1> QED
  BY <1>3, LenProperties

\* The beginning of a sequence that got one element more.
LEMMA BeginningOfAppend ==
    ASSUME NEW S, NEW ss \in Seq(S), NEW s \in S, NEW i \in 0..Len(ss)
    PROVE  SubSeq(Append(ss, s), 1, i) = SubSeq(ss, 1, i)
<1>0. PICK n : n = Len(ss)
  OBVIOUS
<1>1. n \in Nat /\ i \in Nat /\ i <= n
  BY <1>0, LenProperties
<1>2. PICK tt : tt = Append(ss, s)
  OBVIOUS
<1>3. \A j \in 1..n : tt[j] = ss[j] /\ ss[j] \in S
  BY <1>0, <1>2, AppendFacts, ElementOfSeq
<1>4. \A j \in 1..i : tt[j] = ss[j] /\ ss[j] \in S /\ tt[j] \in S
  <2>1. \A j \in 1..i : j \in 1..n
    BY <1>1
  <2> QED
    BY <1>3, <2>1
<1>5. 1 \in Int /\ i \in Int
  BY <1>1
<1>6. /\ SubSeq(ss, 1, i) \in Seq(S)
      /\ Len(SubSeq(ss, 1, i)) = IF 1 <= i THEN i - 1 + 1 ELSE 0
      /\ \A j \in 1..(i - 1 + 1) : SubSeq(ss, 1, i)[j] = ss[1 + j - 1]
  BY <1>4, <1>5, SubSeqProperties
<1>7. /\ SubSeq(tt, 1, i) \in Seq(S)
      /\ Len(SubSeq(tt, 1, i)) = IF 1 <= i THEN i - 1 + 1 ELSE 0
      /\ \A j \in 1..(i - 1 + 1) : SubSeq(tt, 1, i)[j] = tt[1 + j - 1]
  BY <1>4, <1>5, SubSeqProperties
<1>8. (IF 1 <= i THEN i - 1 + 1 ELSE 0) = i /\ i - 1 + 1 = i /\ \A j \in 1..i : 1 + j - 1 = j
  BY <1>1
<1>9. Len(SubSeq(ss, 1, i)) = i /\ Len(SubSeq(tt, 1, i)) = i
  BY <1>6, <1>7, <1>8
<1>10. \A j \in 1..i : SubSeq(tt, 1, i)[j] = SubSeq(ss, 1, i)[j]
  BY <1>4, <1>6, <1>7, <1>8
<1>11. SubSeq(tt, 1, i) = SubSeq(ss, 1, i)
  BY <1>6, <1>7, <1>9, <1>10, SeqEqual
<1> QED
  BY <1>2, <1>11

\* All of a sequence.
LEMMA WholeSubSeq ==
    ASSUME NEW S, NEW ss \in Seq(S)
    PROVE  SubSeq(ss, 1, Len(ss)) = ss
<1>0. PICK n : n = Len(ss)
  OBVIOUS
<1>1. n \in Nat
  BY <1>0, LenProperties
<1>2. \A j \in 1..n : ss[j] \in S
  BY <1>0, ElementOfSeq
<1>3. 1 \in Int /\ n \in Int
  BY <1>1
<1>4. /\ SubSeq(ss, 1, n) \in Seq(S)
      /\ Len(SubSeq(ss, 1, n)) = IF 1 <= n THEN n - 1 + 1 ELSE 0
      /\ \A j \in 1..(n - 1 + 1) : SubSeq(ss, 1, n)[j] = ss[1 + j - 1]
  BY <1>2, <1>3, SubSeqProperties
<1>5. (IF 1 <= n THEN n - 1 + 1 ELSE 0) = n /\ n - 1 + 1 = n /\ \A j \in 1..n : 1 + j - 1 = j
  BY <1>1
<1>6. Len(SubSeq(ss, 1, n)) = Len(ss) /\ \A j \in 1..Len(SubSeq(ss, 1, n)) : SubSeq(ss, 1, n)[j] = ss[j]
  BY <1>0, <1>4, <1>5
<1>7. SubSeq(ss, 1, n) = ss
  BY <1>4, <1>6, SeqEqual
<1> QED
  BY <1>0, <1>7

\* The greatest element of some indices.
LEMMA MaxFacts ==
    ASSUME NEW n \in Nat, NEW T \in SUBSET (1..n), T # {}
    PROVE  /\ Max(T) \in T
           /\ \A m \in T : m <= Max(T)
<1> DEFINE U == {n - i : i \in T}
<1>1. PICK u \in U : \A w \in U : u <= w
  <2>1. U # {}
    OBVIOUS
  <2>2. \A i \in T : n - i \in Nat
    OBVIOUS
  <2>3. U \in SUBSET Nat
    BY <2>2
  <2> HIDE DEF U
  <2> QED
    BY <2>1, <2>3, LeastNatural
<1>2. PICK i \in T : u = n - i
  OBVIOUS
<1>3. \A m \in T : i >= m
  BY <1>1, <1>2
<1>4. Max(T) \in T /\ \A m \in T : Max(T) >= m
  BY <1>3 DEF Max
<1> QED
  BY <1>4

\* An enumeration of a finite set without repetition reaches all of it.
LEMMA EnumerationFacts ==
    ASSUME NEW S, IsFiniteSet(S), NEW f \in [1..Cardinality(S) -> S], IsInjective(f)
    PROVE  /\ f \in Seq(S)
           /\ Len(f) = Cardinality(S)
           /\ \A x \in S : \E i \in DOMAIN f : f[i] = x
<1> DEFINE n == Cardinality(S)
<1>1. n \in Nat
  BY FS_CardinalityType
<1>2. f \in Seq(S) /\ Len(f) = n
  BY <1>1
<1>3. IsFiniteSet(1..n) /\ Cardinality(1..n) = n
  BY <1>1, FS_Interval
<1>4. f \in Injection(1..n, S)
  BY DEF Injection
<1>5. f \in Surjection(1..n, S)
  <2> HIDE DEF n
  <2>1. Cardinality(1..n) = Cardinality(S)
    BY <1>3 DEF n
  <2> QED
    BY <2>1, <1>4, FS_Injection
<1> QED
  BY <1>2, <1>5 DEF Surjection

\* SetToSeq is such an enumeration.
LEMMA SetToSeqFacts ==
    ASSUME NEW S, IsFiniteSet(S)
    PROVE  /\ SetToSeq(S) \in Seq(S)
           /\ \A x \in S : \E i \in DOMAIN SetToSeq(S) : SetToSeq(S)[i] = x
<1>1. \E f \in [1..Cardinality(S) -> S] : IsInjective(f)
  BY FS_CardinalityType DEF ExistsBijection, Bijection, Injection
<1>2. SetToSeq(S) \in [1..Cardinality(S) -> S] /\ IsInjective(SetToSeq(S))
  BY <1>1 DEF SetToSeq
<1> QED
  BY <1>2, EnumerationFacts

-----------------------------------------------------------------------------
(* FlattenSeq.                                                             *)

\* A function with this recursion exists, and there is one only.
Flattens(f, ss) ==
    f = [i \in 1..Len(ss) |-> IF i = 1 THEN ss[i] ELSE f[i - 1] \o ss[i]]

\* The recursion at one index.
LEMMA FlattensAt ==
    ASSUME NEW ss, NEW f, Flattens(f, ss), NEW i \in 1..Len(ss)
    PROVE  f[i] = IF i = 1 THEN ss[i] ELSE f[i - 1] \o ss[i]
<1> DEFINE h == [j \in 1..Len(ss) |-> IF j = 1 THEN ss[j] ELSE f[j - 1] \o ss[j]]
<1>1. f = h
  BY DEF Flattens
<1>2. h[i] = IF i = 1 THEN ss[i] ELSE f[i - 1] \o ss[i]
  OBVIOUS
<1> HIDE DEF h
<1> QED
  BY <1>1, <1>2

\* There is a function with this recursion, by induction over its domain.
LEMMA FlattensExists ==
    ASSUME NEW S, NEW ss \in Seq(Seq(S))
    PROVE  \E f \in [1..Len(ss) -> Seq(S)] : Flattens(f, ss)
<1> PICK n \in Nat : n = Len(ss)
  BY LenProperties
<1> DEFINE Good(m) ==
              \E f \in [1..m -> Seq(S)] :
                  \A i \in 1..m : f[i] = IF i = 1 THEN ss[i] ELSE f[i - 1] \o ss[i]
           P == {m \in Nat : m <= n => Good(m)}
<1>1. Good(0)
  <2>1. [i \in 1..0 |-> <<>>] \in [1..0 -> Seq(S)] /\ 1..0 = {}
    OBVIOUS
  <2> QED
    BY <2>1
<1>2. ASSUME NEW m \in Nat, Good(m), m + 1 <= n
      PROVE  Good(m + 1)
  <2>1. PICK f \in [1..m -> Seq(S)] :
           \A i \in 1..m : f[i] = IF i = 1 THEN ss[i] ELSE f[i - 1] \o ss[i]
    BY <1>2
  <2> DEFINE last == IF m = 0 THEN ss[1] ELSE f[m] \o ss[m + 1]
             g    == [i \in 1..(m + 1) |-> IF i = m + 1 THEN last ELSE f[i]]
  <2>2. \A i \in 1..n : ss[i] \in Seq(S)
    BY ElementOfSeq
  <2>3. last \in Seq(S)
    BY <1>2, <2>2, ConcatProperties
  <2>4. g \in [1..(m + 1) -> Seq(S)]
    <3> HIDE DEF last
    <3> QED
      BY <2>3
  <2>5. ASSUME NEW i \in 1..(m + 1)
        PROVE  g[i] = IF i = 1 THEN ss[i] ELSE g[i - 1] \o ss[i]
    <3>1. CASE i = m + 1
      BY <3>1
    <3>2. CASE i # m + 1
      <4>1. i \in 1..m /\ g[i] = f[i]
        BY <3>2
      <4>2. i # 1 => i - 1 \in 1..m /\ i - 1 # m + 1 /\ g[i - 1] = f[i - 1]
        BY <3>2
      <4> QED
        BY <2>1, <4>1, <4>2
    <3> QED
      BY <3>1, <3>2
  <2> HIDE DEF g
  <2> QED
    BY <2>4, <2>5
<1> HIDE DEF Good
<1>3. Nat \subseteq P
  <2>1. 0 \in P /\ \A m \in Nat : m \in P => m + 1 \in P
    BY <1>1, <1>2
  <2> HIDE DEF P
  <2> QED
    BY <2>1, NaturalInduction
<1>4. PICK f \in [1..n -> Seq(S)] :
         \A i \in 1..n : f[i] = IF i = 1 THEN ss[i] ELSE f[i - 1] \o ss[i]
  <2>1. n \in P
    BY <1>3
  <2> QED
    BY <2>1 DEF Good
<1>5. f = [i \in 1..n |-> f[i]]
  OBVIOUS
<1>6. f = [i \in 1..n |-> IF i = 1 THEN ss[i] ELSE f[i - 1] \o ss[i]]
  BY <1>4, <1>5
<1> QED
  BY <1>6 DEF Flattens

\* Two such functions agree as far as the sequences they are of do.
LEMMA FlattensAgree ==
    ASSUME NEW ss, NEW tt, NEW f, NEW g, Flattens(f, ss), Flattens(g, tt),
           Len(ss) \in Nat, Len(tt) \in Nat, Len(ss) <= Len(tt),
           \A i \in 1..Len(ss) : ss[i] = tt[i]
    PROVE  \A i \in 1..Len(ss) : f[i] = g[i]
<1> DEFINE P == {m \in Nat : m \in 1..Len(ss) => f[m] = g[m]}
<1>1. 0 \in P
  OBVIOUS
<1>2. ASSUME NEW m \in Nat, m \in P
      PROVE  m + 1 \in P
  <2> SUFFICES ASSUME m + 1 \in 1..Len(ss)
               PROVE  f[m + 1] = g[m + 1]
    OBVIOUS
  <2>1. f[m + 1] = IF m + 1 = 1 THEN ss[m + 1] ELSE f[m + 1 - 1] \o ss[m + 1]
    BY FlattensAt
  <2>2. g[m + 1] = IF m + 1 = 1 THEN tt[m + 1] ELSE g[m + 1 - 1] \o tt[m + 1]
    <3>1. m + 1 \in 1..Len(tt)
      OBVIOUS
    <3> QED
      BY <3>1, FlattensAt
  <2> QED
    BY <1>2, <2>1, <2>2
<1>3. Nat \subseteq P
  <2> HIDE DEF P
  <2> QED
    BY <1>1, <1>2, NaturalInduction
<1> QED
  BY <1>3

\* What FlattenSeq returns.
LEMMA FlattenIs ==
    ASSUME NEW S, NEW ss \in Seq(Seq(S)), ss # <<>>
    PROVE  \E f \in [1..Len(ss) -> Seq(S)] :
              Flattens(f, ss) /\ FlattenSeq(ss) = f[Len(ss)]
<1>1. PICK f \in [1..Len(ss) -> Seq(S)] : Flattens(f, ss)
  BY FlattensExists
<1> DEFINE c == CHOOSE g : Flattens(g, ss)
<1>2. Flattens(c, ss)
  BY <1>1
<1>3. Len(ss) \in Nat \ {0}
  BY EmptySeq
<1>4. FlattenSeq(ss) = c[Len(ss)]
  BY <1>3 DEF FlattenSeq, Flattens
<1>5. \A i \in 1..Len(ss) : c[i] = f[i]
  <2> HIDE DEF c
  <2> QED
    BY <1>1, <1>2, <1>3, FlattensAgree
<1>6. Len(ss) \in 1..Len(ss)
  BY <1>3
<1> HIDE DEF c
<1> QED
  BY <1>1, <1>4, <1>5, <1>6

\* With one sequence more, the last value is the one before and that sequence.
LEMMA FlattensLonger ==
    ASSUME NEW ss, NEW tt, NEW f, NEW g, Flattens(f, ss), Flattens(g, tt),
           Len(ss) \in Nat \ {0}, Len(tt) = Len(ss) + 1,
           \A i \in 1..Len(ss) : tt[i] = ss[i]
    PROVE  g[Len(tt)] = f[Len(ss)] \o tt[Len(tt)]
<1>1. f[Len(ss)] = g[Len(ss)]
  <2>1. \A i \in 1..Len(ss) : f[i] = g[i]
    BY FlattensAgree
  <2> QED
    BY <2>1
<1>2. PICK m \in Nat : m = Len(tt)
  OBVIOUS
<1>3. m \in 1..Len(tt) /\ m # 1 /\ m - 1 = Len(ss)
  BY <1>2
<1>4. g[m] = IF m = 1 THEN tt[m] ELSE g[m - 1] \o tt[m]
  BY <1>3, FlattensAt
<1> QED
  BY <1>1, <1>2, <1>3, <1>4

\* Flattening one sequence more puts it at the end.
LEMMA FlattenAppend ==
    ASSUME NEW S, NEW ss \in Seq(Seq(S)), NEW s \in Seq(S)
    PROVE  FlattenSeq(Append(ss, s)) = FlattenSeq(ss) \o s
<1> DEFINE tt == Append(ss, s)
           n  == Len(ss)
<1>1. /\ tt \in Seq(Seq(S)) /\ tt # <<>>
      /\ n \in Nat
      /\ Len(tt) = n + 1
      /\ \A i \in 1..n : tt[i] = ss[i]
      /\ tt[n + 1] = s
  BY AppendFacts, AppendProperties
<1>2. ss # <<>> => n # 0
  BY EmptySeq
<1>3. n = Len(ss)
  OBVIOUS
<1> HIDE DEF tt, n
<1>4. PICK g \in [1..Len(tt) -> Seq(S)] : Flattens(g, tt) /\ FlattenSeq(tt) = g[Len(tt)]
  BY <1>1, FlattenIs
<1>5. CASE ss = <<>>
  <2>1. n = 0 /\ FlattenSeq(ss) = <<>>
    BY <1>3, <1>5 DEF FlattenSeq
  <2>2. Flattens(g, tt) /\ 1 \in 1..Len(tt)
    BY <1>1, <1>4, <2>1
  <2>3. g[1] = s
    <3>1. \A i \in 1..Len(tt) : g[i] = IF i = 1 THEN tt[i] ELSE g[i - 1] \o tt[i]
      BY <2>2, FlattensAt
    <3> QED
      BY <1>1, <2>1, <2>2, <3>1
  <2> QED
    BY <1>1, <1>4, <2>1, <2>3, ConcatEmptySeq DEF tt
<1>6. CASE ss # <<>>
  <2>1. PICK f \in [1..Len(ss) -> Seq(S)] : Flattens(f, ss) /\ FlattenSeq(ss) = f[Len(ss)]
    BY <1>6, FlattenIs
  <2>2. /\ Len(ss) \in Nat \ {0} /\ Len(tt) = Len(ss) + 1
        /\ \A i \in 1..Len(ss) : tt[i] = ss[i]
    BY <1>1, <1>2, <1>3, <1>6
  <2>3. Flattens(f, ss) /\ Flattens(g, tt)
    BY <1>4, <2>1
  <2>4. g[Len(tt)] = f[Len(ss)] \o tt[Len(tt)]
    BY <2>2, <2>3, FlattensLonger
  <2> QED
    BY <1>1, <1>3, <1>4, <2>1, <2>4 DEF tt
<1> QED
  BY <1>5, <1>6

\* FlattenSeq returns a sequence of the same elements.
LEMMA FlattenType ==
    ASSUME NEW S, NEW ss \in Seq(Seq(S))
    PROVE  /\ FlattenSeq(ss) \in Seq(S)
           /\ FlattenSeq(<<>>) = <<>>
<1>1. FlattenSeq(<<>>) = <<>>
  BY EmptySeq DEF FlattenSeq
<1>2. CASE ss # <<>>
  <2>1. PICK f \in [1..Len(ss) -> Seq(S)] : Flattens(f, ss) /\ FlattenSeq(ss) = f[Len(ss)]
    BY <1>2, FlattenIs
  <2>2. Len(ss) \in 1..Len(ss)
    BY <1>2, EmptySeq
  <2> QED
    BY <1>1, <2>1, <2>2
<1> QED
  BY <1>1, <1>2, EmptySeq

\* Where the elements of a sequence that is made of others come from, in order.
SourceMap(src, ss, flat) ==
    /\ src \in [DOMAIN flat -> DOMAIN ss]
    /\ \A k \in DOMAIN flat : \E j \in DOMAIN ss[src[k]] : flat[k] = ss[src[k]][j]
    /\ \A k, m \in DOMAIN flat : k <= m => src[k] <= src[m]
    /\ \A i \in DOMAIN ss : \A j \in DOMAIN ss[i] :
          \E k \in DOMAIN flat : src[k] = i /\ flat[k] = ss[i][j]

\* One sequence more at the end is the source of the new elements.
LEMMA SourceLonger ==
    ASSUME NEW S, NEW ss \in Seq(Seq(S)), NEW s \in Seq(S), NEW flat \in Seq(S),
           NEW old, SourceMap(old, ss, flat)
    PROVE  \E src : SourceMap(src, Append(ss, s), flat \o s)
<1>1. PICK n \in Nat : n = Len(flat) /\ DOMAIN flat = 1..n
  BY LenProperties
<1>2. PICK l \in Nat : l = Len(s) /\ DOMAIN s = 1..l
  BY LenProperties
<1>3. PICK p \in Nat : p = Len(ss) /\ DOMAIN ss = 1..p
  BY LenProperties
<1>4. PICK new \in Seq(S) : new = flat \o s
  BY ConcatProperties
<1>5. /\ DOMAIN new = 1..(n + l)
      /\ \A k \in 1..(n + l) : new[k] = IF k <= n THEN flat[k] ELSE s[k - n]
  BY <1>1, <1>2, <1>4, ConcatProperties
<1>6. PICK tt \in Seq(Seq(S)) : tt = Append(ss, s)
  BY AppendFacts
<1>7. /\ DOMAIN tt = 1..(p + 1) /\ tt[p + 1] = s
      /\ \A i \in 1..p : tt[i] = ss[i]
  BY <1>3, <1>6, AppendFacts
<1>8. /\ old \in [1..n -> 1..p]
      /\ \A k \in 1..n : \E j \in DOMAIN ss[old[k]] : flat[k] = ss[old[k]][j]
      /\ \A k, m \in 1..n : k <= m => old[k] <= old[m]
      /\ \A i \in 1..p : \A j \in DOMAIN ss[i] : \E k \in 1..n : old[k] = i /\ flat[k] = ss[i][j]
  <2>1. /\ old \in [DOMAIN flat -> DOMAIN ss]
        /\ \A k \in DOMAIN flat : \E j \in DOMAIN ss[old[k]] : flat[k] = ss[old[k]][j]
        /\ \A k, m \in DOMAIN flat : k <= m => old[k] <= old[m]
        /\ \A i \in DOMAIN ss : \A j \in DOMAIN ss[i] :
              \E k \in DOMAIN flat : old[k] = i /\ flat[k] = ss[i][j]
    BY DEF SourceMap
  <2>2. old \in [1..n -> 1..p]
    BY <1>1, <1>3, <2>1
  <2>3. \A k \in 1..n : \E j \in DOMAIN ss[old[k]] : flat[k] = ss[old[k]][j]
    BY <1>1, <2>1
  <2>4. \A k, m \in 1..n : k <= m => old[k] <= old[m]
    BY <1>1, <2>1
  <2>5. \A i \in 1..p : \A j \in DOMAIN ss[i] : \E k \in 1..n : old[k] = i /\ flat[k] = ss[i][j]
    <3> SUFFICES ASSUME NEW i \in 1..p, NEW j \in DOMAIN ss[i]
                 PROVE  \E k \in 1..n : old[k] = i /\ flat[k] = ss[i][j]
      OBVIOUS
    <3>1. PICK k \in DOMAIN flat : old[k] = i /\ flat[k] = ss[i][j]
      BY <1>3, <2>1
    <3> QED
      BY <1>1, <3>1
  <2> QED
    BY <2>2, <2>3, <2>4, <2>5
<1> DEFINE src == [k \in 1..(n + l) |-> IF k <= n THEN old[k] ELSE p + 1]
<1>9. \A k \in 1..(n + l) :
         /\ k <= n => src[k] = old[k] /\ k \in 1..n
         /\ ~ (k <= n) => src[k] = p + 1 /\ k - n \in 1..l
  OBVIOUS
<1>10. src \in [1..(n + l) -> 1..(p + 1)]
  <2>1. \A k \in 1..(n + l) : (IF k <= n THEN old[k] ELSE p + 1) \in 1..(p + 1)
    BY <1>8
  <2> QED
    BY <2>1
<1> HIDE DEF src
<1>11. ASSUME NEW k \in 1..(n + l)
       PROVE  \E j \in DOMAIN tt[src[k]] : new[k] = tt[src[k]][j]
  <2>1. CASE k <= n
    <3>1. src[k] = old[k] /\ k \in 1..n /\ new[k] = flat[k]
      BY <1>5, <1>9, <2>1
    <3>2. tt[src[k]] = ss[old[k]]
      BY <1>7, <1>8, <3>1
    <3>3. PICK j \in DOMAIN ss[old[k]] : flat[k] = ss[old[k]][j]
      BY <1>8, <3>1
    <3> QED
      BY <3>1, <3>2, <3>3
  <2>2. CASE ~ (k <= n)
    <3>1. tt[src[k]] = s /\ k - n \in DOMAIN s /\ new[k] = s[k - n]
      BY <1>2, <1>5, <1>7, <1>9, <2>2
    <3> QED
      BY <3>1
  <2> QED
    BY <2>1, <2>2
<1>12. ASSUME NEW k \in 1..(n + l), NEW m \in 1..(n + l), k <= m
       PROVE  src[k] <= src[m]
  <2>1. CASE m <= n
    BY <1>8, <1>9, <1>12, <2>1
  <2>2. CASE ~ (m <= n)
    <3>1. src[m] = p + 1 /\ src[k] \in 1..(p + 1)
      BY <1>9, <1>10, <2>2
    <3> QED
      BY <3>1
  <2> QED
    BY <2>1, <2>2
<1>13. ASSUME NEW i \in 1..(p + 1), NEW j \in DOMAIN tt[i]
       PROVE  \E k \in 1..(n + l) : src[k] = i /\ new[k] = tt[i][j]
  <2>1. CASE i \in 1..p
    <3>1. PICK k \in 1..n : old[k] = i /\ flat[k] = ss[i][j]
      BY <1>7, <1>8, <2>1
    <3>2. k \in 1..(n + l) /\ k <= n
      OBVIOUS
    <3> QED
      BY <1>5, <1>7, <1>9, <2>1, <3>1, <3>2
  <2>2. CASE i = p + 1
    <3>1. j \in 1..l /\ tt[i][j] = s[j]
      BY <1>2, <1>7, <2>2
    <3>2. PICK k \in 1..(n + l) : k = n + j
      BY <3>1
    <3>3. ~ (k <= n) /\ k - n = j
      BY <3>1, <3>2
    <3>4. src[k] = i /\ new[k] = s[j]
      BY <1>5, <1>9, <2>2, <3>3
    <3> QED
      BY <3>1, <3>4
  <2> QED
    BY <2>1, <2>2
<1>14. SourceMap(src, tt, new)
  <2>1. DOMAIN new = 1..(n + l) /\ DOMAIN tt = 1..(p + 1)
    BY <1>5, <1>7
  <2>2. src \in [DOMAIN new -> DOMAIN tt]
    BY <1>10, <2>1
  <2>3. \A k \in DOMAIN new : \E j \in DOMAIN tt[src[k]] : new[k] = tt[src[k]][j]
    BY <1>11, <2>1
  <2>4. \A k, m \in DOMAIN new : k <= m => src[k] <= src[m]
    BY <1>12, <2>1
  <2>5. \A i \in DOMAIN tt : \A j \in DOMAIN tt[i] :
           \E k \in DOMAIN new : src[k] = i /\ new[k] = tt[i][j]
    <3> SUFFICES ASSUME NEW i \in DOMAIN tt, NEW j \in DOMAIN tt[i]
                 PROVE  \E k \in DOMAIN new : src[k] = i /\ new[k] = tt[i][j]
      OBVIOUS
    <3>1. PICK k \in 1..(n + l) : src[k] = i /\ new[k] = tt[i][j]
      BY <1>13, <2>1
    <3> QED
      BY <2>1, <3>1
  <2> QED
    BY <2>2, <2>3, <2>4, <2>5 DEF SourceMap
<1> QED
  BY <1>4, <1>6, <1>14

\* The elements of FlattenSeq come from its sequences, in their order.
LEMMA FlattenSource ==
    ASSUME NEW S, NEW ss \in Seq(Seq(S))
    PROVE  \E src : SourceMap(src, ss, FlattenSeq(ss))
<1> DEFINE Good(tt) == \E src : SourceMap(src, tt, FlattenSeq(tt))
           P == {tt \in Seq(Seq(S)) : Good(tt)}
<1>1. Good(<<>>)
  <2>1. FlattenSeq(<<>>) = <<>> /\ DOMAIN <<>> = {}
    BY FlattenType, EmptySeq
  <2>2. SourceMap([k \in {} |-> 1], <<>>, <<>>)
    BY <2>1 DEF SourceMap
  <2> QED
    BY <2>1, <2>2
<1>2. ASSUME NEW tt \in Seq(Seq(S)), NEW s \in Seq(S), Good(tt)
      PROVE  Good(Append(tt, s))
  BY <1>2, FlattenType, FlattenAppend, SourceLonger
<1>3. \A tt \in Seq(Seq(S)), s \in Seq(S) : Append(tt, s) \in Seq(Seq(S))
  BY AppendFacts
<1> HIDE DEF Good
<1>4. <<>> \in P
  BY <1>1, EmptySeq
<1>5. \A tt \in Seq(Seq(S)), s \in Seq(S) : tt \in P => Append(tt, s) \in P
  BY <1>2, <1>3
<1>6. Seq(Seq(S)) \subseteq P
  <2> HIDE DEF P
  <2> QED
    BY <1>4, <1>5, AppendInduction
<1> QED
  BY <1>6 DEF Good
=============================================================================
