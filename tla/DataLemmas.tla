----------------------------- MODULE DataLemmas -----------------------------
(***************************************************************************)
(* What the proofs about the components share: least numbers, counting up, *)
(* functions that are defined by counting up, quotients and ranks, and the *)
(* sequences with a gap closed by memmove.  The library's induction theorems take a predicate,  *)
(* these take a set: inclusion is well-founded among finite sets, and      *)
(* numbers are ordered as their intervals are included.                    *)
(***************************************************************************)
EXTENDS Integers, Sequences, SequencesExt, TLAPS, FiniteSetTheorems, SequenceTheorems

(* A set of natural numbers that is not empty has a least one. *)
LEMMA LeastNatural ==
    ASSUME NEW S \in SUBSET Nat, S # {}
    PROVE  \E x \in S : \A y \in S : x <= y
<1> DEFINE T == {1..n : n \in S}
<1>1. T \subseteq FiniteSubsetsOf(Nat) /\ T # {}
  <2>1. ASSUME NEW n \in S PROVE 1..n \in SUBSET Nat /\ IsFiniteSet(1..n)
    BY FS_Interval
  <2> QED BY <2>1 DEF FiniteSubsetsOf
<1>2. PICK I \in T : \A J \in T : ~(<<J, I>> \in StrictSubsetOrdering(Nat))
  <2> HIDE DEF T
  <2> QED BY <1>1, FS_StrictSubsetOrderingWellFounded, WFMin
<1>3. PICK x \in S : I = 1..x
  OBVIOUS
<1>4. ASSUME NEW y \in S PROVE x <= y
  <2> SUFFICES ASSUME y < x PROVE FALSE
    OBVIOUS
  <2>1. 1..y \in T /\ 1..y \subseteq 1..x /\ x \in 1..x /\ x \notin 1..y
    OBVIOUS
  <2>2. 1..y # I /\ 1..y \in SUBSET Nat /\ I \in SUBSET Nat
    BY <2>1, <1>3
  <2>3. <<1..y, I>> \in StrictSubsetOrdering(Nat)
    BY <2>1, <2>2, <1>3 DEF StrictSubsetOrdering
  <2> QED BY <2>1, <2>3, <1>2
<1> QED BY <1>4

LEMMA GreatestNatural ==
    ASSUME NEW n \in Nat, NEW S \in SUBSET (0..n), S # {}
    PROVE  \E x \in S : \A y \in S : x >= y
<1> DEFINE R == {n - x : x \in S}
<1>1. R \in SUBSET Nat /\ R # {}
  <2>1. \A x \in S : n - x \in Nat
    OBVIOUS
  <2> QED BY <2>1
<1>2. PICK r \in R : \A q \in R : r <= q
  <2> HIDE DEF R
  <2> QED BY <1>1, LeastNatural
<1>3. PICK x \in S : r = n - x
  OBVIOUS
<1>4. \A y \in S : n - x <= n - y
  BY <1>2, <1>3
<1> QED BY <1>3, <1>4

(* What holds of zero, and of each number up to n when it holds of the one *)
(* before it, holds of all of them.                                        *)
LEMMA CountUp ==
    ASSUME NEW n \in Nat, NEW G, 0 \in G,
           \A i \in 1..n : i - 1 \in G => i \in G
    PROVE  \A i \in 0..n : i \in G
<1> SUFFICES ASSUME NEW k \in 0..n, k \notin G PROVE FALSE
  OBVIOUS
<1> DEFINE Bad == {i \in 0..n : i \notin G}
<1>1. Bad \in SUBSET Nat /\ k \in Bad
  OBVIOUS
<1>2. PICK b \in Bad : \A i \in Bad : b <= i
  BY <1>1, LeastNatural
<1>3. b # 0 /\ b \in 1..n /\ b - 1 \in 0..n
  BY <1>2
<1>4. b - 1 \in G
  BY <1>2, <1>3
<1> QED BY <1>2, <1>3, <1>4

(* f has a value for zero and each value up to n from the one before it. *)
CountsUp(f, n, first, next) == f[0] = first /\ \A i \in 1..n : f[i] = next[i][f[i - 1]]

(* The same of values in T only. *)
CountsIn(T, g, n, first, next) ==
    g[0] = first /\ \A i \in 1..n : g[i - 1] \in T => g[i] = next[i][g[i - 1]]

(* There is such a function. *)
LEMMA DefinedByCounting ==
    ASSUME NEW T, NEW n \in Nat, NEW first \in T, NEW next \in [1..n -> [T -> T]]
    PROVE  \E f \in [0..n -> T] : CountsUp(f, n, first, next)
<1> DEFINE Good(m) == \E f \in [0..m -> T] : CountsUp(f, m, first, next)
           G == {m \in 0..n : Good(m)}
<1>1. 0 \in G
  <2> DEFINE f == [i \in 0..0 |-> first]
  <2>1. f \in [0..0 -> T] /\ f[0] = first
    OBVIOUS
  <2> HIDE DEF f
  <2>2. Good(0)
    BY <2>1 DEF CountsUp
  <2> QED BY <2>2
<1>2. ASSUME NEW m \in 1..n, m - 1 \in G
      PROVE  m \in G
  <2>1. PICK f \in [0..(m - 1) -> T] : CountsUp(f, m - 1, first, next)
    BY <1>2
  <2> DEFINE g == [i \in 0..m |-> IF i = m THEN next[m][f[m - 1]] ELSE f[i]]
  <2>2. f[m - 1] \in T /\ next[m][f[m - 1]] \in T
    BY <2>1
  <2>3. \A i \in 0..m : g[i] \in T
    BY <2>1, <2>2
  <2>4. g \in [0..m -> T] /\ g[0] = first
    BY <2>1, <2>3 DEF CountsUp
  <2>5. ASSUME NEW i \in 1..m PROVE g[i] = next[i][g[i - 1]]
    <3>1. i - 1 \in 0..m /\ i - 1 # m /\ g[i - 1] = f[i - 1]
      OBVIOUS
    <3>2. CASE i = m
      BY <3>1, <3>2
    <3>3. CASE i # m
      <4>1. i \in 1..(m - 1) /\ g[i] = f[i]
        BY <3>3
      <4> QED BY <2>1, <3>1, <4>1 DEF CountsUp
    <3> QED BY <3>2, <3>3
  <2> HIDE DEF g
  <2>6. CountsUp(g, m, first, next)
    BY <2>4, <2>5 DEF CountsUp
  <2>7. Good(m)
    BY <2>4, <2>6
  <2> QED BY <2>7
<1> HIDE DEF G
<1>3. \A m \in 0..n : m \in G
  BY <1>1, <1>2, CountUp
<1>4. n \in G
  BY <1>3
<1> QED BY <1>4 DEF G

(* There is only one. *)
LEMMA SameByCounting ==
    ASSUME NEW T, NEW n \in Nat, NEW first \in T, NEW next \in [1..n -> [T -> T]],
           NEW f \in [0..n -> T], CountsUp(f, n, first, next),
           NEW g, CountsIn(T, g, n, first, next)
    PROVE  g[n] = f[n]
<1> DEFINE H == {m \in 0..n : g[m] = f[m]}
<1>1. 0 \in H
  BY DEF CountsUp, CountsIn
<1>2. ASSUME NEW m \in 1..n, m - 1 \in H PROVE m \in H
  <2>1. m - 1 \in 0..n /\ g[m - 1] = f[m - 1] /\ f[m - 1] \in T
    BY <1>2
  <2>2. g[m] = next[m][g[m - 1]] /\ f[m] = next[m][f[m - 1]]
    BY <2>1 DEF CountsUp, CountsIn
  <2> QED BY <2>1, <2>2
<1> HIDE DEF H
<1>3. \A m \in 0..n : m \in H
  BY <1>1, <1>2, CountUp
<1>4. n \in H
  BY <1>3
<1> QED BY <1>4 DEF H

(* Quotient and remainder, ... *)
LEMMA Divided ==
    ASSUME NEW m \in Nat \ {0}, NEW a \in Int
    PROVE  /\ a \div m \in Int /\ a % m \in 0..(m - 1)
           /\ a = (a \div m) * m + (a % m)
OBVIOUS

(* ... and that there is only one of each. *)
LEMMA Quotient ==
    ASSUME NEW m \in Nat \ {0}, NEW q \in Int, NEW r \in 0..(m - 1)
    PROVE  (q * m + r) \div m = q /\ (q * m + r) % m = r
<1> DEFINE a == q * m + r
           p == a \div m
           t == a % m
<1>1. a \in Int
  OBVIOUS
<1>2. p \in Int /\ t \in 0..(m - 1) /\ a = p * m + t
  BY <1>1, Divided
<1>3. (q - p) * m = t - r
  BY <1>2
<1> HIDE DEF p, t
<1>4. q = p
  <2>1. CASE q >= p + 1
    <3>1. (q - p) * m >= 1 * m
      BY <1>2, <2>1
    <3> QED BY <1>2, <1>3, <3>1
  <2>2. CASE q <= p - 1
    <3>1. (p - q) * m >= 1 * m
      BY <1>2, <2>2
    <3>2. (p - q) * m = r - t
      BY <1>2
    <3> QED BY <1>2, <3>1, <3>2
  <2> QED BY <1>2, <2>1, <2>2
<1> QED BY <1>2, <1>3, <1>4 DEF p, t

(* A factor that is not negative keeps the order. *)
LEMMA OrderedProducts ==
    ASSUME NEW a \in Int, NEW b \in Int, NEW m \in Nat, a <= b
    PROVE  a * m <= b * m
OBVIOUS

(* The members of a finite set of numbers have the ranks 0, 1, ... one each. *)
LEMMA Ranks ==
    ASSUME NEW S \in SUBSET Nat, IsFiniteSet(S)
    PROVE  /\ Cardinality(S) \in Nat
           /\ \A r \in 0..(Cardinality(S) - 1) : \E i \in S : Cardinality({j \in S : j < i}) = r
           /\ \A i, k \in S : Cardinality({j \in S : j < i}) = Cardinality({j \in S : j < k}) => i = k
<1> DEFINE Below(i) == {j \in S : j < i}
           c == Cardinality(S)
           R == [i \in S |-> Cardinality(Below(i))]
<1>1. c \in Nat
  BY FS_CardinalityType
<1>2. ASSUME NEW i \in S
      PROVE  IsFiniteSet(Below(i)) /\ Cardinality(Below(i)) \in 0..(c - 1)
  <2>1. Below(i) \in SUBSET S /\ Below(i) # S
    OBVIOUS
  <2> HIDE DEF Below
  <2>2. IsFiniteSet(Below(i)) /\ Cardinality(Below(i)) <= c /\ Cardinality(Below(i)) # c
    BY <2>1, FS_Subset
  <2>3. Cardinality(Below(i)) \in Nat
    BY <2>2, FS_CardinalityType
  <2> HIDE DEF c
  <2> QED BY <1>1, <2>2, <2>3
<1>3. ASSUME NEW i \in S, NEW k \in S, i < k
      PROVE  Cardinality(Below(i)) < Cardinality(Below(k))
  <2>0. i \in Nat /\ k \in Nat /\ \A j \in S : j \in Nat
    OBVIOUS
  <2>1. Below(i) \cup {i} \in SUBSET Below(k) /\ i \notin Below(i)
    <3>1. \A j \in S : j < i => j < k
      BY <1>3, <2>0
    <3>2. i \in Below(k) /\ i \notin Below(i)
      BY <1>3, <2>0
    <3> QED BY <3>1, <3>2
  <2> HIDE DEF Below, c
  <2>2. Cardinality(Below(i) \cup {i}) = Cardinality(Below(i)) + 1
    BY <1>2, <2>1, FS_AddElement
  <2>3. Cardinality(Below(i) \cup {i}) <= Cardinality(Below(k))
    BY <1>2, <2>1, FS_Subset
  <2> QED BY <1>1, <1>2, <2>2, <2>3
<1>4. ASSUME NEW i \in S, NEW k \in S, R[i] = R[k] PROVE i = k
  <2>1. Cardinality(Below(i)) = Cardinality(Below(k))
    BY <1>4
  <2> HIDE DEF Below, c
  <2>2. Cardinality(Below(i)) \in Nat
    BY <1>1, <1>2
  <2>3. ~(i < k) /\ ~(k < i)
    BY <1>3, <2>1, <2>2
  <2> QED BY <2>3
<1>5. R \in Injection(S, 0..(c - 1))
  <2>1. R \in [S -> 0..(c - 1)]
    BY <1>2
  <2> HIDE DEF R, c
  <2> QED BY <1>4, <2>1 DEF Injection, IsInjective
<1>6. IsFiniteSet(0..(c - 1)) /\ Cardinality(0..(c - 1)) = c
  <2> HIDE DEF c
  <2> QED BY <1>1, FS_Interval
<1>7. R \in Surjection(S, 0..(c - 1))
  <2> HIDE DEF R
  <2> QED BY <1>5, <1>6, FS_Injection
<1>8. \A r \in 0..(c - 1) : \E i \in S : R[i] = r
  <2> HIDE DEF R, c
  <2> QED BY <1>7 DEF Surjection
<1> HIDE DEF c
<1> QED BY <1>1, <1>4, <1>8 DEF c

(* RemoveAt closes the gap at i and moves nothing else. *)
LEMMA RemoveAtEntries ==
    ASSUME NEW S, NEW s \in Seq(S), NEW i \in 1..Len(s)
    PROVE  /\ RemoveAt(s, i) \in Seq(S)
           /\ Len(RemoveAt(s, i)) = Len(s) - 1
           /\ \A j \in 1..(Len(s) - 1) :
                 RemoveAt(s, i)[j] = IF j < i THEN s[j] ELSE s[j + 1]
<1> DEFINE f == SubSeq(s, 1, i - 1)
           g == SubSeq(s, i + 1, Len(s))
<1>1. f \in Seq(S) /\ Len(f) = i - 1 /\ \A j \in 1..(i - 1) : f[j] = s[j]
  OBVIOUS
<1>2. g \in Seq(S) /\ Len(g) = Len(s) - i /\ \A j \in 1..(Len(s) - i) : g[j] = s[i + j]
  OBVIOUS
<1>3. RemoveAt(s, i) = f \o g
  BY DEF RemoveAt
<1> HIDE DEF f, g
<1>4. /\ f \o g \in Seq(S) /\ Len(f \o g) = Len(f) + Len(g)
      /\ \A j \in 1..(Len(f) + Len(g)) :
            (f \o g)[j] = IF j <= Len(f) THEN f[j] ELSE g[j - Len(f)]
  BY <1>1, <1>2, ConcatProperties
<1>5. Len(s) \in Nat /\ Len(f) + Len(g) = Len(s) - 1
  BY <1>1, <1>2
<1>6. ASSUME NEW j \in 1..(Len(s) - 1)
      PROVE  (f \o g)[j] = IF j < i THEN s[j] ELSE s[j + 1]
  <2>1. CASE j < i
    BY <1>1, <1>4, <1>5, <2>1
  <2>2. CASE j >= i
    <3>1. (f \o g)[j] = g[j - (i - 1)]
      BY <1>1, <1>4, <1>5, <2>2
    <3>2. j - (i - 1) \in 1..(Len(s) - i) /\ i + (j - (i - 1)) = j + 1
      BY <1>5, <2>2
    <3>3. g[j - (i - 1)] = s[i + (j - (i - 1))]
      BY <1>2, <3>2
    <3> QED BY <2>2, <3>1, <3>2, <3>3
  <2> QED BY <1>5, <2>1, <2>2
<1> QED BY <1>3, <1>4, <1>5, <1>6
-----------------------------------------------------------------------------
(* Pieces of sequences. *)

(* Taking the first and the last of a sequence and putting them back. *)
LEMMA PutBack ==
    ASSUME NEW S, NEW s \in Seq(S), NEW q \in S, Len(s) >= 2, s[1] = q, s[Len(s)] = q
    PROVE  /\ SubSeq(s, 2, Len(s) - 1) \in Seq(S)
           /\ <<q>> \o SubSeq(s, 2, Len(s) - 1) \o <<q>> = s
<1> DEFINE l == Len(s)
           t == SubSeq(s, 2, l - 1)
           o == <<q>>
           u == o \o t
           v == u \o o
<1>1. l \in Nat /\ l >= 2 /\ s[l] = q /\ \A i \in 1..l : s[i] \in S
  BY ElementOfSeq
<1>2. o \in Seq(S) /\ Len(o) = 1 /\ o[1] = q
  OBVIOUS
<1> HIDE DEF l, o
<1>3. t \in Seq(S) /\ Len(t) = l - 2 /\ \A i \in 1..(l - 2) : t[i] = s[i + 1]
  <2>1. \A i \in 2..(l - 1) : s[i] \in S
    BY <1>1
  <2>2. /\ t \in Seq(S) /\ Len(t) = IF 2 <= l - 1 THEN l - 1 - 2 + 1 ELSE 0
        /\ \A i \in 1..(l - 1 - 2 + 1) : t[i] = s[2 + i - 1]
    BY <1>1, <2>1, SubSeqProperties
  <2> HIDE DEF t
  <2> QED BY <1>1, <2>2
<1> HIDE DEF t
<1>4. u \in Seq(S) /\ Len(u) = l - 1 /\ \A i \in 1..(l - 1) : u[i] = s[i]
  <2>1. /\ u \in Seq(S) /\ Len(u) = Len(o) + Len(t)
        /\ \A i \in 1..(Len(o) + Len(t)) : u[i] = IF i <= Len(o) THEN o[i] ELSE t[i - Len(o)]
    <3>1. o \in Seq(S) /\ t \in Seq(S)
      BY <1>2, <1>3
    <3> QED BY <3>1, ConcatProperties
  <2> HIDE DEF u
  <2>2. ASSUME NEW i \in 1..(l - 1), i # 1 PROVE u[i] = s[i]
    <3>1. i - 1 \in 1..(l - 2) /\ ~(i <= 1) /\ (i - 1) + 1 = i
      BY <1>1, <2>2
    <3> QED BY <1>1, <1>2, <1>3, <2>1, <2>2, <3>1
  <2>3. u[1] = s[1]
    BY <1>1, <1>2, <1>3, <2>1
  <2> QED BY <1>1, <1>2, <1>3, <2>1, <2>2, <2>3
<1> HIDE DEF u
<1>5. v \in Seq(S) /\ Len(v) = l /\ \A i \in 1..l : v[i] = s[i]
  <2>1. /\ v \in Seq(S) /\ Len(v) = Len(u) + Len(o)
        /\ \A i \in 1..(Len(u) + Len(o)) : v[i] = IF i <= Len(u) THEN u[i] ELSE o[i - Len(u)]
    BY <1>2, <1>4, ConcatProperties
  <2> HIDE DEF v
  <2>2. v[l] = s[l]
    BY <1>1, <1>2, <1>4, <2>1
  <2>3. \A i \in 1..(l - 1) : v[i] = s[i]
    BY <1>1, <1>2, <1>4, <2>1
  <2> QED BY <1>1, <1>2, <1>4, <2>1, <2>2, <2>3
<1> HIDE DEF v
<1>6. v = s
  BY <1>5, SeqEqual DEF l
<1> QED BY <1>3, <1>6 DEF v, u, t, o, l

(* A piece of a piece. *)
LEMMA TailOfHead ==
    ASSUME NEW S, NEW s \in Seq(S), NEW n \in 0..Len(s)
    PROVE  LET text == SubSeq(s, 1, n)
           IN  /\ text \in Seq(S) /\ Len(text) = n /\ \A i \in 1..n : text[i] = s[i]
               /\ \A m \in 1..n : SubSeq(text, m, n) = SubSeq(s, m, n)
<1> DEFINE text == SubSeq(s, 1, n)
<1>1. n \in Nat /\ Len(s) \in Nat /\ n <= Len(s) /\ \A i \in 1..Len(s) : s[i] \in S
  BY ElementOfSeq
<1>2. text \in Seq(S) /\ Len(text) = n /\ \A i \in 1..n : text[i] = s[i]
  <2>1. \A i \in 1..n : s[i] \in S
    BY <1>1
  <2>2. /\ text \in Seq(S) /\ Len(text) = IF 1 <= n THEN n - 1 + 1 ELSE 0
        /\ \A i \in 1..(n - 1 + 1) : text[i] = s[1 + i - 1]
    BY <1>1, <2>1, SubSeqProperties
  <2> HIDE DEF text
  <2> QED BY <1>1, <2>2
<1> HIDE DEF text
<1>3. ASSUME NEW m \in 1..n PROVE SubSeq(text, m, n) = SubSeq(s, m, n)
  <2>1. (\A i \in m..n : s[i] \in S) /\ (\A i \in m..n : text[i] \in S /\ text[i] = s[i])
    BY <1>1, <1>2
  <2>2. /\ SubSeq(s, m, n) \in Seq(S) /\ Len(SubSeq(s, m, n)) = n - m + 1
        /\ \A i \in 1..(n - m + 1) : SubSeq(s, m, n)[i] = s[m + i - 1]
    BY <1>1, <2>1, SubSeqProperties
  <2>3. /\ SubSeq(text, m, n) \in Seq(S) /\ Len(SubSeq(text, m, n)) = n - m + 1
        /\ \A i \in 1..(n - m + 1) : SubSeq(text, m, n)[i] = text[m + i - 1]
    BY <1>1, <1>2, <2>1, SubSeqProperties
  <2>4. \A i \in 1..(n - m + 1) : m + i - 1 \in m..n
    BY <1>1
  <2>5. \A i \in 1..(n - m + 1) : SubSeq(text, m, n)[i] = SubSeq(s, m, n)[i]
    BY <2>1, <2>2, <2>3, <2>4
  <2> QED BY <2>2, <2>3, <2>5, SeqEqual
<1> QED BY <1>2, <1>3 DEF text

(* A piece that is one longer. *)
LEMMA OneMore ==
    ASSUME NEW S, NEW s \in Seq(S), NEW i \in 1..Len(s)
    PROVE  SubSeq(s, 1, i - 1) \o <<s[i]>> = SubSeq(s, 1, i)
<1> DEFINE h == SubSeq(s, 1, i - 1)
           o == <<s[i]>>
           u == h \o o
           t == SubSeq(s, 1, i)
<1>1. i \in Nat /\ i > 0 /\ i - 1 \in 0..Len(s) /\ i \in 0..Len(s) /\ s[i] \in S
  BY ElementOfSeq
<1>2. h \in Seq(S) /\ Len(h) = i - 1 /\ \A j \in 1..(i - 1) : h[j] = s[j]
  BY <1>1, TailOfHead
<1>3. t \in Seq(S) /\ Len(t) = i /\ \A j \in 1..i : t[j] = s[j]
  BY <1>1, TailOfHead
<1>4. o \in Seq(S) /\ Len(o) = 1 /\ o[1] = s[i]
  BY <1>1
<1> HIDE DEF h, o, t
<1>5. /\ u \in Seq(S) /\ Len(u) = Len(h) + Len(o)
      /\ \A j \in 1..(Len(h) + Len(o)) : u[j] = IF j <= Len(h) THEN h[j] ELSE o[j - Len(h)]
  BY <1>2, <1>4, ConcatProperties
<1> HIDE DEF u
<1>6. \A j \in 1..i : u[j] = t[j]
  <2> TAKE j \in 1..i
  <2>1. CASE j <= i - 1
    BY <1>1, <1>2, <1>3, <1>4, <1>5, <2>1
  <2>2. CASE j = i
    BY <1>1, <1>2, <1>3, <1>4, <1>5, <2>2
  <2> QED BY <1>1, <2>1, <2>2
<1>7. Len(u) = i
  BY <1>1, <1>2, <1>4, <1>5
<1> QED BY <1>3, <1>5, <1>6, <1>7, SeqEqual DEF u, t, h, o
=============================================================================
