-------------------------- MODULE SortedSeqsProofs --------------------------
(***************************************************************************)
(* Lemmas about sorted sequences, and induction over the natural numbers   *)
(* in a form the provers can use: as a fact about sets of numbers.         *)
(***************************************************************************)
EXTENDS SortedSeqs, FiniteSetTheorems, SequenceTheorems, WellFoundedInduction, TLAPS

\* A set of numbers that is not empty has a least element.
LEMMA LeastNumber ==
  \A S \in SUBSET Nat : S # {} => \E n \in S : \A m \in S : n <= m
<1> DEFINE R == {ss \in Nat \X Nat : ss[1] < ss[2]}
<1>1. R = OpToRel(<, Nat)
  BY Zenon DEF OpToRel
<1>2. IsWellFoundedOn(R, Nat)
  BY NatLessThanWellFounded, <1>1
<1>3. SUFFICES ASSUME NEW S \in SUBSET Nat, S # {} PROVE \E n \in S : \A m \in S : n <= m
  OBVIOUS
<1>4. \E x \in S : \A y \in S : ~ (<<y, x>> \in R)
  <2> HIDE DEF R
  <2> QED BY WFMin, <1>2, <1>3, Zenon
<1>5. PICK n \in S : \A m \in S : <<m, n>> \notin R
  BY <1>4
<1>6. \A m \in S : n <= m
  <2> TAKE m \in S
  <2>1. <<m, n>> \notin R
    BY <1>5
  <2> QED BY <2>1
<1> QED BY <1>6

\* Induction: a set that has 0, and with each number the next, has all of them.
LEMMA Induction ==
  \A P \in SUBSET Nat : 0 \in P /\ (\A n \in P : n + 1 \in P) => P = Nat
<1> SUFFICES ASSUME NEW P \in SUBSET Nat, 0 \in P, \A n \in P : n + 1 \in P, Nat \ P # {}
             PROVE  FALSE
  OBVIOUS
<1>1. PICK n \in Nat \ P : \A m \in Nat \ P : n <= m
  BY LeastNumber
<1>2. n - 1 \in Nat /\ n - 1 \in P
  BY <1>1
<1> QED BY <1>2

\* s lists the elements of S, smallest first.
Lists(s, S) ==
  /\ s \in [1..Cardinality(S) -> S]
  /\ \A i, j \in 1..Cardinality(S) : i < j => s[i] < s[j]
  /\ \A x \in S : \E i \in 1..Cardinality(S) : s[i] = x

\* Every finite set of numbers can be listed.
LEMMA ListExists ==
  ASSUME NEW S \in SUBSET Nat, IsFiniteSet(S)
  PROVE  \E s : Lists(s, S)
<1> DEFINE P == {n \in Nat : \A T \in SUBSET Nat :
                    IsFiniteSet(T) /\ Cardinality(T) = n => \E s : Lists(s, T)}
<1>1. 0 \in P
  <2> SUFFICES ASSUME NEW T \in SUBSET Nat, IsFiniteSet(T), Cardinality(T) = 0
               PROVE  \E s : Lists(s, T)
    OBVIOUS
  <2>1. T = {}
    BY FS_EmptySet
  <2>2. Lists([i \in 1..0 |-> 0], T)
    BY <2>1 DEF Lists
  <2> QED BY <2>2
<1>2. ASSUME NEW n \in P PROVE n + 1 \in P
  <2> SUFFICES ASSUME NEW T \in SUBSET Nat, IsFiniteSet(T), Cardinality(T) = n + 1
               PROVE  \E s : Lists(s, T)
    OBVIOUS
  <2>0. n \in Nat /\ \A U \in SUBSET Nat :
               IsFiniteSet(U) /\ Cardinality(U) = n => \E s : Lists(s, U)
    OBVIOUS
  <2> n \in Nat
    BY <2>0
  <2> HIDE DEF P
  <2>1. T # {}
    BY <2>0, FS_EmptySet
  <2>2. PICK m \in T : \A x \in T : m <= x
    BY <2>1, LeastNumber
  <2>3. IsFiniteSet(T \ {m}) /\ Cardinality(T \ {m}) = n
    <3>1. Cardinality(T \ {m}) = Cardinality(T) - 1 /\ IsFiniteSet(T \ {m})
      BY FS_RemoveElement
    <3> QED BY <3>1, <2>0
  <2>4. PICK s : Lists(s, T \ {m})
    BY <2>3, <2>0
  <2> DEFINE t == [i \in 1..(n + 1) |-> IF i = 1 THEN m ELSE s[i - 1]]
  <2>5. s \in [1..n -> T \ {m}] /\ \A i, j \in 1..n : i < j => s[i] < s[j]
    BY <2>3, <2>4 DEF Lists
  <2>6. t \in [1..(n + 1) -> T]
    BY <2>5, <2>0
  <2>7. \A i \in 1..n : m < s[i]
    <3> TAKE i \in 1..n
    <3>1. s[i] \in T /\ s[i] # m /\ s[i] \in Nat /\ m \in Nat
      BY <2>5
    <3>2. m <= s[i]
      BY <3>1, <2>2
    <3> HIDE DEF t
    <3> QED BY <3>1, <3>2
  <2>8. ASSUME NEW i \in 1..(n + 1), NEW j \in 1..(n + 1), i < j PROVE t[i] < t[j]
    <3>1. j - 1 \in 1..n /\ t[j] = s[j - 1]
      BY <2>8
    <3>2. CASE i = 1
      <4>1. t[i] = m
        BY <3>2
      <4> HIDE DEF t
      <4> QED BY <4>1, <3>1, <2>7
    <3>3. CASE i # 1
      <4>1. i - 1 \in 1..n /\ t[i] = s[i - 1] /\ i - 1 < j - 1
        BY <3>3, <2>8
      <4> QED BY <4>1, <3>1, <2>5
    <3> QED BY <3>2, <3>3
  <2>9. ASSUME NEW x \in T PROVE \E i \in 1..(n + 1) : t[i] = x
    <3>1. CASE x = m
      BY <3>1
    <3>2. CASE x # m
      <4>0. x \in T \ {m}
        BY <3>2
      <4>1. PICK i \in 1..n : s[i] = x
        BY <4>0, <2>3, <2>4 DEF Lists
      <4>2. i + 1 \in 1..(n + 1) /\ t[i + 1] = x
        BY <4>1
      <4> QED BY <4>2
    <3> QED BY <3>1, <3>2
  <2>10. Lists(t, T)
    BY <2>6, <2>8, <2>9 DEF Lists
  <2> QED BY <2>10
<1>3. P = Nat
  <2> HIDE DEF P
  <2>1. P \in SUBSET Nat
    BY DEF P
  <2> QED BY <1>1, <1>2, <2>1, Induction
<1> QED BY <1>3, FS_CardinalityType

LEMMA IncreasingMeans ==
  \A s : Increasing(s) <=> \A i, j \in 1..Len(s) : i < j => s[i] < s[j]
BY Zenon DEF Increasing, IsSorted

\* Of an increasing sequence, the elements at positions a to b are as many as positions.
LEMMA CountBetween ==
  ASSUME NEW n \in Nat, NEW s \in [1..n -> Nat], NEW a \in 1..(n + 1), NEW b \in (a - 1)..n,
         \A i, j \in 1..n : i < j => s[i] < s[j]
  PROVE  /\ IsFiniteSet({s[i] : i \in a..b})
         /\ Cardinality({s[i] : i \in a..b}) = b - a + 1
<1> DEFINE T == {s[i] : i \in a..b}
           f == [i \in a..b |-> s[i]]
<1>1. \A i, j \in a..b : s[i] = s[j] => i = j
  <2> TAKE i \in a..b, j \in a..b
  <2>0. i \in 1..n /\ j \in 1..n
    OBVIOUS
  <2>1. s[i] \in Nat /\ s[j] \in Nat /\ (i < j => s[i] < s[j]) /\ (j < i => s[j] < s[i])
    BY <2>0
  <2> QED BY <2>0, <2>1
<1>2. f \in Injection(a..b, T)
  BY <1>1 DEF Injection, IsInjective
<1>3. f \in Surjection(a..b, T)
  BY DEF Surjection
<1>4. IsFiniteSet(a..b) /\ Cardinality(a..b) = b - a + 1
  <2>1. a \in Int /\ b \in Int /\ (IF a > b THEN 0 ELSE b - a + 1) = b - a + 1
    OBVIOUS
  <2> HIDE DEF T, f
  <2> QED BY <2>1, FS_Interval
<1> HIDE DEF T, f
<1>5. IsFiniteSet(T) /\ Cardinality(T) = b - a + 1
  BY <1>2, <1>3, <1>4, FS_Surjection
<1> QED BY <1>5 DEF T

\* Those behind position k.
LEMMA CountBehind ==
  ASSUME NEW n \in Nat, NEW s \in [1..n -> Nat], NEW k \in 0..n,
         \A i, j \in 1..n : i < j => s[i] < s[j]
  PROVE  /\ IsFiniteSet({s[i] : i \in (k + 1)..n})
         /\ Cardinality({s[i] : i \in (k + 1)..n}) = n - k
<1>1. k + 1 \in 1..(n + 1) /\ n \in ((k + 1) - 1)..n /\ n - (k + 1) + 1 = n - k
  OBVIOUS
<1> QED BY <1>1, CountBetween

\* And those smaller than the one there.
LEMMA CountSmaller ==
  ASSUME NEW S \in SUBSET Nat, IsFiniteSet(S), NEW s, Lists(s, S), NEW k \in 1..Cardinality(S)
  PROVE  Cardinality({y \in S : y < s[k]}) = k - 1
<1> DEFINE n == Cardinality(S)
<1>1. n \in Nat
  BY FS_CardinalityType
<1>2. /\ s \in [1..n -> Nat] /\ \A i \in 1..n : s[i] \in S
      /\ \A i, j \in 1..n : i < j => s[i] < s[j]
      /\ \A x \in S : \E i \in 1..n : s[i] = x
  BY DEF Lists
<1>3. {y \in S : y < s[k]} = {s[i] : i \in 1..(k - 1)}
  <2> HIDE DEF n
  <2>0. k \in 1..n
    BY DEF n
  <2>1. ASSUME NEW y \in S, y < s[k] PROVE \E i \in 1..(k - 1) : s[i] = y
    <3>1. PICK i \in 1..n : s[i] = y
      BY <1>2
    <3>2. i = k => s[i] = s[k]
      OBVIOUS
    <3>3. i > k => s[k] < s[i]
      BY <1>2, <2>0
    <3>4. s[i] \in Nat /\ s[k] \in Nat /\ s[i] < s[k]
      BY <1>2, <2>0, <2>1, <3>1
    <3>5. i < k
      BY <1>1, <2>0, <3>2, <3>3, <3>4
    <3> QED BY <1>1, <2>0, <3>1, <3>5
  <2>2. ASSUME NEW i \in 1..(k - 1) PROVE s[i] \in S /\ s[i] < s[k]
    <3>1. i \in 1..n /\ i < k
      BY <1>1, <2>0
    <3> QED BY <1>2, <2>0, <3>1
  <2> QED BY <2>1, <2>2
<1>4. 1 \in 1..(n + 1) /\ k - 1 \in (1 - 1)..n /\ (k - 1) - 1 + 1 = k - 1
  BY <1>1
<1>5. Cardinality({s[i] : i \in 1..(k - 1)}) = k - 1
  <2> HIDE DEF n
  <2> QED BY <1>1, <1>2, <1>4, CountBetween
<1> QED BY <1>3, <1>5

LEMMA AscendingLists ==
  ASSUME NEW S \in SUBSET Nat, IsFiniteSet(S)
  PROVE  Lists(Ascending(S), S)
<1>0. Cardinality(S) \in Nat
  BY FS_CardinalityType
<1>1. PICK s : Lists(s, S)
  BY ListExists
<1>2. \A k \in 1..Cardinality(S) : Cardinality({y \in S : y < s[k]}) = k - 1
  BY <1>1, CountSmaller
<1>3. s \in [1..Cardinality(S) -> S] /\ \A x \in S : \E i \in 1..Cardinality(S) : s[i] = x
  BY <1>1 DEF Lists
<1>4. ASSUME NEW k \in 1..Cardinality(S)
      PROVE  (CHOOSE x \in S : Cardinality({y \in S : y < x}) = k - 1) = s[k]
  <2>1. ASSUME NEW x \in S, Cardinality({y \in S : y < x}) = k - 1 PROVE x = s[k]
    <3>1. PICK i \in 1..Cardinality(S) : s[i] = x
      BY <1>3
    <3>2. i - 1 = k - 1
      BY <1>2, <2>1, <3>1
    <3>3. i = k
      BY <1>0, <3>2
    <3> QED BY <3>1, <3>3
  <2>2. s[k] \in S /\ Cardinality({y \in S : y < s[k]}) = k - 1
    BY <1>2, <1>3
  <2> QED BY <2>1, <2>2
<1>5. Ascending(S) = s
  BY <1>3, <1>4 DEF Ascending
<1> QED BY <1>1, <1>5

-----------------------------------------------------------------------------
\* Sequences and the sets of their elements.

LEMMA EmptyFacts ==
  ASSUME NEW S
  PROVE  /\ <<>> \in Seq(S) /\ Len(<<>>) = 0
         /\ \A s \in Seq(S) : s = <<>> <=> Len(s) = 0
OBVIOUS

LEMMA ListsFacts ==
  ASSUME NEW S \in SUBSET Nat, IsFiniteSet(S), NEW q, Lists(q, S)
  PROVE  q \in Seq(Nat) /\ Increasing(q) /\ ToSet(q) = S
<1>1. Cardinality(S) \in Nat
  BY FS_CardinalityType
<1>2. /\ q \in [1..Cardinality(S) -> S] /\ \A x \in S : \E i \in 1..Cardinality(S) : q[i] = x
      /\ \A i, j \in 1..Cardinality(S) : i < j => q[i] < q[j]
  BY DEF Lists
<1>3. q \in Seq(Nat) /\ Len(q) = Cardinality(S) /\ DOMAIN q = 1..Cardinality(S)
  <2>1. q \in [1..Cardinality(S) -> Nat]
    BY <1>2
  <2> QED BY <1>1, <2>1
<1>4. ToSet(q) = S
  BY <1>2, <1>3 DEF ToSet
<1>5. Increasing(q)
  BY <1>2, <1>3, IncreasingMeans
<1> QED BY <1>3, <1>4, <1>5

LEMMA ToSetFacts ==
  ASSUME NEW S, NEW s \in Seq(S)
  PROVE  /\ ToSet(s) \subseteq S
         /\ \A i \in 1..Len(s) : s[i] \in ToSet(s)
         /\ \A x \in ToSet(s) : \E i \in 1..Len(s) : s[i] = x
         /\ s = <<>> => ToSet(s) = {}
         /\ s # <<>> => ToSet(s) = {Head(s)} \union ToSet(Tail(s))
<1>1. DOMAIN s = 1..Len(s)
  OBVIOUS
<1>2. /\ ToSet(s) \subseteq S
      /\ \A i \in 1..Len(s) : s[i] \in ToSet(s)
      /\ \A x \in ToSet(s) : \E i \in 1..Len(s) : s[i] = x
      /\ s = <<>> => ToSet(s) = {}
  BY <1>1 DEF ToSet
<1>3. ASSUME s # <<>> PROVE ToSet(s) = {Head(s)} \union ToSet(Tail(s))
  <2>1. /\ Len(s) > 0 /\ Head(s) = s[1] /\ Tail(s) \in Seq(S) /\ Len(Tail(s)) = Len(s) - 1
        /\ DOMAIN Tail(s) = 1..(Len(s) - 1)
        /\ \A i \in 1..(Len(s) - 1) : Tail(s)[i] = s[i + 1]
    BY <1>3
  <2>2. ASSUME NEW x \in ToSet(s) PROVE x = Head(s) \/ x \in ToSet(Tail(s))
    <3>1. PICK i \in 1..Len(s) : s[i] = x
      BY <1>2
    <3>2. i # 1 => i - 1 \in 1..(Len(s) - 1) /\ Tail(s)[i - 1] = x
      BY <3>1, <2>1
    <3> QED BY <3>1, <3>2, <2>1 DEF ToSet
  <2>3. ASSUME NEW x \in ToSet(Tail(s)) PROVE x \in ToSet(s)
    <3>1. PICK i \in 1..(Len(s) - 1) : Tail(s)[i] = x
      BY <2>1 DEF ToSet
    <3>2. i + 1 \in 1..Len(s) /\ s[i + 1] = x
      BY <3>1, <2>1
    <3> QED BY <3>2, <1>2
  <2>4. Head(s) \in ToSet(s)
    BY <2>1, <1>2
  <2> QED BY <2>2, <2>3, <2>4
<1> QED BY <1>2, <1>3

LEMMA ToSetOfConcat ==
  ASSUME NEW S, NEW s \in Seq(S), NEW t \in Seq(S)
  PROVE  ToSet(s \o t) = ToSet(s) \union ToSet(t)
<1>1. /\ s \o t \in Seq(S) /\ Len(s \o t) = Len(s) + Len(t)
      /\ \A i \in 1..Len(s) : (s \o t)[i] = s[i]
      /\ \A i \in 1..Len(t) : (s \o t)[i + Len(s)] = t[i]
  OBVIOUS
<1>2. ASSUME NEW x \in ToSet(s \o t) PROVE x \in ToSet(s) \union ToSet(t)
  <2>0. \A y \in ToSet(s \o t) : \E i \in 1..Len(s \o t) : (s \o t)[i] = y
    BY <1>1, ToSetFacts
  <2>1. PICK i \in 1..(Len(s) + Len(t)) : (s \o t)[i] = x
    BY <1>1, <2>0
  <2>2. CASE i <= Len(s)
    <3>1. x = s[i] /\ i \in 1..Len(s)
      BY <2>1, <2>2, <1>1
    <3> QED BY <3>1, ToSetFacts
  <2>3. CASE i > Len(s)
    <3>1. i - Len(s) \in 1..Len(t) /\ (i - Len(s)) + Len(s) = i
      BY <2>3
    <3>2. x = t[i - Len(s)]
      BY <3>1, <2>1, <1>1
    <3> QED BY <3>1, <3>2, ToSetFacts
  <2> QED BY <2>2, <2>3
<1>3. ASSUME NEW x \in ToSet(s) PROVE x \in ToSet(s \o t)
  <2>1. PICK i \in 1..Len(s) : s[i] = x
    BY ToSetFacts
  <2>2. i \in 1..Len(s \o t) /\ (s \o t)[i] = x
    BY <2>1, <1>1
  <2> QED BY <2>2, <1>1, ToSetFacts
<1>4. ASSUME NEW x \in ToSet(t) PROVE x \in ToSet(s \o t)
  <2>1. PICK i \in 1..Len(t) : t[i] = x
    BY ToSetFacts
  <2>2. i + Len(s) \in 1..Len(s \o t) /\ (s \o t)[i + Len(s)] = x
    BY <2>1, <1>1
  <2> QED BY <2>2, <1>1, ToSetFacts
<1> QED BY <1>2, <1>3, <1>4

LEMMA ToSetOfAppend ==
  ASSUME NEW S, NEW s \in Seq(S), NEW e \in S
  PROVE  ToSet(Append(s, e)) = ToSet(s) \union {e}
<1>1. Append(s, e) = s \o <<e>> /\ <<e>> \in Seq(S)
  OBVIOUS
<1>2. ToSet(<<e>>) = {e}
  BY DEF ToSet
<1>3. ToSet(s \o <<e>>) = ToSet(s) \union ToSet(<<e>>)
  BY <1>1, ToSetOfConcat
<1> QED BY <1>1, <1>2, <1>3

\* A sequence of numbers increases when its two parts do and all of the first is below
\* all of the second.
Below(S, T) == \A x \in S, y \in T : x < y

LEMMA IncreasingConcat ==
  ASSUME NEW s \in Seq(Nat), NEW t \in Seq(Nat)
  PROVE  Increasing(s \o t) <=> Increasing(s) /\ Increasing(t) /\ Below(ToSet(s), ToSet(t))
<1>1. /\ s \o t \in Seq(Nat) /\ Len(s \o t) = Len(s) + Len(t) /\ Len(s) \in Nat /\ Len(t) \in Nat
      /\ \A i \in 1..Len(s) : (s \o t)[i] = s[i]
      /\ \A i \in 1..Len(t) : (s \o t)[i + Len(s)] = t[i]
  OBVIOUS
<1>2. /\ \A i \in 1..Len(s) : s[i] \in ToSet(s)
      /\ \A x \in ToSet(s) : \E i \in 1..Len(s) : s[i] = x
      /\ \A i \in 1..Len(t) : t[i] \in ToSet(t)
      /\ \A x \in ToSet(t) : \E i \in 1..Len(t) : t[i] = x
  BY ToSetFacts
<1> DEFINE u == s \o t
<1>3. ASSUME Increasing(u) PROVE Increasing(s) /\ Increasing(t) /\ Below(ToSet(s), ToSet(t))
  <2>1. \A i, j \in 1..Len(u) : i < j => u[i] < u[j]
    BY <1>3, IncreasingMeans
  <2>2. \A i, j \in 1..Len(s) : i < j => s[i] < s[j]
    <3> TAKE i \in 1..Len(s), j \in 1..Len(s)
    <3>1. i \in 1..Len(u) /\ j \in 1..Len(u) /\ u[i] = s[i] /\ u[j] = s[j]
      BY <1>1
    <3> HIDE DEF u
    <3> QED BY <3>1, <2>1
  <2>3. \A i, j \in 1..Len(t) : i < j => t[i] < t[j]
    <3> TAKE i \in 1..Len(t), j \in 1..Len(t)
    <3>1. /\ i + Len(s) \in 1..Len(u) /\ j + Len(s) \in 1..Len(u)
          /\ u[i + Len(s)] = t[i] /\ u[j + Len(s)] = t[j]
      BY <1>1
    <3>2. i < j => i + Len(s) < j + Len(s)
      BY <1>1
    <3> HIDE DEF u
    <3> QED BY <3>1, <3>2, <2>1
  <2>4. ASSUME NEW x \in ToSet(s), NEW y \in ToSet(t) PROVE x < y
    <3>1. PICK i \in 1..Len(s), j \in 1..Len(t) : s[i] = x /\ t[j] = y
      BY <1>2
    <3>2. /\ i \in 1..Len(u) /\ j + Len(s) \in 1..Len(u) /\ i < j + Len(s)
          /\ u[i] = x /\ u[j + Len(s)] = y
      BY <1>1, <3>1
    <3> HIDE DEF u
    <3> QED BY <3>2, <2>1
  <2> QED BY <2>2, <2>3, <2>4, IncreasingMeans DEF Below
<1>4. ASSUME Increasing(s), Increasing(t), Below(ToSet(s), ToSet(t)) PROVE Increasing(u)
  <2>1. /\ \A i, j \in 1..Len(s) : i < j => s[i] < s[j]
        /\ \A i, j \in 1..Len(t) : i < j => t[i] < t[j]
        /\ \A i \in 1..Len(s), j \in 1..Len(t) : s[i] < t[j]
    BY <1>4, <1>2, IncreasingMeans DEF Below
  <2>2. ASSUME NEW i \in 1..Len(u), NEW j \in 1..Len(u), i < j PROVE u[i] < u[j]
    <3>1. CASE j <= Len(s)
      <4>1. i \in 1..Len(s) /\ j \in 1..Len(s) /\ u[i] = s[i] /\ u[j] = s[j]
        BY <3>1, <2>2, <1>1
      <4> HIDE DEF u
      <4> QED BY <4>1, <2>1, <2>2
    <3>2. CASE j > Len(s) /\ i <= Len(s)
      <4>1. i \in 1..Len(s) /\ j - Len(s) \in 1..Len(t) /\ (j - Len(s)) + Len(s) = j
        BY <3>2, <1>1
      <4>2. u[i] = s[i] /\ u[j] = t[j - Len(s)]
        BY <4>1, <1>1
      <4> HIDE DEF u
      <4> QED BY <4>1, <4>2, <2>1
    <3>3. CASE i > Len(s)
      <4>1. /\ i - Len(s) \in 1..Len(t) /\ (i - Len(s)) + Len(s) = i
            /\ j - Len(s) \in 1..Len(t) /\ (j - Len(s)) + Len(s) = j
            /\ i - Len(s) < j - Len(s)
        BY <3>3, <2>2, <1>1
      <4>2. u[i] = t[i - Len(s)] /\ u[j] = t[j - Len(s)]
        BY <4>1, <1>1
      <4> HIDE DEF u
      <4> QED BY <4>1, <4>2, <2>1
    <3> QED BY <3>1, <3>2, <3>3, <1>1
  <2> QED BY <2>2, IncreasingMeans
<1> QED BY <1>3, <1>4

LEMMA IncreasingAppend ==
  ASSUME NEW s \in Seq(Nat), NEW e \in Nat
  PROVE  Increasing(Append(s, e)) <=> Increasing(s) /\ Below(ToSet(s), {e})
<1>1. Append(s, e) = s \o <<e>> /\ <<e>> \in Seq(Nat) /\ Len(<<e>>) = 1
  OBVIOUS
<1>2. ToSet(<<e>>) = {e}
  BY DEF ToSet
<1>3. Increasing(<<e>>)
  BY <1>1, IncreasingMeans
<1>4. Increasing(s \o <<e>>)
        <=> Increasing(s) /\ Increasing(<<e>>) /\ Below(ToSet(s), ToSet(<<e>>))
  BY <1>1, IncreasingConcat
<1> QED BY <1>1, <1>2, <1>3, <1>4

LEMMA IncreasingTail ==
  ASSUME NEW s \in Seq(Nat), s # <<>>, Increasing(s)
  PROVE  Increasing(Tail(s)) /\ Below({Head(s)}, ToSet(Tail(s)))
<1>1. s = <<Head(s)>> \o Tail(s) /\ <<Head(s)>> \in Seq(Nat) /\ Tail(s) \in Seq(Nat)
  OBVIOUS
<1>2. ToSet(<<Head(s)>>) = {Head(s)}
  BY DEF ToSet
<1>3. Increasing(<<Head(s)>> \o Tail(s))
        <=> /\ Increasing(<<Head(s)>>) /\ Increasing(Tail(s))
            /\ Below(ToSet(<<Head(s)>>), ToSet(Tail(s)))
  BY <1>1, IncreasingConcat
<1> QED BY <1>1, <1>2, <1>3

LEMMA IncreasingCount ==
  ASSUME NEW s \in Seq(Nat), Increasing(s)
  PROVE  IsFiniteSet(ToSet(s)) /\ Cardinality(ToSet(s)) = Len(s)
<1>1. /\ Len(s) \in Nat /\ s \in [1..Len(s) -> Nat] /\ 0 \in 0..Len(s) /\ DOMAIN s = 1..Len(s)
      /\ 0 + 1 = 1 /\ Len(s) - 0 = Len(s)
  OBVIOUS
<1>2. \A i, j \in 1..Len(s) : i < j => s[i] < s[j]
  BY IncreasingMeans
<1>3. ToSet(s) = {s[i] : i \in (0 + 1)..Len(s)}
  BY <1>1 DEF ToSet
<1>4. /\ IsFiniteSet({s[i] : i \in (0 + 1)..Len(s)})
      /\ Cardinality({s[i] : i \in (0 + 1)..Len(s)}) = Len(s) - 0
  BY <1>1, <1>2, CountBehind
<1> QED BY <1>1, <1>3, <1>4

-----------------------------------------------------------------------------
\* The elements of a sequence at some of its positions.

\* A set of numbers is listed in one way.
LEMMA OneListing ==
  ASSUME NEW n \in Nat, NEW p \in [1..n -> Nat], NEW q \in [1..n -> Nat],
         \A i, j \in 1..n : i < j => p[i] < p[j] /\ q[i] < q[j],
         \A i \in 1..n : \E j \in 1..n : q[j] = p[i],
         \A i \in 1..n : \E j \in 1..n : p[j] = q[i]
  PROVE  p = q
<1>0. \A i \in 1..n : i \in Nat /\ p[i] \in Nat /\ q[i] \in Nat
  OBVIOUS
<1> DEFINE D == {i \in 1..n : p[i] # q[i]}
<1>1. ASSUME D # {} PROVE FALSE
  <2>1. D \in SUBSET Nat
    OBVIOUS
  <2>2. PICK k \in D : \A m \in D : k <= m
    BY <1>1, <2>1, LeastNumber
  <2>3. k \in 1..n /\ p[k] # q[k] /\ p[k] \in Nat /\ q[k] \in Nat
    OBVIOUS
  <2>4. \A i \in 1..n : i < k => p[i] = q[i]
    BY <2>2
  <2> HIDE DEF D
  <2>5. CASE p[k] < q[k]
    <3>1. PICK j \in 1..n : q[j] = p[k]
      BY <2>3
    <3>2. j < k => q[j] < p[k]
      BY <2>3, <2>4
    <3>3. j > k => q[k] < q[j]
      BY <2>3
    <3>4. j \in Nat /\ k \in Nat /\ q[j] \in Nat
      BY ONLY <1>0, <2>3, j \in 1..n
    <3>5. j < k \/ j = k \/ j > k
      BY <3>4
    <3> QED BY ONLY <2>3, <2>5, <3>1, <3>2, <3>3, <3>4, <3>5
  <2>6. CASE q[k] < p[k]
    <3>1. PICK j \in 1..n : p[j] = q[k]
      BY <2>3
    <3>2. j < k => p[j] < q[k]
      BY <2>3, <2>4
    <3>3. j > k => p[k] < p[j]
      BY <2>3
    <3>4. j \in Nat /\ k \in Nat /\ p[j] \in Nat
      BY ONLY <1>0, <2>3, j \in 1..n
    <3>5. j < k \/ j = k \/ j > k
      BY <3>4
    <3> QED BY ONLY <2>3, <2>6, <3>1, <3>2, <3>3, <3>4, <3>5
  <2> QED BY <2>3, <2>5, <2>6
<1>2. \A i \in 1..n : p[i] = q[i]
  BY <1>1
<1> QED BY <1>2

LEMMA AscendingIs ==
  ASSUME NEW q \in Seq(Nat), Increasing(q)
  PROVE  Ascending(ToSet(q)) = q
<1> DEFINE S == ToSet(q)
           a == Ascending(S)
           n == Len(q)
<1>1. IsFiniteSet(S) /\ Cardinality(S) = n
  BY IncreasingCount
<1>2. /\ S \in SUBSET Nat /\ \A i \in 1..n : q[i] \in S
      /\ \A x \in S : \E i \in 1..n : q[i] = x
  BY ToSetFacts
<1>3. n \in Nat /\ q \in [1..n -> Nat] /\ \A i, j \in 1..n : i < j => q[i] < q[j]
  BY IncreasingMeans
<1> HIDE DEF S, n
<1>4. Lists(a, S)
  BY <1>1, <1>2, AscendingLists
<1> HIDE DEF a
<1>5. /\ a \in [1..n -> S] /\ \A x \in S : \E i \in 1..n : a[i] = x
      /\ \A i, j \in 1..n : i < j => a[i] < a[j]
  BY <1>1, <1>4 DEF Lists
<1>6. a \in [1..n -> Nat]
  BY <1>2, <1>5
<1>7. /\ \A i \in 1..n : \E j \in 1..n : q[j] = a[i]
      /\ \A i \in 1..n : \E j \in 1..n : a[j] = q[i]
  BY <1>2, <1>5
<1>8. \A i, j \in 1..n : i < j => a[i] < a[j] /\ q[i] < q[j]
  BY <1>3, <1>5
<1>9. a = q
  BY ONLY <1>3, <1>6, <1>7, <1>8, OneListing
<1> QED BY <1>9 DEF a, S

\* What is at the positions in I, when q lists them.
LEMMA SelectedIs ==
  ASSUME NEW T, NEW s \in Seq(T), NEW q \in Seq(Nat), Increasing(q), ToSet(q) \subseteq 1..Len(s)
  PROVE  /\ Selected(s, ToSet(q)) \in Seq(T)
         /\ Len(Selected(s, ToSet(q))) = Len(q)
         /\ \A k \in 1..Len(q) : q[k] \in 1..Len(s) /\ Selected(s, ToSet(q))[k] = s[q[k]]
<1> DEFINE r == Selected(s, ToSet(q))
<1>1. r = [k \in DOMAIN q |-> s[q[k]]]
  BY AscendingIs DEF Selected
<1>2. Len(q) \in Nat /\ DOMAIN q = 1..Len(q)
  OBVIOUS
<1>3. \A k \in 1..Len(q) : q[k] \in 1..Len(s)
  BY ToSetFacts
<1>4. r \in [1..Len(q) -> T]
  BY <1>1, <1>2, <1>3
<1> QED BY <1>1, <1>2, <1>3, <1>4

\* Any set of positions has such a list.
LEMMA PositionsListed ==
  ASSUME NEW n \in Nat, NEW I \in SUBSET (1..n)
  PROVE  \E q \in Seq(Nat) : Increasing(q) /\ ToSet(q) = I
<1>1. IsFiniteSet(1..n)
  BY FS_Interval
<1>2. IsFiniteSet(I)
  BY <1>1, FS_Subset
<1>0. I \in SUBSET Nat
  OBVIOUS
<1>3. Lists(Ascending(I), I)
  BY <1>2, AscendingLists
<1> QED BY <1>0, <1>2, <1>3, ListsFacts

LEMMA ConcatFacts ==
  ASSUME NEW T, NEW s \in Seq(T), NEW t \in Seq(T)
  PROVE  /\ Len(s) \in Nat /\ Len(t) \in Nat
         /\ s \o t \in Seq(T) /\ Len(s \o t) = Len(s) + Len(t)
         /\ \A k \in 1..Len(s) : (s \o t)[k] = s[k]
         /\ \A k \in 1..Len(t) : (s \o t)[k + Len(s)] = t[k]
OBVIOUS

\* A sequence that has the elements of two, one after the other, is their concatenation.
LEMMA ConcatIs ==
  ASSUME NEW T, NEW s \in Seq(T), NEW t \in Seq(T), NEW c \in Seq(T),
         Len(c) = Len(s) + Len(t),
         \A k \in 1..Len(s) : c[k] = s[k],
         \A k \in 1..Len(t) : c[k + Len(s)] = t[k]
  PROVE  c = s \o t
<1> DEFINE u == s \o t
           n == Len(s)
           m == Len(t)
<1>1. /\ n \in Nat /\ m \in Nat /\ u \in Seq(T) /\ Len(u) = n + m
      /\ \A k \in 1..n : u[k] = s[k]
      /\ \A k \in 1..m : u[k + n] = t[k]
  BY ConcatFacts
<1>2. /\ Len(c) = n + m
      /\ \A k \in 1..n : c[k] = s[k]
      /\ \A k \in 1..m : c[k + n] = t[k]
  OBVIOUS
<1> HIDE DEF u, n, m
<1>3. ASSUME NEW k \in 1..(n + m) PROVE c[k] = u[k]
  <2>1. CASE k <= n
    <3>1. k \in 1..n
      BY <1>1, <2>1
    <3> QED BY <1>1, <1>2, <3>1
  <2>2. CASE k > n
    <3>1. k - n \in 1..m /\ (k - n) + n = k
      BY <1>1, <2>2
    <3>2. c[(k - n) + n] = t[k - n] /\ u[(k - n) + n] = t[k - n]
      BY <1>1, <1>2, <3>1
    <3> QED BY <3>1, <3>2
  <2>3. k <= n \/ k > n
    BY <1>1
  <2> QED BY <2>1, <2>2, <2>3
<1>4. c = u
  BY <1>1, <1>2, <1>3, SeqEqual
<1> QED BY <1>4 DEF u

Shifted(J, n) == {j + n : j \in J}

SelectsApart(s, t, I, J) ==
  Selected(s \o t, I \union Shifted(J, Len(s))) = Selected(s, I) \o Selected(t, J)

\* Selecting goes through a concatenation.
LEMMA SelectedConcat ==
  ASSUME NEW T, NEW s \in Seq(T), NEW t \in Seq(T),
         NEW I \in SUBSET (1..Len(s)), NEW J \in SUBSET (1..Len(t))
  PROVE  SelectsApart(s, t, I, J)
<1> DEFINE n == Len(s)
           u == s \o t
<1>1. /\ n \in Nat /\ Len(t) \in Nat /\ u \in Seq(T) /\ Len(u) = n + Len(t)
      /\ \A i \in 1..n : u[i] = s[i]
      /\ \A i \in 1..Len(t) : u[i + n] = t[i]
  OBVIOUS
<1>2. PICK p \in Seq(Nat) : Increasing(p) /\ ToSet(p) = I
  BY <1>1, PositionsListed
<1>3. PICK q \in Seq(Nat) : Increasing(q) /\ ToSet(q) = J
  BY <1>1, PositionsListed
<1> DEFINE r == [k \in 1..Len(q) |-> q[k] + n]
<1>4. r \in Seq(Nat) /\ Len(r) = Len(q) /\ DOMAIN r = 1..Len(q) /\ \A k \in 1..Len(q) : r[k] = q[k] + n
  OBVIOUS
<1>5. /\ \A k \in 1..Len(q) : q[k] \in J
      /\ \A x \in J : \E k \in 1..Len(q) : q[k] = x
  BY <1>3, ToSetFacts
<1>0. /\ \A x \in I : x \in 1..n
      /\ \A x \in J : x \in 1..Len(t)
  OBVIOUS
<1> HIDE DEF n, u, r
<1>6. ToSet(r) = Shifted(J, n)
  <2>1. ASSUME NEW x \in ToSet(r) PROVE x \in Shifted(J, n)
    <3>1. PICK k \in 1..Len(q) : x = q[k] + n
      BY <1>4, <2>1 DEF ToSet
    <3> QED BY <1>5, <3>1 DEF Shifted
  <2>2. ASSUME NEW x \in Shifted(J, n) PROVE x \in ToSet(r)
    <3>1. PICK j \in J : x = j + n
      BY <2>2 DEF Shifted
    <3>2. PICK k \in 1..Len(q) : q[k] = j
      BY <1>5
    <3> QED BY <1>4, <3>1, <3>2 DEF ToSet
  <2> QED BY <2>1, <2>2
<1>7. Increasing(r)
  <2>1. \A i, j \in 1..Len(q) : i < j => q[i] < q[j]
    BY <1>3, IncreasingMeans
  <2>2. \A i, j \in 1..Len(r) : i < j => r[i] < r[j]
    BY <1>1, <1>4, <2>1
  <2> QED BY <2>2, IncreasingMeans
<1>8. Below(ToSet(p), ToSet(r))
  <2> SUFFICES ASSUME NEW x \in I, NEW y \in Shifted(J, n) PROVE x < y
    BY <1>2, <1>6 DEF Below
  <2>1. PICK j \in J : y = j + n
    BY DEF Shifted
  <2> QED BY <1>0, <1>1, <2>1
<1>9. /\ p \o r \in Seq(Nat) /\ Increasing(p \o r)
      /\ ToSet(p \o r) = I \union Shifted(J, n)
  <2>1. p \o r \in Seq(Nat)
    BY <1>4, ConcatFacts
  <2> QED BY <1>2, <1>4, <1>6, <1>7, <1>8, <2>1, IncreasingConcat, ToSetOfConcat
<1>10. ToSet(p \o r) \subseteq 1..Len(u)
  <2> SUFFICES ASSUME NEW x \in I \union Shifted(J, n) PROVE x \in 1..Len(u)
    BY <1>9
  <2>1. CASE x \in I
    BY <1>0, <1>1, <2>1
  <2>2. CASE x \in Shifted(J, n)
    <3>1. PICK j \in J : x = j + n
      BY <2>2 DEF Shifted
    <3> QED BY <1>0, <1>1, <3>1
  <2> QED BY <2>1, <2>2
<1> DEFINE a == Selected(s, I)
           b == Selected(t, J)
           c == Selected(u, I \union Shifted(J, n))
<1>11. a \in Seq(T) /\ Len(a) = Len(p) /\ \A k \in 1..Len(p) : p[k] \in 1..n /\ a[k] = s[p[k]]
  BY <1>2, SelectedIs DEF n
<1>12. b \in Seq(T) /\ Len(b) = Len(q) /\ \A k \in 1..Len(q) : q[k] \in 1..Len(t) /\ b[k] = t[q[k]]
  BY <1>3, SelectedIs
<1>13. /\ c \in Seq(T) /\ Len(c) = Len(p \o r)
       /\ \A k \in 1..Len(p \o r) : c[k] = u[(p \o r)[k]]
  <2>1. c = Selected(u, ToSet(p \o r)) /\ u \in Seq(T)
    BY <1>1, <1>9
  <2> HIDE DEF c
  <2> QED BY <1>9, <1>10, <2>1, SelectedIs
<1> HIDE DEF a, b, c
<1>14. /\ Len(p) \in Nat /\ Len(q) \in Nat /\ Len(p \o r) = Len(p) + Len(q)
       /\ \A k \in 1..Len(p) : (p \o r)[k] = p[k]
       /\ \A k \in 1..Len(q) : (p \o r)[k + Len(p)] = q[k] + n
  <2>1. /\ Len(p) \in Nat /\ Len(r) \in Nat /\ Len(p \o r) = Len(p) + Len(r)
        /\ \A k \in 1..Len(p) : (p \o r)[k] = p[k]
        /\ \A k \in 1..Len(r) : (p \o r)[k + Len(p)] = r[k]
    <3>1. p \in Seq(Nat) /\ r \in Seq(Nat)
      BY <1>4
    <3> QED BY ONLY <3>1, ConcatFacts
  <2> QED BY <1>4, <2>1
<1>15. \A k \in 1..Len(a) : c[k] = a[k]
  <2> TAKE k \in 1..Len(a)
  <2>1. k \in 1..Len(p) /\ k \in 1..Len(p \o r)
    BY <1>11, <1>14
  <2>2. c[k] = u[p[k]] /\ p[k] \in 1..n /\ a[k] = s[p[k]]
    BY <1>11, <1>13, <1>14, <2>1
  <2> QED BY <1>1, <2>2
<1>16. \A k \in 1..Len(b) : c[k + Len(a)] = b[k]
  <2> TAKE k \in 1..Len(b)
  <2>1. k \in 1..Len(q) /\ k + Len(p) \in 1..Len(p \o r) /\ Len(a) = Len(p)
    BY <1>11, <1>12, <1>14
  <2>2. c[k + Len(p)] = u[q[k] + n] /\ q[k] \in 1..Len(t) /\ b[k] = t[q[k]]
    BY <1>12, <1>13, <1>14, <2>1
  <2> QED BY <1>1, <2>1, <2>2
<1>17. c = a \o b
  <2>1. Len(c) = Len(a) + Len(b)
    BY <1>11, <1>12, <1>13, <1>14
  <2> QED BY ONLY <1>11, <1>12, <1>13, <1>15, <1>16, <2>1, ConcatIs
<1> QED BY <1>17 DEF a, b, c, u, n, SelectsApart

-----------------------------------------------------------------------------
\* What holds of the empty sequence, and with every sequence of those one longer, holds
\* of all sequences.
LEMMA SeqInduction ==
  ASSUME NEW T, NEW P \in SUBSET Seq(T), <<>> \in P, \A s \in P : \A x \in T : Append(s, x) \in P
  PROVE  P = Seq(T)
<1> DEFINE Q == {n \in Nat : \A s \in Seq(T) : Len(s) = n => s \in P}
<1>1. 0 \in Q
  BY EmptyFacts
<1>2. ASSUME NEW n \in Q PROVE n + 1 \in Q
  <2> SUFFICES ASSUME NEW s \in Seq(T), Len(s) = n + 1 PROVE s \in P
    OBVIOUS
  <2> DEFINE r == SubSeq(s, 1, n)
  <2>1. n \in Nat /\ n + 1 \in 1..Len(s)
    OBVIOUS
  <2>2. r \in Seq(T) /\ Len(r) = n /\ \A k \in 1..n : r[k] = s[k]
    BY <2>1
  <2>3. s[n + 1] \in T
    BY <2>1
  <2> DEFINE x == s[n + 1]
  <2> HIDE DEF r, x
  <2> DEFINE t == Append(r, x)
  <2>6. t \in Seq(T) /\ Len(t) = n + 1 /\ t[n + 1] = s[n + 1] /\ \A k \in 1..n : t[k] = r[k]
    <3>1. n \in Nat /\ r \in Seq(T) /\ Len(r) = n /\ x \in T
      BY <2>1, <2>2, <2>3 DEF x
    <3>2. t \in Seq(T) /\ Len(t) = n + 1 /\ t[n + 1] = x /\ \A k \in 1..n : t[k] = r[k]
      BY ONLY <3>1
    <3> QED BY <3>2 DEF x
  <2>7. \A k \in 1..(n + 1) : k \in 1..n \/ k = n + 1
    BY <2>1
  <2> HIDE DEF t
  <2>8. s = t
    BY <2>2, <2>6, <2>7, SeqEqual
  <2>4. s = Append(r, s[n + 1])
    BY <2>8 DEF t, x
  <2>5. r \in P
    BY <2>2
  <2> QED BY <2>3, <2>4, <2>5
<1>3. Q = Nat
  <2>1. Q \in SUBSET Nat
    OBVIOUS
  <2> HIDE DEF Q
  <2> QED BY <1>1, <1>2, <2>1, Induction
<1>4. ASSUME NEW s \in Seq(T) PROVE s \in P
  <2>1. Len(s) \in Nat
    OBVIOUS
  <2> QED BY <1>3, <2>1
<1> QED BY <1>4

-----------------------------------------------------------------------------
\* Sequences laid end to end.

\* f is the sequences of ss laid end to end, up to each of them.
Runs(f, ss) == \A k \in 1..Len(ss) : f[k] = IF k = 1 THEN ss[k] ELSE f[k - 1] \o ss[k]

LEMMA FlattenRuns ==
  ASSUME NEW T, NEW ss \in Seq(T)
  PROVE  /\ Len(ss) = 0 => FlattenSeq(ss) = <<>>
         /\ Len(ss) # 0 => \E f : Runs(f, ss) /\ FlattenSeq(ss) = f[Len(ss)]
<1> DEFINE N == Len(ss)
           F(n, f) == f = [k \in 1..n |-> IF k = 1 THEN ss[k] ELSE f[k - 1] \o ss[k]]
           P == {n \in Nat : n <= N => \E f : F(n, f)}
<1>1. N \in Nat /\ DOMAIN ss = 1..N
  OBVIOUS
<1> HIDE DEF N
<1>2. 0 \in P
  <2>1. F(0, [k \in 1..0 |-> 0])
    OBVIOUS
  <2> HIDE DEF F
  <2> QED BY <2>1
<1>3. ASSUME NEW n \in P PROVE n + 1 \in P
  <2>0. n \in Nat
    OBVIOUS
  <2> SUFFICES ASSUME n + 1 <= N PROVE \E f : F(n + 1, f)
    <3> HIDE DEF F
    <3> QED BY <2>0
  <2>1. PICK f : F(n, f)
    <3> HIDE DEF F
    <3> QED BY <1>1, <2>0
  <2> DEFINE v == IF n + 1 = 1 THEN ss[n + 1] ELSE f[n] \o ss[n + 1]
             h == [k \in 1..(n + 1) |-> IF k = n + 1 THEN v ELSE f[k]]
  <2>2. \A k \in 1..n : f[k] = IF k = 1 THEN ss[k] ELSE f[k - 1] \o ss[k]
    BY <2>1
  <2>3. ASSUME NEW k \in 1..(n + 1)
        PROVE  h[k] = IF k = 1 THEN ss[k] ELSE h[k - 1] \o ss[k]
    <3>1. CASE k = n + 1
      <4>1. h[k] = v
        BY <3>1
      <4>2. k # 1 => k - 1 = n /\ h[k - 1] = f[n]
        BY <2>0, <3>1
      <4> HIDE DEF h
      <4> QED BY <3>1, <4>1, <4>2
    <3>2. CASE k # n + 1
      <4>1. k \in 1..n /\ h[k] = f[k]
        BY <2>0, <3>2
      <4>2. k # 1 => h[k - 1] = f[k - 1]
        BY <2>0, <4>1
      <4> HIDE DEF h
      <4> QED BY <2>2, <4>1, <4>2
    <3> QED BY <3>1, <3>2
  <2>4. h = [k \in 1..(n + 1) |-> IF k = 1 THEN ss[k] ELSE h[k - 1] \o ss[k]]
    <3>1. h = [k \in 1..(n + 1) |-> h[k]]
      OBVIOUS
    <3> HIDE DEF h
    <3> QED BY Zenon, <2>3, <3>1
  <2> HIDE DEF h
  <2> QED BY <2>4
<1>4. N \in P
  <2>1. P \in SUBSET Nat
    OBVIOUS
  <2> HIDE DEF P
  <2> QED BY <1>1, <1>2, <1>3, <2>1, Induction
<1> DEFINE f == CHOOSE f : F(N, f)
<1>5. F(N, f)
  <2> HIDE DEF F
  <2>1. \E e : F(N, e)
    BY <1>1, <1>4
  <2> QED BY Zenon, <2>1
<1>6. N # 0 => FlattenSeq(ss) = f[N]
  BY Zenon DEF FlattenSeq, N
<1> HIDE DEF f, P
<1>7. \A k \in 1..N : f[k] = IF k = 1 THEN ss[k] ELSE f[k - 1] \o ss[k]
  BY <1>5
<1> HIDE DEF F
<1>8. Runs(f, ss)
  BY <1>7 DEF Runs, N
<1>9. N = 0 => FlattenSeq(ss) = <<>>
  <2> SUFFICES ASSUME N = 0 PROVE FlattenSeq(ss) = <<>>
    OBVIOUS
  <2>1. ss = <<>>
    BY DEF N
  <2> QED BY <2>1, Zenon DEF FlattenSeq, N
<1> QED BY <1>6, <1>8, <1>9 DEF N

LEMMA FlattenAppend ==
  ASSUME NEW T, NEW ss \in Seq(Seq(T)), NEW s \in Seq(T)
  PROVE  /\ FlattenSeq(<<>>) = <<>>
         /\ FlattenSeq(ss) \in Seq(T)
         /\ FlattenSeq(Append(ss, s)) = FlattenSeq(ss) \o s
<1> DEFINE n == Len(ss)
           tt == Append(ss, s)
<1>1. /\ n \in Nat /\ tt \in Seq(Seq(T)) /\ Len(tt) = n + 1 /\ tt[n + 1] = s
      /\ \A k \in 1..n : tt[k] = ss[k] /\ ss[k] \in Seq(T)
  OBVIOUS
<1>2. FlattenSeq(<<>>) = <<>>
  <2>1. <<>> \in Seq(Seq(T)) /\ Len(<<>>) = 0
    OBVIOUS
  <2> QED BY ONLY <2>1, FlattenRuns
<1>3. PICK g : Runs(g, tt) /\ FlattenSeq(tt) = g[n + 1]
  <2> HIDE DEF tt, n
  <2> QED BY <1>1, FlattenRuns
<1>4. CASE n = 0
  <2>1. FlattenSeq(ss) = <<>> /\ g[1] = s
    <3>1. FlattenSeq(ss) = <<>>
      BY <1>4, FlattenRuns
    <3>2. 1 \in 1..Len(tt) /\ tt[1] = s
      BY <1>1, <1>4
    <3> HIDE DEF tt
    <3> QED BY <1>3, <3>1, <3>2 DEF Runs
  <2>2. FlattenSeq(tt) = s
    BY <1>3, <1>4, <2>1
  <2> HIDE DEF tt
  <2>3. <<>> \o s = s
    OBVIOUS
  <2> QED BY <1>2, <2>1, <2>2, <2>3 DEF tt
<1>5. CASE n # 0
  <2>1. PICK f : Runs(f, ss) /\ FlattenSeq(ss) = f[n]
    BY <1>5, FlattenRuns
  <2> DEFINE P == {k \in Nat : k + 1 <= n => g[k + 1] = f[k + 1] /\ f[k + 1] \in Seq(T)}
  <2> HIDE DEF tt, n
  <2>2. \A k \in 1..n : f[k] = IF k = 1 THEN ss[k] ELSE f[k - 1] \o ss[k]
    BY <2>1 DEF Runs, n
  <2>3. \A k \in 1..(n + 1) : g[k] = IF k = 1 THEN tt[k] ELSE g[k - 1] \o tt[k]
    BY <1>1, <1>3 DEF Runs
  <2>4. 0 \in P
    <3>1. 1 \in 1..n /\ 1 \in 1..(n + 1)
      BY <1>1, <1>5
    <3>2. f[1] = ss[1] /\ g[1] = ss[1] /\ ss[1] \in Seq(T)
      BY <1>1, <2>2, <2>3, <3>1
    <3> QED BY <3>2
  <2>5. ASSUME NEW k \in P PROVE k + 1 \in P
    <3> SUFFICES ASSUME k + 2 <= n PROVE g[k + 2] = f[k + 2] /\ f[k + 2] \in Seq(T)
      BY <1>1
    <3>1. k \in Nat /\ k + 1 <= n /\ k + 2 # 1 /\ (k + 2) - 1 = k + 1 /\ k + 2 \in 1..n /\ k + 2 \in 1..(n + 1)
      BY <1>1
    <3>2. f[k + 2] = f[k + 1] \o ss[k + 2] /\ g[k + 2] = g[k + 1] \o ss[k + 2] /\ ss[k + 2] \in Seq(T)
      BY <1>1, <2>2, <2>3, <3>1
    <3>3. g[k + 1] = f[k + 1] /\ f[k + 1] \in Seq(T)
      BY <3>1
    <3> QED BY <3>2, <3>3
  <2>6. n - 1 \in P
    <3>1. P \in SUBSET Nat /\ n - 1 \in Nat
      BY <1>1, <1>5
    <3> HIDE DEF P
    <3> QED BY <2>4, <2>5, <3>1, Induction
  <2>7. g[n] = f[n] /\ f[n] \in Seq(T)
    <3>1. (n - 1) + 1 = n
      BY <1>1
    <3> QED BY <1>1, <2>6, <3>1
  <2>8. g[n + 1] = g[n] \o s
    <3>1. n + 1 \in 1..(n + 1) /\ n + 1 # 1 /\ (n + 1) - 1 = n
      BY <1>1, <1>5
    <3> QED BY <1>1, <2>3, <3>1
  <2> QED BY <1>2, <1>3, <2>1, <2>7, <2>8 DEF tt
<1> QED BY <1>4, <1>5

\* What is in a sequence of sequences laid end to end.
LEMMA FlattenElements ==
  ASSUME NEW T, NEW ss \in Seq(Seq(T))
  PROVE  /\ FlattenSeq(ss) \in Seq(T)
         /\ \A x : x \in ToSet(FlattenSeq(ss)) <=> \E k \in 1..Len(ss) : x \in ToSet(ss[k])
<1> DEFINE P == {tt \in Seq(Seq(T)) :
                   \A x : x \in ToSet(FlattenSeq(tt)) <=> \E k \in 1..Len(tt) : x \in ToSet(tt[k])}
<1>1. <<>> \in P
  <2>0. <<>> \in Seq(T) /\ <<>> \in Seq(Seq(T)) /\ Len(<<>>) = 0
    OBVIOUS
  <2>1. FlattenSeq(<<>>) = <<>>
    BY <2>0, FlattenAppend
  <2>2. ToSet(<<>>) = {}
    BY DEF ToSet
  <2> QED BY <2>0, <2>1, <2>2
<1>2. ASSUME NEW tt \in P, NEW s \in Seq(T) PROVE Append(tt, s) \in P
  <2> DEFINE uu == Append(tt, s)
             n == Len(tt)
  <2>1. /\ n \in Nat /\ uu \in Seq(Seq(T)) /\ Len(uu) = n + 1 /\ uu[n + 1] = s
        /\ \A k \in 1..n : uu[k] = tt[k]
    OBVIOUS
  <2>2. FlattenSeq(uu) = FlattenSeq(tt) \o s /\ FlattenSeq(tt) \in Seq(T)
    BY FlattenAppend
  <2>3. ToSet(FlattenSeq(uu)) = ToSet(FlattenSeq(tt)) \union ToSet(s)
    BY <2>2, ToSetOfConcat
  <2>4. \A x : x \in ToSet(FlattenSeq(tt)) <=> \E k \in 1..n : x \in ToSet(tt[k])
    OBVIOUS
  <2>5. 1..(n + 1) = (1..n) \union {n + 1}
    BY <2>1
  <2> HIDE DEF uu, n
  <2>6. \A x : x \in ToSet(FlattenSeq(uu)) <=> \E k \in 1..Len(uu) : x \in ToSet(uu[k])
    BY <2>1, <2>3, <2>4, <2>5
  <2> QED BY <2>1, <2>6 DEF uu
<1>3. P = Seq(Seq(T))
  <2>1. P \in SUBSET Seq(Seq(T))
    OBVIOUS
  <2> HIDE DEF P
  <2> QED BY <1>1, <1>2, <2>1, SeqInduction
<1>4. FlattenSeq(ss) \in Seq(T)
  <2>1. <<>> \in Seq(T)
    OBVIOUS
  <2> QED BY <2>1, FlattenAppend
<1> QED BY <1>3, <1>4

LEMMA FlattenConcat ==
  ASSUME NEW T, NEW a \in Seq(Seq(T)), NEW b \in Seq(Seq(T))
  PROVE  FlattenSeq(a \o b) = FlattenSeq(a) \o FlattenSeq(b)
<1> DEFINE P == {c \in Seq(Seq(T)) : FlattenSeq(a \o c) = FlattenSeq(a) \o FlattenSeq(c)}
<1>0. <<>> \in Seq(T) /\ <<>> \in Seq(Seq(T))
  OBVIOUS
<1>1. FlattenSeq(<<>>) = <<>> /\ FlattenSeq(a) \in Seq(T)
  BY <1>0, FlattenAppend
<1>2. <<>> \in P
  <2>1. a \o <<>> = a /\ FlattenSeq(a) \o <<>> = FlattenSeq(a)
    BY <1>1
  <2> QED BY <1>0, <1>1, <2>1
<1>3. ASSUME NEW c \in P, NEW s \in Seq(T) PROVE Append(c, s) \in P
  <2>1. c \in Seq(Seq(T)) /\ FlattenSeq(a \o c) = FlattenSeq(a) \o FlattenSeq(c)
    OBVIOUS
  <2> DEFINE d == Append(c, s)
             e == a \o c
  <2>2. d \in Seq(Seq(T)) /\ e \in Seq(Seq(T)) /\ a \o d = Append(e, s)
    BY <2>1
  <2> HIDE DEF d, e, P
  <2>3. FlattenSeq(Append(e, s)) = FlattenSeq(e) \o s
    BY <2>2, FlattenAppend
  <2>4. FlattenSeq(d) = FlattenSeq(c) \o s /\ FlattenSeq(c) \in Seq(T)
    BY <2>1, FlattenAppend DEF d
  <2> DEFINE x == FlattenSeq(a)
             y == FlattenSeq(c)
  <2>5. x \in Seq(T) /\ y \in Seq(T)
    BY <1>1, <2>4
  <2> HIDE DEF x, y
  <2>6. (x \o y) \o s = x \o (y \o s)
    BY <2>5
  <2>7. FlattenSeq(a \o d) = FlattenSeq(a) \o FlattenSeq(d)
    BY <2>1, <2>2, <2>3, <2>4, <2>6 DEF e, x, y
  <2> QED BY <2>2, <2>7 DEF P, d
<1>4. P = Seq(Seq(T))
  <2>1. P \in SUBSET Seq(Seq(T))
    OBVIOUS
  <2> HIDE DEF P
  <2> QED BY <1>2, <1>3, <2>1, SeqInduction
<1> QED BY <1>4

LEMMA FlattenOne ==
  ASSUME NEW T, NEW s \in Seq(T)
  PROVE  FlattenSeq(<<s>>) = s
<1>0. <<>> \in Seq(Seq(T)) /\ Append(<<>>, s) = <<s>> /\ <<>> \o s = s
  OBVIOUS
<1>1. FlattenSeq(<<>>) = <<>> /\ FlattenSeq(Append(<<>>, s)) = FlattenSeq(<<>>) \o s
  BY <1>0, FlattenAppend
<1> QED BY <1>0, <1>1

-----------------------------------------------------------------------------
\* Sequences of anything, and sequences of those.

IsSeq(s) == \E S : s \in Seq(S)
IsSeqs(ss) == \E S : ss \in Seq(Seq(S))

LEMMA SeqIs ==
  ASSUME NEW s, IsSeq(s)
  PROVE  /\ Len(s) \in Nat /\ DOMAIN s = 1..Len(s) /\ s \in Seq(ToSet(s))
         /\ s = [k \in 1..Len(s) |-> s[k]]
         /\ \A k \in 1..Len(s) : s[k] \in ToSet(s)
         /\ \A x \in ToSet(s) : \E k \in 1..Len(s) : s[k] = x
<1>1. PICK S : s \in Seq(S)
  BY DEF IsSeq
<1>2. Len(s) \in Nat /\ DOMAIN s = 1..Len(s) /\ s = [k \in 1..Len(s) |-> s[k]]
  BY <1>1
<1>3. /\ \A k \in 1..Len(s) : s[k] \in ToSet(s)
      /\ \A x \in ToSet(s) : \E k \in 1..Len(s) : s[k] = x
  BY <1>2 DEF ToSet
<1>4. s \in Seq(ToSet(s))
  <2> DEFINE S2 == ToSet(s)
  <2> HIDE DEF S2
  <2>1. \A k \in 1..Len(s) : s[k] \in S2
    BY <1>3 DEF S2
  <2>2. s \in [1..Len(s) -> S2]
    BY <1>2, <2>1
  <2>3. s \in Seq(S2)
    BY <1>2, <2>2
  <2> QED BY <2>3 DEF S2
<1> QED BY <1>2, <1>3, <1>4

\* A function of the positions up to some number.
LEMMA MadeSeq ==
  ASSUME NEW n \in Nat, NEW s, DOMAIN s = 1..n, s = [k \in 1..n |-> s[k]]
  PROVE  IsSeq(s) /\ Len(s) = n
<1> DEFINE S == {s[k] : k \in 1..n}
<1>1. s \in [1..n -> S]
  OBVIOUS
<1> HIDE DEF S
<1>2. s \in Seq(S) /\ Len(s) = n
  BY <1>1
<1> QED BY <1>2 DEF IsSeq

LEMMA SeqOfSeqs ==
  ASSUME NEW ss, IsSeq(ss), \A k \in 1..Len(ss) : IsSeq(ss[k])
  PROVE  IsSeqs(ss)
<1> DEFINE S == UNION {ToSet(ss[k]) : k \in 1..Len(ss)}
<1>1. Len(ss) \in Nat /\ ss = [k \in 1..Len(ss) |-> ss[k]]
  BY SeqIs
<1>2. \A k \in 1..Len(ss) : ss[k] \in Seq(S)
  <2> TAKE k \in 1..Len(ss)
  <2>1. ss[k] \in Seq(ToSet(ss[k])) /\ ToSet(ss[k]) \subseteq S
    BY SeqIs
  <2> DEFINE R == ToSet(ss[k])
  <2> HIDE DEF S, R
  <2>2. ss[k] \in Seq(R) /\ R \subseteq S
    BY <2>1 DEF R
  <2> QED BY <2>2
<1> HIDE DEF S
<1>3. ss \in Seq(Seq(S))
  <2>1. ss \in [1..Len(ss) -> Seq(S)]
    BY <1>1, <1>2
  <2> QED BY <1>1, <2>1
<1> QED BY <1>3 DEF IsSeqs

LEMMA SeqsAre ==
  ASSUME NEW ss, IsSeqs(ss)
  PROVE  IsSeq(ss) /\ IsSeq(FlattenSeq(ss)) /\ \A k \in 1..Len(ss) : IsSeq(ss[k])
<1>1. PICK S : ss \in Seq(Seq(S))
  BY DEF IsSeqs
<1>2. FlattenSeq(ss) \in Seq(S)
  BY <1>1, FlattenElements
<1>3. \A k \in 1..Len(ss) : ss[k] \in Seq(S)
  BY <1>1
<1> QED BY <1>1, <1>2, <1>3 DEF IsSeq

LEMMA SeqConcat ==
  ASSUME NEW s, IsSeq(s), NEW t, IsSeq(t)
  PROVE  /\ IsSeq(s \o t) /\ Len(s \o t) = Len(s) + Len(t)
         /\ \A k \in 1..Len(s) : (s \o t)[k] = s[k]
         /\ \A k \in 1..Len(t) : (s \o t)[k + Len(s)] = t[k]
         /\ ToSet(s \o t) = ToSet(s) \union ToSet(t)
<1> DEFINE R == ToSet(s)
           S == ToSet(t)
           U == R \union S
<1>1. s \in Seq(R) /\ t \in Seq(S)
  BY SeqIs
<1>2. s \in Seq(U) /\ t \in Seq(U)
  <2> HIDE DEF R, S
  <2> QED BY <1>1
<1> HIDE DEF U
<1>3. s \o t \in Seq(U)
  BY <1>2
<1> QED BY <1>2, <1>3, ConcatFacts, ToSetOfConcat DEF IsSeq

LEMMA SeqJoined ==
  ASSUME NEW s, IsSeq(s), NEW t, IsSeq(t), NEW c, IsSeq(c), Len(c) = Len(s) + Len(t),
         \A k \in 1..Len(s) : c[k] = s[k],
         \A k \in 1..Len(t) : c[k + Len(s)] = t[k]
  PROVE  c = s \o t
<1> DEFINE R == ToSet(s)
           S == ToSet(t)
           V == ToSet(c)
           U == (R \union S) \union V
<1>1. s \in Seq(R) /\ t \in Seq(S) /\ c \in Seq(V)
  BY SeqIs
<1>2. s \in Seq(U) /\ t \in Seq(U) /\ c \in Seq(U)
  <2> HIDE DEF R, S, V
  <2> QED BY <1>1
<1> HIDE DEF U
<1> QED BY <1>2, ConcatIs

LEMMA SeqSame ==
  ASSUME NEW s, IsSeq(s), NEW t, IsSeq(t), Len(s) = Len(t), \A k \in 1..Len(s) : s[k] = t[k]
  PROVE  s = t
<1>1. s = [k \in 1..Len(s) |-> s[k]] /\ t = [k \in 1..Len(t) |-> t[k]]
  BY SeqIs
<1> QED BY <1>1

LEMMA SeqEmpty ==
  /\ IsSeq(<<>>) /\ IsSeqs(<<>>) /\ Len(<<>>) = 0 /\ FlattenSeq(<<>>) = <<>> /\ ToSet(<<>>) = {}
  /\ \A s : IsSeq(s) => s \o <<>> = s /\ <<>> \o s = s /\ (Len(s) = 0 => s = <<>>)
<1>1. <<>> \in Seq({}) /\ <<>> \in Seq(Seq({})) /\ Len(<<>>) = 0
  OBVIOUS
<1>2. FlattenSeq(<<>>) = <<>>
  BY <1>1, FlattenAppend
<1>3. ToSet(<<>>) = {}
  BY DEF ToSet
<1>4. ASSUME NEW s, IsSeq(s) PROVE s \o <<>> = s /\ <<>> \o s = s /\ (Len(s) = 0 => s = <<>>)
  <2>1. PICK S : s \in Seq(S)
    BY <1>4 DEF IsSeq
  <2> QED BY <2>1
<1> QED BY <1>1, <1>2, <1>3, <1>4 DEF IsSeq, IsSeqs

LEMMA SeqOne ==
  ASSUME NEW x
  PROVE  /\ IsSeq(<<x>>) /\ Len(<<x>>) = 1 /\ <<x>>[1] = x /\ ToSet(<<x>>) = {x} /\ DOMAIN <<x>> = 1..1
         /\ IsSeq(x) => IsSeqs(<<x>>) /\ FlattenSeq(<<x>>) = x
<1>1. <<x>> \in Seq({x})
  OBVIOUS
<1>2. ASSUME IsSeq(x) PROVE IsSeqs(<<x>>) /\ FlattenSeq(<<x>>) = x
  <2>1. PICK S : x \in Seq(S)
    BY <1>2 DEF IsSeq
  <2>2. <<x>> \in Seq(Seq(S))
    BY <2>1
  <2> QED BY <2>1, <2>2, FlattenOne DEF IsSeqs
<1>3. ToSet(<<x>>) = {x}
  BY DEF ToSet
<1> QED BY <1>1, <1>2, <1>3 DEF IsSeq

LEMMA FlatConcat ==
  ASSUME NEW a, IsSeqs(a), NEW b, IsSeqs(b)
  PROVE  IsSeqs(a \o b) /\ FlattenSeq(a \o b) = FlattenSeq(a) \o FlattenSeq(b)
<1>1. PICK R : a \in Seq(Seq(R))
  BY DEF IsSeqs
<1>2. PICK S : b \in Seq(Seq(S))
  BY DEF IsSeqs
<1> DEFINE U == R \union S
           X == Seq(R)
           Y == Seq(S)
           Z == Seq(U)
<1>3. X \subseteq Z /\ Y \subseteq Z
  OBVIOUS
<1>4. a \in Seq(Z) /\ b \in Seq(Z)
  <2>1. a \in Seq(X) /\ b \in Seq(Y)
    BY <1>1, <1>2
  <2> HIDE DEF X, Y, Z
  <2> QED BY <1>3, <2>1
<1>5. a \o b \in Seq(Z)
  <2> HIDE DEF Z
  <2> QED BY <1>4
<1> HIDE DEF U
<1>6. FlattenSeq(a \o b) = FlattenSeq(a) \o FlattenSeq(b)
  BY <1>4, FlattenConcat
<1> QED BY <1>5, <1>6 DEF IsSeqs

\* c is a and then b.
Joins(a, b, c) ==
  /\ IsSeqs(a) /\ IsSeqs(b) /\ IsSeq(c) /\ Len(c) = Len(a) + Len(b)
  /\ \A k \in 1..Len(a) : c[k] = a[k]
  /\ \A k \in 1..Len(b) : c[k + Len(a)] = b[k]

LEMMA FlatJoined ==
  ASSUME NEW a, NEW b, NEW c, Joins(a, b, c)
  PROVE  FlattenSeq(c) = FlattenSeq(a) \o FlattenSeq(b)
<1>1. IsSeqs(a) /\ IsSeqs(b) /\ IsSeq(a) /\ IsSeq(b)
  BY SeqsAre DEF Joins
<1>2. c = a \o b
  <2>1. /\ IsSeq(c) /\ Len(c) = Len(a) + Len(b)
        /\ \A k \in 1..Len(a) : c[k] = a[k]
        /\ \A k \in 1..Len(b) : c[k + Len(a)] = b[k]
    BY DEF Joins
  <2> QED BY ONLY <1>1, <2>1, SeqJoined
<1> QED BY <1>1, <1>2, FlatConcat

LEMMA AppendIs ==
  ASSUME NEW T, NEW s \in Seq(T), NEW x \in T
  PROVE  /\ Append(s, x) = s \o <<x>> /\ Append(s, x) \in Seq(T) /\ Len(Append(s, x)) = Len(s) + 1
         /\ Append(s, x)[Len(s) + 1] = x /\ \A k \in 1..Len(s) : Append(s, x)[k] = s[k]
OBVIOUS

\* A sequence in pieces of one each.
LEMMA FlattenOnes ==
  ASSUME NEW e, IsSeq(e), NEW a, IsSeq(a), Len(a) = Len(e), \A k \in 1..Len(e) : a[k] = <<e[k]>>
  PROVE  IsSeqs(a) /\ FlattenSeq(a) = e
<1> DEFINE T == ToSet(e)
           Ones(s) == [k \in 1..Len(s) |-> <<s[k]>>]
           P == {s \in Seq(T) : FlattenSeq(Ones(s)) = s}
<1>1. ASSUME NEW s \in Seq(T) PROVE Ones(s) \in Seq(Seq(T)) /\ Len(Ones(s)) = Len(s)
  <2> HIDE DEF T
  <2>1. Len(s) \in Nat /\ \A k \in 1..Len(s) : s[k] \in T
    OBVIOUS
  <2>2. \A k \in 1..Len(s) : <<s[k]>> \in Seq(T)
    BY <2>1
  <2>3. Ones(s) \in [1..Len(s) -> Seq(T)]
    BY <2>2
  <2> HIDE DEF Ones
  <2> QED BY <2>1, <2>3
<1> HIDE DEF T
<1>2. <<>> \in P
  <2>1. <<>> \in Seq(T) /\ Len(<<>>) = 0
    OBVIOUS
  <2>2. Ones(<<>>) = <<>>
    BY <2>1
  <2> HIDE DEF Ones
  <2> QED BY <2>1, <2>2, SeqEmpty
<1>3. ASSUME NEW s \in P, NEW x \in T PROVE Append(s, x) \in P
  <2> DEFINE t == Append(s, x)
             u == Append(Ones(s), <<x>>)
  <2>1. s \in Seq(T) /\ FlattenSeq(Ones(s)) = s
    OBVIOUS
  <2>2. /\ t \in Seq(T) /\ Len(t) = Len(s) + 1 /\ t[Len(s) + 1] = x /\ \A k \in 1..Len(s) : t[k] = s[k]
        /\ t = s \o <<x>> /\ Len(s) \in Nat
    BY <2>1
  <2>3. Ones(s) \in Seq(Seq(T)) /\ Len(Ones(s)) = Len(s) /\ <<x>> \in Seq(T)
    BY <1>1, <2>1
  <2>4. \A k \in 1..Len(s) : Ones(s)[k] = <<s[k]>>
    OBVIOUS
  <2>5. Ones(t) \in Seq(Seq(T)) /\ Len(Ones(t)) = Len(s) + 1
    BY <1>1, <2>2
  <2>6. \A k \in 1..(Len(s) + 1) : Ones(t)[k] = <<t[k]>>
    BY <2>2
  <2> HIDE DEF Ones, t
  <2>7. /\ u \in Seq(Seq(T)) /\ Len(u) = Len(s) + 1 /\ u[Len(s) + 1] = <<x>>
        /\ \A k \in 1..Len(s) : u[k] = Ones(s)[k]
    BY <2>2, <2>3
  <2> HIDE DEF u
  <2>8. \A k \in 1..(Len(s) + 1) : k \in 1..Len(s) \/ k = Len(s) + 1
    BY <2>2
  <2>9. \A k \in 1..(Len(s) + 1) : Ones(t)[k] = u[k]
    BY <2>2, <2>4, <2>6, <2>7, <2>8
  <2>10. Ones(t) = u
    BY <2>5, <2>7, <2>9, SeqEqual
  <2>11. FlattenSeq(u) = FlattenSeq(Ones(s)) \o <<x>>
    BY <2>3, FlattenAppend DEF u
  <2>12. t \in P
    BY <2>1, <2>2, <2>10, <2>11
  <2> QED BY <2>12 DEF t
<1>4. P = Seq(T)
  <2>1. P \in SUBSET Seq(T)
    OBVIOUS
  <2> HIDE DEF P
  <2> QED BY <1>2, <1>3, <2>1, SeqInduction
<1>5. e \in Seq(T)
  BY SeqIs DEF T
<1>6. Ones(e) \in Seq(Seq(T)) /\ Len(Ones(e)) = Len(e) /\ FlattenSeq(Ones(e)) = e
  BY <1>1, <1>4, <1>5
<1>7. \A k \in 1..Len(e) : Ones(e)[k] = <<e[k]>>
  OBVIOUS
<1> HIDE DEF Ones
<1>8. IsSeqs(Ones(e)) /\ IsSeq(Ones(e))
  BY <1>6 DEF IsSeqs, IsSeq
<1>9. a = Ones(e)
  BY <1>6, <1>7, <1>8, SeqSame
<1> QED BY <1>6, <1>8, <1>9

\* What is additive over the parts of a sequence is additive over those of a flattened one.
Additive(H, T) ==
  /\ H[<<>>] = <<>>
  /\ \A s \in Seq(T) : IsSeq(H[s])
  /\ \A s, t \in Seq(T) : H[s \o t] = H[s] \o H[t]

LEMMA FlatThrough ==
  ASSUME NEW T, NEW H, Additive(H, T), NEW ss \in Seq(Seq(T)),
         NEW hs, IsSeq(hs), Len(hs) = Len(ss), \A k \in 1..Len(ss) : hs[k] = H[ss[k]]
  PROVE  IsSeqs(hs) /\ H[FlattenSeq(ss)] = FlattenSeq(hs)
<1> DEFINE S == Seq(T)
           All(tt) == [k \in 1..Len(tt) |-> H[tt[k]]]
           P == {tt \in Seq(S) : IsSeqs(All(tt)) /\ H[FlattenSeq(tt)] = FlattenSeq(All(tt))}
<1>1. <<>> \in P
  <2>1. <<>> \in Seq(S) /\ Len(<<>>) = 0
    OBVIOUS
  <2>2. All(<<>>) = <<>>
    BY <2>1
  <2> HIDE DEF All
  <2> QED BY <2>1, <2>2, SeqEmpty DEF Additive
<1>2. ASSUME NEW tt \in P, NEW s \in S PROVE Append(tt, s) \in P
  <2> DEFINE uu == Append(tt, s)
             n == Len(tt)
  <2>1. tt \in Seq(S) /\ IsSeqs(All(tt)) /\ H[FlattenSeq(tt)] = FlattenSeq(All(tt))
    OBVIOUS
  <2>2. n \in Nat /\ uu \in Seq(S) /\ Len(uu) = n + 1 /\ uu[n + 1] = s /\ \A k \in 1..n : uu[k] = tt[k]
    <3> HIDE DEF S
    <3> QED BY <2>1
  <2>3. FlattenSeq(uu) = FlattenSeq(tt) \o s /\ FlattenSeq(tt) \in Seq(T)
    BY <2>1, FlattenAppend
  <2>4. H[FlattenSeq(uu)] = FlattenSeq(All(tt)) \o H[s]
    BY <2>1, <2>3 DEF Additive
  <2>5. Len(All(tt)) = n /\ All(tt) = [k \in 1..n |-> All(tt)[k]] /\ \A k \in 1..n : All(tt)[k] = H[tt[k]]
    BY <2>2
  <2>6. DOMAIN All(uu) = 1..(n + 1) /\ All(uu) = [k \in 1..(n + 1) |-> All(uu)[k]]
        /\ \A k \in 1..(n + 1) : All(uu)[k] = H[uu[k]]
    BY <2>2
  <2> HIDE DEF All, uu, n
  <2>7. IsSeq(All(uu)) /\ Len(All(uu)) = n + 1
    <3>1. n + 1 \in Nat
      BY <2>2
    <3> QED BY <2>6, <3>1, MadeSeq
  <2>8. IsSeq(H[s])
    BY DEF Additive
  <2> DEFINE v == <<H[s]>>
  <2>9. IsSeqs(v) /\ Len(v) = 1 /\ v[1] = H[s] /\ FlattenSeq(v) = H[s]
    BY <2>8, SeqOne
  <2> HIDE DEF v
  <2>10. Joins(All(tt), v, All(uu))
    <3>1. \A k \in 1..n : k \in 1..(n + 1)
      BY <2>2
    <3>2. 1 + n = n + 1 /\ n + 1 \in 1..(n + 1)
      BY <2>2
    <3>3. \A k \in 1..Len(All(tt)) : All(uu)[k] = All(tt)[k]
      <4>1. Len(All(tt)) = n /\ \A k \in 1..n : All(tt)[k] = H[tt[k]]
        BY <2>5
      <4>2. \A k \in 1..(n + 1) : All(uu)[k] = H[uu[k]]
        BY <2>6
      <4>3. \A k \in 1..n : uu[k] = tt[k]
        BY <2>2
      <4> QED BY ONLY <3>1, <4>1, <4>2, <4>3
    <3>4. \A k \in 1..Len(v) : All(uu)[k + Len(All(tt))] = v[k]
      BY <2>2, <2>5, <2>6, <2>9, <3>2
    <3> QED BY <2>1, <2>5, <2>7, <2>9, <3>3, <3>4 DEF Joins
  <2>11. FlattenSeq(All(uu)) = FlattenSeq(All(tt)) \o H[s]
    <3>1. FlattenSeq(All(uu)) = FlattenSeq(All(tt)) \o FlattenSeq(v)
      BY <2>10, FlatJoined
    <3> QED BY <2>9, <3>1
  <2>12. IsSeqs(All(uu))
    <3>1. \A k \in 1..(n + 1) : IsSeq(H[uu[k]])
      <4>1. \A k \in 1..(n + 1) : uu[k] \in S
        BY <2>2
      <4> QED BY <4>1 DEF Additive
    <3> QED BY <2>6, <2>7, <3>1, SeqOfSeqs
  <2>13. uu \in P
    BY <2>2, <2>4, <2>11, <2>12
  <2> QED BY <2>13 DEF uu
<1>3. P = Seq(S)
  <2>1. P \in SUBSET Seq(S)
    OBVIOUS
  <2> HIDE DEF P, S
  <2> QED BY <1>1, <1>2, <2>1, SeqInduction
<1>4. IsSeqs(All(ss)) /\ H[FlattenSeq(ss)] = FlattenSeq(All(ss))
  BY <1>3
<1>5. Len(All(ss)) = Len(ss) /\ \A k \in 1..Len(ss) : All(ss)[k] = H[ss[k]]
  OBVIOUS
<1> HIDE DEF All
<1>6. hs = All(ss)
  BY <1>4, <1>5, SeqSame, SeqsAre
<1> QED BY <1>4, <1>6

-----------------------------------------------------------------------------
\* Elements selected, and those of a sequence longer by one.

LEMMA SelectedElements ==
  ASSUME NEW S, NEW s \in Seq(S), NEW I \in SUBSET (1..Len(s))
  PROVE  Selected(s, I) \in Seq(S) /\ ToSet(Selected(s, I)) = {s[k] : k \in I}
<1>1. Len(s) \in Nat /\ I \in SUBSET Nat /\ IsFiniteSet(I)
  <2>1. Len(s) \in Nat /\ 1 \in Int /\ Len(s) \in Int
    OBVIOUS
  <2>2. IsFiniteSet(1..Len(s))
    BY <2>1, FS_Interval
  <2>3. I \in SUBSET Nat
    BY <2>1
  <2>4. IsFiniteSet(I)
    BY <2>2, FS_Subset
  <2> QED BY <2>1, <2>3, <2>4
<1> DEFINE at == Ascending(I)
<1>2. Lists(at, I)
  BY <1>1, AscendingLists
<1>3. at \in Seq(Nat) /\ Increasing(at) /\ ToSet(at) = I
  BY <1>1, <1>2, ListsFacts
<1>4. Len(at) \in Nat /\ DOMAIN at = 1..Len(at) /\ \A k \in 1..Len(at) : at[k] \in I
  <2>1. \A k \in 1..Len(at) : at[k] \in ToSet(at)
    BY <1>3, ToSetFacts
  <2> HIDE DEF at
  <2> QED BY <1>3, <2>1
<1>5. \A k \in I : \E j \in 1..Len(at) : at[j] = k
  BY <1>3, ToSetFacts
<1>6. Selected(s, I) = [k \in DOMAIN at |-> s[at[k]]]
  BY DEF Selected
<1> HIDE DEF at
<1> DEFINE r == Selected(s, I)
<1>7. r = [k \in 1..Len(at) |-> s[at[k]]]
  BY <1>4, <1>6
<1>8. r \in Seq(S)
  <2>1. \A k \in 1..Len(at) : s[at[k]] \in S
    <3>1. \A k \in 1..Len(s) : s[k] \in S
      OBVIOUS
    <3>2. \A k \in 1..Len(at) : at[k] \in 1..Len(s)
      BY <1>4
    <3> QED BY <3>1, <3>2
  <2> QED BY <1>4, <1>7, <2>1
<1>9. DOMAIN r = 1..Len(at) /\ \A k \in 1..Len(at) : r[k] = s[at[k]]
  BY <1>7
<1> HIDE DEF r
<1>10. ToSet(r) = {s[k] : k \in I}
  <2>1. ASSUME NEW x \in ToSet(r) PROVE \E k \in I : x = s[k]
    <3>1. PICK j \in DOMAIN r : x = r[j]
      BY DEF ToSet
    <3>2. at[j] \in I /\ x = s[at[j]]
      BY <1>4, <1>9, <3>1
    <3> QED BY <3>2
  <2>2. ASSUME NEW k \in I PROVE s[k] \in ToSet(r)
    <3>1. PICK j \in 1..Len(at) : at[j] = k
      BY <1>5
    <3>2. j \in DOMAIN r /\ r[j] = s[k]
      BY <1>9, <3>1
    <3> QED BY <3>2 DEF ToSet
  <2> QED BY <2>1, <2>2
<1> QED BY <1>8, <1>10 DEF r

LEMMA SelectedNone ==
  ASSUME NEW s
  PROVE  Selected(s, {}) = <<>>
<1>1. Cardinality({}) = 0 /\ Ascending({}) = <<>>
  BY FS_EmptySet DEF Ascending
<1> QED BY <1>1 DEF Selected

LEMMA SelectedFirst ==
  ASSUME NEW x
  PROVE  Selected(<<x>>, {1}) = <<x>>
<1>1. Ascending({1}) = <<1>>
  <2>1. <<1>> \in Seq(Nat) /\ ToSet(<<1>>) = {1} /\ \A i, j \in 1..Len(<<1>>) : ~(i < j)
    BY DEF ToSet
  <2>2. Increasing(<<1>>)
    BY <2>1, IncreasingMeans
  <2> QED BY <2>1, <2>2, AscendingIs
<1> QED BY <1>1 DEF Selected

LEMMA SelectedAppend ==
  ASSUME NEW T, NEW s \in Seq(T), NEW x \in T, NEW I \in SUBSET (1..(Len(s) + 1))
  PROVE  /\ Len(s) + 1 \in I => Selected(Append(s, x), I) = Append(Selected(s, I \ {Len(s) + 1}), x)
         /\ Len(s) + 1 \notin I => Selected(Append(s, x), I) = Selected(s, I)
<1> DEFINE n == Len(s)
           J == I \ {n + 1}
           K == IF n + 1 \in I THEN {1} ELSE {}
<1>1. n \in Nat /\ <<x>> \in Seq(T) /\ Len(<<x>>) = 1 /\ Append(s, x) = s \o <<x>>
  OBVIOUS
<1>2. J \in SUBSET (1..n) /\ K \in SUBSET (1..1)
  <2>1. \A k \in 1..(n + 1) : k \in 1..n \/ k = n + 1
    BY <1>1
  <2>2. I \in SUBSET (1..(n + 1))
    OBVIOUS
  <2> HIDE DEF n
  <2>3. J \in SUBSET (1..n)
    BY <2>1, <2>2
  <2> QED BY <2>3
<1>3. I = J \union Shifted(K, n)
  <2>1. Shifted(K, n) = IF n + 1 \in I THEN {n + 1} ELSE {}
    <3>1. 1 + n = n + 1
      BY <1>1
    <3> HIDE DEF n
    <3> QED BY <3>1 DEF Shifted
  <2> HIDE DEF K
  <2> QED BY <2>1
<1>4. Selected(<<x>>, K) = IF n + 1 \in I THEN <<x>> ELSE <<>>
  BY SelectedFirst, SelectedNone
<1> HIDE DEF J, K
<1>5. SelectsApart(s, <<x>>, J, K)
  BY <1>1, <1>2, SelectedConcat DEF n
<1>6. Selected(s \o <<x>>, I) = Selected(s, J) \o Selected(<<x>>, K)
  BY <1>3, <1>5 DEF SelectsApart, n
<1>7. Selected(s, J) \in Seq(T)
  BY <1>2, SelectedElements DEF n
<1>8. n + 1 \in I => Selected(s, J) \o Selected(<<x>>, K) = Append(Selected(s, J), x)
  <2> DEFINE a == Selected(s, J)
  <2>1. a \in Seq(T)
    BY <1>7
  <2> HIDE DEF a
  <2>2. a \o <<x>> = Append(a, x)
    BY <2>1, AppendIs
  <2> QED BY <1>4, <2>2 DEF a
<1>9. n + 1 \notin I => J = I /\ Selected(s, J) \o Selected(<<x>>, K) = Selected(s, J)
  <2>1. n + 1 \notin I => J = I
    BY DEF J
  <2> QED BY <1>4, <1>7, <2>1
<1> QED BY <1>1, <1>6, <1>8, <1>9 DEF J, n

LEMMA SelectedAll ==
  ASSUME NEW s, IsSeq(s)
  PROVE  Selected(s, 1..Len(s)) = s
<1> DEFINE T == ToSet(s)
           P == {t \in Seq(T) : Selected(t, 1..Len(t)) = t}
<1>1. <<>> \in P
  <2>1. <<>> \in Seq(T) /\ Len(<<>>) = 0 /\ 1..0 = {}
    OBVIOUS
  <2> QED BY <2>1, SelectedNone
<1>2. ASSUME NEW t \in P, NEW x \in T PROVE Append(t, x) \in P
  <2> DEFINE n == Len(t)
             I == 1..(n + 1)
             u == Append(t, x)
  <2>1. t \in Seq(T) /\ Selected(t, 1..n) = t
    OBVIOUS
  <2> HIDE DEF P, T
  <2>2. n \in Nat /\ u \in Seq(T) /\ Len(u) = n + 1 /\ u = t \o <<x>>
    BY <2>1, AppendIs
  <2>3. I \in SUBSET (1..(n + 1)) /\ n + 1 \in I /\ I \ {n + 1} = 1..n
    BY <2>2
  <2> HIDE DEF I
  <2>4. Selected(u, I) = Append(Selected(t, I \ {n + 1}), x)
    <3>1. t \in Seq(T) /\ x \in T /\ I \in SUBSET (1..(Len(t) + 1)) /\ Len(t) + 1 \in I
      BY <2>1, <2>3
    <3> QED BY ONLY <3>1, SelectedAppend DEF u, n
  <2>5. Selected(u, I) = u
    BY <2>1, <2>3, <2>4
  <2> HIDE DEF u, n
  <2> QED BY <2>2, <2>5 DEF P, I, u
<1>3. P = Seq(T)
  <2>1. P \in SUBSET Seq(T)
    OBVIOUS
  <2> HIDE DEF P, T
  <2> QED BY <1>1, <1>2, <2>1, SeqInduction
<1>4. s \in Seq(T)
  BY SeqIs
<1> QED BY <1>3, <1>4

\* Leaving out parts that are empty changes nothing.
LEMMA FlattenSelected ==
  ASSUME NEW a, IsSeqs(a), NEW I \in SUBSET (1..Len(a)), \A k \in (1..Len(a)) \ I : a[k] = <<>>
  PROVE  IsSeqs(Selected(a, I)) /\ FlattenSeq(Selected(a, I)) = FlattenSeq(a)
<1>1. PICK S : a \in Seq(Seq(S))
  BY DEF IsSeqs
<1> DEFINE T == Seq(S)
           Fine(b) == \A J \in SUBSET (1..Len(b)) : (\A k \in (1..Len(b)) \ J : b[k] = <<>>)
                        => FlattenSeq(Selected(b, J)) = FlattenSeq(b)
           P == {b \in Seq(T) : Fine(b)}
<1>2. <<>> \in P
  <2>1. <<>> \in Seq(T) /\ Len(<<>>) = 0 /\ 1..0 = {}
    OBVIOUS
  <2>2. \A J \in SUBSET {} : J = {}
    OBVIOUS
  <2> QED BY <2>1, <2>2, SelectedNone
<1>3. ASSUME NEW b \in P, NEW x \in T PROVE Append(b, x) \in P
  <2> DEFINE n == Len(b)
             c == Append(b, x)
  <2>1. b \in Seq(T) /\ Fine(b)
    OBVIOUS
  <2> HIDE DEF P, T
  <2>2. n \in Nat /\ c \in Seq(T) /\ Len(c) = n + 1 /\ c[n + 1] = x /\ \A k \in 1..n : c[k] = b[k]
    BY <2>1, AppendIs
  <2> SUFFICES ASSUME NEW J \in SUBSET (1..Len(c)), \A k \in (1..Len(c)) \ J : c[k] = <<>>
               PROVE  FlattenSeq(Selected(c, J)) = FlattenSeq(c)
    BY <2>2 DEF P
  <2> DEFINE K == J \ {n + 1}
             d == Selected(b, K)
  <2>3. J \in SUBSET (1..(n + 1))
    BY <2>2
  <2>4. K \in SUBSET (1..n) /\ \A k \in (1..n) \ K : k \in (1..(n + 1)) \ J
    <3>1. \A k \in 1..(n + 1) : k \in 1..n \/ k = n + 1
      BY <2>2
    <3>2. \A k \in 1..n : k \in 1..(n + 1) /\ k # n + 1
      BY <2>2
    <3> HIDE DEF n
    <3>3. K \in SUBSET (1..n)
      BY <2>3, <3>1
    <3>4. \A k \in (1..n) \ K : k \in (1..(n + 1)) \ J
      BY <3>2
    <3> QED BY <3>3, <3>4
  <2>5. FlattenSeq(d) = FlattenSeq(b)
    <3>1. \A k \in (1..n) \ K : b[k] = <<>>
      BY <2>2, <2>4
    <3> HIDE DEF K
    <3> QED BY <2>1, <2>4, <3>1
  <2>6. /\ n + 1 \in J => Selected(c, J) = Append(d, x)
        /\ n + 1 \notin J => Selected(c, J) = Selected(b, J) /\ J = K
    <3>1. b \in Seq(T) /\ x \in T /\ J \in SUBSET (1..(Len(b) + 1))
      BY <2>1, <2>3
    <3>2. /\ n + 1 \in J => Selected(c, J) = Append(d, x)
          /\ n + 1 \notin J => Selected(c, J) = Selected(b, J)
      BY ONLY <3>1, SelectedAppend DEF d, K, c, n
    <3> HIDE DEF n
    <3> QED BY <3>2 DEF K
  <2> HIDE DEF K, n
  <2>7. d \in Seq(Seq(S)) /\ b \in Seq(Seq(S)) /\ x \in Seq(S)
    BY <2>1, <2>4, SelectedElements DEF n, T
  <2>8. FlattenSeq(c) = FlattenSeq(b) \o x /\ FlattenSeq(b) \in Seq(S)
    BY <2>7, FlattenAppend
  <2>9. FlattenSeq(Append(d, x)) = FlattenSeq(d) \o x
    BY <2>7, FlattenAppend
  <2>10. CASE n + 1 \in J
    BY <2>5, <2>6, <2>8, <2>9, <2>10
  <2>11. CASE n + 1 \notin J
    <3>1. n + 1 \in (1..Len(c)) \ J
      BY <2>2, <2>11
    <3>2. x = <<>>
      BY <2>2, <3>1
    <3>3. FlattenSeq(c) = FlattenSeq(b)
      BY <2>8, <3>2
    <3> QED BY <2>5, <2>6, <2>11, <3>3
  <2> QED BY <2>10, <2>11
<1>4. P = Seq(T)
  <2>1. P \in SUBSET Seq(T)
    OBVIOUS
  <2> HIDE DEF P, T
  <2> QED BY <1>2, <1>3, <2>1, SeqInduction
<1>5. FlattenSeq(Selected(a, I)) = FlattenSeq(a)
  <2>1. Fine(a)
    BY <1>1, <1>4
  <2> QED BY <2>1
<1> HIDE DEF T
<1>6. Selected(a, I) \in Seq(Seq(S))
  BY <1>1, SelectedElements
<1> QED BY <1>5, <1>6 DEF IsSeqs

LEMMA SelectedAt ==
  ASSUME NEW s, IsSeq(s), NEW I \in SUBSET (1..Len(s)), NEW at, at = Ascending(I)
  PROVE  /\ IsSeq(at) /\ IsSeq(Selected(s, I)) /\ Len(Selected(s, I)) = Len(at)
         /\ \A k \in 1..Len(at) : at[k] \in I /\ Selected(s, I)[k] = s[at[k]]
         /\ \A x : x \in ToSet(Selected(s, I)) <=> \E k \in I : x = s[k]
<1>1. Len(s) \in Nat /\ s \in Seq(ToSet(s))
  BY SeqIs
<1>2. PICK q \in Seq(Nat) : Increasing(q) /\ ToSet(q) = I
  BY <1>1, PositionsListed
<1>3. at = q
  BY <1>2, AscendingIs
<1>4. Len(q) \in Nat /\ DOMAIN q = 1..Len(q) /\ \A k \in 1..Len(q) : q[k] \in I
  <2>1. \A k \in 1..Len(q) : q[k] \in ToSet(q)
    BY ToSetFacts
  <2> QED BY <1>2, <2>1
<1>5. Selected(s, I) = [k \in 1..Len(q) |-> s[q[k]]]
  BY <1>3, <1>4 DEF Selected
<1>6. DOMAIN Selected(s, I) = 1..Len(q) /\ \A k \in 1..Len(q) : Selected(s, I)[k] = s[q[k]]
  BY <1>5
<1>7. IsSeq(Selected(s, I)) /\ Len(Selected(s, I)) = Len(q)
  <2>1. Selected(s, I) = [k \in 1..Len(q) |-> Selected(s, I)[k]]
    BY <1>5
  <2> QED BY <1>4, <1>6, <2>1, MadeSeq
<1>8. \A x : x \in ToSet(Selected(s, I)) <=> \E k \in I : x = s[k]
  <2>1. ToSet(Selected(s, I)) = {s[k] : k \in I}
    BY <1>1, SelectedElements
  <2> QED BY <2>1
<1>9. IsSeq(q)
  BY DEF IsSeq
<1> QED BY <1>3, <1>4, <1>6, <1>7, <1>8, <1>9

\* What the selected are made into, and all, if the others are made into nothing.
LEMMA FlattenPicked ==
  ASSUME NEW s, IsSeq(s), NEW I \in SUBSET (1..Len(s)),
         NEW a, IsSeqs(a), Len(a) = Len(s), \A k \in (1..Len(s)) \ I : a[k] = <<>>,
         NEW b, IsSeq(b), Len(b) = Len(Selected(s, I)),
         \A k \in 1..Len(b) : \A j \in I : Selected(s, I)[k] = s[j] => b[k] = a[j]
  PROVE  IsSeqs(b) /\ FlattenSeq(b) = FlattenSeq(a)
<1> DEFINE at == Ascending(I)
<1>1. IsSeq(a) /\ I \in SUBSET (1..Len(a))
  BY SeqsAre
<1>2. /\ IsSeq(at) /\ Len(Selected(s, I)) = Len(at)
      /\ \A k \in 1..Len(at) : at[k] \in I /\ Selected(s, I)[k] = s[at[k]]
  BY SelectedAt
<1>3. /\ IsSeq(Selected(a, I)) /\ Len(Selected(a, I)) = Len(at)
      /\ \A k \in 1..Len(at) : Selected(a, I)[k] = a[at[k]]
  BY <1>1, SelectedAt
<1> HIDE DEF at
<1>4. \A k \in 1..Len(b) : b[k] = Selected(a, I)[k]
  BY <1>2, <1>3
<1>5. b = Selected(a, I)
  BY <1>2, <1>3, <1>4, SeqSame
<1>6. IsSeqs(Selected(a, I)) /\ FlattenSeq(Selected(a, I)) = FlattenSeq(a)
  BY <1>1, FlattenSelected
<1> QED BY <1>5, <1>6

LEMMA SelectedFlat ==
  ASSUME NEW s, IsSeq(s), NEW I \in SUBSET (1..Len(s)),
         NEW a, IsSeq(a), Len(a) = Len(s), \A k \in 1..Len(s) : a[k] = IF k \in I THEN <<s[k]>> ELSE <<>>
  PROVE  IsSeqs(a) /\ IsSeq(Selected(s, I)) /\ Selected(s, I) = FlattenSeq(a)
<1> DEFINE r == Selected(s, I)
           b == [k \in 1..Len(r) |-> <<r[k]>>]
<1>1. IsSeqs(a)
  <2>1. \A k \in 1..Len(a) : IsSeq(a[k])
    <3> TAKE k \in 1..Len(a)
    <3>1. CASE k \in I
      <4> DEFINE x == s[k]
      <4>1. a[k] = <<x>>
        BY <3>1
      <4> HIDE DEF x
      <4>2. IsSeq(<<x>>)
        BY SeqOne
      <4> QED BY <4>1, <4>2
    <3>2. CASE k \notin I
      BY <3>2, SeqEmpty
    <3> QED BY <3>1, <3>2
  <2> QED BY <2>1, SeqOfSeqs
<1>2. IsSeq(r) /\ Len(r) \in Nat
  BY SelectedAt, SeqIs
<1> HIDE DEF r
<1>3. DOMAIN b = 1..Len(r) /\ b = [k \in 1..Len(r) |-> b[k]] /\ \A k \in 1..Len(r) : b[k] = <<r[k]>>
  OBVIOUS
<1> HIDE DEF b
<1>4. IsSeq(b) /\ Len(b) = Len(r)
  BY <1>2, <1>3, MadeSeq
<1>5. FlattenSeq(b) = r
  BY <1>2, <1>3, <1>4, FlattenOnes
<1>6. \A k \in 1..Len(b) : \A j \in I : r[k] = s[j] => b[k] = a[j]
  BY <1>3, <1>4
<1>7. \A k \in (1..Len(s)) \ I : a[k] = <<>>
  OBVIOUS
<1>8. FlattenSeq(b) = FlattenSeq(a)
  BY <1>1, <1>4, <1>6, <1>7, FlattenPicked DEF r
<1> QED BY <1>1, <1>2, <1>5, <1>8 DEF r
=============================================================================
