-------------------------- MODULE ConversationProofs --------------------------
(***************************************************************************)
(* Proofs about Conversation, for any wires, shapes of answers and usage,  *)
(* any number of turns, and streams in any chunks.                         *)
(***************************************************************************)
EXTENDS Conversation, SortedSeqsProofs

-----------------------------------------------------------------------------
\* The greatest of some numbers.

LEMMA MaxIs ==
  ASSUME NEW S \in SUBSET Nat, NEW m \in S, \A x \in S : x <= m
  PROVE  Max(S) = m
<1>1. \A x \in S : (\A y \in S : x >= y) => x = m
  OBVIOUS
<1>2. \A y \in S : m >= y
  OBVIOUS
<1> QED BY <1>1, <1>2 DEF Max

LEMMA MaxOf ==
  ASSUME NEW n \in Nat, NEW S \in SUBSET (1..n), S # {}
  PROVE  Max(S) \in S /\ \A x \in S : x <= Max(S)
<1> DEFINE T == {n - x : x \in S}
<1>1. T \in SUBSET Nat /\ T # {}
  <2>1. \A x \in S : n - x \in Nat
    OBVIOUS
  <2> QED BY <2>1
<1>2. PICK t \in T : \A u \in T : t <= u
  BY <1>1, LeastNumber
<1>3. PICK m \in S : t = n - m
  BY <1>2
<1>4. \A x \in S : x <= m
  <2> TAKE x \in S
  <2>1. t <= n - x
    BY <1>2
  <2> QED BY <1>3, <2>1
<1>5. Max(S) = m
  <2>1. S \in SUBSET Nat
    OBVIOUS
  <2> QED BY <1>4, <2>1, MaxIs
<1> QED BY <1>4, <1>5

-----------------------------------------------------------------------------
\* _scan_lines

CountsOn(before, a, b, c) == LastCounted(LastCounted(before, a), b) = LastCounted(before, c)

\* Scanning goes on where it stopped: the numbers of c are those of a, then those of b.
LEMMA CountingGoesOn ==
  ASSUME NEW m \in Nat, NEW n \in Nat, NEW before, NEW a, NEW b, NEW c,
         DOMAIN a = 1..m, DOMAIN b = 1..n, DOMAIN c = 1..(m + n),
         \A k \in 1..m : c[k] = a[k],
         \A k \in 1..n : c[k + m] = b[k]
  PROVE  CountsOn(before, a, b, c)
<1> DEFINE A == {k \in 1..m : a[k] # 0}
           B == {k \in 1..n : b[k] # 0}
           C == {k \in 1..(m + n) : c[k] # 0}
<1>1. /\ A \in SUBSET (1..m) /\ B \in SUBSET (1..n) /\ C \in SUBSET (1..(m + n))
      /\ A \in SUBSET Nat /\ C \in SUBSET Nat
  OBVIOUS
<1>2. /\ LastCounted(before, a) = IF A = {} THEN before ELSE a[Max(A)]
      /\ \A x : LastCounted(x, b) = IF B = {} THEN x ELSE b[Max(B)]
      /\ LastCounted(before, c) = IF C = {} THEN before ELSE c[Max(C)]
  BY DEF LastCounted
<1>3. /\ \A k \in A : k \in C
      /\ \A k \in B : k + m \in C
  OBVIOUS
<1>4. \A k \in C : k \in A \/ (k - m \in B /\ (k - m) + m = k)
  <2> TAKE k \in C
  <2>1. CASE k <= m
    BY <2>1
  <2>2. CASE k > m
    <3>1. k - m \in 1..n /\ (k - m) + m = k
      BY <2>2
    <3>2. c[k] = b[k - m]
      BY <3>1
    <3> QED BY <3>1, <3>2
  <2> QED BY <2>1, <2>2
<1>5. CASE B = {}
  <2>1. C = A
    BY <1>1, <1>3, <1>4, <1>5
  <2>2. CASE A = {}
    BY <1>2, <1>5, <2>1, <2>2 DEF CountsOn
  <2>3. CASE A # {}
    <3>1. Max(A) \in A
      BY <1>1, <2>3, MaxOf
    <3>2. c[Max(A)] = a[Max(A)]
      BY <3>1
    <3> HIDE DEF A, B, C
    <3> QED BY <1>2, <1>5, <2>1, <2>3, <3>2 DEF CountsOn
  <2> QED BY <2>2, <2>3
<1>6. CASE B # {}
  <2>1. Max(B) \in B /\ \A k \in B : k <= Max(B)
    BY <1>1, <1>6, MaxOf
  <2>2. Max(B) + m \in C
    BY <1>3, <2>1
  <2>3. \A k \in C : k <= Max(B) + m
    <3> TAKE k \in C
    <3>0. Max(B) \in Nat /\ k \in Nat
      BY <2>1
    <3>1. CASE k \in A
      <4>1. k <= m
        BY <3>1
      <4> QED BY <3>0, <4>1
    <3>2. CASE k - m \in B
      <4>1. k - m <= Max(B)
        BY <2>1, <3>2
      <4> QED BY <3>0, <4>1
    <3> QED BY <1>4, <3>1, <3>2
  <2>4. Max(C) = Max(B) + m
    <3> HIDE DEF B, C
    <3> QED BY <1>1, <2>2, <2>3, MaxIs
  <2>5. c[Max(B) + m] = b[Max(B)]
    BY <2>1
  <2>6. C # {}
    BY <2>2
  <2> HIDE DEF A, B, C
  <2> QED BY <1>2, <1>6, <2>4, <2>5, <2>6 DEF CountsOn
<1> QED BY <1>5, <1>6

ScansOn(found, s, t, u) == ScanLines(ScanLines(found, s), t) = ScanLines(found, u)

LEMMA ScanningGoesOn ==
  ASSUME NEW L, NEW found, NEW s \in Seq(L), NEW t \in Seq(L), NEW u \in Seq(L),
         Len(u) = Len(s) + Len(t),
         \A k \in 1..Len(s) : u[k] = s[k],
         \A k \in 1..Len(t) : u[k + Len(s)] = t[k]
  PROVE  ScansOn(found, s, t, u)
<1> DEFINE In(x) == [k \in DOMAIN x |-> LineUsage(x[k]).in]
           OutOf(x) == [k \in DOMAIN x |-> LineUsage(x[k]).out]
           m == Len(s)
           n == Len(t)
<1>1. /\ m \in Nat /\ n \in Nat
      /\ DOMAIN s = 1..m /\ DOMAIN t = 1..n /\ DOMAIN u = 1..(m + n)
  OBVIOUS
<1>2. /\ \A k \in 1..m : k \in 1..(m + n) /\ u[k] = s[k]
      /\ \A k \in 1..n : k + m \in 1..(m + n) /\ u[k + m] = t[k]
  BY <1>1
<1> HIDE DEF m, n
<1>3. CountsOn(found.in, In(s), In(t), In(u))
  <2>1. /\ DOMAIN In(s) = 1..m /\ DOMAIN In(t) = 1..n /\ DOMAIN In(u) = 1..(m + n)
        /\ \A k \in 1..m : In(u)[k] = In(s)[k]
        /\ \A k \in 1..n : In(u)[k + m] = In(t)[k]
    BY <1>1, <1>2
  <2> HIDE DEF In
  <2> QED BY ONLY <1>1, <2>1, CountingGoesOn
<1>4. CountsOn(found.out, OutOf(s), OutOf(t), OutOf(u))
  <2>1. /\ DOMAIN OutOf(s) = 1..m /\ DOMAIN OutOf(t) = 1..n /\ DOMAIN OutOf(u) = 1..(m + n)
        /\ \A k \in 1..m : OutOf(u)[k] = OutOf(s)[k]
        /\ \A k \in 1..n : OutOf(u)[k + m] = OutOf(t)[k]
    BY <1>1, <1>2
  <2> HIDE DEF OutOf
  <2> QED BY ONLY <1>1, <2>1, CountingGoesOn
<1>5. \A f, x : ScanLines(f, x) = [in |-> LastCounted(f.in, In(x)), out |-> LastCounted(f.out, OutOf(x))]
  BY DEF ScanLines
<1> HIDE DEF In, OutOf
<1>6. /\ ScanLines(found, s).in = LastCounted(found.in, In(s))
      /\ ScanLines(found, s).out = LastCounted(found.out, OutOf(s))
  BY <1>5
<1>7. ScanLines(ScanLines(found, s), t)
        = [in |-> LastCounted(LastCounted(found.in, In(s)), In(t)),
           out |-> LastCounted(LastCounted(found.out, OutOf(s)), OutOf(t))]
  BY <1>5, <1>6
<1>8. ScanLines(found, u) = [in |-> LastCounted(found.in, In(u)), out |-> LastCounted(found.out, OutOf(u))]
  BY <1>5
<1> QED BY <1>3, <1>4, <1>7, <1>8 DEF CountsOn, ScansOn

-----------------------------------------------------------------------------
\* _split_sse_lines

HalfLines(L) == [line : L, part : {1, 2}]

\* text has the halves of lines, and perhaps the first half of another.
Spells(text, lines, L) ==
  /\ text \in Seq(HalfLines(L)) /\ lines \in Seq(L)
  /\ Len(text) \in {2 * Len(lines), 2 * Len(lines) + 1}
  /\ \A k \in 1..Len(lines) : /\ text[2 * k - 1] = [line |-> lines[k], part |-> 1]
                              /\ text[2 * k] = [line |-> lines[k], part |-> 2]
  /\ Len(text) > 2 * Len(lines) => text[Len(text)].part = 1

\* Where the line breaks of such a text are.
LEMMA BreaksOf ==
  ASSUME NEW L, NEW text, NEW lines, Spells(text, lines, L), NEW k \in 1..Len(text)
  PROVE  /\ text[k].part = 2 <=> \E j \in 1..Len(lines) : k = 2 * j
         /\ text[k].part = 2 => k > 1 /\ text[k - 1].part = 1
<1> DEFINE n == Len(lines)
<1>1. n \in Nat /\ Len(text) \in {2 * n, 2 * n + 1} /\ k \in Nat
  BY DEF Spells
<1>2. \A j \in 1..n : text[2 * j].part = 2 /\ text[2 * j - 1].part = 1
  <2> TAKE j \in 1..n
  <2>1. /\ text[2 * j - 1] = [line |-> lines[j], part |-> 1]
        /\ text[2 * j] = [line |-> lines[j], part |-> 2]
    BY DEF Spells
  <2> QED BY <2>1
<1>3. Len(text) = 2 * n + 1 => text[2 * n + 1].part = 1
  BY <1>1 DEF Spells
<1> HIDE DEF n
<1>4. \/ \E j \in 1..n : k = 2 * j
      \/ \E j \in 1..n : k = 2 * j - 1
      \/ k = 2 * n + 1 /\ Len(text) = 2 * n + 1
  <2>1. PICK h \in Nat : k = 2 * h \/ k = 2 * h + 1
    <3>1. k \div 2 \in Nat /\ (k = 2 * (k \div 2) \/ k = 2 * (k \div 2) + 1)
      BY <1>1
    <3> QED BY <3>1
  <2>2. CASE k = 2 * h
    <3>1. h \in 1..n
      BY <1>1, <2>2
    <3> QED BY <2>2, <3>1
  <2>3. CASE k = 2 * h + 1
    <3>1. k = 2 * (h + 1) - 1 /\ (h + 1 \in 1..n \/ (h = n /\ Len(text) = 2 * n + 1))
      BY <1>1, <2>3
    <3> QED BY <2>3, <3>1
  <2> QED BY <2>1, <2>2, <2>3
<1>5. CASE \E j \in 1..n : k = 2 * j
  <2>1. PICK j \in 1..n : k = 2 * j
    BY <1>5
  <2>2. text[k].part = 2 /\ k - 1 = 2 * j - 1 /\ text[k - 1].part = 1 /\ k > 1
    BY <1>1, <1>2, <2>1
  <2> QED BY <1>5, <2>2 DEF n
<1>6. CASE \E j \in 1..n : k = 2 * j - 1
  <2>1. PICK j \in 1..n : k = 2 * j - 1
    BY <1>6
  <2>2. text[k].part = 1
    BY <1>2, <2>1
  <2>3. \A i \in 1..n : k # 2 * i
    BY <1>1, <2>1
  <2> QED BY <2>2, <2>3 DEF n
<1>7. CASE k = 2 * n + 1 /\ Len(text) = 2 * n + 1
  <2>1. text[k].part = 1
    BY <1>3, <1>7
  <2>2. \A i \in 1..n : k # 2 * i
    BY <1>1, <1>7
  <2> QED BY <2>1, <2>2 DEF n
<1> QED BY <1>4, <1>5, <1>6, <1>7

\* The whole lines of such a text.
LEMMA WholeLinesAre ==
  ASSUME NEW L, NEW text, NEW lines, Spells(text, lines, L)
  PROVE  WholeLines(text) = lines
<1> DEFINE n == Len(lines)
           q == [k \in 1..n |-> 2 * k]
           ends == {k \in DOMAIN text : k > 1 /\ text[k].part = 2 /\ text[k - 1].part = 1}
<1>1. /\ n \in Nat /\ lines \in Seq(L) /\ text \in Seq(HalfLines(L))
      /\ Len(text) \in Nat /\ Len(text) >= 2 * n /\ DOMAIN text = 1..Len(text)
      /\ \A k \in 1..n : text[2 * k].line = lines[k]
  <2>1. /\ n \in Nat /\ lines \in Seq(L) /\ text \in Seq(HalfLines(L))
        /\ Len(text) \in {2 * n, 2 * n + 1}
    BY DEF Spells
  <2>2. \A k \in 1..n : text[2 * k].line = lines[k]
    <3> TAKE k \in 1..n
    <3>1. text[2 * k] = [line |-> lines[k], part |-> 2]
      BY DEF Spells
    <3> QED BY <3>1
  <2>3. Len(text) \in Nat /\ Len(text) >= 2 * n /\ DOMAIN text = 1..Len(text)
    BY <2>1
  <2> QED BY <2>1, <2>2, <2>3
<1>2. q \in Seq(Nat) /\ Len(q) = n /\ DOMAIN q = 1..n /\ \A k \in 1..n : q[k] = 2 * k
  BY <1>1
<1> HIDE DEF n, q
<1>3. Increasing(q)
  <2>1. \A i, j \in 1..Len(q) : i < j => q[i] < q[j]
    BY <1>1, <1>2
  <2> QED BY <2>1, IncreasingMeans
<1>4. ToSet(q) = ends
  <2>1. \A x : x \in ToSet(q) <=> \E k \in 1..n : x = 2 * k
    BY <1>2 DEF ToSet
  <2>2. \A x \in DOMAIN text :
          /\ text[x].part = 2 <=> \E k \in 1..n : x = 2 * k
          /\ text[x].part = 2 => x > 1 /\ text[x - 1].part = 1
    BY <1>1, BreaksOf DEF n
  <2>3. \A k \in 1..n : 2 * k \in DOMAIN text
    BY <1>1
  <2> QED BY <2>1, <2>2, <2>3
<1> HIDE DEF ends
<1>5. ToSet(q) \subseteq 1..Len(text)
  BY <1>1, <1>4 DEF ends
<1> DEFINE whole == Selected(text, ends)
<1>6. /\ whole \in Seq(HalfLines(L)) /\ Len(whole) = n
      /\ \A k \in 1..n : whole[k] = text[2 * k]
  <2>1. /\ Selected(text, ToSet(q)) \in Seq(HalfLines(L))
        /\ Len(Selected(text, ToSet(q))) = Len(q)
        /\ \A k \in 1..Len(q) : Selected(text, ToSet(q))[k] = text[q[k]]
    <3>1. text \in Seq(HalfLines(L)) /\ q \in Seq(Nat)
      BY <1>1, <1>2
    <3> QED BY ONLY <3>1, <1>3, <1>5, SelectedIs
  <2> QED BY <1>2, <1>4, <2>1
<1>7. WholeLines(text) = [k \in DOMAIN whole |-> whole[k].line]
  BY DEF WholeLines, ends
<1> HIDE DEF whole
<1>8. DOMAIN whole = 1..n
  BY <1>1, <1>6
<1>9. WholeLines(text) = [k \in 1..n |-> lines[k]]
  BY <1>1, <1>6, <1>7, <1>8
<1> QED BY <1>1, <1>9 DEF n

\* What is kept and what is whole of what was kept and a chunk.
Splits(carry, chunk, lines) ==
  SplitLines(carry, chunk)
    = [carry |-> SubSeq(carry \o chunk, 2 * Len(lines) + 1, Len(carry \o chunk)), lines |-> lines]

LEMMA SplitIs ==
  ASSUME NEW L, NEW carry, NEW chunk, NEW lines, Spells(carry \o chunk, lines, L)
  PROVE  Splits(carry, chunk, lines)
<1> DEFINE text == carry \o chunk
           n == Len(lines)
           S == {0} \union {k \in DOMAIN text : text[k].part = 2}
<1>0. Spells(text, lines, L)
  OBVIOUS
<1>1. SplitLines(carry, chunk) = [carry |-> SubSeq(text, Max(S) + 1, Len(text)),
                                  lines |-> WholeLines(SubSeq(text, 1, Max(S)))]
  BY DEF SplitLines
<1> HIDE DEF text
<1>2. /\ n \in Nat /\ lines \in Seq(L) /\ text \in Seq(HalfLines(L))
      /\ Len(text) \in Nat /\ Len(text) >= 2 * n /\ DOMAIN text = 1..Len(text)
      /\ \A k \in 1..n : /\ text[2 * k - 1] = [line |-> lines[k], part |-> 1]
                         /\ text[2 * k] = [line |-> lines[k], part |-> 2]
  BY <1>0 DEF Spells
<1>3. Max(S) = 2 * n
  <2>1. \A k \in DOMAIN text : text[k].part = 2 <=> \E j \in 1..n : k = 2 * j
    BY <1>0, <1>2, BreaksOf
  <2>2. S \in SUBSET Nat
    BY <1>2
  <2>3. 2 * n \in S
    <3>1. CASE n = 0
      BY <3>1
    <3>2. CASE n # 0
      <4>1. n \in 1..n /\ 2 * n \in DOMAIN text
        BY <1>2, <3>2
      <4> QED BY <2>1, <4>1
    <3> QED BY <3>1, <3>2
  <2>4. \A x \in S : x <= 2 * n
    <3> TAKE x \in S
    <3>1. x = 0 \/ \E j \in 1..n : x = 2 * j
      BY <2>1
    <3> QED BY <1>2, <3>1
  <2> HIDE DEF S, n
  <2> QED BY <2>2, <2>3, <2>4, MaxIs
<1>4. Spells(SubSeq(text, 1, 2 * n), lines, L)
  <2> DEFINE v == SubSeq(text, 1, 2 * n)
  <2>1. v \in Seq(HalfLines(L)) /\ Len(v) = 2 * n /\ \A k \in 1..(2 * n) : v[k] = text[k]
    BY <1>2
  <2> HIDE DEF v
  <2>2. \A k \in 1..n : 2 * k - 1 \in 1..(2 * n) /\ 2 * k \in 1..(2 * n)
    BY <1>2
  <2>3. ~(Len(v) > 2 * n)
    BY <1>2, <2>1
  <2>4. \A k \in 1..n : /\ v[2 * k - 1] = [line |-> lines[k], part |-> 1]
                        /\ v[2 * k] = [line |-> lines[k], part |-> 2]
    BY <1>2, <2>1, <2>2
  <2>5. Spells(v, lines, L)
    BY <1>2, <2>1, <2>3, <2>4 DEF Spells
  <2> QED BY <2>5 DEF v
<1>5. WholeLines(SubSeq(text, 1, 2 * n)) = lines
  BY <1>4, WholeLinesAre
<1> HIDE DEF S, n
<1> QED BY <1>1, <1>3, <1>5 DEF text, n, Splits

-----------------------------------------------------------------------------
\* A stream of lines in chunks.

LEMMA HalvesAre ==
  ASSUME NEW L, NEW lines \in Seq(L)
  PROVE  /\ HalvesOf(lines) \in Seq(HalfLines(L)) /\ Len(HalvesOf(lines)) = 2 * Len(lines)
         /\ \A k \in 1..Len(lines) : /\ HalvesOf(lines)[2 * k - 1] = [line |-> lines[k], part |-> 1]
                                     /\ HalvesOf(lines)[2 * k] = [line |-> lines[k], part |-> 2]
<1> DEFINE n == Len(lines)
           half(i) == [line |-> lines[(i + 1) \div 2], part |-> IF i % 2 = 1 THEN 1 ELSE 2]
           text == [i \in 1..(2 * n) |-> half(i)]
<1>1. n \in Nat /\ \A k \in 1..n : lines[k] \in L
  OBVIOUS
<1>2. HalvesOf(lines) = text
  BY DEF HalvesOf
<1> HIDE DEF n
<1>3. \A i \in 1..(2 * n) : half(i) \in HalfLines(L)
  <2> TAKE i \in 1..(2 * n)
  <2>1. (i + 1) \div 2 \in 1..n
    BY <1>1
  <2>2. lines[(i + 1) \div 2] \in L
    BY <1>1, <2>1
  <2> QED BY <2>2 DEF HalfLines
<1>4. ASSUME NEW k \in 1..n
      PROVE  /\ half(2 * k - 1) = [line |-> lines[k], part |-> 1]
             /\ half(2 * k) = [line |-> lines[k], part |-> 2]
             /\ 2 * k \in 1..(2 * n) /\ 2 * k - 1 \in 1..(2 * n)
  <2>1. /\ ((2 * k - 1) + 1) \div 2 = k /\ (2 * k - 1) % 2 = 1
        /\ (2 * k + 1) \div 2 = k /\ (2 * k) % 2 = 0
        /\ 2 * k \in 1..(2 * n) /\ 2 * k - 1 \in 1..(2 * n)
    BY <1>1
  <2> QED BY <2>1
<1> HIDE DEF half
<1>5. text \in Seq(HalfLines(L)) /\ Len(text) = 2 * n
  BY <1>1, <1>3
<1>6. \A i \in 1..(2 * n) : text[i] = half(i)
  OBVIOUS
<1> HIDE DEF text
<1>7. \A k \in 1..n : /\ text[2 * k - 1] = [line |-> lines[k], part |-> 1]
                      /\ text[2 * k] = [line |-> lines[k], part |-> 2]
  BY <1>4, <1>6
<1> QED BY <1>2, <1>5, <1>7 DEF n

\* Where the scan of a stream is when the chunks so far end after half e.
ScannedTo(lines, e) ==
  [carry |-> SubSeq(HalvesOf(lines), 2 * (e \div 2) + 1, e),
   found |-> ScanLines(NothingFound, SubSeq(lines, 1, e \div 2))]

\* What follows whole lines.
LEMMA RestSpells ==
  ASSUME NEW L, NEW lines \in Seq(L), NEW a \in 0..Len(lines), NEW b \in a..Len(lines),
         NEW e \in {2 * b, 2 * b + 1}, e <= 2 * Len(lines)
  PROVE  Spells(SubSeq(HalvesOf(lines), 2 * a + 1, e), SubSeq(lines, a + 1, b), L)
<1> DEFINE n == Len(lines)
           text == HalvesOf(lines)
           u == SubSeq(text, 2 * a + 1, e)
           p == SubSeq(lines, a + 1, b)
<1>1. n \in Nat /\ a \in Nat /\ b \in Nat /\ e \in Nat /\ a <= b /\ b <= n
  OBVIOUS
<1>2. /\ text \in Seq(HalfLines(L)) /\ Len(text) = 2 * n
      /\ \A k \in 1..n : /\ text[2 * k - 1] = [line |-> lines[k], part |-> 1]
                         /\ text[2 * k] = [line |-> lines[k], part |-> 2]
  BY HalvesAre
<1>3. p \in Seq(L) /\ Len(p) = b - a /\ \A k \in 1..(b - a) : p[k] = lines[k + a]
  BY <1>1
<1> HIDE DEF text, p
<1>4. /\ u \in Seq(HalfLines(L)) /\ Len(u) = e - 2 * a
      /\ \A k \in 1..(e - 2 * a) : u[k] = text[k + 2 * a]
  BY <1>1, <1>2
<1> HIDE DEF u, n
<1>5. Len(u) \in {2 * Len(p), 2 * Len(p) + 1}
  BY <1>1, <1>3, <1>4
<1>6. ASSUME NEW k \in 1..Len(p)
      PROVE  /\ u[2 * k - 1] = [line |-> p[k], part |-> 1]
             /\ u[2 * k] = [line |-> p[k], part |-> 2]
  <2>1. /\ 2 * k - 1 \in 1..(e - 2 * a) /\ 2 * k \in 1..(e - 2 * a)
        /\ k + a \in 1..n /\ k \in 1..(b - a)
    BY <1>1, <1>3
  <2>2. (2 * k - 1) + 2 * a = 2 * (k + a) - 1 /\ 2 * k + 2 * a = 2 * (k + a)
    BY <1>1, <1>3
  <2>3. u[2 * k - 1] = text[2 * (k + a) - 1] /\ u[2 * k] = text[2 * (k + a)]
    BY <1>4, <2>1, <2>2
  <2> QED BY <1>2, <1>3, <2>1, <2>3
<1>7. ASSUME Len(u) > 2 * Len(p) PROVE u[Len(u)].part = 1
  <2>1. /\ Len(u) = 2 * (b - a) + 1 /\ e = 2 * b + 1
        /\ Len(u) \in 1..(e - 2 * a) /\ Len(u) + 2 * a = 2 * (b + 1) - 1
    BY <1>1, <1>3, <1>4, <1>7
  <2>2. b + 1 \in 1..n
    BY <1>1, <2>1 DEF n
  <2>3. u[Len(u)] = text[2 * (b + 1) - 1]
    BY <1>4, <2>1
  <2>4. text[2 * (b + 1) - 1] = [line |-> lines[b + 1], part |-> 1]
    BY <1>2, <2>2
  <2> QED BY <2>3, <2>4
<1>8. Spells(u, p, L)
  BY <1>3, <1>4, <1>5, <1>6, <1>7 DEF Spells
<1> QED BY <1>8 DEF u, text, p

Advances(lines, d, e) ==
  LET split == SplitLines(ScannedTo(lines, d).carry, SubSeq(HalvesOf(lines), d + 1, e))
  IN ScannedTo(lines, e)
       = [carry |-> split.carry, found |-> ScanLines(ScannedTo(lines, d).found, split.lines)]

\* The chunk from half d to half e takes the scan from the one to the other.
LEMMA ChunkScanned ==
  ASSUME NEW L, NEW lines \in Seq(L),
         NEW e \in 0..(2 * Len(lines)), NEW d \in 0..e
  PROVE  Advances(lines, d, e)
<1> DEFINE n == Len(lines)
           text == HalvesOf(lines)
           a == d \div 2
           b == e \div 2
           carry == SubSeq(text, 2 * a + 1, d)
           chunk == SubSeq(text, d + 1, e)
           u == SubSeq(text, 2 * a + 1, e)
           p == SubSeq(lines, a + 1, b)
           split == SplitLines(carry, chunk)
<1>1. /\ n \in Nat /\ a \in 0..n /\ b \in a..n /\ d \in 0..e /\ e \in 0..(2 * n)
      /\ e \in {2 * b, 2 * b + 1} /\ d \in {2 * a, 2 * a + 1}
  OBVIOUS
<1>2. text \in Seq(HalfLines(L)) /\ Len(text) = 2 * n
  BY HalvesAre
<1> HIDE DEF a, b, text
<1>3. Spells(u, p, L)
  <2>1. a \in 0..Len(lines) /\ b \in a..Len(lines) /\ e <= 2 * Len(lines)
    BY <1>1
  <2>2. Spells(SubSeq(HalvesOf(lines), 2 * a + 1, e), SubSeq(lines, a + 1, b), L)
    BY ONLY lines \in Seq(L), <1>1, <2>1, RestSpells
  <2> QED BY <2>2 DEF text
<1>4. carry \o chunk = u
  <2> HIDE DEF n
  <2>1. carry \in Seq(HalfLines(L)) /\ Len(carry) = d - 2 * a /\ \A k \in 1..(d - 2 * a) : carry[k] = text[k + 2 * a]
    BY <1>1, <1>2
  <2>2. chunk \in Seq(HalfLines(L)) /\ Len(chunk) = e - d /\ \A k \in 1..(e - d) : chunk[k] = text[k + d]
    BY <1>1, <1>2
  <2>3. u \in Seq(HalfLines(L)) /\ Len(u) = e - 2 * a /\ \A k \in 1..(e - 2 * a) : u[k] = text[k + 2 * a]
    BY <1>1, <1>2
  <2> HIDE DEF carry, chunk, u
  <2>4. Len(u) = Len(carry) + Len(chunk)
    BY <1>1, <2>1, <2>2, <2>3
  <2>5. \A k \in 1..Len(carry) : u[k] = carry[k]
    BY <1>1, <2>1, <2>3
  <2>6. \A k \in 1..Len(chunk) : u[k + Len(carry)] = chunk[k]
    <3> TAKE k \in 1..Len(chunk)
    <3>1. k \in 1..(e - d) /\ k + Len(carry) \in 1..(e - 2 * a) /\ (k + Len(carry)) + 2 * a = k + d
      BY <1>1, <2>1, <2>2
    <3> QED BY <2>2, <2>3, <3>1
  <2>7. u = carry \o chunk
    BY ONLY <2>1, <2>2, <2>3, <2>4, <2>5, <2>6, ConcatIs
  <2> QED BY <2>7
<1>5. split.lines = p /\ split.carry = SubSeq(u, 2 * Len(p) + 1, Len(u))
  <2>1. Spells(carry \o chunk, p, L)
    BY <1>3, <1>4
  <2>2. split = [carry |-> SubSeq(carry \o chunk, 2 * Len(p) + 1, Len(carry \o chunk)), lines |-> p]
    <3> HIDE DEF carry, chunk, p
    <3>1. Splits(carry, chunk, p)
      BY ONLY <2>1, SplitIs
    <3> QED BY <3>1 DEF Splits
  <2> HIDE DEF carry, chunk, p, u, split
  <2> QED BY <1>4, <2>2
<1>6. SubSeq(u, 2 * Len(p) + 1, Len(u)) = SubSeq(text, 2 * b + 1, e)
  <2> HIDE DEF n
  <2>1. Len(p) = b - a
    BY <1>1 DEF n
  <2>2. u \in Seq(HalfLines(L)) /\ Len(u) = e - 2 * a /\ \A k \in 1..(e - 2 * a) : u[k] = text[k + 2 * a]
    BY <1>1, <1>2
  <2> HIDE DEF u, p
  <2> DEFINE v == SubSeq(u, 2 * Len(p) + 1, Len(u))
             w == SubSeq(text, 2 * b + 1, e)
  <2>3. /\ v \in Seq(HalfLines(L)) /\ Len(v) = e - 2 * b
        /\ \A k \in 1..(e - 2 * b) : v[k] = u[k + 2 * (b - a)]
    BY <1>1, <2>1, <2>2
  <2>4. w \in Seq(HalfLines(L)) /\ Len(w) = e - 2 * b /\ \A k \in 1..(e - 2 * b) : w[k] = text[k + 2 * b]
    BY <1>1, <1>2
  <2> HIDE DEF v, w
  <2>5. \A k \in 1..(e - 2 * b) : v[k] = w[k]
    <3> TAKE k \in 1..(e - 2 * b)
    <3>1. k + 2 * (b - a) \in 1..(e - 2 * a) /\ (k + 2 * (b - a)) + 2 * a = k + 2 * b
      BY <1>1
    <3> QED BY <2>2, <2>3, <2>4, <3>1
  <2>6. v = w
    BY <2>3, <2>4, <2>5, SeqEqual
  <2> QED BY <2>6 DEF v, w
<1>7. ScansOn(NothingFound, SubSeq(lines, 1, a), p, SubSeq(lines, 1, b))
  <2> DEFINE s == SubSeq(lines, 1, a)
             t == SubSeq(lines, 1, b)
  <2>0. a \in Nat /\ b \in Nat /\ a <= b /\ b <= Len(lines)
    BY <1>1
  <2>1. s \in Seq(L) /\ Len(s) = a /\ \A k \in 1..a : s[k] = lines[k]
    BY <2>0
  <2>2. t \in Seq(L) /\ Len(t) = b /\ \A k \in 1..b : t[k] = lines[k]
    BY <2>0
  <2>3. p \in Seq(L) /\ Len(p) = b - a /\ \A k \in 1..(b - a) : p[k] = lines[k + a]
    BY <2>0
  <2> HIDE DEF s, t, p
  <2>4. /\ Len(t) = Len(s) + Len(p)
        /\ \A k \in 1..Len(s) : t[k] = s[k]
        /\ \A k \in 1..Len(p) : t[k + Len(s)] = p[k]
    <3>1. \A k \in 1..a : k \in 1..b
      BY <2>0
    <3>2. \A k \in 1..(b - a) : k + a \in 1..b
      BY <2>0
    <3>3. b = a + (b - a)
      BY <2>0
    <3> QED BY <2>1, <2>2, <2>3, <3>1, <3>2, <3>3
  <2>5. ScansOn(NothingFound, s, p, t)
    BY ONLY <2>1, <2>2, <2>3, <2>4, ScanningGoesOn
  <2> QED BY <2>5 DEF s, t
<1>8. /\ ScannedTo(lines, d) = [carry |-> carry, found |-> ScanLines(NothingFound, SubSeq(lines, 1, a))]
      /\ ScannedTo(lines, e) = [carry |-> SubSeq(text, 2 * b + 1, e),
                                found |-> ScanLines(NothingFound, SubSeq(lines, 1, b))]
  BY DEF ScannedTo, a, b, text
<1> DEFINE r == ScanLines(NothingFound, SubSeq(lines, 1, a))
           t == ScanLines(NothingFound, SubSeq(lines, 1, b))
           z == SubSeq(text, 2 * b + 1, e)
<1>9. t = ScanLines(r, split.lines)
  BY <1>5, <1>7 DEF ScansOn
<1>10. z = split.carry
  BY <1>5, <1>6
<1>11. /\ ScannedTo(lines, d).carry = carry /\ ScannedTo(lines, d).found = r
       /\ ScannedTo(lines, e) = [carry |-> z, found |-> t]
  <2>1. ScannedTo(lines, d) = [carry |-> carry, found |-> r] /\ ScannedTo(lines, e) = [carry |-> z, found |-> t]
    BY Zenon, <1>8
  <2> HIDE DEF carry, r, z, t
  <2> QED BY <2>1
<1>12. split = SplitLines(ScannedTo(lines, d).carry, SubSeq(HalvesOf(lines), d + 1, e))
  BY <1>11 DEF text
<1> HIDE DEF split, r, t, z, carry
<1> QED BY <1>9, <1>10, <1>11, <1>12 DEF Advances

LEMMA NothingToScan ==
  /\ ScanLines(NothingFound, <<>>) = NothingFound
  /\ \A f, s : ScanLines(ScanLines(f, s), <<>>) = ScanLines(f, s)
<1>2. \A x : /\ LastCounted(x, [k \in DOMAIN <<>> |-> LineUsage(<<>>[k]).in]) = x
            /\ LastCounted(x, [k \in DOMAIN <<>> |-> LineUsage(<<>>[k]).out]) = x
  <2>1. DOMAIN <<>> = {}
    OBVIOUS
  <2> QED BY <2>1 DEF LastCounted
<1>3. \A f : ScanLines(f, <<>>) = [in |-> f.in, out |-> f.out]
  BY <1>2 DEF ScanLines
<1>4. ScanLines(NothingFound, <<>>) = NothingFound
  BY <1>3 DEF NothingFound
<1>5. ASSUME NEW f, NEW s PROVE ScanLines(ScanLines(f, s), <<>>) = ScanLines(f, s)
  <2>1. PICK x, y : ScanLines(f, s) = [in |-> x, out |-> y]
    BY DEF ScanLines
  <2> QED BY <1>3, <2>1
<1> QED BY <1>4, <1>5

ScansAs(c, lines) == ScanStream(c) = ScanLines(NothingFound, lines)

\* Wherever the chunks of a stream end, the scan finds what is in its lines.
LEMMA StreamScanned ==
  ASSUME NEW L, NEW lines \in Seq(L), NEW c \in Cuttings(HalvesOf(lines))
  PROVE  ScansAs(c, lines)
<1> DEFINE n == Len(lines)
           text == HalvesOf(lines)
<1>1. n \in Nat /\ text \in Seq(HalfLines(L)) /\ Len(text) = 2 * n
  BY HalvesAre
<1>2. PICK cuts \in SUBSET (1..(Len(text) - 1)) : c = ChunksOf(text, cuts)
  BY DEF Cuttings
<1> HIDE DEF text
<1> DEFINE S == cuts \union {0, Len(text)}
           at == Ascending(S)
           N == Cardinality(S)
<1>3. S \in SUBSET Nat /\ 0 \in S /\ 2 * n \in S /\ \A x \in S : x \in 0..(2 * n)
  <2> HIDE DEF n
  <2>1. \A x \in cuts : x \in 0..(2 * n)
    BY <1>1
  <2>2. S = cuts \union {0, 2 * n}
    BY <1>1
  <2>3. \A x \in S : x \in 0..(2 * n)
    BY <1>1, <2>1, <2>2
  <2> HIDE DEF S
  <2>4. S \in SUBSET Nat
    BY <1>1, <2>3
  <2> QED BY <2>2, <2>3, <2>4
<1>4. c = [k \in 1..(Len(at) - 1) |-> SubSeq(text, at[k] + 1, at[k + 1])]
  BY <1>2 DEF ChunksOf
<1> HIDE DEF S, at, n
<1>5. IsFiniteSet(S) /\ N \in Nat
  <2>1. S \subseteq 0..(2 * n)
    BY <1>3
  <2>2. 0 \in Int /\ 2 * n \in Int
    BY <1>1
  <2>3. IsFiniteSet(0..(2 * n))
    BY <2>2, FS_Interval
  <2> QED BY <2>1, <2>3, FS_Subset, FS_CardinalityType
<1>6. Lists(at, S)
  BY <1>3, <1>5, AscendingLists DEF at
<1>7. /\ at \in [1..N -> S] /\ \A x \in S : \E i \in 1..N : at[i] = x
      /\ \A i, j \in 1..N : i < j => at[i] < at[j]
  BY <1>6 DEF Lists
<1> HIDE DEF N
<1>8. N >= 1 /\ Len(at) = N
  <2>1. PICK i \in 1..N : at[i] = 0
    BY <1>3, <1>7
  <2> QED BY <1>5, <1>7, <2>1
<1>9. at[1] = 0 /\ at[N] = 2 * n /\ \A i \in 1..N : at[i] \in 0..(2 * n)
  <2>1. \A i \in 1..N : at[i] \in 0..(2 * n)
    BY <1>3, <1>7
  <2>2. PICK i \in 1..N : at[i] = 0
    BY <1>3, <1>7
  <2>3. PICK j \in 1..N : at[j] = 2 * n
    BY <1>3, <1>7
  <2>4. 1 \in 1..N /\ N \in 1..N
    BY <1>5, <1>8
  <2>5. i = 1
    <3>1. 1 < i => at[1] < at[i]
      BY <1>7, <2>4
    <3>2. at[1] \in Nat
      BY <1>1, <2>1, <2>4
    <3> QED BY <2>2, <3>1, <3>2
  <2>6. j = N
    <3>1. j < N => at[j] < at[N]
      BY <1>7, <2>4
    <3>2. at[N] \in 0..(2 * n)
      BY <2>1, <2>4
    <3> QED BY <1>1, <1>5, <2>3, <3>1, <3>2
  <2> QED BY <2>1, <2>2, <2>3, <2>5, <2>6
<1>10. /\ Len(c) = N - 1
       /\ \A k \in 1..(N - 1) : c[k] = SubSeq(text, at[k] + 1, at[k + 1])
  <2>1. c = [k \in 1..(N - 1) |-> SubSeq(text, at[k] + 1, at[k + 1])] /\ N - 1 \in Nat
    BY <1>4, <1>5, <1>8
  <2>2. Len(c) = N - 1
    <3> DEFINE part(k) == SubSeq(text, at[k] + 1, at[k + 1])
    <3>1. c = [k \in 1..(N - 1) |-> part(k)]
      BY <2>1
    <3> HIDE DEF part
    <3> QED BY <2>1, <3>1
  <2> QED BY <2>1, <2>2
<1> DEFINE Begun == [carry |-> <<>>, found |-> NothingFound]
           Next_(s, k) == [carry |-> SplitLines(s.carry, c[k]).carry,
                           found |-> ScanLines(s.found, SplitLines(s.carry, c[k]).lines)]
           F(f) == f = [m \in 0..Len(c) |-> IF m = 0 THEN Begun ELSE Next_(f[m - 1], m)]
           f == CHOOSE f : F(f)
           g == [m \in 0..Len(c) |-> ScannedTo(lines, at[m + 1])]
<1>11. ScanStream(c) = ScanLines(f[Len(c)].found, WholeLines(f[Len(c)].carry))
  BY Zenon DEF ScanStream
<1>12. ScannedTo(lines, 0) = Begun
  <2>1. 0 \div 2 = 0
    OBVIOUS
  <2>2. SubSeq(text, 2 * 0 + 1, 0) = <<>> /\ SubSeq(lines, 1, 0) = <<>>
    BY <1>1
  <2>3. ScannedTo(lines, 0) = [carry |-> SubSeq(text, 2 * 0 + 1, 0),
                              found |-> ScanLines(NothingFound, SubSeq(lines, 1, 0))]
    BY <2>1 DEF ScannedTo, text
  <2> QED BY <2>2, <2>3, NothingToScan
<1>13. ASSUME NEW k \in 1..(N - 1) PROVE ScannedTo(lines, at[k + 1]) = Next_(ScannedTo(lines, at[k]), k)
  <2>1. k \in 1..N /\ k + 1 \in 1..N /\ k < k + 1
    BY <1>5, <1>8
  <2>2. at[k + 1] \in 0..(2 * n) /\ at[k] \in 0..at[k + 1]
    BY <1>1, <1>7, <1>9, <2>1
  <2>3. Advances(lines, at[k], at[k + 1])
    BY <2>2, ChunkScanned DEF n
  <2>4. c[k] = SubSeq(HalvesOf(lines), at[k] + 1, at[k + 1])
    BY <1>10 DEF text
  <2> QED BY <2>3, <2>4 DEF Advances
<1> HIDE DEF Begun, Next_
<1>14. F(g)
  <2>1. ASSUME NEW m \in 0..Len(c)
        PROVE  ScannedTo(lines, at[m + 1]) = IF m = 0 THEN Begun ELSE Next_(g[m - 1], m)
    <3>1. CASE m = 0
      BY <1>9, <1>12, <3>1
    <3>2. CASE m # 0
      <4>1. m \in 1..(N - 1) /\ m - 1 \in 0..Len(c) /\ (m - 1) + 1 = m
        BY <1>5, <1>8, <1>10, <3>2
      <4>2. g[m - 1] = ScannedTo(lines, at[m])
        BY <4>1
      <4> HIDE DEF g
      <4> QED BY <1>13, <3>2, <4>1, <4>2
    <3> QED BY <3>1, <3>2
  <2>2. g = [m \in 0..Len(c) |-> IF m = 0 THEN Begun ELSE Next_(g[m - 1], m)]
    BY Zenon, <2>1
  <2> QED BY Zenon, <2>2
<1>15. F(f)
  <2> HIDE DEF F, g
  <2> QED BY Zenon, <1>14
<1> DEFINE P == {m \in Nat : m \in 0..Len(c) => f[m] = g[m]}
<1>16. /\ f[0] = Begun /\ g[0] = Begun
       /\ \A m \in 0..Len(c) : m # 0 => f[m] = Next_(f[m - 1], m) /\ g[m] = Next_(g[m - 1], m)
  <2>1. 0 \in 0..Len(c)
    BY <1>5, <1>8, <1>10
  <2> HIDE DEF f, g
  <2> QED BY <1>14, <1>15, <2>1
<1> HIDE DEF f, g, F
<1>17. P = Nat
  <2>1. 0 \in P
    BY <1>16
  <2>2. ASSUME NEW m \in P PROVE m + 1 \in P
    <3>1. CASE m + 1 \in 0..Len(c)
      <4>1. m \in 0..Len(c) /\ (m + 1) - 1 = m /\ m + 1 # 0
        BY <1>5, <1>10, <3>1
      <4>2. f[m] = g[m]
        BY <4>1
      <4>3. f[m + 1] = Next_(f[m], m + 1) /\ g[m + 1] = Next_(g[m], m + 1)
        BY <1>16, <3>1, <4>1
      <4> QED BY <4>2, <4>3
    <3>2. CASE m + 1 \notin 0..Len(c)
      BY <3>2
    <3> QED BY <3>1, <3>2
  <2>3. P \in SUBSET Nat
    OBVIOUS
  <2> HIDE DEF P
  <2> QED BY <2>1, <2>2, <2>3, Induction
<1>18. f[Len(c)] = ScannedTo(lines, 2 * n)
  <2>1. Len(c) \in 0..Len(c) /\ Len(c) \in Nat /\ Len(c) + 1 = N
    BY <1>5, <1>8, <1>10
  <2>2. Len(c) \in P
    BY <1>17, <2>1
  <2>3. f[Len(c)] = g[Len(c)]
    BY <2>1, <2>2
  <2>4. g[Len(c)] = ScannedTo(lines, at[N])
    BY <2>1 DEF g
  <2> QED BY <1>9, <2>3, <2>4
<1>19. ScannedTo(lines, 2 * n) = [carry |-> <<>>, found |-> ScanLines(NothingFound, lines)]
  <2>1. (2 * n) \div 2 = n
    BY <1>1
  <2>2. SubSeq(text, 2 * n + 1, 2 * n) = <<>> /\ SubSeq(lines, 1, n) = lines
    BY <1>1 DEF n
  <2>3. ScannedTo(lines, 2 * n) = [carry |-> SubSeq(text, 2 * n + 1, 2 * n),
                                  found |-> ScanLines(NothingFound, SubSeq(lines, 1, n))]
    BY <2>1 DEF ScannedTo, text
  <2> QED BY <2>2, <2>3
<1>20. WholeLines(<<>>) = <<>>
  <2>1. Spells(<<>>, <<>>, L)
    BY DEF Spells
  <2> QED BY <2>1, WholeLinesAre
<1>21. f[Len(c)].found = ScanLines(NothingFound, lines) /\ f[Len(c)].carry = <<>>
  BY <1>18, <1>19
<1> QED BY <1>11, <1>20, <1>21, NothingToScan DEF ScansAs

-----------------------------------------------------------------------------
\* What is found in one line and in two.

LEMMA CountOne ==
  ASSUME NEW a
  PROVE  LastCounted(0, <<a>>) = a
<1> DEFINE s == <<a>>
           C == {k \in DOMAIN s : s[k] # 0}
<1>1. DOMAIN s = {1} /\ s[1] = a
  OBVIOUS
<1>2. LastCounted(0, s) = IF C = {} THEN 0 ELSE s[Max(C)]
  BY DEF LastCounted
<1>3. CASE a = 0
  <2>1. C = {}
    BY <1>1, <1>3
  <2> HIDE DEF C, s
  <2> QED BY <1>2, <1>3, <2>1 DEF s
<1>4. CASE a # 0
  <2>1. C = {1} /\ C # {}
    BY <1>1, <1>4
  <2>2. Max({1}) = 1
    BY MaxIs
  <2> HIDE DEF C, s
  <2> QED BY <1>1, <1>2, <2>1, <2>2 DEF s
<1> QED BY <1>3, <1>4

LEMMA CountTwo ==
  ASSUME NEW a, NEW b
  PROVE  LastCounted(0, <<a, b>>) = IF b # 0 THEN b ELSE a
<1> DEFINE s == <<a, b>>
           C == {k \in DOMAIN s : s[k] # 0}
<1>1. DOMAIN s = {1, 2} /\ s[1] = a /\ s[2] = b
  OBVIOUS
<1>2. LastCounted(0, s) = IF C = {} THEN 0 ELSE s[Max(C)]
  BY DEF LastCounted
<1>3. CASE b # 0
  <2>1. C \in SUBSET Nat /\ 2 \in C /\ \A x \in C : x <= 2
    BY <1>1, <1>3
  <2> HIDE DEF C
  <2>2. Max(C) = 2 /\ C # {}
    BY <2>1, MaxIs
  <2> HIDE DEF s
  <2> QED BY <1>1, <1>2, <1>3, <2>2 DEF s
<1>4. CASE b = 0 /\ a # 0
  <2>1. C \in SUBSET Nat /\ 1 \in C /\ \A x \in C : x <= 1
    BY <1>1, <1>4
  <2> HIDE DEF C
  <2>2. Max(C) = 1 /\ C # {}
    BY <2>1, MaxIs
  <2> HIDE DEF s
  <2> QED BY <1>1, <1>2, <1>4, <2>2 DEF s
<1>5. CASE b = 0 /\ a = 0
  <2>1. C = {}
    BY <1>1, <1>5
  <2> HIDE DEF C, s
  <2> QED BY <1>2, <1>5, <2>1 DEF s
<1> QED BY <1>3, <1>4, <1>5

LEMMA OneLineFound ==
  ASSUME NEW l
  PROVE  ScanLines(NothingFound, <<l>>) = [in |-> LineUsage(l).in, out |-> LineUsage(l).out]
<1>1. /\ [k \in DOMAIN <<l>> |-> LineUsage(<<l>>[k]).in] = <<LineUsage(l).in>>
      /\ [k \in DOMAIN <<l>> |-> LineUsage(<<l>>[k]).out] = <<LineUsage(l).out>>
  OBVIOUS
<1>2. NothingFound.in = 0 /\ NothingFound.out = 0
  BY DEF NothingFound
<1> QED BY <1>1, <1>2, CountOne DEF ScanLines

LEMMA TwoLinesFound ==
  ASSUME NEW l, NEW m
  PROVE  ScanLines(NothingFound, <<l, m>>)
           = [in |-> IF LineUsage(m).in # 0 THEN LineUsage(m).in ELSE LineUsage(l).in,
              out |-> IF LineUsage(m).out # 0 THEN LineUsage(m).out ELSE LineUsage(l).out]
<1>1. /\ [k \in DOMAIN <<l, m>> |-> LineUsage(<<l, m>>[k]).in] = <<LineUsage(l).in, LineUsage(m).in>>
      /\ [k \in DOMAIN <<l, m>> |-> LineUsage(<<l, m>>[k]).out] = <<LineUsage(l).out, LineUsage(m).out>>
  OBVIOUS
<1>2. NothingFound.in = 0 /\ NothingFound.out = 0
  BY DEF NothingFound
<1> QED BY <1>1, <1>2, CountTwo DEF ScanLines

-----------------------------------------------------------------------------
\* What of the usage an answer tells the middleware: a stream of items that ends
\* incomplete, nothing.
Spent(u, ended) ==
  IF wire = "codex" /\ ended = "incomplete" THEN NothingFound
  ELSE [in |-> IF wire = "native" THEN InputTotal(u) ELSE u.input, out |-> u.output]

LEMMA SplitTotal ==
  ASSUME NEW u \in Usage
  PROVE  InputTotal(SplitUsage(u)) = u.input /\ SplitUsage(u).output = u.output
<1>1. u.input \in Nat /\ u.cached \in Nat
  BY DEF Usage
<1>2. CASE u.cached <= u.input
  BY <1>1, <1>2 DEF SplitUsage, InputTotal
<1>3. CASE ~(u.cached <= u.input)
  BY <1>1, <1>3 DEF SplitUsage, InputTotal
<1> QED BY <1>2, <1>3

LEMMA AnswersUsage ==
  ASSUME NEW shape, NEW u
  PROVE  AnswerOf(shape, u).usage = u
BY DEF AnswerOf

\* A stream of an answer is found to have used what it tells.
LEMMA StreamedUsage ==
  ASSUME NEW u \in Usage, NEW a, a.usage = u, wire # "chat", NEW ended \in {"completed", "incomplete"},
         NEW c \in Cuttings(HalvesOf(StreamLines(a, ended)))
  PROVE  ScanStream(c) = Spent(u, ended)
<1> DEFINE lines == StreamLines(a, ended)
<1>0. u.input \in Nat /\ u.creation \in Nat /\ u.read \in Nat /\ u.output \in Nat /\ u.cached \in Nat
  BY DEF Usage
<1>1. ASSUME NEW L, lines \in Seq(L) PROVE ScanStream(c) = ScanLines(NothingFound, lines)
  <2>1. ScansAs(c, lines)
    <3> HIDE DEF lines
    <3>1. c \in Cuttings(HalvesOf(lines))
      BY DEF lines
    <3> QED BY ONLY <1>1, <3>1, StreamScanned
  <2> QED BY <2>1 DEF ScansAs
<1>2. CASE wire = "codex" /\ ended = "completed"
  <2> DEFINE l == Line("response.completed", ItemsUsage(u))
  <2>1. lines = <<l>>
    BY <1>2 DEF StreamLines
  <2>2. LineUsage(l) = [in |-> u.input, out |-> u.output]
    <3>1. l = [kind |-> "response.completed", usage |-> [input |-> u.input, creation |-> 0, read |-> 0, output |-> u.output]]
      BY DEF Line, ItemsUsage
    <3>2. u.input + 0 + 0 = u.input
      BY <1>0
    <3> QED BY <3>1, <3>2 DEF LineUsage, InputTotal
  <2> HIDE DEF l
  <2>3. lines \in Seq({l})
    BY <2>1
  <2> QED BY <1>1, <1>2, <2>1, <2>2, <2>3, OneLineFound DEF Spent
<1>5. CASE wire = "codex" /\ ended = "incomplete"
  <2> DEFINE l == Line("response.incomplete", ItemsUsage(u))
  <2>1. lines = <<l>>
    BY <1>5 DEF StreamLines
  <2>2. LineUsage(l) = [in |-> 0, out |-> 0]
    BY DEF Line, LineUsage
  <2> HIDE DEF l
  <2>3. lines \in Seq({l})
    BY <2>1
  <2> QED BY <1>1, <1>5, <2>1, <2>2, <2>3, OneLineFound DEF Spent, NothingFound
<1>3. CASE wire = "native"
  <2> DEFINE l == Line("message_start", [u EXCEPT !.output = 1])
             m == Line("message_delta", [input |-> 0, creation |-> 0, read |-> 0, output |-> u.output])
  <2>1. lines = <<l, m>>
    BY <1>3 DEF StreamLines
  <2>2. LineUsage(l) = [in |-> InputTotal(u), out |-> 0]
    <3>1. /\ [u EXCEPT !.output = 1].input = u.input /\ [u EXCEPT !.output = 1].creation = u.creation
          /\ [u EXCEPT !.output = 1].read = u.read
      BY DEF Usage
    <3> QED BY <3>1 DEF Line, LineUsage, InputTotal
  <2>3. LineUsage(m) = [in |-> 0, out |-> u.output]
    BY DEF Line, LineUsage, InputTotal
  <2> HIDE DEF l, m
  <2>4. lines \in Seq({l, m})
    BY <2>1
  <2>5. ScanStream(c) = ScanLines(NothingFound, <<l, m>>)
    BY <1>1, <2>1, <2>4
  <2> QED BY <1>0, <1>3, <2>2, <2>3, <2>5, TwoLinesFound DEF Spent
<1>4. CASE wire # "codex" /\ wire # "native"
  <2> DEFINE none == SplitUsage([input |-> 0, cached |-> 0, output |-> 0])
             l == Line("message_start", none)
             m == Line("message_delta", SplitUsage(u))
  <2>1. lines = <<l, m>>
    BY <1>4 DEF StreamLines
  <2>2. LineUsage(l) = [in |-> 0, out |-> 0]
    <3>1. none = [input |-> 0, creation |-> 0, read |-> 0, output |-> 0]
      BY DEF SplitUsage
    <3> HIDE DEF none
    <3> QED BY <3>1 DEF Line, LineUsage, InputTotal
  <2>3. LineUsage(m) = [in |-> u.input, out |-> u.output]
    BY SplitTotal DEF Line, LineUsage
  <2> HIDE DEF l, m
  <2>4. lines \in Seq({l, m})
    BY <2>1
  <2>5. ScanStream(c) = ScanLines(NothingFound, <<l, m>>)
    BY <1>1, <2>1, <2>4
  <2> QED BY <1>0, <1>4, <2>2, <2>3, <2>5, TwoLinesFound DEF Spent
<1> QED BY <1>2, <1>3, <1>4, <1>5

-----------------------------------------------------------------------------
\* The events of a streamed chat answer: only the last one closes it.

BlockTypes == {"block_start", "delta", "block_stop"}

LEMMA OwnElements ==
  ASSUME NEW S, NEW s \in Seq(S)
  PROVE  s \in Seq(ToSet(s))
<1>1. Len(s) \in Nat /\ s \in [1..Len(s) -> ToSet(s)]
  BY ToSetFacts
<1> QED BY <1>1

LEMMA BlockEventsAre ==
  ASSUME NEW k \in {"text", "thinking", "call", "bare_call"}, NEW t, NEW p
  PROVE  /\ BlockEvents(ClaudeBlock(k, t, p)) \in Seq(ToSet(BlockEvents(ClaudeBlock(k, t, p))))
         /\ \A e \in ToSet(BlockEvents(ClaudeBlock(k, t, p))) : e.type \in BlockTypes
<1> DEFINE b == ClaudeBlock(k, t, p)
           start == IF b.type = "tool_use" THEN [type |-> "block_start", block |-> b.type, id |-> b.id]
                    ELSE [type |-> "block_start", block |-> b.type]
           text == IF b.type # "tool_use" THEN b.text ELSE IF b.input = "empty" THEN <<>> ELSE Json(b.input)
           mid == [j \in DOMAIN text |-> [type |-> "delta", block |-> b.type, text |-> <<text[j]>>]]
           stop == [type |-> "block_stop"]
           S == {start, stop} \union {mid[j] : j \in DOMAIN text}
<1>1. \E n \in Nat : DOMAIN text = 1..n
  <2>1. CASE k = "text"
    <3>1. text = Words(t, p)
      <4>1. b = [type |-> "text", text |-> Words(t, p)]
        BY <2>1 DEF ClaudeBlock, Text
      <4> HIDE DEF b
      <4> QED BY <4>1
    <3>2. DOMAIN Words(t, p) = 1..2
      BY DEF Words
    <3> HIDE DEF text
    <3> QED BY <3>1, <3>2
  <2>2. CASE k = "thinking"
    <3>1. text = Words(t, p)
      <4>1. b = [type |-> "thinking", text |-> Words(t, p)]
        BY <2>2 DEF ClaudeBlock
      <4> HIDE DEF b
      <4> QED BY <4>1
    <3>2. DOMAIN Words(t, p) = 1..2
      BY DEF Words
    <3> HIDE DEF text
    <3> QED BY <3>1, <3>2
  <2>3. CASE k = "call"
    <3>1. text = Json("x")
      BY <2>3 DEF ClaudeBlock, ToolUse
    <3>2. DOMAIN Json("x") = 1..2
      BY DEF Json
    <3> HIDE DEF text
    <3> QED BY <3>1, <3>2
  <2>4. CASE k = "bare_call"
    <3>1. text = <<>>
      BY <2>4 DEF ClaudeBlock, ToolUse
    <3>2. DOMAIN <<>> = 1..0
      OBVIOUS
    <3> HIDE DEF text
    <3> QED BY <3>1, <3>2
  <2> QED BY <2>1, <2>2, <2>3, <2>4
<1>2. PICK n \in Nat : DOMAIN text = 1..n
  BY <1>1
<1>3. BlockEvents(b) = <<start>> \o mid \o <<stop>>
  BY Zenon DEF BlockEvents
<1>4. start.type = "block_start" /\ stop.type = "block_stop"
  <2> HIDE DEF b
  <2> QED OBVIOUS
<1>5. \A j \in 1..n : mid[j].type = "delta"
  BY <1>2
<1> HIDE DEF text, start, stop, b
<1>6. mid \in Seq(S) /\ <<start>> \in Seq(S) /\ <<stop>> \in Seq(S)
  <2>1. mid \in [1..n -> S] /\ start \in S /\ stop \in S
    BY <1>2
  <2> HIDE DEF mid, S
  <2> QED BY <2>1
<1>7. \A x \in S : x.type \in BlockTypes
  BY <1>2, <1>4, <1>5 DEF BlockTypes
<1> HIDE DEF mid, S
<1>8. BlockEvents(b) \in Seq(S)
  BY <1>3, <1>6
<1>9. ToSet(BlockEvents(b)) \subseteq S
  BY <1>8, ToSetFacts
<1> QED BY <1>7, <1>8, <1>9, OwnElements DEF b

\* s is what is left of a stream that ends with the model's usage u.
Closes(s, u) ==
  /\ \E S : s \in Seq(S)
  /\ s # <<>> => /\ s[Len(s)].type = "message_delta" /\ s[Len(s)].usage = u
                /\ \A k \in 1..(Len(s) - 1) :
                     /\ s[k].type \in BlockTypes \union {"message_start"}
                     /\ s[k].type = "message_start" => s[k].usage = u

\* a is an answer of turn t, with blocks of these kinds.
HasShape(a, shape, t) == a.content = [k \in DOMAIN shape |-> ClaudeBlock(shape[k], t, k)]

LEMMA EventsClose ==
  ASSUME NEW u, NEW shape \in Seq({"text", "thinking", "call", "bare_call"}), NEW a, a.usage = u, NEW t,
         HasShape(a, shape, t)
  PROVE  Closes(EventsOf(a), u) /\ EventsOf(a) # <<>> /\ EventsOf(a)[1].type = "message_start"
<1> DEFINE first == [type |-> "message_start", usage |-> a.usage]
           last == [type |-> "message_delta", usage |-> a.usage,
                    stop |-> IF OfType(a.content, "tool_use") # <<>> THEN "tool_use" ELSE "end_turn"]
           parts == [k \in DOMAIN a.content |-> BlockEvents(a.content[k])]
           mid == FlattenSeq(parts)
           n == Len(shape)
           T == UNION {ToSet(parts[k]) : k \in 1..n}
<1>1. EventsOf(a) = <<first>> \o mid \o <<last>>
  BY Zenon DEF EventsOf
<1>2. first.type = "message_start" /\ first.usage = u /\ last.type = "message_delta" /\ last.usage = u
  OBVIOUS
<1>3. /\ n \in Nat /\ DOMAIN a.content = 1..n
      /\ \A k \in 1..n : shape[k] \in {"text", "thinking", "call", "bare_call"}
                         /\ a.content[k] = ClaudeBlock(shape[k], t, k)
  BY DEF HasShape
<1>4. /\ parts \in Seq(Seq(T)) /\ Len(parts) = n
      /\ \A k \in 1..n : \A x \in ToSet(parts[k]) : x.type \in BlockTypes
  <2>1. \A k \in 1..n : /\ parts[k] \in Seq(ToSet(parts[k]))
                        /\ \A x \in ToSet(parts[k]) : x.type \in BlockTypes
    BY <1>3, BlockEventsAre
  <2>2. DOMAIN parts = 1..n /\ parts = [k \in 1..n |-> parts[k]]
    BY <1>3
  <2> HIDE DEF parts
  <2>3. \A k \in 1..n : parts[k] \in Seq(T)
    <3> TAKE k \in 1..n
    <3>1. parts[k] \in Seq(ToSet(parts[k])) /\ ToSet(parts[k]) \subseteq T
      BY <2>1
    <3> HIDE DEF T
    <3> QED BY <3>1
  <2> HIDE DEF T
  <2>4. parts \in [1..n -> Seq(T)]
    BY <2>2, <2>3
  <2> QED BY <1>3, <2>1, <2>4
<1> HIDE DEF parts, T
<1>5. mid \in Seq(T) /\ \A x \in ToSet(mid) : x.type \in BlockTypes
  <2>1. mid \in Seq(T) /\ \A x : x \in ToSet(mid) <=> \E k \in 1..Len(parts) : x \in ToSet(parts[k])
    BY <1>4, FlattenElements
  <2> QED BY <1>4, <2>1
<1> HIDE DEF mid, first, last, n
<1> DEFINE S == T \union {first, last}
           s == <<first>> \o mid \o <<last>>
           m == Len(mid)
<1>6. m \in Nat /\ mid \in Seq(S) /\ <<first>> \in Seq(S) /\ <<last>> \in Seq(S)
  BY <1>5
<1>7. \A k \in 1..m : mid[k].type \in BlockTypes
  BY <1>5, ToSetFacts
<1>8. /\ s \in Seq(S) /\ Len(s) = m + 2 /\ s[1] = first /\ s[m + 2] = last
      /\ \A k \in 1..m : s[k + 1] = mid[k]
  <2> HIDE DEF S
  <2> QED BY <1>6
<1> HIDE DEF s, S, m
<1>9. \A k \in 1..(m + 1) : k = 1 \/ (k - 1 \in 1..m /\ (k - 1) + 1 = k)
  BY <1>6
<1>10. ASSUME NEW k \in 1..(Len(s) - 1)
       PROVE  /\ s[k].type \in BlockTypes \union {"message_start"}
              /\ s[k].type = "message_start" => s[k].usage = u
  <2>1. k \in 1..(m + 1)
    BY <1>6, <1>8
  <2>2. CASE k = 1
    BY <1>2, <1>8, <2>2
  <2>3. CASE k - 1 \in 1..m /\ (k - 1) + 1 = k
    <3>1. s[k] = mid[k - 1] /\ mid[k - 1].type \in BlockTypes
      BY <1>7, <1>8, <2>3
    <3> QED BY <3>1 DEF BlockTypes
  <2> QED BY <1>9, <2>1, <2>2, <2>3
<1>11. Closes(s, u)
  BY <1>2, <1>6, <1>8, <1>10 DEF Closes
<1>12. s # <<>>
  BY <1>6, <1>8
<1> QED BY <1>1, <1>2, <1>8, <1>11, <1>12 DEF s
-----------------------------------------------------------------------------
\* The chunks of an event that does not close the answer.

LEMMA ChunksBefore ==
  ASSUME NEW e, NEW n, e.type \in BlockTypes \union {"message_start"}
  PROVE  \/ Chunks(e, n) = <<>>
         \/ \E x : Chunks(e, n) = <<x>> /\ x.kind # "usage"
<1>1. CASE e.type = "message_start"
  <2>1. Chunks(e, n) = <<[kind |-> "role"]>>
    BY <1>1 DEF Chunks
  <2>2. [kind |-> "role"].kind # "usage"
    OBVIOUS
  <2> QED BY <2>1, <2>2
<1>2. CASE e.type = "block_start" /\ e.block = "tool_use"
  <2> DEFINE x == [kind |-> "call", index |-> 0, id |-> e.id, arguments |-> <<>>]
  <2>1. Chunks(e, n) = <<x>>
    BY <1>2 DEF Chunks
  <2>2. x.kind # "usage"
    OBVIOUS
  <2> HIDE DEF x
  <2> QED BY <2>1, <2>2
<1>3. CASE e.type = "delta" /\ e.block = "text"
  <2> DEFINE x == [kind |-> "content", text |-> e.text]
  <2>1. Chunks(e, n) = <<x>>
    BY <1>3 DEF Chunks
  <2>2. x.kind # "usage"
    OBVIOUS
  <2> HIDE DEF x
  <2> QED BY <2>1, <2>2
<1>4. CASE e.type = "delta" /\ e.block = "tool_use"
  <2> DEFINE x == [kind |-> "arguments", index |-> 0, arguments |-> e.text]
  <2>1. Chunks(e, n) = <<x>>
    BY <1>4 DEF Chunks
  <2>2. x.kind # "usage"
    OBVIOUS
  <2> HIDE DEF x
  <2> QED BY <2>1, <2>2
<1>5. CASE e.type = "delta" /\ e.block = "thinking"
  <2> DEFINE x == [kind |-> "reasoning", text |-> e.text]
  <2>1. Chunks(e, n) = <<x>>
    BY <1>5 DEF Chunks
  <2>2. x.kind # "usage"
    OBVIOUS
  <2> HIDE DEF x
  <2> QED BY <2>1, <2>2
<1>6. CASE \/ e.type = "block_stop"
           \/ e.type = "block_start" /\ e.block # "tool_use"
           \/ e.type = "delta" /\ e.block \notin {"text", "tool_use", "thinking"}
  BY <1>6 DEF Chunks
<1> QED BY <1>1, <1>2, <1>3, <1>4, <1>5, <1>6 DEF BlockTypes

-----------------------------------------------------------------------------
\* Every answer of the model is recorded with what it tells of its usage.

NoUsageIn(s) == \A k \in 1..Len(s) : s[k].kind # "usage"
UsageChunk(u) == [kind |-> "usage", usage |-> [prompt |-> u.input, completion |-> u.output]]

\* While a chat answer is streamed, what is left of its events ends with its usage, the
\* input tokens are known from the first event on, and the client gets one usage chunk,
\* after the last event.
StreamInv ==
  pc = "streaming" =>
    /\ wire = "chat"
    /\ \E u \in Usages :
         /\ answer.usage = u
         /\ Closes(events, u)
         /\ \E S : chunks \in Seq(S)
         /\ IF events # <<>>
            THEN /\ tokens = u.input \/ events[1].type = "message_start"
                 /\ NoUsageIn(chunks)
            ELSE \E S : \E s \in Seq(S) : chunks = Append(s, UsageChunk(u)) /\ NoUsageIn(s)

UsageInv == wire \in Wires /\ UsageRecorded /\ StreamInv

LEMMA RecordedStays ==
  ASSUME UsageRecorded, wire' = wire, used' = used, recorded' = recorded
  PROVE  UsageRecorded'
BY DEF UsageRecorded

LEMMA ToldRecords ==
  ASSUME UsageInv, NEW u \in Usage, NEW a, a.usage = u, NEW ms, NEW ended, NEW found,
         found = Spent(u, ended), Told(a, ms, found), Counted(a, ended)
  PROVE  UsageInv'
<1>1. /\ wire' = wire /\ pc' = "client" /\ recorded' = found
      /\ wire \in {"chat", "native", "responses", "codex"}
  BY WiresAssumption DEF Told, UsageInv
<1>2. /\ u.input \in Nat /\ u.creation \in Nat /\ u.read \in Nat /\ u.output \in Nat
      /\ InputTotal(u) = u.input + u.creation + u.read
  BY DEF Usage, InputTotal
<1>3. /\ used'.in = IF wire \in {"chat", "native"} THEN InputTotal(u) ELSE u.input
      /\ used'.out = u.output /\ used'.cached = u.creation + u.read /\ used'.ended = ended
  BY DEF Counted
<1>4. UsageRecorded'
  <2>1. CASE wire = "codex" /\ ended = "incomplete"
    <3>1. recorded'.in = 0 /\ recorded'.out = 0
      BY <1>1, <2>1 DEF Spent, NothingFound
    <3> QED BY <1>1, <1>2, <1>3, <2>1, <3>1 DEF UsageRecorded
  <2>2. CASE ~(wire = "codex" /\ ended = "incomplete")
    <3>1. recorded'.out = u.output /\ recorded'.in = IF wire = "native" THEN InputTotal(u) ELSE u.input
      BY <1>1, <2>2 DEF Spent
    <3> QED BY <1>1, <1>2, <1>3, <2>2, <3>1 DEF UsageRecorded
  <2> QED BY <2>1, <2>2
<1>5. wire' \in Wires
  BY <1>1 DEF UsageInv
<1> QED BY <1>1, <1>4, <1>5 DEF UsageInv, StreamInv

LEMMA WholeRecords ==
  ASSUME UsageInv, AnswerWhole
  PROVE  UsageInv'
<1>1. PICK shape \in Shapes[wire], u \in Usages :
        Whole(AnswerOf(shape, u)) /\ Counted(AnswerOf(shape, u), "whole")
  BY DEF AnswerWhole
<1> DEFINE a == AnswerOf(shape, u)
<1>2. a.usage = u
  BY AnswersUsage
<1>3. /\ u \in Usage
      /\ u.input \in Nat /\ u.creation \in Nat /\ u.read \in Nat /\ u.output \in Nat /\ u.cached \in Nat
  BY UsagesAssumption DEF Usage
<1>4. Whole(a) /\ Counted(a, "whole")
  BY <1>1
<1> HIDE DEF a
<1>5. CASE wire = "chat"
  <2> DEFINE r == RenderChat(a)
  <2>1. r.usage = [prompt |-> u.input, completion |-> u.output]
    BY <1>2 DEF RenderChat
  <2>2. Told(a, <<r.message>>, JsonUsage(ChatUsage(r.usage)))
    BY <1>4, <1>5 DEF Whole
  <2>3. JsonUsage(ChatUsage(r.usage)) = Spent(u, "whole")
    <3> HIDE DEF r
    <3>1. r.usage.prompt = u.input /\ r.usage.completion = u.output
      BY <2>1
    <3>2. ChatUsage(r.usage) = [input |-> u.input, creation |-> 0, read |-> 0, output |-> u.output]
      BY <3>1 DEF ChatUsage
    <3>3. u.input + 0 + 0 = u.input
      BY <1>3
    <3> QED BY <1>5, <3>2, <3>3 DEF JsonUsage, InputTotal, Spent
  <2> HIDE DEF r
  <2> QED BY <1>2, <1>3, <1>4, <2>2, <2>3, ToldRecords
<1>6. CASE wire = "native"
  <2>1. \E ms : Told(a, ms, JsonUsage(a.usage))
    BY <1>4, <1>6 DEF Whole
  <2>2. JsonUsage(a.usage) = Spent(u, "whole")
    BY <1>2, <1>6 DEF JsonUsage, Spent
  <2> QED BY <1>2, <1>3, <1>4, <2>1, <2>2, ToldRecords
<1>7. CASE wire = "responses"
  <2>1. \E ms : Told(a, ms, JsonUsage(RenderMessages(a).usage))
    BY <1>4, <1>7 DEF Whole
  <2>2. RenderMessages(a).usage = SplitUsage(u)
    BY <1>2 DEF RenderMessages
  <2>3. JsonUsage(SplitUsage(u)) = Spent(u, "whole")
    BY <1>3, <1>7, SplitTotal DEF JsonUsage, Spent
  <2> QED BY <1>2, <1>3, <1>4, <2>1, <2>2, <2>3, ToldRecords
<1>8. CASE wire = "codex"
  <2>1. \E ms : Told(a, ms, JsonUsage(ItemsUsage(a.usage)))
    BY <1>4, <1>8 DEF Whole
  <2>2. JsonUsage(ItemsUsage(u)) = Spent(u, "whole")
    <3>1. u.input + 0 + 0 = u.input
      BY <1>3
    <3> QED BY <1>8, <3>1 DEF JsonUsage, InputTotal, ItemsUsage, Spent
  <2> QED BY <1>2, <1>3, <1>4, <2>1, <2>2, ToldRecords
<1>9. wire \in {"chat", "native", "responses", "codex"}
  BY WiresAssumption DEF UsageInv
<1> QED BY <1>5, <1>6, <1>7, <1>8, <1>9

LEMMA StreamedRecords ==
  ASSUME UsageInv, AnswerStreamed
  PROVE  UsageInv'
<1>1. PICK shape \in Shapes[wire], u \in Usages, ended \in {"completed", "incomplete"} :
        /\ Counted(AnswerOf(shape, u), ended)
        /\ \E c \in Cuttings(HalvesOf(StreamLines(AnswerOf(shape, u), ended))) : \E ms :
             Told(AnswerOf(shape, u), ms, ScanStream(c))
  BY DEF AnswerStreamed
<1> DEFINE a == AnswerOf(shape, u)
<1>2. PICK c \in Cuttings(HalvesOf(StreamLines(a, ended))) : \E ms : Told(a, ms, ScanStream(c))
  BY <1>1
<1>3. a.usage = u /\ u \in Usage /\ wire # "chat"
  BY AnswersUsage, UsagesAssumption DEF AnswerStreamed
<1>4. Counted(a, ended)
  BY <1>1
<1> HIDE DEF a
<1>5. ScanStream(c) = Spent(u, ended)
  BY ONLY <1>2, <1>3, StreamedUsage
<1> QED BY <1>2, <1>3, <1>4, <1>5, ToldRecords

LEMMA OpenRecords ==
  ASSUME UsageInv, OpenStream
  PROVE  UsageInv'
<1>1. PICK shape \in Shapes[wire], u \in Usages : answer' = AnswerOf(shape, u) /\ events' = EventsOf(answer')
  BY DEF OpenStream
<1>2. /\ wire = "chat" /\ wire' = wire /\ chunks' = <<>> /\ wire' \in Wires
      /\ UsageRecorded'
  BY RecordedStays DEF OpenStream, UsageInv, talk
<1>3. shape \in Seq({"text", "thinking", "call", "bare_call"})
  <2>1. BlockKinds("chat") = {"text", "thinking", "call", "bare_call"}
    BY DEF BlockKinds
  <2>2. Shapes["chat"] \subseteq Seq(BlockKinds("chat"))
    BY <1>2, ShapesAssumption DEF UsageInv
  <2> QED BY <1>2, <2>1, <2>2
<1> DEFINE a == AnswerOf(shape, u)
<1>4. a.usage = u
  BY AnswersUsage
<1>5. HasShape(a, shape, turn)
  BY <1>2 DEF AnswerOf, HasShape
<1>6. answer' = a /\ events' = EventsOf(a)
  BY <1>1
<1> HIDE DEF a
<1>7. Closes(EventsOf(a), u) /\ EventsOf(a) # <<>> /\ EventsOf(a)[1].type = "message_start"
  BY ONLY <1>3, <1>4, <1>5, EventsClose
<1>8. \E S : chunks' \in Seq(S)
  BY <1>2, EmptyFacts
<1>9. NoUsageIn(chunks')
  BY <1>2 DEF NoUsageIn
<1> QED BY <1>2, <1>4, <1>6, <1>7, <1>8, <1>9 DEF UsageInv, StreamInv

LEMMA PassRecords ==
  ASSUME UsageInv, Pass
  PROVE  UsageInv'
<1> DEFINE e == Head(events)
           n == Len(events)
<1>1. /\ pc = "streaming" /\ wire = "chat" /\ events # <<>> /\ UsageRecorded' /\ wire \in Wires
      /\ tokens' = Remembered(e, tokens) /\ chunks' = chunks \o Chunks(e, tokens') /\ events' = Tail(events)
      /\ pc' = pc /\ wire' = wire /\ answer' = answer
  BY RecordedStays DEF Pass, UsageInv, StreamInv, talk
<1>2. PICK u \in Usages : /\ answer.usage = u /\ Closes(events, u)
                          /\ \E S : chunks \in Seq(S)
                          /\ tokens = u.input \/ events[1].type = "message_start"
                          /\ NoUsageIn(chunks)
  BY <1>1 DEF UsageInv, StreamInv
<1>3. PICK E : events \in Seq(E)
  BY <1>2 DEF Closes
<1>4. PICK C : chunks \in Seq(C)
  BY <1>2
<1>5. /\ n \in Nat /\ n >= 1 /\ e = events[1]
      /\ Tail(events) \in Seq(E) /\ Len(Tail(events)) = n - 1
      /\ \A k \in 1..(n - 1) : Tail(events)[k] = events[k + 1]
  BY <1>1, <1>3
<1>6. /\ events[n].type = "message_delta" /\ events[n].usage = u
      /\ \A k \in 1..(n - 1) : /\ events[k].type \in BlockTypes \union {"message_start"}
                               /\ events[k].type = "message_start" => events[k].usage = u
  BY <1>1, <1>2 DEF Closes
<1> HIDE DEF e, n
<1>7. CASE n = 1
  <2>1. e.type = "message_delta" /\ e.usage = u
    BY <1>5, <1>6, <1>7
  <2>2. tokens = u.input
    BY <1>2, <1>5, <2>1
  <2>3. tokens' = u.input
    <3>1. CASE u.input = 0
      BY <1>1, <2>1, <2>2, <3>1 DEF Remembered
    <3>2. CASE u.input # 0
      BY <1>1, <2>1, <3>2 DEF Remembered
    <3> QED BY <3>1, <3>2
  <2> DEFINE f == [kind |-> "finish", finish |-> IF e.stop = "tool_use" THEN "tool_calls" ELSE "stop"]
             g == UsageChunk(u)
             s == chunks \o <<f>>
             S == C \union {f, g}
  <2>4. Chunks(e, tokens') = <<f, g>>
    BY <2>1, <2>3 DEF Chunks, UsageChunk
  <2>5. f.kind # "usage"
    OBVIOUS
  <2> HIDE DEF f, g
  <2>6. chunks \in Seq(S) /\ <<f>> \in Seq(S) /\ f \in S /\ g \in S
    BY <1>4
  <2> HIDE DEF S
  <2>7. /\ s \in Seq(S) /\ Len(s) = Len(chunks) + 1 /\ s[Len(chunks) + 1] = f
        /\ \A k \in 1..Len(chunks) : s[k] = chunks[k]
        /\ Len(chunks) \in Nat
    BY <2>6
  <2>8. chunks' = Append(s, g)
    BY <1>1, <2>4, <2>6
  <2>9. chunks' \in Seq(S)
    BY <2>6, <2>7, <2>8
  <2>10. NoUsageIn(s)
    <3>1. \A k \in 1..Len(chunks) : chunks[k].kind # "usage"
      BY <1>2 DEF NoUsageIn
    <3> HIDE DEF s
    <3>2. \A k \in 1..(Len(chunks) + 1) : s[k].kind # "usage"
      BY <2>5, <2>7, <3>1
    <3> QED BY <2>7, <3>2 DEF NoUsageIn
  <2>11. events' = <<>>
    BY <1>1, <1>5, <1>7
  <2>12. Closes(events', u)
    <3>1. \E T : events' \in Seq(T)
      BY <1>1, <1>5
    <3> QED BY <2>11, <3>1 DEF Closes
  <2> HIDE DEF s
  <2>13. \E T : \E x \in Seq(T) : chunks' = Append(x, UsageChunk(u)) /\ NoUsageIn(x)
    BY <2>7, <2>8, <2>10 DEF g
  <2> QED BY <1>1, <1>2, <2>9, <2>11, <2>12, <2>13 DEF UsageInv, StreamInv
<1>8. CASE n > 1
  <2>1. /\ e.type \in BlockTypes \union {"message_start"}
        /\ e.type = "message_start" => e.usage = u
    BY <1>5, <1>6, <1>8
  <2>2. tokens' = u.input
    <3>1. CASE e.type = "message_start"
      BY <1>1, <2>1, <3>1 DEF Remembered
    <3>2. CASE e.type \in BlockTypes
      <4>1. tokens = u.input /\ e.type # "message_start" /\ e.type # "message_delta"
        BY <1>2, <1>5, <3>2 DEF BlockTypes
      <4> QED BY <1>1, <4>1 DEF Remembered
    <3> QED BY <2>1, <3>1, <3>2
  <2>3. (\E S : chunks' \in Seq(S)) /\ NoUsageIn(chunks')
    <3>1. \/ Chunks(e, tokens') = <<>>
          \/ \E x : Chunks(e, tokens') = <<x>> /\ x.kind # "usage"
      BY <2>1, ChunksBefore
    <3>2. CASE Chunks(e, tokens') = <<>>
      <4>1. chunks' = chunks
        BY <1>1, <1>4, <3>2
      <4> QED BY <1>2, <4>1
    <3>3. CASE \E x : Chunks(e, tokens') = <<x>> /\ x.kind # "usage"
      <4>1. PICK x : Chunks(e, tokens') = <<x>> /\ x.kind # "usage"
        BY <3>3
      <4> DEFINE s == chunks \o <<x>>
      <4>2. chunks \in Seq(C \union {x}) /\ <<x>> \in Seq(C \union {x})
        BY <1>4
      <4>3. /\ s \in Seq(C \union {x}) /\ Len(s) = Len(chunks) + 1 /\ s[Len(chunks) + 1] = x
            /\ \A k \in 1..Len(chunks) : s[k] = chunks[k]
            /\ Len(chunks) \in Nat
        BY <4>2
      <4>4. chunks' = s
        BY <1>1, <4>1
      <4> HIDE DEF s
      <4>5. \A k \in 1..Len(chunks) : chunks[k].kind # "usage"
        BY <1>2 DEF NoUsageIn
      <4>6. \A k \in 1..(Len(chunks) + 1) : s[k].kind # "usage"
        BY <4>1, <4>3, <4>5
      <4>7. NoUsageIn(s)
        BY <4>3, <4>6 DEF NoUsageIn
      <4> QED BY <4>3, <4>4, <4>7
    <3> QED BY <3>1, <3>2, <3>3
  <2>4. events' # <<>> /\ events' \in Seq(E) /\ Len(events') = n - 1
        /\ \A k \in 1..(n - 1) : events'[k] = events[k + 1]
    <3> DEFINE s == Tail(events)
    <3>1. events' = s
      BY <1>1
    <3>2. s \in Seq(E) /\ Len(s) = n - 1 /\ \A k \in 1..(n - 1) : s[k] = events[k + 1]
      BY <1>5
    <3> HIDE DEF s
    <3>3. s # <<>>
      BY <1>5, <1>8, <3>2
    <3> QED BY <3>1, <3>2, <3>3
  <2>5. Closes(events', u)
    <3> DEFINE s == events'
    <3>1. s \in Seq(E) /\ Len(s) = n - 1 /\ \A k \in 1..(n - 1) : s[k] = events[k + 1]
      BY <2>4
    <3> HIDE DEF s
    <3>2. s[n - 1].type = "message_delta" /\ s[n - 1].usage = u
      <4>1. n - 1 \in 1..(n - 1) /\ (n - 1) + 1 = n
        BY <1>5, <1>8
      <4> QED BY <1>6, <3>1, <4>1
    <3>3. \A k \in 1..(n - 2) : /\ s[k].type \in BlockTypes \union {"message_start"}
                                /\ s[k].type = "message_start" => s[k].usage = u
      <4> TAKE k \in 1..(n - 2)
      <4>1. k \in 1..(n - 1) /\ k + 1 \in 1..(n - 1)
        BY <1>5, <1>8
      <4> QED BY <1>6, <3>1, <4>1
    <3>4. Len(s) - 1 = n - 2
      BY <1>5, <3>1
    <3>5. Closes(s, u)
      BY <3>1, <3>2, <3>3, <3>4 DEF Closes
    <3> QED BY <3>5 DEF s
  <2> QED BY <1>1, <1>2, <2>2, <2>3, <2>4, <2>5 DEF UsageInv, StreamInv
<1> QED BY <1>5, <1>7, <1>8

LEMMA EndRecords ==
  ASSUME UsageInv, EndStream
  PROVE  UsageInv'
<1>1. pc = "streaming" /\ events = <<>> /\ wire = "chat"
  BY DEF EndStream, UsageInv, StreamInv
<1>2. PICK u \in Usages : answer.usage = u /\ \E S : \E s \in Seq(S) : chunks = Append(s, UsageChunk(u)) /\ NoUsageIn(s)
  BY <1>1 DEF UsageInv, StreamInv
<1>3. PICK S : \E s \in Seq(S) : chunks = Append(s, UsageChunk(u)) /\ NoUsageIn(s)
  BY <1>2
<1>4. PICK s \in Seq(S) : chunks = Append(s, UsageChunk(u)) /\ NoUsageIn(s)
  BY <1>3
<1> DEFINE g == UsageChunk(u)
           T == S \union {g}
           n == Len(s)
           q == <<n + 1>>
<1>5. g.kind = "usage" /\ g.usage = [prompt |-> u.input, completion |-> u.output]
  BY DEF UsageChunk
<1> HIDE DEF g
<1>6. /\ n \in Nat /\ chunks \in Seq(T) /\ Len(chunks) = n + 1 /\ DOMAIN chunks = 1..(n + 1)
      /\ chunks[n + 1] = g /\ \A k \in 1..n : chunks[k] = s[k]
  <2>1. s \in Seq(T) /\ g \in T /\ chunks = Append(s, g)
    BY <1>4 DEF g
  <2> HIDE DEF T
  <2> QED BY <2>1
<1>7. \A k \in 1..n : chunks[k].kind # "usage"
  BY <1>4, <1>6 DEF NoUsageIn
<1> HIDE DEF n, T
<1>8. q \in Seq(Nat) /\ Len(q) = 1 /\ q[1] = n + 1 /\ ToSet(q) = {n + 1}
  <2>1. ToSet(q) = {n + 1}
    BY DEF ToSet
  <2> QED BY <1>6, <2>1
<1> HIDE DEF q
<1>9. Increasing(q)
  BY <1>8, IncreasingMeans
<1>10. ToSet(q) \subseteq 1..Len(chunks)
  BY <1>6, <1>8
<1>11. {k \in DOMAIN chunks : chunks[k].kind = "usage"} = ToSet(q)
  BY <1>5, <1>6, <1>7, <1>8
<1>12. OfKind("usage")[1] = g
  <2>1. /\ Selected(chunks, ToSet(q)) \in Seq(T)
        /\ Len(Selected(chunks, ToSet(q))) = Len(q)
        /\ \A k \in 1..Len(q) : Selected(chunks, ToSet(q))[k] = chunks[q[k]]
    <3>1. chunks \in Seq(T) /\ q \in Seq(Nat)
      BY <1>6, <1>8
    <3> QED BY ONLY <1>9, <1>10, <3>1, SelectedIs
  <2>2. Selected(chunks, ToSet(q))[1] = g
    BY <1>6, <1>8, <2>1
  <2> QED BY <1>11, <2>2 DEF OfKind
<1> DEFINE l == Line("chunk", ChatUsage(OfKind("usage")[1].usage))
<1>13. PICK c \in Cuttings(HalvesOf(<<l>>)) : Told(answer, <<Assembled>>, ScanStream(c)) /\ Counted(answer, "completed")
  BY DEF EndStream
<1>14. LineUsage(l) = [in |-> u.input, out |-> u.output]
  <2>1. l.kind = "chunk" /\ l.usage = [input |-> u.input, creation |-> 0, read |-> 0, output |-> u.output]
    <3>1. g.usage.prompt = u.input /\ g.usage.completion = u.output
      BY <1>5
    <3> QED BY <1>12, <3>1 DEF Line, ChatUsage
  <2>2. u.input + 0 + 0 = u.input
    BY UsagesAssumption DEF Usage
  <2> HIDE DEF l
  <2> QED BY <2>1, <2>2 DEF LineUsage, InputTotal
<1> HIDE DEF l
<1>15. ScanStream(c) = Spent(u, "completed")
  <2> DEFINE lines == <<l>>
  <2>1. lines \in Seq({l}) /\ c \in Cuttings(HalvesOf(lines))
    BY <1>13
  <2> HIDE DEF lines
  <2>2. ScansAs(c, lines)
    BY ONLY <2>1, StreamScanned
  <2>3. ScanStream(c) = ScanLines(NothingFound, <<l>>)
    BY <2>2 DEF ScansAs, lines
  <2> QED BY <1>1, <1>14, <2>3, OneLineFound DEF Spent
<1>16. u \in Usage
  BY UsagesAssumption
<1> QED BY <1>2, <1>13, <1>15, <1>16, ToldRecords

THEOREM UsageInvariant == Spec => []UsageInv
<1>1. Init => UsageInv
  BY DEF Init, UsageInv, UsageRecorded, NothingFound, StreamInv
<1>2. ASSUME UsageInv, [Next]_vars PROVE UsageInv'
  <2>1. CASE Ask
    <3>1. pc' = "asked" /\ wire' = wire /\ used' = used /\ recorded' = recorded
      BY <2>1 DEF Ask
    <3> QED BY <1>2, <3>1, RecordedStays DEF UsageInv, StreamInv
  <2>2. CASE Refused
    <3>1. pc' \in {"asked", "over"} /\ wire' = wire /\ used' = used /\ recorded' = recorded
      BY <2>2 DEF Refused, Resend, talk
    <3> QED BY <1>2, <3>1, RecordedStays DEF UsageInv, StreamInv
  <2>3. CASE AnswerWhole
    BY <1>2, <2>3, WholeRecords
  <2>4. CASE AnswerStreamed
    BY <1>2, <2>4, StreamedRecords
  <2>5. CASE OpenStream
    BY <1>2, <2>5, OpenRecords
  <2>6. CASE Pass
    BY <1>2, <2>6, PassRecords
  <2>7. CASE BreakOff
    BY <1>2, <2>7, RecordedStays DEF BreakOff, UsageInv, StreamInv, talk
  <2>8. CASE EndStream
    BY <1>2, <2>8, EndRecords
  <2>9. CASE UNCHANGED vars
    BY <1>2, <2>9, RecordedStays DEF vars, talk, stream, UsageInv, StreamInv
  <2> QED BY <1>2, <2>1, <2>2, <2>3, <2>4, <2>5, <2>6, <2>7, <2>8, <2>9 DEF Next
<1> QED BY <1>1, <1>2, PTL DEF Spec

\* What the metrics middleware records of an answer is never more than the model counted
\* for it, and all of it, whole or streamed and wherever the chunks of the stream end, in
\* every turn, but for the cached input of a chat answer and the usage of a Responses
\* stream that ended incomplete.
THEOREM UsageIsRecorded == Spec => []UsageRecorded
<1>1. UsageInv => UsageRecorded
  BY DEF UsageInv, UsageRecorded
<1> QED BY <1>1, UsageInvariant, PTL

-----------------------------------------------------------------------------
\* What a sequence is made of.

\* A sequence whose elements are made into one or none each.
OneOrNone(parts, n) == \A k \in 1..n : parts[k] = <<>> \/ \E x : parts[k] = <<x>>
FlatWith(parts, n) ==
  /\ IsSeq(FlattenSeq(parts))
  /\ \A x : x \in ToSet(FlattenSeq(parts)) <=> \E k \in 1..n : parts[k] = <<x>>

LEMMA FlatElements ==
  ASSUME NEW n \in Nat, NEW P, NEW parts \in [1..n -> P], OneOrNone(parts, n)
  PROVE  FlatWith(parts, n)
<1> DEFINE T == UNION {ToSet(parts[k]) : k \in 1..n}
<1>0. \A k \in 1..n : parts[k] = <<>> \/ \E x : parts[k] = <<x>>
  BY DEF OneOrNone
<1>1. \A x : ToSet(<<x>>) = {x}
  BY DEF ToSet
<1>2. ToSet(<<>>) = {}
  BY DEF ToSet
<1>3. \A k \in 1..n : parts[k] \in Seq(T)
  <2> TAKE k \in 1..n
  <2>1. ToSet(parts[k]) \subseteq T
    OBVIOUS
  <2> HIDE DEF T
  <2>2. CASE parts[k] = <<>>
    BY <2>2
  <2>3. CASE \E x : parts[k] = <<x>>
    <3>1. PICK x : parts[k] = <<x>>
      BY <2>3
    <3>2. x \in T
      BY <1>1, <2>1, <3>1
    <3> QED BY <3>1, <3>2
  <2> QED BY <1>0, <2>2, <2>3
<1> HIDE DEF T
<1>4. parts \in Seq(Seq(T)) /\ Len(parts) = n
  BY <1>3
<1>5. /\ FlattenSeq(parts) \in Seq(T)
      /\ \A x : x \in ToSet(FlattenSeq(parts)) <=> \E k \in 1..Len(parts) : x \in ToSet(parts[k])
  BY <1>4, FlattenElements
<1>6. \A k \in 1..n : \A x : x \in ToSet(parts[k]) <=> parts[k] = <<x>>
  <2> TAKE k \in 1..n
  <2>1. CASE parts[k] = <<>>
    BY <1>2, <2>1
  <2>2. CASE \E x : parts[k] = <<x>>
    <3>1. PICK y : parts[k] = <<y>>
      BY <2>2
    <3> QED BY <1>1, <3>1
  <2> QED BY <1>0, <2>1, <2>2
<1> QED BY <1>4, <1>5, <1>6 DEF FlatWith, IsSeq

-----------------------------------------------------------------------------
\* The items of a codex client, as they come and as they are repaired.

ItemForm(i) ==
  \/ \E type, id, payload, status :
       /\ i = Call(type, id, payload, status)
       /\ type \in CallItems /\ payload.form \in {"text", "object"}
       /\ type = "function_call" => status # "failed"
  \/ \E opaque, summary, shown :
       i = [item |-> "reasoning", opaque |-> opaque, summary |-> summary, shown |-> shown]
  \/ \E role, parts : i = MessageItem(role, parts)
  \/ i.item \notin CallItems \union {"reasoning", "message"}

\* What ItemFits says of an item alone, with a summary in all its reasoning.
Fits(i) ==
  /\ i.item \in CallItems \union OutputItems \union PassedItems \union {"message", "reasoning"}
  /\ i.item \in CallItems => i.payload.form = "text" /\ i.status # "failed"
  /\ i.item = "reasoning" => i.opaque \in {"bedrock", "none"} /\ i.summary.valid
  /\ i.item = "message" => i.role # "developer" /\ \A k \in DOMAIN i.parts : i.parts[k].type # "text"

\* x is what a projection makes of i.
Mends(i, x) ==
  /\ ItemForm(x) /\ Fits(x)
  /\ x.item \in CallItems => x.item = i.item /\ x.id = i.id
  /\ x.item = "reasoning" => i.item = "reasoning" /\ (i.opaque = "none" => x.opaque = "none")

LEMMA ProjectedFits ==
  ASSUME NEW i, ItemForm(i), ~IsDeveloper(i), ProjectItem(i).safe
  PROVE  /\ ProjectItem(i).items = <<>> \/ \E x : ProjectItem(i).items = <<x>> /\ Mends(i, x)
         /\ i.item \in OutputItems => ProjectItem(i).items = <<i>>
<1> USE DEF TextItems, CallItems, OutputItems, PassedItems
<1>1. CASE \E type, id, payload, status :
             /\ i = Call(type, id, payload, status)
             /\ type \in CallItems /\ payload.form \in {"text", "object"}
             /\ type = "function_call" => status # "failed"
  <2>1. PICK type, id, payload, status :
             /\ i = Call(type, id, payload, status)
             /\ type \in CallItems /\ payload.form \in {"text", "object"}
             /\ type = "function_call" => status # "failed"
    BY <1>1
  <2> DEFINE kept == IF type = "custom_tool_call" /\ status \notin StatusesKept THEN "none" ELSE status
             x == Call(type, id, AsText(payload), kept)
  <2>2. i = [item |-> type, id |-> id, payload |-> payload, status |-> status]
    BY <2>1 DEF Call
  <2>3. ProjectItem(i).items = <<x>>
    <3>1. ProjectItem(i) = ProjectCall(i)
      BY <2>1, <2>2 DEF ProjectItem
    <3>2. i.item = type /\ i.payload = payload /\ i.status = status
      BY <2>2
    <3>3. ProjectCall(i) = Becomes(<<[i EXCEPT !.payload = AsText(payload), !.status = kept]>>)
      BY <3>2 DEF ProjectCall
    <3>4. [i EXCEPT !.payload = AsText(payload), !.status = kept] = x
      <4> HIDE DEF kept
      <4>1. [i EXCEPT !.payload = AsText(payload), !.status = kept]
              = [[i EXCEPT !.payload = AsText(payload)] EXCEPT !.status = kept]
        BY Zenon
      <4>2. [i EXCEPT !.payload = AsText(payload)]
              = [item |-> type, id |-> id, payload |-> AsText(payload), status |-> status]
        BY <2>2
      <4>3. [[item |-> type, id |-> id, payload |-> AsText(payload), status |-> status] EXCEPT !.status = kept]
              = [item |-> type, id |-> id, payload |-> AsText(payload), status |-> kept]
        OBVIOUS
      <4> QED BY <4>1, <4>2, <4>3, Zenon DEF Call
    <3> HIDE DEF x
    <3> QED BY <3>1, <3>3, <3>4 DEF Becomes
  <2>4. AsText(payload).form = "text"
    BY <2>1 DEF AsText, Plain
  <2>5. kept # "failed"
    BY <2>1 DEF StatusesKept
  <2> HIDE DEF kept
  <2>6. /\ x.item = type /\ x.id = id /\ x.payload = AsText(payload) /\ x.status = kept
        /\ i.item = type /\ i.id = id
    BY <2>2 DEF Call
  <2>7. ItemForm(x)
    BY <2>1, <2>4, <2>5 DEF ItemForm
  <2> HIDE DEF x
  <2>8. Mends(i, x)
    BY <2>1, <2>4, <2>5, <2>6, <2>7 DEF Mends, Fits
  <2> QED BY <2>1, <2>3, <2>6, <2>8
<1>2. CASE \E opaque, summary, shown :
             i = [item |-> "reasoning", opaque |-> opaque, summary |-> summary, shown |-> shown]
  <2>1. PICK opaque, summary, shown :
             i = [item |-> "reasoning", opaque |-> opaque, summary |-> summary, shown |-> shown]
    BY <1>2
  <2> DEFINE o == IF opaque = "bedrock" THEN opaque ELSE "none"
             empty == [valid |-> TRUE, text |-> <<>>]
             x == [item |-> "reasoning", opaque |-> o, summary |-> summary, shown |-> shown]
             y == [item |-> "reasoning", opaque |-> o, summary |-> empty, shown |-> shown]
  <2>2. ProjectItem(i) = ProjectReasoning(i)
    BY <2>1 DEF ProjectItem
  <2>3. [i EXCEPT !.opaque = IF @ = "bedrock" THEN @ ELSE "none"] = x
    BY <2>1
  <2>4. [x EXCEPT !.summary = empty] = y
    <3> HIDE DEF o, empty
    <3> QED OBVIOUS
  <2>5. x.opaque = o /\ i.summary = summary /\ i.opaque = opaque /\ i.item = "reasoning"
    BY <2>1
  <2>6. ProjectReasoning(i) = IF summary.valid THEN Becomes(<<x>>)
                              ELSE IF o = "bedrock" THEN Becomes(<<y>>) ELSE Becomes(<<>>)
    <3> HIDE DEF x, y, o
    <3> QED BY <2>3, <2>4, <2>5 DEF ProjectReasoning, empty
  <2>7. o \in {"bedrock", "none"} /\ (opaque = "none" => o = "none")
    OBVIOUS
  <2>8. empty.valid
    OBVIOUS
  <2> HIDE DEF o, empty
  <2>9. summary.valid => Mends(i, x)
    <3>1. ItemForm(x)
      BY DEF ItemForm
    <3> QED BY <2>5, <2>7, <3>1 DEF Mends, Fits
  <2>10. Mends(i, y)
    <3>1. ItemForm(y)
      BY DEF ItemForm
    <3> QED BY <2>5, <2>7, <2>8, <3>1 DEF Mends, Fits
  <2> HIDE DEF x, y
  <2>11. i.item \notin OutputItems
    BY <2>5
  <2> QED BY <2>2, <2>6, <2>9, <2>10, <2>11 DEF Becomes
<1>3. CASE \E role, parts : i = MessageItem(role, parts)
  <2>1. PICK role, parts : i = MessageItem(role, parts)
    BY <1>3
  <2> DEFINE told == [k \in DOMAIN parts |-> IF parts[k].type = "text" THEN InputText(parts[k].text) ELSE parts[k]]
             x == MessageItem(role, told)
  <2>2. i = [item |-> "message", role |-> role, parts |-> parts]
    BY <2>1 DEF MessageItem
  <2>3. ProjectItem(i).items = <<x>>
    <3>1. ProjectItem(i) = ProjectMessage(i)
      BY <2>2 DEF ProjectItem
    <3>2. [i EXCEPT !.parts = told] = x
      BY <2>2 DEF MessageItem
    <3>3. ProjectMessage(i) = Becomes(<<x>>)
      BY <2>2, <3>2 DEF ProjectMessage
    <3> QED BY <3>1, <3>3 DEF Becomes
  <2>4. role # "developer"
    BY <2>2 DEF IsDeveloper
  <2>5. \A k \in DOMAIN told : told[k].type # "text"
    BY DEF InputText
  <2> HIDE DEF told
  <2>6. x.item = "message" /\ x.role = role /\ x.parts = told
    BY DEF MessageItem
  <2>7. ItemForm(x)
    BY DEF ItemForm
  <2> HIDE DEF x
  <2> QED BY <2>2, <2>3, <2>4, <2>5, <2>6, <2>7 DEF Mends, Fits
<1>4. CASE i.item \notin CallItems \union {"reasoning", "message"}
  <2>1. CASE i.item \in TextItems
    <3> DEFINE role == IF i.item = "output_text" THEN "assistant" ELSE "user"
               told == <<InputText(i.text)>>
               x == MessageItem(role, told)
    <3>1. ProjectItem(i).items = <<x>>
      BY <2>1 DEF ProjectItem, ProjectBareText, Becomes
    <3>2. role # "developer"
      OBVIOUS
    <3>3. \A k \in DOMAIN told : told[k].type # "text"
      BY DEF InputText
    <3> HIDE DEF told, role
    <3>4. x.item = "message" /\ x.role = role /\ x.parts = told
      BY DEF MessageItem
    <3>5. ItemForm(x)
      BY DEF ItemForm
    <3> HIDE DEF x
    <3> QED BY <2>1, <3>1, <3>2, <3>3, <3>4, <3>5 DEF Mends, Fits
  <2>2. CASE i.item = "agent_message"
    <3> DEFINE words == Selected(i.parts, {k \in DOMAIN i.parts : i.parts[k].type # "encrypted_content"})
               told == [k \in DOMAIN words |-> InputText(words[k].text)]
               x == MessageItem("user", told)
    <3>1. ProjectItem(i) = ProjectAgentMessage(i)
      BY <2>2 DEF ProjectItem
    <3>2. \/ ProjectAgentMessage(i) = Unmapped(i)
          \/ ProjectAgentMessage(i) = Becomes(<<x>>)
      BY Zenon DEF ProjectAgentMessage
    <3>3. ProjectItem(i).items = <<x>>
      <4> HIDE DEF x
      <4> QED BY <3>1, <3>2 DEF Unmapped, Becomes
    <3>4. \A k \in DOMAIN told : told[k].type # "text"
      BY DEF InputText
    <3> HIDE DEF told
    <3>5. x.item = "message" /\ x.role = "user" /\ x.parts = told
      BY DEF MessageItem
    <3>6. ItemForm(x)
      BY DEF ItemForm
    <3> HIDE DEF x
    <3> QED BY <2>2, <3>3, <3>4, <3>5, <3>6 DEF Mends, Fits
  <2>3. CASE i.item \in OutputItems \union PassedItems
    <3>1. ProjectItem(i).items = <<i>>
      BY <2>3 DEF ProjectItem, Becomes
    <3>2. Mends(i, i)
      BY <2>3 DEF Mends, Fits
    <3> QED BY <3>1, <3>2
  <2>4. CASE i.item \notin TextItems \union {"agent_message"} \union OutputItems \union PassedItems
    <3>1. ProjectItem(i) = Unmapped(i)
      BY <1>4, <2>4 DEF ProjectItem
    <3>2. ~ProjectItem(i).safe
      BY <3>1 DEF Unmapped
    <3> QED BY <3>2
  <2> QED BY <2>1, <2>2, <2>3, <2>4
<1> QED BY <1>1, <1>2, <1>3, <1>4 DEF ItemForm

LEMMA StrippedFits ==
  ASSUME NEW i, ItemForm(i)
  PROVE  \/ StripItem(i) = <<>> /\ i.item = "reasoning"
         \/ \E x : /\ StripItem(i) = <<x>> /\ ItemForm(x)
                   /\ Fits(i) => Fits(x)
                   /\ x.item = "reasoning" => x.opaque = "none"
                   /\ i.item # "reasoning" => x = i
                   /\ x.item = i.item
<1>1. CASE i.item # "reasoning" \/ i.opaque = "none"
  <2>1. StripItem(i) = <<i>>
    BY <1>1 DEF StripItem
  <2> QED BY <1>1, <2>1
<1>2. CASE i.item = "reasoning" /\ i.opaque # "none"
  <2>1. PICK opaque, summary, shown :
             i = [item |-> "reasoning", opaque |-> opaque, summary |-> summary, shown |-> shown]
    <3>1. CASE \E type, id, payload, status : i = Call(type, id, payload, status) /\ type \in CallItems
      <4>1. PICK type, id, payload, status : i = Call(type, id, payload, status) /\ type \in CallItems
        BY <3>1
      <4>2. i.item = type
        BY <4>1 DEF Call
      <4> QED BY <1>2, <4>1, <4>2 DEF CallItems
    <3>2. CASE \E role, parts : i = MessageItem(role, parts)
      <4>1. i.item = "message"
        BY <3>2 DEF MessageItem
      <4> QED BY <1>2, <4>1
    <3> QED BY <1>2, <3>1, <3>2 DEF ItemForm
  <2> DEFINE x == [item |-> "reasoning", opaque |-> "none", summary |-> summary, shown |-> shown]
  <2>2. [i EXCEPT !.opaque = "none"] = x
    BY <2>1
  <2>3. StripItem(i) = <<>> \/ StripItem(i) = <<x>>
    <3> HIDE DEF x
    <3> QED BY <1>2, <2>2 DEF StripItem
  <2>4. ItemForm(x)
    BY DEF ItemForm
  <2>5. x.item = "reasoning" /\ x.opaque = "none" /\ x.summary = i.summary
    BY <2>1
  <2> HIDE DEF x
  <2>6. Fits(i) => Fits(x)
    BY <1>2, <2>5 DEF Fits, CallItems
  <2> QED BY <1>2, <2>3, <2>4, <2>5, <2>6
<1> QED BY <1>1, <1>2

AllForm(ms) == IsSeq(ms) /\ \A i \in ToSet(ms) : ItemForm(i)
Answered(ms) ==
  \A i \in ToSet(ms) : i.item \in CallItems => \E o \in ToSet(ms) : o.item \in OutputItems /\ o.id = i.id
Mended(ms) == (\A i \in ToSet(ms) : Fits(i)) /\ Answered(ms)
Stripped(ms) == \A i \in ToSet(ms) : i.item = "reasoning" => i.opaque = "none"

LEMMA ProjectMends ==
  ASSUME NEW b, {"messages", "system", "tools", "context", "healed"} \subseteq DOMAIN b,
         AllForm(b.messages), Project(b).safe
  PROVE  /\ DOMAIN Project(b).body = DOMAIN b /\ Project(b).body.healed = b.healed
         /\ AllForm(Project(b).body.messages) /\ Mended(Project(b).body.messages)
         /\ Stripped(b.messages) => Stripped(Project(b).body.messages)
<1> DEFINE items == b.messages
           I == {k \in DOMAIN items : items[k].item # "additional_tools" /\ ~Folded(items[k])}
           inside == Selected(items, I)
           made == [k \in DOMAIN inside |-> ProjectItem(inside[k])]
           parts == [k \in DOMAIN made |-> made[k].items]
           flat == FlattenSeq(parts)
           q == Project(b).body
           n == Len(inside)
<1>1. /\ \A k \in DOMAIN made : made[k].safe /\ ~IsDeveloper(inside[k])
      /\ Related(items)
  BY DEF Project
<1>2. DOMAIN q = DOMAIN b /\ q.healed = b.healed /\ q.messages = flat
  <2>1. \E x, y, z : q = [b EXCEPT !.messages = flat, !.system = x, !.tools = y, !.context = z]
    BY DEF Project
  <2>2. PICK x, y, z : q = [b EXCEPT !.messages = flat, !.system = x, !.tools = y, !.context = z]
    BY <2>1
  <2> HIDE DEF flat, q
  <2> QED BY <2>2
<1>3. PICK S : items \in Seq(S)
  BY DEF AllForm, IsSeq
<1>4. DOMAIN items = 1..Len(items) /\ I \in SUBSET (1..Len(items))
  BY <1>3
<1> HIDE DEF I, q, items
<1>5. inside \in Seq(S) /\ ToSet(inside) = {items[k] : k \in I}
  BY <1>3, <1>4, SelectedElements
<1>6. n \in Nat /\ DOMAIN inside = 1..n /\ \A k \in 1..n : inside[k] \in ToSet(inside)
  <2>1. n \in Nat /\ DOMAIN inside = 1..n
    BY <1>5
  <2> QED BY <1>5, <2>1, ToSetFacts
<1> HIDE DEF inside, n
<1>7. DOMAIN made = 1..n /\ \A k \in 1..n : made[k] = ProjectItem(inside[k])
  BY <1>6
<1>8. DOMAIN parts = 1..n /\ \A k \in 1..n : parts[k] = ProjectItem(inside[k]).items
  BY <1>7
<1> HIDE DEF made
<1> DEFINE P == {parts[k] : k \in 1..n}
<1>9. parts \in [1..n -> P]
  <2>1. parts = [k \in 1..n |-> parts[k]]
    BY <1>7
  <2> HIDE DEF parts
  <2> QED BY <2>1
<1> HIDE DEF parts
<1>10. \A k \in 1..n : /\ parts[k] = <<>> \/ \E x : parts[k] = <<x>> /\ Mends(inside[k], x)
                       /\ inside[k].item \in OutputItems => parts[k] = <<inside[k]>>
                       /\ inside[k] \in ToSet(items)
  <2> TAKE k \in 1..n
  <2>1. inside[k] \in ToSet(items)
    BY <1>4, <1>5, <1>6 DEF ToSet
  <2>2. ItemForm(inside[k])
    BY <2>1 DEF AllForm, items
  <2>3. ~IsDeveloper(inside[k]) /\ ProjectItem(inside[k]).safe
    BY <1>1, <1>7
  <2> QED BY <1>8, <2>1, <2>2, <2>3, ProjectedFits
<1>11. /\ IsSeq(flat)
       /\ \A x : x \in ToSet(flat) <=> \E k \in 1..n : parts[k] = <<x>>
  <2>1. n \in Nat /\ OneOrNone(parts, n)
    BY <1>6, <1>10 DEF OneOrNone
  <2> HIDE DEF P
  <2>2. FlatWith(parts, n)
    BY ONLY <1>9, <2>1, FlatElements
  <2> QED BY <2>2 DEF FlatWith
<1> HIDE DEF flat
<1>12. \A x \in ToSet(flat) : \E i \in ToSet(items) : Mends(i, x)
  <2> TAKE x \in ToSet(flat)
  <2>1. PICK k \in 1..n : parts[k] = <<x>>
    BY <1>11
  <2>2. PICK y : parts[k] = <<y>> /\ Mends(inside[k], y)
    <3>1. parts[k] # <<>>
      BY <2>1
    <3>2. parts[k] = <<>> \/ \E y : parts[k] = <<y>> /\ Mends(inside[k], y)
      BY <1>10
    <3> QED BY <3>1, <3>2
  <2>3. x = y
    BY <2>1, <2>2
  <2> QED BY <1>10, <2>2, <2>3
<1>13. AllForm(flat) /\ \A i \in ToSet(flat) : Fits(i)
  BY <1>11, <1>12 DEF AllForm, Mends
<1>14. Answered(flat)
  <2> SUFFICES ASSUME NEW x \in ToSet(flat), x.item \in CallItems
               PROVE  \E o \in ToSet(flat) : o.item \in OutputItems /\ o.id = x.id
    BY DEF Answered
  <2>1. PICK i \in ToSet(items) : i.item \in CallItems /\ i.id = x.id
    BY <1>12 DEF Mends
  <2>2. PICK c \in DOMAIN items : items[c] = i
    BY DEF ToSet
  <2>3. PICK o \in DOMAIN items : items[o].item \in OutputItems /\ items[o].id = x.id
    <3> DEFINE at(kinds, id) == {k \in DOMAIN items : items[k].item \in kinds /\ items[k].id = id}
               ids == {items[k].id : k \in {j \in DOMAIN items : items[j].item \in CallItems \union OutputItems}}
    <3>1. x.id \in ids
      BY <2>1, <2>2
    <3>2. PICK o \in DOMAIN items : at(OutputItems, x.id) = {o}
      BY <1>1, <3>1 DEF Related
    <3> QED BY <3>2
  <2>4. o \in I
    BY <2>3 DEF I, Folded, IsDeveloper, OutputItems
  <2>5. PICK k \in 1..n : inside[k] = items[o]
    <3>1. items[o] \in ToSet(inside)
      BY <1>5, <2>4
    <3> QED BY <1>6, <3>1 DEF ToSet
  <2>6. items[o] \in ToSet(flat)
    BY <1>10, <1>11, <2>3, <2>5
  <2> QED BY <2>3, <2>6
<1>15. Stripped(items) => Stripped(flat)
  BY <1>12 DEF Stripped, Mends
<1> QED BY <1>2, <1>13, <1>14, <1>15 DEF items, q, Mended

LEMMA StripMends ==
  ASSUME NEW b, {"messages", "system", "tools", "context", "healed"} \subseteq DOMAIN b,
         AllForm(b.messages)
  PROVE  /\ DOMAIN StripReasoning(b) = DOMAIN b /\ StripReasoning(b).healed = b.healed
         /\ AllForm(StripReasoning(b).messages) /\ Stripped(StripReasoning(b).messages)
         /\ Mended(b.messages) => Mended(StripReasoning(b).messages)
<1> DEFINE items == b.messages
           n == Len(items)
           parts == [k \in DOMAIN items |-> StripItem(items[k])]
           flat == FlattenSeq(parts)
           q == StripReasoning(b)
<1>1. DOMAIN q = DOMAIN b /\ q.healed = b.healed /\ q.messages = flat
  <2>1. q = [b EXCEPT !.messages = flat]
    BY DEF StripReasoning
  <2> HIDE DEF flat, q
  <2> QED BY <2>1
<1>2. n \in Nat /\ DOMAIN items = 1..n
  <2>1. PICK S : items \in Seq(S)
    BY DEF AllForm, IsSeq
  <2> QED BY <2>1
<1>3. \A k \in 1..n : items[k] \in ToSet(items) /\ ItemForm(items[k])
  <2>1. \A k \in 1..n : items[k] \in ToSet(items)
    BY <1>2 DEF ToSet
  <2> QED BY <2>1 DEF AllForm
<1> HIDE DEF items, n, q
<1>4. DOMAIN parts = 1..n /\ \A k \in 1..n : parts[k] = StripItem(items[k])
  BY <1>2
<1> DEFINE P == {parts[k] : k \in 1..n}
<1>5. parts \in [1..n -> P]
  <2>1. parts = [k \in 1..n |-> parts[k]]
    BY <1>2
  <2> HIDE DEF parts
  <2> QED BY <2>1
<1> HIDE DEF parts
<1>6. \A k \in 1..n : \/ parts[k] = <<>> /\ items[k].item = "reasoning"
                      \/ \E x : /\ parts[k] = <<x>> /\ ItemForm(x)
                                /\ Fits(items[k]) => Fits(x)
                                /\ x.item = "reasoning" => x.opaque = "none"
                                /\ items[k].item # "reasoning" => x = items[k]
                                /\ x.item = items[k].item
  BY <1>3, <1>4, StrippedFits
<1>7. /\ IsSeq(flat)
      /\ \A x : x \in ToSet(flat) <=> \E k \in 1..n : parts[k] = <<x>>
  <2>1. n \in Nat /\ OneOrNone(parts, n)
    BY <1>2, <1>6 DEF OneOrNone
  <2> HIDE DEF P
  <2>2. FlatWith(parts, n)
    BY ONLY <1>5, <2>1, FlatElements
  <2> QED BY <2>2 DEF FlatWith
<1> HIDE DEF flat
<1>8. \A x \in ToSet(flat) : /\ ItemForm(x)
                             /\ x.item = "reasoning" => x.opaque = "none"
                             /\ \E i \in ToSet(items) : /\ Fits(i) => Fits(x)
                                                        /\ i.item # "reasoning" => x = i
                                                        /\ x.item = i.item
  <2> TAKE x \in ToSet(flat)
  <2>1. PICK k \in 1..n : parts[k] = <<x>>
    BY <1>7
  <2>2. PICK y : /\ parts[k] = <<y>> /\ ItemForm(y)
                 /\ Fits(items[k]) => Fits(y)
                 /\ y.item = "reasoning" => y.opaque = "none"
                 /\ items[k].item # "reasoning" => y = items[k]
                 /\ y.item = items[k].item
    <3>1. parts[k] # <<>>
      BY <2>1
    <3> QED BY ONLY <1>6, <3>1
  <2>3. x = y
    BY <2>1, <2>2
  <2> QED BY <1>3, <2>2, <2>3
<1>9. AllForm(flat) /\ Stripped(flat)
  BY <1>7, <1>8 DEF AllForm, Stripped
<1>10. ASSUME Mended(items) PROVE Mended(flat)
  <2>1. \A x \in ToSet(flat) : Fits(x)
    BY <1>8, <1>10 DEF Mended
  <2>2. ASSUME NEW x \in ToSet(flat), x.item \in CallItems
        PROVE  \E o \in ToSet(flat) : o.item \in OutputItems /\ o.id = x.id
    <3>1. x \in ToSet(items)
      BY <1>8, <2>2 DEF CallItems
    <3>2. PICK o \in ToSet(items) : o.item \in OutputItems /\ o.id = x.id
      BY <1>10, <2>2, <3>1 DEF Mended, Answered
    <3>3. PICK k \in 1..n : items[k] = o
      BY <1>2 DEF ToSet
    <3>4. parts[k] = <<o>>
      BY <1>6, <3>2, <3>3 DEF OutputItems
    <3> QED BY <1>7, <3>2, <3>4
  <2> QED BY <2>1, <2>2 DEF Mended, Answered
<1> QED BY <1>1, <1>9, <1>10 DEF items, q

-----------------------------------------------------------------------------
\* A codex client's history has items of these forms.

LEMMA FormsTogether ==
  ASSUME NEW s, NEW t, AllForm(s), AllForm(t)
  PROVE  AllForm(s \o t)
<1>1. PICK S : s \in Seq(S)
  BY DEF AllForm, IsSeq
<1>2. PICK T : t \in Seq(T)
  BY DEF AllForm, IsSeq
<1> DEFINE U == S \union T
<1>3. s \in Seq(U) /\ t \in Seq(U)
  BY <1>1, <1>2
<1> HIDE DEF U
<1>4. s \o t \in Seq(U) /\ ToSet(s \o t) = ToSet(s) \union ToSet(t)
  BY <1>3, ToSetOfConcat
<1> QED BY <1>4 DEF AllForm, IsSeq

LEMMA OneForm ==
  ASSUME NEW i, ItemForm(i)
  PROVE  AllForm(<<i>>)
<1>1. ToSet(<<i>>) = {i}
  BY DEF ToSet
<1>2. <<i>> \in Seq({i})
  OBVIOUS
<1> QED BY <1>1, <1>2 DEF AllForm, IsSeq

LEMMA TwoForms ==
  ASSUME NEW i, NEW j, ItemForm(i), ItemForm(j)
  PROVE  AllForm(<<i, j>>)
<1>1. ToSet(<<i, j>>) = {i, j}
  <2>1. DOMAIN <<i, j>> = {1, 2} /\ <<i, j>>[1] = i /\ <<i, j>>[2] = j
    OBVIOUS
  <2> QED BY <2>1 DEF ToSet
<1>2. <<i, j>> \in Seq({i, j})
  OBVIOUS
<1> QED BY <1>1, <1>2 DEF AllForm, IsSeq

LEMMA MadeForms ==
  ASSUME NEW n \in Nat, NEW P, NEW s \in [1..n -> P], \A k \in 1..n : ItemForm(s[k])
  PROVE  AllForm(s)
<1>1. s \in Seq(P)
  OBVIOUS
<1>2. \A x \in ToSet(s) : ItemForm(x)
  BY DEF ToSet
<1> QED BY <1>1, <1>2 DEF AllForm, IsSeq

LEMMA MessageForm ==
  ASSUME NEW role, NEW parts
  PROVE  ItemForm(MessageItem(role, parts))
BY DEF ItemForm

LEMMA OtherForm ==
  ASSUME NEW i, i.item \notin CallItems \union {"reasoning", "message"}
  PROVE  ItemForm(i)
BY DEF ItemForm

LEMMA TurnForms ==
  ASSUME wire = "codex", AllForm(history), NEW turns \in Turns
  PROVE  AllForm(turns.messages)
<1> USE DEF CallItems
<1>1. PICK c \in CodexTurns : turns = [c EXCEPT !.said = AtomsOf(c.messages)]
  BY DEF Turns
<1> DEFINE ids == OpenCalls
           words == Words(turn, 1)
           hint == MessageItem("developer", <<InputText(Words(turn, 0))>>)
           a1 == <<MessageItem("user", <<[type |-> "text", text |-> words], [type |-> "input_image"]>>)>>
           a2 == <<hint, [item |-> "input_text", text |-> words]>>
           a3 == <<[item |-> "additional_tools", tools |-> Further],
                   [item |-> "agent_message", parts |-> <<InputText(words), [type |-> "encrypted_content"]>>]>>
           a4 == <<[item |-> "local_shell_call"]>>
           results == [k \in DOMAIN ids |->
                        [item |-> "function_call_output", id |-> ids[k], text |-> <<<<"result", turn, k>>>>]]
           a6 == <<MessageItem("user", <<InputText(words)>>)>>
<1>2. PICK items \in {a1, a2, a3, a4, results, a6} : c = Turn(items, DeveloperTexts(items), <<>>)
  BY DEF CodexTurns
<1>3. turns.messages = items
  <2> HIDE DEF a1, a2, a3, a4, results, a6
  <2>1. c = [messages |-> items, system |-> DeveloperTexts(items), said |-> By("user", <<>>)]
    BY <1>2 DEF Turn
  <2> QED BY <1>1, <2>1
<1>4. AllForm(a1)
  BY MessageForm, OneForm
<1>5. AllForm(a2)
  <2> DEFINE x == [item |-> "input_text", text |-> words]
  <2>1. x.item = "input_text"
    OBVIOUS
  <2> HIDE DEF x
  <2>2. ItemForm(x) /\ ItemForm(hint)
    BY <2>1, MessageForm, OtherForm
  <2>3. AllForm(<<hint, x>>)
    <3> HIDE DEF hint
    <3> QED BY <2>2, TwoForms
  <2> QED BY <2>3 DEF x
<1>6. AllForm(a3)
  <2> DEFINE x == [item |-> "additional_tools", tools |-> Further]
             y == [item |-> "agent_message", parts |-> <<InputText(words), [type |-> "encrypted_content"]>>]
  <2>1. x.item = "additional_tools" /\ y.item = "agent_message"
    OBVIOUS
  <2> HIDE DEF x, y
  <2>2. ItemForm(x) /\ ItemForm(y)
    BY <2>1, OtherForm
  <2>3. AllForm(<<x, y>>)
    BY <2>2, TwoForms
  <2> QED BY <2>3 DEF x, y
<1>7. AllForm(a4)
  <2> DEFINE x == [item |-> "local_shell_call"]
  <2>1. x.item = "local_shell_call"
    OBVIOUS
  <2> HIDE DEF x
  <2>2. AllForm(<<x>>)
    BY <2>1, OneForm, OtherForm
  <2> QED BY <2>2 DEF x
<1>8. AllForm(results)
  <2> DEFINE mine == {k \in DOMAIN history : history[k].item \in CallItems /\ history[k].id[1] = turn}
             calls == Selected(history, mine)
             made(k) == [item |-> "function_call_output", id |-> ids[k], text |-> <<<<"result", turn, k>>>>]
             n == Len(calls)
  <2>1. PICK S : history \in Seq(S)
    BY DEF AllForm, IsSeq
  <2>2. mine \in SUBSET (1..Len(history))
    BY <2>1
  <2>3. ids = [k \in DOMAIN calls |-> calls[k].id]
    BY Zenon DEF OpenCalls
  <2> HIDE DEF mine
  <2>4. calls \in Seq(S)
    BY <2>1, <2>2, SelectedElements
  <2> HIDE DEF calls
  <2>5. n \in Nat /\ DOMAIN calls = 1..n
    BY <2>4
  <2> HIDE DEF n
  <2>6. DOMAIN ids = 1..n
    BY <2>3, <2>5
  <2>7. \A k \in 1..n : ItemForm(made(k))
    <3> TAKE k \in 1..n
    <3> HIDE DEF ids
    <3>1. made(k).item = "function_call_output"
      OBVIOUS
    <3> HIDE DEF made
    <3> QED BY <3>1, OtherForm
  <2> HIDE DEF ids
  <2>8. results = [k \in 1..n |-> made(k)]
    BY <2>6
  <2> HIDE DEF results, made
  <2> DEFINE P == {made(k) : k \in 1..n}
  <2>9. results \in [1..n -> P] /\ \A k \in 1..n : results[k] = made(k)
    BY <2>8
  <2>10. \A k \in 1..n : ItemForm(results[k])
    BY <2>7, <2>9
  <2> HIDE DEF P
  <2> QED BY ONLY <2>5, <2>9, <2>10, MadeForms
<1>9. AllForm(a6)
  BY MessageForm, OneForm
<1> HIDE DEF a1, a2, a3, a4, results, a6
<1> QED BY <1>2, <1>3, <1>4, <1>5, <1>6, <1>7, <1>8, <1>9

LEMMA AnswerForms ==
  ASSUME wire = "codex", NEW shape \in Seq(BlockKinds("codex")), NEW u
  PROVE  AllForm(AnswerOf(shape, u).output)
<1> DEFINE n == Len(shape)
           s == AnswerOf(shape, u).output
           P == {s[k] : k \in 1..n}
<1>1. n \in Nat /\ DOMAIN shape = 1..n
      /\ \A k \in 1..n : shape[k] \in {"message", "call", "object_call", "own", "own_alone", "foreign", "id_alone"}
  BY DEF BlockKinds
<1>2. s = [k \in DOMAIN shape |-> CodexItem(shape[k], turn, k)]
  BY DEF AnswerOf
<1> HIDE DEF s, n
<1>3. s \in [1..n -> P] /\ \A k \in 1..n : s[k] = CodexItem(shape[k], turn, k)
  <2>1. s = [k \in 1..n |-> CodexItem(shape[k], turn, k)]
    BY <1>1, <1>2
  <2> QED BY <2>1
<1>4. \A k \in 1..n : ItemForm(s[k])
  <2> TAKE k \in 1..n
  <2>1. CASE shape[k] = "message"
    <3>1. s[k] = MessageItem("assistant", <<OutputText(Words(turn, k))>>)
      BY <1>3, <2>1 DEF CodexItem
    <3> QED BY <3>1, MessageForm
  <2>2. CASE shape[k] = "call"
    <3>1. s[k] = Call("function_call", Id(turn, k), Plain(Json("x")), "completed")
      BY <1>3, <2>2 DEF CodexItem
    <3>2. Plain(Json("x")).form = "text"
      BY DEF Plain
    <3> QED BY <3>1, <3>2 DEF ItemForm, CallItems
  <2>3. CASE shape[k] = "object_call"
    <3>1. s[k] = Call("custom_tool_call", Id(turn, k), [form |-> "object", value |-> "x"], "failed")
      BY <1>3, <2>3 DEF CodexItem
    <3>2. [form |-> "object", value |-> "x"].form = "object"
      OBVIOUS
    <3> QED BY <3>1, <3>2 DEF ItemForm, CallItems
  <2>4. CASE shape[k] \in {"own", "own_alone", "foreign", "id_alone"}
    <3>1. \E opaque, valid, text : s[k] = Reasoning(opaque, valid, text)
      BY <1>3, <2>4 DEF CodexItem
    <3> QED BY <3>1 DEF ItemForm, Reasoning
  <2> QED BY <1>1, <2>1, <2>2, <2>3, <2>4
<1> HIDE DEF P
<1>5. AllForm(s)
  BY ONLY <1>1, <1>3, <1>4, MadeForms
<1> QED BY <1>5 DEF s

-----------------------------------------------------------------------------
\* The limits of a body.

Thinks == [kind : {"unset", "adaptive", "disabled", "enabled"}, budget : Nat]

LEMMA LimitsAre ==
  ASSUME NEW o, NEW t \in Thinks, o.max_tokens \in Nat, o.default_max \in Nat \ {0}, NEW l, l = Limits(o, t)
  PROVE  /\ l.temperature => l.thinking.kind = "unset"
         /\ l.thinking.kind = "enabled" => l.thinking.budget >= MinBudget
         /\ l.thinking.kind = "enabled" /\ o.max_tokens = 0 => l.max_tokens > l.thinking.budget
         /\ o.max_tokens # 0 => l.max_tokens = o.max_tokens
<1> DEFINE c == Clamped(t)
<1>1. t.kind \in {"unset", "adaptive", "disabled", "enabled"} /\ t.budget \in Nat
  BY DEF Thinks
<1>2. c.kind = t.kind /\ c.budget \in Nat /\ (t.kind = "enabled" => c.budget >= MinBudget)
  <2>1. CASE t.kind = "enabled" /\ t.budget < MinBudget
    <3>1. c = [t EXCEPT !.budget = MinBudget]
      BY <2>1 DEF Clamped
    <3>2. c.kind = t.kind /\ c.budget = MinBudget
      BY <3>1 DEF Thinks
    <3> QED BY <1>1, <3>2 DEF MinBudget
  <2>2. CASE ~(t.kind = "enabled" /\ t.budget < MinBudget)
    <3>1. c = t
      BY <2>2 DEF Clamped
    <3> QED BY <1>1, <2>2, <3>1 DEF MinBudget
  <2> QED BY <2>1, <2>2
<1> HIDE DEF c
<1>3. l = [max_tokens |-> IF o.max_tokens # 0 THEN o.max_tokens
                          ELSE IF t.kind = "enabled" THEN c.budget + o.default_max
                          ELSE o.default_max,
           thinking |-> c, temperature |-> t.kind = "unset"]
  BY DEF Limits, c
<1>4. l.thinking = c /\ (l.temperature <=> t.kind = "unset")
      /\ (o.max_tokens = 0 /\ t.kind = "enabled" => l.max_tokens = c.budget + o.default_max)
      /\ (o.max_tokens # 0 => l.max_tokens = o.max_tokens)
  <2> DEFINE m == IF o.max_tokens # 0 THEN o.max_tokens
                  ELSE IF t.kind = "enabled" THEN c.budget + o.default_max
                  ELSE o.default_max
             cold == t.kind = "unset"
  <2>1. l = [max_tokens |-> m, thinking |-> c, temperature |-> cold]
    BY <1>3
  <2>2. /\ o.max_tokens = 0 /\ t.kind = "enabled" => m = c.budget + o.default_max
        /\ o.max_tokens # 0 => m = o.max_tokens
    OBVIOUS
  <2> HIDE DEF m, cold
  <2>3. l.thinking = c /\ l.temperature = cold /\ l.max_tokens = m
    BY <2>1
  <2>4. l.temperature <=> t.kind = "unset"
    BY <2>3, Zenon DEF cold
  <2> QED BY <2>2, <2>3, <2>4
<1>5. c.budget + o.default_max > c.budget
  BY <1>2
<1> QED BY <1>1, <1>2, <1>4, <1>5

LEMMA MapEffortThinks ==
  ASSUME NEW effort, NEW adaptive
  PROVE  MapEffort(effort, adaptive) \in Thinks
<1>1. \A e \in DOMAIN Effort : Effort[e] \in Nat
  BY DEF Effort
<1>2. \A k \in {"unset", "adaptive", "enabled"}, n \in Nat : Thinking(k, n) \in Thinks
  BY DEF Thinking, Thinks
<1>3. CASE effort \in DOMAIN Effort
  <2>1. Effort[effort] \in Nat
    BY <1>1, <1>3
  <2> QED BY <1>2, <1>3, <2>1 DEF MapEffort
<1>4. CASE effort \notin DOMAIN Effort
  BY <1>2, <1>4 DEF MapEffort
<1> QED BY <1>3, <1>4

LEMMA BuiltFits ==
  ASSUME wire \in Wires, wire # "codex", NEW ms, NEW o \in Options, body = Built(ms, o)
  PROVE  LimitsFit
<1>1. o.thinking \in Thinks /\ o.max_tokens \in Nat /\ o.default_max \in Nat \ {0}
  BY OptionsAssumption DEF Thinks
<1>2. CASE wire = "chat"
  <2>1. body = [messages |-> ChatMessages(ms), system |-> ChatSystem(ms), limits |-> ChatLimits(o),
                tool_choice |-> ToolChoice(o.choice, o.tools), tools |-> o.tools, asked |-> o]
    BY <1>2 DEF Built
  <2>2. /\ body.limits = ChatLimits(o) /\ body.asked = o /\ body.tools = o.tools
        /\ body.tool_choice = ToolChoice(o.choice, o.tools)
    BY <2>1
  <2>3. PICK t \in Thinks : ChatLimits(o) = Limits(o, t)
    BY <1>1, MapEffortThinks DEF ChatLimits
  <2> DEFINE l == body.limits
  <2>4. l = Limits(o, t)
    BY <2>2, <2>3
  <2> HIDE DEF l
  <2>5. /\ l.temperature => l.thinking.kind = "unset"
        /\ l.thinking.kind = "enabled" => l.thinking.budget >= MinBudget
        /\ l.thinking.kind = "enabled" /\ o.max_tokens = 0 => l.max_tokens > l.thinking.budget
        /\ o.max_tokens # 0 => l.max_tokens = o.max_tokens
    BY ONLY <1>1, <2>3, <2>4, LimitsAre
  <2>6. body.tools = {} => body.tool_choice = "unset"
    BY <2>2 DEF ToolChoice
  <2> QED BY <2>2, <2>5, <2>6 DEF LimitsFit, l
<1>3. CASE wire = "native"
  <2>1. body = [messages |-> ms, system |-> <<>>, limits |-> Limits(o, o.thinking),
                tool_choice |-> o.choice, tools |-> o.tools, asked |-> o]
    BY <1>3 DEF Built
  <2> DEFINE l == body.limits
  <2>2. l = Limits(o, o.thinking) /\ body.asked = o
    BY <2>1
  <2> HIDE DEF l
  <2>3. /\ l.temperature => l.thinking.kind = "unset"
        /\ l.thinking.kind = "enabled" => l.thinking.budget >= MinBudget
        /\ l.thinking.kind = "enabled" /\ o.max_tokens = 0 => l.max_tokens > l.thinking.budget
        /\ o.max_tokens # 0 => l.max_tokens = o.max_tokens
    BY ONLY <1>1, <2>2, LimitsAre
  <2> QED BY <1>3, <2>2, <2>3 DEF LimitsFit, l
<1>4. CASE wire = "responses"
  <2> DEFINE l == [max_tokens |-> IF o.max_tokens # 0 THEN o.max_tokens ELSE o.default_max,
                   thinking |-> Thinking("unset", 0), temperature |-> TRUE]
  <2>1. body = [messages |-> ResponsesInput(ms), system |-> <<>>, limits |-> l,
                tool_choice |-> ResponsesToolChoice(o.choice, o.tools), tools |-> o.tools, asked |-> o]
    BY <1>4 DEF Built
  <2>2. l.thinking.kind = "unset" /\ (o.max_tokens # 0 => l.max_tokens = o.max_tokens)
    BY DEF Thinking
  <2> HIDE DEF l
  <2>3. /\ body.limits = l /\ body.tools = o.tools /\ body.asked = o
        /\ body.tool_choice = ResponsesToolChoice(o.choice, o.tools)
    BY <2>1
  <2>4. body.tools = {} => body.tool_choice = "unset"
    BY <2>3 DEF ResponsesToolChoice
  <2> QED BY <2>2, <2>3, <2>4 DEF LimitsFit
<1> QED BY <1>2, <1>3, <1>4, WiresAssumption

-----------------------------------------------------------------------------
\* What is sent fits in every turn, and after every repair.

HistoryForm == wire = "codex" => AllForm(history)
CodexSent ==
  /\ {"messages", "system", "tools", "context", "healed"} \subseteq DOMAIN body
  /\ AllForm(body.messages)
  /\ "projected" \in body.healed => Mended(body.messages)
  /\ "stripped" \in body.healed => Stripped(body.messages)
SentForm ==
  pc = "asked" => IF wire = "codex" THEN CodexSent ELSE \E ms : \E o \in Options : body = Built(ms, o)

BodyInv == HistoryForm /\ SentForm

LEMMA AskSends ==
  ASSUME UsageInv, BodyInv, Ask
  PROVE  BodyInv'
<1>1. PICK turns \in Turns : /\ history' = history \o turns.messages
                             /\ \E o \in IF turn = 0 THEN Options ELSE {Bare} : body' = Built(history', o)
  BY DEF Ask
<1>2. PICK o \in Options : body' = Built(history', o)
  <2>1. Bare \in Options
    BY OptionsAssumption DEF Bare
  <2> QED BY <1>1, <2>1
<1>3. wire' = wire
  BY DEF Ask
<1>4. CASE wire = "codex"
  <2>1. AllForm(history')
    BY <1>1, <1>4, TurnForms, FormsTogether DEF BodyInv, HistoryForm
  <2>2. body' = [messages |-> history', system |-> <<>>, tools |-> Standing, context |-> "foreign", healed |-> {}]
    BY <1>2, <1>4 DEF Built
  <2>3. /\ DOMAIN body' = {"messages", "system", "tools", "context", "healed"}
        /\ body'.messages = history' /\ body'.healed = {}
    BY <2>2
  <2>4. CodexSent'
    BY <2>1, <2>3 DEF CodexSent
  <2> QED BY <1>3, <1>4, <2>1, <2>4 DEF BodyInv, HistoryForm, SentForm
<1>5. CASE wire # "codex"
  <2>1. PICK ms : ms = history'
    OBVIOUS
  <2>2. Built(ms, o)' = Built(ms, o)
    BY <1>3 DEF Built
  <2>3. \E m : \E p \in Options : (body = Built(m, p))'
    BY <1>2, <2>1, <2>2
  <2> QED BY <1>3, <1>5, <2>3 DEF BodyInv, HistoryForm, SentForm
<1> QED BY <1>4, <1>5

LEMMA RefusedSends ==
  ASSUME BodyInv, Refused
  PROVE  BodyInv'
<1>1. pc = "asked" /\ wire = "codex" /\ wire' = wire /\ history' = history /\ CodexSent
  BY DEF Refused, BodyInv, SentForm, talk
<1>2. AllForm(history)'
  BY <1>1 DEF BodyInv, HistoryForm
<1>3. CASE pc' = "over"
  BY <1>1, <1>2, <1>3 DEF BodyInv, HistoryForm, SentForm
<1>4. CASE Project(body).safe /\ body' = [Project(body).body EXCEPT !.healed = @ \union {"projected"}]
  <2> DEFINE q == Project(body).body
  <2>1. /\ DOMAIN q = DOMAIN body /\ q.healed = body.healed
        /\ AllForm(q.messages) /\ Mended(q.messages)
        /\ Stripped(body.messages) => Stripped(q.messages)
    BY <1>1, <1>4, ProjectMends DEF CodexSent
  <2> HIDE DEF q
  <2>2. {"messages", "system", "tools", "context", "healed"} \subseteq DOMAIN q
    BY <1>1, <2>1 DEF CodexSent
  <2>3. /\ DOMAIN body' = DOMAIN q /\ body'.messages = q.messages
        /\ body'.healed = q.healed \union {"projected"}
    BY <1>4, <2>2 DEF q
  <2>4. CodexSent'
    BY <1>1, <2>1, <2>2, <2>3 DEF CodexSent
  <2> QED BY <1>1, <1>2, <2>4 DEF BodyInv, HistoryForm, SentForm
<1>5. CASE body' = [StripReasoning(body) EXCEPT !.healed = @ \union {"stripped"}]
  <2> DEFINE q == StripReasoning(body)
  <2>1. /\ DOMAIN q = DOMAIN body /\ q.healed = body.healed
        /\ AllForm(q.messages) /\ Stripped(q.messages)
        /\ Mended(body.messages) => Mended(q.messages)
    BY <1>1, StripMends DEF CodexSent
  <2> HIDE DEF q
  <2>2. {"messages", "system", "tools", "context", "healed"} \subseteq DOMAIN q
    BY <1>1, <2>1 DEF CodexSent
  <2>3. /\ DOMAIN body' = DOMAIN q /\ body'.messages = q.messages
        /\ body'.healed = q.healed \union {"stripped"}
    BY <1>5, <2>2 DEF q
  <2>4. CodexSent'
    BY <1>1, <2>1, <2>2, <2>3 DEF CodexSent
  <2> QED BY <1>1, <1>2, <2>4 DEF BodyInv, HistoryForm, SentForm
<1> QED BY <1>3, <1>4, <1>5 DEF Refused, Resend

LEMMA ToldSends ==
  ASSUME BodyInv, NEW a, NEW ms, NEW found, Told(a, ms, found), wire = "codex" => AllForm(ms)
  PROVE  BodyInv'
<1>1. wire' = wire /\ pc' = "client" /\ history' = history \o ms
  BY DEF Told
<1>2. HistoryForm'
  BY <1>1, FormsTogether DEF BodyInv, HistoryForm
<1> QED BY <1>1, <1>2 DEF BodyInv, SentForm

THEOREM BodyInvariant == Spec => []BodyInv
<1>1. Init => BodyInv
  <2>1. <<>> \in Seq({}) /\ ToSet(<<>>) = {}
    BY DEF ToSet
  <2>2. AllForm(<<>>)
    BY <2>1 DEF AllForm, IsSeq
  <2> QED BY <2>2 DEF Init, BodyInv, HistoryForm, SentForm
<1>2. ASSUME UsageInv, BodyInv, [Next]_vars PROVE BodyInv'
  <2> USE DEF BodyInv, HistoryForm, SentForm
  <2>1. CASE Ask
    BY <1>2, <2>1, AskSends
  <2>2. CASE Refused
    BY <1>2, <2>2, RefusedSends
  <2>0. \A shape \in Shapes[wire] : \A u : wire = "codex" => AllForm(AnswerOf(shape, u).output)
    <3>1. wire \in Wires
      BY <1>2 DEF UsageInv
    <3>2. wire = "codex" => Shapes[wire] \subseteq Seq(BlockKinds("codex"))
      BY <3>1, ShapesAssumption
    <3> QED BY <3>2, AnswerForms
  <2>3. CASE AnswerWhole
    <3>1. PICK shape \in Shapes[wire], u \in Usages : Whole(AnswerOf(shape, u))
      BY <2>3 DEF AnswerWhole
    <3> DEFINE a == AnswerOf(shape, u)
    <3>2. wire = "codex" => AllForm(a.output)
      BY <2>0
    <3>3. Whole(a)
      BY <3>1
    <3> HIDE DEF a
    <3>4. wire \in {"chat", "native", "responses", "codex"}
      BY <1>2, WiresAssumption DEF UsageInv
    <3>5. \E ms, found : Told(a, ms, found) /\ (wire = "codex" => ms = a.output)
      BY <3>3, <3>4 DEF Whole
    <3> QED BY <1>2, <3>2, <3>5, ToldSends
  <2>4. CASE AnswerStreamed
    <3>1. PICK shape \in Shapes[wire], u \in Usages :
            \E ms, found : Told(AnswerOf(shape, u), ms, found) /\ (wire = "codex" => ms = AnswerOf(shape, u).output)
      BY <2>4 DEF AnswerStreamed
    <3>2. wire = "codex" => AllForm(AnswerOf(shape, u).output)
      BY <2>0
    <3> QED BY <1>2, <3>1, <3>2, ToldSends
  <2>5. CASE OpenStream
    BY <1>2, <2>5 DEF OpenStream, talk
  <2>6. CASE Pass
    BY <1>2, <2>6 DEF Pass, talk
  <2>7. CASE BreakOff
    BY <1>2, <2>7 DEF BreakOff, talk
  <2>8. CASE EndStream
    <3>1. wire = "chat"
      BY <1>2, <2>8 DEF EndStream, UsageInv, StreamInv
    <3>2. \E ms, found : Told(answer, ms, found)
      BY <2>8 DEF EndStream
    <3> QED BY <1>2, <3>1, <3>2, ToldSends
  <2>9. CASE UNCHANGED vars
    <3>1. wire' = wire /\ pc' = pc /\ history' = history /\ body' = body
      BY <2>9 DEF vars, talk
    <3>2. \A ms, o : Built(ms, o)' = Built(ms, o)
      BY <3>1 DEF Built
    <3> QED BY <1>2, <3>1, <3>2 DEF CodexSent
  <2> QED BY <1>2, <2>1, <2>2, <2>3, <2>4, <2>5, <2>6, <2>7, <2>8, <2>9 DEF Next
<1> QED BY <1>1, <1>2, UsageInvariant, PTL DEF Spec

\* No request goes to Bedrock with a temperature beside thinking or a budget under the
\* least, none with a limit of the gateway's own within its budget, and no translated one
\* with a tool choice and no tools; a history of items that was refused is free of what
\* it was refused for when it is sent again, and stays so when it is repaired in the
\* other way too.  For any options, and histories of any length.
THEOREM BodiesAreAcceptable == Spec => []BodiesAcceptable
<1>1. UsageInv /\ BodyInv => BodiesAcceptable
  <2> SUFFICES ASSUME UsageInv, BodyInv, pc = "asked"
               PROVE  IF wire = "codex"
                      THEN /\ "projected" \in body.healed =>
                                \A k \in DOMAIN body.messages : ItemFits(body.messages[k])
                           /\ "stripped" \in body.healed =>
                                \A k \in DOMAIN body.messages :
                                  body.messages[k].item = "reasoning" => body.messages[k].opaque = "none"
                      ELSE LimitsFit
    BY DEF BodiesAcceptable
  <2>1. CASE wire = "codex"
    <3>1. CodexSent
      BY <2>1 DEF BodyInv, SentForm
    <3>2. \A k \in DOMAIN body.messages : body.messages[k] \in ToSet(body.messages)
      BY DEF ToSet
    <3>3. ASSUME "projected" \in body.healed, NEW k \in DOMAIN body.messages
          PROVE  ItemFits(body.messages[k])
      <4> DEFINE i == body.messages[k]
      <4>1. Fits(i) /\ Answered(body.messages) /\ i \in ToSet(body.messages)
        BY <3>1, <3>2, <3>3 DEF CodexSent, Mended
      <4>2. i.item \in CallItems =>
              \E j \in DOMAIN body.messages : body.messages[j].item \in OutputItems /\ body.messages[j].id = i.id
        BY <4>1 DEF Answered, ToSet
      <4> HIDE DEF i
      <4>3. ItemFits(i)
        <5>1. CASE i.item = "message"
          BY <4>1, <5>1 DEF Fits, ItemFits, CallItems
        <5>2. CASE i.item \in CallItems
          BY <4>1, <4>2, <5>2 DEF Fits, ItemFits, CallItems
        <5>3. CASE i.item = "reasoning"
          BY <4>1, <5>3 DEF Fits, ItemFits, CallItems
        <5>4. CASE i.item \in OutputItems \union PassedItems
          BY <5>4 DEF ItemFits, CallItems, OutputItems, PassedItems
        <5> QED BY <4>1, <5>1, <5>2, <5>3, <5>4 DEF Fits
      <4> QED BY <4>3 DEF i
    <3>4. "stripped" \in body.healed =>
            \A k \in DOMAIN body.messages :
              body.messages[k].item = "reasoning" => body.messages[k].opaque = "none"
      BY <3>1, <3>2 DEF CodexSent, Stripped
    <3> QED BY <2>1, <3>3, <3>4
  <2>2. CASE wire # "codex"
    BY <2>2, BuiltFits DEF UsageInv, BodyInv, SentForm
  <2> QED BY <2>1, <2>2
<1> QED BY <1>1, UsageInvariant, BodyInvariant, PTL

-----------------------------------------------------------------------------
\* What is said, by whom.

LEMMA ByIs ==
  ASSUME NEW role, NEW s, IsSeq(s)
  PROVE  /\ IsSeq(By(role, s)) /\ Len(By(role, s)) = Len(s)
         /\ \A k \in 1..Len(s) : By(role, s)[k] = [by |-> role, what |-> s[k]]
<1>1. Len(s) \in Nat /\ DOMAIN s = 1..Len(s)
  BY SeqIs
<1> DEFINE b == By(role, s)
<1>2. b = [k \in 1..Len(s) |-> [by |-> role, what |-> s[k]]]
  BY <1>1 DEF By
<1> HIDE DEF b
<1>3. DOMAIN b = 1..Len(s) /\ b = [k \in 1..Len(s) |-> b[k]]
      /\ \A k \in 1..Len(s) : b[k] = [by |-> role, what |-> s[k]]
  BY <1>2
<1>4. IsSeq(b) /\ Len(b) = Len(s)
  BY <1>1, <1>3, MadeSeq
<1> QED BY <1>3, <1>4 DEF b

LEMMA ByConcat ==
  ASSUME NEW role, NEW s, IsSeq(s), NEW t, IsSeq(t)
  PROVE  By(role, s \o t) = By(role, s) \o By(role, t)
<1> DEFINE u == s \o t
           a == By(role, s)
           b == By(role, t)
           c == By(role, u)
<1>1. /\ IsSeq(u) /\ Len(u) = Len(s) + Len(t)
      /\ \A k \in 1..Len(s) : u[k] = s[k]
      /\ \A k \in 1..Len(t) : u[k + Len(s)] = t[k]
  BY SeqConcat
<1>2. Len(s) \in Nat /\ Len(t) \in Nat
  BY SeqIs
<1> HIDE DEF u
<1>3. /\ IsSeq(a) /\ Len(a) = Len(s) /\ IsSeq(b) /\ Len(b) = Len(t) /\ IsSeq(c) /\ Len(c) = Len(u)
      /\ \A k \in 1..Len(s) : a[k] = [by |-> role, what |-> s[k]]
      /\ \A k \in 1..Len(t) : b[k] = [by |-> role, what |-> t[k]]
      /\ \A k \in 1..Len(u) : c[k] = [by |-> role, what |-> u[k]]
  BY <1>1, ByIs
<1> HIDE DEF a, b, c
<1>4. /\ \A k \in 1..Len(s) : k \in 1..Len(u)
      /\ \A k \in 1..Len(t) : k + Len(s) \in 1..Len(u)
  BY <1>1, <1>2
<1>5. /\ \A k \in 1..Len(s) : c[k] = a[k]
      /\ \A k \in 1..Len(t) : c[k + Len(s)] = b[k]
  BY <1>1, <1>3, <1>4
<1>6. Len(c) = Len(a) + Len(b) /\ Len(a) = Len(s) /\ Len(b) = Len(t) /\ IsSeq(a) /\ IsSeq(b) /\ IsSeq(c)
  BY <1>1, <1>3
<1>7. /\ \A k \in 1..Len(a) : c[k] = a[k]
      /\ \A k \in 1..Len(b) : c[k + Len(a)] = b[k]
  BY <1>5, <1>6
<1>8. c = a \o b
  <2>1. IsSeq(a) /\ IsSeq(b) /\ IsSeq(c) /\ Len(c) = Len(a) + Len(b)
    BY <1>6
  <2> QED BY ONLY <1>7, <2>1, SeqJoined
<1> QED BY <1>8 DEF a, b, c, u

LEMMA ByFew ==
  ASSUME NEW role
  PROVE  By(role, <<>>) = <<>> /\ \A x : By(role, <<x>>) = <<[by |-> role, what |-> x]>>
<1>1. By(role, <<>>) = <<>>
  BY DEF By
<1>2. ASSUME NEW x PROVE By(role, <<x>>) = <<[by |-> role, what |-> x]>>
  <2> DEFINE y == [by |-> role, what |-> x]
  <2>1. By(role, <<x>>) = [k \in 1..1 |-> y]
    BY DEF By
  <2> HIDE DEF y
  <2>2. [k \in 1..1 |-> y] = <<y>>
    OBVIOUS
  <2> QED BY <2>1, <2>2 DEF y
<1> QED BY <1>1, <1>2

-----------------------------------------------------------------------------
\* What f makes of each element of a sequence, laid end to end.

FlatMap(f, s) == FlattenSeq([k \in DOMAIN s |-> f[s[k]]])
Maps(f, s) == IsSeq(s) /\ \A x \in ToSet(s) : IsSeq(f[x])

LEMMA MadeAlong ==
  ASSUME NEW s, IsSeq(s), NEW a, DOMAIN a = DOMAIN s, a = [k \in DOMAIN s |-> a[k]]
  PROVE  IsSeq(a) /\ Len(a) = Len(s) /\ DOMAIN s = 1..Len(s)
<1>1. Len(s) \in Nat /\ DOMAIN s = 1..Len(s)
  BY SeqIs
<1> QED BY <1>1, MadeSeq

LEMMA FlatMapParts ==
  ASSUME NEW f, NEW s, Maps(f, s), NEW a, a = [k \in DOMAIN s |-> f[s[k]]]
  PROVE  /\ IsSeqs(a) /\ Len(a) = Len(s) /\ DOMAIN s = 1..Len(s)
         /\ \A k \in 1..Len(s) : a[k] = f[s[k]]
         /\ FlatMap(f, s) = FlattenSeq(a) /\ IsSeq(FlatMap(f, s))
<1>1. IsSeq(s) /\ DOMAIN s = 1..Len(s) /\ \A k \in 1..Len(s) : IsSeq(f[s[k]])
  BY SeqIs DEF Maps
<1>2. DOMAIN a = DOMAIN s /\ a = [k \in DOMAIN s |-> a[k]] /\ \A k \in DOMAIN s : a[k] = f[s[k]]
  OBVIOUS
<1>3. IsSeq(a) /\ Len(a) = Len(s)
  BY <1>1, <1>2, MadeAlong
<1>4. IsSeqs(a)
  BY <1>1, <1>2, <1>3, SeqOfSeqs
<1>5. FlatMap(f, s) = FlattenSeq(a)
  BY DEF FlatMap
<1> QED BY <1>1, <1>2, <1>3, <1>4, <1>5, SeqsAre

LEMMA FlatMapConcat ==
  ASSUME NEW f, NEW s, Maps(f, s), NEW t, Maps(f, t)
  PROVE  Maps(f, s \o t) /\ FlatMap(f, s \o t) = FlatMap(f, s) \o FlatMap(f, t)
<1> DEFINE u == s \o t
           a == [k \in DOMAIN s |-> f[s[k]]]
           b == [k \in DOMAIN t |-> f[t[k]]]
           c == [k \in DOMAIN u |-> f[u[k]]]
<1>1. /\ IsSeq(u) /\ Len(u) = Len(s) + Len(t)
      /\ \A k \in 1..Len(s) : u[k] = s[k]
      /\ \A k \in 1..Len(t) : u[k + Len(s)] = t[k]
      /\ ToSet(u) = ToSet(s) \union ToSet(t)
  BY SeqConcat DEF Maps
<1>2. Len(s) \in Nat /\ Len(t) \in Nat
  BY SeqIs DEF Maps
<1>3. Maps(f, u)
  BY <1>1 DEF Maps
<1> HIDE DEF u
<1>4. /\ IsSeqs(a) /\ Len(a) = Len(s) /\ FlatMap(f, s) = FlattenSeq(a) /\ \A k \in 1..Len(s) : a[k] = f[s[k]]
      /\ IsSeqs(b) /\ Len(b) = Len(t) /\ FlatMap(f, t) = FlattenSeq(b) /\ \A k \in 1..Len(t) : b[k] = f[t[k]]
      /\ IsSeqs(c) /\ Len(c) = Len(u) /\ FlatMap(f, u) = FlattenSeq(c) /\ \A k \in 1..Len(u) : c[k] = f[u[k]]
  BY <1>3, FlatMapParts
<1> HIDE DEF a, b, c
<1>5. /\ \A k \in 1..Len(s) : k \in 1..Len(u)
      /\ \A k \in 1..Len(t) : k + Len(s) \in 1..Len(u)
  BY <1>1, <1>2
<1>6. /\ \A k \in 1..Len(s) : c[k] = a[k]
      /\ \A k \in 1..Len(t) : c[k + Len(s)] = b[k]
  BY <1>1, <1>4, <1>5
<1>7. Joins(a, b, c)
  BY <1>1, <1>4, <1>6, SeqsAre DEF Joins
<1>8. FlattenSeq(c) = FlattenSeq(a) \o FlattenSeq(b)
  BY <1>7, FlatJoined
<1> QED BY <1>3, <1>4, <1>8 DEF u

LEMMA FlatMapEmpty ==
  ASSUME NEW f
  PROVE  Maps(f, <<>>) /\ FlatMap(f, <<>>) = <<>>
<1>1. [k \in DOMAIN <<>> |-> f[<<>>[k]]] = <<>>
  OBVIOUS
<1> QED BY <1>1, SeqEmpty DEF Maps, FlatMap

LEMMA FlatMapOne ==
  ASSUME NEW f, NEW x, IsSeq(f[x])
  PROVE  Maps(f, <<x>>) /\ FlatMap(f, <<x>>) = f[x]
<1> DEFINE y == f[x]
<1>1. IsSeq(<<x>>) /\ ToSet(<<x>>) = {x} /\ DOMAIN <<x>> = 1..1 /\ <<x>>[1] = x
  BY SeqOne
<1>2. [k \in DOMAIN <<x>> |-> f[<<x>>[k]]] = [k \in 1..1 |-> y]
  BY <1>1
<1> HIDE DEF y
<1>3. [k \in 1..1 |-> y] = <<y>>
  OBVIOUS
<1>4. FlattenSeq(<<y>>) = y
  BY SeqOne DEF y
<1> QED BY <1>1, <1>2, <1>3, <1>4 DEF FlatMap, Maps, y

\* f tells the elements of the sequences of ss, and hs has what it makes of each of those.
LEMMA FlatMapThrough ==
  ASSUME NEW f, NEW ss, IsSeq(ss), \A k \in 1..Len(ss) : Maps(f, ss[k]),
         NEW hs, IsSeq(hs), Len(hs) = Len(ss), \A k \in 1..Len(ss) : hs[k] = FlatMap(f, ss[k])
  PROVE  /\ Maps(f, FlattenSeq(ss)) /\ IsSeqs(hs) /\ FlatMap(f, FlattenSeq(ss)) = FlattenSeq(hs)
<1> DEFINE T == UNION {ToSet(ss[k]) : k \in 1..Len(ss)}
           H == [s \in Seq(T) |-> FlatMap(f, s)]
<1>0. IsSeqs(ss)
  BY SeqOfSeqs DEF Maps
<1>1. ss \in Seq(Seq(T))
  <2>1. \A k \in 1..Len(ss) : ss[k] \in Seq(T)
    <3> TAKE k \in 1..Len(ss)
    <3> DEFINE r == ss[k]
               R == ToSet(r)
    <3>1. IsSeq(r) /\ R \subseteq T
      BY DEF Maps
    <3>2. r \in Seq(R)
      BY <3>1, SeqIs
    <3> HIDE DEF r, R, T
    <3>3. r \in Seq(T)
      BY <3>1, <3>2
    <3> QED BY <3>3 DEF r
  <2>2. Len(ss) \in Nat /\ ss = [k \in 1..Len(ss) |-> ss[k]]
    BY SeqIs
  <2> HIDE DEF T
  <2>3. ss \in [1..Len(ss) -> Seq(T)]
    BY <2>1, <2>2
  <2> QED BY <2>2, <2>3
<1>2. \A s \in Seq(T) : Maps(f, s)
  <2> TAKE s \in Seq(T)
  <2>1. ToSet(s) \subseteq T
    <3> HIDE DEF T
    <3> QED BY ToSetFacts
  <2>2. \A x \in T : IsSeq(f[x])
    BY DEF Maps
  <2> HIDE DEF T
  <2> QED BY <2>1, <2>2 DEF Maps, IsSeq
<1> HIDE DEF T
<1>3. Additive(H, T)
  <2>1. <<>> \in Seq(T)
    OBVIOUS
  <2>2. \A s \in Seq(T) : IsSeq(H[s])
    <3> TAKE s \in Seq(T)
    <3>1. IsSeq(FlatMap(f, s))
      BY <1>2, FlatMapParts
    <3> QED BY <3>1
  <2>3. \A s, t \in Seq(T) : H[s \o t] = H[s] \o H[t]
    <3> TAKE s, t \in Seq(T)
    <3>1. s \o t \in Seq(T)
      OBVIOUS
    <3>2. FlatMap(f, s \o t) = FlatMap(f, s) \o FlatMap(f, t)
      BY <1>2, FlatMapConcat
    <3> QED BY <3>1, <3>2
  <2>4. H[<<>>] = <<>>
    BY <2>1, FlatMapEmpty
  <2> HIDE DEF H
  <2> QED BY <2>2, <2>3, <2>4 DEF Additive
<1>4. \A k \in 1..Len(ss) : hs[k] = H[ss[k]]
  <2>1. \A k \in 1..Len(ss) : ss[k] \in Seq(T)
    BY <1>1
  <2> QED BY <2>1
<1>5. FlattenSeq(ss) \in Seq(T)
  BY <1>1, FlattenElements
<1>6. FlatMap(f, FlattenSeq(ss)) = H[FlattenSeq(ss)]
  BY <1>5
<1> HIDE DEF H
<1>7. IsSeqs(hs) /\ H[FlattenSeq(ss)] = FlattenSeq(hs)
  BY <1>1, <1>3, <1>4, FlatThrough
<1> QED BY <1>2, <1>5, <1>6, <1>7

-----------------------------------------------------------------------------
\* What a Claude model is told, message by message.

Heard(ms) == FlattenSeq([k \in DOMAIN ms |-> By(ms[k].role, ms[k].content)])
HasContents(ms) == IsSeq(ms) /\ \A m \in ToSet(ms) : IsSeq(m.content)

LEMMA HeardMap ==
  ASSUME NEW X, NEW f, f = [m \in X |-> By(m.role, m.content)],
         NEW ms, HasContents(ms), ToSet(ms) \subseteq X
  PROVE  Maps(f, ms) /\ Heard(ms) = FlatMap(f, ms)
<1>1. DOMAIN ms = 1..Len(ms) /\ \A k \in DOMAIN ms : ms[k] \in X
  BY SeqIs DEF HasContents
<1>2. [k \in DOMAIN ms |-> By(ms[k].role, ms[k].content)] = [k \in DOMAIN ms |-> f[ms[k]]]
  BY <1>1
<1>3. Maps(f, ms)
  BY ByIs DEF HasContents, Maps
<1> QED BY <1>2, <1>3 DEF Heard, FlatMap

LEMMA HeardConcat ==
  ASSUME NEW s, HasContents(s), NEW t, HasContents(t)
  PROVE  HasContents(s \o t) /\ Heard(s \o t) = Heard(s) \o Heard(t)
<1> DEFINE X == ToSet(s) \union ToSet(t)
           f == [m \in X |-> By(m.role, m.content)]
<1>1. HasContents(s \o t) /\ ToSet(s \o t) = X
  BY SeqConcat DEF HasContents
<1> HIDE DEF f
<1>2. /\ Maps(f, s) /\ Heard(s) = FlatMap(f, s)
      /\ Maps(f, t) /\ Heard(t) = FlatMap(f, t)
      /\ Heard(s \o t) = FlatMap(f, s \o t)
  BY <1>1, HeardMap DEF f
<1>3. FlatMap(f, s \o t) = FlatMap(f, s) \o FlatMap(f, t)
  BY <1>2, FlatMapConcat
<1> QED BY <1>1, <1>2, <1>3

LEMMA HeardOne ==
  ASSUME NEW m, IsSeq(m.content)
  PROVE  HasContents(<<m>>) /\ Heard(<<m>>) = By(m.role, m.content)
<1> DEFINE f == [x \in {m} |-> By(x.role, x.content)]
<1>1. HasContents(<<m>>) /\ ToSet(<<m>>) = {m}
  BY SeqOne DEF HasContents
<1>2. f[m] = By(m.role, m.content) /\ IsSeq(f[m])
  BY ByIs
<1> HIDE DEF f
<1>3. Heard(<<m>>) = FlatMap(f, <<m>>)
  BY <1>1, HeardMap DEF f
<1> QED BY <1>1, <1>2, <1>3, FlatMapOne

LEMMA HeardNothing == HasContents(<<>>) /\ Heard(<<>>) = <<>>
<1>1. [k \in DOMAIN <<>> |-> By(<<>>[k].role, <<>>[k].content)] = <<>>
  OBVIOUS
<1> QED BY <1>1, SeqEmpty DEF Heard, HasContents

-----------------------------------------------------------------------------
\* What a Responses model is told, item by item, and what a block says to it.

LEMMA SeqAssoc ==
  ASSUME NEW a, IsSeq(a), NEW b, IsSeq(b), NEW c, IsSeq(c)
  PROVE  (a \o b) \o c = a \o (b \o c)
<1> DEFINE A == ToSet(a)
           B == ToSet(b)
           C == ToSet(c)
           U == (A \union B) \union C
<1>1. a \in Seq(A) /\ b \in Seq(B) /\ c \in Seq(C)
  BY SeqIs
<1>2. a \in Seq(U) /\ b \in Seq(U) /\ c \in Seq(U)
  <2> HIDE DEF A, B, C
  <2> QED BY <1>1
<1> HIDE DEF U
<1> QED BY <1>2

ItemSays(i) ==
  CASE i.item = "message" -> By(i.role, i.parts)
    [] i.item = "function_call" -> By("assistant", <<i>>)
    [] OTHER -> By("user", <<i>>)
ItemsSay(is) == FlattenSeq([k \in DOMAIN is |-> ItemSays(is[k])])
HasParts(is) == IsSeq(is) /\ \A i \in ToSet(is) : i.item = "message" => IsSeq(i.parts)

LEMMA ItemSaysSeq ==
  ASSUME NEW i, i.item = "message" => IsSeq(i.parts)
  PROVE  IsSeq(ItemSays(i))
<1>1. IsSeq(<<i>>)
  BY SeqOne
<1>2. IsSeq(By("assistant", <<i>>)) /\ IsSeq(By("user", <<i>>))
  BY <1>1, ByIs
<1>3. i.item = "message" => IsSeq(By(i.role, i.parts))
  BY ByIs
<1> QED BY <1>2, <1>3 DEF ItemSays

LEMMA ItemsSayMap ==
  ASSUME NEW X, NEW f, f = [i \in X |-> ItemSays(i)],
         NEW is, HasParts(is), ToSet(is) \subseteq X
  PROVE  Maps(f, is) /\ ItemsSay(is) = FlatMap(f, is)
<1>1. DOMAIN is = 1..Len(is) /\ \A k \in DOMAIN is : is[k] \in X
  BY SeqIs DEF HasParts
<1>2. [k \in DOMAIN is |-> ItemSays(is[k])] = [k \in DOMAIN is |-> f[is[k]]]
  BY <1>1
<1>3. Maps(f, is)
  BY ItemSaysSeq DEF HasParts, Maps
<1> QED BY <1>2, <1>3 DEF ItemsSay, FlatMap

LEMMA ItemsSayConcat ==
  ASSUME NEW s, HasParts(s), NEW t, HasParts(t)
  PROVE  /\ HasParts(s \o t) /\ ItemsSay(s \o t) = ItemsSay(s) \o ItemsSay(t)
         /\ IsSeq(ItemsSay(s))
<1> DEFINE X == ToSet(s) \union ToSet(t)
           f == [i \in X |-> ItemSays(i)]
<1>1. HasParts(s \o t) /\ ToSet(s \o t) = X
  BY SeqConcat DEF HasParts
<1> HIDE DEF f
<1>2. /\ Maps(f, s) /\ ItemsSay(s) = FlatMap(f, s)
      /\ Maps(f, t) /\ ItemsSay(t) = FlatMap(f, t)
      /\ ItemsSay(s \o t) = FlatMap(f, s \o t)
  BY <1>1, ItemsSayMap DEF f
<1>3. FlatMap(f, s \o t) = FlatMap(f, s) \o FlatMap(f, t)
  BY <1>2, FlatMapConcat
<1>4. IsSeq(FlatMap(f, s))
  BY <1>2, FlatMapParts
<1> QED BY <1>1, <1>2, <1>3, <1>4

LEMMA ItemsSayOne ==
  ASSUME NEW i, i.item = "message" => IsSeq(i.parts)
  PROVE  HasParts(<<i>>) /\ ItemsSay(<<i>>) = ItemSays(i)
<1> DEFINE f == [x \in {i} |-> ItemSays(x)]
<1>1. HasParts(<<i>>) /\ ToSet(<<i>>) = {i}
  BY SeqOne DEF HasParts
<1>2. f[i] = ItemSays(i) /\ IsSeq(f[i])
  BY ItemSaysSeq
<1> HIDE DEF f
<1>3. ItemsSay(<<i>>) = FlatMap(f, <<i>>)
  BY <1>1, ItemsSayMap DEF f
<1> QED BY <1>1, <1>2, <1>3, FlatMapOne

LEMMA ItemsSayNothing == HasParts(<<>>) /\ ItemsSay(<<>>) = <<>>
<1>1. [k \in DOMAIN <<>> |-> ItemSays(<<>>[k])] = <<>>
  OBVIOUS
<1> QED BY <1>1, SeqEmpty DEF ItemsSay, HasParts

BlockSays(role, b) ==
  CASE b.type = "tool_use" -> By("assistant", <<CallItem(b)>>)
    [] b.type = "tool_result" -> By("user", <<CallItem(b)>>)
    [] OTHER -> By(role, PartOf(b, role))
BlocksSay(role, bs) == FlattenSeq([k \in DOMAIN bs |-> BlockSays(role, bs[k])])

LEMMA PartIs ==
  ASSUME NEW b, NEW role
  PROVE  IsSeq(PartOf(b, role))
<1>1. (\E x : PartOf(b, role) = <<x>>) \/ PartOf(b, role) = <<>>
  BY DEF PartOf
<1> QED BY <1>1, SeqOne, SeqEmpty

LEMMA BlockSaysSeq ==
  ASSUME NEW role, NEW b
  PROVE  IsSeq(BlockSays(role, b))
<1>1. IsSeq(By("assistant", <<CallItem(b)>>)) /\ IsSeq(By("user", <<CallItem(b)>>))
  BY SeqOne, ByIs
<1>2. IsSeq(By(role, PartOf(b, role)))
  BY PartIs, ByIs
<1> QED BY <1>1, <1>2 DEF BlockSays

LEMMA BlocksSayMap ==
  ASSUME NEW role, NEW X, NEW f, f = [b \in X |-> BlockSays(role, b)],
         NEW bs, IsSeq(bs), ToSet(bs) \subseteq X
  PROVE  Maps(f, bs) /\ BlocksSay(role, bs) = FlatMap(f, bs)
<1>1. DOMAIN bs = 1..Len(bs) /\ \A k \in DOMAIN bs : bs[k] \in X
  BY SeqIs
<1>2. [k \in DOMAIN bs |-> BlockSays(role, bs[k])] = [k \in DOMAIN bs |-> f[bs[k]]]
  BY <1>1
<1>3. Maps(f, bs)
  BY BlockSaysSeq DEF Maps
<1> QED BY <1>2, <1>3 DEF BlocksSay, FlatMap

LEMMA BlocksSayConcat ==
  ASSUME NEW role, NEW s, IsSeq(s), NEW t, IsSeq(t)
  PROVE  BlocksSay(role, s \o t) = BlocksSay(role, s) \o BlocksSay(role, t)
<1> DEFINE X == ToSet(s) \union ToSet(t)
           f == [b \in X |-> BlockSays(role, b)]
<1>1. IsSeq(s \o t) /\ ToSet(s \o t) = X
  BY SeqConcat
<1> HIDE DEF f
<1>2. /\ Maps(f, s) /\ BlocksSay(role, s) = FlatMap(f, s)
      /\ Maps(f, t) /\ BlocksSay(role, t) = FlatMap(f, t)
      /\ BlocksSay(role, s \o t) = FlatMap(f, s \o t)
  BY <1>1, BlocksSayMap DEF f
<1>3. FlatMap(f, s \o t) = FlatMap(f, s) \o FlatMap(f, t)
  BY <1>2, FlatMapConcat
<1> QED BY <1>2, <1>3

LEMMA BlocksSayOne ==
  ASSUME NEW role, NEW b
  PROVE  BlocksSay(role, <<b>>) = BlockSays(role, b)
<1> DEFINE f == [x \in {b} |-> BlockSays(role, x)]
<1>1. IsSeq(<<b>>) /\ ToSet(<<b>>) = {b}
  BY SeqOne
<1>2. f[b] = BlockSays(role, b) /\ IsSeq(f[b])
  BY BlockSaysSeq
<1> HIDE DEF f
<1>3. BlocksSay(role, <<b>>) = FlatMap(f, <<b>>)
  BY <1>1, BlocksSayMap DEF f
<1> QED BY <1>1, <1>2, <1>3, FlatMapOne

LEMMA BlocksSayNothing ==
  ASSUME NEW role
  PROVE  BlocksSay(role, <<>>) = <<>>
<1>1. [k \in DOMAIN <<>> |-> BlockSays(role, <<>>[k])] = <<>>
  OBVIOUS
<1> QED BY <1>1, SeqEmpty DEF BlocksSay

-----------------------------------------------------------------------------
\* The items a message becomes say what its blocks say.

LEMMA CallItemIs ==
  ASSUME NEW b, b.type \in {"tool_use", "tool_result"}, NEW role
  PROVE  /\ CallItem(b).item # "message" /\ ItemSays(CallItem(b)) = BlockSays(role, b)
         /\ HasParts(<<CallItem(b)>>) /\ ItemsSay(<<CallItem(b)>>) = BlockSays(role, b)
<1> DEFINE i == CallItem(b)
<1>1. i.item = IF b.type = "tool_use" THEN "function_call" ELSE "function_call_output"
  BY DEF CallItem
<1> HIDE DEF i
<1>2. ItemSays(i) = IF b.type = "tool_use" THEN By("assistant", <<i>>) ELSE By("user", <<i>>)
  BY <1>1 DEF ItemSays
<1>3. BlockSays(role, b) = IF b.type = "tool_use" THEN By("assistant", <<i>>) ELSE By("user", <<i>>)
  BY DEF BlockSays, i
<1>4. i.item # "message"
  BY <1>1
<1> QED BY <1>2, <1>3, <1>4, ItemsSayOne DEF i

LEMMA RoleItemIs ==
  ASSUME NEW role, NEW parts, IsSeq(parts)
  PROVE  HasParts(RoleItem(role, parts)) /\ ItemsSay(RoleItem(role, parts)) = By(role, parts)
<1>1. CASE parts = <<>>
  <2>1. RoleItem(role, parts) = <<>> /\ By(role, parts) = <<>>
    BY <1>1, ByFew DEF RoleItem
  <2> QED BY <2>1, ItemsSayNothing
<1>2. CASE parts # <<>>
  <2> DEFINE i == [item |-> "message", role |-> role, parts |-> parts]
  <2>1. RoleItem(role, parts) = <<i>> /\ i.item = "message" /\ i.role = role /\ i.parts = parts
    BY <1>2 DEF RoleItem
  <2> HIDE DEF i
  <2>2. ItemSays(i) = By(role, parts)
    BY <2>1 DEF ItemSays
  <2> QED BY <2>1, <2>2, ItemsSayOne
<1> QED BY <1>1, <1>2

\* So far: the items say, with the parts gathered, what the blocks do.
GatheredSo(role, g, bs) ==
  /\ HasParts(g.items) /\ IsSeq(g.pending)
  /\ ItemsSay(g.items) \o By(role, g.pending) = BlocksSay(role, bs)

LEMMA OneMoreBlock ==
  ASSUME NEW role, NEW g, NEW bs, IsSeq(bs), NEW b, GatheredSo(role, g, bs),
         g = [items |-> g.items, pending |-> g.pending]
  PROVE  GatheredSo(role, NextBlock(role, g, b), bs \o <<b>>)
<1> DEFINE h == NextBlock(role, g, b)
           P == BlocksSay(role, bs)
           I == ItemsSay(g.items)
           Q == By(role, g.pending)
<1>1. HasParts(g.items) /\ IsSeq(g.pending) /\ I \o Q = P
  BY DEF GatheredSo
<1> DEFINE c == <<b>>
<1>0. IsSeq(c) /\ BlocksSay(role, c) = BlockSays(role, b)
  BY SeqOne, BlocksSayOne
<1> HIDE DEF c
<1>2. BlocksSay(role, bs \o c) = P \o BlockSays(role, b)
  <2>1. BlocksSay(role, bs \o c) = BlocksSay(role, bs) \o BlocksSay(role, c)
    BY <1>0, BlocksSayConcat
  <2> QED BY <1>0, <2>1
<1>3. ASSUME b.type \in {"tool_use", "tool_result"} PROVE GatheredSo(role, h, bs \o c)
  <2> DEFINE R == RoleItem(role, g.pending)
             C == <<CallItem(b)>>
  <2>1. h.items = (g.items \o R) \o C /\ h.pending = <<>>
    BY <1>3 DEF NextBlock
  <2>2. HasParts(R) /\ ItemsSay(R) = Q
    BY <1>1, RoleItemIs
  <2>3. HasParts(C) /\ ItemsSay(C) = BlockSays(role, b)
    BY <1>3, CallItemIs
  <2> HIDE DEF R, C
  <2>4. HasParts(g.items \o R) /\ ItemsSay(g.items \o R) = I \o Q
    BY <1>1, <2>2, ItemsSayConcat
  <2>5. /\ HasParts((g.items \o R) \o C)
        /\ ItemsSay((g.items \o R) \o C) = ItemsSay(g.items \o R) \o ItemsSay(C)
    BY <2>3, <2>4, ItemsSayConcat
  <2>6. IsSeq(ItemsSay((g.items \o R) \o C))
    BY <2>5, ItemsSayConcat
  <2>7. ItemsSay(h.items) \o By(role, h.pending) = ItemsSay(h.items)
    BY <2>1, <2>6, ByFew, SeqEmpty
  <2>8. ItemsSay(h.items) = P \o BlockSays(role, b)
    BY <1>1, <2>1, <2>3, <2>4, <2>5
  <2> HIDE DEF h
  <2>9. HasParts(h.items) /\ IsSeq(h.pending)
    BY <2>1, <2>5, SeqEmpty
  <2> QED BY <1>2, <2>7, <2>8, <2>9 DEF GatheredSo
<1>4. ASSUME b.type \notin {"tool_use", "tool_result"} PROVE GatheredSo(role, h, bs \o c)
  <2> DEFINE part == PartOf(b, role)
  <2>1. h.items = g.items /\ h.pending = g.pending \o part
    <3>1. h = [g EXCEPT !.pending = @ \o part]
      BY <1>4 DEF NextBlock
    <3> HIDE DEF h, part
    <3> QED BY <3>1
  <2>2. IsSeq(part) /\ BlockSays(role, b) = By(role, part)
    BY <1>4, PartIs DEF BlockSays
  <2> HIDE DEF h, part
  <2>3. IsSeq(h.pending) /\ By(role, h.pending) = Q \o By(role, part)
    <3>1. By(role, g.pending \o part) = By(role, g.pending) \o By(role, part)
      BY <1>1, <2>2, ByConcat
    <3>2. IsSeq(g.pending \o part)
      BY <1>1, <2>2, SeqConcat
    <3> QED BY <2>1, <3>1, <3>2
  <2>4. IsSeq(I) /\ IsSeq(Q) /\ IsSeq(By(role, part))
    BY <1>1, <2>2, ByIs, ItemsSayConcat
  <2>5. (I \o Q) \o By(role, part) = I \o (Q \o By(role, part))
    BY <2>4, SeqAssoc
  <2>6. ItemsSay(h.items) \o By(role, h.pending) = BlocksSay(role, bs \o c)
    BY <1>1, <1>2, <2>1, <2>2, <2>3, <2>5
  <2>7. HasParts(h.items)
    BY <1>1, <2>1
  <2> QED BY <2>3, <2>6, <2>7 DEF GatheredSo
<1>5. GatheredSo(role, h, bs \o c)
  BY <1>3, <1>4
<1> QED BY <1>5 DEF c

NothingGathered == [items |-> <<>>, pending |-> <<>>]
Gathers(f, role, c, n) ==
  f = [j \in 0..n |-> IF j = 0 THEN NothingGathered ELSE NextBlock(role, f[j - 1], c[j])]

LEMMA GatheringExists ==
  ASSUME NEW role, NEW c, NEW m \in Nat
  PROVE  \E f : Gathers(f, role, c, m)
<1> DEFINE P == {n \in Nat : \E f : Gathers(f, role, c, n)}
<1>1. 0 \in P
  <2> DEFINE f == [j \in 0..0 |-> NothingGathered]
  <2>1. f = [j \in 0..0 |-> IF j = 0 THEN NothingGathered ELSE NextBlock(role, f[j - 1], c[j])]
    OBVIOUS
  <2> HIDE DEF f
  <2>2. Gathers(f, role, c, 0)
    BY <2>1 DEF Gathers
  <2> QED BY <2>2
<1>2. ASSUME NEW n \in P PROVE n + 1 \in P
  <2>1. n \in Nat
    OBVIOUS
  <2>2. PICK f : Gathers(f, role, c, n)
    OBVIOUS
  <2> DEFINE v == NextBlock(role, f[n], c[n + 1])
             h == [j \in 0..(n + 1) |-> IF j = n + 1 THEN v ELSE f[j]]
  <2>3. \A j \in 0..n : f[j] = IF j = 0 THEN NothingGathered ELSE NextBlock(role, f[j - 1], c[j])
    BY <2>2 DEF Gathers
  <2>4. ASSUME NEW j \in 0..(n + 1)
        PROVE  h[j] = IF j = 0 THEN NothingGathered ELSE NextBlock(role, h[j - 1], c[j])
    <3>1. CASE j = n + 1
      <4>1. h[j] = v
        BY <3>1
      <4>2. j # 0 /\ j - 1 = n /\ h[j - 1] = f[n]
        BY <2>1, <3>1
      <4> HIDE DEF h
      <4> QED BY <3>1, <4>1, <4>2
    <3>2. CASE j # n + 1
      <4>1. j \in 0..n /\ h[j] = f[j]
        BY <2>1, <3>2
      <4>2. j # 0 => h[j - 1] = f[j - 1]
        BY <2>1, <4>1
      <4> HIDE DEF h
      <4> QED BY <2>3, <4>1, <4>2
    <3> QED BY <3>1, <3>2
  <2>5. h = [j \in 0..(n + 1) |-> IF j = 0 THEN NothingGathered ELSE NextBlock(role, h[j - 1], c[j])]
    <3>1. h = [j \in 0..(n + 1) |-> h[j]]
      OBVIOUS
    <3> HIDE DEF h
    <3> QED BY Zenon, <2>4, <3>1
  <2> HIDE DEF h
  <2>6. Gathers(h, role, c, n + 1)
    BY <2>5 DEF Gathers
  <2> QED BY <2>1, <2>6
<1>3. P = Nat
  <2>1. P \in SUBSET Nat
    OBVIOUS
  <2> HIDE DEF P
  <2> QED BY <1>1, <1>2, <2>1, Induction
<1> QED BY <1>3

ItemsOf(m, is) == HasParts(is) /\ ItemsSay(is) = BlocksSay(m.role, m.content)

LEMMA MessageItemsSay ==
  ASSUME NEW m, IsSeq(m.content)
  PROVE  ItemsOf(m, MessageItems(m))
<1> DEFINE c == m.content
           role == m.role
           N == Len(c)
           F(f) == f = [j \in 0..N |-> IF j = 0 THEN NothingGathered ELSE NextBlock(role, f[j - 1], c[j])]
           f == CHOOSE f : F(f)
<1>1. MessageItems(m) = f[N].items \o RoleItem(role, f[N].pending)
  BY Zenon DEF MessageItems, NothingGathered
<1>2. N \in Nat /\ \A k \in 1..N : c[k] \in ToSet(c)
  BY SeqIs
<1>3. F(f)
  <2>1. \E e : Gathers(e, role, c, N)
    <3> HIDE DEF N
    <3> QED BY <1>2, GatheringExists
  <2>2. \E e : F(e)
    BY <2>1 DEF Gathers
  <2> HIDE DEF F
  <2> QED BY Zenon, <2>2
<1> HIDE DEF f, N
<1>4. f[0] = NothingGathered /\ \A j \in 1..N : f[j] = NextBlock(role, f[j - 1], c[j])
  <2>1. \A j \in 0..N : f[j] = IF j = 0 THEN NothingGathered ELSE NextBlock(role, f[j - 1], c[j])
    BY <1>3
  <2>2. 0 \in 0..N /\ \A j \in 1..N : j \in 0..N /\ j # 0
    BY <1>2
  <2> QED BY <2>1, <2>2
<1> HIDE DEF F
<1> DEFINE Pre(n) == SubSeq(c, 1, n)
           Rec(g) == g = [items |-> g.items, pending |-> g.pending]
           P == {n \in Nat : n <= N => Rec(f[n]) /\ GatheredSo(role, f[n], Pre(n))}
<1>5. 0 \in P
  <2>1. Pre(0) = <<>> /\ 0 \in Nat
    OBVIOUS
  <2>2. BlocksSay(role, <<>>) = <<>> /\ ItemsSay(<<>>) = <<>> /\ By(role, <<>>) = <<>> /\ HasParts(<<>>)
    BY BlocksSayNothing, ItemsSayNothing, ByFew
  <2>3. f[0].items = <<>> /\ f[0].pending = <<>> /\ Rec(f[0])
    BY <1>4 DEF NothingGathered
  <2>4. GatheredSo(role, f[0], <<>>)
    BY <2>2, <2>3, SeqEmpty DEF GatheredSo
  <2> HIDE DEF Pre, Rec
  <2> QED BY <2>1, <2>3, <2>4
<1>6. ASSUME NEW n \in P PROVE n + 1 \in P
  <2> SUFFICES ASSUME n + 1 <= N PROVE Rec(f[n + 1]) /\ GatheredSo(role, f[n + 1], Pre(n + 1))
    OBVIOUS
  <2>1. n \in Nat /\ n <= N /\ n + 1 \in 1..N /\ (n + 1) - 1 = n
    BY <1>2
  <2>2. Rec(f[n]) /\ GatheredSo(role, f[n], Pre(n))
    BY <2>1
  <2>3. f[n + 1] = NextBlock(role, f[n], c[n + 1])
    BY <1>4, <2>1
  <2> DEFINE b == c[n + 1]
             d == <<b>>
  <2>4. IsSeq(Pre(n)) /\ Pre(n + 1) = Pre(n) \o d
    <3> DEFINE S == ToSet(c)
    <3>1. c \in Seq(S) /\ Len(c) = N
      BY SeqIs DEF N
    <3> HIDE DEF S, c
    <3>2. /\ Pre(n) \in Seq(S) /\ Len(Pre(n)) = n /\ \A k \in 1..n : Pre(n)[k] = c[k]
          /\ Pre(n + 1) \in Seq(S) /\ Len(Pre(n + 1)) = n + 1 /\ \A k \in 1..(n + 1) : Pre(n + 1)[k] = c[k]
      BY <1>2, <2>1, <3>1
    <3>3. b \in S
      BY <2>1, <3>1
    <3>4. d \in Seq(S) /\ Len(d) = 1 /\ d[1] = b
      BY <3>3
    <3> DEFINE p == Pre(n)
               q == Pre(n + 1)
    <3> HIDE DEF Pre, d
    <3>5. p \in Seq(S) /\ q \in Seq(S) /\ Len(q) = Len(p) + Len(d)
      BY <3>2, <3>4
    <3>6. \A k \in 1..Len(p) : q[k] = p[k]
      BY <2>1, <3>2
    <3>7. \A k \in 1..Len(d) : q[k + Len(p)] = d[k]
      BY <2>1, <3>2, <3>4
    <3>8. q = p \o d
      BY <3>4, <3>5, <3>6, <3>7, ConcatIs
    <3> QED BY <3>5, <3>8 DEF IsSeq
  <2> DEFINE g == f[n]
             p == Pre(n)
  <2> HIDE DEF Pre, b
  <2>5. GatheredSo(role, NextBlock(role, g, b), p \o d)
    <3>1. IsSeq(p) /\ GatheredSo(role, g, p) /\ g = [items |-> g.items, pending |-> g.pending]
      BY <2>2, <2>4
    <3> HIDE DEF g, p
    <3> QED BY <3>1, OneMoreBlock
  <2>6. Rec(NextBlock(role, g, b))
    <3>1. g = [items |-> g.items, pending |-> g.pending]
      BY <2>2
    <3> HIDE DEF g
    <3>2. \E x, y : NextBlock(role, g, b) = [items |-> x, pending |-> y]
      <4>1. PICK x, z : g = [items |-> x, pending |-> z]
        BY <3>1
      <4> DEFINE y == g.pending \o PartOf(b, role)
      <4> HIDE DEF y
      <4>2. [g EXCEPT !.pending = y] = [items |-> x, pending |-> y]
        BY <4>1
      <4>3. [g EXCEPT !.pending = @ \o PartOf(b, role)] = [items |-> x, pending |-> y]
        BY <4>2 DEF y
      <4> QED BY <4>3 DEF NextBlock
    <3> QED BY <3>2
  <2> HIDE DEF Rec, d
  <2> QED BY <2>3, <2>4, <2>5, <2>6 DEF b
<1>7. P = Nat
  <2>1. P \in SUBSET Nat
    OBVIOUS
  <2> HIDE DEF P
  <2> QED BY <1>5, <1>6, <2>1, Induction
<1> DEFINE g == f[N]
           R == RoleItem(role, g.pending)
<1>8. GatheredSo(role, g, c)
  <2>1. GatheredSo(role, f[N], Pre(N))
    <3>1. N \in P /\ N <= N
      BY <1>2, <1>7
    <3> HIDE DEF Pre, Rec
    <3> QED BY <3>1
  <2>2. Pre(N) = c
    <3> DEFINE S == ToSet(c)
    <3>1. c \in Seq(S) /\ Len(c) = N
      BY SeqIs DEF N
    <3> HIDE DEF S, c
    <3> QED BY <1>2, <3>1
  <2> QED BY <2>1, <2>2
<1> HIDE DEF P, g
<1>9. HasParts(R) /\ ItemsSay(R) = By(role, g.pending) /\ HasParts(g.items)
  BY <1>8, RoleItemIs DEF GatheredSo
<1> HIDE DEF R
<1>10. HasParts(g.items \o R) /\ ItemsSay(g.items \o R) = ItemsSay(g.items) \o ItemsSay(R)
  BY <1>9, ItemsSayConcat
<1>11. ItemsSay(g.items \o R) = BlocksSay(role, c)
  BY <1>8, <1>9, <1>10 DEF GatheredSo
<1> QED BY <1>1, <1>10, <1>11 DEF ItemsOf, g, R

LEMMA FlatElementsAre ==
  ASSUME NEW a, IsSeqs(a)
  PROVE  \A x : x \in ToSet(FlattenSeq(a)) <=> \E k \in 1..Len(a) : x \in ToSet(a[k])
<1>1. PICK S : a \in Seq(Seq(S))
  BY DEF IsSeqs
<1> QED BY <1>1, FlattenElements

LEMMA InputMap ==
  ASSUME NEW X, NEW f, f = [m \in X |-> MessageItems(m)],
         NEW ms, HasContents(ms), ToSet(ms) \subseteq X
  PROVE  Maps(f, ms) /\ ResponsesInput(ms) = FlatMap(f, ms) /\ HasParts(ResponsesInput(ms))
<1>1. IsSeq(ms) /\ DOMAIN ms = 1..Len(ms) /\ \A k \in DOMAIN ms : ms[k] \in X /\ ms[k] \in ToSet(ms)
  BY SeqIs DEF HasContents
<1>2. [k \in DOMAIN ms |-> MessageItems(ms[k])] = [k \in DOMAIN ms |-> f[ms[k]]]
  BY <1>1
<1>3. \A m \in ToSet(ms) : HasParts(f[m])
  <2> TAKE m \in ToSet(ms)
  <2>1. IsSeq(m.content)
    BY DEF HasContents
  <2>2. ItemsOf(m, MessageItems(m))
    BY <2>1, MessageItemsSay
  <2> QED BY <2>2 DEF ItemsOf
<1>4. Maps(f, ms)
  BY <1>1, <1>3 DEF Maps, HasParts
<1>5. ResponsesInput(ms) = FlatMap(f, ms)
  BY <1>2 DEF ResponsesInput, FlatMap
<1> DEFINE a == [k \in DOMAIN ms |-> f[ms[k]]]
<1>6. /\ IsSeqs(a) /\ Len(a) = Len(ms) /\ \A k \in 1..Len(ms) : a[k] = f[ms[k]]
      /\ FlatMap(f, ms) = FlattenSeq(a) /\ IsSeq(FlatMap(f, ms))
  BY <1>4, FlatMapParts
<1> HIDE DEF a
<1>7. \A x \in ToSet(FlattenSeq(a)) : \E k \in 1..Len(a) : x \in ToSet(a[k])
  BY <1>6, FlatElementsAre
<1>8. HasParts(FlattenSeq(a))
  <2>1. \A k \in 1..Len(ms) : HasParts(a[k])
    BY <1>1, <1>3, <1>6
  <2> QED BY <1>6, <1>7, <2>1 DEF HasParts
<1> QED BY <1>4, <1>5, <1>6, <1>8

LEMMA InputConcat ==
  ASSUME NEW s, HasContents(s), NEW t, HasContents(t)
  PROVE  /\ HasContents(s \o t) /\ HasParts(ResponsesInput(s)) /\ HasParts(ResponsesInput(t))
         /\ ResponsesInput(s \o t) = ResponsesInput(s) \o ResponsesInput(t)
<1> DEFINE X == ToSet(s) \union ToSet(t)
           f == [m \in X |-> MessageItems(m)]
<1>1. HasContents(s \o t) /\ ToSet(s \o t) = X
  BY SeqConcat DEF HasContents
<1> HIDE DEF f
<1>2. /\ Maps(f, s) /\ ResponsesInput(s) = FlatMap(f, s) /\ HasParts(ResponsesInput(s))
      /\ Maps(f, t) /\ ResponsesInput(t) = FlatMap(f, t) /\ HasParts(ResponsesInput(t))
      /\ ResponsesInput(s \o t) = FlatMap(f, s \o t)
  BY <1>1, InputMap DEF f
<1>3. FlatMap(f, s \o t) = FlatMap(f, s) \o FlatMap(f, t)
  BY <1>2, FlatMapConcat
<1> QED BY <1>1, <1>2, <1>3

LEMMA InputOne ==
  ASSUME NEW m, IsSeq(m.content)
  PROVE  HasContents(<<m>>) /\ ResponsesInput(<<m>>) = MessageItems(m)
<1> DEFINE f == [x \in {m} |-> MessageItems(x)]
<1>1. HasContents(<<m>>) /\ ToSet(<<m>>) = {m}
  BY SeqOne DEF HasContents
<1>2. f[m] = MessageItems(m) /\ IsSeq(f[m])
  BY MessageItemsSay DEF ItemsOf, HasParts
<1> HIDE DEF f
<1>3. ResponsesInput(<<m>>) = FlatMap(f, <<m>>)
  BY <1>1, InputMap DEF f
<1> QED BY <1>1, <1>2, <1>3, FlatMapOne

LEMMA InputNothing == ResponsesInput(<<>>) = <<>> /\ ItemsSay(ResponsesInput(<<>>)) = <<>>
<1>1. [k \in DOMAIN <<>> |-> MessageItems(<<>>[k])] = <<>>
  OBVIOUS
<1> QED BY <1>1, SeqEmpty, ItemsSayNothing DEF ResponsesInput

LEMMA InputMore ==
  ASSUME NEW h, HasContents(h), NEW m, IsSeq(m.content)
  PROVE  /\ HasContents(h \o <<m>>)
         /\ ItemsSay(ResponsesInput(h \o <<m>>))
              = ItemsSay(ResponsesInput(h)) \o BlocksSay(m.role, m.content)
<1> DEFINE t == <<m>>
<1>1. HasContents(t) /\ ResponsesInput(t) = MessageItems(m)
  BY InputOne
<1> HIDE DEF t
<1>2. HasParts(MessageItems(m)) /\ ItemsSay(MessageItems(m)) = BlocksSay(m.role, m.content)
  BY MessageItemsSay DEF ItemsOf
<1>3. /\ HasContents(h \o t) /\ HasParts(ResponsesInput(h))
      /\ ResponsesInput(h \o t) = ResponsesInput(h) \o MessageItems(m)
  BY <1>1, InputConcat
<1>4. ItemsSay(ResponsesInput(h) \o MessageItems(m)) = ItemsSay(ResponsesInput(h)) \o ItemsSay(MessageItems(m))
  BY <1>2, <1>3, ItemsSayConcat
<1> QED BY <1>2, <1>3, <1>4 DEF t

-----------------------------------------------------------------------------
\* A Responses model sees its own answer as it was.

LEMMA LoadsBack ==
  /\ \A x \in Objects : Loads(Json(x)) = x
  /\ Loads(<<>>) = "empty" /\ \A p : Loads(<<p>>) = "empty" /\ \A x : <<p>> # Json(x)
  /\ \A x, y : Json(x) = Json(y) <=> x = y
<1>1. \A x, y : Json(x) = Json(y) <=> x = y
  <2> TAKE x, y
  <2>1. Json(x)[1] = [json |-> x, part |-> 1] /\ Json(y)[1] = [json |-> y, part |-> 1]
    BY DEF Json
  <2>2. [json |-> x, part |-> 1].json = x /\ [json |-> y, part |-> 1].json = y
    OBVIOUS
  <2> QED BY <2>1, <2>2
<1>2. ASSUME NEW x \in Objects PROVE Loads(Json(x)) = x
  <2>1. (CHOOSE y \in Objects : Json(x) = Json(y)) = x
    BY <1>1
  <2>2. \E y \in Objects : Json(x) = Json(y)
    OBVIOUS
  <2> QED BY <2>1, <2>2, Zenon DEF Loads
<1>3. \A x : Len(Json(x)) = 2
  BY DEF Json
<1>4. \A x : <<>> # Json(x) /\ \A p : <<p>> # Json(x)
  <2>1. Len(<<>>) = 0 /\ \A p : Len(<<p>>) = 1
    OBVIOUS
  <2> QED BY <1>3, <2>1
<1>5. Loads(<<>>) = "empty"
  BY <1>4 DEF Loads
<1>6. ASSUME NEW p PROVE Loads(<<p>>) = "empty"
  BY <1>4 DEF Loads
<1> QED BY <1>1, <1>2, <1>4, <1>5, <1>6

LEMMA OfTypeIs ==
  ASSUME NEW s, IsSeq(s), NEW t
  PROVE  /\ IsSeq(OfType(s, t)) /\ Len(OfType(s, t)) \in Nat /\ DOMAIN OfType(s, t) = 1..Len(OfType(s, t))
         /\ \A k \in 1..Len(OfType(s, t)) : OfType(s, t)[k].type = t
         /\ (\A k \in 1..Len(s) : s[k].type = t) => OfType(s, t) = s
         /\ (\A k \in 1..Len(s) : s[k].type # t) => OfType(s, t) = <<>>
<1> DEFINE I == {k \in DOMAIN s : s[k].type = t}
           r == Selected(s, I)
           at == Ascending(I)
<1>1. DOMAIN s = 1..Len(s) /\ I \in SUBSET (1..Len(s)) /\ \A k \in I : s[k].type = t
  BY SeqIs
<1>2. r = OfType(s, t)
  BY DEF OfType
<1>3. (\A k \in 1..Len(s) : s[k].type = t) => I = 1..Len(s)
  BY <1>1
<1>4. (\A k \in 1..Len(s) : s[k].type # t) => I = {}
  BY <1>1
<1> HIDE DEF I
<1>5. /\ IsSeq(at) /\ IsSeq(r) /\ Len(r) = Len(at)
      /\ \A k \in 1..Len(at) : at[k] \in I /\ r[k] = s[at[k]]
  BY <1>1, SelectedAt
<1>6. (\A k \in 1..Len(s) : s[k].type = t) => r = s
  BY <1>3, SelectedAll
<1>7. (\A k \in 1..Len(s) : s[k].type # t) => r = <<>>
  BY <1>4, SelectedNone
<1> HIDE DEF r, at
<1>8. \A k \in 1..Len(r) : r[k].type = t
  <2>1. \A k \in I : s[k].type = t
    BY <1>1
  <2>2. \A k \in 1..Len(r) : at[k] \in I /\ r[k] = s[at[k]]
    BY <1>5
  <2> QED BY ONLY <2>1, <2>2
<1>9. Len(r) \in Nat /\ DOMAIN r = 1..Len(r)
  BY <1>5, SeqIs
<1> QED BY <1>2, <1>5, <1>6, <1>7, <1>8, <1>9

LEMMA ThroughSet ==
  ASSUME NEW ss, IsSeqs(ss)
  PROVE  \E T : ss \in Seq(Seq(T)) /\ \A k \in 1..Len(ss) : ss[k] \in Seq(T)
<1>1. PICK T : ss \in Seq(Seq(T))
  BY DEF IsSeqs
<1>2. \A k \in 1..Len(ss) : ss[k] \in Seq(T)
  BY <1>1
<1> QED BY <1>1, <1>2

LEMMA ByThrough ==
  ASSUME NEW role, NEW ss, IsSeqs(ss),
         NEW hs, IsSeq(hs), Len(hs) = Len(ss), \A k \in 1..Len(ss) : hs[k] = By(role, ss[k])
  PROVE  IsSeqs(hs) /\ By(role, FlattenSeq(ss)) = FlattenSeq(hs)
<1>1. PICK T : ss \in Seq(Seq(T)) /\ \A k \in 1..Len(ss) : ss[k] \in Seq(T)
  BY ThroughSet
<1> DEFINE H == [s \in Seq(T) |-> By(role, s)]
<1>2. \A s \in Seq(T) : IsSeq(s)
  BY DEF IsSeq
<1>3. Additive(H, T)
  <2>1. <<>> \in Seq(T) /\ \A s, t \in Seq(T) : s \o t \in Seq(T)
    OBVIOUS
  <2>2. \A s \in Seq(T) : IsSeq(H[s])
    BY <1>2, ByIs
  <2>3. \A s, t \in Seq(T) : H[s \o t] = H[s] \o H[t]
    BY <1>2, <2>1, ByConcat
  <2>4. H[<<>>] = <<>>
    BY <2>1, ByFew
  <2> HIDE DEF H
  <2> QED BY <2>2, <2>3, <2>4 DEF Additive
<1>4. \A k \in 1..Len(ss) : hs[k] = H[ss[k]]
  BY <1>1
<1>5. FlattenSeq(ss) \in Seq(T)
  BY <1>1, FlattenElements
<1>6. By(role, FlattenSeq(ss)) = H[FlattenSeq(ss)]
  BY <1>5
<1> HIDE DEF H
<1>7. IsSeqs(hs) /\ H[FlattenSeq(ss)] = FlattenSeq(hs)
  BY <1>1, <1>3, <1>4, FlatThrough
<1> QED BY <1>6, <1>7

LEMMA BlocksSayThrough ==
  ASSUME NEW role, NEW ss, IsSeqs(ss),
         NEW hs, IsSeq(hs), Len(hs) = Len(ss), \A k \in 1..Len(ss) : hs[k] = BlocksSay(role, ss[k])
  PROVE  IsSeqs(hs) /\ BlocksSay(role, FlattenSeq(ss)) = FlattenSeq(hs)
<1>1. PICK T : ss \in Seq(Seq(T)) /\ \A k \in 1..Len(ss) : ss[k] \in Seq(T)
  BY ThroughSet
<1> DEFINE H == [s \in Seq(T) |-> BlocksSay(role, s)]
<1>2. \A s \in Seq(T) : IsSeq(s)
  BY DEF IsSeq
<1>3. Additive(H, T)
  <2>1. <<>> \in Seq(T) /\ \A s, t \in Seq(T) : s \o t \in Seq(T)
    OBVIOUS
  <2>2. \A s \in Seq(T) : IsSeq(H[s])
    <3> TAKE s \in Seq(T)
    <3> DEFINE X == ToSet(s)
               f == [b \in X |-> BlockSays(role, b)]
    <3>0. IsSeq(s) /\ ToSet(s) \subseteq X /\ f = [b \in X |-> BlockSays(role, b)]
      BY <1>2
    <3> HIDE DEF f, X
    <3>1. Maps(f, s) /\ BlocksSay(role, s) = FlatMap(f, s)
      BY ONLY <3>0, BlocksSayMap
    <3>2. IsSeq(FlatMap(f, s))
      BY <3>1, FlatMapParts
    <3> QED BY <3>1, <3>2
  <2>3. \A s, t \in Seq(T) : H[s \o t] = H[s] \o H[t]
    BY <1>2, <2>1, BlocksSayConcat
  <2>4. H[<<>>] = <<>>
    BY <2>1, BlocksSayNothing
  <2> HIDE DEF H
  <2> QED BY <2>2, <2>3, <2>4 DEF Additive
<1>4. \A k \in 1..Len(ss) : hs[k] = H[ss[k]]
  BY <1>1
<1>5. FlattenSeq(ss) \in Seq(T)
  BY <1>1, FlattenElements
<1>6. BlocksSay(role, FlattenSeq(ss)) = H[FlattenSeq(ss)]
  BY <1>5
<1> HIDE DEF H
<1>7. IsSeqs(hs) /\ H[FlattenSeq(ss)] = FlattenSeq(hs)
  BY <1>1, <1>3, <1>4, FlatThrough
<1> QED BY <1>6, <1>7

\* Blocks that say one thing each.
LEMMA BlocksSayOnes ==
  ASSUME NEW role, NEW r, NEW bs, IsSeq(bs), NEW e, IsSeq(e), Len(e) = Len(bs),
         \A k \in 1..Len(bs) : BlockSays(role, bs[k]) = By(r, <<e[k]>>)
  PROVE  BlocksSay(role, bs) = By(r, e)
<1> DEFINE a == [k \in DOMAIN bs |-> BlockSays(role, bs[k])]
           b == By(r, e)
<1>1. DOMAIN bs = 1..Len(bs) /\ Len(bs) \in Nat
  BY SeqIs
<1>2. BlocksSay(role, bs) = FlattenSeq(a)
  BY DEF BlocksSay
<1>3. \A k \in 1..Len(bs) : a[k] = By(r, <<e[k]>>)
  BY <1>1
<1>4. DOMAIN a = 1..Len(bs) /\ a = [k \in 1..Len(bs) |-> a[k]]
  BY <1>1
<1>5. IsSeq(b) /\ Len(b) = Len(bs) /\ \A k \in 1..Len(bs) : b[k] = [by |-> r, what |-> e[k]]
  BY ByIs
<1> HIDE DEF a, b
<1>6. IsSeq(a) /\ Len(a) = Len(bs)
  BY <1>1, <1>4, MadeSeq
<1>7. \A k \in 1..Len(bs) : a[k] = <<b[k]>>
  <2> TAKE k \in 1..Len(bs)
  <2>1. a[k] = By(r, <<e[k]>>) /\ b[k] = [by |-> r, what |-> e[k]]
    BY <1>3, <1>5
  <2> DEFINE x == e[k]
  <2> HIDE DEF x
  <2>2. By(r, <<x>>) = <<[by |-> r, what |-> x]>>
    BY ByFew
  <2> QED BY <2>1, <2>2 DEF x
<1>8. Len(a) = Len(b) /\ \A k \in 1..Len(b) : a[k] = <<b[k]>>
  BY <1>5, <1>6, <1>7
<1>9. FlattenSeq(a) = b
  BY ONLY <1>5, <1>6, <1>8, FlattenOnes
<1> QED BY <1>2, <1>9 DEF b

-----------------------------------------------------------------------------
\* The items of an answer, as their blocks say them.

TextParts(i) == IsSeq(i.parts) /\ \A k \in 1..Len(i.parts) : \E t : i.parts[k] = OutputText(t)
AnswerItem(i) ==
  \/ i.item = "message" /\ TextParts(i)
  \/ i.item = "message" /\ IsSeq(i.parts) /\ \A k \in 1..Len(i.parts) : i.parts[k].type # "output_text"
  \/ /\ i.item = "function_call"
     /\ \E id, text : /\ i = [item |-> "function_call", id |-> id, arguments |-> text]
                      /\ text = Json("x") \/ \E p : text = <<p>>
  \/ i.item = "reasoning"

LEMMA MessageSaid ==
  ASSUME NEW i, i.item = "message", TextParts(i)
  PROVE  BlocksSay("assistant", OutputBlocks(i)) = By("assistant", SeenOutput(i))
<1> DEFINE p == i.parts
           bs == [k \in DOMAIN p |-> Text(p[k].text)]
<1>1. IsSeq(p) /\ DOMAIN p = 1..Len(p) /\ Len(p) \in Nat
  BY SeqIs DEF TextParts
<1>2. \A k \in 1..Len(p) : p[k] = [type |-> "output_text", text |-> p[k].text]
  <2> TAKE k \in 1..Len(p)
  <2>1. PICK t : p[k] = OutputText(t)
    BY DEF TextParts
  <2>2. OutputText(t).text = t
    BY DEF OutputText
  <2> QED BY <2>1, <2>2 DEF OutputText
<1>3. \A k \in 1..Len(p) : p[k].type = "output_text"
  <2> TAKE k \in 1..Len(p)
  <2>1. p[k] = [type |-> "output_text", text |-> p[k].text]
    BY <1>2
  <2>2. \A t : [type |-> "output_text", text |-> t].type = "output_text"
    OBVIOUS
  <2> QED BY <2>1, <2>2
<1>4. OfType(p, "output_text") = p
  BY <1>1, <1>3, OfTypeIs
<1>5. OutputBlocks(i) = bs /\ SeenOutput(i) = p
  BY <1>4 DEF OutputBlocks, SeenOutput
<1>6. DOMAIN bs = 1..Len(p) /\ bs = [k \in 1..Len(p) |-> bs[k]]
  BY <1>1
<1>7. \A k \in 1..Len(p) : bs[k] = Text(p[k].text)
  BY <1>1
<1> HIDE DEF bs
<1>8. IsSeq(bs) /\ Len(bs) = Len(p)
  BY <1>1, <1>6, MadeSeq
<1>9. ASSUME NEW k \in 1..Len(p) PROVE BlockSays("assistant", bs[k]) = By("assistant", <<p[k]>>)
  <2>0. bs[k] = Text(p[k].text) /\ \A t : Text(t).type = "text" /\ Text(t).text = t
    BY <1>7 DEF Text
  <2>1. bs[k].type = "text" /\ bs[k].text = p[k].text
    BY <2>0
  <2>2. PartOf(bs[k], "assistant") = <<p[k]>>
    BY <1>2, <2>1 DEF PartOf
  <2> QED BY <2>1, <2>2 DEF BlockSays
<1> HIDE DEF p
<1>10. BlocksSay("assistant", bs) = By("assistant", p)
  BY <1>1, <1>8, <1>9, BlocksSayOnes
<1> QED BY <1>5, <1>10

LEMMA AnswerItemSaid ==
  ASSUME NEW i, AnswerItem(i)
  PROVE  IsSeq(OutputBlocks(i)) /\ IsSeq(SeenOutput(i))
         /\ BlocksSay("assistant", OutputBlocks(i)) = By("assistant", SeenOutput(i))
<1>1. CASE i.item = "message" /\ TextParts(i)
  <2> DEFINE p == i.parts
             texts == OfType(p, "output_text")
             bs == [k \in DOMAIN texts |-> Text(texts[k].text)]
  <2>1. IsSeq(texts) /\ Len(texts) \in Nat /\ DOMAIN texts = 1..Len(texts)
    BY <1>1, OfTypeIs DEF TextParts
  <2>2. OutputBlocks(i) = bs /\ SeenOutput(i) = texts
    BY <1>1 DEF OutputBlocks, SeenOutput
  <2>3. DOMAIN bs = 1..Len(texts) /\ bs = [k \in 1..Len(texts) |-> bs[k]]
    BY <2>1
  <2> HIDE DEF bs, texts
  <2>4. IsSeq(bs)
    BY <2>1, <2>3, MadeSeq
  <2> QED BY <1>1, <2>1, <2>2, <2>4, MessageSaid
<1>2. CASE i.item = "message" /\ IsSeq(i.parts) /\ \A k \in 1..Len(i.parts) : i.parts[k].type # "output_text"
  <2>1. OfType(i.parts, "output_text") = <<>>
    BY <1>2, OfTypeIs
  <2>2. OutputBlocks(i) = <<>> /\ SeenOutput(i) = <<>>
    BY <1>2, <2>1 DEF OutputBlocks, SeenOutput
  <2> QED BY <2>2, SeqEmpty, BlocksSayNothing, ByFew
<1>3. CASE /\ i.item = "function_call"
           /\ \E id, text : /\ i = [item |-> "function_call", id |-> id, arguments |-> text]
                            /\ text = Json("x") \/ \E p : text = <<p>>
  <2>1. PICK id, text : /\ i = [item |-> "function_call", id |-> id, arguments |-> text]
                        /\ text = Json("x") \/ \E p : text = <<p>>
    BY <1>3
  <2> DEFINE x == Loads(text)
             b == ToolUse(id, x)
             o == [item |-> "function_call", id |-> id, arguments |-> Json(x)]
  <2>2. Json(x) = IF text = Json("x") THEN text ELSE Json("empty")
    BY <2>1, LoadsBack, ArgumentsAssumption
  <2>3. [i EXCEPT !.arguments = IF @ = Json("x") THEN @ ELSE Json("empty")] = o
    BY <2>1, <2>2
  <2>4. OutputBlocks(i) = <<b>>
    BY <1>3, <2>1 DEF OutputBlocks
  <2>5. SeenOutput(i) = <<[i EXCEPT !.arguments = IF @ = Json("x") THEN @ ELSE Json("empty")]>>
    BY <1>3 DEF SeenOutput
  <2>6. b.type = "tool_use" /\ CallItem(b) = o
    BY DEF ToolUse, CallItem
  <2>7. BlockSays("assistant", b) = By("assistant", <<o>>)
    BY <2>6 DEF BlockSays
  <2> HIDE DEF b, o
  <2> QED BY <2>3, <2>4, <2>5, <2>7, BlocksSayOne, SeqOne
<1>4. CASE i.item = "reasoning"
  <2>2. OutputBlocks(i) = <<>> /\ SeenOutput(i) = <<>>
    BY <1>4 DEF OutputBlocks, SeenOutput
  <2> QED BY <2>2, SeqEmpty, BlocksSayNothing, ByFew
<1> QED BY <1>1, <1>2, <1>3, <1>4 DEF AnswerItem

LEMMA AnswerSaid ==
  ASSUME NEW out, IsSeq(out), \A k \in 1..Len(out) : AnswerItem(out[k])
  PROVE  LET content == FlattenSeq([k \in DOMAIN out |-> OutputBlocks(out[k])])
             seen == FlattenSeq([k \in DOMAIN out |-> SeenOutput(out[k])])
         IN IsSeq(content) /\ IsSeq(seen) /\ BlocksSay("assistant", content) = By("assistant", seen)
<1> DEFINE o == [k \in DOMAIN out |-> OutputBlocks(out[k])]
           s == [k \in DOMAIN out |-> SeenOutput(out[k])]
           h == [k \in DOMAIN out |-> By("assistant", SeenOutput(out[k]))]
<1>1. DOMAIN out = 1..Len(out) /\ Len(out) \in Nat
  BY SeqIs
<1>2. /\ DOMAIN o = 1..Len(out) /\ o = [k \in 1..Len(out) |-> o[k]]
      /\ DOMAIN s = 1..Len(out) /\ s = [k \in 1..Len(out) |-> s[k]]
      /\ DOMAIN h = 1..Len(out) /\ h = [k \in 1..Len(out) |-> h[k]]
  BY <1>1
<1>3. \A k \in 1..Len(out) : /\ o[k] = OutputBlocks(out[k]) /\ s[k] = SeenOutput(out[k])
                             /\ h[k] = By("assistant", SeenOutput(out[k]))
  BY <1>1
<1> HIDE DEF o, s, h
<1>4. IsSeq(o) /\ Len(o) = Len(out) /\ IsSeq(s) /\ Len(s) = Len(out) /\ IsSeq(h) /\ Len(h) = Len(out)
  BY <1>1, <1>2, MadeSeq
<1>5. \A k \in 1..Len(out) : /\ IsSeq(o[k]) /\ IsSeq(s[k])
                             /\ h[k] = BlocksSay("assistant", o[k]) /\ h[k] = By("assistant", s[k])
  BY <1>3, AnswerItemSaid
<1>6. IsSeqs(o) /\ IsSeqs(s)
  BY <1>4, <1>5, SeqOfSeqs
<1>7. By("assistant", FlattenSeq(s)) = FlattenSeq(h)
  BY <1>4, <1>5, <1>6, ByThrough
<1>8. BlocksSay("assistant", FlattenSeq(o)) = FlattenSeq(h)
  BY <1>4, <1>5, <1>6, BlocksSayThrough
<1>9. IsSeq(FlattenSeq(o)) /\ IsSeq(FlattenSeq(s))
  BY <1>6, SeqsAre
<1> QED BY <1>7, <1>8, <1>9 DEF o, s

-----------------------------------------------------------------------------
\* What an Anthropic client says in a turn is what its message says.

LEMMA LastIn ==
  ASSUME NEW s, IsSeq(s), s # <<>>
  PROVE  s[Len(s)] \in ToSet(s)
<1>1. Len(s) \in Nat /\ s = [k \in 1..Len(s) |-> s[k]] /\ \A k \in 1..Len(s) : s[k] \in ToSet(s)
  BY SeqIs
<1>2. Len(s) # 0
  <2>1. ASSUME Len(s) = 0 PROVE FALSE
    <3>1. DOMAIN s = {} /\ s = [k \in {} |-> s[k]]
      BY <1>1, <2>1
    <3>2. s = <<>>
      BY <3>1
    <3> QED BY <3>2
  <2> QED BY <2>1
<1> QED BY <1>1, <1>2

LEMMA UsesSeq ==
  ASSUME NEW c, IsSeq(c)
  PROVE  LET uses == OfType(c, "tool_use") IN IsSeq([k \in DOMAIN uses |-> uses[k].id])
<1> DEFINE uses == OfType(c, "tool_use")
           r == [k \in DOMAIN uses |-> uses[k].id]
<1>1. Len(uses) \in Nat /\ DOMAIN uses = 1..Len(uses)
  BY OfTypeIs
<1> HIDE DEF uses
<1>2. DOMAIN r = 1..Len(uses) /\ r = [k \in 1..Len(uses) |-> r[k]]
  BY <1>1
<1> HIDE DEF r
<1>3. IsSeq(r)
  BY <1>1, <1>2, MadeSeq
<1> QED BY <1>3 DEF r, uses

LEMMA OpenCallsSeq ==
  ASSUME wire \in {"native", "responses"}, HasContents(history)
  PROVE  IsSeq(OpenCalls)
<1>1. CASE history = <<>>
  BY <1>1, SeqEmpty DEF OpenCalls
<1>2. CASE history # <<>>
  <2> DEFINE m == history[Len(history)]
  <2>1. IsSeq(m.content)
    BY <1>2, LastIn DEF HasContents
  <2>2. OpenCalls = CallsOf(m)
    BY <1>2 DEF OpenCalls
  <2> HIDE DEF m
  <2>3. IsSeq(CallsOf(m))
    BY <2>1, UsesSeq, SeqEmpty DEF CallsOf
  <2> QED BY <2>2, <2>3
<1> QED BY <1>1, <1>2

LEMMA PartsSaid ==
  ASSUME NEW blocks, IsSeq(blocks), NEW role,
         \A k \in 1..Len(blocks) : blocks[k].type \in {"text", "image"}
  PROVE  LET parts == [k \in DOMAIN blocks |-> PartOf(blocks[k], role)[1]]
         IN IsSeq(parts) /\ BlocksSay(role, blocks) = By(role, parts)
<1> DEFINE parts == [k \in DOMAIN blocks |-> PartOf(blocks[k], role)[1]]
<1>1. DOMAIN blocks = 1..Len(blocks) /\ Len(blocks) \in Nat
  BY SeqIs
<1>2. DOMAIN parts = 1..Len(blocks) /\ parts = [k \in 1..Len(blocks) |-> parts[k]]
      /\ \A k \in 1..Len(blocks) : parts[k] = PartOf(blocks[k], role)[1]
  BY <1>1
<1> HIDE DEF parts
<1>3. IsSeq(parts) /\ Len(parts) = Len(blocks)
  BY <1>1, <1>2, MadeSeq
<1>4. ASSUME NEW k \in 1..Len(blocks) PROVE BlockSays(role, blocks[k]) = By(role, <<parts[k]>>)
  <2> DEFINE b == blocks[k]
  <2>1. PICK x : PartOf(b, role) = <<x>>
    BY DEF PartOf
  <2>2. parts[k] = x
    BY <1>2, <2>1
  <2>3. BlockSays(role, b) = By(role, PartOf(b, role))
    BY DEF BlockSays
  <2> QED BY <2>1, <2>2, <2>3
<1>5. BlocksSay(role, blocks) = By(role, parts)
  BY ONLY <1>3, <1>4, BlocksSayOnes, IsSeq(blocks)
<1> QED BY <1>3, <1>5 DEF parts

\* Results of calls, of which the first is a text and the others are blocks.
ResultBlock(ids, k) ==
  [type |-> "tool_result", id |-> ids[k],
   content |-> IF k = 1 THEN [form |-> "text", text |-> <<Result(k)>>]
               ELSE [form |-> "blocks", blocks |-> <<Text(<<Result(k)>>), Image>>]]
ResultOutput(ids, k) ==
  [item |-> "function_call_output", id |-> ids[k],
   text |-> IF k = 1 THEN <<Result(k)>> ELSE <<Result(k)>> \o Json("image")]

LEMMA JsonSeq ==
  ASSUME NEW x
  PROVE  IsSeq(Json(x)) /\ Len(Json(x)) = 2 /\ Json(x) # <<>>
<1> DEFINE a == [json |-> x, part |-> 1]
           b == [json |-> x, part |-> 2]
<1>1. Json(x) = <<a, b>>
  BY DEF Json
<1> HIDE DEF a, b
<1>2. <<a, b>> \in Seq({a, b}) /\ Len(<<a, b>>) = 2 /\ <<a, b>> # <<>>
  OBVIOUS
<1> QED BY <1>1, <1>2 DEF IsSeq

LEMMA TwoOf ==
  ASSUME NEW x, NEW y
  PROVE  [j \in 1..2 |-> IF j = 1 THEN x ELSE y] = <<x>> \o <<y>>
<1> DEFINE a == [j \in 1..2 |-> IF j = 1 THEN x ELSE y]
           s == <<x>>
           t == <<y>>
<1>1. DOMAIN a = 1..2 /\ a = [j \in 1..2 |-> a[j]] /\ a[1] = x /\ a[2] = y
  OBVIOUS
<1>2. IsSeq(s) /\ Len(s) = 1 /\ s[1] = x /\ IsSeq(t) /\ Len(t) = 1 /\ t[1] = y
  BY SeqOne
<1> HIDE DEF a, s, t
<1>3. IsSeq(a) /\ Len(a) = 2
  BY <1>1, MadeSeq
<1> DEFINE u == s \o t
<1>4. IsSeq(u) /\ Len(u) = 2 /\ u[1] = x /\ u[2] = y
  <2>1. IsSeq(s) /\ IsSeq(t)
    BY <1>2
  <2>2. /\ IsSeq(u) /\ Len(u) = Len(s) + Len(t)
        /\ \A k \in 1..Len(s) : u[k] = s[k]
        /\ \A k \in 1..Len(t) : u[k + Len(s)] = t[k]
    BY ONLY <2>1, SeqConcat
  <2> HIDE DEF u
  <2>3. 1 \in 1..Len(s) /\ 1 \in 1..Len(t) /\ 1 + Len(s) = 2
    BY <1>2
  <2> QED BY <1>2, <2>2, <2>3
<1> HIDE DEF u
<1>5. IsSeq(a) /\ IsSeq(u) /\ Len(a) = Len(u) /\ \A k \in 1..Len(a) : a[k] = u[k]
  BY <1>1, <1>3, <1>4
<1>6. a = u
  BY ONLY <1>5, SeqSame
<1> QED BY <1>6 DEF a, s, t, u

LEMMA ResultSaid ==
  ASSUME NEW ids, NEW k
  PROVE  BlockSays("user", ResultBlock(ids, k)) = By("user", <<ResultOutput(ids, k)>>)
<1> DEFINE r == <<Result(k)>>
           b == ResultBlock(ids, k)
           c == b.content
           J == Json("image")
<1>1. b.type = "tool_result" /\ b.id = ids[k]
      /\ c = IF k = 1 THEN [form |-> "text", text |-> r] ELSE [form |-> "blocks", blocks |-> <<Text(r), Image>>]
  BY DEF ResultBlock
<1>2. ResultText(c) = IF k = 1 THEN r ELSE r \o J
  <2>1. CASE k = 1
    <3>1. c.form = "text" /\ c.text = r
      BY <1>1, <2>1
    <3> QED BY <3>1, <2>1 DEF ResultText
  <2>2. CASE k # 1
    <3> DEFINE bs == <<Text(r), Image>>
               a == [j \in DOMAIN bs |-> IF bs[j].type = "text" THEN bs[j].text ELSE Json(bs[j].type)]
    <3>1. c.form = "blocks" /\ c.blocks = bs
      BY <1>1, <2>2
    <3>2. ResultText(c) = FlattenSeq(a)
      BY <3>1 DEF ResultText
    <3>3. bs[1].type = "text" /\ bs[1].text = r /\ bs[2].type = "image" /\ DOMAIN bs = 1..2
      BY DEF Text, Image
    <3> HIDE DEF bs, r
    <3>4. a = [j \in 1..2 |-> IF j = 1 THEN r ELSE J]
      BY <3>3
    <3> HIDE DEF a, J
    <3>5. a = <<r>> \o <<J>>
      BY <3>4, TwoOf
    <3>6. IsSeq(r) /\ IsSeq(J)
      BY SeqOne, JsonSeq DEF r, J
    <3>7. IsSeqs(<<r>>) /\ IsSeqs(<<J>>) /\ FlattenSeq(<<r>>) = r /\ FlattenSeq(<<J>>) = J
      BY <3>6, SeqOne
    <3>8. FlattenSeq(<<r>> \o <<J>>) = FlattenSeq(<<r>>) \o FlattenSeq(<<J>>)
      BY <3>7, FlatConcat
    <3> QED BY <3>2, <3>5, <3>7, <3>8, <2>2
  <2> QED BY <2>1, <2>2
<1>3. CallItem(b) = ResultOutput(ids, k)
  BY <1>1, <1>2 DEF CallItem, ResultOutput
<1>4. BlockSays("user", b) = By("user", <<CallItem(b)>>)
  BY <1>1 DEF BlockSays
<1> QED BY <1>3, <1>4

\* What the client says in its one message, block by block.
SaysIt(m, said0) ==
  /\ IsSeq(m.content)
  /\ wire = "native" => said0 = By(m.role, m.content)
  /\ wire = "responses" => said0 = BlocksSay(m.role, m.content)

LEMMA MessageTurnIs ==
  ASSUME wire \in {"native", "responses"}, HasContents(history), NEW t \in MessageTurns
  PROVE  \E m : t.messages = <<m>> /\ t.system = <<>> /\ SaysIt(m, t.said)
<1> DEFINE ids == OpenCalls
           words == Text(Words(turn, 1))
           results == [k \in DOMAIN ids |-> ResultBlock(ids, k)]
           outputs == [k \in DOMAIN ids |-> ResultOutput(ids, k)]
           parts(blocks) == [k \in DOMAIN blocks |-> PartOf(blocks[k], "user")[1]]
           told(blocks) == IF wire = "native" THEN results \o blocks ELSE outputs \o parts(blocks)
<1>1. PICK blocks \in {<<words>>, <<Image, words>>} \union (IF ids = <<>> THEN {} ELSE {<<>>}) :
        t = Turn(<<[role |-> "user", content |-> results \o blocks]>>, <<>>, told(blocks))
  BY DEF MessageTurns, ResultBlock, ResultOutput
<1>2. IsSeq(ids) /\ DOMAIN ids = 1..Len(ids) /\ Len(ids) \in Nat
  BY OpenCallsSeq, SeqIs
<1>3. IsSeq(blocks) /\ \A k \in 1..Len(blocks) : blocks[k].type \in {"text", "image"}
  <2>1. CASE blocks = <<words>>
    BY <2>1, SeqOne DEF Text
  <2>2. CASE blocks = <<Image, words>>
    <3>1. Image.type = "image" /\ words.type = "text"
      BY DEF Image, Text
    <3> HIDE DEF words
    <3>2. blocks \in Seq({Image, words}) /\ Len(blocks) = 2 /\ blocks[1] = Image /\ blocks[2] = words
      BY <2>2
    <3> QED BY <3>1, <3>2 DEF IsSeq
  <2>3. CASE blocks = <<>>
    BY <2>3, SeqEmpty
  <2> HIDE DEF words
  <2> QED BY <1>1, <2>1, <2>2, <2>3
<1>4. /\ DOMAIN results = 1..Len(ids) /\ results = [k \in 1..Len(ids) |-> results[k]]
      /\ DOMAIN outputs = 1..Len(ids) /\ outputs = [k \in 1..Len(ids) |-> outputs[k]]
      /\ \A k \in 1..Len(ids) : results[k] = ResultBlock(ids, k) /\ outputs[k] = ResultOutput(ids, k)
  BY <1>2
<1> HIDE DEF results, outputs, ids, words
<1>5. IsSeq(results) /\ Len(results) = Len(ids) /\ IsSeq(outputs) /\ Len(outputs) = Len(ids)
  BY <1>2, <1>4, MadeSeq
<1>6. BlocksSay("user", results) = By("user", outputs)
  <2>1. \A k \in 1..Len(results) : BlockSays("user", results[k]) = By("user", <<outputs[k]>>)
    BY <1>4, <1>5, ResultSaid
  <2> QED BY ONLY <1>5, <2>1, BlocksSayOnes
<1>7. IsSeq(parts(blocks)) /\ BlocksSay("user", blocks) = By("user", parts(blocks))
  BY <1>3, PartsSaid
<1> DEFINE m == [role |-> "user", content |-> results \o blocks]
<1> HIDE DEF parts
<1>8. BlocksSay("user", results \o blocks) = By("user", outputs \o parts(blocks))
  <2>1. BlocksSay("user", results \o blocks) = BlocksSay("user", results) \o BlocksSay("user", blocks)
    BY <1>3, <1>5, BlocksSayConcat
  <2>2. By("user", outputs \o parts(blocks)) = By("user", outputs) \o By("user", parts(blocks))
    BY <1>5, <1>7, ByConcat
  <2> QED BY <1>6, <1>7, <2>1, <2>2
<1>9. IsSeq(m.content)
  BY <1>3, <1>5, SeqConcat
<1>10. t.messages = <<m>> /\ t.system = <<>> /\ t.said = By("user", told(blocks))
  BY <1>1 DEF Turn
<1>11. m.role = "user" /\ m.content = results \o blocks
  OBVIOUS
<1>12. told(blocks) = IF wire = "native" THEN results \o blocks ELSE outputs \o parts(blocks)
  OBVIOUS
<1> HIDE DEF m, told
<1> QED BY <1>8, <1>9, <1>10, <1>11, <1>12 DEF SaysIt

-----------------------------------------------------------------------------
\* What a codex client's items say.

AgentParts(ps) == IsSeq(ps) /\ \A k \in DOMAIN ps : ps[k].type \in {"input_text", "encrypted_content"}
HasKeys(ts) == IsSeq(ts) /\ \A t \in ToSet(ts) : "key" \in DOMAIN t
ToldForm(i) ==
  /\ i.item \in CallItems => (i.payload.form = "object" => i.payload.value \in Objects)
  /\ i.item = "message" => IsSeq(i.parts)
  /\ i.item = "agent_message" => AgentParts(i.parts)
  /\ i.item = "additional_tools" => HasKeys(i.tools)
AllTold(is) == IsSeq(is) /\ \A i \in ToSet(is) : ToldForm(i)

LEMMA BySeq ==
  ASSUME NEW s, IsSeq(s), NEW a, DOMAIN a = DOMAIN s, a = [k \in DOMAIN s |-> a[k]], NEW role
  PROVE  IsSeq(a) /\ IsSeq(By(role, a))
<1>1. IsSeq(a)
  BY MadeAlong
<1> QED BY <1>1, ByIs

LEMMA ByOneSeq ==
  ASSUME NEW role, NEW x
  PROVE  IsSeq(By(role, <<x>>))
BY SeqOne, ByIs

AgentAtoms(i) ==
  By("user", [k \in DOMAIN OfType(i.parts, "input_text") |-> Text(OfType(i.parts, "input_text")[k].text)])

LEMMA AtomsOfKinds ==
  ASSUME NEW i
  PROVE  /\ i.item = "message" => CodexAtoms(i) = MessageAtoms(i)
         /\ i.item \in TextItems =>
              CodexAtoms(i) = By(IF i.item = "output_text" THEN "assistant" ELSE "user", <<Text(i.text)>>)
         /\ i.item = "agent_message" => CodexAtoms(i) = AgentAtoms(i)
         /\ i.item \in CallItems =>
              CodexAtoms(i) = By("assistant", <<ToolUse(i.id, IF i.payload.form = "object" THEN i.payload.value
                                                              ELSE Loads(i.payload.text))>>)
         /\ i.item \in OutputItems => CodexAtoms(i) = By("user", <<ToolResult(i.id, i.text)>>)
         /\ i.item = "reasoning" =>
              CodexAtoms(i) = IF i.summary.valid /\ i.summary.text # <<>>
                              THEN By("assistant", <<[type |-> "thinking", text |-> i.summary.text]>>) ELSE <<>>
         /\ i.item = "additional_tools" => CodexAtoms(i) = <<>>
         /\ i.item \notin TextItems \union CallItems \union OutputItems
                            \union {"message", "agent_message", "reasoning", "additional_tools"} =>
              CodexAtoms(i) = By("user", <<i>>)
<1> DEFINE a == MessageAtoms(i)
           b == By(IF i.item = "output_text" THEN "assistant" ELSE "user", <<Text(i.text)>>)
           c == AgentAtoms(i)
           d == By("assistant", <<ToolUse(i.id, IF i.payload.form = "object" THEN i.payload.value
                                                ELSE Loads(i.payload.text))>>)
           e == By("user", <<ToolResult(i.id, i.text)>>)
           g == IF i.summary.valid /\ i.summary.text # <<>>
                THEN By("assistant", <<[type |-> "thinking", text |-> i.summary.text]>>) ELSE <<>>
           h == <<>>
           o == By("user", <<i>>)
<1>1. CodexAtoms(i) = CASE i.item = "message" -> a
                        [] i.item \in TextItems -> b
                        [] i.item = "agent_message" -> c
                        [] i.item \in CallItems -> d
                        [] i.item \in OutputItems -> e
                        [] i.item = "reasoning" -> g
                        [] i.item = "additional_tools" -> h
                        [] OTHER -> o
  BY Zenon DEF CodexAtoms, AgentAtoms
<1> HIDE DEF a, b, c, d, e, g, h, o
<1>2. /\ i.item = "message" => CodexAtoms(i) = a
      /\ i.item \in TextItems => CodexAtoms(i) = b
      /\ i.item = "agent_message" => CodexAtoms(i) = c
      /\ i.item \in CallItems => CodexAtoms(i) = d
      /\ i.item \in OutputItems => CodexAtoms(i) = e
      /\ i.item = "reasoning" => CodexAtoms(i) = g
      /\ i.item = "additional_tools" => CodexAtoms(i) = h
      /\ i.item \notin TextItems \union CallItems \union OutputItems
                         \union {"message", "agent_message", "reasoning", "additional_tools"} => CodexAtoms(i) = o
  BY <1>1 DEF TextItems, CallItems, OutputItems
<1> QED BY <1>2 DEF a, b, c, d, e, g, h, o

LEMMA CodexAtomsSeq ==
  ASSUME NEW i, ToldForm(i)
  PROVE  IsSeq(CodexAtoms(i))
<1>1. CASE i.item = "message"
  <2> DEFINE p == i.parts
             a == [k \in DOMAIN p |-> IF p[k].type \in TextItems THEN Text(p[k].text) ELSE p[k]]
  <2>1. IsSeq(p)
    BY <1>1 DEF ToldForm
  <2>2. CodexAtoms(i) = IF IsDeveloper(i) THEN <<>> ELSE By(i.role, a)
    BY <1>1, AtomsOfKinds DEF MessageAtoms
  <2>3. DOMAIN a = DOMAIN p /\ a = [k \in DOMAIN p |-> a[k]]
    OBVIOUS
  <2> HIDE DEF a, p
  <2>4. IsSeq(By(i.role, a))
    BY <2>1, <2>3, BySeq
  <2> QED BY <2>2, <2>4, SeqEmpty
<1>2. CASE i.item = "agent_message"
  <2> DEFINE p == OfType(i.parts, "input_text")
             a == [k \in DOMAIN p |-> Text(p[k].text)]
  <2>1. IsSeq(p)
    BY <1>2, OfTypeIs DEF ToldForm, AgentParts
  <2>2. CodexAtoms(i) = By("user", a)
    BY <1>2, AtomsOfKinds DEF AgentAtoms
  <2>3. DOMAIN a = DOMAIN p /\ a = [k \in DOMAIN p |-> a[k]]
    OBVIOUS
  <2> HIDE DEF a, p
  <2>4. IsSeq(By("user", a))
    BY <2>1, <2>3, BySeq
  <2> QED BY <2>2, <2>4
<1>3. CASE i.item \notin {"message", "agent_message"}
  <2>1. CodexAtoms(i) = <<>> \/ \E role, x : CodexAtoms(i) = By(role, <<x>>)
    BY <1>3 DEF CodexAtoms, TextItems, CallItems, OutputItems
  <2> QED BY <2>1, SeqEmpty, ByOneSeq
<1> QED BY <1>1, <1>2, <1>3

LEMMA AtomsMap ==
  ASSUME NEW X, NEW f, f = [i \in X |-> CodexAtoms(i)],
         NEW is, AllTold(is), ToSet(is) \subseteq X
  PROVE  Maps(f, is) /\ AtomsOf(is) = FlatMap(f, is)
<1>1. DOMAIN is = 1..Len(is) /\ \A k \in DOMAIN is : is[k] \in X
  BY SeqIs DEF AllTold
<1>2. [k \in DOMAIN is |-> CodexAtoms(is[k])] = [k \in DOMAIN is |-> f[is[k]]]
  BY <1>1
<1>3. Maps(f, is)
  BY CodexAtomsSeq DEF AllTold, Maps
<1> QED BY <1>2, <1>3 DEF AtomsOf, FlatMap

LEMMA AtomsConcat ==
  ASSUME NEW s, AllTold(s), NEW t, AllTold(t)
  PROVE  /\ AllTold(s \o t) /\ AtomsOf(s \o t) = AtomsOf(s) \o AtomsOf(t)
         /\ IsSeq(AtomsOf(s))
<1> DEFINE X == ToSet(s) \union ToSet(t)
           f == [i \in X |-> CodexAtoms(i)]
<1>1. AllTold(s \o t) /\ ToSet(s \o t) = X
  BY SeqConcat DEF AllTold
<1> HIDE DEF f
<1>2. /\ Maps(f, s) /\ AtomsOf(s) = FlatMap(f, s)
      /\ Maps(f, t) /\ AtomsOf(t) = FlatMap(f, t)
      /\ AtomsOf(s \o t) = FlatMap(f, s \o t)
  BY <1>1, AtomsMap DEF f
<1>3. FlatMap(f, s \o t) = FlatMap(f, s) \o FlatMap(f, t)
  BY <1>2, FlatMapConcat
<1>4. IsSeq(FlatMap(f, s))
  BY <1>2, FlatMapParts
<1> QED BY <1>1, <1>2, <1>3, <1>4

LEMMA AtomsOne ==
  ASSUME NEW i, ToldForm(i)
  PROVE  AllTold(<<i>>) /\ AtomsOf(<<i>>) = CodexAtoms(i)
<1> DEFINE f == [x \in {i} |-> CodexAtoms(x)]
<1>1. AllTold(<<i>>) /\ ToSet(<<i>>) = {i}
  BY SeqOne DEF AllTold
<1>2. f[i] = CodexAtoms(i) /\ IsSeq(f[i])
  BY CodexAtomsSeq
<1> HIDE DEF f
<1>3. AtomsOf(<<i>>) = FlatMap(f, <<i>>)
  BY <1>1, AtomsMap DEF f
<1> QED BY <1>1, <1>2, <1>3, FlatMapOne

LEMMA AtomsNothing == AllTold(<<>>) /\ AtomsOf(<<>>) = <<>>
<1>1. [k \in DOMAIN <<>> |-> CodexAtoms(<<>>[k])] = <<>>
  OBVIOUS
<1> QED BY <1>1, SeqEmpty DEF AtomsOf, AllTold

\* What an item's parts become says what the item said.
LEMMA AtomsThrough ==
  ASSUME NEW ps, IsSeqs(ps), \A k \in 1..Len(ps) : AllTold(ps[k]),
         NEW hs, IsSeq(hs), Len(hs) = Len(ps), \A k \in 1..Len(ps) : hs[k] = AtomsOf(ps[k])
  PROVE  AllTold(FlattenSeq(ps)) /\ AtomsOf(FlattenSeq(ps)) = FlattenSeq(hs)
<1> DEFINE X == ToSet(FlattenSeq(ps))
           f == [i \in X |-> CodexAtoms(i)]
<1>1. \A x : x \in X <=> \E k \in 1..Len(ps) : x \in ToSet(ps[k])
  BY FlatElementsAre
<1>2. IsSeq(ps) /\ IsSeq(FlattenSeq(ps))
  BY SeqsAre
<1>3. AllTold(FlattenSeq(ps))
  BY <1>1, <1>2 DEF AllTold
<1>4. \A k \in 1..Len(ps) : ToSet(ps[k]) \subseteq X
  BY <1>1
<1>5. f = [i \in X |-> CodexAtoms(i)]
  OBVIOUS
<1> HIDE DEF f, X
<1>6. \A k \in 1..Len(ps) : Maps(f, ps[k]) /\ hs[k] = FlatMap(f, ps[k])
  BY <1>4, <1>5, AtomsMap
<1>7. FlatMap(f, FlattenSeq(ps)) = FlattenSeq(hs)
  BY <1>2, <1>6, FlatMapThrough
<1>8. AtomsOf(FlattenSeq(ps)) = FlatMap(f, FlattenSeq(ps))
  BY <1>3, <1>5, AtomsMap DEF X
<1> QED BY <1>3, <1>7, <1>8

-----------------------------------------------------------------------------
\* A projected item says what it said.

SaysAs(i, ps) ==
  \/ ps = <<>> /\ CodexAtoms(i) = <<>>
  \/ \E x : ps = <<x>> /\ ToldForm(x) /\ CodexAtoms(x) = CodexAtoms(i)

LEMMA CallSaysAs ==
  ASSUME NEW i, ItemForm(i), ToldForm(i), i.item \in CallItems
  PROVE  SaysAs(i, ProjectItem(i).items)
<1>1. PICK type, id, payload, status :
             /\ i = Call(type, id, payload, status)
             /\ type \in CallItems /\ payload.form \in {"text", "object"}
  <2>1. \A opaque, summary, shown :
           i # [item |-> "reasoning", opaque |-> opaque, summary |-> summary, shown |-> shown]
    <3> TAKE opaque, summary, shown
    <3>1. [item |-> "reasoning", opaque |-> opaque, summary |-> summary, shown |-> shown].item = "reasoning"
      OBVIOUS
    <3> QED BY <3>1 DEF CallItems
  <2>2. \A role, parts : i # MessageItem(role, parts)
    <3> TAKE role, parts
    <3>1. MessageItem(role, parts).item = "message"
      BY DEF MessageItem
    <3> QED BY <3>1 DEF CallItems
  <2> QED BY <2>1, <2>2 DEF ItemForm
<1> DEFINE kept == IF type = "custom_tool_call" /\ status \notin StatusesKept THEN "none" ELSE status
           x == Call(type, id, AsText(payload), kept)
<1>2. i = [item |-> type, id |-> id, payload |-> payload, status |-> status]
  BY <1>1 DEF Call
<1>3. i.item = type /\ i.payload = payload /\ i.status = status /\ i.id = id
  BY <1>2
<1>4. ProjectItem(i).items = <<x>>
  <2>1. ProjectItem(i) = ProjectCall(i)
    BY DEF ProjectItem, TextItems, CallItems, OutputItems, PassedItems
  <2>2. ProjectCall(i) = Becomes(<<[i EXCEPT !.payload = AsText(payload), !.status = kept]>>)
    BY <1>3 DEF ProjectCall
  <2>3. [i EXCEPT !.payload = AsText(payload), !.status = kept] = x
    <3> HIDE DEF kept
    <3>1. [i EXCEPT !.payload = AsText(payload), !.status = kept]
            = [[i EXCEPT !.payload = AsText(payload)] EXCEPT !.status = kept]
      BY Zenon
    <3>2. [i EXCEPT !.payload = AsText(payload)]
            = [item |-> type, id |-> id, payload |-> AsText(payload), status |-> status]
      BY <1>2
    <3>3. [[item |-> type, id |-> id, payload |-> AsText(payload), status |-> status] EXCEPT !.status = kept]
            = [item |-> type, id |-> id, payload |-> AsText(payload), status |-> kept]
      OBVIOUS
    <3> QED BY <3>1, <3>2, <3>3, Zenon DEF Call
  <2> HIDE DEF x
  <2> QED BY <2>1, <2>2, <2>3 DEF Becomes
<1>5. x.item = type /\ x.id = id /\ x.payload = AsText(payload)
  BY DEF Call
<1> HIDE DEF x, kept
<1> DEFINE tells(p) == IF p.form = "object" THEN p.value ELSE Loads(p.text)
<1>6. /\ CodexAtoms(i) = By("assistant", <<ToolUse(id, tells(payload))>>)
      /\ CodexAtoms(x) = By("assistant", <<ToolUse(id, tells(AsText(payload)))>>)
  <2>1. i.item \in CallItems /\ x.item \in CallItems
    BY <1>3, <1>5
  <2>2. CodexAtoms(i) = By("assistant", <<ToolUse(i.id, tells(i.payload))>>)
    BY <2>1, AtomsOfKinds
  <2>3. CodexAtoms(x) = By("assistant", <<ToolUse(x.id, tells(x.payload))>>)
    BY <2>1, AtomsOfKinds
  <2> QED BY <1>3, <1>5, <2>2, <2>3
<1>7. AsText(payload).form = "text" /\ tells(AsText(payload)) = tells(payload)
  <2>1. CASE payload.form = "object"
    <3>1. payload.value \in Objects
      BY <1>3, <2>1 DEF ToldForm
    <3>2. AsText(payload) = [form |-> "text", text |-> Json(payload.value)]
      BY <2>1 DEF AsText, Plain
    <3> QED BY <2>1, <3>1, <3>2, LoadsBack
  <2>2. CASE payload.form # "object"
    BY <1>1, <2>2 DEF AsText
  <2> QED BY <2>1, <2>2
<1>8. ToldForm(x)
  BY <1>1, <1>5, <1>7 DEF ToldForm, CallItems
<1> QED BY <1>4, <1>6, <1>7, <1>8 DEF SaysAs

LEMMA ReasoningIs ==
  ASSUME NEW i, ItemForm(i), i.item = "reasoning"
  PROVE  \E opaque, summary, shown :
           i = [item |-> "reasoning", opaque |-> opaque, summary |-> summary, shown |-> shown]
<1>1. \A type, id, payload, status : type \in CallItems => i # Call(type, id, payload, status)
  <2> TAKE type, id, payload, status
  <2>1. Call(type, id, payload, status).item = type
    BY DEF Call
  <2> QED BY <2>1 DEF CallItems
<1>2. \A role, parts : i # MessageItem(role, parts)
  <2> TAKE role, parts
  <2>1. MessageItem(role, parts).item = "message"
    BY DEF MessageItem
  <2> QED BY <2>1
<1> QED BY <1>1, <1>2 DEF ItemForm

LEMMA ReasoningSaysAs ==
  ASSUME NEW i, ItemForm(i), i.item = "reasoning"
  PROVE  SaysAs(i, ProjectItem(i).items) /\ SaysAs(i, StripItem(i))
<1>1. PICK opaque, summary, shown :
             i = [item |-> "reasoning", opaque |-> opaque, summary |-> summary, shown |-> shown]
  BY ReasoningIs
<1> DEFINE R(o, s) == [item |-> "reasoning", opaque |-> o, summary |-> s, shown |-> shown]
           empty == [valid |-> TRUE, text |-> <<>>]
           says(s) == IF s.valid /\ s.text # <<>>
                      THEN By("assistant", <<[type |-> "thinking", text |-> s.text]>>) ELSE <<>>
<1>2. \A o, s : /\ R(o, s).item = "reasoning" /\ R(o, s).opaque = o /\ R(o, s).summary = s /\ R(o, s).shown = shown
                /\ \A p : [R(o, s) EXCEPT !.opaque = p] = R(p, s)
                /\ [R(o, s) EXCEPT !.summary = empty] = R(o, empty)
  <2> HIDE DEF empty
  <2> QED OBVIOUS
<1>3. i = R(opaque, summary)
  BY <1>1
<1> HIDE DEF R
<1>4. \A o, s : CodexAtoms(R(o, s)) = says(s) /\ ToldForm(R(o, s))
  BY <1>2 DEF CodexAtoms, ToldForm, CallItems, TextItems, OutputItems
<1>5. says(empty) = <<>>
  OBVIOUS
<1> HIDE DEF says, empty
<1> DEFINE o == IF opaque = "bedrock" THEN opaque ELSE "none"
<1>6. ProjectItem(i) = ProjectReasoning(i)
  <2>1. i.item = "reasoning"
    OBVIOUS
  <2> QED BY ONLY <2>1 DEF ProjectItem, TextItems, CallItems, OutputItems, PassedItems
<1>7. [i EXCEPT !.opaque = IF @ = "bedrock" THEN @ ELSE "none"] = R(o, summary)
  BY <1>2, <1>3
<1>8. ProjectReasoning(i) = IF summary.valid THEN Becomes(<<R(o, summary)>>)
                            ELSE IF o = "bedrock" THEN Becomes(<<R(o, empty)>>) ELSE Becomes(<<>>)
  <2> HIDE DEF o
  <2>1. i.summary = summary
    BY <1>2, <1>3
  <2>2. R(o, summary).opaque = o /\ [R(o, summary) EXCEPT !.summary = empty] = R(o, empty)
    BY <1>2
  <2> QED BY <1>7, <2>1, <2>2 DEF ProjectReasoning, empty
<1>9. ~summary.valid => says(summary) = <<>>
  BY DEF says
<1> HIDE DEF o
<1>10. SaysAs(i, ProjectItem(i).items)
  <2>1. CASE summary.valid
    BY <1>3, <1>4, <1>6, <1>8, <2>1 DEF Becomes, SaysAs
  <2>2. CASE ~summary.valid /\ o = "bedrock"
    <3>1. ProjectItem(i).items = <<R(o, empty)>> /\ CodexAtoms(R(o, empty)) = CodexAtoms(i)
      BY <1>3, <1>4, <1>5, <1>6, <1>8, <1>9, <2>2 DEF Becomes
    <3> QED BY <1>4, <3>1 DEF SaysAs
  <2>3. CASE ~summary.valid /\ o # "bedrock"
    BY <1>3, <1>4, <1>6, <1>8, <1>9, <2>3 DEF Becomes, SaysAs
  <2> QED BY <2>1, <2>2, <2>3
<1>11. SaysAs(i, StripItem(i))
  <2>1. i.item = "reasoning" /\ i.opaque = opaque /\ i.summary = summary /\ i.shown = shown
        /\ [i EXCEPT !.opaque = "none"] = R("none", summary)
    BY <1>2, <1>3
  <2>2. CASE opaque = "none"
    <3>1. StripItem(i) = <<i>> /\ ToldForm(i)
      BY <1>3, <1>4, <2>1, <2>2 DEF StripItem
    <3> QED BY <3>1 DEF SaysAs
  <2>3. CASE opaque # "none" /\ ShowsReasoning(i)
    <3>1. StripItem(i) = <<R("none", summary)>>
      BY <2>1, <2>3 DEF StripItem
    <3> QED BY <1>3, <1>4, <3>1 DEF SaysAs
  <2>4. CASE opaque # "none" /\ ~ShowsReasoning(i)
    <3>1. StripItem(i) = <<>>
      BY <2>1, <2>4 DEF StripItem
    <3>2. says(summary) = <<>>
      BY <2>1, <2>4 DEF ShowsReasoning, says
    <3> QED BY <1>3, <1>4, <3>1, <3>2 DEF SaysAs
  <2> QED BY <2>2, <2>3, <2>4
<1> QED BY <1>10, <1>11

Spoken(p) == IF p.type \in TextItems THEN Text(p.text) ELSE p

LEMMA MessageSays ==
  ASSUME NEW role, role # "developer", NEW parts
  PROVE  CodexAtoms(MessageItem(role, parts)) = By(role, [k \in DOMAIN parts |-> Spoken(parts[k])])
<1> DEFINE x == MessageItem(role, parts)
           a == [k \in DOMAIN parts |-> IF parts[k].type \in TextItems THEN Text(parts[k].text) ELSE parts[k]]
<1>1. x.item = "message" /\ x.role = role /\ x.parts = parts
  BY DEF MessageItem
<1> HIDE DEF x
<1>2. MessageAtoms(x) = By(role, a)
  BY <1>1 DEF MessageAtoms, IsDeveloper
<1>3. a = [k \in DOMAIN parts |-> Spoken(parts[k])]
  BY DEF Spoken
<1>4. CodexAtoms(x) = MessageAtoms(x)
  BY <1>1, AtomsOfKinds
<1> QED BY <1>2, <1>3, <1>4 DEF x

LEMMA MessageTold ==
  ASSUME NEW role, NEW parts, IsSeq(parts)
  PROVE  ToldForm(MessageItem(role, parts))
<1> DEFINE x == MessageItem(role, parts)
<1>1. x.item = "message" /\ x.parts = parts
  BY DEF MessageItem
<1> HIDE DEF x
<1>2. ToldForm(x)
  BY <1>1 DEF ToldForm, CallItems
<1> QED BY <1>2 DEF x

LEMMA WordSpoken ==
  ASSUME NEW t
  PROVE  Spoken(InputText(t)) = Text(t)
BY DEF Spoken, InputText, TextItems

LEMMA FewSpoken ==
  ASSUME NEW t, NEW role, role # "developer"
  PROVE  /\ CodexAtoms(MessageItem(role, <<InputText(t)>>)) = By(role, <<Text(t)>>)
         /\ ToldForm(MessageItem(role, <<InputText(t)>>))
<1> DEFINE p == InputText(t)
           s == <<p>>
<1>1. Spoken(p) = Text(t)
  BY WordSpoken
<1> HIDE DEF p
<1>2. [k \in DOMAIN s |-> Spoken(s[k])] = <<Text(t)>>
  <2>1. DOMAIN s = 1..1 /\ s[1] = p
    OBVIOUS
  <2>2. [k \in DOMAIN s |-> Spoken(s[k])] = [k \in 1..1 |-> Text(t)]
    BY <1>1, <2>1
  <2> DEFINE y == Text(t)
  <2> HIDE DEF y
  <2>3. [k \in 1..1 |-> y] = <<y>>
    OBVIOUS
  <2> QED BY <2>2, <2>3 DEF y
<1>3. IsSeq(s)
  BY SeqOne
<1>4. CodexAtoms(MessageItem(role, s)) = By(role, [k \in DOMAIN s |-> Spoken(s[k])])
  BY MessageSays
<1> QED BY <1>2, <1>3, <1>4, MessageTold DEF p

LEMMA BareTextSaysAs ==
  ASSUME NEW i, i.item \in TextItems
  PROVE  SaysAs(i, ProjectItem(i).items)
<1> DEFINE role == IF i.item = "output_text" THEN "assistant" ELSE "user"
           x == MessageItem(role, <<InputText(i.text)>>)
<1>1. ProjectItem(i) = Becomes(<<x>>)
  <2>1. ProjectItem(i) = ProjectBareText(i)
    BY DEF ProjectItem, TextItems, CallItems, OutputItems, PassedItems
  <2> QED BY <2>1 DEF ProjectBareText
<1>2. CodexAtoms(i) = By(role, <<Text(i.text)>>)
  BY AtomsOfKinds
<1>3. role # "developer"
  OBVIOUS
<1> HIDE DEF role
<1>4. ToldForm(x) /\ CodexAtoms(x) = By(role, <<Text(i.text)>>)
  BY <1>3, FewSpoken
<1> HIDE DEF x
<1>5. ProjectItem(i).items = <<x>>
  BY <1>1 DEF Becomes
<1> QED BY <1>2, <1>4, <1>5 DEF SaysAs

\* The words of another agent are all that is not opaque.
LEMMA AgentSaysAs ==
  ASSUME NEW i, i.item = "agent_message", ToldForm(i), ProjectItem(i).safe
  PROVE  SaysAs(i, ProjectItem(i).items)
<1> DEFINE p == i.parts
           I == {k \in DOMAIN p : p[k].type # "encrypted_content"}
           J == {k \in DOMAIN p : p[k].type = "input_text"}
           words == Selected(p, I)
           told == [k \in DOMAIN words |-> InputText(words[k].text)]
           texts == [k \in DOMAIN words |-> Text(words[k].text)]
           x == MessageItem("user", told)
<1>1. AgentParts(p)
  BY DEF ToldForm
<1>2. I = J
  BY <1>1 DEF AgentParts
<1>3. words = OfType(p, "input_text")
  BY <1>2 DEF OfType
<1>4. IsSeq(words)
  BY <1>1, <1>3, OfTypeIs DEF AgentParts
<1>5. ProjectItem(i) = ProjectAgentMessage(i)
  BY DEF ProjectItem, TextItems, CallItems, OutputItems, PassedItems
<1>6. ProjectAgentMessage(i) =
        IF words = <<>> \/ \E k \in DOMAIN words : words[k].type \notin TextItems THEN Unmapped(i) ELSE Becomes(<<x>>)
  BY DEF ProjectAgentMessage
<1>7. CodexAtoms(i) = By("user", texts)
  <2>1. CodexAtoms(i) = AgentAtoms(i)
    BY AtomsOfKinds
  <2> QED BY <1>3, <2>1 DEF AgentAtoms
<1>8. DOMAIN told = DOMAIN words /\ told = [k \in DOMAIN words |-> told[k]]
      /\ \A k \in DOMAIN words : told[k] = InputText(words[k].text)
  OBVIOUS
<1> HIDE DEF words, told
<1>9. [k \in DOMAIN told |-> Spoken(told[k])] = texts
  BY <1>8, WordSpoken
<1>10. IsSeq(told)
  BY <1>4, <1>8, BySeq
<1>11. CodexAtoms(x) = By("user", texts) /\ ToldForm(x)
  BY <1>9, <1>10, MessageSays, MessageTold
<1> HIDE DEF x, texts
<1>12. ~Unmapped(i).safe
  BY DEF Unmapped
<1>13. ProjectItem(i) = Becomes(<<x>>)
  BY <1>5, <1>6, <1>12
<1>14. ProjectItem(i).items = <<x>>
  BY <1>13 DEF Becomes
<1> QED BY <1>7, <1>11, <1>14 DEF SaysAs

LEMMA MessageIs ==
  ASSUME NEW i, ItemForm(i), i.item = "message"
  PROVE  \E role, parts : i = MessageItem(role, parts)
<1>1. \A type, id, payload, status : type \in CallItems => i # Call(type, id, payload, status)
  <2> TAKE type, id, payload, status
  <2>1. Call(type, id, payload, status).item = type
    BY DEF Call
  <2> QED BY <2>1 DEF CallItems
<1>2. \A opaque, summary, shown :
         i # [item |-> "reasoning", opaque |-> opaque, summary |-> summary, shown |-> shown]
  <2> TAKE opaque, summary, shown
  <2>1. [item |-> "reasoning", opaque |-> opaque, summary |-> summary, shown |-> shown].item = "reasoning"
    OBVIOUS
  <2> QED BY <2>1
<1> QED BY <1>1, <1>2 DEF ItemForm

LEMMA MessageSaysAs ==
  ASSUME NEW i, ItemForm(i), ToldForm(i), i.item = "message", ~IsDeveloper(i)
  PROVE  SaysAs(i, ProjectItem(i).items)
<1>1. PICK role, p : i = MessageItem(role, p)
  BY MessageIs
<1> DEFINE q == [k \in DOMAIN p |-> IF p[k].type = "text" THEN InputText(p[k].text) ELSE p[k]]
           x == MessageItem(role, q)
<1>2. i.role = role /\ i.parts = p
  BY <1>1 DEF MessageItem
<1>3. role # "developer" /\ IsSeq(p)
  BY <1>2 DEF IsDeveloper, ToldForm
<1>4. ProjectItem(i) = ProjectMessage(i)
  BY DEF ProjectItem, TextItems, CallItems, OutputItems, PassedItems
<1>5. ProjectMessage(i) = Becomes(<<x>>)
  <2>1. ProjectMessage(i) = Becomes(<<[i EXCEPT !.parts = q]>>)
    BY <1>2 DEF ProjectMessage
  <2> HIDE DEF q
  <2>2. [i EXCEPT !.parts = q] = x
    BY <1>1 DEF MessageItem
  <2> QED BY <2>1, <2>2
<1>6. DOMAIN q = DOMAIN p /\ q = [k \in DOMAIN p |-> q[k]]
      /\ \A k \in DOMAIN p : q[k] = IF p[k].type = "text" THEN InputText(p[k].text) ELSE p[k]
  OBVIOUS
<1> HIDE DEF q
<1>7. IsSeq(q)
  BY <1>3, <1>6, BySeq
<1>8. \A k \in DOMAIN p : Spoken(q[k]) = Spoken(p[k])
  <2> TAKE k \in DOMAIN p
  <2>1. CASE p[k].type = "text"
    <3>1. Spoken(p[k]) = Text(p[k].text)
      BY <2>1 DEF Spoken, TextItems
    <3> QED BY <1>6, <2>1, <3>1, WordSpoken
  <2>2. CASE p[k].type # "text"
    BY <1>6, <2>2
  <2> QED BY <2>1, <2>2
<1>9. [k \in DOMAIN q |-> Spoken(q[k])] = [k \in DOMAIN p |-> Spoken(p[k])]
  BY <1>6, <1>8
<1>10. CodexAtoms(x) = CodexAtoms(i)
  <2>1. CodexAtoms(x) = By(role, [k \in DOMAIN q |-> Spoken(q[k])])
    BY ONLY <1>3, MessageSays
  <2>2. CodexAtoms(MessageItem(role, p)) = By(role, [k \in DOMAIN p |-> Spoken(p[k])])
    BY ONLY <1>3, MessageSays
  <2> QED BY <1>1, <1>9, <2>1, <2>2
<1>11. ToldForm(x)
  BY <1>7, MessageTold
<1> HIDE DEF x
<1>12. ProjectItem(i).items = <<x>>
  BY <1>4, <1>5 DEF Becomes
<1> QED BY <1>10, <1>11, <1>12 DEF SaysAs

LEMMA ProjectedSays ==
  ASSUME NEW i, ItemForm(i), ToldForm(i), ~IsDeveloper(i), ProjectItem(i).safe
  PROVE  SaysAs(i, ProjectItem(i).items)
<1>1. CASE i.item \in TextItems
  BY <1>1, BareTextSaysAs
<1>2. CASE i.item \in CallItems
  BY <1>2, CallSaysAs
<1>3. CASE i.item = "reasoning"
  BY <1>3, ReasoningSaysAs
<1>4. CASE i.item = "agent_message"
  BY <1>4, AgentSaysAs
<1>5. CASE i.item = "message"
  BY <1>5, MessageSaysAs
<1>6. CASE i.item \in OutputItems \union PassedItems
  <2>1. ProjectItem(i) = Becomes(<<i>>)
    BY <1>6 DEF ProjectItem, TextItems, CallItems, OutputItems, PassedItems
  <2>2. ProjectItem(i).items = <<i>>
    BY <2>1 DEF Becomes
  <2> QED BY <2>2 DEF SaysAs
<1>7. CASE i.item \notin TextItems \union CallItems \union OutputItems \union PassedItems
                         \union {"reasoning", "agent_message", "message"}
  <2>1. ProjectItem(i) = Unmapped(i)
    BY <1>7 DEF ProjectItem, TextItems, CallItems, OutputItems, PassedItems
  <2> QED BY <2>1 DEF Unmapped
<1> QED BY <1>1, <1>2, <1>3, <1>4, <1>5, <1>6, <1>7

LEMMA StrippedSays ==
  ASSUME NEW i, ItemForm(i), ToldForm(i)
  PROVE  SaysAs(i, StripItem(i))
<1>1. CASE i.item = "reasoning"
  BY <1>1, ReasoningSaysAs
<1>2. CASE i.item # "reasoning"
  <2>1. StripItem(i) = <<i>>
    BY <1>2 DEF StripItem
  <2> QED BY <2>1 DEF SaysAs
<1> QED BY <1>1, <1>2

LEMMA SaidAs ==
  ASSUME NEW i, NEW ps, SaysAs(i, ps)
  PROVE  AllTold(ps) /\ AtomsOf(ps) = CodexAtoms(i)
<1>1. CASE ps = <<>> /\ CodexAtoms(i) = <<>>
  BY <1>1, AtomsNothing
<1>2. CASE \E x : ps = <<x>> /\ ToldForm(x) /\ CodexAtoms(x) = CodexAtoms(i)
  <2>1. PICK x : ps = <<x>> /\ ToldForm(x) /\ CodexAtoms(x) = CodexAtoms(i)
    BY <1>2
  <2> QED BY <2>1, AtomsOne
<1> QED BY <1>1, <1>2 DEF SaysAs

-----------------------------------------------------------------------------
\* The instructions of a history, item by item.

DeveloperSays(i) == IF IsDeveloper(i) THEN <<DeveloperText(i)>> ELSE <<>>

LEMMA DeveloperSaysSeq ==
  ASSUME NEW i
  PROVE  IsSeq(DeveloperSays(i))
BY SeqOne, SeqEmpty DEF DeveloperSays

LEMMA DeveloperMap ==
  ASSUME NEW X, NEW f, f = [i \in X |-> DeveloperSays(i)],
         NEW is, IsSeq(is), ToSet(is) \subseteq X
  PROVE  Maps(f, is) /\ DeveloperTexts(is) = FlatMap(f, is) /\ IsSeq(DeveloperTexts(is))
<1> DEFINE I == {k \in DOMAIN is : IsDeveloper(is[k])}
           ds == Selected(is, I)
           e == [k \in DOMAIN ds |-> DeveloperText(ds[k])]
           b == [k \in DOMAIN ds |-> <<e[k]>>]
           a == [k \in DOMAIN is |-> f[is[k]]]
<1>1. DOMAIN is = 1..Len(is) /\ \A k \in DOMAIN is : is[k] \in X /\ is[k] \in ToSet(is)
  BY SeqIs
<1>2. Maps(f, is)
  BY DeveloperSaysSeq DEF Maps
<1>3. /\ IsSeqs(a) /\ Len(a) = Len(is) /\ FlatMap(f, is) = FlattenSeq(a) /\ \A k \in 1..Len(is) : a[k] = f[is[k]]
  BY <1>2, FlatMapParts
<1>4. DeveloperTexts(is) = e
  BY DEF DeveloperTexts
<1>5. I \in SUBSET (1..Len(is)) /\ \A k \in 1..Len(is) : k \in I <=> IsDeveloper(is[k])
  BY <1>1
<1> HIDE DEF I, a
<1>6. IsSeq(ds) /\ \A x : x \in ToSet(ds) <=> \E k \in I : x = is[k]
  BY <1>5, SelectedAt
<1>7. DOMAIN ds = 1..Len(ds) /\ Len(ds) \in Nat /\ \A k \in 1..Len(ds) : ds[k] \in ToSet(ds)
  BY <1>6, SeqIs
<1>8. DOMAIN e = 1..Len(ds) /\ e = [k \in 1..Len(ds) |-> e[k]] /\ \A k \in 1..Len(ds) : e[k] = DeveloperText(ds[k])
  BY <1>7
<1>9. DOMAIN b = 1..Len(ds) /\ b = [k \in 1..Len(ds) |-> b[k]] /\ \A k \in 1..Len(ds) : b[k] = <<e[k]>>
  BY <1>7
<1> HIDE DEF e, b
<1>10. IsSeq(e) /\ Len(e) = Len(ds) /\ IsSeq(b) /\ Len(b) = Len(ds)
  BY <1>7, <1>8, <1>9, MadeSeq
<1>11. Len(b) = Len(e) /\ \A k \in 1..Len(e) : b[k] = <<e[k]>>
  BY <1>9, <1>10
<1>12. FlattenSeq(b) = e
  BY ONLY <1>10, <1>11, FlattenOnes
<1>13. \A k \in (1..Len(is)) \ I : a[k] = <<>>
  <2> TAKE k \in (1..Len(is)) \ I
  <2>1. ~IsDeveloper(is[k])
    BY <1>5
  <2>2. a[k] = DeveloperSays(is[k])
    BY <1>1, <1>3
  <2> QED BY <2>1, <2>2 DEF DeveloperSays
<1>14. \A k \in 1..Len(b) : \A j \in I : ds[k] = is[j] => b[k] = a[j]
  <2> TAKE k \in 1..Len(b)
  <2> TAKE j \in I
  <2> HAVE ds[k] = is[j]
  <2>1. IsDeveloper(is[j]) /\ a[j] = DeveloperSays(is[j])
    BY <1>1, <1>3, <1>5
  <2>2. b[k] = <<DeveloperText(ds[k])>>
    BY <1>8, <1>9, <1>10
  <2> QED BY <2>1, <2>2 DEF DeveloperSays
<1>15. FlattenSeq(b) = FlattenSeq(a)
  BY <1>3, <1>5, <1>10, <1>13, <1>14, FlattenPicked
<1> QED BY <1>2, <1>3, <1>4, <1>10, <1>12, <1>15

LEMMA DeveloperConcat ==
  ASSUME NEW s, IsSeq(s), NEW t, IsSeq(t)
  PROVE  /\ DeveloperTexts(s \o t) = DeveloperTexts(s) \o DeveloperTexts(t)
         /\ IsSeq(DeveloperTexts(s)) /\ IsSeq(DeveloperTexts(t))
<1> DEFINE X == ToSet(s) \union ToSet(t)
           f == [i \in X |-> DeveloperSays(i)]
<1>1. IsSeq(s \o t) /\ ToSet(s \o t) = X
  BY SeqConcat
<1> HIDE DEF f
<1>2. /\ Maps(f, s) /\ DeveloperTexts(s) = FlatMap(f, s) /\ IsSeq(DeveloperTexts(s))
      /\ Maps(f, t) /\ DeveloperTexts(t) = FlatMap(f, t) /\ IsSeq(DeveloperTexts(t))
      /\ DeveloperTexts(s \o t) = FlatMap(f, s \o t)
  BY <1>1, DeveloperMap DEF f
<1>3. FlatMap(f, s \o t) = FlatMap(f, s) \o FlatMap(f, t)
  BY <1>2, FlatMapConcat
<1> QED BY <1>2, <1>3

LEMMA NoDeveloper ==
  ASSUME NEW is, IsSeq(is), \A i \in ToSet(is) : ~IsDeveloper(i)
  PROVE  DeveloperTexts(is) = <<>>
<1> DEFINE I == {k \in DOMAIN is : IsDeveloper(is[k])}
           ds == Selected(is, I)
<1>1. I = {}
  BY SeqIs
<1> HIDE DEF I
<1>2. ds = <<>>
  BY <1>1, SelectedNone
<1>3. DeveloperTexts(is) = [k \in DOMAIN ds |-> DeveloperText(ds[k])]
  BY DEF DeveloperTexts, I
<1> HIDE DEF ds
<1> QED BY <1>2, <1>3

LEMMA DeveloperNothing == DeveloperTexts(<<>>) = <<>>
<1>1. ToSet(<<>>) = {}
  BY DEF ToSet
<1> QED BY <1>1, SeqEmpty, NoDeveloper

LEMMA DeveloperThrough ==
  ASSUME NEW ps, IsSeqs(ps),
         NEW hs, IsSeq(hs), Len(hs) = Len(ps), \A k \in 1..Len(ps) : hs[k] = DeveloperTexts(ps[k])
  PROVE  DeveloperTexts(FlattenSeq(ps)) = FlattenSeq(hs)
<1> DEFINE X == ToSet(FlattenSeq(ps))
           f == [i \in X |-> DeveloperSays(i)]
<1>1. \A k \in 1..Len(ps) : ToSet(ps[k]) \subseteq X
  BY FlatElementsAre
<1>2. IsSeq(ps) /\ IsSeq(FlattenSeq(ps)) /\ \A k \in 1..Len(ps) : IsSeq(ps[k])
  BY SeqsAre
<1>3. f = [i \in X |-> DeveloperSays(i)]
  OBVIOUS
<1> HIDE DEF f, X
<1>4. \A k \in 1..Len(ps) : Maps(f, ps[k]) /\ hs[k] = FlatMap(f, ps[k])
  BY <1>1, <1>2, <1>3, DeveloperMap
<1>5. FlatMap(f, FlattenSeq(ps)) = FlattenSeq(hs)
  BY <1>2, <1>4, FlatMapThrough
<1>6. DeveloperTexts(FlattenSeq(ps)) = FlatMap(f, FlattenSeq(ps))
  BY <1>2, <1>3, DeveloperMap DEF X
<1> QED BY <1>5, <1>6

LEMMA DeveloperOne ==
  ASSUME NEW i
  PROVE  DeveloperTexts(<<i>>) = DeveloperSays(i)
<1> DEFINE f == [x \in {i} |-> DeveloperSays(x)]
<1>1. IsSeq(<<i>>) /\ ToSet(<<i>>) = {i}
  BY SeqOne
<1>2. f[i] = DeveloperSays(i) /\ IsSeq(f[i])
  BY DeveloperSaysSeq
<1> HIDE DEF f
<1>3. DeveloperTexts(<<i>>) = FlatMap(f, <<i>>)
  BY <1>1, DeveloperMap DEF f
<1> QED BY <1>2, <1>3, FlatMapOne

-----------------------------------------------------------------------------
\* A repaired request says what it said.

Keeps(b, q) ==
  /\ AllTold(q.messages) /\ AtomsOf(q.messages) = AtomsOf(b.messages)
  /\ q.system \o DeveloperTexts(q.messages) = b.system \o DeveloperTexts(b.messages)
  /\ IsSeq(q.system)

LEMMA StripKeeps ==
  ASSUME NEW b, {"messages", "system", "tools", "context", "healed"} \subseteq DOMAIN b,
         AllForm(b.messages), AllTold(b.messages), IsSeq(b.system)
  PROVE  Keeps(b, StripReasoning(b)) /\ StripReasoning(b).tools = b.tools
<1> DEFINE items == b.messages
           n == Len(items)
           ps == [k \in DOMAIN items |-> StripItem(items[k])]
           hs == [k \in DOMAIN items |-> CodexAtoms(items[k])]
           f == [i \in ToSet(items) |-> DeveloperSays(i)]
           ds == [k \in DOMAIN items |-> f[items[k]]]
           flat == FlattenSeq(ps)
           q == StripReasoning(b)
<1>1. q.messages = flat /\ q.system = b.system /\ q.tools = b.tools
  <2>1. q = [b EXCEPT !.messages = flat]
    BY DEF StripReasoning
  <2> HIDE DEF flat, q
  <2> QED BY <2>1
<1>2. DOMAIN items = 1..n /\ n \in Nat /\ \A k \in 1..n : items[k] \in ToSet(items)
  BY SeqIs DEF AllTold
<1>3. \A k \in 1..n : ItemForm(items[k]) /\ ToldForm(items[k])
  BY <1>2 DEF AllForm, AllTold
<1>4. Maps(f, items) /\ DeveloperTexts(items) = FlatMap(f, items)
  <2>1. f = [i \in ToSet(items) |-> DeveloperSays(i)] /\ ToSet(items) \subseteq ToSet(items) /\ IsSeq(items)
    BY DEF AllTold
  <2> HIDE DEF f, items
  <2> QED BY ONLY <2>1, DeveloperMap
<1>4a. /\ IsSeqs(ds) /\ Len(ds) = n /\ FlatMap(f, items) = FlattenSeq(ds) /\ \A k \in 1..n : ds[k] = f[items[k]]
  <2> HIDE DEF f, items
  <2> QED BY <1>4, FlatMapParts
<1>4b. \A k \in 1..n : f[items[k]] = DeveloperSays(items[k])
  BY <1>2
<1> HIDE DEF items, n, q, f, ds
<1>5. /\ DOMAIN ps = 1..n /\ ps = [k \in 1..n |-> ps[k]] /\ \A k \in 1..n : ps[k] = StripItem(items[k])
      /\ DOMAIN hs = 1..n /\ hs = [k \in 1..n |-> hs[k]] /\ \A k \in 1..n : hs[k] = CodexAtoms(items[k])
  BY <1>2
<1>5a. AtomsOf(items) = FlattenSeq(hs)
  BY DEF AtomsOf
<1> HIDE DEF ps, hs
<1>6. IsSeq(ps) /\ Len(ps) = n /\ IsSeq(hs) /\ Len(hs) = n
  BY <1>2, <1>5, MadeSeq
<1>7. \A k \in 1..n : /\ AllTold(ps[k]) /\ hs[k] = AtomsOf(ps[k])
                      /\ ds[k] = DeveloperTexts(ps[k])
  <2> TAKE k \in 1..n
  <2> DEFINE i == items[k]
  <2>1. SaysAs(i, ps[k])
    BY <1>3, <1>5, StrippedSays
  <2>2. AllTold(ps[k]) /\ hs[k] = AtomsOf(ps[k])
    BY <1>5, <2>1, SaidAs
  <2>3. ds[k] = DeveloperSays(i) /\ ps[k] = StripItem(i)
    BY <1>4a, <1>4b, <1>5
  <2> HIDE DEF i
  <2>4. DeveloperTexts(StripItem(i)) = DeveloperSays(i)
    <3>1. CASE i.item # "reasoning"
      BY <3>1, DeveloperOne DEF StripItem
    <3>2. CASE i.item = "reasoning"
      <4>1. DeveloperSays(i) = <<>>
        BY <3>2 DEF DeveloperSays, IsDeveloper
      <4>2. StripItem(i) = <<>> \/ \E x : StripItem(i) = <<x>> /\ ~IsDeveloper(x)
        <5>1. CASE i.opaque = "none"
          BY <3>2, <5>1 DEF StripItem, IsDeveloper
        <5>2. CASE i.opaque # "none" /\ ShowsReasoning(i)
          <6>1. [i EXCEPT !.opaque = "none"].item = "reasoning"
            BY <3>2
          <6>2. StripItem(i) = <<[i EXCEPT !.opaque = "none"]>>
            BY <3>2, <5>2 DEF StripItem
          <6> DEFINE x == [i EXCEPT !.opaque = "none"]
          <6>3. ~IsDeveloper(x)
            BY <6>1 DEF IsDeveloper
          <6> HIDE DEF x
          <6> QED BY <6>2, <6>3 DEF x
        <5>3. CASE i.opaque # "none" /\ ~ShowsReasoning(i)
          BY <3>2, <5>3 DEF StripItem
        <5> QED BY <5>1, <5>2, <5>3
      <4>3. ASSUME NEW x, ~IsDeveloper(x) PROVE DeveloperTexts(<<x>>) = <<>>
        BY <4>3, DeveloperOne DEF DeveloperSays
      <4> QED BY <4>1, <4>2, <4>3, DeveloperNothing
    <3> QED BY <3>1, <3>2
  <2> QED BY <2>2, <2>3, <2>4
<1>8. IsSeqs(ps)
  <2>1. \A k \in 1..Len(ps) : IsSeq(ps[k])
    BY <1>6, <1>7 DEF AllTold
  <2> QED BY <1>6, <2>1, SeqOfSeqs
<1>9. AllTold(flat) /\ AtomsOf(flat) = FlattenSeq(hs)
  BY <1>6, <1>7, <1>8, AtomsThrough
<1>10. IsSeq(ds) /\ Len(ds) = Len(ps) /\ \A k \in 1..Len(ps) : ds[k] = DeveloperTexts(ps[k])
  BY <1>4a, <1>6, <1>7, SeqsAre
<1>11. DeveloperTexts(flat) = FlattenSeq(ds)
  BY <1>8, <1>10, DeveloperThrough
<1> HIDE DEF flat
<1>12. AllTold(q.messages) /\ AtomsOf(q.messages) = AtomsOf(items) /\ DeveloperTexts(q.messages) = DeveloperTexts(items)
  BY <1>1, <1>4, <1>4a, <1>5a, <1>9, <1>11
<1> QED BY <1>1, <1>12 DEF Keeps, items, q

LEMMA ProjectKeeps ==
  ASSUME NEW b, {"messages", "system", "tools", "context", "healed"} \subseteq DOMAIN b,
         AllForm(b.messages), AllTold(b.messages), IsSeq(b.system), Project(b).safe
  PROVE  Keeps(b, Project(b).body)
<1> DEFINE items == b.messages
           N == Len(items)
           I == {k \in DOMAIN items : items[k].item # "additional_tools" /\ ~Folded(items[k])}
           F == {k \in DOMAIN items : Folded(items[k])}
           D == {k \in DOMAIN items : IsDeveloper(items[k])}
           inside == Selected(items, I)
           made == [k \in DOMAIN inside |-> ProjectItem(inside[k])]
           ps == [k \in DOMAIN made |-> made[k].items]
           flat == FlattenSeq(ps)
           folds == Selected(items, F)
           texts == [k \in DOMAIN folds |-> DeveloperText(folds[k])]
           hs == [k \in DOMAIN inside |-> CodexAtoms(inside[k])]
           f == [i \in ToSet(items) |-> CodexAtoms(i)]
           a == [k \in DOMAIN items |-> f[items[k]]]
           q == Project(b).body
           n == Len(inside)
<1>1. \A k \in DOMAIN made : made[k].safe /\ ~IsDeveloper(inside[k])
  BY DEF Project
<1>2. q.messages = flat /\ q.system = b.system \o texts
  <2>1. \E y, z : q = [b EXCEPT !.messages = flat, !.system = @ \o texts, !.tools = y, !.context = z]
    BY DEF Project
  <2>2. PICK y, z : q = [b EXCEPT !.messages = flat, !.system = @ \o texts, !.tools = y, !.context = z]
    BY <2>1
  <2> HIDE DEF flat, q, texts
  <2> QED BY <2>2
<1>3. AllForm(q.messages) /\ Mended(q.messages)
  BY ProjectMends
<1>4. IsSeq(items) /\ DOMAIN items = 1..N /\ N \in Nat /\ \A k \in 1..N : items[k] \in ToSet(items)
  BY SeqIs DEF AllTold
<1>5. \A k \in 1..N : ItemForm(items[k]) /\ ToldForm(items[k])
  BY <1>4 DEF AllForm, AllTold
<1>6. /\ I \in SUBSET (1..N)
      /\ \A k \in 1..N : k \in I <=> items[k].item # "additional_tools" /\ ~Folded(items[k])
  BY <1>4
<1>7. Maps(f, items) /\ AtomsOf(items) = FlatMap(f, items)
  <2>1. f = [i \in ToSet(items) |-> CodexAtoms(i)] /\ ToSet(items) \subseteq ToSet(items) /\ AllTold(items)
    OBVIOUS
  <2> HIDE DEF f, items
  <2> QED BY ONLY <2>1, AtomsMap
<1>8. \A k \in 1..N : f[items[k]] = CodexAtoms(items[k])
  BY <1>4
<1>9. DeveloperTexts(items) = LET ds == Selected(items, D) IN [k \in DOMAIN ds |-> DeveloperText(ds[k])]
  BY DEF DeveloperTexts
<1> HIDE DEF q, items, N, f
<1>10. /\ IsSeqs(a) /\ Len(a) = N /\ FlatMap(f, items) = FlattenSeq(a) /\ \A k \in 1..N : a[k] = f[items[k]]
  BY <1>7, FlatMapParts DEF N
<1> HIDE DEF a, I
<1>11. /\ IsSeq(inside) /\ \A x : x \in ToSet(inside) <=> \E k \in I : x = items[k]
  BY <1>4, <1>6, SelectedAt DEF N
<1>12. n \in Nat /\ DOMAIN inside = 1..n /\ (\A k \in 1..n : inside[k] \in ToSet(inside))
       /\ \A x \in ToSet(inside) : \E k \in 1..n : inside[k] = x
  BY <1>11, SeqIs
<1>13. n = Len(Selected(items, I))
  OBVIOUS
<1> HIDE DEF inside, n
<1>14. DOMAIN made = 1..n /\ \A k \in 1..n : made[k] = ProjectItem(inside[k])
  BY <1>12
<1>15. /\ DOMAIN ps = 1..n /\ ps = [k \in 1..n |-> ps[k]] /\ \A k \in 1..n : ps[k] = ProjectItem(inside[k]).items
       /\ DOMAIN hs = 1..n /\ hs = [k \in 1..n |-> hs[k]] /\ \A k \in 1..n : hs[k] = CodexAtoms(inside[k])
  BY <1>12, <1>14
<1> HIDE DEF made, ps, hs
<1>16. IsSeq(ps) /\ Len(ps) = n /\ IsSeq(hs) /\ Len(hs) = n
  BY <1>12, <1>15, MadeSeq
<1>17. \A k \in 1..n : AllTold(ps[k]) /\ hs[k] = AtomsOf(ps[k])
  <2> TAKE k \in 1..n
  <2> DEFINE i == inside[k]
  <2>1. ItemForm(i) /\ ToldForm(i)
    BY <1>5, <1>6, <1>11, <1>12
  <2>2. ProjectItem(i).safe /\ ~IsDeveloper(i)
    BY <1>1, <1>14
  <2>3. SaysAs(i, ps[k])
    BY <1>15, <2>1, <2>2, ProjectedSays
  <2> QED BY <1>15, <2>3, SaidAs
<1>18. IsSeqs(ps)
  <2>1. \A k \in 1..Len(ps) : IsSeq(ps[k])
    BY <1>16, <1>17 DEF AllTold
  <2> QED BY <1>16, <2>1, SeqOfSeqs
<1>19. AllTold(flat) /\ AtomsOf(flat) = FlattenSeq(hs)
  BY <1>16, <1>17, <1>18, AtomsThrough
<1>20. \A k \in (1..N) \ I : a[k] = <<>>
  <2> TAKE k \in (1..N) \ I
  <2> DEFINE i == items[k]
  <2>1. a[k] = CodexAtoms(i) /\ (i.item = "additional_tools" \/ Folded(i))
    BY <1>6, <1>8, <1>10
  <2> HIDE DEF i
  <2>2. CASE i.item = "additional_tools"
    BY <2>1, <2>2, AtomsOfKinds
  <2>3. CASE Folded(i)
    <3>1. IsDeveloper(i) /\ i.item = "message"
      BY <2>3 DEF Folded, IsDeveloper
    <3>2. CodexAtoms(i) = MessageAtoms(i)
      BY <3>1, AtomsOfKinds
    <3> QED BY <2>1, <3>1, <3>2 DEF MessageAtoms
  <2> QED BY <2>1, <2>2, <2>3
<1>21. FlattenSeq(hs) = FlattenSeq(a)
  <2>1. ASSUME NEW k \in 1..Len(hs), NEW j \in I, inside[k] = items[j] PROVE hs[k] = a[j]
    <3>1. hs[k] = CodexAtoms(inside[k])
      BY <1>15, <1>16
    <3>2. j \in 1..N
      BY <1>6
    <3>3. a[j] = CodexAtoms(items[j])
      BY <1>8, <1>10, <3>2
    <3> QED BY <2>1, <3>1, <3>3
  <2>2. \A k \in 1..Len(hs) : \A j \in I : Selected(items, I)[k] = items[j] => hs[k] = a[j]
    BY <2>1 DEF inside
  <2>3. /\ IsSeq(items) /\ I \in SUBSET (1..Len(items)) /\ IsSeqs(a) /\ Len(a) = Len(items)
        /\ \A k \in (1..Len(items)) \ I : a[k] = <<>>
    BY <1>4, <1>6, <1>10, <1>20 DEF N
  <2>4. IsSeq(hs) /\ Len(hs) = Len(Selected(items, I))
    BY <1>13, <1>16
  <2>5. IsSeqs(hs) /\ FlattenSeq(hs) = FlattenSeq(a)
    BY <2>2, <2>3, <2>4, FlattenPicked
  <2> QED BY <2>5
<1>22. AtomsOf(flat) = AtomsOf(items)
  BY <1>7, <1>10, <1>19, <1>21
<1>23. F = D
  <2>1. \A k \in DOMAIN items : Folded(items[k]) => IsDeveloper(items[k])
    BY DEF Folded
  <2>2. ASSUME NEW k \in DOMAIN items, IsDeveloper(items[k]), ~Folded(items[k]) PROVE FALSE
    <3>1. items[k].item # "additional_tools"
      BY <2>2 DEF IsDeveloper
    <3>2. k \in I
      BY <1>4, <1>6, <2>2, <3>1
    <3>3. PICK j \in 1..n : inside[j] = items[k]
      BY <1>11, <1>12, <3>2
    <3> QED BY <1>1, <1>14, <2>2, <3>3
  <2> QED BY <2>1, <2>2
<1>24. texts = DeveloperTexts(items)
  BY <1>9, <1>23
<1>25. IsSeq(DeveloperTexts(items)) /\ IsSeq(b.system \o DeveloperTexts(items))
  <2>1. IsSeq(DeveloperTexts(items))
    BY <1>4, DeveloperConcat
  <2> QED BY <2>1, SeqConcat
<1> HIDE DEF texts, flat
<1>26. DeveloperTexts(flat) = <<>>
  <2>1. \A i \in ToSet(flat) : ~IsDeveloper(i)
    BY <1>2, <1>3 DEF Mended, Fits, IsDeveloper
  <2> QED BY <1>19, <2>1, NoDeveloper DEF AllTold
<1>27. q.system \o DeveloperTexts(q.messages) = b.system \o DeveloperTexts(items)
  <2> DEFINE z == b.system \o DeveloperTexts(items)
  <2>1. z \o <<>> = z
    <3>1. IsSeq(z)
      BY <1>25
    <3> HIDE DEF z
    <3>2. z \in Seq(ToSet(z))
      BY <3>1, SeqIs
    <3> QED BY <3>2
  <2> QED BY <1>2, <1>24, <1>26, <2>1
<1>28. AllTold(q.messages) /\ AtomsOf(q.messages) = AtomsOf(items) /\ IsSeq(q.system)
  BY <1>2, <1>19, <1>22, <1>24, <1>25
<1> QED BY <1>27, <1>28 DEF Keeps, items, q

-----------------------------------------------------------------------------
\* What tools a request offers.

Named(tools) == {t.key : t \in ToSet(tools)}
Adds(items) == {i \in ToSet(items) : i.item = "additional_tools"}

LEMMA OffersAre ==
  ASSUME NEW tools, IsSeq(tools), NEW items, AllTold(items), NEW key
  PROVE  key \in Offers(tools, items) <=>
           key \in Named(tools) \/ \E i \in Adds(items) : key \in Named(i.tools)
<1>1. key \in {tools[k].key : k \in DOMAIN tools} <=> key \in Named(tools)
  BY DEF Named, ToSet
<1>2. key \in UNION {{items[k].tools[j].key : j \in DOMAIN items[k].tools} :
                     k \in {n \in DOMAIN items : items[n].item = "additional_tools"}}
        <=> \E i \in Adds(items) : key \in Named(i.tools)
  BY DEF Named, Adds, ToSet
<1> QED BY <1>1, <1>2 DEF Offers

LEMMA MergedNames ==
  ASSUME NEW s, HasKeys(s), NEW t, HasKeys(t)
  PROVE  HasKeys(MergeTools(s, t)) /\ Named(MergeTools(s, t)) = Named(s) \union Named(t)
<1> DEFINE all == s \o t
           n == Len(all)
           I == {k \in DOMAIN all : \A j \in 1..(k - 1) : all[j].key # all[k].key}
           r == Selected(all, I)
<1>1. r = MergeTools(s, t)
  BY DEF MergeTools
<1>2. IsSeq(all) /\ ToSet(all) = ToSet(s) \union ToSet(t)
  BY SeqConcat DEF HasKeys
<1>3. Named(all) = Named(s) \union Named(t)
  BY <1>2 DEF Named
<1> HIDE DEF all
<1>4. n \in Nat /\ DOMAIN all = 1..n /\ (\A k \in 1..n : all[k] \in ToSet(all))
      /\ \A x \in ToSet(all) : \E k \in 1..n : all[k] = x
  BY <1>2, SeqIs
<1>5. I \in SUBSET (1..n) /\ \A k \in 1..n : k \in I <=> \A j \in 1..(k - 1) : all[j].key # all[k].key
  BY <1>4
<1> HIDE DEF I, n
<1>6. IsSeq(r) /\ \A x : x \in ToSet(r) <=> \E k \in I : x = all[k]
  BY <1>2, <1>5, SelectedAt DEF n
<1> HIDE DEF r
<1>7. ASSUME NEW x \in ToSet(all) PROVE \E k \in I : all[k].key = x.key
  <2> DEFINE K == {k \in 1..n : all[k].key = x.key}
  <2>1. K # {} /\ K \in SUBSET Nat
    BY <1>4
  <2>2. PICK m \in K : \A k \in K : m <= k
    <3> HIDE DEF K
    <3> QED BY <2>1, LeastNumber
  <2>3. m \in I
    <3>1. \A j \in 1..(m - 1) : j \in 1..n /\ j < m
      BY <1>4
    <3>2. \A j \in 1..(m - 1) : all[j].key # all[m].key
      BY <1>4, <2>2, <3>1
    <3> QED BY <1>5, <3>2
  <2> QED BY <2>3
<1>8. Named(r) = Named(all)
  <2>1. \A x \in ToSet(r) : x \in ToSet(all)
    BY <1>4, <1>5, <1>6
  <2>2. \A x \in ToSet(all) : \E y \in ToSet(r) : y.key = x.key
    BY <1>6, <1>7
  <2>3. \A x \in ToSet(all) : x.key \in Named(r)
    <3> TAKE x \in ToSet(all)
    <3>1. PICK y \in ToSet(r) : y.key = x.key
      BY <2>2
    <3> QED BY <3>1 DEF Named
  <2> QED BY <2>1, <2>3 DEF Named
<1>9. HasKeys(r)
  BY <1>2, <1>4, <1>5, <1>6 DEF HasKeys
<1> QED BY <1>1, <1>3, <1>8, <1>9

LEMMA NormalNames ==
  ASSUME NEW s, HasKeys(s), NEW r, r = [k \in DOMAIN s |-> NormalTool(s[k])]
  PROVE  HasKeys(r) /\ Named(r) = Named(s)
<1>1. DOMAIN s = 1..Len(s) /\ Len(s) \in Nat /\ (\A k \in 1..Len(s) : s[k] \in ToSet(s))
      /\ \A x \in ToSet(s) : \E k \in 1..Len(s) : s[k] = x
  BY SeqIs DEF HasKeys
<1>2. DOMAIN r = DOMAIN s /\ r = [k \in DOMAIN s |-> r[k]]
  OBVIOUS
<1>3. IsSeq(r) /\ Len(r) = Len(s)
  BY <1>2, MadeAlong DEF HasKeys
<1>4. (\A k \in 1..Len(r) : r[k] \in ToSet(r)) /\ \A x \in ToSet(r) : \E k \in 1..Len(r) : r[k] = x
  BY <1>3, SeqIs
<1>5. \A k \in 1..Len(s) : r[k].key = s[k].key /\ "key" \in DOMAIN r[k]
  <2> TAKE k \in 1..Len(s)
  <2> DEFINE t == s[k]
  <2>1. r[k] = NormalTool(t)
    BY <1>1
  <2>2. "key" \in DOMAIN t
    BY <1>1 DEF HasKeys
  <2> HIDE DEF t
  <2>3. NormalTool(t).key = t.key /\ "key" \in DOMAIN NormalTool(t)
    BY <2>2 DEF NormalTool
  <2> QED BY <2>1, <2>3 DEF t
<1>6. Named(r) \subseteq Named(s) /\ Named(s) \subseteq Named(r)
  <2>1. ASSUME NEW x \in ToSet(r) PROVE x.key \in Named(s)
    <3>1. PICK k \in 1..Len(s) : r[k] = x
      BY <1>3, <1>4
    <3> QED BY <1>1, <1>5, <3>1 DEF Named
  <2>2. ASSUME NEW x \in ToSet(s) PROVE x.key \in Named(r)
    <3>1. PICK k \in 1..Len(s) : s[k] = x
      BY <1>1
    <3>2. r[k] \in ToSet(r) /\ r[k].key = x.key
      BY <1>3, <1>4, <1>5, <3>1
    <3> QED BY <3>2 DEF Named
  <2> QED BY <2>1, <2>2 DEF Named
<1>7. HasKeys(r)
  <2>1. ASSUME NEW x \in ToSet(r) PROVE "key" \in DOMAIN x
    <3>1. PICK k \in 1..Len(s) : r[k] = x
      BY <1>3, <1>4
    <3> QED BY <1>5, <3>1
  <2> QED BY <1>3, <2>1 DEF HasKeys
<1> QED BY <1>6, <1>7

LEMMA ReasoningKept ==
  ASSUME NEW i, ItemForm(i), i.item = "reasoning"
  PROVE  [i EXCEPT !.opaque = "none"].item = "reasoning"
<1>1. PICK opaque, summary, shown :
             i = [item |-> "reasoning", opaque |-> opaque, summary |-> summary, shown |-> shown]
  BY ReasoningIs
<1> QED BY <1>1

LEMMA FlatNames ==
  ASSUME NEW a, IsSeq(a), \A k \in 1..Len(a) : HasKeys(a[k])
  PROVE  /\ HasKeys(FlattenSeq(a))
         /\ \A key : key \in Named(FlattenSeq(a)) <=> \E k \in 1..Len(a) : key \in Named(a[k])
<1>1. IsSeqs(a)
  BY SeqOfSeqs DEF HasKeys
<1>2. IsSeq(FlattenSeq(a)) /\ \A x : x \in ToSet(FlattenSeq(a)) <=> \E k \in 1..Len(a) : x \in ToSet(a[k])
  BY <1>1, SeqsAre, FlatElementsAre
<1>3. HasKeys(FlattenSeq(a))
  BY <1>2 DEF HasKeys
<1>4. ASSUME NEW key PROVE key \in Named(FlattenSeq(a)) <=> \E k \in 1..Len(a) : key \in Named(a[k])
  BY <1>2 DEF Named
<1> QED BY <1>3, <1>4

LEMMA ProjectOffers ==
  ASSUME NEW b, {"messages", "system", "tools", "context", "healed"} \subseteq DOMAIN b,
         AllForm(b.messages), AllTold(b.messages), HasKeys(b.tools), IsSeq(b.system), Project(b).safe
  PROVE  LET q == Project(b).body
         IN HasKeys(q.tools) /\ Offers(q.tools, q.messages) = Offers(b.tools, b.messages)
<1> DEFINE items == b.messages
           E == {k \in DOMAIN items : items[k].item = "additional_tools"}
           extra == Selected(items, E)
           a == [k \in DOMAIN extra |-> extra[k].tools]
           lifted == FlattenSeq(a)
           tools == IF lifted = <<>> THEN b.tools ELSE MergeTools(b.tools, lifted)
           r == [k \in DOMAIN tools |-> NormalTool(tools[k])]
           q == Project(b).body
<1>1. q.tools = r
  <2>1. \E x, y, z : q = [b EXCEPT !.messages = x, !.system = y, !.tools = r, !.context = z]
    BY DEF Project
  <2>2. PICK x, y, z : q = [b EXCEPT !.messages = x, !.system = y, !.tools = r, !.context = z]
    BY <2>1
  <2> HIDE DEF r, q
  <2> QED BY <2>2
<1>2. AllTold(q.messages)
  BY ProjectKeeps DEF Keeps
<1>3. Adds(q.messages) = {}
  <2>1. Mended(q.messages)
    BY ProjectMends
  <2> HIDE DEF q
  <2> QED BY <2>1 DEF Mended, Fits, Adds, CallItems, OutputItems, PassedItems
<1>4. IsSeq(items) /\ DOMAIN items = 1..Len(items) /\ (\A k \in 1..Len(items) : items[k] \in ToSet(items))
      /\ \A x \in ToSet(items) : \E k \in 1..Len(items) : items[k] = x
  BY SeqIs DEF AllTold
<1>5. E \in SUBSET (1..Len(items)) /\ \A k \in 1..Len(items) : k \in E <=> items[k].item = "additional_tools"
  BY <1>4
<1>6. AllTold(items) /\ HasKeys(b.tools)
  OBVIOUS
<1> HIDE DEF E, q, items
<1>7. IsSeq(extra) /\ \A x : x \in ToSet(extra) <=> \E k \in E : x = items[k]
  <2>1. IsSeq(items) /\ E \in SUBSET (1..Len(items))
    BY <1>4, <1>5
  <2> QED BY ONLY <2>1, SelectedAt
<1>8. \A x : x \in ToSet(extra) <=> x \in Adds(items)
  BY <1>4, <1>5, <1>7 DEF Adds
<1> HIDE DEF extra
<1>9. DOMAIN extra = 1..Len(extra) /\ Len(extra) \in Nat /\ (\A k \in 1..Len(extra) : extra[k] \in ToSet(extra))
      /\ \A x \in ToSet(extra) : \E k \in 1..Len(extra) : extra[k] = x
  BY <1>7, SeqIs
<1>10. DOMAIN a = 1..Len(extra) /\ a = [k \in 1..Len(extra) |-> a[k]]
       /\ \A k \in 1..Len(extra) : a[k] = extra[k].tools
  BY <1>9
<1> HIDE DEF a
<1>11. IsSeq(a) /\ Len(a) = Len(extra)
  BY <1>9, <1>10, MadeSeq
<1>12. \A k \in 1..Len(a) : HasKeys(a[k])
  BY <1>6, <1>8, <1>9, <1>10, <1>11 DEF AllTold, ToldForm, Adds
<1>13. HasKeys(lifted) /\ \A key : key \in Named(lifted) <=> \E k \in 1..Len(a) : key \in Named(a[k])
  BY <1>11, <1>12, FlatNames
<1> HIDE DEF lifted
<1>14. \A key : key \in Named(lifted) <=> \E i \in Adds(items) : key \in Named(i.tools)
  BY <1>8, <1>9, <1>10, <1>11, <1>13
<1>15. HasKeys(tools) /\ Named(tools) = Named(b.tools) \union Named(lifted)
  <2>1. CASE lifted = <<>>
    <3>1. Named(lifted) = {}
      BY <2>1 DEF Named, ToSet
    <3> QED BY <1>6, <2>1, <3>1
  <2>2. CASE lifted # <<>>
    BY <1>6, <1>13, <2>2, MergedNames
  <2> QED BY <2>1, <2>2
<1> HIDE DEF tools
<1>16. HasKeys(r) /\ Named(r) = Named(tools)
  BY <1>15, NormalNames
<1> HIDE DEF r
<1>17. ASSUME NEW key PROVE key \in Offers(q.tools, q.messages) <=> key \in Offers(b.tools, items)
  <2>1. key \in Offers(q.tools, q.messages) <=>
          key \in Named(q.tools) \/ \E i \in Adds(q.messages) : key \in Named(i.tools)
    BY <1>1, <1>2, <1>16, OffersAre DEF HasKeys
  <2>2. key \in Offers(b.tools, items) <=>
          key \in Named(b.tools) \/ \E i \in Adds(items) : key \in Named(i.tools)
    BY <1>6, OffersAre DEF HasKeys
  <2> QED BY <1>1, <1>3, <1>14, <1>15, <1>16, <2>1, <2>2
<1> QED BY <1>1, <1>16, <1>17 DEF q, items

LEMMA StripOffers ==
  ASSUME NEW b, {"messages", "system", "tools", "context", "healed"} \subseteq DOMAIN b,
         AllForm(b.messages), AllTold(b.messages), HasKeys(b.tools), IsSeq(b.system)
  PROVE  LET q == StripReasoning(b)
         IN HasKeys(q.tools) /\ Offers(q.tools, q.messages) = Offers(b.tools, b.messages)
<1> DEFINE items == b.messages
           q == StripReasoning(b)
           ps == [k \in DOMAIN items |-> StripItem(items[k])]
           flat == FlattenSeq(ps)
           n == Len(items)
<1>1. q.tools = b.tools /\ AllTold(q.messages)
  BY StripKeeps DEF Keeps
<1>2. q.messages = flat
  <2>1. q = [b EXCEPT !.messages = flat]
    BY DEF StripReasoning
  <2> HIDE DEF flat, q
  <2> QED BY <2>1
<1>3. n \in Nat /\ DOMAIN items = 1..n /\ (\A k \in 1..n : items[k] \in ToSet(items))
      /\ \A x \in ToSet(items) : \E k \in 1..n : items[k] = x
  BY SeqIs DEF AllTold
<1>4. AllTold(items) /\ HasKeys(b.tools) /\ \A k \in 1..n : ItemForm(items[k]) /\ ToldForm(items[k])
  BY <1>3 DEF AllForm, AllTold
<1> HIDE DEF items, q, n
<1>5. DOMAIN ps = 1..n /\ ps = [k \in 1..n |-> ps[k]] /\ \A k \in 1..n : ps[k] = StripItem(items[k])
  BY <1>3
<1> HIDE DEF ps
<1>6. IsSeq(ps) /\ Len(ps) = n
  BY <1>3, <1>5, MadeSeq
<1>7. IsSeqs(ps)
  <2>1. \A k \in 1..n : IsSeq(ps[k])
    BY <1>4, <1>5, StrippedSays, SaidAs DEF AllTold
  <2> QED BY <1>6, <2>1, SeqOfSeqs
<1>8. \A x : x \in ToSet(flat) <=> \E k \in 1..n : x \in ToSet(ps[k])
  BY <1>6, <1>7, FlatElementsAre
<1> HIDE DEF flat
<1>9. ASSUME NEW i, NEW x, x.item = "additional_tools", ItemForm(i)
      PROVE  x \in ToSet(StripItem(i)) <=> x = i
  <2>1. CASE i.item # "reasoning"
    <3>1. StripItem(i) = <<i>> /\ ToSet(<<i>>) = {i}
      BY <2>1, SeqOne DEF StripItem
    <3> QED BY <3>1
  <2>2. CASE i.item = "reasoning"
    <3>1. StripItem(i) = <<>> \/ \E y : StripItem(i) = <<y>> /\ y.item = "reasoning"
      <4>1. [i EXCEPT !.opaque = "none"].item = "reasoning"
        BY <1>9, <2>2, ReasoningKept
      <4> DEFINE y == [i EXCEPT !.opaque = "none"]
      <4>2. StripItem(i) \in {<<i>>, <<y>>, <<>>}
        BY DEF StripItem
      <4> HIDE DEF y
      <4> QED BY <2>2, <4>1, <4>2 DEF y
    <3>2. ToSet(<<>>) = {} /\ \A y : ToSet(<<y>>) = {y}
      BY SeqOne DEF ToSet
    <3> QED BY <1>9, <2>2, <3>1, <3>2
  <2> QED BY <2>1, <2>2
<1>10. Adds(flat) = Adds(items)
  <2>1. ASSUME NEW x, x.item = "additional_tools" PROVE x \in ToSet(flat) <=> x \in ToSet(items)
    <3>1. \A k \in 1..n : x \in ToSet(ps[k]) <=> x = items[k]
      BY <1>4, <1>5, <1>9, <2>1
    <3> QED BY <1>3, <1>8, <3>1
  <2> QED BY <2>1 DEF Adds
<1>11. ASSUME NEW key PROVE key \in Offers(q.tools, q.messages) <=> key \in Offers(b.tools, items)
  <2>1. key \in Offers(b.tools, flat) <=>
          key \in Named(b.tools) \/ \E i \in Adds(flat) : key \in Named(i.tools)
    BY <1>1, <1>2, <1>4, OffersAre DEF HasKeys
  <2>2. key \in Offers(b.tools, items) <=>
          key \in Named(b.tools) \/ \E i \in Adds(items) : key \in Named(i.tools)
    BY <1>4, OffersAre DEF HasKeys
  <2> QED BY <1>1, <1>2, <1>10, <2>1, <2>2
<1> QED BY <1>1, <1>4, <1>11 DEF q, items

-----------------------------------------------------------------------------
\* What a codex client and its model say has the form a repair keeps.

LEMMA OneTold ==
  ASSUME NEW i, ToldForm(i)
  PROVE  AllTold(<<i>>)
BY SeqOne DEF AllTold

LEMMA TwoTold ==
  ASSUME NEW i, NEW j, ToldForm(i), ToldForm(j)
  PROVE  AllTold(<<i, j>>)
<1>1. <<i, j>> \in Seq({i, j})
  OBVIOUS
<1>2. ToSet(<<i, j>>) = {i, j}
  <2>1. DOMAIN <<i, j>> = {1, 2} /\ <<i, j>>[1] = i /\ <<i, j>>[2] = j
    OBVIOUS
  <2> QED BY <2>1 DEF ToSet
<1> QED BY <1>1, <1>2 DEF AllTold, IsSeq

LEMMA MadeTold ==
  ASSUME NEW n \in Nat, NEW s, DOMAIN s = 1..n, s = [k \in 1..n |-> s[k]], \A k \in 1..n : ToldForm(s[k])
  PROVE  AllTold(s)
<1>1. IsSeq(s)
  BY MadeSeq
<1>2. \A x \in ToSet(s) : ToldForm(x)
  BY DEF ToSet
<1> QED BY <1>1, <1>2 DEF AllTold

LEMMA PlainTold ==
  ASSUME NEW i, i.item \notin CallItems \union {"message", "agent_message", "additional_tools"}
  PROVE  ToldForm(i)
BY DEF ToldForm

LEMMA StandingTools == HasKeys(Standing) /\ HasKeys(Further)
<1>1. \A a, b : <<a, b>> \in Seq({a, b}) /\ ToSet(<<a, b>>) = {a, b}
  <2> TAKE a, b
  <2>1. DOMAIN <<a, b>> = {1, 2} /\ <<a, b>>[1] = a /\ <<a, b>>[2] = b
    OBVIOUS
  <2>2. ToSet(<<a, b>>) = {a, b}
    BY <2>1 DEF ToSet
  <2> QED BY <2>2
<1>2. \A k, o : "key" \in DOMAIN Tool(k, o)
  BY DEF Tool
<1>3. \A k, o, l, p : HasKeys(<<Tool(k, o), Tool(l, p)>>)
  <2> TAKE k, o, l, p
  <2> DEFINE a == Tool(k, o)
             b == Tool(l, p)
  <2>1. "key" \in DOMAIN a /\ "key" \in DOMAIN b
    BY <1>2
  <2> HIDE DEF a, b
  <2>2. HasKeys(<<a, b>>)
    BY <1>1, <2>1 DEF HasKeys, IsSeq
  <2> QED BY <2>2 DEF a, b
<1> QED BY <1>3 DEF Standing, Further

LEMMA CodexTurnIs ==
  ASSUME wire = "codex", AllTold(history), NEW t \in Turns
  PROVE  AllTold(t.messages) /\ t.said = AtomsOf(t.messages) /\ t.system = DeveloperTexts(t.messages)
<1>1. PICK c \in CodexTurns : t = [c EXCEPT !.said = AtomsOf(c.messages)]
  BY DEF Turns
<1> DEFINE ids == OpenCalls
           words == Words(turn, 1)
           hint == MessageItem("developer", <<InputText(Words(turn, 0))>>)
           a1 == <<MessageItem("user", <<[type |-> "text", text |-> words], [type |-> "input_image"]>>)>>
           a2 == <<hint, [item |-> "input_text", text |-> words]>>
           a3 == <<[item |-> "additional_tools", tools |-> Further],
                   [item |-> "agent_message", parts |-> <<InputText(words), [type |-> "encrypted_content"]>>]>>
           a4 == <<[item |-> "local_shell_call"]>>
           results == [k \in DOMAIN ids |->
                        [item |-> "function_call_output", id |-> ids[k], text |-> <<<<"result", turn, k>>>>]]
           a6 == <<MessageItem("user", <<InputText(words)>>)>>
<1>2. PICK items \in {a1, a2, a3, a4, results, a6} : c = Turn(items, DeveloperTexts(items), <<>>)
  BY DEF CodexTurns
<1>3. t.messages = items /\ t.system = DeveloperTexts(items) /\ t.said = AtomsOf(items)
  <2> HIDE DEF a1, a2, a3, a4, results, a6
  <2>1. c = [messages |-> items, system |-> DeveloperTexts(items), said |-> By("user", <<>>)]
    BY <1>2 DEF Turn
  <2> QED BY <1>1, <2>1
<1>4. AllTold(a1)
  <2> DEFINE p == [type |-> "text", text |-> words]
             q == [type |-> "input_image"]
  <2> HIDE DEF p, q
  <2>1. <<p, q>> \in Seq({p, q})
    OBVIOUS
  <2>2. ToldForm(MessageItem("user", <<p, q>>))
    BY <2>1, MessageTold DEF IsSeq
  <2> QED BY <2>2, OneTold DEF p, q
<1>5. AllTold(a2)
  <2> DEFINE x == [item |-> "input_text", text |-> words]
             p == InputText(Words(turn, 0))
  <2>1. x.item = "input_text"
    OBVIOUS
  <2> HIDE DEF x, p
  <2>2. ToldForm(x)
    BY <2>1, PlainTold DEF CallItems
  <2>3. ToldForm(MessageItem("developer", <<p>>))
    BY SeqOne, MessageTold
  <2>4. ToldForm(hint)
    BY <2>3 DEF p
  <2> HIDE DEF hint
  <2>5. AllTold(<<hint, x>>)
    BY <2>2, <2>4, TwoTold
  <2> QED BY <2>5 DEF x
<1>6. AllTold(a3)
  <2> DEFINE x == [item |-> "additional_tools", tools |-> Further]
             p == InputText(words)
             q == [type |-> "encrypted_content"]
             y == [item |-> "agent_message", parts |-> <<p, q>>]
  <2>1. x.item = "additional_tools" /\ x.tools = Further /\ y.item = "agent_message" /\ y.parts = <<p, q>>
    OBVIOUS
  <2>2. p.type = "input_text" /\ q.type = "encrypted_content"
    BY DEF InputText
  <2> HIDE DEF p, q, x, y
  <2>3. AgentParts(<<p, q>>)
    <3>1. <<p, q>> \in Seq({p, q}) /\ DOMAIN <<p, q>> = {1, 2} /\ <<p, q>>[1] = p /\ <<p, q>>[2] = q
      OBVIOUS
    <3> QED BY <2>2, <3>1 DEF AgentParts, IsSeq
  <2>4. ToldForm(x)
    BY <2>1, StandingTools DEF ToldForm, CallItems
  <2>5. ToldForm(y)
    BY <2>1, <2>3 DEF ToldForm, CallItems
  <2>6. AllTold(<<x, y>>)
    BY <2>4, <2>5, TwoTold
  <2> QED BY <2>6 DEF x, y, p, q
<1>7. AllTold(a4)
  <2> DEFINE x == [item |-> "local_shell_call"]
  <2>1. x.item = "local_shell_call"
    OBVIOUS
  <2> HIDE DEF x
  <2>2. AllTold(<<x>>)
    BY <2>1, OneTold, PlainTold DEF CallItems
  <2> QED BY <2>2 DEF x
<1>8. AllTold(results)
  <2> DEFINE mine == {k \in DOMAIN history : history[k].item \in CallItems /\ history[k].id[1] = turn}
             calls == Selected(history, mine)
             made(k) == [item |-> "function_call_output", id |-> ids[k], text |-> <<<<"result", turn, k>>>>]
             n == Len(calls)
  <2>1. IsSeq(history) /\ mine \in SUBSET (1..Len(history))
    BY SeqIs DEF AllTold
  <2>2. ids = [k \in DOMAIN calls |-> calls[k].id]
    BY Zenon DEF OpenCalls
  <2> HIDE DEF mine
  <2>3. IsSeq(calls)
    BY ONLY <2>1, SelectedAt
  <2> HIDE DEF calls
  <2>4. n \in Nat /\ DOMAIN calls = 1..n
    BY <2>3, SeqIs
  <2> HIDE DEF n
  <2>5. DOMAIN ids = 1..n
    BY <2>2, <2>4
  <2> HIDE DEF ids
  <2>6. \A k \in 1..n : ToldForm(made(k))
    <3> TAKE k \in 1..n
    <3>1. made(k).item = "function_call_output"
      OBVIOUS
    <3> HIDE DEF made
    <3> QED BY <3>1, PlainTold DEF CallItems
  <2>7. DOMAIN results = 1..n /\ results = [k \in 1..n |-> results[k]] /\ \A k \in 1..n : results[k] = made(k)
    BY <2>5
  <2> HIDE DEF results, made
  <2> QED BY <2>4, <2>6, <2>7, MadeTold
<1>9. AllTold(a6)
  <2> DEFINE p == InputText(words)
  <2> HIDE DEF p
  <2>1. ToldForm(MessageItem("user", <<p>>))
    BY SeqOne, MessageTold
  <2> QED BY <2>1, OneTold DEF p
<1> HIDE DEF a1, a2, a3, a4, results, a6
<1> QED BY <1>2, <1>3, <1>4, <1>5, <1>6, <1>7, <1>8, <1>9

LEMMA CodexAnswerIs ==
  ASSUME wire = "codex", NEW shape \in Seq(BlockKinds("codex")), NEW u
  PROVE  LET out == AnswerOf(shape, u).output IN AllTold(out) /\ DeveloperTexts(out) = <<>>
<1> DEFINE n == Len(shape)
           s == AnswerOf(shape, u).output
<1>1. n \in Nat /\ DOMAIN shape = 1..n
      /\ \A k \in 1..n : shape[k] \in {"message", "call", "object_call", "own", "own_alone", "foreign", "id_alone"}
  BY DEF BlockKinds
<1>2. s = [k \in DOMAIN shape |-> CodexItem(shape[k], turn, k)]
  BY DEF AnswerOf
<1> HIDE DEF s, n
<1>3. DOMAIN s = 1..n /\ s = [k \in 1..n |-> s[k]] /\ \A k \in 1..n : s[k] = CodexItem(shape[k], turn, k)
  BY <1>1, <1>2
<1>4. \A k \in 1..n : ToldForm(s[k]) /\ ~IsDeveloper(s[k])
  <2> TAKE k \in 1..n
  <2> DEFINE i == s[k]
  <2>1. CASE shape[k] = "message"
    <3> DEFINE p == OutputText(Words(turn, k))
    <3>1. i = MessageItem("assistant", <<p>>)
      BY <1>3, <2>1 DEF CodexItem
    <3> HIDE DEF p, i
    <3>2. ToldForm(i)
      BY <3>1, SeqOne, MessageTold
    <3> QED BY <3>1, <3>2 DEF IsDeveloper, MessageItem, i
  <2>2. CASE shape[k] = "call"
    <3>1. i = Call("function_call", Id(turn, k), Plain(Json("x")), "completed")
      BY <1>3, <2>2 DEF CodexItem
    <3>2. Plain(Json("x")).form = "text"
      BY DEF Plain
    <3> HIDE DEF i
    <3>3. i.item = "function_call" /\ i.payload = Plain(Json("x"))
      BY <3>1 DEF Call
    <3>4. ToldForm(i)
      BY <3>2, <3>3 DEF ToldForm, CallItems
    <3> QED BY <3>3, <3>4 DEF IsDeveloper, i
  <2>3. CASE shape[k] = "object_call"
    <3> DEFINE p == [form |-> "object", value |-> "x"]
    <3>1. i = Call("custom_tool_call", Id(turn, k), p, "failed")
      BY <1>3, <2>3 DEF CodexItem
    <3>2. p.value = "x"
      OBVIOUS
    <3> HIDE DEF p, i
    <3>3. i.item = "custom_tool_call" /\ i.payload = p
      BY <3>1 DEF Call
    <3>4. ToldForm(i)
      BY <3>2, <3>3, ArgumentsAssumption DEF ToldForm, CallItems
    <3> QED BY <3>3, <3>4 DEF IsDeveloper, i
  <2>4. CASE shape[k] \in {"own", "own_alone", "foreign", "id_alone"}
    <3>1. \E opaque, valid, text : i = Reasoning(opaque, valid, text)
      <4>1. i = CodexItem(shape[k], turn, k)
        BY <1>3
      <4> HIDE DEF i
      <4>2. CASE shape[k] = "own"
        <5>1. i = Reasoning("bedrock", TRUE, Words(turn, k))
          BY <4>1, <4>2 DEF CodexItem
        <5> QED BY <5>1
      <4>3. CASE shape[k] = "own_alone"
        <5>1. i = Reasoning("bedrock", FALSE, <<>>)
          BY <4>1, <4>3 DEF CodexItem
        <5> QED BY <5>1
      <4>4. CASE shape[k] = "foreign"
        <5>1. i = Reasoning("foreign", TRUE, Words(turn, k))
          BY <4>1, <4>4 DEF CodexItem
        <5> QED BY <5>1
      <4>5. CASE shape[k] = "id_alone"
        <5>1. i = Reasoning("none", FALSE, <<>>)
          BY <4>1, <4>5 DEF CodexItem
        <5> QED BY <5>1
      <4> QED BY <2>4, <4>2, <4>3, <4>4, <4>5
    <3>2. i.item = "reasoning"
      BY <3>1 DEF Reasoning
    <3> HIDE DEF i
    <3> QED BY <3>2, PlainTold DEF CallItems, IsDeveloper, i
  <2> QED BY <1>1, <2>1, <2>2, <2>3, <2>4
<1>5. AllTold(s)
  BY <1>1, <1>3, <1>4, MadeTold
<1>6. \A x \in ToSet(s) : ~IsDeveloper(x)
  BY <1>3, <1>4 DEF ToSet
<1>7. DeveloperTexts(s) = <<>>
  BY <1>5, <1>6, NoDeveloper DEF AllTold
<1> QED BY <1>5, <1>7 DEF s

-----------------------------------------------------------------------------
\* What a Claude model is told of a chat history, message by message.

MessageTells(m) == IF IsSystem(m) THEN <<>> ELSE By(ConvertMessage(m).role, ConvertMessage(m).content)
SystemSays(m) == IF IsSystem(m) THEN SystemTexts(m) ELSE <<>>
ChatForm(m) ==
  /\ IsSystem(m) => IsSeq(SystemTexts(m))
  /\ ~IsSystem(m) => IsSeq(ConvertMessage(m).content)
  /\ m.role = "assistant" /\ "calls" \in DOMAIN m => IsSeq(m.calls)
ChatForms(ms) == IsSeq(ms) /\ \A m \in ToSet(ms) : ChatForm(m)

LEMMA SaysSeq ==
  ASSUME NEW m, ChatForm(m)
  PROVE  IsSeq(MessageTells(m)) /\ IsSeq(SystemSays(m))
BY ByIs, SeqEmpty DEF ChatForm, MessageTells, SystemSays

LEMMA TellsMap ==
  ASSUME NEW X, NEW f, f = [m \in X |-> MessageTells(m)],
         NEW ms, ChatForms(ms), ToSet(ms) \subseteq X
  PROVE  Maps(f, ms) /\ Heard(ChatMessages(ms)) = FlatMap(f, ms) /\ IsSeq(ChatMessages(ms))
<1> DEFINE I == {k \in DOMAIN ms : ~IsSystem(ms[k])}
           rest == Selected(ms, I)
           c == [k \in DOMAIN rest |-> ConvertMessage(rest[k])]
           b == [k \in DOMAIN c |-> By(c[k].role, c[k].content)]
           a == [k \in DOMAIN ms |-> f[ms[k]]]
<1>1. /\ DOMAIN ms = 1..Len(ms)
      /\ \A k \in DOMAIN ms : ms[k] \in X /\ ms[k] \in ToSet(ms) /\ f[ms[k]] = MessageTells(ms[k])
  BY SeqIs DEF ChatForms
<1>2. Maps(f, ms)
  <2>1. \A m \in ToSet(ms) : IsSeq(f[m])
    BY SaysSeq DEF ChatForms
  <2> QED BY <2>1 DEF Maps, ChatForms
<1>3. /\ IsSeqs(a) /\ Len(a) = Len(ms) /\ FlatMap(f, ms) = FlattenSeq(a) /\ \A k \in 1..Len(ms) : a[k] = f[ms[k]]
  BY <1>2, FlatMapParts
<1>4. ChatMessages(ms) = c
  BY DEF ChatMessages
<1>5. I \in SUBSET (1..Len(ms)) /\ \A k \in 1..Len(ms) : k \in I <=> ~IsSystem(ms[k])
  BY <1>1
<1> HIDE DEF I, a
<1>6. IsSeq(rest) /\ \A x : x \in ToSet(rest) <=> \E k \in I : x = ms[k]
  BY <1>5, SelectedAt DEF ChatForms
<1>7. DOMAIN rest = 1..Len(rest) /\ Len(rest) \in Nat
  BY <1>6, SeqIs
<1>8. DOMAIN c = 1..Len(rest) /\ c = [k \in 1..Len(rest) |-> c[k]] /\ \A k \in 1..Len(rest) : c[k] = ConvertMessage(rest[k])
  BY <1>7
<1> HIDE DEF c
<1>9. DOMAIN b = 1..Len(rest) /\ b = [k \in 1..Len(rest) |-> b[k]]
      /\ \A k \in 1..Len(rest) : b[k] = By(c[k].role, c[k].content)
  BY <1>8
<1>10. Heard(c) = FlattenSeq(b)
  BY DEF Heard
<1> HIDE DEF b
<1>11. IsSeq(c) /\ IsSeq(b) /\ Len(b) = Len(rest)
  BY <1>7, <1>8, <1>9, MadeSeq
<1>12. \A k \in (1..Len(ms)) \ I : a[k] = <<>>
  <2> TAKE k \in (1..Len(ms)) \ I
  <2>1. IsSystem(ms[k]) /\ a[k] = MessageTells(ms[k])
    BY <1>1, <1>3, <1>5
  <2> QED BY <2>1 DEF MessageTells
<1>13. \A k \in 1..Len(b) : \A j \in I : rest[k] = ms[j] => b[k] = a[j]
  <2> TAKE k \in 1..Len(b)
  <2> TAKE j \in I
  <2> HAVE rest[k] = ms[j]
  <2>1. ~IsSystem(ms[j]) /\ a[j] = MessageTells(ms[j])
    BY <1>1, <1>3, <1>5
  <2>2. c[k] = ConvertMessage(ms[j]) /\ b[k] = By(c[k].role, c[k].content)
    BY <1>8, <1>9, <1>11
  <2> QED BY <2>1, <2>2 DEF MessageTells
<1>14. IsSeq(ms)
  BY DEF ChatForms
<1>15. FlattenSeq(b) = FlattenSeq(a)
  BY <1>3, <1>5, <1>11, <1>12, <1>13, <1>14, FlattenPicked
<1> QED BY <1>2, <1>3, <1>4, <1>10, <1>11, <1>15

LEMMA SystemMap ==
  ASSUME NEW X, NEW f, f = [m \in X |-> SystemSays(m)],
         NEW ms, ChatForms(ms), ToSet(ms) \subseteq X
  PROVE  Maps(f, ms) /\ ChatSystem(ms) = FlatMap(f, ms)
<1> DEFINE I == {k \in DOMAIN ms : IsSystem(ms[k])}
           system0 == Selected(ms, I)
           b == [k \in DOMAIN system0 |-> SystemTexts(system0[k])]
           a == [k \in DOMAIN ms |-> f[ms[k]]]
<1>1. /\ DOMAIN ms = 1..Len(ms)
      /\ \A k \in DOMAIN ms : ms[k] \in X /\ ms[k] \in ToSet(ms) /\ f[ms[k]] = SystemSays(ms[k])
  BY SeqIs DEF ChatForms
<1>2. Maps(f, ms)
  <2>1. \A m \in ToSet(ms) : IsSeq(f[m])
    BY SaysSeq DEF ChatForms
  <2> QED BY <2>1 DEF Maps, ChatForms
<1>3. /\ IsSeqs(a) /\ Len(a) = Len(ms) /\ FlatMap(f, ms) = FlattenSeq(a) /\ \A k \in 1..Len(ms) : a[k] = f[ms[k]]
  BY <1>2, FlatMapParts
<1>4. ChatSystem(ms) = FlattenSeq(b)
  BY DEF ChatSystem
<1>5. I \in SUBSET (1..Len(ms)) /\ \A k \in 1..Len(ms) : k \in I <=> IsSystem(ms[k])
  BY <1>1
<1> HIDE DEF I, a
<1>6. IsSeq(system0) /\ \A x : x \in ToSet(system0) <=> \E k \in I : x = ms[k]
  BY <1>5, SelectedAt DEF ChatForms
<1>7. DOMAIN system0 = 1..Len(system0) /\ Len(system0) \in Nat
  BY <1>6, SeqIs
<1>8. DOMAIN b = 1..Len(system0) /\ b = [k \in 1..Len(system0) |-> b[k]]
      /\ \A k \in 1..Len(system0) : b[k] = SystemTexts(system0[k])
  BY <1>7
<1> HIDE DEF b
<1>9. IsSeq(b) /\ Len(b) = Len(system0)
  BY <1>7, <1>8, MadeSeq
<1>10. \A k \in (1..Len(ms)) \ I : a[k] = <<>>
  <2> TAKE k \in (1..Len(ms)) \ I
  <2>1. ~IsSystem(ms[k]) /\ a[k] = SystemSays(ms[k])
    BY <1>1, <1>3, <1>5
  <2> QED BY <2>1 DEF SystemSays
<1>11. \A k \in 1..Len(b) : \A j \in I : system0[k] = ms[j] => b[k] = a[j]
  <2> TAKE k \in 1..Len(b)
  <2> TAKE j \in I
  <2> HAVE system0[k] = ms[j]
  <2>1. IsSystem(ms[j]) /\ a[j] = SystemSays(ms[j])
    BY <1>1, <1>3, <1>5
  <2>2. b[k] = SystemTexts(ms[j])
    BY <1>8, <1>9
  <2> QED BY <2>1, <2>2 DEF SystemSays
<1>12. IsSeq(ms)
  BY DEF ChatForms
<1>13. FlattenSeq(b) = FlattenSeq(a)
  BY <1>3, <1>5, <1>9, <1>10, <1>11, <1>12, FlattenPicked
<1> QED BY <1>2, <1>3, <1>4, <1>13

LEMMA ChatConcat ==
  ASSUME NEW s, ChatForms(s), NEW t, ChatForms(t)
  PROVE  /\ ChatForms(s \o t)
         /\ Heard(ChatMessages(s \o t)) = Heard(ChatMessages(s)) \o Heard(ChatMessages(t))
         /\ ChatSystem(s \o t) = ChatSystem(s) \o ChatSystem(t)
<1> DEFINE X == ToSet(s) \union ToSet(t)
           f == [m \in X |-> MessageTells(m)]
           g == [m \in X |-> SystemSays(m)]
<1>1. ChatForms(s \o t) /\ ToSet(s \o t) = X
  BY SeqConcat DEF ChatForms
<1> HIDE DEF f, g
<1>2. /\ Maps(f, s) /\ Heard(ChatMessages(s)) = FlatMap(f, s)
      /\ Maps(f, t) /\ Heard(ChatMessages(t)) = FlatMap(f, t)
      /\ Heard(ChatMessages(s \o t)) = FlatMap(f, s \o t)
  BY <1>1, TellsMap DEF f
<1>3. /\ Maps(g, s) /\ ChatSystem(s) = FlatMap(g, s)
      /\ Maps(g, t) /\ ChatSystem(t) = FlatMap(g, t)
      /\ ChatSystem(s \o t) = FlatMap(g, s \o t)
  BY <1>1, SystemMap DEF g
<1>4. FlatMap(f, s \o t) = FlatMap(f, s) \o FlatMap(f, t)
  BY <1>2, FlatMapConcat
<1>5. FlatMap(g, s \o t) = FlatMap(g, s) \o FlatMap(g, t)
  BY <1>3, FlatMapConcat
<1> QED BY <1>1, <1>2, <1>3, <1>4, <1>5

LEMMA ChatOne ==
  ASSUME NEW m, ChatForm(m)
  PROVE  /\ ChatForms(<<m>>) /\ Heard(ChatMessages(<<m>>)) = MessageTells(m)
         /\ ChatSystem(<<m>>) = SystemSays(m)
<1> DEFINE f == [x \in {m} |-> MessageTells(x)]
           g == [x \in {m} |-> SystemSays(x)]
<1>1. ChatForms(<<m>>) /\ ToSet(<<m>>) = {m}
  BY SeqOne DEF ChatForms
<1>2. f[m] = MessageTells(m) /\ IsSeq(f[m]) /\ g[m] = SystemSays(m) /\ IsSeq(g[m])
  BY SaysSeq
<1> HIDE DEF f, g
<1>3. Heard(ChatMessages(<<m>>)) = FlatMap(f, <<m>>) /\ ChatSystem(<<m>>) = FlatMap(g, <<m>>)
  BY <1>1, TellsMap, SystemMap DEF f, g
<1> QED BY <1>1, <1>2, <1>3, FlatMapOne

LEMMA ChatNothing == ChatForms(<<>>) /\ Heard(ChatMessages(<<>>)) = <<>> /\ ChatSystem(<<>>) = <<>>
<1> DEFINE f == [x \in {} |-> MessageTells(x)]
           g == [x \in {} |-> SystemSays(x)]
<1>1. ChatForms(<<>>) /\ ToSet(<<>>) = {}
  BY SeqEmpty DEF ChatForms
<1> HIDE DEF f, g
<1>2. Heard(ChatMessages(<<>>)) = FlatMap(f, <<>>) /\ ChatSystem(<<>>) = FlatMap(g, <<>>)
  BY <1>1, TellsMap, SystemMap DEF f, g
<1> QED BY <1>1, <1>2, FlatMapEmpty

-----------------------------------------------------------------------------
\* What a chat client says in a turn is what its messages say.

LEMMA OpenCallsChat ==
  ASSUME wire = "chat", ChatForms(history)
  PROVE  IsSeq(OpenCalls)
<1>1. CASE history = <<>>
  BY <1>1, SeqEmpty DEF OpenCalls
<1>2. CASE history # <<>>
  <2> DEFINE m == history[Len(history)]
  <2>1. m.role = "assistant" /\ "calls" \in DOMAIN m => IsSeq(m.calls)
    BY <1>2, LastIn DEF ChatForms, ChatForm
  <2>2. OpenCalls = CallsOf(m)
    BY <1>2 DEF OpenCalls
  <2> HIDE DEF m
  <2>3. CASE m.role = "assistant" /\ "calls" \in DOMAIN m
    <3> DEFINE c == m.calls
               r == [k \in DOMAIN c |-> c[k].id]
    <3>1. CallsOf(m) = r
      BY <2>3 DEF CallsOf
    <3>2. Len(c) \in Nat /\ DOMAIN c = 1..Len(c)
      BY <2>1, <2>3, SeqIs
    <3> HIDE DEF c
    <3>3. DOMAIN r = 1..Len(c) /\ r = [k \in 1..Len(c) |-> r[k]]
      BY <3>2
    <3> HIDE DEF r
    <3>4. IsSeq(r)
      BY <3>2, <3>3, MadeSeq
    <3> QED BY <2>2, <3>1, <3>4
  <2>4. CASE ~(m.role = "assistant" /\ "calls" \in DOMAIN m)
    BY <2>2, <2>4, SeqEmpty DEF CallsOf
  <2> QED BY <2>3, <2>4
<1> QED BY <1>1, <1>2

LEMMA NoSystem ==
  ASSUME NEW ms, IsSeq(ms), \A m \in ToSet(ms) : ~IsSystem(m)
  PROVE  ChatSystem(ms) = <<>>
<1> DEFINE I == {k \in DOMAIN ms : IsSystem(ms[k])}
           system0 == Selected(ms, I)
<1>1. I = {}
  BY SeqIs
<1> HIDE DEF I
<1>2. system0 = <<>>
  BY <1>1, SelectedNone
<1>3. ChatSystem(ms) = FlattenSeq([k \in DOMAIN system0 |-> SystemTexts(system0[k])])
  BY DEF ChatSystem, I
<1> HIDE DEF system0
<1>4. [k \in DOMAIN system0 |-> SystemTexts(system0[k])] = <<>>
  BY <1>2
<1> QED BY <1>3, <1>4, SeqEmpty

LEMMA ToolTells ==
  ASSUME NEW id, NEW text, NEW m, m = [role |-> "tool", id |-> id, text |-> text]
  PROVE  ChatForm(m) /\ ~IsSystem(m) /\ MessageTells(m) = <<[by |-> "user", what |-> ToolResult(id, text)]>>
<1>1. m.role = "tool" /\ m.id = id /\ m.text = text
  OBVIOUS
<1>2. ConvertMessage(m) = [role |-> "user", content |-> <<ToolResult(id, text)>>]
  BY <1>1 DEF ConvertMessage
<1>3. ConvertMessage(m).role = "user" /\ ConvertMessage(m).content = <<ToolResult(id, text)>>
  BY <1>2
<1>4. ~IsSystem(m)
  BY <1>1 DEF IsSystem
<1>5. ChatForm(m)
  BY <1>1, <1>3, <1>4, SeqOne DEF ChatForm
<1>6. MessageTells(m) = By("user", <<ToolResult(id, text)>>)
  BY <1>3, <1>4 DEF MessageTells
<1> QED BY <1>4, <1>5, <1>6, ByFew

LEMMA UserTells ==
  ASSUME NEW c, IsSeq(ContentBlocks(c)), NEW m, m = [role |-> "user", content |-> c]
  PROVE  ChatForm(m) /\ ~IsSystem(m) /\ MessageTells(m) = By("user", ContentBlocks(c))
<1>1. m.role = "user" /\ m.content = c
  OBVIOUS
<1>2. ConvertMessage(m) = [role |-> "user", content |-> ContentBlocks(c)]
  BY <1>1 DEF ConvertMessage
<1>3. ConvertMessage(m).role = "user" /\ ConvertMessage(m).content = ContentBlocks(c)
  BY <1>2
<1>4. ~IsSystem(m)
  BY <1>1 DEF IsSystem
<1>5. ChatForm(m)
  BY <1>1, <1>3, <1>4 DEF ChatForm
<1> QED BY <1>3, <1>4, <1>5 DEF MessageTells

LEMMA HintTells ==
  ASSUME NEW w, NEW m, m = [role |-> "system", content |-> Parts(<<[type |-> "text", text |-> w]>>)]
  PROVE  ChatForm(m) /\ MessageTells(m) = <<>> /\ SystemSays(m) = <<w>>
<1> DEFINE p == [type |-> "text", text |-> w]
           ps == <<p>>
<1>1. m.role = "system" /\ m.content.form = "parts" /\ m.content.parts = ps
  BY DEF Parts
<1>2. IsSystem(m)
  BY <1>1 DEF IsSystem
<1>3. p.type = "text" /\ p.text = w
  OBVIOUS
<1> HIDE DEF p
<1>4. DOMAIN ps = 1..1 /\ ps[1] = p
  BY SeqOne
<1>5. OfType(ps, "text") = ps
  <2>1. {k \in DOMAIN ps : ps[k].type = "text"} = {1}
    BY <1>3, <1>4
  <2>2. OfType(ps, "text") = Selected(ps, {1})
    BY <2>1 DEF OfType
  <2> QED BY <2>2, SelectedFirst
<1>6. [k \in DOMAIN ps |-> ps[k].text] = <<w>>
  <2>1. [k \in DOMAIN ps |-> ps[k].text] = [k \in 1..1 |-> w]
    BY <1>3, <1>4
  <2>2. [k \in 1..1 |-> w] = <<w>>
    OBVIOUS
  <2> QED BY <2>1, <2>2
<1> HIDE DEF ps
<1>7. SystemTexts(m) = <<w>>
  BY <1>1, <1>5, <1>6 DEF SystemTexts
<1>8. ChatForm(m)
  BY <1>1, <1>2, <1>7, SeqOne DEF ChatForm
<1> QED BY <1>2, <1>7, <1>8 DEF MessageTells, SystemSays

LEMMA ThreeAre ==
  ASSUME NEW x, NEW y, NEW z
  PROVE  /\ <<x>> \o <<y>> = <<x, y>> /\ IsSeq(<<x, y>>)
         /\ <<x, y>> \o <<z>> = <<x, y, z>> /\ IsSeq(<<x, y, z>>)
<1> DEFINE a == <<x>>
           b == <<y>>
           c == <<z>>
           d == <<x, y>>
           e == <<x, y, z>>
           u == a \o b
           v == d \o c
<1>1. /\ IsSeq(a) /\ Len(a) = 1 /\ a[1] = x
      /\ IsSeq(b) /\ Len(b) = 1 /\ b[1] = y
      /\ IsSeq(c) /\ Len(c) = 1 /\ c[1] = z
  BY SeqOne
<1>2. /\ IsSeq(d) /\ Len(d) = 2 /\ d[1] = x /\ d[2] = y
      /\ IsSeq(e) /\ Len(e) = 3 /\ e[1] = x /\ e[2] = y /\ e[3] = z
  <2>1. d \in Seq({x, y}) /\ e \in Seq({x, y, z})
    OBVIOUS
  <2>2. Len(d) = 2 /\ d[1] = x /\ d[2] = y /\ Len(e) = 3 /\ e[1] = x /\ e[2] = y /\ e[3] = z
    OBVIOUS
  <2> QED BY <2>1, <2>2 DEF IsSeq
<1> HIDE DEF a, b, c, d, e
<1>3. u = d
  <2>1. IsSeq(a) /\ IsSeq(b)
    BY <1>1
  <2>2. /\ IsSeq(u) /\ Len(u) = Len(a) + Len(b)
        /\ \A k \in 1..Len(a) : u[k] = a[k]
        /\ \A k \in 1..Len(b) : u[k + Len(a)] = b[k]
    BY ONLY <2>1, SeqConcat
  <2> HIDE DEF u
  <2>3. 1 \in 1..Len(a) /\ 1 \in 1..Len(b) /\ 1 + Len(a) = 2
    BY <1>1
  <2>4. IsSeq(u) /\ IsSeq(d) /\ Len(u) = Len(d) /\ \A k \in 1..Len(u) : u[k] = d[k]
    BY <1>1, <1>2, <2>2, <2>3
  <2> QED BY ONLY <2>4, SeqSame
<1>4. v = e
  <2>1. IsSeq(d) /\ IsSeq(c)
    BY <1>1, <1>2
  <2>2. /\ IsSeq(v) /\ Len(v) = Len(d) + Len(c)
        /\ \A k \in 1..Len(d) : v[k] = d[k]
        /\ \A k \in 1..Len(c) : v[k + Len(d)] = c[k]
    BY ONLY <2>1, SeqConcat
  <2> HIDE DEF v
  <2>3. 1 \in 1..Len(d) /\ 2 \in 1..Len(d) /\ 1 \in 1..Len(c) /\ 1 + Len(d) = 3
    BY <1>1, <1>2
  <2>4. IsSeq(v) /\ IsSeq(e) /\ Len(v) = Len(e) /\ \A k \in 1..Len(v) : v[k] = e[k]
    BY <1>1, <1>2, <2>2, <2>3
  <2> QED BY ONLY <2>4, SeqSame
<1>5. IsSeq(d) /\ IsSeq(e)
  BY <1>2
<1> QED BY ONLY <1>3, <1>4, <1>5 DEF u, v, a, b, c, d, e

LEMMA FlatMapThree ==
  ASSUME NEW f, NEW s, IsSeq(s), Len(s) = 3, IsSeq(f[s[1]]), IsSeq(f[s[2]]), IsSeq(f[s[3]])
  PROVE  FlatMap(f, s) = f[s[1]] \o f[s[2]] \o f[s[3]]
<1> DEFINE x == s[1]
           y == s[2]
           z == s[3]
           a == <<x>>
           b == <<y>>
           c == <<z>>
           d == <<x, y>>
           e == <<x, y, z>>
<1>0. s = e
  <2>1. e \in Seq({x, y, z}) /\ Len(e) = 3 /\ e[1] = x /\ e[2] = y /\ e[3] = z
    OBVIOUS
  <2>2. IsSeq(e) /\ \A k \in 1..3 : s[k] = e[k]
    <3> HIDE DEF e
    <3> QED BY <2>1 DEF IsSeq
  <2> HIDE DEF e
  <2>3. Len(s) = Len(e) /\ \A k \in 1..Len(s) : s[k] = e[k]
    BY <2>1, <2>2
  <2> QED BY <2>2, <2>3, SeqSame
<1>1. Maps(f, a) /\ FlatMap(f, a) = f[x] /\ Maps(f, b) /\ FlatMap(f, b) = f[y]
      /\ Maps(f, c) /\ FlatMap(f, c) = f[z]
  BY FlatMapOne
<1>2. a \o b = d /\ d \o c = e
  BY ThreeAre
<1> HIDE DEF a, b, c, d, e
<1>3. Maps(f, a \o b) /\ FlatMap(f, a \o b) = FlatMap(f, a) \o FlatMap(f, b)
  BY <1>1, FlatMapConcat
<1>4. Maps(f, d) /\ FlatMap(f, d) = f[x] \o f[y]
  BY <1>1, <1>2, <1>3
<1>5. FlatMap(f, d \o c) = FlatMap(f, d) \o FlatMap(f, c)
  BY <1>1, <1>4, FlatMapConcat
<1>6. FlatMap(f, s) = f[x] \o f[y] \o f[z]
  BY <1>0, <1>1, <1>2, <1>4, <1>5
<1> QED BY <1>6

LEMMA PartsTell ==
  ASSUME NEW w
  PROVE  /\ ContentBlocks(Plain(w)) = <<Text(w)>>
         /\ ContentBlocks(Parts(<<[type |-> "text", text |-> w], Image, [type |-> "thinking"]>>)) = <<Text(w), Image>>
         /\ ContentBlocks(Parts(<<[type |-> "no_image"]>>)) = <<Text(Blank)>>
<1>1. ContentBlocks(Plain(w)) = <<Text(w)>>
  BY DEF ContentBlocks, Plain
<1>2. ContentBlocks(Parts(<<[type |-> "text", text |-> w], Image, [type |-> "thinking"]>>)) = <<Text(w), Image>>
  <2> DEFINE x == [type |-> "text", text |-> w]
             z == [type |-> "thinking"]
             X == {x, Image, z}
             f == [p \in X |-> PartBlocks(p)]
             ps == <<x, Image, z>>
             b == FlattenSeq([k \in DOMAIN ps |-> PartBlocks(ps[k])])
             c == Parts(ps)
  <2>1. PartBlocks(x) = <<Text(w)>> /\ PartBlocks(Image) = <<Image>> /\ PartBlocks(z) = <<>>
    BY DEF PartBlocks, Image
  <2>2. c.form = "parts" /\ c.parts = ps
    BY DEF Parts
  <2> HIDE DEF x, z
  <2>3. f[x] = <<Text(w)>> /\ f[Image] = <<Image>> /\ f[z] = <<>>
    BY <2>1
  <2>4. DOMAIN ps = 1..3 /\ \A k \in DOMAIN ps : ps[k] \in X
    OBVIOUS
  <2> HIDE DEF X
  <2>5. [k \in DOMAIN ps |-> PartBlocks(ps[k])] = [k \in DOMAIN ps |-> f[ps[k]]]
    BY <2>4
  <2> HIDE DEF f
  <2>6. b = FlatMap(f, ps)
    BY <2>5 DEF FlatMap
  <2>7. IsSeq(f[x]) /\ IsSeq(f[Image]) /\ IsSeq(f[z])
    BY <2>3, SeqOne, SeqEmpty
  <2>8. b = f[x] \o f[Image] \o f[z]
    <3>0. IsSeq(ps) /\ Len(ps) = 3 /\ ps[1] = x /\ ps[2] = Image /\ ps[3] = z
      BY ThreeAre
    <3> HIDE DEF ps
    <3>1. FlatMap(f, ps) = f[x] \o f[Image] \o f[z]
      BY ONLY <2>7, <3>0, FlatMapThree
    <3> HIDE DEF b
    <3> QED BY <2>6, <3>1
  <2>9. b = <<Text(w), Image>>
    <3> DEFINE y == Text(w)
               s == <<y>>
               i == <<Image>>
    <3>1. IsSeq(s \o i)
      BY SeqOne, SeqConcat
    <3>2. b = (s \o i) \o <<>>
      BY <2>3, <2>8
    <3> HIDE DEF b
    <3>3. b = s \o i
      BY <3>1, <3>2, SeqEmpty
    <3> HIDE DEF y
    <3>4. s \o i = <<y, Image>>
      BY ThreeAre
    <3> QED BY <3>3, <3>4 DEF y
  <2>10. ContentBlocks(c) = IF b = <<>> THEN <<Text(Blank)>> ELSE b
    BY <2>2 DEF ContentBlocks
  <2>11. <<Text(w), Image>> # <<>>
    OBVIOUS
  <2> HIDE DEF b
  <2>12. ContentBlocks(c) = <<Text(w), Image>>
    BY <2>9, <2>10, <2>11
  <2> QED BY <2>12 DEF c, ps, x, z
<1>3. ContentBlocks(Parts(<<[type |-> "no_image"]>>)) = <<Text(Blank)>>
  <2> DEFINE x == [type |-> "no_image"]
             ps == <<x>>
             b == FlattenSeq([k \in DOMAIN ps |-> PartBlocks(ps[k])])
             c == Parts(ps)
  <2>1. PartBlocks(x) = <<>>
    BY DEF PartBlocks
  <2>2. c.form = "parts" /\ c.parts = ps
    BY DEF Parts
  <2> HIDE DEF x
  <2>3. [k \in DOMAIN ps |-> PartBlocks(ps[k])] = [k \in 1..1 |-> <<>>]
    BY <2>1, SeqOne
  <2>4. [k \in 1..1 |-> <<>>] = <<<<>>>>
    OBVIOUS
  <2>5. b = <<>>
    BY <2>3, <2>4, SeqOne, SeqEmpty
  <2>6. ContentBlocks(c) = IF b = <<>> THEN <<Text(Blank)>> ELSE b
    BY <2>2 DEF ContentBlocks
  <2> QED BY <2>5, <2>6 DEF x
<1> QED BY <1>1, <1>2, <1>3

TurnTells(t) ==
  /\ ChatForms(t.messages) /\ t.said = Heard(ChatMessages(t.messages)) /\ t.system = ChatSystem(t.messages)

LEMMA ResultsTell ==
  ASSUME NEW ids, IsSeq(ids),
         NEW t, t = Turn([k \in DOMAIN ids |-> [role |-> "tool", id |-> ids[k], text |-> <<Result(k)>>]], <<>>,
                         [k \in DOMAIN ids |-> ToolResult(ids[k], <<Result(k)>>)])
  PROVE  TurnTells(t)
<1> DEFINE tool(k) == [role |-> "tool", id |-> ids[k], text |-> <<Result(k)>>]
           result(k) == ToolResult(ids[k], <<Result(k)>>)
           ms == [k \in DOMAIN ids |-> tool(k)]
           rs == [k \in DOMAIN ids |-> result(k)]
           X == ToSet(ms)
           f == [m \in X |-> MessageTells(m)]
           e == By("user", rs)
<1>1. DOMAIN ids = 1..Len(ids) /\ Len(ids) \in Nat
  BY SeqIs
<1>2. t.messages = ms /\ t.system = <<>> /\ t.said = e
  BY DEF Turn
<1>3. /\ DOMAIN ms = 1..Len(ids) /\ ms = [k \in 1..Len(ids) |-> ms[k]] /\ \A k \in 1..Len(ids) : ms[k] = tool(k)
      /\ DOMAIN rs = 1..Len(ids) /\ rs = [k \in 1..Len(ids) |-> rs[k]] /\ \A k \in 1..Len(ids) : rs[k] = result(k)
  BY <1>1
<1> HIDE DEF ms, rs
<1>4. IsSeq(ms) /\ Len(ms) = Len(ids) /\ IsSeq(rs) /\ Len(rs) = Len(ids)
  BY <1>1, <1>3, MadeSeq
<1>5. \A k \in 1..Len(ids) : /\ ChatForm(ms[k]) /\ ~IsSystem(ms[k])
                             /\ MessageTells(ms[k]) = <<[by |-> "user", what |-> rs[k]]>>
  BY <1>3, ToolTells
<1>6. \A m \in X : \E k \in 1..Len(ids) : m = ms[k]
  BY <1>4, SeqIs
<1>7. ChatForms(ms) /\ ChatSystem(ms) = <<>>
  BY <1>4, <1>5, <1>6, NoSystem DEF ChatForms
<1>8. f = [m \in X |-> MessageTells(m)] /\ \A k \in 1..Len(ids) : f[ms[k]] = MessageTells(ms[k])
  BY <1>4, SeqIs
<1> HIDE DEF f
<1>9. Maps(f, ms) /\ Heard(ChatMessages(ms)) = FlatMap(f, ms)
  BY <1>7, <1>8, TellsMap
<1>10. /\ IsSeq(e) /\ Len(e) = Len(ids) /\ \A k \in 1..Len(ids) : e[k] = [by |-> "user", what |-> rs[k]]
  BY <1>4, ByIs
<1> DEFINE a == [k \in DOMAIN ms |-> f[ms[k]]]
<1>11. /\ IsSeqs(a) /\ Len(a) = Len(ms) /\ FlatMap(f, ms) = FlattenSeq(a) /\ \A k \in 1..Len(ms) : a[k] = f[ms[k]]
  BY <1>9, FlatMapParts
<1> HIDE DEF a, e, X
<1>12. \A k \in 1..Len(e) : a[k] = <<e[k]>>
  <2> TAKE k \in 1..Len(e)
  <2>1. k \in 1..Len(ids) /\ k \in 1..Len(ms)
    BY <1>4, <1>10
  <2>2. a[k] = MessageTells(ms[k]) /\ e[k] = [by |-> "user", what |-> rs[k]]
    BY <1>8, <1>10, <1>11, <2>1
  <2>3. MessageTells(ms[k]) = <<[by |-> "user", what |-> rs[k]]>>
    BY <1>5, <2>1
  <2> QED BY ONLY <2>2, <2>3
<1>13. IsSeq(a) /\ Len(a) = Len(e)
  BY <1>4, <1>10, <1>11, SeqsAre
<1>14. FlattenSeq(a) = e
  BY ONLY <1>10, <1>12, <1>13, FlattenOnes
<1> QED BY <1>2, <1>7, <1>9, <1>11, <1>14 DEF TurnTells

LEMMA ChatTurnIs ==
  ASSUME wire = "chat", ChatForms(history), NEW t \in ChatTurns
  PROVE  TurnTells(t)
<1> DEFINE ids == OpenCalls
           w == Words(turn, 1)
           h == Words(turn, 0)
           user(c) == [role |-> "user", content |-> c]
           hint == [role |-> "system", content |-> Parts(<<[type |-> "text", text |-> h]>>)]
           plain == user(Plain(w))
           shown == user(Parts(<<[type |-> "text", text |-> w], Image, [type |-> "thinking"]>>))
           none == user(Parts(<<[type |-> "no_image"]>>))
<1>1. IsSeq(ids)
  BY OpenCallsChat
<1>2. \/ t = Turn([k \in DOMAIN ids |-> [role |-> "tool", id |-> ids[k], text |-> <<Result(k)>>]], <<>>,
                  [k \in DOMAIN ids |-> ToolResult(ids[k], <<Result(k)>>)])
      \/ t = Turn(<<plain>>, <<>>, <<Text(w)>>)
      \/ t = Turn(<<shown, hint>>, <<h>>, <<Text(w), Image>>)
      \/ t = Turn(<<hint, none>>, <<h>>, <<Text(Blank)>>)
  BY DEF ChatTurns
<1>3. /\ ChatForm(plain) /\ ~IsSystem(plain) /\ MessageTells(plain) = By("user", <<Text(w)>>)
      /\ ChatForm(shown) /\ ~IsSystem(shown) /\ MessageTells(shown) = By("user", <<Text(w), Image>>)
      /\ ChatForm(none) /\ ~IsSystem(none) /\ MessageTells(none) = By("user", <<Text(Blank)>>)
  <2>1. /\ ContentBlocks(Plain(w)) = <<Text(w)>>
        /\ ContentBlocks(Parts(<<[type |-> "text", text |-> w], Image, [type |-> "thinking"]>>)) = <<Text(w), Image>>
        /\ ContentBlocks(Parts(<<[type |-> "no_image"]>>)) = <<Text(Blank)>>
    BY PartsTell
  <2>2. IsSeq(<<Text(w)>>) /\ IsSeq(<<Text(w), Image>>) /\ IsSeq(<<Text(Blank)>>)
    <3>1. <<Text(w), Image>> \in Seq({Text(w), Image})
      OBVIOUS
    <3> QED BY <3>1, SeqOne DEF IsSeq
  <2> QED BY <2>1, <2>2, UserTells
<1>4. ChatForm(hint) /\ MessageTells(hint) = <<>> /\ SystemSays(hint) = <<h>>
  BY HintTells
<1>5. SystemSays(plain) = <<>> /\ SystemSays(shown) = <<>> /\ SystemSays(none) = <<>>
  BY <1>3 DEF SystemSays
<1> HIDE DEF ids, w, h, hint, plain, shown, none
<1>6. /\ ChatForms(<<plain>>) /\ Heard(ChatMessages(<<plain>>)) = MessageTells(plain) /\ ChatSystem(<<plain>>) = <<>>
      /\ ChatForms(<<shown>>) /\ Heard(ChatMessages(<<shown>>)) = MessageTells(shown) /\ ChatSystem(<<shown>>) = <<>>
      /\ ChatForms(<<none>>) /\ Heard(ChatMessages(<<none>>)) = MessageTells(none) /\ ChatSystem(<<none>>) = <<>>
      /\ ChatForms(<<hint>>) /\ Heard(ChatMessages(<<hint>>)) = <<>> /\ ChatSystem(<<hint>>) = <<h>>
  BY <1>3, <1>4, <1>5, ChatOne
<1>7. CASE t = Turn([k \in DOMAIN ids |-> [role |-> "tool", id |-> ids[k], text |-> <<Result(k)>>]], <<>>,
                    [k \in DOMAIN ids |-> ToolResult(ids[k], <<Result(k)>>)])
  BY <1>1, <1>7, ResultsTell
<1>8. CASE t = Turn(<<plain>>, <<>>, <<Text(w)>>)
  <2>1. t.messages = <<plain>> /\ t.system = <<>> /\ t.said = By("user", <<Text(w)>>)
    BY <1>8 DEF Turn
  <2> QED BY <1>3, <1>6, <2>1 DEF TurnTells
<1> DEFINE ss == <<shown>>
           hs == <<hint>>
           ns == <<none>>
           a == ss \o hs
           b == hs \o ns
<1>9. /\ ChatForms(a) /\ Heard(ChatMessages(a)) = MessageTells(shown) \o <<>> /\ ChatSystem(a) = <<>> \o <<h>>
      /\ ChatForms(b) /\ Heard(ChatMessages(b)) = <<>> \o MessageTells(none) /\ ChatSystem(b) = <<h>> \o <<>>
  <2>1. /\ ChatForms(ss) /\ Heard(ChatMessages(ss)) = MessageTells(shown) /\ ChatSystem(ss) = <<>>
        /\ ChatForms(ns) /\ Heard(ChatMessages(ns)) = MessageTells(none) /\ ChatSystem(ns) = <<>>
        /\ ChatForms(hs) /\ Heard(ChatMessages(hs)) = <<>> /\ ChatSystem(hs) = <<h>>
    BY <1>6
  <2> HIDE DEF ss, hs, ns
  <2>2. /\ ChatForms(a) /\ Heard(ChatMessages(a)) = Heard(ChatMessages(ss)) \o Heard(ChatMessages(hs))
        /\ ChatSystem(a) = ChatSystem(ss) \o ChatSystem(hs)
    BY ONLY <2>1, ChatConcat
  <2>3. /\ ChatForms(b) /\ Heard(ChatMessages(b)) = Heard(ChatMessages(hs)) \o Heard(ChatMessages(ns))
        /\ ChatSystem(b) = ChatSystem(hs) \o ChatSystem(ns)
    BY ONLY <2>1, ChatConcat
  <2> HIDE DEF a, b
  <2> QED BY <2>1, <2>2, <2>3
<1>10. /\ MessageTells(shown) \o <<>> = MessageTells(shown) /\ <<>> \o MessageTells(none) = MessageTells(none)
       /\ <<>> \o <<h>> = <<h>> /\ <<h>> \o <<>> = <<h>>
  BY <1>3, SaysSeq, SeqOne, SeqEmpty
<1>11. <<shown, hint>> = a /\ <<hint, none>> = b
  BY ThreeAre
<1> HIDE DEF a, b
<1>12. CASE t = Turn(<<shown, hint>>, <<h>>, <<Text(w), Image>>)
  <2>1. t.messages = a /\ t.system = <<h>> /\ t.said = By("user", <<Text(w), Image>>)
    BY <1>11, <1>12 DEF Turn
  <2> QED BY <1>3, <1>9, <1>10, <2>1 DEF TurnTells
<1>13. CASE t = Turn(<<hint, none>>, <<h>>, <<Text(Blank)>>)
  <2>1. t.messages = b /\ t.system = <<h>> /\ t.said = By("user", <<Text(Blank)>>)
    BY <1>11, <1>13 DEF Turn
  <2> QED BY <1>3, <1>9, <1>10, <2>1 DEF TurnTells
<1> QED BY <1>2, <1>7, <1>8, <1>12, <1>13

-----------------------------------------------------------------------------
\* A chat message says the answer's text and its calls, with their ids and arguments.

FirstText(text, cs) ==
  IF text # <<>> THEN <<Text(text)>> ELSE IF cs = <<>> THEN <<Text(Blank)>> ELSE <<>>
\* calls is how a chat message tells the calls cs.
TellsCalls(calls, cs) ==
  /\ IsSeq(calls) /\ IsSeq(cs) /\ Len(calls) = Len(cs)
  /\ \A k \in 1..Len(cs) : cs[k] = ToolUse(calls[k].id, Loads(calls[k].arguments))

LEMMA ChatMessageSays ==
  ASSUME NEW text, NEW thoughts, NEW calls, NEW cs, TellsCalls(calls, cs),
         NEW m, m = ChatMessage(text, thoughts, calls)
  PROVE  ChatForm(m) /\ ~IsSystem(m) /\ MessageTells(m) = By("assistant", FirstText(text, cs) \o cs)
<1> DEFINE c == IF text = <<>> THEN NoContent ELSE Plain(text)
           p == FirstText(text, cs)
<1>1. IsSeq(calls) /\ IsSeq(cs) /\ DOMAIN calls = 1..Len(calls) /\ DOMAIN cs = 1..Len(cs) /\ Len(calls) = Len(cs)
      /\ Len(cs) \in Nat /\ cs = [k \in 1..Len(cs) |-> cs[k]]
  BY SeqIs DEF TellsCalls
<1>2. /\ text = <<>> => c.form = "null"
      /\ text # <<>> => c.form = "text" /\ c.text = text
  BY DEF NoContent, Plain
<1>3. IsSeq(p)
  BY SeqOne, SeqEmpty DEF FirstText
<1>4. calls = <<>> <=> cs = <<>>
  BY <1>1, SeqEmpty
<1>5. m = IF calls = <<>> THEN [role |-> "assistant", content |-> c, reasoning |-> thoughts]
          ELSE [role |-> "assistant", content |-> c, reasoning |-> thoughts, calls |-> calls]
  BY DEF ChatMessage
<1> HIDE DEF c
<1>6. CASE calls = <<>>
  <2>1. m.role = "assistant" /\ m.content = c /\ DOMAIN m = {"role", "content", "reasoning"}
    BY <1>5, <1>6
  <2>2. "calls" \notin DOMAIN m /\ ~IsSystem(m)
    BY <2>1 DEF IsSystem
  <2>3. ConvertMessage(m) = [role |-> "assistant", content |-> ContentBlocks(c)]
    BY <2>1, <2>2 DEF ConvertMessage
  <2>4. ContentBlocks(c) = p
    BY <1>2, <1>4, <1>6 DEF ContentBlocks, FirstText
  <2>5. p \o cs = p
    BY <1>3, <1>4, <1>6, SeqEmpty
  <2>6. ConvertMessage(m).role = "assistant" /\ ConvertMessage(m).content = p
    BY <2>3, <2>4
  <2> HIDE DEF p
  <2>7. ChatForm(m)
    BY <1>3, <2>2, <2>6 DEF ChatForm
  <2>8. MessageTells(m) = By("assistant", p)
    BY <2>2, <2>6 DEF MessageTells
  <2> QED BY <2>2, <2>5, <2>7, <2>8 DEF p
<1>7. CASE calls # <<>>
  <2>1. m.role = "assistant" /\ m.content = c /\ m.calls = calls /\ DOMAIN m = {"role", "content", "reasoning", "calls"}
    BY <1>5, <1>7
  <2>2. "calls" \in DOMAIN m /\ ~IsSystem(m)
    BY <2>1 DEF IsSystem
  <2>3. ConvertMessage(m) = [role |-> "assistant", content |-> CallBlocks(m)]
    BY <2>1, <2>2 DEF ConvertMessage
  <2> DEFINE text0 == CASE c.form = "null" -> <<>>
                        [] c.form = "text" -> c.text
                        [] c.form = "parts" -> IF c.parts = <<>> THEN <<>> ELSE <<"[...]">>
             cs0 == [k \in DOMAIN calls |-> ToolUse(calls[k].id, Loads(calls[k].arguments))]
             blocks == (IF text0 = <<>> THEN <<>> ELSE <<Text(text0)>>) \o cs0
  <2>4. CallBlocks(m) = IF blocks = <<>> THEN <<Text(Blank)>> ELSE blocks
    BY <2>1 DEF CallBlocks
  <2>5. text0 = text
    BY <1>2
  <2>6. cs0 = cs
    <3>1. \A k \in 1..Len(cs) : cs[k] = ToolUse(calls[k].id, Loads(calls[k].arguments))
      BY DEF TellsCalls
    <3>2. cs0 = [k \in 1..Len(cs) |-> cs[k]]
      BY <1>1, <3>1
    <3> QED BY <1>1, <3>2
  <2> HIDE DEF text0, cs0
  <2>7. p = IF text0 = <<>> THEN <<>> ELSE <<Text(text0)>>
    BY <1>4, <1>7, <2>5 DEF FirstText
  <2> HIDE DEF p
  <2>8. blocks = p \o cs
    BY <2>6, <2>7
  <2>9. IsSeq(p \o cs) /\ Len(p \o cs) = Len(p) + Len(cs) /\ Len(p) \in Nat
    BY <1>1, <1>3, SeqConcat, SeqIs
  <2>10. p \o cs # <<>>
    <3>1. Len(cs) # 0
      BY <1>1, <1>4, <1>7, SeqEmpty
    <3> QED BY <1>1, <2>9, <3>1, SeqEmpty
  <2> HIDE DEF blocks
  <2>11. CallBlocks(m) = p \o cs
    BY <2>4, <2>8, <2>10
  <2>12. ConvertMessage(m).role = "assistant" /\ ConvertMessage(m).content = p \o cs
    BY <2>3, <2>11
  <2>13. ChatForm(m)
    BY <1>1, <2>1, <2>2, <2>9, <2>12 DEF ChatForm
  <2>14. MessageTells(m) = By("assistant", p \o cs)
    BY <2>2, <2>12 DEF MessageTells
  <2> QED BY <2>2, <2>13, <2>14 DEF p
<1> QED BY <1>6, <1>7

\* The blocks of a Claude answer: the arguments of its calls are objects.
ClaudeKinds == {"text", "thinking", "call", "bare_call"}

LEMMA ClaudeBlocks ==
  ASSUME NEW shape \in Seq(ClaudeKinds), NEW t, NEW a, HasShape(a, shape, t)
  PROVE  /\ IsSeq(a.content)
         /\ \A b \in ToSet(a.content) : \E k \in ClaudeKinds, p \in Nat : b = ClaudeBlock(k, t, p)
<1>1. Len(shape) \in Nat /\ DOMAIN shape = 1..Len(shape) /\ \A k \in 1..Len(shape) : shape[k] \in ClaudeKinds
  BY DEF ClaudeKinds
<1> DEFINE c == a.content
<1>2. DOMAIN c = 1..Len(shape) /\ c = [k \in 1..Len(shape) |-> c[k]]
      /\ \A k \in 1..Len(shape) : c[k] = ClaudeBlock(shape[k], t, k)
  BY <1>1 DEF HasShape
<1> HIDE DEF c
<1>3. IsSeq(c) /\ Len(c) = Len(shape)
  BY <1>1, <1>2, MadeSeq
<1>4. \A b \in ToSet(c) : \E k \in 1..Len(c) : c[k] = b
  BY <1>3, SeqIs
<1>5. \A b \in ToSet(c) : \E k \in ClaudeKinds, p \in Nat : b = ClaudeBlock(k, t, p)
  <2> TAKE b \in ToSet(c)
  <2>1. PICK k \in 1..Len(c) : c[k] = b
    BY <1>4
  <2>2. b = ClaudeBlock(shape[k], t, k) /\ shape[k] \in ClaudeKinds /\ k \in Nat
    BY <1>1, <1>2, <1>3, <2>1
  <2> QED BY <2>2
<1> QED BY <1>3, <1>5 DEF c

LEMMA ClaudeBlockIs ==
  ASSUME NEW k \in ClaudeKinds, NEW t, NEW p, NEW b, b = ClaudeBlock(k, t, p)
  PROVE  \/ b.type = "text" /\ b.text = Words(t, p)
         \/ b.type = "thinking" /\ b.text = Words(t, p)
         \/ /\ b.type = "tool_use" /\ b.id = Id(t, p) /\ b.input \in {"x", "empty"}
            /\ b = ToolUse(b.id, b.input)
<1>1. CASE k = "text"
  <2>1. b = [type |-> "text", text |-> Words(t, p)]
    BY <1>1 DEF ClaudeBlock, Text
  <2> QED BY <2>1
<1>2. CASE k = "thinking"
  <2>1. b = [type |-> "thinking", text |-> Words(t, p)]
    BY <1>2 DEF ClaudeBlock
  <2> QED BY <2>1
<1>3. CASE k = "call"
  BY <1>3 DEF ClaudeBlock, ToolUse
<1>4. CASE k = "bare_call"
  BY <1>4 DEF ClaudeBlock, ToolUse
<1> QED BY <1>1, <1>2, <1>3, <1>4 DEF ClaudeKinds

LEMMA UsesAre ==
  ASSUME NEW shape \in Seq(ClaudeKinds), NEW t, NEW a, HasShape(a, shape, t),
         NEW cs, cs = OfType(a.content, "tool_use")
  PROVE  /\ IsSeq(cs) /\ Len(cs) \in Nat
         /\ \A k \in 1..Len(cs) : cs[k] = ToolUse(cs[k].id, cs[k].input) /\ cs[k].input \in {"x", "empty"}
                                  /\ cs[k].type = "tool_use"
<1> DEFINE s == a.content
           I == {k \in DOMAIN s : s[k].type = "tool_use"}
<1>1. /\ IsSeq(s)
      /\ \A b \in ToSet(s) : \E k \in ClaudeKinds, p \in Nat : b = ClaudeBlock(k, t, p)
  BY ClaudeBlocks
<1> HIDE DEF s
<1>2. DOMAIN s = 1..Len(s) /\ \A k \in 1..Len(s) : s[k] \in ToSet(s)
  BY <1>1, SeqIs
<1>3. I \in SUBSET (1..Len(s)) /\ \A k \in I : s[k].type = "tool_use" /\ s[k] \in ToSet(s)
  BY <1>2
<1>4. cs = Selected(s, I)
  BY DEF OfType, s
<1> HIDE DEF I
<1>5. IsSeq(cs) /\ \A x : x \in ToSet(cs) <=> \E k \in I : x = s[k]
  BY <1>1, <1>3, <1>4, SelectedAt
<1>6. Len(cs) \in Nat /\ \A k \in 1..Len(cs) : cs[k] \in ToSet(cs)
  BY <1>5, SeqIs
<1>7. ASSUME NEW k \in 1..Len(cs)
      PROVE  cs[k] = ToolUse(cs[k].id, cs[k].input) /\ cs[k].input \in {"x", "empty"} /\ cs[k].type = "tool_use"
  <2> DEFINE b == cs[k]
  <2>1. b \in ToSet(s) /\ b.type = "tool_use"
    BY <1>3, <1>5, <1>6
  <2>2. PICK j \in ClaudeKinds, p \in Nat : b = ClaudeBlock(j, t, p)
    BY <1>1, <2>1
  <2> HIDE DEF b
  <2>3. \/ b.type = "text" \/ b.type = "thinking"
        \/ b.input \in {"x", "empty"} /\ b = ToolUse(b.id, b.input)
    BY <2>2, ClaudeBlockIs
  <2> QED BY <2>1, <2>3 DEF b
<1> QED BY <1>5, <1>6, <1>7

LEMMA RenderedSays ==
  ASSUME NEW shape \in Seq(ClaudeKinds), NEW t, NEW a, HasShape(a, shape, t)
  PROVE  /\ ChatForm(RenderChat(a).message) /\ ~IsSystem(RenderChat(a).message)
         /\ MessageTells(RenderChat(a).message) = SeenChat(a.content)
<1> DEFINE cs == OfType(a.content, "tool_use")
           text == TextsOf(a.content)
           calls == [k \in DOMAIN cs |-> [id |-> cs[k].id, arguments |-> Json(cs[k].input)]]
           m == ChatMessage(text, ThoughtsOf(a.content), calls)
<1>1. RenderChat(a).message = m
  BY DEF RenderChat
<1>2. SeenChat(a.content) = By("assistant", FirstText(text, cs) \o cs)
  BY DEF SeenChat, FirstText
<1>3. /\ IsSeq(cs) /\ Len(cs) \in Nat
      /\ \A k \in 1..Len(cs) : cs[k] = ToolUse(cs[k].id, cs[k].input) /\ cs[k].input \in {"x", "empty"}
  BY UsesAre
<1> HIDE DEF cs, text
<1>4. DOMAIN cs = 1..Len(cs)
  BY <1>3, SeqIs
<1>5. DOMAIN calls = 1..Len(cs) /\ calls = [k \in 1..Len(cs) |-> calls[k]]
      /\ \A k \in 1..Len(cs) : calls[k].id = cs[k].id /\ calls[k].arguments = Json(cs[k].input)
  BY <1>4
<1> HIDE DEF calls
<1>6. IsSeq(calls) /\ Len(calls) = Len(cs)
  BY <1>3, <1>5, MadeSeq
<1>7. \A k \in 1..Len(cs) : Loads(calls[k].arguments) = cs[k].input
  BY <1>3, <1>5, LoadsBack, ObjectsAssumption, ArgumentsAssumption
<1>8. TellsCalls(calls, cs)
  BY <1>3, <1>5, <1>6, <1>7 DEF TellsCalls
<1> HIDE DEF m
<1>9. ChatForm(m) /\ ~IsSystem(m) /\ MessageTells(m) = By("assistant", FirstText(text, cs) \o cs)
  BY <1>8, ChatMessageSays DEF m
<1> QED BY <1>1, <1>2, <1>9

-----------------------------------------------------------------------------
\* What a client puts together from a stream: the pieces of text, the chunks that open
\* calls, and the pieces of their arguments, chunk by chunk, and what an event will add.

Whats == {"content", "call", "arguments"}
ChunkAdds(what, c) ==
  IF c.kind # what THEN <<>>
  ELSE IF what = "content" THEN c.text ELSE IF what = "call" THEN <<c>> ELSE c.arguments
CallChunk(id) == [kind |-> "call", index |-> 0, id |-> id, arguments |-> <<>>]
EventAdds(what, e) ==
  IF what = "content" THEN IF e.type = "delta" /\ e.block = "text" THEN e.text ELSE <<>>
  ELSE IF what = "call" THEN IF e.type = "block_start" /\ e.block = "tool_use" THEN <<CallChunk(e.id)>> ELSE <<>>
  ELSE IF e.type = "delta" /\ e.block = "tool_use" THEN e.text ELSE <<>>

ChunksAdd(what, cs) == FlattenSeq([k \in DOMAIN cs |-> ChunkAdds(what, cs[k])])
EventsAdd(what, es) == FlattenSeq([k \in DOMAIN es |-> EventAdds(what, es[k])])

ChunkForm(c) ==
  /\ \A what \in Whats : IsSeq(ChunkAdds(what, c))
  /\ c.kind \in {"call", "arguments"} => c.index = 0
ChunkForms(cs) == IsSeq(cs) /\ \A c \in ToSet(cs) : ChunkForm(c)
EventForm(e) ==
  /\ e.type \in BlockTypes \union {"message_start", "message_delta"}
  /\ \A what \in Whats : IsSeq(EventAdds(what, e))
EventForms(es) == IsSeq(es) /\ \A e \in ToSet(es) : EventForm(e)

LEMMA NothingFlat ==
  ASSUME NEW a, IsSeqs(a), \A k \in 1..Len(a) : a[k] = <<>>
  PROVE  FlattenSeq(a) = <<>>
<1>1. IsSeqs(Selected(a, {})) /\ FlattenSeq(Selected(a, {})) = FlattenSeq(a)
  BY FlattenSelected
<1>2. Selected(a, {}) = <<>>
  BY SelectedNone
<1> QED BY <1>1, <1>2, SeqEmpty

LEMMA ChunksMap ==
  ASSUME NEW what \in Whats, NEW X, NEW f, f = [c \in X |-> ChunkAdds(what, c)],
         NEW cs, ChunkForms(cs), ToSet(cs) \subseteq X
  PROVE  Maps(f, cs) /\ ChunksAdd(what, cs) = FlatMap(f, cs)
<1>1. DOMAIN cs = 1..Len(cs) /\ \A k \in DOMAIN cs : cs[k] \in X
  BY SeqIs DEF ChunkForms
<1>2. [k \in DOMAIN cs |-> ChunkAdds(what, cs[k])] = [k \in DOMAIN cs |-> f[cs[k]]]
  BY <1>1
<1>3. Maps(f, cs)
  <2>1. \A c \in ToSet(cs) : IsSeq(f[c])
    BY DEF ChunkForms, ChunkForm
  <2> QED BY <2>1 DEF ChunkForms, Maps
<1> QED BY <1>2, <1>3 DEF ChunksAdd, FlatMap

LEMMA EventsMap ==
  ASSUME NEW what \in Whats, NEW X, NEW f, f = [e \in X |-> EventAdds(what, e)],
         NEW es, EventForms(es), ToSet(es) \subseteq X
  PROVE  Maps(f, es) /\ EventsAdd(what, es) = FlatMap(f, es)
<1>1. DOMAIN es = 1..Len(es) /\ \A k \in DOMAIN es : es[k] \in X
  BY SeqIs DEF EventForms
<1>2. [k \in DOMAIN es |-> EventAdds(what, es[k])] = [k \in DOMAIN es |-> f[es[k]]]
  BY <1>1
<1>3. Maps(f, es)
  <2>1. \A e \in ToSet(es) : IsSeq(f[e])
    BY DEF EventForms, EventForm
  <2> QED BY <2>1 DEF EventForms, Maps
<1> QED BY <1>2, <1>3 DEF EventsAdd, FlatMap

LEMMA ChunksConcat ==
  ASSUME NEW what \in Whats, NEW s, ChunkForms(s), NEW t, ChunkForms(t)
  PROVE  ChunkForms(s \o t) /\ ChunksAdd(what, s \o t) = ChunksAdd(what, s) \o ChunksAdd(what, t)
<1> DEFINE X == ToSet(s) \union ToSet(t)
           f == [c \in X |-> ChunkAdds(what, c)]
<1>1. ChunkForms(s \o t) /\ ToSet(s \o t) = X
  BY SeqConcat DEF ChunkForms
<1> HIDE DEF f
<1>2. /\ Maps(f, s) /\ ChunksAdd(what, s) = FlatMap(f, s)
      /\ Maps(f, t) /\ ChunksAdd(what, t) = FlatMap(f, t)
      /\ ChunksAdd(what, s \o t) = FlatMap(f, s \o t)
  BY <1>1, ChunksMap DEF f
<1>3. FlatMap(f, s \o t) = FlatMap(f, s) \o FlatMap(f, t)
  BY <1>2, FlatMapConcat
<1> QED BY <1>1, <1>2, <1>3

LEMMA EventsConcat ==
  ASSUME NEW what \in Whats, NEW s, EventForms(s), NEW t, EventForms(t)
  PROVE  EventForms(s \o t) /\ EventsAdd(what, s \o t) = EventsAdd(what, s) \o EventsAdd(what, t)
<1> DEFINE X == ToSet(s) \union ToSet(t)
           f == [e \in X |-> EventAdds(what, e)]
<1>1. EventForms(s \o t) /\ ToSet(s \o t) = X
  BY SeqConcat DEF EventForms
<1> HIDE DEF f
<1>2. /\ Maps(f, s) /\ EventsAdd(what, s) = FlatMap(f, s)
      /\ Maps(f, t) /\ EventsAdd(what, t) = FlatMap(f, t)
      /\ EventsAdd(what, s \o t) = FlatMap(f, s \o t)
  BY <1>1, EventsMap DEF f
<1>3. FlatMap(f, s \o t) = FlatMap(f, s) \o FlatMap(f, t)
  BY <1>2, FlatMapConcat
<1> QED BY <1>1, <1>2, <1>3

LEMMA ChunksOne ==
  ASSUME NEW what \in Whats, NEW c, ChunkForm(c)
  PROVE  ChunkForms(<<c>>) /\ ChunksAdd(what, <<c>>) = ChunkAdds(what, c)
<1> DEFINE f == [x \in {c} |-> ChunkAdds(what, x)]
<1>1. ChunkForms(<<c>>) /\ ToSet(<<c>>) = {c}
  BY SeqOne DEF ChunkForms
<1>2. f[c] = ChunkAdds(what, c) /\ IsSeq(f[c])
  BY DEF ChunkForm
<1> HIDE DEF f
<1>3. ChunksAdd(what, <<c>>) = FlatMap(f, <<c>>)
  BY <1>1, ChunksMap DEF f
<1> QED BY <1>1, <1>2, <1>3, FlatMapOne

LEMMA EventsOne ==
  ASSUME NEW what \in Whats, NEW e, EventForm(e)
  PROVE  EventForms(<<e>>) /\ EventsAdd(what, <<e>>) = EventAdds(what, e)
<1> DEFINE f == [x \in {e} |-> EventAdds(what, x)]
<1>1. EventForms(<<e>>) /\ ToSet(<<e>>) = {e}
  BY SeqOne DEF EventForms
<1>2. f[e] = EventAdds(what, e) /\ IsSeq(f[e])
  BY DEF EventForm
<1> HIDE DEF f
<1>3. EventsAdd(what, <<e>>) = FlatMap(f, <<e>>)
  BY <1>1, EventsMap DEF f
<1> QED BY <1>1, <1>2, <1>3, FlatMapOne

LEMMA NothingAdded ==
  ASSUME NEW what
  PROVE  /\ ChunkForms(<<>>) /\ ChunksAdd(what, <<>>) = <<>>
         /\ EventForms(<<>>) /\ EventsAdd(what, <<>>) = <<>>
<1>1. [k \in DOMAIN <<>> |-> ChunkAdds(what, <<>>[k])] = <<>> /\ [k \in DOMAIN <<>> |-> EventAdds(what, <<>>[k])] = <<>>
  OBVIOUS
<1>2. ChunkForms(<<>>) /\ EventForms(<<>>)
  BY SeqEmpty DEF ChunkForms, EventForms
<1>3. ChunksAdd(what, <<>>) = <<>> /\ EventsAdd(what, <<>>) = <<>>
  BY <1>1, SeqEmpty DEF ChunksAdd, EventsAdd
<1> QED BY <1>2, <1>3

LEMMA EventsThrough ==
  ASSUME NEW what \in Whats, NEW ess, IsSeq(ess), \A k \in 1..Len(ess) : EventForms(ess[k]),
         NEW hs, IsSeq(hs), Len(hs) = Len(ess), \A k \in 1..Len(ess) : hs[k] = EventsAdd(what, ess[k])
  PROVE  EventForms(FlattenSeq(ess)) /\ EventsAdd(what, FlattenSeq(ess)) = FlattenSeq(hs)
<1> DEFINE X == ToSet(FlattenSeq(ess))
           f == [e \in X |-> EventAdds(what, e)]
<1>1. IsSeqs(ess)
  BY SeqOfSeqs DEF EventForms
<1>2. IsSeq(FlattenSeq(ess)) /\ \A x : x \in X <=> \E k \in 1..Len(ess) : x \in ToSet(ess[k])
  BY <1>1, SeqsAre, FlatElementsAre
<1>3. EventForms(FlattenSeq(ess))
  BY <1>2 DEF EventForms
<1>4. \A k \in 1..Len(ess) : ToSet(ess[k]) \subseteq X
  BY <1>2
<1>5. f = [e \in X |-> EventAdds(what, e)]
  OBVIOUS
<1> HIDE DEF f, X
<1>6. \A k \in 1..Len(ess) : Maps(f, ess[k]) /\ hs[k] = FlatMap(f, ess[k])
  BY <1>4, <1>5, EventsMap
<1>7. FlatMap(f, FlattenSeq(ess)) = FlattenSeq(hs)
  BY <1>6, FlatMapThrough
<1>8. EventsAdd(what, FlattenSeq(ess)) = FlatMap(f, FlattenSeq(ess))
  BY <1>3, <1>5, EventsMap DEF X
<1> QED BY <1>3, <1>7, <1>8

-----------------------------------------------------------------------------
\* The chunks of an event add what the event is to add.

LEMMA ChunksTell ==
  ASSUME NEW e, EventForm(e), NEW n, NEW what \in Whats
  PROVE  ChunkForms(Chunks(e, n)) /\ ChunksAdd(what, Chunks(e, n)) = EventAdds(what, e)
<1>0. \A x, y : x.kind = y /\ y \notin Whats => ChunkForm(x) /\ ChunkAdds(what, x) = <<>>
  BY SeqEmpty DEF ChunkForm, ChunkAdds, Whats
<1>1. CASE e.type = "message_start"
  <2> DEFINE x == [kind |-> "role"]
  <2>1. Chunks(e, n) = <<x>>
    BY <1>1 DEF Chunks
  <2>2. x.kind = "role"
    OBVIOUS
  <2> HIDE DEF x
  <2>3. ChunkForm(x) /\ ChunkAdds(what, x) = <<>>
    BY <1>0, <2>2 DEF Whats
  <2>4. EventAdds(what, e) = <<>>
    BY <1>1 DEF EventAdds
  <2> QED BY <2>1, <2>3, <2>4, ChunksOne
<1>2. CASE e.type = "block_start" /\ e.block = "tool_use"
  <2> DEFINE x == CallChunk(e.id)
  <2>1. Chunks(e, n) = <<x>>
    BY <1>2 DEF Chunks, CallChunk
  <2>2. x.kind = "call" /\ x.index = 0
    BY DEF CallChunk
  <2>3. EventAdds(what, e) = IF what = "call" THEN <<x>> ELSE <<>>
    BY <1>2 DEF EventAdds, Whats
  <2> HIDE DEF x
  <2>4. ChunkForm(x)
    BY <2>2, SeqOne, SeqEmpty DEF ChunkForm, ChunkAdds
  <2>5. ChunkAdds(what, x) = IF what = "call" THEN <<x>> ELSE <<>>
    BY <2>2 DEF ChunkAdds
  <2> QED BY <2>1, <2>3, <2>4, <2>5, ChunksOne
<1>3. CASE e.type = "delta" /\ e.block = "text"
  <2> DEFINE x == [kind |-> "content", text |-> e.text]
  <2>1. Chunks(e, n) = <<x>>
    BY <1>3 DEF Chunks
  <2>2. x.kind = "content" /\ x.text = e.text
    OBVIOUS
  <2>3. EventAdds(what, e) = (IF what = "content" THEN e.text ELSE <<>>) /\ IsSeq(e.text)
    <3>1. EventAdds("content", e) = e.text
      BY <1>3 DEF EventAdds
    <3>2. IsSeq(e.text)
      BY <3>1 DEF EventForm, Whats
    <3>3. EventAdds(what, e) = IF what = "content" THEN e.text ELSE <<>>
      BY <1>3 DEF EventAdds
    <3> QED BY <3>2, <3>3
  <2> HIDE DEF x
  <2>4. ChunkForm(x)
    BY <2>2, <2>3, SeqEmpty DEF ChunkForm, ChunkAdds
  <2>5. ChunkAdds(what, x) = IF what = "content" THEN e.text ELSE <<>>
    BY <2>2 DEF ChunkAdds
  <2> QED BY <2>1, <2>3, <2>4, <2>5, ChunksOne
<1>4. CASE e.type = "delta" /\ e.block = "tool_use"
  <2> DEFINE x == [kind |-> "arguments", index |-> 0, arguments |-> e.text]
  <2>1. Chunks(e, n) = <<x>>
    BY <1>4 DEF Chunks
  <2>2. x.kind = "arguments" /\ x.index = 0 /\ x.arguments = e.text
    OBVIOUS
  <2>3. EventAdds(what, e) = (IF what = "arguments" THEN e.text ELSE <<>>) /\ IsSeq(e.text)
    <3>1. EventAdds("arguments", e) = e.text
      BY <1>4 DEF EventAdds
    <3>2. IsSeq(e.text)
      BY <3>1 DEF EventForm, Whats
    <3>3. EventAdds(what, e) = IF what = "arguments" THEN e.text ELSE <<>>
      BY <1>4 DEF EventAdds, Whats
    <3> QED BY <3>2, <3>3
  <2> HIDE DEF x
  <2>4. ChunkForm(x)
    BY <2>2, <2>3, SeqEmpty DEF ChunkForm, ChunkAdds, Whats
  <2>5. ChunkAdds(what, x) = IF what = "arguments" THEN e.text ELSE <<>>
    BY <2>2 DEF ChunkAdds, Whats
  <2> QED BY <2>1, <2>3, <2>4, <2>5, ChunksOne
<1>5. CASE e.type = "delta" /\ e.block = "thinking"
  <2> DEFINE x == [kind |-> "reasoning", text |-> e.text]
  <2>1. Chunks(e, n) = <<x>>
    BY <1>5 DEF Chunks
  <2>2. x.kind = "reasoning"
    OBVIOUS
  <2> HIDE DEF x
  <2>3. ChunkForm(x) /\ ChunkAdds(what, x) = <<>>
    BY <1>0, <2>2 DEF Whats
  <2>4. EventAdds(what, e) = <<>>
    BY <1>5 DEF EventAdds
  <2> QED BY <2>1, <2>3, <2>4, ChunksOne
<1>6. CASE \/ e.type = "block_stop"
           \/ e.type = "block_start" /\ e.block # "tool_use"
           \/ e.type = "delta" /\ e.block \notin {"text", "tool_use", "thinking"}
  <2>1. Chunks(e, n) = <<>>
    BY <1>6 DEF Chunks
  <2>2. EventAdds(what, e) = <<>>
    BY <1>6 DEF EventAdds
  <2> QED BY <2>1, <2>2, NothingAdded
<1>7. CASE e.type = "message_delta"
  <2> DEFINE x == [kind |-> "finish", finish |-> IF e.stop = "tool_use" THEN "tool_calls" ELSE "stop"]
             y == [kind |-> "usage", usage |-> [prompt |-> n, completion |-> e.usage.output]]
             s == <<x>>
             t == <<y>>
  <2>1. Chunks(e, n) = <<x, y>>
    BY <1>7 DEF Chunks
  <2>2. x.kind = "finish" /\ y.kind = "usage"
    OBVIOUS
  <2> HIDE DEF x, y
  <2>3. ChunkForm(x) /\ ChunkAdds(what, x) = <<>> /\ ChunkForm(y) /\ ChunkAdds(what, y) = <<>>
    BY <1>0, <2>2 DEF Whats
  <2>4. EventAdds(what, e) = <<>>
    BY <1>7 DEF EventAdds
  <2>5. ChunkForms(s) /\ ChunksAdd(what, s) = <<>> /\ ChunkForms(t) /\ ChunksAdd(what, t) = <<>>
    BY <2>3, ChunksOne
  <2>6. s \o t = <<x, y>>
    BY ThreeAre
  <2> HIDE DEF s, t
  <2>7. ChunkForms(s \o t) /\ ChunksAdd(what, s \o t) = <<>> \o <<>>
    BY <2>5, ChunksConcat
  <2>8. <<>> \o <<>> = <<>>
    BY SeqEmpty
  <2> QED BY <2>1, <2>4, <2>6, <2>7, <2>8
<1> QED BY <1>1, <1>2, <1>3, <1>4, <1>5, <1>6, <1>7 DEF EventForm, BlockTypes

-----------------------------------------------------------------------------
\* What the events of a block, and of an answer, add.

ArgumentText(b) == IF b.input = "empty" THEN <<>> ELSE Json(b.input)
BlockAdds(what, b) ==
  IF what = "content" THEN IF b.type = "text" THEN b.text ELSE <<>>
  ELSE IF what = "call" THEN IF b.type = "tool_use" THEN <<CallChunk(b.id)>> ELSE <<>>
  ELSE IF b.type = "tool_use" THEN ArgumentText(b) ELSE <<>>

Goes(what, type) ==
  \/ what = "content" /\ type = "text"
  \/ what = "arguments" /\ type = "tool_use"

\* mid has the pieces of a text of a block of this type.
Pieces(mid, type, text) ==
  /\ IsSeq(text) /\ IsSeq(mid) /\ Len(mid) = Len(text)
  /\ \A j \in 1..Len(text) : mid[j].type = "delta" /\ mid[j].block = type /\ mid[j].text = <<text[j]>>

LEMMA PiecesAdd ==
  ASSUME NEW what \in Whats, NEW type, NEW text, NEW mid, Pieces(mid, type, text)
  PROVE  /\ EventForms(mid)
         /\ Goes(what, type) => EventsAdd(what, mid) = text
         /\ ~Goes(what, type) => EventsAdd(what, mid) = <<>>
<1> DEFINE h == [j \in DOMAIN mid |-> EventAdds(what, mid[j])]
           goes == Goes(what, type)
<1>0. /\ IsSeq(text) /\ IsSeq(mid) /\ Len(mid) = Len(text)
      /\ \A j \in 1..Len(text) : mid[j].type = "delta" /\ mid[j].block = type /\ mid[j].text = <<text[j]>>
  BY DEF Pieces
<1>1. DOMAIN text = 1..Len(text) /\ Len(text) \in Nat
  BY <1>0, SeqIs
<1>2. DOMAIN mid = 1..Len(text) /\ \A x \in ToSet(mid) : \E j \in 1..Len(text) : mid[j] = x
  <2>1. DOMAIN mid = 1..Len(mid) /\ \A x \in ToSet(mid) : \E j \in 1..Len(mid) : mid[j] = x
    BY ONLY <1>0, SeqIs
  <2> QED BY <1>0, <2>1
<1>4. \A j \in 1..Len(text) : EventForm(mid[j])
  <2> TAKE j \in 1..Len(text)
  <2> DEFINE e == mid[j]
             w == <<text[j]>>
  <2>1. e.type = "delta" /\ e.text = w
    BY <1>0
  <2>2. IsSeq(w)
    BY SeqOne
  <2> HIDE DEF e, w
  <2>3. EventForm(e)
    BY <2>1, <2>2, SeqEmpty DEF EventForm, EventAdds, BlockTypes
  <2> QED BY <2>3 DEF e
<1>5. EventForms(mid)
  BY <1>0, <1>2, <1>4 DEF EventForms
<1>6. DOMAIN h = 1..Len(text) /\ h = [j \in 1..Len(text) |-> h[j]]
      /\ \A j \in 1..Len(text) : h[j] = EventAdds(what, mid[j])
  BY <1>2
<1>7. EventsAdd(what, mid) = FlattenSeq(h)
  BY DEF EventsAdd
<1> HIDE DEF h
<1>8. IsSeq(h) /\ Len(h) = Len(text)
  BY <1>1, <1>6, MadeSeq
<1>9. \A j \in 1..Len(text) : h[j] = IF goes THEN <<text[j]>> ELSE <<>>
  <2> TAKE j \in 1..Len(text)
  <2> DEFINE e == mid[j]
             w == <<text[j]>>
  <2>1. e.type = "delta" /\ e.block = type /\ e.text = w /\ h[j] = EventAdds(what, e)
    BY <1>0, <1>6
  <2> HIDE DEF e, w
  <2>2. EventAdds(what, e) = IF goes THEN w ELSE <<>>
    BY <2>1 DEF EventAdds, Whats, Goes
  <2> QED BY <2>1, <2>2 DEF w
<1> HIDE DEF goes
<1>10. CASE goes
  <2>1. \A j \in 1..Len(text) : h[j] = <<text[j]>>
    BY <1>9, <1>10
  <2>2. FlattenSeq(h) = text
    BY ONLY <1>0, <1>8, <2>1, FlattenOnes
  <2> QED BY <1>5, <1>7, <1>10, <2>2 DEF goes
<1>11. CASE ~goes
  <2>1. \A j \in 1..Len(h) : h[j] = <<>> /\ IsSeq(h[j])
    BY <1>8, <1>9, <1>11, SeqEmpty
  <2>2. IsSeqs(h)
    BY <1>8, <2>1, SeqOfSeqs
  <2>3. FlattenSeq(h) = <<>>
    BY <2>1, <2>2, NothingFlat
  <2> QED BY <1>5, <1>7, <1>11, <2>3 DEF goes
<1> QED BY <1>10, <1>11

LEMMA WordsSeq ==
  ASSUME NEW t, NEW p
  PROVE  IsSeq(Words(t, p)) /\ Words(t, p) # <<>>
<1> DEFINE x == Word(t, p)
           y == <<t, p, "b">>
<1>1. Words(t, p) = <<x, y>>
  BY DEF Words
<1> HIDE DEF x, y
<1>2. <<x, y>> # <<>>
  OBVIOUS
<1> QED BY <1>1, <1>2, ThreeAre

LEMMA BlockEventsAdd ==
  ASSUME NEW what \in Whats, NEW k \in ClaudeKinds, NEW t, NEW p, NEW b, b = ClaudeBlock(k, t, p)
  PROVE  /\ EventForms(BlockEvents(b)) /\ EventsAdd(what, BlockEvents(b)) = BlockAdds(what, b)
         /\ IsSeq(BlockAdds(what, b))
<1> DEFINE start == IF b.type = "tool_use" THEN [type |-> "block_start", block |-> b.type, id |-> b.id]
                    ELSE [type |-> "block_start", block |-> b.type]
           text == IF b.type # "tool_use" THEN b.text ELSE IF b.input = "empty" THEN <<>> ELSE Json(b.input)
           mid == [j \in DOMAIN text |-> [type |-> "delta", block |-> b.type, text |-> <<text[j]>>]]
           stop == [type |-> "block_stop"]
           u == <<start>>
           v == <<stop>>
           opens == IF what = "call" /\ b.type = "tool_use" THEN <<CallChunk(b.id)>> ELSE <<>>
           goes == IF Goes(what, b.type) THEN text ELSE <<>>
<1>1. BlockEvents(b) = u \o mid \o v
  BY Zenon DEF BlockEvents
<1>2. /\ start.type = "block_start" /\ start.block = b.type
      /\ b.type = "tool_use" => start.id = b.id
      /\ stop.type = "block_stop"
  OBVIOUS
<1>3. \/ b.type = "text" /\ b.text = Words(t, p)
      \/ b.type = "thinking" /\ b.text = Words(t, p)
      \/ b.type = "tool_use"
  BY ClaudeBlockIs
<1>4. IsSeq(text)
  BY <1>3, WordsSeq, JsonSeq, SeqEmpty
<1>5. BlockAdds(what, b) = opens \o goes /\ IsSeq(opens) /\ IsSeq(goes)
  <2>1. IsSeq(opens)
    BY SeqOne, SeqEmpty
  <2>2. IsSeq(goes)
    <3> HIDE DEF text
    <3> QED BY <1>4, SeqEmpty
  <2>3. CASE what = "content"
    <3>1. opens = <<>> /\ goes = IF b.type = "text" THEN b.text ELSE <<>>
      BY <2>3 DEF Goes
    <3>2. BlockAdds(what, b) = goes
      BY <2>3, <3>1 DEF BlockAdds
    <3> HIDE DEF opens, goes
    <3> QED BY <2>1, <2>2, <3>1, <3>2, SeqEmpty
  <2>4. CASE what = "call"
    <3>1. goes = <<>> /\ BlockAdds(what, b) = opens
      BY <2>4 DEF BlockAdds, Goes
    <3> HIDE DEF opens, goes
    <3> QED BY <2>1, <2>2, <3>1, SeqEmpty
  <2>5. CASE what = "arguments"
    <3>1. opens = <<>> /\ BlockAdds(what, b) = goes
      BY <2>5 DEF BlockAdds, ArgumentText, Goes
    <3> HIDE DEF opens, goes
    <3> QED BY <2>1, <2>2, <3>1, SeqEmpty
  <2> QED BY <2>3, <2>4, <2>5 DEF Whats
<1>6. mid = [j \in DOMAIN text |-> [type |-> "delta", block |-> b.type, text |-> <<text[j]>>]]
  OBVIOUS
<1> HIDE DEF text, mid, start, stop
<1>20. /\ IsSeq(mid) /\ Len(mid) = Len(text)
       /\ \A j \in 1..Len(text) : mid[j].type = "delta" /\ mid[j].block = b.type /\ mid[j].text = <<text[j]>>
  <2>1. DOMAIN text = 1..Len(text) /\ Len(text) \in Nat
    BY <1>4, SeqIs
  <2>2. DOMAIN mid = 1..Len(text) /\ mid = [j \in 1..Len(text) |-> mid[j]]
        /\ \A j \in 1..Len(text) : mid[j].type = "delta" /\ mid[j].block = b.type /\ mid[j].text = <<text[j]>>
    BY <1>6, <2>1
  <2>3. IsSeq(mid) /\ Len(mid) = Len(text)
    BY <2>1, <2>2, MadeSeq
  <2> QED BY <2>2, <2>3
<1>7. EventForms(mid) /\ EventsAdd(what, mid) = goes
  <2> DEFINE type0 == b.type
  <2>1. \A j \in 1..Len(text) : mid[j].type = "delta" /\ mid[j].block = type0 /\ mid[j].text = <<text[j]>>
    BY <1>20
  <2>2. goes = IF Goes(what, type0) THEN text ELSE <<>>
    OBVIOUS
  <2> HIDE DEF type0, goes
  <2>3. /\ EventForms(mid)
        /\ Goes(what, type0) => EventsAdd(what, mid) = text
        /\ ~Goes(what, type0) => EventsAdd(what, mid) = <<>>
    <3>1. Pieces(mid, type0, text)
      BY <1>4, <1>20, <2>1 DEF Pieces
    <3> QED BY <3>1, PiecesAdd
  <2> QED BY <2>2, <2>3
<1>8. EventForm(start) /\ EventAdds(what, start) = opens
  <2>1. \A w \in Whats : EventAdds(w, start) = IF w = "call" /\ b.type = "tool_use" THEN <<CallChunk(b.id)>> ELSE <<>>
    BY <1>2 DEF EventAdds, Whats
  <2>2. \A w \in Whats : IsSeq(EventAdds(w, start))
    BY <2>1, SeqOne, SeqEmpty
  <2> QED BY <1>2, <2>1, <2>2 DEF EventForm, BlockTypes
<1>9. EventForm(stop) /\ EventAdds(what, stop) = <<>>
  BY <1>2, SeqEmpty DEF EventForm, EventAdds, BlockTypes
<1>10. EventForms(u) /\ EventsAdd(what, u) = opens /\ EventForms(v) /\ EventsAdd(what, v) = <<>>
  BY <1>8, <1>9, EventsOne
<1> HIDE DEF u, v, opens, goes
<1> DEFINE q == u \o mid
<1>11. EventForms(q) /\ EventsAdd(what, q) = EventsAdd(what, u) \o EventsAdd(what, mid)
  BY <1>7, <1>10, EventsConcat
<1> HIDE DEF q
<1>21. EventForms(q \o v) /\ EventsAdd(what, q \o v) = EventsAdd(what, q) \o EventsAdd(what, v)
  BY <1>10, <1>11, EventsConcat
<1>12. EventForms(u \o mid \o v) /\ EventsAdd(what, u \o mid \o v) = (opens \o goes) \o <<>>
  BY <1>7, <1>10, <1>11, <1>21 DEF q
<1>13. IsSeq(opens \o goes) /\ (opens \o goes) \o <<>> = opens \o goes
  BY <1>5, SeqConcat, SeqEmpty
<1> QED BY <1>1, <1>5, <1>12, <1>13

LEMMA AnswerAdds ==
  ASSUME NEW what \in Whats, NEW shape \in Seq(ClaudeKinds), NEW t, NEW a, HasShape(a, shape, t),
         NEW h, h = [k \in DOMAIN a.content |-> BlockAdds(what, a.content[k])]
  PROVE  /\ EventForms(EventsOf(a)) /\ EventsAdd(what, EventsOf(a)) = FlattenSeq(h)
         /\ IsSeqs(h) /\ Len(h) = Len(a.content) /\ \A k \in 1..Len(h) : h[k] = BlockAdds(what, a.content[k])
<1> DEFINE first == [type |-> "message_start", usage |-> a.usage]
           last == [type |-> "message_delta", usage |-> a.usage,
                    stop |-> IF OfType(a.content, "tool_use") # <<>> THEN "tool_use" ELSE "end_turn"]
           c == a.content
           parts == [k \in DOMAIN c |-> BlockEvents(c[k])]
           mid == FlattenSeq(parts)
           u == <<first>>
           v == <<last>>
<1>1. EventsOf(a) = u \o mid \o v
  BY Zenon DEF EventsOf
<1>2. first.type = "message_start" /\ last.type = "message_delta"
  OBVIOUS
<1>3. /\ IsSeq(c)
      /\ \A b \in ToSet(c) : \E k \in ClaudeKinds, p \in Nat : b = ClaudeBlock(k, t, p)
  BY ONLY shape \in Seq(ClaudeKinds), HasShape(a, shape, t), ClaudeBlocks
<1>4. h = [k \in DOMAIN c |-> BlockAdds(what, c[k])]
  OBVIOUS
<1> HIDE DEF c, first, last
<1>5. DOMAIN c = 1..Len(c) /\ Len(c) \in Nat /\ \A k \in 1..Len(c) : c[k] \in ToSet(c)
  BY <1>3, SeqIs
<1>6. /\ DOMAIN parts = 1..Len(c) /\ parts = [k \in 1..Len(c) |-> parts[k]]
      /\ \A k \in 1..Len(c) : parts[k] = BlockEvents(c[k])
      /\ DOMAIN h = 1..Len(c) /\ h = [k \in 1..Len(c) |-> h[k]]
      /\ \A k \in 1..Len(c) : h[k] = BlockAdds(what, c[k])
  BY <1>4, <1>5
<1> HIDE DEF parts
<1>7. IsSeq(parts) /\ Len(parts) = Len(c) /\ IsSeq(h) /\ Len(h) = Len(c)
  BY <1>5, <1>6, MadeSeq
<1>8. \A k \in 1..Len(c) : /\ EventForms(parts[k]) /\ h[k] = EventsAdd(what, parts[k]) /\ IsSeq(h[k])
  <2> TAKE k \in 1..Len(c)
  <2> DEFINE b == c[k]
  <2>1. PICK j \in ClaudeKinds, p \in Nat : b = ClaudeBlock(j, t, p)
    BY <1>3, <1>5
  <2>2. parts[k] = BlockEvents(b) /\ h[k] = BlockAdds(what, b)
    BY <1>6
  <2> HIDE DEF b
  <2>3. /\ EventForms(BlockEvents(b)) /\ EventsAdd(what, BlockEvents(b)) = BlockAdds(what, b)
        /\ IsSeq(BlockAdds(what, b))
    BY <2>1, BlockEventsAdd
  <2> QED BY <2>2, <2>3
<1>9. IsSeqs(h)
  BY <1>7, <1>8, SeqOfSeqs
<1>10. EventForms(mid) /\ EventsAdd(what, mid) = FlattenSeq(h)
  <2>1. /\ Len(h) = Len(parts)
        /\ \A k \in 1..Len(parts) : EventForms(parts[k]) /\ h[k] = EventsAdd(what, parts[k])
    BY <1>7, <1>8
  <2> QED BY <1>7, <2>1, EventsThrough
<1>11. EventForm(first) /\ EventAdds(what, first) = <<>> /\ EventForm(last) /\ EventAdds(what, last) = <<>>
  <2>1. \A e : e.type \in {"message_start", "message_delta"} => EventForm(e) /\ EventAdds(what, e) = <<>>
    BY SeqEmpty DEF EventForm, EventAdds, BlockTypes
  <2> QED BY <1>2, <2>1
<1>12. EventForms(u) /\ EventsAdd(what, u) = <<>> /\ EventForms(v) /\ EventsAdd(what, v) = <<>>
  BY <1>11, EventsOne
<1> HIDE DEF u, v, mid
<1> DEFINE q == u \o mid
<1>13. EventForms(q) /\ EventsAdd(what, q) = EventsAdd(what, u) \o EventsAdd(what, mid)
  BY <1>10, <1>12, EventsConcat
<1> HIDE DEF q
<1>16. EventForms(q \o v) /\ EventsAdd(what, q \o v) = EventsAdd(what, q) \o EventsAdd(what, v)
  BY <1>12, <1>13, EventsConcat
<1>14. EventForms(u \o mid \o v) /\ EventsAdd(what, u \o mid \o v) = (<<>> \o FlattenSeq(h)) \o <<>>
  BY <1>10, <1>12, <1>13, <1>16 DEF q
<1>15. (<<>> \o FlattenSeq(h)) \o <<>> = FlattenSeq(h)
  BY <1>9, SeqsAre, SeqEmpty
<1> QED BY <1>1, <1>6, <1>7, <1>9, <1>14, <1>15 DEF c

-----------------------------------------------------------------------------
\* What the events of an answer add is its text and its calls.

LEMMA AnswerTells ==
  ASSUME NEW shape \in Seq(ClaudeKinds), NEW t, NEW a, HasShape(a, shape, t),
         NEW cs, cs = OfType(a.content, "tool_use")
  PROVE  /\ EventsAdd("content", EventsOf(a)) = TextsOf(a.content)
         /\ EventsAdd("call", EventsOf(a)) = [k \in DOMAIN cs |-> CallChunk(cs[k].id)]
         /\ EventsAdd("arguments", EventsOf(a)) = FlattenSeq([k \in DOMAIN cs |-> ArgumentText(cs[k])])
<1> DEFINE c == a.content
           I == {k \in DOMAIN c : c[k].type = "tool_use"}
           adds(what) == [k \in DOMAIN c |-> BlockAdds(what, c[k])]
<1>1. \A what \in Whats :
        /\ EventsAdd(what, EventsOf(a)) = FlattenSeq(adds(what))
        /\ IsSeqs(adds(what)) /\ Len(adds(what)) = Len(c)
        /\ \A k \in 1..Len(c) : adds(what)[k] = BlockAdds(what, c[k])
  <2> TAKE what \in Whats
  <2> DEFINE h == adds(what)
  <2>1. h = [k \in DOMAIN a.content |-> BlockAdds(what, a.content[k])]
    OBVIOUS
  <2> HIDE DEF h
  <2>2. /\ EventForms(EventsOf(a)) /\ EventsAdd(what, EventsOf(a)) = FlattenSeq(h)
        /\ IsSeqs(h) /\ Len(h) = Len(a.content) /\ \A k \in 1..Len(h) : h[k] = BlockAdds(what, a.content[k])
    BY <2>1, AnswerAdds
  <2> QED BY <2>2 DEF h
<1>2. EventsAdd("content", EventsOf(a)) = TextsOf(c)
  <2>1. adds("content") = [k \in DOMAIN c |-> IF c[k].type = "text" THEN c[k].text ELSE <<>>]
    BY DEF BlockAdds
  <2>2. "content" \in Whats
    BY DEF Whats
  <2> HIDE DEF c, adds
  <2> QED BY <1>1, <2>1, <2>2 DEF TextsOf
<1>3. IsSeq(c)
  BY ClaudeBlocks
<1>4. cs = Selected(c, I)
  BY DEF OfType
<1> HIDE DEF c, adds
<1>5. DOMAIN c = 1..Len(c) /\ I \in SUBSET (1..Len(c)) /\ \A k \in 1..Len(c) : k \in I <=> c[k].type = "tool_use"
  BY <1>3, SeqIs
<1> HIDE DEF I
<1>6. IsSeq(cs)
  BY <1>3, <1>4, <1>5, SelectedAt
<1>7. DOMAIN cs = 1..Len(cs) /\ Len(cs) \in Nat
  BY <1>6, SeqIs
<1>8. EventsAdd("call", EventsOf(a)) = [k \in DOMAIN cs |-> CallChunk(cs[k].id)]
  <2> DEFINE x == adds("call")
             e == [k \in DOMAIN cs |-> CallChunk(cs[k].id)]
             b == [k \in DOMAIN cs |-> <<e[k]>>]
  <2>1. IsSeqs(x) /\ Len(x) = Len(c) /\ (\A k \in 1..Len(c) : x[k] = BlockAdds("call", c[k]))
        /\ EventsAdd("call", EventsOf(a)) = FlattenSeq(x)
    BY <1>1 DEF Whats
  <2>2. DOMAIN e = 1..Len(cs) /\ e = [k \in 1..Len(cs) |-> e[k]] /\ \A k \in 1..Len(cs) : e[k] = CallChunk(cs[k].id)
    BY <1>7
  <2>3. DOMAIN b = 1..Len(cs) /\ b = [k \in 1..Len(cs) |-> b[k]] /\ \A k \in 1..Len(cs) : b[k] = <<e[k]>>
    BY <1>7
  <2> HIDE DEF x, e, b
  <2>4. IsSeq(e) /\ Len(e) = Len(cs) /\ IsSeq(b) /\ Len(b) = Len(cs)
    BY <1>7, <2>2, <2>3, MadeSeq
  <2>5. Len(b) = Len(e) /\ \A k \in 1..Len(e) : b[k] = <<e[k]>>
    BY <2>3, <2>4
  <2>6. FlattenSeq(b) = e
    BY ONLY <2>4, <2>5, FlattenOnes
  <2>7. \A k \in (1..Len(c)) \ I : x[k] = <<>>
    BY <1>5, <2>1 DEF BlockAdds
  <2>8. \A k \in 1..Len(b) : \A j \in I : Selected(c, I)[k] = c[j] => b[k] = x[j]
    <3> TAKE k \in 1..Len(b)
    <3> TAKE j \in I
    <3> HAVE Selected(c, I)[k] = c[j]
    <3>1. c[j].type = "tool_use" /\ x[j] = BlockAdds("call", c[j])
      BY <1>5, <2>1
    <3>2. b[k] = <<CallChunk(c[j].id)>>
      BY <1>4, <2>2, <2>3, <2>4
    <3> QED BY <3>1, <3>2 DEF BlockAdds
  <2>9. Len(b) = Len(Selected(c, I)) /\ Len(x) = Len(c)
    BY <1>4, <2>1, <2>4
  <2>10. IsSeqs(b) /\ FlattenSeq(b) = FlattenSeq(x)
    <3>1. IsSeqs(x) /\ IsSeq(b)
      BY <2>1, <2>4
    <3> QED BY ONLY <1>3, <1>5, <2>7, <2>8, <2>9, <3>1, FlattenPicked
  <2> QED BY <2>1, <2>6, <2>10 DEF e
<1>9. EventsAdd("arguments", EventsOf(a)) = FlattenSeq([k \in DOMAIN cs |-> ArgumentText(cs[k])])
  <2> DEFINE x == adds("arguments")
             b == [k \in DOMAIN cs |-> ArgumentText(cs[k])]
  <2>1. IsSeqs(x) /\ Len(x) = Len(c) /\ (\A k \in 1..Len(c) : x[k] = BlockAdds("arguments", c[k]))
        /\ EventsAdd("arguments", EventsOf(a)) = FlattenSeq(x)
    BY <1>1 DEF Whats
  <2>2. DOMAIN b = 1..Len(cs) /\ b = [k \in 1..Len(cs) |-> b[k]] /\ \A k \in 1..Len(cs) : b[k] = ArgumentText(cs[k])
    BY <1>7
  <2> HIDE DEF x, b
  <2>3. IsSeq(b) /\ Len(b) = Len(cs)
    BY <1>7, <2>2, MadeSeq
  <2>4. \A k \in (1..Len(c)) \ I : x[k] = <<>>
    BY <1>5, <2>1 DEF BlockAdds
  <2>5. \A k \in 1..Len(b) : \A j \in I : Selected(c, I)[k] = c[j] => b[k] = x[j]
    <3> TAKE k \in 1..Len(b)
    <3> TAKE j \in I
    <3> HAVE Selected(c, I)[k] = c[j]
    <3>1. c[j].type = "tool_use" /\ x[j] = BlockAdds("arguments", c[j])
      BY <1>5, <2>1
    <3>2. b[k] = ArgumentText(c[j])
      BY <1>4, <2>2, <2>3
    <3> QED BY <3>1, <3>2 DEF BlockAdds
  <2>6. Len(b) = Len(Selected(c, I)) /\ Len(x) = Len(c)
    BY <1>4, <2>1, <2>3
  <2>7. FlattenSeq(b) = FlattenSeq(x)
    BY <1>3, <1>5, <2>1, <2>3, <2>4, <2>5, <2>6, FlattenPicked
  <2> QED BY <2>1, <2>7 DEF b
<1> QED BY <1>2, <1>8, <1>9 DEF c

-----------------------------------------------------------------------------
\* A client that puts the chunks of a stream together has what they add.

LEMMA PickedAdd ==
  ASSUME ChunkForms(chunks), NEW what \in Whats,
         NEW s, s = OfKind(what), NEW b, b = [k \in DOMAIN s |-> ChunkAdds(what, s[k])]
  PROVE  /\ IsSeq(s) /\ Len(s) \in Nat /\ DOMAIN s = 1..Len(s) /\ IsSeqs(b)
         /\ \A k \in 1..Len(s) : s[k].kind = what /\ ChunkForm(s[k])
         /\ FlattenSeq(b) = ChunksAdd(what, chunks)
<1> DEFINE I == {k \in DOMAIN chunks : chunks[k].kind = what}
           a == [k \in DOMAIN chunks |-> ChunkAdds(what, chunks[k])]
<1>1. /\ IsSeq(chunks) /\ DOMAIN chunks = 1..Len(chunks) /\ Len(chunks) \in Nat
      /\ \A k \in 1..Len(chunks) : chunks[k] \in ToSet(chunks)
  BY SeqIs DEF ChunkForms
<1>2. /\ I \in SUBSET (1..Len(chunks)) /\ \A k \in 1..Len(chunks) : k \in I <=> chunks[k].kind = what
  BY <1>1
<1>3. s = Selected(chunks, I)
  BY DEF OfKind
<1>4. ChunksAdd(what, chunks) = FlattenSeq(a)
  BY DEF ChunksAdd
<1>5. DOMAIN a = 1..Len(chunks) /\ a = [k \in 1..Len(chunks) |-> a[k]]
      /\ \A k \in 1..Len(chunks) : a[k] = ChunkAdds(what, chunks[k])
  BY <1>1
<1> HIDE DEF I, a
<1>6. \A k \in 1..Len(chunks) : ChunkForm(chunks[k])
  BY <1>1 DEF ChunkForms
<1>7. IsSeqs(a) /\ Len(a) = Len(chunks)
  <2>1. IsSeq(a) /\ Len(a) = Len(chunks)
    BY <1>1, <1>5, MadeSeq
  <2>2. \A k \in 1..Len(a) : IsSeq(a[k])
    BY <1>5, <1>6, <2>1 DEF ChunkForm
  <2> QED BY <2>1, <2>2, SeqOfSeqs
<1>8. IsSeq(s) /\ \A x : x \in ToSet(s) <=> \E k \in I : x = chunks[k]
  BY <1>1, <1>2, <1>3, SelectedAt
<1>9. DOMAIN s = 1..Len(s) /\ Len(s) \in Nat /\ \A k \in 1..Len(s) : s[k] \in ToSet(s)
  BY <1>8, SeqIs
<1>10. \A k \in 1..Len(s) : s[k].kind = what /\ ChunkForm(s[k])
  BY <1>2, <1>6, <1>8, <1>9
<1>11. DOMAIN b = 1..Len(s) /\ b = [k \in 1..Len(s) |-> b[k]] /\ \A k \in 1..Len(s) : b[k] = ChunkAdds(what, s[k])
  BY <1>9
<1>12. IsSeq(b) /\ Len(b) = Len(s)
  BY <1>9, <1>11, MadeSeq
<1>13. \A k \in (1..Len(chunks)) \ I : a[k] = <<>>
  BY <1>2, <1>5 DEF ChunkAdds
<1>14. \A k \in 1..Len(b) : \A j \in I : Selected(chunks, I)[k] = chunks[j] => b[k] = a[j]
  BY <1>2, <1>3, <1>5, <1>11, <1>12
<1>15. Len(b) = Len(Selected(chunks, I))
  BY <1>3, <1>12
<1>16. IsSeqs(b) /\ FlattenSeq(b) = FlattenSeq(a)
  BY <1>1, <1>2, <1>7, <1>12, <1>13, <1>14, <1>15, FlattenPicked
<1> QED BY <1>4, <1>8, <1>9, <1>10, <1>16

LEMMA KindsAdd ==
  ASSUME ChunkForms(chunks)
  PROVE  /\ Joined(OfKind("content")) = ChunksAdd("content", chunks)
         /\ IsSeq(OfKind("call")) /\ OfKind("call") = ChunksAdd("call", chunks)
         /\ IsSeq(OfKind("arguments")) /\ \A k \in 1..Len(OfKind("arguments")) : OfKind("arguments")[k].index = 0
         /\ FlattenSeq([j \in DOMAIN OfKind("arguments") |-> OfKind("arguments")[j].arguments])
              = ChunksAdd("arguments", chunks)
<1>1. Joined(OfKind("content")) = ChunksAdd("content", chunks)
  <2> DEFINE s == OfKind("content")
             b == [k \in DOMAIN s |-> ChunkAdds("content", s[k])]
  <2>1. /\ DOMAIN s = 1..Len(s) /\ \A k \in 1..Len(s) : s[k].kind = "content"
        /\ FlattenSeq(b) = ChunksAdd("content", chunks)
    BY PickedAdd DEF Whats
  <2> HIDE DEF s
  <2>2. b = [k \in DOMAIN s |-> s[k].text]
    BY <2>1 DEF ChunkAdds
  <2> QED BY <2>1, <2>2 DEF Joined, s
<1>2. IsSeq(OfKind("call")) /\ OfKind("call") = ChunksAdd("call", chunks)
  <2> DEFINE s == OfKind("call")
             b == [k \in DOMAIN s |-> ChunkAdds("call", s[k])]
  <2>1. /\ IsSeq(s) /\ IsSeqs(b) /\ Len(s) \in Nat
        /\ DOMAIN s = 1..Len(s) /\ \A k \in 1..Len(s) : s[k].kind = "call"
        /\ FlattenSeq(b) = ChunksAdd("call", chunks)
    BY PickedAdd DEF Whats
  <2> HIDE DEF s
  <2>2. DOMAIN b = 1..Len(s) /\ b = [k \in 1..Len(s) |-> b[k]] /\ \A k \in 1..Len(s) : b[k] = <<s[k]>>
    BY <2>1 DEF ChunkAdds
  <2> HIDE DEF b
  <2>3. IsSeq(b) /\ Len(b) = Len(s)
    BY <2>1, <2>2, MadeSeq
  <2>4. IsSeq(s) /\ \A k \in 1..Len(s) : b[k] = <<s[k]>>
    BY <2>1, <2>2
  <2>5. FlattenSeq(b) = s
    BY ONLY <2>3, <2>4, FlattenOnes
  <2> QED BY <2>1, <2>5 DEF s
<1>3. /\ IsSeq(OfKind("arguments")) /\ \A k \in 1..Len(OfKind("arguments")) : OfKind("arguments")[k].index = 0
      /\ FlattenSeq([j \in DOMAIN OfKind("arguments") |-> OfKind("arguments")[j].arguments])
           = ChunksAdd("arguments", chunks)
  <2> DEFINE s == OfKind("arguments")
             b == [k \in DOMAIN s |-> ChunkAdds("arguments", s[k])]
  <2>1. /\ IsSeq(s) /\ DOMAIN s = 1..Len(s)
        /\ \A k \in 1..Len(s) : s[k].kind = "arguments" /\ ChunkForm(s[k])
        /\ FlattenSeq(b) = ChunksAdd("arguments", chunks)
    BY PickedAdd DEF Whats
  <2> HIDE DEF s
  <2>2. b = [k \in DOMAIN s |-> s[k].arguments]
    BY <2>1 DEF ChunkAdds
  <2>3. \A k \in 1..Len(s) : s[k].index = 0
    BY <2>1 DEF ChunkForm
  <2> QED BY <2>1, <2>2, <2>3 DEF s
<1> QED BY <1>1, <1>2, <1>3

\* With no more than one call, every chunk of arguments is that call's.
LEMMA AssembledIs ==
  ASSUME ChunkForms(chunks), NEW cs, IsSeq(cs), Len(cs) <= 1,
         \A k \in 1..Len(cs) : cs[k] = ToolUse(cs[k].id, cs[k].input) /\ cs[k].input \in {"x", "empty"},
         ChunksAdd("call", chunks) = [k \in DOMAIN cs |-> CallChunk(cs[k].id)],
         ChunksAdd("arguments", chunks) = FlattenSeq([k \in DOMAIN cs |-> ArgumentText(cs[k])])
  PROVE  \E thoughts, calls :
           TellsCalls(calls, cs) /\ Assembled = ChatMessage(ChunksAdd("content", chunks), thoughts, calls)
<1> DEFINE starts == OfKind("call")
           parts == OfKind("arguments")
           first(i) == Selected(starts, {k \in DOMAIN starts : starts[k].index = i})[1]
           pieces(i) == Selected(parts, {k \in DOMAIN parts : parts[k].index = i})
           indices == Ascending({starts[k].index : k \in DOMAIN starts})
           told(i) == [id |-> first(i).id,
                       arguments |-> FlattenSeq([j \in DOMAIN pieces(i) |-> pieces(i)[j].arguments])]
           calls == [k \in DOMAIN indices |-> told(indices[k])]
           text == ChunksAdd("content", chunks)
           thoughts == Joined(OfKind("reasoning"))
<1>1. Assembled = ChatMessage(text, thoughts, calls)
  BY KindsAdd DEF Assembled
<1>2. /\ IsSeq(starts) /\ starts = [k \in DOMAIN cs |-> CallChunk(cs[k].id)]
      /\ IsSeq(parts) /\ \A k \in 1..Len(parts) : parts[k].index = 0
      /\ FlattenSeq([j \in DOMAIN parts |-> parts[j].arguments]) = FlattenSeq([k \in DOMAIN cs |-> ArgumentText(cs[k])])
  BY KindsAdd
<1>3. DOMAIN cs = 1..Len(cs) /\ Len(cs) \in Nat
  BY SeqIs
<1> HIDE DEF starts, parts, text, thoughts
<1>4. CASE Len(cs) = 0
  <2>1. DOMAIN starts = {}
    BY <1>2, <1>3, <1>4
  <2>2. {starts[k].index : k \in DOMAIN starts} = {}
    BY <2>1
  <2>3. indices = <<>>
    <3>1. IsSeq(<<>>) /\ <<>> \in Seq(Nat) /\ Increasing(<<>>) /\ ToSet(<<>>) = {}
      BY SeqEmpty, IncreasingMeans
    <3>2. Ascending({}) = <<>>
      BY <3>1, AscendingIs
    <3> QED BY <2>2, <3>2
  <2> HIDE DEF indices, told
  <2>4. calls = <<>>
    BY <2>3
  <2>5. TellsCalls(<<>>, cs)
    BY <1>4, SeqEmpty DEF TellsCalls
  <2> HIDE DEF calls
  <2> QED BY <1>1, <2>4, <2>5 DEF text
<1>5. CASE Len(cs) = 1
  <2> DEFINE b == cs[1]
             c == CallChunk(b.id)
             x == ArgumentText(b)
  <2>1. b = ToolUse(b.id, b.input) /\ b.input \in {"x", "empty"}
    BY <1>5
  <2>2. c.index = 0 /\ c.id = b.id
    BY DEF CallChunk
  <2>3. DOMAIN starts = 1..1 /\ starts[1] = c
    BY <1>2, <1>3, <1>5
  <2>4. FlattenSeq([k \in DOMAIN cs |-> ArgumentText(cs[k])]) = x
    <3>1. [k \in DOMAIN cs |-> ArgumentText(cs[k])] = [k \in 1..1 |-> x]
      BY <1>3, <1>5
    <3>2. IsSeq(x)
      BY JsonSeq, SeqEmpty DEF ArgumentText
    <3> HIDE DEF x
    <3>3. [k \in 1..1 |-> x] = <<x>>
      OBVIOUS
    <3> QED BY <3>1, <3>2, <3>3, SeqOne
  <2> HIDE DEF b, c, x
  <2>5. starts = <<c>>
    <3>1. Len(starts) = 1
      BY <1>2, <2>3, SeqIs
    <3>2. starts = [k \in 1..Len(starts) |-> starts[k]]
      BY <1>2, SeqIs
    <3> QED BY <2>3, <3>1, <3>2
  <2>6. indices = <<0>>
    <3>1. {starts[k].index : k \in DOMAIN starts} = {0}
      BY <2>2, <2>3
    <3>2. <<0>> \in Seq(Nat) /\ Len(<<0>>) = 1 /\ ToSet(<<0>>) = {0}
      BY SeqOne
    <3>3. Increasing(<<0>>)
      BY <3>2, IncreasingMeans
    <3>4. Ascending({0}) = <<0>>
      BY <3>2, <3>3, AscendingIs
    <3> QED BY <3>1, <3>4
  <2>7. first(0) = c
    <3>1. {k \in DOMAIN starts : starts[k].index = 0} = {1}
      BY <2>2, <2>3
    <3>2. first(0) = Selected(<<c>>, {1})[1]
      BY <2>5, <3>1
    <3>3. Selected(<<c>>, {1}) = <<c>> /\ <<c>>[1] = c
      BY SelectedFirst
    <3> HIDE DEF first
    <3> QED BY <3>2, <3>3
  <2>8. pieces(0) = parts
    <3>1. {k \in DOMAIN parts : parts[k].index = 0} = 1..Len(parts)
      BY <1>2, SeqIs
    <3> QED BY <1>2, <3>1, SelectedAll
  <2>9. told(0) = [id |-> b.id, arguments |-> x]
    BY <1>2, <2>2, <2>4, <2>7, <2>8
  <2> DEFINE y == [id |-> b.id, arguments |-> x]
  <2>10. y.id = b.id /\ y.arguments = x
    OBVIOUS
  <2> HIDE DEF indices, told, first, pieces
  <2>11. calls = [k \in 1..1 |-> y]
    BY <2>6, <2>9
  <2> HIDE DEF calls, y
  <2>12. [k \in 1..1 |-> y] = <<y>>
    OBVIOUS
  <2>13. Loads(x) = b.input
    BY <2>1, LoadsBack, ArgumentsAssumption DEF x, ArgumentText
  <2>14. b = ToolUse(y.id, Loads(y.arguments))
    BY <2>1, <2>10, <2>13
  <2>15. IsSeq(<<y>>) /\ Len(<<y>>) = 1 /\ <<y>>[1] = y
    BY SeqOne
  <2>16. TellsCalls(<<y>>, cs)
    BY <1>5, <2>14, <2>15 DEF TellsCalls, b
  <2> QED BY <1>1, <2>11, <2>12, <2>16 DEF text
<1> QED BY <1>3, <1>4, <1>5

-----------------------------------------------------------------------------
\* What was said is what the history says to the model, in every dialect, and so says
\* the request; a stream's chunks and the events to come add up to the answer.

NativeHistory ==
  /\ HasContents(history) /\ said = Heard(history) /\ system = <<>>
  /\ pc = "asked" => body.messages = history /\ body.system = <<>>
ResponsesHistory ==
  /\ HasContents(history) /\ said = ItemsSay(ResponsesInput(history)) /\ system = <<>>
  /\ pc = "asked" => body.messages = ResponsesInput(history) /\ body.system = <<>>
CodexBody ==
  /\ AllTold(body.messages) /\ HasKeys(body.tools) /\ IsSeq(body.system)
  /\ AtomsOf(body.messages) = said
  /\ body.system \o DeveloperTexts(body.messages) = system
  /\ Offers(body.tools, body.messages) = Offers(Standing, history)
CodexHistory ==
  /\ AllTold(history) /\ said = AtomsOf(history) /\ system = DeveloperTexts(history)
  /\ pc = "asked" => CodexBody
ChatHistory ==
  /\ ChatForms(history) /\ said = Heard(ChatMessages(history)) /\ system = ChatSystem(history)
  /\ pc = "asked" => body.messages = ChatMessages(history) /\ body.system = ChatSystem(history)
AddsUp(what) == ChunksAdd(what, chunks) \o EventsAdd(what, events) = EventsAdd(what, EventsOf(answer))
OneCall(a) ==
  \E shape \in Seq(ClaudeKinds) : HasShape(a, shape, turn) /\ Len(OfType(a.content, "tool_use")) <= 1
ChatStream ==
  pc = "streaming" =>
    /\ ChunkForms(chunks) /\ EventForms(events)
    /\ \A what \in Whats : AddsUp(what)
    /\ OneCall(answer)

HistInv ==
  /\ wire = "native" => NativeHistory
  /\ wire = "responses" => ResponsesHistory
  /\ wire = "codex" => CodexHistory
  /\ wire = "chat" /\ ~merged => ChatHistory /\ ChatStream

LEMMA HistoryBegins ==
  ASSUME Init
  PROVE  HistInv
<1>1. /\ history = <<>> /\ said = <<>> /\ system = <<>> /\ pc = "client"
  BY DEF Init
<1>2. NativeHistory
  BY <1>1, HeardNothing DEF NativeHistory
<1>3. ResponsesHistory
  BY <1>1, HeardNothing, InputNothing DEF ResponsesHistory
<1>4. CodexHistory
  BY <1>1, AtomsNothing, DeveloperNothing DEF CodexHistory
<1>5. ChatHistory /\ ChatStream
  BY <1>1, ChatNothing DEF ChatHistory, ChatStream
<1> QED BY <1>2, <1>3, <1>4, <1>5 DEF HistInv

\* A client's turn says what it adds to the history, and the request is made of it all.
LEMMA AskTells ==
  ASSUME UsageInv, HistInv, Ask
  PROVE  HistInv'
<1>1. PICK t \in Turns : /\ history' = history \o t.messages
                         /\ system' = system \o t.system
                         /\ said' = said \o t.said
                         /\ \E o \in IF turn = 0 THEN Options ELSE {Bare} : body' = Built(history', o)
  BY DEF Ask
<1>2. PICK o : body' = Built(history', o)
  BY <1>1
<1>3. wire' = wire /\ pc' = "asked" /\ merged' = merged
  BY DEF Ask
<1>4. CASE wire \in {"native", "responses"}
  <2>1. t \in MessageTurns
    BY <1>4 DEF Turns
  <2>2. HasContents(history) /\ system = <<>>
    BY <1>4 DEF HistInv, NativeHistory, ResponsesHistory
  <2>3. PICK m : t.messages = <<m>> /\ t.system = <<>> /\ SaysIt(m, t.said)
    BY <1>4, <2>1, <2>2, MessageTurnIs
  <2>4. system' = <<>> /\ history' = history \o <<m>> /\ IsSeq(m.content)
    BY <1>1, <2>2, <2>3, SeqEmpty DEF SaysIt
  <2>5. CASE wire = "native"
    <3>1. said' = Heard(history) \o By(m.role, m.content)
      BY <1>1, <2>3, <2>5 DEF HistInv, NativeHistory, SaysIt
    <3>2. HasContents(<<m>>) /\ Heard(<<m>>) = By(m.role, m.content)
      BY <2>4, HeardOne
    <3>3. HasContents(history \o <<m>>) /\ Heard(history \o <<m>>) = Heard(history) \o Heard(<<m>>)
      BY <2>2, <3>2, HeardConcat
    <3>4. body'.messages = history' /\ body'.system = <<>>
      BY <1>2, <2>5 DEF Built
    <3>5. NativeHistory'
      BY <2>4, <3>1, <3>2, <3>3, <3>4 DEF NativeHistory
    <3> QED BY <1>3, <2>5, <3>5 DEF HistInv
  <2>6. CASE wire = "responses"
    <3>1. said' = ItemsSay(ResponsesInput(history)) \o BlocksSay(m.role, m.content)
      BY <1>1, <2>3, <2>6 DEF HistInv, ResponsesHistory, SaysIt
    <3>2. /\ HasContents(history \o <<m>>)
          /\ ItemsSay(ResponsesInput(history \o <<m>>))
               = ItemsSay(ResponsesInput(history)) \o BlocksSay(m.role, m.content)
      BY <2>2, <2>4, InputMore
    <3>3. body'.messages = ResponsesInput(history') /\ body'.system = <<>>
      BY <1>2, <2>6 DEF Built
    <3>4. ResponsesHistory'
      BY <2>4, <3>1, <3>2, <3>3 DEF ResponsesHistory
    <3> QED BY <1>3, <2>6, <3>4 DEF HistInv
  <2> QED BY <1>4, <2>5, <2>6
<1>5. CASE wire = "codex"
  <2>1. AllTold(history) /\ said = AtomsOf(history) /\ system = DeveloperTexts(history)
    BY <1>5 DEF HistInv, CodexHistory
  <2>2. AllTold(t.messages) /\ t.said = AtomsOf(t.messages) /\ t.system = DeveloperTexts(t.messages)
    BY <1>5, <2>1, CodexTurnIs
  <2> DEFINE s == t.messages
  <2>0. /\ AllTold(s) /\ t.said = AtomsOf(s) /\ t.system = DeveloperTexts(s)
        /\ history' = history \o s /\ said' = said \o t.said /\ system' = system \o t.system
    BY <1>1, <2>2
  <2> HIDE DEF s
  <2>3. AllTold(history') /\ said' = AtomsOf(history')
    <3>1. AllTold(history \o s) /\ AtomsOf(history \o s) = AtomsOf(history) \o AtomsOf(s)
      BY <2>0, <2>1, AtomsConcat
    <3> QED BY <2>0, <2>1, <3>1
  <2>4. IsSeq(history) /\ IsSeq(s) /\ IsSeq(history')
    BY <2>0, <2>1, <2>3 DEF AllTold
  <2>5. system' = DeveloperTexts(history')
    <3>1. DeveloperTexts(history \o s) = DeveloperTexts(history) \o DeveloperTexts(s)
      BY <2>4, DeveloperConcat
    <3> QED BY <2>0, <2>1, <3>1
  <2>6. IsSeq(DeveloperTexts(history'))
    BY <2>4, DeveloperConcat
  <2>7. body' = [messages |-> history', system |-> <<>>, tools |-> Standing, context |-> "foreign", healed |-> {}]
    BY <1>2, <1>5 DEF Built
  <2>8. body'.messages = history' /\ body'.system = <<>> /\ body'.tools = Standing
    BY <2>7
  <2>9. CodexBody'
    <3>1. <<>> \o DeveloperTexts(history') = system'
      BY <2>5, <2>6, SeqEmpty
    <3> QED BY <2>3, <2>8, <3>1, SeqEmpty, StandingTools DEF CodexBody
  <2>10. CodexHistory'
    BY <2>3, <2>5, <2>9 DEF CodexHistory
  <2> QED BY <1>3, <1>5, <2>10 DEF HistInv
<1>6. CASE wire = "chat"
  <2>1. ASSUME ~merged
        PROVE  ChatHistory' /\ ChatStream'
    <3>1. ChatForms(history) /\ said = Heard(ChatMessages(history)) /\ system = ChatSystem(history)
      BY <1>6, <2>1 DEF HistInv, ChatHistory
    <3>2. t \in ChatTurns
      BY <1>6 DEF Turns
    <3>3. TurnTells(t)
      BY <1>6, <3>1, <3>2, ChatTurnIs
    <3> DEFINE s == t.messages
    <3>4. ChatForms(s) /\ t.said = Heard(ChatMessages(s)) /\ t.system = ChatSystem(s)
      BY <3>3 DEF TurnTells
    <3>5. history' = history \o s /\ said' = said \o t.said /\ system' = system \o t.system
      BY <1>1
    <3> HIDE DEF s
    <3>6. /\ ChatForms(history \o s)
          /\ Heard(ChatMessages(history \o s)) = Heard(ChatMessages(history)) \o Heard(ChatMessages(s))
          /\ ChatSystem(history \o s) = ChatSystem(history) \o ChatSystem(s)
      BY <3>1, <3>4, ChatConcat
    <3>7. body'.messages = ChatMessages(history') /\ body'.system = ChatSystem(history')
      BY <1>2, <1>6 DEF Built
    <3>8. ChatHistory'
      BY <3>1, <3>4, <3>5, <3>6, <3>7 DEF ChatHistory
    <3> QED BY <1>3, <3>8 DEF ChatStream
  <2> QED BY <1>3, <1>6, <2>1 DEF HistInv
<1> QED BY <1>3, <1>4, <1>5, <1>6, WiresAssumption DEF UsageInv

\* A repair says the same, and offers the same.
LEMMA RepairTells ==
  ASSUME BodyInv, HistInv, pc = "asked", wire = "codex", NEW q, NEW kind,
         {"messages", "system", "tools", "context", "healed"} \subseteq DOMAIN q,
         Keeps(body, q), HasKeys(q.tools), Offers(q.tools, q.messages) = Offers(body.tools, body.messages),
         body' = [q EXCEPT !.healed = @ \union {kind}],
         talk' = talk, pc' = pc
  PROVE  HistInv'
<1>1. CodexBody /\ AllTold(history) /\ said = AtomsOf(history) /\ system = DeveloperTexts(history)
  BY DEF HistInv, CodexHistory
<1>2. body'.messages = q.messages /\ body'.system = q.system /\ body'.tools = q.tools
  OBVIOUS
<1>3. wire' = wire /\ history' = history /\ said' = said /\ system' = system
  BY DEF talk
<1>4. CodexBody'
  <2>1. /\ AllTold(q.messages) /\ AtomsOf(q.messages) = said /\ IsSeq(q.system)
        /\ q.system \o DeveloperTexts(q.messages) = system
        /\ Offers(q.tools, q.messages) = Offers(Standing, history)
    BY <1>1 DEF CodexBody, Keeps
  <2> QED BY <1>2, <1>3, <2>1 DEF CodexBody
<1>5. CodexHistory'
  BY <1>1, <1>3, <1>4 DEF CodexHistory
<1> QED BY <1>3, <1>5 DEF HistInv

LEMMA RefusedTells ==
  ASSUME BodyInv, HistInv, Refused
  PROVE  HistInv'
<1>1. pc = "asked" /\ wire = "codex" /\ talk' = talk /\ CodexSent
  BY DEF Refused, BodyInv, SentForm
<1>2. wire' = wire /\ history' = history /\ said' = said /\ system' = system
  BY <1>1 DEF talk
<1>3. CodexBody /\ CodexHistory
  BY <1>1 DEF HistInv, CodexHistory
<1>4. /\ {"messages", "system", "tools", "context", "healed"} \subseteq DOMAIN body
      /\ AllForm(body.messages) /\ AllTold(body.messages) /\ HasKeys(body.tools) /\ IsSeq(body.system)
  BY <1>1, <1>3 DEF CodexSent, CodexBody
<1>5. CASE pc' = "over"
  <2>1. CodexHistory'
    BY <1>2, <1>3, <1>5 DEF CodexHistory
  <2> QED BY <1>1, <1>2, <2>1 DEF HistInv
<1>6. CASE pc' = pc /\ Project(body).safe /\ body' = [Project(body).body EXCEPT !.healed = @ \union {"projected"}]
  <2> DEFINE q == Project(body).body
  <2>1. Keeps(body, q)
    BY <1>4, <1>6, ProjectKeeps
  <2>2. HasKeys(q.tools) /\ Offers(q.tools, q.messages) = Offers(body.tools, body.messages)
    BY <1>4, <1>6, ProjectOffers
  <2>3. DOMAIN q = DOMAIN body
    BY <1>4, <1>6, ProjectMends
  <2>4. body' = [q EXCEPT !.healed = @ \union {"projected"}]
    BY <1>6
  <2> HIDE DEF q
  <2> QED BY <1>1, <1>4, <1>6, <2>1, <2>2, <2>3, <2>4, RepairTells
<1>7. CASE pc' = pc /\ body' = [StripReasoning(body) EXCEPT !.healed = @ \union {"stripped"}]
  <2> DEFINE q == StripReasoning(body)
  <2>1. Keeps(body, q)
    BY <1>4, StripKeeps
  <2>2. HasKeys(q.tools) /\ Offers(q.tools, q.messages) = Offers(body.tools, body.messages)
    BY <1>4, StripOffers
  <2>3. DOMAIN q = DOMAIN body
    BY <1>4, StripMends
  <2>4. body' = [q EXCEPT !.healed = @ \union {"stripped"}]
    BY <1>7
  <2> HIDE DEF q
  <2> QED BY <1>1, <1>4, <1>7, <2>1, <2>2, <2>3, <2>4, RepairTells
<1> QED BY <1>5, <1>6, <1>7 DEF Refused, Resend

LEMMA ChatSystemSeq ==
  ASSUME NEW ms, ChatForms(ms)
  PROVE  IsSeq(ChatSystem(ms))
<1> DEFINE X == ToSet(ms)
           f == [m \in X |-> SystemSays(m)]
           a == [k \in DOMAIN ms |-> f[ms[k]]]
<1> HIDE DEF f, a
<1>1. Maps(f, ms) /\ ChatSystem(ms) = FlatMap(f, ms)
  BY SystemMap DEF f
<1>2. a = [k \in DOMAIN ms |-> f[ms[k]]]
  BY DEF a
<1>3. IsSeq(FlatMap(f, ms))
  BY <1>1, <1>2, FlatMapParts
<1> QED BY <1>1, <1>3

\* An answer's messages say what the model is to see of it.
Answers(a, ms) ==
  /\ wire = "native" => HasContents(ms) /\ Heard(ms) = Seen(a)
  /\ wire = "responses" => \E m : ms = <<m>> /\ IsSeq(m.content) /\ BlocksSay(m.role, m.content) = Seen(a)
  /\ wire = "codex" => AllTold(ms) /\ AtomsOf(ms) = Seen(a) /\ DeveloperTexts(ms) = <<>>
  /\ wire = "chat" /\ ~merged =>
       ChatForms(ms) /\ Heard(ChatMessages(ms)) = Seen(a) /\ ChatSystem(ms) = <<>>

LEMMA ToldTells ==
  ASSUME UsageInv, HistInv, NEW a, NEW ms, NEW found, Told(a, ms, found), Answers(a, ms), merged' = merged
  PROVE  HistInv'
<1>1. /\ history' = history \o ms /\ said' = said \o Seen(a)
      /\ pc' = "client" /\ wire' = wire /\ system' = system
  BY DEF Told
<1>2. CASE wire = "native"
  <2>1. HasContents(history) /\ said = Heard(history) /\ system = <<>>
    BY <1>2 DEF HistInv, NativeHistory
  <2>2. HasContents(ms) /\ Heard(ms) = Seen(a)
    BY <1>2 DEF Answers
  <2>3. HasContents(history \o ms) /\ Heard(history \o ms) = Heard(history) \o Heard(ms)
    BY <2>1, <2>2, HeardConcat
  <2>4. NativeHistory'
    BY <1>1, <2>1, <2>2, <2>3 DEF NativeHistory
  <2> QED BY <1>1, <1>2, <2>4 DEF HistInv
<1>3. CASE wire = "responses"
  <2>1. HasContents(history) /\ said = ItemsSay(ResponsesInput(history)) /\ system = <<>>
    BY <1>3 DEF HistInv, ResponsesHistory
  <2>2. PICK m : ms = <<m>> /\ IsSeq(m.content) /\ BlocksSay(m.role, m.content) = Seen(a)
    BY <1>3 DEF Answers
  <2>3. /\ HasContents(history \o <<m>>)
        /\ ItemsSay(ResponsesInput(history \o <<m>>))
             = ItemsSay(ResponsesInput(history)) \o BlocksSay(m.role, m.content)
    BY <2>1, <2>2, InputMore
  <2>4. ResponsesHistory'
    BY <1>1, <2>1, <2>2, <2>3 DEF ResponsesHistory
  <2> QED BY <1>1, <1>3, <2>4 DEF HistInv
<1>4. CASE wire = "codex"
  <2>1. AllTold(history) /\ said = AtomsOf(history) /\ system = DeveloperTexts(history)
    BY <1>4 DEF HistInv, CodexHistory
  <2>2. AllTold(ms) /\ AtomsOf(ms) = Seen(a) /\ DeveloperTexts(ms) = <<>>
    BY <1>4 DEF Answers
  <2>3. AllTold(history \o ms) /\ AtomsOf(history \o ms) = AtomsOf(history) \o AtomsOf(ms)
    BY <2>1, <2>2, AtomsConcat
  <2>4. /\ DeveloperTexts(history \o ms) = DeveloperTexts(history) \o DeveloperTexts(ms)
        /\ IsSeq(DeveloperTexts(history))
    BY <2>1, <2>2, DeveloperConcat DEF AllTold
  <2>5. DeveloperTexts(history \o ms) = system
    BY <2>1, <2>2, <2>4, SeqEmpty
  <2>6. CodexHistory'
    BY <1>1, <2>1, <2>2, <2>3, <2>5 DEF CodexHistory
  <2> QED BY <1>1, <1>4, <2>6 DEF HistInv
<1>5. CASE wire = "chat"
  <2>1. ASSUME ~merged
        PROVE  ChatHistory' /\ ChatStream'
    <3>1. ChatForms(history) /\ said = Heard(ChatMessages(history)) /\ system = ChatSystem(history)
      BY <1>5, <2>1 DEF HistInv, ChatHistory
    <3>2. ChatForms(ms) /\ Heard(ChatMessages(ms)) = Seen(a) /\ ChatSystem(ms) = <<>>
      BY <1>5, <2>1 DEF Answers
    <3>3. /\ ChatForms(history \o ms)
          /\ Heard(ChatMessages(history \o ms)) = Heard(ChatMessages(history)) \o Heard(ChatMessages(ms))
          /\ ChatSystem(history \o ms) = ChatSystem(history) \o ChatSystem(ms)
      BY <3>1, <3>2, ChatConcat
    <3>4. IsSeq(ChatSystem(history))
      BY <3>1, ChatSystemSeq
    <3>5. ChatSystem(history \o ms) = system
      BY <3>1, <3>2, <3>3, <3>4, SeqEmpty
    <3>6. ChatHistory'
      BY <1>1, <3>1, <3>2, <3>3, <3>5 DEF ChatHistory
    <3> QED BY <1>1, <3>6 DEF ChatStream
  <2> QED BY <1>1, <1>5, <2>1 DEF HistInv
<1> QED BY <1>2, <1>3, <1>4, <1>5, WiresAssumption DEF UsageInv

LEMMA OutputItemIs ==
  ASSUME NEW kind \in BlockKinds("responses"), NEW t, NEW p
  PROVE  AnswerItem(OutputItem(kind, t, p))
<1> DEFINE i == OutputItem(kind, t, p)
<1>1. kind \in {"message", "refusal", "call", "broken_call", "reasoning"}
  BY DEF BlockKinds
<1>2. CASE kind = "message"
  <2> DEFINE x == OutputText(Words(t, p))
             y == OutputText(<<>>)
             ps == <<x, y>>
  <2>1. i.item = "message" /\ i.parts = ps
    BY <1>2 DEF OutputItem
  <2>2. \E w : x = OutputText(w)
    OBVIOUS
  <2>3. \E w : y = OutputText(w)
    OBVIOUS
  <2> HIDE DEF x, y
  <2>4. IsSeq(ps) /\ Len(ps) = 2 /\ ps[1] = x /\ ps[2] = y
    BY ThreeAre
  <2> HIDE DEF ps, i
  <2>5. TextParts(i)
    BY <2>1, <2>2, <2>3, <2>4 DEF TextParts
  <2> QED BY <2>1, <2>5 DEF AnswerItem, i
<1>3. CASE kind = "refusal"
  <2> DEFINE x == [type |-> "refusal"]
  <2>1. i.item = "message" /\ i.parts = <<x>>
    BY <1>3 DEF OutputItem
  <2>2. x.type # "output_text"
    OBVIOUS
  <2> HIDE DEF x, i
  <2>3. IsSeq(i.parts) /\ \A k \in 1..Len(i.parts) : i.parts[k].type # "output_text"
    BY <2>1, <2>2, SeqOne
  <2> QED BY <2>1, <2>3 DEF AnswerItem, i
<1>4. CASE kind = "call"
  <2> DEFINE text == Json("x")
  <2>1. i = [item |-> "function_call", id |-> Id(t, p), arguments |-> text]
    BY <1>4 DEF OutputItem
  <2>2. i.item = "function_call"
    BY <2>1
  <2> HIDE DEF i
  <2> QED BY <2>1, <2>2 DEF AnswerItem, i
<1>5. CASE kind = "broken_call"
  <2> DEFINE text == <<Json("x")[1]>>
  <2>1. i = [item |-> "function_call", id |-> Id(t, p), arguments |-> text]
    BY <1>5 DEF OutputItem
  <2>2. i.item = "function_call"
    BY <2>1
  <2>3. \E x : text = <<x>>
    OBVIOUS
  <2> HIDE DEF i, text
  <2> QED BY <2>1, <2>2, <2>3 DEF AnswerItem, i
<1>6. CASE kind = "reasoning"
  <2>1. i.item = "reasoning"
    BY <1>6 DEF OutputItem
  <2> HIDE DEF i
  <2> QED BY <2>1 DEF AnswerItem, i
<1> QED BY <1>1, <1>2, <1>3, <1>4, <1>5, <1>6

LEMMA ResponsesAnswer ==
  ASSUME wire = "responses", NEW shape \in Seq(BlockKinds("responses")), NEW u,
         NEW a, a = AnswerOf(shape, u)
  PROVE  Answers(a, <<[role |-> "assistant", content |-> RenderMessages(a).content]>>)
<1> DEFINE out == a.output
           n == Len(shape)
<1>1. n \in Nat /\ DOMAIN shape = 1..n /\ \A k \in 1..n : shape[k] \in BlockKinds("responses")
  OBVIOUS
<1>2. out = [k \in DOMAIN shape |-> OutputItem(shape[k], turn, k)]
  BY DEF AnswerOf
<1> HIDE DEF out, n
<1>3. DOMAIN out = 1..n /\ out = [k \in 1..n |-> out[k]] /\ \A k \in 1..n : out[k] = OutputItem(shape[k], turn, k)
  BY <1>1, <1>2
<1>4. IsSeq(out) /\ Len(out) = n
  BY <1>1, <1>3, MadeSeq
<1>5. \A k \in 1..Len(out) : AnswerItem(out[k])
  BY <1>1, <1>3, <1>4, OutputItemIs
<1> DEFINE content == FlattenSeq([k \in DOMAIN out |-> OutputBlocks(out[k])])
           seen == FlattenSeq([k \in DOMAIN out |-> SeenOutput(out[k])])
           m == [role |-> "assistant", content |-> content]
<1>6. IsSeq(content) /\ IsSeq(seen) /\ BlocksSay("assistant", content) = By("assistant", seen)
  BY <1>4, <1>5, AnswerSaid
<1>7. RenderMessages(a).content = content
  BY DEF RenderMessages, out
<1>8. Seen(a) = By("assistant", seen)
  BY DEF Seen, out
<1> HIDE DEF content, seen
<1>9. m.role = "assistant" /\ m.content = content
  OBVIOUS
<1>10. [role |-> "assistant", content |-> RenderMessages(a).content] = m
  BY <1>7
<1> HIDE DEF m
<1> QED BY <1>6, <1>8, <1>9, <1>10 DEF Answers

LEMMA NativeAnswer ==
  ASSUME wire = "native", NEW shape \in Seq(ClaudeKinds), NEW u, NEW a, a = AnswerOf(shape, u)
  PROVE  Answers(a, <<[role |-> "assistant", content |-> a.content]>>)
<1> DEFINE m == [role |-> "assistant", content |-> a.content]
<1>1. HasShape(a, shape, turn)
  BY DEF AnswerOf, HasShape
<1>2. IsSeq(a.content)
  BY <1>1, ClaudeBlocks
<1>3. m.role = "assistant" /\ m.content = a.content
  OBVIOUS
<1>4. Seen(a) = By("assistant", a.content)
  BY DEF Seen
<1> HIDE DEF m
<1>5. HasContents(<<m>>) /\ Heard(<<m>>) = By(m.role, m.content)
  BY <1>2, <1>3, HeardOne
<1> QED BY <1>3, <1>4, <1>5 DEF Answers, m

\* A chat message that says what the model is to see.
LEMMA ChatAnswer ==
  ASSUME wire = "chat", NEW a, NEW m, ~merged => ChatForm(m) /\ ~IsSystem(m) /\ MessageTells(m) = SeenChat(a.content)
  PROVE  Answers(a, <<m>>)
<1>1. ASSUME ~merged
      PROVE  ChatForms(<<m>>) /\ Heard(ChatMessages(<<m>>)) = Seen(a) /\ ChatSystem(<<m>>) = <<>>
  <2>1. /\ ChatForms(<<m>>) /\ Heard(ChatMessages(<<m>>)) = MessageTells(m)
        /\ ChatSystem(<<m>>) = SystemSays(m)
    BY <1>1, ChatOne
  <2>2. Seen(a) = SeenChat(a.content)
    BY DEF Seen
  <2> QED BY <1>1, <2>1, <2>2 DEF SystemSays
<1> QED BY <1>1 DEF Answers

LEMMA CodexAnswer ==
  ASSUME wire = "codex", NEW shape \in Seq(BlockKinds("codex")), NEW u, NEW a, a = AnswerOf(shape, u)
  PROVE  Answers(a, a.output)
<1>1. AllTold(a.output) /\ DeveloperTexts(a.output) = <<>>
  BY CodexAnswerIs
<1>2. Seen(a) = AtomsOf(a.output)
  BY DEF Seen
<1> QED BY <1>1, <1>2 DEF Answers

LEMMA ShapesAre ==
  ASSUME wire \in Wires, NEW shape \in Shapes[wire]
  PROVE  /\ wire \in {"chat", "native"} => shape \in Seq(ClaudeKinds)
         /\ wire \in {"responses", "codex"} => shape \in Seq(BlockKinds(wire))
<1>1. Shapes[wire] \subseteq Seq(BlockKinds(wire))
  BY ShapesAssumption
<1>2. wire \in {"chat", "native"} => BlockKinds(wire) = ClaudeKinds
  BY DEF BlockKinds, ClaudeKinds
<1> QED BY <1>1, <1>2

LEMMA WholeTells ==
  ASSUME UsageInv, HistInv, AnswerWhole
  PROVE  HistInv'
<1>1. PICK shape \in Shapes[wire], u \in Usages : Whole(AnswerOf(shape, u))
  BY DEF AnswerWhole
<1> DEFINE a == AnswerOf(shape, u)
<1>2. wire \in Wires /\ merged' = merged /\ wire \in {"chat", "native", "responses", "codex"}
  BY WiresAssumption DEF UsageInv, AnswerWhole
<1>3. /\ wire \in {"chat", "native"} => shape \in Seq(ClaudeKinds)
      /\ wire \in {"responses", "codex"} => shape \in Seq(BlockKinds(wire))
  BY <1>2, ShapesAre
<1>4. Whole(a) /\ a = AnswerOf(shape, u)
  BY <1>1
<1>5. wire = "chat" => HasShape(a, shape, turn)
  BY DEF AnswerOf, HasShape
<1> HIDE DEF a
<1>6. \E ms, found : Told(a, ms, found) /\ Answers(a, ms)
  <2>1. CASE wire = "chat"
    <3>1. /\ ChatForm(RenderChat(a).message) /\ ~IsSystem(RenderChat(a).message)
          /\ MessageTells(RenderChat(a).message) = SeenChat(a.content)
      BY <1>3, <1>5, <2>1, RenderedSays
    <3>2. Answers(a, <<RenderChat(a).message>>)
      BY <2>1, <3>1, ChatAnswer
    <3> QED BY <1>4, <2>1, <3>2 DEF Whole
  <2>2. CASE wire = "native"
    <3>1. Answers(a, <<[role |-> "assistant", content |-> a.content]>>)
      BY <1>3, <1>4, <2>2, NativeAnswer
    <3> QED BY <1>4, <2>2, <3>1 DEF Whole
  <2>3. CASE wire = "responses"
    <3>1. Answers(a, <<[role |-> "assistant", content |-> RenderMessages(a).content]>>)
      BY <1>3, <1>4, <2>3, ResponsesAnswer
    <3> QED BY <1>4, <2>3, <3>1 DEF Whole
  <2>4. CASE wire = "codex"
    <3>1. Answers(a, a.output)
      BY <1>3, <1>4, <2>4, CodexAnswer
    <3> QED BY <1>4, <2>4, <3>1 DEF Whole
  <2> QED BY <1>2, <2>1, <2>2, <2>3, <2>4
<1> QED BY <1>2, <1>6, ToldTells

LEMMA StreamedTells ==
  ASSUME UsageInv, HistInv, AnswerStreamed
  PROVE  HistInv'
<1>1. PICK shape \in Shapes[wire], u \in Usages :
        \E found : Told(AnswerOf(shape, u),
                        IF wire = "codex" THEN AnswerOf(shape, u).output
                        ELSE <<[role |-> "assistant",
                                content |-> IF wire = "native" THEN AnswerOf(shape, u).content
                                            ELSE RenderMessages(AnswerOf(shape, u)).content]>>, found)
  BY DEF AnswerStreamed
<1> DEFINE a == AnswerOf(shape, u)
           ms == IF wire = "codex" THEN a.output
                 ELSE <<[role |-> "assistant",
                         content |-> IF wire = "native" THEN a.content ELSE RenderMessages(a).content]>>
<1>2. PICK found : Told(a, ms, found)
  BY <1>1
<1>3. /\ wire \in Wires /\ merged' = merged /\ wire \in {"native", "responses", "codex"}
      /\ a = AnswerOf(shape, u)
  BY WiresAssumption DEF UsageInv, AnswerStreamed
<1>4. /\ wire \in {"chat", "native"} => shape \in Seq(ClaudeKinds)
      /\ wire \in {"responses", "codex"} => shape \in Seq(BlockKinds(wire))
  BY <1>3, ShapesAre
<1> HIDE DEF a
<1>5. Answers(a, ms)
  <2>1. CASE wire = "native"
    <3>1. Answers(a, <<[role |-> "assistant", content |-> a.content]>>)
      BY <1>3, <1>4, <2>1, NativeAnswer
    <3> QED BY <2>1, <3>1
  <2>2. CASE wire = "responses"
    <3>1. Answers(a, <<[role |-> "assistant", content |-> RenderMessages(a).content]>>)
      BY <1>3, <1>4, <2>2, ResponsesAnswer
    <3> QED BY <2>2, <3>1
  <2>3. CASE wire = "codex"
    <3>1. Answers(a, a.output)
      BY <1>3, <1>4, <2>3, CodexAnswer
    <3> QED BY <2>3, <3>1
  <2> QED BY <1>3, <2>1, <2>2, <2>3
<1> HIDE DEF ms
<1> QED BY <1>2, <1>3, <1>5, ToldTells

LEMMA EventsAddSeq ==
  ASSUME NEW what \in Whats, NEW es, EventForms(es)
  PROVE  IsSeq(EventsAdd(what, es))
<1> DEFINE X == ToSet(es)
           f == [e \in X |-> EventAdds(what, e)]
           a == [k \in DOMAIN es |-> f[es[k]]]
<1> HIDE DEF f, a
<1>1. Maps(f, es) /\ EventsAdd(what, es) = FlatMap(f, es)
  BY EventsMap DEF f
<1>2. a = [k \in DOMAIN es |-> f[es[k]]]
  BY DEF a
<1>3. IsSeq(FlatMap(f, es))
  BY <1>1, <1>2, FlatMapParts
<1> QED BY <1>1, <1>3

LEMMA ChunksAddSeq ==
  ASSUME NEW what \in Whats, NEW cs, ChunkForms(cs)
  PROVE  IsSeq(ChunksAdd(what, cs))
<1> DEFINE X == ToSet(cs)
           f == [c \in X |-> ChunkAdds(what, c)]
           a == [k \in DOMAIN cs |-> f[cs[k]]]
<1> HIDE DEF f, a
<1>1. Maps(f, cs) /\ ChunksAdd(what, cs) = FlatMap(f, cs)
  BY ChunksMap DEF f
<1>2. a = [k \in DOMAIN cs |-> f[cs[k]]]
  BY DEF a
<1>3. IsSeq(FlatMap(f, cs))
  BY <1>1, <1>2, FlatMapParts
<1> QED BY <1>1, <1>3

\* Before the first event all of the answer is still to come.
LEMMA OpenTells ==
  ASSUME UsageInv, HistInv, OpenStream
  PROVE  HistInv'
<1>1. PICK shape \in Shapes[wire], u \in Usages :
        /\ answer' = AnswerOf(shape, u) /\ events' = EventsOf(answer')
        /\ merged' = (merged \/ Len(OfType(answer'.content, "tool_use")) > 1)
  BY DEF OpenStream
<1>2. /\ wire = "chat" /\ wire' = wire /\ turn' = turn /\ chunks' = <<>> /\ pc' = "streaming"
      /\ history' = history /\ said' = said /\ system' = system /\ wire \in Wires
  BY DEF OpenStream, UsageInv, talk
<1> DEFINE a == answer'
<1>3. shape \in Seq(ClaudeKinds)
  BY <1>2, ShapesAre
<1>4. HasShape(a, shape, turn)
  BY <1>1, <1>2 DEF AnswerOf, HasShape
<1>5. events' = EventsOf(a) /\ merged' = (merged \/ Len(OfType(a.content, "tool_use")) > 1)
  BY <1>1
<1> HIDE DEF a
<1>6. ASSUME ~merged'
      PROVE  ChatHistory' /\ ChatStream'
  <2>1. ~merged /\ ~(Len(OfType(a.content, "tool_use")) > 1)
    BY <1>5, <1>6
  <2>2. ChatHistory'
    BY <1>2, <2>1 DEF HistInv, ChatHistory
  <2>3. Len(OfType(a.content, "tool_use")) \in Nat
    BY <1>3, <1>4, UsesAre
  <2>4. Len(OfType(a.content, "tool_use")) <= 1
    <3> DEFINE n == Len(OfType(a.content, "tool_use"))
    <3>1. n \in Nat /\ ~(n > 1)
      BY <2>1, <2>3
    <3> HIDE DEF n
    <3>2. n <= 1
      BY <3>1
    <3> QED BY <3>2 DEF n
  <2>5. OneCall(answer)'
    BY <1>2, <1>3, <1>4, <2>4 DEF OneCall, a
  <2>6. EventForms(EventsOf(a))
    <3> DEFINE h == [k \in DOMAIN a.content |-> BlockAdds("content", a.content[k])]
    <3>1. h = [k \in DOMAIN a.content |-> BlockAdds("content", a.content[k])] /\ "content" \in Whats
      BY DEF Whats
    <3> HIDE DEF h
    <3> QED BY <1>3, <1>4, <3>1, AnswerAdds
  <2>7. \A what \in Whats : AddsUp(what)'
    <3> TAKE what \in Whats
    <3>1. ChunksAdd(what, <<>>) = <<>>
      BY NothingAdded
    <3>2. IsSeq(EventsAdd(what, EventsOf(a)))
      BY <2>6, EventsAddSeq
    <3>3. ChunksAdd(what, chunks') \o EventsAdd(what, events') = EventsAdd(what, EventsOf(a))
      BY <1>2, <1>5, <3>1, <3>2, SeqEmpty
    <3> QED BY <3>3 DEF AddsUp, a
  <2>8. ChunkForms(chunks')
    BY <1>2, NothingAdded
  <2>9. EventForms(events')
    BY <1>5, <2>6
  <2>10. ChatStream'
    BY <2>5, <2>7, <2>8, <2>9 DEF ChatStream
  <2> QED BY <2>2, <2>10
<1> QED BY <1>2, <1>6 DEF HistInv

\* What an event adds, its chunks add.
LEMMA PassAddsUp ==
  ASSUME NEW what \in Whats, NEW cs, ChunkForms(cs), NEW e, NEW es, EventForms(<<e>> \o es), EventForms(es),
         EventForm(e), NEW n
  PROVE  /\ ChunkForms(cs \o Chunks(e, n))
         /\ ChunksAdd(what, cs \o Chunks(e, n)) \o EventsAdd(what, es)
              = ChunksAdd(what, cs) \o EventsAdd(what, <<e>> \o es)
<1> DEFINE c == Chunks(e, n)
           x == ChunksAdd(what, cs)
           y == EventAdds(what, e)
           z == EventsAdd(what, es)
<1>1. ChunkForms(c) /\ ChunksAdd(what, c) = y
  BY ChunksTell
<1> HIDE DEF c
<1>2. ChunkForms(cs \o c) /\ ChunksAdd(what, cs \o c) = x \o ChunksAdd(what, c)
  BY <1>1, ChunksConcat
<1>3. EventForms(<<e>>) /\ EventsAdd(what, <<e>>) = y
  BY EventsOne
<1>4. EventsAdd(what, <<e>> \o es) = EventsAdd(what, <<e>>) \o z
  BY <1>3, EventsConcat
<1>5. IsSeq(x) /\ IsSeq(y) /\ IsSeq(z)
  <2>1. IsSeq(y)
    BY DEF EventForm
  <2> QED BY <2>1, ChunksAddSeq, EventsAddSeq
<1> HIDE DEF x, y, z
<1>6. (x \o y) \o z = x \o (y \o z)
  BY <1>5, SeqAssoc
<1> QED BY <1>1, <1>2, <1>3, <1>4, <1>6 DEF c, x, z

LEMMA FirstAndRest ==
  ASSUME NEW s, IsSeq(s), s # <<>>
  PROVE  /\ s = <<Head(s)>> \o Tail(s) /\ IsSeq(Tail(s)) /\ Head(s) \in ToSet(s)
         /\ ToSet(Tail(s)) \subseteq ToSet(s)
<1> DEFINE S == ToSet(s)
<1>1. s \in Seq(S) /\ Len(s) \in Nat /\ DOMAIN s = 1..Len(s) /\ \A k \in 1..Len(s) : s[k] \in S
  BY SeqIs
<1> HIDE DEF S
<1>2. Head(s) \in S /\ Tail(s) \in Seq(S)
  BY <1>1
<1>3. IsSeq(Tail(s))
  BY <1>2 DEF IsSeq
<1>4. s = <<Head(s)>> \o Tail(s)
  <2> DEFINE t == Tail(s)
             h == <<Head(s)>>
             n == Len(s)
  <2>1. /\ h \in Seq(S) /\ t \in Seq(S) /\ Len(h) = 1 /\ Len(t) = n - 1 /\ h[1] = s[1]
        /\ \A k \in 1..(n - 1) : t[k] = s[k + 1]
    BY <1>1, <1>2
  <2> HIDE DEF t, h
  <2>2. n = Len(h) + Len(t)
    BY <1>1, <2>1
  <2>3. \A k \in 1..Len(h) : s[k] = h[k]
    BY <2>1
  <2>4. \A k \in 1..Len(t) : s[k + Len(h)] = t[k]
    BY <2>1
  <2>5. s = h \o t
    BY <1>1, <2>1, <2>2, <2>3, <2>4, ConcatIs
  <2> QED BY <2>5 DEF h, t
<1>5. ToSet(Tail(s)) \subseteq S
  <2> DEFINE t == Tail(s)
  <2>1. t \in Seq(S)
    BY <1>2
  <2> HIDE DEF t
  <2>2. ToSet(t) \subseteq S
    BY <2>1 DEF ToSet
  <2> QED BY <2>2 DEF t
<1> QED BY <1>2, <1>3, <1>4, <1>5 DEF S

LEMMA PassTells ==
  ASSUME UsageInv, HistInv, Pass
  PROVE  HistInv'
<1> DEFINE e == Head(events)
           es == Tail(events)
<1>1. /\ pc = "streaming" /\ wire = "chat" /\ events # <<>>
      /\ chunks' = chunks \o Chunks(e, tokens') /\ events' = es
      /\ pc' = pc /\ wire' = wire /\ turn' = turn /\ answer' = answer /\ merged' = merged
      /\ history' = history /\ said' = said /\ system' = system
  BY DEF Pass, UsageInv, StreamInv, talk
<1>2. ASSUME ~merged
      PROVE  ChatHistory' /\ ChatStream'
  <2>1. ChatHistory'
    BY <1>1, <1>2 DEF HistInv, ChatHistory
  <2>2. /\ ChunkForms(chunks) /\ EventForms(events) /\ OneCall(answer)
        /\ \A what \in Whats : AddsUp(what)
    BY <1>1, <1>2 DEF HistInv, ChatStream
  <2>3. /\ events = <<e>> \o es /\ IsSeq(es) /\ e \in ToSet(events) /\ ToSet(es) \subseteq ToSet(events)
    BY <1>1, <2>2, FirstAndRest DEF EventForms
  <2> HIDE DEF e, es
  <2>4. EventForms(es) /\ EventForm(e) /\ EventForms(<<e>> \o es)
    BY <2>2, <2>3 DEF EventForms
  <2> DEFINE n == tokens'
             c == chunks \o Chunks(e, n)
  <2> HIDE DEF n
  <2>5. \A what \in Whats : /\ ChunkForms(c)
                            /\ ChunksAdd(what, c) \o EventsAdd(what, es)
                                 = ChunksAdd(what, chunks) \o EventsAdd(what, <<e>> \o es)
    BY <2>2, <2>4, PassAddsUp
  <2>6. chunks' = c
    BY <1>1 DEF n
  <2> HIDE DEF c
  <2>7. ChunkForms(chunks')
    BY <2>5, <2>6 DEF Whats
  <2>8. EventForms(events')
    BY <1>1, <2>4
  <2>9. \A what \in Whats : AddsUp(what)'
    BY <1>1, <2>2, <2>3, <2>5, <2>6 DEF AddsUp
  <2>10. OneCall(answer)'
    BY <1>1, <2>2 DEF OneCall
  <2>11. ChatStream'
    BY <2>7, <2>8, <2>9, <2>10 DEF ChatStream
  <2> QED BY <2>1, <2>11
<1> QED BY <1>1, <1>2 DEF HistInv

\* At its end a client has put together what the model said, if it made one call at most.
LEMMA EndTells ==
  ASSUME UsageInv, HistInv, EndStream
  PROVE  HistInv'
<1>1. pc = "streaming" /\ wire = "chat" /\ events = <<>> /\ merged' = merged
  BY DEF EndStream, UsageInv, StreamInv
<1>2. PICK found : Told(answer, <<Assembled>>, found)
  BY DEF EndStream
<1>3. ASSUME ~merged
      PROVE  ChatForm(Assembled) /\ ~IsSystem(Assembled) /\ MessageTells(Assembled) = SeenChat(answer.content)
  <2> DEFINE a == answer
             cs == OfType(a.content, "tool_use")
  <2>1. /\ ChunkForms(chunks) /\ EventForms(events) /\ OneCall(a)
        /\ \A what \in Whats : AddsUp(what)
    BY <1>1, <1>3 DEF HistInv, ChatStream
  <2>2. PICK shape \in Seq(ClaudeKinds) : HasShape(a, shape, turn) /\ Len(cs) <= 1
    BY <2>1 DEF OneCall
  <2>3. \A what \in Whats : ChunksAdd(what, chunks) = EventsAdd(what, EventsOf(a))
    <3> TAKE what \in Whats
    <3>1. EventsAdd(what, events) = <<>>
      BY <1>1, NothingAdded
    <3>2. IsSeq(ChunksAdd(what, chunks))
      BY <2>1, ChunksAddSeq
    <3>3. ChunksAdd(what, chunks) \o EventsAdd(what, events) = EventsAdd(what, EventsOf(a))
      BY <2>1 DEF AddsUp
    <3> QED BY <3>1, <3>2, <3>3, SeqEmpty
  <2>4. /\ IsSeq(cs) /\ Len(cs) \in Nat
        /\ \A k \in 1..Len(cs) : cs[k] = ToolUse(cs[k].id, cs[k].input) /\ cs[k].input \in {"x", "empty"}
    BY <2>2, UsesAre
  <2>5. /\ EventsAdd("content", EventsOf(a)) = TextsOf(a.content)
        /\ EventsAdd("call", EventsOf(a)) = [k \in DOMAIN cs |-> CallChunk(cs[k].id)]
        /\ EventsAdd("arguments", EventsOf(a)) = FlattenSeq([k \in DOMAIN cs |-> ArgumentText(cs[k])])
    BY <2>2, AnswerTells
  <2>6. SeenChat(a.content) = By("assistant", FirstText(TextsOf(a.content), cs) \o cs)
    BY DEF SeenChat, FirstText
  <2> HIDE DEF a, cs
  <2> DEFINE text == ChunksAdd("content", chunks)
  <2>7. /\ text = TextsOf(a.content)
        /\ ChunksAdd("call", chunks) = [k \in DOMAIN cs |-> CallChunk(cs[k].id)]
        /\ ChunksAdd("arguments", chunks) = FlattenSeq([k \in DOMAIN cs |-> ArgumentText(cs[k])])
    BY <2>3, <2>5 DEF Whats
  <2>8. PICK thoughts, calls : TellsCalls(calls, cs) /\ Assembled = ChatMessage(text, thoughts, calls)
    BY <2>1, <2>2, <2>4, <2>7, AssembledIs
  <2> DEFINE m == Assembled
  <2> HIDE DEF m, text
  <2>9. m = ChatMessage(text, thoughts, calls)
    BY <2>8 DEF m
  <2>10. ChatForm(m) /\ ~IsSystem(m) /\ MessageTells(m) = By("assistant", FirstText(text, cs) \o cs)
    BY <2>8, <2>9, ChatMessageSays
  <2> QED BY <2>6, <2>7, <2>10 DEF m, a
<1>4. Answers(answer, <<Assembled>>)
  BY <1>1, <1>3, ChatAnswer
<1> QED BY <1>1, <1>2, <1>4, ToldTells

-----------------------------------------------------------------------------
\* Nothing of a conversation is lost, added or told in another order.

THEOREM HistoryInvariant == Spec => []HistInv
<1>1. Init => HistInv
  BY HistoryBegins
<1>2. ASSUME UsageInv, BodyInv, HistInv, [Next]_vars
      PROVE  HistInv'
  <2>1. CASE Ask
    BY <1>2, <2>1, AskTells
  <2>2. CASE Refused
    BY <1>2, <2>2, RefusedTells
  <2>3. CASE AnswerWhole
    BY <1>2, <2>3, WholeTells
  <2>4. CASE AnswerStreamed
    BY <1>2, <2>4, StreamedTells
  <2>5. CASE OpenStream
    BY <1>2, <2>5, OpenTells
  <2>6. CASE Pass
    BY <1>2, <2>6, PassTells
  <2>7. CASE BreakOff
    <3>1. /\ wire = "chat" /\ pc' = "over" /\ wire' = wire /\ merged' = merged
          /\ history' = history /\ said' = said /\ system' = system
      BY <1>2, <2>7 DEF BreakOff, UsageInv, StreamInv, talk
    <3> QED BY <1>2, <3>1 DEF HistInv, ChatHistory, ChatStream
  <2>8. CASE EndStream
    BY <1>2, <2>8, EndTells
  <2>9. CASE UNCHANGED vars
    <3>1. /\ wire' = wire /\ turn' = turn /\ history' = history /\ said' = said /\ system' = system
          /\ pc' = pc /\ merged' = merged /\ body' = body
          /\ answer' = answer /\ events' = events /\ chunks' = chunks
      BY <2>9 DEF vars, talk, stream
    <3>2. NativeHistory' = NativeHistory /\ ResponsesHistory' = ResponsesHistory /\ ChatHistory' = ChatHistory
      BY <3>1 DEF NativeHistory, ResponsesHistory, ChatHistory
    <3>3. CodexHistory' = CodexHistory
      BY <3>1 DEF CodexHistory, CodexBody
    <3>4. ChatStream' = ChatStream
      BY <3>1 DEF ChatStream, AddsUp, OneCall
    <3> QED BY <1>2, <3>1, <3>2, <3>3, <3>4 DEF HistInv
  <2> QED BY <1>2, <2>1, <2>2, <2>3, <2>4, <2>5, <2>6, <2>7, <2>8, <2>9 DEF Next
<1> QED BY <1>1, <1>2, UsageInvariant, BodyInvariant, PTL DEF Spec

\* In every turn the model is sent the whole conversation, whoever's dialect the client
\* speaks and in whichever way its answers came, also after a refused request was
\* repaired; only several calls streamed in one chat answer are excepted.  For
\* conversations of any length, answers of any shape and any options.
THEOREM HistoryIsFaithful == Spec => []HistoryFaithful
<1>1. UsageInv /\ HistInv => HistoryFaithful
  <2> SUFFICES ASSUME UsageInv, HistInv, pc = "asked", ~merged
               PROVE  /\ Atoms = said
                      /\ IF wire = "codex"
                         THEN /\ body.system \o DeveloperTexts(body.messages) = system
                              /\ Offers(body.tools, body.messages) = Offers(Standing, history)
                         ELSE body.system = system
    BY DEF HistoryFaithful
  <2>1. CASE wire = "native"
    <3>1. Atoms = Heard(body.messages)
      BY <2>1 DEF Atoms, Heard
    <3> QED BY <2>1, <3>1 DEF HistInv, NativeHistory
  <2>2. CASE wire = "responses"
    <3>1. Atoms = ItemsSay(body.messages)
      BY <2>2 DEF Atoms, ItemsSay, ItemSays
    <3> QED BY <2>2, <3>1 DEF HistInv, ResponsesHistory
  <2>3. CASE wire = "codex"
    BY <2>3 DEF HistInv, CodexHistory, CodexBody, Atoms
  <2>4. CASE wire = "chat"
    <3>1. Atoms = Heard(body.messages)
      BY <2>4 DEF Atoms, Heard
    <3> QED BY <2>4, <3>1 DEF HistInv, ChatHistory
  <2> QED BY <2>1, <2>2, <2>3, <2>4, WiresAssumption DEF UsageInv
<1> QED BY <1>1, UsageInvariant, HistoryInvariant, PTL
=============================================================================
