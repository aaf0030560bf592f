---------------------------- MODULE MetricsProofs ----------------------------
(***************************************************************************)
(* Proofs about MetricsStore, for any number of requests, minutes and      *)
(* lives, and any limits of the queue, the batch and the panel.            *)
(***************************************************************************)
EXTENDS MetricsStore, SortedSeqsProofs

-----------------------------------------------------------------------------
\* The inductive invariant, part by part.

\* Time and lives go forward, and so does the log.
LogOrdered ==
  /\ \A i, j \in DOMAIN log :
       i <= j => log[i].minute <= log[j].minute /\ log[i].life <= log[j].life
  /\ \A i \in DOMAIN log : log[i].minute <= minute /\ log[i].life <= lives

\* Where the writer is tells if it holds a batch.
BatchInHand == (batch # <<>>) <=> (writer \in {"fill", "write"})

\* Nothing in memory outlives its process.
EmptyWhenDown ==
  ~alive => /\ pending = 0 /\ toFlush = {} /\ queue = <<>> /\ batch = <<>> /\ writer = "get"
            /\ bucket = [m \in Minutes |-> {}] /\ flushed = {}

\* Only minutes that are over are flushed or in the table, and none to come has a bucket.
PastOnly ==
  \A m \in Minutes :
    /\ disk[m] # {} \/ m \in flushed => m < minute
    /\ m > minute => bucket[m] = {}

\* A bucket that is not flushed is all its minute got in this life, and the last minute
\* with a request of this life is one.
OpenBuckets ==
  alive => \A m \in Minutes :
    /\ bucket[m] # {} /\ m \notin flushed => bucket[m] = Recorded(m, lives)
    /\ Recorded(m, lives) # {} /\ (\A later \in Minutes : later > m => Recorded(later, lives) = {})
         => bucket[m] # {} /\ m \notin flushed

\* What is on its way to the table is a whole minute that is over.
WholeFlushes ==
  \A b \in toFlush : b[1] < minute /\ b[2] # {} /\ b[2] = Recorded(b[1], lives)

-----------------------------------------------------------------------------
\* Types.

LEMMA SubSeqFrom ==
  ASSUME NEW S, NEW s \in Seq(S), NEW k \in 0..Len(s)
  PROVE  /\ SubSeq(s, k + 1, Len(s)) \in Seq(S)
         /\ Len(SubSeq(s, k + 1, Len(s))) = Len(s) - k
         /\ \A i \in 1..(Len(s) - k) : SubSeq(s, k + 1, Len(s))[i] = s[i + k]
OBVIOUS

LEMMA LastNFacts ==
  ASSUME NEW S, NEW s \in Seq(S), NEW n \in Nat
  PROVE  /\ LastN(s, n) \in Seq(S)
         /\ Len(LastN(s, n)) = IF Len(s) > n THEN n ELSE Len(s)
         /\ \A i \in 1..Len(LastN(s, n)) : LastN(s, n)[i] = s[i + (Len(s) - Len(LastN(s, n)))]
<1>1. Len(s) \in Nat
  OBVIOUS
<1>2. CASE Len(s) > n
  <2>1. LastN(s, n) = SubSeq(s, Len(s) - n + 1, Len(s)) /\ Len(s) - n + 1 \in 1..(Len(s) + 1)
    BY <1>1, <1>2 DEF LastN
  <2>2. Len(s) - n \in 0..Len(s) /\ Len(s) - (Len(s) - n + 1) + 1 = n
    BY <1>1, <1>2
  <2> QED BY <2>1, <2>2, <1>2, SubSeqFrom
<1>3. CASE ~(Len(s) > n)
  <2>1. LastN(s, n) = SubSeq(s, 1, Len(s))
    BY <1>3 DEF LastN
  <2>2. LastN(s, n) = s
    BY <2>1, <1>1
  <2> QED BY <2>2, <1>3, <1>1
<1> QED BY <1>2, <1>3

\* The newest of a set of requests are as many as asked for at most, and downwards of
\* one that is among them there are no gaps.
LEMMA NewestFacts ==
  ASSUME NEW S \in SUBSET Nat, IsFiniteSet(S), NEW n \in Nat
  PROVE  /\ Newest(S, n) \subseteq S /\ IsFiniteSet(Newest(S, n))
         /\ Cardinality(Newest(S, n)) <= n
         /\ \A i \in Newest(S, n), j \in S : j > i => j \in Newest(S, n)
<1> DEFINE N == Newest(S, n)
           c == Cardinality(N)
           r == Ascending(N)
<1>1. N \subseteq S /\ IsFiniteSet(N)
  BY FS_Subset DEF Newest
<1>2. ASSUME NEW i \in N, NEW j \in S, j > i PROVE j \in N
  <2>0. i \in Nat /\ j \in Nat /\ j > i
    BY <1>1, <1>2
  <2>1. {k \in S : k > j} \subseteq {k \in S : k > i} /\ IsFiniteSet({k \in S : k > i})
    <3> HIDE DEF N
    <3>1. \A k \in S : k > j => k > i
      <4> TAKE k \in S
      <4>1. k \in Nat
        OBVIOUS
      <4> QED BY <4>1, <2>0
    <3>2. {k \in S : k > i} \in SUBSET S
      OBVIOUS
    <3>3. {k \in S : k > j} \subseteq {k \in S : k > i}
      BY <3>1
    <3> QED BY <3>2, <3>3, FS_Subset
  <2>2. Cardinality({k \in S : k > j}) <= Cardinality({k \in S : k > i})
    BY <2>1, FS_Subset
  <2>3. /\ Cardinality({k \in S : k > j}) \in Nat
        /\ Cardinality({k \in S : k > i}) \in Nat
    BY <2>1, FS_Subset, FS_CardinalityType
  <2>4. Cardinality({k \in S : k > i}) < n
    BY DEF Newest
  <2>5. Cardinality({k \in S : k > j}) < n
    BY <2>2, <2>3, <2>4
  <2> QED BY <2>5 DEF Newest
<1>3. c \in Nat
  BY <1>1, FS_CardinalityType
<1>4. ASSUME c > n PROVE FALSE
  <2>1. Lists(r, N)
    BY <1>1, AscendingLists
  <2>2. r \in [1..c -> Nat] /\ r \in [1..c -> N] /\ \A i, j \in 1..c : i < j => r[i] < r[j]
    BY <2>1, <1>1 DEF Lists
  <2>3. 1 \in 0..c /\ 1 \in 1..c
    BY <1>3, <1>4
  <2> DEFINE T == {r[i] : i \in (1 + 1)..c}
  <2>4. IsFiniteSet(T) /\ Cardinality(T) = c - 1
    <3> HIDE DEF r, c
    <3> QED BY <1>3, <2>2, <2>3, CountBehind
  <2>5. T \subseteq {k \in S : k > r[1]}
    <3> HIDE DEF r, c, N
    <3> QED BY <1>3, <2>2, <2>3, <1>1
  <2>6. IsFiniteSet({k \in S : k > r[1]})
    BY FS_Subset
  <2>7. c - 1 <= Cardinality({k \in S : k > r[1]}) /\ Cardinality({k \in S : k > r[1]}) \in Nat
    <3> HIDE DEF T, c
    <3> QED BY <2>4, <2>5, <2>6, FS_Subset, FS_CardinalityType
  <2>8. r[1] \in N
    BY <2>2, <2>3
  <2>9. Cardinality({k \in S : k > r[1]}) < n
    <3> HIDE DEF r
    <3> QED BY <2>8 DEF Newest
  <2> QED
    <3> HIDE DEF c, r
    <3> QED BY <2>7, <2>9, <1>3, <1>4
<1> HIDE DEF c
<1>5. c <= n
  BY <1>3, <1>4
<1> QED BY <1>1, <1>2, <1>5 DEF c

LEMMA RequestsAreFinite ==
  /\ Requests \subseteq Nat /\ IsFiniteSet(Requests) /\ MaxRequests \in Nat
  /\ \A S : S \subseteq Requests => IsFiniteSet(S)
<1>1. Requests \subseteq Nat /\ IsFiniteSet(Requests) /\ MaxRequests \in Nat
  BY StoreAssumption, FS_Interval DEF Requests
<1> QED BY <1>1, FS_Subset

LEMMA ToSetOfRequests ==
  ASSUME NEW s \in Seq(Requests)
  PROVE  ToSet(s) \subseteq Requests
BY ToSetFacts

\* What the panel is loaded with.
LEMMA LoadedFacts ==
  ASSUME rows \in Seq(Requests)
  PROVE  /\ LoadedRecent \in Seq(Requests) /\ Len(LoadedRecent) <= MaxRecent
         /\ Increasing(LoadedRecent)
         /\ ToSet(LoadedRecent) = Newest(ToSet(rows), MaxRecent)
<1> DEFINE N == Newest(ToSet(rows), MaxRecent)
           c == Cardinality(N)
<1>1. N \subseteq Requests /\ IsFiniteSet(N) /\ c <= MaxRecent
  BY ToSetOfRequests, RequestsAreFinite, NewestFacts, StoreAssumption
<1>2. Lists(LoadedRecent, N)
  BY <1>1, RequestsAreFinite, AscendingLists DEF LoadedRecent
<1>3. c \in Nat
  BY <1>1, FS_CardinalityType
<1>4. /\ LoadedRecent \in [1..c -> N]
      /\ \A i, j \in 1..c : i < j => LoadedRecent[i] < LoadedRecent[j]
      /\ \A x \in N : \E i \in 1..c : LoadedRecent[i] = x
  BY <1>2 DEF Lists
<1> HIDE DEF N, c
<1>5. LoadedRecent \in Seq(Requests) /\ Len(LoadedRecent) = c /\ DOMAIN LoadedRecent = 1..c
  BY <1>1, <1>3, <1>4
<1>6. Increasing(LoadedRecent)
  BY <1>4, <1>5, IncreasingMeans
<1>7. ToSet(LoadedRecent) = N
  BY <1>4, <1>5 DEF ToSet
<1> QED BY <1>1, <1>5, <1>6, <1>7 DEF N

LEMMA SeqOfSubset ==
  ASSUME NEW S, NEW T, S \subseteq T
  PROVE  \A s \in Seq(S) : s \in Seq(T)
OBVIOUS

LEMMA TypeInit == Init => TypeOK
<1> SUFFICES ASSUME Init PROVE TypeOK
  OBVIOUS
<1>1. 0 \in Minutes /\ 1 \in 1..MaxLives
  BY StoreAssumption DEF Minutes
<1> QED BY <1>1, StoreAssumption DEF Init, TypeOK

\* record_request's locked section.
LEMMA RecordType ==
  ASSUME TypeOK, Record
  PROVE  TypeOK'
<1> DEFINE id == Len(log) + 1
<1>1. /\ id \in Requests /\ minute \in Minutes
      /\ [minute |-> minute, life |-> lives] \in [minute : Minutes, life : 1..MaxLives]
  BY DEF Record, TypeOK
<1>2. log' \in Seq([minute : Minutes, life : 1..MaxLives])
  BY <1>1 DEF Record, TypeOK
<1>3. bucket' \in [Minutes -> SUBSET Requests]
  <2>1. PICK K : bucket' = [m \in Minutes |-> IF m = minute THEN bucket[m] \union {id}
                                              ELSE IF m \in K THEN bucket[m] ELSE {}]
    BY Zenon DEF Record
  <2> HIDE DEF id
  <2>2. \A m \in Minutes : bucket[m] \subseteq Requests
    BY DEF TypeOK
  <2> QED BY <2>1, <2>2, <1>1
<1>4. flushed' \subseteq Minutes
  BY <1>1 DEF Record, TypeOK, Kept, Closed
<1>5. recent' \in Seq(Requests) /\ Len(recent') <= MaxRecent
  <2>1. Append(recent, id) \in Seq(Requests) /\ recent' = LastN(Append(recent, id), MaxRecent)
    BY <1>1 DEF Record, TypeOK
  <2>2. MaxRecent \in Nat /\ Len(Append(recent, id)) \in Nat
    BY <2>1, StoreAssumption
  <2>3. /\ LastN(Append(recent, id), MaxRecent) \in Seq(Requests)
        /\ Len(LastN(Append(recent, id), MaxRecent))
             = IF Len(Append(recent, id)) > MaxRecent THEN MaxRecent ELSE Len(Append(recent, id))
    BY <2>1, <2>2, LastNFacts
  <2> HIDE DEF id
  <2> QED BY <2>1, <2>2, <2>3
<1>6. toFlush' \subseteq Minutes \X SUBSET Requests
  <2>1. PICK C : C \subseteq Minutes /\ toFlush' = {<<c, bucket'[c] \union bucket[c]>> : c \in C}
    BY DEF Record, Closed
  <2> QED BY <2>1, <1>3 DEF TypeOK
<1>7. pending' \in {0} \union Requests
  BY <1>1 DEF Record
<1> QED BY <1>2, <1>3, <1>4, <1>5, <1>6, <1>7 DEF Record, TypeOK, thread, store

LEMMA StartType ==
  ASSUME TypeOK, Start
  PROVE  TypeOK'
<1>1. recent' \in Seq(Requests) /\ Len(recent') <= MaxRecent
  <2>1. LoadedRecent \in Seq(Requests) /\ Len(LoadedRecent) <= MaxRecent
    BY LoadedFacts DEF TypeOK
  <2>2. recent' = LoadedRecent \/ recent' = <<>>
    BY DEF Start
  <2>3. <<>> \in Seq(Requests) /\ Len(<<>>) = 0 /\ MaxRecent \in Nat
    BY EmptyFacts, StoreAssumption
  <2>4. CASE recent' = LoadedRecent
    <3> HIDE DEF LoadedRecent
    <3> QED BY <2>1, <2>4
  <2>5. CASE recent' = <<>>
    <3>1. recent' \in Seq(Requests) /\ Len(recent') = 0
      BY <2>3, <2>5
    <3> QED BY <2>3, <3>1
  <2> QED BY <2>2, <2>4, <2>5
<1>2. bucket' \in [Minutes -> SUBSET Requests] /\ flushed' \subseteq Minutes
  BY DEF Start, TypeOK, LoadedBucket
<1>3. lives' \in 1..MaxLives
  BY StoreAssumption DEF Start, TypeOK
<1> QED BY <1>1, <1>2, <1>3 DEF Start, TypeOK, recorder, thread, store

\* Reading the queue: what TakeFirst and TakeMore do to it.
LEMMA HeadTail ==
  ASSUME NEW S, NEW s \in Seq(S), s # <<>>
  PROVE  /\ Head(s) \in S /\ Tail(s) \in Seq(S) /\ Len(Tail(s)) = Len(s) - 1
         /\ s = <<Head(s)>> \o Tail(s) /\ Len(s) \in Nat \ {0}
OBVIOUS

LEMMA WriterType ==
  ASSUME TypeOK, BatchInHand, Writer
  PROVE  TypeOK'
<1>0. BatchSize \in Nat \ {0} /\ MaxQueue \in Nat
  BY StoreAssumption
<1>1. CASE TakeFirst
  <2>1. Head(queue) \in Requests /\ Tail(queue) \in Seq(Requests) /\ Len(Tail(queue)) = Len(queue) - 1
    BY <1>1 DEF TakeFirst, TypeOK
  <2>2. queue' \in Seq(Requests) /\ Len(queue') <= MaxQueue
    BY <1>1, <2>1, <1>0 DEF TakeFirst, TypeOK
  <2>3. batch' \in Seq(Requests) /\ Len(batch') <= BatchSize
    BY <1>1, <2>1, <1>0 DEF TakeFirst
  <2> QED BY <1>1, <2>2, <2>3 DEF TakeFirst, TypeOK, memory, recorder, store, history
<1>2. CASE TakeMore
  <2>1. CASE queue' = Tail(queue) /\ queue # <<>> /\ batch' = Append(batch, Head(queue))
             /\ Len(batch) < BatchSize /\ writer' = writer
    <3>1. Head(queue) \in Requests /\ Tail(queue) \in Seq(Requests) /\ Len(Tail(queue)) = Len(queue) - 1
      BY <2>1 DEF TypeOK
    <3>2. queue' \in Seq(Requests) /\ Len(queue') <= MaxQueue
      BY <2>1, <3>1, <1>0 DEF TypeOK
    <3>3. batch \in Seq(Requests)
      BY DEF TypeOK
    <3>4. batch' \in Seq(Requests) /\ Len(batch') = Len(batch) + 1
      BY <2>1, <3>1, <3>3
    <3>5. Len(batch') <= BatchSize
      BY <3>3, <3>4, <2>1, <1>0
    <3> QED
      BY <1>2, <2>1, <3>2, <3>4, <3>5 DEF TakeMore, TypeOK, memory, recorder, store, history
  <2>2. CASE writer' = "write" /\ queue' = queue /\ batch' = batch
    BY <1>2, <2>2 DEF TakeMore, TypeOK, memory, recorder, store, history
  <2> QED BY <1>2, <2>1, <2>2, Zenon DEF TakeMore
<1>3. CASE WriteRow
  <2>0. batch # <<>>
    BY <1>3 DEF BatchInHand, WriteRow
  <2>1. Head(batch) \in Requests /\ Tail(batch) \in Seq(Requests) /\ Len(Tail(batch)) = Len(batch) - 1
    BY <2>0 DEF TypeOK
  <2>2. rows' \in Seq(Requests) /\ batch' \in Seq(Requests) /\ Len(batch') <= BatchSize
    BY <1>3, <2>1, <1>0 DEF WriteRow, TypeOK
  <2> QED BY <1>3, <2>2 DEF WriteRow, TypeOK, memory, recorder, history
<1>4. CASE WriteFails \/ WriterDies
  <2>0. ToSet(batch) \subseteq Requests
    BY ToSetOfRequests DEF TypeOK
  <2>1. lost' \subseteq Requests /\ batch' = <<>> /\ writer' \in {"get", "dead"}
    BY <1>4, <2>0 DEF WriteFails, WriterDies, TypeOK
  <2>2. batch' \in Seq(Requests) /\ Len(batch') <= BatchSize
    BY <2>1, <1>0
  <2>3. UNCHANGED <<minute, alive, memory, recorder, queue, store, dropped, log, lives, unsaved>>
    BY <1>4 DEF WriteFails, WriterDies
  <2> QED BY <2>1, <2>2, <2>3 DEF TypeOK, memory, recorder, store
<1> QED BY <1>1, <1>2, <1>3, <1>4 DEF Writer

LEMMA StopType ==
  ASSUME TypeOK, Stop
  PROVE  TypeOK'
<1>1. ToSet(queue) \subseteq Requests /\ ToSet(batch) \subseteq Requests
  BY ToSetOfRequests DEF TypeOK
<1>2. lost' \subseteq Requests
  BY <1>1 DEF Stop, TypeOK
<1>3. unsaved' \subseteq Minutes
  BY DEF Stop, TypeOK
<1>4. <<>> \in Seq(Requests) /\ Len(<<>>) = 0 /\ MaxQueue \in Nat /\ BatchSize \in Nat /\ MaxRecent \in Nat
  BY EmptyFacts, StoreAssumption
<1>5. /\ minute' = minute /\ alive' = FALSE /\ rows' = rows /\ disk' = disk /\ dropped' = dropped
      /\ log' = log /\ lives' = lives /\ pending' = 0 /\ toFlush' = {} /\ writer' = "get"
      /\ queue' = <<>> /\ batch' = <<>> /\ recent' = <<>>
      /\ bucket' = [m \in Minutes |-> {}] /\ flushed' = {}
  BY DEF Stop, store
<1>6. queue' \in Seq(Requests) /\ batch' \in Seq(Requests) /\ recent' \in Seq(Requests)
  BY <1>4, <1>5
<1>7. Len(queue') <= MaxQueue /\ Len(batch') <= BatchSize /\ Len(recent') <= MaxRecent
  BY <1>4, <1>5
<1>8. bucket' \in [Minutes -> SUBSET Requests]
  BY <1>5
<1> QED BY <1>2, <1>3, <1>5, <1>6, <1>7, <1>8 DEF TypeOK

LEMMA OtherTypes ==
  ASSUME TypeOK, Tick \/ Enqueue \/ \E b \in toFlush : Persist(b)
  PROVE  TypeOK'
<1>1. CASE Tick
  BY <1>1, StoreAssumption
  DEF Tick, TypeOK, Minutes, memory, recorder, thread, store, history
<1>2. CASE Enqueue
  <2>1. pending \in Requests /\ queue \in Seq(Requests) /\ MaxQueue \in Nat
    BY <1>2, StoreAssumption DEF Enqueue, TypeOK
  <2>2. queue' \in Seq(Requests) /\ Len(queue') <= MaxQueue
    <3>1. CASE queue' = Append(queue, pending) /\ Len(queue) < MaxQueue
      <4>1. queue' \in Seq(Requests) /\ Len(queue') = Len(queue) + 1 /\ Len(queue) \in Nat
        BY <3>1, <2>1
      <4> QED BY <4>1, <3>1, <2>1
    <3>2. CASE queue' = queue
      BY <3>2 DEF TypeOK
    <3> QED BY <1>2, <3>1, <3>2 DEF Enqueue
  <2>3. dropped' \subseteq Requests
    BY <1>2, <2>1 DEF Enqueue, TypeOK
  <2> QED BY <1>2, <2>2, <2>3 DEF Enqueue, TypeOK, memory, store, history
<1>3. ASSUME NEW b \in toFlush, Persist(b) PROVE TypeOK'
  <2>1. b[1] \in Minutes /\ b[2] \subseteq Requests
    BY DEF TypeOK
  <2> QED BY <1>3, <2>1 DEF Persist, TypeOK, memory, thread
<1> QED BY <1>1, <1>2, <1>3

LEMMA TypeStep ==
  ASSUME TypeOK, BatchInHand, [Next]_vars
  PROVE  TypeOK'
<1>1. CASE UNCHANGED vars
  BY <1>1 DEF vars, TypeOK, memory, recorder, thread, store, history
<1> QED BY <1>1, RecordType, StartType, WriterType, StopType, OtherTypes DEF Next

\* _loop has a batch exactly between its get() and its write.
LEMMA BatchStep ==
  ASSUME TypeOK, BatchInHand, [Next]_vars
  PROVE  BatchInHand'
<1>1. ASSUME batch' = batch, writer' = writer PROVE BatchInHand'
  BY <1>1 DEF BatchInHand
<1>2. CASE TakeFirst
  BY <1>2 DEF TakeFirst, BatchInHand
<1>3. CASE TakeMore
  <2>1. writer = "fill" /\ batch # <<>>
    BY <1>3 DEF TakeMore, BatchInHand
  <2>2. batch' # <<>> /\ writer' \in {"fill", "write"}
    BY <1>3, <2>1 DEF TakeMore, TypeOK
  <2> QED BY <2>2 DEF BatchInHand
<1>4. CASE WriteRow
  <2>1. writer = "write" /\ batch # <<>> /\ batch \in Seq(Requests)
    BY <1>4 DEF WriteRow, BatchInHand, TypeOK
  <2>2. /\ batch' = Tail(batch) /\ writer' = IF Len(batch) = 1 THEN "get" ELSE "write"
    BY <1>4 DEF WriteRow
  <2>3. Tail(batch) \in Seq(Requests) /\ Len(Tail(batch)) = Len(batch) - 1 /\ Len(batch) \in Nat
    BY <2>1
  <2>4. Tail(batch) = <<>> <=> Len(batch) = 1
    <3>1. Tail(batch) = <<>> <=> Len(Tail(batch)) = 0
      BY <2>3, EmptyFacts
    <3> QED BY <2>3, <3>1
  <2> QED BY <2>2, <2>4 DEF BatchInHand
<1>5. CASE WriteFails \/ WriterDies \/ Stop
  BY <1>5 DEF WriteFails, WriterDies, Stop, BatchInHand
<1>6. CASE UNCHANGED vars \/ Tick \/ Record \/ Enqueue \/ Start \/ \E b \in toFlush : Persist(b)
  BY <1>6, <1>1 DEF vars, Tick, Record, Enqueue, Start, Persist, thread
<1> QED BY <1>2, <1>3, <1>4, <1>5, <1>6 DEF Next, Writer

-----------------------------------------------------------------------------
\* Minutes: buckets, flushes and the table of buckets.

LEMMA LogFacts ==
  ASSUME TypeOK
  PROVE  /\ Len(log) \in Nat /\ DOMAIN log = 1..Len(log) /\ minute \in Nat /\ lives \in Nat
         /\ Minutes \subseteq Nat
         /\ \A i \in DOMAIN log : log[i].minute \in Minutes /\ log[i].life \in 1..MaxLives
<1>1. minute \in Nat /\ lives \in Nat /\ Minutes \subseteq Nat
  BY StoreAssumption DEF TypeOK, Minutes
<1> DEFINE R == [minute : Minutes, life : 1..MaxLives]
<1>2. log \in Seq(R)
  BY DEF TypeOK
<1>3. \A e \in R : e.minute \in Minutes /\ e.life \in 1..MaxLives
  OBVIOUS
<1> HIDE DEF R
<1>4. Len(log) \in Nat /\ DOMAIN log = 1..Len(log) /\ \A i \in DOMAIN log : log[i] \in R
  BY <1>2
<1> QED BY <1>1, <1>3, <1>4

\* The log after record_request.
LEMMA LogAppended ==
  ASSUME TypeOK, Record
  PROVE  /\ DOMAIN log' = (DOMAIN log) \union {Len(log) + 1} /\ Len(log) + 1 \notin DOMAIN log
         /\ \A i \in DOMAIN log : i < Len(log) + 1 /\ log'[i] = log[i]
         /\ log'[Len(log) + 1] = [minute |-> minute, life |-> lives]
<1>1. /\ log \in Seq([minute : Minutes, life : 1..MaxLives])
      /\ log' = Append(log, [minute |-> minute, life |-> lives])
      /\ [minute |-> minute, life |-> lives] \in [minute : Minutes, life : 1..MaxLives]
  BY DEF TypeOK, Record
<1> QED BY <1>1

\* Recorded(m, l)', for an m and an l that may themselves change.
RecordedNext(m, l) == {i \in DOMAIN log' : log'[i].minute = m /\ log'[i].life = l}

LEMMA RecordedStep ==
  ASSUME TypeOK, Record
  PROVE  /\ \A m, l : m # minute \/ l # lives => RecordedNext(m, l) = Recorded(m, l)
         /\ RecordedNext(minute, lives) = Recorded(minute, lives) \union {Len(log) + 1}
<1> DEFINE n == Len(log) + 1
<1>1. /\ DOMAIN log' = (DOMAIN log) \union {n} /\ n \notin DOMAIN log
      /\ \A i \in DOMAIN log : log'[i] = log[i]
      /\ log'[n].minute = minute /\ log'[n].life = lives
  BY LogAppended
<1> HIDE DEF n
<1>2. \A m, l : m # minute \/ l # lives => RecordedNext(m, l) = Recorded(m, l)
  BY <1>1 DEF Recorded, RecordedNext
<1>3. RecordedNext(minute, lives) = Recorded(minute, lives) \union {n}
  BY <1>1 DEF Recorded, RecordedNext
<1> QED BY <1>2, <1>3 DEF n

LEMMA RecordedSame ==
  ASSUME log' = log, NEW m, NEW l
  PROVE  Recorded(m, l)' = Recorded(m, l)
BY DEF Recorded

LEMMA LogOrderStep ==
  ASSUME TypeOK, LogOrdered, Next
  PROVE  LogOrdered'
<1>0. lives \in Nat /\ minute \in Nat /\ \A i \in DOMAIN log :
           log[i].minute \in Nat /\ log[i].life \in Nat /\ i \in Nat
  BY LogFacts
<1>1. CASE Record
  <2>1. /\ DOMAIN log' = (DOMAIN log) \union {Len(log) + 1} /\ Len(log) + 1 \notin DOMAIN log
        /\ \A i \in DOMAIN log : i < Len(log) + 1 /\ log'[i] = log[i]
        /\ log'[Len(log) + 1].minute = minute /\ log'[Len(log) + 1].life = lives
        /\ minute' = minute /\ lives' = lives /\ Len(log) \in Nat
    BY <1>1, LogAppended, LogFacts DEF Record
  <2> DEFINE n == Len(log) + 1
  <2> HIDE DEF n
  <2>2. /\ DOMAIN log' = (DOMAIN log) \union {n} /\ n \in Nat
        /\ \A i \in DOMAIN log : i < n /\ log'[i] = log[i]
        /\ log'[n].minute = minute /\ log'[n].life = lives
    BY <2>1 DEF n
  <2>3. \A i \in DOMAIN log' : log'[i].minute <= minute /\ log'[i].life <= lives
    BY <2>2, <1>0 DEF LogOrdered
  <2>4. ASSUME NEW i \in DOMAIN log', NEW j \in DOMAIN log', i <= j
        PROVE  log'[i].minute <= log'[j].minute /\ log'[i].life <= log'[j].life
    <3>1. CASE j = n
      BY <3>1, <2>2, <2>3
    <3>2. CASE j \in DOMAIN log /\ i = n
      BY <3>2, <2>2, <2>4, <1>0
    <3>3. CASE j \in DOMAIN log /\ i \in DOMAIN log
      BY <3>3, <2>2, <2>4 DEF LogOrdered
    <3> QED BY <3>1, <3>2, <3>3, <2>2
  <2> QED BY <2>1, <2>3, <2>4 DEF LogOrdered
<1>2. CASE log' = log /\ minute' \in {minute, minute + 1} /\ lives' \in {lives, lives + 1}
  BY <1>2, <1>0 DEF LogOrdered
<1>3. Next /\ ~Record => log' = log /\ minute' \in {minute, minute + 1} /\ lives' \in {lives, lives + 1}
  BY DEF Next, Tick, Enqueue, Persist, Writer, TakeFirst, TakeMore, WriteRow, WriteFails, WriterDies,
         Stop, Start, history
<1> QED BY <1>1, <1>2, <1>3

LEMMA EmptyStep ==
  ASSUME TypeOK, EmptyWhenDown, Next
  PROVE  EmptyWhenDown'
BY DEF EmptyWhenDown, Next, Tick, Record, Enqueue, Persist, Writer, TakeFirst, TakeMore, WriteRow,
       WriteFails, WriterDies, Stop, Start, memory, recorder, thread

MinuteInv ==
  TypeOK /\ LogOrdered /\ EmptyWhenDown /\ PastOnly /\ OpenBuckets /\ WholeFlushes
  /\ DiskMinutesWhole /\ ClosedMinutesOnDisk

\* A life has recorded nothing in a minute to come, and a life to come nothing at all.
LEMMA NothingToCome ==
  ASSUME TypeOK, LogOrdered
  PROVE  /\ \A m \in Minutes, l \in Nat : m > minute => Recorded(m, l) = {}
         /\ \A m : Recorded(m, lives + 1) = {}
BY LogFacts DEF LogOrdered, Recorded

\* record_request in a minute that has no bucket yet, and in one that has.
LEMMA OpensMeans ==
  ASSUME MinuteInv, alive
  PROVE  /\ minute \in Minutes /\ minute \notin flushed /\ disk[minute] = {}
         /\ bucket[minute] = Recorded(minute, lives)
<1>1. minute \in Minutes /\ minute \in Nat
  BY LogFacts DEF MinuteInv, TypeOK
<1>2. minute \notin flushed /\ disk[minute] = {}
  BY <1>1 DEF MinuteInv, PastOnly
<1>3. \A later \in Minutes : later > minute => Recorded(later, lives) = {}
  BY NothingToCome, LogFacts DEF MinuteInv
<1>4. bucket[minute] = {} => Recorded(minute, lives) = {}
  BY <1>1, <1>3 DEF MinuteInv, OpenBuckets
<1>5. bucket[minute] # {} => bucket[minute] = Recorded(minute, lives)
  BY <1>1, <1>2 DEF MinuteInv, OpenBuckets
<1> QED BY <1>1, <1>2, <1>4, <1>5

LEMMA RecordMinutes ==
  ASSUME MinuteInv, Record
  PROVE  PastOnly' /\ OpenBuckets' /\ WholeFlushes' /\ DiskMinutesWhole' /\ ClosedMinutesOnDisk'
<1> DEFINE id == Len(log) + 1
           opens == bucket[minute] = {}
           closed == IF opens THEN Closed(minute) ELSE {}
           kept == IF opens THEN Kept(minute) ELSE Minutes
<1>1. /\ alive /\ pending = 0 /\ toFlush = {}
      /\ bucket' = [m \in Minutes |-> IF m = minute THEN bucket[m] \union {id}
                                      ELSE IF m \in kept THEN bucket[m] ELSE {}]
      /\ flushed' = (flushed \union closed) \intersect kept
      /\ toFlush' = {<<c, bucket'[c] \union bucket[c]>> : c \in closed}
      /\ minute' = minute /\ alive' = alive /\ disk' = disk /\ lives' = lives /\ unsaved' = unsaved
  BY Zenon DEF Record, store
<1>2. TypeOK /\ minute \in Nat /\ Minutes \subseteq Nat /\ lives \in Nat /\ lives \in 1..MaxLives
  BY LogFacts DEF MinuteInv, TypeOK
<1>3. /\ minute \in Minutes /\ minute \notin flushed /\ disk[minute] = {}
      /\ bucket[minute] = Recorded(minute, lives)
  BY <1>1, OpensMeans
<1>4. /\ \A m \in Minutes : m # minute => bucket'[m] \in {bucket[m], {}}
      /\ \A m \in Minutes : m # minute /\ bucket'[m] # {} => bucket'[m] = bucket[m] /\ m \in kept
      /\ bucket'[minute] = bucket[minute] \union {id}
  BY <1>1, <1>3
<1>5. closed \subseteq Minutes /\ \A c \in closed : c < minute /\ bucket[c] # {} /\ c \notin flushed
  BY DEF Closed
<1>6. /\ \A m, l : m # minute \/ l # lives => RecordedNext(m, l) = Recorded(m, l)
      /\ RecordedNext(minute, lives) = Recorded(minute, lives) \union {id}
  BY <1>2, RecordedStep
<1>7. /\ \A m \in Minutes, l \in Nat : m > minute => Recorded(m, l) = {}
  BY NothingToCome DEF MinuteInv
<1>8. /\ closed = IF opens THEN {c \in Minutes : c < minute /\ bucket[c] # {} /\ c \notin flushed} ELSE {}
  BY DEF Closed
<1> HIDE DEF id, opens, closed, kept
<1>9. PastOnly'
  <2> SUFFICES ASSUME NEW m \in Minutes
               PROVE  /\ disk'[m] # {} \/ m \in flushed' => m < minute'
                      /\ m > minute' => bucket'[m] = {}
    BY DEF PastOnly
  <2>1. /\ disk[m] # {} \/ m \in flushed => m < minute
        /\ m > minute => bucket[m] = {}
    BY DEF MinuteInv, PastOnly
  <2> QED BY <2>1, <1>1, <1>2, <1>4, <1>5
<1>10. OpenBuckets'
  <2> SUFFICES ASSUME NEW m \in Minutes
               PROVE  /\ bucket'[m] # {} /\ m \notin flushed' => bucket'[m] = RecordedNext(m, lives)
                      /\ RecordedNext(m, lives) # {}
                           /\ (\A later \in Minutes : later > m => RecordedNext(later, lives) = {})
                         => bucket'[m] # {} /\ m \notin flushed'
    BY <1>1 DEF OpenBuckets, Recorded, RecordedNext
  <2>1. CASE m = minute
    BY <2>1, <1>1, <1>3, <1>4, <1>5, <1>6, <1>2
  <2>2. CASE m > minute
    <3>1. RecordedNext(m, lives) = {} /\ bucket'[m] = {}
      BY <2>2, <1>2, <1>4, <1>6, <1>7 DEF MinuteInv, PastOnly
    <3> QED BY <3>1
  <2>3. CASE m < minute
    <3>1. m # minute /\ RecordedNext(minute, lives) # {} /\ m \in Nat
      BY <2>3, <1>6, <1>2
    <3>2. ~(\A later \in Minutes : later > m => RecordedNext(later, lives) = {})
      BY <3>1, <2>3, <1>3, <1>2
    <3>3. ASSUME bucket'[m] # {}, m \notin flushed' PROVE bucket'[m] = RecordedNext(m, lives)
      <4>1. bucket[m] # {} /\ m \notin flushed /\ bucket'[m] = bucket[m]
        BY <3>1, <3>3, <1>4, <1>1
      <4>2. bucket[m] = Recorded(m, lives)
        BY <4>1, <1>1 DEF MinuteInv, OpenBuckets
      <4> QED BY <4>1, <4>2, <3>1, <1>6
    <3> QED BY <3>2, <3>3
  <2> QED BY <2>1, <2>2, <2>3, <1>2
<1>11. WholeFlushes'
  <2> SUFFICES ASSUME NEW b \in toFlush'
               PROVE  b[1] < minute' /\ b[2] # {} /\ b[2] = RecordedNext(b[1], lives)
    BY <1>1 DEF WholeFlushes, Recorded, RecordedNext
  <2>1. PICK c \in closed : b = <<c, bucket'[c] \union bucket[c]>>
    BY <1>1
  <2>2. c \in Minutes /\ c < minute /\ bucket[c] # {} /\ c \notin flushed /\ c \in Nat
    BY <1>5, <1>2
  <2>3. bucket[c] = Recorded(c, lives) /\ c # minute
    BY <2>2, <1>1, <1>2 DEF MinuteInv, OpenBuckets
  <2>4. bucket'[c] \union bucket[c] = Recorded(c, lives)
    BY <2>2, <2>3, <1>4
  <2>5. RecordedNext(c, lives) = Recorded(c, lives)
    BY <2>3, <1>6
  <2> QED BY <2>1, <2>2, <2>3, <2>4, <2>5, <1>1
<1>12. DiskMinutesWhole'
  <2> SUFFICES ASSUME NEW m \in Minutes, disk'[m] # {}
               PROVE  \E l \in 1..lives' : disk'[m] = RecordedNext(m, l)
    BY DEF DiskMinutesWhole, Recorded, RecordedNext
  <2>1. m # minute /\ disk[m] # {}
    BY <1>1, <1>3
  <2>2. PICK l \in 1..lives : disk[m] = Recorded(m, l)
    BY <2>1 DEF MinuteInv, DiskMinutesWhole
  <2>3. RecordedNext(m, l) = Recorded(m, l)
    BY <2>1, <1>6
  <2> QED BY <2>2, <2>3, <1>1
<1>13. ClosedMinutesOnDisk'
  <2> SUFFICES ASSUME NEW m \in Minutes, NEW l \in 1..lives', RecordedNext(m, l) # {},
                      NEW later \in Minutes, later > m, RecordedNext(later, l) # {},
                      m \notin unsaved', \A b \in toFlush' : b[1] # m
               PROVE  disk'[m] = RecordedNext(m, l)
    BY DEF ClosedMinutesOnDisk, Recorded, RecordedNext
  <2>1. m \in Nat /\ later \in Nat /\ l \in Nat /\ l \in 1..lives
    BY <1>1, <1>2
  <2>2. later <= minute
    <3>1. ASSUME later > minute PROVE FALSE
      BY <3>1, <2>1, <1>2, <1>6, <1>7
    <3> QED BY <3>1, <2>1, <1>2
  <2>3. m < minute /\ m # minute
    BY <2>1, <2>2, <1>2
  <2>4. RecordedNext(m, l) = Recorded(m, l)
    BY <2>3, <1>6
  <2>5. CASE \E x \in Minutes : x > m /\ Recorded(x, l) # {}
    <3>1. disk[m] = Recorded(m, l)
      BY <2>1, <2>4, <2>5, <1>1 DEF MinuteInv, ClosedMinutesOnDisk
    <3> QED BY <3>1, <2>4, <1>1
  <2>6. CASE ~(\E x \in Minutes : x > m /\ Recorded(x, l) # {})
    <3>1. later = minute /\ l = lives
      BY <2>6, <1>6
    <3>2. bucket[m] # {} /\ m \notin flushed
      BY <2>4, <2>6, <3>1, <1>1 DEF MinuteInv, OpenBuckets
    <3>3. opens
      BY <2>6, <3>1, <1>3 DEF opens
    <3>4. m \in closed
      BY <3>2, <3>3, <2>3, <1>8
    <3>5. <<m, bucket'[m] \union bucket[m]>> \in toFlush'
      BY <3>4, <1>1
    <3> QED BY <3>5
  <2> QED BY <2>5, <2>6
<1> QED BY <1>9, <1>10, <1>11, <1>12, <1>13

LEMMA PersistMinutes ==
  ASSUME MinuteInv, NEW b \in toFlush, Persist(b)
  PROVE  PastOnly' /\ OpenBuckets' /\ WholeFlushes' /\ DiskMinutesWhole' /\ ClosedMinutesOnDisk'
<1>1. /\ alive /\ alive' = alive /\ minute' = minute /\ log' = log /\ lives' = lives
      /\ bucket' = bucket /\ flushed' = flushed /\ toFlush' = toFlush \ {b}
      /\ \/ disk' = [disk EXCEPT ![b[1]] = b[2]] /\ unsaved' = unsaved
         \/ disk' = disk /\ unsaved' = unsaved \union {b[1]}
  BY DEF Persist, memory
<1>2. /\ b[1] \in Minutes /\ b[1] < minute /\ b[2] # {} /\ b[2] = Recorded(b[1], lives)
      /\ lives \in 1..lives /\ lives \in Nat /\ Minutes \subseteq Nat
  BY LogFacts DEF MinuteInv, WholeFlushes, TypeOK
<1>3. \A m, l : Recorded(m, l)' = Recorded(m, l)
  BY <1>1, RecordedSame
<1>4. /\ \A m \in Minutes : m # b[1] => disk'[m] = disk[m]
      /\ disk'[b[1]] \in {disk[b[1]], Recorded(b[1], lives)}
      /\ b[1] \notin unsaved' => disk'[b[1]] = Recorded(b[1], lives)
      /\ unsaved \subseteq unsaved'
  BY <1>1, <1>2 DEF MinuteInv, TypeOK
<1>5. PastOnly'
  BY <1>1, <1>2, <1>4 DEF MinuteInv, PastOnly
<1>6. OpenBuckets' /\ WholeFlushes'
  BY <1>1, <1>3 DEF MinuteInv, OpenBuckets, WholeFlushes, Recorded
<1>7. DiskMinutesWhole'
  <2> SUFFICES ASSUME NEW m \in Minutes, disk'[m] # {}
               PROVE  \E l \in 1..lives : disk'[m] = Recorded(m, l)
    BY <1>1, <1>3 DEF DiskMinutesWhole, Recorded
  <2>1. CASE disk'[m] = disk[m]
    BY <2>1 DEF MinuteInv, DiskMinutesWhole
  <2>2. CASE m = b[1] /\ disk'[m] = Recorded(m, lives)
    BY <2>2, <1>2
  <2> QED BY <2>1, <2>2, <1>4
<1>8. ClosedMinutesOnDisk'
  <2> SUFFICES ASSUME NEW m \in Minutes, NEW l \in 1..lives, Recorded(m, l) # {},
                      NEW later \in Minutes, later > m, Recorded(later, l) # {},
                      m \notin unsaved', \A x \in toFlush' : x[1] # m
               PROVE  disk'[m] = Recorded(m, l)
    BY <1>1, <1>3 DEF ClosedMinutesOnDisk, Recorded
  <2>1. CASE m # b[1]
    <3>1. m \notin unsaved /\ \A x \in toFlush : x[1] # m
      BY <2>1, <1>1, <1>4
    <3>2. disk[m] = Recorded(m, l)
      BY <3>1 DEF MinuteInv, ClosedMinutesOnDisk
    <3> QED BY <3>2, <2>1, <1>4
  <2>2. CASE m = b[1]
    <3>1. disk'[m] = Recorded(m, lives) /\ Recorded(m, lives) # {}
      BY <2>2, <1>2, <1>4
    <3>2. PICK i \in DOMAIN log, j \in DOMAIN log :
            log[i].minute = m /\ log[i].life = lives /\ log[j].minute = later /\ log[j].life = l
      BY <3>1 DEF Recorded
    <3>3. i \in Nat /\ j \in Nat /\ m \in Nat /\ later \in Nat /\ l \in Nat /\ l <= lives
      BY LogFacts, <1>2 DEF MinuteInv
    <3>4. i < j
      <4>1. j <= i => later <= m
        BY <3>2 DEF MinuteInv, LogOrdered
      <4> QED BY <4>1, <3>3
    <3>5. lives <= l
      BY <3>2, <3>3, <3>4 DEF MinuteInv, LogOrdered
    <3>6. l = lives
      BY <3>3, <3>5, <1>2
    <3> QED BY <3>1, <3>6
  <2> QED BY <2>1, <2>2
<1> QED BY <1>5, <1>6, <1>7, <1>8

LEMMA StopMinutes ==
  ASSUME MinuteInv, Stop
  PROVE  PastOnly' /\ OpenBuckets' /\ WholeFlushes' /\ DiskMinutesWhole' /\ ClosedMinutesOnDisk'
<1>1. /\ alive' = FALSE /\ minute' = minute /\ log' = log /\ lives' = lives /\ disk' = disk
      /\ bucket' = [m \in Minutes |-> {}] /\ flushed' = {} /\ toFlush' = {}
      /\ unsaved' = unsaved \union {b[1] : b \in toFlush}
  BY DEF Stop, store
<1>2. \A m, l : Recorded(m, l)' = Recorded(m, l)
  BY <1>1, RecordedSame
<1>3. PastOnly' /\ OpenBuckets' /\ WholeFlushes'
  BY <1>1 DEF MinuteInv, PastOnly, OpenBuckets, WholeFlushes
<1>4. DiskMinutesWhole'
  BY <1>1, <1>2 DEF MinuteInv, DiskMinutesWhole, Recorded
<1>5. ClosedMinutesOnDisk'
  <2>1. \A m : m \notin unsaved' => m \notin unsaved /\ \A b \in toFlush : b[1] # m
    BY <1>1
  <2> QED BY <2>1, <1>1, <1>2 DEF MinuteInv, ClosedMinutesOnDisk, Recorded
<1> QED BY <1>3, <1>4, <1>5

LEMMA StartMinutes ==
  ASSUME MinuteInv, Start
  PROVE  PastOnly' /\ OpenBuckets' /\ WholeFlushes' /\ DiskMinutesWhole' /\ ClosedMinutesOnDisk'
<1>1. /\ ~alive /\ minute' = minute /\ log' = log /\ lives' = lives + 1 /\ disk' = disk
      /\ toFlush' = toFlush /\ unsaved' = unsaved
      /\ flushed' = {m \in Minutes : bucket'[m] # {}}
      /\ \A m \in Minutes : bucket'[m] # {} => disk[m] # {}
  BY DEF Start, store, recorder, LoadedBucket
<1>2. \A m, l : Recorded(m, l)' = Recorded(m, l)
  BY <1>1, RecordedSame
<1>3. /\ \A m : Recorded(m, lives + 1) = {}
      /\ minute \in Nat /\ Minutes \subseteq Nat /\ lives \in Nat /\ toFlush = {}
  BY <1>1, NothingToCome, LogFacts DEF MinuteInv, EmptyWhenDown
<1>4. PastOnly'
  BY <1>1, <1>3 DEF MinuteInv, PastOnly
<1>5. OpenBuckets' /\ WholeFlushes'
  BY <1>1, <1>2, <1>3 DEF OpenBuckets, WholeFlushes, Recorded
<1>6. DiskMinutesWhole'
  <2> SUFFICES ASSUME NEW m \in Minutes, disk[m] # {}
               PROVE  \E l \in 1..(lives + 1) : disk[m] = Recorded(m, l)
    BY <1>1, <1>2 DEF DiskMinutesWhole, Recorded
  <2>1. PICK l \in 1..lives : disk[m] = Recorded(m, l)
    BY DEF MinuteInv, DiskMinutesWhole
  <2> QED BY <2>1, <1>3
<1>7. ClosedMinutesOnDisk'
  <2> SUFFICES ASSUME NEW m \in Minutes, NEW l \in 1..(lives + 1), Recorded(m, l) # {},
                      NEW later \in Minutes, later > m, Recorded(later, l) # {},
                      m \notin unsaved
               PROVE  disk[m] = Recorded(m, l)
    BY <1>1, <1>2, <1>3 DEF ClosedMinutesOnDisk, Recorded
  <2>1. l \in 1..lives
    BY <1>3
  <2> QED BY <2>1, <1>3 DEF MinuteInv, ClosedMinutesOnDisk
<1> QED BY <1>4, <1>5, <1>6, <1>7

LEMMA OtherMinutes ==
  ASSUME MinuteInv, Tick \/ Enqueue \/ Writer
  PROVE  PastOnly' /\ OpenBuckets' /\ WholeFlushes' /\ DiskMinutesWhole' /\ ClosedMinutesOnDisk'
<1>1. /\ minute' \in {minute, minute + 1} /\ alive' = alive /\ log' = log /\ lives' = lives
      /\ disk' = disk /\ bucket' = bucket /\ flushed' = flushed /\ toFlush' = toFlush
      /\ unsaved' = unsaved
  BY DEF Tick, Enqueue, Writer, TakeFirst, TakeMore, WriteRow, WriteFails, WriterDies,
         memory, recorder, store, history
<1>2. \A m, l : Recorded(m, l)' = Recorded(m, l)
  BY <1>1, RecordedSame
<1>3. minute \in Nat /\ Minutes \subseteq Nat /\ \A b \in toFlush : b[1] \in Nat
  BY LogFacts DEF MinuteInv, TypeOK
<1>4. PastOnly' /\ WholeFlushes'
  BY <1>1, <1>2, <1>3 DEF MinuteInv, PastOnly, WholeFlushes, Recorded
<1>5. OpenBuckets'
  BY <1>1, <1>2 DEF MinuteInv, OpenBuckets, Recorded
<1>6. DiskMinutesWhole' /\ ClosedMinutesOnDisk'
  BY <1>1, <1>2 DEF MinuteInv, DiskMinutesWhole, ClosedMinutesOnDisk, Recorded
<1> QED BY <1>4, <1>5, <1>6

LEMMA MinuteInit == Init => MinuteInv /\ BatchInHand
<1> SUFFICES ASSUME Init PROVE MinuteInv /\ BatchInHand
  OBVIOUS
<1>1. /\ log = <<>> /\ DOMAIN log = {} /\ toFlush = {} /\ flushed = {} /\ queue = <<>> /\ batch = <<>>
      /\ \A m \in Minutes : bucket[m] = {} /\ disk[m] = {}
      /\ writer = "get" /\ alive
  BY DEF Init
<1>2. \A m, l : Recorded(m, l) = {}
  BY <1>1 DEF Recorded
<1>3. LogOrdered /\ BatchInHand /\ EmptyWhenDown /\ PastOnly /\ WholeFlushes
  BY <1>1 DEF LogOrdered, BatchInHand, EmptyWhenDown, PastOnly, WholeFlushes
<1>4. OpenBuckets /\ DiskMinutesWhole /\ ClosedMinutesOnDisk
  BY <1>1, <1>2 DEF OpenBuckets, DiskMinutesWhole, ClosedMinutesOnDisk
<1> QED BY <1>3, <1>4, TypeInit DEF MinuteInv

LEMMA MinuteStep ==
  ASSUME MinuteInv, BatchInHand, [Next]_vars
  PROVE  MinuteInv' /\ BatchInHand'
<1>1. TypeOK' /\ BatchInHand'
  BY TypeStep, BatchStep DEF MinuteInv
<1>2. CASE UNCHANGED vars
  <2>1. /\ UNCHANGED <<minute, alive, log, lives, bucket, flushed, pending, toFlush, queue, writer, batch,
                       disk, unsaved>>
    BY <1>2 DEF vars, memory, recorder, thread, store, history
  <2>2. \A m, l : Recorded(m, l)' = Recorded(m, l)
    BY <2>1, RecordedSame
  <2>3. LogOrdered' /\ EmptyWhenDown' /\ PastOnly'
    BY <2>1 DEF MinuteInv, LogOrdered, EmptyWhenDown, PastOnly
  <2>4. OpenBuckets' /\ WholeFlushes' /\ DiskMinutesWhole' /\ ClosedMinutesOnDisk'
    BY <2>1, <2>2 DEF MinuteInv, OpenBuckets, WholeFlushes, DiskMinutesWhole, ClosedMinutesOnDisk, Recorded
  <2> QED BY <1>1, <2>3, <2>4 DEF MinuteInv
<1>3. CASE Next
  <2>1. LogOrdered' /\ EmptyWhenDown'
    BY <1>3, LogOrderStep, EmptyStep DEF MinuteInv
  <2>2. PastOnly' /\ OpenBuckets' /\ WholeFlushes' /\ DiskMinutesWhole' /\ ClosedMinutesOnDisk'
    BY <1>3, RecordMinutes, PersistMinutes, StopMinutes, StartMinutes, OtherMinutes DEF Next
  <2> QED BY <1>1, <2>1, <2>2 DEF MinuteInv
<1> QED BY <1>2, <1>3

LEMMA MinuteInvariance == Spec => [](MinuteInv /\ BatchInHand)
<1>1. (MinuteInv /\ BatchInHand) /\ [Next]_vars => (MinuteInv /\ BatchInHand)'
  BY MinuteStep
<1> QED BY <1>1, MinuteInit, PTL DEF Spec

\* Every variable of the store stays in its type: in particular the queue, the batch and
\* the panel never outgrow their limits.
THEOREM StoreTypeCorrect == Spec => []TypeOK
<1>1. MinuteInv => TypeOK
  BY DEF MinuteInv
<1> QED BY <1>1, MinuteInvariance, PTL

\* "A durable record of completed minutes" (storage.py): a minute in minute_buckets is
\* all that one life of the process recorded in it.
THEOREM DiskMinutesAreWhole == Spec => []DiskMinutesWhole
<1>1. MinuteInv => DiskMinutesWhole
  BY DEF MinuteInv
<1> QED BY <1>1, MinuteInvariance, PTL

\* What record_request closes is in minute_buckets when it is done, unless its own upsert
\* failed or the process ended first: however many minutes were silent, and whatever was
\* evicted from memory.
THEOREM ClosedMinutesAreOnDisk == Spec => []ClosedMinutesOnDisk
<1>1. MinuteInv => ClosedMinutesOnDisk
  BY DEF MinuteInv
<1> QED BY <1>1, MinuteInvariance, PTL

-----------------------------------------------------------------------------
\* Rows: what is in the table, under way to it, dropped and lost, set by set.

InFlight == {pending} \ {0}

LineOrdered ==
  /\ Increasing(rows) /\ Increasing(batch) /\ Increasing(queue)
  /\ Below(ToSet(rows), ToSet(batch)) /\ Below(ToSet(rows), ToSet(queue))
  /\ Below(ToSet(batch), ToSet(queue))
  /\ Below(ToSet(rows), InFlight) /\ Below(ToSet(batch), InFlight) /\ Below(ToSet(queue), InFlight)

OnLine == ToSet(rows) \union ToSet(batch) \union ToSet(queue) \union InFlight

Accounted ==
  /\ OnLine \union dropped \union lost = DOMAIN log
  /\ OnLine \intersect (dropped \union lost) = {} /\ dropped \intersect lost = {}

Ours == \A i \in ToSet(batch) \union ToSet(queue) \union InFlight : log[i].life = lives

AccountInv == LineOrdered /\ Accounted /\ Ours

LEMMA AccountSets ==
  ASSUME TypeOK
  PROVE  /\ rows \in Seq(Nat) /\ batch \in Seq(Nat) /\ queue \in Seq(Nat) /\ pending \in Nat
         /\ ToSet(rows) \subseteq Nat /\ ToSet(batch) \subseteq Nat /\ ToSet(queue) \subseteq Nat
<1>1. Requests \subseteq Nat
  BY RequestsAreFinite
<1>2. rows \in Seq(Nat) /\ batch \in Seq(Nat) /\ queue \in Seq(Nat) /\ pending \in Nat
  <2>1. \A s \in Seq(Requests) : s \in Seq(Nat)
    BY <1>1, SeqOfSubset
  <2> QED BY <1>1, <2>1 DEF TypeOK
<1> QED BY <1>2, ToSetFacts

\* The property the runs check says of the line what these sets say of its parts.
LEMMA LineMeans ==
  ASSUME TypeOK, LineOrdered, Accounted
  PROVE  EveryRowAccounted
<1> DEFINE p == IF pending = 0 THEN <<>> ELSE <<pending>>
<1>1. /\ rows \in Seq(Nat) /\ batch \in Seq(Nat) /\ queue \in Seq(Nat) /\ pending \in Nat
  BY AccountSets
<1>2. p \in Seq(Nat) /\ ToSet(p) = InFlight /\ Increasing(p)
  <2>1. CASE pending = 0
    <3>1. p = <<>> /\ InFlight = {} /\ <<>> \in Seq(Nat) /\ Len(<<>>) = 0
      BY <2>1, EmptyFacts DEF InFlight
    <3>2. ToSet(<<>>) = {} /\ Increasing(<<>>)
      BY <3>1, ToSetFacts, IncreasingMeans
    <3> QED BY <3>1, <3>2
  <2>2. CASE pending # 0
    <3>1. p = <<pending>> /\ InFlight = {pending} /\ <<pending>> \in Seq(Nat) /\ Len(<<pending>>) = 1
      BY <2>2, <1>1 DEF InFlight
    <3>2. ToSet(<<pending>>) = {pending} /\ Increasing(<<pending>>)
      BY <3>1, IncreasingMeans DEF ToSet
    <3> QED BY <3>1, <3>2
  <2> QED BY <2>1, <2>2
<1> HIDE DEF p
<1> DEFINE a == rows \o batch
           b == a \o queue
           c == b \o p
<1>3. /\ a \in Seq(Nat) /\ ToSet(a) = ToSet(rows) \union ToSet(batch)
      /\ Increasing(a) <=> Increasing(rows) /\ Increasing(batch) /\ Below(ToSet(rows), ToSet(batch))
  BY <1>1, ToSetOfConcat, IncreasingConcat
<1> HIDE DEF a
<1>4. /\ b \in Seq(Nat) /\ ToSet(b) = ToSet(a) \union ToSet(queue)
      /\ Increasing(b) <=> Increasing(a) /\ Increasing(queue) /\ Below(ToSet(a), ToSet(queue))
  <2>1. a \in Seq(Nat) /\ queue \in Seq(Nat)
    BY <1>1, <1>3
  <2>2. a \o queue \in Seq(Nat)
    BY <2>1
  <2>3. ToSet(a \o queue) = ToSet(a) \union ToSet(queue)
    BY <2>1, ToSetOfConcat
  <2>4. Increasing(a \o queue)
          <=> Increasing(a) /\ Increasing(queue) /\ Below(ToSet(a), ToSet(queue))
    BY <2>1, IncreasingConcat
  <2> QED BY <2>2, <2>3, <2>4
<1> HIDE DEF b
<1>5. /\ c \in Seq(Nat) /\ ToSet(c) = ToSet(b) \union ToSet(p)
      /\ Increasing(c) <=> Increasing(b) /\ Increasing(p) /\ Below(ToSet(b), ToSet(p))
  <2>1. b \in Seq(Nat) /\ p \in Seq(Nat)
    BY <1>2, <1>4
  <2>2. b \o p \in Seq(Nat)
    BY <2>1
  <2>3. ToSet(b \o p) = ToSet(b) \union ToSet(p)
    BY <2>1, ToSetOfConcat
  <2>4. Increasing(b \o p) <=> Increasing(b) /\ Increasing(p) /\ Below(ToSet(b), ToSet(p))
    BY <2>1, IncreasingConcat
  <2> QED BY <2>2, <2>3, <2>4
<1> HIDE DEF c
<1>6. Increasing(c)
  BY <1>2, <1>3, <1>4, <1>5 DEF LineOrdered, Below
<1>7. ToSet(c) = OnLine
  BY <1>2, <1>3, <1>4, <1>5 DEF OnLine
<1>8. c = rows \o batch \o queue \o (IF pending = 0 THEN <<>> ELSE <<pending>>)
  BY DEF a, b, c, p
<1> QED BY <1>6, <1>7, <1>8 DEF EveryRowAccounted, Accounted

\* What is on the line has been recorded, so its entry in the log stays.
LEMMA OnLineRecorded ==
  ASSUME Accounted
  PROVE  OnLine \subseteq DOMAIN log /\ dropped \subseteq DOMAIN log /\ lost \subseteq DOMAIN log
BY DEF Accounted

LEMMA RecordRows ==
  ASSUME TypeOK, AccountInv, Record
  PROVE  AccountInv'
<1> DEFINE n == Len(log) + 1
<1>1. /\ DOMAIN log' = (DOMAIN log) \union {n} /\ n \notin DOMAIN log
      /\ \A i \in DOMAIN log : i < n /\ log'[i] = log[i]
      /\ log'[n].life = lives
  BY LogAppended
<1>2. /\ pending = 0 /\ pending' = n /\ n # 0
      /\ UNCHANGED <<rows, batch, queue, dropped, lost, lives>>
  BY LogFacts DEF Record, thread, store
<1> HIDE DEF n
<1>3. InFlight = {} /\ InFlight' = {n}
  BY <1>2 DEF InFlight
<1>4. /\ ToSet(rows)' = ToSet(rows) /\ ToSet(batch)' = ToSet(batch) /\ ToSet(queue)' = ToSet(queue)
      /\ OnLine' = OnLine \union {n}
  BY <1>2, <1>3 DEF OnLine
<1>5. OnLine \subseteq DOMAIN log /\ dropped \subseteq DOMAIN log /\ lost \subseteq DOMAIN log
  BY OnLineRecorded DEF AccountInv
<1>6. Below(OnLine, {n})
  BY <1>1, <1>5 DEF Below
<1>7. LineOrdered'
  BY <1>2, <1>3, <1>4, <1>6 DEF AccountInv, LineOrdered, Below, OnLine
<1>8. Accounted'
  BY <1>1, <1>2, <1>4, <1>5 DEF AccountInv, Accounted
<1>9. Ours'
  BY <1>1, <1>2, <1>3, <1>4, <1>5 DEF AccountInv, Ours, OnLine
<1> QED BY <1>7, <1>8, <1>9 DEF AccountInv

LEMMA EnqueueRows ==
  ASSUME TypeOK, AccountInv, Enqueue
  PROVE  AccountInv'
<1>1. /\ pending # 0 /\ pending' = 0 /\ UNCHANGED <<rows, batch, lost, lives, log>>
      /\ \/ queue' = Append(queue, pending) /\ dropped' = dropped
         \/ queue' = queue /\ dropped' = dropped \union {pending}
  BY DEF Enqueue, store, history
<1>2. InFlight = {pending} /\ InFlight' = {}
  BY <1>1 DEF InFlight
<1>3. queue \in Seq(Nat) /\ pending \in Nat
  BY AccountSets
<1>4. CASE queue' = Append(queue, pending) /\ dropped' = dropped
  <2>1. Increasing(queue') <=> Increasing(queue) /\ Below(ToSet(queue), InFlight)
    BY <1>2, <1>3, <1>4, IncreasingAppend
  <2>2. ToSet(queue)' = ToSet(queue) \union {pending}
    <3>1. ToSet(Append(queue, pending)) = ToSet(queue) \union {pending}
      BY <1>3, ToSetOfAppend
    <3> QED BY <3>1, <1>4
  <2>3. ToSet(rows)' = ToSet(rows) /\ ToSet(batch)' = ToSet(batch) /\ OnLine' = OnLine
    BY <1>1, <1>2, <2>2 DEF OnLine
  <2>4. LineOrdered'
    BY <1>1, <1>2, <2>1, <2>2, <2>3 DEF AccountInv, LineOrdered, Below
  <2>5. Accounted' /\ Ours'
    BY <1>1, <1>2, <1>4, <2>2, <2>3 DEF AccountInv, Accounted, Ours
  <2> QED BY <2>4, <2>5 DEF AccountInv
<1>5. CASE queue' = queue /\ dropped' = dropped \union {pending}
  <2>1. /\ ToSet(rows)' = ToSet(rows) /\ ToSet(batch)' = ToSet(batch) /\ ToSet(queue)' = ToSet(queue)
    BY <1>1, <1>5
  <2>2. LineOrdered'
    BY <1>1, <1>2, <1>5, <2>1 DEF AccountInv, LineOrdered, Below
  <2>3. pending \notin ToSet(rows) /\ pending \notin ToSet(batch) /\ pending \notin ToSet(queue)
    BY <1>2, <1>3 DEF AccountInv, LineOrdered, Below
  <2>4. OnLine = OnLine' \union {pending} /\ pending \notin OnLine'
    BY <1>2, <2>1, <2>3 DEF OnLine
  <2>5. Accounted'
    BY <1>1, <1>5, <2>4 DEF AccountInv, Accounted
  <2>6. Ours'
    BY <1>1, <1>2, <2>1 DEF AccountInv, Ours
  <2> QED BY <2>2, <2>5, <2>6 DEF AccountInv
<1> QED BY <1>1, <1>4, <1>5

\* The writer moves the head of the queue into the batch, and the head of the batch into
\* the table.
LEMMA TakeRows ==
  ASSUME TypeOK, AccountInv, queue # <<>>,
         \/ batch = <<>> /\ batch' = <<Head(queue)>>
         \/ batch' = Append(batch, Head(queue)),
         queue' = Tail(queue), UNCHANGED <<rows, pending, dropped, lost, lives, log>>
  PROVE  AccountInv'
<1> DEFINE h == Head(queue)
<1>1. queue \in Seq(Nat) /\ batch \in Seq(Nat) /\ h \in Nat /\ Tail(queue) \in Seq(Nat)
  BY AccountSets
<1>2. batch' = Append(batch, h)
  <2>1. Append(<<>>, h) = <<h>>
    OBVIOUS
  <2> QED BY <2>1
<1>3. ToSet(queue) = {h} \union ToSet(queue')
  BY <1>1, ToSetFacts
<1>4. Increasing(queue') /\ Below({h}, ToSet(queue'))
  BY <1>1, IncreasingTail DEF AccountInv, LineOrdered
<1> HIDE DEF h
<1>5. ToSet(batch') = ToSet(batch) \union {h} /\ (Increasing(batch') <=> Increasing(batch) /\ Below(ToSet(batch), {h}))
  <2>1. ToSet(Append(batch, h)) = ToSet(batch) \union {h}
    <3>1. batch \in Seq(Nat) /\ h \in Nat
      BY <1>1
    <3> QED BY ONLY <3>1, ToSetOfAppend
  <2>2. Increasing(Append(batch, h)) <=> Increasing(batch) /\ Below(ToSet(batch), {h})
    BY <1>1, IncreasingAppend
  <2> QED BY <1>2, <2>1, <2>2
<1>6. /\ ToSet(rows)' = ToSet(rows) /\ ToSet(batch)' = ToSet(batch') /\ ToSet(queue)' = ToSet(queue')
      /\ InFlight' = InFlight
  BY DEF InFlight
<1>7. OnLine' = OnLine
  BY <1>3, <1>5, <1>6 DEF OnLine
<1>8. LineOrdered'
  BY <1>3, <1>4, <1>5, <1>6 DEF AccountInv, LineOrdered, Below
<1>9. Accounted' /\ Ours'
  BY <1>3, <1>5, <1>6, <1>7 DEF AccountInv, Accounted, Ours
<1> QED BY <1>8, <1>9 DEF AccountInv

LEMMA WriteRows ==
  ASSUME TypeOK, BatchInHand, AccountInv, WriteRow
  PROVE  AccountInv'
<1> DEFINE h == Head(batch)
<1>0. /\ batch # <<>> /\ rows' = Append(rows, h) /\ batch' = Tail(batch)
      /\ UNCHANGED <<queue, pending, dropped, lost, lives, log>>
  BY DEF WriteRow, BatchInHand, recorder, history
<1>1. batch \in Seq(Nat) /\ rows \in Seq(Nat) /\ h \in Nat /\ Tail(batch) \in Seq(Nat)
  BY <1>0, AccountSets
<1>3. ToSet(batch) = {h} \union ToSet(batch')
  BY <1>0, <1>1, ToSetFacts
<1>4. Increasing(batch') /\ Below({h}, ToSet(batch'))
  BY <1>0, <1>1, IncreasingTail DEF AccountInv, LineOrdered
<1> HIDE DEF h
<1>5. ToSet(rows') = ToSet(rows) \union {h} /\ (Increasing(rows') <=> Increasing(rows) /\ Below(ToSet(rows), {h}))
  <2>1. ToSet(Append(rows, h)) = ToSet(rows) \union {h}
    BY <1>1, ToSetOfAppend
  <2>2. Increasing(Append(rows, h)) <=> Increasing(rows) /\ Below(ToSet(rows), {h})
    BY <1>1, IncreasingAppend
  <2> QED BY <1>0, <2>1, <2>2
<1>6. /\ ToSet(rows)' = ToSet(rows') /\ ToSet(batch)' = ToSet(batch') /\ ToSet(queue)' = ToSet(queue)
      /\ InFlight' = InFlight
  BY <1>0 DEF InFlight
<1>7. OnLine' = OnLine
  BY <1>3, <1>5, <1>6 DEF OnLine
<1>8. LineOrdered'
  BY <1>0, <1>3, <1>4, <1>5, <1>6 DEF AccountInv, LineOrdered, Below
<1>9. Accounted' /\ Ours'
  BY <1>0, <1>3, <1>5, <1>6, <1>7 DEF AccountInv, Accounted, Ours
<1> QED BY <1>8, <1>9 DEF AccountInv

\* A storage error, an exception that ends the thread, or the end of the process takes
\* what was under way.
LEMMA LoseRows ==
  ASSUME TypeOK, AccountInv, UNCHANGED <<rows, dropped, lives, log>>,
         NEW S \in SUBSET OnLine, S \intersect ToSet(rows) = {}, lost' = lost \union S,
         \/ batch' = <<>> /\ queue' = queue /\ pending' = pending /\ S = ToSet(batch)
         \/ batch' = <<>> /\ queue' = <<>> /\ pending' = 0
            /\ S = ToSet(queue) \union ToSet(batch) \union InFlight
  PROVE  AccountInv'
<1>1. /\ ToSet(rows) \subseteq Nat /\ ToSet(batch) \subseteq Nat /\ ToSet(queue) \subseteq Nat
      /\ pending \in Nat
  BY AccountSets
<1>2. ToSet(<<>>) = {} /\ Increasing(<<>>)
  <2>1. <<>> \in Seq(Nat) /\ Len(<<>>) = 0
    BY EmptyFacts
  <2> QED BY <2>1, ToSetFacts, IncreasingMeans
<1>3. ToSet(rows)' = ToSet(rows) /\ ToSet(batch)' = {} /\ batch' = <<>>
  BY <1>2
<1>4. CASE queue' = queue /\ pending' = pending /\ S = ToSet(batch)
  <2>1. ToSet(queue)' = ToSet(queue) /\ InFlight' = InFlight
    BY <1>4 DEF InFlight
  <2>2. LineOrdered'
    BY <1>2, <1>3, <1>4, <2>1 DEF AccountInv, LineOrdered, Below
  <2>3. \A x \in S : x \notin ToSet(queue) /\ x \notin InFlight /\ x \notin ToSet(rows)
    <3> TAKE x \in S
    <3>1. x \in Nat /\ ~(x < x)
      BY <1>1, <1>4
    <3> QED BY <1>4, <3>1 DEF AccountInv, LineOrdered, Below
  <2>4. OnLine = OnLine' \union S /\ OnLine' \intersect S = {}
    BY <1>3, <1>4, <2>1, <2>3 DEF OnLine
  <2>5. Accounted'
    BY <2>4 DEF AccountInv, Accounted
  <2>6. Ours'
    BY <1>3, <2>1 DEF AccountInv, Ours
  <2> QED BY <2>2, <2>5, <2>6 DEF AccountInv
<1>5. CASE queue' = <<>> /\ pending' = 0 /\ S = ToSet(queue) \union ToSet(batch) \union InFlight
  <2>1. ToSet(queue)' = {} /\ InFlight' = {}
    BY <1>2, <1>5 DEF InFlight
  <2>2. LineOrdered'
    BY <1>2, <1>3, <1>5, <2>1 DEF AccountInv, LineOrdered, Below
  <2>4. OnLine = OnLine' \union S /\ OnLine' \intersect S = {}
    BY <1>3, <1>5, <2>1 DEF OnLine
  <2>5. Accounted'
    BY <2>4 DEF AccountInv, Accounted
  <2>6. Ours'
    BY <1>3, <2>1 DEF Ours
  <2> QED BY <2>2, <2>5, <2>6 DEF AccountInv
<1> QED BY <1>4, <1>5

LEMMA AccountInit == Init => AccountInv
<1> SUFFICES ASSUME Init PROVE AccountInv
  OBVIOUS
<1>1. <<>> \in Seq(Nat) /\ Len(<<>>) = 0
  BY EmptyFacts
<1>2. ToSet(<<>>) = {} /\ Increasing(<<>>)
  BY <1>1, ToSetFacts, IncreasingMeans
<1>3. rows = <<>> /\ batch = <<>> /\ queue = <<>> /\ InFlight = {} /\ dropped = {} /\ lost = {}
  BY DEF Init, InFlight
<1>4. DOMAIN log = {}
  BY DEF Init
<1> QED BY <1>2, <1>3, <1>4 DEF AccountInv, LineOrdered, Accounted, Ours, OnLine, Below

LEMMA AccountStep ==
  ASSUME MinuteInv, BatchInHand, AccountInv, [Next]_vars
  PROVE  AccountInv'
<1>0. TypeOK /\ EmptyWhenDown
  BY DEF MinuteInv
<1>1. ASSUME UNCHANGED <<rows, batch, queue, pending, dropped, lost, lives, log>> PROVE AccountInv'
  BY <1>1 DEF AccountInv, LineOrdered, Accounted, Ours, OnLine, InFlight
<1>2. CASE UNCHANGED vars \/ Tick \/ \E b \in toFlush : Persist(b)
  BY <1>1, <1>2 DEF vars, Tick, Persist, recorder, thread, store, history
<1>3. CASE TakeFirst
  <2>1. batch = <<>>
    BY <1>3 DEF TakeFirst, BatchInHand
  <2> QED BY <1>0, <1>3, <2>1, TakeRows DEF TakeFirst, recorder, store, history
<1>4. CASE TakeMore
  <2>1. CASE queue # <<>> /\ batch' = Append(batch, Head(queue)) /\ queue' = Tail(queue)
    BY <1>0, <1>4, <2>1, TakeRows DEF TakeMore, recorder, store, history
  <2>2. CASE queue' = queue /\ batch' = batch
    BY <1>1, <1>4, <2>2 DEF TakeMore, recorder, store, history
  <2> QED BY <1>4, <2>1, <2>2, Zenon DEF TakeMore
<1>5. CASE WriteFails \/ WriterDies
  <2>1. /\ lost' = lost \union ToSet(batch) /\ batch' = <<>>
        /\ UNCHANGED <<rows, dropped, lives, log, queue, pending>>
    BY <1>5 DEF WriteFails, WriterDies, recorder, store
  <2>2. ToSet(batch) \subseteq OnLine /\ ToSet(batch) \intersect ToSet(rows) = {}
    <3>1. \A x \in ToSet(batch) : x \in Nat /\ ~(x < x)
      BY <1>0, AccountSets
    <3> QED BY <3>1 DEF OnLine, AccountInv, LineOrdered, Below
  <2> QED BY <1>0, <2>1, <2>2, LoseRows
<1>6. CASE Stop
  <2> DEFINE S == ToSet(queue) \union ToSet(batch) \union InFlight
  <2>1. /\ lost' = lost \union S /\ batch' = <<>> /\ queue' = <<>> /\ pending' = 0
        /\ UNCHANGED <<rows, dropped, lives, log>>
    BY <1>6 DEF Stop, store, InFlight
  <2>2. S \subseteq OnLine /\ S \intersect ToSet(rows) = {}
    <3>1. \A x \in ToSet(rows) : x \in Nat /\ ~(x < x)
      BY <1>0, AccountSets
    <3> QED BY <3>1 DEF OnLine, AccountInv, LineOrdered, Below
  <2> QED BY <1>0, <2>1, <2>2, LoseRows
<1>7. CASE Start
  <2>1. /\ UNCHANGED <<rows, batch, queue, pending, dropped, lost, log>>
        /\ batch = <<>> /\ queue = <<>> /\ pending = 0
    BY <1>0, <1>7 DEF Start, EmptyWhenDown, recorder, thread, store
  <2>2. ToSet(batch) = {} /\ ToSet(queue) = {} /\ InFlight = {}
    <3>1. ToSet(<<>>) = {}
      BY DEF ToSet
    <3> QED BY <2>1, <3>1 DEF InFlight
  <2>3. LineOrdered' /\ Accounted'
    BY <2>1 DEF AccountInv, LineOrdered, Accounted, OnLine, InFlight
  <2>4. Ours'
    BY <2>1, <2>2 DEF Ours, InFlight
  <2> QED BY <2>3, <2>4 DEF AccountInv
<1> QED BY <1>0, <1>2, <1>3, <1>4, <1>5, <1>6, <1>7, RecordRows, EnqueueRows, WriteRows DEF Next, Writer

LEMMA AccountInvariance == Spec => [](MinuteInv /\ BatchInHand /\ AccountInv)
<1>1. (MinuteInv /\ BatchInHand /\ AccountInv) /\ [Next]_vars => (MinuteInv /\ BatchInHand /\ AccountInv)'
  BY MinuteStep, AccountStep
<1> QED BY <1>1, MinuteInit, AccountInit, PTL DEF Spec

\* record_request and the writer thread lose no row without a trace, write none twice and
\* none out of order.
THEOREM RowsAreAccounted == Spec => []EveryRowAccounted
<1>1. MinuteInv /\ AccountInv => EveryRowAccounted
  BY LineMeans DEF MinuteInv, AccountInv
<1> QED BY <1>1, AccountInvariance, PTL

-----------------------------------------------------------------------------
\* The panel.

\* How many of S are behind the k-th of the panel, when the panel is the newest of S.
LEMMA BehindNewest ==
  ASSUME NEW S \in SUBSET Nat, IsFiniteSet(S), NEW n \in Nat, NEW r \in Seq(Nat),
         Increasing(r), ToSet(r) = Newest(S, n), NEW k \in 1..Len(r)
  PROVE  Cardinality({j \in S : j > r[k]}) = Len(r) - k
<1>1. /\ Len(r) \in Nat /\ r \in [1..Len(r) -> Nat] /\ k \in 0..Len(r)
      /\ \A i, j \in 1..Len(r) : i < j => r[i] < r[j]
  BY IncreasingMeans
<1>2. /\ \A i \in 1..Len(r) : r[i] \in ToSet(r)
      /\ \A x \in ToSet(r) : \E i \in 1..Len(r) : r[i] = x
  BY ToSetFacts
<1>3. /\ Newest(S, n) \subseteq S
      /\ \A i \in Newest(S, n), j \in S : j > i => j \in Newest(S, n)
  BY NewestFacts
<1>4. {j \in S : j > r[k]} = {r[i] : i \in (k + 1)..Len(r)}
  <2>1. ASSUME NEW j \in S, j > r[k] PROVE \E i \in (k + 1)..Len(r) : j = r[i]
    <3>1. j \in ToSet(r)
      BY <1>2, <1>3, <2>1
    <3>2. PICK i \in 1..Len(r) : r[i] = j
      BY <1>2, <3>1
    <3>3. ~(i <= k)
      <4>1. i < k => r[i] < r[k]
        BY <1>1
      <4>2. r[i] \in Nat /\ r[k] \in Nat
        BY <1>1
      <4> QED BY <4>1, <4>2, <3>2, <2>1
    <3> QED BY <3>2, <3>3
  <2>2. ASSUME NEW i \in (k + 1)..Len(r) PROVE r[i] \in S /\ r[i] > r[k]
    <3>1. i \in 1..Len(r) /\ k < i
      OBVIOUS
    <3>2. r[k] < r[i] /\ r[k] \in Nat /\ r[i] \in Nat
      BY <3>1, <1>1
    <3> QED BY <3>1, <3>2, <1>2, <1>3
  <2> QED BY <2>1, <2>2
<1>5. Cardinality({r[i] : i \in (k + 1)..Len(r)}) = Len(r) - k
  BY <1>1, CountBehind
<1> QED BY <1>4, <1>5

\* A request newer than all of S pushes the oldest out when the panel is full.
LEMMA NewestWithNewer ==
  ASSUME NEW S \in SUBSET Nat, IsFiniteSet(S), NEW n \in Nat \ {0}, NEW r \in Seq(Nat),
         Increasing(r), ToSet(r) = Newest(S, n), NEW id \in Nat, \A x \in S : x < id
  PROVE  Newest(S \union {id}, n) = {id} \union {r[k] : k \in {i \in 1..Len(r) : Len(r) - i + 1 < n}}
<1>1. Len(r) \in Nat /\ r \in [1..Len(r) -> Nat]
  OBVIOUS
<1>2. /\ \A i \in 1..Len(r) : r[i] \in ToSet(r)
      /\ \A x \in ToSet(r) : \E i \in 1..Len(r) : r[i] = x
  BY ToSetFacts
<1>3. Newest(S, n) \subseteq S
  BY NewestFacts
<1>4. {j \in S \union {id} : j > id} = {} /\ Cardinality({}) = 0
  <2>1. \A j \in S : ~(j > id)
    <3> TAKE j \in S
    <3>1. j \in Nat /\ j < id
      OBVIOUS
    <3> QED BY <3>1
  <2>2. ~(id > id)
    OBVIOUS
  <2>3. {j \in S \union {id} : j > id} = {}
    BY <2>1, <2>2
  <2>4. Cardinality({}) = 0
    BY FS_EmptySet
  <2> QED BY <2>3, <2>4
<1>5. ASSUME NEW i \in S
      PROVE  /\ Cardinality({j \in S \union {id} : j > i}) = Cardinality({j \in S : j > i}) + 1
             /\ Cardinality({j \in S : j > i}) \in Nat
  <2>1. i < id /\ id \notin S /\ i \in Nat
    <3>1. \A x \in S : x \in Nat /\ x < id
      OBVIOUS
    <3> QED BY <3>1
  <2>2. {j \in S \union {id} : j > i} = {j \in S : j > i} \union {id}
    BY <2>1
  <2>3. IsFiniteSet({j \in S : j > i}) /\ id \notin {j \in S : j > i}
    BY <2>1, FS_Subset
  <2> DEFINE T == {j \in S : j > i}
  <2> HIDE DEF T
  <2>4. Cardinality(T \union {id}) = Cardinality(T) + 1 /\ Cardinality(T) \in Nat
    BY <2>3, FS_AddElement, FS_CardinalityType DEF T
  <2> QED BY <2>2, <2>4 DEF T
<1>6. \A k \in 1..Len(r) : r[k] \in S /\ Cardinality({j \in S : j > r[k]}) = Len(r) - k
  BY <1>2, <1>3, BehindNewest
<1>7. ASSUME NEW x \in Newest(S \union {id}, n), x # id
      PROVE  \E k \in {i \in 1..Len(r) : Len(r) - i + 1 < n} : x = r[k]
  <2>1. x \in S /\ Cardinality({j \in S \union {id} : j > x}) < n
    BY <1>7 DEF Newest
  <2>2. /\ Cardinality({j \in S \union {id} : j > x}) = Cardinality({j \in S : j > x}) + 1
        /\ Cardinality({j \in S : j > x}) \in Nat
    BY <2>1, <1>5
  <2>3. Cardinality({j \in S : j > x}) < n
    BY <2>1, <2>2
  <2>4. x \in ToSet(r)
    BY <2>1, <2>3 DEF Newest
  <2>5. PICK k \in 1..Len(r) : r[k] = x
    BY <2>4, <1>2
  <2>6. Len(r) - k + 1 < n
    BY <2>1, <2>2, <2>5, <1>6
  <2> QED BY <2>5, <2>6
<1>8. ASSUME NEW k \in 1..Len(r), Len(r) - k + 1 < n PROVE r[k] \in Newest(S \union {id}, n)
  <2>1. r[k] \in S /\ Cardinality({j \in S : j > r[k]}) = Len(r) - k
    BY <1>6
  <2>2. Cardinality({j \in S \union {id} : j > r[k]}) = Len(r) - k + 1
    BY <2>1, <1>5
  <2> QED BY <2>1, <2>2, <1>8 DEF Newest
<1>9. id \in Newest(S \union {id}, n)
  <2>1. Cardinality({j \in S \union {id} : j > id}) = 0
    BY <1>4, Zenon
  <2> QED BY <2>1 DEF Newest
<1> QED BY <1>7, <1>8, <1>9

LEMMA PanelAppend ==
  ASSUME NEW S \in SUBSET Nat, IsFiniteSet(S), NEW n \in Nat \ {0}, NEW r \in Seq(Nat),
         Increasing(r), ToSet(r) = Newest(S, n), NEW id \in Nat, \A x \in S : x < id
  PROVE  /\ Increasing(LastN(Append(r, id), n))
         /\ ToSet(LastN(Append(r, id), n)) = Newest(S \union {id}, n)
<1> DEFINE a == Append(r, id)
           l == LastN(a, n)
           d == Len(a) - Len(l)
<1>1. /\ a \in Seq(Nat) /\ Len(a) = Len(r) + 1 /\ a[Len(r) + 1] = id /\ Len(r) \in Nat
      /\ \A i \in 1..Len(r) : a[i] = r[i]
  OBVIOUS
<1>2. Len(r) <= n
  <2>1. Cardinality(ToSet(r)) = Len(r)
    BY IncreasingCount
  <2>2. Cardinality(Newest(S, n)) <= n
    BY NewestFacts
  <2> QED BY <2>1, <2>2
<1>3. /\ l \in Seq(Nat) /\ Len(l) = IF Len(a) > n THEN n ELSE Len(a)
      /\ \A i \in 1..Len(l) : l[i] = a[i + (Len(a) - Len(l))]
  <2> HIDE DEF a
  <2> QED BY <1>1, LastNFacts
<1>4. Increasing(a)
  <2>1. \A x \in ToSet(r) : x < id
    BY NewestFacts
  <2>2. Increasing(a) <=> Increasing(r) /\ Below(ToSet(r), {id})
    BY IncreasingAppend
  <2> QED BY <2>1, <2>2 DEF Below
<1> HIDE DEF a, l
<1>5. /\ d \in Nat /\ Len(l) \in Nat /\ Len(l) + d = Len(r) + 1 /\ Len(l) >= 1 /\ Len(l) <= n
      /\ Len(l) = IF Len(r) + 1 > n THEN n ELSE Len(r) + 1
      /\ \A i \in 1..Len(l) : l[i] = a[i + d]
  <2>1. Len(a) = Len(r) + 1 /\ Len(r) \in Nat /\ n \in Nat /\ n >= 1
    BY <1>1
  <2>2. Len(l) = IF Len(r) + 1 > n THEN n ELSE Len(r) + 1
    BY <2>1, <1>3
  <2>3. Len(l) \in Nat /\ Len(l) >= 1 /\ Len(l) <= Len(r) + 1 /\ Len(l) <= n
    BY <2>1, <2>2
  <2>4. d = (Len(r) + 1) - Len(l)
    BY <2>1
  <2>5. d \in Nat /\ Len(l) + d = Len(r) + 1
    BY <2>1, <2>3, <2>4
  <2> QED BY <2>2, <2>3, <2>5, <1>3
<1> HIDE DEF d
<1>6. Increasing(l)
  <2>1. \A i, j \in 1..Len(a) : i < j => a[i] < a[j]
    BY <1>4, IncreasingMeans
  <2>2. ASSUME NEW i \in 1..Len(l), NEW j \in 1..Len(l), i < j PROVE l[i] < l[j]
    <3>1. i + d \in 1..Len(a) /\ j + d \in 1..Len(a) /\ i + d < j + d
      BY <1>1, <1>5, <2>2
    <3> QED BY <3>1, <2>1, <1>5
  <2> QED BY <2>2, IncreasingMeans
<1>7. Newest(S \union {id}, n) = {id} \union {r[k] : k \in {i \in 1..Len(r) : Len(r) - i + 1 < n}}
  BY NewestWithNewer
<1>8. /\ \A i \in 1..Len(l) : l[i] \in ToSet(l)
      /\ \A x \in ToSet(l) : \E i \in 1..Len(l) : l[i] = x
  BY <1>3, ToSetFacts
<1>9. ASSUME NEW x \in ToSet(l) PROVE x \in Newest(S \union {id}, n)
  <2>1. PICK i \in 1..Len(l) : l[i] = x
    BY <1>8
  <2>2. CASE i + d = Len(r) + 1
    BY <2>1, <2>2, <1>1, <1>5, <1>7
  <2>3. CASE i + d # Len(r) + 1
    <3>1. i + d \in 1..Len(r) /\ Len(r) - (i + d) + 1 < n
      <4>1. i \in Nat /\ i >= 1 /\ i <= Len(l)
        BY <1>5
      <4>2. Len(r) - (i + d) + 1 = Len(l) - i
        BY <4>1, <1>5, <1>1
      <4>3. Len(l) - i < n
        BY <4>1, <1>5
      <4>4. i + d \in Nat /\ i + d >= 1 /\ i + d <= Len(r) + 1 /\ i + d # Len(r) + 1
        BY <4>1, <2>3, <1>5, <1>1
      <4>5. i + d \in 1..Len(r)
        BY <4>4, <1>1
      <4> QED BY <4>2, <4>3, <4>5
    <3>2. x = r[i + d]
      BY <3>1, <2>1, <1>1, <1>5
    <3> QED BY <3>1, <3>2, <1>7
  <2> QED BY <2>2, <2>3
<1>10. ASSUME NEW k \in 1..Len(r), Len(r) - k + 1 < n PROVE r[k] \in ToSet(l)
  <2>1. k - d \in 1..Len(l) /\ (k - d) + d = k
    BY <1>1, <1>2, <1>5, <1>10
  <2>2. l[k - d] = r[k]
    BY <2>1, <1>1, <1>5
  <2> QED BY <2>1, <2>2, <1>8
<1>11. id \in ToSet(l)
  <2>1. Len(l) \in 1..Len(l) /\ l[Len(l)] = id
    BY <1>1, <1>5
  <2> QED BY <2>1, <1>8
<1>12. ToSet(l) = Newest(S \union {id}, n)
  BY <1>7, <1>9, <1>10, <1>11
<1> QED BY <1>6, <1>12 DEF l, a

Mine == {i \in DOMAIN log : log[i].life = lives}
Before == {i \in ToSet(rows) : log[i].life # lives}

\* The panel shows the newest of S.
Shows(S) == Increasing(recent) /\ ToSet(recent) = Newest(S, MaxRecent)

LEMMA PanelMeans ==
  /\ PanelIsRecent <=> (alive => Shows(Before \union Mine) \/ Shows(Mine))
  /\ PanelIsRecent' <=> (alive' => Shows(Before \union Mine)' \/ Shows(Mine)')
BY DEF PanelIsRecent, Shows, Mine, Before

LEMMA PanelInit == Init => PanelIsRecent
<1> SUFFICES ASSUME Init PROVE PanelIsRecent
  OBVIOUS
<1>1. recent = <<>> /\ rows = <<>> /\ log = <<>> /\ DOMAIN log = {}
  BY DEF Init
<1>2. <<>> \in Seq(Nat) /\ Len(<<>>) = 0
  BY EmptyFacts
<1>3. ToSet(recent) = {} /\ Increasing(recent)
  BY <1>1, <1>2, ToSetFacts, IncreasingMeans
<1>4. Mine = {} /\ Newest({}, MaxRecent) = {}
  BY <1>1 DEF Mine, Newest
<1> QED BY <1>3, <1>4, PanelMeans DEF Shows

LEMMA PanelRecord ==
  ASSUME TypeOK, AccountInv, PanelIsRecent, Record
  PROVE  PanelIsRecent'
<1> DEFINE n == Len(log) + 1
<1>1. /\ DOMAIN log' = (DOMAIN log) \union {n} /\ n \notin DOMAIN log /\ n \in Nat
      /\ DOMAIN log \subseteq Nat /\ IsFiniteSet(DOMAIN log)
      /\ \A i \in DOMAIN log : i < n /\ log'[i] = log[i]
      /\ log'[n].life = lives
  <2>1. Len(log) \in Nat /\ DOMAIN log = 1..Len(log) /\ n \in Nat
    BY LogFacts
  <2>2. IsFiniteSet(1..Len(log)) /\ 1..Len(log) \subseteq Nat
    BY <2>1, FS_Interval
  <2> QED BY <2>1, <2>2, LogAppended
<1>2. /\ alive /\ lives' = lives /\ rows' = rows /\ recent' = LastN(Append(recent, n), MaxRecent)
  BY DEF Record, store
<1> HIDE DEF n
<1>3. ToSet(rows) \subseteq DOMAIN log
  BY OnLineRecorded DEF AccountInv, OnLine
<1>4. Mine' = Mine \union {n}
  BY <1>1, <1>2 DEF Mine
<1>5. Before' = Before
  BY <1>1, <1>2, <1>3 DEF Before
<1>6. recent \in Seq(Nat) /\ MaxRecent \in Nat \ {0}
  BY RequestsAreFinite, SeqOfSubset, StoreAssumption DEF TypeOK
<1>7. ASSUME NEW S \in SUBSET DOMAIN log, Shows(S) PROVE Increasing(recent') /\ ToSet(recent') = Newest(S \union {n}, MaxRecent)
  <2>1. S \in SUBSET Nat /\ IsFiniteSet(S) /\ \A x \in S : x < n
    BY <1>1, FS_Subset
  <2>2. Increasing(recent) /\ ToSet(recent) = Newest(S, MaxRecent)
    BY <1>7 DEF Shows
  <2>3. /\ Increasing(LastN(Append(recent, n), MaxRecent))
        /\ ToSet(LastN(Append(recent, n), MaxRecent)) = Newest(S \union {n}, MaxRecent)
    BY <1>1, <1>6, <2>1, <2>2, PanelAppend
  <2> QED BY <1>2, <2>3
<1>8. Before \union Mine \subseteq DOMAIN log /\ Mine \subseteq DOMAIN log
  BY <1>3 DEF Before, Mine
<1>9. CASE Shows(Before \union Mine)
  <2>1. Increasing(recent') /\ ToSet(recent') = Newest((Before \union Mine) \union {n}, MaxRecent)
    BY <1>7, <1>8, <1>9
  <2>2. (Before \union Mine) \union {n} = (Before \union Mine)'
    BY <1>4, <1>5
  <2>3. Shows(Before \union Mine)'
    BY <2>1, <2>2 DEF Shows, Newest
  <2> QED BY <2>3, PanelMeans
<1>10. CASE Shows(Mine)
  <2>1. Increasing(recent') /\ ToSet(recent') = Newest(Mine \union {n}, MaxRecent)
    BY <1>7, <1>8, <1>10
  <2>2. Shows(Mine)'
    BY <2>1, <1>4 DEF Shows, Newest
  <2> QED BY <2>2, PanelMeans
<1> QED BY <1>2, <1>9, <1>10, PanelMeans

LEMMA PanelStart ==
  ASSUME TypeOK, LogOrdered, AccountInv, Start
  PROVE  PanelIsRecent'
<1>1. /\ lives' = lives + 1 /\ log' = log /\ rows' = rows
      /\ recent' = LoadedRecent \/ recent' = <<>>
  BY DEF Start, store
<1>2. \A i \in DOMAIN log : log[i].life # lives + 1
  <2> TAKE i \in DOMAIN log
  <2>1. log[i].life <= lives /\ log[i].life \in Nat /\ lives \in Nat
    BY LogFacts DEF LogOrdered
  <2> QED BY <2>1
<1>3. ToSet(rows) \subseteq DOMAIN log
  BY OnLineRecorded DEF AccountInv, OnLine
<1>4. Mine' = {} /\ Before' = ToSet(rows)
  BY <1>1, <1>2, <1>3 DEF Mine, Before
<1>5. CASE recent' = LoadedRecent
  <2>1. Increasing(LoadedRecent) /\ ToSet(LoadedRecent) = Newest(ToSet(rows), MaxRecent)
    BY LoadedFacts DEF TypeOK
  <2>2. (Before \union Mine)' = ToSet(rows)
    BY <1>4
  <2>3. Increasing(recent') /\ ToSet(recent') = Newest(ToSet(rows), MaxRecent)
    BY <1>5, <2>1
  <2>4. Shows(Before \union Mine)'
    BY <2>2, <2>3 DEF Shows, Newest
  <2> QED BY <2>4, PanelMeans
<1>6. CASE recent' = <<>>
  <2>1. <<>> \in Seq(Nat) /\ Len(<<>>) = 0
    BY EmptyFacts
  <2>2. ToSet(recent') = {} /\ Increasing(recent')
    BY <1>6, <2>1, ToSetFacts, IncreasingMeans
  <2>3. Newest({}, MaxRecent) = {}
    BY DEF Newest
  <2>4. Shows(Mine)'
    BY <1>4, <2>2, <2>3 DEF Shows, Newest
  <2> QED BY <2>4, PanelMeans
<1> QED BY <1>1, <1>5, <1>6

LEMMA PanelStep ==
  ASSUME MinuteInv, BatchInHand, AccountInv, PanelIsRecent, [Next]_vars
  PROVE  PanelIsRecent'
<1>0. TypeOK /\ LogOrdered
  BY DEF MinuteInv
<1>1. ASSUME UNCHANGED <<alive, recent, lives, log, rows>> PROVE PanelIsRecent'
  BY <1>1 DEF PanelIsRecent
<1>2. CASE UNCHANGED vars \/ Tick \/ Enqueue \/ (\E b \in toFlush : Persist(b))
           \/ TakeFirst \/ TakeMore \/ WriteFails \/ WriterDies
  BY <1>1, <1>2 DEF vars, Tick, Enqueue, Persist, TakeFirst, TakeMore, WriteFails, WriterDies,
                    memory, recorder, thread, store, history
<1>3. CASE WriteRow
  <2> DEFINE h == Head(batch)
  <2>1. /\ batch # <<>> /\ rows' = Append(rows, h) /\ UNCHANGED <<alive, recent, lives, log>>
    BY <1>3 DEF WriteRow, BatchInHand, memory, history
  <2>2. batch \in Seq(Nat) /\ rows \in Seq(Nat) /\ h \in Nat /\ h \in ToSet(batch)
    <3>1. batch \in Seq(Nat) /\ rows \in Seq(Nat)
      BY <1>0, AccountSets
    <3> QED BY <2>1, <3>1, ToSetFacts
  <2> HIDE DEF h
  <2>3. ToSet(Append(rows, h)) = ToSet(rows) \union {h}
    BY <2>2, ToSetOfAppend
  <2>4. log[h].life = lives
    BY <2>2 DEF AccountInv, Ours
  <2>5. Before' = Before /\ Mine' = Mine
    BY <2>1, <2>3, <2>4 DEF Before, Mine
  <2>6. (Before \union Mine)' = Before \union Mine
    BY <2>5
  <2>7. /\ Shows(Before \union Mine) => Shows(Before \union Mine)'
        /\ Shows(Mine) => Shows(Mine)'
    BY <2>1, <2>5, <2>6 DEF Shows, Newest
  <2> QED BY <2>1, <2>7, PanelMeans
<1>4. CASE Stop
  BY <1>4 DEF Stop, PanelIsRecent
<1> QED BY <1>0, <1>2, <1>3, <1>4, PanelRecord, PanelStart DEF Next, Writer

\* _recent, filled by record_request and by load_recent_requests, is the newest of the
\* requests, in order and without a gap: across a restart, with the rows that were still
\* on their way when the process ended left out of both.
THEOREM PanelShowsTheRecent == Spec => []PanelIsRecent
<1>1. (MinuteInv /\ BatchInHand /\ AccountInv /\ PanelIsRecent) /\ [Next]_vars
        => (MinuteInv /\ BatchInHand /\ AccountInv /\ PanelIsRecent)'
  BY MinuteStep, AccountStep, PanelStep
<1>2. Spec => [](MinuteInv /\ BatchInHand /\ AccountInv /\ PanelIsRecent)
  BY <1>1, MinuteInit, AccountInit, PanelInit, PTL DEF Spec
<1> QED BY <1>2, PTL
=============================================================================
