-------------------------- MODULE EmbeddingsProofs --------------------------
(***************************************************************************)
(* Proofs about EmbeddingsFanout, for any requests, semaphore and retries. *)
(*                                                                         *)
(* The permits and the gauge are numbers kept beside the tasks: each is    *)
(* shown to be a count of the places where the tasks are.  An answer is    *)
(* whole because the native requests stay what NativeBodies made of the    *)
(* client's request, one a text, and a missing response is noticed.        *)
(***************************************************************************)
EXTENDS EmbeddingsFanout, SortedSeqsProofs

Places == {"queued", "loop", "sent", "asleep", "done"}
Slots == 1..Inputs
Inside == {"loop", "sent", "asleep"}  \* places where a task has a permit

\* How many tasks are in places of A.
Count(f, A) == Cardinality({j \in Slots : f[j] \in A})

\* What the endpoint accepted, and what it made of it.
Accepted ==
  /\ request.model \in DOMAIN Profiles
  /\ Parses(request) /\ Fits(Given, Cap)
  /\ bodies = NativeBodies(Given, Cap)

\* The inductive invariant.
Shape ==
  /\ request \in Requests
  /\ Items \subseteq Slots
  /\ at \in [Slots -> Places]
  /\ attempts \in [Slots -> Nat]
  /\ result \in [Slots -> Results \union {"none"}]
  /\ gauge \in Nat /\ permits \in Nat

Counted ==
  /\ gauge = Count(at, {"sent"})
  /\ permits + Count(at, Inside) = MaxConcurrency

Tried ==
  /\ \A i \in Slots : at[i] \in {"sent", "asleep", "done"} => attempts[i] >= 1
  /\ \A i \in Slots : at[i] # "queued" => i \in Items
  /\ answer # NoAnswer => \A i \in Items : at[i] = "done"

FanoutInv == Shape /\ Counted /\ Tried

-----------------------------------------------------------------------------
LEMMA SlotsAreFinite == IsFiniteSet(Slots)
BY FS_Interval, FanoutAssumption DEF Slots

\* One task moves: the count of a set of places goes with it.
LEMMA CountMoves ==
  ASSUME NEW f \in [Slots -> Places], NEW i \in Slots, NEW v \in Places, NEW A
  PROVE  /\ Count(f, A) \in Nat
         /\ f[i] \in A => Count(f, A) >= 1
         /\ f[i] \in A /\ v \notin A => Count([f EXCEPT ![i] = v], A) = Count(f, A) - 1
         /\ f[i] \notin A /\ v \in A => Count([f EXCEPT ![i] = v], A) = Count(f, A) + 1
         /\ (f[i] \in A <=> v \in A) => Count([f EXCEPT ![i] = v], A) = Count(f, A)
<1> DEFINE S == {j \in Slots : f[j] \in A}
           T == {j \in Slots : [f EXCEPT ![i] = v][j] \in A}
<1>1. IsFiniteSet(S) /\ IsFiniteSet(T)
  BY SlotsAreFinite, FS_Subset
<1>2. Cardinality(S) \in Nat
  BY <1>1, FS_CardinalityType
<1>3. f[i] \in A => S # {} /\ i \in S
  OBVIOUS
<1>4. f[i] \in A => Cardinality(S) >= 1
  <2> HIDE DEF S
  <2> QED BY <1>1, <1>2, <1>3, FS_EmptySet
<1>5. ASSUME f[i] \in A, v \notin A PROVE Cardinality(T) = Cardinality(S) - 1
  <2>1. T = S \ {i}
    BY <1>5
  <2> HIDE DEF S, T
  <2> QED BY <1>1, <1>3, <1>5, <2>1, FS_RemoveElement
<1>6. ASSUME f[i] \notin A, v \in A PROVE Cardinality(T) = Cardinality(S) + 1
  <2>1. T = S \cup {i} /\ i \notin S
    BY <1>6
  <2> HIDE DEF S, T
  <2> QED BY <1>1, <2>1, FS_AddElement
<1>7. ASSUME f[i] \in A <=> v \in A PROVE T = S
  BY <1>7
<1> QED BY <1>2, <1>4, <1>5, <1>6, <1>7 DEF Count

LEMMA SentMoves ==
  ASSUME NEW f \in [Slots -> Places], NEW i \in Slots, NEW v \in Places
  PROVE  LET n == Count(f, {"sent"})
             m == Count([f EXCEPT ![i] = v], {"sent"})
         IN /\ n \in Nat
            /\ f[i] = "sent" => n >= 1
            /\ f[i] = "sent" /\ v # "sent" => m = n - 1
            /\ f[i] # "sent" /\ v = "sent" => m = n + 1
            /\ (f[i] = "sent") = (v = "sent") => m = n
<1> DEFINE A == {"sent"}
           m == Count([f EXCEPT ![i] = v], A)
<1>1. \A x : x \in A <=> x = "sent"
  OBVIOUS
<1> HIDE DEF A
<1>2. Count(f, A) \in Nat
  BY CountMoves
<1>3. f[i] = "sent" => Count(f, A) >= 1
  BY <1>1, CountMoves
<1>4. f[i] = "sent" /\ v # "sent" => m = Count(f, A) - 1
  BY <1>1, CountMoves
<1>5. f[i] # "sent" /\ v = "sent" => m = Count(f, A) + 1
  BY <1>1, CountMoves
<1>6. (f[i] = "sent") = (v = "sent") => m = Count(f, A)
  <2> SUFFICES ASSUME (f[i] = "sent") = (v = "sent") PROVE m = Count(f, A)
    OBVIOUS
  <2>1. f[i] \in A <=> v \in A
    BY <1>1
  <2> QED BY <2>1, CountMoves
<1> QED BY <1>2, <1>3, <1>4, <1>5, <1>6 DEF A

LEMMA SentAreInside ==
  ASSUME NEW f \in [Slots -> Places]
  PROVE  Count(f, {"sent"}) <= Count(f, Inside)
<1> DEFINE S == {j \in Slots : f[j] \in {"sent"}}
           T == {j \in Slots : f[j] \in Inside}
<1>1. IsFiniteSet(T)
  BY SlotsAreFinite, FS_Subset
<1>2. S \in SUBSET T
  BY DEF Inside
<1>3. Cardinality(S) <= Cardinality(T)
  <2> HIDE DEF S, T
  <2> QED BY <1>1, <1>2, FS_Subset
<1> QED BY <1>3 DEF Count

-----------------------------------------------------------------------------
\* Native requests: as many as tasks there may be.

LEMMA GivenFacts ==
  ASSUME request \in Requests, request.model \in DOMAIN Profiles, Parses(request)
  PROVE  Given = [inputs |-> request.input.texts, encoding_format |-> request.encoding_format,
                  dimensions |-> IF request.dimensions = <<>> THEN Cap.default
                                 ELSE request.dimensions[1],
                  task |-> IF request.input_type = "absent" THEN "none" ELSE Word(request.input_type)]
<1>1. request.dimensions \in Seq(Nat)
  BY FanoutAssumption
<1>2. CASE request.dimensions = <<>>
  BY <1>2 DEF Given, WithDimensions, Parsed, Unset
<1>3. CASE request.dimensions # <<>>
  <2>1. 1 \in DOMAIN request.dimensions
    BY <1>1, <1>3
  <2>2. request.dimensions[1] > 0 /\ request.dimensions[1] \in Nat
    BY <1>1, <2>1 DEF Parses
  <2> QED BY <1>3, <2>2 DEF Given, WithDimensions, Parsed, Unset
<1> QED BY <1>2, <1>3

LEMMA BodiesFit ==
  ASSUME request \in Requests, request.model \in DOMAIN Profiles, Parses(request)
  PROVE  LET b == NativeBodies(Given, Cap)
         IN b # <<>> /\ DOMAIN b \subseteq Slots
<1>1. /\ request.input.texts \in Seq(STRING) /\ Len(request.input.texts) <= Inputs
      /\ request.input.texts # <<>>
  BY FanoutAssumption DEF Parses, InputParses
<1>2. Given.inputs = request.input.texts
  BY GivenFacts
<1>3. CASE Cap.family = "titan"
  <2>1. DOMAIN NativeBodies(Given, Cap) = 1..Len(request.input.texts)
    BY <1>1, <1>2, <1>3 DEF NativeBodies
  <2>2. Len(request.input.texts) \in Nat \ {0}
    BY <1>1
  <2> QED BY <1>1, <2>1, <2>2, FanoutAssumption DEF Slots
<1>4. CASE Cap.family # "titan"
  BY <1>4, FanoutAssumption DEF NativeBodies, Slots
<1> QED BY <1>3, <1>4

-----------------------------------------------------------------------------
\* The invariant is kept, action by action.

LEMMA FanoutInit == Init => FanoutInv
<1> SUFFICES ASSUME Init PROVE FanoutInv
  OBVIOUS
<1>1. Shape
  BY FanoutAssumption DEF Init, Shape, Items, Slots, Places
<1>2. \A A : "queued" \notin A => Count(at, A) = 0
  <2> SUFFICES ASSUME NEW A, "queued" \notin A PROVE Count(at, A) = 0
    OBVIOUS
  <2>1. {j \in Slots : at[j] \in A} = {}
    BY DEF Init, Slots
  <2> QED BY <2>1, FS_EmptySet DEF Count
<1>3. Counted
  <2>1. "queued" \notin {"sent"} /\ "queued" \notin Inside
    BY DEF Inside
  <2>2. Count(at, {"sent"}) = 0 /\ Count(at, Inside) = 0
    BY <1>2, <2>1
  <2> QED BY <2>2, FanoutAssumption DEF Init, Counted
<1>4. Tried
  BY DEF Init, Tried, NoAnswer, Slots
<1> QED BY <1>1, <1>3, <1>4 DEF FanoutInv

LEMMA ReceiveKeeps ==
  ASSUME FanoutInv, Receive
  PROVE  FanoutInv'
<1>1. UNCHANGED <<request, at, attempts, result, permits, gauge>>
  BY DEF Receive
<1>2. \A i \in Slots : at[i] = "queued"
  BY DEF FanoutInv, Tried, Receive, Items
<1>3. CASE /\ request.model \in DOMAIN Profiles
           /\ Parses(request) /\ Fits(Given, Cap)
  <2>1. bodies' = NativeBodies(Given, Cap) /\ UNCHANGED answer
    BY <1>3 DEF Receive
  <2>2. Items' \subseteq Slots
    BY <1>3, <2>1, BodiesFit DEF FanoutInv, Shape, Items
  <2>3. Shape' /\ Counted'
    BY <1>1, <2>2 DEF FanoutInv, Shape, Counted, Count
  <2>4. Tried'
    BY <1>1, <1>2, <2>1 DEF Tried, Receive, NoAnswer
  <2> QED BY <2>3, <2>4 DEF FanoutInv
<1>4. CASE ~(/\ request.model \in DOMAIN Profiles
             /\ Parses(request) /\ Fits(Given, Cap))
  <2>1. UNCHANGED bodies
    BY <1>4 DEF Receive
  <2>2. Shape' /\ Counted'
    BY <1>1, <2>1 DEF FanoutInv, Shape, Counted, Count, Items
  <2>3. Items' = {}
    BY <2>1 DEF Receive, Items
  <2>4. Tried'
    BY <1>1, <1>2, <2>3 DEF Tried
  <2> QED BY <2>2, <2>4 DEF FanoutInv
<1> QED BY <1>3, <1>4

LEMMA AcquireKeeps ==
  ASSUME FanoutInv, NEW i \in Items, Acquire(i)
  PROVE  FanoutInv'
<1>1. /\ i \in Slots /\ at \in [Slots -> Places] /\ at[i] = "queued"
      /\ at' = [at EXCEPT ![i] = "loop"] /\ permits' = permits - 1 /\ permits > 0
  BY DEF FanoutInv, Shape, Acquire
<1>2. UNCHANGED <<request, bodies, attempts, result, gauge, answer>>
  BY DEF Acquire, given
<1>3. Shape'
  BY <1>1, <1>2 DEF FanoutInv, Shape, Items, Places
<1>4. /\ Count(at', {"sent"}) = Count(at, {"sent"})
      /\ Count(at', Inside) = Count(at, Inside) + 1
      /\ Count(at, Inside) \in Nat
  <2>1. at[i] \notin Inside /\ "loop" \in Inside /\ "loop" \in Places
    BY <1>1 DEF Inside, Places
  <2>2. Count(at', Inside) = Count(at, Inside) + 1 /\ Count(at, Inside) \in Nat
    BY <1>1, <2>1, CountMoves
  <2> QED BY <1>1, <2>1, <2>2, SentMoves
<1>5. Counted'
  BY <1>1, <1>2, <1>4 DEF FanoutInv, Counted, Shape
<1>6. Tried'
  BY <1>1, <1>2 DEF FanoutInv, Tried, Items, Shape
<1> QED BY <1>3, <1>5, <1>6 DEF FanoutInv

\* A task that leaves from "loop" or from "sent", with the gauge taken down in the
\* latter case.
LEMMA LeavingKeeps ==
  ASSUME FanoutInv, NEW i \in Items, NEW r \in Results, Leaves(i, r),
         UNCHANGED <<request, bodies, answer>>,
         \/ at[i] = "sent" /\ gauge' = gauge - 1
         \/ at[i] = "loop" /\ UNCHANGED gauge,
         attempts' \in [Slots -> Nat], attempts'[i] >= 1,
         \A j \in Slots : attempts'[j] >= attempts[j]
  PROVE  FanoutInv'
<1>1. /\ i \in Slots /\ at \in [Slots -> Places] /\ at' = [at EXCEPT ![i] = "done"]
      /\ permits' = permits + 1 /\ result' = [result EXCEPT ![i] = r]
  BY DEF FanoutInv, Shape, Leaves
<1>2. /\ at[i] = "sent" => Count(at', {"sent"}) = Count(at, {"sent"}) - 1 /\ Count(at, {"sent"}) >= 1
      /\ at[i] = "loop" => Count(at', {"sent"}) = Count(at, {"sent"})
      /\ Count(at', Inside) = Count(at, Inside) - 1
      /\ Count(at, Inside) \in Nat /\ Count(at, {"sent"}) \in Nat
  <2>1. at[i] \in Inside /\ "done" \notin Inside /\ "done" \in Places
    BY DEF Inside, Places
  <2>2. Count(at', Inside) = Count(at, Inside) - 1 /\ Count(at, Inside) \in Nat
    BY <1>1, <2>1, CountMoves
  <2> QED BY <1>1, <2>1, <2>2, SentMoves
<1>3. gauge' \in Nat /\ gauge' = Count(at', {"sent"})
  BY <1>2 DEF FanoutInv, Counted, Shape
<1>4. Counted'
  BY <1>1, <1>2, <1>3 DEF FanoutInv, Counted, Shape
<1>5. Shape'
  BY <1>1, <1>3 DEF FanoutInv, Shape, Items, Places
<1>6. Tried'
  <2>1. \A j \in Slots : at'[j] \in {"sent", "asleep", "done"} => attempts'[j] >= 1
    BY <1>1 DEF FanoutInv, Tried, Shape
  <2>2. \A j \in Slots : at'[j] # "queued" => j \in Items'
    BY <1>1 DEF FanoutInv, Tried, Items
  <2>3. answer' # NoAnswer => \A j \in Items' : at'[j] = "done"
    BY <1>1 DEF FanoutInv, Tried, Items, Shape
  <2> QED BY <2>1, <2>2, <2>3 DEF Tried
<1> QED BY <1>4, <1>5, <1>6 DEF FanoutInv

\* A task that moves between places where it keeps its permit.
LEMMA StayingKeeps ==
  ASSUME FanoutInv, NEW i \in Items, NEW v \in Inside, at[i] \in Inside,
         at' = [at EXCEPT ![i] = v],
         UNCHANGED <<request, bodies, answer, result, permits>>,
         gauge' = gauge + (IF v = "sent" THEN 1 ELSE 0) - (IF at[i] = "sent" THEN 1 ELSE 0),
         attempts' \in [Slots -> Nat], v # "loop" => attempts'[i] >= 1,
         \A j \in Slots : attempts'[j] >= attempts[j]
  PROVE  FanoutInv'
<1>1. i \in Slots /\ at \in [Slots -> Places] /\ v \in Places
  BY DEF FanoutInv, Shape, Inside, Places
<1>2. Count(at', Inside) = Count(at, Inside)
  BY <1>1, CountMoves
<1>3. gauge' \in Nat /\ gauge' = Count(at', {"sent"})
  <2>1. gauge = Count(at, {"sent"})
    BY DEF FanoutInv, Counted
  <2> DEFINE n == Count(at, {"sent"})
             m == Count(at', {"sent"})
  <2>2. /\ n \in Nat
        /\ at[i] = "sent" => n >= 1
        /\ at[i] = "sent" /\ v # "sent" => m = n - 1
        /\ at[i] # "sent" /\ v = "sent" => m = n + 1
        /\ (at[i] = "sent") = (v = "sent") => m = n
    BY <1>1, SentMoves
  <2> HIDE DEF n, m
  <2> QED BY <2>1, <2>2 DEF n, m
<1>4. Counted'
  BY <1>2, <1>3 DEF FanoutInv, Counted
<1>5. Shape'
  BY <1>1, <1>3 DEF FanoutInv, Shape, Items
<1>6. Tried'
  <2>1. \A j \in Slots : at'[j] \in {"sent", "asleep", "done"} => attempts'[j] >= 1
    BY <1>1 DEF FanoutInv, Tried, Shape, Inside
  <2>2. \A j \in Slots : at'[j] # "queued" => j \in Items'
    BY <1>1 DEF FanoutInv, Tried, Items
  <2>3. answer' # NoAnswer => \A j \in Items' : at'[j] = "done"
    BY <1>1 DEF FanoutInv, Tried, Items, Inside
  <2> QED BY <2>1, <2>2, <2>3 DEF Tried
<1> QED BY <1>4, <1>5, <1>6 DEF FanoutInv

LEMMA TaskKeeps ==
  ASSUME FanoutInv, NEW i \in Items, Task(i)
  PROVE  FanoutInv'
<1>0. /\ i \in Slots /\ attempts \in [Slots -> Nat] /\ at \in [Slots -> Places]
      /\ gauge \in Nat
  BY DEF FanoutInv, Shape
<1>1. CASE Acquire(i)
  BY <1>1, AcquireKeeps
<1>2. CASE Attempt(i)
  <2>0. UNCHANGED <<request, bodies, answer>> /\ at[i] = "loop"
    BY <1>2 DEF Attempt, given
  <2>1. CASE /\ attempts' = [attempts EXCEPT ![i] = @ + 1]
             /\ gauge' = gauge + 1 /\ at' = [at EXCEPT ![i] = "sent"]
             /\ UNCHANGED <<result, permits>>
    <3>1. /\ "sent" \in Inside /\ at[i] \in Inside /\ attempts' \in [Slots -> Nat]
          /\ gauge' = gauge + (IF "sent" = "sent" THEN 1 ELSE 0)
                           - (IF at[i] = "sent" THEN 1 ELSE 0)
          /\ attempts'[i] >= 1 /\ \A j \in Slots : attempts'[j] >= attempts[j]
      BY <1>0, <2>0, <2>1 DEF Inside
    <3> QED BY <2>0, <2>1, <3>1, StayingKeeps
  <2>2. CASE /\ attempts' = [attempts EXCEPT ![i] = @ + 1]
             /\ Leaves(i, "unexpected") /\ UNCHANGED gauge
    BY <1>0, <2>0, <2>2, LeavingKeeps DEF Results, Failures
  <2>3. CASE attempts[i] > 0 /\ Leaves(i, "gave_up") /\ UNCHANGED <<attempts, gauge>>
    BY <1>0, <2>0, <2>3, LeavingKeeps DEF Results, Failures
  <2> QED BY <1>2, <2>1, <2>2, <2>3 DEF Attempt
<1>3. CASE Settle(i)
  <2>1. attempts[i] >= 1
    BY <1>0, <1>3 DEF FanoutInv, Tried, Settle
  <2>2. PICK r \in Natives \union {"odd", "malformed", "refused"} : Leaves(i, r)
    BY <1>3 DEF Settle
  <2> QED BY <1>0, <1>3, <2>1, <2>2, LeavingKeeps DEF Settle, given, Results, Failures
<1>4. CASE Trip(i)
  <2>1. attempts[i] >= 1 /\ at[i] = "sent" /\ gauge' = gauge - 1 /\ UNCHANGED attempts
    BY <1>0, <1>4 DEF FanoutInv, Tried, Trip
  <2>2. UNCHANGED <<request, bodies, answer>>
    BY <1>4 DEF Trip, given
  <2>3. CASE at' = [at EXCEPT ![i] = "asleep"] /\ UNCHANGED <<result, permits>>
    <3>1. /\ "asleep" \in Inside /\ at[i] \in Inside /\ attempts' \in [Slots -> Nat]
          /\ gauge' = gauge + (IF "asleep" = "sent" THEN 1 ELSE 0)
                           - (IF at[i] = "sent" THEN 1 ELSE 0)
          /\ attempts'[i] >= 1 /\ \A j \in Slots : attempts'[j] >= attempts[j]
      BY <1>0, <2>1 DEF Inside
    <3> QED BY <2>2, <2>3, <3>1, StayingKeeps
  <2>4. CASE Leaves(i, "gave_up")
    BY <1>0, <2>1, <2>2, <2>4, LeavingKeeps DEF Results, Failures
  <2> QED BY <1>4, <2>3, <2>4 DEF Trip
<1>5. CASE Wake(i)
  <2>1. /\ at[i] = "asleep" /\ at' = [at EXCEPT ![i] = "loop"]
        /\ UNCHANGED <<request, bodies, answer, result, permits, gauge, attempts>>
    BY <1>5 DEF Wake, given
  <2>2. /\ "loop" \in Inside /\ at[i] \in Inside /\ attempts' \in [Slots -> Nat]
        /\ gauge' = gauge + (IF "loop" = "sent" THEN 1 ELSE 0)
                         - (IF at[i] = "sent" THEN 1 ELSE 0)
        /\ \A j \in Slots : attempts'[j] >= attempts[j]
    BY <1>0, <2>1 DEF Inside
  <2> QED BY <2>1, <2>2, StayingKeeps
<1> QED BY <1>1, <1>2, <1>3, <1>4, <1>5 DEF Task

LEMMA FanoutStep == FanoutInv /\ [Next]_vars => FanoutInv'
<1> SUFFICES ASSUME FanoutInv, [Next]_vars PROVE FanoutInv'
  OBVIOUS
<1>1. CASE Receive
  BY <1>1, ReceiveKeeps
<1>2. CASE Expire
  BY <1>2 DEF Expire, given, FanoutInv, Shape, Counted, Count, Tried, Items
<1>3. CASE Answer
  <2>1. UNCHANGED <<request, bodies, at, attempts, result, permits, gauge>>
    BY <1>3 DEF Answer, given
  <2> QED BY <1>3, <2>1 DEF Answer, FanoutInv, Shape, Counted, Count, Tried, Items
<1>4. CASE \E i \in Items : Task(i)
  BY <1>4, TaskKeeps
<1>5. CASE UNCHANGED vars
  BY <1>5 DEF vars, given, FanoutInv, Shape, Counted, Count, Tried, Items
<1> QED BY <1>1, <1>2, <1>3, <1>4, <1>5 DEF Next

-----------------------------------------------------------------------------
\* What follows from it.

\* The upstream gauge is the number of open connections and never exceeds the
\* semaphore (server.py:2249), with any number of texts and any interleaving.
THEOREM ConnectionsAreBounded == Spec => []ConnectionsBounded
<1>1. FanoutInv => ConnectionsBounded
  <2> SUFFICES ASSUME FanoutInv PROVE ConnectionsBounded
    OBVIOUS
  <2>1. {i \in Items : at[i] = "sent"} = {j \in Slots : at[j] \in {"sent"}}
    BY DEF FanoutInv, Tried, Shape
  <2>2. gauge = Cardinality({i \in Items : at[i] = "sent"})
    BY <2>1 DEF FanoutInv, Counted, Count
  <2>3. Count(at, {"sent"}) <= Count(at, Inside) /\ Count(at, Inside) \in Nat
    <3>1. IsFiniteSet({j \in Slots : at[j] \in Inside})
      BY SlotsAreFinite, FS_Subset
    <3>2. Count(at, Inside) \in Nat
      BY <3>1, FS_CardinalityType DEF Count
    <3> QED BY <3>2, SentAreInside DEF FanoutInv, Shape
  <2>4. gauge <= MaxConcurrency
    BY <2>3, FanoutAssumption DEF FanoutInv, Counted, Shape
  <2> QED BY <2>2, <2>4 DEF ConnectionsBounded
<1> QED BY <1>1, FanoutInit, FanoutStep, PTL DEF Spec

\* Every text gets an attempt before the request is answered.
THEOREM EveryTextIsTried == Spec => []EveryTextTried
<1>1. FanoutInv => EveryTextTried
  BY DEF FanoutInv, Tried, Shape, EveryTextTried
<1> QED BY <1>1, FanoutInit, FanoutStep, PTL DEF Spec

\* No text is sent again after the shared deadline.
THEOREM NothingResentLate == Spec => NoResendWhenLate
<1>1. FanoutInv /\ [Next]_vars =>
        [\A i \in Items : attempts'[i] > attempts[i] /\ attempts[i] > 0 => ~late]_vars
  <2> SUFFICES ASSUME FanoutInv, Next, NEW i \in Items,
                      attempts'[i] > attempts[i], attempts[i] > 0
               PROVE  ~late
    OBVIOUS
  <2>0. attempts \in [Slots -> Nat] /\ i \in Slots
    BY DEF FanoutInv, Shape
  <2>1. ~UNCHANGED attempts
    BY <2>0
  <2>2. PICK j \in Items : Attempt(j)
    BY <2>1 DEF Next, Task, Receive, Expire, Answer, Acquire, Settle, Trip, Wake
  <2>3. j = i
    BY <2>0, <2>2 DEF Attempt
  <2> QED BY <2>0, <2>1, <2>2, <2>3 DEF Attempt
<1> QED BY <1>1, FanoutInit, FanoutStep, PTL DEF Spec, NoResendWhenLate

-----------------------------------------------------------------------------
\* An answer is whole.

\* A vector of native request i, as the client is to get it.
VectorOf(text) ==
  [text |-> text,
   dimensions |-> IF request.dimensions = <<>> THEN 1024 ELSE request.dimensions[1],
   task |-> WantedTask, format |-> request.encoding_format]

LEMMA WantedFacts ==
  ASSUME request \in Requests
  PROVE  /\ request.input.texts \in Seq(STRING)
         /\ Wanted = [k \in 1..Len(request.input.texts) |-> VectorOf(request.input.texts[k])]
BY FanoutAssumption DEF Wanted, VectorOf

\* The task and the dimensions of what is sent are those the client asked for.
LEMMA TaskIsWanted ==
  ASSUME request \in Requests, Accepted
  PROVE  /\ (Cap.family = "titan") = (request.model = "titan")
         /\ Given.dimensions = IF request.dimensions = <<>> THEN 1024 ELSE request.dimensions[1]
         /\ TaskOf(Given, Cap) = WantedTask
<1>1. request.model \in {"document", "query", "dynamic", "titan"}
  BY DEF Accepted, Profiles
<1>2. /\ Given.dimensions = IF request.dimensions = <<>> THEN Cap.default ELSE request.dimensions[1]
      /\ Given.task = IF request.input_type = "absent" THEN "none" ELSE Word(request.input_type)
  BY GivenFacts DEF Accepted
<1>3. (Given.task # "none") = (Cap.policy = "accepted")
  BY DEF Accepted, Fits, TaskFits
<1>4. CASE request.model = "titan"
  BY <1>2, <1>4 DEF Cap, Profiles, Titan, TaskOf, WantedTask
<1>5. CASE request.model = "dynamic"
  <2>1. Cap = Cohere("accepted", "none")
    BY <1>5 DEF Cap, Profiles
  <2>2. Cap.family = "cohere" /\ Cap.default = 1024 /\ Cap.policy = "accepted"
    BY <2>1 DEF Cohere
  <2>3. Given.task = Word(request.input_type) /\ Given.task # "none"
    BY <1>2, <1>3, <2>2
  <2> QED BY <1>2, <1>5, <2>2, <2>3 DEF TaskOf, WantedTask
<1>6. CASE request.model \in {"document", "query"}
  <2>1. Cap = Cohere("fixed", request.model)
    BY <1>6 DEF Cap, Profiles
  <2>2. /\ Cap.family = "cohere" /\ Cap.default = 1024
        /\ Cap.policy = "fixed" /\ Cap.fixed = request.model
    BY <2>1 DEF Cohere
  <2>3. Given.task = "none"
    BY <1>3, <2>2
  <2> QED BY <1>2, <1>6, <2>2, <2>3 DEF TaskOf, WantedTask
<1> QED BY <1>1, <1>4, <1>5, <1>6

\* What is rendered without an error is wanted.
LEMMA ListedIsWanted ==
  ASSUME FanoutInv, Accepted, NEW a \in Listed
  PROVE  /\ \A k \in DOMAIN a.data \intersect DOMAIN Wanted : a.data[k] = Wanted[k]
         /\ request.model = "titan" => DOMAIN a.data = DOMAIN Wanted
<1> DEFINE texts == request.input.texts
<1>1. texts \in Seq(STRING) /\ Wanted = [k \in 1..Len(texts) |-> VectorOf(texts[k])]
  BY WantedFacts DEF FanoutInv, Shape
<1>2. Given.inputs = texts /\ Given.encoding_format = request.encoding_format
  BY GivenFacts DEF Accepted, FanoutInv, Shape
<1>3. /\ (Cap.family = "titan") = (request.model = "titan")
      /\ Given.dimensions = IF request.dimensions = <<>> THEN 1024 ELSE request.dimensions[1]
      /\ TaskOf(Given, Cap) = WantedTask
  BY TaskIsWanted DEF FanoutInv, Shape
<1>4. CASE Cap.family = "titan"
  <2>1. bodies = [k \in 1..Len(texts) |-> Native(<<texts[k]>>, Given, Cap)]
    BY <1>1, <1>2, <1>4 DEF Accepted, NativeBodies
  <2>2. Items = 1..Len(texts)
    BY <2>1 DEF Items
  <2>3. ASSUME NEW k \in 1..Len(texts) PROVE Vectors(k, 1)[1] = VectorOf(texts[k])
    BY <1>2, <1>3, <2>1 DEF Vectors, Vector, Native, VectorOf
  <2>4. a.data = [k \in 1..Len(texts) |-> Vectors(k, 1)[1]]
    BY <1>4, <2>2 DEF Listed
  <2>5. a.data = Wanted
    BY <1>1, <2>3, <2>4
  <2> QED BY <2>5
<1>5. CASE Cap.family # "titan"
  <2>1. bodies[1] = Native(texts, Given, Cap)
    BY <1>2, <1>5 DEF Accepted, NativeBodies
  <2>2. PICK n \in 0..(Len(texts) + 1) : a.data = Vectors(1, n)
    BY <1>2, <1>5 DEF Listed
  <2>3. DOMAIN a.data = 1..n /\ DOMAIN Wanted = 1..Len(texts)
    BY <1>1, <2>2 DEF Vectors
  <2>4. ASSUME NEW k \in 1..n, k \in 1..Len(texts) PROVE a.data[k] = VectorOf(texts[k])
    BY <1>1, <1>2, <1>3, <2>1, <2>2, <2>4 DEF Vectors, Vector, Native, VectorOf
  <2> QED BY <1>1, <1>3, <1>5, <2>3, <2>4
<1> QED BY <1>4, <1>5

\* What the tasks left behind never makes a request refused.
LEMMA AnswerStatus ==
  ASSUME Answer
  PROVE  answer'.status \in {"200", "500", "502", "upstream_status"}
<1> DEFINE failed == {i \in Items : result[i] \in Failures}
<1>1. CASE failed # {}
  <2>1. answer' = ErrorOf(result[Min(failed)])
    BY <1>1 DEF Answer
  <2> QED BY <2>1 DEF ErrorOf, Error
<1>2. CASE failed = {}
  <2>1. answer' \in Rendered
    BY <1>2 DEF Answer
  <2>2. \A a \in Listed : a.status = "200"
    BY DEF Listed
  <2> QED BY <2>1, <2>2 DEF Rendered, Error
<1> QED BY <1>1, <1>2

\* The native requests are those of the client's request, and there are none of one that
\* is refused.
WholeInv ==
  /\ FanoutInv
  /\ bodies # <<>> => Accepted
  /\ answer.status = "400" => bodies = <<>>
  /\ WholeOrError

LEMMA WholeInvariant == Spec => []WholeInv
<1>1. Init => WholeInv
  BY FanoutInit DEF Init, WholeInv, WholeOrError, NoAnswer
<1>2. WholeInv /\ [Next]_vars => WholeInv'
  <2> SUFFICES ASSUME WholeInv, [Next]_vars PROVE WholeInv'
    OBVIOUS
  <2>1. FanoutInv'
    BY FanoutStep DEF WholeInv
  <2>2. CASE UNCHANGED <<request, bodies, answer>> /\ (answer.status = "200" => UNCHANGED result)
    <3>1. /\ (bodies # <<>> => Accepted)' /\ (answer.status = "400" => bodies = <<>>)'
      BY <2>2 DEF WholeInv, Accepted, Given, Cap
    <3>2. Wanted' = Wanted /\ Items' = Items
      BY <2>2 DEF Wanted, WantedTask, Items
    <3>3. WholeOrError'
      BY <2>2, <3>2 DEF WholeInv, WholeOrError
    <3> QED BY <2>1, <3>1, <3>3 DEF WholeInv
  <2>3. CASE Receive
    <3>1. UNCHANGED request /\ (answer' = answer \/ answer' = Error("400")) /\ answer = NoAnswer
      BY <2>3 DEF Receive
    <3>2. bodies' # <<>> => Accepted'
      BY <2>3, <3>1 DEF Receive, Accepted, Given, Cap
    <3>3. WholeOrError'
      BY <3>1 DEF WholeOrError, Error, NoAnswer
    <3>4. (answer.status = "400" => bodies = <<>>)'
      BY <2>3 DEF Receive, NoAnswer
    <3> QED BY <2>1, <3>2, <3>3, <3>4 DEF WholeInv
  <2>4. CASE Expire
    BY <2>2, <2>4 DEF Expire, given
  <2>5. CASE Answer
    <3>1. UNCHANGED <<request, bodies, result>> /\ bodies # <<>>
      BY <2>5 DEF Answer, given
    <3>2. Accepted /\ Accepted'
      BY <3>1 DEF WholeInv, Accepted, Given, Cap
    <3>3. ASSUME answer'.status = "200"
          PROVE  answer' \in Listed /\ \A i \in Items : result[i] = "vectors"
      <4>1. answer' \in Rendered
        BY <2>5, <3>3 DEF Answer, ErrorOf, Error
      <4>2. (\A i \in Items : result[i] \in Natives) /\ BadNatives = {} /\ answer' \in Listed
        BY <3>3, <4>1 DEF Rendered, Error
      <4> QED BY <4>2 DEF BadNatives
    <3>4. WholeOrError'
      BY <3>1, <3>2, <3>3, ListedIsWanted
         DEF WholeInv, WholeOrError, Wanted, WantedTask, Items
    <3>5. answer'.status # "400"
      BY <2>5, AnswerStatus
    <3> QED BY <2>1, <3>2, <3>4, <3>5 DEF WholeInv
  <2>6. CASE \E i \in Items : Task(i)
    <3>1. PICK i \in Items : Task(i)
      BY <2>6
    <3>2. UNCHANGED <<request, bodies, answer>>
      BY <3>1 DEF Task, Acquire, Attempt, Settle, Trip, Wake, given
    <3>3. at[i] # "done"
      BY <3>1 DEF Task, Acquire, Attempt, Settle, Trip, Wake
    <3>4. answer = NoAnswer
      BY <3>3 DEF WholeInv, FanoutInv, Tried
    <3> QED BY <2>2, <3>2, <3>4 DEF NoAnswer
  <2>7. CASE UNCHANGED vars
    BY <2>2, <2>7 DEF vars, given
  <2> QED BY <2>3, <2>4, <2>5, <2>6, <2>7 DEF Next
<1> QED BY <1>1, <1>2, PTL DEF Spec

\* Whatever the tasks did and in whatever order, an answer follows no failure and has at
\* every text's place the vector of that text; where the provider takes one text per
\* request, it has one for each.
THEOREM AnswersAreWhole == Spec => []WholeOrError
<1>1. WholeInv => WholeOrError
  BY DEF WholeInv
<1> QED BY <1>1, WholeInvariant, PTL

-----------------------------------------------------------------------------
\* What is sent is acceptable.

\* Texts put one by one into requests are all there, once, in order.
LEMMA SinglesFlatten ==
  ASSUME NEW T, NEW t \in Seq(T), t # <<>>,
         NEW s, s = [k \in 1..Len(t) |-> <<t[k]>>]
  PROVE  FlattenSeq(s) = t
<1> DEFINE F(f) == f = [k \in 1..Len(s) |-> IF k = 1 THEN s[k] ELSE f[k-1] \o s[k]]
           g == [k \in 1..Len(t) |-> SubSeq(t, 1, k)]
           f == CHOOSE f : F(f)
<1>1. /\ Len(t) \in Nat \ {0} /\ Len(s) = Len(t) /\ DOMAIN s = 1..Len(t)
      /\ \A k \in 1..Len(t) : s[k] = <<t[k]>>
  OBVIOUS
<1>2. ASSUME NEW k \in 1..Len(t)
      PROVE  SubSeq(t, 1, k) = IF k = 1 THEN <<t[k]>> ELSE SubSeq(t, 1, k - 1) \o <<t[k]>>
  <2> DEFINE a == SubSeq(t, 1, k)
             b == SubSeq(t, 1, k - 1)
             c == <<t[k]>>
  <2>0. k \in Nat /\ 1 <= k /\ k <= Len(t) /\ t[k] \in T
    BY <1>1
  <2>1. a \in Seq(T) /\ Len(a) = k /\ \A j \in 1..k : a[j] = t[j]
    BY <2>0
  <2>2. c \in Seq(T) /\ Len(c) = 1 /\ c[1] = t[k]
    BY <2>0
  <2>3. CASE k = 1
    <3> HIDE DEF a, c
    <3>1. \A j \in 1..1 : a[j] = c[j]
      BY <2>1, <2>2, <2>3
    <3>2. a = c
      BY <2>1, <2>2, <2>3, <3>1, SeqEqual
    <3> QED BY <2>3, <3>2 DEF a, c
  <2>4. CASE k # 1
    <3>1. b \in Seq(T) /\ Len(b) = k - 1 /\ \A j \in 1..(k - 1) : b[j] = t[j]
      BY <2>0, <2>4
    <3> HIDE DEF a, b, c
    <3>2. /\ b \o c \in Seq(T) /\ Len(b \o c) = k
          /\ \A j \in 1..k : (b \o c)[j] = IF j <= k - 1 THEN b[j] ELSE c[j - (k - 1)]
      <4>1. /\ b \o c \in Seq(T) /\ Len(b \o c) = Len(b) + Len(c)
            /\ \A j \in 1..Len(b) + Len(c) :
                 (b \o c)[j] = IF j <= Len(b) THEN b[j] ELSE c[j - Len(b)]
        BY ONLY <2>2, <3>1, ConcatProperties
      <4>2. Len(b) + Len(c) = k /\ Len(b) = k - 1
        BY <2>0, <2>2, <3>1
      <4>3. 1..Len(b) + Len(c) = 1..k
        BY <4>2
      <4> QED BY <4>1, <4>2, <4>3
    <3>3. \A j \in 1..k : a[j] = (b \o c)[j]
      <4> TAKE j \in 1..k
      <4>0. k \in Nat /\ j \in Nat /\ j >= 1 /\ j <= k
        BY <2>0
      <4>1. CASE j <= k - 1
        <5>1. j \in 1..(k - 1)
          BY <4>0, <4>1
        <5>2. a[j] = t[j] /\ b[j] = t[j] /\ (b \o c)[j] = b[j]
          BY <2>1, <3>1, <3>2, <4>1, <5>1
        <5> QED BY <5>2
      <4>2. CASE j = k
        <5>1. ~(j <= k - 1) /\ j - (k - 1) = 1
          BY <4>0, <4>2
        <5>2. a[j] = t[j] /\ (b \o c)[j] = c[1]
          BY <2>1, <3>2, <5>1
        <5> QED BY <2>2, <4>2, <5>2
      <4>3. j <= k - 1 \/ j = k
        BY <4>0
      <4> QED BY ONLY <4>1, <4>2, <4>3
    <3>4. a = b \o c
      BY <2>1, <3>2, <3>3, SeqEqual
    <3> QED BY <2>4, <3>4 DEF a, b, c
  <2> QED BY <2>3, <2>4
<1>3. F(g)
  <2>1. ASSUME NEW k \in 1..Len(t)
        PROVE  SubSeq(t, 1, k) = IF k = 1 THEN s[k] ELSE g[k-1] \o s[k]
    <3>1. k # 1 => k - 1 \in 1..Len(t) /\ g[k-1] = SubSeq(t, 1, k - 1)
      BY <1>1
    <3>2. s[k] = <<t[k]>>
      BY <1>1
    <3> QED BY <1>2, <3>1, <3>2
  <2>2. g = [k \in 1..Len(t) |-> IF k = 1 THEN s[k] ELSE g[k-1] \o s[k]]
    BY Zenon, <2>1
  <2> QED BY <1>1, <2>2
<1>4. F(f)
  <2> HIDE DEF F, g
  <2> QED BY <1>3
<1>5. f = [k \in 1..Len(s) |-> IF k = 1 THEN s[k] ELSE f[k-1] \o s[k]]
  BY <1>4
<1> DEFINE P == {n \in Nat : n + 1 \in 1..Len(t) => f[n + 1] = SubSeq(t, 1, n + 1)}
<1> HIDE DEF f
<1>6. 0 \in P
  BY <1>1, <1>2, <1>5
<1>7. ASSUME NEW n \in P PROVE n + 1 \in P
  <2>1. CASE n + 2 \in 1..Len(t)
    <3>1. n + 1 \in 1..Len(t) /\ f[n + 1] = SubSeq(t, 1, n + 1)
      BY <1>1, <2>1
    <3>2. f[n + 2] = f[n + 1] \o <<t[n + 2]>>
      <4>1. n + 2 # 1 /\ (n + 2) - 1 = n + 1 /\ n + 2 \in 1..Len(s)
        BY <1>1, <2>1
      <4>2. f[n + 2] = f[(n + 2) - 1] \o s[n + 2]
        BY <1>5, <4>1
      <4>3. s[n + 2] = <<t[n + 2]>>
        BY <1>1, <2>1
      <4> QED BY <4>1, <4>2, <4>3
    <3>3. SubSeq(t, 1, n + 2) = SubSeq(t, 1, n + 1) \o <<t[n + 2]>>
      BY <1>2, <2>1
    <3>4. (n + 1) + 1 = n + 2
      OBVIOUS
    <3> QED BY <3>1, <3>2, <3>3, <3>4
  <2>2. CASE n + 2 \notin 1..Len(t)
    BY <2>2
  <2> QED BY <2>1, <2>2
<1>8. P \in SUBSET Nat
  OBVIOUS
<1>9. P = Nat
  <2> HIDE DEF P
  <2> QED BY <1>6, <1>7, <1>8, Induction
<1>10. f[Len(t)] = SubSeq(t, 1, Len(t))
  <2>1. Len(t) - 1 \in Nat
    BY <1>1
  <2>2. (Len(t) - 1) + 1 = Len(t) /\ Len(t) \in 1..Len(t)
    BY <1>1
  <2>3. Len(t) - 1 \in P
    <3> HIDE DEF P
    <3> QED BY <1>9, <2>1
  <2>4. (Len(t) - 1) + 1 \in 1..Len(t)
    BY <2>2
  <2>5. f[(Len(t) - 1) + 1] = SubSeq(t, 1, (Len(t) - 1) + 1)
    BY <2>3, <2>4
  <2> QED BY <2>2, <2>5
<1>11. FlattenSeq(s) = f[Len(s)]
  BY <1>1 DEF FlattenSeq, f
<1>12. SubSeq(t, 1, Len(t)) = t
  BY <1>1
<1> QED BY <1>1, <1>10, <1>11, <1>12

LEMMA OneFlattens == ASSUME NEW t PROVE FlattenSeq(<<t>>) = t
<1> DEFINE s == <<t>>
           F(f) == f = [k \in 1..Len(s) |-> IF k = 1 THEN s[k] ELSE f[k-1] \o s[k]]
           f == CHOOSE f : F(f)
<1>1. Len(s) = 1 /\ s[1] = t
  OBVIOUS
<1>2. F([k \in 1..1 |-> t])
  BY <1>1
<1>3. F(f)
  <2> HIDE DEF F
  <2> QED BY <1>2
<1>4. f[1] = t
  <2> HIDE DEF f
  <2> QED BY <1>1, <1>3
<1>5. FlattenSeq(s) = f[Len(s)]
  BY <1>1 DEF FlattenSeq
<1> QED BY <1>1, <1>4, <1>5

\* The dimensions and the task that pass the checks of a profile are those it has.
LEMMA GivenFits ==
  ASSUME request \in Requests, Accepted
  PROVE  /\ Given.inputs = request.input.texts
         /\ Given.dimensions \in Cap.dimensions
         /\ request.model = "titan" =>
              request.input_type = "absent" /\ Cap.dimensions = {256, 512, 1024}
         /\ request.model # "titan" =>
              /\ Len(request.input.texts) <= MaxBatch
              /\ TaskOf(Given, Cap)
                   \in {"search_document", "search_query", "classification", "clustering"}
              /\ Cap.dimensions = {256, 512, 1024, 1536}
<1>1. request.model \in {"document", "query", "dynamic", "titan"}
  BY DEF Accepted, Profiles
<1>2. /\ Given.inputs = request.input.texts
      /\ Given.dimensions = IF request.dimensions = <<>> THEN Cap.default ELSE request.dimensions[1]
      /\ Given.task = IF request.input_type = "absent" THEN "none" ELSE Word(request.input_type)
  BY GivenFacts DEF Accepted
<1>3. /\ Cap.max_inputs # Unset => Len(Given.inputs) <= Cap.max_inputs
      /\ Given.dimensions # Unset => Given.dimensions \in Cap.dimensions
      /\ (Given.task # "none") = (Cap.policy = "accepted")
  BY DEF Accepted, Fits, TaskFits
<1>4. Cap.default = 1024
  BY <1>1 DEF Cap, Profiles, Cohere, Titan
<1>5. Given.dimensions # Unset
  <2>1. CASE request.dimensions = <<>>
    BY <1>2, <1>4, <2>1 DEF Unset
  <2>2. CASE request.dimensions # <<>>
    <3>1. request.dimensions \in Seq(Nat)
      BY FanoutAssumption
    <3>2. 1 \in DOMAIN request.dimensions
      BY <2>2, <3>1
    <3>3. request.dimensions[1] > 0 /\ request.dimensions[1] \in Nat
      BY <3>1, <3>2 DEF Accepted, Parses
    <3> QED BY <1>2, <2>2, <3>3 DEF Unset
  <2> QED BY <2>1, <2>2
<1>6. request.input_type # "absent" =>
        Word(request.input_type) \in {"document", "query", "classification", "clustering"}
  BY DEF Accepted, Parses, Tasks
<1>7. CASE request.model = "titan"
  <2>1. Cap.policy = "symmetric" /\ Cap.dimensions = {256, 512, 1024}
    BY <1>7 DEF Cap, Profiles, Titan
  <2>2. request.input_type = "absent"
    BY <1>2, <1>3, <1>6, <2>1
  <2> QED BY <1>2, <1>3, <1>5, <1>7, <2>1, <2>2
<1>8. CASE request.model # "titan"
  <2>1. /\ Cap.max_inputs = MaxBatch /\ Cap.dimensions = {256, 512, 1024, 1536}
        /\ Cap.family = "cohere"
        /\ Cap.policy # "accepted" => Cap.fixed \in {"document", "query"}
    BY <1>1, <1>8 DEF Cap, Profiles, Cohere
  <2>2. Len(request.input.texts) <= MaxBatch
    BY <1>2, <1>3, <2>1, MaxBatchAssumption DEF Unset
  <2>3. (IF Given.task # "none" THEN Given.task ELSE Cap.fixed)
          \in {"document", "query", "classification", "clustering"}
    BY <1>2, <1>3, <1>6, <2>1
  <2>4. TaskOf(Given, Cap)
          \in {"search_document", "search_query", "classification", "clustering"}
    BY <2>1, <2>3 DEF TaskOf, Tasks
  <2> QED BY <1>2, <1>3, <1>5, <1>8, <2>1, <2>2, <2>4
<1> QED BY <1>7, <1>8

\* A request is refused before any of it is sent, or each native request of it is one
\* its provider takes and together they have every text once, in order, for any texts
\* and any batch limit.
THEOREM NativesAreAcceptable == Spec => []NativesAcceptable
<1>1. WholeInv => NativesAcceptable
  <2> SUFFICES ASSUME WholeInv, bodies # <<>> PROVE NativesAcceptable
    BY DEF WholeInv, NativesAcceptable, Items
  <2> DEFINE texts == request.input.texts
  <2>1. request \in Requests /\ Accepted
    BY DEF WholeInv, FanoutInv, Shape
  <2>2. texts \in Seq(STRING) /\ texts # <<>>
    BY <2>1, FanoutAssumption DEF Accepted, Parses, InputParses
  <2>3. /\ Given.inputs = texts /\ (Cap.family = "titan") = (request.model = "titan")
        /\ bodies = NativeBodies(Given, Cap)
    BY <2>1, GivenFits, TaskIsWanted DEF Accepted
  <2>4. answer.status # "400"
    BY DEF WholeInv
  <2>5. CASE request.model = "titan"
    <3>1. bodies = [k \in 1..Len(texts) |-> Native(<<texts[k]>>, Given, Cap)]
      <4>1. DOMAIN texts = 1..Len(texts)
        BY <2>2
      <4>2. bodies = [k \in DOMAIN texts |-> Native(<<texts[k]>>, Given, Cap)]
        BY <2>3, <2>5 DEF NativeBodies
      <4> HIDE DEF texts
      <4> QED BY <4>1, <4>2
    <3>2. Items = 1..Len(texts)
      BY <3>1 DEF Items
    <3>3. \A k \in Items : bodies[k].texts = <<texts[k]>>
                            /\ bodies[k].dimensions = Given.dimensions
      BY <3>1, <3>2 DEF Native
    <3>4. FlattenSeq([k \in Items |-> bodies[k].texts]) = texts
      <4> DEFINE s == [k \in Items |-> bodies[k].texts]
      <4>1. s = [k \in 1..Len(texts) |-> <<texts[k]>>]
        BY <3>2, <3>3
      <4> HIDE DEF s, texts
      <4> QED BY <2>2, <4>1, SinglesFlatten DEF s
    <3>5. Given.dimensions \in {256, 512, 1024} /\ request.input_type = "absent"
      BY <2>1, <2>5, GivenFits
    <3>6. \A k \in Items : Len(bodies[k].texts) = 1
      <4> HIDE DEF texts
      <4> TAKE k \in Items
      <4>1. bodies[k].texts = <<texts[k]>>
        BY <3>3
      <4>2. Len(<<texts[k]>>) = 1
        OBVIOUS
      <4> QED BY <4>1, <4>2
    <3>7. \A k \in Items : bodies[k].dimensions \in {256, 512, 1024}
      BY <3>3, <3>5
    <3> QED BY ZenonT(30), <3>7, <2>4, <2>5, <3>3, <3>4, <3>5, <3>6 DEF NativesAcceptable
  <2>6. CASE request.model # "titan"
    <3>1. bodies = <<Native(texts, Given, Cap)>>
      BY <2>3, <2>6 DEF NativeBodies
    <3>2. Items = 1..1
      BY <3>1 DEF Items
    <3>3. /\ bodies[1].texts = texts /\ bodies[1].dimensions = Given.dimensions
          /\ bodies[1].task = TaskOf(Given, Cap)
      BY <3>1 DEF Native
    <3>4. FlattenSeq([k \in Items |-> bodies[k].texts]) = texts
      <4>1. [k \in Items |-> bodies[k].texts] = <<texts>>
        BY <3>2, <3>3
      <4> QED BY <4>1, OneFlattens
    <3>5. Len(texts) \in 1..MaxBatch
      BY <2>1, <2>2, <2>6, GivenFits, MaxBatchAssumption
    <3>6. /\ Given.dimensions \in {256, 512, 1024, 1536}
          /\ TaskOf(Given, Cap)
               \in {"search_document", "search_query", "classification", "clustering"}
      BY <2>1, <2>6, GivenFits
    <3> QED BY <2>4, <2>6, <3>2, <3>3, <3>4, <3>5, <3>6 DEF NativesAcceptable
  <2> QED BY <2>5, <2>6
<1> QED BY <1>1, WholeInvariant, PTL

-----------------------------------------------------------------------------
\* Types.  The retry counter is a sum over the tasks: it stays below the number of
\* backoffs there is room for, which are pairs of a task and a number.

\* How many backoffs each task may have had.
Slept == [i \in Slots |-> CASE at[i] = "queued" -> 0
                            [] at[i] = "sent" -> attempts[i] - 1
                            [] at[i] = "done" -> MaxRetries - 1
                            [] OTHER -> attempts[i]]

Backoffs == {p \in Slots \X (1..(MaxRetries - 1)) : p[2] <= Slept[p[1]]}

LimitsInv ==
  /\ late \in BOOLEAN
  /\ \A i \in Slots : /\ attempts[i] <= MaxRetries
                      /\ at[i] = "queued" => attempts[i] = 0
                      /\ at[i] \in {"loop", "asleep"} => attempts[i] < MaxRetries
  /\ retries \in Nat /\ retries <= Cardinality(Backoffs)
  /\ answer.status \in {"none", "200", "400", "500", "502", "upstream_status"}

LEMMA BackoffsAreFinite ==
  /\ IsFiniteSet(Slots \X (1..(MaxRetries - 1)))
  /\ Cardinality(Slots \X (1..(MaxRetries - 1))) = Inputs * (MaxRetries - 1)
<1>1. MaxRetries - 1 \in Nat /\ Inputs \in Nat
  BY FanoutAssumption
<1> DEFINE K == 1..(MaxRetries - 1)
<1>2. /\ IsFiniteSet(Slots) /\ Cardinality(Slots) = Inputs
      /\ IsFiniteSet(K) /\ Cardinality(K) = MaxRetries - 1
  <2>1. 1 \in Int /\ Inputs \in Int /\ MaxRetries - 1 \in Int
    BY <1>1
  <2>2. IsFiniteSet(Slots) /\ Cardinality(Slots) = IF 1 > Inputs THEN 0 ELSE Inputs - 1 + 1
    BY ONLY <2>1, FS_Interval DEF Slots
  <2>3. /\ IsFiniteSet(K)
        /\ Cardinality(K) = IF 1 > MaxRetries - 1 THEN 0 ELSE (MaxRetries - 1) - 1 + 1
    BY ONLY <2>1, FS_Interval
  <2> QED BY <1>1, <2>2, <2>3
<1> HIDE DEF K
<1>3. IsFiniteSet(Slots \X K) /\ Cardinality(Slots \X K) = Cardinality(Slots) * Cardinality(K)
  BY <1>2, FS_Product
<1> QED BY <1>2, <1>3 DEF K

LEMMA RoomIsCounted ==
  /\ IsFiniteSet(Backoffs) /\ Cardinality(Backoffs) \in Nat
  /\ Cardinality(Backoffs) <= Inputs * (MaxRetries - 1)
<1> DEFINE A == Slots \X (1..(MaxRetries - 1))
<1>1. Backoffs \subseteq A
  BY DEF Backoffs
<1>2. IsFiniteSet(A) /\ Cardinality(A) = Inputs * (MaxRetries - 1)
  BY BackoffsAreFinite
<1> HIDE DEF A
<1> QED BY <1>1, <1>2, FS_Subset, FS_CardinalityType

\* A step that takes no backoff from any task leaves the room at least as large.
LEMMA RoomKeeps ==
  ASSUME \A i \in Slots : Slept[i] <= Slept'[i],
         \A i \in Slots : Slept[i] \in Int /\ Slept'[i] \in Int
  PROVE  /\ Cardinality(Backoffs)' \in Nat
         /\ Cardinality(Backoffs) <= Cardinality(Backoffs)'
<1> DEFINE A == Slots \X (1..(MaxRetries - 1))
           B == Backoffs
           C == Backoffs'
<1>1. B \subseteq C
  <2> SUFFICES ASSUME NEW p \in A, p[2] <= Slept[p[1]] PROVE p[2] <= Slept'[p[1]]
    BY DEF Backoffs
  <2>1. p[1] \in Slots /\ p[2] \in Int
    BY FanoutAssumption
  <2> QED BY <2>1
<1>2. C \subseteq A
  BY DEF Backoffs
<1>3. IsFiniteSet(A)
  BY BackoffsAreFinite
<1> HIDE DEF A, B, C
<1>4. IsFiniteSet(C) /\ Cardinality(C) \in Nat
  BY <1>2, <1>3, FS_Subset, FS_CardinalityType
<1>5. Cardinality(B) <= Cardinality(C)
  BY <1>1, <1>4, FS_Subset
<1> QED BY <1>4, <1>5 DEF B, C

\* A backoff of a task adds itself.
LEMMA RoomGrows ==
  ASSUME \A i \in Slots : Slept[i] <= Slept'[i],
         \A i \in Slots : Slept[i] \in Int /\ Slept'[i] \in Int,
         NEW i \in Slots, Slept[i] < Slept'[i],
         Slept'[i] \in 1..(MaxRetries - 1)
  PROVE  /\ Cardinality(Backoffs)' \in Nat
         /\ Cardinality(Backoffs) + 1 <= Cardinality(Backoffs)'
<1> DEFINE A == Slots \X (1..(MaxRetries - 1))
           B == Backoffs
           C == Backoffs'
           q == <<i, Slept'[i]>>
<1>1. B \subseteq C
  <2> SUFFICES ASSUME NEW p \in A, p[2] <= Slept[p[1]] PROVE p[2] <= Slept'[p[1]]
    BY DEF Backoffs
  <2>1. p[1] \in Slots /\ p[2] \in Int
    BY FanoutAssumption
  <2> QED BY <2>1
<1>2. C \subseteq A
  BY DEF Backoffs
<1>3. IsFiniteSet(A)
  BY BackoffsAreFinite
<1>4. q \in C /\ q \notin B
  <2>1. q \in A /\ q[1] = i /\ q[2] = Slept'[i]
    OBVIOUS
  <2>2. q \notin Backoffs
    BY <2>1 DEF Backoffs
  <2>3. q[2] <= Slept'[q[1]]
    BY <2>1
  <2>4. q \in Backoffs'
    BY <2>1, <2>3 DEF Backoffs
  <2> QED BY <2>2, <2>4
<1> HIDE DEF A, B, C, q
<1>5. IsFiniteSet(C) /\ Cardinality(C) \in Nat
  BY <1>2, <1>3, FS_Subset, FS_CardinalityType
<1>6. IsFiniteSet(B) /\ Cardinality(B) \in Nat
  BY <1>1, <1>5, FS_Subset, FS_CardinalityType
<1>7. IsFiniteSet(B \cup {q}) /\ Cardinality(B \cup {q}) = Cardinality(B) + 1
  BY <1>4, <1>6, FS_AddElement
<1>8. Cardinality(B \cup {q}) <= Cardinality(C)
  BY <1>1, <1>4, <1>5, FS_Subset
<1> QED BY <1>5, <1>7, <1>8 DEF B, C

LEMMA LimitsInit == Init => LimitsInv
<1> SUFFICES ASSUME Init PROVE LimitsInv
  OBVIOUS
<1>1. 0 <= Cardinality(Backoffs)
  BY RoomIsCounted
<1>2. late \in BOOLEAN /\ retries = 0 /\ answer.status = "none"
  BY DEF Init, NoAnswer
<1>3. ASSUME NEW i \in Slots
      PROVE  /\ attempts[i] <= MaxRetries
             /\ at[i] = "queued" => attempts[i] = 0
             /\ at[i] \in {"loop", "asleep"} => attempts[i] < MaxRetries
  <2>1. attempts[i] = 0 /\ at[i] = "queued"
    BY DEF Init, Slots
  <2> QED BY <2>1, FanoutAssumption
<1> QED BY <1>1, <1>2, <1>3 DEF LimitsInv

\* What one task does to its own counters.
LEMMA LimitsMove ==
  ASSUME FanoutInv, LimitsInv, NEW i \in Items, Task(i)
  PROVE  LimitsInv'
<1>0. /\ i \in Slots /\ attempts \in [Slots -> Nat] /\ at \in [Slots -> Places]
      /\ MaxRetries \in Nat \ {0}
  BY FanoutAssumption DEF FanoutInv, Shape
<1>1. /\ late' = late /\ answer' = answer
      /\ \A j \in Slots : j # i => at'[j] = at[j] /\ attempts'[j] = attempts[j]
  BY <1>0 DEF Task, Acquire, Attempt, Settle, Trip, Wake, Leaves, given
<1>2. /\ attempts[i] <= MaxRetries
      /\ at[i] = "queued" => attempts[i] = 0
      /\ at[i] \in {"loop", "asleep"} => attempts[i] < MaxRetries
      /\ at[i] \in {"sent", "asleep", "done"} => attempts[i] >= 1
  BY <1>0 DEF LimitsInv, FanoutInv, Tried
<1>3. /\ attempts'[i] \in Nat /\ attempts'[i] <= MaxRetries
      /\ at'[i] \in Places \ {"queued"}
      /\ at'[i] \in {"loop", "asleep"} => attempts'[i] < MaxRetries
      /\ at'[i] = "sent" => attempts'[i] >= 1
  BY <1>0, <1>2 DEF Task, Acquire, Attempt, Settle, Trip, Wake, Leaves, Places
<1>4. \A j \in Slots : /\ attempts'[j] <= MaxRetries
                       /\ at'[j] = "queued" => attempts'[j] = 0
                       /\ at'[j] \in {"loop", "asleep"} => attempts'[j] < MaxRetries
  BY <1>1, <1>3 DEF LimitsInv
<1>5. \A j \in Slots : Slept[j] \in Int
  BY <1>0 DEF Slept
<1>6. \A j \in Slots : Slept'[j] \in Int
  <2> TAKE j \in Slots
  <2>1. attempts'[j] \in Nat
    BY <1>0, <1>1, <1>3
  <2> QED BY <1>0, <2>1 DEF Slept
<1>7. Slept[i] <= Slept'[i] /\ (retries' # retries => retries' = retries + 1 /\ Slept[i] < Slept'[i]
                                                    /\ Slept'[i] \in 1..(MaxRetries - 1))
  BY <1>0, <1>2 DEF Task, Acquire, Attempt, Settle, Trip, Wake, Leaves, Slept
<1>8. \A j \in Slots : Slept[j] <= Slept'[j]
  <2> TAKE j \in Slots
  <2>1. CASE j = i
    BY <1>7, <2>1
  <2>2. CASE j # i
    <3>1. Slept'[j] = Slept[j]
      BY <1>1, <2>2 DEF Slept
    <3> QED BY <1>5, <3>1
  <2> QED BY <2>1, <2>2
<1>9. retries' \in Nat /\ retries' <= Cardinality(Backoffs)'
  <2>1. retries \in Nat /\ retries <= Cardinality(Backoffs) /\ Cardinality(Backoffs) \in Nat
    BY RoomIsCounted DEF LimitsInv
  <2>2. CASE retries' = retries
    <3>1. Cardinality(Backoffs)' \in Nat /\ Cardinality(Backoffs) <= Cardinality(Backoffs)'
      BY <1>5, <1>6, <1>8, RoomKeeps
    <3> QED BY <2>1, <2>2, <3>1
  <2>3. CASE retries' # retries
    <3>1. /\ Cardinality(Backoffs)' \in Nat
          /\ Cardinality(Backoffs) + 1 <= Cardinality(Backoffs)'
      BY <1>0, <1>5, <1>6, <1>7, <1>8, <2>3, RoomGrows
    <3> QED BY <1>7, <2>1, <2>3, <3>1
  <2> QED BY <2>2, <2>3
<1> QED BY <1>1, <1>4, <1>9 DEF LimitsInv

LEMMA LimitsStep == FanoutInv /\ LimitsInv /\ [Next]_vars => LimitsInv'
<1> SUFFICES ASSUME FanoutInv, LimitsInv, [Next]_vars PROVE LimitsInv'
  OBVIOUS
<1>1. CASE \E i \in Items : Task(i)
  BY <1>1, LimitsMove
<1>2. CASE UNCHANGED <<at, attempts, retries>> /\ late' \in BOOLEAN
           /\ answer'.status \in {"none", "200", "400", "500", "502", "upstream_status"}
  <2>1. Backoffs' = Backoffs
    BY <1>2 DEF Backoffs, Slept
  <2> QED BY <1>2, <2>1 DEF LimitsInv
<1>3. CASE Receive
  BY <1>2, <1>3 DEF Receive, Error, NoAnswer, LimitsInv
<1>4. CASE Expire
  BY <1>2, <1>4 DEF Expire, LimitsInv
<1>5. CASE Answer
  BY <1>2, <1>5, AnswerStatus DEF Answer, LimitsInv
<1>6. CASE UNCHANGED vars
  BY <1>2, <1>6 DEF vars, LimitsInv
<1> QED BY <1>1, <1>3, <1>4, <1>5, <1>6 DEF Next

\* No attempt beyond max_retries, and the retry counter of the request is bounded by
\* the retries of all its tasks together; no permit is given back twice.
THEOREM FanoutTypeCorrect == Spec => []TypeOK
<1>1. Init => FanoutInv /\ LimitsInv
  BY FanoutInit, LimitsInit
<1>2. (FanoutInv /\ LimitsInv) /\ [Next]_vars => (FanoutInv /\ LimitsInv)'
  BY FanoutStep, LimitsStep
<1>3. FanoutInv /\ LimitsInv => TypeOK
  <2> SUFFICES ASSUME FanoutInv, LimitsInv PROVE TypeOK
    OBVIOUS
  <2>1. attempts \in [1..Inputs -> 0..MaxRetries]
    BY FanoutAssumption DEF FanoutInv, Shape, LimitsInv, Slots
  <2>2. permits \in 0..MaxConcurrency
    <3>1. IsFiniteSet({j \in Slots : at[j] \in Inside})
      BY SlotsAreFinite, FS_Subset
    <3>2. Count(at, Inside) \in Nat
      BY <3>1, FS_CardinalityType DEF Count
    <3> QED BY <3>2, FanoutAssumption DEF FanoutInv, Counted, Shape
  <2>3. gauge \in 0..Inputs
    <3> DEFINE S == {j \in Slots : at[j] \in {"sent"}}
    <3>1. Cardinality(Slots) = Inputs
      BY FS_Interval, FanoutAssumption DEF Slots
    <3>2. S \subseteq Slots
      OBVIOUS
    <3>3. gauge = Cardinality(S)
      BY DEF FanoutInv, Counted, Count
    <3>4. Cardinality(S) <= Cardinality(Slots)
      <4> HIDE DEF S
      <4> QED BY <3>2, SlotsAreFinite, FS_Subset
    <3> QED BY <3>1, <3>3, <3>4, FanoutAssumption DEF FanoutInv, Shape
  <2>4. retries \in 0..(Inputs * (MaxRetries - 1))
    BY RoomIsCounted, FanoutAssumption DEF LimitsInv
  <2>5. /\ request \in Requests /\ late \in BOOLEAN
        /\ at \in [1..Inputs -> {"queued", "loop", "sent", "asleep", "done"}]
        /\ result \in [1..Inputs -> Results \union {"none"}]
        /\ answer.status \in {"none", "200", "400", "500", "502", "upstream_status"}
    BY DEF FanoutInv, Shape, LimitsInv, Slots, Places
  <2> QED BY <2>1, <2>2, <2>3, <2>4, <2>5 DEF TypeOK
<1> QED BY <1>1, <1>2, <1>3, PTL DEF Spec
=============================================================================
