-------------------------- MODULE RateLimiterProofs --------------------------
(***************************************************************************)
(* Proofs about RateLimiter, for any clients, limit, window and clock.     *)
(*                                                                         *)
(* What a bucket holds is the tail of the client's admissions; what was    *)
(* dropped in front of it is older than the window, and stays so as time   *)
(* passes.  So when a bucket has room, the admission Limit places back was *)
(* dropped, and is more than a window old.                                 *)
(***************************************************************************)
EXTENDS RateLimiter, TLAPS

\* The bucket h is the admissions a with the first d left out, all of them old at t.
IsTailAt(h, a, d, t) ==
  /\ d \in 0..Len(a)
  /\ Len(h) = Len(a) - d
  /\ \A i \in 1..Len(h) : h[i] = a[i + d]
  /\ \A i \in 1..d : a[i] < t - Window

TailOfAdmitted(c) == \E d \in Nat : IsTailAt(hits[c], admitted[c], d, now)

\* The inductive invariant of the limiter.
LimiterInv ==
  /\ TypeOK
  /\ \A c \in Clients : TailOfAdmitted(c)
  /\ AtMostLimitPerWindow

LEMMA WindowIsNat == Window \in Nat
BY LimiterAssumption DEF Window

\* What is left of a sequence when its first n elements are dropped.
LEMMA RestFacts ==
  ASSUME NEW s \in Seq(Nat), NEW n \in 0..Len(s)
  PROVE  /\ Rest(s, n) \in Seq(Nat)
         /\ Len(Rest(s, n)) = Len(s) - n
         /\ \A i \in 1..(Len(s) - n) : Rest(s, n)[i] = s[i + n]
BY DEF Rest

LEMMA AppendFacts ==
  ASSUME NEW s \in Seq(Nat), NEW e \in Nat
  PROVE  /\ Append(s, e) \in Seq(Nat)
         /\ Len(Append(s, e)) = Len(s) + 1
         /\ \A i \in 1..Len(s) : Append(s, e)[i] = s[i]
         /\ Append(s, e)[Len(s) + 1] = e
OBVIOUS

LEMMA ProductIsNat ==
  ASSUME NEW x \in Nat, NEW y \in Nat
  PROVE  x * y \in Nat
OBVIOUS

LEMMA AdviceIsNat ==
  ASSUME NEW s \in Seq(Nat), Len(s) > 0, NEW t \in Nat
  PROVE  t + RetryAfter(s, t) * TicksPerSecond \in Nat
<1> DEFINE left == (s[1] + Window - t) \div TicksPerSecond
<1>1. s[1] \in Nat
  OBVIOUS
<1>2. left \in Int
  BY <1>1, WindowIsNat, LimiterAssumption
<1>3. RetryAfter(s, t) \in Nat
  BY <1>2 DEF RetryAfter
<1> HIDE DEF left
<1>4. RetryAfter(s, t) * TicksPerSecond \in Nat
  BY <1>3, LimiterAssumption, ProductIsNat
<1> QED
  BY <1>4

LEMMA InitLimiterInv == Init => LimiterInv
<1> SUFFICES ASSUME Init PROVE LimiterInv
  OBVIOUS
<1>1. TypeOK
  BY LimiterAssumption DEF Init, TypeOK
<1>2. \A c \in Clients : TailOfAdmitted(c)
  <2> SUFFICES ASSUME NEW c \in Clients PROVE TailOfAdmitted(c)
    OBVIOUS
  <2>1. IsTailAt(hits[c], admitted[c], 0, now)
    BY DEF Init, IsTailAt
  <2> QED
    BY <2>1 DEF TailOfAdmitted
<1>3. AtMostLimitPerWindow
  BY LimiterAssumption DEF Init, AtMostLimitPerWindow
<1> QED
  BY <1>1, <1>2, <1>3 DEF LimiterInv

\* Dropping what is old from a tail of the admissions leaves a tail of them.
LEMMA DroppedIsTail ==
  ASSUME NEW h \in Seq(Nat), NEW a \in Seq(Nat), NEW d \in Nat, NEW t \in Nat,
         IsTailAt(h, a, d, t),
         NEW n \in 0..Len(h), Drops(h, t, n)
  PROVE  IsTailAt(Rest(h, n), a, d + n, t)
<1>1. /\ Len(Rest(h, n)) = Len(h) - n
      /\ \A i \in 1..(Len(h) - n) : Rest(h, n)[i] = h[i + n]
  BY RestFacts
<1>2. /\ d + n \in 0..Len(a)
      /\ Len(Rest(h, n)) = Len(a) - (d + n)
  BY <1>1 DEF IsTailAt
<1>3. \A i \in 1..Len(Rest(h, n)) : Rest(h, n)[i] = a[i + (d + n)]
  <2> SUFFICES ASSUME NEW i \in 1..Len(Rest(h, n))
               PROVE  Rest(h, n)[i] = a[i + (d + n)]
    OBVIOUS
  <2>1. i + n \in 1..Len(h)
    BY <1>1
  <2>2. h[i + n] = a[(i + n) + d]
    BY <2>1 DEF IsTailAt
  <2> QED
    BY <1>1, <2>1, <2>2
<1>4. \A i \in 1..(d + n) : a[i] < t - Window
  <2> SUFFICES ASSUME NEW i \in 1..(d + n) PROVE a[i] < t - Window
    OBVIOUS
  <2>1. CASE i <= d
    BY <2>1 DEF IsTailAt
  <2>2. CASE i > d
    <3>1. i - d \in 1..n /\ i - d \in 1..Len(h)
      BY <2>2
    <3>2. h[i - d] = a[(i - d) + d]
      BY <3>1 DEF IsTailAt
    <3>3. h[i - d] < t - Window
      BY <3>1 DEF Drops
    <3> QED
      BY <3>2, <3>3
  <2> QED
    BY <2>1, <2>2
<1> QED
  BY <1>2, <1>3, <1>4 DEF IsTailAt

LEMMA AdmitKeepsInv ==
  ASSUME LimiterInv, NEW c \in Clients, Admit(c)
  PROVE  LimiterInv'
<1> USE DEF LimiterInv
<1>1. PICK n \in 0..Len(hits[c]) :
        /\ Drops(hits[c], now, n)
        /\ Len(Rest(hits[c], n)) < Limit
        /\ hits' = [hits EXCEPT ![c] = Append(Rest(hits[c], n), now)]
        /\ admitted' = [admitted EXCEPT ![c] = Append(@, now)]
        /\ advised' = [advised EXCEPT ![c] = Never]
        /\ now' = now
  BY DEF Admit
<1>2. /\ now \in Nat
      /\ hits \in [Clients -> Seq(Nat)]
      /\ admitted \in [Clients -> Seq(Nat)]
      /\ advised \in [Clients -> Nat \union {Never}]
      /\ hits[c] \in Seq(Nat)
      /\ admitted[c] \in Seq(Nat)
  BY DEF TypeOK
<1> DEFINE bucket == Rest(hits[c], n)
           a == admitted[c]
<1>3. bucket \in Seq(Nat) /\ Len(bucket) \in Nat
  BY <1>2, RestFacts
<1>4. PICK d \in Nat : IsTailAt(hits[c], a, d, now)
  BY DEF TailOfAdmitted
<1>5. IsTailAt(bucket, a, d + n, now)
  BY <1>1, <1>2, <1>4, DroppedIsTail
<1> DEFINE newBucket == Append(bucket, now)
           newA == Append(a, now)
<1>6. /\ hits'[c] = newBucket
      /\ admitted'[c] = newA
      /\ \A x \in Clients \ {c} : hits'[x] = hits[x] /\ admitted'[x] = admitted[x]
  BY <1>1, <1>2
<1>10. /\ Len(newBucket) = Len(bucket) + 1
       /\ \A i \in 1..Len(bucket) : newBucket[i] = bucket[i]
       /\ newBucket[Len(bucket) + 1] = now
  BY <1>2, <1>3, AppendFacts
<1>11. /\ a \in Seq(Nat) /\ Len(a) \in Nat
       /\ Len(newA) = Len(a) + 1
       /\ \A i \in 1..Len(a) : newA[i] = a[i]
       /\ newA[Len(a) + 1] = now
  BY <1>2, AppendFacts
<1> HIDE DEF bucket, a, newBucket, newA
<1>7. TypeOK'
  <2>1. hits' \in [Clients -> Seq(Nat)]
    BY <1>1, <1>2, <1>3 DEF bucket
  <2>2. admitted' \in [Clients -> Seq(Nat)]
    BY <1>1, <1>2
  <2>3. advised' \in [Clients -> Nat \union {Never}]
    BY <1>1, <1>2
  <2>4. \A x \in Clients : Len(hits'[x]) <= Limit
    <3>1. Len(hits'[c]) = Len(bucket) + 1
      BY <1>6, <1>10
    <3>2. Len(hits'[c]) <= Limit
      BY <1>1, <1>3, <3>1, LimiterAssumption DEF bucket
    <3> QED
      BY <1>6, <3>2 DEF TypeOK
  <2> QED
    BY <1>1, <1>2, <2>1, <2>2, <2>3, <2>4 DEF TypeOK
<1>8. \A x \in Clients : TailOfAdmitted(x)'
  <2> SUFFICES ASSUME NEW x \in Clients PROVE TailOfAdmitted(x)'
    OBVIOUS
  <2>1. CASE x = c
    <3>1. d + n \in 0..Len(a) /\ Len(bucket) = Len(a) - (d + n)
      BY <1>5 DEF IsTailAt
    <3>2. d + n \in 0..Len(newA)
          /\ Len(newBucket) = Len(newA) - (d + n)
      BY <1>2, <1>3, <3>1, <1>10, <1>11
    <3>3. \A i \in 1..Len(newBucket) :
            newBucket[i] = newA[i + (d + n)]
      <4> SUFFICES ASSUME NEW i \in 1..Len(newBucket)
                   PROVE  newBucket[i] = newA[i + (d + n)]
        OBVIOUS
      <4>1. CASE i \in 1..Len(bucket)
        <5>1. i + (d + n) \in 1..Len(a)
          BY <1>2, <1>3, <3>1, <4>1
        <5>2. newBucket[i] = bucket[i]
          BY <1>10, <4>1
        <5>3. bucket[i] = a[i + (d + n)]
          BY <1>5, <4>1 DEF IsTailAt
        <5>4. newA[i + (d + n)] = a[i + (d + n)]
          BY <1>11, <5>1
        <5> QED
          BY <5>2, <5>3, <5>4
      <4>2. CASE i = Len(bucket) + 1
        BY <1>3, <3>1, <4>2, <1>10, <1>11
      <4>3. i \in 1..Len(bucket) \/ i = Len(bucket) + 1
        BY <1>3, <1>10
      <4> QED
        BY <4>1, <4>2, <4>3
    <3>4. \A i \in 1..(d + n) : newA[i] < now - Window
      <4> SUFFICES ASSUME NEW i \in 1..(d + n) PROVE newA[i] < now - Window
        OBVIOUS
      <4>1. i \in 1..Len(a)
        BY <1>2, <3>1
      <4> QED
        BY <1>2, <1>5, <4>1, <1>10, <1>11 DEF IsTailAt
    <3>5. IsTailAt(newBucket, newA, d + n, now)
      BY <3>2, <3>3, <3>4 DEF IsTailAt
    <3>6. IsTailAt(hits'[x], admitted'[x], d + n, now')
      BY <1>1, <1>6, <2>1, <3>5
    <3> QED
      BY <3>6 DEF TailOfAdmitted, IsTailAt
  <2>2. CASE x # c
    <3>1. PICK e \in Nat : IsTailAt(hits[x], admitted[x], e, now)
      BY DEF TailOfAdmitted
    <3>2. IsTailAt(hits'[x], admitted'[x], e, now')
      BY <1>1, <1>6, <2>2, <3>1
    <3> QED
      BY <3>2 DEF TailOfAdmitted, IsTailAt
  <2> QED
    BY <2>1, <2>2
<1>9. AtMostLimitPerWindow'
  <2> SUFFICES ASSUME NEW x \in Clients,
                      NEW i \in 1..(Len(admitted'[x]) - Limit)
               PROVE  admitted'[x][i + Limit] > admitted'[x][i] + Window
    BY WindowIsNat DEF AtMostLimitPerWindow, Window
  <2>1. CASE x # c
    BY <1>6, <2>1 DEF AtMostLimitPerWindow
  <2>2. CASE x = c
    <3>1. Len(admitted'[x]) = Len(a) + 1
      BY <1>6, <1>11, <2>2
    <3>2. CASE i + Limit <= Len(a)
      <4>1. i \in 1..(Len(a) - Limit) /\ i + Limit \in 1..Len(a) /\ i \in 1..Len(a)
        BY <3>2, LimiterAssumption, <1>11
      <4>2. a[i + Limit] > a[i] + Window
        BY <4>1 DEF AtMostLimitPerWindow, a
      <4>3. admitted'[x][i + Limit] = a[i + Limit] /\ admitted'[x][i] = a[i]
        BY <1>2, <1>6, <2>2, <4>1, <1>10, <1>11
      <4> QED
        BY <4>2, <4>3
    <3>3. CASE i + Limit = Len(a) + 1
      <4>1. i \in 1..(d + n) /\ i \in 1..Len(a)
        BY <1>1, <1>3, <1>5, <1>11, <3>3, LimiterAssumption DEF IsTailAt, bucket, a
      <4>2. a[i] < now - Window
        BY <1>5, <4>1 DEF IsTailAt
      <4>3. admitted'[x][i + Limit] = now /\ admitted'[x][i] = a[i]
        BY <1>2, <1>6, <2>2, <3>3, <4>1, <1>10, <1>11
      <4>4. a[i] \in Nat
        BY <1>11, <4>1
      <4> QED
        BY <1>2, <4>2, <4>3, <4>4, WindowIsNat
    <3> QED
      BY <1>11, <3>1, <3>2, <3>3, LimiterAssumption
  <2> QED
    BY <2>1, <2>2
<1> QED
  BY <1>7, <1>8, <1>9

LEMMA RejectKeepsInv ==
  ASSUME LimiterInv, NEW c \in Clients, Reject(c)
  PROVE  LimiterInv'
<1> USE DEF LimiterInv
<1>1. PICK n \in 0..Len(hits[c]) :
        /\ Drops(hits[c], now, n)
        /\ Len(Rest(hits[c], n)) >= Limit
        /\ hits' = [hits EXCEPT ![c] = Rest(hits[c], n)]
        /\ advised' = [advised EXCEPT
                         ![c] = now + RetryAfter(Rest(hits[c], n), now) * TicksPerSecond]
        /\ now' = now /\ admitted' = admitted
  BY DEF Reject
<1>2. /\ now \in Nat
      /\ hits \in [Clients -> Seq(Nat)]
      /\ admitted \in [Clients -> Seq(Nat)]
      /\ advised \in [Clients -> Nat \union {Never}]
      /\ hits[c] \in Seq(Nat) /\ Len(hits[c]) <= Limit
      /\ admitted[c] \in Seq(Nat)
  BY DEF TypeOK
<1> DEFINE bucket == Rest(hits[c], n)
<1>3. bucket \in Seq(Nat) /\ Len(bucket) = Len(hits[c]) - n
  BY <1>2, RestFacts
<1>4. PICK d \in Nat : IsTailAt(hits[c], admitted[c], d, now)
  BY DEF TailOfAdmitted
<1>5. IsTailAt(bucket, admitted[c], d + n, now)
  BY <1>1, <1>2, <1>4, DroppedIsTail
<1>6. /\ hits'[c] = bucket
      /\ \A x \in Clients \ {c} : hits'[x] = hits[x]
  BY <1>1, <1>2
<1>7. now + RetryAfter(bucket, now) * TicksPerSecond \in Nat
  <2>1. Len(bucket) > 0
    BY <1>1, LimiterAssumption, <1>2, <1>3
  <2> HIDE DEF bucket
  <2> QED
    BY <1>2, <1>3, <2>1, AdviceIsNat
<1> HIDE DEF bucket
<1>8. TypeOK'
  <2>1. hits' \in [Clients -> Seq(Nat)]
    BY <1>1, <1>2, <1>3 DEF bucket
  <2>2. advised' \in [Clients -> Nat \union {Never}]
    BY <1>1, <1>2, <1>7 DEF bucket
  <2>3. \A x \in Clients : Len(hits'[x]) <= Limit
    <3>1. Len(bucket) <= Limit
      BY <1>2, <1>3, LimiterAssumption
    <3> QED
      BY <1>6, <3>1 DEF TypeOK
  <2> QED
    BY <1>1, <1>2, <2>1, <2>2, <2>3 DEF TypeOK
<1>9. \A x \in Clients : TailOfAdmitted(x)'
  <2> SUFFICES ASSUME NEW x \in Clients PROVE TailOfAdmitted(x)'
    OBVIOUS
  <2>1. CASE x = c
    <3>1. IsTailAt(hits'[x], admitted'[x], d + n, now')
      BY <1>1, <1>5, <1>6, <2>1
    <3> QED
      BY <3>1 DEF TailOfAdmitted, IsTailAt
  <2>2. CASE x # c
    <3>1. PICK e \in Nat : IsTailAt(hits[x], admitted[x], e, now)
      BY DEF TailOfAdmitted
    <3>2. IsTailAt(hits'[x], admitted'[x], e, now')
      BY <1>1, <1>6, <2>2, <3>1
    <3> QED
      BY <3>2 DEF TailOfAdmitted, IsTailAt
  <2> QED
    BY <2>1, <2>2
<1>10. AtMostLimitPerWindow'
  BY <1>1 DEF AtMostLimitPerWindow, Window
<1> QED
  BY <1>8, <1>9, <1>10

LEMMA ResetKeepsInv ==
  ASSUME LimiterInv, Reset
  PROVE  LimiterInv'
<1>1. TypeOK'
  BY LimiterAssumption DEF LimiterInv, TypeOK, Reset
<1>2. \A c \in Clients : TailOfAdmitted(c)'
  <2> SUFFICES ASSUME NEW c \in Clients PROVE TailOfAdmitted(c)'
    OBVIOUS
  <2>1. IsTailAt(hits'[c], admitted'[c], 0, now')
    BY DEF Reset, IsTailAt
  <2> QED
    BY <2>1 DEF TailOfAdmitted, IsTailAt
<1>3. AtMostLimitPerWindow'
  BY LimiterAssumption DEF Reset, AtMostLimitPerWindow
<1> QED
  BY <1>1, <1>2, <1>3 DEF LimiterInv

\* What is old stays old.
LEMMA TickKeepsInv ==
  ASSUME LimiterInv, Tick
  PROVE  LimiterInv'
<1>1. TypeOK'
  BY DEF LimiterInv, TypeOK, Tick
<1>2. \A c \in Clients : TailOfAdmitted(c)'
  <2> SUFFICES ASSUME NEW c \in Clients PROVE TailOfAdmitted(c)'
    OBVIOUS
  <2>1. PICK d \in Nat : IsTailAt(hits[c], admitted[c], d, now)
    BY DEF LimiterInv, TailOfAdmitted
  <2>2. \A i \in 1..d : admitted[c][i] \in Nat
    BY <2>1 DEF LimiterInv, TypeOK, IsTailAt
  <2>3. IsTailAt(hits'[c], admitted'[c], d, now')
    BY <2>1, <2>2, WindowIsNat DEF Tick, IsTailAt, LimiterInv, TypeOK
  <2> QED
    BY <2>3 DEF TailOfAdmitted, IsTailAt
<1>3. AtMostLimitPerWindow'
  BY DEF LimiterInv, Tick, AtMostLimitPerWindow, Window
<1> QED
  BY <1>1, <1>2, <1>3 DEF LimiterInv

LEMMA StutterKeepsInv ==
  ASSUME LimiterInv, UNCHANGED vars
  PROVE  LimiterInv'
BY DEF LimiterInv, vars, TypeOK, TailOfAdmitted, IsTailAt, AtMostLimitPerWindow, Window

LEMMA NextKeepsInv == LimiterInv /\ [Next]_vars => LimiterInv'
<1> SUFFICES ASSUME LimiterInv, [Next]_vars PROVE LimiterInv'
  OBVIOUS
<1>1. ASSUME NEW c \in Clients, Admit(c) PROVE LimiterInv'
  BY <1>1, AdmitKeepsInv
<1>2. ASSUME NEW c \in Clients, Reject(c) PROVE LimiterInv'
  BY <1>2, RejectKeepsInv
<1>3. CASE Reset
  BY <1>3, ResetKeepsInv
<1>4. CASE Tick
  BY <1>4, TickKeepsInv
<1>5. CASE UNCHANGED vars
  BY <1>5, StutterKeepsInv
<1> QED
  BY <1>1, <1>2, <1>3, <1>4, <1>5 DEF Next

\* The invariant holds in every reachable state of the limiter.
THEOREM LimiterInvHolds == Spec => []LimiterInv
BY InitLimiterInv, NextKeepsInv, PTL DEF Spec

\* Every variable keeps its type: a bucket never holds more than Limit hits.
THEOREM LimiterTypeCorrect == Spec => []TypeOK
<1>1. LimiterInv => TypeOK
  BY DEF LimiterInv
<1> QED
  BY <1>1, LimiterInvHolds, PTL

\* No window holds more than Limit admitted requests of one client, for any limit,
\* window and number of clients.
THEOREM WindowsAreLimited == Spec => []AtMostLimitPerWindow
<1>1. LimiterInv => AtMostLimitPerWindow
  BY DEF LimiterInv
<1> QED
  BY <1>1, LimiterInvHolds, PTL

\* A step that turns a client away finds Limit of its own admissions in the window.
LEMMA RejectIsJustified ==
  ASSUME LimiterInv, NEW c \in Clients, Reject(c)
  PROVE  /\ Len(admitted[c]) >= Limit
         /\ admitted[c][Len(admitted[c]) - Limit + 1] >= now - Window
<1>1. PICK n \in 0..Len(hits[c]) : Drops(hits[c], now, n) /\ Len(Rest(hits[c], n)) >= Limit
  BY DEF Reject
<1>2. PICK d \in Nat : IsTailAt(hits[c], admitted[c], d, now)
  BY DEF LimiterInv, TailOfAdmitted
<1>3. /\ hits[c] \in Seq(Nat) /\ Len(hits[c]) \in Nat /\ Len(hits[c]) <= Limit
      /\ admitted[c] \in Seq(Nat) /\ Len(admitted[c]) \in Nat
  BY DEF LimiterInv, TypeOK
<1>4. Len(Rest(hits[c], n)) = Len(hits[c]) - n
  BY <1>3, RestFacts
<1>5. n = 0 /\ Len(hits[c]) = Limit
  BY <1>1, <1>3, <1>4, LimiterAssumption
<1>6. hits[c][1] >= now - Window
  BY <1>1, <1>5, LimiterAssumption DEF Drops
<1>7. Len(hits[c]) = Len(admitted[c]) - d /\ hits[c][1] = admitted[c][1 + d]
  BY <1>2, <1>3, <1>5, LimiterAssumption DEF IsTailAt
<1>8. Len(admitted[c]) = Limit + d /\ Len(admitted[c]) - Limit + 1 = 1 + d
  BY <1>3, <1>5, <1>7, LimiterAssumption
<1> QED
  BY <1>6, <1>7, <1>8, LimiterAssumption

\* A client is turned away only for its own admissions of the window that ends now:
\* not for another client's, and not for having been turned away.
THEOREM RejectionsAreJustified == Spec => RejectedOnlyAtLimit
<1> DEFINE Justified ==
      \A c \in Clients :
        advised'[c] \notin {advised[c], Never} =>
          /\ Len(admitted[c]) >= Limit
          /\ admitted[c][Len(admitted[c]) - Limit + 1] >= now - Window
<1>1. LimiterInv /\ [Next]_vars => Justified
  <2> SUFFICES ASSUME LimiterInv, [Next]_vars, NEW c \in Clients,
                      advised'[c] \notin {advised[c], Never}
               PROVE  /\ Len(admitted[c]) >= Limit
                      /\ admitted[c][Len(admitted[c]) - Limit + 1] >= now - Window
    OBVIOUS
  <2>1. advised \in [Clients -> Nat \union {Never}]
    BY DEF LimiterInv, TypeOK
  <2>2. ASSUME NEW x \in Clients, Admit(x) PROVE FALSE
    BY <2>1, <2>2 DEF Admit
  <2>3. ASSUME NEW x \in Clients, Reject(x) PROVE x = c
    BY <2>1, <2>3 DEF Reject
  <2>4. ~Reset /\ ~Tick /\ ~UNCHANGED vars
    BY DEF Reset, Tick, vars
  <2>5. Reject(c)
    BY <2>2, <2>3, <2>4 DEF Next
  <2> QED
    BY <2>5, RejectIsJustified
<1>2. LimiterInv /\ [Next]_vars => [Justified]_vars
  BY <1>1
<1> QED
  BY <1>2, LimiterInvHolds, PTL DEF Spec, RejectedOnlyAtLimit
=============================================================================
