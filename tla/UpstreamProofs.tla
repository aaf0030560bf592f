--------------------------- MODULE UpstreamProofs ---------------------------
(***************************************************************************)
(* What holds of the upstream call for every set of calls, models and      *)
(* things, and every bound on retries, strips, time and TTL.               *)
(***************************************************************************)
EXTENDS UpstreamCall, FiniteSetTheorems, TLAPS

\* The constants of an instance, as the configuration gives them.
LEMMA Constants ==
  /\ \A t \in DOMAIN Rename : t \in Things /\ Rename[t] \in Things
  /\ TTL \in Nat /\ MaxRetries \in Nat /\ MaxStrips \in Nat
  /\ BaseDelay \in Nat /\ Budget \in Nat /\ Horizon \in Nat
  /\ Requests \subseteq Request /\ Requests # {}
  BY CacheAssumption, CallAssumption

\* A remedy takes things of a body to things of a body.
LEMMA RemedyType ==
  ASSUME NEW things \in SUBSET Things, NEW t \in Things
  PROVE  Remedy(things, t) \in SUBSET Things
  BY Constants DEF Remedy

\* Projecting keeps a body a body.
LEMMA ProjectedType ==
  ASSUME NEW b \in Body
  PROVE  Projected(b) \in Body
  BY DEF Projected, Body

\* What is in a frame when a call begins, and when it has returned.
LEMMA FrameTypes ==
  /\ \A r \in Requests, at \in Nat : NewFrame(r, at) \in Frame
  /\ NoFrame \in Frame
<1>1. ASSUME NEW r \in Requests, NEW at \in Nat PROVE NewFrame(r, at) \in Frame
  BY <1>1, Constants DEF NewFrame, Frame, Request
<1>2. (CHOOSE r \in Requests : TRUE) \in Requests
  BY Constants
<1> QED BY <1>1, <1>2 DEF NoFrame

\* Recording a lesson keeps the table a table of lessons.
LEMMA RecordType ==
  ASSUME CacheTypeOK, NEW m \in Models, NEW t \in Things, Record(m, t)
  PROVE  entries' \in SUBSET Lesson /\ nextPos' \in Nat
<1> DEFINE old == Held(m, t)
           at == IF old = {} THEN nextPos ELSE (CHOOSE e \in old : TRUE).pos
           new == [model |-> m, thing |-> t, expires |-> now + TTL, pos |-> at]
<1>1. old \subseteq entries
  BY DEF Held
<1>2. at \in Nat
  BY <1>1 DEF CacheTypeOK, Lesson
<1> HIDE DEF at
<1>3. new \in Lesson
  BY <1>2, Constants DEF CacheTypeOK, Lesson
<1>4. entries' = (entries \ old) \union {new} /\ nextPos' \in {nextPos, nextPos + 1}
  BY DEF Record, at
<1> QED BY <1>1, <1>3, <1>4 DEF CacheTypeOK

-----------------------------------------------------------------------------
(* What a repair changes in a frame, and what it keeps.                    *)

Kept(g, f) ==
  /\ g.req = f.req /\ g.arrived = f.arrived /\ g.deadline = f.deadline
  /\ g.attempt = f.attempt /\ g.todo = f.todo /\ g.retries = f.retries

LEMMA WithoutThingFrame ==
  ASSUME NEW f \in Frame, NEW t \in Things
  PROVE  LET g == WithoutThing(f, t)
         IN /\ g \in Frame /\ Kept(g, f)
            /\ g.body = [f.body EXCEPT !.things = Remedy(f.body.things, t)]
            /\ g.strips = f.strips + 1 /\ g.compat = f.compat /\ g.enc = f.enc
<1> DEFINE b == [f.body EXCEPT !.things = Remedy(f.body.things, t)]
           h == [f EXCEPT !.body = b]
<1>1. b \in Body
  <2>1. f.body \in Body /\ f.body.things \in SUBSET Things
    BY DEF Frame, Body
  <2> QED BY <2>1, RemedyType DEF Body
<1>2. WithoutThing(f, t) = [h EXCEPT !.strips = @ + 1]
  BY DEF WithoutThing, Frame
<1>3. h \in Frame /\ Kept(h, f) /\ h.body = b /\ h.strips = f.strips
      /\ h.compat = f.compat /\ h.enc = f.enc
  BY <1>1 DEF Frame, Kept
<1> HIDE DEF h, b
<1>4. [h EXCEPT !.strips = @ + 1] \in Frame
  BY <1>3 DEF Frame
<1> QED BY <1>2, <1>3, <1>4 DEF Frame, Kept, b

LEMMA WithProjectionFrame ==
  ASSUME NEW f \in Frame
  PROVE  LET g == WithProjection(f)
         IN /\ g \in Frame /\ Kept(g, f)
            /\ g.body = Projected(f.body)
            /\ g.strips = f.strips /\ g.compat = TRUE /\ g.enc = f.enc
<1> DEFINE h == [f EXCEPT !.body = Projected(f.body)]
<1>1. Projected(f.body) \in Body
  BY ProjectedType DEF Frame
<1>2. WithProjection(f) = [h EXCEPT !.compat = TRUE]
  BY DEF WithProjection, Frame
<1>3. h \in Frame /\ Kept(h, f) /\ h.body = Projected(f.body) /\ h.strips = f.strips
      /\ h.enc = f.enc
  BY <1>1 DEF Frame, Kept
<1> HIDE DEF h
<1>4. [h EXCEPT !.compat = TRUE] \in Frame
  BY <1>3 DEF Frame
<1> QED BY <1>2, <1>3, <1>4 DEF Frame, Kept

LEMMA WithoutBlobsFrame ==
  ASSUME NEW f \in Frame
  PROVE  LET g == WithoutBlobs(f)
         IN /\ g \in Frame /\ Kept(g, f)
            /\ g.body = [f.body EXCEPT !.blobs = "none"]
            /\ g.strips = f.strips /\ g.compat = f.compat /\ g.enc = TRUE
<1> DEFINE b == [f.body EXCEPT !.blobs = "none"]
           h == [f EXCEPT !.body = b]
<1>1. b \in Body
  BY DEF Frame, Body
<1>2. WithoutBlobs(f) = [h EXCEPT !.enc = TRUE]
  BY DEF WithoutBlobs, Frame
<1>3. h \in Frame /\ Kept(h, f) /\ h.body = b /\ h.strips = f.strips
      /\ h.compat = f.compat
  BY <1>1 DEF Frame, Kept
<1> HIDE DEF h, b
<1>4. [h EXCEPT !.enc = TRUE] \in Frame
  BY <1>3 DEF Frame
<1> QED BY <1>2, <1>3, <1>4 DEF Frame, Kept, b

-----------------------------------------------------------------------------
(* Types.                                                                  *)

\* The types of the variables every step of a call changes.
CallTypes == /\ pc \in [Calls -> Phase]
             /\ frame \in [Calls -> Frame]
             /\ sends \in [Calls -> Nat]

LEMMA LeaveType ==
  ASSUME CallTypes, NEW c \in Calls, NEW o \in Phase, LeaveWith(c, o)
  PROVE  CallTypes'
  BY FrameTypes DEF CallTypes, LeaveWith

LEMMA SendType ==
  ASSUME CallTypes, NEW c \in Calls, NEW f \in Frame, SendWith(c, f)
  PROVE  CallTypes'
  BY DEF CallTypes, SendWith, Phase

LEMMA ReleaseType ==
  ASSUME active \in Nat, Release
  PROVE  active' \in Nat
  BY DEF Release

LEMMA LoopTopType ==
  ASSUME CallTypes, active \in Nat, NEW c \in Calls, NEW f \in Frame, LoopTop(c, f)
  PROVE  CallTypes' /\ active' \in Nat
<1>1. "error" \in Phase
  BY DEF Phase
<1>2. CASE LeaveWith(c, "error") /\ UNCHANGED active
  BY <1>1, <1>2, LeaveType
<1>3. CASE SendWith(c, f) /\ active' = active + 1
  BY <1>3, SendType
<1> QED BY <1>2, <1>3 DEF LoopTop

LEMMA BackoffType ==
  ASSUME CallTypes, NEW c \in Calls, Backoff(c)
  PROVE  CallTypes'
<1> DEFINE due == now + BaseDelay * 2^frame[c].attempt
           at == IF due \in 0..Horizon THEN due ELSE Horizon
<1>1. at \in Nat
  BY Constants
<1> HIDE DEF at
<1>2. frame[c] \in Frame
  BY DEF CallTypes
<1>3. [frame[c] EXCEPT !.retries = @ + 1, !.wake = at] \in Frame
  <2> DEFINE f == [frame[c] EXCEPT !.retries = @ + 1]
  <2>1. f \in Frame
    BY <1>2 DEF Frame
  <2> HIDE DEF f
  <2>2. [f EXCEPT !.wake = at] \in Frame
    BY <1>1, <2>1 DEF Frame
  <2> QED BY <2>2 DEF f
<1>4. frame' = [frame EXCEPT ![c] = [frame[c] EXCEPT !.retries = @ + 1, !.wake = at]]
  BY DEF Backoff, at, CallTypes
<1>5. pc' = [pc EXCEPT ![c] = "sleep"] /\ UNCHANGED sends
  BY DEF Backoff
<1> QED BY <1>3, <1>4, <1>5 DEF CallTypes, Phase

LEMMA ResendType ==
  ASSUME CallTypes, active \in Nat, NEW c \in Calls, NEW f \in Frame, ResendOrReject(c, f)
  PROVE  CallTypes' /\ active' \in Nat
<1>1. CASE SendWith(c, f) /\ UNCHANGED active
  BY <1>1, SendType
<1>2. CASE Reject(c)
  BY <1>2, LeaveType, ReleaseType DEF Reject, Phase
<1> QED BY <1>1, <1>2 DEF ResendOrReject

\* The steps that leave the cache, the clock and the history alone.
LEMMA CacheSame ==
  ASSUME TypeOK, UNCHANGED cacheAndClock
  PROVE  CacheTypeOK' /\ namedAt' \in [Models -> [Things -> Nat \union {Never}]]
  BY DEF TypeOK, CacheTypeOK, cacheAndClock

\* A call in flight has the frame of a request.
LEMMA InFrame ==
  ASSUME TypeOK, NEW c \in Calls
  PROVE  /\ frame[c] \in Frame
         /\ frame[c].req \in Request /\ frame[c].req.model \in Models
         /\ frame[c].body \in Body /\ frame[c].todo \in SUBSET Lesson
  BY DEF TypeOK, Frame, Request

LEMMA ArriveType ==
  ASSUME TypeOK, NEW c \in Calls, Arrive(c)
  PROVE  TypeOK'
<1>1. PICK r \in Requests :
        IF "unsupported" \in Arms[r.surface]
        THEN /\ Lookup(r.model)
             /\ frame' = [frame EXCEPT ![c] = [NewFrame(r, now) EXCEPT !.todo = Live(r.model)]]
        ELSE /\ frame' = [frame EXCEPT ![c] = NewFrame(r, now)]
             /\ UNCHANGED cacheVars
  BY DEF Arrive
<1>2. NewFrame(r, now) \in Frame /\ Live(r.model) \in SUBSET Lesson
  BY FrameTypes DEF TypeOK, CacheTypeOK, Live
<1>3. [NewFrame(r, now) EXCEPT !.todo = Live(r.model)] \in Frame
  BY <1>2 DEF Frame
<1>4. frame' \in [Calls -> Frame]
  BY <1>1, <1>2, <1>3 DEF TypeOK
<1>5. entries' \in SUBSET Lesson /\ nextPos' \in Nat
  BY <1>1, <1>2 DEF TypeOK, CacheTypeOK, Lookup, cacheVars
<1>6. /\ pc' = [pc EXCEPT ![c] = "strip"]
      /\ UNCHANGED <<now, sends, active, namedAt>>
  BY DEF Arrive
<1> QED BY <1>4, <1>5, <1>6 DEF TypeOK, CacheTypeOK, Phase

LEMMA StripType ==
  ASSUME TypeOK, NEW c \in Calls, StripNext(c)
  PROVE  TypeOK'
<1>1. PICK e \in frame[c].todo :
        frame' = [frame EXCEPT ![c].body.things = Remedy(@, e.thing),
                               ![c].todo = @ \ {e}]
  BY DEF StripNext
<1> DEFINE b == [frame[c].body EXCEPT !.things = Remedy(frame[c].body.things, e.thing)]
           f == [frame[c] EXCEPT !.body = b]
<1>2. e \in Lesson /\ e.thing \in Things
  BY InFrame DEF Lesson
<1>3. b \in Body
  <2>1. frame[c].body.things \in SUBSET Things
    BY InFrame DEF Body
  <2> QED BY <1>2, <2>1, InFrame, RemedyType DEF Body
<1>4. f \in Frame /\ f.todo = frame[c].todo
  BY <1>3, InFrame DEF Frame
<1>5. frame' = [frame EXCEPT ![c] = [f EXCEPT !.todo = @ \ {e}]]
  BY <1>1, InFrame DEF TypeOK
<1> HIDE DEF f
<1>6. [f EXCEPT !.todo = @ \ {e}] \in Frame
  BY <1>4, InFrame DEF Frame
<1>7. frame' \in [Calls -> Frame]
  BY <1>5, <1>6 DEF TypeOK
<1>8. UNCHANGED <<cacheAndClock, pc, sends, active>>
  BY DEF StripNext
<1> QED BY <1>7, <1>8, CacheSame DEF TypeOK

LEMMA DepartType ==
  ASSUME TypeOK, NEW c \in Calls, Depart(c)
  PROVE  TypeOK'
<1> DEFINE f == [frame[c] EXCEPT !.deadline = now + Budget]
<1>1. f \in Frame
  BY InFrame, Constants DEF Frame, TypeOK, CacheTypeOK
<1>2. LoopTop(c, f) /\ UNCHANGED cacheAndClock
  BY DEF Depart
<1> HIDE DEF f
<1>3. CallTypes' /\ active' \in Nat
  BY <1>1, <1>2, LoopTopType DEF TypeOK, CallTypes
<1> QED BY <1>2, <1>3, CacheSame DEF TypeOK, CallTypes

LEMMA WakeType ==
  ASSUME TypeOK, NEW c \in Calls, Wake(c)
  PROVE  TypeOK'
<1> DEFINE f == [frame[c] EXCEPT !.attempt = @ + 1]
<1>1. f \in Frame
  BY InFrame DEF Frame
<1>2. LoopTop(c, f) /\ UNCHANGED cacheAndClock
  BY DEF Wake
<1> HIDE DEF f
<1>3. CallTypes' /\ active' \in Nat
  BY <1>1, <1>2, LoopTopType DEF TypeOK, CallTypes
<1> QED BY <1>2, <1>3, CacheSame DEF TypeOK, CallTypes

\* The steps of a call that leave the cache, the deadline and the body alone, and the rest.
PlainEnd(c) ==
  \/ Succeed(c) \/ OpenStream(c) \/ EndStream(c) \/ Throttled(c)
  \/ ConnectTimeout(c) \/ Broken(c) \/ RefusedOtherwise(c)

LEMMA StepsOfCall ==
  ASSUME NEW c \in Calls
  PROVE  CallStep(c) <=> \/ Arrive(c) \/ StripNext(c) \/ Depart(c) \/ Wake(c)
                         \/ PlainEnd(c)
                         \/ \E t \in Things : RefusedByName(c, t)
                         \/ RefusedVariant(c) \/ RefusedReasoning(c)
  BY DEF CallStep, AttemptEnds, PlainEnd

\* An attempt that answers, opens a stream, backs off or is rejected.
LEMMA PlainEndType ==
  ASSUME TypeOK, NEW c \in Calls, PlainEnd(c)
  PROVE  TypeOK'
<1>1. CASE (LeaveWith(c, "ok") \/ LeaveWith(c, "error")) /\ Release /\ UNCHANGED cacheAndClock
  <2>1. CallTypes'
    BY <1>1, LeaveType DEF TypeOK, CallTypes, Phase
  <2> QED BY <1>1, <2>1, ReleaseType, CacheSame DEF TypeOK, CallTypes
<1>2. CASE LeaveWith(c, "open") /\ UNCHANGED <<cacheAndClock, active>>
  <2>1. CallTypes'
    BY <1>2, LeaveType DEF TypeOK, CallTypes, Phase
  <2> QED BY <1>2, <2>1, CacheSame DEF TypeOK, CallTypes
<1>3. CASE Backoff(c) /\ Release /\ UNCHANGED cacheAndClock
  <2>1. CallTypes'
    BY <1>3, BackoffType DEF TypeOK, CallTypes
  <2> QED BY <1>3, <2>1, ReleaseType, CacheSame DEF TypeOK, CallTypes
<1> QED BY <1>1, <1>2, <1>3
        DEF PlainEnd, Succeed, OpenStream, EndStream, Throttled, ConnectTimeout, Broken,
            RefusedOtherwise, Reject

\* A repair that is sent or comes too late, and a refusal.
LEMMA HealType ==
  ASSUME TypeOK, NEW c \in Calls, NEW f \in Frame,
         ResendOrReject(c, f) \/ Reject(c)
  PROVE  CallTypes' /\ active' \in Nat
<1>1. CASE ResendOrReject(c, f)
  BY <1>1, ResendType DEF TypeOK, CallTypes
<1>2. CASE Reject(c)
  BY <1>2, LeaveType, ReleaseType DEF Reject, TypeOK, CallTypes, Phase
<1> QED BY <1>1, <1>2

LEMMA NamedType ==
  ASSUME TypeOK, NEW c \in Calls, NEW t \in Things, RefusedByName(c, t)
  PROVE  TypeOK'
<1> DEFINE m == frame[c].req.model
           g == WithoutThing(frame[c], t)
<1>1. CallTypes' /\ active' \in Nat
  <2>1. ResendOrReject(c, g) \/ Reject(c)
    BY DEF RefusedByName
  <2>2. g \in Frame
    BY InFrame, WithoutThingFrame
  <2> QED BY <2>1, <2>2, HealType
<1>2. CASE UNCHANGED cacheAndClock
  BY <1>1, <1>2, CacheSame DEF TypeOK, CallTypes
<1>3. CASE Record(m, t) /\ UNCHANGED now /\ namedAt' = [namedAt EXCEPT ![m][t] = now]
  <2>1. entries' \in SUBSET Lesson /\ nextPos' \in Nat
    BY <1>3, InFrame, RecordType DEF TypeOK
  <2>2. namedAt' \in [Models -> [Things -> Nat \union {Never}]]
    BY <1>3, InFrame DEF TypeOK, CacheTypeOK
  <2> QED BY <1>1, <1>3, <2>1, <2>2 DEF TypeOK, CallTypes, CacheTypeOK
<1> QED BY <1>2, <1>3 DEF RefusedByName, cacheAndClock

LEMMA VariantType ==
  ASSUME TypeOK, NEW c \in Calls, RefusedVariant(c)
  PROVE  TypeOK'
<1>1. ResendOrReject(c, WithProjection(frame[c])) \/ Reject(c)
  BY DEF RefusedVariant
<1>2. CallTypes' /\ active' \in Nat
  BY <1>1, InFrame, WithProjectionFrame, HealType
<1> QED BY <1>2, CacheSame DEF RefusedVariant, TypeOK, CallTypes

LEMMA ReasoningType ==
  ASSUME TypeOK, NEW c \in Calls, RefusedReasoning(c)
  PROVE  TypeOK'
<1>1. ResendOrReject(c, WithoutBlobs(frame[c])) \/ Reject(c)
  BY DEF RefusedReasoning
<1>2. CallTypes' /\ active' \in Nat
  BY <1>1, InFrame, WithoutBlobsFrame, HealType
<1> QED BY <1>2, CacheSame DEF RefusedReasoning, TypeOK, CallTypes

LEMMA TypeStep ==
  ASSUME TypeOK, [Next]_vars
  PROVE  TypeOK'
<1>1. CASE UNCHANGED vars
  BY <1>1 DEF TypeOK, CacheTypeOK, vars
<1>2. CASE Tick
  BY <1>2 DEF TypeOK, CacheTypeOK, Tick, cacheVars
<1>3. CASE Quiet
  BY <1>1, <1>3 DEF Quiet
<1>4. ASSUME NEW c \in Calls, CallStep(c)
      PROVE  TypeOK'
  BY <1>4, ArriveType, StripType, DepartType, WakeType, PlainEndType, NamedType,
     VariantType, ReasoningType, StepsOfCall
<1> QED BY <1>1, <1>2, <1>3, <1>4 DEF Next

\* Every variable keeps its type in every behaviour: no handler step leaves a call
\* without a frame of its own or the gauge below zero.
THEOREM TypeCorrect == Spec => []TypeOK
<1>1. Init => TypeOK
  BY FrameTypes DEF Init, CacheInit, TypeOK, CacheTypeOK, Phase, Never
<1>2. TypeOK /\ [Next]_vars => TypeOK'
  BY TypeStep
<1> QED BY <1>1, <1>2, PTL DEF Spec

-----------------------------------------------------------------------------
(* How often a call sends.                                                 *)

\* The sends a call has had a reason for: one per attempt, one per heal.
Spent(f) == f.attempt + f.strips + (IF f.compat THEN 1 ELSE 0) + (IF f.enc THEN 1 ELSE 0)

\* BoundedSends is not inductive: that a call has sends left follows from the
\* counters that its loop tests, so the ledger ties the sends to those counters.
Underway(c) ==
  /\ frame[c].attempt < MaxRetries
  /\ frame[c].strips <= MaxStrips
  /\ sends[c] <= Spent(frame[c]) + 1

LedgerOf(c) ==
  /\ sends[c] <= SendLimit
  /\ pc[c] \in {"idle", "strip"} => sends[c] = 0
  /\ pc[c] = "strip" => frame[c].attempt = 0 /\ frame[c].strips = 0
  /\ pc[c] \in {"wait", "sleep"} => Underway(c)

SendLedger == \A c \in Calls : LedgerOf(c)

LEMMA LeaveLedger ==
  ASSUME TypeOK, SendLedger, NEW c \in Calls, NEW o \in {"ok", "error", "open"},
         LeaveWith(c, o)
  PROVE  SendLedger'
<1>1. LedgerOf(c)'
  BY DEF LeaveWith, LedgerOf, SendLedger, TypeOK
<1>2. ASSUME NEW d \in Calls, d # c PROVE LedgerOf(d)'
  BY <1>2 DEF LeaveWith, LedgerOf, SendLedger, TypeOK, Underway
<1> QED BY <1>1, <1>2 DEF SendLedger

LEMMA SendLedgerKept ==
  ASSUME TypeOK, SendLedger, NEW c \in Calls, NEW f \in Frame, SendWith(c, f),
         f.attempt < MaxRetries, f.strips <= MaxStrips, sends[c] <= Spent(f)
  PROVE  SendLedger'
<1>1. pc'[c] = "wait" /\ frame'[c] = f /\ sends'[c] = sends[c] + 1
  BY DEF SendWith, TypeOK
<1>2. f.attempt \in Nat /\ f.strips \in Nat /\ sends[c] \in Nat
  BY DEF Frame, TypeOK
<1>3. Spent(f) <= f.attempt + f.strips + 2 /\ Spent(f) \in Nat
  BY <1>2 DEF Spent
<1>4. sends[c] + 1 <= SendLimit
  BY <1>2, <1>3, Constants DEF SendLimit
<1>5. LedgerOf(c)'
  BY <1>1, <1>2, <1>3, <1>4 DEF LedgerOf, Underway, SendLimit, Spent
<1>6. ASSUME NEW d \in Calls, d # c PROVE LedgerOf(d)'
  BY <1>6 DEF SendWith, LedgerOf, SendLedger, TypeOK, Underway
<1> QED BY <1>5, <1>6 DEF SendLedger

\* What a step does to the ledger is what it does to these three variables.
LEMMA SameLedger ==
  ASSUME SendLedger, UNCHANGED <<pc, frame, sends>>
  PROVE  SendLedger'
  BY DEF SendLedger, LedgerOf, Underway

\* A backoff keeps the frame, but for its clock and its retry count.
LEMMA BackoffFrame ==
  ASSUME TypeOK, NEW c \in Calls, Backoff(c)
  PROVE  /\ pc'[c] = "sleep" /\ sends'[c] = sends[c]
         /\ frame'[c].attempt = frame[c].attempt /\ frame'[c].strips = frame[c].strips
         /\ frame'[c].compat = frame[c].compat /\ frame'[c].enc = frame[c].enc
         /\ frame'[c].req = frame[c].req /\ frame'[c].body = frame[c].body
         /\ frame'[c].deadline = frame[c].deadline /\ frame'[c].arrived = frame[c].arrived
         /\ frame'[c].todo = frame[c].todo
         /\ frame'[c].retries = frame[c].retries + 1
  BY InFrame DEF Backoff, TypeOK, Frame

LEMMA BackoffLedger ==
  ASSUME TypeOK, SendLedger, NEW c \in Calls, pc[c] = "wait", Backoff(c)
  PROVE  SendLedger'
<1>1. LedgerOf(c)'
  BY BackoffFrame DEF SendLedger, LedgerOf, Underway, Spent
<1>2. ASSUME NEW d \in Calls, d # c PROVE LedgerOf(d)'
  BY <1>2 DEF Backoff, LedgerOf, SendLedger, TypeOK, Underway
<1> QED BY <1>1, <1>2 DEF SendLedger

LEMMA LoopTopLedger ==
  ASSUME TypeOK, SendLedger, NEW c \in Calls, NEW f \in Frame, LoopTop(c, f),
         f.strips <= MaxStrips, sends[c] <= Spent(f)
  PROVE  SendLedger'
<1>1. CASE LeaveWith(c, "error")
  BY <1>1, LeaveLedger
<1>2. CASE SendWith(c, f) /\ ~(f.attempt >= MaxRetries)
  <2>1. f.attempt < MaxRetries
    BY <1>2, Constants DEF Frame
  <2> QED BY <1>2, <2>1, SendLedgerKept
<1> QED BY <1>1, <1>2 DEF LoopTop

LEMMA ResendLedger ==
  ASSUME TypeOK, SendLedger, NEW c \in Calls, NEW f \in Frame, ResendOrReject(c, f),
         f.attempt < MaxRetries, f.strips <= MaxStrips, sends[c] <= Spent(f)
  PROVE  SendLedger'
<1>1. CASE Reject(c)
  BY <1>1, LeaveLedger DEF Reject
<1>2. CASE SendWith(c, f)
  BY <1>2, SendLedgerKept
<1> QED BY <1>1, <1>2 DEF ResendOrReject


\* A heal is one more send and one more heal: the two sides of the ledger move together.
LEMMA HealLedger ==
  ASSUME TypeOK, SendLedger, NEW c \in Calls,
         \/ \E t \in Things : RefusedByName(c, t)
         \/ RefusedVariant(c)
         \/ RefusedReasoning(c)
  PROVE  SendLedger'
<1>1. /\ frame[c] \in Frame /\ frame[c].attempt \in Nat /\ frame[c].strips \in Nat
      /\ frame[c].compat \in BOOLEAN /\ frame[c].enc \in BOOLEAN /\ sends[c] \in Nat
  BY InFrame DEF TypeOK, Frame
<1>2. Underway(c)
  BY DEF RefusedByName, RefusedVariant, RefusedReasoning, SendLedger, LedgerOf
<1>3. CASE Reject(c)
  BY <1>3, LeaveLedger DEF Reject
<1>4. ASSUME NEW t \in Things, frame[c].strips < MaxStrips,
             ResendOrReject(c, WithoutThing(frame[c], t))
      PROVE  SendLedger'
  <2> DEFINE g == WithoutThing(frame[c], t)
  <2>1. g \in Frame /\ g.attempt = frame[c].attempt /\ g.strips = frame[c].strips + 1
        /\ g.compat = frame[c].compat /\ g.enc = frame[c].enc
    BY <1>1, WithoutThingFrame DEF Kept
  <2>2. ResendOrReject(c, g)
    BY <1>4
  <2> HIDE DEF g
  <2>3. g.attempt < MaxRetries /\ g.strips <= MaxStrips /\ sends[c] <= Spent(g)
    BY <1>1, <1>2, <1>4, <2>1, Constants DEF Underway, Spent
  <2> QED BY <2>1, <2>2, <2>3, ResendLedger
<1>5. CASE ~frame[c].compat /\ ResendOrReject(c, WithProjection(frame[c]))
  <2> DEFINE g == WithProjection(frame[c])
  <2>1. g \in Frame /\ g.attempt = frame[c].attempt /\ g.strips = frame[c].strips
        /\ g.compat = TRUE /\ g.enc = frame[c].enc
    BY <1>1, WithProjectionFrame DEF Kept
  <2>2. ResendOrReject(c, g)
    BY <1>5
  <2> HIDE DEF g
  <2>3. g.attempt < MaxRetries /\ g.strips <= MaxStrips /\ sends[c] <= Spent(g)
    BY <1>1, <1>2, <1>5, <2>1, Constants DEF Underway, Spent
  <2> QED BY <2>1, <2>2, <2>3, ResendLedger
<1>6. CASE ~frame[c].enc /\ ResendOrReject(c, WithoutBlobs(frame[c]))
  <2> DEFINE g == WithoutBlobs(frame[c])
  <2>1. g \in Frame /\ g.attempt = frame[c].attempt /\ g.strips = frame[c].strips
        /\ g.compat = frame[c].compat /\ g.enc = TRUE
    BY <1>1, WithoutBlobsFrame DEF Kept
  <2>2. ResendOrReject(c, g)
    BY <1>6
  <2> HIDE DEF g
  <2>3. g.attempt < MaxRetries /\ g.strips <= MaxStrips /\ sends[c] <= Spent(g)
    BY <1>1, <1>2, <1>6, <2>1, Constants DEF Underway, Spent
  <2> QED BY <2>1, <2>2, <2>3, ResendLedger
<1> QED BY <1>3, <1>4, <1>5, <1>6 DEF RefusedByName, RefusedVariant, RefusedReasoning

\* A backoff uses up the attempt before the next one sends.
LEMMA WakeLedger ==
  ASSUME TypeOK, SendLedger, NEW c \in Calls, Wake(c)
  PROVE  SendLedger'
<1> DEFINE g == [frame[c] EXCEPT !.attempt = @ + 1]
<1>1. /\ frame[c].attempt \in Nat /\ frame[c].strips \in Nat
      /\ frame[c].compat \in BOOLEAN /\ frame[c].enc \in BOOLEAN /\ sends[c] \in Nat
  BY InFrame DEF TypeOK, Frame
<1>2. g \in Frame /\ g.attempt = frame[c].attempt + 1 /\ g.strips = frame[c].strips
      /\ g.compat = frame[c].compat /\ g.enc = frame[c].enc
  BY InFrame DEF Frame
<1>3. LoopTop(c, g) /\ Underway(c)
  BY DEF Wake, SendLedger, LedgerOf
<1> HIDE DEF g
<1>4. g.strips <= MaxStrips /\ sends[c] <= Spent(g)
  BY <1>1, <1>2, <1>3 DEF Underway, Spent
<1> QED BY <1>2, <1>3, <1>4, LoopTopLedger

LEMMA DepartLedger ==
  ASSUME TypeOK, SendLedger, NEW c \in Calls, Depart(c)
  PROVE  SendLedger'
<1> DEFINE g == [frame[c] EXCEPT !.deadline = now + Budget]
<1>1. g \in Frame /\ g.strips = frame[c].strips
  BY InFrame, Constants DEF Frame, TypeOK, CacheTypeOK
<1>2. LoopTop(c, g) /\ sends[c] = 0 /\ g.strips = 0
  BY <1>1 DEF Depart, SendLedger, LedgerOf
<1> HIDE DEF g
<1>3. Spent(g) \in Nat
  BY <1>1 DEF Spent, Frame
<1> QED BY <1>1, <1>2, <1>3, LoopTopLedger, Constants

LEMMA BeginLedger ==
  ASSUME TypeOK, SendLedger, NEW c \in Calls, Arrive(c) \/ StripNext(c)
  PROVE  SendLedger'
<1>1. UNCHANGED sends /\ pc' = [pc EXCEPT ![c] = "strip"]
  BY DEF Arrive, StripNext, TypeOK
<1>2. sends[c] = 0
  BY DEF Arrive, StripNext, SendLedger, LedgerOf
<1>3. frame'[c].attempt = 0 /\ frame'[c].strips = 0
  <2>1. CASE Arrive(c)
    BY <2>1 DEF Arrive, TypeOK, NewFrame
  <2>2. CASE StripNext(c)
    BY <2>2, InFrame DEF StripNext, TypeOK, SendLedger, LedgerOf, Frame
  <2> QED BY <2>1, <2>2
<1>4. ASSUME NEW d \in Calls, d # c PROVE LedgerOf(d)'
  <2>1. frame'[d] = frame[d]
    BY <1>4 DEF Arrive, StripNext, TypeOK
  <2> QED BY <1>1, <1>4, <2>1 DEF LedgerOf, SendLedger, TypeOK, Underway
<1>5. LedgerOf(c)'
  BY <1>1, <1>2, <1>3, Constants DEF LedgerOf, SendLimit, TypeOK
<1> QED BY <1>4, <1>5 DEF SendLedger

LEMMA PlainEndLedger ==
  ASSUME TypeOK, SendLedger, NEW c \in Calls, PlainEnd(c)
  PROVE  SendLedger'
<1>1. CASE \E o \in {"ok", "error", "open"} : LeaveWith(c, o)
  BY <1>1, LeaveLedger
<1>2. CASE pc[c] = "wait" /\ Backoff(c)
  BY <1>2, BackoffLedger
<1> QED BY <1>1, <1>2 DEF PlainEnd, Succeed, OpenStream, EndStream, Throttled, ConnectTimeout, Broken,
                          RefusedOtherwise, Reject

LEMMA LedgerStep ==
  ASSUME TypeOK, SendLedger, [Next]_vars
  PROVE  SendLedger'
<1>1. CASE UNCHANGED <<pc, frame, sends>>
  BY <1>1, SameLedger
<1>2. CASE \E c \in Calls : CallStep(c)
  BY <1>2, BeginLedger, DepartLedger, WakeLedger, PlainEndLedger, HealLedger,
     StepsOfCall
<1> QED BY <1>1, <1>2 DEF Next, Tick, Quiet, vars

THEOREM LedgerKept == Spec => [](TypeOK /\ SendLedger)
<1>1. Init => SendLedger
  BY Constants DEF Init, SendLedger, LedgerOf, SendLimit
<1>2. TypeOK /\ SendLedger /\ [Next]_vars => SendLedger'
  BY LedgerStep
<1> QED BY <1>1, <1>2, TypeCorrect, PTL DEF Spec

\* A call reaches the upstream at most MaxRetries + MaxStrips + 2 times, whatever the
\* upstream answers and however the calls interleave (the continue statements of the
\* loops of _handle_sync and _open_upstream_stream).
THEOREM SendsAreBounded == Spec => []BoundedSends
<1>1. SendLedger => BoundedSends
  BY DEF SendLedger, LedgerOf, BoundedSends
<1> QED BY <1>1, LedgerKept, PTL

-----------------------------------------------------------------------------
(* When a call sends, and what.                                            *)

\* A step that sends is a first send, a new attempt, or a heal.
LEMMA SendingStep ==
  ASSUME TypeOK, [Next]_vars, NEW c \in Calls, sends'[c] > sends[c]
  PROVE  \/ Depart(c)
         \/ Wake(c) /\ SendWith(c, [frame[c] EXCEPT !.attempt = @ + 1]) /\ now < frame[c].deadline
         \/ /\ pc[c] = "wait" /\ now < frame[c].deadline
            /\ \/ \E t \in frame[c].body.things : SendWith(c, WithoutThing(frame[c], t))
               \/ Projectable(frame[c].body) /\ SendWith(c, WithProjection(frame[c]))
               \/ frame[c].body.blobs # "none" /\ SendWith(c, WithoutBlobs(frame[c]))
<1>1. sends[c] \in Nat /\ sends' # sends
  BY DEF TypeOK
<1>2. PICK d \in Calls : CallStep(d)
  BY <1>1 DEF Next, vars, Tick, Quiet
<1>3. PICK f \in {[frame[d] EXCEPT !.deadline = now + Budget],
                  [frame[d] EXCEPT !.attempt = @ + 1],
                  WithProjection(frame[d]), WithoutBlobs(frame[d])}
                 \union {WithoutThing(frame[d], t) : t \in Things} : SendWith(d, f)
  BY <1>1, <1>2, StepsOfCall
     DEF PlainEnd, Arrive, StripNext, Depart, Wake, Succeed, OpenStream, EndStream, Throttled,
         ConnectTimeout, Broken, RefusedOtherwise, RefusedByName, RefusedVariant,
         RefusedReasoning, LoopTop, ResendOrReject, Reject, LeaveWith, Backoff
<1>4. d = c
  BY <1>1, <1>3 DEF SendWith, TypeOK
<1>5. ~Reject(c) /\ ~LeaveWith(c, "error")
  BY <1>1 DEF Reject, LeaveWith
<1>6. CASE Wake(c)
  <2>1. LoopTop(c, [frame[c] EXCEPT !.attempt = @ + 1])
    BY <1>6 DEF Wake
  <2>2. [frame[c] EXCEPT !.attempt = @ + 1].attempt > 0
        /\ [frame[c] EXCEPT !.attempt = @ + 1].deadline = frame[c].deadline
    BY InFrame DEF Frame
  <2>3. now \in Nat /\ frame[c].deadline \in Nat
    BY InFrame DEF Frame, TypeOK, CacheTypeOK
  <2> QED BY <1>5, <1>6, <2>1, <2>2, <2>3 DEF LoopTop
<1>7. CASE \E t \in Things : RefusedByName(c, t)
  <2>1. PICK t \in Things : RefusedByName(c, t)
    BY <1>7
  <2>2. t \in frame[c].body.things /\ ResendOrReject(c, WithoutThing(frame[c], t))
    BY <1>5, <2>1 DEF RefusedByName
  <2>3. WithoutThing(frame[c], t).deadline = frame[c].deadline
    BY InFrame, WithoutThingFrame DEF Kept
  <2> QED BY <1>5, <2>1, <2>2, <2>3 DEF ResendOrReject, RefusedByName
<1>8. CASE RefusedVariant(c)
  <2>1. Projectable(frame[c].body) /\ ResendOrReject(c, WithProjection(frame[c]))
    BY <1>5, <1>8 DEF RefusedVariant
  <2>2. WithProjection(frame[c]).deadline = frame[c].deadline
    BY InFrame, WithProjectionFrame DEF Kept
  <2> QED BY <1>5, <1>8, <2>1, <2>2 DEF ResendOrReject, RefusedVariant
<1>9. CASE RefusedReasoning(c)
  <2>1. frame[c].body.blobs # "none" /\ ResendOrReject(c, WithoutBlobs(frame[c]))
    BY <1>5, <1>9 DEF RefusedReasoning
  <2>2. WithoutBlobs(frame[c]).deadline = frame[c].deadline
    BY InFrame, WithoutBlobsFrame DEF Kept
  <2> QED BY <1>5, <1>9, <2>1, <2>2 DEF ResendOrReject, RefusedReasoning
<1> QED BY <1>1, <1>2, <1>4, <1>6, <1>7, <1>8, <1>9, StepsOfCall
        DEF PlainEnd, Arrive, StripNext, Succeed, OpenStream, EndStream, Throttled, ConnectTimeout,
            Broken, RefusedOtherwise, Reject, LeaveWith, Backoff

\* Every send but a call's first starts before its deadline: the check at the top of
\* the loop and the one in front of each heal leave no way around it.
THEOREM NothingSentLate == Spec => NoSendAfterDeadline
<1>1. TypeOK /\ SendLedger /\ [Next]_vars => NoLateSend
  <2> SUFFICES ASSUME TypeOK, SendLedger, [Next]_vars, NEW c \in Calls, sends'[c] > sends[c]
               PROVE  sends[c] = 0 \/ now < frame[c].deadline
    BY DEF NoLateSend
  <2>1. CASE Depart(c)
    BY <2>1 DEF Depart, SendLedger, LedgerOf
  <2> QED BY <2>1, SendingStep
<1> QED BY <1>1, LedgerKept, PTL DEF Spec, NoSendAfterDeadline

\* What is sent again with no backoff in between is not what was refused: each heal
\* changes the body it sends.
THEOREM NothingSentBlindly == Spec => NoBlindResend
<1>1. TypeOK /\ [Next]_vars => RepairedIfResent
  <2> SUFFICES ASSUME TypeOK, [Next]_vars, NEW c \in Calls, pc[c] = "wait",
                      sends'[c] > sends[c]
               PROVE  frame'[c].body # frame[c].body
    BY DEF RepairedIfResent
  <2>1. ASSUME NEW t \in frame[c].body.things, SendWith(c, WithoutThing(frame[c], t))
        PROVE  frame'[c].body # frame[c].body
    <3>1. t \in Things
      BY InFrame DEF Body
    <3>2. WithoutThing(frame[c], t).body.things = Remedy(frame[c].body.things, t)
      <4>1. WithoutThing(frame[c], t).body
              = [frame[c].body EXCEPT !.things = Remedy(frame[c].body.things, t)]
        BY <3>1, InFrame, WithoutThingFrame
      <4> QED BY <4>1, InFrame DEF Body
    <3>3. t \notin Remedy(frame[c].body.things, t)
      BY CacheAssumption DEF Remedy
    <3>4. frame'[c] = WithoutThing(frame[c], t)
      BY <2>1 DEF SendWith, TypeOK
    <3> QED BY <3>2, <3>3, <3>4
  <2>2. CASE Projectable(frame[c].body) /\ SendWith(c, WithProjection(frame[c]))
    BY <2>2, InFrame, WithProjectionFrame DEF SendWith, TypeOK, Projectable
  <2>3. CASE frame[c].body.blobs # "none" /\ SendWith(c, WithoutBlobs(frame[c]))
    <3>1. WithoutBlobs(frame[c]).body = [frame[c].body EXCEPT !.blobs = "none"]
      BY InFrame, WithoutBlobsFrame
    <3>2. WithoutBlobs(frame[c]).body.blobs = "none"
      BY <3>1, InFrame DEF Body
    <3>3. frame'[c] = WithoutBlobs(frame[c])
      BY <2>3 DEF SendWith, TypeOK
    <3> QED BY <2>3, <3>2, <3>3
  <2> QED BY <2>1, <2>2, <2>3, SendingStep DEF Depart, Wake
<1> QED BY <1>1, TypeCorrect, PTL DEF Spec, NoBlindResend

-----------------------------------------------------------------------------
(* The learned cache.                                                      *)

LEMMA RecordKeepsKeys ==
  ASSUME CacheTypeOK, OneLessonPerKey, NEW m \in Models, NEW t \in Things, Record(m, t)
  PROVE  OneLessonPerKey'
<1> DEFINE old == Held(m, t)
           at == IF old = {} THEN nextPos ELSE (CHOOSE e \in old : TRUE).pos
           new == [model |-> m, thing |-> t, expires |-> now + TTL, pos |-> at]
<1>1. /\ entries' = (entries \ old) \union {new}
      /\ nextPos' = IF old = {} THEN nextPos + 1 ELSE nextPos
  BY DEF Record
<1>2. \A e \in entries : e.pos \in Nat /\ e.pos < nextPos
  BY DEF CacheTypeOK, Lesson, OneLessonPerKey
<1>3. old \subseteq entries
      /\ \A e \in entries : e.model = m /\ Path[e.thing] = Path[t] <=> e \in old
  BY DEF Held
<1>4. \A d, e \in old : d = e
  BY <1>3 DEF Held, OneLessonPerKey
<1>5. at \in Nat /\ at < nextPos' /\ \A e \in entries \ old : e.pos # at
  <2>1. CASE old = {}
    BY <1>1, <1>2, <2>1 DEF CacheTypeOK
  <2>2. CASE old # {}
    <3>1. PICK o \in old : at = o.pos
      BY <2>2
    <3> QED BY <1>1, <1>2, <1>3, <2>2, <3>1 DEF OneLessonPerKey
  <2> QED BY <2>1, <2>2
<1>6. nextPos' >= nextPos /\ nextPos \in Nat /\ nextPos' \in Nat
  BY <1>1 DEF CacheTypeOK
<1>7. new.model = m /\ new.thing = t /\ new.pos = at
  OBVIOUS
<1> HIDE DEF at, new, old
<1>8. \A d, e \in entries' : d.model = e.model /\ Path[d.thing] = Path[e.thing] => d = e
  BY <1>1, <1>3, <1>7 DEF OneLessonPerKey
<1>9. \A d, e \in entries' : d.pos = e.pos => d = e
  BY <1>1, <1>5, <1>7 DEF OneLessonPerKey
<1>10. \A e \in entries' : e.pos < nextPos'
  BY <1>1, <1>2, <1>5, <1>6, <1>7
<1> QED BY <1>8, <1>9, <1>10 DEF OneLessonPerKey

LEMMA LookupKeepsKeys ==
  ASSUME OneLessonPerKey, NEW m \in Models, Lookup(m)
  PROVE  OneLessonPerKey'
<1>1. entries' \subseteq entries /\ nextPos' = nextPos
  BY DEF Lookup, Live
<1> QED BY <1>1 DEF OneLessonPerKey

\* A step looks the cache up, records one lesson, or leaves it as it is.
LEMMA CacheStep ==
  ASSUME TypeOK, [Next]_vars
  PROVE  \/ UNCHANGED <<entries, nextPos, namedAt>>
         \/ /\ UNCHANGED <<now, namedAt>>
            /\ \E m \in Models : Lookup(m)
         \/ /\ UNCHANGED now
            /\ \E m \in Models, t \in Things :
                 Record(m, t) /\ namedAt' = [namedAt EXCEPT ![m][t] = now]
<1>1. ASSUME NEW c \in Calls, Arrive(c)
      PROVE  \/ UNCHANGED <<entries, nextPos, namedAt>>
             \/ UNCHANGED <<now, namedAt>> /\ \E m \in Models : Lookup(m)
  BY <1>1, CallAssumption DEF Arrive, Request, cacheVars
<1>2. ASSUME NEW c \in Calls, NEW t \in Things, RefusedByName(c, t)
      PROVE  \/ UNCHANGED <<entries, nextPos, namedAt>>
             \/ UNCHANGED now /\ \E m \in Models : 
                  Record(m, t) /\ namedAt' = [namedAt EXCEPT ![m][t] = now]
  BY <1>2, InFrame DEF RefusedByName
<1>3. ASSUME NEW c \in Calls,
             \/ StripNext(c) \/ Depart(c) \/ Wake(c) \/ PlainEnd(c)
             \/ RefusedVariant(c) \/ RefusedReasoning(c)
      PROVE  UNCHANGED <<entries, nextPos, namedAt>>
  BY <1>3 DEF PlainEnd, StripNext, Depart, Wake, Succeed, OpenStream, EndStream, Throttled,
              ConnectTimeout, Broken, RefusedOtherwise, RefusedVariant, RefusedReasoning,
              cacheAndClock
<1>4. CASE Tick \/ Quiet \/ UNCHANGED vars
  BY <1>4 DEF Tick, Quiet, vars, cacheVars
<1> QED BY <1>1, <1>2, <1>3, <1>4, StepsOfCall DEF Next

\* The table is a dict of dicts whatever the calls do to it at once: one lesson per model
\* and path, in a total insertion order (record and lookup, unsupported_param_cache.py).
THEOREM LessonsAreKeyed == Spec => []OneLessonPerKey
<1>1. Init => OneLessonPerKey
  BY DEF Init, CacheInit, OneLessonPerKey
<1>2. TypeOK /\ OneLessonPerKey /\ [Next]_vars => OneLessonPerKey'
  <2> SUFFICES ASSUME TypeOK, OneLessonPerKey, [Next]_vars PROVE OneLessonPerKey'
    OBVIOUS
  <2>1. CASE UNCHANGED <<entries, nextPos, namedAt>>
    BY <2>1 DEF OneLessonPerKey
  <2> QED BY <2>1, CacheStep, RecordKeepsKeys, LookupKeepsKeys DEF TypeOK
<1> QED BY <1>1, <1>2, TypeCorrect, PTL DEF Spec

-----------------------------------------------------------------------------
(* The bodies.  That a body is altered only where it was refused does not    *)
(* carry itself: a lesson waiting to be applied must stand for a refusal the *)
(* request is entitled to rely on, and so must the lessons in the cache.     *)

\* A lesson stands for a refusal, and does not outlive it by more than a TTL.
LessonSound(named, e) == /\ named[e.model][e.thing] # Never
                         /\ e.expires <= named[e.model][e.thing] + TTL

FrameSound(n, named, f) ==
  /\ f.arrived <= n
  /\ \A e \in f.todo : RefusedFor(named, f, e.thing)
  /\ f.body.hidden \subseteq f.req.body.hidden
  /\ FaithfulBody(named, f)

Soundness ==
  /\ \A e \in entries : LessonSound(namedAt, e)
  /\ \A m \in Models, t \in Things : namedAt[m][t] <= now
  /\ \A c \in Calls : FrameSound(now, namedAt, frame[c])

\* A later history keeps what an earlier one justified.
Later(new, old) == \A m \in Models, t \in Things :
  old[m][t] # Never => new[m][t] # Never /\ new[m][t] >= old[m][t]

Histories == [Models -> [Things -> Nat \union {Never}]]

LEMMA LaterRefusal ==
  ASSUME NEW old \in Histories, NEW new \in Histories, Later(new, old),
         NEW f \in Frame, NEW t \in Things, RefusedFor(old, f, t)
  PROVE  RefusedFor(new, f, t)
<1>1. f.req.model \in Models /\ f.arrived \in Nat
  BY DEF Frame, Request
<1>2. /\ old[f.req.model][t] \in Nat \union {Never}
      /\ new[f.req.model][t] \in Nat \union {Never}
  BY <1>1 DEF Histories
<1> QED BY <1>1, <1>2, Constants DEF RefusedFor, Later, Never

LEMMA LaterSound ==
  ASSUME NEW n, NEW old \in Histories, NEW new \in Histories, Later(new, old),
         NEW f \in Frame, FrameSound(n, old, f)
  PROVE  FrameSound(n, new, f)
<1>1. /\ f.body.things \subseteq Things /\ f.req.body.things \subseteq Things
      /\ \A e \in f.todo : e.thing \in Things
  BY DEF Frame, Request, Body, Lesson
<1>2. \A t \in Things : RefusedFor(old, f, t) => RefusedFor(new, f, t)
  BY LaterRefusal
<1>3. FaithfulBody(new, f)
  BY <1>1, <1>2, Constants DEF FrameSound, FaithfulBody
<1> QED BY <1>1, <1>2, <1>3 DEF FrameSound

\* Time passing does not make a frame unsound.
LEMMA TimeSound ==
  ASSUME NEW f \in Frame, NEW named, NEW n \in Nat, NEW k \in Nat, k >= n,
         FrameSound(n, named, f)
  PROVE  FrameSound(k, named, f)
  BY DEF FrameSound, Frame

\* Applying a remedy for a thing that was refused keeps a frame sound.
LEMMA RemedySound ==
  ASSUME NEW n, NEW named, NEW f \in Frame, NEW g \in Frame, NEW t \in Things,
         FrameSound(n, named, f), RefusedFor(named, f, t),
         g.req = f.req, g.arrived = f.arrived, g.todo \subseteq f.todo,
         g.body = [f.body EXCEPT !.things = Remedy(f.body.things, t)]
  PROVE  FrameSound(n, named, g)
<1>1. /\ g.body.things = Remedy(f.body.things, t)
      /\ g.body.hidden = f.body.hidden
  BY DEF Frame, Body
<1>2. \A u : RefusedFor(named, g, u) <=> RefusedFor(named, f, u)
  BY DEF RefusedFor
<1>3. FaithfulBody(named, g)
  <2>1. ASSUME NEW u \in g.req.body.things, u \notin g.body.things
        PROVE  RefusedFor(named, g, u)
    BY <1>1, <1>2, <2>1 DEF FrameSound, FaithfulBody, Remedy
  <2>2. ASSUME NEW u \in g.body.things, u \notin g.req.body.things
        PROVE  \/ u \in g.req.body.hidden
               \/ \E v \in DOMAIN Rename : Rename[v] = u /\ RefusedFor(named, g, v)
    BY <1>1, <1>2, <2>2 DEF FrameSound, FaithfulBody, Remedy
  <2> QED BY <2>1, <2>2 DEF FaithfulBody
<1> QED BY <1>1, <1>2, <1>3 DEF FrameSound

\* So does projecting, which only lifts what the client hid.
LEMMA ProjectionSound ==
  ASSUME NEW n, NEW named, NEW f \in Frame, FrameSound(n, named, f)
  PROVE  FrameSound(n, named, WithProjection(f))
<1> DEFINE g == WithProjection(f)
<1>1. Kept(g, f) /\ g.body = Projected(f.body)
  BY WithProjectionFrame
<1>2. g.body.things = f.body.things \union f.body.hidden /\ g.body.hidden = {}
  BY <1>1 DEF Projected
<1> HIDE DEF g
<1>3. \A u : RefusedFor(named, g, u) <=> RefusedFor(named, f, u)
  BY <1>1 DEF RefusedFor, Kept
<1>4. FrameSound(n, named, g)
  BY <1>1, <1>2, <1>3 DEF FrameSound, FaithfulBody, Kept
<1> QED BY <1>4 DEF g

LEMMA BlobsSound ==
  ASSUME NEW n, NEW named, NEW f \in Frame, FrameSound(n, named, f)
  PROVE  FrameSound(n, named, WithoutBlobs(f))
<1> DEFINE g == WithoutBlobs(f)
<1>1. Kept(g, f) /\ g.body = [f.body EXCEPT !.blobs = "none"]
  BY WithoutBlobsFrame
<1>2. g.body.things = f.body.things /\ g.body.hidden = f.body.hidden
  BY <1>1 DEF Frame, Body
<1> HIDE DEF g
<1>3. \A u : RefusedFor(named, g, u) <=> RefusedFor(named, f, u)
  BY <1>1 DEF RefusedFor, Kept
<1>4. FrameSound(n, named, g)
  BY <1>1, <1>2, <1>3 DEF FrameSound, FaithfulBody, Kept
<1> QED BY <1>4 DEF g

\* A frame is as sound as its request, arrival, body and pending lessons are.
LEMMA SameSound ==
  ASSUME NEW n, NEW named, NEW f \in Frame, NEW g \in Frame, FrameSound(n, named, f),
         g.req = f.req, g.arrived = f.arrived, g.body = f.body, g.todo = f.todo
  PROVE  FrameSound(n, named, g)
  BY DEF FrameSound, FaithfulBody, RefusedFor

LEMMA NewFrameSound ==
  ASSUME NEW n \in Nat, NEW named, NEW r, NEW at \in 0..n
  PROVE  FrameSound(n, named, NewFrame(r, at))
  BY DEF FrameSound, FaithfulBody, NewFrame

LEMMA NoFrameSound ==
  ASSUME NEW n \in Nat, NEW named
  PROVE  FrameSound(n, named, NoFrame)
  BY NewFrameSound DEF NoFrame

LEMMA ClockStep ==
  ASSUME TypeOK, [Next]_vars
  PROVE  now \in Nat /\ now' \in Nat /\ now' >= now
<1>1. now' = now \/ now' = now + 1
  BY DEF Next, CallStep, AttemptEnds, Arrive, StripNext, Depart, Wake, Succeed, OpenStream, EndStream, Throttled,
         ConnectTimeout, Broken, RefusedOtherwise, RefusedByName, RefusedVariant,
         RefusedReasoning, Tick, Quiet, vars, cacheAndClock
<1> QED BY <1>1 DEF TypeOK, CacheTypeOK

\* The history only grows later, and the cache stays within it.
LEMMA HistoryStep ==
  ASSUME TypeOK, Soundness, [Next]_vars
  PROVE  /\ namedAt \in Histories /\ namedAt' \in Histories
         /\ Later(namedAt', namedAt)
         /\ \A m \in Models, t \in Things : namedAt'[m][t] <= now'
         /\ \A e \in entries' : LessonSound(namedAt', e)
<1>1. namedAt \in Histories /\ namedAt' \in Histories
  BY TypeStep DEF TypeOK, Histories
<1>2. now \in Nat /\ now' \in Nat /\ now' >= now
  BY ClockStep
<1>3. \A m \in Models, t \in Things : namedAt[m][t] \in Nat \union {Never}
  BY <1>1 DEF Histories
<1>4. \A e \in entries : e \in Lesson /\ e.model \in Models /\ e.thing \in Things
  BY DEF TypeOK, CacheTypeOK, Lesson
<1>5. CASE UNCHANGED namedAt /\ entries' \subseteq entries
  BY <1>1, <1>2, <1>3, <1>5 DEF Later, Soundness, LessonSound, Never
<1>6. ASSUME NEW m \in Models, NEW t \in Things, UNCHANGED now,
             Record(m, t), namedAt' = [namedAt EXCEPT ![m][t] = now]
      PROVE  /\ Later(namedAt', namedAt)
             /\ \A n \in Models, u \in Things : namedAt'[n][u] <= now'
             /\ \A e \in entries' : LessonSound(namedAt', e)
  <2>1. \A n \in Models, u \in Things :
          namedAt'[n][u] = IF n = m /\ u = t THEN now ELSE namedAt[n][u]
    BY <1>1, <1>6 DEF Histories
  <2>2. Later(namedAt', namedAt)
    BY <1>2, <1>3, <2>1 DEF Later, Soundness, Never
  <2>3. \A n \in Models, u \in Things : namedAt'[n][u] <= now'
    BY <1>2, <1>3, <1>6, <2>1 DEF Soundness
  <2>4. ASSUME NEW e \in entries' PROVE LessonSound(namedAt', e)
    <3>1. CASE e \in entries
      <4>1. LessonSound(namedAt, e) /\ e.expires \in Nat
        BY <1>4, <3>1 DEF Soundness, Lesson
      <4>2. /\ namedAt[e.model][e.thing] \in Nat
            /\ namedAt'[e.model][e.thing] \in Nat
            /\ namedAt'[e.model][e.thing] >= namedAt[e.model][e.thing]
        BY <1>2, <1>3, <1>4, <2>1, <3>1, <4>1 DEF LessonSound, Soundness, Never
      <4> QED BY <4>1, <4>2, Constants DEF LessonSound, Never
    <3>2. CASE e.model = m /\ e.thing = t /\ e.expires = now + TTL
      BY <1>2, <2>1, <3>2, Constants DEF LessonSound, Never
    <3> QED BY <1>6, <3>1, <3>2 DEF Record
  <2> QED BY <2>2, <2>3, <2>4
<1>7. CASE \E m \in Models : Lookup(m) /\ UNCHANGED namedAt
  BY <1>5, <1>7 DEF Lookup, Live
<1> QED BY <1>1, <1>5, <1>6, <1>7, CacheStep

\* The frame a call leaves behind is sound for the history it leaves behind.
LEMMA FrameStep ==
  ASSUME TypeOK, Soundness, [Next]_vars, NEW c \in Calls, CallStep(c)
  PROVE  FrameSound(now, namedAt', frame'[c])
<1> DEFINE f == frame[c]
<1>1. f \in Frame /\ frame'[c] \in Frame /\ now \in Nat
  BY TypeStep DEF TypeOK, CacheTypeOK
<1>2. FrameSound(now, namedAt', f)
  BY <1>1, HistoryStep, LaterSound DEF Soundness
<1>3. CASE frame'[c] = NoFrame
  BY <1>1, <1>3, NoFrameSound
<1>4. CASE /\ frame'[c].req = f.req /\ frame'[c].arrived = f.arrived
           /\ frame'[c].body = f.body /\ frame'[c].todo = f.todo
  BY <1>1, <1>2, <1>4, SameSound
<1>5. CASE Arrive(c)
  <2>1. PICK r \in Requests :
          \/ frame' = [frame EXCEPT ![c] = [NewFrame(r, now) EXCEPT !.todo = Live(r.model)]]
          \/ frame' = [frame EXCEPT ![c] = NewFrame(r, now)]
    BY <1>5 DEF Arrive
  <2>2. UNCHANGED namedAt
    BY <1>5 DEF Arrive
  <2>3. FrameSound(now, namedAt, NewFrame(r, now))
    BY <1>1, NewFrameSound
  <2>4. ASSUME NEW e \in Live(r.model)
        PROVE  RefusedFor(namedAt, NewFrame(r, now), e.thing)
    <3>1. e \in entries /\ e.model = r.model /\ e.expires > now /\ e \in Lesson
      BY DEF Live, TypeOK, CacheTypeOK
    <3>2. LessonSound(namedAt, e) /\ namedAt[e.model][e.thing] \in Nat \union {Never}
      BY <3>1 DEF Soundness, TypeOK, Lesson
    <3>3. NewFrame(r, now).arrived = now /\ NewFrame(r, now).req = r
      BY DEF NewFrame
    <3> QED BY <1>1, <3>1, <3>2, <3>3, Constants DEF LessonSound, RefusedFor, Lesson, Never
  <2>5. FrameSound(now, namedAt, [NewFrame(r, now) EXCEPT !.todo = Live(r.model)])
    BY <2>3, <2>4 DEF FrameSound, FaithfulBody, RefusedFor, NewFrame
  <2> QED BY <2>1, <2>2, <2>3, <2>5 DEF TypeOK
<1>6. CASE StripNext(c)
  <2>1. PICK e \in f.todo :
          frame' = [frame EXCEPT ![c].body.things = Remedy(@, e.thing), ![c].todo = @ \ {e}]
    BY <1>6 DEF StripNext
  <2>2. /\ frame'[c].req = f.req /\ frame'[c].arrived = f.arrived
        /\ frame'[c].todo \subseteq f.todo
        /\ frame'[c].body = [f.body EXCEPT !.things = Remedy(f.body.things, e.thing)]
    BY <1>1, <2>1 DEF TypeOK, Frame
  <2>3. e.thing \in Things /\ RefusedFor(namedAt', f, e.thing)
    BY <1>2, InFrame DEF FrameSound, Lesson
  <2> QED BY <1>1, <1>2, <2>2, <2>3, RemedySound
<1>7. ASSUME NEW t \in Things, RefusedByName(c, t), SendWith(c, WithoutThing(f, t)),
             namedAt' = [namedAt EXCEPT ![f.req.model][t] = now]
      PROVE  FrameSound(now, namedAt', frame'[c])
  <2>1. frame'[c] = WithoutThing(f, t)
    BY <1>7 DEF SendWith, TypeOK
  <2>2. namedAt'[f.req.model][t] = now
    BY <1>7, InFrame DEF TypeOK
  <2>3. RefusedFor(namedAt', f, t)
    BY <1>1, <1>2, <2>2, Constants, CacheAssumption DEF FrameSound, RefusedFor, Never, Frame
  <2> QED BY <1>1, <1>2, <2>1, <2>3, RemedySound, WithoutThingFrame DEF Kept
<1>8. CASE SendWith(c, WithProjection(f))
  BY <1>1, <1>2, <1>8, ProjectionSound DEF SendWith, TypeOK
<1>9. CASE SendWith(c, WithoutBlobs(f))
  BY <1>1, <1>2, <1>9, BlobsSound DEF SendWith, TypeOK
<1>10. CASE Backoff(c)
  BY <1>4, <1>10, BackoffFrame
<1>11. CASE \E o : LeaveWith(c, o)
  BY <1>3, <1>11 DEF LeaveWith, TypeOK
<1>12. CASE SendWith(c, [f EXCEPT !.deadline = now + Budget])
            \/ SendWith(c, [f EXCEPT !.attempt = @ + 1])
  BY <1>1, <1>4, <1>12 DEF SendWith, TypeOK, Frame
<1>13. CASE Depart(c) \/ Wake(c)
  BY <1>11, <1>12, <1>13 DEF Depart, Wake, LoopTop
<1>14. CASE \E t \in Things : RefusedByName(c, t)
  <2>1. PICK t \in Things : RefusedByName(c, t)
    BY <1>14
  <2>2. CASE Reject(c)
    BY <1>11, <2>2 DEF Reject
  <2>3. CASE /\ SendWith(c, WithoutThing(f, t))
             /\ namedAt' = [namedAt EXCEPT ![f.req.model][t] = now]
    BY <1>7, <2>1, <2>3
  <2> QED BY <2>1, <2>2, <2>3 DEF RefusedByName, ResendOrReject
<1> QED
  BY <1>5, <1>6, <1>8, <1>9, <1>10, <1>11, <1>13, <1>14, StepsOfCall
     DEF PlainEnd, Succeed, OpenStream, EndStream, Throttled, ConnectTimeout, Broken, RefusedOtherwise,
         RefusedVariant, RefusedReasoning, ResendOrReject, Reject

LEMMA OtherFrames ==
  ASSUME TypeOK, NEW c \in Calls, CallStep(c),
         NEW d \in Calls \ {c}
  PROVE  frame'[d] = frame[d]
<1>1. CASE \E o : LeaveWith(c, o)
  BY <1>1 DEF LeaveWith, TypeOK
<1>2. CASE \E f : SendWith(c, f)
  BY <1>2 DEF SendWith, TypeOK
<1>3. CASE Backoff(c) \/ StripNext(c) \/ Arrive(c)
  BY <1>3 DEF Backoff, StripNext, Arrive, TypeOK
<1> QED
  BY <1>1, <1>2, <1>3, StepsOfCall
     DEF PlainEnd, Depart, Wake, Succeed, OpenStream, EndStream, Throttled, ConnectTimeout, Broken,
         RefusedOtherwise, RefusedByName, RefusedVariant, RefusedReasoning, LoopTop,
         ResendOrReject, Reject

LEMMA SoundStep ==
  ASSUME TypeOK, Soundness, [Next]_vars
  PROVE  Soundness'
<1>1. now \in Nat /\ now' \in Nat /\ now' >= now
  BY ClockStep
<1>2. \A c \in Calls : frame[c] \in Frame /\ frame'[c] \in Frame
  BY TypeStep DEF TypeOK
<1>3. \A c \in Calls : FrameSound(now, namedAt', frame[c])
  BY <1>1, <1>2, HistoryStep, LaterSound DEF Soundness
<1>4. \A c \in Calls : FrameSound(now, namedAt', frame'[c])
  <2>1. CASE UNCHANGED frame
    BY <1>3, <2>1
  <2>2. ASSUME NEW c \in Calls, CallStep(c),
             NEW d \in Calls
        PROVE  FrameSound(now, namedAt', frame'[d])
    <3>1. CASE d = c
      BY <2>2, <3>1, FrameStep
    <3>2. CASE d # c
      BY <1>3, <2>2, <3>2, OtherFrames
    <3> QED BY <3>1, <3>2
  <2> QED BY <2>1, <2>2 DEF Next, Tick, Quiet, vars
<1>5. \A c \in Calls : FrameSound(now', namedAt', frame'[c])
  BY <1>1, <1>2, <1>4, TimeSound
<1> QED BY <1>5, HistoryStep DEF Soundness

\* The gateway alters a client's body only where this very model objected: however calls
\* that share the cache interleave, a thing is dropped or renamed only if the model of the
\* request refused it within the last TTL before the request, or since
\* (_prestrip_learned_unsupported and _strip_unsupported_400).
THEOREM BodiesAreFaithful == Spec => []OnlyRefusedThingsChange
<1>1. Init => Soundness
  <2> SUFFICES ASSUME Init PROVE Soundness
    OBVIOUS
  <2>1. now \in Nat /\ now = 0 /\ entries = {} /\ frame = [c \in Calls |-> NoFrame]
    BY DEF Init, CacheInit
  <2>2. \A m \in Models, t \in Things : namedAt[m][t] <= now
    BY <2>1 DEF Init, Never
  <2> QED BY <2>1, <2>2, NoFrameSound DEF Soundness
<1>2. TypeOK /\ Soundness /\ [Next]_vars => Soundness'
  BY SoundStep
<1>3. Soundness => OnlyRefusedThingsChange
  BY DEF Soundness, FrameSound, OnlyRefusedThingsChange
<1> QED BY <1>1, <1>2, <1>3, TypeCorrect, PTL DEF Spec

-----------------------------------------------------------------------------
(* The upstream gauge.                                                     *)

LEMMA HoldingFinite ==
  /\ IsFiniteSet(Holding) /\ Cardinality(Holding) \in Nat
  /\ \A c \in Calls \ Holding : Cardinality(Holding \union {c}) = Cardinality(Holding) + 1
  /\ \A c \in Holding : /\ Cardinality(Holding \ {c}) = Cardinality(Holding) - 1
                        /\ Cardinality(Holding) > 0
<1>1. Holding \subseteq Calls /\ IsFiniteSet(Calls)
  BY CallAssumption DEF Holding
<1>2. IsFiniteSet(Holding)
  BY <1>1, FS_Subset
<1>3. Cardinality(Holding) \in Nat
  BY <1>2, FS_CardinalityType
<1>4. \A c \in Calls \ Holding : Cardinality(Holding \union {c}) = Cardinality(Holding) + 1
  BY <1>2, FS_AddElement
<1>5. ASSUME NEW c \in Holding
      PROVE  Cardinality(Holding \ {c}) = Cardinality(Holding) - 1 /\ Cardinality(Holding) > 0
  <2>1. Cardinality(Holding \ {c}) = Cardinality(Holding) - 1
    BY <1>2, FS_RemoveElement
  <2>2. Cardinality(Holding \ {c}) \in Nat
    BY <1>2, FS_RemoveElement, FS_CardinalityType
  <2> QED BY <1>3, <2>1, <2>2
<1> QED BY <1>2, <1>3, <1>4, <1>5

\* A call moves to a place, and the gauge follows what it held and what it holds.
LEMMA GaugeMoves ==
  ASSUME TypeOK, SlotsMatchConnections, NEW c \in Calls, NEW p \in Phase,
         pc' = [pc EXCEPT ![c] = p],
         active' = IF p \in {"wait", "open"}
                   THEN IF c \in Holding THEN active ELSE active + 1
                   ELSE IF c \in Holding THEN active - 1 ELSE active
  PROVE  SlotsMatchConnections'
<1>1. Holding' = IF p \in {"wait", "open"} THEN Holding \union {c} ELSE Holding \ {c}
  BY DEF Holding, TypeOK
<1>2. c \in Holding => Holding \union {c} = Holding
  OBVIOUS
<1>3. c \notin Holding => Holding \ {c} = Holding
  OBVIOUS
<1> HIDE DEF Holding
<1>4. active = Cardinality(Holding) /\ SlotsMatchConnections' = (active' = Cardinality(Holding'))
  BY DEF SlotsMatchConnections
<1>5. CASE p \in {"wait", "open"}
  BY <1>1, <1>2, <1>4, <1>5, HoldingFinite
<1>6. CASE p \notin {"wait", "open"}
  BY <1>1, <1>3, <1>4, <1>6, HoldingFinite
<1> QED BY <1>5, <1>6

LEMMA ReleaseMoves ==
  ASSUME TypeOK, SlotsMatchConnections, NEW c \in Holding, Release
  PROVE  active' = active - 1
  BY HoldingFinite DEF Release, SlotsMatchConnections

LEMMA GaugeStep ==
  ASSUME TypeOK, SlotsMatchConnections, NEW c \in Calls, CallStep(c)
  PROVE  SlotsMatchConnections'
<1>1. CASE UNCHANGED active /\ pc[c] \in {"idle", "strip"} /\ pc' = [pc EXCEPT ![c] = "strip"]
  BY <1>1, GaugeMoves DEF Holding, Phase
<1>2. CASE UNCHANGED active /\ pc[c] \in {"strip", "sleep"} /\ LeaveWith(c, "error")
  BY <1>2, GaugeMoves DEF Holding, Phase, LeaveWith
<1>3. CASE active' = active + 1 /\ pc[c] \in {"strip", "sleep"} /\ \E f : SendWith(c, f)
  BY <1>3, GaugeMoves DEF Holding, Phase, SendWith
<1>4. CASE UNCHANGED active /\ pc[c] = "wait" /\ \E f : SendWith(c, f)
  BY <1>4, GaugeMoves DEF Holding, Phase, SendWith
<1>5. CASE UNCHANGED active /\ pc[c] = "wait" /\ LeaveWith(c, "open")
  BY <1>5, GaugeMoves DEF Holding, Phase, LeaveWith
<1>6. CASE Release /\ pc[c] \in {"wait", "open"} /\ \E o \in {"ok", "error"} : LeaveWith(c, o)
  <2>1. c \in Holding
    BY <1>6 DEF Holding
  <2> QED BY <1>6, <2>1, GaugeMoves, ReleaseMoves DEF Phase, LeaveWith
<1>7. CASE Release /\ pc[c] = "wait" /\ Backoff(c)
  <2>1. c \in Holding
    BY <1>7 DEF Holding
  <2> QED BY <1>7, <2>1, GaugeMoves, ReleaseMoves DEF Phase, Backoff
<1>8. StripNext(c) => pc' = [pc EXCEPT ![c] = "strip"]
  BY DEF StripNext, TypeOK
<1> QED
  BY <1>1, <1>2, <1>3, <1>4, <1>5, <1>6, <1>7, <1>8, StepsOfCall
     DEF PlainEnd, Arrive, StripNext, Depart, Wake, Succeed, OpenStream, EndStream, Throttled,
         ConnectTimeout, Broken, RefusedOtherwise, RefusedByName, RefusedVariant,
         RefusedReasoning, LoopTop, ResendOrReject, Reject

\* The health gauge is exact on every way out of an attempt: it is the number of
\* connections to the upstream, open client streams among them (_track_upstream and the
\* exit stack that _open_upstream_stream hands to generate()).
THEOREM GaugeIsExact == Spec => []SlotsMatchConnections
<1>1. Init => SlotsMatchConnections
  <2> SUFFICES ASSUME Init PROVE Holding = {} /\ active = 0
    BY FS_EmptySet DEF SlotsMatchConnections
  <2> QED BY DEF Init, Holding
<1>2. TypeOK /\ SlotsMatchConnections /\ [Next]_vars => SlotsMatchConnections'
  <2> SUFFICES ASSUME TypeOK, SlotsMatchConnections, [Next]_vars
               PROVE  SlotsMatchConnections'
    OBVIOUS
  <2>1. CASE UNCHANGED <<pc, active>>
    BY <2>1 DEF SlotsMatchConnections, Holding
  <2> QED BY <2>1, GaugeStep DEF Next, Tick, Quiet, vars
<1> QED BY <1>1, <1>2, TypeCorrect, PTL DEF Spec

-----------------------------------------------------------------------------
(* The retry count.                                                        *)

\* Inductive with what a call starts from.
RetryLedger ==
  /\ RetriesCounted
  /\ \A c \in Calls : pc[c] = "strip" => frame[c].retries = 0 /\ frame[c].attempt = 0

LEMMA RetryStep ==
  ASSUME TypeOK, RetryLedger, NEW c \in Calls, CallStep(c)
  PROVE  RetryLedger'
<1> DEFINE f == frame[c]
           Of(d) == /\ pc[d] = "wait" => frame[d].retries = frame[d].attempt
                    /\ pc[d] = "sleep" => frame[d].retries = frame[d].attempt + 1
                    /\ pc[d] = "strip" => frame[d].retries = 0 /\ frame[d].attempt = 0
<1>1. Of(c) /\ f \in Frame /\ f.attempt \in Nat /\ f.retries \in Nat
  BY InFrame DEF RetryLedger, RetriesCounted, Frame
<1>2. CASE \E o \in {"ok", "error", "open"} : LeaveWith(c, o)
  <2>1. Of(c)'
    BY <1>2 DEF LeaveWith, TypeOK
  <2>2. ASSUME NEW d \in Calls, d # c PROVE pc'[d] = pc[d] /\ frame'[d] = frame[d]
    BY <1>2, <2>2 DEF LeaveWith, TypeOK
  <2> QED BY <2>1, <2>2 DEF RetryLedger, RetriesCounted
<1>3. ASSUME NEW g, SendWith(c, g), g.retries = g.attempt
      PROVE  RetryLedger'
  <2>1. Of(c)'
    BY <1>3 DEF SendWith, TypeOK
  <2>2. ASSUME NEW d \in Calls, d # c PROVE pc'[d] = pc[d] /\ frame'[d] = frame[d]
    BY <1>3, <2>2 DEF SendWith, TypeOK
  <2> QED BY <2>1, <2>2 DEF RetryLedger, RetriesCounted
<1>4. CASE pc[c] = "wait" /\ Backoff(c)
  <2>1. Of(c)'
    BY <1>1, <1>4, BackoffFrame
  <2>2. ASSUME NEW d \in Calls, d # c PROVE pc'[d] = pc[d] /\ frame'[d] = frame[d]
    BY <1>4, <2>2 DEF Backoff, TypeOK
  <2> QED BY <2>1, <2>2 DEF RetryLedger, RetriesCounted
<1>5. CASE Arrive(c) \/ StripNext(c)
  <2>1. pc'[c] = "strip" /\ frame'[c].retries = 0 /\ frame'[c].attempt = 0
    <3>1. CASE Arrive(c)
      BY <3>1 DEF Arrive, TypeOK, NewFrame
    <3>2. CASE StripNext(c)
      BY <1>1, <3>2 DEF StripNext, TypeOK, Frame
    <3> QED BY <1>5, <3>1, <3>2
  <2>2. ASSUME NEW d \in Calls, d # c PROVE pc'[d] = pc[d] /\ frame'[d] = frame[d]
    BY <1>5, <2>2 DEF Arrive, StripNext, TypeOK
  <2> QED BY <2>1, <2>2 DEF RetryLedger, RetriesCounted
<1>6. CASE Depart(c) \/ Wake(c)
  <2>1. [f EXCEPT !.deadline = now + Budget].retries = f.retries
        /\ [f EXCEPT !.deadline = now + Budget].attempt = f.attempt
        /\ [f EXCEPT !.attempt = @ + 1].retries = f.retries
        /\ [f EXCEPT !.attempt = @ + 1].attempt = f.attempt + 1
    BY <1>1 DEF Frame
  <2> QED BY <1>1, <1>2, <1>3, <1>6, <2>1 DEF Depart, Wake, LoopTop
<1>7. CASE (\E t \in Things : RefusedByName(c, t)) \/ RefusedVariant(c) \/ RefusedReasoning(c)
  <2>1. \A t \in Things : Kept(WithoutThing(f, t), f)
    BY <1>1, WithoutThingFrame
  <2>2. Kept(WithProjection(f), f) /\ Kept(WithoutBlobs(f), f)
    BY <1>1, WithProjectionFrame, WithoutBlobsFrame
  <2> QED BY <1>1, <1>2, <1>3, <1>7, <2>1, <2>2
          DEF RefusedByName, RefusedVariant, RefusedReasoning, ResendOrReject, Reject, Kept
<1> QED BY <1>2, <1>4, <1>5, <1>6, <1>7, StepsOfCall
        DEF PlainEnd, Succeed, OpenStream, EndStream, Throttled, ConnectTimeout, Broken,
            RefusedOtherwise, Reject

\* retry_count is the number of backoffs, in either mode: a heal is not a retry
\* (_note_retry and the loops that call it).
THEOREM RetriesAreCounted == Spec => []RetriesCounted
<1>1. Init => RetryLedger
  BY DEF Init, RetryLedger, RetriesCounted
<1>2. TypeOK /\ RetryLedger /\ [Next]_vars => RetryLedger'
  <2> SUFFICES ASSUME TypeOK, RetryLedger, [Next]_vars PROVE RetryLedger'
    OBVIOUS
  <2>1. CASE UNCHANGED <<pc, frame>>
    BY <2>1 DEF RetryLedger, RetriesCounted
  <2> QED BY <2>1, RetryStep DEF Next, Tick, Quiet, vars
<1>3. RetryLedger => RetriesCounted
  BY DEF RetryLedger
<1> QED BY <1>1, <1>2, <1>3, TypeCorrect, PTL DEF Spec

-----------------------------------------------------------------------------
(* The refinement: each step is a step of CallContract or leaves the      *)
(* contract's variables alone.                                             *)

\* The refinement mapping of Abs.
PhaseBar == [c \in Calls |-> PhaseOf(c)]
FuelBar == [c \in Calls |-> SendLimit - sends[c]]

\* The contract's actions, for the mapped variables.
LEMMA MappedActions ==
  ASSUME NEW c \in Calls
  PROVE  /\ Abs!Begin(c) <=> /\ PhaseBar[c] = "idle"
                             /\ PhaseBar' = [PhaseBar EXCEPT ![c] = "working"]
                             /\ FuelBar' = FuelBar
         /\ Abs!Attempt(c) <=> /\ PhaseBar[c] = "working" /\ FuelBar[c] > 0
                               /\ FuelBar' = [FuelBar EXCEPT ![c] = @ - 1]
                               /\ PhaseBar' = PhaseBar
         /\ Abs!Answer(c) <=> /\ PhaseBar[c] = "working"
                              /\ PhaseBar' = [PhaseBar EXCEPT ![c] = "answered"]
                              /\ FuelBar' = FuelBar
         /\ Abs!Open(c) <=> /\ PhaseBar[c] = "working"
                            /\ PhaseBar' = [PhaseBar EXCEPT ![c] = "open"]
                            /\ FuelBar' = FuelBar
         /\ Abs!Close(c) <=> /\ PhaseBar[c] = "open"
                             /\ PhaseBar' = [PhaseBar EXCEPT ![c] = "answered"]
                             /\ FuelBar' = FuelBar
  BY DEF Abs!Begin, Abs!Attempt, Abs!Answer, Abs!Open, Abs!Close, PhaseBar, FuelBar

\* One call moves, the others stay where they are.
LEMMA MovedPhase ==
  ASSUME TypeOK, NEW c \in Calls, NEW p \in Phase, pc' = [pc EXCEPT ![c] = p]
  PROVE  PhaseBar' = [PhaseBar EXCEPT ![c] = PhaseOf(c)']
<1>1. ASSUME NEW d \in Calls, d # c PROVE PhaseOf(d)' = PhaseOf(d)
  BY <1>1 DEF TypeOK, PhaseOf
<1> QED BY <1>1 DEF PhaseBar

LEMMA SameFuel == UNCHANGED sends => FuelBar' = FuelBar
  BY DEF FuelBar, SendLimit

\* A call that returns answers, unless it was answering already.
LEMMA LeaveMaps ==
  ASSUME TypeOK, NEW c \in Calls, NEW o \in {"ok", "error"}, LeaveWith(c, o),
         pc[c] \in {"strip", "wait", "sleep", "open"}
  PROVE  Abs!ContractNext
<1>1. pc' = [pc EXCEPT ![c] = o] /\ o \in Phase
  BY DEF LeaveWith, Phase
<1>2. PhaseOf(c)' = "answered"
  BY <1>1 DEF PhaseOf, TypeOK
<1>3. PhaseBar' = [PhaseBar EXCEPT ![c] = "answered"] /\ FuelBar' = FuelBar
  BY <1>1, <1>2, MovedPhase, SameFuel DEF LeaveWith
<1>4. PhaseBar[c] \in {"working", "open"}
  BY DEF PhaseBar, PhaseOf
<1>5. Abs!Answer(c) \/ Abs!Close(c)
  BY <1>3, <1>4, MappedActions
<1> QED BY <1>5 DEF Abs!ContractNext

\* A send uses up one unit of fuel, and the ledger says there is one.
LEMMA SendMaps ==
  ASSUME TypeOK, SendLedger', NEW c \in Calls, NEW f, SendWith(c, f),
         pc[c] \in {"strip", "wait", "sleep"}
  PROVE  Abs!ContractNext
<1>1. sends' = [sends EXCEPT ![c] = @ + 1] /\ sends[c] \in Nat /\ SendLimit \in Nat
  BY Constants DEF SendWith, TypeOK, SendLimit
<1>2. sends'[c] <= SendLimit
  BY DEF SendLedger, LedgerOf, SendLimit
<1>3. FuelBar[c] > 0
  BY <1>1, <1>2 DEF FuelBar, TypeOK
<1>4. FuelBar' = [FuelBar EXCEPT ![c] = @ - 1]
  <2>1. ASSUME NEW d \in Calls PROVE SendLimit - sends'[d] = IF d = c THEN (SendLimit - sends[d]) - 1
                                                          ELSE SendLimit - sends[d]
    BY <1>1 DEF TypeOK
  <2> QED BY <2>1 DEF FuelBar, SendLimit
<1>5. PhaseBar' = PhaseBar
  <2>1. PhaseOf(c)' = PhaseOf(c) /\ PhaseBar[c] = PhaseOf(c)
    BY DEF SendWith, TypeOK, PhaseOf, PhaseBar
  <2>2. pc' = [pc EXCEPT ![c] = "wait"]
    BY DEF SendWith
  <2> QED BY <2>1, <2>2, MovedPhase DEF Phase, PhaseBar
<1>6. PhaseBar[c] = "working"
  BY DEF PhaseBar, PhaseOf
<1>7. Abs!Attempt(c)
  BY <1>3, <1>4, <1>5, <1>6, MappedActions
<1> QED BY <1>7 DEF Abs!ContractNext

LEMMA StutterMaps ==
  ASSUME UNCHANGED <<pc, sends>>
  PROVE  UNCHANGED Abs!contractVars
  BY DEF Abs!contractVars, PhaseOf, SendLimit

LEMMA BackoffMaps ==
  ASSUME TypeOK, NEW c \in Calls, pc[c] = "wait", Backoff(c)
  PROVE  UNCHANGED Abs!contractVars
<1>1. PhaseBar' = [PhaseBar EXCEPT ![c] = PhaseOf(c)']
  BY MovedPhase DEF Backoff, Phase
<1>2. PhaseOf(c)' = "working" /\ PhaseBar[c] = "working"
  BY DEF Backoff, TypeOK, PhaseOf, PhaseBar
<1>3. PhaseBar' = PhaseBar /\ FuelBar' = FuelBar
  BY <1>1, <1>2, SameFuel DEF PhaseBar, Backoff
<1> QED BY <1>3 DEF Abs!contractVars, PhaseBar, FuelBar

\* The call of one step, whatever the step.
LEMMA CallMaps ==
  ASSUME TypeOK, SendLedger', NEW c \in Calls, CallStep(c)
  PROVE  [Abs!ContractNext]_(Abs!contractVars)
<1>1. CASE Arrive(c)
  <2>1. PhaseOf(c)' = "working" /\ PhaseBar[c] = "idle"
    BY <1>1 DEF Arrive, TypeOK, PhaseOf, PhaseBar
  <2>2. PhaseBar' = [PhaseBar EXCEPT ![c] = "working"] /\ FuelBar' = FuelBar
    BY <1>1, <2>1, MovedPhase, SameFuel DEF Arrive, Phase
  <2> QED BY <2>1, <2>2, MappedActions DEF Abs!ContractNext
<1>2. CASE StripNext(c)
  BY <1>2, StutterMaps DEF StripNext
<1>3. CASE OpenStream(c)
  <2>1. PhaseOf(c)' = "open" /\ PhaseBar[c] = "working"
    BY <1>3 DEF OpenStream, LeaveWith, TypeOK, PhaseOf, PhaseBar
  <2>2. PhaseBar' = [PhaseBar EXCEPT ![c] = "open"] /\ FuelBar' = FuelBar
    BY <1>3, <2>1, MovedPhase, SameFuel DEF OpenStream, LeaveWith, Phase
  <2> QED BY <2>1, <2>2, MappedActions DEF Abs!ContractNext
<1>4. CASE pc[c] = "wait" /\ Backoff(c)
  BY <1>4, BackoffMaps
<1>5. CASE pc[c] \in {"strip", "wait", "sleep", "open"}
           /\ \E o \in {"ok", "error"} : LeaveWith(c, o)
  BY <1>5, LeaveMaps
<1>6. CASE pc[c] \in {"strip", "wait", "sleep"} /\ \E f : SendWith(c, f)
  BY <1>6, SendMaps
<1> QED
  BY <1>1, <1>2, <1>3, <1>4, <1>5, <1>6, StepsOfCall
     DEF PlainEnd, Depart, Wake, Succeed, EndStream, Throttled, ConnectTimeout, Broken, RefusedOtherwise,
         RefusedByName, RefusedVariant, RefusedReasoning, LoopTop, ResendOrReject, Reject

\* The upstream call keeps its contract: a bounded number of sends, none of them once it
\* is answered or its stream is open, and an answer that is final.
THEOREM CallKeepsContract == Spec => KeepsContract
<1>1. Init => Abs!ContractInit
  <2>1. SendLimit \in Nat
    BY Constants DEF SendLimit
  <2>2. Init => /\ \A c \in Calls : PhaseOf(c) = "idle"
                /\ \A c \in Calls : SendLimit - sends[c] = SendLimit
    BY <2>1 DEF Init, PhaseOf
  <2> QED BY <2>2 DEF Abs!ContractInit
<1>2. TypeOK /\ SendLedger /\ [Next]_vars => [Abs!ContractNext]_(Abs!contractVars)
  <2> SUFFICES ASSUME TypeOK, SendLedger, [Next]_vars
               PROVE  [Abs!ContractNext]_(Abs!contractVars)
    OBVIOUS
  <2>1. SendLedger'
    BY LedgerStep
  <2>2. CASE UNCHANGED <<pc, sends>>
    BY <2>2, StutterMaps
  <2> QED BY <2>1, <2>2, CallMaps DEF Next, Tick, Quiet, vars
<1> QED BY <1>1, <1>2, LedgerKept, PTL DEF Spec, KeepsContract, Abs!Safety
=============================================================================
