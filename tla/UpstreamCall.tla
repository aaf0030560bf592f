---------------------------- MODULE UpstreamCall ----------------------------
(***************************************************************************)
(* The upstream call of the chat and Responses endpoints: _handle_sync and *)
(* _handle_stream/_open_upstream_stream of bedrock_gateway/server.py.      *)
(*                                                                         *)
(* Many calls run at once on one event loop and share the learned cache.   *)
(* Each one strips what the cache knows, sends, and then, by what comes    *)
(* back, answers, backs off and tries again, repairs the body a 400        *)
(* complained about and sends it at once, or gives up.  A call is one      *)
(* loop in Python; its steps here are cut where that loop awaits, so       *)
(* another call may run between any two of them.                           *)
(***************************************************************************)
EXTENDS LearnedCache

CONSTANTS
  Calls,       \* the calls of this run, each made once
  Requests,    \* what clients may ask for, see Request
  MaxRetries,  \* config retry.max_retries
  MaxStrips,   \* MAX_UNSUPPORTED_STRIPS
  BaseDelay,   \* config retry.base_delay, in ticks
  Budget,      \* timeout * _RETRY_BUDGET_FACTOR * max(1, max_retries), in ticks
  Horizon      \* bound: the clock of a run stops here

\* The self-heals a surface arms: the calls of _handle_sync and _handle_stream in
\* create_app, through is_openai_compatible_model, responses_compat_policy and
\* is_encrypted_reasoning_replayable_surface.  "plain" arms none: a chat request for an
\* Anthropic or an Azure model, an image, and the stream of a native Messages request,
\* which _handle_messages_stream opens with _open_upstream_stream.
Arms == [plain     |-> {},
         openai    |-> {"unsupported"},
         mantle    |-> {"unsupported", "encrypted"},
         mantleGpt |-> {"unsupported", "encrypted", "variant"}]

\* What the self-heals can tell apart in a body: the things it carries openly, the
\* tools inside its additional_tools items, whether its input has items the mantle
\* validator refuses ("safe": all can be projected; "unsafe": some cannot), and
\* the opaque reasoning blobs it replays.
Body == [things : SUBSET Things, hidden : SUBSET Things,
         shape : {"clean", "safe", "unsafe"},
         blobs : {"none", "bedrock", "foreign"}]

Request == [mode : {"sync", "stream"}, surface : DOMAIN Arms, model : Models, body : Body]

ASSUME CallAssumption ==
  /\ Requests \subseteq Request
  /\ Requests # {}
  /\ IsFiniteSet(Calls)
  /\ MaxRetries \in Nat
  /\ MaxStrips \in Nat
  /\ BaseDelay \in Nat
  /\ Budget \in Nat
  /\ Horizon \in Nat

VARIABLES
  pc,        \* where the coroutine of a call is, see Phase
  frame,     \* its request and local variables, gone once it returns, see Frame
  sends,     \* attempts_made
  active,    \* HealthMonitor._upstream_active
  namedAt    \* history: when a model last refused a thing and was heeded

vars == <<now, entries, nextPos, pc, frame, sends, active, namedAt>>

Never == -1
\* "open": the client has the stream; "ok" and "error": the call has its answer.
Phase == {"idle", "strip", "wait", "sleep", "open", "ok", "error"}

Frame == [req : Request,      \* the request, its body as the client sent it
          arrived : Nat,      \* when the cache was looked up for it
          body : Body,        \* payload: the body as it would be sent now
          todo : SUBSET Lesson, \* lessons the pre-strip still has to apply
          deadline : Nat,     \* _retry_deadline
          attempt : Nat, strips : Nat, compat : BOOLEAN, enc : BOOLEAN,
          wake : Nat,         \* when its backoff sleep ends
          retries : Nat]      \* metrics_info["retry_count"] of the HTTP request

NewFrame(r, at) == [req |-> r, arrived |-> at, body |-> r.body, todo |-> {}, deadline |-> 0,
                    attempt |-> 0, strips |-> 0, compat |-> FALSE, enc |-> FALSE,
                    wake |-> 0, retries |-> 0]

\* The value of frame for a call that has not begun or has returned.
NoFrame == NewFrame(CHOOSE r \in Requests : TRUE, 0)

Armed(c, heal) == heal \in Arms[frame[c].req.surface]

-----------------------------------------------------------------------------
(* The pure repairs of a body.                                             *)

\* project_mantle_input: lifts the tools of additional_tools items, repairs the
\* input items, drops the blobs Bedrock did not mint.
Projected(b) == [things |-> b.things \union b.hidden, hidden |-> {}, shape |-> "clean",
                 blobs |-> IF b.blobs = "foreign" THEN "none" ELSE b.blobs]

\* _compat_projection returns a body: something changed and nothing is unsafe.
Projectable(b) == b.shape # "unsafe" /\ Projected(b) # b

-----------------------------------------------------------------------------
(* Pieces of the loop.                                                     *)

cacheAndClock == <<now, entries, nextPos, namedAt>>

\* The coroutine returns: with an answer, or with an error response.
LeaveWith(c, outcome) ==
  /\ pc' = [pc EXCEPT ![c] = outcome]
  /\ frame' = [frame EXCEPT ![c] = NoFrame]
  /\ UNCHANGED sends

\* client.post / client.stream is entered: one more request is with the upstream.
SendWith(c, f) ==
  /\ pc' = [pc EXCEPT ![c] = "wait"]
  /\ frame' = [frame EXCEPT ![c] = f]
  /\ sends' = [sends EXCEPT ![c] = @ + 1]

\* The top of the loop in frame f: out of attempts or out of time, or one more send.
LoopTop(c, f) ==
  IF f.attempt >= MaxRetries \/ (f.attempt > 0 /\ now >= f.deadline)
  THEN LeaveWith(c, "error") /\ UNCHANGED active
  ELSE SendWith(c, f) /\ active' = active + 1

\* _note_retry, then asyncio.sleep(base * 2^attempt); a sleep past the horizon ends
\* at the horizon.
Backoff(c) ==
  LET due == now + BaseDelay * 2^frame[c].attempt
  IN /\ pc' = [pc EXCEPT ![c] = "sleep"]
     /\ frame' = [frame EXCEPT ![c].retries = @ + 1,
                               ![c].wake = IF due \in 0..Horizon THEN due ELSE Horizon]
     /\ UNCHANGED sends

\* Variant: the attempt and its caller both release the slot.
ReleaseTwice == active' = active - 2

\* dec_upstream, as the context of the attempt is left.
Release == active' = IF active > 0 THEN active - 1 ELSE active

-----------------------------------------------------------------------------
(* The steps of a call.                                                    *)

\* The endpoint calls the handler: the cache is looked up when its remediation is
\* armed (_prestrip_learned_unsupported).
Arrive(c) ==
  /\ pc[c] = "idle"
  /\ \E r \in Requests :
       IF "unsupported" \in Arms[r.surface]
       THEN /\ Lookup(r.model)
            /\ frame' = [frame EXCEPT ![c] = [NewFrame(r, now) EXCEPT !.todo = Live(r.model)]]
       ELSE /\ frame' = [frame EXCEPT ![c] = NewFrame(r, now)]
            /\ UNCHANGED cacheVars
  /\ pc' = [pc EXCEPT ![c] = "strip"]
  /\ UNCHANGED <<now, sends, active, namedAt>>

\* Variant: a pass over the lessons that does not advance.
StripInPlace(c) ==
  /\ pc[c] = "strip"
  /\ \E e \in frame[c].todo :
       /\ FirstOf(frame[c].todo, e)
       /\ frame' = [frame EXCEPT ![c].body.things = Remedy(@, e.thing)]
  /\ UNCHANGED <<cacheAndClock, pc, sends, active>>

\* strip: the next lesson, in dict order, applied outside the lock.
StripNext(c) ==
  /\ pc[c] = "strip"
  /\ \E e \in frame[c].todo :
       /\ FirstOf(frame[c].todo, e)
       /\ frame' = [frame EXCEPT ![c].body.things = Remedy(@, e.thing),
                                 ![c].todo = @ \ {e}]
  /\ UNCHANGED <<cacheAndClock, pc, sends, active>>

\* The deadline is set and the loop entered.
Depart(c) ==
  /\ pc[c] = "strip"
  /\ frame[c].todo = {}
  /\ LoopTop(c, [frame[c] EXCEPT !.deadline = now + Budget])
  /\ UNCHANGED cacheAndClock

\* 200: with a body the sync path can parse, or one it cannot (502).
Succeed(c) ==
  /\ pc[c] = "wait" /\ frame[c].req.mode = "sync"
  /\ LeaveWith(c, "ok") \/ LeaveWith(c, "error")
  /\ Release
  /\ UNCHANGED cacheAndClock

\* Variant: the exit stack is closed here as well as in generate().
OpenStreamReleasing(c) ==
  /\ pc[c] = "wait" /\ frame[c].req.mode = "stream"
  /\ LeaveWith(c, "open")
  /\ Release
  /\ UNCHANGED cacheAndClock

\* 200 on a stream: the connection and its upstream slot go to generate().
OpenStream(c) ==
  /\ pc[c] = "wait" /\ frame[c].req.mode = "stream"
  /\ LeaveWith(c, "open")
  /\ UNCHANGED <<cacheAndClock, active>>

\* Variant: a stream that breaks midway is tried again.
EndStreamRetried(c) ==
  /\ pc[c] = "open"
  /\ LeaveWith(c, "ok") \/ Backoff(c)
  /\ Release
  /\ UNCHANGED cacheAndClock

\* generate() ends: upstream EOF, a timeout midway, any other error, or the client
\* is gone; its finally closes the stack.
EndStream(c) ==
  /\ pc[c] = "open"
  /\ LeaveWith(c, "ok") \/ LeaveWith(c, "error")
  /\ Release
  /\ UNCHANGED cacheAndClock

\* 429, 503 or 529: a retry and a sleep, on the last attempt as well.
Throttled(c) ==
  /\ pc[c] = "wait"
  /\ Backoff(c)
  /\ Release
  /\ UNCHANGED cacheAndClock

\* ConnectTimeout: retried.  The stream path neither notes nor sleeps after its last
\* attempt, and gives up there; the sync path sleeps first.
ConnectTimeout(c) ==
  /\ pc[c] = "wait"
  /\ IF frame[c].req.mode = "sync" \/ frame[c].attempt < MaxRetries - 1
     THEN Backoff(c)
     ELSE LeaveWith(c, "error")
  /\ Release
  /\ UNCHANGED cacheAndClock

\* A read, write or pool timeout: the upstream may be at work on the request, so it
\* is not resent (_is_retryable_timeout).  Any other exception of the attempt: 500;
\* one raised while the headers are made comes before the slot is taken, which in one
\* step of the loop is the same as taking and leaving it.
Broken(c) ==
  /\ pc[c] = "wait"
  /\ LeaveWith(c, "error")
  /\ Release
  /\ UNCHANGED cacheAndClock

\* Variant: a while loop whose backoff forgets to count the attempt.
WakeUncounted(c) ==
  /\ pc[c] = "sleep"
  /\ now >= frame[c].wake
  /\ LoopTop(c, frame[c])
  /\ UNCHANGED cacheAndClock

\* The backoff is over: the top of the loop again.
Wake(c) ==
  /\ pc[c] = "sleep"
  /\ now >= frame[c].wake
  /\ LoopTop(c, [frame[c] EXCEPT !.attempt = @ + 1])
  /\ UNCHANGED cacheAndClock

-----------------------------------------------------------------------------
(* 400s and the self-heals.  A self-heal sends the repaired body at once, on *)
(* the same attempt number, and only before the deadline.                    *)

\* The frame that a self-heal sends: the body repaired, and the heal used up.
WithoutThing(f, t) == [f EXCEPT !.body.things = Remedy(@, t), !.strips = @ + 1]
WithProjection(f) == [f EXCEPT !.body = Projected(@), !.compat = TRUE]
WithoutBlobs(f) == [f EXCEPT !.body.blobs = "none", !.enc = TRUE]

\* The upstream's own 4xx goes to the client.
Reject(c) ==
  /\ LeaveWith(c, "error")
  /\ Release

\* Variant: a heal that does not look at the clock.
ResendAnyway(c, f) == SendWith(c, f) /\ UNCHANGED active

\* The old connection is left and the repaired frame's body sent, if there is time:
\* the slot given back is taken again, at most one await later.
ResendOrReject(c, f) ==
  IF now < f.deadline
  THEN SendWith(c, f) /\ UNCHANGED active
  ELSE Reject(c)

\* A 400 that names thing t (_strip_unsupported_400).  A thing the body holds is a
\* lesson, recorded even when it is too late to send again.
RefusedByName(c, t) ==
  /\ pc[c] = "wait"
  /\ IF Armed(c, "unsupported") /\ frame[c].strips < MaxStrips /\ t \in frame[c].body.things
     THEN /\ Record(frame[c].req.model, t)
          /\ namedAt' = [namedAt EXCEPT ![frame[c].req.model][t] = now]
          /\ ResendOrReject(c, WithoutThing(frame[c], t))
     ELSE Reject(c) /\ UNCHANGED <<entries, nextPos, namedAt>>
  /\ UNCHANGED now

\* The exact-variant 400 of the mantle validator: one projection per call.
RefusedVariant(c) ==
  /\ pc[c] = "wait"
  /\ IF Armed(c, "variant") /\ ~frame[c].compat /\ Projectable(frame[c].body)
     THEN ResendOrReject(c, WithProjection(frame[c]))
     ELSE Reject(c)
  /\ UNCHANGED cacheAndClock

\* The encrypted-reasoning 400: the blobs are dropped, once per call.
RefusedReasoning(c) ==
  /\ pc[c] = "wait"
  /\ IF Armed(c, "encrypted") /\ ~frame[c].enc /\ frame[c].body.blobs # "none"
     THEN ResendOrReject(c, WithoutBlobs(frame[c]))
     ELSE Reject(c)
  /\ UNCHANGED cacheAndClock

\* Any other status.
RefusedOtherwise(c) ==
  /\ pc[c] = "wait"
  /\ Reject(c)
  /\ UNCHANGED cacheAndClock

-----------------------------------------------------------------------------
Init ==
  /\ CacheInit
  /\ pc = [c \in Calls |-> "idle"]
  /\ frame = [c \in Calls |-> NoFrame]
  /\ sends = [c \in Calls |-> 0]
  /\ active = 0
  /\ namedAt = [m \in Models |-> [t \in Things |-> Never]]

Tick ==
  /\ now < Horizon
  /\ now' = now + 1
  /\ UNCHANGED <<cacheVars, pc, frame, sends, active, namedAt>>

\* How an attempt that is with the upstream can end.
AttemptEnds(c) ==
  \/ Succeed(c) \/ OpenStream(c) \/ Throttled(c) \/ ConnectTimeout(c)
  \/ Broken(c)
  \/ \E t \in Things : RefusedByName(c, t)
  \/ RefusedVariant(c) \/ RefusedReasoning(c) \/ RefusedOtherwise(c)

\* Every call is over and the clock has reached the horizon.
Quiet == now = Horizon /\ (\A c \in Calls : pc[c] \in {"ok", "error"}) /\ UNCHANGED vars

CallStep(c) ==
  \/ Arrive(c) \/ StripNext(c) \/ Depart(c)
  \/ AttemptEnds(c) \/ Wake(c) \/ EndStream(c)

Next == (\E c \in Calls : CallStep(c)) \/ Tick \/ Quiet

Spec == Init /\ [][Next]_vars

\* The event loop runs a coroutine that is ready, sleeps end, and httpx's connect,
\* read, write and pool timeouts end an attempt the upstream leaves silent.  Nothing
\* makes a client call, or read its stream to the end.
Fairness ==
  /\ WF_vars(Tick)
  /\ \A c \in Calls : /\ WF_vars(StripNext(c)) /\ WF_vars(Depart(c))
                       /\ WF_vars(AttemptEnds(c)) /\ WF_vars(Wake(c))

FairSpec == Spec /\ Fairness

-----------------------------------------------------------------------------
(* Properties.                                                             *)

Holding == {c \in Calls : pc[c] \in {"wait", "open"}}

\* Every variable has its type.
TypeOK ==
  /\ CacheTypeOK
  /\ pc \in [Calls -> Phase]
  /\ frame \in [Calls -> Frame]
  /\ sends \in [Calls -> Nat]
  /\ active \in Nat
  /\ namedAt \in [Models -> [Things -> Nat \union {Never}]]

\* However the upstream answers, and whichever self-heals fire, one call reaches it at
\* most MaxRetries + MaxStrips + 2 times: a heal does not consume an attempt (the
\* continue statements of the loop), and each kind is capped on its own.
SendLimit == MaxRetries + MaxStrips + 2
BoundedSends == \A c \in Calls : sends[c] <= SendLimit

\* The gateway alters a client's body only where the upstream objected: a thing that
\* is gone was refused by name, for the very model of the request, less than a TTL
\* before the request came or since; a thing that is new is the new name of a refused
\* one, or a tool the projection lifted out of the body itself.
RefusedFor(named, f, t) == LET at == named[f.req.model][t]
                           IN at # Never /\ at + TTL > f.arrived
FaithfulBody(named, f) ==
  /\ \A t \in f.req.body.things \ f.body.things : RefusedFor(named, f, t)
  /\ \A t \in f.body.things \ f.req.body.things :
       \/ t \in f.req.body.hidden
       \/ \E u \in DOMAIN Rename : Rename[u] = t /\ RefusedFor(named, f, u)
OnlyRefusedThingsChange == \A c \in Calls : FaithfulBody(namedAt, frame[c])

\* The gauge of the health monitor is the number of connections to the upstream, a
\* stream handed to its client included, on every way out of an attempt.
SlotsMatchConnections == active = Cardinality(Holding)

\* retry_count is the number of backoffs a call has begun: a self-heal is not a retry
\* and no backoff goes uncounted, in either mode.
RetriesCounted ==
  \A c \in Calls : /\ pc[c] = "wait" => frame[c].retries = frame[c].attempt
                   /\ pc[c] = "sleep" => frame[c].retries = frame[c].attempt + 1

\* No send starts at or after the call's deadline, save its first (the checks of the
\* loop top and of each self-heal).
NoLateSend ==
  \A c \in Calls :
    sends'[c] > sends[c] => sends[c] = 0 \/ now < frame[c].deadline
NoSendAfterDeadline == [][NoLateSend]_vars

\* What a 400 refused is not sent again as it was: a call that sends with no backoff
\* in between sends a different body.
RepairedIfResent ==
  \A c \in Calls :
    pc[c] = "wait" /\ sends'[c] > sends[c] => frame'[c].body # frame[c].body
NoBlindResend == [][RepairedIfResent]_vars

\* The contract of a call, which this loop implements: bounded sends, one final answer.
PhaseOf(c) == CASE pc[c] = "idle" -> "idle"
                [] pc[c] \in {"strip", "wait", "sleep"} -> "working"
                [] pc[c] = "open" -> "open"
                [] pc[c] \in {"ok", "error"} -> "answered"
Abs == INSTANCE CallContract WITH
  MaxSends <- SendLimit,
  phase <- [c \in Calls |-> PhaseOf(c)],
  fuel <- [c \in Calls |-> SendLimit - sends[c]]
KeepsContract == Abs!Safety

\* And it does come to an answer or an open stream, however the upstream behaves.
HonoursContract == Abs!Contract

\* server.py:98-99: "later requests pre-strip the same field before sending so the
\* first attempt already succeeds": what a live lesson names is not in a first send.
KnownRefusedNotSentFirst ==
  \A c \in Calls :
    pc[c] = "wait" /\ sends[c] = 1 /\ Armed(c, "unsupported") =>
      \A t \in frame[c].body.things :
        RefusedFor(namedAt, frame[c], t) => namedAt[frame[c].req.model][t] >= frame[c].arrived
=============================================================================
