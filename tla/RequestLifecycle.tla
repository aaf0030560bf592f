-------------------------- MODULE RequestLifecycle --------------------------
(***************************************************************************)
(* One request through the middlewares: counted in, checked for the        *)
(* gateway's key, handled, answered whole or as a stream, recorded, and    *)
(* counted out (dashboard/middleware.py, api_key_auth of server.py), with  *)
(* the pass-through and the native Messages relay as its handlers.         *)
(***************************************************************************)
EXTENDS RawPassthrough, MessageRelay

CONSTANT Mixes  \* what the requests may ask for, together

VARIABLES
  kind,    \* what each request asks for
  keyed,   \* the requests that bring the gateway's key, all if it has none
  active,  \* requests in flight, of the health monitor
  begun,   \* the streams whose body was asked for by the server
  flow,    \* the handler's generator: "none", "open", "ended" or "broken"
  records, \* history: what was recorded, in order
  errorRun,    \* _consecutive_errors
  authFailed   \* _last_auth_failure_ts is set

middleware == <<active, begun, flow, records, errorRun, authFailed>>
choice == <<kind, keyed, mode, limit>>
vars == <<choice, pc, loop, reply, conns, relay, middleware>>

\* "public": excluded from the metrics and from the key check; "listing": excluded from
\* the metrics only; "other": no model endpoint; the rest are model endpoints, "native"
\* a native Messages stream and "invoke" the same without streaming.
Counted == {"other", "raw", "invoke", "native"}
Looping == {"raw", "invoke"}  \* those RawPassthrough handles

ASSUME MixesAssumption ==
  /\ Streams \subseteq Requests
  /\ \A mix \in Mixes :
       /\ mix \in [Requests -> {"public", "listing"} \union Counted]
       /\ \A r \in Requests : mix[r] = "native" => r \in Streams

Init ==
  /\ kind \in Mixes
  /\ keyed \in SUBSET Requests
  /\ \A r \in Requests : kind[r] = "public" => r \notin keyed  \* none is asked for
  /\ mode \in [Requests -> {"sync", "stream", "invoke"}]
  /\ \A r \in Requests :
       mode[r] \in IF kind[r] = "raw" THEN {"sync", "stream"}
                  ELSE IF kind[r] = "invoke" THEN {"invoke"} ELSE {"stream"}
  \* only the loops read it
  /\ limit \in IF \E r \in Requests : kind[r] \in Looping THEN 0..MaxRetries ELSE {MaxRetries}
  /\ pc = [r \in Requests |-> "idle"] /\ attempt = [r \in Requests |-> 0]
  /\ late = {} /\ sends = [r \in Requests |-> 0]
  /\ lateSends = [r \in Requests |-> 0] /\ noted = [r \in Requests |-> 0]
  /\ reply = [r \in Requests |-> NoReply]
  /\ upstream = 0 /\ held = {} /\ dropped = {}
  /\ active = 0 /\ begun = {} /\ flow = [r \in Requests |-> "none"]
  /\ records = <<>> /\ errorRun = 0 /\ authFailed = FALSE
  /\ RelayInit

Go(r, where) == pc' = [pc EXCEPT ![r] = where]

-----------------------------------------------------------------------------
\* The way in

\* api_key_auth: "/", "/health" and the dashboard are open to all.
Allowed(r) == kind[r] = "public" \/ r \in keyed

\* The metrics middleware is the outer one: it counts a request in before its key is
\* looked at.
Arrive(r) ==
  /\ pc[r] = "idle"
  /\ active' = IF kind[r] \in Counted THEN active + 1 ELSE active
  /\ \/ /\ Allowed(r)
        /\ Go(r, IF kind[r] \in Looping THEN "loop" ELSE "handling")
        /\ UNCHANGED reply
     \/ /\ ~Allowed(r)
        /\ Go(r, "replied")
        /\ reply' = [reply EXCEPT ![r] = Reply(401, "whole")]
  /\ UNCHANGED <<choice, loop, conns, relay, begun, flow, records, errorRun, authFailed>>

\* Any other handler: an answer, an exception, or for a native stream its open upstream.
\* Statuses that are not recorded are not told apart.
Handle(r) ==
  /\ pc[r] = "handling"
  /\ \/ \E s \in IF kind[r] \in Counted THEN Statuses ELSE {200} : Return(r, Reply(s, "whole")) /\ UNCHANGED conns
     \/ Return(r, Raised) /\ UNCHANGED conns
     \/ /\ kind[r] = "native"
        /\ Return(r, Reply(200, "sse"))
        /\ Enter(r)
  /\ UNCHANGED <<choice, attempt, late, sends, lateSends, relay, middleware>>

-----------------------------------------------------------------------------
\* The way out

\* Variant: 4xx answers count as errors of the upstream.
CountStatusBroadly(status) ==
  /\ errorRun' = IF status >= 400 THEN errorRun + 1 ELSE 0
  /\ authFailed' = (authFailed \/ status \in {401, 403})

\* record_request: a 5xx adds to the run of errors, a 2xx or 3xx ends it.
CountStatus(status) ==
  /\ errorRun' = IF status >= 500 THEN errorRun + 1 ELSE IF status < 400 THEN 0 ELSE errorRun
  /\ authFailed' = (authFailed \/ status \in {401, 403})

\* _record: counted out and recorded with the status of the answer's head.
Record(r) ==
  /\ active' = Less(active)
  /\ records' = Append(records, [req |-> r, status |-> reply[r].status, retries |-> noted[r]])
  /\ CountStatus(reply[r].status)

\* The request is over and _record was never reached.
Miss == UNCHANGED <<active, records, errorRun, authFailed>>

\* call_next has returned the head of the answer, or raised.
Dispatch(r) ==
  /\ pc[r] = "replied"
  /\ \/ /\ kind[r] \notin Counted
        /\ Go(r, "over")
        /\ UNCHANGED <<active, records, errorRun, authFailed, flow>>
     \/ /\ kind[r] \in Counted /\ (kind[r] = "other" \/ reply[r].body \in {"raised", "whole"})
        /\ Go(r, "over") /\ Record(r)
        /\ UNCHANGED flow
     \/ /\ reply[r].body \in {"sse", "bytes"}
        /\ Go(r, IF reply[r].body = "sse" THEN "streaming" ELSE "buffering")
        /\ flow' = [flow EXCEPT ![r] = "open"]
        /\ UNCHANGED <<active, records, errorRun, authFailed>>
  /\ UNCHANGED <<choice, loop, reply, conns, relay, begun>>

\* The handler's generator runs as soon as the head is sent; it ends, or raises, and its
\* finally closes the connection.
PassBytes(r) ==
  /\ kind[r] = "raw" /\ flow[r] = "open" /\ pc[r] \in {"streaming", "buffering"}
  /\ \E how \in {"ended", "broken"} : flow' = [flow EXCEPT ![r] = how]
  /\ Leave(r)
  /\ UNCHANGED <<choice, pc, loop, reply, relay, active, begun, records, errorRun, authFailed>>

RelayFrames(r) ==
  /\ kind[r] = "native" /\ flow[r] = "open" /\ pc[r] = "streaming"
  /\ \/ /\ Chunk(r)
        /\ IF EndedBy(r) THEN Leave(r) /\ flow' = [flow EXCEPT ![r] = "ended"]
           ELSE UNCHANGED <<conns, flow>>
     \/ /\ EndOfStream(r)
        /\ Leave(r)
        /\ flow' = [flow EXCEPT ![r] = "ended"]
  /\ UNCHANGED <<choice, pc, loop, reply, active, begun, records, errorRun, authFailed>>

UpstreamTalks(r) ==
  /\ kind[r] = "native" /\ flow[r] = "open" /\ pc[r] = "streaming"
  /\ SendHalf(r) \/ UpstreamEnds(r)
  /\ UNCHANGED <<choice, pc, loop, reply, conns, middleware>>

\* A buffered answer is recorded when its body is there; when reading it raises,
\* nothing is.
Buffered(r) ==
  /\ pc[r] = "buffering" /\ flow[r] # "open"
  /\ Go(r, "over")
  /\ IF flow[r] = "broken" THEN Miss ELSE Record(r)
  /\ UNCHANGED <<choice, loop, reply, conns, relay, begun, flow>>

\* The server asks wrapped() for its first chunk, or finds the client gone before.
Begin(r) ==
  /\ pc[r] = "streaming" /\ r \notin begun
  /\ begun' = begun \union {r}
  /\ UNCHANGED <<choice, pc, loop, reply, conns, relay, active, flow, records, errorRun, authFailed>>

NeverBegun(r) ==
  /\ pc[r] = "streaming" /\ r \notin begun
  /\ Go(r, "over") /\ Miss
  \* the handler's own generator may have run already, or not
  /\ \/ r \in held /\ Drop(r) /\ flow' = [flow EXCEPT ![r] = "broken"]
     \/ UNCHANGED <<conns, flow>>
  /\ UNCHANGED <<choice, loop, reply, relay, begun>>

\* Variant: the finally of wrapped() is an else: only a whole stream is recorded.
StreamOverIfWhole(r) ==
  /\ pc[r] = "streaming" /\ r \in begun
  /\ Go(r, "over")
  /\ IF flow[r] = "ended" THEN Record(r) ELSE Miss
  /\ UNCHANGED <<choice, loop, reply, conns, relay, begun, flow>>

\* wrapped() ends with the handler's generator, or its client leaves: either way its
\* finally records.
StreamOver(r) ==
  /\ pc[r] = "streaming" /\ r \in begun
  /\ Go(r, "over")
  /\ Record(r)
  /\ UNCHANGED <<choice, loop, reply, conns, relay, begun, flow>>

\* Variant: only a generator that has ended by itself is closed.
CloseEnded(r) ==
  /\ pc[r] = "over" /\ r \in held /\ flow[r] = "ended"
  /\ Leave(r)
  /\ UNCHANGED <<choice, pc, loop, reply, relay, middleware>>

\* The handler's generator is closed after its reader has gone.
CloseGenerator(r) ==
  /\ pc[r] = "over" /\ r \in held
  /\ Leave(r)
  /\ flow' = [flow EXCEPT ![r] = "broken"]
  /\ UNCHANGED <<choice, pc, loop, reply, relay, active, begun, records, errorRun, authFailed>>

Raw(r) ==
  /\ kind[r] \in Looping
  /\ Passthrough(r) \/ Expire(r)
  /\ UNCHANGED <<kind, keyed, relay, middleware>>

Collected(r) == Collect(r) /\ UNCHANGED <<kind, keyed, relay, middleware>>

Next ==
  \E r \in Requests :
    \/ Arrive(r) \/ Handle(r) \/ Raw(r) \/ Dispatch(r)
    \/ PassBytes(r) \/ RelayFrames(r) \/ UpstreamTalks(r)
    \/ Buffered(r) \/ Begin(r) \/ NeverBegun(r) \/ StreamOver(r)
    \/ CloseGenerator(r) \/ Collected(r)

Spec == Init /\ [][Next]_vars

\* The event loop and httpx's timeouts end every attempt and every read of the
\* middlewares; nothing is assumed of how fast a client reads its stream.
FairSpec ==
  /\ Spec
  /\ \A r \in Requests :
       /\ WF_vars(Raw(r) /\ pc'[r] # pc[r]) /\ WF_vars(Handle(r)) /\ WF_vars(Dispatch(r))
       /\ WF_vars(pc[r] = "buffering" /\ PassBytes(r)) /\ WF_vars(Buffered(r))
       /\ WF_vars(flow[r] # "open" /\ (Begin(r) \/ StreamOver(r)))
       /\ WF_vars(CloseGenerator(r))

-----------------------------------------------------------------------------
TypeOK ==
  /\ pc \in [Requests -> {"idle", "loop", "sent", "drain", "asleep", "handling", "replied",
                          "streaming", "buffering", "over"}]
  /\ attempt \in [Requests -> 0..MaxRetries] /\ late \subseteq Requests
  /\ sends \in [Requests -> 0..MaxRetries] /\ noted \in [Requests -> 0..MaxRetries]
  /\ lateSends \in [Requests -> 0..MaxRetries]
  /\ upstream \in Nat /\ held \subseteq Requests /\ dropped \subseteq Requests
  /\ active \in Nat /\ begun \subseteq Requests
  /\ flow \in [Requests -> {"none", "open", "ended", "broken"}]
  /\ errorRun \in Nat /\ authFailed \in BOOLEAN

Recorded(r) == {i \in DOMAIN records : records[i].req = r}

Awaited == {r \in Requests : kind[r] \in Counted /\ pc[r] # "idle" /\ Recorded(r) = {}}
Ongoing == {r \in Requests : kind[r] \in Counted /\ pc[r] \notin {"idle", "over"}}
Reached(r) ==
  \/ reply[r].body \in {"whole", "raised"} \/ r \in begun
  \/ reply[r].body = "bytes" /\ flow[r] = "ended"

\* To be recorded and to leave the gauge of requests are one thing (_record): it happens
\* once at most, not before the request is over, and it has happened to each that is over
\* and was answered whole, ended in an exception, had its body read to the end, or had its
\* stream begun, however that stream ended and whoever left first.
CountedOutOnce ==
  /\ active = Cardinality(Awaited) /\ Ongoing \subseteq Awaited
  /\ \A r \in Requests :
       /\ Cardinality(Recorded(r)) <= 1
       /\ pc[r] = "over" /\ kind[r] \in Counted /\ Reached(r) => Recorded(r) # {}

\* middleware.py:233-234 has the counter bumped "for the duration of each request", and
\* health.py:107-108 the upstream's decremented "even if the wrapped block raises": the
\* one counts no request that is over, the other no connection that nobody will close.
GaugesComeDown == active <= Cardinality(Ongoing) /\ upstream <= Cardinality(held)

\* The upstream gauge is the connections that are open, no one of them counted twice; each
\* that a request holds is that of an attempt under way or of a generator that has not
\* ended, whichever way its other attempts went; and neither the sync loop, an invocation
\* nor a stream that was begun leaves one behind.
ConnectionsAccounted ==
  /\ upstream = Cardinality(held) + Cardinality(dropped) /\ held \intersect dropped = {}
  /\ \A r \in held :
       \/ pc[r] \in {"sent", "drain"}
       \/ reply[r].body \in {"sse", "bytes"} /\ flow[r] \in {"none", "open"}
  /\ \A r \in Requests : mode[r] # "stream" \/ r \in begun => r \notin dropped

\* What is recorded is what the client was told: the status of its answer's head, and
\* as many retries as it sent again, or for an invocation one more: the retry it noted
\* and then had no turn for.  The run of errors is the 5xx since the last success in the
\* order of recording, and an upstream's 401 has raised the flag of broken credentials.
RecordsTellTheAnswers ==
  /\ \A i \in DOMAIN records :
       LET r == records[i].req IN
         /\ records[i].status = reply[r].status
         /\ sends[r] > 0 =>
              records[i].retries \in {sends[r] - 1} \union (IF kind[r] = "invoke" THEN {sends[r]} ELSE {})
         /\ r \notin keyed => records[i].status = 401
  /\ errorRun = Cardinality({i \in DOMAIN records :
                     /\ records[i].status >= 500
                     /\ \A j \in i..Len(records) : records[j].status >= 400})
  /\ \A i \in DOMAIN records : records[i].req \in keyed /\ records[i].status = 401 => authFailed

Events(r) == Known(told[r])
Complete(r) == IF LastHalf(r).part = 1 THEN SubSeq(told[r], 1, Len(told[r]) - 1) ELSE told[r]
CleanEvents(r) == Known(Complete(r))

\* However the upstream's frames are cut into chunks, the client gets the known events
\* once each and in order, then at most one error frame; and a stream that ends without
\* a break, an exception frame or a shapeless event has passed on all of them.
RelayFaithful ==
  \A r \in Streams :
    LET fs == frames[r]
        failed == fs # <<>> /\ fs[Len(fs)] = "error"
        good == IF failed THEN SubSeq(fs, 1, Len(fs) - 1) ELSE fs
    IN /\ IsPrefix(good, Events(r))
       /\ flow[r] = "ended" /\ kind[r] = "native" =>
            /\ failed \/ (eof[r] = "clean" /\ good = CleanEvents(r))
            /\ failed => eof[r] = "broken" \/ {"exception", "shapeless"} \intersect ToSet(told[r]) # {}

\* The pass-through and the invocation keep and fulfil the contract of an upstream call:
\* no more sends than max_retries, one final answer or open stream, and always one of them.
Phase(r) == IF kind[r] \notin Looping \/ ~Allowed(r) \/ pc[r] = "idle" THEN "idle"
            ELSE IF pc[r] \in {"loop", "sent", "drain", "asleep"} THEN "working"
            ELSE IF pc[r] # "over" /\ reply[r].body \in {"sse", "bytes"} THEN "open"
            ELSE "answered"
Abs == INSTANCE CallContract WITH
  Calls <- Requests, MaxSends <- MaxRetries,
  phase <- [r \in Requests |-> Phase(r)],
  fuel <- [r \in Requests |-> MaxRetries - sends[r]]
PassthroughHonoursContract == Abs!Contract

\* An invocation looks at its deadline after the sleep, so that none of its retries is
\* sent late, also if the deadline passes while it sleeps: what it sends late is its only
\* send.  (The loops of a pass-through look at theirs before the sleep, or not at all.)
NoLateRetry ==
  \A r \in Requests :
    mode[r] = "invoke" /\ lateSends[r] > 0 => sends[r] = 1

\* A connection is given back once its reader is through with it or gone, and the
\* request is over when its stream has ended.
StreamsAreClosed ==
  \A r \in Requests :
    (pc[r] = "over" \/ flow[r] \in {"ended", "broken"}) ~> (pc[r] = "over" /\ r \notin held)
=============================================================================
