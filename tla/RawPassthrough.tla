--------------------------- MODULE RawPassthrough ---------------------------
(***************************************************************************)
(* The retry loops of server.py beside the shared ones of UpstreamCall:     *)
(* _handle_raw_passthrough forwards an Anthropic upstream's bytes as they  *)
(* come, with one loop for a sync answer ("sync") and one for a stream     *)
(* whose connection is kept in an exit stack ("stream"); and               *)
(* _handle_messages_sync invokes a native Anthropic model ("invoke").      *)
(***************************************************************************)
EXTENDS Naturals, FiniteSets

CONSTANTS
  Requests,   \* the client requests
  MaxRetries  \* bound on max_retries, which the configuration does not limit

ASSUME PassthroughAssumption == IsFiniteSet(Requests) /\ MaxRetries \in Nat

VARIABLES
  mode,     \* what is asked of each request's handler
  limit,    \* max_retries
  pc,       \* where each request is
  attempt,  \* attempt
  late,     \* the requests whose retry deadline has passed
  sends,    \* history: how often each has reached the upstream
  lateSends,  \* history: those of them that began after the deadline
  noted,    \* retry_count in metrics_info
  reply,    \* what the handler returned or raised
  upstream, \* active upstream connections of the health monitor
  held,     \* requests whose connection some block or generator will close
  dropped   \* requests whose exit stack was left unclosed, until it is collected

conns == <<upstream, held, dropped>>
loop == <<attempt, late, sends, lateSends, noted>>

Retryable == {429, 503, 529}
Statuses == {200, 401, 429, 500}  \* those an upstream answers with here
Bodies == {"whole", "sse", "bytes"}
Reply(status, body) == [status |-> status, body |-> body]
NoReply == Reply(0, "none")
Raised == Reply(500, "raised")

\* Both gauges stop at zero.
Less(n) == IF n > 0 THEN n - 1 ELSE 0

Enter(r) == upstream' = upstream + 1 /\ held' = held \union {r} /\ UNCHANGED dropped
Leave(r) == upstream' = Less(upstream) /\ held' = held \ {r} /\ UNCHANGED dropped
Drop(r) == held' = held \ {r} /\ dropped' = dropped \union {r} /\ UNCHANGED upstream

\* Nobody closes a stack that a raised exception left behind, or one whose generator
\* never ran: the interpreter does when it finalizes the objects.
Collect(r) ==
  /\ r \in dropped
  /\ upstream' = Less(upstream) /\ dropped' = dropped \ {r}
  /\ UNCHANGED <<mode, limit, pc, loop, reply, held>>

Return(r, rep) ==
  /\ pc' = [pc EXCEPT ![r] = "replied"]
  /\ reply' = [reply EXCEPT ![r] = rep]
  /\ UNCHANGED noted

Backoff(r) ==
  /\ pc' = [pc EXCEPT ![r] = "asleep"]
  /\ noted' = [noted EXCEPT ![r] = @ + 1]
  /\ UNCHANGED reply

AttemptsLeft(r) == attempt[r] + 1 < limit

\* Variant: the deadline is not looked at.
RetryWhenever(r, rep) ==
  \/ AttemptsLeft(r) /\ Backoff(r)
  \/ ~AttemptsLeft(r) /\ Return(r, rep)

\* "attempt < max_retries - 1 and time.monotonic() < deadline", or the given answer.
RetryOr(r, rep) ==
  \/ AttemptsLeft(r) /\ r \notin late /\ Backoff(r)
  \/ ~(AttemptsLeft(r) /\ r \notin late) /\ Return(r, rep)

\* The deadline passes.
Expire(r) ==
  /\ pc[r] \in {"loop", "sent", "drain", "asleep"} /\ r \notin late
  /\ late' = late \union {r}
  /\ UNCHANGED <<mode, limit, pc, attempt, sends, lateSends, noted, reply, conns>>

\* Variant: an invocation ends with its attempts alone.
ExhaustedByCount(r) == attempt[r] = limit

\* _handle_messages_sync looks at its deadline at the top of the loop only.
Exhausted(r) == attempt[r] = limit \/ (mode[r] = "invoke" /\ attempt[r] > 0 /\ r \in late)

Send(r) ==
  /\ pc[r] = "loop" /\ ~Exhausted(r)
  /\ Enter(r)
  /\ sends' = [sends EXCEPT ![r] = @ + 1]
  /\ lateSends' = [lateSends EXCEPT ![r] = IF r \in late THEN @ + 1 ELSE @]
  /\ pc' = [pc EXCEPT ![r] = "sent"]
  /\ UNCHANGED <<mode, limit, attempt, late, noted, reply>>

\* The loop has no further turn: of a pass-through, only if max_retries is 0.
Unavailable(r) ==
  /\ pc[r] = "loop" /\ Exhausted(r)
  /\ Return(r, Reply(502, "whole"))
  /\ UNCHANGED <<mode, limit, attempt, late, sends, lateSends, conns>>

\* Variant: the attempt number stands still.
WakeStill(r) ==
  /\ pc[r] = "asleep"
  /\ pc' = [pc EXCEPT ![r] = "loop"]
  /\ UNCHANGED <<mode, limit, loop, reply, conns>>

Wake(r) ==
  /\ pc[r] = "asleep"
  /\ attempt' = [attempt EXCEPT ![r] = @ + 1]
  /\ pc' = [pc EXCEPT ![r] = "loop"]
  /\ UNCHANGED <<mode, limit, late, sends, lateSends, noted, reply, conns>>

\* A connect or pool timeout: nothing reached the upstream.
ConnectTimeout(r) ==
  /\ pc[r] = "sent" /\ mode[r] # "invoke"
  /\ Leave(r)
  /\ RetryOr(r, Reply(504, "whole"))
  /\ UNCHANGED <<mode, limit, attempt, late, sends, lateSends>>

\* Any other timeout: the upstream may be at work on it.
ReadTimeout(r) ==
  /\ pc[r] = "sent"
  /\ Leave(r)
  /\ Return(r, Reply(IF mode[r] = "invoke" THEN 502 ELSE 504, "whole"))
  /\ UNCHANGED <<mode, limit, attempt, late, sends, lateSends>>

\* Variant: the exit stack is not closed when the connection breaks.
BrokenUnclosed(r) ==
  /\ pc[r] = "sent" /\ mode[r] # "invoke"
  /\ IF mode[r] = "sync" THEN Leave(r) ELSE UNCHANGED conns
  /\ RetryOr(r, Reply(502, "whole"))
  /\ UNCHANGED <<mode, limit, attempt, late, sends, lateSends>>

\* Another httpx.HTTPError.
Broken(r) ==
  /\ pc[r] = "sent" /\ mode[r] # "invoke"
  /\ Leave(r)
  /\ RetryOr(r, Reply(502, "whole"))
  /\ UNCHANGED <<mode, limit, attempt, late, sends, lateSends>>

\* An exception that is no HTTPError leaves the handler; the `async with` of the sync
\* loop closes what it opened, the exit stack of the stream loop is left.
Raise(r) ==
  /\ pc[r] = "sent" /\ mode[r] # "invoke"
  /\ IF mode[r] = "sync" THEN Leave(r) ELSE Drop(r)
  /\ Return(r, Raised)
  /\ UNCHANGED <<mode, limit, attempt, late, sends, lateSends>>

\* The sync answer: the connection is closed before the status is looked at.
AnswerSync(r) ==
  /\ pc[r] = "sent" /\ mode[r] = "sync"
  /\ Leave(r)
  /\ \E s \in Statuses :
       IF s \in Retryable THEN RetryOr(r, Reply(s, "whole")) ELSE Return(r, Reply(s, "whole"))
  /\ UNCHANGED <<mode, limit, attempt, late, sends, lateSends>>

\* A throttled answer or a connect timeout of an invocation sleeps and goes on, even
\* after the last attempt: whether there is a next one is decided at the top.
InvokeAgain(r) ==
  /\ pc[r] = "sent" /\ mode[r] = "invoke"
  /\ Leave(r) /\ Backoff(r)
  /\ UNCHANGED <<mode, limit, attempt, late, sends, lateSends>>

\* Any other answer is final, a 200 without JSON is a 502, and a broken connection is
\* a 500 that is not retried.
InvokeAnswered(r) ==
  /\ pc[r] = "sent" /\ mode[r] = "invoke"
  /\ Leave(r)
  /\ \E s \in (Statuses \ Retryable) \union {500, 502} : Return(r, Reply(s, "whole"))
  /\ UNCHANGED <<mode, limit, attempt, late, sends, lateSends>>

\* The stream is open: its connection goes with generate() to whoever reads it.
OpenStream(r) ==
  /\ pc[r] = "sent" /\ mode[r] = "stream"
  /\ \E body \in {"sse", "bytes"} : Return(r, Reply(200, body))
  /\ UNCHANGED <<mode, limit, loop, conns>>

\* Another status: its body has to be read first.
RefuseStream(r) ==
  /\ pc[r] = "sent" /\ mode[r] = "stream"
  /\ \E s \in Statuses \ {200} : reply' = [reply EXCEPT ![r] = Reply(s, "unread")]
  /\ pc' = [pc EXCEPT ![r] = "drain"]
  /\ UNCHANGED <<mode, limit, loop, conns>>

\* aread() has the body: a retryable status is retried, whatever the time.
Drained(r) ==
  /\ pc[r] = "drain"
  /\ Leave(r)
  /\ LET s == reply[r].status
     IN IF s \in Retryable /\ AttemptsLeft(r)
        THEN /\ pc' = [pc EXCEPT ![r] = "asleep"]
             /\ noted' = [noted EXCEPT ![r] = @ + 1]
             /\ reply' = [reply EXCEPT ![r] = NoReply]
        ELSE Return(r, Reply(s, "whole"))
  /\ UNCHANGED <<mode, limit, attempt, late, sends, lateSends>>

\* aread() raises: it is outside of any try.
DrainFails(r) ==
  /\ pc[r] = "drain"
  /\ Drop(r)
  /\ Return(r, Raised)
  /\ UNCHANGED <<mode, limit, attempt, late, sends, lateSends>>

AttemptEnds(r) ==
  \/ ConnectTimeout(r) \/ ReadTimeout(r) \/ Broken(r) \/ Raise(r)
  \/ AnswerSync(r) \/ OpenStream(r) \/ RefuseStream(r) \/ InvokeAgain(r) \/ InvokeAnswered(r)

Passthrough(r) ==
  \/ Send(r) \/ Unavailable(r) \/ Wake(r) \/ AttemptEnds(r) \/ Drained(r) \/ DrainFails(r)
=============================================================================
