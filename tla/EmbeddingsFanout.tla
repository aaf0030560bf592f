-------------------------- MODULE EmbeddingsFanout --------------------------
(***************************************************************************)
(* The embeddings endpoint, _handle_embeddings and _embeddings_attempt of  *)
(* server.py: a client request is refused, or becomes one native request   *)
(* per text (Titan) or a single one (Cohere), sent by tasks that share a   *)
(* semaphore, a deadline and the request's retry counter, and gathered     *)
(* into one answer.                                                        *)
(***************************************************************************)
EXTENDS EmbeddingsRequest, FiniteSets, FiniteSetsExt

CONSTANTS
  Requests,       \* what a client may send
  Inputs,         \* bound: texts of a request
  MaxConcurrency, \* _EMBEDDINGS_MAX_CONCURRENCY
  MaxRetries      \* max_retries

ASSUME FanoutAssumption ==
  /\ Inputs \in Nat \ {0}
  /\ \A r \in Requests : /\ r.input.texts \in Seq(STRING) /\ Len(r.input.texts) <= Inputs
                          /\ r.dimensions \in Seq(Nat)
  /\ MaxConcurrency \in Nat \ {0}
  /\ MaxRetries \in Nat \ {0}

VARIABLES
  request,  \* the client's
  bodies,   \* native_bodies, once it is accepted
  late,     \* the shared deadline has passed
  at,       \* where each native request's task is
  attempts, \* attempts_made of each
  result,   \* what each task returned or raised
  permits,  \* what the semaphore has left
  gauge,    \* active upstream connections of the health monitor
  retries,  \* retry_count in metrics_info
  answer    \* what the client gets

vars == <<request, bodies, late, at, attempts, result, permits, gauge, retries, answer>>

given == <<request, bodies>>

Items == DOMAIN bodies
Cap == Profiles[request.model]
Given == WithDimensions(Parsed(request), Cap)

\* What a task leaves behind.  A 200 whose JSON is an object is "native": with the
\* vectors in it, or "shapeless" (render raises EmbeddingsError), or "unfloatable"
\* (rendering raises something else).  "odd" is a 200 with other JSON.
Natives == {"vectors", "shapeless", "unfloatable"}
Failures == {"gave_up", "malformed", "refused", "unexpected"}
Results == Natives \union {"odd"} \union Failures

NoAnswer == [status |-> "none", data |-> <<>>]
Error(status) == [status |-> status, data |-> <<>>]

Init ==
  /\ request \in Requests /\ bodies = <<>>
  /\ late = FALSE
  /\ at = [i \in 1..Inputs |-> "queued"]
  /\ attempts = [i \in 1..Inputs |-> 0]
  /\ result = [i \in 1..Inputs |-> "none"]
  /\ permits = MaxConcurrency
  /\ gauge = 0 /\ retries = 0
  /\ answer = NoAnswer

\* The endpoint: the model is resolved, the request parsed and validated.  A model the
\* registry does not know, or knows as no embeddings model, is refused as well.
Receive ==
  /\ bodies = <<>> /\ answer = NoAnswer
  /\ IF /\ request.model \in DOMAIN Profiles
        /\ Parses(request) /\ Fits(Given, Cap)
     THEN bodies' = NativeBodies(Given, Cap) /\ UNCHANGED answer
     ELSE answer' = Error("400") /\ UNCHANGED bodies
  /\ UNCHANGED <<request, late, at, attempts, result, permits, gauge, retries>>

\* The clock reaches the deadline, whatever the tasks are doing.
Expire ==
  /\ ~late /\ bodies # <<>> /\ answer = NoAnswer
  /\ late' = TRUE
  /\ UNCHANGED <<given, at, attempts, result, permits, gauge, retries, answer>>

\* async with semaphore: its waiters are served in the order of the inputs.
Acquire(i) ==
  /\ at[i] = "queued" /\ permits > 0
  /\ \A j \in Items : j < i => at[j] # "queued"
  /\ permits' = permits - 1
  /\ at' = [at EXCEPT ![i] = "loop"]
  /\ UNCHANGED <<given, late, attempts, result, gauge, retries, answer>>

\* Variant: the semaphore is not released.
LeavesHolding(i, r) ==
  /\ at' = [at EXCEPT ![i] = "done"]
  /\ result' = [result EXCEPT ![i] = r]
  /\ UNCHANGED permits

\* The task returns or raises, and leaves the semaphore.
Leaves(i, r) ==
  /\ at' = [at EXCEPT ![i] = "done"]
  /\ result' = [result EXCEPT ![i] = r]
  /\ permits' = permits + 1

\* Variant: the deadline is looked at before the first attempt too.
AttemptInTime(i) ==
  /\ at[i] = "loop"
  /\ \/ /\ ~late
        /\ attempts' = [attempts EXCEPT ![i] = @ + 1]
        /\ \/ /\ gauge' = gauge + 1
              /\ at' = [at EXCEPT ![i] = "sent"]
              /\ UNCHANGED <<result, permits>>
           \/ Leaves(i, "unexpected") /\ UNCHANGED gauge
     \/ /\ late
        /\ Leaves(i, "gave_up")
        /\ UNCHANGED <<attempts, gauge>>
  /\ UNCHANGED <<given, late, retries, answer>>

\* Variant: the deadline is not looked at again after the backoff.
AttemptAnyway(i) ==
  /\ at[i] = "loop"
  /\ attempts' = [attempts EXCEPT ![i] = @ + 1]
  /\ \/ /\ gauge' = gauge + 1
        /\ at' = [at EXCEPT ![i] = "sent"]
        /\ UNCHANGED <<result, permits>>
     \/ Leaves(i, "unexpected") /\ UNCHANGED gauge
  /\ UNCHANGED <<given, late, retries, answer>>

\* The top of the retry loop: the request goes out, or building its headers raises,
\* or the deadline has passed since the last attempt.
Attempt(i) ==
  /\ at[i] = "loop"
  /\ \/ /\ attempts[i] = 0 \/ ~late
        /\ attempts' = [attempts EXCEPT ![i] = @ + 1]
        /\ \/ /\ gauge' = gauge + 1
              /\ at' = [at EXCEPT ![i] = "sent"]
              /\ UNCHANGED <<result, permits>>
           \/ Leaves(i, "unexpected") /\ UNCHANGED gauge
     \/ /\ attempts[i] > 0 /\ late
        /\ Leaves(i, "gave_up")
        /\ UNCHANGED <<attempts, gauge>>
  /\ UNCHANGED <<given, late, retries, answer>>

\* A 200, or a status that is not retried.
Settle(i) ==
  /\ at[i] = "sent"
  /\ gauge' = gauge - 1
  /\ \E r \in Natives \union {"odd", "malformed", "refused"} : Leaves(i, r)
  /\ UNCHANGED <<given, late, attempts, retries, answer>>

\* Variant: the connection of a failed attempt stays in the gauge.
TrippedStillCounted(i) ==
  /\ at[i] = "sent"
  /\ UNCHANGED gauge
  /\ \/ /\ attempts[i] < MaxRetries /\ ~late
        /\ retries' = retries + 1
        /\ at' = [at EXCEPT ![i] = "asleep"]
        /\ UNCHANGED <<result, permits>>
     \/ Leaves(i, "gave_up") /\ UNCHANGED retries
  /\ UNCHANGED <<given, late, attempts, answer>>

\* Variant: one retry too many.
TripOnceMore(i) ==
  /\ at[i] = "sent"
  /\ gauge' = gauge - 1
  /\ \/ /\ attempts[i] <= MaxRetries /\ ~late
        /\ retries' = retries + 1
        /\ at' = [at EXCEPT ![i] = "asleep"]
        /\ UNCHANGED <<result, permits>>
     \/ Leaves(i, "gave_up") /\ UNCHANGED retries
  /\ UNCHANGED <<given, late, attempts, answer>>

\* 429/503/529, a connect timeout or a broken connection is retried while attempts and
\* time are left; any other timeout is not.
Trip(i) ==
  /\ at[i] = "sent"
  /\ gauge' = gauge - 1
  /\ \/ /\ attempts[i] < MaxRetries /\ ~late
        /\ retries' = retries + 1
        /\ at' = [at EXCEPT ![i] = "asleep"]
        /\ UNCHANGED <<result, permits>>
     \/ Leaves(i, "gave_up") /\ UNCHANGED retries
  /\ UNCHANGED <<given, late, attempts, answer>>

\* asyncio.sleep ends; the permit was kept.
Wake(i) ==
  /\ at[i] = "asleep"
  /\ at' = [at EXCEPT ![i] = "loop"]
  /\ UNCHANGED <<given, late, attempts, result, permits, gauge, retries, answer>>

\* The answer to a task that failed.
ErrorOf(r) ==
  CASE r \in {"gave_up", "malformed"} -> Error("502")
    [] r = "refused" -> Error("upstream_status")
    [] OTHER -> Error("500")

\* The first n vectors of a native response.
Vectors(i, n) == [k \in 1..n |-> Vector(bodies[i], k, Given.encoding_format)]

\* render_openai: the first vector of each of Titan's responses, or the only response's
\* as many as there are, which nobody counts: fewer than the texts, or more, for which
\* one too many stands.
Listed ==
  IF Cap.family = "titan"
  THEN {[status |-> "200", data |-> [i \in Items |-> Vectors(i, 1)[1]]]}
  ELSE {[status |-> "200", data |-> Vectors(1, n)] : n \in 0..(Len(Given.inputs) + 1)}

BadNatives == {i \in Items : result[i] \in Natives \ {"vectors"}}

\* Variant: the number of native responses is not compared with that of the inputs.
RenderAnyCount ==
  IF BadNatives # {} THEN {Error("502")}
  ELSE {[status |-> "200",
         data |-> [k \in DOMAIN s |-> Vectors(s[k], 1)[1]]] :
          s \in {SelectSeq([i \in Items |-> i], LAMBDA i : result[i] \in Natives)}}

\* render_responses: responses that are no objects are left out, and then missed; the
\* first that has no vectors decides the error.
Rendered ==
  IF \E i \in Items : result[i] \notin Natives THEN {Error("502")}
  ELSE IF BadNatives # {}
  THEN {Error(IF result[Min(BadNatives)] = "shapeless" THEN "502" ELSE "500")}
  ELSE Listed

\* gather() has them all: the first failure by index decides, else the rendering.
Answer ==
  /\ bodies # <<>> /\ answer = NoAnswer
  /\ \A i \in Items : at[i] = "done"
  /\ LET failed == {i \in Items : result[i] \in Failures}
     IN IF failed # {} THEN answer' = ErrorOf(result[Min(failed)])
        ELSE answer' \in Rendered
  /\ UNCHANGED <<given, late, at, attempts, result, permits, gauge, retries>>

Task(i) == Acquire(i) \/ Attempt(i) \/ Settle(i) \/ Trip(i) \/ Wake(i)

Next == Receive \/ Expire \/ Answer \/ \E i \in Items : Task(i)

Spec == Init /\ [][Next]_vars

\* The event loop runs whatever can run, and httpx ends every attempt one way or
\* another (the per-attempt timeout); the deadline need not come.
FairSpec ==
  Spec /\ WF_vars(Receive) /\ WF_vars(Answer) /\ \A i \in 1..Inputs : WF_vars(i \in Items /\ Task(i))

-----------------------------------------------------------------------------
TypeOK ==
  /\ request \in Requests /\ late \in BOOLEAN
  /\ at \in [1..Inputs -> {"queued", "loop", "sent", "asleep", "done"}]
  /\ attempts \in [1..Inputs -> 0..MaxRetries]
  /\ result \in [1..Inputs -> Results \union {"none"}]
  /\ permits \in 0..MaxConcurrency
  /\ gauge \in 0..Inputs
  /\ retries \in 0..(Inputs * (MaxRetries - 1))
  /\ answer.status \in {"none", "200", "400", "500", "502", "upstream_status"}

\* "a wide Titan batch can't open an unbounded number of upstream connections": what
\* the gauge shows is what is open, and never more than MaxConcurrency.
ConnectionsBounded ==
  /\ gauge = Cardinality({i \in Items : at[i] = "sent"})
  /\ gauge <= MaxConcurrency

\* "results are re-ordered to match the input ... any permanent item failure fails the
\* whole request": an answer is made only when no native request failed, in whatever
\* order they ended, and the vector at a text's place is that text's, in the
\* dimensions, task and format the client asked for or its model stands for.  Where one
\* request was made per text it has one vector for each.  Of an answer to a batch that
\* is not said: the code lists as many vectors as the provider sent.
WantedTask == IF request.model = "titan" THEN "none"
              ELSE IF request.model = "dynamic" THEN Tasks[Word(request.input_type)]
              ELSE Tasks[request.model]
Wanted == [k \in DOMAIN request.input.texts |->
             [text |-> request.input.texts[k],
              dimensions |-> IF request.dimensions = <<>> THEN 1024 ELSE request.dimensions[1],
              task |-> WantedTask, format |-> request.encoding_format]]
WholeOrError ==
  answer.status = "200" =>
    /\ \A i \in Items : result[i] = "vectors"
    /\ \A k \in DOMAIN answer.data \intersect DOMAIN Wanted : answer.data[k] = Wanted[k]
    /\ request.model = "titan" => DOMAIN answer.data = DOMAIN Wanted

\* A request is either refused as a whole, before any of it is sent, or every native
\* request made of it is one its provider takes: within the batch limit, of dimensions
\* and a task the model has, and no text left out or sent twice.
NativesAcceptable ==
  /\ answer.status = "400" => bodies = <<>>
  /\ \A i \in Items :
       LET b == bodies[i]
       IN IF request.model = "titan"
          THEN Len(b.texts) = 1 /\ b.dimensions \in {256, 512, 1024} /\ request.input_type = "absent"
          ELSE /\ Len(b.texts) \in 1..MaxBatch /\ b.dimensions \in {256, 512, 1024, 1536}
               /\ b.task \in {"search_document", "search_query", "classification", "clustering"}
  /\ bodies # <<>> =>
       FlattenSeq([i \in Items |-> bodies[i].texts]) = request.input.texts

\* Every text gets its first attempt, however long those before it held the semaphore
\* through their retries and although they share one deadline; and a failure says so
\* only after one.
EveryTextTried == answer # NoAnswer => \A i \in Items : attempts[i] >= 1

\* No text is sent again once the shared deadline has passed, also when it passed
\* during the backoff, after the decision to retry.
NoResendWhenLate ==
  [][\A i \in Items : attempts'[i] > attempts[i] /\ attempts[i] > 0 => ~late]_vars

\* Every request is answered: tasks that sleep or wait for the semaphore do not block
\* one another for ever.
Answered == <>(answer # NoAnswer)
=============================================================================
